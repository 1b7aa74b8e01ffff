------------------------------- MODULE DailyRun -------------------------------
(***************************************************************************)
(* The daily job (tasks/scheduler.py), statement by statement, in one or   *)
(* more worker processes that crash and restart, with the reminders it     *)
(* sends after its COMMIT (services/notifications.py) and the requests     *)
(* that come between its statements.                                       *)
(*                                                                         *)
(* A worker runs the job once when it starts (main.py), and only then      *)
(* starts its scheduler, which fires at midnight UTC.  The job works on    *)
(* all households in one transaction.  Every definition here belongs to a  *)
(* household of its own and is due every day; who a chore is given to is   *)
(* Household's subject.  NOTIFY_URL is set.                                *)
(***************************************************************************)
EXTENDS Integers, FiniteSets

CONSTANTS
    Workers,        \* processes of the application
    Definitions,    \* recurring definitions, each in a household of its own
    DaysAhead,      \* settings.INSTANCE_GENERATION_DAYS_AHEAD
    GraceDays,      \* settings.GRACE_DAYS
    LastDay,        \* bound on the clock
    MaxFaults       \* bound on crashes and database errors

ASSUME DailyRunAssumption ==
    /\ IsFiniteSet(Workers) /\ IsFiniteSet(Definitions)
    /\ DaysAhead \in Nat /\ GraceDays \in Nat
    /\ LastDay \in Nat /\ MaxFaults \in Nat

Dates     == 0 .. (LastDay + DaysAhead)
Instances == Definitions \X Dates
Statuses  == {"none", "pending", "overdue", "closed", "cancelled"}

Steps == {"down",       \* the process does not run
          "idle",       \* it waits for requests and for midnight
          "lock", "read", "pairs", "insert", "flag", "commit",  \* run_daily_job
          "send"}       \* send_daily_reminders

VARIABLES
    today,      \* the date in UTC
    active,     \* definitions with is_active = true
    gone,       \* definitions whose household has been deleted
    first,      \* definition -> first_due_date, or -1 before it is created
    status,     \* instance -> committed status, "none" without a row
    pc,         \* worker -> its next statement
    starting,   \* workers whose scheduler has not been started yet
    due,        \* workers whose cron trigger is due
    day,        \* worker -> the date its run has read
    loaded,     \* worker -> the definitions its run has read
    fresh,      \* worker -> the instances its run adds
    flagged,    \* worker -> the instances its run has flagged
    letters,    \* worker -> newly overdue instances it has still to announce
    faults,     \* crashes and database errors so far
    announced,  \* history: instance -> how often announced as newly overdue
    crossed,    \* history: definitions deleted under a run that has read them
    excused     \* history: today's run has failed, or yesterday's was late

rows    == <<active, gone, first, status>>
draft   == <<day, loaded, fresh, flagged>>
history == <<announced, crossed, excused>>
vars    == <<today, rows, pc, starting, due, draft, letters, faults, history>>

TypeOK ==
    /\ today \in 0 .. LastDay
    /\ active \subseteq Definitions /\ gone \subseteq Definitions
    /\ first \in [Definitions -> Dates \cup {-1}]
    /\ status \in [Instances -> Statuses]
    /\ pc \in [Workers -> Steps]
    /\ starting \subseteq Workers /\ due \subseteq Workers
    /\ day \in [Workers -> 0 .. LastDay]
    /\ loaded \in [Workers -> SUBSET Definitions]
    /\ fresh \in [Workers -> SUBSET Instances]
    /\ flagged \in [Workers -> SUBSET Instances]
    /\ letters \in [Workers -> SUBSET Instances]
    /\ faults \in 0 .. MaxFaults
    /\ announced \in [Instances -> Nat]
    /\ crossed \subseteq Definitions
    /\ excused \in BOOLEAN

Init ==
    /\ today = 0
    /\ active = {} /\ gone = {}
    /\ first = [d \in Definitions |-> -1]
    /\ status = [i \in Instances |-> "none"]
    /\ pc = [w \in Workers |-> "down"]
    /\ starting = {} /\ due = {}
    /\ day = [w \in Workers |-> 0]
    /\ loaded = [w \in Workers |-> {}]
    /\ fresh = [w \in Workers |-> {}]
    /\ flagged = [w \in Workers |-> {}]
    /\ letters = [w \in Workers |-> {}]
    /\ faults = 0
    /\ announced = [i \in Instances |-> 0]
    /\ crossed = {} /\ excused = FALSE
-----------------------------------------------------------------------------
\* Between taking the advisory lock and the end of the transaction.
InTransaction == {w \in Workers : pc[w] \in {"read", "pairs", "insert", "flag", "commit"}}

\* Runs that have read the definitions, or their date, and not ended.
UnderWay == {w \in Workers : pc[w] \in {"pairs", "insert", "flag", "commit", "send"}}

\* The rows that uncommitted runs have inserted, or updated.
Inserted(w) == IF pc[w] \in {"flag", "commit"} THEN fresh[w] ELSE {}
Written     == UNION {Inserted(w) \cup flagged[w] : w \in Workers}

Goto(w, step) == pc' = [pc EXCEPT ![w] = step]

\* The job returns or raises: at a start the scheduler comes next.
EndRun(w, step) ==
    /\ Goto(w, step)
    /\ starting' = starting \ {w}
    /\ day' = [day EXCEPT ![w] = 0]
    /\ loaded' = [loaded EXCEPT ![w] = {}]
    /\ fresh' = [fresh EXCEPT ![w] = {}]
    /\ flagged' = [flagged EXCEPT ![w] = {}]

\* Mutant: a process starts without a run.
StartWithoutRun(w) ==
    /\ pc[w] = "down"
    /\ Goto(w, "idle")
    /\ UNCHANGED <<today, rows, starting, due, draft, letters, faults, history>>

\* lifespan: the process starts with a run of the job.
Start(w) ==
    /\ pc[w] = "down"
    /\ Goto(w, "lock")
    /\ starting' = starting \cup {w}
    /\ UNCHANGED <<today, rows, due, draft, letters, faults, history>>

\* The cron trigger.  While a run of this scheduler is going on, APScheduler
\* skips the next one (max_instances = 1).
CronFires(w) ==
    /\ w \in due
    /\ due' = due \ {w}
    /\ IF pc[w] = "idle" THEN Goto(w, "lock") ELSE UNCHANGED pc
    /\ UNCHANGED <<today, rows, starting, draft, letters, faults, history>>

\* Mutant: every worker runs the job.
TryLockForAll(w) ==
    /\ pc[w] = "lock"
    /\ Goto(w, "read") /\ UNCHANGED <<starting, draft>>
    /\ UNCHANGED <<today, rows, due, letters, faults, history>>

\* pg_try_advisory_xact_lock: skipped while another worker has the lock.
TryLock(w) ==
    /\ pc[w] = "lock"
    /\ IF InTransaction = {} THEN Goto(w, "read") /\ UNCHANGED <<starting, draft>>
                             ELSE EndRun(w, "idle")
    /\ UNCHANGED <<today, rows, due, letters, faults, history>>

\* Mutant: deleted definitions are read too.
ReadAllDefinitions(w) ==
    /\ pc[w] = "read"
    /\ day' = [day EXCEPT ![w] = today]
    /\ loaded' = [loaded EXCEPT ![w] = {d \in Definitions \ gone : first[d] >= 0}]
    /\ Goto(w, "pairs")
    /\ UNCHANGED <<today, rows, starting, due, fresh, flagged, letters, faults, history>>

\* generate_chore_instances: the date, and the active definitions.
ReadDefinitions(w) ==
    /\ pc[w] = "read"
    /\ day' = [day EXCEPT ![w] = today]
    /\ loaded' = [loaded EXCEPT ![w] = active]
    /\ Goto(w, "pairs")
    /\ UNCHANGED <<today, rows, starting, due, fresh, flagged, letters, faults, history>>

\* The due dates that have no instance yet.
ReadPairs(w) ==
    /\ pc[w] = "pairs"
    /\ fresh' = [fresh EXCEPT ![w] =
         {i \in Instances : /\ i[1] \in loaded[w]
                            /\ i[2] >= first[i[1]] /\ i[2] >= day[w] - GraceDays
                            /\ i[2] <= day[w] + DaysAhead
                            /\ status[i] = "none"}]
    /\ Goto(w, "insert")
    /\ UNCHANGED <<today, rows, starting, due, day, loaded, flagged, letters, faults, history>>

\* A row that exists violates the unique constraint, a household that does
\* not its foreign key.
Violates(w) == \E i \in fresh[w] : status[i] # "none" \/ i[1] \in gone

\* An error rolls everything back, for all households; the job is not
\* tried again before the next midnight or start.
RollBack(w) ==
    /\ EndRun(w, "idle")
    /\ excused' = TRUE
    /\ UNCHANGED <<announced, crossed>>

Insert(w) ==
    /\ pc[w] = "insert"
    /\ fresh[w] \cap Written = {}           \* waits for an uncommitted duplicate
    /\ IF Violates(w) THEN RollBack(w)
                      ELSE Goto(w, "flag") /\ UNCHANGED <<starting, draft, history>>
    /\ UNCHANGED <<today, rows, due, letters, faults>>

\* flag_overdue_instances reads the date again, and the run's own inserts.
Flag(w) ==
    /\ pc[w] = "flag"
    /\ flagged' = [flagged EXCEPT ![w] =
         {i \in Instances : i[2] < today /\ (status[i] = "pending" \/ i \in fresh[w])}]
    /\ Goto(w, "commit")
    /\ UNCHANGED <<today, rows, starting, due, day, loaded, fresh, letters, faults, history>>

\* Mutant: everything overdue is announced, not what has become so now.
LetterOfAllOverdue(w) == flagged[w] \cup {i \in Instances : status[i] = "overdue"}

\* _gather_reminder_summaries, of what this run has flagged.
Letter(w) == flagged[w]

Commit(w) ==
    /\ pc[w] = "commit"
    /\ status' = [i \in Instances |->
         IF i \in flagged[w] THEN "overdue"
         ELSE IF i \in fresh[w] THEN "pending" ELSE status[i]]
    /\ letters' = [letters EXCEPT ![w] = Letter(w)]
    /\ EndRun(w, "send")
    /\ UNCHANGED <<today, active, gone, first, due, faults, history>>

\* One POST per household, in any order; a failed one is logged and that is all.
Send(w, d, delivered) ==
    LET ours == {i \in letters[w] : i[1] = d}
    IN  /\ pc[w] = "send" /\ ours # {}
        /\ letters' = [letters EXCEPT ![w] = letters[w] \ ours]
        /\ announced' = IF ~ delivered THEN announced
                        ELSE [i \in Instances |->
                                IF i \in ours THEN announced[i] + 1 ELSE announced[i]]
        /\ UNCHANGED <<today, rows, pc, starting, due, draft, faults, crossed, excused>>

Sent(w) ==
    /\ pc[w] = "send" /\ letters[w] = {}
    /\ Goto(w, "idle")
    /\ UNCHANGED <<today, rows, starting, due, draft, letters, faults, history>>

DatabaseError(w) ==
    /\ w \in InTransaction /\ faults < MaxFaults
    /\ faults' = faults + 1
    /\ RollBack(w)
    /\ UNCHANGED <<today, rows, due, letters>>

\* The process dies with its connection, its transaction and its letters.
Crash(w) ==
    /\ pc[w] # "down" /\ faults < MaxFaults
    /\ faults' = faults + 1
    /\ EndRun(w, "down")
    /\ letters' = [letters EXCEPT ![w] = {}]
    /\ due' = due \ {w}
    /\ UNCHANGED <<today, rows, history>>
-----------------------------------------------------------------------------
(* Requests, a transaction each *)

\* create_chore, with its first instance; the date may be a past one.
CreateChore(d, t) ==
    /\ first[d] = -1 /\ d \notin gone
    /\ first' = [first EXCEPT ![d] = t]
    /\ active' = active \cup {d}
    /\ status' = [status EXCEPT ![<<d, t>>] = "pending"]
    /\ UNCHANGED <<today, gone, pc, starting, due, draft, letters, faults, history>>

\* delete_chore_definition: its UPDATE waits for rows that a run has flagged.
\* It does not see rows that are not committed yet.
DeleteDefinition(d) ==
    /\ first[d] >= 0 /\ d \notin gone
    /\ \A w \in Workers : \A i \in flagged[w] : i[1] # d
    /\ active' = active \ {d}
    /\ status' = [i \in Instances |->
         IF i[1] = d /\ status[i] = "pending" THEN "cancelled" ELSE status[i]]
    /\ crossed' = IF \E w \in Workers : d \in loaded[w] THEN crossed \cup {d} ELSE crossed
    /\ UNCHANGED <<today, gone, first, pc, starting, due, draft, letters, faults,
                   announced, excused>>

\* delete_household, and ON DELETE CASCADE: waits for rows of its own.
DeleteHousehold(d) ==
    /\ d \notin gone
    /\ \A i \in Written : i[1] # d
    /\ gone' = gone \cup {d}
    /\ active' = active \ {d}
    /\ status' = [i \in Instances |-> IF i[1] = d THEN "none" ELSE status[i]]
    /\ UNCHANGED <<today, first, pc, starting, due, draft, letters, faults, history>>

\* complete, or dismiss: waits for a row that a run has flagged.
Close(i) ==
    /\ status[i] \in {"pending", "overdue"}
    /\ i \notin Written
    /\ status' = [status EXCEPT ![i] = "closed"]
    /\ UNCHANGED <<today, active, gone, first, pc, starting, due, draft, letters,
                   faults, history>>

\* Midnight: the trigger of every scheduler that has been started is due.
Midnight ==
    /\ today < LastDay
    /\ today' = today + 1
    /\ due' = {w \in Workers : pc[w] # "down" /\ w \notin starting}
    /\ excused' = (UnderWay # {})
    /\ UNCHANGED <<rows, pc, starting, draft, letters, faults, announced, crossed>>

Run(w) ==
    \/ TryLock(w) \/ ReadDefinitions(w) \/ ReadPairs(w) \/ Insert(w) \/ Flag(w)
    \/ Commit(w) \/ Sent(w)
    \/ \E d \in Definitions, delivered \in BOOLEAN : Send(w, d, delivered)

Next ==
    \/ \E w \in Workers :
         Start(w) \/ CronFires(w) \/ Run(w) \/ DatabaseError(w) \/ Crash(w)
    \/ \E d \in Definitions :
         \/ \E t \in Dates : CreateChore(d, t)
         \/ DeleteDefinition(d) \/ DeleteHousehold(d)
    \/ \E i \in Instances : Close(i)
    \/ Midnight

Spec == Init /\ [][Next]_vars

(***************************************************************************)
(* Fairness: a crashed process is restarted (restart: unless-stopped), a   *)
(* due trigger fires, a run goes on, time passes.                          *)
(***************************************************************************)
FairSpec ==
    /\ Spec
    /\ \A w \in Workers : WF_vars(Start(w)) /\ WF_vars(CronFires(w)) /\ WF_vars(Run(w))
    /\ WF_vars(Midnight)
-----------------------------------------------------------------------------
(* What must hold *)

(***************************************************************************)
(* "run_daily_job is idempotent and advisory-locked, so this is safe with  *)
(* multiple workers" (main.py): no run inserts what another one, or a      *)
(* request, has inserted since it looked.  What does make a run fail, for  *)
(* every household, is the deletion of one household under it.             *)
(***************************************************************************)
NoRunFailsOnADuplicate ==
    \A w \in Workers : pc[w] = "insert" => \A i \in fresh[w] : status[i] = "none"

(***************************************************************************)
(* A deleted series has nothing pending, unless it was deleted while a run *)
(* that had read it as active was still to insert or commit.               *)
(***************************************************************************)
DeletedSeriesStayQuiet ==
    \A i \in Instances :
        status[i] = "pending" => i[1] \in active \cup crossed

(***************************************************************************)
(* TASK-081: a chore is announced as newly overdue at most once, whatever  *)
(* crashes and restarts and whoever runs the job.                          *)
(***************************************************************************)
AnnouncedOnce == \A i \in Instances : announced[i] <= 1

(***************************************************************************)
(* Each due date of a series that stays active gets its instance, and when *)
(* the day has passed the instance is flagged, or closed: at the start, at *)
(* the latest at a midnight.  A day is excused if its run failed, or if    *)
(* the run before it was still going on at midnight; the next day makes up *)
(* for it.                                                                 *)
(***************************************************************************)
EveryDueDateIsSeenTo ==
    \A i \in Instances :
        (i[1] \in active /\ first[i[1]] <= i[2] /\ today <= i[2] /\ i[2] < LastDay)
        ~> (status[i] \in {"overdue", "closed", "cancelled"} \/ i[1] \notin active
            \/ (excused /\ today = LastDay))
=============================================================================
