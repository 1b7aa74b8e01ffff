----------------------------- MODULE Leaderboard -----------------------------
(***************************************************************************)
(* The leaderboard of a household (api/leaderboard.py): three SELECTs, of  *)
(* the members, of their points and of the chores they completed, each of  *)
(* which sees what is committed when it runs, in a window that was         *)
(* computed before.  Meanwhile chores are completed and handed over late,  *)
(* people join, leave and delete their accounts, the household is deleted, *)
(* and days pass.                                                          *)
(***************************************************************************)
EXTENDS Calendar, FiniteSets, SequencesExt

CONSTANTS People,       \* in the order of their names
          Nobody,
          Chores,       \* instances
          PointsOf,     \* EFFORT_POINTS of an instance
          FirstDay,     \* where the clock starts, a date
          Days,         \* bound on how far it goes
          MaxChanges,   \* bound on what is committed but completions
          Series,       \* recurring series: [first, rule]
          DaysAhead, GraceDays

ASSUME LeaderboardAssumption ==
    /\ People \subseteq Nat /\ IsFiniteSet(People) /\ Nobody \notin People
    /\ PointsOf \in [Chores -> Nat \ {0}]
    /\ IsDate(FirstDay) /\ Days \in Nat /\ MaxChanges \in Nat
    /\ \A s \in Series :
         IsDate(s.first) /\ s.rule \in [unit : {"days", "weeks", "months"}, n : Nat \ {0}]
    /\ DaysAhead \in Nat /\ GraceDays \in Nat

Scopes == {"this_week", "this_month", "all_time"}
Dates  == {PlusDays(FirstDay, k) : k \in 0 .. Days}

VARIABLES
    today,       \* the date in UTC
    members,     \* active members
    deleted,     \* users whose account is gone
    changes,     \* counter
    pointLedger, \* point_ledger: [chore, user, on]
    completed,   \* completed instances: [chore, assignee, by, on]; "by" is history,
                 \* who was the assignee at the completion
    at,          \* the request: "idle", "asked", "members", "points", "answered"
    asks,        \* for what scope, in what window
    listed,      \* the members it has read
    paid,        \* the ledger rows it has summed
    board,       \* its answer: member -> [rank, points, chores]
    crossed      \* history: what has been committed since it was asked

tables    == <<members, deleted, changes, pointLedger, completed>>
request   == <<at, asks, listed, paid, board>>
boardVars == <<today, tables, request, crossed>>

LedgerRow == [chore : Chores, user : People, on : Dates]
Completed == [chore : Chores, assignee : People \cup {Nobody},
              by : People \cup {Nobody}, on : Dates]

BoardTypeOK ==
    /\ today \in Dates
    /\ members \subseteq People /\ deleted \subseteq People
    /\ changes \in 0 .. MaxChanges
    /\ pointLedger \subseteq LedgerRow /\ completed \subseteq Completed
    /\ at \in {"idle", "asked", "members", "points", "answered"}
    /\ asks.scope \in Scopes
    /\ listed \subseteq People /\ paid \subseteq LedgerRow
    /\ DOMAIN board \subseteq People
    /\ crossed \subseteq {"day", "completed", "members", "handedOver", "deleted"}

NoAsk == [scope |-> "all_time", window |-> {}]

BoardInit ==
    /\ today = FirstDay
    /\ members \in SUBSET People \ {{}} /\ deleted = {} /\ changes = 0
    /\ pointLedger = {} /\ completed = {}
    /\ at = "idle" /\ asks = NoAsk
    /\ listed = {} /\ paid = {} /\ board = <<>> /\ crossed = {}
-----------------------------------------------------------------------------
(* The endpoint *)

\* A member asks (require_household_member): the window of the day it is.
Ask(scope) ==
    /\ at = "idle" /\ members # {}
    /\ at' = "asked"
    /\ asks' = [scope |-> scope, window |-> Window(scope, today)]
    /\ UNCHANGED <<today, tables, listed, paid, board, crossed>>

ReadMembers ==
    /\ at = "asked" /\ at' = "members"
    /\ listed' = members
    /\ UNCHANGED <<today, tables, asks, paid, board, crossed>>

InWindow(row) == asks.scope = "all_time" \/ Ordinal(row.on) \in asks.window

ReadPoints ==
    /\ at = "members" /\ at' = "points"
    /\ paid' = {row \in pointLedger : InWindow(row)}
    /\ UNCHANGED <<today, tables, asks, listed, board, crossed>>

Points(u) ==
    SumFunctionOnSet([row \in paid |-> PointsOf[row.chore]], {row \in paid : row.user = u})

\* By points, then by name.
Above(u, v) == Points(u) > Points(v) \/ (Points(u) = Points(v) /\ u < v)

Orders == {s \in SetToSeqs(listed) : \A j, k \in DOMAIN s : j < k => Above(s[j], s[k])}

\* Mutant: after a tie, ranks are left out.
RanksWithGaps(order) ==
    [u \in listed |-> 1 + Cardinality({v \in listed : Points(v) > Points(u)})]

\* current_rank grows where the points fall.
Ranks(order) ==
    LET falls == {k \in 2 .. Len(order) : Points(order[k]) < Points(order[k - 1])}
    IN  [u \in listed |-> 1 + Cardinality({k \in falls : \A j \in 1 .. k - 1 : order[j] # u})]

ChoresOf(u) == {row \in completed : row.assignee = u /\ InWindow(row)}

\* The count of completed chores, and the answer.
ReadChores ==
    /\ at = "points" /\ at' = "answered"
    /\ \E order \in Orders :
         board' = [u \in listed |-> [rank   |-> Ranks(order)[u],
                                    points |-> Points(u),
                                    chores |-> Cardinality(ChoresOf(u))]]
    /\ UNCHANGED <<today, tables, asks, listed, paid, crossed>>

Done ==
    /\ at = "answered" /\ at' = "idle" /\ asks' = NoAsk
    /\ listed' = {} /\ paid' = {} /\ board' = <<>> /\ crossed' = {}
    /\ UNCHANGED <<today, tables>>
-----------------------------------------------------------------------------
(* Meanwhile *)

Crossed(what) == crossed' = IF at = "idle" THEN crossed ELSE crossed \cup {what}

\* complete_chore_instance: both rows, of the same time, in one COMMIT, for
\* the assignee, who may have left.  A chore of nobody's earns no points.
Complete(c, u) ==
    /\ members # {} /\ \A row \in completed : row.chore # c
    /\ u \in (People \ deleted) \cup {Nobody}
    /\ completed' = completed \cup {[chore |-> c, assignee |-> u, by |-> u, on |-> today]}
    /\ pointLedger' = IF u = Nobody THEN pointLedger
                      ELSE pointLedger \cup {[chore |-> c, user |-> u, on |-> today]}
    /\ Crossed("completed")
    /\ UNCHANGED <<today, members, deleted, changes, request>>

\* reassign_chore or a redistribution that read the chore when it was open
\* (ChoreRow): the assignee of the completed row changes, its points do not.
HandOver(row, v) ==
    /\ changes < MaxChanges /\ changes' = changes + 1
    /\ v \in (People \ deleted) \cup {Nobody} /\ v # row.assignee
    /\ completed' = (completed \ {row}) \cup {[row EXCEPT !.assignee = v]}
    /\ Crossed("handedOver")
    /\ UNCHANGED <<today, members, deleted, pointLedger, request>>

\* What a member has done stays when they leave.
Leave(u) ==
    /\ changes < MaxChanges /\ changes' = changes + 1
    /\ u \in members /\ members # {u}
    /\ members' = members \ {u}
    /\ Crossed("members")
    /\ UNCHANGED <<today, deleted, pointLedger, completed, request>>

Join(u) ==
    /\ changes < MaxChanges /\ changes' = changes + 1
    /\ members # {} /\ u \notin members \cup deleted
    /\ members' = members \cup {u}
    /\ Crossed("members")
    /\ UNCHANGED <<today, deleted, pointLedger, completed, request>>

Without(u, row) == [chore    |-> row.chore,
                    assignee |-> IF row.assignee = u THEN Nobody ELSE row.assignee,
                    by       |-> IF row.by = u THEN Nobody ELSE row.by,
                    on       |-> row.on]

\* ON DELETE CASCADE for the ledger, SET NULL for the instances.
DeleteAccount(u) ==
    /\ changes < MaxChanges /\ changes' = changes + 1
    /\ u \notin deleted /\ members # {u}
    /\ deleted' = deleted \cup {u} /\ members' = members \ {u}
    /\ pointLedger' = {row \in pointLedger : row.user # u}
    /\ completed' = {Without(u, row) : row \in completed}
    /\ Crossed("deleted")
    /\ UNCHANGED <<today, request>>

\* delete_household, or the account of the last member: ON DELETE CASCADE.
DeleteHousehold ==
    /\ changes < MaxChanges /\ changes' = changes + 1
    /\ members # {} /\ members' = {}
    /\ pointLedger' = {} /\ completed' = {}
    /\ Crossed("deleted")
    /\ UNCHANGED <<today, deleted, request>>

NewDay ==
    /\ today # PlusDays(FirstDay, Days)
    /\ today' = PlusDays(today, 1)
    /\ Crossed("day")
    /\ UNCHANGED <<tables, request>>

BoardNext ==
    \/ \E scope \in Scopes : Ask(scope)
    \/ ReadMembers \/ ReadPoints \/ ReadChores \/ Done
    \/ \E c \in Chores, u \in People \cup {Nobody} : Complete(c, u)
    \/ \E row \in completed, v \in People \cup {Nobody} : HandOver(row, v)
    \/ \E u \in People : Leave(u) \/ Join(u) \/ DeleteAccount(u)
    \/ DeleteHousehold \/ NewDay

BoardSpec == BoardInit /\ [][BoardNext]_boardVars
-----------------------------------------------------------------------------
(* What must hold *)

\* Monday to Sunday, and the month, told from the dates alone.
SamePeriod(scope, s, t) ==
    CASE scope = "this_week"  -> (Ordinal(s) - 1) \div 7 = (Ordinal(t) - 1) \div 7
      [] scope = "this_month" -> s[1] = t[1] /\ s[2] = t[2]
      [] scope = "all_time"   -> TRUE

InPeriod(row) == SamePeriod(asks.scope, row.on, today)

ExactWhenUndisturbed ==
    crossed = {} =>
        /\ DOMAIN board = members
        /\ \A u \in members :
             LET own    == {row \in completed : row.assignee = u /\ InPeriod(row)}
                 earned == {row \in completed : row.by = u /\ InPeriod(row)}
             IN  /\ board[u].chores = Cardinality(own)
                 /\ board[u].points =
                      SumFunctionOnSet([row \in earned |-> PointsOf[row.chore]], earned)
                 /\ board[u].rank = 1 + Cardinality({board[v].points : v \in
                                          {w \in members : board[w].points > board[u].points}})

\* The chores that were handed over after their completion.
HandedOver == {row.chore : row \in {done \in completed : done.assignee # done.by}}

NothingPaidForNothing ==
    crossed \cap {"handedOver", "deleted"} = {} =>
        \A u \in listed :
          Cardinality({row \in paid : row.user = u /\ row.chore \notin HandedOver})
            <= board[u].chores

(***************************************************************************)
(* A board that nothing was committed under, and no midnight, shows for    *)
(* every member the chores completed in the period of today that are in    *)
(* their name, the points of exactly those that were when completed, and   *)
(* as rank how many higher totals there are.  The two part only by a late  *)
(* hand-over.  Whatever is committed between its SELECTs, but a late       *)
(* hand-over or the deletion of an account or of the household, it shows   *)
(* no points without their chore; a chore without its points it may show.  *)
(***************************************************************************)
BoardIsRight == at = "answered" => ExactWhenUndisturbed /\ NothingPaidForNothing

\* The due dates of a day's run of the job.
DueOn(t, s) == DueDates(s.first, s.rule, Ordinal(t) - GraceDays, Ordinal(t) + DaysAhead)

Slides(t, s) ==
    LET before == DueOn(t, s)
        after  == DueOn(PlusDays(t, 1), s)
    IN  /\ \A d \in before \ after : Ordinal(d) = Ordinal(t) - GraceDays
        /\ \A d \in after \ before : Ordinal(d) = Ordinal(t) + DaysAhead + 1

InStep(t, s) ==
    \A o \in Ordinal(t) - GraceDays .. Ordinal(t) + DaysAhead :
      (\E d \in DueOn(t, s) : Ordinal(d) = o)
        <=> /\ o >= Ordinal(s.first)
            /\ (o - Ordinal(s.first)) % ShortestInterval(s.rule) = 0

\* Months since the year 0.
MonthCount(t) == 12 * t[1] + t[2]

InEveryMonth(t, s) ==
    LET due == Stepped(s.first, s.rule, Ordinal(t) + DaysAhead)
    IN  /\ {MonthCount(d) : d \in due} =
              {MonthCount(s.first) + k * s.rule.n : k \in 0 .. Cardinality(due) - 1}
        /\ \A d \in due : d[3] <= s.first[3] /\ (s.first[3] <= 28 => d[3] = s.first[3])

CadenceKeptOn ==
    {t \in Dates : \A s \in Series :
       Slides(t, s) /\ IF s.rule.unit = "months" THEN InEveryMonth(t, s) ELSE InStep(t, s)}

(***************************************************************************)
(* From one day's job to the next, due dates only leave at the floor and   *)
(* come at the horizon, however old the series.  Days and weeks are        *)
(* counted from the first date.  A monthly series has one date in each of  *)
(* its months, on the day of its first where every month has that day, and *)
(* never on a later one; from the 29th to the 31st it comes earlier once a *)
(* month has been too short, and stays there.                              *)
(***************************************************************************)
CadenceIsKept == today \in CadenceKeptOn
=============================================================================
