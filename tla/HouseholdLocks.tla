---------------------------- MODULE HouseholdLocks ----------------------------
(***************************************************************************)
(* The row locks that the transactions of one household take in            *)
(* PostgreSQL, and the rotation pointer they protect.  A transaction is    *)
(* the sequence of its accesses to the household row and to rows of        *)
(* chore_instances, in the order in which the handler, or the ORM's flush, *)
(* sends them; a statement that updates several chores reaches them one by *)
(* one in an order nothing fixes.  Locks are kept until COMMIT.            *)
(*                                                                         *)
(* Inserting a row that refers to the household takes FOR KEY SHARE on the *)
(* household row, to keep the foreign key valid.                           *)
(***************************************************************************)
EXTENDS Integers, Sequences, FiniteSets, SequencesExt

CONSTANTS Requests,     \* transactions, each run once
          Chores,       \* chore instances that exist
          Kinds,        \* the handlers that may run
          MaxBatch      \* bound on the chores assigned by one transaction

AllKinds ==
    {"insert",      \* any insert of a child row: manual create_chore,
                    \* accept_invite, create_invite, groceries
     "create",      \* create_chore with auto-assignment
     "reassignTo",  \* reassign_chore to a member
     "reassign",    \* reassign_chore with auto-assignment
     "complete",    \* complete_chore_instance
     "dismiss",     \* dismiss_chore_instance
     "cancel",      \* delete_chore_definition
     "depart",      \* remove_member and leave_household
     "daily"}       \* run_daily_job

ASSUME HouseholdLocksAssumption ==
    /\ Kinds \subseteq AllKinds
    /\ IsFiniteSet(Chores) /\ "household" \notin Chores
    /\ MaxBatch \in Nat \ {0}

VARIABLES
    pointer,    \* the committed rotation_pointer
    turns,      \* what it would be with every committed change added up
    picks,      \* the turns committed transactions have given: [by, slot]
    call,       \* request -> what it was called with
    pc,         \* request -> number of its next statement, 0 before, -1 after
    held,       \* request -> the locks it holds: [row, mode]
    seen        \* request -> rotation_pointer of its loaded Household object

vars == <<pointer, turns, picks, call, pc, held, seen>>

(***************************************************************************)
(* A call: the chores it updates, in the order in which it reaches them;   *)
(* the number of chores it gives a turn to; and, for a departure, whether  *)
(* the departed member stood before the pointer (step 5).                  *)
(***************************************************************************)
ChoreLists == {q \in SeqOf(Chores, Cardinality(Chores)) : IsInjective(q)}

OneChore  == {"reassignTo", "reassign", "complete", "dismiss"}
NoChore   == {"insert", "create"}
OneTurn   == {"create", "reassign"}
NoTurn    == {"insert", "reassignTo", "complete", "dismiss", "cancel"}

Call ==
    {c \in [kind : Kinds, chores : ChoreLists, batch : 0 .. MaxBatch, behind : BOOLEAN] :
        /\ c.kind \in OneChore => Len(c.chores) = 1
        /\ c.kind \in NoChore  => c.chores = <<>>
        /\ c.kind \in OneTurn  => c.batch = 1
        /\ c.kind \in NoTurn   => c.batch = 0
        /\ c.kind = "depart"   => c.batch = Len(c.chores)
        /\ c.behind            => c.kind = "depart"}

NoCall == [kind |-> "none", chores |-> <<>>, batch |-> 0, behind |-> FALSE]

Rows == {"household"} \cup Chores

KeyShare    == "FOR KEY SHARE"
NoKeyUpdate == "FOR NO KEY UPDATE"      \* what an UPDATE takes
ForUpdate   == "FOR UPDATE"

Locks == [row : Rows, mode : {KeyShare, NoKeyUpdate, ForUpdate}]

\* PostgreSQL's table of conflicting row-level locks, for these modes.
Conflicting(m, n) ==
    \/ ForUpdate \in {m, n}
    \/ m = NoKeyUpdate /\ n = NoKeyUpdate

Insert          == [op |-> "insert", row |-> "household", mode |-> KeyShare]
ReadHousehold   == [op |-> "read",   row |-> "household", mode |-> "none"]
LockHousehold   == [op |-> "lock",   row |-> "household", mode |-> ForUpdate]
UpdateHousehold == [op |-> "update", row |-> "household", mode |-> NoKeyUpdate]

LockChore(c)    == <<[op |-> "lock", row |-> c.chores[1], mode |-> ForUpdate]>>
UpdateChores(c) == [k \in DOMAIN c.chores |->
                      [op |-> "update", row |-> c.chores[k], mode |-> NoKeyUpdate]]

\* Mutant: a departure updates the chores before it locks the household.
DepartingChoresFirst(c) ==
    IF c.batch > 0 THEN <<ReadHousehold>> \o UpdateChores(c) \o <<LockHousehold>>
    ELSE IF c.behind THEN <<ReadHousehold, UpdateHousehold>>
    ELSE <<ReadHousehold>>

\* A departure without open chores writes the pointer only to take one back.
Departing(c) ==
    IF c.batch > 0 THEN <<ReadHousehold, LockHousehold>> \o UpdateChores(c)
    ELSE IF c.behind THEN <<ReadHousehold, UpdateHousehold>>
    ELSE <<ReadHousehold>>

\* The accesses of each handler.
Program(c) ==
    CASE c.kind = "insert"     -> <<Insert>>
      [] c.kind = "create"     -> <<Insert, LockHousehold>>
      [] c.kind = "reassignTo" -> UpdateChores(c)
      [] c.kind = "reassign"   -> <<LockHousehold>> \o UpdateChores(c)
      [] c.kind = "complete"   -> LockChore(c) \o <<Insert>>
      [] c.kind = "dismiss"    -> LockChore(c)
      [] c.kind = "cancel"     -> UpdateChores(c)
      [] c.kind = "depart"     -> Departing(c)
      [] c.kind = "daily"      -> IF c.batch = 0
                                  THEN UpdateChores(c)
                                  ELSE <<Insert, LockHousehold>> \o UpdateChores(c)

TypeOK ==
    /\ pointer \in Nat /\ turns \in Int
    /\ picks \subseteq [by : Requests, slot : Nat]
    /\ call \in [Requests -> Call \cup {NoCall}]
    /\ pc \in [Requests -> -1 .. 3 + Cardinality(Chores)]
    /\ held \in [Requests -> SUBSET Locks]
    /\ seen \in [Requests -> Nat]

Init ==
    /\ pointer \in {0, 2} /\ turns = pointer
    /\ picks = {}
    /\ call = [r \in Requests |-> NoCall]
    /\ pc = [r \in Requests |-> 0]
    /\ held = [r \in Requests |-> {}]
    /\ seen = [r \in Requests |-> 0]
-----------------------------------------------------------------------------
Running(r)   == pc[r] > 0
Statement(r) == Program(call[r])[pc[r]]
AtCommit(r)  == Running(r) /\ pc[r] > Len(Program(call[r]))

\* The other transactions whose locks keep r from its next statement.
WaitsFor(r) ==
    IF ~ Running(r) \/ AtCommit(r) \/ Statement(r).op = "read" THEN {}
    ELSE {s \in Requests \ {r} :
            \E l \in held[s] : /\ l.row = Statement(r).row
                               /\ Conflicting(l.mode, Statement(r).mode)}

\* A set of transactions each of which waits for one of the set.
Deadlocked(S) == S # {} /\ \A r \in S : WaitsFor(r) \cap S # {}

\* pg_try_advisory_xact_lock: a daily job that finds another one running
\* returns at once.
Begin(r, c) ==
    /\ pc[r] = 0
    /\ c.kind = "daily" =>
         \A s \in Requests : Running(s) => call[s].kind # "daily"
    /\ call' = [call EXCEPT ![r] = c]
    /\ pc' = [pc EXCEPT ![r] = 1]
    /\ UNCHANGED <<pointer, turns, picks, held, seen>>

(***************************************************************************)
(* One statement.  A Household object is filled by the first SELECT that   *)
(* loads it; a later SELECT ... FOR UPDATE locks the row but does not      *)
(* refresh the object that is already in the session.                      *)
(***************************************************************************)
Loads(r) ==
    \/ Statement(r) = ReadHousehold
    \/ Statement(r) = LockHousehold /\ call[r].kind # "depart"

Execute(r) ==
    /\ Running(r) /\ ~ AtCommit(r)
    /\ WaitsFor(r) = {}
    /\ held' = IF Statement(r).op = "read" THEN held
               ELSE [held EXCEPT ![r] = held[r] \cup
                       {[row |-> Statement(r).row, mode |-> Statement(r).mode]}]
    /\ seen' = IF Loads(r) THEN [seen EXCEPT ![r] = pointer] ELSE seen
    /\ pc' = [pc EXCEPT ![r] = pc[r] + 1]
    /\ UNCHANGED <<pointer, turns, picks, call>>

\* Mutant: however many chores a transaction assigns, one turn is counted.
NewPointerOnce(c, p) ==
    IF c.behind /\ p > 0 THEN p + c.batch - 1
    ELSE p + (IF c.batch = 0 THEN 0 ELSE 1)

\* What the transaction makes of a pointer: the batch advances it, step 5
\* takes one back for a member who stood before it.
NewPointer(c, p) ==
    IF c.behind /\ p > 0 THEN p + c.batch - 1 ELSE p + c.batch

Finish(r) ==
    /\ held' = [held EXCEPT ![r] = {}]
    /\ pc' = [pc EXCEPT ![r] = -1]
    /\ UNCHANGED <<call, seen>>

\* COMMIT.  The ORM writes the pointer only if it differs from what was loaded.
Commit(r) ==
    LET change == NewPointer(call[r], seen[r]) - seen[r]
    IN  /\ AtCommit(r)
        /\ pointer' = IF change = 0 THEN pointer ELSE seen[r] + change
        /\ turns' = turns + change
        /\ picks' = picks \cup
             {[by |-> r, slot |-> seen[r] + k] : k \in 0 .. call[r].batch - 1}
        /\ Finish(r)

\* PostgreSQL breaks a deadlock by failing one transaction of it: the
\* request gets a 500, a daily job loses all its work until the next run.
Victim(r) ==
    /\ \E S \in SUBSET Requests : r \in S /\ Deadlocked(S)
    /\ Finish(r)
    /\ UNCHANGED <<pointer, turns, picks>>

Work(r) == Execute(r) \/ Commit(r) \/ Victim(r)

Next == \E r \in Requests : (\E c \in Call : Begin(r, c)) \/ Work(r)

Spec == Init /\ [][Next]_vars
-----------------------------------------------------------------------------
(* What must hold *)

(***************************************************************************)
(* NFR-007: pointer updates are serialisable.  No committed change of the  *)
(* pointer is lost among the handlers that load the household under its    *)
(* lock, however many of them overlap; a departure loads it before, and    *)
(* overwrites what has been committed meanwhile.                           *)
(***************************************************************************)
WithoutDepartures == \A r \in Requests : call[r].kind # "depart"

NoAssignmentLost == WithoutDepartures => pointer = turns

(***************************************************************************)
(* Nor is a turn of the rotation given to two transactions' chores.        *)
(***************************************************************************)
NoTurnTwice ==
    WithoutDepartures => \A p, q \in picks : p.slot = q.slot => p.by = q.by

(***************************************************************************)
(* Transactions that wait in a circle: there is one among them that locks  *)
(* a chore before the household, that already shares the household when it *)
(* asks for its lock, or that updates many chores without it.              *)
(***************************************************************************)
Orderly == {"insert", "reassignTo", "reassign", "dismiss", "depart"}

OrderlyNeverDeadlock ==
    \A S \in SUBSET Requests :
        Deadlocked(S) => \E r \in S : call[r].kind \notin Orderly
=============================================================================
