------------------------------- MODULE ChoreRow -------------------------------
(***************************************************************************)
(* One row of chore_instances under concurrent transactions, one SQL       *)
(* statement per step, at PostgreSQL's READ COMMITTED level:               *)
(*   - a plain SELECT returns the committed row and waits for nobody;      *)
(*   - SELECT ... FOR UPDATE and UPDATE wait for the row lock, see the     *)
(*     row as it is committed then, and keep the lock until COMMIT;        *)
(*   - COMMIT comes after the handler has returned (db/session.py), so a   *)
(*     transaction can still be lost after its last statement.             *)
(* The ORM writes an attribute only when it differs from what it loaded,   *)
(* and addresses the row by its id alone.                                  *)
(***************************************************************************)
EXTENDS Integers, FiniteSets

CONSTANTS Users, NoUser,
          Requests, NoRequest,      \* transactions, each run once
          Kinds                     \* the handlers that may run

AllKinds == {"complete", "dismiss",         \* api/chores.py
             "reassign", "redistribute",    \* and services/redistribution.py
             "flag",                        \* tasks/scheduler.py
             "cancel"}                      \* delete_chore_definition

ASSUME ChoreRowAssumption ==
    /\ NoUser \notin Users
    /\ NoRequest \notin Requests
    /\ Kinds \subseteq AllKinds

Open     == {"pending", "overdue"}
Terminal == {"complete", "cancelled", "dismissed"}

Row == [status : Open \cup Terminal, assignee : Users \cup {NoUser}]

VARIABLES
    row,    \* the committed row
    ledger, \* committed point_ledger rows: [by, user]
    lock,   \* the transaction that holds the row lock
    pc,     \* request -> the statement it executes next
    call,   \* request -> what it was called with
    draft   \* request -> its uncommitted version of the row

vars == <<row, ledger, lock, pc, call, draft>>

(***************************************************************************)
(* What a transaction is called with: who closes the chore, in which role  *)
(* (read earlier); the assignee to write; the member who departed.         *)
(***************************************************************************)
Call == {c \in      [kind : {"complete", "dismiss"}, caller : Users, admin : BOOLEAN]
               \cup [kind : {"reassign"}, to : Users \cup {NoUser}]
               \cup [kind : {"redistribute"}, from : Users, to : Users \cup {NoUser}]
               \cup [kind : {"flag", "cancel"}] : c.kind \in Kinds}

NoCall == [kind |-> "none"]

Steps == {"idle", "read", "lock", "update", "commit", "done"}

TypeOK ==
    /\ row \in Row
    /\ ledger \subseteq [by : Requests, user : Users]
    /\ lock \in Requests \cup {NoRequest}
    /\ pc \in [Requests -> Steps]
    /\ call \in [Requests -> Call \cup {NoCall}]
    /\ draft \in [Requests -> Row]

Init ==
    /\ row \in [status : {"pending"}, assignee : Users \cup {NoUser}]
    /\ ledger = {}
    /\ lock = NoRequest
    /\ pc = [r \in Requests |-> "idle"]
    /\ call = [r \in Requests |-> NoCall]
    /\ draft = [r \in Requests |-> row]

Goto(r, step) == pc' = [pc EXCEPT ![r] = step]

Free == lock = NoRequest
-----------------------------------------------------------------------------
\* The handler's first statement on the row.
FirstStep(kind) ==
    CASE kind \in {"complete", "dismiss"}      -> "lock"
      [] kind \in {"reassign", "redistribute"} -> "read"
      [] kind \in {"flag", "cancel"}           -> "update"

Begin(r, c) ==
    /\ pc[r] = "idle"
    /\ call' = [call EXCEPT ![r] = c]
    /\ Goto(r, FirstStep(c.kind))
    /\ UNCHANGED <<row, ledger, lock, draft>>

(* complete_chore_instance and dismiss_chore_instance *)

\* Mutant: without the 409.
MayCloseAgain(r) == call[r].caller = row.assignee \/ call[r].admin

\* 403 unless assignee or admin, 409 when the row is terminal.
MayClose(r) ==
    /\ call[r].caller = row.assignee \/ call[r].admin
    /\ row.status \notin Terminal

\* Mutant: a plain SELECT, with the row lock taken by nobody.
ReadToClose(r) ==
    /\ pc[r] = "lock"
    /\ IF MayClose(r)
       THEN /\ draft' = [draft EXCEPT ![r] =
                 [row EXCEPT !.status = IF call[r].kind = "complete"
                                        THEN "complete" ELSE "dismissed"]]
            /\ Goto(r, "commit")
       ELSE Goto(r, "done") /\ UNCHANGED draft
    /\ UNCHANGED <<row, ledger, lock, call>>

\* SELECT ... FOR UPDATE, the checks, and the attributes set on the object.
LockToClose(r) ==
    /\ pc[r] = "lock" /\ Free
    /\ IF MayClose(r)
       THEN /\ lock' = r
            /\ draft' = [draft EXCEPT ![r] =
                 [row EXCEPT !.status = IF call[r].kind = "complete"
                                        THEN "complete" ELSE "dismissed"]]
            /\ Goto(r, "commit")
       ELSE Goto(r, "done") /\ UNCHANGED <<lock, draft>>
    /\ UNCHANGED <<row, ledger, call>>

(* reassign_chore and redistribute_chores_for_removed_member *)

\* The unlocked SELECT.  A reassignment refuses terminal rows, the
\* redistribution filters for open rows of the departed member.  No change
\* of assignee, no UPDATE.
ReadOpenRow(r) ==
    /\ pc[r] = "read"
    /\ LET wanted == IF call[r].kind = "reassign"
                     THEN row.status \notin Terminal
                     ELSE row.status \in Open /\ row.assignee = call[r].from
       IN  Goto(r, IF wanted /\ row.assignee # call[r].to
                   THEN "update" ELSE "done")
    /\ UNCHANGED <<row, ledger, lock, call, draft>>

\* UPDATE chore_instances SET assignee_id = :to WHERE id = :id.
UpdateAssignee(r) ==
    /\ pc[r] = "update" /\ call[r].kind \in {"reassign", "redistribute"}
    /\ Free
    /\ lock' = r
    /\ draft' = [draft EXCEPT ![r] = [row EXCEPT !.assignee = call[r].to]]
    /\ Goto(r, "commit")
    /\ UNCHANGED <<row, ledger, call>>

(* flag_overdue_instances and delete_chore_definition *)

\* Mutant: WHERE status IN ('pending', 'overdue').
UpdateWhereOpen(r) ==
    /\ pc[r] = "update" /\ call[r].kind \in {"flag", "cancel"}
    /\ IF row.status \in Open
       THEN /\ Free
            /\ lock' = r
            /\ draft' = [draft EXCEPT ![r] =
                 [row EXCEPT !.status = IF call[r].kind = "flag"
                                        THEN "overdue" ELSE "cancelled"]]
            /\ Goto(r, "commit")
       ELSE Goto(r, "done") /\ UNCHANGED <<lock, draft>>
    /\ UNCHANGED <<row, ledger, call>>

\* UPDATE ... SET status WHERE status = 'pending': a row that is not pending
\* is passed over at once, a pending one is checked again under the lock.
UpdateWherePending(r) ==
    /\ pc[r] = "update" /\ call[r].kind \in {"flag", "cancel"}
    /\ IF row.status = "pending"
       THEN /\ Free
            /\ lock' = r
            /\ draft' = [draft EXCEPT ![r] =
                 [row EXCEPT !.status = IF call[r].kind = "flag"
                                        THEN "overdue" ELSE "cancelled"]]
            /\ Goto(r, "commit")
       ELSE Goto(r, "done") /\ UNCHANGED <<lock, draft>>
    /\ UNCHANGED <<row, ledger, call>>

(* Every handler *)

\* Mutant: the transaction is left open.
CommitKeepingLock(r) ==
    /\ pc[r] = "commit"
    /\ row' = draft[r]
    /\ ledger' = IF call[r].kind = "complete" /\ draft[r].assignee # NoUser
                 THEN ledger \cup {[by |-> r, user |-> draft[r].assignee]}
                 ELSE ledger
    /\ Goto(r, "done")
    /\ UNCHANGED <<lock, call, draft>>

\* COMMIT: the row, and for a completion the ledger row of its assignee.
Commit(r) ==
    /\ pc[r] = "commit"
    /\ row' = draft[r]
    /\ ledger' = IF call[r].kind = "complete" /\ draft[r].assignee # NoUser
                 THEN ledger \cup {[by |-> r, user |-> draft[r].assignee]}
                 ELSE ledger
    /\ lock' = NoRequest
    /\ Goto(r, "done")
    /\ UNCHANGED <<call, draft>>

\* The transaction is lost: an exception, a closed connection, a crash.
Abort(r) ==
    /\ pc[r] \notin {"idle", "done"}
    /\ lock' = IF lock = r THEN NoRequest ELSE lock
    /\ Goto(r, "done")
    /\ UNCHANGED <<row, ledger, call, draft>>

Work(r) ==
    \/ LockToClose(r) \/ ReadOpenRow(r)
    \/ UpdateAssignee(r) \/ UpdateWherePending(r)
    \/ Commit(r)

Next == \E r \in Requests : \/ \E c \in Call : Begin(r, c)
                           \/ Work(r)
                           \/ Abort(r)

Spec == Init /\ [][Next]_vars

\* A transaction that has begun keeps executing; none has to begin, and
\* none has to fail.
FairSpec == Spec /\ \A r \in Requests : WF_vars(Work(r))
-----------------------------------------------------------------------------
(* What must hold *)

Closed == row.status \in Terminal

(***************************************************************************)
(* A closed instance stays as it was closed (FR-049, no undo), whatever    *)
(* was already under way when it closed.                                   *)
(***************************************************************************)
ClosedForGood == [][Closed => row'.status = row.status]_vars

(***************************************************************************)
(* BR-013 and NFR-012: of simultaneous completions exactly one succeeds;   *)
(* points and status come in the same commit, so no other outcome of the   *)
(* row carries points.                                                     *)
(***************************************************************************)
OneAward ==
    /\ \A e, f \in ledger : e = f
    /\ ledger # {} => row.status = "complete"

(***************************************************************************)
(* Points go to whoever holds the chore when it is completed, even if it   *)
(* was being handed over meanwhile.                                        *)
(***************************************************************************)
HolderIsCredited ==
    [][\A e \in ledger' \ ledger : e.user = row.assignee]_vars

(***************************************************************************)
(* The row lock delays a transaction, it never strands one.                *)
(***************************************************************************)
EveryRequestEnds == \A r \in Requests : pc[r] # "idle" ~> pc[r] = "done"

(***************************************************************************)
(* Statement by statement the row implements ChoreLifecycle: locks and     *)
(* re-checks make each transaction one step of it.  The one exception is   *)
(* a hand-over whose COMMIT finds the chore closed.                        *)
(***************************************************************************)
Lifecycle == INSTANCE ChoreLifecycle
             WITH status   <- row.status,
                  holder   <- row.assignee,
                  credited <- {e.user : e \in ledger}

LateHandOver == /\ Closed
                /\ \E r \in Requests : /\ call[r].kind \in {"reassign", "redistribute"}
                                       /\ Commit(r)

KeepsLifecycle == [][Lifecycle!Next \/ LateHandOver]_(Lifecycle!vars)
=============================================================================
