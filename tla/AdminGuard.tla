------------------------------ MODULE AdminGuard ------------------------------
(***************************************************************************)
(* The handlers that change who is a member of a household and who is an   *)
(* admin (api/members.py, and services/account_deletion.py for one of the  *)
(* households), statement by statement, at READ COMMITTED.  None of them   *)
(* locks a membership before it decides: the caller's own row (deps.py),   *)
(* the target's row and the number of admins are three plain SELECTs, and  *)
(* the UPDATE at the end addresses the target's row by its id.             *)
(*                                                                         *)
(* With transactions that do not overlap, Household has the same handlers  *)
(* and their guards suffice.                                               *)
(***************************************************************************)
EXTENDS Integers, FiniteSets

CONSTANTS Users,
          Requests      \* slots for requests in flight

VARIABLES
    role,   \* committed memberships: "admin", "member", or "none" when inactive
    gone,   \* the household has been deleted
    pc,     \* request -> its next statement
    call,   \* request -> what it asks for
    mine,   \* request -> the caller's membership as loaded: its role, or
            \*            "none" if that membership is a past one by now
    loaded  \* request -> the target's membership as loaded, likewise

vars == <<role, gone, pc, call, mine, loaded>>

Roles == {"admin", "member", "none"}
Steps == {"idle", "authorize", "load", "others", "count", "write", "erase"}

\* remove_member, update_member_role, leave_household, delete_user_account.
Call == [kind : {"remove", "promote", "demote", "leave", "delete"},
         caller : Users, target : Users]

\* Leaving is a caller's own affair.
Own == {"leave", "delete"}

WellFormed(c) == c.kind \in Own => c.target = c.caller

Admins  == {u \in Users : role[u] = "admin"}
Members == {u \in Users : role[u] # "none"}

TypeOK ==
    /\ role \in [Users -> Roles] /\ gone \in BOOLEAN
    /\ pc \in [Requests -> Steps]
    /\ call \in [Requests -> Call]
    /\ mine \in [Requests -> Roles]
    /\ loaded \in [Requests -> Roles]

SomeCall == CHOOSE c \in Call : WellFormed(c)

Init ==
    /\ \E creator \in Users :
         role = [u \in Users |-> IF u = creator THEN "admin" ELSE "none"]
    /\ gone = FALSE
    /\ pc = [r \in Requests |-> "idle"]
    /\ call = [r \in Requests |-> SomeCall]
    /\ mine = [r \in Requests |-> "none"]
    /\ loaded = [r \in Requests |-> "none"]

\* A slot is used again and again; what it held is forgotten.
Finish(r) ==
    /\ pc' = [pc EXCEPT ![r] = "idle"]
    /\ call' = [call EXCEPT ![r] = SomeCall]
    /\ mine' = [mine EXCEPT ![r] = "none"]
    /\ loaded' = [loaded EXCEPT ![r] = "none"]

Goto(r, step) == pc' = [pc EXCEPT ![r] = step] /\ UNCHANGED call
-----------------------------------------------------------------------------
Receive(r, c) ==
    /\ pc[r] = "idle"
    /\ WellFormed(c)
    /\ pc' = [pc EXCEPT ![r] = "authorize"]
    /\ call' = [call EXCEPT ![r] = c]
    /\ UNCHANGED <<role, gone, mine, loaded>>

\* require_household_member and require_admin: 403 otherwise.  An account is
\* deleted with the active memberships it has.
Authorized(c) ==
    IF c.kind \in Own THEN role[c.caller] # "none" ELSE role[c.caller] = "admin"

Authorize(r) ==
    /\ pc[r] = "authorize"
    /\ IF Authorized(call[r])
       THEN /\ Goto(r, CASE call[r].kind = "leave"  -> "count"
                         [] call[r].kind = "delete" -> "others"
                         [] OTHER                   -> "load")
            /\ mine' = [mine EXCEPT ![r] = role[call[r].caller]]
            /\ loaded' = [loaded EXCEPT ![r] = role[call[r].caller]]
       ELSE Finish(r)
    /\ UNCHANGED <<role, gone>>

\* The target's active membership: 404 when there is none.  The caller's
\* own row is in the session already and keeps what was loaded first.
LoadTarget(r) ==
    /\ pc[r] = "load"
    /\ IF role[call[r].target] # "none"
       THEN /\ Goto(r, "count")
            /\ loaded' = [loaded EXCEPT ![r] =
                 IF call[r].target = call[r].caller /\ mine[r] # "none"
                 THEN mine[r] ELSE role[call[r].target]]
            /\ UNCHANGED mine
       ELSE Finish(r)
    /\ UNCHANGED <<role, gone>>

\* Is the account's owner alone in the household?
CountMembers(r) ==
    /\ pc[r] = "others"
    /\ Goto(r, IF Cardinality(Members) <= 1 THEN "erase" ELSE "count")
    /\ UNCHANGED <<role, gone, mine, loaded>>

\* The guard is asked only when an admin gives up the own role.
Guarded(r) ==
    /\ call[r].kind \in {"remove", "demote"} \cup Own
    /\ call[r].target = call[r].caller
    /\ call[r].kind \in Own => mine[r] = "admin"

\* _count_active_admins: 409 for the last one.
CountAdmins(r) ==
    /\ pc[r] = "count"
    /\ IF Guarded(r) /\ Cardinality(Admins) <= 1
       THEN Finish(r)
       ELSE Goto(r, "write") /\ UNCHANGED <<mine, loaded>>
    /\ UNCHANGED <<role, gone>>

\* The UPDATE and its COMMIT.  A write to a membership that has ended changes
\* nothing that counts; a role equal to the one loaded is not written.
Written(r) ==
    LET t == call[r].target
        new == CASE call[r].kind \in {"remove"} \cup Own -> "none"
                 [] call[r].kind = "promote"           -> "admin"
                 [] call[r].kind = "demote"            -> "member"
    IN  IF role[t] = "none" \/ loaded[r] \in {"none", new} THEN role
        ELSE [role EXCEPT ![t] = new]

Write(r) ==
    /\ pc[r] = "write"
    /\ role' = Written(r)
    /\ Finish(r)
    /\ UNCHANGED gone

\* The household goes with its last member, and with who has joined since.
Erase(r) ==
    /\ pc[r] = "erase"
    /\ role' = [u \in Users |-> "none"] /\ gone' = TRUE
    /\ Finish(r)

\* accept_invite, with an invite created earlier.  It inserts a membership
\* of its own: requests that loaded a former one are about that one still.
Accept(u) ==
    /\ ~ gone /\ role[u] = "none"
    /\ role' = [role EXCEPT ![u] = "member"]
    /\ mine' = [r \in Requests |-> IF call[r].caller = u THEN "none" ELSE mine[r]]
    /\ loaded' = [r \in Requests |-> IF call[r].target = u THEN "none" ELSE loaded[r]]
    /\ UNCHANGED <<gone, pc, call>>

Next ==
    \/ \E r \in Requests :
         \/ \E c \in Call : Receive(r, c)
         \/ Authorize(r) \/ LoadTarget(r) \/ CountMembers(r) \/ CountAdmins(r)
         \/ Write(r) \/ Erase(r)
    \/ \E u \in Users : Accept(u)

Spec == Init /\ [][Next]_vars
-----------------------------------------------------------------------------
(* What must hold *)

(***************************************************************************)
(* FR-019: at least one admin always remains, as long as there is the      *)
(* household.  The guards see to it as long as requests do not overlap;    *)
(* two in flight can each pass on the strength of the admin that the other *)
(* takes away.                                                             *)
(***************************************************************************)
AtLeastOneAdmin == gone \/ Admins # {}
=============================================================================
