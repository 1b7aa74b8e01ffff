--------------------------- MODULE ChoreLifecycle ---------------------------
(***************************************************************************)
(* What the program promises about ONE chore instance, whatever else the   *)
(* household does: it is generated once, moves between holders while it is *)
(* open, is closed exactly once and for good, and credits points only when *)
(* it is completed, to whoever holds it at that moment.                    *)
(*                                                                         *)
(* The household model (one transaction per step) and the instance-row     *)
(* model (one SQL statement per step) are both measured against it.        *)
(***************************************************************************)
CONSTANTS Users,    \* everybody who may hold a chore
          NoUser    \* nobody

VARIABLES status,   \* "none" until generated
          holder,   \* assignee_id
          credited  \* whom the ledger credits for it

vars == <<status, holder, credited>>

Open     == {"pending", "overdue"}
Terminal == {"complete", "cancelled", "dismissed"}
Holders  == Users \cup {NoUser}

Init == status = "none" /\ holder = NoUser /\ credited = {}
-----------------------------------------------------------------------------
\* A new instance; a backfilled one can be past its due date at once.
Generate ==
    /\ status = "none"
    /\ status' \in Open
    /\ holder' \in Holders
    /\ credited' = {}

FallOverdue ==
    /\ status = "pending"
    /\ status' = "overdue"
    /\ UNCHANGED <<holder, credited>>

\* Reassignment and redistribution: only while the chore is open.
HandOver ==
    /\ status \in Open
    /\ holder' \in Holders
    /\ UNCHANGED <<status, credited>>

\* Completion credits the holder, nobody when there is none.
Complete ==
    /\ status \in Open
    /\ status' = "complete"
    /\ credited' = {holder} \ {NoUser}
    /\ UNCHANGED holder

Dismiss ==
    /\ status \in Open
    /\ status' = "dismissed"
    /\ UNCHANGED <<holder, credited>>

\* A deleted series cancels what is pending; overdue chores stay.
Cancel ==
    /\ status = "pending"
    /\ status' = "cancelled"
    /\ UNCHANGED <<holder, credited>>

\* The holder's account is deleted: who did a closed chore is forgotten,
\* and so are the points.
Forget ==
    /\ status \in Terminal
    /\ holder' = NoUser
    /\ credited' = {}
    /\ UNCHANGED status

\* The household is deleted with everything in it.
Erase == status' = "none" /\ holder' = NoUser /\ credited' = {}

Next ==
    \/ Generate \/ FallOverdue \/ HandOver
    \/ Complete \/ Dismiss \/ Cancel
    \/ Forget \/ Erase

Spec == Init /\ [][Next]_vars
=============================================================================
