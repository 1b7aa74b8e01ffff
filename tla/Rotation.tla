------------------------------- MODULE Rotation -------------------------------
(***************************************************************************)
(* The turns a household's rotation gives, counted: auto-assignments one   *)
(* at a time and in batches, members joining and departing.  The chores    *)
(* themselves are left to Household.                                       *)
(***************************************************************************)
EXTENDS RoundRobin

CONSTANTS Users,
          MaxBatch,     \* bound on the chores assigned at once
          MaxPointer    \* bound on the pointer

ASSUME RotationAssumption ==
    /\ NoUser \notin Users
    /\ MaxBatch \in Nat /\ MaxPointer \in Nat

VARIABLES rotation,     \* active members by joined_at
          pointer,      \* households.rotation_pointer
          tally         \* turns each user has had since the members changed

vars == <<rotation, pointer, tally>>

TypeOK ==
    /\ rotation \in Seq(Users) /\ IsInjective(rotation)
    /\ pointer \in 0 .. MaxPointer
    /\ tally \in [Users -> Nat]

NoTurns == [u \in Users |-> 0]

Init ==
    /\ \E creator \in Users : rotation = <<creator>>
    /\ pointer = 0
    /\ tally = NoTurns

\* The queue of a batch whose chores come in the order 1 .. n.
InOrder(n) == [k \in 1 .. n |-> k - 1]
-----------------------------------------------------------------------------
\* RoundRobinStrategy.assign.
Assign ==
    LET user == AutoAssigned(rotation, pointer)
    IN  /\ pointer < MaxPointer
        /\ user # NoUser
        /\ tally' = [tally EXCEPT ![user] = @ + 1]
        /\ pointer' = Advanced(rotation, pointer, 1)
        /\ UNCHANGED rotation

\* redistribute_chores_bulk, called by the daily job for new instances.
AssignBatch(n) ==
    LET given == BulkAssigned(rotation, pointer, InOrder(n))
    IN  /\ pointer + n <= MaxPointer
        /\ tally' = [u \in Users |-> tally[u] + Cardinality({k \in 1 .. n : given[k] = u})]
        /\ pointer' = Advanced(rotation, pointer, n)
        /\ UNCHANGED rotation

\* accept_invite.
Join(u) ==
    /\ u \notin ToSet(rotation)
    /\ rotation' = Append(rotation, u)
    /\ tally' = NoTurns
    /\ UNCHANGED pointer

\* A departure at position p that hands on n open chores.
Depart(p, n) ==
    LET rest    == RemoveAt(rotation, p)
        current == Advanced(rest, pointer, n)
    IN  /\ current <= MaxPointer
        /\ rotation' = rest
        /\ pointer' = AdjustedPointer(p - 1, Len(rest), pointer, current)
        /\ tally' = NoTurns

Next ==
    \/ Assign
    \/ \E n \in 1 .. MaxBatch : AssignBatch(n)
    \/ \E u \in Users : Join(u)
    \/ \E p \in DOMAIN rotation, n \in 0 .. MaxBatch : Depart(p, n)

Spec == Init /\ [][Next]_vars
-----------------------------------------------------------------------------
(* redistribute_chores, which the bulk form replaces *)

OneByOne ==
    LET after[n \in 0 .. MaxBatch] ==
          IF n = 0 THEN [given |-> <<>>, pointer |-> pointer]
          ELSE LET before == after[n - 1]
               IN  [given   |-> Append(before.given,
                                       AutoAssigned(rotation, before.pointer)),
                    pointer |-> Advanced(rotation, before.pointer, 1)]
    IN  after
-----------------------------------------------------------------------------
(* What must hold *)

(***************************************************************************)
(* FR-037 to FR-039: as long as the members stay the same, nobody is ever  *)
(* more than one turn ahead of anybody else, wherever the pointer stands   *)
(* and whether the turns were given singly or in batches.                  *)
(***************************************************************************)
FairTurns ==
    \A u, v \in ToSet(rotation) : tally[u] - tally[v] \in {-1, 0, 1}

(***************************************************************************)
(* assignment.py:121-122: a batch is assigned exactly as redistribute_-    *)
(* chores would assign it, one auto-assignment after the other.            *)
(***************************************************************************)
BatchIsOneByOne ==
    \A n \in 0 .. MaxBatch :
        /\ OneByOne[n].given = BulkAssigned(rotation, pointer, InOrder(n))
        /\ OneByOne[n].pointer = Advanced(rotation, pointer, n)

(***************************************************************************)
(* The member who should be served next when the one at position p         *)
(* departs: whoever was next, or the one after if it is the one who goes.  *)
(***************************************************************************)
NextEligible(p) ==
    IF Turn(rotation, pointer) = rotation[p]
    THEN rotation[(p % Len(rotation)) + 1] ELSE Turn(rotation, pointer)

(***************************************************************************)
(* The turns that a departure gives, and the one it leaves as the next:    *)
(* they begin with that member and go round those who remain.              *)
(***************************************************************************)
SkipsNobody(p, n) ==
    LET rest   == RemoveAt(rotation, p)
        served == Append(BulkAssigned(rest, pointer, InOrder(n)),
                         Turn(rotation', pointer'))
    IN  Len(rotation) > 1 =>
          \E k \in DOMAIN rest :
            /\ rest[k] = NextEligible(p)
            /\ \A j \in 0 .. n : served[j + 1] = Turn(rest, k - 1 + j)

(***************************************************************************)
(* BR-002 and redistribution.py:124-128: the pointer is adjusted so that   *)
(* no member who would have been next is passed over.  In the first lap of *)
(* the pointer that is so if the departure has no open chores to hand on,  *)
(* or if the one who departs stands at the pointer or behind it.           *)
(* Otherwise the code breaks BR-002.  It hands chores on from the old      *)
(* pointer among the members who remain, before it takes the pointer back  *)
(* (115-133): when the one who departs stood before the pointer, the next  *)
(* member is passed over and the last one served is served again.  After   *)
(* the first lap taking one back does not keep the pointer congruent to    *)
(* the shorter length, chores or none.                                     *)
(***************************************************************************)
FirstLapDeparturesSkipNobody ==
    [][pointer < Len(rotation) =>
        \A p \in DOMAIN rotation, n \in 0 .. MaxBatch :
          Depart(p, n) /\ (n = 0 \/ p > pointer) => SkipsNobody(p, n)]_vars
=============================================================================
