--------------------------- MODULE Household_proofs ---------------------------
(***************************************************************************)
(* Proofs about Household, for every number of users, definitions and      *)
(* days: the state is well typed, there is always an admin, an open chore  *)
(* is always held by an active member, points stay with who earned them,   *)
(* deleted series stay quiet, and every chore keeps its life cycle.        *)
(***************************************************************************)
EXTENDS Household, FiniteSetTheorems, SequenceTheorems, TLAPS

(* What the induction needs on top of the properties. *)

\* An instance has a definition, whose effort is read at completion.
InstancesHaveDefinitions ==
    \A i \in Instances : instance[i].status # "none" => i[1] \in defined

\* Without members there is no household, so nothing to generate from:
\* generation never runs with an empty rotation.
NothingOutlivesTheHousehold == rotation = <<>> => defined = {}

IInv ==
    /\ TypeOK
    /\ AtLeastOneAdmin
    /\ OpenChoresHeldByMembers
    /\ InstancesHaveDefinitions
    /\ NothingOutlivesTheHousehold
-----------------------------------------------------------------------------
(* Lemmas about the operators *)

\* A pointer, reduced modulo the length, is a position of the rotation.
LEMMA PointerInRange ==
    ASSUME NEW n \in Nat \ {0}, NEW p \in Nat
    PROVE  p % n \in 0 .. n - 1
  OBVIOUS

\* Whoever has the turn is in the rotation.
LEMMA TurnIsMember ==
    ASSUME NEW S, NEW s \in Seq(S), s # <<>>, NEW p \in Nat
    PROVE  Turn(s, p) \in ToSet(s)
<1>1. Len(s) \in Nat \ {0}
  OBVIOUS
<1>2. (p % Len(s)) + 1 \in DOMAIN s
  BY <1>1, PointerInRange
<1> QED
  BY <1>2 DEF Turn, ToSet

\* Auto-assignment never picks anybody but an active member.
LEMMA AutoAssignedIsMember ==
    ASSUME NEW S, NEW s \in Seq(S), s # <<>>, NEW p \in Nat
    PROVE  AutoAssigned(s, p) \in ToSet(s)
  BY TurnIsMember DEF AutoAssigned

\* What is left of a rotation when the member at position k departs.
LEMMA RemoveAtPositions ==
    ASSUME NEW S, NEW s \in Seq(S), NEW k \in 1 .. Len(s)
    PROVE  /\ RemoveAt(s, k) \in Seq(S)
           /\ Len(RemoveAt(s, k)) = Len(s) - 1
           /\ \A i \in 1 .. Len(s) - 1 :
                RemoveAt(s, k)[i] = IF i < k THEN s[i] ELSE s[i + 1]
<1> DEFINE a == SubSeq(s, 1, k - 1)
           b == SubSeq(s, k + 1, Len(s))
<1>1. /\ a \in Seq(S) /\ Len(a) = k - 1
      /\ \A i \in 1 .. k - 1 : a[i] = s[i]
  OBVIOUS
<1>2. /\ b \in Seq(S) /\ Len(b) = Len(s) - k
      /\ \A i \in 1 .. Len(s) - k : b[i] = s[k + i]
  OBVIOUS
<1> HIDE DEF a, b
<1>3. /\ a \o b \in Seq(S) /\ Len(a \o b) = Len(s) - 1
      /\ \A i \in 1 .. Len(s) - 1 :
           (a \o b)[i] = IF i < k THEN a[i] ELSE b[i - (k - 1)]
  <2>1. a \o b \in Seq(S) /\ Len(a \o b) = Len(a) + Len(b)
    BY <1>1, <1>2, ConcatProperties
  <2>2. \A i \in 1 .. Len(a) + Len(b) :
          (a \o b)[i] = IF i <= Len(a) THEN a[i] ELSE b[i - Len(a)]
    BY <1>1, <1>2, ConcatProperties
  <2> QED
    BY <1>1, <1>2, <2>1, <2>2
<1>4. \A i \in 1 .. Len(s) - 1 : (a \o b)[i] = IF i < k THEN s[i] ELSE s[i + 1]
  BY <1>1, <1>2, <1>3
<1>5. RemoveAt(s, k) = a \o b
  BY DEF RemoveAt, a, b
<1> QED
  BY <1>3, <1>4, <1>5

\* Exactly the departed member is missing.
LEMMA RemoveAtMembers ==
    ASSUME NEW S, NEW s \in Seq(S), IsInjective(s), NEW k \in 1 .. Len(s)
    PROVE  /\ IsInjective(RemoveAt(s, k))
           /\ ToSet(RemoveAt(s, k)) = ToSet(s) \ {s[k]}
<1> DEFINE t == RemoveAt(s, k)
<1>1. /\ t \in Seq(S)
      /\ Len(t) = Len(s) - 1
      /\ \A i \in 1 .. Len(s) - 1 : t[i] = IF i < k THEN s[i] ELSE s[i + 1]
  BY RemoveAtPositions
<1> HIDE DEF t
<1>2. IsInjective(t)
  BY <1>1 DEF IsInjective
<1>3. ToSet(t) \subseteq ToSet(s) \ {s[k]}
  BY <1>1 DEF ToSet, IsInjective
<1>4. ToSet(s) \ {s[k]} \subseteq ToSet(t)
  <2> SUFFICES ASSUME NEW j \in 1 .. Len(s), j # k
               PROVE  s[j] \in ToSet(t)
    BY DEF ToSet
  <2>1. CASE j < k
    <3>1. j \in DOMAIN t /\ t[j] = s[j]
      BY <1>1, <2>1
    <3> QED
      BY <3>1 DEF ToSet
  <2>2. CASE j > k
    <3>1. j - 1 \in DOMAIN t /\ t[j - 1] = s[j]
      BY <1>1, <2>2
    <3> QED
      BY <3>1 DEF ToSet
  <2> QED
    BY <2>1, <2>2
<1> QED
  BY <1>2, <1>3, <1>4 DEF t
\* There are finitely many instances, hence finitely many in a batch.
LEMMA InstancesAreFinite == IsFiniteSet(Instances)
<1>1. IsFiniteSet(Definitions) /\ IsFiniteSet(Dates)
  BY HouseholdAssumption, FS_Interval DEF Dates
<1> QED
  BY <1>1, FS_Product DEF Instances

\* A queue lists exactly its batch, and positions in it are numbers.
LEMMA QueueOfBatch ==
    ASSUME NEW S \in SUBSET Instances, NEW q \in Queues(S)
    PROVE  /\ Cardinality(S) \in Nat
           /\ DOMAIN q = S
           /\ \A c \in S : q[c] \in Nat
<1>1. Cardinality(S) \in Nat
  BY InstancesAreFinite, FS_Subset, FS_CardinalityType
<1> QED
  BY <1>1 DEF Queues, Injection

\* Everything in a batch goes to a member.
LEMMA BatchGoesToMembers ==
    ASSUME NEW s \in Seq(Users), s # <<>>, NEW n \in Nat,
           NEW S \in SUBSET Instances, NEW q \in Queues(S)
    PROVE  \A c \in S : BulkAssigned(s, n, q)[c] \in ToSet(s)
<1> TAKE c \in S
<1>1. BulkAssigned(s, n, q)[c] = AutoAssigned(s, n + q[c])
  BY QueueOfBatch DEF BulkAssigned
<1>2. n + q[c] \in Nat
  BY QueueOfBatch
<1> QED
  BY <1>1, <1>2, AutoAssignedIsMember

\* The pointer moves to a pointer.
LEMMA AdvancedIsPointer ==
    ASSUME NEW s, NEW n \in Nat, NEW k \in Nat, Advanced(s, n, k) <= MaxPointer
    PROVE  Advanced(s, n, k) \in 0 .. MaxPointer
  BY HouseholdAssumption DEF Advanced

\* Members are accounts, so none of them is the missing assignee.
LEMMA MembersAreUsers ==
    ASSUME TypeOK
    PROVE  Members \subseteq Users /\ NoUser \notin Members
  BY HouseholdAssumption DEF TypeOK, Members, ToSet

\* Two admins or more: one is left when another goes.
LEMMA AnotherAdmin ==
    ASSUME TypeOK, NEW u, ~ Cardinality(admins) <= 1
    PROVE  admins \ {u} # {}
<1>1. IsFiniteSet(admins)
  BY HouseholdAssumption, FS_Subset, MembersAreUsers DEF TypeOK
<1>2. Cardinality(admins) \in Nat
  BY <1>1, FS_CardinalityType
<1>3. Cardinality(admins \ {u}) >= 1
  BY <1>1, <1>2, FS_RemoveElement
<1> QED
  BY <1>3, FS_EmptySet

\* The number of admins is a number.
LEMMA AdminsAreCounted ==
    ASSUME TypeOK
    PROVE  Cardinality(admins) \in Nat
  BY HouseholdAssumption, FS_Subset, FS_CardinalityType, MembersAreUsers DEF TypeOK

\* What the guard of leaving and of deleting an account is for.
LEMMA AnAdminStays ==
    ASSUME IInv, NEW p \in DOMAIN rotation,
           rotation[p] \in admins => Cardinality(admins) > 1
    PROVE  admins \ {rotation[p]} # {}
<1>1. CASE rotation[p] \in admins
  BY <1>1, AnotherAdmin, AdminsAreCounted DEF IInv
<1>2. CASE rotation[p] \notin admins
  BY <1>2 DEF IInv, AtLeastOneAdmin, TypeOK
<1> QED
  BY <1>1, <1>2
-----------------------------------------------------------------------------
(* Departures *)

\* What every departure does to the people, when it leaves an admin.
LEMMA DepartKeepsPeople ==
    ASSUME IInv, NEW p \in DOMAIN rotation,
           NEW queue \in Queues(OpenChoresAt(p)),
           Depart(p, queue), admins \ {rotation[p]} # {}
    PROVE  /\ rotation' \in Seq(Users) /\ IsInjective(rotation)'
           /\ rotation' = RemoveAt(rotation, p) /\ rotation' # <<>>
           /\ Members' = Members \ {rotation[p]}
           /\ admins' \subseteq Members' /\ admins' # {}
           /\ pointer' \in 0 .. MaxPointer
           /\ UNCHANGED <<series, today>>
<1> DEFINE rest == RemoveAt(rotation, p)
           current == Advanced(rest, pointer, Cardinality(DOMAIN queue))
<1>1. rotation \in Seq(Users) /\ IsInjective(rotation) /\ p \in 1 .. Len(rotation)
  BY DEF IInv, TypeOK
<1>2. rest \in Seq(Users) /\ Len(rest) = Len(rotation) - 1
  BY <1>1, RemoveAtPositions
<1>3. IsInjective(rest) /\ ToSet(rest) = ToSet(rotation) \ {rotation[p]}
  BY <1>1, RemoveAtMembers
<1>4. /\ current <= MaxPointer
      /\ rotation' = rest
      /\ admins' = admins \ {rotation[p]}
      /\ pointer' = AdjustedPointer(p - 1, Len(rest), pointer, current)
      /\ UNCHANGED <<series, today>>
  BY DEF Depart
<1>5. current \in 0 .. MaxPointer
  <2>1. OpenChoresAt(p) \subseteq Instances
    BY DEF OpenChoresAt
  <2>2. Cardinality(DOMAIN queue) \in Nat
    BY <2>1, QueueOfBatch
  <2> QED
    BY <1>4, <2>2, AdvancedIsPointer, HouseholdAssumption DEF IInv, TypeOK
<1> HIDE DEF rest, current
<1>6. pointer' \in 0 .. MaxPointer
  BY <1>4, <1>5, HouseholdAssumption DEF AdjustedPointer
<1>7. Members' = Members \ {rotation[p]}
  BY <1>3, <1>4 DEF Members
<1>8. admins' \subseteq Members' /\ admins' # {}
  BY <1>4, <1>7 DEF IInv, TypeOK
<1>9. rotation' # <<>>
  BY <1>8 DEF Members, ToSet
<1> QED
  BY <1>2, <1>3, <1>4, <1>6, <1>7, <1>8, <1>9 DEF rest

\* What the redistribution does to the instances.
LEMMA RedistributionFindsMembers ==
    ASSUME IInv, NEW p \in DOMAIN rotation,
           NEW queue \in Queues(OpenChoresAt(p)),
           RemoveAt(rotation, p) # <<>>
    PROVE  /\ Redistributed(p, queue) \in [Instances -> InstanceRow]
           /\ \A i \in Instances :
                /\ Redistributed(p, queue)[i].status = instance[i].status
                /\ Redistributed(p, queue)[i].status \in Open =>
                     Redistributed(p, queue)[i].assignee \in Members \ {rotation[p]}
<1> DEFINE rest  == RemoveAt(rotation, p)
           given == BulkAssigned(rest, pointer, queue)
           left  == Redistributed(p, queue)
<1>1. rotation \in Seq(Users) /\ IsInjective(rotation) /\ p \in 1 .. Len(rotation)
  BY DEF IInv, TypeOK
<1>2. rest \in Seq(Users) /\ ToSet(rest) = Members \ {rotation[p]}
  BY <1>1, RemoveAtPositions, RemoveAtMembers DEF Members
<1>3. OpenChoresAt(p) \subseteq Instances /\ DOMAIN queue = OpenChoresAt(p)
  BY QueueOfBatch DEF OpenChoresAt
<1>4. \A i \in OpenChoresAt(p) : given[i] \in Members \ {rotation[p]}
  BY <1>2, <1>3, BatchGoesToMembers DEF IInv, TypeOK
<1>5. left = [i \in Instances |-> IF i \in OpenChoresAt(p)
                                  THEN [instance[i] EXCEPT !.assignee = given[i]]
                                  ELSE instance[i]]
  BY <1>3 DEF Redistributed
<1> HIDE DEF rest, given, left
<1> SUFFICES ASSUME NEW i \in Instances
             PROVE  /\ left[i] \in InstanceRow
                    /\ left[i].status = instance[i].status
                    /\ left[i].status \in Open =>
                         left[i].assignee \in Members \ {rotation[p]}
  BY <1>5 DEF left
<1>6. instance[i] \in InstanceRow
  BY DEF IInv, TypeOK
<1>7. CASE i \in OpenChoresAt(p)
  <2>1. left[i] = [instance[i] EXCEPT !.assignee = given[i]]
    BY <1>5, <1>7
  <2>2. given[i] \in Users /\ given[i] \in Members \ {rotation[p]}
    BY <1>4, <1>7, MembersAreUsers DEF IInv
  <2> QED
    BY <1>6, <2>1, <2>2 DEF InstanceRow
<1>8. CASE i \notin OpenChoresAt(p)
  <2>1. left[i] = instance[i]
    BY <1>5, <1>8
  <2>2. instance[i].status \in Open => instance[i].assignee # rotation[p]
    BY <1>8 DEF OpenChoresAt
  <2> QED
    BY <1>6, <2>1, <2>2 DEF IInv, OpenChoresHeldByMembers
<1> QED
  BY <1>7, <1>8
-----------------------------------------------------------------------------
(* Every step keeps the inductive invariant: chores *)

LEMMA CreateChoreKeepsIInv ==
    ASSUME IInv, NEW caller, NEW d \in Definitions, NEW row \in DefinitionRow,
           NEW to, CreateChore(caller, d, row, to)
    PROVE  IInv'
<1> DEFINE i == <<d, row.first_due_date>>
           assignee == IF to = NoUser THEN AutoAssigned(rotation, pointer) ELSE to
<1>1. i \in Instances /\ i[1] = d
  BY DEF DefinitionRow, Instances
<1>2. assignee \in Members
  <2>1. rotation # <<>>
    BY DEF CreateChore, IInv, TypeOK, Members, ToSet
  <2> QED
    BY <2>1, AutoAssignedIsMember DEF CreateChore, IInv, TypeOK, Members
<1>3. instance' = [instance EXCEPT ![i] =
        [status |-> "pending", assignee |-> assignee, points_awarded |-> 0]]
  BY DEF CreateChore
<1> HIDE DEF i, assignee
<1>4. /\ defined' = defined \cup {d} /\ active' = active \cup {d}
      /\ definition' = [e \in defined \cup {d} |->
                          IF e = d THEN row ELSE definition[e]]
      /\ UNCHANGED <<people, ledger, today>>
  BY DEF CreateChore
<1>5. pointer' \in 0 .. MaxPointer
  BY HouseholdAssumption DEF CreateChore, Advanced, IInv, TypeOK
<1>6. instance' \in [Instances -> InstanceRow]
  BY <1>1, <1>2, <1>3, MembersAreUsers DEF IInv, TypeOK, InstanceRow, Statuses, Open
<1>7. definition' \in [defined' -> DefinitionRow] /\ defined' \subseteq Definitions
      /\ active' \subseteq defined'
  BY <1>4 DEF IInv, TypeOK
<1>8. TypeOK'
  BY <1>4, <1>5, <1>6, <1>7 DEF IInv, TypeOK, people, Members
<1>9. AtLeastOneAdmin' /\ Members' = Members /\ rotation' = rotation
  BY <1>4 DEF IInv, AtLeastOneAdmin, people, Members
<1>10. OpenChoresHeldByMembers'
  BY <1>1, <1>2, <1>3, <1>9 DEF IInv, TypeOK, OpenChoresHeldByMembers
<1>11. InstancesHaveDefinitions'
  BY <1>1, <1>3, <1>4 DEF IInv, TypeOK, InstancesHaveDefinitions
<1>12. NothingOutlivesTheHousehold'
  BY <1>2, <1>9 DEF NothingOutlivesTheHousehold, IInv, TypeOK, Members, ToSet
<1> QED
  BY <1>8, <1>9, <1>10, <1>11, <1>12 DEF IInv

LEMMA UpdateDefinitionKeepsIInv ==
    ASSUME IInv, NEW caller, NEW d \in Definitions, NEW effort \in EffortLevels,
           NEW rule \in Intervals \cup {NoRule},
           UpdateDefinition(caller, d, effort, rule)
    PROVE  IInv'
<1>1. definition' \in [defined -> DefinitionRow]
  BY DEF UpdateDefinition, IInv, TypeOK, DefinitionRow
<1>2. UNCHANGED <<people, pointer, defined, active, instance, ledger, today>>
  BY DEF UpdateDefinition
<1> QED
  BY <1>1, <1>2
  DEF IInv, TypeOK, AtLeastOneAdmin, OpenChoresHeldByMembers,
      InstancesHaveDefinitions, NothingOutlivesTheHousehold, people, Members

LEMMA DeleteDefinitionKeepsIInv ==
    ASSUME IInv, NEW caller, NEW d \in Definitions, DeleteDefinition(caller, d)
    PROVE  IInv'
<1>1. /\ active' = active \ {d}
      /\ instance' = [i \in Instances |->
            IF i[1] = d /\ instance[i].status = "pending"
            THEN [instance[i] EXCEPT !.status = "cancelled"]
            ELSE instance[i]]
      /\ UNCHANGED <<people, pointer, defined, definition, ledger, today>>
  BY DEF DeleteDefinition
<1>2. instance' \in [Instances -> InstanceRow]
  BY <1>1 DEF IInv, TypeOK, InstanceRow, Statuses, Terminal
<1>3. \A i \in Instances :
        \/ instance'[i] = instance[i]
        \/ instance[i].status = "pending" /\ instance'[i].status = "cancelled"
  BY <1>1 DEF IInv, TypeOK, InstanceRow
<1>4. TypeOK'
  BY <1>1, <1>2 DEF IInv, TypeOK, people, Members
<1>5. OpenChoresHeldByMembers'
  BY <1>1, <1>3 DEF IInv, OpenChoresHeldByMembers, Open, people, Members
<1>6. InstancesHaveDefinitions'
  BY <1>1, <1>3 DEF IInv, InstancesHaveDefinitions
<1> QED
  BY <1>1, <1>4, <1>5, <1>6
  DEF IInv, AtLeastOneAdmin, NothingOutlivesTheHousehold, people

\* A step that rewrites the row of one open instance, and perhaps the ledger
\* and the pointer: it may close the instance, or hand it to a member.
LEMMA RewritingOneRowKeepsIInv ==
    ASSUME IInv, NEW i \in Instances, NEW row \in InstanceRow,
           instance[i].status \in Open,
           instance' = [instance EXCEPT ![i] = row],
           row.status \in Open => row.assignee \in Members,
           ledger' \subseteq LedgerRow, pointer' \in 0 .. MaxPointer,
           UNCHANGED <<people, series, today>>
    PROVE  IInv'
<1>1. /\ instance' \in [Instances -> InstanceRow] /\ instance'[i] = row
      /\ \A j \in Instances \ {i} : instance'[j] = instance[j]
  BY DEF IInv, TypeOK
<1>2. Members' = Members
  BY DEF people, Members
<1>3. TypeOK'
  BY <1>1, <1>2 DEF IInv, TypeOK, people, series
<1>4. OpenChoresHeldByMembers'
  BY <1>1, <1>2 DEF IInv, OpenChoresHeldByMembers
<1>5. InstancesHaveDefinitions'
  BY <1>1 DEF IInv, InstancesHaveDefinitions, series, Open
<1> QED
  BY <1>3, <1>4, <1>5
  DEF IInv, AtLeastOneAdmin, NothingOutlivesTheHousehold, people, series

LEMMA CompleteKeepsIInv ==
    ASSUME IInv, NEW caller, NEW i \in Instances, Complete(caller, i)
    PROVE  IInv'
<1> DEFINE user   == instance[i].assignee
           points == EFFORT_POINTS[definition[i[1]].effort_level]
<1>1. instance[i] \in InstanceRow /\ instance[i].status \in Open
  BY DEF IInv, TypeOK, Complete, MayClose
<1>2. points \in Nat
  <2>1. definition[i[1]] \in DefinitionRow
    BY <1>1 DEF IInv, InstancesHaveDefinitions, TypeOK, Open
  <2> QED
    BY <2>1, HouseholdAssumption DEF DefinitionRow, EFFORT_POINTS
<1>3. UNCHANGED <<people, pointer, series, today>>
  BY DEF Complete
<1>4. CASE user # NoUser
  <2>1. /\ instance' = [instance EXCEPT ![i] =
             [instance[i] EXCEPT !.status = "complete", !.points_awarded = points]]
        /\ ledger' = ledger \cup {[instance |-> i, user |-> user, points |-> points]}
    BY <1>1, <1>4 DEF Complete, IInv, TypeOK, InstanceRow
  <2>2. ledger' \subseteq LedgerRow
    BY <1>1, <1>2, <1>4, <2>1 DEF IInv, TypeOK, InstanceRow, LedgerRow
  <2>3. [instance[i] EXCEPT !.status = "complete", !.points_awarded = points]
          \in [status : Terminal, assignee : Users \cup {NoUser}, points_awarded : Nat]
    BY <1>1, <1>2 DEF InstanceRow, Terminal
  <2> QED
    BY <1>1, <1>3, <2>1, <2>2, <2>3, RewritingOneRowKeepsIInv
    DEF IInv, TypeOK, InstanceRow, Statuses, Open, Terminal
<1>5. CASE user = NoUser
  <2>1. /\ instance' = [instance EXCEPT ![i] =
             [instance[i] EXCEPT !.status = "complete", !.points_awarded = 0]]
        /\ ledger' = ledger
    BY <1>1, <1>5 DEF Complete, IInv, TypeOK, InstanceRow
  <2>2. [instance[i] EXCEPT !.status = "complete", !.points_awarded = 0]
          \in [status : Terminal, assignee : Users \cup {NoUser}, points_awarded : Nat]
    BY <1>1 DEF InstanceRow, Terminal
  <2> QED
    BY <1>1, <1>3, <2>1, <2>2, RewritingOneRowKeepsIInv
    DEF IInv, TypeOK, InstanceRow, Statuses, Open, Terminal
<1> QED
  BY <1>4, <1>5

LEMMA DismissKeepsIInv ==
    ASSUME IInv, NEW caller, NEW i \in Instances, Dismiss(caller, i)
    PROVE  IInv'
<1> DEFINE row == [instance[i] EXCEPT !.status = "dismissed", !.points_awarded = 0]
<1>1. instance[i] \in InstanceRow /\ instance[i].status \in Open
  BY DEF IInv, TypeOK, Dismiss, MayClose
<1>2. /\ row \in InstanceRow /\ row.status = "dismissed"
      /\ instance' = [instance EXCEPT ![i] = row]
      /\ UNCHANGED <<people, pointer, series, ledger, today>>
  BY <1>1 DEF Dismiss, IInv, TypeOK, InstanceRow, Statuses, Terminal
<1> HIDE DEF row
<1> QED
  BY <1>1, <1>2, RewritingOneRowKeepsIInv DEF IInv, TypeOK, Open

LEMMA ReassignKeepsIInv ==
    ASSUME IInv, NEW caller, NEW i \in Instances, NEW to, Reassign(caller, i, to)
    PROVE  IInv'
<1> DEFINE assignee == IF to = NoUser THEN AutoAssigned(rotation, pointer) ELSE to
           row      == [instance[i] EXCEPT !.assignee = assignee]
<1>1. instance[i] \in InstanceRow /\ instance[i].status \in Open
  BY DEF IInv, TypeOK, Reassign
<1>2. assignee \in Members
  <2>1. rotation # <<>>
    BY DEF Reassign, IInv, TypeOK, Members, ToSet
  <2> QED
    BY <2>1, AutoAssignedIsMember DEF Reassign, IInv, TypeOK, Members
<1>3. pointer' \in 0 .. MaxPointer
  BY HouseholdAssumption DEF Reassign, Advanced, IInv, TypeOK
<1>4. /\ row \in InstanceRow /\ row.assignee = assignee
      /\ instance' = [instance EXCEPT ![i] = row]
      /\ UNCHANGED <<people, series, ledger, today>>
  BY <1>1, <1>2, MembersAreUsers DEF Reassign, IInv, TypeOK, InstanceRow
<1> HIDE DEF row, assignee
<1> QED
  BY <1>1, <1>2, <1>3, <1>4, RewritingOneRowKeepsIInv DEF IInv, TypeOK
-----------------------------------------------------------------------------
(* Every step keeps the inductive invariant: members *)

LEMMA AcceptInviteKeepsIInv ==
    ASSUME IInv, NEW u \in Users, AcceptInvite(u)
    PROVE  IInv'
<1>1. /\ u \in registered /\ u \notin Members /\ rotation # <<>>
      /\ rotation \in Seq(Users) /\ IsInjective(rotation)
      /\ rotation' = Append(rotation, u)
      /\ UNCHANGED <<registered, admins, pointer, series, instance, ledger, today>>
  BY DEF AcceptInvite, IInv, TypeOK
<1>2. /\ rotation' \in Seq(Users) /\ rotation' # <<>>
      /\ Len(rotation') = Len(rotation) + 1
      /\ \A k \in 1 .. Len(rotation) : rotation'[k] = rotation[k]
      /\ rotation'[Len(rotation) + 1] = u
  BY <1>1, AppendProperties
<1>3. IsInjective(rotation)'
  BY <1>1, <1>2 DEF IsInjective, Members, ToSet
<1>4. Members' = Members \cup {u}
  BY <1>1, <1>2 DEF Members, ToSet
<1>5. TypeOK'
  BY <1>1, <1>2, <1>3, <1>4 DEF IInv, TypeOK, series
<1>6. OpenChoresHeldByMembers'
  BY <1>1, <1>4 DEF IInv, OpenChoresHeldByMembers
<1> QED
  BY <1>1, <1>2, <1>5, <1>6
  DEF IInv, AtLeastOneAdmin, InstancesHaveDefinitions,
      NothingOutlivesTheHousehold, series

LEMMA UpdateRoleKeepsIInv ==
    ASSUME IInv, NEW caller, NEW u, NEW role \in {"admin", "member"},
           UpdateRole(caller, u, role)
    PROVE  IInv'
<1>1. /\ caller \in admins /\ u \in Members
      /\ ~ (u = caller /\ role = "member" /\ Cardinality(admins) <= 1)
      /\ admins' = IF role = "admin" THEN admins \cup {u} ELSE admins \ {u}
      /\ UNCHANGED <<registered, rotation, pointer, series, instance, ledger, today>>
  BY DEF UpdateRole
<1>2. admins' \subseteq Members
  BY <1>1 DEF IInv, TypeOK
<1>3. admins' # {}
  <2>1. CASE u = caller /\ role = "member"
    BY <1>1, <2>1, AnotherAdmin DEF IInv
  <2>2. CASE ~ (u = caller /\ role = "member")
    BY <1>1, <2>2
  <2> QED
    BY <2>1, <2>2
<1> QED
  BY <1>1, <1>2, <1>3
  DEF IInv, TypeOK, AtLeastOneAdmin, OpenChoresHeldByMembers, Members,
      InstancesHaveDefinitions, NothingOutlivesTheHousehold, series

\* A member leaves without an account being deleted.
LEMMA DepartureKeepsIInv ==
    ASSUME IInv, NEW p \in DOMAIN rotation,
           NEW queue \in Queues(OpenChoresAt(p)),
           Depart(p, queue), admins \ {rotation[p]} # {},
           instance' = Redistributed(p, queue),
           UNCHANGED <<registered, ledger>>
    PROVE  IInv'
<1>1. /\ rotation' \in Seq(Users) /\ IsInjective(rotation)'
      /\ rotation' = RemoveAt(rotation, p) /\ rotation' # <<>>
      /\ Members' = Members \ {rotation[p]}
      /\ admins' \subseteq Members' /\ admins' # {}
      /\ pointer' \in 0 .. MaxPointer
      /\ UNCHANGED <<series, today>>
  BY DepartKeepsPeople
<1>2. /\ instance' \in [Instances -> InstanceRow]
      /\ \A i \in Instances :
           /\ instance'[i].status = instance[i].status
           /\ instance'[i].status \in Open => instance'[i].assignee \in Members'
  BY <1>1, RedistributionFindsMembers
<1>3. TypeOK'
  BY <1>1, <1>2 DEF IInv, TypeOK, series
<1> QED
  BY <1>1, <1>2, <1>3
  DEF IInv, AtLeastOneAdmin, OpenChoresHeldByMembers,
      InstancesHaveDefinitions, NothingOutlivesTheHousehold, series

LEMMA RemoveMemberKeepsIInv ==
    ASSUME IInv, NEW caller, NEW p \in DOMAIN rotation,
           NEW queue \in Queues(OpenChoresAt(p)), RemoveMember(caller, p, queue)
    PROVE  IInv'
<1>1. caller \in admins /\ (rotation[p] = caller => Cardinality(admins) > 1)
  BY DEF RemoveMember
<1>2. admins \ {rotation[p]} # {}
  <2>1. CASE rotation[p] # caller
    BY <1>1, <2>1
  <2>2. CASE rotation[p] = caller
    BY <1>1, <2>2, AnotherAdmin, AdminsAreCounted DEF IInv
  <2> QED
    BY <2>1, <2>2
<1> QED
  BY <1>2, DepartureKeepsIInv DEF RemoveMember

LEMMA LeaveHouseholdKeepsIInv ==
    ASSUME IInv, NEW p \in DOMAIN rotation,
           NEW queue \in Queues(OpenChoresAt(p)), LeaveHousehold(p, queue)
    PROVE  IInv'
<1>1. admins \ {rotation[p]} # {}
  BY AnAdminStays DEF LeaveHousehold
<1> QED
  BY <1>1, DepartureKeepsIInv DEF LeaveHousehold

\* The user row goes: assignments are cleared, ledger rows deleted.  It keeps
\* the instances well formed, and touches no open one of another member.
LEMMA ErasingAnAccount ==
    ASSUME NEW u \in Users, NEW left \in [Instances -> InstanceRow],
           NEW after,
           after = [i \in Instances |->
                      IF left[i].assignee = u
                      THEN [left[i] EXCEPT !.assignee = NoUser] ELSE left[i]]
    PROVE  /\ after \in [Instances -> InstanceRow]
           /\ \A i \in Instances :
                /\ after[i].status = left[i].status
                /\ left[i].assignee # u => after[i] = left[i]
  BY DEF InstanceRow

LEMMA DeleteAccountKeepsIInv ==
    ASSUME IInv, NEW p \in DOMAIN rotation,
           NEW queue \in Queues(OpenChoresAt(p)), DeleteAccount(p, queue)
    PROVE  IInv'
<1> DEFINE u    == rotation[p]
           left == Redistributed(p, queue)
<1>1. admins \ {u} # {}
  BY AnAdminStays DEF DeleteAccount
<1>2. /\ rotation' \in Seq(Users) /\ IsInjective(rotation)'
      /\ rotation' = RemoveAt(rotation, p) /\ rotation' # <<>>
      /\ Members' = Members \ {u}
      /\ admins' \subseteq Members' /\ admins' # {}
      /\ pointer' \in 0 .. MaxPointer
      /\ UNCHANGED <<series, today>>
  BY <1>1, DepartKeepsPeople DEF DeleteAccount
<1>3. /\ left \in [Instances -> InstanceRow]
      /\ \A i \in Instances :
           /\ left[i].status = instance[i].status
           /\ left[i].status \in Open => left[i].assignee \in Members \ {u}
  BY <1>2, RedistributionFindsMembers
<1>4. u \in Users
  BY DEF IInv, TypeOK
<1>5. /\ registered' = registered \ {u}
      /\ ledger' \subseteq ledger
      /\ instance' = [i \in Instances |->
                        IF left[i].assignee = u
                        THEN [left[i] EXCEPT !.assignee = NoUser] ELSE left[i]]
  BY DEF DeleteAccount
<1> HIDE DEF u, left
<1>6. /\ instance' \in [Instances -> InstanceRow]
      /\ \A i \in Instances :
           /\ instance'[i].status = left[i].status
           /\ left[i].assignee # u => instance'[i] = left[i]
  BY <1>3, <1>4, <1>5, ErasingAnAccount
<1>7. TypeOK'
  BY <1>2, <1>5, <1>6 DEF IInv, TypeOK, series
<1>8. OpenChoresHeldByMembers'
  BY <1>2, <1>3, <1>6 DEF OpenChoresHeldByMembers
<1>9. InstancesHaveDefinitions'
  BY <1>2, <1>3, <1>6 DEF IInv, InstancesHaveDefinitions, series
<1> QED
  BY <1>2, <1>7, <1>8, <1>9 DEF IInv, AtLeastOneAdmin, NothingOutlivesTheHousehold

LEMMA DeleteFormerAccountKeepsIInv ==
    ASSUME IInv, NEW u \in Users, DeleteFormerAccount(u)
    PROVE  IInv'
<1>1. /\ u \notin Members
      /\ registered' = registered \ {u}
      /\ ledger' \subseteq ledger
      /\ instance' = [i \in Instances |->
                        IF instance[i].assignee = u
                        THEN [instance[i] EXCEPT !.assignee = NoUser]
                        ELSE instance[i]]
      /\ UNCHANGED <<rotation, admins, pointer, series, today>>
  BY DEF DeleteFormerAccount
<1>2. /\ instance' \in [Instances -> InstanceRow]
      /\ \A i \in Instances :
           /\ instance'[i].status = instance[i].status
           /\ instance[i].assignee # u => instance'[i] = instance[i]
  BY <1>1, ErasingAnAccount DEF IInv, TypeOK
<1>3. TypeOK'
  BY <1>1, <1>2 DEF IInv, TypeOK, Members, series
<1>4. OpenChoresHeldByMembers'
  BY <1>1, <1>2 DEF IInv, OpenChoresHeldByMembers, Members
<1> QED
  BY <1>1, <1>2, <1>3, <1>4
  DEF IInv, AtLeastOneAdmin, InstancesHaveDefinitions,
      NothingOutlivesTheHousehold, series

\* An empty household satisfies the invariant.
LEMMA EverythingGoneIsFine ==
    ASSUME IInv, EverythingGone, registered' \subseteq registered
    PROVE  IInv'
<1>1. Members' = {}
  BY DEF EverythingGone, Members, ToSet
<1>2. instance' \in [Instances -> InstanceRow]
  BY DEF EverythingGone, NoInstance, InstanceRow, Statuses
<1>3. TypeOK'
  BY <1>1, <1>2, HouseholdAssumption
  DEF EverythingGone, IInv, TypeOK, IsInjective
<1> QED
  BY <1>3
  DEF EverythingGone, IInv, AtLeastOneAdmin, OpenChoresHeldByMembers, NoInstance,
      Open, InstancesHaveDefinitions, NothingOutlivesTheHousehold
-----------------------------------------------------------------------------
(* Every step keeps the inductive invariant: the clock *)

\* Generated instances go to members: there is a rotation whenever there is
\* an active definition.
LEMMA DailyJobKeepsIInv ==
    ASSUME IInv, NEW queue \in Queues(Missing), DailyJob(queue)
    PROVE  IInv'
<1> DEFINE given == BulkAssigned(rotation, pointer, queue)
<1>1. Missing \subseteq Instances /\ \A i \in Missing : i[1] \in active
  BY DEF Missing
<1>2. DOMAIN queue = Missing /\ Cardinality(DOMAIN queue) \in Nat
  BY <1>1, QueueOfBatch
<1>3. \A i \in Missing : given[i] \in Members /\ i[1] \in defined
  <2> TAKE i \in Missing
  <2>1. i[1] \in defined
    BY <1>1 DEF IInv, TypeOK
  <2>2. rotation # <<>>
    BY <2>1 DEF IInv, NothingOutlivesTheHousehold
  <2> QED
    BY <1>1, <2>1, <2>2, BatchGoesToMembers DEF IInv, TypeOK, Members
<1>4. pointer' \in 0 .. MaxPointer
  BY <1>2, AdvancedIsPointer DEF DailyJob, IInv, TypeOK
<1>5. /\ instance' = [i \in Instances |->
            Flagged(i, IF i \in Missing
                       THEN [status         |-> "pending",
                             assignee       |-> given[i],
                             points_awarded |-> 0]
                       ELSE instance[i])]
      /\ UNCHANGED <<people, series, ledger, today>>
  BY <1>2 DEF DailyJob
<1> HIDE DEF given
<1>6. \A i \in Instances :
        /\ instance'[i] \in InstanceRow
        /\ instance'[i].status \in Open => instance'[i].assignee \in Members
        /\ instance'[i].status # "none" => i[1] \in defined
  <2> TAKE i \in Instances
  <2>1. CASE i \in Missing
    <3> DEFINE new == [status |-> "pending", assignee |-> given[i],
                       points_awarded |-> 0]
    <3>1. instance'[i] = Flagged(i, new)
      BY <1>5, <2>1
    <3>2. new \in InstanceRow /\ new.assignee \in Members
      BY <1>3, <2>1, MembersAreUsers DEF IInv, InstanceRow, Statuses, Open
    <3> QED
      BY <1>3, <2>1, <3>1, <3>2 DEF Flagged, InstanceRow, Statuses, Open
  <2>2. CASE i \notin Missing
    <3>1. instance'[i] = Flagged(i, instance[i]) /\ instance[i] \in InstanceRow
      BY <1>5, <2>2 DEF IInv, TypeOK
    <3>2. \/ instance'[i] = instance[i]
          \/ /\ instance[i].status = "pending"
             /\ instance'[i] = [instance[i] EXCEPT !.status = "overdue"]
      BY <3>1 DEF Flagged
    <3> QED
      BY <3>1, <3>2
      DEF IInv, OpenChoresHeldByMembers, InstancesHaveDefinitions,
          InstanceRow, Statuses, Open
  <2> QED
    BY <2>1, <2>2
<1>7. instance' \in [Instances -> InstanceRow]
  BY <1>5, <1>6
<1>8. TypeOK'
  BY <1>4, <1>5, <1>7 DEF IInv, TypeOK, people, series, Members
<1> QED
  BY <1>5, <1>6, <1>8
  DEF IInv, AtLeastOneAdmin, OpenChoresHeldByMembers, Members,
      InstancesHaveDefinitions, NothingOutlivesTheHousehold, people, series

LEMMA TomorrowKeepsIInv ==
    ASSUME IInv, Tomorrow
    PROVE  IInv'
  BY HouseholdAssumption
  DEF Tomorrow, IInv, TypeOK, AtLeastOneAdmin, OpenChoresHeldByMembers, Members,
      InstancesHaveDefinitions, NothingOutlivesTheHousehold, people, series
-----------------------------------------------------------------------------
(* The theorems *)

LEMMA InitIInv == Init => IInv
<1> SUFFICES ASSUME Init PROVE IInv
  OBVIOUS
<1> PICK creator \in Users : rotation = <<creator>> /\ admins = {creator}
  BY DEF Init
<1>1. /\ rotation \in Seq(Users) /\ IsInjective(rotation) /\ rotation # <<>>
      /\ Members = {creator}
  BY DEF IsInjective, Members, ToSet
<1>2. instance \in [Instances -> InstanceRow]
  BY DEF Init, NoInstance, InstanceRow, Statuses
<1>3. TypeOK
  BY <1>1, <1>2, HouseholdAssumption DEF Init, TypeOK
<1> QED
  BY <1>1, <1>3
  DEF Init, IInv, AtLeastOneAdmin, OpenChoresHeldByMembers, NoInstance, Open,
      InstancesHaveDefinitions, NothingOutlivesTheHousehold

LEMMA NextKeepsIInv == IInv /\ [Next]_vars => IInv'
<1> SUFFICES ASSUME IInv, [Next]_vars PROVE IInv'
  OBVIOUS
<1>1. ASSUME NEW caller \in Users, ChoreStep(caller) PROVE IInv'
  BY <1>1, CreateChoreKeepsIInv, UpdateDefinitionKeepsIInv,
     DeleteDefinitionKeepsIInv, CompleteKeepsIInv, DismissKeepsIInv,
     ReassignKeepsIInv
  DEF ChoreStep
<1>2. CASE Departure
  BY <1>2, RemoveMemberKeepsIInv, LeaveHouseholdKeepsIInv, DeleteAccountKeepsIInv
  DEF Departure
<1>3. CASE MemberStep
  <2>1. ASSUME NEW u \in Users, DeleteHousehold(u) PROVE IInv'
    BY <2>1, EverythingGoneIsFine DEF DeleteHousehold
  <2>2. ASSUME NEW u \in Users, DeleteLastAccount(u) PROVE IInv'
    BY <2>2, EverythingGoneIsFine DEF DeleteLastAccount
  <2> QED
    BY <1>3, <2>1, <2>2, UpdateRoleKeepsIInv, AcceptInviteKeepsIInv,
       DeleteFormerAccountKeepsIInv
    DEF MemberStep
<1>4. CASE ClockStep
  BY <1>4, DailyJobKeepsIInv, TomorrowKeepsIInv DEF ClockStep, GenerationQueues
<1>5. CASE UNCHANGED vars
  BY <1>5
  DEF vars, people, series, IInv, TypeOK, AtLeastOneAdmin, Members,
      OpenChoresHeldByMembers, InstancesHaveDefinitions,
      NothingOutlivesTheHousehold
<1> QED
  BY <1>1, <1>2, <1>3, <1>4, <1>5 DEF Next

\* Every handler, departure and run of the daily job keeps IInv.
THEOREM InductiveInvariant == Spec => []IInv
  BY InitIInv, NextKeepsIInv, PTL DEF Spec

(***************************************************************************)
(* Type correctness, for every household: in particular no member appears  *)
(* twice in the rotation and every admin is an active member.              *)
(***************************************************************************)
THEOREM TypeCorrect == Spec => []TypeOK
<1>1. IInv => TypeOK
  BY DEF IInv
<1> QED
  BY <1>1, InductiveInvariant, PTL

(***************************************************************************)
(* FR-019 holds for every household as long as its transactions do not     *)
(* overlap: the guards of the four handlers suffice.                       *)
(***************************************************************************)
THEOREM AlwaysAnAdmin == Spec => []AtLeastOneAdmin
<1>1. IInv => AtLeastOneAdmin
  BY DEF IInv
<1> QED
  BY <1>1, InductiveInvariant, PTL

(***************************************************************************)
(* FR-042 likewise: creation, generation, reassignment and every kind of   *)
(* departure leave each open chore with an active member.                  *)
(***************************************************************************)
THEOREM OpenChoresAlwaysHeldByMembers == Spec => []OpenChoresHeldByMembers
<1>1. IInv => OpenChoresHeldByMembers
  BY DEF IInv
<1> QED
  BY <1>1, InductiveInvariant, PTL
-----------------------------------------------------------------------------
(* The points ledger and deleted series *)

LInv == IInv /\ LedgerMatchesCompletions /\ DeletedSeriesHasNothingPending

\* Nothing was, is or becomes complete at i: whatever happens to it does not
\* concern the ledger.
Uncounted(before, after) == before.status # "complete" /\ after.status # "complete"
-----------------------------------------------------------------------------
(* The ledger *)

\* What the invariant says of one ledger row, column by column.
LEMMA RecordsAgree ==
    ASSUME TypeOK, LedgerMatchesCompletions, NEW e \in ledger
    PROVE  /\ e.instance \in Instances
           /\ instance[e.instance].status = "complete"
           /\ instance[e.instance].assignee = e.user
<1> DEFINE row == instance[e.instance]
<1>1. e.instance \in Instances
  BY DEF TypeOK, LedgerRow
<1>2. row = [status |-> "complete", assignee |-> e.user, points_awarded |-> e.points]
  BY DEF LedgerMatchesCompletions
<1> HIDE DEF row
<1>3. row.status = "complete" /\ row.assignee = e.user
  BY <1>2
<1> QED
  BY <1>1, <1>3 DEF row

LEMMA LedgerUntouched ==
    ASSUME TypeOK, LedgerMatchesCompletions, UNCHANGED ledger,
           \A i \in Instances : \/ instance'[i] = instance[i]
                                \/ Uncounted(instance[i], instance'[i])
    PROVE  LedgerMatchesCompletions'
<1>1. \A e \in ledger : instance'[e.instance] = instance[e.instance]
  BY RecordsAgree DEF Uncounted
<1> QED
  BY <1>1 DEF LedgerMatchesCompletions, Uncounted

\* The user row goes, its assignments and its ledger rows with it.
LEMMA LedgerOfAnErasedAccount ==
    ASSUME TypeOK, LedgerMatchesCompletions, NEW u \in Users,
           NEW left \in [Instances -> InstanceRow],
           \A i \in Instances : \/ left[i] = instance[i]
                                \/ Uncounted(instance[i], left[i]),
           instance' = [i \in Instances |->
                          IF left[i].assignee = u
                          THEN [left[i] EXCEPT !.assignee = NoUser] ELSE left[i]],
           ledger' = {e \in ledger : e.user # u}
    PROVE  LedgerMatchesCompletions'
<1>1. \A i \in Instances :
        /\ instance'[i].status = left[i].status
        /\ left[i].assignee # u => instance'[i] = left[i]
        /\ left[i].assignee = u => instance'[i].assignee = NoUser
  BY DEF InstanceRow
<1>2. ASSUME NEW e \in ledger'
      PROVE  instance'[e.instance] = [status         |-> "complete",
                                      assignee       |-> e.user,
                                      points_awarded |-> e.points]
  <2>1. e \in ledger /\ e.user # u /\ e.instance \in Instances
    BY DEF TypeOK, LedgerRow
  <2>2. instance[e.instance] = [status         |-> "complete",
                                assignee       |-> e.user,
                                points_awarded |-> e.points]
    BY <2>1 DEF LedgerMatchesCompletions
  <2>3. left[e.instance] = instance[e.instance] /\ left[e.instance].assignee # u
    BY <2>1, RecordsAgree DEF Uncounted
  <2> QED
    BY <1>1, <2>1, <2>2, <2>3
<1>3. ASSUME NEW i \in Instances,
             instance'[i].status = "complete", instance'[i].assignee # NoUser
      PROVE  \E e \in ledger' : e.instance = i
  <2>1. left[i].status = "complete" /\ left[i].assignee # u /\ instance'[i] = left[i]
    BY <1>1, <1>3
  <2>2. left[i] = instance[i]
    BY <2>1 DEF Uncounted
  <2>3. PICK e \in ledger : e.instance = i
    BY <1>3, <2>1, <2>2 DEF LedgerMatchesCompletions
  <2>4. e.user = instance[i].assignee
    BY <2>3, RecordsAgree
  <2> QED
    BY <2>1, <2>2, <2>3, <2>4
<1> QED
  BY <1>2, <1>3 DEF LedgerMatchesCompletions

\* Handing chores on changes open ones only.
LEMMA RedistributionSparesClosed ==
    ASSUME IInv, NEW p \in DOMAIN rotation,
           NEW queue \in Queues(OpenChoresAt(p)), NEW i \in Instances
    PROVE  /\ Redistributed(p, queue)[i].status = instance[i].status
           /\ instance[i].status \notin Open =>
                Redistributed(p, queue)[i] = instance[i]
<1>1. OpenChoresAt(p) \subseteq Instances
  BY DEF OpenChoresAt
<1>2. DOMAIN queue = OpenChoresAt(p)
  BY <1>1, QueueOfBatch
<1>3. instance[i] \in InstanceRow
  BY DEF IInv, TypeOK
<1> QED
  BY <1>2, <1>3 DEF Redistributed, OpenChoresAt, InstanceRow

LEMMA CompleteKeepsLedger ==
    ASSUME IInv, LedgerMatchesCompletions,
           NEW caller, NEW i \in Instances, Complete(caller, i)
    PROVE  LedgerMatchesCompletions'
<1> DEFINE user   == instance[i].assignee
           points == EFFORT_POINTS[definition[i[1]].effort_level]
<1>1. instance[i] \in InstanceRow /\ instance[i].status \in Open
  BY DEF IInv, TypeOK, Complete, MayClose
<1>2. \A e \in ledger : e.instance \in Instances /\ e.instance # i
  BY <1>1, RecordsAgree DEF IInv, Open
<1>3. \A j \in Instances \ {i} : instance'[j] = instance[j]
  BY DEF Complete, IInv, TypeOK
<1>4. CASE user # NoUser
  <2> DEFINE row == [instance |-> i, user |-> user, points |-> points]
  <2>1. /\ instance'[i] = [instance[i] EXCEPT !.status = "complete",
                                              !.points_awarded = points]
        /\ ledger' = ledger \cup {row}
    BY <1>4 DEF Complete, IInv, TypeOK
  <2>2. instance'[i] = [status         |-> "complete",
                        assignee       |-> user,
                        points_awarded |-> points]
    BY <1>1, <2>1 DEF InstanceRow
  <2>3. ASSUME NEW e \in ledger'
        PROVE  instance'[e.instance] = [status         |-> "complete",
                                        assignee       |-> e.user,
                                        points_awarded |-> e.points]
    <3>1. CASE e \in ledger
      BY <1>2, <1>3, <3>1 DEF LedgerMatchesCompletions
    <3>2. CASE e = row
      BY <2>2, <3>2
    <3> QED
      BY <2>1, <3>1, <3>2
  <2>4. ASSUME NEW j \in Instances,
               instance'[j].status = "complete", instance'[j].assignee # NoUser
        PROVE  \E e \in ledger' : e.instance = j
    <3>1. CASE j = i
      <4>1. row \in ledger' /\ row.instance = i
        BY <2>1
      <4> QED
        BY <3>1, <4>1
    <3>2. CASE j # i
      BY <1>3, <2>1, <2>4, <3>2 DEF LedgerMatchesCompletions
    <3> QED
      BY <3>1, <3>2
  <2> QED
    BY <2>3, <2>4 DEF LedgerMatchesCompletions
<1>5. CASE user = NoUser
  <2>1. /\ instance'[i] = [instance[i] EXCEPT !.status = "complete",
                                              !.points_awarded = 0]
        /\ ledger' = ledger
    BY <1>5 DEF Complete, IInv, TypeOK
  <2>2. instance'[i].assignee = NoUser
    BY <1>1, <1>5, <2>1 DEF InstanceRow
  <2> QED
    BY <1>2, <1>3, <2>1, <2>2 DEF LedgerMatchesCompletions
<1> QED
  BY <1>4, <1>5
-----------------------------------------------------------------------------
(* Every step keeps the two properties *)

LEMMA CreateChoreKeepsLInv ==
    ASSUME LInv, NEW caller, NEW d \in Definitions, NEW row \in DefinitionRow,
           NEW to, CreateChore(caller, d, row, to)
    PROVE  LedgerMatchesCompletions' /\ DeletedSeriesHasNothingPending'
<1> DEFINE i == <<d, row.first_due_date>>
<1>1. i \in Instances /\ i[1] = d
  BY DEF DefinitionRow, Instances
<1>2. /\ d \notin defined
      /\ defined' = defined \cup {d} /\ active' = active \cup {d}
      /\ UNCHANGED ledger
  BY DEF CreateChore
<1>3. instance[i].status = "none"
  BY <1>1, <1>2 DEF LInv, IInv, InstancesHaveDefinitions
<1>4. /\ instance'[i].status = "pending"
      /\ \A j \in Instances \ {i} : instance'[j] = instance[j]
  BY <1>1 DEF CreateChore, LInv, IInv, TypeOK
<1> HIDE DEF i
<1>5. LedgerMatchesCompletions'
  <2>1. Uncounted(instance[i], instance'[i])
    BY <1>3, <1>4 DEF Uncounted
  <2> QED
    BY <1>2, <1>4, <2>1, LedgerUntouched DEF LInv, IInv
<1>6. DeletedSeriesHasNothingPending'
  BY <1>1, <1>2, <1>4 DEF LInv, DeletedSeriesHasNothingPending
<1> QED
  BY <1>5, <1>6

LEMMA DeleteDefinitionKeepsLInv ==
    ASSUME LInv, NEW caller, NEW d \in Definitions, DeleteDefinition(caller, d)
    PROVE  LedgerMatchesCompletions' /\ DeletedSeriesHasNothingPending'
<1>1. /\ active' = active \ {d} /\ UNCHANGED <<defined, ledger>>
      /\ instance' = [i \in Instances |->
            IF i[1] = d /\ instance[i].status = "pending"
            THEN [instance[i] EXCEPT !.status = "cancelled"]
            ELSE instance[i]]
  BY DEF DeleteDefinition
<1>2. \A i \in Instances :
        \/ instance'[i] = instance[i] /\ ~(i[1] = d /\ instance[i].status = "pending")
        \/ instance[i].status = "pending" /\ instance'[i].status = "cancelled"
  BY <1>1 DEF LInv, IInv, TypeOK, InstanceRow
<1>3. LedgerMatchesCompletions'
  BY <1>1, <1>2, LedgerUntouched DEF LInv, IInv, Uncounted
<1>4. DeletedSeriesHasNothingPending'
  BY <1>1, <1>2 DEF LInv, DeletedSeriesHasNothingPending
<1> QED
  BY <1>3, <1>4

LEMMA CompleteKeepsLInv ==
    ASSUME LInv, NEW caller, NEW i \in Instances, Complete(caller, i)
    PROVE  LedgerMatchesCompletions' /\ DeletedSeriesHasNothingPending'
<1>1. /\ instance'[i].status = "complete" /\ UNCHANGED series
      /\ \A j \in Instances \ {i} : instance'[j] = instance[j]
  BY DEF Complete, LInv, IInv, TypeOK, InstanceRow
<1> QED
  BY <1>1, CompleteKeepsLedger
  DEF LInv, DeletedSeriesHasNothingPending, series

\* Dismissing and reassigning concern one open instance.
LEMMA DismissOrReassignKeepsLInv ==
    ASSUME LInv, NEW caller, NEW i \in Instances,
           \/ Dismiss(caller, i)
           \/ \E to \in Users \cup {NoUser} : Reassign(caller, i, to)
    PROVE  LedgerMatchesCompletions' /\ DeletedSeriesHasNothingPending'
<1>1. /\ instance[i].status \in Open
      /\ instance'[i].status \in {instance[i].status, "dismissed"}
      /\ \A j \in Instances \ {i} : instance'[j] = instance[j]
      /\ UNCHANGED <<series, ledger>>
  BY DEF Dismiss, MayClose, Reassign, LInv, IInv, TypeOK, InstanceRow, series
<1>2. Uncounted(instance[i], instance'[i])
  BY <1>1 DEF Uncounted, Open
<1>3. LedgerMatchesCompletions'
  BY <1>1, <1>2, LedgerUntouched DEF LInv, IInv
<1> QED
  BY <1>1, <1>3 DEF LInv, DeletedSeriesHasNothingPending, series

LEMMA DepartureKeepsLInv ==
    ASSUME LInv, Departure
    PROVE  LedgerMatchesCompletions' /\ DeletedSeriesHasNothingPending'
<1> PICK p \in DOMAIN rotation : \E queue \in Queues(OpenChoresAt(p)) :
         \/ \E caller \in Users : RemoveMember(caller, p, queue)
         \/ LeaveHousehold(p, queue)
         \/ DeleteAccount(p, queue)
  BY DEF Departure
<1> PICK queue \in Queues(OpenChoresAt(p)) :
         \/ \E caller \in Users : RemoveMember(caller, p, queue)
         \/ LeaveHousehold(p, queue)
         \/ DeleteAccount(p, queue)
  OBVIOUS
<1> DEFINE left == Redistributed(p, queue)
           u    == rotation[p]
<1>1. \A i \in Instances :
        /\ left[i].status = instance[i].status
        /\ left[i] = instance[i] \/ Uncounted(instance[i], left[i])
  <2> TAKE i \in Instances
  <2>1. /\ left[i].status = instance[i].status
        /\ instance[i].status \notin Open => left[i] = instance[i]
    BY RedistributionSparesClosed DEF LInv
  <2> HIDE DEF left
  <2> QED
    BY <2>1 DEF Uncounted, Open
<1>2. UNCHANGED series
  BY DEF RemoveMember, LeaveHousehold, DeleteAccount, Depart, series
<1>3. CASE instance' = left /\ UNCHANGED ledger
  BY <1>1, <1>2, <1>3, LedgerUntouched
  DEF LInv, IInv, DeletedSeriesHasNothingPending, series
<1>4. CASE DeleteAccount(p, queue)
  <2>1. /\ instance' = [i \in Instances |->
                          IF left[i].assignee = u
                          THEN [left[i] EXCEPT !.assignee = NoUser] ELSE left[i]]
        /\ ledger' = {e \in ledger : e.user # u}
    BY <1>4 DEF DeleteAccount
  <2>2. u \in Users
    BY DEF LInv, IInv, TypeOK
  <2>3. left \in [Instances -> InstanceRow]
    <3>1. admins \ {u} # {}
      BY <1>4, AnAdminStays DEF LInv, DeleteAccount
    <3>2. RemoveAt(rotation, p) # <<>>
      BY <1>4, <3>1, DepartKeepsPeople DEF LInv, DeleteAccount
    <3> QED
      BY <3>2, RedistributionFindsMembers DEF LInv
  <2> HIDE DEF left, u
  <2>4. LedgerMatchesCompletions'
    BY <1>1, <2>1, <2>2, <2>3, LedgerOfAnErasedAccount DEF LInv, IInv
  <2>5. \A i \in Instances : instance'[i].status = instance[i].status
    BY <1>1, <2>1, <2>2, <2>3, ErasingAnAccount
  <2> QED
    BY <1>2, <2>4, <2>5 DEF LInv, DeletedSeriesHasNothingPending, series
<1> QED
  BY <1>3, <1>4 DEF RemoveMember, LeaveHousehold

LEMMA DeleteFormerAccountKeepsLInv ==
    ASSUME LInv, NEW u \in Users, DeleteFormerAccount(u)
    PROVE  LedgerMatchesCompletions' /\ DeletedSeriesHasNothingPending'
<1>1. /\ instance' = [i \in Instances |->
                        IF instance[i].assignee = u
                        THEN [instance[i] EXCEPT !.assignee = NoUser]
                        ELSE instance[i]]
      /\ ledger' = {e \in ledger : e.user # u}
      /\ UNCHANGED series
  BY DEF DeleteFormerAccount
<1>2. TypeOK /\ instance \in [Instances -> InstanceRow]
  BY DEF LInv, IInv, TypeOK
<1>3. LedgerMatchesCompletions'
  BY <1>1, <1>2, LedgerOfAnErasedAccount DEF LInv
<1>4. \A i \in Instances : instance'[i].status = instance[i].status
  BY <1>1, <1>2, ErasingAnAccount
<1> QED
  BY <1>1, <1>3, <1>4 DEF LInv, DeletedSeriesHasNothingPending, series

LEMMA EverythingGoneKeepsLInv ==
    ASSUME LInv, EverythingGone
    PROVE  LedgerMatchesCompletions' /\ DeletedSeriesHasNothingPending'
  BY DEF EverythingGone, NoInstance, LedgerMatchesCompletions,
         DeletedSeriesHasNothingPending

\* The daily job adds instances of active series and flags pending ones.
LEMMA DailyJobKeepsLInv ==
    ASSUME LInv, NEW queue \in Queues(Missing), DailyJob(queue)
    PROVE  LedgerMatchesCompletions' /\ DeletedSeriesHasNothingPending'
<1> DEFINE given == BulkAssigned(rotation, pointer, queue)
<1>1. \A i \in Missing : /\ i \in Instances /\ i[1] \in active
                         /\ instance[i].status = "none"
  BY DEF Missing
<1>2. DOMAIN queue = Missing
  BY <1>1, QueueOfBatch
<1>3. /\ instance' = [i \in Instances |->
            Flagged(i, IF i \in Missing
                       THEN [status         |-> "pending",
                             assignee       |-> given[i],
                             points_awarded |-> 0]
                       ELSE instance[i])]
      /\ UNCHANGED <<series, ledger>>
  BY <1>2 DEF DailyJob
<1> HIDE DEF given
<1>4. \A i \in Instances :
        \/ instance'[i] = instance[i]
        \/ instance[i].status = "pending" /\ instance'[i].status = "overdue"
        \/ i[1] \in active /\ Uncounted(instance[i], instance'[i])
  <2> TAKE i \in Instances
  <2>1. CASE i \in Missing
    <3> DEFINE new == [status |-> "pending", assignee |-> given[i],
                       points_awarded |-> 0]
    <3>1. instance'[i] = Flagged(i, new)
      BY <1>3, <2>1
    <3>2. instance'[i].status # "complete"
      BY <3>1 DEF Flagged
    <3> QED
      BY <1>1, <2>1, <3>2 DEF Uncounted
  <2>2. CASE i \notin Missing
    <3>1. instance'[i] = Flagged(i, instance[i]) /\ instance[i] \in InstanceRow
      BY <1>3, <2>2 DEF LInv, IInv, TypeOK
    <3> QED
      BY <3>1 DEF Flagged, InstanceRow
  <2> QED
    BY <2>1, <2>2
<1>5. LedgerMatchesCompletions'
  BY <1>3, <1>4, LedgerUntouched DEF LInv, IInv, Uncounted
<1>6. DeletedSeriesHasNothingPending'
  BY <1>3, <1>4 DEF LInv, DeletedSeriesHasNothingPending, series
<1> QED
  BY <1>5, <1>6

LEMMA NextKeepsLInv == LInv /\ [Next]_vars => LInv'
<1> SUFFICES ASSUME LInv, [Next]_vars PROVE LInv'
  OBVIOUS
<1> DEFINE Kept == LedgerMatchesCompletions' /\ DeletedSeriesHasNothingPending'
<1> SUFFICES Kept
  BY NextKeepsIInv DEF LInv
<1>1. ASSUME UNCHANGED <<series, instance, ledger>> PROVE Kept
  BY <1>1 DEF LInv, LedgerMatchesCompletions, DeletedSeriesHasNothingPending, series
<1>2. ASSUME NEW caller \in Users, ChoreStep(caller) PROVE Kept
  <2>1. ASSUME NEW d \in Definitions, NEW effort, NEW rule,
               UpdateDefinition(caller, d, effort, rule)
        PROVE  Kept
    BY <2>1
    DEF UpdateDefinition, LInv, LedgerMatchesCompletions,
        DeletedSeriesHasNothingPending
  <2> HIDE DEF Kept
  <2> QED
    BY <1>2, <2>1, CreateChoreKeepsLInv, DeleteDefinitionKeepsLInv,
       CompleteKeepsLInv, DismissOrReassignKeepsLInv
    DEF ChoreStep, Kept
<1>3. CASE Departure
  BY <1>3, DepartureKeepsLInv
<1>4. CASE MemberStep
  <2>1. ASSUME NEW caller, NEW u, NEW role, UpdateRole(caller, u, role) PROVE Kept
    BY <1>1, <2>1 DEF UpdateRole
  <2>2. ASSUME NEW u, AcceptInvite(u) PROVE Kept
    BY <1>1, <2>2 DEF AcceptInvite
  <2>3. ASSUME NEW u, DeleteHousehold(u) \/ DeleteLastAccount(u) PROVE Kept
    BY <2>3, EverythingGoneKeepsLInv DEF DeleteHousehold, DeleteLastAccount
  <2> HIDE DEF Kept
  <2> QED
    BY <1>4, <2>1, <2>2, <2>3, DeleteFormerAccountKeepsLInv DEF MemberStep, Kept
<1>5. CASE ClockStep
  <2>1. CASE Tomorrow
    BY <1>1, <2>1 DEF Tomorrow
  <2> QED
    BY <1>5, <2>1, DailyJobKeepsLInv DEF ClockStep, GenerationQueues
<1>6. CASE UNCHANGED vars
  BY <1>1, <1>6 DEF vars, series
<1> HIDE DEF Kept
<1> QED
  BY <1>2, <1>3, <1>4, <1>5, <1>6 DEF Next
-----------------------------------------------------------------------------
(* The daily job, twice on a day *)

\* What has been generated is not missing, and what has been flagged is not
\* pending, as long as the date is the same.
LEMMA DailyJobLeavesNothing ==
    ASSUME LInv, NEW queue \in Queues(Missing), DailyJob(queue)
    PROVE  /\ Missing' = {}
           /\ \A i \in Instances : Flagged(i, instance[i])' = instance'[i]
<1> DEFINE given == BulkAssigned(rotation, pointer, queue)
           row(i) == IF i \in Missing
                     THEN [status         |-> "pending",
                           assignee       |-> given[i],
                           points_awarded |-> 0]
                     ELSE instance[i]
<1>1. Missing \subseteq Instances
  BY DEF Missing
<1>2. DOMAIN queue = Missing
  BY <1>1, QueueOfBatch
<1>3. /\ \A i \in Instances : instance'[i] = Flagged(i, row(i))
      /\ UNCHANGED <<active, definition, today>>
  BY <1>2 DEF DailyJob, series
<1>4. \A i \in Instances : instance[i] \in InstanceRow
  BY DEF LInv, IInv, TypeOK
<1>5. \A i \in Instances :
        instance'[i].status = "none" => i \notin Missing /\ instance[i].status = "none"
  <2> SUFFICES ASSUME NEW i \in Instances, instance'[i].status = "none"
               PROVE  i \notin Missing /\ instance[i].status = "none"
    OBVIOUS
  <2>1. instance'[i] = Flagged(i, row(i))
    BY <1>3
  <2>2. i \notin Missing
    BY <2>1 DEF Flagged
  <2>3. instance'[i] = Flagged(i, instance[i])
    BY <2>1, <2>2
  <2> QED
    BY <1>4, <2>2, <2>3 DEF Flagged, InstanceRow
<1>6. Missing' = {}
  BY <1>3, <1>5 DEF Missing, DueDates
<1>7. ASSUME NEW i \in Instances
      PROVE  Flagged(i, instance[i])' = instance'[i]
  <2>1. instance'[i] = Flagged(i, row(i))
    BY <1>3
  <2>2. row(i).status = "pending" /\ i[2] < today => instance'[i].status = "overdue"
    BY <1>4, <2>1 DEF Flagged, InstanceRow
  <2> HIDE DEF row
  <2>3. ~ (instance'[i].status = "pending" /\ i[2] < today)
    BY <2>1, <2>2 DEF Flagged
  <2> QED
    BY <1>3, <2>3 DEF Flagged
<1> QED
  BY <1>6, <1>7

-----------------------------------------------------------------------------
(* One instance implements ChoreLifecycle *)

\* The ledger credits whoever holds a completed chore, and nobody else, so
\* what happens to an instance can be read off its row.
HolderIsCredited ==
    \A i \in Instances :
        Credited(i) = IF instance[i].status = "complete"
                      THEN {instance[i].assignee} \ {NoUser} ELSE {}

LEMMA CreditIsHeld == LInv => HolderIsCredited
<1> SUFFICES ASSUME LInv, NEW i \in Instances
             PROVE  Credited(i) = IF instance[i].status = "complete"
                                  THEN {instance[i].assignee} \ {NoUser} ELSE {}
  BY DEF HolderIsCredited
<1>1. TypeOK /\ LedgerMatchesCompletions
  BY DEF LInv, IInv
<1>2. \A e \in ledger : e.user # NoUser
  BY <1>1, HouseholdAssumption DEF TypeOK, LedgerRow
<1>3. \A e \in ledger : e.instance = i => /\ instance[i].status = "complete"
                                          /\ instance[i].assignee = e.user
  BY <1>1, RecordsAgree
<1>4. instance[i].status = "complete" /\ instance[i].assignee # NoUser
        => \E e \in ledger : e.instance = i
  BY <1>1 DEF LedgerMatchesCompletions
<1>5. CASE instance[i].status = "complete" /\ instance[i].assignee # NoUser
  <2>1. PICK e \in ledger : e.instance = i
    BY <1>4, <1>5
  <2>2. e.user = instance[i].assignee
    BY <1>3, <2>1
  <2> QED
    BY <1>3, <1>5, <2>1, <2>2 DEF Credited
<1>6. CASE ~ (instance[i].status = "complete" /\ instance[i].assignee # NoUser)
  BY <1>2, <1>3, <1>6 DEF Credited
<1> QED
  BY <1>5, <1>6

LEMMA CreditStaysHeld == LInv' => HolderIsCredited'
  BY CreditIsHeld, PTL

\* The moves of one row.
Moves(before, after) ==
    LET kept == after.assignee = before.assignee
    IN  \/ after.status = before.status /\ kept
        \/ before.status = "none" /\ after.status \in Open
        \/ before.status \in Open /\ after.status = before.status
        \/ before.status \in Open /\ after.status \in {"complete", "dismissed"} /\ kept
        \/ before.status = "pending" /\ after.status \in {"overdue", "cancelled"} /\ kept
        \/ before.status \in Terminal /\ after.status = before.status
             /\ after.assignee = NoUser
        \/ after.status = "none" /\ after.assignee = NoUser

LEMMA MovesAreLifecycleSteps ==
    ASSUME LInv, LInv', NEW i \in Instances, Moves(instance[i], instance'[i])
    PROVE  [Lifecycle(i)!Next]_(Lifecycle(i)!vars)
<1> USE DEF Lifecycle!Open, Lifecycle!Terminal, Lifecycle!Holders
<1> DEFINE before == instance[i]
           after  == instance'[i]
           kept   == after.assignee = before.assignee
<1>1. /\ Credited(i)  = IF before.status = "complete" THEN {before.assignee} \ {NoUser} ELSE {}
      /\ Credited(i)' = IF after.status = "complete" THEN {after.assignee} \ {NoUser} ELSE {}
  BY CreditIsHeld, CreditStaysHeld DEF HolderIsCredited
<1>2. after.assignee \in Users \cup {NoUser}
  BY DEF LInv, IInv, TypeOK, InstanceRow
<1>3. CASE after.status = before.status /\ kept
  BY <1>1, <1>3 DEF Lifecycle!vars
<1>4. CASE before.status = "none" /\ after.status \in Open
  BY <1>1, <1>2, <1>4 DEF Lifecycle!Next, Lifecycle!Generate, Open
<1>5. CASE before.status \in Open /\ after.status = before.status
  BY <1>1, <1>2, <1>5 DEF Lifecycle!Next, Lifecycle!HandOver, Open
<1>6. CASE before.status \in Open /\ after.status \in {"complete", "dismissed"} /\ kept
  BY <1>1, <1>6 DEF Lifecycle!Next, Lifecycle!Complete, Lifecycle!Dismiss, Open
<1>7. CASE before.status = "pending" /\ after.status \in {"overdue", "cancelled"} /\ kept
  BY <1>1, <1>7 DEF Lifecycle!Next, Lifecycle!FallOverdue, Lifecycle!Cancel
<1>8. CASE /\ before.status \in Terminal /\ after.status = before.status
           /\ after.assignee = NoUser
  BY <1>1, <1>8 DEF Lifecycle!Next, Lifecycle!Forget, Terminal
<1>9. CASE after.status = "none" /\ after.assignee = NoUser
  BY <1>1, <1>9 DEF Lifecycle!Next, Lifecycle!Erase
<1> QED
  BY <1>3, <1>4, <1>5, <1>6, <1>7, <1>8, <1>9 DEF Moves

\* A departure hands open chores to others; an account that goes with it
\* leaves closed ones without assignee.
LEMMA DepartureMoves ==
    ASSUME LInv, Departure, NEW i \in Instances
    PROVE  Moves(instance[i], instance'[i])
<1> PICK p \in DOMAIN rotation : \E queue \in Queues(OpenChoresAt(p)) :
         \/ \E caller \in Users : RemoveMember(caller, p, queue)
         \/ LeaveHousehold(p, queue)
         \/ DeleteAccount(p, queue)
  BY DEF Departure
<1> PICK queue \in Queues(OpenChoresAt(p)) :
         \/ \E caller \in Users : RemoveMember(caller, p, queue)
         \/ LeaveHousehold(p, queue)
         \/ DeleteAccount(p, queue)
  OBVIOUS
<1> DEFINE left == Redistributed(p, queue)
           u    == rotation[p]
<1>1. /\ left[i].status = instance[i].status
      /\ instance[i].status \notin Open => left[i] = instance[i]
  BY RedistributionSparesClosed DEF LInv
<1>2. instance[i].status \in Statuses
  BY DEF LInv, IInv, TypeOK, InstanceRow
<1>3. CASE instance' = left
  <2> HIDE DEF left
  <2> QED
    BY <1>1, <1>3 DEF Moves
<1>4. CASE DeleteAccount(p, queue)
  <2>1. RemoveAt(rotation, p) # <<>>
    <3>1. admins \ {u} # {}
      BY <1>4, AnAdminStays DEF LInv, DeleteAccount
    <3> QED
      BY <1>4, <3>1, DepartKeepsPeople DEF LInv, DeleteAccount
  <2>2. left \in [Instances -> InstanceRow]
    BY <2>1, RedistributionFindsMembers DEF LInv
  <2>3. u \in Users
    BY DEF LInv, IInv, TypeOK
  <2>4. instance' = [j \in Instances |->
                       IF left[j].assignee = u
                       THEN [left[j] EXCEPT !.assignee = NoUser] ELSE left[j]]
    BY <1>4 DEF DeleteAccount
  <2> HIDE DEF left, u
  <2>5. /\ instance'[i].status = left[i].status
        /\ left[i].assignee # u => instance'[i] = left[i]
        /\ left[i].assignee = u => instance'[i].assignee = NoUser
    BY <2>2, <2>3, <2>4 DEF InstanceRow
  <2> QED
    BY <1>1, <1>2, <2>5 DEF Moves, Statuses
<1> QED
  BY <1>3, <1>4 DEF RemoveMember, LeaveHousehold

LEMMA ChoreStepMoves ==
    ASSUME LInv, NEW caller \in Users, ChoreStep(caller), NEW i \in Instances
    PROVE  Moves(instance[i], instance'[i])
<1> USE DEF Moves, Open
<1>1. instance \in [Instances -> InstanceRow]
  BY DEF LInv, IInv, TypeOK
<1>2. CASE instance'[i] = instance[i]
  BY <1>2
<1>3. ASSUME NEW d \in Definitions, NEW row \in DefinitionRow, NEW to,
             CreateChore(caller, d, row, to)
      PROVE  Moves(instance[i], instance'[i])
  <2>1. CASE i = <<d, row.first_due_date>>
    <3>1. i[1] = d /\ instance'[i].status = "pending"
      BY <1>1, <1>3, <2>1 DEF CreateChore
    <3>2. instance[i].status = "none"
      BY <1>3, <3>1 DEF CreateChore, LInv, IInv, InstancesHaveDefinitions
    <3> QED
      BY <3>1, <3>2
  <2>2. CASE i # <<d, row.first_due_date>>
    BY <1>1, <1>2, <1>3, <2>2 DEF CreateChore
  <2> QED
    BY <2>1, <2>2
<1>4. ASSUME NEW d, DeleteDefinition(caller, d)
      PROVE  Moves(instance[i], instance'[i])
  <2>1. instance'[i] = IF i[1] = d /\ instance[i].status = "pending"
                       THEN [instance[i] EXCEPT !.status = "cancelled"]
                       ELSE instance[i]
    BY <1>4 DEF DeleteDefinition
  <2> QED
    BY <1>1, <2>1 DEF InstanceRow
<1>5. ASSUME NEW j \in Instances, Complete(caller, j) \/ Dismiss(caller, j)
      PROVE  Moves(instance[i], instance'[i])
  <2>1. /\ instance[j].status \in Open
        /\ instance'[j].status \in {"complete", "dismissed"}
        /\ instance'[j].assignee = instance[j].assignee
        /\ i # j => instance'[i] = instance[i]
    BY <1>1, <1>5 DEF Complete, Dismiss, MayClose, InstanceRow
  <2> QED
    BY <2>1
<1>6. ASSUME NEW j \in Instances, NEW to, Reassign(caller, j, to)
      PROVE  Moves(instance[i], instance'[i])
  <2>1. /\ instance[j].status \in Open
        /\ instance'[j].status = instance[j].status
        /\ i # j => instance'[i] = instance[i]
    BY <1>1, <1>6 DEF Reassign, InstanceRow
  <2> QED
    BY <2>1
<1>7. ASSUME NEW d, NEW effort, NEW rule, UpdateDefinition(caller, d, effort, rule)
      PROVE  Moves(instance[i], instance'[i])
  BY <1>2, <1>7 DEF UpdateDefinition
<1> QED
  BY <1>3, <1>4, <1>5, <1>6, <1>7 DEF ChoreStep

LEMMA MemberStepMoves ==
    ASSUME LInv, MemberStep, NEW i \in Instances
    PROVE  Moves(instance[i], instance'[i])
<1>1. instance[i] \in InstanceRow
  BY DEF LInv, IInv, TypeOK
<1>2. CASE instance' = instance
  BY <1>2 DEF Moves
<1>3. CASE EverythingGone
  BY <1>3 DEF EverythingGone, NoInstance, Moves
<1>4. ASSUME NEW u \in Users, DeleteFormerAccount(u)
      PROVE  Moves(instance[i], instance'[i])
  <2>1. instance'[i] = IF instance[i].assignee = u
                       THEN [instance[i] EXCEPT !.assignee = NoUser] ELSE instance[i]
    BY <1>4 DEF DeleteFormerAccount
  <2>2. /\ instance'[i].status = instance[i].status
        /\ instance'[i].assignee \in {instance[i].assignee, NoUser}
    BY <1>1, <2>1 DEF InstanceRow
  <2> QED
    BY <1>1, <2>2 DEF Moves, InstanceRow, Statuses
<1> QED
  BY <1>2, <1>3, <1>4
  DEF MemberStep, UpdateRole, AcceptInvite, DeleteHousehold, DeleteLastAccount

LEMMA DailyJobMoves ==
    ASSUME LInv, NEW queue \in Queues(Missing), DailyJob(queue), NEW i \in Instances
    PROVE  Moves(instance[i], instance'[i])
<1> DEFINE new == [status         |-> "pending",
                   assignee       |-> BulkAssigned(rotation, pointer, queue)[i],
                   points_awarded |-> 0]
<1>1. Missing \subseteq Instances /\ (i \in Missing => instance[i].status = "none")
  BY DEF Missing
<1>2. DOMAIN queue = Missing
  BY <1>1, QueueOfBatch
<1>3. instance'[i] = Flagged(i, IF i \in Missing THEN new ELSE instance[i])
  BY <1>2 DEF DailyJob
<1>4. instance[i] \in InstanceRow
  BY DEF LInv, IInv, TypeOK
<1>5. CASE i \in Missing
  <2>1. instance'[i].status \in Open
    BY <1>3, <1>5 DEF Flagged, Open
  <2> QED
    BY <1>1, <1>5, <2>1 DEF Moves
<1>6. CASE i \notin Missing
  BY <1>3, <1>4, <1>6 DEF Flagged, InstanceRow, Moves
<1> QED
  BY <1>5, <1>6

LEMMA NextMoves ==
    ASSUME LInv, Next, NEW i \in Instances
    PROVE  Moves(instance[i], instance'[i])
<1>1. CASE ClockStep
  <2>1. CASE Tomorrow
    BY <2>1 DEF Tomorrow, Moves
  <2> QED
    BY <1>1, <2>1, DailyJobMoves DEF ClockStep, GenerationQueues
<1> QED
  BY <1>1, ChoreStepMoves, DepartureMoves, MemberStepMoves DEF Next
-----------------------------------------------------------------------------
(* The theorems *)

LEMMA InitLInv == Init => LInv
  BY InitIInv
  DEF Init, LInv, LedgerMatchesCompletions, DeletedSeriesHasNothingPending, NoInstance

\* Likewise with what the ledger and the deleted series need.
THEOREM LedgerInvariant == Spec => []LInv
  BY InitLInv, NextKeepsLInv, PTL DEF Spec

(***************************************************************************)
(* Whatever is completed, dismissed, handed over, regenerated or deleted,  *)
(* the ledger and the completed instances tell the same story, and no      *)
(* instance is ever credited twice.                                        *)
(***************************************************************************)
THEOREM LedgerAlwaysMatches == Spec => []LedgerMatchesCompletions
<1>1. LInv => LedgerMatchesCompletions
  BY DEF LInv
<1> QED
  BY <1>1, LedgerInvariant, PTL

(***************************************************************************)
(* FR-032 for every household: neither the daily job nor a reassignment    *)
(* nor an edit brings a deleted series back.                               *)
(***************************************************************************)
THEOREM DeletedSeriesStayQuiet == Spec => []DeletedSeriesHasNothingPending
<1>1. LInv => DeletedSeriesHasNothingPending
  BY DEF LInv
<1> QED
  BY <1>1, LedgerInvariant, PTL

(***************************************************************************)
(* FR-048 for every household: no step but the deletion of the account or  *)
(* of the household takes a ledger row away.                               *)
(***************************************************************************)
THEOREM PointsAreAlwaysKept == Spec => PointsAreKept
<1> DEFINE Kept == \A e \in ledger : \/ e \in ledger'
                                     \/ e.user \notin registered'
                                     \/ rotation' = <<>>
<1>1. [Next]_vars => [Kept]_vars
  <2> SUFFICES ASSUME Next PROVE Kept
    OBVIOUS
  <2>1. ASSUME NEW caller \in Users, ChoreStep(caller) PROVE Kept
    BY <2>1
    DEF ChoreStep, CreateChore, UpdateDefinition, DeleteDefinition, Complete,
        Dismiss, Reassign
  <2>2. CASE Departure
    BY <2>2 DEF Departure, RemoveMember, LeaveHousehold, DeleteAccount
  <2>3. CASE MemberStep
    BY <2>3
    DEF MemberStep, UpdateRole, AcceptInvite, DeleteFormerAccount,
        DeleteHousehold, DeleteLastAccount, EverythingGone
  <2>4. CASE ClockStep
    BY <2>4 DEF ClockStep, DailyJob, Tomorrow
  <2> QED
    BY <2>1, <2>2, <2>3, <2>4 DEF Next
<1> QED
  BY <1>1, PTL DEF Spec, PointsAreKept

(***************************************************************************)
(* NFR-008 for every household, whatever is missing or late: a second run  *)
(* of the daily job on the same day finds nothing to do.                   *)
(***************************************************************************)
THEOREM DailyJobAlwaysIdempotent == Spec => DailyJobIsIdempotent
<1> DEFINE Done == ClockStep /\ today' = today =>
                     /\ Missing' = {}
                     /\ \A i \in Instances : Flagged(i, instance[i])' = instance'[i]
<1>1. LInv => [Done]_vars
  <2> SUFFICES ASSUME LInv, ClockStep, today' = today
               PROVE  /\ Missing' = {}
                      /\ \A i \in Instances : Flagged(i, instance[i])' = instance'[i]
    OBVIOUS
  <2>1. ~ Tomorrow
    BY DEF Tomorrow, LInv, IInv, TypeOK
  <2> QED
    BY <2>1, DailyJobLeavesNothing DEF ClockStep, GenerationQueues
<1> QED
  BY <1>1, LedgerInvariant, PTL DEF Spec, DailyJobIsIdempotent

(***************************************************************************)
(* The household implements ChoreLifecycle, once for every instance: each  *)
(* of its steps is, for each instance, a step of the life cycle or none.   *)
(***************************************************************************)
THEOREM LifecycleAlwaysKept == Spec => EveryChoreKeepsItsLifecycle
<1> DEFINE Kept == \A i \in Instances : [Lifecycle(i)!Next]_(Lifecycle(i)!vars)
<1>1. Init => \A i \in Instances : Lifecycle(i)!Init
  BY DEF Init, Lifecycle!Init, NoInstance, Credited
<1>2. LInv /\ [Next]_vars => [Kept]_vars
  <2> SUFFICES ASSUME LInv, Next, NEW i \in Instances
               PROVE  [Lifecycle(i)!Next]_(Lifecycle(i)!vars)
    OBVIOUS
  <2> QED
    BY NextKeepsLInv, NextMoves, MovesAreLifecycleSteps
<1> QED
  BY <1>1, <1>2, LedgerInvariant, PTL DEF Spec, EveryChoreKeepsItsLifecycle
=============================================================================
