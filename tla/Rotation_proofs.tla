--------------------------- MODULE Rotation_proofs ---------------------------
(***************************************************************************)
(* Proofs about Rotation, for every number of members and size of batch.   *)
(***************************************************************************)
EXTENDS Rotation, FiniteSetTheorems, SequenceTheorems, WellFoundedInduction, TLAPS

(* Facts about the rotation arithmetic, for every rotation and pointer. *)

\* A pointer, reduced modulo the length, is a position of the rotation.
LEMMA PointerInRange ==
    ASSUME NEW n \in Nat \ {0}, NEW p \in Nat
    PROVE  p % n \in 0 .. n - 1
  OBVIOUS

\* Whoever has the turn is in the rotation.
LEMMA TurnIsMember ==
    ASSUME NEW S, NEW s \in Seq(S), s # <<>>, NEW p \in Nat
    PROVE  Turn(s, p) \in ToSet(s)
<1>1. Len(s) \in Nat \ {0}
  OBVIOUS
<1>2. (p % Len(s)) + 1 \in DOMAIN s
  BY <1>1, PointerInRange
<1> QED
  BY <1>2 DEF Turn, ToSet

\* Auto-assignment never picks anybody but an active member.
LEMMA AutoAssignedIsMember ==
    ASSUME NEW S, NEW s \in Seq(S), s # <<>>, NEW p \in Nat
    PROVE  AutoAssigned(s, p) \in ToSet(s)
  BY TurnIsMember DEF AutoAssigned

\* What is left of a rotation when the member at position k departs.
LEMMA RemoveAtPositions ==
    ASSUME NEW S, NEW s \in Seq(S), NEW k \in 1 .. Len(s)
    PROVE  /\ RemoveAt(s, k) \in Seq(S)
           /\ Len(RemoveAt(s, k)) = Len(s) - 1
           /\ \A i \in 1 .. Len(s) - 1 :
                RemoveAt(s, k)[i] = IF i < k THEN s[i] ELSE s[i + 1]
<1> DEFINE a == SubSeq(s, 1, k - 1)
           b == SubSeq(s, k + 1, Len(s))
<1>1. /\ a \in Seq(S) /\ Len(a) = k - 1
      /\ \A i \in 1 .. k - 1 : a[i] = s[i]
  OBVIOUS
<1>2. /\ b \in Seq(S) /\ Len(b) = Len(s) - k
      /\ \A i \in 1 .. Len(s) - k : b[i] = s[k + i]
  OBVIOUS
<1> HIDE DEF a, b
<1>3. /\ a \o b \in Seq(S) /\ Len(a \o b) = Len(s) - 1
      /\ \A i \in 1 .. Len(s) - 1 :
           (a \o b)[i] = IF i < k THEN a[i] ELSE b[i - (k - 1)]
  <2>1. a \o b \in Seq(S) /\ Len(a \o b) = Len(a) + Len(b)
    BY <1>1, <1>2, ConcatProperties
  <2>2. \A i \in 1 .. Len(a) + Len(b) :
          (a \o b)[i] = IF i <= Len(a) THEN a[i] ELSE b[i - Len(a)]
    BY <1>1, <1>2, ConcatProperties
  <2> QED
    BY <1>1, <1>2, <2>1, <2>2
<1>4. \A i \in 1 .. Len(s) - 1 : (a \o b)[i] = IF i < k THEN s[i] ELSE s[i + 1]
  BY <1>1, <1>2, <1>3
<1>5. RemoveAt(s, k) = a \o b
  BY DEF RemoveAt, a, b
<1> QED
  BY <1>3, <1>4, <1>5

LEMMA RemoveAtIsInjective ==
    ASSUME NEW S, NEW s \in Seq(S), IsInjective(s), NEW k \in 1 .. Len(s)
    PROVE  IsInjective(RemoveAt(s, k))
<1> DEFINE t == RemoveAt(s, k)
<1>1. /\ t \in Seq(S)
      /\ Len(t) = Len(s) - 1
      /\ \A i \in 1 .. Len(s) - 1 : t[i] = IF i < k THEN s[i] ELSE s[i + 1]
  BY RemoveAtPositions
<1> HIDE DEF t
<1>2. IsInjective(t)
  BY <1>1 DEF IsInjective
<1> QED
  BY <1>2 DEF t
-----------------------------------------------------------------------------
(* The pointer, one lap later *)

LEMMA Division ==
    ASSUME NEW n \in Nat \ {0}, NEW p \in Nat
    PROVE  p \div n \in Nat /\ p = n * (p \div n) + (p % n)
  BY Z3

LEMMA OneLapMore ==
    ASSUME NEW n \in Nat \ {0}, NEW p \in Nat
    PROVE  (n + p) \div n = (p \div n) + 1
  BY Z3

LEMMA FirstLap ==
    ASSUME NEW n \in Nat \ {0}, NEW p \in 0 .. n - 1
    PROVE  p % n = p
  OBVIOUS

\* A whole lap more or less is the same turn.
LEMMA SameTurnNextLap ==
    ASSUME NEW n \in Nat \ {0}, NEW p \in Nat
    PROVE  (n + p) % n = p % n
<1> DEFINE q == p \div n
           r == p % n
           t == (n + p) % n
<1>1. q \in Nat /\ r \in Nat /\ t \in Nat /\ p = n * q + r
  BY Division, PointerInRange, n + p \in Nat
<1>2. n + p = n * (q + 1) + t
  BY Division, OneLapMore, n + p \in Nat
<1> HIDE DEF q, r, t
<1>3. n * (q + 1) = n * q + n /\ n * q \in Nat
  BY <1>1
<1>4. t = r
  BY <1>1, <1>2, <1>3
<1> QED
  BY <1>4 DEF t, r

\* Who is next when the one at position k departs: whoever was next, or the
\* one after if it is the one who goes.
Successor(s, k, p) ==
    IF Turn(s, p) = s[k] THEN s[(k % Len(s)) + 1] ELSE Turn(s, p)

\* The n turns from p, among the members of rest, and the one that step 5
\* leaves, are the successor's and those of the members after them.
FollowOn(rest, s, k, p, n) ==
    \E j \in DOMAIN rest :
      /\ rest[j] = Successor(s, k, p)
      /\ \A i \in 0 .. n - 1 : Turn(rest, p + i) = Turn(rest, j - 1 + i)
      /\ Turn(rest, AdjustedPointer(k - 1, Len(rest), p, Advanced(rest, p, n)))
           = Turn(rest, j - 1 + n)

(***************************************************************************)
(* A departure in the first lap (p < Len(s)) that hands on n chores from   *)
(* pointer p, none if the departed member stood before the pointer, passes *)
(* over nobody.                                                            *)
(***************************************************************************)
LEMMA FirstLapTurns ==
    ASSUME NEW S, NEW s \in Seq(S), IsInjective(s), Len(s) > 1,
           NEW k \in 1 .. Len(s), NEW p \in 0 .. Len(s) - 1,
           NEW n \in Nat, n = 0 \/ k > p
    PROVE  FollowOn(RemoveAt(s, k), s, k, p, n)
<1> DEFINE rest     == RemoveAt(s, k)
           adjusted == AdjustedPointer(k - 1, Len(rest), p, Advanced(rest, p, n))
<1> SUFFICES \E j \in DOMAIN rest :
               /\ rest[j] = Successor(s, k, p)
               /\ \A i \in 0 .. n - 1 : Turn(rest, p + i) = Turn(rest, j - 1 + i)
               /\ Turn(rest, adjusted) = Turn(rest, j - 1 + n)
  BY DEF FollowOn
<1> HIDE DEF rest
<1>1. /\ Len(s) \in Nat /\ rest \in Seq(S) /\ Len(rest) = Len(s) - 1
      /\ \A i \in 1 .. Len(s) - 1 : rest[i] = IF i < k THEN s[i] ELSE s[i + 1]
  <2>1. Len(s) \in Nat
    OBVIOUS
  <2>2. /\ RemoveAt(s, k) \in Seq(S)
        /\ Len(RemoveAt(s, k)) = Len(s) - 1
        /\ \A i \in 1 .. Len(s) - 1 :
             RemoveAt(s, k)[i] = IF i < k THEN s[i] ELSE s[i + 1]
    BY RemoveAtPositions, Zenon
  <2> QED
    BY <2>1, <2>2, Zenon DEF rest
<1>2. rest # <<>> /\ DOMAIN rest = 1 .. Len(s) - 1
  BY <1>1
<1>3. /\ p % Len(s) = p
      /\ p % (Len(rest) + 1) = p
  BY <1>1, FirstLap
<1>4. /\ Turn(s, p) = s[p + 1]
      /\ adjusted = IF k - 1 < p THEN p + n - 1 ELSE p + n
  <2>1. Advanced(rest, p, n) = p + n
    BY <1>2 DEF Advanced
  <2>2. Turn(s, p) = s[p + 1]
    BY <1>3 DEF Turn
  <2>3. adjusted = IF k - 1 < p THEN IF p + n = 0 THEN 0 ELSE p + n - 1 ELSE p + n
    BY <1>3, <2>1 DEF AdjustedPointer
  <2> QED
    BY <2>2, <2>3
<1> HIDE DEF adjusted
<1>5. CASE k < p + 1
  <2>1. p \in DOMAIN rest /\ rest[p] = s[p + 1] /\ s[p + 1] # s[k]
    BY <1>1, <1>2, <1>5 DEF IsInjective
  <2>2. rest[p] = Successor(s, k, p) /\ n = 0 /\ adjusted = p - 1 + n
    BY <1>4, <1>5, <2>1 DEF Successor
  <2> QED
    BY <2>1, <2>2
<1>6. CASE p + 1 < k
  <2>1. p + 1 \in DOMAIN rest /\ rest[p + 1] = s[p + 1] /\ s[p + 1] # s[k]
    BY <1>1, <1>2, <1>6 DEF IsInjective
  <2>2. rest[p + 1] = Successor(s, k, p) /\ (p + 1) - 1 = p
                             /\ adjusted = (p + 1) - 1 + n
    BY <1>4, <1>6, <2>1 DEF Successor
  <2> QED
    BY <2>1, <2>2
<1>7. CASE p + 1 = k /\ k < Len(s)
  <2>1. k \in DOMAIN rest /\ rest[k] = s[k + 1] /\ k % Len(s) = k
    BY <1>1, <1>2, <1>7, FirstLap
  <2>2. rest[k] = Successor(s, k, p) /\ p = k - 1 /\ adjusted = k - 1 + n
    BY <1>4, <1>7, <2>1 DEF Successor
  <2> QED
    BY <2>1, <2>2
<1>8. CASE p + 1 = k /\ k = Len(s)
  <2>1. 1 \in DOMAIN rest /\ rest[1] = s[1] /\ k % Len(s) = 0
    BY <1>1, <1>2, <1>8
  <2>2. rest[1] = Successor(s, k, p)
    <3>1. (k % Len(s)) + 1 = 1
      BY <2>1
    <3> QED
      BY <1>4, <1>8, <2>1, <3>1 DEF Successor
  <2>3. adjusted = Len(rest) + n
    <3>1. p = Len(rest) /\ ~(k - 1 < p)
      BY <1>1, <1>8
    <3> QED
      BY <1>4, <3>1
  <2>4. \A i \in Nat : Turn(rest, Len(rest) + i) = Turn(rest, 1 - 1 + i)
    <3> TAKE i \in Nat
    <3>1. Len(rest) \in Nat \ {0} /\ 1 - 1 + i = i
      BY <1>1
    <3>2. (Len(rest) + i) % Len(rest) = i % Len(rest)
      BY <3>1, SameTurnNextLap
    <3> QED
      BY <3>1, <3>2 DEF Turn
  <2>5. p = Len(rest)
    BY <1>1, <1>8
  <2>6. \A i \in 0 .. n - 1 : Turn(rest, p + i) = Turn(rest, 1 - 1 + i)
    BY <2>4, <2>5
  <2>7. Turn(rest, adjusted) = Turn(rest, 1 - 1 + n)
    BY <2>3, <2>4
  <2> QED
    BY <2>1, <2>2, <2>6, <2>7
<1> QED
  BY <1>5, <1>6, <1>7, <1>8
-----------------------------------------------------------------------------
(* Induction, over a set of numbers *)

\* Every nonempty set of numbers has a least one.
LEMMA LeastNatural ==
    ASSUME NEW S \in SUBSET Nat, S # {}
    PROVE  \E m \in S : \A k \in S : ~ (k < m)
<1>1. PICK m \in S : \A k \in S : ~ (<<k, m>> \in OpToRel(<, Nat))
  BY NatLessThanWellFounded, WFMin
<1> QED
  BY <1>1 DEF OpToRel

\* A set with 0 and with every successor has all numbers.
LEMMA AllNaturals ==
    ASSUME NEW S, 0 \in S, \A n \in Nat : n \in S => n + 1 \in S
    PROVE  Nat \subseteq S
<1> SUFFICES ASSUME Nat \ S # {} PROVE FALSE
  OBVIOUS
<1>1. PICK m \in Nat \ S : \A k \in Nat \ S : ~ (k < m)
  BY LeastNatural
<1>2. m - 1 \in Nat /\ m - 1 < m
  BY <1>1
<1>3. m - 1 \in S
  BY <1>1, <1>2
<1> QED
  BY <1>1, <1>2, <1>3
-----------------------------------------------------------------------------
(* Counting turns *)

\* How often the pointer has passed position k of n when it stands at p.
Passed(n, k, p) == (p \div n) + IF k <= p % n THEN 1 ELSE 0

LEMMA PassedIsInt ==
    ASSUME NEW n \in Nat \ {0}, NEW k \in 1 .. n, NEW p \in Nat
    PROVE  Passed(n, k, p) \in Nat
  BY Division DEF Passed

LEMMA DivisionOfSuccessor ==
    ASSUME NEW n \in Nat \ {0}, NEW p \in Nat
    PROVE  \/ p % n = n - 1 /\ (p + 1) \div n = (p \div n) + 1 /\ (p + 1) % n = 0
           \/ p % n < n - 1 /\ (p + 1) \div n = p \div n /\ (p + 1) % n = (p % n) + 1
<1> DEFINE q == p \div n   r == p % n   u == (p + 1) \div n   v == (p + 1) % n
<1>1. q \in Nat /\ u \in Nat /\ p = n * q + r /\ p + 1 = n * u + v
  BY Division, p + 1 \in Nat
<1>2. r \in 0 .. n - 1 /\ v \in 0 .. n - 1
  BY PointerInRange, p + 1 \in Nat
<1> HIDE DEF q, r, u, v
<1>3. u = q \/ u = q + 1
  BY <1>1, <1>2, Z3
<1>4. CASE u = q
  BY <1>1, <1>2, <1>4 DEF q, r, u, v
<1>5. CASE u = q + 1
  <2>1. n * u = n * q + n
    BY <1>1, <1>5
  <2> QED
    BY <1>1, <1>2, <1>5, <2>1 DEF q, r, u, v
<1> QED
  BY <1>3, <1>4, <1>5

\* A turn is a turn of one position.
LEMMA OneTurnMore ==
    ASSUME NEW n \in Nat \ {0}, NEW k \in 1 .. n, NEW p \in Nat
    PROVE  Passed(n, k, p + 1) = Passed(n, k, p) + IF p % n = k - 1 THEN 1 ELSE 0
<1> DEFINE q == p \div n   r == p % n   u == (p + 1) \div n   v == (p + 1) % n
<1>1. q \in Nat /\ r \in 0 .. n - 1 /\ u \in Nat
  BY Division, PointerInRange, p + 1 \in Nat
<1>2. \/ r = n - 1 /\ u = q + 1 /\ v = 0
      \/ r < n - 1 /\ u = q /\ v = r + 1
  BY DivisionOfSuccessor
<1>3. /\ Passed(n, k, p) = q + IF k <= r THEN 1 ELSE 0
      /\ Passed(n, k, p + 1) = u + IF k <= v THEN 1 ELSE 0
  BY DEF Passed
<1> HIDE DEF q, r, u, v
<1>4. CASE r = n - 1
  BY <1>1, <1>2, <1>3, <1>4 DEF r
<1>5. CASE r < n - 1
  BY <1>1, <1>2, <1>3, <1>5 DEF r
<1> QED
  BY <1>1, <1>4, <1>5

\* From any pointer to any later one, no position is passed twice more often
\* than another.
LEMMA LapsAreFair ==
    ASSUME NEW n \in Nat \ {0}, NEW k \in 1 .. n, NEW l \in 1 .. n,
           NEW p \in Nat, NEW b \in Nat
    PROVE  (Passed(n, k, p) - Passed(n, k, b)) - (Passed(n, l, p) - Passed(n, l, b))
             \in {-1, 0, 1}
<1>1. /\ p \div n \in Nat /\ p % n \in 0 .. n - 1
      /\ b \div n \in Nat /\ b % n \in 0 .. n - 1
  BY Division, PointerInRange
<1> QED
  BY <1>1 DEF Passed

\* The turns of one position in a batch of m.
LEMMA TurnsInABatch ==
    ASSUME NEW n \in Nat \ {0}, NEW k \in 1 .. n, NEW p \in Nat, NEW m \in Nat
    PROVE  Cardinality({t \in 1 .. m : (p + (t - 1)) % n = k - 1})
             = Passed(n, k, p + m) - Passed(n, k, p)
<1> DEFINE Own(j) == {t \in 1 .. j : (p + (t - 1)) % n = k - 1}
           S == {j \in Nat : /\ IsFiniteSet(Own(j))
                             /\ Cardinality(Own(j)) = Passed(n, k, p + j) - Passed(n, k, p)}
<1>1. 0 \in S
  <2>1. Own(0) = {}
    OBVIOUS
  <2> QED
    BY <2>1, FS_EmptySet, PassedIsInt
<1>2. ASSUME NEW j \in Nat, j \in S
      PROVE  j + 1 \in S
  <2>1. /\ IsFiniteSet(Own(j))
        /\ Cardinality(Own(j)) = Passed(n, k, p + j) - Passed(n, k, p)
    BY <1>2
  <2>2. Passed(n, k, p) \in Nat /\ Passed(n, k, p + j) \in Nat
    BY PassedIsInt, p + j \in Nat
  <2>3. Passed(n, k, p + (j + 1))
          = Passed(n, k, p + j) + IF (p + j) % n = k - 1 THEN 1 ELSE 0
    BY OneTurnMore, p + j \in Nat, p + (j + 1) = (p + j) + 1
  <2>4. CASE (p + j) % n = k - 1
    <3>1. Own(j + 1) = Own(j) \cup {j + 1} /\ j + 1 \notin Own(j)
      <4>1. p + ((j + 1) - 1) = p + j /\ 1 .. j + 1 = (1 .. j) \cup {j + 1}
        OBVIOUS
      <4> QED
        BY <2>4, <4>1
    <3> HIDE DEF Own
    <3>2. /\ IsFiniteSet(Own(j + 1))
          /\ Cardinality(Own(j + 1)) = Cardinality(Own(j)) + 1
      BY <2>1, <3>1, FS_AddElement
    <3> QED
      BY <2>1, <2>2, <2>3, <2>4, <3>2
  <2>5. CASE (p + j) % n # k - 1
    <3>1. Own(j + 1) = Own(j)
      <4>1. p + ((j + 1) - 1) = p + j /\ 1 .. j + 1 = (1 .. j) \cup {j + 1}
        OBVIOUS
      <4> QED
        BY <2>5, <4>1
    <3> HIDE DEF Own
    <3> QED
      BY <2>1, <2>2, <2>3, <2>5, <3>1
  <2> QED
    BY <2>4, <2>5
<1> HIDE DEF S
<1>3. m \in S
  BY <1>1, <1>2, AllNaturals
<1> QED
  BY <1>3 DEF S
-----------------------------------------------------------------------------
(* Type correctness *)

LEMMA AdvancedIsPointer ==
    ASSUME TypeOK, NEW s, NEW n \in Nat, Advanced(s, pointer, n) <= MaxPointer
    PROVE  Advanced(s, pointer, n) \in 0 .. MaxPointer
  BY RotationAssumption DEF Advanced, TypeOK

LEMMA AssignKeepsTypeOK == ASSUME TypeOK, Assign PROVE TypeOK'
<1>1. AutoAssigned(rotation, pointer) \in Users
  BY AutoAssignedIsMember DEF Assign, AutoAssigned, TypeOK, ToSet
<1>2. pointer' \in 0 .. MaxPointer
  BY RotationAssumption DEF Assign, Advanced, TypeOK
<1> QED
  BY <1>1, <1>2 DEF Assign, TypeOK

\* A batch has no more turns for one member than it has chores.
LEMMA AssignBatchKeepsTypeOK ==
    ASSUME TypeOK, NEW n \in 1 .. MaxBatch, AssignBatch(n)
    PROVE  TypeOK'
<1> DEFINE given == BulkAssigned(rotation, pointer, InOrder(n))
<1>1. \A u \in Users : Cardinality({k \in 1 .. n : given[k] = u}) \in Nat
  <2> TAKE u \in Users
  <2>1. IsFiniteSet(1 .. n)
    BY FS_Interval
  <2> HIDE DEF given
  <2>2. IsFiniteSet({k \in 1 .. n : given[k] = u})
    BY <2>1, FS_Subset
  <2> QED
    BY <2>2, FS_CardinalityType
<1>2. tally' = [u \in Users |-> tally[u] + Cardinality({k \in 1 .. n : given[k] = u})]
  BY DEF AssignBatch
<1> HIDE DEF given
<1>3. tally' \in [Users -> Nat]
  BY <1>1, <1>2 DEF TypeOK
<1>4. pointer' \in 0 .. MaxPointer
  BY RotationAssumption DEF AssignBatch, Advanced, TypeOK
<1> QED
  BY <1>3, <1>4 DEF AssignBatch, TypeOK

LEMMA JoinKeepsTypeOK ==
    ASSUME TypeOK, NEW u \in Users, Join(u)
    PROVE  TypeOK'
<1>1. /\ rotation' \in Seq(Users)
      /\ Len(rotation') = Len(rotation) + 1
      /\ \A k \in 1 .. Len(rotation) : rotation'[k] = rotation[k]
      /\ rotation'[Len(rotation) + 1] = u
  BY AppendProperties DEF Join, TypeOK
<1>2. IsInjective(rotation)'
  BY <1>1 DEF Join, TypeOK, IsInjective, ToSet
<1> QED
  BY <1>1, <1>2 DEF Join, TypeOK, NoTurns

LEMMA DepartKeepsTypeOK ==
    ASSUME TypeOK, NEW p \in DOMAIN rotation, NEW n \in 0 .. MaxBatch, Depart(p, n)
    PROVE  TypeOK'
<1> DEFINE rest    == RemoveAt(rotation, p)
           current == Advanced(rest, pointer, n)
<1>1. p \in 1 .. Len(rotation)
  BY DEF TypeOK
<1>2. rest \in Seq(Users) /\ IsInjective(rest)
  BY <1>1, RemoveAtPositions, RemoveAtIsInjective DEF TypeOK
<1>3. current <= MaxPointer
  BY DEF Depart
<1>4. current \in 0 .. MaxPointer
  BY <1>3, RotationAssumption, AdvancedIsPointer
<1>5. /\ rotation' = rest
      /\ pointer' = AdjustedPointer(p - 1, Len(rest), pointer, current)
      /\ tally' = NoTurns
  BY DEF Depart
<1> HIDE DEF rest, current
<1>6. pointer' \in 0 .. MaxPointer
  BY <1>4, <1>5, RotationAssumption DEF AdjustedPointer
<1> QED
  BY <1>2, <1>5, <1>6 DEF TypeOK, NoTurns

(***************************************************************************)
(* The rotation never lists a member twice, however members come and go,   *)
(* and the pointer is never negative.                                      *)
(***************************************************************************)
THEOREM TypeCorrect == Spec => []TypeOK
<1>1. Init => TypeOK
  BY RotationAssumption DEF Init, TypeOK, NoTurns, IsInjective
<1>2. TypeOK /\ [Next]_vars => TypeOK'
  <2> SUFFICES ASSUME TypeOK, [Next]_vars PROVE TypeOK'
    OBVIOUS
  <2>1. CASE Next
    BY <2>1, AssignKeepsTypeOK, AssignBatchKeepsTypeOK, JoinKeepsTypeOK,
       DepartKeepsTypeOK
    DEF Next
  <2>2. CASE UNCHANGED vars
    BY <2>2 DEF vars, TypeOK
  <2> QED
    BY <2>1, <2>2
<1> QED
  BY <1>1, <1>2, PTL DEF Spec
-----------------------------------------------------------------------------
LEMMA DepartureInTheFirstLap ==
    ASSUME TypeOK, pointer < Len(rotation),
           NEW p \in DOMAIN rotation, NEW n \in Nat, Depart(p, n),
           n = 0 \/ p > pointer
    PROVE  SkipsNobody(p, n)
<1> DEFINE rest   == RemoveAt(rotation, p)
           handed == BulkAssigned(rest, pointer, InOrder(n))
           served == Append(handed, Turn(rotation', pointer'))
<1> SUFFICES ASSUME Len(rotation) > 1
             PROVE  \E k \in DOMAIN rest :
                      /\ rest[k] = NextEligible(p)
                      /\ \A j \in 0 .. n : served[j + 1] = Turn(rest, k - 1 + j)
  BY DEF SkipsNobody
<1>1. p \in 1 .. Len(rotation) /\ pointer \in 0 .. Len(rotation) - 1
  BY DEF TypeOK
<1>2. /\ rotation' = rest
      /\ pointer' = AdjustedPointer(p - 1, Len(rest), pointer, Advanced(rest, pointer, n))
  BY DEF Depart
<1>3. PICK k \in DOMAIN rest :
         /\ rest[k] = NextEligible(p)
         /\ \A j \in 0 .. n - 1 : Turn(rest, pointer + j) = Turn(rest, k - 1 + j)
         /\ Turn(rest, pointer') = Turn(rest, k - 1 + n)
  <2>1. NextEligible(p) = Successor(rotation, p, pointer)
    BY DEF NextEligible, Successor
  <2> QED
    <3>1. rotation \in Seq(Users) /\ IsInjective(rotation)
      BY DEF TypeOK
    <3>2. FollowOn(rest, rotation, p, pointer, n)
      BY <1>1, <3>1, FirstLapTurns
    <3> QED
      BY <1>2, <2>1, <3>2, Zenon DEF FollowOn
<1>4. rest \in Seq(Users) /\ rest # <<>>
  <2>1. rest \in Seq(Users) /\ Len(rest) = Len(rotation) - 1
    BY <1>1, RemoveAtPositions DEF TypeOK
  <2> QED
    BY <1>1, <2>1
<1> HIDE DEF rest
<1>5. handed = [j \in 1 .. n |-> Turn(rest, pointer + (j - 1))]
  BY <1>4 DEF BulkAssigned, InOrder, AutoAssigned
<1> DEFINE S == {Turn(rest, pointer + i) : i \in Nat}
<1>6. handed \in Seq(S) /\ Len(handed) = n
  <2>1. \A j \in 1 .. n : Turn(rest, pointer + (j - 1)) \in S
    <3> TAKE j \in 1 .. n
    <3>1. j - 1 \in Nat
      OBVIOUS
    <3> QED
      BY <3>1
  <2> HIDE DEF S, handed
  <2> QED
    BY <1>5, <2>1
<1> HIDE DEF handed
<1>7. /\ \A j \in 1 .. n : served[j] = handed[j]
      /\ served[n + 1] = Turn(rest, pointer')
  <2>1. rotation' = rest
    BY <1>2
  <2>2. \A x : LET longer == Append(handed, x)
               IN  (\A j \in 1 .. n : longer[j] = handed[j]) /\ longer[n + 1] = x
    BY <1>6
  <2> QED
    BY <2>1, <2>2
<1> HIDE DEF served
<1>8. ASSUME NEW j \in 0 .. n PROVE served[j + 1] = Turn(rest, k - 1 + j)
  <2>1. CASE j = n
    BY <1>3, <1>7, <2>1
  <2>2. CASE j < n
    <3>1. j \in 0 .. n - 1 /\ j + 1 \in 1 .. n /\ (j + 1) - 1 = j
      BY <2>2
    <3> QED
      BY <1>3, <1>5, <1>7, <3>1
  <2> QED
    BY <2>1, <2>2
<1> QED
  BY <1>3, <1>8

(***************************************************************************)
(* BR-002 for every number of members: in the first lap a departure passes *)
(* over nobody, with the chores it hands on or with the turn it leaves, if *)
(* it hands on none or its member stood at the pointer or behind it        *)
(* (redistribution.py:110-133).                                            *)
(***************************************************************************)
THEOREM FirstLapAlways == Spec => FirstLapDeparturesSkipNobody
<1> DEFINE Served == pointer < Len(rotation) =>
                       \A p \in DOMAIN rotation, n \in 0 .. MaxBatch :
                         Depart(p, n) /\ (n = 0 \/ p > pointer) => SkipsNobody(p, n)
<1>1. TypeOK => [Served]_vars
  BY DepartureInTheFirstLap
<1> QED
  BY <1>1, TypeCorrect, PTL DEF Spec, FirstLapDeparturesSkipNobody
-----------------------------------------------------------------------------
(* Fair turns *)

(***************************************************************************)
(* Since the members last changed, when the pointer stood at base, each    *)
(* has had the turns that the pointer has passed.                          *)
(***************************************************************************)
CountedFrom(base) ==
    \A k \in DOMAIN rotation :
        tally[rotation[k]] = Passed(Len(rotation), k, pointer)
                               - Passed(Len(rotation), k, base)

TurnsAreCounted == \E base \in Nat : CountedFrom(base)

IInv == TypeOK /\ TurnsAreCounted

\* After a change of the members everybody starts at zero.
LEMMA CountingStartsAnew ==
    ASSUME TypeOK', tally' = NoTurns
    PROVE  TurnsAreCounted'
<1>1. pointer' \in Nat /\ rotation' \in Seq(Users)
  BY DEF TypeOK
<1>2. ASSUME NEW k \in DOMAIN rotation'
      PROVE  tally'[rotation'[k]] = Passed(Len(rotation'), k, pointer')
                                      - Passed(Len(rotation'), k, pointer')
  <2>1. Len(rotation') \in Nat \ {0} /\ k \in 1 .. Len(rotation')
    BY <1>1
  <2>2. Passed(Len(rotation'), k, pointer') \in Nat
    BY <1>1, <2>1, PassedIsInt
  <2>3. tally'[rotation'[k]] = 0
    BY <1>1 DEF NoTurns
  <2> QED
    BY <2>2, <2>3
<1> QED
  BY <1>1, <1>2 DEF TurnsAreCounted, CountedFrom

LEMMA AssignIsCounted ==
    ASSUME TypeOK, NEW base \in Nat, CountedFrom(base), Assign
    PROVE  CountedFrom(base)'
<1> DEFINE L == Len(rotation)
           r == pointer % L
           k == r + 1
<1>1. rotation \in Seq(Users) /\ rotation # <<>> /\ IsInjective(rotation)
      /\ pointer \in Nat /\ tally \in [Users -> Nat]
  BY DEF Assign, AutoAssigned, TypeOK
<1>2. L \in Nat \ {0}
  BY <1>1
<1>3. r \in 0 .. L - 1 /\ k \in 1 .. L
  <2>1. r \in 0 .. L - 1
    BY <1>1, <1>2, PointerInRange
  <2> HIDE DEF r
  <2> QED
    BY <1>2, <2>1
<1>4. /\ pointer' = pointer + 1 /\ UNCHANGED rotation
      /\ tally' = [tally EXCEPT ![rotation[k]] = @ + 1]
  BY <1>1 DEF Assign, Advanced, AutoAssigned, Turn
<1>5. ASSUME NEW j \in DOMAIN rotation
      PROVE  tally'[rotation[j]] = Passed(L, j, pointer + 1) - Passed(L, j, base)
  <2>1. j \in 1 .. L
    BY <1>1
  <2>2. /\ tally[rotation[j]] = Passed(L, j, pointer) - Passed(L, j, base)
        /\ Passed(L, j, pointer) \in Nat /\ Passed(L, j, base) \in Nat
    BY <1>1, <1>2, <2>1, PassedIsInt DEF CountedFrom
  <2>3. Passed(L, j, pointer + 1)
          = Passed(L, j, pointer) + IF r = j - 1 THEN 1 ELSE 0
    BY <1>1, <1>2, <2>1, OneTurnMore
  <2> HIDE DEF r
  <2>4. r = j - 1 <=> j = k
    BY <1>2, <1>3, <2>1
  <2>5. rotation[j] \in Users /\ rotation[k] \in Users
    BY <1>1, <1>3, <2>1
  <2>6. rotation[j] = rotation[k] <=> j = k
    BY <1>1, <1>3, <2>1 DEF IsInjective
  <2>7. tally'[rotation[j]] = tally[rotation[j]] + IF j = k THEN 1 ELSE 0
    BY <1>1, <1>4, <2>5, <2>6
  <2> HIDE DEF L, k
  <2> QED
    BY <2>2, <2>3, <2>4, <2>7
<1> QED
  BY <1>4, <1>5 DEF CountedFrom

LEMMA AssignBatchIsCounted ==
    ASSUME TypeOK, NEW base \in Nat, CountedFrom(base),
           NEW n \in 1 .. MaxBatch, AssignBatch(n)
    PROVE  CountedFrom(base)'
<1> DEFINE L == Len(rotation)
           given == BulkAssigned(rotation, pointer, InOrder(n))
<1>1. rotation \in Seq(Users) /\ IsInjective(rotation)
      /\ pointer \in Nat /\ tally \in [Users -> Nat] /\ n \in Nat
  BY DEF TypeOK
<1>2. /\ UNCHANGED rotation
      /\ rotation # <<>> => pointer' = pointer + n
      /\ tally' = [u \in Users |-> tally[u] + Cardinality({t \in 1 .. n : given[t] = u})]
  BY DEF AssignBatch, Advanced
<1>3. ASSUME NEW j \in DOMAIN rotation
      PROVE  tally'[rotation[j]] = Passed(L, j, pointer + n) - Passed(L, j, base)
  <2>1. j \in 1 .. L /\ L \in Nat \ {0} /\ rotation # <<>> /\ rotation[j] \in Users
    BY <1>1
  <2>2. /\ tally[rotation[j]] = Passed(L, j, pointer) - Passed(L, j, base)
        /\ Passed(L, j, pointer) \in Nat /\ Passed(L, j, base) \in Nat
        /\ Passed(L, j, pointer + n) \in Nat
    BY <1>1, <2>1, PassedIsInt, pointer + n \in Nat DEF CountedFrom
  <2>3. \A t \in 1 .. n : given[t] = rotation[j] <=> (pointer + (t - 1)) % L = j - 1
    <3> TAKE t \in 1 .. n
    <3>1. given[t] = Turn(rotation, pointer + (t - 1))
      BY <1>1, <2>1 DEF BulkAssigned, InOrder, AutoAssigned
    <3>2. (pointer + (t - 1)) % L \in 0 .. L - 1
      BY <1>1, <2>1, PointerInRange, pointer + (t - 1) \in Nat
    <3> HIDE DEF given
    <3> QED
      BY <1>1, <2>1, <3>1, <3>2 DEF Turn, IsInjective
  <2> HIDE DEF given
  <2>4. {t \in 1 .. n : given[t] = rotation[j]}
          = {t \in 1 .. n : (pointer + (t - 1)) % L = j - 1}
    BY <2>3
  <2>5. Cardinality({t \in 1 .. n : given[t] = rotation[j]})
          = Passed(L, j, pointer + n) - Passed(L, j, pointer)
    BY <1>1, <2>1, <2>4, TurnsInABatch
  <2>6. tally'[rotation[j]] = tally[rotation[j]]
                                + Cardinality({t \in 1 .. n : given[t] = rotation[j]})
    BY <1>2, <2>1
  <2> HIDE DEF L
  <2> QED
    BY <2>2, <2>5, <2>6
<1>4. CASE rotation # <<>>
  BY <1>2, <1>3, <1>4 DEF CountedFrom
<1>5. CASE rotation = <<>>
  BY <1>2, <1>5 DEF CountedFrom
<1> QED
  BY <1>4, <1>5

(***************************************************************************)
(* The turns given since the members last changed are those the pointer    *)
(* has passed (assignment.py:54-75).                                       *)
(***************************************************************************)
THEOREM InductiveInvariant == Spec => []IInv
<1>1. Init => TurnsAreCounted
  <2> SUFFICES ASSUME Init PROVE CountedFrom(0)
    BY DEF TurnsAreCounted
  <2>1. PICK creator \in Users : rotation = <<creator>>
    BY DEF Init
  <2>2. Len(rotation) = 1 /\ DOMAIN rotation = 1 .. 1
    BY <2>1
  <2>3. Passed(1, 1, 0) \in Nat
    BY PassedIsInt
  <2> QED
    BY <2>1, <2>2, <2>3 DEF Init, CountedFrom, NoTurns
<1>2. TypeOK /\ TypeOK' /\ TurnsAreCounted /\ [Next]_vars => TurnsAreCounted'
  <2> SUFFICES ASSUME TypeOK, TypeOK', [Next]_vars,
                      NEW base \in Nat, CountedFrom(base)
               PROVE  TurnsAreCounted'
    BY DEF TurnsAreCounted
  <2>1. CASE Assign
    BY <2>1, AssignIsCounted DEF TurnsAreCounted
  <2>2. ASSUME NEW n \in 1 .. MaxBatch, AssignBatch(n) PROVE TurnsAreCounted'
    BY <2>2, AssignBatchIsCounted DEF TurnsAreCounted
  <2>3. ASSUME NEW u, Join(u) PROVE TurnsAreCounted'
    BY <2>3, CountingStartsAnew DEF Join
  <2>4. ASSUME NEW p, NEW n, Depart(p, n) PROVE TurnsAreCounted'
    BY <2>4, CountingStartsAnew DEF Depart
  <2>5. CASE UNCHANGED vars
    BY <2>5 DEF vars, TurnsAreCounted, CountedFrom
  <2> QED
    BY <2>1, <2>2, <2>3, <2>4, <2>5 DEF Next
<1> QED
  BY <1>1, <1>2, TypeCorrect, PTL DEF Spec, IInv

(***************************************************************************)
(* FR-037 to FR-039 for every number of members and any batches: while the *)
(* members stay the same, nobody is two turns ahead of anybody else.       *)
(***************************************************************************)
THEOREM TurnsAreAlwaysFair == Spec => []FairTurns
<1>1. IInv => FairTurns
  <2> SUFFICES ASSUME TypeOK, NEW base \in Nat, CountedFrom(base),
                      NEW k \in DOMAIN rotation, NEW l \in DOMAIN rotation
               PROVE  tally[rotation[k]] - tally[rotation[l]] \in {-1, 0, 1}
    BY DEF IInv, TurnsAreCounted, FairTurns, ToSet
  <2>1. /\ Len(rotation) \in Nat \ {0}
        /\ k \in 1 .. Len(rotation) /\ l \in 1 .. Len(rotation)
        /\ pointer \in Nat
    BY DEF TypeOK
  <2> QED
    BY <2>1, LapsAreFair DEF CountedFrom
<1> QED
  BY <1>1, InductiveInvariant, PTL
-----------------------------------------------------------------------------
(* A batch, one by one *)

\* What OneByOne[n] comes to.
Batch(n) == [given   |-> BulkAssigned(rotation, pointer, InOrder(n)),
             pointer |-> Advanced(rotation, pointer, n)]

\* One more assignment, after those before it.
OneMore(before) == [given   |-> Append(before.given, AutoAssigned(rotation, before.pointer)),
                    pointer |-> Advanced(rotation, before.pointer, 1)]

LEMMA BatchOfNone ==
    ASSUME TypeOK
    PROVE  Batch(0) = [given |-> <<>>, pointer |-> pointer]
<1>1. BulkAssigned(rotation, pointer, InOrder(0)) = <<>>
  BY DEF BulkAssigned, InOrder
<1>2. Advanced(rotation, pointer, 0) = pointer
  BY DEF Advanced, TypeOK
<1> QED
  BY <1>1, <1>2 DEF Batch

LEMMA BatchOfOneMore ==
    ASSUME TypeOK, NEW n \in Nat
    PROVE  Batch(n + 1) = OneMore(Batch(n))
<1> DEFINE S == Users \cup {NoUser}
           small == BulkAssigned(rotation, pointer, InOrder(n))
           large == BulkAssigned(rotation, pointer, InOrder(n + 1))
           user(k) == AutoAssigned(rotation, pointer + (k - 1))
           next == AutoAssigned(rotation, Advanced(rotation, pointer, n))
<1>1. pointer \in Nat /\ rotation \in Seq(Users)
  BY DEF TypeOK
<1>2. /\ small = [k \in 1 .. n |-> user(k)]
      /\ large = [k \in 1 .. n + 1 |-> user(k)]
  BY DEF BulkAssigned, InOrder
<1>3. \A k \in 1 .. n + 1 : user(k) \in S
  <2> SUFFICES ASSUME NEW k \in 1 .. n + 1 PROVE user(k) \in S
    OBVIOUS
  <2>1. pointer + (k - 1) \in Nat
    BY <1>1
  <2> QED
    BY <1>1, <2>1, AutoAssignedIsMember DEF AutoAssigned, ToSet
<1>4. next = user(n + 1)
  BY <1>1 DEF Advanced, AutoAssigned
<1> HIDE DEF user, next, small, large, S
<1>5. small \in Seq(S) /\ Len(small) = n /\ next \in S
  BY <1>2, <1>3, <1>4
<1>6. Append(small, next) \in Seq(S) /\ Len(Append(small, next)) = n + 1
  BY <1>5
<1>7. \A k \in 1 .. n + 1 : Append(small, next)[k] = user(k)
  BY <1>2, <1>4, <1>5
<1>8. large = Append(small, next)
  BY <1>2, <1>3, <1>6, <1>7
<1>9. Advanced(rotation, pointer, n + 1)
        = Advanced(rotation, Advanced(rotation, pointer, n), 1)
  BY <1>1 DEF Advanced
<1> QED
  BY <1>8, <1>9 DEF Batch, OneMore, small, large, next

\* The recursion of OneByOne, of which it is the solution.
Unrolled(f) ==
    [n \in 0 .. MaxBatch |-> IF n = 0 THEN [given |-> <<>>, pointer |-> pointer]
                                      ELSE OneMore(f[n - 1])]

LEMMA OneByOneUnrolls ==
    ASSUME TypeOK
    PROVE  OneByOne = Unrolled(OneByOne)
<1> DEFINE batches == [n \in 0 .. MaxBatch |-> Batch(n)]
<1>1. batches = Unrolled(batches)
  <2>1. \A n \in 0 .. MaxBatch :
          Batch(n) = IF n = 0 THEN [given |-> <<>>, pointer |-> pointer]
                              ELSE OneMore(batches[n - 1])
    <3> TAKE n \in 0 .. MaxBatch
    <3>1. CASE n = 0
      BY <3>1, BatchOfNone
    <3>2. CASE n # 0
      <4>1. n - 1 \in Nat /\ n - 1 \in 0 .. MaxBatch /\ n = (n - 1) + 1
        BY <3>2, RotationAssumption
      <4>2. Batch(n) = OneMore(Batch(n - 1))
        BY <4>1, BatchOfOneMore
      <4> QED
        BY <3>2, <4>1, <4>2
    <3> QED
      BY <3>1, <3>2
  <2> HIDE DEF OneMore
  <2> QED
    BY <2>1 DEF Unrolled
<1>2. \E f : f = Unrolled(f)
  BY <1>1
<1>3. OneByOne = CHOOSE f : f = Unrolled(f)
  BY DEF OneByOne, Unrolled, OneMore
<1> QED
  BY <1>2, <1>3, Zenon

(***************************************************************************)
(* assignment.py:121-122 for every rotation, every pointer and batches of  *)
(* any size: one pass over a batch gives what assigning its chores one     *)
(* after the other would give, to the same members and with the same       *)
(* pointer in the end.                                                     *)
(***************************************************************************)
THEOREM BatchIsAlwaysOneByOne == Spec => []BatchIsOneByOne
<1>1. TypeOK => BatchIsOneByOne
  <2> SUFFICES ASSUME TypeOK PROVE BatchIsOneByOne
    OBVIOUS
  <2> DEFINE S == {n \in Nat : n \in 0 .. MaxBatch => OneByOne[n] = Batch(n)}
  <2>1. \A n \in 0 .. MaxBatch : OneByOne[n] = Unrolled(OneByOne)[n]
    BY OneByOneUnrolls
  <2>2. 0 \in S
    BY <2>1, BatchOfNone DEF Unrolled
  <2>3. ASSUME NEW n \in Nat, n \in S
        PROVE  n + 1 \in S
    <3> SUFFICES ASSUME n + 1 \in 0 .. MaxBatch
                 PROVE  OneByOne[n + 1] = Batch(n + 1)
      OBVIOUS
    <3>1. n \in 0 .. MaxBatch /\ (n + 1) - 1 = n /\ n + 1 # 0
      BY RotationAssumption
    <3>2. OneByOne[n + 1] = OneMore(OneByOne[n])
      BY <2>1, <3>1 DEF Unrolled
    <3>3. OneByOne[n] = Batch(n)
      BY <2>3, <3>1
    <3> QED
      BY <3>2, <3>3, BatchOfOneMore
  <2> HIDE DEF S
  <2>4. Nat \subseteq S
    BY <2>2, <2>3, AllNaturals
  <2>5. \A n \in 0 .. MaxBatch : OneByOne[n] = Batch(n)
    BY <2>4 DEF S
  <2>6. \A n \in Nat : /\ Batch(n).given = BulkAssigned(rotation, pointer, InOrder(n))
                       /\ Batch(n).pointer = Advanced(rotation, pointer, n)
    BY DEF Batch
  <2> QED
    BY <2>5, <2>6 DEF BatchIsOneByOne
<1> QED
  BY <1>1, TypeCorrect, PTL
=============================================================================
