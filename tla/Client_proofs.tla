----------------------------- MODULE Client_proofs -----------------------------
(***************************************************************************)
(* Theorems about the client, for any number of rows, calls, invites and   *)
(* restarts: the pages of a list (ChorePages), the lists the app shows     *)
(* before the server has agreed (ClientLists) and the screen it is on      *)
(* (Router).                                                               *)
(***************************************************************************)
EXTENDS ChorePages, ClientLists, Router, FiniteSetTheorems, SequenceTheorems, TLAPS
-----------------------------------------------------------------------------
(***************************************************************************)
(* The pages of a list: the invariant                                      *)
(***************************************************************************)

\* A page is being fetched.
Underway == at \in {"asked", "counted", "answered"}

\* How many rows the pages so far should have brought.
Read == pages * PageSize

\* The place of a row in the order of the SELECT, counted from 0.
Rank(i) == Cardinality({j \in Listed : Newer(j, i)})

PagesInBounds ==
    /\ Len(items) <= Read
    /\ at \in {"asked", "counted"} => pages < MaxPages

\* What has been read, and is still listed, comes before the rest.
ReadIsNewest ==
    "created" \notin crossed =>
        /\ IsInjective(items)
        /\ Underway => \A i \in ToSet(items) \cap Listed : Rank(i) < Read

\* What was there and is missing comes after what has been read.
RestIsOlder ==
    crossed \cap {"deleted", "between"} = {} =>
        /\ Underway => /\ before \subseteq Listed
                       /\ \A i \in before \ ToSet(items) : Rank(i) >= Read
        /\ at \in {"asked", "counted"} => Len(items) = Read /\ Read <= Cardinality(Listed)
        /\ at = "counted" => total = Cardinality(Listed)
        /\ at = "answered" => /\ total <= Cardinality(Listed)
                              /\ Len(items) = IF total < Read THEN total ELSE Read
                              /\ total <= Read => before \subseteq ToSet(items)
        /\ NothingLeftOut

PagesIInv == PagesTypeOK /\ PagesInBounds /\ ReadIsNewest /\ RestIsOlder
-----------------------------------------------------------------------------
(* Orders and windows *)

LEMMA ReadGrows ==
    ASSUME NEW p \in Nat
    PROVE  /\ p * PageSize \in Nat /\ (p + 1) * PageSize = p * PageSize + PageSize
           /\ 0 * PageSize = 0
           /\ p < MaxPages => (p + 1) * PageSize <= PageSize * MaxPages
           /\ p <= MaxPages => p * PageSize <= PageSize * MaxPages
<1> PageSize \in Nat /\ MaxPages \in Nat
  BY ChorePagesAssumption
<1>1. p * PageSize \in Nat /\ (p + 1) * PageSize = p * PageSize + PageSize /\ 0 * PageSize = 0
  BY SMT
<1>2. ASSUME NEW q \in Nat, q <= MaxPages PROVE q * PageSize <= PageSize * MaxPages
  BY <1>2, SMT
<1> QED
  BY <1>1, <1>2

LEMMA FinitelyMany ==
    ASSUME PagesTypeOK
    PROVE  /\ Listed \subseteq Instances /\ IsFiniteSet(Listed) /\ Cardinality(Listed) \in Nat
           /\ Cardinality(Listed) <= Cardinality(Instances)
           /\ \A i : Rank(i) \in Nat
<1>1. Listed \subseteq Instances
  BY DEF PagesTypeOK, Listed
<1>2. IsFiniteSet(Listed) /\ Cardinality(Listed) <= Cardinality(Instances)
  BY <1>1, ChorePagesAssumption, FS_Subset
<1>3. ASSUME NEW i PROVE Rank(i) \in Nat
  <2>1. IsFiniteSet({j \in Listed : Newer(j, i)})
    BY <1>2, FS_Subset
  <2> QED
    BY <2>1, FS_CardinalityType DEF Rank
<1> QED
  BY <1>1, <1>2, <1>3, FS_CardinalityType

LEMMA FinitelyManyAfter == PagesTypeOK' => \A i : Rank(i)' \in Nat
<1> SUFFICES ASSUME PagesTypeOK', NEW i PROVE Rank(i)' \in Nat
  OBVIOUS
<1>1. Listed' \subseteq Instances
  BY DEF PagesTypeOK, Listed
<1>2. IsFiniteSet({j \in Listed' : Newer(j, i)'})
  BY <1>1, ChorePagesAssumption, FS_Subset
<1> QED
  BY <1>2, FS_CardinalityType DEF Rank

\* Newer is a strict order of the ids; two rows always differ in it.
LEMMA NewerIsAnOrder ==
    ASSUME PagesTypeOK, NEW i \in Instances, NEW j \in Instances
    PROVE  ~ (Newer(i, j) /\ Newer(j, i)) /\ ~ Newer(i, i)
  BY ChorePagesAssumption DEF PagesTypeOK, Newer

LEMMA RankIsThePlace ==
    ASSUME PagesTypeOK, NEW s \in Orders
    PROVE  /\ s \in Seq(Listed) /\ Len(s) = Cardinality(Listed)
           /\ \A j, k \in 1 .. Len(s) : s[j] = s[k] => j = k
           /\ ToSet(s) = Listed
           /\ \A k \in 1 .. Len(s) : Rank(s[k]) = k - 1
<1> DEFINE n == Cardinality(Listed)
<1>1. n \in Nat /\ IsFiniteSet(Listed) /\ Listed \subseteq Instances
  BY FinitelyMany
<1>2. /\ s \in [1 .. n -> Listed]
      /\ \A j, k \in 1 .. n : j # k => s[j] # s[k]
      /\ \A j, k \in DOMAIN s : j < k => Newer(s[j], s[k])
  BY DEF Orders, SetToSeqs
<1>3. s \in Seq(Listed) /\ Len(s) = n
  BY <1>1, <1>2
<1>4. ToSet(s) = Listed
  <2>1. s \in Injection(1 .. n, Listed)
    BY <1>2 DEF Injection, IsInjective
  <2>2. Cardinality(1 .. n) = n
    BY <1>1, FS_Interval
  <2>3. s \in Surjection(1 .. n, Listed)
    BY <1>1, <2>1, <2>2, FS_Injection
  <2>4. \A i \in Listed : \E k \in 1 .. n : s[k] = i
    BY <2>3 DEF Surjection
  <2> QED
    BY <1>2, <2>4 DEF ToSet
<1>5. ASSUME NEW k \in 1 .. n PROVE Rank(s[k]) = k - 1
  <2> DEFINE above == {j \in Listed : Newer(j, s[k])}
  <2>1. ASSUME NEW j \in 1 .. n PROVE Newer(s[j], s[k]) <=> j < k
    <3>1. s[j] \in Instances /\ s[k] \in Instances
      BY <1>1, <1>2
    <3>2. j < k => Newer(s[j], s[k])
      BY <1>2
    <3>3. k < j => Newer(s[k], s[j])
      BY <1>2
    <3>4. j < k \/ j = k \/ k < j
      BY <1>1
    <3> QED
      BY <1>1, <3>1, <3>2, <3>3, <3>4, NewerIsAnOrder
  <2>2. above = {s[j] : j \in 1 .. k - 1}
    BY <1>1, <1>2, <1>4, <2>1 DEF ToSet
  <2>3. 1 .. k - 1 \subseteq 1 .. n
    BY <1>1
  <2> DEFINE f == [j \in 1 .. k - 1 |-> s[j]]
  <2>4. f \in Bijection(1 .. k - 1, above)
    BY <1>2, <2>2, <2>3 DEF Bijection, Injection, Surjection, IsInjective
  <2>5. ExistsBijection(1 .. k - 1, above)
    BY <2>4 DEF ExistsBijection
  <2>6. IsFiniteSet(1 .. k - 1) /\ Cardinality(1 .. k - 1) = k - 1
    <3>1. 1 \in Int /\ k - 1 \in Int /\ k - 1 >= 0
      BY <1>1
    <3>2. IsFiniteSet(1 .. k - 1)
          /\ Cardinality(1 .. k - 1) = IF 1 > k - 1 THEN 0 ELSE (k - 1) - 1 + 1
      BY <3>1, FS_Interval
    <3> QED
      BY <3>1, <3>2
  <2> QED
    BY <2>5, <2>6, FS_Bijection DEF Rank
<1> QED
  BY <1>1, <1>2, <1>3, <1>4, <1>5

\* What a page brings.
LEMMA WhatAPageBrings ==
    ASSUME PagesTypeOK, NEW s \in Orders
    PROVE  LET n == Cardinality(Listed)
           IN  /\ Window(s) \in Seq(Listed)
               /\ Len(Window(s)) = IF n <= Read THEN 0
                                   ELSE IF n < Read + PageSize THEN n - Read ELSE PageSize
               /\ \A k \in 1 .. Len(Window(s)) : Rank(Window(s)[k]) = Read + k - 1
               /\ \A i \in Listed : Rank(i) >= Read /\ Rank(i) < Read + PageSize
                                      => i \in ToSet(Window(s))
               /\ \A i \in Listed : Rank(i) < n
<1> DEFINE n == Cardinality(Listed)
<1>1. /\ n \in Nat /\ Read \in Nat /\ PageSize \in Nat /\ pages \in Nat
      /\ (pages + 1) * PageSize = Read + PageSize
  BY FinitelyMany, ReadGrows, ChorePagesAssumption DEF PagesTypeOK, Read
<1>2. /\ s \in Seq(Listed) /\ Len(s) = n
      /\ ToSet(s) = Listed
      /\ \A k \in 1 .. n : Rank(s[k]) = k - 1
  BY RankIsThePlace
<1> DEFINE last == IF n < Read + PageSize THEN n ELSE Read + PageSize
<1>3. Window(s) = SubSeq(s, Read + 1, last)
  BY <1>1, <1>2 DEF Window, Read
<1>4. last \in Nat /\ last <= n
  BY <1>1
<1> DEFINE w == SubSeq(s, Read + 1, last)
<1> HIDE DEF last
<1>5. /\ Len(w) = IF Read < last THEN last - Read ELSE 0
      /\ w \in Seq(Listed)
      /\ \A k \in 1 .. Len(w) : w[k] = s[Read + k] /\ Read + k \in 1 .. n
  BY <1>1, <1>2, <1>4
<1>6. \A k \in 1 .. Len(w) : Rank(w[k]) = Read + k - 1
  BY <1>1, <1>2, <1>5
<1>7. ASSUME NEW i \in Listed PROVE \E k \in 1 .. n : s[k] = i /\ Rank(i) = k - 1
  BY <1>2 DEF ToSet
<1>8. ASSUME NEW i \in Listed, Rank(i) >= Read, Rank(i) < Read + PageSize
      PROVE  i \in ToSet(w)
  <2>1. PICK k \in 1 .. n : s[k] = i /\ Rank(i) = k - 1
    BY <1>7
  <2>2. k - Read \in 1 .. Len(w) /\ w[k - Read] = i
    BY <1>1, <1>4, <1>5, <1>8, <2>1 DEF last
  <2> QED
    BY <1>5, <2>2 DEF ToSet
<1>9. ASSUME NEW i \in Listed PROVE Rank(i) < n
  BY <1>1, <1>7
<1> QED
  BY <1>1, <1>3, <1>5, <1>6, <1>8, <1>9 DEF last
-----------------------------------------------------------------------------
(* What happens meanwhile *)

\* A row that is created may come before others, and moves none up.
LEMMA RanksGrow ==
    ASSUME PagesTypeOK, PagesTypeOK', NEW new \in SUBSET Instances, NEW t \in 0 .. LastStamp,
           Create(new, t)
    PROVE  /\ Listed \subseteq Listed' /\ Cardinality(Listed) <= Cardinality(Listed')
           /\ \A i \in Listed : Rank(i) <= Rank(i)'
<1>1. /\ Listed \subseteq Listed'
      /\ \A i \in Listed : i \in Instances \ new /\ created'[i] = created[i]
  BY DEF Create, Listed, PagesTypeOK
<1>2. IsFiniteSet(Listed')
  <2>1. Listed' \subseteq Instances
    BY DEF PagesTypeOK, Listed
  <2> QED
    BY <2>1, ChorePagesAssumption, FS_Subset
<1>3. ASSUME NEW i \in Listed PROVE Rank(i) <= Rank(i)'
  <2> DEFINE A == {j \in Listed : Newer(j, i)}
             B == {j \in Listed' : Newer(j, i)'}
  <2>1. A \subseteq B
    BY <1>1 DEF Newer
  <2>2. IsFiniteSet(B)
    BY <1>2, FS_Subset
  <2>3. Cardinality(A) <= Cardinality(B)
    BY <2>1, <2>2, FS_Subset
  <2> QED
    BY <2>3 DEF Rank
<1> QED
  BY <1>1, <1>2, <1>3, FS_Subset

\* Without the rows of a series the others move up.
LEMMA RanksShrink ==
    ASSUME PagesTypeOK, NEW d \in Series, DeleteSeries(d)
    PROVE  Listed' \subseteq Listed /\ \A i \in Listed' : Rank(i)' <= Rank(i)
<1>1. Listed' \subseteq Listed /\ created' = created
  BY DEF DeleteSeries, Listed
<1>2. ASSUME NEW i \in Listed' PROVE Rank(i)' <= Rank(i)
  <2> DEFINE A == {j \in Listed : Newer(j, i)}
             B == {j \in Listed' : Newer(j, i)'}
  <2>1. B \subseteq A
    BY <1>1 DEF Newer
  <2>2. IsFiniteSet(A)
    BY FinitelyMany, FS_Subset
  <2>3. Cardinality(B) <= Cardinality(A)
    BY <2>1, <2>2, FS_Subset
  <2> QED
    BY <2>3 DEF Rank
<1> QED
  BY <1>1, <1>2

\* Nothing about the rows changes.
LEMMA RanksStay ==
    ASSUME UNCHANGED rows
    PROVE  Listed' = Listed /\ \A i : Rank(i)' = Rank(i)
  BY DEF rows, Listed, Rank, Newer
-----------------------------------------------------------------------------
(* The steps of the pages *)

LEMMA InitPages == PagesInit => PagesIInv
<1> SUFFICES ASSUME PagesInit PROVE PagesIInv
  OBVIOUS
<1>0. /\ PageSize \in Nat /\ MaxPages \in Nat /\ LastStamp \in Nat
      /\ Cardinality(Instances) \in Nat /\ Read = 0
  BY ChorePagesAssumption, FS_CardinalityType, ReadGrows DEF PagesInit, Read
<1>1. PagesTypeOK
  <2>1. Len(items) <= PageSize * MaxPages /\ items \in Seq(Instances)
    BY <1>0, ReadGrows DEF PagesInit
  <2> QED
    BY <1>0, <2>1 DEF PagesInit, PagesTypeOK
<1>2. PagesInBounds /\ ReadIsNewest /\ RestIsOlder
  BY <1>0
  DEF PagesInit, PagesInBounds, ReadIsNewest, RestIsOlder, Underway, NothingLeftOut, IsInjective
<1> QED
  BY <1>1, <1>2 DEF PagesIInv

LEMMA StartKeepsPages == PagesIInv /\ Start => PagesIInv'
<1> SUFFICES ASSUME PagesIInv, Start PROVE PagesIInv'
  OBVIOUS
<1>0. /\ PageSize \in Nat /\ MaxPages \in Nat /\ MaxPages > 0 /\ PagesTypeOK
      /\ Read' = 0 /\ Cardinality(Listed) \in Nat /\ Listed \subseteq Instances
      /\ Listed' = Listed /\ \A i : Rank(i)' = Rank(i) /\ Rank(i) \in Nat
  BY ChorePagesAssumption, FinitelyMany, ReadGrows, RanksStay DEF Start, Read, PagesIInv
<1>1. PagesTypeOK'
  <2>1. 0 <= PageSize * MaxPages /\ Cardinality(Instances) \in Nat
    BY <1>0, ReadGrows, ChorePagesAssumption, FS_CardinalityType
  <2> QED
    BY <1>0, <2>1 DEF Start, PagesTypeOK, rows
<1>2. PagesInBounds'
  BY <1>0 DEF Start, PagesInBounds
<1>3. ReadIsNewest'
  BY <1>0 DEF Start, ReadIsNewest, Underway, IsInjective, ToSet
<1>4. RestIsOlder'
  BY <1>0 DEF Start, RestIsOlder, Underway, NothingLeftOut
<1> QED
  BY <1>1, <1>2, <1>3, <1>4 DEF PagesIInv

LEMMA CountKeepsPages == PagesIInv /\ Count => PagesIInv'
<1> SUFFICES ASSUME PagesIInv, Count PROVE PagesIInv'
  OBVIOUS
<1>0. /\ PagesTypeOK /\ Cardinality(Listed) \in 0 .. Cardinality(Instances)
      /\ Read' = Read /\ Listed' = Listed /\ \A i : Rank(i)' = Rank(i)
  BY FinitelyMany, RanksStay, ChorePagesAssumption, FS_CardinalityType DEF Count, Read, PagesIInv
<1>1. PagesTypeOK'
  BY <1>0 DEF Count, PagesTypeOK, rows
<1>2. PagesInBounds'
  BY <1>0 DEF Count, PagesInBounds, PagesIInv
<1>3. ReadIsNewest'
  BY <1>0 DEF Count, ReadIsNewest, Underway, PagesIInv
<1>4. RestIsOlder'
  BY <1>0 DEF Count, RestIsOlder, Underway, NothingLeftOut, PagesIInv
<1> QED
  BY <1>1, <1>2, <1>3, <1>4 DEF PagesIInv

LEMMA SelectKeepsPages == PagesIInv /\ Select => PagesIInv'
<1> SUFFICES ASSUME PagesIInv, Select PROVE PagesIInv'
  OBVIOUS
<1> DEFINE n == Cardinality(Listed)
<1>1. PICK s \in Orders : items' = items \o Window(s)
  BY DEF Select
<1> DEFINE w == Window(s)
<1>2. /\ at = "counted" /\ at' = "answered" /\ pages' = pages + 1
      /\ UNCHANGED <<rows, total, before, crossed>>
  BY DEF Select
<1>3. /\ PagesTypeOK /\ n \in Nat /\ Read \in Nat /\ PageSize \in Nat /\ PageSize > 0
      /\ pages \in Nat /\ pages < MaxPages /\ MaxPages \in Nat
      /\ Listed \subseteq Instances
      /\ Read' = Read + PageSize /\ Read' <= PageSize * MaxPages
      /\ Listed' = Listed /\ \A i : Rank(i)' = Rank(i) /\ Rank(i) \in Nat
  BY <1>2, ChorePagesAssumption, FinitelyMany, ReadGrows, RanksStay
  DEF PagesIInv, PagesInBounds, PagesTypeOK, Read
<1>4. /\ w \in Seq(Listed)
      /\ Len(w) = IF n <= Read THEN 0
                  ELSE IF n < Read + PageSize THEN n - Read ELSE PageSize
      /\ \A k \in 1 .. Len(w) : Rank(w[k]) = Read + k - 1
      /\ \A i \in Listed : Rank(i) >= Read /\ Rank(i) < Read + PageSize => i \in ToSet(w)
      /\ \A i \in Listed : Rank(i) < n
  BY <1>3, WhatAPageBrings
<1> HIDE DEF w
<1>5. /\ items \in Seq(Instances) /\ w \in Seq(Instances) /\ items' = items \o w
      /\ items' \in Seq(Instances) /\ Len(items') = Len(items) + Len(w)
      /\ Len(items) \in Nat /\ Len(w) \in Nat /\ Len(w) <= PageSize
      /\ \A k \in 1 .. Len(items') : items'[k] = IF k <= Len(items) THEN items[k]
                                                 ELSE w[k - Len(items)]
  <2>1. items \in Seq(Instances) /\ items' = items \o w
    BY <1>1, <1>3 DEF PagesTypeOK, w
  <2>2. w \in Seq(Instances)
    BY <1>3, <1>4
  <2>3. Len(w) <= PageSize
    BY <1>3, <1>4
  <2> QED
    BY <2>1, <2>2, <2>3
<1>6. /\ ToSet(items') = ToSet(items) \cup ToSet(w)
      /\ \A i \in ToSet(w) : i \in Listed /\ Rank(i) >= Read /\ Rank(i) < Read + PageSize
  <2>1. ToSet(items') \subseteq ToSet(items) \cup ToSet(w)
    BY <1>5 DEF ToSet
  <2>2. ToSet(items) \subseteq ToSet(items')
    BY <1>5 DEF ToSet
  <2>3. ASSUME NEW k \in 1 .. Len(w) PROVE w[k] \in ToSet(items')
    <3>1. /\ Len(items) + k \in 1 .. Len(items') /\ ~ (Len(items) + k <= Len(items))
          /\ (Len(items) + k) - Len(items) = k
      BY <1>5
    <3>2. items'[Len(items) + k] = w[k]
      BY <1>5, <3>1
    <3> QED
      <4>1. DOMAIN items' = 1 .. Len(items')
        BY <1>5
      <4> QED
        BY <3>1, <3>2, <4>1 DEF ToSet
  <2>4. \A i \in ToSet(w) : \E k \in 1 .. Len(w) : i = w[k] /\ w[k] \in Listed
    BY <1>4 DEF ToSet
  <2>5. ASSUME NEW i \in ToSet(w)
        PROVE  i \in Listed /\ Rank(i) >= Read /\ Rank(i) < Read + PageSize
    <3>1. PICK k \in 1 .. Len(w) : i = w[k] /\ w[k] \in Listed
      BY <2>4
    <3>2. Rank(i) = Read + k - 1
      BY <1>4, <3>1
    <3> QED
      BY <1>3, <1>5, <3>1, <3>2
  <2>6. ToSet(w) \subseteq ToSet(items')
    BY <2>3, <2>4
  <2> QED
    BY <2>1, <2>2, <2>5, <2>6
<1>7. PagesInBounds' /\ Len(items') <= Read'
  BY <1>2, <1>3, <1>5 DEF PagesIInv, PagesInBounds
<1>8. PagesTypeOK'
  <2>1. Len(items') <= PageSize * MaxPages
    <3>1. PageSize * MaxPages \in Nat
      BY <1>3
    <3> QED
      BY <1>3, <1>5, <1>7, <3>1
  <2> QED
    BY <1>2, <1>3, <1>5, <2>1 DEF PagesTypeOK, rows
<1>9. ReadIsNewest'
  <2> SUFFICES ASSUME "created" \notin crossed
               PROVE  /\ IsInjective(items')
                      /\ \A i \in ToSet(items') \cap Listed : Rank(i) < Read + PageSize
    BY <1>2, <1>3 DEF ReadIsNewest
  <2>1. /\ IsInjective(items)
        /\ \A i \in ToSet(items) \cap Listed : Rank(i) < Read
    BY <1>2 DEF PagesIInv, ReadIsNewest, Underway
  <2>2. \A i \in ToSet(items') \cap Listed : Rank(i) < Read + PageSize
    BY <1>3, <1>6, <2>1
  <2>3. ASSUME NEW j \in 1 .. Len(items'), NEW k \in 1 .. Len(items'), items'[j] = items'[k]
        PROVE  j = k
    <3>1. ASSUME NEW a \in 1 .. Len(items), NEW b \in 1 .. Len(w) PROVE items[a] # w[b]
      <4>1. w[b] \in ToSet(w) /\ items[a] \in ToSet(items)
        BY <1>5 DEF ToSet
      <4> QED
        BY <1>3, <1>6, <2>1, <4>1
    <3>2. ASSUME NEW a \in 1 .. Len(w), NEW b \in 1 .. Len(w), w[a] = w[b] PROVE a = b
      BY <1>3, <1>4, <3>2
    <3>3. ASSUME NEW a \in 1 .. Len(items), NEW b \in 1 .. Len(items), items[a] = items[b]
          PROVE  a = b
      BY <1>5, <2>1, <3>3 DEF IsInjective
    <3>4. CASE j <= Len(items) /\ k <= Len(items)
      BY <1>5, <2>3, <3>3, <3>4
    <3>5. CASE j <= Len(items) /\ k > Len(items)
      BY <1>5, <2>3, <3>1, <3>5
    <3>6. CASE j > Len(items) /\ k <= Len(items)
      BY <1>5, <2>3, <3>1, <3>6
    <3>7. CASE j > Len(items) /\ k > Len(items)
      <4>1. j - Len(items) \in 1 .. Len(w) /\ k - Len(items) \in 1 .. Len(w)
            /\ w[j - Len(items)] = w[k - Len(items)]
        BY <1>5, <2>3, <3>7
      <4>2. j - Len(items) = k - Len(items)
        BY <3>2, <4>1
      <4> QED
        BY <1>5, <4>2
    <3> QED
      BY <1>5, <3>4, <3>5, <3>6, <3>7
  <2> QED
    BY <1>5, <2>2, <2>3 DEF IsInjective
<1>10. RestIsOlder'
  <2> SUFFICES ASSUME crossed \cap {"deleted", "between"} = {}
               PROVE  /\ before \subseteq Listed
                      /\ \A i \in before \ ToSet(items') : Rank(i) >= Read + PageSize
                      /\ total <= n
                      /\ Len(items') = IF total < Read + PageSize THEN total ELSE Read + PageSize
                      /\ total <= Read + PageSize => before \subseteq ToSet(items')
    BY <1>2, <1>3 DEF RestIsOlder, NothingLeftOut
  <2>1. /\ before \subseteq Listed
        /\ \A i \in before \ ToSet(items) : Rank(i) >= Read
        /\ Len(items) = Read /\ Read <= n /\ total = n
    BY <1>2 DEF PagesIInv, RestIsOlder, Underway
  <2>2. \A i \in before \ ToSet(items') : Rank(i) >= Read + PageSize
    BY <1>3, <1>4, <1>6, <2>1
  <2>3. n <= Read + PageSize => before \subseteq ToSet(items')
    BY <1>3, <1>4, <2>1, <2>2
  <2> QED
    BY <1>3, <1>4, <1>5, <2>1, <2>2, <2>3
<1> QED
  BY <1>7, <1>8, <1>9, <1>10 DEF PagesIInv

LEMMA LoopKeepsPages == PagesIInv /\ Loop => PagesIInv'
<1> SUFFICES ASSUME PagesIInv, Loop PROVE PagesIInv'
  OBVIOUS
<1>0. /\ PagesTypeOK /\ Cardinality(Listed) \in Nat /\ Read \in Nat /\ total \in Nat
      /\ pages \in Nat /\ pages <= MaxPages /\ MaxPages \in Nat /\ Len(items) \in Nat
      /\ Read' = Read /\ Listed' = Listed /\ \A i : Rank(i)' = Rank(i)
  BY FinitelyMany, ReadGrows, RanksStay, ChorePagesAssumption, FS_CardinalityType
  DEF Loop, Read, PagesIInv, PagesTypeOK
<1>1. PagesTypeOK'
  BY <1>0 DEF Loop, PagesTypeOK, rows
<1>2. PagesInBounds'
  BY <1>0 DEF Loop, GoesOn, PagesInBounds, PagesIInv
<1>3. ReadIsNewest'
  BY <1>0 DEF Loop, GoesOn, ReadIsNewest, Underway, PagesIInv
<1>4. RestIsOlder'
  <2> SUFFICES ASSUME crossed \cap {"deleted", "between"} = {} PROVE RestIsOlder'
    BY DEF Loop, RestIsOlder
  <2>1. /\ before \subseteq Listed
        /\ \A i \in before \ ToSet(items) : Rank(i) >= Read
        /\ total <= Cardinality(Listed)
        /\ Len(items) = IF total < Read THEN total ELSE Read
        /\ total <= Read => before \subseteq ToSet(items)
        /\ UNCHANGED <<items, total, pages, before, crossed>>
    BY DEF Loop, PagesIInv, RestIsOlder, Underway
  <2>2. CASE GoesOn
    <3>1. at' = "asked" /\ Len(items) = Read /\ Read <= Cardinality(Listed)
      BY <1>0, <2>1, <2>2 DEF Loop, GoesOn
    <3> QED
      BY <1>0, <2>1, <3>1 DEF RestIsOlder, NothingLeftOut
  <2>3. CASE ~ GoesOn
    <3>1. before \subseteq ToSet(items) \/ (pages = MaxPages /\ Len(items) < total)
      BY <1>0, <2>1, <2>3 DEF GoesOn
    <3> QED
      BY <2>1, <2>3, <3>1 DEF Loop, RestIsOlder, Underway, NothingLeftOut
  <2> QED
    BY <2>2, <2>3
<1> QED
  BY <1>1, <1>2, <1>3, <1>4 DEF PagesIInv

LEMMA ThrowKeepsPages == PagesIInv /\ Throw => PagesIInv'
<1> SUFFICES ASSUME PagesIInv, Throw PROVE PagesIInv'
  OBVIOUS
<1>0. PagesTypeOK /\ Read' = 0 /\ MaxPages \in Nat /\ 0 <= PageSize * MaxPages
      /\ Cardinality(Instances) \in Nat
  BY ReadGrows, ChorePagesAssumption, FS_CardinalityType DEF Throw, Read, PagesIInv
<1>1. PagesTypeOK'
  BY <1>0 DEF Throw, PagesTypeOK, rows
<1>2. PagesInBounds' /\ ReadIsNewest' /\ RestIsOlder'
  BY <1>0 DEF Throw, PagesInBounds, ReadIsNewest, RestIsOlder, Underway, NothingLeftOut, IsInjective
<1> QED
  BY <1>1, <1>2 DEF PagesIInv

LEMMA CreateKeepsPages ==
    ASSUME PagesIInv, NEW new \in SUBSET Instances, NEW t \in 0 .. LastStamp, Create(new, t)
    PROVE  PagesIInv'
<1>0. PagesTypeOK /\ PagesTypeOK'
  <2>1. PagesTypeOK
    BY DEF PagesIInv
  <2>2. created' \in [Instances -> 0 .. LastStamp]
    BY <2>1 DEF Create, PagesTypeOK
  <2> QED
    BY <2>1, <2>2 DEF Create, PagesTypeOK, Crossed, paging
<1>1. /\ Listed \subseteq Listed' /\ Cardinality(Listed) <= Cardinality(Listed')
      /\ \A i \in Listed : Rank(i) <= Rank(i)'
      /\ Cardinality(Listed) \in Nat /\ Cardinality(Listed') \in Nat
      /\ \A i : Rank(i) \in Nat
      /\ Read' = Read /\ Read \in Nat
  <2>1. Listed' \subseteq Instances
    BY <1>0 DEF Listed, PagesTypeOK
  <2>2. Cardinality(Listed') \in Nat
    BY <2>1, ChorePagesAssumption, FS_Subset, FS_CardinalityType
  <2>3. Read' = Read /\ Read \in Nat
    BY <1>0, ReadGrows DEF Create, paging, Read, PagesTypeOK
  <2> QED
    BY <1>0, <2>2, <2>3, RanksGrow, FinitelyMany
<1>2. /\ UNCHANGED <<at, items, total, pages, before>>
      /\ IF Underway
         THEN "created" \in crossed' /\ crossed \subseteq crossed'
              /\ (at = "counted" => "between" \in crossed')
         ELSE UNCHANGED crossed
  BY <1>0 DEF Create, Crossed, paging, Underway, PagesTypeOK
<1>3. PagesInBounds'
  BY <1>1, <1>2 DEF PagesIInv, PagesInBounds
<1>4. ReadIsNewest'
  BY <1>2 DEF PagesIInv, ReadIsNewest, Underway
<1>5. ASSUME crossed' \cap {"deleted", "between"} = {}
      PROVE  crossed \cap {"deleted", "between"} = {} /\ at # "counted"
  BY <1>2, <1>5 DEF Underway
<1>6. RestIsOlder'
  <2> SUFFICES ASSUME crossed' \cap {"deleted", "between"} = {} PROVE RestIsOlder'
    BY DEF RestIsOlder
  <2>1. /\ Underway => /\ before \subseteq Listed
                        /\ \A i \in before \ ToSet(items) : Rank(i) >= Read
        /\ at = "asked" => Len(items) = Read /\ Read <= Cardinality(Listed)
        /\ at = "answered" => /\ total <= Cardinality(Listed)
                              /\ Len(items) = IF total < Read THEN total ELSE Read
                              /\ total <= Read => before \subseteq ToSet(items)
        /\ at # "counted" /\ NothingLeftOut /\ crossed \cap {"deleted", "between"} = {}
    BY <1>5 DEF PagesIInv, RestIsOlder
  <2>2. total \in Nat
    BY <1>0, ChorePagesAssumption, FS_CardinalityType DEF PagesTypeOK
  <2>3. Underway => /\ before \subseteq Listed'
                    /\ \A i \in before \ ToSet(items) : Rank(i)' >= Read
    <3>1. \A i : Rank(i)' \in Nat
      BY <1>0, FinitelyManyAfter
    <3> QED
      BY <1>1, <2>1, <3>1
  <2>4. NothingLeftOut'
    BY <1>2, <2>1 DEF NothingLeftOut
  <2> QED
    BY <1>1, <1>2, <2>1, <2>2, <2>3, <2>4 DEF RestIsOlder, Underway
<1> QED
  BY <1>0, <1>3, <1>4, <1>6 DEF PagesIInv

LEMMA DeleteKeepsPages ==
    ASSUME PagesIInv, NEW d \in Series, DeleteSeries(d)
    PROVE  PagesIInv'
<1>0. PagesTypeOK /\ PagesTypeOK'
  BY DEF PagesIInv, DeleteSeries, PagesTypeOK, Crossed, paging
<1>1. /\ Listed' \subseteq Listed /\ \A i \in Listed' : Rank(i)' <= Rank(i)
      /\ \A i : Rank(i) \in Nat
      /\ Read' = Read /\ Read \in Nat
  <2>1. Read' = Read /\ Read \in Nat
    BY <1>0, ReadGrows DEF DeleteSeries, paging, Read, PagesTypeOK
  <2> QED
    BY <1>0, <2>1, RanksShrink, FinitelyMany
<1>2. /\ UNCHANGED <<at, items, total, pages, before>>
      /\ IF Underway
         THEN "deleted" \in crossed' /\ crossed \subseteq crossed'
         ELSE UNCHANGED crossed
  BY <1>0 DEF DeleteSeries, Crossed, paging, Underway, PagesTypeOK
<1>3. PagesInBounds'
  BY <1>1, <1>2 DEF PagesIInv, PagesInBounds
<1>4. ReadIsNewest'
  <2> SUFFICES ASSUME "created" \notin crossed'
               PROVE  /\ IsInjective(items')
                      /\ Underway' => \A i \in ToSet(items') \cap Listed' : Rank(i)' < Read'
    BY DEF ReadIsNewest
  <2>1. /\ IsInjective(items)
        /\ Underway => \A i \in ToSet(items) \cap Listed : Rank(i) < Read
    BY <1>2 DEF PagesIInv, ReadIsNewest
  <2>2. \A i : Rank(i)' \in Nat
    BY <1>0, FinitelyManyAfter
  <2> QED
    BY <1>1, <1>2, <2>1, <2>2 DEF Underway
<1>5. RestIsOlder'
  <2>1. CASE Underway
    BY <1>2, <2>1 DEF RestIsOlder
  <2>2. CASE ~ Underway
    BY <1>2, <2>2 DEF PagesIInv, RestIsOlder, Underway, NothingLeftOut
  <2> QED
    BY <2>1, <2>2
<1> QED
  BY <1>0, <1>3, <1>4, <1>5 DEF PagesIInv

LEMMA NextKeepsPages == PagesIInv /\ [PagesNext]_pagesVars => PagesIInv'
<1> SUFFICES ASSUME PagesIInv, [PagesNext]_pagesVars PROVE PagesIInv'
  OBVIOUS
<1>1. CASE UNCHANGED pagesVars
  <2>1. /\ UNCHANGED <<at, items, total, pages, before, crossed>>
        /\ Listed' = Listed /\ \A i : Rank(i)' = Rank(i)
    BY <1>1, RanksStay DEF pagesVars, paging
  <2>2. PagesTypeOK'
    BY <1>1 DEF pagesVars, rows, paging, PagesTypeOK, PagesIInv
  <2> QED
    BY <2>1, <2>2
    DEF PagesIInv, PagesInBounds, ReadIsNewest, RestIsOlder, Underway, NothingLeftOut, Read
<1>2. ASSUME NEW new \in SUBSET Instances, NEW t \in 0 .. LastStamp, Create(new, t)
      PROVE  PagesIInv'
  BY <1>2, CreateKeepsPages
<1>3. ASSUME NEW d \in Series, DeleteSeries(d) PROVE PagesIInv'
  BY <1>3, DeleteKeepsPages
<1> QED
  BY <1>1, <1>2, <1>3, StartKeepsPages, CountKeepsPages, SelectKeepsPages, LoopKeepsPages,
     ThrowKeepsPages
  DEF PagesNext

\* What every reachable state of the pages satisfies.
THEOREM PagesInductive == PagesSpec => []PagesIInv
<1> QED
  BY InitPages, NextKeepsPages, PTL DEF PagesSpec

(***************************************************************************)
(* chores_provider.dart asks for page after page while api/chores.py, whom *)
(* nothing holds, lists what there is by then: every instance that was     *)
(* listed when the fetch began is in its result, up to a deletion, a       *)
(* creation between COUNT and SELECT, and the limit on pages.              *)
(***************************************************************************)
THEOREM PagesLeaveNothingOut == PagesSpec => []NothingLeftOut
<1>1. PagesIInv => NothingLeftOut
  BY DEF PagesIInv, RestIsOlder, NothingLeftOut
<1> QED
  BY <1>1, PagesInductive, PTL

(***************************************************************************)
(* Newest first, and never two rows in the same place (api/chores.py,      *)
(* list_chores): only a creation during the fetch brings a row twice.      *)
(***************************************************************************)
THEOREM PagesRepeatNothing == PagesSpec => []NoRowTwice
<1>1. PagesIInv => NoRowTwice
  BY DEF PagesIInv, ReadIsNewest, NoRowTwice
<1> QED
  BY <1>1, PagesInductive, PTL
-----------------------------------------------------------------------------
(***************************************************************************)
(* The lists of the app: the invariant                                     *)
(***************************************************************************)

Call == [kind : GroceryKinds \cup ChoreKinds, item : Items, text : Texts,
         before : Shown \cup {NoRow}, row : Row \cup {NoRow}]

ListsRows(d) == \A i \in Items : d[i].copies > 0 => d[i].row \in Row

\* A tick has what to go back to until it is answered; an executed call has
\* the row it was answered with.
CallTyped(c) ==
    IF stage[c] = "free" THEN op[c] = NoOp
    ELSE /\ op[c] \in Call
         /\ op[c].kind \in Ticks => op[c].row \in Row
         /\ op[c].kind \in Ticks /\ stage[c] # "answered" =>
              op[c].before \in Shown /\ ListsRows(op[c].before)
         /\ stage[c] \in {"open", "answered", "stored"} =>
              (op[c].row = NoRow <=> op[c].kind \in Removes)
         /\ op[c].kind = "create" => stage[c] \notin {"open", "answered"}

ListsTyped ==
    /\ list \in {"groceries", "chores"}
    /\ stored \in Rows /\ unborn \subseteq Items
    /\ shown \in Shown /\ ListsRows(shown) /\ failed \in BOOLEAN
    /\ op \in [Calls -> Call \cup {NoOp}] /\ stage \in [Calls -> Stages]
    /\ \A c \in Calls : CallTyped(c)
    /\ fetch \in [at : {"none", "asked", "served"}, rows : Rows \cup {NoRow},
                  clean : BOOLEAN]
    /\ fetch.at = "served" => fetch.rows \in Rows
    /\ writes \in 0 .. MaxWrites /\ foreign \in 0 .. MaxForeign
    /\ since \in [Calls -> SUBSET {"fetch", "other"}]
    /\ troubles \subseteq
         {"foreign", "lost", "staleFetch", "sameRow", "revertedOver", "addedOver"}

\* Of an id that is still to be given nobody knows anything.
IdsAreFresh ==
    \A i \in unborn :
        /\ stored[i] = NoRow /\ shown[i].copies = 0
        /\ fetch.at = "served" => fetch.rows[i] = NoRow
        /\ \A c \in Calls : stage[c] # "free" =>
             /\ op[c].item # i
             /\ op[c].kind \in Ticks /\ stage[c] # "answered" => op[c].before[i].copies = 0

\* d is what is shown, but for the tick of i.
Unticked(d, i) ==
    /\ d[i].copies > 0
    /\ \A j \in Items : /\ d[j].copies = shown[j].copies
                        /\ j # i => d[j] = shown[j]

\* A tick that nothing has joined goes back to what is shown but for the tick.
LoneTickIsUndone ==
    \A c \in Calls :
        /\ stage[c] \in {"sent", "open", "stored", "refused"}
        /\ op[c].kind \in Ticks /\ since[c] = {}
        => Unticked(op[c].before, op[c].item)

\* An error is shown in place of the list, and nothing can be ticked in it.
ErrorInstead ==
    failed => /\ \A i \in Items : shown[i].copies = 0
              /\ \A c \in Calls :
                   /\ stage[c] \in {"sent", "open", "stored", "refused"}
                   /\ op[c].kind \in Ticks
                   => since[c] # {}

\* An undisturbed fetch brings what is stored, and nothing else is under way.
CleanFetchIsStored ==
    fetch.clean => /\ fetch.at = "served" /\ fetch.rows = stored
                   /\ \A c \in Calls : stage[c] = "free"

AddsApart ==
    \A b, c \in Calls :
        /\ stage[b] # "free" /\ op[b].kind = "add"
        /\ stage[c] # "free" /\ op[c].kind = "add"
        /\ op[b].item = op[c].item
        => b = c

\* A row that is being added is not listed yet, unless a fetch has come between.
AddedOnce ==
    {"addedOver", "revertedOver"} \cap troubles = {} =>
        /\ \A i \in Items : shown[i].copies <= 1
        /\ \A c \in Calls :
             /\ stage[c] \in {"sent", "open", "stored", "refused"}
             /\ op[c].kind = "add" /\ "fetch" \notin since[c]
             => shown[op[c].item].copies = 0

Matches(d, i) ==
    /\ d[i].copies > 0 <=> stored[i] # NoRow
    /\ d[i].copies > 0 => d[i].row = stored[i]

\* How far the server is with a call.
ServedRight(c) ==
    LET i == op[c].item
    IN  /\ stage[c] = "stored" => stored[i] = op[c].row
        /\ stage[c] = "open" /\ op[c].kind \in Ticks \cup Edits => stored[i] # NoRow
        /\ stage[c] = "answered" => fetch.at # "served"
        /\ stage[c] = "answered" /\ op[c].kind \in Refetches =>
             fetch.at = "asked" \/ failed

\* What a fetch has been served of the row of a call.
FetchedRight(c) ==
    LET i == op[c].item
    IN  /\ stage[c] \in {"sent", "refused", "open"} => fetch.rows[i] = stored[i]
        /\ stage[c] = "stored" /\ op[c].kind \in Ticks \cup Edits =>
             fetch.rows[i] # NoRow

\* What is shown of the row of a call when no fetch is going to replace it and
\* none has failed.
ShownRight(c) ==
    LET i == op[c].item
    IN  /\ stage[c] \in {"sent", "refused"} =>
             IF op[c].kind \in Ticks THEN since[c] = {} => Matches(op[c].before, i)
                                           ELSE Matches(shown, i)
        /\ stage[c] = "sent" => (shown[i].copies > 0 <=> stored[i] # NoRow)
        /\ stage[c] \in {"open", "stored"} /\ op[c].kind \in Ticks \cup Edits =>
             shown[i].copies > 0
        /\ stage[c] = "answered" => /\ shown[i].copies > 0 <=> op[c].row # NoRow
                                    /\ shown[i].copies > 0 => shown[i].row = op[c].row

Alone(i) == \A c \in Calls : stage[c] # "free" => op[c].item # i

Orderly == troubles \subseteq {"addedOver"}

OneCallPerRow ==
    \A b, c \in Calls : stage[b] # "free" /\ stage[c] # "free" /\ op[b].item = op[c].item => b = c

ServerInOrder == \A c \in Calls : stage[c] # "free" => ServedRight(c)

FetchInOrder ==
    fetch.at = "served" =>
        /\ \A i \in Items : Alone(i) => fetch.rows[i] = stored[i]
        /\ \A c \in Calls : stage[c] # "free" => FetchedRight(c)

ShownInOrder ==
    fetch.at = "none" /\ ~ failed =>
        /\ \A i \in Items : Alone(i) => Matches(shown, i)
        /\ \A c \in Calls : stage[c] # "free" => ShownRight(c)

InOrder == Orderly => OneCallPerRow /\ ServerInOrder /\ FetchInOrder /\ ShownInOrder

ListsIInv ==
    /\ ListsTyped
    /\ IdsAreFresh
    /\ LoneTickIsUndone
    /\ CleanFetchIsStored
    /\ AddsApart
    /\ AddedOnce
    /\ ErrorInstead
    /\ InOrder
-----------------------------------------------------------------------------
(* What the actions do *)

LEMMA DisplayIsTyped ==
    ASSUME NEW r \in Rows
    PROVE  /\ Display(r) \in Shown /\ ListsRows(Display(r))
           /\ \A i \in Items : /\ Display(r)[i].copies = IF r[i] = NoRow THEN 0 ELSE 1
                               /\ Display(r)[i].row = r[i]
  BY DEF Display, Shown, Rows, ListsRows

LEMMA TickedIsTyped ==
    ASSUME ListsTyped, NEW i \in Items, OnScreen(i)
    PROVE  /\ Ticked(i) \in Shown /\ ListsRows(Ticked(i))
           /\ \A j \in Items : /\ Ticked(i)[j].copies = shown[j].copies
                               /\ j # i => Ticked(i)[j] = shown[j]
<1>1. /\ shown \in Shown /\ ListsRows(shown) /\ shown[i].row \in Row
  BY DEF ListsTyped, ListsRows, OnScreen
<1> DEFINE r == [shown[i].row EXCEPT !.done = ~ shown[i].row.done]
<1>2. r \in Row
  BY <1>1 DEF Row
<1>3. /\ Ticked(i) = [shown EXCEPT ![i] = [shown[i] EXCEPT !.row = r]]
      /\ shown[i] \in [copies : 0 .. 2, row : Row \cup {NoRow}]
  BY <1>1 DEF Ticked, Shown
<1> HIDE DEF r
<1>4. /\ [shown[i] EXCEPT !.row = r] \in [copies : 0 .. 2, row : Row \cup {NoRow}]
      /\ [shown[i] EXCEPT !.row = r].copies = shown[i].copies
      /\ [shown[i] EXCEPT !.row = r].row = r
  BY <1>2, <1>3
<1> QED
  BY <1>1, <1>2, <1>3, <1>4 DEF Shown, ListsRows

\* The handler's row.
LEMMA NewRowIsTyped ==
    ASSUME ListsTyped, NEW c \in Calls, stage[c] = "sent", ~ Refused(c)
    PROVE  /\ NewRow(c) \in Row \cup {NoRow}
           /\ NewRow(c) = NoRow <=> op[c].kind \in Removes
           /\ op[c].kind \in Ticks \cup Edits => stored[op[c].item] # NoRow
<1>1. /\ op[c] \in Call /\ stored \in Rows
      /\ op[c].kind \in Ticks => op[c].row \in Row
  BY DEF ListsTyped, CallTyped
<1>2. /\ op[c].kind \in GroceryKinds \cup ChoreKinds
      /\ stored[op[c].item] \in Row \cup {NoRow} /\ op[c].text \in Texts
  BY <1>1 DEF Call, Rows
<1>3. op[c].kind \in Ticks \cup Edits =>
        stored[op[c].item] # NoRow /\ stored[op[c].item] \in Row
  BY <1>2 DEF Refused, Ticks, Edits
<1>4. CASE op[c].kind \in {"toggle", "close"}
  <2>1. /\ stored[op[c].item] \in Row /\ op[c].row \in Row
        /\ NewRow(c) = IF op[c].kind = "toggle"
             THEN [stored[op[c].item] EXCEPT !.done = ~ op[c].row.done]
             ELSE [stored[op[c].item] EXCEPT !.done = TRUE]
    BY <1>1, <1>3, <1>4 DEF NewRow, Ticks, Edits, Removes
  <2>2. NewRow(c) \in Row
    BY <2>1 DEF Row
  <2> QED
    BY <1>3, <1>4, <2>2, ClientListsAssumption DEF Removes
<1>5. CASE op[c].kind \in Edits
  <2>1. NewRow(c) = [stored[op[c].item] EXCEPT !.text = op[c].text]
    BY <1>5 DEF NewRow, Edits, Removes
  <2>2. NewRow(c) \in Row
    BY <1>2, <1>3, <1>5, <2>1 DEF Row
  <2> QED
    BY <1>3, <1>5, <2>2, ClientListsAssumption DEF Removes, Edits
<1>6. CASE op[c].kind \in {"add", "create"}
  <2>1. NewRow(c) = [done |-> FALSE, text |-> op[c].text]
    BY <1>6 DEF NewRow, Edits, Removes
  <2>2. NewRow(c) \in Row
    BY <1>2, <2>1 DEF Row
  <2> QED
    BY <1>3, <1>6, <2>2, ClientListsAssumption DEF Removes, Edits, Ticks
<1>7. CASE op[c].kind \in Removes
  BY <1>7 DEF NewRow, Edits, Removes, Ticks
<1> QED
  BY <1>2, <1>4, <1>5, <1>6, <1>7
  DEF GroceryKinds, ChoreKinds, Edits, Removes

LEMMA GotoEffect ==
    ASSUME stage \in [Calls -> Stages], NEW c \in Calls, NEW s \in Stages,
           Goto(c, s)
    PROVE  /\ stage' \in [Calls -> Stages] /\ stage'[c] = s
           /\ \A b \in Calls \ {c} : stage'[b] = stage[b]
  BY DEF Goto

LEMMA FreeEffect ==
    ASSUME ListsTyped, NEW c \in Calls, Free(c)
    PROVE  /\ stage' \in [Calls -> Stages] /\ stage'[c] = "free"
           /\ op' \in [Calls -> Call \cup {NoOp}] /\ op'[c] = NoOp
           /\ \A b \in Calls \ {c} : stage'[b] = stage[b] /\ op'[b] = op[b]
<1>1. "free" \in Stages
  BY DEF Stages
<1> QED
  BY <1>1, GotoEffect DEF ListsTyped, Free

LEMMA AnsweredEffect ==
    ASSUME ListsTyped, NEW c \in Calls, Answered(c), stage[c] # "free"
    PROVE  /\ stage' \in [Calls -> Stages]
           /\ op' \in [Calls -> Call \cup {NoOp}]
           /\ \A b \in Calls \ {c} : stage'[b] = stage[b] /\ op'[b] = op[b]
           /\ IF stage[c] = "open"
              THEN /\ stage'[c] = "answered" /\ op'[c] \in Call
                   /\ op'[c].kind = op[c].kind /\ op'[c].item = op[c].item
                   /\ op'[c].row = op[c].row
              ELSE stage'[c] = "free" /\ op'[c] = NoOp
<1>1. /\ "answered" \in Stages /\ stage \in [Calls -> Stages]
      /\ op \in [Calls -> Call \cup {NoOp}] /\ op[c] \in Call
  BY DEF Stages, ListsTyped, CallTyped
<1>2. CASE stage[c] = "open"
  <2> DEFINE o == [op[c] EXCEPT !.before = NoRow]
  <2>1. /\ o \in Call /\ o.kind = op[c].kind /\ o.item = op[c].item /\ o.row = op[c].row
    BY <1>1 DEF Call
  <2>2. op' = [op EXCEPT ![c] = o] /\ Goto(c, "answered")
    BY <1>2 DEF Answered
  <2> HIDE DEF o
  <2> QED
    BY <1>1, <1>2, <2>1, <2>2, GotoEffect
<1>3. CASE stage[c] # "open"
  BY <1>3, FreeEffect DEF Answered
<1> QED
  BY <1>2, <1>3

-----------------------------------------------------------------------------
(* The steps of the lists *)

LEMMA InitLists == ListsInit => ListsIInv
<1> SUFFICES ASSUME ListsInit PROVE ListsIInv
  OBVIOUS
<1>1. PICK grown \in SUBSET Items, t \in Texts :
        /\ unborn = Items \ grown
        /\ stored = [i \in Items |-> IF i \in grown THEN [done |-> FALSE, text |-> t] ELSE NoRow]
  BY DEF ListsInit
<1>2. /\ [done |-> FALSE, text |-> t] \in Row /\ NoRow \notin Row
      /\ [done |-> FALSE, text |-> t] # NoRow
  <2>1. [done |-> FALSE, text |-> t] \in Row
    BY DEF Row
  <2> QED
    BY <2>1, ClientListsAssumption
<1>3. stored \in Rows /\ \A i \in unborn : stored[i] = NoRow
  BY <1>1, <1>2 DEF Rows
<1>4. /\ shown \in Shown /\ ListsRows(shown)
      /\ \A i \in Items : /\ shown[i].copies = IF stored[i] = NoRow THEN 0 ELSE 1
                          /\ shown[i].row = stored[i]
  BY <1>3, DisplayIsTyped DEF ListsInit
<1>5. /\ list \in {"groceries", "chores"} /\ unborn \subseteq Items
      /\ op \in [Calls -> Call \cup {NoOp}] /\ stage \in [Calls -> Stages]
      /\ \A c \in Calls : stage[c] = "free" /\ op[c] = NoOp /\ since[c] = {}
      /\ since \in [Calls -> SUBSET {"fetch", "other"}]
      /\ fetch.at = "none" /\ fetch.clean = FALSE /\ fetch.rows = NoRow /\ failed = FALSE
      /\ fetch \in [at : {"none", "asked", "served"}, rows : Rows \cup {NoRow},
                    clean : BOOLEAN]
      /\ troubles = {}
      /\ writes \in 0 .. MaxWrites /\ foreign \in 0 .. MaxForeign
  BY <1>1, ClientListsAssumption DEF ListsInit, Stages, NoFetch
<1>6. ListsTyped
  BY <1>3, <1>4, <1>5 DEF ListsTyped, CallTyped
<1>7. /\ IdsAreFresh /\ LoneTickIsUndone /\ CleanFetchIsStored /\ AddsApart /\ AddedOnce
      /\ ErrorInstead
  BY <1>3, <1>4, <1>5
  DEF IdsAreFresh, LoneTickIsUndone, CleanFetchIsStored, AddsApart, AddedOnce, ErrorInstead
<1>8. InOrder
  BY <1>4, <1>5
  DEF InOrder, OneCallPerRow, ServerInOrder, FetchInOrder, ShownInOrder, Matches
<1> QED
  BY <1>6, <1>7, <1>8 DEF ListsIInv

\* A tap, or a row that is added.
LEMMA SendKeepsLists ==
    ASSUME ListsIInv, NEW c \in Calls,
           NEW kind \in GroceryKinds \cup ChoreKinds,
           NEW i \in Items, NEW t \in Texts, Send(c, kind, i, t),
           \/ /\ OnScreen(i) /\ kind \notin {"add", "create"} /\ unborn' = unborn
           \/ /\ i \in unborn /\ kind \in {"add", "create"} /\ unborn' = unborn \ {i}
    PROVE  ListsIInv'
<1>0. ListsTyped
  BY DEF ListsIInv
<1> DEFINE tick == kind \in Ticks
           o == [kind |-> kind, item |-> i, text |-> t,
                 before |-> IF tick THEN shown ELSE NoRow,
                 row    |-> IF tick THEN shown[i].row ELSE NoRow]
<1>1. /\ stage[c] = "free" /\ stage' \in [Calls -> Stages] /\ stage'[c] = "sent"
      /\ op' \in [Calls -> Call \cup {NoOp}] /\ op'[c] = o /\ o \in Call
      /\ tick => o.row \in Row
      /\ \A b \in Calls \ {c} : stage'[b] = stage[b] /\ op'[b] = op[b]
      /\ UNCHANGED <<list, stored, failed, foreign>>
      /\ writes' \in 0 .. MaxWrites
  <2>1. "sent" \in Stages /\ stage \in [Calls -> Stages] /\ writes \in Nat
        /\ MaxWrites \in Nat
    BY <1>0, ClientListsAssumption DEF Stages, ListsTyped
  <2>2. tick => OnScreen(i)
    BY DEF Ticks
  <2>3. shown \in Shown /\ (tick => shown[i].row \in Row)
    BY <1>0, <2>2 DEF ListsTyped, ListsRows, OnScreen
  <2>4. o \in Call
    BY <2>3 DEF Call
  <2>5. op' = [op EXCEPT ![c] = o] /\ op \in [Calls -> Call \cup {NoOp}]
    BY <1>0 DEF Send, ListsTyped
  <2>6. Goto(c, "sent") /\ stage[c] = "free" /\ writes < MaxWrites /\ writes' = writes + 1
        /\ UNCHANGED <<list, stored, failed, foreign>>
    BY DEF Send
  <2> HIDE DEF o
  <2>7. op' \in [Calls -> Call \cup {NoOp}] /\ op'[c] = o
        /\ \A b \in Calls \ {c} : op'[b] = op[b]
    BY <2>4, <2>5
  <2>8. writes' \in 0 .. MaxWrites
    BY <2>1, <2>6
  <2>9. tick => o.row \in Row
    BY <2>3 DEF o
  <2> QED
    BY <2>1, <2>4, <2>6, <2>7, <2>8, <2>9, GotoEffect
<1>2. /\ o.kind = kind /\ o.item = i
      /\ tick => o.before = shown
  OBVIOUS
<1> HIDE DEF o
<1>3. /\ shown' \in Shown /\ ListsRows(shown')
      /\ \A j \in Items : /\ shown'[j].copies = shown[j].copies
                          /\ j # i \/ ~ tick => shown'[j] = shown[j]
      /\ tick => shown[i].copies > 0 /\ ~ failed
  <2>1. CASE tick
    <3>1. OnScreen(i)
      BY <2>1 DEF Ticks
    <3>2. shown' = Ticked(i)
      BY <2>1 DEF Send
    <3>3. ~ failed
      BY <3>1 DEF ListsIInv, ErrorInstead, OnScreen
    <3> QED
      BY <1>0, <2>1, <3>1, <3>2, <3>3, TickedIsTyped DEF OnScreen
  <2>2. CASE ~ tick
    BY <1>0, <2>2 DEF Send, ListsTyped
  <2> QED
    BY <2>1, <2>2
<1>4. /\ fetch'.at = fetch.at /\ fetch'.rows = fetch.rows /\ fetch'.clean = FALSE
      /\ fetch' \in [at : {"none", "asked", "served"}, rows : Rows \cup {NoRow},
                     clean : BOOLEAN]
  BY <1>0 DEF Send, ListsTyped
<1>5. /\ since' \in [Calls -> SUBSET {"fetch", "other"}] /\ since'[c] = {}
      /\ \A b \in Calls \ {c} :
           stage[b] \in {"sent", "open", "stored", "refused"} => since'[b] = since[b] \cup {"other"}
  BY <1>0 DEF Send, ListsTyped, Unanswered
<1>6. /\ troubles \subseteq troubles' /\ troubles' \subseteq troubles \cup {"sameRow"}
      /\ (\E b \in Calls : stage[b] # "free" /\ op[b].item = i) => "sameRow" \in troubles'
  BY DEF Send, InFlight
<1>7. \A b \in Calls : stage'[b] # "free" => stage[b] # "free" \/ b = c
  BY <1>1
<1>8. ListsTyped'
  <2>1. \A b \in Calls : CallTyped(b)'
    <3>1. CallTyped(c)'
      BY <1>0, <1>1, <1>2 DEF CallTyped, ListsTyped
    <3>2. ASSUME NEW b \in Calls \ {c} PROVE CallTyped(b)'
      BY <1>0, <1>1 DEF CallTyped, ListsTyped
    <3> QED
      BY <3>1, <3>2
  <2> QED
    BY <1>0, <1>1, <1>3, <1>4, <1>5, <1>6, <2>1 DEF ListsTyped
<1>9. i \notin unborn'
  BY DEF ListsIInv, IdsAreFresh, OnScreen
<1>10. IdsAreFresh'
  BY <1>0, <1>1, <1>2, <1>3, <1>4, <1>9 DEF ListsIInv, ListsTyped, IdsAreFresh
<1>11. LoneTickIsUndone'
  <2>1. ASSUME NEW b \in Calls, stage'[b] \in {"sent", "open", "stored", "refused"},
               op'[b].kind \in Ticks, since'[b] = {}
        PROVE  b = c
    BY <1>1, <1>5, <2>1
  <2>2. tick => Unticked(op[c].before, i)'
    BY <1>1, <1>2, <1>3 DEF Unticked
  <2> QED
    BY <1>1, <1>2, <2>1, <2>2 DEF LoneTickIsUndone, Unticked
<1>12. CleanFetchIsStored'
  BY <1>4 DEF CleanFetchIsStored
<1>13. AddsApart'
  <2>1. ASSUME NEW b \in Calls, stage[b] # "free", kind = "add" PROVE op[b].item # i
    BY <2>1 DEF ListsIInv, IdsAreFresh
  <2> QED
    BY <1>1, <1>2, <2>1 DEF ListsIInv, AddsApart
<1>14. AddedOnce'
  <2>1. kind = "add" => shown[i].copies = 0
    BY DEF ListsIInv, IdsAreFresh
  <2> QED
    BY <1>1, <1>2, <1>3, <1>5, <1>6, <2>1 DEF ListsIInv, AddedOnce, ListsTyped, CallTyped, Call
<1>15. ErrorInstead'
  BY <1>1, <1>2, <1>3, <1>5 DEF ListsIInv, ErrorInstead
<1>16. InOrder'
  <2> SUFFICES ASSUME Orderly'
               PROVE  (OneCallPerRow /\ ServerInOrder /\ FetchInOrder /\ ShownInOrder)'
    BY DEF InOrder
  <2>1. /\ Orderly /\ OneCallPerRow /\ ServerInOrder /\ FetchInOrder /\ ShownInOrder
        /\ Alone(i)
    BY <1>6 DEF Orderly, ListsIInv, InOrder, Alone
  <2>2. ASSUME NEW b \in Calls \ {c}, stage[b] # "free" PROVE op[b].item # i /\ op[b].item \in Items
    BY <1>0, <2>1, <2>2 DEF Alone, ListsTyped, CallTyped, Call
  <2>3. OneCallPerRow'
    BY <1>1, <1>2, <2>1, <2>2 DEF OneCallPerRow
  <2>4. ServerInOrder'
    BY <1>1, <1>2, <1>4, <2>1 DEF ServerInOrder, ServedRight
  <2>5. ASSUME NEW j \in Items, Alone(j)' PROVE Alone(j) /\ j # i
    BY <1>1, <1>2, <2>5 DEF Alone
  <2>6. FetchInOrder'
    BY <1>1, <1>2, <1>4, <2>1, <2>5 DEF FetchInOrder, FetchedRight
  <2>7. ASSUME fetch.at = "none", ~ failed, NEW b \in Calls, stage'[b] # "free" PROVE ShownRight(b)'
    <3>1. CASE b = c
      <4>1. Matches(shown, i)
        BY <2>1, <2>7 DEF ShownInOrder
      <4> QED
        BY <1>1, <1>2, <1>3, <3>1, <4>1 DEF ShownRight, Matches
    <3>2. CASE b # c
      <4>1. ShownRight(b) /\ op[b].item # i /\ op[b].item \in Items
        BY <1>1, <2>1, <2>2, <2>7, <3>2 DEF ShownInOrder
      <4>2. shown'[op[b].item] = shown[op[b].item]
        BY <1>3, <4>1
      <4>3. stage[b] \in {"sent", "refused"} => since'[b] # {}
        BY <1>5, <3>2
      <4> QED
        BY <1>1, <3>2, <4>1, <4>2, <4>3 DEF ShownRight, Matches
    <3> QED
      BY <3>1, <3>2
  <2>8. ShownInOrder'
    BY <1>1, <1>3, <1>4, <2>1, <2>5, <2>7 DEF ShownInOrder, Matches
  <2> QED
    BY <2>3, <2>4, <2>6, <2>8
<1> QED
  BY <1>0, <1>8, <1>10, <1>11, <1>12, <1>13, <1>14, <1>15, <1>16
  DEF ListsIInv

\* The handler, and what it leaves to COMMIT.
LEMMA ServeKeepsLists ==
    ASSUME ListsIInv, NEW c \in Calls, Serve(c)
    PROVE  ListsIInv'
<1>0. ListsTyped
  BY DEF ListsIInv
<1> DEFINE i == op[c].item
<1>1. /\ stage[c] = "sent" /\ CallTyped(c) /\ op[c] \in Call /\ i \in Items
      /\ UNCHANGED <<list, unborn, shown, failed, fetch, writes, foreign, since, troubles>>
  BY <1>0 DEF Serve, client, counts, ListsTyped, CallTyped, Call
<1>2. CASE Refused(c)
  <2>1. /\ stage' \in [Calls -> Stages] /\ stage'[c] = "refused"
        /\ \A b \in Calls \ {c} : stage'[b] = stage[b]
        /\ UNCHANGED <<op, stored>>
    <3>1. Goto(c, "refused") /\ UNCHANGED <<op, stored>> /\ "refused" \in Stages
      BY <1>2 DEF Serve, Stages
    <3> QED
      BY <1>0, <3>1, GotoEffect DEF ListsTyped
  <2>2. ListsTyped'
    BY <1>0, <1>1, <2>1 DEF ListsTyped, CallTyped
  <2>3. /\ IdsAreFresh' /\ LoneTickIsUndone' /\ CleanFetchIsStored' /\ AddsApart' /\ AddedOnce'
        /\ ErrorInstead'
    BY <1>1, <2>1
    DEF ListsIInv, IdsAreFresh, LoneTickIsUndone, Unticked, CleanFetchIsStored, AddsApart,
        AddedOnce, ErrorInstead
  <2>4. InOrder'
    <3> SUFFICES ASSUME Orderly'
                 PROVE  (OneCallPerRow /\ ServerInOrder /\ FetchInOrder /\ ShownInOrder)'
      BY DEF InOrder
    <3>1. OneCallPerRow /\ ServerInOrder /\ FetchInOrder /\ ShownInOrder
      BY <1>1 DEF Orderly, ListsIInv, InOrder
    <3>2. OneCallPerRow' /\ \A j : Alone(j)' => Alone(j)
      BY <1>1, <2>1, <3>1 DEF OneCallPerRow, Alone
    <3>3. ServerInOrder'
      BY <1>1, <2>1, <3>1 DEF ServerInOrder, ServedRight
    <3>4. FetchInOrder'
      BY <1>1, <2>1, <3>1, <3>2 DEF FetchInOrder, FetchedRight
    <3>5. ShownInOrder'
      BY <1>1, <2>1, <3>1, <3>2 DEF ShownInOrder, ShownRight, Matches
    <3> QED
      BY <3>2, <3>3, <3>4, <3>5
  <2> QED
    BY <1>0, <2>2, <2>3, <2>4 DEF ListsIInv
<1>3. CASE ~ Refused(c)
  <2> DEFINE r == NewRow(c)
             o == [op[c] EXCEPT !.row = r]
  <2>1. /\ r \in Row \cup {NoRow}
        /\ r = NoRow <=> op[c].kind \in Removes
        /\ op[c].kind \in Ticks \cup Edits => stored[i] # NoRow
    BY <1>0, <1>1, <1>3, NewRowIsTyped
  <2>2. o \in Call /\ o.kind = op[c].kind /\ o.item = i /\ o.before = op[c].before /\ o.row = r
    BY <1>1, <2>1 DEF Call
  <2>3. /\ op' = [op EXCEPT ![c] = o]
        /\ IF op[c].kind = "create"
           THEN Goto(c, "stored") /\ stored' = [stored EXCEPT ![i] = r]
           ELSE Goto(c, "open") /\ UNCHANGED stored
        /\ \A b \in Calls : stage[b] \in {"open", "answered"} => op[b].item # i
    BY <1>3 DEF Serve
  <2> HIDE DEF r, o
  <2>4. /\ op' \in [Calls -> Call \cup {NoOp}] /\ op'[c] = o
        /\ \A b \in Calls \ {c} : op'[b] = op[b] /\ stage'[b] = stage[b]
        /\ stage' \in [Calls -> Stages]
        /\ stage'[c] = IF op[c].kind = "create" THEN "stored" ELSE "open"
        /\ stored' = IF op[c].kind = "create" THEN [stored EXCEPT ![i] = r] ELSE stored
    <3>1. "open" \in Stages /\ "stored" \in Stages
      BY DEF Stages
    <3> QED
      BY <1>0, <2>2, <2>3, <3>1, GotoEffect DEF ListsTyped
  <2>5. stored' \in Rows /\ \A j \in Items : j # i => stored'[j] = stored[j]
    BY <1>0, <1>1, <2>1, <2>4 DEF ListsTyped, Rows
  <2>6. op[c].kind = "create" => stored'[i] = r /\ r # NoRow
    BY <1>0, <1>1, <2>1, <2>4 DEF ListsTyped, Rows, Removes
  <2>7. ListsTyped'
    <3>1. \A b \in Calls : CallTyped(b)'
      <4>1. CallTyped(c)'
        BY <1>1, <2>1, <2>2, <2>4 DEF CallTyped, Ticks, Removes
      <4> QED
        BY <1>0, <2>4, <4>1 DEF CallTyped, ListsTyped
    <3> QED
      BY <1>0, <1>1, <2>4, <2>5, <3>1 DEF ListsTyped
  <2>8. IdsAreFresh'
    BY <1>0, <1>1, <2>2, <2>4, <2>5 DEF ListsIInv, IdsAreFresh, ListsTyped
  <2>9. LoneTickIsUndone'
    BY <1>1, <2>2, <2>4 DEF ListsIInv, LoneTickIsUndone, Unticked
  <2>10. CleanFetchIsStored'
    BY <1>1 DEF ListsIInv, CleanFetchIsStored
  <2>11. AddsApart' /\ AddedOnce' /\ ErrorInstead'
    BY <1>1, <2>2, <2>4 DEF ListsIInv, AddsApart, AddedOnce, ErrorInstead
  <2>12. InOrder'
    <3> SUFFICES ASSUME Orderly'
                 PROVE  (OneCallPerRow /\ ServerInOrder /\ FetchInOrder /\ ShownInOrder)'
      BY DEF InOrder
    <3>1. OneCallPerRow /\ ServerInOrder /\ FetchInOrder /\ ShownInOrder
      BY <1>1 DEF Orderly, ListsIInv, InOrder
    <3>2. OneCallPerRow' /\ \A j : Alone(j)' => Alone(j) /\ j # i
      BY <1>1, <2>2, <2>4, <3>1 DEF OneCallPerRow, Alone
    <3>3. ASSUME NEW b \in Calls \ {c}, stage[b] # "free"
          PROVE  op[b].item # i /\ op[b].item \in Items /\ stored'[op[b].item] = stored[op[b].item]
      BY <1>0, <1>1, <2>5, <3>1, <3>3 DEF OneCallPerRow, ListsTyped, CallTyped, Call
    <3>4. ServerInOrder'
      <4>1. ASSUME NEW b \in Calls \ {c}, stage[b] # "free" PROVE ServedRight(b)'
        BY <1>1, <2>4, <3>1, <3>3, <4>1 DEF ServerInOrder, ServedRight
      <4>2. ServedRight(c)'
        BY <1>1, <2>1, <2>2, <2>4, <2>6 DEF ServedRight
      <4> QED
        BY <2>4, <4>1, <4>2 DEF ServerInOrder
    <3>5. FetchInOrder'
      <4> SUFFICES ASSUME fetch.at = "served" PROVE FetchInOrder'
        BY <1>1 DEF FetchInOrder
      <4>1. ASSUME NEW b \in Calls \ {c}, stage[b] # "free" PROVE FetchedRight(b)'
        BY <1>1, <2>4, <3>1, <3>3, <4>1 DEF FetchInOrder, FetchedRight
      <4>2. FetchedRight(c)'
        BY <1>1, <2>2, <2>4, <3>1
        DEF FetchInOrder, FetchedRight, Ticks, Edits
      <4> QED
        BY <1>1, <2>4, <2>5, <3>1, <3>2, <4>1, <4>2 DEF FetchInOrder
    <3>6. ShownInOrder'
      <4> SUFFICES ASSUME fetch.at = "none", ~ failed PROVE ShownInOrder'
        BY <1>1 DEF ShownInOrder
      <4>1. ASSUME NEW b \in Calls \ {c}, stage[b] # "free" PROVE ShownRight(b)'
        BY <1>1, <2>4, <3>1, <3>3, <4>1 DEF ShownInOrder, ShownRight, Matches
      <4>2. ShownRight(c)'
        BY <1>1, <2>1, <2>2, <2>4, <3>1
        DEF ShownInOrder, ShownRight, Ticks, Edits
      <4> QED
        BY <1>1, <2>4, <2>5, <3>1, <3>2, <4>1, <4>2 DEF ShownInOrder, Matches
    <3> QED
      BY <3>2, <3>4, <3>5, <3>6
  <2> QED
    BY <1>0, <2>7, <2>8, <2>9, <2>10, <2>11, <2>12
    DEF ListsIInv
<1> QED
  BY <1>2, <1>3

\* COMMIT, done or failed.
LEMMA CommitKeepsLists ==
    ASSUME ListsIInv, NEW c \in Calls, Commit(c) \/ CommitFails(c)
    PROVE  ListsIInv'
<1>0. ListsTyped
  BY DEF ListsIInv
<1> DEFINE i == op[c].item
<1>1. /\ stage[c] \in {"open", "answered"} /\ CallTyped(c) /\ op[c] \in Call /\ i \in Items
      /\ op[c].row \in Row \cup {NoRow}
      /\ UNCHANGED <<list, unborn, shown, failed, fetch, writes, foreign, since>>
      /\ \/ troubles' = troubles /\ stored' = [stored EXCEPT ![i] = op[c].row]
         \/ troubles' = troubles \cup {"lost"} /\ stored' = stored
  BY <1>0
  DEF Commit, CommitFails, client, counts, ListsTyped, CallTyped, Call
<1>2. /\ op' \in [Calls -> Call \cup {NoOp}] /\ stage' \in [Calls -> Stages]
      /\ \A b \in Calls \ {c} : op'[b] = op[b] /\ stage'[b] = stage[b]
      /\ IF stage[c] = "open" THEN stage'[c] = "stored" /\ op'[c] = op[c]
                              ELSE stage'[c] = "free" /\ op'[c] = NoOp
  <2>1. IF stage[c] = "open" THEN Goto(c, "stored") /\ UNCHANGED op ELSE Free(c)
    BY DEF Commit, CommitFails
  <2>2. "stored" \in Stages
    BY DEF Stages
  <2> QED
    BY <1>0, <2>1, <2>2, GotoEffect, FreeEffect DEF ListsTyped
<1>3. stored' \in Rows /\ \A j \in Items : j # i => stored'[j] = stored[j]
  BY <1>0, <1>1 DEF ListsTyped, Rows
<1>4. ListsTyped'
  <2>1. \A b \in Calls : CallTyped(b)'
    BY <1>0, <1>1, <1>2 DEF CallTyped, ListsTyped
  <2> QED
    BY <1>0, <1>1, <1>2, <1>3, <2>1 DEF ListsTyped
<1>5. IdsAreFresh'
  BY <1>0, <1>1, <1>2, <1>3 DEF ListsIInv, IdsAreFresh, ListsTyped
<1>6. /\ LoneTickIsUndone' /\ CleanFetchIsStored' /\ AddsApart' /\ AddedOnce'
      /\ ErrorInstead'
  BY <1>1, <1>2
  DEF ListsIInv, LoneTickIsUndone, Unticked, CleanFetchIsStored, AddsApart, AddedOnce,
      ErrorInstead
<1>7. InOrder'
  <2> SUFFICES ASSUME Orderly'
               PROVE  (OneCallPerRow /\ ServerInOrder /\ FetchInOrder /\ ShownInOrder)'
    BY DEF InOrder
  <2>1. troubles' = troubles /\ stored' = [stored EXCEPT ![i] = op[c].row]
    BY <1>1 DEF Orderly
  <2>2. OneCallPerRow /\ ServerInOrder /\ FetchInOrder /\ ShownInOrder
    BY <2>1 DEF Orderly, ListsIInv, InOrder
  <2>3. stored'[i] = op[c].row /\ ServedRight(c)
    BY <1>0, <1>1, <2>1, <2>2 DEF ListsTyped, Rows, ServerInOrder
  <2>4. ASSUME NEW b \in Calls \ {c}, stage[b] # "free"
        PROVE  op[b].item # i /\ op[b].item \in Items /\ stored'[op[b].item] = stored[op[b].item]
    BY <1>0, <1>1, <1>3, <2>2, <2>4 DEF OneCallPerRow, ListsTyped, CallTyped, Call
  <2>5. OneCallPerRow' /\ ServerInOrder'
    <3>1. OneCallPerRow'
      BY <1>1, <1>2, <2>2 DEF OneCallPerRow
    <3>2. ASSUME NEW b \in Calls \ {c}, stage[b] # "free" PROVE ServedRight(b)'
      BY <1>1, <1>2, <2>2, <2>4, <3>2 DEF ServerInOrder, ServedRight
    <3>3. stage'[c] # "free" => ServedRight(c)'
      BY <1>1, <1>2, <2>3 DEF ServedRight
    <3> QED
      BY <1>2, <3>1, <3>2, <3>3 DEF ServerInOrder
  <2>6. ASSUME NEW j \in Items, Alone(j)' PROVE Alone(j) \/ j = i
    BY <1>1, <1>2, <2>6 DEF Alone
  <2>7. FetchInOrder'
    <3> SUFFICES ASSUME fetch.at = "served" PROVE FetchInOrder'
      BY <1>1 DEF FetchInOrder
    <3>1. stage[c] = "open" /\ FetchedRight(c)
      BY <1>1, <2>2, <2>3 DEF ServedRight, FetchInOrder
    <3>2. ASSUME NEW b \in Calls \ {c}, stage[b] # "free" PROVE FetchedRight(b)'
      BY <1>1, <1>2, <2>2, <2>4, <3>2 DEF FetchInOrder, FetchedRight
    <3>3. FetchedRight(c)'
      BY <1>1, <1>2, <2>3, <3>1 DEF FetchedRight, ServedRight
    <3>4. \A j \in Items : Alone(j)' => j # i /\ Alone(j)
      BY <1>1, <1>2, <2>6, <3>1 DEF Alone
    <3> QED
      BY <1>1, <1>2, <1>3, <2>2, <3>2, <3>3, <3>4 DEF FetchInOrder
  <2>8. ShownInOrder'
    <3> SUFFICES ASSUME fetch.at = "none", ~ failed PROVE ShownInOrder'
      BY <1>1 DEF ShownInOrder
    <3>1. ShownRight(c)
      BY <1>1, <2>2 DEF ShownInOrder
    <3>2. ASSUME NEW b \in Calls \ {c}, stage[b] # "free" PROVE ShownRight(b)'
      BY <1>1, <1>2, <2>2, <2>4, <3>2 DEF ShownInOrder, ShownRight, Matches
    <3>3. stage'[c] # "free" => ShownRight(c)'
      BY <1>1, <1>2, <3>1 DEF ShownRight
    <3>4. ASSUME NEW j \in Items, Alone(j)' PROVE Matches(shown, j)'
      <4>1. CASE j # i
        <5>1. Alone(j) /\ stored'[j] = stored[j]
          BY <1>3, <2>6, <3>4, <4>1
        <5> QED
          BY <1>1, <2>2, <5>1 DEF ShownInOrder, Matches
      <4>2. CASE j = i
        <5>1. stage[c] = "answered"
          BY <1>1, <1>2, <3>4, <4>2 DEF Alone
        <5> QED
          BY <1>1, <2>3, <3>1, <4>2, <5>1 DEF ShownRight, Matches
      <4> QED
        BY <4>1, <4>2
    <3> QED
      BY <1>1, <1>2, <3>2, <3>3, <3>4 DEF ShownInOrder
  <2> QED
    BY <2>5, <2>7, <2>8
<1> QED
  BY <1>0, <1>4, <1>5, <1>6, <1>7 DEF ListsIInv

\* Another device writes.
LEMMA ForeignKeepsLists ==
    ASSUME ListsIInv, NEW i \in Items, NEW row \in Row \cup {NoRow}, Foreign(i, row)
    PROVE  ListsIInv'
<1>0. ListsTyped
  BY DEF ListsIInv
<1>1. /\ UNCHANGED <<list, shown, failed, op, stage, writes, since>>
      /\ unborn' = unborn \ {i} /\ stored' = [stored EXCEPT ![i] = row]
      /\ troubles' = troubles \cup {"foreign"}
      /\ foreign < MaxForeign /\ foreign' = foreign + 1
  BY DEF Foreign
<1>2. /\ stored' \in Rows /\ \A j \in Items : j # i => stored'[j] = stored[j]
      /\ foreign' \in 0 .. MaxForeign
  BY <1>0, <1>1, ClientListsAssumption DEF ListsTyped, Rows
<1>3. /\ fetch' \in [at : {"none", "asked", "served"}, rows : Rows \cup {NoRow},
                     clean : BOOLEAN]
      /\ fetch'.at = fetch.at /\ fetch'.rows = fetch.rows /\ ~ fetch'.clean
  BY <1>0 DEF Foreign, ListsTyped, ListsIInv, CleanFetchIsStored
<1>4. ListsTyped'
  BY <1>0, <1>1, <1>2, <1>3 DEF ListsTyped, CallTyped
<1>5. IdsAreFresh'
  BY <1>0, <1>1, <1>2, <1>3 DEF ListsIInv, IdsAreFresh, ListsTyped
<1>6. /\ LoneTickIsUndone' /\ CleanFetchIsStored' /\ AddsApart' /\ AddedOnce'
      /\ ErrorInstead'
  BY <1>1, <1>3
  DEF ListsIInv, LoneTickIsUndone, Unticked, CleanFetchIsStored, AddsApart, AddedOnce,
      ErrorInstead
<1>7. InOrder'
  BY <1>1 DEF InOrder, Orderly
<1> QED
  BY <1>0, <1>4, <1>5, <1>6, <1>7 DEF ListsIInv

\* The list as an answer leaves it: only its row changes.
LEMMA AppliedIsTyped ==
    ASSUME ListsTyped, NEW c \in Calls,
           stage[c] \in {"open", "stored"}
    PROVE  LET i == op[c].item
           IN  /\ Applied(c) \in Shown /\ ListsRows(Applied(c))
               /\ \A j \in Items : j # i => Applied(c)[j] = shown[j]
               /\ op[c].kind \in {"toggle", "close", "edit"} =>
                    /\ Applied(c)[i].copies = shown[i].copies
                    /\ shown[i].copies > 0 => Applied(c)[i].row = op[c].row
               /\ op[c].kind = "delete" => Applied(c)[i].copies = 0
               /\ failed => Applied(c)[i].copies = shown[i].copies
                               \/ Applied(c)[i].copies = 0
               /\ op[c].kind = "add" /\ failed => Applied(c) = shown
               /\ op[c].kind = "add" /\ ~ failed =>
                    /\ Applied(c)[i].row = op[c].row
                    /\ Applied(c)[i].copies > 0
                    /\ shown[i].copies = 0 => Applied(c)[i].copies = 1
               /\ op[c].kind \in Refetches => Applied(c) = shown
<1> DEFINE i == op[c].item
<1>1. /\ op[c] \in Call /\ i \in Items /\ shown \in Shown /\ ListsRows(shown)
      /\ op[c].kind \notin Removes => op[c].row \in Row
      /\ op[c].kind \in GroceryKinds \cup ChoreKinds
      /\ shown[i] \in [copies : 0 .. 2, row : Row \cup {NoRow}]
  BY DEF ListsTyped, CallTyped, Call, Shown
<1>2. CASE op[c].kind \in {"toggle", "close", "edit"}
  <2> DEFINE e == [shown[i] EXCEPT !.row = op[c].row]
  <2>1. op[c].row \in Row
    BY <1>1, <1>2 DEF Removes
  <2>2. /\ e \in [copies : 0 .. 2, row : Row \cup {NoRow}]
        /\ e.copies = shown[i].copies /\ e.row = op[c].row
    BY <1>1, <2>1
  <2>3. Applied(c) = IF shown[i].copies > 0 THEN [shown EXCEPT ![i] = e] ELSE shown
    BY <1>2 DEF Applied, OnScreen
  <2> HIDE DEF e
  <2> QED
    BY <1>1, <1>2, <2>1, <2>2, <2>3 DEF Shown, ListsRows, Refetches
<1>3. CASE op[c].kind = "delete"
  <2> DEFINE e == [copies |-> 0, row |-> NoRow]
  <2>1. /\ e \in [copies : 0 .. 2, row : Row \cup {NoRow}]
        /\ e.copies = 0
    OBVIOUS
  <2>2. Applied(c) = [shown EXCEPT ![i] = e]
    BY <1>3 DEF Applied
  <2> HIDE DEF e
  <2> QED
    BY <1>1, <1>3, <2>1, <2>2 DEF Shown, ListsRows, Refetches
<1>4. CASE op[c].kind = "add" /\ ~ failed
  <2> DEFINE e == [copies |-> IF shown[i].copies = 2 THEN 2 ELSE shown[i].copies + 1,
                   row |-> op[c].row]
  <2>1. op[c].row \in Row
    BY <1>1, <1>4 DEF Removes
  <2>2. /\ e \in [copies : 0 .. 2, row : Row \cup {NoRow}]
        /\ e.copies > 0 /\ e.row = op[c].row
        /\ shown[i].copies = 0 => e.copies = 1
    BY <1>1, <2>1
  <2>3. Applied(c) = [shown EXCEPT ![i] = e]
    BY <1>4 DEF Applied, OneMore
  <2> HIDE DEF e
  <2> QED
    BY <1>1, <1>4, <2>1, <2>2, <2>3 DEF Shown, ListsRows, Refetches
<1>5. CASE op[c].kind \in Refetches \/ (op[c].kind = "add" /\ failed)
  <2>1. Applied(c) = shown
    BY <1>5 DEF Applied, Refetches
  <2> QED
    BY <1>1, <1>5, <2>1 DEF Refetches
<1> QED
  BY <1>1, <1>2, <1>3, <1>4, <1>5
  DEF GroceryKinds, ChoreKinds, Refetches

\* The calls that are still to be answered have had company.
LEMMA TouchedEffect ==
    ASSUME ListsTyped, NEW c \in Calls, Touched(c)
    PROVE  /\ since' \in [Calls -> SUBSET {"fetch", "other"}]
           /\ \A b \in Calls \ {c} :
                stage[b] \in {"sent", "open", "stored", "refused"} =>
                  since'[b] = since[b] \cup {"other"}
  BY DEF Touched, Unanswered, ListsTyped

\* An answer arrives.
LEMMA AnswerKeepsLists ==
    ASSUME ListsIInv, NEW c \in Calls, Answer(c)
    PROVE  ListsIInv'
<1>0. ListsTyped
  BY DEF ListsIInv
<1> DEFINE i == op[c].item
<1>1. /\ stage[c] \in {"open", "stored"} /\ CallTyped(c) /\ op[c] \in Call /\ i \in Items
      /\ op[c].kind \in GroceryKinds \cup ChoreKinds
      /\ op[c].row = NoRow <=> op[c].kind \in Removes
      /\ shown' = Applied(c)
      /\ UNCHANGED <<list, stored, unborn, failed, writes, foreign>>
  BY <1>0 DEF Answer, counts, ListsTyped, CallTyped, Call
<1>2. /\ stage' \in [Calls -> Stages]
      /\ op' \in [Calls -> Call \cup {NoOp}]
      /\ \A b \in Calls \ {c} : stage'[b] = stage[b] /\ op'[b] = op[b]
      /\ IF stage[c] = "open"
         THEN /\ stage'[c] = "answered" /\ op'[c] \in Call
              /\ op'[c].kind = op[c].kind /\ op'[c].item = i /\ op'[c].row = op[c].row
         ELSE stage'[c] = "free" /\ op'[c] = NoOp
  BY <1>0, <1>1, AnsweredEffect DEF Answer
<1>3. /\ shown' \in Shown /\ ListsRows(shown')
      /\ \A j \in Items : j # i => shown'[j] = shown[j]
      /\ op[c].kind \in {"toggle", "close", "edit"} =>
           /\ shown'[i].copies = shown[i].copies
           /\ shown[i].copies > 0 => shown'[i].row = op[c].row
      /\ op[c].kind = "delete" => shown'[i].copies = 0
      /\ failed => shown'[i].copies = shown[i].copies \/ shown'[i].copies = 0
      /\ op[c].kind = "add" /\ failed => shown' = shown
      /\ op[c].kind = "add" /\ ~ failed =>
           /\ shown'[i].row = op[c].row /\ shown'[i].copies > 0
           /\ shown[i].copies = 0 => shown'[i].copies = 1
      /\ op[c].kind \in Refetches => shown' = shown
  BY <1>0, <1>1, AppliedIsTyped
<1>4. /\ fetch' \in [at : {"none", "asked", "served"}, rows : Rows \cup {NoRow},
                     clean : BOOLEAN]
      /\ IF op[c].kind \in Refetches THEN fetch'.at = "asked" /\ ~ fetch'.clean
                                           ELSE fetch' = fetch
      /\ ~ fetch.clean
  <2>1. ~ fetch.clean
    BY <1>1 DEF ListsIInv, CleanFetchIsStored
  <2>2. fetch' = IF op[c].kind \in Refetches
                 THEN [at |-> "asked", rows |-> NoRow, clean |-> FALSE] ELSE fetch
    BY DEF Answer
  <2> QED
    BY <1>0, <2>1, <2>2 DEF ListsTyped
<1>5. /\ since' \in [Calls -> SUBSET {"fetch", "other"}]
      /\ \A b \in Calls \ {c} :
           stage[b] \in {"sent", "open", "stored", "refused"} =>
             since'[b] = since[b] \cup {"other"}
  BY <1>0, TouchedEffect DEF Answer
<1>6. /\ troubles \subseteq troubles' /\ troubles' \subseteq troubles \cup {"staleFetch", "addedOver"}
      /\ op[c].kind \notin Refetches /\ fetch.at = "served" => "staleFetch" \in troubles'
      /\ op[c].kind = "add" /\ "fetch" \in since[c] => "addedOver" \in troubles'
  BY DEF Answer
<1>7. ListsTyped'
  <2>1. \A b \in Calls : CallTyped(b)'
    BY <1>0, <1>1, <1>2 DEF CallTyped, ListsTyped
  <2> QED
    BY <1>0, <1>1, <1>2, <1>3, <1>4, <1>5, <1>6, <2>1 DEF ListsTyped
<1>8. IdsAreFresh'
  <2>1. i \notin unborn
    BY <1>1 DEF ListsIInv, IdsAreFresh
  <2> QED
    BY <1>0, <1>1, <1>2, <1>3, <1>4, <2>1 DEF ListsIInv, IdsAreFresh, ListsTyped
<1>9. LoneTickIsUndone'
  <2>1. ASSUME NEW b \in Calls, stage'[b] \in {"sent", "open", "stored", "refused"}
        PROVE  since'[b] # {}
    BY <1>1, <1>2, <1>5, <2>1
  <2> QED
    BY <2>1 DEF LoneTickIsUndone
<1>10. CleanFetchIsStored' /\ AddsApart'
  BY <1>1, <1>2, <1>4 DEF ListsIInv, CleanFetchIsStored, AddsApart
<1>11. AddedOnce'
  <2> SUFFICES ASSUME {"addedOver", "revertedOver"} \cap troubles' = {} PROVE AddedOnce'
    BY DEF AddedOnce
  <2>1. /\ \A j \in Items : shown[j].copies <= 1
        /\ \A b \in Calls : /\ stage[b] \in {"sent", "open", "stored", "refused"}
                            /\ op[b].kind = "add" /\ "fetch" \notin since[b]
                            => shown[op[b].item].copies = 0
    BY <1>6 DEF ListsIInv, AddedOnce
  <2>2. \A j \in Items : shown'[j].copies <= 1
    <3>1. op[c].kind = "add" => shown'[i].copies <= 1
      BY <1>1, <1>3, <1>6, <2>1
    <3> QED
      BY <1>1, <1>3, <2>1, <3>1
      DEF GroceryKinds, ChoreKinds, Refetches
  <2>3. ASSUME NEW b \in Calls, stage'[b] \in {"sent", "open", "stored", "refused"},
               op'[b].kind = "add", "fetch" \notin since'[b]
        PROVE  shown'[op'[b].item].copies = 0
    <3>1. /\ b # c /\ stage'[b] = stage[b] /\ op'[b] = op[b] /\ "fetch" \notin since[b]
          /\ op[b].item \in Items
      BY <1>0, <1>1, <1>2, <1>5, <2>3 DEF ListsTyped, CallTyped, Call
    <3>2. shown[op[b].item].copies = 0
      BY <2>1, <2>3, <3>1
    <3>3. CASE op[b].item # i
      BY <1>3, <3>1, <3>2, <3>3
    <3>4. CASE op[b].item = i
      <4>1. op[c].kind # "add"
        BY <1>1, <2>3, <3>1, <3>4 DEF ListsIInv, AddsApart
      <4> QED
        BY <1>1, <1>3, <3>1, <3>2, <3>4, <4>1
        DEF GroceryKinds, ChoreKinds, Refetches
    <3> QED
      BY <3>3, <3>4
  <2> QED
    BY <2>2, <2>3 DEF AddedOnce
<1>12. ErrorInstead'
  BY <1>1, <1>2, <1>3, <1>5 DEF ListsIInv, ErrorInstead
<1>13. InOrder'
  <2> SUFFICES ASSUME Orderly'
               PROVE  (OneCallPerRow /\ ServerInOrder /\ FetchInOrder /\ ShownInOrder)'
    BY DEF InOrder
  <2>1. /\ OneCallPerRow /\ ServerInOrder /\ FetchInOrder /\ ShownInOrder
        /\ op[c].kind \notin Refetches => fetch.at # "served"
    BY <1>6 DEF Orderly, ListsIInv, InOrder
  <2>2. ASSUME NEW b \in Calls \ {c}, stage[b] # "free"
        PROVE  op[b].item # i /\ op[b].item \in Items /\ shown'[op[b].item] = shown[op[b].item]
    BY <1>0, <1>1, <1>3, <2>1, <2>2 DEF OneCallPerRow, ListsTyped, CallTyped, Call
  <2>3. OneCallPerRow'
    BY <1>1, <1>2, <2>1 DEF OneCallPerRow
  <2>4. fetch'.at # "served"
    BY <1>4, <2>1
  <2>5. ServerInOrder'
    <3>1. ASSUME NEW b \in Calls \ {c}, stage[b] # "free" PROVE ServedRight(b)'
      BY <1>1, <1>2, <1>4, <2>1, <2>4, <3>1 DEF ServerInOrder, ServedRight
    <3>2. stage'[c] # "free" => ServedRight(c)'
      BY <1>1, <1>2, <1>4, <2>4 DEF ServedRight
    <3> QED
      BY <1>2, <3>1, <3>2 DEF ServerInOrder
  <2>6. FetchInOrder'
    BY <2>4 DEF FetchInOrder
  <2>7. ShownInOrder'
    <3> SUFFICES ASSUME fetch'.at = "none", ~ failed' PROVE ShownInOrder'
      BY DEF ShownInOrder
    <3>1. op[c].kind \notin Refetches /\ fetch.at = "none" /\ ~ failed
      BY <1>1, <1>4
    <3>2. ShownRight(c) /\ ServedRight(c)
      BY <1>1, <2>1, <3>1 DEF ShownInOrder, ServerInOrder
    <3>3. /\ shown'[i].copies > 0 <=> op[c].row # NoRow
          /\ shown'[i].copies > 0 => shown'[i].row = op[c].row
      <4>1. CASE op[c].kind \in {"toggle", "close", "edit"}
        BY <1>1, <1>3, <3>2, <4>1 DEF ShownRight, Ticks, Edits, Removes
      <4>2. CASE op[c].kind = "delete"
        BY <1>1, <1>3, <4>2 DEF Removes
      <4>3. CASE op[c].kind = "add"
        BY <1>1, <1>3, <3>1, <4>3 DEF Removes
      <4> QED
        BY <1>1, <3>1, <4>1, <4>2, <4>3
        DEF GroceryKinds, ChoreKinds, Refetches
    <3>4. ASSUME NEW b \in Calls \ {c}, stage[b] # "free" PROVE ShownRight(b)'
      <4>1. ShownRight(b)
        BY <2>1, <3>1, <3>4 DEF ShownInOrder
      <4>2. stage[b] \in {"sent", "refused"} => since'[b] # {}
        BY <1>5, <3>4
      <4> QED
        BY <1>1, <1>2, <2>2, <3>4, <4>1, <4>2 DEF ShownRight, Matches
    <3>5. stage'[c] # "free" => ShownRight(c)'
      BY <1>1, <1>2, <3>3 DEF ShownRight
    <3>6. ASSUME NEW j \in Items, Alone(j)' PROVE Matches(shown, j)'
      <4>1. CASE j # i
        <5>1. Alone(j)
          BY <1>1, <1>2, <3>6, <4>1 DEF Alone
        <5> QED
          BY <1>1, <1>3, <2>1, <3>1, <4>1, <5>1 DEF ShownInOrder, Matches
      <4>2. CASE j = i
        <5>1. stage[c] = "stored"
          BY <1>1, <1>2, <3>6, <4>2 DEF Alone
        <5> QED
          BY <1>1, <3>2, <3>3, <4>2, <5>1 DEF ServedRight, Matches
      <4> QED
        BY <4>1, <4>2
    <3> QED
      BY <1>2, <3>4, <3>5, <3>6 DEF ShownInOrder
  <2> QED
    BY <2>3, <2>5, <2>6, <2>7
<1> QED
  BY <1>0, <1>7, <1>8, <1>9, <1>10, <1>11, <1>12, <1>13
  DEF ListsIInv

\* An error instead of an answer: a tick is put back.
LEMMA FailKeepsLists ==
    ASSUME ListsIInv, NEW c \in Calls, Fail(c)
    PROVE  ListsIInv'
<1>0. ListsTyped
  BY DEF ListsIInv
<1> DEFINE i == op[c].item
           tick == op[c].kind \in Ticks
<1>1. /\ stage[c] \in {"sent", "open", "stored", "refused"}
      /\ CallTyped(c) /\ op[c] \in Call /\ i \in Items
      /\ UNCHANGED <<list, stored, unborn, writes, foreign>>
      /\ shown' = IF tick THEN op[c].before ELSE shown
      /\ failed' = (failed /\ ~ tick)
  BY <1>0 DEF Fail, Reverted, counts, ListsTyped, CallTyped, Call
<1>2. /\ stage' \in [Calls -> Stages]
      /\ op' \in [Calls -> Call \cup {NoOp}]
      /\ \A b \in Calls \ {c} : stage'[b] = stage[b] /\ op'[b] = op[b]
      /\ IF stage[c] = "open"
         THEN /\ stage'[c] = "answered" /\ op'[c] \in Call
              /\ op'[c].kind = op[c].kind /\ op'[c].item = i /\ op'[c].row = op[c].row
         ELSE stage'[c] = "free" /\ op'[c] = NoOp
  BY <1>0, <1>1, AnsweredEffect DEF Fail
<1>3. shown' \in Shown /\ ListsRows(shown')
  BY <1>0, <1>1 DEF ListsTyped, CallTyped
<1>4. /\ fetch' \in [at : {"none", "asked", "served"}, rows : Rows \cup {NoRow},
                     clean : BOOLEAN]
      /\ fetch'.at = fetch.at /\ fetch'.rows = fetch.rows /\ ~ fetch'.clean
  BY <1>0 DEF Fail, ListsTyped
<1>5. /\ since' \in [Calls -> SUBSET {"fetch", "other"}]
      /\ \A b \in Calls \ {c} :
           stage[b] \in {"sent", "open", "stored", "refused"} =>
             since'[b] = since[b] \cup {"other"}
  BY <1>0, TouchedEffect DEF Fail
<1>6. /\ troubles \subseteq troubles' /\ troubles' \subseteq troubles \cup {"lost", "revertedOver"}
      /\ stage[c] \in {"open", "stored"} => "lost" \in troubles'
      /\ tick /\ since[c] # {} => "revertedOver" \in troubles'
  BY DEF Fail
<1>7. tick /\ since[c] = {} => Unticked(op[c].before, i)
  BY <1>1 DEF ListsIInv, LoneTickIsUndone
<1>8. ListsTyped'
  <2>1. \A b \in Calls : CallTyped(b)'
    BY <1>0, <1>1, <1>2 DEF CallTyped, ListsTyped
  <2> QED
    BY <1>0, <1>1, <1>2, <1>3, <1>4, <1>5, <1>6, <2>1 DEF ListsTyped
<1>9. IdsAreFresh'
  BY <1>0, <1>1, <1>2, <1>4 DEF ListsIInv, IdsAreFresh, ListsTyped
<1>10. LoneTickIsUndone'
  <2>1. ASSUME NEW b \in Calls, stage'[b] \in {"sent", "open", "stored", "refused"}
        PROVE  since'[b] # {}
    BY <1>1, <1>2, <1>5, <2>1
  <2> QED
    BY <2>1 DEF LoneTickIsUndone
<1>11. CleanFetchIsStored' /\ AddsApart'
  BY <1>1, <1>2, <1>4 DEF ListsIInv, CleanFetchIsStored, AddsApart
<1>12. AddedOnce'
  <2> SUFFICES ASSUME {"addedOver", "revertedOver"} \cap troubles' = {} PROVE AddedOnce'
    BY DEF AddedOnce
  <2>1. \A j \in Items : shown'[j].copies = shown[j].copies
    BY <1>1, <1>6, <1>7 DEF Unticked
  <2>2. \A b \in Calls :
          /\ stage'[b] \in {"sent", "open", "stored", "refused"}
          /\ op'[b].kind = "add" /\ "fetch" \notin since'[b]
          => /\ stage[b] \in {"sent", "open", "stored", "refused"}
             /\ op[b].kind = "add" /\ "fetch" \notin since[b] /\ op'[b].item = op[b].item
             /\ op[b].item \in Items
    BY <1>0, <1>1, <1>2, <1>5 DEF ListsTyped, CallTyped, Call
  <2> QED
    BY <1>6, <2>1, <2>2 DEF ListsIInv, AddedOnce
<1>13. ErrorInstead'
  BY <1>1, <1>2, <1>5 DEF ListsIInv, ErrorInstead
<1>14. InOrder'
  <2> SUFFICES ASSUME Orderly'
               PROVE  (OneCallPerRow /\ ServerInOrder /\ FetchInOrder /\ ShownInOrder)'
    BY DEF InOrder
  <2>1. /\ OneCallPerRow /\ ServerInOrder /\ FetchInOrder /\ ShownInOrder
        /\ stage[c] \in {"sent", "refused"} /\ (tick => since[c] = {})
    BY <1>1, <1>6 DEF Orderly, ListsIInv, InOrder
  <2>0. failed' = failed
    BY <1>0, <1>1, <2>1 DEF ListsIInv, ErrorInstead, ListsTyped
  <2>2. stage'[c] = "free"
    BY <1>2, <2>1
  <2>3. \A j \in Items : j # i => shown'[j] = shown[j]
    BY <1>1, <1>7, <2>1 DEF Unticked
  <2>4. ASSUME NEW b \in Calls \ {c}, stage[b] # "free"
        PROVE  op[b].item # i /\ op[b].item \in Items /\ shown'[op[b].item] = shown[op[b].item]
    BY <1>0, <1>1, <2>1, <2>3, <2>4 DEF OneCallPerRow, ListsTyped, CallTyped, Call
  <2>5. OneCallPerRow' /\ ServerInOrder'
    BY <1>1, <1>2, <1>4, <2>0, <2>1, <2>2 DEF OneCallPerRow, ServerInOrder, ServedRight
  <2>6. ASSUME NEW j \in Items, Alone(j)' PROVE Alone(j) \/ j = i
    BY <1>1, <1>2, <2>6 DEF Alone
  <2>7. FetchInOrder'
    <3> SUFFICES ASSUME fetch.at = "served" PROVE FetchInOrder'
      BY <1>4 DEF FetchInOrder
    <3>1. fetch.rows[i] = stored[i]
      BY <1>1, <2>1 DEF FetchInOrder, FetchedRight
    <3>2. ASSUME NEW b \in Calls \ {c}, stage[b] # "free" PROVE FetchedRight(b)'
      BY <1>1, <1>2, <1>4, <2>1, <3>2 DEF FetchInOrder, FetchedRight
    <3> QED
      BY <1>1, <1>2, <1>4, <2>1, <2>2, <2>6, <3>1, <3>2 DEF FetchInOrder
  <2>8. ShownInOrder'
    <3> SUFFICES ASSUME fetch.at = "none", ~ failed PROVE ShownInOrder'
      BY <1>4, <2>0 DEF ShownInOrder
    <3>1. ShownRight(c)
      BY <1>1, <2>1 DEF ShownInOrder
    <3>2. ASSUME NEW j \in Items, j = i PROVE Matches(shown, j)'
      BY <1>1, <2>1, <3>1, <3>2 DEF ShownRight, Matches
    <3>3. ASSUME NEW b \in Calls \ {c}, stage[b] # "free" PROVE ShownRight(b)'
      <4>1. ShownRight(b)
        BY <2>1, <3>3 DEF ShownInOrder
      <4>2. stage[b] \in {"sent", "refused"} => since'[b] # {}
        BY <1>5, <3>3
      <4> QED
        BY <1>1, <1>2, <2>4, <3>3, <4>1, <4>2 DEF ShownRight, Matches
    <3>4. ASSUME NEW j \in Items, Alone(j)', j # i PROVE Matches(shown, j)'
      BY <1>1, <2>1, <2>3, <2>6, <3>4 DEF ShownInOrder, Matches
    <3> QED
      BY <1>2, <2>2, <3>2, <3>3, <3>4 DEF ShownInOrder
  <2> QED
    BY <2>5, <2>7, <2>8
<1> QED
  BY <1>0, <1>8, <1>9, <1>10, <1>11, <1>12, <1>13, <1>14
  DEF ListsIInv

\* A fetch begins.
LEMMA RefreshKeepsLists == ListsIInv /\ Refresh => ListsIInv'
<1> SUFFICES ASSUME ListsIInv, Refresh PROVE ListsIInv'
  OBVIOUS
<1>0. ListsTyped
  BY DEF ListsIInv
<1>1. /\ UNCHANGED <<list, stored, unborn, shown, failed, op, stage, writes, foreign, since, troubles>>
      /\ fetch' = [at |-> "asked", rows |-> NoRow, clean |-> FALSE]
  BY DEF Refresh, counts
<1>2. /\ fetch' \in [at : {"none", "asked", "served"}, rows : Rows \cup {NoRow},
                     clean : BOOLEAN]
      /\ fetch'.at = "asked" /\ ~ fetch'.clean
  BY <1>1
<1>3. ListsTyped'
  BY <1>0, <1>1, <1>2 DEF ListsTyped, CallTyped
<1>4. /\ IdsAreFresh' /\ LoneTickIsUndone' /\ CleanFetchIsStored' /\ AddsApart' /\ AddedOnce'
      /\ ErrorInstead'
  BY <1>1, <1>2
  DEF ListsIInv, IdsAreFresh, LoneTickIsUndone, Unticked, CleanFetchIsStored, AddsApart, AddedOnce,
      ErrorInstead
<1>5. InOrder'
  BY <1>1, <1>2
  DEF ListsIInv, InOrder, Orderly, OneCallPerRow, ServerInOrder, ServedRight, FetchInOrder,
      ShownInOrder
<1> QED
  BY <1>0, <1>3, <1>4, <1>5 DEF ListsIInv

\* The server answers it with what is committed.
LEMMA ServeFetchKeepsLists == ListsIInv /\ ServeFetch => ListsIInv'
<1> SUFFICES ASSUME ListsIInv, ServeFetch PROVE ListsIInv'
  OBVIOUS
<1>0. ListsTyped
  BY DEF ListsIInv
<1>1. /\ UNCHANGED <<list, stored, unborn, shown, failed, op, stage, writes, foreign, since>>
      /\ fetch' = [at |-> "served", rows |-> stored, clean |-> InFlight = {}]
      /\ troubles \subseteq troubles' /\ troubles' \subseteq troubles \cup {"staleFetch"}
      /\ (\E c \in Calls : stage[c] = "answered" /\ op[c].kind # "create")
           => "staleFetch" \in troubles'
  BY DEF ServeFetch, counts
<1>2. /\ fetch' \in [at : {"none", "asked", "served"}, rows : Rows \cup {NoRow},
                     clean : BOOLEAN]
      /\ fetch'.at = "served" /\ fetch'.rows = stored
      /\ fetch'.clean => \A c \in Calls : stage[c] = "free"
  BY <1>0, <1>1 DEF ListsTyped, InFlight
<1>3. ListsTyped'
  BY <1>0, <1>1, <1>2 DEF ListsTyped, CallTyped
<1>4. /\ IdsAreFresh' /\ LoneTickIsUndone' /\ CleanFetchIsStored' /\ AddsApart' /\ AddedOnce'
      /\ ErrorInstead'
  BY <1>1, <1>2
  DEF ListsIInv, IdsAreFresh, LoneTickIsUndone, Unticked, CleanFetchIsStored, AddsApart, AddedOnce,
      ErrorInstead
<1>5. InOrder'
  <2> SUFFICES ASSUME Orderly'
               PROVE  (OneCallPerRow /\ ServerInOrder /\ FetchInOrder /\ ShownInOrder)'
    BY DEF InOrder
  <2>1. /\ OneCallPerRow /\ ServerInOrder
        /\ \A c \in Calls : stage[c] # "answered"
    BY <1>0, <1>1 DEF Orderly, ListsIInv, InOrder, ListsTyped, CallTyped
  <2>2. OneCallPerRow' /\ ServerInOrder' /\ ShownInOrder'
    BY <1>1, <1>2, <2>1 DEF OneCallPerRow, ServerInOrder, ServedRight, ShownInOrder
  <2>3. ASSUME NEW c \in Calls, stage[c] # "free" PROVE FetchedRight(c)'
    <3>1. /\ ServedRight(c) /\ CallTyped(c)
          /\ op[c].kind \in Ticks \cup Edits => op[c].kind \notin Removes
      BY <1>0, <2>1, <2>3
      DEF ServerInOrder, ListsTyped, Ticks, Edits, Removes
    <3> QED
      BY <1>1, <1>2, <2>3, <3>1 DEF FetchedRight, ServedRight, CallTyped
  <2>4. FetchInOrder'
    BY <1>1, <1>2, <2>3 DEF FetchInOrder
  <2> QED
    BY <2>2, <2>4
<1> QED
  BY <1>0, <1>3, <1>4, <1>5 DEF ListsIInv

\* What was fetched replaces what was shown.
LEMMA FetchedKeepsLists == ListsIInv /\ Fetched => ListsIInv'
<1> SUFFICES ASSUME ListsIInv, Fetched PROVE ListsIInv'
  OBVIOUS
<1>0. ListsTyped
  BY DEF ListsIInv
<1>1. /\ UNCHANGED <<list, stored, unborn, op, stage, writes, foreign>>
      /\ fetch.at = "served" /\ fetch.rows \in Rows
      /\ shown' = Display(fetch.rows) /\ failed' = FALSE
      /\ troubles' = IF fetch.clean THEN {} ELSE troubles
  BY <1>0 DEF Fetched, counts, ListsTyped
<1>2. /\ fetch' \in [at : {"none", "asked", "served"}, rows : Rows \cup {NoRow},
                     clean : BOOLEAN]
      /\ fetch'.at = "none" /\ ~ fetch'.clean
  BY DEF Fetched, NoFetch
<1>3. /\ shown' \in Shown /\ ListsRows(shown')
      /\ \A i \in Items : /\ shown'[i].copies = IF fetch.rows[i] = NoRow THEN 0 ELSE 1
                          /\ shown'[i].row = fetch.rows[i]
  BY <1>1, DisplayIsTyped
<1>4. /\ since' \in [Calls -> SUBSET {"fetch", "other"}]
      /\ \A b \in Calls : stage[b] \in {"sent", "open", "stored", "refused"} =>
                            "fetch" \in since'[b]
  BY <1>0 DEF Fetched, Overtaken, Unanswered, ListsTyped
<1>5. ListsTyped'
  BY <1>0, <1>1, <1>2, <1>3, <1>4 DEF ListsTyped, CallTyped
<1>6. IdsAreFresh'
  BY <1>0, <1>1, <1>2, <1>3 DEF ListsIInv, IdsAreFresh, ListsTyped
<1>7. /\ LoneTickIsUndone' /\ CleanFetchIsStored' /\ AddsApart' /\ AddedOnce'
      /\ ErrorInstead'
  BY <1>1, <1>2, <1>3, <1>4
  DEF ListsIInv, LoneTickIsUndone, CleanFetchIsStored, AddsApart, AddedOnce,
      ErrorInstead
<1>8. InOrder'
  <2> SUFFICES ASSUME Orderly'
               PROVE  (OneCallPerRow /\ ServerInOrder /\ FetchInOrder /\ ShownInOrder)'
    BY DEF InOrder
  <2>1. FetchInOrder'
    BY <1>2 DEF FetchInOrder
  <2>2. CASE fetch.clean
    <3>1. fetch.rows = stored /\ \A c \in Calls : stage[c] = "free"
      BY <2>2 DEF ListsIInv, CleanFetchIsStored
    <3> QED
      BY <1>1, <1>3, <2>1, <3>1
      DEF OneCallPerRow, ServerInOrder, ShownInOrder, Matches
  <2>3. CASE ~ fetch.clean
    <3>1. OneCallPerRow /\ ServerInOrder /\ FetchInOrder
      BY <1>1, <2>3 DEF Orderly, ListsIInv, InOrder
    <3>2. \A c \in Calls : stage[c] # "answered"
      BY <1>1, <3>1 DEF ServerInOrder, ServedRight
    <3>3. OneCallPerRow' /\ ServerInOrder'
      BY <1>1, <3>1, <3>2 DEF OneCallPerRow, ServerInOrder, ServedRight
    <3>4. ASSUME NEW i \in Items, Alone(i)' PROVE Matches(shown, i)'
      <4>1. fetch.rows[i] = stored[i]
        BY <1>1, <3>1, <3>4 DEF FetchInOrder, Alone
      <4> QED
        BY <1>1, <1>3, <4>1 DEF Matches
    <3>5. ASSUME NEW c \in Calls, stage[c] # "free" PROVE ShownRight(c)'
      <4>1. /\ FetchedRight(c) /\ ServedRight(c) /\ op[c].item \in Items
            /\ stage[c] \in {"sent", "refused"} => since'[c] # {}
        BY <1>0, <1>1, <1>4, <3>1, <3>5
        DEF FetchInOrder, ServerInOrder, ListsTyped, CallTyped, Call
      <4> QED
        BY <1>1, <1>3, <3>2, <3>5, <4>1 DEF ShownRight, Matches, FetchedRight, ServedRight
    <3> QED
      BY <1>1, <2>1, <3>3, <3>4, <3>5 DEF ShownInOrder
  <2> QED
    BY <2>2, <2>3
<1> QED
  BY <1>0, <1>5, <1>6, <1>7, <1>8 DEF ListsIInv

\* It fails, and an error replaces it.
LEMMA FetchFailsKeepsLists == ListsIInv /\ FetchFails => ListsIInv'
<1> SUFFICES ASSUME ListsIInv, FetchFails PROVE ListsIInv'
  OBVIOUS
<1>0. ListsTyped
  BY DEF ListsIInv
<1>1. /\ UNCHANGED <<list, stored, unborn, op, stage, writes, foreign, troubles>>
      /\ shown' = NothingListed /\ failed' = TRUE
  BY DEF FetchFails, counts
<1>2. /\ fetch' \in [at : {"none", "asked", "served"}, rows : Rows \cup {NoRow},
                     clean : BOOLEAN]
      /\ fetch'.at = "none" /\ ~ fetch'.clean
  BY DEF FetchFails, NoFetch
<1>3. /\ shown' \in Shown /\ ListsRows(shown')
      /\ \A i \in Items : shown'[i].copies = 0
  BY <1>1 DEF NothingListed, Shown, ListsRows
<1>4. /\ since' \in [Calls -> SUBSET {"fetch", "other"}]
      /\ \A b \in Calls : stage[b] \in {"sent", "open", "stored", "refused"} => since'[b] # {}
  BY <1>0 DEF FetchFails, Overtaken, Unanswered, ListsTyped
<1>5. ListsTyped'
  BY <1>0, <1>1, <1>2, <1>3, <1>4 DEF ListsTyped, CallTyped
<1>6. IdsAreFresh'
  BY <1>0, <1>1, <1>2, <1>3 DEF ListsIInv, IdsAreFresh, ListsTyped
<1>7. AddedOnce'
  BY <1>0, <1>1, <1>3 DEF AddedOnce, ListsTyped, CallTyped, Call
<1>8. LoneTickIsUndone' /\ CleanFetchIsStored' /\ AddsApart' /\ ErrorInstead'
  BY <1>1, <1>2, <1>3, <1>4
  DEF ListsIInv, LoneTickIsUndone, CleanFetchIsStored, AddsApart, ErrorInstead
<1>9. InOrder'
  BY <1>1, <1>2
  DEF ListsIInv, InOrder, Orderly, OneCallPerRow, ServerInOrder, ServedRight, FetchInOrder,
      ShownInOrder
<1> QED
  BY <1>0, <1>5, <1>6, <1>7, <1>8, <1>9 DEF ListsIInv

LEMMA NextKeepsLists == ListsIInv /\ [ListsNext]_listsVars => ListsIInv'
<1> SUFFICES ASSUME ListsIInv, [ListsNext]_listsVars PROVE ListsIInv'
  OBVIOUS
<1>1. CASE UNCHANGED listsVars
  BY <1>1
  DEF listsVars, client, counts, ListsIInv, ListsTyped, CallTyped, IdsAreFresh, LoneTickIsUndone,
      Unticked, CleanFetchIsStored, AddsApart, AddedOnce, ErrorInstead, InOrder, Orderly,
      OneCallPerRow, ServerInOrder, ServedRight, FetchInOrder, FetchedRight, ShownInOrder, ShownRight, Alone, Matches
<1>2. ASSUME NEW c \in Calls, NEW i \in Items, NEW t \in Texts,
             NEW kind \in GroceryKinds \cup ChoreKinds, Write(c, kind, i, t)
      PROVE  ListsIInv'
  <2>1. /\ Send(c, kind, i, t) /\ OnScreen(i) /\ unborn' = unborn
        /\ kind \notin {"add", "create"}
    BY <1>2 DEF Write
  <2> QED
    BY <2>1, SendKeepsLists
<1>3. ASSUME NEW c \in Calls, NEW i \in Items, NEW t \in Texts, Add(c, i, t)
      PROVE  ListsIInv'
  <2>1. PICK kind \in {"add", "create"} : Send(c, kind, i, t)
    BY <1>3 DEF Add
  <2>2. i \in unborn /\ unborn' = unborn \ {i}
    BY <1>3 DEF Add
  <2>3. kind \in GroceryKinds \cup ChoreKinds
    BY DEF GroceryKinds, ChoreKinds
  <2> QED
    BY <2>1, <2>2, <2>3, SendKeepsLists
<1>4. ASSUME NEW i \in Items, NEW row \in Row \cup {NoRow}, Foreign(i, row)
      PROVE  ListsIInv'
  BY <1>4, ForeignKeepsLists
<1>5. ASSUME NEW c \in Calls,
             Serve(c) \/ Commit(c) \/ CommitFails(c) \/ Answer(c)
               \/ Fail(c)
      PROVE  ListsIInv'
  BY <1>5, ServeKeepsLists, CommitKeepsLists, AnswerKeepsLists, FailKeepsLists
<1> QED
  BY <1>1, <1>2, <1>3, <1>4, <1>5, RefreshKeepsLists, ServeFetchKeepsLists, FetchedKeepsLists,
     FetchFailsKeepsLists
  DEF ListsNext

\* What every reachable state of a list satisfies.
THEOREM ListsInductive == ListsSpec => []ListsIInv
<1> QED
  BY InitLists, NextKeepsLists, PTL DEF ListsSpec

(***************************************************************************)
(* groceries_provider.dart and chores_provider.dart put rows in, put back  *)
(* what was shown and take over what a fetch brings: no row stands there   *)
(* twice, up to the two troubles that do it.                               *)
(***************************************************************************)
THEOREM RowsAreListedOnce == ListsSpec => []ListedOnce
<1>1. ListsIInv => ListedOnce
  BY DEF ListsIInv, AddedOnce, ListedOnce
<1> QED
  BY <1>1, ListsInductive, PTL

(***************************************************************************)
(* The same providers, whatever calls and fetches overlapped, failed or    *)
(* were answered late: once nothing is under way, and no error is shown in *)
(* its place, the list shows exactly what the server stores, unless one of *)
(* the named troubles came between.                                        *)
(***************************************************************************)
THEOREM ListsShowWhatIsStored ==
    ListsSpec => []ShownIsStored
<1>1. ListsIInv => ShownIsStored
  BY DEF ListsIInv, InOrder, Orderly, ShownInOrder, Alone, Matches, ShownIsStored,
         Quiet, InFlight, OnScreen
<1> QED
  BY <1>1, ListsInductive, PTL
-----------------------------------------------------------------------------
(***************************************************************************)
(* The screen: the invariant                                               *)
(***************************************************************************)

\* The address is read before anything is known of the server.
UrlReadFirst == "url" \in reading => server = "unknown"

\* What is pushed lies on a screen inside, or on the login.
PushedOnScreens ==
    over # NoPage => \/ base \in Inside /\ over \in {"household", "setup"}
                     \/ base = "login" /\ over = "login"

\* An invite counts as kept from a time when the app knew where it stood.
KeptWhenKnown ==
    opened # NoToken /\ ~ untimely => server = "configured" /\ auth # "unknown"

\* A join that was begun is over for its link, and what is opened while it is
\* under way comes at a bad time; the next one is still to begin.
JoinsBeginOnce ==
    /\ asked => base \in Tokens /\ (opened = NoToken \/ untimely)
    /\ base \in Tokens /\ ~ asked => base \notin begun
    /\ pending \notin begun

ScreenIInv ==
    /\ RouterTypeOK
    /\ UrlReadFirst
    /\ WhereTheyBelong
    /\ PushedOnScreens
    /\ KeptWhenKnown
    /\ InviteIsKept
    /\ JoinsBeginOnce
-----------------------------------------------------------------------------
(* The redirect *)

Servers  == {"unknown", "unconfigured", "configured"}
Sessions == {"unknown", "in", "out"}

\* The screens the redirect has nothing to say about.
Place(s, a, l) ==
    \/ s = "unknown" /\ l = "splash"
    \/ s = "unconfigured" /\ l = "setup"
    \/ s = "configured" /\ a = "unknown" /\ l = "splash"
    \/ s = "configured" /\ a = "out" /\ l \in AuthPages
    \/ s = "configured" /\ a = "in" /\ l \notin AuthPages \cup {"splash"}

LEMMA TokensAreNotPages ==
    \A t \in Tokens : /\ t \in Location /\ t # NoToken /\ t # NoPage
                      /\ t \notin AuthPages \cup Inside \cup {"splash", "setup"}
  BY RouterAssumption DEF Location, Pages

\* One round of the redirect is enough, whatever invite is kept.
LEMMA RedirectFindsAPlace ==
    ASSUME NEW s \in Servers, NEW a \in Sessions,
           NEW kept \in Tokens \cup {NoToken}, NEW l \in Location
    PROVE  /\ Redirect(s, a, kept, l) \in Location
           /\ Place(s, a, Redirect(s, a, kept, l))
           /\ Redirect(s, a, kept, l) = l <=> Place(s, a, l)
<1>1. kept = NoToken \/ (kept \in Location /\ kept \notin AuthPages \cup {"splash"})
  BY TokensAreNotPages
<1>2. {"splash", "setup", "login", "households"} \subseteq Location
  BY DEF Location, Pages, Inside, AuthPages
<1>3. "login" \in AuthPages /\ "households" \notin AuthPages \cup {"splash"}
      /\ "splash" \notin AuthPages
  BY DEF AuthPages
<1>4. CASE s # "configured"
  BY <1>2, <1>4 DEF Redirect, Place, Servers
<1>5. CASE s = "configured" /\ a # "in"
  BY <1>2, <1>3, <1>5 DEF Redirect, Place, Sessions
<1>6. CASE s = "configured" /\ a = "in"
  BY <1>1, <1>2, <1>3, <1>6 DEF Redirect, Place
<1> QED
  BY <1>4, <1>5, <1>6

\* So who belongs where does not depend on the invite.
LEMMA Belonging ==
    ASSUME NEW s \in Servers, NEW a \in Sessions,
           NEW kept \in Tokens \cup {NoToken},
           NEW below \in Location, NEW above \in Location \cup {NoPage}
    PROVE  (\A l \in {below, above} \ {NoPage} : Redirect(s, a, kept, l) = l)
           <=> /\ Place(s, a, below)
               /\ above # NoPage => Place(s, a, above)
<1>1. below # NoPage
  BY RouterAssumption DEF Location
<1>2. /\ Redirect(s, a, kept, below) = below <=> Place(s, a, below)
      /\ above # NoPage => (Redirect(s, a, kept, above) = above <=> Place(s, a, above))
  BY RedirectFindsAPlace
<1> QED
  BY <1>1, <1>2

-----------------------------------------------------------------------------
(* The steps of the screen *)

LEMMA InitScreen == RouterInit => ScreenIInv
<1> SUFFICES ASSUME RouterInit PROVE ScreenIInv
  OBVIOUS
<1>1. RouterTypeOK
  <2>1. "splash" \in Location /\ 0 \in 0 .. MaxRestarts
    BY RouterAssumption DEF Location, Pages
  <2> QED
    BY <2>1 DEF RouterInit, RouterTypeOK
<1>2. WhereTheyBelong
  BY DEF RouterInit, WhereTheyBelong, Redirect
<1>3. "splash" \notin Tokens
  BY TokensAreNotPages
<1>4. UrlReadFirst /\ PushedOnScreens /\ KeptWhenKnown /\ InviteIsKept /\ JoinsBeginOnce
  BY <1>3
  DEF RouterInit, UrlReadFirst, PushedOnScreens, KeptWhenKnown, InviteIsKept, Kept,
      JoinsBeginOnce
<1> QED
  BY <1>1, <1>2, <1>4 DEF ScreenIInv

(***************************************************************************)
(* The server or the session changes.  An invite that is read by somebody  *)
(* whose session ends is kept; one that is kept is opened at the login.    *)
(***************************************************************************)
LEMMA NowKeepsScreen ==
    ASSUME ScreenIInv, NEW s \in Servers, NEW a \in Sessions, Now(s, a),
           reading' \subseteq reading, saved' \subseteq {"url", "token"},
           saving' \in BOOLEAN, begun' \subseteq begun,
           UNCHANGED <<restarts, opened, untimely>>,
           "url" \in reading' => s = "unknown",
           s = "configured" /\ a = "out" /\ base \in Tokens => base \notin begun',
           opened # NoToken /\ ~ untimely => s = "configured" /\ a # "unknown"
    PROVE  ScreenIInv'
<1>0. RouterTypeOK /\ Place(server, auth, base)
  BY Belonging DEF ScreenIInv, RouterTypeOK, WhereTheyBelong, Servers, Sessions
<1>1. /\ server' = s /\ auth' = a /\ base' = Redirect(s, a, pending, base)
      /\ over' = IF base' = base THEN over ELSE NoPage
      /\ pending' = IF s = "configured" /\ a = "out" /\ base \in Tokens THEN base ELSE pending
      /\ asked' = (asked /\ base' \in Tokens)
  BY DEF Now, Stash
<1>2. base' \in Location /\ Place(s, a, base')
  BY <1>0, <1>1, RedirectFindsAPlace DEF RouterTypeOK
<1>3. RouterTypeOK'
  BY <1>0, <1>1, <1>2 DEF RouterTypeOK, Servers, Sessions
<1>4. UrlReadFirst'
  BY <1>1 DEF UrlReadFirst
<1>5. PushedOnScreens'
  BY <1>1 DEF ScreenIInv, PushedOnScreens
<1>6. over' # NoPage => Place(s, a, over')
  BY <1>1, <1>2, <1>5 DEF PushedOnScreens, Place, Inside, AuthPages
<1>7. WhereTheyBelong'
  <2>1. \A l \in {base', over'} \ {NoPage} : Redirect(s, a, pending', l) = l
    BY <1>2, <1>3, <1>6, Belonging DEF RouterTypeOK
  <2> QED
    BY <1>1, <2>1 DEF WhereTheyBelong
<1>8. KeptWhenKnown'
  BY <1>1 DEF ScreenIInv, KeptWhenKnown
<1>9. base' = base \/ base' = pending \/ base' \notin Tokens
  BY <1>1, TokensAreNotPages DEF Redirect, Servers, Sessions, AuthPages, Inside
<1>10. InviteIsKept'
  <2> SUFFICES ASSUME opened # NoToken, ~ untimely
               PROVE  IF a = "in" THEN base' = opened ELSE pending' = opened
    BY <1>1 DEF InviteIsKept, Kept
  <2>1. /\ s = "configured" /\ a \in {"in", "out"}
        /\ server = "configured" /\ auth \in {"in", "out"} /\ opened \in Tokens
        /\ IF auth = "in" THEN base = opened ELSE pending = opened
    BY <1>0 DEF ScreenIInv, KeptWhenKnown, InviteIsKept, Kept, RouterTypeOK, Sessions
  <2>2. auth = "out" => base \in AuthPages
    BY <1>0, <2>1 DEF Place
  <2>3. opened \notin AuthPages \cup {"splash"}
    BY <2>1, TokensAreNotPages
  <2>4. CASE a = "in"
    BY <1>1, <2>1, <2>2, <2>3, <2>4 DEF Redirect
  <2>5. CASE a = "out"
    <3>1. base \in AuthPages => base \notin Tokens
      BY TokensAreNotPages
    <3> QED
      BY <1>1, <2>1, <2>2, <2>5, <3>1
  <2> QED
    BY <2>1, <2>4, <2>5
<1>11. JoinsBeginOnce'
  BY <1>1, <1>9 DEF ScreenIInv, JoinsBeginOnce
<1> QED
  BY <1>3, <1>4, <1>5, <1>7, <1>8, <1>10, <1>11 DEF ScreenIInv

\* A location is opened: an invite, or a page by somebody who is not just
\* about to read one.
LEMMA GoToKeepsScreen ==
    ASSUME ScreenIInv, NEW l \in Location, GoTo(l),
           UNCHANGED <<server, auth, storage, restarts>>,
           \/ /\ l \in Tokens /\ opened' = l
              /\ untimely' = (server # "configured" \/ auth = "unknown" \/ asked)
              /\ begun' = begun \ {l}
           \/ /\ l \notin Tokens /\ UNCHANGED history
              /\ opened # NoToken /\ ~ untimely => auth # "in"
    PROVE  ScreenIInv'
<1>0. RouterTypeOK
  BY DEF ScreenIInv
<1>1. /\ base' = Redirect(server, auth, pending, l) /\ over' = NoPage
      /\ pending' = IF server = "configured" /\ auth = "out" /\ l \in Tokens THEN l ELSE pending
      /\ asked' = (asked /\ base' \in Tokens) /\ saving' \in BOOLEAN
      /\ UNCHANGED <<server, auth, reading, saved, restarts>>
  BY DEF GoTo, Stash, storage
<1>2. /\ server \in Servers /\ auth \in Sessions /\ pending \in Tokens \cup {NoToken}
      /\ NoPage \notin Location
  BY <1>0, RouterAssumption DEF RouterTypeOK, Servers, Sessions, Location
<1>3. base' \in Location /\ Place(server, auth, base')
  BY <1>1, <1>2, RedirectFindsAPlace
<1>4. RouterTypeOK'
  BY <1>0, <1>1, <1>3 DEF RouterTypeOK, history
<1>5. UrlReadFirst' /\ PushedOnScreens'
  BY <1>1 DEF ScreenIInv, UrlReadFirst, PushedOnScreens
<1>6. WhereTheyBelong'
  <2>1. pending' \in Tokens \cup {NoToken} /\ over' \in Location \cup {NoPage}
    BY <1>4 DEF RouterTypeOK
  <2>2. \A k \in {base', over'} \ {NoPage} : Redirect(server, auth, pending', k) = k
    BY <1>1, <1>2, <1>3, <2>1, Belonging
  <2> QED
    BY <1>1, <2>2 DEF WhereTheyBelong
<1>7. KeptWhenKnown'
  BY <1>1 DEF ScreenIInv, KeptWhenKnown, history
<1>8. InviteIsKept'
  <2>1. CASE l \in Tokens
    <3>1. l \notin AuthPages \cup {"splash"}
      BY <2>1, TokensAreNotPages
    <3>2. opened' = l /\ (~ untimely' => server = "configured" /\ auth \in {"in", "out"})
      BY <1>2, <2>1 DEF Sessions
    <3> QED
      BY <1>1, <2>1, <3>1, <3>2 DEF InviteIsKept, Kept, Redirect
  <2>2. CASE l \notin Tokens
    BY <1>1, <2>2 DEF ScreenIInv, InviteIsKept, Kept, history
  <2> QED
    BY <2>1, <2>2
<1>9. base' = l \/ base' = pending \/ base' \notin Tokens
  BY <1>1, <1>2, TokensAreNotPages DEF Redirect, AuthPages, Inside, Servers, Sessions
<1>10. JoinsBeginOnce'
  <2>1. CASE l \in Tokens
    <3>1. opened' = l /\ begun' = begun \ {l} /\ (asked => untimely')
      BY <2>1
    <3> QED
      BY <1>1, <1>9, <2>1, <3>1 DEF ScreenIInv, JoinsBeginOnce
  <2>2. CASE l \notin Tokens
    <3>1. UNCHANGED <<opened, untimely, begun, pending>>
      BY <1>1, <2>2 DEF history
    <3> QED
      BY <1>1, <1>9, <2>2, <3>1 DEF ScreenIInv, JoinsBeginOnce
  <2> QED
    BY <2>1, <2>2
<1> QED
  BY <1>4, <1>5, <1>6, <1>7, <1>8, <1>10 DEF ScreenIInv

\* A page is pushed, and goes again.
LEMMA PushKeepsScreen ==
    ASSUME ScreenIInv, NEW l \in Pages, Push(l) \/ Pop
    PROVE  ScreenIInv'
<1>0. RouterTypeOK
  BY DEF ScreenIInv
<1>1. /\ UNCHANGED <<server, auth, storage, base, pending, asked, restarts, history>>
      /\ saving' \in BOOLEAN
  BY <1>0 DEF Push, Pop, RouterTypeOK
<1>2. /\ server \in Servers /\ auth \in Sessions /\ pending \in Tokens \cup {NoToken}
      /\ base \in Location /\ NoPage \notin Location /\ over \in Location \cup {NoPage}
  BY <1>0, RouterAssumption DEF RouterTypeOK, Servers, Sessions, Location
<1>3. Place(server, auth, base)
  BY <1>2, Belonging DEF ScreenIInv, WhereTheyBelong
<1>4. /\ over' \in Location \cup {NoPage}
      /\ over' # NoPage => /\ Place(server, auth, over')
                           /\ \/ base \in Inside /\ over' \in {"household", "setup"}
                              \/ base = "login" /\ over' = "login"
  <2>1. CASE Push(l)
    <3>1. l \in Location /\ over' = Redirect(server, auth, pending, l)
      BY <2>1 DEF Push, Location
    <3>2. over' \in Location /\ Place(server, auth, over')
      BY <1>2, <3>1, RedirectFindsAPlace
    <3>3. CASE base \in Inside /\ l \in {"household", "setup"}
      <4>1. server = "configured" /\ auth = "in"
        BY <1>3, <3>3 DEF Place, Inside, AuthPages
      <4> QED
        BY <3>1, <3>2, <3>3, <4>1 DEF Redirect, AuthPages
    <3>4. CASE base = "login" /\ l = "setup"
      <4>1. server = "configured" /\ auth = "out"
        BY <1>3, <3>4 DEF Place, AuthPages
      <4> QED
        BY <3>1, <3>2, <3>4, <4>1 DEF Redirect, AuthPages
    <3> QED
      BY <2>1, <3>3, <3>4 DEF Push
  <2>2. CASE Pop
    BY <2>2 DEF Pop
  <2> QED
    BY <2>1, <2>2
<1>5. RouterTypeOK'
  BY <1>0, <1>1, <1>4 DEF RouterTypeOK, storage, history
<1>6. WhereTheyBelong'
  BY <1>1, <1>2, <1>3, <1>4, Belonging DEF WhereTheyBelong
<1>7. PushedOnScreens'
  BY <1>1, <1>4 DEF PushedOnScreens
<1>8. UrlReadFirst' /\ KeptWhenKnown' /\ InviteIsKept' /\ JoinsBeginOnce'
  BY <1>1
  DEF ScreenIInv, UrlReadFirst, KeptWhenKnown, InviteIsKept, Kept, JoinsBeginOnce, storage,
      history
<1> QED
  BY <1>5, <1>6, <1>7, <1>8 DEF ScreenIInv

\* A join begins: the token is forgotten, and the link has been followed.
LEMMA BeginJoinKeepsScreen == ScreenIInv /\ BeginJoin => ScreenIInv'
<1> SUFFICES ASSUME ScreenIInv, BeginJoin PROVE ScreenIInv'
  OBVIOUS
<1>0. RouterTypeOK
  BY DEF ScreenIInv
<1>1. /\ base \in Tokens /\ asked' /\ pending' = NoToken /\ begun' = begun \cup {base}
      /\ opened' = IF opened = base THEN NoToken ELSE opened
      /\ UNCHANGED <<server, auth, storage, base, over, saving, restarts, untimely>>
  BY DEF BeginJoin
<1>2. /\ server \in Servers /\ auth \in Sessions /\ pending \in Tokens \cup {NoToken}
      /\ base \in Location /\ NoPage \notin Location /\ over \in Location \cup {NoPage}
      /\ NoToken \notin Tokens
  BY <1>0, RouterAssumption DEF RouterTypeOK, Servers, Sessions, Location
<1>3. RouterTypeOK'
  BY <1>0, <1>1 DEF BeginJoin, RouterTypeOK, storage
<1>4. Place(server, auth, base) /\ (over # NoPage => Place(server, auth, over))
  BY <1>2, Belonging DEF ScreenIInv, WhereTheyBelong
<1>5. auth = "in"
  BY <1>1, <1>4, TokensAreNotPages DEF Place
<1>6. WhereTheyBelong'
  BY <1>1, <1>2, <1>4, Belonging DEF WhereTheyBelong
<1>7. UrlReadFirst' /\ PushedOnScreens' /\ KeptWhenKnown' /\ InviteIsKept'
  BY <1>1, <1>5
  DEF ScreenIInv, UrlReadFirst, PushedOnScreens, KeptWhenKnown, InviteIsKept, Kept, storage
<1>8. JoinsBeginOnce'
  <2>1. opened' = NoToken \/ untimely'
    BY <1>1, <1>5 DEF ScreenIInv, InviteIsKept, Kept
  <2> QED
    BY <1>0, <1>1, <1>2, <2>1 DEF JoinsBeginOnce, RouterTypeOK
<1> QED
  BY <1>3, <1>6, <1>7, <1>8 DEF ScreenIInv

\* The process starts afresh.
LEMMA RestartKeepsScreen == ScreenIInv /\ Restart => ScreenIInv'
<1> SUFFICES ASSUME ScreenIInv, Restart PROVE ScreenIInv'
  OBVIOUS
<1>1. PICK l \in Tokens \cup {"splash"} : Launched(l)
  BY DEF Restart
<1>2. /\ server' = "unknown" /\ auth' = "unknown" /\ reading' = {"url", "token"}
      /\ base' = "splash" /\ over' = NoPage /\ pending' = NoToken
      /\ asked' = FALSE /\ saving' = FALSE /\ begun' = {} /\ UNCHANGED saved
      /\ opened' \in Tokens \cup {NoToken} /\ untimely' \in BOOLEAN
      /\ opened' # NoToken => untimely'
  <2>1. CASE l \in Tokens
    BY <1>1, <2>1 DEF Launched, Redirect, Restart
  <2>2. CASE l \notin Tokens
    BY <1>1, <2>2 DEF Launched, Redirect, Restart
  <2> QED
    BY <2>1, <2>2
<1>3. "splash" \in Location /\ "splash" \notin Tokens
  BY TokensAreNotPages DEF Location, Pages
<1>4. RouterTypeOK'
  <2>1. restarts' \in 0 .. MaxRestarts
    BY RouterAssumption DEF Restart, ScreenIInv, RouterTypeOK
  <2> QED
    BY <1>2, <1>3, <2>1 DEF ScreenIInv, RouterTypeOK
<1>5. WhereTheyBelong'
  BY <1>2 DEF WhereTheyBelong, Redirect
<1>6. UrlReadFirst' /\ PushedOnScreens' /\ KeptWhenKnown' /\ InviteIsKept' /\ JoinsBeginOnce'
  BY <1>2, <1>3
  DEF UrlReadFirst, PushedOnScreens, KeptWhenKnown, InviteIsKept, Kept, JoinsBeginOnce
<1> QED
  BY <1>4, <1>5, <1>6 DEF ScreenIInv

LEMMA NextKeepsScreen == ScreenIInv /\ [RouterNext]_routerVars => ScreenIInv'
<1> SUFFICES ASSUME ScreenIInv, [RouterNext]_routerVars PROVE ScreenIInv'
  OBVIOUS
<1>0. RouterTypeOK
  BY DEF ScreenIInv
<1>1. /\ server \in Servers /\ auth \in Sessions /\ pending \in Tokens \cup {NoToken}
      /\ base \in Location /\ over \in Location \cup {NoPage}
  BY <1>0 DEF RouterTypeOK, Servers, Sessions
<1>2. Place(server, auth, base) /\ (over # NoPage => Place(server, auth, over))
  BY <1>1, Belonging DEF ScreenIInv, WhereTheyBelong
<1>3. /\ {"unknown", "unconfigured", "configured"} \subseteq Servers
      /\ {"unknown", "in", "out"} \subseteq Sessions
  BY DEF Servers, Sessions
<1>4. base \in Tokens => server = "configured" /\ auth = "in"
  BY <1>2, TokensAreNotPages DEF Place
<1>5. CASE UrlRead
  <2>1. server = "unknown"
    BY <1>5 DEF UrlRead, ScreenIInv, UrlReadFirst
  <2>2. PICK s \in {"configured", "unconfigured"} : Now(s, auth)
    BY <1>5 DEF UrlRead
  <2>3. base \notin Tokens /\ (opened # NoToken => untimely)
    BY <1>4, <2>1 DEF ScreenIInv, KeptWhenKnown
  <2>4. /\ reading' \subseteq reading /\ "url" \notin reading'
        /\ UNCHANGED <<saved, saving, restarts, history>>
    BY <1>5 DEF UrlRead
  <2> QED
    BY <1>0, <1>1, <1>3, <2>2, <2>3, <2>4, NowKeepsScreen DEF RouterTypeOK, history
<1>6. CASE TokenRead
  <2>1. PICK a \in {"in", "out"} : Now(server, a)
    BY <1>6 DEF TokenRead
  <2>2. /\ reading' \subseteq reading /\ begun' = begun \ {base}
        /\ UNCHANGED <<saved, saving, restarts, opened, untimely>>
    BY <1>6 DEF TokenRead
  <2>3. "url" \in reading' => server = "unknown"
    BY <2>2 DEF ScreenIInv, UrlReadFirst
  <2>4. opened # NoToken /\ ~ untimely => server = "configured" /\ a # "unknown"
    BY DEF ScreenIInv, KeptWhenKnown
  <2> QED
    BY <1>0, <1>1, <1>3, <2>1, <2>2, <2>3, <2>4, NowKeepsScreen DEF RouterTypeOK
<1>7. CASE LogIn
  <2>1. /\ Now(server, "in") /\ server = "configured"
        /\ saved' = saved \cup {"token"} /\ UNCHANGED <<reading, saving, restarts, history>>
    BY <1>7 DEF LogIn
  <2> QED
    BY <1>0, <1>1, <1>3, <2>1, NowKeepsScreen DEF ScreenIInv, UrlReadFirst, RouterTypeOK, history
<1>8. CASE EndSession \/ SessionOfOldServerEnds
  <2>1. /\ Now(server, "out") /\ saved' = saved \ {"token"} /\ begun' = begun \ {base}
        /\ UNCHANGED <<reading, restarts, opened, untimely>> /\ saving' \in BOOLEAN
    BY <1>0, <1>8 DEF EndSession, SessionOfOldServerEnds, SessionEnded, RouterTypeOK
  <2>2. opened # NoToken /\ ~ untimely => server = "configured"
    BY DEF ScreenIInv, KeptWhenKnown
  <2> QED
    BY <1>0, <1>1, <1>3, <2>1, <2>2, NowKeepsScreen DEF ScreenIInv, UrlReadFirst, RouterTypeOK
<1>9. CASE SetUrl
  <2>1. /\ Now("configured", auth) /\ saved' = saved \cup {"url"} /\ saving'
        /\ UNCHANGED <<reading, restarts, history>>
    BY <1>9 DEF SetUrl
  <2>2. server # "unknown"
    <3>1. CASE over = NoPage
      BY <1>2, <1>9, <3>1 DEF SetUrl, Top, Place
    <3>2. CASE over # NoPage
      BY <1>2, <1>9, <3>2 DEF SetUrl, Top, Place
    <3> QED
      BY <3>1, <3>2
  <2>3. "url" \notin reading
    BY <2>2 DEF ScreenIInv, UrlReadFirst
  <2>4. auth = "out" => base \notin Tokens
    BY <1>4
  <2>5. opened # NoToken /\ ~ untimely => auth # "unknown"
    BY DEF ScreenIInv, KeptWhenKnown
  <2> QED
    BY <1>0, <1>1, <1>3, <2>1, <2>3, <2>4, <2>5, NowKeepsScreen DEF RouterTypeOK, history
<1>10. ASSUME NEW t \in Tokens, OpenLink(t) PROVE ScreenIInv'
  BY <1>10, GoToKeepsScreen DEF OpenLink, Location
<1>11. ASSUME NEW l \in Pages, Go(l) PROVE ScreenIInv'
  <2>1. l \in Location /\ l \notin Tokens /\ GoTo(l)
        /\ UNCHANGED <<server, auth, storage, restarts, history>>
    BY <1>11, RouterAssumption DEF Go, Location
  <2>2. ASSUME opened # NoToken, ~ untimely, auth = "in" PROVE FALSE
    <3>1. base \in Tokens
      BY <1>0, <2>2 DEF ScreenIInv, InviteIsKept, Kept, RouterTypeOK
    <3>2. over = NoPage
      BY <3>1, TokensAreNotPages DEF ScreenIInv, PushedOnScreens, AuthPages
    <3> QED
      BY <1>11, <3>1, <3>2, TokensAreNotPages DEF Go, Top
  <2> QED
    BY <2>1, <2>2, GoToKeepsScreen
<1>12. ASSUME NEW l \in Pages, Push(l) PROVE ScreenIInv'
  BY <1>12, PushKeepsScreen
<1>13. CASE Pop
  BY <1>13, PushKeepsScreen DEF Pages
<1>14. CASE JoinAnswered
  <2>1. PICK l \in Inside : GoTo(l)
    BY <1>14 DEF JoinAnswered
  <2>2. l \in Location /\ l \notin Tokens
    BY RouterAssumption DEF Location, Pages
  <2>3. opened # NoToken /\ ~ untimely => auth # "in"
    BY <1>14 DEF JoinAnswered, ScreenIInv, InviteIsKept, Kept, JoinsBeginOnce
  <2> QED
    BY <1>14, <2>1, <2>2, <2>3, GoToKeepsScreen DEF JoinAnswered
<1>15. CASE UrlReadThrows
  <2>1. /\ reading' \subseteq reading
        /\ UNCHANGED <<server, auth, saved, base, over, pending, asked, saving, restarts,
                       history>>
    BY <1>15 DEF UrlReadThrows
  <2> QED
    BY <2>1
    DEF ScreenIInv, RouterTypeOK, UrlReadFirst, WhereTheyBelong, PushedOnScreens, KeptWhenKnown,
        InviteIsKept, Kept, JoinsBeginOnce, history
<1>16. CASE UNCHANGED routerVars
  BY <1>16
  DEF ScreenIInv, RouterTypeOK, UrlReadFirst, WhereTheyBelong, PushedOnScreens, KeptWhenKnown,
      InviteIsKept, Kept, JoinsBeginOnce, routerVars, storage, history
<1> QED
  BY <1>5, <1>6, <1>7, <1>8, <1>9, <1>10, <1>11, <1>12, <1>13, <1>14, <1>15, <1>16,
     BeginJoinKeepsScreen, RestartKeepsScreen
  DEF RouterNext
-----------------------------------------------------------------------------
(* What follows for the screen *)

\* What every reachable state satisfies.
THEOREM ScreenInductive == RouterSpec => []ScreenIInv
<1> QED
  BY InitScreen, NextKeepsScreen, PTL DEF RouterSpec

(***************************************************************************)
(* app_router.dart: after any sequence of starts, sessions, servers, links *)
(* and pages the redirect would leave everything where it is.              *)
(***************************************************************************)
THEOREM EverybodyIsWhereTheyBelong == RouterSpec => []WhereTheyBelong
<1>1. ScreenIInv => WhereTheyBelong
  BY DEF ScreenIInv
<1> QED
  BY <1>1, ScreenInductive, PTL

(***************************************************************************)
(* pending_join_provider.dart: an invite opened once the app knew where it *)
(* stood, and with no join under way, is on the screen or kept for the     *)
(* login, until its join begins.                                           *)
(***************************************************************************)
THEOREM InvitesAreAlwaysKept == RouterSpec => []InviteIsKept
<1>1. ScreenIInv => InviteIsKept
  BY DEF ScreenIInv
<1> QED
  BY <1>1, ScreenInductive, PTL

(***************************************************************************)
(* join_invite_screen.dart forgets the token before it sends it: no later  *)
(* login begins a join that has begun already.                             *)
(***************************************************************************)
THEOREM NoJoinIsEverStale == RouterSpec => NoStaleJoin
<1>1. ScreenIInv /\ [RouterNext]_routerVars => [~ asked /\ asked' => base \notin begun]_routerVars
  <2> SUFFICES ASSUME ScreenIInv, RouterNext, ~ asked, asked'
               PROVE  base \notin begun
    OBVIOUS
  <2>1. BeginJoin
    BY DEF RouterNext, Restart, Launched, UrlRead, UrlReadThrows, TokenRead, LogIn, EndSession,
           SetUrl, SessionOfOldServerEnds, SessionEnded, OpenLink, Go, Push, Pop,
           JoinAnswered, Now, GoTo
  <2> QED
    BY <2>1 DEF BeginJoin, ScreenIInv, JoinsBeginOnce
<1> QED
  BY <1>1, ScreenInductive, PTL DEF RouterSpec, NoStaleJoin
================================================================================
