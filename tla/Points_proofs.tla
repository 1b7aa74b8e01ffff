---------------------------- MODULE Points_proofs ----------------------------
(***************************************************************************)
(* Theorems about the points of a chore: ChoreRow, that a completion is    *)
(* awarded once, for any number of users and transactions; Leaderboard and *)
(* Calendar, that a board shows what was awarded and a series keeps its    *)
(* cadence, for any household, any history and any dates.                  *)
(***************************************************************************)
EXTENDS ChoreRow, Leaderboard, FiniteSetTheorems, WellFoundedInduction, TLAPS

(***************************************************************************)
(* Between its last statement and its COMMIT a transaction, and no other,  *)
(* holds the row lock ...                                                  *)
(***************************************************************************)
LockedUntilCommit ==
    \A r \in Requests : pc[r] = "commit" <=> lock = r

\* ... every statement is executed by a handler that has it ...
Called ==
    \A r \in Requests :
        /\ pc[r] \notin {"idle", "done"} => call[r] \in Call
        /\ pc[r] = "lock" => call[r].kind \in {"complete", "dismiss"}
        /\ pc[r] = "read" => call[r].kind \in {"reassign", "redistribute"}

\* ... and what it is about to commit is one step away from the row.
DraftFollowsRow(r) ==
    \/ /\ call[r].kind \in {"complete", "dismiss"}
       /\ row.status \in Open
       /\ draft[r].status = IF call[r].kind = "complete" THEN "complete" ELSE "dismissed"
       /\ draft[r].assignee = row.assignee
    \/ /\ call[r].kind \in {"reassign", "redistribute"}
       /\ draft[r].status = row.status
    \/ /\ call[r].kind \in {"flag", "cancel"}
       /\ row.status = "pending"
       /\ draft[r].status = IF call[r].kind = "flag" THEN "overdue" ELSE "cancelled"
       /\ draft[r].assignee = row.assignee

DraftsFollowRow == \A r \in Requests : pc[r] = "commit" => DraftFollowsRow(r)

IInv == TypeOK /\ LockedUntilCommit /\ Called /\ DraftsFollowRow /\ OneAward
-----------------------------------------------------------------------------
LEMMA CallKinds ==
    ASSUME NEW c \in Call
    PROVE  /\ c.kind \in AllKinds
           /\ c.kind \in {"reassign", "redistribute"} => c.to \in Users \cup {NoUser}
  BY DEF Call, AllKinds

LEMMA InitIInv == Init => IInv
  BY ChoreRowAssumption
  DEF Init, IInv, TypeOK, LockedUntilCommit, Called, DraftsFollowRow,
      OneAward, Row, Open, Terminal, Steps

\* A statement of one transaction leaves the others where they are.
LEMMA BeginKeepsIInv ==
    ASSUME IInv, NEW r \in Requests, NEW c \in Call, Begin(r, c)
    PROVE  IInv'
<1>1. /\ FirstStep(c.kind) \in {"lock", "read", "update"}
      /\ FirstStep(c.kind) = "lock" => c.kind \in {"complete", "dismiss"}
      /\ FirstStep(c.kind) = "read" => c.kind \in {"reassign", "redistribute"}
  BY CallKinds DEF FirstStep, AllKinds
<1>2. TypeOK'
  BY <1>1 DEF Begin, Goto, IInv, TypeOK, Steps
<1>3. LockedUntilCommit' /\ Called'
  BY <1>1 DEF Begin, Goto, IInv, TypeOK, LockedUntilCommit, Called
<1>4. DraftsFollowRow' /\ OneAward'
  BY <1>1 DEF Begin, Goto, IInv, TypeOK, DraftsFollowRow, DraftFollowsRow, OneAward
<1> QED
  BY <1>2, <1>3, <1>4 DEF IInv

LEMMA LockToCloseKeepsIInv ==
    ASSUME IInv, NEW r \in Requests, LockToClose(r)
    PROVE  IInv'
<1>1. CASE MayClose(r)
  <2>1. TypeOK'
    BY <1>1 DEF LockToClose, Goto, IInv, TypeOK, Steps, Row, Terminal
  <2>2. LockedUntilCommit' /\ Called'
    BY <1>1, ChoreRowAssumption
    DEF LockToClose, Free, Goto, IInv, TypeOK, LockedUntilCommit, Called
  <2>3. DraftFollowsRow(r)'
    BY <1>1
    DEF LockToClose, MayClose, Goto, IInv, TypeOK, Called, DraftFollowsRow,
        Row, Open, Terminal
  <2>4. DraftsFollowRow' /\ OneAward'
    BY <1>1, <2>3, ChoreRowAssumption
    DEF LockToClose, Free, Goto, IInv, TypeOK, LockedUntilCommit,
        DraftsFollowRow, OneAward
  <2> QED
    BY <2>1, <2>2, <2>4 DEF IInv
<1>2. CASE ~MayClose(r)
  BY <1>2
  DEF LockToClose, Goto, IInv, TypeOK, Steps, LockedUntilCommit, Called,
      DraftsFollowRow, DraftFollowsRow, OneAward
<1> QED
  BY <1>1, <1>2

LEMMA ReadOpenRowKeepsIInv ==
    ASSUME IInv, NEW r \in Requests, ReadOpenRow(r)
    PROVE  IInv'
<1>1. PICK step \in {"update", "done"} : Goto(r, step)
  BY DEF ReadOpenRow
<1> QED
  BY <1>1
  DEF ReadOpenRow, Goto, IInv, TypeOK, Steps, LockedUntilCommit, Called,
      DraftsFollowRow, DraftFollowsRow, OneAward

LEMMA UpdateAssigneeKeepsIInv ==
    ASSUME IInv, NEW r \in Requests, UpdateAssignee(r)
    PROVE  IInv'
<1>1. call[r].to \in Users \cup {NoUser}
  BY CallKinds DEF UpdateAssignee, IInv, Called
<1>2. TypeOK'
  BY <1>1 DEF UpdateAssignee, Goto, IInv, TypeOK, Steps, Row
<1>3. LockedUntilCommit' /\ Called'
  BY ChoreRowAssumption
  DEF UpdateAssignee, Free, Goto, IInv, TypeOK, LockedUntilCommit, Called
<1>4. DraftFollowsRow(r)'
  BY DEF UpdateAssignee, Goto, IInv, TypeOK, DraftFollowsRow, Row
<1>5. DraftsFollowRow' /\ OneAward'
  BY <1>4, ChoreRowAssumption
  DEF UpdateAssignee, Free, Goto, IInv, TypeOK, LockedUntilCommit,
      DraftsFollowRow, OneAward
<1> QED
  BY <1>2, <1>3, <1>5 DEF IInv

LEMMA UpdateWherePendingKeepsIInv ==
    ASSUME IInv, NEW r \in Requests, UpdateWherePending(r)
    PROVE  IInv'
<1>1. CASE row.status = "pending"
  <2>1. TypeOK'
    BY <1>1 DEF UpdateWherePending, Goto, IInv, TypeOK, Steps, Row, Open, Terminal
  <2>2. LockedUntilCommit' /\ Called'
    BY <1>1, ChoreRowAssumption
    DEF UpdateWherePending, Free, Goto, IInv, TypeOK, LockedUntilCommit, Called
  <2>3. DraftFollowsRow(r)'
    BY <1>1 DEF UpdateWherePending, Goto, IInv, TypeOK, DraftFollowsRow, Row
  <2>4. DraftsFollowRow' /\ OneAward'
    BY <1>1, <2>3, ChoreRowAssumption
    DEF UpdateWherePending, Free, Goto, IInv, TypeOK, LockedUntilCommit,
        DraftsFollowRow, OneAward
  <2> QED
    BY <2>1, <2>2, <2>4 DEF IInv
<1>2. CASE row.status # "pending"
  BY <1>2
  DEF UpdateWherePending, Goto, IInv, TypeOK, Steps, LockedUntilCommit, Called,
      DraftsFollowRow, DraftFollowsRow, OneAward
<1> QED
  BY <1>1, <1>2

LEMMA CommitKeepsIInv ==
    ASSUME IInv, NEW r \in Requests, Commit(r)
    PROVE  IInv'
<1>1. DraftFollowsRow(r) /\ lock = r
  BY DEF Commit, IInv, DraftsFollowRow, LockedUntilCommit
<1>2. TypeOK'
  BY DEF Commit, Goto, IInv, TypeOK, Steps, Row
<1>3. LockedUntilCommit' /\ Called'
  BY <1>1, ChoreRowAssumption
  DEF Commit, Goto, IInv, TypeOK, LockedUntilCommit, Called
<1>4. DraftsFollowRow'
  BY <1>1
  DEF Commit, Goto, IInv, TypeOK, LockedUntilCommit, DraftsFollowRow
<1>5. OneAward'
  <2>1. CASE call[r].kind = "complete"
    BY <1>1, <2>1 DEF Commit, IInv, OneAward, DraftFollowsRow, Open
  <2>2. CASE call[r].kind # "complete"
    BY <1>1, <2>2 DEF Commit, IInv, OneAward, DraftFollowsRow, Open
  <2> QED
    BY <2>1, <2>2
<1> QED
  BY <1>2, <1>3, <1>4, <1>5 DEF IInv

LEMMA AbortKeepsIInv ==
    ASSUME IInv, NEW r \in Requests, Abort(r)
    PROVE  IInv'
  BY ChoreRowAssumption
  DEF Abort, Goto, IInv, TypeOK, Steps, LockedUntilCommit, Called,
      DraftsFollowRow, DraftFollowsRow, OneAward

LEMMA NextKeepsIInv == IInv /\ [Next]_vars => IInv'
<1> SUFFICES ASSUME IInv, [Next]_vars PROVE IInv'
  OBVIOUS
<1>1. CASE UNCHANGED vars
  BY <1>1
  DEF vars, IInv, TypeOK, LockedUntilCommit, Called, DraftsFollowRow,
      DraftFollowsRow, OneAward
<1>2. CASE Next
  BY <1>2, BeginKeepsIInv, LockToCloseKeepsIInv, ReadOpenRowKeepsIInv,
     UpdateAssigneeKeepsIInv, UpdateWherePendingKeepsIInv, CommitKeepsIInv,
     AbortKeepsIInv
  DEF Next, Work
<1> QED
  BY <1>1, <1>2

(***************************************************************************)
(* The invariant of the row locks, for any number of transactions: only    *)
(* the one that holds the lock of the row is between its statement and its *)
(* COMMIT, on a draft based on the committed row.                          *)
(***************************************************************************)
THEOREM InductiveInvariant == Spec => []IInv
  BY InitIInv, NextKeepsIInv, PTL DEF Spec

(***************************************************************************)
(* BR-013 and NFR-012 for any number of simultaneous transactions on a     *)
(* row, completions, hand-overs and background jobs alike: at most one     *)
(* award, and only for a completed chore.                                  *)
(***************************************************************************)
THEOREM OneAwardAlways == Spec => []OneAward
<1>1. IInv => OneAward
  BY DEF IInv
<1> QED
  BY <1>1, InductiveInvariant, PTL

\* Only a COMMIT changes the committed row or the ledger.
LEMMA OnlyCommitsWrite ==
    ASSUME [Next]_vars
    PROVE  \/ UNCHANGED <<row, ledger>>
           \/ \E r \in Requests : Commit(r)
  BY DEF Next, Work, vars, Begin, LockToClose, ReadOpenRow, UpdateAssignee,
         UpdateWherePending, Abort

(***************************************************************************)
(* FR-049 likewise: no transaction under way when an instance is closed    *)
(* reopens it or closes it otherwise.                                      *)
(***************************************************************************)
THEOREM ClosedForGoodAlways == Spec => ClosedForGood
<1>1. IInv /\ [Next]_vars => [Closed => row'.status = row.status]_vars
  <2> SUFFICES ASSUME IInv, [Next]_vars, Closed
               PROVE  row'.status = row.status
    OBVIOUS
  <2>1. ASSUME NEW r \in Requests, Commit(r)
        PROVE  row'.status = row.status
    BY <2>1
    DEF Commit, IInv, DraftsFollowRow, DraftFollowsRow, Closed, Terminal, Open
  <2> QED
    BY <2>1, OnlyCommitsWrite
<1> QED
  BY <1>1, InductiveInvariant, PTL DEF Spec, ClosedForGood

(***************************************************************************)
(* A hand-over that overlaps a completion never moves the points: they go  *)
(* to the committed holder at the moment of the completion's COMMIT.       *)
(***************************************************************************)
THEOREM HolderIsCreditedAlways == Spec => HolderIsCredited
<1>1. IInv /\ [Next]_vars =>
        [\A e \in ledger' \ ledger : e.user = row.assignee]_vars
  <2> SUFFICES ASSUME IInv, [Next]_vars, NEW e \in ledger' \ ledger
               PROVE  e.user = row.assignee
    OBVIOUS
  <2>1. ASSUME NEW r \in Requests, Commit(r)
        PROVE  e.user = row.assignee
    BY <2>1 DEF Commit, IInv, DraftsFollowRow, DraftFollowsRow
  <2> QED
    BY <2>1, OnlyCommitsWrite
<1> QED
  BY <1>1, InductiveInvariant, PTL DEF Spec, HolderIsCredited

(***************************************************************************)
(* The refinement: statement by statement the row takes the steps of       *)
(* ChoreLifecycle, for any number of transactions.  A COMMIT is the step   *)
(* of its handler, everything before it a stutter; that no award can have  *)
(* been made before a completion comes from OneAward.                      *)
(***************************************************************************)
LEMMA CommitIsLifecycleStep ==
    ASSUME IInv, NEW r \in Requests, Commit(r)
    PROVE  Lifecycle!Next \/ LateHandOver
<1> USE DEF Lifecycle!Open, Lifecycle!Terminal, Lifecycle!Holders
<1>1. row' = draft[r] /\ row' \in Row /\ DraftFollowsRow(r)
  BY DEF Commit, IInv, TypeOK, DraftsFollowRow
<1>2. CASE call[r].kind = "complete"
  <2>1. /\ row.status \in Open /\ row'.status = "complete"
        /\ row'.assignee = row.assignee
        /\ ledger = {}
    BY <1>1, <1>2 DEF DraftFollowsRow, IInv, OneAward, Open
  <2>2. ledger' = IF row.assignee = NoUser THEN {}
                  ELSE {[by |-> r, user |-> row.assignee]}
    BY <1>1, <1>2, <2>1 DEF Commit
  <2>3. {e.user : e \in ledger'} = {row.assignee} \ {NoUser}
    <3>1. CASE row.assignee = NoUser
      BY <2>2, <3>1
    <3>2. CASE row.assignee # NoUser
      BY <2>2, <3>2
    <3> QED
      BY <3>1, <3>2
  <2> QED
    BY <2>1, <2>3 DEF Lifecycle!Next, Lifecycle!Complete, Open
<1>3. CASE call[r].kind # "complete"
  <2>1. ledger' = ledger
    BY <1>3 DEF Commit
  <2>2. {e.user : e \in ledger'} = {e.user : e \in ledger}
    BY <2>1
  <2>3. CASE call[r].kind = "dismiss"
    <3>1. /\ row.status \in Open /\ row'.status = "dismissed"
          /\ row'.assignee = row.assignee
      BY <1>1, <2>3 DEF DraftFollowsRow
    <3> QED
      BY <3>1, <2>2 DEF Lifecycle!Next, Lifecycle!Dismiss, Open
  <2>4. CASE call[r].kind \in {"reassign", "redistribute"}
    <3>1. CASE Closed
      BY <2>4, <3>1 DEF LateHandOver
    <3>2. CASE ~Closed
      <4>1. row.status \in Open /\ row'.status = row.status
        BY <1>1, <2>4, <3>2
        DEF DraftFollowsRow, Closed, IInv, TypeOK, Row, Open, Terminal
      <4> QED
        BY <1>1, <4>1, <2>2
        DEF Row, Lifecycle!Next, Lifecycle!HandOver, Open
    <3> QED
      BY <3>1, <3>2
  <2>5. CASE call[r].kind = "flag"
    <3>1. /\ row.status = "pending" /\ row'.status = "overdue"
          /\ row'.assignee = row.assignee
      BY <1>1, <2>5 DEF DraftFollowsRow
    <3> QED
      BY <3>1, <2>2 DEF Lifecycle!Next, Lifecycle!FallOverdue
  <2>6. CASE call[r].kind = "cancel"
    <3>1. /\ row.status = "pending" /\ row'.status = "cancelled"
          /\ row'.assignee = row.assignee
      BY <1>1, <2>6 DEF DraftFollowsRow
    <3> QED
      BY <3>1, <2>2 DEF Lifecycle!Next, Lifecycle!Cancel
  <2> QED
    BY <1>1, <1>3, <2>3, <2>4, <2>5, <2>6 DEF DraftFollowsRow
<1> QED
  BY <1>2, <1>3

(***************************************************************************)
(* chore_instance.py's life cycle under concurrency: the row implements    *)
(* ChoreLifecycle, for any number of transactions at once, up to           *)
(* hand-overs that come late.                                              *)
(***************************************************************************)
THEOREM KeepsLifecycleAlways == Spec => KeepsLifecycle
<1>1. IInv /\ [Next]_vars => [Lifecycle!Next \/ LateHandOver]_(Lifecycle!vars)
  <2> SUFFICES ASSUME IInv, [Next]_vars
               PROVE  Lifecycle!Next \/ LateHandOver \/ UNCHANGED Lifecycle!vars
    OBVIOUS
  <2>1. CASE UNCHANGED <<row, ledger>>
    BY <2>1 DEF Lifecycle!vars
  <2>2. CASE \E r \in Requests : Commit(r)
    BY <2>2, CommitIsLifecycleStep
  <2> QED
    BY <2>1, <2>2, OnlyCommitsWrite
<1> QED
  BY <1>1, InductiveInvariant, PTL DEF Spec, KeepsLifecycle
-----------------------------------------------------------------------------
(* Sets and numbers *)
\* A set of numbers has a least one.
LEMMA LeastNatural ==
    ASSUME NEW S \in SUBSET Nat, S # {}
    PROVE  \E m \in S : \A k \in S : ~ (k < m)
<1>1. PICK m \in S : \A k \in S : ~ (<<k, m>> \in OpToRel(<, Nat))
  BY NatLessThanWellFounded, WFMin
<1> QED
  BY <1>1 DEF OpToRel

\* A set with 0 and with every successor has all numbers.
LEMMA AllNaturals ==
    ASSUME NEW S, 0 \in S, \A n \in Nat : n \in S => n + 1 \in S
    PROVE  Nat \subseteq S
<1> SUFFICES ASSUME Nat \ S # {} PROVE FALSE
  OBVIOUS
<1>1. PICK m \in Nat \ S : \A k \in Nat \ S : ~ (k < m)
  BY LeastNatural
<1>2. m - 1 \in Nat /\ m - 1 < m
  BY <1>1
<1>3. m - 1 \in S
  BY <1>1, <1>2
<1> QED
  BY <1>1, <1>2, <1>3

\* What is left of a finite set without one of its elements.
LEMMA OneLess ==
    ASSUME NEW S, IsFiniteSet(S), NEW x \in S
    PROVE  /\ IsFiniteSet(S \ {x}) /\ Cardinality(S \ {x}) \in Nat
           /\ Cardinality(S) = Cardinality(S \ {x}) + 1
<1>1. /\ IsFiniteSet(S \ {x}) /\ Cardinality(S \ {x}) = Cardinality(S) - 1
  BY FS_RemoveElement
<1>2. Cardinality(S) \in Nat /\ Cardinality(S \ {x}) \in Nat
  BY <1>1, FS_CardinalityType
<1> QED
  BY <1>1, <1>2
-----------------------------------------------------------------------------
(* Sums *)

AnyOf(s) == CHOOSE x \in s : TRUE

\* g is the sum of f over the subsets of S, taken element by element.
SumsUp(g, f, S) ==
    g = [s \in SUBSET S |-> IF s = {} THEN 0 ELSE f[AnyOf(s)] + g[s \ {AnyOf(s)}]]

LEMMA AnyOfIsElement == ASSUME NEW s, s # {} PROVE AnyOf(s) \in s
  BY Zenon DEF AnyOf

LEMMA SumUnfolds ==
    ASSUME NEW f, NEW S
    PROVE  SumFunctionOnSet(f, S) = (CHOOSE g : SumsUp(g, f, S))[S]
  BY Zenon DEF SumFunctionOnSet, FoldFunctionOnSet, MapThenFoldSet, SumsUp, AnyOf

\* As long as the sets are small.
LEMMA SomethingSumsUp ==
    ASSUME NEW S, IsFiniteSet(S), NEW f, \A x \in S : f[x] \in Int
    PROVE  \E g : SumsUp(g, f, S)
<1> DEFINE Term(g, s) == IF s = {} THEN 0 ELSE f[AnyOf(s)] + g[s \ {AnyOf(s)}]
           P(g, n) == \A s \in SUBSET S : Cardinality(s) <= n => g[s] = Term(g, s)
           N == {n \in Nat : \E g \in [SUBSET S -> Int] : P(g, n)}
<1>1. \A s \in SUBSET S : IsFiniteSet(s) /\ Cardinality(s) \in Nat /\ (Cardinality(s) = 0 <=> s = {})
  BY FS_Subset, FS_CardinalityType, FS_EmptySet
<1>2. 0 \in N
  <2> DEFINE g == [s \in SUBSET S |-> 0]
  <2>1. g \in [SUBSET S -> Int] /\ P(g, 0)
    BY <1>1
  <2> QED
    BY <2>1
<1>3. ASSUME NEW n \in Nat, n \in N PROVE n + 1 \in N
  <2>1. PICK g \in [SUBSET S -> Int] : P(g, n)
    BY <1>3
  <2> DEFINE h == [s \in SUBSET S |-> Term(g, s)]
  <2>2. \A s \in SUBSET S : s # {} =>
           /\ AnyOf(s) \in S /\ s \ {AnyOf(s)} \in SUBSET S
           /\ Cardinality(s) = Cardinality(s \ {AnyOf(s)}) + 1
           /\ Cardinality(s \ {AnyOf(s)}) \in Nat
    BY <1>1, AnyOfIsElement, OneLess
  <2>3. h \in [SUBSET S -> Int]
    <3>1. \A s \in SUBSET S : Term(g, s) \in Int
      BY <2>1, <2>2
    <3> QED
      BY <3>1
  <2>4. ASSUME NEW s \in SUBSET S, Cardinality(s) <= n + 1 PROVE h[s] = Term(h, s)
    <3>1. CASE s = {}
      BY <3>1
    <3>2. CASE s # {}
      <4> DEFINE r == s \ {AnyOf(s)}
      <4>1. r \in SUBSET S /\ Cardinality(r) <= n
        BY <2>2, <2>4, <3>2
      <4>2. g[r] = h[r]
        BY <2>1, <4>1
      <4> QED
        BY <3>2, <4>2
    <3> QED
      BY <3>1, <3>2
  <2>5. P(h, n + 1)
    BY <2>4
  <2> HIDE DEF P, h
  <2> QED
    BY <2>3, <2>5
<1> HIDE DEF N
<1>4. Nat \subseteq N
  BY <1>2, <1>3, AllNaturals
<1>5. Cardinality(S) \in N
  BY <1>1, <1>4
<1>6. PICK g \in [SUBSET S -> Int] : P(g, Cardinality(S))
  BY <1>5 DEF N
<1>7. \A s \in SUBSET S : Cardinality(s) <= Cardinality(S)
  BY FS_Subset
<1>8. \A s \in SUBSET S : g[s] = Term(g, s)
  BY <1>6, <1>7
<1>9. g = [s \in SUBSET S |-> Term(g, s)]
  BY <1>6, <1>8
<1> QED
  BY <1>9 DEF SumsUp

\* It does not matter which element is added last.
LEMMA SumsInAnyOrder ==
    ASSUME NEW S, IsFiniteSet(S), NEW f, \A x \in S : f[x] \in Int, NEW g, SumsUp(g, f, S)
    PROVE  \A s \in SUBSET S : /\ g[s] \in Int
                               /\ s = {} => g[s] = 0
                               /\ \A x \in s : g[s] = f[x] + g[s \ {x}]
<1> DEFINE P(s) == /\ g[s] \in Int
                   /\ s = {} => g[s] = 0
                   /\ \A x \in s : g[s] = f[x] + g[s \ {x}]
           N == {n \in Nat : \A s \in SUBSET S : Cardinality(s) <= n => P(s)}
<1>1. \A s \in SUBSET S : IsFiniteSet(s) /\ Cardinality(s) \in Nat /\ (Cardinality(s) = 0 <=> s = {})
  BY FS_Subset, FS_CardinalityType, FS_EmptySet
<1>2. \A s \in SUBSET S : g[s] = IF s = {} THEN 0 ELSE f[AnyOf(s)] + g[s \ {AnyOf(s)}]
  BY DEF SumsUp
<1>3. 0 \in N
  BY <1>1, <1>2
<1>4. ASSUME NEW n \in Nat, n \in N PROVE n + 1 \in N
  <2> SUFFICES ASSUME NEW s \in SUBSET S, Cardinality(s) <= n + 1, s # {} PROVE P(s)
    BY <1>1, <1>3
  <2>1. s # {} /\ AnyOf(s) \in s
    BY AnyOfIsElement
  <2>2. \A x \in s : /\ s \ {x} \in SUBSET S /\ Cardinality(s \ {x}) <= n
                     /\ P(s \ {x}) /\ f[x] \in Int
    BY <1>1, <1>4, OneLess
  <2>3. g[s] = f[AnyOf(s)] + g[s \ {AnyOf(s)}]
    BY <1>2, <2>1
  <2>4. ASSUME NEW x \in s PROVE g[s] = f[x] + g[s \ {x}]
    <3>1. CASE x = AnyOf(s)
      BY <2>3, <3>1
    <3>2. CASE x # AnyOf(s)
      <4> DEFINE c == AnyOf(s)
                 r == (s \ {c}) \ {x}
      <4> HIDE DEF c
      <4>1. c \in s /\ x # c /\ g[s] = f[c] + g[s \ {c}]
        BY <2>1, <2>3, <3>2 DEF c
      <4>2. g[s \ {c}] = f[x] + g[r]
        BY <2>2, <4>1
      <4>3. (s \ {x}) \ {c} = r
        OBVIOUS
      <4>4. g[s \ {x}] = f[c] + g[r]
        BY <2>2, <4>1, <4>3
      <4>5. g[r] \in Int /\ f[x] \in Int /\ f[c] \in Int
        <5>1. /\ IsFiniteSet(s \ {c}) /\ x \in s \ {c}
              /\ Cardinality(s \ {c}) \in Nat /\ Cardinality(s \ {c}) <= n
          BY <1>1, <2>2, <4>1
        <5>2. r \in SUBSET S /\ Cardinality(r) <= n
          <6>1. /\ Cardinality((s \ {c}) \ {x}) \in Nat
                /\ Cardinality(s \ {c}) = Cardinality((s \ {c}) \ {x}) + 1
            BY <5>1, OneLess
          <6> QED
            BY <5>1, <6>1
        <5>3. P(r)
          BY <1>4, <5>2
        <5> QED
          BY <2>2, <4>1, <5>3
      <4> QED
        BY <4>1, <4>2, <4>4, <4>5
    <3> QED
      BY <3>1, <3>2
  <2>5. g[s] \in Int
    <3>1. f[AnyOf(s)] \in Int /\ g[s \ {AnyOf(s)}] \in Int
      BY <2>1, <2>2
    <3> QED
      BY <2>3, <3>1
  <2> QED
    BY <2>1, <2>4, <2>5
<1> HIDE DEF N
<1>5. Nat \subseteq N
  BY <1>3, <1>4, AllNaturals
<1>6. ASSUME NEW s \in SUBSET S PROVE P(s)
  <2>1. Cardinality(s) \in Nat /\ Cardinality(s) \in N
    BY <1>1, <1>5
  <2> QED
    BY <2>1 DEF N
<1> QED
  BY <1>6

LEMMA SumOfNone == ASSUME NEW f PROVE SumFunctionOnSet(f, {}) = 0
<1>1. IsFiniteSet({})
  BY FS_EmptySet
<1>2. \E g : SumsUp(g, f, {})
  BY <1>1, SomethingSumsUp
<1> DEFINE g == CHOOSE g : SumsUp(g, f, {})
<1>3. SumsUp(g, f, {})
  BY <1>2, Zenon
<1>4. SumFunctionOnSet(f, {}) = g[{}]
  BY SumUnfolds, Zenon
<1> HIDE DEF g
<1>5. g[{}] = 0
  BY <1>1, <1>3, SumsInAnyOrder
<1> QED
  BY <1>4, <1>5

LEMMA SumOfOneMore ==
    ASSUME NEW S, IsFiniteSet(S), NEW f, \A x \in S : f[x] \in Int, NEW x \in S
    PROVE  /\ SumFunctionOnSet(f, S) = f[x] + SumFunctionOnSet(f, S \ {x})
           /\ SumFunctionOnSet(f, S \ {x}) \in Int
<1> DEFINE R == S \ {x}
           p == CHOOSE p : SumsUp(p, f, S)
           q == CHOOSE q : SumsUp(q, f, R)
<1>1. IsFiniteSet(R) /\ \A y \in R : f[y] \in Int
  BY OneLess
<1> HIDE DEF R
<1>2. SumsUp(p, f, S) /\ SumsUp(q, f, R)
  <2>1. (\E k : SumsUp(k, f, S)) /\ (\E k : SumsUp(k, f, R))
    BY <1>1, SomethingSumsUp
  <2> QED
    BY <2>1, Zenon
<1>3. p[S] = SumFunctionOnSet(f, S) /\ q[R] = SumFunctionOnSet(f, R)
  BY SumUnfolds, Zenon
<1> HIDE DEF p, q
<1>4. \A s \in SUBSET R : /\ p[s] \in Int /\ q[s] \in Int
                          /\ s = {} => p[s] = 0 /\ q[s] = 0
                          /\ \A y \in s : /\ p[s] = f[y] + p[s \ {y}]
                                         /\ q[s] = f[y] + q[s \ {y}]
  <2>1. SUBSET R \subseteq SUBSET S
    BY DEF R
  <2>2. \A s \in SUBSET S : /\ p[s] \in Int
                            /\ s = {} => p[s] = 0
                            /\ \A y \in s : p[s] = f[y] + p[s \ {y}]
    BY <1>2, SumsInAnyOrder, SMTT(30)
  <2>3. \A s \in SUBSET R : /\ q[s] \in Int
                            /\ s = {} => q[s] = 0
                            /\ \A y \in s : q[s] = f[y] + q[s \ {y}]
    BY <1>1, <1>2, SumsInAnyOrder
  <2> TAKE s \in SUBSET R
  <2>4. /\ p[s] \in Int
        /\ s = {} => p[s] = 0
        /\ \A y \in s : p[s] = f[y] + p[s \ {y}]
    BY <2>1, <2>2, Zenon
  <2>5. /\ q[s] \in Int
        /\ s = {} => q[s] = 0
        /\ \A y \in s : q[s] = f[y] + q[s \ {y}]
    BY <2>3, Zenon
  <2> QED
    BY <2>4, <2>5, Zenon
<1> DEFINE N == {n \in Nat : \A s \in SUBSET R : Cardinality(s) = n => p[s] = q[s]}
<1>5. \A s \in SUBSET R : IsFiniteSet(s) /\ Cardinality(s) \in Nat /\ (Cardinality(s) = 0 <=> s = {})
  BY <1>1, FS_Subset, FS_CardinalityType, FS_EmptySet
<1>6. 0 \in N
  BY <1>4, <1>5
<1>7. ASSUME NEW n \in Nat, n \in N PROVE n + 1 \in N
  <2> SUFFICES ASSUME NEW s \in SUBSET R, Cardinality(s) = n + 1 PROVE p[s] = q[s]
    OBVIOUS
  <2>1. PICK y : y \in s
    BY <1>5
  <2>2. s \ {y} \in SUBSET R /\ Cardinality(s \ {y}) = n
    BY <1>5, <2>1, OneLess
  <2>3. p[s \ {y}] = q[s \ {y}]
    BY <1>7, <2>2
  <2> QED
    BY <1>4, <2>1, <2>3
<1> HIDE DEF N
<1>8. Nat \subseteq N
  BY <1>6, <1>7, AllNaturals
<1>9. p[R] = q[R] /\ p[R] \in Int
  BY <1>4, <1>5, <1>8 DEF N
<1>10. p[S] = f[x] + p[R]
  BY <1>2, SumsInAnyOrder DEF R
<1> QED
  BY <1>3, <1>9, <1>10 DEF R

\* Equal terms have equal sums.
LEMMA SumOfTheSame ==
    ASSUME NEW S, IsFiniteSet(S), NEW T, NEW h \in Bijection(S, T), NEW f, NEW k,
           \A x \in S : f[x] \in Int /\ k[h[x]] = f[x]
    PROVE  SumFunctionOnSet(f, S) = SumFunctionOnSet(k, T)
<1> DEFINE Im(s) == {h[x] : x \in s}
           N == {n \in Nat : \A s \in SUBSET S : Cardinality(s) = n =>
                   SumFunctionOnSet(f, s) = SumFunctionOnSet(k, Im(s))}
<1>1. \A s \in SUBSET S : IsFiniteSet(s) /\ Cardinality(s) \in Nat /\ (Cardinality(s) = 0 <=> s = {})
  BY FS_Subset, FS_CardinalityType, FS_EmptySet
<1>2. /\ Im(S) = T
      /\ \A x, y \in S : h[x] = h[y] => x = y
  BY DEF Bijection, Injection, Surjection, IsInjective
<1>3. 0 \in N
  <2>1. Im({}) = {}
    OBVIOUS
  <2> QED
    BY <1>1, <2>1, SumOfNone
<1>4. ASSUME NEW n \in Nat, n \in N PROVE n + 1 \in N
  <2> SUFFICES ASSUME NEW s \in SUBSET S, Cardinality(s) = n + 1
               PROVE  SumFunctionOnSet(f, s) = SumFunctionOnSet(k, Im(s))
    OBVIOUS
  <2>1. PICK x : x \in s
    BY <1>1
  <2>2. /\ IsFiniteSet(s) /\ s \ {x} \in SUBSET S /\ Cardinality(s \ {x}) = n
    BY <1>1, <2>1, OneLess
  <2>3. Im(s \ {x}) = Im(s) \ {h[x]} /\ h[x] \in Im(s)
    BY <1>2, <2>1
  <2>4. IsFiniteSet(Im(s))
    <3>1. [y \in s |-> h[y]] \in Surjection(s, Im(s))
      BY DEF Surjection
    <3> QED
      BY <2>2, <3>1, FS_Surjection
  <2>5. \A y \in Im(s) : k[y] \in Int
    OBVIOUS
  <2> HIDE DEF Im
  <2>6. SumFunctionOnSet(f, s) = f[x] + SumFunctionOnSet(f, s \ {x})
    <3>1. \A y \in s : f[y] \in Int
      OBVIOUS
    <3> QED
      BY <2>1, <2>2, <3>1, SumOfOneMore, SMTT(30)
  <2>7. SumFunctionOnSet(k, Im(s)) = k[h[x]] + SumFunctionOnSet(k, Im(s) \ {h[x]})
    BY <2>3, <2>4, <2>5, SumOfOneMore, SMTT(30)
  <2>8. SumFunctionOnSet(f, s \ {x}) = SumFunctionOnSet(k, Im(s \ {x}))
    BY <1>4, <2>2
  <2> QED
    BY <2>1, <2>3, <2>6, <2>7, <2>8
<1> HIDE DEF N
<1>5. Nat \subseteq N
  BY <1>3, <1>4, AllNaturals
<1>6. Cardinality(S) \in N
  BY <1>1, <1>5
<1> QED
  BY <1>2, <1>6 DEF N
-----------------------------------------------------------------------------
(* The calendar: months are numbered, and follow one another. *)

\* The days of a year before month m.
DaysBefore(y, m) ==
    SumFunctionOnSet([k \in 1 .. 12 |-> MonthLength(y, k)], 1 .. m - 1)

LEMMA MonthLengths ==
    ASSUME NEW y, NEW m
    PROVE  MonthLength(y, m) \in 28 .. 31
  BY DEF MonthLength

LEMMA DaysUpTo ==
    ASSUME NEW y, NEW m \in 1 .. 12
    PROVE  /\ DaysBefore(y, m + 1) = DaysBefore(y, m) + MonthLength(y, m)
           /\ DaysBefore(y, m) \in Int
<1> DEFINE f == [k \in 1 .. 12 |-> MonthLength(y, k)]
           S == 1 .. m
<1>1. IsFiniteSet(S)
  BY FS_Interval
<1>2. \A x \in S : f[x] \in Int
  BY MonthLengths
<1>3. m \in S /\ S \ {m} = 1 .. m - 1 /\ f[m] = MonthLength(y, m) /\ 1 .. (m + 1) - 1 = S
  OBVIOUS
<1> HIDE DEF f, S
<1>4. /\ SumFunctionOnSet(f, S) = f[m] + SumFunctionOnSet(f, S \ {m})
      /\ SumFunctionOnSet(f, S \ {m}) \in Int
  BY <1>1, <1>2, <1>3, SumOfOneMore, SMTT(30)
<1>5. DaysBefore(y, m) = SumFunctionOnSet(f, S \ {m}) /\ DaysBefore(y, m + 1) = SumFunctionOnSet(f, S)
  BY <1>3 DEF DaysBefore, f
<1> QED
  BY <1>3, <1>4, <1>5, MonthLengths

LEMMA DaysOfAYear ==
    ASSUME NEW y
    PROVE  /\ DaysBefore(y, 1) = 0
           /\ DaysBefore(y, 13) = IF IsLeap(y) THEN 366 ELSE 365
<1>1. DaysBefore(y, 1) = 0
  <2>1. 1 .. 1 - 1 = {}
    OBVIOUS
  <2> QED
    BY <2>1, SumOfNone DEF DaysBefore
<1>2. \A m \in 1 .. 12 : DaysBefore(y, m + 1) = DaysBefore(y, m) + MonthLength(y, m)
  BY DaysUpTo
<1> DEFINE b(m) == DaysBefore(y, m)
           l(m) == MonthLength(y, m)
<1>3. /\ b(2) = l(1) /\ b(3) = b(2) + l(2) /\ b(4) = b(3) + l(3) /\ b(5) = b(4) + l(4)
      /\ b(6) = b(5) + l(5) /\ b(7) = b(6) + l(6) /\ b(8) = b(7) + l(7) /\ b(9) = b(8) + l(8)
      /\ b(10) = b(9) + l(9) /\ b(11) = b(10) + l(10) /\ b(12) = b(11) + l(11)
      /\ b(13) = b(12) + l(12)
  <2>1. \A m \in 1 .. 12 : b(m + 1) = b(m) + l(m)
    BY <1>2
  <2>2. \A m \in 1 .. 12 : l(m) \in 28 .. 31
    BY MonthLengths
  <2>3. b(1) = 0
    BY <1>1
  <2> HIDE DEF b, l
  <2> QED
    BY <2>1, <2>2, <2>3
<1>4. /\ l(1) = 31 /\ l(3) = 31 /\ l(4) = 30 /\ l(5) = 31 /\ l(6) = 30 /\ l(7) = 31
      /\ l(8) = 31 /\ l(9) = 30 /\ l(10) = 31 /\ l(11) = 30 /\ l(12) = 31
      /\ l(2) = IF IsLeap(y) THEN 29 ELSE 28
  BY DEF MonthLength
<1>5. b(13) = IF IsLeap(y) THEN 366 ELSE 365
  <2> HIDE DEF b, l
  <2> QED
    BY <1>3, <1>4
<1> QED
  BY <1>1, <1>5

LEMMA OneDivisorMore ==
    ASSUME NEW y \in Int
    PROVE  /\ y \div 4 = (y - 1) \div 4 + (IF y % 4 = 0 THEN 1 ELSE 0)
           /\ y \div 100 = (y - 1) \div 100 + (IF y % 100 = 0 THEN 1 ELSE 0)
           /\ y \div 400 = (y - 1) \div 400 + (IF y % 400 = 0 THEN 1 ELSE 0)
           /\ y % 100 = 0 => y % 4 = 0
           /\ y % 400 = 0 => y % 100 = 0
  BY SMTT(30)

\* Month number c, counted from January of the year 0.
FirstOfMonth(c)  == Ordinal(<<c \div 12, (c % 12) + 1, 1>>)
LengthOfMonth(c) == MonthLength(c \div 12, (c % 12) + 1)
NumberOf(t)      == 12 * Year(t) + Month(t) - 1

LEMMA OrdinalByDays ==
    ASSUME NEW y \in Int, NEW m, NEW d
    PROVE  Ordinal(<<y, m, d>>) =
             365 * (y - 1) + (y - 1) \div 4 - (y - 1) \div 100 + (y - 1) \div 400
             + DaysBefore(y, m) + d
  BY DEF Ordinal, DaysBefore, Year, Month, Day

LEMMA MonthsFollow ==
    ASSUME NEW c \in Int
    PROVE  /\ FirstOfMonth(c) \in Int /\ LengthOfMonth(c) \in 28 .. 31
           /\ FirstOfMonth(c + 1) = FirstOfMonth(c) + LengthOfMonth(c)
<1> DEFINE y == c \div 12
           m == (c % 12) + 1
<1>1. y \in Int /\ m \in 1 .. 12
  OBVIOUS
<1>2. IF m < 12 THEN (c + 1) \div 12 = y /\ ((c + 1) % 12) + 1 = m + 1
                ELSE (c + 1) \div 12 = y + 1 /\ ((c + 1) % 12) + 1 = 1
  BY SMTT(30)
<1>3. /\ FirstOfMonth(c) = Ordinal(<<y, m, 1>>) /\ LengthOfMonth(c) = MonthLength(y, m)
      /\ FirstOfMonth(c + 1) = IF m < 12 THEN Ordinal(<<y, m + 1, 1>>)
                                         ELSE Ordinal(<<y + 1, 1, 1>>)
  BY <1>2 DEF FirstOfMonth, LengthOfMonth
<1> HIDE DEF y, m
<1>4. /\ DaysBefore(y, m) \in Int /\ DaysBefore(y, m + 1) = DaysBefore(y, m) + MonthLength(y, m)
      /\ MonthLength(y, m) \in 28 .. 31
  BY <1>1, DaysUpTo, MonthLengths
<1>5. Ordinal(<<y, m, 1>>) = 365 * (y - 1) + (y - 1) \div 4 - (y - 1) \div 100
                             + (y - 1) \div 400 + DaysBefore(y, m) + 1
  BY <1>1, OrdinalByDays
<1>6. CASE m < 12
  <2>1. Ordinal(<<y, m + 1, 1>>) = 365 * (y - 1) + (y - 1) \div 4 - (y - 1) \div 100
                                   + (y - 1) \div 400 + DaysBefore(y, m + 1) + 1
    BY <1>1, OrdinalByDays
  <2> QED
    BY <1>1, <1>3, <1>4, <1>5, <1>6, <2>1
<1>7. CASE ~ (m < 12)
  <2>1. Ordinal(<<y + 1, 1, 1>>) = 365 * y + y \div 4 - y \div 100 + y \div 400 + 1
    <3>1. Ordinal(<<y + 1, 1, 1>>) =
             365 * ((y + 1) - 1) + ((y + 1) - 1) \div 4 - ((y + 1) - 1) \div 100
             + ((y + 1) - 1) \div 400 + DaysBefore(y + 1, 1) + 1
      BY <1>1, OrdinalByDays
    <3>2. DaysBefore(y + 1, 1) = 0 /\ (y + 1) - 1 = y
      BY <1>1, DaysOfAYear
    <3> QED
      BY <1>1, <3>1, <3>2
  <2>2. DaysBefore(y, m) + MonthLength(y, m) = IF IsLeap(y) THEN 366 ELSE 365
    <3>1. m = 12 /\ m + 1 = 13
      BY <1>1, <1>7
    <3> QED
      BY <1>4, <3>1, DaysOfAYear
  <2>3. IF IsLeap(y)
        THEN y \div 4 - y \div 100 + y \div 400 =
               (y - 1) \div 4 - (y - 1) \div 100 + (y - 1) \div 400 + 1
        ELSE y \div 4 - y \div 100 + y \div 400 =
               (y - 1) \div 4 - (y - 1) \div 100 + (y - 1) \div 400
    BY <1>1, OneDivisorMore DEF IsLeap
  <2> QED
    BY <1>1, <1>3, <1>4, <1>5, <1>7, <2>1, <2>2, <2>3
<1> QED
  BY <1>1, <1>3, <1>4, <1>5, <1>6, <1>7

\* Months are at least four weeks long, and those in between come between.
LEMMA MonthsApart ==
    ASSUME NEW c \in Int, NEW n \in Nat \ {0}
    PROVE  FirstOfMonth(c + n) >= FirstOfMonth(c) + LengthOfMonth(c) + 28 * (n - 1)
<1> DEFINE N == {k \in Nat : FirstOfMonth(c + (k + 1)) >=
                               FirstOfMonth(c) + LengthOfMonth(c) + 28 * k}
<1>1. 0 \in N
  <2>1. c + (0 + 1) = c + 1 /\ 28 * 0 = 0
    OBVIOUS
  <2> QED
    BY <2>1, MonthsFollow
<1>2. ASSUME NEW k \in Nat, k \in N PROVE k + 1 \in N
  <2> DEFINE d == c + (k + 1)
  <2>1. /\ FirstOfMonth(d) \in Int /\ LengthOfMonth(d) \in 28 .. 31
        /\ FirstOfMonth(d + 1) = FirstOfMonth(d) + LengthOfMonth(d)
        /\ FirstOfMonth(c) \in Int /\ LengthOfMonth(c) \in 28 .. 31
    BY MonthsFollow
  <2>2. d + 1 = c + ((k + 1) + 1) /\ 28 * (k + 1) = 28 * k + 28
    OBVIOUS
  <2>3. FirstOfMonth(d) >= FirstOfMonth(c) + LengthOfMonth(c) + 28 * k
    BY <1>2
  <2> HIDE DEF d
  <2> QED
    BY <2>1, <2>2, <2>3
<1> HIDE DEF N
<1>3. Nat \subseteq N
  BY <1>1, <1>2, AllNaturals
<1>4. n - 1 \in N /\ (n - 1) + 1 = n
  BY <1>3
<1> QED
  BY <1>4 DEF N

LEMMA DatesInMonths ==
    ASSUME NEW t, IsDate(t)
    PROVE  /\ t \in (Nat \ {0}) \X (1 .. 12) \X (1 .. 31) /\ t = <<Year(t), Month(t), Day(t)>>
           /\ NumberOf(t) \in Nat /\ NumberOf(t) \div 12 = Year(t)
           /\ (NumberOf(t) % 12) + 1 = Month(t)
           /\ Day(t) \in 1 .. LengthOfMonth(NumberOf(t))
           /\ Ordinal(t) = FirstOfMonth(NumberOf(t)) + Day(t) - 1
           /\ Ordinal(t) \in Int
<1>1. /\ t \in (Nat \ {0}) \X (1 .. 12) \X (1 .. 31) /\ t = <<Year(t), Month(t), Day(t)>>
      /\ Year(t) \in Nat \ {0} /\ Month(t) \in 1 .. 12 /\ Day(t) \in 1 .. 31
      /\ Day(t) <= MonthLength(Year(t), Month(t))
  BY DEF IsDate, Year, Month, Day
<1>2. /\ NumberOf(t) \in Nat /\ NumberOf(t) \div 12 = Year(t)
      /\ (NumberOf(t) % 12) + 1 = Month(t)
  BY <1>1, SMTT(30) DEF NumberOf
<1>3. /\ Day(t) \in 1 .. LengthOfMonth(NumberOf(t))
      /\ FirstOfMonth(NumberOf(t)) = Ordinal(<<Year(t), Month(t), 1>>)
  BY <1>1, <1>2 DEF LengthOfMonth, FirstOfMonth
<1>4. Ordinal(t) = Ordinal(<<Year(t), Month(t), 1>>) + Day(t) - 1 /\ Ordinal(t) \in Int
  <2> DEFINE y == Year(t)
             m == Month(t)
             d == Day(t)
             base == 365 * (y - 1) + (y - 1) \div 4 - (y - 1) \div 100 + (y - 1) \div 400
                     + DaysBefore(y, m)
  <2>1. y \in Int /\ m \in 1 .. 12 /\ d \in Int /\ t = <<y, m, d>>
    BY <1>1
  <2> HIDE DEF y, m, d
  <2>2. base \in Int
    BY <2>1, DaysUpTo
  <2>3. Ordinal(<<y, m, d>>) = base + d /\ Ordinal(<<y, m, 1>>) = base + 1
    BY <2>1, OrdinalByDays
  <2> HIDE DEF base
  <2>4. Ordinal(t) = Ordinal(<<y, m, 1>>) + d - 1 /\ Ordinal(t) \in Int
    BY <2>1, <2>2, <2>3
  <2> QED
    BY <2>4 DEF y, m, d
<1> QED
  BY <1>1, <1>2, <1>3, <1>4

\* A date's ordinal says which month it lies in, and which day it is.
LEMMA OrdinalsTellDates ==
    ASSUME NEW s, IsDate(s), NEW c \in Int
    PROVE  Ordinal(s) \in FirstOfMonth(c) .. FirstOfMonth(c) + LengthOfMonth(c) - 1
             <=> NumberOf(s) = c
<1> DEFINE b == NumberOf(s)
<1>1. /\ b \in Int /\ Day(s) \in 1 .. LengthOfMonth(b)
      /\ Ordinal(s) = FirstOfMonth(b) + Day(s) - 1
  BY DatesInMonths
<1>2. /\ FirstOfMonth(b) \in Int /\ LengthOfMonth(b) \in 28 .. 31
      /\ FirstOfMonth(c) \in Int /\ LengthOfMonth(c) \in 28 .. 31
  BY <1>1, MonthsFollow
<1>3. b < c => FirstOfMonth(c) >= FirstOfMonth(b) + LengthOfMonth(b)
  <2> SUFFICES ASSUME b < c PROVE FirstOfMonth(c) >= FirstOfMonth(b) + LengthOfMonth(b)
    OBVIOUS
  <2>1. c - b \in Nat \ {0} /\ b + (c - b) = c
    BY <1>1
  <2>2. FirstOfMonth(c) >= FirstOfMonth(b) + LengthOfMonth(b) + 28 * ((c - b) - 1)
    BY <1>1, <2>1, MonthsApart
  <2> QED
    BY <1>1, <1>2, <2>1, <2>2
<1>4. c < b => FirstOfMonth(b) >= FirstOfMonth(c) + LengthOfMonth(c)
  <2> SUFFICES ASSUME c < b PROVE FirstOfMonth(b) >= FirstOfMonth(c) + LengthOfMonth(c)
    OBVIOUS
  <2>1. b - c \in Nat \ {0} /\ c + (b - c) = b
    BY <1>1
  <2>2. FirstOfMonth(b) >= FirstOfMonth(c) + LengthOfMonth(c) + 28 * ((b - c) - 1)
    BY <1>1, <2>1, MonthsApart
  <2> QED
    BY <1>1, <1>2, <2>1, <2>2
<1> HIDE DEF b
<1>5. b < c \/ b = c \/ c < b
  BY <1>1
<1>6. CASE b < c
  BY <1>1, <1>2, <1>3, <1>6 DEF b
<1>7. CASE c < b
  BY <1>1, <1>2, <1>4, <1>7 DEF b
<1>8. CASE b = c
  BY <1>1, <1>2, <1>8 DEF b
<1> QED
  BY <1>5, <1>6, <1>7, <1>8

LEMMA DatesAreTheirOrdinals ==
    ASSUME NEW s, IsDate(s), NEW t, IsDate(t), Ordinal(s) = Ordinal(t)
    PROVE  s = t
<1>1. NumberOf(t) \in Int /\ Day(t) \in 1 .. LengthOfMonth(NumberOf(t))
      /\ Ordinal(t) = FirstOfMonth(NumberOf(t)) + Day(t) - 1
      /\ FirstOfMonth(NumberOf(t)) \in Int
      /\ LengthOfMonth(NumberOf(t)) \in Int
  BY DatesInMonths, MonthsFollow
<1>2. NumberOf(s) = NumberOf(t)
  BY <1>1, OrdinalsTellDates
<1>3. Day(s) \in Int /\ Ordinal(s) = FirstOfMonth(NumberOf(s)) + Day(s) - 1
  BY DatesInMonths
<1>4. Day(s) = Day(t)
  BY <1>1, <1>2, <1>3
<1>5. Year(s) = Year(t) /\ Month(s) = Month(t)
  BY <1>2, DatesInMonths
<1>6. s = <<Year(s), Month(s), Day(s)>> /\ t = <<Year(t), Month(t), Day(t)>>
  BY DatesInMonths
<1> QED
  BY <1>4, <1>5, <1>6

\* The first of January of year y.
LEMMA NewYear ==
    ASSUME NEW y \in Int
    PROVE  /\ Ordinal(<<y, 1, 1>>) =
                365 * (y - 1) + (y - 1) \div 4 - (y - 1) \div 100 + (y - 1) \div 400 + 1
           /\ Ordinal(<<y, 1, 1>>) = FirstOfMonth(12 * y)
<1>1. Ordinal(<<y, 1, 1>>) =
        365 * (y - 1) + (y - 1) \div 4 - (y - 1) \div 100 + (y - 1) \div 400
        + DaysBefore(y, 1) + 1
  BY OrdinalByDays
<1>2. DaysBefore(y, 1) = 0
  BY DaysOfAYear
<1>3. (12 * y) \div 12 = y /\ ((12 * y) % 12) + 1 = 1
  BY SMT
<1> QED
  BY <1>1, <1>2, <1>3 DEF FirstOfMonth

IsYearOf(y, o)     == Ordinal(<<y, 1, 1>>) <= o /\ o < Ordinal(<<y + 1, 1, 1>>)
IsMonthOf(m, y, o) == o - Ordinal(<<y, m, 1>>) \in 0 .. MonthLength(y, m) - 1

LEMMA EveryDayHasAYear ==
    ASSUME NEW o \in Nat \ {0}
    PROVE  \E y \in o \div 366 .. o \div 365 + 1 : IsYearOf(y, o)
<1> DEFINE a == o \div 366
           b == o \div 365 + 1
           Jan(y) == Ordinal(<<y, 1, 1>>)
           K == {k \in Nat : o < Jan((a + k) + 1)}
<1>1. a \in Nat /\ b \in Nat /\ a <= b /\ 366 * a <= o /\ o < 365 * b
  BY SMTT(30)
<1>2. Jan(a) <= o
  <2>1. Jan(a) = 365 * (a - 1) + (a - 1) \div 4 - (a - 1) \div 100 + (a - 1) \div 400 + 1
    BY <1>1, NewYear
  <2> HIDE DEF a
  <2>2. (a - 1) \div 4 <= a /\ (a - 1) \div 400 <= (a - 1) \div 100
    BY <1>1, SMTT(30)
  <2> QED
    BY <1>1, <2>1, <2>2, SMTT(30)
<1>3. o < Jan(b + 1)
  <2>1. Jan(b + 1) = 365 * b + b \div 4 - b \div 100 + b \div 400 + 1
    <3>1. b + 1 \in Int /\ (b + 1) - 1 = b
      BY <1>1
    <3> QED
      BY <3>1, NewYear
  <2> HIDE DEF b
  <2>2. b \div 4 >= b \div 100 /\ b \div 400 >= 0
    BY <1>1, SMTT(30)
  <2> QED
    BY <1>1, <2>1, <2>2
<1> HIDE DEF a, b, Jan
<1>4. b - a \in K
  <2>1. b - a \in Nat /\ a + (b - a) = b
    BY <1>1
  <2> QED
    BY <1>3, <2>1
<1>5. PICK k \in K : \A j \in K : ~ (j < k)
  <2>1. K \in SUBSET Nat /\ K # {}
    BY <1>4
  <2> HIDE DEF K
  <2> QED
    BY <2>1, LeastNatural
<1>6. k \in Nat /\ k <= b - a /\ a + k \in a .. b /\ o < Jan((a + k) + 1)
  <2>1. k \in Nat /\ o < Jan((a + k) + 1)
    BY <1>5, Zenon
  <2>2. ~ (b - a < k) /\ b - a \in Nat
    BY <1>1, <1>4, <1>5, Zenon
  <2> HIDE DEF K
  <2>3. k <= b - a
    BY <1>1, <2>1, <2>2
  <2> QED
    BY <1>1, <2>1, <2>3
<1>7. Jan(a + k) <= o
  <2>1. CASE k = 0
    <3>1. a + k = a
      BY <1>1, <2>1
    <3> QED
      BY <1>2, <3>1
  <2>2. CASE k # 0
    <3>1. k - 1 \in Nat /\ k - 1 < k /\ (a + (k - 1)) + 1 = a + k /\ a + k \in Int
      BY <1>1, <1>6, <2>2
    <3>2. ~ (o < Jan(a + k))
      BY <1>5, <3>1
    <3>3. Jan(a + k) \in Int
      BY <3>1, NewYear DEF Jan
    <3> QED
      BY <3>2, <3>3
  <2> QED
    BY <2>1, <2>2
<1> QED
  BY <1>6, <1>7 DEF IsYearOf, Jan, a, b

LEMMA EveryDayHasAMonth ==
    ASSUME NEW o \in Int, NEW y \in Int, IsYearOf(y, o)
    PROVE  \E m \in 1 .. 12 : IsMonthOf(m, y, o)
<1> DEFINE F(m) == Ordinal(<<y, m, 1>>)
           L(m) == MonthLength(y, m)
           K == {k \in Nat : k + 1 \in 1 .. 12 => o < F(k + 1) + L(k + 1)}
<1>1. \A m \in 1 .. 12 : /\ F(m) \in Int /\ L(m) \in 28 .. 31
                         /\ F(m) + L(m) = IF m = 12 THEN Ordinal(<<y + 1, 1, 1>>) ELSE F(m + 1)
  <2> TAKE m \in 1 .. 12
  <2> DEFINE c == 12 * y + m - 1
  <2>1. c \in Int /\ c \div 12 = y /\ (c % 12) + 1 = m
    BY SMTT(30)
  <2>2. IF m = 12 THEN c + 1 = 12 * (y + 1)
                  ELSE (c + 1) \div 12 = y /\ ((c + 1) % 12) + 1 = m + 1
    BY SMTT(30)
  <2>3. F(m) = FirstOfMonth(c) /\ L(m) = LengthOfMonth(c)
    BY <2>1 DEF FirstOfMonth, LengthOfMonth
  <2>4. FirstOfMonth(c + 1) = IF m = 12 THEN Ordinal(<<y + 1, 1, 1>>) ELSE F(m + 1)
    BY <2>2, NewYear DEF FirstOfMonth
  <2>5. /\ FirstOfMonth(c) \in Int /\ LengthOfMonth(c) \in 28 .. 31
        /\ FirstOfMonth(c + 1) = FirstOfMonth(c) + LengthOfMonth(c)
    BY <2>1, MonthsFollow
  <2> QED
    BY <2>3, <2>4, <2>5
<1>2. F(1) <= o /\ o < Ordinal(<<y + 1, 1, 1>>)
  BY DEF IsYearOf
<1> HIDE DEF F, L
<1>3. \E m \in 1 .. 12 : F(m) <= o /\ o < F(m) + L(m)
  <2> SUFFICES ASSUME \A m \in 1 .. 12 : F(m) <= o => F(m) + L(m) <= o
               PROVE  FALSE
    BY <1>1
  <2>1. \A m \in 1 .. 11 : F(m) <= o => F(m + 1) <= o
    BY <1>1
  <2>2. F(12) <= o
    <3>1. F(2) <= o
      BY <1>2, <2>1
    <3>2. F(3) <= o
      BY <2>1, <3>1
    <3>3. F(4) <= o
      BY <2>1, <3>2
    <3>4. F(5) <= o
      BY <2>1, <3>3
    <3>5. F(6) <= o
      BY <2>1, <3>4
    <3>6. F(7) <= o
      BY <2>1, <3>5
    <3>7. F(8) <= o
      BY <2>1, <3>6
    <3>8. F(9) <= o
      BY <2>1, <3>7
    <3>9. F(10) <= o
      BY <2>1, <3>8
    <3>10. F(11) <= o
      BY <2>1, <3>9
    <3> QED
      BY <2>1, <3>10
  <2>3. Ordinal(<<y + 1, 1, 1>>) \in Int
    BY NewYear
  <2> QED
    BY <1>1, <1>2, <2>2, <2>3
<1>4. \A m \in 1 .. 12 : F(m) <= o /\ o < F(m) + L(m) => o - F(m) \in 0 .. L(m) - 1
  BY <1>1
<1> QED
  BY <1>3, <1>4 DEF IsMonthOf, F, L

\* date.fromordinal() undoes date.toordinal().
LEMMA FromOrdinalIsRight ==
    ASSUME NEW o \in Nat \ {0}
    PROVE  IsDate(FromOrdinal(o)) /\ Ordinal(FromOrdinal(o)) = o
<1> DEFINE y == CHOOSE y \in o \div 366 .. o \div 365 + 1 : IsYearOf(y, o)
           m == CHOOSE m \in 1 .. 12 : IsMonthOf(m, y, o)
           d == o - Ordinal(<<y, m, 1>>) + 1
<1>1. FromOrdinal(o) = <<y, m, d>>
  BY Zenon DEF FromOrdinal, IsYearOf, IsMonthOf
<1>2. y \in o \div 366 .. o \div 365 + 1 /\ IsYearOf(y, o)
  BY EveryDayHasAYear, Zenon
<1> HIDE DEF y
<1>3. y \in Int
  BY <1>2
<1>4. m \in 1 .. 12 /\ IsMonthOf(m, y, o)
  <2>1. \E k \in 1 .. 12 : IsMonthOf(k, y, o)
    BY <1>2, <1>3, EveryDayHasAMonth
  <2> QED
    BY <2>1, Zenon
<1> HIDE DEF m
<1>5. DaysBefore(y, m) \in Int /\ MonthLength(y, m) \in 28 .. 31
  BY <1>4, DaysUpTo, MonthLengths
<1>6. \A k \in Int : Ordinal(<<y, m, k>>) =
        365 * (y - 1) + (y - 1) \div 4 - (y - 1) \div 100 + (y - 1) \div 400
        + DaysBefore(y, m) + k
  BY <1>3, OrdinalByDays
<1>7. Ordinal(<<y, m, 1>>) \in Int
  BY <1>3, <1>5, <1>6
<1>8. d \in 1 .. MonthLength(y, m)
  BY <1>4, <1>5, <1>7 DEF IsMonthOf
<1>9. Ordinal(<<y, m, d>>) = o
  <2>1. Ordinal(<<y, m, d>>) - d = Ordinal(<<y, m, 1>>) - 1 /\ Ordinal(<<y, m, d>>) \in Int
    <3> HIDE DEF d
    <3>1. d \in Int
      BY <1>5, <1>8
    <3> QED
      BY <1>3, <1>5, <1>6, <3>1
  <2> QED
    BY <1>7, <2>1
<1>10. y >= 1
  <2> SUFFICES ASSUME y < 1 PROVE FALSE
    BY <1>3
  <2>1. y >= 0
    BY <1>2, SMTT(30)
  <2>2. y + 1 = 1 /\ 1 \in Int
    BY <1>3, <2>1
  <2>3. Ordinal(<<1, 1, 1>>) = 1
    BY NewYear
  <2> QED
    BY <1>2, <2>2, <2>3 DEF IsYearOf
<1> HIDE DEF d
<1>11. IsDate(<<y, m, d>>)
  BY <1>3, <1>4, <1>5, <1>8, <1>10 DEF IsDate, Year, Month, Day
<1> QED
  BY <1>1, <1>9, <1>11

LEMMA DatesHaveOrdinals ==
    ASSUME NEW t, IsDate(t)
    PROVE  Ordinal(t) \in Nat \ {0}
<1> DEFINE c == NumberOf(t)
<1>1. c \in Nat /\ c >= 12 /\ Day(t) \in 1 .. LengthOfMonth(c)
      /\ Ordinal(t) = FirstOfMonth(c) + Day(t) - 1
  <2>1. Year(t) \in Nat \ {0} /\ Month(t) \in 1 .. 12
    BY DEF IsDate, Year, Month
  <2> QED
    BY <2>1, DatesInMonths DEF NumberOf
<1>2. FirstOfMonth(12) = 1
  <2>1. Ordinal(<<1, 1, 1>>) = 1 /\ 12 * 1 = 12
    BY NewYear
  <2> QED
    BY <2>1, NewYear
<1>3. FirstOfMonth(c) \in Int /\ LengthOfMonth(c) \in Int /\ LengthOfMonth(12) \in Nat
  BY <1>1, MonthsFollow
<1>4. FirstOfMonth(c) >= 1
  <2>1. CASE c = 12
    BY <1>2, <2>1
  <2>2. CASE c # 12
    <3>1. c - 12 \in Nat \ {0} /\ 12 + (c - 12) = c
      BY <1>1, <2>2
    <3>2. FirstOfMonth(c) >= FirstOfMonth(12) + LengthOfMonth(12) + 28 * ((c - 12) - 1)
      BY <3>1, MonthsApart
    <3> QED
      BY <1>2, <1>3, <3>1, <3>2
  <2> QED
    BY <2>1, <2>2
<1> HIDE DEF c
<1> QED
  BY <1>1, <1>3, <1>4

\* t + timedelta(days=n)
LEMMA PlusDaysIsRight ==
    ASSUME NEW t, IsDate(t), NEW n \in Nat
    PROVE  IsDate(PlusDays(t, n)) /\ Ordinal(PlusDays(t, n)) = Ordinal(t) + n
<1>1. Ordinal(t) + n \in Nat \ {0}
  BY DatesHaveOrdinals
<1> QED
  BY <1>1, FromOrdinalIsRight DEF PlusDays

\* t + relativedelta(months=n)
LEMMA PlusMonthsIsRight ==
    ASSUME NEW t, IsDate(t), NEW n \in Nat
    PROVE  /\ IsDate(PlusMonths(t, n)) /\ NumberOf(PlusMonths(t, n)) = NumberOf(t) + n
           /\ Day(PlusMonths(t, n)) = IF Day(t) > LengthOfMonth(NumberOf(t) + n)
                                      THEN LengthOfMonth(NumberOf(t) + n) ELSE Day(t)
<1> DEFINE c == NumberOf(t) + n
           y == c \div 12
           m == (c % 12) + 1
           d == IF Day(t) > MonthLength(y, m) THEN MonthLength(y, m) ELSE Day(t)
<1>1. Year(t) \in Nat \ {0} /\ Month(t) \in 1 .. 12 /\ Day(t) \in 1 .. 31
  BY DEF IsDate, Year, Month, Day
<1>2. c = 12 * Year(t) + Month(t) - 1 + n /\ c \in Nat /\ c >= 12
  BY <1>1 DEF NumberOf
<1>3. PlusMonths(t, n) = <<y, m, d>>
  BY <1>2 DEF PlusMonths
<1> HIDE DEF c
<1>4. y \in Nat \ {0} /\ m \in 1 .. 12 /\ 12 * y + m - 1 = c
  BY <1>2, SMTT(30)
<1>5. LengthOfMonth(c) = MonthLength(y, m)
  BY DEF LengthOfMonth
<1> HIDE DEF y, m
<1>6. d \in 1 .. MonthLength(y, m) /\ d \in 1 .. 31
  BY <1>1, MonthLengths
<1>7. Year(<<y, m, d>>) = y /\ Month(<<y, m, d>>) = m /\ Day(<<y, m, d>>) = d
  BY DEF Year, Month, Day
<1>8. IsDate(<<y, m, d>>)
  <2> HIDE DEF d
  <2> QED
    BY <1>4, <1>6, <1>7, MonthLengths DEF IsDate
<1>9. NumberOf(<<y, m, d>>) = c
  BY <1>4, <1>7 DEF NumberOf
<1> QED
  BY <1>3, <1>5, <1>7, <1>8, <1>9 DEF c
-----------------------------------------------------------------------------
(* Windows *)

\* The days of the window of t are those of its week or month.
LEMMA WindowIsPeriod ==
    ASSUME NEW s, IsDate(s), NEW t, IsDate(t), NEW scope \in Scopes
    PROVE  scope = "all_time" \/ Ordinal(s) \in Window(scope, t) <=> SamePeriod(scope, s, t)
<1>1. CASE scope = "this_week"
  <2> DEFINE o == Ordinal(t)
             p == Ordinal(s)
  <2>1. o \in Nat \ {0} /\ p \in Nat \ {0}
    BY DatesHaveOrdinals
  <2>2. Window(scope, t) = o - ((o - 1) % 7) .. (o - ((o - 1) % 7)) + 6
    BY <1>1 DEF Window, Weekday
  <2>3. SamePeriod(scope, s, t) <=> (p - 1) \div 7 = (o - 1) \div 7
    BY <1>1, Zenon DEF SamePeriod
  <2> HIDE DEF o, p
  <2> DEFINE k == (o - 1) \div 7
             r == (o - 1) % 7
             l == (p - 1) \div 7
             q == (p - 1) % 7
  <2>4. k \in Int /\ r \in 0 .. 6 /\ o - 1 = 7 * k + r
    BY <2>1, SMTT(30)
  <2>5. l \in Int /\ q \in 0 .. 6 /\ p - 1 = 7 * l + q
    BY <2>1, SMTT(30)
  <2>6. p \in o - r .. (o - r) + 6 <=> l = k
    <3> HIDE DEF k, r, l, q
    <3> QED
      BY <2>1, <2>4, <2>5, SMTT(30)
  <2> QED
    BY <1>1, <2>2, <2>3, <2>6 DEF o, p
<1>2. CASE scope = "this_month"
  <2> DEFINE c == NumberOf(t)
  <2>1. c \in Nat /\ c \div 12 = Year(t) /\ (c % 12) + 1 = Month(t)
    BY DatesInMonths
  <2>2. Window(scope, t) = FirstOfMonth(c) .. FirstOfMonth(c) + LengthOfMonth(c) - 1
    BY <1>2, <2>1 DEF Window, FirstOfMonth, LengthOfMonth
  <2>3. Ordinal(s) \in Window(scope, t) <=> NumberOf(s) = c
    BY <2>1, <2>2, OrdinalsTellDates
  <2>4. NumberOf(s) = c <=> Year(s) = Year(t) /\ Month(s) = Month(t)
    BY DatesInMonths DEF NumberOf
  <2> QED
    BY <1>2, <2>3, <2>4 DEF SamePeriod, Year, Month
<1>3. CASE scope = "all_time"
  BY <1>3 DEF SamePeriod
<1> QED
  BY <1>1, <1>2, <1>3 DEF Scopes

LEMMA DatesAreDates == ASSUME NEW t \in Dates PROVE IsDate(t)
  BY LeaderboardAssumption, PlusDaysIsRight DEF Dates

LEMMA AnotherDay ==
    ASSUME NEW t \in Dates, t # PlusDays(FirstDay, Days)
    PROVE  PlusDays(t, 1) \in Dates
<1>1. PICK k \in 0 .. Days : t = PlusDays(FirstDay, k)
  BY DEF Dates
<1>2. k + 1 \in 0 .. Days
  BY <1>1, LeaderboardAssumption
<1>3. Ordinal(t) = Ordinal(FirstDay) + k /\ Ordinal(FirstDay) \in Int
  BY <1>1, LeaderboardAssumption, PlusDaysIsRight, DatesHaveOrdinals
<1>4. Ordinal(t) + 1 = Ordinal(FirstDay) + (k + 1)
  BY <1>3
<1>5. PlusDays(t, 1) = PlusDays(FirstDay, k + 1)
  BY <1>4 DEF PlusDays
<1> QED
  BY <1>2, <1>5 DEF Dates
-----------------------------------------------------------------------------
(* Points and ranks *)

LEMMA SumIsANumber ==
    ASSUME NEW S, IsFiniteSet(S), NEW f, \A x \in S : f[x] \in Int
    PROVE  SumFunctionOnSet(f, S) \in Int
<1>1. CASE S = {}
  BY <1>1, SumOfNone
<1>2. CASE S # {}
  <2>1. PICK x \in S : TRUE
    BY <1>2
  <2>2. SumFunctionOnSet(f, S) = f[x] + SumFunctionOnSet(f, S \ {x})
        /\ SumFunctionOnSet(f, S \ {x}) \in Int
    BY <2>1, SumOfOneMore
  <2> QED
    BY <2>2
<1> QED
  BY <1>1, <1>2

LEMMA PointsAreNumbers ==
    ASSUME paid \subseteq LedgerRow, IsFiniteSet(paid), NEW u
    PROVE  Points(u) \in Int
<1> DEFINE f == [entry \in paid |-> PointsOf[entry.chore]]
           S == {entry \in paid : entry.user = u}
<1>1. IsFiniteSet(S)
  BY FS_Subset
<1>2. \A entry \in S : f[entry] \in Int
  BY LeaderboardAssumption DEF LedgerRow
<1> HIDE DEF f, S
<1>3. SumFunctionOnSet(f, S) \in Int
  BY <1>1, <1>2, SumIsANumber
<1> QED
  BY <1>3 DEF Points, f, S

\* An order of the members read has each of them once, and falls.
LEMMA OrdersFall ==
    ASSUME IsFiniteSet(listed), \A u \in listed : Points(u) \in Int, NEW order \in Orders
    PROVE  /\ Len(order) \in Nat /\ order \in [1 .. Len(order) -> listed]
           /\ \A u \in listed : \E k \in 1 .. Len(order) : order[k] = u
           /\ \A j, k \in 1 .. Len(order) : j <= k => Points(order[k]) <= Points(order[j])
<1> DEFINE n == Cardinality(listed)
<1>1. n \in Nat
  BY FS_CardinalityType
<1>2. /\ order \in [1 .. n -> listed]
      /\ \A j, k \in 1 .. n : j # k => order[j] # order[k]
      /\ \A j, k \in DOMAIN order : j < k => Above(order[j], order[k])
  BY DEF Orders, SetToSeqs
<1>3. Len(order) = n
  <2>1. order \in Seq(listed)
    BY <1>1, <1>2
  <2> QED
    BY <1>1, <1>2, <2>1
<1>4. \A u \in listed : \E k \in 1 .. n : order[k] = u
  <2>1. order \in Injection(1 .. n, listed)
    BY <1>2 DEF Injection, IsInjective
  <2>2. Cardinality(1 .. n) = n
    BY <1>1, FS_Interval
  <2>3. order \in Surjection(1 .. n, listed)
    BY <1>1, <2>1, <2>2, FS_Injection
  <2> QED
    BY <2>3 DEF Surjection
<1>5. ASSUME NEW j \in 1 .. n, NEW k \in 1 .. n, j <= k
      PROVE  Points(order[k]) <= Points(order[j])
  <2>1. Points(order[k]) \in Int /\ Points(order[j]) \in Int
    BY <1>2
  <2>2. CASE j = k
    BY <2>1, <2>2
  <2>3. CASE j # k
    <3>1. Above(order[j], order[k])
      BY <1>2, <1>5, <2>3
    <3> QED
      BY <2>1, <3>1 DEF Above
  <2> QED
    BY <2>2, <2>3
<1> QED
  BY <1>1, <1>2, <1>3, <1>4, <1>5

\* current_rank counts the totals above one's own: each is left at one fall.
LEMMA RanksCountTotals ==
    ASSUME IsFiniteSet(listed), \A u \in listed : Points(u) \in Int, NEW order \in Orders,
           NEW u \in listed
    PROVE  Ranks(order)[u] =
             1 + Cardinality({Points(v) : v \in {w \in listed : Points(w) > Points(u)}})
<1> DEFINE n == Len(order)
           P(k) == Points(order[k])
           falls == {k \in 2 .. n : P(k) < P(k - 1)}
           F == {k \in falls : \A j \in 1 .. k - 1 : order[j] # u}
           H == {Points(v) : v \in {w \in listed : Points(w) > Points(u)}}
           f == [k \in F |-> P(k - 1)]
<1>1. /\ n \in Nat /\ order \in [1 .. n -> listed]
      /\ \A v \in listed : \E k \in 1 .. n : order[k] = v
      /\ \A j, k \in 1 .. n : j <= k => P(k) <= P(j)
  BY OrdersFall
<1>2. \A k \in 1 .. n : P(k) \in Int
  BY <1>1
<1>3. PICK p \in 1 .. n : order[p] = u
  BY <1>1
<1>4. \A k \in F : k \in 2 .. n /\ k - 1 \in 1 .. n /\ P(k) < P(k - 1) /\ k <= p
  <2> TAKE k \in F
  <2>1. k \in 2 .. n /\ k - 1 \in 1 .. n /\ P(k) < P(k - 1)
    BY <1>1
  <2>2. ~ (p \in 1 .. k - 1)
    BY <1>3
  <2> QED
    BY <1>1, <1>3, <2>1, <2>2
<1>5. \A k \in F : f[k] \in H
  <2> TAKE k \in F
  <2>1. k \in 1 .. n /\ k - 1 \in 1 .. n /\ k <= p /\ P(k) < P(k - 1)
    BY <1>1, <1>4
  <2>2. P(p) <= P(k) /\ P(p) = Points(u)
    BY <1>1, <1>3, <2>1
  <2>3. order[k - 1] \in listed /\ P(k - 1) > Points(u)
    BY <1>1, <1>2, <1>3, <2>1, <2>2
  <2> QED
    BY <2>3
<1>6. ASSUME NEW j \in F, NEW k \in F, j < k PROVE f[j] # f[k]
  <2>1. j \in 1 .. n /\ j - 1 \in 1 .. n /\ k - 1 \in 1 .. n /\ P(j) < P(j - 1) /\ j <= k - 1
    BY <1>1, <1>4, <1>6
  <2>2. P(k - 1) <= P(j)
    BY <1>1, <2>1
  <2>3. P(k - 1) # P(j - 1)
    BY <1>2, <2>1, <2>2
  <2> QED
    BY <2>3
<1>7. ASSUME NEW h \in H PROVE \E k \in F : f[k] = h
  <2>1. PICK v \in listed : h = Points(v) /\ Points(v) > Points(u)
    OBVIOUS
  <2>2. PICK q \in 1 .. n : order[q] = v
    BY <1>1, <2>1
  <2>3. h \in Int /\ P(q) = h /\ P(p) < h
    BY <1>2, <1>3, <2>1, <2>2
  <2> DEFINE K == {k \in Nat : k \in 1 .. n /\ P(k) < h}
  <2>4. PICK k \in K : \A j \in K : ~ (j < k)
    <3>1. K \in SUBSET Nat /\ K # {}
      BY <1>3, <2>3
    <3> HIDE DEF K
    <3> QED
      BY <3>1, LeastNatural
  <2>5. k \in 1 .. n /\ P(k) < h
    BY <2>4
  <2>6. q < k
    <3>1. ~ (k <= q)
      BY <1>1, <1>2, <2>2, <2>3, <2>5
    <3> QED
      BY <2>2, <2>5, <3>1
  <2>7. k - 1 \in 1 .. n /\ q <= k - 1 /\ k \in 2 .. n /\ k - 1 < k
    BY <1>1, <2>2, <2>5, <2>6
  <2>8. ~ (P(k - 1) < h)
    BY <2>4, <2>7
  <2>9. P(k - 1) = h
    BY <1>1, <1>2, <2>2, <2>3, <2>7, <2>8
  <2>10. k <= p
    BY <2>4, <1>3, <2>3, <2>5
  <2>11. \A j \in 1 .. k - 1 : order[j] # u
    <3> SUFFICES ASSUME NEW j \in 1 .. k - 1, order[j] = u PROVE FALSE
      OBVIOUS
    <3>1. j \in 1 .. n /\ j <= k - 1
      BY <2>7
    <3>2. P(k - 1) <= P(j) /\ P(j) = Points(u)
      BY <1>1, <2>7, <3>1
    <3> QED
      BY <1>2, <1>3, <2>3, <2>9, <3>2
  <2>12. k \in F
    BY <2>5, <2>7, <2>9, <2>11
  <2> QED
    BY <2>9, <2>12
<1>8. f \in Bijection(F, H)
  <2>1. f \in [F -> H]
    BY <1>5
  <2>2. \A j, k \in F : f[j] = f[k] => j = k
    <3> SUFFICES ASSUME NEW j \in F, NEW k \in F, j # k PROVE f[j] # f[k]
      OBVIOUS
    <3>1. j \in Int /\ k \in Int
      BY <1>1
    <3>2. j < k \/ k < j
      BY <3>1
    <3> HIDE DEF f, F
    <3> QED
      BY <1>6, <3>2
  <2> HIDE DEF f, F, H
  <2> QED
    BY <1>7, <2>1, <2>2 DEF Bijection, Injection, Surjection, IsInjective
<1>9. Cardinality(F) = Cardinality(H)
  <2>1. IsFiniteSet(F)
    <3>1. F \subseteq 2 .. n
      OBVIOUS
    <3>2. IsFiniteSet(2 .. n)
      BY <1>1, FS_Interval
    <3> HIDE DEF F
    <3> QED
      BY <3>1, <3>2, FS_Subset
  <2> HIDE DEF f, F, H
  <2> QED
    BY <1>8, <2>1, FS_Bijection DEF ExistsBijection
<1>10. Ranks(order)[u] = 1 + Cardinality(F)
  BY DEF Ranks
<1> HIDE DEF F, H
<1> QED
  BY <1>9, <1>10 DEF H
-----------------------------------------------------------------------------
(* The invariant *)

FinitelyMany == IsFiniteSet(pointLedger) /\ IsFiniteSet(completed) /\ IsFiniteSet(paid)

\* The ledger row of a completed instance.
PaidFor(done) == [chore |-> done.chore, user |-> done.by, on |-> done.on]

\* Both rows of a completion are there, and there is one completion.
RecordsAgree ==
    /\ \A entry \in pointLedger : \E done \in completed : PaidFor(done) = entry
    /\ \A done \in completed : done.by # Nobody => PaidFor(done) \in pointLedger
    /\ \A done, other \in completed : done.chore = other.chore => done = other

\* The window is that of today, until midnight.
AsWindow ==
    at # "idle" /\ "day" \notin crossed => asks.window = Window(asks.scope, today)

\* What the request has read is what is stored, until something is committed.
ReadIsStored ==
    crossed = {} =>
        /\ at \in {"members", "points", "answered"} => listed = members
        /\ at \in {"points", "answered"} => paid = {entry \in pointLedger : InWindow(entry)}
        /\ at = "answered" => \A u \in listed : board[u].chores = Cardinality(ChoresOf(u))

BoardOf(order) ==
    [u \in listed |-> [rank   |-> Ranks(order)[u],
                       points |-> Points(u),
                       chores |-> board[u].chores]]

BoardIsOfWhatWasRead == at = "answered" => \E order \in Orders : board = BoardOf(order)

PaidWasCompleted ==
    crossed \cap {"handedOver", "deleted"} = {} =>
        /\ at = "points" =>
             \A entry \in paid : /\ \E done \in completed : PaidFor(done) = entry
                                 /\ InWindow(entry)
        /\ at = "answered" => NothingPaidForNothing

CountsAreNumbers == at = "answered" => \A u \in listed : board[u].chores \in Nat

BoardIInv ==
    /\ BoardTypeOK /\ FinitelyMany /\ RecordsAgree /\ AsWindow /\ ReadIsStored
    /\ BoardIsOfWhatWasRead /\ PaidWasCompleted /\ CountsAreNumbers
-----------------------------------------------------------------------------
(* The invariant is inductive *)

LEMMA BoardStarts == BoardInit => BoardIInv
<1> SUFFICES ASSUME BoardInit PROVE BoardIInv
  OBVIOUS
<1>1. FirstDay \in Dates
  <2>1. PlusDays(FirstDay, 0) = FirstDay
    <3>1. IsDate(PlusDays(FirstDay, 0)) /\ Ordinal(PlusDays(FirstDay, 0)) = Ordinal(FirstDay)
      BY LeaderboardAssumption, PlusDaysIsRight, DatesHaveOrdinals
    <3> QED
      BY <3>1, LeaderboardAssumption, DatesAreTheirOrdinals
  <2>2. 0 \in 0 .. Days
    BY LeaderboardAssumption
  <2> QED
    BY <2>1, <2>2 DEF Dates
<1>2. BoardTypeOK
  <2>1. DOMAIN board = {}
    BY DEF BoardInit
  <2> QED
    BY <1>1, <2>1, LeaderboardAssumption DEF BoardInit, BoardTypeOK, NoAsk, Scopes
<1>3. FinitelyMany
  BY FS_EmptySet DEF BoardInit, FinitelyMany
<1>4. /\ RecordsAgree /\ AsWindow /\ ReadIsStored /\ BoardIsOfWhatWasRead /\ PaidWasCompleted
      /\ CountsAreNumbers
  BY DEF BoardInit, RecordsAgree, AsWindow, ReadIsStored, BoardIsOfWhatWasRead, PaidWasCompleted,
         CountsAreNumbers
<1> QED
  BY <1>2, <1>3, <1>4 DEF BoardIInv

LEMMA AskKeeps ==
    ASSUME BoardIInv, NEW scope \in Scopes, Ask(scope)
    PROVE  BoardIInv'
<1>1. BoardTypeOK' /\ FinitelyMany' /\ RecordsAgree'
  BY DEF BoardIInv, Ask, tables, BoardTypeOK, FinitelyMany, RecordsAgree, PaidFor
<1>2. AsWindow' /\ ReadIsStored' /\ BoardIsOfWhatWasRead' /\ PaidWasCompleted' /\ CountsAreNumbers'
  BY DEF Ask, AsWindow, ReadIsStored, BoardIsOfWhatWasRead, PaidWasCompleted, CountsAreNumbers
<1> QED
  BY <1>1, <1>2 DEF BoardIInv

LEMMA ReadMembersKeeps == ASSUME BoardIInv, ReadMembers PROVE BoardIInv'
<1>1. BoardTypeOK' /\ FinitelyMany' /\ RecordsAgree'
  BY DEF BoardIInv, ReadMembers, tables, BoardTypeOK, FinitelyMany, RecordsAgree, PaidFor
<1>2. AsWindow' /\ ReadIsStored' /\ BoardIsOfWhatWasRead' /\ PaidWasCompleted' /\ CountsAreNumbers'
  BY DEF BoardIInv, ReadMembers, tables, AsWindow, ReadIsStored, BoardIsOfWhatWasRead,
         PaidWasCompleted, CountsAreNumbers
<1> QED
  BY <1>1, <1>2 DEF BoardIInv

LEMMA ReadPointsKeeps == ASSUME BoardIInv, ReadPoints PROVE BoardIInv'
<1>1. \A entry : InWindow(entry)' <=> InWindow(entry)
  BY DEF ReadPoints, InWindow
<1>2. paid' = {entry \in pointLedger : InWindow(entry)} /\ paid' \subseteq pointLedger
  BY DEF ReadPoints
<1>3. BoardTypeOK' /\ RecordsAgree'
  BY <1>2 DEF BoardIInv, ReadPoints, tables, BoardTypeOK, RecordsAgree, PaidFor
<1>4. FinitelyMany'
  BY <1>2, FS_Subset DEF BoardIInv, ReadPoints, tables, FinitelyMany
<1>5. AsWindow' /\ BoardIsOfWhatWasRead' /\ CountsAreNumbers'
  BY DEF BoardIInv, ReadPoints, AsWindow, BoardIsOfWhatWasRead, CountsAreNumbers
<1>6. ReadIsStored'
  BY <1>1, <1>2 DEF BoardIInv, ReadPoints, tables, ReadIsStored
<1>7. PaidWasCompleted'
  BY <1>1, <1>2 DEF BoardIInv, ReadPoints, tables, RecordsAgree, PaidFor, PaidWasCompleted
<1> QED
  BY <1>3, <1>4, <1>5, <1>6, <1>7 DEF BoardIInv

\* Each ledger row is for a chore of its own, in the name of its user unless
\* it was handed over late.
LEMMA NoMorePaidThanDone ==
    ASSUME BoardTypeOK, FinitelyMany, NEW u,
           \A entry \in paid : /\ \E done \in completed : PaidFor(done) = entry
                               /\ InWindow(entry)
    PROVE  Cardinality({entry \in paid : entry.user = u /\ entry.chore \notin HandedOver})
             <= Cardinality(ChoresOf(u))
<1> DEFINE S == {entry \in paid : entry.user = u /\ entry.chore \notin HandedOver}
           T == {done \in ChoresOf(u) : PaidFor(done) \in S}
           f == [done \in T |-> PaidFor(done)]
<1>1. IsFiniteSet(ChoresOf(u)) /\ T \subseteq ChoresOf(u)
  BY FS_Subset DEF FinitelyMany, ChoresOf
<1>2. IsFiniteSet(T) /\ Cardinality(T) <= Cardinality(ChoresOf(u))
  <2> HIDE DEF T
  <2> QED
    BY <1>1, FS_Subset
<1>3. f \in Surjection(T, S)
  <2>1. ASSUME NEW entry \in S PROVE \E done \in T : PaidFor(done) = entry
    <3>1. PICK done \in completed : PaidFor(done) = entry
      OBVIOUS
    <3>2. /\ entry.user = u /\ entry.chore \notin HandedOver /\ InWindow(entry)
          /\ entry.user = done.by /\ entry.chore = done.chore /\ entry.on = done.on
      BY <3>1 DEF PaidFor
    <3>3. done.assignee = done.by
      BY <3>2 DEF HandedOver
    <3>4. done \in ChoresOf(u)
      BY <3>2, <3>3 DEF ChoresOf, InWindow
    <3> QED
      BY <3>1, <3>4
  <2>2. f \in [T -> S]
    <3> HIDE DEF S
    <3> QED
      OBVIOUS
  <2>3. \A done \in T : f[done] = PaidFor(done)
    OBVIOUS
  <2> HIDE DEF f, T, S
  <2> QED
    BY <2>1, <2>2, <2>3 DEF Surjection
<1> HIDE DEF f, S, T
<1>4. IsFiniteSet(S) /\ Cardinality(S) <= Cardinality(T)
  BY <1>2, <1>3, FS_Surjection
<1>5. /\ Cardinality(S) \in Nat /\ Cardinality(T) \in Nat
      /\ Cardinality(ChoresOf(u)) \in Nat
  BY <1>1, <1>2, <1>4, FS_CardinalityType
<1>6. Cardinality(S) <= Cardinality(ChoresOf(u))
  BY <1>2, <1>4, <1>5
<1> QED
  BY <1>6 DEF S

LEMMA ReadChoresKeeps == ASSUME BoardIInv, ReadChores PROVE BoardIInv'
<1>1. /\ at = "points" /\ at' = "answered"
      /\ UNCHANGED <<today, members, deleted, changes, pointLedger, completed, asks, listed, paid, crossed>>
  BY DEF ReadChores, tables
<1>2. PICK order \in Orders :
        board' = [u \in listed |-> [rank   |-> Ranks(order)[u],
                                   points |-> Points(u),
                                   chores |-> Cardinality(ChoresOf(u))]]
  BY DEF ReadChores
<1>3. /\ \A u : Points(u)' = Points(u)
      /\ \A entry : InWindow(entry)' <=> InWindow(entry)
  BY <1>1 DEF Points, InWindow
<1>4. Orders' = Orders /\ Ranks(order)' = Ranks(order) /\ \A u : ChoresOf(u)' = ChoresOf(u)
  BY <1>1, <1>3 DEF Orders, Above, Ranks, ChoresOf
<1>5. DOMAIN board' = listed /\ \A u \in listed : board'[u].chores = Cardinality(ChoresOf(u))
  BY <1>2
<1>6. BoardTypeOK' /\ FinitelyMany' /\ RecordsAgree' /\ AsWindow'
  BY <1>1, <1>5 DEF BoardIInv, BoardTypeOK, FinitelyMany, RecordsAgree, PaidFor, AsWindow
<1>7. ReadIsStored'
  BY <1>1, <1>3, <1>4, <1>5 DEF BoardIInv, ReadIsStored
<1>8. BoardIsOfWhatWasRead'
  <2>1. board' = BoardOf(order)'
    BY <1>1, <1>2, <1>3, <1>4, <1>5 DEF BoardOf
  <2> QED
    BY <1>4, <2>1 DEF BoardIsOfWhatWasRead
<1>9. PaidWasCompleted'
  <2> SUFFICES ASSUME crossed \cap {"handedOver", "deleted"} = {}, NEW u \in listed
               PROVE  Cardinality({entry \in paid : entry.user = u /\ entry.chore \notin HandedOver})
                        <= board'[u].chores
    BY <1>1 DEF PaidWasCompleted, NothingPaidForNothing, HandedOver
  <2>1. \A entry \in paid : /\ \E done \in completed : PaidFor(done) = entry
                            /\ InWindow(entry)
    BY <1>1 DEF BoardIInv, PaidWasCompleted
  <2>2. Cardinality({entry \in paid : entry.user = u /\ entry.chore \notin HandedOver})
          <= Cardinality(ChoresOf(u))
    BY <2>1, NoMorePaidThanDone DEF BoardIInv
  <2> QED
    BY <1>5, <2>2
<1>10. CountsAreNumbers'
  <2>1. \A u : IsFiniteSet(ChoresOf(u))
    BY FS_Subset DEF BoardIInv, FinitelyMany, ChoresOf
  <2> QED
    BY <1>1, <1>5, <2>1, FS_CardinalityType DEF CountsAreNumbers
<1> QED
  BY <1>6, <1>7, <1>8, <1>9, <1>10 DEF BoardIInv

LEMMA DoneKeeps == ASSUME BoardIInv, Done PROVE BoardIInv'
<1>1. BoardTypeOK'
  <2>1. DOMAIN board' = {}
    BY DEF Done
  <2> QED
    BY <2>1 DEF BoardIInv, Done, tables, BoardTypeOK, NoAsk, Scopes
<1>2. FinitelyMany' /\ RecordsAgree'
  BY FS_EmptySet DEF BoardIInv, Done, tables, FinitelyMany, RecordsAgree, PaidFor
<1>3. AsWindow' /\ ReadIsStored' /\ BoardIsOfWhatWasRead' /\ PaidWasCompleted' /\ CountsAreNumbers'
  BY DEF Done, AsWindow, ReadIsStored, BoardIsOfWhatWasRead, PaidWasCompleted, CountsAreNumbers
<1> QED
  BY <1>1, <1>2, <1>3 DEF BoardIInv

\* What is committed meanwhile crosses the request and leaves it as it is.
LEMMA MeanwhileKeeps ==
    ASSUME BoardIInv, UNCHANGED request, NEW what, Crossed(what),
           BoardTypeOK', FinitelyMany', RecordsAgree',
           what # "day" => today' = today,
           what \notin {"handedOver", "deleted"} => completed \subseteq completed'
    PROVE  BoardIInv'
<1>1. UNCHANGED <<at, asks, listed, paid, board>>
  BY DEF request
<1>2. /\ at # "idle" => crossed' # {} /\ what \in crossed'
      /\ crossed \subseteq crossed'
  BY DEF Crossed
<1>3. AsWindow'
  BY <1>1, <1>2 DEF BoardIInv, AsWindow
<1>4. ReadIsStored'
  BY <1>1, <1>2 DEF ReadIsStored
<1>5. BoardIsOfWhatWasRead'
  <2>1. \A u : Points(u)' = Points(u)
    BY <1>1 DEF Points
  <2>2. Orders' = Orders /\ \A order : BoardOf(order)' = BoardOf(order)
    BY <1>1, <2>1 DEF Orders, Above, BoardOf, Ranks
  <2> QED
    BY <1>1, <2>2 DEF BoardIInv, BoardIsOfWhatWasRead
<1>6. PaidWasCompleted'
  <2> SUFFICES ASSUME crossed' \cap {"handedOver", "deleted"} = {},
                      at = "points" \/ at = "answered"
               PROVE  /\ at = "points" =>
                           \A entry \in paid : /\ \E done \in completed' : PaidFor(done) = entry
                                               /\ InWindow(entry)'
                      /\ at = "answered" => NothingPaidForNothing'
    BY <1>1 DEF PaidWasCompleted, PaidFor
  <2>1. completed \subseteq completed' /\ crossed \cap {"handedOver", "deleted"} = {}
    BY <1>2
  <2>2. at = "points" => \A entry \in paid : /\ \E done \in completed' : PaidFor(done) = entry
                                             /\ InWindow(entry)'
    BY <1>1, <2>1 DEF BoardIInv, PaidWasCompleted, InWindow
  <2>3. ASSUME at = "answered" PROVE NothingPaidForNothing'
    <3> SUFFICES ASSUME NEW u \in listed
                 PROVE  Cardinality({entry \in paid : /\ entry.user = u
                                                      /\ entry.chore \notin HandedOver'})
                          <= board[u].chores
      BY <1>1 DEF NothingPaidForNothing
    <3> DEFINE S == {entry \in paid : entry.user = u /\ entry.chore \notin HandedOver}
               T == {entry \in paid : entry.user = u /\ entry.chore \notin HandedOver'}
    <3>1. Cardinality(S) <= board[u].chores
      BY <2>1, <2>3 DEF BoardIInv, PaidWasCompleted, NothingPaidForNothing
    <3>2. T \subseteq S
      BY <2>1 DEF HandedOver
    <3>3. IsFiniteSet(S)
      BY FS_Subset DEF BoardIInv, FinitelyMany
    <3>4. board[u].chores \in Nat
      BY <2>3 DEF BoardIInv, CountsAreNumbers
    <3> HIDE DEF S, T
    <3>5. IsFiniteSet(T) /\ Cardinality(T) <= Cardinality(S)
      BY <3>2, <3>3, FS_Subset
    <3>6. Cardinality(S) \in Nat /\ Cardinality(T) \in Nat
      BY <3>3, <3>5, FS_CardinalityType
    <3>7. Cardinality(T) <= board[u].chores
      BY <3>1, <3>4, <3>5, <3>6
    <3> QED
      BY <3>7 DEF T
  <2> QED
    BY <2>2, <2>3
<1>7. CountsAreNumbers'
  BY <1>1 DEF BoardIInv, CountsAreNumbers
<1> QED
  BY <1>3, <1>4, <1>5, <1>6, <1>7 DEF BoardIInv

LEMMA CompleteKeeps ==
    ASSUME BoardIInv, NEW c \in Chores, NEW u \in People \cup {Nobody}, Complete(c, u)
    PROVE  BoardIInv'
<1> DEFINE new == [chore |-> c, assignee |-> u, by |-> u, on |-> today]
           entry == [chore |-> c, user |-> u, on |-> today]
<1>1. /\ \A r \in completed : r.chore # c
      /\ completed' = completed \cup {new}
      /\ pointLedger' = IF u = Nobody THEN pointLedger ELSE pointLedger \cup {entry}
      /\ Crossed("completed")
      /\ UNCHANGED <<today, members, deleted, changes>> /\ UNCHANGED request
  BY DEF Complete
<1>2. UNCHANGED <<at, asks, listed, paid, board>>
  BY <1>1 DEF request
<1>3. BoardTypeOK'
  <2>1. new \in Completed /\ (u # Nobody => entry \in LedgerRow)
    BY DEF BoardIInv, BoardTypeOK, Completed, LedgerRow
  <2>2. crossed' \subseteq {"day", "completed", "members", "handedOver", "deleted"}
    BY <1>1 DEF BoardIInv, BoardTypeOK, Crossed
  <2> HIDE DEF new, entry
  <2> QED
    BY <1>1, <1>2, <2>1, <2>2 DEF BoardIInv, BoardTypeOK
<1>4. FinitelyMany'
  <2> HIDE DEF new, entry
  <2> QED
    BY <1>1, <1>2, FS_AddElement DEF BoardIInv, FinitelyMany
<1>5. RecordsAgree'
  <2>1. PaidFor(new) = entry /\ new.chore = c /\ new.by = u
    BY DEF PaidFor
  <2>2. \A done : PaidFor(done)' = PaidFor(done)
    BY DEF PaidFor
  <2>3. \A other \in pointLedger' : \E done \in completed' : PaidFor(done) = other
    <3> HIDE DEF new, entry
    <3> QED
      BY <1>1, <2>1 DEF BoardIInv, RecordsAgree
  <2>4. \A done \in completed' : done.by # Nobody => PaidFor(done) \in pointLedger'
    <3> HIDE DEF new, entry
    <3> QED
      BY <1>1, <2>1 DEF BoardIInv, RecordsAgree
  <2>5. \A done, other \in completed' : done.chore = other.chore => done = other
    <3> HIDE DEF new, entry
    <3> QED
      BY <1>1, <2>1 DEF BoardIInv, RecordsAgree
  <2> QED
    BY <2>2, <2>3, <2>4, <2>5 DEF RecordsAgree
<1> HIDE DEF new
<1> QED
  BY <1>1, <1>3, <1>4, <1>5, MeanwhileKeeps

\* A late hand-over leaves the chore, its day, and who was paid for it.
LEMMA HandOverKeeps ==
    ASSUME BoardIInv, NEW old \in completed, NEW v \in People \cup {Nobody}, HandOver(old, v)
    PROVE  BoardIInv'
<1> DEFINE now == [old EXCEPT !.assignee = v]
<1>1. /\ changes < MaxChanges /\ changes' = changes + 1
      /\ completed' = (completed \ {old}) \cup {now} /\ Crossed("handedOver")
      /\ UNCHANGED <<today, members, deleted, pointLedger>> /\ UNCHANGED request
  BY DEF HandOver
<1>2. UNCHANGED <<at, asks, listed, paid, board>>
  BY <1>1 DEF request
<1>3. completed \subseteq Completed /\ RecordsAgree
  BY DEF BoardIInv, BoardTypeOK
<1>4. now \in Completed /\ now.chore = old.chore /\ now.by = old.by /\ now.on = old.on
  BY <1>3 DEF Completed
<1>5. PaidFor(now) = PaidFor(old) /\ \A done : PaidFor(done)' = PaidFor(done)
  BY <1>4 DEF PaidFor
<1> HIDE DEF now
<1>6. BoardTypeOK'
  <2>1. crossed' \subseteq {"day", "completed", "members", "handedOver", "deleted"}
    BY <1>1 DEF BoardIInv, BoardTypeOK, Crossed
  <2> QED
    BY <1>1, <1>2, <1>4, <2>1, LeaderboardAssumption DEF BoardIInv, BoardTypeOK
<1>7. FinitelyMany'
  <2>1. IsFiniteSet(completed \ {old})
    BY FS_Subset DEF BoardIInv, FinitelyMany
  <2> QED
    BY <1>1, <1>2, <2>1, FS_AddElement DEF BoardIInv, FinitelyMany
<1>8. RecordsAgree'
  <2>1. \A entry \in pointLedger' : \E done \in completed' : PaidFor(done) = entry
    BY <1>1, <1>3, <1>5 DEF RecordsAgree
  <2>2. \A done \in completed' : done.by # Nobody => PaidFor(done) \in pointLedger'
    BY <1>1, <1>3, <1>4, <1>5 DEF RecordsAgree
  <2>3. \A done, other \in completed' : done.chore = other.chore => done = other
    BY <1>1, <1>3, <1>4 DEF RecordsAgree
  <2> QED
    BY <1>5, <2>1, <2>2, <2>3 DEF RecordsAgree
<1> QED
  BY <1>1, <1>6, <1>7, <1>8, MeanwhileKeeps

LEMMA LeaveKeeps ==
    ASSUME BoardIInv, NEW u \in People, Leave(u) \/ Join(u)
    PROVE  BoardIInv'
<1>1. /\ changes < MaxChanges /\ changes' = changes + 1
      /\ members' \subseteq members \cup {u} /\ Crossed("members")
      /\ UNCHANGED <<today, deleted, pointLedger, completed>> /\ UNCHANGED request
  BY DEF Leave, Join
<1>2. UNCHANGED <<at, asks, listed, paid, board>>
  BY <1>1 DEF request
<1>3. BoardTypeOK'
  <2>1. crossed' \subseteq {"day", "completed", "members", "handedOver", "deleted"}
    BY <1>1 DEF BoardIInv, BoardTypeOK, Crossed
  <2> QED
    BY <1>1, <1>2, <2>1, LeaderboardAssumption DEF BoardIInv, BoardTypeOK
<1>4. FinitelyMany' /\ RecordsAgree'
  BY <1>1, <1>2 DEF BoardIInv, FinitelyMany, RecordsAgree, PaidFor
<1> QED
  BY <1>1, <1>3, <1>4, MeanwhileKeeps

\* The rows of a deleted account go with it, its chores stay nobody's.
LEMMA DeleteAccountKeeps ==
    ASSUME BoardIInv, NEW u \in People, DeleteAccount(u)
    PROVE  BoardIInv'
<1> DEFINE after(done) == Without(u, done)
<1>1. /\ changes < MaxChanges /\ changes' = changes + 1
      /\ deleted' = deleted \cup {u} /\ members' = members \ {u}
      /\ pointLedger' = {entry \in pointLedger : entry.user # u}
      /\ completed' = {after(entry) : entry \in completed}
      /\ Crossed("deleted")
      /\ today' = today /\ UNCHANGED request
  BY DEF DeleteAccount
<1>2. UNCHANGED <<at, asks, listed, paid, board>>
  BY <1>1 DEF request
<1>3. /\ pointLedger \subseteq LedgerRow /\ completed \subseteq Completed /\ Nobody \notin People
      /\ RecordsAgree
  BY LeaderboardAssumption DEF BoardIInv, BoardTypeOK
<1>4. \A entry \in completed :
        /\ after(entry) \in Completed /\ after(entry).chore = entry.chore /\ after(entry).on = entry.on
        /\ after(entry).by = IF entry.by = u THEN Nobody ELSE entry.by
  BY <1>3 DEF Completed, Without
<1> HIDE DEF after
<1>5. BoardTypeOK'
  <2>1. crossed' \subseteq {"day", "completed", "members", "handedOver", "deleted"}
    BY <1>1 DEF BoardIInv, BoardTypeOK, Crossed
  <2> QED
    BY <1>1, <1>2, <1>4, <2>1, LeaderboardAssumption DEF BoardIInv, BoardTypeOK
<1>6. FinitelyMany'
  <2>1. IsFiniteSet(pointLedger') /\ IsFiniteSet(paid')
    BY <1>1, <1>2, FS_Subset DEF BoardIInv, FinitelyMany
  <2>2. IsFiniteSet(completed')
    <3>1. IsFiniteSet(completed)
      BY DEF BoardIInv, FinitelyMany
    <3> DEFINE f == [entry \in completed |-> after(entry)]
    <3>2. f \in Surjection(completed, completed')
      BY <1>1 DEF Surjection
    <3> HIDE DEF f
    <3> QED
      BY <3>1, <3>2, FS_Surjection
  <2> QED
    BY <2>1, <2>2 DEF FinitelyMany
<1>7. RecordsAgree'
  <2>1. ASSUME NEW entry \in pointLedger' PROVE \E done \in completed' : PaidFor(done) = entry
    <3>1. entry \in pointLedger /\ entry.user # u
      BY <1>1, <2>1
    <3>2. PICK done \in completed : PaidFor(done) = entry
      BY <1>3, <3>1 DEF RecordsAgree
    <3>3. done.by # u
      BY <3>1, <3>2 DEF PaidFor
    <3>4. PaidFor(after(done)) = PaidFor(done)
      BY <1>4, <3>3 DEF PaidFor
    <3> QED
      BY <1>1, <3>2, <3>4
  <2>2. ASSUME NEW entry \in completed', entry.by # Nobody PROVE PaidFor(entry) \in pointLedger'
    <3>1. PICK old \in completed : entry = after(old)
      BY <1>1, <2>2
    <3>2. old.by # u /\ entry.by = old.by /\ old.by # Nobody
      BY <1>4, <2>2, <3>1
    <3>3. PaidFor(entry) = PaidFor(old) /\ PaidFor(old).user # u
      BY <1>4, <3>1, <3>2 DEF PaidFor
    <3>4. PaidFor(old) \in pointLedger
      BY <1>3, <3>2 DEF RecordsAgree
    <3> QED
      BY <1>1, <3>3, <3>4
  <2>3. ASSUME NEW entry \in completed', NEW other \in completed', entry.chore = other.chore
        PROVE  entry = other
    <3>1. PICK r \in completed : entry = after(r)
      BY <1>1, <2>3
    <3>2. PICK o \in completed : other = after(o)
      BY <1>1, <2>3
    <3>3. r = o
      BY <1>3, <1>4, <2>3, <3>1, <3>2 DEF RecordsAgree
    <3> QED
      BY <3>1, <3>2, <3>3
  <2> QED
    BY <2>1, <2>2, <2>3 DEF RecordsAgree, PaidFor
<1> QED
  BY <1>1, <1>5, <1>6, <1>7, MeanwhileKeeps

LEMMA DeleteHouseholdKeeps == ASSUME BoardIInv, DeleteHousehold PROVE BoardIInv'
<1>1. /\ changes < MaxChanges /\ changes' = changes + 1
      /\ members' = {} /\ pointLedger' = {} /\ completed' = {} /\ Crossed("deleted")
      /\ UNCHANGED <<today, deleted>> /\ UNCHANGED request
  BY DEF DeleteHousehold
<1>2. UNCHANGED <<at, asks, listed, paid, board>>
  BY <1>1 DEF request
<1>3. BoardTypeOK'
  <2>1. crossed' \subseteq {"day", "completed", "members", "handedOver", "deleted"}
    BY <1>1 DEF BoardIInv, BoardTypeOK, Crossed
  <2> QED
    BY <1>1, <1>2, <2>1, LeaderboardAssumption DEF BoardIInv, BoardTypeOK
<1>4. FinitelyMany' /\ RecordsAgree'
  BY <1>1, <1>2, FS_EmptySet DEF BoardIInv, FinitelyMany, RecordsAgree
<1> QED
  BY <1>1, <1>3, <1>4, MeanwhileKeeps

LEMMA NewDayKeeps == ASSUME BoardIInv, NewDay PROVE BoardIInv'
<1>1. /\ today # PlusDays(FirstDay, Days) /\ today' = PlusDays(today, 1)
      /\ Crossed("day") /\ UNCHANGED <<members, deleted, changes, pointLedger, completed>>
      /\ UNCHANGED request
  BY DEF NewDay, tables
<1>2. UNCHANGED <<at, asks, listed, paid, board>>
  BY <1>1 DEF request
<1>3. BoardTypeOK'
  <2>1. crossed' \subseteq {"day", "completed", "members", "handedOver", "deleted"}
    BY <1>1 DEF BoardIInv, BoardTypeOK, Crossed
  <2>2. today' \in Dates
    BY <1>1, AnotherDay DEF BoardIInv, BoardTypeOK
  <2> QED
    BY <1>1, <1>2, <2>1, <2>2 DEF BoardIInv, BoardTypeOK
<1>4. FinitelyMany' /\ RecordsAgree'
  BY <1>1, <1>2 DEF BoardIInv, FinitelyMany, RecordsAgree, PaidFor
<1> QED
  BY <1>1, <1>3, <1>4, MeanwhileKeeps

LEMMA BoardStays == ASSUME BoardIInv, UNCHANGED boardVars PROVE BoardIInv'
<1>1. UNCHANGED <<today, members, deleted, changes, pointLedger, completed,
                  at, asks, listed, paid, board, crossed>>
  BY DEF boardVars, tables, request
<1>2. /\ \A u : Points(u)' = Points(u)
      /\ \A entry : InWindow(entry)' <=> InWindow(entry)
  BY <1>1 DEF Points, InWindow
<1>3. /\ Orders' = Orders /\ \A order : BoardOf(order)' = BoardOf(order)
      /\ \A u : ChoresOf(u)' = ChoresOf(u)
  BY <1>1, <1>2 DEF Orders, Above, BoardOf, Ranks, ChoresOf
<1>4. BoardTypeOK' /\ FinitelyMany' /\ RecordsAgree' /\ AsWindow'
  BY <1>1 DEF BoardIInv, BoardTypeOK, FinitelyMany, RecordsAgree, PaidFor, AsWindow
<1>5. ReadIsStored' /\ BoardIsOfWhatWasRead'
  BY <1>1, <1>2, <1>3 DEF BoardIInv, ReadIsStored, BoardIsOfWhatWasRead
<1>6. PaidWasCompleted' /\ CountsAreNumbers'
  BY <1>1, <1>2 DEF BoardIInv, PaidWasCompleted, PaidFor, NothingPaidForNothing, HandedOver,
                    CountsAreNumbers
<1> QED
  BY <1>4, <1>5, <1>6 DEF BoardIInv

LEMMA BoardIsInductive == BoardSpec => []BoardIInv
<1>1. ASSUME BoardIInv, [BoardNext]_boardVars PROVE BoardIInv'
  <2>1. ASSUME NEW scope \in Scopes, Ask(scope) PROVE BoardIInv'
    BY <1>1, <2>1, AskKeeps
  <2>2. ASSUME ReadMembers PROVE BoardIInv'
    BY <1>1, <2>2, ReadMembersKeeps
  <2>3. ASSUME ReadPoints PROVE BoardIInv'
    BY <1>1, <2>3, ReadPointsKeeps
  <2>4. ASSUME ReadChores PROVE BoardIInv'
    BY <1>1, <2>4, ReadChoresKeeps
  <2>5. ASSUME Done PROVE BoardIInv'
    BY <1>1, <2>5, DoneKeeps
  <2>6. ASSUME NEW c \in Chores, NEW u \in People \cup {Nobody}, Complete(c, u) PROVE BoardIInv'
    BY <1>1, <2>6, CompleteKeeps
  <2>7. ASSUME NEW u \in People, Leave(u) \/ Join(u) PROVE BoardIInv'
    BY <1>1, <2>7, LeaveKeeps
  <2>8. ASSUME NEW u \in People, DeleteAccount(u) PROVE BoardIInv'
    BY <1>1, <2>8, DeleteAccountKeeps
  <2>9. ASSUME NewDay PROVE BoardIInv'
    BY <1>1, <2>9, NewDayKeeps
  <2>10. CASE UNCHANGED boardVars
    BY <1>1, <2>10, BoardStays
  <2>11. ASSUME NEW old \in completed, NEW v \in People \cup {Nobody}, HandOver(old, v)
         PROVE  BoardIInv'
    BY <1>1, <2>11, HandOverKeeps
  <2>12. ASSUME DeleteHousehold PROVE BoardIInv'
    BY <1>1, <2>12, DeleteHouseholdKeeps
  <2> QED
    BY <1>1, <2>1, <2>2, <2>3, <2>4, <2>5, <2>6, <2>7, <2>8, <2>9, <2>10, <2>11, <2>12 DEF BoardNext
<1> QED
  BY <1>1, BoardStarts, PTL DEF BoardSpec
-----------------------------------------------------------------------------
(* The board *)

\* By the window is by the dates.
LEMMA WindowIsOfToday ==
    ASSUME BoardIInv, at = "answered", crossed = {}
    PROVE  \A done \in completed : InWindow(done) <=> InPeriod(done)
<1>1. /\ asks.window = Window(asks.scope, today) /\ asks.scope \in Scopes
      /\ today \in Dates /\ completed \subseteq Completed
  BY DEF BoardIInv, AsWindow, BoardTypeOK
<1> TAKE done \in completed
<1>2. done.on \in Dates
  BY <1>1 DEF Completed
<1>3. IsDate(done.on) /\ IsDate(today)
  BY <1>1, <1>2, DatesAreDates
<1> QED
  BY <1>1, <1>3, WindowIsPeriod DEF InWindow, InPeriod

\* What the member was the assignee of at the completion.
Earned(u) == {done \in completed : done.by = u /\ InPeriod(done)}

\* The points are those of exactly the chores that were the member's when completed.
LEMMA PointsAreEarned ==
    ASSUME BoardIInv, at = "answered", crossed = {}, NEW u \in listed
    PROVE  Points(u) = SumFunctionOnSet([done \in Earned(u) |-> PointsOf[done.chore]], Earned(u))
<1> DEFINE f == [done \in Earned(u) |-> PointsOf[done.chore]]
           k == [entry \in paid |-> PointsOf[entry.chore]]
           T == {entry \in paid : entry.user = u}
           h == [done \in Earned(u) |-> PaidFor(done)]
<1>1. /\ paid = {entry \in pointLedger : InWindow(entry)} /\ RecordsAgree
      /\ completed \subseteq Completed /\ u \in People /\ u # Nobody
  BY LeaderboardAssumption DEF BoardIInv, ReadIsStored, BoardTypeOK
<1>2. \A done \in completed : InWindow(PaidFor(done)) <=> InPeriod(done)
  <2>1. \A done \in completed : InWindow(PaidFor(done)) <=> InWindow(done)
    BY DEF InWindow, PaidFor
  <2> QED
    BY <2>1, WindowIsOfToday
<1>3. \A done \in Earned(u) : PaidFor(done) \in T
  <2> TAKE done \in Earned(u)
  <2>1. done \in completed /\ done.by = u /\ InPeriod(done)
    BY DEF Earned
  <2>2. PaidFor(done) \in pointLedger /\ PaidFor(done).user = u
    BY <1>1, <2>1 DEF RecordsAgree, PaidFor
  <2> QED
    BY <1>1, <1>2, <2>1, <2>2
<1>4. h \in Bijection(Earned(u), T)
  <2>1. h \in [Earned(u) -> T]
    <3> HIDE DEF T
    <3> QED
      BY <1>3
  <2>2. \A done, other \in Earned(u) : h[done] = h[other] => done = other
    <3> TAKE done, other \in Earned(u)
    <3>1. h[done] = h[other] => done.chore = other.chore
      BY DEF PaidFor
    <3>2. done \in completed /\ other \in completed
      BY DEF Earned
    <3> QED
      BY <1>1, <3>1, <3>2 DEF RecordsAgree
  <2>3. ASSUME NEW entry \in T PROVE \E done \in Earned(u) : h[done] = entry
    <3>1. entry \in pointLedger /\ InWindow(entry) /\ entry.user = u
      BY <1>1
    <3>2. PICK done \in completed : PaidFor(done) = entry
      BY <1>1, <3>1 DEF RecordsAgree
    <3>3. done.by = u /\ InPeriod(done)
      <4>1. done.by = u
        BY <3>1, <3>2 DEF PaidFor
      <4> QED
        BY <1>2, <3>1, <3>2, <4>1
    <3>4. done \in Earned(u)
      BY <3>3 DEF Earned
    <3> QED
      BY <3>2, <3>4
  <2> HIDE DEF h, T
  <2> QED
    BY <2>1, <2>2, <2>3 DEF Bijection, Injection, Surjection, IsInjective
<1>5. ASSUME NEW done \in Earned(u) PROVE f[done] \in Int /\ k[h[done]] = f[done]
  <2>1. done \in Completed
    BY <1>1 DEF Earned
  <2>2. h[done] \in paid /\ h[done].chore = done.chore
    BY <1>3 DEF PaidFor
  <2>3. f[done] = PointsOf[done.chore] /\ PointsOf[done.chore] \in Int
    BY <2>1, LeaderboardAssumption DEF Completed
  <2> HIDE DEF h
  <2> QED
    BY <2>2, <2>3
<1>6. IsFiniteSet(Earned(u))
  BY FS_Subset DEF BoardIInv, FinitelyMany, Earned
<1> HIDE DEF f, k, T, h
<1>7. SumFunctionOnSet(f, Earned(u)) = SumFunctionOnSet(k, T)
  BY <1>4, <1>5, <1>6, SumOfTheSame
<1> QED
  BY <1>7 DEF Points, f, k, T

LEMMA BoardIsExact ==
    ASSUME BoardIInv, at = "answered", crossed = {}
    PROVE  ExactWhenUndisturbed
<1>1. /\ listed = members /\ members \subseteq People
      /\ \A u \in listed : board[u].chores = Cardinality(ChoresOf(u))
  BY DEF BoardIInv, ReadIsStored, BoardTypeOK
<1>2. PICK order \in Orders : board = BoardOf(order)
  BY DEF BoardIInv, BoardIsOfWhatWasRead
<1>3. \A u \in listed : board[u].points = Points(u) /\ board[u].rank = Ranks(order)[u]
  BY <1>2 DEF BoardOf
<1>4. DOMAIN board = members
  BY <1>1, <1>2 DEF BoardOf
<1>5. IsFiniteSet(listed) /\ \A u \in listed : Points(u) \in Int
  BY <1>1, FS_Subset, LeaderboardAssumption, PointsAreNumbers
  DEF BoardIInv, BoardTypeOK, FinitelyMany
<1>6. ASSUME NEW u \in members
      PROVE  board[u].rank =
               1 + Cardinality({board[v].points : v \in
                                  {w \in members : board[w].points > board[u].points}})
  <2>1. {board[v].points : v \in {w \in members : board[w].points > board[u].points}}
        = {Points(v) : v \in {w \in listed : Points(w) > Points(u)}}
    BY <1>1, <1>3
  <2> QED
    BY <1>1, <1>3, <1>5, <2>1, RanksCountTotals
<1>7. ASSUME NEW u \in members
      PROVE  /\ board[u].chores =
                  Cardinality({done \in completed : done.assignee = u /\ InPeriod(done)})
             /\ board[u].points =
                  SumFunctionOnSet([done \in Earned(u) |-> PointsOf[done.chore]], Earned(u))
  <2>1. ChoresOf(u) = {done \in completed : done.assignee = u /\ InPeriod(done)}
    BY WindowIsOfToday DEF ChoresOf
  <2>2. board[u].chores = Cardinality(ChoresOf(u))
    BY <1>1
  <2>3. board[u].points = Points(u)
    BY <1>1, <1>3
  <2> QED
    BY <1>1, <2>1, <2>2, <2>3, PointsAreEarned
<1> QED
  BY <1>4, <1>6, <1>7 DEF ExactWhenUndisturbed, Earned

\* The request, the board and the tables are well typed for any household and any dates.
THEOREM BoardTypeCorrect == BoardSpec => []BoardTypeOK
  BY BoardIsInductive, PTL DEF BoardIInv

(***************************************************************************)
(* The answer of GET /leaderboard: undisturbed it is exact, and it never   *)
(* pays for nothing unless a chore was handed over late, or an account or  *)
(* the household deleted, meanwhile.                                       *)
(***************************************************************************)
THEOREM BoardIsAlwaysRight == BoardSpec => []BoardIsRight
<1>1. BoardIInv => BoardIsRight
  <2> SUFFICES ASSUME BoardIInv, at = "answered"
               PROVE  ExactWhenUndisturbed /\ NothingPaidForNothing
    BY DEF BoardIsRight
  <2>1. ExactWhenUndisturbed
    <3>1. CASE crossed = {}
      BY <3>1, BoardIsExact
    <3>2. CASE crossed # {}
      BY <3>2 DEF ExactWhenUndisturbed
    <3> QED
      BY <3>1, <3>2
  <2>2. NothingPaidForNothing
    BY DEF BoardIInv, PaidWasCompleted, NothingPaidForNothing
  <2> QED
    BY <2>1, <2>2
<1> QED
  BY <1>1, BoardIsInductive, PTL
-----------------------------------------------------------------------------
(* Due dates, step by step *)

Date  == {t \in (Nat \ {0}) \X (1 .. 12) \X (1 .. 31) : IsDate(t)}
Rule  == [unit : {"days", "weeks", "months"}, n : Nat \ {0}]
State == [next : Date, due : SUBSET Date]
From(first) == [next |-> first, due |-> {}]

LEMMA DatesAndDate == ASSUME NEW t PROVE IsDate(t) <=> t \in Date
  BY DEF Date, IsDate

\* An interval leads from a date to a later one, no sooner than its shortest.
LEMMA IntervalsLeadOn ==
    ASSUME NEW t \in Date, NEW rule \in Rule
    PROVE  /\ PlusInterval(t, rule) \in Date /\ ShortestInterval(rule) \in Nat \ {0}
           /\ Ordinal(PlusInterval(t, rule)) >= Ordinal(t) + ShortestInterval(rule)
           /\ rule.unit # "months" =>
                Ordinal(PlusInterval(t, rule)) = Ordinal(t) + ShortestInterval(rule)
           /\ Ordinal(t) \in Nat \ {0} /\ Ordinal(PlusInterval(t, rule)) \in Nat \ {0}
<1> DEFINE n == rule.n
           u == PlusInterval(t, rule)
<1>1. n \in Nat \ {0} /\ rule.unit \in {"days", "weeks", "months"}
  BY DEF Rule
<1>2. IsDate(t) /\ Ordinal(t) \in Nat \ {0}
  BY DatesAndDate, DatesHaveOrdinals
<1>3. ASSUME rule.unit # "months"
      PROVE  /\ ShortestInterval(rule) \in Nat \ {0} /\ IsDate(u)
             /\ Ordinal(u) = Ordinal(t) + ShortestInterval(rule)
  <2>1. ShortestInterval(rule) \in Nat \ {0} /\ u = PlusDays(t, ShortestInterval(rule))
    BY <1>1, <1>3 DEF ShortestInterval, PlusInterval
  <2> HIDE DEF u
  <2> QED
    BY <1>2, <2>1, PlusDaysIsRight
<1>4. ASSUME rule.unit = "months"
      PROVE  /\ ShortestInterval(rule) \in Nat \ {0} /\ IsDate(u)
             /\ Ordinal(u) >= Ordinal(t) + ShortestInterval(rule)
  <2> DEFINE c == NumberOf(t)
             d == Day(t)
             e == Day(u)
  <2>1. ShortestInterval(rule) = 28 * n /\ u = PlusMonths(t, n)
    BY <1>4 DEF ShortestInterval, PlusInterval
  <2> HIDE DEF u
  <2>2. /\ IsDate(u) /\ NumberOf(u) = c + n
        /\ e = IF d > LengthOfMonth(c + n) THEN LengthOfMonth(c + n) ELSE d
    BY <1>1, <1>2, <2>1, PlusMonthsIsRight
  <2>3. c \in Nat /\ d \in 1 .. LengthOfMonth(c) /\ Ordinal(t) = FirstOfMonth(c) + d - 1
    BY <1>2, DatesInMonths
  <2>4. Ordinal(u) = FirstOfMonth(c + n) + e - 1
    BY <2>2, DatesInMonths
  <2>5. /\ FirstOfMonth(c + n) >= FirstOfMonth(c) + LengthOfMonth(c) + 28 * (n - 1)
        /\ FirstOfMonth(c) \in Int /\ LengthOfMonth(c) \in 28 .. 31
        /\ FirstOfMonth(c + n) \in Int /\ LengthOfMonth(c + n) \in 28 .. 31
    <3>1. n \in Nat \ {0} /\ c \in Int /\ c + n \in Int
      BY <1>1, <2>3
    <3> HIDE DEF n, c
    <3>2. FirstOfMonth(c + n) >= FirstOfMonth(c) + LengthOfMonth(c) + 28 * (n - 1)
      BY <3>1, MonthsApart
    <3> QED
      BY <3>1, <3>2, MonthsFollow
  <2> HIDE DEF n, c, d, e
  <2> QED
    BY <1>1, <2>1, <2>2, <2>3, <2>4, <2>5
<1>5. IsDate(u) /\ ShortestInterval(rule) \in Nat \ {0}
  BY <1>3, <1>4
<1>6. u \in Date /\ Ordinal(u) \in Nat \ {0}
  BY <1>5, DatesAndDate, DatesHaveOrdinals
<1> HIDE DEF u
<1> QED
  BY <1>2, <1>3, <1>4, <1>5, <1>6 DEF u

LEMMA OneStepIsAState ==
    ASSUME NEW rule \in Rule, NEW horizon, NEW done \in State
    PROVE  OneStep(done, rule, horizon) \in State
<1>1. done.next \in Date /\ done.due \subseteq Date
  BY DEF State
<1>2. PlusInterval(done.next, rule) \in Date
  BY <1>1, IntervalsLeadOn
<1> QED
  BY <1>1, <1>2 DEF OneStep, State

\* g is the state after as many steps as a subset of S has elements.
StepsUp(g, first, rule, horizon, S) ==
    g = [s \in SUBSET S |-> IF s = {} THEN From(first)
                            ELSE OneStep(g[s \ {AnyOf(s)}], rule, horizon)]

AfterSteps(first, rule, horizon, S) ==
    (CHOOSE g : StepsUp(g, first, rule, horizon, S))[S]

LEMMA SteppedUnfolds ==
    ASSUME NEW first, NEW rule, NEW horizon
    PROVE  Stepped(first, rule, horizon) =
             AfterSteps(first, rule, horizon,
                        0 .. (horizon - Ordinal(first)) \div ShortestInterval(rule)).due
  BY Zenon DEF Stepped, FoldSet, MapThenFoldSet, AfterSteps, StepsUp, AnyOf, From

LEMMA SomethingStepsUp ==
    ASSUME NEW S, IsFiniteSet(S), NEW first \in Date, NEW rule \in Rule, NEW horizon
    PROVE  \E g \in [SUBSET S -> State] : StepsUp(g, first, rule, horizon, S)
<1> DEFINE Term(g, s) == IF s = {} THEN From(first)
                         ELSE OneStep(g[s \ {AnyOf(s)}], rule, horizon)
           P(g, n) == \A s \in SUBSET S : Cardinality(s) <= n => g[s] = Term(g, s)
           N == {n \in Nat : \E g \in [SUBSET S -> State] : P(g, n)}
<1>1. \A s \in SUBSET S : IsFiniteSet(s) /\ Cardinality(s) \in Nat /\ (Cardinality(s) = 0 <=> s = {})
  BY FS_Subset, FS_CardinalityType, FS_EmptySet
<1>2. From(first) \in State
  BY DEF From, State
<1>3. 0 \in N
  <2> DEFINE g == [s \in SUBSET S |-> From(first)]
  <2>1. g \in [SUBSET S -> State] /\ P(g, 0)
    BY <1>1, <1>2
  <2> QED
    BY <2>1
<1>4. ASSUME NEW n \in Nat, n \in N PROVE n + 1 \in N
  <2>1. PICK g \in [SUBSET S -> State] : P(g, n)
    BY <1>4
  <2> DEFINE h == [s \in SUBSET S |-> Term(g, s)]
  <2>2. \A s \in SUBSET S : s # {} =>
           /\ AnyOf(s) \in S /\ s \ {AnyOf(s)} \in SUBSET S
           /\ Cardinality(s) = Cardinality(s \ {AnyOf(s)}) + 1
           /\ Cardinality(s \ {AnyOf(s)}) \in Nat
    BY <1>1, AnyOfIsElement, OneLess
  <2>3. h \in [SUBSET S -> State]
    <3>1. \A s \in SUBSET S : Term(g, s) \in State
      BY <1>2, <2>1, <2>2, OneStepIsAState
    <3> QED
      BY <3>1
  <2>4. ASSUME NEW s \in SUBSET S, Cardinality(s) <= n + 1 PROVE h[s] = Term(h, s)
    <3>1. CASE s = {}
      BY <3>1
    <3>2. CASE s # {}
      <4> DEFINE r == s \ {AnyOf(s)}
      <4>1. r \in SUBSET S /\ Cardinality(r) <= n
        BY <2>2, <2>4, <3>2
      <4>2. g[r] = h[r]
        BY <2>1, <4>1
      <4> QED
        BY <3>2, <4>2
    <3> QED
      BY <3>1, <3>2
  <2>5. P(h, n + 1)
    BY <2>4
  <2> HIDE DEF P, h
  <2> QED
    BY <2>3, <2>5
<1> HIDE DEF N
<1>5. Cardinality(S) \in N
  BY <1>1, <1>3, <1>4, AllNaturals
<1>6. PICK g \in [SUBSET S -> State] : P(g, Cardinality(S))
  BY <1>5 DEF N
<1>7. \A s \in SUBSET S : Cardinality(s) <= Cardinality(S)
  BY FS_Subset
<1>8. \A s \in SUBSET S : g[s] = Term(g, s)
  BY <1>6, <1>7
<1>9. g = [s \in SUBSET S |-> Term(g, s)]
  BY <1>6, <1>8
<1> QED
  BY <1>6, <1>9 DEF StepsUp

\* The state depends on the number of steps alone.
LEMMA StepsAreCounted ==
    ASSUME NEW first \in Date, NEW rule \in Rule, NEW horizon,
           NEW S, IsFiniteSet(S), NEW g, StepsUp(g, first, rule, horizon, S),
           NEW T, IsFiniteSet(T), NEW h, StepsUp(h, first, rule, horizon, T)
    PROVE  \A s \in SUBSET S, t \in SUBSET T : Cardinality(s) = Cardinality(t) => g[s] = h[t]
<1> DEFINE N == {n \in Nat : \A s \in SUBSET S, t \in SUBSET T :
                               Cardinality(s) = n /\ Cardinality(t) = n => g[s] = h[t]}
<1>1. /\ \A s \in SUBSET S : IsFiniteSet(s) /\ Cardinality(s) \in Nat /\ (Cardinality(s) = 0 <=> s = {})
      /\ \A t \in SUBSET T : IsFiniteSet(t) /\ Cardinality(t) \in Nat /\ (Cardinality(t) = 0 <=> t = {})
  BY FS_Subset, FS_CardinalityType, FS_EmptySet
<1>2. /\ \A s \in SUBSET S : g[s] = IF s = {} THEN From(first)
                                    ELSE OneStep(g[s \ {AnyOf(s)}], rule, horizon)
      /\ \A t \in SUBSET T : h[t] = IF t = {} THEN From(first)
                                    ELSE OneStep(h[t \ {AnyOf(t)}], rule, horizon)
  BY DEF StepsUp
<1>3. 0 \in N
  BY <1>1, <1>2
<1>4. ASSUME NEW n \in Nat, n \in N PROVE n + 1 \in N
  <2> SUFFICES ASSUME NEW s \in SUBSET S, NEW t \in SUBSET T,
                      Cardinality(s) = n + 1, Cardinality(t) = n + 1
               PROVE  g[s] = h[t]
    OBVIOUS
  <2> DEFINE r == s \ {AnyOf(s)}
             q == t \ {AnyOf(t)}
  <2>1. s # {} /\ t # {}
    BY <1>1
  <2>2. AnyOf(s) \in s /\ AnyOf(t) \in t
    BY <2>1, AnyOfIsElement
  <2>3. /\ Cardinality(s) = Cardinality(r) + 1 /\ Cardinality(r) \in Nat
        /\ Cardinality(t) = Cardinality(q) + 1 /\ Cardinality(q) \in Nat
    BY <1>1, <2>2, OneLess
  <2>4. r \in SUBSET S /\ q \in SUBSET T /\ Cardinality(r) = n /\ Cardinality(q) = n
    BY <2>3
  <2>5. g[r] = h[q]
    BY <1>4, <2>4
  <2> QED
    BY <1>2, <2>1, <2>5
<1> HIDE DEF N
<1>5. Nat \subseteq N
  BY <1>3, <1>4, AllNaturals
<1> QED
  BY <1>1, <1>5 DEF N

LEMMA StateIsTheOnlyOne ==
    ASSUME NEW first \in Date, NEW rule \in Rule, NEW horizon, NEW S, IsFiniteSet(S),
           NEW g, StepsUp(g, first, rule, horizon, S),
           NEW h, StepsUp(h, first, rule, horizon, S)
    PROVE  g[S] = h[S]
  BY StepsAreCounted

\* The state after n steps, one after the other.
StepsOf(first, rule, horizon, n) == AfterSteps(first, rule, horizon, 0 .. n - 1)

LEMMA StepsGoOn ==
    ASSUME NEW first \in Date, NEW rule \in Rule, NEW horizon, NEW n \in Nat
    PROVE  /\ StepsOf(first, rule, horizon, 0) = From(first)
           /\ StepsOf(first, rule, horizon, n) \in State
           /\ StepsOf(first, rule, horizon, n + 1) =
                OneStep(StepsOf(first, rule, horizon, n), rule, horizon)
<1> DEFINE Up(g, S) == StepsUp(g, first, rule, horizon, S)
           G(S) == CHOOSE g : Up(g, S)
<1>1. ASSUME NEW S, IsFiniteSet(S)
      PROVE  /\ Up(G(S), S) /\ AfterSteps(first, rule, horizon, S) = G(S)[S]
             /\ AfterSteps(first, rule, horizon, S) \in State
  <2>1. PICK g \in [SUBSET S -> State] : Up(g, S)
    BY <1>1, SomethingStepsUp
  <2>2. Up(G(S), S)
    BY <2>1, Zenon
  <2>3. AfterSteps(first, rule, horizon, S) = G(S)[S]
    BY Zenon DEF AfterSteps
  <2> HIDE DEF G
  <2>4. G(S)[S] = g[S]
    <3>1. StepsUp(G(S), first, rule, horizon, S) /\ StepsUp(g, first, rule, horizon, S)
      BY <2>1, <2>2
    <3> QED
      BY <1>1, <3>1, StateIsTheOnlyOne
  <2> QED
    BY <2>1, <2>2, <2>3, <2>4
<1> HIDE DEF G
<1>2. \A m \in Nat : IsFiniteSet(0 .. m - 1) /\ Cardinality(0 .. m - 1) = m
  BY FS_Interval
<1>3. StepsOf(first, rule, horizon, 0) = From(first)
  <2>1. 0 .. 0 - 1 = {} /\ IsFiniteSet({})
    BY FS_EmptySet
  <2>2. Up(G({}), {}) /\ AfterSteps(first, rule, horizon, {}) = G({})[{}]
    BY <1>1, <2>1
  <2>3. G({})[{}] = From(first)
    BY <2>2 DEF StepsUp
  <2> QED
    BY <2>1, <2>2, <2>3 DEF StepsOf
<1>4. StepsOf(first, rule, horizon, n) \in State
  BY <1>1, <1>2 DEF StepsOf
<1>5. StepsOf(first, rule, horizon, n + 1) = OneStep(StepsOf(first, rule, horizon, n), rule, horizon)
  <2> DEFINE S == 0 .. n - 1
             T == 0 .. (n + 1) - 1
  <2>1. /\ IsFiniteSet(S) /\ Cardinality(S) = n
        /\ IsFiniteSet(T) /\ Cardinality(T) = n + 1
    <3>1. n + 1 \in Nat
      OBVIOUS
    <3> QED
      BY <1>2, <3>1
  <2>2. /\ Up(G(S), S) /\ StepsOf(first, rule, horizon, n) = G(S)[S]
        /\ Up(G(T), T) /\ StepsOf(first, rule, horizon, n + 1) = G(T)[T]
    BY <1>1, <2>1 DEF StepsOf
  <2> HIDE DEF S, T
  <2>3. T # {}
    BY <2>1, FS_EmptySet
  <2> DEFINE R == T \ {AnyOf(T)}
  <2>4. R \in SUBSET T /\ Cardinality(R) = n
    <3>1. Cardinality(T) = Cardinality(R) + 1 /\ Cardinality(R) \in Nat
      BY <2>1, <2>3, AnyOfIsElement, OneLess
    <3> QED
      BY <2>1, <3>1
  <2>5. G(T)[T] = OneStep(G(T)[R], rule, horizon)
    BY <2>2, <2>3 DEF StepsUp
  <2>6. G(T)[R] = G(S)[S]
    <3>1. S \in SUBSET S /\ Cardinality(S) = Cardinality(R)
      BY <2>1, <2>4
    <3> HIDE DEF R
    <3> QED
      BY <2>1, <2>2, <2>4, <3>1, StepsAreCounted
  <2> QED
    BY <2>2, <2>5, <2>6
<1> QED
  BY <1>3, <1>4, <1>5
\* As long as the horizon is not passed each step is an interval; then no more happens.
LEMMA StepsAdvance ==
    ASSUME NEW first \in Date, NEW rule \in Rule, NEW horizon \in Int, NEW n \in Nat
    PROVE  LET now == StepsOf(first, rule, horizon, n)
           IN  /\ now \in State /\ Ordinal(now.next) >= Ordinal(first)
               /\ Ordinal(now.next) > horizon
                    \/ Ordinal(now.next) >= Ordinal(first) + n * ShortestInterval(rule)
               /\ \A d \in now.due : /\ Ordinal(d) >= Ordinal(first) /\ Ordinal(d) <= horizon
                                     /\ Ordinal(d) < Ordinal(now.next)
<1> DEFINE now(k) == StepsOf(first, rule, horizon, k)
           L == ShortestInterval(rule)
           o == Ordinal(first)
           P(k) == /\ Ordinal(now(k).next) >= o
                   /\ Ordinal(now(k).next) > horizon \/ Ordinal(now(k).next) >= o + k * L
                   /\ \A d \in now(k).due : /\ Ordinal(d) >= o /\ Ordinal(d) <= horizon
                                            /\ Ordinal(d) < Ordinal(now(k).next)
           N == {k \in Nat : P(k)}
<1>1. L \in Nat \ {0} /\ o \in Nat \ {0}
  BY IntervalsLeadOn
<1>2. /\ now(0) = From(first)
      /\ \A k \in Nat : now(k) \in State /\ now(k + 1) = OneStep(now(k), rule, horizon)
  BY StepsGoOn
<1> HIDE DEF now, L, o
<1>3. 0 \in N
  <2>1. now(0).next = first /\ now(0).due = {} /\ Ordinal(first) = o /\ 0 * L = 0
    BY <1>1, <1>2 DEF From, o
  <2> QED
    BY <1>1, <2>1
<1>4. ASSUME NEW k \in Nat, k \in N PROVE k + 1 \in N
  <2> DEFINE st == now(k)
  <2>1. st \in State /\ now(k + 1) = OneStep(st, rule, horizon) /\ P(k)
    BY <1>2, <1>4
  <2> HIDE DEF st
  <2>2. st.next \in Date /\ st.due \subseteq Date
    BY <2>1 DEF State
  <2>3. /\ Ordinal(st.next) \in Nat /\ Ordinal(PlusInterval(st.next, rule)) \in Nat
        /\ Ordinal(PlusInterval(st.next, rule)) >= Ordinal(st.next) + L
        /\ \A d \in st.due : Ordinal(d) \in Nat
    BY <2>2, IntervalsLeadOn DEF L
  <2>4. k * L \in Nat /\ (k + 1) * L = k * L + L
    BY <1>1
  <2>5. CASE Ordinal(st.next) > horizon
    <3>1. now(k + 1) = st
      BY <2>1, <2>3, <2>5 DEF OneStep
    <3> QED
      BY <2>1, <2>5, <3>1 DEF st
  <2>6. CASE ~ (Ordinal(st.next) > horizon)
    <3>1. /\ now(k + 1).next = PlusInterval(st.next, rule)
          /\ now(k + 1).due = st.due \cup {st.next}
      BY <2>1, <2>6 DEF OneStep
    <3>2. /\ Ordinal(st.next) >= o /\ Ordinal(st.next) >= o + k * L
          /\ \A d \in st.due : Ordinal(d) >= o /\ Ordinal(d) <= horizon /\ Ordinal(d) < Ordinal(st.next)
      BY <2>1, <2>6 DEF st
    <3>3. /\ Ordinal(now(k + 1).next) >= o
          /\ Ordinal(now(k + 1).next) >= o + (k + 1) * L
      BY <1>1, <2>3, <2>4, <3>1, <3>2
    <3>4. ASSUME NEW d \in now(k + 1).due
          PROVE  /\ Ordinal(d) >= o /\ Ordinal(d) <= horizon
                 /\ Ordinal(d) < Ordinal(now(k + 1).next)
      BY <1>1, <2>3, <2>6, <3>1, <3>2, <3>4
    <3> QED
      BY <3>3, <3>4
  <2> QED
    BY <2>5, <2>6
<1> HIDE DEF N
<1>5. Nat \subseteq N
  BY <1>3, <1>4, AllNaturals
<1>6. P(n)
  BY <1>5 DEF N
<1> QED
  BY <1>2, <1>6 DEF now, L, o

\* After enough steps the state has the dates of Stepped, and keeps them.
LEMMA SteppedInTheEnd ==
    ASSUME NEW first \in Date, NEW rule \in Rule, NEW horizon \in Int
    PROVE  \E n \in Nat : \A k \in Nat :
             /\ StepsOf(first, rule, horizon, n + k).due = Stepped(first, rule, horizon)
             /\ Ordinal(StepsOf(first, rule, horizon, n + k).next) > horizon
<1> DEFINE now(k) == StepsOf(first, rule, horizon, k)
           L == ShortestInterval(rule)
           o == Ordinal(first)
           i == (horizon - o) \div L
           n == IF horizon < o THEN 0 ELSE i + 1
           N == {k \in Nat : now(n + k) = now(n)}
<1>1. L \in Nat \ {0} /\ o \in Nat \ {0}
  BY IntervalsLeadOn
<1>2. /\ now(0) = From(first)
      /\ \A k \in Nat : now(k) \in State /\ now(k + 1) = OneStep(now(k), rule, horizon)
  BY StepsGoOn
<1>3. Stepped(first, rule, horizon) = AfterSteps(first, rule, horizon, 0 .. i).due
  BY SteppedUnfolds
<1> HIDE DEF now, L, o
<1>4. i \in Int /\ (horizon < o <=> i < 0) /\ horizon - o < (i + 1) * L
  BY <1>1, SMTT(60)
<1> HIDE DEF i
<1>5. n \in Nat /\ 0 .. i = 0 .. n - 1
  BY <1>1, <1>4
<1>6. Stepped(first, rule, horizon) = now(n).due
  BY <1>3, <1>5 DEF now, StepsOf
<1>7. Ordinal(now(n).next) > horizon
  <2>1. CASE horizon < o
    BY <1>1, <1>2, <2>1 DEF From, o
  <2>2. CASE ~ (horizon < o)
    <3>1. Ordinal(now(n).next) > horizon \/ Ordinal(now(n).next) >= o + n * L
      BY <1>5, StepsAdvance DEF now, L, o
    <3>2. now(n).next \in Date
      BY <1>2, <1>5 DEF State
    <3>3. Ordinal(now(n).next) \in Int
      BY <3>2, IntervalsLeadOn
    <3>4. n = i + 1 /\ n * L \in Int
      BY <1>1, <1>4, <2>2
    <3> QED
      BY <1>1, <1>4, <3>1, <3>3, <3>4
  <2> QED
    BY <2>1, <2>2
<1> HIDE DEF n
<1>8. 0 \in N
  BY <1>5
<1>9. ASSUME NEW k \in Nat, k \in N PROVE k + 1 \in N
  <2>1. n + k \in Nat /\ n + (k + 1) = (n + k) + 1
    BY <1>5
  <2>2. now(n + (k + 1)) = OneStep(now(n), rule, horizon)
    BY <1>2, <1>9, <2>1
  <2> QED
    BY <1>7, <2>2 DEF OneStep
<1> HIDE DEF N
<1>10. Nat \subseteq N
  BY <1>8, <1>9, AllNaturals
<1>11. \A k \in Nat : now(n + k) = now(n)
  BY <1>10 DEF N
<1>12. \A k \in Nat : /\ now(n + k).due = Stepped(first, rule, horizon)
                      /\ Ordinal(now(n + k).next) > horizon
  BY <1>6, <1>7, <1>11
<1> QED
  BY <1>5, <1>12 DEF now

\* With the horizon a day later there is nothing more than what falls on it.
LEMMA OneDayFurther ==
    ASSUME NEW first \in Date, NEW rule \in Rule, NEW horizon \in Int
    PROVE  LET near == Stepped(first, rule, horizon)
               far  == Stepped(first, rule, horizon + 1)
           IN  /\ near \subseteq far /\ far \subseteq Date
               /\ \A d \in far \ near : Ordinal(d) = horizon + 1
               /\ \A d \in near : Ordinal(d) <= horizon
<1> DEFINE A(k) == StepsOf(first, rule, horizon, k)
           B(k) == StepsOf(first, rule, horizon + 1, k)
           P(k) == \/ A(k) = B(k)
                   \/ /\ Ordinal(A(k).next) = horizon + 1
                      /\ B(k).due = A(k).due \cup {A(k).next}
                      /\ Ordinal(B(k).next) > horizon + 1
           N == {k \in Nat : P(k)}
<1>1. /\ A(0) = B(0)
      /\ \A k \in Nat : /\ A(k) \in State /\ A(k + 1) = OneStep(A(k), rule, horizon)
                        /\ B(k) \in State /\ B(k + 1) = OneStep(B(k), rule, horizon + 1)
  BY StepsGoOn
<1>2. PICK n \in Nat : \A k \in Nat : A(n + k).due = Stepped(first, rule, horizon)
  BY SteppedInTheEnd
<1>3. PICK m \in Nat : \A k \in Nat : B(m + k).due = Stepped(first, rule, horizon + 1)
  <2>1. horizon + 1 \in Int
    OBVIOUS
  <2> QED
    BY <2>1, SteppedInTheEnd
<1>4. \A d \in A(n + m).due : Ordinal(d) <= horizon
  <2>1. n + m \in Nat
    OBVIOUS
  <2> QED
    BY <2>1, StepsAdvance
<1> HIDE DEF A, B
<1>5. 0 \in N
  BY <1>1
<1>6. ASSUME NEW k \in Nat, k \in N PROVE k + 1 \in N
  <2>1. /\ A(k) \in State /\ A(k + 1) = OneStep(A(k), rule, horizon)
        /\ B(k) \in State /\ B(k + 1) = OneStep(B(k), rule, horizon + 1)
        /\ P(k)
    BY <1>1, <1>6
  <2>2. A(k).next \in Date /\ B(k).next \in Date
    BY <2>1 DEF State
  <2>3. /\ Ordinal(A(k).next) \in Int /\ Ordinal(B(k).next) \in Int
        /\ Ordinal(PlusInterval(B(k).next, rule)) \in Int
        /\ Ordinal(PlusInterval(B(k).next, rule)) > Ordinal(B(k).next)
    BY <2>2, IntervalsLeadOn
  <2>4. CASE A(k) = B(k) /\ Ordinal(A(k).next) <= horizon
    <3>1. A(k + 1) = B(k + 1)
      BY <2>1, <2>3, <2>4 DEF OneStep
    <3> QED
      BY <3>1
  <2>5. CASE A(k) = B(k) /\ Ordinal(A(k).next) = horizon + 1
    <3>1. A(k + 1) = A(k) /\ ~ (Ordinal(B(k).next) > horizon + 1)
      BY <2>1, <2>3, <2>5 DEF OneStep
    <3>2. B(k + 1).due = B(k).due \cup {B(k).next} /\ B(k + 1).next = PlusInterval(B(k).next, rule)
      BY <2>1, <3>1 DEF OneStep
    <3> QED
      BY <2>3, <2>5, <3>1, <3>2
  <2>6. CASE Ordinal(A(k).next) > horizon + 1 \/ A(k) # B(k)
    <3>1. A(k + 1) = A(k) /\ B(k + 1) = B(k)
      BY <2>1, <2>3, <2>6 DEF OneStep
    <3> QED
      BY <2>1, <3>1
  <2> QED
    BY <2>3, <2>4, <2>5, <2>6
<1> HIDE DEF N
<1>7. Nat \subseteq N
  BY <1>5, <1>6, AllNaturals
<1>8. n + m \in Nat /\ m + n = n + m
  OBVIOUS
<1>9. P(n + m)
  BY <1>7, <1>8 DEF N
<1>10. /\ A(n + m).due = Stepped(first, rule, horizon)
       /\ B(n + m).due = Stepped(first, rule, horizon + 1)
  BY <1>2, <1>3, <1>8
<1>11. B(n + m).due \subseteq Date
  BY <1>1, <1>8 DEF State
<1> QED
  BY <1>4, <1>9, <1>10, <1>11
-----------------------------------------------------------------------------
(* The cadence *)

LEMMA NextMultiple ==
    ASSUME NEW L \in Nat \ {0}, NEW x \in Nat, x % L = 0
    PROVE  /\ (x + L) % L = 0
           /\ \A y \in Nat : y % L = 0 /\ x <= y /\ y < x + L => y = x
<1> DEFINE k == x \div L
<1>1. k \in Nat /\ x = L * k
  BY SMTT(30)
<1>2. x + L = L * (k + 1) /\ k + 1 \in Nat
  BY <1>1
<1>3. \A j \in Nat : (L * j) % L = 0
  BY SMTT(30)
<1>4. (x + L) % L = 0
  BY <1>2, <1>3
<1>5. ASSUME NEW y \in Nat, y % L = 0, x <= y, y < x + L PROVE y = x
  <2> DEFINE j == y \div L
  <2>1. j \in Nat /\ y = L * j
    BY <1>5, SMTT(30)
  <2> HIDE DEF j, k
  <2>2. j < k + 1
    <3> SUFFICES ASSUME j >= k + 1 PROVE FALSE
      BY <1>1, <2>1
    <3>1. L * j >= L * (k + 1)
      BY <1>2, <2>1, SMTT(30)
    <3> QED
      BY <1>2, <1>5, <2>1, <3>1
  <2>3. j >= k
    <3> SUFFICES ASSUME j + 1 <= k PROVE FALSE
      BY <1>1, <2>1
    <3>1. L * (j + 1) <= L * k /\ L * (j + 1) = L * j + L
      BY <1>1, <2>1, SMTT(30)
    <3> QED
      BY <1>1, <1>5, <2>1, <3>1
  <2>4. j = k
    BY <1>1, <2>1, <2>2, <2>3
  <2> QED
    BY <1>1, <2>1, <2>4
<1> QED
  BY <1>4, <1>5

\* Days and weeks: the due dates are those a whole number of intervals from the first.
LEMMA DaysAreInStep ==
    ASSUME NEW first \in Date, NEW rule \in Rule, rule.unit # "months", NEW horizon \in Int
    PROVE  Stepped(first, rule, horizon) =
             {d \in Date : /\ Ordinal(d) >= Ordinal(first) /\ Ordinal(d) <= horizon
                           /\ (Ordinal(d) - Ordinal(first)) % ShortestInterval(rule) = 0}
<1> DEFINE now(k) == StepsOf(first, rule, horizon, k)
           L == ShortestInterval(rule)
           o == Ordinal(first)
           On(d) == (Ordinal(d) - o) % L = 0
           P(k) == /\ Ordinal(now(k).next) >= o /\ On(now(k).next)
                   /\ now(k).due = {d \in Date : /\ Ordinal(d) >= o /\ On(d)
                                                 /\ Ordinal(d) < Ordinal(now(k).next)}
           N == {k \in Nat : P(k)}
<1>1. L \in Nat \ {0} /\ o \in Nat \ {0} /\ \A d \in Date : Ordinal(d) \in Nat
  BY IntervalsLeadOn
<1>2. /\ now(0) = From(first)
      /\ \A k \in Nat : now(k) \in State /\ now(k + 1) = OneStep(now(k), rule, horizon)
  BY StepsGoOn
<1>3. PICK n \in Nat : \A k \in Nat : /\ now(n + k).due = Stepped(first, rule, horizon)
                                      /\ Ordinal(now(n + k).next) > horizon
  BY SteppedInTheEnd
<1>4. \A d \in now(n).due : Ordinal(d) <= horizon
  BY StepsAdvance
<1>5. now(n).due = Stepped(first, rule, horizon) /\ Ordinal(now(n).next) > horizon
  <2>1. n + 0 = n /\ 0 \in Nat
    OBVIOUS
  <2> QED
    BY <1>3, <2>1
<1> HIDE DEF now
<1>6. 0 \in N
  <2>1. now(0).next = first /\ now(0).due = {}
    BY <1>2 DEF From
  <2>2. On(first)
    <3>1. o - o = 0 /\ 0 % L = 0
      BY <1>1, SMTT(30)
    <3> QED
      BY <3>1
  <2> HIDE DEF L, On
  <2>3. {d \in Date : Ordinal(d) >= o /\ On(d) /\ Ordinal(d) < Ordinal(first)} = {}
    BY <1>1
  <2> QED
    BY <1>1, <2>1, <2>2, <2>3
<1>7. ASSUME NEW k \in Nat, k \in N PROVE k + 1 \in N
  <2> DEFINE st == now(k)
             u == PlusInterval(st.next, rule)
  <2>1. st \in State /\ now(k + 1) = OneStep(st, rule, horizon) /\ P(k)
    BY <1>2, <1>7
  <2> HIDE DEF st
  <2>2. st.next \in Date
    BY <2>1 DEF State
  <2>3. Ordinal(st.next) \in Nat /\ u \in Date /\ Ordinal(u) = Ordinal(st.next) + L
    BY <2>2, IntervalsLeadOn
  <2>4. CASE Ordinal(st.next) > horizon
    <3>1. now(k + 1) = st
      BY <2>1, <2>4 DEF OneStep
    <3> QED
      BY <2>1, <3>1 DEF st
  <2>5. CASE ~ (Ordinal(st.next) > horizon)
    <3>1. now(k + 1).next = u /\ now(k + 1).due = st.due \cup {st.next}
      BY <2>1, <2>5 DEF OneStep
    <3> DEFINE x == Ordinal(st.next) - o
    <3>2. /\ x \in Nat /\ x % L = 0 /\ Ordinal(u) - o = x + L
          /\ st.due = {d \in Date : /\ Ordinal(d) >= o /\ On(d) /\ Ordinal(d) < Ordinal(st.next)}
      BY <1>1, <2>1, <2>3 DEF st
    <3>3. /\ (x + L) % L = 0
          /\ \A y \in Nat : y % L = 0 /\ x <= y /\ y < x + L => y = x
      BY <1>1, <3>2, NextMultiple
    <3>4. On(u) /\ Ordinal(u) >= o /\ On(st.next) /\ Ordinal(st.next) >= o
      BY <1>1, <2>3, <3>2, <3>3
    <3>5. ASSUME NEW d \in Date
          PROVE  d \in st.due \cup {st.next}
                   <=> Ordinal(d) >= o /\ On(d) /\ Ordinal(d) < Ordinal(u)
      <4>1. CASE Ordinal(d) >= o /\ On(d) /\ Ordinal(d) >= Ordinal(st.next) /\ Ordinal(d) < Ordinal(u)
        <5>1. Ordinal(d) - o = x
          <6>1. Ordinal(d) - o \in Nat /\ (Ordinal(d) - o) % L = 0
                /\ x <= Ordinal(d) - o /\ Ordinal(d) - o < x + L
            BY <1>1, <2>3, <3>2, <4>1
          <6> HIDE DEF x, L, o
          <6> QED
            BY <3>3, <6>1
        <5>2. Ordinal(d) = Ordinal(st.next)
          BY <1>1, <2>3, <5>1
        <5>3. d = st.next
          BY <2>2, <5>2, DatesAndDate, DatesAreTheirOrdinals
        <5> QED
          BY <4>1, <5>3
      <4>2. CASE ~ (Ordinal(d) >= o /\ On(d) /\ Ordinal(d) >= Ordinal(st.next)
                    /\ Ordinal(d) < Ordinal(u))
        <5> HIDE DEF On
        <5>1. d # st.next
          BY <1>1, <2>3, <3>4, <4>2
        <5>2. /\ Ordinal(d) \in Nat
              /\ d \in st.due <=> Ordinal(d) >= o /\ On(d) /\ Ordinal(d) < Ordinal(st.next)
          BY <1>1, <3>2
        <5> HIDE DEF o, L
        <5> QED
          BY <1>1, <2>3, <4>2, <5>1, <5>2
      <4> QED
        BY <4>1, <4>2
    <3>6. st.due \cup {st.next} \subseteq Date
      BY <2>1, <2>2 DEF State
    <3> HIDE DEF On, u, x
    <3>7. st.due \cup {st.next} = {d \in Date : Ordinal(d) >= o /\ On(d) /\ Ordinal(d) < Ordinal(u)}
      BY <3>5, <3>6
    <3> QED
      BY <3>1, <3>4, <3>7
  <2> QED
    BY <2>4, <2>5
<1> HIDE DEF N
<1>8. Nat \subseteq N
  BY <1>6, <1>7, AllNaturals
<1>9. P(n)
  BY <1>8 DEF N
<1>10. Ordinal(now(n).next) \in Int
  BY <1>1, <1>2 DEF State
<1>11. \A d \in Date : Ordinal(d) \in Nat
  BY <1>1
<1> HIDE DEF L, o, On
<1>12. now(n).due = {d \in Date : /\ Ordinal(d) >= o /\ Ordinal(d) <= horizon /\ On(d)}
  <2>1. now(n).due \subseteq Date
    BY <1>2 DEF State
  <2> QED
    BY <1>4, <1>5, <1>9, <1>10, <1>11, <2>1
<1> QED
  BY <1>5, <1>12 DEF L, o, On

\* Months: one date in each of the series' months, on the day of the first or before it.
LEMMA MonthsAreInStep ==
    ASSUME NEW first \in Date, NEW rule \in Rule, rule.unit = "months", NEW horizon \in Int
    PROVE  LET due == Stepped(first, rule, horizon)
           IN  /\ IsFiniteSet(due) /\ due \subseteq Date
               /\ {NumberOf(d) : d \in due} =
                    {NumberOf(first) + k * rule.n : k \in 0 .. Cardinality(due) - 1}
               /\ \A d \in due : Day(d) <= Day(first) /\ (Day(first) <= 28 => Day(d) = Day(first))
<1> DEFINE now(k) == StepsOf(first, rule, horizon, k)
           b == NumberOf(first)
           OfDay(d) == Day(d) <= Day(first) /\ (Day(first) <= 28 => Day(d) = Day(first))
           P(st) == /\ IsFiniteSet(st.due)
                    /\ {NumberOf(d) : d \in st.due} =
                         {b + j * rule.n : j \in 0 .. Cardinality(st.due) - 1}
                    /\ NumberOf(st.next) = b + Cardinality(st.due) * rule.n
                    /\ OfDay(st.next) /\ \A d \in st.due : OfDay(d)
           N == {k \in Nat : P(now(k))}
<1>1. /\ now(0) = From(first)
      /\ \A k \in Nat : now(k) \in State /\ now(k + 1) = OneStep(now(k), rule, horizon)
  BY StepsGoOn
<1>2. PICK n \in Nat : \A k \in Nat : now(n + k).due = Stepped(first, rule, horizon)
  BY SteppedInTheEnd
<1>3. now(n).due = Stepped(first, rule, horizon)
  <2>1. n + 0 = n /\ 0 \in Nat
    OBVIOUS
  <2> QED
    BY <1>2, <2>1
<1>4. \A k \in Nat : now(k).next \notin now(k).due
  <2> TAKE k \in Nat
  <2>1. \A d \in now(k).due : Ordinal(d) < Ordinal(now(k).next)
    BY StepsAdvance
  <2>2. Ordinal(now(k).next) \in Nat
    BY <1>1, IntervalsLeadOn DEF State
  <2> QED
    BY <2>1, <2>2
<1>5. rule.n \in Nat \ {0}
  BY DEF Rule
<1>6. \A d \in Date : /\ NumberOf(d) \in Nat /\ Day(d) \in Nat
                      /\ NumberOf(PlusInterval(d, rule)) = NumberOf(d) + rule.n
                      /\ Day(PlusInterval(d, rule)) <= Day(d)
                      /\ Day(d) <= 28 => Day(PlusInterval(d, rule)) = Day(d)
  <2> TAKE d \in Date
  <2>1. IsDate(d)
    BY DatesAndDate
  <2>2. /\ NumberOf(d) \in Nat /\ Day(d) \in 1 .. LengthOfMonth(NumberOf(d))
        /\ LengthOfMonth(NumberOf(d)) \in 28 .. 31
    BY <2>1, DatesInMonths, MonthsFollow
  <2>3. PlusInterval(d, rule) = PlusMonths(d, rule.n)
    BY DEF PlusInterval
  <2>4. LengthOfMonth(NumberOf(d) + rule.n) \in 28 .. 31
    <3>1. NumberOf(d) + rule.n \in Int
      BY <1>5, <2>2
    <3> QED
      BY <3>1, MonthsFollow
  <2>5. /\ NumberOf(PlusMonths(d, rule.n)) = NumberOf(d) + rule.n
        /\ Day(PlusMonths(d, rule.n)) = IF Day(d) > LengthOfMonth(NumberOf(d) + rule.n)
                                        THEN LengthOfMonth(NumberOf(d) + rule.n) ELSE Day(d)
    BY <1>5, <2>1, PlusMonthsIsRight
  <2> QED
    BY <2>2, <2>3, <2>4, <2>5
<1> HIDE DEF now
<1>7. 0 \in N
  <2>1. /\ now(0).next = first /\ now(0).due = {}
        /\ Cardinality(now(0).due) = 0 /\ IsFiniteSet(now(0).due)
    BY <1>1, FS_EmptySet DEF From
  <2>2. b \in Nat /\ NumberOf(first) = b /\ OfDay(first) /\ b + 0 * rule.n = b /\ 0 .. 0 - 1 = {}
    BY <1>5, <1>6
  <2> HIDE DEF OfDay, b
  <2> QED
    BY <2>1, <2>2
<1>8. ASSUME NEW k \in Nat, k \in N PROVE k + 1 \in N
  <2> DEFINE st == now(k)
             c == Cardinality(st.due)
             u == PlusInterval(st.next, rule)
  <2>1. st \in State /\ now(k + 1) = OneStep(st, rule, horizon) /\ P(st) /\ st.next \notin st.due
    BY <1>1, <1>4, <1>8
  <2>2. st.next \in Date /\ first \in Date
    BY <2>1 DEF State
  <2>3. c \in Nat
    BY <2>1, FS_CardinalityType
  <2>4. CASE Ordinal(st.next) > horizon
    <3>1. now(k + 1) = st
      BY <2>1, <2>4 DEF OneStep
    <3> HIDE DEF st, P
    <3> QED
      BY <2>1, <3>1
  <2>5. CASE ~ (Ordinal(st.next) > horizon)
    <3>1. now(k + 1).next = u /\ now(k + 1).due = st.due \cup {st.next}
      BY <2>1, <2>5 DEF OneStep
    <3>2. IsFiniteSet(now(k + 1).due) /\ Cardinality(now(k + 1).due) = c + 1
      BY <2>1, <2>3, <3>1, FS_AddElement
    <3>3. NumberOf(u) = b + (c + 1) * rule.n /\ NumberOf(st.next) = b + c * rule.n
      <4>1. b \in Nat /\ NumberOf(st.next) = b + c * rule.n /\ NumberOf(u) = NumberOf(st.next) + rule.n
        BY <1>6, <2>1, <2>2
      <4>2. c * rule.n \in Nat /\ (c + 1) * rule.n = c * rule.n + rule.n
        BY <1>5, <2>3
      <4> HIDE DEF b, c, u
      <4> QED
        BY <1>5, <4>1, <4>2
    <3>4. OfDay(u)
      <4>1. /\ Day(u) <= Day(st.next)
            /\ Day(st.next) <= 28 => Day(u) = Day(st.next)
            /\ Day(u) \in Int /\ Day(st.next) \in Nat /\ Day(first) \in Nat
        <5>1. u \in Date
          BY <2>2, IntervalsLeadOn
        <5> QED
          BY <1>6, <2>2, <5>1
      <4>2. OfDay(st.next)
        BY <2>1
      <4> HIDE DEF st, u
      <4> QED
        BY <4>1, <4>2
    <3>5. \A d \in now(k + 1).due : OfDay(d)
      BY <2>1, <3>1
    <3>6. {NumberOf(d) : d \in now(k + 1).due} = {b + j * rule.n : j \in 0 .. Cardinality(now(k + 1).due) - 1}
      <4>1. {NumberOf(d) : d \in st.due} = {b + j * rule.n : j \in 0 .. c - 1}
        BY <2>1
      <4>2. 0 .. (c + 1) - 1 = (0 .. c - 1) \cup {c}
        BY <2>3
      <4>3. {b + j * rule.n : j \in 0 .. (c + 1) - 1}
            = {b + j * rule.n : j \in 0 .. c - 1} \cup {b + c * rule.n}
        BY <4>2
      <4>4. {NumberOf(d) : d \in st.due \cup {st.next}}
            = {NumberOf(d) : d \in st.due} \cup {NumberOf(st.next)}
        OBVIOUS
      <4> HIDE DEF b, c, st
      <4> QED
        BY <3>1, <3>2, <3>3, <4>1, <4>3, <4>4
    <3>7. P(now(k + 1))
      <4> HIDE DEF OfDay, b, c, u
      <4> QED
        BY <3>1, <3>2, <3>3, <3>4, <3>5, <3>6
    <3> HIDE DEF P
    <3> QED
      BY <3>7
  <2> QED
    BY <2>4, <2>5
<1> HIDE DEF N
<1>9. Nat \subseteq N
  BY <1>7, <1>8, AllNaturals
<1>10. P(now(n))
  BY <1>9 DEF N
<1>11. now(n).due \subseteq Date
  BY <1>1 DEF State
<1> QED
  BY <1>3, <1>10, <1>11

LEMMA CadenceIsKeptEveryDay ==
    ASSUME NEW t \in Dates PROVE t \in CadenceKeptOn
<1> SUFFICES ASSUME NEW s \in Series
             PROVE  /\ Slides(t, s)
                    /\ IF s.rule.unit = "months" THEN InEveryMonth(t, s) ELSE InStep(t, s)
  BY DEF CadenceKeptOn
<1> DEFINE o == Ordinal(t)
           first == s.first
           rule == s.rule
           near == Stepped(first, rule, o + DaysAhead)
           far == Stepped(first, rule, o + DaysAhead + 1)
<1>1. /\ first \in Date /\ rule \in Rule /\ DaysAhead \in Nat /\ GraceDays \in Nat
      /\ o \in Nat \ {0} /\ Ordinal(PlusDays(t, 1)) = o + 1
  <2>1. IsDate(t) /\ IsDate(first)
    BY LeaderboardAssumption, DatesAreDates
  <2> QED
    BY <2>1, LeaderboardAssumption, DatesAndDate, DatesHaveOrdinals, PlusDaysIsRight DEF Rule
<1>2. \A d \in Date : Ordinal(d) \in Nat
  BY DatesAndDate, DatesHaveOrdinals
<1> HIDE DEF o, first, rule
<1>3. o + DaysAhead \in Int
  BY <1>1
<1>4. /\ near \subseteq far /\ far \subseteq Date
      /\ \A d \in far \ near : Ordinal(d) = (o + DaysAhead) + 1
      /\ \A d \in near : Ordinal(d) <= o + DaysAhead
  BY <1>1, <1>3, OneDayFurther
<1>5. Slides(t, s)
  <2> DEFINE before == {d \in near : Ordinal(d) >= o - GraceDays}
             after == {d \in far : Ordinal(d) >= (o + 1) - GraceDays}
  <2>1. before = DueOn(t, s)
    BY DEF DueOn, DueDates, o, first, rule
  <2>2. after = DueOn(PlusDays(t, 1), s)
    <3>1. (o + 1) + DaysAhead = (o + DaysAhead) + 1
      BY <1>1
    <3> QED
      BY <1>1, <3>1 DEF DueOn, DueDates, o, first, rule
  <2> HIDE DEF near, far
  <2>3. \A d \in before \ after : Ordinal(d) = o - GraceDays
    BY <1>1, <1>2, <1>4
  <2>4. \A d \in after \ before : Ordinal(d) = o + DaysAhead + 1
    BY <1>1, <1>2, <1>4
  <2> HIDE DEF before, after
  <2> QED
    BY <2>1, <2>2, <2>3, <2>4 DEF Slides, o
<1>6. ASSUME rule.unit # "months" PROVE InStep(t, s)
  <2> DEFINE L == ShortestInterval(rule)
             f == Ordinal(first)
  <2>1. near = {d \in Date : /\ Ordinal(d) >= f /\ Ordinal(d) <= o + DaysAhead
                             /\ (Ordinal(d) - f) % L = 0}
    BY <1>1, <1>3, <1>6, DaysAreInStep
  <2>2. f \in Nat \ {0}
    BY <1>1, DatesAndDate, DatesHaveOrdinals
  <2>3. DueOn(t, s) = {d \in near : Ordinal(d) >= o - GraceDays}
    BY DEF DueOn, DueDates, o, first, rule
  <2> HIDE DEF L, f, near
  <2>4. ASSUME NEW p \in o - GraceDays .. o + DaysAhead
        PROVE  (\E d \in DueOn(t, s) : Ordinal(d) = p) <=> p >= f /\ (p - f) % L = 0
    <3>1. ASSUME NEW d \in DueOn(t, s), Ordinal(d) = p PROVE p >= f /\ (p - f) % L = 0
      BY <2>1, <2>3, <3>1
    <3>2. ASSUME p >= f, (p - f) % L = 0 PROVE \E d \in DueOn(t, s) : Ordinal(d) = p
      <4>1. p \in Nat \ {0}
        BY <1>1, <2>2, <3>2
      <4>2. FromOrdinal(p) \in Date /\ Ordinal(FromOrdinal(p)) = p
        BY <4>1, FromOrdinalIsRight, DatesAndDate
      <4>3. p >= o - GraceDays /\ p <= o + DaysAhead
        BY <1>1
      <4>4. FromOrdinal(p) \in DueOn(t, s)
        BY <2>1, <2>3, <3>2, <4>2, <4>3
      <4> QED
        BY <4>2, <4>4
    <3> QED
      BY <3>1, <3>2
  <2> QED
    BY <2>4 DEF InStep, L, f, o, first, rule
<1>7. ASSUME rule.unit = "months" PROVE InEveryMonth(t, s)
  <2>1. /\ IsFiniteSet(near) /\ near \subseteq Date
        /\ {NumberOf(d) : d \in near} =
             {NumberOf(first) + k * rule.n : k \in 0 .. Cardinality(near) - 1}
        /\ \A d \in near : Day(d) <= Day(first) /\ (Day(first) <= 28 => Day(d) = Day(first))
    BY <1>1, <1>3, <1>7, MonthsAreInStep
  <2>2. \A d \in Date : MonthCount(d) = NumberOf(d) + 1 /\ NumberOf(d) \in Nat
    <3> TAKE d \in Date
    <3>1. Year(d) \in Nat /\ Month(d) \in Nat
      BY DEF Date, Year, Month
    <3> QED
      BY <3>1, DatesAndDate, DatesInMonths DEF MonthCount, NumberOf, Year, Month
  <2> DEFINE c == Cardinality(near)
             f == NumberOf(first)
             n == rule.n
  <2>3. c \in Nat /\ f \in Nat /\ n \in Nat /\ MonthCount(first) = f + 1
    BY <1>1, <2>1, <2>2, FS_CardinalityType DEF Rule
  <2>4. {MonthCount(d) : d \in near} = {MonthCount(first) + k * n : k \in 0 .. c - 1}
    <3> HIDE DEF near, c, f, n
    <3>1. {NumberOf(d) : d \in near} = {f + k * n : k \in 0 .. c - 1}
      BY <2>1 DEF c, f, n
    <3>2. \A k \in 0 .. c - 1 : k * n \in Nat /\ MonthCount(first) + k * n = (f + k * n) + 1
      BY <2>3
    <3>3. ASSUME NEW d \in near PROVE \E k \in 0 .. c - 1 : MonthCount(d) = MonthCount(first) + k * n
      <4>1. PICK k \in 0 .. c - 1 : NumberOf(d) = f + k * n
        BY <3>1
      <4>2. MonthCount(d) = NumberOf(d) + 1
        BY <2>1, <2>2
      <4> QED
        BY <3>2, <4>1, <4>2
    <3>4. ASSUME NEW k \in 0 .. c - 1 PROVE \E d \in near : MonthCount(d) = MonthCount(first) + k * n
      <4>1. PICK d \in near : NumberOf(d) = f + k * n
        BY <3>1
      <4>2. MonthCount(d) = NumberOf(d) + 1
        BY <2>1, <2>2
      <4> QED
        BY <3>2, <4>1, <4>2
    <3> QED
      BY <3>3, <3>4
  <2> HIDE DEF near
  <2> QED
    BY <2>1, <2>4 DEF InEveryMonth, near, c, n, o, first, rule, Day
<1> QED
  BY <1>5, <1>6, <1>7 DEF rule

(***************************************************************************)
(* _compute_due_dates, of any series and on any day: no date is lost or    *)
(* doubled from one day's job to the next.                                 *)
(***************************************************************************)
THEOREM CadenceIsAlwaysKept == BoardSpec => []CadenceIsKept
<1>1. BoardIInv => CadenceIsKept
  BY CadenceIsKeptEveryDay DEF BoardIInv, BoardTypeOK, CadenceIsKept
<1> QED
  BY <1>1, BoardIsInductive, PTL
=============================================================================
