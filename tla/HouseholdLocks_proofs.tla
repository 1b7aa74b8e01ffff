------------------------ MODULE HouseholdLocks_proofs ------------------------
(***************************************************************************)
(* Theorems about HouseholdLocks, for any number of transactions, of any   *)
(* kind, on any number of chores.                                          *)
(***************************************************************************)
EXTENDS HouseholdLocks, FiniteSetTheorems, SequenceTheorems, TLAPS

Accesses == [op : {"insert", "read", "lock", "update"}, row : Rows,
             mode : {"none", KeyShare, NoKeyUpdate, ForUpdate}]

LockOf(a)     == [row |-> a.row, mode |-> a.mode]
HouseholdLock == LockOf(LockHousehold)

\* A request that has not begun has not been called.
CallsBegin ==
    \A r \in Requests : IF pc[r] = 0 THEN call[r] = NoCall ELSE call[r] \in Call

\* A transaction keeps the locks of the statements it has executed.
LocksAreKept ==
    \A r \in Requests :
        /\ Running(r) => pc[r] - 1 <= Len(Program(call[r]))
        /\ held[r] = {LockOf(Program(call[r])[k]) :
                        k \in {j \in 1 .. pc[r] - 1 : Program(call[r])[j].op # "read"}}

\* Two transactions never hold conflicting locks on a row.
LocksExclude ==
    \A r, s \in Requests : r # s =>
        \A l \in held[r], m \in held[s] : l.row = m.row => ~ Conflicting(l.mode, m.mode)

\* What has been loaded under the household's lock is what is committed.
LoadedUnderLock ==
    \A r \in Requests : HouseholdLock \in held[r] => seen[r] = pointer

TurnsAreBehind == \A p \in picks : p.slot < pointer

IInv ==
    /\ TypeOK
    /\ CallsBegin
    /\ LocksAreKept
    /\ LocksExclude
    /\ WithoutDepartures => LoadedUnderLock /\ TurnsAreBehind
    /\ NoAssignmentLost
    /\ NoTurnTwice
-----------------------------------------------------------------------------
(* What the handlers do, call by call. *)

LEMMA CallsAreTyped ==
    ASSUME NEW c \in Call
    PROVE  /\ c.kind \in AllKinds /\ c.batch \in 0 .. MaxBatch /\ c.behind \in BOOLEAN
           /\ c.chores \in Seq(Chores) /\ Len(c.chores) \in 0 .. Cardinality(Chores)
<1>1. c.kind \in AllKinds /\ c.batch \in 0 .. MaxBatch /\ c.behind \in BOOLEAN
      /\ c.chores \in ChoreLists
  BY HouseholdLocksAssumption DEF Call
<1>2. PICK m \in 0 .. Cardinality(Chores) : c.chores \in [1 .. m -> Chores]
  BY <1>1 DEF ChoreLists, SeqOf
<1>3. Cardinality(Chores) \in Nat
  BY HouseholdLocksAssumption, FS_CardinalityType
<1>4. c.chores \in Seq(Chores) /\ Len(c.chores) = m
  BY <1>2, <1>3
<1> QED
  BY <1>1, <1>2, <1>4

\* UPDATEs of chores after some other statements.
LEMMA ThenUpdates ==
    ASSUME NEW c \in Call, NEW q \in Seq(Accesses)
    PROVE  /\ q \o UpdateChores(c) \in Seq(Accesses)
           /\ Len(q \o UpdateChores(c)) = Len(q) + Len(c.chores)
           /\ \A k \in 1 .. Len(q) : (q \o UpdateChores(c))[k] = q[k]
           /\ \A k \in 1 .. Len(q) + Len(c.chores) : k > Len(q) =>
                LET a == (q \o UpdateChores(c))[k]
                IN  a.op = "update" /\ a.row \in Chores /\ a.mode = NoKeyUpdate
<1> DEFINE n == Len(c.chores)
           U == UpdateChores(c)
           a(k) == [op |-> "update", row |-> c.chores[k], mode |-> NoKeyUpdate]
<1>1. c.chores \in Seq(Chores) /\ n \in Nat
  BY CallsAreTyped
<1>2. \A k \in 1 .. n : c.chores[k] \in Chores
  BY <1>1
<1>3. \A k \in 1 .. n : a(k) \in Accesses
  BY <1>2 DEF Accesses, Rows
<1>4. U = [k \in 1 .. n |-> a(k)]
  BY <1>1 DEF UpdateChores
<1>5. U \in [1 .. n -> Accesses]
  BY <1>3, <1>4
<1>6. U \in Seq(Accesses) /\ Len(U) = n
  BY <1>1, <1>5
<1>7. \A k \in 1 .. n : U[k].op = "update" /\ U[k].row \in Chores /\ U[k].mode = NoKeyUpdate
  BY <1>2, <1>4
<1> HIDE DEF U, n, a
<1>8. q \o U \in Seq(Accesses) /\ Len(q \o U) = Len(q) + n
  BY <1>6
<1>9. \A k \in 1 .. Len(q) : (q \o U)[k] = q[k]
  BY <1>6
<1>10. ASSUME NEW k \in 1 .. Len(q) + n, k > Len(q)
       PROVE  (q \o U)[k] = U[k - Len(q)] /\ k - Len(q) \in 1 .. n
  BY <1>1, <1>6, <1>10
<1> QED
  BY <1>7, <1>8, <1>9, <1>10 DEF U, n

(***************************************************************************)
(* What the proofs need to know of a program: every statement but a read   *)
(* takes a lock; only LockHousehold takes the household's strongest; a     *)
(* call that gives turns has it; and an orderly one takes no other lock    *)
(* before it, unless it is its last.                                       *)
(***************************************************************************)
WellFormed(c, p) ==
    /\ p \in Seq(Accesses) /\ Len(p) <= 2 + Cardinality(Chores)
    /\ \A k \in 1 .. Len(p) :
         /\ p[k].op # "read" => LockOf(p[k]) \in Locks
         /\ p[k].op # "read" /\ LockOf(p[k]) = HouseholdLock => p[k] = LockHousehold
    /\ c.batch > 0 => \E k \in 1 .. Len(p) : p[k] = LockHousehold
    /\ c.kind \in Orderly =>
         \A k \in 1 .. Len(p) : \A j \in 1 .. k - 1 :
             p[j].op = "read" \/ \E i \in 1 .. k - 1 : p[i] = LockHousehold

\* One statement, or two; all or the first of them before UPDATEs of chores.
Brief(c, q) ==
    /\ q \in Seq(Accesses) /\ Len(q) \in 0 .. 2
    /\ \A k \in 1 .. Len(q) :
         \/ q[k] \in {Insert, ReadHousehold, LockHousehold, UpdateHousehold}
         \/ q[k].op = "lock" /\ q[k].row \in Chores /\ q[k].mode = ForUpdate
    /\ Len(q) = 2 /\ c.kind \in Orderly => q[1] = ReadHousehold
    /\ c.batch > 0 => \E k \in 1 .. Len(q) : q[k] = LockHousehold

Leading(c, q) ==
    /\ q \in Seq(Accesses) /\ Len(q) \in 0 .. 2
    /\ \A k \in 1 .. Len(q) : q[k] \in {Insert, ReadHousehold, LockHousehold}
    /\ Len(q) = 2 /\ c.kind \in Orderly => q[1] = ReadHousehold
    /\ \/ Len(q) > 0 /\ q[Len(q)] = LockHousehold
       \/ c.batch = 0 /\ Len(q) = 0 /\ (c.kind \in Orderly => Len(c.chores) <= 1)

LEMMA ProgramsAreWellFormed ==
    ASSUME NEW c \in Call
    PROVE  WellFormed(c, Program(c))
<1> DEFINE n == Len(c.chores)
           U == UpdateChores(c)
<1>1. /\ c.kind \in AllKinds /\ c.batch \in Nat
      /\ c.chores \in Seq(Chores) /\ n \in Nat /\ n <= Cardinality(Chores)
      /\ Cardinality(Chores) \in Nat
  BY CallsAreTyped, HouseholdLocksAssumption, FS_CardinalityType
<1> HIDE DEF n, U
<1>2. /\ c.kind \in OneChore => n = 1
      /\ c.kind \in NoChore => n = 0
      /\ c.kind \in NoTurn => c.batch = 0
  BY DEF Call, n
<1>3. /\ Insert \in Accesses /\ ReadHousehold \in Accesses
      /\ LockHousehold \in Accesses /\ UpdateHousehold \in Accesses
  BY DEF Accesses, Rows, Insert, ReadHousehold, LockHousehold, UpdateHousehold
<1>4. ASSUME NEW a \in Accesses, a.op # "read", a.mode # "none"
      PROVE  LockOf(a) \in Locks
  BY <1>4 DEF Accesses, LockOf, Locks
<1>5. /\ ReadHousehold.op = "read"
      /\ Insert.op # "read" /\ Insert.mode = KeyShare
      /\ LockHousehold.op # "read" /\ LockHousehold.mode = ForUpdate
      /\ UpdateHousehold.op # "read" /\ UpdateHousehold.mode = NoKeyUpdate
  BY DEF ReadHousehold, Insert, LockHousehold, UpdateHousehold
<1>6. KeyShare # "none" /\ NoKeyUpdate # "none" /\ ForUpdate # "none"
      /\ KeyShare # ForUpdate /\ NoKeyUpdate # ForUpdate
  BY DEF KeyShare, NoKeyUpdate, ForUpdate
<1>7. \A a \in Accesses : LockOf(a) = HouseholdLock => a.row = "household" /\ a.mode = ForUpdate
  BY DEF LockOf, HouseholdLock, LockHousehold
<1>8. "household" \notin Chores
  BY HouseholdLocksAssumption
\* One statement, or two.
<1>9. ASSUME NEW q, Brief(c, q)
      PROVE  WellFormed(c, q)
  <2>1. /\ q \in Seq(Accesses) /\ Len(q) \in 0 .. 2
        /\ \A k \in 1 .. Len(q) : q[k] \in Accesses
    BY <1>9 DEF Brief
  <2>2. Len(q) <= 2 + Cardinality(Chores)
    BY <1>1, <2>1
  <2>3. ASSUME NEW k \in 1 .. Len(q)
        PROVE  /\ q[k].op # "read" => LockOf(q[k]) \in Locks
               /\ q[k].op # "read" /\ LockOf(q[k]) = HouseholdLock => q[k] = LockHousehold
    <3>1. q[k] \in Accesses
      BY <2>1, <2>3
    <3>2. \/ q[k] \in {Insert, ReadHousehold, LockHousehold, UpdateHousehold}
          \/ q[k].op = "lock" /\ q[k].row \in Chores /\ q[k].mode = ForUpdate
      BY <1>9, <2>3 DEF Brief
    <3> QED
      BY <1>4, <1>5, <1>6, <1>7, <1>8, <3>1, <3>2
  <2>4. ASSUME c.kind \in Orderly, NEW k \in 1 .. Len(q), NEW j \in 1 .. k - 1
        PROVE  q[j].op = "read"
    <3>1. Len(q) = 2 /\ j = 1
      BY <2>1, <2>4
    <3>2. q[1] = ReadHousehold
      BY <1>9, <2>4, <3>1 DEF Brief
    <3> QED
      BY <1>5, <3>1, <3>2
  <2>5. c.batch > 0 => \E k \in 1 .. Len(q) : q[k] = LockHousehold
    BY <1>9 DEF Brief
  <2> QED
    BY <2>1, <2>2, <2>3, <2>4, <2>5 DEF WellFormed
<1>10. ASSUME NEW q, Leading(c, q)
       PROVE  WellFormed(c, q \o U)
  <2> DEFINE p == q \o U
  <2>0. /\ q \in Seq(Accesses) /\ Len(q) \in 0 .. 2
        /\ \A k \in 1 .. Len(q) : q[k] \in {Insert, ReadHousehold, LockHousehold}
        /\ Len(q) = 2 /\ c.kind \in Orderly => q[1] = ReadHousehold
        /\ \/ Len(q) > 0 /\ q[Len(q)] = LockHousehold
           \/ c.batch = 0 /\ Len(q) = 0 /\ (c.kind \in Orderly => n <= 1)
    BY <1>10 DEF Leading, n
  <2>1. /\ p \in Seq(Accesses) /\ Len(p) = Len(q) + n
        /\ \A k \in 1 .. Len(q) : p[k] = q[k]
        /\ \A k \in 1 .. Len(p) : k > Len(q) =>
             p[k].op = "update" /\ p[k].row \in Chores /\ p[k].mode = NoKeyUpdate
    BY <2>0, ThenUpdates DEF n, U
  <2> HIDE DEF p
  <2>2. Len(p) \in Nat /\ Len(p) <= 2 + Cardinality(Chores)
    BY <1>1, <2>0, <2>1
  <2>3. ASSUME NEW k \in 1 .. Len(p)
        PROVE  /\ p[k].op # "read" => LockOf(p[k]) \in Locks
               /\ p[k].op # "read" /\ LockOf(p[k]) = HouseholdLock => p[k] = LockHousehold
    <3>1. p[k] \in Accesses
      BY <2>1, <2>3
    <3>2. CASE k \in 1 .. Len(q)
      <4>1. p[k] \in {Insert, ReadHousehold, LockHousehold}
        BY <2>0, <2>1, <3>2
      <4> QED
        BY <1>4, <1>5, <1>6, <1>7, <3>1, <4>1
    <3>3. CASE k > Len(q)
      BY <1>4, <1>6, <1>7, <1>8, <2>1, <2>3, <3>1, <3>3
    <3> QED
      BY <2>0, <2>2, <3>2, <3>3
  <2>4. c.batch > 0 => \E k \in 1 .. Len(p) : p[k] = LockHousehold
    <3>1. CASE Len(q) > 0 /\ q[Len(q)] = LockHousehold
      <4>1. p[Len(q)] = LockHousehold /\ Len(q) \in 1 .. Len(p)
        BY <1>1, <2>0, <2>1, <3>1
      <4> QED
        BY <4>1
    <3> QED
      BY <2>0, <3>1
  <2>5. ASSUME c.kind \in Orderly, NEW k \in 1 .. Len(p), NEW j \in 1 .. k - 1
        PROVE  p[j].op = "read" \/ \E i \in 1 .. k - 1 : p[i] = LockHousehold
    <3>1. CASE Len(q) = 0
      BY <1>1, <2>0, <2>1, <2>5, <3>1
    <3>2. CASE Len(q) > 0 /\ k > Len(q)
      <4>1. p[Len(q)] = LockHousehold /\ Len(q) \in 1 .. k - 1
        BY <2>0, <2>1, <2>5, <3>2
      <4> QED
        BY <4>1
    <3>3. CASE Len(q) > 0 /\ k <= Len(q)
      <4>1. Len(q) = 2 /\ j = 1
        BY <2>0, <2>5, <3>3
      <4>2. p[1] = ReadHousehold
        BY <2>0, <2>1, <2>5, <4>1
      <4> QED
        BY <1>5, <4>1, <4>2
    <3> QED
      BY <2>0, <2>5, <3>1, <3>2, <3>3
  <2>6. c.kind \in Orderly =>
          \A k \in 1 .. Len(p) : \A j \in 1 .. k - 1 :
              p[j].op = "read" \/ \E i \in 1 .. k - 1 : p[i] = LockHousehold
    BY <2>5
  <2> QED
    BY <2>1, <2>2, <2>3, <2>4, <2>6 DEF WellFormed, p
<1>11. WellFormed(c, <<>> \o U) => WellFormed(c, U)
  <2>1. U \in Seq(Accesses)
    <3>1. \A k \in 1 .. n : [op |-> "update", row |-> c.chores[k], mode |-> NoKeyUpdate] \in Accesses
      BY <1>1 DEF Accesses, Rows, n
    <3> QED
      BY <1>1, <3>1 DEF UpdateChores, U, n
  <2> QED
    BY <2>1, ConcatEmptySeq
<1>12. CASE c.kind = "insert"
  <2>1. Brief(c, <<Insert>>)
    BY <1>2, <1>3, <1>12 DEF NoTurn, Brief
  <2> QED
    BY <1>9, <1>12, <2>1 DEF Program
<1>13. CASE c.kind = "create"
  <2>1. WellFormed(c, <<Insert, LockHousehold>>)
    <3> DEFINE q == <<Insert, LockHousehold>>
    <3>1. q \in Seq(Accesses) /\ Len(q) = 2 /\ q[1] = Insert /\ q[2] = LockHousehold
      BY <1>3
    <3> HIDE DEF q
    <3>2. Brief(c, q)
      BY <1>13, <3>1 DEF Orderly, Brief
    <3> QED
      BY <1>9, <3>2 DEF q
  <2>2. Program(c) = <<Insert, LockHousehold>>
    BY <1>13 DEF Program
  <2> QED
    BY <2>1, <2>2
<1>14. CASE c.kind \in {"reassignTo", "cancel"}
  <2>1. Leading(c, <<>>)
    <3>1. c.batch = 0
      BY <1>2, <1>14 DEF NoTurn
    <3>2. c.kind \in Orderly => Len(c.chores) <= 1
      <4>1. c.kind \in Orderly => c.kind \in OneChore
        BY <1>14 DEF OneChore, Orderly
      <4>2. c.kind \in Orderly => n = 1
        BY <1>2, <4>1
      <4>3. c.kind \in Orderly => n <= 1
        BY <4>2
      <4> QED
        BY <4>3 DEF n
    <3> DEFINE q == <<>>
    <3>3. q \in Seq(Accesses) /\ Len(q) = 0
      OBVIOUS
    <3> HIDE DEF q
    <3>4. Leading(c, q)
      BY <3>1, <3>2, <3>3 DEF Leading
    <3> QED
      BY <3>4 DEF q
  <2>2. WellFormed(c, <<>> \o U)
    BY <1>10, <2>1
  <2> QED
    BY <1>11, <1>14, <2>2 DEF Program, U
<1>15. CASE c.kind = "reassign"
  <2>1. Leading(c, <<LockHousehold>>)
    BY <1>3 DEF Leading
  <2> QED
    BY <1>10, <1>15, <2>1 DEF Program, U
<1>16. CASE c.kind \in {"complete", "dismiss"}
  <2> DEFINE a == [op |-> "lock", row |-> c.chores[1], mode |-> ForUpdate]
  <2>1. a \in Accesses /\ a.op = "lock" /\ a.row \in Chores /\ a.mode = ForUpdate
    BY <1>1, <1>2, <1>16 DEF Accesses, Rows, OneChore, n
  <2>2. LockChore(c) = <<a>>
    BY DEF LockChore
  <2> HIDE DEF a
  <2>3. CASE c.kind = "dismiss"
    <3>1. Brief(c, <<a>>)
      BY <1>2, <2>1, <2>3 DEF NoTurn, Brief
    <3> QED
      BY <1>9, <2>2, <2>3, <3>1 DEF Program
  <2>4. CASE c.kind = "complete"
    <3> DEFINE q == <<a>> \o <<Insert>>
    <3>1. <<a>> \in Seq(Accesses) /\ <<Insert>> \in Seq(Accesses)
      BY <1>3, <2>1
    <3>2. q \in Seq(Accesses) /\ Len(q) = 2 /\ q[1] = a /\ q[2] = Insert
      BY <3>1, ConcatProperties
    <3> HIDE DEF q
    <3>3. Brief(c, q)
      BY <1>2, <2>1, <2>4, <3>2 DEF NoTurn, Orderly, Brief
    <3> QED
      BY <1>9, <2>2, <2>4, <3>3 DEF Program, q
  <2> QED
    BY <1>16, <2>3, <2>4
<1>17. CASE c.kind = "depart"
  <2>1. CASE c.batch > 0
    <3>1. WellFormed(c, <<ReadHousehold, LockHousehold>> \o U)
      <4> DEFINE q == <<ReadHousehold, LockHousehold>>
      <4>1. q \in Seq(Accesses) /\ Len(q) = 2 /\ q[1] = ReadHousehold /\ q[2] = LockHousehold
        BY <1>3
      <4> HIDE DEF q
      <4>2. Leading(c, q)
        BY <4>1 DEF Leading
      <4> QED
        BY <1>10, <4>2 DEF q
    <3> QED
      BY <1>17, <2>1, <3>1 DEF Program, Departing, U
  <2>2. CASE ~ c.batch > 0 /\ c.behind
    <3> DEFINE q == <<ReadHousehold, UpdateHousehold>>
    <3>1. q \in Seq(Accesses) /\ Len(q) = 2 /\ q[1] = ReadHousehold /\ q[2] = UpdateHousehold
      BY <1>3
    <3> HIDE DEF q
    <3>2. Brief(c, q)
      BY <2>2, <3>1 DEF Brief
    <3> QED
      BY <1>9, <1>17, <2>2, <3>2 DEF Program, Departing, q
  <2>3. CASE ~ c.batch > 0 /\ ~ c.behind
    <3>1. Brief(c, <<ReadHousehold>>)
      BY <1>3, <2>3 DEF Brief
    <3> QED
      BY <1>9, <1>17, <2>3, <3>1 DEF Program, Departing
  <2> QED
    BY <2>1, <2>2, <2>3
<1>18. CASE c.kind = "daily"
  <2>1. CASE c.batch = 0
    <3>1. Leading(c, <<>>)
      BY <1>18, <2>1 DEF Orderly, Leading
    <3>2. WellFormed(c, <<>> \o U)
      BY <1>10, <3>1
    <3> QED
      BY <1>11, <1>18, <2>1, <3>2 DEF Program, U
  <2>2. CASE c.batch # 0
    <3>1. WellFormed(c, <<Insert, LockHousehold>> \o U)
      <4> DEFINE q == <<Insert, LockHousehold>>
      <4>1. q \in Seq(Accesses) /\ Len(q) = 2 /\ q[1] = Insert /\ q[2] = LockHousehold
        BY <1>3
      <4> HIDE DEF q
      <4>2. Leading(c, q)
        BY <1>18, <4>1 DEF Leading, Orderly
      <4> QED
        BY <1>10, <4>2 DEF q
    <3> QED
      BY <1>18, <2>2, <3>1 DEF Program, U
  <2> QED
    BY <2>1, <2>2
<1> QED
  BY <1>1, <1>12, <1>13, <1>14, <1>15, <1>16, <1>17, <1>18 DEF AllKinds
-----------------------------------------------------------------------------
(* The locks *)

LEMMA LockOfLockHousehold ==
    /\ LockHousehold.op # "read"
    /\ HouseholdLock = [row |-> "household", mode |-> ForUpdate]
    /\ HouseholdLock.row = "household" /\ HouseholdLock.mode = ForUpdate
    /\ \A a : LockOf(a).row = a.row /\ LockOf(a).mode = a.mode
  BY DEF LockHousehold, HouseholdLock, LockOf

\* A transaction that has executed its LockHousehold holds that lock.
LEMMA LockHouseholdIsKept ==
    ASSUME LocksAreKept, NEW r \in Requests, NEW k \in 1 .. pc[r] - 1,
           Program(call[r])[k] = LockHousehold
    PROVE  HouseholdLock \in held[r]
  BY LockOfLockHousehold DEF LocksAreKept, HouseholdLock

\* One transaction at a time does.
LEMMA OneHolder ==
    ASSUME LocksExclude, NEW r \in Requests, NEW s \in Requests, r # s,
           HouseholdLock \in held[r]
    PROVE  HouseholdLock \notin held[s]
  BY LockOfLockHousehold DEF LocksExclude, Conflicting

\* The statement a transaction is to execute next.
LEMMA NextStatement ==
    ASSUME IInv, NEW r \in Requests, Running(r), ~ AtCommit(r)
    PROVE  /\ call[r] \in Call
           /\ pc[r] \in 1 .. Len(Program(call[r]))
           /\ Len(Program(call[r])) <= 2 + Cardinality(Chores)
           /\ Statement(r) = Program(call[r])[pc[r]]
           /\ Statement(r) \in Accesses
           /\ Statement(r).op # "read" => LockOf(Statement(r)) \in Locks
           /\ Statement(r).op # "read" /\ LockOf(Statement(r)) = HouseholdLock
                => Statement(r) = LockHousehold
<1>1. call[r] \in Call /\ pc[r] \in Int /\ pc[r] > 0
  BY CallsAreTyped DEF IInv, TypeOK, CallsBegin, Running
<1>2. WellFormed(call[r], Program(call[r]))
  BY <1>1, ProgramsAreWellFormed
<1>3. pc[r] \in 1 .. Len(Program(call[r]))
  BY <1>1, <1>2 DEF AtCommit, Running, WellFormed
<1> QED
  BY <1>1, <1>2, <1>3 DEF Statement, WellFormed
-----------------------------------------------------------------------------
(* The invariant *)

LEMMA InitIInv == Init => IInv
<1> SUFFICES ASSUME Init PROVE IInv
  OBVIOUS
<1>1. TypeOK
  <2>1. 0 \in -1 .. 3 + Cardinality(Chores)
    BY HouseholdLocksAssumption, FS_CardinalityType
  <2> QED
    BY <2>1 DEF Init, TypeOK
<1>2. CallsBegin /\ LocksExclude
  BY DEF Init, CallsBegin, LocksExclude
<1>3. LocksAreKept
  BY DEF Init, LocksAreKept, Running
<1>4. LoadedUnderLock /\ TurnsAreBehind /\ NoAssignmentLost /\ NoTurnTwice
  BY DEF Init, LoadedUnderLock, TurnsAreBehind, NoAssignmentLost, NoTurnTwice
<1> QED
  BY <1>1, <1>2, <1>3, <1>4 DEF IInv

\* A transaction begins, with nothing locked.
LEMMA BeginKeepsIInv ==
    ASSUME IInv, NEW r \in Requests, NEW c \in Call, Begin(r, c)
    PROVE  IInv'
<1>0. TypeOK
  BY DEF IInv
<1>1. /\ UNCHANGED <<pointer, turns, picks, held, seen>>
      /\ pc[r] = 0 /\ pc'[r] = 1 /\ call[r] = NoCall /\ call'[r] = c
      /\ \A s \in Requests \ {r} : pc'[s] = pc[s] /\ call'[s] = call[s]
  BY <1>0 DEF Begin, TypeOK, IInv, CallsBegin
<1>2. TypeOK'
  <2>1. 1 \in -1 .. 3 + Cardinality(Chores)
    BY HouseholdLocksAssumption, FS_CardinalityType
  <2> QED
    BY <1>0, <1>1, <2>1 DEF Begin, TypeOK
<1>3. CallsBegin'
  BY <1>1 DEF IInv, CallsBegin
<1>4. LocksAreKept'
  <2>1. held[r] = {}
    BY <1>1 DEF IInv, LocksAreKept
  <2>2. 0 <= Len(Program(c))
    <3>1. WellFormed(c, Program(c))
      BY ProgramsAreWellFormed
    <3> QED
      BY <3>1 DEF WellFormed
  <2>3. ASSUME NEW s \in Requests
        PROVE  /\ Running(s)' => pc'[s] - 1 <= Len(Program(call'[s]))
               /\ held'[s] = {LockOf(Program(call'[s])[k]) :
                    k \in {j \in 1 .. pc'[s] - 1 : Program(call'[s])[j].op # "read"}}
    <3>1. CASE s = r
      BY <1>1, <2>1, <2>2, <3>1
    <3>2. CASE s # r
      <4>1. pc'[s] = pc[s] /\ call'[s] = call[s] /\ held'[s] = held[s]
        BY <1>1, <3>2
      <4> QED
        BY <4>1 DEF IInv, LocksAreKept, Running
    <3> QED
      BY <3>1, <3>2
  <2> QED
    BY <2>3 DEF LocksAreKept
<1>5. WithoutDepartures' => WithoutDepartures
  BY <1>1 DEF WithoutDepartures, NoCall
<1>6. /\ LocksExclude'
      /\ WithoutDepartures' => LoadedUnderLock' /\ TurnsAreBehind'
      /\ NoAssignmentLost' /\ NoTurnTwice'
  BY <1>1, <1>5
  DEF IInv, LocksExclude, LoadedUnderLock, TurnsAreBehind, NoAssignmentLost, NoTurnTwice
<1> QED
  BY <1>2, <1>3, <1>4, <1>6 DEF IInv

\* A statement gets the lock it asks for because nobody holds a conflicting
\* one; what it then loads is what is committed.
LEMMA ExecuteKeepsIInv ==
    ASSUME IInv, NEW r \in Requests, Execute(r)
    PROVE  IInv'
<1> DEFINE a == Statement(r)
<1>0. TypeOK /\ Running(r) /\ ~ AtCommit(r)
  BY DEF IInv, Execute
<1>1. /\ call[r] \in Call /\ pc[r] \in 1 .. Len(Program(call[r]))
      /\ Len(Program(call[r])) <= 2 + Cardinality(Chores)
      /\ a = Program(call[r])[pc[r]]
      /\ a \in Accesses
      /\ a.op # "read" => LockOf(a) \in Locks
      /\ a.op # "read" /\ LockOf(a) = HouseholdLock => a = LockHousehold
  BY <1>0, NextStatement
<1> HIDE DEF a
<1>2. /\ UNCHANGED <<pointer, turns, picks, call>>
      /\ pc'[r] = pc[r] + 1
      /\ held'[r] = IF a.op = "read" THEN held[r] ELSE held[r] \cup {LockOf(a)}
      /\ \A s \in Requests \ {r} :
           pc'[s] = pc[s] /\ held'[s] = held[s] /\ seen'[s] = seen[s]
  BY <1>0 DEF Execute, TypeOK, LockOf, a
<1>3. IF Loads(r) THEN seen'[r] = pointer ELSE seen'[r] = seen[r]
  BY <1>0 DEF Execute, TypeOK
<1>4. TypeOK'
  <2>1. pc[r] + 1 \in -1 .. 3 + Cardinality(Chores)
    <3>1. Cardinality(Chores) \in Nat
      BY HouseholdLocksAssumption, FS_CardinalityType
    <3>2. Len(Program(call[r])) \in Nat
      <4>1. WellFormed(call[r], Program(call[r]))
        BY <1>1, ProgramsAreWellFormed
      <4> QED
        BY <4>1 DEF WellFormed
    <3> QED
      BY <1>1, <3>1, <3>2
  <2>2. pc' \in [Requests -> -1 .. 3 + Cardinality(Chores)]
    BY <1>0, <2>1 DEF Execute, TypeOK
  <2>3. seen' \in [Requests -> Nat]
    BY <1>0 DEF Execute, TypeOK
  <2>4. held' \in [Requests -> SUBSET Locks]
    BY <1>0, <1>1 DEF Execute, TypeOK, LockOf, a
  <2> QED
    BY <1>0, <1>2, <2>2, <2>3, <2>4 DEF TypeOK
<1>5. CallsBegin'
  BY <1>1, <1>2 DEF IInv, CallsBegin
<1>6. LocksAreKept'
  <2>1. ASSUME NEW s \in Requests
        PROVE  /\ Running(s)' => pc'[s] - 1 <= Len(Program(call'[s]))
               /\ held'[s] = {LockOf(Program(call'[s])[k]) :
                    k \in {j \in 1 .. pc'[s] - 1 : Program(call'[s])[j].op # "read"}}
    <3>1. CASE s = r
      <4>1. held[r] = {LockOf(Program(call[r])[k]) :
                         k \in {j \in 1 .. pc[r] - 1 : Program(call[r])[j].op # "read"}}
        BY DEF IInv, LocksAreKept
      <4>2. 1 .. pc'[r] - 1 = (1 .. pc[r] - 1) \cup {pc[r]}
        BY <1>1, <1>2
      <4>3. pc'[r] - 1 <= Len(Program(call[r]))
        BY <1>1, <1>2
      <4> QED
        BY <1>1, <1>2, <3>1, <4>1, <4>2, <4>3
    <3>2. CASE s # r
      <4>1. pc'[s] = pc[s] /\ call'[s] = call[s] /\ held'[s] = held[s]
        BY <1>2, <3>2
      <4> QED
        BY <4>1 DEF IInv, LocksAreKept, Running
    <3> QED
      BY <3>1, <3>2
  <2> QED
    BY <2>1 DEF LocksAreKept
<1>7. LocksExclude'
  <2>1. ASSUME a.op # "read", NEW s \in Requests \ {r}, NEW l \in held[s], l.row = a.row
        PROVE  ~ Conflicting(l.mode, a.mode) /\ ~ Conflicting(a.mode, l.mode)
    BY <1>0, <2>1 DEF Execute, WaitsFor, Conflicting, a
  <2>2. LockOf(a).row = a.row /\ LockOf(a).mode = a.mode
    BY LockOfLockHousehold
  <2>3. \A s \in Requests : s # r => \A l \in held'[r], m \in held'[s] :
            l.row = m.row => ~ Conflicting(l.mode, m.mode) /\ ~ Conflicting(m.mode, l.mode)
    BY <1>2, <2>1, <2>2 DEF IInv, LocksExclude
  <2> QED
    BY <1>2, <2>3 DEF IInv, LocksExclude
<1>8. ASSUME WithoutDepartures'
      PROVE  LoadedUnderLock' /\ TurnsAreBehind'
  <2>1. WithoutDepartures
    BY <1>2, <1>8 DEF WithoutDepartures
  <2>2. LoadedUnderLock /\ TurnsAreBehind
    BY <2>1 DEF IInv
  <2>3. HouseholdLock \in held'[r] => seen'[r] = pointer
    <3>1. CASE Loads(r)
      BY <1>3, <3>1
    <3>2. CASE ~ Loads(r)
      <4>1. a # LockHousehold
        BY <2>1, <3>2 DEF Loads, WithoutDepartures, a
      <4>2. HouseholdLock \in held'[r] => HouseholdLock \in held[r]
        BY <1>1, <1>2, <4>1
      <4> QED
        BY <1>3, <2>2, <3>2, <4>2 DEF LoadedUnderLock
    <3> QED
      BY <3>1, <3>2
  <2>4. LoadedUnderLock'
    BY <1>2, <2>2, <2>3 DEF LoadedUnderLock
  <2> QED
    BY <1>2, <2>2, <2>4 DEF TurnsAreBehind
<1>9. NoAssignmentLost' /\ NoTurnTwice'
  BY <1>2 DEF IInv, NoAssignmentLost, NoTurnTwice, WithoutDepartures
<1> QED
  BY <1>4, <1>5, <1>6, <1>7, <1>8, <1>9 DEF IInv

\* A transaction that ends gives its locks back.
LEMMA FinishForgets ==
    ASSUME TypeOK, CallsBegin, LocksAreKept, LocksExclude,
           NEW r \in Requests, Finish(r), pc[r] # 0
    PROVE  /\ pc' \in [Requests -> -1 .. 3 + Cardinality(Chores)]
           /\ held' \in [Requests -> SUBSET Locks]
           /\ held'[r] = {} /\ \A s \in Requests \ {r} : held'[s] = held[s]
           /\ CallsBegin' /\ LocksAreKept' /\ LocksExclude'
<1>1. -1 \in -1 .. 3 + Cardinality(Chores)
  BY HouseholdLocksAssumption, FS_CardinalityType
<1>2. /\ pc' \in [Requests -> -1 .. 3 + Cardinality(Chores)]
      /\ held' \in [Requests -> SUBSET Locks]
  BY <1>1 DEF Finish, TypeOK
<1>3. /\ pc'[r] = -1 /\ held'[r] = {} /\ UNCHANGED call
      /\ \A s \in Requests \ {r} : pc'[s] = pc[s] /\ held'[s] = held[s]
  BY DEF Finish, TypeOK
<1>4. CallsBegin' /\ LocksExclude'
  BY <1>3 DEF CallsBegin, LocksExclude
<1>5. ASSUME NEW s \in Requests
      PROVE  /\ Running(s)' => pc'[s] - 1 <= Len(Program(call'[s]))
             /\ held'[s] = {LockOf(Program(call'[s])[k]) :
                  k \in {j \in 1 .. pc'[s] - 1 : Program(call'[s])[j].op # "read"}}
  <2>1. CASE s = r
    BY <1>3, <2>1 DEF Running
  <2>2. CASE s # r
    <3>1. pc'[s] = pc[s] /\ call'[s] = call[s] /\ held'[s] = held[s]
      BY <1>3, <2>2
    <3> QED
      BY <3>1 DEF LocksAreKept, Running
  <2> QED
    BY <2>1, <2>2
<1>6. LocksAreKept'
  BY <1>5 DEF LocksAreKept
<1> QED
  BY <1>2, <1>3, <1>4, <1>6

\* What is added to the pointer was loaded under the lock, and nobody else
\* has loaded it since.
LEMMA CommitKeepsIInv ==
    ASSUME IInv, NEW r \in Requests, Commit(r)
    PROVE  IInv'
<1> DEFINE c == call[r]
           change == NewPointer(c, seen[r]) - seen[r]
           new == {[by |-> r, slot |-> seen[r] + k] : k \in 0 .. c.batch - 1}
<1>0. TypeOK /\ AtCommit(r) /\ Running(r) /\ Finish(r) /\ pc[r] # 0
  BY DEF IInv, Commit, AtCommit, Running
<1>1. /\ pointer' = IF change = 0 THEN pointer ELSE seen[r] + change
      /\ turns' = turns + change /\ picks' = picks \cup new
      /\ UNCHANGED <<call, seen>>
  BY DEF Commit, Finish
<1>2. /\ pc' \in [Requests -> -1 .. 3 + Cardinality(Chores)]
      /\ held' \in [Requests -> SUBSET Locks]
      /\ held'[r] = {} /\ \A s \in Requests \ {r} : held'[s] = held[s]
      /\ CallsBegin' /\ LocksAreKept' /\ LocksExclude'
  BY <1>0, FinishForgets DEF IInv
<1>3. c \in Call /\ c.batch \in Nat /\ c.behind \in BOOLEAN /\ (c.behind => c.kind = "depart")
  <2>1. c \in Call
    BY <1>0 DEF IInv, CallsBegin
  <2> QED
    BY <2>1, CallsAreTyped, HouseholdLocksAssumption DEF Call
<1>4. /\ seen[r] \in Nat /\ pointer \in Nat /\ turns \in Int
      /\ picks \subseteq [by : Requests, slot : Nat]
  BY <1>0 DEF TypeOK
<1> HIDE DEF c
<1>5. change \in Int /\ seen[r] + change \in Nat /\ (~ c.behind => change = c.batch)
  BY <1>3, <1>4 DEF NewPointer
<1> HIDE DEF change
<1>6. TypeOK'
  <2>1. pointer' \in Nat /\ turns' \in Int
    BY <1>1, <1>4, <1>5
  <2>2. picks' \subseteq [by : Requests, slot : Nat]
    BY <1>1, <1>3, <1>4
  <2> QED
    BY <1>0, <1>1, <1>2, <2>1, <2>2 DEF TypeOK
<1>7. ASSUME WithoutDepartures'
      PROVE  LoadedUnderLock' /\ TurnsAreBehind' /\ NoAssignmentLost' /\ NoTurnTwice'
  <2>1. WithoutDepartures /\ change = c.batch
    BY <1>1, <1>3, <1>5, <1>7 DEF WithoutDepartures, c
  <2>2. LoadedUnderLock /\ TurnsAreBehind /\ pointer = turns
        /\ \A p, q \in picks : p.slot = q.slot => p.by = q.by
    BY <2>1 DEF IInv, NoAssignmentLost, NoTurnTwice
  <2>3. CASE c.batch = 0
    <3>1. pointer' = pointer /\ turns' = turns /\ picks' = picks
      BY <1>1, <1>3, <1>4, <2>1, <2>3
    <3>2. \A s \in Requests : held'[s] \subseteq held[s]
      BY <1>2
    <3> QED
      BY <1>1, <2>2, <3>1, <3>2
      DEF LoadedUnderLock, TurnsAreBehind, NoAssignmentLost, NoTurnTwice
  <2>4. CASE c.batch > 0
    <3>1. HouseholdLock \in held[r]
      <4>1. WellFormed(c, Program(c))
        BY <1>3, ProgramsAreWellFormed
      <4>2. PICK k \in 1 .. Len(Program(c)) : Program(c)[k] = LockHousehold
        BY <2>4, <4>1 DEF WellFormed
      <4>3. Len(Program(c)) \in Nat
        BY <4>1 DEF WellFormed
      <4>4. k \in 1 .. pc[r] - 1
        BY <1>0, <4>3 DEF AtCommit, TypeOK, c
      <4> QED
        BY <4>2, <4>4, LockHouseholdIsKept DEF IInv, c
    <3>2. seen[r] = pointer
      BY <2>2, <3>1 DEF LoadedUnderLock
    <3>3. pointer' = pointer + c.batch /\ turns' = pointer'
      BY <1>1, <1>4, <2>1, <2>2, <2>4, <3>2
    <3>4. \A s \in Requests : HouseholdLock \notin held'[s]
      BY <1>2, <3>1, OneHolder DEF IInv
    <3>5. \A p \in new : p.by = r /\ p.slot >= pointer /\ p.slot < pointer'
      BY <1>3, <1>4, <3>2, <3>3
    <3>6. \A p \in picks : p.slot < pointer /\ p.slot < pointer' /\ p.slot \in Nat
      BY <1>3, <1>4, <2>2, <3>3 DEF TurnsAreBehind
    <3>7. \A p \in new : p.slot \in Nat
      BY <1>3, <1>4
    <3>8. LoadedUnderLock'
      BY <3>4 DEF LoadedUnderLock, HouseholdLock, LockOf, LockHousehold
    <3>9. TurnsAreBehind'
      BY <1>1, <3>5, <3>6 DEF TurnsAreBehind
    <3>10. NoTurnTwice'
      <4>1. \A p \in picks, q \in new : p.slot # q.slot
        BY <1>4, <3>5, <3>6, <3>7
      <4> QED
        BY <1>1, <2>2, <3>5, <4>1 DEF NoTurnTwice
    <3> QED
      BY <3>3, <3>8, <3>9, <3>10 DEF NoAssignmentLost
  <2> QED
    BY <1>3, <2>3, <2>4
<1>8. ~ WithoutDepartures' => NoAssignmentLost' /\ NoTurnTwice'
  BY DEF NoAssignmentLost, NoTurnTwice
<1> QED
  BY <1>2, <1>6, <1>7, <1>8 DEF IInv

\* A transaction that fails changes nothing.
LEMMA VictimKeepsIInv ==
    ASSUME IInv, NEW r \in Requests, Victim(r)
    PROVE  IInv'
<1>1. pc[r] # 0
  <2>1. PICK S \in SUBSET Requests : r \in S /\ Deadlocked(S)
    BY DEF Victim
  <2>2. WaitsFor(r) # {}
    BY <2>1 DEF Deadlocked
  <2> QED
    BY <2>2 DEF WaitsFor, Running
<1>2. /\ Finish(r) /\ UNCHANGED <<pointer, turns, picks, call, seen>>
  BY DEF Victim, Finish
<1>3. /\ pc' \in [Requests -> -1 .. 3 + Cardinality(Chores)]
      /\ held' \in [Requests -> SUBSET Locks]
      /\ held'[r] = {} /\ \A s \in Requests \ {r} : held'[s] = held[s]
      /\ CallsBegin' /\ LocksAreKept' /\ LocksExclude'
  BY <1>1, <1>2, FinishForgets DEF IInv
<1>4. TypeOK'
  BY <1>2, <1>3 DEF IInv, TypeOK
<1>5. WithoutDepartures' => LoadedUnderLock' /\ TurnsAreBehind'
  BY <1>2, <1>3 DEF IInv, WithoutDepartures, LoadedUnderLock, TurnsAreBehind
<1>6. NoAssignmentLost' /\ NoTurnTwice'
  BY <1>2 DEF IInv, NoAssignmentLost, NoTurnTwice, WithoutDepartures
<1> QED
  BY <1>3, <1>4, <1>5, <1>6 DEF IInv

LEMMA NextKeepsIInv == IInv /\ [Next]_vars => IInv'
<1> SUFFICES ASSUME IInv, [Next]_vars PROVE IInv'
  OBVIOUS
<1>1. ASSUME NEW r \in Requests, \E c \in Call : Begin(r, c) PROVE IInv'
  BY <1>1, BeginKeepsIInv
<1>2. ASSUME NEW r \in Requests, Work(r) PROVE IInv'
  BY <1>2, ExecuteKeepsIInv, CommitKeepsIInv, VictimKeepsIInv DEF Work
<1>3. CASE UNCHANGED vars
  <2>1. TypeOK' /\ CallsBegin' /\ LocksExclude' /\ NoAssignmentLost' /\ NoTurnTwice'
    BY <1>3
    DEF IInv, TypeOK, CallsBegin, LocksExclude, NoAssignmentLost, NoTurnTwice,
        WithoutDepartures, vars
  <2>2. LocksAreKept'
    BY <1>3 DEF IInv, LocksAreKept, Running, vars
  <2>3. WithoutDepartures' => LoadedUnderLock' /\ TurnsAreBehind'
    BY <1>3 DEF IInv, WithoutDepartures, LoadedUnderLock, TurnsAreBehind, vars
  <2> QED
    BY <2>1, <2>2, <2>3 DEF IInv
<1> QED
  BY <1>1, <1>2, <1>3 DEF Next
-----------------------------------------------------------------------------
(* What follows *)

\* What every reachable state satisfies.
THEOREM InductiveInvariant == Spec => []IInv
<1> QED
  BY InitIInv, NextKeepsIInv, PTL DEF Spec

\* The state of the transactions and of their locks is well typed.
THEOREM TypeCorrect == Spec => []TypeOK
<1>1. IInv => TypeOK
  BY DEF IInv
<1> QED
  BY <1>1, InductiveInvariant, PTL

(***************************************************************************)
(* NFR-007, among any number of transactions that assign, reassign, close  *)
(* or cancel chores, or run the daily job: every committed change of       *)
(* rotation_pointer is in the pointer.                                     *)
(***************************************************************************)
THEOREM AssignmentsAreNeverLost == Spec => []NoAssignmentLost
<1>1. IInv => NoAssignmentLost
  BY DEF IInv
<1> QED
  BY <1>1, InductiveInvariant, PTL

(***************************************************************************)
(* Under the same condition no two of them give the same turn: who reads   *)
(* the pointer under FOR UPDATE is the only one who does, until COMMIT.    *)
(***************************************************************************)
THEOREM TurnsAreNeverGivenTwice == Spec => []NoTurnTwice
<1>1. IInv => NoTurnTwice
  BY DEF IInv
<1> QED
  BY <1>1, InductiveInvariant, PTL

(***************************************************************************)
(* In a circle of handlers that lock the household first, everybody who is *)
(* waited for has the household's lock; there are two of them, and it has  *)
(* one holder.                                                             *)
(***************************************************************************)
LEMMA OrderlyHoldersHaveTheHousehold ==
    ASSUME IInv, NEW r \in Requests, call[r].kind \in Orderly,
           held[r] # {}, WaitsFor(r) # {}
    PROVE  HouseholdLock \in held[r]
<1>1. Running(r) /\ ~ AtCommit(r)
  BY DEF WaitsFor
<1>2. call[r] \in Call /\ pc[r] \in 1 .. Len(Program(call[r]))
  BY <1>1, NextStatement
<1>3. WellFormed(call[r], Program(call[r]))
  BY <1>2, ProgramsAreWellFormed
<1>4. PICK j \in 1 .. pc[r] - 1 : Program(call[r])[j].op # "read"
  BY DEF IInv, LocksAreKept
<1>5. PICK i \in 1 .. pc[r] - 1 : Program(call[r])[i] = LockHousehold
  BY <1>2, <1>3, <1>4 DEF WellFormed
<1> QED
  BY <1>5, LockHouseholdIsKept DEF IInv

LEMMA OrderlyCircles == IInv => OrderlyNeverDeadlock
<1> SUFFICES ASSUME IInv, NEW S \in SUBSET Requests, Deadlocked(S),
                    \A r \in S : call[r].kind \in Orderly
             PROVE  FALSE
  BY DEF OrderlyNeverDeadlock
<1>1. ASSUME NEW r \in S
      PROVE  \E s \in S \ {r} : HouseholdLock \in held[s]
  <2>1. PICK s \in S : s \in WaitsFor(r)
    BY <1>1 DEF Deadlocked
  <2>2. s # r /\ held[s] # {}
    BY <2>1 DEF WaitsFor
  <2>3. WaitsFor(s) # {}
    BY DEF Deadlocked
  <2> QED
    BY <2>2, <2>3, OrderlyHoldersHaveTheHousehold
<1>2. PICK r \in S : TRUE
  BY DEF Deadlocked
<1>3. PICK s \in S : HouseholdLock \in held[s]
  BY <1>1, <1>2
<1>4. PICK t \in S \ {s} : HouseholdLock \in held[t]
  BY <1>1, <1>3
<1> QED
  BY <1>3, <1>4, OneHolder DEF IInv

(***************************************************************************)
(* No deadlock is made up of inserts, reassignments, dismissals and        *)
(* departures alone, however many there are of them.                       *)
(***************************************************************************)
THEOREM NeverAnOrderlyDeadlock == Spec => []OrderlyNeverDeadlock
<1> QED
  BY OrderlyCircles, InductiveInvariant, PTL
==============================================================================
