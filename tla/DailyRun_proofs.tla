---------------------------- MODULE DailyRun_proofs ----------------------------
(***************************************************************************)
(* Theorems about DailyRun, for any number of workers, definitions, days   *)
(* and faults.                                                             *)
(***************************************************************************)
EXTENDS DailyRun, TLAPS

\* The advisory lock: one run at a time.
OneRun == \A v, w \in InTransaction : v = w

(***************************************************************************)
(* What a run intends to write.  It has read the definitions of the        *)
(* instances that it adds; nobody else adds one of them meanwhile, nor     *)
(* closes or deletes what has been flagged; and once the rows are inserted *)
(* their households stay.                                                  *)
(***************************************************************************)
DraftsAreTheirs ==
    \A w \in Workers :
        /\ pc[w] \notin {"insert", "flag", "commit"} => fresh[w] = {}
        /\ pc[w] # "commit" => flagged[w] = {}
        /\ \A i \in fresh[w] : /\ i[1] \in loaded[w] /\ status[i] = "none"
                               /\ pc[w] \in {"flag", "commit"} => i[1] \notin gone
        /\ \A i \in flagged[w] : status[i] = "pending" \/ i \in fresh[w]

\* Which definitions there are instances of, and which a run may have read.
InstancesOfSeries ==
    /\ \A d \in active : first[d] >= 0
    /\ \A i \in Instances : status[i] # "none" => first[i[1]] >= 0 /\ i[1] \notin gone
    /\ \A w \in Workers : \A d \in loaded[w] :
           first[d] >= 0 /\ d \in active \cup crossed \cup gone

(***************************************************************************)
(* Why nothing is announced twice: what a run has flagged and committed is *)
(* in one letter or announced once, and will not be flagged again, not     *)
(* even once its household is gone and its row with it.                    *)
(***************************************************************************)
Told(i) == announced[i] > 0 \/ \E w \in Workers : i \in letters[w]

ToldOnce ==
    /\ \A v, w \in Workers : v # w => letters[v] \cap letters[w] = {}
    /\ \A w \in Workers : \A i \in letters[w] : announced[i] = 0
    /\ \A i \in Instances : Told(i) =>
           first[i[1]] >= 0 /\ (status[i] \in {"overdue", "closed"} \/ i[1] \in gone)

IInv ==
    /\ TypeOK
    /\ OneRun
    /\ DraftsAreTheirs
    /\ InstancesOfSeries
    /\ DeletedSeriesStayQuiet
    /\ ToldOnce
    /\ AnnouncedOnce
-----------------------------------------------------------------------------
\* An instance is of a definition.
LEMMA InstanceOf ==
    /\ \A i \in Instances : i[1] \in Definitions
    /\ \A d \in Definitions, t \in Dates :
           <<d, t>> \in Instances /\ <<d, t>>[1] = d
<1>1. ASSUME NEW i \in Instances PROVE i[1] \in Definitions
  BY <1>1 DEF Instances
<1>2. ASSUME NEW d \in Definitions, NEW t \in Dates
      PROVE  <<d, t>> \in Instances /\ <<d, t>>[1] = d
  BY <1>2 DEF Instances
<1> QED
  BY <1>1, <1>2

LEMMA InitIInv == Init => IInv
<1> SUFFICES ASSUME Init PROVE IInv
  OBVIOUS
<1>1. TypeOK
  <2>1. 0 \in 0 .. LastDay /\ 0 \in 0 .. MaxFaults
    BY DailyRunAssumption
  <2>2. /\ first \in [Definitions -> Dates \cup {-1}]
        /\ status \in [Instances -> Statuses]
    BY DEF Init, Statuses
  <2> QED
    BY <2>1, <2>2 DEF Init, TypeOK, Steps
<1>2. OneRun /\ DraftsAreTheirs
  BY DEF Init, OneRun, InTransaction, DraftsAreTheirs
<1>3. InstancesOfSeries /\ DeletedSeriesStayQuiet
  BY DEF Init, InstancesOfSeries, DeletedSeriesStayQuiet
<1>4. ToldOnce /\ AnnouncedOnce
  BY DEF Init, ToldOnce, Told, AnnouncedOnce
<1> QED
  BY <1>1, <1>2, <1>3, <1>4 DEF IInv

\* What the end of a run leaves behind.
LEMMA EndRunForgets ==
    ASSUME TypeOK, NEW w \in Workers, NEW step \in Steps, EndRun(w, step)
    PROVE  /\ pc' \in [Workers -> Steps] /\ starting' \subseteq Workers
           /\ day' \in [Workers -> 0 .. LastDay]
           /\ loaded' \in [Workers -> SUBSET Definitions]
           /\ fresh' \in [Workers -> SUBSET Instances]
           /\ flagged' \in [Workers -> SUBSET Instances]
           /\ pc'[w] = step /\ loaded'[w] = {} /\ fresh'[w] = {} /\ flagged'[w] = {}
           /\ \A v \in Workers \ {w} : /\ pc'[v] = pc[v] /\ loaded'[v] = loaded[v]
                                       /\ fresh'[v] = fresh[v] /\ flagged'[v] = flagged[v]
  BY DailyRunAssumption DEF EndRun, Goto, TypeOK

LEMMA GotoMoves ==
    ASSUME TypeOK, NEW w \in Workers, NEW step \in Steps, Goto(w, step)
    PROVE  /\ pc' \in [Workers -> Steps] /\ pc'[w] = step
           /\ \A v \in Workers \ {w} : pc'[v] = pc[v]
  BY DEF Goto, TypeOK
-----------------------------------------------------------------------------
(* One lemma for each group of actions. *)

\* A worker moves on outside of a transaction, or takes the lock for one.
LEMMA MoveKeepsIInv ==
    ASSUME IInv, NEW w \in Workers,
           \/ Start(w) \/ CronFires(w) \/ Sent(w)
           \/ TryLock(w) /\ InTransaction = {}
    PROVE  IInv'
<1>0. TypeOK
  BY DEF IInv
<1>1. /\ UNCHANGED <<today, rows, draft, letters, faults, history>>
      /\ starting' \subseteq Workers /\ due' \subseteq Workers
  BY <1>0 DEF Start, CronFires, Sent, TryLock, TypeOK
<1>2. \/ UNCHANGED pc
      \/ /\ pc[w] \in {"down", "idle", "lock", "send"}
         /\ \/ Goto(w, "lock") \/ Goto(w, "idle")
            \/ Goto(w, "read") /\ InTransaction = {}
  BY DEF Start, CronFires, Sent, TryLock
<1>3. TypeOK'
  BY <1>0, <1>1, <1>2, GotoMoves DEF TypeOK, rows, draft, history, Steps
<1>4. CASE UNCHANGED pc
  BY <1>1, <1>3, <1>4
  DEF IInv, OneRun, InTransaction, DraftsAreTheirs, InstancesOfSeries,
      DeletedSeriesStayQuiet, ToldOnce, Told, AnnouncedOnce, rows, draft, history
<1>5. CASE ~UNCHANGED pc
  <2>1. /\ pc[w] \in {"down", "idle", "lock", "send"}
        /\ \/ pc'[w] \in {"lock", "idle"}
           \/ pc'[w] = "read" /\ InTransaction = {}
        /\ \A v \in Workers \ {w} : pc'[v] = pc[v]
    BY <1>0, <1>2, <1>5, GotoMoves DEF Steps
  <2>2. OneRun'
    BY <2>1 DEF IInv, OneRun, InTransaction
  <2>3. DraftsAreTheirs'
    BY <1>1, <2>1 DEF IInv, DraftsAreTheirs, rows, draft
  <2>4. InstancesOfSeries' /\ DeletedSeriesStayQuiet' /\ ToldOnce' /\ AnnouncedOnce'
    BY <1>1
    DEF IInv, InstancesOfSeries, DeletedSeriesStayQuiet, ToldOnce, Told, AnnouncedOnce,
        rows, draft, history
  <2> QED
    BY <1>3, <2>2, <2>3, <2>4 DEF IInv
<1> QED
  BY <1>4, <1>5

\* A run ends without a commit.
LEMMA EndKeepsIInv ==
    ASSUME IInv, NEW w \in Workers,
           \/ TryLock(w) /\ InTransaction # {}
           \/ Insert(w) /\ Violates(w)
           \/ DatabaseError(w) \/ Crash(w)
    PROVE  IInv'
<1>0. TypeOK
  BY DEF IInv
<1>1. \E step \in {"idle", "down"} : EndRun(w, step)
  BY DEF TryLock, Insert, DatabaseError, Crash, RollBack
<1>2. /\ UNCHANGED <<today, rows, announced, crossed>>
      /\ due' \subseteq due /\ faults' \in 0 .. MaxFaults /\ excused' \in BOOLEAN
      /\ letters' \in [Workers -> SUBSET Instances]
      /\ \A v \in Workers : letters'[v] \subseteq letters[v]
  <2>1. CASE TryLock(w) /\ InTransaction # {}
    BY <1>0, <2>1 DEF TryLock, TypeOK, history
  <2>2. CASE Insert(w) /\ Violates(w)
    BY <1>0, <2>2 DEF Insert, RollBack, TypeOK, history
  <2>3. CASE DatabaseError(w)
    BY <1>0, <2>3, DailyRunAssumption DEF DatabaseError, RollBack, TypeOK, history
  <2>4. CASE Crash(w)
    BY <1>0, <2>4, DailyRunAssumption DEF Crash, TypeOK, history
  <2> QED
    BY <2>1, <2>2, <2>3, <2>4
<1>3. TypeOK'
  BY <1>0, <1>1, <1>2, EndRunForgets DEF TypeOK, rows, Steps
<1>4. /\ pc'[w] \in {"idle", "down"}
      /\ loaded'[w] = {} /\ fresh'[w] = {} /\ flagged'[w] = {}
      /\ \A v \in Workers \ {w} : /\ pc'[v] = pc[v] /\ loaded'[v] = loaded[v]
                                  /\ fresh'[v] = fresh[v] /\ flagged'[v] = flagged[v]
  BY <1>0, <1>1, EndRunForgets DEF Steps
<1>5. OneRun'
  BY <1>4 DEF IInv, OneRun, InTransaction
<1>6. DraftsAreTheirs'
  BY <1>2, <1>4 DEF IInv, DraftsAreTheirs, rows
<1>7. InstancesOfSeries' /\ DeletedSeriesStayQuiet' /\ AnnouncedOnce'
  BY <1>2, <1>4 DEF IInv, InstancesOfSeries, DeletedSeriesStayQuiet, AnnouncedOnce, rows
<1>8. ToldOnce'
  BY <1>2 DEF IInv, ToldOnce, Told, rows
<1> QED
  BY <1>3, <1>5, <1>6, <1>7, <1>8 DEF IInv

\* What has been told is in the state it was in.
LEMMA ToldStays ==
    ASSUME ToldOnce, AnnouncedOnce,
           UNCHANGED <<letters, announced>>,
           \A d \in Definitions : first[d] >= 0 => first'[d] = first[d],
           gone \subseteq gone',
           \A i \in Instances : status[i] \in {"overdue", "closed"} =>
               status'[i] \in {"overdue", "closed"} \/ i[1] \in gone'
    PROVE  ToldOnce' /\ AnnouncedOnce'
<1>1. \A i \in Instances : i[1] \in Definitions
  BY InstanceOf
<1> QED
  BY <1>1 DEF ToldOnce, Told, AnnouncedOnce

\* A run reads, inserts and flags.
LEMMA ReadKeepsIInv ==
    ASSUME IInv, NEW w \in Workers,
           \/ ReadDefinitions(w) \/ ReadPairs(w)
           \/ Insert(w) /\ ~Violates(w)
           \/ Flag(w)
    PROVE  IInv'
<1>0. TypeOK
  BY DEF IInv
<1>1. /\ UNCHANGED <<today, rows, starting, due, letters, faults, history>>
      /\ pc[w] \in {"read", "pairs", "insert", "flag"}
      /\ pc'[w] \in {"pairs", "insert", "flag", "commit"}
      /\ pc' \in [Workers -> Steps]
      /\ \A v \in Workers \ {w} : pc'[v] = pc[v]
  BY <1>0, GotoMoves DEF ReadDefinitions, ReadPairs, Insert, Flag, Steps, draft, history
<1>2. /\ day' \in [Workers -> 0 .. LastDay]
      /\ loaded' \in [Workers -> SUBSET Definitions]
      /\ fresh' \in [Workers -> SUBSET Instances]
      /\ flagged' \in [Workers -> SUBSET Instances]
      /\ \A v \in Workers \ {w} : /\ loaded'[v] = loaded[v] /\ fresh'[v] = fresh[v]
                                  /\ flagged'[v] = flagged[v]
  BY <1>0 DEF ReadDefinitions, ReadPairs, Insert, Flag, TypeOK, draft
<1>3. TypeOK'
  BY <1>0, <1>1, <1>2 DEF TypeOK, rows, history
<1>4. OneRun'
  BY <1>1 DEF IInv, OneRun, InTransaction
<1>5. /\ pc'[w] \notin {"insert", "flag", "commit"} => fresh'[w] = {}
      /\ pc'[w] # "commit" => flagged'[w] = {}
      /\ \A i \in fresh'[w] : /\ i[1] \in loaded'[w] /\ status[i] = "none"
                              /\ pc'[w] \in {"flag", "commit"} => i[1] \notin gone
      /\ \A i \in flagged'[w] : status[i] = "pending" \/ i \in fresh'[w]
      /\ loaded'[w] \in {loaded[w], active}
  <2>1. CASE ReadDefinitions(w)
    BY <1>0, <2>1 DEF ReadDefinitions, Goto, IInv, DraftsAreTheirs, TypeOK
  <2>2. CASE ReadPairs(w)
    BY <1>0, <2>2 DEF ReadPairs, Goto, IInv, DraftsAreTheirs, TypeOK
  <2>3. CASE Insert(w) /\ ~Violates(w)
    BY <1>0, <2>3 DEF Insert, Violates, Goto, IInv, DraftsAreTheirs, TypeOK, draft
  <2>4. CASE Flag(w)
    BY <1>0, <2>4 DEF Flag, Goto, IInv, DraftsAreTheirs, TypeOK
  <2> QED
    BY <2>1, <2>2, <2>3, <2>4
<1>6. DraftsAreTheirs'
  BY <1>1, <1>2, <1>5 DEF IInv, DraftsAreTheirs, rows
<1>7. InstancesOfSeries'
  BY <1>0, <1>1, <1>2, <1>5 DEF IInv, InstancesOfSeries, rows, history, TypeOK
<1>8. DeletedSeriesStayQuiet' /\ ToldOnce' /\ AnnouncedOnce'
  BY <1>1 DEF IInv, DeletedSeriesStayQuiet, ToldOnce, Told, AnnouncedOnce, rows, history
<1> QED
  BY <1>3, <1>4, <1>6, <1>7, <1>8 DEF IInv

\* The commit: what is flagged becomes overdue, and goes into a letter.
LEMMA CommitKeepsIInv ==
    ASSUME IInv, NEW w \in Workers, Commit(w)
    PROVE  IInv'
<1>0. TypeOK
  BY DEF IInv
<1>1. /\ pc'[w] = "send" /\ loaded'[w] = {} /\ fresh'[w] = {} /\ flagged'[w] = {}
      /\ \A v \in Workers \ {w} : /\ pc'[v] = pc[v] /\ loaded'[v] = loaded[v]
                                  /\ fresh'[v] = fresh[v] /\ flagged'[v] = flagged[v]
  BY <1>0, EndRunForgets DEF Commit, Steps
<1>2. UNCHANGED <<today, active, gone, first, due, faults, history>>
  BY DEF Commit
<1>3. \A i \in Instances : status'[i] = IF i \in flagged[w] THEN "overdue"
                                        ELSE IF i \in fresh[w] THEN "pending" ELSE status[i]
  BY DEF Commit
<1>4. letters'[w] = flagged[w] /\ \A v \in Workers \ {w} : letters'[v] = letters[v]
  BY <1>0 DEF Commit, Letter, TypeOK
<1>5. TypeOK'
  <2>1. status' \in [Instances -> Statuses]
    BY <1>0 DEF Commit, TypeOK, Statuses
  <2>2. letters' \in [Workers -> SUBSET Instances]
    BY <1>0 DEF Commit, Letter, TypeOK
  <2>3. EndRun(w, "send")
    BY DEF Commit
  <2> QED
    BY <1>0, <1>2, <2>1, <2>2, <2>3, EndRunForgets DEF TypeOK, Steps, history
<1>6. pc[w] = "commit" /\ \A v \in Workers \ {w} : v \notin InTransaction
  BY DEF Commit, IInv, OneRun, InTransaction
<1>7. OneRun'
  BY <1>1, <1>6 DEF OneRun, InTransaction
<1>8. \A v \in Workers : fresh'[v] = {} /\ flagged'[v] = {}
  BY <1>1, <1>6 DEF IInv, DraftsAreTheirs, InTransaction
<1>9. \A i \in flagged[w] \cup fresh[w] :
          /\ i \in Instances /\ first[i[1]] >= 0 /\ i[1] \notin gone
          /\ status[i] \in {"none", "pending"}
  BY <1>0, <1>6 DEF IInv, DraftsAreTheirs, InstancesOfSeries, TypeOK
<1>10. \A i \in fresh[w] : i[1] \in active \cup crossed
  BY <1>6, <1>9 DEF IInv, DraftsAreTheirs, InstancesOfSeries
<1>11. \A i \in flagged[w] \cup fresh[w] : ~Told(i)
  BY <1>9 DEF IInv, ToldOnce
<1>12. DraftsAreTheirs'
  BY <1>8 DEF DraftsAreTheirs
<1>13. InstancesOfSeries'
  BY <1>1, <1>2, <1>3, <1>9 DEF IInv, InstancesOfSeries, history
<1>14. DeletedSeriesStayQuiet'
  BY <1>2, <1>3, <1>10 DEF IInv, DeletedSeriesStayQuiet, history
<1>15. ToldOnce'
  <2>1. \A v \in Workers \ {w} : letters'[v] \cap letters'[w] = {}
    BY <1>4, <1>11 DEF Told
  <2>2. \A i \in letters'[w] : announced[i] = 0
    BY <1>0, <1>4, <1>9, <1>11 DEF Told, TypeOK
  <2>3. ASSUME NEW i \in Instances, Told(i)'
        PROVE  first[i[1]] >= 0 /\ (status'[i] \in {"overdue", "closed"} \/ i[1] \in gone)
    <3>1. CASE i \in flagged[w]
      BY <1>3, <1>9, <3>1
    <3>2. CASE i \notin flagged[w]
      <4>1. Told(i)
        BY <1>2, <1>4, <2>3, <3>2 DEF Told, history
      <4>2. i \notin fresh[w]
        BY <1>11, <4>1
      <4> QED
        BY <1>3, <3>2, <4>1, <4>2 DEF IInv, ToldOnce
    <3> QED
      BY <3>1, <3>2
  <2> QED
    BY <1>2, <1>4, <2>1, <2>2, <2>3 DEF IInv, ToldOnce, history
<1>16. AnnouncedOnce'
  BY <1>2 DEF IInv, AnnouncedOnce, history
<1> QED
  BY <1>5, <1>7, <1>12, <1>13, <1>14, <1>15, <1>16 DEF IInv

\* A letter is sent, or lost.
LEMMA SendKeepsIInv ==
    ASSUME IInv, NEW w \in Workers, NEW d \in Definitions, NEW delivered \in BOOLEAN,
           Send(w, d, delivered)
    PROVE  IInv'
<1> DEFINE ours == {i \in letters[w] : i[1] = d}
<1>0. TypeOK
  BY DEF IInv
<1>1. /\ UNCHANGED <<today, rows, pc, starting, due, draft, faults, crossed, excused>>
      /\ letters' = [letters EXCEPT ![w] = letters[w] \ ours]
      /\ \A i \in Instances : announced'[i] = IF delivered /\ i \in ours
                                              THEN announced[i] + 1 ELSE announced[i]
      /\ announced' \in [Instances -> Nat]
  BY <1>0 DEF Send, TypeOK
<1>2. TypeOK'
  BY <1>0, <1>1 DEF TypeOK, rows, draft
<1>3. OneRun' /\ DraftsAreTheirs' /\ InstancesOfSeries' /\ DeletedSeriesStayQuiet'
  BY <1>1
  DEF IInv, OneRun, InTransaction, DraftsAreTheirs, InstancesOfSeries,
      DeletedSeriesStayQuiet, rows, draft
<1>4. \A v \in Workers : /\ letters'[v] \subseteq letters[v]
                         /\ letters'[v] \cap ours = {}
                         /\ letters[v] \subseteq Instances
  BY <1>0, <1>1 DEF IInv, ToldOnce, TypeOK
<1>5. \A i \in Instances : Told(i)' => Told(i)
  BY <1>0, <1>1, <1>4 DEF Told, TypeOK
<1>6. ToldOnce'
  BY <1>1, <1>4, <1>5 DEF IInv, ToldOnce, rows
<1>7. AnnouncedOnce'
  BY <1>0, <1>1, <1>4 DEF IInv, AnnouncedOnce, ToldOnce, TypeOK
<1> QED
  BY <1>2, <1>3, <1>6, <1>7 DEF IInv

\* A request leaves the runs where they are.
RunsStay == UNCHANGED <<today, pc, starting, due, draft, letters, faults>>

\* What has been told is as it was, after a request.
LEMMA RequestKeepsTold ==
    ASSUME IInv, RunsStay, UNCHANGED announced, gone \subseteq gone',
           \A d \in Definitions : first[d] >= 0 => first'[d] = first[d],
           \A i \in Instances : status[i] \in {"overdue", "closed"} =>
               status'[i] \in {"overdue", "closed"} \/ i[1] \in gone'
    PROVE  OneRun' /\ ToldOnce' /\ AnnouncedOnce'
<1>1. OneRun'
  BY DEF IInv, OneRun, InTransaction, RunsStay
<1>2. ToldOnce' /\ AnnouncedOnce'
  BY ToldStays DEF IInv, RunsStay
<1> QED
  BY <1>1, <1>2

\* A new definition is in no run, and had no instances.
LEMMA CreateKeepsIInv ==
    ASSUME IInv, NEW d \in Definitions, NEW t \in Dates, CreateChore(d, t)
    PROVE  IInv'
<1>0. TypeOK
  BY DEF IInv
<1>1. <<d, t>> \in Instances /\ <<d, t>>[1] = d /\ \A i \in Instances : i[1] \in Definitions
  BY InstanceOf
<1>2. /\ RunsStay /\ UNCHANGED <<gone, history>>
      /\ active' = active \cup {d} /\ d \notin gone
      /\ first[d] = -1 /\ first'[d] = t /\ t >= 0
      /\ \A e \in Definitions \ {d} : first'[e] = first[e]
      /\ status'[<<d, t>>] = "pending"
      /\ \A i \in Instances \ {<<d, t>>} : status'[i] = status[i]
  BY <1>0, <1>1 DEF CreateChore, RunsStay, TypeOK, Dates
<1>3. TypeOK'
  BY <1>0, <1>2 DEF CreateChore, RunsStay, TypeOK, Statuses, draft, history
<1>4. \A i \in Instances : i[1] = d => status[i] = "none"
  BY <1>2 DEF IInv, InstancesOfSeries
<1>5. \A w \in Workers : d \notin loaded[w] /\ <<d, t>> \notin fresh[w] \cup flagged[w]
  BY <1>1, <1>2, <1>4 DEF IInv, InstancesOfSeries, DraftsAreTheirs
<1>6. DraftsAreTheirs'
  BY <1>0, <1>2, <1>5 DEF IInv, DraftsAreTheirs, RunsStay, draft, TypeOK
<1>7. InstancesOfSeries'
  <2>1. \A e \in Definitions : first[e] >= 0 => first'[e] >= 0
    BY <1>2
  <2>2. \A e \in active' : first'[e] >= 0
    BY <1>0, <1>2, <2>1 DEF IInv, InstancesOfSeries, TypeOK
  <2>3. \A i \in Instances : status'[i] # "none" => first'[i[1]] >= 0 /\ i[1] \notin gone'
    BY <1>1, <1>2, <2>1 DEF IInv, InstancesOfSeries
  <2>4. \A w \in Workers : \A e \in loaded[w] :
            first'[e] >= 0 /\ e \in active' \cup crossed' \cup gone'
    BY <1>0, <1>2, <2>1 DEF IInv, InstancesOfSeries, TypeOK, history
  <2> QED
    BY <1>2, <2>2, <2>3, <2>4 DEF InstancesOfSeries, RunsStay, draft
<1>8. DeletedSeriesStayQuiet'
  BY <1>1, <1>2 DEF IInv, DeletedSeriesStayQuiet, history
<1>9. OneRun' /\ ToldOnce' /\ AnnouncedOnce'
  BY <1>2, <1>4, RequestKeepsTold DEF history
<1> QED
  BY <1>3, <1>6, <1>7, <1>8, <1>9 DEF IInv

\* A deleted definition keeps what runs have flagged of it, and is remembered
\* as crossed if a run has read it.
LEMMA DeleteDefinitionKeepsIInv ==
    ASSUME IInv, NEW d \in Definitions, DeleteDefinition(d)
    PROVE  IInv'
<1>0. TypeOK
  BY DEF IInv
<1>1. /\ RunsStay /\ UNCHANGED <<gone, first, announced, excused>>
      /\ active' = active \ {d}
      /\ \A w \in Workers : \A i \in flagged[w] : i[1] # d
      /\ \A i \in Instances : status'[i] = IF i[1] = d /\ status[i] = "pending"
                                           THEN "cancelled" ELSE status[i]
      /\ crossed \subseteq crossed' /\ crossed' \subseteq crossed \cup {d}
      /\ (\E w \in Workers : d \in loaded[w]) => d \in crossed'
  BY DEF DeleteDefinition, RunsStay
<1>2. TypeOK'
  <2>1. status' \in [Instances -> Statuses]
    BY <1>0 DEF DeleteDefinition, TypeOK, Statuses
  <2>2. crossed' \subseteq Definitions /\ active' \subseteq Definitions
    BY <1>0, <1>1 DEF TypeOK
  <2> QED
    BY <1>0, <1>1, <2>1, <2>2 DEF TypeOK, RunsStay, draft
<1>3. DraftsAreTheirs'
  BY <1>0, <1>1 DEF IInv, DraftsAreTheirs, RunsStay, draft, TypeOK
<1>4. InstancesOfSeries'
  BY <1>0, <1>1 DEF IInv, InstancesOfSeries, RunsStay, draft, TypeOK
<1>5. DeletedSeriesStayQuiet'
  BY <1>1 DEF IInv, DeletedSeriesStayQuiet
<1>6. OneRun' /\ ToldOnce' /\ AnnouncedOnce'
  BY <1>1, RequestKeepsTold
<1> QED
  BY <1>2, <1>3, <1>4, <1>5, <1>6 DEF IInv

\* A household that goes has no rows in a transaction.
LEMMA DeleteHouseholdKeepsIInv ==
    ASSUME IInv, NEW d \in Definitions, DeleteHousehold(d)
    PROVE  IInv'
<1>0. TypeOK
  BY DEF IInv
<1>1. /\ RunsStay /\ UNCHANGED <<first, history>>
      /\ active' = active \ {d} /\ gone' = gone \cup {d}
      /\ \A i \in Instances : status'[i] = IF i[1] = d THEN "none" ELSE status[i]
  BY DEF DeleteHousehold, RunsStay
<1>2. \A w \in Workers : /\ \A i \in flagged[w] : i[1] # d
                         /\ pc[w] \in {"flag", "commit"} => \A i \in fresh[w] : i[1] # d
  BY DEF DeleteHousehold, Written, Inserted
<1>3. TypeOK'
  <2>1. status' \in [Instances -> Statuses]
    BY <1>0 DEF DeleteHousehold, TypeOK, Statuses
  <2>2. gone' \subseteq Definitions /\ active' \subseteq Definitions
    BY <1>0, <1>1 DEF TypeOK
  <2> QED
    BY <1>0, <1>1, <2>1, <2>2 DEF TypeOK, RunsStay, draft, history
<1>4. DraftsAreTheirs'
  BY <1>0, <1>1, <1>2 DEF IInv, DraftsAreTheirs, RunsStay, draft, TypeOK
<1>5. InstancesOfSeries'
  BY <1>0, <1>1 DEF IInv, InstancesOfSeries, RunsStay, draft, history, TypeOK
<1>6. DeletedSeriesStayQuiet'
  BY <1>1 DEF IInv, DeletedSeriesStayQuiet, history
<1>7. OneRun' /\ ToldOnce' /\ AnnouncedOnce'
  BY <1>1, RequestKeepsTold DEF history
<1> QED
  BY <1>3, <1>4, <1>5, <1>6, <1>7 DEF IInv

\* What is closed was not in a transaction.
LEMMA CloseKeepsIInv ==
    ASSUME IInv, NEW i \in Instances, Close(i)
    PROVE  IInv'
<1>0. TypeOK
  BY DEF IInv
<1>1. /\ RunsStay /\ UNCHANGED <<active, gone, first, history>>
      /\ status[i] \in {"pending", "overdue"} /\ status'[i] = "closed"
      /\ \A j \in Instances \ {i} : status'[j] = status[j]
  BY <1>0 DEF Close, RunsStay, TypeOK
<1>2. \A w \in Workers : i \notin flagged[w] /\ i \notin fresh[w]
  BY <1>1 DEF Close, Written, IInv, DraftsAreTheirs
<1>3. TypeOK'
  <2>1. status' \in [Instances -> Statuses]
    BY <1>0 DEF Close, TypeOK, Statuses
  <2> QED
    BY <1>0, <1>1, <2>1 DEF TypeOK, RunsStay, draft, history
<1>4. DraftsAreTheirs'
  BY <1>0, <1>1, <1>2 DEF IInv, DraftsAreTheirs, RunsStay, draft, TypeOK
<1>5. InstancesOfSeries'
  BY <1>1 DEF IInv, InstancesOfSeries, RunsStay, draft, history
<1>6. DeletedSeriesStayQuiet'
  BY <1>1 DEF IInv, DeletedSeriesStayQuiet, history
<1>7. OneRun' /\ ToldOnce' /\ AnnouncedOnce'
  BY <1>1, RequestKeepsTold DEF history
<1> QED
  BY <1>3, <1>4, <1>5, <1>6, <1>7 DEF IInv

\* The clock makes workers due, and nothing else.
LEMMA MidnightKeepsIInv == IInv /\ Midnight => IInv'
<1> SUFFICES ASSUME IInv, Midnight PROVE IInv'
  OBVIOUS
<1>1. /\ UNCHANGED <<rows, pc, starting, draft, letters, faults, announced, crossed>>
      /\ today' = today + 1 /\ today < LastDay
      /\ due' \subseteq Workers /\ excused' \in BOOLEAN
  BY DEF Midnight
<1>2. TypeOK'
  <2>1. today' \in 0 .. LastDay
    BY <1>1, DailyRunAssumption DEF IInv, TypeOK
  <2> QED
    BY <1>1, <2>1 DEF IInv, TypeOK, rows, draft
<1>3. OneRun' /\ DraftsAreTheirs' /\ InstancesOfSeries' /\ DeletedSeriesStayQuiet'
  BY <1>1
  DEF IInv, OneRun, InTransaction, DraftsAreTheirs, InstancesOfSeries,
      DeletedSeriesStayQuiet, rows, draft
<1>4. ToldOnce' /\ AnnouncedOnce'
  BY <1>1 DEF IInv, ToldOnce, Told, AnnouncedOnce, rows
<1> QED
  BY <1>2, <1>3, <1>4 DEF IInv

LEMMA StutterKeepsIInv == IInv /\ UNCHANGED vars => IInv'
<1> SUFFICES ASSUME IInv, UNCHANGED vars PROVE IInv'
  OBVIOUS
<1>1. TypeOK'
  BY DEF IInv, TypeOK, vars, rows, draft, history
<1>2. OneRun' /\ DraftsAreTheirs' /\ InstancesOfSeries' /\ DeletedSeriesStayQuiet'
  BY DEF IInv, OneRun, InTransaction, DraftsAreTheirs, InstancesOfSeries,
         DeletedSeriesStayQuiet, vars, rows, draft, history
<1>3. ToldOnce' /\ AnnouncedOnce'
  BY DEF IInv, ToldOnce, Told, AnnouncedOnce, vars, rows, history
<1> QED
  BY <1>1, <1>2, <1>3 DEF IInv
-----------------------------------------------------------------------------
LEMMA NextKeepsIInv == IInv /\ [Next]_vars => IInv'
<1> SUFFICES ASSUME IInv, [Next]_vars PROVE IInv'
  OBVIOUS
<1>1. ASSUME NEW w \in Workers, Start(w) \/ CronFires(w) PROVE IInv'
  BY <1>1, MoveKeepsIInv
<1>2. ASSUME NEW w \in Workers, Run(w) PROVE IInv'
  <2>1. CASE TryLock(w)
    BY <2>1, MoveKeepsIInv, EndKeepsIInv
  <2>2. CASE ReadDefinitions(w) \/ ReadPairs(w) \/ Flag(w)
    BY <2>2, ReadKeepsIInv
  <2>3. CASE Insert(w)
    BY <2>3, ReadKeepsIInv, EndKeepsIInv
  <2>4. CASE Commit(w)
    BY <2>4, CommitKeepsIInv
  <2>5. CASE Sent(w)
    BY <2>5, MoveKeepsIInv
  <2>6. ASSUME NEW d \in Definitions, NEW delivered \in BOOLEAN, Send(w, d, delivered)
        PROVE  IInv'
    BY <2>6, SendKeepsIInv
  <2> QED
    BY <1>2, <2>1, <2>2, <2>3, <2>4, <2>5, <2>6 DEF Run
<1>3. ASSUME NEW w \in Workers, DatabaseError(w) \/ Crash(w) PROVE IInv'
  BY <1>3, EndKeepsIInv
<1>4. ASSUME NEW d \in Definitions,
             \/ \E t \in Dates : CreateChore(d, t)
             \/ DeleteDefinition(d) \/ DeleteHousehold(d)
      PROVE  IInv'
  BY <1>4, CreateKeepsIInv, DeleteDefinitionKeepsIInv, DeleteHouseholdKeepsIInv
<1>5. ASSUME NEW i \in Instances, Close(i) PROVE IInv'
  BY <1>5, CloseKeepsIInv
<1>6. CASE Midnight
  BY <1>6, MidnightKeepsIInv
<1>7. CASE UNCHANGED vars
  BY <1>7, StutterKeepsIInv
<1> QED
  BY <1>1, <1>2, <1>3, <1>4, <1>5, <1>6, <1>7 DEF Next

\* What every reachable state satisfies.
THEOREM InductiveInvariant == Spec => []IInv
<1> QED
  BY InitIInv, NextKeepsIInv, PTL DEF Spec

\* Every variable keeps its type.
THEOREM TypeCorrect == Spec => []TypeOK
<1>1. IInv => TypeOK
  BY DEF IInv
<1> QED
  BY <1>1, InductiveInvariant, PTL

(***************************************************************************)
(* With any number of workers, each of which runs the job at its start and *)
(* at midnight, and with chores created, deleted and closed between any    *)
(* two of its statements: what a run is about to insert is not there yet.  *)
(***************************************************************************)
THEOREM NoRunEverFailsOnADuplicate == Spec => []NoRunFailsOnADuplicate
<1>1. IInv => NoRunFailsOnADuplicate
  BY DEF IInv, DraftsAreTheirs, NoRunFailsOnADuplicate
<1> QED
  BY <1>1, InductiveInvariant, PTL

(***************************************************************************)
(* delete_chore_definition cancels what is pending, and no run brings a    *)
(* new one that has not read the definition while it was active.           *)
(***************************************************************************)
THEOREM DeletedSeriesAlwaysStayQuiet == Spec => []DeletedSeriesStayQuiet
<1>1. IInv => DeletedSeriesStayQuiet
  BY DEF IInv
<1> QED
  BY <1>1, InductiveInvariant, PTL

(***************************************************************************)
(* send_daily_reminders: whatever crashes, whoever runs the job and        *)
(* however late it sends, no chore is announced as newly overdue twice.    *)
(***************************************************************************)
THEOREM NothingAnnouncedTwice == Spec => []AnnouncedOnce
<1>1. IInv => AnnouncedOnce
  BY DEF IInv
<1> QED
  BY <1>1, InductiveInvariant, PTL
=============================================================================
