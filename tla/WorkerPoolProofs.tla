-------------------------- MODULE WorkerPoolProofs --------------------------
(***************************************************************************)
(* Proofs about the worker pool for every number of items, workers,        *)
(* retries and resizes.                                                    *)
(*                                                                         *)
(* The counting properties are not inductive alone. PoolInv adds where the *)
(* goroutines stand: they are started in order, they hold an item exactly  *)
(* while they are busy, one that sleeps has a retry left, and none has     *)
(* left before doneChan is closed.                                         *)
(***************************************************************************)
EXTENDS WorkerPool, FiniteSetTheorems, SequenceTheorems, TLAPS

SpawnedInOrder == \A g \in Goroutines : pc[g] = "absent" <=> g > spawned
BusyHoldsItem  == \A g \in Goroutines : item[g] # NoItem <=> pc[g] \in BusyPC
SleepHasRetry  == \A g \in Goroutines : pc[g] = "sleep" => attempt[g] < MaxRetry
NoneLeftEarly  == ~done => \A g \in Goroutines : pc[g] # "exited"
CountCovered   == workers <= spawned

PoolInv ==
  /\ TypeOK
  /\ SpawnedInOrder
  /\ BusyHoldsItem
  /\ SleepHasRetry
  /\ NoneLeftEarly
  /\ CountCovered
  /\ WaitGroupExact

-----------------------------------------------------------------------------
(* The running workers are finitely many, counted by a natural number.        *)
LEMMA LiveFinite ==
  IsFiniteSet(Live) /\ Cardinality(Live) \in Nat
<1>1. IsFiniteSet(Goroutines)
  BY PoolAssumption, FS_Interval DEF Goroutines
<1>2. Live \in SUBSET Goroutines
  BY DEF Live
<1>3. IsFiniteSet(Live)
  BY <1>1, <1>2, FS_Subset
<1> QED
  BY <1>3, FS_CardinalityType

(* Starting n goroutines behind the first s starts exactly n: what Resize     *)
(* adds to the WaitGroup is what it spawns.                                   *)
LEMMA StartedCount ==
  ASSUME NEW s \in Nat, NEW d \in Int
  PROVE  LET S == IF d > 0 THEN (s + 1)..(s + d) ELSE {}
         IN  IsFiniteSet(S) /\ Cardinality(S) = IF d > 0 THEN d ELSE 0
<1>1. CASE d > 0
  <2>1. (s + 1) \in Int /\ (s + d) \in Int /\ ~(s + 1 > s + d) /\ (s + d) - (s + 1) + 1 = d
    BY <1>1
  <2>2. IsFiniteSet((s + 1)..(s + d))
    BY <2>1, FS_Interval
  <2>3. Cardinality((s + 1)..(s + d)) = (s + d) - (s + 1) + 1
    BY <2>1, FS_Interval
  <2> QED
    BY <1>1, <2>1, <2>2, <2>3
<1>2. CASE ~(d > 0)
  BY <1>2, FS_EmptySet
<1> QED
  BY <1>1, <1>2

(* A step that makes no goroutine start or leave keeps the running workers.   *)
LEMMA LiveKept ==
  ASSUME \A g \in Goroutines :
           pc'[g] \in {"absent", "exited"} <=> pc[g] \in {"absent", "exited"}
  PROVE  Live' = Live
BY DEF Live, Goroutines

-----------------------------------------------------------------------------
(* NewWorkerPool establishes the invariant.                                   *)
LEMMA PoolInvInit == Init => PoolInv
<1> SUFFICES ASSUME Init PROVE PoolInv
  OBVIOUS
<1> USE PoolAssumption
<1>1. TypeOK
  <2>1. Cap \in Nat
    BY DEF Cap
  <2>2. workChan \in Seq(Items) /\ Len(workChan) <= Cap
    BY <2>1, EmptySeq DEF Init
  <2>3. row \in [Messages -> Status]
    BY DEF Init, Status
  <2>4. /\ pc \in [Goroutines -> PC]
        /\ item \in [Goroutines -> Items \cup {NoItem}]
        /\ attempt \in [Goroutines -> 0..MaxRetry]
    BY DEF Init, PC
  <2>5. /\ retryCount \in [Messages -> Nat]
        /\ outcome \in [Items -> Outcomes]
        /\ calls \in [Items -> Nat]
    BY DEF Init, Outcomes
  <2>6. /\ workers \in Nat \ {0} /\ wg \in Int /\ stop \in StopPC
        /\ spawned \in 0..MaxGoroutines /\ resizes \in 0..MaxResizes
    BY DEF Init, StopPC
  <2>7. deadLetters \subseteq Items /\ done \in BOOLEAN
    BY Zenon DEF Init
  <2> QED
    BY <2>2, <2>3, <2>4, <2>5, <2>6, <2>7 DEF TypeOK
<1>2. SpawnedInOrder /\ BusyHoldsItem /\ SleepHasRetry /\ NoneLeftEarly /\ CountCovered
  BY DEF Init, SpawnedInOrder, BusyHoldsItem, SleepHasRetry, NoneLeftEarly, CountCovered,
         Goroutines, BusyPC
<1>3. WaitGroupExact
  <2>1. Live = 1..InitWorkers
    BY DEF Init, Live, Goroutines
  <2>2. Cardinality(1..InitWorkers) = InitWorkers
    BY FS_Interval
  <2> QED
    BY <2>1, <2>2 DEF Init, WaitGroupExact
<1> QED
  BY <1>1, <1>2, <1>3 DEF PoolInv

(* Resize keeps it: the goroutines started are new and counted.               *)
LEMMA PoolInvResize ==
  ASSUME PoolInv, NEW n \in Sizes, Resize(n)
  PROVE  PoolInv'
<1> DEFINE newCount == IF n <= 0 THEN 1 ELSE n
           diff == newCount - workers
           new == Started(diff)
<1> USE PoolAssumption
<1>1. /\ n \in Int /\ newCount \in Nat \ {0} /\ workers \in Nat \ {0} /\ diff \in Int
      /\ spawned \in 0..MaxGoroutines /\ wg \in Int /\ workers <= spawned
  BY DEF PoolInv, TypeOK, CountCovered
<1>2. /\ spawned + diff <= MaxGoroutines
      /\ workers' = newCount
      /\ wg' = wg + Cardinality(new)
      /\ spawned' = spawned + Cardinality(new)
      /\ pc' = [g \in Goroutines |-> IF g \in new THEN "select" ELSE pc[g]]
      /\ resizes < MaxResizes /\ resizes' = resizes + 1
      /\ UNCHANGED <<workChan, done, stop, item, attempt, dbVars, histVars>>
  BY DEF Resize, Added
<1>3. IsFiniteSet(new) /\ Cardinality(new) = IF diff > 0 THEN diff ELSE 0
  BY <1>1, StartedCount DEF Started
<1>4. \A g : g \in new <=> g \in Int /\ spawned < g /\ g <= spawned + Cardinality(new)
  BY <1>1, <1>3 DEF Started
<1>5. \A g \in Goroutines : pc[g] = "absent" <=> g > spawned
  BY DEF PoolInv, SpawnedInOrder
<1>6. new \subseteq Goroutines
  BY <1>1, <1>2, <1>3, <1>4 DEF Goroutines
<1> HIDE DEF newCount, diff, new
<1>7. TypeOK'
  <2>1. spawned' \in 0..MaxGoroutines /\ workers' \in Nat \ {0} /\ wg' \in Int
    BY <1>1, <1>2, <1>3
  <2>2. pc' \in [Goroutines -> PC]
    BY <1>2 DEF PoolInv, TypeOK, PC
  <2> QED
    BY <1>2, <2>1, <2>2 DEF PoolInv, TypeOK, dbVars, histVars, Cap
<1>8. SpawnedInOrder'
  BY <1>1, <1>2, <1>3, <1>4, <1>5 DEF SpawnedInOrder, Goroutines
<1>9. BusyHoldsItem' /\ SleepHasRetry'
  BY <1>1, <1>2, <1>4, <1>5 DEF PoolInv, BusyHoldsItem, SleepHasRetry, BusyPC, Goroutines
<1>10. NoneLeftEarly' /\ CountCovered'
  <2>1. CountCovered'
    BY <1>1, <1>2, <1>3 DEF CountCovered, diff
  <2> QED
    BY <1>2, <2>1 DEF PoolInv, NoneLeftEarly
<1>11. WaitGroupExact'
  <2>1. Live' = Live \cup new
    BY <1>1, <1>2, <1>4, <1>5, <1>6 DEF Live
  <2>2. Live \cap new = {}
    BY <1>1, <1>4, <1>5 DEF Live, Goroutines
  <2>3. Cardinality(Live \cup new) = Cardinality(Live) + Cardinality(new) - Cardinality({})
    BY <1>3, <2>2, LiveFinite, FS_Union
  <2> QED
    BY <1>1, <1>2, <1>3, <2>1, <2>3, LiveFinite, FS_EmptySet DEF PoolInv, WaitGroupExact
<1> QED
  BY <1>7, <1>8, <1>9, <1>10, <1>11 DEF PoolInv

(* A step of a worker that stays in its loop keeps every count.               *)
LEMMA WorkerKeepsCounts ==
  ASSUME PoolInv, NEW g \in Goroutines, NEW x \in PC \ {"absent", "exited"},
         pc[g] \notin {"absent", "exited"},
         pc' = [pc EXCEPT ![g] = x],
         UNCHANGED <<workers, wg, done, spawned>>
  PROVE  /\ pc' \in [Goroutines -> PC]
         /\ SpawnedInOrder' /\ NoneLeftEarly' /\ CountCovered' /\ WaitGroupExact'
<1>1. pc \in [Goroutines -> PC]
  BY DEF PoolInv, TypeOK
<1>2. \A h \in Goroutines :
        /\ pc'[h] = "absent" <=> pc[h] = "absent"
        /\ pc'[h] = "exited" <=> pc[h] = "exited"
  BY <1>1
<1>3. Live' = Live
  BY <1>2, LiveKept
<1>4. pc' \in [Goroutines -> PC]
  BY <1>1
<1>5. SpawnedInOrder' /\ NoneLeftEarly' /\ CountCovered'
  BY <1>2 DEF PoolInv, SpawnedInOrder, NoneLeftEarly, CountCovered
<1>6. WaitGroupExact'
  BY <1>3 DEF PoolInv, WaitGroupExact
<1> QED
  BY <1>4, <1>5, <1>6

(* A busy worker holds one of the items.                                      *)
LEMMA BusyItem ==
  ASSUME PoolInv, NEW g \in Goroutines, pc[g] \in BusyPC
  PROVE  item[g] \in Items /\ attempt[g] \in 0..MaxRetry
BY DEF PoolInv, TypeOK, BusyHoldsItem

(* An UPDATE of a status leaves the table well formed.                        *)
LEMMA SetStatusType ==
  ASSUME TypeOK, NEW m, NEW s \in Status
  PROVE  SetStatus(m, s) \in [Messages -> Status]
BY DEF TypeOK, SetStatus

(* Submit changes the channel and the history only.                           *)
LEMMA PoolInvSubmit ==
  ASSUME PoolInv, NEW i \in Items, Submit(i)
  PROVE  PoolInv'
<1> USE PoolAssumption
<1>1. TypeOK'
  <2>1. CASE SubmitAccept(i)
    <3>1. Len(workChan) \in Nat /\ Cap \in Nat
      BY LenProperties DEF PoolInv, TypeOK, Cap
    <3>2. workChan' \in Seq(Items) /\ Len(workChan') <= Cap'
      BY <2>1, <3>1, AppendProperties DEF SubmitAccept, PoolInv, TypeOK, Cap
    <3>3. outcome' \in [Items -> Outcomes]
      BY <2>1 DEF SubmitAccept, PoolInv, TypeOK, Outcomes
    <3> QED
      BY <2>1, <3>2, <3>3 DEF SubmitAccept, PoolInv, TypeOK, goVars, dbVars
  <2>2. CASE SubmitRefuse(i)
    <3>1. outcome' \in [Items -> Outcomes]
      BY <2>2 DEF SubmitRefuse, PoolInv, TypeOK, Outcomes
    <3> QED
      BY <2>2, <3>1 DEF SubmitRefuse, PoolInv, TypeOK, poolVars, goVars, dbVars, Cap
  <2> QED
    BY <2>1, <2>2 DEF Submit
<1>2. UNCHANGED <<workers, done, wg, spawned, pc, item, attempt>>
  BY DEF Submit, SubmitAccept, SubmitRefuse, poolVars, goVars
<1>3. Live' = Live
  BY <1>2 DEF Live
<1> QED
  BY <1>1, <1>2, <1>3 DEF PoolInv, SpawnedInOrder, BusyHoldsItem, SleepHasRetry,
       NoneLeftEarly, CountCovered, WaitGroupExact

(* The steps of Stop move no goroutine.                                       *)
LEMMA PoolInvStop ==
  ASSUME PoolInv, StopClose \/ StopWait \/ StopReturn
  PROVE  PoolInv'
<1>1. /\ UNCHANGED <<workers, workChan, wg, spawned, resizes, pc, item, attempt>>
      /\ UNCHANGED <<row, retryCount, deadLetters, outcome, calls>>
      /\ stop' \in StopPC
  BY DEF StopClose, StopWait, StopReturn, StopPC, goVars, dbVars, histVars
<1>2. done' \in BOOLEAN /\ (done => done')
  BY Zenon DEF StopClose, StopWait, StopReturn, PoolInv, TypeOK
<1>3. TypeOK'
  BY <1>1, <1>2 DEF PoolInv, TypeOK, Cap
<1>4. Live' = Live
  BY <1>1 DEF Live
<1> QED
  BY <1>1, <1>2, <1>3, <1>4 DEF PoolInv, SpawnedInOrder, BusyHoldsItem, SleepHasRetry,
       NoneLeftEarly, CountCovered, WaitGroupExact

(* A worker that leaves takes itself out of the count.                        *)
LEMMA PoolInvExit ==
  ASSUME PoolInv, NEW g \in Goroutines, Exit(g)
  PROVE  PoolInv'
<1>1. /\ pc[g] = "select" /\ done
      /\ pc' = [pc EXCEPT ![g] = "exited"]
      /\ wg' = wg - 1
      /\ UNCHANGED <<workers, workChan, done, spawned, resizes, item, attempt>>
      /\ UNCHANGED <<row, retryCount, deadLetters, outcome, calls>>
      /\ stop' \in {stop, "woken"}
  BY DEF Exit, dbVars, histVars
<1>2. pc \in [Goroutines -> PC] /\ wg \in Int
  BY DEF PoolInv, TypeOK
<1>3. TypeOK'
  <2>1. pc' \in [Goroutines -> PC] /\ wg' \in Int /\ stop' \in StopPC
    BY <1>1, <1>2 DEF PoolInv, TypeOK, PC, StopPC
  <2> QED
    BY <1>1, <2>1 DEF PoolInv, TypeOK, Cap
<1>4. SpawnedInOrder' /\ BusyHoldsItem' /\ SleepHasRetry' /\ NoneLeftEarly' /\ CountCovered'
  BY <1>1, <1>2 DEF PoolInv, SpawnedInOrder, BusyHoldsItem, SleepHasRetry, NoneLeftEarly,
       CountCovered, BusyPC
<1>5. WaitGroupExact'
  <2>1. Live' = Live \ {g} /\ g \in Live
    BY <1>1, <1>2 DEF Live
  <2>2. Cardinality(Live \ {g}) = Cardinality(Live) - 1
    BY <2>1, LiveFinite, FS_RemoveElement
  <2> QED
    BY <1>1, <2>1, <2>2 DEF PoolInv, WaitGroupExact
<1> QED
  BY <1>3, <1>4, <1>5 DEF PoolInv

(* Taking an item: the worker holds the head of the channel, no retry used.   *)
LEMMA PoolInvTake ==
  ASSUME PoolInv, NEW g \in Goroutines, Take(g)
  PROVE  PoolInv'
<1> USE PoolAssumption
<1>1. /\ pc[g] = "select" /\ workChan # <<>>
      /\ item' = [item EXCEPT ![g] = Head(workChan)]
      /\ workChan' = Tail(workChan)
      /\ attempt' = [attempt EXCEPT ![g] = 0]
      /\ pc' = [pc EXCEPT ![g] = "handle"]
      /\ UNCHANGED <<workers, done, wg, stop, spawned, resizes>>
      /\ UNCHANGED <<row, retryCount, deadLetters, outcome, calls>>
  BY DEF Take, dbVars, histVars
<1>2. workChan \in Seq(Items) /\ Len(workChan) <= Cap /\ Cap \in Nat
  BY DEF PoolInv, TypeOK, Cap
<1>3. /\ Head(workChan) \in Items /\ Tail(workChan) \in Seq(Items)
      /\ Len(Tail(workChan)) = Len(workChan) - 1 /\ Len(workChan) \in Nat
  BY <1>1, <1>2, HeadTailProperties, LenProperties
<1>4. /\ pc' \in [Goroutines -> PC]
      /\ SpawnedInOrder' /\ NoneLeftEarly' /\ CountCovered' /\ WaitGroupExact'
  BY <1>1, WorkerKeepsCounts DEF PC, BusyPC
<1>5. TypeOK'
  <2>1. workChan' \in Seq(Items) /\ Len(workChan') <= Cap'
    BY <1>1, <1>2, <1>3 DEF Cap
  <2>2. item' \in [Goroutines -> Items \cup {NoItem}] /\ attempt' \in [Goroutines -> 0..MaxRetry]
    BY <1>1, <1>3 DEF PoolInv, TypeOK
  <2> QED
    BY <1>1, <1>4, <2>1, <2>2 DEF PoolInv, TypeOK
<1>6. BusyHoldsItem' /\ SleepHasRetry'
  BY <1>1, <1>3 DEF PoolInv, TypeOK, BusyHoldsItem, SleepHasRetry, BusyPC
<1> QED
  BY <1>4, <1>5, <1>6 DEF PoolInv

(* A busy worker's step that keeps it busy with its item, or puts the item    *)
(* down and returns to the loop, keeps the invariant when it leaves the       *)
(* tables well formed.                                                        *)
LEMMA PoolInvBusy ==
  ASSUME PoolInv, NEW g \in Goroutines, pc[g] \in BusyPC,
         NEW x \in BusyPC \cup {"select"},
         pc' = [pc EXCEPT ![g] = x],
         item' = IF x = "select" THEN [item EXCEPT ![g] = NoItem] ELSE item,
         attempt' \in [Goroutines -> 0..MaxRetry],
         \A h \in Goroutines : pc'[h] = "sleep" => attempt'[h] < MaxRetry,
         UNCHANGED poolVars,
         row' \in [Messages -> Status], retryCount' \in [Messages -> Nat],
         deadLetters' \subseteq Items,
         outcome' \in [Items -> Outcomes], calls' \in [Items -> Nat]
  PROVE  PoolInv'
<1>1. /\ pc' \in [Goroutines -> PC]
      /\ SpawnedInOrder' /\ NoneLeftEarly' /\ CountCovered' /\ WaitGroupExact'
  BY WorkerKeepsCounts DEF PC, BusyPC, poolVars
<1>2. TypeOK'
  <2>1. item' \in [Goroutines -> Items \cup {NoItem}]
    BY DEF PoolInv, TypeOK
  <2> QED
    BY <1>1, <2>1 DEF PoolInv, TypeOK, poolVars, Cap
<1>3. BusyHoldsItem'
  <2>1. pc \in [Goroutines -> PC] /\ item \in [Goroutines -> Items \cup {NoItem}]
    BY DEF PoolInv, TypeOK
  <2>2. \A h \in Goroutines : item[h] # NoItem <=> pc[h] \in BusyPC
    BY DEF PoolInv, BusyHoldsItem
  <2>3. "select" \notin BusyPC
    BY DEF BusyPC
  <2> QED
    BY <2>1, <2>2, <2>3 DEF BusyHoldsItem
<1>4. SleepHasRetry'
  BY DEF SleepHasRetry
<1> QED
  BY <1>1, <1>2, <1>3, <1>4 DEF PoolInv

(* After an error: sleep only with a retry left.                              *)
LEMMA FailStep ==
  ASSUME PoolInv, NEW g \in Goroutines, pc[g] \in BusyPC, Fail(g)
  PROVE  \E x \in BusyPC \cup {"select"} :
           /\ x # "select"
           /\ pc' = [pc EXCEPT ![g] = x]
           /\ \A h \in Goroutines : pc'[h] = "sleep" => attempt[h] < MaxRetry
<1> DEFINE x == IF Exhausted(g) THEN "failed" ELSE "sleep"
<1>1. x \in BusyPC \cup {"select"} /\ x # "select" /\ pc' = [pc EXCEPT ![g] = x]
  BY DEF Fail, BusyPC
<1>2. x = "sleep" => attempt[g] < MaxRetry
  BY PoolAssumption, BusyItem DEF Exhausted
<1>3. \A h \in Goroutines : pc'[h] = "sleep" => attempt[h] < MaxRetry
  BY <1>1, <1>2 DEF PoolInv, TypeOK, SleepHasRetry
<1> QED
  BY <1>1, <1>3

(* handleMessage up to the upsert.                                            *)
LEMMA PoolInvHandle ==
  ASSUME PoolInv, NEW g \in Goroutines, Handle(g)
  PROVE  PoolInv'
<1> USE PoolAssumption
<1>1. pc[g] \in BusyPC /\ item[g] \in Items /\ attempt[g] \in 0..MaxRetry
  BY BusyItem DEF Handle, BusyPC
<1>2. /\ row \in [Messages -> Status] /\ retryCount \in [Messages -> Nat]
      /\ attempt \in [Goroutines -> 0..MaxRetry]
      /\ deadLetters \subseteq Items /\ outcome \in [Items -> Outcomes]
      /\ calls \in [Items -> Nat]
  BY DEF PoolInv, TypeOK
<1>3. /\ UNCHANGED <<item, attempt, deadLetters, outcome>> /\ UNCHANGED poolVars
      /\ calls' \in [Items -> Nat]
  BY <1>1, <1>2 DEF Handle
<1>4. row' \in [Messages -> Status] /\ retryCount' \in [Messages -> Nat]
  <2>1. CASE Upsert(g)
    <3>1. LocalRetryCount(g) \in Nat
      BY <1>1 DEF LocalRetryCount
    <3>2. "processing" \in Status
      BY DEF Status
    <3> QED
      BY <1>2, <2>1, <3>1, <3>2 DEF Upsert
  <2>2. CASE UNCHANGED <<row, retryCount>>
    BY <1>2, <2>2
  <2> QED
    BY <2>1, <2>2 DEF Handle
<1>5. PICK x \in BusyPC \cup {"select"} :
        /\ x # "select"
        /\ pc' = [pc EXCEPT ![g] = x]
        /\ \A h \in Goroutines : pc'[h] = "sleep" => attempt[h] < MaxRetry
  <2>1. CASE pc' = [pc EXCEPT ![g] = "update"]
    <3>1. \A h \in Goroutines : pc'[h] = "sleep" => attempt[h] < MaxRetry
      BY <2>1 DEF PoolInv, TypeOK, SleepHasRetry
    <3> QED
      BY <2>1, <3>1 DEF BusyPC
  <2>2. CASE Fail(g)
    BY <1>1, <2>2, FailStep
  <2> QED
    BY <2>1, <2>2 DEF Handle
<1> QED
  BY <1>1, <1>2, <1>3, <1>4, <1>5, PoolInvBusy

(* handleMessage from the simulated work on.                                  *)
LEMMA PoolInvUpdate ==
  ASSUME PoolInv, NEW g \in Goroutines, Update(g)
  PROVE  PoolInv'
<1>1. pc[g] \in BusyPC /\ item[g] \in Items /\ attempt[g] \in 0..MaxRetry
  BY BusyItem DEF Update, BusyPC
<1>2. /\ row \in [Messages -> Status] /\ retryCount \in [Messages -> Nat]
      /\ attempt \in [Goroutines -> 0..MaxRetry]
      /\ deadLetters \subseteq Items /\ outcome \in [Items -> Outcomes]
      /\ calls \in [Items -> Nat] /\ pc \in [Goroutines -> PC]
      /\ \A h \in Goroutines : pc[h] = "sleep" => attempt[h] < MaxRetry
  BY DEF PoolInv, TypeOK, SleepHasRetry
<1>3. UNCHANGED <<attempt, retryCount, deadLetters, calls>> /\ UNCHANGED poolVars
  BY DEF Update
<1>4. SetStatus(MsgOf[item[g]], "completed") \in [Messages -> Status]
  BY SetStatusType DEF PoolInv, Status
<1>5. CASE row' = SetStatus(MsgOf[item[g]], "completed") /\ Finish(g, "done")
  <2>1. /\ pc' = [pc EXCEPT ![g] = "select"] /\ item' = [item EXCEPT ![g] = NoItem]
        /\ outcome' \in [Items -> Outcomes]
    BY <1>2, <1>5 DEF Finish, Outcomes, Settled
  <2>2. \A h \in Goroutines : pc'[h] = "sleep" => attempt'[h] < MaxRetry
    BY <1>2, <1>3, <2>1
  <2> QED
    BY <1>1, <1>2, <1>3, <1>4, <1>5, <2>1, <2>2, PoolInvBusy
<1>6. CASE /\ row' \in {row, SetStatus(MsgOf[item[g]], "completed")}
           /\ Fail(g) /\ UNCHANGED <<item, outcome>>
  <2>1. PICK x \in BusyPC \cup {"select"} :
          /\ x # "select"
          /\ pc' = [pc EXCEPT ![g] = x]
          /\ \A h \in Goroutines : pc'[h] = "sleep" => attempt[h] < MaxRetry
    BY <1>1, <1>6, FailStep
  <2> QED
    BY <1>1, <1>2, <1>3, <1>4, <1>6, <2>1, PoolInvBusy
<1> QED
  BY <1>5, <1>6 DEF Update

(* The remaining steps of a busy worker.                                      *)
LEMMA PoolInvRest ==
  ASSUME PoolInv, NEW g \in Goroutines,
         Wake(g) \/ GiveUp(g) \/ InsertDeadLetter(g) \/ MarkFailed(g)
  PROVE  PoolInv'
<1> USE PoolAssumption
<1>1. pc[g] \in BusyPC /\ item[g] \in Items /\ attempt[g] \in 0..MaxRetry
  BY BusyItem DEF Wake, GiveUp, InsertDeadLetter, MarkFailed, BusyPC
<1>2. /\ row \in [Messages -> Status] /\ retryCount \in [Messages -> Nat]
      /\ attempt \in [Goroutines -> 0..MaxRetry]
      /\ deadLetters \subseteq Items /\ outcome \in [Items -> Outcomes]
      /\ calls \in [Items -> Nat] /\ pc \in [Goroutines -> PC]
      /\ \A h \in Goroutines : pc[h] = "sleep" => attempt[h] < MaxRetry
  BY DEF PoolInv, TypeOK, SleepHasRetry
<1>3. \A how \in Settled : Finish(g, how) =>
        /\ pc' = [pc EXCEPT ![g] = "select"] /\ item' = [item EXCEPT ![g] = NoItem]
        /\ outcome' \in [Items -> Outcomes]
  <2> SUFFICES ASSUME NEW how \in Settled, Finish(g, how)
               PROVE  /\ pc' = [pc EXCEPT ![g] = "select"]
                      /\ item' = [item EXCEPT ![g] = NoItem]
                      /\ outcome' \in [Items -> Outcomes]
    OBVIOUS
  <2>1. how \in Outcomes
    BY DEF Outcomes
  <2>2. outcome' = [outcome EXCEPT ![item[g]] = how]
    BY DEF Finish
  <2>3. outcome' \in [Items -> Outcomes]
    BY <1>2, <2>1, <2>2
  <2> QED
    BY <2>3 DEF Finish
<1>4. "gaveUp" \in Settled /\ "deadLettered" \in Settled
  BY DEF Settled
<1>5. CASE Wake(g)
  <2>1. /\ pc[g] = "sleep" /\ pc' = [pc EXCEPT ![g] = "handle"]
        /\ attempt' = [attempt EXCEPT ![g] = attempt[g] + 1]
        /\ UNCHANGED <<item, row, retryCount, deadLetters, outcome, calls>>
        /\ UNCHANGED poolVars
    BY <1>5 DEF Wake, dbVars, histVars
  <2>2. attempt' \in [Goroutines -> 0..MaxRetry]
    BY <1>2, <2>1
  <2>3. \A h \in Goroutines : pc'[h] = "sleep" => attempt'[h] < MaxRetry
    BY <1>2, <2>1
  <2>4. "handle" \in BusyPC \cup {"select"}
    BY DEF BusyPC
  <2> QED
    BY <1>1, <1>2, <2>1, <2>2, <2>3, <2>4, PoolInvBusy
<1>6. CASE GiveUp(g)
  <2>1. UNCHANGED <<attempt, row, retryCount, deadLetters, calls>> /\ UNCHANGED poolVars
    BY <1>6 DEF GiveUp, dbVars
  <2>2. CASE pc' = [pc EXCEPT ![g] = "deadLetter"] /\ UNCHANGED <<item, outcome>>
    <3>1. \A h \in Goroutines : pc'[h] = "sleep" => attempt'[h] < MaxRetry
      BY <1>2, <2>1, <2>2
    <3>2. "deadLetter" \in BusyPC \cup {"select"}
      BY DEF BusyPC
    <3> QED
      BY <1>1, <1>2, <2>1, <2>2, <3>1, <3>2, PoolInvBusy
  <2>3. CASE Finish(g, "gaveUp")
    <3>1. /\ pc' = [pc EXCEPT ![g] = "select"] /\ item' = [item EXCEPT ![g] = NoItem]
          /\ outcome' \in [Items -> Outcomes]
      BY <1>3, <1>4, <2>3
    <3>2. \A h \in Goroutines : pc'[h] = "sleep" => attempt'[h] < MaxRetry
      BY <1>2, <2>1, <3>1
    <3> QED
      BY <1>1, <1>2, <2>1, <3>1, <3>2, PoolInvBusy
  <2> QED
    BY <1>6, <2>2, <2>3 DEF GiveUp
<1>7. CASE InsertDeadLetter(g)
  <2>1. /\ pc' = [pc EXCEPT ![g] = "markFailed"]
        /\ UNCHANGED <<item, attempt, row, retryCount, outcome, calls>>
        /\ UNCHANGED poolVars
        /\ deadLetters' \subseteq Items
    BY <1>1, <1>2, <1>7 DEF InsertDeadLetter, histVars
  <2>2. \A h \in Goroutines : pc'[h] = "sleep" => attempt'[h] < MaxRetry
    BY <1>2, <2>1
  <2>3. "markFailed" \in BusyPC \cup {"select"}
    BY DEF BusyPC
  <2> QED
    BY <1>1, <1>2, <2>1, <2>2, <2>3, PoolInvBusy
<1>8. CASE MarkFailed(g)
  <2>1. SetStatus(MsgOf[item[g]], "failed") \in [Messages -> Status]
    BY SetStatusType DEF PoolInv, Status
  <2>2. /\ UNCHANGED <<attempt, retryCount, deadLetters, calls>> /\ UNCHANGED poolVars
        /\ row' \in [Messages -> Status]
        /\ Finish(g, "deadLettered")
    BY <1>2, <1>8, <2>1 DEF MarkFailed
  <2>3. /\ pc' = [pc EXCEPT ![g] = "select"] /\ item' = [item EXCEPT ![g] = NoItem]
        /\ outcome' \in [Items -> Outcomes]
    BY <1>3, <1>4, <2>2
  <2>4. \A h \in Goroutines : pc'[h] = "sleep" => attempt'[h] < MaxRetry
    BY <1>2, <2>2, <2>3
  <2> QED
    BY <1>1, <1>2, <2>2, <2>3, <2>4, PoolInvBusy
<1> QED
  BY <1>5, <1>6, <1>7, <1>8

-----------------------------------------------------------------------------
(* Every step of the pool keeps the invariant.                                *)
LEMMA PoolInvNext == PoolInv /\ [Next]_vars => PoolInv'
<1> SUFFICES ASSUME PoolInv, [Next]_vars PROVE PoolInv'
  OBVIOUS
<1>1. CASE \E i \in Items : SubmitRabbitMQMessage(i)
  BY <1>1, PoolInvSubmit DEF SubmitRabbitMQMessage
<1>2. CASE \E n \in Sizes : Resize(n)
  BY <1>2, PoolInvResize
<1>3. CASE StopClose \/ StopWait \/ StopReturn
  BY <1>3, PoolInvStop
<1>4. CASE \E g \in Goroutines : Worker(g)
  BY <1>4, PoolInvExit, PoolInvTake, PoolInvHandle, PoolInvUpdate, PoolInvRest DEF Worker
<1>5. CASE UNCHANGED vars
  <2>1. UNCHANGED <<workers, workChan, done, wg, stop, spawned, resizes, pc, item, attempt>>
    BY <1>5 DEF vars, poolVars, goVars
  <2>2. UNCHANGED <<row, retryCount, deadLetters, outcome, calls>>
    BY <1>5 DEF vars, dbVars, histVars
  <2>3. TypeOK'
    BY <2>1, <2>2 DEF PoolInv, TypeOK, Cap
  <2>4. Live' = Live
    BY <2>1 DEF Live
  <2> QED
    BY <2>1, <2>3, <2>4 DEF PoolInv, SpawnedInOrder, BusyHoldsItem, SleepHasRetry,
         NoneLeftEarly, CountCovered, WaitGroupExact
<1> QED
  BY <1>1, <1>2, <1>3, <1>4, <1>5 DEF Next

(* The invariant holds in every run of the pool.                              *)
LEMMA PoolInvariant == Spec => []PoolInv
BY PoolInvInit, PoolInvNext, PTL DEF Spec

(* Type correctness of the pool.                                              *)
THEOREM TypeCorrect == Spec => []TypeOK
<1>1. PoolInv => TypeOK
  BY DEF PoolInv
<1> QED
  BY <1>1, PoolInvariant, PTL

(* The WaitGroup that Stop waits on counts exactly the running workers, after *)
(* any number of Resize calls and exits (worker_pool.go Start, Resize,        *)
(* worker).                                                                   *)
THEOREM WaitGroupCounts == Spec => []WaitGroupExact
<1>1. PoolInv => WaitGroupExact
  BY DEF PoolInv
<1> QED
  BY <1>1, PoolInvariant, PTL

(* Until the pool is stopped at least GetWorkerCount workers run.             *)
THEOREM Provisioned == Spec => []NeverUnderProvisioned
<1>1. PoolInv => NeverUnderProvisioned
  <2> SUFFICES ASSUME PoolInv, ~done PROVE workers <= Cardinality(Live)
    BY DEF NeverUnderProvisioned
  <2>1. spawned \in 0..MaxGoroutines /\ MaxGoroutines \in Nat
    BY PoolAssumption DEF PoolInv, TypeOK
  <2>2. Live = 1..spawned
    BY <2>1 DEF PoolInv, SpawnedInOrder, NoneLeftEarly, Live, Goroutines
  <2>3. Cardinality(1..spawned) = spawned
    BY <2>1, FS_Interval
  <2> QED
    BY <2>2, <2>3 DEF PoolInv, CountCovered
<1> QED
  BY <1>1, PoolInvariant, PTL

(* Stop returns only at an instant at which no worker goroutine runs          *)
(* (worker_pool.go Stop), however many calls of Resize race with it.          *)
THEOREM StopQuiet == Spec => StopReturnsQuiet
<1>1. PoolInv /\ [Next]_vars => [(stop # "returned" /\ stop' = "returned") => Live' = {}]_vars
  <2> SUFFICES ASSUME PoolInv, Next, stop # "returned", stop' = "returned"
               PROVE  Live' = {}
    BY DEF vars
  <2>1. wg = 0 /\ UNCHANGED pc
    BY DEF Next, Worker, SubmitRabbitMQMessage, Submit, SubmitAccept, SubmitRefuse, Resize, StopClose, StopWait,
         StopReturn, Exit, Take, Handle, Update, Wake, GiveUp, InsertDeadLetter, MarkFailed,
         poolVars, goVars
  <2>2. Live = {}
    BY <2>1, LiveFinite, FS_EmptySet DEF PoolInv, WaitGroupExact
  <2> QED
    BY <2>1, <2>2 DEF Live
<1> QED
  BY <1>1, PoolInvariant, PTL DEF Spec, StopReturnsQuiet
=============================================================================
