------------------------- MODULE PoolContractProofs -------------------------
(***************************************************************************)
(* Every accepted item is in exactly one place until it is settled, the    *)
(* pool implements the safety part of its contract, the retry budget of an *)
(* item is spent exactly before it is given up, and the row of a handled   *)
(* message stays completed, for every value of the constants.              *)
(***************************************************************************)
EXTENDS WorkerPoolProofs

HandoverInv == PoolInv /\ ItemHeldOnce

-----------------------------------------------------------------------------
(* A step that moves no item keeps every item in its one place.               *)
LEMMA HeldKept ==
  ASSUME HandoverInv, UNCHANGED <<workChan, item, outcome>>
  PROVE  ItemHeldOnce'
BY DEF HandoverInv, ItemHeldOnce, QueuedOnce, HeldOnce, NotBoth, Accounted, Goroutines

(* A worker that puts its item down settles it.                               *)
LEMMA HeldFinish ==
  ASSUME HandoverInv, NEW g \in Goroutines, pc[g] \in BusyPC, NEW how \in Settled,
         Finish(g, how), UNCHANGED workChan
  PROVE  ItemHeldOnce'
<1>1. /\ item[g] \in Items
      /\ outcome' = [outcome EXCEPT ![item[g]] = how]
      /\ item' = [item EXCEPT ![g] = NoItem]
      /\ outcome \in [Items -> Outcomes]
      /\ item \in [Goroutines -> Items \cup {NoItem}]
      /\ how # "accepted"
      /\ workChan \in Seq(Items)
  BY BusyItem DEF HandoverInv, PoolInv, TypeOK, Finish, Settled
<1>2. DOMAIN workChan = 1..Len(workChan) /\ \A k \in DOMAIN workChan : workChan[k] \in Items
  BY <1>1, LenProperties, ElementOfSeq
<1>3. QueuedOnce /\ HeldOnce /\ NotBoth /\ Accounted
  BY DEF HandoverInv, ItemHeldOnce
<1>4. QueuedOnce'
  BY <1>3 DEF QueuedOnce
<1>5. HeldOnce'
  BY <1>1, <1>3 DEF HeldOnce
<1>6. NotBoth'
  BY <1>1, <1>2, <1>3, PoolAssumption DEF NotBoth
<1>7. Accounted'
  <2> SUFFICES ASSUME NEW i \in Items
               PROVE  outcome'[i] = "accepted"
                        <=> (\E k \in DOMAIN workChan : workChan[k] = i)
                            \/ (\E h \in Goroutines : item'[h] = i)
    BY DEF Accounted
  <2>1. outcome[i] = "accepted"
          <=> (\E k \in DOMAIN workChan : workChan[k] = i)
              \/ (\E h \in Goroutines : item[h] = i)
    BY <1>3 DEF Accounted
  <2>2. CASE i = item[g]
    <3>1. ~\E k \in DOMAIN workChan : workChan[k] = i
      BY <1>3, <2>2 DEF NotBoth
    <3>2. ~\E h \in Goroutines : item'[h] = i
      BY <1>1, <1>3, <2>2, PoolAssumption DEF HeldOnce
    <3> QED
      BY <1>1, <2>2, <3>1, <3>2
  <2>3. CASE i # item[g]
    <3>1. outcome'[i] = outcome[i]
      BY <1>1, <2>3
    <3>2. (\E h \in Goroutines : item'[h] = i) <=> (\E h \in Goroutines : item[h] = i)
      BY <1>1, <2>3, PoolAssumption
    <3> QED
      BY <2>1, <3>1, <3>2
  <2> QED
    BY <2>2, <2>3
<1> QED
  BY <1>4, <1>5, <1>6, <1>7 DEF ItemHeldOnce

(* Submit queues an item that is neither queued nor held.                     *)
LEMMA HeldAccept ==
  ASSUME HandoverInv, NEW i \in Items, ~Submitted(i), SubmitAccept(i)
  PROVE  ItemHeldOnce'
<1>1. /\ workChan \in Seq(Items)
      /\ workChan' = Append(workChan, i)
      /\ outcome' = [outcome EXCEPT ![i] = "accepted"]
      /\ outcome \in [Items -> Outcomes]
      /\ outcome[i] # "accepted"
      /\ item' = item /\ item \in [Goroutines -> Items \cup {NoItem}]
  BY DEF HandoverInv, PoolInv, TypeOK, SubmitAccept, Submitted, goVars
<1>2. /\ DOMAIN workChan = 1..Len(workChan) /\ Len(workChan) \in Nat
      /\ DOMAIN workChan' = 1..(Len(workChan) + 1)
      /\ \A k \in 1..Len(workChan) : workChan'[k] = workChan[k]
      /\ workChan'[Len(workChan) + 1] = i
  BY <1>1, LenProperties, AppendProperties
<1>3. QueuedOnce /\ HeldOnce /\ NotBoth /\ Accounted
  BY DEF HandoverInv, ItemHeldOnce
<1>4. /\ \A k \in 1..Len(workChan) : workChan[k] # i
      /\ \A h \in Goroutines : item[h] # i
  BY <1>1, <1>2, <1>3 DEF Accounted
<1>5. QueuedOnce'
  BY <1>2, <1>3, <1>4 DEF QueuedOnce
<1>6. HeldOnce'
  BY <1>1, <1>3 DEF HeldOnce
<1>7. NotBoth'
  BY <1>1, <1>2, <1>3, <1>4 DEF NotBoth
<1>8. Accounted'
  <2> SUFFICES ASSUME NEW j \in Items
               PROVE  outcome'[j] = "accepted"
                        <=> (\E k \in DOMAIN workChan' : workChan'[k] = j)
                            \/ (\E h \in Goroutines : item'[h] = j)
    BY DEF Accounted
  <2>1. (\E k \in DOMAIN workChan' : workChan'[k] = j)
          <=> (\E k \in DOMAIN workChan : workChan[k] = j) \/ j = i
    BY <1>2
  <2>2. outcome'[j] = "accepted" <=> outcome[j] = "accepted" \/ j = i
    BY <1>1
  <2>3. outcome[j] = "accepted"
          <=> (\E k \in DOMAIN workChan : workChan[k] = j)
              \/ (\E h \in Goroutines : item[h] = j)
    BY <1>3 DEF Accounted
  <2> QED
    BY <1>1, <2>1, <2>2, <2>3
<1> QED
  BY <1>5, <1>6, <1>7, <1>8 DEF ItemHeldOnce

(* A refused Submit leaves the item where it was.                             *)
LEMMA HeldRefuse ==
  ASSUME HandoverInv, NEW i \in Items, ~Submitted(i), SubmitRefuse(i)
  PROVE  ItemHeldOnce'
<1>1. /\ UNCHANGED <<workChan, item>>
      /\ outcome' = [outcome EXCEPT ![i] = "refused"]
      /\ outcome \in [Items -> Outcomes]
      /\ outcome[i] # "accepted"
  BY DEF HandoverInv, PoolInv, TypeOK, SubmitRefuse, Submitted, poolVars, goVars
<1>2. \A j \in Items : outcome'[j] = "accepted" <=> outcome[j] = "accepted"
  BY <1>1
<1> QED
  BY <1>1, <1>2 DEF HandoverInv, ItemHeldOnce, QueuedOnce, HeldOnce, NotBoth, Accounted

(* Taking the head of the channel moves one item from the queue to a worker.  *)
LEMMA HeldTake ==
  ASSUME HandoverInv, NEW g \in Goroutines, Take(g)
  PROVE  ItemHeldOnce'
<1>1. /\ workChan \in Seq(Items) /\ workChan # <<>>
      /\ item' = [item EXCEPT ![g] = Head(workChan)]
      /\ workChan' = Tail(workChan)
      /\ item \in [Goroutines -> Items \cup {NoItem}]
      /\ item[g] = NoItem /\ outcome' = outcome
  BY DEF HandoverInv, PoolInv, TypeOK, BusyHoldsItem, BusyPC, Take, histVars
<1>2. /\ DOMAIN workChan = 1..Len(workChan) /\ Len(workChan) \in Nat \ {0}
      /\ DOMAIN workChan' = 1..(Len(workChan) - 1)
      /\ \A k \in 1..(Len(workChan) - 1) : workChan'[k] = workChan[k + 1]
      /\ Head(workChan) = workChan[1] /\ workChan[1] \in Items
      /\ \A k \in 1..Len(workChan) : workChan[k] \in Items
  BY <1>1, LenProperties, HeadTailProperties, EmptySeq, ElementOfSeq
<1>3. QueuedOnce /\ HeldOnce /\ NotBoth /\ Accounted
  BY DEF HandoverInv, ItemHeldOnce
<1>4. \A j, k \in 1..Len(workChan) : workChan[j] = workChan[k] => j = k
  BY <1>2, <1>3 DEF QueuedOnce
<1>5. \A h \in Goroutines, k \in 1..Len(workChan) : workChan[k] # item[h]
  BY <1>2, <1>3 DEF NotBoth
<1>6. QueuedOnce'
  BY <1>2, <1>4 DEF QueuedOnce
<1>7. HeldOnce'
  BY <1>1, <1>2, <1>3, <1>5 DEF HeldOnce
<1>8. NotBoth'
  BY <1>1, <1>2, <1>4, <1>5 DEF NotBoth
<1>9. Accounted'
  <2> SUFFICES ASSUME NEW i \in Items
               PROVE  outcome[i] = "accepted"
                        <=> (\E k \in DOMAIN workChan' : workChan'[k] = i)
                            \/ (\E h \in Goroutines : item'[h] = i)
    BY <1>1 DEF Accounted
  <2>1. outcome[i] = "accepted"
          <=> (\E k \in 1..Len(workChan) : workChan[k] = i)
              \/ (\E h \in Goroutines : item[h] = i)
    BY <1>2, <1>3 DEF Accounted
  <2>2. (\E k \in 1..Len(workChan) : workChan[k] = i)
          <=> workChan[1] = i \/ (\E k \in DOMAIN workChan' : workChan'[k] = i)
    <3>1. ASSUME NEW k \in 1..Len(workChan), workChan[k] = i, k # 1
          PROVE  \E l \in DOMAIN workChan' : workChan'[l] = i
      <4>1. k - 1 \in 1..(Len(workChan) - 1) /\ workChan'[k - 1] = workChan[k]
        BY <1>2, <3>1
      <4> QED
        BY <1>2, <3>1, <4>1
    <3>2. ASSUME NEW l \in DOMAIN workChan', workChan'[l] = i
          PROVE  \E k \in 1..Len(workChan) : workChan[k] = i
      <4>1. l + 1 \in 1..Len(workChan) /\ workChan[l + 1] = i
        BY <1>2, <3>2
      <4> QED
        BY <4>1
    <3>3. 1 \in 1..Len(workChan)
      BY <1>2
    <3> QED
      BY <3>1, <3>2, <3>3
  <2>3. (\E h \in Goroutines : item'[h] = i)
          <=> workChan[1] = i \/ (\E h \in Goroutines : item[h] = i)
    BY <1>1, <1>2, PoolAssumption
  <2> QED
    BY <2>1, <2>2, <2>3
<1> QED
  BY <1>6, <1>7, <1>8, <1>9 DEF ItemHeldOnce

-----------------------------------------------------------------------------
(* What a step does to the items: nothing, one Submit, one Take, or one       *)
(* settlement by the worker that holds the item.                              *)
LEMMA ItemSteps ==
  ASSUME HandoverInv, [Next]_vars
  PROVE  \/ UNCHANGED <<workChan, item, outcome>>
         \/ \E i \in Items : ~Submitted(i) /\ UNCHANGED stop /\ (SubmitAccept(i) \/ SubmitRefuse(i))
         \/ \E g \in Goroutines : Take(g)
         \/ \E g \in Goroutines, how \in Settled :
              pc[g] \in BusyPC /\ Finish(g, how) /\ UNCHANGED <<workChan, stop>>
<1>1. CASE \E i \in Items : SubmitRabbitMQMessage(i)
  BY <1>1 DEF SubmitRabbitMQMessage, Submit, SubmitAccept, SubmitRefuse, poolVars
<1>2. CASE \E n \in Sizes : Resize(n)
  BY <1>2 DEF Resize, histVars
<1>3. CASE StopClose \/ StopWait \/ StopReturn
  BY <1>3 DEF StopClose, StopWait, StopReturn, goVars, histVars
<1>4. ASSUME NEW g \in Goroutines, Worker(g)
      PROVE  \/ UNCHANGED <<workChan, item, outcome>>
             \/ Take(g)
             \/ \E how \in Settled :
                  pc[g] \in BusyPC /\ Finish(g, how) /\ UNCHANGED <<workChan, stop>>
  <2>1. CASE Exit(g) \/ Handle(g) \/ Wake(g) \/ InsertDeadLetter(g)
    BY <2>1 DEF Exit, Handle, Wake, InsertDeadLetter, poolVars, histVars
  <2>2. CASE Update(g) \/ GiveUp(g) \/ MarkFailed(g)
    <3>1. pc[g] \in BusyPC /\ UNCHANGED <<workChan, stop>>
      BY <2>2 DEF Update, GiveUp, MarkFailed, BusyPC, poolVars
    <3>2. UNCHANGED <<item, outcome>> \/ \E how \in Settled : Finish(g, how)
      BY <2>2 DEF Update, GiveUp, MarkFailed, Settled
    <3> QED
      BY <3>1, <3>2
  <2> QED
    BY <1>4, <2>1, <2>2 DEF Worker
<1>5. CASE UNCHANGED vars
  BY <1>5 DEF vars, poolVars, goVars, histVars
<1> QED
  BY <1>1, <1>2, <1>3, <1>4, <1>5 DEF Next

(* The hand-over invariant holds at the start, is kept by every step, and so  *)
(* holds in every run.                                                        *)
LEMMA HandoverInit == Init => HandoverInv
<1> SUFFICES ASSUME Init PROVE ItemHeldOnce
  BY PoolInvInit DEF HandoverInv
<1>1. /\ DOMAIN workChan = {}
      /\ \A g \in Goroutines : item[g] = NoItem
      /\ \A i \in Items : outcome[i] = "unsubmitted"
  BY DEF Init
<1> QED
  BY <1>1, PoolAssumption DEF ItemHeldOnce, QueuedOnce, HeldOnce, NotBoth, Accounted

LEMMA HandoverNext == HandoverInv /\ [Next]_vars => HandoverInv'
<1> SUFFICES ASSUME HandoverInv, [Next]_vars PROVE ItemHeldOnce'
  BY PoolInvNext DEF HandoverInv
<1> QED
  BY ItemSteps, HeldKept, HeldAccept, HeldRefuse, HeldTake, HeldFinish

LEMMA HandoverInvariant == Spec => []HandoverInv
BY HandoverInit, HandoverNext, PTL DEF Spec

(* Every accepted item is in the channel or with one worker, once, until it   *)
(* is settled (worker_pool.go Submit, worker, processWork).                   *)
THEOREM ItemsHeldOnce == Spec => []ItemHeldOnce
<1>1. HandoverInv => ItemHeldOnce
  BY DEF HandoverInv
<1> QED
  BY <1>1, HandoverInvariant, PTL

-----------------------------------------------------------------------------
(* A worker's item counts as held by the pool.                                *)
LEMMA BusyItemAccepted ==
  ASSUME HandoverInv, NEW g \in Goroutines, pc[g] \in BusyPC
  PROVE  item[g] \in Items /\ outcome[item[g]] = "accepted"
<1>1. item[g] \in Items
  BY BusyItem DEF HandoverInv
<1> QED
  BY <1>1 DEF HandoverInv, ItemHeldOnce, Accounted

(* Every step of the pool is a step of the contract or changes nothing the    *)
(* contract sees.                                                             *)
LEMMA ContractStep ==
  ASSUME HandoverInv, [Next]_vars
  PROVE  [Contract!Next]_(Contract!contractVars)
<1> DEFINE st == [i \in Items |-> ItemState(i)]
<1>1. outcome \in [Items -> Outcomes] /\ stop \in StopPC
  BY DEF HandoverInv, PoolInv, TypeOK
<1>2. CASE UNCHANGED <<workChan, item, outcome>>
  <2>1. st' = st
    BY <1>2 DEF ItemState
  <2>2. \/ stop' = stop
        \/ stop = "open" /\ stop' = "closed"
        \/ stop \in {"closed", "waiting", "woken"}
           /\ stop' \in {"waiting", "woken", "returned", "panicked"}
    BY DEF Next, Worker, SubmitRabbitMQMessage, Submit, SubmitAccept, SubmitRefuse, Resize, StopClose, StopWait,
         StopReturn, Exit, Take, Handle, Update, Wake, GiveUp, InsertDeadLetter, MarkFailed,
         poolVars, vars
  <2>3. \/ Phase' = Phase
        \/ Phase = "open" /\ Phase' = "stopping"
        \/ Phase = "stopping" /\ Phase' \in {"stopped", "panicked"}
    BY <2>2 DEF Phase
  <2> QED
    BY <2>1, <2>3 DEF Contract!Next, Contract!StopBegins, Contract!StopEnds,
         Contract!contractVars
<1>3. ASSUME NEW i \in Items, ~Submitted(i), UNCHANGED stop, SubmitAccept(i)
      PROVE  Contract!Accept(i)
  <2>1. outcome' = [outcome EXCEPT ![i] = "accepted"] /\ Phase' = Phase
    BY <1>3 DEF SubmitAccept, Phase
  <2>2. st[i] = "new"
    BY <1>1, <1>3 DEF Submitted, ItemState, Outcomes, Settled
  <2>3. st' = [st EXCEPT ![i] = "held"]
    <3>1. ItemState(i)' = "held"
      BY <1>1, <2>1 DEF ItemState, Settled
    <3>2. \A j \in Items \ {i} : ItemState(j)' = ItemState(j)
      BY <1>1, <2>1 DEF ItemState
    <3> QED
      BY <3>1, <3>2
  <2> QED
    BY <2>1, <2>2, <2>3 DEF Contract!Accept
<1>4. ASSUME NEW i \in Items, ~Submitted(i), UNCHANGED stop, SubmitRefuse(i)
      PROVE  UNCHANGED Contract!contractVars
  <2>1. outcome' = [outcome EXCEPT ![i] = "refused"] /\ Phase' = Phase
    BY <1>4 DEF SubmitRefuse, Phase
  <2>2. st' = st
    <3>1. ItemState(i)' = "new" /\ ItemState(i) = "new"
      BY <1>1, <1>4, <2>1 DEF Submitted, ItemState, Settled
    <3>2. \A j \in Items \ {i} : ItemState(j)' = ItemState(j)
      BY <1>1, <2>1 DEF ItemState
    <3> QED
      BY <3>1, <3>2
  <2> QED
    BY <2>1, <2>2 DEF Contract!contractVars
<1>5. ASSUME NEW g \in Goroutines, Take(g)
      PROVE  UNCHANGED Contract!contractVars
  <2>1. UNCHANGED <<outcome, stop>>
    BY <1>5 DEF Take, histVars
  <2> QED
    BY <2>1 DEF Contract!contractVars, ItemState, Phase
<1>6. ASSUME NEW g \in Goroutines, NEW how \in Settled,
             pc[g] \in BusyPC, Finish(g, how), UNCHANGED <<workChan, stop>>
      PROVE  item[g] \in Items /\ Contract!Settle(item[g])
  <2>1. /\ item[g] \in Items /\ outcome[item[g]] = "accepted"
        /\ outcome' = [outcome EXCEPT ![item[g]] = how]
        /\ Phase' = Phase
    BY <1>6, BusyItemAccepted DEF Finish, Phase
  <2>2. st[item[g]] = "held"
    BY <2>1 DEF ItemState, Settled
  <2>3. st' = [st EXCEPT ![item[g]] = "settled"]
    <3>1. \A j \in Items : j = item[g] => ItemState(j)' = "settled"
      BY <1>1, <2>1 DEF ItemState, Settled
    <3>2. \A j \in Items : j # item[g] => ItemState(j)' = ItemState(j)
      BY <1>1, <2>1 DEF ItemState
    <3> QED
      BY <2>1, <3>1, <3>2
  <2> QED
    BY <2>1, <2>2, <2>3 DEF Contract!Settle
<1> QED
  BY ItemSteps, <1>2, <1>3, <1>4, <1>5, <1>6 DEF Contract!Next

(* The pool implements the safety part of its contract: an item is taken over *)
(* at most once and settled at most once, and Stop runs through its phases    *)
(* once.                                                                      *)
THEOREM ContractKept == Spec => Contract!SafeSpec
<1>1. Init => Contract!Init
  <2> SUFFICES ASSUME Init PROVE Contract!Init
    OBVIOUS
  <2>1. \A i \in Items : outcome[i] = "unsubmitted"
    BY DEF Init
  <2> QED
    BY <2>1 DEF Init, Contract!Init, ItemState, Settled, Phase
<1>2. HandoverInv /\ [Next]_vars => [Contract!Next]_(Contract!contractVars)
  BY ContractStep
<1> QED
  BY <1>1, <1>2, HandoverInvariant, PTL DEF Spec, Contract!SafeSpec

-----------------------------------------------------------------------------
(* The calls of handleMessage spent on an item, told from where it is, and    *)
(* what the row of a message has while its one item is being worked on.       *)
NewUncalled    == \A i \in Items : ~Submitted(i) => calls[i] = 0
QueuedUncalled == \A k \in DOMAIN workChan : calls[workChan[k]] = 0
CallsCounted ==
  \A g \in Goroutines :
    /\ pc[g] = "handle" => calls[item[g]] = attempt[g]
    /\ pc[g] \in {"update", "sleep"} => calls[item[g]] = attempt[g] + 1
    /\ pc[g] \in {"failed", "deadLetter", "markFailed"} => calls[item[g]] = MaxRetry + 1
UpsertRecorded ==
  \A g \in Goroutines :
    pc[g] = "update" /\ DeliveredOnce(item[g]) =>
      /\ row[MsgOf[item[g]]] # "absent"
      /\ retryCount[MsgOf[item[g]]] = LocalRetryCount(g)

BudgetInv == NewUncalled /\ QueuedUncalled /\ CallsCounted /\ RetryBudgetSpent
RetryInv  == HandoverInv /\ BudgetInv /\ UpsertRecorded /\ CompletedIsRecorded

(* A busy worker is alone with its item.                                      *)
LEMMA Alone ==
  ASSUME HandoverInv, NEW g \in Goroutines, pc[g] \in BusyPC
  PROVE  /\ item[g] \in Items /\ outcome[item[g]] = "accepted" /\ Submitted(item[g])
         /\ attempt[g] \in 0..MaxRetry
         /\ \A h \in Goroutines \ {g} : pc[h] \in BusyPC =>
              item[h] \in Items /\ item[h] # item[g] /\ Submitted(item[h])
         /\ \A k \in DOMAIN workChan : workChan[k] \in Items /\ workChan[k] # item[g]
<1>1. item[g] \in Items /\ outcome[item[g]] = "accepted" /\ attempt[g] \in 0..MaxRetry
  BY BusyItemAccepted, BusyItem DEF HandoverInv
<1>2. \A h \in Goroutines : pc[h] \in BusyPC => item[h] \in Items /\ Submitted(item[h])
  BY BusyItemAccepted DEF Submitted
<1>3. \A h \in Goroutines \ {g} : item[h] # item[g]
  BY <1>1, PoolAssumption DEF HandoverInv, ItemHeldOnce, HeldOnce
<1>4. \A k \in DOMAIN workChan : workChan[k] \in Items /\ workChan[k] # item[g]
  BY LenProperties, ElementOfSeq DEF HandoverInv, ItemHeldOnce, NotBoth, PoolInv, TypeOK
<1> QED
  BY <1>1, <1>2, <1>3, <1>4 DEF Submitted

(* What a step of a busy worker leaves alone: the other workers, the items    *)
(* and the rows that are not its own.                                         *)
OwnStep(g) ==
  /\ workChan' = workChan
  /\ \A h \in Goroutines \ {g} : pc'[h] = pc[h] /\ item'[h] = item[h] /\ attempt'[h] = attempt[h]
  /\ \A i \in Items \ {item[g]} :
       /\ calls'[i] = calls[i] /\ outcome'[i] = outcome[i]
       /\ i \in deadLetters' <=> i \in deadLetters
  /\ \A m \in Messages \ {MsgOf[item[g]]} : row'[m] = row[m] /\ retryCount'[m] = retryCount[m]
  /\ outcome'[item[g]] \notin {"unsubmitted", "refused"}

LEMMA OwnSteps ==
  ASSUME HandoverInv, NEW g \in Goroutines, pc[g] \in BusyPC,
         Handle(g) \/ Update(g) \/ Wake(g) \/ GiveUp(g) \/ InsertDeadLetter(g) \/ MarkFailed(g)
  PROVE  OwnStep(g)
<1>1. item[g] \in Items /\ Submitted(item[g]) /\ MsgOf[item[g]] \in Messages
  BY Alone, PoolAssumption
<1>2. /\ pc \in [Goroutines -> PC] /\ item \in [Goroutines -> Items \cup {NoItem}]
      /\ attempt \in [Goroutines -> 0..MaxRetry] /\ outcome \in [Items -> Outcomes]
      /\ calls \in [Items -> Nat] /\ row \in [Messages -> Status]
      /\ retryCount \in [Messages -> Nat] /\ deadLetters \subseteq Items
  BY DEF HandoverInv, PoolInv, TypeOK
<1>3. workChan' = workChan
  BY DEF Handle, Update, Wake, GiveUp, InsertDeadLetter, MarkFailed, poolVars
<1>4. \A h \in Goroutines \ {g} : pc'[h] = pc[h] /\ item'[h] = item[h] /\ attempt'[h] = attempt[h]
  BY <1>2 DEF Handle, Update, Wake, GiveUp, InsertDeadLetter, MarkFailed, Fail, Finish
<1>5. \A i \in Items \ {item[g]} : i \in deadLetters' <=> i \in deadLetters
  BY DEF Handle, Update, Wake, GiveUp, InsertDeadLetter, MarkFailed, dbVars
<1>6. \A i \in Items \ {item[g]} : calls'[i] = calls[i] /\ outcome'[i] = outcome[i]
  BY <1>1, <1>2 DEF Handle, Update, Wake, GiveUp, InsertDeadLetter, MarkFailed, Finish, histVars
<1>7. \A m \in Messages \ {MsgOf[item[g]]} : row'[m] = row[m] /\ retryCount'[m] = retryCount[m]
  BY <1>1, <1>2 DEF Handle, Upsert, Update, SetStatus, Wake, GiveUp, InsertDeadLetter, MarkFailed, dbVars
<1>8. outcome'[item[g]] \notin {"unsubmitted", "refused"}
  BY <1>1, <1>2 DEF Submitted, Handle, Update, Wake, GiveUp, InsertDeadLetter, MarkFailed, Finish, histVars
<1> QED
  BY <1>3, <1>4, <1>5, <1>6, <1>7, <1>8 DEF OwnStep

(* So the budget has to be looked at for the worker's own item alone.         *)
LEMMA OwnBudget ==
  ASSUME RetryInv, NEW g \in Goroutines, pc[g] \in BusyPC, OwnStep(g),
         calls'[item[g]] <= MaxRetry + 1,
         item[g] \in deadLetters' \/ outcome'[item[g]] \in {"gaveUp", "deadLettered"} =>
           calls'[item[g]] = MaxRetry + 1,
         pc'[g] = "handle" => calls'[item'[g]] = attempt'[g],
         pc'[g] \in {"update", "sleep"} => calls'[item'[g]] = attempt'[g] + 1,
         pc'[g] \in {"failed", "deadLetter", "markFailed"} => calls'[item'[g]] = MaxRetry + 1
  PROVE  BudgetInv'
<1> DEFINE i == item[g]
<1>1. /\ i \in Items /\ Submitted(i)
      /\ \A h \in Goroutines \ {g} : pc[h] \in BusyPC => item[h] \in Items /\ item[h] # i
      /\ \A k \in DOMAIN workChan : workChan[k] \in Items /\ workChan[k] # i
  BY Alone DEF RetryInv
<1>2. NewUncalled'
  BY <1>1 DEF OwnStep, RetryInv, BudgetInv, NewUncalled, Submitted
<1>3. QueuedUncalled'
  BY <1>1 DEF OwnStep, RetryInv, BudgetInv, QueuedUncalled
<1>4. CallsCounted'
  <2>1. ASSUME NEW h \in Goroutines \ {g}
        PROVE  /\ pc'[h] = "handle" => calls'[item'[h]] = attempt'[h]
               /\ pc'[h] \in {"update", "sleep"} => calls'[item'[h]] = attempt'[h] + 1
               /\ pc'[h] \in {"failed", "deadLetter", "markFailed"} => calls'[item'[h]] = MaxRetry + 1
    <3>1. pc'[h] = pc[h] /\ item'[h] = item[h] /\ attempt'[h] = attempt[h]
      BY DEF OwnStep
    <3>2. pc[h] \in BusyPC => calls'[item[h]] = calls[item[h]]
      BY <1>1 DEF OwnStep
    <3> QED
      BY <3>1, <3>2 DEF RetryInv, BudgetInv, CallsCounted, BusyPC
  <2> QED
    BY <2>1 DEF CallsCounted
<1>5. RetryBudgetSpent'
  <2>1. \A j \in Items \ {i} :
          /\ calls'[j] <= MaxRetry + 1
          /\ outcome'[j] \in {"gaveUp", "deadLettered"} => calls'[j] = MaxRetry + 1
          /\ j \in deadLetters' => calls'[j] = MaxRetry + 1
    BY DEF OwnStep, RetryInv, BudgetInv, RetryBudgetSpent
  <2> QED
    BY <2>1 DEF RetryBudgetSpent
<1> QED
  BY <1>2, <1>3, <1>4, <1>5 DEF BudgetInv

(* A message delivered once is written by the worker of its one item only.    *)
LEMMA OwnRecord ==
  ASSUME RetryInv, NEW g \in Goroutines, pc[g] \in BusyPC, OwnStep(g),
         pc'[g] = "update" => /\ item'[g] = item[g]
                              /\ row'[MsgOf[item[g]]] # "absent"
                              /\ retryCount'[MsgOf[item[g]]] = LocalRetryCount(g)',
         outcome'[item[g]] = "done" /\ DeliveredOnce(item[g]) =>
           /\ row'[MsgOf[item[g]]] = "completed"
           /\ retryCount'[MsgOf[item[g]]] =
                IF calls'[item[g]] = 1 THEN RetryHeader[item[g]] ELSE calls'[item[g]] - 1
  PROVE  UpsertRecorded' /\ CompletedIsRecorded'
<1> DEFINE i == item[g]
<1>1. /\ i \in Items /\ Submitted(i) /\ outcome[i] = "accepted"
      /\ \A h \in Goroutines \ {g} : pc[h] \in BusyPC => item[h] \in Items /\ item[h] # i /\ Submitted(item[h])
  BY Alone DEF RetryInv
<1>2. \A j \in Items : Submitted(j)' <=> Submitted(j)
  BY <1>1 DEF OwnStep, Submitted
<1>3. \A j \in Items : DeliveredOnce(j)' <=> DeliveredOnce(j)
  BY <1>2 DEF DeliveredOnce
<1>4. \A j \in Items \ {i} : DeliveredOnce(j) => MsgOf[j] # MsgOf[i] /\ MsgOf[j] \in Messages
  BY <1>1, PoolAssumption DEF DeliveredOnce
<1>5. UpsertRecorded'
  <2>1. ASSUME NEW h \in Goroutines \ {g}, pc'[h] = "update", DeliveredOnce(item[h])'
        PROVE  row'[MsgOf[item'[h]]] # "absent" /\ retryCount'[MsgOf[item'[h]]] = LocalRetryCount(h)'
    <3>1. pc[h] = "update" /\ item'[h] = item[h] /\ attempt'[h] = attempt[h]
      BY <2>1 DEF OwnStep
    <3>2. item[h] \in Items \ {i}
      BY <1>1, <3>1 DEF BusyPC
    <3>3. DeliveredOnce(item[h])
      BY <1>3, <2>1, <3>1, <3>2
    <3>4. row'[MsgOf[item[h]]] = row[MsgOf[item[h]]] /\ retryCount'[MsgOf[item[h]]] = retryCount[MsgOf[item[h]]]
      BY <1>4, <3>2, <3>3 DEF OwnStep
    <3>5. LocalRetryCount(h)' = LocalRetryCount(h)
      BY <3>1 DEF LocalRetryCount
    <3> QED
      BY <3>1, <3>3, <3>4, <3>5 DEF RetryInv, UpsertRecorded
  <2> QED
    BY <2>1 DEF UpsertRecorded
<1>6. CompletedIsRecorded'
  <2>1. ASSUME NEW j \in Items \ {i}, outcome'[j] = "done", DeliveredOnce(j)'
        PROVE  /\ row'[MsgOf[j]] = "completed"
               /\ retryCount'[MsgOf[j]] = IF calls'[j] = 1 THEN RetryHeader[j] ELSE calls'[j] - 1
    <3>1. outcome[j] = "done" /\ calls'[j] = calls[j] /\ DeliveredOnce(j)
      BY <1>3, <2>1 DEF OwnStep
    <3>2. row'[MsgOf[j]] = row[MsgOf[j]] /\ retryCount'[MsgOf[j]] = retryCount[MsgOf[j]]
      BY <1>4, <3>1 DEF OwnStep
    <3> QED
      BY <3>1, <3>2 DEF RetryInv, CompletedIsRecorded
  <2> QED
    BY <1>1, <1>3, <2>1 DEF CompletedIsRecorded
<1> QED
  BY <1>5, <1>6

(* The steps of a busy worker: every call of handleMessage is one attempt.    *)
LEMMA RetryBusy ==
  ASSUME RetryInv, NEW g \in Goroutines,
         Handle(g) \/ Update(g) \/ Wake(g) \/ GiveUp(g) \/ InsertDeadLetter(g) \/ MarkFailed(g)
  PROVE  BudgetInv' /\ UpsertRecorded' /\ CompletedIsRecorded'
<1> DEFINE i == item[g]
           m == MsgOf[item[g]]
<1> USE PoolAssumption
<1>1. HandoverInv /\ pc[g] \in BusyPC
  BY DEF RetryInv, Handle, Update, Wake, GiveUp, InsertDeadLetter, MarkFailed, BusyPC
<1>2. OwnStep(g)
  BY <1>1, OwnSteps
<1>3. /\ i \in Items /\ outcome[i] = "accepted" /\ attempt[g] \in 0..MaxRetry /\ m \in Messages
  BY <1>1, Alone
<1>4. /\ pc \in [Goroutines -> PC] /\ item \in [Goroutines -> Items \cup {NoItem}]
      /\ attempt \in [Goroutines -> 0..MaxRetry] /\ outcome \in [Items -> Outcomes]
      /\ calls \in [Items -> Nat] /\ row \in [Messages -> Status]
      /\ retryCount \in [Messages -> Nat] /\ deadLetters \subseteq Items
  BY <1>1 DEF HandoverInv, PoolInv, TypeOK
<1>5. /\ pc[g] = "handle" => calls[i] = attempt[g]
      /\ pc[g] \in {"update", "sleep"} => calls[i] = attempt[g] + 1
      /\ pc[g] \in {"failed", "deadLetter", "markFailed"} => calls[i] = MaxRetry + 1
      /\ calls[i] <= MaxRetry + 1 /\ (i \in deadLetters => calls[i] = MaxRetry + 1)
  BY <1>3 DEF RetryInv, BudgetInv, CallsCounted, RetryBudgetSpent
<1>6. Fail(g) => /\ pc'[g] \in {"failed", "sleep"}
                 /\ pc'[g] = "failed" => attempt[g] = MaxRetry
  BY <1>3, <1>4 DEF Fail, Exhausted
<1>7. CASE Handle(g)
  <2>1. /\ pc[g] = "handle" /\ calls'[i] = calls[i] + 1
        /\ item' = item /\ attempt' = attempt /\ deadLetters' = deadLetters /\ outcome' = outcome
    BY <1>3, <1>4, <1>7 DEF Handle
  <2>2. \/ Upsert(g) /\ pc'[g] = "update"
        \/ Fail(g)
    BY <1>4, <1>7 DEF Handle
  <2>3. calls'[i] = attempt[g] + 1 /\ calls'[i] <= MaxRetry + 1 /\ i \notin deadLetters
    BY <1>3, <1>5, <2>1
  <2>4. /\ pc'[g] # "handle"
        /\ pc'[g] \in {"update", "sleep", "failed"}
        /\ pc'[g] = "failed" => calls'[i] = MaxRetry + 1
    BY <1>6, <2>2, <2>3
  <2>5. BudgetInv'
    BY <1>1, <1>2, <1>3, <2>1, <2>3, <2>4, OwnBudget
  <2>6. pc'[g] = "update" => row'[m] # "absent" /\ retryCount'[m] = LocalRetryCount(g)'
    <3> SUFFICES ASSUME pc'[g] = "update"
                 PROVE  row'[m] # "absent" /\ retryCount'[m] = LocalRetryCount(g)'
      OBVIOUS
    <3>1. Upsert(g)
      BY <1>6, <2>2
    <3>2. LocalRetryCount(g)' = LocalRetryCount(g)
      BY <2>1 DEF LocalRetryCount
    <3> QED
      BY <1>3, <1>4, <3>1, <3>2 DEF Upsert
  <2> QED
    BY <1>1, <1>2, <1>3, <2>1, <2>5, <2>6, OwnRecord
<1>8. CASE Update(g)
  <2>1. /\ pc[g] = "update" /\ attempt' = attempt /\ retryCount' = retryCount
        /\ deadLetters' = deadLetters /\ calls' = calls /\ calls[i] = attempt[g] + 1
    BY <1>5, <1>8 DEF Update
  <2>2. i \in deadLetters => calls[i] = MaxRetry + 1
    BY <1>5
  <2>3. CASE row' = SetStatus(m, "completed") /\ Finish(g, "done")
    <3>1. pc'[g] = "select" /\ outcome'[i] = "done"
      BY <1>3, <1>4, <2>3 DEF Finish
    <3>2. BudgetInv'
      BY <1>1, <1>2, <1>5, <2>1, <3>1, OwnBudget
    <3>3. DeliveredOnce(i) => row'[m] = "completed" /\ retryCount[m] = LocalRetryCount(g)
      BY <1>3, <1>4, <2>1, <2>3 DEF RetryInv, UpsertRecorded, SetStatus
    <3>4. LocalRetryCount(g) = IF calls[i] = 1 THEN RetryHeader[i] ELSE calls[i] - 1
      BY <1>3, <2>1 DEF LocalRetryCount
    <3> QED
      BY <1>1, <1>2, <2>1, <3>1, <3>2, <3>3, <3>4, OwnRecord
  <2>4. CASE Fail(g) /\ UNCHANGED <<item, outcome>>
    <3>1. pc'[g] = "failed" => calls[i] = MaxRetry + 1
      BY <1>6, <2>1, <2>4
    <3>2. BudgetInv'
      BY <1>1, <1>2, <1>3, <1>5, <1>6, <2>1, <2>4, <3>1, OwnBudget
    <3> QED
      BY <1>1, <1>2, <1>3, <1>6, <2>4, <3>2, OwnRecord
  <2> QED
    BY <1>8, <2>3, <2>4 DEF Update
<1>9. CASE Wake(g)
  <2>1. /\ pc[g] = "sleep" /\ pc'[g] = "handle" /\ attempt'[g] = attempt[g] + 1
        /\ item' = item /\ deadLetters' = deadLetters /\ outcome' = outcome /\ calls' = calls
    BY <1>4, <1>9 DEF Wake, dbVars, histVars
  <2>2. BudgetInv'
    BY <1>1, <1>2, <1>3, <1>5, <2>1, OwnBudget
  <2> QED
    BY <1>1, <1>2, <1>3, <2>1, <2>2, OwnRecord
<1>10. CASE GiveUp(g) \/ InsertDeadLetter(g) \/ MarkFailed(g)
  <2>1. /\ calls[i] = MaxRetry + 1 /\ calls' = calls
        /\ pc'[g] \in {"select", "deadLetter", "markFailed"}
        /\ pc'[g] # "select" => item' = item
        /\ outcome'[i] # "done"
    <3>1. calls[i] = MaxRetry + 1 /\ calls' = calls
      BY <1>5, <1>10 DEF GiveUp, InsertDeadLetter, MarkFailed, histVars
    <3>2. /\ pc'[g] \in {"select", "deadLetter", "markFailed"}
          /\ pc'[g] # "select" => item' = item
          /\ outcome'[i] # "done"
      BY <1>3, <1>4, <1>10 DEF GiveUp, InsertDeadLetter, MarkFailed, Finish, histVars
    <3> QED
      BY <3>1, <3>2
  <2>2. calls'[i] = MaxRetry + 1 /\ calls'[i] <= MaxRetry + 1
    BY <2>1
  <2>3. BudgetInv'
    BY <1>1, <1>2, <2>1, <2>2, OwnBudget
  <2> QED
    BY <1>1, <1>2, <2>1, <2>3, OwnRecord
<1> QED
  BY <1>7, <1>8, <1>9, <1>10

(* The steps that neither handle nor settle an item.                          *)
LEMMA RetryQuiet ==
  ASSUME RetryInv,
         workChan' = workChan, item' = item, attempt' = attempt, row' = row,
         retryCount' = retryCount, deadLetters' = deadLetters, outcome' = outcome, calls' = calls,
         \A g \in Goroutines : pc'[g] \in BusyPC => pc'[g] = pc[g]
  PROVE  BudgetInv' /\ UpsertRecorded' /\ CompletedIsRecorded'
<1>1. \A i : (Submitted(i)' <=> Submitted(i)) /\ (DeliveredOnce(i)' <=> DeliveredOnce(i))
  BY DEF Submitted, DeliveredOnce
<1>2. NewUncalled' /\ QueuedUncalled' /\ RetryBudgetSpent'
  BY <1>1 DEF RetryInv, BudgetInv, NewUncalled, QueuedUncalled, RetryBudgetSpent
<1>3. CallsCounted'
  BY DEF RetryInv, BudgetInv, CallsCounted, BusyPC
<1>4. UpsertRecorded'
  <2>1. \A g \in Goroutines : LocalRetryCount(g)' = LocalRetryCount(g) /\ (DeliveredOnce(item[g])' <=> DeliveredOnce(item[g]))
    BY DEF LocalRetryCount, DeliveredOnce, Submitted
  <2> QED
    BY <2>1 DEF RetryInv, UpsertRecorded, BusyPC
<1>5. CompletedIsRecorded'
  BY <1>1 DEF RetryInv, CompletedIsRecorded
<1> QED
  BY <1>2, <1>3, <1>4, <1>5 DEF BudgetInv

(* Submit and Take move an item nobody has handled yet.                       *)
LEMMA RetrySubmit ==
  ASSUME RetryInv, NEW i \in Items, ~Submitted(i), SubmitAccept(i) \/ SubmitRefuse(i)
  PROVE  BudgetInv' /\ UpsertRecorded' /\ CompletedIsRecorded'
<1>1. /\ pc' = pc /\ item' = item /\ attempt' = attempt /\ row' = row /\ retryCount' = retryCount
      /\ deadLetters' = deadLetters /\ calls' = calls
      /\ workChan' \in {workChan, Append(workChan, i)}
      /\ \E x \in {"accepted", "refused"} : outcome' = [outcome EXCEPT ![i] = x]
  BY DEF SubmitAccept, SubmitRefuse, poolVars, goVars, dbVars
<1>2. workChan \in Seq(Items) /\ outcome \in [Items -> Outcomes]
  BY DEF RetryInv, HandoverInv, PoolInv, TypeOK
<1>3. /\ outcome'[i] \in {"accepted", "refused"}
      /\ \A j \in Items \ {i} : outcome'[j] = outcome[j]
  BY <1>1, <1>2
<1>4. calls[i] = 0 /\ \A j \in Items : ~Submitted(j)' => ~Submitted(j)
  BY <1>3 DEF RetryInv, BudgetInv, NewUncalled, Submitted
<1>5. NewUncalled'
  BY <1>1, <1>4 DEF RetryInv, BudgetInv, NewUncalled
<1>6. QueuedUncalled'
  <2>1. /\ DOMAIN workChan = 1..Len(workChan) /\ Len(workChan) \in Nat
        /\ DOMAIN Append(workChan, i) = 1..(Len(workChan) + 1)
        /\ \A k \in 1..Len(workChan) : Append(workChan, i)[k] = workChan[k]
        /\ Append(workChan, i)[Len(workChan) + 1] = i
    BY <1>2, LenProperties, AppendProperties
  <2> QED
    BY <1>1, <1>4, <2>1 DEF RetryInv, BudgetInv, QueuedUncalled
<1>7. CallsCounted'
  BY <1>1 DEF RetryInv, BudgetInv, CallsCounted
<1>8. RetryBudgetSpent'
  BY <1>1, <1>3 DEF RetryInv, BudgetInv, RetryBudgetSpent
<1>9. \A j \in Items : DeliveredOnce(j)' => DeliveredOnce(j)
  BY <1>4 DEF DeliveredOnce
<1>10. UpsertRecorded'
  <2> SUFFICES ASSUME NEW g \in Goroutines, pc[g] = "update", DeliveredOnce(item[g])'
               PROVE  row[MsgOf[item[g]]] # "absent" /\ retryCount[MsgOf[item[g]]] = LocalRetryCount(g)'
    BY <1>1 DEF UpsertRecorded
  <2>1. item[g] \in Items
    BY Alone DEF RetryInv, BusyPC
  <2>2. DeliveredOnce(item[g])
    BY <1>1, <1>4, <2>1 DEF DeliveredOnce
  <2>3. LocalRetryCount(g)' = LocalRetryCount(g)
    BY <1>1 DEF LocalRetryCount
  <2> QED
    BY <2>2, <2>3 DEF RetryInv, UpsertRecorded
<1>11. CompletedIsRecorded'
  BY <1>1, <1>3, <1>9 DEF RetryInv, CompletedIsRecorded
<1> QED
  BY <1>5, <1>6, <1>7, <1>8, <1>10, <1>11 DEF BudgetInv

LEMMA RetryTake ==
  ASSUME RetryInv, NEW g \in Goroutines, Take(g)
  PROVE  BudgetInv' /\ UpsertRecorded' /\ CompletedIsRecorded'
<1>1. /\ workChan # <<>>
      /\ item' = [item EXCEPT ![g] = Head(workChan)] /\ workChan' = Tail(workChan)
      /\ attempt' = [attempt EXCEPT ![g] = 0] /\ pc' = [pc EXCEPT ![g] = "handle"]
      /\ row' = row /\ retryCount' = retryCount
      /\ deadLetters' = deadLetters /\ calls' = calls /\ outcome' = outcome
  BY DEF Take, dbVars, histVars
<1>2. /\ workChan \in Seq(Items) /\ pc \in [Goroutines -> PC]
      /\ item \in [Goroutines -> Items \cup {NoItem}] /\ attempt \in [Goroutines -> 0..MaxRetry]
  BY DEF RetryInv, HandoverInv, PoolInv, TypeOK
<1>3. /\ DOMAIN workChan = 1..Len(workChan) /\ Len(workChan) \in Nat \ {0}
      /\ DOMAIN workChan' = 1..(Len(workChan) - 1)
      /\ \A k \in 1..(Len(workChan) - 1) : workChan'[k] = workChan[k + 1]
      /\ Head(workChan) = workChan[1]
  BY <1>1, <1>2, LenProperties, HeadTailProperties, EmptySeq
<1>4. /\ pc'[g] = "handle" /\ attempt'[g] = 0 /\ item'[g] = workChan[1] /\ calls[workChan[1]] = 0
      /\ \A h \in Goroutines \ {g} : pc'[h] = pc[h] /\ item'[h] = item[h] /\ attempt'[h] = attempt[h]
  <2>1. calls[workChan[1]] = 0
    BY <1>3 DEF RetryInv, BudgetInv, QueuedUncalled
  <2> QED
    BY <1>1, <1>2, <1>3, <2>1, PoolAssumption
<1>5. \A i : (Submitted(i)' <=> Submitted(i)) /\ (DeliveredOnce(i)' <=> DeliveredOnce(i))
  BY <1>1 DEF Submitted, DeliveredOnce
<1>6. NewUncalled' /\ RetryBudgetSpent'
  BY <1>1, <1>5 DEF RetryInv, BudgetInv, NewUncalled, RetryBudgetSpent
<1>7. QueuedUncalled'
  BY <1>1, <1>3 DEF RetryInv, BudgetInv, QueuedUncalled
<1>8. CallsCounted'
  BY <1>1, <1>4 DEF RetryInv, BudgetInv, CallsCounted
<1>9. UpsertRecorded'
  <2> SUFFICES ASSUME NEW h \in Goroutines \ {g}, pc[h] = "update", DeliveredOnce(item[h])'
               PROVE  row[MsgOf[item[h]]] # "absent" /\ retryCount[MsgOf[item[h]]] = LocalRetryCount(h)'
    BY <1>1, <1>4 DEF UpsertRecorded
  <2>1. LocalRetryCount(h)' = LocalRetryCount(h) /\ DeliveredOnce(item[h])
    BY <1>1, <1>4 DEF LocalRetryCount, DeliveredOnce, Submitted
  <2> QED
    BY <2>1 DEF RetryInv, UpsertRecorded
<1>10. CompletedIsRecorded'
  BY <1>1, <1>5 DEF RetryInv, CompletedIsRecorded
<1> QED
  BY <1>6, <1>7, <1>8, <1>9, <1>10 DEF BudgetInv

(* The retry invariant holds at the start, is kept by every step, and so      *)
(* holds in every run.                                                        *)
LEMMA RetryInit == Init => RetryInv
<1> SUFFICES ASSUME Init PROVE BudgetInv /\ UpsertRecorded /\ CompletedIsRecorded
  BY HandoverInit DEF RetryInv
<1>1. /\ DOMAIN workChan = {}
      /\ \A g \in Goroutines : pc[g] \in {"select", "absent"}
      /\ \A i \in Items : outcome[i] = "unsubmitted" /\ calls[i] = 0
      /\ deadLetters = {}
  BY DEF Init
<1>2. NewUncalled /\ QueuedUncalled
  BY <1>1 DEF NewUncalled, QueuedUncalled
<1>3. CallsCounted
  BY <1>1 DEF CallsCounted
<1>4. RetryBudgetSpent
  BY <1>1, PoolAssumption DEF RetryBudgetSpent
<1>5. UpsertRecorded /\ CompletedIsRecorded
  BY <1>1 DEF UpsertRecorded, CompletedIsRecorded
<1> QED
  BY <1>2, <1>3, <1>4, <1>5 DEF BudgetInv

LEMMA RetryNext == RetryInv /\ [Next]_vars => RetryInv'
<1> SUFFICES ASSUME RetryInv, [Next]_vars
             PROVE  BudgetInv' /\ UpsertRecorded' /\ CompletedIsRecorded'
  BY HandoverNext DEF RetryInv
<1>1. CASE \E i \in Items : SubmitRabbitMQMessage(i)
  BY <1>1, RetrySubmit DEF SubmitRabbitMQMessage, Submit
<1>2. ASSUME NEW n \in Sizes, Resize(n)
      PROVE  BudgetInv' /\ UpsertRecorded' /\ CompletedIsRecorded'
  <2>1. /\ workChan' = workChan /\ item' = item /\ attempt' = attempt /\ row' = row
        /\ retryCount' = retryCount /\ deadLetters' = deadLetters
        /\ outcome' = outcome /\ calls' = calls
        /\ \A g \in Goroutines : pc'[g] \in {"select", pc[g]}
    BY <1>2 DEF Resize, dbVars, histVars
  <2> QED
    BY <2>1, RetryQuiet DEF BusyPC
<1>3. CASE StopClose \/ StopWait \/ StopReturn \/ UNCHANGED vars
  <2>1. /\ workChan' = workChan /\ item' = item /\ attempt' = attempt /\ row' = row
        /\ retryCount' = retryCount /\ deadLetters' = deadLetters
        /\ outcome' = outcome /\ calls' = calls /\ pc' = pc
    BY <1>3 DEF StopClose, StopWait, StopReturn, vars, poolVars, goVars, dbVars, histVars
  <2> QED
    BY <2>1, RetryQuiet
<1>4. ASSUME NEW g \in Goroutines, Exit(g)
      PROVE  BudgetInv' /\ UpsertRecorded' /\ CompletedIsRecorded'
  <2>1. pc \in [Goroutines -> PC]
    BY DEF RetryInv, HandoverInv, PoolInv, TypeOK
  <2>2. /\ workChan' = workChan /\ item' = item /\ attempt' = attempt /\ row' = row
        /\ retryCount' = retryCount /\ deadLetters' = deadLetters
        /\ outcome' = outcome /\ calls' = calls
        /\ \A h \in Goroutines : pc'[h] \in {"exited", pc[h]}
    BY <1>4, <2>1 DEF Exit, dbVars, histVars
  <2> QED
    BY <2>2, RetryQuiet DEF BusyPC
<1> QED
  BY <1>1, <1>2, <1>3, <1>4, RetryTake, RetryBusy DEF Next, Worker

LEMMA RetryInvariant == Spec => []RetryInv
BY RetryInit, RetryNext, PTL DEF Spec

(* processWithRetry calls handleMessage at most MaxRetry + 1 times for an     *)
(* item, and exactly that often before the item is given up or dead-lettered. *)
THEOREM RetryBudgetKept == Spec => []RetryBudgetSpent
<1>1. RetryInv => RetryBudgetSpent
  BY DEF RetryInv, BudgetInv
<1> QED
  BY <1>1, RetryInvariant, PTL

(* The row of a message that was delivered once and handled stays completed,  *)
(* with the failed attempts as its retry_count (handleMessage), whatever the  *)
(* workers of other messages do.                                              *)
THEOREM CompletionRecorded == Spec => []CompletedIsRecorded
<1>1. RetryInv => CompletedIsRecorded
  BY DEF RetryInv
<1> QED
  BY <1>1, RetryInvariant, PTL
=============================================================================
