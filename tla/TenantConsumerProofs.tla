------------------------ MODULE TenantConsumerProofs ------------------------
(***************************************************************************)
(* The consumer and its pool, for every value of the constants: each       *)
(* unsettled delivery is in one place of the client, a message has one     *)
(* owner, a crash loses no more than the pool holds, and the consumer      *)
(* drives the pool only in the ways the pool's own theorems cover.         *)
(***************************************************************************)
EXTENDS TenantConsumer, PoolContractProofs

(* The client's buffer and the delivery in the goroutine's hands hold each    *)
(* delivery once, whether the channel is open or not; what has not reached    *)
(* Submit yet is not with the pool, and only an accepted delivery is about to *)
(* be acknowledged.                                                           *)
BufferDistinct == \A j, k \in DOMAIN inbox : inbox[j] = inbox[k] => j = k
BufferApart    == \A k \in DOMAIN inbox : inbox[k] # cur
BufferNew      == \A k \in DOMAIN inbox : ~Submitted(inbox[k])
CurrentInv ==
  /\ cpc \in {"got", "requeue", "reject"} => ~Submitted(cur)
  /\ cpc = "ack" => Submitted(cur)
Tracked == chanOpen => \A i \in Items : loc[i] = "unacked" <=> InBuffer(i) \/ cur = i

ClientInv   == BufferDistinct /\ BufferApart /\ BufferNew /\ CurrentInv
DeliveryInv == HandoverInv /\ TCTypeOK /\ ClientInv /\ Tracked /\ SingleOwner

-----------------------------------------------------------------------------
(* A delivery in the goroutine's hands is an item.                            *)
LEMMA InHands ==
  ASSUME DeliveryInv, cpc \in Settling \cup {"got"}
  PROVE  cur \in Items
BY DEF DeliveryInv, TCTypeOK

(* What the buffer holds are items, so never NoItem.                          *)
LEMMA Buffered ==
  ASSUME DeliveryInv
  PROVE  /\ DOMAIN inbox = 1..Len(inbox) /\ Len(inbox) \in Nat
         /\ \A k \in DOMAIN inbox : inbox[k] \in Items /\ inbox[k] # NoItem
<1>1. inbox \in Seq(Items)
  BY DEF DeliveryInv, TCTypeOK
<1> QED
  BY <1>1, LenProperties, ElementOfSeq, PoolAssumption

(* The consumer's loop submits an item only while it is not with the pool, so *)
(* every step of the composition is a step of the pool or leaves it alone.    *)
LEMMA PoolStep ==
  ASSUME DeliveryInv, [TCNext]_tcVars
  PROVE  [Next]_vars
<1>1. CASE ProcessMessage
  <2>1. cur \in Items /\ ~Submitted(cur)
    BY <1>1, InHands DEF DeliveryInv, ClientInv, CurrentInv, ProcessMessage
  <2>2. UNCHANGED vars \/ SubmitAccept(cur) \/ SubmitRefuse(cur)
    BY <1>1 DEF ProcessMessage
  <2> QED
    BY <2>1, <2>2 DEF Next, SubmitRabbitMQMessage, Submit
<1>2. CASE StopPool
  BY <1>2 DEF StopPool, Next
<1>3. CASE \E n \in Sizes : PoolResize(n)
  BY <1>3 DEF PoolResize, Next
<1>4. CASE \E g \in Goroutines : PoolWorker(g)
  BY <1>4 DEF PoolWorker, Next
<1>5. CASE \/ \E i \in Items : PublishMessage(i) \/ Expire(i) \/ Deliver(i)
           \/ StartConsuming \/ Receive \/ Leave \/ SettleDelivery
           \/ CloseDone \/ CloseChannel \/ ChannelLost \/ Crash \/ UNCHANGED tcVars
  <2>1. UNCHANGED vars
    BY <1>5 DEF PublishMessage, Expire, Deliver, StartConsuming, Receive, Leave,
         SettleDelivery, CloseDone, CloseChannel, ChannelLost, Crash, tcVars
  <2> QED
    BY <2>1
<1> QED
  BY <1>1, <1>2, <1>3, <1>4, <1>5 DEF TCNext, ConsumeMessages

(* A step of the pool itself takes no item over and gives none back.          *)
LEMMA SubmittedKept ==
  ASSUME HandoverInv,
         \/ StopClose \/ StopWait \/ StopReturn \/ UNCHANGED vars
         \/ \E n \in Sizes : Resize(n)
         \/ \E g \in Goroutines : Worker(g)
  PROVE  \A i \in Items : Submitted(i)' <=> Submitted(i)
<1>1. CASE outcome' = outcome
  BY <1>1 DEF Submitted
<1>2. ASSUME NEW g \in Goroutines, NEW how \in Settled, pc[g] \in BusyPC, Finish(g, how)
      PROVE  \A i \in Items : Submitted(i)' <=> Submitted(i)
  <2>1. item[g] \in Items /\ outcome[item[g]] = "accepted" /\ outcome \in [Items -> Outcomes]
    BY <1>2, BusyItemAccepted DEF HandoverInv, PoolInv, TypeOK
  <2>2. outcome' = [outcome EXCEPT ![item[g]] = how]
    BY <1>2 DEF Finish
  <2> QED
    BY <2>1, <2>2 DEF Submitted, Settled
<1>3. \/ outcome' = outcome
      \/ \E g \in Goroutines, how \in Settled : pc[g] \in BusyPC /\ Finish(g, how)
  <2>1. CASE StopClose \/ StopWait \/ StopReturn \/ UNCHANGED vars \/ \E n \in Sizes : Resize(n)
    BY <2>1 DEF StopClose, StopWait, StopReturn, Resize, vars, histVars
  <2>2. ASSUME NEW g \in Goroutines, Worker(g)
        PROVE  outcome' = outcome \/ \E how \in Settled : pc[g] \in BusyPC /\ Finish(g, how)
    BY <2>2 DEF Worker, Exit, Take, Handle, Update, Wake, GiveUp, InsertDeadLetter, MarkFailed,
         histVars, BusyPC, Settled
  <2> QED
    BY <2>1, <2>2
<1> QED
  BY <1>1, <1>2, <1>3

-----------------------------------------------------------------------------
(* Steps that leave the broker, the buffer and the loop alone.                *)
LEMMA ClientAlone ==
  ASSUME DeliveryInv, HandoverInv', \A i \in Items : Submitted(i)' <=> Submitted(i),
         loc' = loc, inbox' = inbox, chanOpen' = chanOpen, cpc' = cpc, cur' = cur,
         alive' = alive, cdone' \in BOOLEAN
  PROVE  DeliveryInv'
<1>1. TCTypeOK'
  BY DEF DeliveryInv, TCTypeOK, HandoverInv, PoolInv
<1>2. BufferDistinct' /\ BufferApart'
  BY DEF DeliveryInv, ClientInv, BufferDistinct, BufferApart
<1>3. BufferNew'
  BY Buffered DEF DeliveryInv, ClientInv, BufferNew
<1>4. CurrentInv'
  BY InHands DEF DeliveryInv, ClientInv, CurrentInv, Settling
<1>5. Tracked'
  BY DEF DeliveryInv, Tracked, InBuffer
<1>6. SingleOwner'
  BY DEF DeliveryInv, SingleOwner
<1> QED
  BY <1>1, <1>2, <1>3, <1>4, <1>5, <1>6 DEF DeliveryInv, ClientInv

(* Steps of the loop that carry no delivery.                                  *)
LEMMA LoopMoves ==
  ASSUME DeliveryInv, StartConsuming \/ Leave, HandoverInv'
  PROVE  DeliveryInv'
<1>1. /\ outcome' = outcome /\ loc' = loc /\ inbox' = inbox /\ chanOpen' = chanOpen
      /\ cur' = cur /\ alive' = alive /\ cdone' = cdone
      /\ cpc \in {"starting", "select"} /\ cpc' \in {"select", "exited"}
  BY DEF StartConsuming, Leave, vars, histVars, brokerVars
<1>2. TCTypeOK'
  BY <1>1 DEF DeliveryInv, TCTypeOK, HandoverInv, PoolInv, LoopPC, Settling
<1>3. ClientInv'
  BY <1>1 DEF DeliveryInv, ClientInv, BufferDistinct, BufferApart, BufferNew, CurrentInv, Submitted
<1>4. Tracked' /\ SingleOwner'
  BY <1>1 DEF DeliveryInv, Tracked, SingleOwner, InBuffer, Submitted
<1> QED
  BY <1>2, <1>3, <1>4 DEF DeliveryInv

(* The broker takes a published message in, or lets a waiting one expire.     *)
LEMMA BrokerMoves ==
  ASSUME DeliveryInv, NEW i \in Items, PublishMessage(i) \/ Expire(i), HandoverInv'
  PROVE  DeliveryInv'
<1>1. /\ outcome' = outcome /\ inbox' = inbox /\ chanOpen' = chanOpen
      /\ cur' = cur /\ cpc' = cpc /\ alive' = alive /\ cdone' = cdone
      /\ loc[i] \in {"unpublished", "ready"}
  BY DEF PublishMessage, Expire, vars, histVars, loopVars
<1>2. loc \in [Items -> Places]
  BY DEF DeliveryInv, TCTypeOK
<1>3. PICK x \in {"ready", "dead"} : loc' = [loc EXCEPT ![i] = x]
  BY DEF PublishMessage, Expire
<1>4. TCTypeOK'
  <2>1. loc' \in [Items -> Places]
    BY <1>2, <1>3 DEF Places
  <2> QED
    BY <1>1, <2>1 DEF DeliveryInv, TCTypeOK, HandoverInv, PoolInv
<1>5. ClientInv'
  BY <1>1 DEF DeliveryInv, ClientInv, BufferDistinct, BufferApart, BufferNew, CurrentInv, Submitted
<1>6. \A j \in Items : loc'[j] = "unacked" <=> loc[j] = "unacked"
  BY <1>1, <1>2, <1>3
<1>7. Tracked'
  BY <1>1, <1>6 DEF DeliveryInv, Tracked, InBuffer
<1>8. SingleOwner'
  BY <1>1, <1>2, <1>3 DEF DeliveryInv, SingleOwner, Submitted
<1> QED
  BY <1>4, <1>5, <1>7, <1>8 DEF DeliveryInv

(* The broker pushes a waiting message, which is nowhere in the client.       *)
LEMMA DeliveryPushed ==
  ASSUME DeliveryInv, NEW i \in Items, Deliver(i), HandoverInv'
  PROVE  DeliveryInv'
<1>1. /\ outcome' = outcome /\ inbox' = Append(inbox, i) /\ chanOpen /\ chanOpen' = chanOpen
      /\ cur' = cur /\ cpc' = cpc /\ alive' = alive /\ cdone' = cdone
      /\ loc[i] = "ready" /\ loc' = [loc EXCEPT ![i] = "unacked"]
  BY DEF Deliver, vars, histVars, loopVars
<1>2. loc \in [Items -> Places] /\ inbox \in Seq(Items)
  BY DEF DeliveryInv, TCTypeOK
<1>3. /\ DOMAIN inbox = 1..Len(inbox) /\ Len(inbox) \in Nat
      /\ DOMAIN inbox' = 1..(Len(inbox) + 1) /\ inbox' \in Seq(Items)
      /\ \A k \in 1..Len(inbox) : inbox'[k] = inbox[k]
      /\ inbox'[Len(inbox) + 1] = i
  BY <1>1, <1>2, LenProperties, AppendProperties
<1>4. ~InBuffer(i) /\ cur # i /\ ~Submitted(i)
  BY <1>1 DEF DeliveryInv, Tracked, SingleOwner
<1>5. \A k \in 1..Len(inbox) : inbox[k] # i
  BY <1>3, <1>4 DEF InBuffer
<1>6. TCTypeOK'
  <2>1. loc' \in [Items -> Places]
    BY <1>1, <1>2 DEF Places
  <2> QED
    BY <1>1, <1>3, <2>1 DEF DeliveryInv, TCTypeOK, HandoverInv, PoolInv
<1>7. BufferDistinct'
  BY <1>3, <1>5 DEF DeliveryInv, ClientInv, BufferDistinct
<1>8. BufferApart'
  BY <1>1, <1>3, <1>4 DEF DeliveryInv, ClientInv, BufferApart
<1>9. BufferNew'
  BY <1>1, <1>3, <1>4 DEF DeliveryInv, ClientInv, BufferNew, Submitted
<1>10. CurrentInv'
  BY <1>1 DEF DeliveryInv, ClientInv, CurrentInv, Submitted
<1>11. Tracked'
  <2>1. \A j \in Items : InBuffer(j)' <=> InBuffer(j) \/ j = i
    BY <1>3 DEF InBuffer
  <2>2. \A j \in Items : loc'[j] = "unacked" <=> loc[j] = "unacked" \/ j = i
    BY <1>1, <1>2
  <2> QED
    BY <1>1, <2>1, <2>2 DEF DeliveryInv, Tracked
<1>12. SingleOwner'
  BY <1>1, <1>2 DEF DeliveryInv, SingleOwner, Submitted
<1> QED
  BY <1>6, <1>7, <1>8, <1>9, <1>10, <1>11, <1>12 DEF DeliveryInv, ClientInv

(* The loop takes the oldest buffered delivery into its hands.                *)
LEMMA DeliveryReceived ==
  ASSUME DeliveryInv, Receive, HandoverInv'
  PROVE  DeliveryInv'
<1>1. /\ outcome' = outcome /\ inbox # <<>> /\ inbox' = Tail(inbox) /\ chanOpen' = chanOpen
      /\ cur' = Head(inbox) /\ cpc = "select" /\ cpc' = "got"
      /\ alive' = alive /\ cdone' = cdone /\ loc' = loc
  BY DEF Receive, vars, histVars
<1>2. inbox \in Seq(Items) /\ cur = NoItem
  BY <1>1 DEF DeliveryInv, TCTypeOK, Settling
<1>3. /\ DOMAIN inbox = 1..Len(inbox) /\ Len(inbox) \in Nat \ {0}
      /\ DOMAIN inbox' = 1..(Len(inbox) - 1) /\ inbox' \in Seq(Items)
      /\ \A k \in 1..(Len(inbox) - 1) : inbox'[k] = inbox[k + 1]
      /\ cur' = inbox[1] /\ inbox[1] \in Items
  BY <1>1, <1>2, LenProperties, HeadTailProperties, EmptySeq, ElementOfSeq
<1>4. /\ \A j, k \in 1..Len(inbox) : inbox[j] = inbox[k] => j = k
      /\ \A k \in 1..Len(inbox) : ~Submitted(inbox[k])
  BY <1>3 DEF DeliveryInv, ClientInv, BufferDistinct, BufferNew
<1>5. TCTypeOK'
  BY <1>1, <1>3, PoolAssumption DEF DeliveryInv, TCTypeOK, HandoverInv, PoolInv, LoopPC, Settling
<1>6. BufferDistinct'
  BY <1>3, <1>4 DEF BufferDistinct
<1>7. BufferApart'
  BY <1>3, <1>4 DEF BufferApart
<1>8. BufferNew'
  BY <1>1, <1>3, <1>4 DEF BufferNew, Submitted
<1>9. CurrentInv'
  BY <1>1, <1>3, <1>4 DEF CurrentInv, Submitted
<1>10. Tracked'
  <2>1. ASSUME NEW i \in Items
        PROVE  InBuffer(i) \/ cur = i <=> InBuffer(i)' \/ cur' = i
    <3>1. ASSUME NEW k \in 1..Len(inbox), inbox[k] = i, k # 1
          PROVE  InBuffer(i)'
      <4>1. k - 1 \in 1..(Len(inbox) - 1) /\ inbox'[k - 1] = i
        BY <1>3, <3>1
      <4> QED
        BY <1>3, <4>1 DEF InBuffer
    <3>2. ASSUME NEW l \in 1..(Len(inbox) - 1), inbox'[l] = i
          PROVE  InBuffer(i)
      <4>1. l + 1 \in 1..Len(inbox) /\ inbox[l + 1] = i
        BY <1>3, <3>2
      <4> QED
        BY <1>3, <4>1 DEF InBuffer
    <3>3. InBuffer(i) => InBuffer(i)' \/ cur' = i
      BY <1>3, <3>1 DEF InBuffer
    <3>4. 1 \in DOMAIN inbox
      BY <1>3
    <3>5. InBuffer(i)' \/ cur' = i => InBuffer(i)
      BY <1>3, <3>2, <3>4 DEF InBuffer
    <3> QED
      BY <1>2, <3>3, <3>5, PoolAssumption
  <2> QED
    BY <1>1, <2>1 DEF DeliveryInv, Tracked
<1>11. SingleOwner'
  BY <1>1 DEF DeliveryInv, SingleOwner, Submitted
<1> QED
  BY <1>5, <1>6, <1>7, <1>8, <1>9, <1>10, <1>11 DEF DeliveryInv, ClientInv

(* processMessage hands the delivery to the pool, is refused, or cannot read  *)
(* it; the broker still counts it as unsettled.                               *)
LEMMA DeliveryProcessed ==
  ASSUME DeliveryInv, ProcessMessage, HandoverInv'
  PROVE  DeliveryInv'
<1>1. /\ inbox' = inbox /\ chanOpen' = chanOpen /\ cur' = cur /\ cpc = "got"
      /\ alive' = alive /\ cdone' = cdone /\ loc' = loc
      /\ \/ cpc' = "reject" /\ outcome' = outcome
         \/ cpc' = "ack" /\ outcome' = [outcome EXCEPT ![cur] = "accepted"]
         \/ cpc' = "requeue" /\ outcome' = [outcome EXCEPT ![cur] = "refused"]
  BY DEF ProcessMessage, brokerVars, vars, histVars, SubmitAccept, SubmitRefuse
<1>2. cur \in Items /\ ~Submitted(cur) /\ outcome \in [Items -> Outcomes]
  BY <1>1, InHands DEF DeliveryInv, ClientInv, CurrentInv, HandoverInv, PoolInv, TypeOK
<1>3. /\ \A i \in Items \ {cur} : Submitted(i)' <=> Submitted(i)
      /\ cpc' = "ack" => Submitted(cur)'
      /\ cpc' # "ack" => ~Submitted(cur)'
  BY <1>1, <1>2 DEF Submitted
<1>4. TCTypeOK'
  BY <1>1 DEF DeliveryInv, TCTypeOK, HandoverInv, PoolInv, LoopPC, Settling
<1>5. BufferDistinct' /\ BufferApart'
  BY <1>1 DEF DeliveryInv, ClientInv, BufferDistinct, BufferApart
<1>6. BufferNew'
  <2> SUFFICES ASSUME NEW k \in DOMAIN inbox
               PROVE  ~Submitted(inbox[k])'
    BY <1>1 DEF BufferNew
  <2>1. inbox[k] \in Items \ {cur} /\ ~Submitted(inbox[k])
    BY Buffered DEF DeliveryInv, ClientInv, BufferApart, BufferNew
  <2>2. outcome'[inbox[k]] = outcome[inbox[k]]
    BY <1>1, <1>2, <2>1
  <2> QED
    BY <1>1, <2>1, <2>2 DEF Submitted
<1>7. CurrentInv'
  BY <1>1, <1>3 DEF CurrentInv, Submitted
<1>8. Tracked'
  BY <1>1 DEF DeliveryInv, Tracked, InBuffer
<1>9. SingleOwner'
  <2>1. chanOpen => loc[cur] = "unacked"
    BY <1>2 DEF DeliveryInv, Tracked
  <2>2. loc[cur] # "acked"
    BY <1>2 DEF DeliveryInv, SingleOwner
  <2> QED
    BY <1>1, <1>3, <2>1, <2>2 DEF DeliveryInv, SingleOwner
<1> QED
  BY <1>4, <1>5, <1>6, <1>7, <1>8, <1>9 DEF DeliveryInv, ClientInv

(* The settlement goes to the broker once, and not at all on a closed channel.*)
LEMMA DeliverySettled ==
  ASSUME DeliveryInv, SettleDelivery, HandoverInv'
  PROVE  DeliveryInv'
<1>1. /\ outcome' = outcome /\ inbox' = inbox /\ chanOpen' = chanOpen
      /\ cur' = NoItem /\ cpc \in Settling /\ cpc' = "select"
      /\ alive' = alive /\ cdone' = cdone
      /\ loc' = IF chanOpen THEN [loc EXCEPT ![cur] = SettledAs(cpc)] ELSE loc
  BY DEF SettleDelivery, vars, histVars
<1>2. cur \in Items /\ loc \in [Items -> Places]
  BY <1>1, InHands DEF DeliveryInv, TCTypeOK
<1>3. /\ cpc = "ack" => Submitted(cur) /\ SettledAs(cpc) = "acked"
      /\ cpc # "ack" => ~Submitted(cur) /\ SettledAs(cpc) \in {"ready", "dead"}
  BY <1>1 DEF DeliveryInv, ClientInv, CurrentInv, Settling, SettledAs
<1>4. SettledAs(cpc) \in Places \ {"unacked"}
  BY <1>3 DEF Places
<1>5. TCTypeOK'
  <2>1. loc' \in [Items -> Places]
    BY <1>1, <1>2, <1>4
  <2> QED
    BY <1>1, <2>1 DEF DeliveryInv, TCTypeOK, HandoverInv, PoolInv, LoopPC, Settling
<1>6. BufferDistinct' /\ BufferNew' /\ CurrentInv'
  BY <1>1 DEF DeliveryInv, ClientInv, BufferDistinct, BufferNew, CurrentInv, Submitted
<1>7. BufferApart'
  BY <1>1, Buffered DEF BufferApart
<1>8. Tracked'
  <2> SUFFICES ASSUME chanOpen, NEW i \in Items
               PROVE  loc'[i] = "unacked" <=> InBuffer(i)' \/ cur' = i
    BY <1>1 DEF Tracked
  <2>1. InBuffer(i)' <=> InBuffer(i)
    BY <1>1 DEF InBuffer
  <2>2. loc'[i] = "unacked" <=> loc[i] = "unacked" /\ i # cur
    BY <1>1, <1>2, <1>4
  <2>3. ~InBuffer(cur)
    BY DEF DeliveryInv, ClientInv, BufferApart, InBuffer
  <2> QED
    BY <1>1, <2>1, <2>2, <2>3, PoolAssumption DEF DeliveryInv, Tracked
<1>9. SingleOwner'
  BY <1>1, <1>2, <1>3 DEF DeliveryInv, SingleOwner, Submitted
<1> QED
  BY <1>5, <1>6, <1>7, <1>8, <1>9 DEF DeliveryInv, ClientInv

(* Once the channel is gone the broker has every unsettled delivery back; the *)
(* client's copies stay where they are.                                       *)
LEMMA ChannelGone ==
  ASSUME DeliveryInv, CloseChannel \/ ChannelLost \/ Crash, HandoverInv'
  PROVE  DeliveryInv'
<1>1. /\ outcome' = outcome /\ inbox' = inbox /\ chanOpen' = FALSE
      /\ cur' = cur /\ cpc' = cpc /\ cdone' = cdone
      /\ loc' = Requeued
  BY DEF CloseChannel, ChannelLost, Crash, vars, histVars, loopVars
<1>2. alive' \in BOOLEAN
  BY DEF CloseChannel, ChannelLost, Crash, DeliveryInv, TCTypeOK
<1>3. loc' \in [Items -> Places] /\ \A i \in Items : loc'[i] = "acked" => loc[i] = "acked"
  BY <1>1 DEF Requeued, DeliveryInv, TCTypeOK, Places
<1>4. TCTypeOK'
  BY <1>1, <1>2, <1>3 DEF DeliveryInv, TCTypeOK, HandoverInv, PoolInv
<1>5. ClientInv'
  BY <1>1 DEF DeliveryInv, ClientInv, BufferDistinct, BufferApart, BufferNew, CurrentInv, Submitted
<1>6. Tracked' /\ SingleOwner'
  BY <1>1, <1>3 DEF DeliveryInv, Tracked, SingleOwner, Submitted
<1> QED
  BY <1>4, <1>5, <1>6 DEF DeliveryInv

-----------------------------------------------------------------------------
(* The delivery invariant holds at the start, is kept by every step, and so   *)
(* holds in every run.                                                        *)
LEMMA DeliveryInit == TCInit => DeliveryInv
<1> SUFFICES ASSUME TCInit PROVE DeliveryInv
  OBVIOUS
<1>1. HandoverInv
  BY HandoverInit DEF TCInit
<1>2. /\ loc = [i \in Items |-> "unpublished"] /\ inbox = <<>> /\ DOMAIN inbox = {}
      /\ chanOpen = TRUE /\ cdone = FALSE /\ cpc = "starting" /\ cur = NoItem /\ alive = TRUE
      /\ \A i \in Items : outcome[i] = "unsubmitted"
  BY DEF TCInit, Init
<1>3. TCTypeOK
  BY <1>1, <1>2, EmptySeq DEF TCTypeOK, HandoverInv, PoolInv, Places, LoopPC, Settling
<1>4. ClientInv
  BY <1>2 DEF ClientInv, BufferDistinct, BufferApart, BufferNew, CurrentInv
<1>5. Tracked /\ SingleOwner
  BY <1>2, PoolAssumption DEF Tracked, SingleOwner, InBuffer, Submitted
<1> QED
  BY <1>1, <1>3, <1>4, <1>5 DEF DeliveryInv

LEMMA DeliveryNext == DeliveryInv /\ [TCNext]_tcVars => DeliveryInv'
<1> SUFFICES ASSUME DeliveryInv, [TCNext]_tcVars PROVE DeliveryInv'
  OBVIOUS
<1>1. HandoverInv /\ HandoverInv'
  BY PoolStep, HandoverNext DEF DeliveryInv
<1>2. CASE \/ StopPool \/ CloseDone \/ UNCHANGED tcVars
           \/ \E n \in Sizes : PoolResize(n)
           \/ \E g \in Goroutines : PoolWorker(g)
  <2>1. \A i \in Items : Submitted(i)' <=> Submitted(i)
    BY <1>1, <1>2, SubmittedKept DEF StopPool, CloseDone, PoolResize, PoolWorker, tcVars
  <2>2. /\ loc' = loc /\ inbox' = inbox /\ chanOpen' = chanOpen /\ cpc' = cpc /\ cur' = cur
        /\ alive' = alive /\ cdone' \in {cdone, TRUE}
    BY <1>2 DEF StopPool, CloseDone, PoolResize, PoolWorker, tcVars, consumerVars, brokerVars, loopVars
  <2>3. cdone' \in BOOLEAN
    BY <2>2 DEF DeliveryInv, TCTypeOK
  <2> QED
    BY <1>1, <2>1, <2>2, <2>3, ClientAlone
<1>3. CASE \E i \in Items : PublishMessage(i) \/ Expire(i) \/ Deliver(i)
  BY <1>1, <1>3, BrokerMoves, DeliveryPushed
<1>4. CASE ConsumeMessages
  BY <1>1, <1>4, LoopMoves, DeliveryReceived, DeliveryProcessed, DeliverySettled DEF ConsumeMessages
<1>5. CASE CloseChannel \/ ChannelLost \/ Crash
  BY <1>1, <1>5, ChannelGone
<1> QED
  BY <1>2, <1>3, <1>4, <1>5 DEF TCNext

LEMMA DeliveryInvariant == TCSpec => []DeliveryInv
BY DeliveryInit, DeliveryNext, PTL DEF TCSpec

(* Type correctness of the consumer, the broker's queue and the pool.         *)
THEOREM ConsumerTypes == TCSpec => []TCTypeOK
<1>1. DeliveryInv => TCTypeOK
  BY DEF DeliveryInv
<1> QED
  BY <1>1, DeliveryInvariant, PTL

(* While the channel is open every unsettled delivery is in exactly one place *)
(* of the client (consumeMessages, processMessage), however StopConsumer, a   *)
(* lost channel and the pool interleave with the loop.                        *)
THEOREM DeliveriesTracked == TCSpec => []UnackedTracked
<1>1. DeliveryInv => UnackedTracked
  BY DEF DeliveryInv, ClientInv, Tracked, UnackedTracked, BufferDistinct, BufferApart, InBuffer
<1> QED
  BY <1>1, DeliveryInvariant, PTL

(* What the pool accepted the broker does not offer again while the channel   *)
(* is open, and what is acknowledged the pool accepted (processMessage).      *)
THEOREM OneOwner == TCSpec => []SingleOwner
<1>1. DeliveryInv => SingleOwner
  BY DEF DeliveryInv
<1> QED
  BY <1>1, DeliveryInvariant, PTL

-----------------------------------------------------------------------------
(* An item accepted and not settled is in the channel or with a worker, so    *)
(* there are no more of them than the channel and the workers can hold.       *)
LEMMA HeldBounded ==
  ASSUME HandoverInv
  PROVE  LossBounded
<1> DEFINE n       == Len(workChan)
           queued  == {workChan[k] : k \in 1..n}
           busy    == {g \in Goroutines : pc[g] \in BusyPC}
           working == {item[g] : g \in busy}
<1>1. /\ workChan \in Seq(Items) /\ n \in Nat /\ n <= Cap /\ DOMAIN workChan = 1..n
      /\ Cap \in Nat
  BY LenProperties, PoolAssumption DEF HandoverInv, PoolInv, TypeOK, Cap
<1>2. IsFiniteSet(queued) /\ Cardinality(queued) <= n
  <2>1. [k \in 1..n |-> workChan[k]] \in Surjection(1..n, queued)
    BY DEF Surjection
  <2>2. IsFiniteSet(1..n) /\ Cardinality(1..n) = n
    <3> HIDE DEF n
    <3>1. n \in Nat /\ 1 \in Int /\ n \in Int
      BY <1>1
    <3>2. IsFiniteSet(1..n) /\ Cardinality(1..n) = IF 1 > n THEN 0 ELSE n - 1 + 1
      BY <3>1, FS_Interval
    <3> QED
      BY <3>1, <3>2
  <2> HIDE DEF queued
  <2> QED
    BY <2>1, <2>2, FS_Surjection
<1>3. IsFiniteSet(working) /\ Cardinality(working) <= Cardinality(Live)
  <2>1. busy \in SUBSET Live
    BY DEF Live, BusyPC
  <2>2. IsFiniteSet(busy) /\ Cardinality(busy) <= Cardinality(Live)
    <3> HIDE DEF busy
    <3> QED
      BY <2>1, LiveFinite, FS_Subset
  <2>3. [g \in busy |-> item[g]] \in Surjection(busy, working)
    BY DEF Surjection
  <2>4. IsFiniteSet(working) /\ Cardinality(working) <= Cardinality(busy)
    <3> HIDE DEF busy, working
    <3> QED
      BY <2>2, <2>3, FS_Surjection
  <2>5. Cardinality(working) \in Nat /\ Cardinality(busy) \in Nat
    <3> HIDE DEF busy, working
    <3> QED
      BY <2>2, <2>4, FS_CardinalityType
  <2> HIDE DEF busy, working
  <2> QED
    BY <2>2, <2>4, <2>5, LiveFinite
<1>4. AtRisk \in SUBSET (queued \cup working)
  <2> SUFFICES ASSUME NEW i \in Items, outcome[i] = "accepted"
               PROVE  i \in queued \cup working
    BY DEF AtRisk
  <2>1. (\E k \in DOMAIN workChan : workChan[k] = i) \/ (\E g \in Goroutines : item[g] = i)
    BY DEF HandoverInv, ItemHeldOnce, Accounted
  <2>2. \A g \in Goroutines : item[g] = i => g \in busy
    BY PoolAssumption DEF HandoverInv, PoolInv, BusyHoldsItem
  <2> QED
    BY <1>1, <2>1, <2>2
<1>5. /\ IsFiniteSet(queued \cup working)
      /\ Cardinality(queued \cup working) <= Cardinality(queued) + Cardinality(working)
      /\ Cardinality(AtRisk) <= Cardinality(queued \cup working)
      /\ IsFiniteSet(AtRisk)
  <2> HIDE DEF queued, working
  <2>1. /\ IsFiniteSet(queued \cup working)
        /\ Cardinality(queued \cup working) =
             Cardinality(queued) + Cardinality(working) - Cardinality(queued \cap working)
    BY <1>2, <1>3, FS_Union
  <2>2. queued \cap working \in SUBSET queued
    OBVIOUS
  <2>3. IsFiniteSet(queued \cap working)
    BY <1>2, <2>2, FS_Subset
  <2>4. Cardinality(queued \cap working) \in Nat
    BY <2>3, FS_CardinalityType
  <2>5. Cardinality(queued) \in Nat /\ Cardinality(working) \in Nat
    BY <1>2, <1>3, FS_CardinalityType
  <2>6. IsFiniteSet(AtRisk) /\ Cardinality(AtRisk) <= Cardinality(queued \cup working)
    BY <1>4, <2>1, FS_Subset
  <2> QED
    BY <2>1, <2>4, <2>5, <2>6
<1>6. /\ Cardinality(queued) \in Nat /\ Cardinality(working) \in Nat
      /\ Cardinality(AtRisk) \in Nat /\ Cardinality(queued \cup working) \in Nat
  <2> HIDE DEF queued, working
  <2> QED
    BY <1>2, <1>3, <1>5, FS_CardinalityType
<1> HIDE DEF queued, working, n
<1> QED
  BY <1>1, <1>2, <1>3, <1>5, <1>6, LiveFinite DEF LossBounded

(* A crash loses at most what the pool's channel (sized once by               *)
(* NewWorkerPool) and its running workers hold, whatever Resize has done.     *)
THEOREM LossIsBounded == TCSpec => []LossBounded
<1>1. DeliveryInv => LossBounded
  BY HeldBounded DEF DeliveryInv
<1> QED
  BY <1>1, DeliveryInvariant, PTL

(* The consumer keeps the pool's contract: in the composition too an item is  *)
(* taken over once and settled once (processMessage calls Submit only for     *)
(* what the pool does not have), and Stop runs through its phases once.       *)
THEOREM ConsumerKeepsContract == TCSpec => Contract!SafeSpec
<1>1. TCInit => Contract!Init
  <2> SUFFICES ASSUME TCInit PROVE Contract!Init
    OBVIOUS
  <2>1. (\A i \in Items : outcome[i] = "unsubmitted") /\ stop = "open"
    BY DEF TCInit, Init
  <2> QED
    BY <2>1 DEF Contract!Init, ItemState, Settled, Phase
<1>2. DeliveryInv /\ [TCNext]_tcVars => [Contract!Next]_(Contract!contractVars)
  BY PoolStep, ContractStep DEF DeliveryInv
<1> QED
  BY <1>1, <1>2, DeliveryInvariant, PTL DEF TCSpec, Contract!SafeSpec

(* The worker pool's other promises hold in the composition as well: Stop's   *)
(* WaitGroup is exact, the retry budget is spent before an item is given up,  *)
(* and a completed row stays completed.                                       *)
THEOREM PoolPromisesKept == TCSpec => [](WaitGroupExact /\ RetryBudgetSpent /\ CompletedIsRecorded)
<1>1. TCInit => RetryInv
  BY RetryInit DEF TCInit
<1>2. DeliveryInv /\ RetryInv /\ [TCNext]_tcVars => RetryInv'
  BY PoolStep, RetryNext
<1>3. RetryInv => WaitGroupExact /\ RetryBudgetSpent /\ CompletedIsRecorded
  BY DEF RetryInv, BudgetInv, HandoverInv, PoolInv
<1> QED
  BY <1>1, <1>2, <1>3, DeliveryInvariant, PTL DEF TCSpec
=============================================================================
