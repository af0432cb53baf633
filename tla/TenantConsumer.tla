--------------------------- MODULE TenantConsumer ---------------------------
(***************************************************************************)
(* One tenant's consumer (internal/tenant/manager.go): the goroutine that  *)
(* moves deliveries from the tenant's RabbitMQ queue into the worker pool  *)
(* and settles them with the broker, together with the worker pool itself, *)
(* StopConsumer, and the broker's side of the queue.                       *)
(*                                                                         *)
(* A delivery is acknowledged when the pool has queued it, not when it is  *)
(* processed. The broker, the AMQP client's delivery buffer and the loss   *)
(* of the channel are external and modelled from how the code uses them.   *)
(***************************************************************************)
EXTENDS WorkerPool

CONSTANTS
  Malformed,   \* the items whose body is not a JSON Message
  MessageTTL   \* m.messageTTL; 0 declares the queue without x-message-ttl

(* processMessage always submits with RetryCount 0.                          *)
ASSUME ConsumerAssumption ==
  /\ Malformed \subseteq Items
  /\ MessageTTL \in Nat
  /\ \A i \in Items : RetryHeader[i] = 0

VARIABLES
  loc,       \* where the broker has each message
  inbox,     \* deliveries the AMQP client holds for the consumer, in order
  chanOpen,  \* consumer.Channel is open
  cdone,     \* consumer.Done is closed
  cpc,       \* control point of the consumeMessages goroutine
  cur,       \* the delivery it is processing
  alive      \* the process runs

brokerVars   == <<loc, inbox, chanOpen>>
loopVars     == <<cpc, cur>>
consumerVars == <<brokerVars, loopVars, cdone, alive>>
tcVars       == <<vars, consumerVars>>

Places == {"unpublished", "ready", "unacked", "acked", "dead"}
LoopPC == {"starting", "select", "got", "ack", "requeue", "reject", "exited"}
Settling == {"ack", "requeue", "reject"}

(* What the broker does with unsettled deliveries when their channel closes. *)
Requeued == [i \in Items |-> IF loc[i] = "unacked" THEN "ready" ELSE loc[i]]

-----------------------------------------------------------------------------
(* SpawnConsumer has declared the queues, filled the map and started the      *)
(* goroutine.                                                                 *)
TCInit ==
  /\ Init
  /\ loc = [i \in Items |-> "unpublished"]
  /\ inbox = <<>>
  /\ chanOpen = TRUE
  /\ cdone = FALSE
  /\ cpc = "starting"
  /\ cur = NoItem
  /\ alive = TRUE

(* PublishMessage, through a channel of its own.                              *)
PublishMessage(i) ==
  /\ loc[i] = "unpublished"
  /\ loc' = [loc EXCEPT ![i] = "ready"]
  /\ UNCHANGED <<vars, inbox, chanOpen, loopVars, cdone, alive>>

(* The x-message-ttl and x-dead-letter-exchange the queue was declared with. *)
Expire(i) ==
  /\ MessageTTL > 0
  /\ loc[i] = "ready"
  /\ loc' = [loc EXCEPT ![i] = "dead"]
  /\ UNCHANGED <<vars, inbox, chanOpen, loopVars, cdone, alive>>

(* No prefetch limit is set: the broker pushes whatever is ready, and goes on *)
(* pushing to a consumer whose goroutine has left, until the channel closes.  *)
Deliver(i) ==
  /\ loc[i] = "ready"
  /\ chanOpen /\ cpc # "starting"
  /\ loc' = [loc EXCEPT ![i] = "unacked"]
  /\ inbox' = Append(inbox, i)
  /\ UNCHANGED <<vars, chanOpen, loopVars, cdone, alive>>

-----------------------------------------------------------------------------
(* consumeMessages: Consume, then a select over Done and the deliveries.      *)
StartConsuming ==
  /\ cpc = "starting"
  /\ cpc' = IF chanOpen THEN "select" ELSE "exited"
  /\ UNCHANGED <<vars, brokerVars, cur, cdone, alive>>

Receive ==
  /\ cpc = "select"
  /\ inbox # <<>>
  /\ cur' = Head(inbox)
  /\ inbox' = Tail(inbox)
  /\ cpc' = "got"
  /\ UNCHANGED <<vars, loc, chanOpen, cdone, alive>>

(* The goroutine leaves on Done, or when the client has closed the delivery   *)
(* channel, which may drop what was buffered.                                 *)
Leave ==
  /\ cpc = "select"
  /\ cdone \/ ~chanOpen
  /\ cpc' = "exited"
  /\ UNCHANGED <<vars, brokerVars, cur, cdone, alive>>

(* processMessage up to the settlement of the delivery.                       *)
ProcessMessage ==
  /\ cpc = "got"
  /\ \/ cur \in Malformed /\ cpc' = "reject" /\ UNCHANGED vars
     \/ cur \notin Malformed /\ SubmitAccept(cur) /\ cpc' = "ack"
     \/ cur \notin Malformed /\ SubmitRefuse(cur) /\ cpc' = "requeue"
  /\ UNCHANGED <<brokerVars, cur, cdone, alive>>

(* msg.Ack, msg.Nack(requeue) and msg.Nack(drop, to the DLX). On a closed     *)
(* channel they fail, which is only logged or ignored.                        *)
NackForgotten(step) == IF step = "ack" THEN "acked" ELSE "unacked"
AlwaysAcked(step) == "acked"
SettledAs(step) ==
  CASE step = "ack"     -> "acked"
    [] step = "requeue" -> "ready"
    [] step = "reject"  -> "dead"

SettleDelivery ==
  /\ cpc \in Settling
  /\ loc' = IF chanOpen THEN [loc EXCEPT ![cur] = SettledAs(cpc)] ELSE loc
  /\ cur' = NoItem
  /\ cpc' = "select"
  /\ UNCHANGED <<vars, inbox, chanOpen, cdone, alive>>

ConsumeMessages ==
  StartConsuming \/ Receive \/ Leave \/ ProcessMessage \/ SettleDelivery

-----------------------------------------------------------------------------
(* StopConsumer (and the goroutines of ShutdownAll): close Done, stop the     *)
(* pool, close the channel. Nothing waits for the consumer goroutine. A panic *)
(* of the pool's Stop skips the last step.                                    *)
CloseDone ==
  /\ ~cdone
  /\ cdone' = TRUE
  /\ UNCHANGED <<vars, brokerVars, loopVars, alive>>

StopPool ==
  /\ cdone
  /\ StopClose \/ StopWait \/ StopReturn
  /\ UNCHANGED consumerVars

CloseChannel ==
  /\ stop = "returned"
  /\ chanOpen
  /\ chanOpen' = FALSE
  /\ loc' = Requeued
  /\ UNCHANGED <<vars, inbox, loopVars, cdone, alive>>

(* The connection or the channel breaks; nothing re-opens it for a consumer.  *)
ChannelLost ==
  /\ chanOpen
  /\ chanOpen' = FALSE
  /\ loc' = Requeued
  /\ UNCHANGED <<vars, inbox, loopVars, cdone, alive>>

(* The process dies: whatever is in memory is gone.                          *)
Crash ==
  /\ alive' = FALSE
  /\ chanOpen' = FALSE
  /\ loc' = Requeued
  /\ UNCHANGED <<vars, inbox, loopVars, cdone>>

-----------------------------------------------------------------------------
PoolWorker(g) == Worker(g) /\ UNCHANGED consumerVars
PoolResize(n) == Resize(n) /\ UNCHANGED consumerVars

TCNext ==
  /\ alive
  /\ \/ \E i \in Items : PublishMessage(i) \/ Expire(i) \/ Deliver(i)
     \/ ConsumeMessages
     \/ CloseDone \/ StopPool \/ CloseChannel
     \/ ChannelLost \/ Crash
     \/ \E n \in Sizes : PoolResize(n)
     \/ \E g \in Goroutines : PoolWorker(g)

(* Runnable goroutines run, a StopConsumer that began goes on, and the broker *)
(* delivers. Nobody has to publish, stop, resize or fail.                     *)
TCFairness ==
  /\ WF_tcVars(alive /\ ConsumeMessages)
  /\ WF_tcVars(alive /\ StopPool)
  /\ WF_tcVars(alive /\ CloseChannel)
  /\ \A g \in Goroutines : WF_tcVars(alive /\ PoolWorker(g))
  /\ \A i \in Items : WF_tcVars(alive /\ Deliver(i))

TCSpec == TCInit /\ [][TCNext]_tcVars /\ TCFairness

-----------------------------------------------------------------------------
(* Type invariant.                                                           *)
TCTypeOK ==
  /\ TypeOK
  /\ loc \in [Items -> Places]
  /\ inbox \in Seq(Items)
  /\ chanOpen \in BOOLEAN /\ cdone \in BOOLEAN /\ alive \in BOOLEAN
  /\ cpc \in LoopPC
  /\ cur \in Items \cup {NoItem}
  /\ cur # NoItem <=> cpc \in Settling \cup {"got"}

(* While the channel is open every unsettled delivery is in exactly one place *)
(* of the client, its buffer or the goroutine's hands, so each delivery tag   *)
(* is settled once and none is forgotten.                                     *)
InBuffer(i) == \E k \in DOMAIN inbox : inbox[k] = i
UnackedTracked ==
  chanOpen =>
    /\ \A i \in Items : loc[i] = "unacked" <=> InBuffer(i) \/ cur = i
    /\ \A j, k \in DOMAIN inbox : inbox[j] = inbox[k] => j = k
    /\ ~InBuffer(cur)

(* A message has one owner: what the pool has accepted the broker does not    *)
(* offer again while the channel is open, and what is acknowledged was        *)
(* accepted.                                                                  *)
SingleOwner ==
  \A i \in Items :
    /\ loc[i] = "acked" => Submitted(i)
    /\ chanOpen /\ Submitted(i) => loc[i] \in {"unacked", "acked"}

(* What a crash can lose: acknowledged messages nobody has processed. There   *)
(* are never more of them than the pool's queue and its workers hold.         *)
AtRisk == {i \in Items : loc[i] = "acked" /\ outcome[i] = "accepted"}
LossBounded == Cardinality(AtRisk) <= Cap + Cardinality(Live)

(* Every ready message is acknowledged or dead-lettered as long as the        *)
(* consumer is neither stopped nor cut off, even when the full pool sends it  *)
(* back again and again.                                                      *)
ReadyIsConsumed ==
  \A i \in Items :
    loc[i] = "ready" ~> (loc[i] \in {"acked", "dead"} \/ cdone \/ ~chanOpen)

(* StopConsumer gives every unsettled delivery back to the broker, unless the *)
(* pool's Stop panics.                                                        *)
StopReleases ==
  cdone ~> (stop = "panicked" \/ \A i \in Items : loc[i] # "unacked")

-----------------------------------------------------------------------------
(* README.md:283 "Wait for worker pools to finish processing": once Stop has  *)
(* returned no acknowledged message is unprocessed.                           *)
GracefulStopDrains == stop = "returned" => AtRisk = {}
=============================================================================
