----------------------------- MODULE WorkerPool -----------------------------
(***************************************************************************)
(* One tenant's worker pool (internal/tenant/worker_pool.go): a bounded    *)
(* channel of work items, the worker goroutines that drain it with retry   *)
(* and backoff, the runtime Resize, the graceful Stop, and the two tables  *)
(* the workers write (messages, dead_letter_messages).                     *)
(*                                                                         *)
(* Several goroutines call the pool at once: the tenant's consumer calls   *)
(* Submit, HTTP requests call Resize, one shutdown path calls Stop.        *)
(***************************************************************************)
EXTENDS Integers, Sequences, FiniteSets

CONSTANTS
  Items,          \* work items; one per delivery handed to Submit
  NoItem,         \* what an idle worker holds
  Messages,       \* message ids, the key of the messages table
  MsgOf,          \* MsgOf[i]: WorkItem.MessageID of item i
  RetryHeader,    \* RetryHeader[i]: WorkItem.RetryCount of i when it is submitted
  BadPayload,     \* the items whose payload is not a JSON object
  InitWorkers,    \* the pool's initial number of workers
  QueueFactor,    \* capacity of workChan per initial worker (10 in the code)
  MaxRetry,       \* wp.maxRetry
  Sizes,          \* the worker counts Resize is asked for
  MaxGoroutines,  \* bound: worker goroutines ever started
  MaxResizes      \* bound: calls of Resize

ASSUME PoolAssumption ==
  /\ NoItem \notin Items
  /\ MsgOf \in [Items -> Messages]
  /\ RetryHeader \in [Items -> Nat]
  /\ BadPayload \subseteq Items
  /\ InitWorkers \in Nat \ {0}
  /\ QueueFactor \in Nat \ {0}
  /\ MaxRetry \in Nat
  /\ Sizes \subseteq Int
  /\ MaxGoroutines \in Nat
  /\ InitWorkers <= MaxGoroutines
  /\ MaxResizes \in Nat

Goroutines == 1..MaxGoroutines
Cap        == InitWorkers * QueueFactor

VARIABLES
  workers,     \* wp.workers, the count Resize and GetWorkerCount see
  workChan,    \* wp.workChan, the buffered items in order
  done,        \* TRUE when wp.doneChan is closed
  wg,          \* counter of wp.wg
  stop,        \* control point of the one call of Stop
  spawned,     \* number of worker goroutines started so far
  resizes,     \* number of calls of Resize so far
  pc,          \* control point of each worker goroutine
  item,        \* the item each worker goroutine is processing
  attempt,     \* loop variable of processWithRetry
  row,         \* messages.status, "absent" when there is no row
  retryCount,  \* messages.retry_count
  deadLetters, \* the items with a row in dead_letter_messages
  outcome,     \* history: how far each item got
  calls        \* history: calls of handleMessage made for each item

poolVars == <<workers, workChan, done, wg, stop, spawned, resizes>>
goVars   == <<pc, item, attempt>>
dbVars   == <<row, retryCount, deadLetters>>
histVars == <<outcome, calls>>
vars     == <<poolVars, goVars, dbVars, histVars>>

BusyPC   == {"handle", "update", "sleep", "failed", "deadLetter", "markFailed"}
PC       == {"absent", "select", "exited"} \cup BusyPC
StopPC   == {"open", "closed", "waiting", "woken", "returned", "panicked"}
Status   == {"absent", "pending", "processing", "completed", "failed"}
Settled  == {"done", "gaveUp", "deadLettered"}
Outcomes == {"unsubmitted", "refused", "accepted"} \cup Settled

Live     == {g \in Goroutines : pc[g] \notin {"absent", "exited"}}
Submitted(i) == outcome[i] \notin {"unsubmitted", "refused"}

-----------------------------------------------------------------------------
(* NewWorkerPool: the channel is sized once, from the initial worker count, *)
(* and Start launches that many workers. A row is already there when the    *)
(* API created the message (status pending).                                *)
Init ==
  /\ workers = InitWorkers
  /\ workChan = <<>>
  /\ done = FALSE
  /\ wg = InitWorkers
  /\ stop = "open"
  /\ spawned = InitWorkers
  /\ resizes = 0
  /\ pc = [g \in Goroutines |-> IF g <= InitWorkers THEN "select" ELSE "absent"]
  /\ item = [g \in Goroutines |-> NoItem]
  /\ attempt = [g \in Goroutines |-> 0]
  /\ row \in [Messages -> {"absent", "pending"}]
  /\ retryCount = [m \in Messages |-> 0]
  /\ deadLetters = {}
  /\ outcome = [i \in Items |-> "unsubmitted"]
  /\ calls = [i \in Items |-> 0]

(* The goroutines Resize starts, and what it adds to the WaitGroup for them.  *)
StartedTooFew(diff) == IF diff > 1 THEN (spawned + 1)..(spawned + diff - 1) ELSE {}
Started(diff) == IF diff > 0 THEN (spawned + 1)..(spawned + diff) ELSE {}

AddedOnce(started) == 1
Added(started) == Cardinality(started)

(* Resize, whole under wp.mu. Growing starts goroutines; shrinking only      *)
(* stores the smaller count. Nothing checks doneChan. The last conjunct of   *)
(* the guard is the bound on goroutines.                                     *)
Resize(n) ==
  LET newCount == IF n <= 0 THEN 1 ELSE n
      diff     == newCount - workers
      started  == Started(diff)
  IN /\ resizes < MaxResizes
     /\ spawned + diff <= MaxGoroutines
     /\ workers' = newCount
     /\ wg' = wg + Added(started)
     /\ spawned' = spawned + Cardinality(started)
     /\ pc' = [g \in Goroutines |-> IF g \in started THEN "select" ELSE pc[g]]
     /\ resizes' = resizes + 1
     /\ UNCHANGED <<workChan, done, stop, item, attempt, dbVars, histVars>>

(* Submit: a select over the send, the closed doneChan and default. When     *)
(* the send and the done case are both ready Go picks either.                *)
SubmitAcceptUnbounded(i) ==
  /\ workChan' = Append(workChan, i)
  /\ outcome' = [outcome EXCEPT ![i] = "accepted"]
  /\ UNCHANGED <<workers, done, wg, stop, spawned, resizes, goVars, dbVars, calls>>

SubmitAccept(i) ==
  /\ Len(workChan) < Cap
  /\ workChan' = Append(workChan, i)
  /\ outcome' = [outcome EXCEPT ![i] = "accepted"]
  /\ UNCHANGED <<workers, done, wg, stop, spawned, resizes, goVars, dbVars, calls>>

SubmitRefuse(i) ==
  /\ done \/ Len(workChan) >= Cap
  /\ outcome' = [outcome EXCEPT ![i] = "refused"]
  /\ UNCHANGED <<poolVars, goVars, dbVars, calls>>

Submit(i) == SubmitAccept(i) \/ SubmitRefuse(i)

(* A delivery becomes an item, its retry count read from the x-retry-count    *)
(* header, and is submitted until it is accepted: a refused one comes back.   *)
SubmitRabbitMQMessage(i) == ~Submitted(i) /\ Submit(i)

-----------------------------------------------------------------------------
(* Stop: close(doneChan), then wg.Wait. Wait returns at once on a zero        *)
(* counter; otherwise the Done that brings the counter to zero wakes it, and  *)
(* a waiter that finds the counter raised again on waking panics (the         *)
(* WaitGroup was reused before Wait returned).                                *)
StopClose ==
  /\ stop = "open"
  /\ done' = TRUE
  /\ stop' = "closed"
  /\ UNCHANGED <<workers, workChan, wg, spawned, resizes, goVars, dbVars, histVars>>

StopWait ==
  /\ stop = "closed"
  /\ stop' = IF wg = 0 THEN "returned" ELSE "waiting"
  /\ UNCHANGED <<workers, workChan, done, wg, spawned, resizes, goVars, dbVars, histVars>>

StopReturn ==
  /\ stop = "woken"
  /\ stop' = IF wg = 0 THEN "returned" ELSE "panicked"
  /\ UNCHANGED <<workers, workChan, done, wg, spawned, resizes, goVars, dbVars, histVars>>

-----------------------------------------------------------------------------
(* The worker goroutine: a select over doneChan and workChan.               *)
Exit(g) ==
  /\ pc[g] = "select"
  /\ done
  /\ pc' = [pc EXCEPT ![g] = "exited"]
  /\ wg' = wg - 1
  /\ stop' = IF stop = "waiting" /\ wg = 1 THEN "woken" ELSE stop
  /\ UNCHANGED <<workers, workChan, done, spawned, resizes, item, attempt, dbVars, histVars>>

TakePeek(g) ==
  /\ pc[g] = "select"
  /\ workChan # <<>>
  /\ item' = [item EXCEPT ![g] = Head(workChan)]
  /\ attempt' = [attempt EXCEPT ![g] = 0]
  /\ pc' = [pc EXCEPT ![g] = "handle"]
  /\ UNCHANGED <<poolVars, dbVars, histVars>>

Take(g) ==
  /\ pc[g] = "select"
  /\ workChan # <<>>
  /\ item' = [item EXCEPT ![g] = Head(workChan)]
  /\ workChan' = Tail(workChan)
  /\ attempt' = [attempt EXCEPT ![g] = 0]
  /\ pc' = [pc EXCEPT ![g] = "handle"]
  /\ UNCHANGED <<workers, done, wg, stop, spawned, resizes, dbVars, histVars>>

(* processWithRetry after an error of handleMessage: give up when the retries *)
(* are used, else sleep the backoff.                                          *)
ExhaustedLate(g) == attempt[g] > MaxRetry
ExhaustedEarly(g) == attempt[g] + 1 >= MaxRetry
Exhausted(g) == attempt[g] + 1 > MaxRetry

Fail(g) == pc' = [pc EXCEPT ![g] = IF Exhausted(g) THEN "failed" ELSE "sleep"]

(* item.RetryCount as the loop's own copy of the item holds it.              *)
AttemptOnly(g) == attempt[g]
LocalRetryCount(g) == IF attempt[g] = 0 THEN RetryHeader[item[g]] ELSE attempt[g]

(* An UPDATE ... WHERE id AND tenant_id: no effect without a row.            *)
SetStatus(m, s) == IF row[m] = "absent" THEN row ELSE [row EXCEPT ![m] = s]

(* handleMessage up to the upsert that marks the row processing. An error of  *)
(* the statement (a timeout, say) leaves open whether it took effect.         *)
Upsert(g) ==
  LET m == MsgOf[item[g]] IN
  /\ row' = [row EXCEPT ![m] = "processing"]
  /\ retryCount' = [retryCount EXCEPT ![m] = LocalRetryCount(g)]

Handle(g) ==
  /\ pc[g] = "handle"
  /\ calls' = [calls EXCEPT ![item[g]] = @ + 1]
  /\ \/ item[g] \notin BadPayload /\ Upsert(g) /\ pc' = [pc EXCEPT ![g] = "update"]
     \/ item[g] \notin BadPayload /\ Upsert(g) /\ Fail(g)
     \/ UNCHANGED <<row, retryCount>> /\ Fail(g)
  /\ UNCHANGED <<poolVars, item, attempt, deadLetters, outcome>>

(* processWork returns to the worker's loop.                                 *)
FinishAndReturn(g, how) ==
  /\ outcome' = [outcome EXCEPT ![item[g]] = how]
  /\ item' = [item EXCEPT ![g] = NoItem]
  /\ pc' = [pc EXCEPT ![g] = "exited"]

Finish(g, how) ==
  /\ outcome' = [outcome EXCEPT ![item[g]] = how]
  /\ item' = [item EXCEPT ![g] = NoItem]
  /\ pc' = [pc EXCEPT ![g] = "select"]

(* The rest of handleMessage: the simulated failure or a database error, or   *)
(* the UPDATE that marks the row completed.                                   *)
Update(g) ==
  /\ pc[g] = "update"
  /\ \/ row' = SetStatus(MsgOf[item[g]], "completed") /\ Finish(g, "done")
     \/ /\ row' \in {row, SetStatus(MsgOf[item[g]], "completed")}
        /\ Fail(g)
        /\ UNCHANGED <<item, outcome>>
  /\ UNCHANGED <<poolVars, attempt, retryCount, deadLetters, calls>>

(* The backoff sleep ends; it does not watch doneChan.                       *)
Wake(g) ==
  /\ pc[g] = "sleep"
  /\ attempt' = [attempt EXCEPT ![g] = @ + 1]
  /\ pc' = [pc EXCEPT ![g] = "handle"]
  /\ UNCHANGED <<poolVars, item, dbVars, histVars>>

(* processWork after the last retry. processWithRetry counted the retries in  *)
(* its own copy of the item, so the test sees the count the item came with.   *)
MovesToDeadLetter(g) == RetryHeader[item[g]] >= MaxRetry

GiveUp(g) ==
  /\ pc[g] = "failed"
  /\ \/ MovesToDeadLetter(g) /\ pc' = [pc EXCEPT ![g] = "deadLetter"] /\ UNCHANGED <<item, outcome>>
     \/ ~MovesToDeadLetter(g) /\ Finish(g, "gaveUp")
  /\ UNCHANGED <<poolVars, attempt, dbVars, calls>>

(* moveToDeadLetter: two statements, each of which may fail and is not        *)
(* retried.                                                                   *)
InsertDeadLetter(g) ==
  /\ pc[g] = "deadLetter"
  /\ deadLetters' \in {deadLetters, deadLetters \cup {item[g]}}
  /\ pc' = [pc EXCEPT ![g] = "markFailed"]
  /\ UNCHANGED <<poolVars, item, attempt, row, retryCount, histVars>>

MarkFailed(g) ==
  /\ pc[g] = "markFailed"
  /\ row' \in {row, SetStatus(MsgOf[item[g]], "failed")}
  /\ Finish(g, "deadLettered")
  /\ UNCHANGED <<poolVars, attempt, retryCount, deadLetters, calls>>

Worker(g) ==
  \/ Exit(g) \/ Take(g) \/ Handle(g) \/ Update(g) \/ Wake(g)
  \/ GiveUp(g) \/ InsertDeadLetter(g) \/ MarkFailed(g)

-----------------------------------------------------------------------------
Next ==
  \/ \E i \in Items : SubmitRabbitMQMessage(i)
  \/ \E n \in Sizes : Resize(n)
  \/ StopClose \/ StopWait \/ StopReturn
  \/ \E g \in Goroutines : Worker(g)

(* The Go scheduler runs every runnable goroutine: a worker that can step     *)
(* steps, a Stop that was called goes on. Nobody has to call Submit, Resize   *)
(* or Stop.                                                                   *)
Fairness ==
  /\ \A g \in Goroutines : WF_vars(Worker(g))
  /\ WF_vars(StopWait) /\ WF_vars(StopReturn)

Spec == Init /\ [][Next]_vars /\ Fairness

-----------------------------------------------------------------------------
(* Type invariant.                                                           *)
TypeOK ==
  /\ workers \in Nat \ {0}
  /\ workChan \in Seq(Items) /\ Len(workChan) <= Cap
  /\ done \in BOOLEAN
  /\ wg \in Int
  /\ stop \in StopPC
  /\ spawned \in 0..MaxGoroutines
  /\ resizes \in 0..MaxResizes
  /\ pc \in [Goroutines -> PC]
  /\ item \in [Goroutines -> Items \cup {NoItem}]
  /\ attempt \in [Goroutines -> 0..MaxRetry]
  /\ row \in [Messages -> Status]
  /\ retryCount \in [Messages -> Nat]
  /\ deadLetters \subseteq Items
  /\ outcome \in [Items -> Outcomes]
  /\ calls \in [Items -> Nat]

(* The WaitGroup counts exactly the running workers, whatever mix of Start,   *)
(* Resize and worker exits led here: Stop can neither return early nor wait   *)
(* for a worker that is gone.                                                 *)
WaitGroupExact == wg = Cardinality(Live)

(* Until the pool is stopped at least as many workers run as the count        *)
(* Resize stored and GetWorkerCount reports.                                  *)
NeverUnderProvisioned == ~done => workers <= Cardinality(Live)

(* Stop returns (rather than panics) only at an instant at which no worker    *)
(* goroutine is running: every item a worker had taken is settled.            *)
StopReturnsQuiet ==
  [][(stop # "returned" /\ stop' = "returned") => Live' = {}]_vars

(* An accepted item is in exactly one place, the channel or one worker, until *)
(* it is settled: never processed by two workers, never dropped while the     *)
(* pool lives.                                                                *)
QueuedOnce == \A j, k \in DOMAIN workChan : workChan[j] = workChan[k] => j = k
HeldOnce   == \A g, h \in Goroutines : item[g] # NoItem /\ item[g] = item[h] => g = h
NotBoth    == \A g \in Goroutines, k \in DOMAIN workChan : workChan[k] # item[g]
Accounted  == \A i \in Items : outcome[i] = "accepted"
                <=> (\E k \in DOMAIN workChan : workChan[k] = i)
                    \/ (\E g \in Goroutines : item[g] = i)
ItemHeldOnce == QueuedOnce /\ HeldOnce /\ NotBoth /\ Accounted

(* processWithRetry gives up only after MaxRetry + 1 calls of handleMessage,  *)
(* and no item is handled more often than that.                               *)
RetryBudgetSpent ==
  \A i \in Items :
    /\ calls[i] <= MaxRetry + 1
    /\ outcome[i] \in {"gaveUp", "deadLettered"} => calls[i] = MaxRetry + 1
    /\ i \in deadLetters => calls[i] = MaxRetry + 1

(* When handleMessage succeeded and the message was delivered only once, its  *)
(* row says completed with the number of failed attempts as retry_count, and  *)
(* no later step of any worker changes that.                                  *)
DeliveredOnce(i) == \A j \in Items \ {i} : MsgOf[j] = MsgOf[i] => ~Submitted(j)
CompletedIsRecorded ==
  \A i \in Items :
    outcome[i] = "done" /\ DeliveredOnce(i) =>
      /\ row[MsgOf[i]] = "completed"
      /\ retryCount[MsgOf[i]] = IF calls[i] = 1 THEN RetryHeader[i] ELSE calls[i] - 1

(* The pool implements its contract with the consumer: one take-over and one  *)
(* settlement per accepted item, whichever worker, retry or late Resize is    *)
(* involved. By the contract's fairness an accepted item is settled unless    *)
(* the pool is stopped, and Stop comes back, even while late calls of Resize  *)
(* start more workers and sleeping workers finish their retries.              *)
ItemState(i) ==
  CASE outcome[i] \in {"unsubmitted", "refused"} -> "new"
    [] outcome[i] = "accepted" -> "held"
    [] outcome[i] \in Settled -> "settled"
Phase ==
  CASE stop = "open" -> "open"
    [] stop \in {"closed", "waiting", "woken"} -> "stopping"
    [] stop = "returned" -> "stopped"
    [] stop = "panicked" -> "panicked"

Contract == INSTANCE PoolContract
              WITH state <- [i \in Items |-> ItemState(i)], phase <- Phase

ImplementsContract == Contract!Spec

-----------------------------------------------------------------------------
(* What a comment says and the code does not do (see the README).             *)

(* worker_pool.go:141 "Max retry reached, move to DLQ": no item that used up  *)
(* its retries is dropped without an attempt to dead-letter it.               *)
ExhaustedIsDeadLettered == \A i \in Items : outcome[i] # "gaveUp"
=============================================================================
