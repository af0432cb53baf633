---------------------------- MODULE Provisioning ----------------------------
(***************************************************************************)
(* From the environment to a tenant's consumer: config.Load, the start of  *)
(* main, SpawnConsumer with declareTenantQueues and NewWorkerPool, and the *)
(* broker's queues of one tenant, which outlive the process.               *)
(*                                                                         *)
(* Queues of different tenants have different names, so one tenant stands  *)
(* for all. The declaration and the deletion of internal/rabbitmq and of   *)
(* the manager send the same frames; a Caller runs either, one frame per   *)
(* step, and its connection may fail between any two. Messages are         *)
(* transient and publishing is not confirmed. Integers of Go's type int32  *)
(* have Width bits, those of int and time.Duration LongWidth.              *)
(***************************************************************************)
EXTENDS Integers, Sequences

CONSTANTS
  Callers,    \* goroutines that declare, delete or spawn
  Msgs,
  Envs,       \* environments the process may be started in
  RowWorkers, \* what a tenant's row may say: 1 to 50
  Width, LongWidth,     \* 32 and 64
  Millisecond,          \* 10^6: a Duration counts nanoseconds
  MaxCap,               \* the largest capacity that make takes
  DefaultDefault, DefaultMax, DefaultTTL,  \* 3, 50 and 30000
  MaxStarts, MaxCalls,  \* bounds: starts of the process, calls
  Unset, Garbage,  \* a variable that is empty, one that is no number
  None, Absent  \* nothing there; no queue

HalfRange == 2^(Width - 1)
HalfLong  == 2^(LongWidth - 1)

(* What the proofs use of the powers; true for widths above 0.                *)
ASSUME RangeAssumption == {HalfRange, HalfLong} \subseteq Nat \ {0}

(* A number of the environment is an int: Atoi refuses any other.             *)
ASSUME ProvisioningAssumption ==
  /\ RowWorkers \subseteq Nat \ {0}
  /\ Width \in Nat \ {0} /\ LongWidth \in Nat \ {0}
  /\ Millisecond \in Nat \ {0} /\ MaxCap \in Nat
  /\ DefaultDefault \in Nat /\ DefaultMax \in Nat /\ DefaultTTL \in Nat
  /\ MaxStarts \in Nat /\ MaxCalls \in Nat
  /\ None \notin Int /\ Absent \notin Int /\ None # Absent /\ None \notin Callers
  /\ \A e \in Envs : /\ e.secret \in BOOLEAN /\ e.expiryParses \in BOOLEAN
                     /\ {e.workers, e.max, e.ttl} \subseteq -HalfLong..HalfLong - 1 \cup {Unset, Garbage}

VARIABLES
  proc,      \* how far main has come: "down", "loaded", "migrated", "serving"
  conf,      \* the configuration it loaded; its ttl is a Duration
  ttlMs,     \* history: the MESSAGE_TTL_MS that conf.ttl was made from
  dlx, dlq, bound,  \* the dead letter exchange and queue, their binding
  queue,     \* the main queue: its x-message-ttl or None; Absent
  declaredAs,\* history: the ttlMs of the declarations that this queue took
  place,     \* where each message is
  todo,      \* the frames a caller has still to send, and the pool it has to make
  workers,   \* the count it spawns with
  lock,      \* who holds the manager's mutex
  consumer,  \* the tenant's entry in the manager's map, or None
  spawned,   \* the tenant was created: its SpawnConsumer was called
  starts, calls,
  ready,     \* history: declared, and no deletion begun since
  overlapped,\* history: a declaration and a deletion were under way together
  promised   \* history: messages that reached the broker while ready

procVars   == <<proc, conf, ttlMs, consumer, lock, starts>>
queueVars  == <<dlx, dlq, bound, queue, declaredAs>>
brokerVars == <<queueVars, place>>
callVars   == <<todo, workers, spawned, calls>>
histVars   == <<ready, overlapped, promised>>
vars       == <<procVars, brokerVars, callVars, histVars>>

Conf == [workers : Int, max : Int, ttl : Int]

-----------------------------------------------------------------------------
(* Go keeps the low bits of a product or of a narrowing conversion.           *)
Wrapped(n, half) == ((n + half) % (2 * half)) - half
Int32(n) == Wrapped(n, HalfRange)
Int64(n) == Wrapped(n, HalfLong)

(* config.go: a variable that is empty or no number gives the default; any    *)
(* number is taken. Milliseconds become a Duration.                           *)
getEnvAsInt(value, default) == IF value \in {Unset, Garbage} THEN default ELSE value

Duration(ms) == Int64(ms * Millisecond)

MillisecondsOf(e) == getEnvAsInt(e.ttl, DefaultTTL)

Configured(e) == [workers |-> getEnvAsInt(e.workers, DefaultDefault),
                  max |-> getEnvAsInt(e.max, DefaultMax),
                  ttl |-> Duration(MillisecondsOf(e))]

(* The x-message-ttl argument, in whole milliseconds, for a TTL above 0.      *)
MessageTTLFromZero(ttl) == IF ttl >= 0 THEN Int32(ttl \div Millisecond) ELSE None
MessageTTL(ttl) == IF ttl > 0 THEN Int32(ttl \div Millisecond) ELSE None

(* SpawnConsumer: the default for 0 or less, then the maximum.                *)
SpawnConcurrency(w) ==
  LET c == IF w <= 0 THEN conf.workers ELSE w
  IN IF c > conf.max THEN conf.max ELSE c

(* Start raises 0 or less to 1, after make(chan, workers*10) took the         *)
(* capacity. A product that wraps may be one that make takes.                 *)
StartAsGiven(w) == w
Started(w) == IF w <= 0 THEN 1 ELSE w
PoolCap(w) == Int64(w * 10)
MakePanics(w) == PoolCap(w) \notin 0..MaxCap

(* The frames of a declaration and of a deletion, in the order sent.          *)
QueueFirst == <<"queue", "dlx", "dlq", "bind">>
DeclareFrames == <<"dlx", "dlq", "bind", "queue">>
ExchangeFirst == <<"delDLX", "delDLQ", "delQueue">>
DeleteFrames == <<"delQueue", "delDLQ", "delDLX">>

Has(c, frames) == \E i \in DOMAIN todo[c] : todo[c][i] \in frames
Declaring(c) == Has(c, {"dlx", "dlq", "bind", "queue"})
Deleting(c)  == Has(c, {"delQueue", "delDLQ", "delDLX"})

-----------------------------------------------------------------------------
Init ==
  /\ proc = "down" /\ conf = None /\ ttlMs = 0 /\ consumer = None /\ lock = None /\ starts = 0
  /\ dlx = FALSE /\ dlq = FALSE /\ bound = FALSE /\ queue = Absent /\ declaredAs = {}
  /\ place = [m \in Msgs |-> "unsent"]
  /\ todo = [c \in Callers |-> <<>>]
  /\ workers = [c \in Callers |-> 0] /\ spawned = FALSE /\ calls = 0
  /\ ready = FALSE /\ overlapped = FALSE /\ promised = {}

(* config.Load: without JWT_SECRET, or with a JWT_EXPIRY that does not parse, *)
(* the process ends.                                                          *)
Load(e) ==
  /\ proc = "down" /\ starts < MaxStarts
  /\ starts' = starts + 1
  /\ IF e.secret /\ e.expiryParses
     THEN proc' = "loaded" /\ conf' = Configured(e) /\ ttlMs' = MillisecondsOf(e)
     ELSE UNCHANGED <<proc, conf, ttlMs>>
  /\ UNCHANGED <<consumer, lock, brokerVars, callVars, histVars>>

(* main: the database and its migrations, then the broker and an empty        *)
(* manager. Each may fail, which ends the process.                            *)
StartUp ==
  /\ \/ proc = "loaded" /\ proc' \in {"migrated", "down"}
     \/ proc = "migrated" /\ proc' \in {"serving", "down"}
  /\ UNCHANGED <<conf, ttlMs, consumer, lock, starts, brokerVars, callVars, histVars>>

(* The process ends; the broker does not.                                     *)
ProcessEnds ==
  /\ proc = "serving"
  /\ proc' = "down" /\ consumer' = None /\ lock' = None
  /\ todo' = [c \in Callers |-> <<>>]
  /\ workers' = [c \in Callers |-> 0]
  /\ UNCHANGED <<conf, ttlMs, starts, brokerVars, spawned, calls, histVars>>

-----------------------------------------------------------------------------
Begin(c, frames) ==
  /\ proc = "serving" /\ todo[c] = <<>> /\ calls < MaxCalls
  /\ calls' = calls + 1
  /\ todo' = [todo EXCEPT ![c] = frames]

(* SpawnConsumer under m.mu, called once for a new tenant, up to the open     *)
(* channel.                                                                   *)
SpawnConsumer(c) ==
  /\ lock = None /\ ~spawned /\ consumer = None
  /\ Begin(c, DeclareFrames \o <<"pool">>)
  /\ spawned' = TRUE /\ lock' = c
  /\ \E w \in RowWorkers : workers' = [workers EXCEPT ![c] = SpawnConcurrency(w)]
  /\ overlapped' = (overlapped \/ \E d \in Callers : Deleting(d))
  /\ UNCHANGED <<proc, conf, ttlMs, consumer, starts, brokerVars, ready, promised>>

DeclareTenantQueue(c) ==
  /\ Begin(c, DeclareFrames)
  /\ overlapped' = (overlapped \/ \E d \in Callers : Deleting(d))
  /\ UNCHANGED <<procVars, brokerVars, workers, spawned, ready, promised>>

DeleteTenantQueue(c) ==
  /\ Begin(c, DeleteFrames)
  /\ overlapped' = (overlapped \/ \E d \in Callers : Declaring(d))
  /\ ready' = FALSE
  /\ UNCHANGED <<procVars, brokerVars, workers, spawned, promised>>

-----------------------------------------------------------------------------
(* The broker's side. It binds what exists, refuses a negative TTL and a      *)
(* queue that exists with other arguments, and deletes what is not there.     *)
Accepts(frame) ==
  LET ttl == MessageTTL(conf.ttl) IN
  /\ frame = "bind" => dlx /\ dlq
  /\ frame = "queue" => (ttl # None => ttl >= 0) /\ queue \in {Absent, ttl}

Purged(from) == [m \in Msgs |-> IF place[m] = from THEN "purged" ELSE place[m]]

Apply(frame) ==
  /\ dlx' = IF frame \in {"dlx", "delDLX"} THEN frame = "dlx" ELSE dlx
  /\ dlq' = IF frame \in {"dlq", "delDLQ"} THEN frame = "dlq" ELSE dlq
  /\ bound' = CASE frame = "bind" -> TRUE
                [] frame \in {"delDLQ", "delDLX"} -> FALSE
                [] OTHER -> bound
  /\ queue' = CASE frame = "queue" -> MessageTTL(conf.ttl)
                [] frame = "delQueue" -> Absent
                [] OTHER -> queue
  /\ declaredAs' = CASE frame = "queue" -> declaredAs \cup {ttlMs}
                     [] frame = "delQueue" -> {}
                     [] OTHER -> declaredAs
  /\ place' = CASE frame = "delQueue" -> Purged("queue")
                [] frame = "delDLQ" -> Purged("dlq")
                [] OTHER -> place

(* SpawnConsumer's unlock is deferred: it runs however the call ends, when    *)
(* make panics too.                                                           *)
Unlocked(c) == IF lock = c THEN None ELSE lock

Return(c) ==
  /\ todo' = [todo EXCEPT ![c] = <<>>]
  /\ workers' = [workers EXCEPT ![c] = 0]
  /\ lock' = Unlocked(c)

(* The next frame is answered; after the last one the call returns.           *)
Send(c) ==
  LET frame == Head(todo[c]) IN
  /\ todo[c] # <<>> /\ frame # "pool" /\ Accepts(frame)
  /\ Apply(frame)
  /\ ready' = (ready \/ (frame = "queue" /\ ~\E d \in Callers : Deleting(d)))
  /\ IF Len(todo[c]) = 1 THEN Return(c)
     ELSE todo' = [todo EXCEPT ![c] = Tail(@)] /\ UNCHANGED <<workers, lock>>
  /\ UNCHANGED <<proc, conf, ttlMs, consumer, starts, spawned, calls, overlapped, promised>>

(* The frame is refused, or the connection fails before or after it took      *)
(* effect: the call returns the error and leaves the rest undone.             *)
SendFails(c) ==
  LET frame == Head(todo[c]) IN
  /\ todo[c] # <<>> /\ frame # "pool"
  /\ UNCHANGED brokerVars \/ (Accepts(frame) /\ Apply(frame))
  /\ Return(c)
  /\ UNCHANGED <<proc, conf, ttlMs, consumer, starts, spawned, calls, histVars>>

(* NewWorkerPool and the entry in the map, or the panic of make.              *)
MakePool(c) ==
  /\ todo[c] = <<"pool">>
  /\ IF MakePanics(workers[c]) THEN UNCHANGED consumer
     ELSE consumer' = [workers |-> Started(workers[c]), cap |-> PoolCap(workers[c])]
  /\ Return(c)
  /\ UNCHANGED <<proc, conf, ttlMs, starts, brokerVars, spawned, calls, histVars>>

Call(c) == Send(c) \/ SendFails(c) \/ MakePool(c)

-----------------------------------------------------------------------------
(* PublishMessage and Publish return nil once the frames are written, to the  *)
(* default exchange, not mandatory and unconfirmed.                           *)
PublishMessage(m) ==
  /\ proc = "serving" /\ place[m] = "unsent"
  /\ place' = [place EXCEPT ![m] = "sent"]
  /\ UNCHANGED <<procVars, queueVars, callVars, histVars>>

(* The frames reach the broker. Without a queue the message is gone, and      *)
(* nobody is told.                                                            *)
Route(m) ==
  /\ place[m] = "sent"
  /\ place' = [place EXCEPT ![m] = IF queue = Absent THEN "unroutable" ELSE "queue"]
  /\ promised' = IF ready THEN promised \cup {m} ELSE promised
  /\ UNCHANGED <<procVars, queueVars, callVars, ready, overlapped>>

(* The connection fails with the frames; the error of the deferred Close is   *)
(* dropped.                                                                   *)
FramesLost(m) ==
  /\ place[m] = "sent"
  /\ place' = [place EXCEPT ![m] = "lost"]
  /\ UNCHANGED <<procVars, queueVars, callVars, histVars>>

(* The broker's node restarts: queues and exchanges are durable, the messages *)
(* in them are not. The calls it cuts off end in SendFails.                   *)
BrokerRestarts ==
  /\ \E m \in Msgs : place[m] \in {"queue", "dlq"}
  /\ place' = [m \in Msgs |-> IF place[m] \in {"queue", "dlq"} THEN "lost" ELSE place[m]]
  /\ UNCHANGED <<procVars, queueVars, callVars, histVars>>

(* A message outlives the queue's TTL, or the consumer rejects it: the broker *)
(* hands it to the dead letter exchange, if there is one.                     *)
DeadLetter(m) ==
  /\ place[m] = "queue"
  /\ queue # None \/ consumer # None
  /\ place' = [place EXCEPT ![m] = IF dlx /\ bound THEN "dlq" ELSE "dropped"]
  /\ UNCHANGED <<procVars, queueVars, callVars, histVars>>

Next ==
  \/ \E e \in Envs : Load(e)
  \/ StartUp \/ ProcessEnds
  \/ \E c \in Callers : SpawnConsumer(c) \/ DeclareTenantQueue(c) \/ DeleteTenantQueue(c) \/ Call(c)
  \/ \E m \in Msgs : PublishMessage(m) \/ Route(m) \/ FramesLost(m) \/ DeadLetter(m)
  \/ BrokerRestarts

Spec == Init /\ [][Next]_vars

-----------------------------------------------------------------------------
Places == {"unsent", "sent", "queue", "dlq", "dropped", "purged", "unroutable", "lost"}

(* Type invariant. Whatever the environment says, the broker never holds a    *)
(* negative TTL and a consumer in the map has a worker and a channel that     *)
(* make accepted. The manager's mutex is held by a SpawnConsumer under way    *)
(* and by nobody else: an error, a lost connection or a panic releases it.    *)
TypeOK ==
  /\ proc \in {"down", "loaded", "migrated", "serving"}
  /\ conf = None \/ conf \in Conf
  /\ ttlMs \in Int
  /\ consumer = None \/ consumer \in [workers : Nat \ {0}, cap : 0..MaxCap]
  /\ {dlx, dlq, bound, spawned, ready, overlapped} \subseteq BOOLEAN
  /\ queue \in {None, Absent} \/ queue \in 0..HalfRange - 1
  /\ declaredAs \subseteq Int
  /\ place \in [Msgs -> Places]
  /\ workers \in [Callers -> Int]
  /\ lock \in Callers \cup {None}
  /\ \A c \in Callers : (lock = c) <=> Has(c, {"pool"})
  /\ starts \in 0..MaxStarts /\ calls \in 0..MaxCalls

(* The order of the frames: as long as no deletion overlaps a declaration,    *)
(* the main queue exists only with the dead letter exchange, its queue and    *)
(* their binding, wherever a call was cut off and whatever was run before.    *)
DeadLetterHome == queue # Absent /\ ~overlapped => dlx /\ dlq /\ bound

(* What the broker discards without telling anybody. A message that reaches   *)
(* it after a declaration returned, with no deletion begun since, is never    *)
(* unroutable; on expiry or rejection it is dropped only if a deletion        *)
(* overlapped a declaration. Nothing is said of messages whose frames never   *)
(* arrive, and a restart of the broker may lose any.                          *)
NotDiscarded ==
  \A m \in promised : place[m] # "unroutable" /\ (place[m] = "dropped" => overlapped)

(* A number of milliseconds whose Duration does not wrap and whose int32 does *)
(* not come round.                                                            *)
Exact(ms) == ms * Millisecond \in -HalfLong..HalfLong - 1 /\ ms < 2 * HalfRange

(* MESSAGE_TTL_MS through time.Duration and int32, whichever processes made   *)
(* and redeclared the queue: it has the TTL that each of them was configured  *)
(* with, none for 0 or less, and a value that int32 makes negative gives no   *)
(* queue. Values outside Exact may wrap: a very negative one to a TTL, a      *)
(* large one to a short TTL or none.                                          *)
TTLAsConfigured ==
  queue # Absent => \A ms \in declaredAs : Exact(ms) => queue = (IF ms <= 0 THEN None ELSE ms)
=============================================================================
