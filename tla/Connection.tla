----------------------------- MODULE Connection -----------------------------
(***************************************************************************)
(* The wrapper around the AMQP connection (internal/rabbitmq/              *)
(* connection.go): Connect, the handleReconnect goroutine each Connect     *)
(* starts, NewChannel, Channel, GetConnection and Close, with main as the  *)
(* owner that connects, hands the connection to the tenant manager, and    *)
(* closes; and the Publisher (publisher.go), which opens a channel for     *)
(* every Publish and every transaction of PublishBatch.                    *)
(*                                                                         *)
(* AMQP connections are numbered as they are dialled; 0 is nil. Every      *)
(* method is one step under c.mu, except where it releases the lock in     *)
(* between and where Channel holds it while it calls Connect. The broker   *)
(* and the client library are external.                                    *)
(***************************************************************************)
EXTENDS Integers

CONSTANTS
  Publishers,  \* goroutines that call Publish or PublishBatch once
  Users,       \* goroutines that call Channel once
  BatchSize,   \* messages in a batch
  MaxConns,    \* bound: connections ever dialled
  MaxLosses    \* bound: connection losses and broker failures

ASSUME ConnectionAssumption ==
  /\ Publishers \cap Users = {}
  /\ BatchSize \in Nat \ {0}
  /\ MaxConns \in Nat
  /\ MaxLosses \in Nat

Callers == Publishers \cup Users
Conns   == 1..MaxConns

VARIABLES
  conn,      \* the AMQP connections: "none", "up", "lost" or "closed"
  dialled,   \* how many have been dialled
  current,   \* c.conn
  channel,   \* the connection c.channel was opened on
  closed,    \* c.closed, and c.reconnect is closed
  stuck,     \* a goroutine holds c.mu for ever
  watcher,   \* control point of the handleReconnect the k-th dial started
  listens,   \* the connection its closeChan was registered with
  owner,     \* control point of main
  mgr,       \* the connection main gave the tenant manager
  pc,        \* control point of each caller
  got,       \* the connection its local variable, or its channel, is of
  sent,      \* messages a publisher has sent in its transaction
  taken,     \* messages of a publisher that the broker has put in the queue
  brokerUp,  \* the broker accepts connections
  losses,    \* losses so far
  cut        \* history: publishers whose commit a broker failure met

connVars   == <<conn, dialled, current, channel, watcher>>
queueVars  == <<sent, taken>>
callerVars == <<pc, got, queueVars>>
mainVars   == <<owner, mgr>>
brokerVars == <<brokerUp, losses, cut>>
vars == <<connVars, closed, stuck, listens, mainVars, callerVars, brokerVars>>

WatcherPC == {"none", "register", "watching", "spinning", "sleeping", "exited"}
CallerPC  == {"idle", "check", "connect", "reread", "open", "tx", "batch", "commit",
              "upgrade", "held", "ok", "failed"}
OwnerPC   == {"start", "connected", "serving", "exited", "fatal"}

Up(k) == k # 0 /\ conn[k] = "up"

-----------------------------------------------------------------------------
Init ==
  /\ conn = [k \in Conns |-> "none"]
  /\ dialled = 0
  /\ current = 0
  /\ channel = 0
  /\ closed = FALSE
  /\ stuck = FALSE
  /\ watcher = [k \in Conns |-> "none"]
  /\ listens = [k \in Conns |-> 0]
  /\ owner = "start"
  /\ mgr = 0
  /\ pc = [c \in Callers |-> "idle"]
  /\ got = [c \in Callers |-> 0]
  /\ sent = [c \in Publishers |-> 0]
  /\ taken = [c \in Publishers |-> 0]
  /\ brokerUp = TRUE
  /\ losses = 0
  /\ cut = {}

(* Connect. It does not ask whether c.conn is still good: a connection it     *)
(* replaces is neither closed nor kept. At the bound MaxConns a dial fails.   *)
MayDialClosed == brokerUp /\ dialled < MaxConns
MayDial == ~closed /\ brokerUp /\ dialled < MaxConns

WatchFirst(w, k) == IF k = 1 THEN [w EXCEPT ![k] = "register"] ELSE w
Watch(w, k) == [w EXCEPT ![k] = "register"]

(* w is the watchers' control points with the calling goroutine's own step.   *)
ConnectOK(w) ==
  LET k == dialled + 1 IN
  /\ ~stuck /\ MayDial
  /\ dialled' = k
  /\ conn' = [conn EXCEPT ![k] = "up"]
  /\ current' = k
  /\ channel' = k
  /\ watcher' = Watch(w, k)

ConnectFails(w) ==
  /\ ~stuck /\ ~MayDial
  /\ watcher' = w
  /\ UNCHANGED <<conn, dialled, current, channel>>

-----------------------------------------------------------------------------
(* handleReconnect. NotifyClose on a connection that has ended closes the     *)
(* channel at once, and so does an orderly Close: the loop then reads nil     *)
(* without end.                                                               *)
Register(k) ==
  /\ watcher[k] = "register" /\ ~stuck
  /\ listens' = [listens EXCEPT ![k] = current]
  /\ watcher' = [watcher EXCEPT ![k] = IF Up(current) THEN "watching" ELSE "spinning"]
  /\ UNCHANGED <<conn, dialled, current, channel, closed, stuck, mainVars, callerVars, brokerVars>>

Notified(k) ==
  /\ watcher[k] = "watching"
  /\ conn[listens[k]] # "up"
  /\ watcher' = [watcher EXCEPT ![k] = IF conn[listens[k]] = "lost" THEN "sleeping" ELSE "spinning"]
  /\ UNCHANGED <<conn, dialled, current, channel, closed, stuck, listens, mainVars, callerVars, brokerVars>>

(* case <-c.reconnect. Go picks at random among the ready cases, so a         *)
(* spinning loop takes this one too.                                          *)
QuitWhileWatching(k) ==
  /\ watcher[k] = "watching" /\ closed
  /\ watcher' = [watcher EXCEPT ![k] = "exited"]
  /\ UNCHANGED <<conn, dialled, current, channel, closed, stuck, listens, mainVars, callerVars, brokerVars>>

Quit(k) ==
  /\ watcher[k] \in {"watching", "spinning"} /\ closed
  /\ watcher' = [watcher EXCEPT ![k] = "exited"]
  /\ UNCHANGED <<conn, dialled, current, channel, closed, stuck, listens, mainVars, callerVars, brokerVars>>

(* After the five seconds: one call of Connect, whose error is dropped.       *)
Reconnect(k) ==
  LET left == [watcher EXCEPT ![k] = "exited"] IN
  /\ watcher[k] = "sleeping"
  /\ ConnectOK(left) \/ ConnectFails(left)
  /\ UNCHANGED <<closed, stuck, listens, mainVars, callerVars, brokerVars>>

Watcher(k) == Register(k) \/ Notified(k) \/ Quit(k) \/ Reconnect(k)

-----------------------------------------------------------------------------
GoTo(c, label, k) ==
  /\ pc' = [pc EXCEPT ![c] = label]
  /\ got' = [got EXCEPT ![c] = k]

(* NewChannel: read c.conn under the read lock, look at it without, connect   *)
(* when it is of no use, read c.conn again and open a channel on it. A        *)
(* Publisher exists once main has connected.                                  *)
ReadConn(c) ==
  /\ pc[c] \in {"idle", "reread"} /\ ~stuck /\ owner # "start"
  /\ GoTo(c, IF pc[c] = "idle" THEN "check" ELSE "open", current)
  /\ UNCHANGED <<connVars, closed, stuck, listens, mainVars, queueVars, brokerVars>>

CheckConn(c) ==
  /\ pc[c] = "check"
  /\ GoTo(c, IF Up(got[c]) THEN "open" ELSE "connect", got[c])
  /\ UNCHANGED <<connVars, closed, stuck, listens, mainVars, queueVars, brokerVars>>

ConnectAgain(c) ==
  /\ pc[c] = "connect"
  /\ \/ ConnectOK(watcher) /\ GoTo(c, "reread", got[c])
     \/ ConnectFails(watcher) /\ GoTo(c, "failed", got[c])
  /\ UNCHANGED <<closed, stuck, listens, mainVars, queueVars, brokerVars>>

NewChannel(c) == ReadConn(c) \/ CheckConn(c) \/ ConnectAgain(c)

(* conn.Channel at the end of NewChannel, then Publish: the call returns when *)
(* the frames are written, without a confirmation, and they may be lost with  *)
(* the connection. It fails on a message that cannot be marshalled and on a   *)
(* connection that has ended.                                                 *)
Publish(c) ==
  /\ pc[c] = "open"
  /\ \/ Up(got[c]) /\ GoTo(c, "ok", got[c]) /\ taken' \in {taken, [taken EXCEPT ![c] = 1]}
     \/ GoTo(c, "failed", got[c]) /\ UNCHANGED taken
  /\ UNCHANGED <<connVars, closed, stuck, listens, mainVars, sent, brokerVars>>

(* PublishBatch: the channel, Tx, the messages, TxCommit. A message that      *)
(* cannot be marshalled rolls back, and a channel that ends does too: the     *)
(* broker may close it on a connection that lives. When it ends during the    *)
(* commit, that may have been carried out; when the broker itself fails then, *)
(* in part, as RabbitMQ promises no more.                                     *)
Tx(c) ==
  /\ pc[c] \in {"open", "tx"}
  /\ \/ Up(got[c]) /\ GoTo(c, IF pc[c] = "open" THEN "tx" ELSE "batch", got[c])
     \/ GoTo(c, "failed", got[c])
  /\ UNCHANGED <<connVars, closed, stuck, listens, mainVars, queueVars, brokerVars>>

SendDirectly(c) ==
  /\ sent' = [sent EXCEPT ![c] = @ + 1]
  /\ taken' = [taken EXCEPT ![c] = @ + 1]
SendInTx(c) ==
  /\ sent' = [sent EXCEPT ![c] = @ + 1]
  /\ UNCHANGED taken

SendNext(c) ==
  /\ pc[c] = "batch"
  /\ \/ /\ Up(got[c]) /\ SendInTx(c)
        /\ GoTo(c, IF sent[c] + 1 = BatchSize THEN "commit" ELSE "batch", got[c])
     \/ GoTo(c, "failed", got[c]) /\ UNCHANGED queueVars
  /\ UNCHANGED <<connVars, closed, stuck, listens, mainVars, brokerVars>>

TxCommit(c) ==
  LET committed == [taken EXCEPT ![c] = sent[c]] IN
  /\ pc[c] = "commit"
  /\ \/ Up(got[c]) /\ taken' = committed /\ GoTo(c, "ok", got[c])
     \/ taken' \in {taken, committed} /\ GoTo(c, "failed", got[c])
     \/ /\ c \in cut
        /\ \E n \in 0..sent[c] : taken' = [taken EXCEPT ![c] = n]
        /\ GoTo(c, "failed", got[c])
  /\ UNCHANGED <<connVars, closed, stuck, listens, mainVars, sent, brokerVars>>

PublishBatch(c) == Tx(c) \/ SendNext(c) \/ TxCommit(c)

(* Channel: the cached channel under the read lock; when there is none, the   *)
(* write lock and, without a connection, Connect, which waits for the lock    *)
(* its caller holds.                                                          *)
CachedChannel(c) ==
  /\ pc[c] = "idle" /\ ~stuck
  /\ GoTo(c, IF channel # 0 THEN "ok" ELSE "upgrade", channel)
  /\ UNCHANGED <<connVars, closed, stuck, listens, mainVars, queueVars, brokerVars>>

CreateChannel(c) ==
  /\ pc[c] = "upgrade" /\ ~stuck
  /\ \/ Up(current) /\ channel' = current /\ GoTo(c, "ok", current) /\ UNCHANGED stuck
     \/ ~Up(current) /\ stuck' = TRUE /\ GoTo(c, "held", 0) /\ UNCHANGED channel
  /\ UNCHANGED <<conn, dialled, current, watcher, closed, listens, mainVars, queueVars, brokerVars>>

Channel(c) == CachedChannel(c) \/ CreateChannel(c)

-----------------------------------------------------------------------------
(* main: Connect (log.Fatalf on an error), GetConnection into NewManager, and *)
(* the deferred Close.                                                        *)
MainConnect ==
  /\ owner = "start"
  /\ \/ ConnectOK(watcher) /\ owner' = "connected"
     \/ ConnectFails(watcher) /\ owner' = "fatal"
  /\ UNCHANGED <<mgr, closed, stuck, listens, callerVars, brokerVars>>

GetConnection ==
  /\ owner = "connected" /\ ~stuck
  /\ mgr' = current
  /\ owner' = "serving"
  /\ UNCHANGED <<connVars, closed, stuck, listens, callerVars, brokerVars>>

CloseForgets ==
  /\ owner = "serving" /\ ~stuck
  /\ closed' = TRUE
  /\ conn' = IF Up(current) THEN [conn EXCEPT ![current] = "closed"] ELSE conn
  /\ current' = 0
  /\ owner' = "exited"
  /\ UNCHANGED <<dialled, channel, watcher, stuck, listens, mgr, callerVars, brokerVars>>

Close ==
  /\ owner = "serving" /\ ~stuck
  /\ closed' = TRUE
  /\ conn' = IF Up(current) THEN [conn EXCEPT ![current] = "closed"] ELSE conn
  /\ owner' = "exited"
  /\ UNCHANGED <<dialled, current, channel, watcher, stuck, listens, mgr, callerVars, brokerVars>>

-----------------------------------------------------------------------------
(* The network drops one connection; the broker goes down with all of them    *)
(* and comes back.                                                            *)
ConnectionLost(k) ==
  /\ conn[k] = "up" /\ losses < MaxLosses
  /\ conn' = [conn EXCEPT ![k] = "lost"]
  /\ losses' = losses + 1
  /\ UNCHANGED <<dialled, current, channel, watcher, closed, stuck, listens, mainVars, callerVars, brokerUp, cut>>

BrokerFails ==
  /\ brokerUp /\ losses < MaxLosses
  /\ brokerUp' = FALSE
  /\ conn' = [k \in Conns |-> IF conn[k] = "up" THEN "lost" ELSE conn[k]]
  /\ losses' = losses + 1
  /\ cut' = cut \cup {c \in Publishers : pc[c] = "commit"}
  /\ UNCHANGED <<dialled, current, channel, watcher, closed, stuck, listens, mainVars, callerVars>>

BrokerReturns ==
  /\ ~brokerUp
  /\ brokerUp' = TRUE
  /\ UNCHANGED <<connVars, closed, stuck, listens, mainVars, callerVars, losses, cut>>

Next ==
  /\ owner # "fatal"
  /\ \/ \E k \in Conns : Watcher(k) \/ ConnectionLost(k)
     \/ \E c \in Publishers : NewChannel(c) \/ Publish(c) \/ PublishBatch(c)
     \/ \E c \in Users : Channel(c)
     \/ MainConnect \/ GetConnection \/ Close
     \/ BrokerFails \/ BrokerReturns

(* Goroutines run, and a broker that is down comes back. Nobody has to close, *)
(* ask for a channel or fail.                                                 *)
Fairness ==
  /\ \A k \in Conns : WF_vars(Watcher(k)) /\ WF_vars(Quit(k))
  /\ \A c \in Users : WF_vars(CreateChannel(c))
  /\ WF_vars(BrokerReturns)

Spec == Init /\ [][Next]_vars /\ Fairness

-----------------------------------------------------------------------------
(* Type invariant. NewChannel never calls Channel on a nil connection.        *)
TypeOK ==
  /\ conn \in [Conns -> {"none", "up", "lost", "closed"}]
  /\ dialled \in 0..MaxConns
  /\ current \in 0..dialled /\ channel \in 0..dialled /\ mgr \in 0..dialled
  /\ closed \in BOOLEAN /\ stuck \in BOOLEAN /\ brokerUp \in BOOLEAN
  /\ watcher \in [Conns -> WatcherPC]
  /\ listens \in [Conns -> 0..MaxConns]
  /\ owner \in OwnerPC
  /\ pc \in [Callers -> CallerPC]
  /\ got \in [Callers -> 0..MaxConns]
  /\ sent \in [Publishers -> 0..BatchSize] /\ taken \in [Publishers -> 0..BatchSize]
  /\ losses \in 0..MaxLosses /\ cut \subseteq Publishers
  /\ \A c \in Callers : pc[c] = "open" => got[c] # 0

(* The connection in use is watched, or some handleReconnect has yet to call  *)
(* NotifyClose, however many dials raced and whichever connection each of     *)
(* them found when it registered. That a loss is noticed does not follow: one *)
(* before NotifyClose never is (see ReconnectsEventually).                    *)
CurrentIsWatched ==
  ~closed /\ Up(current) =>
    \E k \in Conns :
      \/ watcher[k] = "register"
      \/ watcher[k] = "watching" /\ listens[k] = current

(* After Close the wrapper never holds a live connection again, not from a    *)
(* watcher that was asleep nor from a NewChannel that had looked before.      *)
ClosedStaysClosed == closed => ~Up(current)

(* PublishBatch is all or nothing whatever ends its channel, except a broker  *)
(* that fails during the commit, and all when it returns without an error. A  *)
(* publisher that sent nothing in a transaction called Publish.               *)
BatchAtomic ==
  \A c \in Publishers : sent[c] > 0 =>
    /\ c \notin cut => taken[c] \in {0, BatchSize}
    /\ pc[c] = "ok" => taken[c] = BatchSize

(* No goroutine is left behind by Close, unless Channel has blocked the lock. *)
WatchersEnd ==
  closed ~> (stuck \/ \A k \in Conns : watcher[k] \in {"none", "exited"})

-----------------------------------------------------------------------------
(* What comments and docs say and the code does not do (see the README).      *)

(* connection.go:11 "wraps amqp.Connection with reconnection logic": with a   *)
(* broker that comes back, the connection comes back.                         *)
ReconnectsEventually == []<>(owner # "serving" \/ Up(current))
=============================================================================
