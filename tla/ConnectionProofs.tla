-------------------------- MODULE ConnectionProofs --------------------------
(***************************************************************************)
(* Proofs about the connection wrapper and the publisher, for any number   *)
(* of goroutines, dials, losses and messages in a batch.                   *)
(***************************************************************************)
EXTENDS Connection, TLAPS

(* main has connected before anybody serves: from then on c.conn is never     *)
(* nil, since nothing resets it.                                              *)
ConnectedFirst == owner \notin {"start", "fatal"} => current # 0

(* c.closed is set by Close alone, as main's last step.                       *)
ClosedByOwner == closed <=> owner = "exited"

(* How far a publisher's transaction is, by control point: nothing reaches    *)
(* the queue before the commit, which is not tried before the last message.   *)
TxProgress ==
  \A c \in Publishers :
    /\ pc[c] \in {"idle", "check", "connect", "reread", "open", "tx"} => sent[c] = 0
    /\ pc[c] = "batch" => sent[c] < BatchSize
    /\ pc[c] = "commit" => sent[c] = BatchSize
    /\ pc[c] \notin {"ok", "failed"} => taken[c] = 0
    /\ pc[c] \notin {"upgrade", "held"}

ConnInv ==
  /\ TypeOK
  /\ ConnectedFirst
  /\ ClosedByOwner
  /\ TxProgress
  /\ CurrentIsWatched
  /\ ClosedStaysClosed
  /\ BatchAtomic
-----------------------------------------------------------------------------
LEMMA ConnInit == Init => ConnInv
<1> SUFFICES ASSUME Init PROVE ConnInv
  OBVIOUS
<1>1. TypeOK
  <2>1. closed \in BOOLEAN /\ stuck \in BOOLEAN /\ brokerUp \in BOOLEAN
    BY DEF Init
  <2>2. 0 \in 0..MaxConns /\ 0 \in 0..0 /\ 0 \in 0..BatchSize /\ 0 \in 0..MaxLosses
    BY ConnectionAssumption
  <2> QED
    BY <2>1, <2>2 DEF Init, TypeOK, WatcherPC, CallerPC, OwnerPC
<1>2. ConnectedFirst /\ ClosedByOwner /\ ClosedStaysClosed /\ CurrentIsWatched
  BY DEF Init, ConnectedFirst, ClosedByOwner, ClosedStaysClosed, CurrentIsWatched, Up
<1>3. TxProgress /\ BatchAtomic
  BY ConnectionAssumption DEF Init, TxProgress, BatchAtomic, Callers
<1> QED
  BY <1>1, <1>2, <1>3 DEF ConnInv

(* The part of the invariant about the transactions depends on the publishers *)
(* alone.                                                                     *)
LEMMA TxKept ==
  ASSUME ConnInv, UNCHANGED <<pc, sent, taken>>, cut \subseteq cut'
  PROVE  TxProgress' /\ BatchAtomic'
BY DEF ConnInv, TxProgress, BatchAtomic

(* The part about the connections depends on c and the watchers alone.        *)
LEMMA ConnectionKept ==
  ASSUME ConnInv, UNCHANGED <<conn, current, closed, watcher, listens, owner>>
  PROVE  ConnectedFirst' /\ ClosedByOwner' /\ CurrentIsWatched' /\ ClosedStaysClosed'
BY DEF ConnInv, ConnectedFirst, ClosedByOwner, CurrentIsWatched, ClosedStaysClosed, Up

(* Connect, whoever calls it: when it dials, the new connection is current    *)
(* and its watcher is about to register.                                      *)
LEMMA ConnectStep ==
  ASSUME ConnInv, NEW w \in [Conns -> WatcherPC],
         ConnectOK(w) \/ (ConnectFails(w) /\ owner' \in {"start", "fatal", owner}),
         \A j \in Conns : w[j] = watcher[j] \/ watcher[j] = "sleeping",
         closed' = closed, listens' = listens, owner' \in OwnerPC,
         owner' = owner \/ (owner = "start" /\ owner' # "exited")
  PROVE  /\ conn' \in [Conns -> {"none", "up", "lost", "closed"}]
         /\ dialled' \in 0..MaxConns
         /\ dialled <= dialled'
         /\ current' \in 0..dialled' /\ channel' \in 0..dialled' /\ mgr \in 0..dialled'
         /\ watcher' \in [Conns -> WatcherPC]
         /\ ConnectedFirst' /\ ClosedByOwner' /\ CurrentIsWatched' /\ ClosedStaysClosed'
<1>1. /\ dialled \in 0..MaxConns /\ MaxConns \in Nat
      /\ current \in 0..dialled /\ channel \in 0..dialled /\ mgr \in 0..dialled
      /\ conn \in [Conns -> {"none", "up", "lost", "closed"}]
      /\ watcher \in [Conns -> WatcherPC]
  BY ConnectionAssumption DEF ConnInv, TypeOK
<1>2. ClosedByOwner'
  BY DEF ConnInv, ClosedByOwner
<1>3. CASE ConnectOK(w)
  <2> DEFINE k == dialled + 1
  <2>1. k \in Conns /\ k # 0 /\ ~closed
    BY <1>1, <1>3 DEF ConnectOK, MayDial, Conns
  <2>2. /\ dialled' = k /\ current' = k /\ channel' = k
        /\ conn' = [conn EXCEPT ![k] = "up"]
        /\ watcher' = [w EXCEPT ![k] = "register"]
    BY <1>3 DEF ConnectOK, Watch
  <2>3. watcher'[k] = "register"
    BY <2>1, <2>2
  <2>4. ConnectedFirst' /\ CurrentIsWatched' /\ ClosedStaysClosed'
    BY <2>1, <2>2, <2>3 DEF ConnectedFirst, CurrentIsWatched, ClosedStaysClosed
  <2>5. /\ dialled' \in 0..MaxConns
        /\ dialled <= dialled'
        /\ current' \in 0..dialled' /\ channel' \in 0..dialled' /\ mgr \in 0..dialled'
    BY <1>1, <2>1, <2>2 DEF Conns
  <2>6. /\ conn' \in [Conns -> {"none", "up", "lost", "closed"}]
        /\ watcher' \in [Conns -> WatcherPC]
    BY <1>1, <2>1, <2>2 DEF WatcherPC
  <2> QED
    BY <1>2, <2>4, <2>5, <2>6
<1>4. CASE ConnectFails(w) /\ owner' \in {"start", "fatal", owner}
  <2>1. conn' = conn /\ dialled' = dialled /\ current' = current /\ channel' = channel /\ watcher' = w
    BY <1>4 DEF ConnectFails
  <2>2. ConnectedFirst'
    BY <1>4, <2>1 DEF ConnInv, ConnectedFirst
  <2>3. ClosedStaysClosed'
    BY <2>1 DEF ConnInv, ClosedStaysClosed, Up
  <2>4. CurrentIsWatched'
    BY <2>1 DEF ConnInv, CurrentIsWatched, Up
  <2> QED
    BY <1>1, <1>2, <2>1, <2>2, <2>3, <2>4
<1> QED
  BY <1>3, <1>4

(* handleReconnect. A watcher stops watching the current connection only when *)
(* that has ended, or after Close.                                            *)
LEMMA RegisterInv == ASSUME ConnInv, NEW k \in Conns, Register(k) PROVE ConnInv'
<1>1. /\ watcher' = [watcher EXCEPT ![k] = IF Up(current) THEN "watching" ELSE "spinning"]
      /\ listens' = [listens EXCEPT ![k] = current]
      /\ UNCHANGED <<conn, dialled, current, channel, closed, stuck, owner, mgr,
                     pc, got, sent, taken, brokerUp, losses, cut>>
  BY DEF Register, mainVars, callerVars, queueVars, brokerVars
<1>2. TypeOK'
  BY <1>1, ConnectionAssumption DEF ConnInv, TypeOK, WatcherPC, Conns
<1>3. TxProgress' /\ BatchAtomic'
  BY <1>1, TxKept
<1>4. ConnectedFirst' /\ ClosedByOwner' /\ ClosedStaysClosed'
  BY <1>1 DEF ConnInv, ConnectedFirst, ClosedByOwner, ClosedStaysClosed, Up
<1>5. CurrentIsWatched'
  <2>1. Up(current)' <=> Up(current)
    BY <1>1 DEF Up
  <2>2. CASE Up(current)
    BY <1>1, <2>2 DEF ConnInv, TypeOK, CurrentIsWatched
  <2> QED
    BY <2>1, <2>2 DEF CurrentIsWatched
<1> QED
  BY <1>2, <1>3, <1>4, <1>5 DEF ConnInv

LEMMA NotifiedInv == ASSUME ConnInv, NEW k \in Conns, Notified(k) \/ Quit(k) PROVE ConnInv'
<1>1. /\ \/ conn[listens[k]] # "up" /\ watcher'[k] # "register"
         \/ closed
      /\ watcher[k] # "register"
      /\ \E v \in {"sleeping", "spinning", "exited"} : watcher' = [watcher EXCEPT ![k] = v]
      /\ UNCHANGED <<listens, conn, dialled, current, channel, closed, stuck, owner, mgr,
                     pc, got, sent, taken, brokerUp, losses, cut>>
  BY DEF Notified, Quit, mainVars, callerVars, queueVars, brokerVars, ConnInv, TypeOK
<1>2. TypeOK'
  BY <1>1 DEF ConnInv, TypeOK, WatcherPC
<1>3. TxProgress' /\ BatchAtomic'
  BY <1>1, TxKept
<1>4. ConnectedFirst' /\ ClosedByOwner' /\ ClosedStaysClosed'
  BY <1>1 DEF ConnInv, ConnectedFirst, ClosedByOwner, ClosedStaysClosed, Up
<1>5. CurrentIsWatched'
  <2> SUFFICES ASSUME ~closed, Up(current)
               PROVE  \E j \in Conns : \/ watcher'[j] = "register"
                                       \/ watcher'[j] = "watching" /\ listens[j] = current
    BY <1>1 DEF CurrentIsWatched, Up
  <2>1. PICK j \in Conns : \/ watcher[j] = "register"
                           \/ watcher[j] = "watching" /\ listens[j] = current
    BY DEF ConnInv, CurrentIsWatched
  <2>2. j # k
    BY <1>1, <2>1 DEF Up
  <2>3. watcher'[j] = watcher[j]
    BY <1>1, <2>2 DEF ConnInv, TypeOK
  <2> QED
    BY <2>1, <2>3
<1> QED
  BY <1>2, <1>3, <1>4, <1>5 DEF ConnInv

LEMMA ReconnectInv == ASSUME ConnInv, NEW k \in Conns, Reconnect(k) PROVE ConnInv'
<1> DEFINE left == [watcher EXCEPT ![k] = "exited"]
<1>1. /\ ConnectOK(left) \/ ConnectFails(left)
      /\ watcher[k] = "sleeping"
      /\ UNCHANGED <<closed, stuck, listens, owner, mgr, pc, got, sent, taken, brokerUp, losses, cut>>
  BY DEF Reconnect, mainVars, callerVars, queueVars, brokerVars
<1>2. left \in [Conns -> WatcherPC] /\ \A j \in Conns : left[j] = watcher[j] \/ watcher[j] = "sleeping"
  BY <1>1 DEF ConnInv, TypeOK, WatcherPC
<1>3. owner \in OwnerPC
  BY DEF ConnInv, TypeOK
<1> HIDE DEF left
<1>4. /\ conn' \in [Conns -> {"none", "up", "lost", "closed"}]
      /\ dialled' \in 0..MaxConns
      /\ current' \in 0..dialled' /\ channel' \in 0..dialled' /\ mgr \in 0..dialled'
      /\ watcher' \in [Conns -> WatcherPC]
      /\ ConnectedFirst' /\ ClosedByOwner' /\ CurrentIsWatched' /\ ClosedStaysClosed'
  BY <1>1, <1>2, <1>3, ConnectStep
<1>5. TypeOK'
  BY <1>1, <1>4 DEF ConnInv, TypeOK
<1> QED
  BY <1>1, <1>4, <1>5, TxKept DEF ConnInv
-----------------------------------------------------------------------------
(* NewChannel. What it opens a channel on is never nil: c.conn was up when it *)
(* looked, or is read again after a Connect that succeeded.                   *)
LEMMA ReadConnInv ==
  ASSUME ConnInv, owner # "fatal", NEW c \in Publishers, ReadConn(c) \/ CheckConn(c)
  PROVE  ConnInv'
<1>1. /\ UNCHANGED <<conn, dialled, current, channel, watcher, closed, stuck, listens, owner, mgr,
                     sent, taken, brokerUp, losses, cut>>
      /\ c \in Callers
  BY DEF ReadConn, CheckConn, connVars, mainVars, queueVars, brokerVars, Callers
<1>2. PICK l \in {"check", "open", "connect"}, k \in 0..MaxConns :
        /\ GoTo(c, l, k)
        /\ l = "open" => k # 0
        /\ pc[c] \in {"idle", "check", "reread"}
  <2>1. CASE ReadConn(c)
    <3>1. GoTo(c, IF pc[c] = "idle" THEN "check" ELSE "open", current) /\ pc[c] \in {"idle", "reread"}
      BY <2>1 DEF ReadConn
    <3>2. current # 0
      BY <2>1 DEF ReadConn, ConnInv, ConnectedFirst
    <3>3. current \in 0..MaxConns
      BY ConnectionAssumption DEF ConnInv, TypeOK
    <3> QED
      BY <3>1, <3>2, <3>3
  <2>2. CASE CheckConn(c)
    <3>1. GoTo(c, IF Up(got[c]) THEN "open" ELSE "connect", got[c]) /\ pc[c] = "check"
      BY <2>2 DEF CheckConn
    <3>2. got[c] \in 0..MaxConns /\ (Up(got[c]) => got[c] # 0)
      BY <1>1 DEF ConnInv, TypeOK, Up
    <3> QED
      BY <3>1, <3>2
  <2> QED
    BY <2>1, <2>2
<1>3. TypeOK'
  BY <1>1, <1>2 DEF ConnInv, TypeOK, GoTo, CallerPC
<1>4. TxProgress' /\ BatchAtomic'
  BY <1>1, <1>2 DEF ConnInv, TypeOK, GoTo, TxProgress, BatchAtomic
<1> QED
  BY <1>1, <1>3, <1>4, ConnectionKept DEF ConnInv

LEMMA ConnectAgainInv == ASSUME ConnInv, NEW c \in Publishers, ConnectAgain(c) PROVE ConnInv'
<1>1. /\ ConnectOK(watcher) \/ ConnectFails(watcher)
      /\ UNCHANGED <<closed, stuck, listens, owner, mgr, sent, taken, brokerUp, losses, cut>>
      /\ c \in Callers /\ pc[c] = "connect"
      /\ GoTo(c, "reread", got[c]) \/ GoTo(c, "failed", got[c])
      /\ watcher \in [Conns -> WatcherPC] /\ owner \in OwnerPC
  BY DEF ConnectAgain, mainVars, queueVars, brokerVars, Callers, ConnInv, TypeOK
<1>2. /\ conn' \in [Conns -> {"none", "up", "lost", "closed"}]
      /\ dialled' \in 0..MaxConns
      /\ current' \in 0..dialled' /\ channel' \in 0..dialled' /\ mgr \in 0..dialled'
      /\ watcher' \in [Conns -> WatcherPC]
      /\ ConnectedFirst' /\ ClosedByOwner' /\ CurrentIsWatched' /\ ClosedStaysClosed'
  BY <1>1, ConnectStep
<1>3. TypeOK'
  BY <1>1, <1>2 DEF ConnInv, TypeOK, GoTo, CallerPC
<1>4. TxProgress' /\ BatchAtomic'
  <2>1. PICK l \in {"reread", "failed"} : pc' = [pc EXCEPT ![c] = l]
    BY <1>1 DEF GoTo
  <2>2. /\ pc \in [Callers -> CallerPC] /\ Publishers \subseteq Callers
        /\ sent' = sent /\ taken' = taken
        /\ sent[c] = 0 /\ taken[c] = 0
    BY <1>1 DEF ConnInv, TypeOK, TxProgress, Callers
  <2>3. \A d \in Publishers : pc'[d] = IF d = c THEN l ELSE pc[d]
    BY <2>1, <2>2
  <2> QED
    BY <1>1, <2>2, <2>3 DEF ConnInv, TxProgress, BatchAtomic
<1> QED
  BY <1>2, <1>3, <1>4 DEF ConnInv

-----------------------------------------------------------------------------
(* Publish and PublishBatch move one publisher; the queue receives a single   *)
(* message, the whole transaction, or what a broker that fails keeps of it.   *)
LEMMA PublishInv ==
  ASSUME ConnInv, NEW c \in Publishers, Publish(c) \/ PublishBatch(c)
  PROVE  ConnInv'
<1>1. /\ UNCHANGED <<conn, dialled, current, channel, watcher, closed, stuck, listens, owner, mgr,
                     brokerUp, losses, cut>>
      /\ c \in Callers
  BY DEF Publish, PublishBatch, Tx, SendNext, TxCommit, connVars, mainVars, queueVars, brokerVars, Callers
<1>2. /\ pc \in [Callers -> CallerPC] /\ got \in [Callers -> 0..MaxConns]
      /\ sent \in [Publishers -> 0..BatchSize] /\ taken \in [Publishers -> 0..BatchSize]
      /\ BatchSize \in Nat \ {0}
      /\ TxProgress /\ BatchAtomic
  BY ConnectionAssumption DEF ConnInv, TypeOK
<1>3. PICK l \in CallerPC \ {"open"}, n \in 0..BatchSize, t \in 0..BatchSize :
        /\ GoTo(c, l, got[c])
        /\ sent' = [sent EXCEPT ![c] = n]
        /\ taken' = [taken EXCEPT ![c] = t]
        /\ l \in {"tx", "batch", "commit", "ok", "failed"}
        /\ l = "tx" => n = 0
        /\ l = "batch" => n < BatchSize
        /\ l = "commit" => n = BatchSize
        /\ l \notin {"ok", "failed"} => t = 0
        /\ n > 0 => (c \notin cut => t \in {0, BatchSize}) /\ (l = "ok" => t = BatchSize)
  <2>1. sent = [sent EXCEPT ![c] = sent[c]] /\ taken = [taken EXCEPT ![c] = taken[c]]
    BY <1>2
  <2>2. CASE Publish(c)
    <3>1. sent[c] = 0 /\ taken[c] = 0 /\ sent' = sent /\ 1 \in 0..BatchSize
      BY <1>1, <1>2, <2>2 DEF Publish, TxProgress
    <3>2. CASE GoTo(c, "ok", got[c]) /\ taken' \in {taken, [taken EXCEPT ![c] = 1]}
      BY <1>2, <2>1, <3>1, <3>2 DEF CallerPC
    <3>3. CASE GoTo(c, "failed", got[c]) /\ UNCHANGED taken
      BY <1>2, <2>1, <3>1, <3>3 DEF CallerPC
    <3> QED
      BY <2>2, <3>2, <3>3 DEF Publish
  <2>3. CASE Tx(c)
    <3>1. sent[c] = 0 /\ taken[c] = 0 /\ sent' = sent /\ taken' = taken
      BY <1>1, <1>2, <2>3 DEF Tx, TxProgress, queueVars
    <3>2. \E l \in {"failed", "tx", "batch"} : GoTo(c, l, got[c])
      BY <2>3 DEF Tx
    <3> QED
      BY <1>2, <2>1, <3>1, <3>2 DEF CallerPC
  <2>4. CASE SendNext(c)
    <3>1. sent[c] < BatchSize /\ taken[c] = 0 /\ sent[c] \in 0..BatchSize /\ taken' = taken
      BY <1>1, <1>2, <2>4 DEF SendNext, SendInTx, TxProgress, queueVars
    <3>2. CASE SendInTx(c) /\ GoTo(c, IF sent[c] + 1 = BatchSize THEN "commit" ELSE "batch", got[c])
      <4>1. sent' = [sent EXCEPT ![c] = sent[c] + 1] /\ sent[c] + 1 \in 0..BatchSize
        BY <1>2, <3>1, <3>2 DEF SendInTx
      <4>2. CASE sent[c] + 1 = BatchSize
        BY <1>2, <2>1, <3>1, <3>2, <4>1, <4>2 DEF CallerPC
      <4>3. CASE sent[c] + 1 # BatchSize
        <5>1. sent[c] + 1 < BatchSize /\ sent[c] + 1 \in 0..BatchSize
          BY <1>2, <3>1, <4>1, <4>3
        <5>2. GoTo(c, "batch", got[c]) /\ taken' = [taken EXCEPT ![c] = 0] /\ 0 \in 0..BatchSize
          BY <1>2, <2>1, <3>1, <3>2, <4>3
        <5>3. "batch" \in CallerPC \ {"open"}
          BY DEF CallerPC
        <5> USE <5>1, <5>2, <5>3
        <5> WITNESS "batch" \in CallerPC \ {"open"}, sent[c] + 1 \in 0..BatchSize, 0 \in 0..BatchSize
        <5> QED
          BY <4>1, <5>1, <5>2
      <4> QED
        BY <4>2, <4>3
    <3>3. CASE GoTo(c, "failed", got[c]) /\ UNCHANGED queueVars
      BY <1>2, <2>1, <3>1, <3>3 DEF CallerPC, queueVars
    <3> QED
      BY <2>4, <3>2, <3>3 DEF SendNext
  <2>5. CASE TxCommit(c)
    <3>1. sent[c] = BatchSize /\ taken[c] = 0 /\ sent' = sent
      BY <1>1, <1>2, <2>5 DEF TxCommit, TxProgress
    <3>2. CASE taken' = [taken EXCEPT ![c] = sent[c]] /\ GoTo(c, "ok", got[c])
      BY <1>2, <2>1, <3>1, <3>2 DEF CallerPC
    <3>3. CASE taken' \in {taken, [taken EXCEPT ![c] = sent[c]]} /\ GoTo(c, "failed", got[c])
      BY <1>2, <2>1, <3>1, <3>3 DEF CallerPC
    <3>4. CASE c \in cut /\ (\E t \in 0..sent[c] : taken' = [taken EXCEPT ![c] = t]) /\ GoTo(c, "failed", got[c])
      <4>1. PICK t \in 0..BatchSize : taken' = [taken EXCEPT ![c] = t]
        BY <3>1, <3>4
      <4>2. "failed" \in CallerPC \ {"open"} /\ BatchSize \in 0..BatchSize
        BY <1>2 DEF CallerPC
      <4> USE <4>1, <4>2
      <4> WITNESS "failed" \in CallerPC \ {"open"}, BatchSize \in 0..BatchSize, t \in 0..BatchSize
      <4> QED
        BY <1>2, <2>1, <3>1, <3>4, <4>1
    <3> QED
      BY <2>5, <3>2, <3>3, <3>4 DEF TxCommit
  <2> QED
    BY <2>2, <2>3, <2>4, <2>5 DEF PublishBatch
<1>4. pc' = [pc EXCEPT ![c] = l] /\ got' = [got EXCEPT ![c] = got[c]]
  BY <1>3 DEF GoTo
<1>5. TypeOK'
  BY <1>1, <1>2, <1>3, <1>4 DEF ConnInv, TypeOK
<1>6. TxProgress' /\ BatchAtomic'
  BY <1>1, <1>2, <1>3, <1>4 DEF TxProgress, BatchAtomic
<1> QED
  BY <1>1, <1>5, <1>6, ConnectionKept DEF ConnInv

(* Channel, called by goroutines that publish nothing.                        *)
LEMMA ChannelInv == ASSUME ConnInv, NEW c \in Users, Channel(c) PROVE ConnInv'
<1>1. /\ UNCHANGED <<conn, dialled, current, watcher, closed, listens, owner, mgr,
                     sent, taken, brokerUp, losses, cut>>
      /\ c \in Callers /\ c \notin Publishers
      /\ stuck' = stuck \/ stuck' = TRUE
      /\ channel' \in {channel, current}
  BY ConnectionAssumption
     DEF Channel, CachedChannel, CreateChannel, connVars, mainVars, queueVars, brokerVars, Callers
<1>2. \E l \in {"ok", "upgrade", "held"}, k \in {channel, current, 0} : GoTo(c, l, k)
  BY DEF Channel, CachedChannel, CreateChannel
<1>3. stuck' \in BOOLEAN
  BY <1>1 DEF ConnInv, TypeOK
<1>4. /\ channel' \in 0..dialled' /\ dialled' \in 0..MaxConns
      /\ {channel, current, 0} \subseteq 0..MaxConns
  BY <1>1, ConnectionAssumption DEF ConnInv, TypeOK
<1>5. TypeOK'
  BY <1>1, <1>2, <1>3, <1>4 DEF ConnInv, TypeOK, GoTo, CallerPC
<1>6. TxProgress' /\ BatchAtomic'
  BY <1>1, <1>2, ConnectionAssumption DEF ConnInv, TypeOK, GoTo, TxProgress, BatchAtomic, Callers
<1> QED
  BY <1>1, <1>5, <1>6, ConnectionKept DEF ConnInv

-----------------------------------------------------------------------------
(* main and the broker.                                                       *)
LEMMA MainConnectInv == ASSUME ConnInv, MainConnect PROVE ConnInv'
<1>1. /\ \/ ConnectOK(watcher) /\ owner' = "connected"
         \/ ConnectFails(watcher) /\ owner' = "fatal"
      /\ owner = "start"
      /\ UNCHANGED <<closed, stuck, listens, mgr, pc, got, sent, taken, brokerUp, losses, cut>>
      /\ watcher \in [Conns -> WatcherPC]
  BY DEF MainConnect, callerVars, queueVars, brokerVars, ConnInv, TypeOK
<1>2. owner' \in OwnerPC
  BY <1>1 DEF OwnerPC
<1>3. /\ conn' \in [Conns -> {"none", "up", "lost", "closed"}]
      /\ dialled' \in 0..MaxConns
      /\ current' \in 0..dialled' /\ channel' \in 0..dialled' /\ mgr \in 0..dialled'
      /\ watcher' \in [Conns -> WatcherPC]
      /\ ConnectedFirst' /\ ClosedByOwner' /\ CurrentIsWatched' /\ ClosedStaysClosed'
  BY <1>1, <1>2, ConnectStep
<1>4. TypeOK'
  BY <1>1, <1>2, <1>3 DEF ConnInv, TypeOK
<1> QED
  BY <1>1, <1>3, <1>4, TxKept DEF ConnInv

LEMMA GetConnectionInv == ASSUME ConnInv, GetConnection PROVE ConnInv'
<1>1. /\ owner = "connected" /\ owner' = "serving" /\ mgr' = current
      /\ UNCHANGED <<conn, dialled, current, channel, watcher, closed, stuck, listens,
                     pc, got, sent, taken, brokerUp, losses, cut>>
  BY DEF GetConnection, connVars, callerVars, queueVars, brokerVars
<1>2. TypeOK'
  BY <1>1 DEF ConnInv, TypeOK, OwnerPC
<1>3. ConnectedFirst' /\ ClosedByOwner' /\ CurrentIsWatched' /\ ClosedStaysClosed'
  BY <1>1 DEF ConnInv, ConnectedFirst, ClosedByOwner, CurrentIsWatched, ClosedStaysClosed, Up
<1> QED
  BY <1>1, <1>2, <1>3, TxKept DEF ConnInv

LEMMA CloseInv == ASSUME ConnInv, Close PROVE ConnInv'
<1>1. /\ owner = "serving" /\ owner' = "exited" /\ closed' = TRUE
      /\ conn' = IF Up(current) THEN [conn EXCEPT ![current] = "closed"] ELSE conn
      /\ UNCHANGED <<dialled, current, channel, watcher, stuck, listens, mgr,
                     pc, got, sent, taken, brokerUp, losses, cut>>
      /\ current \in 0..MaxConns
      /\ conn \in [Conns -> {"none", "up", "lost", "closed"}]
  BY ConnectionAssumption DEF Close, callerVars, queueVars, brokerVars, ConnInv, TypeOK
<1>2. conn' \in [Conns -> {"none", "up", "lost", "closed"}]
  BY <1>1
<1>3. closed' \in BOOLEAN
  BY <1>1
<1>4. TypeOK'
  BY <1>1, <1>2, <1>3 DEF ConnInv, TypeOK, OwnerPC
<1>5. ~Up(current)'
  BY <1>1 DEF Up, Conns
<1>6. ConnectedFirst' /\ ClosedByOwner' /\ CurrentIsWatched' /\ ClosedStaysClosed'
  BY <1>1, <1>5 DEF ConnInv, ConnectedFirst, ClosedByOwner, CurrentIsWatched, ClosedStaysClosed
<1> QED
  BY <1>1, <1>4, <1>6, TxKept DEF ConnInv

LEMMA BrokerInv ==
  ASSUME ConnInv, (\E k \in Conns : ConnectionLost(k)) \/ BrokerFails \/ BrokerReturns
  PROVE  ConnInv'
<1>1. /\ UNCHANGED <<dialled, current, channel, watcher, closed, stuck, listens, owner, mgr,
                     pc, got, sent, taken>>
      /\ cut \subseteq cut' /\ cut' \subseteq Publishers
      /\ losses' = losses \/ (losses < MaxLosses /\ losses' = losses + 1)
      /\ brokerUp' \in BOOLEAN
      /\ conn \in [Conns -> {"none", "up", "lost", "closed"}]
  BY DEF ConnectionLost, BrokerFails, BrokerReturns, connVars, mainVars, callerVars, queueVars, ConnInv, TypeOK
<1>2. /\ conn' \in [Conns -> {"none", "up", "lost", "closed"}]
      /\ \A k \in Conns : conn'[k] = "up" => conn[k] = "up"
  BY <1>1 DEF ConnectionLost, BrokerFails, BrokerReturns, connVars
<1>3. losses' \in 0..MaxLosses
  BY <1>1, ConnectionAssumption DEF ConnInv, TypeOK
<1>4. TypeOK'
  BY <1>1, <1>2, <1>3 DEF ConnInv, TypeOK
<1>5. Up(current)' => Up(current)
  BY <1>1, <1>2, ConnectionAssumption DEF ConnInv, TypeOK, Up, Conns
<1>6. ConnectedFirst' /\ ClosedByOwner' /\ CurrentIsWatched' /\ ClosedStaysClosed'
  BY <1>1, <1>5 DEF ConnInv, ConnectedFirst, ClosedByOwner, CurrentIsWatched, ClosedStaysClosed
<1> QED
  BY <1>1, <1>4, <1>6, TxKept DEF ConnInv

-----------------------------------------------------------------------------
LEMMA ConnStutter == ASSUME ConnInv, UNCHANGED vars PROVE ConnInv'
<1>1. UNCHANGED <<conn, dialled, current, channel, watcher, closed, stuck, listens, owner, mgr,
                  pc, got, sent, taken, brokerUp, losses, cut>>
  BY DEF vars, connVars, mainVars, callerVars, queueVars, brokerVars
<1>2. TypeOK'
  BY <1>1 DEF ConnInv, TypeOK
<1> QED
  BY <1>1, <1>2, TxKept, ConnectionKept DEF ConnInv

LEMMA ConnInvariant == Spec => []ConnInv
<1>1. ConnInv /\ [Next]_vars => ConnInv'
  <2> SUFFICES ASSUME ConnInv, [Next]_vars PROVE ConnInv'
    OBVIOUS
  <2>1. CASE UNCHANGED vars
    BY <2>1, ConnStutter
  <2>2. ASSUME NEW k \in Conns, Watcher(k) PROVE ConnInv'
    BY <2>2, RegisterInv, NotifiedInv, ReconnectInv DEF Watcher
  <2>3. ASSUME NEW c \in Publishers, owner # "fatal", NewChannel(c) PROVE ConnInv'
    BY <2>3, ReadConnInv, ConnectAgainInv DEF NewChannel
  <2>4. ASSUME NEW c \in Publishers, Publish(c) \/ PublishBatch(c) PROVE ConnInv'
    BY <2>4, PublishInv
  <2>5. ASSUME NEW c \in Users, Channel(c) PROVE ConnInv'
    BY <2>5, ChannelInv
  <2> QED
    BY <2>1, <2>2, <2>3, <2>4, <2>5, MainConnectInv, GetConnectionInv, CloseInv, BrokerInv DEF Next
<1> QED
  BY <1>1, ConnInit, PTL DEF Spec

(* NewChannel never opens a channel on a nil connection, and every counter    *)
(* and control point keeps its range.                                         *)
THEOREM ConnectionTypes == Spec => []TypeOK
BY ConnInvariant, PTL DEF ConnInv

(* However many dials race, some watcher listens to the connection in use or  *)
(* has yet to register.                                                       *)
THEOREM Watched == Spec => []CurrentIsWatched
BY ConnInvariant, PTL DEF ConnInv

(* After Close neither a sleeping watcher nor a NewChannel under way brings a *)
(* live connection back into the wrapper.                                     *)
THEOREM StaysClosed == Spec => []ClosedStaysClosed
BY ConnInvariant, PTL DEF ConnInv

(* PublishBatch puts all of its messages in the queue or none, unless the     *)
(* broker fails during the commit, and all when it returns nil, for batches   *)
(* of every size and wherever the channel ends.                               *)
THEOREM AllOrNothing == Spec => []BatchAtomic
BY ConnInvariant, PTL DEF ConnInv
=============================================================================
