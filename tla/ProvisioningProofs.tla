------------------------- MODULE ProvisioningProofs -------------------------
(***************************************************************************)
(* Proofs about the configuration and the queues of a tenant, for any      *)
(* number of callers, starts and calls, every environment and every width  *)
(* of Go's integers.                                                       *)
(***************************************************************************)
EXTENDS Provisioning, SequenceTheorems, TLAPS

(* What a call may have left to send: the rest of a declaration, of a         *)
(* SpawnConsumer or of a deletion.                                            *)
DeclareRest == { <<"dlx", "dlq", "bind", "queue">>, <<"dlq", "bind", "queue">>,
                 <<"bind", "queue">>, <<"queue">> }
SpawnRest   == { <<"dlx", "dlq", "bind", "queue", "pool">>, <<"dlq", "bind", "queue", "pool">>,
                 <<"bind", "queue", "pool">>, <<"queue", "pool">> }
DeleteRest  == { <<"delQueue", "delDLQ", "delDLX">>, <<"delDLQ", "delDLX">>, <<"delDLX">> }
Rest        == DeclareRest \cup SpawnRest \cup DeleteRest \cup {<<"pool">>}
Frames      == {"dlx", "dlq", "bind", "queue", "delQueue", "delDLQ", "delDLX", "pool"}

(* Frame g comes right after frame f.                                         *)
Follows(g, f) ==
  \/ f = "dlx" /\ g = "dlq"
  \/ f = "dlq" /\ g = "bind"
  \/ f = "bind" /\ g = "queue"
  \/ f = "queue" /\ g = "pool"
  \/ f = "delQueue" /\ g = "delDLQ"
  \/ f = "delDLQ" /\ g = "delDLX"

(* Calls are under way only in a process that serves, which has loaded its    *)
(* configuration.                                                             *)
CallsOK ==
  /\ todo \in [Callers -> Rest \cup {<<>>}]
  /\ proc # "serving" => todo = [c \in Callers |-> <<>>]
  /\ proc # "down" => conf \in Conf /\ conf.ttl = Duration(ttlMs)

(* As long as nothing overlapped, what the next frame builds on is there, and *)
(* what it takes away nobody builds on.                                       *)
InOrder ==
  ~overlapped =>
    /\ \A c, d \in Callers : ~(Declaring(c) /\ Deleting(d))
    /\ \A c \in Callers : todo[c] # <<>> =>
         /\ Head(todo[c]) \in {"dlq", "bind", "queue"} => dlx
         /\ Head(todo[c]) \in {"bind", "queue"} => dlq
         /\ Head(todo[c]) = "queue" => bound
         /\ Head(todo[c]) \in {"delDLQ", "delDLX"} => queue = Absent

(* A queue that is ready is there and is not being deleted; a message is in a *)
(* queue that exists; what was promised has arrived.                          *)
QueueStands ==
  /\ ready => queue # Absent /\ \A d \in Callers : ~Deleting(d)
  /\ \A m \in Msgs : place[m] = "queue" => queue # Absent
  /\ \A m \in promised : m \in Msgs /\ place[m] \notin {"unsent", "sent"}

(* Only a declaration makes a queue.                                          *)
NoneDeclared == queue = Absent => declaredAs = {}

ProvInv ==
  /\ TypeOK /\ CallsOK /\ InOrder /\ QueueStands /\ NoneDeclared
  /\ DeadLetterHome /\ NotDiscarded /\ TTLAsConfigured

-----------------------------------------------------------------------------
(* The sequence of frames that SpawnConsumer starts with.                     *)
LEMMA SpawnFrames == DeclareFrames \o <<"pool">> = <<"dlx", "dlq", "bind", "queue", "pool">>
<1> DEFINE pool == <<"pool">>
           all == <<"dlx", "dlq", "bind", "queue", "pool">>
<1>1. DeclareFrames \in Seq(Frames) /\ Len(DeclareFrames) = 4
  BY DEF DeclareFrames, Frames
<1>2. pool \in Seq(Frames) /\ Len(pool) = 1 /\ pool[1] = "pool"
  BY DEF Frames
<1>3. all \in Seq(Frames) /\ Len(all) = 5
  BY DEF Frames
<1> HIDE DEF pool
<1>4. /\ DeclareFrames \o pool \in Seq(Frames) /\ Len(DeclareFrames \o pool) = 5
      /\ \A i \in 1..5 : (DeclareFrames \o pool)[i] = IF i <= 4 THEN DeclareFrames[i] ELSE pool[i - 4]
  <2>1. /\ DeclareFrames \o pool \in Seq(Frames)
        /\ Len(DeclareFrames \o pool) = Len(DeclareFrames) + Len(pool)
        /\ \A i \in 1..Len(DeclareFrames) + Len(pool) :
             (DeclareFrames \o pool)[i]
               = IF i <= Len(DeclareFrames) THEN DeclareFrames[i] ELSE pool[i - Len(DeclareFrames)]
    BY <1>1, <1>2, ConcatProperties, ZenonT(20)
  <2> QED
    BY <1>1, <1>2, <2>1
<1>5. \A i \in 1..5 : (DeclareFrames \o pool)[i] = all[i]
  <2>1. \A i \in 1..5 : i \in {1, 2, 3, 4, 5}
    OBVIOUS
  <2> QED
    BY <1>2, <1>4, <2>1 DEF DeclareFrames
<1> HIDE DEF all
<1> QED
  BY <1>3, <1>4, <1>5, SeqEqual DEF pool, all

(* The first frame and the number of frames tell what a call is about.        *)
LEMMA Shapes ==
  ASSUME NEW s
  PROVE  /\ s \in DeclareRest => ((Head(s) = "dlx" /\ Len(s) = 4) \/ (Head(s) = "dlq" /\ Len(s) = 3) \/ (Head(s) = "bind" /\ Len(s) = 2) \/ (Head(s) = "queue" /\ Len(s) = 1))
         /\ s \in SpawnRest => ((Head(s) = "dlx" /\ Len(s) = 5) \/ (Head(s) = "dlq" /\ Len(s) = 4) \/ (Head(s) = "bind" /\ Len(s) = 3) \/ (Head(s) = "queue" /\ Len(s) = 2))
         /\ s \in DeleteRest => ((Head(s) = "delQueue" /\ Len(s) = 3) \/ (Head(s) = "delDLQ" /\ Len(s) = 2) \/ (Head(s) = "delDLX" /\ Len(s) = 1))
         /\ s = <<"pool">> => Head(s) = "pool" /\ Len(s) = 1
         /\ s = <<>> => Len(s) = 0
<1>1. s \in DeclareRest => ((Head(s) = "dlx" /\ Len(s) = 4) \/ (Head(s) = "dlq" /\ Len(s) = 3) \/ (Head(s) = "bind" /\ Len(s) = 2) \/ (Head(s) = "queue" /\ Len(s) = 1))
  BY DEF DeclareRest
<1>2. s \in SpawnRest => ((Head(s) = "dlx" /\ Len(s) = 5) \/ (Head(s) = "dlq" /\ Len(s) = 4) \/ (Head(s) = "bind" /\ Len(s) = 3) \/ (Head(s) = "queue" /\ Len(s) = 2))
  BY DEF SpawnRest
<1>3. s \in DeleteRest => ((Head(s) = "delQueue" /\ Len(s) = 3) \/ (Head(s) = "delDLQ" /\ Len(s) = 2) \/ (Head(s) = "delDLX" /\ Len(s) = 1))
  BY DEF DeleteRest
<1>4. s = <<"pool">> => Head(s) = "pool" /\ Len(s) = 1
  OBVIOUS
<1>5. s = <<>> => Len(s) = 0
  OBVIOUS
<1> QED
  BY <1>1, <1>2, <1>3, <1>4, <1>5

LEMMA Kinds ==
  ASSUME NEW s
  PROVE  /\ s \in DeclareRest => s \notin SpawnRest \cup DeleteRest \cup {<<"pool">>, <<>>}
         /\ s \in SpawnRest => s \notin DeleteRest \cup {<<"pool">>, <<>>}
         /\ s \in DeleteRest => s \notin {<<"pool">>, <<>>}
         /\ s = <<"pool">> => s # <<>>
<1>1. s \in DeclareRest => s \notin SpawnRest \cup DeleteRest \cup {<<"pool">>, <<>>}
  BY Shapes
<1>2. s \in SpawnRest => s \notin DeleteRest \cup {<<"pool">>, <<>>}
  BY Shapes
<1>3. s \in DeleteRest => s \notin {<<"pool">>, <<>>}
  BY Shapes
<1> QED
  BY <1>1, <1>2, <1>3

(* Which frames are left, by what is left of the call.                        *)
LEMMA LeftToSend ==
  ASSUME NEW s \in Rest \cup {<<>>}
  PROVE  /\ (\E i \in DOMAIN s : s[i] \in {"dlx", "dlq", "bind", "queue"}) <=> s \in DeclareRest \cup SpawnRest
         /\ (\E i \in DOMAIN s : s[i] \in {"delQueue", "delDLQ", "delDLX"}) <=> s \in DeleteRest
         /\ (\E i \in DOMAIN s : s[i] \in {"pool"}) <=> s \in SpawnRest \cup {<<"pool">>}
<1> DEFINE Some(frames) == \E i \in DOMAIN s : s[i] \in frames
           decl == Some({"dlx", "dlq", "bind", "queue"})
           dele == Some({"delQueue", "delDLQ", "delDLX"})
           pool == Some({"pool"})
<1>1. s \in DeclareRest => decl /\ ~dele /\ ~pool
  BY DEF DeclareRest
<1>2. s \in SpawnRest => decl /\ ~dele /\ pool
  BY DEF SpawnRest
<1>3. s \in DeleteRest => ~decl /\ dele /\ ~pool
  BY DEF DeleteRest
<1>4. s = <<"pool">> => ~decl /\ ~dele /\ pool
  OBVIOUS
<1>5. s = <<>> => ~decl /\ ~dele /\ ~pool
  OBVIOUS
<1> HIDE DEF decl, dele, pool
<1>6. /\ decl <=> s \in DeclareRest \cup SpawnRest
      /\ dele <=> s \in DeleteRest
      /\ pool <=> s \in SpawnRest \cup {<<"pool">>}
  BY <1>1, <1>2, <1>3, <1>4, <1>5, Kinds DEF Rest
<1> QED
  BY <1>6 DEF decl, dele, pool

(* The frame that is sent next, and what is left after it.                    *)
LEMMA NextFrame ==
  ASSUME NEW s \in Rest, Head(s) # "pool"
  PROVE  /\ s \in DeclareRest \cup SpawnRest <=> Head(s) \in {"dlx", "dlq", "bind", "queue"}
         /\ s \in DeleteRest <=> Head(s) \in {"delQueue", "delDLQ", "delDLX"}
         /\ s # <<"pool">>
         /\ Len(s) = 1 => s \notin SpawnRest
         /\ Len(s) # 1 =>
              /\ Tail(s) \in Rest
              /\ Follows(Head(Tail(s)), Head(s))
              /\ s \in SpawnRest <=> Tail(s) \in SpawnRest \cup {<<"pool">>}
              /\ s \in DeleteRest <=> Tail(s) \in DeleteRest
              /\ Tail(s) \in DeclareRest \cup SpawnRest => s \notin DeleteRest
<1>1. CASE s \in DeclareRest
  <2>1. Len(s) # 1 => Tail(s) \in DeclareRest
    <3>1. /\ Tail(<<"dlx", "dlq", "bind", "queue">>) = <<"dlq", "bind", "queue">>
          /\ Tail(<<"dlq", "bind", "queue">>) = <<"bind", "queue">>
          /\ Tail(<<"bind", "queue">>) = <<"queue">>
          /\ Len(<<"queue">>) = 1
      OBVIOUS
    <3> QED
      BY <1>1, <3>1 DEF DeclareRest
  <2>2. Len(s) # 1 => Follows(Head(Tail(s)), Head(s))
    <3>1. Len(s) # 1 => \/ Head(s) = "dlx" /\ Head(Tail(s)) = "dlq"
                        \/ Head(s) = "dlq" /\ Head(Tail(s)) = "bind"
                        \/ Head(s) = "bind" /\ Head(Tail(s)) = "queue"
      BY <1>1 DEF DeclareRest
    <3> QED
      BY <3>1 DEF Follows
  <2> QED
    BY <1>1, <2>1, <2>2, Shapes, Kinds DEF Rest
<1>2. CASE s \in SpawnRest
  <2>1. Tail(s) \in SpawnRest \cup {<<"pool">>}
    <3>1. /\ Tail(<<"dlx", "dlq", "bind", "queue", "pool">>) = <<"dlq", "bind", "queue", "pool">>
          /\ Tail(<<"dlq", "bind", "queue", "pool">>) = <<"bind", "queue", "pool">>
          /\ Tail(<<"bind", "queue", "pool">>) = <<"queue", "pool">>
          /\ Tail(<<"queue", "pool">>) = <<"pool">>
      OBVIOUS
    <3> QED
      BY <1>2, <3>1 DEF SpawnRest
  <2>2. Follows(Head(Tail(s)), Head(s))
    <3>1. \/ Head(s) = "dlx" /\ Head(Tail(s)) = "dlq"
          \/ Head(s) = "dlq" /\ Head(Tail(s)) = "bind"
          \/ Head(s) = "bind" /\ Head(Tail(s)) = "queue"
          \/ Head(s) = "queue" /\ Head(Tail(s)) = "pool"
      BY <1>2 DEF SpawnRest
    <3> QED
      BY <3>1 DEF Follows
  <2> QED
    BY <1>2, <2>1, <2>2, Shapes, Kinds DEF Rest
<1>3. CASE s \in DeleteRest
  <2>1. Len(s) # 1 => Tail(s) \in DeleteRest
    <3>1. /\ Tail(<<"delQueue", "delDLQ", "delDLX">>) = <<"delDLQ", "delDLX">>
          /\ Tail(<<"delDLQ", "delDLX">>) = <<"delDLX">>
          /\ Len(<<"delDLX">>) = 1
      OBVIOUS
    <3> QED
      BY <1>3, <3>1 DEF DeleteRest
  <2>2. Len(s) # 1 => Follows(Head(Tail(s)), Head(s))
    <3>1. Len(s) # 1 => \/ Head(s) = "delQueue" /\ Head(Tail(s)) = "delDLQ"
                        \/ Head(s) = "delDLQ" /\ Head(Tail(s)) = "delDLX"
      BY <1>3 DEF DeleteRest
    <3> QED
      BY <3>1 DEF Follows
  <2> QED
    BY <1>3, <2>1, <2>2, Shapes, Kinds DEF Rest
<1> QED
  BY <1>1, <1>2, <1>3, Shapes DEF Rest

(* Wrapping keeps a number in range, and makes one of the next half negative. *)
LEMMA WrappedFacts ==
  ASSUME NEW n \in Int, NEW h \in Nat \ {0}
  PROVE  /\ Wrapped(n, h) \in Int /\ Wrapped(n, h) < h
         /\ n \in -h..h - 1 => Wrapped(n, h) = n
         /\ 0 <= n /\ n < 2 * h /\ Wrapped(n, h) >= 0 => Wrapped(n, h) = n
<1> DEFINE r == (n + h) % (2 * h)
<1>1. Wrapped(n, h) = r - h
  BY DEF Wrapped
<1>2. r \in 0..(2 * h - 1)
  OBVIOUS
<1>3. 0 <= n + h /\ n + h < 2 * h => r = n + h
  OBVIOUS
<1>4. 2 * h <= n + h /\ n + h < 4 * h => r = n + h - 2 * h
  OBVIOUS
<1> HIDE DEF r
<1> QED
  BY <1>1, <1>2, <1>3, <1>4

(* A whole number of milliseconds divides without a rest.                     *)
LEMMA WholeMilliseconds ==
  ASSUME NEW n \in Int, NEW k \in Nat \ {0}
  PROVE  /\ n * k \in Int /\ (n * k) \div k = n
         /\ n > 0 <=> n * k > 0
<1> DEFINE p == n * k
           d == p \div k
           e == p % k
<1>1. p \in Int
  OBVIOUS
<1>2. d \in Int /\ e \in 0..k - 1 /\ p = k * d + e
  BY <1>1
<1>3. e = k * (n - d)
  BY <1>2
<1>4. n - d >= 1 => k * (n - d) >= k
  BY <1>2
<1>5. n - d <= -1 => k * (n - d) <= -k
  BY <1>2
<1>6. d = n
  <2> HIDE DEF p, d, e
  <2>1. k * (n - d) \in 0..k - 1
    BY <1>2, <1>3
  <2> QED
    BY <1>2, <1>4, <1>5, <2>1
<1>7. n > 0 <=> n * k > 0
  OBVIOUS
<1> QED
  BY <1>1, <1>6, <1>7

LEMMA DurationInt == ASSUME NEW ms \in Int PROVE Duration(ms) \in Int
BY RangeAssumption, ProvisioningAssumption, WrappedFacts, WholeMilliseconds DEF Duration, Int64

(* The TTL of a queue the broker accepted.                                    *)
LEMMA AcceptedTTL ==
  ASSUME NEW ms \in Int, MessageTTL(Duration(ms)) # None => MessageTTL(Duration(ms)) >= 0
  PROVE  /\ MessageTTL(Duration(ms)) = None \/ MessageTTL(Duration(ms)) \in 0..HalfRange - 1
         /\ MessageTTL(Duration(ms)) # Absent
         /\ Exact(ms) => MessageTTL(Duration(ms)) = (IF ms <= 0 THEN None ELSE ms)
<1> DEFINE t == Duration(ms)
           whole == t \div Millisecond
<1>1. /\ HalfRange \in Nat \ {0} /\ HalfLong \in Nat \ {0} /\ Millisecond \in Nat \ {0}
      /\ None \notin Int /\ Absent \notin Int /\ None # Absent
  BY RangeAssumption, ProvisioningAssumption
<1>2. /\ ms * Millisecond \in Int /\ (ms * Millisecond) \div Millisecond = ms
      /\ ms > 0 <=> ms * Millisecond > 0
  BY <1>1, WholeMilliseconds
<1>3. t \in Int /\ (Exact(ms) => t = ms * Millisecond)
  <2>1. /\ Wrapped(ms * Millisecond, HalfLong) \in Int
        /\ ms * Millisecond \in -HalfLong..HalfLong - 1 => Wrapped(ms * Millisecond, HalfLong) = ms * Millisecond
    BY <1>1, <1>2, WrappedFacts
  <2> QED
    BY <2>1 DEF Duration, Int64, Exact
<1>4. whole \in Int /\ (Exact(ms) => whole = ms)
  BY <1>1, <1>2, <1>3
<1>5. /\ Int32(whole) \in Int /\ Int32(whole) < HalfRange
      /\ 0 <= whole /\ whole < 2 * HalfRange /\ Int32(whole) >= 0 => Int32(whole) = whole
  BY <1>1, <1>4, WrappedFacts DEF Int32
<1>6. MessageTTL(t) = IF t > 0 THEN Int32(whole) ELSE None
  BY DEF MessageTTL
<1> HIDE DEF t, whole
<1>7. CASE t > 0
  <2>1. MessageTTL(t) = Int32(whole) /\ Int32(whole) >= 0
    BY <1>1, <1>5, <1>6, <1>7 DEF t
  <2>2. Exact(ms) => ms > 0 /\ whole = ms /\ ms < 2 * HalfRange
    BY <1>2, <1>3, <1>4, <1>7 DEF Exact
  <2> QED
    BY <1>1, <1>5, <2>1, <2>2 DEF t
<1>8. CASE ~(t > 0)
  <2>1. Exact(ms) => ms <= 0
    BY <1>2, <1>3, <1>8
  <2> QED
    BY <1>1, <1>6, <1>8, <2>1 DEF t
<1> QED
  BY <1>7, <1>8

(* What each caller is doing, by what it has left to send.                    *)
LEMMA CallKinds ==
  ASSUME \A c \in Callers : todo[c] \in Rest \cup {<<>>}
  PROVE  \A c \in Callers : /\ Declaring(c) <=> todo[c] \in DeclareRest \cup SpawnRest
                            /\ Deleting(c) <=> todo[c] \in DeleteRest
                            /\ Has(c, {"pool"}) <=> todo[c] \in SpawnRest \cup {<<"pool">>}
BY LeftToSend DEF Declaring, Deleting, Has

LEMMA CallKindsNext ==
  ASSUME \A c \in Callers : todo'[c] \in Rest \cup {<<>>}
  PROVE  \A c \in Callers : /\ Declaring(c)' <=> todo'[c] \in DeclareRest \cup SpawnRest
                            /\ Deleting(c)' <=> todo'[c] \in DeleteRest
                            /\ Has(c, {"pool"})' <=> todo'[c] \in SpawnRest \cup {<<"pool">>}
BY LeftToSend DEF Declaring, Deleting, Has

-----------------------------------------------------------------------------
LEMMA ProvInit == Init => ProvInv
<1> SUFFICES ASSUME Init PROVE ProvInv
  OBVIOUS
<1>1. todo = [c \in Callers |-> <<>>]
  BY DEF Init
<1>2. \A c \in Callers : ~Declaring(c) /\ ~Deleting(c) /\ ~Has(c, {"pool"})
  BY <1>1, CallKinds, Kinds
<1>3. {dlx, dlq, bound, spawned, ready, overlapped} \subseteq BOOLEAN
  BY DEF Init
<1>4. TypeOK
  BY <1>2, <1>3, ProvisioningAssumption DEF Init, TypeOK, Places
<1>5. CallsOK /\ InOrder
  BY <1>1, <1>2 DEF Init, CallsOK, InOrder
<1>6. QueueStands /\ DeadLetterHome /\ NotDiscarded /\ TTLAsConfigured /\ NoneDeclared
  BY DEF Init, QueueStands, DeadLetterHome, NotDiscarded, TTLAsConfigured, NoneDeclared
<1> QED
  BY <1>4, <1>5, <1>6 DEF ProvInv

(* What the broker keeps, and what was said of it, as long as no frame is     *)
(* sent and no message moves.                                                 *)
LEMMA BrokerKept ==
  ASSUME ProvInv, UNCHANGED <<dlx, dlq, bound, queue, declaredAs, place, overlapped, promised>>
  PROVE  DeadLetterHome' /\ NotDiscarded' /\ TTLAsConfigured' /\ NoneDeclared'
BY DEF ProvInv, DeadLetterHome, NotDiscarded, TTLAsConfigured, NoneDeclared

(* The start and the end of the process.                                      *)
LEMMA LoadInv == ASSUME ProvInv, NEW e \in Envs, Load(e) PROVE ProvInv'
<1>1. /\ UNCHANGED <<consumer, lock, dlx, dlq, bound, queue, declaredAs, place, todo, workers, spawned, calls,
                     ready, overlapped, promised>>
      /\ proc = "down" /\ starts < MaxStarts /\ starts' = starts + 1
      /\ \/ proc' = "loaded" /\ conf' = Configured(e) /\ ttlMs' = MillisecondsOf(e)
         \/ UNCHANGED <<proc, conf, ttlMs>>
  BY DEF Load, brokerVars, queueVars, callVars, histVars
<1>2. /\ MillisecondsOf(e) \in Int /\ Configured(e) \in Conf
      /\ Configured(e).ttl = Duration(MillisecondsOf(e))
  <2>1. /\ MillisecondsOf(e) \in Int /\ getEnvAsInt(e.workers, DefaultDefault) \in Int
        /\ getEnvAsInt(e.max, DefaultMax) \in Int
    BY RangeAssumption, ProvisioningAssumption DEF MillisecondsOf, getEnvAsInt
  <2>2. Duration(MillisecondsOf(e)) \in Int
    BY <2>1, DurationInt
  <2> QED
    BY <2>1, <2>2 DEF Configured, Conf
<1>3. \A c \in Callers : (Has(c, {"pool"}) <=> Has(c, {"pool"})') /\ (Declaring(c) <=> Declaring(c)')
                         /\ (Deleting(c) <=> Deleting(c)')
  BY <1>1 DEF Has, Declaring, Deleting
<1>4. TypeOK'
  <2>1. (conf' = None \/ conf' \in Conf) /\ ttlMs' \in Int
    BY <1>1, <1>2 DEF ProvInv, TypeOK
  <2>2. proc' \in {"down", "loaded", "migrated", "serving"} /\ starts' \in 0..MaxStarts
    BY <1>1, ProvisioningAssumption DEF ProvInv, TypeOK
  <2> QED
    BY <1>1, <1>3, <2>1, <2>2 DEF ProvInv, TypeOK
<1>5. CallsOK'
  BY <1>1, <1>2 DEF ProvInv, CallsOK
<1>6. InOrder' /\ QueueStands'
  BY <1>1, <1>3 DEF ProvInv, InOrder, QueueStands
<1> QED
  BY <1>1, <1>4, <1>5, <1>6, BrokerKept DEF ProvInv

LEMMA StartUpInv == ASSUME ProvInv, StartUp PROVE ProvInv'
<1>1. /\ UNCHANGED <<conf, ttlMs, consumer, lock, starts, dlx, dlq, bound, queue, declaredAs, place, todo, workers, spawned, calls,
                     ready, overlapped, promised>>
      /\ proc \in {"loaded", "migrated"} /\ proc' \in {"migrated", "serving", "down"}
  BY DEF StartUp, brokerVars, queueVars, callVars, histVars
<1>2. \A c \in Callers : (Has(c, {"pool"}) <=> Has(c, {"pool"})') /\ (Declaring(c) <=> Declaring(c)')
                         /\ (Deleting(c) <=> Deleting(c)')
  BY <1>1 DEF Has, Declaring, Deleting
<1>3. TypeOK'
  BY <1>1, <1>2 DEF ProvInv, TypeOK
<1>4. CallsOK' /\ InOrder' /\ QueueStands'
  BY <1>1, <1>2 DEF ProvInv, CallsOK, InOrder, QueueStands
<1> QED
  BY <1>1, <1>3, <1>4, BrokerKept DEF ProvInv

LEMMA ProcessEndsInv == ASSUME ProvInv, ProcessEnds PROVE ProvInv'
<1>1. /\ UNCHANGED <<conf, ttlMs, starts, dlx, dlq, bound, queue, declaredAs, place, spawned, calls,
                     ready, overlapped, promised>>
      /\ proc' = "down" /\ consumer' = None /\ lock' = None
      /\ todo' = [c \in Callers |-> <<>>] /\ workers' = [c \in Callers |-> 0]
  BY DEF ProcessEnds, brokerVars, queueVars, histVars
<1>2. \A c \in Callers : ~Declaring(c)' /\ ~Deleting(c)' /\ ~Has(c, {"pool"})'
  BY <1>1, CallKindsNext, Kinds
<1>3. TypeOK'
  BY <1>1, <1>2, ProvisioningAssumption DEF ProvInv, TypeOK
<1>4. CallsOK' /\ InOrder' /\ QueueStands'
  BY <1>1, <1>2 DEF ProvInv, CallsOK, InOrder, QueueStands
<1> QED
  BY <1>1, <1>3, <1>4, BrokerKept DEF ProvInv
-----------------------------------------------------------------------------
(* A call begins. When one of the other kind is under way, that is recorded.  *)
LEMMA DeclareInv ==
  ASSUME ProvInv, NEW c \in Callers, SpawnConsumer(c) \/ DeclareTenantQueue(c)
  PROVE  ProvInv'
<1>1. /\ UNCHANGED <<proc, conf, ttlMs, consumer, starts, dlx, dlq, bound, queue, declaredAs, place, ready, promised>>
      /\ proc = "serving" /\ todo[c] = <<>> /\ calls < MaxCalls /\ calls' = calls + 1
      /\ overlapped' = (overlapped \/ \E d \in Callers : Deleting(d))
  BY DEF SpawnConsumer, DeclareTenantQueue, Begin, procVars, brokerVars, queueVars
<1>2. PICK frames \in {<<"dlx", "dlq", "bind", "queue">>, <<"dlx", "dlq", "bind", "queue", "pool">>} :
        /\ todo' = [todo EXCEPT ![c] = frames]
        /\ frames = <<"dlx", "dlq", "bind", "queue", "pool">> => lock = None /\ lock' = c
        /\ frames = <<"dlx", "dlq", "bind", "queue">> => lock' = lock
  <2>1. CASE SpawnConsumer(c)
    <3>1. <<"dlx", "dlq", "bind", "queue", "pool">> # <<"dlx", "dlq", "bind", "queue">>
      OBVIOUS
    <3> QED
      BY <2>1, <3>1, SpawnFrames DEF SpawnConsumer, Begin
  <2>2. CASE DeclareTenantQueue(c)
    <3>1. <<"dlx", "dlq", "bind", "queue", "pool">> # <<"dlx", "dlq", "bind", "queue">>
      OBVIOUS
    <3> QED
      BY <2>2, <3>1 DEF DeclareTenantQueue, Begin, DeclareFrames, procVars
  <2> QED
    BY <2>1, <2>2
<1>3. /\ \A d \in Callers : todo[d] \in Rest \cup {<<>>}
      /\ \A d \in Callers : todo'[d] = IF d = c THEN frames ELSE todo[d]
      /\ frames \in DeclareRest \cup SpawnRest
      /\ frames \in SpawnRest <=> frames = <<"dlx", "dlq", "bind", "queue", "pool">>
      /\ todo' \in [Callers -> Rest \cup {<<>>}]
      /\ Head(frames) = "dlx" /\ frames # <<"pool">>
  <2>1. /\ <<"dlx", "dlq", "bind", "queue">> \in DeclareRest
        /\ <<"dlx", "dlq", "bind", "queue", "pool">> \in SpawnRest
        /\ Head(<<"dlx", "dlq", "bind", "queue">>) = "dlx"
        /\ Head(<<"dlx", "dlq", "bind", "queue", "pool">>) = "dlx"
    BY DEF DeclareRest, SpawnRest
  <2>2. /\ frames \in DeclareRest \cup SpawnRest /\ Head(frames) = "dlx"
        /\ frames \in SpawnRest <=> frames = <<"dlx", "dlq", "bind", "queue", "pool">>
    BY <1>2, <2>1, Kinds
  <2>3. frames # <<"pool">>
    BY <2>2, Shapes
  <2>4. todo \in [Callers -> Rest \cup {<<>>}] /\ todo' = [todo EXCEPT ![c] = frames]
    BY <1>2 DEF ProvInv, CallsOK
  <2> QED
    BY <2>2, <2>3, <2>4 DEF Rest
<1>4. \A d \in Callers :
        /\ Declaring(d)' <=> d = c \/ Declaring(d)
        /\ Deleting(d)' <=> Deleting(d)
        /\ Has(d, {"pool"})' <=> (d = c /\ frames \in SpawnRest) \/ Has(d, {"pool"})
  BY <1>1, <1>3, CallKinds, CallKindsNext, Kinds
<1>5. TypeOK'
  <2>1. {dlx, dlq, bound, spawned', ready, overlapped'} \subseteq BOOLEAN
    BY <1>1 DEF ProvInv, TypeOK, SpawnConsumer, DeclareTenantQueue
  <2>2. workers' \in [Callers -> Int]
    <3>1. \A w \in RowWorkers : SpawnConcurrency(w) \in Int
      BY <1>1, ProvisioningAssumption DEF ProvInv, CallsOK, SpawnConcurrency, Conf
    <3> QED
      BY <3>1 DEF ProvInv, TypeOK, SpawnConsumer, DeclareTenantQueue
  <2>3. calls' \in 0..MaxCalls
    BY <1>1, ProvisioningAssumption DEF ProvInv, TypeOK
  <2>4. lock' \in Callers \cup {None} /\ \A d \in Callers : (lock' = d) <=> Has(d, {"pool"})'
    BY <1>2, <1>3, <1>4, ProvisioningAssumption DEF ProvInv, TypeOK
  <2> QED
    BY <1>1, <2>1, <2>2, <2>3, <2>4 DEF ProvInv, TypeOK
<1>6. CallsOK'
  BY <1>1, <1>3 DEF ProvInv, CallsOK
<1>7. InOrder'
  BY <1>1, <1>3, <1>4 DEF ProvInv, InOrder
<1>8. QueueStands'
  BY <1>1, <1>4 DEF ProvInv, QueueStands
<1>9. DeadLetterHome' /\ NotDiscarded' /\ TTLAsConfigured' /\ NoneDeclared'
  BY <1>1 DEF ProvInv, DeadLetterHome, NotDiscarded, TTLAsConfigured, NoneDeclared
<1> QED
  BY <1>5, <1>6, <1>7, <1>8, <1>9 DEF ProvInv

LEMMA DeleteInv == ASSUME ProvInv, NEW c \in Callers, DeleteTenantQueue(c) PROVE ProvInv'
<1> DEFINE frames == <<"delQueue", "delDLQ", "delDLX">>
<1>1. /\ UNCHANGED <<proc, conf, ttlMs, consumer, lock, starts, dlx, dlq, bound, queue, declaredAs, place,
                     workers, spawned, promised>>
      /\ proc = "serving" /\ todo[c] = <<>> /\ calls < MaxCalls /\ calls' = calls + 1
      /\ overlapped' = (overlapped \/ \E d \in Callers : Declaring(d))
      /\ ready' = FALSE
      /\ todo' = [todo EXCEPT ![c] = frames]
  BY DEF DeleteTenantQueue, Begin, DeleteFrames, procVars, brokerVars, queueVars
<1>2. frames \in DeleteRest /\ Head(frames) = "delQueue"
  BY DEF DeleteRest
<1> HIDE DEF frames
<1>3. /\ \A d \in Callers : todo[d] \in Rest \cup {<<>>}
      /\ \A d \in Callers : todo'[d] = IF d = c THEN frames ELSE todo[d]
      /\ todo' \in [Callers -> Rest \cup {<<>>}]
  BY <1>1, <1>2 DEF ProvInv, CallsOK, Rest
<1>4. \A d \in Callers :
        /\ Declaring(d)' <=> Declaring(d)
        /\ Deleting(d)' <=> d = c \/ Deleting(d)
        /\ Has(d, {"pool"})' <=> Has(d, {"pool"})
  BY <1>1, <1>2, <1>3, CallKinds, CallKindsNext, Kinds
<1>5. TypeOK'
  <2>1. {dlx, dlq, bound, spawned, ready', overlapped'} \subseteq BOOLEAN
    BY <1>1 DEF ProvInv, TypeOK
  <2>2. calls' \in 0..MaxCalls
    BY <1>1, ProvisioningAssumption DEF ProvInv, TypeOK
  <2> QED
    BY <1>1, <1>4, <2>1, <2>2 DEF ProvInv, TypeOK
<1>6. CallsOK'
  BY <1>1, <1>3 DEF ProvInv, CallsOK
<1>7. InOrder'
  BY <1>1, <1>2, <1>3, <1>4 DEF ProvInv, InOrder
<1>8. QueueStands'
  BY <1>1, <1>4 DEF ProvInv, QueueStands
<1>9. DeadLetterHome' /\ NotDiscarded' /\ TTLAsConfigured' /\ NoneDeclared'
  BY <1>1 DEF ProvInv, DeadLetterHome, NotDiscarded, TTLAsConfigured, NoneDeclared
<1> QED
  BY <1>5, <1>6, <1>7, <1>8, <1>9 DEF ProvInv
-----------------------------------------------------------------------------
(* A call returns: nothing is left of it, and it holds no lock.               *)
LEMMA Returned ==
  ASSUME ProvInv, NEW c \in Callers, todo[c] # <<>>, Return(c), UNCHANGED <<proc, conf, ttlMs>>
  PROVE  /\ CallsOK'
         /\ \A d \in Callers : todo'[d] = IF d = c THEN <<>> ELSE todo[d]
         /\ \A d \in Callers : (Declaring(d)' => Declaring(d)) /\ (Deleting(d)' => Deleting(d))
         /\ workers' \in [Callers -> Int]
         /\ lock' \in Callers \cup {None} /\ \A d \in Callers : (lock' = d) <=> Has(d, {"pool"})'
<1>1. /\ todo' = [todo EXCEPT ![c] = <<>>]
      /\ workers' = [workers EXCEPT ![c] = 0]
      /\ lock' = IF lock = c THEN None ELSE lock
      /\ todo \in [Callers -> Rest \cup {<<>>}]
  BY DEF Return, Unlocked, ProvInv, CallsOK
<1>2. /\ \A d \in Callers : todo[d] \in Rest \cup {<<>>}
      /\ \A d \in Callers : todo'[d] = IF d = c THEN <<>> ELSE todo[d]
      /\ todo' \in [Callers -> Rest \cup {<<>>}]
  BY <1>1
<1>3. proc = "serving"
  BY <1>2 DEF ProvInv, CallsOK
<1>4. CallsOK'
  BY <1>2, <1>3 DEF ProvInv, CallsOK
<1>5. \A d \in Callers :
        /\ Declaring(d)' <=> d # c /\ Declaring(d)
        /\ Deleting(d)' <=> d # c /\ Deleting(d)
        /\ Has(d, {"pool"})' <=> d # c /\ Has(d, {"pool"})
  BY <1>2, CallKinds, CallKindsNext, Kinds
<1>6. workers' \in [Callers -> Int]
  BY <1>1 DEF ProvInv, TypeOK
<1>7. lock' \in Callers \cup {None} /\ \A d \in Callers : (lock' = d) <=> Has(d, {"pool"})'
  BY <1>1, <1>5, ProvisioningAssumption DEF ProvInv, TypeOK
<1> QED
  BY <1>2, <1>4, <1>5, <1>6, <1>7

(* A call returns and the broker has nothing new.                             *)
LEMMA ReturnedInv ==
  ASSUME ProvInv, NEW c \in Callers, todo[c] # <<>>, Return(c),
         UNCHANGED <<proc, conf, ttlMs, starts, dlx, dlq, bound, queue, declaredAs, place, spawned, calls,
                     ready, overlapped, promised>>,
         consumer' = None \/ consumer' \in [workers : Nat \ {0}, cap : 0..MaxCap]
  PROVE  ProvInv'
<1>1. /\ CallsOK'
      /\ \A d \in Callers : todo'[d] = IF d = c THEN <<>> ELSE todo[d]
      /\ \A d \in Callers : (Declaring(d)' => Declaring(d)) /\ (Deleting(d)' => Deleting(d))
      /\ workers' \in [Callers -> Int]
      /\ lock' \in Callers \cup {None} /\ \A d \in Callers : (lock' = d) <=> Has(d, {"pool"})'
  BY Returned
<1>2. TypeOK'
  BY <1>1 DEF ProvInv, TypeOK
<1>3. InOrder' /\ QueueStands'
  BY <1>1 DEF ProvInv, InOrder, QueueStands
<1> QED
  BY <1>1, <1>2, <1>3, BrokerKept DEF ProvInv

LEMMA MakePoolInv == ASSUME ProvInv, NEW c \in Callers, MakePool(c) PROVE ProvInv'
<1>1. /\ UNCHANGED <<proc, conf, ttlMs, starts, dlx, dlq, bound, queue, declaredAs, place, spawned, calls,
                     ready, overlapped, promised>>
      /\ todo[c] = <<"pool">> /\ Return(c)
      /\ \/ consumer' = consumer
         \/ /\ PoolCap(workers[c]) \in 0..MaxCap
            /\ consumer' = [workers |-> Started(workers[c]), cap |-> PoolCap(workers[c])]
  BY DEF MakePool, MakePanics, brokerVars, queueVars, histVars
<1>2. consumer' = None \/ consumer' \in [workers : Nat \ {0}, cap : 0..MaxCap]
  <2>1. workers[c] \in Int
    BY DEF ProvInv, TypeOK
  <2>2. Started(workers[c]) \in Nat \ {0}
    BY <2>1 DEF Started
  <2> QED
    BY <1>1, <2>2 DEF ProvInv, TypeOK
<1>3. todo[c] # <<>>
  BY <1>1, Kinds
<1> QED
  BY <1>1, <1>2, <1>3, ReturnedInv

(* A frame takes effect, and the call goes on or returns. The order of the    *)
(* frames and the absence of an overlap keep the dead letter queue under the  *)
(* main queue.                                                                *)
LEMMA FrameStep ==
  ASSUME ProvInv, NEW c \in Callers, todo[c] # <<>>, NEW frame, frame = Head(todo[c]), frame # "pool",
         Accepts(frame), Apply(frame),
         \A d \in Callers : d # c => todo'[d] = todo[d],
         todo'[c] = <<>> \/ (Len(todo[c]) # 1 /\ todo'[c] = Tail(todo[c])),
         UNCHANGED <<proc, conf, ttlMs, promised, overlapped>>,
         ready' => ready \/ (frame = "queue" /\ \A d \in Callers : ~Deleting(d))
  PROVE  /\ InOrder' /\ QueueStands' /\ DeadLetterHome' /\ NotDiscarded' /\ TTLAsConfigured' /\ NoneDeclared'
         /\ {dlx', dlq', bound'} \subseteq BOOLEAN
         /\ queue' \in {None, Absent} \/ queue' \in 0..HalfRange - 1
         /\ declaredAs' \subseteq Int
         /\ place' \in [Msgs -> Places]
<1>1. /\ \A d \in Callers : todo[d] \in Rest \cup {<<>>}
      /\ todo[c] \in Rest
  BY DEF ProvInv, CallsOK
<1>2. /\ todo[c] \in DeclareRest \cup SpawnRest <=> frame \in {"dlx", "dlq", "bind", "queue"}
      /\ todo[c] \in DeleteRest <=> frame \in {"delQueue", "delDLQ", "delDLX"}
      /\ Len(todo[c]) # 1 => /\ Tail(todo[c]) \in Rest
                             /\ Follows(Head(Tail(todo[c])), frame)
                             /\ todo[c] \in DeleteRest <=> Tail(todo[c]) \in DeleteRest
                             /\ Tail(todo[c]) \in DeclareRest \cup SpawnRest => todo[c] \notin DeleteRest
  BY <1>1, NextFrame
<1>3. frame \in {"dlx", "dlq", "bind", "queue", "delQueue", "delDLQ", "delDLX"}
  BY <1>1, <1>2, Shapes DEF Rest
<1>4. \A d \in Callers :
        /\ Declaring(d)' => Declaring(d)
        /\ Deleting(d)' => Deleting(d)
        /\ d # c => todo'[d] = todo[d]
  <2>1. \A d \in Callers : todo'[d] \in Rest \cup {<<>>}
    BY <1>1, <1>2
  <2> QED
    BY <1>1, <1>2, <1>3, <2>1, CallKinds, CallKindsNext, Kinds DEF Rest
<1>5. /\ Declaring(c) <=> frame \in {"dlx", "dlq", "bind", "queue"}
      /\ Deleting(c) <=> frame \in {"delQueue", "delDLQ", "delDLX"}
  BY <1>1, <1>2, CallKinds
<1>6. proc = "serving" /\ conf.ttl = Duration(ttlMs) /\ ttlMs \in Int
  BY <1>1 DEF ProvInv, CallsOK, TypeOK
<1>7. frame = "queue" => /\ MessageTTL(conf.ttl) = None \/ MessageTTL(conf.ttl) \in 0..HalfRange - 1
                         /\ MessageTTL(conf.ttl) # Absent
                         /\ Exact(ttlMs) => MessageTTL(conf.ttl) = (IF ttlMs <= 0 THEN None ELSE ttlMs)
                         /\ queue # Absent => queue = MessageTTL(conf.ttl)
  BY <1>6, AcceptedTTL DEF Accepts
<1>8. {dlx', dlq', bound'} \subseteq BOOLEAN
  BY DEF Apply, ProvInv, TypeOK
<1>9. /\ queue' = IF frame = "queue" THEN MessageTTL(conf.ttl) ELSE IF frame = "delQueue" THEN Absent ELSE queue
      /\ dlx' = IF frame \in {"dlx", "delDLX"} THEN frame = "dlx" ELSE dlx
      /\ dlq' = IF frame \in {"dlq", "delDLQ"} THEN frame = "dlq" ELSE dlq
      /\ frame = "bind" => bound' = TRUE
      /\ frame \in {"delDLQ", "delDLX"} => bound' = FALSE
      /\ frame \notin {"bind", "delDLQ", "delDLX"} => bound' = bound
      /\ declaredAs' = IF frame = "queue" THEN declaredAs \cup {ttlMs}
                       ELSE IF frame = "delQueue" THEN {} ELSE declaredAs
  BY DEF Apply
<1>10. /\ queue' \in {None, Absent} \/ queue' \in 0..HalfRange - 1
       /\ declaredAs' \subseteq Int
  BY <1>6, <1>7, <1>9 DEF ProvInv, TypeOK
<1>11. /\ place' \in [Msgs -> Places]
       /\ \A m \in Msgs : place'[m] = place[m] \/ (place[m] \in {"queue", "dlq"} /\ place'[m] = "purged")
       /\ frame = "delQueue" => \A m \in Msgs : place'[m] # "queue"
  BY DEF Apply, Purged, ProvInv, TypeOK, Places
<1>12. ~overlapped => (Declaring(c) => \A d \in Callers : ~Deleting(d))
                      /\ (Deleting(c) => \A d \in Callers : ~Declaring(d))
  BY DEF ProvInv, InOrder
<1>13. DeadLetterHome'
  <2> SUFFICES ASSUME queue' # Absent, ~overlapped PROVE dlx' /\ dlq' /\ bound'
    BY DEF DeadLetterHome
  <2>1. CASE frame = "queue"
    <3>1. dlx /\ dlq /\ bound
      BY <2>1 DEF ProvInv, InOrder
    <3> QED
      BY <1>9, <2>1, <3>1
  <2>2. CASE frame # "queue"
    <3>1. queue # Absent /\ frame \notin {"delQueue", "delDLQ", "delDLX"}
      BY <1>9, <2>2 DEF ProvInv, InOrder
    <3>2. dlx /\ dlq /\ bound
      BY <3>1 DEF ProvInv, DeadLetterHome
    <3> QED
      BY <1>3, <1>9, <2>2, <3>1, <3>2
  <2> QED
    BY <2>1, <2>2
<1>14. InOrder'
  <2> SUFFICES ASSUME ~overlapped PROVE InOrder'
    BY DEF InOrder
  <2>1. \A d, e \in Callers : ~(Declaring(d)' /\ Deleting(e)')
    BY <1>4 DEF ProvInv, InOrder
  <2>2. ASSUME NEW d \in Callers, d # c, todo'[d] # <<>>
        PROVE  /\ Head(todo'[d]) \in {"dlq", "bind", "queue"} => dlx'
               /\ Head(todo'[d]) \in {"bind", "queue"} => dlq'
               /\ Head(todo'[d]) = "queue" => bound'
               /\ Head(todo'[d]) \in {"delDLQ", "delDLX"} => queue' = Absent
    <3>1. /\ Head(todo[d]) \in {"dlq", "bind", "queue"} => dlx
          /\ Head(todo[d]) \in {"bind", "queue"} => dlq
          /\ Head(todo[d]) = "queue" => bound
          /\ Head(todo[d]) \in {"delDLQ", "delDLX"} => queue = Absent
      BY <1>4, <2>2 DEF ProvInv, InOrder
    <3>2. /\ Head(todo[d]) \in {"dlq", "bind", "queue"} => Declaring(d)
          /\ Head(todo[d]) \in {"delDLQ", "delDLX"} => Deleting(d)
      BY <1>1, <1>4, <2>2, CallKinds, NextFrame
    <3> QED
      BY <1>4, <1>5, <1>9, <1>12, <2>2, <3>1, <3>2
  <2>3. ASSUME todo'[c] # <<>>
        PROVE  /\ Head(todo'[c]) \in {"dlq", "bind", "queue"} => dlx'
               /\ Head(todo'[c]) \in {"bind", "queue"} => dlq'
               /\ Head(todo'[c]) = "queue" => bound'
               /\ Head(todo'[c]) \in {"delDLQ", "delDLX"} => queue' = Absent
    <3>1. Follows(Head(todo'[c]), frame)
      BY <1>2, <2>3
    <3>2. /\ frame \in {"dlq", "bind", "queue"} => dlx
          /\ frame \in {"bind", "queue"} => dlq
          /\ frame \in {"delDLQ", "delDLX"} => queue = Absent
      BY DEF ProvInv, InOrder
    <3> QED
      BY <1>9, <3>1, <3>2 DEF Follows
  <2> QED
    BY <2>1, <2>2, <2>3 DEF InOrder
<1>15. QueueStands'
  <2>1. ready' => queue' # Absent /\ \A d \in Callers : ~Deleting(d)'
    BY <1>4, <1>5, <1>7, <1>9 DEF ProvInv, QueueStands
  <2>2. \A m \in Msgs : place'[m] = "queue" => queue' # Absent
    BY <1>7, <1>9, <1>11 DEF ProvInv, QueueStands
  <2> QED
    BY <1>11, <2>1, <2>2 DEF ProvInv, QueueStands
<1>16. NotDiscarded'
  BY <1>11 DEF ProvInv, QueueStands, NotDiscarded
<1>17. TTLAsConfigured'
  <2>1. ASSUME queue' # Absent, NEW ms \in declaredAs', Exact(ms) PROVE queue' = (IF ms <= 0 THEN None ELSE ms)
    <3>1. CASE ms \in declaredAs
      BY <1>7, <1>9, <2>1, <3>1 DEF ProvInv, TTLAsConfigured, NoneDeclared
    <3>2. CASE ms \notin declaredAs
      BY <1>7, <1>9, <2>1, <3>2
    <3> QED
      BY <3>1, <3>2
  <2> QED
    BY <2>1 DEF TTLAsConfigured, Exact
<1>18. NoneDeclared'
  BY <1>7, <1>9 DEF ProvInv, NoneDeclared
<1> QED
  BY <1>8, <1>10, <1>11, <1>13, <1>14, <1>15, <1>16, <1>17, <1>18
LEMMA SendInv == ASSUME ProvInv, NEW c \in Callers, Send(c) PROVE ProvInv'
<1> DEFINE frame == Head(todo[c])
<1>1. /\ UNCHANGED <<proc, conf, ttlMs, consumer, starts, spawned, calls, overlapped, promised>>
      /\ todo[c] # <<>> /\ frame # "pool" /\ Accepts(frame) /\ Apply(frame)
      /\ ready' = (ready \/ (frame = "queue" /\ ~\E d \in Callers : Deleting(d)))
      /\ \/ Len(todo[c]) = 1 /\ Return(c)
         \/ Len(todo[c]) # 1 /\ todo' = [todo EXCEPT ![c] = Tail(@)] /\ UNCHANGED <<workers, lock>>
  BY DEF Send
<1>2. ready' => ready \/ (frame = "queue" /\ \A d \in Callers : ~Deleting(d))
  BY <1>1
<1>3. ready' \in BOOLEAN
  BY <1>1 DEF ProvInv, TypeOK
<1> HIDE DEF frame
<1>4. todo \in [Callers -> Rest \cup {<<>>}] /\ proc = "serving"
  BY <1>1 DEF ProvInv, CallsOK
<1>5. CASE Len(todo[c]) = 1 /\ Return(c)
  <2>1. /\ CallsOK'
        /\ \A d \in Callers : todo'[d] = IF d = c THEN <<>> ELSE todo[d]
        /\ workers' \in [Callers -> Int]
        /\ lock' \in Callers \cup {None} /\ \A d \in Callers : (lock' = d) <=> Has(d, {"pool"})'
    BY <1>1, <1>5, Returned
  <2>2. /\ InOrder' /\ QueueStands' /\ DeadLetterHome' /\ NotDiscarded' /\ TTLAsConfigured' /\ NoneDeclared'
        /\ {dlx', dlq', bound'} \subseteq BOOLEAN
        /\ queue' \in {None, Absent} \/ queue' \in 0..HalfRange - 1
        /\ declaredAs' \subseteq Int
        /\ place' \in [Msgs -> Places]
    BY <1>1, <1>2, <2>1, FrameStep DEF frame
  <2>3. TypeOK'
    BY <1>1, <1>3, <2>1, <2>2 DEF ProvInv, TypeOK
  <2> QED
    BY <2>1, <2>2, <2>3 DEF ProvInv
<1>6. CASE Len(todo[c]) # 1 /\ todo' = [todo EXCEPT ![c] = Tail(todo[c])] /\ UNCHANGED <<workers, lock>>
  <2>1. /\ Tail(todo[c]) \in Rest
        /\ todo[c] \in SpawnRest <=> Tail(todo[c]) \in SpawnRest \cup {<<"pool">>}
        /\ todo[c] # <<"pool">>
    BY <1>1, <1>4, <1>6, NextFrame DEF frame
  <2>2. /\ todo' \in [Callers -> Rest \cup {<<>>}]
        /\ \A d \in Callers : todo'[d] = IF d = c THEN Tail(todo[c]) ELSE todo[d]
    BY <1>4, <1>6, <2>1
  <2>3. CallsOK'
    BY <1>1, <1>4, <2>2 DEF ProvInv, CallsOK
  <2>4. \A d \in Callers : Has(d, {"pool"})' <=> Has(d, {"pool"})
    BY <1>4, <2>1, <2>2, CallKinds, CallKindsNext
  <2>5. /\ InOrder' /\ QueueStands' /\ DeadLetterHome' /\ NotDiscarded' /\ TTLAsConfigured' /\ NoneDeclared'
        /\ {dlx', dlq', bound'} \subseteq BOOLEAN
        /\ queue' \in {None, Absent} \/ queue' \in 0..HalfRange - 1
        /\ declaredAs' \subseteq Int
        /\ place' \in [Msgs -> Places]
    BY <1>1, <1>2, <1>6, <2>2, FrameStep DEF frame
  <2>6. TypeOK'
    BY <1>1, <1>3, <1>6, <2>4, <2>5 DEF ProvInv, TypeOK
  <2> QED
    BY <2>3, <2>5, <2>6 DEF ProvInv
<1> QED
  BY <1>1, <1>5, <1>6

LEMMA SendFailsInv == ASSUME ProvInv, NEW c \in Callers, SendFails(c) PROVE ProvInv'
<1> DEFINE frame == Head(todo[c])
<1>1. /\ UNCHANGED <<proc, conf, ttlMs, consumer, starts, spawned, calls, ready, overlapped, promised>>
      /\ todo[c] # <<>> /\ frame # "pool" /\ Return(c)
      /\ UNCHANGED <<dlx, dlq, bound, queue, declaredAs, place>> \/ (Accepts(frame) /\ Apply(frame))
  BY DEF SendFails, brokerVars, queueVars, histVars
<1> HIDE DEF frame
<1>2. CASE UNCHANGED <<dlx, dlq, bound, queue, declaredAs, place>>
  BY <1>1, <1>2, ReturnedInv DEF ProvInv, TypeOK
<1>3. CASE Accepts(frame) /\ Apply(frame)
  <2>1. /\ CallsOK'
        /\ \A d \in Callers : todo'[d] = IF d = c THEN <<>> ELSE todo[d]
        /\ workers' \in [Callers -> Int]
        /\ lock' \in Callers \cup {None} /\ \A d \in Callers : (lock' = d) <=> Has(d, {"pool"})'
    BY <1>1, Returned
  <2>2. /\ InOrder' /\ QueueStands' /\ DeadLetterHome' /\ NotDiscarded' /\ TTLAsConfigured' /\ NoneDeclared'
        /\ {dlx', dlq', bound'} \subseteq BOOLEAN
        /\ queue' \in {None, Absent} \/ queue' \in 0..HalfRange - 1
        /\ declaredAs' \subseteq Int
        /\ place' \in [Msgs -> Places]
    BY <1>1, <1>3, <2>1, FrameStep DEF frame
  <2>3. TypeOK'
    BY <1>1, <2>1, <2>2 DEF ProvInv, TypeOK
  <2> QED
    BY <2>1, <2>2, <2>3 DEF ProvInv
<1> QED
  BY <1>1, <1>2, <1>3

-----------------------------------------------------------------------------
(* Messages move. What was ready has a queue, and the dead letter exchange    *)
(* unless calls overlapped.                                                   *)
Moves(m) ==
  \/ place[m] = "unsent" /\ place' = [place EXCEPT ![m] = "sent"] /\ promised' = promised
  \/ /\ place[m] = "sent"
     /\ place' = [place EXCEPT ![m] = IF queue = Absent THEN "unroutable" ELSE "queue"]
     /\ promised' = IF ready THEN promised \cup {m} ELSE promised
  \/ place[m] = "sent" /\ place' = [place EXCEPT ![m] = "lost"] /\ promised' = promised
  \/ /\ place[m] = "queue"
     /\ place' = [place EXCEPT ![m] = IF dlx /\ bound THEN "dlq" ELSE "dropped"]
     /\ promised' = promised

MessagesOK ==
  /\ place \in [Msgs -> Places]
  /\ \A m \in Msgs : place[m] = "queue" => queue # Absent
  /\ \A m \in promised : m \in Msgs /\ place[m] \notin {"unsent", "sent"}
  /\ \A m \in promised : place[m] # "unroutable" /\ (place[m] = "dropped" => overlapped)

LEMMA MessagesInv ==
  ASSUME ProvInv, (\E m \in Msgs : PublishMessage(m) \/ Route(m) \/ FramesLost(m) \/ DeadLetter(m))
                  \/ BrokerRestarts
  PROVE  ProvInv'
<1>1. UNCHANGED <<proc, conf, ttlMs, consumer, lock, starts, dlx, dlq, bound, queue, declaredAs, todo, workers,
                  spawned, calls, ready, overlapped>>
  BY DEF PublishMessage, Route, FramesLost, DeadLetter, BrokerRestarts, procVars, queueVars, callVars, histVars
<1>2. \A c \in Callers : (Has(c, {"pool"}) <=> Has(c, {"pool"})') /\ (Declaring(c) <=> Declaring(c)')
                         /\ (Deleting(c) <=> Deleting(c)')
  BY <1>1 DEF Has, Declaring, Deleting
<1>3. \/ \E m \in Msgs : Moves(m)
      \/ /\ place' = [m \in Msgs |-> IF place[m] \in {"queue", "dlq"} THEN "lost" ELSE place[m]]
         /\ promised' = promised
  BY DEF PublishMessage, Route, FramesLost, DeadLetter, BrokerRestarts, histVars, Moves
<1>4. /\ MessagesOK
      /\ ready => queue # Absent
      /\ \A m \in Msgs : place[m] = "queue" /\ ~overlapped => dlx /\ bound
  BY DEF ProvInv, TypeOK, QueueStands, DeadLetterHome, NotDiscarded, MessagesOK
<1>5. MessagesOK'
  <2>1. ASSUME NEW m \in Msgs, Moves(m) PROVE MessagesOK'
    BY <1>1, <1>4, <2>1 DEF Moves, MessagesOK, Places
  <2>2. ASSUME place' = [m \in Msgs |-> IF place[m] \in {"queue", "dlq"} THEN "lost" ELSE place[m]],
               promised' = promised
        PROVE  MessagesOK'
    BY <1>1, <1>4, <2>2 DEF MessagesOK, Places
  <2> QED
    BY <1>3, <2>1, <2>2
<1>6. TypeOK'
  BY <1>1, <1>2, <1>5 DEF ProvInv, TypeOK, MessagesOK
<1>7. CallsOK' /\ InOrder' /\ DeadLetterHome' /\ TTLAsConfigured' /\ NoneDeclared'
  BY <1>1, <1>2 DEF ProvInv, CallsOK, InOrder, DeadLetterHome, TTLAsConfigured, NoneDeclared
<1>8. QueueStands' /\ NotDiscarded'
  BY <1>1, <1>2, <1>5 DEF ProvInv, QueueStands, NotDiscarded, MessagesOK
<1> QED
  BY <1>6, <1>7, <1>8 DEF ProvInv

-----------------------------------------------------------------------------
LEMMA ProvStutter == ASSUME ProvInv, UNCHANGED vars PROVE ProvInv'
<1>1. UNCHANGED <<proc, conf, ttlMs, consumer, lock, starts, dlx, dlq, bound, queue, declaredAs, place, todo, workers, spawned, calls,
                  ready, overlapped, promised>>
  BY DEF vars, procVars, brokerVars, queueVars, callVars, histVars
<1>2. \A c \in Callers : (Has(c, {"pool"}) <=> Has(c, {"pool"})') /\ (Declaring(c) <=> Declaring(c)')
                         /\ (Deleting(c) <=> Deleting(c)')
  BY <1>1 DEF Has, Declaring, Deleting
<1>3. TypeOK'
  BY <1>1, <1>2 DEF ProvInv, TypeOK
<1>4. CallsOK' /\ InOrder' /\ QueueStands'
  BY <1>1, <1>2 DEF ProvInv, CallsOK, InOrder, QueueStands
<1> QED
  BY <1>1, <1>3, <1>4, BrokerKept DEF ProvInv

LEMMA ProvInvariant == Spec => []ProvInv
<1>1. ProvInv /\ [Next]_vars => ProvInv'
  <2> SUFFICES ASSUME ProvInv, [Next]_vars PROVE ProvInv'
    OBVIOUS
  <2>1. CASE UNCHANGED vars
    BY <2>1, ProvStutter
  <2>2. ASSUME NEW c \in Callers, Call(c) PROVE ProvInv'
    BY <2>2, SendInv, SendFailsInv, MakePoolInv DEF Call
  <2> QED
    BY <2>1, <2>2, LoadInv, StartUpInv, ProcessEndsInv, DeclareInv, DeleteInv, MessagesInv DEF Next
<1> QED
  BY <1>1, ProvInit, PTL DEF Spec

(* Whatever the environment says and wherever a call fails: the broker never  *)
(* holds a negative TTL, a consumer has a worker, and the manager's mutex is  *)
(* held by a SpawnConsumer under way or by nobody.                            *)
THEOREM ProvisioningTypes == Spec => []TypeOK
BY ProvInvariant, PTL DEF ProvInv

(* The frames' order gives the main queue its dead letter queue, however many *)
(* calls run and are cut off, as long as no deletion overlaps a declaration.  *)
THEOREM DeadLettersHaveAHome == Spec => []DeadLetterHome
BY ProvInvariant, PTL DEF ProvInv

(* A message that reaches the broker after a declaration finds the queue, and *)
(* is dropped on expiry or rejection only if a deletion overlapped a          *)
(* declaration. Whether it reaches the broker, and outlives its restarts, is  *)
(* open.                                                                      *)
THEOREM ArrivalsNotDiscarded == Spec => []NotDiscarded
BY ProvInvariant, PTL DEF ProvInv

(* For integers of every width and Durations of every unit: a queue has the   *)
(* MESSAGE_TTL_MS of every process that declared it and whose value neither   *)
(* wraps as a Duration nor comes round in int32; none for 0 or less.          *)
THEOREM QueueTTLs == Spec => []TTLAsConfigured
BY ProvInvariant, PTL DEF ProvInv
=============================================================================
