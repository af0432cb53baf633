----------------------- MODULE TenantLifecycleProofs -----------------------
(***************************************************************************)
(* Proofs about tenants, requests and the shutdown, for any number of      *)
(* tenants, requests and restarts.                                         *)
(***************************************************************************)
EXTENDS TenantLifecycle, TLAPS

(* The create of a tenant, of which there is one at most, has begun; it was   *)
(* answered 201.                                                              *)
Begun(t)   == \E c \in Requests : Kind[c] = "create" /\ Target[c] = t /\ pc[c] # "idle"
Created(t) == \E c \in Requests : Kind[c] = "create" /\ Target[c] = t /\ resp[c] = 201

(* Each route has its own control points and answers.                         *)
RequestInv ==
  \A r \in Requests :
    /\ pc[r] = "spawn" => Kind[r] = "create"
    /\ pc[r] \in {"lookup", "resize"} => Kind[r] = "update" /\ Ask[r] \in 1..WorkerLimit
    /\ pc[r] \in {"find", "close", "stop"} => Kind[r] = "delete"
    /\ resp[r] # 0 => pc[r] = "done"
    /\ resp[r] = 201 => Kind[r] = "create"
    /\ resp[r] = 204 => Kind[r] = "delete"

(* A row is written only after the create, and for good after a delete.       *)
RowInv ==
  /\ \A t \in Tenants : row[t] # 0 => Begun(t)
  /\ \A r \in Requests : pc[r] \in {"lookup", "resize"} => Begun(Target[r])
  /\ \A r \in Requests : pc[r] \in {"find", "close", "stop"} \/ resp[r] = 204 =>
       row[Target[r]] = 0 /\ Begun(Target[r])

(* A tenant has a consumer exactly when its create was answered 201.          *)
SpawnInv == \A t \in Tenants : consumer[t] # "none" <=> Created(t)

(* A consumer that is not stopped is in one place only: the map, the batch of *)
(* ShutdownAll, or the hands of one delete.                                   *)
Deleting(r) == pc[r] \in {"close", "stop"}
HolderInv ==
  /\ \A t \in mapped : consumer[t] = "running"
  /\ \A t \in batch : t \notin mapped /\ consumer[t] \in {"running", "signalled", "racing", "stopped"}
  /\ \A r \in Requests :
       /\ pc[r] = "close" => consumer[Target[r]] = "running"
       /\ pc[r] = "stop" => consumer[Target[r]] \in {"signalled", "racing"}
       /\ Deleting(r) => Target[r] \notin mapped \cup batch
  /\ \A q, r \in Requests : Deleting(q) /\ Deleting(r) /\ Target[q] = Target[r] => q = r
  /\ \A t \in Tenants : consumer[t] \in {"running", "signalled", "racing"} =>
       t \in mapped \cup batch \/ \E r \in Requests : Target[r] = t /\ Deleting(r)
  /\ \A t \in Tenants : closes[t] <= 1 /\ (consumer[t] \in {"none", "running"} => closes[t] = 0)

(* The batch exists from ShutdownAll on and is stopped before main goes on.   *)
ServerInv ==
  /\ server = "up" => batch = {}
  /\ server \in {"draining", "exited"} => \A t \in batch : consumer[t] = "stopped"
  /\ server = "exited" => \A r \in Requests : ~Active(r)

(* Before a shutdown only a delete takes a consumer from the map, and its row *)
(* is gone by then.                                                           *)
ServedInv ==
  server = "up" => \A t \in Tenants \ mapped : consumer[t] \notin {"none", "dead"} => row[t] = 0

(* Of an undisturbed tenant one request at most holds a value for the pool,   *)
(* and that value is the row's; with none under way the pool has it.          *)
Writing(r) == pc[r] \in {"spawn", "lookup", "resize"}
ValueInv ==
  \A t \in Tenants \ disturbed :
    /\ \A q, r \in Requests :
         Writing(q) /\ Writing(r) /\ Target[q] = t /\ Target[r] = t => q = r
    /\ \A r \in Requests : Writing(r) /\ Target[r] = t /\ row[t] # 0 =>
         row[t] = IF Kind[r] = "create" THEN CreateConcurrency(Ask[r]) ELSE Ask[r]
    /\ t \in mapped /\ row[t] # 0 /\ (\A r \in Requests : Target[r] = t => ~Writing(r)) => Agrees(t)

LifeInv ==
  /\ TypeOK /\ RequestInv /\ RowInv /\ SpawnInv /\ HolderInv
  /\ ServerInv /\ ServedInv /\ ValueInv /\ DeletedStaysDown

-----------------------------------------------------------------------------
(* Nothing is under way in an initial state.                                  *)
LEMMA LifeInit == Init => LifeInv
<1> SUFFICES ASSUME Init PROVE LifeInv
  OBVIOUS
<1> USE LifecycleAssumption
<1>1. TypeOK
  BY DEF Init, TypeOK, Consumers, ReqPC, Responses, ServerPC
<1>2. RequestInv /\ RowInv /\ SpawnInv /\ ServerInv /\ ServedInv
  BY DEF Init, RequestInv, RowInv, SpawnInv, Created, ServerInv, ServedInv, Active
<1>3. HolderInv
  BY DEF Init, HolderInv, Deleting
<1>4. ValueInv /\ DeletedStaysDown
  BY DEF Init, ValueInv, Writing, DeletedStaysDown
<1> QED
  BY <1>1, <1>2, <1>3, <1>4 DEF LifeInv

-----------------------------------------------------------------------------
(* A request never returns to its start, so a create that began has begun.    *)
LEMMA BegunKept ==
  ASSUME \A q \in Requests : pc[q] # "idle" => pc'[q] # "idle"
  PROVE  \A t \in Tenants : Begun(t) => Begun(t)'
BY DEF Begun

(* Nor is a 201 taken back or given by a step that leaves the 201s alone.     *)
LEMMA CreatedKept ==
  ASSUME \A q \in Requests : resp[q] = 201 <=> resp'[q] = 201
  PROVE  \A t \in Tenants : Created(t) <=> Created(t)'
BY DEF Created

(* Until its create is answered 201 a tenant has no consumer; until its       *)
(* create begins it has no row and nobody writes for it.                      *)
LEMMA BeforeCreate ==
  ASSUME LifeInv, NEW r \in Requests, Kind[r] = "create"
  PROVE  /\ resp[r] # 201 => consumer[Target[r]] = "none" /\ Target[r] \notin mapped
         /\ pc[r] = "idle" =>
              /\ resp[r] = 0 /\ row[Target[r]] = 0
              /\ \A q \in Requests : Target[q] = Target[r] =>
                   pc[q] \notin {"spawn", "lookup", "resize", "find", "close", "stop"} /\ resp[q] # 204
<1> USE LifecycleAssumption DEF LifeInv
<1> Target[r] \in Tenants
  OBVIOUS
<1>1. resp[r] # 201 => ~Created(Target[r])
  BY DEF Created
<1>2. resp[r] # 201 => consumer[Target[r]] = "none" /\ Target[r] \notin mapped
  BY <1>1 DEF SpawnInv, HolderInv
<1>3. pc[r] = "idle" => ~Begun(Target[r])
  BY DEF Begun
<1>4. pc[r] = "idle" => resp[r] = 0
  BY DEF RequestInv
<1>5. pc[r] = "idle" => row[Target[r]] = 0
  BY <1>3 DEF RowInv
<1>6. ASSUME pc[r] = "idle", NEW q \in Requests, Target[q] = Target[r]
      PROVE  pc[q] \notin {"spawn", "lookup", "resize", "find", "close", "stop"} /\ resp[q] # 204
  <2>1. pc[q] # "spawn"
    BY <1>6 DEF RequestInv
  <2> QED
    BY <1>3, <1>6, <2>1 DEF RowInv
<1> QED
  BY <1>2, <1>4, <1>5, <1>6

(* What an answer and a move of a request change.                             *)
LEMMA Answered ==
  ASSUME TypeOK, NEW r \in Requests, NEW code \in Responses, Respond(r, code)
  PROVE  /\ pc' \in [Requests -> ReqPC] /\ resp' \in [Requests -> Responses]
         /\ pc'[r] = "done" /\ resp'[r] = code
         /\ \A q \in Requests \ {r} : pc'[q] = pc[q] /\ resp'[q] = resp[q]
BY DEF TypeOK, Respond, ReqPC

LEMMA Moved ==
  ASSUME TypeOK, NEW r \in Requests, NEW label \in ReqPC, GoTo(r, label)
  PROVE  /\ pc' \in [Requests -> ReqPC] /\ resp' = resp
         /\ pc'[r] = label
         /\ \A q \in Requests \ {r} : pc'[q] = pc[q]
BY DEF TypeOK, GoTo

(* A step of a request that does not touch the manager or main: no consumer   *)
(* changes hands.                                                             *)
LEMMA ManagerUntouched ==
  ASSUME LifeInv, NEW r \in Requests,
         pc[r] \in {"idle", "spawn", "lookup"}, server # "exited",
         mapped' = mapped, consumer' = consumer, closes' = closes,
         server' = server, batch' = batch,
         \A q \in Requests \ {r} : pc'[q] = pc[q] /\ resp'[q] = resp[q],
         pc'[r] \in {"spawn", "lookup", "resize", "find", "done"},
         resp'[r] \in {0, 400, 404, 500}
  PROVE  SpawnInv' /\ HolderInv' /\ ServerInv'
<1> USE LifecycleAssumption DEF LifeInv
<1>1. resp[r] = 0
  BY DEF RequestInv
<1>2. \A t \in Tenants : Created(t) <=> Created(t)'
  BY <1>1, CreatedKept
<1>3. SpawnInv'
  BY <1>2 DEF SpawnInv
<1>4. \A q \in Requests : Deleting(q)' <=> Deleting(q)
  BY DEF Deleting
<1>5. \A q \in Requests : Deleting(q) => pc'[q] = pc[q]
  BY DEF Deleting
<1>6. HolderInv'
  <2>1. \A q \in Requests :
          /\ pc'[q] = "close" => consumer'[Target[q]] = "running"
          /\ pc'[q] = "stop" => consumer'[Target[q]] \in {"signalled", "racing"}
    BY DEF HolderInv
  <2>2. \A t \in Tenants : consumer'[t] \in {"running", "signalled", "racing"} =>
          t \in mapped' \cup batch' \/ \E q \in Requests : Target[q] = t /\ Deleting(q)'
    BY <1>4 DEF HolderInv
  <2> QED
    BY <1>4, <2>1, <2>2 DEF HolderInv
<1>7. ServerInv'
  BY DEF ServerInv
<1> QED
  BY <1>3, <1>6, <1>7

-----------------------------------------------------------------------------
(* A refused body changes nothing but the request.                            *)
LEMMA BadBodyStep ==
  ASSUME LifeInv, NEW r \in Requests, BadBody(r)
  PROVE  LifeInv'
<1> USE LifecycleAssumption DEF LifeInv
<1>1. /\ pc[r] = "idle" /\ Kind[r] \in {"create", "update"} /\ server # "exited"
      /\ Respond(r, 400)
      /\ row' = row /\ mapped' = mapped /\ consumer' = consumer /\ pool' = pool
      /\ closes' = closes /\ server' = server /\ batch' = batch
      /\ restarts' = restarts /\ disturbed' = disturbed
  BY DEF BadBody, Arrives, mgrVars, srvVars
<1>2. /\ pc' \in [Requests -> ReqPC] /\ resp' \in [Requests -> Responses]
      /\ pc'[r] = "done" /\ resp'[r] = 400
      /\ \A q \in Requests \ {r} : pc'[q] = pc[q] /\ resp'[q] = resp[q]
  BY <1>1, Answered DEF Responses
<1>3. TypeOK'
  BY <1>1, <1>2 DEF TypeOK
<1>4. RequestInv'
  BY <1>2 DEF RequestInv
<1>5. RowInv'
  BY <1>1, <1>2, BegunKept DEF RowInv
<1>6. SpawnInv' /\ HolderInv' /\ ServerInv'
  BY <1>1, <1>2, ManagerUntouched
<1>7. ServedInv' /\ DeletedStaysDown'
  BY <1>1, <1>2 DEF ServedInv, DeletedStaysDown
<1>8. ValueInv'
  BY <1>1, <1>2 DEF ValueInv, Writing, Agrees
<1> QED
  BY <1>3, <1>4, <1>5, <1>6, <1>7, <1>8

(* The worker counts that the service and the manager settle on.              *)
LEMMA WorkerCounts ==
  ASSUME NEW w \in Int
  PROVE  /\ CreateConcurrency(w) \in 1..WorkerLimit
         /\ w \in 1..WorkerLimit => UpdateWorkers(w) = IF w > MaxWorkers THEN MaxWorkers ELSE w
         /\ w > 0 => SpawnConcurrency(w) = IF w > MaxWorkers THEN MaxWorkers ELSE w
         /\ UpdateWorkers(w) \in 0..MaxWorkers
         /\ SpawnConcurrency(w) \in 0..MaxWorkers
BY LifecycleAssumption DEF CreateConcurrency, UpdateWorkers, SpawnConcurrency

(* The row of a create is the first of its tenant, so its value is the only   *)
(* one on its way to a pool.                                                  *)
LEMMA CreateTenantStep ==
  ASSUME LifeInv, NEW r \in Requests, CreateTenant(r)
  PROVE  LifeInv'
<1> USE LifecycleAssumption DEF LifeInv
<1> DEFINE t == Target[r]
           w == CreateConcurrency(Ask[r])
<1> HIDE DEF w
<1>1. /\ pc[r] = "idle" /\ Kind[r] = "create" /\ server # "exited"
      /\ InsertTenant(r)
      /\ mapped' = mapped /\ consumer' = consumer /\ pool' = pool
      /\ closes' = closes /\ server' = server /\ batch' = batch
      /\ restarts' = restarts
  BY DEF CreateTenant, Arrives, mgrVars, srvVars
<1>2. t \in Tenants /\ w \in 1..WorkerLimit
  BY WorkerCounts DEF w
<1>3. /\ consumer[t] = "none" /\ t \notin mapped /\ resp[r] = 0 /\ row[t] = 0
      /\ \A q \in Requests : Target[q] = t =>
           pc[q] \notin {"spawn", "lookup", "resize", "find", "close", "stop"} /\ resp[q] # 204
  BY <1>1, BeforeCreate
<1>4. /\ pc' \in [Requests -> ReqPC] /\ resp' \in [Requests -> Responses]
      /\ pc'[r] \in {"spawn", "done"} /\ resp'[r] \in {0, 500}
      /\ resp'[r] # 0 => pc'[r] = "done"
      /\ \A q \in Requests \ {r} : pc'[q] = pc[q] /\ resp'[q] = resp[q]
      /\ row' \in {row, [row EXCEPT ![t] = w]}
      /\ disturbed' \in {disturbed, disturbed \cup {t}}
      /\ t \notin disturbed' => pc'[r] = "spawn" /\ row' = [row EXCEPT ![t] = w]
  <2>1. CASE row' = [row EXCEPT ![t] = w] /\ GoTo(r, "spawn") /\ UNCHANGED disturbed
    BY <1>3, <2>1, Moved DEF ReqPC, TypeOK
  <2>2. CASE StatementFails(r, w, 500)
    BY <1>3, <2>2, Answered DEF StatementFails, Responses
  <2> QED
    BY <1>1, <2>1, <2>2 DEF InsertTenant, w
<1>5. row' \in [Tenants -> 0..WorkerLimit] /\ \A s \in Tenants \ {t} : row'[s] = row[s]
  BY <1>2, <1>4 DEF TypeOK
<1>6. TypeOK'
  BY <1>1, <1>2, <1>4, <1>5 DEF TypeOK
<1>7. RequestInv'
  BY <1>1, <1>4 DEF RequestInv
<1>8. RowInv'
  <2>1. \A s \in Tenants : Begun(s) => Begun(s)'
    BY <1>1, <1>4, BegunKept
  <2>2. Begun(t)'
    BY <1>1, <1>4 DEF Begun
  <2>3. \A s \in Tenants : row'[s] # 0 => Begun(s)'
    BY <1>5, <2>1, <2>2 DEF RowInv
  <2>4. \A q \in Requests : pc'[q] \in {"lookup", "resize"} => Begun(Target[q])'
    BY <1>4, <2>1 DEF RowInv
  <2>5. \A q \in Requests : pc'[q] \in {"find", "close", "stop"} \/ resp'[q] = 204 =>
          row'[Target[q]] = 0 /\ Begun(Target[q])'
    BY <1>3, <1>4, <1>5, <2>1 DEF RowInv
  <2> QED
    BY <2>3, <2>4, <2>5 DEF RowInv
<1>9. SpawnInv' /\ HolderInv' /\ ServerInv'
  BY <1>1, <1>4, ManagerUntouched
<1>10. ServedInv'
  BY <1>1, <1>3, <1>5 DEF ServedInv
<1>11. DeletedStaysDown'
  BY <1>1, <1>3, <1>4, <1>5 DEF DeletedStaysDown
<1>12. ValueInv'
  <2>1. ASSUME NEW s \in Tenants \ disturbed', s # t
        PROVE  /\ \A q, u \in Requests :
                    Writing(q)' /\ Writing(u)' /\ Target[q] = s /\ Target[u] = s => q = u
               /\ \A q \in Requests : Writing(q)' /\ Target[q] = s /\ row'[s] # 0 =>
                    row'[s] = IF Kind[q] = "create" THEN CreateConcurrency(Ask[q]) ELSE Ask[q]
               /\ s \in mapped' /\ row'[s] # 0 /\ (\A q \in Requests : Target[q] = s => ~Writing(q)') => Agrees(s)'
    BY <1>1, <1>4, <1>5, <2>1 DEF ValueInv, Writing, Agrees
  <2>2. ASSUME t \notin disturbed'
        PROVE  /\ \A q, u \in Requests :
                    Writing(q)' /\ Writing(u)' /\ Target[q] = t /\ Target[u] = t => q = u
               /\ \A q \in Requests : Writing(q)' /\ Target[q] = t /\ row'[t] # 0 =>
                    row'[t] = IF Kind[q] = "create" THEN CreateConcurrency(Ask[q]) ELSE Ask[q]
    <3>1. row'[t] = w /\ \A q \in Requests : Writing(q)' /\ Target[q] = t => q = r
      BY <1>2, <1>3, <1>4, <2>2 DEF Writing, TypeOK
    <3> QED
      BY <1>1, <3>1 DEF w
  <2> QED
    BY <1>1, <1>3, <2>1, <2>2 DEF ValueInv
<1> QED
  BY <1>6, <1>7, <1>8, <1>9, <1>10, <1>11, <1>12

(* A consumer is spawned once, by the create, into an empty place of the map. *)
LEMMA SpawnConsumerStep ==
  ASSUME LifeInv, NEW r \in Requests, SpawnConsumer(r)
  PROVE  LifeInv'
<1> USE LifecycleAssumption DEF LifeInv
<1> DEFINE t == Target[r]
           w == CreateConcurrency(Ask[r])
<1> HIDE DEF w
<1>1. /\ pc[r] = "spawn"
      /\ row' = row /\ closes' = closes /\ server' = server /\ batch' = batch
      /\ restarts' = restarts /\ disturbed' = disturbed
      /\ \/ /\ mapped' = mapped \cup {t}
            /\ consumer' = [consumer EXCEPT ![t] = "running"]
            /\ pool' = [pool EXCEPT ![t] = SpawnConcurrency(w)]
            /\ Respond(r, 201)
         \/ /\ mapped' = mapped /\ consumer' = consumer /\ pool' = pool
            /\ Respond(r, 500)
  BY DEF SpawnConsumer, DeclareFails, mgrVars, srvVars, w
<1>2. t \in Tenants /\ w \in 1..WorkerLimit
  BY WorkerCounts DEF w
<1>3. resp[r] = 0 /\ Kind[r] = "create" /\ server # "exited"
  BY <1>1 DEF RequestInv, ServerInv, Active
<1>4. consumer[t] = "none" /\ t \notin mapped
  BY <1>3, BeforeCreate
<1>5. /\ pc' \in [Requests -> ReqPC] /\ resp' \in [Requests -> Responses]
      /\ pc'[r] = "done" /\ resp'[r] \in {201, 500}
      /\ \A q \in Requests \ {r} : pc'[q] = pc[q] /\ resp'[q] = resp[q]
  BY <1>1, Answered DEF Responses
<1>6. RequestInv'
  BY <1>3, <1>5 DEF RequestInv
<1>7. RowInv'
  BY <1>1, <1>5, BegunKept DEF RowInv
<1>8. CASE resp'[r] = 500
  <2>1. mapped' = mapped /\ consumer' = consumer /\ pool' = pool
    <3>1. ~Respond(r, 201)
      BY <1>8, Answered DEF Responses
    <3> QED
      BY <1>1, <3>1
  <2>2. TypeOK'
    BY <1>1, <1>5, <2>1 DEF TypeOK
  <2>3. SpawnInv' /\ HolderInv' /\ ServerInv'
    BY <1>1, <1>3, <1>5, <1>8, <2>1, ManagerUntouched
  <2>4. ServedInv' /\ DeletedStaysDown'
    BY <1>1, <1>5, <1>8, <2>1 DEF ServedInv, DeletedStaysDown
  <2>5. ValueInv'
    BY <1>1, <1>4, <1>5, <2>1 DEF ValueInv, Writing, Agrees
  <2> QED
    BY <1>6, <1>7, <2>2, <2>3, <2>4, <2>5
<1>9. CASE resp'[r] = 201
  <2>1. /\ mapped' = mapped \cup {t}
        /\ consumer' = [consumer EXCEPT ![t] = "running"]
        /\ pool' = [pool EXCEPT ![t] = SpawnConcurrency(w)]
    <3>1. ~Respond(r, 500)
      BY <1>9, Answered DEF Responses
    <3> QED
      BY <1>1, <3>1
  <2>2. SpawnConcurrency(w) = (IF w > MaxWorkers THEN MaxWorkers ELSE w) /\ SpawnConcurrency(w) \in 0..MaxWorkers
    BY <1>2, WorkerCounts
  <2>3. consumer' \in [Tenants -> Consumers] /\ pool' \in [Tenants -> 0..MaxWorkers]
    BY <1>2, <2>1, <2>2 DEF TypeOK, Consumers
  <2>4. TypeOK'
    BY <1>1, <1>2, <1>5, <2>1, <2>3 DEF TypeOK
  <2>5. /\ consumer'[t] = "running" /\ pool'[t] = SpawnConcurrency(w)
        /\ \A s \in Tenants \ {t} : consumer'[s] = consumer[s] /\ pool'[s] = pool[s]
    BY <1>2, <2>1, <2>2 DEF TypeOK
  <2>6. SpawnInv'
    <3>1. \A s \in Tenants : Created(s)' <=> Created(s) \/ s = t
      BY <1>3, <1>5, <1>9 DEF Created
    <3> QED
      BY <2>5, <3>1 DEF SpawnInv
  <2>7. \A q \in Requests : (Deleting(q)' <=> Deleting(q)) /\ (Deleting(q) => Target[q] # t)
    BY <1>1, <1>4, <1>5 DEF Deleting, HolderInv
  <2>8. t \notin batch
    BY <1>4 DEF HolderInv
  <2>9. HolderInv'
    <3>1. \A s \in mapped' : consumer'[s] = "running"
      BY <2>1, <2>4, <2>5 DEF HolderInv, TypeOK
    <3>2. \A s \in batch' : s \notin mapped' /\ consumer'[s] \in {"running", "signalled", "racing", "stopped"}
      BY <1>1, <2>1, <2>5, <2>8 DEF HolderInv, TypeOK
    <3>3. \A q \in Requests :
            /\ pc'[q] = "close" => consumer'[Target[q]] = "running"
            /\ pc'[q] = "stop" => consumer'[Target[q]] \in {"signalled", "racing"}
            /\ Deleting(q)' => Target[q] \notin mapped' \cup batch'
      BY <1>1, <1>5, <2>1, <2>5, <2>7 DEF HolderInv, Deleting
    <3>4. \A q, u \in Requests : Deleting(q)' /\ Deleting(u)' /\ Target[q] = Target[u] => q = u
      BY <2>7 DEF HolderInv
    <3>5. \A s \in Tenants : consumer'[s] \in {"running", "signalled", "racing"} =>
            s \in mapped' \cup batch' \/ \E q \in Requests : Target[q] = s /\ Deleting(q)'
      BY <1>1, <2>1, <2>5, <2>7 DEF HolderInv
    <3>6. \A s \in Tenants : closes'[s] <= 1 /\ (consumer'[s] \in {"none", "running"} => closes'[s] = 0)
      BY <1>1, <1>4, <2>5 DEF HolderInv
    <3> QED
      BY <3>1, <3>2, <3>3, <3>4, <3>5, <3>6 DEF HolderInv
  <2>10. ServerInv'
    BY <1>1, <1>3, <1>5, <2>5, <2>8 DEF ServerInv, TypeOK
  <2>11. ServedInv'
    BY <1>1, <2>1, <2>5 DEF ServedInv
  <2>12. DeletedStaysDown'
    BY <1>1, <1>4, <1>5, <1>9, <2>1, <2>5 DEF DeletedStaysDown
  <2>13. ValueInv'
    <3>1. \A q \in Requests : Writing(q)' <=> Writing(q) /\ q # r
      BY <1>1, <1>5 DEF Writing
    <3>2. Writing(r)
      BY <1>1 DEF Writing
    <3>3. t \notin disturbed /\ row[t] # 0 => row[t] = w
      BY <1>2, <1>3, <3>2 DEF ValueInv, w
    <3>4. t \notin disturbed /\ row[t] # 0 => Agrees(t)'
      BY <1>1, <2>2, <2>5, <3>3 DEF Agrees
    <3>5. \A s \in Tenants \ {t} : Agrees(s) => Agrees(s)'
      BY <1>1, <2>5 DEF Agrees
    <3>6. \A s \in Tenants \ {t} :
            (\A q \in Requests : Target[q] = s => ~Writing(q)') => \A q \in Requests : Target[q] = s => ~Writing(q)
      BY <3>1
    <3> QED
      BY <1>1, <2>1, <3>1, <3>4, <3>5, <3>6 DEF ValueInv
  <2> QED
    BY <1>6, <1>7, <2>4, <2>6, <2>9, <2>10, <2>11, <2>12, <2>13
<1> QED
  BY <1>5, <1>8, <1>9

-----------------------------------------------------------------------------
(* An update overwrites a row that is there; unless it is alone with its      *)
(* tenant, the tenant counts as disturbed from then on.                       *)
LEMMA UpdateRowStep ==
  ASSUME LifeInv, NEW r \in Requests, UpdateRow(r)
  PROVE  LifeInv'
<1> USE LifecycleAssumption DEF LifeInv
<1> DEFINE t == Target[r]
<1>1. /\ pc[r] = "idle" /\ Kind[r] = "update" /\ server # "exited"
      /\ SetConcurrency(r)
      /\ mapped' = mapped /\ consumer' = consumer /\ pool' = pool
      /\ closes' = closes /\ server' = server /\ batch' = batch
      /\ restarts' = restarts
  BY DEF UpdateRow, Arrives, mgrVars, srvVars
<1>2. t \in Tenants /\ resp[r] = 0
  BY <1>1 DEF RequestInv
<1>3. /\ pc' \in [Requests -> ReqPC] /\ resp' \in [Requests -> Responses]
      /\ pc'[r] \in {"lookup", "done"} /\ resp'[r] \in {0, 404}
      /\ resp'[r] # 0 => pc'[r] = "done"
      /\ \A q \in Requests \ {r} : pc'[q] = pc[q] /\ resp'[q] = resp[q]
      /\ pc'[r] = "lookup" => Ask[r] \in 1..WorkerLimit /\ row[t] # 0
      /\ row' \in {row, [row EXCEPT ![t] = Ask[r]]}
      /\ row' # row => Ask[r] \in 1..WorkerLimit /\ row[t] # 0
      /\ disturbed' \in {disturbed, disturbed \cup {t}}
      /\ t \notin disturbed' =>
           \/ pc'[r] = "lookup" /\ row' = [row EXCEPT ![t] = Ask[r]] /\ ~Overlaps(r)
           \/ pc'[r] = "done" /\ row' = row
  <2>1. CASE /\ Ask[r] \in 1..WorkerLimit /\ row[t] # 0
             /\ row' = [row EXCEPT ![t] = Ask[r]]
             /\ disturbed' = IF Overlaps(r) THEN disturbed \cup {t} ELSE disturbed
             /\ GoTo(r, "lookup")
    BY <1>2, <2>1, Moved DEF ReqPC, TypeOK
  <2>2. CASE /\ Ask[r] \in 1..WorkerLimit /\ row[t] # 0
             /\ StatementFails(r, Ask[r], 404)
    BY <1>2, <2>2, Answered DEF StatementFails, Responses
  <2>3. CASE Respond(r, 404) /\ UNCHANGED <<row, disturbed>>
    BY <1>2, <2>3, Answered DEF Responses
  <2> QED
    BY <1>1, <2>1, <2>2, <2>3 DEF SetConcurrency
<1>4. /\ row' \in [Tenants -> 0..WorkerLimit]
      /\ \A s \in Tenants \ {t} : row'[s] = row[s]
      /\ \A s \in Tenants : row'[s] = 0 <=> row[s] = 0
  BY <1>2, <1>3 DEF TypeOK
<1>5. TypeOK'
  BY <1>1, <1>2, <1>3, <1>4 DEF TypeOK
<1>6. RequestInv'
  BY <1>1, <1>3 DEF RequestInv
<1>7. RowInv'
  <2>1. \A s \in Tenants : Begun(s) => Begun(s)'
    BY <1>1, <1>3, BegunKept
  <2> QED
    BY <1>3, <1>4, <2>1 DEF RowInv
<1>8. SpawnInv' /\ HolderInv' /\ ServerInv'
  BY <1>1, <1>3, ManagerUntouched
<1>9. ServedInv' /\ DeletedStaysDown'
  BY <1>1, <1>3, <1>4 DEF ServedInv, DeletedStaysDown
<1>10. ValueInv'
  <2>1. ASSUME NEW s \in Tenants \ disturbed', s # t \/ pc'[r] = "done"
        PROVE  /\ \A q, u \in Requests :
                    Writing(q)' /\ Writing(u)' /\ Target[q] = s /\ Target[u] = s => q = u
               /\ \A q \in Requests : Writing(q)' /\ Target[q] = s /\ row'[s] # 0 =>
                    row'[s] = IF Kind[q] = "create" THEN CreateConcurrency(Ask[q]) ELSE Ask[q]
               /\ s \in mapped' /\ row'[s] # 0 /\ (\A q \in Requests : Target[q] = s => ~Writing(q)') => Agrees(s)'
    <3>1. row'[s] = row[s]
      BY <1>3, <1>4, <2>1
    <3> QED
      BY <1>1, <1>3, <2>1, <3>1 DEF ValueInv, Writing, Agrees
  <2>2. ASSUME t \notin disturbed', pc'[r] = "lookup"
        PROVE  /\ \A q, u \in Requests :
                    Writing(q)' /\ Writing(u)' /\ Target[q] = t /\ Target[u] = t => q = u
               /\ \A q \in Requests : Writing(q)' /\ Target[q] = t /\ row'[t] # 0 =>
                    row'[t] = IF Kind[q] = "create" THEN CreateConcurrency(Ask[q]) ELSE Ask[q]
               /\ t \in mapped' /\ row'[t] # 0 /\ (\A q \in Requests : Target[q] = t => ~Writing(q)') => Agrees(t)'
    <3>1. row'[t] = Ask[r] /\ \A q \in Requests : Writing(q)' /\ Target[q] = t => q = r
      BY <1>2, <1>3, <2>2 DEF Writing, TypeOK, Overlaps
    <3>2. Writing(r)'
      BY <2>2 DEF Writing
    <3> QED
      BY <1>1, <3>1, <3>2
  <2>3. pc'[r] \in {"lookup", "done"}
    BY <1>3
  <2> QED
    BY <2>1, <2>2, <2>3 DEF ValueInv
<1> QED
  BY <1>5, <1>6, <1>7, <1>8, <1>9, <1>10

(* An update that finds no consumer leaves a tenant that is not served.       *)
LEMMA LookupStep ==
  ASSUME LifeInv, NEW r \in Requests, Lookup(r)
  PROVE  LifeInv'
<1> USE LifecycleAssumption DEF LifeInv
<1>1. /\ pc[r] = "lookup"
      /\ row' = row /\ mapped' = mapped /\ consumer' = consumer /\ pool' = pool
      /\ closes' = closes /\ server' = server /\ batch' = batch
      /\ restarts' = restarts /\ disturbed' = disturbed
      /\ IF Target[r] \in mapped THEN GoTo(r, "resize") ELSE Respond(r, 500)
  BY DEF Lookup, mgrVars, srvVars
<1>2. resp[r] = 0 /\ Kind[r] = "update" /\ server # "exited"
  BY <1>1 DEF RequestInv, ServerInv, Active
<1>3. /\ pc' \in [Requests -> ReqPC] /\ resp' \in [Requests -> Responses]
      /\ pc'[r] \in {"resize", "done"} /\ resp'[r] \in {0, 500}
      /\ resp'[r] # 0 => pc'[r] = "done"
      /\ pc'[r] = "done" => Target[r] \notin mapped
      /\ \A q \in Requests \ {r} : pc'[q] = pc[q] /\ resp'[q] = resp[q]
  <2>1. CASE Target[r] \in mapped /\ GoTo(r, "resize")
    BY <1>2, <2>1, Moved DEF ReqPC, TypeOK
  <2>2. CASE Target[r] \notin mapped /\ Respond(r, 500)
    BY <2>2, Answered DEF Responses
  <2> QED
    BY <1>1, <2>1, <2>2
<1>4. TypeOK'
  BY <1>1, <1>3 DEF TypeOK
<1>5. RequestInv'
  BY <1>1, <1>2, <1>3 DEF RequestInv
<1>6. RowInv'
  BY <1>1, <1>3, BegunKept DEF RowInv
<1>7. SpawnInv' /\ HolderInv' /\ ServerInv'
  BY <1>1, <1>2, <1>3, ManagerUntouched
<1>8. ServedInv' /\ DeletedStaysDown'
  BY <1>1, <1>3 DEF ServedInv, DeletedStaysDown
<1>9. ValueInv'
  BY <1>1, <1>3 DEF ValueInv, Writing, Agrees
<1> QED
  BY <1>4, <1>5, <1>6, <1>7, <1>8, <1>9

(* A resize gives the pool the value of the row, unless writes overlapped.    *)
LEMMA ResizePoolStep ==
  ASSUME LifeInv, NEW r \in Requests, ResizePool(r)
  PROVE  LifeInv'
<1> USE LifecycleAssumption DEF LifeInv
<1> DEFINE t == Target[r]
           w == UpdateWorkers(Ask[r])
<1> HIDE DEF w
<1>1. /\ pc[r] = "resize"
      /\ pool' = [pool EXCEPT ![t] = w]
      /\ consumer' = IF consumer[t] = "signalled" /\ w > pool[t]
                       THEN [consumer EXCEPT ![t] = "racing"] ELSE consumer
      /\ Respond(r, 200)
      /\ row' = row /\ mapped' = mapped /\ closes' = closes /\ server' = server
      /\ batch' = batch /\ restarts' = restarts /\ disturbed' = disturbed
  BY DEF ResizePool, srvVars, w
<1>2. /\ t \in Tenants /\ w \in 0..MaxWorkers
      /\ resp[r] = 0 /\ Kind[r] = "update" /\ Ask[r] \in 1..WorkerLimit
      /\ server # "exited"
  <2>1. t \in Tenants /\ w \in 0..MaxWorkers
    BY WorkerCounts DEF w
  <2> QED
    BY <1>1, <2>1 DEF RequestInv, ServerInv, Active
<1>3. /\ pc' \in [Requests -> ReqPC] /\ resp' \in [Requests -> Responses]
      /\ pc'[r] = "done" /\ resp'[r] = 200
      /\ \A q \in Requests \ {r} : pc'[q] = pc[q] /\ resp'[q] = resp[q]
  BY <1>1, Answered DEF Responses
<1>4. /\ consumer' \in [Tenants -> Consumers] /\ pool' \in [Tenants -> 0..MaxWorkers]
      /\ pool'[t] = w
      /\ \A s \in Tenants \ {t} : pool'[s] = pool[s]
      /\ \A s \in Tenants : \/ consumer'[s] = consumer[s]
                            \/ consumer[s] = "signalled" /\ consumer'[s] = "racing"
  BY <1>1, <1>2 DEF TypeOK, Consumers
<1>5. TypeOK'
  BY <1>1, <1>3, <1>4 DEF TypeOK
<1>6. RequestInv'
  BY <1>3 DEF RequestInv
<1>7. RowInv'
  BY <1>1, <1>3, BegunKept DEF RowInv
<1>8. SpawnInv'
  BY <1>2, <1>3, <1>4, CreatedKept DEF SpawnInv
<1>9. HolderInv'
  <2>1. \A q \in Requests : Deleting(q)' <=> Deleting(q)
    BY <1>1, <1>3 DEF Deleting
  <2>2. \A s \in mapped' : consumer'[s] = "running"
    BY <1>1, <1>4 DEF HolderInv, TypeOK
  <2>3. \A s \in batch' : s \notin mapped' /\ consumer'[s] \in {"running", "signalled", "racing", "stopped"}
    BY <1>1, <1>4 DEF HolderInv, TypeOK
  <2>4. \A q \in Requests :
          /\ pc'[q] = "close" => consumer'[Target[q]] = "running"
          /\ pc'[q] = "stop" => consumer'[Target[q]] \in {"signalled", "racing"}
          /\ Deleting(q)' => Target[q] \notin mapped' \cup batch'
    BY <1>1, <1>3, <1>4, <2>1 DEF HolderInv
  <2>5. \A q, u \in Requests : Deleting(q)' /\ Deleting(u)' /\ Target[q] = Target[u] => q = u
    BY <2>1 DEF HolderInv
  <2>6. \A s \in Tenants : consumer'[s] \in {"running", "signalled", "racing"} =>
          s \in mapped' \cup batch' \/ \E q \in Requests : Target[q] = s /\ Deleting(q)'
    BY <1>1, <1>4, <2>1 DEF HolderInv
  <2>7. \A s \in Tenants : closes'[s] <= 1 /\ (consumer'[s] \in {"none", "running"} => closes'[s] = 0)
    BY <1>1, <1>4 DEF HolderInv
  <2> QED
    BY <2>2, <2>3, <2>4, <2>5, <2>6, <2>7 DEF HolderInv
<1>10. ServerInv'
  BY <1>1, <1>2, <1>4 DEF ServerInv, TypeOK
<1>11. ServedInv'
  BY <1>1, <1>4 DEF ServedInv
<1>12. DeletedStaysDown'
  BY <1>1, <1>3, <1>4 DEF DeletedStaysDown
<1>13. ValueInv'
  <2>1. \A q \in Requests : Writing(q)' <=> Writing(q) /\ q # r
    BY <1>1, <1>3 DEF Writing
  <2>2. t \notin disturbed /\ row[t] # 0 => row[t] = Ask[r]
    BY <1>1, <1>2 DEF ValueInv, Writing
  <2>3. t \notin disturbed /\ row[t] # 0 => Agrees(t)'
    BY <1>1, <1>2, <1>4, <2>2, WorkerCounts DEF Agrees, w
  <2>4. \A s \in Tenants \ {t} : Agrees(s) => Agrees(s)'
    BY <1>1, <1>4 DEF Agrees
  <2>5. \A s \in Tenants \ {t} :
          (\A q \in Requests : Target[q] = s => ~Writing(q)') => \A q \in Requests : Target[q] = s => ~Writing(q)
    BY <2>1
  <2> QED
    BY <1>1, <2>1, <2>3, <2>4, <2>5 DEF ValueInv
<1> QED
  BY <1>5, <1>6, <1>7, <1>8, <1>9, <1>10, <1>11, <1>12, <1>13

-----------------------------------------------------------------------------
(* A delete takes the row before it looks for the consumer.                   *)
LEMMA DeleteRowStep ==
  ASSUME LifeInv, NEW r \in Requests, DeleteRow(r)
  PROVE  LifeInv'
<1> USE LifecycleAssumption DEF LifeInv
<1> DEFINE t == Target[r]
<1>1. /\ pc[r] = "idle" /\ Kind[r] = "delete" /\ server # "exited"
      /\ RemoveTenant(r)
      /\ mapped' = mapped /\ consumer' = consumer /\ pool' = pool
      /\ closes' = closes /\ server' = server /\ batch' = batch
      /\ restarts' = restarts
  BY DEF DeleteRow, Arrives, mgrVars, srvVars
<1>2. t \in Tenants /\ resp[r] = 0
  BY <1>1 DEF RequestInv
<1>3. /\ pc' \in [Requests -> ReqPC] /\ resp' \in [Requests -> Responses]
      /\ pc'[r] \in {"find", "done"} /\ resp'[r] \in {0, 404}
      /\ resp'[r] # 0 => pc'[r] = "done"
      /\ \A q \in Requests \ {r} : pc'[q] = pc[q] /\ resp'[q] = resp[q]
      /\ row' \in {row, [row EXCEPT ![t] = 0]}
      /\ pc'[r] = "find" => row[t] # 0 /\ row' = [row EXCEPT ![t] = 0]
      /\ disturbed' \in {disturbed, disturbed \cup {t}}
  <2>1. CASE row[t] # 0 /\ row' = [row EXCEPT ![t] = 0] /\ GoTo(r, "find") /\ UNCHANGED disturbed
    BY <1>2, <2>1, Moved DEF ReqPC, TypeOK
  <2>2. CASE row[t] # 0 /\ StatementFails(r, 0, 404)
    BY <1>2, <2>2, Answered DEF StatementFails, Responses
  <2>3. CASE Respond(r, 404) /\ UNCHANGED <<row, disturbed>>
    BY <1>2, <2>3, Answered DEF Responses
  <2> QED
    BY <1>1, <2>1, <2>2, <2>3 DEF RemoveTenant
<1>4. /\ row' \in [Tenants -> 0..WorkerLimit]
      /\ \A s \in Tenants : row'[s] = row[s] \/ row'[s] = 0
      /\ pc'[r] = "find" => row'[t] = 0
  BY <1>2, <1>3 DEF TypeOK
<1>5. TypeOK'
  BY <1>1, <1>2, <1>3, <1>4 DEF TypeOK
<1>6. RequestInv'
  BY <1>1, <1>3 DEF RequestInv
<1>7. RowInv'
  <2>1. \A s \in Tenants : Begun(s) => Begun(s)'
    BY <1>1, <1>3, BegunKept
  <2>2. pc'[r] = "find" => Begun(t)'
    BY <1>2, <1>3, <2>1 DEF RowInv
  <2> QED
    BY <1>2, <1>3, <1>4, <2>1, <2>2 DEF RowInv
<1>8. SpawnInv' /\ HolderInv' /\ ServerInv'
  BY <1>1, <1>3, ManagerUntouched
<1>9. ServedInv' /\ DeletedStaysDown'
  BY <1>1, <1>3, <1>4 DEF ServedInv, DeletedStaysDown
<1>10. ValueInv'
  BY <1>1, <1>3, <1>4 DEF ValueInv, Writing, Agrees
<1> QED
  BY <1>5, <1>6, <1>7, <1>8, <1>9, <1>10

(* The consumer a delete finds leaves the map for the hands of that delete.   *)
LEMMA FindConsumerStep ==
  ASSUME LifeInv, NEW r \in Requests, FindConsumer(r)
  PROVE  LifeInv'
<1> USE LifecycleAssumption DEF LifeInv
<1> DEFINE t == Target[r]
<1>1. /\ pc[r] = "find"
      /\ mapped' = mapped \ {t}
      /\ row' = row /\ consumer' = consumer /\ pool' = pool
      /\ closes' = closes /\ server' = server /\ batch' = batch
      /\ restarts' = restarts /\ disturbed' = disturbed
      /\ IF t \in mapped THEN GoTo(r, "close") ELSE Respond(r, 500)
  BY DEF FindConsumer, srvVars
<1>2. /\ t \in Tenants /\ resp[r] = 0 /\ Kind[r] = "delete" /\ server # "exited"
      /\ row[t] = 0 /\ Begun(t)
  BY <1>1 DEF RequestInv, ServerInv, Active, RowInv
<1>3. /\ pc' \in [Requests -> ReqPC] /\ resp' \in [Requests -> Responses]
      /\ pc'[r] \in {"close", "done"} /\ resp'[r] \in {0, 500}
      /\ resp'[r] # 0 => pc'[r] = "done"
      /\ pc'[r] = "close" <=> t \in mapped
      /\ \A q \in Requests \ {r} : pc'[q] = pc[q] /\ resp'[q] = resp[q]
  <2>1. CASE t \in mapped /\ GoTo(r, "close")
    BY <1>2, <2>1, Moved DEF ReqPC, TypeOK
  <2>2. CASE t \notin mapped /\ Respond(r, 500)
    BY <2>2, Answered DEF Responses
  <2> QED
    BY <1>1, <2>1, <2>2
<1>4. TypeOK'
  BY <1>1, <1>3 DEF TypeOK
<1>5. RequestInv'
  BY <1>2, <1>3 DEF RequestInv
<1>6. RowInv'
  <2>1. \A s \in Tenants : Begun(s) => Begun(s)'
    BY <1>1, <1>3, BegunKept
  <2> QED
    BY <1>1, <1>2, <1>3, <2>1 DEF RowInv
<1>7. SpawnInv'
  BY <1>1, <1>2, <1>3, CreatedKept DEF SpawnInv
<1>8. HolderInv'
  <2>1. \A q \in Requests : Deleting(q)' <=> Deleting(q) \/ (q = r /\ t \in mapped)
    BY <1>1, <1>3 DEF Deleting
  <2>2. \A s \in mapped' : consumer'[s] = "running"
    BY <1>1 DEF HolderInv
  <2>3. \A s \in batch' : s \notin mapped' /\ consumer'[s] \in {"running", "signalled", "racing", "stopped"}
    BY <1>1 DEF HolderInv
  <2>4. \A q \in Requests :
          /\ pc'[q] = "close" => consumer'[Target[q]] = "running"
          /\ pc'[q] = "stop" => consumer'[Target[q]] \in {"signalled", "racing"}
          /\ Deleting(q)' => Target[q] \notin mapped' \cup batch'
    BY <1>1, <1>3, <2>1 DEF HolderInv
  <2>5. \A q, u \in Requests : Deleting(q)' /\ Deleting(u)' /\ Target[q] = Target[u] => q = u
    BY <2>1 DEF HolderInv
  <2>6. \A s \in Tenants : consumer'[s] \in {"running", "signalled", "racing"} =>
          s \in mapped' \cup batch' \/ \E q \in Requests : Target[q] = s /\ Deleting(q)'
    BY <1>1, <2>1 DEF HolderInv
  <2>7. \A s \in Tenants : closes'[s] <= 1 /\ (consumer'[s] \in {"none", "running"} => closes'[s] = 0)
    BY <1>1 DEF HolderInv
  <2> QED
    BY <2>2, <2>3, <2>4, <2>5, <2>6, <2>7 DEF HolderInv
<1>9. ServerInv'
  BY <1>1, <1>2 DEF ServerInv
<1>10. ServedInv'
  BY <1>1, <1>2 DEF ServedInv
<1>11. DeletedStaysDown'
  BY <1>1, <1>3 DEF DeletedStaysDown
<1>12. ValueInv'
  BY <1>1, <1>3 DEF ValueInv, Writing, Agrees
<1> QED
  BY <1>4, <1>5, <1>6, <1>7, <1>8, <1>9, <1>10, <1>11, <1>12

(* Only the delete that holds a consumer closes its Done.                     *)
LEMMA CloseDoneStep ==
  ASSUME LifeInv, NEW r \in Requests, CloseDone(r)
  PROVE  LifeInv'
<1> USE LifecycleAssumption DEF LifeInv
<1> DEFINE t == Target[r]
<1>1. /\ pc[r] = "close"
      /\ closes' = [closes EXCEPT ![t] = @ + 1]
      /\ consumer' = [consumer EXCEPT ![t] = "signalled"]
      /\ GoTo(r, "stop")
      /\ row' = row /\ mapped' = mapped /\ pool' = pool /\ server' = server
      /\ batch' = batch /\ restarts' = restarts /\ disturbed' = disturbed
  BY DEF CloseDone, Signal, srvVars
<1>2. /\ t \in Tenants /\ resp[r] = 0 /\ Kind[r] = "delete" /\ server # "exited"
      /\ row[t] = 0 /\ Begun(t)
  BY <1>1 DEF RequestInv, ServerInv, Active, RowInv
<1>3. consumer[t] = "running" /\ closes[t] = 0 /\ t \notin mapped /\ t \notin batch
  BY <1>1, <1>2 DEF HolderInv, Deleting
<1>4. /\ pc' \in [Requests -> ReqPC] /\ resp' = resp
      /\ pc'[r] = "stop"
      /\ \A q \in Requests \ {r} : pc'[q] = pc[q]
  BY <1>1, Moved DEF ReqPC
<1>5. /\ closes' \in [Tenants -> Nat] /\ consumer' \in [Tenants -> Consumers]
      /\ closes'[t] = 1 /\ consumer'[t] = "signalled"
      /\ \A s \in Tenants \ {t} : closes'[s] = closes[s] /\ consumer'[s] = consumer[s]
  BY <1>1, <1>2, <1>3 DEF TypeOK, Consumers
<1>6. TypeOK'
  BY <1>1, <1>4, <1>5 DEF TypeOK
<1>7. RequestInv'
  BY <1>2, <1>4 DEF RequestInv
<1>8. RowInv'
  BY <1>1, <1>4, BegunKept DEF RowInv
<1>9. SpawnInv'
  BY <1>3, <1>4, <1>5, CreatedKept DEF SpawnInv
<1>10. HolderInv'
  <2>1. \A q \in Requests : (Deleting(q)' <=> Deleting(q)) /\ (Deleting(q) /\ q # r => Target[q] # t)
    BY <1>1, <1>4 DEF Deleting, HolderInv
  <2>2. \A s \in mapped' : consumer'[s] = "running"
    BY <1>1, <1>3, <1>5 DEF HolderInv, TypeOK
  <2>3. \A s \in batch' : s \notin mapped' /\ consumer'[s] \in {"running", "signalled", "racing", "stopped"}
    BY <1>1, <1>3, <1>5 DEF HolderInv, TypeOK
  <2>4. \A q \in Requests :
          /\ pc'[q] = "close" => consumer'[Target[q]] = "running"
          /\ pc'[q] = "stop" => consumer'[Target[q]] \in {"signalled", "racing"}
          /\ Deleting(q)' => Target[q] \notin mapped' \cup batch'
    BY <1>1, <1>4, <1>5, <2>1 DEF HolderInv, Deleting
  <2>5. \A q, u \in Requests : Deleting(q)' /\ Deleting(u)' /\ Target[q] = Target[u] => q = u
    BY <2>1 DEF HolderInv
  <2>6. \A s \in Tenants : consumer'[s] \in {"running", "signalled", "racing"} =>
          s \in mapped' \cup batch' \/ \E q \in Requests : Target[q] = s /\ Deleting(q)'
    BY <1>1, <1>3, <1>5, <2>1 DEF HolderInv
  <2>7. \A s \in Tenants : closes'[s] <= 1 /\ (consumer'[s] \in {"none", "running"} => closes'[s] = 0)
    BY <1>1, <1>5 DEF HolderInv
  <2> QED
    BY <2>2, <2>3, <2>4, <2>5, <2>6, <2>7 DEF HolderInv
<1>11. ServerInv'
  BY <1>1, <1>2, <1>3, <1>5 DEF ServerInv, TypeOK
<1>12. ServedInv'
  BY <1>1, <1>2, <1>5 DEF ServedInv
<1>13. DeletedStaysDown'
  BY <1>1, <1>3, <1>4, <1>5 DEF DeletedStaysDown
<1>14. ValueInv'
  BY <1>1, <1>4 DEF ValueInv, Writing, Agrees
<1> QED
  BY <1>6, <1>7, <1>8, <1>9, <1>10, <1>11, <1>12, <1>13, <1>14

(* The end of a delete: a 204 is given with the consumer stopped.             *)
LEMMA StopPoolStep ==
  ASSUME LifeInv, NEW r \in Requests, StopPool(r)
  PROVE  LifeInv'
<1> USE LifecycleAssumption DEF LifeInv
<1> DEFINE t == Target[r]
<1>1. /\ pc[r] = "stop"
      /\ row' = row /\ mapped' = mapped /\ pool' = pool /\ closes' = closes
      /\ server' = server /\ batch' = batch /\ restarts' = restarts
      /\ disturbed' = disturbed
      /\ \/ consumer' = [consumer EXCEPT ![t] = "stopped"] /\ Respond(r, 204)
         \/ consumer' = [consumer EXCEPT ![t] = "leaked"] /\ Respond(r, 500)
  BY DEF StopPool, srvVars
<1>2. /\ t \in Tenants /\ resp[r] = 0 /\ Kind[r] = "delete" /\ server # "exited"
      /\ row[t] = 0 /\ Begun(t)
  BY <1>1 DEF RequestInv, ServerInv, Active, RowInv
<1>3. consumer[t] \in {"signalled", "racing"} /\ t \notin mapped /\ t \notin batch
  BY <1>1, <1>2 DEF HolderInv, Deleting
<1>4. /\ pc' \in [Requests -> ReqPC] /\ resp' \in [Requests -> Responses]
      /\ pc'[r] = "done" /\ resp'[r] \in {204, 500}
      /\ \A q \in Requests \ {r} : pc'[q] = pc[q] /\ resp'[q] = resp[q]
      /\ consumer' \in [Tenants -> Consumers]
      /\ consumer'[t] \in {"stopped", "leaked"}
      /\ resp'[r] = 204 => consumer'[t] = "stopped"
      /\ \A s \in Tenants \ {t} : consumer'[s] = consumer[s]
  <2>1. CASE consumer' = [consumer EXCEPT ![t] = "stopped"] /\ Respond(r, 204)
    BY <1>2, <2>1, Answered DEF Responses, TypeOK, Consumers
  <2>2. CASE consumer' = [consumer EXCEPT ![t] = "leaked"] /\ Respond(r, 500)
    BY <1>2, <2>2, Answered DEF Responses, TypeOK, Consumers
  <2> QED
    BY <1>1, <2>1, <2>2
<1>5. TypeOK'
  BY <1>1, <1>4 DEF TypeOK
<1>6. RequestInv'
  BY <1>2, <1>4 DEF RequestInv
<1>7. RowInv'
  <2>1. \A s \in Tenants : Begun(s) => Begun(s)'
    BY <1>1, <1>4, BegunKept
  <2> QED
    BY <1>1, <1>2, <1>4, <2>1 DEF RowInv
<1>8. SpawnInv'
  BY <1>2, <1>3, <1>4, CreatedKept DEF SpawnInv
<1>9. HolderInv'
  <2>1. \A q \in Requests : (Deleting(q)' <=> Deleting(q) /\ q # r) /\ (Deleting(q) /\ q # r => Target[q] # t)
    BY <1>1, <1>4 DEF Deleting, HolderInv
  <2>2. \A s \in mapped' : consumer'[s] = "running"
    BY <1>1, <1>3, <1>4 DEF HolderInv, TypeOK
  <2>3. \A s \in batch' : s \notin mapped' /\ consumer'[s] \in {"running", "signalled", "racing", "stopped"}
    BY <1>1, <1>3, <1>4 DEF HolderInv, TypeOK
  <2>4. \A q \in Requests :
          /\ pc'[q] = "close" => consumer'[Target[q]] = "running"
          /\ pc'[q] = "stop" => consumer'[Target[q]] \in {"signalled", "racing"}
          /\ Deleting(q)' => Target[q] \notin mapped' \cup batch'
    BY <1>1, <1>4, <2>1 DEF HolderInv, Deleting
  <2>5. \A q, u \in Requests : Deleting(q)' /\ Deleting(u)' /\ Target[q] = Target[u] => q = u
    BY <2>1 DEF HolderInv
  <2>6. \A s \in Tenants : consumer'[s] \in {"running", "signalled", "racing"} =>
          s \in mapped' \cup batch' \/ \E q \in Requests : Target[q] = s /\ Deleting(q)'
    BY <1>1, <1>4, <2>1 DEF HolderInv
  <2>7. \A s \in Tenants : closes'[s] <= 1 /\ (consumer'[s] \in {"none", "running"} => closes'[s] = 0)
    BY <1>1, <1>4 DEF HolderInv
  <2> QED
    BY <2>2, <2>3, <2>4, <2>5, <2>6, <2>7 DEF HolderInv
<1>10. ServerInv'
  BY <1>1, <1>2, <1>3, <1>4 DEF ServerInv, TypeOK
<1>11. ServedInv'
  BY <1>1, <1>2, <1>4 DEF ServedInv
<1>12. DeletedStaysDown'
  BY <1>1, <1>2, <1>3, <1>4 DEF DeletedStaysDown
<1>13. ValueInv'
  BY <1>1, <1>4 DEF ValueInv, Writing, Agrees
<1> QED
  BY <1>5, <1>6, <1>7, <1>8, <1>9, <1>10, <1>11, <1>12, <1>13

-----------------------------------------------------------------------------
(* ShutdownAll takes the map as it is, and there was no batch before.         *)
LEMMA ShutdownAllStep ==
  ASSUME LifeInv, ShutdownAll
  PROVE  LifeInv'
<1> USE LifecycleAssumption DEF LifeInv
<1>1. /\ server = "up" /\ server' = "stopping" /\ batch' = mapped /\ mapped' = {}
      /\ row' = row /\ consumer' = consumer /\ pool' = pool /\ closes' = closes
      /\ pc' = pc /\ resp' = resp /\ restarts' = restarts /\ disturbed' = disturbed
  BY DEF ShutdownAll, reqVars
<1>2. TypeOK'
  BY <1>1 DEF TypeOK, ServerPC
<1>3. RequestInv' /\ RowInv' /\ SpawnInv'
  BY <1>1 DEF RequestInv, RowInv, SpawnInv, Begun, Created
<1>4. HolderInv' /\ ServerInv' /\ ServedInv'
  BY <1>1 DEF HolderInv, Deleting, ServerInv, ServedInv, TypeOK
<1>5. ValueInv' /\ DeletedStaysDown'
  BY <1>1 DEF ValueInv, Writing, DeletedStaysDown
<1> QED
  BY <1>2, <1>3, <1>4, <1>5

(* A goroutine of ShutdownAll closes the Done of the consumer it was given.   *)
LEMMA BatchCloseStep ==
  ASSUME LifeInv, NEW t \in Tenants, BatchClose(t)
  PROVE  LifeInv'
<1> USE LifecycleAssumption DEF LifeInv
<1>1. /\ t \in batch /\ consumer[t] = "running"
      /\ closes' = [closes EXCEPT ![t] = @ + 1]
      /\ consumer' = [consumer EXCEPT ![t] = "signalled"]
      /\ row' = row /\ mapped' = mapped /\ pool' = pool
      /\ pc' = pc /\ resp' = resp /\ server' = server /\ batch' = batch
      /\ restarts' = restarts /\ disturbed' = disturbed
  BY DEF BatchClose, Signal, reqVars, srvVars
<1>2. closes[t] = 0 /\ t \notin mapped /\ \A q \in Requests : Deleting(q) => Target[q] # t
  BY <1>1 DEF HolderInv
<1>3. /\ closes' \in [Tenants -> Nat] /\ consumer' \in [Tenants -> Consumers]
      /\ closes'[t] = 1 /\ consumer'[t] = "signalled"
      /\ \A s \in Tenants \ {t} : closes'[s] = closes[s] /\ consumer'[s] = consumer[s]
  BY <1>1, <1>2 DEF TypeOK, Consumers
<1>4. TypeOK'
  BY <1>1, <1>3 DEF TypeOK
<1>5. RequestInv' /\ RowInv'
  BY <1>1 DEF RequestInv, RowInv, Begun
<1>6. SpawnInv'
  BY <1>1, <1>3, CreatedKept DEF SpawnInv
<1>7. HolderInv'
  <2>1. \A q \in Requests : Deleting(q)' <=> Deleting(q)
    BY <1>1 DEF Deleting
  <2>2. \A s \in mapped' \cup batch' : s \in Tenants
    BY <1>1 DEF TypeOK
  <2>3. \A s \in mapped' : consumer'[s] = "running"
    BY <1>1, <1>2, <1>3, <2>2 DEF HolderInv
  <2>4. \A s \in batch' : s \notin mapped' /\ consumer'[s] \in {"running", "signalled", "racing", "stopped"}
    BY <1>1, <1>2, <1>3, <2>2 DEF HolderInv
  <2>5. \A q \in Requests :
          /\ pc'[q] = "close" => consumer'[Target[q]] = "running"
          /\ pc'[q] = "stop" => consumer'[Target[q]] \in {"signalled", "racing"}
          /\ Deleting(q)' => Target[q] \notin mapped' \cup batch'
    BY <1>1, <1>2, <1>3, <2>1 DEF HolderInv, Deleting
  <2>6. \A s \in Tenants : consumer'[s] \in {"running", "signalled", "racing"} =>
          s \in mapped' \cup batch' \/ \E q \in Requests : Target[q] = s /\ Deleting(q)'
    BY <1>1, <1>3, <2>1 DEF HolderInv
  <2>7. \A s \in Tenants : closes'[s] <= 1 /\ (consumer'[s] \in {"none", "running"} => closes'[s] = 0)
    BY <1>3 DEF HolderInv
  <2> QED
    BY <2>1, <2>3, <2>4, <2>5, <2>6, <2>7 DEF HolderInv
<1>8. ServerInv' /\ ServedInv'
  BY <1>1, <1>3 DEF ServerInv, ServedInv, Active
<1>9. DeletedStaysDown'
  BY <1>1, <1>3 DEF DeletedStaysDown
<1>10. ValueInv'
  BY <1>1 DEF ValueInv, Writing, Agrees
<1> QED
  BY <1>4, <1>5, <1>6, <1>7, <1>8, <1>9, <1>10

(* The end of the process: nothing is held and nothing is under way.          *)
LEMMA ProcessDiesStep ==
  ASSUME LifeInv, NEW next \in ServerPC, ProcessDies(next), restarts' \in 0..MaxRestarts
  PROVE  LifeInv'
<1> USE LifecycleAssumption DEF LifeInv
<1>1. /\ server' = next /\ batch' = {} /\ mapped' = {}
      /\ row' = row /\ pool' = pool /\ closes' = closes /\ resp' = resp /\ disturbed' = disturbed
      /\ pc' = [r \in Requests |-> IF Active(r) THEN "lost" ELSE pc[r]]
      /\ consumer' = [t \in Tenants |-> IF consumer[t] = "none" THEN "none" ELSE "dead"]
  BY DEF ProcessDies
<1>2. /\ pc' \in [Requests -> ReqPC]
      /\ \A r \in Requests : ~Active(r)' /\ (Active(r) => pc'[r] = "lost") /\ (~Active(r) => pc'[r] = pc[r])
  BY <1>1 DEF TypeOK, ReqPC, Active
<1>3. /\ consumer' \in [Tenants -> Consumers]
      /\ \A t \in Tenants : /\ consumer'[t] \in {"none", "dead"}
                            /\ consumer'[t] = "none" <=> consumer[t] = "none"
  BY <1>1 DEF TypeOK, Consumers
<1>4. TypeOK'
  BY <1>1, <1>2, <1>3 DEF TypeOK
<1>5. \A r \in Requests : pc'[r] \in {"idle", "done", "lost"} /\ (resp[r] # 0 => pc'[r] = pc[r])
  BY <1>2 DEF Active, RequestInv
<1>6. RequestInv'
  BY <1>1, <1>5 DEF RequestInv
<1>7. RowInv'
  <2>1. \A r \in Requests : pc[r] # "idle" => pc'[r] # "idle"
    BY <1>2 DEF Active
  <2> QED
    BY <1>1, <1>5, <2>1, BegunKept DEF RowInv
<1>8. SpawnInv'
  BY <1>1, <1>3, CreatedKept DEF SpawnInv
<1>9. HolderInv'
  <2>1. \A s \in Tenants : closes'[s] <= 1 /\ (consumer'[s] \in {"none", "running"} => closes'[s] = 0)
    BY <1>1, <1>3 DEF HolderInv
  <2> QED
    BY <1>1, <1>3, <1>5, <2>1 DEF HolderInv, Deleting
<1>10. ServerInv' /\ ServedInv'
  BY <1>1, <1>2, <1>3 DEF ServerInv, ServedInv
<1>11. DeletedStaysDown'
  BY <1>1, <1>3 DEF DeletedStaysDown
<1>12. ValueInv'
  BY <1>1, <1>5 DEF ValueInv, Writing
<1> QED
  BY <1>4, <1>6, <1>7, <1>8, <1>9, <1>10, <1>11, <1>12

(* A goroutine of ShutdownAll stops its pool, or panics with the process.     *)
LEMMA BatchStopStep ==
  ASSUME LifeInv, NEW t \in Tenants, BatchStop(t)
  PROVE  LifeInv'
<1> USE LifecycleAssumption DEF LifeInv
<1>1. CASE ProcessDies("exited") /\ UNCHANGED restarts
  BY <1>1, ProcessDiesStep DEF TypeOK, ServerPC
<1>2. CASE /\ t \in batch /\ consumer[t] \in {"signalled", "racing"}
           /\ consumer' = [consumer EXCEPT ![t] = "stopped"]
           /\ UNCHANGED <<row, mapped, pool, closes, reqVars, srvVars, disturbed>>
  <2>1. /\ t \in batch /\ consumer[t] \in {"signalled", "racing"}
        /\ consumer' = [consumer EXCEPT ![t] = "stopped"]
        /\ row' = row /\ mapped' = mapped /\ pool' = pool /\ closes' = closes
        /\ pc' = pc /\ resp' = resp /\ server' = server /\ batch' = batch
        /\ restarts' = restarts /\ disturbed' = disturbed
    BY <1>2 DEF reqVars, srvVars
  <2>2. t \notin mapped /\ \A q \in Requests : Deleting(q) => Target[q] # t
    BY <2>1 DEF HolderInv
  <2>3. /\ consumer' \in [Tenants -> Consumers] /\ consumer'[t] = "stopped"
        /\ \A s \in Tenants \ {t} : consumer'[s] = consumer[s]
    BY <2>1 DEF TypeOK, Consumers
  <2>4. TypeOK'
    BY <2>1, <2>3 DEF TypeOK
  <2>5. RequestInv' /\ RowInv'
    BY <2>1 DEF RequestInv, RowInv, Begun
  <2>6. SpawnInv'
    BY <2>1, <2>3, CreatedKept DEF SpawnInv
  <2>7. HolderInv'
    <3>1. \A q \in Requests : Deleting(q)' <=> Deleting(q)
      BY <2>1 DEF Deleting
    <3>2. \A s \in mapped' \cup batch' : s \in Tenants
      BY <2>1 DEF TypeOK
    <3>3. \A s \in mapped' : consumer'[s] = "running"
      BY <2>1, <2>2, <2>3, <3>2 DEF HolderInv
    <3>4. \A s \in batch' : s \notin mapped' /\ consumer'[s] \in {"running", "signalled", "racing", "stopped"}
      BY <2>1, <2>2, <2>3, <3>2 DEF HolderInv
    <3>5. \A q \in Requests :
            /\ pc'[q] = "close" => consumer'[Target[q]] = "running"
            /\ pc'[q] = "stop" => consumer'[Target[q]] \in {"signalled", "racing"}
            /\ Deleting(q)' => Target[q] \notin mapped' \cup batch'
      BY <2>1, <2>2, <2>3, <3>1 DEF HolderInv, Deleting
    <3>6. \A s \in Tenants : consumer'[s] \in {"running", "signalled", "racing"} =>
            s \in mapped' \cup batch' \/ \E q \in Requests : Target[q] = s /\ Deleting(q)'
      BY <2>1, <2>3, <3>1 DEF HolderInv
    <3>7. \A s \in Tenants : closes'[s] <= 1 /\ (consumer'[s] \in {"none", "running"} => closes'[s] = 0)
      BY <2>1, <2>3 DEF HolderInv
    <3> QED
      BY <3>1, <3>3, <3>4, <3>5, <3>6, <3>7 DEF HolderInv
  <2>8. ServerInv' /\ ServedInv'
    BY <2>1, <2>3 DEF ServerInv, ServedInv, Active, TypeOK
  <2>9. DeletedStaysDown'
    BY <2>1, <2>3 DEF DeletedStaysDown
  <2>10. ValueInv'
    BY <2>1 DEF ValueInv, Writing, Agrees
  <2> QED
    BY <2>4, <2>5, <2>6, <2>7, <2>8, <2>9, <2>10
<1> QED
  BY <1>1, <1>2 DEF BatchStop

(* main waits for the batch before it drains and for the requests before it   *)
(* returns.                                                                   *)
LEMMA MainStep ==
  ASSUME LifeInv, AppShutdown \/ MainReturns
  PROVE  LifeInv'
<1> USE LifecycleAssumption DEF LifeInv
<1>1. /\ row' = row /\ mapped' = mapped /\ consumer' = consumer /\ pool' = pool
      /\ closes' = closes /\ pc' = pc /\ resp' = resp /\ batch' = batch
      /\ restarts' = restarts /\ disturbed' = disturbed
      /\ \/ server' = "draining" /\ \A t \in batch : consumer[t] = "stopped"
         \/ /\ server = "draining" /\ server' = "exited"
            /\ \A r \in Requests : ~Active(r)
  BY DEF AppShutdown, MainReturns, mgrVars, reqVars
<1>2. TypeOK'
  BY <1>1 DEF TypeOK, ServerPC
<1>3. RequestInv' /\ RowInv' /\ SpawnInv'
  BY <1>1 DEF RequestInv, RowInv, SpawnInv, Begun, Created
<1>4. HolderInv'
  BY <1>1 DEF HolderInv, Deleting
<1>5. ServerInv' /\ ServedInv'
  BY <1>1 DEF ServerInv, ServedInv, Active
<1>6. ValueInv' /\ DeletedStaysDown'
  BY <1>1 DEF ValueInv, Writing, Agrees, DeletedStaysDown
<1> QED
  BY <1>2, <1>3, <1>4, <1>5, <1>6

(* A restart finds the rows and nothing else.                                 *)
LEMMA RestartStep ==
  ASSUME LifeInv, Restart
  PROVE  LifeInv'
<1>1. restarts' \in 0..MaxRestarts
  BY LifecycleAssumption DEF LifeInv, Restart, TypeOK
<1> QED
  BY <1>1, ProcessDiesStep DEF Restart, ServerPC

LEMMA StutterStep ==
  ASSUME LifeInv, UNCHANGED vars
  PROVE  LifeInv'
<1>1. /\ row' = row /\ mapped' = mapped /\ consumer' = consumer /\ pool' = pool
      /\ closes' = closes /\ pc' = pc /\ resp' = resp /\ server' = server
      /\ batch' = batch /\ restarts' = restarts /\ disturbed' = disturbed
  BY DEF vars, mgrVars, reqVars, srvVars
<1> USE DEF LifeInv
<1>2. TypeOK' /\ RequestInv' /\ RowInv' /\ SpawnInv'
  BY <1>1 DEF TypeOK, RequestInv, RowInv, SpawnInv, Begun, Created
<1>3. HolderInv' /\ ServerInv' /\ ServedInv'
  BY <1>1 DEF HolderInv, Deleting, ServerInv, ServedInv, Active
<1>4. ValueInv' /\ DeletedStaysDown'
  BY <1>1 DEF ValueInv, Writing, Agrees, DeletedStaysDown
<1> QED
  BY <1>2, <1>3, <1>4

LEMMA LifeInvariant == Spec => []LifeInv
<1>1. ASSUME LifeInv, [Next]_vars PROVE LifeInv'
  <2>1. CASE UNCHANGED vars
    BY <1>1, <2>1, StutterStep
  <2>2. ASSUME NEW r \in Requests,
               CreateTenant(r) \/ UpdateRow(r) \/ DeleteRow(r) \/ BadBody(r) \/ Serve(r)
        PROVE  LifeInv'
    BY <1>1, <2>2, CreateTenantStep, UpdateRowStep, DeleteRowStep, BadBodyStep,
       SpawnConsumerStep, LookupStep, ResizePoolStep, FindConsumerStep,
       CloseDoneStep, StopPoolStep DEF Serve
  <2>3. CASE ShutdownAll
    BY <1>1, <2>3, ShutdownAllStep
  <2>4. CASE Shutdown
    BY <1>1, <2>4, MainStep, BatchCloseStep, BatchStopStep DEF Shutdown
  <2>5. CASE Restart
    BY <1>1, <2>5, RestartStep
  <2> QED
    BY <1>1, <2>1, <2>2, <2>3, <2>4, <2>5 DEF Next
<1> QED
  BY <1>1, LifeInit, PTL DEF Spec

-----------------------------------------------------------------------------
(* The state of requests, rows, consumers and main keeps its type, for any    *)
(* tenants, requests and limits.                                              *)
THEOREM LifecycleTypes == Spec => []TypeOK
<1>1. LifeInv => TypeOK
  BY DEF LifeInv
<1> QED
  BY <1>1, LifeInvariant, PTL

(* However deletes and a shutdown meet at a consumer, its Done is closed once *)
(* at most, and whoever finds it in the map finds it running.                 *)
THEOREM DoneClosedAtMostOnce == Spec => []DoneClosedOnce
<1>1. LifeInv => DoneClosedOnce
  BY DEF LifeInv, DoneClosedOnce, HolderInv
<1> QED
  BY <1>1, LifeInvariant, PTL

(* After a 204 no create, update, shutdown or restart brings the tenant back. *)
THEOREM DeletedForGood == Spec => []DeletedStaysDown
<1>1. LifeInv => DeletedStaysDown
  BY DEF LifeInv
<1> QED
  BY <1>1, LifeInvariant, PTL

(* After a 201 the tenant is in the map until its row goes, a shutdown begins *)
(* or the process ends.                                                       *)
THEOREM CreatedServed == Spec => []CreatedIsServed
<1>1. LifeInv => CreatedIsServed
  <2> SUFFICES ASSUME LifeInv, NEW r \in Requests,
                      resp[r] = 201, row[Target[r]] # 0, server = "up",
                      consumer[Target[r]] # "dead"
               PROVE  Target[r] \in mapped
    BY DEF CreatedIsServed
  <2>1. Target[r] \in Tenants /\ Kind[r] = "create"
    BY LifecycleAssumption DEF LifeInv, RequestInv
  <2>2. consumer[Target[r]] # "none"
    BY <2>1 DEF LifeInv, SpawnInv, Created
  <2> QED
    BY <2>1, <2>2 DEF LifeInv, ServedInv
<1> QED
  BY <1>1, LifeInvariant, PTL

(* Row and pool agree whenever nobody is between the two writes, as long as   *)
(* writes did not overlap and no statement failed.                            *)
THEOREM PoolsMatchRows == Spec => []PoolMatchesRow
<1>1. LifeInv => PoolMatchesRow
  BY DEF LifeInv, TypeOK, PoolMatchesRow, Quiet, ValueInv, Writing, Active
<1> QED
  BY <1>1, LifeInvariant, PTL

(* What main leaves running when it returns was spawned after ShutdownAll had *)
(* taken the map.                                                             *)
THEOREM ExitStopsTheRest == Spec => []ExitMissesOnlyLateSpawns
<1>1. LifeInv => ExitMissesOnlyLateSpawns
  <2> SUFFICES ASSUME LifeInv, server = "exited", NEW t \in Tenants, t \notin mapped,
                      consumer[t] \in {"running", "signalled", "racing"}
               PROVE  FALSE
    BY DEF LifeInv, TypeOK, Consumers, ExitMissesOnlyLateSpawns
  <2>1. t \notin batch
    BY DEF LifeInv, ServerInv
  <2>2. \A r \in Requests : ~Deleting(r)
    BY DEF LifeInv, ServerInv, Active, Deleting
  <2> QED
    BY <2>1, <2>2 DEF LifeInv, HolderInv
<1> QED
  BY <1>1, LifeInvariant, PTL
=============================================================================
