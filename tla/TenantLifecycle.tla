--------------------------- MODULE TenantLifecycle ---------------------------
(***************************************************************************)
(* The life of tenants across the HTTP requests that create, resize and    *)
(* delete them (internal/routes/tenant.go), the tenants table              *)
(* (internal/service/tenant_service.go), the manager's map of consumers    *)
(* (internal/tenant/manager.go), the shutdown in cmd/api/main.go, and a    *)
(* restart of the process.                                                 *)
(*                                                                         *)
(* Every request is a process: the row and the map are changed in separate *)
(* steps and nothing spans both. A consumer is what one SpawnConsumer made *)
(* of a tenant; its pool is reduced to its worker count and its Stop to    *)
(* one call that returns or panics (WorkerPool and TenantConsumer model    *)
(* the inside).                                                            *)
(***************************************************************************)
EXTENDS Integers, FiniteSets

CONSTANTS
  Tenants,         \* tenant ids; CreateTenant draws a fresh UUID
  Requests,        \* requests, each handled at most once
  Kind,            \* Kind[r]: which route r calls
  Target,          \* Target[r]: the tenant r names (or, for a create, draws)
  Ask,             \* Ask[r]: workers in the body of r
  DefaultWorkers,  \* m.defaultWorkers
  MaxWorkers,      \* m.maxWorkers
  WorkerLimit,     \* 50: the service's limit on workers
  CreateWorkers,   \* 3: the service's default for a create
  MaxRestarts      \* bound: restarts of the process

Kinds == {"create", "update", "delete"}

ASSUME LifecycleAssumption ==
  /\ Kind \in [Requests -> Kinds]
  /\ Target \in [Requests -> Tenants]
  /\ Ask \in [Requests -> Int]
  /\ \A q, r \in Requests :
       Kind[q] = "create" /\ Kind[r] = "create" /\ Target[q] = Target[r] => q = r
  /\ DefaultWorkers \in Nat \ {0}
  /\ MaxWorkers \in Nat \ {0}
  /\ WorkerLimit \in Nat \ {0}
  /\ CreateWorkers \in 1..WorkerLimit
  /\ MaxRestarts \in Nat

VARIABLES
  row,       \* tenants.concurrency, 0 when the tenant has no row
  mapped,    \* the tenants in m.consumers
  consumer,  \* state of the consumer each tenant was given
  pool,      \* its pool's worker count
  closes,    \* how often its Done was closed
  pc,        \* control point of each request
  resp,      \* its response
  server,    \* control point of main
  batch,     \* the consumers ShutdownAll has taken from the map
  restarts,  \* restarts so far
  disturbed  \* history: tenants with overlapping or half-failed writes

reqVars == <<pc, resp>>
mgrVars == <<mapped, consumer, pool, closes>>
srvVars == <<server, batch, restarts>>
vars    == <<row, mgrVars, reqVars, srvVars, disturbed>>

ReqPC     == {"idle", "spawn", "lookup", "resize", "find", "close", "stop", "done", "lost"}
Responses == {0, 200, 201, 204, 400, 404, 500}
Consumers == {"none", "running", "signalled", "racing", "stopped", "leaked", "dead"}
ServerPC  == {"up", "stopping", "draining", "exited"}

Active(r) == pc[r] \notin {"idle", "done", "lost"}

(* fiber accepts requests until app.Shutdown.                                *)
Arrives(r, kind) ==
  pc[r] = "idle" /\ Kind[r] = kind /\ server \in {"up", "stopping"}

Respond(r, code) ==
  /\ pc' = [pc EXCEPT ![r] = "done"]
  /\ resp' = [resp EXCEPT ![r] = code]

GoTo(r, label) ==
  /\ pc' = [pc EXCEPT ![r] = label]
  /\ UNCHANGED resp

(* BodyParser refuses the body of a create or an update.                      *)
BadBody(r) ==
  /\ Arrives(r, "create") \/ Arrives(r, "update")
  /\ Respond(r, 400)
  /\ UNCHANGED <<row, mgrVars, srvVars, disturbed>>

(* A request writes a row while another one still holds an earlier value for  *)
(* the pool of that tenant.                                                   *)
Overlaps(r) ==
  \E q \in Requests \ {r} :
    Target[q] = Target[r] /\ pc[q] \in {"spawn", "lookup", "resize"}

(* A statement of r fails; whether it took effect is open.                    *)
StatementFails(r, effect, code) ==
  /\ row' \in {row, [row EXCEPT ![Target[r]] = effect]}
  /\ disturbed' = disturbed \cup {Target[r]}
  /\ Respond(r, code)

-----------------------------------------------------------------------------
Init ==
  /\ row = [t \in Tenants |-> 0]
  /\ mapped = {}
  /\ consumer = [t \in Tenants |-> "none"]
  /\ pool = [t \in Tenants |-> 0]
  /\ closes = [t \in Tenants |-> 0]
  /\ pc = [r \in Requests |-> "idle"]
  /\ resp = [r \in Requests |-> 0]
  /\ server = "up"
  /\ batch = {}
  /\ restarts = 0
  /\ disturbed = {}

-----------------------------------------------------------------------------
(* createTenant. The INSERT may fail (a duplicate name, the database).        *)
CreateConcurrency(w) == IF w > 0 /\ w <= WorkerLimit THEN w ELSE CreateWorkers

InsertTenant(r) ==
  LET w == CreateConcurrency(Ask[r]) IN
  \/ row' = [row EXCEPT ![Target[r]] = w] /\ GoTo(r, "spawn") /\ UNCHANGED disturbed
  \/ StatementFails(r, w, 500)

CreateTenant(r) ==
  /\ Arrives(r, "create")
  /\ InsertTenant(r)
  /\ UNCHANGED <<mgrVars, srvVars>>

(* SpawnConsumer, whole under m.mu: clamp, channel, queues, pool, map entry.  *)
(* The channel or a queue declaration may fail; the tenant's row stays.       *)
SpawnConcurrency(w) ==
  LET c == IF w <= 0 THEN DefaultWorkers ELSE w
  IN IF c > MaxWorkers THEN MaxWorkers ELSE c

(* declareTenantQueues makes four calls to the broker. After an error the     *)
(* manager has nothing of the consumer; so too when there is one already or   *)
(* no channel can be opened.                                                  *)
DeclareFails(r) == UNCHANGED mgrVars /\ Respond(r, 500)

SpawnErrorIgnored(r) ==
  LET t == Target[r] IN
  /\ pc[r] = "spawn"
  /\ \/ /\ t \notin mapped
        /\ mapped' = mapped \cup {t}
        /\ consumer' = [consumer EXCEPT ![t] = "running"]
        /\ pool' = [pool EXCEPT ![t] = SpawnConcurrency(CreateConcurrency(Ask[r]))]
        /\ UNCHANGED closes
     \/ UNCHANGED mgrVars
  /\ Respond(r, 201)
  /\ UNCHANGED <<row, srvVars, disturbed>>

SpawnConsumer(r) ==
  LET t == Target[r] IN
  /\ pc[r] = "spawn"
  /\ \/ /\ t \notin mapped
        /\ mapped' = mapped \cup {t}
        /\ consumer' = [consumer EXCEPT ![t] = "running"]
        /\ pool' = [pool EXCEPT ![t] = SpawnConcurrency(CreateConcurrency(Ask[r]))]
        /\ UNCHANGED closes
        /\ Respond(r, 201)
     \/ DeclareFails(r)
  /\ UNCHANGED <<row, srvVars, disturbed>>

-----------------------------------------------------------------------------
(* updateConcurrency: the row, then the map under the read lock, then the     *)
(* pool of the consumer that was found, whatever became of it meanwhile.      *)
SetConcurrency(r) ==
  LET t == Target[r] IN
  \/ /\ Ask[r] \in 1..WorkerLimit /\ row[t] # 0
     /\ row' = [row EXCEPT ![t] = Ask[r]]
     /\ disturbed' = IF Overlaps(r) THEN disturbed \cup {t} ELSE disturbed
     /\ GoTo(r, "lookup")
  \/ /\ Ask[r] \in 1..WorkerLimit /\ row[t] # 0
     /\ StatementFails(r, Ask[r], 404)
  \/ /\ Ask[r] \notin 1..WorkerLimit \/ row[t] = 0
     /\ Respond(r, 404)
     /\ UNCHANGED <<row, disturbed>>

UpdateRow(r) ==
  /\ Arrives(r, "update")
  /\ SetConcurrency(r)
  /\ UNCHANGED <<mgrVars, srvVars>>

Lookup(r) ==
  /\ pc[r] = "lookup"
  /\ IF Target[r] \in mapped THEN GoTo(r, "resize") ELSE Respond(r, 500)
  /\ UNCHANGED <<row, mgrVars, srvVars, disturbed>>

UpdateUnclamped(w) == IF w <= 0 THEN 1 ELSE w
UpdateDefault(w) == IF w <= 0 \/ w > MaxWorkers THEN DefaultWorkers ELSE w
UpdateWorkers(w) ==
  LET c == IF w <= 0 THEN 1 ELSE w
  IN IF c > MaxWorkers THEN MaxWorkers ELSE c

ResizePool(r) ==
  LET t == Target[r]
      w == UpdateWorkers(Ask[r])
  IN /\ pc[r] = "resize"
     /\ pool' = [pool EXCEPT ![t] = w]
     /\ consumer' = IF consumer[t] = "signalled" /\ w > pool[t]
                      THEN [consumer EXCEPT ![t] = "racing"] ELSE consumer
     /\ Respond(r, 200)
     /\ UNCHANGED <<row, mapped, closes, srvVars, disturbed>>

-----------------------------------------------------------------------------
(* deleteTenant: the row, then StopConsumer. Any error of the DELETE is a 404. *)
RemoveTenant(r) ==
  LET t == Target[r] IN
  \/ row[t] # 0 /\ row' = [row EXCEPT ![t] = 0] /\ GoTo(r, "find") /\ UNCHANGED disturbed
  \/ row[t] # 0 /\ StatementFails(r, 0, 404)
  \/ row[t] = 0 /\ Respond(r, 404) /\ UNCHANGED <<row, disturbed>>

DeleteRow(r) ==
  /\ Arrives(r, "delete")
  /\ RemoveTenant(r)
  /\ UNCHANGED <<mgrVars, srvVars>>

(* StopConsumer: find and unmap under m.mu, close Done, then stop the pool    *)
(* and close the channel.                                                     *)
FindOnly(r) ==
  /\ pc[r] = "find"
  /\ IF Target[r] \in mapped THEN GoTo(r, "close") ELSE Respond(r, 500)
  /\ UNCHANGED <<row, mgrVars, srvVars, disturbed>>

FindErrorIgnored(r) ==
  /\ pc[r] = "find"
  /\ IF Target[r] \in mapped THEN GoTo(r, "close") ELSE Respond(r, 204)
  /\ mapped' = mapped \ {Target[r]}
  /\ UNCHANGED <<row, consumer, pool, closes, srvVars, disturbed>>

FindConsumer(r) ==
  /\ pc[r] = "find"
  /\ IF Target[r] \in mapped THEN GoTo(r, "close") ELSE Respond(r, 500)
  /\ mapped' = mapped \ {Target[r]}
  /\ UNCHANGED <<row, consumer, pool, closes, srvVars, disturbed>>

Signal(t) ==
  /\ closes' = [closes EXCEPT ![t] = @ + 1]
  /\ consumer' = [consumer EXCEPT ![t] = "signalled"]

CloseDone(r) ==
  /\ pc[r] = "close"
  /\ Signal(Target[r])
  /\ GoTo(r, "stop")
  /\ UNCHANGED <<row, mapped, pool, srvVars, disturbed>>

(* The pool's Stop may panic when a Resize grew the pool behind it; the       *)
(* recover middleware answers 500 and the channel stays open.                 *)
StopPoolHangs(r) ==
  /\ pc[r] = "stop"
  /\ consumer[Target[r]] = "signalled"
  /\ consumer' = [consumer EXCEPT ![Target[r]] = "stopped"]
  /\ Respond(r, 204)
  /\ UNCHANGED <<row, mapped, pool, closes, srvVars, disturbed>>

StopPool(r) ==
  LET t == Target[r] IN
  /\ pc[r] = "stop"
  /\ \/ consumer' = [consumer EXCEPT ![t] = "stopped"] /\ Respond(r, 204)
     \/ /\ consumer[t] = "racing"
        /\ consumer' = [consumer EXCEPT ![t] = "leaked"]
        /\ Respond(r, 500)
  /\ UNCHANGED <<row, mapped, pool, closes, srvVars, disturbed>>

-----------------------------------------------------------------------------
(* The process is gone: requests in flight are never answered, consumers end. *)
ProcessDies(next) ==
  /\ server' = next
  /\ batch' = {}
  /\ mapped' = {}
  /\ pc' = [r \in Requests |-> IF Active(r) THEN "lost" ELSE pc[r]]
  /\ consumer' = [t \in Tenants |-> IF consumer[t] = "none" THEN "none" ELSE "dead"]
  /\ UNCHANGED <<row, pool, closes, resp, disturbed>>

(* main on SIGTERM: ShutdownAll takes the whole map under m.mu, then one      *)
(* goroutine per consumer signals and stops it. A panic there ends the        *)
(* process.                                                                   *)
ShutdownAll ==
  /\ server = "up"
  /\ server' = "stopping"
  /\ batch' = mapped
  /\ mapped' = {}
  /\ UNCHANGED <<row, consumer, pool, closes, reqVars, restarts, disturbed>>

BatchClose(t) ==
  /\ t \in batch /\ consumer[t] = "running"
  /\ Signal(t)
  /\ UNCHANGED <<row, mapped, pool, reqVars, srvVars, disturbed>>

BatchStop(t) ==
  /\ t \in batch
  /\ \/ /\ consumer[t] \in {"signalled", "racing"}
        /\ consumer' = [consumer EXCEPT ![t] = "stopped"]
        /\ UNCHANGED <<row, mapped, pool, closes, reqVars, srvVars, disturbed>>
     \/ consumer[t] = "racing" /\ ProcessDies("exited") /\ UNCHANGED restarts

(* ShutdownAll's wg.Wait, then app.Shutdown: no new requests, and the ones in *)
(* flight are waited for; then main returns.                                  *)
AppShutdownAtOnce ==
  /\ server = "stopping"
  /\ server' = "draining"
  /\ UNCHANGED <<row, mgrVars, reqVars, batch, restarts, disturbed>>

AppShutdownForAll ==
  /\ server = "stopping"
  /\ \A t \in Tenants : consumer[t] \in {"none", "stopped", "leaked"}
  /\ server' = "draining"
  /\ UNCHANGED <<row, mgrVars, reqVars, batch, restarts, disturbed>>

AppShutdown ==
  /\ server = "stopping"
  /\ \A t \in batch : consumer[t] = "stopped"
  /\ server' = "draining"
  /\ UNCHANGED <<row, mgrVars, reqVars, batch, restarts, disturbed>>

MainReturns ==
  /\ server = "draining"
  /\ \A r \in Requests : ~Active(r)
  /\ server' = "exited"
  /\ UNCHANGED <<row, mgrVars, reqVars, batch, restarts, disturbed>>

(* A crash or the end of the process, and a new start. main builds an empty   *)
(* Manager and spawns nothing for the tenants already in the table.           *)
Restart ==
  /\ restarts < MaxRestarts
  /\ restarts' = restarts + 1
  /\ ProcessDies("up")

-----------------------------------------------------------------------------
Serve(r) ==
  /\ server # "exited"
  /\ \/ SpawnConsumer(r) \/ Lookup(r) \/ ResizePool(r)
     \/ FindConsumer(r) \/ CloseDone(r) \/ StopPool(r)

Shutdown == AppShutdown \/ MainReturns \/ \E t \in Tenants : BatchClose(t) \/ BatchStop(t)

Next ==
  \/ \E r \in Requests :
       CreateTenant(r) \/ UpdateRow(r) \/ DeleteRow(r) \/ BadBody(r) \/ Serve(r)
  \/ ShutdownAll \/ Shutdown \/ Restart

(* A handler that began runs to its response and a shutdown that began goes   *)
(* on: each is a goroutine whose calls return (the pool's Stop by             *)
(* PoolContract). Nobody has to send a request or a signal.                   *)
Fairness == WF_vars(Shutdown) /\ \A r \in Requests : WF_vars(Serve(r))

Spec == Init /\ [][Next]_vars /\ Fairness

-----------------------------------------------------------------------------
(* Type invariant.                                                           *)
TypeOK ==
  /\ row \in [Tenants -> 0..WorkerLimit]
  /\ mapped \subseteq Tenants
  /\ consumer \in [Tenants -> Consumers]
  /\ pool \in [Tenants -> 0..MaxWorkers]
  /\ closes \in [Tenants -> Nat]
  /\ pc \in [Requests -> ReqPC]
  /\ resp \in [Requests -> Responses]
  /\ server \in ServerPC
  /\ batch \subseteq Tenants
  /\ restarts \in 0..MaxRestarts
  /\ disturbed \subseteq Tenants

(* Done is closed at most once, whichever of DELETE requests and ShutdownAll  *)
(* meet at a consumer: a second close would panic. What the map offers them   *)
(* is running: nobody has begun to stop it.                                   *)
DoneClosedOnce ==
  /\ \A t \in Tenants : closes[t] <= 1
  /\ \A t \in mapped : consumer[t] = "running"

(* After a 204 the tenant is gone for good: no row, no map entry, no consumer. *)
DeletedStaysDown ==
  \A r \in Requests : resp[r] = 204 =>
    /\ row[Target[r]] = 0
    /\ Target[r] \notin mapped
    /\ consumer[Target[r]] \in {"stopped", "dead"}

(* After a 201 the tenant is served as long as it has its row and the process *)
(* that answered is up and not shutting down.                                 *)
CreatedIsServed ==
  \A r \in Requests :
    resp[r] = 201 /\ row[Target[r]] # 0 /\ server = "up" /\ consumer[Target[r]] # "dead"
      => Target[r] \in mapped

(* A served tenant's pool has the row's worker count, cut to the manager's    *)
(* maximum, whenever no request is between the two writes, unless writes      *)
(* overlapped or a statement failed.                                          *)
Quiet(t) == \A r \in Requests : Target[r] = t => ~Active(r)
Agrees(t) == pool[t] = IF row[t] > MaxWorkers THEN MaxWorkers ELSE row[t]
PoolMatchesRow ==
  \A t \in mapped \ disturbed : Quiet(t) /\ row[t] # 0 => Agrees(t)

(* When main returns the only consumers nobody stopped are those that were    *)
(* spawned after ShutdownAll had taken the map.                               *)
ExitMissesOnlyLateSpawns ==
  server = "exited" => \A t \in Tenants :
    t \in mapped \/ consumer[t] \in {"none", "stopped", "leaked", "dead"}

(* Every request that reached its handler is answered unless the process dies. *)
RequestsAnswered == \A r \in Requests : Active(r) ~> ~Active(r)

(* A shutdown ends, whatever requests are still arriving.                     *)
ShutdownEnds == server = "stopping" ~> server \in {"exited", "up"}

-----------------------------------------------------------------------------
(* What the documentation says and the code does not do (see the README).     *)

(* README.md:122 "Delete tenant (auto-stops consumer)": once a DELETE that    *)
(* removed the row is answered and nothing else is in flight, no consumer of  *)
(* the tenant is left in the map.                                             *)
DeleteStopsConsumer ==
  \A r \in Requests :
    Kind[r] = "delete" /\ resp[r] \in {204, 500} /\ Quiet(Target[r])
      => Target[r] \notin mapped
=============================================================================
