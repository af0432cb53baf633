------------------------------ MODULE HttpApi ------------------------------
(***************************************************************************)
(* Accounts, tokens and the requests behind the JWT middleware:            *)
(* internal/handler/auth_handler.go, service/auth_service.go,              *)
(* repository/user_repository.go, handler/middleware/jwt.go, and of the    *)
(* protected routes POST /messages, GET /messages/:id and GET /tenants/:id.*)
(*                                                                         *)
(* A request is a process. It is cut where another one can come between:   *)
(* a registration looks the name up and then inserts, a login reads the    *)
(* row and then issues a token, the middleware checks a token that may     *)
(* expire before the handler runs. Passwords, names and roles are only     *)
(* compared. Time is counted in ticks, SecondTicks to a second.            *)
(***************************************************************************)
EXTENDS Integers, FiniteSets

CONSTANTS
  Requests, Names, Passwords, Tenants, Messages,
  Roles,        \* roles a registration may ask for, "" for none
  SecondTicks,  \* ticks per second
  Expiry,       \* JWT_EXPIRY, in ticks
  MaxTime,      \* bound: the clock
  MaxFailures,  \* bound: statements that fail
  None,         \* no row
  Null          \* SQL's NULL; in a request, a field that was left out

ASSUME ApiAssumption ==
  /\ SecondTicks \in Nat \ {0}
  /\ Expiry \in Int
  /\ MaxTime \in Nat /\ MaxFailures \in Nat
  /\ Null \notin Tenants

VARIABLES
  users,     \* table users: Names -> row or None
  tenants,   \* ids in table tenants
  messages,  \* table messages: Messages -> tenant_id or None
  partitioned, \* tenants with a partition of messages
  tokens,    \* tokens that were issued
  now,       \* the clock
  req, pc, resp,  \* a request's content, where it is, its status code (0: none)
  row,       \* the user row a login has read
  at,        \* history: when the middleware looked at the request's token
  known,     \* history: what it asks for was there when it arrived
  hit        \* history: the requests one of whose statements failed

tableVars == <<users, tenants, messages, partitioned>>
histVars  == <<at, known, hit>>
vars      == <<tableVars, tokens, now, req, pc, resp, row, histVars>>

Blank      == ""
StoredRole == (Roles \ {Blank}) \cup {"user"}
UserRow == [pw : Passwords, tenant : Tenants \cup {Null}, role : StoredRole]
Token   == [name : Names, tenant : Tenants, role : StoredRole, exp : Int, issued : 0..MaxTime]

ASSUME NoneAssumption == None \notin UserRow /\ None \notin Tenants

(* What clients send. A token they hold was issued to them: NoToken stands    *)
(* for a header that is missing, malformed or does not verify.                *)
NoToken     == [exp |-> 0]
RegisterReq == [op : {"register"}, name : Names, pw : Passwords, tenant : Tenants \cup {Null}, role : Roles]
LoginReq    == [op : {"login"}, name : Names, pw : Passwords]
MessageReq  == [op : {"post", "get"}, token : tokens \cup {NoToken}, tenant : Tenants, msg : Messages]
TenantReq   == [op : {"tenant"}, token : tokens \cup {NoToken}, tenant : Tenants]
NoReq       == [op |-> "none"]

-----------------------------------------------------------------------------
(* Role "user" when the request names none.                                   *)
RoleAsGiven(role) == role
RoleOrDefault(role) == IF role = Blank THEN "user" ELSE role

(* exp claim: now plus JWT_EXPIRY, which jwt.NewNumericDate cuts to seconds.  *)
WholeSecond(t) == (t \div SecondTicks) * SecondTicks
ExpiryRoundedUp(t) == WholeSecond(t + Expiry) + SecondTicks
ExpiresAt(t) == WholeSecond(t + Expiry)

(* GetByUsername. The row's tenant_id is scanned into a Go string, which      *)
(* fails for NULL: such a row is neither found nor missing.                   *)
GetByUsername(name) ==
  IF users[name] = None THEN "missing"
  ELSE IF users[name].tenant = Null THEN "error" ELSE "found"

AnyPassword(u, pw) == TRUE
VerifyPassword(u, pw) == u.pw = pw

(* What the table's constraints let in: username is UNIQUE, tenant_id is a    *)
(* UUID that REFERENCES tenants. An omitted tenant_id arrives as '', which is *)
(* no UUID.                                                                   *)
InsertableTwice(q) == q.tenant \in tenants
Insertable(q) == users[q.name] = None /\ q.tenant \in tenants

(* ON DELETE SET NULL.                                                        *)
CascadedUsers(t) == [n \in Names |-> IF users[n] # None /\ users[n].tenant = t THEN None ELSE users[n]]
OrphanedUsers(t) ==
  [n \in Names |-> IF users[n] = None \/ users[n].tenant # t THEN users[n]
                   ELSE [users[n] EXCEPT !.tenant = Null]]

(* WHERE id = $1 AND tenant_id = $2: the tenant itself need not exist.        *)
Stored(m, t) == messages[m] = t

(* A statement fails: the connection to the database, the context.            *)
StatementFails(r) ==
  /\ Cardinality(hit) < MaxFailures
  /\ hit' = hit \cup {r}

-----------------------------------------------------------------------------
(* Accounts of earlier registrations may exist; tokens of earlier logins are  *)
(* left out, since a login can come first. Nothing in the code makes the      *)
(* partitions: their trigger is a row trigger, which runs in a partition.     *)
Init ==
  /\ users \in [Names -> {None} \cup {u \in UserRow : u.tenant # Null}]
  /\ tenants = Tenants
  /\ messages = [m \in Messages |-> None]
  /\ partitioned \in SUBSET Tenants
  /\ tokens = {}
  /\ now = 0
  /\ req = [r \in Requests |-> NoReq]
  /\ pc = [r \in Requests |-> "idle"]
  /\ resp = [r \in Requests |-> 0]
  /\ row = [r \in Requests |-> None]
  /\ at = [r \in Requests |-> 0]
  /\ known = [r \in Requests |-> FALSE]
  /\ hit = {}

Tick ==
  /\ now < MaxTime
  /\ now' = now + 1
  /\ UNCHANGED <<tableVars, tokens, req, pc, resp, row, histVars>>

(* The routes: /auth is open, the others pass the middleware first.           *)
Arrive(r, q) ==
  /\ pc[r] = "idle"
  /\ req' = [req EXCEPT ![r] = q]
  /\ pc' = [pc EXCEPT ![r] = IF q.op \in {"register", "login"} THEN "lookup" ELSE "check"]
  /\ known' = [known EXCEPT ![r] =
       \/ q.op = "login" /\ users[q.name] # None /\ users[q.name].pw = q.pw
       \/ q.op = "get" /\ messages[q.msg] = q.tenant]
  /\ UNCHANGED <<tableVars, tokens, now, resp, row, at, hit>>

Respond(r, code) ==
  /\ resp' = [resp EXCEPT ![r] = code]
  /\ pc' = [pc EXCEPT ![r] = "done"]

Goto(r, step) ==
  /\ pc' = [pc EXCEPT ![r] = step]
  /\ UNCHANGED resp

At(r, step, op) == pc[r] = step /\ req[r].op = op

(* The lookup of Register and Login, which may fail by itself.                *)
Lookup(r, result) ==
  \/ result = GetByUsername(req[r].name) /\ UNCHANGED hit
  \/ result = "error" /\ StatementFails(r)

(* Register up to the lookup: an unreadable body, a blank field, a name that  *)
(* was found. Any other result of the lookup, an error too, goes on.          *)
Register(r) ==
  /\ At(r, "lookup", "register")
  /\ \/ \E code \in {400, 500} : Respond(r, code) /\ UNCHANGED hit
     \/ Lookup(r, "found") /\ Respond(r, 409)
     \/ \E result \in {"missing", "error"} : Lookup(r, result) /\ Goto(r, "insert")
  /\ UNCHANGED <<tableVars, tokens, now, req, row, at, known>>

InsertUser(q) ==
  users' = [users EXCEPT ![q.name] = [pw |-> q.pw, tenant |-> q.tenant, role |-> RoleOrDefault(q.role)]]

(* Create: the INSERT. One that fails may have taken effect.                  *)
CreateUser(r) ==
  LET q == req[r] IN
  /\ At(r, "insert", "register")
  /\ \/ Insertable(q) /\ InsertUser(q) /\ Respond(r, 201) /\ UNCHANGED hit
     \/ ~Insertable(q) /\ UNCHANGED <<users, hit>> /\ Respond(r, 500)
     \/ /\ StatementFails(r) /\ Respond(r, 500)
        /\ UNCHANGED users \/ (Insertable(q) /\ InsertUser(q))
  /\ UNCHANGED <<tenants, messages, partitioned, tokens, now, req, row, at, known>>

(* Login: an unreadable body, no such user, a row that cannot be read.        *)
Login(r) ==
  /\ At(r, "lookup", "login")
  /\ \/ Respond(r, 400) /\ UNCHANGED <<row, hit>>
     \/ Lookup(r, "missing") /\ Respond(r, 401) /\ UNCHANGED row
     \/ Lookup(r, "error") /\ Respond(r, 500) /\ UNCHANGED row
     \/ /\ Lookup(r, "found") /\ Goto(r, "verify")
        /\ row' = [row EXCEPT ![r] = users[req[r].name]]
  /\ UNCHANGED <<tableVars, tokens, now, req, at, known>>

(* The password is compared and the token made from the row as it was read.   *)
IssueToken(r) ==
  /\ At(r, "verify", "login")
  /\ \/ /\ ~VerifyPassword(row[r], req[r].pw)
        /\ Respond(r, 401)
        /\ UNCHANGED tokens
     \/ /\ VerifyPassword(row[r], req[r].pw)
        /\ tokens' = tokens \cup {[name |-> req[r].name, tenant |-> row[r].tenant, role |-> row[r].role,
                                   exp |-> ExpiresAt(now), issued |-> now]}
        /\ Respond(r, 200)
  /\ row' = [row EXCEPT ![r] = None]
  /\ UNCHANGED <<tableVars, now, req, histVars>>

(* The middleware: a token that was issued is valid before its exp. The group *)
(* of the tenant routes and that of the message routes have the same prefix:  *)
(* a request for messages passes the middleware of both.                      *)
JWTMiddleware(r) ==
  LET valid == req[r].token # NoToken /\ now < req[r].token.exp IN
  /\ pc[r] \in {"check", "recheck"}
  /\ at' = [at EXCEPT ![r] = now]
  /\ \/ ~valid /\ Respond(r, 401)
     \/ valid /\ pc[r] = "check" /\ req[r].op # "tenant" /\ Goto(r, "recheck")
     \/ valid /\ (pc[r] = "recheck" \/ req[r].op = "tenant") /\ Goto(r, "handle")
  /\ UNCHANGED <<tableVars, tokens, now, req, row, known, hit>>

(* POST /messages: the row is stored as pending, in its tenant's partition,   *)
(* and nothing is published.                                                  *)
CreateMessage(r) ==
  LET q == req[r] IN
  /\ At(r, "handle", "post")
  /\ \/ Respond(r, 400) /\ UNCHANGED <<messages, hit>>
     \/ q.tenant \notin partitioned /\ Respond(r, 500) /\ UNCHANGED <<messages, hit>>
     \/ /\ messages[q.msg] = None /\ q.tenant \in partitioned
        /\ messages' = [messages EXCEPT ![q.msg] = q.tenant]
        /\ \/ Respond(r, 201) /\ UNCHANGED hit
           \/ Respond(r, 500) /\ StatementFails(r)
     \/ Respond(r, 500) /\ StatementFails(r) /\ UNCHANGED messages
  /\ UNCHANGED <<users, tenants, partitioned, tokens, now, req, row, at, known>>

Answer(r, found) ==
  \/ \E code \in {400, IF found THEN 200 ELSE 404} : Respond(r, code) /\ UNCHANGED hit
  \/ Respond(r, 500) /\ StatementFails(r)

GetMessage(r) ==
  /\ At(r, "handle", "get")
  /\ Answer(r, Stored(req[r].msg, req[r].tenant))
  /\ UNCHANGED <<tableVars, tokens, now, req, row, at, known>>

GetTenant(r) ==
  /\ At(r, "handle", "tenant")
  /\ Answer(r, req[r].tenant \in tenants)
  /\ UNCHANGED <<tableVars, tokens, now, req, row, at, known>>

(* The DELETE of the tenant's row by some other request (TenantLifecycle has  *)
(* the whole of it); the table's foreign key reaches into users.              *)
DeleteTenant(t) ==
  /\ t \in tenants
  /\ tenants' = tenants \ {t}
  /\ users' = OrphanedUsers(t)
  /\ UNCHANGED <<messages, partitioned, tokens, now, req, pc, resp, row, histVars>>

Handle(r) ==
  \/ Register(r) \/ CreateUser(r) \/ Login(r) \/ IssueToken(r)
  \/ JWTMiddleware(r) \/ CreateMessage(r) \/ GetMessage(r) \/ GetTenant(r)

Next ==
  \/ Tick
  \/ \E t \in Tenants : DeleteTenant(t)
  \/ \E r \in Requests :
       \/ \E q \in RegisterReq \cup LoginReq \cup MessageReq \cup TenantReq : Arrive(r, q)
       \/ Handle(r)

Spec == Init /\ [][Next]_vars

-----------------------------------------------------------------------------
(* Type invariant; a stored role is never empty.                              *)
TypeOK ==
  /\ users \in [Names -> UserRow \cup {None}]
  /\ tenants \subseteq Tenants
  /\ messages \in [Messages -> Tenants \cup {None}] /\ partitioned \subseteq Tenants
  /\ tokens \subseteq Token
  /\ now \in 0..MaxTime
  /\ pc \in [Requests -> {"idle", "lookup", "insert", "verify", "check", "recheck", "handle", "done"}]
  /\ resp \in [Requests -> {0, 200, 201, 400, 401, 404, 409, 500}]
  /\ row \in [Requests -> UserRow \cup {None}]
  /\ at \in [Requests -> 0..MaxTime]
  /\ known \in [Requests -> BOOLEAN]
  /\ hit \subseteq Requests
  /\ \A r \in Requests : (pc[r] = "done") <=> (resp[r] # 0)

Registered(r) == req[r].op = "register" /\ resp[r] = 201
Protected(r)  == req[r].op \in {"post", "get", "tenant"}

(* Two registrations of a name may both pass the lookup: one of them at most  *)
(* is answered 201, and what it stored stays, with the tenant it named as     *)
(* long as that exists and no tenant afterwards.                              *)
RegistrationStands ==
  \A r \in Requests : Registered(r) =>
    LET q == req[r]
        u == users[q.name]
    IN /\ u # None
       /\ u.pw = q.pw /\ u.role = RoleOrDefault(q.role)
       /\ u.tenant = (IF q.tenant \in tenants THEN q.tenant ELSE Null)
       /\ \A s \in Requests \ {r} : Registered(s) => req[s].name # q.name

(* A token speaks for its user: a login was answered 200 that gave the        *)
(* password the table still holds, and the claims are the row's, save for a   *)
(* tenant that was deleted since.                                             *)
TokenVouchesForUser ==
  \A k \in tokens :
    LET u == users[k.name] IN
    /\ u # None
    /\ k.role = u.role
    /\ u.tenant = (IF k.tenant \in tenants THEN k.tenant ELSE Null)
    /\ \E r \in Requests : req[r] = [op |-> "login", name |-> k.name, pw |-> u.pw] /\ resp[r] = 200

(* A request that came past the middleware carried a token of a login, at     *)
(* most JWT_EXPIRY old. One that was refused was not refused early: a token   *)
(* is good for JWT_EXPIRY less what cutting exp to whole seconds takes.       *)
ServedWhileValid ==
  \A r \in Requests : Protected(r) /\ pc[r] \in {"recheck", "handle", "done"} =>
    LET k == req[r].token IN
    IF resp[r] = 401 THEN k = NoToken \/ at[r] > k.issued + Expiry - SecondTicks
    ELSE k \in tokens /\ k.issued <= at[r] /\ at[r] < k.issued + Expiry

(* What was there before a request arrives serves it: the right password is   *)
(* answered 200, unless a statement failed or the user's tenant was deleted,  *)
(* and a stored message is found, also after its tenant was deleted.          *)
KnownIsServed ==
  \A r \in Requests : known[r] =>
    /\ req[r].op = "login" /\ resp[r] \notin {0, 200, 400} =>
         resp[r] = 500 /\ (r \in hit \/ users[req[r].name].tenant = Null)
    /\ req[r].op = "get" => resp[r] # 404
=============================================================================
