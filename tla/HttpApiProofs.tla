---------------------------- MODULE HttpApiProofs ----------------------------
(***************************************************************************)
(* Proofs about accounts, tokens and protected requests, for any number of *)
(* requests, users and tenants and every expiry.                           *)
(***************************************************************************)
EXTENDS HttpApi, TLAPS

(* A request has the fields of its operation and is where that operation can  *)
(* be.                                                                        *)
RequestOK ==
  /\ DOMAIN req = Requests
  /\ \A r \in Requests :
       LET q == req[r] IN
       /\ q.op \in {"none", "register", "login", "post", "get", "tenant"}
       /\ (q.op = "none") <=> (pc[r] = "idle")
       /\ q.op = "register" =>
            /\ pc[r] \in {"lookup", "insert", "done"}
            /\ q.name \in Names /\ q.pw \in Passwords
            /\ q.tenant \in Tenants \cup {Null} /\ q.role \in Roles
       /\ q.op = "login" =>
            /\ pc[r] \in {"lookup", "verify", "done"}
            /\ q.name \in Names /\ q.pw \in Passwords
            /\ q = [op |-> "login", name |-> q.name, pw |-> q.pw]
       /\ Protected(r) =>
            /\ pc[r] \in {"check", "recheck", "handle", "done"}
            /\ q.token \in tokens \cup {NoToken} /\ q.tenant \in Tenants
       /\ q.op \in {"post", "get"} => q.msg \in Messages

(* The foreign key of users.                                                  *)
TenantExists ==
  \A n \in Names : users[n] # None => users[n].tenant \in tenants \cup {Null}

(* exp is what the login's clock gave, and no token is from the future.       *)
TokensDated ==
  \A k \in tokens : k.exp = ExpiresAt(k.issued) /\ k.issued <= now

(* The row a login has read still tells the password and the role, and the    *)
(* tenant unless that was deleted.                                            *)
RowRead ==
  \A r \in Requests : pc[r] = "verify" =>
    LET u == users[req[r].name] IN
    /\ row[r] \in UserRow /\ row[r].tenant \in Tenants
    /\ u # None /\ u.pw = row[r].pw /\ u.role = row[r].role
    /\ u.tenant = (IF row[r].tenant \in tenants THEN row[r].tenant ELSE Null)

(* What was known when a request arrived is known still.                      *)
KnownStays ==
  \A r \in Requests : known[r] =>
    /\ req[r].op = "login" => users[req[r].name] # None /\ users[req[r].name].pw = req[r].pw
    /\ req[r].op = "get" => messages[req[r].msg] = req[r].tenant

ApiInv ==
  /\ TypeOK /\ RequestOK /\ TenantExists /\ TokensDated /\ RowRead /\ KnownStays
  /\ RegistrationStands /\ TokenVouchesForUser /\ ServedWhileValid /\ KnownIsServed
-----------------------------------------------------------------------------
(* Cutting to whole seconds takes less than a second off.                     *)
LEMMA SecondBounds ==
  ASSUME NEW t \in Int
  PROVE  WholeSecond(t) \in Int /\ WholeSecond(t) <= t /\ t - SecondTicks < WholeSecond(t)
<1>1. SecondTicks \in Nat /\ SecondTicks > 0
  BY ApiAssumption
<1> QED
  BY <1>1 DEF WholeSecond

(* The claims of a token.                                                     *)
LEMMA TokenFields ==
  ASSUME NEW k \in Token
  PROVE  k.name \in Names /\ k.tenant \in Tenants /\ k.issued \in 0..MaxTime
BY DEF Token

LEMMA ApiInit == Init => ApiInv
<1> SUFFICES ASSUME Init PROVE ApiInv
  OBVIOUS
<1>1. TypeOK
  BY ApiAssumption DEF Init, TypeOK
<1>2. RequestOK
  BY DEF Init, RequestOK, NoReq, Protected
<1>3. TenantExists
  BY DEF Init, TenantExists, UserRow
<1>4. TokensDated /\ RowRead /\ KnownStays /\ RegistrationStands /\ TokenVouchesForUser /\ ServedWhileValid /\ KnownIsServed
  BY DEF Init, TokensDated, RowRead, KnownStays, RegistrationStands, TokenVouchesForUser, ServedWhileValid,
         KnownIsServed, Registered, Protected, NoReq
<1> QED
  BY <1>1, <1>2, <1>3, <1>4 DEF ApiInv

LEMMA TickInv == ASSUME ApiInv, Tick PROVE ApiInv'
<1>1. /\ UNCHANGED <<users, tenants, messages, partitioned, tokens, req, pc, resp, row, at, known, hit>>
      /\ now < MaxTime /\ now' = now + 1
  BY DEF Tick, tableVars, histVars
<1>2. TypeOK'
  BY <1>1, ApiAssumption DEF ApiInv, TypeOK
<1>3. RequestOK'
  BY <1>1 DEF ApiInv, RequestOK, Protected
<1>4. TokensDated'
  <2> SUFFICES ASSUME NEW k \in tokens PROVE k.exp = ExpiresAt(k.issued) /\ k.issued <= now + 1
    BY <1>1 DEF TokensDated
  <2>1. k \in Token /\ now \in Int
    BY ApiAssumption DEF ApiInv, TypeOK
  <2>2. k.issued \in Int
    BY <2>1, TokenFields, ApiAssumption
  <2>3. k.exp = ExpiresAt(k.issued) /\ k.issued <= now
    BY DEF ApiInv, TokensDated
  <2> QED
    BY <2>1, <2>2, <2>3
<1>5. TenantExists' /\ RowRead' /\ KnownStays' /\ RegistrationStands' /\ TokenVouchesForUser' /\ ServedWhileValid' /\ KnownIsServed'
  BY <1>1 DEF ApiInv, TenantExists, RowRead, KnownStays, RegistrationStands, TokenVouchesForUser, ServedWhileValid, KnownIsServed, Registered, Protected
<1> QED
  BY <1>2, <1>3, <1>4, <1>5 DEF ApiInv

LEMMA ArriveInv ==
  ASSUME ApiInv, NEW r \in Requests,
         NEW q \in RegisterReq \cup LoginReq \cup MessageReq \cup TenantReq, Arrive(r, q)
  PROVE  ApiInv'
<1>1. /\ UNCHANGED <<users, tenants, messages, partitioned, tokens, now, resp, row, at, hit>>
      /\ pc[r] = "idle"
      /\ req' = [req EXCEPT ![r] = q]
      /\ pc' = [pc EXCEPT ![r] = IF q.op \in {"register", "login"} THEN "lookup" ELSE "check"]
  BY DEF Arrive, tableVars
<1>2. /\ q.op \in {"register", "login", "post", "get", "tenant"}
      /\ q.op = "register" => /\ q.name \in Names /\ q.pw \in Passwords
                              /\ q.tenant \in Tenants \cup {Null} /\ q.role \in Roles
      /\ q.op = "login" => /\ q.name \in Names /\ q.pw \in Passwords
                           /\ q = [op |-> "login", name |-> q.name, pw |-> q.pw]
      /\ q.op \in {"post", "get", "tenant"} => q.token \in tokens \cup {NoToken} /\ q.tenant \in Tenants
      /\ q.op \in {"post", "get"} => q.msg \in Messages
  BY DEF RegisterReq, LoginReq, MessageReq, TenantReq
<1>3. known' \in [Requests -> BOOLEAN]
  BY DEF Arrive, ApiInv, TypeOK
<1>4. TypeOK'
  BY <1>1, <1>3 DEF ApiInv, TypeOK
<1>5. RequestOK'
  <2>1. DOMAIN req' = Requests /\ \A s \in Requests : req'[s] = IF s = r THEN q ELSE req[s]
    BY <1>1 DEF ApiInv, RequestOK
  <2>2. \A s \in Requests : pc'[s] = IF s = r THEN IF q.op \in {"register", "login"} THEN "lookup" ELSE "check"
                                     ELSE pc[s]
    BY <1>1 DEF ApiInv, TypeOK
  <2> QED
    BY <1>1, <1>2, <2>1, <2>2 DEF ApiInv, RequestOK, Protected
<1>6. /\ resp[r] = 0
      /\ \A s \in Requests : s # r => req'[s] = req[s] /\ pc'[s] = pc[s] /\ known'[s] = known[s]
      /\ req'[r] = q
      /\ pc'[r] \in {"lookup", "check"}
      /\ known'[r] <=> (\/ q.op = "login" /\ users[q.name] # None /\ users[q.name].pw = q.pw
                        \/ q.op = "get" /\ messages[q.msg] = q.tenant)
  BY <1>1 DEF ApiInv, TypeOK, RequestOK, Arrive
<1>7. TenantExists' /\ TokensDated'
  BY <1>1 DEF ApiInv, TenantExists, TokensDated
<1>8. RowRead' /\ KnownStays'
  BY <1>1, <1>6 DEF ApiInv, RowRead, KnownStays
<1>9. RegistrationStands'
  BY <1>1, <1>6 DEF ApiInv, RegistrationStands, Registered
<1>10. TokenVouchesForUser'
  BY <1>1, <1>6 DEF ApiInv, TokenVouchesForUser
<1>11. ServedWhileValid' /\ KnownIsServed'
  BY <1>1, <1>6 DEF ApiInv, ServedWhileValid, KnownIsServed, Protected
<1> QED
  BY <1>4, <1>5, <1>7, <1>8, <1>9, <1>10, <1>11 DEF ApiInv
-----------------------------------------------------------------------------
(* A step of one request that has not been answered leaves the others alone   *)
(* and answers, or goes on without an answer.                                 *)
LEMMA Moved ==
  ASSUME ApiInv, NEW r \in Requests, pc[r] # "done", pc[r] # "idle",
         (\E code \in {200, 201, 400, 401, 404, 409, 500} : Respond(r, code))
           \/ (\E step \in {"insert", "verify", "recheck", "handle"} : Goto(r, step))
  PROVE  /\ pc' \in [Requests -> {"idle", "lookup", "insert", "verify", "check", "recheck", "handle", "done"}]
         /\ resp' \in [Requests -> {0, 200, 201, 400, 401, 404, 409, 500}]
         /\ \A s \in Requests : (pc'[s] = "done") <=> (resp'[s] # 0)
         /\ \A s \in Requests : s # r => pc'[s] = pc[s] /\ resp'[s] = resp[s]
         /\ resp[r] = 0
         /\ \/ pc'[r] = "done" /\ resp'[r] # 0
            \/ pc'[r] \in {"insert", "verify", "recheck", "handle"} /\ resp'[r] = 0
BY DEF ApiInv, TypeOK, Respond, Goto

(* Register up to the INSERT, and the reads behind the middleware: nothing    *)
(* stored changes.                                                            *)
LEMMA RegisterInv == ASSUME ApiInv, NEW r \in Requests, Register(r) PROVE ApiInv'
<1>1. /\ UNCHANGED <<users, tenants, messages, partitioned, tokens, now, req, row, at, known>>
      /\ hit' = hit \/ hit' = hit \cup {r}
      /\ pc[r] = "lookup" /\ req[r].op = "register"
      /\ (\E code \in {400, 500, 409} : Respond(r, code)) \/ Goto(r, "insert")
  BY DEF Register, tableVars, At, Lookup, StatementFails
<1>2. /\ pc' \in [Requests -> {"idle", "lookup", "insert", "verify", "check", "recheck", "handle", "done"}]
      /\ resp' \in [Requests -> {0, 200, 201, 400, 401, 404, 409, 500}]
      /\ \A s \in Requests : (pc'[s] = "done") <=> (resp'[s] # 0)
      /\ \A s \in Requests : s # r => pc'[s] = pc[s] /\ resp'[s] = resp[s]
      /\ resp[r] = 0
  BY <1>1, Moved
<1>3. pc'[r] \in {"insert", "done"} /\ resp'[r] \in {0, 400, 500, 409}
  BY <1>1, <1>2 DEF Respond, Goto, ApiInv, TypeOK
<1>4. TypeOK'
  BY <1>1, <1>2 DEF ApiInv, TypeOK
<1>5. RequestOK'
  BY <1>1, <1>2, <1>3 DEF ApiInv, RequestOK, Protected
<1>6. TenantExists' /\ TokensDated' /\ RowRead' /\ KnownStays'
  BY <1>1, <1>2, <1>3 DEF ApiInv, TenantExists, TokensDated, RowRead, KnownStays
<1>7. RegistrationStands' /\ TokenVouchesForUser'
  BY <1>1, <1>2, <1>3 DEF ApiInv, RegistrationStands, Registered, TokenVouchesForUser
<1>8. ServedWhileValid' /\ KnownIsServed'
  BY <1>1, <1>2, <1>3 DEF ApiInv, ServedWhileValid, KnownIsServed, Protected
<1> QED
  BY <1>4, <1>5, <1>6, <1>7, <1>8 DEF ApiInv

LEMMA ReadInv == ASSUME ApiInv, NEW r \in Requests, GetMessage(r) \/ GetTenant(r) PROVE ApiInv'
<1>1. /\ UNCHANGED <<users, tenants, messages, partitioned, tokens, now, req, row, at, known>>
      /\ hit' = hit \/ hit' = hit \cup {r}
      /\ pc[r] = "handle" /\ req[r].op \in {"get", "tenant"}
      /\ \E code \in {400, 200, 404, 500} : /\ Respond(r, code)
                                            /\ req[r].op = "get" /\ code = 404 => messages[req[r].msg] # req[r].tenant
  BY DEF GetMessage, GetTenant, tableVars, At, Answer, StatementFails, Stored
<1>2. /\ pc' \in [Requests -> {"idle", "lookup", "insert", "verify", "check", "recheck", "handle", "done"}]
      /\ resp' \in [Requests -> {0, 200, 201, 400, 401, 404, 409, 500}]
      /\ \A s \in Requests : (pc'[s] = "done") <=> (resp'[s] # 0)
      /\ \A s \in Requests : s # r => pc'[s] = pc[s] /\ resp'[s] = resp[s]
      /\ resp[r] = 0
  BY <1>1, Moved
<1>3. /\ pc'[r] = "done" /\ resp'[r] \in {400, 200, 404, 500}
      /\ req[r].op = "get" /\ resp'[r] = 404 => messages[req[r].msg] # req[r].tenant
  BY <1>1, <1>2 DEF Respond, ApiInv, TypeOK
<1>4. TypeOK'
  BY <1>1, <1>2 DEF ApiInv, TypeOK
<1>5. RequestOK'
  BY <1>1, <1>2, <1>3 DEF ApiInv, RequestOK, Protected
<1>6. TenantExists' /\ TokensDated' /\ RowRead' /\ KnownStays'
  BY <1>1, <1>2, <1>3 DEF ApiInv, TenantExists, TokensDated, RowRead, KnownStays
<1>7. RegistrationStands' /\ TokenVouchesForUser'
  BY <1>1, <1>2, <1>3 DEF ApiInv, RegistrationStands, Registered, TokenVouchesForUser
<1>8. ServedWhileValid'
  BY <1>1, <1>2, <1>3 DEF ApiInv, ServedWhileValid, Protected
<1>9. KnownIsServed'
  BY <1>1, <1>2, <1>3 DEF ApiInv, KnownIsServed, KnownStays
<1> QED
  BY <1>4, <1>5, <1>6, <1>7, <1>8, <1>9 DEF ApiInv

(* POST /messages stores a row only under an id that is free.                 *)
LEMMA CreateMessageInv == ASSUME ApiInv, NEW r \in Requests, CreateMessage(r) PROVE ApiInv'
<1>1. /\ UNCHANGED <<users, tenants, partitioned, tokens, now, req, row, at, known>>
      /\ hit' = hit \/ hit' = hit \cup {r}
      /\ pc[r] = "handle" /\ req[r].op = "post"
      /\ \E code \in {400, 500, 201} : Respond(r, code)
      /\ \/ messages' = messages
         \/ messages[req[r].msg] = None /\ messages' = [messages EXCEPT ![req[r].msg] = req[r].tenant]
  BY DEF CreateMessage, At, StatementFails
<1>2. /\ pc' \in [Requests -> {"idle", "lookup", "insert", "verify", "check", "recheck", "handle", "done"}]
      /\ resp' \in [Requests -> {0, 200, 201, 400, 401, 404, 409, 500}]
      /\ \A s \in Requests : (pc'[s] = "done") <=> (resp'[s] # 0)
      /\ \A s \in Requests : s # r => pc'[s] = pc[s] /\ resp'[s] = resp[s]
      /\ resp[r] = 0
  BY <1>1, Moved
<1>3. pc'[r] = "done" /\ resp'[r] \in {400, 500, 201}
  BY <1>1, <1>2 DEF Respond, ApiInv, TypeOK
<1>4. req[r].tenant \in Tenants /\ req[r].msg \in Messages
  BY <1>1 DEF ApiInv, RequestOK, Protected
<1>5. messages' \in [Messages -> Tenants \cup {None}]
  BY <1>1, <1>4 DEF ApiInv, TypeOK
<1>6. \A m \in Messages : messages[m] # None => messages'[m] = messages[m]
  BY <1>1, <1>4 DEF ApiInv, TypeOK
<1>7. TypeOK'
  BY <1>1, <1>2, <1>5 DEF ApiInv, TypeOK
<1>8. RequestOK'
  BY <1>1, <1>2, <1>3 DEF ApiInv, RequestOK, Protected
<1>9. TenantExists' /\ TokensDated' /\ RowRead'
  BY <1>1, <1>2, <1>3 DEF ApiInv, TenantExists, TokensDated, RowRead
<1>10. KnownStays'
  BY <1>1, <1>6, NoneAssumption DEF ApiInv, KnownStays, RequestOK, Protected
<1>11. RegistrationStands' /\ TokenVouchesForUser'
  BY <1>1, <1>2, <1>3 DEF ApiInv, RegistrationStands, Registered, TokenVouchesForUser
<1>12. ServedWhileValid' /\ KnownIsServed'
  BY <1>1, <1>2, <1>3 DEF ApiInv, ServedWhileValid, KnownIsServed, Protected
<1> QED
  BY <1>7, <1>8, <1>9, <1>10, <1>11, <1>12 DEF ApiInv
-----------------------------------------------------------------------------
(* The middleware: exp lies between JWT_EXPIRY less a second and JWT_EXPIRY   *)
(* after the login.                                                           *)
LEMMA JWTMiddlewareInv == ASSUME ApiInv, NEW r \in Requests, JWTMiddleware(r) PROVE ApiInv'
<1> DEFINE k == req[r].token
           valid == k # NoToken /\ now < k.exp
<1>1. /\ UNCHANGED <<users, tenants, messages, partitioned, tokens, now, req, row, known, hit>>
      /\ pc[r] \in {"check", "recheck"}
      /\ at' = [at EXCEPT ![r] = now]
      /\ \/ ~valid /\ Respond(r, 401)
         \/ valid /\ \E step \in {"recheck", "handle"} : Goto(r, step)
  BY DEF JWTMiddleware, tableVars
<1>2. /\ pc' \in [Requests -> {"idle", "lookup", "insert", "verify", "check", "recheck", "handle", "done"}]
      /\ resp' \in [Requests -> {0, 200, 201, 400, 401, 404, 409, 500}]
      /\ \A s \in Requests : (pc'[s] = "done") <=> (resp'[s] # 0)
      /\ \A s \in Requests : s # r => pc'[s] = pc[s] /\ resp'[s] = resp[s]
      /\ resp[r] = 0
  BY <1>1, Moved
<1>3. /\ Protected(r)
      /\ k \in tokens \cup {NoToken}
      /\ at'[r] = now
      /\ \A s \in Requests : s # r => at'[s] = at[s]
      /\ \/ ~valid /\ pc'[r] = "done" /\ resp'[r] = 401
         \/ valid /\ pc'[r] \in {"recheck", "handle"} /\ resp'[r] = 0
  BY <1>1, <1>2 DEF ApiInv, TypeOK, RequestOK, Protected, Respond, Goto
<1>4. k \in tokens =>
        /\ k.issued <= now
        /\ now < k.exp => now < k.issued + Expiry
        /\ ~(now < k.exp) => now > k.issued + Expiry - SecondTicks
  <2> SUFFICES ASSUME k \in tokens
               PROVE  /\ k.issued <= now
                      /\ now < k.exp => now < k.issued + Expiry
                      /\ ~(now < k.exp) => now > k.issued + Expiry - SecondTicks
    OBVIOUS
  <2>1. k \in Token /\ now \in Int
    BY ApiAssumption DEF ApiInv, TypeOK
  <2>2. k.issued \in Int /\ Expiry \in Int /\ SecondTicks \in Int
    BY <2>1, TokenFields, ApiAssumption
  <2>3. k.exp = WholeSecond(k.issued + Expiry) /\ k.issued <= now
    BY DEF ApiInv, TokensDated, ExpiresAt
  <2>4. /\ k.exp \in Int /\ k.exp <= k.issued + Expiry
        /\ k.issued + Expiry - SecondTicks < k.exp
    BY <2>2, <2>3, SecondBounds
  <2> QED
    BY <2>1, <2>2, <2>3, <2>4
<1> HIDE DEF k, valid
<1>5. TypeOK'
  <2>1. at' \in [Requests -> 0..MaxTime]
    BY <1>1 DEF ApiInv, TypeOK
  <2> QED
    BY <1>1, <1>2, <2>1 DEF ApiInv, TypeOK
<1>6. RequestOK'
  BY <1>1, <1>2, <1>3 DEF ApiInv, RequestOK, Protected
<1>7. TenantExists' /\ TokensDated' /\ RowRead' /\ KnownStays'
  BY <1>1, <1>2, <1>3 DEF ApiInv, TenantExists, TokensDated, RowRead, KnownStays
<1>8. RegistrationStands' /\ TokenVouchesForUser'
  BY <1>1, <1>2, <1>3 DEF ApiInv, RegistrationStands, Registered, TokenVouchesForUser
<1>9. ServedWhileValid'
  BY <1>1, <1>2, <1>3, <1>4 DEF ApiInv, ServedWhileValid, Protected, k, valid
<1>10. KnownIsServed'
  BY <1>1, <1>2, <1>3 DEF ApiInv, KnownIsServed, Protected
<1> QED
  BY <1>5, <1>6, <1>7, <1>8, <1>9, <1>10 DEF ApiInv

(* The INSERT: it finds the name free and the tenant there, or stores         *)
(* nothing. So it changes no account that a login, a token or an earlier      *)
(* registration is about.                                                     *)
LEMMA CreateUserInv == ASSUME ApiInv, NEW r \in Requests, CreateUser(r) PROVE ApiInv'
<1> DEFINE q == req[r]
           new == [pw |-> q.pw, tenant |-> q.tenant, role |-> RoleOrDefault(q.role)]
<1>1. /\ UNCHANGED <<tenants, messages, partitioned, tokens, now, req, row, at, known>>
      /\ hit' = hit \/ hit' = hit \cup {r}
      /\ pc[r] = "insert" /\ q.op = "register"
      /\ \E code \in {201, 500} : Respond(r, code)
      /\ \/ users' = users
         \/ users[q.name] = None /\ q.tenant \in tenants /\ users' = [users EXCEPT ![q.name] = new]
  BY DEF CreateUser, At, StatementFails, InsertUser, Insertable
<1>2. /\ pc' \in [Requests -> {"idle", "lookup", "insert", "verify", "check", "recheck", "handle", "done"}]
      /\ resp' \in [Requests -> {0, 200, 201, 400, 401, 404, 409, 500}]
      /\ \A s \in Requests : (pc'[s] = "done") <=> (resp'[s] # 0)
      /\ \A s \in Requests : s # r => pc'[s] = pc[s] /\ resp'[s] = resp[s]
      /\ resp[r] = 0
  BY <1>1, Moved
<1>3. /\ pc'[r] = "done" /\ resp'[r] \in {201, 500}
      /\ resp'[r] = 201 => /\ users[q.name] = None /\ q.tenant \in tenants
                           /\ users' = [users EXCEPT ![q.name] = new]
  BY <1>2 DEF CreateUser, InsertUser, Insertable, Respond, ApiInv, TypeOK
<1>4. /\ q.name \in Names /\ new \in UserRow
      /\ new.pw = q.pw /\ new.tenant = q.tenant /\ new.role = RoleOrDefault(q.role)
  BY <1>1 DEF ApiInv, RequestOK, UserRow, RoleOrDefault, StoredRole
<1> HIDE DEF new, q
<1>5. /\ users' \in [Names -> UserRow \cup {None}]
      /\ \A n \in Names : users[n] # None => users'[n] = users[n]
      /\ \A n \in Names : users'[n] = users[n] \/ (users'[n] = new /\ q.tenant \in tenants)
  BY <1>1, <1>4 DEF ApiInv, TypeOK
<1>6. TypeOK'
  BY <1>1, <1>2, <1>5 DEF ApiInv, TypeOK
<1>7. RequestOK'
  BY <1>1, <1>2, <1>3 DEF ApiInv, RequestOK, Protected, q
<1>8. TenantExists' /\ TokensDated'
  BY <1>1, <1>4, <1>5 DEF ApiInv, TenantExists, TokensDated
<1>9. RowRead'
  <2>1. \A s \in Requests : pc[s] = "verify" => req[s].op = "login" /\ req[s].name \in Names
    BY DEF ApiInv, RequestOK, Protected
  <2>2. \A s \in Requests : pc'[s] = "verify" => s # r /\ pc[s] = "verify"
    BY <1>2, <1>3
  <2>3. \A s \in Requests : pc'[s] = "verify" => users'[req[s].name] = users[req[s].name]
    BY <1>5, <2>1, <2>2 DEF ApiInv, RowRead
  <2> QED
    BY <1>1, <2>2, <2>3 DEF ApiInv, RowRead
<1>10. KnownStays'
  BY <1>1, <1>5 DEF ApiInv, KnownStays, RequestOK
<1>11. RegistrationStands'
  <2>1. \A s \in Requests : Registered(s) => req[s].name \in Names /\ users[req[s].name] # None
    BY DEF ApiInv, RegistrationStands, Registered, RequestOK
  <2>2. \A s \in Requests \ {r} : Registered(s)' <=> Registered(s)
    BY <1>1, <1>2 DEF Registered
  <2>3. resp'[r] = 201 => /\ users'[q.name] = new /\ new # None
                          /\ \A s \in Requests : Registered(s) => req[s].name # q.name
    BY <1>3, <1>4, <2>1, NoneAssumption DEF ApiInv, TypeOK
  <2>4. \A s \in Requests \ {r} : Registered(s) => users'[req[s].name] = users[req[s].name]
    BY <1>5, <2>1
  <2> SUFFICES ASSUME NEW s \in Requests, Registered(s)'
               PROVE  /\ users'[req[s].name] # None
                      /\ users'[req[s].name].pw = req[s].pw
                      /\ users'[req[s].name].role = RoleOrDefault(req[s].role)
                      /\ users'[req[s].name].tenant = (IF req[s].tenant \in tenants THEN req[s].tenant ELSE Null)
                      /\ \A t \in Requests \ {s} : Registered(t)' => req[t].name # req[s].name
    BY <1>1 DEF RegistrationStands
  <2>5. CASE s = r
    BY <1>1, <1>3, <1>4, <2>2, <2>3, <2>5 DEF Registered, q
  <2>6. CASE s # r
    <3>1. Registered(s) /\ users'[req[s].name] = users[req[s].name]
      BY <2>2, <2>4, <2>6
    <3>2. \A t \in Requests \ {s} : Registered(t)' => req[t].name # req[s].name
      BY <1>1, <2>2, <2>3, <3>1 DEF ApiInv, RegistrationStands, Registered, q
    <3> QED
      BY <3>1, <3>2 DEF ApiInv, RegistrationStands
  <2> QED
    BY <2>5, <2>6
<1>12. TokenVouchesForUser'
  <2>1. \A k \in tokens : k.name \in Names
    BY TokenFields DEF ApiInv, TypeOK
  <2>2. \A k \in tokens : users'[k.name] = users[k.name]
    BY <1>5, <2>1 DEF ApiInv, TokenVouchesForUser
  <2>3. \A s \in Requests : resp[s] = 200 => resp'[s] = 200
    BY <1>2
  <2> QED
    BY <1>1, <2>2, <2>3 DEF ApiInv, TokenVouchesForUser
<1>13. ServedWhileValid'
  BY <1>1, <1>2, <1>3 DEF ApiInv, ServedWhileValid, Protected, q
<1>14. KnownIsServed'
  <2>1. \A s \in Requests : known[s] /\ req[s].op = "login" => users'[req[s].name] = users[req[s].name]
    BY <1>5 DEF ApiInv, KnownStays, RequestOK
  <2> QED
    BY <1>1, <1>2, <2>1 DEF ApiInv, KnownIsServed, q
<1> QED
  BY <1>6, <1>7, <1>8, <1>9, <1>10, <1>11, <1>12, <1>13, <1>14 DEF ApiInv
-----------------------------------------------------------------------------
(* Login reads a row that can be read, or answers. A user who was there when  *)
(* the request arrived is not missing.                                        *)
LEMMA LoginInv == ASSUME ApiInv, NEW r \in Requests, Login(r) PROVE ApiInv'
<1> DEFINE u == users[req[r].name]
<1>1. /\ UNCHANGED <<users, tenants, messages, partitioned, tokens, now, req, at, known>>
      /\ hit' = hit \/ hit' = hit \cup {r}
      /\ pc[r] = "lookup" /\ req[r].op = "login"
      /\ (\E code \in {400, 401, 500} : Respond(r, code)) \/ Goto(r, "verify")
  BY DEF Login, tableVars, At, Lookup, StatementFails
<1>2. /\ pc' \in [Requests -> {"idle", "lookup", "insert", "verify", "check", "recheck", "handle", "done"}]
      /\ resp' \in [Requests -> {0, 200, 201, 400, 401, 404, 409, 500}]
      /\ \A s \in Requests : (pc'[s] = "done") <=> (resp'[s] # 0)
      /\ \A s \in Requests : s # r => pc'[s] = pc[s] /\ resp'[s] = resp[s]
      /\ resp[r] = 0
  BY <1>1, Moved
<1>3. req[r].name \in Names
  BY <1>1 DEF ApiInv, RequestOK
<1>4. /\ \/ pc'[r] = "done" /\ row' = row
         \/ pc'[r] = "verify" /\ u # None /\ u.tenant # Null /\ row' = [row EXCEPT ![r] = u]
      /\ resp'[r] \in {0, 400, 401, 500}
      /\ resp'[r] = 401 => u = None
      /\ resp'[r] = 500 => r \in hit' \/ (u # None /\ u.tenant = Null)
  BY <1>2 DEF Login, Lookup, GetByUsername, StatementFails, Respond, Goto, ApiInv, TypeOK
<1>5. /\ row' \in [Requests -> UserRow \cup {None}]
      /\ \A s \in Requests : s # r => row'[s] = row[s]
      /\ pc'[r] = "verify" => /\ row'[r] = u /\ u \in UserRow /\ u.tenant \in tenants
                              /\ u.tenant \in Tenants
  <2>1. u \in UserRow \cup {None}
    BY <1>3 DEF ApiInv, TypeOK
  <2>2. u # None => u.tenant \in tenants \cup {Null}
    BY <1>3 DEF ApiInv, TenantExists
  <2> QED
    BY <1>4, <2>1, <2>2 DEF ApiInv, TypeOK
<1>6. TypeOK'
  BY <1>1, <1>2, <1>5 DEF ApiInv, TypeOK
<1>7. RequestOK'
  BY <1>1, <1>2, <1>4 DEF ApiInv, RequestOK, Protected
<1>8. TenantExists' /\ TokensDated' /\ KnownStays'
  BY <1>1 DEF ApiInv, TenantExists, TokensDated, KnownStays
<1>9. RowRead'
  BY <1>1, <1>2, <1>4, <1>5 DEF ApiInv, RowRead
<1>10. RegistrationStands' /\ TokenVouchesForUser'
  BY <1>1, <1>2, <1>4 DEF ApiInv, RegistrationStands, Registered, TokenVouchesForUser
<1>11. ServedWhileValid'
  BY <1>1, <1>2 DEF ApiInv, ServedWhileValid, Protected
<1>12. KnownIsServed'
  BY <1>1, <1>2, <1>4 DEF ApiInv, KnownIsServed, KnownStays
<1> QED
  BY <1>6, <1>7, <1>8, <1>9, <1>10, <1>11, <1>12 DEF ApiInv

(* The token says what the row said, and its login is answered 200.           *)
LEMMA IssueTokenInv == ASSUME ApiInv, NEW r \in Requests, IssueToken(r) PROVE ApiInv'
<1> DEFINE k == [name |-> req[r].name, tenant |-> row[r].tenant, role |-> row[r].role,
                 exp |-> ExpiresAt(now), issued |-> now]
           u == users[req[r].name]
<1>1. /\ UNCHANGED <<users, tenants, messages, partitioned, now, req, at, known, hit>>
      /\ row' = [row EXCEPT ![r] = None]
      /\ pc[r] = "verify" /\ req[r].op = "login"
      /\ \/ row[r].pw # req[r].pw /\ Respond(r, 401) /\ tokens' = tokens
         \/ row[r].pw = req[r].pw /\ Respond(r, 200) /\ tokens' = tokens \cup {k}
  BY DEF IssueToken, tableVars, histVars, At, VerifyPassword
<1>2. /\ pc' \in [Requests -> {"idle", "lookup", "insert", "verify", "check", "recheck", "handle", "done"}]
      /\ resp' \in [Requests -> {0, 200, 201, 400, 401, 404, 409, 500}]
      /\ \A s \in Requests : (pc'[s] = "done") <=> (resp'[s] # 0)
      /\ \A s \in Requests : s # r => pc'[s] = pc[s] /\ resp'[s] = resp[s]
      /\ resp[r] = 0
  BY <1>1, Moved
<1>3. /\ pc'[r] = "done"
      /\ \/ row[r].pw # req[r].pw /\ resp'[r] = 401 /\ tokens' = tokens
         \/ row[r].pw = req[r].pw /\ resp'[r] = 200 /\ tokens' = tokens \cup {k}
  BY <1>1 DEF Respond, ApiInv, TypeOK
<1>4. /\ req[r].name \in Names
      /\ row[r] \in UserRow /\ row[r].tenant \in Tenants
      /\ u # None /\ u.pw = row[r].pw /\ u.role = row[r].role
      /\ u.tenant = (IF row[r].tenant \in tenants THEN row[r].tenant ELSE Null)
      /\ req[r] = [op |-> "login", name |-> req[r].name, pw |-> req[r].pw]
  BY <1>1 DEF ApiInv, RequestOK, RowRead
<1>5. /\ k \in Token /\ k.exp = ExpiresAt(k.issued) /\ k.issued = now
      /\ k.name = req[r].name /\ k.tenant = row[r].tenant /\ k.role = row[r].role
  <2>1. now \in 0..MaxTime /\ now \in Int
    BY ApiAssumption DEF ApiInv, TypeOK
  <2>2. ExpiresAt(now) \in Int
    BY <2>1, SecondBounds, ApiAssumption DEF ExpiresAt
  <2>3. row[r].role \in StoredRole
    BY <1>4 DEF UserRow
  <2> QED
    BY <1>4, <2>1, <2>2, <2>3 DEF Token
<1> HIDE DEF k
<1>6. TypeOK'
  <2>1. row' \in [Requests -> UserRow \cup {None}] /\ tokens' \subseteq Token
    BY <1>1, <1>5 DEF ApiInv, TypeOK
  <2> QED
    BY <1>1, <1>2, <2>1 DEF ApiInv, TypeOK
<1>7. RequestOK'
  BY <1>1, <1>2, <1>3 DEF ApiInv, RequestOK, Protected
<1>8. TenantExists' /\ KnownStays'
  BY <1>1 DEF ApiInv, TenantExists, KnownStays
<1>9. TokensDated'
  <2>1. now <= now
    BY ApiAssumption DEF ApiInv, TypeOK
  <2> QED
    BY <1>1, <1>3, <1>5, <2>1 DEF ApiInv, TokensDated
<1>10. RowRead'
  <2>1. \A s \in Requests : s # r => row'[s] = row[s]
    BY <1>1 DEF ApiInv, TypeOK
  <2> QED
    BY <1>1, <1>2, <1>3, <2>1 DEF ApiInv, RowRead
<1>11. RegistrationStands'
  BY <1>1, <1>2, <1>3 DEF ApiInv, RegistrationStands, Registered
<1>12. TokenVouchesForUser'
  <2>1. \A s \in Requests : resp[s] = 200 => resp'[s] = 200
    BY <1>2
  <2>2. \A j \in tokens : \E s \in Requests :
          req[s] = [op |-> "login", name |-> j.name, pw |-> users[j.name].pw] /\ resp'[s] = 200
    BY <2>1 DEF ApiInv, TokenVouchesForUser
  <2>3. tokens' # tokens =>
          req[r] = [op |-> "login", name |-> k.name, pw |-> users[k.name].pw] /\ resp'[r] = 200
    BY <1>3, <1>4, <1>5
  <2> QED
    BY <1>1, <1>3, <1>4, <1>5, <2>2, <2>3 DEF ApiInv, TokenVouchesForUser
<1>13. ServedWhileValid'
  BY <1>1, <1>2, <1>3 DEF ApiInv, ServedWhileValid, Protected
<1>14. KnownIsServed'
  BY <1>1, <1>2, <1>3, <1>4 DEF ApiInv, KnownIsServed, KnownStays
<1> QED
  BY <1>6, <1>7, <1>8, <1>9, <1>10, <1>11, <1>12, <1>13, <1>14 DEF ApiInv

(* The deletion of a tenant takes nothing from an account but the tenant.     *)
LEMMA DeleteTenantInv == ASSUME ApiInv, NEW t \in Tenants, DeleteTenant(t) PROVE ApiInv'
<1>1. /\ UNCHANGED <<messages, partitioned, tokens, now, req, pc, resp, row, at, known, hit>>
      /\ tenants' = tenants \ {t}
      /\ users' = OrphanedUsers(t)
      /\ t # Null
  BY ApiAssumption DEF DeleteTenant, histVars
<1>2. /\ users' \in [Names -> UserRow \cup {None}]
      /\ \A n \in Names :
           /\ users'[n] = None <=> users[n] = None
           /\ users[n] # None => /\ users'[n].pw = users[n].pw /\ users'[n].role = users[n].role
                                 /\ users'[n].tenant = IF users[n].tenant = t THEN Null ELSE users[n].tenant
  <2>1. \A n \in Names : users[n] \in UserRow \cup {None}
    BY DEF ApiInv, TypeOK
  <2>2. \A u \in UserRow : LET v == [u EXCEPT !.tenant = Null] IN
          v \in UserRow /\ v.pw = u.pw /\ v.role = u.role /\ v.tenant = Null
    BY DEF UserRow
  <2>3. users' = [n \in Names |-> IF users[n] = None \/ users[n].tenant # t THEN users[n]
                                  ELSE [users[n] EXCEPT !.tenant = Null]]
    BY <1>1 DEF OrphanedUsers
  <2> QED
    BY <2>1, <2>2, <2>3, NoneAssumption
<1>3. TypeOK'
  BY <1>1, <1>2 DEF ApiInv, TypeOK
<1>4. RequestOK' /\ TokensDated' /\ ServedWhileValid'
  BY <1>1 DEF ApiInv, RequestOK, TokensDated, ServedWhileValid, Protected
<1>5. TenantExists'
  BY <1>1, <1>2 DEF ApiInv, TenantExists
<1>6. \A s \in Requests : req[s].op \in {"register", "login"} => req[s].name \in Names
  BY DEF ApiInv, RequestOK
<1>7. RowRead'
  <2>1. \A s \in Requests : pc[s] = "verify" => req[s].op = "login"
    BY DEF ApiInv, RequestOK, Protected
  <2> QED
    BY <1>1, <1>2, <1>6, <2>1 DEF ApiInv, RowRead
<1>8. KnownStays' /\ KnownIsServed'
  BY <1>1, <1>2, <1>6 DEF ApiInv, KnownStays, KnownIsServed
<1>9. RegistrationStands'
  BY <1>1, <1>2, <1>6 DEF ApiInv, RegistrationStands, Registered
<1>10. TokenVouchesForUser'
  <2>1. \A k \in tokens : k.name \in Names /\ k.tenant \in Tenants
    BY TokenFields DEF ApiInv, TypeOK
  <2> QED
    BY <1>1, <1>2, <2>1 DEF ApiInv, TokenVouchesForUser
<1> QED
  BY <1>3, <1>4, <1>5, <1>7, <1>8, <1>9, <1>10 DEF ApiInv

-----------------------------------------------------------------------------
LEMMA ApiStutter == ASSUME ApiInv, UNCHANGED vars PROVE ApiInv'
<1>1. UNCHANGED <<users, tenants, messages, partitioned, tokens, now, req, pc, resp, row, at, known, hit>>
  BY DEF vars, tableVars, histVars
<1>2. TypeOK'
  BY <1>1 DEF ApiInv, TypeOK
<1> QED
  BY <1>1, <1>2 DEF ApiInv, RequestOK, TenantExists, TokensDated, RowRead, KnownStays, RegistrationStands,
       TokenVouchesForUser, ServedWhileValid, KnownIsServed, Registered, Protected

LEMMA ApiInvariant == Spec => []ApiInv
<1>1. ApiInv /\ [Next]_vars => ApiInv'
  <2> SUFFICES ASSUME ApiInv, [Next]_vars PROVE ApiInv'
    OBVIOUS
  <2>1. CASE UNCHANGED vars
    BY <2>1, ApiStutter
  <2>2. ASSUME NEW r \in Requests, Handle(r) PROVE ApiInv'
    BY <2>2, RegisterInv, CreateUserInv, LoginInv, IssueTokenInv, JWTMiddlewareInv, CreateMessageInv, ReadInv
       DEF Handle
  <2> QED
    BY <2>1, <2>2, TickInv, ArriveInv, DeleteTenantInv DEF Next
<1> QED
  BY <1>1, ApiInit, PTL DEF Spec

(* Tables, tokens and answers keep their types; a stored role is never empty, *)
(* and a request is done exactly when it was answered.                        *)
THEOREM ApiTypes == Spec => []TypeOK
BY ApiInvariant, PTL DEF ApiInv

(* Of all registrations of a name one at most is answered 201, and what it    *)
(* stored stays.                                                              *)
THEOREM RegistrationsStand == Spec => []RegistrationStands
BY ApiInvariant, PTL DEF ApiInv

(* Whatever comes between the reading of the row and the issue of the token,  *)
(* a token carries the claims of a user who logged in with the password the   *)
(* table holds.                                                               *)
THEOREM TokensVouch == Spec => []TokenVouchesForUser
BY ApiInvariant, PTL DEF ApiInv

(* For every JWT_EXPIRY and every resolution of the clock, a request is       *)
(* served with a token no older than JWT_EXPIRY, and none is refused with one *)
(* younger than that less a second.                                           *)
THEOREM ServedInTime == Spec => []ServedWhileValid
BY ApiInvariant, PTL DEF ApiInv

(* What was stored before a request arrived serves it.                        *)
THEOREM KnownServed == Spec => []KnownIsServed
BY ApiInvariant, PTL DEF ApiInv
=============================================================================
