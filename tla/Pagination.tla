----------------------------- MODULE Pagination -----------------------------
(***************************************************************************)
(* The two lists: GET /messages with a cursor (ListMessages of             *)
(* handler/message_handler.go and of service/tenant_service.go) and        *)
(* GET /tenants with an offset (ListTenants of handler/tenant_handler.go   *)
(* and of the service). A client asks for page after page to the end,      *)
(* while rows are created and tenants deleted.                             *)
(*                                                                         *)
(* Time is counted in ticks, SecondTicks to a second. The cursor is a      *)
(* created_at formatted as RFC 3339 without fractions: the client gets it  *)
(* cut to whole seconds.                                                   *)
(***************************************************************************)
EXTENDS Integers, FiniteSets

CONSTANTS
  Ids,          \* row ids, ordered as the database orders them
  SecondTicks,  \* ticks per second
  MaxTime,      \* bound: the clock
  CommitLag,    \* how long after its NOW() an INSERT may become visible
  Limits,       \* the limits a client may ask for
  MaxLimit,     \* 100: the handler's and the service's cap
  DefaultLimit  \* 20: the service's default for tenants

ASSUME PaginationAssumption ==
  /\ Ids \subseteq Int /\ IsFiniteSet(Ids)
  /\ SecondTicks \in Nat \ {0}
  /\ MaxTime \in Nat
  /\ CommitLag \in Nat
  /\ Limits \subseteq Int
  /\ MaxLimit \in Nat \ {0} /\ DefaultLimit \in 1..MaxLimit

NoCursor == -1

VARIABLES
  list,     \* what is listed: "messages" or "tenants"
  rows,     \* ids of the rows in its table
  at,       \* created_at of each
  now,      \* the database's clock
  limit,    \* the client's limit parameter
  cursor,   \* its cursor parameter for the next request
  garbled,  \* its cursors do not parse when they come back
  offset,   \* its offset parameter
  cursors,  \* history: the cursors it was given
  existed,  \* history: the rows there were at its first request
  seen,     \* history: the rows it was given
  again,    \* history: it was given a row twice
  created, deleted,  \* history: rows came or went while it paged
  client    \* "idle", "paging" or "done"

tableVars  == <<rows, at, now>>
inputVars  == <<list, limit, garbled>>
clientVars == <<cursor, offset, cursors, existed, seen, again, client>>
vars       == <<tableVars, inputVars, clientVars, created, deleted>>

-----------------------------------------------------------------------------
(* The limit after the handler's clamp and the service's.                     *)
EffectiveLimit(l) == IF l > MaxLimit THEN MaxLimit ELSE IF l < 1 THEN 1 ELSE l
TenantLimit(l) == IF l <= 0 THEN DefaultLimit ELSE IF l > MaxLimit THEN MaxLimit ELSE l

(* ORDER BY created_at DESC, id DESC LIMIT n.                                 *)
Before(q, r) == at[q] > at[r] \/ (at[q] = at[r] /\ q > r)
Newest(n, S) == {r \in S : Cardinality({q \in S : Before(q, r)}) < n}

(* A cursor that time.Parse refuses counts as none: an offset of the time     *)
(* zone whose + the client left unescaped comes back as a space.              *)
Parsed == IF garbled THEN NoCursor ELSE cursor

(* WHERE created_at < cursor, when there is one.                              *)
MatchingClosed == {r \in rows : Parsed = NoCursor \/ at[r] <= Parsed}
Matching == {r \in rows : Parsed = NoCursor \/ at[r] < Parsed}

(* limit + 1 rows are read to see whether there are more than limit.          *)
HasMoreLate(n) == Cardinality(Newest(n + 2, Matching)) > n + 1
HasMore(n) == Cardinality(Newest(n + 1, Matching)) > n

(* time.Parse and Format with time.RFC3339: the fraction is gone.             *)
RoundUp(t) == (t \div SecondTicks + 1) * SecondTicks
Truncate(t) == (t \div SecondTicks) * SecondTicks

Oldest(S) == CHOOSE r \in S : \A q \in S : q = r \/ Before(q, r)

(* ORDER BY created_at DESC LIMIT n OFFSET k: rows of one created_at come in  *)
(* any order, another one at every query.                                     *)
NewerFirst(S, T) == \A q \in S, r \in T : at[q] >= at[r]
WithoutOffset(k, n) ==
  {page \in SUBSET rows : /\ Cardinality(page) = n \/ (Cardinality(page) < n /\ page = rows)
                         /\ NewerFirst(page, rows \ page)}
Unordered(k, n) ==
  {page \in SUBSET rows : \E skipped \in SUBSET (rows \ page) :
     /\ Cardinality(skipped) = IF k < Cardinality(rows) THEN k ELSE Cardinality(rows)
     /\ Cardinality(page) = n \/ (Cardinality(page) < n /\ page \cup skipped = rows)}
Pages(k, n) ==
  {page \in SUBSET rows : \E skipped \in SUBSET (rows \ page) :
     /\ Cardinality(skipped) = IF k < Cardinality(rows) THEN k ELSE Cardinality(rows)
     /\ Cardinality(page) = n \/ (Cardinality(page) < n /\ page \cup skipped = rows)
     /\ NewerFirst(skipped, rows \ skipped) /\ NewerFirst(page, rows \ (skipped \cup page))}

-----------------------------------------------------------------------------
Init ==
  /\ list \in {"messages", "tenants"}
  /\ rows = {}
  /\ at = [r \in Ids |-> 0]
  /\ now = 0
  /\ limit \in Limits
  /\ garbled \in (IF list = "messages" THEN BOOLEAN ELSE {FALSE})
  /\ cursor = NoCursor /\ cursors = {}
  /\ offset = 0
  /\ existed = {} /\ seen = {}
  /\ again = FALSE /\ created = FALSE /\ deleted = FALSE
  /\ client = "idle"

(* Nothing happens that matters once the client is done.                      *)
Tick ==
  /\ now < MaxTime /\ client # "done"
  /\ now' = now + 1
  /\ UNCHANGED <<rows, at, inputVars, clientVars, created, deleted>>

(* CreateMessage and CreateTenant draw a fresh UUID; created_at is the NOW()  *)
(* of the INSERT's transaction, which commits up to CommitLag later.          *)
Create(r) ==
  /\ client # "done"
  /\ r \in Ids \ (rows \cup existed \cup seen)
  /\ rows' = rows \cup {r}
  /\ \E t \in {u \in 0..now : now - u <= CommitLag} : at' = [at EXCEPT ![r] = t]
  /\ created' = (created \/ client = "paging")
  /\ UNCHANGED <<now, inputVars, clientVars, deleted>>

DeleteTenant(r) ==
  /\ list = "tenants" /\ client = "paging"
  /\ r \in rows
  /\ rows' = rows \ {r}
  /\ deleted' = TRUE
  /\ UNCHANGED <<at, now, inputVars, clientVars, created>>

Receive(page) ==
  /\ existed' = IF client = "idle" THEN rows ELSE existed
  /\ again' = (again \/ page \cap seen # {})
  /\ seen' = seen \cup page
  /\ UNCHANGED <<tableVars, inputVars, created, deleted>>

(* One request: the page, has_more and next_cursor. The client asks again     *)
(* with next_cursor while has_more.                                           *)
ListMessages ==
  LET n    == EffectiveLimit(limit)
      page == Newest(n, Matching)
  IN /\ list = "messages" /\ client # "done"
     /\ Receive(page)
     /\ cursor' = IF page = {} THEN NoCursor ELSE Truncate(at[Oldest(page)])
     /\ cursors' = cursors \cup {cursor'}
     /\ client' = IF HasMore(n) THEN "paging" ELSE "done"
     /\ UNCHANGED offset

(* One request: the page alone. The client asks again with the offset moved   *)
(* by what it got, until it gets nothing.                                     *)
ListTenants ==
  /\ list = "tenants" /\ client # "done"
  /\ \E page \in Pages(offset, TenantLimit(limit)) :
       /\ Receive(page)
       /\ offset' = offset + Cardinality(page)
       /\ client' = IF page = {} THEN "done" ELSE "paging"
  /\ UNCHANGED <<cursor, cursors>>

Next ==
  \/ Tick \/ ListMessages \/ ListTenants
  \/ \E r \in Ids : Create(r) \/ DeleteTenant(r)

(* The client that began to page goes on.                                     *)
Spec == Init /\ [][Next]_vars /\ WF_vars(client = "paging" /\ (ListMessages \/ ListTenants))

-----------------------------------------------------------------------------
(* Type invariant; the offset never runs past the rows there have ever been.  *)
TypeOK ==
  /\ list \in {"messages", "tenants"}
  /\ rows \subseteq Ids
  /\ at \in [Ids -> 0..MaxTime]
  /\ now \in 0..MaxTime
  /\ limit \in Limits
  /\ cursors \subseteq {NoCursor} \cup 0..MaxTime
  /\ cursor \in cursors \cup {NoCursor}
  /\ offset \in 0..Cardinality(Ids)
  /\ existed \subseteq Ids /\ seen \subseteq Ids
  /\ {garbled, again, created, deleted} \subseteq BOOLEAN
  /\ client \in {"idle", "paging", "done"}

(* No message is listed twice, whatever is created between two pages, if the  *)
(* cursors come back as they were given.                                      *)
NoDuplicates == again /\ list = "messages" => garbled

(* What paging through messages misses: one that was there from the start and *)
(* was not listed was created within the second of some page's last message.  *)
MissedShareSecond ==
  client = "done" /\ list = "messages" => \A r \in existed \ seen :
    \E c \in cursors \ {NoCursor} : c <= at[r] /\ at[r] < c + SecondTicks

(* What paging through tenants by offset misses or repeats: a tenant that was *)
(* there throughout is missed only if another one was deleted meanwhile, and  *)
(* one is listed twice only if another one was created meanwhile; or if two   *)
(* have the same created_at, which leaves their order open.                   *)
Ties == \E q, r \in existed \cup rows : q # r /\ at[q] = at[r]
OffsetDrift ==
  list = "tenants" /\ ~Ties =>
    /\ client = "done" /\ (existed \cap rows) \ seen # {} => deleted
    /\ again => created

(* Paging ends, with an offset and with cursors that come back as given: the  *)
(* cursor only moves back in time, the offset only forward.                   *)
PagingEnds == client = "paging" /\ ~garbled ~> client = "done"
=============================================================================
