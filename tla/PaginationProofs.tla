-------------------------- MODULE PaginationProofs --------------------------
(***************************************************************************)
(* Proofs about the two lists, for any number of rows, any limits and any  *)
(* resolution of the clock.                                                *)
(***************************************************************************)
EXTENDS Pagination, FiniteSetTheorems, TLAPS

(* The phases of the client; rows go only in the list of tenants.             *)
PhaseInv ==
  /\ client = "idle" => /\ seen = {} /\ existed = {} /\ offset = 0 /\ cursor = NoCursor
                        /\ ~again /\ ~created /\ ~deleted
  /\ list = "messages" \/ ~deleted => existed \subseteq rows
  /\ client # "idle" /\ ~created => rows \subseteq existed

(* A cursor that comes back lies behind everything listed so far.             *)
CursorInv ==
  list = "messages" /\ ~garbled /\ client = "paging" =>
    cursor # NoCursor /\ \A r \in seen : at[r] >= cursor

(* A message not yet listed is within the second of some cursor or still      *)
(* ahead of the current one.                                                  *)
Near(r) == \E c \in cursors \ {NoCursor} : c <= at[r] /\ at[r] < c + SecondTicks
PendingInv ==
  list = "messages" /\ client # "idle" =>
    \A r \in existed \ seen :
      Near(r) \/ (client = "paging" /\ cursor # NoCursor /\ at[r] < cursor)

(* The place of a tenant in the list. While nothing is deleted, the tenants   *)
(* not yet listed are not among the ones the offset skips; while nothing is   *)
(* created, the ones listed are.                                              *)
Rank(r) == Cardinality({q \in rows : Before(q, r)})
AheadInv ==
  list = "tenants" /\ ~deleted /\ ~Ties =>
    \A r \in existed \ seen : Rank(r) >= offset /\ client # "done"
BehindInv ==
  list = "tenants" /\ ~created /\ ~Ties =>
    ~again /\ \A r \in seen \cap rows : Rank(r) < offset

PageInv ==
  /\ TypeOK /\ PhaseInv /\ CursorInv /\ NoDuplicates /\ PendingInv
  /\ AheadInv /\ BehindInv

-----------------------------------------------------------------------------
(* A cursor is the start of the second it was made from.                      *)
LEMMA Truncated ==
  ASSUME NEW t \in Nat
  PROVE  /\ Truncate(t) \in Nat
         /\ Truncate(t) <= t /\ t < Truncate(t) + SecondTicks
<1>1. SecondTicks \in Nat \ {0}
  BY PaginationAssumption
<1>2. t \div SecondTicks \in Nat
  BY <1>1
<1>3. (t \div SecondTicks) * SecondTicks <= t
  BY <1>1
<1>4. t < (t \div SecondTicks) * SecondTicks + SecondTicks
  BY <1>1
<1>5. \A d \in Nat : d * SecondTicks \in Nat
  BY <1>1
<1> QED
  BY <1>2, <1>3, <1>4, <1>5 DEF Truncate

(* ORDER BY created_at DESC, id DESC is a strict total order of the rows.     *)
LEMMA BeforeOrder ==
  ASSUME at \in [Ids -> Int]
  PROVE  /\ \A q \in Ids : ~Before(q, q)
         /\ \A q, r, s \in Ids : Before(q, r) /\ Before(r, s) => Before(q, s)
         /\ \A q, r \in Ids : q = r \/ Before(q, r) \/ Before(r, q)
BY PaginationAssumption DEF Before

(* So a set of rows that is not empty has a first and a last one.             *)
LEMMA Extremes ==
  ASSUME at \in [Ids -> Int], NEW S \in SUBSET Ids, S # {}
  PROVE  /\ \E r \in S : \A q \in S : q = r \/ Before(r, q)
         /\ \E r \in S : \A q \in S : q = r \/ Before(q, r)
<1> DEFINE newer(r) == {q \in S : Before(q, r)}
           older(r) == {q \in S : Before(r, q)}
           R == StrictSubsetOrdering(Ids)
<1>1. IsFiniteSet(Ids)
  BY PaginationAssumption
<1>2. IsWellFoundedOn(R, SUBSET Ids)
  BY <1>1, FS_StrictSubsetOrderingWellFounded, FS_FiniteSubsetsOfFinite
<1>3. \E r \in S : \A q \in S : q = r \/ Before(r, q)
  <2> DEFINE T == {newer(r) : r \in S}
  <2>1. T \subseteq SUBSET Ids /\ T # {}
    OBVIOUS
  <2>2. \E x \in T : \A y \in T : <<y, x>> \notin R
    <3> HIDE DEF T, R
    <3> QED
      BY <1>2, <2>1, WFMin
  <2>3. PICK r \in S : \A y \in T : <<y, newer(r)>> \notin R
    BY <2>2
  <2>4. ASSUME NEW q \in S, Before(q, r) PROVE FALSE
    <3>1. newer(q) \subseteq newer(r) /\ newer(q) # newer(r)
      BY <2>4, BeforeOrder
    <3>2. <<newer(q), newer(r)>> \in R
      BY <3>1 DEF StrictSubsetOrdering
    <3> QED
      BY <2>3, <3>2
  <2> QED
    BY <2>4, BeforeOrder
<1>4. \E r \in S : \A q \in S : q = r \/ Before(q, r)
  <2> DEFINE T == {older(r) : r \in S}
  <2>1. T \subseteq SUBSET Ids /\ T # {}
    OBVIOUS
  <2>2. \E x \in T : \A y \in T : <<y, x>> \notin R
    <3> HIDE DEF T, R
    <3> QED
      BY <1>2, <2>1, WFMin
  <2>3. PICK r \in S : \A y \in T : <<y, older(r)>> \notin R
    BY <2>2
  <2>4. ASSUME NEW q \in S, Before(r, q) PROVE FALSE
    <3>1. older(q) \subseteq older(r) /\ older(q) # older(r)
      BY <2>4, BeforeOrder
    <3>2. <<older(q), older(r)>> \in R
      BY <3>1 DEF StrictSubsetOrdering
    <3> QED
      BY <2>3, <3>2
  <2> QED
    BY <2>4, BeforeOrder
<1> QED
  BY <1>3, <1>4

(* Sets of rows are finite and can be counted.                                *)
LEMMA Counting ==
  ASSUME NEW S \in SUBSET Ids, NEW T \in SUBSET S
  PROVE  /\ IsFiniteSet(S) /\ Cardinality(S) \in Nat
         /\ IsFiniteSet(T) /\ Cardinality(T) \in Nat
         /\ Cardinality(T) <= Cardinality(S)
         /\ Cardinality(T) = Cardinality(S) => T = S
BY PaginationAssumption, FS_Subset, FS_CardinalityType

(* The query: a page is not empty when something matches, what it leaves out  *)
(* comes after all of it, and unless there is more it leaves out nothing.     *)
LEMMA PageOf ==
  ASSUME at \in [Ids -> Int], NEW S \in SUBSET Ids, NEW n \in Nat \ {0}
  PROVE  /\ Newest(n, S) \subseteq S
         /\ S # {} => Newest(n, S) # {}
         /\ \A r \in S \ Newest(n, S), o \in Newest(n, S) : Before(o, r)
         /\ Cardinality(Newest(n + 1, S)) <= n => Newest(n, S) = S
<1> DEFINE newer(r) == {q \in S : Before(q, r)}
<1>1. \A r \in Ids : newer(r) \subseteq S /\ IsFiniteSet(newer(r)) /\ Cardinality(newer(r)) \in Nat
  BY Counting
<1>2. \A m \in Nat : \A r : r \in Newest(m, S) <=> r \in S /\ Cardinality(newer(r)) < m
  BY DEF Newest
<1> HIDE DEF newer
<1>3. \A m \in Nat : Newest(m, S) \subseteq S
  BY <1>2
<1>4. ASSUME S # {} PROVE Newest(n, S) # {}
  <2>1. PICK r \in S : \A q \in S : q = r \/ Before(r, q)
    BY <1>4, Extremes
  <2>2. newer(r) = {}
    BY <2>1, BeforeOrder DEF newer
  <2>3. Cardinality(newer(r)) < n
    BY <2>2, FS_EmptySet
  <2> QED
    BY <1>2, <2>3
<1>5. ASSUME NEW r \in S \ Newest(n, S), NEW o \in Newest(n, S) PROVE Before(o, r)
  <2>1. r \in Ids /\ o \in S /\ r # o /\ Cardinality(newer(o)) < Cardinality(newer(r))
    BY <1>1, <1>2
  <2>2. ASSUME Before(r, o) PROVE FALSE
    <3>1. newer(r) \subseteq newer(o)
      BY <2>1, <2>2, BeforeOrder DEF newer
    <3>2. Cardinality(newer(r)) <= Cardinality(newer(o))
      BY <1>1, <2>1, <3>1, FS_Subset
    <3> QED
      BY <1>1, <2>1, <3>2
  <2> QED
    BY <2>1, <2>2, BeforeOrder
<1>6. ASSUME Cardinality(Newest(n + 1, S)) <= n, Newest(n, S) # S PROVE FALSE
  <2>1. PICK r \in S \ Newest(n, S) : \A q \in S \ Newest(n, S) : q = r \/ Before(r, q)
    <3>1. S \ Newest(n, S) # {} /\ S \ Newest(n, S) \in SUBSET Ids
      BY <1>3, <1>6
    <3> QED
      BY <3>1, Extremes
  <2>2. newer(r) \subseteq Newest(n, S) /\ r \notin newer(r) /\ Cardinality(newer(r)) >= n
    <3>1. newer(r) \subseteq Newest(n, S) /\ r \notin newer(r)
      BY <2>1, BeforeOrder DEF newer
    <3> QED
      BY <1>1, <1>2, <2>1, <3>1
  <2>3. newer(r) # {}
    BY <2>2, FS_EmptySet
  <2>4. PICK o \in newer(r) : \A q \in newer(r) : q = o \/ Before(q, o)
    <3>1. newer(r) \in SUBSET Ids
      BY <1>1, <2>1
    <3> QED
      BY <2>3, <3>1, Extremes
  <2>5. newer(o) = newer(r) \ {o}
    BY <2>1, <2>4, BeforeOrder DEF newer
  <2>6. Cardinality(newer(o)) = Cardinality(newer(r)) - 1
    <3>1. IsFiniteSet(newer(r))
      BY <1>1, <2>1
    <3>2. Cardinality(newer(r) \ {o}) = Cardinality(newer(r)) - 1
      BY <2>4, <3>1, FS_RemoveElement
    <3> QED
      BY <2>5, <3>2
  <2>7. Cardinality(newer(o)) < n
    BY <1>2, <2>2, <2>4
  <2>8. Cardinality(newer(r)) = n
    BY <1>1, <2>1, <2>2, <2>6, <2>7
  <2>9. newer(r) \cup {r} \subseteq Newest(n + 1, S)
    <3>1. \A q \in newer(r) : q \in S /\ Cardinality(newer(q)) < n
      BY <1>2, <2>2
    <3>2. \A q \in newer(r) : Cardinality(newer(q)) < n + 1
      BY <1>1, <3>1
    <3> QED
      BY <1>2, <2>1, <2>8, <3>1, <3>2
  <2>10. Cardinality(newer(r) \cup {r}) = n + 1
    BY <1>1, <2>1, <2>2, <2>8, FS_AddElement
  <2>11. Cardinality(newer(r) \cup {r}) <= Cardinality(Newest(n + 1, S)) /\ Cardinality(Newest(n + 1, S)) \in Nat
    <3>1. Newest(n + 1, S) \in SUBSET Ids
      BY <1>3
    <3> QED
      BY <2>9, <3>1, Counting
  <2> QED
    BY <1>6, <2>10, <2>11
<1> QED
  BY <1>3, <1>4, <1>5, <1>6

(* The limits after the clamps.                                               *)
LEMMA PageSizes ==
  ASSUME limit \in Limits
  PROVE  EffectiveLimit(limit) \in Nat \ {0} /\ TenantLimit(limit) \in Nat \ {0}
BY PaginationAssumption DEF EffectiveLimit, TenantLimit

(* LIMIT n OFFSET k: it never reaches past the table.                         *)
LEMMA OffsetInTable ==
  ASSUME rows \subseteq Ids, NEW k \in 0..Cardinality(Ids), NEW n \in Nat \ {0},
         NEW page \in Pages(k, n)
  PROVE  /\ page \subseteq rows /\ Cardinality(page) \in Nat
         /\ k + Cardinality(page) \in 0..Cardinality(Ids)
<1>1. PICK skipped \in SUBSET (rows \ page) :
        Cardinality(skipped) = IF k < Cardinality(rows) THEN k ELSE Cardinality(rows)
  BY DEF Pages
<1>2. page \subseteq rows
  BY DEF Pages
<1>3. /\ IsFiniteSet(skipped) /\ IsFiniteSet(page) /\ Cardinality(rows) <= Cardinality(Ids)
      /\ Cardinality(skipped) \in Nat /\ Cardinality(page) \in Nat
      /\ Cardinality(rows) \in Nat /\ Cardinality(Ids) \in Nat
  BY <1>2, Counting
<1>4. /\ Cardinality(skipped \cup page) = Cardinality(skipped) + Cardinality(page)
      /\ Cardinality(skipped \cup page) <= Cardinality(rows)
  <2>1. skipped \cap page = {} /\ Cardinality({}) = 0
    BY FS_EmptySet
  <2>2. Cardinality(skipped \cup page) = Cardinality(skipped) + Cardinality(page) - Cardinality(skipped \cap page)
    BY <1>3, FS_Union
  <2>3. skipped \cup page \in SUBSET rows
    BY <1>2
  <2>4. Cardinality(skipped \cup page) <= Cardinality(rows)
    BY <2>3, Counting
  <2> QED
    BY <1>3, <2>1, <2>2, <2>4
<1> QED
  BY <1>1, <1>2, <1>3, <1>4

(* Without ties it skips the tenants of the first k places and returns the    *)
(* ones of the next.                                                          *)
LEMMA OffsetPage ==
  ASSUME TypeOK, \A q, r \in rows : q # r => at[q] # at[r],
         NEW n \in Nat \ {0}, NEW page \in Pages(offset, n), NEW r \in rows
  PROVE  /\ Rank(r) \in Nat
         /\ Rank(r) >= offset /\ r \notin page =>
              page # {} /\ Rank(r) >= offset + Cardinality(page)
         /\ r \in page => Rank(r) >= offset /\ Rank(r) < offset + Cardinality(page)
<1> DEFINE newer == {q \in rows : Before(q, r)}
           k == offset
<1>1. PICK skipped \in SUBSET (rows \ page) :
        /\ Cardinality(skipped) = IF k < Cardinality(rows) THEN k ELSE Cardinality(rows)
        /\ Cardinality(page) = n \/ (Cardinality(page) < n /\ page \cup skipped = rows)
        /\ NewerFirst(skipped, rows \ skipped) /\ NewerFirst(page, rows \ (skipped \cup page))
  BY DEF Pages
<1>2. page \subseteq rows /\ rows \subseteq Ids /\ at \in [Ids -> Int] /\ k \in Nat
  BY DEF Pages, TypeOK
<1>3. /\ IsFiniteSet(skipped) /\ IsFiniteSet(page) /\ IsFiniteSet(newer) /\ newer \subseteq rows
      /\ Cardinality(skipped) \in Nat /\ Cardinality(page) \in Nat
      /\ Cardinality(rows) \in Nat /\ Cardinality(newer) \in Nat
      /\ Rank(r) = Cardinality(newer)
  <2>1. newer \subseteq rows /\ skipped \subseteq rows
    OBVIOUS
  <2>2. Rank(r) = Cardinality(newer)
    BY DEF Rank
  <2> HIDE DEF newer
  <2> QED
    BY <1>2, <2>1, <2>2, Counting
<1>4. \A q \in rows : q \in newer <=> at[q] > at[r]
  BY <1>2, PaginationAssumption DEF Before
<1> HIDE DEF newer
<1>5. Cardinality(skipped \cup page) = Cardinality(skipped) + Cardinality(page) /\ IsFiniteSet(skipped \cup page)
  <2>1. skipped \cap page = {}
    OBVIOUS
  <2>2. Cardinality(skipped \cap page) = 0
    BY <2>1, FS_EmptySet
  <2>3. /\ Cardinality(skipped \cup page) = Cardinality(skipped) + Cardinality(page) - Cardinality(skipped \cap page)
        /\ IsFiniteSet(skipped \cup page)
    BY <1>3, FS_Union
  <2> QED
    BY <1>3, <2>2, <2>3
<1>6. r \notin skipped => Cardinality(skipped) = k /\ Rank(r) >= k
  <2> SUFFICES ASSUME r \notin skipped PROVE Cardinality(skipped) = k /\ Rank(r) >= k
    OBVIOUS
  <2>1. skipped \subseteq newer
    BY <1>1, <1>2, <1>4 DEF NewerFirst
  <2>2. Cardinality(skipped) <= Cardinality(newer)
    BY <1>3, <2>1, FS_Subset
  <2>3. Cardinality(skipped) # Cardinality(rows)
    BY <1>2, Counting
  <2> QED
    BY <1>1, <1>2, <1>3, <2>2, <2>3
<1>7. r \in skipped => Rank(r) < k
  <2> SUFFICES ASSUME r \in skipped PROVE Rank(r) < k
    OBVIOUS
  <2>1. newer \subseteq skipped \ {r}
    BY <1>1, <1>2, <1>3, <1>4 DEF NewerFirst
  <2>2. Cardinality(skipped \ {r}) = Cardinality(skipped) - 1 /\ IsFiniteSet(skipped \ {r})
    BY <1>3, FS_RemoveElement
  <2>3. Cardinality(newer) <= Cardinality(skipped \ {r})
    BY <2>1, <2>2, FS_Subset
  <2> QED
    BY <1>1, <1>2, <1>3, <2>2, <2>3
<1>8. r \notin skipped /\ r \notin page => page # {} /\ Rank(r) >= k + Cardinality(page)
  <2> SUFFICES ASSUME r \notin skipped, r \notin page
               PROVE  page # {} /\ Rank(r) >= k + Cardinality(page)
    OBVIOUS
  <2>1. skipped \cup page \subseteq newer
    BY <1>1, <1>2, <1>4 DEF NewerFirst
  <2>2. Cardinality(skipped \cup page) <= Cardinality(newer)
    BY <1>3, <2>1, FS_Subset
  <2>3. page # {}
    BY <1>1, FS_EmptySet
  <2> QED
    BY <1>3, <1>5, <1>6, <2>2, <2>3
<1>9. r \in page => Rank(r) < k + Cardinality(page)
  <2> SUFFICES ASSUME r \in page PROVE Rank(r) < k + Cardinality(page)
    OBVIOUS
  <2>1. newer \subseteq (skipped \cup page) \ {r}
    BY <1>1, <1>2, <1>3, <1>4 DEF NewerFirst
  <2>2. /\ Cardinality((skipped \cup page) \ {r}) = Cardinality(skipped \cup page) - 1
        /\ IsFiniteSet((skipped \cup page) \ {r})
    BY <1>5, FS_RemoveElement
  <2>3. Cardinality(newer) <= Cardinality((skipped \cup page) \ {r})
    BY <2>1, <2>2, FS_Subset
  <2> QED
    BY <1>1, <1>2, <1>3, <1>5, <2>2, <2>3
<1>10. r \in page => r \notin skipped
  OBVIOUS
<1> QED
  BY <1>2, <1>3, <1>6, <1>7, <1>8, <1>9, <1>10

-----------------------------------------------------------------------------
LEMMA PageInit == Init => PageInv
<1> SUFFICES ASSUME Init PROVE PageInv
  OBVIOUS
<1>1. Cardinality(Ids) \in Nat
  BY Counting
<1>2. garbled \in BOOLEAN
  BY DEF Init
<1>3. {garbled, again, created, deleted} \subseteq BOOLEAN
  BY <1>2 DEF Init
<1>4. TypeOK
  BY <1>1, <1>3, PaginationAssumption DEF Init, TypeOK
<1> QED
  BY <1>4 DEF Init, PageInv, PhaseInv, CursorInv, NoDuplicates, PendingInv, AheadInv, BehindInv

(* The clock alone changes nothing else.                                      *)
LEMMA TickStep ==
  ASSUME PageInv, Tick \/ UNCHANGED vars
  PROVE  PageInv'
<1>1. /\ rows' = rows /\ at' = at /\ list' = list /\ limit' = limit /\ garbled' = garbled
      /\ cursor' = cursor /\ offset' = offset /\ cursors' = cursors /\ existed' = existed
      /\ seen' = seen /\ again' = again /\ client' = client
      /\ created' = created /\ deleted' = deleted
  BY DEF Tick, vars, tableVars, inputVars, clientVars
<1>2. now' \in 0..MaxTime
  BY PaginationAssumption DEF PageInv, TypeOK, Tick, vars, tableVars
<1>3. TypeOK'
  BY <1>1, <1>2 DEF PageInv, TypeOK
<1>4. PhaseInv' /\ CursorInv' /\ NoDuplicates' /\ PendingInv'
  BY <1>1 DEF PageInv, PhaseInv, CursorInv, NoDuplicates, PendingInv, Near
<1>5. Ties' = Ties /\ \A r : Rank(r)' = Rank(r)
  BY <1>1 DEF Ties, Rank, Before
<1>6. AheadInv' /\ BehindInv'
  BY <1>1, <1>5 DEF PageInv, AheadInv, BehindInv
<1> QED
  BY <1>3, <1>4, <1>6 DEF PageInv

(* A new row is fresh: it moves the others back, if anything, and no row that *)
(* was there gets another created_at.                                         *)
LEMMA CreateStep ==
  ASSUME PageInv, NEW r \in Ids, Create(r)
  PROVE  PageInv'
<1> USE DEF PageInv
<1>1. /\ client # "done" /\ r \notin rows /\ r \notin existed /\ r \notin seen
      /\ rows' = rows \cup {r} /\ created' = (created \/ client = "paging")
      /\ now' = now /\ list' = list /\ limit' = limit /\ garbled' = garbled
      /\ cursor' = cursor /\ offset' = offset /\ cursors' = cursors /\ existed' = existed
      /\ seen' = seen /\ again' = again /\ client' = client /\ deleted' = deleted
  BY DEF Create, inputVars, clientVars
<1>2. at' \in [Ids -> 0..MaxTime] /\ \A q \in Ids \ {r} : at'[q] = at[q]
  <2>1. PICK t \in {u \in 0..now : now - u <= CommitLag} : at' = [at EXCEPT ![r] = t]
    BY DEF Create
  <2>2. t \in 0..MaxTime
    BY PaginationAssumption DEF TypeOK
  <2> QED
    BY <2>1, <2>2 DEF TypeOK
<1>3. rows \subseteq Ids /\ existed \subseteq Ids /\ seen \subseteq Ids
  BY DEF TypeOK
<1>4. TypeOK'
  <2>1. {garbled', again', created', deleted'} \subseteq BOOLEAN
    BY <1>1 DEF TypeOK
  <2> QED
    BY <1>1, <1>2, <2>1 DEF TypeOK
<1>5. PhaseInv' /\ NoDuplicates'
  <2>1. client = "idle" \/ created'
    BY <1>1 DEF TypeOK
  <2>2. client = "idle" => ~created'
    BY <1>1 DEF PhaseInv
  <2> QED
    BY <1>1, <2>1, <2>2 DEF PhaseInv, NoDuplicates
<1>6. CursorInv'
  BY <1>1, <1>2, <1>3 DEF CursorInv
<1>7. PendingInv'
  BY <1>1, <1>2, <1>3 DEF PendingInv, Near
<1>8. Ties => Ties'
  BY <1>1, <1>2, <1>3 DEF Ties
<1>9. AheadInv'
  <2> SUFFICES ASSUME list = "tenants", ~deleted, ~Ties', NEW u \in existed \ seen
               PROVE  Rank(u)' >= offset /\ client # "done"
    BY <1>1 DEF AheadInv
  <2> DEFINE newer == {q \in rows : Before(q, u)}
             then == {q \in rows' : Before(q, u)'}
  <2>1. newer \subseteq then
    BY <1>1, <1>2, <1>3 DEF Before
  <2>2. Rank(u) = Cardinality(newer) /\ Rank(u)' = Cardinality(then)
    BY DEF Rank
  <2>3. then \in SUBSET Ids
    BY <1>1, <1>3
  <2> HIDE DEF newer, then
  <2>4. Cardinality(newer) <= Cardinality(then) /\ Cardinality(newer) \in Nat /\ Cardinality(then) \in Nat
    BY <2>1, <2>3, Counting
  <2>5. Rank(u) >= offset /\ client # "done"
    BY <1>8 DEF AheadInv
  <2> QED
    BY <2>2, <2>4, <2>5 DEF TypeOK
<1>10. BehindInv'
  BY <1>1 DEF BehindInv, PhaseInv, TypeOK
<1> QED
  BY <1>4, <1>5, <1>6, <1>7, <1>9, <1>10

(* A deleted tenant moves the others forward, if anything.                    *)
LEMMA DeleteTenantStep ==
  ASSUME PageInv, NEW r \in Ids, DeleteTenant(r)
  PROVE  PageInv'
<1> USE DEF PageInv
<1>1. /\ list = "tenants" /\ client = "paging" /\ r \in rows
      /\ rows' = rows \ {r} /\ deleted' = TRUE /\ at' = at
      /\ now' = now /\ list' = list /\ limit' = limit /\ garbled' = garbled
      /\ cursor' = cursor /\ offset' = offset /\ cursors' = cursors /\ existed' = existed
      /\ seen' = seen /\ again' = again /\ client' = client /\ created' = created
  BY DEF DeleteTenant, inputVars, clientVars
<1>2. TypeOK'
  <2>1. {garbled', again', created', deleted'} \subseteq BOOLEAN
    BY <1>1 DEF TypeOK
  <2> QED
    BY <1>1, <2>1 DEF TypeOK
<1>3. PhaseInv' /\ CursorInv' /\ NoDuplicates' /\ PendingInv' /\ AheadInv'
  BY <1>1 DEF PhaseInv, CursorInv, NoDuplicates, PendingInv, AheadInv
<1>4. BehindInv'
  <2> SUFFICES ASSUME ~created, ~Ties'
               PROVE  ~again /\ \A u \in seen \cap rows' : Rank(u)' < offset
    BY <1>1 DEF BehindInv
  <2>1. existed \cup rows = existed' \cup rows'
    BY <1>1 DEF PhaseInv
  <2>2. ~Ties
    BY <1>1, <2>1 DEF Ties
  <2>3. ~again
    BY <1>1, <2>2 DEF BehindInv
  <2>4. ASSUME NEW u \in seen \cap rows' PROVE Rank(u)' < offset
    <3> DEFINE newer == {q \in rows : Before(q, u)}
               then == {q \in rows' : Before(q, u)'}
    <3>1. then \subseteq newer
      BY <1>1 DEF Before
    <3>2. Rank(u) = Cardinality(newer) /\ Rank(u)' = Cardinality(then)
      BY DEF Rank
    <3>3. newer \in SUBSET Ids
      BY DEF TypeOK
    <3> HIDE DEF newer, then
    <3>4. Cardinality(then) <= Cardinality(newer) /\ Cardinality(newer) \in Nat /\ Cardinality(then) \in Nat
      BY <3>1, <3>3, Counting
    <3>5. Rank(u) < offset
      BY <1>1, <2>2, <2>4 DEF BehindInv
    <3> QED
      BY <3>2, <3>4, <3>5 DEF TypeOK
  <2> QED
    BY <2>3, <2>4
<1> QED
  BY <1>2, <1>3, <1>4

(* A page of messages. With the cursor as given it holds only rows behind all *)
(* that was listed. What it leaves out comes after its last row: either in    *)
(* that row's second or before the next cursor.                               *)
LEMMA ListMessagesStep ==
  ASSUME PageInv, ListMessages
  PROVE  PageInv'
<1> USE DEF PageInv
<1> DEFINE n == EffectiveLimit(limit)
           page == Newest(n, Matching)
<1>1. /\ list = "messages" /\ client # "done"
      /\ Receive(page)
      /\ cursor' = IF page = {} THEN NoCursor ELSE Truncate(at[Oldest(page)])
      /\ cursors' = cursors \cup {cursor'}
      /\ client' = IF HasMore(n) THEN "paging" ELSE "done"
      /\ offset' = offset
  BY DEF ListMessages
<1>2. /\ existed' = IF client = "idle" THEN rows ELSE existed
      /\ again' = (again \/ page \cap seen # {})
      /\ seen' = seen \cup page
      /\ rows' = rows /\ at' = at /\ now' = now /\ list' = list /\ limit' = limit
      /\ garbled' = garbled /\ created' = created /\ deleted' = deleted
  BY <1>1 DEF Receive, tableVars, inputVars
<1>3. n \in Nat \ {0} /\ at \in [Ids -> Int] /\ at \in [Ids -> Nat] /\ Matching \in SUBSET Ids
  BY PageSizes DEF TypeOK, Matching
<1> HIDE DEF n
<1>4. /\ page \subseteq Matching /\ page \subseteq rows /\ page \subseteq Ids
      /\ Matching # {} => page # {}
      /\ \A r \in Matching \ page, o \in page : Before(o, r)
      /\ ~HasMore(n) => page = Matching
  <2>1. /\ page \subseteq Matching
        /\ Matching # {} => page # {}
        /\ \A r \in Matching \ page, o \in page : Before(o, r)
        /\ Cardinality(Newest(n + 1, Matching)) <= n => page = Matching
    BY <1>3, PageOf
  <2>2. page \subseteq rows /\ page \subseteq Ids
    BY <1>3, <2>1 DEF Matching
  <2>3. Cardinality(Newest(n + 1, Matching)) \in Nat
    <3>1. Newest(n + 1, Matching) \in SUBSET Ids
      BY <1>3 DEF Newest
    <3> QED
      BY <3>1, Counting
  <2> QED
    BY <1>3, <2>1, <2>2, <2>3 DEF HasMore
<1>5. HasMore(n) => page # {}
  <2>1. Matching = {} => Newest(n + 1, Matching) = {}
    BY DEF Newest
  <2>2. Matching = {} => ~HasMore(n)
    BY <1>3, <2>1, FS_EmptySet DEF HasMore
  <2> QED
    BY <1>4, <2>2
<1> HIDE DEF page
<1>6. ASSUME page # {}
      PROVE  /\ Oldest(page) \in page
             /\ \A r \in page : at[r] >= at[Oldest(page)]
             /\ cursor' \in Nat /\ cursor' # NoCursor
             /\ cursor' <= at[Oldest(page)] /\ at[Oldest(page)] < cursor' + SecondTicks
  <2>1. \E r \in page : \A q \in page : q = r \/ Before(q, r)
    BY <1>3, <1>4, <1>6, Extremes
  <2>2. Oldest(page) \in page /\ \A q \in page : q = Oldest(page) \/ Before(q, Oldest(page))
    BY <2>1 DEF Oldest
  <2>3. \A r \in page : at[r] >= at[Oldest(page)]
    BY <1>3, <1>4, <2>2 DEF Before
  <2>4. at[Oldest(page)] \in Nat
    BY <1>3, <1>4, <2>2
  <2>5. cursor' = Truncate(at[Oldest(page)])
    BY <1>1, <1>6
  <2>6. /\ cursor' \in Nat
        /\ cursor' <= at[Oldest(page)] /\ at[Oldest(page)] < cursor' + SecondTicks
    BY <2>4, <2>5, Truncated
  <2>7. cursor' # NoCursor
    BY <2>6 DEF NoCursor
  <2> QED
    BY <2>2, <2>3, <2>6, <2>7
<1>7. TypeOK'
  <2>1. {garbled', again', created', deleted'} \subseteq BOOLEAN
    BY <1>2 DEF TypeOK
  <2>2. cursor' \in {NoCursor} \cup 0..MaxTime
    <3>1. CASE page = {}
      BY <1>1, <3>1
    <3>2. CASE page # {}
      <4>1. at[Oldest(page)] \in 0..MaxTime
        BY <1>4, <1>6, <3>2 DEF TypeOK
      <4>2. cursor' \in 0..MaxTime
        BY <1>6, <3>2, <4>1, PaginationAssumption
      <4> QED
        BY <1>6, <3>2, <4>2
    <3> QED
      BY <3>1, <3>2
  <2>3. cursors' \subseteq {NoCursor} \cup 0..MaxTime
    BY <1>1, <2>2 DEF TypeOK
  <2>4. existed' \subseteq Ids /\ seen' \subseteq Ids
    BY <1>2, <1>4 DEF TypeOK
  <2>5. client' \in {"idle", "paging", "done"} /\ cursor' \in cursors' \cup {NoCursor}
    BY <1>1
  <2> QED
    BY <1>1, <1>2, <2>1, <2>3, <2>4, <2>5 DEF TypeOK
<1>8. PhaseInv'
  <2>1. client' # "idle"
    BY <1>1
  <2>2. existed' \subseteq rows'
    BY <1>1, <1>2 DEF PhaseInv
  <2>3. ~created' => rows' \subseteq existed'
    BY <1>2 DEF PhaseInv
  <2> QED
    BY <2>1, <2>2, <2>3 DEF PhaseInv
<1>9. ~garbled /\ page \cap seen # {} => FALSE
  <2> SUFFICES ASSUME ~garbled, NEW r \in page, r \in seen PROVE FALSE
    OBVIOUS
  <2>1. client = "paging"
    BY <1>1 DEF PhaseInv, TypeOK
  <2>2. cursor # NoCursor /\ at[r] >= cursor
    BY <1>1, <2>1 DEF CursorInv
  <2>3. at[r] < cursor
    BY <1>4, <2>2 DEF Matching, Parsed
  <2>4. at[r] \in Nat /\ cursor \in Int
    BY <1>3, <1>4, <2>2 DEF TypeOK
  <2> QED
    BY <2>2, <2>3, <2>4
<1>10. NoDuplicates'
  BY <1>1, <1>2, <1>9 DEF NoDuplicates
<1>11. CursorInv'
  <2> SUFFICES ASSUME ~garbled, client' = "paging", NEW r \in seen'
               PROVE  cursor' # NoCursor /\ at[r] >= cursor'
    <3>1. client' = "paging" => cursor' # NoCursor
      BY <1>1, <1>5, <1>6
    <3> QED
      BY <1>2, <3>1 DEF CursorInv
  <2>1. page # {}
    BY <1>1, <1>5
  <2>2. at[Oldest(page)] \in Nat
    BY <1>3, <1>4, <1>6, <2>1
  <2>3. CASE r \in page
    <3>1. at[r] \in Nat
      BY <1>3, <1>4, <2>3
    <3> QED
      BY <1>6, <2>1, <2>2, <2>3, <3>1
  <2>4. CASE r \in seen
    <3>1. client = "paging"
      BY <1>1, <2>4 DEF PhaseInv, TypeOK
    <3>2. cursor # NoCursor /\ at[r] >= cursor
      BY <1>1, <2>4, <3>1 DEF CursorInv
    <3>3. at[Oldest(page)] < cursor
      BY <1>4, <1>6, <2>1, <3>2 DEF Matching, Parsed
    <3>4. at[r] \in Nat /\ cursor \in Int
      BY <1>3, <2>4, <3>2 DEF TypeOK
    <3> QED
      BY <1>6, <2>1, <2>2, <3>2, <3>3, <3>4
  <2> QED
    BY <1>2, <2>3, <2>4
<1>12. PendingInv'
  <2> SUFFICES ASSUME NEW r \in existed', r \notin seen', ~Near(r)'
               PROVE  client' = "paging" /\ cursor' # NoCursor /\ at[r] < cursor'
    BY <1>2 DEF PendingInv
  <2>1. r \in Matching
    <3>1. CASE client = "idle"
      BY <1>2, <3>1 DEF PhaseInv, Matching, Parsed
    <3>2. CASE client # "idle"
      <4>1. r \in existed /\ r \in rows /\ r \notin seen
        BY <1>1, <1>2, <3>2 DEF PhaseInv
      <4>2. ~Near(r)
        BY <1>1, <1>2 DEF Near
      <4>3. at[r] < cursor
        BY <1>1, <3>2, <4>1, <4>2 DEF PendingInv
      <4> QED
        BY <4>1, <4>3 DEF Matching, Parsed
    <3> QED
      BY <3>1, <3>2
  <2>2. r \notin page
    BY <1>2
  <2>3. HasMore(n) /\ client' = "paging" /\ page # {}
    BY <1>1, <1>4, <1>5, <2>1, <2>2
  <2>4. Before(Oldest(page), r)
    BY <1>4, <1>6, <2>1, <2>2, <2>3
  <2>5. at[Oldest(page)] \in Nat /\ at[r] \in Nat
    BY <1>3, <1>4, <1>6, <2>1, <2>3
  <2>6. at[r] <= at[Oldest(page)]
    BY <2>4, <2>5 DEF Before
  <2>7. at[r] < cursor' + SecondTicks
    BY <1>6, <2>3, <2>5, <2>6, PaginationAssumption
  <2>8. cursor' \in cursors' \ {NoCursor}
    BY <1>1, <1>6, <2>3
  <2>9. ~(cursor' <= at[r])
    BY <1>2, <2>7, <2>8 DEF Near
  <2> QED
    BY <1>6, <2>3, <2>5, <2>9
<1>13. AheadInv' /\ BehindInv'
  BY <1>1, <1>2 DEF AheadInv, BehindInv
<1> QED
  BY <1>7, <1>8, <1>10, <1>11, <1>12, <1>13

(* A page of tenants holds the next places of the list as it is now.          *)
LEMMA ListTenantsStep ==
  ASSUME PageInv, ListTenants
  PROVE  PageInv'
<1> USE DEF PageInv
<1>1. PICK page \in Pages(offset, TenantLimit(limit)) :
        /\ Receive(page)
        /\ offset' = offset + Cardinality(page)
        /\ client' = IF page = {} THEN "done" ELSE "paging"
  BY DEF ListTenants
<1>2. /\ list = "tenants" /\ client # "done" /\ cursor' = cursor /\ cursors' = cursors
      /\ existed' = IF client = "idle" THEN rows ELSE existed
      /\ again' = (again \/ page \cap seen # {})
      /\ seen' = seen \cup page
      /\ rows' = rows /\ at' = at /\ now' = now /\ list' = list /\ limit' = limit
      /\ garbled' = garbled /\ created' = created /\ deleted' = deleted
  BY <1>1 DEF ListTenants, Receive, tableVars, inputVars
<1>3. TenantLimit(limit) \in Nat \ {0} /\ rows \subseteq Ids /\ offset \in Nat
  BY PageSizes DEF TypeOK
<1>4. page \subseteq rows /\ Cardinality(page) \in Nat /\ offset' \in 0..Cardinality(Ids)
  BY <1>1, <1>3, OffsetInTable DEF TypeOK
<1>5. TypeOK'
  <2>1. {garbled', again', created', deleted'} \subseteq BOOLEAN
    BY <1>2 DEF TypeOK
  <2>2. existed' \subseteq Ids /\ seen' \subseteq Ids
    BY <1>2, <1>4 DEF TypeOK
  <2>3. client' \in {"idle", "paging", "done"}
    BY <1>1
  <2> QED
    BY <1>2, <1>4, <2>1, <2>2, <2>3 DEF TypeOK
<1>6. PhaseInv'
  <2>1. client' # "idle"
    BY <1>1
  <2>2. ~deleted' => existed' \subseteq rows'
    BY <1>2 DEF PhaseInv
  <2>3. ~created' => rows' \subseteq existed'
    BY <1>2 DEF PhaseInv
  <2> QED
    BY <1>2, <2>1, <2>2, <2>3 DEF PhaseInv
<1>7. CursorInv' /\ NoDuplicates' /\ PendingInv'
  BY <1>2 DEF CursorInv, NoDuplicates, PendingInv
<1>8. \A r : Rank(r)' = Rank(r)
  BY <1>2 DEF Rank, Before
<1>9. existed' \cup rows' = existed \cup rows
  BY <1>2 DEF PhaseInv
<1>10. Ties' = Ties
  BY <1>2, <1>9 DEF Ties
<1>11. ASSUME ~Ties, NEW r \in rows
       PROVE  /\ Rank(r) \in Nat
              /\ Rank(r) >= offset /\ r \notin page =>
                   page # {} /\ Rank(r) >= offset + Cardinality(page)
              /\ r \in page => Rank(r) >= offset /\ Rank(r) < offset + Cardinality(page)
  <2>1. \A q, u \in rows : q # u => at[q] # at[u]
    BY <1>11 DEF Ties
  <2> QED
    BY <1>1, <1>3, <2>1, OffsetPage
<1>12. AheadInv'
  <2> SUFFICES ASSUME ~deleted, ~Ties, NEW r \in existed', r \notin seen'
               PROVE  Rank(r) >= offset' /\ client' # "done"
    BY <1>2, <1>8, <1>10 DEF AheadInv
  <2>1. r \in rows /\ r \notin page
    BY <1>2 DEF PhaseInv
  <2>2. Rank(r) >= offset
    <3>1. CASE client = "idle"
      BY <1>11, <2>1, <3>1 DEF PhaseInv
    <3>2. CASE client # "idle"
      BY <1>2, <3>2 DEF AheadInv
    <3> QED
      BY <3>1, <3>2
  <2>3. page # {} /\ Rank(r) >= offset + Cardinality(page)
    BY <1>11, <2>1, <2>2
  <2> QED
    BY <1>1, <2>3
<1>13. BehindInv'
  <2> SUFFICES ASSUME ~created, ~Ties
               PROVE  ~again' /\ \A r \in seen' \cap rows : Rank(r) < offset'
    BY <1>2, <1>8, <1>10 DEF BehindInv
  <2>1. ~again /\ \A r \in seen \cap rows : Rank(r) < offset
    BY <1>2 DEF BehindInv
  <2>2. \A r \in page : r \notin seen
    <3> SUFFICES ASSUME NEW r \in page, r \in seen PROVE FALSE
      OBVIOUS
    <3>1. r \in rows /\ Rank(r) < offset
      BY <1>4, <2>1
    <3>2. Rank(r) \in Nat /\ Rank(r) >= offset
      BY <1>11, <3>1
    <3> QED
      BY <1>3, <3>1, <3>2
  <2>3. ~again'
    BY <1>2, <2>1, <2>2
  <2>4. ASSUME NEW r \in seen' \cap rows PROVE Rank(r) < offset'
    <3>1. Rank(r) \in Nat
      BY <1>11, <2>4
    <3>2. CASE r \in page
      BY <1>1, <1>11, <2>4, <3>2
    <3>3. CASE r \in seen
      <4>1. Rank(r) < offset
        BY <2>1, <2>4, <3>3
      <4> QED
        BY <1>1, <1>3, <1>4, <3>1, <4>1
    <3> QED
      BY <1>2, <2>4, <3>2, <3>3
  <2> QED
    BY <2>3, <2>4
<1> QED
  BY <1>5, <1>6, <1>7, <1>12, <1>13

LEMMA PageInvariant == Spec => []PageInv
<1>1. ASSUME PageInv, [Next]_vars PROVE PageInv'
  BY <1>1, TickStep, ListMessagesStep, ListTenantsStep, CreateStep, DeleteTenantStep DEF Next
<1> QED
  BY <1>1, PageInit, PTL DEF Spec

-----------------------------------------------------------------------------
(* The state keeps its type, and the offset never runs past the rows there    *)
(* have ever been.                                                            *)
THEOREM PaginationTypes == Spec => []TypeOK
<1>1. PageInv => TypeOK
  BY DEF PageInv
<1> QED
  BY <1>1, PageInvariant, PTL

(* A client that returns its cursors as given is never given a message twice, *)
(* whatever is created meanwhile.                                             *)
THEOREM NothingListedTwice == Spec => []NoDuplicates
<1>1. PageInv => NoDuplicates
  BY DEF PageInv
<1> QED
  BY <1>1, PageInvariant, PTL

(* All that paging through messages can miss are messages created in the same *)
(* second as the last one of some page.                                       *)
THEOREM OnlySecondsMissed == Spec => []MissedShareSecond
<1>1. PageInv => MissedShareSecond
  BY DEF PageInv, PendingInv, Near, MissedShareSecond
<1> QED
  BY <1>1, PageInvariant, PTL

(* Paging through tenants by offset, without ties, misses a tenant only if    *)
(* another was deleted and repeats one only if another was created.           *)
THEOREM OffsetDriftBounded == Spec => []OffsetDrift
<1>1. PageInv => OffsetDrift
  BY DEF PageInv, AheadInv, BehindInv, OffsetDrift
<1> QED
  BY <1>1, PageInvariant, PTL
=============================================================================
