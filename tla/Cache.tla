------------------------------- MODULE Cache --------------------------------
(***************************************************************************)
(* The LRU cache, internal/performance/cache.go, over container/list with  *)
(* its pointers: element 0 is the list's root, item and element of a Set   *)
(* have one number.  c.mu is held for one action; Get looks the item up,   *)
(* tests its expiry, and deletes or moves it in critical sections of their *)
(* own.  Values are left out: what an item is worth is its expiry.         *)
(***************************************************************************)
EXTENDS Integers, FiniteSets

CONSTANTS
  Keys,
  Readers,    \* callers of Get
  CacheSize,  \* c.maxSize
  MaxPushes   \* bound: the items that Set makes

Root     == 0
NoItem   == 0
NoKey    == "none"
Elements == 1..MaxPushes

ASSUME CacheAssumption ==
  NoKey \notin Keys /\ CacheSize \in Nat \ {0} /\ MaxPushes \in Nat

VARIABLES
  items,       \* c.items: the item of each key
  pushes,      \* the number of items made
  keyOf,       \* the key of each item
  expired,     \* the items whose ExpiresAt has passed
  lru,         \* c.lru: next and prev of each element, len, and the elements it owns
  reader,      \* "out", "found", "expired", "hit"
  readKey, readItem,
  cachePanic,  \* evictOldest has taken the root for an element
  recent,      \* ghost: the order of last use: <<a, b>> if a was used no earlier than b
  staleMove    \* ghost: an item from before a Clear was moved to the front

readVars  == <<reader, readKey, readItem>>
cacheVars == <<items, pushes, keyOf, expired, lru, readVars, cachePanic, recent, staleMove>>

Live == {items[k] : k \in Keys} \ {NoItem}

CacheTypeOK ==
  /\ items \in [Keys -> 0..pushes] /\ pushes \in 0..MaxPushes
  /\ keyOf \in [Elements -> Keys \cup {NoKey}] /\ expired \subseteq 1..pushes
  /\ lru \in [next : [0..MaxPushes -> 0..MaxPushes], prev : [0..MaxPushes -> 0..MaxPushes],
              owned : SUBSET (1..pushes), len : - MaxPushes..MaxPushes]
  /\ reader \in [Readers -> {"out", "found", "expired", "hit"}]
  /\ readKey \in [Readers -> Keys \cup {NoKey}] /\ readItem \in [Readers -> 0..pushes]
  /\ cachePanic \in BOOLEAN /\ staleMove \in BOOLEAN
  /\ recent \subseteq (1..pushes) \X (1..pushes)

EmptyList == [next |-> [e \in 0..MaxPushes |-> Root], prev |-> [e \in 0..MaxPushes |-> Root],
              owned |-> {}, len |-> 0]

CacheInit ==
  /\ items = [k \in Keys |-> NoItem] /\ pushes = 0
  /\ keyOf = [e \in Elements |-> NoKey]
  /\ expired = {} /\ lru = EmptyList /\ recent = {}
  /\ reader = [r \in Readers |-> "out"]
  /\ readKey = [r \in Readers |-> NoKey] /\ readItem = [r \in Readers |-> NoItem]
  /\ cachePanic = FALSE /\ staleMove = FALSE

-----------------------------------------------------------------------------
(* container/list.                                                         *)

\* e.prev.next = e.next; e.next.prev = e.prev
Unlink(l, e) ==
  LET n == [l.next EXCEPT ![l.prev[e]] = l.next[e]]
  IN  [l EXCEPT !.next = n, !.prev = [l.prev EXCEPT ![n[e]] = l.prev[e]]]

\* insert(e, &l.root)
LinkFront(l, e) ==
  LET first == l.next[Root]
  IN  [l EXCEPT !.next = [l.next EXCEPT ![e] = first, ![Root] = e],
                !.prev = [l.prev EXCEPT ![e] = Root, ![first] = e]]

MoveToFront(l, e) ==
  IF e \notin l.owned \/ l.next[Root] = e THEN l ELSE LinkFront(Unlink(l, e), e)

PushFront(l, e) ==
  LinkFront([l EXCEPT !.owned = @ \cup {e}, !.len = @ + 1], e)

Remove(l, e) ==
  IF e \notin l.owned THEN l
  ELSE LET u == Unlink(l, e)
       IN  [u EXCEPT !.next[e] = Root, !.prev[e] = Root,
                     !.owned = @ \ {e}, !.len = @ - 1]

\* Init empties the ring and leaves the elements what they were.
InitList(l) == [l EXCEPT !.next[Root] = Root, !.prev[Root] = Root, !.len = 0]

-----------------------------------------------------------------------------
(* Set, Delete, Clear, cleanup and the passing of time.                    *)

\* The ghost is the cache that is meant, as an order on what it holds.
Held(R)      == {p[1] : p \in R}
Keep(R, S)   == R \cap (S \X S)
Forget(R, S) == Keep(R, Held(R) \ S)
Use(R, e)    == Forget(R, {e}) \cup ({e} \X (Held(R) \cup {e}))
Oldest(R)    == {a \in Held(R) : \A b \in Held(R) : <<b, a>> \in R}

\* Mutant: the item keeps its place.
SetOld_Stays(k) ==
  /\ items[k] # NoItem
  /\ expired' = expired \ {items[k]}
  /\ recent' = Use(recent, items[k])
  /\ UNCHANGED <<items, pushes, keyOf, lru, cachePanic, staleMove, readVars>>

SetOld(k) ==
  /\ items[k] # NoItem
  /\ expired' = expired \ {items[k]}
  /\ lru' = MoveToFront(lru, items[k])
  /\ recent' = Use(recent, items[k])
  /\ UNCHANGED <<items, pushes, keyOf, cachePanic, staleMove, readVars>>

TooMany(l) == l.len > CacheSize

\* The new item in front; the oldest out of list and map when there are too
\* many.  Back is the root's prev, which is the root when the ring is broken.
SetNew(k) ==
  /\ items[k] = NoItem /\ pushes < MaxPushes
  /\ pushes' = pushes + 1 /\ keyOf' = [keyOf EXCEPT ![pushes'] = k]
  /\ LET full == PushFront(lru, pushes')
         old  == full.prev[Root]
         set  == [items EXCEPT ![k] = pushes']
     IN  /\ lru' = IF TooMany(full) THEN Remove(full, old) ELSE full
         /\ items' = [k2 \in Keys |-> IF TooMany(full) /\ old # Root /\ k2 = keyOf'[old]
                                       THEN NoItem ELSE set[k2]]
         /\ cachePanic' = (TooMany(full) /\ old = Root)
  /\ LET all == Use(recent, pushes')
     IN  recent' = IF Cardinality(Held(all)) > CacheSize THEN Forget(all, Oldest(all)) ELSE all
  /\ UNCHANGED <<expired, staleMove, readVars>>

Drop(k) ==
  /\ lru' = Remove(lru, items[k])
  /\ items' = [items EXCEPT ![k] = NoItem]
  /\ recent' = Forget(recent, {items[k]})
  /\ UNCHANGED <<pushes, keyOf, expired, cachePanic, staleMove>>

Delete(k) == items[k] # NoItem /\ Drop(k) /\ UNCHANGED readVars

Clear ==
  /\ items' = [k \in Keys |-> NoItem] /\ lru' = InitList(lru) /\ recent' = {}
  /\ UNCHANGED <<pushes, keyOf, expired, cachePanic, staleMove, readVars>>

RemoveAll(order, n) ==
  LET After[i \in 0..n] == IF i = 0 THEN lru ELSE Remove(After[i - 1], order[i])
  IN  After[n]

\* All expired items, in the order the map is iterated in: any.
Cleanup ==
  /\ Live \cap expired # {}
  /\ LET old == Live \cap expired
         n   == Cardinality(old)
     IN  \E order \in [1..n -> old] :
           {order[i] : i \in 1..n} = old /\ lru' = RemoveAll(order, n)
  /\ items' = [k \in Keys |-> IF items[k] \in expired THEN NoItem ELSE items[k]]
  /\ recent' = Forget(recent, expired)
  /\ UNCHANGED <<pushes, keyOf, expired, cachePanic, staleMove, readVars>>

Expire(e) ==
  /\ e \in Live \ expired /\ expired' = expired \cup {e}
  /\ UNCHANGED <<items, pushes, keyOf, lru, cachePanic, recent, staleMove, readVars>>

-----------------------------------------------------------------------------
(* Get.                                                                    *)

GetLookup(r, k) ==
  /\ reader[r] = "out" /\ items[k] # NoItem
  /\ reader' = [reader EXCEPT ![r] = "found"]
  /\ readKey' = [readKey EXCEPT ![r] = k]
  /\ readItem' = [readItem EXCEPT ![r] = items[k]]
  /\ UNCHANGED <<items, pushes, keyOf, expired, lru, cachePanic, recent, staleMove>>

\* The item's expiry is read with no lock held.
GetExpiry(r) ==
  /\ reader[r] = "found"
  /\ reader' = [reader EXCEPT ![r] = IF readItem[r] \in expired THEN "expired" ELSE "hit"]
  /\ UNCHANGED <<items, pushes, keyOf, expired, lru, cachePanic, recent, staleMove,
                 readKey, readItem>>

ReturnFrom(r) ==
  /\ reader' = [reader EXCEPT ![r] = "out"]
  /\ readKey' = [readKey EXCEPT ![r] = NoKey]
  /\ readItem' = [readItem EXCEPT ![r] = NoItem]

\* Whatever the key holds by now.
GetDelete(r) ==
  /\ reader[r] = "expired" /\ ReturnFrom(r)
  /\ \/ items[readKey[r]] # NoItem /\ Drop(readKey[r])
     \/ /\ items[readKey[r]] = NoItem
        /\ UNCHANGED <<items, pushes, keyOf, expired, lru, cachePanic, recent, staleMove>>

\* An item that was deleted is not the list's any more; one that was cleared is.
GetMove(r) ==
  /\ reader[r] = "hit" /\ ReturnFrom(r)
  /\ lru' = MoveToFront(lru, readItem[r])
  /\ staleMove' = (staleMove \/ readItem[r] \in lru.owned \ Live)
  /\ recent' = IF readItem[r] \in Live THEN Use(recent, readItem[r]) ELSE recent
  /\ UNCHANGED <<items, pushes, keyOf, expired, cachePanic>>

-----------------------------------------------------------------------------

CacheNext ==
  /\ ~ cachePanic
  /\ \/ \E k \in Keys : SetOld(k) \/ SetNew(k) \/ Delete(k)
     \/ Clear \/ Cleanup
     \/ \E e \in Elements : Expire(e)
     \/ \E r \in Readers : \/ \E k \in Keys : GetLookup(r, k)
                            \/ GetExpiry(r) \/ GetDelete(r) \/ GetMove(r)

CacheSpec == CacheInit /\ [][CacheNext]_cacheVars

-----------------------------------------------------------------------------
(* Properties.                                                             *)

\* y is used next before x, with the root before the latest and after the oldest.
Later(R, x, y) == <<x, y>> \in R /\ x # y
Ahead(R, x, y) == x = Root \/ y = Root \/ Later(R, x, y)
Directly(R, S, x, y) == Ahead(R, x, y) /\ \A z \in S : ~ (Ahead(R, x, z) /\ Ahead(R, z, y))

\* A ring of S and the root, in both directions, by the order R.
Linked(l, S, R) == \A x \in S \cup {Root} :
  /\ l.next[x] \in S \cup {Root} /\ l.prev[l.next[x]] = x
  /\ l.prev[x] \in S \cup {Root} /\ l.next[l.prev[x]] = x
  /\ Directly(R, S, x, l.next[x])

\* Set, Get, Delete, the clean-up and the eviction, in steps that overlap, keep
\* map and list together: forwards and backwards the list holds the map's items,
\* by their last use, so that the last is the one to evict.  It fails only when
\* a Get overlaps a Clear.
ListIsRecent == ~ staleMove =>
  Held(recent) = Live /\ lru.len = Cardinality(Live) /\ Linked(lru, Live, recent)

\* Even then the map's items are the list's, under their own keys: Delete never
\* leaves an item's element behind.
ItemsAreOwned ==
  \A k \in Keys : items[k] # NoItem => items[k] \in lru.owned /\ keyOf[items[k]] = k

\* Map and list are one cache.
CacheInv == CacheTypeOK /\ ListIsRecent /\ ItemsAreOwned

-----------------------------------------------------------------------------
(* What the documentation says and the code does not do.                   *)

\* cache.go:150, "evictOldest removes the least recently used item": it does not
\* take the list's root for one.
EvictsAnItem == ~ cachePanic

\* cache.go:80, "Check if item has expired": Get deletes expired items only.
FreshStays ==
  [][\A r \in Readers : GetDelete(r) => items[readKey[r]] \in expired \cup {NoItem}]_cacheVars
=============================================================================
