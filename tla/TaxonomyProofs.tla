--------------------------- MODULE TaxonomyProofs ---------------------------
(* The pool under Taxonomy: no connection is lost or shared, and handlers do  *)
(* not block each other while fewer of them validate inside a transaction     *)
(* than there are connections.  The cache: it holds no category without its   *)
(* fields, and hides none that was there.  For every number of handlers,      *)
(* connections, categories and payloads.                                      *)
EXTENDS Taxonomy, FiniteSetTheorems, TLAPS

PoolInv == TypeOK /\ PoolConserved

(* The three things the code does with a connection keep the pool together. *)
LEMMA TakeConnConserves ==
    ASSUME PoolInv, NEW h \in Handlers, conn[h] = None, TakeConn(h)
    PROVE  PoolConserved'
<1>1. PICK c \in free : /\ free' = free \ {c}
                        /\ conn' = [conn EXCEPT ![h] = c]
                        /\ UNCHANGED loader
  BY DEF TakeConn
<1>2. c \in Conns /\ c # None
  BY PoolAssumption DEF PoolInv, TypeOK
<1>3. HeldBy(h)' = HeldBy(h) \cup {c} /\ \A g \in Handlers \ {h} : HeldBy(g)' = HeldBy(g)
  BY <1>1, <1>2 DEF HeldBy, PoolInv, TypeOK
<1>4. \A g \in Handlers : c \notin HeldBy(g)
  BY DEF PoolInv, PoolConserved
<1>5. free' \cup UNION {HeldBy(g)' : g \in Handlers} = Conns
  BY <1>1, <1>3, <1>4 DEF PoolInv, PoolConserved
<1>6. ASSUME NEW g \in Handlers
      PROVE  /\ HeldBy(g)' \cap free' = {}
             /\ conn'[g] # None => conn'[g] # loader'[g]
             /\ \A k \in Handlers \ {g} : HeldBy(k)' \cap HeldBy(g)' = {}
  <2>1. HeldBy(g)' \cap free' = {} /\ \A k \in Handlers \ {g} : HeldBy(k)' \cap HeldBy(g)' = {}
    BY <1>1, <1>3, <1>4 DEF PoolInv, PoolConserved
  <2>2. conn'[g] # None => conn'[g] # loader'[g]
    BY <1>1, <1>2, <1>4 DEF PoolInv, PoolConserved, HeldBy, TypeOK
  <2> QED
    BY <2>1, <2>2
<1> QED
  BY <1>5, <1>6 DEF PoolConserved

LEMMA TakeLoaderConserves ==
    ASSUME PoolInv, NEW h \in Handlers, loader[h] = None, TakeLoader(h)
    PROVE  PoolConserved'
<1>1. PICK c \in free : /\ free' = free \ {c}
                        /\ loader' = [loader EXCEPT ![h] = c]
                        /\ UNCHANGED conn
  BY DEF TakeLoader
<1>2. c \in Conns /\ c # None
  BY PoolAssumption DEF PoolInv, TypeOK
<1>3. HeldBy(h)' = HeldBy(h) \cup {c} /\ \A g \in Handlers \ {h} : HeldBy(g)' = HeldBy(g)
  BY <1>1, <1>2 DEF HeldBy, PoolInv, TypeOK
<1>4. \A g \in Handlers : c \notin HeldBy(g)
  BY DEF PoolInv, PoolConserved
<1>5. free' \cup UNION {HeldBy(g)' : g \in Handlers} = Conns
  BY <1>1, <1>3, <1>4 DEF PoolInv, PoolConserved
<1>6. ASSUME NEW g \in Handlers
      PROVE  /\ HeldBy(g)' \cap free' = {}
             /\ conn'[g] # None => conn'[g] # loader'[g]
             /\ \A k \in Handlers \ {g} : HeldBy(k)' \cap HeldBy(g)' = {}
  <2>1. HeldBy(g)' \cap free' = {} /\ \A k \in Handlers \ {g} : HeldBy(k)' \cap HeldBy(g)' = {}
    BY <1>1, <1>3, <1>4 DEF PoolInv, PoolConserved
  <2>2. conn'[g] # None => conn'[g] # loader'[g]
    BY <1>1, <1>2, <1>4 DEF PoolInv, PoolConserved, HeldBy, TypeOK
  <2> QED
    BY <2>1, <2>2
<1> QED
  BY <1>5, <1>6 DEF PoolConserved

(* Handler h gives back the connections G it holds and keeps the others. *)
LEMMA GiveConserves ==
    ASSUME PoolInv, NEW h \in Handlers, NEW G \in SUBSET HeldBy(h),
           free' = free \cup G,
           \A g \in Handlers \ {h} : conn'[g] = conn[g] /\ loader'[g] = loader[g],
           HeldBy(h)' = HeldBy(h) \ G,
           conn'[h] # None => conn'[h] # loader'[h]
    PROVE  PoolConserved'
<1>1. \A g \in Handlers \ {h} : HeldBy(g)' = HeldBy(g)
  BY DEF HeldBy
<1>2. free' \cup UNION {HeldBy(g)' : g \in Handlers} = Conns
  BY <1>1 DEF PoolInv, PoolConserved
<1>3. ASSUME NEW g \in Handlers
      PROVE  /\ HeldBy(g)' \cap free' = {}
             /\ conn'[g] # None => conn'[g] # loader'[g]
             /\ \A k \in Handlers \ {g} : HeldBy(k)' \cap HeldBy(g)' = {}
  BY <1>1 DEF PoolInv, PoolConserved
<1> QED
  BY <1>2, <1>3 DEF PoolConserved

LEMMA PoolKept == ASSUME PoolConserved, UNCHANGED pool PROVE PoolConserved'
<1>1. \A h \in Handlers : HeldBy(h)' = HeldBy(h)
  BY DEF HeldBy, pool
<1> QED
  BY <1>1 DEF PoolConserved, pool

LEMMA InitPoolInv == Init => PoolInv
<1> SUFFICES ASSUME Init PROVE PoolInv
  OBVIOUS
<1>1. TypeOK
  BY SeedAssumption DEF Init, InitPool, TypeOK, NothingRead, Labels, Ops, Loading
<1>2. \A h \in Handlers : HeldBy(h) = {}
  BY DEF Init, InitPool, HeldBy
<1>3. PoolConserved
  BY <1>2 DEF Init, InitPool, PoolConserved
<1> QED
  BY <1>1, <1>3 DEF PoolInv

(* The steps that take or give no connection. *)
LEMMA QuietTypeOK ==
    ASSUME TypeOK, NEW h \in Handlers,
           \/ BeginRead(h) \/ BeginCreate(h) \/ BeginBatch(h)
           \/ BeginLookup(h) \/ LookupCached(h) \/ ReadFirst(h) \/ ReadSecond(h) \/ StoreCache(h)
    PROVE  TypeOK' /\ UNCHANGED pool
<1>1. CASE BeginRead(h) \/ BeginCreate(h) \/ BeginBatch(h)
  <2>1. PICK o \in {"read", "create", "batch"}, n \in Nat :
          /\ Begin(h, o, n)
          /\ o = "batch" => h \in BatchHandlers
          /\ o = "create" => n > 0
          /\ o = "read" => n = 0
    BY <1>1, EntriesAssumption DEF BeginRead, BeginCreate, BeginBatch
  <2>2. /\ pc[h] = "idle"
        /\ pc' = [pc EXCEPT ![h] = IF o = "create" THEN "validate" ELSE "want_conn"]
    BY <2>1 DEF Begin, Goto, ValidatesInTransaction
  <2> QED
    BY <2>1, <2>2 DEF Begin, TypeOK, Labels, Ops, Loading, pool
<1>2. CASE BeginLookup(h)
  BY <1>2 DEF BeginLookup, Goto, TypeOK, Labels, Loading, pool
<1>3. CASE LookupCached(h)
  <2> DEFINE l == pc'[h]
  <2>1. /\ pc[h] = "lookup" /\ l \in {"validate", "want_conn", "work", "want_loader"}
        /\ pc' = [pc EXCEPT ![h] = l]
        /\ l = "validate" => left[h] > 0
        /\ l = "want_conn" => conn[h] = None /\ left[h] = 0
    BY <1>3 DEF LookupCached, Found, Missed, AfterLookup, TypeOK
  <2>2. /\ UNCHANGED <<pool, dbCats, cache, fresh, op, left, cat, got, known>>
        /\ retried' \in [Handlers -> BOOLEAN]
        /\ result' \in [Handlers -> {"none", "found", "unknown"}]
    BY <1>3 DEF LookupCached, Found, Missed, TypeOK
  <2> HIDE DEF l
  <2>3. pc' \in [Handlers -> Labels] /\ \A g \in Handlers \ {h} : pc'[g] = pc[g]
    BY <2>1 DEF TypeOK, Labels
  <2>4. pc'[h] = l
    BY <2>1 DEF TypeOK
  <2> QED
    BY <2>1, <2>2, <2>3, <2>4 DEF TypeOK, Loading, pool
<1>4. CASE ReadFirst(h) \/ ReadSecond(h)
  <2>1. ASSUME ReadFirst(h) PROVE got' \in [Handlers -> [Tables -> SUBSET Cats]]
    BY <2>1 DEF ReadFirst, TypeOK
  <2>2. ASSUME ReadSecond(h) PROVE got' \in [Handlers -> [Tables -> SUBSET Cats]]
    <3> DEFINE g == [t \in Tables |-> IF t = FirstTable THEN got[h][t] ELSE dbCats]
    <3>1. g \in [Tables -> SUBSET Cats] /\ got' = [got EXCEPT ![h] = g]
      BY <2>2 DEF ReadSecond, TypeOK
    <3> QED
      BY <3>1 DEF TypeOK
  <2> QED
    BY <1>4, <2>1, <2>2 DEF ReadFirst, ReadSecond, Goto, TypeOK, Labels, Loading, pool
<1>5. CASE StoreCache(h)
  <2> DEFINE l == pc'[h]
  <2>1. /\ pc[h] = "store" /\ l \in {"validate", "want_conn", "work", "want_loader"}
        /\ pc' = [pc EXCEPT ![h] = l]
        /\ l = "validate" => left[h] > 0
        /\ l = "want_conn" => conn[h] = None /\ left[h] = 0
    BY <1>5 DEF StoreCache, Found, Missed, AfterLookup, TypeOK
  <2>2. /\ UNCHANGED <<pool, dbCats, op, left, cat, known>>
        /\ cache' = got[h] /\ fresh' = TRUE
        /\ got' = [got EXCEPT ![h] = NothingRead]
        /\ retried' \in [Handlers -> BOOLEAN]
        /\ result' \in [Handlers -> {"none", "found", "unknown"}]
    BY <1>5 DEF StoreCache, Found, Missed, TypeOK
  <2>3. NothingRead \in [Tables -> SUBSET Cats]
    BY DEF NothingRead
  <2> HIDE DEF l
  <2> QED
    BY <2>1, <2>2, <2>3 DEF TypeOK, Labels, Loading, pool
<1> QED
  BY <1>1, <1>2, <1>3, <1>4, <1>5

LEMMA NextPoolInv == PoolInv /\ [Next]_vars => PoolInv'
<1> SUFFICES ASSUME PoolInv, [Next]_vars PROVE PoolInv'
  OBVIOUS
<1> USE DEF PoolInv
<1>1. ASSUME NEW h \in Handlers, AcquireConn(h) PROVE PoolInv'
  <2>1. PoolConserved'
    BY <1>1, TakeConnConserves DEF AcquireConn, Goto, TypeOK
  <2>2. PICK c \in free : free' = free \ {c} /\ conn' = [conn EXCEPT ![h] = c] /\ UNCHANGED loader
    BY <1>1 DEF AcquireConn, TakeConn
  <2>3. pc[h] = "want_conn" /\ (left[h] > 0 => op[h] = "batch")
    BY <1>1 DEF AcquireConn, Goto, TypeOK
  <2>4. TypeOK'
    BY <1>1, <2>2, <2>3 DEF AcquireConn, Goto, TypeOK, Labels, Loading
  <2> QED
    BY <2>1, <2>4
<1>2. ASSUME NEW h \in Handlers, AcquireLoader(h) PROVE PoolInv'
  <2>1. PoolConserved'
    BY <1>2, TakeLoaderConserves DEF AcquireLoader, Goto, TypeOK, Loading
  <2>2. PICK c \in free : free' = free \ {c} /\ loader' = [loader EXCEPT ![h] = c] /\ UNCHANGED conn
    BY <1>2 DEF AcquireLoader, TakeLoader
  <2>3. c # None
    BY PoolAssumption DEF TypeOK
  <2>4. TypeOK'
    BY <1>2, <2>2, <2>3 DEF AcquireLoader, Goto, TypeOK, Labels, Loading
  <2> QED
    BY <2>1, <2>4
<1>3. ASSUME NEW h \in Handlers, LeaveLoad(h) PROVE PoolInv'
  <2>1. /\ pc[h] = "leave_load" /\ loader[h] # None /\ loader[h] \in Conns
        /\ free' = free \cup {loader[h]} /\ loader' = [loader EXCEPT ![h] = None]
        /\ UNCHANGED conn
    BY <1>3 DEF LeaveLoad, Goto, GiveLoader, TypeOK, Loading
  <2>2. HeldBy(h)' = HeldBy(h) \ {loader[h]}
    BY <2>1 DEF HeldBy, TypeOK, PoolConserved
  <2>3. {loader[h]} \in SUBSET HeldBy(h)
    BY <2>1 DEF HeldBy
  <2>4. PoolConserved'
    BY <2>1, <2>2, <2>3, GiveConserves DEF TypeOK
  <2>5. TypeOK'
    BY <1>3, <2>1 DEF LeaveLoad, Goto, TypeOK, Labels, Loading
  <2> QED
    BY <2>4, <2>5
<1>4. ASSUME NEW h \in Handlers, Leave(h) PROVE PoolInv'
  <2>1. /\ free' = free \cup HeldBy(h) /\ conn' = [conn EXCEPT ![h] = None]
        /\ loader' = [loader EXCEPT ![h] = None]
    BY <1>4 DEF Leave, GiveAll
  <2>2. HeldBy(h)' = {} /\ HeldBy(h) \subseteq Conns
    BY <2>1 DEF HeldBy, TypeOK
  <2>3. PoolConserved'
    BY <2>1, <2>2, GiveConserves DEF TypeOK
  <2>4. NothingRead \in [Tables -> SUBSET Cats]
    BY DEF NothingRead
  <2>5. TypeOK'
    BY <1>4, <2>1, <2>2, <2>4 DEF Leave, TypeOK, Labels, Ops, Loading
  <2> QED
    BY <2>3, <2>5
<1>5. ASSUME NEW h \in Handlers,
             \/ BeginRead(h) \/ BeginCreate(h) \/ BeginBatch(h)
             \/ BeginLookup(h) \/ LookupCached(h) \/ ReadFirst(h) \/ ReadSecond(h) \/ StoreCache(h)
      PROVE  PoolInv'
  BY <1>5, QuietTypeOK, PoolKept
<1>6. CASE AddCategory \/ Expire \/ UNCHANGED vars
  <2>1. TypeOK'
    BY <1>6 DEF AddCategory, Expire, vars, handler, pool, TypeOK, Loading
  <2> QED
    BY <1>6, <2>1, PoolKept DEF AddCategory, Expire, vars
<1> QED
  BY <1>1, <1>2, <1>3, <1>4, <1>5, <1>6 DEF Next, Step, Work, Cancel

(* The place of a handler decides which connections it may hold. *)
THEOREM TaxonomyTypeCorrect == Spec => []TypeOK
<1>1. PoolInv => TypeOK
  BY DEF PoolInv
<1> QED
  BY <1>1, InitPoolInv, NextPoolInv, PTL DEF Spec

(* Whatever requests, loads, errors and cancellations interleave, every      *)
(* connection of the pool is idle or held once: none leaks, none is shared.  *)
THEOREM NoConnectionLost == Spec => []PoolConserved
<1>1. PoolInv => PoolConserved
  BY DEF PoolInv
<1> QED
  BY <1>1, InitPoolInv, NextPoolInv, PTL DEF Spec

LEMMA StallNeedsFullPool ==
    ASSUME PoolInv, Cardinality(BatchHandlers) < Cardinality(Conns) PROVE NoStall
<1> SUFFICES ASSUME free = {}, \A h \in Handlers : pc[h] # "idle" => Waiting(h)
             PROVE  FALSE
  BY DEF NoStall
<1>1. ASSUME NEW c \in Conns PROVE \E h \in BatchHandlers : conn[h] = c
  <2>1. PICK h \in Handlers : c \in HeldBy(h)
    BY DEF PoolInv, PoolConserved
  <2>2. loader[h] = None
    BY DEF PoolInv, TypeOK, Waiting, Loading
  <2>3. conn[h] = c /\ c # None
    BY <2>1, <2>2 DEF HeldBy
  <2>4. pc[h] = "want_loader" /\ op[h] = "batch"
    BY <2>3 DEF PoolInv, TypeOK, Waiting
  <2> QED
    BY <2>3, <2>4 DEF PoolInv, TypeOK
<1> DEFINE owner == [c \in Conns |-> CHOOSE h \in BatchHandlers : conn[h] = c]
<1>2. owner \in [Conns -> BatchHandlers] /\ \A c \in Conns : conn[owner[c]] = c
  BY <1>1
<1>3. IsFiniteSet(BatchHandlers)
  BY PoolAssumption, BatchAssumption, FS_Subset
<1> HIDE DEF owner
<1>4. \E x, y \in Conns : x # y /\ owner[x] = owner[y]
  BY <1>2, <1>3, PoolAssumption, FS_PigeonHole
<1> QED
  BY <1>2, <1>4

(* Handlers that wait for connections of each other would have to hold the   *)
(* whole pool, one connection for each handler inside a validating           *)
(* transaction: fewer of those than connections, and somebody can go on.     *)
THEOREM PoolNeverStalls ==
    ASSUME Cardinality(BatchHandlers) < Cardinality(Conns)
    PROVE  Spec => []NoStall
<1>1. PoolInv => NoStall
  BY StallNeedsFullPool
<1> QED
  BY <1>1, InitPoolInv, NextPoolInv, PTL DEF Spec

-----------------------------------------------------------------------------
(* The cache.                                                                *)

(* What a load has read of the first table is in what it reads of the second, *)
(* since categories are added with their fields and are not removed.          *)
LoadInv ==
    \A h \in Handlers :
        /\ pc[h] = "load_more" => got[h]["categories"] \subseteq dbCats
        /\ pc[h] \in {"leave_load", "store"} =>
              got[h]["categories"] \subseteq got[h]["category_field_defs"]

(* A category that was there when its lookup began is in what a load of this  *)
(* lookup reads, and the lookup loads before it gives up.                     *)
LookupInv ==
    \A h \in Handlers :
        /\ pc[h] = "lookup" => ~retried[h]
        /\ known[h] =>
            /\ cat[h] \in dbCats
            /\ pc[h] \in {"load_more", "leave_load", "store"} =>
                  cat[h] \in got[h]["categories"]
            /\ result[h] # "unknown"

CacheInv == NoBareCategory /\ LoadInv /\ LookupInv

LEMMA InitCacheInv == Init => CacheInv
BY DEF Init, NothingRead, Tables, CacheInv, NoBareCategory, LoadInv, LookupInv

(* Steps that add no category and touch no load and no lookup. *)
LEMMA OtherStepKeepsCache ==
    ASSUME TypeOK, CacheInv, NEW h \in Handlers, NEW l,
           pc' = [pc EXCEPT ![h] = l],
           l \notin {"lookup", "load_more", "leave_load", "store"},
           UNCHANGED <<dbCats, cache, cat, retried, got, known>>,
           result' = result \/ result' = [result EXCEPT ![h] = "none"]
    PROVE  CacheInv'
<1>1. \A g \in Handlers : pc'[g] = IF g = h THEN l ELSE pc[g]
  BY DEF TypeOK
<1>2. \A g \in Handlers : result'[g] = result[g] \/ result'[g] = "none"
  BY DEF TypeOK
<1>3. NoBareCategory'
  BY DEF CacheInv, NoBareCategory
<1>4. LoadInv'
  BY <1>1 DEF CacheInv, LoadInv
<1>5. LookupInv'
  BY <1>1, <1>2 DEF CacheInv, LookupInv
<1> QED
  BY <1>3, <1>4, <1>5 DEF CacheInv

LEMMA LeaveKeepsCache ==
    ASSUME TypeOK, CacheInv, NEW h \in Handlers, Leave(h)
    PROVE  CacheInv'
<1>1. \A g \in Handlers \ {h} :
          /\ pc'[g] = pc[g] /\ got'[g] = got[g] /\ cat'[g] = cat[g]
          /\ known'[g] = known[g] /\ result'[g] = result[g] /\ retried'[g] = retried[g]
  BY DEF Leave, TypeOK
<1>2. pc'[h] = "idle" /\ ~known'[h]
  BY DEF Leave, TypeOK
<1>3. UNCHANGED <<dbCats, cache>>
  BY DEF Leave
<1> QED
  BY <1>1, <1>2, <1>3 DEF CacheInv, NoBareCategory, LoadInv, LookupInv

LEMMA BeginLookupKeepsCache ==
    ASSUME TypeOK, CacheInv, NEW h \in Handlers, BeginLookup(h)
    PROVE  CacheInv'
<1>1. PICK c \in Cats : /\ cat' = [cat EXCEPT ![h] = c]
                        /\ known' = [known EXCEPT ![h] = (c \in dbCats)]
  BY DEF BeginLookup
<1>2. \A g \in Handlers \ {h} :
          /\ pc'[g] = pc[g] /\ cat'[g] = cat[g] /\ known'[g] = known[g]
          /\ result'[g] = result[g] /\ retried'[g] = retried[g]
  BY <1>1 DEF BeginLookup, Goto, TypeOK
<1>3. /\ pc'[h] = "lookup" /\ cat'[h] = c /\ known'[h] = (c \in dbCats)
      /\ result'[h] = "none" /\ ~retried'[h]
  BY <1>1 DEF BeginLookup, Goto, TypeOK
<1>4. UNCHANGED <<dbCats, cache, got>>
  BY DEF BeginLookup
<1>5. NoBareCategory' /\ LoadInv'
  BY <1>2, <1>3, <1>4 DEF CacheInv, NoBareCategory, LoadInv
<1>6. LookupInv'
  BY <1>2, <1>3, <1>4 DEF CacheInv, LookupInv
<1> QED
  BY <1>5, <1>6 DEF CacheInv

(* A lookup that has not loaded yet is not given up. *)
LEMMA LookupCachedKeepsCache ==
    ASSUME TypeOK, CacheInv, NEW h \in Handlers, LookupCached(h)
    PROVE  CacheInv'
<1>1. UNCHANGED <<dbCats, cache, cat, got, known>> /\ pc[h] = "lookup"
  BY DEF LookupCached
<1>2. ~retried[h]
  BY <1>1 DEF CacheInv, LookupInv
<1>3. /\ pc'[h] \notin {"lookup", "load_more", "leave_load", "store"}
      /\ result'[h] # "unknown" \/ result'[h] = result[h]
      /\ \A g \in Handlers \ {h} :
          pc'[g] = pc[g] /\ result'[g] = result[g] /\ retried'[g] = retried[g]
  BY <1>2 DEF LookupCached, Found, Missed, AfterLookup, TypeOK
<1>4. NoBareCategory' /\ LoadInv'
  BY <1>1, <1>3 DEF CacheInv, NoBareCategory, LoadInv
<1>5. LookupInv'
  BY <1>1, <1>3 DEF CacheInv, LookupInv
<1> QED
  BY <1>4, <1>5 DEF CacheInv

LEMMA ReadsKeepCache ==
    ASSUME TypeOK, CacheInv, NEW h \in Handlers,
           ReadFirst(h) \/ ReadSecond(h) \/ LeaveLoad(h)
    PROVE  CacheInv'
<1>1. UNCHANGED <<dbCats, cache, cat, retried, known, result>>
  BY DEF ReadFirst, ReadSecond, LeaveLoad
<1>2. \A g \in Handlers \ {h} : pc'[g] = pc[g] /\ got'[g] = got[g]
  BY DEF ReadFirst, ReadSecond, LeaveLoad, Goto, TypeOK
<1>3. CASE ReadFirst(h)
  <2>1. pc'[h] = "load_more" /\ got'[h]["categories"] = dbCats
    BY <1>3 DEF ReadFirst, Goto, TypeOK, Tables, FirstTable
  <2> QED
    BY <1>1, <1>2, <2>1 DEF CacheInv, NoBareCategory, LoadInv, LookupInv
<1>4. CASE ReadSecond(h)
  <2>1. /\ pc[h] = "load_more" /\ pc'[h] = "leave_load"
        /\ got'[h]["categories"] = got[h]["categories"]
        /\ got'[h]["category_field_defs"] = dbCats
    BY <1>4 DEF ReadSecond, Goto, TypeOK, Tables, FirstTable
  <2> QED
    BY <1>1, <1>2, <2>1 DEF CacheInv, NoBareCategory, LoadInv, LookupInv
<1>5. CASE LeaveLoad(h)
  <2>1. pc[h] = "leave_load" /\ pc'[h] = "store" /\ got'[h] = got[h]
    BY <1>5 DEF LeaveLoad, Goto, TypeOK
  <2> QED
    BY <1>1, <1>2, <2>1 DEF CacheInv, NoBareCategory, LoadInv, LookupInv
<1> QED
  BY <1>3, <1>4, <1>5

(* Whichever load stores the cache last, it stores what it read. *)
LEMMA StoreKeepsCache ==
    ASSUME TypeOK, CacheInv, NEW h \in Handlers, StoreCache(h)
    PROVE  CacheInv'
<1>1. UNCHANGED <<dbCats, cat, known>> /\ pc[h] = "store" /\ cache' = got[h]
  BY DEF StoreCache
<1>2. known[h] => cat[h] \in got[h]["categories"]
  BY <1>1 DEF CacheInv, LookupInv
<1>3. /\ pc'[h] \notin {"lookup", "load_more", "leave_load", "store"}
      /\ known[h] => result'[h] # "unknown"
  BY <1>2 DEF StoreCache, Found, Missed, AfterLookup, TypeOK
<1>4. \A g \in Handlers \ {h} : /\ pc'[g] = pc[g] /\ got'[g] = got[g]
                                /\ result'[g] = result[g] /\ retried'[g] = retried[g]
  BY DEF StoreCache, Found, Missed, TypeOK
<1>5. NoBareCategory'
  BY <1>1 DEF CacheInv, NoBareCategory, LoadInv
<1>6. LoadInv'
  BY <1>1, <1>3, <1>4 DEF CacheInv, LoadInv
<1>7. LookupInv'
  BY <1>1, <1>3, <1>4 DEF CacheInv, LookupInv
<1> QED
  BY <1>5, <1>6, <1>7 DEF CacheInv

LEMMA StepKeepsCache == TypeOK /\ CacheInv /\ [Next]_vars => CacheInv'
<1> SUFFICES ASSUME TypeOK, CacheInv, [Next]_vars PROVE CacheInv'
  OBVIOUS
<1>1. CASE AddCategory
  <2>1. dbCats \subseteq dbCats' /\ UNCHANGED <<cache, handler>>
    BY <1>1 DEF AddCategory
  <2> QED
    BY <2>1 DEF handler, CacheInv, NoBareCategory, LoadInv, LookupInv
<1>2. CASE Expire \/ UNCHANGED vars
  BY <1>2 DEF Expire, vars, handler, CacheInv, NoBareCategory, LoadInv, LookupInv
<1>3. ASSUME NEW h \in Handlers, BeginRead(h) \/ BeginCreate(h) \/ BeginBatch(h)
      PROVE  CacheInv'
  <2>1. PICK o, n : Begin(h, o, n)
    BY <1>3 DEF BeginRead, BeginCreate, BeginBatch
  <2>2. PICK l \in {"validate", "want_conn"} : pc' = [pc EXCEPT ![h] = l]
    BY <2>1 DEF Begin, Goto
  <2> QED
    BY <2>1, <2>2, OtherStepKeepsCache DEF Begin
<1>4. ASSUME NEW h \in Handlers, AcquireConn(h) \/ AcquireLoader(h)
      PROVE  CacheInv'
  <2>1. PICK l \in {"validate", "work", "load"} : pc' = [pc EXCEPT ![h] = l]
    BY <1>4 DEF AcquireConn, AcquireLoader, Goto
  <2> QED
    BY <1>4, <2>1, OtherStepKeepsCache DEF AcquireConn, AcquireLoader
<1>5. ASSUME NEW h \in Handlers, Step(h) \/ Cancel(h)
      PROVE  CacheInv'
  BY <1>5, BeginLookupKeepsCache, LookupCachedKeepsCache, ReadsKeepCache,
     StoreKeepsCache, LeaveKeepsCache DEF Step, Work, Cancel
<1> QED
  BY <1>1, <1>2, <1>3, <1>4, <1>5 DEF Next

LEMMA CacheInvariant == Spec => []CacheInv
BY InitCacheInv, StepKeepsCache, TaxonomyTypeCorrect, PTL DEF Spec

(* A category never gets into the cache without its fields. *)
THEOREM CacheIsWhole == Spec => []NoBareCategory
<1>1. CacheInv => NoBareCategory
  BY DEF CacheInv
<1> QED
  BY <1>1, CacheInvariant, PTL

(* However old the cache is, and whichever load stores it last, a category    *)
(* that was there when its lookup began is not refused.                       *)
THEOREM KnownIsFound == Spec => []KnownCategoryFound
<1>1. CacheInv => KnownCategoryFound
  BY DEF CacheInv, LookupInv, KnownCategoryFound
<1> QED
  BY <1>1, CacheInvariant, PTL
=============================================================================
