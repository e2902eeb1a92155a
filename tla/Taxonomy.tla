------------------------------ MODULE Taxonomy ------------------------------
(***************************************************************************)
(* The in-process taxonomy cache of backend/app/services/taxonomy.py and   *)
(* the requests that go through it, sharing one connection pool.           *)
(*                                                                         *)
(* create_item validates first and then opens its transaction; create_items*)
(* and update_item validate inside theirs, so that a load of the taxonomy  *)
(* holds a second connection.  One step is the Python between two awaits,  *)
(* or one statement; a load is two statements that see different snapshots.*)
(***************************************************************************)
EXTENDS ConnectionPool

CONSTANTS
    Cats,           \* categories that are or may be added to the database
    Seeded,         \* those that 0002_seed.sql puts there
    BatchHandlers,  \* handlers that may serve create_items or update_item
    MaxEntries      \* payloads of one batch

ASSUME SeedAssumption == Seeded \subseteq Cats
ASSUME EntriesAssumption == MaxEntries \in Nat
ASSUME BatchAssumption == BatchHandlers \subseteq Handlers

VARIABLES
    dbCats,     \* public.categories, each with its category_field_defs
    cache,      \* _cache: categories, and those whose fields were read
    fresh,      \* less than _CACHE_TTL_SECONDS since _cache_loaded_at
    pc,         \* where each handler is
    op,         \* the kind of request it serves
    left,       \* payloads it has still to validate
    cat,        \* the category get_category is looking for
    retried,    \* get_category is at its `refresh=True` load
    got,        \* rows read by the load that is under way
    known,      \* history: cat was in the database when the lookup began
    result      \* how the last lookup ended

handler == <<pc, op, left, cat, retried, got, known, result>>
vars == <<pool, dbCats, cache, fresh, handler>>

Labels == {"idle", "want_conn", "validate", "lookup", "want_loader", "load",
           "load_more", "leave_load", "store", "work"}
Ops == {"none", "read", "create", "batch"}
Tables == {"categories", "category_field_defs"}
NothingRead == [t \in Tables |-> {}]

Init ==
    /\ InitPool
    /\ dbCats = Seeded
    /\ cache = NothingRead
    /\ fresh = FALSE
    /\ pc = [h \in Handlers |-> "idle"]
    /\ op = [h \in Handlers |-> "none"]
    /\ left = [h \in Handlers |-> 0]
    /\ cat = [h \in Handlers |-> None]
    /\ retried = [h \in Handlers |-> FALSE]
    /\ got = [h \in Handlers |-> NothingRead]
    /\ known = [h \in Handlers |-> FALSE]
    /\ result = [h \in Handlers |-> "none"]

Goto(h, from, to) == pc[h] = from /\ pc' = [pc EXCEPT ![h] = to]

(* The environment: a category is added with its fields in one transaction; *)
(* the cache grows old.                                                     *)
AddCategory ==
    /\ \E c \in Cats \ dbCats : dbCats' = dbCats \cup {c}
    /\ UNCHANGED <<pool, cache, fresh, handler>>

Expire ==
    /\ fresh
    /\ fresh' = FALSE
    /\ UNCHANGED <<pool, dbCats, cache, handler>>

-----------------------------------------------------------------------------
(* Slip: create_item validates inside its transaction as well. *)
ValidatesInTransactionAlways(o) == o \in {"create", "batch"}

ValidatesInTransaction(o) == o = "batch"

(* A request arrives; `n` payloads are to be validated. *)
Begin(h, o, n) ==
    /\ Goto(h, "idle", IF o = "create" /\ ~ValidatesInTransaction(o) THEN "validate" ELSE "want_conn")
    /\ op' = [op EXCEPT ![h] = o]
    /\ left' = [left EXCEPT ![h] = n]
    /\ result' = [result EXCEPT ![h] = "none"]
    /\ UNCHANGED <<pool, dbCats, cache, fresh, cat, retried, got, known>>

BeginRead(h)   == Begin(h, "read", 0)
BeginCreate(h) == Begin(h, "create", 1)
BeginBatch(h)  == h \in BatchHandlers /\ \E n \in 1..MaxEntries : Begin(h, "batch", n)

AcquireConn(h) ==
    /\ Goto(h, "want_conn", IF left[h] > 0 THEN "validate" ELSE "work")
    /\ TakeConn(h)
    /\ UNCHANGED <<dbCats, cache, fresh, op, left, cat, retried, got, known, result>>

(* validate_fields of the next payload: get_category(c). *)
BeginLookup(h) ==
    /\ Goto(h, "validate", "lookup")
    /\ \E c \in Cats :
          /\ cat' = [cat EXCEPT ![h] = c]
          /\ known' = [known EXCEPT ![h] = c \in dbCats]
    /\ left' = [left EXCEPT ![h] = @ - 1]
    /\ retried' = [retried EXCEPT ![h] = FALSE]
    /\ result' = [result EXCEPT ![h] = "none"]
    /\ UNCHANGED <<pool, dbCats, cache, fresh, op, got>>

(* What the handler does once the lookup has ended: the next payload, the     *)
(* work of the request, or, for a batch whose entry failed, the next payload. *)
AfterLookup(h, found) ==
    IF left[h] > 0 THEN "validate"
    ELSE IF op[h] = "create" /\ found /\ conn[h] = None THEN "want_conn"
    ELSE "work"

Found(h) ==
    /\ pc' = [pc EXCEPT ![h] = AfterLookup(h, TRUE)]
    /\ result' = [result EXCEPT ![h] = "found"]
    /\ UNCHANGED retried

(* Slip: get_category gives up on what the cache says. *)
MissedNoRetry(h) ==
    /\ pc' = [pc EXCEPT ![h] = AfterLookup(h, FALSE)]
    /\ result' = [result EXCEPT ![h] = "unknown"]
    /\ UNCHANGED retried

(* Not in the list: one more load with refresh=True, then the category is    *)
(* unknown.  The third load_categories, for the message, finds the cache     *)
(* that was just stored.                                                     *)
Missed(h) ==
    \/ /\ ~retried[h]
       /\ pc' = [pc EXCEPT ![h] = "want_loader"]
       /\ retried' = [retried EXCEPT ![h] = TRUE]
       /\ UNCHANGED result
    \/ /\ retried[h]
       /\ pc' = [pc EXCEPT ![h] = AfterLookup(h, FALSE)]
       /\ result' = [result EXCEPT ![h] = "unknown"]
       /\ UNCHANGED retried

(* load_categories() with a cache that is still fresh, or not. *)
LookupCached(h) ==
    /\ pc[h] = "lookup"
    /\ \/ fresh /\ cat[h] \in cache["categories"] /\ Found(h)
       \/ fresh /\ cat[h] \notin cache["categories"] /\ Missed(h)
       \/ ~fresh /\ pc' = [pc EXCEPT ![h] = "want_loader"] /\ UNCHANGED <<retried, result>>
    /\ UNCHANGED <<pool, dbCats, cache, fresh, op, left, cat, got, known>>

AcquireLoader(h) ==
    /\ Goto(h, "want_loader", "load")
    /\ TakeLoader(h)
    /\ UNCHANGED <<dbCats, cache, fresh, op, left, cat, retried, got, known, result>>

(* Slip: the field definitions are fetched first. *)
FirstTableFields == "category_field_defs"

FirstTable == "categories"

(* The two fetches of load_categories. *)
ReadFirst(h) ==
    /\ Goto(h, "load", "load_more")
    /\ got' = [got EXCEPT ![h] = [t \in Tables |-> IF t = FirstTable THEN dbCats ELSE {}]]
    /\ UNCHANGED <<pool, dbCats, cache, fresh, op, left, cat, retried, known, result>>

ReadSecond(h) ==
    /\ Goto(h, "load_more", "leave_load")
    /\ got' = [got EXCEPT ![h] = [t \in Tables |-> IF t = FirstTable THEN @[t] ELSE dbCats]]
    /\ UNCHANGED <<pool, dbCats, cache, fresh, op, left, cat, retried, known, result>>

LeaveLoad(h) ==
    /\ Goto(h, "leave_load", "store")
    /\ GiveLoader(h)
    /\ UNCHANGED <<dbCats, cache, fresh, op, left, cat, retried, got, known, result>>

(* The cache is replaced, whatever it has become since, and the lookup goes  *)
(* on with the list this load read.                                          *)
StoreCache(h) ==
    /\ pc[h] = "store"
    /\ cache' = got[h]
    /\ fresh' = TRUE
    /\ got' = [got EXCEPT ![h] = NothingRead]
    /\ \/ cat[h] \in got[h]["categories"] /\ Found(h)
       \/ cat[h] \notin got[h]["categories"] /\ Missed(h)
    /\ UNCHANGED <<pool, dbCats, op, left, cat, known>>

(* Everything the handler entered with `async with` is left: normal return,  *)
(* an error (an unknown category in create_item or update_item) or, at any   *)
(* moment, a cancellation.                                                   *)
Leave(h) ==
    /\ GiveAll(h)
    /\ pc' = [pc EXCEPT ![h] = "idle"]
    /\ op' = [op EXCEPT ![h] = "none"]
    /\ left' = [left EXCEPT ![h] = 0]
    /\ cat' = [cat EXCEPT ![h] = None]
    /\ retried' = [retried EXCEPT ![h] = FALSE]
    /\ got' = [got EXCEPT ![h] = NothingRead]
    /\ known' = [known EXCEPT ![h] = FALSE]
    /\ result' = [result EXCEPT ![h] = "none"]
    /\ UNCHANGED <<dbCats, cache, fresh>>

Work(h)   == pc[h] = "work" /\ Leave(h)
Cancel(h) == pc[h] # "idle" /\ Leave(h)

Step(h) ==
    \/ BeginLookup(h) \/ LookupCached(h)
    \/ ReadFirst(h) \/ ReadSecond(h) \/ LeaveLoad(h) \/ StoreCache(h)
    \/ Work(h)

Next ==
    \/ AddCategory \/ Expire
    \/ \E h \in Handlers :
          \/ BeginRead(h) \/ BeginCreate(h) \/ BeginBatch(h)
          \/ AcquireConn(h) \/ AcquireLoader(h)
          \/ Step(h) \/ Cancel(h)

(* Python and Postgres go on with a handler that can go on, and a returned   *)
(* connection goes to the handlers that wait in turn, so none of them is     *)
(* passed over for ever.                                                     *)
Fairness ==
    \A h \in Handlers :
        WF_vars(Step(h)) /\ SF_vars(AcquireConn(h)) /\ SF_vars(AcquireLoader(h))

Spec == Init /\ [][Next]_vars
FairSpec == Spec /\ Fairness

-----------------------------------------------------------------------------
Waiting(h) == pc[h] \in {"want_conn", "want_loader"}
Loading(h) == pc[h] \in {"load", "load_more", "leave_load"}

TypeOK ==
    /\ dbCats \subseteq Cats
    /\ cache \in [Tables -> SUBSET Cats]
    /\ fresh \in BOOLEAN
    /\ free \subseteq Conns
    /\ conn \in [Handlers -> Conns \cup {None}]
    /\ loader \in [Handlers -> Conns \cup {None}]
    /\ pc \in [Handlers -> Labels]
    /\ op \in [Handlers -> Ops]
    /\ left \in [Handlers -> Nat]
    /\ cat \in [Handlers -> Cats \cup {None}]
    /\ retried \in [Handlers -> BOOLEAN]
    /\ got \in [Handlers -> [Tables -> SUBSET Cats]]
    /\ known \in [Handlers -> BOOLEAN]
    /\ result \in [Handlers -> {"none", "found", "unknown"}]
    /\ \A h \in Handlers :
          /\ loader[h] # None <=> Loading(h)
          /\ op[h] = "batch" => h \in BatchHandlers
          /\ pc[h] \in {"idle", "want_conn"} => conn[h] = None
          /\ conn[h] # None /\ pc[h] # "work" => op[h] = "batch"
          /\ pc[h] = "validate" => left[h] > 0
          /\ pc[h] = "want_conn" /\ left[h] > 0 => op[h] = "batch"

(* As long as fewer handlers than the pool has connections can validate      *)
(* inside a transaction, the handlers never all wait for a connection of     *)
(* each other: one of them can always go on.                                 *)
NoStall ==
    (\E h \in Handlers : Waiting(h)) =>
        free # {} \/ \E h \in Handlers : pc[h] # "idle" /\ ~Waiting(h)

(* "A category added since the cache was filled is worth one retry": however *)
(* old the cache is, and whichever load stores it last, a category that was  *)
(* there when the lookup began is never refused.                             *)
KnownCategoryFound ==
    \A h \in Handlers : known[h] => result[h] # "unknown"

(* A load is two statements, but a category never gets into the cache        *)
(* without its fields, which would refuse the fields of every item of it.    *)
NoBareCategory == cache["categories"] \subseteq cache["category_field_defs"]

(* Every request is answered (or was cancelled). *)
EveryRequestAnswered == \A h \in Handlers : pc[h] # "idle" ~> pc[h] = "idle"
=============================================================================
