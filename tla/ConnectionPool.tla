--------------------------- MODULE ConnectionPool ---------------------------
(***************************************************************************)
(* The application pool of backend/app/db.py: a fixed set of connections,  *)
(* each idle in the pool or held by one handler.  A handler holds one for  *)
(* the transaction of its request (rls_transaction) and may ask for a      *)
(* second one while it loads the taxonomy.  asyncpg has no limit on how    *)
(* long a handler waits, and the application sets none.                    *)
(***************************************************************************)
EXTENDS Integers, FiniteSets

CONSTANTS
    Handlers,   \* request handlers in flight at the same time
    Conns,      \* the connections, settings.db_pool_max_size of them
    None        \* no connection

ASSUME PoolAssumption == IsFiniteSet(Conns) /\ IsFiniteSet(Handlers) /\ None \notin Conns

VARIABLES
    free,       \* connections idle in the pool
    conn,       \* the connection of each handler's transaction
    loader      \* the connection each handler loads the taxonomy with

pool == <<free, conn, loader>>

InitPool ==
    /\ free = Conns
    /\ conn = [h \in Handlers |-> None]
    /\ loader = [h \in Handlers |-> None]

(* async with app_pool().acquire(): waits until a connection is free. *)
TakeConn(h) ==
    \E c \in free :
        /\ free' = free \ {c}
        /\ conn' = [conn EXCEPT ![h] = c]
        /\ UNCHANGED loader

TakeLoader(h) ==
    \E c \in free :
        /\ free' = free \ {c}
        /\ loader' = [loader EXCEPT ![h] = c]
        /\ UNCHANGED conn

HeldBy(h) == {conn[h], loader[h]} \ {None}

(* Leaving the `async with` of the load, and of everything the handler holds. *)
GiveLoader(h) ==
    /\ free' = free \cup ({loader[h]} \ {None})
    /\ loader' = [loader EXCEPT ![h] = None]
    /\ UNCHANGED conn

(* Slip: an error path that only closes the innermost `async with`. *)
GiveInnermost(h) ==
    /\ free' = free \cup (IF loader[h] # None THEN {loader[h]} ELSE HeldBy(h))
    /\ conn' = [conn EXCEPT ![h] = None]
    /\ loader' = [loader EXCEPT ![h] = None]

GiveAll(h) ==
    /\ free' = free \cup HeldBy(h)
    /\ conn' = [conn EXCEPT ![h] = None]
    /\ loader' = [loader EXCEPT ![h] = None]

(* No connection is lost or shared: each is idle in the pool or held once. *)
PoolConserved ==
    /\ free \cup UNION {HeldBy(h) : h \in Handlers} = Conns
    /\ \A h \in Handlers :
          /\ HeldBy(h) \cap free = {}
          /\ conn[h] # None => conn[h] # loader[h]
          /\ \A g \in Handlers \ {h} : HeldBy(g) \cap HeldBy(h) = {}
=============================================================================
