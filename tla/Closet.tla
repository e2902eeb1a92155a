------------------------------- MODULE Closet -------------------------------
(***************************************************************************)
(* The closet: items and profiles of the users of one Postgres database,   *)
(* and the service functions of backend/app/services/items.py and          *)
(* profile.py that write them, run by concurrent request handlers.         *)
(*                                                                         *)
(* Every handler works in READ COMMITTED transactions, so each step below  *)
(* is one SQL statement (or the run of Python between two awaits) and the  *)
(* steps of different handlers interleave.  What Postgres does for the     *)
(* code is modelled as the code relies on it: a row is visible to others   *)
(* only once committed, a statement that needs a locked row waits, an      *)
(* insert takes a key-share lock on its auth.users row until it commits,   *)
(* and a deleted auth.users row takes its rows with it (0001_schema.sql).  *)
(***************************************************************************)
EXTENDS Integers, Sequences, FiniteSets

CONSTANTS
    Users,        \* ids a verified token can carry
    Workers,      \* request handlers in flight at the same time
    ItemIds,      \* uuids Postgres can generate; one is never generated twice
    Categories,   \* category ids
    FieldSets,    \* values of an item's `fields` object
    Template,     \* <<category, fields>> pairs that validate_fields accepts
    MaxItems,     \* settings.max_items_per_user
    MaxBatch,     \* settings.max_batch_items
    Singles,      \* payloads the clients send to create_item
    Batches,      \* payload lists the clients send to create_items
    Edits,        \* patches the clients send to update_item
    Absent,       \* no row, no request
    Keep          \* a key the patch does not supply

Payload == [category : Categories, fields : FieldSets]
Patch   == [category : Categories \cup {Keep}, fields : FieldSets \cup {Keep}]
Row     == [owner : Users, category : Categories, fields : FieldSets]
Request ==
    [op : {"create", "batch", "update", "delete_account"}, user : Users,
     payloads : Seq(Payload), item : ItemIds \cup {Absent}, patch : Patch]

ASSUME CapAssumption   == MaxItems \in Nat /\ MaxBatch \in Nat
ASSUME FiniteAssumption == IsFiniteSet(Workers) /\ IsFiniteSet(ItemIds)
ASSUME AbsentAssumption == Absent \notin Row /\ Absent \notin Request /\ Absent \notin ItemIds
ASSUME KeepAssumption  == Keep \notin Categories /\ Keep \notin FieldSets
ASSUME WorkloadAssumption ==
    /\ Singles \subseteq Payload
    /\ Batches \subseteq Seq(Payload)
    /\ \A b \in Batches : Len(b) <= MaxBatch
    /\ Edits \subseteq Patch

VARIABLES
    authUsers,    \* auth.users
    row,          \* the row an id was generated for, uncommitted ones included
    items,        \* ids of the committed rows of public.items
    profiles,     \* users with a committed row in public.user_profile
    late,         \* users whose Admin API delete was given up on but may still run
    closed,       \* users whose client was told the account is deleted
    pc,           \* where each handler is
    req,          \* the request it serves
    txn,          \* its local variables and the uncommitted work of its transaction
    outcome       \* what its last finished request returned

tables == <<authUsers, row, items, profiles, late, closed>>
vars   == <<tables, pc, req, txn, outcome>>

Labels   == {"idle", "count", "insert", "read", "write", "purge_items",
             "purge_profile", "purge_commit", "admin", "answered", "fallback"}
Entries  == {"created", "closet_full", "validation_failed", "database_rejected"}
Outcomes == {"none", "lost", "error", "created", "batch_done", "closet_full",
             "validation_failed", "not_found", "updated", "account_deleted"}

Txn == [remaining : Int,                 \* create_items' `remaining`
        results : Seq(Entries),          \* ... and its `results`
        existing : Row \cup {Absent},    \* update_item's `existing`
        staged : SUBSET ItemIds,         \* items inserted and not committed
        doomed : SUBSET ItemIds,         \* items deleted and not committed
        wiped : SUBSET Users]            \* profiles deleted and not committed

NoTxn == [remaining |-> 0, results |-> <<>>, existing |-> Absent,
          staged |-> {}, doomed |-> {}, wiped |-> {}]

NoEdit == [category |-> Keep, fields |-> Keep]

(* validate_fields: a known category whose template takes these fields. *)
Fits(c, f) == <<c, f>> \in Template

(* Slip: the policies of 0003_rls.sql are not in force. *)
VisibleToAll(u) == items

(* The committed rows a transaction of user u sees under row level security. *)
Visible(u) == {i \in items : row[i].owner = u}

(* A transaction with uncommitted writes holds locks on its user's rows. *)
HoldsLock(w) == txn[w].staged # {} \/ txn[w].doomed # {} \/ txn[w].wiped # {}

(* No uncommitted delete holds row i: a statement writing it need not wait. *)
Unlocked(i) == \A w \in Workers : i \notin txn[w].doomed

Init ==
    /\ authUsers = Users
    /\ row = [i \in ItemIds |-> Absent]
    /\ items = {} /\ profiles = {} /\ late = {} /\ closed = {}
    /\ pc = [w \in Workers |-> "idle"]
    /\ req = [w \in Workers |-> Absent]
    /\ txn = [w \in Workers |-> NoTxn]
    /\ outcome = [w \in Workers |-> "none"]

-----------------------------------------------------------------------------
(* Starting, continuing and ending a request. *)

Begin(w, r, label) ==
    /\ pc[w] = "idle"
    /\ pc' = [pc EXCEPT ![w] = label]
    /\ req' = [req EXCEPT ![w] = r]
    /\ outcome' = [outcome EXCEPT ![w] = "none"]
    /\ UNCHANGED <<tables, txn>>

Goto(w, from, to) ==
    /\ pc[w] = from
    /\ pc' = [pc EXCEPT ![w] = to]
    /\ UNCHANGED outcome

(* Slip: the connection goes back to the pool with its transaction open. *)
FinishUnclosed(w, o) ==
    /\ pc' = [pc EXCEPT ![w] = "idle"]
    /\ req' = [req EXCEPT ![w] = Absent]
    /\ outcome' = [outcome EXCEPT ![w] = o]
    /\ UNCHANGED txn

(* The transaction is over, one way or the other, and the caller gets o. *)
Finish(w, o) ==
    /\ pc' = [pc EXCEPT ![w] = "idle"]
    /\ req' = [req EXCEPT ![w] = Absent]
    /\ txn' = [txn EXCEPT ![w] = NoTxn]
    /\ outcome' = [outcome EXCEPT ![w] = o]

(* The handler is cancelled, its process dies or a statement raises: Postgres *)
(* rolls the open transaction back.  An Admin API request already on the wire *)
(* may still be carried out.                                                  *)
Abort(w) ==
    /\ pc[w] # "idle"
    /\ Finish(w, "lost")
    /\ \/ UNCHANGED late
       \/ pc[w] = "admin" /\ late' = late \cup {req[w].user}
    /\ UNCHANGED <<authUsers, row, items, profiles, closed>>

-----------------------------------------------------------------------------
(* create_item and create_items. *)

Creation(op, u, ps) == [op |-> op, user |-> u, payloads |-> ps, item |-> Absent, patch |-> NoEdit]

(* create_item validates before it opens its transaction. *)
BeginCreate(w, u, p) ==
    \/ /\ Fits(p.category, p.fields)
       /\ Begin(w, Creation("create", u, <<p>>), "count")
    \/ /\ ~Fits(p.category, p.fields)
       /\ pc[w] = "idle"
       /\ outcome' = [outcome EXCEPT ![w] = "validation_failed"]
       /\ UNCHANGED <<tables, pc, req, txn>>

BeginBatch(w, u, ps) == Begin(w, Creation("batch", u, ps), "count")

(* The count of visible items, in the new transaction; create_item raises at *)
(* the cap.                                                                  *)
ReadCount(w) ==
    LET left == MaxItems - Cardinality(Visible(req[w].user))
    IN  /\ pc[w] = "count"
        /\ \/ /\ req[w].op = "create" /\ left <= 0
              /\ Finish(w, "closet_full")
           \/ /\ req[w].op = "batch" \/ left > 0
              /\ Goto(w, "count", "insert")
              /\ txn' = [txn EXCEPT ![w].remaining = left]
              /\ UNCHANGED req
        /\ UNCHANGED tables

(* The payload the loop of create_items is at. *)
Entry(w) == req[w].payloads[Len(txn[w].results) + 1]

AtEntry(w)      == pc[w] = "insert" /\ Len(txn[w].results) < Len(req[w].payloads)
AtOpenEntry(w)  == AtEntry(w) /\ txn[w].remaining > 0
AtValidEntry(w) == AtOpenEntry(w) /\ Fits(Entry(w).category, Entry(w).fields)

(* One more result; t is the transaction that goes with it. *)
Report(w, t, result) ==
    /\ txn' = [txn EXCEPT ![w] = [t EXCEPT !.results = Append(@, result)]]
    /\ UNCHANGED <<authUsers, items, profiles, late, closed, pc, req, outcome>>

EntryOverCap(w) ==
    /\ AtEntry(w)
    /\ txn[w].remaining <= 0
    /\ Report(w, txn[w], "closet_full")
    /\ UNCHANGED row

EntryInvalid(w) ==
    /\ AtOpenEntry(w) /\ ~AtValidEntry(w)
    /\ Report(w, txn[w], "validation_failed")
    /\ UNCHANGED row

InsertEntry(w, allowed, left) ==
    /\ AtValidEntry(w)
    /\ allowed
    /\ \E i \in ItemIds :
          /\ row[i] = Absent
          /\ row' = [row EXCEPT ![i] = [owner |-> req[w].user, category |-> Entry(w).category,
                                       fields |-> Entry(w).fields]]
          /\ Report(w, [txn[w] EXCEPT !.staged = @ \cup {i}, !.remaining = left], "created")

(* Slips: items.user_id without its foreign key; `remaining -= 1` forgotten. *)
EntryInsertedUnchecked(w) == InsertEntry(w, TRUE, txn[w].remaining - 1)
EntryInsertedUncounted(w) == InsertEntry(w, req[w].user \in authUsers, txn[w].remaining)

(* The insert's foreign-key check finds the auth.users row and locks it. *)
EntryInserted(w) == InsertEntry(w, req[w].user \in authUsers, txn[w].remaining - 1)

(* Slip: no savepoint, so the refused row takes the earlier ones with it. *)
EntryRejectedNoSavepoint(w) ==
    /\ AtValidEntry(w)
    /\ Report(w, [txn[w] EXCEPT !.staged = {}], "database_rejected")
    /\ UNCHANGED row

(* Postgres refuses the row: always when the auth.users row is gone, and     *)
(* sometimes for a value the models let through.  In a batch the savepoint   *)
(* is rolled back and the loop goes on; create_item lets the error out.      *)
EntryRejected(w) ==
    /\ AtValidEntry(w)
    /\ \/ req[w].op = "batch" /\ Report(w, txn[w], "database_rejected")
       \/ /\ req[w].op = "create" /\ Finish(w, "error")
          /\ UNCHANGED <<authUsers, items, profiles, late, closed>>
    /\ UNCHANGED row

Commit(w) ==
    /\ pc[w] = "insert"
    /\ Len(txn[w].results) = Len(req[w].payloads)
    /\ items' = items \cup txn[w].staged
    /\ Finish(w, IF req[w].op = "create" THEN "created" ELSE "batch_done")
    /\ UNCHANGED <<authUsers, row, profiles, late, closed>>

-----------------------------------------------------------------------------
(* update_item and delete_item. *)

(* The client names an item it once saw; an empty patch is a plain read. *)
BeginUpdate(w, u, i, p) ==
    /\ row[i] # Absent
    /\ p # NoEdit
    /\ Begin(w, [op |-> "update", user |-> u, payloads |-> <<>>,
                 item |-> i, patch |-> p], "read")

CategoryOf(p, r) == IF p.category = Keep THEN r.category ELSE p.category
FieldsOf(p, r)   == IF p.fields = Keep THEN r.fields ELSE p.fields

(* Slip: a patch that only changes the category is not re-validated. *)
RevalidatedFieldsOnly(p, r) == p.fields # Keep

Revalidated(p, r) == p.fields # Keep \/ CategoryOf(p, r) # r.category

(* What the patch becomes against the row that was read: `fields` is filled  *)
(* in from that row when only the category changes.                          *)
Resolved(p, r) ==
    IF Revalidated(p, r) THEN [p EXCEPT !.fields = FieldsOf(p, r)] ELSE p

ReadItem(w) ==
    LET i == req[w].item
        p == req[w].patch
        valid == Revalidated(p, row[i]) => Fits(CategoryOf(p, row[i]), FieldsOf(p, row[i]))
    IN  /\ pc[w] = "read"
        /\ \/ /\ i \notin Visible(req[w].user)
              /\ Finish(w, "not_found")
           \/ /\ i \in Visible(req[w].user) /\ ~valid
              /\ Finish(w, "validation_failed")
           \/ /\ i \in Visible(req[w].user) /\ valid
              /\ Goto(w, "read", "write")
              /\ txn' = [txn EXCEPT ![w].existing = row[i]]
              /\ req' = [req EXCEPT ![w].patch = Resolved(p, row[i])]
        /\ UNCHANGED tables

Assign(w) ==
    LET p == req[w].patch
    IN  row' = [row EXCEPT ![req[w].item] =
                  [owner |-> @.owner, category |-> CategoryOf(p, @), fields |-> FieldsOf(p, @)]]

(* Slip: the row is written back as an upsert, without looking whether it is there. *)
WriteItemUpsert(w) ==
    /\ pc[w] = "write"
    /\ Assign(w)
    /\ items' = items \cup {req[w].item}
    /\ Finish(w, "updated")
    /\ UNCHANGED <<authUsers, profiles, late, closed>>

(* The UPDATE assigns the patch to the newest committed version of the row, *)
(* whatever happened to it since it was read, and the transaction commits.  *)
WriteItem(w) ==
    /\ pc[w] = "write"
    /\ Unlocked(req[w].item)
    /\ \/ /\ req[w].item \notin Visible(req[w].user)
          /\ Finish(w, "not_found")
          /\ UNCHANGED row
       \/ /\ req[w].item \in Visible(req[w].user)
          /\ Assign(w)
          /\ Finish(w, "updated")
    /\ UNCHANGED <<authUsers, items, profiles, late, closed>>

(* One statement in its own transaction; no row is a NotFoundError. *)
DeleteItem(u, i) ==
    /\ i \in Visible(u)
    /\ Unlocked(i)
    /\ items' = items \ {i}
    /\ UNCHANGED <<authUsers, row, profiles, late, closed, pc, req, txn, outcome>>

-----------------------------------------------------------------------------
(* upsert_profile and delete_account. *)

(* The upsert waits while an uncommitted delete holds the profile row. *)
UpsertProfile(u) ==
    /\ u \in authUsers
    /\ \A w \in Workers : u \notin txn[w].wiped
    /\ profiles' = profiles \cup {u}
    /\ UNCHANGED <<authUsers, row, items, late, closed, pc, req, txn, outcome>>

BeginDeleteAccount(w, u) ==
    Begin(w, [op |-> "delete_account", user |-> u, payloads |-> <<>>,
              item |-> Absent, patch |-> NoEdit], "purge_items")

PurgeItems(w) ==
    /\ Goto(w, "purge_items", "purge_profile")
    /\ \A i \in Visible(req[w].user) : Unlocked(i)
    /\ txn' = [txn EXCEPT ![w].doomed = Visible(req[w].user)]
    /\ UNCHANGED <<tables, req>>

PurgeProfile(w) ==
    /\ Goto(w, "purge_profile", "purge_commit")
    /\ \A v \in Workers : req[w].user \notin txn[v].wiped
    /\ txn' = [txn EXCEPT ![w].wiped = profiles \cap {req[w].user}]
    /\ UNCHANGED <<tables, req>>

(* Slip: the Admin API is called before the transaction commits. *)
CommitPurgeAfterAdmin(w) == Goto(w, "purge_commit", "admin") /\ UNCHANGED <<tables, req, txn>>

(* The usage_counters rows go in the same transaction. *)
CommitPurge(w) ==
    /\ Goto(w, "purge_commit", "admin")
    /\ items' = items \ txn[w].doomed
    /\ profiles' = profiles \ txn[w].wiped
    /\ txn' = [txn EXCEPT ![w] = NoTxn]
    /\ UNCHANGED <<authUsers, row, late, closed, req>>

(* delete from auth.users, cascading to the user's committed rows.  It waits *)
(* for every transaction that holds a lock on that user or on those rows.    *)
RemoveUser(u) ==
    /\ \A w \in Workers : HoldsLock(w) => req[w].user # u
    /\ authUsers' = authUsers \ {u}
    /\ items' = items \ Visible(u)
    /\ profiles' = profiles \ {u}
    /\ UNCHANGED row

TellDeleted(w) ==
    /\ Finish(w, "account_deleted")
    /\ closed' = closed \cup {req[w].user}
    /\ UNCHANGED late

(* The Admin API carries the request out (or finds nobody: 404) ... *)
AdminDelete(w) ==
    /\ Goto(w, "admin", "answered")
    /\ RemoveUser(req[w].user)
    /\ UNCHANGED <<late, closed, req, txn>>

(* ... and its 200, 204 or 404 arrives. *)
AdminAnswers(w) ==
    /\ pc[w] = "answered"
    /\ TellDeleted(w)
    /\ UNCHANGED <<authUsers, row, items, profiles>>

(* Slip: a failed Admin API call is logged and not made up for. *)
AdminFailsQuietly(w) ==
    /\ pc[w] = "admin"
    /\ TellDeleted(w)
    /\ UNCHANGED <<authUsers, row, items, profiles>>

(* Another status, a timeout or no Admin API configured: a request that was *)
(* sent and not carried out yet may be carried out later.                   *)
AdminFails(w) ==
    /\ \/ Goto(w, "answered", "fallback") /\ UNCHANGED late
       \/ Goto(w, "admin", "fallback") /\ late' \in {late, late \cup {req[w].user}}
    /\ UNCHANGED <<authUsers, row, items, profiles, closed, req, txn>>

FallbackDelete(w) ==
    /\ pc[w] = "fallback"
    /\ RemoveUser(req[w].user)
    /\ TellDeleted(w)

LateDelete(u) ==
    /\ u \in late
    /\ RemoveUser(u)
    /\ late' = late \ {u}
    /\ UNCHANGED <<closed, pc, req, txn, outcome>>

-----------------------------------------------------------------------------
CreateStep(w) ==
    \/ \E u \in Users, p \in Singles : BeginCreate(w, u, p)
    \/ \E u \in Users, ps \in Batches : BeginBatch(w, u, ps)
    \/ ReadCount(w)
    \/ EntryOverCap(w)
    \/ EntryInvalid(w)
    \/ EntryInserted(w)
    \/ EntryRejected(w)
    \/ Commit(w)

UpdateStep(w) ==
    \/ \E u \in Users, i \in ItemIds, p \in Edits : BeginUpdate(w, u, i, p)
    \/ ReadItem(w)
    \/ WriteItem(w)

DeleteAccountStep(w) ==
    \/ \E u \in Users : BeginDeleteAccount(w, u)
    \/ PurgeItems(w)
    \/ PurgeProfile(w)
    \/ CommitPurge(w)
    \/ AdminDelete(w)
    \/ AdminAnswers(w)
    \/ AdminFails(w)
    \/ FallbackDelete(w)

Next ==
    \/ \E w \in Workers : CreateStep(w) \/ UpdateStep(w) \/ DeleteAccountStep(w) \/ Abort(w)
    \/ \E u \in Users, i \in ItemIds : DeleteItem(u, i)
    \/ \E u \in Users : UpsertProfile(u) \/ LateDelete(u)

Spec == Init /\ [][Next]_vars

-----------------------------------------------------------------------------
(* The shape of the tables, and of each handler's request and transaction.   *)
TablesOK ==
    /\ authUsers \subseteq Users
    /\ row \in [ItemIds -> Row \cup {Absent}]
    /\ items \subseteq {i \in ItemIds : row[i] # Absent}
    /\ profiles \subseteq Users
    /\ late \subseteq Users
    /\ closed \subseteq Users

HandlersOK ==
    /\ pc \in [Workers -> Labels]
    /\ req \in [Workers -> Request \cup {Absent}]
    /\ txn \in [Workers -> Txn]
    /\ outcome \in [Workers -> Outcomes]

(* A handler serves a request of the kind its place in the code belongs to,  *)
(* and holds only the uncommitted work that place can have.                  *)
PlaceOK(w) ==
    /\ (pc[w] = "idle") = (req[w] = Absent)
    /\ pc[w] \in {"count", "insert"} => req[w].op \in {"create", "batch"}
    /\ pc[w] \in {"read", "write"} => req[w].item \in ItemIds /\ row[req[w].item] # Absent
    /\ pc[w] = "write" => txn[w].existing \in Row
    /\ pc[w] = "insert" => Len(txn[w].results) <= Len(req[w].payloads)
    /\ pc[w] # "insert" => txn[w].results = <<>>
    /\ txn[w].staged # {} => pc[w] = "insert"
    /\ txn[w].doomed # {} => pc[w] \in {"purge_profile", "purge_commit"}
    /\ txn[w].wiped # {} => pc[w] = "purge_commit"
    /\ txn[w].staged \cup txn[w].doomed \subseteq {i \in ItemIds : row[i] # Absent}

TypeOK == TablesOK /\ HandlersOK /\ \A w \in Workers : PlaceOK(w)

(* Whatever order inserts, aborts and account deletions come in, a committed *)
(* row always belongs to an existing account, and so will every row that a   *)
(* batch in flight has inserted and may still commit.                        *)
NoOrphans ==
    /\ \A i \in items : row[i].owner \in authUsers
    /\ \A w \in Workers : \A i \in txn[w].staged : row[i].owner \in authUsers
    /\ profiles \subseteq authUsers

(* count_items and the inserts that follow it do not lock anything, so the   *)
(* cap can be overrun; but only by what the transactions that counted before *)
(* the closet filled up may still insert: one batch for each other handler.  *)
OvershootBounded ==
    \A u \in Users :
        Cardinality(Visible(u)) <= MaxItems + (Cardinality(Workers) - 1) * MaxBatch

(* "The caller is told exactly which succeeded and which did not": the rows  *)
(* a batch is about to commit are exactly its entries reported as created,   *)
(* and from the first entry refused for the cap on every entry is refused.   *)
BatchReport ==
    \A w \in Workers : pc[w] = "insert" =>
        LET R == txn[w].results
            Created == {k \in DOMAIN R : R[k] = "created"}
            RowFor(k) == [owner |-> req[w].user, category |-> req[w].payloads[k].category,
                          fields |-> req[w].payloads[k].fields]
        IN  /\ Cardinality(txn[w].staged) = Cardinality(Created)
            /\ {row[i] : i \in txn[w].staged} = {RowFor(k) : k \in Created}
            /\ \A j, k \in DOMAIN R :
                    j < k /\ R[j] = "closet_full" => R[k] = "closet_full"

(* Once delete_account has returned, nothing of the user is left, and no     *)
(* handler that was already running, no retry and no late Admin API call     *)
(* ever brings a row of theirs back.                                         *)
AccountGone ==
    \A u \in closed :
        /\ u \notin authUsers
        /\ Visible(u) = {}
        /\ u \notin profiles

(* The places where a handler waits for a lock of somebody's transaction. *)
Waits(w) ==
    \/ pc[w] = "write" /\ ~Unlocked(req[w].item)
    \/ pc[w] = "purge_items" /\ \E i \in Visible(req[w].user) : ~Unlocked(i)
    \/ pc[w] = "purge_profile" /\ \E v \in Workers : req[w].user \in txn[v].wiped
    \/ /\ pc[w] \in {"admin", "fallback"}
       /\ \E v \in Workers : HoldsLock(v) /\ req[v].user = req[w].user

(* Handlers never all wait in a circle: while any request is being served,   *)
(* one of them can go on without a timeout or an abort.                      *)
NoLockCycle ==
    (\E w \in Workers : pc[w] # "idle") =>
        \E w \in Workers : pc[w] # "idle" /\ ~Waits(w)

(* An UPDATE that waited for, or raced with, a delete of its row does not    *)
(* bring it back: an id that was deleted or rolled back is never in the      *)
(* closet again.                                                             *)
DeletedStaysDeleted ==
    [][\A i \in ItemIds :
          (row[i] # Absent /\ i \notin items /\ \A w \in Workers : i \notin txn[w].staged)
              => i \notin items']_vars

Updates(w) == pc[w] = "write" /\ pc'[w] = "idle" /\ outcome'[w] = "updated"

(* Row level security: an update changes a row of the caller and no other row. *)
OwnRowOnly ==
    [][\A w \in Workers : Updates(w) =>
          /\ row[req[w].item].owner = req[w].user
          /\ \A i \in ItemIds \ {req[w].item} : row'[i] = row[i]
          /\ row'[req[w].item].owner = req[w].user]_vars

(* An update whose row nobody changed since it was read keeps `fields` valid  *)
(* for the category: re-validation is right whenever it is not raced.         *)
UnracedUpdateFits ==
    [][\A w \in Workers :
          LET i == req[w].item
          IN  Updates(w) /\ row[i] = txn[w].existing /\ Fits(row[i].category, row[i].fields)
                  => Fits(row'[i].category, row'[i].fields)]_vars

-----------------------------------------------------------------------------
(* What the documentation says of the closet and concurrent requests break.  *)

(* "reject with a clear error once at the cap" (spec-as-built-v1.md section 5). *)
CapRespected == \A u \in Users : Cardinality(Visible(u)) <= MaxItems

(* "Changing the category re-validates fields against the new template"      *)
(* (items.py, update_item): no stored item has fields its category refuses.  *)
FieldsFitCategory == \A i \in items : Fits(row[i].category, row[i].fields)

=============================================================================
