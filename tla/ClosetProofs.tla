---------------------------- MODULE ClosetProofs ----------------------------
(* Theorems about Closet, for every set of users, handlers and items, every *)
(* template and every cap: its types, the locks its handlers wait for, what *)
(* a step may never do to an item, and that no row outlives its account.    *)
EXTENDS Closet, FiniteSetTheorems, TLAPS

(* Rows are never forgotten: once an id was generated it keeps a row. *)
RowsKept ==
    /\ row' \in [ItemIds -> Row \cup {Absent}]
    /\ \A i \in ItemIds : row[i] # Absent => row'[i] # Absent

LEMMA EmptyTxn == NoTxn \in Txn
BY DEF NoTxn, Txn

LEMMA SameRowsKept == ASSUME TypeOK, UNCHANGED row PROVE RowsKept
BY DEF TypeOK, TablesOK, RowsKept

(* The handlers that do not move stay well-formed. *)
LEMMA OthersOK ==
    ASSUME TypeOK, RowsKept, NEW w \in Workers, NEW v \in Workers, v # w,
           pc'[v] = pc[v], req'[v] = req[v], txn'[v] = txn[v]
    PROVE  PlaceOK(v)'
<1>1. PlaceOK(v)
  BY DEF TypeOK
<1>2. txn[v] \in Txn
  BY DEF TypeOK, HandlersOK
<1>3. (pc'[v] = "idle") = (req'[v] = Absent)
  BY <1>1 DEF PlaceOK
<1> QED
  BY <1>1, <1>2, <1>3 DEF PlaceOK, RowsKept, Txn

LEMMA FinishOK ==
    ASSUME TypeOK, RowsKept, NEW w \in Workers, NEW o \in Outcomes, Finish(w, o)
    PROVE  HandlersOK' /\ \A v \in Workers : PlaceOK(v)'
<1>1. HandlersOK'
  BY EmptyTxn DEF TypeOK, HandlersOK, Finish, Labels
<1>2. PlaceOK(w)'
  BY DEF TypeOK, HandlersOK, Finish, PlaceOK, NoTxn
<1>3. ASSUME NEW v \in Workers, v # w PROVE PlaceOK(v)'
  BY <1>3, OthersOK DEF TypeOK, HandlersOK, Finish
<1> QED
  BY <1>1, <1>2, <1>3

(* A handler that goes on: what its new place, request and transaction need. *)
LEMMA ContinueOK ==
    ASSUME TypeOK, RowsKept, NEW w \in Workers,
           NEW l \in Labels \ {"idle"}, NEW r \in Request, NEW t \in Txn,
           pc' = [pc EXCEPT ![w] = l], req' = [req EXCEPT ![w] = r],
           txn' = [txn EXCEPT ![w] = t],
           outcome' \in [Workers -> Outcomes],
           l \in {"count", "insert"} => r.op \in {"create", "batch"},
           l \in {"read", "write"} => r.item \in ItemIds /\ row'[r.item] # Absent,
           l = "write" => t.existing \in Row,
           l = "insert" => Len(t.results) <= Len(r.payloads),
           l # "insert" => t.results = <<>>,
           t.staged # {} => l = "insert",
           t.doomed # {} => l \in {"purge_profile", "purge_commit"},
           t.wiped # {} => l = "purge_commit",
           \A i \in t.staged \cup t.doomed : row'[i] # Absent
    PROVE  HandlersOK' /\ \A v \in Workers : PlaceOK(v)'
<1>1. HandlersOK'
  BY DEF TypeOK, HandlersOK
<1>2. PlaceOK(w)'
  <2>1. /\ pc'[w] = l /\ req'[w] = r /\ txn'[w] = t
    BY DEF TypeOK, HandlersOK
  <2>2. r # Absent /\ l # "idle"
    BY AbsentAssumption
  <2>3. t.staged \subseteq ItemIds /\ t.doomed \subseteq ItemIds
    BY DEF Txn
  <2> QED
    BY <2>1, <2>2, <2>3 DEF PlaceOK
<1>3. ASSUME NEW v \in Workers, v # w PROVE PlaceOK(v)'
  BY <1>3, OthersOK DEF TypeOK, HandlersOK
<1> QED
  BY <1>1, <1>2, <1>3

(* What TypeOK says of the request and the transaction of a busy handler. *)
LEMMA BusyOK ==
    ASSUME TypeOK, NEW w \in Workers, pc[w] # "idle"
    PROVE  /\ req[w] \in Request /\ req[w].user \in Users
           /\ txn[w] \in Txn /\ PlaceOK(w)
BY DEF TypeOK, HandlersOK, PlaceOK, Request

LEMMA BeginOK ==
    ASSUME TypeOK, NEW w \in Workers, NEW l \in {"count", "read", "purge_items"},
           NEW r \in Request, Begin(w, r, l),
           l = "count" => r.op \in {"create", "batch"},
           l = "read" => r.item \in ItemIds /\ row[r.item] # Absent
    PROVE  TypeOK'
<1>1. RowsKept
  BY SameRowsKept DEF Begin, tables
<1>2. /\ txn[w] \in Txn /\ txn[w].results = <<>>
      /\ txn[w].staged = {} /\ txn[w].doomed = {} /\ txn[w].wiped = {}
  BY DEF TypeOK, HandlersOK, PlaceOK, Begin
<1>3. /\ txn' = [txn EXCEPT ![w] = txn[w]]
      /\ outcome' \in [Workers -> Outcomes]
      /\ row' = row
      /\ l \in Labels \ {"idle"}
  BY DEF TypeOK, HandlersOK, Begin, tables, Outcomes, Labels
<1>4. HandlersOK' /\ \A v \in Workers : PlaceOK(v)'
  BY <1>1, <1>2, <1>3, ContinueOK DEF Begin
<1>5. TablesOK'
  BY DEF TypeOK, TablesOK, Begin, tables
<1> QED
  BY <1>4, <1>5 DEF TypeOK

LEMMA InitTypeOK == Init => TypeOK
BY EmptyTxn DEF Init, TypeOK, TablesOK, HandlersOK, PlaceOK, NoTxn, Labels, Outcomes

(* The closet of a user is finite, so count_items returns a number. *)
LEMMA CountIsNat ==
    ASSUME TypeOK, NEW u PROVE IsFiniteSet(Visible(u)) /\ Cardinality(Visible(u)) \in Nat
<1>1. Visible(u) \subseteq ItemIds
  BY DEF TypeOK, TablesOK, Visible
<1> QED
  BY <1>1, FiniteAssumption, FS_Subset, FS_CardinalityType

(* What the loop of create_items does to the transaction keeps it well-formed. *)
LEMMA ReportOK ==
    ASSUME TypeOK, RowsKept, NEW w \in Workers, AtEntry(w),
           NEW result \in Entries, NEW t \in Txn,
           Report(w, t, result),
           t.results = txn[w].results, t.existing = txn[w].existing,
           t.doomed = txn[w].doomed, t.wiped = txn[w].wiped,
           \A i \in t.staged : row'[i] # Absent
    PROVE  TypeOK'
<1> DEFINE rs == Append(t.results, result)
           t2 == [t EXCEPT !.results = rs]
<1>01. rs \in Seq(Entries) /\ Len(rs) = Len(t.results) + 1
  BY DEF Txn
<1>02. t2 \in Txn /\ t2.results = rs /\ t2.staged = t.staged /\ t2.doomed = t.doomed /\ t2.wiped = t.wiped
  BY <1>01 DEF Txn
<1>1. txn' = [txn EXCEPT ![w] = t2]
  BY DEF Report
<1> HIDE DEF rs
<1>2. /\ pc[w] = "insert" /\ req[w] \in Request /\ req[w].op \in {"create", "batch"}
      /\ txn[w] \in Txn /\ txn[w].doomed = {} /\ txn[w].wiped = {}
      /\ Len(txn[w].results) < Len(req[w].payloads)
  BY BusyOK DEF AtEntry, PlaceOK
<1>3. Len(t2.results) <= Len(req[w].payloads)
  <2>1. txn[w].results \in Seq(Entries) /\ req[w].payloads \in Seq(Payload)
    BY <1>2 DEF Txn, Request
  <2> QED
    BY <1>01, <1>02, <1>2, <2>1
<1>4. /\ pc' = [pc EXCEPT ![w] = "insert"] /\ req' = [req EXCEPT ![w] = req[w]]
      /\ outcome' \in [Workers -> Outcomes]
      /\ "insert" \in Labels \ {"idle"}
  BY <1>2 DEF TypeOK, HandlersOK, Report, Labels
<1>5. \A i \in t2.staged \cup t2.doomed : row'[i] # Absent
  BY <1>02, <1>2
<1>6. HandlersOK' /\ \A v \in Workers : PlaceOK(v)'
  BY <1>02, <1>1, <1>2, <1>3, <1>4, <1>5, ContinueOK
<1>7. TablesOK'
  BY DEF TypeOK, TablesOK, Report, RowsKept
<1> QED
  BY <1>6, <1>7 DEF TypeOK

LEMMA EntryIsPayload ==
    ASSUME TypeOK, NEW w \in Workers, AtEntry(w) PROVE Entry(w) \in Payload
<1>1. req[w].payloads \in Seq(Payload) /\ txn[w].results \in Seq(Entries)
  BY BusyOK DEF AtEntry, Request, Txn
<1> QED
  BY <1>1 DEF AtEntry, Entry

LEMMA CreateTypeOK ==
    ASSUME TypeOK, NEW w \in Workers, CreateStep(w)
    PROVE  TypeOK'
<1>1. ASSUME NEW u \in Users, NEW p \in Singles, BeginCreate(w, u, p)
      PROVE  TypeOK'
  <2>1. CASE Fits(p.category, p.fields)
    <3>1. p \in Payload
      BY WorkloadAssumption
    <3>2. Creation("create", u, <<p>>) \in Request
      BY <3>1, KeepAssumption DEF Creation, Request, NoEdit, Patch
    <3>3. Creation("create", u, <<p>>).op = "create"
      BY DEF Creation
    <3> QED
      BY <1>1, <2>1, <3>2, <3>3, BeginOK DEF BeginCreate
  <2>2. CASE ~Fits(p.category, p.fields)
    BY <1>1, <2>2 DEF BeginCreate, TypeOK, TablesOK, HandlersOK, PlaceOK, tables, Outcomes
  <2> QED
    BY <2>1, <2>2
<1>2. ASSUME NEW u \in Users, NEW ps \in Batches, BeginBatch(w, u, ps)
      PROVE  TypeOK'
  <2>1. Creation("batch", u, ps) \in Request
    BY WorkloadAssumption DEF Creation, Request, NoEdit, Patch
  <2>2. Creation("batch", u, ps).op = "batch"
    BY DEF Creation
  <2> QED
    BY <1>2, <2>1, <2>2, BeginOK DEF BeginBatch
<1>3. CASE ReadCount(w)
  <2> DEFINE left == MaxItems - Cardinality(Visible(req[w].user))
  <2>1. RowsKept /\ TablesOK'
    BY <1>3, SameRowsKept DEF ReadCount, TypeOK, TablesOK, tables
  <2>2. CASE Finish(w, "closet_full")
    BY <2>1, <2>2, FinishOK DEF TypeOK, Outcomes
  <2>3. CASE Goto(w, "count", "insert") /\ txn' = [txn EXCEPT ![w].remaining = left] /\ req' = req
    <3> DEFINE t == [txn[w] EXCEPT !.remaining = left]
    <3>1. /\ req[w] \in Request /\ req[w].op \in {"create", "batch"} /\ txn[w] \in Txn
          /\ txn[w].staged = {} /\ txn[w].doomed = {} /\ txn[w].wiped = {} /\ txn[w].results = <<>>
      BY <2>3, BusyOK DEF Goto, PlaceOK
    <3>2. left \in Int
      BY CountIsNat, CapAssumption
    <3>3. /\ t \in Txn /\ t.staged = {} /\ t.doomed = {} /\ t.wiped = {} /\ t.results = <<>>
          /\ txn' = [txn EXCEPT ![w] = t]
      BY <2>3, <3>1, <3>2 DEF Txn
    <3>4. /\ pc' = [pc EXCEPT ![w] = "insert"] /\ req' = [req EXCEPT ![w] = req[w]]
          /\ outcome' \in [Workers -> Outcomes] /\ "insert" \in Labels \ {"idle"}
      BY <2>3 DEF Goto, TypeOK, HandlersOK, Labels
    <3>5. Len(t.results) <= Len(req[w].payloads)
      BY <3>1, <3>3 DEF Request
    <3> HIDE DEF t, left
    <3>6. HandlersOK' /\ \A v \in Workers : PlaceOK(v)'
      BY <2>1, <3>1, <3>3, <3>4, <3>5, ContinueOK
    <3> QED
      BY <2>1, <3>6 DEF TypeOK
  <2> QED
    BY <1>3, <2>2, <2>3 DEF ReadCount
<1>4. CASE EntryOverCap(w) \/ EntryInvalid(w)
  <2>1. PICK result \in Entries : Report(w, txn[w], result) /\ AtEntry(w) /\ row' = row
    BY <1>4 DEF EntryOverCap, EntryInvalid, AtOpenEntry, Entries
  <2>2. txn[w] \in Txn /\ \A i \in txn[w].staged : row'[i] # Absent
    BY <2>1, BusyOK DEF AtEntry, PlaceOK
  <2> QED
    BY <2>1, <2>2, SameRowsKept, ReportOK
<1>5. CASE EntryInserted(w)
  <2>1. PICK i \in ItemIds :
          /\ row[i] = Absent
          /\ row' = [row EXCEPT ![i] = [owner |-> req[w].user, category |-> Entry(w).category,
                                       fields |-> Entry(w).fields]]
          /\ Report(w, [txn[w] EXCEPT !.staged = @ \cup {i}, !.remaining = txn[w].remaining - 1],
                    "created")
    BY <1>5 DEF EntryInserted, InsertEntry
  <2> DEFINE new == [owner |-> req[w].user, category |-> Entry(w).category,
                     fields |-> Entry(w).fields]
             t == [txn[w] EXCEPT !.staged = @ \cup {i}, !.remaining = txn[w].remaining - 1]
  <2>2. AtEntry(w) /\ pc[w] # "idle"
    BY <1>5 DEF EntryInserted, InsertEntry, AtValidEntry, AtOpenEntry, AtEntry
  <2>3. new \in Row /\ new # Absent
    BY <2>2, BusyOK, EntryIsPayload, AbsentAssumption DEF Row, Payload
  <2>4. RowsKept /\ row'[i] # Absent
    BY <2>1, <2>3 DEF RowsKept, TypeOK, TablesOK
  <2>5. txn[w] \in Txn /\ PlaceOK(w)
    BY <2>2, BusyOK
  <2>6. /\ t \in Txn /\ t.staged = txn[w].staged \cup {i} /\ t.results = txn[w].results
        /\ t.existing = txn[w].existing /\ t.doomed = txn[w].doomed /\ t.wiped = txn[w].wiped
    <3>1. txn[w].staged \cup {i} \in SUBSET ItemIds /\ txn[w].remaining - 1 \in Int
      BY <2>5 DEF Txn
    <3>2. t = [txn[w] EXCEPT !.staged = txn[w].staged \cup {i}, !.remaining = txn[w].remaining - 1]
      BY <2>5, Zenon DEF Txn
    <3> QED
      BY <2>5, <3>1, <3>2 DEF Txn
  <2>7. \A j \in t.staged : row'[j] # Absent
    BY <2>4, <2>5, <2>6 DEF RowsKept, PlaceOK
  <2> HIDE DEF t
  <2> QED
    BY <2>1, <2>2, <2>4, <2>6, <2>7, ReportOK DEF Entries, t
<1>6. CASE EntryRejected(w)
  <2>1. AtEntry(w) /\ row' = row
    BY <1>6 DEF EntryRejected, AtValidEntry, AtOpenEntry
  <2>2. txn[w] \in Txn /\ \A i \in txn[w].staged : row'[i] # Absent
    BY <2>1, BusyOK DEF AtEntry, PlaceOK
  <2>3. CASE Report(w, txn[w], "database_rejected")
    BY <2>1, <2>2, <2>3, SameRowsKept, ReportOK DEF Entries
  <2>4. CASE Finish(w, "error") /\ UNCHANGED <<authUsers, items, profiles, late, closed>>
    BY <2>1, <2>4, SameRowsKept, FinishOK DEF TypeOK, TablesOK, Outcomes
  <2> QED
    BY <1>6, <2>3, <2>4 DEF EntryRejected
<1>7. CASE Commit(w)
  <2>1. RowsKept
    BY <1>7, SameRowsKept DEF Commit
  <2>2. PICK o \in Outcomes : Finish(w, o)
    BY <1>7 DEF Commit, Outcomes
  <2>3. TablesOK'
    BY <1>7 DEF Commit, TypeOK, TablesOK, PlaceOK
  <2> QED
    BY <2>1, <2>2, <2>3, FinishOK DEF TypeOK
<1> QED
  BY <1>1, <1>2, <1>3, <1>4, <1>5, <1>6, <1>7 DEF CreateStep

LEMMA UpdateTypeOK ==
    ASSUME TypeOK, NEW w \in Workers, UpdateStep(w)
    PROVE  TypeOK'
<1>1. ASSUME NEW u \in Users, NEW i \in ItemIds, NEW p \in Edits, BeginUpdate(w, u, i, p)
      PROVE  TypeOK'
  <2> DEFINE r == [op |-> "update", user |-> u, payloads |-> <<>>, item |-> i, patch |-> p]
  <2>1. r \in Request /\ r.op = "update" /\ r.item = i
    BY WorkloadAssumption DEF Request
  <2>2. Begin(w, r, "read") /\ row[i] # Absent
    BY <1>1 DEF BeginUpdate
  <2> HIDE DEF r
  <2> QED
    BY <2>1, <2>2, BeginOK
<1>2. CASE ReadItem(w)
  <2> DEFINE i == req[w].item
             p == req[w].patch
             q == Resolved(p, row[i])
  <2>1. RowsKept /\ TablesOK'
    BY <1>2, SameRowsKept DEF ReadItem, TypeOK, TablesOK, tables
  <2>2. ASSUME NEW o \in Outcomes, Finish(w, o) PROVE TypeOK'
    BY <2>1, <2>2, FinishOK DEF TypeOK
  <2>3. CASE /\ Goto(w, "read", "write") /\ i \in Visible(req[w].user)
             /\ txn' = [txn EXCEPT ![w].existing = row[i]]
             /\ req' = [req EXCEPT ![w].patch = q]
    <3> DEFINE t == [txn[w] EXCEPT !.existing = row[i]]
               r == [req[w] EXCEPT !.patch = q]
    <3>1. /\ req[w] \in Request /\ txn[w] \in Txn /\ txn[w].results = <<>>
          /\ txn[w].staged = {} /\ txn[w].doomed = {} /\ txn[w].wiped = {}
          /\ i \in ItemIds /\ row[i] # Absent
      BY <2>3, BusyOK DEF Goto, PlaceOK
    <3>2. row[i] \in Row
      BY <3>1 DEF TypeOK, TablesOK
    <3>3. q \in Patch
      <4>1. p \in Patch
        BY <3>1 DEF Request
      <4>2. FieldsOf(p, row[i]) \in FieldSets \cup {Keep}
        BY <3>2, <4>1 DEF FieldsOf, Patch, Row
      <4> QED
        BY <4>1, <4>2 DEF Resolved, Patch
    <3> HIDE DEF q
    <3>4. /\ t \in Txn /\ t.results = <<>> /\ t.existing = row[i]
          /\ t.staged = {} /\ t.doomed = {} /\ t.wiped = {}
          /\ txn' = [txn EXCEPT ![w] = t]
      BY <2>3, <3>1, <3>2 DEF Txn
    <3>5. /\ r \in Request /\ r.item = i
          /\ req' = [req EXCEPT ![w] = r]
      BY <2>3, <3>1, <3>3 DEF Request
    <3>6. /\ pc' = [pc EXCEPT ![w] = "write"] /\ row' = row
          /\ outcome' \in [Workers -> Outcomes] /\ "write" \in Labels \ {"idle"}
      BY <1>2, <2>3 DEF Goto, ReadItem, tables, TypeOK, HandlersOK, Labels
    <3> HIDE DEF t, r, i
    <3>7. HandlersOK' /\ \A v \in Workers : PlaceOK(v)'
      BY <2>1, <3>1, <3>2, <3>4, <3>5, <3>6, ContinueOK
    <3> QED
      BY <2>1, <3>7 DEF TypeOK
  <2> QED
    BY <1>2, <2>2, <2>3 DEF ReadItem, Outcomes
<1>3. CASE WriteItem(w)
  <2>1. PICK o \in Outcomes : Finish(w, o)
    BY <1>3 DEF WriteItem, Outcomes
  <2>2. RowsKept
    <3>1. CASE UNCHANGED row
      BY <3>1, SameRowsKept
    <3>2. CASE Assign(w)
      <4> DEFINE i == req[w].item
                 new == [owner |-> row[i].owner, category |-> CategoryOf(req[w].patch, row[i]),
                         fields |-> FieldsOf(req[w].patch, row[i])]
      <4>1. req[w] \in Request /\ i \in ItemIds /\ row[i] \in Row
        BY <1>3, BusyOK DEF WriteItem, PlaceOK, TypeOK, TablesOK
      <4>2. new \in Row
        BY <4>1 DEF Request, Patch, Row, CategoryOf, FieldsOf
      <4>3. row' = [row EXCEPT ![i] = new]
        BY <3>2, <4>1 DEF Assign, TypeOK, TablesOK
      <4>4. new # Absent
        BY <4>2, AbsentAssumption
      <4> HIDE DEF new
      <4> QED
        BY <4>1, <4>2, <4>3, <4>4 DEF RowsKept, TypeOK, TablesOK
    <3> QED
      BY <1>3, <3>1, <3>2 DEF WriteItem
  <2>3. TablesOK'
    BY <1>3, <2>2 DEF WriteItem, TypeOK, TablesOK, RowsKept
  <2> QED
    BY <2>1, <2>2, <2>3, FinishOK DEF TypeOK
<1> QED
  BY <1>1, <1>2, <1>3 DEF UpdateStep

LEMMA RemoveUserOK ==
    ASSUME TypeOK, NEW u \in Users, RemoveUser(u),
           late' \subseteq Users, closed' \subseteq Users
    PROVE  RowsKept /\ TablesOK'
BY SameRowsKept DEF RemoveUser, TypeOK, TablesOK

(* A step of delete_account that stays in the function. *)
LEMMA GoOnDeletingOK ==
    ASSUME TypeOK, NEW w \in Workers, NEW from \in Labels \ {"idle"},
           NEW to \in {"purge_profile", "purge_commit", "admin", "answered", "fallback"},
           NEW t \in Txn, Goto(w, from, to), UNCHANGED row, TablesOK',
           req' = req, txn' = [txn EXCEPT ![w] = t],
           t.results = <<>>, t.staged = {},
           t.doomed # {} => to \in {"purge_profile", "purge_commit"},
           t.wiped # {} => to = "purge_commit",
           t.doomed \subseteq {i \in ItemIds : row[i] # Absent}
    PROVE  TypeOK'
<1>1. req[w] \in Request /\ RowsKept
  BY BusyOK, SameRowsKept DEF Goto
<1>2. /\ pc' = [pc EXCEPT ![w] = to] /\ req' = [req EXCEPT ![w] = req[w]]
      /\ outcome' \in [Workers -> Outcomes] /\ to \in Labels \ {"idle"}
  BY DEF Goto, TypeOK, HandlersOK, Labels
<1>3. HandlersOK' /\ \A v \in Workers : PlaceOK(v)'
  BY <1>1, <1>2, ContinueOK
<1> QED
  BY <1>3 DEF TypeOK

LEMMA DeleteAccountTypeOK ==
    ASSUME TypeOK, NEW w \in Workers, DeleteAccountStep(w)
    PROVE  TypeOK'
<1>1. ASSUME NEW u \in Users, BeginDeleteAccount(w, u) PROVE TypeOK'
  <2> DEFINE r == [op |-> "delete_account", user |-> u, payloads |-> <<>>,
                   item |-> Absent, patch |-> NoEdit]
  <2>1. r \in Request
    BY DEF Request, NoEdit, Patch
  <2>2. Begin(w, r, "purge_items")
    BY <1>1 DEF BeginDeleteAccount
  <2> HIDE DEF r
  <2> QED
    BY <2>1, <2>2, BeginOK
<1>2. CASE PurgeItems(w)
  <2> DEFINE t == [txn[w] EXCEPT !.doomed = Visible(req[w].user)]
  <2>1. /\ txn[w] \in Txn /\ txn[w].results = <<>>
        /\ txn[w].staged = {} /\ txn[w].wiped = {}
    BY <1>2, BusyOK DEF PurgeItems, Goto, PlaceOK
  <2>2. Visible(req[w].user) \subseteq {i \in ItemIds : row[i] # Absent}
    BY DEF Visible, TypeOK, TablesOK
  <2>3. /\ t \in Txn /\ t.results = <<>> /\ t.staged = {} /\ t.wiped = {}
        /\ t.doomed = Visible(req[w].user)
    BY <2>1, <2>2 DEF Txn
  <2>4. txn' = [txn EXCEPT ![w] = t] /\ TablesOK'
    BY <1>2 DEF PurgeItems, TypeOK, TablesOK, tables
  <2> HIDE DEF t
  <2> QED
    BY <1>2, <2>2, <2>3, <2>4, GoOnDeletingOK DEF PurgeItems, Labels, tables
<1>3. CASE PurgeProfile(w)
  <2> DEFINE t == [txn[w] EXCEPT !.wiped = profiles \cap {req[w].user}]
  <2>1. /\ txn[w] \in Txn /\ txn[w].results = <<>> /\ txn[w].staged = {}
        /\ txn[w].doomed \subseteq {i \in ItemIds : row[i] # Absent}
    BY <1>3, BusyOK DEF PurgeProfile, Goto, PlaceOK
  <2>2. profiles \cap {req[w].user} \subseteq Users
    BY DEF TypeOK, TablesOK
  <2>3. /\ t \in Txn /\ t.results = <<>> /\ t.staged = {} /\ t.doomed = txn[w].doomed
    BY <2>1, <2>2 DEF Txn
  <2>4. txn' = [txn EXCEPT ![w] = t] /\ TablesOK'
    BY <1>3 DEF PurgeProfile, TypeOK, TablesOK, tables
  <2> HIDE DEF t
  <2> QED
    BY <1>3, <2>1, <2>3, <2>4, GoOnDeletingOK DEF PurgeProfile, Labels, tables
<1>4. CASE CommitPurge(w)
  <2>1. TablesOK'
    BY <1>4 DEF CommitPurge, TypeOK, TablesOK
  <2> QED
    BY <1>4, <2>1, EmptyTxn, GoOnDeletingOK DEF CommitPurge, Labels, NoTxn
<1>5. CASE AdminDelete(w) \/ AdminFails(w)
  <2>1. /\ req[w].user \in Users /\ txn[w] \in Txn /\ txn[w].results = <<>>
        /\ txn[w].staged = {} /\ txn[w].doomed = {} /\ txn[w].wiped = {}
    BY <1>5, BusyOK DEF AdminDelete, AdminFails, Goto, PlaceOK
  <2>2. TablesOK' /\ row' = row
    BY <1>5, <2>1, RemoveUserOK DEF AdminDelete, AdminFails, RemoveUser, TypeOK, TablesOK
  <2>3. /\ txn' = [txn EXCEPT ![w] = txn[w]] /\ req' = req
    BY <1>5 DEF AdminDelete, AdminFails, TypeOK, HandlersOK
  <2>4. PICK from \in Labels \ {"idle"}, to \in {"answered", "fallback"} : Goto(w, from, to)
    BY <1>5 DEF AdminDelete, AdminFails, Labels
  <2> QED
    BY <2>1, <2>2, <2>3, <2>4, GoOnDeletingOK
<1>6. CASE AdminAnswers(w) \/ FallbackDelete(w)
  <2>1. req[w].user \in Users
    BY <1>6, BusyOK DEF AdminAnswers, FallbackDelete
  <2>2. Finish(w, "account_deleted") /\ "account_deleted" \in Outcomes
    BY <1>6 DEF AdminAnswers, FallbackDelete, TellDeleted, Outcomes
  <2>3. late' \subseteq Users /\ closed' \subseteq Users
    BY <1>6, <2>1 DEF AdminAnswers, FallbackDelete, TellDeleted, TypeOK, TablesOK
  <2>4. RowsKept /\ TablesOK'
    BY <1>6, <2>1, <2>3, RemoveUserOK, SameRowsKept
       DEF AdminAnswers, FallbackDelete, TypeOK, TablesOK
  <2> QED
    BY <2>2, <2>4, FinishOK DEF TypeOK
<1> QED
  BY <1>1, <1>2, <1>3, <1>4, <1>5, <1>6 DEF DeleteAccountStep

(* Steps outside the handlers leave the handlers as they are. *)
LEMMA IdleHandlersOK ==
    ASSUME TypeOK, RowsKept, TablesOK', UNCHANGED <<pc, req, txn, outcome>>
    PROVE  TypeOK'
<1>1. HandlersOK'
  BY DEF TypeOK, HandlersOK
<1>2. ASSUME NEW v \in Workers PROVE PlaceOK(v)'
  <2>1. PlaceOK(v) /\ txn[v] \in Txn
    BY DEF TypeOK, HandlersOK
  <2>2. (pc'[v] = "idle") = (req'[v] = Absent)
    BY <2>1 DEF PlaceOK
  <2> QED
    BY <2>1, <2>2 DEF PlaceOK, RowsKept, Txn
<1> QED
  BY <1>1, <1>2 DEF TypeOK

LEMMA NextTypeOK == TypeOK /\ [Next]_vars => TypeOK'
<1> SUFFICES ASSUME TypeOK, [Next]_vars PROVE TypeOK'
  OBVIOUS
<1>1. ASSUME NEW w \in Workers, CreateStep(w) PROVE TypeOK'
  BY <1>1, CreateTypeOK
<1>2. ASSUME NEW w \in Workers, UpdateStep(w) PROVE TypeOK'
  BY <1>2, UpdateTypeOK
<1>3. ASSUME NEW w \in Workers, DeleteAccountStep(w) PROVE TypeOK'
  BY <1>3, DeleteAccountTypeOK
<1>4. ASSUME NEW w \in Workers, Abort(w) PROVE TypeOK'
  <2>1. req[w].user \in Users
    BY <1>4, BusyOK DEF Abort
  <2>2. RowsKept /\ TablesOK'
    BY <1>4, <2>1, SameRowsKept DEF Abort, TypeOK, TablesOK
  <2> QED
    BY <1>4, <2>2, FinishOK DEF Abort, TypeOK, Outcomes
<1>5. ASSUME NEW u \in Users, NEW i \in ItemIds, DeleteItem(u, i) PROVE TypeOK'
  BY <1>5, SameRowsKept, IdleHandlersOK DEF DeleteItem, TypeOK, TablesOK
<1>6. ASSUME NEW u \in Users, UpsertProfile(u) PROVE TypeOK'
  BY <1>6, SameRowsKept, IdleHandlersOK DEF UpsertProfile, TypeOK, TablesOK
<1>7. ASSUME NEW u \in Users, LateDelete(u) PROVE TypeOK'
  <2>1. late' \subseteq Users /\ closed' \subseteq Users
    BY <1>7 DEF LateDelete, TypeOK, TablesOK
  <2> QED
    BY <1>7, <2>1, RemoveUserOK, IdleHandlersOK DEF LateDelete
<1>8. CASE UNCHANGED vars
  BY <1>8, SameRowsKept, IdleHandlersOK DEF vars, tables, TypeOK, TablesOK
<1> QED
  BY <1>1, <1>2, <1>3, <1>4, <1>5, <1>6, <1>7, <1>8 DEF Next

(* Whatever the requests and however their steps interleave, the tables and *)
(* every handler's request and transaction keep their shape; in particular  *)
(* no handler carries uncommitted work out of the place that commits it.    *)
THEOREM TypeCorrect == Spec => []TypeOK
<1> QED
  BY InitTypeOK, NextTypeOK, PTL DEF Spec

-----------------------------------------------------------------------------
(* Locks.  A handler that waits, waits for one that inserts, or has deleted  *)
(* items and not committed; that one waits at most for a profile row, and    *)
(* whoever holds a profile row is about to commit.                           *)

(* Whoever holds a lock is putting rows in, or has deleted some and not yet  *)
(* committed; and of these only one that still needs the profile row waits.  *)
LEMMA HoldersWaitForProfile ==
    ASSUME TypeOK, NEW w \in Workers, HoldsLock(w)
    PROVE  /\ pc[w] # "idle"
           /\ Waits(w) => pc[w] = "purge_profile"
BY DEF TypeOK, PlaceOK, HoldsLock, Waits

LEMMA WipersGoOn ==
    ASSUME TypeOK, NEW w \in Workers, txn[w].wiped # {}
    PROVE  pc[w] # "idle" /\ ~Waits(w)
BY DEF TypeOK, PlaceOK, Waits

(* A waiting handler waits for the holder of a lock. *)
LEMMA WaitsForHolder ==
    ASSUME NEW w \in Workers, Waits(w)
    PROVE  \E v \in Workers :
              /\ HoldsLock(v)
              /\ pc[w] = "purge_profile" => txn[v].wiped # {}
BY DEF Waits, HoldsLock, Unlocked

LEMMA TypeOKNoLockCycle == TypeOK => NoLockCycle
<1> SUFFICES ASSUME TypeOK, NEW w \in Workers, pc[w] # "idle"
             PROVE  \E v \in Workers : pc[v] # "idle" /\ ~Waits(v)
  BY DEF NoLockCycle
<1>1. CASE Waits(w)
  <2>1. PICK v \in Workers : HoldsLock(v)
    BY <1>1, WaitsForHolder
  <2>2. CASE Waits(v)
    <3>1. pc[v] = "purge_profile"
      BY <2>1, <2>2, HoldersWaitForProfile
    <3>2. PICK z \in Workers : txn[z].wiped # {}
      BY <2>2, <3>1, WaitsForHolder
    <3> QED
      BY <3>2, WipersGoOn
  <2> QED
    BY <2>1, <2>2, HoldersWaitForProfile
<1> QED
  BY <1>1

(* Handlers that wait for each other's rows never do so in a circle: in each *)
(* reachable state where a request is served, some handler can go on.        *)
THEOREM LocksNeverCircle == Spec => []NoLockCycle
BY TypeOKNoLockCycle, TypeCorrect, PTL

-----------------------------------------------------------------------------
(* What a step may never do to an item. *)

(* The only statement that adds ids to the closet commits staged rows. *)
LEMMA ItemsGrowByCommit ==
    ASSUME [Next]_vars
    PROVE  items' \subseteq items \cup UNION {txn[w].staged : w \in Workers}
<1>1. ASSUME NEW w \in Workers, CreateStep(w)
      PROVE  items' \subseteq items \cup txn[w].staged
  BY <1>1 DEF CreateStep, BeginCreate, BeginBatch, Begin, ReadCount, EntryOverCap, EntryInvalid,
              EntryInserted, InsertEntry, EntryRejected, Commit, Report, tables
<1>2. ASSUME NEW w \in Workers, UpdateStep(w) PROVE items' \subseteq items
  BY <1>2 DEF UpdateStep, BeginUpdate, Begin, ReadItem, WriteItem, tables
<1>3. ASSUME NEW w \in Workers, DeleteAccountStep(w) PROVE items' \subseteq items
  BY <1>3 DEF DeleteAccountStep, BeginDeleteAccount, Begin, PurgeItems, PurgeProfile, CommitPurge,
              AdminDelete, AdminAnswers, AdminFails, FallbackDelete, RemoveUser, tables
<1>4. CASE \/ \E w \in Workers : Abort(w)
           \/ \E u \in Users, i \in ItemIds : DeleteItem(u, i)
           \/ \E u \in Users : UpsertProfile(u) \/ LateDelete(u)
           \/ UNCHANGED vars
  BY <1>4 DEF Abort, DeleteItem, UpsertProfile, LateDelete, RemoveUser, vars, tables
<1> QED
  BY <1>1, <1>2, <1>3, <1>4 DEF Next

(* No race of updates and deletes brings an item back: an id that was       *)
(* deleted or rolled back never returns to the closet.                      *)
THEOREM NoResurrection == Spec => DeletedStaysDeleted
<1>1. ASSUME [Next]_vars, NEW i \in ItemIds,
             i \notin items, \A w \in Workers : i \notin txn[w].staged
      PROVE  i \notin items'
  BY <1>1, ItemsGrowByCommit
<1>2. [Next]_vars => [\A i \in ItemIds :
          (row[i] # Absent /\ i \notin items /\ \A w \in Workers : i \notin txn[w].staged)
              => i \notin items']_vars
  BY <1>1
<1> QED
  BY <1>2, PTL DEF Spec, DeletedStaysDeleted

(* A step that ends with "updated" for a handler at the UPDATE is its UPDATE. *)
LEMMA UpdatesIsWrite ==
    ASSUME TypeOK, [Next]_vars, NEW w \in Workers, Updates(w)
    PROVE  /\ WriteItem(w) /\ Assign(w)
           /\ req[w].item \in Visible(req[w].user)
<1>0. pc \in [Workers -> Labels] /\ outcome \in [Workers -> Outcomes] /\ pc[w] = "write" /\ pc'[w] = "idle"
      /\ outcome'[w] = "updated"
  BY DEF TypeOK, HandlersOK, Updates
<1>1. ASSUME NEW v \in Workers, CreateStep(v) PROVE FALSE
  BY <1>0, <1>1 DEF CreateStep, BeginCreate, BeginBatch, Begin, ReadCount, EntryOverCap, EntryInvalid,
              EntryInserted, InsertEntry, EntryRejected, Commit, Report, AtEntry, AtOpenEntry,
              AtValidEntry, Goto, Finish
<1>2. ASSUME NEW v \in Workers, DeleteAccountStep(v) PROVE FALSE
  BY <1>0, <1>2 DEF DeleteAccountStep, BeginDeleteAccount, Begin, PurgeItems, PurgeProfile, CommitPurge,
              AdminDelete, AdminAnswers, AdminFails, FallbackDelete, TellDeleted, Goto, Finish
<1>3. ASSUME NEW v \in Workers, Abort(v) PROVE FALSE
  BY <1>0, <1>3 DEF Abort, Finish
<1>4. ASSUME \/ \E u \in Users, i \in ItemIds : DeleteItem(u, i)
             \/ \E u \in Users : UpsertProfile(u) \/ LateDelete(u)
             \/ UNCHANGED vars
      PROVE  FALSE
  BY <1>0, <1>4 DEF DeleteItem, UpsertProfile, LateDelete, vars
<1>5. ASSUME NEW v \in Workers, UpdateStep(v) PROVE v = w /\ WriteItem(w)
  BY <1>0, <1>5 DEF UpdateStep, BeginUpdate, Begin, ReadItem, WriteItem, Goto, Finish
<1>6. WriteItem(w)
  BY <1>0, <1>1, <1>2, <1>3, <1>4, <1>5 DEF Next
<1>7. ~Finish(w, "not_found")
  BY <1>0 DEF Finish
<1> QED
  BY <1>6, <1>7 DEF WriteItem

(* The UPDATE touches the caller's item, leaves every other row as it was,    *)
(* and never hands an item to somebody else.                                  *)
THEOREM UpdatesOwnRowOnly == Spec => OwnRowOnly
<1>1. ASSUME TypeOK, [Next]_vars, NEW w \in Workers, Updates(w)
      PROVE  /\ row[req[w].item].owner = req[w].user
             /\ \A i \in ItemIds \ {req[w].item} : row'[i] = row[i]
             /\ row'[req[w].item].owner = req[w].user
  <2>1. Assign(w) /\ req[w].item \in Visible(req[w].user)
    BY <1>1, UpdatesIsWrite
  <2> QED
    BY <1>1, <2>1 DEF Assign, Visible, TypeOK, TablesOK
<1>2. TypeOK /\ [Next]_vars =>
        [\A w \in Workers : Updates(w) =>
          /\ row[req[w].item].owner = req[w].user
          /\ \A i \in ItemIds \ {req[w].item} : row'[i] = row[i]
          /\ row'[req[w].item].owner = req[w].user]_vars
  BY <1>1
<1> QED
  BY <1>2, TypeCorrect, PTL DEF Spec, OwnRowOnly

(* Between the read and the UPDATE, the patch is one that would leave the row *)
(* that was read valid.                                                       *)
PatchFitsRead ==
    \A w \in Workers : pc[w] = "write" =>
        LET e == txn[w].existing
            p == req[w].patch
        IN  Fits(e.category, e.fields) => Fits(CategoryOf(p, e), FieldsOf(p, e))

LEMMA ResolvedFits ==
    ASSUME NEW r \in Row, NEW p \in Patch, Fits(r.category, r.fields),
           Revalidated(p, r) => Fits(CategoryOf(p, r), FieldsOf(p, r))
    PROVE  Fits(CategoryOf(Resolved(p, r), r), FieldsOf(Resolved(p, r), r))
<1>1. CASE Revalidated(p, r)
  <2> DEFINE f == FieldsOf(p, r)
  <2>1. Resolved(p, r) = [p EXCEPT !.fields = f]
    BY <1>1 DEF Resolved
  <2>2. CategoryOf(Resolved(p, r), r) = CategoryOf(p, r)
    BY <2>1 DEF CategoryOf, Patch
  <2>3. FieldsOf(Resolved(p, r), r) = f
    BY <2>1, KeepAssumption DEF FieldsOf, Patch, Row
  <2> QED
    BY <1>1, <2>2, <2>3
<1>2. CASE ~Revalidated(p, r)
  <2>1. FieldsOf(p, r) = r.fields /\ CategoryOf(p, r) = r.category
    BY <1>2 DEF Revalidated, FieldsOf
  <2> QED
    BY <1>2, <2>1 DEF Resolved
<1> QED
  BY <1>1, <1>2

LEMMA PatchFitsNext == TypeOK /\ PatchFitsRead /\ [Next]_vars => PatchFitsRead'
<1> SUFFICES ASSUME TypeOK, PatchFitsRead, [Next]_vars, NEW w \in Workers, pc'[w] = "write"
             PROVE  Fits(txn[w].existing.category, txn[w].existing.fields)' =>
                       Fits(CategoryOf(req[w].patch, txn[w].existing),
                            FieldsOf(req[w].patch, txn[w].existing))'
  BY DEF PatchFitsRead
<1>0. pc \in [Workers -> Labels] /\ req \in [Workers -> Request \cup {Absent}]
      /\ txn \in [Workers -> Txn]
  BY DEF TypeOK, HandlersOK
<1>1. ASSUME pc[w] = "write", UNCHANGED <<req[w], txn[w]>>
      PROVE  Fits(txn[w].existing.category, txn[w].existing.fields)' =>
                Fits(CategoryOf(req[w].patch, txn[w].existing),
                     FieldsOf(req[w].patch, txn[w].existing))'
  BY <1>1 DEF PatchFitsRead, Fits, CategoryOf, FieldsOf
<1>2. ASSUME NEW v \in Workers, CreateStep(v) PROVE pc[w] = "write" /\ UNCHANGED <<req[w], txn[w]>>
  BY <1>0, <1>2 DEF CreateStep, BeginCreate, BeginBatch, Begin, ReadCount, EntryOverCap, EntryInvalid,
              EntryInserted, InsertEntry, EntryRejected, Commit, Report, AtEntry, AtOpenEntry,
              AtValidEntry, Goto, Finish
<1>3. ASSUME NEW v \in Workers, DeleteAccountStep(v)
      PROVE  pc[w] = "write" /\ UNCHANGED <<req[w], txn[w]>>
  BY <1>0, <1>3 DEF DeleteAccountStep, BeginDeleteAccount, Begin, PurgeItems, PurgeProfile, CommitPurge,
              AdminDelete, AdminAnswers, AdminFails, FallbackDelete, TellDeleted, Goto, Finish
<1>4. ASSUME \/ \E v \in Workers : Abort(v)
             \/ \E u \in Users, i \in ItemIds : DeleteItem(u, i)
             \/ \E u \in Users : UpsertProfile(u) \/ LateDelete(u)
             \/ UNCHANGED vars
      PROVE  pc[w] = "write" /\ UNCHANGED <<req[w], txn[w]>>
  BY <1>0, <1>4 DEF Abort, Finish, DeleteItem, UpsertProfile, LateDelete, vars
<1>5. ASSUME NEW v \in Workers, v # w, UpdateStep(v)
      PROVE  pc[w] = "write" /\ UNCHANGED <<req[w], txn[w]>>
  BY <1>0, <1>5 DEF UpdateStep, BeginUpdate, Begin, ReadItem, WriteItem, Goto, Finish
<1>6. ASSUME UpdateStep(w)
      PROVE  Fits(txn[w].existing.category, txn[w].existing.fields)' =>
                Fits(CategoryOf(req[w].patch, txn[w].existing),
                     FieldsOf(req[w].patch, txn[w].existing))'
  <2> DEFINE r == row[req[w].item]
             p == req[w].patch
  <2>1. ReadItem(w)
    BY <1>0, <1>6 DEF UpdateStep, BeginUpdate, Begin, ReadItem, WriteItem, Goto, Finish
  <2>2. /\ pc[w] = "read"
        /\ Revalidated(p, r) => Fits(CategoryOf(p, r), FieldsOf(p, r))
        /\ txn' = [txn EXCEPT ![w].existing = r]
        /\ req' = [req EXCEPT ![w].patch = Resolved(p, r)]
    <3>1. ASSUME NEW o \in Outcomes, Finish(w, o) PROVE FALSE
      BY <1>0, <3>1 DEF Finish
    <3> QED
      BY <2>1, <3>1 DEF ReadItem, Outcomes
  <2>3. r \in Row /\ req[w] \in Request /\ p \in Patch /\ txn[w] \in Txn
    BY <2>2, BusyOK DEF PlaceOK, TypeOK, TablesOK, Request
  <2>4. txn'[w].existing = r /\ req'[w].patch = Resolved(p, r)
    BY <1>0, <2>2, <2>3 DEF Txn, Request
  <2>5. Fits(r.category, r.fields) =>
           Fits(CategoryOf(Resolved(p, r), r), FieldsOf(Resolved(p, r), r))
    BY <2>2, <2>3, ResolvedFits
  <2> QED
    BY <2>4, <2>5 DEF Fits, CategoryOf, FieldsOf
<1> QED
  BY <1>1, <1>2, <1>3, <1>4, <1>5, <1>6 DEF Next

(* An UPDATE whose row is still the one update_item read and validated leaves *)
(* a valid row valid: only a race can put fields under the wrong category.    *)
THEOREM UnracedUpdatesFit == Spec => UnracedUpdateFits
<1>1. Init => PatchFitsRead
  BY DEF Init, PatchFitsRead
<1>2. ASSUME TypeOK, PatchFitsRead, [Next]_vars, NEW w \in Workers,
             Updates(w), row[req[w].item] = txn[w].existing,
             Fits(row[req[w].item].category, row[req[w].item].fields)
      PROVE  Fits(row'[req[w].item].category, row'[req[w].item].fields)
  <2> DEFINE i == req[w].item
             p == req[w].patch
  <2>1. Assign(w) /\ i \in ItemIds
    BY <1>2, UpdatesIsWrite, BusyOK DEF Updates, PlaceOK
  <2>2. row'[i].category = CategoryOf(p, row[i]) /\ row'[i].fields = FieldsOf(p, row[i])
    BY <1>2, <2>1 DEF Assign, TypeOK, TablesOK
  <2> QED
    BY <1>2, <2>2 DEF Updates, PatchFitsRead
<1>3. TypeOK /\ PatchFitsRead /\ [Next]_vars =>
        [\A w \in Workers :
          LET i == req[w].item
          IN  Updates(w) /\ row[i] = txn[w].existing /\ Fits(row[i].category, row[i].fields)
                  => Fits(row'[i].category, row'[i].fields)]_vars
  BY <1>2
<1> QED
  BY <1>1, <1>3, PatchFitsNext, TypeCorrect, PTL DEF Spec, UnracedUpdateFits

-----------------------------------------------------------------------------
(* No row outlives its account. *)

(* What makes NoOrphans inductive.  A handler stages rows of its own user    *)
(* only, so the lock that delays RemoveUser(u) covers every staged row of u; *)
(* and between the Admin API's delete and its answer the user stays gone.    *)
StagedByRequester ==
    \A w \in Workers : \A i \in txn[w].staged : row[i].owner = req[w].user

GoneOnceAnswered ==
    /\ \A w \in Workers : pc[w] = "answered" => req[w].user \notin authUsers
    /\ closed \cap authUsers = {}

AccountInv == TypeOK /\ StagedByRequester /\ NoOrphans /\ GoneOnceAnswered

(* Removing a user leaves no row of theirs, committed or staged. *)
LEMMA RemoveUserNoOrphans ==
    ASSUME AccountInv, NEW u \in Users, RemoveUser(u)
    PROVE  /\ \A i \in items' : row'[i].owner \in authUsers'
           /\ \A w \in Workers : \A i \in txn[w].staged : row'[i].owner \in authUsers'
           /\ profiles' \subseteq authUsers'
<1>1. ASSUME NEW w \in Workers, NEW i \in txn[w].staged PROVE row'[i].owner \in authUsers'
  <2>1. HoldsLock(w) /\ row[i].owner = req[w].user /\ row[i].owner \in authUsers
    BY <1>1 DEF HoldsLock, AccountInv, StagedByRequester, NoOrphans
  <2>2. req[w].user # u
    BY <2>1 DEF RemoveUser
  <2> QED
    BY <2>1, <2>2 DEF RemoveUser
<1>2. \A i \in items' : row'[i].owner \in authUsers'
  BY DEF RemoveUser, Visible, AccountInv, NoOrphans
<1>3. profiles' \subseteq authUsers'
  BY DEF RemoveUser, AccountInv, NoOrphans
<1> QED
  BY <1>1, <1>2, <1>3

(* A handler that starts a request, moves on or ends without staging a row   *)
(* leaves the staged rows of the others alone and has none of its own.       *)
LEMMA StagedKept ==
    ASSUME AccountInv, NEW w \in Workers, UNCHANGED row,
           \A v \in Workers \ {w} : txn'[v] = txn[v] /\ req'[v] = req[v],
           \/ txn'[w].staged = {}
           \/ txn'[w].staged = txn[w].staged /\ req'[w] = req[w]
    PROVE  /\ StagedByRequester'
           /\ \A v \in Workers : txn'[v].staged \subseteq txn[v].staged
BY DEF AccountInv, StagedByRequester

LEMMA AccountInitOK == Init => AccountInv
BY InitTypeOK DEF Init, AccountInv, StagedByRequester, NoOrphans, GoneOnceAnswered, NoTxn

LEMMA AccountCreateOK ==
    ASSUME AccountInv, TypeOK', NEW w \in Workers, CreateStep(w) PROVE AccountInv'
<1> USE DEF AccountInv
<1>1. CASE EntryInserted(w)
  <2>1. PICK i \in ItemIds :
          /\ row[i] = Absent
          /\ row' = [row EXCEPT ![i] = [owner |-> req[w].user, category |-> Entry(w).category,
                                       fields |-> Entry(w).fields]]
          /\ Report(w, [txn[w] EXCEPT !.staged = @ \cup {i}, !.remaining = txn[w].remaining - 1],
                    "created")
    BY <1>1 DEF EntryInserted, InsertEntry
  <2>2. /\ txn'[w].staged = txn[w].staged \cup {i}
        /\ \A v \in Workers \ {w} : txn'[v] = txn[v]
    BY <2>1 DEF Report, TypeOK, HandlersOK, Txn
  <2>3. req[w].user \in authUsers
    BY <1>1 DEF EntryInserted, InsertEntry
  <2>4. /\ row'[i].owner = req[w].user
        /\ \A j \in ItemIds \ {i} : row'[j] = row[j]
    BY <2>1 DEF TypeOK, TablesOK
  <2>5. /\ i \notin items /\ items \subseteq ItemIds
        /\ \A v \in Workers : i \notin txn[v].staged /\ txn[v].staged \subseteq ItemIds
    BY <2>1 DEF TypeOK, TablesOK, PlaceOK
  <2>6. UNCHANGED <<authUsers, items, profiles, closed, pc, req>>
    BY <2>1 DEF Report
  <2>7. StagedByRequester'
    BY <2>2, <2>4, <2>5, <2>6 DEF StagedByRequester
  <2>8. NoOrphans'
    <3>1. \A j \in items' : row'[j].owner \in authUsers'
      BY <2>4, <2>5, <2>6 DEF NoOrphans
    <3>2. \A v \in Workers : \A j \in txn'[v].staged : row'[j].owner \in authUsers'
      BY <2>2, <2>3, <2>4, <2>5, <2>6 DEF NoOrphans
    <3> QED
      BY <3>1, <3>2, <2>6 DEF NoOrphans
  <2> QED
    BY <2>6, <2>7, <2>8 DEF GoneOnceAnswered
<1>2. CASE Commit(w)
  <2>1. /\ txn'[w] = NoTxn
        /\ \A v \in Workers \ {w} : txn'[v] = txn[v] /\ req'[v] = req[v] /\ pc'[v] = pc[v]
        /\ pc'[w] = "idle" /\ items' = items \cup txn[w].staged
        /\ UNCHANGED <<authUsers, row, profiles, closed>>
    BY <1>2 DEF Commit, Finish, TypeOK, HandlersOK
  <2>2. StagedByRequester' /\ \A v \in Workers : txn'[v].staged \subseteq txn[v].staged
    BY <2>1, StagedKept DEF NoTxn
  <2>3. NoOrphans' /\ GoneOnceAnswered'
    BY <2>1, <2>2 DEF NoOrphans, GoneOnceAnswered
  <2> QED
    BY <2>2, <2>3
<1>3. CASE \/ \E u \in Users, p \in Singles : BeginCreate(w, u, p)
           \/ \E u \in Users, ps \in Batches : BeginBatch(w, u, ps)
           \/ ReadCount(w) \/ EntryOverCap(w) \/ EntryInvalid(w) \/ EntryRejected(w)
  <2>1. UNCHANGED <<authUsers, row, items, profiles, closed>>
    BY <1>3 DEF BeginCreate, BeginBatch, Begin, ReadCount, EntryOverCap, EntryInvalid,
                EntryRejected, Report, tables
  <2>2. \A v \in Workers \ {w} : txn'[v] = txn[v] /\ req'[v] = req[v] /\ pc'[v] = pc[v]
    BY <1>3 DEF BeginCreate, BeginBatch, Begin, ReadCount, EntryOverCap, EntryInvalid,
                EntryRejected, Report, Finish, Goto, TypeOK, HandlersOK
  <2>3. pc'[w] # "answered"
    BY <1>3 DEF BeginCreate, BeginBatch, Begin, ReadCount, EntryOverCap, EntryInvalid,
                EntryRejected, AtEntry, AtOpenEntry, AtValidEntry, Report, Finish, Goto,
                TypeOK, HandlersOK
  <2>4. \/ txn'[w].staged = {}
        \/ txn'[w].staged = txn[w].staged /\ req'[w] = req[w]
    <3>1. CASE \/ \E u \in Users, p \in Singles : BeginCreate(w, u, p)
               \/ \E u \in Users, ps \in Batches : BeginBatch(w, u, ps)
      BY <3>1 DEF BeginCreate, BeginBatch, Begin, TypeOK, PlaceOK
    <3>2. CASE ReadCount(w)
      BY <3>2 DEF ReadCount, Goto, Finish, NoTxn, TypeOK, HandlersOK, PlaceOK, Txn
    <3>3. CASE EntryOverCap(w) \/ EntryInvalid(w) \/ EntryRejected(w)
      BY <3>3 DEF EntryOverCap, EntryInvalid, EntryRejected, Report, Finish, NoTxn,
                  TypeOK, HandlersOK, Txn
    <3> QED
      BY <1>3, <3>1, <3>2, <3>3
  <2>5. StagedByRequester' /\ \A v \in Workers : txn'[v].staged \subseteq txn[v].staged
    BY <2>1, <2>2, <2>4, StagedKept
  <2>6. NoOrphans' /\ GoneOnceAnswered'
    BY <2>1, <2>2, <2>3, <2>5 DEF NoOrphans, GoneOnceAnswered
  <2> QED
    BY <2>5, <2>6
<1> QED
  BY <1>1, <1>2, <1>3 DEF CreateStep

LEMMA AccountUpdateOK ==
    ASSUME AccountInv, TypeOK', NEW w \in Workers, UpdateStep(w) PROVE AccountInv'
<1> USE DEF AccountInv
<1>1. UNCHANGED <<authUsers, items, profiles, closed>>
  BY DEF UpdateStep, BeginUpdate, Begin, ReadItem, WriteItem, tables
<1>2. \A i \in ItemIds : row[i] # Absent => row'[i].owner = row[i].owner
  <2>1. CASE WriteItem(w) /\ Assign(w)
    BY <2>1 DEF Assign, TypeOK, TablesOK
  <2>2. CASE row' = row
    BY <2>2
  <2> QED
    BY <2>1, <2>2 DEF UpdateStep, BeginUpdate, Begin, ReadItem, WriteItem, tables
<1>3. /\ \A v \in Workers \ {w} : txn'[v] = txn[v] /\ req'[v] = req[v] /\ pc'[v] = pc[v]
      /\ pc'[w] # "answered"
  BY DEF UpdateStep, BeginUpdate, Begin, ReadItem, WriteItem, Goto, Finish, TypeOK, HandlersOK
<1>4. txn'[w].staged = {}
  BY DEF UpdateStep, BeginUpdate, Begin, ReadItem, WriteItem, Goto, Finish, NoTxn,
         TypeOK, HandlersOK, PlaceOK, Txn
<1>5. \A v \in Workers : txn[v].staged \cup items \subseteq {i \in ItemIds : row[i] # Absent}
  BY DEF TypeOK, TablesOK, PlaceOK
<1>6. StagedByRequester' /\ NoOrphans' /\ GoneOnceAnswered'
  BY <1>1, <1>2, <1>3, <1>4, <1>5 DEF StagedByRequester, NoOrphans, GoneOnceAnswered
<1> QED
  BY <1>6

LEMMA AccountDeleteOK ==
    ASSUME AccountInv, TypeOK', NEW w \in Workers, DeleteAccountStep(w) PROVE AccountInv'
<1> USE DEF AccountInv
<1>1. /\ UNCHANGED row
      /\ \A v \in Workers \ {w} : txn'[v] = txn[v] /\ req'[v] = req[v] /\ pc'[v] = pc[v]
      /\ txn'[w].staged = {}
      /\ pc'[w] # "idle" /\ pc[w] # "idle" => req'[w] = req[w]
  BY DEF DeleteAccountStep, BeginDeleteAccount, Begin, PurgeItems, PurgeProfile, CommitPurge,
         AdminDelete, AdminAnswers, AdminFails, FallbackDelete, TellDeleted, RemoveUser,
         Goto, Finish, NoTxn, tables, TypeOK, HandlersOK, PlaceOK, Txn
<1>2. StagedByRequester' /\ \A v \in Workers : txn'[v].staged \subseteq txn[v].staged
  BY <1>1, StagedKept
<1>3. CASE AdminDelete(w) \/ FallbackDelete(w)
  <2>1. RemoveUser(req[w].user) /\ req[w].user \in Users /\ req[w].user \notin authUsers'
    BY <1>3, BusyOK DEF AdminDelete, FallbackDelete, Goto, RemoveUser
  <2>2. NoOrphans'
    BY <1>2, <2>1, RemoveUserNoOrphans DEF NoOrphans
  <2>3. authUsers' \subseteq authUsers /\ closed' \subseteq closed \cup {req[w].user}
    BY <1>3, <2>1 DEF RemoveUser, AdminDelete, FallbackDelete, TellDeleted
  <2>4. GoneOnceAnswered'
    <3>1. closed' \cap authUsers' = {}
      BY <2>1, <2>3 DEF GoneOnceAnswered
    <3>2. pc'[w] = "answered" => req'[w].user \notin authUsers'
      BY <1>3, <2>1 DEF AdminDelete, FallbackDelete, TellDeleted, Finish, TypeOK, HandlersOK
    <3> QED
      BY <1>1, <2>3, <3>1, <3>2 DEF GoneOnceAnswered
  <2> QED
    BY <1>2, <2>2, <2>4
<1>4. CASE AdminAnswers(w)
  BY <1>1, <1>2, <1>4 DEF AdminAnswers, TellDeleted, Finish, NoOrphans, GoneOnceAnswered,
                          TypeOK, HandlersOK
<1>5. CASE \/ \E u \in Users : BeginDeleteAccount(w, u)
           \/ PurgeItems(w) \/ PurgeProfile(w) \/ CommitPurge(w) \/ AdminFails(w)
  <2>1. /\ UNCHANGED <<authUsers, closed>>
        /\ items' \subseteq items /\ profiles' \subseteq profiles
        /\ pc'[w] # "answered"
    BY <1>5 DEF BeginDeleteAccount, Begin, PurgeItems, PurgeProfile, CommitPurge, AdminFails,
                Goto, tables, TypeOK, HandlersOK
  <2>2. NoOrphans' /\ GoneOnceAnswered'
    BY <1>1, <1>2, <2>1 DEF NoOrphans, GoneOnceAnswered
  <2> QED
    BY <1>2, <2>2
<1> QED
  BY <1>3, <1>4, <1>5 DEF DeleteAccountStep

LEMMA AccountNextOK == AccountInv /\ [Next]_vars => AccountInv'
<1> SUFFICES ASSUME AccountInv, [Next]_vars PROVE AccountInv'
  OBVIOUS
<1> USE DEF AccountInv
<1>0. TypeOK'
  BY NextTypeOK
<1>1. ASSUME NEW w \in Workers, CreateStep(w) PROVE AccountInv'
  BY <1>0, <1>1, AccountCreateOK
<1>2. ASSUME NEW w \in Workers, UpdateStep(w) PROVE AccountInv'
  BY <1>0, <1>2, AccountUpdateOK
<1>3. ASSUME NEW w \in Workers, DeleteAccountStep(w) PROVE AccountInv'
  BY <1>0, <1>3, AccountDeleteOK
<1>4. ASSUME NEW w \in Workers, Abort(w) PROVE AccountInv'
  <2>1. /\ UNCHANGED <<authUsers, row, items, profiles, closed>>
        /\ \A v \in Workers \ {w} : txn'[v] = txn[v] /\ req'[v] = req[v] /\ pc'[v] = pc[v]
        /\ txn'[w].staged = {} /\ pc'[w] = "idle"
    BY <1>4 DEF Abort, Finish, NoTxn, TypeOK, HandlersOK
  <2>2. StagedByRequester' /\ \A v \in Workers : txn'[v].staged \subseteq txn[v].staged
    BY <2>1, StagedKept
  <2> QED
    BY <1>0, <2>1, <2>2 DEF NoOrphans, GoneOnceAnswered
<1>5. CASE \/ \E u \in Users, i \in ItemIds : DeleteItem(u, i)
           \/ \E u \in Users : UpsertProfile(u)
           \/ UNCHANGED vars
  BY <1>0, <1>5 DEF DeleteItem, UpsertProfile, vars, tables, StagedByRequester, NoOrphans,
                    GoneOnceAnswered
<1>6. ASSUME NEW u \in Users, LateDelete(u) PROVE AccountInv'
  <2>1. RemoveUser(u) /\ UNCHANGED <<closed, pc, req, txn>>
    BY <1>6 DEF LateDelete
  <2>2. NoOrphans'
    BY <2>1, RemoveUserNoOrphans DEF NoOrphans
  <2>3. StagedByRequester' /\ GoneOnceAnswered'
    BY <2>1 DEF RemoveUser, StagedByRequester, GoneOnceAnswered
  <2> QED
    BY <1>0, <2>2, <2>3
<1> QED
  BY <1>1, <1>2, <1>3, <1>4, <1>5, <1>6 DEF Next

(* The three facts hold together in every reachable state of the closet. *)
THEOREM AccountInvariant == Spec => []AccountInv
<1> QED
  BY AccountInitOK, AccountNextOK, PTL DEF Spec

(* However inserts, commits, aborts and the deletions of an account follow   *)
(* each other, every committed or staged row belongs to an existing account. *)
THEOREM RowsHaveAccounts == Spec => []NoOrphans
<1>1. AccountInv => NoOrphans
  BY DEF AccountInv
<1> QED
  BY <1>1, AccountInvariant, PTL

(* Once delete_account answered, nothing of the user is left or comes back:  *)
(* the account cannot exist, and without it no row can.                      *)
THEOREM DeletedAccountIsGone == Spec => []AccountGone
<1>1. AccountInv => AccountGone
  BY DEF AccountInv, GoneOnceAnswered, NoOrphans, AccountGone, Visible
<1> QED
  BY <1>1, AccountInvariant, PTL

=============================================================================
