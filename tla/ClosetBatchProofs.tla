-------------------------- MODULE ClosetBatchProofs --------------------------
(* What create_item and create_items may commit, for every instance of       *)
(* Closet: the rows that were reported as created, and no more rows over the *)
(* cap than the handlers that counted at the same time may still insert.     *)
EXTENDS ClosetProofs

(* What a step does to the handlers that are inserting, and to the rows they *)
(* have staged.                                                              *)
Same(v) == pc'[v] = pc[v] /\ req'[v] = req[v] /\ txn'[v] = txn[v]

OthersSame(w) == \A v \in Workers \ {w} : Same(v)

(* A count that found room, or that of a batch. *)
Enters(w) ==
    LET left == MaxItems - Cardinality(Visible(req[w].user))
    IN  /\ pc[w] = "count" /\ pc'[w] = "insert" /\ req'[w] = req[w]
        /\ txn'[w] = [txn[w] EXCEPT !.remaining = left]
        /\ OthersSame(w) /\ UNCHANGED tables

(* An entry that is not inserted; it is told that the closet is full exactly *)
(* when the count leaves no room.                                            *)
Refuses(w) ==
    /\ AtEntry(w) /\ UNCHANGED row
    /\ \E result \in Entries \ {"created"} :
          /\ Report(w, txn[w], result)
          /\ result = "closet_full" <=> txn[w].remaining <= 0

(* The handler w is not inserting, or does not move; and no staged row is    *)
(* touched.                                                                  *)
LeavesStaged(w) ==
    /\ OthersSame(w)
    /\ Same(w) \/ pc'[w] # "insert"
    /\ items' \subseteq items
    /\ \A i \in ItemIds : i \notin items => row'[i] = row[i]
    /\ \A i \in items : row'[i].owner = row[i].owner

LEMMA CreateStepKinds ==
    ASSUME TypeOK, NEW w \in Workers, CreateStep(w)
    PROVE  EntryInserted(w) \/ Commit(w) \/ Enters(w) \/ Refuses(w) \/ LeavesStaged(w)
<1> USE DEF TypeOK, HandlersOK, PlaceOK
<1>1. CASE \/ \E u \in Users, p \in Singles : BeginCreate(w, u, p)
           \/ \E u \in Users, ps \in Batches : BeginBatch(w, u, ps)
  BY <1>1 DEF BeginCreate, BeginBatch, Begin, tables, LeavesStaged, OthersSame, Same
<1>2. CASE ReadCount(w)
  <2>1. CASE Finish(w, "closet_full")
    BY <1>2, <2>1 DEF ReadCount, Finish, tables, LeavesStaged, OthersSame, Same, NoTxn
  <2>2. CASE ~Finish(w, "closet_full")
    BY <1>2, <2>2 DEF ReadCount, Goto, Enters, OthersSame, Same
  <2> QED
    BY <2>1, <2>2
<1>3. CASE EntryOverCap(w)
  BY <1>3 DEF EntryOverCap, Refuses, Entries
<1>4. CASE EntryInvalid(w)
  <2>1. txn[w].remaining \in Int
    BY DEF Txn
  <2> QED
    BY <1>4, <2>1 DEF EntryInvalid, AtOpenEntry, Refuses, Entries
<1>5. CASE EntryRejected(w)
  <2>1. txn[w].remaining \in Int
    BY DEF Txn
  <2>2. CASE Report(w, txn[w], "database_rejected")
    BY <1>5, <2>1, <2>2 DEF EntryRejected, AtValidEntry, AtOpenEntry, Refuses, Entries
  <2>3. CASE Finish(w, "error") /\ UNCHANGED <<authUsers, items, profiles, late, closed>>
    BY <1>5, <2>3 DEF EntryRejected, Finish, LeavesStaged, OthersSame, Same, NoTxn
  <2> QED
    BY <1>5, <2>2, <2>3 DEF EntryRejected
<1> QED
  BY <1>1, <1>2, <1>3, <1>4, <1>5 DEF CreateStep

LEMMA UpdateStepLeavesStaged ==
    ASSUME TypeOK, NEW w \in Workers, UpdateStep(w)
    PROVE  LeavesStaged(w)
<1>1. OthersSame(w)
  BY DEF UpdateStep, BeginUpdate, Begin, ReadItem, WriteItem, Goto, Finish, OthersSame, Same,
         TypeOK, HandlersOK
<1>2. pc'[w] # "insert"
  BY DEF UpdateStep, BeginUpdate, Begin, ReadItem, WriteItem, Goto, Finish, TypeOK, HandlersOK
<1>3. items' = items
  BY DEF UpdateStep, BeginUpdate, Begin, ReadItem, WriteItem, tables
<1>4. /\ \A i \in ItemIds : i \notin items => row'[i] = row[i]
      /\ \A i \in items : row'[i].owner = row[i].owner
  <2>1. CASE WriteItem(w) /\ Assign(w) /\ req[w].item \in Visible(req[w].user)
    BY <2>1 DEF Assign, Visible, TypeOK, TablesOK
  <2>2. CASE row' = row
    BY <2>2
  <2> QED
    BY <2>1, <2>2 DEF UpdateStep, BeginUpdate, Begin, ReadItem, WriteItem, tables
<1> QED
  BY <1>1, <1>2, <1>3, <1>4 DEF LeavesStaged

LEMMA DeleteStepLeavesStaged ==
    ASSUME TypeOK, NEW w \in Workers, DeleteAccountStep(w)
    PROVE  LeavesStaged(w)
<1>1. OthersSame(w)
  BY DEF DeleteAccountStep, BeginDeleteAccount, Begin, PurgeItems, PurgeProfile, CommitPurge,
         AdminDelete, AdminAnswers, AdminFails, FallbackDelete, TellDeleted, Goto, Finish,
         OthersSame, Same, TypeOK, HandlersOK
<1>2. pc'[w] # "insert"
  BY DEF DeleteAccountStep, BeginDeleteAccount, Begin, PurgeItems, PurgeProfile, CommitPurge,
         AdminDelete, AdminAnswers, AdminFails, FallbackDelete, TellDeleted, Goto, Finish,
         TypeOK, HandlersOK
<1>3. items' \subseteq items /\ row' = row
  BY DEF DeleteAccountStep, BeginDeleteAccount, Begin, PurgeItems, PurgeProfile, CommitPurge,
         AdminDelete, AdminAnswers, AdminFails, FallbackDelete, TellDeleted, RemoveUser, tables
<1> QED
  BY <1>1, <1>2, <1>3 DEF LeavesStaged

(* Every step is one of an inserting handler, or leaves what is staged alone. *)
LEMMA StepKinds ==
    ASSUME TypeOK, [Next]_vars, Workers # {}
    PROVE  \E w \in Workers :
              EntryInserted(w) \/ Commit(w) \/ Enters(w) \/ Refuses(w) \/ LeavesStaged(w)
<1>1. ASSUME NEW w \in Workers, CreateStep(w) \/ UpdateStep(w) \/ DeleteAccountStep(w)
      PROVE  EntryInserted(w) \/ Commit(w) \/ Enters(w) \/ Refuses(w) \/ LeavesStaged(w)
  BY <1>1, CreateStepKinds, UpdateStepLeavesStaged, DeleteStepLeavesStaged
<1>2. ASSUME NEW w \in Workers, Abort(w) PROVE LeavesStaged(w)
  BY <1>2 DEF Abort, Finish, NoTxn, LeavesStaged, OthersSame, Same, TypeOK, HandlersOK
<1>3. ASSUME \/ \E u \in Users, i \in ItemIds : DeleteItem(u, i)
             \/ \E u \in Users : UpsertProfile(u) \/ LateDelete(u)
             \/ UNCHANGED vars,
             NEW w \in Workers
      PROVE  LeavesStaged(w)
  BY <1>3 DEF DeleteItem, UpsertProfile, LateDelete, RemoveUser, vars, tables, LeavesStaged,
              OthersSame, Same
<1> QED
  BY <1>1, <1>2, <1>3 DEF Next

(* The row of the k-th payload. *)
RowFor(w, k) == [owner |-> req[w].user, category |-> req[w].payloads[k].category,
                 fields |-> req[w].payloads[k].fields]

(* The loop of create_items reports one entry more. *)
LEMMA ReportedOnce ==
    ASSUME TypeOK, NEW w \in Workers, AtEntry(w), NEW result \in Entries, NEW t \in Txn,
           Report(w, t, result), t.results = txn[w].results
    PROVE  LET n == Len(txn[w].results)
           IN  /\ n \in Nat /\ n < Len(req[w].payloads)
               /\ DOMAIN txn[w].results = 1 .. n
               /\ DOMAIN txn'[w].results = 1 .. n + 1 /\ Len(txn'[w].results) = n + 1
               /\ \A k \in 1 .. n : txn'[w].results[k] = txn[w].results[k]
               /\ txn'[w].results[n + 1] = result
               /\ txn'[w].staged = t.staged /\ txn'[w].remaining = t.remaining
               /\ OthersSame(w) /\ req' = req /\ pc' = pc /\ items' = items
<1> DEFINE rs == Append(t.results, result)
<1>1. t.results \in Seq(Entries) /\ txn[w].results \in Seq(Entries)
  BY DEF Txn
<1>2. txn' = [txn EXCEPT ![w] = [t EXCEPT !.results = rs]]
  BY DEF Report
<1>3. txn'[w] = [t EXCEPT !.results = rs]
  BY <1>2 DEF TypeOK, HandlersOK
<1>4. /\ Len(rs) = Len(t.results) + 1 /\ DOMAIN rs = 1 .. Len(t.results) + 1
      /\ \A k \in 1 .. Len(t.results) : rs[k] = t.results[k]
      /\ rs[Len(t.results) + 1] = result
  BY <1>1
<1> HIDE DEF rs
<1>5. txn'[w].results = rs /\ txn'[w].staged = t.staged /\ txn'[w].remaining = t.remaining
  BY <1>3 DEF Txn
<1>6. OthersSame(w) /\ req' = req /\ pc' = pc /\ items' = items
  BY <1>2 DEF Report, OthersSame, Same, TypeOK, HandlersOK
<1>7. Len(txn[w].results) \in Nat /\ DOMAIN txn[w].results = 1 .. Len(txn[w].results)
  BY <1>1
<1> QED
  BY <1>4, <1>5, <1>6, <1>7 DEF AtEntry

(* What is staged can be counted. *)
LEMMA StagedIsFinite ==
    ASSUME TypeOK, NEW w \in Workers
    PROVE  IsFiniteSet(txn[w].staged) /\ Cardinality(txn[w].staged) \in Nat
<1>1. txn[w].staged \in SUBSET ItemIds
  BY DEF TypeOK, HandlersOK, Txn
<1> QED
  BY <1>1, FiniteAssumption, FS_Subset, FS_CardinalityType

(* An entry that is inserted: one row more, under an id nobody had, and one  *)
(* place less.                                                               *)
LEMMA InsertedRow ==
    ASSUME TypeOK, NEW w \in Workers, EntryInserted(w)
    PROVE  LET n == Len(txn[w].results)
           IN  /\ n \in Nat /\ n < Len(req[w].payloads)
               /\ DOMAIN txn[w].results = 1 .. n
               /\ DOMAIN txn'[w].results = 1 .. n + 1 /\ Len(txn'[w].results) = n + 1
               /\ \A k \in 1 .. n : txn'[w].results[k] = txn[w].results[k]
               /\ txn'[w].results[n + 1] = "created"
               /\ txn[w].remaining \in Int /\ txn[w].remaining > 0
               /\ txn'[w].remaining = txn[w].remaining - 1
               /\ Cardinality(txn'[w].staged) = Cardinality(txn[w].staged) + 1
               /\ OthersSame(w) /\ UNCHANGED <<req, pc, items>>
               /\ \A j \in items : row'[j] = row[j]
               /\ \E i \in ItemIds :
                     /\ txn'[w].staged = txn[w].staged \cup {i}
                     /\ i \notin items /\ \A v \in Workers : i \notin txn[v].staged
                     /\ \A j \in ItemIds \ {i} : row'[j] = row[j]
                     /\ row'[i] = RowFor(w, n + 1)
<1>1. PICK i \in ItemIds :
        /\ row[i] = Absent
        /\ row' = [row EXCEPT ![i] = [owner |-> req[w].user, category |-> Entry(w).category,
                                     fields |-> Entry(w).fields]]
        /\ Report(w, [txn[w] EXCEPT !.staged = @ \cup {i}, !.remaining = txn[w].remaining - 1],
                  "created")
  BY DEF EntryInserted, InsertEntry
<1> DEFINE t == [txn[w] EXCEPT !.staged = @ \cup {i}, !.remaining = txn[w].remaining - 1]
<1>2. AtEntry(w) /\ txn[w].remaining > 0 /\ txn[w] \in Txn /\ TypeOK
  BY DEF EntryInserted, InsertEntry, AtValidEntry, AtOpenEntry, TypeOK, HandlersOK
<1>3. /\ t \in Txn /\ t.staged = txn[w].staged \cup {i} /\ t.remaining = txn[w].remaining - 1
      /\ t.results = txn[w].results
  <2>1. txn[w].staged \cup {i} \in SUBSET ItemIds /\ txn[w].remaining - 1 \in Int
    BY <1>2 DEF Txn
  <2>2. t = [txn[w] EXCEPT !.staged = txn[w].staged \cup {i}, !.remaining = txn[w].remaining - 1]
    BY <1>2, Zenon DEF Txn
  <2> QED
    BY <1>2, <2>1, <2>2 DEF Txn
<1>4. Report(w, t, "created") /\ "created" \in Entries
  BY <1>1 DEF Entries
<1> HIDE DEF t
<1> DEFINE n == Len(txn[w].results)
<1>5. /\ n \in Nat /\ n < Len(req[w].payloads)
      /\ DOMAIN txn[w].results = 1 .. n
      /\ DOMAIN txn'[w].results = 1 .. n + 1 /\ Len(txn'[w].results) = n + 1
      /\ \A k \in 1 .. n : txn'[w].results[k] = txn[w].results[k]
      /\ txn'[w].results[n + 1] = "created"
      /\ txn'[w].staged = txn[w].staged \cup {i} /\ txn'[w].remaining = txn[w].remaining - 1
      /\ OthersSame(w) /\ UNCHANGED <<req, pc, items>>
  BY <1>2, <1>3, <1>4, ReportedOnce
<1>6. /\ i \notin items /\ \A v \in Workers : i \notin txn[v].staged
      /\ \A j \in ItemIds \ {i} : row'[j] = row[j]
      /\ row'[i] = RowFor(w, n + 1)
  BY <1>1, <1>2 DEF TypeOK, TablesOK, PlaceOK, RowFor, Entry
<1>7. Cardinality(txn[w].staged \cup {i}) = Cardinality(txn[w].staged) + 1
  BY <1>2, <1>6, StagedIsFinite, FS_AddElement
<1>8. txn[w].remaining \in Int /\ \A j \in items : row'[j] = row[j]
  BY <1>2, <1>6 DEF TypeOK, TablesOK, Txn
<1> HIDE DEF n
<1> QED
  BY <1>2, <1>5, <1>6, <1>7, <1>8 DEF n

-----------------------------------------------------------------------------
(* A batch is told what it commits. *)

(* What makes BatchReport inductive: an uncommitted row is staged by one     *)
(* handler and not in the closet, so that no other handler touches it; and   *)
(* once an entry was refused for the cap, `remaining` stays used up.         *)
StagedApart ==
    \A w \in Workers :
        /\ txn[w].staged \cap items = {}
        /\ \A v \in Workers \ {w} : txn[v].staged \cap txn[w].staged = {}

Created(w) == {k \in DOMAIN txn[w].results : txn[w].results[k] = "created"}

(* BatchReport of one handler, wherever it is. *)
Told(w) ==
    /\ Cardinality(txn[w].staged) = Cardinality(Created(w))
    /\ {row[i] : i \in txn[w].staged} = {RowFor(w, k) : k \in Created(w)}
    /\ \A j, k \in DOMAIN txn[w].results :
          j < k /\ txn[w].results[j] = "closet_full" => txn[w].results[k] = "closet_full"

FullAtCap(w) ==
    \A k \in DOMAIN txn[w].results :
        txn[w].results[k] = "closet_full" => txn[w].remaining <= 0

BatchInv == TypeOK /\ StagedApart /\ \A w \in Workers : Told(w) /\ FullAtCap(w)

LEMMA ToldReport == BatchInv => BatchReport
<1> SUFFICES ASSUME BatchInv, NEW w \in Workers, pc[w] = "insert"
             PROVE  LET R == txn[w].results
                        C == {k \in DOMAIN R : R[k] = "created"}
                        RF(k) == [owner |-> req[w].user, category |-> req[w].payloads[k].category,
                                  fields |-> req[w].payloads[k].fields]
                    IN  /\ Cardinality(txn[w].staged) = Cardinality(C)
                        /\ {row[i] : i \in txn[w].staged} = {RF(k) : k \in C}
                        /\ \A j, k \in DOMAIN R :
                                j < k /\ R[j] = "closet_full" => R[k] = "closet_full"
  BY DEF BatchReport
<1> QED
  BY DEF BatchInv, Told, Created, RowFor

(* A handler that is not in its loop has nothing staged and nothing told. *)
LEMMA NothingTold ==
    ASSUME NEW w \in Workers, txn[w].staged = {}, txn[w].results = <<>>
    PROVE  Told(w) /\ FullAtCap(w)
BY DEF Told, FullAtCap, Created

(* The same a step later. *)
LEMMA NothingToldNext ==
    ASSUME NEW w \in Workers, TypeOK', pc'[w] # "insert"
    PROVE  (Told(w) /\ FullAtCap(w))' /\ txn'[w].staged = {}
<1>1. txn'[w].staged = {} /\ txn'[w].results = <<>>
  BY DEF TypeOK, PlaceOK
<1> QED
  BY <1>1 DEF Told, FullAtCap, Created

LEMMA SameTold ==
    ASSUME NEW w \in Workers, Told(w), FullAtCap(w), Same(w),
           \A i \in txn[w].staged : row'[i] = row[i]
    PROVE  (Told(w) /\ FullAtCap(w))'
<1>1. Created(w)' = Created(w) /\ \A k : RowFor(w, k)' = RowFor(w, k)
  BY DEF Same, Created, RowFor
<1>2. {row'[i] : i \in txn'[w].staged} = {row[i] : i \in txn[w].staged}
  BY DEF Same
<1> QED
  BY <1>1, <1>2 DEF Told, FullAtCap, Same

LEMMA BatchInitOK == Init => BatchInv
<1> SUFFICES ASSUME Init PROVE BatchInv
  OBVIOUS
<1>1. \A w \in Workers : txn[w].staged = {} /\ txn[w].results = <<>>
  BY DEF Init, NoTxn
<1>2. \A w \in Workers : Told(w) /\ FullAtCap(w)
  BY <1>1, NothingTold
<1> QED
  BY <1>1, <1>2, InitTypeOK DEF BatchInv, StagedApart

(* The handlers other than the one that moves are told what they were told.  *)
LEMMA OthersTold ==
    ASSUME BatchInv, NEW w \in Workers, OthersSame(w), NEW v \in Workers \ {w},
           \A i \in txn[v].staged : row'[i] = row[i]
    PROVE  (Told(v) /\ FullAtCap(v))'
BY SameTold DEF BatchInv, OthersSame

LEMMA BatchLeaves ==
    ASSUME BatchInv, TypeOK', NEW w \in Workers, LeavesStaged(w)
    PROVE  BatchInv'
<1>1. \A v \in Workers : \A i \in txn[v].staged : row'[i] = row[i]
  BY DEF BatchInv, StagedApart, LeavesStaged, TypeOK, PlaceOK
<1>2. \A v \in Workers \ {w} : (Told(v) /\ FullAtCap(v))' /\ txn'[v].staged = txn[v].staged
  BY <1>1, OthersTold DEF LeavesStaged, OthersSame, Same
<1>3. (Told(w) /\ FullAtCap(w))' /\ txn'[w].staged \subseteq txn[w].staged
  BY <1>1, SameTold, NothingToldNext DEF LeavesStaged, Same, BatchInv
<1>4. \A v \in Workers : txn'[v].staged \subseteq txn[v].staged
  BY <1>2, <1>3
<1>5. StagedApart'
  BY <1>4 DEF LeavesStaged, BatchInv, StagedApart
<1> QED
  BY <1>2, <1>3, <1>5 DEF BatchInv

LEMMA BatchCommits ==
    ASSUME BatchInv, TypeOK', NEW w \in Workers, Commit(w)
    PROVE  BatchInv'
<1>1. /\ OthersSame(w) /\ pc'[w] # "insert" /\ row' = row
      /\ items' = items \cup txn[w].staged
  BY DEF Commit, Finish, OthersSame, Same, BatchInv, TypeOK, HandlersOK
<1>2. \A v \in Workers \ {w} : (Told(v) /\ FullAtCap(v))' /\ txn'[v].staged = txn[v].staged
  BY <1>1, OthersTold DEF OthersSame, Same
<1>3. (Told(w) /\ FullAtCap(w))' /\ txn'[w].staged = {}
  BY <1>1, NothingToldNext
<1>4. StagedApart'
  BY <1>1, <1>2, <1>3 DEF BatchInv, StagedApart
<1> QED
  BY <1>2, <1>3, <1>4 DEF BatchInv

LEMMA BatchEnters ==
    ASSUME BatchInv, TypeOK', NEW w \in Workers, Enters(w)
    PROVE  BatchInv'
<1>1. txn[w] \in Txn /\ txn[w].staged = {} /\ txn[w].results = <<>>
  BY DEF Enters, BatchInv, TypeOK, HandlersOK, PlaceOK
<1>2. /\ OthersSame(w) /\ row' = row /\ items' = items
      /\ txn'[w].staged = {} /\ txn'[w].results = <<>>
  BY <1>1 DEF Enters, tables, Txn
<1>3. \A v \in Workers \ {w} : (Told(v) /\ FullAtCap(v))' /\ txn'[v].staged = txn[v].staged
  BY <1>2, OthersTold DEF OthersSame, Same
<1>4. (Told(w) /\ FullAtCap(w))'
  BY <1>2 DEF Told, FullAtCap, Created
<1>5. StagedApart'
  BY <1>2, <1>3 DEF BatchInv, StagedApart
<1> QED
  BY <1>3, <1>4, <1>5 DEF BatchInv

LEMMA BatchRefuses ==
    ASSUME BatchInv, TypeOK', NEW w \in Workers, Refuses(w)
    PROVE  BatchInv'
<1> DEFINE n == Len(txn[w].results)
<1>1. PICK result \in Entries \ {"created"} :
         Report(w, txn[w], result) /\ (result = "closet_full" <=> txn[w].remaining <= 0)
  BY DEF Refuses
<1>2. AtEntry(w) /\ row' = row /\ txn[w] \in Txn /\ TypeOK
  BY DEF Refuses, BatchInv, TypeOK, HandlersOK
<1>3. /\ n \in Nat /\ DOMAIN txn[w].results = 1 .. n
      /\ DOMAIN txn'[w].results = 1 .. n + 1
      /\ \A k \in 1 .. n : txn'[w].results[k] = txn[w].results[k]
      /\ txn'[w].results[n + 1] = result
      /\ txn'[w].staged = txn[w].staged /\ txn'[w].remaining = txn[w].remaining
      /\ OthersSame(w) /\ req' = req /\ items' = items
  BY <1>1, <1>2, ReportedOnce
<1> HIDE DEF n
<1>4. Created(w)' = Created(w)
  BY <1>1, <1>3 DEF Created
<1>5. \A k : RowFor(w, k)' = RowFor(w, k)
  BY <1>3 DEF RowFor
<1>6. Told(w) /\ FullAtCap(w)
  BY DEF BatchInv
<1>7. FullAtCap(w)'
  BY <1>1, <1>3, <1>6 DEF FullAtCap
<1>8. Told(w)'
  <2>1. ASSUME NEW j \in DOMAIN txn'[w].results, NEW k \in DOMAIN txn'[w].results,
               j < k, txn'[w].results[j] = "closet_full"
        PROVE  txn'[w].results[k] = "closet_full"
    <3>1. j \in 1 .. n /\ txn[w].results[j] = "closet_full"
      BY <1>3, <2>1
    <3>2. CASE k \in 1 .. n
      BY <1>3, <1>6, <2>1, <3>1, <3>2 DEF Told
    <3>3. CASE k = n + 1
      <4>1. txn[w].remaining <= 0
        BY <1>3, <1>6, <3>1 DEF FullAtCap
      <4> QED
        BY <1>1, <1>3, <3>3, <4>1
    <3> QED
      BY <1>3, <3>2, <3>3
  <2>2. {row'[i] : i \in txn'[w].staged} = {row[i] : i \in txn[w].staged}
    BY <1>2, <1>3
  <2>3. {RowFor(w, k) : k \in Created(w)}' = {RowFor(w, k) : k \in Created(w)}
    BY <1>4, <1>5
  <2> QED
    BY <1>3, <1>4, <1>6, <2>1, <2>2, <2>3 DEF Told
<1>9. \A v \in Workers \ {w} : (Told(v) /\ FullAtCap(v))' /\ txn'[v].staged = txn[v].staged
  BY <1>2, <1>3, OthersTold DEF OthersSame, Same
<1>10. StagedApart'
  BY <1>3, <1>9 DEF BatchInv, StagedApart
<1> QED
  BY <1>7, <1>8, <1>9, <1>10 DEF BatchInv

LEMMA BatchInserts ==
    ASSUME BatchInv, TypeOK', NEW w \in Workers, EntryInserted(w)
    PROVE  BatchInv'
<1> DEFINE n == Len(txn[w].results)
<1>1. TypeOK
  BY DEF BatchInv
<1>2. /\ n \in Nat /\ DOMAIN txn[w].results = 1 .. n
      /\ DOMAIN txn'[w].results = 1 .. n + 1
      /\ \A k \in 1 .. n : txn'[w].results[k] = txn[w].results[k]
      /\ txn'[w].results[n + 1] = "created"
      /\ txn[w].remaining \in Int /\ txn[w].remaining > 0
      /\ Cardinality(txn'[w].staged) = Cardinality(txn[w].staged) + 1
      /\ OthersSame(w) /\ req' = req /\ items' = items
  BY <1>1, InsertedRow
<1>3. PICK i \in ItemIds :
        /\ txn'[w].staged = txn[w].staged \cup {i}
        /\ i \notin items /\ \A v \in Workers : i \notin txn[v].staged
        /\ \A j \in ItemIds \ {i} : row'[j] = row[j]
        /\ row'[i] = RowFor(w, n + 1)
  BY <1>1, InsertedRow
<1> HIDE DEF n
<1>4. Told(w) /\ FullAtCap(w) /\ txn[w].staged \subseteq ItemIds
  BY DEF BatchInv, TypeOK, HandlersOK, Txn
<1>5. \A k \in 1 .. n : txn[w].results[k] # "closet_full"
  BY <1>2, <1>4 DEF FullAtCap
<1>6. FullAtCap(w)'
  BY <1>2, <1>5 DEF FullAtCap
<1>7. Created(w)' = Created(w) \cup {n + 1} /\ n + 1 \notin Created(w) /\ Created(w) \subseteq 1 .. n
  BY <1>2 DEF Created
<1>8. Cardinality(txn'[w].staged) = Cardinality(Created(w)')
  <2>1. IsFiniteSet(1 .. n) /\ Created(w) \in SUBSET (1 .. n)
    BY <1>2, <1>7, FS_Interval
  <2>2. Cardinality(Created(w) \cup {n + 1}) = Cardinality(Created(w)) + 1
    BY <1>7, <2>1, FS_Subset, FS_AddElement
  <2> QED
    BY <1>2, <1>4, <1>7, <2>2 DEF Told
<1>9. {row'[j] : j \in txn'[w].staged} = {RowFor(w, k)' : k \in Created(w)'}
  <2>1. \A k : RowFor(w, k)' = RowFor(w, k)
    BY <1>2 DEF RowFor
  <2>2. \A j \in txn[w].staged : row'[j] = row[j]
    BY <1>3, <1>4
  <2>3. {row'[j] : j \in txn'[w].staged} = {row[j] : j \in txn[w].staged} \cup {RowFor(w, n + 1)}
    BY <1>3, <2>2
  <2>4. {RowFor(w, k)' : k \in Created(w)'} = {RowFor(w, k) : k \in Created(w)} \cup {RowFor(w, n + 1)}
    BY <1>7, <2>1
  <2> QED
    BY <1>4, <2>3, <2>4 DEF Told
<1>10. \A j, k \in DOMAIN txn'[w].results :
          j < k /\ txn'[w].results[j] = "closet_full" => txn'[w].results[k] = "closet_full"
  BY <1>2, <1>5
<1>11. Told(w)'
  BY <1>8, <1>9, <1>10 DEF Told
<1>12. \A v \in Workers \ {w} : (Told(v) /\ FullAtCap(v))' /\ txn'[v].staged = txn[v].staged
  <2>1. \A v \in Workers \ {w} : \A j \in txn[v].staged : row'[j] = row[j]
    BY <1>3 DEF BatchInv, TypeOK, HandlersOK, Txn
  <2> QED
    BY <1>2, <2>1, OthersTold DEF OthersSame, Same
<1>13. StagedApart'
  BY <1>2, <1>3, <1>12 DEF BatchInv, StagedApart
<1> QED
  BY <1>6, <1>11, <1>12, <1>13 DEF BatchInv

LEMMA BatchNextOK == BatchInv /\ [Next]_vars => BatchInv'
<1> SUFFICES ASSUME BatchInv, [Next]_vars PROVE BatchInv'
  OBVIOUS
<1>1. TypeOK /\ TypeOK'
  BY NextTypeOK DEF BatchInv
<1>2. CASE Workers = {}
  BY <1>1, <1>2 DEF BatchInv, StagedApart
<1>3. CASE Workers # {}
  <2>1. PICK w \in Workers :
           EntryInserted(w) \/ Commit(w) \/ Enters(w) \/ Refuses(w) \/ LeavesStaged(w)
    BY <1>1, <1>3, StepKinds
  <2> QED
    BY <1>1, <2>1, BatchInserts, BatchCommits, BatchEnters, BatchRefuses, BatchLeaves
<1> QED
  BY <1>2, <1>3

(* Whatever other handlers, aborts and deletions do meanwhile, the rows that *)
(* a batch commits are those of the entries it reports as created, and once  *)
(* an entry was refused for the cap all that follow are.                     *)
THEOREM ReportsAreExact == Spec => []BatchReport
<1> QED
  BY BatchInitOK, BatchNextOK, ToldReport, PTL DEF Spec

-----------------------------------------------------------------------------
(* How far the cap can be overrun. *)

(* What makes OvershootBounded inductive.  A handler that found room may     *)
(* still commit what it has staged and what its count and its payloads leave *)
(* it to stage: one batch at most.  Of those that count for user u at a time *)
(* the last to have counted sees room for all it may stage, and each commit  *)
(* in between takes one handler away and adds one batch.                     *)
Counting(u) ==
    {w \in Workers : /\ pc[w] = "insert" /\ req[w].user = u
                     /\ txn[w].remaining > 0 \/ txn[w].staged # {}}

MayCommit(w) ==
    LET todo == Len(req[w].payloads) - Len(txn[w].results)
    IN  Cardinality(txn[w].staged)
          + (IF txn[w].remaining < todo THEN txn[w].remaining ELSE todo)

InCloset(u) == Cardinality(Visible(u))

(* The cap, overrun by the batches of all handlers but n. *)
Bound(n) == MaxItems + (Cardinality(Workers) - n) * MaxBatch

OverrunInv(u) ==
    IF Counting(u) = {} THEN InCloset(u) <= Bound(1)
    ELSE \E w \in Counting(u) : InCloset(u) + MayCommit(w) <= Bound(Cardinality(Counting(u)))

RoomLeft(w) == txn[w].staged # {} => txn[w].remaining >= 0

BatchFits(w) == pc[w] # "idle" => Len(req[w].payloads) <= MaxBatch

CapInv ==
    /\ AccountInv /\ BatchInv
    /\ \A w \in Workers : RoomLeft(w) /\ BatchFits(w)
    /\ \A u \in Users : OverrunInv(u)

(* Counts and their arithmetic. *)

LEMMA HandlersCount ==
    Workers # {} => Cardinality(Workers) \in Nat \ {0}
BY FiniteAssumption, FS_CardinalityType, FS_EmptySet

LEMMA CountingCount ==
    ASSUME NEW u
    PROVE  /\ IsFiniteSet(Counting(u)) /\ Cardinality(Counting(u)) \in Nat
           /\ Cardinality(Counting(u)) <= Cardinality(Workers)
           /\ Cardinality(Counting(u)) = 0 <=> Counting(u) = {}
<1>1. Counting(u) \in SUBSET Workers
  BY DEF Counting
<1> QED
  BY <1>1, FiniteAssumption, FS_Subset, FS_CardinalityType, FS_EmptySet

LEMMA Distribute ==
    ASSUME NEW a \in Int, NEW b \in Int PROVE (a + 1) * b = a * b + b
OBVIOUS

LEMMA NotNegative ==
    ASSUME NEW a \in Nat, NEW b \in Nat PROVE a * b \in Nat
OBVIOUS

(* One handler less is one batch more. *)
LEMMA BoundStep ==
    ASSUME NEW n \in Nat, Workers # {}
    PROVE  /\ Bound(n) \in Int /\ Bound(n) = Bound(n + 1) + MaxBatch
           /\ n <= Cardinality(Workers) => MaxItems <= Bound(n)
           /\ n >= 1 => Bound(n) <= Bound(1)
<1> DEFINE N == Cardinality(Workers)
<1>1. N \in Nat /\ MaxItems \in Nat /\ MaxBatch \in Nat
  BY HandlersCount, CapAssumption
<1> HIDE DEF N
<1>2. /\ (N - n) * MaxBatch \in Int /\ (N - (n + 1)) * MaxBatch \in Int
      /\ (N - 1) * MaxBatch \in Int
  BY <1>1
<1>3. (N - n) * MaxBatch = (N - (n + 1)) * MaxBatch + MaxBatch
  <2>1. N - n = (N - (n + 1)) + 1 /\ N - (n + 1) \in Int
    BY <1>1
  <2> QED
    BY <1>1, <2>1, Distribute
<1>4. n <= N => (N - n) * MaxBatch >= 0
  <2>1. ASSUME n <= N PROVE (N - n) * MaxBatch >= 0
    <3>1. N - n \in Nat
      BY <1>1, <2>1
    <3> QED
      BY <1>1, <3>1, NotNegative
  <2> QED
    BY <2>1
<1>5. n >= 1 => (N - n) * MaxBatch <= (N - 1) * MaxBatch
  <2>1. ASSUME n >= 1 PROVE (N - n) * MaxBatch <= (N - 1) * MaxBatch
    <3>1. n - 1 \in Nat /\ (n - 1) * MaxBatch \in Nat
      BY <1>1, <2>1, NotNegative
    <3>2. (N - 1) * MaxBatch = (N - n) * MaxBatch + (n - 1) * MaxBatch
      BY <1>1
    <3> QED
      BY <1>2, <3>1, <3>2
  <2> QED
    BY <2>1
<1> QED
  BY <1>1, <1>2, <1>3, <1>4, <1>5 DEF Bound, N

LEMMA RoomArithmetic ==
    ASSUME NEW s \in Nat, NEW told \in Nat, NEW sent \in Nat, NEW r \in Nat, NEW batch \in Nat,
           s <= told, told <= sent, sent <= batch
    PROVE  LET more == IF r < sent - told THEN r ELSE sent - told
           IN  s + more \in Nat /\ s <= s + more /\ s + more <= batch
OBVIOUS

(* One batch at most, and no less than what is staged. *)
LEMMA MayCommitRange ==
    ASSUME BatchInv, NEW w \in Workers, pc[w] = "insert", RoomLeft(w), BatchFits(w),
           txn[w].remaining > 0 \/ txn[w].staged # {}
    PROVE  /\ Cardinality(txn[w].staged) \in Nat
           /\ MayCommit(w) \in Nat
           /\ Cardinality(txn[w].staged) <= MayCommit(w)
           /\ MayCommit(w) <= MaxBatch
<1>1. /\ txn[w] \in Txn /\ req[w] \in Request
      /\ Len(txn[w].results) <= Len(req[w].payloads)
  BY BusyOK DEF BatchInv, PlaceOK
<1>2. /\ txn[w].remaining \in Int /\ txn[w].results \in Seq(Entries)
      /\ req[w].payloads \in Seq(Payload) /\ txn[w].staged \in SUBSET ItemIds
  BY <1>1 DEF Txn, Request
<1>3. Len(txn[w].results) \in Nat /\ Len(req[w].payloads) \in Nat
      /\ DOMAIN txn[w].results = 1 .. Len(txn[w].results)
  BY <1>2
<1>4. Cardinality(txn[w].staged) \in Nat
  BY <1>2, FiniteAssumption, FS_Subset, FS_CardinalityType
<1>5. Cardinality(txn[w].staged) <= Len(txn[w].results)
  <2>1. Created(w) \in SUBSET (1 .. Len(txn[w].results))
    BY <1>3 DEF Created
  <2>2. /\ IsFiniteSet(1 .. Len(txn[w].results))
        /\ Cardinality(1 .. Len(txn[w].results)) = Len(txn[w].results)
    BY <1>3, FS_Interval
  <2>3. Cardinality(Created(w)) <= Len(txn[w].results)
    BY <2>1, <2>2, FS_Subset
  <2> QED
    BY <2>3 DEF BatchInv, Told
<1>6. txn[w].remaining >= 0
  BY <1>2 DEF RoomLeft
<1>7. Len(req[w].payloads) <= MaxBatch /\ MaxBatch \in Nat
  BY CapAssumption DEF BatchFits
<1>8. txn[w].remaining \in Nat
  BY <1>2, <1>6
<1> QED
  BY <1>1, <1>3, <1>4, <1>5, <1>7, <1>8, RoomArithmetic DEF MayCommit

-----------------------------------------------------------------------------
(* The three things a step can do to OverrunInv(u). *)

Quiet(u) ==
    /\ InCloset(u)' <= InCloset(u)
    /\ Counting(u)' = Counting(u)
    /\ \A w \in Counting(u) : MayCommit(w)' <= MayCommit(w)

Joins(u, w) ==
    /\ InCloset(u)' = InCloset(u)
    /\ Counting(u)' = Counting(u) \cup {w}
    /\ InCloset(u) + MayCommit(w)' <= MaxItems

Leaves(u, w) ==
    /\ w \in Counting(u)
    /\ InCloset(u)' <= InCloset(u) + Cardinality(txn[w].staged)
    /\ Counting(u)' = Counting(u) \ {w}
    /\ \A v \in Counting(u) \ {w} : MayCommit(v)' = MayCommit(v)

LEMMA CapNumbers ==
    ASSUME CapInv, NEW u \in Users
    PROVE  /\ InCloset(u) \in Nat
           /\ \A w \in Counting(u) :
                /\ MayCommit(w) \in Nat /\ MayCommit(w) <= MaxBatch
                /\ Cardinality(txn[w].staged) \in Nat
                /\ Cardinality(txn[w].staged) <= MayCommit(w)
<1>1. TypeOK
  BY DEF CapInv, BatchInv
<1>2. InCloset(u) \in Nat
  BY <1>1, CountIsNat DEF InCloset
<1> QED
  BY <1>2, MayCommitRange DEF CapInv, Counting

LEMMA QuietKeeps ==
    ASSUME CapInv, Workers # {}, NEW u \in Users, Quiet(u),
           InCloset(u)' \in Nat, \A w \in Counting(u)' : MayCommit(w)' \in Nat
    PROVE  OverrunInv(u)'
<1>1. OverrunInv(u) /\ InCloset(u) \in Nat /\ \A w \in Counting(u) : MayCommit(w) \in Nat
  BY CapNumbers DEF CapInv
<1>2. Bound(1) \in Int /\ Bound(Cardinality(Counting(u))) \in Int
  BY BoundStep, CountingCount
<1>3. \A n : Bound(n)' = Bound(n)
  BY DEF Bound
<1>4. CASE Counting(u) = {}
  BY <1>1, <1>2, <1>3, <1>4 DEF Quiet, OverrunInv
<1>5. CASE Counting(u) # {}
  <2>1. PICK w \in Counting(u) : InCloset(u) + MayCommit(w) <= Bound(Cardinality(Counting(u)))
    BY <1>1, <1>5 DEF OverrunInv
  <2>2. /\ w \in Counting(u)' /\ Cardinality(Counting(u)') = Cardinality(Counting(u))
        /\ InCloset(u)' + MayCommit(w)' <= Bound(Cardinality(Counting(u)))
    BY <1>1, <1>2, <2>1 DEF Quiet
  <2> QED
    BY <1>3, <2>2 DEF OverrunInv
<1> QED
  BY <1>4, <1>5

LEMMA JoinKeeps ==
    ASSUME Workers # {}, NEW u \in Users, NEW w \in Workers, Joins(u, w),
           InCloset(u)' \in Nat, MayCommit(w)' \in Nat,
           IsFiniteSet(Counting(u)'), Cardinality(Counting(u)') \in Nat,
           Cardinality(Counting(u)') <= Cardinality(Workers)
    PROVE  OverrunInv(u)'
<1>1. /\ MaxItems <= Bound(Cardinality(Counting(u)'))
      /\ Bound(Cardinality(Counting(u)')) \in Int
  BY BoundStep
<1>2. w \in Counting(u)' /\ MaxItems \in Nat
  BY CapAssumption DEF Joins
<1>3. InCloset(u)' + MayCommit(w)' <= Bound(Cardinality(Counting(u)'))
  BY <1>1, <1>2 DEF Joins
<1>4. \A n : Bound(n)' = Bound(n)
  BY DEF Bound
<1> QED
  BY <1>2, <1>3, <1>4 DEF OverrunInv

LEMMA LeaveKeeps ==
    ASSUME CapInv, Workers # {}, NEW u \in Users, NEW w \in Workers, Leaves(u, w),
           InCloset(u)' \in Nat
    PROVE  OverrunInv(u)'
<1> DEFINE C == Counting(u)
           D == Counting(u)'
           n == Cardinality(C)
           m == Cardinality(D)
<1>1. /\ InCloset(u) \in Nat
      /\ \A v \in C : /\ MayCommit(v) \in Nat /\ MayCommit(v) <= MaxBatch
                      /\ Cardinality(txn[v].staged) \in Nat
                      /\ Cardinality(txn[v].staged) <= MayCommit(v)
  BY CapNumbers
<1>2. w \in C /\ D = C \ {w}
  BY DEF Leaves
<1>3. IsFiniteSet(C) /\ n \in Nat
  BY CountingCount
<1>4. n = m + 1 /\ m \in Nat
  <2>1. m = n - 1
    BY <1>2, <1>3, FS_RemoveElement
  <2>2. n # 0
    BY <1>2, CountingCount
  <2> QED
    BY <1>3, <2>1, <2>2
<1>5. MaxBatch \in Nat /\ Bound(m) \in Int /\ Bound(n) \in Int /\ Bound(m) = Bound(n) + MaxBatch
  BY <1>3, <1>4, BoundStep, CapAssumption
<1>6. PICK z \in C : InCloset(u) + MayCommit(z) <= Bound(n)
  BY <1>2 DEF CapInv, OverrunInv
<1>7. \A k : Bound(k)' = Bound(k)
  BY DEF Bound
<1>8. InCloset(u)' <= InCloset(u) + Cardinality(txn[w].staged)
  BY DEF Leaves
<1> HIDE DEF C, D, n, m
<1>9. CASE z = w
  <2>1. InCloset(u)' <= Bound(n)
    BY <1>1, <1>2, <1>5, <1>6, <1>8, <1>9
  <2>2. CASE D = {}
    <3>1. m = 0
      BY <2>2, FS_EmptySet DEF m
    <3> QED
      BY <1>4, <1>7, <2>1, <2>2, <3>1 DEF OverrunInv, D
  <2>3. CASE D # {}
    <3>1. PICK v \in D : TRUE
      BY <2>3
    <3>2. v \in C /\ MayCommit(v)' = MayCommit(v)
      BY <1>2, <3>1 DEF Leaves, C
    <3>3. InCloset(u)' + MayCommit(v)' <= Bound(m)
      BY <1>1, <1>5, <2>1, <3>2
    <3> QED
      BY <1>7, <2>3, <3>1, <3>3 DEF OverrunInv, D, m
  <2> QED
    BY <2>2, <2>3
<1>10. CASE z # w
  <2>1. z \in D /\ MayCommit(z)' = MayCommit(z)
    BY <1>2, <1>10 DEF Leaves, C
  <2>2. InCloset(u)' + MayCommit(z)' <= Bound(m)
    BY <1>1, <1>2, <1>5, <1>6, <1>8, <2>1
  <2> QED
    BY <1>7, <2>1, <2>2 DEF OverrunInv, D, m
<1> QED
  BY <1>9, <1>10

(* What the step of handler w means for the rows of user u. *)
VisibleShrinks(u) == Visible(u)' \subseteq Visible(u)

LEMMA ShrinksCount ==
    ASSUME TypeOK, NEW u, VisibleShrinks(u)
    PROVE  InCloset(u)' \in Nat /\ InCloset(u)' <= InCloset(u) /\ InCloset(u) \in Nat
<1>1. IsFiniteSet(Visible(u)) /\ Cardinality(Visible(u)) \in Nat
  BY CountIsNat
<1>2. Visible(u)' \in SUBSET Visible(u)
  BY DEF VisibleShrinks
<1>3. IsFiniteSet(Visible(u)') /\ Cardinality(Visible(u)') <= Cardinality(Visible(u))
  BY <1>1, <1>2, FS_Subset
<1>4. Cardinality(Visible(u)') \in Nat
  BY <1>3, FS_CardinalityType
<1> QED
  BY <1>1, <1>3, <1>4 DEF InCloset

(* A handler that did not move counts as before. *)
LEMMA SameCounts ==
    ASSUME NEW v \in Workers, Same(v), NEW u
    PROVE  MayCommit(v)' = MayCommit(v) /\ (v \in Counting(u)' <=> v \in Counting(u))
BY DEF Same, MayCommit, Counting

LEMMA NotInserting ==
    ASSUME NEW w \in Workers, pc'[w] # "insert", NEW u PROVE w \notin Counting(u)'
BY DEF Counting

(* The handler that stops inserting, if it was counting, takes away at most  *)
(* what it commits; whoever else counts goes on doing so.                    *)
LEMMA StopsCounting ==
    ASSUME CapInv, Workers # {}, NEW w \in Workers, NEW u \in Users, OthersSame(w),
           Same(w) \/ pc'[w] # "insert",
           VisibleShrinks(u) \/ (w \in Counting(u) /\ pc'[w] # "insert"
                                  /\ InCloset(u)' <= InCloset(u) + Cardinality(txn[w].staged)),
           InCloset(u)' \in Nat
    PROVE  OverrunInv(u)'
<1>0. TypeOK
  BY DEF CapInv, BatchInv
<1>1. Counting(u)' \subseteq Workers /\ Counting(u) \subseteq Workers
  BY DEF Counting
<1>2. \A v \in Workers \ {w} : MayCommit(v)' = MayCommit(v) /\ (v \in Counting(u)' <=> v \in Counting(u))
  BY SameCounts DEF OthersSame
<1>3. CASE w \in Counting(u) /\ pc'[w] # "insert"
  <2>1. Counting(u)' = Counting(u) \ {w}
    BY <1>1, <1>2, <1>3, NotInserting
  <2>2. InCloset(u)' <= InCloset(u) + Cardinality(txn[w].staged)
    <3>1. CASE VisibleShrinks(u)
      <4>1. InCloset(u)' <= InCloset(u) /\ InCloset(u)' \in Nat /\ InCloset(u) \in Nat
        BY <1>0, <3>1, ShrinksCount
      <4>2. Cardinality(txn[w].staged) \in Nat
        BY <1>3, CapNumbers
      <4> QED
        BY <4>1, <4>2
    <3> QED
      BY <3>1
  <2>3. Leaves(u, w)
    BY <1>1, <1>2, <1>3, <2>1, <2>2 DEF Leaves
  <2> QED
    BY <2>3, LeaveKeeps
<1>4. CASE ~(w \in Counting(u) /\ pc'[w] # "insert")
  <2>1. w \in Counting(u)' <=> w \in Counting(u)
    BY <1>4, SameCounts, NotInserting
  <2>2. Counting(u)' = Counting(u)
    BY <1>1, <1>2, <2>1
  <2>3. \A v \in Counting(u) : MayCommit(v)' = MayCommit(v) /\ MayCommit(v) \in Nat
    BY <1>1, <1>2, <1>4, SameCounts, CapNumbers
  <2>4. InCloset(u)' <= InCloset(u)
    BY <1>0, <1>4, ShrinksCount
  <2>5. Quiet(u)
    BY <2>2, <2>3, <2>4 DEF Quiet
  <2> QED
    BY <2>2, <2>3, <2>5, QuietKeeps
<1> QED
  BY <1>3, <1>4

LEMMA OverrunLeaves ==
    ASSUME CapInv, Workers # {}, NEW w \in Workers, LeavesStaged(w), NEW u \in Users
    PROVE  OverrunInv(u)'
<1>1. VisibleShrinks(u)
  BY DEF LeavesStaged, VisibleShrinks, Visible
<1>2. InCloset(u)' \in Nat
  BY <1>1, ShrinksCount DEF CapInv, BatchInv
<1> QED
  BY <1>1, <1>2, StopsCounting DEF LeavesStaged

LEMMA OverrunCommits ==
    ASSUME CapInv, Workers # {}, NEW w \in Workers, Commit(w), NEW u \in Users
    PROVE  OverrunInv(u)'
<1>0. TypeOK
  BY DEF CapInv, BatchInv
<1>1. /\ OthersSame(w) /\ pc[w] = "insert" /\ pc'[w] # "insert" /\ row' = row
      /\ items' = items \cup txn[w].staged
  BY <1>0 DEF Commit, Finish, OthersSame, Same, TypeOK, HandlersOK
<1>2. \A i \in txn[w].staged : row[i].owner = req[w].user
  BY DEF CapInv, AccountInv, StagedByRequester
<1>3. CASE req[w].user = u /\ txn[w].staged # {}
  <2>1. w \in Counting(u)
    BY <1>1, <1>3 DEF Counting
  <2>2. Visible(u)' = Visible(u) \cup txn[w].staged
    BY <1>1, <1>2, <1>3 DEF Visible
  <2>3. IsFiniteSet(Visible(u)) /\ Cardinality(Visible(u)) \in Nat
    BY <1>0, CountIsNat
  <2>4. IsFiniteSet(txn[w].staged) /\ Cardinality(txn[w].staged) \in Nat
    <3>1. txn[w].staged \in SUBSET ItemIds
      BY <1>0 DEF TypeOK, HandlersOK, Txn
    <3> QED
      BY <3>1, FiniteAssumption, FS_Subset, FS_CardinalityType
  <2>5. /\ IsFiniteSet(Visible(u) \cup txn[w].staged)
        /\ Cardinality(Visible(u) \cup txn[w].staged)
             = Cardinality(Visible(u)) + Cardinality(txn[w].staged)
                 - Cardinality(Visible(u) \cap txn[w].staged)
    BY <2>3, <2>4, FS_Union
  <2>6. Cardinality(Visible(u) \cap txn[w].staged) \in Nat
    BY <2>3, FS_Intersection, FS_CardinalityType
  <2>7. Cardinality(Visible(u) \cup txn[w].staged) \in Nat
    BY <2>5, FS_CardinalityType
  <2>8. InCloset(u)' \in Nat /\ InCloset(u)' <= InCloset(u) + Cardinality(txn[w].staged)
    BY <2>2, <2>3, <2>4, <2>5, <2>6, <2>7 DEF InCloset
  <2> QED
    BY <1>1, <2>1, <2>8, StopsCounting
<1>4. CASE ~(req[w].user = u /\ txn[w].staged # {})
  <2>1. VisibleShrinks(u)
    BY <1>1, <1>2, <1>4 DEF VisibleShrinks, Visible
  <2>2. InCloset(u)' \in Nat
    BY <1>0, <2>1, ShrinksCount
  <2> QED
    BY <1>1, <2>1, <2>2, StopsCounting
<1> QED
  BY <1>3, <1>4

LEMMA OverrunEnters ==
    ASSUME CapInv, Workers # {}, NEW w \in Workers, Enters(w), NEW u \in Users
    PROVE  OverrunInv(u)'
<1> DEFINE left == MaxItems - InCloset(req[w].user)
           sent == Len(req[w].payloads)
<1>0. TypeOK
  BY DEF CapInv, BatchInv
<1>1. /\ txn[w] \in Txn /\ txn[w].staged = {} /\ txn[w].results = <<>>
      /\ req[w] \in Request /\ pc[w] = "count"
  BY <1>0, BusyOK DEF Enters, PlaceOK
<1>2. /\ pc'[w] = "insert" /\ req'[w] = req[w] /\ OthersSame(w) /\ UNCHANGED <<items, row>>
      /\ txn'[w].staged = {} /\ txn'[w].results = <<>> /\ txn'[w].remaining = left
  BY <1>1 DEF Enters, tables, Txn, InCloset
<1>3. left \in Int /\ sent \in Nat
  BY <1>0, <1>1, CountIsNat, CapAssumption DEF InCloset, Request
<1>4. InCloset(u)' = InCloset(u) /\ InCloset(u) \in Nat
  BY <1>0, <1>2, CountIsNat DEF InCloset, Visible
<1>5. MayCommit(w)' = IF left < sent THEN left ELSE sent
  <2>1. MayCommit(w)' = Cardinality({}) + (IF left < sent - Len(<<>>) THEN left ELSE sent - Len(<<>>))
    BY <1>2 DEF MayCommit
  <2>2. Cardinality({}) = 0
    BY FS_EmptySet
  <2>3. Len(<<>>) = 0
    OBVIOUS
  <2> HIDE DEF left, sent
  <2> QED
    BY <1>3, <2>1, <2>2, <2>3
<1>6. \A v \in Workers \ {w} : MayCommit(v)' = MayCommit(v) /\ (v \in Counting(u)' <=> v \in Counting(u))
  BY <1>2, SameCounts DEF OthersSame
<1>7. w \notin Counting(u) /\ Counting(u) \subseteq Workers /\ Counting(u)' \subseteq Workers
  BY <1>1 DEF Counting
<1>8. w \in Counting(u)' <=> req[w].user = u /\ left > 0
  BY <1>2 DEF Counting
<1> HIDE DEF left, sent
<1>9. CASE req[w].user = u /\ left > 0
  <2>1. Counting(u)' = Counting(u) \cup {w}
    BY <1>6, <1>7, <1>8, <1>9
  <2>2. MayCommit(w)' \in Nat /\ MayCommit(w)' <= left
    BY <1>3, <1>5, <1>9
  <2>3. InCloset(u) + left = MaxItems
    BY <1>4, <1>9, CapAssumption DEF left
  <2>4. Joins(u, w)
    BY <1>3, <1>4, <2>1, <2>2, <2>3 DEF Joins
  <2>5. Counting(u)' \in SUBSET Workers
    BY <1>7
  <2>6. /\ IsFiniteSet(Counting(u)') /\ Cardinality(Counting(u)') \in Nat
        /\ Cardinality(Counting(u)') <= Cardinality(Workers)
    BY <2>5, FiniteAssumption, FS_Subset, FS_CardinalityType
  <2> QED
    BY <1>4, <2>2, <2>4, <2>6, JoinKeeps
<1>10. CASE ~(req[w].user = u /\ left > 0)
  <2>1. Counting(u)' = Counting(u)
    BY <1>6, <1>7, <1>8, <1>10
  <2>2. \A v \in Counting(u) : MayCommit(v)' = MayCommit(v) /\ MayCommit(v) \in Nat
    BY <1>6, <1>7, CapNumbers
  <2>3. Quiet(u)
    BY <1>4, <2>1, <2>2 DEF Quiet
  <2> QED
    BY <1>4, <2>1, <2>2, <2>3, QuietKeeps
<1> QED
  BY <1>9, <1>10

(* Going on with the next payload never adds to what may be committed. *)
LEMMA NextPayload ==
    ASSUME NEW s \in Nat, NEW told \in Nat, NEW sent \in Nat, NEW r \in Int, told < sent
    PROVE  LET Sum(a, b, c) == a + (IF b < sent - c THEN b ELSE sent - c)
           IN  /\ r >= 0 => Sum(s, r, told + 1) \in Nat /\ Sum(s, r, told + 1) <= Sum(s, r, told)
               /\ r > 0 => Sum(s + 1, r - 1, told + 1) = Sum(s, r, told)
                             /\ Sum(s, r, told) \in Nat
OBVIOUS

(* The handler w goes on with the next payload, and what the others see of   *)
(* the closet does not change.                                               *)
LEMMA OverrunGoesOn ==
    ASSUME CapInv, Workers # {}, NEW w \in Workers, OthersSame(w), NEW u \in Users,
           Visible(u)' = Visible(u), w \in Counting(u)' <=> w \in Counting(u),
           w \in Counting(u) => MayCommit(w)' \in Nat /\ MayCommit(w)' <= MayCommit(w)
    PROVE  OverrunInv(u)'
<1>1. InCloset(u)' = InCloset(u) /\ InCloset(u) \in Nat
  BY CountIsNat DEF InCloset, CapInv, BatchInv
<1>2. \A v \in Workers \ {w} : MayCommit(v)' = MayCommit(v) /\ (v \in Counting(u)' <=> v \in Counting(u))
  BY SameCounts DEF OthersSame
<1>3. Counting(u)' = Counting(u)
  BY <1>2 DEF Counting
<1>4. \A v \in Counting(u) : MayCommit(v)' \in Nat /\ MayCommit(v)' <= MayCommit(v)
  <2>1. ASSUME NEW v \in Counting(u), v # w PROVE MayCommit(v)' \in Nat /\ MayCommit(v)' <= MayCommit(v)
    <3>1. MayCommit(v) \in Nat /\ v \in Workers
      BY CapNumbers DEF Counting
    <3> QED
      BY <1>2, <2>1, <3>1
  <2> QED
    BY <2>1
<1>5. Quiet(u)
  BY <1>1, <1>3, <1>4 DEF Quiet
<1> QED
  BY <1>1, <1>3, <1>4, <1>5, QuietKeeps

LEMMA OverrunRefuses ==
    ASSUME CapInv, Workers # {}, NEW w \in Workers, Refuses(w), NEW u \in Users
    PROVE  OverrunInv(u)'
<1> DEFINE n == Len(txn[w].results)
           sent == Len(req[w].payloads)
           r == txn[w].remaining
           s == Cardinality(txn[w].staged)
<1>0. TypeOK /\ AtEntry(w) /\ txn[w] \in Txn /\ row' = row /\ req[w] \in Request
  BY BusyOK DEF CapInv, BatchInv, Refuses, AtEntry
<1>1. PICK result \in Entries : Report(w, txn[w], result)
  BY DEF Refuses
<1>2. /\ n \in Nat /\ n < sent
      /\ Len(txn'[w].results) = n + 1
      /\ txn'[w].staged = txn[w].staged /\ txn'[w].remaining = txn[w].remaining
      /\ OthersSame(w) /\ req' = req /\ pc' = pc /\ items' = items
  BY <1>0, <1>1, ReportedOnce
<1>3. sent \in Nat /\ r \in Int /\ s \in Nat
  BY <1>0, StagedIsFinite DEF Request, Txn
<1>4. w \in Counting(u)' <=> w \in Counting(u)
  BY <1>2 DEF Counting
<1>5. /\ MayCommit(w) = s + (IF r < sent - n THEN r ELSE sent - n)
      /\ MayCommit(w)' = s + (IF r < sent - (n + 1) THEN r ELSE sent - (n + 1))
  BY <1>2 DEF MayCommit
<1>6. w \in Counting(u) => r >= 0
  BY <1>3 DEF CapInv, RoomLeft, Counting
<1> HIDE DEF n, sent, r, s
<1>7. w \in Counting(u) => MayCommit(w)' \in Nat /\ MayCommit(w)' <= MayCommit(w)
  BY <1>2, <1>3, <1>5, <1>6, NextPayload
<1>8. Visible(u)' = Visible(u)
  BY <1>0, <1>2 DEF Visible
<1> QED
  BY <1>2, <1>4, <1>7, <1>8, OverrunGoesOn

LEMMA OverrunInserts ==
    ASSUME CapInv, Workers # {}, NEW w \in Workers, EntryInserted(w), NEW u \in Users
    PROVE  OverrunInv(u)'
<1> DEFINE n == Len(txn[w].results)
           sent == Len(req[w].payloads)
           r == txn[w].remaining
           s == Cardinality(txn[w].staged)
<1>1. TypeOK /\ AtEntry(w)
  BY DEF EntryInserted, InsertEntry, AtValidEntry, AtOpenEntry, CapInv, BatchInv
<1>2. /\ n \in Nat /\ n < sent /\ Len(txn'[w].results) = n + 1
      /\ r \in Int /\ r > 0 /\ txn'[w].remaining = r - 1
      /\ Cardinality(txn'[w].staged) = s + 1
      /\ OthersSame(w) /\ UNCHANGED <<req, pc, items>>
      /\ \A i \in items : row'[i] = row[i]
      /\ txn'[w].staged # {}
  BY <1>1, InsertedRow
<1>3. sent \in Nat /\ s \in Nat
  BY <1>1, BusyOK, StagedIsFinite DEF AtEntry, Request
<1>4. w \in Counting(u)' <=> w \in Counting(u)
  BY <1>2 DEF Counting
<1>5. /\ MayCommit(w) = s + (IF r < sent - n THEN r ELSE sent - n)
      /\ MayCommit(w)' = (s + 1) + (IF r - 1 < sent - (n + 1) THEN r - 1 ELSE sent - (n + 1))
  BY <1>2 DEF MayCommit
<1> HIDE DEF n, sent, r, s
<1>6. MayCommit(w)' \in Nat /\ MayCommit(w)' <= MayCommit(w)
  BY <1>2, <1>3, <1>5, NextPayload
<1>7. Visible(u)' = Visible(u)
  BY <1>2 DEF Visible
<1> QED
  BY <1>2, <1>4, <1>6, <1>7, OverrunGoesOn

-----------------------------------------------------------------------------

LEMMA RoomLeftNext ==
    ASSUME BatchInv, TypeOK', \A w \in Workers : RoomLeft(w), [Next]_vars,
           NEW v \in Workers
    PROVE  RoomLeft(v)'
<1>0. TypeOK
  BY DEF BatchInv
<1>1. PICK w \in Workers :
         EntryInserted(w) \/ Commit(w) \/ Enters(w) \/ Refuses(w) \/ LeavesStaged(w)
  BY <1>0, StepKinds
<1>2. CASE EntryInserted(w)
  <2>1. /\ OthersSame(w) /\ txn[w].remaining \in Int /\ txn[w].remaining > 0
        /\ txn'[w].remaining = txn[w].remaining - 1
    BY <1>0, <1>2, InsertedRow
  <2> QED
    BY <2>1 DEF OthersSame, Same, RoomLeft
<1>3. CASE Refuses(w)
  <2>1. PICK result \in Entries : Report(w, txn[w], result) /\ AtEntry(w)
    BY <1>3 DEF Refuses
  <2>2. txn[w] \in Txn
    BY <1>0 DEF TypeOK, HandlersOK
  <2>3. /\ OthersSame(w) /\ txn'[w].staged = txn[w].staged
        /\ txn'[w].remaining = txn[w].remaining
    BY <1>0, <2>1, <2>2, ReportedOnce
  <2> QED
    BY <2>3 DEF OthersSame, Same, RoomLeft
<1>4. CASE Commit(w)
  <2>1. txn'[w].staged = {} /\ OthersSame(w)
    BY <1>0, <1>4 DEF Commit, Finish, NoTxn, OthersSame, Same, TypeOK, HandlersOK
  <2> QED
    BY <2>1 DEF OthersSame, Same, RoomLeft
<1>5. CASE Enters(w)
  <2>1. txn[w] \in Txn /\ txn[w].staged = {}
    BY <1>0, <1>5 DEF Enters, TypeOK, HandlersOK, PlaceOK
  <2>2. txn'[w].staged = {} /\ OthersSame(w)
    BY <1>5, <2>1 DEF Enters, Txn
  <2> QED
    BY <2>2 DEF OthersSame, Same, RoomLeft
<1>6. CASE LeavesStaged(w)
  BY <1>6 DEF LeavesStaged, OthersSame, Same, RoomLeft, TypeOK, PlaceOK
<1> QED
  BY <1>1, <1>2, <1>3, <1>4, <1>5, <1>6

(* A request keeps the payloads it began with. *)
LEMMA BatchFitsNext ==
    ASSUME TypeOK, \A w \in Workers : BatchFits(w), [Next]_vars, MaxBatch >= 1,
           NEW v \in Workers
    PROVE  BatchFits(v)'
<1>0. pc \in [Workers -> Labels] /\ req \in [Workers -> Request \cup {Absent}] /\ MaxBatch \in Nat
  BY CapAssumption DEF TypeOK, HandlersOK
<1>1. ASSUME NEW w \in Workers, NEW r, NEW l, Begin(w, r, l), Len(r.payloads) <= MaxBatch
      PROVE  BatchFits(v)'
  BY <1>0, <1>1 DEF Begin, BatchFits
<1>2. ASSUME NEW w \in Workers, NEW u \in Users, NEW p \in Singles, BeginCreate(w, u, p)
      PROVE  BatchFits(v)'
  <2>1. CASE Begin(w, Creation("create", u, <<p>>), "count")
    <3>1. Creation("create", u, <<p>>).payloads = <<p>> /\ Len(<<p>>) = 1
      BY DEF Creation
    <3> QED
      BY <1>0, <1>1, <2>1, <3>1
  <2>2. CASE UNCHANGED <<pc, req>>
    BY <2>2 DEF BatchFits
  <2> QED
    BY <1>2, <2>1, <2>2 DEF BeginCreate
<1>3. ASSUME NEW w \in Workers, NEW u \in Users, NEW ps \in Batches, BeginBatch(w, u, ps)
      PROVE  BatchFits(v)'
  <2>1. Len(Creation("batch", u, ps).payloads) <= MaxBatch
    BY WorkloadAssumption DEF Creation
  <2> QED
    BY <1>1, <1>3, <2>1 DEF BeginBatch
<1>4. ASSUME NEW w \in Workers, NEW u \in Users, NEW i \in ItemIds, NEW p \in Edits,
             BeginUpdate(w, u, i, p)
      PROVE  BatchFits(v)'
  <2> DEFINE r == [op |-> "update", user |-> u, payloads |-> <<>>, item |-> i, patch |-> p]
  <2>1. r.payloads = <<>> /\ Len(<<>>) = 0
    OBVIOUS
  <2>2. Begin(w, r, "read")
    BY <1>4 DEF BeginUpdate
  <2> HIDE DEF r
  <2> QED
    BY <1>0, <1>1, <2>1, <2>2
<1>5. ASSUME NEW w \in Workers, NEW u \in Users, BeginDeleteAccount(w, u) PROVE BatchFits(v)'
  <2> DEFINE r == [op |-> "delete_account", user |-> u, payloads |-> <<>>,
                   item |-> Absent, patch |-> NoEdit]
  <2>1. r.payloads = <<>> /\ Len(<<>>) = 0
    OBVIOUS
  <2>2. Begin(w, r, "purge_items")
    BY <1>5 DEF BeginDeleteAccount
  <2> HIDE DEF r
  <2> QED
    BY <1>0, <1>1, <2>1, <2>2
<1>6. ASSUME NEW w \in Workers,
             \/ ReadCount(w) \/ EntryOverCap(w) \/ EntryInvalid(w) \/ EntryInserted(w)
             \/ EntryRejected(w) \/ Commit(w) \/ WriteItem(w) \/ PurgeItems(w)
             \/ PurgeProfile(w) \/ CommitPurge(w) \/ AdminDelete(w) \/ AdminAnswers(w)
             \/ AdminFails(w) \/ FallbackDelete(w) \/ Abort(w)
      PROVE  \/ pc'[v] = "idle"
             \/ pc[v] # "idle" /\ req'[v] = req[v]
             \/ UNCHANGED <<pc[v], req[v]>>
  BY <1>0, <1>6 DEF ReadCount, EntryOverCap, EntryInvalid, EntryInserted, InsertEntry, EntryRejected,
         Commit, Report, WriteItem, PurgeItems, PurgeProfile, CommitPurge, AdminDelete,
         AdminAnswers, AdminFails, FallbackDelete, TellDeleted, Abort, Goto, Finish
<1>7. ASSUME NEW w \in Workers, ReadItem(w)
      PROVE  \/ pc'[v] = "idle"
             \/ pc[v] # "idle" /\ req'[v].payloads = req[v].payloads
             \/ UNCHANGED <<pc[v], req[v]>>
  <2>1. CASE v = w
    <3>1. req[w] \in Request
      BY <1>7, BusyOK DEF ReadItem, Goto, Finish
    <3> QED
      BY <1>0, <1>7, <2>1, <3>1 DEF ReadItem, Goto, Finish, Request
  <2>2. CASE v # w
    BY <1>0, <1>7, <2>2 DEF ReadItem, Goto, Finish
  <2> QED
    BY <2>1, <2>2
<1>8. CASE \/ \E u \in Users, i \in ItemIds : DeleteItem(u, i)
           \/ \E u \in Users : UpsertProfile(u) \/ LateDelete(u)
           \/ UNCHANGED vars
  BY <1>8 DEF DeleteItem, UpsertProfile, LateDelete, vars, BatchFits
<1> QED
  BY <1>2, <1>3, <1>4, <1>5, <1>6, <1>7, <1>8
     DEF Next, CreateStep, UpdateStep, DeleteAccountStep, BatchFits

-----------------------------------------------------------------------------

LEMMA CapInitOK == Workers # {} /\ Init => CapInv
<1> SUFFICES ASSUME Workers # {}, Init PROVE CapInv
  OBVIOUS
<1>1. AccountInv /\ BatchInv
  BY AccountInitOK, BatchInitOK
<1>2. \A w \in Workers : RoomLeft(w) /\ BatchFits(w)
  BY DEF Init, NoTxn, RoomLeft, BatchFits
<1>3. ASSUME NEW u \in Users PROVE OverrunInv(u)
  <2>1. Visible(u) = {} /\ Counting(u) = {}
    BY DEF Init, Visible, Counting
  <2>2. InCloset(u) = 0
    BY <2>1, FS_EmptySet DEF InCloset
  <2>3. MaxItems \in Nat /\ Bound(1) \in Int /\ MaxItems <= Bound(1)
    BY HandlersCount, BoundStep, CapAssumption
  <2> QED
    BY <2>1, <2>2, <2>3 DEF OverrunInv
<1> QED
  BY <1>1, <1>2, <1>3 DEF CapInv

LEMMA CapNextOK == Workers # {} /\ MaxBatch >= 1 /\ CapInv /\ [Next]_vars => CapInv'
<1> SUFFICES ASSUME Workers # {}, MaxBatch >= 1, CapInv, [Next]_vars PROVE CapInv'
  OBVIOUS
<1>1. AccountInv' /\ BatchInv' /\ TypeOK /\ TypeOK'
  BY AccountNextOK, BatchNextOK DEF CapInv, BatchInv
<1>2. \A w \in Workers : (RoomLeft(w) /\ BatchFits(w))'
  BY <1>1, RoomLeftNext, BatchFitsNext DEF CapInv
<1>3. ASSUME NEW u \in Users PROVE OverrunInv(u)'
  BY <1>1, StepKinds, OverrunInserts, OverrunCommits, OverrunEnters, OverrunRefuses, OverrunLeaves
<1> QED
  BY <1>1, <1>2, <1>3 DEF CapInv

LEMMA CapBounds ==
    Workers # {} /\ CapInv => OvershootBounded
<1> SUFFICES ASSUME Workers # {}, CapInv, NEW u \in Users
             PROVE  InCloset(u) <= Bound(1)
  BY DEF OvershootBounded, InCloset, Bound
<1>1. CASE Counting(u) = {}
  BY <1>1 DEF CapInv, OverrunInv
<1>2. CASE Counting(u) # {}
  <2>1. PICK w \in Counting(u) : InCloset(u) + MayCommit(w) <= Bound(Cardinality(Counting(u)))
    BY <1>2 DEF CapInv, OverrunInv
  <2>2. InCloset(u) \in Nat /\ MayCommit(w) \in Nat
    BY CapNumbers
  <2>3. Cardinality(Counting(u)) \in Nat /\ Cardinality(Counting(u)) >= 1
    BY <1>2, CountingCount
  <2>4. Bound(Cardinality(Counting(u))) <= Bound(1) /\ Bound(1) \in Int
        /\ Bound(Cardinality(Counting(u))) \in Int
    BY <2>3, BoundStep
  <2> QED
    BY <2>1, <2>2, <2>4
<1> QED
  BY <1>1, <1>2

(* Concurrent inserts overrun the cap by one batch for each handler but one. *)
(* max_batch_items is 20 (config.py); were it 0, create_item would still add *)
(* its one item, so a batch is taken to hold at least one.                   *)
THEOREM OvershootIsBounded ==
    ASSUME Workers # {}, MaxBatch >= 1
    PROVE  Spec => []OvershootBounded
<1>1. Init => CapInv
  BY CapInitOK
<1>2. CapInv /\ [Next]_vars => CapInv'
  BY CapNextOK
<1>3. CapInv => OvershootBounded
  BY CapBounds
<1> QED
  BY <1>1, <1>2, <1>3, PTL DEF Spec

==============================================================================
