------------------------------ MODULE WebCloset ------------------------------
(***************************************************************************)
(* The closet page of the web app (frontend/src/pages/ClosetPage.tsx) and  *)
(* the form it opens (components/ItemForm.tsx), over the REST API          *)
(* (backend/app/services/items.py), while the assistant writes to the same *)
(* closet.  A request is sent, served and answered in steps of their own,  *)
(* answers come in any order, and one may be lost.  A handler that creates *)
(* or updates an item first counts or reads, and writes in a later step.   *)
(***************************************************************************)
EXTENDS Integers, FiniteSets, SequencesExt

CONSTANTS
    Kinds,           \* categories
    Template,        \* the names of the fields of each category
    Flags,           \* the fields that are checkboxes; the others are texts
    Texts,           \* what the user types
    Trimmed,         \* what trim() leaves of a text, None for a blank one
    Writes,          \* what the assistant sends; all of the keys to add an item
    InitRows,        \* the closet at first, newest item first
    MaxItems,        \* item_limit of /api/me
    PageSize,
    MaxClicks,       \* bound: filters chosen, deletes and saves of the user
    MaxEdits,        \* bound: changes the user makes in forms
    MaxUnderWay,     \* bound: requests of the page under way at once
    MaxMishaps,      \* bound: writes of the assistant, and requests lost
    None

VARIABLES
    rows,            \* the closet in the database, newest first
    nextId,          \* ids stand for created_at, which is when a transaction began
    categories,      \* the page has the list of categories
    filter,          \* the category filter, None for all
    items, total, hasMore, loading, token,   \* state of ClosetPage
    form,            \* the form that is open: its item and its inputs
    lists,           \* listings under way: first pages, and a further page
    deletes, saves,  \* the page's writes under way
    assistant,       \* transactions of the assistant that have not written yet
    calm,            \* since the list was last loaded nobody else wrote, and
                     \* no two requests were under way at once
    left             \* what is left of each bound

page == <<items, total, hasMore, loading, token, filter>>
vars == <<rows, nextId, categories, page, form, lists, deletes, saves, assistant,
          calm, left>>

\* notes stands for each key that is a text of its own.  (the page never sees a
\* brand that is not trimmed: the model Item trims it)
Keys == {"kind", "notes", "fields"}
NewItem == [id |-> 0]     \* the form opened to add an item
NoFields == [f \in {} |-> None]
IsFields(fields) == fields = [f \in DOMAIN fields |-> fields[f]]

ASSUME NoneAssumption == None \notin Kinds
ASSUME BoundsAssumption ==
    /\ PageSize \in Nat \ {0} /\ MaxItems \in Nat /\ MaxUnderWay \in Nat
    /\ MaxClicks \in Nat /\ MaxEdits \in Nat /\ MaxMishaps \in Nat
ASSUME WritesAssumption ==
    \A w \in Writes : /\ DOMAIN w \subseteq Keys
                      /\ "fields" \in DOMAIN w => IsFields(w["fields"])
ASSUME InitRowsAssumption ==
    /\ InitRows \in Seq(Range(InitRows))
    /\ \A i \in DOMAIN InitRows :
          /\ InitRows[i] = [k \in Keys \cup {"id"} |-> InitRows[i][k]]
          /\ InitRows[i].id \in 1..Len(InitRows) /\ IsFields(InitRows[i].fields)
    /\ \A i, j \in DOMAIN InitRows : i < j => InitRows[i].id > InitRows[j].id

More == 0                 \* the token of a further page
Listing(tok, f, offset) ==
    [token |-> tok, filter |-> f, offset |-> offset, at |-> "sent",
     page |-> <<>>, total |-> 0, stale |-> FALSE]

UnderWay == Cardinality(lists) + Cardinality(deletes) + Cardinality(saves)
Spend(bound) == /\ left[bound] > 0
                /\ left' = [left EXCEPT ![bound] = @ - 1]
Sending == /\ UnderWay < MaxUnderWay
           /\ calm' = (calm /\ UnderWay = 0)

\* SelectSeq with a set for its test: Kept(s, S)[n] is what is selected of
\* the first n elements.
Kept(s, S) ==
    LET kept[n \in 0..Len(s)] ==
            IF n = 0 THEN <<>>
            ELSE IF s[n] \in S THEN Append(kept[n - 1], s[n]) ELSE kept[n - 1]
    IN  kept
Select(s, S) == Kept(s, S)[Len(s)]

Matching(f) == Select(rows, {r \in Range(rows) : f = None \/ r.kind = f})
Without(s, id) == Select(s, {r \in Range(s) : r.id # id})
RowIds == {rows[i].id : i \in DOMAIN rows}
Row(id) == rows[CHOOSE i \in DOMAIN rows : rows[i].id = id]

\* The card or the form that sent a write is taken down: the write goes on, and
\* what comes up in its place knows nothing of it.
Unmounted(calls) ==
    {[c EXCEPT !.client = IF @ = "mounted" THEN "unmounted" ELSE @] : c \in calls}

-----------------------------------------------------------------------------
(* The page.  The form is a modal: the page behind it takes no click.      *)

LoadCategories ==
    /\ ~categories
    /\ categories' = TRUE
    /\ UNCHANGED <<rows, nextId, page, form, lists, deletes, saves, assistant, calm, left>>

\* The effect: a first page is asked for, and the one before is inactive.
\* While it loads there are no cards.
Load(f) ==
    /\ filter' = f
    /\ token' = token + 1
    /\ loading' = TRUE
    /\ lists' = lists \cup {Listing(token + 1, f, 0)}
    /\ deletes' = Unmounted(deletes)
    /\ UNCHANGED <<items, total, hasMore>>

ChangeFilter ==
    /\ form = None /\ categories
    /\ Spend("clicks")
    /\ Sending
    /\ \E f \in (Kinds \cup {None}) \ {filter} : Load(f)
    /\ UNCHANGED <<rows, nextId, categories, form, saves, assistant>>

\* Slip: an answer is shown whichever filter it was asked for.
ActiveAlways(l) == TRUE

Active(l) == l.token = token

\* Slip: the failure is reported and the page goes on loading.
StopLoadingWhenListed(l) == loading' = (l.at = "failed")

StopLoading(l) == loading' = FALSE

ReceiveFirst ==
    \E l \in lists :
        /\ l.token # More /\ l.at \in {"answered", "failed"}
        /\ lists' = lists \ {l}
        /\ IF ~Active(l) THEN UNCHANGED <<page, calm>>
           ELSE /\ StopLoading(l)
                /\ IF l.at = "failed"
                     THEN UNCHANGED <<items, total, hasMore>> /\ calm' = FALSE
                     ELSE /\ items' = l.page
                          /\ total' = l.total
                          /\ hasMore' = (Len(l.page) = PageSize)
                          /\ calm' = (UnderWay = 1 /\ ~l.stale)
                /\ UNCHANGED <<token, filter>>
        /\ UNCHANGED <<rows, nextId, categories, form, deletes, saves, assistant, left>>

\* Slip: pages are counted in whole pages.
OffsetInPages == PageSize * ((Len(items) + PageSize - 1) \div PageSize)

\* loadMore goes on from what is shown.
Offset == Len(items)

SendMore ==
    /\ form = None
    /\ ~loading /\ items # <<>> /\ hasMore
    /\ \A l \in lists : l.token # More
    /\ lists' = lists \cup {Listing(More, filter, Offset)}
    /\ Sending
    /\ UNCHANGED <<rows, nextId, categories, page, form, deletes, saves, assistant, left>>

ReceiveMore ==
    \E l \in lists :
        /\ l.token = More /\ l.at \in {"answered", "failed"}
        /\ lists' = lists \ {l}
        /\ IF l.at = "failed" THEN UNCHANGED <<items, total, hasMore, calm>>
           ELSE /\ items' = items \o l.page
                /\ total' = l.total
                /\ hasMore' = (Len(l.page) = PageSize)
                /\ calm' = (calm /\ ~l.stale)
        /\ UNCHANGED <<loading, token, filter, rows, nextId, categories, form,
                       deletes, saves, assistant, left>>

\* The button of a card, unless that very card is deleting.
SendDelete ==
    /\ form = None
    /\ ~loading
    /\ Spend("clicks")
    /\ Sending
    /\ \E i \in DOMAIN items :
        /\ \A d \in deletes : ~(d.id = items[i].id /\ d.client = "mounted")
        /\ deletes' = deletes \cup {[click |-> left.clicks, id |-> items[i].id,
                                     at |-> "sent", client |-> "mounted"]}
    /\ UNCHANGED <<rows, nextId, categories, page, form, lists, saves, assistant>>

\* deleteItem, answered: an item that was gone is taken off the list with its
\* card, and the total is left as it is.
ReceiveDelete ==
    \E d \in deletes :
        /\ d.at \in {"removed", "missing"}
        /\ deletes' = {c \in deletes \ {d} : c.id # d.id}
                        \cup Unmounted({c \in deletes \ {d} : c.id = d.id})
        /\ items' = Without(items, d.id)
        /\ total' = IF d.at = "removed" /\ total > 0 THEN total - 1 ELSE total
        /\ UNCHANGED <<hasMore, loading, token, filter, rows, nextId, categories,
                       form, lists, saves, assistant, calm, left>>

-----------------------------------------------------------------------------
(* The form.                                                               *)

\* toRawFields: what is stored for a field is what its input holds.
Opened(item) == [original |-> item, kind |-> item.kind, notes |-> item.notes,
                 fields |-> item.fields, touched |-> {}]
Emptied == [original |-> NewItem, kind |-> None, notes |-> None,
            fields |-> NoFields, touched |-> {}]

OpenForm ==
    /\ form = None
    /\ left.clicks > 0
    /\ \/ ~loading /\ \E i \in DOMAIN items : form' = Opened(items[i])
       \/ total < MaxItems /\ form' = Emptied
    /\ UNCHANGED <<rows, nextId, categories, page, lists, deletes, saves, assistant,
                   calm, left>>

CloseForm ==
    /\ form # None
    /\ form' = None
    /\ saves' = Unmounted(saves)
    /\ UNCHANGED <<rows, nextId, categories, page, lists, deletes, assistant, calm, left>>

\* The fields of the category that is chosen, as far as the page knows it.
Defs(kind) == IF categories /\ kind # None THEN Template[kind] ELSE {}

Touch(key, inputs) ==
    /\ Spend("edits")
    /\ form' = [inputs EXCEPT !.touched = @ \cup {key}]
    /\ UNCHANGED <<rows, nextId, categories, page, lists, deletes, saves, assistant,
                   calm>>

\* changeCategory drops the values that the new category has no field for.
ChangeCategory ==
    /\ form # None /\ categories
    /\ \E kind \in (Kinds \cup {None}) \ {form.kind} :
        Touch("kind", [form EXCEPT
            !.kind = kind,
            !.fields = [f \in DOMAIN form.fields \cap Defs(kind) |-> form.fields[f]]])

SetNotes ==
    /\ form # None
    /\ \E text \in (Texts \cup {None}) \ {form.notes} :
        Touch("notes", [form EXCEPT !.notes = text])

SetField ==
    /\ form # None
    /\ \E f \in Defs(form.kind) :
       \E value \in (IF f \in Flags THEN BOOLEAN ELSE Texts \cup {None}) :
        /\ f \in DOMAIN form.fields => form.fields[f] # value
        /\ Touch("fields", [form EXCEPT
                !.fields = [g \in DOMAIN form.fields \cup {f} |->
                                IF g = f THEN value ELSE form.fields[g]]])

\* text.trim() || null, where null is an empty input.
Trim(text) == IF text = None THEN None ELSE Trimmed[text]

\* buildFields: a box that is not checked and a blank text are left out.
BuildFields ==
    LET Given(f) == IF f \in Flags THEN form.fields[f] = TRUE
                                   ELSE Trim(form.fields[f]) # None
    IN  [f \in {g \in Defs(form.kind) \cap DOMAIN form.fields : Given(g)} |->
            IF f \in Flags THEN TRUE ELSE Trim(form.fields[f])]

Payload == [kind |-> form.kind, notes |-> Trim(form.notes), fields |-> BuildFields]

\* Slip: everything in the form is sent.
DiffAll(original, payload) == payload

\* diff: the keys that differ from the item the form was opened with.
Diff(original, payload) ==
    [k \in {key \in Keys : original[key] # payload[key]} |-> payload[k]]

\* `saving` is the form's own.
Submit ==
    /\ form # None /\ form.kind # None
    /\ \A s \in saves : s.client # "mounted"
    /\ Spend("clicks")
    /\ Sending
    /\ saves' = saves \cup
         {[click |-> left.clicks, original |-> form.original, touched |-> form.touched,
           listed |-> categories, id |-> form.original.id,
           patch |-> IF form.original = NewItem THEN Payload
                                                ELSE Diff(form.original, Payload),
           at |-> "sent", client |-> "mounted"]}
    /\ UNCHANGED <<rows, nextId, categories, page, form, lists, deletes, assistant>>

\* onSaved closes whichever form is open, and loads the list again.
ReceiveSave ==
    \E s \in saves :
        /\ s.at \in {"saved", "refused"}
        /\ IF s.at = "saved"
             THEN Load(filter) /\ form' = None /\ saves' = Unmounted(saves \ {s})
             ELSE saves' = saves \ {s} /\ UNCHANGED <<page, lists, deletes, form>>
        /\ UNCHANGED <<rows, nextId, categories, assistant, calm, left>>

-----------------------------------------------------------------------------
(* The API.  A page and its total come from two transactions.              *)

Touched == {[l EXCEPT !.stale = (l.at # "sent")] : l \in lists}

ServePage ==
    \E l \in lists :
        /\ l.at = "sent"
        /\ LET found == Matching(l.filter)
               end == IF l.offset + PageSize < Len(found)
                        THEN l.offset + PageSize ELSE Len(found)
           IN  lists' = (lists \ {l}) \cup
                   {[l EXCEPT !.at = "listed",
                              !.page = SubSeq(found, l.offset + 1, end)]}
        /\ UNCHANGED <<rows, nextId, categories, page, form, deletes, saves, assistant,
                       calm, left>>

ServeTotal ==
    \E l \in lists :
        /\ l.at = "listed"
        /\ lists' = (lists \ {l}) \cup
                {[l EXCEPT !.at = "answered", !.total = Len(rows)]}
        /\ UNCHANGED <<rows, nextId, categories, page, form, deletes, saves, assistant,
                       calm, left>>

\* What is left of a write that is done: its answer, if the page waits for it.
Answer(call, at) == IF call.client = "gone" THEN {} ELSE {[call EXCEPT !.at = at]}

ServeDelete ==
    \E d \in deletes :
        /\ d.at = "sent"
        /\ deletes' = (deletes \ {d}) \cup
                        Answer(d, IF d.id \in RowIds THEN "removed" ELSE "missing")
        /\ rows' = Without(rows, d.id)
        /\ lists' = IF d.id \in RowIds THEN Touched ELSE lists
        /\ UNCHANGED <<nextId, categories, page, form, saves, assistant, calm, left>>

Fits(kind, fields) == DOMAIN fields \subseteq Template[kind]

\* create_item's check: there is room by the count, and the fields are the
\* category's.
MayAdd(payload) == Len(rows) < MaxItems /\ Fits(payload.kind, payload.fields)

\* What update_item makes of a patch from the row it reads: a patch that only
\* moves the item to another category takes the fields it holds along.
Resolved(row, patch) ==
    LET moved == "kind" \in DOMAIN patch /\ patch["kind"] # row.kind
    IN  [k \in DOMAIN patch \cup (IF moved THEN {"fields"} ELSE {}) |->
            IF k \in DOMAIN patch THEN patch[k] ELSE row[k]]

MayUpdate(row, patch) ==
    "fields" \in DOMAIN patch =>
        Fits(IF "kind" \in DOMAIN patch THEN patch["kind"] ELSE row.kind, patch["fields"])

\* The first statement of create_item or update_item: the count, or the row.
CheckSave ==
    \E s \in saves :
        /\ s.at = "sent"
        /\ \/ /\ s.original = NewItem /\ MayAdd(s.patch)
              /\ saves' = (saves \ {s}) \cup {[s EXCEPT !.at = "checked", !.id = nextId]}
              /\ nextId' = nextId + 1
           \/ /\ s.original # NewItem /\ s.id \in RowIds
              /\ LET patch == Resolved(Row(s.id), s.patch)
                 IN  /\ MayUpdate(Row(s.id), patch)
                     /\ saves' = (saves \ {s}) \cup
                                   {[s EXCEPT !.at = "checked", !.patch = patch]}
              /\ UNCHANGED nextId
           \* refused, for the above or for a value that the models do not take
           \/ /\ saves' = (saves \ {s}) \cup Answer(s, "refused")
              /\ UNCHANGED nextId
        /\ UNCHANGED <<rows, categories, page, form, lists, deletes, assistant, calm, left>>

\* The row of an item with some keys replaced.
Patched(id, patch) ==
    [i \in DOMAIN rows |->
        IF rows[i].id # id THEN rows[i]
        ELSE [k \in DOMAIN rows[i] |->
                IF k \in DOMAIN patch THEN patch[k] ELSE rows[i][k]]]

\* A row among those that began later and those that began before.
Inserted(id, payload) ==
    Select(rows, {r \in Range(rows) : r.id > id})
        \o <<[k \in Keys \cup {"id"} |-> IF k = "id" THEN id ELSE payload[k]]>>
        \o Select(rows, {r \in Range(rows) : r.id < id})

\* The insert, or the update: it finds the row as it has become, or no row.
WriteSave ==
    \E s \in saves :
        /\ s.at = "checked"
        /\ IF s.original # NewItem /\ s.id \notin RowIds
             THEN saves' = (saves \ {s}) \cup Answer(s, "refused") /\ UNCHANGED <<rows, lists>>
             ELSE /\ rows' = IF s.original = NewItem THEN Inserted(s.id, s.patch)
                                                     ELSE Patched(s.id, s.patch)
                  /\ saves' = (saves \ {s}) \cup Answer(s, "saved")
                  /\ lists' = Touched
        /\ UNCHANGED <<nextId, categories, page, form, deletes, assistant, calm, left>>

-----------------------------------------------------------------------------
(* The assistant, by the same functions, and the network.                  *)

AssistantChecks ==
    /\ Spend("mishaps")
    /\ \E w \in Writes :
        \/ /\ DOMAIN w = Keys /\ MayAdd(w)
           /\ assistant' = assistant \cup {[id |-> nextId, new |-> TRUE, patch |-> w]}
           /\ nextId' = nextId + 1
        \/ \E id \in RowIds :
            LET patch == Resolved(Row(id), w)
            IN  /\ MayUpdate(Row(id), patch)
                /\ assistant' = assistant \cup {[id |-> id, new |-> FALSE, patch |-> patch]}
                /\ UNCHANGED nextId
    /\ UNCHANGED <<rows, categories, page, form, lists, deletes, saves, calm>>

AssistantWrites ==
    \E t \in assistant :
        /\ assistant' = assistant \ {t}
        /\ rows' = IF t.new THEN Inserted(t.id, t.patch) ELSE Patched(t.id, t.patch)
        /\ lists' = Touched
        /\ calm' = FALSE
        /\ UNCHANGED <<nextId, categories, page, form, deletes, saves, left>>

AssistantRemoves ==
    /\ Spend("mishaps")
    /\ \E id \in RowIds : rows' = Without(rows, id)
    /\ lists' = Touched
    /\ calm' = FALSE
    /\ UNCHANGED <<nextId, categories, page, form, deletes, saves, assistant>>

\* The page is told that a request failed.  A write that the server got may
\* still be carried out.
Lose ==
    /\ Spend("mishaps")
    /\ \/ /\ \E l \in lists :
                lists' = (lists \ {l}) \cup {[l EXCEPT !.at = "failed"]}
          /\ UNCHANGED <<deletes, saves, calm>>
       \/ /\ \E d \in deletes :
                \/ deletes' = deletes \ {d}
                \/ /\ d.at = "sent"
                   /\ deletes' = (deletes \ {d}) \cup {[d EXCEPT !.client = "gone"]}
          /\ calm' = FALSE
          /\ UNCHANGED <<lists, saves>>
       \/ /\ \E s \in saves :
                \/ saves' = saves \ {s}
                \/ /\ s.at \in {"sent", "checked"}
                   /\ saves' = (saves \ {s}) \cup {[s EXCEPT !.client = "gone"]}
          /\ calm' = FALSE
          /\ UNCHANGED <<lists, deletes>>
    /\ UNCHANGED <<rows, nextId, categories, page, form, assistant>>

-----------------------------------------------------------------------------

Init ==
    /\ rows = InitRows
    /\ nextId = Len(InitRows) + 1
    /\ categories = FALSE
    /\ filter = None
    /\ items = <<>> /\ total = 0 /\ hasMore = FALSE
    /\ loading = TRUE
    /\ token = 1
    /\ form = None
    /\ lists = {Listing(1, None, 0)}
    /\ deletes = {} /\ saves = {} /\ assistant = {}
    /\ calm = TRUE
    /\ left = [clicks |-> MaxClicks, edits |-> MaxEdits, mishaps |-> MaxMishaps]

Fill == ChangeCategory \/ SetNotes \/ SetField
Serve == ServePage \/ ServeTotal \/ ServeDelete \/ CheckSave \/ WriteSave
Receive == ReceiveFirst \/ ReceiveMore \/ ReceiveDelete \/ ReceiveSave
Next == \/ LoadCategories \/ ChangeFilter \/ SendMore \/ SendDelete
        \/ OpenForm \/ Fill \/ CloseForm \/ Submit
        \/ Serve \/ Receive \/ AssistantChecks \/ AssistantWrites \/ AssistantRemoves
        \/ Lose

\* The server serves what it was sent, and answers arrive or fail.
Fairness == WF_vars(Serve) /\ WF_vars(Receive)
Spec == Init /\ [][Next]_vars /\ Fairness

-----------------------------------------------------------------------------

\* The page's state is well formed: the closet is in the order of created_at,
\* whatever order its rows were inserted in, and the page is loading exactly
\* while the newest first page is under way.
TypeOK ==
    /\ \A i, j \in DOMAIN rows : i < j => rows[i].id > rows[j].id
    /\ \A i \in DOMAIN rows : DOMAIN rows[i] = Keys \cup {"id"} /\ rows[i].id < nextId
    /\ total \in Nat
    /\ \A l \in lists : l.token \in 0..token
    /\ loading <=> \E l \in lists : l.token = token

\* As long as one request was under way at a time and nobody else wrote, the
\* page shows the newest items its filter asks for, each once, as the closet
\* holds them; hasMore is set when there are more; and its total, which is
\* what the Add button goes by, is the closet's.  (ClosetPage pages by what
\* it shows, drops what it deleted, and reloads after a save)
PageShowsPrefix ==
    calm /\ UnderWay = 0 =>
        LET found == Matching(filter)
        IN  /\ items = SubSeq(found, 1, Len(items))
            /\ Len(items) < Len(found) => hasMore
            /\ total = Len(rows)

\* When loading ends with an answer, it is the answer to what the filters
\* ask for now, however many were asked before and in whatever order they
\* come.  (`active` in ClosetPage's effect)
FirstPageCurrent ==
    [][(loading /\ ~loading') =>
        \/ items' = items
        \/ \E l \in lists : l.token = token /\ l.filter = filter /\ items' = l.page]_vars

\* A stored value that the form sends back as it is when nobody touches it: a
\* flag that is not set and a text that is not trimmed are not such values.
GivenBack(item, k) ==
    CASE k = "kind" -> TRUE
      [] k = "notes" -> Trim(item.notes) = item.notes
      [] k = "fields" ->
            \A f \in DOMAIN item.fields :
                /\ f \in Template[item.kind]
                /\ IF f \in Flags THEN item.fields[f] = TRUE
                   ELSE item.fields[f] # None /\ Trim(item.fields[f]) = item.fields[f]

\* The user had no hand in key k of a save: neither its input was edited, nor
\* the category that decides which fields there are, nor was that list missing.
LeftAlone(s, k) ==
    /\ k \notin s.touched
    /\ k = "fields" => "kind" \notin s.touched /\ s.listed

\* A save changes no key that the user left alone and the form gives back,
\* whatever the assistant wrote to the item since the form was opened, and
\* however the save runs into what others write.  (diff: "it keeps an edit
\* from clobbering a field the assistant changed in the meantime")
SaveKeepsTheRest ==
    [][\A s \in saves :
        (s.at = "checked" /\ s \notin saves' /\ rows' # rows /\ s.original # NewItem) =>
            \A k \in Keys : LeftAlone(s, k) /\ GivenBack(s.original, k) =>
                \E i \in DOMAIN rows' : rows'[i].id = s.id /\ rows'[i][k] = Row(s.id)[k]]_vars

\* The page does not go on loading.  (both ends of the effect's promise set
\* loading to false)
LoadingEnds == loading ~> ~loading
=============================================================================
