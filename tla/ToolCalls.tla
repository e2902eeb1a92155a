------------------------------ MODULE ToolCalls ------------------------------
(***************************************************************************)
(* The nine tools as one caller sees them (backend/app/mcp_server/tools.py,*)
(* with services/items.py, services/taxonomy.py and safe_query.py below    *)
(* them): a call is made, it changes the closet or reads it, and it is     *)
(* answered.  Calls of one user that overlap are the matter of Closet; this*)
(* module is about what each computes, and how calls one after another add *)
(* up.                                                                     *)
(***************************************************************************)
EXTENDS SafeQuery

CONSTANTS
    Ids, User,       \* ids of the user's items, and the user
    OtherRows,       \* rows of the view that are another user's
    MaxItems, MaxBatch, QueryLimit, ListingLimit,
    RawItems,        \* what may be sent as an item, None for a bare value
    Batches,         \* sequences of them that are sent together
    Patches,         \* the arguments update_item may be given
    RawCategories,   \* texts sent as a category id
    Trees, Clauses   \* predicates, as trees and as texts

VARIABLES
    closet,          \* id -> item, for the ids that are held
    call,            \* the call being answered, None between calls
    answer           \* what it is answered, None between calls

vars == <<closet, call, answer>>

Formalities == {"casual", "smart_casual", "formal", "athletic"}
Keys == {"category", "colors", "tags", "brand", "formality", "fields"}
BadId == 0         \* not a UUID

\* As WordsAssumption.
ASSUME FormalitiesAssumption == Formalities \subseteq STRING

\* The calls there may be.
Calls == [tool : {"add_item"}, raw : RawItems \ {None}]
            \cup [tool : {"batch_add_items"}, raws : Batches]
            \cup [tool : {"update_item"}, id : Ids \cup {BadId}, patch : Patches]
            \cup [tool : {"remove_item"}, id : Ids \cup {BadId}]
            \cup [tool : {"query_closet_items"}, tree : Trees]
            \cup [tool : {"scan"}, clause : Clauses]
            \cup [tool : {"list_category_items"}, category : STRING]
            \cup [tool : {"get_closet_summary"}]

\* An argument of the type its key is declared with.
ArgumentFits(k, value) ==
    CASE k = "category" -> value \in Texts
      [] k \in {"colors", "tags"} -> value \in Seq(Texts)
      [] k = "brand" -> value \in Texts \cup {None}
      [] k = "formality" -> value \in STRING \cup {None}
      [] k = "fields" -> \A n \in DOMAIN value : value[n] \in RawValues \cup {None}
RawFits(raw) == raw = [k \in Keys |-> raw[k]] /\ \A k \in Keys : ArgumentFits(k, raw[k])

ASSUME NoneAssumption == None \notin Calls \cup Texts \cup STRING
ASSUME IdsAssumption == /\ Ids \subseteq Nat \ {BadId} /\ IsFiniteSet(Ids)
                        /\ MaxItems \in Nat /\ MaxItems <= Cardinality(Ids)
ASSUME ReadLimitsAssumption == QueryLimit \in Nat /\ ListingLimit \in Nat
ASSUME RawItemsAssumption == \A raw \in RawItems : raw = None \/ RawFits(raw)
ASSUME BatchesAssumption ==
    \A raws \in Batches :
        /\ raws = [i \in 1..Len(raws) |-> raws[i]] /\ Len(raws) \in Nat
        /\ \A i \in DOMAIN raws : raws[i] = None \/ RawFits(raws[i])
ASSUME PatchesAssumption ==
    \A patch \in Patches :
        /\ patch = [k \in DOMAIN patch |-> patch[k]] /\ DOMAIN patch \subseteq Keys
        /\ \A k \in DOMAIN patch : patch[k] = None \/ ArgumentFits(k, patch[k])
ASSUME OtherRowsAssumption == \A r \in OtherRows : r.user # User
ASSUME TextsAssumption == RawCategories \subseteq Texts /\ Clauses \subseteq Seq(Chars)

Held == DOMAIN closet
Rows == {[id |-> id, user |-> User, item |-> closet[id]] : id \in Held}
View == Rows \cup OtherRows

Refused(why) == [status |-> "failed", error |-> why]
Invalid == Refused("validation_failed")
NotFound == Refused("not_found")
Full == Refused("closet_full")
Rejected == Refused("database_rejected_item")
Created(id) == [status |-> "created", id |-> id]

Idle == call = None
Reply(c, a) == call' = c /\ answer' = a

-----------------------------------------------------------------------------
(* ItemCreate.                                                             *)

\* The values every model checks: the formality, and the count of colors.
ShapeFits(given) ==
    /\ "formality" \in DOMAIN given => given.formality \in Formalities \cup {None}
    /\ "colors" \in DOMAIN given => ColorsFit(given.colors)

\* What the model makes of one object; None when it does not validate.
ItemCreate(raw) ==
    IF raw = None \/ ~ShapeFits(raw) THEN None
    ELSE [raw EXCEPT
            !.category = NormaliseCategory(raw.category),
            !.colors   = CleanStrings(raw.colors),
            !.tags     = CleanStrings(raw.tags),
            !.brand    = IF raw.brand = None \/ Empty(Strip(raw.brand))
                           THEN None ELSE Strip(raw.brand)]

\* What is stored for it, or why it is not.
Validated(payload) ==
    LET coerced == ValidateFields(payload.category, payload.fields, TRUE)
    IN  IF coerced = None THEN Invalid
        ELSE IF ~Storable(coerced) THEN Rejected
        ELSE [payload EXCEPT !.fields = coerced]

IsItem(x) == "category" \in DOMAIN x

\* gen_random_uuid: any id would do, one that is free is taken in order.
FreshId(c) == Min(Ids \ DOMAIN c)

Count(c) == Cardinality(DOMAIN c)

\* A closet with one more item.
Put(c, id, item) == [i \in DOMAIN c \cup {id} |-> IF i = id THEN item ELSE c[i]]

-----------------------------------------------------------------------------
(* Writes.                                                                 *)

\* add_item.  A row the database rejects is an error of the call.
AddItem ==
    /\ Idle
    /\ \E raw \in RawItems \ {None} :
        LET payload == ItemCreate(raw)
            item == Validated(payload)
            c == [tool |-> "add_item", raw |-> raw]
        IN  CASE payload = None         -> Reply(c, Invalid) /\ UNCHANGED closet
              [] payload # None /\ item = Invalid
                                        -> Reply(c, Invalid) /\ UNCHANGED closet
              [] payload # None /\ item # Invalid /\ Count(closet) >= MaxItems
                                        -> Reply(c, Full) /\ UNCHANGED closet
              [] OTHER ->
                    IF item = Rejected
                      THEN Reply(c, Rejected) /\ UNCHANGED closet
                      ELSE /\ Reply(c, Created(FreshId(closet)))
                           /\ closet' = Put(closet, FreshId(closet), item)

\* Slip: what the batch itself adds is not counted.
RemainingAtStart(results) == MaxItems - Count(closet)

\* The room that is left after some results.
Remaining(results) ==
    MaxItems - Count(closet)
        - Cardinality({i \in DOMAIN results : results[i].is.status = "created"})

\* create_items: one result for each payload, and the closet they leave.  A
\* result's index is its place in the list the service was given.
Entered(sofar, payload) ==
    LET item == Validated(payload)
        room == Remaining(sofar.results) > 0
        id == FreshId(sofar.closet)
        result == IF ~room THEN Full
                  ELSE IF IsItem(item) THEN Created(id) ELSE item
    IN  [results |-> Append(sofar.results,
                            [index |-> Len(sofar.results) + 1, is |-> result]),
         closet |-> IF room /\ IsItem(item)
                      THEN Put(sofar.closet, id, item)
                      ELSE sofar.closet]

\* CreateItems(payloads)[n]: after n of the payloads.
CreateItems(payloads) ==
    LET made[n \in 0..Len(payloads)] ==
            IF n = 0 THEN [results |-> <<>>, closet |-> closet]
                     ELSE Entered(made[n - 1], payloads[n])
    IN  made

\* The elements of a set in the order of their keys.
SortedBy(S, key) ==
    CHOOSE s \in [1..Cardinality(S) -> S] :
        IsInjective(s) /\ \A i, j \in DOMAIN s : i < j => key[s[i]] <= key[s[j]]

\* The entries whose shape is right, in the order they were sent.
OrderedIndexes(raws) ==
    LET right == {i \in DOMAIN raws : ItemCreate(raws[i]) # None}
    IN  SortedBy(right, [i \in right |-> i])

\* Slip: the service's results keep the index the service gave them.
PositionsAsServed(raws, results) == results

\* The service's results, at the caller's positions.
Positions(raws, results) ==
    [k \in DOMAIN results |->
        [index |-> OrderedIndexes(raws)[k], is |-> results[k].is]]

ShapeFailures(raws) ==
    {[index |-> i, is |-> Invalid] : i \in {j \in DOMAIN raws : ItemCreate(raws[j]) = None}}

\* batch_add_items
BatchAddItems ==
    /\ Idle
    /\ \E raws \in Batches :
        LET ordered == OrderedIndexes(raws)
            payloads == [k \in DOMAIN ordered |-> ItemCreate(raws[ordered[k]])]
            made == CreateItems(payloads)[Len(payloads)]
            results == ShapeFailures(raws) \cup ToSet(Positions(raws, made.results))
            c == [tool |-> "batch_add_items", raws |-> raws]
        IN  IF Len(raws) \notin 1..MaxBatch
              THEN Reply(c, Invalid) /\ UNCHANGED closet
              ELSE /\ Reply(c, [results |-> SortedBy(results, [r \in results |-> r.index])])
                   /\ closet' = made.closet

\* Slip: as add_item does, colors and tags that are left out become empty.
SuppliedAsInAdd(patch) ==
    LET named == {key \in DOMAIN patch : patch[key] # None}
    IN  [k \in named \cup {"colors", "tags"} |->
            IF k \in named THEN patch[k] ELSE <<>>]

\* The arguments that were named and are not null.
Supplied(patch) ==
    [k \in {key \in DOMAIN patch : patch[key] # None} |-> patch[k]]

\* ItemUpdate.  An empty category becomes a null; the brand stays as it is.
ItemUpdate(sent) ==
    [k \in DOMAIN sent |->
        IF sent[k] = None THEN None
        ELSE CASE k = "category" -> IF sent[k] = Word("") THEN None
                                    ELSE NormaliseCategory(sent[k])
               [] k \in {"colors", "tags"} -> CleanStrings(sent[k])
               [] OTHER -> sent[k]]

\* Slip: only the fields that were sent are validated.
RevalidatesSent(named, moved) == "fields" \in named

\* Whether fields are checked: those sent, or those held for a new category.
Revalidates(named, moved) == moved \/ "fields" \in named

\* update_item of the service, on the row it found: what is stored, or why
\* nothing is.  The database takes no category that is not one.
Updated(existing, sent) ==
    LET named == DOMAIN sent
        category == IF "category" \in named /\ sent.category \notin {None, ""}
                      THEN sent.category ELSE existing.category
        moved == "category" \in named /\ sent.category # existing.category
        fields == IF "fields" \in named /\ sent.fields # None
                    THEN sent.fields ELSE existing.fields
        coerced == IF Revalidates(named, moved)
                     THEN ValidateFields(category, fields, TRUE)
                     ELSE existing.fields
        item == [k \in Keys |-> IF k = "fields" THEN coerced
                                ELSE IF k \in named THEN sent[k] ELSE existing[k]]
    IN  IF coerced = None THEN Invalid
        ELSE IF item.category \notin Categories \/ ~Storable(coerced) THEN Rejected
        ELSE item

\* update_item
UpdateItem ==
    /\ Idle
    /\ \E id \in Ids \cup {BadId}, patch \in Patches :
        LET sent == ItemUpdate(Supplied(patch))
            c == [tool |-> "update_item", id |-> id, patch |-> patch]
        IN  CASE id = BadId \/ DOMAIN sent = {} \/ ~ShapeFits(sent) ->
                    Reply(c, Invalid) /\ UNCHANGED closet
              [] OTHER ->
                    IF id \notin Held
                      THEN Reply(c, NotFound) /\ UNCHANGED closet
                      ELSE LET item == Updated(closet[id], sent)
                           IN  IF IsItem(item)
                                 THEN /\ Reply(c, [status |-> "updated", id |-> id])
                                      /\ closet' = [closet EXCEPT ![id] = item]
                                 ELSE Reply(c, item) /\ UNCHANGED closet

\* remove_item
RemoveItem ==
    /\ Idle
    /\ \E id \in Ids \cup {BadId} :
        LET c == [tool |-> "remove_item", id |-> id]
        IN  CASE id = BadId  -> Reply(c, Invalid) /\ UNCHANGED closet
              [] id \in Held -> /\ Reply(c, [status |-> "removed", id |-> id])
                                /\ closet' = [i \in Held \ {id} |-> closet[i]]
              [] OTHER       -> Reply(c, NotFound) /\ UNCHANGED closet

-----------------------------------------------------------------------------
(* Reads.                                                                  *)

\* query_closet_items, of a text the scan lets through: its tree is
\* validated and run.
QueryClosetItems ==
    /\ Idle
    /\ UNCHANGED closet
    /\ \E tree \in Trees :
        LET c == [tool |-> "query_closet_items", tree |-> tree]
        IN  IF ~ValidTree(tree, KnownFieldNames)
              THEN Reply(c, Refused("unsafe_query"))
              ELSE IF ~IsCondition(tree)
                     THEN Reply(c, Refused("database_error"))
                     ELSE \E a \in Answers(Where(View, User, tree), QueryLimit) :
                            Reply(c, a)

\* query_closet_items, as far as the scan of the text.  It reads no closet:
\* the texts are tried on the empty one.
ScanClause ==
    /\ Idle
    /\ UNCHANGED closet
    /\ Held = {}
    /\ \E clause \in Clauses :
        Reply([tool |-> "scan", clause |-> clause], Prescan(clause))

\* list_category_items
ListCategoryItems ==
    /\ Idle
    /\ UNCHANGED closet
    /\ \E raw \in RawCategories :
        LET category == NormaliseCategory(raw)
            c == [tool |-> "list_category_items", category |-> category]
            rows == {r \in View : r.user = User /\ r.item.category = category}
        IN  IF category \notin Categories
              THEN Reply(c, Refused("unknown_category"))
              ELSE \E a \in Answers(rows, ListingLimit) : Reply(c, a)

\* get_closet_summary
GetClosetSummary ==
    /\ Idle
    /\ UNCHANGED closet
    /\ Reply([tool |-> "get_closet_summary"], Summary({r \in View : r.user = User}))

\* The answer has been read.
Read == /\ call # None
        /\ call' = None
        /\ answer' = None
        /\ UNCHANGED closet
=============================================================================
