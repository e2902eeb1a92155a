----------------------------- MODULE OneRequest -----------------------------
(***************************************************************************)
(* The application as the requests of one user meet it, one at a time: a   *)
(* path is sent to the part of the server that answers it (Routes), and a  *)
(* tool call is carried out (ToolCalls).                                   *)
(***************************************************************************)
EXTENDS ToolCalls, Routes

CONSTANT Paths      \* paths that are asked for

Visits == [tool : {"visit"}, deployment : Deployments, path : Paths]

ASSUME VisitsAssumption ==
    None \notin Visits /\ \A p \in Paths : p \in Seq(STRING) /\ p # <<>>

\* A path is asked for.  Nothing of the closet is read: as for ScanClause,
\* the paths are tried on the empty one.
Visit ==
    /\ Idle
    /\ UNCHANGED closet
    /\ Held = {}
    /\ \E d \in Deployments, path \in Paths :
        Reply([tool |-> "visit", deployment |-> d, path |-> path], Handler(d, path))

Init == /\ closet = [id \in {} |-> None]
        /\ call = None
        /\ answer = None

Next == \/ AddItem \/ BatchAddItems \/ UpdateItem \/ RemoveItem
        \/ QueryClosetItems \/ ScanClause \/ ListCategoryItems
        \/ GetClosetSummary \/ Visit \/ Read

Spec == Init /\ [][Next]_vars

-----------------------------------------------------------------------------

IsCall(tool) == call # None /\ call.tool = tool

\* The closet holds items within the cap, whose keys hold what a column of
\* theirs may, and nothing is answered but a call.
TypeOK ==
    /\ Held \subseteq Ids /\ Count(closet) <= MaxItems
    /\ \A id \in Held :
        LET item == closet[id]
        IN  /\ item = [k \in Keys |-> item[k]]
            /\ item.category \in Categories
            /\ item.formality \in Formalities \cup {None}
            /\ Len(item.colors) <= MaxColors
            /\ \A k \in Keys \ {"category"} : ArgumentFits(k, item[k])
    /\ call \in Calls \cup Visits \cup {None}
    /\ call = None => answer = None

\* However items were added, batched, moved between categories and edited,
\* what is stored fits the template of the category it is stored under:
\* required fields are there, no field of another category is left, a value
\* is of its field's type and an enum's is one of the template's own, and
\* labels are trimmed, in lower case and not repeated.  (validate_fields,
\* called by create_item, create_items and update_item, and _clean_strings)
Fits(def, v) ==
    CASE def.type = "boolean" -> v.is = "bool"
      [] def.type = "number"  -> v.is = "number" /\ v.number # NaN
      [] def.type = "enum"    -> v.is = "text" /\ v.text \in ToSet(def.allowed)
      [] def.type = "text"    -> v.is = "text" /\ ~v.text.padded

CleanLabels(labels) ==
    /\ IsInjective(labels)
    /\ \A i \in DOMAIN labels :
        labels[i] = Word(labels[i].word) /\ labels[i].word # ""

StoredFieldsValid ==
    \A id \in Held :
        LET item == closet[id]
            defs == Template[item.category]
        IN  /\ DOMAIN item.fields \subseteq DOMAIN defs
            /\ \A n \in DOMAIN defs : defs[n].required => n \in DOMAIN item.fields
            /\ \A n \in DOMAIN item.fields : Fits(defs[n], item.fields[n])
            /\ CleanLabels(item.colors)
            /\ CleanLabels(item.tags)

\* A batch is answered entry by entry, in the order it was sent: what is
\* said of an entry is true of that entry, each created one is there under
\* the id it was given with the category and the tags that were sent, each
\* failed one is not, and nothing else changed.  (batch_add_items maps the
\* service's results back to the caller's positions)
BatchEntriesAnswered ==
    LET raws == call'.raws
        results == answer'.results
        created == {i \in DOMAIN results : results[i].is.status = "created"}
    IN  /\ DOMAIN results = DOMAIN raws
        /\ \A i \in DOMAIN results :
            /\ results[i].index = i
            /\ raws[i] = None => results[i].is.status = "failed"
        /\ \A i \in created :
            LET id == results[i].is.id
            IN  /\ id \in Held' \ Held
                /\ closet'[id].category = NormaliseCategory(raws[i].category)
                /\ closet'[id].tags = CleanStrings(raws[i].tags)
                /\ \A j \in created \ {i} : results[j].is.id # id
        /\ Held' = Held \cup {results[i].is.id : i \in created}
        /\ \A id \in Held : closet'[id] = closet[id]

BatchAnswered ==
    [][(call = None /\ call' # None /\ call'.tool = "batch_add_items") =>
        ("results" \in DOMAIN answer' => BatchEntriesAnswered)]_vars

\* An update changes the item it names, and of that item only the keys that
\* were named with a value, and the fields when the item is moved; one that
\* is refused changes nothing.  (update_item sends on what is not null, and
\* the service assigns what it was sent)
UpdateTouchesNamed ==
    [][(call = None /\ call' # None /\ call'.tool = "update_item") =>
        /\ Held' = Held
        /\ \A id \in Held :
            \/ closet'[id] = closet[id]
            \/ /\ answer'.status = "updated" /\ id = call'.id
               /\ \A k \in Keys :
                    \/ closet'[id][k] = closet[id][k]
                    \/ k \in DOMAIN call'.patch /\ call'.patch[k] # None
                    \/ k = "fields" /\ closet'[id].category # closet[id].category]_vars

\* A read tells of the caller's items only, and of all it asks for unless it
\* says it was cut off; an answer that was cut off is as long as the limit.
\* The counts of a summary add up to the closet.  (the bound user_id and the
\* parentheses around the predicate; limit and `truncated`)
Complete(wanted, limit) ==
    /\ answer.items \subseteq wanted
    /\ answer.count = Cardinality(answer.items)
    /\ IF answer.truncated THEN answer.count = limit ELSE answer.items = wanted

\* A sum of counts, as the number of things that are counted.
SumOf(counts) == Cardinality(UNION {{k} \X (1..counts[k]) : k \in DOMAIN counts})

AnswersComplete ==
    /\ IsCall("query_closet_items") /\ "items" \in DOMAIN answer =>
        Complete({r \in Rows : Holds(call.tree, 1, r.item)}, QueryLimit)
    /\ IsCall("list_category_items") /\ "items" \in DOMAIN answer =>
        Complete({r \in Rows : r.item.category = call.category}, ListingLimit)
    /\ IsCall("get_closet_summary") =>
        /\ answer.total = Cardinality(Held)
        /\ SumOf(answer.perCategory) = answer.total
        /\ SumOf(answer.perFormality) = answer.total

\* The scan lets a text through exactly when it has no mark anywhere, its
\* quotes pair up, and outside them it has no keyword and nests no deeper
\* than the limit, where a place is outside when an even number of quotes
\* comes before it.  (_blank_string_literals says its one pass is exact)
Outside(clause, i) ==
    /\ clause[i] # "quote"
    /\ Cardinality({j \in 1..(i - 1) : clause[j] = "quote"}) % 2 = 0

LetThrough(clause) ==
    LET outside == {i \in DOMAIN clause : Outside(clause, i)}
        Before(i, c) == Cardinality({j \in outside : j <= i /\ clause[j] = c})
    IN  /\ Len(clause) \in 1..MaxClauseLength
        /\ \A i \in DOMAIN clause : clause[i] # "mark"
        /\ Cardinality({i \in DOMAIN clause : clause[i] = "quote"}) % 2 = 0
        /\ \A i \in outside :
            /\ clause[i] # "keyword"
            /\ Before(i, "open") - Before(i, "close") <= MaxNestingDepth

PrescanExact ==
    IsCall("scan") => ((answer = "ok") <=> LetThrough(call.clause))

\* In every deployment a connector reaches the transport with and without
\* the slash, and each path it is told of at the origin root; the web app's
\* own pages are served wherever there is a build; and what the application
\* owns and does not serve is not found rather than a page of the web app.
\* (NormalizeMcpPath, root_oauth_routes, and the catch-all mounted last)
Advertised(d) ==
    CASE AuthMode(d) = "bare verifier" -> {}
      [] AuthMode(d) = "remote server" -> Discovery
      [] AuthMode(d) = "oauth proxy"   -> Discovery \cup ProxyPaths

Pages == {<<"">>, <<"login">>, <<"privacy">>, <<"terms">>, <<"connect">>,
          <<"tutorials">>, <<"settings">>, <<"oauth", "consent">>}

ASSUME PagesAssumption == Pages \cap Files = {}

RoutesReach ==
    IsCall("visit") =>
        LET d == call.deployment
            p == call.path
        IN  /\ p \in ApiPaths => answer = "api"
            /\ d.fastmcp /\ p \in {<<"mcp">>, <<"mcp", "">>} => answer = "mcp"
            /\ d.fastmcp /\ p \in Advertised(d) => answer = "oauth"
            /\ d.built /\ p \in Pages => answer = "web app"
            /\ Len(p) > 1 /\ p[1] \in {"api", ".well-known", "mcp"}
                 => answer \notin {"web app", "file"}
=============================================================================
