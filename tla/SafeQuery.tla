----------------------------- MODULE SafeQuery -----------------------------
(***************************************************************************)
(* backend/app/safe_query.py: what the assistant's where_clause goes       *)
(* through before and after it is run.                                     *)
(*                                                                         *)
(* A clause is a sequence of characters of the kinds the scan tells apart: *)
(* a quote, parentheses, a forbidden keyword, a forbidden sequence, and    *)
(* anything else.  What sqlglot makes of it is a tree: a sequence of nodes,*)
(* the root first, each with its `kind`, the position `up` of the node     *)
(* above it, and what it names.                                            *)
(***************************************************************************)
EXTENDS ItemValues, FiniteSets, FiniteSetsExt

CONSTANTS
    MaxClauseLength, MaxNestingDepth, MaxAstNodes, MaxAstDepth

Chars == {"quote", "open", "close", "keyword", "mark", "other"}

ASSUME LimitsAssumption == MaxClauseLength \in Nat /\ MaxNestingDepth \in Nat

-----------------------------------------------------------------------------
(* _blank_string_literals and _prescan.                                    *)

\* Where the pass stands after n characters: outside of literals, inside
\* one, or at the second quote of a pair, after which it is where the pair
\* leaves it.
Pass(clause, pairLeaves) ==
    LET state[n \in 0..Len(clause)] ==
            IF n = 0 THEN "outside"
            ELSE CASE state[n - 1] = "outside" ->
                        IF clause[n] = "quote" THEN "inside" ELSE "outside"
                   [] state[n - 1] = "inside" ->
                        IF clause[n] # "quote" THEN "inside"
                        ELSE IF n < Len(clause) /\ clause[n + 1] = "quote"
                               THEN "at pair" ELSE "outside"
                   [] state[n - 1] = "at pair" -> pairLeaves
    IN  state

\* What is outside stays, and so do the quotes around a literal.
Blanked(clause, state) ==
    [n \in DOMAIN clause |->
        IF \/ state[n - 1] = "outside"
           \/ clause[n] = "quote" /\ state[n] = "outside"
          THEN clause[n] ELSE "blank"]

\* Slip: a pair of quotes ends the literal and is skipped.
BlankStringLiteralsPaired(clause) ==
    LET state == Pass(clause, "outside")
    IN  IF state[Len(clause)] = "outside" THEN Blanked(clause, state)
                                          ELSE <<"unterminated">>

BlankStringLiterals(clause) ==
    LET state == Pass(clause, "inside")
    IN  IF state[Len(clause)] = "outside" THEN Blanked(clause, state)
                                          ELSE <<"unterminated">>

\* How many parentheses are open after n characters.
Nesting(blanked) ==
    LET depth[n \in 0..Len(blanked)] ==
            IF n = 0 THEN 0
            ELSE depth[n - 1] + (CASE blanked[n] = "open" -> 1
                                   [] blanked[n] = "close" -> -1
                                   [] OTHER -> 0)
    IN  depth

\* The verdict of _prescan, in the order of its checks.
Prescan(clause) ==
    LET blanked == BlankStringLiterals(clause)
    IN  CASE clause = <<>>                              -> "empty"
          [] Len(clause) > MaxClauseLength              -> "too long"
          [] Contains(clause, "mark")                   -> "forbidden sequence"
          [] Contains(blanked, "unterminated")          -> "unterminated literal"
          [] \E n \in DOMAIN blanked : Nesting(blanked)[n] > MaxNestingDepth -> "nested"
          [] Contains(blanked, "keyword")               -> "keyword"
          [] OTHER                                      -> "ok"

-----------------------------------------------------------------------------
(* validate_where_clause, on the tree.  A column names itself, an access   *)
(* its key, a comparison the value it is compared with.                    *)

Comparisons == {"equals", "is not null"}
Booleans == {"and", "or", "not", "paren"} \cup Comparisons
Bare == {"literal", "column", "null"}
AllowedNodes == Booleans \cup Bare \cup {"access", "qualified column", "neg"}
AllowedColumns == {"category", "colors", "brand", "warmth_rating",
                   "formality", "tags", "notes", "fields"}

Below(tree, i) == {j \in DOMAIN tree : tree[j].up = i}

\* _depth: the longest chain of nodes above a node.
Depth(tree) ==
    LET level[i \in DOMAIN tree] ==
            IF tree[i].up = 0 THEN 0 ELSE 1 + level[tree[i].up]
    IN  Max({level[i] : i \in DOMAIN tree})

\* _check_json_access: `fields` below it, and one key a template has.
JsonAccessFits(tree, i, knownFields) ==
    /\ tree[i].name \in knownFields
    /\ \A j \in Below(tree, i) : tree[j].kind = "column" /\ tree[j].name = "fields"

NodeFits(tree, i, knownFields) ==
    /\ tree[i].kind \in AllowedNodes \ {"qualified column"}
    /\ tree[i].kind = "column" => tree[i].name \in AllowedColumns
    /\ tree[i].kind = "access" => JsonAccessFits(tree, i, knownFields)

ValidTree(tree, knownFields) ==
    /\ Len(tree) <= MaxAstNodes
    /\ Depth(tree) <= MaxAstDepth
    /\ \A i \in DOMAIN tree : NodeFits(tree, i, knownFields)
    /\ tree[1].kind \notin Bare

-----------------------------------------------------------------------------
(* The statements.  What Postgres makes of a predicate is external.        *)

\* Whether a comparison holds of an item.
Compares(tree, i, item) ==
    IF tree[i].kind = "equals"
      THEN item.category = tree[i].name
      ELSE \E j \in Below(tree, i) : tree[j].name \in DOMAIN item.fields

Holds(tree, i, item) ==
    LET value[j \in DOMAIN tree] ==
            LET below == Below(tree, j)
            IN  CASE tree[j].kind = "and" -> \A k \in below : value[k]
                  [] tree[j].kind \in {"or", "paren"} -> \E k \in below : value[k]
                  [] tree[j].kind = "not" -> ~\E k \in below : value[k]
                  [] tree[j].kind \in Comparisons -> Compares(tree, j, item)
    IN  value[i]

\* Postgres takes no bare value for a condition, in parentheses or not.
IsCondition(tree) ==
    \A i \in DOMAIN tree :
        \/ tree[i].kind \in Booleans
        \/ tree[i].up # 0 /\ tree[tree[i].up].kind \in Comparisons \cup {"access"}

\* Slip: the predicate is not wrapped in parentheses.
WhereUnwrapped(rows, user, tree) ==
    IF tree[1].kind # "or"
      THEN {r \in rows : r.user = user /\ Holds(tree, 1, r.item)}
      ELSE {r \in rows : \E j \in Below(tree, 1) :
                Holds(tree, j, r.item) /\ (j = Min(Below(tree, 1)) => r.user = user)}

\* where user_id = $1 and (<validated>)
Where(rows, user, tree) ==
    {r \in rows : r.user = user /\ Holds(tree, 1, r.item)}

\* order by ... limit n: which of the rows are kept is left open.  The
\* answer says it was truncated when it is as long as the limit.
Answers(rows, limit) ==
    LET n == IF Cardinality(rows) < limit THEN Cardinality(rows) ELSE limit
    IN  {[items |-> kept, count |-> n, truncated |-> (n = limit)] :
            kept \in kSubset(n, rows)}

\* How many there are of each key, where key gives each row its own.
CountBy(key) ==
    [k \in {key[r] : r \in DOMAIN key} |-> Cardinality({r \in DOMAIN key : key[r] = k})]

\* closet_summary: the rows counted by category and by formality.
Summary(rows) ==
    LET category == [r \in rows |-> r.item.category]
        formality == [r \in rows |-> IF r.item.formality = None THEN "unspecified"
                                     ELSE r.item.formality]
    IN  [total        |-> Cardinality(rows),
         perCategory  |-> CountBy(category),
         perFormality |-> CountBy(formality),
         tags         |-> UNION {ToSet(r.item.tags) : r \in rows}]
=============================================================================
