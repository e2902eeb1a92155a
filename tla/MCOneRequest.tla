---------------------------- MODULE MCOneRequest ----------------------------
(* Part of the templates of three categories, from the seed migration      *)
(* (0002_seed_taxonomy.sql), garments as a caller might send them, and the *)
(* trees of predicates.                                                    *)
EXTENDS OneRequest

Def(type, required, allowed) == [type |-> type, required |-> required, allowed |-> allowed]
Shouted(w) == [word |-> w, upper |-> TRUE, padded |-> TRUE]
Blank == [word |-> "", upper |-> FALSE, padded |-> TRUE]

MCTemplate ==
    [shoes |-> [shoe_type  |-> Def("enum", TRUE, <<Word("boot"), Word("sneaker")>>),
                waterproof |-> Def("boolean", FALSE, <<>>)],
     hat   |-> [waterproof |-> Def("boolean", FALSE, <<>>),
                material   |-> Def("text", FALSE, <<>>)],
     jeans |-> [inseam_inches |-> Def("number", FALSE, <<>>)]]
MCNumberOf == [n \in {"0", "30", "nan"} |->
                  CASE n = "0" -> 0 [] n = "30" -> 30 [] n = "nan" -> NaN]

Raw(category, fields) ==
    [category |-> Word(category), colors |-> <<>>, tags |-> <<>>, brand |-> None,
     formality |-> None, fields |-> fields]
NoFields == [n \in {} |-> None]

MCRawItems ==
    {None,
     Raw("shoes", [shoe_type |-> Text(Shouted("boot"))]),
     Raw("shoes", [waterproof |-> Bool(TRUE)]),
     [Raw("hat", [waterproof |-> Text(Shouted("yes"))]) EXCEPT
        !.category = Shouted("hat"), !.brand = Shouted("acme")],
     [Raw("jeans", [inseam_inches |-> Text(Word("nan"))]) EXCEPT !.tags = <<Word("old")>>],
     [Raw("hat", NoFields) EXCEPT
        !.colors = <<Word("red"), Shouted("red"), Blank>>,
        !.tags = <<Shouted("old"), Word("old")>>, !.formality = "casual"],
     [Raw("hat", NoFields) EXCEPT
        !.colors = <<Word("red"), Word("blue"), Word("green")>>],
     [Raw("hat", NoFields) EXCEPT !.formality = "fancy"],
     Raw("cape", NoFields)}

Good == Raw("shoes", [shoe_type |-> Text(Shouted("boot"))])
MCBatches ==
    {<<>>, <<None, Good, Raw("hat", NoFields)>>, <<Good, None, Raw("cape", NoFields)>>,
     <<Good, Good, Good, Good>>}
        \cup {<<a, b>> : a \in MCRawItems, b \in MCRawItems}

MCPatches ==
    {[category |-> None, brand |-> None],
     [category |-> Shouted("jeans")],
     [category |-> Word("hat"), colors |-> <<Shouted("red")>>],
     [category |-> Word("shoes"), fields |-> [shoe_type |-> Text(Shouted("sneaker"))]],
     [category |-> Word("jeans"), fields |-> [inseam_inches |-> Text(Word("30"))]],
     [category |-> Word("")], [category |-> Blank],
     [brand |-> Blank, tags |-> None],
     [fields |-> NoFields],
     [fields |-> [waterproof |-> Number(0), material |-> Text(Shouted("wool"))]],
     [fields |-> [inseam_inches |-> Number(NaN)]],
     [colors |-> <<Word("red"), Word("blue"), Word("green")>>],
     [formality |-> "formal", tags |-> <<Blank, Shouted("old")>>]}

MCRawCategories == {Shouted("hat"), Word("shoes"), Word("cape"), Blank}
MCOtherRows ==
    {[id |-> 9, user |-> "another",
      item |-> [Raw("hat", NoFields) EXCEPT !.category = "hat"]]}

\* Predicates, their nodes in order.
Node(kind, up, name) == [kind |-> kind, up |-> up, name |-> name]
Is(up, at, c) == <<Node("equals", up, c), Node("column", at, "category"),
                   Node("literal", at, c)>>
Has(up, at, key) == <<Node("is not null", up, ""), Node("access", at, key),
                      Node("column", at + 1, "fields"), Node("null", at, "")>>
Either(a, b) == <<Node("or", 0, "")>> \o Is(1, 2, a) \o Is(1, 5, b)
MCTrees ==
    {Is(0, 1, "hat"), Either("shoes", "hat"), Either("hat", "shoes"),
     <<Node("not", 0, "")>> \o <<Node("paren", 1, "")>> \o Is(2, 3, "hat"),
     <<Node("and", 0, "")>> \o Has(1, 2, "waterproof") \o Is(1, 6, "hat"),
     Has(0, 1, "shoe_type"), Has(0, 1, "user_id"),
     <<Node("equals", 0, ""), Node("column", 1, "user_id"), Node("literal", 1, "")>>,
     <<Node("equals", 0, ""), Node("qualified column", 1, "category"), Node("literal", 1, "")>>,
     <<Node("equals", 0, ""), Node("access", 1, "shoe_type"), Node("column", 2, "tags"),
       Node("literal", 1, "")>>,
     <<Node("not", 0, ""), Node("function", 1, "pg_sleep")>>,
     <<Node("literal", 0, "")>>, <<Node("column", 0, "fields")>>,
     <<Node("paren", 0, ""), Node("literal", 1, "")>>,
     <<Node("paren", 0, ""), Node("paren", 1, ""), Node("paren", 2, "")>> \o Is(3, 4, "hat")}

MCClauses == UNION {[1..n -> Chars] : n \in 0..6}

MCApiPaths == {<<"api", "items">>, <<"api", "profile">>, <<"api", "categories">>,
               <<"api", "limits">>}
MCFiles == {<<"favicon.svg">>, <<"assets", "index.js">>}
MCPaths ==
    MCApiPaths \cup MCFiles \cup Pages \cup Discovery \cup ProxyPaths
    \cup {<<"mcp">>, <<"mcp", "">>, <<"mcp", "authorize">>, <<"mcp", "nope">>,
          <<"mcp-tips">>, <<"api">>, <<"api", "nope">>, <<"health">>, <<"docs">>,
          <<"no-such-page">>, <<".well-known", "openid-configuration">>}
=============================================================================
