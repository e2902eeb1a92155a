----------------------------- MODULE ItemValues -----------------------------
(***************************************************************************)
(* What is done to the values of an item before they are stored: the vali- *)
(* dators of ItemBase, ItemCreate and ItemUpdate (backend/app/models.py)   *)
(* and validate_fields (backend/app/services/taxonomy.py).                 *)
(*                                                                         *)
(* A text is a word, whether it is in upper case, and whether it has white *)
(* space around it.  A raw value is tagged with its JSON type.             *)
(***************************************************************************)
EXTENDS Integers, SequencesExt

CONSTANTS
    Template,    \* category -> field name -> its category_field_defs row
    NumberOf,    \* the words float() reads, and what they read as
    NaN,         \* not a number, infinities included
    MaxColors,
    None

Categories == DOMAIN Template

Texts == [word : STRING, upper : BOOLEAN, padded : BOOLEAN]

\* The numbers there are: each is one that some word reads as.
Numbers == {NumberOf[w] : w \in DOMAIN NumberOf}
RawValues == [is : {"text"}, text : Texts] \cup [is : {"bool"}, truth : BOOLEAN]
                 \cup [is : {"number"}, number : Numbers]

ASSUME TemplateAssumption ==
    /\ Categories \subseteq STRING \ {""}
    /\ \A c \in Categories : \A n \in DOMAIN Template[c] :
          LET def == Template[c][n]
          IN  /\ def.type \in {"boolean", "number", "enum", "text"}
              /\ def.required \in BOOLEAN
              /\ def.allowed \in Seq(Texts)
ASSUME NumberAssumption ==
    /\ MaxColors \in Nat
    /\ DOMAIN NumberOf \subseteq STRING
    /\ \A w \in DOMAIN NumberOf : NumberOf[w] \in Int \cup {NaN}

Word(w) == [word |-> w, upper |-> FALSE, padded |-> FALSE]
Strip(t) == [word |-> t.word, upper |-> t.upper, padded |-> FALSE]
Lower(t) == [word |-> t.word, upper |-> FALSE, padded |-> t.padded]
Empty(t) == t.word = ""

Text(t) == [is |-> "text", text |-> t]
Bool(b) == [is |-> "bool", truth |-> b]
Number(n) == [is |-> "number", number |-> n]

-----------------------------------------------------------------------------
(* Lists of labels: colors, with a cap, and tags.                          *)

\* _clean_strings: trimmed and lowered, blanks and repetitions dropped.
\* Cleaned(values)[n] is what `out` holds after n of the values.
AddLabel(out, raw) ==
    LET t == Lower(Strip(raw))
    IN  IF Empty(t) \/ Contains(out, t) THEN out ELSE Append(out, t)

Cleaned(values) ==
    LET out[n \in 0..Len(values)] ==
            IF n = 0 THEN <<>> ELSE AddLabel(out[n - 1], values[n])
    IN  out
CleanStrings(values) == Cleaned(values)[Len(values)]

ColorsFit(values) == Len(CleanStrings(values)) <= MaxColors

NormaliseCategory(t) == Lower(Strip(t)).word

-----------------------------------------------------------------------------
(* Category-specific fields.                                               *)

Truthy == {"true", "t", "yes", "y", "1"}
Falsy == {"false", "f", "no", "n", "0"}

\* The provers do not know of a quoted word that it is a string.
ASSUME WordsAssumption == Truthy \cup Falsy \subseteq STRING

\* str(value)
AsText(v) ==
    CASE v.is = "text" -> v.text
      [] v.is = "bool" -> [Word(IF v.truth THEN "true" ELSE "false") EXCEPT !.upper = TRUE]
      [] v.is = "number" -> Word(CHOOSE w \in DOMAIN NumberOf : NumberOf[w] = v.number)

CoerceBoolean(v) ==
    LET w == AsText(v).word
    IN  IF v.is = "bool" THEN v
        ELSE IF w \in Truthy THEN Bool(TRUE)
        ELSE IF w \in Falsy THEN Bool(FALSE)
        ELSE None

CoerceNumber(v) ==
    CASE v.is = "bool" -> None
      [] v.is = "number" -> v
      [] v.is = "text" -> IF v.text.word \in DOMAIN NumberOf
                            THEN Number(NumberOf[v.text.word])
                            ELSE None

\* The first allowed value that is the same but for its case.
CoerceEnum(v, allowed) ==
    LET t == Lower(Strip(AsText(v)))
        matches == {i \in DOMAIN allowed : Lower(allowed[i]) = t}
    IN  IF matches = {} THEN None
        ELSE Text(allowed[CHOOSE i \in matches : \A j \in matches : i <= j])

\* _coerce; None is a ValidationError.
Coerce(def, v) ==
    CASE def.type = "boolean" -> CoerceBoolean(v)
      [] def.type = "number"  -> CoerceNumber(v)
      [] def.type = "enum"    -> CoerceEnum(v, def.allowed)
      [] def.type = "text"    -> Text(Strip(AsText(v)))

\* validate_fields; None is a ValidationError or an UnknownCategoryError.
\* A field sent as null was not supplied.
ValidateFields(c, fields, requireRequired) ==
    LET supplied == {n \in DOMAIN fields : fields[n] # None}
        defs == Template[c]
        coerced == [n \in supplied |-> Coerce(defs[n], fields[n])]
        missing == {n \in DOMAIN defs : defs[n].required} \ supplied
    IN  IF \/ c \notin Categories
           \/ ~(supplied \subseteq DOMAIN defs)
           \/ \E n \in supplied : coerced[n] = None
           \/ requireRequired /\ missing # {}
          THEN None
          ELSE coerced

\* known_field_names: what the query validator lets a JSON access name.
KnownFieldNames == UNION {DOMAIN Template[c] : c \in Categories}

\* jsonb has no NaN: Postgres refuses the row.
Storable(fields) ==
    \A n \in DOMAIN fields : fields[n] # Number(NaN)
=============================================================================
