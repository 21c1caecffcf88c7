------------------------------ MODULE SqlBinder ------------------------------
(***************************************************************************)
(* sql::Binder: a statement with variables, written :name, is prepared,    *)
(* values are bound to the names, and sql() puts them in.  The variables   *)
(* are found by BinderParser, one character at a time, with flags for      *)
(* strings, comments and variables.                                        *)
(*                                                                         *)
(* A text is a sequence of characters, each a string of one; of the        *)
(* letters and digits two are told apart, and one is also a capital.       *)
(* Asserts are guards: the calls modelled keep the contract they state.    *)
(***************************************************************************)
EXTENDS Naturals, Sequences

CONSTANTS
    Templates,      \* the statements a new Binder is prepared with
    Again,          \* the statements a used one is prepared with
    MaxBound,       \* bound: values are bound to statements up to this length and those of Again
    BindNames,      \* names that are bound, as they are given, without the colon
    BindValues      \* texts that are bound

VARIABLES
    template,       \* _sql_template
    values,         \* _values
    parsed,         \* _data != nullptr
    calculated,     \* _is_calculated
    sqlText,        \* _sql
    unbound         \* history: a value was taken away after _sql was made

binderVars == <<template, values, parsed, calculated, sqlText, unbound>>

Alnum    == {"a", "b", "A"}
Space    == {" ", "\n"}
Char     == Alnum \cup Space \cup {":", "'", "/", "*", "-", "E", "NULL"}

ASSUME TextsOfChar ==
    Templates \cup Again \cup BindNames \cup BindValues \subseteq Seq(Char)

Lower(t) == [i \in DOMAIN t |-> IF t[i] = "A" THEN "a" ELSE t[i]]
FirstOf(S) == CHOOSE i \in S : \A j \in S : i <= j
LastOf(S)  == CHOOSE i \in S : \A j \in S : i >= j
Trim(t)  == LET solid == {i \in DOMAIN t : t[i] \notin Space} IN
            IF solid = {} THEN <<>> ELSE SubSeq(t, FirstOf(solid), LastOf(solid))

\* Two characters of t from i on.
Pair(t, i, x, y) == i < Len(t) /\ t[i] = x /\ t[i + 1] = y

-----------------------------------------------------------------------------
\* BinderParser

ParserStart == [mode |-> "text", skip |-> FALSE, first |-> 0, vars |-> <<>>]

\* Inside a comment.  A comment of either kind ends at */, and at a * that is the
\* last character.
InComment(t, s, i) ==
    IF Pair(t, i, "*", "/") THEN [s EXCEPT !.mode = "text", !.skip = TRUE]
    ELSE IF \/ t[i] = "\n" /\ s.mode = "line"
            \/ t[i] = "*" /\ i = Len(t)
    THEN [s EXCEPT !.mode = "text"]
    ELSE s

InString(t, s, i) ==
    IF Pair(t, i, "'", "'") THEN [s EXCEPT !.skip = TRUE]
    ELSE IF t[i] = "'" THEN [s EXCEPT !.mode = "text"]
    ELSE s

\* Inside a variable.  The character after it begins nothing but a string.
InVariable(t, s, i) ==
    IF t[i] \in Alnum /\ i < Len(t) THEN s
    ELSE LET last == IF t[i] \in Alnum THEN i ELSE i - 1
         IN  [s EXCEPT !.vars = Append(@, [name |-> Lower(SubSeq(t, s.first, last)),
                                           position |-> s.first]),
                       !.mode = IF t[i] = "'" THEN "string" ELSE "text"]

\* Mutant of InText: a cast is taken for the beginning of a variable.
InText_NoCast(t, s, i) ==
    CASE t[i] = "'"           -> [s EXCEPT !.mode = "string"]
      [] t[i] = ":"           -> [s EXCEPT !.mode = "var", !.first = i]
      [] Pair(t, i, "/", "*") -> [s EXCEPT !.mode = "block", !.skip = TRUE]
      [] Pair(t, i, "-", "-") -> [s EXCEPT !.mode = "line", !.skip = TRUE]
      [] OTHER                -> s

InText(t, s, i) ==
    CASE t[i] = "'"           -> [s EXCEPT !.mode = "string"]
      [] Pair(t, i, ":", ":") -> [s EXCEPT !.skip = TRUE]
      [] t[i] = ":" /\ ~Pair(t, i, ":", ":") -> [s EXCEPT !.mode = "var", !.first = i]
      [] Pair(t, i, "/", "*") -> [s EXCEPT !.mode = "block", !.skip = TRUE]
      [] Pair(t, i, "-", "-") -> [s EXCEPT !.mode = "line", !.skip = TRUE]
      [] OTHER                -> s

\* parse(): one turn of the loop, in which `i++` skips a character.
ParseStep(t, s, i) ==
    IF s.skip THEN [s EXCEPT !.skip = FALSE]
    ELSE CASE s.mode \in {"line", "block"} -> InComment(t, s, i)
           [] s.mode = "string" -> InString(t, s, i)
           [] s.mode = "var"    -> InVariable(t, s, i)
           [] s.mode = "text"   -> InText(t, s, i)

\* The parser after each character of t.
Parsing(t) ==
    LET after[i \in 0 .. Len(t)] ==
            IF i = 0 THEN ParserStart ELSE ParseStep(t, after[i - 1], i)
    IN  after

ParseTemplate(t) == Parsing(t)[Len(t)].vars

\* assert(trim_copy(name) != ":") holds.
Parsable(t) == \A i \in DOMAIN ParseTemplate(t) : ParseTemplate(t)[i].name # <<":">>

ValueOf(bound, name) == IF name \in DOMAIN bound THEN bound[name] ELSE <<>>

\* Mutant of PutValue: what stands between two variables is lost after the first.
PutValue_NoShift(t, bound, acc, v) ==
    [sql   |-> acc.sql \o SubSeq(t, acc.shift + 1, v.position - 1) \o ValueOf(bound, v.name),
     shift |-> v.position]

\* The text up to a variable, and its value, nothing if it has none.
PutValue(t, bound, acc, v) ==
    [sql   |-> acc.sql \o SubSeq(t, acc.shift + 1, v.position - 1) \o ValueOf(bound, v.name),
     shift |-> v.position + Len(v.name) - 1]

\* calculate(): the text after each variable of vars,
PuttingValues(t, bound, vars) ==
    LET after[k \in 0 .. Len(vars)] ==
            IF k = 0 THEN [sql |-> <<>>, shift |-> 0]
            ELSE PutValue(t, bound, after[k - 1], vars[k])
    IN  after

\* and the rest.
Calculate(t, bound) ==
    LET vars == ParseTemplate(t)
        end == PuttingValues(t, bound, vars)[Len(vars)]
    IN  end.sql \o SubSeq(t, end.shift + 1, Len(t))

-----------------------------------------------------------------------------
\* Binder

\* What a name is stored and looked for under.
Key(name) == Lower(<<":">> \o name)

\* isVariableParsed() compares with end() the wrong way round: it answers TRUE for
\* the names that the parser has not found.
IsVariableParsed(t, name) ==
    \A i \in DOMAIN ParseTemplate(t) : ParseTemplate(t)[i].name # Key(name)

NoValues   == [n \in {} |-> <<>>]
WithValue(bound, name, val) ==
    [n \in DOMAIN bound \cup {name} |-> IF n = name THEN val ELSE bound[n]]
IsPrepared == template # <<>>
IsBinded(name) == <<":">> \o name \in DOMAIN values

BinderInit ==
    /\ template = <<>> /\ values = NoValues
    /\ parsed = FALSE /\ calculated = FALSE /\ sqlText = <<>>
    /\ unbound = FALSE

\* clear(), when a Binder ends and at the beginning of prepare().
BinderClear ==
    /\ template' = <<>> /\ values' = NoValues
    /\ parsed' = FALSE /\ calculated' = FALSE /\ sqlText' = <<>>
    /\ unbound' = FALSE

Prepare(t) ==
    /\ Trim(t) # <<>>
    /\ template' = Trim(t) /\ values' = NoValues
    /\ parsed' = FALSE /\ calculated' = FALSE /\ sqlText' = <<>>
    /\ unbound' = FALSE

\* What is stored for a text: trimmed, then quoted, an empty one as NULL.
Formatted(v, trim_string, format_string) ==
    LET val == IF trim_string THEN Trim(v) ELSE v
    IN  IF ~format_string THEN val
        ELSE IF val = <<>> THEN <<"NULL">> ELSE <<"E", "'">> \o val \o <<"'">>

\* Mutant of Bind: also after sql() was called.
Bind_Late(name, colon, val) ==
    /\ IsPrepared
    /\ values' = IF colon /\ Key(name) \in DOMAIN values THEN values
                 ELSE WithValue(values, Key(name), val)
    /\ UNCHANGED <<template, parsed, calculated, sqlText, unbound>>

\* bind().  The name is put into lower case.  The look-up that ignores a second
\* binding is made before the colon is added: it works for names given with one, the
\* others are bound anew.
Bind(name, colon, val) ==
    /\ IsPrepared /\ ~calculated
    /\ values' = IF colon /\ Key(name) \in DOMAIN values THEN values
                 ELSE WithValue(values, Key(name), val)
    /\ UNCHANGED <<template, parsed, calculated, sqlText, unbound>>

\* unbind() leaves a text made before as it is.  It and isBinded() take the name as
\* it is given: of a name with a capital they say that it is not bound, and unbind()
\* asserts that it is.
Unbind(name) ==
    /\ IsPrepared /\ IsBinded(name)
    /\ values' = [n \in DOMAIN values \ {<<":">> \o name} |-> values[n]]
    /\ unbound' = calculated
    /\ UNCHANGED <<template, parsed, calculated, sqlText>>

ClearBinds ==
    /\ values' = NoValues
    /\ calculated' = FALSE
    /\ unbound' = FALSE
    /\ UNCHANGED <<template, parsed, sqlText>>

\* sql(): calculated once until clearBinds() or prepare().  The parameter is handed
\* on and never looked at: a value bound to a name that the statement has not is
\* left out, whatever it says.
Sql(halt_if_not_used) ==
    /\ IsPrepared /\ Parsable(template)
    /\ sqlText' = IF calculated THEN sqlText ELSE Calculate(template, values)
    /\ parsed' = TRUE /\ calculated' = TRUE
    /\ UNCHANGED <<template, values, unbound>>

\* parsedVariables() and isVariableParsed(): the parser is made if need be.
LookAtVariables ==
    /\ IsPrepared /\ Parsable(template)
    /\ parsed' = TRUE
    /\ UNCHANGED <<template, values, calculated, sqlText, unbound>>

BinderNext ==
    \/ \E t \in IF IsPrepared THEN Again ELSE Templates : Prepare(t)
    \/ \E name \in BindNames :
        \/ Unbind(name)
        \/ \E v \in BindValues, colon, trim, format \in BOOLEAN :
            /\ Len(template) <= MaxBound \/ template \in Again
            /\ Bind(name, colon, Formatted(v, trim, format))
    \/ \E halt \in BOOLEAN : Sql(halt)
    \/ ClearBinds \/ LookAtVariables \/ BinderClear

-----------------------------------------------------------------------------
\* What a statement means: cut into tokens, without flags.  A quote in a string
\* is written twice, which makes it two strings side by side.

\* The end of a token: the first of its possible ends, or the end of the text.
EndOf(t, ends) == IF ends = {} THEN Len(t) ELSE FirstOf(ends)

TokenAt(t, i) ==
    CASE t[i] = "'" ->
            [kind |-> "string", last |-> EndOf(t, {j \in i + 1 .. Len(t) : t[j] = "'"})]
      [] Pair(t, i, "-", "-") ->
            [kind |-> "line", last |-> EndOf(t, {j \in i + 2 .. Len(t) : t[j] = "\n"})]
      [] Pair(t, i, "/", "*") ->
            [kind |-> "block",
             last |-> EndOf(t, {j \in i + 3 .. Len(t) : Pair(t, j - 1, "*", "/")})]
      [] Pair(t, i, ":", ":") -> [kind |-> "cast", last |-> i + 1]
      [] t[i] = ":" /\ i < Len(t) /\ t[i + 1] \in Alnum ->
            [kind |-> "var",
             last |-> EndOf(t, {j \in i + 1 .. Len(t) - 1 : t[j + 1] \notin Alnum})]
      [] OTHER -> [kind |-> "other", last |-> i]

\* The variables of t from the token at i on.
VariablesFrom(t) ==
    LET from[i \in 1 .. Len(t) + 1] ==
            IF i > Len(t) THEN <<>>
            ELSE LET k == TokenAt(t, i)
                 IN  (IF k.kind = "var"
                      THEN <<[name |-> Lower(SubSeq(t, i, k.last)), position |-> i]>>
                      ELSE <<>>) \o from[k.last + 1]
    IN  from

\* The meaning of t from the token at i on: its text, or its value.
MeaningFrom(t, bound) ==
    LET from[i \in 1 .. Len(t) + 1] ==
            IF i > Len(t) THEN <<>>
            ELSE LET k == TokenAt(t, i)
                     text == SubSeq(t, i, k.last)
                 IN  (IF k.kind = "var" THEN ValueOf(bound, Lower(text)) ELSE text)
                     \o from[k.last + 1]
    IN  from

\* The texts on which the parser is right.  Directly behind a variable it sees no
\* comment, no cast and no other variable begin, and it ends a line comment at */.
PlainToken(t, i) ==
    LET k == TokenAt(t, i) IN
    /\ k.kind = "var" /\ k.last < Len(t) =>
         TokenAt(t, k.last + 1).kind \notin {"var", "cast", "line", "block"}
    /\ k.kind = "line" => \A j \in i .. k.last - 1 : ~Pair(t, j, "*", "/")

PlainFrom(t) ==
    LET from[i \in 1 .. Len(t) + 1] ==
            i <= Len(t) => PlainToken(t, i) /\ from[TokenAt(t, i).last + 1]
    IN  from

VariablesOf(t)    == VariablesFrom(t)[1]
Meaning(t, bound) == MeaningFrom(t, bound)[1]
Plain(t)          == PlainFrom(t)[1]

-----------------------------------------------------------------------------
\* Properties

\* parsedVariables() names, in order, exactly the variables of the statement that
\* stand outside strings and comments and are not part of a cast, on every text
\* that is plain in the sense above, and isVariableParsed() denies exactly these; and
\* the text is then accepted.
ParserFindsVariables ==
    Plain(template) =>
        IF Parsable(template)
        THEN /\ ParseTemplate(template) = VariablesOf(template)
             /\ \A name \in BindNames :
                    ~IsVariableParsed(template, name) <=>
                        \E i \in DOMAIN VariablesOf(template) :
                            VariablesOf(template)[i].name = Key(name)
        ELSE \E i \in 1 .. Len(template) - 1 :
                template[i] = ":" /\ template[i + 1] \notin Alnum \cup {":"}

\* On every text, plain or not, no character is lost, doubled or moved: with each
\* variable bound to its own name sql() gives the statement back, except for the
\* case of these names.
NothingLost ==
    Parsable(template) =>
        LET names == {ParseTemplate(template)[i].name : i \in DOMAIN ParseTemplate(template)}
        IN  Lower(Calculate(template, [n \in names |-> n])) = Lower(template)

\* What sql() returned is what the statement means with the values bound now,
\* through every order of prepare, bind, unbind, clearBinds and look-ups, unless
\* a value was taken away after the text was made, which sql() does not see.  What
\* is bound to names that the statement has not changes nothing: the critical error
\* that sql()'s halt_if_not_used announces for them does not exist.
SqlIsMeaning ==
    calculated /\ ~unbound /\ Plain(template) => sqlText = Meaning(template, values)

=============================================================================
