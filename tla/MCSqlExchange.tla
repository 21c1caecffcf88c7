---------------------------- MODULE MCSqlExchange ----------------------------
(***************************************************************************)
(* A small instance of SqlExchange for TLC.  Statements are all texts of   *)
(* up to four fragments, in which every character the parser looks at      *)
(* meets every other; tables have up to two rows and columns of NULL, the  *)
(* string "", one that is UTF-8 and one that is not; one more table has a  *)
(* text that makes the reply too large.                                    *)
(***************************************************************************)
EXTENDS SqlExchange

Invalid == {2}
Chars   == 0 .. 2

Fragments == {<<":", "a">>, <<":", "A", "b">>, <<"'">>, <<":", ":">>, <<"-", "-">>, <<"\n">>,
              <<"/", "*">>, <<"*", "/">>, <<" ">>, <<":">>, <<"*">>}
Statements  == {a \o b \o c \o d : a, b, c, d \in Fragments}
Second      == {<<":", "a", "'", "b">>, <<":", "A", " ", ":", "a">>}
BoundNames  == {<<"a">>, <<"A">>, <<"a", "b">>}
BoundValues == {<<" ">>}

Stored == {[case |-> "v_string", val |-> 2], [case |-> "v_int", val |-> 0]}

Result(columns, rows, S) == {[rows |-> t, columns |-> columns] :
                                t \in [1 .. rows -> [1 .. columns -> S]]}
Results == Result(2, 2, {1, 2, None}) \cup
           UNION {Result(s[1], s[2], Chars \cup {None}) : s \in (0 .. 2) \X (0 .. 2) \ {<<2, 2>>}} \cup
           Result(1, 1, {60})

KeyOrders == {<<0, 1>>, <<1, 0>>}

\* For each class every message with these strings and numbers, and every one
\* of them to parse it onto.
MessagesOf(class) == {[n \in DOMAIN New(class) |-> IF n = "unknown" THEN <<>> ELSE f[n]] :
                        f \in [Names(class) -> Chars]}
Alone == UNION {{[class |-> class, message |-> a, onto |-> b] :
                    a \in MessagesOf(class),
                    b \in {x \in MessagesOf(class) : \A n \in Names(class) : x[n] # 2}} :
                        class \in Classes}
==============================================================================
