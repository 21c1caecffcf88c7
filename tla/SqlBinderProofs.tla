--------------------------- MODULE SqlBinderProofs ---------------------------
(***************************************************************************)
(* What SqlBinder computes, for every statement, every set of values and   *)
(* every length: the parser, which reads a character at a time with flags, *)
(* finds the variables that the cutting into tokens finds (ParserIsRight); *)
(* no character is lost (EveryCharacterStays); and the text made is what   *)
(* the statement means (SqlIsRight).                                       *)
(*                                                                         *)
(* The operators are recursive functions on the places of a text.  That    *)
(* such a function is what its definition says, and what holds of all of   *)
(* its values, is proved by induction: a set of numbers that is not empty  *)
(* has a least element, because < on Nat is well founded.  Texts consist   *)
(* of the characters of Char (TextsOfChar).                                *)
(***************************************************************************)
EXTENDS SqlBinder, Integers, SequenceTheorems, WellFoundedInduction, TLAPS

-----------------------------------------------------------------------------
\* Induction

LEMMA LeastNumber ==
    ASSUME NEW T, T \subseteq Nat, T # {}
    PROVE  \E m \in T : \A k \in T : m <= k
<1>1. PICK R : R = OpToRel(<, Nat)
  OBVIOUS
<1>2. IsWellFoundedOn(R, Nat)
  BY <1>1, NatLessThanWellFounded
<1>3. PICK m \in T : \A k \in T : ~ (<<k, m>> \in R)
  BY <1>2, WFMin
<1>4. \A x, y \in Nat : y < x => <<y, x>> \in R
  BY <1>1 DEF OpToRel
<1>5. ASSUME NEW k \in T PROVE m <= k
  <2>1. k \in Nat /\ m \in Nat
    OBVIOUS
  <2>2. ~(k < m)
    BY <1>3, <1>4, <2>1
  <2> QED
    BY <2>1, <2>2
<1> QED
  BY <1>5

\* Induction, for a set of numbers in the place of a predicate.
LEMMA SetInduction ==
    ASSUME NEW S, 0 \in S, \A n \in Nat : n \in S => n + 1 \in S
    PROVE  Nat \subseteq S
<1> SUFFICES ASSUME ~(Nat \subseteq S) PROVE FALSE
  OBVIOUS
<1>1. PICK T : T = Nat \ S
  OBVIOUS
<1>2. PICK m \in T : \A k \in T : m <= k
  BY <1>1, LeastNumber
<1>3. m \in Nat /\ m # 0 /\ m \notin S
  BY <1>1, <1>2
<1>4. m - 1 \in Nat /\ m - 1 \notin T
  BY <1>1, <1>2, <1>3
<1> QED
  BY <1>1, <1>3, <1>4

\* What is true of 0 and passes from each number below n to the next.
LEMMA UpTo ==
    ASSUME NEW n \in Nat, NEW S, 0 \in S, \A i \in 0 .. n - 1 : i \in S => i + 1 \in S
    PROVE  0 .. n \subseteq S
<1>1. PICK T : T = {i \in Nat : i <= n => i \in S}
  OBVIOUS
<1>2. 0 \in T
  BY <1>1
<1>3. \A i \in Nat : i \in T => i + 1 \in T
  <2>1. ASSUME NEW i \in Nat, i \in T, i + 1 <= n PROVE i + 1 \in S
    BY <1>1, <2>1
  <2> QED
    BY <1>1, <2>1
<1>4. Nat \subseteq T
  BY <1>2, <1>3, SetInduction
<1> QED
  BY <1>1, <1>4

\* Induction from n + 1 downwards.
LEMMA DownFrom ==
    ASSUME NEW n \in Nat, NEW S, n + 1 \in S,
           \A i \in 1 .. n : (\A j \in i + 1 .. n + 1 : j \in S) => i \in S
    PROVE  1 .. n + 1 \subseteq S
<1>1. PICK T : T = {d \in Nat : \A j \in 1 .. n + 1 : j >= n + 1 - d => j \in S}
  OBVIOUS
<1>2. 0 \in T
  BY <1>1
<1>3. ASSUME NEW d \in Nat, d \in T PROVE d + 1 \in T
  <2>1. ASSUME NEW j \in 1 .. n + 1, j >= n + 1 - (d + 1) PROVE j \in S
    <3>1. CASE j >= n + 1 - d
      BY <1>1, <1>3, <3>1
    <3>2. CASE ~(j >= n + 1 - d)
      <4>1. j \in 1 .. n
        BY <3>2
      <4>2. \A k \in j + 1 .. n + 1 : k \in S
        BY <1>1, <1>3, <2>1
      <4> QED
        BY <4>1, <4>2
    <3> QED
      BY <3>1, <3>2
  <2> QED
    BY <1>1, <2>1
<1>4. Nat \subseteq T
  BY <1>2, <1>3, SetInduction
<1>5. n + 1 \in T
  BY <1>4
<1> QED
  BY <1>1, <1>5

-----------------------------------------------------------------------------
\* The recursive functions

LEMMA ParsingIs ==
    ASSUME NEW t, NEW n \in Nat, Len(t) = n
    PROVE  Parsing(t) = [i \in 0 .. n |-> IF i = 0 THEN ParserStart
                                          ELSE ParseStep(t, Parsing(t)[i - 1], i)]
<1> DEFINE Is(g, m) == g = [i \in 0 .. m |-> IF i = 0 THEN ParserStart
                                              ELSE ParseStep(t, g[i - 1], i)]
<1>1. PICK S : S = {m \in Nat : \E g : Is(g, m)}
  OBVIOUS
<1>2. 0 \in S
  <2>1. PICK g : g = [i \in 0 .. 0 |-> ParserStart]
    OBVIOUS
  <2>2. Is(g, 0)
    BY <2>1
  <2> QED
    BY <1>1, <2>2
<1>3. ASSUME NEW m \in Nat, m \in S PROVE m + 1 \in S
  <2>1. PICK g : Is(g, m)
    BY <1>1, <1>3
  <2>2. PICK h : h = [i \in 0 .. m + 1 |-> IF i = m + 1 THEN ParseStep(t, g[m], m + 1) ELSE g[i]]
    OBVIOUS
  <2>3. ASSUME NEW i \in 0 .. m + 1
        PROVE  h[i] = IF i = 0 THEN ParserStart ELSE ParseStep(t, h[i - 1], i)
    <3>1. CASE i = m + 1
      BY <2>1, <2>2, <3>1
    <3>2. CASE i \in 0 .. m
      BY <2>1, <2>2, <3>2
    <3> QED
      BY <3>1, <3>2
  <2>4. Is(h, m + 1)
    BY <2>2, <2>3
  <2> QED
    BY <1>1, <2>4
<1>4. n \in S
  BY <1>2, <1>3, SetInduction
<1>5. Parsing(t) = CHOOSE g : Is(g, n)
  BY DEF Parsing
<1> QED
  BY <1>1, <1>4, <1>5

-----------------------------------------------------------------------------
\* Tokens

LEMMA FirstIs ==
    ASSUME NEW T, T \subseteq Nat, T # {}
    PROVE  FirstOf(T) \in T /\ \A k \in T : FirstOf(T) <= k
BY LeastNumber DEF FirstOf

LEMMA EndIs ==
    ASSUME NEW t, NEW ends, ends \subseteq 1 .. Len(t), Len(t) \in Nat
    PROVE  \/ ends = {} /\ EndOf(t, ends) = Len(t)
           \/ EndOf(t, ends) \in ends /\ \A k \in ends : EndOf(t, ends) <= k
<1>1. ends \subseteq Nat
  OBVIOUS
<1> QED
  BY <1>1, FirstIs DEF EndOf

LEMMA StringToken ==
    ASSUME NEW t, NEW n \in Nat, Len(t) = n, NEW i \in 1 .. n, t[i] = "'",
           NEW k, k = TokenAt(t, i)
    PROVE  /\ k.kind = "string" /\ k.last \in i .. n
           /\ \A j \in i + 1 .. k.last - 1 : t[j] # "'"
           /\ k.last < n => k.last > i /\ t[k.last] = "'"
<1>1. PICK ends : ends = {j \in i + 1 .. n : t[j] = "'"}
  OBVIOUS
<1>2. k.kind = "string" /\ k.last = EndOf(t, ends)
  <2>1. ~Pair(t, i, "-", "-") /\ ~Pair(t, i, "/", "*") /\ ~Pair(t, i, ":", ":")
    BY DEF Pair
  <2>2. t[i] # ":"
    OBVIOUS
  <2> QED
    BY <1>1, <2>1, <2>2 DEF TokenAt
<1>3. ends \subseteq 1 .. Len(t)
  BY <1>1
<1> QED
  BY <1>1, <1>2, <1>3, EndIs

LEMMA LineToken ==
    ASSUME NEW t, NEW n \in Nat, Len(t) = n, NEW i \in 1 .. n, Pair(t, i, "-", "-"),
           NEW k, k = TokenAt(t, i)
    PROVE  /\ k.kind = "line" /\ k.last \in i + 1 .. n
           /\ \A j \in i + 2 .. k.last - 1 : t[j] # "\n"
           /\ k.last < n => k.last > i + 1 /\ t[k.last] = "\n"
<1>1. PICK ends : ends = {j \in i + 2 .. n : t[j] = "\n"}
  OBVIOUS
<1>2. t[i] = "-" /\ i < n /\ ~Pair(t, i, "/", "*") /\ ~Pair(t, i, ":", ":")
  BY DEF Pair
<1>3. k.kind = "line" /\ k.last = EndOf(t, ends)
  BY <1>1, <1>2 DEF TokenAt
<1>4. ends \subseteq 1 .. Len(t)
  BY <1>1
<1> QED
  BY <1>1, <1>2, <1>3, <1>4, EndIs

LEMMA BlockToken ==
    ASSUME NEW t, NEW n \in Nat, Len(t) = n, NEW i \in 1 .. n, Pair(t, i, "/", "*"),
           NEW k, k = TokenAt(t, i)
    PROVE  /\ k.kind = "block" /\ k.last \in i + 1 .. n
           /\ \A j \in i + 2 .. k.last - 2 : ~Pair(t, j, "*", "/")
           /\ k.last < n => k.last > i + 2 /\ Pair(t, k.last - 1, "*", "/")
<1>1. PICK ends : ends = {j \in i + 3 .. n : Pair(t, j - 1, "*", "/")}
  OBVIOUS
<1>2. t[i] = "/" /\ i < n /\ ~Pair(t, i, "-", "-") /\ ~Pair(t, i, ":", ":")
  BY DEF Pair
<1>3. k.kind = "block" /\ k.last = EndOf(t, ends)
  BY <1>1, <1>2 DEF TokenAt
<1>4. ends \subseteq 1 .. Len(t)
  BY <1>1
<1>5. ASSUME NEW j \in i + 2 .. n - 1, Pair(t, j, "*", "/") PROVE j + 1 \in ends
  <2>1. PICK l : l = j + 1 /\ j = l - 1 /\ l \in i + 3 .. n
    OBVIOUS
  <2> QED
    BY <1>1, <1>5, <2>1
<1>6. CASE ends = {}
  BY <1>2, <1>3, <1>4, <1>5, <1>6, EndIs
<1>7. CASE ends # {}
  <2>1. PICK m : m = k.last /\ m \in ends /\ \A l \in ends : m <= l
    BY <1>3, <1>4, <1>7, EndIs
  <2>2. m \in i + 3 .. n /\ Pair(t, m - 1, "*", "/")
    BY <1>1, <2>1
  <2>3. ASSUME NEW j \in i + 2 .. m - 2 PROVE ~Pair(t, j, "*", "/")
    BY <1>5, <2>1, <2>2
  <2> QED
    BY <1>3, <2>1, <2>2, <2>3
<1> QED
  BY <1>6, <1>7

LEMMA CastToken ==
    ASSUME NEW t, NEW n \in Nat, Len(t) = n, NEW i \in 1 .. n, Pair(t, i, ":", ":"),
           NEW k, k = TokenAt(t, i)
    PROVE  k.kind = "cast" /\ k.last = i + 1 /\ i < n
<1>1. t[i] = ":" /\ i < n /\ t[i + 1] \notin Alnum /\ ~Pair(t, i, "-", "-") /\ ~Pair(t, i, "/", "*")
  BY DEF Pair, Alnum
<1> QED
  BY <1>1 DEF TokenAt

LEMMA VarToken ==
    ASSUME NEW t, NEW n \in Nat, Len(t) = n, NEW i \in 1 .. n,
           t[i] = ":", i < n, t[i + 1] \in Alnum, NEW k, k = TokenAt(t, i)
    PROVE  /\ k.kind = "var" /\ k.last \in i + 1 .. n
           /\ \A j \in i + 1 .. k.last : t[j] \in Alnum
           /\ k.last < n => t[k.last + 1] \notin Alnum
<1>1. PICK ends : ends = {j \in i + 1 .. n - 1 : t[j + 1] \notin Alnum}
  OBVIOUS
<1>2. ~Pair(t, i, "-", "-") /\ ~Pair(t, i, "/", "*") /\ ~Pair(t, i, ":", ":")
  BY DEF Pair, Alnum
<1>3. k.kind = "var" /\ k.last = EndOf(t, ends)
  BY <1>1, <1>2 DEF TokenAt
<1>4. ends \subseteq 1 .. Len(t)
  BY <1>1
<1>5. PICK m : /\ m = k.last /\ m \in i + 1 .. n
               /\ m < n => t[m + 1] \notin Alnum
               /\ \A l \in ends : m <= l
  <2>1. CASE ends = {}
    BY <1>3, <1>4, <2>1, EndIs
  <2>2. CASE ends # {}
    <3>1. PICK m : m = k.last /\ m \in ends /\ \A l \in ends : m <= l
      BY <1>3, <1>4, <2>2, EndIs
    <3>2. m \in i + 1 .. n /\ t[m + 1] \notin Alnum
      BY <1>1, <3>1
    <3> QED
      BY <3>1, <3>2
  <2> QED
    BY <2>1, <2>2
<1>6. ASSUME NEW j \in i + 1 .. m PROVE t[j] \in Alnum
  <2>1. CASE j > i + 1
    <3>1. PICK l : l = j - 1 /\ j = l + 1 /\ l \in i + 1 .. n - 1 /\ l < m
      BY <1>5, <2>1
    <3>2. l \notin ends
      BY <1>5, <3>1
    <3> QED
      BY <1>1, <3>1, <3>2
  <2> QED
    BY <2>1
<1> QED
  BY <1>3, <1>5, <1>6

LEMMA OtherToken ==
    ASSUME NEW t, NEW n \in Nat, Len(t) = n, NEW i \in 1 .. n,
           t[i] # "'", ~Pair(t, i, "-", "-"), ~Pair(t, i, "/", "*"), ~Pair(t, i, ":", ":"),
           ~(t[i] = ":" /\ i < n /\ t[i + 1] \in Alnum), NEW k, k = TokenAt(t, i)
    PROVE  k.kind = "other" /\ k.last = i
BY DEF TokenAt

\* Every token begins where it is looked for and ends in the text.
LEMMA TokenEnds ==
    ASSUME NEW t, NEW n \in Nat, Len(t) = n, NEW i \in 1 .. n
    PROVE  TokenAt(t, i).last \in i .. n
<1>1. CASE t[i] = "'"
  BY <1>1, StringToken
<1>2. CASE Pair(t, i, "-", "-")
  BY <1>2, LineToken
<1>3. CASE Pair(t, i, "/", "*")
  BY <1>3, BlockToken
<1>4. CASE Pair(t, i, ":", ":")
  BY <1>4, CastToken
<1>5. CASE t[i] = ":" /\ i < n /\ t[i + 1] \in Alnum
  BY <1>5, VarToken
<1>6. CASE ~(t[i] = "'" \/ Pair(t, i, "-", "-") \/ Pair(t, i, "/", "*")
              \/ Pair(t, i, ":", ":") \/ (t[i] = ":" /\ i < n /\ t[i + 1] \in Alnum))
  BY <1>6, OtherToken
<1> QED
  BY <1>1, <1>2, <1>3, <1>4, <1>5, <1>6

-----------------------------------------------------------------------------
\* What stands in a text from a place on

LEMMA PuttingIs ==
    ASSUME NEW t, NEW bound, NEW vars, NEW n \in Nat, Len(vars) = n,
           NEW P, P = PuttingValues(t, bound, vars)
    PROVE  P = [k \in 0 .. n |-> IF k = 0 THEN [sql |-> <<>>, shift |-> 0]
                                 ELSE PutValue(t, bound, P[k - 1], vars[k])]
<1> DEFINE Is(g, m) == g = [k \in 0 .. m |-> IF k = 0 THEN [sql |-> <<>>, shift |-> 0]
                                             ELSE PutValue(t, bound, g[k - 1], vars[k])]
<1>1. PICK S : S = {m \in Nat : \E g : Is(g, m)}
  OBVIOUS
<1>2. 0 \in S
  <2>1. PICK g : g = [k \in 0 .. 0 |-> [sql |-> <<>>, shift |-> 0]]
    OBVIOUS
  <2>2. Is(g, 0)
    BY <2>1
  <2> QED
    BY <1>1, <2>2
<1>3. ASSUME NEW m \in Nat, m \in S PROVE m + 1 \in S
  <2>1. PICK g : Is(g, m)
    BY <1>1, <1>3
  <2>2. PICK h : h = [k \in 0 .. m + 1 |-> IF k = m + 1 THEN PutValue(t, bound, g[m], vars[m + 1])
                                           ELSE g[k]]
    OBVIOUS
  <2>3. ASSUME NEW k \in 0 .. m + 1
        PROVE  h[k] = IF k = 0 THEN [sql |-> <<>>, shift |-> 0]
                      ELSE PutValue(t, bound, h[k - 1], vars[k])
    <3>1. CASE k = m + 1
      BY <2>1, <2>2, <3>1
    <3>2. CASE k \in 0 .. m
      BY <2>1, <2>2, <3>2
    <3> QED
      BY <3>1, <3>2
  <2>4. Is(h, m + 1)
    BY <2>2, <2>3
  <2> QED
    BY <1>1, <2>4
<1>4. n \in S
  BY <1>2, <1>3, SetInduction
<1>5. PuttingValues(t, bound, vars) = CHOOSE g : Is(g, n)
  BY DEF PuttingValues
<1> QED
  BY <1>1, <1>4, <1>5

\* A function given from the end of a text, each part put before what follows it.
Nothing      == <<>>
Joined(a, b) == a \o b
Gathers(g, n, w, next) ==
    g = [i \in 1 .. n + 1 |-> IF i > n THEN Nothing ELSE Joined(w[i], g[next[i]])]
Agrees(g, n, w, next) ==
    g = [i \in 1 .. n + 1 |-> i <= n => w[i] /\ g[next[i]]]

LEMMA FromTheEnd ==
    ASSUME NEW n \in Nat, NEW w, NEW next, \A i \in 1 .. n : next[i] \in i + 1 .. n + 1
    PROVE  \E g : Gathers(g, n, w, next)
<1> DEFINE Is(g, m) ==
             g = [i \in m .. n + 1 |-> IF i > n THEN Nothing ELSE Joined(w[i], g[next[i]])]
<1>1. PICK S : S = {m \in Nat : \E g : Is(g, m)}
  OBVIOUS
<1>2. n + 1 \in S
  <2>1. PICK g : g = [i \in n + 1 .. n + 1 |-> Nothing]
    OBVIOUS
  <2>2. Is(g, n + 1)
    BY <2>1
  <2> QED
    BY <1>1, <2>2
<1>3. ASSUME NEW m \in 1 .. n, \A i \in m + 1 .. n + 1 : i \in S PROVE m \in S
  <2>1. m + 1 \in S
    BY <1>3
  <2>2. PICK g : Is(g, m + 1)
    BY <1>1, <2>1
  <2>3. PICK h : h = [i \in m .. n + 1 |-> IF i = m THEN Joined(w[m], g[next[m]]) ELSE g[i]]
    OBVIOUS
  <2>4. ASSUME NEW i \in m .. n + 1
        PROVE  h[i] = IF i > n THEN Nothing ELSE Joined(w[i], h[next[i]])
    <3>1. CASE i = m
      <4>1. next[m] \in m + 1 .. n + 1
        OBVIOUS
      <4> QED
        BY <2>3, <3>1, <4>1
    <3>2. CASE i \in m + 1 .. n + 1
      <4>1. h[i] = g[i]
        BY <2>3, <3>2
      <4>2. i <= n => next[i] \in m + 1 .. n + 1
        BY <3>2
      <4>3. i <= n => h[next[i]] = g[next[i]]
        BY <2>3, <4>2
      <4> QED
        BY <2>2, <3>2, <4>1, <4>3
    <3> QED
      BY <3>1, <3>2
  <2>5. Is(h, m)
    BY <2>3, <2>4
  <2> QED
    BY <1>1, <2>5
<1>4. 1 \in S
  <2>1. 1 .. n + 1 \subseteq S
    BY <1>2, <1>3, DownFrom
  <2> QED
    BY <2>1
<1> QED
  BY <1>1, <1>4 DEF Gathers

\* The same of a statement about all parts.
LEMMA AllToTheEnd ==
    ASSUME NEW n \in Nat, NEW w, NEW next, \A i \in 1 .. n : next[i] \in i + 1 .. n + 1
    PROVE  \E g : Agrees(g, n, w, next)
<1> DEFINE Is(g, m) == g = [i \in m .. n + 1 |-> i <= n => w[i] /\ g[next[i]]]
<1>1. PICK S : S = {m \in Nat : \E g : Is(g, m)}
  OBVIOUS
<1>2. n + 1 \in S
  <2>1. PICK g : g = [i \in n + 1 .. n + 1 |-> TRUE]
    OBVIOUS
  <2>2. ASSUME NEW i \in n + 1 .. n + 1 PROVE TRUE = (i <= n => w[i] /\ g[next[i]])
    <3>1. ~(i <= n)
      OBVIOUS
    <3> QED
      BY <3>1
  <2>3. Is(g, n + 1)
    BY <2>1, <2>2
  <2> QED
    BY <1>1, <2>3
<1>3. ASSUME NEW m \in 1 .. n, \A i \in m + 1 .. n + 1 : i \in S PROVE m \in S
  <2>1. m + 1 \in S
    BY <1>3
  <2>2. PICK g : Is(g, m + 1)
    BY <1>1, <2>1
  <2>3. PICK h : h = [i \in m .. n + 1 |-> IF i = m THEN w[m] /\ g[next[m]] ELSE g[i]]
    OBVIOUS
  <2>4. ASSUME NEW i \in m .. n + 1
        PROVE  h[i] = (i <= n => w[i] /\ h[next[i]])
    <3>1. CASE i = m
      <4>1. next[m] \in m + 1 .. n + 1
        OBVIOUS
      <4> QED
        BY <2>3, <3>1, <4>1
    <3>2. CASE i \in m + 1 .. n + 1
      <4>1. h[i] = g[i]
        BY <2>3, <3>2
      <4>2. i <= n => next[i] \in m + 1 .. n + 1
        BY <3>2
      <4>3. i <= n => h[next[i]] = g[next[i]]
        BY <2>3, <4>2
      <4> QED
        BY <2>2, <3>2, <4>1, <4>3
    <3> QED
      BY <3>1, <3>2
  <2>5. Is(h, m)
    BY <2>3, <2>4
  <2> QED
    BY <1>1, <2>5
<1>4. 1 \in S
  <2>1. 1 .. n + 1 \subseteq S
    BY <1>2, <1>3, DownFrom
  <2> QED
    BY <2>1
<1> QED
  BY <1>1, <1>4 DEF Agrees

\* The places at which the next tokens begin.
NextToken(t) == [i \in 1 .. Len(t) |-> TokenAt(t, i).last + 1]

LEMMA NextTokenIs ==
    ASSUME NEW t, NEW n \in Nat, Len(t) = n
    PROVE  \A i \in 1 .. n : /\ NextToken(t)[i] = TokenAt(t, i).last + 1
                             /\ NextToken(t)[i] \in i + 1 .. n + 1
<1> SUFFICES ASSUME NEW i \in 1 .. n
             PROVE  /\ NextToken(t)[i] = TokenAt(t, i).last + 1
                    /\ NextToken(t)[i] \in i + 1 .. n + 1
  OBVIOUS
<1>1. PICK l : l = TokenAt(t, i).last /\ l \in i .. n
  BY TokenEnds
<1>2. NextToken(t)[i] = l + 1
  BY <1>1 DEF NextToken
<1> QED
  BY <1>1, <1>2

\* The tokens of a text are met one after the other up to its end: what is said of
\* the rest of the text can be said of the text.
LEMMA VariablesIs ==
    ASSUME NEW t, NEW n \in Nat, Len(t) = n, NEW i \in 1 .. n + 1
    PROVE  VariablesFrom(t)[i]
             = IF i > n THEN <<>>
               ELSE LET k == TokenAt(t, i)
                    IN  (IF k.kind = "var"
                         THEN <<[name |-> Lower(SubSeq(t, i, k.last)), position |-> i]>>
                         ELSE <<>>) \o VariablesFrom(t)[k.last + 1]
<1> DEFINE Out(j) == IF TokenAt(t, j).kind = "var"
                     THEN <<[name |-> Lower(SubSeq(t, j, TokenAt(t, j).last)), position |-> j]>>
                     ELSE <<>>
           Is(g) == g = [j \in 1 .. n + 1 |->
                           IF j > n THEN <<>> ELSE Out(j) \o g[TokenAt(t, j).last + 1]]
<1>1. PICK w : w = [j \in 1 .. n |-> Out(j)]
  OBVIOUS
<1>2. PICK next : next = NextToken(t)
  OBVIOUS
<1>3. \A j \in 1 .. n : w[j] = Out(j) /\ next[j] = TokenAt(t, j).last + 1
  BY <1>1, <1>2, NextTokenIs
<1>4. \A j \in 1 .. n : next[j] \in j + 1 .. n + 1
  BY <1>2, NextTokenIs
<1>5. PICK g : Gathers(g, n, w, next)
  BY <1>4, FromTheEnd
<1>6. Is(g)
  <2> HIDE DEF Out
  <2>1. ASSUME NEW j \in 1 .. n + 1
        PROVE  (IF j > n THEN Nothing ELSE Joined(w[j], g[next[j]]))
                 = IF j > n THEN <<>> ELSE Out(j) \o g[TokenAt(t, j).last + 1]
    BY <1>3 DEF Nothing, Joined
  <2> QED
    BY <1>5, <2>1 DEF Gathers
<1>7. VariablesFrom(t) = CHOOSE f : Is(f)
  BY DEF VariablesFrom
<1>8. PICK F : F = VariablesFrom(t) /\ Is(F)
  <2> HIDE DEF Is
  <2> QED
    BY <1>6, <1>7
<1> QED
  BY <1>8

LEMMA MeaningIs ==
    ASSUME NEW t, NEW bound, NEW n \in Nat, Len(t) = n, NEW i \in 1 .. n + 1
    PROVE  MeaningFrom(t, bound)[i]
             = IF i > n THEN <<>>
               ELSE LET k == TokenAt(t, i)
                        text == SubSeq(t, i, k.last)
                    IN  (IF k.kind = "var" THEN ValueOf(bound, Lower(text)) ELSE text)
                        \o MeaningFrom(t, bound)[k.last + 1]
<1> DEFINE Out(j) == IF TokenAt(t, j).kind = "var"
                     THEN ValueOf(bound, Lower(SubSeq(t, j, TokenAt(t, j).last)))
                     ELSE SubSeq(t, j, TokenAt(t, j).last)
           Is(g) == g = [j \in 1 .. n + 1 |->
                           IF j > n THEN <<>> ELSE Out(j) \o g[TokenAt(t, j).last + 1]]
<1>1. PICK w : w = [j \in 1 .. n |-> Out(j)]
  OBVIOUS
<1>2. PICK next : next = NextToken(t)
  OBVIOUS
<1>3. \A j \in 1 .. n : w[j] = Out(j) /\ next[j] = TokenAt(t, j).last + 1
  BY <1>1, <1>2, NextTokenIs
<1>4. \A j \in 1 .. n : next[j] \in j + 1 .. n + 1
  BY <1>2, NextTokenIs
<1>5. PICK g : Gathers(g, n, w, next)
  BY <1>4, FromTheEnd
<1>6. Is(g)
  <2> HIDE DEF Out
  <2>1. ASSUME NEW j \in 1 .. n + 1
        PROVE  (IF j > n THEN Nothing ELSE Joined(w[j], g[next[j]]))
                 = IF j > n THEN <<>> ELSE Out(j) \o g[TokenAt(t, j).last + 1]
    BY <1>3 DEF Nothing, Joined
  <2> QED
    BY <1>5, <2>1 DEF Gathers
<1>7. MeaningFrom(t, bound) = CHOOSE f : Is(f)
  BY DEF MeaningFrom
<1>8. PICK F : F = MeaningFrom(t, bound) /\ Is(F)
  <2> HIDE DEF Is
  <2> QED
    BY <1>6, <1>7
<1> QED
  BY <1>8

LEMMA PlainIs ==
    ASSUME NEW t, NEW n \in Nat, Len(t) = n, NEW i \in 1 .. n, PlainFrom(t)[i]
    PROVE  PlainToken(t, i) /\ PlainFrom(t)[TokenAt(t, i).last + 1]
<1> DEFINE Is(g) == g = [j \in 1 .. n + 1 |->
                           j <= n => PlainToken(t, j) /\ g[TokenAt(t, j).last + 1]]
<1>1. PICK w : w = [j \in 1 .. n |-> PlainToken(t, j)]
  OBVIOUS
<1>2. PICK next : next = NextToken(t)
  OBVIOUS
<1>3. \A j \in 1 .. n : w[j] = PlainToken(t, j) /\ next[j] = TokenAt(t, j).last + 1
  BY <1>1, <1>2, NextTokenIs
<1>4. \A j \in 1 .. n : next[j] \in j + 1 .. n + 1
  BY <1>2, NextTokenIs
<1>5. PICK g : Agrees(g, n, w, next)
  BY <1>4, AllToTheEnd
<1>6. Is(g)
  <2>1. ASSUME NEW j \in 1 .. n + 1
        PROVE  (j <= n => w[j] /\ g[next[j]])
                 = (j <= n => PlainToken(t, j) /\ g[TokenAt(t, j).last + 1])
    BY <1>3
  <2> QED
    BY <1>5, <2>1 DEF Agrees
<1>7. PlainFrom(t) = CHOOSE f : Is(f)
  BY DEF PlainFrom
<1>8. PICK F : F = PlainFrom(t) /\ Is(F)
  <2> HIDE DEF Is
  <2> QED
    BY <1>6, <1>7
<1>9. F[i] = (i <= n => PlainToken(t, i) /\ F[TokenAt(t, i).last + 1])
  BY <1>8
<1>10. i <= n /\ F[i]
  BY <1>8
<1> QED
  BY <1>8, <1>9, <1>10, Zenon

-----------------------------------------------------------------------------
\* Names in lower case

LEMMA LowerIs ==
    ASSUME NEW t \in Seq(Char)
    PROVE  /\ Lower(t) \in Seq(Char) /\ Len(Lower(t)) = Len(t)
           /\ \A i \in 1 .. Len(t) : Lower(t)[i] = IF t[i] = "A" THEN "a" ELSE t[i]
<1>1. DOMAIN t = 1 .. Len(t) /\ Len(t) \in Nat /\ \A i \in 1 .. Len(t) : t[i] \in Char
  OBVIOUS
<1>2. Lower(t) = [i \in 1 .. Len(t) |-> IF t[i] = "A" THEN "a" ELSE t[i]]
  BY <1>1 DEF Lower
<1>3. Lower(t) \in [1 .. Len(t) -> Char]
  BY <1>1, <1>2 DEF Char, Alnum
<1> QED
  BY <1>1, <1>2, <1>3

LEMMA LowerTwice ==
    ASSUME NEW t \in Seq(Char)
    PROVE  Lower(Lower(t)) = Lower(t)
<1>1. PICK u : u = Lower(t) /\ u \in Seq(Char) /\ Len(u) = Len(t)
               /\ \A i \in 1 .. Len(t) : u[i] = IF t[i] = "A" THEN "a" ELSE t[i]
  BY LowerIs
<1>2. PICK v : v = Lower(u) /\ v \in Seq(Char) /\ Len(v) = Len(t)
               /\ \A i \in 1 .. Len(t) : v[i] = IF u[i] = "A" THEN "a" ELSE u[i]
  BY <1>1, LowerIs
<1>3. \A i \in 1 .. Len(v) : v[i] = u[i]
  BY <1>1, <1>2
<1> QED
  BY <1>1, <1>2, <1>3, SeqEqual

LEMMA LowerJoined ==
    ASSUME NEW s \in Seq(Char), NEW t \in Seq(Char)
    PROVE  Lower(s \o t) = Lower(s) \o Lower(t)
<1>1. PICK a : a = Lower(s) /\ a \in Seq(Char) /\ Len(a) = Len(s)
               /\ \A i \in 1 .. Len(s) : a[i] = IF s[i] = "A" THEN "a" ELSE s[i]
  BY LowerIs
<1>2. PICK b : b = Lower(t) /\ b \in Seq(Char) /\ Len(b) = Len(t)
               /\ \A i \in 1 .. Len(t) : b[i] = IF t[i] = "A" THEN "a" ELSE t[i]
  BY LowerIs
<1>3. PICK u, c, d : u = s \o t /\ c = Lower(u) /\ d = a \o b
  OBVIOUS
<1>4. /\ u \in Seq(Char) /\ Len(u) = Len(s) + Len(t)
      /\ \A i \in 1 .. Len(s) + Len(t) :
           u[i] = IF i <= Len(s) THEN s[i] ELSE t[i - Len(s)]
  BY <1>3, ConcatProperties
<1>5. /\ d \in Seq(Char) /\ Len(d) = Len(a) + Len(b)
      /\ \A i \in 1 .. Len(a) + Len(b) :
           d[i] = IF i <= Len(a) THEN a[i] ELSE b[i - Len(a)]
  <2>1. a \in Seq(Char) /\ b \in Seq(Char) /\ d = a \o b
    BY <1>1, <1>2, <1>3
  <2> QED
    BY <2>1, ConcatProperties
<1>6. /\ c \in Seq(Char) /\ Len(c) = Len(u)
      /\ \A i \in 1 .. Len(u) : c[i] = IF u[i] = "A" THEN "a" ELSE u[i]
  BY <1>3, <1>4, LowerIs
<1>7. ASSUME NEW i \in 1 .. Len(c) PROVE c[i] = d[i]
  <2>1. Len(s) \in Nat /\ Len(t) \in Nat /\ i \in 1 .. Len(s) + Len(t)
    BY <1>4, <1>6
  <2>2. CASE i <= Len(s)
    <3>1. u[i] = s[i] /\ d[i] = a[i] /\ i \in 1 .. Len(s)
      BY <1>1, <1>2, <1>4, <1>5, <2>1, <2>2
    <3> QED
      BY <1>1, <1>6, <3>1
  <2>3. CASE i > Len(s)
    <3>1. PICK j : j = i - Len(s) /\ j \in 1 .. Len(t)
      BY <2>1, <2>3
    <3>2. u[i] = t[j] /\ d[i] = b[j]
      BY <1>1, <1>2, <1>4, <1>5, <2>1, <2>3, <3>1
    <3> QED
      BY <1>2, <1>6, <3>1, <3>2
  <2> QED
    BY <2>1, <2>2, <2>3
<1>8. c = d
  BY <1>1, <1>2, <1>4, <1>5, <1>6, <1>7, SeqEqual
<1> QED
  BY <1>1, <1>2, <1>3, <1>8

-----------------------------------------------------------------------------
\* One character

Variable   == [name : Seq(Char), position : Nat]
ParserType == [mode : {"text", "string", "line", "block", "var"}, skip : BOOLEAN,
               first : Nat, vars : Seq(Variable)]

\* The variable at the characters from p to q.
Var(t, p, q) == [name |-> Lower(SubSeq(t, p, q)), position |-> p]
End(v)       == v.position + Len(v.name) - 1

LEMMA VarIs ==
    ASSUME NEW t \in Seq(Char), NEW p \in 1 .. Len(t), NEW q \in p .. Len(t)
    PROVE  /\ Var(t, p, q) \in Variable /\ Var(t, p, q).position = p
           /\ Var(t, p, q).name = Lower(SubSeq(t, p, q))
           /\ End(Var(t, p, q)) = q /\ Len(Var(t, p, q).name) = q - p + 1
<1>1. PICK n \in Nat : n = Len(t)
  OBVIOUS
<1>2. p \in Nat /\ q \in Nat /\ p <= q /\ \A i \in p .. q : t[i] \in Char
  BY <1>1
<1>3. PICK u : /\ u = SubSeq(t, p, q) /\ u \in Seq(Char) /\ Len(u) = q - p + 1
  <2>1. p \in Int /\ q \in Int
    BY <1>2
  <2> QED
    BY <1>2, <2>1, SubSeqProperties
<1>4. PICK v : v = Lower(u) /\ v \in Seq(Char) /\ Len(v) = q - p + 1
  BY <1>3, LowerIs
<1>5. PICK x : x = Var(t, p, q) /\ x = [name |-> v, position |-> p]
  BY <1>3, <1>4 DEF Var
<1>6. x.name = v /\ x.position = p /\ x \in Variable
  BY <1>2, <1>4, <1>5 DEF Variable
<1>7. End(x) = q
  BY <1>2, <1>4, <1>6 DEF End
<1> QED
  BY <1>3, <1>4, <1>5, <1>6, <1>7

\* What a turn of the loop does to the variables.
Stays(s, r)   == r.vars = s.vars /\ r.mode # "var"
GoesOn(t, i, s, r) ==
    /\ s.mode = "var" /\ r.mode = "var" /\ r.first = s.first /\ ~r.skip
    /\ t[i] \in Alnum /\ i < Len(t) /\ r.vars = s.vars
Begins(t, i, s, r) ==
    /\ r.mode = "var" /\ r.first = i /\ ~r.skip /\ r.vars = s.vars
    /\ t[i] = ":" /\ ~Pair(t, i, ":", ":")
Ends(t, i, s, r) ==
    /\ s.mode = "var" /\ r.mode \in {"string", "text"}
    /\ r.vars = Append(s.vars, Var(t, s.first, IF t[i] \in Alnum THEN i ELSE i - 1))
    /\ t[i] \in Alnum => i = Len(t)

LEMMA StepDoes ==
    ASSUME NEW t \in Seq(Char), NEW i \in 1 .. Len(t), NEW s \in ParserType,
           s.mode = "var" => ~s.skip /\ s.first \in 1 .. i - 1 /\ t[s.first] \notin Alnum,
           NEW r, r = ParseStep(t, s, i)
    PROVE  /\ r \in ParserType
           /\ Stays(s, r) \/ GoesOn(t, i, s, r) \/ Begins(t, i, s, r) \/ Ends(t, i, s, r)
<1>0. i \in Nat /\ Len(t) \in Nat
  OBVIOUS
<1>1. CASE s.skip
  <2>1. r = [s EXCEPT !.skip = FALSE]
    BY <1>1 DEF ParseStep
  <2> QED
    BY <1>1, <2>1 DEF ParserType, Stays
<1>2. CASE ~s.skip /\ s.mode \in {"line", "block"}
  <2>1. r = InComment(t, s, i)
    BY <1>2 DEF ParseStep
  <2> QED
    BY <1>2, <2>1 DEF InComment, ParserType, Stays
<1>3. CASE ~s.skip /\ s.mode = "string"
  <2>1. r = InString(t, s, i)
    BY <1>3 DEF ParseStep
  <2> QED
    BY <1>3, <2>1 DEF InString, ParserType, Stays
<1>4. CASE ~s.skip /\ s.mode = "text"
  <2>1. r = InText(t, s, i)
    BY <1>4 DEF ParseStep
  <2>2. CASE t[i] = ":" /\ ~Pair(t, i, ":", ":")
    <3>1. ~Pair(t, i, "/", "*") /\ ~Pair(t, i, "-", "-") /\ t[i] # "'"
      BY <2>2 DEF Pair
    <3>2. r = [s EXCEPT !.mode = "var", !.first = i]
      BY <2>1, <2>2, <3>1 DEF InText
    <3> QED
      BY <1>0, <1>4, <2>2, <3>2 DEF ParserType, Begins
  <2>3. CASE ~(t[i] = ":" /\ ~Pair(t, i, ":", ":"))
    <3>1. \/ r = [s EXCEPT !.mode = "string"] \/ r = [s EXCEPT !.skip = TRUE]
          \/ r = [s EXCEPT !.mode = "block", !.skip = TRUE]
          \/ r = [s EXCEPT !.mode = "line", !.skip = TRUE] \/ r = s
      BY <2>1, <2>3 DEF InText
    <3> QED
      BY <1>4, <3>1 DEF ParserType, Stays
  <2> QED
    BY <2>2, <2>3
<1>5. CASE ~s.skip /\ s.mode = "var"
  <2>1. r = InVariable(t, s, i)
    BY <1>5 DEF ParseStep
  <2>2. CASE t[i] \in Alnum /\ i < Len(t)
    BY <1>5, <2>1, <2>2 DEF InVariable, GoesOn
  <2>3. CASE ~(t[i] \in Alnum /\ i < Len(t))
    <3>1. PICK last : last = (IF t[i] \in Alnum THEN i ELSE i - 1) /\ last \in s.first .. Len(t)
      BY <1>0, <1>5
    <3>2. PICK v : v = Var(t, s.first, last)
      OBVIOUS
    <3>3. v \in Variable
      <4>1. s.first \in 1 .. Len(t)
        BY <1>0, <1>5
      <4> QED
        BY <3>1, <3>2, <4>1, VarIs
    <3>4. r = [s EXCEPT !.vars = Append(@, v),
                        !.mode = IF t[i] = "'" THEN "string" ELSE "text"]
      BY <2>1, <2>3, <3>1, <3>2 DEF InVariable, Var
    <3>5. r.vars = Append(s.vars, v) /\ r.mode \in {"string", "text"}
          /\ r.skip = s.skip /\ r.first = s.first /\ r \in ParserType
      <4>1. PICK w, m : w = Append(s.vars, v) /\ m = IF t[i] = "'" THEN "string" ELSE "text"
        OBVIOUS
      <4>2. w \in Seq(Variable) /\ m \in {"string", "text"}
        BY <3>3, <4>1 DEF ParserType
      <4>3. r = [s EXCEPT !.vars = w, !.mode = m]
        BY <3>4, <4>1
      <4> QED
        BY <4>1, <4>2, <4>3 DEF ParserType
    <3> QED
      BY <1>0, <1>5, <2>3, <3>1, <3>2, <3>5 DEF Ends
  <2> QED
    BY <2>2, <2>3
<1> QED
  BY <1>1, <1>2, <1>3, <1>4, <1>5 DEF ParserType

-----------------------------------------------------------------------------
\* The variables that the parser finds

\* After i characters: the variables found lie one behind the other in the part read,
\* and one that has begun lies behind them all.
Found(t, s, i) ==
    /\ s \in ParserType
    /\ \A k \in 1 .. Len(s.vars) : \E p, q \in 1 .. i :
            s.vars[k] = Var(t, p, q) /\ p <= q /\ q <= Len(t)
    /\ \A k, l \in 1 .. Len(s.vars) : k < l => End(s.vars[k]) < s.vars[l].position
    /\ s.mode = "var" => /\ ~s.skip /\ s.first \in 1 .. i /\ t[s.first] = ":"
                         /\ \A k \in 1 .. Len(s.vars) : End(s.vars[k]) < s.first

LEMMA FoundStep ==
    ASSUME NEW t \in Seq(Char), NEW i \in 1 .. Len(t), NEW s, Found(t, s, i - 1),
           NEW r, r = ParseStep(t, s, i)
    PROVE  Found(t, r, i)
<1> DEFINE Lies(vars, j) == \A k \in 1 .. Len(vars) : \E p, q \in 1 .. j :
                              vars[k] = Var(t, p, q) /\ p <= q /\ q <= Len(t)
           Follows(vars) == \A k, l \in 1 .. Len(vars) : k < l => End(vars[k]) < vars[l].position
           Before(vars, j) == \A k \in 1 .. Len(vars) : End(vars[k]) < j
<1>1. i \in Nat /\ Len(t) \in Nat /\ s \in ParserType /\ Lies(s.vars, i - 1) /\ Follows(s.vars)
  <2>1. i \in Nat /\ Len(t) \in Nat
    OBVIOUS
  <2>2. s \in ParserType /\ Lies(s.vars, i - 1) /\ Follows(s.vars)
    BY Zenon DEF Found
  <2> QED
    BY <2>1, <2>2
<1>2. s.mode = "var" => /\ ~s.skip /\ s.first \in 1 .. i - 1 /\ t[s.first] = ":"
                        /\ Before(s.vars, s.first)
  BY DEF Found
<1>3. ":" \notin Alnum
  BY DEF Alnum
<1>4. /\ r \in ParserType
      /\ Stays(s, r) \/ GoesOn(t, i, s, r) \/ Begins(t, i, s, r) \/ Ends(t, i, s, r)
  BY <1>1, <1>2, <1>3, StepDoes
<1>5. PICK n : n = Len(s.vars) /\ n \in Nat /\ s.vars \in Seq(Variable)
  BY <1>1 DEF ParserType
<1>6. Lies(s.vars, i)
  <2>1. ASSUME NEW k \in 1 .. Len(s.vars)
        PROVE  \E p, q \in 1 .. i : s.vars[k] = Var(t, p, q) /\ p <= q /\ q <= Len(t)
    <3>1. PICK p, q \in 1 .. i - 1 : s.vars[k] = Var(t, p, q) /\ p <= q /\ q <= Len(t)
      BY <1>1, <2>1
    <3>2. p \in 1 .. i /\ q \in 1 .. i
      BY <1>1, <3>1
    <3> QED
      BY <3>1, <3>2
  <2> QED
    BY <2>1
<1>7. Before(s.vars, i)
  <2>1. ASSUME NEW k \in 1 .. n PROVE End(s.vars[k]) < i
    <3>1. PICK p, q \in 1 .. i - 1 : s.vars[k] = Var(t, p, q) /\ p <= q /\ q <= Len(t)
      BY <1>1, <1>5, <2>1
    <3>2. p \in 1 .. Len(t) /\ q \in p .. Len(t)
      BY <1>1, <3>1
    <3>3. End(s.vars[k]) = q
      BY <3>1, <3>2, VarIs
    <3> QED
      BY <1>1, <3>1, <3>3
  <2> QED
    BY <1>5, <2>1
<1>8. CASE r.vars = s.vars
  <2>1. Lies(r.vars, i) /\ Follows(r.vars)
    BY <1>1, <1>6, <1>8
  <2>2. ASSUME r.mode = "var" 
        PROVE  ~r.skip /\ r.first \in 1 .. i /\ t[r.first] = ":" /\ Before(r.vars, r.first)
    <3>1. CASE GoesOn(t, i, s, r)
      BY <1>1, <1>2, <1>8, <3>1 DEF GoesOn
    <3>2. CASE Begins(t, i, s, r)
      BY <1>1, <1>7, <1>8, <3>2 DEF Begins
    <3> QED
      BY <1>4, <2>2, <3>1, <3>2 DEF Stays, Ends
  <2> QED
    BY <1>4, <2>1, <2>2 DEF Found
<1>9. CASE Ends(t, i, s, r)
  <2>1. PICK q : q = IF t[i] \in Alnum THEN i ELSE i - 1
    OBVIOUS
  <2>2. /\ s.mode = "var" /\ r.mode # "var"
        /\ q \in s.first .. i /\ s.first \in 1 .. Len(t) /\ q <= Len(t)
    BY <1>1, <1>2, <1>9, <2>1 DEF Ends
  <2>3. PICK v : v = Var(t, s.first, q)
    OBVIOUS
  <2>4. v \in Variable /\ v.position = s.first /\ End(v) = q
    <3>1. q \in s.first .. Len(t)
      BY <1>1, <2>2
    <3> QED
      BY <2>2, <2>3, <3>1, VarIs
  <2>5. PICK w : w = r.vars /\ w = Append(s.vars, v)
    BY <1>9, <2>1, <2>3 DEF Ends
  <2>6. Len(w) = n + 1 /\ w[n + 1] = v /\ \A k \in 1 .. n : w[k] = s.vars[k]
    BY <1>5, <2>4, <2>5
  <2>7. Lies(w, i)
    <3>1. ASSUME NEW k \in 1 .. Len(w)
          PROVE  \E p, e \in 1 .. i : w[k] = Var(t, p, e) /\ p <= e /\ e <= Len(t)
      <4>1. CASE k = n + 1
        <5>1. s.first \in 1 .. i /\ q \in 1 .. i /\ s.first <= q
          BY <1>1, <1>2, <2>2
        <5> QED
          BY <2>2, <2>3, <2>6, <4>1, <5>1
      <4>2. CASE k \in 1 .. n
        BY <1>5, <1>6, <2>6, <4>2
      <4> QED
        BY <1>5, <2>6, <4>1, <4>2
    <3> QED
      BY <3>1
  <2>8. Follows(w)
    <3>1. ASSUME NEW k \in 1 .. n + 1, NEW l \in 1 .. n + 1, k < l
          PROVE  End(w[k]) < w[l].position
      <4>1. CASE l = n + 1
        <5>1. k \in 1 .. n /\ w[k] = s.vars[k] /\ w[l].position = s.first
          BY <1>5, <2>4, <2>6, <3>1, <4>1
        <5> QED
          BY <1>2, <1>5, <2>2, <5>1
      <4>2. CASE l \in 1 .. n
        <5>1. k \in 1 .. n /\ w[k] = s.vars[k] /\ w[l] = s.vars[l]
          BY <1>5, <2>6, <3>1, <4>2
        <5> QED
          BY <1>1, <1>5, <3>1, <4>2, <5>1
      <4> QED
        BY <1>5, <4>1, <4>2
    <3> QED
      BY <2>6, <3>1
  <2> QED
    BY <1>4, <2>2, <2>5, <2>7, <2>8 DEF Found
<1> QED
  BY <1>4, <1>8, <1>9 DEF Stays, GoesOn, Begins

\* Whatever the text, the parser reads it to its end.
LEMMA AllFound ==
    ASSUME NEW t \in Seq(Char), NEW i \in 0 .. Len(t)
    PROVE  Found(t, Parsing(t)[i], i)
<1>1. PICK n \in Nat : n = Len(t)
  OBVIOUS
<1>2. PICK S : S = {j \in 0 .. n : Found(t, Parsing(t)[j], j)}
  OBVIOUS
<1>3. 0 \in S
  <2>1. Parsing(t)[0] = ParserStart
    BY <1>1, ParsingIs
  <2>2. ParserStart \in ParserType /\ ParserStart.vars = <<>> /\ ParserStart.mode = "text"
    BY DEF ParserStart, ParserType
  <2> QED
    BY <1>1, <1>2, <2>1, <2>2 DEF Found
<1>4. ASSUME NEW j \in 0 .. n - 1, j \in S PROVE j + 1 \in S
  <2>1. PICK m : m = j + 1 /\ m \in 1 .. n /\ m - 1 = j
    BY <1>1
  <2>2. Parsing(t)[m] = ParseStep(t, Parsing(t)[j], m)
    BY <1>1, <2>1, ParsingIs
  <2>3. Found(t, Parsing(t)[j], m - 1)
    BY <1>2, <1>4, <2>1
  <2>4. Found(t, Parsing(t)[m], m)
    BY <1>1, <2>1, <2>2, <2>3, FoundStep
  <2> QED
    BY <1>2, <2>1, <2>4
<1>5. 0 .. n \subseteq S
  BY <1>3, <1>4, UpTo
<1> QED
  BY <1>1, <1>2, <1>5

-----------------------------------------------------------------------------
\* The values put in

\* Variables as the parser gives them.
Ordered(t, vars) ==
    /\ vars \in Seq(Variable)
    /\ \A k \in 1 .. Len(vars) : \E p, q \in 1 .. Len(t) : vars[k] = Var(t, p, q) /\ p <= q
    /\ \A k, l \in 1 .. Len(vars) : k < l => End(vars[k]) < vars[l].position

LEMMA ParsedOrdered ==
    ASSUME NEW t \in Seq(Char)
    PROVE  Ordered(t, ParseTemplate(t))
<1>1. PICK n, s : n = Len(t) /\ n \in Nat /\ s = Parsing(t)[n]
  OBVIOUS
<1>2. Found(t, s, n)
  BY <1>1, AllFound
<1>3. s.vars \in Seq(Variable)
  BY <1>2 DEF Found, ParserType
<1> QED
  BY <1>1, <1>2, <1>3 DEF Found, Ordered, ParseTemplate

Bound(bound) == \A name \in DOMAIN bound : bound[name] \in Seq(Char)

LEMMA ValueTyped ==
    ASSUME NEW bound, Bound(bound), NEW name
    PROVE  ValueOf(bound, name) \in Seq(Char)
BY DEF ValueOf, Bound

LEMMA PartTyped ==
    ASSUME NEW t \in Seq(Char), NEW a \in 1 .. Len(t) + 1, NEW b \in 0 .. Len(t)
    PROVE  SubSeq(t, a, b) \in Seq(Char)
<1>1. a \in Int /\ b \in Int /\ \A i \in a .. b : t[i] \in Char
  <2>1. Len(t) \in Nat
    OBVIOUS
  <2> QED
    BY <2>1
<1> QED
  BY <1>1, SubSeqProperties

\* How far the text is when the first k variables have their values.
Shift(vars, k) == IF k = 0 THEN 0 ELSE End(vars[k])

\* The k-th variable stands at the characters from p to q.
Stands(t, vars, k, p, q) ==
    /\ vars[k] = Var(t, p, q) /\ p <= q
    /\ vars[k].position = p /\ Shift(vars, k) = q
    /\ vars[k].name = Lower(SubSeq(t, p, q))

LEMMA ShiftIs ==
    ASSUME NEW t \in Seq(Char), NEW vars, Ordered(t, vars), NEW k \in 1 .. Len(vars)
    PROVE  /\ \E p, q \in 1 .. Len(t) : Stands(t, vars, k, p, q)
           /\ Shift(vars, k) \in 1 .. Len(t) /\ Shift(vars, k - 1) \in 0 .. Len(t)
           /\ vars[k].position \in 1 .. Len(t) /\ Shift(vars, k - 1) < vars[k].position
<1>1. PICK n \in Nat : n = Len(vars) /\ k \in 1 .. n /\ Len(t) \in Nat
  BY DEF Ordered
<1>2. \A l \in 1 .. n : \E p, q \in 1 .. Len(t) : Stands(t, vars, l, p, q)
  <2>1. ASSUME NEW l \in 1 .. n
        PROVE  \E p, q \in 1 .. Len(t) : Stands(t, vars, l, p, q)
    <3>1. PICK p, q \in 1 .. Len(t) : vars[l] = Var(t, p, q) /\ p <= q
      BY <1>1, <2>1 DEF Ordered
    <3>2. q \in p .. Len(t)
      BY <1>1, <3>1
    <3>3. vars[l].position = p /\ End(vars[l]) = q /\ vars[l].name = Lower(SubSeq(t, p, q))
      BY <3>1, <3>2, VarIs
    <3>4. Shift(vars, l) = q
      BY <1>1, <3>3 DEF Shift
    <3> QED
      BY <3>1, <3>3, <3>4 DEF Stands
  <2> QED
    BY <2>1
<1>3. \A l \in 1 .. n : Shift(vars, l) \in 1 .. Len(t) /\ vars[l].position \in 1 .. Len(t)
  BY <1>2 DEF Stands
<1>4. CASE k = 1
  <2>1. k - 1 = 0 /\ Shift(vars, 0) = 0
    BY <1>4 DEF Shift
  <2> QED
    BY <1>1, <1>2, <1>3, <2>1
<1>5. CASE k > 1
  <2>1. PICK l : l = k - 1 /\ l \in 1 .. n /\ l < k
    BY <1>1, <1>5
  <2>2. Shift(vars, l) \in 1 .. Len(t) /\ Shift(vars, l) = End(vars[l])
    <3>1. Shift(vars, l) \in 1 .. Len(t)
      BY <1>1, <1>3, <2>1
    <3>2. l # 0
      BY <2>1
    <3> QED
      BY <3>1, <3>2 DEF Shift
  <2>3. End(vars[l]) < vars[k].position
    BY <1>1, <2>1 DEF Ordered
  <2> QED
    BY <1>1, <1>2, <1>3, <2>1, <2>2, <2>3
<1> QED
  BY <1>1, <1>4, <1>5

Puts(t, bound, vars, P, k) ==
    P[k].sql = (P[k - 1].sql \o SubSeq(t, Shift(vars, k - 1) + 1, vars[k].position - 1))
                 \o ValueOf(bound, vars[k].name)

LEMMA PutDoes ==
    ASSUME NEW t \in Seq(Char), NEW bound, Bound(bound), NEW vars, Ordered(t, vars),
           NEW k \in 0 .. Len(vars), NEW P, P = PuttingValues(t, bound, vars)
    PROVE  /\ P[k].sql \in Seq(Char) /\ P[k].shift = Shift(vars, k)
           /\ Shift(vars, k) \in 0 .. Len(t)
           /\ k = 0 => P[k].sql = <<>>
           /\ k > 0 => Puts(t, bound, vars, P, k)
<1>1. PICK n \in Nat : n = Len(vars) /\ Len(t) \in Nat
  BY DEF Ordered
<1>2. P = [j \in 0 .. n |-> IF j = 0 THEN [sql |-> <<>>, shift |-> 0]
                            ELSE PutValue(t, bound, P[j - 1], vars[j])]
  BY <1>1, PuttingIs
<1>3. P[0].sql = <<>> /\ P[0].shift = 0
  BY <1>1, <1>2
<1>4. ASSUME NEW j \in 1 .. n
      PROVE  /\ P[j].sql = (P[j - 1].sql \o SubSeq(t, P[j - 1].shift + 1, vars[j].position - 1))
                             \o ValueOf(bound, vars[j].name)
             /\ P[j].shift = End(vars[j])
  <2>1. P[j] = PutValue(t, bound, P[j - 1], vars[j])
    BY <1>1, <1>2, <1>4
  <2>2. PICK a, v : a = P[j - 1] /\ v = vars[j]
    OBVIOUS
  <2>3. PICK x : x = (a.sql \o SubSeq(t, a.shift + 1, v.position - 1)) \o ValueOf(bound, v.name)
    OBVIOUS
  <2>4. P[j] = [sql |-> x, shift |-> End(v)]
    BY <2>1, <2>2, <2>3 DEF PutValue, End
  <2>5. P[j].sql = x /\ P[j].shift = End(v)
    BY <2>4
  <2> QED
    BY <2>2, <2>3, <2>5
<1>5. ASSUME NEW j \in 0 .. n PROVE P[j].shift = Shift(vars, j)
  BY <1>1, <1>3, <1>4, <1>5 DEF Shift
<1>6. PICK S : S = {j \in 0 .. n : P[j].sql \in Seq(Char)}
  OBVIOUS
<1>7. 0 \in S
  <2>1. <<>> \in Seq(Char)
    OBVIOUS
  <2>2. P[0].sql \in Seq(Char)
    BY <1>3, <2>1
  <2>3. 0 \in 0 .. n
    OBVIOUS
  <2> QED
    BY <1>6, <2>2, <2>3
<1>8. ASSUME NEW i \in 0 .. n - 1, i \in S PROVE i + 1 \in S
  <2>1. PICK j : j = i + 1 /\ j \in 1 .. n /\ j - 1 = i
    BY <1>1
  <2>2. PICK p \in 1 .. Len(t) : p = vars[j].position /\ P[i].shift \in 0 .. Len(t)
    <3>1. j \in 1 .. Len(vars)
      BY <1>1, <2>1
    <3>2. Shift(vars, i) \in 0 .. Len(t) /\ vars[j].position \in 1 .. Len(t)
      <4>1. Shift(vars, j - 1) \in 0 .. Len(t) /\ vars[j].position \in 1 .. Len(t)
        BY <3>1, ShiftIs
      <4> QED
        BY <2>1, <4>1
    <3>3. P[i].shift = Shift(vars, i)
      BY <1>5, <1>8
    <3> QED
      BY <3>2, <3>3
  <2>3. PICK part : part = SubSeq(t, P[i].shift + 1, p - 1) /\ part \in Seq(Char)
    <3>1. P[i].shift + 1 \in 1 .. Len(t) + 1 /\ p - 1 \in 0 .. Len(t)
      BY <1>1, <2>2
    <3> QED
      BY <3>1, PartTyped
  <2>4. PICK value : value = ValueOf(bound, vars[j].name) /\ value \in Seq(Char)
    BY ValueTyped
  <2>5. P[j].sql = (P[i].sql \o part) \o value
    BY <1>4, <2>1, <2>2, <2>3, <2>4
  <2>6. P[i].sql \in Seq(Char)
    BY <1>6, <1>8
  <2>7. P[j].sql \in Seq(Char)
    BY <2>3, <2>4, <2>5, <2>6
  <2> QED
    BY <1>6, <2>1, <2>7
<1>9. 0 .. n \subseteq S
  BY <1>7, <1>8, UpTo
<1>10. k > 0 => Puts(t, bound, vars, P, k)
  <2>1. CASE k > 0
    <3>1. k \in 1 .. n /\ k - 1 \in 0 .. n
      BY <1>1, <2>1
    <3> QED
      BY <1>4, <1>5, <3>1 DEF Puts
  <2> QED
    BY <2>1
<1>11. Shift(vars, k) \in 0 .. Len(t)
  <2>1. CASE k = 0
    BY <1>1, <2>1 DEF Shift
  <2>2. CASE k > 0
    BY <1>1, <2>2, ShiftIs
  <2> QED
    BY <1>1, <2>1, <2>2
<1> QED
  BY <1>1, <1>3, <1>5, <1>6, <1>9, <1>10, <1>11

\* A text is made, whatever is bound.
LEMMA CalculateTyped ==
    ASSUME NEW t \in Seq(Char), NEW bound, Bound(bound)
    PROVE  Calculate(t, bound) \in Seq(Char)
<1>1. PICK vars, n : vars = ParseTemplate(t) /\ n = Len(vars) /\ n \in Nat /\ Ordered(t, vars)
  BY ParsedOrdered DEF Ordered
<1>2. PICK P : P = PuttingValues(t, bound, vars)
  OBVIOUS
<1>3. P[n].sql \in Seq(Char) /\ P[n].shift \in 0 .. Len(t)
  BY <1>1, <1>2, PutDoes
<1>4. SubSeq(t, P[n].shift + 1, Len(t)) \in Seq(Char)
  <2>1. P[n].shift + 1 \in 1 .. Len(t) + 1 /\ Len(t) \in 0 .. Len(t)
    BY <1>3
  <2> QED
    BY <2>1, PartTyped
<1>5. Calculate(t, bound) = P[n].sql \o SubSeq(t, P[n].shift + 1, Len(t))
  BY <1>1, <1>2 DEF Calculate
<1> QED
  BY <1>3, <1>4, <1>5

-----------------------------------------------------------------------------
\* Nothing is lost

\* Two parts of a text that lie side by side.
LEMMA SideBySide ==
    ASSUME NEW t \in Seq(Char), NEW a \in 1 .. Len(t) + 1, NEW b \in 0 .. Len(t),
           NEW c \in 0 .. Len(t), a <= b + 1, b <= c
    PROVE  SubSeq(t, a, b) \o SubSeq(t, b + 1, c) = SubSeq(t, a, c)
<1>1. Len(t) \in Nat /\ b \in a - 1 .. Len(t) /\ c \in b .. Len(t)
  OBVIOUS
<1> QED
  BY <1>1, ConcatAdjacentSubSeq

LEMMA EveryCharacterStays ==
    ASSUME NEW t \in Seq(Char), NEW names,
           names = {ParseTemplate(t)[i].name : i \in DOMAIN ParseTemplate(t)}
    PROVE  Lower(Calculate(t, [n \in names |-> n])) = Lower(t)
<1>1. PICK vars, n : vars = ParseTemplate(t) /\ n = Len(vars) /\ n \in Nat /\ Ordered(t, vars)
  BY ParsedOrdered DEF Ordered
<1>2. PICK m \in Nat : m = Len(t)
  OBVIOUS
<1>3. names = {vars[i].name : i \in 1 .. n}
  BY <1>1 DEF Ordered
<1>4. PICK bound : bound = [x \in names |-> x]
  OBVIOUS
<1>5. ASSUME NEW i \in 1 .. n PROVE vars[i].name \in names /\ vars[i].name \in Seq(Char)
  <2>1. vars[i] \in Variable
    BY <1>1 DEF Ordered
  <2> QED
    BY <1>3, <2>1 DEF Variable
<1>6. Bound(bound)
  BY <1>3, <1>4, <1>5 DEF Bound
<1>7. \A i \in 1 .. n : ValueOf(bound, vars[i].name) = vars[i].name
  BY <1>4, <1>5 DEF ValueOf
<1>8. PICK P : P = PuttingValues(t, bound, vars)
  OBVIOUS
<1>9. PICK S : S = {k \in 0 .. n : Lower(P[k].sql) = Lower(SubSeq(t, 1, Shift(vars, k)))}
  OBVIOUS
<1>10. 0 \in S
  <2>1. P[0].sql = <<>> /\ Shift(vars, 0) = 0
    BY <1>1, <1>6, <1>8, PutDoes DEF Shift
  <2>2. SubSeq(t, 1, 0) = <<>>
    BY SubSeqEmpty
  <2>3. Lower(P[0].sql) = Lower(SubSeq(t, 1, Shift(vars, 0)))
    BY <2>1, <2>2, Zenon
  <2>4. 0 \in 0 .. n
    BY <1>1
  <2> QED
    BY <1>9, <2>3, <2>4
<1>11. ASSUME NEW i \in 0 .. n - 1, i \in S PROVE i + 1 \in S
  <2>1. PICK k : k = i + 1 /\ k \in 1 .. n /\ k - 1 = i
    BY <1>1
  <2>2. PICK p, q \in 1 .. m : /\ p <= q /\ vars[k].position = p /\ Shift(vars, k) = q
                               /\ vars[k].name = Lower(SubSeq(t, p, q))
    <3>1. k \in 1 .. Len(vars)
      BY <1>1, <2>1
    <3>2. \E p, q \in 1 .. Len(t) : Stands(t, vars, k, p, q)
      BY <1>1, <3>1, ShiftIs
    <3> QED
      BY <1>2, <3>2 DEF Stands
  <2>3. PICK h : h = Shift(vars, i) /\ h \in 0 .. m /\ h < p
    BY <1>1, <1>2, <2>1, <2>2, ShiftIs
  <2>4. PICK a, b, c, d : /\ a = P[i].sql /\ b = SubSeq(t, h + 1, p - 1)
                          /\ c = SubSeq(t, p, q) /\ d = SubSeq(t, 1, h)
    OBVIOUS
  <2>5. a \in Seq(Char) /\ P[k].sql = (a \o b) \o Lower(c)
    <3>1. /\ P[i].sql \in Seq(Char)
          /\ P[k].sql = (P[i].sql \o SubSeq(t, Shift(vars, i) + 1, vars[k].position - 1))
                          \o ValueOf(bound, vars[k].name)
      <4>1. i \in 0 .. Len(vars) /\ k \in 0 .. Len(vars) /\ k > 0
        BY <1>1, <2>1
      <4>2. P[i].sql \in Seq(Char)
        BY <1>1, <1>6, <1>8, <4>1, PutDoes
      <4>3. P[k].sql = (P[k - 1].sql \o SubSeq(t, Shift(vars, k - 1) + 1, vars[k].position - 1))
                         \o ValueOf(bound, vars[k].name)
        <5>1. Puts(t, bound, vars, P, k)
          BY <1>1, <1>6, <1>8, <4>1, PutDoes
        <5> QED
          BY <5>1 DEF Puts
      <4> QED
        BY <2>1, <4>2, <4>3
    <3> QED
      BY <1>7, <2>1, <2>2, <2>3, <2>4, <3>1
  <2>6. b \in Seq(Char) /\ c \in Seq(Char) /\ d \in Seq(Char)
    <3>1. /\ h + 1 \in 1 .. m + 1 /\ p - 1 \in 0 .. m /\ p \in 1 .. m + 1 /\ q \in 0 .. m
          /\ 1 \in 1 .. m + 1 /\ h \in 0 .. m
      BY <2>2, <2>3
    <3> QED
      BY <1>2, <2>4, <3>1, PartTyped
  <2>7. Lower(a) = Lower(d)
    BY <1>9, <1>11, <2>3, <2>4
  <2>8. Lower(c) \in Seq(Char) /\ Lower(Lower(c)) = Lower(c)
    BY <2>6, LowerIs, LowerTwice
  <2>9. Lower((a \o b) \o Lower(c)) = Lower((d \o b) \o c)
    <3>1. a \o b \in Seq(Char) /\ d \o b \in Seq(Char)
      BY <2>5, <2>6
    <3>2. Lower((a \o b) \o Lower(c)) = Lower(a \o b) \o Lower(c)
      BY <2>8, <3>1, LowerJoined
    <3>3. Lower((d \o b) \o c) = Lower(d \o b) \o Lower(c)
      BY <2>6, <3>1, LowerJoined
    <3>4. Lower(a \o b) = Lower(a) \o Lower(b) /\ Lower(d \o b) = Lower(d) \o Lower(b)
      BY <2>5, <2>6, LowerJoined
    <3> QED
      BY <2>7, <3>2, <3>3, <3>4
  <2>10. d \o b = SubSeq(t, 1, p - 1)
    <3>1. h \in 0 .. m /\ p - 1 \in 0 .. m /\ 1 <= h + 1 /\ h <= p - 1 /\ 1 \in 1 .. m + 1
      BY <2>2, <2>3
    <3> QED
      BY <1>2, <2>4, <3>1, SideBySide
  <2>11. SubSeq(t, 1, p - 1) \o c = SubSeq(t, 1, q)
    <3>1. PICK l : l = p - 1
      OBVIOUS
    <3>2. l \in 0 .. m /\ q \in 0 .. m /\ 1 <= l + 1 /\ l <= q /\ 1 \in 1 .. m + 1 /\ p = l + 1
      BY <2>2, <3>1
    <3> QED
      BY <1>2, <2>4, <3>1, <3>2, SideBySide
  <2>12. Lower(P[k].sql) = Lower(SubSeq(t, 1, Shift(vars, k)))
    BY <2>2, <2>5, <2>9, <2>10, <2>11
  <2> QED
    BY <1>9, <2>1, <2>12
<1>12. n \in S
  <2>1. 0 .. n \subseteq S
    BY <1>1, <1>10, <1>11, UpTo
  <2> QED
    BY <1>1, <2>1
<1>13. PICK h : h = Shift(vars, n) /\ h = P[n].shift /\ h \in 0 .. m /\ P[n].sql \in Seq(Char)
  BY <1>1, <1>2, <1>6, <1>8, PutDoes
<1>14. PICK a, b, c : a = P[n].sql /\ b = SubSeq(t, 1, h) /\ c = SubSeq(t, h + 1, m)
  OBVIOUS
<1>15. a \in Seq(Char) /\ b \in Seq(Char) /\ c \in Seq(Char) /\ b \o c = t
  <2>1. /\ h + 1 \in 1 .. m + 1 /\ m \in 0 .. m /\ 1 \in 1 .. m + 1 /\ h \in 0 .. m
        /\ 1 <= h + 1 /\ h <= m
    BY <1>2, <1>13
  <2>2. b \in Seq(Char) /\ c \in Seq(Char)
    BY <1>2, <1>14, <2>1, PartTyped
  <2>3. b \o c = SubSeq(t, 1, m)
    BY <1>2, <1>14, <2>1, SideBySide
  <2> QED
    BY <1>2, <1>13, <1>14, <2>2, <2>3, SubSeqFull
<1>16. Lower(a \o c) = Lower(b \o c)
  <2>1. Lower(a) = Lower(b)
    BY <1>9, <1>12, <1>13, <1>14
  <2>2. Lower(a \o c) = Lower(a) \o Lower(c)
    BY <1>15, LowerJoined
  <2>3. Lower(b \o c) = Lower(b) \o Lower(c)
    BY <1>15, LowerJoined
  <2> QED
    BY <2>1, <2>2, <2>3
<1>17. Calculate(t, bound) = a \o c
  BY <1>1, <1>2, <1>8, <1>13, <1>14 DEF Calculate
<1> QED
  BY <1>4, <1>15, <1>16, <1>17

-----------------------------------------------------------------------------
\* Trimming

LEMMA LastIs ==
    ASSUME NEW n \in Nat, NEW T, T \subseteq 1 .. n, T # {}
    PROVE  LastOf(T) \in T /\ \A k \in T : LastOf(T) >= k
<1>1. PICK U : U = {n - k : k \in T}
  OBVIOUS
<1>2. U \subseteq Nat /\ U # {}
  <2>1. ASSUME NEW k \in T PROVE n - k \in Nat
    OBVIOUS
  <2> QED
    BY <1>1, <2>1
<1>3. PICK u \in U : \A k \in U : u <= k
  BY <1>2, LeastNumber
<1>4. PICK m \in T : u = n - m
  BY <1>1, <1>3
<1>5. \A k \in T : m >= k
  <2>1. ASSUME NEW k \in T PROVE m >= k
    <3>1. n - k \in U /\ u <= n - k
      BY <1>1, <1>3
    <3> QED
      BY <1>4, <3>1
  <2> QED
    BY <2>1
<1> QED
  BY <1>5 DEF LastOf

LEMMA TrimIs ==
    ASSUME NEW t \in Seq(Char)
    PROVE  Trim(t) \in Seq(Char)
<1>1. PICK n : n = Len(t) /\ n \in Nat
  OBVIOUS
<1>0. PICK solid : solid = {i \in 1 .. n : t[i] \notin Space}
  OBVIOUS
<1>2. Trim(t) = IF solid = {} THEN <<>> ELSE SubSeq(t, FirstOf(solid), LastOf(solid))
  <2>1. DOMAIN t = 1 .. n
    BY <1>1
  <2> QED
    BY <1>0, <2>1, Zenon DEF Trim
<1>3. CASE solid # {}
  <2>1. FirstOf(solid) \in solid /\ LastOf(solid) \in solid
    <3>1. solid \subseteq 1 .. n /\ solid \subseteq Nat
      BY <1>0, <1>1
    <3> QED
      BY <1>0, <1>1, <1>3, <3>1, FirstIs, LastIs
  <2>2. FirstOf(solid) \in 1 .. n + 1 /\ LastOf(solid) \in 0 .. n
    BY <1>0, <1>1, <2>1
  <2> QED
    BY <1>1, <1>2, <1>3, <2>2, PartTyped
<1> QED
  BY <1>2, <1>3

-----------------------------------------------------------------------------
\* What a turn of the loop does, by the mode of the parser

LEMMA FromTo ==
    ASSUME NEW a \in Nat, NEW b \in Nat, a <= b, NEW S, a \in S,
           \A j \in a .. b - 1 : j \in S => j + 1 \in S
    PROVE  \A j \in a .. b : j \in S
<1>1. PICK n \in Nat : n = b - a
  OBVIOUS
<1>2. PICK T : T = {d \in 0 .. n : a + d \in S}
  OBVIOUS
<1>3. 0 \in T
  BY <1>1, <1>2
<1>4. ASSUME NEW d \in 0 .. n - 1, d \in T PROVE d + 1 \in T
  <2>1. PICK j : j = a + d /\ j \in a .. b - 1 /\ j \in S /\ j + 1 = a + (d + 1)
    BY <1>1, <1>2, <1>4
  <2>2. j + 1 \in S
    BY <2>1
  <2> QED
    BY <1>1, <1>2, <2>1, <2>2
<1>5. 0 .. n \subseteq T
  BY <1>3, <1>4, UpTo
<1>6. ASSUME NEW j \in a .. b PROVE j \in S
  <2>1. j - a \in 0 .. n /\ a + (j - a) = j
    BY <1>1
  <2> QED
    BY <1>2, <1>5, <2>1
<1> QED
  BY <1>6

LEMMA Turn ==
    ASSUME NEW t \in Seq(Char), NEW i \in 1 .. Len(t)
    PROVE  /\ Parsing(t)[i] = ParseStep(t, Parsing(t)[i - 1], i)
           /\ Parsing(t)[i - 1] \in ParserType /\ Parsing(t)[i] \in ParserType
<1>1. PICK n \in Nat : n = Len(t) /\ i \in 0 .. n /\ i - 1 \in 0 .. n /\ i # 0
  OBVIOUS
<1>2. Parsing(t)[i] = ParseStep(t, Parsing(t)[i - 1], i)
  BY <1>1, ParsingIs
<1>3. Found(t, Parsing(t)[i], i) /\ Found(t, Parsing(t)[i - 1], i - 1)
  BY <1>1, AllFound
<1> QED
  BY <1>2, <1>3 DEF Found

\* The parser is in this mode, with nothing to skip and these variables.
In(s, mode, vars) == s.mode = mode /\ ~s.skip /\ s.vars = vars

LEMMA SkipTurn ==
    ASSUME NEW t, NEW i, NEW s \in ParserType, s.skip, NEW r, r = ParseStep(t, s, i)
    PROVE  In(r, s.mode, s.vars)
<1>1. r = [s EXCEPT !.skip = FALSE]
  BY DEF ParseStep
<1> QED
  BY <1>1 DEF ParserType, In

LEMMA StringTurn ==
    ASSUME NEW t, NEW i, NEW s \in ParserType, NEW v, In(s, "string", v),
           NEW r, r = ParseStep(t, s, i)
    PROVE  /\ t[i] # "'" => In(r, "string", v)
           /\ Pair(t, i, "'", "'") => r.mode = "string" /\ r.skip /\ r.vars = v
           /\ t[i] = "'" /\ ~Pair(t, i, "'", "'") => In(r, "text", v)
<1>1. r = InString(t, s, i)
  BY DEF ParseStep, In
<1> QED
  BY <1>1 DEF InString, ParserType, In, Pair

LEMMA CommentTurn ==
    ASSUME NEW t, NEW i, NEW s \in ParserType, NEW v, NEW mode \in {"line", "block"},
           In(s, mode, v), NEW r, r = ParseStep(t, s, i)
    PROVE  /\ Pair(t, i, "*", "/") => r.mode = "text" /\ r.skip /\ r.vars = v
           /\ mode = "line" /\ t[i] = "\n" => In(r, "text", v)
           /\ /\ ~Pair(t, i, "*", "/") /\ ~(mode = "line" /\ t[i] = "\n")
              /\ ~(t[i] = "*" /\ i = Len(t))
              => In(r, mode, v)
           /\ r.vars = v /\ r.mode # "var"
<1>1. r = InComment(t, s, i)
  BY DEF ParseStep, In
<1> QED
  BY <1>1 DEF InComment, ParserType, In, Pair

LEMMA VariableTurn ==
    ASSUME NEW t \in Seq(Char), NEW i \in 1 .. Len(t),
           NEW s \in ParserType, s.mode = "var", ~s.skip,
           s.first \in 1 .. i - 1, NEW r, r = ParseStep(t, s, i)
    PROVE  /\ t[i] \in Alnum /\ i < Len(t) => In(r, "var", s.vars) /\ r.first = s.first
           /\ t[i] \in Alnum /\ i = Len(t) => In(r, "text", Append(s.vars, Var(t, s.first, i)))
           /\ t[i] = "'" => In(r, "string", Append(s.vars, Var(t, s.first, i - 1)))
           /\ t[i] \notin Alnum \cup {"'"} => In(r, "text", Append(s.vars, Var(t, s.first, i - 1)))
<1>0. i \in Nat /\ Len(t) \in Nat /\ "'" \notin Alnum
  BY DEF Alnum
<1>1. r = InVariable(t, s, i)
  BY DEF ParseStep
<1>2. CASE t[i] \in Alnum /\ i < Len(t)
  BY <1>0, <1>1, <1>2 DEF InVariable, In
<1>3. CASE ~(t[i] \in Alnum /\ i < Len(t))
  <2>1. PICK last, v, m : /\ last = (IF t[i] \in Alnum THEN i ELSE i - 1)
                          /\ v = Var(t, s.first, last)
                          /\ m = IF t[i] = "'" THEN "string" ELSE "text"
    OBVIOUS
  <2>2. r = [s EXCEPT !.vars = Append(@, v), !.mode = m]
    BY <1>1, <1>3, <2>1 DEF InVariable, Var
  <2>3. PICK w : w = Append(s.vars, v)
    OBVIOUS
  <2>4. r = [s EXCEPT !.vars = w, !.mode = m]
    BY <2>2, <2>3
  <2>5. r.vars = w /\ r.mode = m /\ ~r.skip
    BY <2>4 DEF ParserType
  <2> QED
    BY <1>0, <1>3, <2>1, <2>3, <2>5 DEF In
<1> QED
  BY <1>2, <1>3

LEMMA TextTurn ==
    ASSUME NEW t, NEW i \in Nat, NEW s \in ParserType, NEW v, In(s, "text", v),
           NEW r, r = ParseStep(t, s, i)
    PROVE  /\ t[i] = "'" => In(r, "string", v)
           /\ Pair(t, i, ":", ":") => r.mode = "text" /\ r.skip /\ r.vars = v
           /\ t[i] = ":" /\ ~Pair(t, i, ":", ":") => In(r, "var", v) /\ r.first = i
           /\ Pair(t, i, "/", "*") => r.mode = "block" /\ r.skip /\ r.vars = v
           /\ Pair(t, i, "-", "-") => r.mode = "line" /\ r.skip /\ r.vars = v
           /\ t[i] \notin {"'", ":"} /\ ~Pair(t, i, "/", "*") /\ ~Pair(t, i, "-", "-") =>
                In(r, "text", v)
<1>1. r = InText(t, s, i)
  BY DEF ParseStep, In
<1>2. CASE t[i] = "'"
  <2>1. ~Pair(t, i, ":", ":") /\ ~Pair(t, i, "/", "*") /\ ~Pair(t, i, "-", "-") /\ t[i] # ":"
    BY <1>2 DEF Pair
  <2>2. r = [s EXCEPT !.mode = "string"]
    BY <1>1, <1>2, <2>1 DEF InText
  <2> QED
    BY <1>2, <2>1, <2>2 DEF ParserType, In
<1>3. CASE Pair(t, i, ":", ":")
  <2>1. ~Pair(t, i, "/", "*") /\ ~Pair(t, i, "-", "-") /\ t[i] # "'" /\ t[i] = ":"
    BY <1>3 DEF Pair
  <2>2. r = [s EXCEPT !.skip = TRUE]
    BY <1>1, <1>3, <2>1 DEF InText
  <2> QED
    BY <1>3, <2>1, <2>2 DEF ParserType, In
<1>4. CASE t[i] = ":" /\ ~Pair(t, i, ":", ":")
  <2>1. ~Pair(t, i, "/", "*") /\ ~Pair(t, i, "-", "-") /\ t[i] # "'"
    BY <1>4 DEF Pair
  <2>2. r = [s EXCEPT !.mode = "var", !.first = i]
    BY <1>1, <1>4, <2>1 DEF InText
  <2> QED
    BY <1>4, <2>1, <2>2 DEF ParserType, In
<1>5. CASE Pair(t, i, "/", "*")
  <2>1. ~Pair(t, i, ":", ":") /\ ~Pair(t, i, "-", "-") /\ t[i] \notin {"'", ":"}
    BY <1>5 DEF Pair
  <2>2. r = [s EXCEPT !.mode = "block", !.skip = TRUE]
    BY <1>1, <1>5, <2>1 DEF InText
  <2> QED
    BY <1>5, <2>1, <2>2 DEF ParserType, In
<1>6. CASE Pair(t, i, "-", "-")
  <2>1. ~Pair(t, i, ":", ":") /\ ~Pair(t, i, "/", "*") /\ t[i] \notin {"'", ":"}
    BY <1>6 DEF Pair
  <2>2. r = [s EXCEPT !.mode = "line", !.skip = TRUE]
    BY <1>1, <1>6, <2>1 DEF InText
  <2> QED
    BY <1>6, <2>1, <2>2 DEF ParserType, In
<1>7. CASE t[i] \notin {"'", ":"} /\ ~Pair(t, i, "/", "*") /\ ~Pair(t, i, "-", "-")
  <2>1. ~Pair(t, i, ":", ":")
    BY <1>7 DEF Pair
  <2>2. r = s
    BY <1>1, <1>7, <2>1 DEF InText
  <2> QED
    BY <1>7, <2>1, <2>2 DEF ParserType, In
<1> QED
  BY <1>2, <1>3, <1>4, <1>5, <1>6, <1>7

-----------------------------------------------------------------------------
\* The state of a Binder

\* What is kept is text, and a text that was made says what the values bound now
\* say, as long as none was taken away.
BInv ==
    /\ template \in Seq(Char) /\ sqlText \in Seq(Char) /\ Bound(values)
    /\ calculated => Parsable(template)
    /\ calculated /\ ~unbound => sqlText = Calculate(template, values)

LEMMA FormattedTyped ==
    ASSUME NEW v \in Seq(Char), NEW trim, NEW format
    PROVE  Formatted(v, trim, format) \in Seq(Char)
<1>1. PICK val : val = (IF trim THEN Trim(v) ELSE v) /\ val \in Seq(Char)
  BY TrimIs
<1>2. "E" \in Char /\ "'" \in Char /\ "NULL" \in Char
  BY DEF Char
<1>3. <<"NULL">> \in Seq(Char) /\ <<"E", "'">> \in Seq(Char) /\ <<"'">> \in Seq(Char)
  BY <1>2
<1>4. PICK quoted : quoted = <<"E", "'">> \o val \o <<"'">> /\ quoted \in Seq(Char)
  <2>1. PICK a, b : a = <<"E", "'">> /\ b = <<"'">> /\ a \in Seq(Char) /\ b \in Seq(Char)
    BY <1>3
  <2>2. (a \o val) \o b \in Seq(Char)
    BY <1>1, <2>1
  <2> QED
    BY <2>1, <2>2
<1>5. Formatted(v, trim, format) =
        IF ~format THEN val ELSE IF val = <<>> THEN <<"NULL">> ELSE quoted
  BY <1>1, <1>4 DEF Formatted
<1> QED
  BY <1>1, <1>3, <1>4, <1>5

LEMMA EmptyIs == <<>> \in Seq(Char) /\ Bound(NoValues)
BY DEF Bound, NoValues

LEMMA BinderStarts == (BinderInit => BInv) /\ (BinderClear => BInv')
<1>1. BinderInit => BInv
  BY EmptyIs DEF BinderInit, BInv
<1>2. BinderClear => BInv'
  BY EmptyIs DEF BinderClear, BInv
<1> QED
  BY <1>1, <1>2

LEMMA BinderSteps ==
    ASSUME BInv, BinderNext
    PROVE  BInv'
<1>0. template \in Seq(Char) /\ sqlText \in Seq(Char) /\ Bound(values)
  BY DEF BInv
<1>1. ASSUME NEW t \in IF IsPrepared THEN Again ELSE Templates, Prepare(t) PROVE BInv'
  <2>1. t \in Seq(Char)
    BY TextsOfChar
  <2>2. template' \in Seq(Char)
    BY <1>1, <2>1, TrimIs DEF Prepare
  <2> QED
    BY <1>1, <2>2, EmptyIs DEF Prepare, BInv
<1>2. ASSUME NEW name \in BindNames, NEW v \in BindValues, NEW colon \in BOOLEAN,
             NEW trim \in BOOLEAN, NEW format \in BOOLEAN,
             Bind(name, colon, Formatted(v, trim, format))
      PROVE  BInv'
  <2>1. PICK val, n : val = Formatted(v, trim, format) /\ n = Key(name)
    OBVIOUS
  <2>2. val \in Seq(Char)
    BY <2>1, TextsOfChar, FormattedTyped
  <2>3. values' = values \/ values' = WithValue(values, n, val)
    BY <1>2, <2>1 DEF Bind
  <2>4. Bound(WithValue(values, n, val))
    BY <1>0, <2>2 DEF Bound, WithValue
  <2>5. Bound(values')
    BY <1>0, <2>3, <2>4
  <2> QED
    BY <1>0, <1>2, <2>5 DEF Bind, BInv
<1>3. ASSUME NEW name \in BindNames, Unbind(name) PROVE BInv'
  <2>1. PICK D : values' = [n \in D |-> values[n]] /\ D \subseteq DOMAIN values
    BY <1>3 DEF Unbind
  <2>2. Bound(values')
    BY <1>0, <2>1 DEF Bound
  <2> QED
    BY <1>0, <1>3, <2>2 DEF Unbind, BInv
<1>4. CASE ClearBinds
  BY <1>0, <1>4, EmptyIs DEF ClearBinds, BInv
<1>5. ASSUME NEW halt \in BOOLEAN, Sql(halt) PROVE BInv'
  <2>1. Calculate(template, values) \in Seq(Char)
    BY <1>0, CalculateTyped
  <2>2. /\ template' = template /\ values' = values /\ unbound' = unbound
        /\ sqlText' = IF calculated THEN sqlText ELSE Calculate(template, values)
    BY <1>5 DEF Sql
  <2>3. sqlText' \in Seq(Char)
    BY <1>0, <2>1, <2>2
  <2>4. ~unbound => sqlText' = Calculate(template, values)
    BY <2>2 DEF BInv
  <2>5. Parsable(template')
    BY <1>5, <2>2 DEF Sql
  <2> QED
    BY <1>0, <2>2, <2>3, <2>4, <2>5 DEF BInv
<1>6. CASE LookAtVariables
  BY <1>0, <1>6 DEF LookAtVariables, BInv
<1>7. CASE BinderClear
  BY <1>7, BinderStarts
<1> QED
  BY <1>1, <1>2, <1>3, <1>4, <1>5, <1>6, <1>7 DEF BinderNext

LEMMA BinderStays ==
    ASSUME BInv, UNCHANGED binderVars
    PROVE  BInv'
BY DEF BInv, binderVars

\* What is accepted and put together again, on every text.
LEMMA NothingGetsLost ==
    ASSUME BInv
    PROVE  NothingLost
<1>1. template \in Seq(Char)
  BY DEF BInv
<1>2. PICK names : names = {ParseTemplate(template)[i].name : i \in DOMAIN ParseTemplate(template)}
  OBVIOUS
<1>3. Lower(Calculate(template, [n \in names |-> n])) = Lower(template)
  BY <1>1, <1>2, EveryCharacterStays
<1> QED
  BY <1>2, <1>3 DEF NothingLost

-----------------------------------------------------------------------------
\* The parser reads token after token

\* Before the character at i the parser is where a token begins: in the text; at the
\* second of two quotes; or behind a variable that the token at i ends.
Behind(t, i, s) ==
    /\ s.mode = "var" /\ ~s.skip /\ s.first \in 1 .. i - 1
    /\ t[i] \notin Alnum /\ TokenAt(t, i).kind \in {"string", "other"}
Ready(t, i, s) ==
    \/ i = Len(t) + 1
    \/ In(s, "text", s.vars)
    \/ s.mode = "string" /\ s.skip /\ t[i] = "'"
    \/ Behind(t, i, s)

\* The variables found by then, with the one that the token at i ends.
Known(t, i, s) ==
    IF s.mode = "var" /\ i <= Len(t) THEN Append(s.vars, Var(t, s.first, i - 1)) ELSE s.vars

\* The token at i is read, and a variable found if it is one.
Reads(t, i, s, last, r) ==
    /\ Ready(t, last + 1, r)
    /\ Known(t, last + 1, r) = IF TokenAt(t, i).kind = "var"
                               THEN Append(Known(t, i, s), Var(t, i, last))
                               ELSE Known(t, i, s)

LEMMA KindIs ==
    ASSUME NEW t, NEW n \in Nat, Len(t) = n, NEW i \in 1 .. n
    PROVE  /\ TokenAt(t, i).kind \in {"string", "line", "block", "cast", "var", "other"}
           /\ TokenAt(t, i).kind = "string" => t[i] = "'"
           /\ TokenAt(t, i).kind = "line" => Pair(t, i, "-", "-")
           /\ TokenAt(t, i).kind = "block" => Pair(t, i, "/", "*")
           /\ TokenAt(t, i).kind = "cast" => Pair(t, i, ":", ":")
           /\ TokenAt(t, i).kind = "var" => t[i] = ":" /\ i < n /\ t[i + 1] \in Alnum
           /\ TokenAt(t, i).kind = "other" =>
                /\ t[i] # "'" /\ ~Pair(t, i, "-", "-") /\ ~Pair(t, i, "/", "*")
                /\ ~Pair(t, i, ":", ":") /\ ~(t[i] = ":" /\ i < n /\ t[i + 1] \in Alnum)
                /\ TokenAt(t, i).last = i
<1>1. CASE t[i] = "'"
  <2>1. TokenAt(t, i).kind = "string"
    BY <1>1, StringToken
  <2> QED
    BY <1>1, <2>1
<1>2. CASE Pair(t, i, "-", "-")
  <2>1. TokenAt(t, i).kind = "line"
    BY <1>2, LineToken
  <2> QED
    BY <1>2, <2>1
<1>3. CASE Pair(t, i, "/", "*")
  <2>1. TokenAt(t, i).kind = "block"
    BY <1>3, BlockToken
  <2> QED
    BY <1>3, <2>1
<1>4. CASE Pair(t, i, ":", ":")
  <2>1. TokenAt(t, i).kind = "cast"
    BY <1>4, CastToken
  <2> QED
    BY <1>4, <2>1
<1>5. CASE t[i] = ":" /\ i < n /\ t[i + 1] \in Alnum
  <2>1. TokenAt(t, i).kind = "var"
    BY <1>5, VarToken
  <2> QED
    BY <1>5, <2>1
<1>6. CASE ~(t[i] = "'" \/ Pair(t, i, "-", "-") \/ Pair(t, i, "/", "*")
              \/ Pair(t, i, ":", ":") \/ (t[i] = ":" /\ i < n /\ t[i + 1] \in Alnum))
  <2>1. TokenAt(t, i).kind = "other" /\ TokenAt(t, i).last = i
    BY <1>6, OtherToken
  <2> QED
    BY <1>6, <2>1
<1> QED
  BY <1>1, <1>2, <1>3, <1>4, <1>5, <1>6

\* Strings.  Where one begins in the text, behind a variable, or at the second of two
\* quotes, the parser is in it after one turn.
LEMMA StringBegins ==
    ASSUME NEW t \in Seq(Char), NEW i \in 1 .. Len(t), NEW P, P = Parsing(t),
           Ready(t, i, P[i - 1]), t[i] = "'"
    PROVE  In(P[i], "string", Known(t, i, P[i - 1]))
<1>1. PICK s, r : s = P[i - 1] /\ r = P[i]
  OBVIOUS
<1>2. r = ParseStep(t, s, i) /\ s \in ParserType /\ r \in ParserType
  BY <1>1, Turn
<1>3. i \in Nat /\ Len(t) \in Nat /\ i <= Len(t) /\ i # Len(t) + 1
  OBVIOUS
<1>4. CASE In(s, "text", s.vars)
  <2>1. In(r, "string", s.vars)
    BY <1>2, <1>3, <1>4, TextTurn
  <2> QED
    BY <1>1, <1>4, <2>1 DEF In, Known
<1>5. CASE s.mode = "string" /\ s.skip /\ t[i] = "'"
  <2>1. In(r, s.mode, s.vars)
    BY <1>2, <1>5, SkipTurn
  <2> QED
    BY <1>1, <1>5, <2>1 DEF In, Known
<1>6. CASE Behind(t, i, s)
  <2>1. s.mode = "var" /\ ~s.skip /\ s.first \in 1 .. i - 1
    BY <1>6 DEF Behind
  <2>2. In(r, "string", Append(s.vars, Var(t, s.first, i - 1)))
    BY <1>2, <2>1, VariableTurn
  <2> QED
    BY <1>1, <1>3, <2>1, <2>2 DEF Known
<1> QED
  BY <1>1, <1>3, <1>4, <1>5, <1>6 DEF Ready

LEMMA StringRead ==
    ASSUME NEW t \in Seq(Char), NEW i \in 1 .. Len(t), NEW P, P = Parsing(t),
           Ready(t, i, P[i - 1]), t[i] = "'", NEW last, last = TokenAt(t, i).last
    PROVE  Reads(t, i, P[i - 1], last, P[last])
<1>1. PICK n \in Nat : n = Len(t)
  OBVIOUS
<1>2. PICK v : v = Known(t, i, P[i - 1])
  OBVIOUS
<1>3. In(P[i], "string", v)
  BY <1>2, StringBegins
<1>4. /\ TokenAt(t, i).kind = "string" /\ last \in i .. n
      /\ \A j \in i + 1 .. last - 1 : t[j] # "'"
      /\ last < n => last > i /\ t[last] = "'"
  BY <1>1, StringToken
<1>5. CASE last = i
  <2>1. i = n
    BY <1>4, <1>5
  <2> QED
    BY <1>1, <1>2, <1>3, <1>4, <1>5, <2>1 DEF Reads, Ready, Known, In
<1>6. CASE last > i
  <2>1. PICK b : b = last - 1 /\ b \in Nat /\ i <= b /\ i \in Nat /\ b + 1 = last /\ b < n
    BY <1>4, <1>6
  <2>2. PICK S : S = {j \in i .. b : In(P[j], "string", v)}
    OBVIOUS
  <2>3. i \in S
    BY <1>3, <2>1, <2>2
  <2>4. ASSUME NEW j \in i .. b - 1, j \in S PROVE j + 1 \in S
    <3>1. PICK l : l = j + 1 /\ l \in 1 .. n /\ l - 1 = j /\ l \in i + 1 .. last - 1 /\ l \in i .. b
      BY <1>1, <2>1
    <3>2. PICK s, r : s = P[j] /\ r = P[l]
      OBVIOUS
    <3>3. r = ParseStep(t, s, l) /\ s \in ParserType /\ In(s, "string", v)
      BY <1>1, <2>2, <2>4, <3>1, <3>2, Turn
    <3>4. In(r, "string", v)
      BY <1>4, <3>1, <3>3, StringTurn
    <3> QED
      BY <2>2, <3>1, <3>2, <3>4
  <2>5. In(P[b], "string", v)
    <3>1. \A j \in i .. b : j \in S
      BY <2>1, <2>3, <2>4, FromTo
    <3> QED
      BY <2>1, <2>2, <3>1
  <2>6. PICK s, r : s = P[b] /\ r = P[last]
    OBVIOUS
  <2>7. r = ParseStep(t, s, last) /\ s \in ParserType /\ In(s, "string", v)
    <3>1. last \in 1 .. Len(t) /\ last - 1 = b
      BY <1>1, <1>4, <2>1
    <3> QED
      BY <2>5, <2>6, <3>1, Turn
  <2>8. /\ t[last] # "'" => In(r, "string", v)
        /\ Pair(t, last, "'", "'") => r.mode = "string" /\ r.skip /\ r.vars = v
        /\ t[last] = "'" /\ ~Pair(t, last, "'", "'") => In(r, "text", v)
    BY <2>7, StringTurn
  <2>9. r.mode # "var" /\ r.vars = v
    BY <2>8 DEF In, Pair
  <2>10. Ready(t, last + 1, r)
    <3>1. CASE last = n
      BY <1>1, <3>1 DEF Ready
    <3>2. CASE last < n
      BY <1>4, <2>8, <2>9, <3>2 DEF Ready, Pair
    <3> QED
      BY <1>4, <3>1, <3>2
  <2> QED
    BY <1>2, <1>4, <2>6, <2>9, <2>10 DEF Reads, Known
<1> QED
  BY <1>4, <1>5, <1>6

\* No other token than a string begins elsewhere than in the text, but for those of
\* one character.
LEMMA InTextHere ==
    ASSUME NEW t \in Seq(Char), NEW i \in 1 .. Len(t), NEW s, Ready(t, i, s),
           TokenAt(t, i).kind \notin {"string", "other"}
    PROVE  In(s, "text", s.vars) /\ Known(t, i, s) = s.vars
<1>1. i \in Nat /\ Len(t) \in Nat /\ i # Len(t) + 1
  OBVIOUS
<1>2. t[i] # "'"
  BY <1>1, StringToken
<1>3. In(s, "text", s.vars)
  BY <1>1, <1>2 DEF Ready, Behind
<1> QED
  BY <1>3 DEF In, Known

LEMMA CastRead ==
    ASSUME NEW t \in Seq(Char), NEW i \in 1 .. Len(t), NEW P, P = Parsing(t),
           Ready(t, i, P[i - 1]), Pair(t, i, ":", ":"), NEW last, last = TokenAt(t, i).last
    PROVE  Reads(t, i, P[i - 1], last, P[last])
<1>1. PICK n \in Nat : n = Len(t)
  OBVIOUS
<1>2. TokenAt(t, i).kind = "cast" /\ last = i + 1 /\ i < n
  BY <1>1, CastToken
<1>3. PICK s, r, q : s = P[i - 1] /\ r = P[i] /\ q = P[last]
  OBVIOUS
<1>4. In(s, "text", s.vars) /\ Known(t, i, s) = s.vars
  BY <1>2, <1>3, InTextHere
<1>5. r = ParseStep(t, s, i) /\ s \in ParserType /\ r \in ParserType
  BY <1>3, Turn
<1>6. r.mode = "text" /\ r.skip /\ r.vars = s.vars
  BY <1>4, <1>5, TextTurn
<1>7. q = ParseStep(t, r, last)
  <2>1. last \in 1 .. Len(t) /\ last - 1 = i
    BY <1>1, <1>2
  <2> QED
    BY <1>3, <2>1, Turn
<1>8. In(q, "text", s.vars)
  BY <1>5, <1>6, <1>7, SkipTurn
<1> QED
  BY <1>2, <1>3, <1>4, <1>8 DEF Reads, Ready, Known, In

LEMMA LineRead ==
    ASSUME NEW t \in Seq(Char), NEW i \in 1 .. Len(t), NEW P, P = Parsing(t),
           Ready(t, i, P[i - 1]), Pair(t, i, "-", "-"), PlainToken(t, i),
           NEW last, last = TokenAt(t, i).last
    PROVE  Reads(t, i, P[i - 1], last, P[last])
<1>1. PICK n \in Nat : n = Len(t)
  OBVIOUS
<1>2. /\ TokenAt(t, i).kind = "line" /\ last \in i + 1 .. n
      /\ \A j \in i + 2 .. last - 1 : t[j] # "\n"
      /\ last < n => last > i + 1 /\ t[last] = "\n"
  BY <1>1, LineToken
<1>3. \A j \in i .. last - 1 : ~Pair(t, j, "*", "/")
  BY <1>2 DEF PlainToken
<1>4. PICK v : v = P[i - 1].vars /\ In(P[i - 1], "text", v) /\ Known(t, i, P[i - 1]) = v
  BY <1>2, InTextHere
<1>5. In(P[i + 1], "line", v)
  <2>1. i + 1 \in 1 .. Len(t) /\ (i + 1) - 1 = i /\ i \in Nat
    BY <1>1, <1>2
  <2>2. P[i] = ParseStep(t, P[i - 1], i) /\ P[i - 1] \in ParserType /\ P[i] \in ParserType
    BY Turn
  <2>3. P[i].mode = "line" /\ P[i].skip /\ P[i].vars = v
    BY <1>4, <2>1, <2>2, TextTurn
  <2>4. P[i + 1] = ParseStep(t, P[i], i + 1)
    BY <2>1, Turn
  <2> QED
    BY <2>2, <2>3, <2>4, SkipTurn
<1>6. CASE last = i + 1
  <2>1. last = n
    BY <1>1, <1>2, <1>6
  <2> QED
    BY <1>1, <1>2, <1>4, <1>5, <1>6, <2>1 DEF Reads, Ready, Known, In
<1>7. CASE last > i + 1
  <2>1. PICK a, b : a = i + 1 /\ b = last - 1 /\ a \in Nat /\ b \in Nat /\ a <= b
                    /\ b + 1 = last /\ b < n
    BY <1>2, <1>7
  <2>2. PICK S : S = {j \in a .. b : In(P[j], "line", v)}
    OBVIOUS
  <2>3. a \in S
    BY <1>5, <2>1, <2>2
  <2>4. ASSUME NEW j \in a .. b - 1, j \in S PROVE j + 1 \in S
    <3>1. PICK l : /\ l = j + 1 /\ l \in 1 .. n /\ l < n /\ l - 1 = j
                   /\ l \in i + 2 .. last - 1 /\ l \in i .. last - 1 /\ l \in a .. b
      BY <1>1, <2>1
    <3>2. PICK s, r : s = P[j] /\ r = P[l]
      OBVIOUS
    <3>3. r = ParseStep(t, s, l) /\ s \in ParserType /\ In(s, "line", v)
      BY <1>1, <2>2, <2>4, <3>1, <3>2, Turn
    <3>4. t[l] # "\n" /\ ~Pair(t, l, "*", "/") /\ l # Len(t)
      BY <1>1, <1>2, <1>3, <3>1
    <3>5. In(r, "line", v)
      BY <3>3, <3>4, CommentTurn
    <3> QED
      BY <2>2, <3>1, <3>2, <3>5
  <2>5. In(P[b], "line", v)
    <3>1. \A j \in a .. b : j \in S
      BY <2>1, <2>3, <2>4, FromTo
    <3> QED
      BY <2>1, <2>2, <3>1
  <2>6. PICK s, r : s = P[b] /\ r = P[last]
    OBVIOUS
  <2>7. r = ParseStep(t, s, last) /\ s \in ParserType /\ In(s, "line", v)
    <3>1. last \in 1 .. Len(t) /\ last - 1 = b
      BY <1>1, <1>2, <2>1
    <3> QED
      BY <2>5, <2>6, <3>1, Turn
  <2>8. /\ t[last] = "\n" => In(r, "text", v)
        /\ r.vars = v /\ r.mode # "var"
    BY <2>7, CommentTurn
  <2>9. Ready(t, last + 1, r)
    <3>1. CASE last = n
      BY <1>1, <3>1 DEF Ready
    <3>2. CASE last < n
      BY <1>2, <2>8, <3>2 DEF Ready
    <3> QED
      BY <1>2, <3>1, <3>2
  <2> QED
    BY <1>2, <1>4, <2>6, <2>8, <2>9 DEF Reads, Known
<1> QED
  BY <1>2, <1>6, <1>7

LEMMA BlockRead ==
    ASSUME NEW t \in Seq(Char), NEW i \in 1 .. Len(t), NEW P, P = Parsing(t),
           Ready(t, i, P[i - 1]), Pair(t, i, "/", "*"), NEW last, last = TokenAt(t, i).last
    PROVE  Reads(t, i, P[i - 1], last, P[last])
<1>1. PICK n \in Nat : n = Len(t)
  OBVIOUS
<1>2. /\ TokenAt(t, i).kind = "block" /\ last \in i + 1 .. n
      /\ \A j \in i + 2 .. last - 2 : ~Pair(t, j, "*", "/")
      /\ last < n => last > i + 2 /\ Pair(t, last - 1, "*", "/")
  BY <1>1, BlockToken
<1>3. PICK v : v = P[i - 1].vars /\ In(P[i - 1], "text", v) /\ Known(t, i, P[i - 1]) = v
  BY <1>2, InTextHere
<1>4. In(P[i + 1], "block", v)
  <2>1. i + 1 \in 1 .. Len(t) /\ (i + 1) - 1 = i /\ i \in Nat
    BY <1>1, <1>2
  <2>2. P[i] = ParseStep(t, P[i - 1], i) /\ P[i - 1] \in ParserType /\ P[i] \in ParserType
    BY Turn
  <2>3. P[i].mode = "block" /\ P[i].skip /\ P[i].vars = v
    BY <1>3, <2>1, <2>2, TextTurn
  <2>4. P[i + 1] = ParseStep(t, P[i], i + 1)
    BY <2>1, Turn
  <2> QED
    BY <2>2, <2>3, <2>4, SkipTurn
<1>5. CASE last = i + 1
  <2>1. last = n
    BY <1>1, <1>2, <1>5
  <2> QED
    BY <1>1, <1>2, <1>3, <1>4, <1>5, <2>1 DEF Reads, Ready, Known, In
<1>6. CASE last > i + 1
  <2>1. PICK a, b : a = i + 1 /\ b = last - 1 /\ a \in Nat /\ b \in Nat /\ a <= b
                    /\ b + 1 = last /\ b < n /\ b \in 1 .. n /\ last \in 1 .. n
    <3>1. i \in Nat /\ last \in Nat /\ i >= 1 /\ last <= n
      BY <1>1, <1>2
    <3>2. i + 1 \in Nat /\ last - 1 \in 1 .. n /\ i + 1 <= last - 1 /\ last - 1 < n
      BY <1>6, <3>1
    <3> QED
      BY <3>1, <3>2
  <2>2. \/ In(P[b], "block", v) /\ last = n
        \/ P[b].mode = "text" /\ P[b].skip /\ P[b].vars = v
    <3>1. CASE b = a
      BY <1>2, <1>4, <2>1, <3>1
    <3>2. CASE b > a
      <4>1. PICK c : c = b - 1 /\ c \in Nat /\ a <= c /\ c + 1 = b
        BY <2>1, <3>2
      <4>2. PICK S : S = {j \in a .. c : In(P[j], "block", v)}
        OBVIOUS
      <4>3. a \in S
        BY <1>4, <2>1, <4>1, <4>2
      <4>4. ASSUME NEW j \in a .. c - 1, j \in S PROVE j + 1 \in S
        <5>1. PICK l : /\ l = j + 1 /\ l \in 1 .. n /\ l < n /\ l - 1 = j
                       /\ l \in i + 2 .. last - 2 /\ l \in a .. c
          <6>1. j \in Int /\ a <= j /\ j <= c - 1
            BY <2>1, <4>1
          <6>2. i \in Nat /\ last \in Nat /\ last <= n /\ n \in Nat
            BY <1>2, <1>1
          <6>3. c = last - 2 /\ a = i + 1
            BY <2>1, <4>1, <6>2
          <6>4. /\ j + 1 \in 1 .. n /\ j + 1 < n /\ (j + 1) - 1 = j
                /\ j + 1 \in i + 2 .. last - 2 /\ j + 1 \in a .. c
            BY <6>1, <6>2, <6>3
          <6> QED
            BY <6>4
        <5>2. PICK s, r : s = P[j] /\ r = P[l]
          OBVIOUS
        <5>3. r = ParseStep(t, s, l) /\ s \in ParserType /\ In(s, "block", v)
          BY <1>1, <4>2, <4>4, <5>1, <5>2, Turn
        <5>4. ~Pair(t, l, "*", "/") /\ l # Len(t)
          BY <1>1, <1>2, <5>1
        <5>5. In(r, "block", v)
          BY <5>3, <5>4, CommentTurn
        <5> QED
          BY <4>2, <5>1, <5>2, <5>5
      <4>5. In(P[c], "block", v)
        <5>1. \A j \in a .. c : j \in S
          BY <2>1, <4>1, <4>3, <4>4, FromTo
        <5> QED
          BY <4>1, <4>2, <5>1
      <4>6. PICK s, r : s = P[c] /\ r = P[b]
        OBVIOUS
      <4>7. r = ParseStep(t, s, b) /\ s \in ParserType /\ In(s, "block", v)
        <5>1. b \in 1 .. Len(t) /\ b - 1 = c
          BY <1>1, <2>1, <4>1
        <5> QED
          BY <4>5, <4>6, <5>1, Turn
      <4>8. /\ Pair(t, b, "*", "/") => r.mode = "text" /\ r.skip /\ r.vars = v
            /\ ~Pair(t, b, "*", "/") /\ b # Len(t) => In(r, "block", v)
        BY <4>7, CommentTurn
      <4>9. b # Len(t)
        BY <1>1, <2>1
      <4>10. last = n \/ Pair(t, b, "*", "/")
        BY <1>2, <2>1
      <4> QED
        BY <4>6, <4>8, <4>9, <4>10
    <3> QED
      BY <2>1, <3>1, <3>2
  <2>3. PICK s, r : s = P[b] /\ r = P[last]
    OBVIOUS
  <2>4. r = ParseStep(t, s, last) /\ s \in ParserType
    <3>1. last \in 1 .. Len(t) /\ last - 1 = b
      BY <1>1, <1>2, <2>1
    <3> QED
      BY <2>3, <3>1, Turn
  <2>5. r.vars = v /\ r.mode # "var" /\ (last = n \/ In(r, "text", v))
    <3>1. CASE In(s, "block", v) /\ last = n
      <4>1. r.vars = v /\ r.mode # "var"
        BY <2>4, <3>1, CommentTurn
      <4> QED
        BY <3>1, <4>1
    <3>2. CASE s.mode = "text" /\ s.skip /\ s.vars = v
      <4>1. In(r, "text", v)
        BY <2>4, <3>2, SkipTurn
      <4> QED
        BY <4>1 DEF In
    <3> QED
      BY <2>2, <2>3, <3>1, <3>2
  <2>6. Ready(t, last + 1, r)
    BY <1>1, <2>5 DEF Ready
  <2> QED
    BY <1>2, <1>3, <2>3, <2>5, <2>6 DEF Reads, Known
<1> QED
  BY <1>2, <1>5, <1>6

LEMMA VarRead ==
    ASSUME NEW t \in Seq(Char), NEW i \in 1 .. Len(t), NEW P, P = Parsing(t),
           Ready(t, i, P[i - 1]), t[i] = ":", i < Len(t), t[i + 1] \in Alnum, PlainToken(t, i),
           NEW last, last = TokenAt(t, i).last
    PROVE  Reads(t, i, P[i - 1], last, P[last])
<1>1. PICK n \in Nat : n = Len(t)
  OBVIOUS
<1>2. /\ TokenAt(t, i).kind = "var" /\ last \in i + 1 .. n
      /\ \A j \in i + 1 .. last : t[j] \in Alnum
      /\ last < n => t[last + 1] \notin Alnum
  BY <1>1, VarToken
<1>3. PICK v : v = P[i - 1].vars /\ In(P[i - 1], "text", v) /\ Known(t, i, P[i - 1]) = v
  BY <1>2, InTextHere
<1>4. In(P[i], "var", v) /\ P[i].first = i
  <2>1. P[i] = ParseStep(t, P[i - 1], i) /\ P[i - 1] \in ParserType /\ i \in Nat
    BY Turn
  <2>2. ~Pair(t, i, ":", ":")
    BY DEF Pair, Alnum
  <2>3. PICK s, r : s = P[i - 1] /\ r = P[i]
    OBVIOUS
  <2>4. In(r, "var", v) /\ r.first = i
    BY <1>3, <2>1, <2>2, <2>3, TextTurn
  <2> QED
    BY <2>3, <2>4
<1>5. PICK b : /\ b = (IF last = n THEN n - 1 ELSE last)
               /\ b \in Nat /\ i <= b /\ b < n /\ i \in Nat /\ b <= last
  BY <1>2
<1>6. PICK S : S = {j \in i .. b : In(P[j], "var", v) /\ P[j].first = i}
  OBVIOUS
<1>7. i \in S
  BY <1>4, <1>5, <1>6
<1>8. ASSUME NEW j \in i .. b - 1, j \in S PROVE j + 1 \in S
  <2>1. PICK l : /\ l = j + 1 /\ l \in 1 .. n /\ l < n /\ l - 1 = j
                 /\ l \in i + 1 .. last /\ l \in i .. b /\ i \in 1 .. l - 1
    BY <1>1, <1>5
  <2>2. PICK s, r : s = P[j] /\ r = P[l]
    OBVIOUS
  <2>3. r = ParseStep(t, s, l) /\ s \in ParserType /\ In(s, "var", v) /\ s.first = i
    BY <1>1, <1>6, <1>8, <2>1, <2>2, Turn
  <2>4. t[l] \in Alnum /\ l < Len(t)
    BY <1>1, <1>2, <2>1
  <2>5. In(r, "var", v) /\ r.first = i
    <3>1. s.mode = "var" /\ ~s.skip /\ s.first \in 1 .. l - 1 /\ s.vars = v /\ l \in 1 .. Len(t)
      BY <1>1, <2>1, <2>3 DEF In
    <3> QED
      BY <2>3, <2>4, <3>1, VariableTurn
  <2> QED
    BY <1>6, <2>1, <2>2, <2>5
<1>9. In(P[b], "var", v) /\ P[b].first = i
  <2>1. \A j \in i .. b : j \in S
    BY <1>5, <1>7, <1>8, FromTo
  <2> QED
    BY <1>5, <1>6, <2>1
<1>10. CASE last < n
  <2>1. b = last /\ last + 1 \in 1 .. n /\ i \in 1 .. last
    BY <1>2, <1>5, <1>10
  <2>2. TokenAt(t, last + 1).kind \in {"string", "other"}
    <3>1. TokenAt(t, last + 1).kind \notin {"var", "cast", "line", "block"}
      BY <1>1, <1>2, <1>10 DEF PlainToken
    <3> QED
      BY <1>1, <2>1, <3>1, KindIs
  <2>3. PICK r : r = P[last] /\ In(r, "var", v) /\ r.first = i
    BY <1>9, <2>1
  <2>4. Behind(t, last + 1, r)
    BY <1>2, <1>10, <2>1, <2>2, <2>3 DEF Behind, In
  <2>5. Known(t, last + 1, r) = Append(v, Var(t, i, last))
    BY <1>1, <1>2, <2>1, <2>3 DEF Known, In
  <2> QED
    BY <1>2, <1>3, <2>3, <2>4, <2>5 DEF Reads, Ready
<1>11. CASE last = n
  <2>1. b = n - 1 /\ n \in 1 .. Len(t) /\ i \in 1 .. n - 1 /\ t[n] \in Alnum
    BY <1>1, <1>2, <1>5, <1>11
  <2>2. PICK s, r : s = P[b] /\ r = P[n]
    OBVIOUS
  <2>3. r = ParseStep(t, s, n) /\ s \in ParserType
    BY <2>1, <2>2, Turn
  <2>4. s.mode = "var" /\ ~s.skip /\ s.vars = v /\ s.first = i /\ s.first \in 1 .. n - 1
    BY <1>9, <2>1, <2>2 DEF In
  <2>5. In(r, "text", Append(v, Var(t, i, n)))
    BY <1>1, <2>1, <2>3, <2>4, VariableTurn
  <2>6. PICK w : w = Append(v, Var(t, i, n)) /\ In(r, "text", w)
    BY <2>5
  <2> QED
    BY <1>1, <1>2, <1>3, <1>11, <2>2, <2>6 DEF Reads, Ready, Known, In
<1> QED
  BY <1>2, <1>10, <1>11

\* A colon with nothing behind it that could be a name or a cast.
Lone(t, i) == t[i] = ":" /\ i < Len(t) /\ t[i + 1] \notin Alnum \cup {":"}

LEMMA OtherRead ==
    ASSUME NEW t \in Seq(Char), NEW i \in 1 .. Len(t), NEW P, P = Parsing(t),
           Ready(t, i, P[i - 1]), TokenAt(t, i).kind = "other",
           In(P[i - 1], "text", P[i - 1].vars) => ~Lone(t, i),
           NEW last, last = TokenAt(t, i).last
    PROVE  Reads(t, i, P[i - 1], last, P[last])
<1>1. PICK n \in Nat : n = Len(t) /\ i \in 1 .. n
  OBVIOUS
<1>2. /\ t[i] # "'" /\ ~Pair(t, i, "-", "-") /\ ~Pair(t, i, "/", "*")
      /\ ~Pair(t, i, ":", ":") /\ ~(t[i] = ":" /\ i < n /\ t[i + 1] \in Alnum)
      /\ last = i
  BY <1>1, KindIs
<1>3. PICK s, r : s = P[i - 1] /\ r = P[i]
  OBVIOUS
<1>4. r = ParseStep(t, s, i) /\ s \in ParserType /\ r \in ParserType
  BY <1>3, Turn
<1>5. CASE In(s, "text", s.vars)
  <2>1. Known(t, i, s) = s.vars
    BY <1>5 DEF In, Known
  <2>2. CASE t[i] = ":"
    <3>1. i = n
      BY <1>1, <1>2, <1>3, <1>5, <2>2 DEF Lone, Pair
    <3>2. In(r, "var", s.vars)
      BY <1>2, <1>4, <1>5, <2>2, TextTurn
    <3> QED
      BY <1>1, <1>2, <1>3, <2>1, <3>1, <3>2 DEF Reads, Ready, Known, In
  <2>3. CASE t[i] # ":"
    <3>1. In(r, "text", s.vars)
      BY <1>2, <1>4, <1>5, <2>3, TextTurn
    <3> QED
      BY <1>1, <1>2, <1>3, <2>1, <3>1 DEF Reads, Ready, Known, In
  <2> QED
    BY <2>2, <2>3
<1>6. CASE Behind(t, i, s)
  <2>0. s.mode = "var" /\ i <= Len(t)
    BY <1>6 DEF Behind
  <2>1. PICK w : w = Append(s.vars, Var(t, s.first, i - 1)) /\ w = Known(t, i, s)
    BY <2>0 DEF Known
  <2>2. In(r, "text", w)
    BY <1>2, <1>4, <1>6, <2>1, VariableTurn DEF Behind
  <2> QED
    BY <1>1, <1>2, <1>3, <2>1, <2>2 DEF Reads, Ready, Known, In
<1> QED
  BY <1>1, <1>2, <1>3, <1>5, <1>6 DEF Ready

\* A variable, once found, is not given up.
Has(s, v) == \E k \in 1 .. Len(s.vars) : s.vars[k] = v

LEMMA StaysFound ==
    ASSUME NEW t \in Seq(Char), NEW i \in 1 .. Len(t), NEW P, P = Parsing(t),
           NEW v, Has(P[i], v)
    PROVE  Has(P[Len(t)], v)
<1>1. PICK n \in Nat : n = Len(t) /\ i \in Nat /\ i <= n
  OBVIOUS
<1>2. PICK S : S = {j \in i .. n : Has(P[j], v)}
  OBVIOUS
<1>3. i \in S
  BY <1>1, <1>2
<1>4. ASSUME NEW j \in i .. n - 1, j \in S PROVE j + 1 \in S
  <2>1. PICK l : l = j + 1 /\ l \in 1 .. Len(t) /\ l - 1 = j /\ l \in i .. n
    BY <1>1
  <2>2. PICK s, r : s = P[j] /\ r = P[l]
    OBVIOUS
  <2>3. r = ParseStep(t, s, l) /\ s \in ParserType /\ r \in ParserType
    BY <2>1, <2>2, Turn
  <2>4. Found(t, s, j)
    <3>1. j \in 0 .. Len(t)
      BY <1>1, <2>1
    <3> QED
      BY <2>2, <3>1, AllFound
  <2>5. s.mode = "var" => ~s.skip /\ s.first \in 1 .. l - 1 /\ t[s.first] \notin Alnum
    BY <2>1, <2>4 DEF Found, Alnum
  <2>6. Stays(s, r) \/ GoesOn(t, l, s, r) \/ Begins(t, l, s, r) \/ Ends(t, l, s, r)
    BY <2>1, <2>3, <2>5, StepDoes
  <2>7. PICK x : r.vars = s.vars \/ r.vars = Append(s.vars, x)
    BY <2>6 DEF Stays, GoesOn, Begins, Ends
  <2>8. PICK k \in 1 .. Len(s.vars) : s.vars[k] = v
    BY <1>2, <1>4, <2>2 DEF Has
  <2>9. k \in 1 .. Len(r.vars) /\ r.vars[k] = v
    <3>1. s.vars \in Seq(Variable) /\ r.vars \in Seq(Variable)
      BY <2>3 DEF ParserType
    <3>2. CASE r.vars = s.vars
      BY <2>8, <3>2
    <3>3. CASE r.vars = Append(s.vars, x)
      <4>1. PICK a : a = s.vars /\ a \in Seq(Variable)
        BY <3>1
      <4>2. Len(Append(a, x)) = Len(a) + 1 /\ Append(a, x)[k] = a[k]
        BY <2>8, <4>1
      <4> QED
        BY <2>8, <3>3, <4>1, <4>2
    <3> QED
      BY <2>7, <3>2, <3>3
  <2>10. Has(r, v)
    BY <2>9 DEF Has
  <2> QED
    BY <1>2, <2>1, <2>2, <2>10
<1>5. n \in S
  <2>1. \A j \in i .. n : j \in S
    BY <1>1, <1>3, <1>4, FromTo
  <2> QED
    BY <1>1, <2>1
<1> QED
  BY <1>1, <1>2, <1>5

\* A lone colon in the text is taken for a variable without a name.
LEMMA LoneRefused ==
    ASSUME NEW t \in Seq(Char), NEW i \in 1 .. Len(t), NEW P, P = Parsing(t),
           In(P[i - 1], "text", P[i - 1].vars), Lone(t, i)
    PROVE  ~Parsable(t)
<1>1. PICK n, l : /\ n = Len(t) /\ n \in Nat /\ i \in Nat
                  /\ l = i + 1 /\ l \in 1 .. Len(t) /\ l - 1 = i
  BY DEF Lone
<1>2. PICK s, r, q : s = P[i - 1] /\ r = P[i] /\ q = P[l]
  OBVIOUS
<1>3. r = ParseStep(t, s, i) /\ s \in ParserType /\ r \in ParserType
  BY <1>2, Turn
<1>4. q = ParseStep(t, r, l) /\ q \in ParserType
  BY <1>1, <1>2, Turn
<1>5. In(r, "var", s.vars) /\ r.first = i
  <2>1. t[i] = ":" /\ ~Pair(t, i, ":", ":")
    BY DEF Lone, Pair
  <2> QED
    BY <1>1, <1>2, <1>3, <2>1, TextTurn
<1>6. q.vars = Append(r.vars, Var(t, i, i))
  <2>1. r.mode = "var" /\ ~r.skip /\ r.first \in 1 .. l - 1 /\ r.first = l - 1 /\ t[l] \notin Alnum
    BY <1>1, <1>5 DEF In, Lone
  <2>2. \/ In(q, "string", Append(r.vars, Var(t, r.first, l - 1)))
        \/ In(q, "text", Append(r.vars, Var(t, r.first, l - 1)))
    BY <1>1, <1>3, <1>4, <2>1, VariableTurn
  <2> QED
    BY <1>1, <2>1, <2>2 DEF In
<1>7. Has(q, Var(t, i, i))
  <2>1. PICK a, x : a = r.vars /\ x = Var(t, i, i) /\ a \in Seq(Variable)
    BY <1>3 DEF ParserType
  <2>2. Len(a) + 1 \in 1 .. Len(Append(a, x)) /\ Append(a, x)[Len(a) + 1] = x
    BY <2>1
  <2> QED
    BY <1>6, <2>1, <2>2 DEF Has
<1>8. Has(P[n], Var(t, i, i))
  BY <1>1, <1>2, <1>7, StaysFound
<1>9. Var(t, i, i).name = <<":">>
  <2>1. i \in 1 .. Len(t) /\ i \in i .. Len(t)
    BY <1>1
  <2>2. PICK u : u = SubSeq(t, i, i)
    OBVIOUS
  <2>3. u \in Seq(Char) /\ Len(u) = 1 /\ u[1] = ":"
    <3>1. i \in Int /\ (\A j \in i .. i : t[j] \in Char) /\ t[i] = ":"
      BY <1>1 DEF Lone
    <3> QED
      BY <1>1, <2>2, <3>1, SubSeqProperties
  <2>4. PICK w : w = Lower(u) /\ w \in Seq(Char) /\ Len(w) = 1 /\ w[1] = ":"
    BY <2>3, LowerIs
  <2>5. w = <<":">>
    BY <2>4
  <2>6. Var(t, i, i).name = Lower(SubSeq(t, i, i))
    BY <2>1, VarIs
  <2> QED
    BY <2>2, <2>4, <2>5, <2>6
<1>10. PICK vars : vars = ParseTemplate(t) /\ vars = P[n].vars /\ vars \in Seq(Variable)
  <2>1. ParseTemplate(t) = P[n].vars
    BY <1>1 DEF ParseTemplate
  <2>2. Ordered(t, ParseTemplate(t))
    BY ParsedOrdered
  <2> QED
    BY <2>1, <2>2 DEF Ordered
<1>11. PICK k \in 1 .. Len(vars) : vars[k] = Var(t, i, i)
  BY <1>8, <1>10 DEF Has
<1>12. k \in DOMAIN vars
  BY <1>10, <1>11
<1> QED
  BY <1>9, <1>10, <1>11, <1>12 DEF Parsable

\* One token, whichever it is.
LEMMA TokenRead ==
    ASSUME NEW t \in Seq(Char), NEW i \in 1 .. Len(t), NEW P, P = Parsing(t),
           Ready(t, i, P[i - 1]), PlainToken(t, i), Parsable(t) \/ ~Lone(t, i),
           NEW last, last = TokenAt(t, i).last
    PROVE  Reads(t, i, P[i - 1], last, P[last])
<1>1. PICK n \in Nat : n = Len(t) /\ i \in 1 .. n
  OBVIOUS
<1>2. PICK kind : kind = TokenAt(t, i).kind
  OBVIOUS
<1>3. /\ kind \in {"string", "line", "block", "cast", "var", "other"}
      /\ kind = "string" => t[i] = "'"
      /\ kind = "line" => Pair(t, i, "-", "-")
      /\ kind = "block" => Pair(t, i, "/", "*")
      /\ kind = "cast" => Pair(t, i, ":", ":")
      /\ kind = "var" => t[i] = ":" /\ i < Len(t) /\ t[i + 1] \in Alnum
  BY <1>1, <1>2, KindIs
<1>4. CASE kind = "string"
  BY <1>3, <1>4, StringRead
<1>5. CASE kind = "line"
  BY <1>3, <1>5, LineRead
<1>6. CASE kind = "block"
  BY <1>3, <1>6, BlockRead
<1>7. CASE kind = "cast"
  BY <1>3, <1>7, CastRead
<1>8. CASE kind = "var"
  BY <1>3, <1>8, VarRead
<1>9. CASE kind = "other"
  <2>1. In(P[i - 1], "text", P[i - 1].vars) => ~Lone(t, i)
    BY LoneRefused
  <2> QED
    BY <1>2, <1>9, <2>1, OtherRead
<1> QED
  BY <1>3, <1>4, <1>5, <1>6, <1>7, <1>8, <1>9

-----------------------------------------------------------------------------
\* All variables

\* What is found from the token at i on is the token, if it is a variable, and the rest.
Rests(t, V, i, last) ==
    /\ last \in i .. Len(t)
    /\ TokenAt(t, i).kind = "var" => V[i] = <<Var(t, i, last)>> \o V[last + 1]
    /\ TokenAt(t, i).kind # "var" => V[i] = <<>> \o V[last + 1]

LEMMA RestIs ==
    ASSUME NEW t, NEW n \in Nat, Len(t) = n, NEW i \in 1 .. n,
           NEW last, last = TokenAt(t, i).last, NEW V, V = VariablesFrom(t)
    PROVE  Rests(t, V, i, last) /\ V[n + 1] = <<>>
<1>1. last \in i .. n
  BY TokenEnds
<1>2. V[n + 1] = <<>>
  <2>1. n + 1 \in 1 .. n + 1 /\ n + 1 > n
    OBVIOUS
  <2>2. V[n + 1] = IF n + 1 > n THEN <<>>
                   ELSE LET k == TokenAt(t, n + 1)
                        IN  (IF k.kind = "var"
                             THEN <<[name |-> Lower(SubSeq(t, n + 1, k.last)), position |-> n + 1]>>
                             ELSE <<>>) \o VariablesFrom(t)[k.last + 1]
    BY <2>1, VariablesIs
  <2> QED
    BY <2>1, <2>2, Zenon
<1>3. V[i] = (IF TokenAt(t, i).kind = "var"
              THEN <<[name |-> Lower(SubSeq(t, i, last)), position |-> i]>>
              ELSE <<>>) \o V[last + 1]
  <2>1. i \in 1 .. n + 1 /\ ~(i > n)
    OBVIOUS
  <2>2. V[i] = IF i > n THEN <<>>
               ELSE LET k == TokenAt(t, i)
                    IN  (IF k.kind = "var"
                         THEN <<[name |-> Lower(SubSeq(t, i, k.last)), position |-> i]>>
                         ELSE <<>>) \o VariablesFrom(t)[k.last + 1]
    BY <2>1, VariablesIs
  <2> QED
    BY <2>1, <2>2, Zenon
<1>4. CASE TokenAt(t, i).kind = "var"
  BY <1>1, <1>2, <1>3, <1>4, Zenon DEF Var, Rests
<1>5. CASE TokenAt(t, i).kind # "var"
  BY <1>1, <1>2, <1>3, <1>5, Zenon DEF Rests
<1> QED
  BY <1>4, <1>5

LEMMA OneOf ==
    ASSUME NEW S, NEW x \in S
    PROVE  <<x>> \in Seq(S) /\ Len(<<x>>) = 1 /\ <<x>>[1] = x
<1>1. <<x>> \in [1 .. 1 -> S] /\ Len(<<x>>) = 1 /\ <<x>>[1] = x
  OBVIOUS
<1>2. 1 \in Nat
  OBVIOUS
<1>3. \A n \in Nat : [1 .. n -> S] \subseteq Seq(S)
  OBVIOUS
<1> QED
  BY <1>1, <1>2, <1>3

\* The variables of a statement have names.
Named(v) == v \in Variable /\ Len(v.name) >= 2

LEMMA RestTyped ==
    ASSUME NEW t \in Seq(Char), NEW V, V = VariablesFrom(t)
    PROVE  \A i \in 1 .. Len(t) + 1 :
             V[i] \in Seq(Variable) /\ \A k \in 1 .. Len(V[i]) : Named(V[i][k])
<1>1. PICK n \in Nat : n = Len(t)
  OBVIOUS
<1>2. PICK S : S = {i \in 1 .. n + 1 : V[i] \in Seq(Variable)
                                       /\ \A k \in 1 .. Len(V[i]) : Named(V[i][k])}
  OBVIOUS
<1>3. n + 1 \in S
  <2>1. V[n + 1] = <<>>
    <3>1. n + 1 \in 1 .. n + 1 /\ n + 1 > n
      OBVIOUS
    <3>2. V[n + 1] = IF n + 1 > n THEN <<>>
                     ELSE LET k == TokenAt(t, n + 1)
                          IN  (IF k.kind = "var"
                               THEN <<[name |-> Lower(SubSeq(t, n + 1, k.last)),
                                       position |-> n + 1]>>
                               ELSE <<>>) \o VariablesFrom(t)[k.last + 1]
      BY <1>1, <3>1, VariablesIs
    <3> QED
      BY <3>1, <3>2, Zenon
  <2>2. PICK e : e = V[n + 1] /\ e = <<>> /\ n + 1 \in 1 .. n + 1
    BY <2>1
  <2>3. e \in Seq(Variable) /\ \A k \in 1 .. Len(e) : Named(e[k])
    BY <2>2
  <2> QED
    BY <1>2, <2>2, <2>3
<1>4. ASSUME NEW i \in 1 .. n, \A j \in i + 1 .. n + 1 : j \in S PROVE i \in S
  <2>1. PICK last, rest : last = TokenAt(t, i).last /\ rest = V[last + 1]
    OBVIOUS
  <2>2. /\ last \in i .. n
        /\ TokenAt(t, i).kind = "var" => V[i] = <<Var(t, i, last)>> \o rest
        /\ TokenAt(t, i).kind # "var" => V[i] = <<>> \o rest
    <3>1. Rests(t, V, i, last)
      BY <1>1, <2>1, RestIs
    <3> QED
      BY <1>1, <2>1, <3>1, Zenon DEF Rests
  <2>3. rest \in Seq(Variable) /\ \A k \in 1 .. Len(rest) : Named(rest[k])
    <3>1. last + 1 \in i + 1 .. n + 1
      BY <2>2
    <3> QED
      BY <1>2, <1>4, <2>1, <3>1
  <2>4. CASE TokenAt(t, i).kind = "var"
    <3>1. i < n
      BY <1>1, <2>4, KindIs
    <3>2. last \in i + 1 .. n
      <4>1. t[i] = ":" /\ t[i + 1] \in Alnum
        BY <1>1, <2>4, KindIs
      <4> QED
        BY <1>1, <2>1, <3>1, <4>1, VarToken
    <3>3. PICK v : v = Var(t, i, last) /\ Named(v)
      <4>1. PICK v : v = Var(t, i, last) /\ v \in Variable /\ Len(v.name) = last - i + 1
        BY <1>1, <2>2, VarIs
      <4> QED
        BY <3>2, <4>1 DEF Named
    <3>4. PICK w : w = V[i] /\ w = <<v>> \o rest
      BY <2>2, <2>4, <3>3
    <3>5. w \in Seq(Variable) /\ \A k \in 1 .. Len(w) : Named(w[k])
      <4>1. v \in Variable
        BY <3>3 DEF Named
      <4>2. PICK a : a = <<v>> /\ a \in Seq(Variable) /\ Len(a) = 1 /\ a[1] = v
        BY <4>1, OneOf
      <4>3. /\ w \in Seq(Variable) /\ Len(w) = 1 + Len(rest)
            /\ \A k \in 1 .. 1 + Len(rest) : w[k] = IF k <= 1 THEN a[k] ELSE rest[k - 1]
        BY <2>3, <3>4, <4>2, ConcatProperties
      <4>4. ASSUME NEW k \in 1 .. Len(w) PROVE Named(w[k])
        <5>1. k \in 1 .. 1 + Len(rest) /\ Len(rest) \in Nat
          BY <2>3, <4>3
        <5>2. CASE k = 1
          BY <3>3, <4>2, <4>3, <5>1, <5>2
        <5>3. CASE k > 1
          <6>1. k - 1 \in 1 .. Len(rest) /\ w[k] = rest[k - 1]
            BY <4>3, <5>1, <5>3
          <6> QED
            BY <2>3, <6>1
        <5> QED
          BY <5>1, <5>2, <5>3
      <4> QED
        BY <4>3, <4>4
    <3>6. i \in 1 .. n + 1
      OBVIOUS
    <3> QED
      BY <1>2, <3>4, <3>5, <3>6
  <2>5. CASE TokenAt(t, i).kind # "var"
    <3>1. V[i] = rest
      <4>1. V[i] = <<>> \o rest
        BY <2>2, <2>5
      <4> QED
        BY <2>3, <4>1
    <3> QED
      BY <1>2, <2>3, <3>1
  <2> QED
    BY <2>4, <2>5
<1>5. 1 .. n + 1 \subseteq S
  BY <1>3, <1>4, DownFrom
<1> QED
  BY <1>1, <1>2, <1>5

LEMMA Regrouped ==
    ASSUME NEW a \in Seq(Variable), NEW x \in Variable, NEW b \in Seq(Variable)
    PROVE  Append(a, x) \o b = a \o (<<x>> \o b)
<1>1. PICK c : c = <<x>> /\ c \in Seq(Variable)
  BY OneOf
<1>2. Append(a, x) = a \o c
  BY <1>1
<1>3. (a \o c) \o b = a \o (c \o b)
  BY <1>1, ConcatAssociative
<1> QED
  BY <1>1, <1>2, <1>3

LEMMA KnownTyped ==
    ASSUME NEW t \in Seq(Char), NEW i \in 1 .. Len(t) + 1
    PROVE  Known(t, i, Parsing(t)[i - 1]) \in Seq(Variable)
<1>1. PICK s : s = Parsing(t)[i - 1] /\ Found(t, s, i - 1)
  <2>1. i - 1 \in 0 .. Len(t)
    OBVIOUS
  <2> QED
    BY <2>1, AllFound
<1>2. PICK vars : vars = s.vars /\ vars \in Seq(Variable)
  BY <1>1 DEF Found, ParserType
<1>3. CASE s.mode = "var" /\ i <= Len(t)
  <2>1. s.first \in 1 .. Len(t) /\ i - 1 \in s.first .. Len(t)
    BY <1>1, <1>3 DEF Found
  <2>2. PICK v : v = Var(t, s.first, i - 1) /\ v \in Variable
    BY <2>1, VarIs
  <2>3. Append(vars, v) \in Seq(Variable)
    BY <1>2, <2>2
  <2> QED
    BY <1>1, <1>2, <1>3, <2>2, <2>3 DEF Known
<1>4. CASE ~(s.mode = "var" /\ i <= Len(t))
  BY <1>1, <1>2, <1>4 DEF Known
<1> QED
  BY <1>3, <1>4

\* Where a token begins, what the parser will have found at the end is what it knows
\* there and the variables from there on.
LEMMA RestFound ==
    ASSUME NEW t \in Seq(Char), NEW P, P = Parsing(t), NEW V, V = VariablesFrom(t),
           Parsable(t) \/ \A j \in 1 .. Len(t) : ~Lone(t, j),
           NEW i \in 1 .. Len(t) + 1, Ready(t, i, P[i - 1]), PlainFrom(t)[i]
    PROVE  P[Len(t)].vars = Known(t, i, P[i - 1]) \o V[i]
<1>1. PICK n \in Nat : n = Len(t)
  OBVIOUS
<1> DEFINE Good(j) == Ready(t, j, P[j - 1]) /\ PlainFrom(t)[j]
                        => P[n].vars = Known(t, j, P[j - 1]) \o V[j]
<1>2. PICK S : S = {j \in 1 .. n + 1 : Good(j)}
  OBVIOUS
<1>3. \A j \in 1 .. n + 1 : Known(t, j, P[j - 1]) \in Seq(Variable) /\ V[j] \in Seq(Variable)
  BY <1>1, KnownTyped, RestTyped
<1>4. n + 1 \in S
  <2>1. PICK k : k = P[n].vars /\ k \in Seq(Variable) /\ k = Known(t, n + 1, P[(n + 1) - 1])
    <3>1. (n + 1) - 1 = n /\ ~(n + 1 <= Len(t)) /\ n + 1 \in 1 .. n + 1
      BY <1>1
    <3>2. Known(t, n + 1, P[(n + 1) - 1]) = P[n].vars
      BY <3>1 DEF Known
    <3> QED
      BY <1>3, <3>1, <3>2
  <2>2. V[n + 1] = <<>>
    <3>1. CASE n = 0
      <4>1. V[1] = IF 1 > n THEN <<>>
                   ELSE LET x == TokenAt(t, 1)
                        IN  (IF x.kind = "var"
                             THEN <<[name |-> Lower(SubSeq(t, 1, x.last)), position |-> 1]>>
                             ELSE <<>>) \o VariablesFrom(t)[x.last + 1]
        <5>1. 1 \in 1 .. n + 1 /\ Len(t) = n
          BY <1>1
        <5> QED
          BY <5>1, VariablesIs
      <4>2. 1 > n /\ n + 1 = 1
        BY <3>1
      <4> QED
        BY <4>1, <4>2, Zenon
    <3>2. CASE n # 0
      <4>1. PICK last : n \in 1 .. n /\ last = TokenAt(t, n).last
        BY <3>2
      <4> QED
        BY <1>1, <4>1, RestIs
    <3> QED
      BY <3>1, <3>2
  <2>3. k \o <<>> = k
    BY <2>1
  <2>4. P[n].vars = Known(t, n + 1, P[(n + 1) - 1]) \o V[n + 1]
    BY <2>1, <2>2, <2>3, Zenon
  <2>5. n + 1 \in 1 .. n + 1 /\ Good(n + 1)
    BY <2>4
  <2> QED
    <3> HIDE DEF Good
    <3> QED
      BY <1>2, <2>5
<1>5. ASSUME NEW j \in 1 .. n, \A k \in j + 1 .. n + 1 : k \in S PROVE j \in S
  <2>1. SUFFICES ASSUME Ready(t, j, P[j - 1]), PlainFrom(t)[j]
                 PROVE  P[n].vars = Known(t, j, P[j - 1]) \o V[j]
    <3>1. j \in 1 .. n + 1
      OBVIOUS
    <3> QED
      BY <1>2, <3>1
  <2>2. PICK last, next : last = TokenAt(t, j).last /\ next = last + 1
    OBVIOUS
  <2>3. PlainToken(t, j) /\ PlainFrom(t)[next]
    BY <1>1, <2>1, <2>2, PlainIs
  <2>4. Rests(t, V, j, last)
    BY <1>1, <2>2, RestIs
  <2>5. last \in j .. n /\ next \in j + 1 .. n + 1 /\ next - 1 = last
    BY <1>1, <2>2, <2>4 DEF Rests
  <2>6. Reads(t, j, P[j - 1], last, P[last])
    <3>1. j \in 1 .. Len(t) /\ (Parsable(t) \/ ~Lone(t, j))
      BY <1>1
    <3> QED
      BY <2>1, <2>2, <2>3, <3>1, TokenRead
  <2>7. PICK a, b, c, v : /\ a = Known(t, j, P[j - 1]) /\ b = V[next] /\ v = Var(t, j, last)
                          /\ c = Known(t, next, P[last])
    OBVIOUS
  <2>8. P[n].vars = c \o b
    <3>1. Ready(t, next, P[next - 1])
      BY <2>2, <2>5, <2>6 DEF Reads
    <3>2. Good(next)
      <4> HIDE DEF Good
      <4> QED
        BY <1>2, <1>5, <2>5
    <3> QED
      BY <2>3, <2>5, <2>7, <3>1, <3>2
  <2>9. a \in Seq(Variable) /\ b \in Seq(Variable)
    <3>1. j \in 1 .. n + 1 /\ next \in 1 .. n + 1
      BY <2>5
    <3> QED
      BY <1>3, <2>7, <3>1
  <2>10. CASE TokenAt(t, j).kind = "var"
    <3>1. c = Append(a, v) /\ V[j] = <<v>> \o b
      BY <2>2, <2>4, <2>6, <2>7, <2>10, Zenon DEF Reads, Rests
    <3>2. v \in Variable
      <4>1. j \in 1 .. Len(t) /\ last \in j .. Len(t)
        BY <1>1, <2>5
      <4> QED
        BY <2>7, <4>1, VarIs
    <3>3. Append(a, v) \o b = a \o (<<v>> \o b)
      BY <2>9, <3>2, Regrouped
    <3> QED
      BY <2>7, <2>8, <3>1, <3>3, Zenon
  <2>11. CASE TokenAt(t, j).kind # "var"
    <3>1. c = a /\ V[j] = <<>> \o b
      BY <2>2, <2>4, <2>6, <2>7, <2>11, Zenon DEF Reads, Rests
    <3>2. <<>> \o b = b
      BY <2>9
    <3> QED
      BY <2>7, <2>8, <3>1, <3>2, Zenon
  <2> QED
    BY <2>10, <2>11
<1>6. i \in S
  <2>1. 1 .. n + 1 \subseteq S
    <3> HIDE DEF Good
    <3> QED
      BY <1>4, <1>5, DownFrom
  <2> QED
    BY <1>1, <2>1
<1>7. Good(i)
  <2> HIDE DEF Good
  <2> QED
    BY <1>2, <1>6
<1> QED
  BY <1>1, <1>7

LEMMA AllVariablesFound ==
    ASSUME NEW t \in Seq(Char), Plain(t),
           Parsable(t) \/ \A j \in 1 .. Len(t) : ~Lone(t, j)
    PROVE  ParseTemplate(t) = VariablesOf(t)
<1>1. PICK P, n : P = Parsing(t) /\ n = Len(t) /\ n \in Nat
  OBVIOUS
<1>2. P[0] = ParserStart
  BY <1>1, ParsingIs
<1>3. PICK s : s = P[0] /\ In(s, "text", s.vars) /\ s.vars = <<>> /\ s.mode = "text"
  BY <1>2 DEF ParserStart, In
<1>4. Ready(t, 1, P[1 - 1]) /\ Known(t, 1, P[1 - 1]) = <<>>
  <2>1. 1 - 1 = 0
    OBVIOUS
  <2> QED
    BY <1>3, <2>1 DEF Ready, Known
<1>5. PlainFrom(t)[1]
  BY DEF Plain
<1>6. PICK b : b = VariablesFrom(t)[1] /\ b \in Seq(Variable)
  <2>1. 1 \in 1 .. Len(t) + 1
    BY <1>1
  <2> QED
    BY <2>1, RestTyped
<1>7. P[n].vars = Known(t, 1, P[1 - 1]) \o VariablesFrom(t)[1]
  <2>1. PICK V, i : V = VariablesFrom(t) /\ i = 1
    OBVIOUS
  <2>2. i \in 1 .. Len(t) + 1 /\ Ready(t, i, P[i - 1]) /\ PlainFrom(t)[i]
    BY <1>1, <1>4, <1>5, <2>1
  <2>3. P[Len(t)].vars = Known(t, i, P[i - 1]) \o V[i]
    BY <1>1, <2>1, <2>2, RestFound
  <2> QED
    BY <1>1, <2>1, <2>3, Zenon
<1>8. <<>> \o b = b
  BY <1>6
<1> QED
  BY <1>1, <1>4, <1>6, <1>7, <1>8, Zenon DEF ParseTemplate, VariablesOf

\* On a plain text the parser finds the variables of the statement, and accepts it
\* unless it has a lone colon.
LEMMA ParserIsRight ==
    ASSUME BInv
    PROVE  ParserFindsVariables
<1>1. PICK t : t = template /\ t \in Seq(Char) /\ Len(t) \in Nat
  BY DEF BInv
<1>2. ASSUME Plain(t), Parsable(t) PROVE ParseTemplate(t) = VariablesOf(t)
  BY <1>1, <1>2, AllVariablesFound
<1>3. ASSUME Plain(t), Parsable(t), NEW name \in BindNames
      PROVE  ~IsVariableParsed(t, name) <=>
               \E i \in DOMAIN VariablesOf(t) : VariablesOf(t)[i].name = Key(name)
  BY <1>2, <1>3, Zenon DEF IsVariableParsed
<1>4. ASSUME Plain(t), ~Parsable(t)
      PROVE  \E i \in 1 .. Len(t) - 1 : t[i] = ":" /\ t[i + 1] \notin Alnum \cup {":"}
  <2>1. SUFFICES ASSUME \A j \in 1 .. Len(t) : ~Lone(t, j)
                 PROVE  Parsable(t)
    <3>1. ASSUME NEW j \in 1 .. Len(t), Lone(t, j)
          PROVE  j \in 1 .. Len(t) - 1 /\ t[j] = ":" /\ t[j + 1] \notin Alnum \cup {":"}
      BY <1>1, <3>1 DEF Lone
    <3> QED
      BY <1>4, <3>1
  <2>2. PICK vars : vars = ParseTemplate(t) /\ vars = VariablesFrom(t)[1]
    BY <1>1, <1>4, <2>1, AllVariablesFound DEF VariablesOf
  <2>3. vars \in Seq(Variable) /\ \A k \in 1 .. Len(vars) : Named(vars[k])
    <3>1. 1 \in 1 .. Len(t) + 1
      BY <1>1
    <3> QED
      BY <1>1, <2>2, <3>1, RestTyped
  <2>4. ASSUME NEW k \in DOMAIN vars PROVE vars[k].name # <<":">>
    <3>1. Named(vars[k])
      BY <2>3
    <3>2. Len(<<":">>) = 1 /\ ~(1 >= 2)
      OBVIOUS
    <3>3. Len(vars[k].name) >= 2
      BY <3>1 DEF Named
    <3> QED
      BY <3>2, <3>3, Zenon
  <2> QED
    BY <2>2, <2>4 DEF Parsable
<1> QED
  BY <1>1, <1>2, <1>3, <1>4, Zenon DEF ParserFindsVariables

-----------------------------------------------------------------------------
\* What a text says

\* What the text says from the token at i on is what the token says, and the rest.
Says(t, bound, M, i, last) ==
    /\ last \in i .. Len(t)
    /\ TokenAt(t, i).kind = "var" => M[i] = ValueOf(bound, Var(t, i, last).name) \o M[last + 1]
    /\ TokenAt(t, i).kind # "var" => M[i] = SubSeq(t, i, last) \o M[last + 1]

LEMMA SaysIs ==
    ASSUME NEW t \in Seq(Char), NEW bound, NEW i \in 1 .. Len(t),
           NEW last, last = TokenAt(t, i).last, NEW M, M = MeaningFrom(t, bound)
    PROVE  Says(t, bound, M, i, last)
<1>1. PICK n \in Nat : Len(t) = n /\ i \in 1 .. n
  OBVIOUS
<1>2. last \in i .. n
  BY <1>1, TokenEnds
<1>3. M[i] = (IF TokenAt(t, i).kind = "var" THEN ValueOf(bound, Lower(SubSeq(t, i, last)))
              ELSE SubSeq(t, i, last)) \o M[last + 1]
  <2>1. i \in 1 .. n + 1 /\ ~(i > n)
    BY <1>1
  <2>2. M[i] = IF i > n THEN <<>>
               ELSE LET k == TokenAt(t, i)
                        text == SubSeq(t, i, k.last)
                    IN  (IF k.kind = "var" THEN ValueOf(bound, Lower(text)) ELSE text)
                        \o MeaningFrom(t, bound)[k.last + 1]
    BY <1>1, <2>1, MeaningIs
  <2> QED
    BY <2>1, <2>2, Zenon
<1>4. Var(t, i, last).name = Lower(SubSeq(t, i, last))
  BY <1>1, <1>2, VarIs
<1>5. CASE TokenAt(t, i).kind = "var"
  BY <1>1, <1>2, <1>3, <1>4, <1>5, Zenon DEF Says
<1>6. CASE TokenAt(t, i).kind # "var"
  BY <1>1, <1>2, <1>3, <1>6, Zenon DEF Says
<1> QED
  BY <1>5, <1>6

\* Nothing is said, and no variable is found, behind the text.
LEMMA AtTheEnd ==
    ASSUME NEW t \in Seq(Char), NEW bound
    PROVE  MeaningFrom(t, bound)[Len(t) + 1] = <<>> /\ VariablesFrom(t)[Len(t) + 1] = <<>>
<1>1. PICK n, i : Len(t) = n /\ n \in Nat /\ i = n + 1 /\ i \in 1 .. n + 1 /\ i > n
  OBVIOUS
<1>2. MeaningFrom(t, bound)[i]
        = IF i > n THEN <<>>
          ELSE LET k == TokenAt(t, i)
                   text == SubSeq(t, i, k.last)
               IN  (IF k.kind = "var" THEN ValueOf(bound, Lower(text)) ELSE text)
                   \o MeaningFrom(t, bound)[k.last + 1]
  BY <1>1, MeaningIs
<1>3. VariablesFrom(t)[i]
        = IF i > n THEN <<>>
          ELSE LET k == TokenAt(t, i)
               IN  (IF k.kind = "var"
                    THEN <<[name |-> Lower(SubSeq(t, i, k.last)), position |-> i]>>
                    ELSE <<>>) \o VariablesFrom(t)[k.last + 1]
  BY <1>1, VariablesIs
<1>4. MeaningFrom(t, bound)[i] = <<>>
  BY <1>1, <1>2, Zenon
<1>5. VariablesFrom(t)[i] = <<>>
  BY <1>1, <1>3, Zenon
<1> QED
  BY <1>1, <1>4, <1>5, Zenon

LEMMA MeaningTyped ==
    ASSUME NEW t \in Seq(Char), NEW bound, Bound(bound), NEW M, M = MeaningFrom(t, bound)
    PROVE  \A i \in 1 .. Len(t) + 1 : M[i] \in Seq(Char)
<1>1. PICK n \in Nat : n = Len(t)
  OBVIOUS
<1>2. PICK S : S = {i \in 1 .. n + 1 : M[i] \in Seq(Char)}
  OBVIOUS
<1>3. n + 1 \in S
  <2>1. M[n + 1] = <<>>
    BY <1>1, AtTheEnd
  <2>2. M[n + 1] \in Seq(Char)
    BY <2>1, EmptyIs, Zenon
  <2>3. n + 1 \in 1 .. n + 1
    OBVIOUS
  <2> QED
    BY <1>2, <2>2, <2>3
<1>4. ASSUME NEW i \in 1 .. n, \A j \in i + 1 .. n + 1 : j \in S PROVE i \in S
  <2>1. PICK last, rest : last = TokenAt(t, i).last /\ rest = M[last + 1]
    OBVIOUS
  <2>2. Says(t, bound, M, i, last)
    BY <1>1, <2>1, SaysIs
  <2>3. last \in i .. n /\ rest \in Seq(Char)
    <3>1. last \in i .. n
      BY <1>1, <2>2 DEF Says
    <3>2. last + 1 \in i + 1 .. n + 1
      BY <3>1
    <3> QED
      BY <1>2, <1>4, <2>1, <3>1, <3>2
  <2>4. PICK x : x \in Seq(Char) /\ M[i] = x \o rest
    <3>1. CASE TokenAt(t, i).kind = "var"
      <4>1. ValueOf(bound, Var(t, i, last).name) \in Seq(Char)
        BY ValueTyped
      <4> QED
        BY <2>1, <2>2, <3>1, <4>1, Zenon DEF Says
    <3>2. CASE TokenAt(t, i).kind # "var"
      <4>1. i \in 1 .. Len(t) + 1 /\ last \in 0 .. Len(t)
        BY <1>1, <2>3
      <4>2. SubSeq(t, i, last) \in Seq(Char)
        BY <4>1, PartTyped
      <4> QED
        BY <2>1, <2>2, <3>2, <4>2, Zenon DEF Says
    <3> QED
      BY <3>1, <3>2
  <2>5. M[i] \in Seq(Char)
    BY <2>3, <2>4
  <2> QED
    BY <1>2, <2>5
<1>5. 1 .. n + 1 \subseteq S
  BY <1>3, <1>4, DownFrom
<1> QED
  BY <1>1, <1>2, <1>5

\* The variables from the token at i on are those behind the first k.
Remains(vars, k, rest) ==
    /\ k + Len(rest) = Len(vars)
    /\ \A j \in 1 .. Len(rest) : rest[j] = vars[k + j]

LEMMA OneLess ==
    ASSUME NEW vars \in Seq(Variable), NEW k \in Nat, NEW v \in Variable,
           NEW rest \in Seq(Variable), NEW w, w = <<v>> \o rest, Remains(vars, k, w)
    PROVE  Remains(vars, k + 1, rest) /\ k + 1 \in 1 .. Len(vars) /\ vars[k + 1] = v
<1>1. PICK a : a = <<v>> /\ a \in Seq(Variable) /\ Len(a) = 1 /\ a[1] = v
  BY OneOf
<1>2. /\ Len(w) = 1 + Len(rest) /\ Len(rest) \in Nat
      /\ \A j \in 1 .. 1 + Len(rest) : w[j] = IF j <= 1 THEN a[j] ELSE rest[j - 1]
  BY <1>1, ConcatProperties
<1>3. k + Len(w) = Len(vars) /\ \A j \in 1 .. Len(w) : w[j] = vars[k + j]
  BY DEF Remains
<1>4. vars[k + 1] = v /\ k + 1 \in 1 .. Len(vars)
  <2>1. 1 \in 1 .. 1 + Len(rest) /\ 1 \in 1 .. Len(w)
    BY <1>2
  <2>2. w[1] = a[1]
    BY <1>2, <2>1
  <2> QED
    BY <1>1, <1>2, <1>3, <2>1, <2>2
<1>5. ASSUME NEW j \in 1 .. Len(rest) PROVE rest[j] = vars[(k + 1) + j]
  <2>1. PICK l : /\ l = j + 1 /\ l \in 1 .. 1 + Len(rest) /\ l \in 1 .. Len(w) /\ ~(l <= 1)
                 /\ l - 1 = j /\ k + l = (k + 1) + j
    <3>1. j + 1 \in 1 .. 1 + Len(rest) /\ ~(j + 1 <= 1) /\ (j + 1) - 1 = j
      BY <1>2
    <3>2. k + (j + 1) = (k + 1) + j
      BY <1>2
    <3> QED
      BY <1>2, <3>1, <3>2
  <2>2. w[l] = rest[j]
    BY <1>2, <2>1
  <2>3. w[l] = vars[k + l]
    BY <1>3, <2>1
  <2> QED
    BY <2>1, <2>2, <2>3
<1>6. (k + 1) + Len(rest) = Len(vars)
  BY <1>2, <1>3
<1> QED
  BY <1>4, <1>5, <1>6 DEF Remains

LEMMA TextJoined ==
    /\ \A a, b \in Seq(Char) : a \o b \in Seq(Char)
    /\ \A a, b, c \in Seq(Char) : (a \o b) \o c = a \o (b \o c)
    /\ \A a \in Seq(Char) : a \o <<>> = a
OBVIOUS

\* The text with k values put in, up to the token at i, and what the rest says.
Made(t, vars, P, k, i, rest) ==
    (P[k].sql \o SubSeq(t, Shift(vars, k) + 1, i - 1)) \o rest

\* A token that is no variable is copied.
LEMMA Copies ==
    ASSUME NEW t \in Seq(Char), NEW h \in 0 .. Len(t), NEW i \in 1 .. Len(t), h < i,
           NEW last \in i .. Len(t), NEW a \in Seq(Char), NEW rest \in Seq(Char)
    PROVE  (a \o SubSeq(t, h + 1, last)) \o rest
             = (a \o SubSeq(t, h + 1, i - 1)) \o (SubSeq(t, i, last) \o rest)
<1>1. PICK n, l : n = Len(t) /\ n \in Nat /\ l = i - 1 /\ i = l + 1 /\ l \in 0 .. n
  OBVIOUS
<1>2. h + 1 \in 1 .. n + 1 /\ last \in 0 .. n /\ i \in 1 .. n + 1 /\ h + 1 <= l + 1 /\ l <= last
  BY <1>1
<1>3. PICK x, y, z : x = SubSeq(t, h + 1, l) /\ y = SubSeq(t, i, last) /\ z = SubSeq(t, h + 1, last)
  OBVIOUS
<1>4. x \in Seq(Char) /\ y \in Seq(Char) /\ z \in Seq(Char)
  BY <1>1, <1>2, <1>3, PartTyped
<1>5. x \o y = z
  <2>1. SubSeq(t, h + 1, l) \o SubSeq(t, l + 1, last) = SubSeq(t, h + 1, last)
    BY <1>1, <1>2, SideBySide
  <2> QED
    BY <1>1, <1>3, <2>1, Zenon
<1>6. (a \o x) \o (y \o rest) = (a \o (x \o y)) \o rest
  <2>1. PICK b : b = a \o x /\ b \in Seq(Char)
    BY <1>4, TextJoined
  <2>2. b \o (y \o rest) = (b \o y) \o rest
    <3>1. b \in Seq(Char) /\ y \in Seq(Char)
      BY <1>4, <2>1
    <3> QED
      BY <3>1, TextJoined, Zenon
  <2>3. (a \o x) \o y = a \o (x \o y)
    <3>1. a \in Seq(Char) /\ x \in Seq(Char) /\ y \in Seq(Char)
      BY <1>4
    <3> QED
      BY <3>1, TextJoined, Zenon
  <2> QED
    BY <2>1, <2>2, <2>3, Zenon
<1> QED
  BY <1>1, <1>3, <1>5, <1>6, Zenon

\* What is made of t: c variables, the text after each, and what there is to find and
\* to say from each token on.
Making(t, bound, vars, c, P, V, M) ==
    /\ Ordered(t, vars) /\ c = Len(vars) /\ P = PuttingValues(t, bound, vars)
    /\ V = VariablesFrom(t) /\ M = MeaningFrom(t, bound)

\* Wherever a token begins, the whole is what is made there, and the rest.
AllMade(t, vars, c, P, V, M) ==
    \A i \in 1 .. Len(t) + 1, k \in 0 .. c :
        Remains(vars, k, V[i]) /\ Shift(vars, k) < i =>
          P[c].sql \o SubSeq(t, Shift(vars, c) + 1, Len(t)) = Made(t, vars, P, k, i, M[i])

\* On a text whose variables are found, the values go where they belong.
LEMMA RestMade ==
    ASSUME NEW t \in Seq(Char), NEW bound, Bound(bound), NEW vars, NEW c, NEW P, NEW V, NEW M,
           Making(t, bound, vars, c, P, V, M)
    PROVE  AllMade(t, vars, c, P, V, M)
<1>n. PICK n : n = Len(t)
  OBVIOUS
<1>0. /\ Ordered(t, vars) /\ c = Len(vars) /\ P = PuttingValues(t, bound, vars)
      /\ V = VariablesFrom(t) /\ M = MeaningFrom(t, bound)
  BY <1>n DEF Making
<1>1. n \in Nat /\ c \in Nat /\ vars \in Seq(Variable)
  BY <1>n, <1>0 DEF Ordered
<1>2. PICK whole : whole = P[c].sql \o SubSeq(t, Shift(vars, c) + 1, n)
  OBVIOUS
<1> DEFINE Good(j) == \A l \in 0 .. c : Remains(vars, l, V[j]) /\ Shift(vars, l) < j
                                          => whole = Made(t, vars, P, l, j, M[j])
<1>3. PICK S : S = {j \in 1 .. n + 1 : Good(j)}
  OBVIOUS
<1>4. \A j \in 1 .. n + 1 : M[j] \in Seq(Char) /\ V[j] \in Seq(Variable)
  BY <1>n, <1>0, MeaningTyped, RestTyped
<1>5. \A l \in 0 .. c : P[l].sql \in Seq(Char) /\ Shift(vars, l) \in 0 .. n
  BY <1>n, <1>0, PutDoes
<1>6. Good(n + 1)
  <2>1. SUFFICES ASSUME NEW l \in 0 .. c, Remains(vars, l, V[n + 1])
                 PROVE  whole = Made(t, vars, P, l, n + 1, M[n + 1])
    OBVIOUS
  <2>2. M[n + 1] = <<>> /\ V[n + 1] = <<>>
    BY <1>n, <1>0, AtTheEnd
  <2>3. l = c
    <3>1. PICK e : e = V[n + 1] /\ e = <<>> /\ Len(e) = 0
      BY <1>n, <2>2
    <3>2. l + Len(e) = Len(vars)
      BY <1>n, <2>1, <3>1 DEF Remains
    <3> QED
      BY <1>n, <1>0, <1>1, <3>1, <3>2
  <2>4. PICK x : x = whole /\ x \in Seq(Char)
    <3>1. Shift(vars, c) + 1 \in 1 .. Len(t) + 1 /\ n \in 0 .. Len(t) /\ P[c].sql \in Seq(Char)
      BY <1>n, <1>1, <1>5
    <3>2. SubSeq(t, Shift(vars, c) + 1, n) \in Seq(Char)
      BY <1>n, <3>1, PartTyped
    <3> QED
      BY <1>2, <3>1, <3>2, TextJoined, Zenon
  <2>5. x \o <<>> = x /\ (n + 1) - 1 = n
    BY <1>n, <1>1, <2>4
  <2> QED
    BY <1>2, <2>2, <2>3, <2>4, <2>5, Zenon DEF Made
<1>7. ASSUME NEW j \in 1 .. n, \A m \in j + 1 .. n + 1 : Good(m) PROVE Good(j)
  <2>1. SUFFICES ASSUME NEW l \in 0 .. c, Remains(vars, l, V[j]), Shift(vars, l) < j
                 PROVE  whole = Made(t, vars, P, l, j, M[j])
    OBVIOUS
  <2>2. PICK last, next : last = TokenAt(t, j).last /\ next = last + 1
    OBVIOUS
  <2>3. Rests(t, V, j, last)
    BY <1>n, <1>0, <1>1, <2>2, RestIs
  <2>4. Says(t, bound, M, j, last)
    BY <1>n, <1>0, <2>2, SaysIs
  <2>5. last \in j .. n /\ next \in j + 1 .. n + 1 /\ next - 1 = last
    BY <1>n, <1>1, <2>2, <2>3 DEF Rests
  <2>6. Good(next)
    <3> HIDE DEF Good
    <3> QED
      BY <1>n, <1>7, <2>5
  <2>7. PICK rest, more : /\ rest = M[next] /\ rest \in Seq(Char)
                          /\ more = V[next] /\ more \in Seq(Variable)
    BY <1>n, <1>4, <2>5
  <2>8. PICK a, h : a = P[l].sql /\ a \in Seq(Char) /\ h = Shift(vars, l) /\ h \in 0 .. n /\ h < j
    BY <1>n, <1>5, <2>1
  <2>9. CASE TokenAt(t, j).kind # "var"
    <3>1. V[j] = more /\ M[j] = SubSeq(t, j, last) \o rest
      <4>1. V[j] = <<>> \o more /\ M[j] = SubSeq(t, j, last) \o rest
        BY <2>2, <2>3, <2>4, <2>7, <2>9, Zenon DEF Rests, Says
      <4> QED
        BY <1>n, <2>7, <4>1
    <3>2. Remains(vars, l, V[next]) /\ Shift(vars, l) < next
      <4>1. V[next] = V[j]
        BY <1>n, <2>7, <3>1
      <4>2. Remains(vars, l, V[next])
        BY <2>1, <4>1, Zenon
      <4> QED
        BY <1>n, <2>5, <2>8, <4>2
    <3>3. whole = Made(t, vars, P, l, next, rest)
      BY <1>n, <2>6, <2>7, <3>2
    <3>4. whole = (a \o SubSeq(t, h + 1, last)) \o rest
      BY <2>5, <2>8, <3>3, Zenon DEF Made
    <3>5. (a \o SubSeq(t, h + 1, last)) \o rest =
            (a \o SubSeq(t, h + 1, j - 1)) \o (SubSeq(t, j, last) \o rest)
      <4>1. last \in j .. Len(t) /\ h \in 0 .. Len(t) /\ j \in 1 .. Len(t)
        BY <1>n, <2>5, <2>8
      <4> QED
        <5>1. /\ last \in j .. Len(t) /\ h \in 0 .. Len(t) /\ j \in 1 .. Len(t) /\ h < j
              /\ a \in Seq(Char) /\ rest \in Seq(Char)
          BY <1>n, <2>7, <2>8, <4>1
        <5> QED
          BY <5>1, Copies, Zenon
    <3> QED
      BY <2>8, <3>1, <3>4, <3>5, Zenon DEF Made
  <2>10. CASE TokenAt(t, j).kind = "var"
    <3>1. PICK v, val : v = Var(t, j, last) /\ val = ValueOf(bound, v.name) /\ val \in Seq(Char)
      BY <1>n, ValueTyped
    <3>2. v \in Variable /\ v.position = j /\ End(v) = last
      BY <1>n, <2>5, <3>1, VarIs
    <3>3. PICK w : w = V[j] /\ w = <<v>> \o more
      BY <2>2, <2>3, <2>7, <2>10, <3>1, Zenon DEF Rests
    <3>4. M[j] = val \o rest
      BY <2>2, <2>4, <2>7, <2>10, <3>1, Zenon DEF Says
    <3>5. Remains(vars, l + 1, more) /\ l + 1 \in 1 .. Len(vars) /\ vars[l + 1] = v
      <4>1. l \in Nat /\ Remains(vars, l, w)
        <5>1. l \in Nat
          BY <1>n, <1>1
        <5>2. Remains(vars, l, w)
          BY <2>1, <3>3, Zenon
        <5> QED
          BY <1>n, <5>1, <5>2
      <4> QED
        BY <1>n, <1>0, <1>1, <2>7, <3>2, <3>3, <4>1, OneLess
    <3>6. PICK m : m = l + 1 /\ m \in 0 .. c /\ m > 0 /\ m - 1 = l /\ m # 0
      BY <1>n, <1>0, <1>1, <3>5
    <3>7. Shift(vars, m) = last
      BY <1>n, <3>2, <3>5, <3>6 DEF Shift
    <3>8. whole = Made(t, vars, P, m, next, rest)
      <4>1. Remains(vars, m, V[next]) /\ Shift(vars, m) < next
        BY <1>n, <2>2, <2>5, <2>7, <3>5, <3>6, <3>7
      <4> QED
        BY <1>n, <2>6, <2>7, <3>6, <4>1
    <3>9. P[m].sql = (a \o SubSeq(t, h + 1, j - 1)) \o val
      <4>1. Puts(t, bound, vars, P, m)
        BY <1>n, <1>0, <3>6, PutDoes
      <4> QED
        BY <2>8, <3>1, <3>2, <3>5, <3>6, <4>1, Zenon DEF Puts
    <3>10. PICK b : b = a \o SubSeq(t, h + 1, j - 1) /\ b \in Seq(Char)
      <4>1. h + 1 \in 1 .. Len(t) + 1 /\ j - 1 \in 0 .. Len(t)
        BY <1>n, <1>1, <2>8
      <4>2. SubSeq(t, h + 1, j - 1) \in Seq(Char)
        BY <1>n, <4>1, PartTyped
      <4> QED
        BY <1>n, <2>8, <4>2, TextJoined
    <3>11. SubSeq(t, last + 1, last) = <<>>
      <4>1. last \in Int /\ last + 1 \in Int /\ last < last + 1
        BY <1>n, <2>5
      <4> QED
        BY <1>n, <4>1, SubSeqEmpty
    <3>12. whole = ((b \o val) \o <<>>) \o rest
      BY <2>2, <2>5, <3>7, <3>8, <3>9, <3>10, <3>11, Zenon DEF Made
    <3>13. ((b \o val) \o <<>>) \o rest = b \o (val \o rest)
      <4>1. PICK d : d = b \o val /\ d \in Seq(Char)
        BY <1>n, <3>1, <3>10, TextJoined
      <4>2. d \o <<>> = d
        BY <1>n, <4>1
      <4>3. (b \o val) \o rest = b \o (val \o rest)
        <5>1. b \in Seq(Char) /\ val \in Seq(Char) /\ rest \in Seq(Char)
          BY <1>n, <2>7, <3>1, <3>10
        <5> QED
          BY <5>1, TextJoined, Zenon
      <4> QED
        BY <4>1, <4>2, <4>3, Zenon
    <3> QED
      BY <2>8, <3>4, <3>10, <3>12, <3>13, Zenon DEF Made
  <2> QED
    BY <1>n, <2>9, <2>10
<1>8. \A i \in 1 .. n + 1 : Good(i)
  <2> HIDE DEF Good
  <2>1. n + 1 \in S
    BY <1>n, <1>1, <1>3, <1>6
  <2>2. \A j \in 1 .. n : (\A m \in j + 1 .. n + 1 : m \in S) => j \in S
    BY <1>n, <1>1, <1>3, <1>7
  <2>3. 1 .. n + 1 \subseteq S
    BY <1>n, <1>1, <2>1, <2>2, DownFrom
  <2> QED
    BY <1>n, <1>3, <2>3
<1> QED
  BY <1>n, <1>2, <1>8 DEF AllMade

LEMMA CalculateMeans ==
    ASSUME NEW t \in Seq(Char), NEW bound, Bound(bound), Plain(t), Parsable(t)
    PROVE  Calculate(t, bound) = Meaning(t, bound)
<1>1. PICK vars, c, n, P, V, M :
        /\ vars = ParseTemplate(t) /\ c = Len(vars) /\ n = Len(t)
        /\ P = PuttingValues(t, bound, vars) /\ V = VariablesFrom(t) /\ M = MeaningFrom(t, bound)
  OBVIOUS
<1>2. Ordered(t, vars) /\ vars = V[1]
  BY <1>1, ParsedOrdered, AllVariablesFound DEF VariablesOf
<1>3. PICK i, k : i = 1 /\ k = 0 /\ i \in 1 .. n + 1 /\ k \in 0 .. c /\ c \in Nat /\ n \in Nat
  BY <1>1, <1>2 DEF Ordered
<1>4. Remains(vars, k, V[i]) /\ Shift(vars, k) < i
  BY <1>1, <1>2, <1>3 DEF Remains, Shift
<1>5. P[c].sql \o SubSeq(t, Shift(vars, c) + 1, n) = Made(t, vars, P, k, i, M[i])
  <2>1. Making(t, bound, vars, c, P, V, M)
    BY <1>1, <1>2 DEF Making
  <2>2. AllMade(t, vars, c, P, V, M)
    BY <2>1, RestMade
  <2> QED
    BY <1>1, <1>3, <1>4, <2>2 DEF AllMade
<1>6. P[0].sql = <<>> /\ P[c].shift = Shift(vars, c) /\ Shift(vars, 0) = 0
  <2>1. 0 \in 0 .. Len(vars) /\ c \in 0 .. Len(vars)
    BY <1>1, <1>3
  <2>2. P[0].sql = <<>> /\ P[c].shift = Shift(vars, c)
    BY <1>1, <1>2, <2>1, PutDoes
  <2> QED
    BY <2>2 DEF Shift
<1>7. SubSeq(t, 0 + 1, 1 - 1) = <<>>
  <2>1. 0 + 1 \in Int /\ 1 - 1 \in Int /\ 1 - 1 < 0 + 1
    OBVIOUS
  <2> QED
    BY <2>1, SubSeqEmpty
<1>8. PICK m : m = M[1] /\ m \in Seq(Char)
  <2>1. 1 \in 1 .. Len(t) + 1
    BY <1>1, <1>3
  <2> QED
    BY <1>1, <2>1, MeaningTyped
<1>9. Made(t, vars, P, k, i, M[i]) = (<<>> \o <<>>) \o m
  BY <1>3, <1>6, <1>7, <1>8, Zenon DEF Made
<1>10. (<<>> \o <<>>) \o m = m
  BY <1>8
<1>11. Calculate(t, bound) = P[c].sql \o SubSeq(t, P[c].shift + 1, n)
  BY <1>1, Zenon DEF Calculate
<1> QED
  BY <1>1, <1>5, <1>6, <1>8, <1>9, <1>10, <1>11, Zenon DEF Meaning

LEMMA SqlIsRight ==
    ASSUME BInv
    PROVE  SqlIsMeaning
<1>1. SUFFICES ASSUME calculated, ~unbound, Plain(template)
               PROVE  sqlText = Meaning(template, values)
  BY DEF SqlIsMeaning
<1>2. /\ template \in Seq(Char) /\ Bound(values) /\ Parsable(template)
      /\ sqlText = Calculate(template, values)
  BY <1>1 DEF BInv
<1> QED
  BY <1>1, <1>2, CalculateMeans

=============================================================================
