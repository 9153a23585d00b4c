----------------------------- MODULE Ignore_proofs -----------------------------
(***************************************************************************)
(* Proofs about what decides that a path is ignored: the matcher, and the list *)
(* of rules that asks it.                                                   *)
(*                                                                         *)
(* The matcher keeps one place to come back to for the last * and one for the  *)
(* last **, where a search would need a stack of them.  That this is enough is *)
(* said against a table: R[q][p] iff the pattern from q on matches the text    *)
(* from p on.  Means is shown to be such a table (TableExists); in the loop    *)
(*   NothingLost    a match is found from here, by the last * or by the last **, *)
(*                  exactly if there is one at all;                           *)
(*   StarsReach     what the last ** can still find is found by what comes     *)
(*                  after it, which is why the places before it may go;        *)
(*   StarShifts     as long as the last * may take more characters, what comes *)
(*                  after it matches as many characters later.                 *)
(*                                                                         *)
(* The list of rules: no edit is lost (Remembered is what NoEditLost needs from *)
(* the middle of a call), and the last rule that applies decides.              *)
(***************************************************************************)
EXTENDS IgnoreList, MCGlobMatch, WellFoundedInduction, TLAPS

(* A set of natural numbers that is not empty has a least element.          *)
LEMMA Least ==
  ASSUME NEW T \in SUBSET Nat, T # {}
  PROVE  \E x \in T : \A y \in T : x <= y
<1> DEFINE R == {ss \in Nat \X Nat : ss[1] < ss[2]}
<1>1. IsWellFoundedOn(R, Nat)
  BY NatLessThanWellFounded DEF OpToRel
<1>2. PICK x \in T : \A y \in T : ~ (<<y, x>> \in R)
  BY <1>1, WFMin
<1>3. \A y \in T : ~(y < x)
  BY <1>2 DEF R
<1> QED
  BY <1>3

(* A function can be defined from its last argument down: what F makes of one    *)
(* place and of the values at the places above it.                            *)
Typed(N, V, F) == \A p \in 1 .. N : \A f \in [1 .. N -> V] : F[p][f] \in V
FromAbove(N, V, F) ==
  \A p \in 1 .. N : \A f, h \in [1 .. N -> V] :
    (\A q \in p + 1 .. N : f[q] = h[q]) => F[p][f] = F[p][h]
Unfolds(N, F, f) == \A p \in 1 .. N : f[p] = F[p][f]

LEMMA RecursionDown ==
  ASSUME NEW N \in Nat, NEW V, NEW F, Typed(N, V, F), FromAbove(N, V, F), NEW v \in V
  PROVE  \E f \in [1 .. N -> V] : Unfolds(N, F, f)
<1> USE DEF Typed, FromAbove, Unfolds
<1> DEFINE Good(d, f) == \A p \in 1 .. N : p + d > N => f[p] = F[p][f]
           Fails == {d \in 0 .. N : ~ \E f \in [1 .. N -> V] : Good(d, f)}
<1>1. Fails = {}
  <2> SUFFICES ASSUME Fails # {} PROVE FALSE
    OBVIOUS
  <2>1. Fails \in SUBSET Nat
    OBVIOUS
  <2> HIDE DEF Fails
  <2>2. PICK d \in Fails : \A c \in Fails : d <= c
    BY <2>1, Least
  <2> USE DEF Fails
  <2>3. d \in 0 .. N /\ ~ \E f \in [1 .. N -> V] : Good(d, f)
    OBVIOUS
  <2>4. d # 0
    <3> SUFFICES ASSUME d = 0 PROVE FALSE
      OBVIOUS
    <3>1. [p \in 1 .. N |-> v] \in [1 .. N -> V]
      OBVIOUS
    <3>2. \A f : Good(0, f)
      OBVIOUS
    <3> QED
      BY <2>3, <3>1, <3>2
  <2>5. d - 1 \in 0 .. N /\ ~(d <= d - 1)
    BY <2>3, <2>4
  <2>6. PICK f \in [1 .. N -> V] : Good(d - 1, f)
    BY <2>2, <2>5
  <2> DEFINE a == N + 1 - d
             h == [f EXCEPT ![a] = F[a][f]]
  <2>7. a \in 1 .. N
    BY <2>3, <2>4
  <2>8. h \in [1 .. N -> V] /\ h[a] = F[a][f] /\ \A q \in 1 .. N : q # a => h[q] = f[q]
    <3>1. F[a][f] \in V
      BY <2>7
    <3> HIDE DEF a
    <3> QED
      BY <2>7, <3>1
  <2> HIDE DEF h
  <2>9. \A p \in 1 .. N : p + d > N => F[p][h] = F[p][f]
    <3> SUFFICES ASSUME NEW p \in 1 .. N, p + d > N PROVE F[p][h] = F[p][f]
      OBVIOUS
    <3>1. \A q \in p + 1 .. N : q \in 1 .. N /\ q # a
      BY <2>3
    <3>2. \A q \in p + 1 .. N : h[q] = f[q]
      BY <2>8, <3>1
    <3> QED
      BY <2>8, <3>2
  <2>10. Good(d, h)
    <3> SUFFICES ASSUME NEW p \in 1 .. N, p + d > N PROVE h[p] = F[p][h]
      OBVIOUS
    <3>1. CASE p = a
      BY <2>8, <2>9, <3>1
    <3>2. CASE p # a
      <4>1. p + (d - 1) > N
        BY <2>3, <3>2
      <4>2. f[p] = F[p][f]
        BY <2>6, <4>1
      <4> QED
        BY <2>8, <2>9, <3>2, <4>2
    <3> QED
      BY <3>1, <3>2
  <2> QED
    BY <2>3, <2>8, <2>10
<1>2. PICK f \in [1 .. N -> V] : Good(N, f)
  <2>1. N \in 0 .. N
    OBVIOUS
  <2> QED
    BY <1>1, <2>1
<1>3. \A p \in 1 .. N : p + N > N
  OBVIOUS
<1> QED
  BY <1>2, <1>3

-----------------------------------------------------------------------------
(* What a pattern means *)

(* One line of Means: from the place l of the pattern and k of the text.        *)
MeansLine(t, g, anywhere, match, l, k) ==
  LET From(a, part) == IsPrefix(part, SubSeq(g, a, Len(g)))
  IN  IF l > Len(g) THEN k > Len(t)
      ELSE IF l = Len(g) - 1 /\ From(l, <<"*", "*">>) THEN TRUE
      ELSE IF From(l, <<"*", "*", "/">>)
      THEN \E e \in k .. Len(t) + 1 : (e = k \/ anywhere \/ t[e - 1] = "/") /\ match[l + 3][e]
      ELSE IF From(l, <<"*", "*">>) THEN FALSE
      ELSE IF g[l] = "*"
      THEN \E e \in k .. Len(t) + 1 : (\A x \in k .. e - 1 : t[x] # "/") /\ match[l + 1][e]
      ELSE /\ k <= Len(t)
           /\ CASE g[l] = "?" -> t[k] # "/" /\ match[l + 1][k + 1]
                [] g[l] = "[" ->
                     /\ t[k] # "/" /\ InClass(g, l, t[k]) # Reversed(g, l)
                     /\ match[IF ClassEnd(g, l) > Len(g) THEN Len(g) + 1 ELSE ClassEnd(g, l) + 1][k + 1]
                [] g[l] = "\\" /\ l < Len(g) ->
                     CaseOf(t[k]) = CaseOf(g[l + 1]) /\ match[l + 2][k + 1]
                [] OTHER -> CaseOf(t[k]) = CaseOf(g[l]) /\ match[l + 1][k + 1]

Fits(t, g, anywhere, match) ==
  match = [l \in 1 .. Len(g) + 1 |-> [k \in 1 .. Len(t) + 1 |-> MeansLine(t, g, anywhere, match, l, k)]]

LEMMA AllOfIt ==
  ASSUME NEW S, NEW s \in Seq(S)
  PROVE  SubSeq(s, 1, Len(s)) = s
<1> DEFINE r == SubSeq(s, 1, Len(s))
<1>1. Len(s) \in Nat /\ r \in Seq(S) /\ Len(r) = Len(s) /\ \A q \in 1 .. Len(s) : r[q] = s[q]
  OBVIOUS
<1> HIDE DEF r
<1>2. r = s
  BY <1>1
<1> QED
  BY <1>2 DEF r

LEMMA Two ==
  ASSUME NEW S, NEW s \in Seq(S), Len(s) = 2, NEW a \in S, NEW b \in S
  PROVE  <<a, b>> = s <=> s[1] = a /\ s[2] = b
<1>1. ASSUME s[1] = a, s[2] = b PROVE <<a, b>> = s
  <2> DEFINE r == <<a, b>>
  <2>1. r \in Seq(S) /\ Len(r) = 2 /\ \A q \in 1 .. 2 : r[q] = s[q]
    BY <1>1
  <2> HIDE DEF r
  <2>2. r = s
    BY <2>1
  <2> QED
    BY <2>2 DEF r
<1> QED
  BY <1>1

LEMMA Three ==
  ASSUME NEW S, NEW s \in Seq(S), Len(s) = 3, NEW a \in S, NEW b \in S, NEW c \in S
  PROVE  <<a, b, c>> = s <=> s[1] = a /\ s[2] = b /\ s[3] = c
<1>1. ASSUME s[1] = a, s[2] = b, s[3] = c PROVE <<a, b, c>> = s
  <2> DEFINE r == <<a, b, c>>
  <2>1. r \in Seq(S) /\ Len(r) = 3 /\ \A q \in 1 .. 3 : r[q] = s[q]
    BY <1>1
  <2> HIDE DEF r
  <2>2. r = s
    BY <2>1
  <2> QED
    BY <2>2 DEF r
<1> QED
  BY <1>1

(* SubSeq and IsPrefix in Means ask whether two stars, or these and a slash, begin at l. *)
LEMMA Parts ==
  ASSUME NEW S, "*" \in S, "/" \in S, NEW g \in Seq(S), NEW l \in 1 .. Len(g)
  PROVE  /\ IsPrefix(<<"*", "*">>, SubSeq(g, l, Len(g))) <=> Twice(g, l)
         /\ IsPrefix(<<"*", "*", "/">>, SubSeq(g, l, Len(g))) <=> Slashed(g, l)
<1> DEFINE rest == SubSeq(g, l, Len(g))
<1>1. /\ Len(g) \in Nat /\ l \in Nat /\ Len(rest) = Len(g) - l + 1
      /\ \A q \in 1 .. Len(rest) : rest[q] = g[l + q - 1]
  OBVIOUS
<1>2. rest \in Seq(S)
  OBVIOUS
<1> HIDE DEF rest
<1>3. Len(<<"*", "*">>) = 2 /\ Len(<<"*", "*", "/">>) = 3
  OBVIOUS
<1>4. /\ SubSeq(<<"*", "*">>, 1, 2) = <<"*", "*">>
      /\ SubSeq(<<"*", "*", "/">>, 1, 3) = <<"*", "*", "/">>
  <2>1. <<"*", "*">> \in Seq(S) /\ <<"*", "*", "/">> \in Seq(S)
    OBVIOUS
  <2> QED
    BY <1>3, <2>1, AllOfIt
<1>5. ASSUME Len(rest) >= 2
      PROVE  <<"*", "*">> = SubSeq(rest, 1, 2) <=> rest[1] = "*" /\ rest[2] = "*"
  <2> DEFINE s == SubSeq(rest, 1, 2)
  <2>1. s \in Seq(S) /\ Len(s) = 2 /\ s[1] = rest[1] /\ s[2] = rest[2]
    BY <1>2, <1>5
  <2> HIDE DEF s
  <2>2. <<"*", "*">> = s <=> s[1] = "*" /\ s[2] = "*"
    BY <2>1, Two
  <2> QED
    BY <2>1, <2>2 DEF s
<1>6. ASSUME Len(rest) >= 3
      PROVE  <<"*", "*", "/">> = SubSeq(rest, 1, 3) <=> rest[1] = "*" /\ rest[2] = "*" /\ rest[3] = "/"
  <2> DEFINE s == SubSeq(rest, 1, 3)
  <2>1. s \in Seq(S) /\ Len(s) = 3 /\ s[1] = rest[1] /\ s[2] = rest[2] /\ s[3] = rest[3]
    BY <1>2, <1>6
  <2> HIDE DEF s
  <2>2. <<"*", "*", "/">> = s <=> s[1] = "*" /\ s[2] = "*" /\ s[3] = "/"
    BY <2>1, Three
  <2> QED
    BY <2>1, <2>2 DEF s
<1>7. /\ 2 <= Len(rest) <=> l + 1 <= Len(g)
      /\ 3 <= Len(rest) <=> l + 2 <= Len(g)
      /\ l + 1 - 1 = l /\ l + 2 - 1 = l + 1 /\ l + 3 - 1 = l + 2
  BY <1>1
<1>8. IsPrefix(<<"*", "*">>, rest) <=> 2 <= Len(rest) /\ rest[1] = "*" /\ rest[2] = "*"
  BY <1>3, <1>4, <1>5 DEF IsPrefix
<1>9. IsPrefix(<<"*", "*", "/">>, rest) <=>
        3 <= Len(rest) /\ rest[1] = "*" /\ rest[2] = "*" /\ rest[3] = "/"
  BY <1>3, <1>4, <1>6 DEF IsPrefix
<1>10. 2 <= Len(rest) => rest[1] = g[l] /\ rest[2] = g[l + 1]
  BY <1>1, <1>7
<1>11. 3 <= Len(rest) => rest[1] = g[l] /\ rest[2] = g[l + 1] /\ rest[3] = g[l + 2]
  BY <1>1, <1>7
<1> QED
  BY <1>7, <1>8, <1>9, <1>10, <1>11 DEF Twice, Slashed, rest

-----------------------------------------------------------------------------
(* Classes *)

LEMMA CodeIs ==
  ASSUME NEW c, Coded(c)
  PROVE  Code(c) \in Codes
<1>1. Code(c) = CHOOSE k \in Codes : Characters[k] = CaseOf(c)
  BY DEF Code, Codes
<1> QED
  BY <1>1 DEF Coded

(* One round of the loop of Class, from the character at p on.                  *)
With(takes, rest) == [rest EXCEPT !.matched = @ \/ takes]
Round(g, c, walk, p, last) ==
  IF p > Len(g) \/ g[p] = "]" THEN [end |-> p, matched |-> FALSE]
  ELSE IF last # 0 /\ g[p] = "-" /\ p < Len(g) /\ g[p + 1] # "]"
  THEN With(Code(c) <= Code(g[p + 1]) /\ Code(c) >= last, walk[p + 2][Code(g[p + 1])])
  ELSE With(Code(c) = Code(g[p]), walk[p + 1][Code(g[p])])

Lasts == 0 .. Len(Characters)
Found == [end : Nat, matched : BOOLEAN]

IsWalk(g, c, walk) ==
  walk = [p \in 1 .. Len(g) + 1 |-> [last \in Lasts |-> Round(g, c, walk, p, last)]]

(* Such a walk exists: each row is made of the rows above it. *)
LEMMA WalkExists ==
  ASSUME Len(Characters) \in Nat, NEW g, Len(g) \in Nat,
         \A p \in 1 .. Len(g) : Coded(g[p]), NEW c, Coded(c)
  PROVE  \E walk \in [1 .. Len(g) + 1 -> [Lasts -> Found]] : IsWalk(g, c, walk)
<1> DEFINE N == Len(g) + 1
           V == [Lasts -> Found]
           Row(p, f) == [last \in Lasts |-> Round(g, c, f, p, last)]
           F == [p \in 1 .. N |-> [f \in [1 .. N -> V] |-> Row(p, f)]]
<1>1. Code(c) \in Nat /\ Codes \subseteq Lasts /\ Codes \subseteq Nat /\ Lasts \subseteq Nat
  <2>1. Codes \subseteq Nat
    BY DEF Codes
  <2> QED
    BY <2>1, CodeIs DEF Codes, Lasts
<1>2. \A p \in 1 .. Len(g) : Code(g[p]) \in Codes
  BY CodeIs
<1>3. \A takes \in BOOLEAN : \A rest \in Found : With(takes, rest) \in Found
  BY DEF With, Found
<1>4. ASSUME NEW p \in 1 .. N, NEW f \in [1 .. N -> V], NEW last \in Lasts
      PROVE  Round(g, c, f, p, last) \in Found
  <2>1. CASE p > Len(g) \/ g[p] = "]"
    <3>1. [end |-> p, matched |-> FALSE] \in Found
      BY DEF Found
    <3> QED
      BY <2>1, <3>1 DEF Round
  <2>2. CASE /\ ~(p > Len(g) \/ g[p] = "]")
             /\ last # 0 /\ g[p] = "-" /\ p < Len(g) /\ g[p + 1] # "]"
    <3>1. p + 1 \in 1 .. Len(g) /\ p + 2 \in 1 .. N
      BY <2>2
    <3>2. Code(g[p + 1]) \in Lasts /\ Code(g[p + 1]) \in Nat /\ last \in Nat
      BY <1>1, <1>2, <3>1
    <3>3. f[p + 2][Code(g[p + 1])] \in Found
      BY <3>1, <3>2
    <3>4. (Code(c) <= Code(g[p + 1]) /\ Code(c) >= last) \in BOOLEAN
      BY <1>1, <3>2
    <3> QED
      BY <1>3, <2>2, <3>3, <3>4 DEF Round
  <2>3. CASE /\ ~(p > Len(g) \/ g[p] = "]")
             /\ ~(last # 0 /\ g[p] = "-" /\ p < Len(g) /\ g[p + 1] # "]")
    <3>1. p \in 1 .. Len(g) /\ p + 1 \in 1 .. N
      BY <2>3
    <3>2. Code(g[p]) \in Lasts
      BY <1>1, <1>2, <3>1
    <3>3. f[p + 1][Code(g[p])] \in Found
      BY <3>1, <3>2
    <3>4. (Code(c) = Code(g[p])) \in BOOLEAN
      OBVIOUS
    <3> QED
      BY <1>3, <2>3, <3>3, <3>4 DEF Round
  <2> QED
    BY <2>1, <2>2, <2>3
<1>5. ASSUME NEW p \in 1 .. N, NEW f \in [1 .. N -> V], NEW h \in [1 .. N -> V],
             \A q \in p + 1 .. N : f[q] = h[q], NEW last \in Lasts
      PROVE  Round(g, c, f, p, last) = Round(g, c, h, p, last)
  <2>1. p \in 1 .. Len(g) => p + 1 \in p + 1 .. N
    OBVIOUS
  <2>2. p < Len(g) => p + 2 \in p + 1 .. N
    OBVIOUS
  <2>3. p > Len(g) \/ p \in 1 .. Len(g)
    OBVIOUS
  <2> QED
    BY <1>5, <2>1, <2>2, <2>3 DEF Round
<1>6. \A p \in 1 .. N : \A f \in [1 .. N -> V] : F[p][f] \in V
  BY <1>4
<1>7. \A p \in 1 .. N : \A f, h \in [1 .. N -> V] :
        (\A q \in p + 1 .. N : f[q] = h[q]) => F[p][f] = F[p][h]
  <2> SUFFICES ASSUME NEW p \in 1 .. N, NEW f \in [1 .. N -> V], NEW h \in [1 .. N -> V],
                      \A q \in p + 1 .. N : f[q] = h[q]
               PROVE  Row(p, f) = Row(p, h)
    OBVIOUS
  <2>1. \A last \in Lasts : Round(g, c, f, p, last) = Round(g, c, h, p, last)
    BY <1>5
  <2> QED
    BY <2>1
<1>8. [last \in Lasts |-> [end |-> 0, matched |-> FALSE]] \in V
  BY DEF Found
<1>9. N \in Nat /\ \A p \in 1 .. N : \A f \in [1 .. N -> V] : F[p][f] = Row(p, f)
  OBVIOUS
<1> HIDE DEF F, V, N
<1>10. PICK f \in [1 .. N -> V] : \A p \in 1 .. N : f[p] = F[p][f]
  <2>1. Typed(N, V, F) /\ FromAbove(N, V, F)
    BY <1>6, <1>7 DEF Typed, FromAbove
  <2>2. \E f \in [1 .. N -> V] : Unfolds(N, F, f)
    BY <1>8, <1>9, <2>1, RecursionDown
  <2> QED
    BY <2>2 DEF Unfolds
<1>11. f = [p \in 1 .. N |-> Row(p, f)]
  BY <1>9, <1>10, ZenonT(60)
<1> QED
  BY <1>10, <1>11 DEF IsWalk, N, V

(* So the walk that Class chooses is one. *)
LEMMA ClassWalks ==
  ASSUME Len(Characters) \in Nat, NEW g, Len(g) \in Nat,
         \A p \in 1 .. Len(g) : Coded(g[p]), NEW c, Coded(c)
  PROVE  \E walk :
           /\ \A p \in 1 .. Len(g) + 1 : \A last \in Lasts :
                walk[p][last] = Round(g, c, walk, p, last)
           /\ \A k : Class(g, k, c) = walk[k + 1 + (IF Reversed(g, k) THEN 1 ELSE 0)][0]
<1> DEFINE chosen == CHOOSE walk : IsWalk(g, c, walk)
<1>1. \E walk : IsWalk(g, c, walk)
  BY WalkExists
<1>2. IsWalk(g, c, chosen)
  BY <1>1
<1>3. \A k : Class(g, k, c) = chosen[k + 1 + (IF Reversed(g, k) THEN 1 ELSE 0)][0]
  BY DEF Class, IsWalk, Round, With, Lasts
<1>4. \A p \in 1 .. Len(g) + 1 : \A last \in Lasts :
        chosen[p][last] = Round(g, c, chosen, p, last)
  <2> HIDE DEF chosen
  <2>1. chosen = [p \in 1 .. Len(g) + 1 |-> [last \in Lasts |-> Round(g, c, chosen, p, last)]]
    BY <1>2 DEF IsWalk
  <2>2. \A p \in 1 .. Len(g) + 1 :
          chosen[p] = [last \in Lasts |-> Round(g, c, chosen, p, last)]
    BY <2>1
  <2> QED
    BY <2>2
<1> HIDE DEF chosen
<1> QED
  BY <1>3, <1>4
(* The codes named by a class, from the place p of its text on.                 *)
NamedLine(g, past, named, p) ==
  IF p = past THEN {}
  ELSE IF p + 2 < past /\ g[p + 1] = "-"
  THEN {Code(g[p])} \cup (Code(g[p]) .. Code(g[p + 2])) \cup named[p + 3]
  ELSE {Code(g[p])} \cup named[p + 1]

IsNamed(g, first, past, named) ==
  named = [p \in first .. past |-> NamedLine(g, past, named, p)]

(* The sets that Named chooses from exist, by the same recursion. *)
LEMMA NamedExists ==
  ASSUME NEW g, NEW past \in Nat, NEW first \in 1 .. past,
         \A p \in first .. past - 1 : Coded(g[p])
  PROVE  \E named : IsNamed(g, first, past, named)
<1> DEFINE V == SUBSET Nat
           Row(p, f) == IF p < first THEN {} ELSE NamedLine(g, past, f, p)
           F == [p \in 1 .. past |-> [f \in [1 .. past -> V] |-> Row(p, f)]]
<1>1. \A p \in first .. past - 1 : Code(g[p]) \in Nat
  BY CodeIs DEF Codes
<1>2. ASSUME NEW p \in 1 .. past, NEW f \in [1 .. past -> V]
      PROVE  Row(p, f) \in V
  <2>1. CASE p < first
    BY <2>1
  <2>2. CASE p = past
    BY <2>2 DEF NamedLine
  <2>3. CASE p >= first /\ p # past /\ p + 2 < past /\ g[p + 1] = "-"
    <3>1. p \in first .. past - 1 /\ p + 2 \in first .. past - 1 /\ p + 3 \in 1 .. past
      BY <2>3
    <3>2. Code(g[p]) \in Nat /\ Code(g[p + 2]) \in Nat /\ f[p + 3] \in V
      BY <1>1, <3>1
    <3>3. {Code(g[p])} \cup (Code(g[p]) .. Code(g[p + 2])) \cup f[p + 3] \in V
      BY <3>2
    <3> QED
      BY <2>3, <3>3 DEF NamedLine
  <2>4. CASE p >= first /\ p # past /\ ~(p + 2 < past /\ g[p + 1] = "-")
    <3>1. p \in first .. past - 1 /\ p + 1 \in 1 .. past
      BY <2>4
    <3>2. Code(g[p]) \in Nat /\ f[p + 1] \in V
      BY <1>1, <3>1
    <3>3. {Code(g[p])} \cup f[p + 1] \in V
      BY <3>2
    <3> QED
      BY <2>4, <3>3 DEF NamedLine
  <2> QED
    BY <2>1, <2>2, <2>3, <2>4
<1>3. ASSUME NEW p \in 1 .. past, NEW f \in [1 .. past -> V], NEW h \in [1 .. past -> V],
             \A q \in p + 1 .. past : f[q] = h[q]
      PROVE  Row(p, f) = Row(p, h)
  <2>1. p # past => p + 1 \in p + 1 .. past
    OBVIOUS
  <2>2. p + 2 < past => p + 3 \in p + 1 .. past
    OBVIOUS
  <2> QED
    BY <1>3, <2>1, <2>2 DEF NamedLine
<1>4. \A p \in 1 .. past : \A f \in [1 .. past -> V] : F[p][f] = Row(p, f)
  OBVIOUS
<1> HIDE DEF F, Row
<1>5. Typed(past, V, F)
  BY <1>2, <1>4 DEF Typed
<1>6. FromAbove(past, V, F)
  BY <1>3, <1>4 DEF FromAbove
<1>7. PICK f \in [1 .. past -> V] : Unfolds(past, F, f)
  <2>1. {} \in V
    OBVIOUS
  <2> HIDE DEF V
  <2> QED
    BY <1>5, <1>6, <2>1, RecursionDown
<1> DEFINE named == [p \in first .. past |-> f[p]]
<1>8. \A p \in first .. past : named[p] = NamedLine(g, past, f, p)
  <2> SUFFICES ASSUME NEW p \in first .. past PROVE f[p] = NamedLine(g, past, f, p)
    OBVIOUS
  <2>1. p \in 1 .. past /\ ~(p < first)
    OBVIOUS
  <2>2. f[p] = Row(p, f)
    BY <1>4, <1>7, <2>1 DEF Unfolds
  <2> QED
    BY <2>1, <2>2 DEF Row
<1>9. \A p \in first .. past : NamedLine(g, past, f, p) = NamedLine(g, past, named, p)
  <2> SUFFICES ASSUME NEW p \in first .. past
               PROVE  NamedLine(g, past, f, p) = NamedLine(g, past, named, p)
    OBVIOUS
  <2>1. p # past => named[p + 1] = f[p + 1]
    OBVIOUS
  <2>2. p + 2 < past => named[p + 3] = f[p + 3]
    OBVIOUS
  <2> QED
    BY <2>1, <2>2 DEF NamedLine
<1>10. named = [p \in first .. past |-> NamedLine(g, past, named, p)]
  BY <1>8, <1>9
<1> HIDE DEF named
<1> QED
  BY <1>10 DEF IsNamed

NamedFrom(g, first, past, named) ==
  /\ \A p \in first .. past : named[p] = NamedLine(g, past, named, p)
  /\ Named(g, first, past) = named[first]

LEMMA NamedUnfolds ==
  ASSUME NEW g, NEW past \in Nat, NEW first \in 1 .. past,
         \A p \in first .. past - 1 : Coded(g[p])
  PROVE  \E named : NamedFrom(g, first, past, named)
<1> DEFINE chosen == CHOOSE named : IsNamed(g, first, past, named)
<1>1. \E named : IsNamed(g, first, past, named)
  BY NamedExists
<1>2. IsNamed(g, first, past, chosen)
  BY <1>1
<1>3. Named(g, first, past) = chosen[first]
  BY DEF Named, IsNamed, NamedLine
<1> HIDE DEF chosen
<1>4. \A p \in first .. past : chosen[p] = NamedLine(g, past, chosen, p)
  <2>1. chosen = [p \in first .. past |-> NamedLine(g, past, chosen, p)]
    BY <1>2 DEF IsNamed
  <2> QED
    BY <2>1
<1> QED
  BY <1>3, <1>4 DEF NamedFrom
(* A class ends at its first ], or with the pattern.                           *)
LEMMA EndOfClass ==
  ASSUME NEW g, Len(g) \in Nat, NEW l \in 1 .. Len(g)
  PROVE  /\ ClassEnd(g, l) \in l + 1 .. Len(g) + 1
         /\ ClassEnd(g, l) <= Len(g) => g[ClassEnd(g, l)] = "]"
         /\ \A q \in l + 1 .. ClassEnd(g, l) - 1 : g[q] # "]"
<1> DEFINE close == {k \in l + 1 .. Len(g) : g[k] = "]"}
<1>1. CASE close = {}
  <2>1. ClassEnd(g, l) = Len(g) + 1
    BY <1>1 DEF ClassEnd
  <2>2. \A q \in l + 1 .. Len(g) + 1 - 1 : q \in l + 1 .. Len(g)
    OBVIOUS
  <2>3. \A q \in l + 1 .. Len(g) : g[q] # "]"
    BY <1>1
  <2> QED
    BY <2>1, <2>2, <2>3
<1>2. CASE close # {}
  <2>1. PICK e \in close : \A o \in close : e <= o
    <3>1. close \in SUBSET Nat
      OBVIOUS
    <3> HIDE DEF close
    <3> QED
      BY <1>2, <3>1, Least
  <2>2. ClassEnd(g, l) = CHOOSE k \in close : \A o \in close : k <= o
    BY <1>2 DEF ClassEnd
  <2>3. ClassEnd(g, l) \in close /\ \A o \in close : ClassEnd(g, l) <= o
    BY <2>1, <2>2
  <2>4. PICK x : x = ClassEnd(g, l)
    OBVIOUS
  <2>5. x \in l + 1 .. Len(g) /\ g[x] = "]"
    BY <2>3, <2>4
  <2>6. ASSUME NEW q \in l + 1 .. x - 1 PROVE g[q] # "]"
    <3>1. q \in l + 1 .. Len(g) /\ ~(x <= q)
      BY <2>5
    <3> QED
      BY <2>3, <2>4, <3>1
  <2> QED
    BY <2>4, <2>5, <2>6
<1> QED
  BY <1>1, <1>2

LEMMA IsBoolean ==
  ASSUME NEW x, NEW S
  PROVE  \E b \in BOOLEAN : b = (x \in S)
<1>1. TRUE \in BOOLEAN /\ FALSE \in BOOLEAN
  OBVIOUS
<1>2. CASE x \in S
  <2>1. TRUE = (x \in S)
    BY <1>2
  <2> QED
    BY <1>1, <2>1
<1>3. CASE x \notin S
  <2>1. FALSE = (x \in S)
    BY <1>3
  <2> QED
    BY <1>1, <2>1
<1> QED
  BY <1>2, <1>3

LEMMA WithLemma ==
  ASSUME NEW x, NEW a \in BOOLEAN, NEW b \in BOOLEAN, NEW rest,
         rest = [end |-> x, matched |-> b]
  PROVE  With(a, rest) = [end |-> x, matched |-> (b \/ a)]
BY DEF With

(* g is what is left of w without its first o characters.                       *)
Rest(w, g, o) ==
  o \in Nat /\ Len(g) \in Nat /\ Len(w) = Len(g) + o /\ \A q \in 1 .. Len(g) : w[q + o] = g[q]

ClassWithin(g, first, past) ==
  /\ past <= Len(g) => g[past] = "]"
  /\ \A q \in first .. past - 1 : g[q] # "]"
WalkOf(w, c, walk) ==
  \A p \in 1 .. Len(w) + 1 : \A last \in Lasts : walk[p][last] = Round(w, c, walk, p, last)
NamedOf(g, first, past, named) ==
  \A p \in first .. past : named[p] = NamedLine(g, past, named, p)

(* The loop reads off a class what the class names.  w is the pattern and g what *)
(* is left of it without o characters.                                       *)
LEMMA WalkNames ==
  ASSUME Len(Characters) \in Nat, NEW c, Coded(c), NEW w, NEW g, NEW o, Rest(w, g, o),
         NEW past \in 1 .. Len(g) + 1, NEW first \in 1 .. past,
         ClassWithin(g, first, past), AllCoded(g), NoneShared(g, first, past),
         NEW walk, WalkOf(w, c, walk), NEW named, NamedOf(g, first, past, named)
  PROVE  walk[first + o][0] = [end |-> past + o, matched |-> (Code(c) \in named[first])]
<1> USE DEF Rest, ClassWithin, AllCoded, WalkOf, NamedOf
<1> DEFINE Right(p) == \A last \in Lasts :
             (p = past \/ (p = first /\ last = 0) \/ ~(g[p] = "-" /\ p + 1 < past)) =>
               walk[p + o][last] = [end |-> past + o, matched |-> (Code(c) \in named[p])]
           Wrong == {d \in 0 .. past - first : ~Right(past - d)}
<1>1. Code(c) \in Nat /\ 0 \in Lasts /\ Codes \subseteq Lasts /\ \A k \in Codes : k \in Nat /\ k # 0
  BY CodeIs DEF Codes, Lasts
<1>2. \A q \in 1 .. Len(g) : Code(g[q]) \in Codes /\ Code(g[q]) \in Lasts /\ Code(g[q]) # 0
                             /\ Code(g[q]) \in Nat
  BY <1>1, CodeIs
<1>3. Wrong = {}
  <2> SUFFICES ASSUME Wrong # {} PROVE FALSE
    OBVIOUS
  <2>1. Wrong \in SUBSET Nat
    OBVIOUS
  <2>2. PICK d \in Wrong : \A e \in Wrong : d <= e
    <3> HIDE DEF Wrong
    <3> QED
      BY <2>1, Least
  <2> DEFINE p == past - d
  <2>3. d \in 0 .. past - first /\ ~Right(p)
    OBVIOUS
  <2>4. p \in first .. past /\ p \in Nat /\ p + o \in 1 .. Len(w) + 1
    BY <2>3
  <2>5. \A q \in p + 1 .. past : Right(q)
    <3> SUFFICES ASSUME NEW q \in p + 1 .. past, ~Right(q) PROVE FALSE
      OBVIOUS
    <3>1. past - q \in 0 .. past - first /\ past - (past - q) = q /\ ~(d <= past - q)
      BY <2>3
    <3> HIDE DEF Right
    <3> QED
      BY <2>2, <3>1
  <2> HIDE DEF Wrong, p
  <2>6. PICK last \in Lasts :
          /\ p = past \/ (p = first /\ last = 0) \/ ~(g[p] = "-" /\ p + 1 < past)
          /\ walk[p + o][last] # [end |-> past + o, matched |-> (Code(c) \in named[p])]
    BY <2>3
  <2>7. walk[p + o][last] = Round(w, c, walk, p + o, last)
    BY <2>4
  <2>8. named[p] = NamedLine(g, past, named, p)
    BY <2>4
  <2>9. CASE p = past
    <3>1. p + o > Len(w) \/ w[p + o] = "]"
      <4>1. CASE past <= Len(g)
        BY <2>4, <2>9, <4>1
      <4>2. CASE ~(past <= Len(g))
        BY <2>4, <2>9, <4>2
      <4> QED
        BY <4>1, <4>2
    <3>2. walk[p + o][last] = [end |-> p + o, matched |-> FALSE]
      BY <2>7, <3>1 DEF Round
    <3>3. named[p] = {}
      BY <2>8, <2>9 DEF NamedLine
    <3>4. (Code(c) \in named[p]) = FALSE
      BY <3>3
    <3> QED
      BY <2>6, <2>9, <3>2, <3>4
  <2>10. CASE p # past
    <3>1. p \in 1 .. Len(g) /\ p < past /\ p \in first .. past - 1
      BY <2>4, <2>10
    <3>2. w[p + o] = g[p] /\ g[p] # "]" /\ ~(p + o > Len(w)) /\ p + o \in Nat
      BY <2>4, <3>1
    <3>3. ~(last # 0 /\ w[p + o] = "-" /\ p + o < Len(w) /\ w[p + o + 1] # "]")
      <4> SUFFICES ASSUME last # 0, g[p] = "-", p + o < Len(w), w[p + o + 1] # "]" PROVE FALSE
        BY <3>2
      <4>1. ~(p + 1 < past)
        BY <2>6, <2>10
      <4>2. p + 1 = past /\ p + 1 \in 1 .. Len(g) /\ p + 1 + o = p + o + 1
        BY <2>4, <3>1, <4>1
      <4>3. w[p + 1 + o] = g[p + 1] /\ g[p + 1] = "]"
        BY <4>2, SMTT(60)
      <4> QED
        BY <4>2, <4>3
    <3> DEFINE L == Code(g[p])
    <3>4. walk[p + o][last] = With(Code(c) = L, walk[p + o + 1][L])
      BY <2>7, <3>2, <3>3 DEF Round
    <3>5. L \in Lasts /\ L # 0 /\ L \in Nat /\ p + o + 1 = p + 1 + o /\ p + 1 + o \in 1 .. Len(w) + 1
      BY <1>2, <2>4, <3>1
    <3>6. CASE p + 2 < past /\ g[p + 1] = "-"
      <4> DEFINE H == Code(g[p + 2])
                 within == Code(c) <= H /\ Code(c) >= L
      <4>1. /\ p + 1 \in 1 .. Len(g) /\ p + 2 \in 1 .. Len(g) /\ p + 2 \in first .. past - 1
            /\ p + 3 \in p + 1 .. past /\ p + 1 \in first + 1 .. past - 2
        BY <2>4, <3>1, <3>6
      <4>2. /\ w[p + 1 + o] = "-" /\ p + 1 + o < Len(w)
            /\ w[p + 1 + o + 1] = g[p + 2] /\ g[p + 2] # "]" /\ ~(p + 1 + o > Len(w))
            /\ p + 1 + o + 2 = p + 3 + o
        <5>1. p + 1 + o + 1 = p + 2 + o /\ p + 1 + o + 2 = p + 3 + o
              /\ p + 1 + o < Len(w) /\ ~(p + 1 + o > Len(w))
          BY <2>4, <4>1
        <5>2. w[p + 1 + o] = g[p + 1] /\ w[p + 2 + o] = g[p + 2] /\ g[p + 2] # "]"
          BY <4>1
        <5> QED
          BY <3>6, <5>1, <5>2
      <4>3. H \in Lasts /\ H \in Nat
        BY <1>2, <4>1
      <4> HIDE DEF H, L
      <4>4. walk[p + 1 + o][L] = With(within, walk[p + 3 + o][H])
        <5>1. walk[p + 1 + o][L] = Round(w, c, walk, p + 1 + o, L)
          BY <3>5
        <5> HIDE DEF within
        <5> QED
          BY <3>5, <4>2, <5>1 DEF Round, H, within
      <4>5. walk[p + 3 + o][H] = [end |-> past + o, matched |-> (Code(c) \in named[p + 3])]
        <5>1. p + 3 = past \/ ~(g[p + 3] = "-" /\ p + 3 + 1 < past)
          <6> SUFFICES ASSUME g[p + 3] = "-", p + 3 + 1 < past PROVE FALSE
            OBVIOUS
          <6>1. p + 1 \in first + 1 .. past - 4 /\ p + 1 + 2 = p + 3
            BY <2>4, <4>1
          <6> QED
            BY <3>6, <6>1 DEF NoneShared
        <5>2. Right(p + 3)
          BY <2>5, <4>1
        <5> QED
          BY <4>3, <5>1, <5>2
      <4>6. named[p] = {L} \cup (L .. H) \cup named[p + 3]
        BY <2>8, <2>10, <3>6 DEF NamedLine, L, H
      <4>7. (Code(c) \in named[p]) = (((Code(c) \in named[p + 3]) \/ within) \/ Code(c) = L)
        BY <1>1, <3>5, <4>3, <4>6, SMTT(60)
      <4>8. within \in BOOLEAN
        BY <1>1, <3>5, <4>3
      <4>9. PICK b \in BOOLEAN : b = (Code(c) \in named[p + 3])
        BY IsBoolean
      <4>10. PICK a \in BOOLEAN : a = within
        BY <4>8
      <4>11. PICK e \in BOOLEAN : e = (Code(c) = L)
        OBVIOUS
      <4> HIDE DEF within
      <4>12. walk[p + 1 + o][L] = [end |-> past + o, matched |-> (b \/ a)]
        <5>1. walk[p + 3 + o][H] = [end |-> past + o, matched |-> b]
          BY <4>5, <4>9
        <5>2. walk[p + 1 + o][L] = With(a, walk[p + 3 + o][H])
          BY <4>4, <4>10
        <5>3. With(a, walk[p + 3 + o][H]) = [end |-> past + o, matched |-> (b \/ a)]
          <6> DEFINE rest == walk[p + 3 + o][H]
                     x == past + o
          <6>1. rest = [end |-> x, matched |-> b]
            BY <5>1
          <6> HIDE DEF rest, x
          <6>2. With(a, rest) = [end |-> x, matched |-> (b \/ a)]
            BY <6>1, WithLemma, ZenonT(60)
          <6> QED
            BY <6>2 DEF rest, x
        <5> QED
          BY <5>2, <5>3
      <4>13. PICK f \in BOOLEAN : f = (b \/ a)
        OBVIOUS
      <4>14. walk[p + o][last] = [end |-> past + o, matched |-> (f \/ e)]
        <5>1. walk[p + o + 1][L] = [end |-> past + o, matched |-> f]
          BY <3>5, <4>12, <4>13
        <5>2. walk[p + o][last] = With(e, walk[p + o + 1][L])
          BY <3>4, <4>11
        <5> DEFINE rest == walk[p + o + 1][L]
        <5> HIDE DEF rest
        <5>3. rest = [end |-> past + o, matched |-> f]
          BY <5>1 DEF rest
        <5>4. With(e, rest) = [end |-> past + o, matched |-> (f \/ e)]
          <6> DEFINE x == past + o
          <6> HIDE DEF x
          <6>1. With(e, rest) = [end |-> x, matched |-> (f \/ e)]
            BY <5>3, WithLemma, ZenonT(60) DEF x
          <6> QED
            BY <6>1 DEF x
        <5> QED
          BY <5>2, <5>4 DEF rest
      <4>15. (f \/ e) = (Code(c) \in named[p])
        BY <4>7, <4>9, <4>10, <4>11, <4>13
      <4> QED
        BY <2>6, <4>14, <4>15
    <3>7. CASE ~(p + 2 < past /\ g[p + 1] = "-")
      <4>1. p + 1 \in p + 1 .. past
        BY <2>4, <3>1
      <4>2. Right(p + 1)
        BY <2>5, <4>1
      <4>3. p + 1 + 1 = p + 2
        BY <2>4
      <4>4. walk[p + 1 + o][L] = [end |-> past + o, matched |-> (Code(c) \in named[p + 1])]
        BY <3>5, <3>7, <4>2, <4>3
      <4>5. named[p] = {L} \cup named[p + 1]
        BY <2>8, <2>10, <3>7 DEF NamedLine
      <4> HIDE DEF L
      <4>6. (Code(c) \in named[p]) = ((Code(c) \in named[p + 1]) \/ Code(c) = L)
        BY <4>5
      <4>7. PICK b \in BOOLEAN : b = (Code(c) \in named[p + 1])
        BY IsBoolean
      <4>8. PICK e \in BOOLEAN : e = (Code(c) = L)
        OBVIOUS
      <4>9. walk[p + o][last] = [end |-> past + o, matched |-> (b \/ e)]
        <5>1. walk[p + o + 1][L] = [end |-> past + o, matched |-> b]
          BY <3>5, <4>4, <4>7
        <5>2. walk[p + o][last] = With(e, walk[p + o + 1][L])
          BY <3>4, <4>8
        <5> QED
          BY <5>1, <5>2, WithLemma, ZenonT(60)
      <4>10. (b \/ e) = (Code(c) \in named[p])
        BY <4>6, <4>7, <4>8
      <4> QED
        BY <2>6, <4>9, <4>10
    <3> QED
      BY <3>6, <3>7
  <2> QED
    BY <2>9, <2>10
<1>4. Right(first)
  <2>1. past - first \in 0 .. past - first /\ past - (past - first) = first
    OBVIOUS
  <2> HIDE DEF Right
  <2> QED
    BY <1>3, <2>1
<1> QED
  BY <1>1, <1>4

(* What stands in the rest of a pattern stands in the pattern. *)
LEMMA SameReversed ==
  ASSUME NEW w, NEW g, NEW o, Rest(w, g, o), NEW l \in 1 .. Len(g)
  PROVE  Reversed(w, l + o) = Reversed(g, l)
<1>1. (l + o < Len(w)) = (l < Len(g)) /\ l + o + 1 = l + 1 + o
  BY DEF Rest
<1>2. l < Len(g) => w[l + 1 + o] = g[l + 1]
  BY DEF Rest
<1> QED
  BY <1>1, <1>2 DEF Reversed

(* The class that the loop reads off at a [ is the one that is meant.           *)
LEMMA ClassMeans ==
  ASSUME Len(Characters) \in Nat, NEW c, Coded(c), NEW w, NEW g, NEW o, Rest(w, g, o),
         AllCoded(w), AllCoded(g), NEW l \in 1 .. Len(g), NoneShared(g, FirstOf(g, l), ClassEnd(g, l))
  PROVE  Class(w, l + o, c) = [end |-> ClassEnd(g, l) + o, matched |-> InClass(g, l, c)]
<1>1. Len(g) \in Nat /\ Len(w) \in Nat /\ o \in Nat
  BY DEF Rest
<1>2. PICK past : past = ClassEnd(g, l)
  OBVIOUS
<1>3. PICK first : first = FirstOf(g, l)
  OBVIOUS
<1>4. past \in l + 1 .. Len(g) + 1 /\ (past <= Len(g) => g[past] = "]")
      /\ \A q \in l + 1 .. past - 1 : g[q] # "]"
  BY <1>1, <1>2, EndOfClass
<1>5. first \in l + 1 .. past
  <2>1. CASE Reversed(g, l)
    <3>1. first = l + 2 /\ l + 1 \in 1 .. Len(g) /\ g[l + 1] # "]"
      BY <1>1, <1>3, <2>1 DEF Reversed, FirstOf
    <3>2. past # l + 1
      BY <1>4, <3>1
    <3> QED
      BY <1>4, <3>1, <3>2
  <2>2. CASE ~Reversed(g, l)
    BY <1>3, <1>4, <2>2 DEF FirstOf
  <2> QED
    BY <2>1, <2>2
<1>6. first \in 1 .. past /\ past \in 1 .. Len(g) + 1 /\ past \in Nat
      /\ \A p \in first .. past - 1 : p \in 1 .. Len(g) /\ p \in l + 1 .. past - 1
  BY <1>1, <1>4, <1>5
<1>7. PICK walk :
        /\ \A p \in 1 .. Len(w) + 1 : \A last \in Lasts :
             walk[p][last] = Round(w, c, walk, p, last)
        /\ \A k : Class(w, k, c) = walk[k + 1 + (IF Reversed(w, k) THEN 1 ELSE 0)][0]
  BY <1>1, ClassWalks, SMTT(60) DEF AllCoded
<1>8. PICK named : NamedFrom(g, first, past, named)
  <2>1. \A p \in first .. past - 1 : Coded(g[p])
    BY <1>6 DEF AllCoded
  <2>2. first \in 1 .. past /\ past \in Nat
    BY <1>6
  <2> QED
    BY <2>1, <2>2, NamedUnfolds
<1>9. walk[first + o][0] = [end |-> past + o, matched |-> (Code(c) \in named[first])]
  <2>1. ClassWithin(g, first, past)
    BY <1>4, <1>6 DEF ClassWithin
  <2>2. NoneShared(g, first, past)
    BY <1>2, <1>3
  <2>3. WalkOf(w, c, walk)
    BY <1>7 DEF WalkOf
  <2>4. NamedOf(g, first, past, named)
    BY <1>8 DEF NamedOf, NamedFrom
  <2> QED
    BY <1>6, <2>1, <2>2, <2>3, <2>4, WalkNames
<1>10. InClass(g, l, c) = (Code(c) \in named[first])
  BY <1>2, <1>3, <1>8 DEF NamedFrom, InClass, FirstOf
<1>11. Class(w, l + o, c) = walk[first + o][0]
  <2>1. Class(w, l + o, c) = walk[l + o + 1 + (IF Reversed(w, l + o) THEN 1 ELSE 0)][0]
    BY <1>7
  <2>2. l + o + 1 + (IF Reversed(g, l) THEN 1 ELSE 0) = first + o
    BY <1>1, <1>3 DEF FirstOf
  <2>3. Reversed(w, l + o) = Reversed(g, l)
    BY SameReversed
  <2> QED
    BY <2>1, <2>2, <2>3
<1> QED
  BY <1>2, <1>9, <1>10, <1>11

-----------------------------------------------------------------------------
(* The meaning of a pattern, from any place of it on *)

(* What one item of the pattern at l, that is not a star, does to the character  *)
(* at k, and where the next one begins.                                       *)
TakesAt(t, g, l, k) ==
  IF g[l] = "?" THEN t[k] # "/"
  ELSE IF g[l] = "[" THEN t[k] # "/" /\ InClass(g, l, t[k]) # Reversed(g, l)
  ELSE IF g[l] = "\\" /\ l < Len(g) THEN CaseOf(t[k]) = CaseOf(g[l + 1])
  ELSE CaseOf(t[k]) = CaseOf(g[l])

NextItem(g, l) ==
  IF g[l] = "[" THEN (IF ClassEnd(g, l) > Len(g) THEN Len(g) + 1 ELSE ClassEnd(g, l) + 1)
  ELSE IF g[l] = "\\" /\ l < Len(g) THEN l + 2
  ELSE l + 1

NoSlash(t, a, z) == \A x \in a .. z : t[x] # "/"

Plain(t, g, anywhere, match, l, k) ==
  IF l > Len(g) THEN k > Len(t)
  ELSE IF Twice(g, l) /\ l + 1 = Len(g) THEN TRUE
  ELSE IF Slashed(g, l)
  THEN \E e \in k .. Len(t) + 1 : (e = k \/ anywhere \/ t[e - 1] = "/") /\ match[l + 3][e]
  ELSE IF Twice(g, l) THEN FALSE
  ELSE IF g[l] = "*" THEN \E e \in k .. Len(t) + 1 : NoSlash(t, k, e - 1) /\ match[l + 1][e]
  ELSE k <= Len(t) /\ TakesAt(t, g, l, k) /\ match[NextItem(g, l)][k + 1]

LEMMA NextIsBehind ==
  ASSUME NEW g, Len(g) \in Nat, NEW l \in 1 .. Len(g)
  PROVE  NextItem(g, l) \in l + 1 .. Len(g) + 1
<1>1. ClassEnd(g, l) \in l + 1 .. Len(g) + 1
  BY EndOfClass
<1>2. PICK x : x = ClassEnd(g, l)
  OBVIOUS
<1> QED
  BY <1>1, <1>2 DEF NextItem

(* A line of Means without the names of its LET. *)
LEMMA LineIsPlain ==
  ASSUME NEW S, "*" \in S, "/" \in S, NEW g \in Seq(S), NEW t, Len(t) \in Nat, NEW match,
         NEW anywhere, NEW l \in 1 .. Len(g) + 1, NEW k \in 1 .. Len(t) + 1
  PROVE  MeansLine(t, g, anywhere, match, l, k) <=> Plain(t, g, anywhere, match, l, k)
<1>1. Len(g) \in Nat
  OBVIOUS
<1>2. CASE l > Len(g)
  BY <1>2 DEF MeansLine, Plain
<1>3. CASE ~(l > Len(g))
  <2>1. l \in 1 .. Len(g)
    BY <1>1, <1>3
  <2>2. /\ IsPrefix(<<"*", "*">>, SubSeq(g, l, Len(g))) <=> Twice(g, l)
        /\ IsPrefix(<<"*", "*", "/">>, SubSeq(g, l, Len(g))) <=> Slashed(g, l)
    BY <2>1, Parts
  <2>3. l = Len(g) - 1 <=> l + 1 = Len(g)
    BY <1>1, <2>1
  <2>4. CASE Twice(g, l) /\ l + 1 = Len(g)
    BY <1>3, <2>2, <2>3, <2>4 DEF MeansLine, Plain
  <2>5. CASE ~(Twice(g, l) /\ l + 1 = Len(g)) /\ (Slashed(g, l) \/ Twice(g, l) \/ g[l] = "*")
    BY <1>3, <2>2, <2>3, <2>5 DEF MeansLine, Plain, NoSlash
  <2>6. CASE ~Slashed(g, l) /\ ~Twice(g, l) /\ g[l] # "*"
    <3>1. MeansLine(t, g, anywhere, match, l, k) <=>
            /\ k <= Len(t)
            /\ CASE g[l] = "?" -> t[k] # "/" /\ match[l + 1][k + 1]
                 [] g[l] = "[" ->
                      /\ t[k] # "/" /\ InClass(g, l, t[k]) # Reversed(g, l)
                      /\ match[IF ClassEnd(g, l) > Len(g) THEN Len(g) + 1 ELSE ClassEnd(g, l) + 1][k + 1]
                 [] g[l] = "\\" /\ l < Len(g) ->
                      CaseOf(t[k]) = CaseOf(g[l + 1]) /\ match[l + 2][k + 1]
                 [] OTHER -> CaseOf(t[k]) = CaseOf(g[l]) /\ match[l + 1][k + 1]
      BY <1>3, <2>2, <2>6 DEF MeansLine
    <3>2. Plain(t, g, anywhere, match, l, k) <=>
            k <= Len(t) /\ TakesAt(t, g, l, k) /\ match[NextItem(g, l)][k + 1]
      BY <1>3, <2>6 DEF Plain
    <3>3. CASE g[l] = "?"
      BY <3>1, <3>2, <3>3 DEF TakesAt, NextItem
    <3>4. CASE g[l] = "["
      BY <3>1, <3>2, <3>4 DEF TakesAt, NextItem
    <3>5. CASE g[l] = "\\" /\ l < Len(g)
      BY <3>1, <3>2, <3>5 DEF TakesAt, NextItem
    <3>6. CASE g[l] # "?" /\ g[l] # "[" /\ ~(g[l] = "\\" /\ l < Len(g))
      BY <3>1, <3>2, <3>6 DEF TakesAt, NextItem
    <3> QED
      BY <3>3, <3>4, <3>5, <3>6
  <2> QED
    BY <2>4, <2>5, <2>6
<1> QED
  BY <1>2, <1>3

LEMMA LineIsBoolean ==
  ASSUME NEW t, NEW g, NEW anywhere, NEW f, NEW l, NEW k
  PROVE  MeansLine(t, g, anywhere, f, l, k) \in BOOLEAN
<1> DEFINE A == l > Len(g)
           B == l = Len(g) - 1 /\ IsPrefix(<<"*", "*">>, SubSeq(g, l, Len(g)))
           C == IsPrefix(<<"*", "*", "/">>, SubSeq(g, l, Len(g)))
           D == IsPrefix(<<"*", "*">>, SubSeq(g, l, Len(g)))
<1>1. CASE A
  BY <1>1 DEF MeansLine
<1>2. CASE ~A /\ B
  BY <1>2 DEF MeansLine
<1>3. CASE ~A /\ ~B /\ C
  BY <1>3 DEF MeansLine
<1>4. CASE ~A /\ ~B /\ ~C /\ D
  BY <1>4 DEF MeansLine
<1>5. CASE ~A /\ ~B /\ ~C /\ ~D /\ g[l] = "*"
  BY <1>5 DEF MeansLine
<1>6. CASE ~A /\ ~B /\ ~C /\ ~D /\ g[l] # "*"
  BY <1>6 DEF MeansLine
<1> QED
  BY <1>1, <1>2, <1>3, <1>4, <1>5, <1>6

(* The table that Means chooses exists, by recursion from the end of the pattern. *)
LEMMA MatchExists ==
  ASSUME NEW S, "*" \in S, "/" \in S, NEW g \in Seq(S), NEW t, Len(t) \in Nat, NEW anywhere
  PROVE  \E match \in [1 .. Len(g) + 1 -> [1 .. Len(t) + 1 -> BOOLEAN]] : Fits(t, g, anywhere, match)
<1> DEFINE N == Len(g) + 1
           V == [1 .. Len(t) + 1 -> BOOLEAN]
           Row(l, f) == [k \in 1 .. Len(t) + 1 |-> MeansLine(t, g, anywhere, f, l, k)]
           F == [l \in 1 .. N |-> [f \in [1 .. N -> V] |-> Row(l, f)]]
<1>1. Len(g) \in Nat /\ N \in Nat
  OBVIOUS
<1>2. \A l \in 1 .. N : \A f : \A k \in 1 .. Len(t) + 1 : MeansLine(t, g, anywhere, f, l, k) \in BOOLEAN
  BY LineIsBoolean
<1>3. ASSUME NEW l \in 1 .. N, NEW f \in [1 .. N -> V], NEW h \in [1 .. N -> V],
             \A q \in l + 1 .. N : f[q] = h[q], NEW k \in 1 .. Len(t) + 1
      PROVE  MeansLine(t, g, anywhere, f, l, k) <=> MeansLine(t, g, anywhere, h, l, k)
  <2>1. l <= Len(g) => l \in 1 .. Len(g) /\ NextItem(g, l) \in l + 1 .. N /\ l + 1 \in l + 1 .. N
    BY <1>1, NextIsBehind
  <2>2. Slashed(g, l) => l + 3 \in l + 1 .. N
    BY <1>1 DEF Slashed
  <2>3. Plain(t, g, anywhere, f, l, k) <=> Plain(t, g, anywhere, h, l, k)
    <3>1. l <= Len(g) => f[l + 1] = h[l + 1] /\ f[NextItem(g, l)] = h[NextItem(g, l)]
      BY <1>3, <2>1
    <3>2. Slashed(g, l) => f[l + 3] = h[l + 3]
      BY <1>3, <2>2
    <3>3. l > Len(g) \/ l <= Len(g)
      BY <1>1
    <3> QED
      BY <3>1, <3>2, <3>3 DEF Plain
  <2>4. (MeansLine(t, g, anywhere, f, l, k) <=> Plain(t, g, anywhere, f, l, k)) /\ (MeansLine(t, g, anywhere, h, l, k) <=> Plain(t, g, anywhere, h, l, k))
    BY LineIsPlain
  <2> QED
    BY <2>3, <2>4
<1>4. \A l \in 1 .. N : \A f \in [1 .. N -> V] : F[l][f] = Row(l, f) /\ Row(l, f) \in V
  BY <1>2
<1>5. \A l \in 1 .. N : \A f, h \in [1 .. N -> V] :
        (\A q \in l + 1 .. N : f[q] = h[q]) => Row(l, f) = Row(l, h)
  <2> SUFFICES ASSUME NEW l \in 1 .. N, NEW f \in [1 .. N -> V], NEW h \in [1 .. N -> V],
                      \A q \in l + 1 .. N : f[q] = h[q]
               PROVE  Row(l, f) = Row(l, h)
    OBVIOUS
  <2>1. \A k \in 1 .. Len(t) + 1 : MeansLine(t, g, anywhere, f, l, k) = MeansLine(t, g, anywhere, h, l, k)
    <3> SUFFICES ASSUME NEW k \in 1 .. Len(t) + 1
                 PROVE  MeansLine(t, g, anywhere, f, l, k) = MeansLine(t, g, anywhere, h, l, k)
      OBVIOUS
    <3>1. MeansLine(t, g, anywhere, f, l, k) <=> MeansLine(t, g, anywhere, h, l, k)
      BY <1>3
    <3>2. MeansLine(t, g, anywhere, f, l, k) \in BOOLEAN /\ MeansLine(t, g, anywhere, h, l, k) \in BOOLEAN
      BY <1>2
    <3> QED
      BY <3>1, <3>2
  <2> QED
    BY <2>1
<1> HIDE DEF F, Row
<1>6. Typed(N, V, F)
  BY <1>4 DEF Typed
<1>7. FromAbove(N, V, F)
  BY <1>4, <1>5, SMTT(60) DEF FromAbove
<1>8. PICK f \in [1 .. N -> V] : Unfolds(N, F, f)
  <2>1. [k \in 1 .. Len(t) + 1 |-> TRUE] \in V
    OBVIOUS
  <2> HIDE DEF V, N
  <2> QED
    BY <1>1, <1>6, <1>7, <2>1, RecursionDown
<1>9. \A l \in 1 .. N : f[l] = Row(l, f)
  BY <1>4, <1>8 DEF Unfolds
<1>10. f = [l \in 1 .. N |-> Row(l, f)]
  BY <1>9
<1> QED
  BY <1>10 DEF Fits, Row

LEMMA MeansUnfolds ==
  ASSUME NEW S, "*" \in S, "/" \in S, NEW g \in Seq(S), NEW t, Len(t) \in Nat, NEW anywhere
  PROVE  \E match \in [1 .. Len(g) + 1 -> [1 .. Len(t) + 1 -> BOOLEAN]] :
           /\ \A l \in 1 .. Len(g) + 1 : \A k \in 1 .. Len(t) + 1 :
                match[l][k] <=> Plain(t, g, anywhere, match, l, k)
           /\ Means(t, g, anywhere) = match[1][1]
<1> DEFINE chosen == CHOOSE match : Fits(t, g, anywhere, match)
<1>1. PICK some \in [1 .. Len(g) + 1 -> [1 .. Len(t) + 1 -> BOOLEAN]] : Fits(t, g, anywhere, some)
  BY MatchExists
<1>2. Fits(t, g, anywhere, chosen)
  BY <1>1
<1>3. Means(t, g, anywhere) = chosen[1][1]
  BY DEF Means, Fits, MeansLine
<1> HIDE DEF chosen
<1>4. \A l \in 1 .. Len(g) + 1 : chosen[l] = [k \in 1 .. Len(t) + 1 |-> MeansLine(t, g, anywhere, chosen, l, k)]
  BY <1>2 DEF Fits
<1>5. \A l \in 1 .. Len(g) + 1 : \A k \in 1 .. Len(t) + 1 : chosen[l][k] = MeansLine(t, g, anywhere, chosen, l, k)
  BY <1>4
<1>6. \A l \in 1 .. Len(g) + 1 : \A k \in 1 .. Len(t) + 1 :
        MeansLine(t, g, anywhere, chosen, l, k) \in BOOLEAN
  BY LineIsBoolean
<1>7. chosen \in [1 .. Len(g) + 1 -> [1 .. Len(t) + 1 -> BOOLEAN]]
  <2>1. chosen = [l \in 1 .. Len(g) + 1 |-> [k \in 1 .. Len(t) + 1 |-> MeansLine(t, g, anywhere, chosen, l, k)]]
    BY <1>2 DEF Fits
  <2>2. \A l \in 1 .. Len(g) + 1 :
          [k \in 1 .. Len(t) + 1 |-> MeansLine(t, g, anywhere, chosen, l, k)] \in [1 .. Len(t) + 1 -> BOOLEAN]
    BY <1>6
  <2> QED
    BY <2>1, <2>2
<1>8. \A l \in 1 .. Len(g) + 1 : \A k \in 1 .. Len(t) + 1 :
        chosen[l][k] <=> Plain(t, g, anywhere, chosen, l, k)
  <2> SUFFICES ASSUME NEW l \in 1 .. Len(g) + 1, NEW k \in 1 .. Len(t) + 1
               PROVE  chosen[l][k] <=> Plain(t, g, anywhere, chosen, l, k)
    OBVIOUS
  <2>1. chosen[l][k] = MeansLine(t, g, anywhere, chosen, l, k)
    BY <1>5
  <2>2. MeansLine(t, g, anywhere, chosen, l, k) <=> Plain(t, g, anywhere, chosen, l, k)
    BY LineIsPlain
  <2> QED
    BY <2>1, <2>2
<1> QED
  BY <1>3, <1>7, <1>8

(* What the loop compares with: positions are those of the whole path and        *)
(* pattern.                                                               *)
LiteralAt(w, q) == IF w[q] = "\\" /\ q < Len(w) THEN q + 1 ELSE q
LoopTakes(s, w, q, p) ==
  IF w[q] = "?" THEN s[p] # "/"
  ELSE IF w[q] = "[" THEN s[p] # "/" /\ Class(w, q, s[p]).matched # Reversed(w, q)
  ELSE CaseOf(w[LiteralAt(w, q)]) = CaseOf(s[p])
LoopNext(s, w, q, p) ==
  IF w[q] = "?" THEN q + 1
  ELSE IF w[q] = "["
  THEN (IF Class(w, q, s[p]).end <= Len(w) THEN Class(w, q, s[p]).end + 1 ELSE Class(w, q, s[p]).end)
  ELSE LiteralAt(w, q) + 1

(* The class, the escape and the letter of Means take what those of the loop take. *)
LEMMA Shifted ==
  ASSUME Len(Characters) \in Nat, NEW w, NEW g, NEW a, Rest(w, g, a),
         NEW s, NEW t, NEW b, Rest(s, t, b),
         AllCoded(s), AllCoded(w), AllCoded(g), ClassesClear(g),
         NEW l \in 1 .. Len(g), NEW k \in 1 .. Len(t)
  PROVE  /\ TakesAt(t, g, l, k) <=> LoopTakes(s, w, l + a, k + b)
         /\ NextItem(g, l) + a = LoopNext(s, w, l + a, k + b)
<1>1. /\ w[l + a] = g[l] /\ s[k + b] = t[k] /\ Coded(t[k])
      /\ Len(g) \in Nat /\ a \in Nat /\ Len(w) = Len(g) + a
  <2>1. k + b \in 1 .. Len(s) /\ s[k + b] = t[k]
    BY DEF Rest
  <2> QED
    BY <2>1 DEF Rest, AllCoded
<1>2. CASE g[l] = "["
  <2>1. Class(w, l + a, t[k]) = [end |-> ClassEnd(g, l) + a, matched |-> InClass(g, l, t[k])]
    BY <1>1, <1>2, ClassMeans DEF ClassesClear
  <2>2. Reversed(w, l + a) = Reversed(g, l)
    BY SameReversed
  <2>3. /\ Class(w, l + a, t[k]).end = ClassEnd(g, l) + a
        /\ Class(w, l + a, t[k]).matched = InClass(g, l, t[k])
    BY <2>1
  <2>4. PICK x : x = ClassEnd(g, l)
    OBVIOUS
  <2>5. x \in Nat
    BY <1>1, <2>4, EndOfClass
  <2>6. TakesAt(t, g, l, k) <=> LoopTakes(s, w, l + a, k + b)
    BY <1>1, <1>2, <2>2, <2>3 DEF TakesAt, LoopTakes
  <2>7. NextItem(g, l) = (IF x > Len(g) THEN Len(g) + 1 ELSE x + 1)
    BY <1>2, <2>4 DEF NextItem
  <2>8. LoopNext(s, w, l + a, k + b) = (IF x + a <= Len(w) THEN x + a + 1 ELSE x + a)
    BY <1>1, <1>2, <2>3, <2>4 DEF LoopNext
  <2>9. x <= Len(g) + 1
    BY <1>1, <2>4, EndOfClass
  <2>10. NextItem(g, l) + a = LoopNext(s, w, l + a, k + b)
    <3>1. x > Len(g) <=> ~(x + a <= Len(w))
      BY <1>1, <2>5
    <3>2. CASE x > Len(g)
      <4>1. x = Len(g) + 1
        <5>1. PICK end \in Nat : end = Len(g)
          BY <1>1
        <5>2. x <= end + 1 /\ x > end
          BY <2>9, <3>2, <5>1
        <5>3. x = end + 1
          BY <2>5, <5>2
        <5> QED
          BY <5>1, <5>3
      <4>2. NextItem(g, l) = Len(g) + 1
        BY <2>7, <3>2
      <4>3. LoopNext(s, w, l + a, k + b) = x + a
        BY <2>8, <3>1, <3>2
      <4> QED
        BY <4>1, <4>2, <4>3
    <3>3. CASE ~(x > Len(g))
      <4>1. NextItem(g, l) = x + 1
        BY <2>7, <3>3
      <4>2. LoopNext(s, w, l + a, k + b) = x + a + 1
        BY <2>8, <3>1, <3>3
      <4>3. x + 1 + a = x + a + 1
        BY <1>1, <2>5
      <4> QED
        BY <4>1, <4>2, <4>3
    <3> QED
      BY <3>2, <3>3
  <2> QED
    BY <2>6, <2>10
<1>3. CASE g[l] = "?"
  BY <1>1, <1>3 DEF TakesAt, NextItem, LoopTakes, LoopNext
<1>4. CASE g[l] # "[" /\ g[l] # "?"
  <2>1. l < Len(g) <=> l + a < Len(w)
    BY <1>1
  <2>2. l < Len(g) => w[l + a + 1] = g[l + 1]
    <3>1. l < Len(g) => l + 1 \in 1 .. Len(g) /\ l + 1 + a = l + a + 1
      BY <1>1
    <3> QED
      BY <3>1 DEF Rest
  <2>3. TakesAt(t, g, l, k) <=> LoopTakes(s, w, l + a, k + b)
    BY <1>1, <1>4, <2>1, <2>2 DEF TakesAt, LoopTakes, LiteralAt
  <2>4. NextItem(g, l) + a = LoopNext(s, w, l + a, k + b)
    BY <1>1, <1>4, <2>1 DEF NextItem, LoopNext, LiteralAt
  <2> QED
    BY <2>3, <2>4
<1> QED
  BY <1>2, <1>3, <1>4

(* A set of numbers up to N that is not empty has a greatest element. *)
LEMMA Greatest ==
  ASSUME NEW N \in Nat, NEW T \in SUBSET (0 .. N), T # {}
  PROVE  \E x \in T : \A y \in T : y <= x
<1> DEFINE U == {d \in 0 .. N : N - d \in T}
<1>1. U \in SUBSET Nat /\ U # {}
  <2>1. PICK y \in T : TRUE
    OBVIOUS
  <2>2. N - y \in 0 .. N /\ N - (N - y) = y
    OBVIOUS
  <2>3. N - y \in U
    BY <2>1, <2>2
  <2>4. U \in SUBSET Nat
    OBVIOUS
  <2> HIDE DEF U
  <2> QED
    BY <2>3, <2>4
<1>2. PICK d \in U : \A e \in U : d <= e
  <2> HIDE DEF U
  <2> QED
    BY <1>1, Least
<1>3. ASSUME NEW y \in T PROVE y <= N - d
  <2>1. N - y \in 0 .. N /\ N - (N - y) = y
    OBVIOUS
  <2>2. d <= N - y
    BY <1>2, <2>1
  <2> QED
    BY <2>2
<1>4. N - d \in T
  BY <1>2
<1> QED
  BY <1>3, <1>4

(* Where the loop begins in a pattern. *)
StartOf(g) == IF Len(g) > 1 /\ g[1] = "/" THEN 2 ELSE 1

LEMMA FirstTextIn ==
  ASSUME NEW s, NEW w, Proper(s, w)
  PROVE  FirstText(s, w) \in 1 .. Len(s)
<1> DEFINE seps == {k \in 1 .. Len(s) : s[k] = "/"}
<1>1. Len(s) \in Nat /\ Len(s) > 0 /\ s[Len(s)] # "/"
  BY DEF Proper
<1>2. CASE "/" \in Range(w) \/ seps = {}
  BY <1>1, <1>2 DEF FirstText
<1>3. CASE ~("/" \in Range(w) \/ seps = {})
  <2>1. seps \in SUBSET (0 .. Len(s)) /\ seps # {}
    BY <1>3
  <2>2. PICK last : last = CHOOSE k \in seps : \A l \in seps : l <= k
    OBVIOUS
  <2>3. \E k \in seps : \A l \in seps : l <= k
    <3> HIDE DEF seps
    <3> QED
      BY <1>1, <2>1, Greatest
  <2>4. last \in seps
    BY <2>2, <2>3
  <2>5. last \in 1 .. Len(s) /\ last # Len(s)
    BY <1>1, <2>4
  <2>6. FirstText(s, w) = last + 1
    BY <1>3, <2>2 DEF FirstText
  <2> QED
    BY <1>1, <2>5, <2>6
<1> QED
  BY <1>2, <1>3

LEMMA TextIs ==
  ASSUME NEW s, NEW w, Proper(s, w)
  PROVE  Rest(s, SubSeq(s, FirstText(s, w), Len(s)), FirstText(s, w) - 1)
<1>1. PICK f \in 1 .. Len(s) : f = FirstText(s, w)
  BY FirstTextIn
<1>2. PICK t : t = SubSeq(s, f, Len(s))
  OBVIOUS
<1>3. Len(s) \in Nat /\ s \in Seq(STRING)
  BY DEF Proper
<1>4. Len(t) = Len(s) - f + 1 /\ \A q \in 1 .. Len(s) - f + 1 : t[q] = s[f + q - 1]
  BY <1>2, <1>3
<1>5. \A q \in 1 .. Len(s) - f + 1 : f + q - 1 = q + (f - 1)
  BY <1>3
<1>6. Rest(s, t, f - 1)
  BY <1>3, <1>4, <1>5 DEF Rest
<1> QED
  BY <1>1, <1>2, <1>6

LEMMA PatternIs ==
  ASSUME NEW w \in Seq(STRING), AllCoded(w)
  PROVE  /\ StartOf(w) \in {1, 2} /\ Pattern(w) \in Seq(STRING)
         /\ Rest(w, Pattern(w), StartOf(w) - 1) /\ AllCoded(Pattern(w))
         /\ Len(w) \in Nat /\ Len(w) + 1 >= StartOf(w)
<1>1. Len(w) \in Nat
  OBVIOUS
<1>2. CASE Len(w) > 1 /\ w[1] = "/"
  <2>1. Pattern(w) = Tail(w) /\ StartOf(w) = 2
    BY <1>2 DEF Pattern, StartOf
  <2>2. w # <<>>
    BY <1>2
  <2>3. Tail(w) \in Seq(STRING) /\ Len(Tail(w)) = Len(w) - 1 /\ \A q \in 1 .. Len(w) - 1 : Tail(w)[q] = w[q + 1]
    BY <1>1, <1>2, <2>2
  <2>4. Rest(w, Tail(w), 1)
    BY <1>1, <1>2, <2>3 DEF Rest
  <2>5. AllCoded(Tail(w))
    BY <1>1, <2>3 DEF AllCoded
  <2> QED
    BY <1>1, <1>2, <2>1, <2>3, <2>4, <2>5
<1>3. CASE ~(Len(w) > 1 /\ w[1] = "/")
  <2>1. Pattern(w) = w /\ StartOf(w) = 1
    BY <1>3 DEF Pattern, StartOf
  <2>2. Rest(w, w, 0)
    BY <1>1 DEF Rest
  <2> QED
    BY <1>1, <2>1, <2>2
<1> QED
  BY <1>2, <1>3

(* Whether the pattern from q on matches the text from p on.                    *)
Cell(R, s, w, q, p) ==
  IF q > Len(w) THEN p > Len(s)
  ELSE IF Twice(w, q) /\ q + 1 = Len(w) THEN TRUE
  ELSE IF Slashed(w, q) THEN \E e \in p .. Len(s) + 1 : R[q + 3][e]
  ELSE IF Twice(w, q) THEN FALSE
  ELSE IF w[q] = "*" THEN \E e \in p .. Len(s) + 1 : NoSlash(s, p, e - 1) /\ R[q + 1][e]
  ELSE p <= Len(s) /\ LoopTakes(s, w, q, p) /\ R[LoopNext(s, w, q, p)][p + 1]

Table(R, s, w) ==
  \A q \in StartOf(w) .. Len(w) + 1 : \A p \in FirstText(s, w) .. Len(s) + 1 :
    R[q][p] <=> Cell(R, s, w, q, p)

(* With a ** that may end anywhere, as the loop reads it.                     *)
Meant(s, w) == Means(SubSeq(s, FirstText(s, w), Len(s)), Pattern(w), TRUE)

(* Places of a part and of the whole stand alike to their ends.                 *)
LEMMA Same ==
  ASSUME NEW x \in Nat, NEW a \in Nat, NEW end \in Nat
  PROVE  /\ x + 1 <= end <=> x + a + 1 <= end + a
         /\ x + 2 <= end <=> x + a + 2 <= end + a
         /\ x + 1 = end <=> x + a + 1 = end + a
         /\ x + 1 <= end => x <= end
         /\ x + 2 <= end => x + 1 <= end
OBVIOUS

(* A table over the positions of the whole texts, whose first place says what is meant. *)
LEMMA TableExists ==
  ASSUME Len(Characters) \in Nat, NEW s, NEW w, Proper(s, w)
  PROVE  \E R : Table(R, s, w) /\ (Meant(s, w) = R[StartOf(w)][FirstText(s, w)])
                /\ R[StartOf(w)][FirstText(s, w)] \in BOOLEAN
<1> DEFINE g == Pattern(w)
           a == StartOf(w) - 1
           b == FirstText(s, w) - 1
           t == SubSeq(s, FirstText(s, w), Len(s))
<1>1. /\ s \in Seq(STRING) /\ w \in Seq(STRING) /\ AllCoded(s) /\ AllCoded(w) /\ ClassesClear(g)
      /\ Len(s) \in Nat /\ Len(w) \in Nat
  BY DEF Proper
<1>2. a \in 0 .. 1 /\ g \in Seq(STRING) /\ Rest(w, g, a) /\ AllCoded(g) /\ StartOf(w) = a + 1
  <2>1. /\ StartOf(w) \in {1, 2} /\ Pattern(w) \in Seq(STRING)
        /\ Rest(w, Pattern(w), StartOf(w) - 1) /\ AllCoded(Pattern(w))
    BY <1>1, PatternIs
  <2>2. a \in 0 .. 1 /\ StartOf(w) = a + 1
    BY <2>1
  <2> QED
    BY <2>1, <2>2
<1>3. b \in 0 .. Len(s) - 1 /\ FirstText(s, w) = b + 1 /\ FirstText(s, w) \in 1 .. Len(s)
  BY <1>1, FirstTextIn
<1>4. Rest(s, t, b)
  BY TextIs
<1> HIDE DEF g, a, b, t
<1>5. Len(g) \in Nat /\ Len(t) \in Nat /\ Len(w) = Len(g) + a /\ Len(s) = Len(t) + b
      /\ a \in Nat /\ b \in Nat
  BY <1>2, <1>4 DEF Rest
<1>6. g \in Seq(STRING \cup {"*", "/"})
  <2>1. g = [q \in 1 .. Len(g) |-> g[q]] /\ \A q \in 1 .. Len(g) : g[q] \in STRING
    BY <1>2
  <2>2. g \in [1 .. Len(g) -> STRING \cup {"*", "/"}]
    BY <2>1
  <2> QED
    BY <1>5, <2>2
<1>7. PICK match \in [1 .. Len(g) + 1 -> [1 .. Len(t) + 1 -> BOOLEAN]] :
        /\ \A l \in 1 .. Len(g) + 1 : \A k \in 1 .. Len(t) + 1 :
             match[l][k] <=> Plain(t, g, TRUE, match, l, k)
        /\ Means(t, g, TRUE) = match[1][1]
  BY <1>5, <1>6, MeansUnfolds
<1> DEFINE R == [q \in 1 .. Len(w) + 1 |-> [p \in 1 .. Len(s) + 1 |-> match[q - a][p - b]]]
<1>8. \A l \in 1 .. Len(g) + 1 : \A k \in 1 .. Len(t) + 1 : R[l + a][k + b] = match[l][k]
  <2> SUFFICES ASSUME NEW l \in 1 .. Len(g) + 1, NEW k \in 1 .. Len(t) + 1
               PROVE  R[l + a][k + b] = match[l][k]
    OBVIOUS
  <2>1. l + a \in 1 .. Len(w) + 1 /\ k + b \in 1 .. Len(s) + 1 /\ l + a - a = l /\ k + b - b = k
    BY <1>5
  <2>2. \A q \in 1 .. Len(w) + 1 : \A p \in 1 .. Len(s) + 1 : R[q][p] = match[q - a][p - b]
    OBVIOUS
  <2> HIDE DEF R
  <2>3. PICK q \in 1 .. Len(w) + 1 : q = l + a /\ q - a = l
    BY <1>5
  <2>4. PICK p \in 1 .. Len(s) + 1 : p = k + b /\ p - b = k
    BY <1>5
  <2>5. R[q][p] = match[l][k]
    BY <2>2, <2>3, <2>4
  <2> QED
    BY <2>3, <2>4, <2>5
<1> HIDE DEF R
<1>9. ASSUME NEW l \in 1 .. Len(g) + 1, NEW k \in 1 .. Len(t) + 1
      PROVE  Plain(t, g, TRUE, match, l, k) <=> Cell(R, s, w, l + a, k + b)
  <2>1. (l > Len(g) <=> l + a > Len(w)) /\ (k > Len(t) <=> k + b > Len(s))
        /\ (k <= Len(t) <=> k + b <= Len(s))
    BY <1>5
  <2>2. l \in 1 .. Len(g) => w[l + a] = g[l]
    BY <1>2 DEF Rest
  <2>3. l + 1 <= Len(g) => w[l + a + 1] = g[l + 1]
    <3>1. l + 1 <= Len(g) => l + 1 \in 1 .. Len(g) /\ l + 1 + a = l + a + 1
      BY <1>5
    <3> QED
      BY <1>2, <3>1 DEF Rest
  <2>4. l + 2 <= Len(g) => w[l + a + 2] = g[l + 2]
    <3>1. l + 2 <= Len(g) => l + 2 \in 1 .. Len(g) /\ l + 2 + a = l + a + 2
      BY <1>5
    <3> QED
      BY <1>2, <3>1 DEF Rest
  <2>5. /\ l + 1 <= Len(g) <=> l + a + 1 <= Len(w)
        /\ l + 2 <= Len(g) <=> l + a + 2 <= Len(w)
        /\ l + 1 = Len(g) <=> l + a + 1 = Len(w)
        /\ l + 1 <= Len(g) => l \in 1 .. Len(g)
        /\ l + 2 <= Len(g) => l + 1 <= Len(g)
    <3>1. PICK end \in Nat : end = Len(g)
      BY <1>5
    <3>2. Len(w) = end + a /\ a \in Nat /\ l \in Nat /\ l >= 1
      BY <1>5, <3>1
    <3>3. /\ l + 1 <= end <=> l + a + 1 <= end + a
          /\ l + 2 <= end <=> l + a + 2 <= end + a
          /\ l + 1 = end <=> l + a + 1 = end + a
          /\ l + 1 <= end => l <= end
          /\ l + 2 <= end => l + 1 <= end
      <4> HIDE <1>5, <3>1
      <4> QED
        BY <3>2, Same
    <3>4. l + 1 <= end => l \in 1 .. end
      BY <3>2, <3>3
    <3> QED
      BY <3>1, <3>2, <3>3, <3>4
  <2>6. Twice(g, l) <=> Twice(w, l + a)
    BY <2>2, <2>3, <2>5 DEF Twice
  <2>7. Slashed(g, l) <=> Slashed(w, l + a)
    BY <2>2, <2>3, <2>4, <2>5 DEF Slashed
  <2>8. CASE l > Len(g)
    BY <2>1, <2>8 DEF Plain, Cell
  <2>9. CASE ~(l > Len(g)) /\ (Twice(g, l) /\ l + 1 = Len(g))
    BY <2>1, <2>5, <2>6, <2>9 DEF Plain, Cell
  <2>10. CASE ~(l > Len(g)) /\ ~(Twice(g, l) /\ l + 1 = Len(g)) /\ Slashed(g, l)
    <3>1. Plain(t, g, TRUE, match, l, k) <=> \E e \in k .. Len(t) + 1 : match[l + 3][e]
      BY <2>10 DEF Plain
    <3>2. Cell(R, s, w, l + a, k + b) <=> \E e \in k + b .. Len(s) + 1 : R[l + a + 3][e]
      BY <2>1, <2>5, <2>6, <2>7, <2>10 DEF Cell
    <3>3. l + 3 \in 1 .. Len(g) + 1 /\ l + 3 + a = l + a + 3
      BY <1>5, <2>10 DEF Slashed
    <3>4. \A e \in k .. Len(t) + 1 : e + b \in k + b .. Len(s) + 1 /\ R[l + a + 3][e + b] = match[l + 3][e]
      <4>1. \A e \in k .. Len(t) + 1 : e \in 1 .. Len(t) + 1 /\ e + b \in k + b .. Len(s) + 1
        BY <1>5
      <4> QED
        BY <1>8, <3>3, <4>1
    <3>5. \A e \in k + b .. Len(s) + 1 : e - b \in k .. Len(t) + 1 /\ e - b + b = e
      BY <1>5
    <3> QED
      BY <3>1, <3>2, <3>4, <3>5
  <2>11. CASE ~(l > Len(g)) /\ ~(Twice(g, l) /\ l + 1 = Len(g)) /\ ~Slashed(g, l) /\ Twice(g, l)
    BY <2>1, <2>5, <2>6, <2>7, <2>11 DEF Plain, Cell
  <2>12. CASE ~(l > Len(g)) /\ ~Twice(g, l) /\ ~Slashed(g, l) /\ g[l] = "*"
    <3>0. l \in 1 .. Len(g) /\ w[l + a] = "*"
      BY <1>5, <2>2, <2>12
    <3>1. Plain(t, g, TRUE, match, l, k) <=> \E e \in k .. Len(t) + 1 : NoSlash(t, k, e - 1) /\ match[l + 1][e]
      BY <2>12 DEF Plain
    <3>2. Cell(R, s, w, l + a, k + b) <=>
            \E e \in k + b .. Len(s) + 1 : NoSlash(s, k + b, e - 1) /\ R[l + a + 1][e]
      BY <2>1, <2>5, <2>6, <2>7, <2>12, <3>0 DEF Cell
    <3>3. l + 1 \in 1 .. Len(g) + 1 /\ l + 1 + a = l + a + 1
      BY <1>5, <3>0
    <3>4. ASSUME NEW e \in k .. Len(t) + 1, NEW d \in k + b .. Len(s) + 1, d = e + b
          PROVE  /\ R[l + a + 1][d] = match[l + 1][e]
                 /\ NoSlash(t, k, e - 1) <=> NoSlash(s, k + b, d - 1)
      <4>1. e \in 1 .. Len(t) + 1
        BY <1>5
      <4>2. \A x \in k .. e - 1 : x \in 1 .. Len(t) /\ x + b \in k + b .. d - 1
        BY <1>5, <3>4
      <4>3. \A x \in k + b .. d - 1 : x - b \in k .. e - 1 /\ x - b + b = x
        BY <1>5, <3>4
      <4>4. \A x \in 1 .. Len(t) : s[x + b] = t[x]
        BY <1>4 DEF Rest
      <4>5. NoSlash(t, k, e - 1) <=> NoSlash(s, k + b, d - 1)
        BY <4>2, <4>3, <4>4, ZenonT(60) DEF NoSlash
      <4> QED
        BY <1>8, <3>3, <3>4, <4>1, <4>5
    <3>5. \A e \in k + b .. Len(s) + 1 : e - b \in k .. Len(t) + 1 /\ e - b + b = e
      BY <1>5
    <3>6. ASSUME NEW e \in k .. Len(t) + 1, NoSlash(t, k, e - 1), match[l + 1][e]
          PROVE  \E d \in k + b .. Len(s) + 1 : NoSlash(s, k + b, d - 1) /\ R[l + a + 1][d]
      <4>1. PICK d \in k + b .. Len(s) + 1 : d = e + b
        BY <1>5
      <4>2. NoSlash(s, k + b, d - 1) /\ R[l + a + 1][d]
        BY <3>4, <3>6, <4>1
      <4> QED
        BY <4>2
    <3>7. ASSUME NEW d \in k + b .. Len(s) + 1, NoSlash(s, k + b, d - 1), R[l + a + 1][d]
          PROVE  \E e \in k .. Len(t) + 1 : NoSlash(t, k, e - 1) /\ match[l + 1][e]
      <4>1. PICK e \in k .. Len(t) + 1 : e + b = d
        BY <3>5
      <4>4. NoSlash(t, k, e - 1) /\ match[l + 1][e]
        BY <3>4, <3>7, <4>1
      <4> QED
        BY <4>4
    <3> QED
      BY <3>1, <3>2, <3>6, <3>7
  <2>13. CASE ~(l > Len(g)) /\ ~Twice(g, l) /\ ~Slashed(g, l) /\ g[l] # "*"
    <3>0. l \in 1 .. Len(g) /\ w[l + a] # "*"
      BY <1>5, <2>2, <2>13
    <3>1. Plain(t, g, TRUE, match, l, k) <=>
            k <= Len(t) /\ TakesAt(t, g, l, k) /\ match[NextItem(g, l)][k + 1]
      BY <2>13 DEF Plain
    <3>2. Cell(R, s, w, l + a, k + b) <=>
            /\ k + b <= Len(s) /\ LoopTakes(s, w, l + a, k + b)
            /\ R[LoopNext(s, w, l + a, k + b)][k + b + 1]
      BY <2>1, <2>5, <2>6, <2>7, <2>13, <3>0 DEF Cell
    <3>3. ASSUME k <= Len(t)
          PROVE  /\ TakesAt(t, g, l, k) <=> LoopTakes(s, w, l + a, k + b)
                 /\ match[NextItem(g, l)][k + 1] = R[LoopNext(s, w, l + a, k + b)][k + b + 1]
      <4>1. k \in 1 .. Len(t) /\ k + 1 \in 1 .. Len(t) + 1 /\ k + 1 + b = k + b + 1
        BY <1>5, <3>3
      <4>2. /\ TakesAt(t, g, l, k) <=> LoopTakes(s, w, l + a, k + b)
            /\ NextItem(g, l) + a = LoopNext(s, w, l + a, k + b)
        BY <1>1, <1>2, <1>4, <3>0, <4>1, Shifted
      <4>3. NextItem(g, l) \in 1 .. Len(g) + 1
        <5>1. NextItem(g, l) \in l + 1 .. Len(g) + 1
          BY <1>5, <3>0, NextIsBehind
        <5> QED
          BY <5>1
      <4> QED
        BY <1>8, <4>1, <4>2, <4>3
    <3> QED
      BY <2>1, <3>1, <3>2, <3>3
  <2> QED
    BY <2>8, <2>9, <2>10, <2>11, <2>12, <2>13
<1>10. Table(R, s, w)
  <2> SUFFICES ASSUME NEW q \in a + 1 .. Len(w) + 1, NEW p \in b + 1 .. Len(s) + 1
               PROVE  R[q][p] <=> Cell(R, s, w, q, p)
    BY <1>2, <1>3 DEF Table
  <2>1. q - a \in 1 .. Len(g) + 1 /\ p - b \in 1 .. Len(t) + 1 /\ q - a + a = q /\ p - b + b = p
    BY <1>5
  <2>2. R[q][p] = match[q - a][p - b]
    BY <1>8, <2>1
  <2>3. match[q - a][p - b] <=> Plain(t, g, TRUE, match, q - a, p - b)
    BY <1>7, <2>1
  <2>4. Plain(t, g, TRUE, match, q - a, p - b) <=> Cell(R, s, w, q, p)
    BY <1>9, <2>1
  <2> QED
    BY <2>2, <2>3, <2>4
<1>11. Meant(s, w) = R[StartOf(w)][FirstText(s, w)] /\ R[StartOf(w)][FirstText(s, w)] \in BOOLEAN
  <2>1. 1 \in 1 .. Len(g) + 1 /\ 1 \in 1 .. Len(t) + 1 /\ 1 + a = StartOf(w) /\ 1 + b = FirstText(s, w)
    BY <1>2, <1>3, <1>5
  <2>2. R[StartOf(w)][FirstText(s, w)] = match[1][1]
    BY <1>8, <2>1
  <2>3. match[1][1] \in BOOLEAN
    BY <2>1
  <2>4. Meant(s, w) = Means(t, g, TRUE)
    BY DEF Meant, t, g
  <2> QED
    BY <1>7, <2>2, <2>3, <2>4
<1> QED
  BY <1>10, <1>11
(* The item at q takes one character, and where the next one begins does not      *)
(* depend on which.                                                         *)
LEMMA NextFacts ==
  ASSUME Len(Characters) \in Nat, NEW s, NEW w, Proper(s, w),
         NEW q \in StartOf(w) .. Len(w),
         NEW p \in FirstText(s, w) .. Len(s), NEW o \in FirstText(s, w) .. Len(s)
  PROVE  /\ LoopNext(s, w, q, p) \in q + 1 .. Len(w) + 1
         /\ LoopNext(s, w, q, o) = LoopNext(s, w, q, p)
         /\ w[q] # "*" /\ LoopTakes(s, w, q, p) /\ s[p] # "/" => ~Twice(w, LoopNext(s, w, q, p))
<1> DEFINE g == Pattern(w)
           a == StartOf(w) - 1
           b == FirstText(s, w) - 1
           t == SubSeq(s, FirstText(s, w), Len(s))
<1>1. /\ AllCoded(s) /\ AllCoded(w) /\ ClassesClear(g) /\ w \in Seq(STRING)
      /\ Len(s) \in Nat /\ Len(w) \in Nat
      /\ \A x \in 2 .. Len(w) : Twice(w, x) => w[x - 1] \in {"/", "*"}
  BY DEF Proper
<1>2. Rest(w, g, a) /\ AllCoded(g) /\ StartOf(w) = a + 1
  <2>1. StartOf(w) \in {1, 2} /\ Rest(w, g, a) /\ AllCoded(g)
    BY <1>1, PatternIs
  <2> QED
    BY <2>1
<1>3. Rest(s, t, b) /\ FirstText(s, w) = b + 1
  <2>1. FirstText(s, w) \in 1 .. Len(s)
    BY FirstTextIn
  <2> QED
    BY <1>1, <2>1, TextIs
<1> HIDE DEF g, a, b, t
<1>4. Len(g) \in Nat /\ Len(t) \in Nat /\ Len(w) = Len(g) + a /\ Len(s) = Len(t) + b
      /\ a \in Nat /\ b \in Nat
  BY <1>2, <1>3 DEF Rest
<1>5. PICK l \in 1 .. Len(g) : q = l + a
  <2>1. q - a \in 1 .. Len(g) /\ q = q - a + a
    BY <1>2, <1>4
  <2> QED
    BY <2>1
<1>6. \A x \in FirstText(s, w) .. Len(s) : NextItem(g, l) + a = LoopNext(s, w, q, x)
  <2> SUFFICES ASSUME NEW x \in FirstText(s, w) .. Len(s)
               PROVE  NextItem(g, l) + a = LoopNext(s, w, q, x)
    OBVIOUS
  <2>1. PICK k \in 1 .. Len(t) : x = k + b
    <3>1. x - b \in 1 .. Len(t) /\ x = x - b + b
      BY <1>3, <1>4
    <3> QED
      BY <3>1
  <2> QED
    BY <1>1, <1>2, <1>3, <1>5, <2>1, Shifted
<1>7. PICK z : z = NextItem(g, l)
  OBVIOUS
<1>8. z \in l + 1 .. Len(g) + 1
  BY <1>4, <1>7, NextIsBehind
<1>9. LoopNext(s, w, q, p) = z + a /\ LoopNext(s, w, q, o) = z + a
  BY <1>6, <1>7
<1>10. z + a \in q + 1 .. Len(w) + 1
  BY <1>4, <1>5, <1>8
<1>11. ASSUME w[q] # "*", LoopTakes(s, w, q, p), s[p] # "/" PROVE ~Twice(w, z + a)
  <2> SUFFICES ASSUME Twice(w, z + a) PROVE FALSE
    OBVIOUS
  <2>1. PICK x : x = z + a
    OBVIOUS
  <2>2. x \in 2 .. Len(w) /\ x - 1 \in 1 .. Len(w) /\ Twice(w, x) /\ x = LoopNext(s, w, q, p)
        /\ x \in q + 1 .. Len(w)
    <3>1. Twice(w, x) /\ x = LoopNext(s, w, q, p) /\ x \in q + 1 .. Len(w) + 1
      BY <1>9, <1>10, <2>1
    <3>2. x + 1 <= Len(w)
      BY <3>1 DEF Twice
    <3>3. q \in Nat /\ q >= 1 /\ Len(w) \in Nat
      BY <1>4, <1>5
    <3> QED
      BY <3>1, <3>2, <3>3, SMTT(60)
  <2>3. w[x - 1] \in {"/", "*"}
    BY <1>1, <2>2
  <2>4. CASE w[q] = "?"
    <3>1. x - 1 = q
      BY <1>4, <1>5, <2>2, <2>4 DEF LoopNext
    <3> QED
      BY <2>3, <2>4, <3>1
  <2>5. CASE w[q] = "["
    <3>1. PICK e : e = ClassEnd(g, l)
      OBVIOUS
    <3>2. e \in l + 1 .. Len(g) + 1 /\ (e <= Len(g) => g[e] = "]")
      BY <1>4, <3>1, EndOfClass
    <3>3. g[l] = "["
      BY <1>2, <1>5, <2>5 DEF Rest
    <3>4. z = IF e > Len(g) THEN Len(g) + 1 ELSE e + 1
      BY <1>7, <3>1, <3>3 DEF NextItem
    <3>5. e <= Len(g) /\ e \in 1 .. Len(g) /\ x - 1 = e + a
      BY <1>4, <2>1, <2>2, <3>2, <3>4, SMTT(60)
    <3>6. w[e + a] = g[e]
      BY <1>2, <3>5 DEF Rest
    <3> QED
      BY <2>3, <3>2, <3>5, <3>6
  <2>6. CASE w[q] # "?" /\ w[q] # "["
    <3>1. PICK y : y = LiteralAt(w, q)
      OBVIOUS
    <3>2. y \in {q, q + 1} /\ (y # q => w[q] = "\\" /\ y = q + 1)
      BY <3>1 DEF LiteralAt
    <3>3. x = y + 1 /\ q \in Nat
      BY <1>5, <1>4, <2>2, <2>6, <3>1 DEF LoopNext
    <3>4. CaseOf(w[y]) = CaseOf(s[p])
      BY <1>11, <2>6, <3>1 DEF LoopTakes
    <3>5. w[x - 1] = w[y] /\ y \in Nat /\ y + 1 = x /\ y \in 1 .. Len(w)
      <4>1. y \in Nat
        BY <3>2, <3>3
      <4>2. x - 1 = y
        BY <3>3, <4>1
      <4> QED
        BY <2>2, <3>3, <4>1, <4>2
    <3>6. w[y] # "/"
      BY <1>11, <3>4 DEF CaseOf
    <3>7. w[y] = "*" /\ y = q + 1 /\ w[q] = "\\"
      BY <1>11, <2>3, <3>2, <3>5, <3>6
    <3>8. Twice(w, y)
      <4>1. w[x] = "*" /\ x <= Len(w)
        BY <2>2 DEF Twice
      <4> QED
        BY <3>5, <3>7, <4>1 DEF Twice
    <3>9. y \in 2 .. Len(w) /\ y - 1 = q
      BY <1>4, <1>5, <3>5, <3>7
    <3>10. w[y - 1] \in {"/", "*"}
      BY <1>1, <3>8, <3>9
    <3> QED
      BY <3>7, <3>9, <3>10
  <2> QED
    BY <2>4, <2>5, <2>6
<1> QED
  BY <1>9, <1>10, <1>11

-----------------------------------------------------------------------------
(* The loop *)

firstText == FirstText(text, glob)
firstGlob == StartOf(glob)

Places ==
  /\ i \in firstText .. n + 1 /\ j \in firstGlob .. m + 1
  /\ text1 # None => text1 \in firstText .. n + 1 /\ glob1 \in firstGlob .. m + 1
  /\ text2 # None => text2 \in firstText .. n + 1 /\ glob2 \in firstGlob .. m + 1
  /\ text1 <= n \/ i = n + 1
  /\ text2 <= n \/ i = n + 1
  /\ result \in {"running", "yes", "no"}

(* A * takes the text from p to before x, and the pattern from q on the rest.     *)
Through(R, q, p, x) == NoSlash(text, p, x - 1) /\ R[q][x]

(* What going back to the last * or the last ** can still find.                 *)
StarFinds(R) == text1 # None /\ \E e \in text1 + 1 .. n + 1 : Through(R, glob1, text1, e)
StarsFind(R) == text2 # None /\ \E e \in text2 + 1 .. n + 1 : R[glob2][e]

(* Nothing is lost: the whole pattern matches exactly if the loop can still find  *)
(* a match from where it is or from one of the two places it keeps.             *)
NothingLost(R) == R[firstGlob][firstText] <=> R[j][i] \/ StarFinds(R) \/ StarsFind(R)

(* What the last ** can find is found by what comes after it.                   *)
StarsReach(R) ==
  text2 # None => \A e \in text2 + 1 .. n + 1 : R[glob2][e] => \E d \in i .. n + 1 : R[j][d]
StarsReachStar(R) ==
  text1 # None /\ text2 # None =>
    \A e \in text2 + 1 .. n + 1 : R[glob2][e] => \E d \in text1 .. n + 1 : R[glob1][d]

(* Where the last * takes more characters, what comes after it matches as many    *)
(* characters later.                                                        *)
StarShifts(R) ==
  text1 # None /\ (text1 = n + 1 \/ text[text1] # "/") =>
    \A e \in text1 .. n + 1 :
      Through(R, glob1, text1, e) =>
        \E x \in i .. n + 1 : x - i = e - text1 /\ Through(R, j, i, x)

(* Two stars are not met at the end of the text, where the loop would take them   *)
(* for a trailing pair.                                                     *)
NotAtEnd ==
  /\ i = n + 1 => ~Twice(glob, j)
  /\ text2 # None => (i = text2 /\ j = glob2) \/ ~Twice(glob, glob2)
  /\ text1 # None => ~(glob1 <= m /\ glob[glob1] = "*")

Searching(R) ==
  NothingLost(R) /\ StarsReach(R) /\ StarsReachStar(R) /\ StarShifts(R) /\ NotAtEnd

Returned(R) == (result = "yes" => R[firstGlob][firstText]) /\ (result = "no" => ~R[firstGlob][firstText])

Loop(R) == Places /\ Returned(R) /\ (result = "running" => Searching(R))
Ready(R) == Table(R, text, glob) /\ Proper(text, glob) /\ Len(Characters) \in Nat

(* The positions that the proofs of the steps need to be numbers. *)
LEMMA Bounds ==
  ASSUME Proper(text, glob)
  PROVE  n \in Nat /\ m \in Nat /\ firstText \in 1 .. n /\ firstGlob \in {1, 2} /\ firstGlob <= m + 1
<1>1. text \in Seq(STRING) /\ glob \in Seq(STRING) /\ AllCoded(glob)
  BY DEF Proper
<1>2. n \in Nat /\ m \in Nat
  BY <1>1 DEF n, m
<1>3. firstText \in 1 .. n
  BY FirstTextIn DEF firstText, n
<1>4. StartOf(glob) \in {1, 2} /\ Len(glob) + 1 >= StartOf(glob)
  BY <1>1, PatternIs
<1> QED
  BY <1>2, <1>3, <1>4 DEF firstGlob, m

(* The lines of the table, one for each kind of item.                           *)
LEMMA CellIs ==
  ASSUME NEW R, Ready(R), NEW q \in firstGlob .. m + 1, NEW p \in firstText .. n + 1
  PROVE  R[q][p] <=> Cell(R, text, glob, q, p)
BY DEF Ready, Table, firstGlob, firstText, n, m

(* What the table says where the pattern is at its end, at trailing stars, and so on. *)
LEMMA PatternDone ==
  ASSUME NEW R, Ready(R), NEW q \in firstGlob .. m + 1, NEW p \in firstText .. n + 1, q > m
  PROVE  R[q][p] <=> p > n
BY CellIs DEF Cell, n, m

LEMMA TrailingCell ==
  ASSUME NEW R, Ready(R), NEW q \in firstGlob .. m + 1, NEW p \in firstText .. n + 1,
         Twice(glob, q), q + 1 = m
  PROVE  R[q][p]
<1>1. m \in Nat
  BY Bounds DEF Ready
<1>2. ~(q > m)
  BY <1>1
<1> QED
  BY <1>2, CellIs DEF Cell, m

LEMMA SlashedCell ==
  ASSUME NEW R, Ready(R), NEW q \in firstGlob .. m + 1, NEW p \in firstText .. n + 1,
         Slashed(glob, q)
  PROVE  R[q][p] <=> \E e \in p .. n + 1 : R[q + 3][e]
<1>1. m \in Nat /\ firstGlob \in Nat
  BY Bounds DEF Ready
<1>2. ~(q > m) /\ q + 1 # m
  BY <1>1 DEF Slashed, m
<1> QED
  BY <1>2, CellIs DEF Cell, m, n

LEMMA OtherTwiceCell ==
  ASSUME NEW R, Ready(R), NEW q \in firstGlob .. m + 1, NEW p \in firstText .. n + 1,
         Twice(glob, q), q + 1 # m, ~Slashed(glob, q)
  PROVE  ~R[q][p]
<1>1. m \in Nat /\ firstGlob \in Nat
  BY Bounds DEF Ready
<1>2. ~(q > m)
  BY <1>1 DEF Twice, m
<1> QED
  BY <1>2, CellIs DEF Cell, m, n

LEMMA StarCell ==
  ASSUME NEW R, Ready(R), NEW q \in firstGlob .. m, NEW p \in firstText .. n + 1,
         glob[q] = "*", ~Twice(glob, q)
  PROVE  R[q][p] <=> \E e \in p .. n + 1 : Through(R, q + 1, p, e)
<1>1. m \in Nat /\ firstGlob \in Nat
  BY Bounds DEF Ready
<1>2. ~(q > m) /\ q \in firstGlob .. m + 1 /\ ~Slashed(glob, q)
  BY <1>1 DEF Slashed, Twice
<1>3. Cell(R, text, glob, q, p) <=> \E e \in p .. Len(text) + 1 : NoSlash(text, p, e - 1) /\ R[q + 1][e]
  BY <1>2 DEF Cell, m
<1> QED
  BY <1>2, <1>3, CellIs DEF n, Through

LEMMA ItemCell ==
  ASSUME NEW R, Ready(R), NEW q \in firstGlob .. m, NEW p \in firstText .. n + 1, glob[q] # "*"
  PROVE  R[q][p] <=> p <= n /\ LoopTakes(text, glob, q, p) /\ R[LoopNext(text, glob, q, p)][p + 1]
<1>1. m \in Nat /\ firstGlob \in Nat
  BY Bounds DEF Ready
<1>2. ~(q > m) /\ q \in firstGlob .. m + 1 /\ ~Slashed(glob, q) /\ ~Twice(glob, q)
  BY <1>1 DEF Slashed, Twice
<1> QED
  BY <1>2, CellIs DEF Cell, m, n

(* What the last * can still find, the item at j finds as many characters later.   *)
LEMMA StarFindsLater ==
  ASSUME NEW R, Ready(R), Places, StarShifts(R), StarFinds(R)
  PROVE  \E x \in i + 1 .. n + 1 : Through(R, j, i, x)
<1>1. n \in Nat /\ firstText \in 1 .. n
  BY Bounds DEF Ready
<1>2. text1 \in firstText .. n + 1 /\ i \in firstText .. n + 1 /\ text1 # None
  BY DEF Places, StarFinds
<1>3. PICK e \in text1 + 1 .. n + 1 : Through(R, glob1, text1, e)
  BY DEF StarFinds
<1>4. text1 \in text1 .. e - 1 /\ e \in text1 .. n + 1
  BY <1>1, <1>2
<1>5. text[text1] # "/"
  BY <1>3, <1>4 DEF Through, NoSlash
<1>6. PICK x \in i .. n + 1 : x - i = e - text1 /\ Through(R, j, i, x)
  BY <1>2, <1>3, <1>4, <1>5 DEF StarShifts
<1>7. x \in i + 1 .. n + 1
  BY <1>1, <1>2, <1>6
<1> QED
  BY <1>6, <1>7

(* Where nothing takes the character at i, the pattern does not match from here.   *)
LEMMA MismatchMeans ==
  ASSUME NEW R, Ready(R), Places, Mismatch
  PROVE  /\ ~R[j][i] /\ result = "running" /\ i <= n
         /\ j <= m => glob[j] # "*"
<1>1. n \in Nat /\ m \in Nat /\ firstGlob \in Nat /\ firstText \in Nat
  BY Bounds DEF Ready
<1>2. i \in firstText .. n + 1 /\ j \in firstGlob .. m + 1
  BY DEF Places
<1>3. result = "running" /\ i <= n /\ (j <= m => glob[j] # "*")
      /\ ~TakesAny /\ ~TakesClass /\ ~TakesLiteral
  BY DEF Mismatch, More
<1>4. CASE j > m
  BY <1>1, <1>2, <1>3, <1>4, PatternDone
<1>5. CASE ~(j > m)
  <2>1. j \in firstGlob .. m /\ j <= m /\ glob[j] # "*"
    BY <1>1, <1>2, <1>3, <1>5
  <2>2. ~LoopTakes(text, glob, j, i)
    <3>1. CASE glob[j] = "?"
      BY <1>3, <2>1, <3>1 DEF LoopTakes, TakesAny, At, More
    <3>2. CASE glob[j] = "["
      BY <1>3, <2>1, <3>2 DEF LoopTakes, TakesClass, At, More
    <3>3. CASE glob[j] \notin {"*", "?", "["}
      <4>1. Literal = LiteralAt(glob, j)
        BY DEF Literal, LiteralAt, m
      <4>2. CaseOf(glob[Literal]) # CaseOf(text[i])
        BY <1>3, <2>1, <3>3 DEF TakesLiteral, IsLiteral, More
      <4> QED
        BY <3>3, <4>1, <4>2 DEF LoopTakes
    <3> QED
      BY <2>1, <3>1, <3>2, <3>3
  <2> QED
    BY <1>2, <1>3, <2>1, <2>2, ItemCell
<1> QED
  BY <1>4, <1>5

LEMMA SameInput ==
  ASSUME UNCHANGED input
  PROVE  text' = text /\ glob' = glob /\ n' = n /\ m' = m /\ firstText' = firstText /\ firstGlob' = firstGlob
BY DEF input, n, m, firstText, firstGlob

(* Each step keeps the invariant of the loop, the table being the same. *)
LEMMA StarKeeps ==
  ASSUME NEW R, Ready(R), Loop(R), Star
  PROVE  Loop(R)'
<1>1. n \in Nat /\ m \in Nat /\ firstGlob \in Nat /\ firstText \in Nat
  BY Bounds DEF Ready
<1>2. /\ text' = text /\ glob' = glob /\ n' = n /\ m' = m /\ firstText' = firstText /\ firstGlob' = firstGlob
      /\ i' = i /\ j' = j + 1 /\ text1' = i /\ glob1' = j + 1
      /\ text2' = text2 /\ glob2' = glob2 /\ result' = result
      /\ result = "running" /\ i <= n /\ j <= m /\ glob[j] = "*" /\ ~(j < m /\ glob[j + 1] = "*")
  BY SameInput DEF Star, stars, At, More
<1>3. Places /\ Searching(R)
  BY <1>2 DEF Loop
<1>4. i \in firstText .. n + 1 /\ j \in firstGlob .. m /\ i \in Nat /\ j \in Nat /\ i # None
  <2>1. i \in firstText .. n + 1 /\ firstText \in 1 .. n /\ j \in firstGlob .. m + 1
    BY <1>3, Bounds DEF Places, Ready
  <2> QED
    BY <1>1, <1>2, <2>1 DEF None
<1>5. ~Twice(glob, j)
  BY <1>1, <1>2, <1>4 DEF Twice, m
<1>6. \A p \in firstText .. n + 1 : R[j][p] <=> \E e \in p .. n + 1 : Through(R, j + 1, p, e)
  BY <1>2, <1>4, <1>5, StarCell
<1>7. Places'
  BY <1>1, <1>2, <1>3, <1>4 DEF Places
<1>8. R[j][i] <=> R[j + 1][i] \/ \E e \in i + 1 .. n + 1 : Through(R, j + 1, i, e)
  <2>1. R[j + 1][i] <=> Through(R, j + 1, i, i)
    BY <1>4 DEF Through, NoSlash
  <2>2. \A e \in i .. n + 1 : e = i \/ e \in i + 1 .. n + 1
    BY <1>1, <1>4
  <2>3. i \in i .. n + 1 /\ \A e \in i + 1 .. n + 1 : e \in i .. n + 1
    BY <1>1, <1>4
  <2> QED
    BY <1>4, <1>6, <2>1, <2>2, <2>3
<1>9. \A p \in i .. n + 1 : R[j][p] => \E d \in i .. n + 1 : R[j + 1][d]
  <2> SUFFICES ASSUME NEW p \in i .. n + 1, R[j][p] PROVE \E d \in i .. n + 1 : R[j + 1][d]
    OBVIOUS
  <2>1. p \in firstText .. n + 1
    BY <1>1, <1>4
  <2>2. PICK e \in p .. n + 1 : Through(R, j + 1, p, e)
    BY <1>6, <2>1
  <2>3. e \in i .. n + 1 /\ R[j + 1][e]
    BY <1>1, <1>4, <2>2 DEF Through
  <2> QED
    BY <2>3
<1>10. StarFinds(R) => R[j][i]
  <2> SUFFICES ASSUME StarFinds(R) PROVE R[j][i]
    OBVIOUS
  <2>1. PICK x \in i + 1 .. n + 1 : Through(R, j, i, x)
    BY <1>3, StarFindsLater DEF Searching
  <2>2. R[j][x] /\ NoSlash(text, i, x - 1) /\ x \in firstText .. n + 1
    BY <1>1, <1>4, <2>1 DEF Through
  <2>3. PICK e \in x .. n + 1 : Through(R, j + 1, x, e)
    BY <1>6, <2>2
  <2>4. NoSlash(text, i, e - 1)
    <3>1. \A y \in i .. e - 1 : y \in i .. x - 1 \/ y \in x .. e - 1
      BY <1>1, <1>4, <2>1, <2>3
    <3> QED
      BY <2>2, <2>3, <3>1 DEF NoSlash, Through
  <2>5. e \in i .. n + 1 /\ Through(R, j + 1, i, e)
    BY <1>1, <1>4, <2>1, <2>3, <2>4 DEF Through
  <2> QED
    BY <1>4, <1>6, <2>5
<1>11. NothingLost(R)'
  <2>1. R[firstGlob][firstText] <=> R[j][i] \/ StarFinds(R) \/ StarsFind(R)
    BY <1>3 DEF Searching, NothingLost
  <2>2. StarsFind(R)' <=> StarsFind(R)
    BY <1>2 DEF StarsFind
  <2>3. StarFinds(R)' <=> \E e \in i + 1 .. n + 1 : Through(R, j + 1, i, e)
    BY <1>2, <1>4 DEF StarFinds, Through
  <2> QED
    BY <1>2, <1>8, <1>10, <2>1, <2>2, <2>3 DEF NothingLost
<1>12. StarsReach(R)'
  BY <1>2, <1>3, <1>9 DEF Searching, StarsReach
<1>13. StarsReachStar(R)'
  BY <1>2, <1>3, <1>9 DEF Searching, StarsReach, StarsReachStar
<1>14. StarShifts(R)'
  BY <1>2, <1>4 DEF StarShifts, Through
<1>15. NotAtEnd'
  <2>1. i' = n' + 1 => ~Twice(glob', j')
    BY <1>1, <1>2, <1>4
  <2>2. text2' # None => (i' = text2' /\ j' = glob2') \/ ~Twice(glob', glob2')
    <3>1. text2 # None => (i = text2 /\ j = glob2) \/ ~Twice(glob, glob2)
      BY <1>3 DEF Searching, NotAtEnd
    <3> QED
      BY <1>2, <1>5, <3>1
  <2>3. text1' # None => ~(glob1' <= m' /\ glob'[glob1'] = "*")
    BY <1>1, <1>2, <1>4
  <2> QED
    BY <2>1, <2>2, <2>3 DEF NotAtEnd
<1> QED
  BY <1>2, <1>7, <1>11, <1>12, <1>13, <1>14, <1>15 DEF Loop, Searching, Returned

LEMMA TrailingStarsKeeps ==
  ASSUME NEW R, Ready(R), Loop(R), TrailingStars
  PROVE  Loop(R)'
<1>1. n \in Nat /\ m \in Nat /\ firstGlob \in Nat /\ firstText \in Nat
  BY Bounds DEF Ready
<1>2. /\ text' = text /\ glob' = glob /\ n' = n /\ m' = m /\ firstText' = firstText /\ firstGlob' = firstGlob
      /\ i' = i /\ j' = j /\ text1' = text1 /\ glob1' = glob1
      /\ text2' = text2 /\ glob2' = glob2 /\ result' = "yes"
      /\ result = "running" /\ j <= m /\ glob[j] = "*" /\ j + 1 = m /\ glob[m] = "*"
  BY SameInput DEF TrailingStars, star, stars, At, More
<1>3. Places /\ Searching(R)
  BY <1>2 DEF Loop
<1>4. R[j][i]
  <2>1. i \in firstText .. n + 1 /\ j \in firstGlob .. m + 1
    BY <1>3 DEF Places
  <2>2. Twice(glob, j)
    BY <1>1, <1>2 DEF Twice, m
  <2> QED
    BY <1>2, <2>1, <2>2, TrailingCell
<1>5. R[firstGlob][firstText]
  BY <1>3, <1>4 DEF Searching, NothingLost
<1>6. Places'
  BY <1>2, <1>3 DEF Places
<1> QED
  BY <1>2, <1>5, <1>6 DEF Loop, Returned

LEMMA StarsOtherKeeps ==
  ASSUME NEW R, Ready(R), Loop(R), StarsOther
  PROVE  Loop(R)'
<1>1. n \in Nat /\ m \in Nat /\ firstGlob \in Nat /\ firstText \in Nat
  BY Bounds DEF Ready
<1>2. /\ text' = text /\ glob' = glob /\ n' = n /\ m' = m /\ firstText' = firstText /\ firstGlob' = firstGlob
      /\ i' = i /\ j' = j /\ text1' = text1 /\ glob1' = glob1
      /\ text2' = text2 /\ glob2' = glob2 /\ result' = "no"
      /\ result = "running" /\ j <= m /\ glob[j] = "*"
      /\ j + 2 <= m /\ glob[j + 1] = "*" /\ glob[j + 2] # "/"
  BY SameInput DEF StarsOther, star, stars, At, More
<1>3. Places /\ Searching(R)
  BY <1>2 DEF Loop
<1>4. i \in firstText .. n + 1 /\ j \in firstGlob .. m + 1 /\ j \in Nat /\ i \in Nat
  <2>1. i \in firstText .. n + 1 /\ j \in firstGlob .. m + 1
    BY <1>3 DEF Places
  <2> QED
    BY <1>1, <2>1
<1>5. \A p \in firstText .. n + 1 : ~R[j][p]
  <2>1. Twice(glob, j) /\ j + 1 # m /\ ~Slashed(glob, j)
    BY <1>1, <1>2, <1>4 DEF Twice, Slashed, m
  <2> QED
    BY <1>4, <2>1, OtherTwiceCell
<1>6. ~StarFinds(R)
  <2> SUFFICES ASSUME StarFinds(R) PROVE FALSE
    OBVIOUS
  <2>1. PICK x \in i + 1 .. n + 1 : Through(R, j, i, x)
    BY <1>3, StarFindsLater DEF Searching
  <2>2. R[j][x] /\ x \in firstText .. n + 1
    BY <1>1, <1>4, <2>1 DEF Through
  <2> QED
    BY <1>5, <2>2
<1>7. ~StarsFind(R)
  <2> SUFFICES ASSUME StarsFind(R) PROVE FALSE
    OBVIOUS
  <2>1. PICK d \in i .. n + 1 : R[j][d]
    BY <1>3 DEF Searching, StarsReach, StarsFind
  <2>2. d \in firstText .. n + 1
    BY <1>1, <1>4, <2>1
  <2> QED
    BY <1>5, <2>1, <2>2
<1>8. ~R[firstGlob][firstText]
  BY <1>3, <1>4, <1>5, <1>6, <1>7 DEF Searching, NothingLost
<1>9. Places'
  BY <1>2, <1>3 DEF Places
<1> QED
  BY <1>2, <1>8, <1>9 DEF Loop, Returned

LEMMA StarsSlashKeeps ==
  ASSUME NEW R, Ready(R), Loop(R), StarsSlash
  PROVE  Loop(R)'
<1>1. n \in Nat /\ m \in Nat /\ firstGlob \in Nat /\ firstText \in Nat
  BY Bounds DEF Ready
<1>2. /\ text' = text /\ glob' = glob /\ n' = n /\ m' = m /\ firstText' = firstText /\ firstGlob' = firstGlob
      /\ i' = i /\ j' = j + 3 /\ text1' = None /\ glob1' = None
      /\ text2' = i /\ glob2' = j + 3 /\ result' = result
      /\ result = "running" /\ i <= n /\ j <= m /\ glob[j] = "*"
      /\ j + 2 <= m /\ glob[j + 1] = "*" /\ glob[j + 2] = "/"
  BY SameInput DEF StarsSlash, At, More
<1>3. Places /\ Searching(R)
  BY <1>2 DEF Loop
<1>4. i \in firstText .. n + 1 /\ j \in firstGlob .. m + 1 /\ j \in Nat /\ i \in Nat /\ i # None
  <2>1. i \in firstText .. n + 1 /\ j \in firstGlob .. m + 1 /\ firstText \in 1 .. n
    BY <1>3, Bounds DEF Places, Ready
  <2> QED
    BY <1>1, <2>1 DEF None
<1>5. \A p \in firstText .. n + 1 : R[j][p] <=> \E e \in p .. n + 1 : R[j + 3][e]
  <2>1. Slashed(glob, j)
    BY <1>2 DEF Slashed, m
  <2> QED
    BY <1>4, <2>1, SlashedCell
<1>6. Places'
  <2>1. j + 3 \in firstGlob .. m + 1 /\ 0 <= n /\ i <= n
    BY <1>1, <1>2, <1>4
  <2> QED
    BY <1>2, <1>4, <2>1 DEF Places, None
<1>7. R[j][i] <=> R[j + 3][i] \/ \E e \in i + 1 .. n + 1 : R[j + 3][e]
  <2>1. \A e \in i .. n + 1 : e = i \/ e \in i + 1 .. n + 1
    BY <1>1, <1>4
  <2>2. i \in i .. n + 1 /\ \A e \in i + 1 .. n + 1 : e \in i .. n + 1
    BY <1>1, <1>4
  <2> QED
    BY <1>4, <1>5, <2>1, <2>2
<1>8. \A p \in i .. n + 1 : R[j][p] => R[j][i]
  <2> SUFFICES ASSUME NEW p \in i .. n + 1, R[j][p] PROVE R[j][i]
    OBVIOUS
  <2>1. p \in firstText .. n + 1
    BY <1>1, <1>4
  <2>2. PICK e \in p .. n + 1 : R[j + 3][e]
    BY <1>5, <2>1
  <2>3. e \in i .. n + 1
    BY <1>1, <1>4, <2>2
  <2> QED
    BY <1>4, <1>5, <2>2, <2>3
<1>9. StarFinds(R) => R[j][i]
  <2> SUFFICES ASSUME StarFinds(R) PROVE R[j][i]
    OBVIOUS
  <2>1. PICK x \in i + 1 .. n + 1 : Through(R, j, i, x)
    BY <1>3, StarFindsLater DEF Searching
  <2>2. R[j][x] /\ x \in i .. n + 1
    BY <1>1, <1>4, <2>1 DEF Through
  <2> QED
    BY <1>8, <2>2
<1>10. StarsFind(R) => R[j][i]
  <2> SUFFICES ASSUME StarsFind(R) PROVE R[j][i]
    OBVIOUS
  <2>1. PICK d \in i .. n + 1 : R[j][d]
    BY <1>3 DEF Searching, StarsReach, StarsFind
  <2> QED
    BY <1>8, <2>1
<1>11. NothingLost(R)'
  <2>1. R[firstGlob][firstText] <=> R[j][i] \/ StarFinds(R) \/ StarsFind(R)
    BY <1>3 DEF Searching, NothingLost
  <2>2. ~StarFinds(R)'
    BY <1>2 DEF StarFinds
  <2>3. StarsFind(R)' <=> \E e \in i + 1 .. n + 1 : R[j + 3][e]
    BY <1>2, <1>4 DEF StarsFind
  <2> QED
    BY <1>2, <1>7, <1>9, <1>10, <2>1, <2>2, <2>3 DEF NothingLost
<1>12. StarsReach(R)'
  <2>1. \A e \in i + 1 .. n + 1 : e \in i .. n + 1
    BY <1>1, <1>4
  <2> QED
    BY <1>2, <2>1 DEF StarsReach
<1>13. StarsReachStar(R)' /\ StarShifts(R)'
  BY <1>2 DEF StarsReachStar, StarShifts
<1>14. NotAtEnd'
  BY <1>1, <1>2, <1>4 DEF NotAtEnd
<1> QED
  BY <1>2, <1>6, <1>11, <1>12, <1>13, <1>14 DEF Loop, Searching, Returned

LEMMA EndKeeps ==
  ASSUME NEW R, Ready(R), Loop(R), End
  PROVE  Loop(R)'
<1>1. n \in Nat /\ m \in Nat /\ firstGlob \in Nat /\ firstText \in Nat /\ n + 1 \in firstText .. n + 1
  <2>1. n \in Nat /\ m \in Nat /\ firstText \in 1 .. n /\ firstGlob \in {1, 2}
    BY Bounds DEF Ready
  <2> QED
    BY <2>1
<1>2. /\ text' = text /\ glob' = glob /\ n' = n /\ m' = m /\ firstText' = firstText /\ firstGlob' = firstGlob
      /\ i' = i /\ j' = j /\ text1' = text1 /\ glob1' = glob1
      /\ text2' = text2 /\ glob2' = glob2
      /\ result' = IF \A k \in j .. m : glob[k] = "*" THEN "yes" ELSE "no"
      /\ result = "running" /\ i > n
  BY SameInput DEF End, star, stars
<1>3. Places /\ Searching(R)
  BY <1>2 DEF Loop
<1>4. i = n + 1 /\ j \in firstGlob .. m + 1 /\ j \in Nat
  <2>1. i \in firstText .. n + 1 /\ j \in firstGlob .. m + 1
    BY <1>3 DEF Places
  <2> QED
    BY <1>1, <1>2, <2>1
<1>5. ~StarFinds(R)
  <2> SUFFICES ASSUME StarFinds(R) PROVE FALSE
    OBVIOUS
  <2>1. PICK x \in i + 1 .. n + 1 : Through(R, j, i, x)
    BY <1>3, StarFindsLater DEF Searching
  <2> QED
    BY <1>1, <1>4, <2>1
<1>6. StarsFind(R) => R[j][i]
  <2> SUFFICES ASSUME StarsFind(R) PROVE R[j][i]
    OBVIOUS
  <2>1. PICK d \in i .. n + 1 : R[j][d]
    BY <1>3 DEF Searching, StarsReach, StarsFind
  <2>2. d = i
    BY <1>1, <1>4, <2>1
  <2> QED
    BY <2>1, <2>2
<1>7. R[firstGlob][firstText] <=> R[j][i]
  BY <1>3, <1>5, <1>6 DEF Searching, NothingLost
<1>8. ~Twice(glob, j)
  BY <1>3, <1>4 DEF Searching, NotAtEnd
<1>9. \A q \in firstGlob .. m : glob[q] # "*" => ~R[q][n + 1]
  <2> SUFFICES ASSUME NEW q \in firstGlob .. m, glob[q] # "*" PROVE ~R[q][n + 1]
    OBVIOUS
  <2>1. ~(n + 1 <= n)
    BY <1>1
  <2> QED
    BY <1>1, <2>1, ItemCell
<1>10. R[j][i] <=> \A k \in j .. m : glob[k] = "*"
  <2>1. CASE j > m
    <3>1. j .. m = {} /\ i > n
      BY <1>1, <1>4, <2>1
    <3> QED
      BY <1>1, <1>4, <2>1, <3>1, PatternDone
  <2>2. CASE j <= m /\ glob[j] # "*"
    <3>1. j \in firstGlob .. m /\ j \in j .. m
      BY <1>1, <1>4, <2>2
    <3> QED
      BY <1>4, <1>9, <2>2, <3>1
  <2>3. CASE j <= m /\ glob[j] = "*"
    <3>1. j \in firstGlob .. m /\ j \in j .. m /\ j + 1 \in firstGlob .. m + 1
      BY <1>1, <1>4, <2>3
    <3>2. R[j][i] <=> \E e \in n + 1 .. n + 1 : Through(R, j + 1, n + 1, e)
      BY <1>1, <1>4, <1>8, <2>3, <3>1, StarCell
    <3>3. Through(R, j + 1, n + 1, n + 1) <=> R[j + 1][n + 1]
      BY <1>1 DEF Through, NoSlash
    <3>4. R[j][i] <=> R[j + 1][n + 1]
      <4>1. n + 1 \in n + 1 .. n + 1 /\ \A e \in n + 1 .. n + 1 : e = n + 1
        BY <1>1
      <4> QED
        BY <3>2, <3>3, <4>1
    <3>5. CASE j + 1 > m
      <4>1. R[j + 1][n + 1]
        <5>1. n + 1 > n
          BY <1>1
        <5> QED
          BY <1>1, <3>1, <3>5, <5>1, PatternDone
      <4>2. \A k \in j .. m : k = j
        BY <1>1, <1>4, <3>5
      <4> QED
        BY <2>3, <3>4, <4>1, <4>2
    <3>6. CASE ~(j + 1 > m)
      <4>1. j + 1 \in firstGlob .. m /\ j + 1 \in j .. m
        BY <1>1, <1>4, <3>6
      <4>2. glob[j + 1] # "*"
        BY <1>1, <1>8, <2>3, <3>6, <1>4 DEF Twice, m
      <4> QED
        BY <1>9, <3>4, <4>1, <4>2
    <3> QED
      BY <3>5, <3>6
  <2> QED
    BY <1>1, <1>4, <2>1, <2>2, <2>3
<1>11. Places'
  BY <1>2, <1>3 DEF Places
<1> QED
  BY <1>2, <1>7, <1>10, <1>11 DEF Loop, Returned
(* The last * cannot take a slash.                                            *)
LEMMA NoExtension ==
  ASSUME NEW R, Ready(R), Places, ~CanExtend
  PROVE  ~StarFinds(R)
<1> SUFFICES ASSUME StarFinds(R) PROVE FALSE
  OBVIOUS
<1>1. n \in Nat /\ firstText \in 1 .. n
  BY Bounds DEF Ready
<1>2. text1 \in firstText .. n + 1 /\ text1 # None
  BY DEF Places, StarFinds
<1>3. PICK e \in text1 + 1 .. n + 1 : Through(R, glob1, text1, e)
  BY DEF StarFinds
<1>4. text1 \in text1 .. e - 1
  BY <1>1, <1>2
<1>5. text[text1] # "/"
  BY <1>3, <1>4 DEF Through, NoSlash
<1> QED
  BY <1>2, <1>5 DEF CanExtend

LEMMA GiveUpKeeps ==
  ASSUME NEW R, Ready(R), Loop(R), GiveUp
  PROVE  Loop(R)'
<1>1. n \in Nat /\ m \in Nat /\ firstGlob \in Nat /\ firstText \in Nat
  BY Bounds DEF Ready
<1>2. /\ text' = text /\ glob' = glob /\ n' = n /\ m' = m /\ firstText' = firstText /\ firstGlob' = firstGlob
      /\ i' = i /\ j' = j /\ text1' = text1 /\ glob1' = glob1
      /\ text2' = text2 /\ glob2' = glob2 /\ result' = "no"
      /\ Mismatch /\ ~CanExtend /\ text2 = None
  BY SameInput DEF GiveUp, star, stars
<1>3. Places /\ Searching(R)
  BY <1>2 DEF Loop, Mismatch, More
<1>4. ~R[j][i]
  BY <1>2, <1>3, MismatchMeans
<1>5. ~StarFinds(R)
  BY <1>2, <1>3, NoExtension
<1>6. ~StarsFind(R)
  BY <1>2 DEF StarsFind
<1>7. ~R[firstGlob][firstText]
  BY <1>3, <1>4, <1>5, <1>6 DEF Searching, NothingLost
<1>8. Places'
  BY <1>2, <1>3 DEF Places
<1> QED
  BY <1>2, <1>7, <1>8 DEF Loop, Returned

LEMMA BackToStarsKeeps ==
  ASSUME NEW R, Ready(R), Loop(R), BackToStars
  PROVE  Loop(R)'
<1>1. n \in Nat /\ m \in Nat /\ firstGlob \in Nat /\ firstText \in Nat
  BY Bounds DEF Ready
<1>2. /\ text' = text /\ glob' = glob /\ n' = n /\ m' = m /\ firstText' = firstText /\ firstGlob' = firstGlob
      /\ i' = text2 + 1 /\ j' = glob2 /\ text1' = text1 /\ glob1' = glob1
      /\ text2' = text2 + 1 /\ glob2' = glob2 /\ result' = result
      /\ Mismatch /\ ~CanExtend /\ text2 # None
  BY SameInput DEF BackToStars, star
<1>3. Places /\ Searching(R)
  BY <1>2 DEF Loop, Mismatch, More
<1>4. ~R[j][i] /\ result = "running" /\ i <= n /\ (j <= m => glob[j] # "*")
  BY <1>2, <1>3, MismatchMeans
<1>5. ~StarFinds(R)
  BY <1>2, <1>3, NoExtension
<1>6. text2 \in firstText .. n /\ glob2 \in firstGlob .. m + 1 /\ text2 \in Nat /\ text2 + 1 # None /\ i \in Nat
  <2>1. text2 \in firstText .. n + 1 /\ glob2 \in firstGlob .. m + 1 /\ (text2 <= n \/ i = n + 1) /\ i \in firstText .. n + 1
    BY <1>2, <1>3 DEF Places
  <2> QED
    BY <1>1, <1>4, <2>1 DEF None
<1>7. Places'
  <2>1. /\ text1 # None => text1 \in firstText .. n + 1 /\ glob1 \in firstGlob .. m + 1
        /\ text1 <= n \/ i = n + 1
    BY <1>3 DEF Places
  <2>2. text1 <= n
    BY <1>1, <1>4, <1>6, <2>1
  <2>3. text2 + 1 \in firstText .. n + 1 /\ (text2 + 1 <= n \/ text2 + 1 = n + 1)
    BY <1>1, <1>6
  <2>4. result \in {"running", "yes", "no"}
    BY <1>3 DEF Places
  <2> QED
    BY <1>2, <1>6, <2>1, <2>2, <2>3, <2>4 DEF Places
<1>8. StarsFind(R) <=> R[glob2][text2 + 1] \/ \E e \in text2 + 1 + 1 .. n + 1 : R[glob2][e]
  <2>1. \A e \in text2 + 1 .. n + 1 : e = text2 + 1 \/ e \in text2 + 1 + 1 .. n + 1
    BY <1>1, <1>6
  <2>2. /\ text2 + 1 \in text2 + 1 .. n + 1
        /\ \A e \in text2 + 1 + 1 .. n + 1 : e \in text2 + 1 .. n + 1
    BY <1>1, <1>6
  <2> QED
    BY <1>2, <2>1, <2>2 DEF StarsFind
<1>9. NothingLost(R)'
  <2>1. R[firstGlob][firstText] <=> StarsFind(R)
    BY <1>3, <1>4, <1>5 DEF Searching, NothingLost
  <2>2. ~StarFinds(R)'
    BY <1>2, <1>5 DEF StarFinds, Through
  <2>3. StarsFind(R)' <=> \E e \in text2 + 1 + 1 .. n + 1 : R[glob2][e]
    BY <1>2, <1>6 DEF StarsFind
  <2> QED
    BY <1>2, <1>8, <2>1, <2>2, <2>3 DEF NothingLost
<1>10. \A e \in text2 + 1 + 1 .. n + 1 : e \in text2 + 1 .. n + 1
  BY <1>1, <1>6
<1>11. StarsReach(R)'
  BY <1>2, <1>10 DEF StarsReach
<1>12. StarsReachStar(R)'
  <2>1. text1 # None => \A e \in text2 + 1 .. n + 1 : R[glob2][e] => \E d \in text1 .. n + 1 : R[glob1][d]
    BY <1>2, <1>3 DEF Searching, StarsReachStar
  <2> QED
    BY <1>2, <1>10, <2>1 DEF StarsReachStar
<1>13. StarShifts(R)'
  <2>1. text1 # None => text1 # n + 1 /\ text[text1] = "/"
    <3>1. text1 # None => text1 \in firstText .. n + 1 /\ (text1 <= n \/ i = n + 1)
      BY <1>3 DEF Places
    <3>2. text1 # None => text1 # n + 1
      BY <1>1, <1>4, <1>6, <3>1
    <3> QED
      BY <1>2, <3>2 DEF CanExtend
  <2> QED
    BY <1>2, <2>1 DEF StarShifts
<1>14. NotAtEnd'
  <2>1. ~Twice(glob, glob2)
    <3>1. (i = text2 /\ j = glob2) \/ ~Twice(glob, glob2)
      BY <1>2, <1>3 DEF Searching, NotAtEnd
    <3>2. j = glob2 => ~Twice(glob, glob2)
      <4>1. Twice(glob, glob2) => glob2 <= m /\ glob[glob2] = "*"
        BY <1>1, <1>6 DEF Twice, m
      <4> QED
        BY <1>4, <4>1
    <3> QED
      BY <3>1, <3>2
  <2>2. text1 # None => ~(glob1 <= m /\ glob[glob1] = "*")
    BY <1>3 DEF Searching, NotAtEnd
  <2> QED
    BY <1>2, <2>1, <2>2 DEF NotAtEnd
<1> QED
  BY <1>2, <1>4, <1>7, <1>9, <1>11, <1>12, <1>13, <1>14 DEF Loop, Searching, Returned

LEMMA BackToStarKeeps ==
  ASSUME NEW R, Ready(R), Loop(R), BackToStar
  PROVE  Loop(R)'
<1>1. n \in Nat /\ m \in Nat /\ firstGlob \in Nat /\ firstText \in Nat
  BY Bounds DEF Ready
<1>2. /\ text' = text /\ glob' = glob /\ n' = n /\ m' = m /\ firstText' = firstText /\ firstGlob' = firstGlob
      /\ i' = text1 + 1 /\ j' = glob1 /\ text1' = text1 + 1 /\ glob1' = glob1
      /\ text2' = text2 /\ glob2' = glob2 /\ result' = result
      /\ Mismatch /\ text1 # None /\ text[text1] # "/"
  BY SameInput DEF BackToStar, stars, CanExtend
<1>3. Places /\ Searching(R)
  BY <1>2 DEF Loop, Mismatch, More
<1>4. ~R[j][i] /\ result = "running" /\ i <= n /\ (j <= m => glob[j] # "*")
  BY <1>2, <1>3, MismatchMeans
<1>5. /\ text1 \in firstText .. n /\ glob1 \in firstGlob .. m + 1 /\ text1 \in Nat /\ text1 + 1 # None
      /\ i \in firstText .. n + 1 /\ i \in Nat
  <2>1. text1 \in firstText .. n + 1 /\ glob1 \in firstGlob .. m + 1 /\ (text1 <= n \/ i = n + 1) /\ i \in firstText .. n + 1
    BY <1>2, <1>3 DEF Places
  <2> QED
    BY <1>1, <1>4, <2>1 DEF None
<1>6. Places'
  <2>1. /\ text2 # None => text2 \in firstText .. n + 1 /\ glob2 \in firstGlob .. m + 1
        /\ text2 <= n \/ i = n + 1
    BY <1>3 DEF Places
  <2>2. text2 <= n
    BY <1>1, <1>4, <1>5, <2>1
  <2>3. text1 + 1 \in firstText .. n + 1 /\ (text1 + 1 <= n \/ text1 + 1 = n + 1)
    BY <1>1, <1>5
  <2>4. result \in {"running", "yes", "no"}
    BY <1>3 DEF Places
  <2> QED
    BY <1>2, <1>5, <2>1, <2>2, <2>3, <2>4 DEF Places
<1>7. StarFinds(R) <=> R[glob1][text1 + 1] \/ \E e \in text1 + 1 + 1 .. n + 1 : Through(R, glob1, text1 + 1, e)
  <2>1. \A e \in text1 + 1 .. n + 1 : e = text1 + 1 \/ e \in text1 + 1 + 1 .. n + 1
    BY <1>1, <1>5
  <2>2. /\ text1 + 1 \in text1 + 1 .. n + 1
        /\ \A e \in text1 + 1 + 1 .. n + 1 : e \in text1 + 1 .. n + 1
    BY <1>1, <1>5
  <2>3. \A e \in text1 + 1 .. n + 1 : Through(R, glob1, text1, e) <=> Through(R, glob1, text1 + 1, e)
    <3> SUFFICES ASSUME NEW e \in text1 + 1 .. n + 1
                 PROVE  NoSlash(text, text1, e - 1) <=> NoSlash(text, text1 + 1, e - 1)
      BY DEF Through
    <3>1. \A y \in text1 .. e - 1 : y = text1 \/ y \in text1 + 1 .. e - 1
      BY <1>1, <1>5
    <3>2. \A y \in text1 + 1 .. e - 1 : y \in text1 .. e - 1
      BY <1>1, <1>5
    <3> QED
      BY <1>2, <3>1, <3>2 DEF NoSlash
  <2>4. Through(R, glob1, text1 + 1, text1 + 1) <=> R[glob1][text1 + 1]
    BY <1>5 DEF Through, NoSlash
  <2> QED
    BY <1>2, <2>1, <2>2, <2>3, <2>4 DEF StarFinds
<1>8. NothingLost(R)'
  <2>1. R[firstGlob][firstText] <=> StarFinds(R) \/ StarsFind(R)
    BY <1>3, <1>4 DEF Searching, NothingLost
  <2>2. StarsFind(R)' <=> StarsFind(R)
    BY <1>2 DEF StarsFind
  <2>3. StarFinds(R)' <=> \E e \in text1 + 1 + 1 .. n + 1 : Through(R, glob1, text1 + 1, e)
    BY <1>2, <1>5 DEF StarFinds, Through
  <2> QED
    BY <1>2, <1>7, <2>1, <2>2, <2>3 DEF NothingLost
<1>9. ~R[glob1][text1]
  <2> SUFFICES ASSUME R[glob1][text1] PROVE FALSE
    OBVIOUS
  <2>1. Through(R, glob1, text1, text1) /\ text1 \in text1 .. n + 1
    BY <1>1, <1>5 DEF Through, NoSlash
  <2>2. PICK x \in i .. n + 1 : x - i = text1 - text1 /\ Through(R, j, i, x)
    BY <1>2, <1>3, <2>1 DEF Searching, StarShifts
  <2>3. x = i
    BY <1>1, <1>5, <2>2
  <2> QED
    BY <1>4, <2>2, <2>3 DEF Through
<1>10. text2 # None =>
         \A e \in text2 + 1 .. n + 1 : R[glob2][e] => \E d \in text1 + 1 .. n + 1 : R[glob1][d]
  <2> SUFFICES ASSUME text2 # None, NEW e \in text2 + 1 .. n + 1, R[glob2][e]
               PROVE  \E d \in text1 + 1 .. n + 1 : R[glob1][d]
    OBVIOUS
  <2>1. PICK d \in text1 .. n + 1 : R[glob1][d]
    BY <1>2, <1>3 DEF Searching, StarsReachStar
  <2>2. d # text1
    BY <1>9, <2>1
  <2>3. d \in text1 + 1 .. n + 1
    BY <1>1, <1>5, <2>1, <2>2
  <2> QED
    BY <2>1, <2>3
<1>11. StarsReach(R)'
  BY <1>2, <1>10 DEF StarsReach
<1>12. StarsReachStar(R)'
  BY <1>2, <1>10 DEF StarsReachStar
<1>13. StarShifts(R)'
  BY <1>2, <1>5 DEF StarShifts, Through
<1>14. NotAtEnd'
  <2>1. ~(glob1 <= m /\ glob[glob1] = "*")
    BY <1>2, <1>3 DEF Searching, NotAtEnd
  <2>2. ~Twice(glob, glob1)
    BY <1>1, <1>5, <2>1 DEF Twice, m
  <2>3. text2 # None => ~Twice(glob, glob2)
    <3>1. text2 # None => (i = text2 /\ j = glob2) \/ ~Twice(glob, glob2)
      BY <1>3 DEF Searching, NotAtEnd
    <3>2. text2 # None /\ j = glob2 => ~Twice(glob, glob2)
      <4>1. text2 # None => glob2 \in firstGlob .. m + 1
        BY <1>3 DEF Places
      <4>2. text2 # None /\ Twice(glob, glob2) => glob2 <= m /\ glob[glob2] = "*"
        BY <1>1, <4>1 DEF Twice, m
      <4> QED
        BY <1>4, <4>2
    <3> QED
      BY <3>1, <3>2
  <2> QED
    BY <1>2, <2>1, <2>2, <2>3 DEF NotAtEnd
<1> QED
  BY <1>2, <1>4, <1>6, <1>8, <1>11, <1>12, <1>13, <1>14 DEF Loop, Searching, Returned
(* An item that takes its character.                                           *)
LEMMA AdvanceKeeps ==
  ASSUME NEW R, Ready(R), Loop(R), More, j <= m, glob[j] # "*",
         LoopTakes(text, glob, j, i), Advance(LoopNext(text, glob, j, i))
  PROVE  Loop(R)'
<1>1. n \in Nat /\ m \in Nat /\ firstGlob \in Nat /\ firstText \in Nat
  BY Bounds DEF Ready
<1>2. PICK next : next = LoopNext(text, glob, j, i)
  OBVIOUS
<1>3. /\ text' = text /\ glob' = glob /\ n' = n /\ m' = m /\ firstText' = firstText /\ firstGlob' = firstGlob
      /\ i' = i + 1 /\ j' = next /\ text1' = text1 /\ glob1' = glob1
      /\ text2' = text2 /\ glob2' = glob2 /\ result' = result
      /\ result = "running" /\ i <= n
  BY <1>2, SameInput DEF Advance, star, stars, More
<1>4. Places /\ Searching(R)
  BY <1>3 DEF Loop
<1>5. i \in firstText .. n /\ j \in firstGlob .. m /\ i \in Nat /\ j \in Nat
  <2>1. i \in firstText .. n + 1 /\ j \in firstGlob .. m + 1
    BY <1>4 DEF Places
  <2> QED
    BY <1>1, <1>3, <2>1
<1>6. /\ next \in j + 1 .. m + 1
      /\ \A p \in firstText .. n : LoopNext(text, glob, j, p) = next
      /\ text[i] # "/" => ~Twice(glob, next)
  <2>1. Proper(text, glob) /\ Len(Characters) \in Nat
    BY DEF Ready
  <2>2. \A p \in firstText .. n :
          /\ LoopNext(text, glob, j, i) \in j + 1 .. m + 1
          /\ LoopNext(text, glob, j, p) = LoopNext(text, glob, j, i)
          /\ glob[j] # "*" /\ LoopTakes(text, glob, j, i) /\ text[i] # "/"
               => ~Twice(glob, LoopNext(text, glob, j, i))
    BY <1>5, <2>1, NextFacts DEF firstText, firstGlob, n, m
  <2> QED
    BY <1>2, <1>5, <2>2
<1>7. \A p \in firstText .. n + 1 :
        R[j][p] <=> p <= n /\ LoopTakes(text, glob, j, p) /\ R[next][p + 1]
  <2> SUFFICES ASSUME NEW p \in firstText .. n + 1
               PROVE  R[j][p] <=> p <= n /\ LoopTakes(text, glob, j, p) /\ R[next][p + 1]
    OBVIOUS
  <2>1. R[j][p] <=> p <= n /\ LoopTakes(text, glob, j, p) /\ R[LoopNext(text, glob, j, p)][p + 1]
    BY <1>5, ItemCell
  <2>2. p <= n => LoopNext(text, glob, j, p) = next
    BY <1>1, <1>6
  <2> QED
    BY <2>1, <2>2
<1>8. R[j][i] <=> R[next][i + 1]
  BY <1>1, <1>3, <1>5, <1>7
<1>9. Places'
  <2>1. i + 1 \in firstText .. n + 1 /\ next \in firstGlob .. m + 1
    BY <1>1, <1>5, <1>6
  <2>2. text1 <= n /\ text2 <= n
    BY <1>1, <1>3, <1>4, <1>5 DEF Places
  <2> QED
    BY <1>3, <1>4, <2>1, <2>2 DEF Places
<1>10. StarFinds(R)' <=> StarFinds(R)
  BY <1>3 DEF StarFinds, Through
<1>11. StarsFind(R)' <=> StarsFind(R)
  BY <1>3 DEF StarsFind
<1>12. NothingLost(R)'
  BY <1>3, <1>4, <1>8, <1>10, <1>11 DEF Searching, NothingLost
<1>13. StarsReach(R)'
  <2> SUFFICES ASSUME text2 # None, NEW e \in text2 + 1 .. n + 1, R[glob2][e]
               PROVE  \E d \in i + 1 .. n + 1 : R[next][d]
    BY <1>3 DEF StarsReach
  <2>1. PICK d \in i .. n + 1 : R[j][d]
    BY <1>4 DEF Searching, StarsReach
  <2>2. d \in firstText .. n + 1
    BY <1>1, <1>5, <2>1
  <2>3. d <= n /\ R[next][d + 1]
    BY <1>7, <2>1, <2>2
  <2>4. d + 1 \in i + 1 .. n + 1
    BY <1>1, <1>5, <2>1, <2>3
  <2> QED
    BY <2>3, <2>4
<1>14. StarsReachStar(R)'
  BY <1>3, <1>4 DEF Searching, StarsReachStar
<1>15. StarShifts(R)'
  <2> SUFFICES ASSUME text1 # None, text1 = n + 1 \/ text[text1] # "/",
                      NEW e \in text1 .. n + 1, Through(R, glob1, text1, e)
               PROVE  \E x \in i + 1 .. n + 1 : x - (i + 1) = e - text1
                                                /\ NoSlash(text, i + 1, x - 1) /\ R[next][x]
    BY <1>3 DEF StarShifts, Through
  <2>1. PICK x \in i .. n + 1 : x - i = e - text1 /\ Through(R, j, i, x)
    BY <1>4 DEF Searching, StarShifts
  <2>2. x \in firstText .. n + 1 /\ R[j][x] /\ NoSlash(text, i, x - 1)
    BY <1>1, <1>5, <2>1 DEF Through
  <2>3. x <= n /\ LoopTakes(text, glob, j, x) /\ R[next][x + 1]
    BY <1>7, <2>2
  <2>4. PICK z \in i + 1 .. n + 1 : z = x + 1
    BY <1>1, <1>5, <2>1, <2>3
  <2>5. text1 \in Nat
    <3>1. text1 \in firstText .. n + 1
      BY <1>4 DEF Places
    <3> QED
      BY <1>1, <3>1
  <2>6. z - (i + 1) = e - text1
    BY <1>1, <1>5, <2>1, <2>4, <2>5
  <2>7. x # i => text[x] # "/"
    <3> SUFFICES ASSUME x # i, text[x] = "/" PROVE FALSE
      OBVIOUS
    <3>1. glob[j] # "?" /\ glob[j] # "["
      BY <2>3 DEF LoopTakes
    <3>2. CaseOf(text[x]) = CaseOf(text[i])
      BY <2>3, <3>1 DEF LoopTakes
    <3>3. i \in i .. x - 1
      BY <1>1, <1>5, <2>1
    <3>4. text[i] # "/"
      BY <2>2, <3>3 DEF NoSlash
    <3> QED
      BY <3>2, <3>4 DEF CaseOf
  <2>8. NoSlash(text, i + 1, z - 1)
    <3>1. \A y \in i + 1 .. z - 1 : y \in i .. x - 1 \/ (y = x /\ x # i)
      BY <1>1, <1>5, <2>1, <2>4
    <3> QED
      BY <2>2, <2>7, <3>1 DEF NoSlash
  <2>9. R[next][z]
    BY <2>3, <2>4
  <2> QED
    BY <2>6, <2>8, <2>9
<1>16. NotAtEnd'
  <2>1. i + 1 = n + 1 => ~Twice(glob, next)
    <3> SUFFICES ASSUME i + 1 = n + 1 PROVE text[i] # "/"
      BY <1>6
    <3>1. i = Len(text)
      BY <1>1, <1>5 DEF n
    <3> QED
      BY <3>1 DEF Ready, Proper
  <2>2. text2 # None => ~Twice(glob, glob2)
    <3>1. text2 # None => (i = text2 /\ j = glob2) \/ ~Twice(glob, glob2)
      BY <1>4 DEF Searching, NotAtEnd
    <3>2. j = glob2 => ~Twice(glob, glob2)
      BY DEF Twice
    <3> QED
      BY <3>1, <3>2
  <2>3. text1 # None => ~(glob1 <= m /\ glob[glob1] = "*")
    BY <1>4 DEF Searching, NotAtEnd
  <2> QED
    BY <1>3, <2>1, <2>2, <2>3 DEF NotAtEnd
<1> QED
  BY <1>3, <1>9, <1>12, <1>13, <1>14, <1>15, <1>16 DEF Loop, Searching, Returned

LEMMA TakesKeeps ==
  ASSUME NEW R, Ready(R), Loop(R), MatchAny \/ MatchClass \/ MatchLiteral
  PROVE  Loop(R)'
<1>1. CASE MatchAny
  <2>1. More /\ j <= m /\ glob[j] = "?" /\ text[i] # "/" /\ Advance(j + 1)
    BY <1>1 DEF MatchAny, TakesAny, At
  <2>2. LoopTakes(text, glob, j, i) /\ LoopNext(text, glob, j, i) = j + 1 /\ glob[j] # "*"
    BY <2>1 DEF LoopTakes, LoopNext
  <2> QED
    BY <2>1, <2>2, AdvanceKeeps
<1>2. CASE MatchClass
  <2>1. More /\ j <= m /\ glob[j] = "[" /\ text[i] # "/"
        /\ Class(glob, j, text[i]).matched # Reversed(glob, j)
    BY <1>2 DEF MatchClass, TakesClass, At
  <2>2. LoopTakes(text, glob, j, i) /\ glob[j] # "*"
    BY <2>1 DEF LoopTakes
  <2>3. PICK end : end = Class(glob, j, text[i]).end /\ Advance(IF end <= m THEN end + 1 ELSE end)
    BY <1>2 DEF MatchClass
  <2>4. LoopNext(text, glob, j, i) = IF end <= m THEN end + 1 ELSE end
    BY <2>1, <2>3 DEF LoopNext, m
  <2> QED
    BY <2>1, <2>2, <2>3, <2>4, AdvanceKeeps
<1>3. CASE MatchLiteral
  <2>1. More /\ j <= m /\ glob[j] \notin {"*", "?", "["} /\ CaseOf(glob[Literal]) = CaseOf(text[i])
        /\ Advance(Literal + 1)
    BY <1>3 DEF MatchLiteral, TakesLiteral, IsLiteral
  <2>2. Literal = LiteralAt(glob, j)
    BY DEF Literal, LiteralAt, m
  <2>3. LoopTakes(text, glob, j, i) /\ LoopNext(text, glob, j, i) = Literal + 1 /\ glob[j] # "*"
    BY <2>1, <2>2 DEF LoopTakes, LoopNext
  <2> QED
    BY <2>1, <2>3, AdvanceKeeps
<1> QED
  BY <1>1, <1>2, <1>3

-----------------------------------------------------------------------------
(* The loop is right *)

Meaning ==
  /\ Proper(text, glob)
  /\ \E R : /\ Ready(R) /\ Loop(R)
             /\ Meant(text, glob) = R[firstGlob][firstText] /\ R[firstGlob][firstText] \in BOOLEAN

LEMMA InitPlaces ==
  ASSUME MatchInit
  PROVE  i = firstText /\ j = firstGlob /\ text1 = None /\ text2 = None /\ result = "running"
BY DEF MatchInit, firstText, firstGlob, StartOf

(* The invariant holds where the loop begins. *)
LEMMA Starts ==
  ASSUME Len(Characters) \in Nat, \A in \in Inputs : Proper(in[1], in[2]), MatchInit
  PROVE  Meaning
<1>1. PICK in \in Inputs : text = in[1] /\ glob = in[2]
  BY DEF MatchInit
<1>2. Proper(text, glob)
  BY <1>1
<1>3. PICK R : /\ Table(R, text, glob)
               /\ Meant(text, glob) = R[firstGlob][firstText] /\ R[firstGlob][firstText] \in BOOLEAN
  BY <1>2, TableExists DEF firstGlob, firstText
<1>4. Ready(R)
  BY <1>2, <1>3 DEF Ready
<1>5. n \in Nat /\ m \in Nat /\ firstText \in 1 .. n /\ firstGlob \in {1, 2} /\ firstGlob <= m + 1
  BY <1>2, Bounds
<1>6. i = firstText /\ j = firstGlob /\ text1 = None /\ text2 = None /\ result = "running"
  BY InitPlaces
<1>7. Places
  BY <1>5, <1>6 DEF Places, None
<1>8. NothingLost(R)
  BY <1>6 DEF NothingLost, StarFinds, StarsFind
<1>9. StarsReach(R) /\ StarsReachStar(R) /\ StarShifts(R)
  BY <1>6 DEF StarsReach, StarsReachStar, StarShifts
<1>10. NotAtEnd
  BY <1>5, <1>6 DEF NotAtEnd
<1>11. Loop(R)
  BY <1>6, <1>7, <1>8, <1>9, <1>10 DEF Loop, Searching, Returned
<1> QED
  BY <1>2, <1>3, <1>4, <1>11 DEF Meaning

(* ... and is kept by every step. *)
LEMMA StepKeeps ==
  ASSUME Meaning, [MatchNext]_call
  PROVE  Meaning'
<1>1. PICK R : /\ Ready(R) /\ Loop(R)
               /\ Meant(text, glob) = R[firstGlob][firstText] /\ R[firstGlob][firstText] \in BOOLEAN
  BY DEF Meaning
<1>2. UNCHANGED input
  BY DEF MatchNext, Star, TrailingStars, StarsSlash, StarsOther, MatchAny, MatchClass, MatchLiteral,
         Advance, BackToStar, BackToStars, GiveUp, End, call, input
<1>3. text' = text /\ glob' = glob /\ firstGlob' = firstGlob /\ firstText' = firstText
  BY <1>2, SameInput
<1>4. /\ Proper(text', glob') /\ Ready(R)'
      /\ Meant(text', glob') = R[firstGlob'][firstText'] /\ R[firstGlob'][firstText'] \in BOOLEAN
  BY <1>1, <1>3 DEF Meaning, Ready
<1>5. Loop(R)'
  <2>1. CASE Star
    BY <1>1, <2>1, StarKeeps
  <2>2. CASE TrailingStars
    BY <1>1, <2>2, TrailingStarsKeeps
  <2>3. CASE StarsSlash
    BY <1>1, <2>3, StarsSlashKeeps
  <2>4. CASE StarsOther
    BY <1>1, <2>4, StarsOtherKeeps
  <2>5. CASE MatchAny \/ MatchClass \/ MatchLiteral
    BY <1>1, <2>5, TakesKeeps
  <2>6. CASE BackToStar
    BY <1>1, <2>6, BackToStarKeeps
  <2>7. CASE BackToStars
    BY <1>1, <2>7, BackToStarsKeeps
  <2>8. CASE GiveUp
    BY <1>1, <2>8, GiveUpKeeps
  <2>9. CASE End
    BY <1>1, <2>9, EndKeeps
  <2>10. CASE UNCHANGED call
    <3>1. /\ i' = i /\ j' = j /\ text1' = text1 /\ glob1' = glob1
          /\ text2' = text2 /\ glob2' = glob2 /\ result' = result /\ n' = n /\ m' = m
      BY <1>2, <2>10, SameInput DEF call
    <3> QED
      BY <1>1, <1>2, <1>3, <3>1
      DEF Loop, Places, Returned, Searching, NothingLost, StarFinds, StarsFind, StarsReach,
          StarsReachStar, StarShifts, NotAtEnd, Through, input
  <2> QED
    BY <2>1, <2>2, <2>3, <2>4, <2>5, <2>6, <2>7, <2>8, <2>9, <2>10 DEF MatchNext
<1> QED
  BY <1>3, <1>4, <1>5 DEF Meaning

(* The loop of gitignore_glob_match, with one place to come back to for the last  *)
(* * and one for the last **, returns true exactly if the pattern means the path,  *)
(* for paths and patterns of every length over every set of characters; a pattern  *)
(* that could match only with a ** that ends inside a name is left out, for that   *)
(* is where the loop and the comments differ.                                 *)
THEOREM LoopIsRight ==
  ASSUME Len(Characters) \in Nat, \A in \in Inputs : Proper(in[1], in[2])
  PROVE  MatchSpec => []MatchesAsMeant
<1>1. MatchInit => Meaning
  BY Starts
<1>2. Meaning /\ [MatchNext]_call => Meaning'
  BY StepKeeps
<1>3. Meaning => MatchesAsMeant
  <2> SUFFICES ASSUME Meaning, result # "running", ~NeedsPartOfName
               PROVE  (result = "yes") = Wanted
    BY DEF MatchesAsMeant
  <2>1. PICK R : /\ Ready(R) /\ Loop(R)
                 /\ Meant(text, glob) = R[firstGlob][firstText] /\ R[firstGlob][firstText] \in BOOLEAN
    BY DEF Meaning
  <2>2. Wanted = Meant(text, glob)
    BY DEF NeedsPartOfName, PatternTakes, Meant, Pattern, n, m
  <2>3. result = "yes" <=> R[firstGlob][firstText]
    BY <2>1 DEF Loop, Places, Returned
  <2> QED
    BY <2>1, <2>2, <2>3
<1> QED
  BY <1>1, <1>2, <1>3, PTL DEF MatchSpec

-----------------------------------------------------------------------------
(* The list of rules *)

(* NoEditLost is about the moments between two calls.  What it needs from the    *)
(* middle of a call is Remembered: the rules are those of the file, or the time    *)
(* kept with them is far from the time of the file, or there are none; and that   *)
(* no time kept or just seen lies after the file's own, so that a later edit      *)
(* moves the file's time away from it.                                        *)
Remembered == rules = Rules(content) \/ ~Near(mtime, filetime) \/ rules = <<>>

NotAhead == filetime <= mtime /\ seen <= mtime /\ mtime <= now

Times == now \in Nat /\ mtime \in Nat /\ filetime \in Nat /\ seen \in Nat

(* A file read after an edit that came behind the look is read again.            *)
ListInv == Times /\ NotAhead /\ Remembered

(* The invariant of the list of rules, first and in every step. *)
LEMMA ListStarts ==
  ASSUME Init
  PROVE  ListInv
BY TimesAssumption, ContentsAssumption DEF Init, ListInv, Times, NotAhead, Remembered

LEMMA ListKeeps ==
  ASSUME EditGap >= 2, ListInv, [Next]_vars
  PROVE  ListInv'
<1> USE TimesAssumption, ContentsAssumption DEF ListInv, Times, NotAhead, Remembered
<1>1. CASE Edit
  BY <1>1 DEF Edit, list, Near
<1>2. CASE MoveAway \/ MoveBack
  BY <1>2 DEF MoveAway, MoveBack, list
<1>3. CASE Tick
  BY <1>3 DEF Tick, file, list
<1>4. CASE Ask
  BY <1>4 DEF Ask, file, list
<1>5. CASE LookGone
  BY <1>5 DEF LookGone, file
<1>6. CASE Look
  BY <1>6 DEF Look, file
<1>7. CASE Read
  BY <1>7 DEF Read, file
<1>8. CASE Answer
  BY <1>8 DEF Answer, file
<1>9. CASE UNCHANGED vars
  BY <1>9 DEF vars, file, list
<1> QED
  BY <1>1, <1>2, <1>3, <1>4, <1>5, <1>6, <1>7, <1>8, <1>9 DEF Next, IsIgnore, User

(* No edit of the ignore file is lost for good, whatever the edits and however    *)
(* they fall into the calls of isignore, if two of them are at least two         *)
(* seconds apart: update takes times that differ by one for the same.            *)
THEOREM NoEditIsLost ==
  ASSUME EditGap >= 2
  PROVE  Spec => []NoEditLost
<1>1. ListInv => NoEditLost
  BY DEF ListInv, Remembered, NoEditLost
<1>2. Init => ListInv
  BY ListStarts
<1>3. ListInv /\ [Next]_vars => ListInv'
  BY ListKeeps
<1> QED
  BY <1>1, <1>2, <1>3, PTL DEF Spec
(* The rules of a file are lines of it. *)
LEMMA RulesAreLines ==
  ASSUME NEW lines \in Seq(Line)
  PROVE  Rules(lines) \in Seq(Line)
<1> DEFINE N == Len(lines) + 1
           V == Seq(Line)
           Here(k) == IF lines[k].kind = "rule" THEN <<lines[k]>> ELSE <<>>
           Row(k, f) == IF k > Len(lines) THEN <<>> ELSE Here(k) \o f[k + 1]
           F == [k \in 1 .. N |-> [f \in [1 .. N -> V] |-> Row(k, f)]]
           Whole(f) == f = [k \in 1 .. Len(lines) + 1 |->
                              IF k > Len(lines) THEN <<>>
                              ELSE (IF lines[k].kind = "rule" THEN <<lines[k]>> ELSE <<>>) \o f[k + 1]]
           chosen == CHOOSE f : Whole(f)
<1>1. N \in Nat /\ <<>> \in V /\ \A k \in 1 .. Len(lines) : Here(k) \in V
  <2>1. \A k \in 1 .. Len(lines) : lines[k] \in Line
    OBVIOUS
  <2>2. \A x \in Line : <<x>> \in V
    OBVIOUS
  <2> QED
    BY <2>1, <2>2
<1>2. ASSUME NEW k \in 1 .. N, NEW f \in [1 .. N -> V] PROVE Row(k, f) \in V
  <2>1. CASE k > Len(lines)
    BY <1>1, <2>1
  <2>2. CASE ~(k > Len(lines))
    <3>1. k \in 1 .. Len(lines) /\ k + 1 \in 1 .. N
      BY <2>2
    <3>2. Here(k) \in V /\ f[k + 1] \in V
      BY <1>1, <3>1
    <3> HIDE DEF Here
    <3>3. Here(k) \o f[k + 1] \in V
      BY <3>2
    <3> QED
      BY <2>2, <3>3
  <2> QED
    BY <2>1, <2>2
<1>3. \A k \in 1 .. N : \A f \in [1 .. N -> V] : F[k][f] = Row(k, f)
  OBVIOUS
<1>4. ASSUME NEW k \in 1 .. N, NEW f \in [1 .. N -> V], NEW h \in [1 .. N -> V],
             \A q \in k + 1 .. N : f[q] = h[q]
      PROVE  Row(k, f) = Row(k, h)
  <2>1. k <= Len(lines) => k + 1 \in k + 1 .. N
    OBVIOUS
  <2>2. k > Len(lines) \/ k <= Len(lines)
    OBVIOUS
  <2> HIDE DEF Here
  <2> QED
    BY <1>4, <2>1, <2>2
<1> HIDE DEF F, Row
<1>5. Typed(N, V, F)
  BY <1>2, <1>3 DEF Typed
<1>13. FromAbove(N, V, F)
  BY <1>3, <1>4, SMTT(60) DEF FromAbove
<1>6. PICK f \in [1 .. N -> V] : Unfolds(N, F, f)
  <2> HIDE DEF V, N
  <2> QED
    BY <1>1, <1>5, <1>13, RecursionDown
<1>7. Whole(f)
  <2>1. \A k \in 1 .. N : f[k] = Row(k, f)
    BY <1>3, <1>6 DEF Unfolds
  <2>2. f = [k \in 1 .. N |-> Row(k, f)]
    BY <2>1
  <2> QED
    BY <2>2 DEF Row
<1>8. Whole(chosen)
  <2> HIDE DEF Whole
  <2> QED
    BY <1>7
<1>9. Rules(lines) = chosen[1]
  BY DEF Rules
<1> HIDE DEF chosen, Whole
<1>10. \A k \in 1 .. N : chosen[k] = Row(k, chosen)
  <2>1. chosen = [k \in 1 .. N |-> Row(k, chosen)]
    BY <1>8 DEF Whole, Row
  <2> QED
    BY <2>1
<1> DEFINE Wrong == {d \in 0 .. Len(lines) : chosen[N - d] \notin V}
<1>11. Wrong = {}
  <2> SUFFICES ASSUME Wrong # {} PROVE FALSE
    OBVIOUS
  <2>1. Wrong \in SUBSET Nat
    OBVIOUS
  <2>2. PICK d \in Wrong : \A e \in Wrong : d <= e
    <3> HIDE DEF Wrong
    <3> QED
      BY <2>1, Least
  <2>3. d \in 0 .. Len(lines) /\ chosen[N - d] \notin V
    OBVIOUS
  <2>4. PICK k \in 1 .. N : k = N - d
    BY <2>3
  <2>5. CASE k > Len(lines)
    BY <1>1, <1>10, <2>3, <2>4, <2>5 DEF Row
  <2>6. CASE ~(k > Len(lines))
    <3>1. k \in 1 .. Len(lines) /\ k + 1 \in 1 .. N /\ d - 1 \in 0 .. Len(lines)
          /\ N - (d - 1) = k + 1 /\ ~(d <= d - 1)
      BY <2>3, <2>4, <2>6
    <3>2. chosen[k + 1] \in V
      <4>1. d - 1 \notin Wrong
        <5> HIDE DEF Wrong
        <5> QED
          BY <2>2, <3>1
      <4>2. chosen[N - (d - 1)] \in V
        BY <3>1, <4>1
      <4> QED
        BY <3>1, <4>2
    <3>3. Here(k) \in V
      BY <1>1, <3>1
    <3> HIDE DEF Here
    <3>4. Here(k) \o chosen[k + 1] \in V
      BY <3>2, <3>3
    <3>5. chosen[k] = Here(k) \o chosen[k + 1]
      BY <1>10, <2>6 DEF Row
    <3> QED
      BY <2>3, <2>4, <3>4, <3>5
  <2> QED
    BY <2>5, <2>6
<1>12. chosen[1] \in V
  <2>1. Len(lines) \in 0 .. Len(lines) /\ N - Len(lines) = 1
    OBVIOUS
  <2> HIDE DEF N
  <2> QED
    BY <1>11, <2>1
<1> QED
  BY <1>9, <1>12

(* The rules in force are a sequence of lines. *)
RulesInv == content \in Contents /\ rules \in Seq(Line)

LEMMA RulesStart ==
  ASSUME Init
  PROVE  RulesInv
<1>1. content \in Contents /\ (rules = Rules(content) \/ rules = <<>>)
  BY DEF Init
<1>2. <<>> \in Seq(Line)
  OBVIOUS
<1>3. Rules(content) \in Seq(Line)
  BY <1>1, RulesAreLines, ContentsAssumption
<1> QED
  BY <1>1, <1>2, <1>3 DEF RulesInv

LEMMA RulesStay ==
  ASSUME RulesInv, [Next]_vars
  PROVE  RulesInv'
<1> USE DEF RulesInv
<1>1. CASE Edit
  BY <1>1 DEF Edit, list
<1>2. CASE MoveAway \/ MoveBack
  BY <1>2 DEF MoveAway, MoveBack, list
<1>3. CASE Tick
  BY <1>3 DEF Tick, file, list
<1>4. CASE Ask
  BY <1>4 DEF Ask, file, list
<1>5. CASE LookGone
  <2>1. <<>> \in Seq(Line)
    OBVIOUS
  <2> QED
    BY <1>5, <2>1 DEF LookGone, file
<1>6. CASE Look
  BY <1>6 DEF Look, file
<1>7. CASE Read
  <2>1. content' = content /\ (rules' = rules \/ rules' = Rules(content))
    BY <1>7 DEF Read, file
  <2>2. Rules(content) \in Seq(Line)
    BY RulesAreLines, ContentsAssumption
  <2> QED
    BY <2>1, <2>2
<1>8. CASE Answer
  BY <1>8 DEF Answer, file
<1>9. CASE UNCHANGED vars
  BY <1>9 DEF vars, file, list
<1> QED
  BY <1>1, <1>2, <1>3, <1>4, <1>5, <1>6, <1>7, <1>8, <1>9 DEF Next, IsIgnore, User

(* What isignore answers: -1 if no rule applies, else what the last one says.      *)
LEMMA VerdictIs ==
  ASSUME RulesInv
  PROVE  \/ Verdict = -1 /\ \A k \in 1 .. Len(rules) : ~Applies(rules[k])
         \/ \E last \in 1 .. Len(rules) :
              /\ Applies(rules[last])
              /\ \A k \in last + 1 .. Len(rules) : ~Applies(rules[k])
              /\ Verdict = IF rules[last].neg THEN 0 ELSE 1
<1> DEFINE I == {k \in 1 .. Len(rules) : Applies(rules[k])}
<1>1. Len(rules) \in Nat
  BY DEF RulesInv
<1>2. Verdict = LET last == IF I # {} THEN Max(I) ELSE 0
                     IN  IF last = 0 THEN -1 ELSE IF rules[last].neg THEN 0 ELSE 1
  BY DEF Verdict, SelectLastInSeq
<1>3. CASE I = {}
  BY <1>2, <1>3
<1>4. CASE I # {}
  <2>1. I \in SUBSET (0 .. Len(rules))
    OBVIOUS
  <2>2. \E x \in I : \A y \in I : y <= x
    <3> HIDE DEF I
    <3> QED
      BY <1>1, <1>4, <2>1, Greatest
  <2>3. PICK last : last = Max(I)
    OBVIOUS
  <2>4. last \in I /\ \A y \in I : last >= y
    <3>1. \E x \in I : \A y \in I : x >= y
      BY <1>1, <2>2
    <3> HIDE DEF I
    <3> QED
      BY <2>3, <3>1 DEF Max
  <2>5. last \in 1 .. Len(rules) /\ Applies(rules[last]) /\ last # 0
    BY <2>4
  <2>6. \A k \in last + 1 .. Len(rules) : ~Applies(rules[k])
    <3> SUFFICES ASSUME NEW k \in last + 1 .. Len(rules), Applies(rules[k]) PROVE FALSE
      OBVIOUS
    <3>1. k \in 1 .. Len(rules) /\ ~(last >= k)
      BY <1>1, <2>5
    <3> QED
      BY <2>4, <3>1
  <2>7. Verdict = IF rules[last].neg THEN 0 ELSE 1
    <3> HIDE DEF I
    <3> QED
      BY <1>2, <1>4, <2>3, <2>5
  <2> QED
    BY <2>5, <2>6, <2>7
<1> QED
  BY <1>3, <1>4

(* The last rule that applies decides about a path, however many there are and    *)
(* whenever the list was read.                                               *)
THEOREM LastRuleDecides ==
  Spec => LaterRulesWin
<1>1. Init => RulesInv
  BY RulesStart
<1>2. RulesInv /\ [Next]_vars => RulesInv'
  BY RulesStay
<1> DEFINE Said == pc = "answer" /\ pc' = "idle" =>
             ((verdict' > 0) = (\E k \in DOMAIN rules :
                /\ Applies(rules[k]) /\ ~rules[k].neg
                /\ \A l \in k + 1 .. Len(rules) : Applies(rules[l]) => ~rules[l].neg))
<1>3. RulesInv /\ [Next]_vars => [Said]_vars
  <2> DEFINE Wins == \E k \in DOMAIN rules :
               /\ Applies(rules[k]) /\ ~rules[k].neg
               /\ \A l \in k + 1 .. Len(rules) : Applies(rules[l]) => ~rules[l].neg
  <2> SUFFICES ASSUME RulesInv, Next, pc = "answer", pc' = "idle"
               PROVE  (verdict' > 0) = Wins
    OBVIOUS
  <2>1. verdict' = Verdict
    BY DEF Next, IsIgnore, User, Edit, MoveAway, MoveBack, Tick,
           Ask, LookGone, Look, Read, Answer
  <2>2. DOMAIN rules = 1 .. Len(rules) /\ Len(rules) \in Nat
    BY DEF RulesInv
  <2>3. ASSUME Verdict = -1, \A k \in 1 .. Len(rules) : ~Applies(rules[k])
        PROVE  (verdict' > 0) <=> Wins
    <3>1. ~(verdict' > 0)
      BY <2>1, <2>3
    <3> QED
      BY <2>2, <2>3, <3>1
  <2>4. ASSUME NEW last \in 1 .. Len(rules), Applies(rules[last]),
               \A k \in last + 1 .. Len(rules) : ~Applies(rules[k]),
               Verdict = IF rules[last].neg THEN 0 ELSE 1
        PROVE  (verdict' > 0) <=> Wins
    <3>1. CASE ~rules[last].neg
      BY <2>1, <2>2, <2>4, <3>1
    <3>2. CASE rules[last].neg
      <4>1. ~(verdict' > 0)
        BY <2>1, <2>4, <3>2
      <4>2. ASSUME NEW k \in DOMAIN rules, Applies(rules[k]), ~rules[k].neg,
                   \A l \in k + 1 .. Len(rules) : Applies(rules[l]) => ~rules[l].neg
            PROVE  FALSE
        <5>1. k \in 1 .. Len(rules) /\ k # last
          BY <2>2, <3>2, <4>2
        <5>2. k \in last + 1 .. Len(rules) \/ last \in k + 1 .. Len(rules)
          BY <2>2, <5>1
        <5> QED
          BY <2>4, <3>2, <4>2, <5>2
      <4> QED
        BY <4>1, <4>2
    <3> QED
      BY <3>1, <3>2
  <2>5. (verdict' > 0) <=> Wins
    <3> HIDE DEF Wins
    <3> QED
      BY <2>3, <2>4, VerdictIs
  <2>6. Wins \in BOOLEAN /\ (verdict' > 0) \in BOOLEAN
    OBVIOUS
  <2> QED
    <3> HIDE DEF Wins
    <3>1. PICK positive : positive = (verdict' > 0)
      OBVIOUS
    <3>2. positive \in BOOLEAN /\ (positive <=> Wins)
      BY <2>5, <2>6, <3>1
    <3>3. PICK wins : wins = Wins
      OBVIOUS
    <3>4. wins \in BOOLEAN /\ (positive <=> wins)
      BY <2>6, <3>2, <3>3
    <3>5. positive = wins
      BY <3>2, <3>4
    <3> QED
      BY <3>1, <3>3, <3>5
<1> QED
  BY <1>1, <1>2, <1>3, PTL DEF Spec, LaterRulesWin
=============================================================================
