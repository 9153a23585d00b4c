----------------------------- MODULE MCGlobMatch -----------------------------
(***************************************************************************)
(* What the comments of match.cpp say a pattern means, to compare the loop     *)
(* with.                                                                   *)
(***************************************************************************)
EXTENDS GlobMatch, GlobInputs, TLC

-----------------------------------------------------------------------------
(* The codes that the class between two positions names; ranges do not share a  *)
(* bound.                                                                  *)
Named(g, first, past) ==
  LET named[p \in first .. past] ==
        IF p = past THEN {}
        ELSE IF p + 2 < past /\ g[p + 1] = "-"
        THEN {Code(g[p])} \cup (Code(g[p]) .. Code(g[p + 2])) \cup named[p + 3]
        ELSE {Code(g[p])} \cup named[p + 1]
  IN named[first]

ClassEnd(g, l) ==
  LET close == {k \in l + 1 .. Len(g) : g[k] = "]"}
  IN IF close = {} THEN Len(g) + 1 ELSE CHOOSE k \in close : \A o \in close : k <= o

FirstOf(g, l) == l + (IF Reversed(g, l) THEN 2 ELSE 1)

InClass(g, l, c) ==
  Code(c) \in Named(g, FirstOf(g, l), ClassEnd(g, l))

(* Whether the pattern from its position l on matches the text from k on; and, if *)
(* anywhere is TRUE, whether it would if ** before a / could end inside a name.   *)
Means(t, g, anywhere) ==
  LET From(l, part) == IsPrefix(part, SubSeq(g, l, Len(g)))
      match[l \in 1 .. Len(g) + 1] == [k \in 1 .. Len(t) + 1 |->
        IF l > Len(g) THEN k > Len(t)
        ELSE IF l = Len(g) - 1 /\ From(l, <<"*", "*">>) THEN TRUE
        ELSE IF From(l, <<"*", "*", "/">>)
        THEN \E e \in k .. Len(t) + 1 : (e = k \/ anywhere \/ t[e - 1] = "/") /\ match[l + 3][e]
        ELSE IF From(l, <<"*", "*">>) THEN FALSE
        ELSE IF g[l] = "*"
        THEN \E e \in k .. Len(t) + 1 : (\A x \in k .. e - 1 : t[x] # "/") /\ match[l + 1][e]
        ELSE /\ k <= Len(t)
             /\ CASE g[l] = "?" -> t[k] # "/" /\ match[l + 1][k + 1]
                  [] g[l] = "[" ->
                       /\ t[k] # "/" /\ InClass(g, l, t[k]) # Reversed(g, l)
                       /\ match[IF ClassEnd(g, l) > Len(g) THEN Len(g) + 1 ELSE ClassEnd(g, l) + 1][k + 1]
                  [] g[l] = "\\" /\ l < Len(g) ->
                       CaseOf(t[k]) = CaseOf(g[l + 1]) /\ match[l + 2][k + 1]
                  [] OTHER -> CaseOf(t[k]) = CaseOf(g[l]) /\ match[l + 1][k + 1]]
  IN match[1][1]

Pattern(g) == IF Len(g) > 1 /\ g[1] = "/" THEN Tail(g) ELSE g

(* "** followed by a / match zero or more directories" (match.cpp:69).           *)
PatternTakes(anywhere) == Means(SubSeq(text, FirstText(text, glob), n), Pattern(glob), anywhere)
Wanted == PatternTakes(FALSE)

(* Only with a ** that ends inside a name does the pattern match, as **/a on ba.  *)
NeedsPartOfName == PatternTakes(TRUE) # Wanted

-----------------------------------------------------------------------------
(* What is asked of a path and a pattern: every character has a code; a path is   *)
(* not empty and does not end in a slash; two stars begin a pattern or follow a   *)
(* slash; and the ranges of a class do not share a bound as in a-b-c.             *)
Codes == 1 .. Len(Characters)
Coded(c) == \E k \in Codes : Characters[k] = CaseOf(c)
AllCoded(s) == \A q \in 1 .. Len(s) : Coded(s[q])

(* Two stars begin at l, or three characters that are two stars and a slash.    *)
Twice(g, l) == l + 1 <= Len(g) /\ g[l] = "*" /\ g[l + 1] = "*"
Slashed(g, l) == l + 2 <= Len(g) /\ g[l] = "*" /\ g[l + 1] = "*" /\ g[l + 2] = "/"

NoneShared(g, first, past) ==
  \A q \in first + 1 .. past - 4 : ~(g[q] = "-" /\ g[q + 2] = "-")
ClassesClear(g) ==
  \A l \in 1 .. Len(g) : g[l] = "[" => NoneShared(g, FirstOf(g, l), ClassEnd(g, l))

Proper(s, w) ==
  /\ s \in Seq(STRING) /\ AllCoded(s) /\ Len(s) > 0 /\ s[Len(s)] # "/"
  /\ w \in Seq(STRING) /\ AllCoded(w) /\ ClassesClear(Pattern(w))
  /\ \A q \in 2 .. Len(w) : Twice(w, q) => w[q - 1] \in {"/", "*"}

-----------------------------------------------------------------------------
(* One place to come back to for each kind of star is enough: the loop finds a  *)
(* match whenever there is one by the comments of match.cpp, and no other, but   *)
(* for the patterns that need ** to end inside a name.                        *)
MatchesAsMeant ==
  result # "running" /\ ~NeedsPartOfName => (result = "yes") = Wanted

(* And for those too, as the comment says. *)
MatchesDirectories == result # "running" => (result = "yes") = Wanted

(* The loop ends, though it goes back in the text. *)
Ends == <>(result # "running")
=============================================================================
