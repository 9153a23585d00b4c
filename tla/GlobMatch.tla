------------------------------ MODULE GlobMatch ------------------------------
(***************************************************************************)
(* gitignore_glob_match (match.cpp): whether a path matches a pattern of the  *)
(* ignore file.  One step is one round of its loop, which keeps one place to   *)
(* come back to for the last * and one for the last ** it has passed.         *)
(*                                                                         *)
(* A text and a pattern are sequences of characters; positions count from 1.  *)
(* DOTGLOB and NOCASEGLOB are 1.                                            *)
(***************************************************************************)
EXTENDS Naturals, Sequences, SequencesExt, FiniteSets

CONSTANTS
  Characters,  \* in the order of their codes
  Inputs       \* pairs of a path and a pattern

None == 0      \* npos

VARIABLES
  text, glob,
  i, j,            \* what is compared next
  text1, glob1,    \* text1_backup, glob1_backup: of the last *
  text2, glob2,    \* of the last **
  result           \* "running", or what was returned

call == <<text, glob, i, j, text1, glob1, text2, glob2, result>>
input == <<text, glob>>
star == <<text1, glob1>>
stars == <<text2, glob2>>

n == Len(text)
m == Len(glob)

MatchTypeOK ==
  /\ input \in Inputs
  /\ i \in 1 .. n + 1 /\ j \in 1 .. m + 1
  /\ text1 \in 0 .. n + 1 /\ glob1 \in 0 .. m + 1
  /\ text2 \in 0 .. n + 1 /\ glob2 \in 0 .. m + 1
  /\ result \in {"running", "yes", "no"}

(* tolower *)
CaseOf(c) == IF c = "A" THEN "a" ELSE IF c = "B" THEN "b" ELSE c
Code(c) == CHOOSE k \in 1 .. Len(Characters) : Characters[k] = CaseOf(c)

(* A pattern with a / is matched with the path, any other one with the name.   *)
(* Paths have no ./ before them.                                            *)
FirstText(t, g) ==
  LET seps == {k \in 1 .. Len(t) : t[k] = "/"}
  IN IF "/" \in Range(g) \/ seps = {} THEN 1
     ELSE (CHOOSE k \in seps : \A l \in seps : l <= k) + 1

MatchInit ==
  /\ \E in \in Inputs : text = in[1] /\ glob = in[2]
  /\ i = FirstText(text, glob)
  /\ j = IF Len(glob) > 1 /\ glob[1] = "/" THEN 2 ELSE 1
  /\ text1 = None /\ glob1 = None /\ text2 = None /\ glob2 = None
  /\ result = "running"

-----------------------------------------------------------------------------
(* [...]: from the position of its [, whether the class takes c, and where it    *)
(* ends.  last is the code of the character before, which - makes the lower     *)
(* end of a range.                                                         *)
Reversed(g, k) == k < Len(g) /\ g[k + 1] \in {"^", "!"}

Class(g, k, c) ==
  LET With(takes, rest) == [rest EXCEPT !.matched = @ \/ takes]
      walk[p \in 1 .. Len(g) + 1] ==
        [last \in 0 .. Len(Characters) |->
           IF p > Len(g) \/ g[p] = "]" THEN [end |-> p, matched |-> FALSE]
           ELSE IF last # 0 /\ g[p] = "-" /\ p < Len(g) /\ g[p + 1] # "]"
           THEN With(Code(c) <= Code(g[p + 1]) /\ Code(c) >= last, walk[p + 2][Code(g[p + 1])])
           ELSE With(Code(c) = Code(g[p]), walk[p + 1][Code(g[p])])]
  IN walk[k + 1 + (IF Reversed(g, k) THEN 1 ELSE 0)][0]

-----------------------------------------------------------------------------
More == result = "running" /\ i <= n
At(c) == More /\ j <= m /\ glob[j] = c

Star ==
  /\ At("*") /\ ~(j < m /\ glob[j + 1] = "*")
  /\ j' = j + 1
  /\ text1' = i /\ glob1' = j + 1
  /\ UNCHANGED <<input, i, stars, result>>

(* ** at the end takes everything; before a / it takes directories, and the     *)
(* last * is given up; anywhere else nothing matches.                        *)
TrailingStars ==
  /\ At("*") /\ j + 1 = m /\ glob[m] = "*"
  /\ result' = "yes"
  /\ UNCHANGED <<input, i, j, star, stars>>

StarsSlash ==
  /\ At("*") /\ j + 2 <= m /\ glob[j + 1] = "*" /\ glob[j + 2] = "/"
  /\ text1' = None /\ glob1' = None
  /\ text2' = i /\ glob2' = j + 3 /\ j' = j + 3
  /\ UNCHANGED <<input, i, result>>

StarsOther ==
  /\ At("*") /\ j + 2 <= m /\ glob[j + 1] = "*" /\ glob[j + 2] # "/"
  /\ result' = "no"
  /\ UNCHANGED <<input, i, j, star, stars>>

TakesAny == At("?") /\ text[i] # "/"

TakesClass ==
  /\ At("[") /\ text[i] # "/"
  /\ Class(glob, j, text[i]).matched # Reversed(glob, j)

(* The position of the literal at j, after its \ if it has one. *)
Literal == IF glob[j] = "\\" /\ j < m THEN j + 1 ELSE j
IsLiteral == More /\ j <= m /\ glob[j] \notin {"*", "?", "["}
TakesLiteral == IsLiteral /\ CaseOf(glob[Literal]) = CaseOf(text[i])

Advance(next) == i' = i + 1 /\ j' = next /\ UNCHANGED <<input, star, stars, result>>

MatchAny == TakesAny /\ Advance(j + 1)
MatchClass ==
  /\ TakesClass
  /\ \E end \in {Class(glob, j, text[i]).end} : Advance(IF end <= m THEN end + 1 ELSE end)
MatchLiteral == TakesLiteral /\ Advance(Literal + 1)

(* Nothing takes text[i]: the last * takes one character more, but not a /, or   *)
(* else the last ** does.                                                  *)
Mismatch == More /\ (j <= m => glob[j] # "*") /\ ~TakesAny /\ ~TakesClass /\ ~TakesLiteral

(* Faulty: * takes a / like any other character. *)
CanExtendAny == text1 # None

CanExtend == text1 # None /\ text[text1] # "/"

BackToStar ==
  /\ Mismatch /\ CanExtend
  /\ text1' = text1 + 1 /\ i' = text1 + 1 /\ j' = glob1
  /\ UNCHANGED <<input, glob1, stars, result>>

(* Faulty: stays where the last attempt began. *)
BackToStarsAgain ==
  /\ Mismatch /\ ~CanExtend /\ text2 # None
  /\ i' = text2 /\ j' = glob2
  /\ UNCHANGED <<input, text2, star, glob2, result>>

BackToStars ==
  /\ Mismatch /\ ~CanExtend /\ text2 # None
  /\ text2' = text2 + 1 /\ i' = text2 + 1 /\ j' = glob2
  /\ UNCHANGED <<input, star, glob2, result>>

GiveUp ==
  /\ Mismatch /\ ~CanExtend /\ text2 = None
  /\ result' = "no"
  /\ UNCHANGED <<input, i, j, star, stars>>

(* At the end of the text: what is left of the pattern are stars, or it fails. *)
End ==
  /\ result = "running" /\ i > n
  /\ result' = IF \A k \in j .. m : glob[k] = "*" THEN "yes" ELSE "no"
  /\ UNCHANGED <<input, i, j, star, stars>>

MatchNext ==
  \/ Star \/ TrailingStars \/ StarsSlash \/ StarsOther
  \/ MatchAny \/ MatchClass \/ MatchLiteral
  \/ BackToStar \/ BackToStars \/ GiveUp \/ End

MatchSpec == MatchInit /\ [][MatchNext]_call /\ WF_call(MatchNext)
=============================================================================
