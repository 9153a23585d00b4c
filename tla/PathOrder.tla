------------------------------ MODULE PathOrder ------------------------------
(***************************************************************************)
(* The orders of names in fsadapter.cpp, and the three places that must    *)
(* agree on them: the listing of a directory, which is sorted by one order *)
(* and thinned out by another, the children of a directory in the registry,*)
(* whose order verifydir checks, and findRecord, which looks for a name    *)
(* among them and stops at the first greater one.                          *)
(*                                                                         *)
(* A name is the sequence of its bytes without the 0 at its end.           *)
(***************************************************************************)
EXTENDS Integers, Sequences

Bytes == 1 .. 255
Names == Seq(Bytes)

Lower(c) == IF c \in 65 .. 90 THEN c + 32 ELSE c

(* What a loop over a C string reads: its bytes and the 0, as they are or   *)
(* with the capitals turned small.                                          *)
Text(s)   == [i \in 1 .. Len(s) + 1 |-> IF i <= Len(s) THEN s[i] ELSE 0]
Folded(s) == [i \in 1 .. Len(s) + 1 |-> Lower(Text(s)[i])]

(* The loops of the comparisons go on while the bytes are the same and not   *)
(* 0, and return the difference where they stop.                             *)
Same(f, g, i) == f[i] = g[i] /\ f[i] # 0
StopsAt(f, g, i) == ~Same(f, g, i) /\ \A j \in 1 .. i - 1 : Same(f, g, j)
Difference(f, g) ==
  LET i == CHOOSE i \in DOMAIN f : StopsAt(f, g, i) IN f[i] - g[i]

(* Blind to case.  pathCmpMt is the same function on Windows.               *)
pathCmpDp(l, r) == Difference(Folded(l), Folded(r))

(* For sorting: names that differ in case only are neighbours.              *)
pathCmpSt(l, r) ==
  IF pathCmpDp(l, r) # 0 THEN pathCmpDp(l, r) ELSE Difference(Text(l), Text(r))

(* The same for the first ll bytes of a path: there is no 0 at their end,    *)
(* and the loop is stopped by the one of the other name.                     *)
pathCmpDpLen(l, ll, r) ==
  LET f == Folded(l)  g == Folded(r) IN
  IF \A j \in 1 .. ll : Same(f, g, j)
    THEN 0 - Text(r)[ll + 1]
    ELSE LET i == CHOOSE i \in 1 .. ll : StopsAt(f, g, i) IN f[i] - g[i]

-----------------------------------------------------------------------------
(* ListDir *)

(* After std::sort.                                                         *)
Sorted(items) ==
  \A i, j \in DOMAIN items : i < j => pathCmpSt(items[i], items[j]) <= 0

(* lname[i] is the name kept last among the first i of them.                *)
KeptLast(items, lname) ==
  /\ lname \in [0 .. Len(items) -> Names] /\ lname[0] = <<>>
  /\ \A i \in DOMAIN items :
       lname[i] = IF pathCmpDp(items[i], lname[i - 1]) = 0
                    THEN lname[i - 1] ELSE items[i]

Kept(items, lname) ==
  {i \in DOMAIN items : pathCmpDp(items[i], lname[i - 1]) # 0}

-----------------------------------------------------------------------------
(* The children of a directory *)

(* The comparison in the loop of verifydir.                                 *)
InOrder(names) ==
  \A i \in 1 .. Len(names) - 1 : pathCmpDp(names[i], names[i + 1]) < 0

(* findRecord stops at the first name that is the one looked for or greater. *)
FoundAt(path, len, names, i) ==
  /\ i \in DOMAIN names /\ pathCmpDpLen(path, len, names[i]) = 0
  /\ \A j \in 1 .. i - 1 : pathCmpDpLen(path, len, names[j]) > 0
=============================================================================
