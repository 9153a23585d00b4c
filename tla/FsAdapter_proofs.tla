--------------------------- MODULE FsAdapter_proofs ---------------------------
(***************************************************************************)
(* Theorems about the names that go through the file system adapter: the    *)
(* orders of PathOrder, for names of any bytes and length and directories   *)
(* of any size, and the conversions of UtfConv, for names of any length and *)
(* any bytes.  What they need in place of induction is Least: a set of      *)
(* numbers that is not empty has a least one.                               *)
(***************************************************************************)
EXTENDS PathOrder, UtfConv, WellFoundedInduction, TLAPS

(* A set of natural numbers that is not empty has a least element.          *)
LEMMA Least ==
  ASSUME NEW T \in SUBSET Nat, T # {}
  PROVE  \E x \in T : \A y \in T : x <= y
<1> DEFINE R == {ss \in Nat \X Nat : ss[1] < ss[2]}
<1>1. IsWellFoundedOn(R, Nat)
  BY NatLessThanWellFounded DEF OpToRel
<1>2. PICK x \in T : \A y \in T : ~ (<<y, x>> \in R)
  BY <1>1, WFMin
<1>3. \A y \in T : ~(y < x)
  <2> TAKE y \in T
  <2>1. ~(<<y, x>> \in R) /\ <<y, x>> \in Nat \X Nat
    BY <1>2
  <2> QED BY <2>1
<1> HIDE DEF R
<1>4. x \in Nat /\ \A y \in T : y \in Nat
  OBVIOUS
<1>5. \A y \in T : x <= y
  BY <1>3, <1>4
<1> QED BY <1>5

-----------------------------------------------------------------------------
(* Strings with a 0 at their end *)

Codes == {0} \union Bytes

Ended(f) ==
  /\ Len(f) \in Nat /\ Len(f) > 0 /\ f \in [1 .. Len(f) -> Codes]
  /\ \A i \in 1 .. Len(f) : f[i] = 0 <=> i = Len(f)

(* A function on 1 .. n is a sequence of length n.                          *)
LEMMA FunctionIsSeq ==
  ASSUME NEW n \in Nat, NEW S, NEW f \in [1 .. n -> S]
  PROVE  Len(f) = n /\ f \in Seq(S)
OBVIOUS

(* Both readings of a name are such strings, of its length and one.         *)
LEMMA NamesEnd ==
  ASSUME NEW s \in Names
  PROVE  /\ Len(s) \in Nat
         /\ Ended(Text(s)) /\ Len(Text(s)) = Len(s) + 1
         /\ Ended(Folded(s)) /\ Len(Folded(s)) = Len(s) + 1
         /\ \A i \in 1 .. Len(s) : Text(s)[i] = s[i] /\ Text(s)[i] \in Bytes
         /\ Text(s)[Len(s) + 1] = 0
<1>1. Len(s) \in Nat /\ s \in [1 .. Len(s) -> Bytes]
  BY DEF Names
<1>2. \A i \in 1 .. Len(s) : s[i] \in Bytes
  BY <1>1
<1>3. \A i \in 1 .. Len(s) : Text(s)[i] = s[i]
  BY <1>1 DEF Text
<1>4. \A i \in 1 .. Len(s) + 1 : Text(s)[i] \in Codes /\ (Text(s)[i] = 0 <=> i = Len(s) + 1)
  <2> TAKE i \in 1 .. Len(s) + 1
  <2>1. CASE i = Len(s) + 1
    <3>1. Text(s)[i] = 0
      BY <1>1, <2>1 DEF Text
    <3> QED BY <2>1, <3>1 DEF Codes
  <2>2. CASE i # Len(s) + 1
    <3>1. i \in 1 .. Len(s)
      BY <1>1, <2>2
    <3>2. Text(s)[i] \in Bytes
      BY <1>2, <1>3, <3>1
    <3>3. \A c \in Bytes : c \in Codes /\ c # 0
      BY DEF Bytes, Codes
    <3> QED BY <2>2, <3>2, <3>3
  <2> QED BY <2>1, <2>2
<1>5. Text(s) \in [1 .. Len(s) + 1 -> Codes] /\ Len(Text(s)) = Len(s) + 1
  <2>1. Text(s) \in [1 .. Len(s) + 1 -> Codes]
    BY <1>4 DEF Text
  <2> QED BY <1>1, <2>1, FunctionIsSeq
<1>6. Ended(Text(s))
  BY <1>1, <1>4, <1>5 DEF Ended
<1>7. \A i \in 1 .. Len(s) + 1 : Folded(s)[i] \in Codes /\ (Folded(s)[i] = 0 <=> i = Len(s) + 1)
  <2> TAKE i \in 1 .. Len(s) + 1
  <2>1. \A c \in Codes : Lower(c) \in Codes /\ (Lower(c) = 0 <=> c = 0)
    BY DEF Lower, Codes, Bytes
  <2>2. Folded(s)[i] = Lower(Text(s)[i])
    BY DEF Folded
  <2> QED BY <1>4, <2>1, <2>2
<1>8. Folded(s) \in [1 .. Len(s) + 1 -> Codes]
  BY <1>7 DEF Folded
<1>9. Len(Folded(s)) = Len(s) + 1
  BY <1>1, <1>8, FunctionIsSeq
<1>10. Ended(Folded(s))
  BY <1>1, <1>7, <1>8, <1>9 DEF Ended
<1>11. Text(s)[Len(s) + 1] = 0
  BY <1>1 DEF Text
<1> QED BY <1>1, <1>2, <1>3, <1>5, <1>6, <1>9, <1>10, <1>11

(* What is known of one byte.                                               *)
LEMMA ByteOf ==
  ASSUME NEW f, Ended(f)
  PROVE  /\ Len(f) \in Nat /\ Len(f) > 0 /\ DOMAIN f = 1 .. Len(f) /\ f[Len(f)] = 0
         /\ \A i \in 1 .. Len(f) : f[i] \in Nat /\ (f[i] = 0 <=> i = Len(f))
<1>1. Len(f) \in Nat /\ Len(f) > 0 /\ f \in [1 .. Len(f) -> Codes]
  BY Zenon DEF Ended
<1>2. \A i \in 1 .. Len(f) : f[i] \in Codes
  BY <1>1
<1>3. \A i \in 1 .. Len(f) : f[i] = 0 <=> i = Len(f)
  BY Zenon DEF Ended
<1>4. f[Len(f)] = 0
  <2>1. Len(f) \in 1 .. Len(f)
    BY <1>1
  <2> QED BY <1>3, <2>1
<1>5. Codes \subseteq Nat
  BY DEF Codes, Bytes
<1> QED BY <1>1, <1>2, <1>3, <1>4, <1>5, ZenonT(60)

(* The loop of a comparison stops, inside both strings and at one place.    *)
LEMMA Stops ==
  ASSUME NEW f, NEW g, Ended(f), Ended(g)
  PROVE  \E i \in 1 .. Len(f) :
           /\ i <= Len(g) /\ StopsAt(f, g, i) /\ Difference(f, g) = f[i] - g[i]
<1> DEFINE T == {i \in 1 .. Len(f) : ~Same(f, g, i)}
<1>1. Len(f) \in T /\ T \in SUBSET Nat
  BY ByteOf DEF Same
<1>2. PICK i \in T : \A j \in T : i <= j
  BY <1>1, Least
<1>3. /\ Len(f) \in Nat /\ Len(g) \in Nat /\ Len(g) > 0 /\ g[Len(g)] = 0
      /\ i \in 1 .. Len(f) /\ DOMAIN f = 1 .. Len(f)
  BY ByteOf
<1>4. StopsAt(f, g, i)
  <2>1. \A j \in 1 .. i - 1 : j \in 1 .. Len(f) /\ ~(i <= j)
    BY <1>3
  <2>2. \A j \in 1 .. i - 1 : Same(f, g, j)
    BY <1>2, <2>1
  <2> QED BY <1>2, <2>2 DEF StopsAt
<1>5. i <= Len(g)
  <2> SUFFICES ASSUME Len(g) < i PROVE FALSE
    BY <1>3
  <2>1. Len(g) \in 1 .. i - 1
    BY <1>3
  <2>2. Same(f, g, Len(g))
    BY <1>4, <2>1 DEF StopsAt
  <2> QED BY <1>3, <2>2 DEF Same
<1>6. \A k \in DOMAIN f : StopsAt(f, g, k) => k = i
  <2> SUFFICES ASSUME NEW k \in DOMAIN f, StopsAt(f, g, k) PROVE k = i
    OBVIOUS
  <2>1. ~(k \in 1 .. i - 1) /\ ~(i \in 1 .. k - 1)
    BY <1>4 DEF StopsAt
  <2> QED BY <1>3, <2>1
<1>7. Difference(f, g) = f[i] - g[i]
  BY <1>3, <1>4, <1>6 DEF Difference
<1> QED BY <1>3, <1>4, <1>5, <1>7

(* The difference is 0 only between equal strings, and changes its sign with *)
(* the order of the two.                                                    *)
LEMMA DifferenceSign ==
  ASSUME NEW f, NEW g, Ended(f), Ended(g)
  PROVE  /\ Difference(f, g) \in Int
         /\ Difference(f, g) = 0 <=> f = g
         /\ Difference(f, g) < 0 <=> Difference(g, f) > 0
<1>1. PICK i \in 1 .. Len(f) :
        i <= Len(g) /\ StopsAt(f, g, i) /\ Difference(f, g) = f[i] - g[i]
  BY Stops
<1>2. PICK k \in 1 .. Len(g) :
        k <= Len(f) /\ StopsAt(g, f, k) /\ Difference(g, f) = g[k] - f[k]
  BY Stops
<1>3. Len(f) \in Nat /\ Len(g) \in Nat /\ i \in Nat /\ k \in Nat /\ i \in 1 .. Len(g)
  BY <1>1, ByteOf
<1>4. /\ f[i] \in Nat /\ g[i] \in Nat
      /\ (f[i] = 0 <=> i = Len(f)) /\ (g[i] = 0 <=> i = Len(g))
  BY <1>3, ByteOf
<1>5. i = k
  <2>1. \A j : Same(f, g, j) <=> Same(g, f, j)
    BY DEF Same
  <2>2. ~(k \in 1 .. i - 1) /\ ~(i \in 1 .. k - 1)
    BY <1>1, <1>2, <2>1 DEF StopsAt
  <2> QED BY <1>3, <2>2
<1>6. ASSUME Difference(f, g) = 0 PROVE f = g
  <2>1. f[i] = g[i]
    BY <1>1, <1>4, <1>6
  <2>2. f[i] = 0 /\ g[i] = 0
    BY <1>1, <2>1 DEF StopsAt, Same
  <2>3. i = Len(f) /\ i = Len(g)
    BY <1>4, <2>2
  <2>4. \A j \in 1 .. i : f[j] = g[j]
    <3> TAKE j \in 1 .. i
    <3>1. CASE j = i
      BY <2>1, <3>1
    <3>2. CASE j # i
      <4>1. j \in 1 .. i - 1
        BY <1>3, <3>2
      <4> QED BY <1>1, <4>1 DEF StopsAt, Same
    <3> QED BY <3>1, <3>2
  <2>5. f = [j \in 1 .. i |-> f[j]] /\ g = [j \in 1 .. i |-> g[j]]
    BY <2>3 DEF Ended
  <2> QED BY <2>4, <2>5
<1>7. ASSUME f = g PROVE Difference(f, g) = 0
  <2>1. f[i] = g[i]
    BY <1>7
  <2> QED BY <1>1, <1>4, <2>1
<1>8. Difference(f, g) \in Int
  BY <1>1, <1>4
<1>9. Difference(f, g) < 0 <=> Difference(g, f) > 0
  <2>1. Difference(g, f) = g[i] - f[i]
    BY <1>2, <1>5
  <2> QED BY <1>1, <1>4, <2>1
<1> QED BY <1>6, <1>7, <1>8, <1>9

(* "Not greater" is transitive, and strings between equal ones are equal to  *)
(* them.                                                                    *)
LEMMA DifferenceChain ==
  ASSUME NEW f, NEW g, NEW h, Ended(f), Ended(g), Ended(h),
         Difference(f, g) <= 0, Difference(g, h) <= 0
  PROVE  /\ Difference(f, h) <= 0
         /\ Difference(f, h) = 0 => Difference(f, g) = 0 /\ Difference(g, h) = 0
<1>1. PICK i \in 1 .. Len(f) :
        i <= Len(g) /\ StopsAt(f, g, i) /\ Difference(f, g) = f[i] - g[i]
  BY Stops
<1>2. PICK j \in 1 .. Len(g) :
        j <= Len(h) /\ StopsAt(g, h, j) /\ Difference(g, h) = g[j] - h[j]
  BY Stops
<1>3. PICK k \in 1 .. Len(f) :
        k <= Len(h) /\ StopsAt(f, h, k) /\ Difference(f, h) = f[k] - h[k]
  BY Stops
<1>4. /\ Len(f) \in Nat /\ Len(g) \in Nat /\ Len(h) \in Nat
      /\ i \in Nat /\ j \in Nat /\ k \in Nat
      /\ i \in 1 .. Len(g) /\ j \in 1 .. Len(h) /\ k \in 1 .. Len(h)
  BY <1>1, <1>2, <1>3, ByteOf
<1>5. /\ f[i] \in Nat /\ g[i] \in Nat /\ g[j] \in Nat /\ h[j] \in Nat
      /\ f[k] \in Nat /\ h[k] \in Nat
  BY <1>4, ByteOf
<1>6. \A n \in Nat : n > 0 /\ StopsAt(f, h, n) => n = k
  <2> TAKE n \in Nat
  <2> HAVE n > 0 /\ StopsAt(f, h, n)
  <2>1. ~(k \in 1 .. n - 1) /\ ~(n \in 1 .. k - 1)
    BY <1>3 DEF StopsAt
  <2>2. k > 0
    BY <1>4
  <2> QED BY <1>4, <2>1, <2>2
<1>7. CASE i < j
  <2>1. i \in 1 .. j - 1
    BY <1>4, <1>7
  <2>2. g[i] = h[i] /\ ~Same(f, g, i) /\ g[i] # 0
    BY <1>1, <1>2, <2>1 DEF StopsAt, Same
  <2>3. f[i] < g[i]
    BY <1>1, <1>5, <2>2 DEF Same
  <2>4. \A n \in 1 .. i - 1 : Same(f, h, n)
    <3> TAKE n \in 1 .. i - 1
    <3>1. n \in 1 .. j - 1
      BY <1>4, <1>7
    <3> QED BY <1>1, <1>2, <3>1 DEF StopsAt, Same
  <2>5. StopsAt(f, h, i)
    BY <1>5, <2>2, <2>3, <2>4 DEF StopsAt, Same
  <2>6. k = i
    BY <1>4, <1>6, <2>5
  <2> QED BY <1>3, <1>5, <2>2, <2>3, <2>6
<1>8. CASE j < i
  <2>1. j \in 1 .. i - 1
    BY <1>4, <1>8
  <2>2. f[j] = g[j] /\ ~Same(g, h, j) /\ g[j] # 0
    BY <1>1, <1>2, <2>1 DEF StopsAt, Same
  <2>3. \A n \in 1 .. j - 1 : Same(f, h, n)
    <3> TAKE n \in 1 .. j - 1
    <3>1. n \in 1 .. i - 1
      BY <1>4, <1>8
    <3> QED BY <1>1, <1>2, <3>1 DEF StopsAt, Same
  <2>4. StopsAt(f, h, j)
    BY <2>2, <2>3 DEF StopsAt, Same
  <2>5. k = j
    BY <1>4, <1>6, <2>4
  <2>6. g[j] # h[j]
    BY <2>2 DEF Same
  <2> QED BY <1>2, <1>3, <1>5, <2>2, <2>5, <2>6
<1>9. CASE i = j
  <2>1. f[i] <= g[i] /\ g[i] <= h[i] /\ h[i] \in Nat
    BY <1>1, <1>2, <1>5, <1>9, SMTT(60)
  <2>2. ~Same(f, h, i)
    <3> SUFFICES ASSUME Same(f, h, i) PROVE FALSE
      OBVIOUS
    <3>1. f[i] = g[i]
      BY <1>5, <2>1, SMTT(60) DEF Same
    <3> QED BY <1>1, <3>1 DEF StopsAt, Same
  <2>3. \A n \in 1 .. i - 1 : Same(f, h, n)
    BY <1>1, <1>2, <1>9 DEF StopsAt, Same
  <2>4. k = i
    BY <1>4, <1>6, <2>2, <2>3 DEF StopsAt
  <2> QED BY <1>1, <1>2, <1>3, <1>5, <1>9, <2>1, <2>4
<1> QED BY <1>4, <1>7, <1>8, <1>9

-----------------------------------------------------------------------------
(* The two orders *)

(* pathCmpDp is a total order on names that are told apart by more than      *)
(* case: without cycles, and with an answer for every two names.             *)
THEOREM DpIsOrder ==
  ASSUME NEW l \in Names, NEW m \in Names, NEW r \in Names
  PROVE  /\ pathCmpDp(l, m) \in Int
         /\ pathCmpDp(l, m) = 0 <=> Folded(l) = Folded(m)
         /\ pathCmpDp(l, m) < 0 <=> pathCmpDp(m, l) > 0
         /\ pathCmpDp(l, m) <= 0 /\ pathCmpDp(m, r) <= 0 =>
              /\ pathCmpDp(l, r) <= 0
              /\ pathCmpDp(l, r) = 0 => pathCmpDp(l, m) = 0 /\ pathCmpDp(m, r) = 0
<1>1. Ended(Folded(l)) /\ Ended(Folded(m)) /\ Ended(Folded(r))
  BY NamesEnd
<1> QED BY <1>1, DifferenceSign, DifferenceChain DEF pathCmpDp

(* Below a name that is not greater than another is below that one.         *)
LEMMA DpBelow ==
  ASSUME NEW l \in Names, NEW m \in Names, NEW r \in Names,
         pathCmpDp(l, m) <= 0, pathCmpDp(m, r) < 0
  PROVE  pathCmpDp(l, r) < 0
<1>1. pathCmpDp(m, r) \in Int /\ pathCmpDp(l, r) \in Int
  BY DpIsOrder
<1>2. pathCmpDp(m, r) <= 0
  BY <1>1
<1>3. pathCmpDp(l, r) <= 0 /\ (pathCmpDp(l, r) = 0 => pathCmpDp(m, r) = 0)
  BY <1>2, DpIsOrder
<1> QED BY <1>1, <1>3

(* A name is known by what a comparison of its bytes reads.                  *)
LEMMA TextIsName ==
  ASSUME NEW l \in Names, NEW m \in Names
  PROVE  /\ Text(l) = Text(m) <=> l = m
         /\ Text(l) = Text(m) => Folded(l) = Folded(m)
<1>1. ASSUME Text(l) = Text(m) PROVE l = m
  <2>1. Len(l) \in Nat /\ Len(m) \in Nat /\ Len(l) + 1 = Len(m) + 1
    BY <1>1, NamesEnd
  <2>2. Len(l) = Len(m)
    BY <2>1
  <2>3. \A i \in 1 .. Len(l) : l[i] = m[i]
    BY <1>1, <2>2, NamesEnd
  <2>4. l = [i \in 1 .. Len(l) |-> l[i]] /\ m = [i \in 1 .. Len(m) |-> m[i]]
    BY DEF Names
  <2> QED BY <2>2, <2>3, <2>4
<1>2. ASSUME l = m PROVE Text(l) = Text(m) /\ Folded(l) = Folded(m)
  BY <1>2
<1> QED BY <1>1, <1>2

(* pathCmpSt is a strict total order, as std::sort requires of ListDir: only *)
(* a name and itself compare as equal.  It refines pathCmpDp.                *)
THEOREM StIsOrder ==
  ASSUME NEW l \in Names, NEW m \in Names, NEW r \in Names
  PROVE  /\ pathCmpSt(l, m) \in Int
         /\ pathCmpSt(l, m) = 0 <=> l = m
         /\ pathCmpSt(l, m) < 0 <=> pathCmpSt(m, l) > 0
         /\ pathCmpSt(l, m) < 0 /\ pathCmpSt(m, r) < 0 => pathCmpSt(l, r) < 0
         /\ pathCmpSt(l, m) <= 0 => pathCmpDp(l, m) <= 0
<1>1. Ended(Text(l)) /\ Ended(Text(m)) /\ Ended(Text(r))
  BY NamesEnd
<1> DEFINE D(x, y) == Difference(Text(x), Text(y))
<1>2. /\ D(l, m) \in Int /\ (D(l, m) = 0 <=> l = m)
      /\ (D(l, m) < 0 <=> D(m, l) > 0)
  BY <1>1, DifferenceSign, TextIsName
<1>3. D(m, l) \in Int /\ D(l, r) \in Int /\ D(m, r) \in Int /\ (D(m, l) = 0 <=> l = m)
  BY <1>1, DifferenceSign, TextIsName
<1>4. /\ pathCmpDp(l, m) \in Int /\ pathCmpDp(m, l) \in Int
      /\ pathCmpDp(m, r) \in Int /\ pathCmpDp(l, r) \in Int
      /\ (pathCmpDp(l, m) < 0 <=> pathCmpDp(m, l) > 0)
      /\ (pathCmpDp(m, l) < 0 <=> pathCmpDp(l, m) > 0)
      /\ (l = m => pathCmpDp(l, m) = 0)
  BY DpIsOrder
<1>5. D(l, m) <= 0 /\ D(m, r) <= 0 => D(l, r) <= 0 /\ (D(l, r) = 0 => D(l, m) = 0 /\ D(m, r) = 0)
  BY <1>1, DifferenceChain
<1> HIDE DEF D
<1>6. /\ pathCmpSt(l, m) = IF pathCmpDp(l, m) # 0 THEN pathCmpDp(l, m) ELSE D(l, m)
      /\ pathCmpSt(m, l) = IF pathCmpDp(m, l) # 0 THEN pathCmpDp(m, l) ELSE D(m, l)
      /\ pathCmpSt(m, r) = IF pathCmpDp(m, r) # 0 THEN pathCmpDp(m, r) ELSE D(m, r)
      /\ pathCmpSt(l, r) = IF pathCmpDp(l, r) # 0 THEN pathCmpDp(l, r) ELSE D(l, r)
  BY DEF pathCmpSt, D
<1>7. pathCmpDp(l, m) <= 0 /\ pathCmpDp(m, r) <= 0 =>
        pathCmpDp(l, r) <= 0 /\ (pathCmpDp(l, r) = 0 => pathCmpDp(l, m) = 0 /\ pathCmpDp(m, r) = 0)
  BY DpIsOrder
<1>8. pathCmpSt(l, m) < 0 /\ pathCmpSt(m, r) < 0 => pathCmpSt(l, r) < 0
  <2> SUFFICES ASSUME pathCmpSt(l, m) < 0, pathCmpSt(m, r) < 0 PROVE pathCmpSt(l, r) < 0
    OBVIOUS
  <2>1. pathCmpDp(l, m) <= 0 /\ pathCmpDp(m, r) <= 0
    BY <1>4, <1>6
  <2>2. CASE pathCmpDp(l, r) # 0
    BY <1>4, <1>6, <1>7, <2>1, <2>2
  <2>3. CASE pathCmpDp(l, r) = 0
    <3>1. D(l, m) < 0 /\ D(m, r) < 0
      BY <1>6, <1>7, <2>1, <2>3
    <3> QED BY <1>2, <1>3, <1>5, <1>6, <2>3, <3>1
  <2> QED BY <2>2, <2>3
<1>9. pathCmpSt(l, m) = 0 <=> l = m
  BY <1>2, <1>4, <1>6
<1>10. pathCmpSt(l, m) < 0 <=> pathCmpSt(m, l) > 0
  BY <1>2, <1>3, <1>4, <1>6
<1>11. pathCmpSt(l, m) \in Int /\ (pathCmpSt(l, m) <= 0 => pathCmpDp(l, m) <= 0)
  BY <1>2, <1>4, <1>6
<1> QED BY <1>8, <1>9, <1>10, <1>11

-----------------------------------------------------------------------------
(* Listing a directory *)

(* What ListDir keeps is strictly ascending in the order that verifydir and  *)
(* findRecord use, although it was sorted by another one and compared with   *)
(* its neighbours only; and every file of the directory is in it, but for    *)
(* the case of its name.                                                    *)
THEOREM ListingAscends ==
  ASSUME NEW items \in Seq(Names \ {<<>>}), NEW lname,
         Sorted(items), KeptLast(items, lname)
  PROVE  /\ \A i, j \in Kept(items, lname) : i < j => pathCmpDp(items[i], items[j]) < 0
         /\ \A i \in DOMAIN items :
              \E k \in Kept(items, lname) : k <= i /\ pathCmpDp(items[k], items[i]) = 0
<1> DEFINE n == Len(items)
<1>1. n \in Nat /\ DOMAIN items = 1 .. n /\ \A i \in 1 .. n : items[i] \in Names /\ items[i] # <<>>
  OBVIOUS
<1> HIDE DEF n
<1>2. \A i \in 0 .. n : lname[i] \in Names
  BY DEF KeptLast, n
<1>3. \A i \in 1 .. n : i - 1 \in 0 .. n /\ i \in 0 .. n
  BY <1>1
<1>4. \A i \in 1 .. n : Folded(lname[i]) = Folded(items[i])
  <2> TAKE i \in 1 .. n
  <2>1. lname[i] = IF pathCmpDp(items[i], lname[i - 1]) = 0 THEN lname[i - 1] ELSE items[i]
    BY <1>1 DEF KeptLast
  <2> QED BY <1>1, <1>2, <1>3, <2>1, DpIsOrder
<1>5. \A i \in 1 .. n : i \in Kept(items, lname) <=> Folded(items[i]) # Folded(lname[i - 1])
  BY <1>1, <1>2, <1>3, DpIsOrder DEF Kept
<1>6. \A i \in 1 .. n : Folded(items[i]) # Folded(<<>>)
  <2> TAKE i \in 1 .. n
  <2>1. items[i] \in Names /\ items[i] # <<>> /\ <<>> \in Names
    BY <1>1 DEF Names
  <2>2. Len(items[i]) \in Nat /\ Len(items[i]) # 0 /\ Len(<<>>) = 0
    BY <2>1 DEF Names
  <2>3. \A s \in Names : Len(Folded(s)) = Len(s) + 1
    BY NamesEnd
  <2>4. Len(Folded(items[i])) = Len(items[i]) + 1 /\ Len(Folded(<<>>)) = Len(<<>>) + 1
    BY <2>1, <2>3
  <2>5. Len(items[i]) + 1 # Len(<<>>) + 1
    BY <2>2
  <2>6. Len(Folded(items[i])) # Len(Folded(<<>>))
    BY ONLY <2>4, <2>5
  <2> QED BY <2>6
<1>7. \A i \in 1 .. n : i > 1 => i - 1 \in 1 .. n
  BY <1>1
<1>8. \A i \in 1 .. n : i \in Kept(items, lname) <=> (i > 1 => Folded(items[i]) # Folded(items[i - 1]))
  <2> TAKE i \in 1 .. n
  <2>1. CASE i = 1
    <3>1. lname[i - 1] = <<>>
      BY <2>1 DEF KeptLast
    <3> QED BY <1>5, <1>6, <2>1, <3>1
  <2>2. CASE i > 1
    BY <1>4, <1>5, <1>7, <2>2
  <2> QED BY <1>1, <2>1, <2>2
<1>9. \A i, j \in 1 .. n : i < j => pathCmpDp(items[i], items[j]) <= 0
  BY <1>1, StIsOrder DEF Sorted
<1>10. \A i, j \in Kept(items, lname) : i < j => pathCmpDp(items[i], items[j]) < 0
  <2> SUFFICES ASSUME NEW i \in Kept(items, lname), NEW j \in Kept(items, lname), i < j
               PROVE  pathCmpDp(items[i], items[j]) < 0
    OBVIOUS
  <2>1. i \in 1 .. n /\ j \in 1 .. n
    BY <1>1 DEF Kept
  <2>2. j > 1 /\ j - 1 \in 1 .. n /\ i <= j - 1
    BY <1>1, <2>1
  <2>3. Folded(items[j]) # Folded(items[j - 1])
    BY <1>8, <2>1, <2>2
  <2>4. items[i] \in Names /\ items[j] \in Names /\ items[j - 1] \in Names
    BY <1>1, <2>1, <2>2
  <2>5. pathCmpDp(items[j - 1], items[j]) < 0
    <3>1. pathCmpDp(items[j - 1], items[j]) <= 0
      <4>1. j - 1 < j
        BY <1>1, <2>1
      <4> QED BY <1>9, <2>1, <2>2, <4>1
    <3>2. pathCmpDp(items[j - 1], items[j]) # 0 /\ pathCmpDp(items[j - 1], items[j]) \in Int
      BY <2>3, <2>4, DpIsOrder, ZenonT(60)
    <3> QED BY <3>1, <3>2
  <2>6. CASE i = j - 1
    BY <2>5, <2>6
  <2>7. CASE i < j - 1
    <3>1. pathCmpDp(items[i], items[j - 1]) <= 0
      BY <1>9, <2>1, <2>2, <2>7
    <3> QED BY <2>4, <2>5, <3>1, DpBelow
  <2>8. i = j - 1 \/ i < j - 1
    BY <1>1, <2>1, <2>2
  <2> QED BY <2>6, <2>7, <2>8
<1>11. ASSUME NEW i \in 1 .. n
       PROVE  \E k \in Kept(items, lname) : k <= i /\ pathCmpDp(items[k], items[i]) = 0
  <2> DEFINE T == {k \in 1 .. n : Folded(items[k]) = Folded(items[i])}
  <2>1. i \in T /\ T \in SUBSET Nat
    BY <1>1
  <2>2. PICK k \in T : \A m \in T : k <= m
    BY <2>1, Least
  <2>3. k \in 1 .. n /\ k <= i /\ Folded(items[k]) = Folded(items[i])
    BY <2>1, <2>2
  <2>4. k > 1 => Folded(items[k]) # Folded(items[k - 1])
    <3> SUFFICES ASSUME k > 1, Folded(items[k]) = Folded(items[k - 1]) PROVE FALSE
      OBVIOUS
    <3>1. k - 1 \in T
      BY <1>7, <2>3
    <3>2. k <= k - 1
      BY <2>2, <3>1
    <3> QED BY <1>1, <2>3, <3>2
  <2> HIDE DEF T
  <2>5. k \in Kept(items, lname)
    BY <1>8, <2>3, <2>4
  <2> QED BY <1>1, <2>3, <2>5, DpIsOrder
<1> QED BY <1>1, <1>10, <1>11

-----------------------------------------------------------------------------
(* Looking for a name *)

(* The first len bytes of a path are a name.                                *)
LEMMA PartIsName ==
  ASSUME NEW path \in Names, NEW len \in 1 .. Len(path)
  PROVE  /\ SubSeq(path, 1, len) \in Names
         /\ Len(SubSeq(path, 1, len)) = len
         /\ \A i \in 1 .. len : Folded(SubSeq(path, 1, len))[i] = Folded(path)[i]
<1> DEFINE key == [i \in 1 .. len |-> path[i]]
<1>1. Len(path) \in Nat /\ len \in Nat /\ len <= Len(path)
  BY DEF Names
<1>2. \A i \in 1 .. len : i \in 1 .. Len(path) /\ path[i] \in Bytes
  BY <1>1 DEF Names
<1>3. key \in [1 .. len -> Bytes]
  BY <1>2
<1>4. Len(key) = len /\ key \in Names
  BY <1>1, <1>3, FunctionIsSeq DEF Names
<1>5. SubSeq(path, 1, len) = key
  BY <1>1 DEF Names
<1>6. \A i \in 1 .. len : Folded(key)[i] = Folded(path)[i]
  <2> TAKE i \in 1 .. len
  <2>1. key[i] = path[i]
    OBVIOUS
  <2> HIDE DEF key
  <2>2. Text(key)[i] = Text(path)[i]
    BY <1>2, <1>4, <2>1, NamesEnd
  <2>3. i \in 1 .. Len(key) + 1 /\ i \in 1 .. Len(path) + 1
    BY <1>1, <1>4
  <2> QED BY <2>2, <2>3 DEF Folded
<1> HIDE DEF key
<1> QED BY <1>4, <1>5, <1>6

(* Comparing the part of a path with a name gives the sign that comparing    *)
(* it as a name of its own would.                                           *)
THEOREM PartComparesAlike ==
  ASSUME NEW path \in Names, NEW len \in 1 .. Len(path), NEW name \in Names
  PROVE  /\ pathCmpDpLen(path, len, name) \in Int
         /\ pathCmpDpLen(path, len, name) = 0 <=> pathCmpDp(SubSeq(path, 1, len), name) = 0
         /\ pathCmpDpLen(path, len, name) > 0 <=> pathCmpDp(SubSeq(path, 1, len), name) > 0
<1> DEFINE key == SubSeq(path, 1, len)
           f == Folded(path)
           g == Folded(name)
           h == Folded(key)
<1>1. /\ key \in Names /\ Len(key) = len /\ len \in Nat /\ len > 0
      /\ \A i \in 1 .. len : h[i] = f[i]
  BY PartIsName DEF Names
<1> HIDE DEF key
<1>2. Ended(f) /\ Ended(g) /\ Ended(h) /\ Len(h) = len + 1
  BY <1>1, NamesEnd
<1>3. \A i \in 1 .. len : Same(h, g, i) <=> Same(f, g, i)
  BY <1>1 DEF Same
<1>4. PICK i \in 1 .. len + 1 :
        i <= Len(g) /\ StopsAt(h, g, i) /\ pathCmpDp(key, name) = h[i] - g[i]
  BY <1>2, Stops DEF pathCmpDp
<1>5. Len(g) \in Nat /\ i \in 1 .. Len(g) /\ g[i] \in Nat /\ h[i] \in Nat /\ h[len + 1] = 0
  BY <1>1, <1>2, <1>4, ByteOf
<1>6. CASE \A j \in 1 .. len : Same(f, g, j)
  <2>1. i = len + 1
    <3>1. ~(i \in 1 .. len)
      BY <1>3, <1>4, <1>6 DEF StopsAt
    <3> QED BY <1>1, <3>1
  <2>2. pathCmpDpLen(path, len, name) = 0 - Text(name)[len + 1]
    BY <1>6 DEF pathCmpDpLen
  <2>3. g[len + 1] = Lower(Text(name)[len + 1]) /\ Text(name)[len + 1] \in Codes
    <3>1. Len(name) \in Nat /\ len + 1 \in 1 .. Len(name) + 1 /\ Ended(Text(name)) /\ Len(Text(name)) = Len(name) + 1
      BY <1>5, <2>1, NamesEnd
    <3> QED BY <3>1 DEF Folded, Ended
  <2>4. \A c \in Codes : c \in Nat /\ (Lower(c) = 0 <=> c = 0)
    BY DEF Codes, Bytes, Lower
  <2>5. pathCmpDp(key, name) = 0 - g[len + 1]
    BY <1>4, <1>5, <2>1
  <2> HIDE DEF g
  <2> QED BY <1>5, <2>1, <2>2, <2>3, <2>4, <2>5 DEF key
<1>7. CASE ~ \A j \in 1 .. len : Same(f, g, j)
  <2>1. i \in 1 .. len
    <3>1. PICK j \in 1 .. len : ~Same(h, g, j)
      BY <1>3, <1>7
    <3>2. ~(j \in 1 .. i - 1)
      BY <1>4, <3>1 DEF StopsAt
    <3> QED BY <1>1, <3>2
  <2>2. StopsAt(f, g, i)
    <3>1. \A j \in 1 .. i - 1 : j \in 1 .. len
      BY <1>1, <2>1
    <3> QED BY <1>3, <1>4, <2>1, <3>1 DEF StopsAt
  <2>3. \A k \in 1 .. len : StopsAt(f, g, k) => k = i
    <3> SUFFICES ASSUME NEW k \in 1 .. len, StopsAt(f, g, k) PROVE k = i
      OBVIOUS
    <3>1. ~(k \in 1 .. i - 1) /\ ~(i \in 1 .. k - 1)
      BY <2>2 DEF StopsAt
    <3> QED BY <1>1, <2>1, <3>1
  <2>4. pathCmpDpLen(path, len, name) = f[i] - g[i]
    BY <1>7, <2>1, <2>2, <2>3 DEF pathCmpDpLen
  <2>5. pathCmpDpLen(path, len, name) = pathCmpDp(key, name)
    BY <1>1, <1>4, <2>1, <2>4
  <2>6. pathCmpDp(key, name) \in Int
    BY <1>4, <1>5
  <2> QED BY <2>5, <2>6 DEF key
<1> QED BY <1>6, <1>7

(* Neighbours in order put a whole directory in order.                      *)
LEMMA OrderIsGlobal ==
  ASSUME NEW names \in Seq(Names), InOrder(names)
  PROVE  \A i, j \in DOMAIN names : i < j => pathCmpDp(names[i], names[j]) < 0
<1> DEFINE n == Len(names)
<1>1. n \in Nat /\ DOMAIN names = 1 .. n /\ \A i \in 1 .. n : names[i] \in Names
  OBVIOUS
<1> HIDE DEF n
<1> SUFFICES ASSUME NEW i \in 1 .. n PROVE \A j \in 1 .. n : i < j => pathCmpDp(names[i], names[j]) < 0
  BY <1>1
<1> DEFINE T == {j \in 1 .. n : i < j /\ ~(pathCmpDp(names[i], names[j]) < 0)}
<1> SUFFICES ASSUME T # {} PROVE FALSE
  OBVIOUS
<1>2. PICK j \in T : \A m \in T : j <= m
  <2>1. T \in SUBSET Nat
    BY <1>1
  <2> QED BY <2>1, Least
<1>3. j \in 1 .. n /\ i < j /\ ~(pathCmpDp(names[i], names[j]) < 0)
  OBVIOUS
<1>4. j - 1 \in 1 .. n /\ j - 1 \in 1 .. n - 1 /\ ~(j - 1 \in T) /\ i <= j - 1
  <2>1. j - 1 \in 1 .. n /\ j - 1 \in 1 .. n - 1 /\ i <= j - 1 /\ ~(j <= j - 1)
    BY <1>1, <1>3
  <2> QED BY <1>2, <2>1
<1>5. pathCmpDp(names[j - 1], names[j]) < 0
  <2>1. pathCmpDp(names[j - 1], names[(j - 1) + 1]) < 0
    BY <1>4 DEF InOrder, n
  <2>2. (j - 1) + 1 = j
    BY <1>1, <1>3
  <2> QED BY <2>1, <2>2
<1>6. CASE i = j - 1
  BY <1>3, <1>5, <1>6
<1>7. CASE i < j - 1
  <2>1. pathCmpDp(names[i], names[j - 1]) < 0
    BY <1>4, <1>7
  <2>2. names[i] \in Names /\ names[j - 1] \in Names /\ names[j] \in Names
    BY <1>1, <1>3, <1>4
  <2> HIDE DEF T
  <2>3. pathCmpDp(names[i], names[j - 1]) <= 0
    <3>1. pathCmpDp(names[i], names[j - 1]) \in Int
      BY <2>2, DpIsOrder
    <3> QED BY <2>1, <3>1
  <2>4. pathCmpDp(names[i], names[j]) < 0
    BY <1>5, <2>2, <2>3, DpBelow
  <2> QED BY <1>3, <2>4
<1> QED BY <1>1, <1>3, <1>4, <1>6, <1>7

(* In a directory that verifydir accepts, findRecord finds the part of a path *)
(* it is asked for wherever a child has that name, but for case.             *)
THEOREM FindRecordFinds ==
  ASSUME NEW names \in Seq(Names), InOrder(names),
         NEW path \in Names, NEW len \in 1 .. Len(path), NEW i \in DOMAIN names
  PROVE  FoundAt(path, len, names, i) <=> pathCmpDp(SubSeq(path, 1, len), names[i]) = 0
<1> DEFINE key == SubSeq(path, 1, len)
<1>1. key \in Names
  BY PartIsName
<1>2. DOMAIN names = 1 .. Len(names) /\ Len(names) \in Nat /\ \A j \in DOMAIN names : names[j] \in Names
  OBVIOUS
<1>3. \A j \in DOMAIN names :
        /\ pathCmpDpLen(path, len, names[j]) = 0 <=> pathCmpDp(key, names[j]) = 0
        /\ pathCmpDpLen(path, len, names[j]) > 0 <=> pathCmpDp(key, names[j]) > 0
  BY <1>2, PartComparesAlike
<1> HIDE DEF key
<1>4. ASSUME pathCmpDp(key, names[i]) = 0 PROVE FoundAt(path, len, names, i)
  <2>1. \A j \in 1 .. i - 1 : j \in DOMAIN names /\ pathCmpDpLen(path, len, names[j]) > 0
    <3> SUFFICES ASSUME NEW j \in 1 .. i - 1
                 PROVE  j \in DOMAIN names /\ pathCmpDpLen(path, len, names[j]) > 0
      OBVIOUS
    <3>1. j \in DOMAIN names /\ j < i
      BY <1>2
    <3>2. pathCmpDp(names[j], names[i]) < 0
      BY <3>1, OrderIsGlobal
    <3>3. pathCmpDp(names[i], key) = 0
      BY <1>1, <1>2, <1>4, DpIsOrder
    <3>4. names[i] \in Names /\ names[j] \in Names /\ pathCmpDp(key, names[j]) \in Int
      BY <1>1, <1>2, <3>1, DpIsOrder
    <3>5. pathCmpDp(key, names[j]) > 0
      <4> SUFFICES ASSUME ~(pathCmpDp(key, names[j]) > 0) PROVE FALSE
        OBVIOUS
      <4>1. pathCmpDp(key, names[j]) <= 0 /\ pathCmpDp(names[i], key) <= 0
        BY <3>3, <3>4
      <4>2. pathCmpDp(names[i], names[j]) <= 0
        BY <1>1, <3>4, <4>1, DpIsOrder
      <4>3. pathCmpDp(names[i], names[j]) > 0
        BY <3>2, <3>4, DpIsOrder
      <4>4. pathCmpDp(names[i], names[j]) \in Int
        BY <3>4, DpIsOrder
      <4> QED BY <4>2, <4>3, <4>4
    <3> QED BY <1>3, <3>1, <3>5
  <2> QED BY <1>3, <1>4, <2>1 DEF FoundAt
<1>5. ASSUME FoundAt(path, len, names, i) PROVE pathCmpDp(key, names[i]) = 0
  BY <1>3, <1>5 DEF FoundAt
<1> QED BY <1>4, <1>5 DEF key

-----------------------------------------------------------------------------
(* Utf conversion *)

(* Counting.  A loop that moves from k to next[k] and adds size[k] there, until  *)
(* it is at a place in stop, adds up the same from a place on, whichever way    *)
(* it got there: total.                                                     *)
IsTotal(n, stop, size, next, total) ==
  /\ total \in [1 .. n -> Nat]
  /\ \A k \in 1 .. n : total[k] = IF k \in stop THEN 0 ELSE size[k] + total[next[k]]

LEMMA TotalExists ==
  ASSUME NEW n \in Nat, NEW stop,
         NEW size \in [1 .. n -> Nat], NEW next,
         \A k \in 1 .. n : k \notin stop => next[k] \in k + 1 .. n
  PROVE  \E total : IsTotal(n, stop, size, next, total)
<1> DEFINE Value(f, k) == IF k \in stop THEN 0 ELSE size[k] + f[next[k]]
           Right(f, a) == f \in [1 .. n -> Nat] /\ \A k \in 1 .. n : k > n - a => f[k] = Value(f, k)
           Counts(a) == \E f : Right(f, a)
           missed == {a \in 0 .. n : ~Counts(a)}
<1>0. \A k \in 1 .. n : k \notin stop => next[k] > k /\ next[k] \in 1 .. n
  OBVIOUS
<1>1. Counts(0)
  <2> DEFINE f == [k \in 1 .. n |-> 0]
  <2>1. f \in [1 .. n -> Nat]
    OBVIOUS
  <2>2. \A k \in 1 .. n : ~(k > n - 0)
    OBVIOUS
  <2> HIDE DEF f, Value
  <2>3. Right(f, 0)
    BY <2>1, <2>2
  <2> QED
    BY <2>3
<1>2. ASSUME NEW a \in 1 .. n, Counts(a - 1) PROVE Counts(a)
  <2> DEFINE top == n - a + 1
  <2>1. top \in 1 .. n /\ \A k \in 1 .. n : k > n - a <=> k >= top
    OBVIOUS
  <2>2. PICK f : Right(f, a - 1)
    BY <1>2
  <2>3. f \in [1 .. n -> Nat] /\ \A k \in 1 .. n : k > top => f[k] = Value(f, k)
    <3>1. \A k \in 1 .. n : k > top => k > n - (a - 1)
      OBVIOUS
    <3> HIDE DEF Value, top
    <3> QED
      BY <2>2, <3>1
  <2> DEFINE g == [f EXCEPT ![top] = Value(f, top)]
  <2>4. Value(f, top) \in Nat
    BY <1>0, <2>1, <2>3, SMTT(60)
  <2> HIDE DEF top
  <2>5. /\ g \in [1 .. n -> Nat] /\ g[top] = Value(f, top)
        /\ \A k \in 1 .. n : k # top => g[k] = f[k]
    <3> HIDE DEF Value
    <3> QED
      BY <2>1, <2>3, <2>4
  <2> HIDE DEF g
  <2>6. \A k \in 1 .. n : k >= top => Value(g, k) = Value(f, k)
    <3> TAKE k \in 1 .. n
    <3> HAVE k >= top
    <3>1. CASE k \in stop
      BY <3>1
    <3>2. CASE k \notin stop
      <4>1. next[k] # top /\ next[k] \in 1 .. n
        BY <1>0, <2>1, <3>2
      <4> QED
        BY <2>5, <4>1
    <3> QED
      BY <3>1, <3>2
  <2> HIDE DEF Value
  <2>7. \A k \in 1 .. n : k >= top => g[k] = Value(g, k)
    <3> TAKE k \in 1 .. n
    <3> HAVE k >= top
    <3>1. CASE k = top
      BY <2>5, <2>6, <3>1
    <3>2. CASE k # top
      <4>1. k > top
        BY <2>1, <3>2
      <4> QED
        BY <2>3, <2>5, <2>6, <3>2, <4>1
    <3> QED
      BY <3>1, <3>2
  <2>8. Right(g, a)
    BY <2>1, <2>5, <2>7
  <2> QED
    BY <2>8
<1> HIDE DEF Counts
<1>3. missed = {}
  <2> SUFFICES ASSUME missed # {} PROVE FALSE
    OBVIOUS
  <2>0. missed \in SUBSET Nat
    OBVIOUS
  <2> HIDE DEF missed
  <2>1. PICK a \in missed : \A b \in missed : a <= b
    BY <2>0, Least
  <2> USE DEF missed
  <2>2. a \in 1 .. n /\ a - 1 \in 0 .. n /\ ~(a <= a - 1)
    BY <1>1, <2>1
  <2>3. Counts(a - 1)
    BY <2>1, <2>2
  <2> QED
    BY <1>2, <2>1, <2>2, <2>3
<1>4. Counts(n)
  BY <1>3
<1>5. PICK f : Right(f, n)
  BY <1>4 DEF Counts
<1>6. \A k \in 1 .. n : k > n - n
  OBVIOUS
<1> HIDE DEF Value
<1>7. f \in [1 .. n -> Nat] /\ \A k \in 1 .. n : f[k] = Value(f, k)
  BY <1>5, <1>6
<1> QED
  BY <1>7 DEF IsTotal, Value

-----------------------------------------------------------------------------
(* Characters *)

LEMMA EndIsNat == BMP_END \in Nat
BY DEF BMP_END

LEMMA SixBits ==
  ASSUME NEW byte \in Nat
  PROVE  byte % 64 \in Nat /\ byte % 64 <= 63
OBVIOUS

LEMMA LeadBits ==
  ASSUME NEW byte \in Nat
  PROVE  /\ byte % 8 \in Nat
         /\ byte % 16 \in Nat /\ byte % 16 <= 15
         /\ byte % 32 \in Nat /\ byte % 32 <= 31
OBVIOUS

LEMMA Joined ==
  ASSUME NEW S, NEW front \in Seq(S), NEW rear \in Seq(S)
  PROVE  /\ front \o rear \in Seq(S)
         /\ Len(front) \in Nat /\ Len(front \o rear) = Len(front) + Len(rear)
OBVIOUS

LEMMA UnitsAndBytes ==
  /\ Unit \subseteq Nat /\ Byte \subseteq Nat
  /\ \A m \in Seq(Unit) : Len(m) \in Nat /\ \A k \in 1 .. Len(m) : m[k] \in Nat
  /\ \A m \in Seq(Byte) : Len(m) \in Nat /\ \A k \in 1 .. Len(m) : m[k] \in Nat
<1>1. Unit \subseteq Nat /\ Byte \subseteq Nat
  BY DEF Unit, Byte
<1>2. ASSUME NEW m \in Seq(Unit) PROVE Len(m) \in Nat /\ \A k \in 1 .. Len(m) : m[k] \in Nat
  <2>1. Len(m) \in Nat /\ \A k \in 1 .. Len(m) : m[k] \in Unit
    OBVIOUS
  <2> QED
    BY <1>1, <2>1
<1>3. ASSUME NEW m \in Seq(Byte) PROVE Len(m) \in Nat /\ \A k \in 1 .. Len(m) : m[k] \in Nat
  <2>1. Len(m) \in Nat /\ \A k \in 1 .. Len(m) : m[k] \in Byte
    OBVIOUS
  <2> QED
    BY <1>1, <2>1
<1> QED
  BY <1>1, <1>2, <1>3

LEMMA AnnouncedLemma ==
  ASSUME NEW b PROVE Announced(b) \in 0 .. 4
<1> DEFINE fits == {s \in 1 .. 4 : b \in LeadValue[s] .. LeadValue[s] + LeadRange[s] - 1}
<1>1. fits # {} => (CHOOSE s \in fits : TRUE) \in fits
  OBVIOUS
<1>2. fits \subseteq 1 .. 4
  OBVIOUS
<1> HIDE DEF fits
<1>3. Announced(b) = IF fits = {} THEN 0 ELSE CHOOSE s \in fits : TRUE
  BY DEF Announced, fits
<1> QED
  BY <1>1, <1>2, <1>3

(* What UTF-16 decodes to, and that it reads at most two units.               *)
LEMMA Decode16Lemma ==
  ASSUME NEW m \in Seq(Unit), NEW k \in 1 .. Len(m) - 2, m[k] # 0
  PROVE  /\ decode_utf16(m, k).code \in Nat
         /\ \/ decode_utf16(m, k).next = k + 1
            \/ decode_utf16(m, k).next = k + 2 /\ m[k + 2] # 0
<1>1. m[k] \in Nat /\ m[k + 1] \in Nat
  <2>1. k \in 1 .. Len(m) /\ k + 1 \in 1 .. Len(m)
    OBVIOUS
  <2> QED
    BY <2>1, UnitsAndBytes
<1>2. (m[k] % 1024) * 1024 + (m[k + 1] % 1024) + SURROGATE_CODEPOINT_OFFSET \in Nat
  BY <1>1, SMTT(60) DEF SURROGATE_CODEPOINT_OFFSET
<1>3. CASE ~IsSurrogate(m[k])
  <2>1. decode_utf16(m, k) = [code |-> m[k], next |-> k + 1]
    BY <1>3 DEF decode_utf16
  <2>2. decode_utf16(m, k).code = m[k] /\ decode_utf16(m, k).next = k + 1
    BY <2>1
  <2> QED
    BY <1>1, <2>2, Zenon
<1>4. CASE IsSurrogate(m[k]) /\ (~IsHigh(m[k]) \/ m[k + 2] = 0)
  <2>1. decode_utf16(m, k) = [code |-> INVALID_CODEPOINT, next |-> k + 1]
    BY <1>4 DEF decode_utf16
  <2>2. decode_utf16(m, k).code = INVALID_CODEPOINT /\ decode_utf16(m, k).next = k + 1
    BY <2>1
  <2>3. INVALID_CODEPOINT \in Nat
    BY DEF INVALID_CODEPOINT
  <2> QED
    BY <2>2, <2>3, Zenon
<1>5. CASE IsSurrogate(m[k]) /\ IsHigh(m[k]) /\ m[k + 2] # 0
  <2> DEFINE pair == (m[k] % 1024) * 1024 + (m[k + 1] % 1024) + SURROGATE_CODEPOINT_OFFSET
  <2>1. decode_utf16(m, k) =
          [code |-> IF IsLow(m[k + 1]) THEN pair ELSE INVALID_CODEPOINT, next |-> k + 2]
    BY <1>5 DEF decode_utf16
  <2>2. pair \in Nat
    BY <1>2
  <2> HIDE DEF pair
  <2> QED
    BY <1>5, <2>1, <2>2 DEF INVALID_CODEPOINT
<1> QED
  BY <1>3, <1>4, <1>5

LEMMA Encode8Lemma ==
  ASSUME NEW c \in Nat
  PROVE  /\ utf8_char_len(c) \in 1 .. 4
         /\ encode_utf8(c) \in Seq(Byte) /\ Len(encode_utf8(c)) = utf8_char_len(c)
<1> DEFINE size == utf8_char_len(c)
           bits(k) == c \div Shift[size - k + 1]
           byte(k) == IF k = 1 THEN LeadValue[size] + (bits(k) % LeadRange[size])
                      ELSE 128 + (bits(k) % 64)
<1>1. size \in 1 .. 4
  BY DEF utf8_char_len
<1> HIDE DEF size
<1>2. \A k \in 1 .. size : size - k + 1 \in 1 .. 4
  BY <1>1
<1>3. \A p \in 1 .. 4 : c \div Shift[p] \in Nat
  BY DEF Shift
<1>4. \A k \in 1 .. size : bits(k) \in Nat
  BY <1>2, <1>3
<1> HIDE DEF bits
<1>5. \A k \in 1 .. size : 128 + (bits(k) % 64) \in Byte
  BY <1>4 DEF Byte
<1>6. \A k \in 1 .. size : LeadValue[size] + (bits(k) % LeadRange[size]) \in Byte
  BY <1>1, <1>4 DEF Byte, LeadValue, LeadRange
<1>7. \A k \in 1 .. size : byte(k) \in Byte
  BY <1>5, <1>6
<1>8. encode_utf8(c) = [k \in 1 .. size |-> byte(k)]
  BY DEF encode_utf8, size, bits
<1> HIDE DEF byte
<1> QED
  BY <1>1, <1>7, <1>8 DEF size

LEMMA Encode16Lemma ==
  ASSUME NEW c \in Nat
  PROVE  /\ encode_utf16(c) \in Seq(Unit \ {0}) /\ Len(encode_utf16(c)) <= 2
         /\ c <= BMP_END => Len(encode_utf16(c)) <= 1
<1>1. CASE c = 0
  BY <1>1 DEF encode_utf16, BMP_END
<1>2. CASE c # 0 /\ c <= BMP_END
  <2>1. c \in Unit \ {0}
    BY <1>2, EndIsNat DEF Unit
  <2>2. encode_utf16(c) = <<c>>
    BY <1>2 DEF encode_utf16
  <2> QED
    BY <2>1, <2>2
<1>3. CASE c > BMP_END
  <2> DEFINE d == c - SURROGATE_CODEPOINT_OFFSET
             high == 55296 + ((d \div 1024) % 1024)
             low == 56320 + (d % 1024)
  <2>1. d \in Nat
    BY <1>3 DEF BMP_END, SURROGATE_CODEPOINT_OFFSET
  <2>2. encode_utf16(c) = <<high, low>>
    BY <1>3 DEF encode_utf16, BMP_END
  <2> HIDE DEF d
  <2>3. high \in Unit \ {0} /\ low \in Unit \ {0}
    <3>1. d \div 1024 \in Nat
      BY <2>1
    <3> DEFINE a == (d \div 1024) % 1024
               b == d % 1024
    <3>2. a \in Nat /\ a <= 1023 /\ b \in Nat /\ b <= 1023
      BY <2>1, <3>1
    <3>3. high = 55296 + a /\ low = 56320 + b
      OBVIOUS
    <3> HIDE DEF a, b, high, low
    <3>4. /\ high \in Nat /\ high <= 65535 /\ high # 0
          /\ low \in Nat /\ low <= 65535 /\ low # 0
      BY <3>2, <3>3
    <3>5. high <= BMP_END /\ low <= BMP_END /\ BMP_END \in Nat
      BY <3>4 DEF BMP_END
    <3> QED
      BY <3>4, <3>5 DEF Unit
  <2> HIDE DEF high, low
  <2> QED
    BY <1>3, <2>2, <2>3 DEF BMP_END
<1> QED
  BY <1>1, <1>2, <1>3 DEF BMP_END

(* A character of UTF-8 ends at the end of its memory at the latest.          *)
LEMMA NextCharLemma ==
  ASSUME NEW m \in Seq(Byte), Len(m) > 0, m[Len(m)] = 0,
         NEW k \in 1 .. Len(m), m[k] # 0
  PROVE  NextChar(m, k) \in k + 1 .. Len(m)
<1> DEFINE s == Announced(m[k])
<1>0. s \in 0 .. 4
  BY AnnouncedLemma
<1> HIDE DEF s
<1>1. Len(m) \in Nat /\ k \in Nat /\ k < Len(m)
  OBVIOUS
<1>2. CASE IsWhole(m, k)
  <2>1. \A p \in k + 1 .. k + s - 1 : m[p] # 0
    BY <1>2 DEF IsWhole, s
  <2>2. ~(Len(m) \in k + 1 .. k + s - 1)
    BY <2>1
  <2>3. NextChar(m, k) = k + (IF s = 0 THEN 1 ELSE s)
    BY <1>2 DEF NextChar, s
  <2> QED
    BY <1>0, <1>1, <2>2, <2>3
<1>3. CASE ~IsWhole(m, k)
  <2> DEFINE Cut(p) == m[p] = 0 /\ \A q \in k + 1 .. p - 1 : m[q] # 0
  <2>1. PICK p \in k + 1 .. k + s - 1 : m[p] = 0
    BY <1>3 DEF IsWhole, s
  <2>2. \E c \in k + 1 .. k + 3 : Cut(c)
    <3>1. p \in {k + 1, k + 2, k + 3}
      BY <1>0, <1>1, <2>1
    <3>2. CASE m[k + 1] = 0
      BY <1>1, <3>2
    <3>3. CASE m[k + 1] # 0 /\ m[k + 2] = 0
      <4>1. \A q \in k + 1 .. (k + 2) - 1 : q = k + 1
        BY <1>1
      <4> QED
        BY <1>1, <3>3, <4>1
    <3>4. CASE m[k + 1] # 0 /\ m[k + 2] # 0 /\ m[k + 3] = 0
      <4>1. \A q \in k + 1 .. (k + 3) - 1 : q = k + 1 \/ q = k + 2
        BY <1>1
      <4> QED
        BY <1>1, <3>4, <4>1
    <3> QED
      BY <2>1, <3>1, <3>2, <3>3, <3>4
  <2>3. NextChar(m, k) = CHOOSE c \in k + 1 .. k + 3 : Cut(c)
    BY <1>3 DEF NextChar
  <2> HIDE DEF Cut
  <2>4. NextChar(m, k) \in k + 1 .. k + 3 /\ Cut(NextChar(m, k))
    BY <2>2, <2>3
  <2>5. ~(Len(m) \in k + 1 .. NextChar(m, k) - 1)
    BY <2>4 DEF Cut
  <2> QED
    BY <1>1, <2>4, <2>5
<1> QED
  BY <1>2, <1>3

(* What is written for a character is at most what was measured for it.        *)
LEMMA CharacterFits ==
  ASSUME NEW m \in Seq(Byte), Len(m) > 0, m[Len(m)] = 0,
         NEW k \in 1 .. Len(m), m[k] # 0
  PROVE  /\ utf8to16_char_len(m, k) \in 1 .. 2
         /\ encode_utf16(decode_utf8(m, k)) \in Seq(Unit \ {0})
         /\ Len(encode_utf16(decode_utf8(m, k))) <= utf8to16_char_len(m, k)
<1> DEFINE s == Announced(m[k])
           c == decode_utf8(m, k)
<1>1. s \in 0 .. 4
  BY AnnouncedLemma
<1>2. Len(m) \in Nat /\ k \in Nat /\ \A p \in 1 .. Len(m) : m[p] \in Nat
  BY UnitsAndBytes
<1>3. CASE s = 0 \/ ~IsWhole(m, k)
  <2>1. c = 65533 /\ utf8to16_char_len(m, k) = 1
    BY <1>3 DEF decode_utf8, INVALID_CODEPOINT, utf8to16_char_len
  <2> QED
    BY <2>1, Encode16Lemma, SMTT(60) DEF BMP_END
<1>4. CASE s \in 1 .. 4 /\ IsWhole(m, k)
  <2>1. k + s - 1 < Len(m) /\ \A p \in k .. k + s - 1 : m[p] \in Nat
    <3>1. ~(Len(m) \in k + 1 .. k + s - 1)
      BY <1>4 DEF IsWhole
    <3> HIDE DEF s
    <3> QED
      BY <1>2, <1>4, <3>1
  <2> DEFINE And(bits, p) == bits * 64 + (m[p] % 64)
             one == m[k] % LeadRange[s]
             two == And(one, k + 1)
             three == And(two, k + 2)
             code == IF s = 1 THEN one ELSE IF s = 2 THEN two
                     ELSE IF s = 3 THEN three ELSE And(three, k + 3)
  <2>2. c = IF (code < BMP_END /\ IsSurrogate(code)) \/ code > UNICODE_MAX
              THEN INVALID_CODEPOINT ELSE code
    BY <1>4 DEF decode_utf8
  <2>3. code \in Nat /\ (s # 4 => code <= BMP_END)
    <3> HIDE DEF s
    <3>1. CASE s = 1
      BY <1>2, <3>1 DEF LeadRange, BMP_END
    <3> DEFINE second == m[k + 1] % 64
               third  == m[k + 2] % 64
               fourth == m[k + 3] % 64
    <3>2. CASE s = 2
      <4>1. m[k] \in Nat /\ m[k + 1] \in Nat
        BY <2>1, <3>2, <1>2
      <4>2. one = m[k] % 32
        BY <3>2 DEF LeadRange
      <4>3. code = one * 64 + second
        BY <3>2
      <4> HIDE DEF one, two, three, code
      <4>4. one \in Nat /\ one <= 31 /\ second \in Nat /\ second <= 63
        BY <4>1, <4>2, SixBits, LeadBits, ZenonT(60)
      <4> HIDE DEF second, third, fourth
      <4>5. code \in Nat /\ code <= 2047
        BY <4>3, <4>4
      <4> QED
        BY <4>5 DEF BMP_END
    <3>3. CASE s = 3
      <4>1. m[k] \in Nat /\ m[k + 1] \in Nat /\ m[k + 2] \in Nat
        BY <2>1, <3>3, <1>2
      <4>2. one = m[k] % 16
        BY <3>3 DEF LeadRange
      <4>3. two = one * 64 + second /\ code = two * 64 + third
        BY <3>3
      <4> HIDE DEF one, two, three, code
      <4>4. /\ one \in Nat /\ one <= 15
            /\ second \in Nat /\ second <= 63
            /\ third \in Nat /\ third <= 63
        BY <4>1, <4>2, SixBits, LeadBits, ZenonT(60)
      <4> HIDE DEF second, third, fourth
      <4>5. two \in Nat /\ two <= 1023
        BY <4>3, <4>4
      <4>6. code \in Nat /\ code <= 65535
        BY <4>3, <4>4, <4>5
      <4> QED
        BY <4>6 DEF BMP_END
    <3>4. CASE s = 4
      <4>1. m[k] \in Nat /\ m[k + 1] \in Nat /\ m[k + 2] \in Nat /\ m[k + 3] \in Nat
        BY <2>1, <3>4, <1>2
      <4>2. one = m[k] % 8
        BY <3>4 DEF LeadRange
      <4>3. two = one * 64 + second /\ three = two * 64 + third /\ code = three * 64 + fourth
        BY <3>4
      <4> HIDE DEF one, two, three, code
      <4>4. one \in Nat /\ second \in Nat /\ third \in Nat /\ fourth \in Nat
        BY <4>1, <4>2, SixBits, LeadBits, ZenonT(60)
      <4> HIDE DEF second, third, fourth
      <4>5. two \in Nat
        BY <4>3, <4>4
      <4>6. three \in Nat
        BY <4>3, <4>4, <4>5
      <4>7. code \in Nat
        BY <4>3, <4>4, <4>6
      <4> QED
        BY <3>4, <4>7
    <3> QED
      BY <1>4, <3>1, <3>2, <3>3, <3>4
  <2>4. utf8to16_char_len(m, k) = IF s = 4 THEN 2 ELSE 1
    BY <1>4 DEF utf8to16_char_len
  <2> HIDE DEF code, s
  <2>5. c \in Nat /\ (s # 4 => c <= BMP_END)
    BY <2>2, <2>3 DEF INVALID_CODEPOINT, BMP_END
  <2> HIDE DEF c
  <2>6. /\ encode_utf16(c) \in Seq(Unit \ {0}) /\ Len(encode_utf16(c)) <= 2
        /\ c <= BMP_END => Len(encode_utf16(c)) <= 1
    BY <2>5, Encode16Lemma
  <2>7. Len(encode_utf16(c)) <= utf8to16_char_len(m, k) /\ utf8to16_char_len(m, k) \in 1 .. 2
    BY <2>4, <2>5, <2>6
  <2> QED
    BY <2>6, <2>7 DEF c
<1> QED
  BY <1>1, <1>3, <1>4

-----------------------------------------------------------------------------
(* What a loop still has to count from a place on.                           *)

Memory16(m) == m \in Seq(Unit) /\ Len(m) >= 2 /\ m[Len(m) - 1] = 0 /\ m[Len(m)] = 0
Memory8(m) == m \in Seq(Byte) /\ Len(m) > 0 /\ m[Len(m)] = 0

Zeros(m) == {k \in 1 .. Len(m) : m[k] = 0}

Count8(m) ==
  CHOOSE total :
    IsTotal(Len(m), Zeros(m),
            [k \in 1 .. Len(m) |-> utf8_char_len(decode_utf16(m, k).code)],
            [k \in 1 .. Len(m) |-> decode_utf16(m, k).next], total)

Count16(m) ==
  CHOOSE total :
    IsTotal(Len(m), Zeros(m),
            [k \in 1 .. Len(m) |-> utf8to16_char_len(m, k)],
            [k \in 1 .. Len(m) |-> NextChar(m, k)], total)

LEMMA Step16 ==
  ASSUME NEW m, Memory16(m), NEW k \in 1 .. Len(m), m[k] # 0
  PROVE  decode_utf16(m, k).code \in Nat /\ decode_utf16(m, k).next \in k + 1 .. Len(m)
<1>1. Len(m) \in Nat /\ k # Len(m) /\ k # Len(m) - 1
  BY DEF Memory16
<1>2. k \in 1 .. Len(m) - 2
  BY <1>1
<1> QED
  BY <1>1, <1>2, Decode16Lemma DEF Memory16

LEMMA Count8Lemma ==
  ASSUME NEW m, Memory16(m)
  PROVE  /\ Count8(m) \in [1 .. Len(m) -> Nat]
         /\ \A k \in 1 .. Len(m) :
              Count8(m)[k] =
                IF m[k] = 0 THEN 0
                ELSE utf8_char_len(decode_utf16(m, k).code) + Count8(m)[decode_utf16(m, k).next]
<1> DEFINE n == Len(m)
           size == [k \in 1 .. n |-> utf8_char_len(decode_utf16(m, k).code)]
           next == [k \in 1 .. n |-> decode_utf16(m, k).next]
<1>1. n \in Nat
  BY DEF Memory16
<1>2. size \in [1 .. n -> Nat]
  <2>1. \A k \in 1 .. n : utf8_char_len(decode_utf16(m, k).code) \in Nat
    BY DEF utf8_char_len
  <2> QED
    BY <2>1
<1>3. \A k \in 1 .. n : k \notin Zeros(m) => next[k] \in k + 1 .. n
  <2> TAKE k \in 1 .. n
  <2> HAVE k \notin Zeros(m)
  <2>1. m[k] # 0
    BY DEF Zeros
  <2> QED
    BY <2>1, Step16
<1>4. Count8(m) = CHOOSE total : IsTotal(n, Zeros(m), size, next, total)
  BY DEF Count8
<1>5. \A k \in 1 .. n : /\ size[k] = utf8_char_len(decode_utf16(m, k).code)
                        /\ next[k] = decode_utf16(m, k).next
                        /\ k \in Zeros(m) <=> m[k] = 0
  BY DEF Zeros
<1> HIDE DEF n, size, next
<1>6. \E total : IsTotal(n, Zeros(m), size, next, total)
  BY <1>1, <1>2, <1>3, TotalExists
<1>7. IsTotal(n, Zeros(m), size, next, Count8(m))
  BY <1>4, <1>6
<1> QED
  BY <1>5, <1>7 DEF IsTotal, n

LEMMA Count16Lemma ==
  ASSUME NEW m, Memory8(m)
  PROVE  /\ Count16(m) \in [1 .. Len(m) -> Nat]
         /\ \A k \in 1 .. Len(m) :
              Count16(m)[k] =
                IF m[k] = 0 THEN 0
                ELSE utf8to16_char_len(m, k) + Count16(m)[NextChar(m, k)]
<1> DEFINE n == Len(m)
           size == [k \in 1 .. n |-> utf8to16_char_len(m, k)]
           next == [k \in 1 .. n |-> NextChar(m, k)]
<1>1. n \in Nat
  BY DEF Memory8
<1>2. size \in [1 .. n -> Nat]
  <2>1. \A k \in 1 .. n : utf8to16_char_len(m, k) \in Nat
    BY DEF utf8to16_char_len
  <2> QED
    BY <2>1
<1>3. \A k \in 1 .. n : k \notin Zeros(m) => next[k] \in k + 1 .. n
  <2> TAKE k \in 1 .. n
  <2> HAVE k \notin Zeros(m)
  <2>1. m[k] # 0
    BY DEF Zeros
  <2> QED
    BY <2>1, NextCharLemma DEF Memory8
<1>4. Count16(m) = CHOOSE total : IsTotal(n, Zeros(m), size, next, total)
  BY DEF Count16
<1>5. \A k \in 1 .. n : /\ size[k] = utf8to16_char_len(m, k)
                        /\ next[k] = NextChar(m, k)
                        /\ k \in Zeros(m) <=> m[k] = 0
  BY DEF Zeros
<1> HIDE DEF n, size, next
<1>6. \E total : IsTotal(n, Zeros(m), size, next, total)
  BY <1>1, <1>2, <1>3, TotalExists
<1>7. IsTotal(n, Zeros(m), size, next, Count16(m))
  BY <1>4, <1>6
<1> QED
  BY <1>5, <1>7 DEF IsTotal, n

-----------------------------------------------------------------------------
(* The invariant *)

Back == Seq(Unit \ {0})

InMeasure8 ==
  /\ Memory16(u16) /\ at \in 1 .. Len(u16) /\ u8 = <<>> /\ back = <<>>
  /\ need \in Nat /\ need + Count8(u16)[at] = Count8(u16)[1]
InEncode8 ==
  /\ Memory16(u16) /\ at \in 1 .. Len(u16) /\ u8 \in Seq(Byte) /\ back = <<>>
  /\ need \in Nat /\ Len(u8) + Count8(u16)[at] = need
InMeasure16 ==
  /\ u16 \in Seq(Unit) /\ Memory8(u8) /\ at \in 1 .. Len(u8) /\ back = <<>>
  /\ need \in Nat /\ need + Count16(u8)[at] = Count16(u8)[1]
InEncode16 ==
  /\ u16 \in Seq(Unit) /\ Memory8(u8) /\ at \in 1 .. Len(u8) /\ back \in Back
  /\ need \in Nat /\ Len(back) + Count16(u8)[at] <= need
InDone ==
  /\ u16 \in Seq(Unit) /\ Memory8(u8) /\ at \in 1 .. Len(u8) /\ back \in Back
  /\ need \in Nat /\ Len(back) <= need

(* In each loop, what is counted or written and what is still to count make up *)
(* what the whole memory counts.                                            *)
Inv ==
  \/ loop = "measure8" /\ InMeasure8
  \/ loop = "encode8" /\ InEncode8
  \/ loop = "measure16" /\ InMeasure16
  \/ loop = "encode16" /\ InEncode16
  \/ loop = "done" /\ InDone

LEMMA InitInv == ConvInit => Inv
<1> SUFFICES ASSUME ConvInit PROVE Inv
  OBVIOUS
<1>1. CASE InitListed
  <2>1. PICK name \in Names16, stale \in Stale : u16 = name \o <<0>> \o stale \o <<0, 0>>
    BY <1>1 DEF InitListed
  <2>2. name \in Seq(Unit) /\ stale \in Seq(Unit) /\ 0 \in Unit
    <3>1. name \in Seq(Unit \ {0}) /\ stale \in Seq(Unit)
      BY NamesAssumption
    <3>2. 0 \in Unit
      BY EndIsNat DEF Unit
    <3> QED
      BY <3>1, <3>2
  <2> DEFINE head == name \o <<0>> \o stale
             zeros == <<0, 0>>
  <2>3. head \in Seq(Unit) /\ zeros \in Seq(Unit) /\ Len(zeros) = 2 /\ zeros[1] = 0 /\ zeros[2] = 0
    BY <2>2
  <2>4. u16 = head \o zeros
    BY <2>1
  <2> HIDE DEF head, zeros
  <2>5. Len(u16) = Len(head) + 2 /\ Len(head) \in Nat /\ u16 \in Seq(Unit)
    BY <2>3, <2>4, Joined
  <2>6. u16[Len(head) + 1] = 0 /\ u16[Len(head) + 2] = 0
    BY <2>3, <2>4, <2>5
  <2>7. Memory16(u16) /\ 1 \in 1 .. Len(u16)
    BY <2>5, <2>6 DEF Memory16
  <2>8. Count8(u16)[1] \in Nat
    BY <2>7, Count8Lemma
  <2>9. InMeasure8
    BY <1>1, <2>7, <2>8 DEF ConvInit, InitListed, InMeasure8
  <2> QED
    BY <1>1, <2>9 DEF InitListed, Inv
<1>2. CASE InitConfigured
  <2>1. PICK name \in Names8 : u8 = Append(name, 0)
    BY <1>2 DEF InitConfigured
  <2>2. name \in Seq(Byte) /\ 0 \in Byte
    <3>1. name \in Seq(Byte \ {0})
      BY NamesAssumption
    <3>2. 0 \in Byte
      BY DEF Byte
    <3> QED
      BY <3>1, <3>2
  <2>3. u8 \in Seq(Byte) /\ Len(u8) = Len(name) + 1 /\ Len(name) \in Nat /\ u8[Len(name) + 1] = 0
    BY <2>1, <2>2
  <2>4. Memory8(u8) /\ 1 \in 1 .. Len(u8)
    BY <2>3 DEF Memory8
  <2>5. Count16(u8)[1] \in Nat
    BY <2>4, Count16Lemma
  <2>6. InMeasure16
    BY <1>2, <2>4, <2>5 DEF ConvInit, InitConfigured, InMeasure16
  <2> QED
    BY <1>2, <2>6 DEF InitConfigured, Inv
<1> QED
  BY <1>1, <1>2 DEF ConvInit

LEMMA NextInv == Inv /\ [ConvNext]_convvars => Inv'
<1> SUFFICES ASSUME Inv, [ConvNext]_convvars PROVE Inv'
  OBVIOUS
<1>1. CASE Measure8
  <2>1. InMeasure8 /\ u16[at] # 0
    BY <1>1 DEF Inv, Measure8
  <2> DEFINE c == decode_utf16(u16, at).code
             next == decode_utf16(u16, at).next
  <2>2. /\ at' = next /\ need' = need + utf8_char_len(c)
        /\ loop' = "measure8" /\ u16' = u16 /\ u8' = u8 /\ back' = back
    BY <1>1 DEF Measure8
  <2>3. c \in Nat /\ next \in 1 .. Len(u16)
    BY <2>1, Step16 DEF InMeasure8
  <2>4. utf8_char_len(c) \in Nat
    BY DEF utf8_char_len
  <2>5. /\ Count8(u16)[at] = utf8_char_len(c) + Count8(u16)[next]
        /\ Count8(u16)[next] \in Nat /\ Count8(u16)[1] \in Nat
    BY <2>1, <2>3, Count8Lemma, SMTT(60) DEF InMeasure8, Memory16
  <2> HIDE DEF c, next
  <2>6. need' \in Nat /\ need' + Count8(u16)[next] = Count8(u16)[1]
    BY <2>1, <2>2, <2>4, <2>5, SMTT(60) DEF InMeasure8
  <2>7. InMeasure8'
    BY <2>1, <2>2, <2>3, <2>6 DEF InMeasure8
  <2> QED
    BY <2>2, <2>7 DEF Inv
<1>2. CASE Measured8
  <2>1. InMeasure8 /\ u16[at] = 0
    BY <1>2 DEF Inv, Measured8
  <2>2. /\ loop' = "encode8" /\ at' = 1 /\ need' = need
        /\ u16' = u16 /\ u8' = u8 /\ back' = back
    BY <1>2 DEF Measured8, Go
  <2>3. 1 \in 1 .. Len(u16)
    BY <2>1 DEF InMeasure8, Memory16
  <2>4. Count8(u16)[at] = 0 /\ Count8(u16)[1] \in Nat
    BY <2>1, <2>3, Count8Lemma DEF InMeasure8
  <2>5. Len(u8) = 0 /\ u8 \in Seq(Byte)
    BY <2>1 DEF InMeasure8
  <2>6. Len(u8) + Count8(u16)[1] = need
    BY <2>1, <2>4, <2>5 DEF InMeasure8
  <2>7. InEncode8'
    BY <2>1, <2>2, <2>3, <2>5, <2>6 DEF InMeasure8, InEncode8
  <2> QED
    BY <2>2, <2>7 DEF Inv
<1>3. CASE Encode8
  <2>1. InEncode8 /\ u16[at] # 0
    BY <1>3 DEF Inv, Encode8
  <2> DEFINE c == decode_utf16(u16, at).code
             next == decode_utf16(u16, at).next
  <2>2. /\ at' = next /\ u8' = u8 \o encode_utf8(c)
        /\ loop' = "encode8" /\ u16' = u16 /\ need' = need /\ back' = back
    BY <1>3 DEF Encode8
  <2>3. c \in Nat /\ next \in 1 .. Len(u16)
    BY <2>1, Step16 DEF InEncode8
  <2>4. encode_utf8(c) \in Seq(Byte) /\ Len(encode_utf8(c)) = utf8_char_len(c)
    BY <2>3, Encode8Lemma
  <2>5. /\ Count8(u16)[at] = utf8_char_len(c) + Count8(u16)[next]
        /\ Count8(u16)[next] \in Nat
    BY <2>1, <2>3, Count8Lemma DEF InEncode8
  <2> HIDE DEF c, next
  <2>6. u8' \in Seq(Byte) /\ Len(u8') = Len(u8) + utf8_char_len(c)
    BY <2>1, <2>2, <2>4, Joined DEF InEncode8
  <2>7. Len(u8) \in Nat /\ utf8_char_len(c) \in Nat
    BY <2>1 DEF InEncode8, utf8_char_len
  <2>8. Len(u8') + Count8(u16)[next] = need
    BY <2>1, <2>5, <2>6, <2>7 DEF InEncode8
  <2>9. InEncode8'
    BY <2>1, <2>2, <2>3, <2>6, <2>8 DEF InEncode8
  <2> QED
    BY <2>2, <2>9 DEF Inv
<1>4. CASE Encoded8
  <2>1. InEncode8
    BY <1>4 DEF Inv, Encoded8
  <2>2. /\ loop' = "measure16" /\ at' = 1 /\ need' = 0 /\ u8' = Append(u8, 0)
        /\ u16' = u16 /\ back' = back
    BY <1>4 DEF Encoded8, Go
  <2>3. Memory8(u8') /\ 1 \in 1 .. Len(u8')
    <3>1. u8 \in Seq(Byte) /\ 0 \in Byte /\ Len(u8) \in Nat
      BY <2>1 DEF InEncode8, Byte
    <3>2. u8' \in Seq(Byte) /\ Len(u8') = Len(u8) + 1 /\ u8'[Len(u8) + 1] = 0
      BY <2>2, <3>1
    <3> QED
      BY <3>1, <3>2 DEF Memory8
  <2>4. Count16(u8')[1] \in Nat
    BY <2>3, Count16Lemma
  <2>5. InMeasure16'
    BY <2>1, <2>2, <2>3, <2>4 DEF InEncode8, InMeasure16, Memory16
  <2> QED
    BY <2>2, <2>5 DEF Inv
<1>5. CASE Measure16
  <2>1. InMeasure16 /\ u8[at] # 0
    BY <1>5 DEF Inv, Measure16
  <2> DEFINE next == NextChar(u8, at)
             size == utf8to16_char_len(u8, at)
  <2>2. /\ at' = next /\ need' = need + size
        /\ loop' = "measure16" /\ u16' = u16 /\ u8' = u8 /\ back' = back
    BY <1>5 DEF Measure16
  <2>3. next \in 1 .. Len(u8)
    BY <2>1, NextCharLemma DEF InMeasure16, Memory8
  <2>4. size \in Nat
    BY DEF utf8to16_char_len
  <2>5. /\ Count16(u8)[at] = size + Count16(u8)[next]
        /\ Count16(u8)[next] \in Nat /\ Count16(u8)[1] \in Nat
    BY <2>1, <2>3, Count16Lemma, SMTT(60) DEF InMeasure16, Memory8
  <2> HIDE DEF size, next
  <2>6. need' \in Nat /\ need' + Count16(u8)[next] = Count16(u8)[1]
    BY <2>1, <2>2, <2>4, <2>5 DEF InMeasure16
  <2>7. InMeasure16'
    BY <2>1, <2>2, <2>3, <2>6 DEF InMeasure16
  <2> QED
    BY <2>2, <2>7 DEF Inv
<1>6. CASE Measured16
  <2>1. InMeasure16 /\ u8[at] = 0
    BY <1>6 DEF Inv, Measured16
  <2>2. /\ loop' = "encode16" /\ at' = 1 /\ need' = need
        /\ u16' = u16 /\ u8' = u8 /\ back' = back
    BY <1>6 DEF Measured16, Go
  <2>3. 1 \in 1 .. Len(u8)
    BY <2>1 DEF InMeasure16, Memory8
  <2>4. Count16(u8)[at] = 0 /\ Count16(u8)[1] \in Nat
    BY <2>1, <2>3, Count16Lemma DEF InMeasure16
  <2>5. Len(back) = 0 /\ back \in Back
    BY <2>1 DEF InMeasure16, Back
  <2>6. Len(back) + Count16(u8)[1] <= need
    BY <2>1, <2>4, <2>5 DEF InMeasure16
  <2>7. InEncode16'
    BY <2>1, <2>2, <2>3, <2>5, <2>6 DEF InMeasure16, InEncode16
  <2> QED
    BY <2>2, <2>7 DEF Inv
<1>7. CASE Encode16
  <2>1. InEncode16 /\ u8[at] # 0
    BY <1>7 DEF Inv, Encode16
  <2> DEFINE next == NextChar(u8, at)
             size == utf8to16_char_len(u8, at)
             units == encode_utf16(decode_utf8(u8, at))
  <2>2. /\ at' = next /\ back' = back \o units
        /\ loop' = "encode16" /\ u16' = u16 /\ u8' = u8 /\ need' = need
    BY <1>7 DEF Encode16
  <2>3. next \in 1 .. Len(u8)
    BY <2>1, NextCharLemma DEF InEncode16, Memory8
  <2>4. size \in Nat /\ units \in Back /\ Len(units) <= size
    BY <2>1, CharacterFits, SMTT(60) DEF InEncode16, Memory8, Back
  <2>5. /\ Count16(u8)[at] = size + Count16(u8)[next]
        /\ Count16(u8)[next] \in Nat
    BY <2>1, <2>3, Count16Lemma DEF InEncode16
  <2> HIDE DEF size, next, units
  <2>6. back' \in Back /\ Len(back') = Len(back) + Len(units)
    BY <2>1, <2>2, <2>4 DEF InEncode16, Back
  <2>7. Len(back) \in Nat /\ Len(units) \in Nat
    BY <2>1, <2>4 DEF InEncode16, Back
  <2>8. Len(back') + Count16(u8)[next] <= need
    BY <2>1, <2>4, <2>5, <2>6, <2>7 DEF InEncode16
  <2>9. InEncode16'
    BY <2>1, <2>2, <2>3, <2>6, <2>8 DEF InEncode16
  <2> QED
    BY <2>2, <2>9 DEF Inv
<1>8. CASE Encoded16
  <2>1. InEncode16 /\ u8[at] = 0
    BY <1>8 DEF Inv, Encoded16
  <2>2. loop' = "done" /\ UNCHANGED <<u16, u8, back, at, need>>
    BY <1>8 DEF Encoded16
  <2>3. Count16(u8)[at] = 0 /\ Len(back) \in Nat
    BY <2>1, Count16Lemma DEF InEncode16, Back
  <2>4. InDone'
    BY <2>1, <2>2, <2>3 DEF InEncode16, InDone
  <2> QED
    BY <2>2, <2>4 DEF Inv
<1>9. CASE UNCHANGED convvars
  BY <1>9 DEF convvars, Inv, InMeasure8, InEncode8, InMeasure16, InEncode16, InDone
<1> QED
  BY <1>1, <1>2, <1>3, <1>4, <1>5, <1>6, <1>7, <1>8, <1>9 DEF ConvNext

(* Every value of the conversions stays in its range: units, bytes, places.    *)
THEOREM TypeCorrect == ConvSpec => []ConvTypeOK
<1>1. Inv => ConvTypeOK
  <2> SUFFICES ASSUME Inv PROVE ConvTypeOK
    OBVIOUS
  <2>1. at \in Nat \ {0} /\ need \in Nat
    <3>1. \A n \in Nat : \A k \in 1 .. n : k \in Nat \ {0}
      OBVIOUS
    <3>2. Len(u16) \in Nat \/ Len(u8) \in Nat
      BY DEF Inv, InMeasure8, InEncode8, InMeasure16, InEncode16, InDone, Memory16, Memory8
    <3> QED
      BY DEF Inv, InMeasure8, InEncode8, InMeasure16, InEncode16, InDone, Memory16, Memory8
  <2>2. u16 \in Seq(Unit) /\ u8 \in Seq(Byte) /\ back \in Back
    <3>1. <<>> \in Seq(Byte) /\ <<>> \in Back
      BY DEF Back
    <3> QED
      BY <3>1 DEF Inv, InMeasure8, InEncode8, InMeasure16, InEncode16, InDone, Memory16, Memory8
  <2> QED
    BY <2>1, <2>2 DEF ConvTypeOK, Inv, Back
<1> QED
  BY InitInv, NextInv, <1>1, PTL DEF ConvSpec

(* However long a name is and whatever bytes it has: what the second loop of a  *)
(* conversion writes fits the buffer that the first one measured.             *)
THEOREM BuffersSuffice == ConvSpec => []BufferSuffices
<1>1. Inv => BufferSuffices
  <2> SUFFICES ASSUME Inv PROVE BufferSuffices
    OBVIOUS
  <2>1. CASE loop = "encode8"
    <3>1. InEncode8
      BY <2>1 DEF Inv
    <3>2. Len(u8) \in Nat /\ Count8(u16)[at] \in Nat
      BY <3>1, Count8Lemma DEF InEncode8
    <3>3. Len(u8) <= need
      BY <3>1, <3>2 DEF InEncode8
    <3> QED
      BY <2>1, <3>3 DEF BufferSuffices
  <2>2. CASE loop = "encode16"
    <3>1. InEncode16
      BY <2>2 DEF Inv
    <3>2. Len(back) \in Nat /\ Count16(u8)[at] \in Nat
      BY <3>1, Count16Lemma DEF InEncode16, Back
    <3>3. Len(back) <= need
      BY <3>1, <3>2 DEF InEncode16
    <3> QED
      BY <2>2, <3>3 DEF BufferSuffices
  <2> QED
    BY <2>1, <2>2 DEF BufferSuffices, Inv, InDone
<1> QED
  BY InitInv, NextInv, <1>1, PTL DEF ConvSpec
-----------------------------------------------------------------------------
(* A character that is no half of a pair, and the bytes that stand for it.    *)
Scalar == {point \in Nat \ {0} : point <= UNICODE_MAX /\ ~IsSurrogate(point)}

Stands(m, k, c) ==
  /\ k \in Nat \ {0}
  /\ \A j \in 1 .. utf8_char_len(c) : m[k + j - 1] = encode_utf8(c)[j]

(* The ranges of the leading bytes do not meet.                              *)
LEMMA LeadAnnounces ==
  ASSUME NEW s \in 1 .. 4, NEW b \in LeadValue[s] .. LeadValue[s] + LeadRange[s] - 1
  PROVE  Announced(b) = s
<1>1. \A t \in 1 .. 4 : b \in LeadValue[t] .. LeadValue[t] + LeadRange[t] - 1 => t = s
  BY DEF LeadValue, LeadRange
<1> DEFINE fits == {t \in 1 .. 4 : b \in LeadValue[t] .. LeadValue[t] + LeadRange[t] - 1}
<1>2. fits = {s}
  BY <1>1
<1> HIDE DEF fits
<1>3. Announced(b) = IF fits = {} THEN 0 ELSE CHOOSE t \in fits : TRUE
  BY DEF Announced, fits
<1> QED
  BY <1>2, <1>3

(* A code point is put together again from six bits at a time.               *)
LEMMA SixAtATime ==
  ASSUME NEW c \in Nat
  PROVE  /\ c \div 64 \in Nat /\ c \div 4096 \in Nat /\ c \div 262144 \in Nat
         /\ (c \div 64) * 64 + (c % 64) = c
         /\ (c \div 4096) * 64 + ((c \div 64) % 64) = c \div 64
         /\ (c \div 262144) * 64 + ((c \div 4096) % 64) = c \div 4096
<1>1. c \div 64 \in Nat /\ c \div 4096 \in Nat /\ c \div 262144 \in Nat
  OBVIOUS
<1>2. (c \div 64) * 64 + (c % 64) = c
  OBVIOUS
<1>3. (c \div 4096) * 64 + ((c \div 64) % 64) = c \div 64
  OBVIOUS
<1>4. (c \div 262144) * 64 + ((c \div 4096) % 64) = c \div 4096
  OBVIOUS
<1> QED
  BY <1>1, <1>2, <1>3, <1>4

LEMMA Continued ==
  ASSUME NEW bits \in Nat
  PROVE  /\ 128 + (bits % 64) \in 128 .. 191
         /\ (128 + (bits % 64)) % 64 = bits % 64
<1>1. bits % 64 \in 0 .. 63
  OBVIOUS
<1>2. \A low \in 0 .. 63 : 128 + low \in 128 .. 191 /\ (128 + low) % 64 = low
  OBVIOUS
<1> QED
  BY <1>1, <1>2

(* The bytes of a character, written out.                                    *)
LEMMA BytesOf ==
  ASSUME NEW c \in Nat, c <= UNICODE_MAX
  PROVE  LET code == encode_utf8(c) IN
         /\ utf8_char_len(c) = 1 => c <= 127 /\ code[1] = c
         /\ utf8_char_len(c) = 2 =>
              c \div 64 \in 0 .. 31 /\ code[1] = 192 + (c \div 64) /\ code[2] = 128 + (c % 64)
         /\ utf8_char_len(c) = 3 =>
              /\ c \div 4096 \in 0 .. 15 /\ code[1] = 224 + (c \div 4096)
              /\ code[2] = 128 + ((c \div 64) % 64) /\ code[3] = 128 + (c % 64)
         /\ utf8_char_len(c) = 4 =>
              /\ c \div 262144 \in 0 .. 7 /\ code[1] = 240 + (c \div 262144)
              /\ code[2] = 128 + ((c \div 4096) % 64)
              /\ code[3] = 128 + ((c \div 64) % 64) /\ code[4] = 128 + (c % 64)
<1> DEFINE size == utf8_char_len(c)
           byte(s, k) ==
             LET bits == c \div Shift[s - k + 1] IN
             IF k = 1 THEN LeadValue[s] + (bits % LeadRange[s]) ELSE 128 + (bits % 64)
<1>1. size \in 1 .. 4
  BY DEF utf8_char_len
<1>2. \A s \in 1 .. 4 : size = s => \A k \in 1 .. s : encode_utf8(c)[k] = byte(s, k)
  BY DEF encode_utf8
<1>3. size = 1 => c <= 127 /\ encode_utf8(c)[1] = c
  <2> SUFFICES ASSUME size = 1 PROVE c <= 127 /\ encode_utf8(c)[1] = c
    OBVIOUS
  <2>1. c <= 127
    BY DEF utf8_char_len
  <2>2. byte(1, 1) = c
    BY <2>1 DEF Shift, LeadValue, LeadRange
  <2> QED
    BY <1>2, <2>1, <2>2
<1>4. size = 2 => /\ c \div 64 \in 0 .. 31 /\ encode_utf8(c)[1] = 192 + (c \div 64)
                  /\ encode_utf8(c)[2] = 128 + (c % 64)
  <2> SUFFICES ASSUME size = 2
               PROVE  /\ c \div 64 \in 0 .. 31 /\ encode_utf8(c)[1] = 192 + (c \div 64)
                      /\ encode_utf8(c)[2] = 128 + (c % 64)
    OBVIOUS
  <2>1. c <= 2047
    BY DEF utf8_char_len
  <2>2. c \div 64 \in 0 .. 31
    BY <2>1
  <2>3. byte(2, 1) = 192 + (c \div 64)
    <3>1. byte(2, 1) = 192 + ((c \div 64) % 32)
      BY DEF Shift, LeadValue, LeadRange
    <3> QED
      BY <2>2, <3>1
  <2>4. byte(2, 2) = 128 + (c % 64)
    BY DEF Shift
  <2>5. encode_utf8(c)[1] = byte(2, 1) /\ encode_utf8(c)[2] = byte(2, 2)
    BY <1>2
  <2> QED
    BY <2>2, <2>3, <2>4, <2>5
<1>5. size = 3 => /\ c \div 4096 \in 0 .. 15 /\ encode_utf8(c)[1] = 224 + (c \div 4096)
                  /\ encode_utf8(c)[2] = 128 + ((c \div 64) % 64)
                  /\ encode_utf8(c)[3] = 128 + (c % 64)
  <2> SUFFICES ASSUME size = 3
               PROVE  /\ c \div 4096 \in 0 .. 15 /\ encode_utf8(c)[1] = 224 + (c \div 4096)
                      /\ encode_utf8(c)[2] = 128 + ((c \div 64) % 64)
                      /\ encode_utf8(c)[3] = 128 + (c % 64)
    OBVIOUS
  <2>1. c <= 65535
    BY DEF utf8_char_len
  <2>2. c \div 4096 \in 0 .. 15
    BY <2>1
  <2>3. byte(3, 1) = 224 + (c \div 4096)
    <3>1. byte(3, 1) = 224 + ((c \div 4096) % 16)
      BY DEF Shift, LeadValue, LeadRange
    <3> QED
      BY <2>2, <3>1
  <2>4. byte(3, 2) = 128 + ((c \div 64) % 64) /\ byte(3, 3) = 128 + (c % 64)
    BY DEF Shift
  <2>5. /\ encode_utf8(c)[1] = byte(3, 1) /\ encode_utf8(c)[2] = byte(3, 2)
        /\ encode_utf8(c)[3] = byte(3, 3)
    BY <1>2
  <2> QED
    BY <2>2, <2>3, <2>4, <2>5
<1>6. size = 4 => /\ c \div 262144 \in 0 .. 7 /\ encode_utf8(c)[1] = 240 + (c \div 262144)
                  /\ encode_utf8(c)[2] = 128 + ((c \div 4096) % 64)
                  /\ encode_utf8(c)[3] = 128 + ((c \div 64) % 64)
                  /\ encode_utf8(c)[4] = 128 + (c % 64)
  <2> SUFFICES ASSUME size = 4
               PROVE  /\ c \div 262144 \in 0 .. 7 /\ encode_utf8(c)[1] = 240 + (c \div 262144)
                      /\ encode_utf8(c)[2] = 128 + ((c \div 4096) % 64)
                      /\ encode_utf8(c)[3] = 128 + ((c \div 64) % 64)
                      /\ encode_utf8(c)[4] = 128 + (c % 64)
    OBVIOUS
  <2>2. c \div 262144 \in 0 .. 7
    BY DEF UNICODE_MAX
  <2>3. byte(4, 1) = 240 + (c \div 262144)
    <3>1. byte(4, 1) = 240 + ((c \div 262144) % 8)
      BY DEF Shift, LeadValue, LeadRange
    <3> QED
      BY <2>2, <3>1
  <2>4. /\ byte(4, 2) = 128 + ((c \div 4096) % 64) /\ byte(4, 3) = 128 + ((c \div 64) % 64)
        /\ byte(4, 4) = 128 + (c % 64)
    BY DEF Shift
  <2>5. /\ encode_utf8(c)[1] = byte(4, 1) /\ encode_utf8(c)[2] = byte(4, 2)
        /\ encode_utf8(c)[3] = byte(4, 3) /\ encode_utf8(c)[4] = byte(4, 4)
    BY <1>2
  <2> QED
    BY <2>2, <2>3, <2>4, <2>5
<1> QED
  BY <1>3, <1>4, <1>5, <1>6
LEMMA ScalarValue ==
  ASSUME NEW c, c \in Scalar
  PROVE  c \in Nat /\ c > 0 /\ ~(c > UNICODE_MAX) /\ ~IsSurrogate(c)
BY DEF Scalar, UNICODE_MAX

(* The bits of the s bytes at k, put together.                               *)
Joins(m, k, s, c) ==
  LET one == m[k] % LeadRange[s]
      two == one * 64 + (m[k + 1] % 64)
      three == two * 64 + (m[k + 2] % 64)
      four == three * 64 + (m[k + 3] % 64)
  IN (IF s = 1 THEN one ELSE IF s = 2 THEN two ELSE IF s = 3 THEN three ELSE four) = c

(* What decode_utf8 joins when a character is whole.                         *)
LEMMA DecodesTo ==
  ASSUME NEW m, NEW k \in Nat, NEW s \in 1 .. 4, Announced(m[k]) = s, IsWhole(m, k),
         NEW c \in Scalar,
         Joins(m, k, s, c)
  PROVE  /\ decode_utf8(m, k) = c
         /\ NextChar(m, k) = k + s
         /\ utf8to16_char_len(m, k) = IF s = 4 THEN 2 ELSE 1
<1>1. k + 1 + 1 = k + 2 /\ k + 1 + 2 = k + 3
  OBVIOUS
<1>2. ~ ((c < BMP_END /\ IsSurrogate(c)) \/ c > UNICODE_MAX)
  BY ScalarValue
<1>3. s # 0
  OBVIOUS
<1>4. decode_utf8(m, k) = c
  BY <1>1, <1>2, <1>3 DEF decode_utf8, Joins
<1>5. NextChar(m, k) = k + s
  BY <1>3 DEF NextChar
<1>6. utf8to16_char_len(m, k) = IF s = 4 THEN 2 ELSE 1
  BY DEF utf8to16_char_len
<1> QED
  BY <1>4, <1>5, <1>6

(* A character is read back from the bytes that were written for it.          *)
LEMMA ReadsBack ==
  ASSUME NEW m, NEW k, NEW c \in Scalar, Stands(m, k, c)
  PROVE  /\ m[k] # 0
         /\ decode_utf8(m, k) = c
         /\ NextChar(m, k) = k + utf8_char_len(c)
         /\ utf8to16_char_len(m, k) = IF c <= BMP_END THEN 1 ELSE 2
<1> DEFINE size == utf8_char_len(c)
           c1 == c \div 64
           c2 == c \div 4096
           c3 == c \div 262144
<1>1. c \in Nat /\ c > 0 /\ c <= UNICODE_MAX
  BY ScalarValue DEF UNICODE_MAX
<1>2. k \in Nat /\ k - 1 + 1 = k
  BY DEF Stands
<1>3. size \in 1 .. 4 /\ (size = 4 <=> ~(c <= BMP_END))
  BY <1>1 DEF utf8_char_len, BMP_END
<1>4. \A j \in 1 .. size : m[k + j - 1] = encode_utf8(c)[j]
  BY DEF Stands
<1>5. /\ c1 \in Nat /\ c2 \in Nat /\ c3 \in Nat
      /\ c1 * 64 + (c % 64) = c /\ c2 * 64 + (c1 % 64) = c1 /\ c3 * 64 + (c2 % 64) = c2
  BY <1>1, SixAtATime
<1>6. /\ 128 + (c % 64) \in 128 .. 191 /\ (128 + (c % 64)) % 64 = c % 64
      /\ 128 + (c1 % 64) \in 128 .. 191 /\ (128 + (c1 % 64)) % 64 = c1 % 64
      /\ 128 + (c2 % 64) \in 128 .. 191 /\ (128 + (c2 % 64)) % 64 = c2 % 64
  BY <1>1, <1>5, Continued
<1>7. /\ size = 1 => c <= 127 /\ encode_utf8(c)[1] = c
      /\ size = 2 => c1 \in 0 .. 31 /\ encode_utf8(c)[1] = 192 + c1 /\ encode_utf8(c)[2] = 128 + (c % 64)
      /\ size = 3 => /\ c2 \in 0 .. 15 /\ encode_utf8(c)[1] = 224 + c2
                     /\ encode_utf8(c)[2] = 128 + (c1 % 64) /\ encode_utf8(c)[3] = 128 + (c % 64)
      /\ size = 4 => /\ c3 \in 0 .. 7 /\ encode_utf8(c)[1] = 240 + c3
                     /\ encode_utf8(c)[2] = 128 + (c2 % 64)
                     /\ encode_utf8(c)[3] = 128 + (c1 % 64) /\ encode_utf8(c)[4] = 128 + (c % 64)
  BY <1>1, BytesOf
<1>8. k + 1 - 1 = k /\ k + 2 - 1 = k + 1 /\ k + 3 - 1 = k + 2 /\ k + 4 - 1 = k + 3
  BY <1>2
<1> HIDE DEF size, c1, c2, c3
<1>9. /\ m[k] # 0 /\ Announced(m[k]) = size /\ IsWhole(m, k)
      /\ Joins(m, k, size, c)
  <2>1. CASE size = 1
    <3>1. m[k] = c
      BY <1>4, <1>7, <1>8, <2>1
    <3>2. c \in LeadValue[1] .. LeadValue[1] + LeadRange[1] - 1
      BY <1>1, <1>7, <2>1 DEF LeadValue, LeadRange
    <3>3. Announced(m[k]) = 1
      BY <3>1, <3>2, LeadAnnounces
    <3>4. c % LeadRange[1] = c
      BY <1>1, <1>7, <2>1 DEF LeadRange
    <3>5. IsWhole(m, k)
      BY <1>2, <3>3 DEF IsWhole
    <3> QED
      BY <1>1, <2>1, <3>1, <3>3, <3>4, <3>5 DEF Joins
  <2>2. CASE size = 2
    <3>1. m[k] = 192 + c1 /\ m[k + 1] = 128 + (c % 64)
      BY <1>4, <1>7, <1>8, <2>2
    <3>2. 192 + c1 \in LeadValue[2] .. LeadValue[2] + LeadRange[2] - 1
      BY <1>7, <2>2 DEF LeadValue, LeadRange
    <3>3. Announced(m[k]) = 2
      BY <3>1, <3>2, LeadAnnounces
    <3>4. (192 + c1) % LeadRange[2] = c1 /\ 192 + c1 # 0
      BY <1>7, <2>2 DEF LeadRange
    <3>5. IsWhole(m, k)
      <4>1. \A p \in k + 1 .. k + 2 - 1 : p = k + 1
        BY <1>2
      <4>2. 128 + (c % 64) # 0
        BY <1>6
      <4> QED
        BY <3>1, <3>3, <4>1, <4>2 DEF IsWhole
    <3>6. (m[k] % LeadRange[2]) * 64 + (m[k + 1] % 64) = c
      BY <1>5, <1>6, <3>1, <3>4
    <3> QED
      BY <2>2, <3>1, <3>3, <3>4, <3>5, <3>6 DEF Joins
  <2>3. CASE size = 3
    <3>1. m[k] = 224 + c2 /\ m[k + 1] = 128 + (c1 % 64) /\ m[k + 2] = 128 + (c % 64)
      BY <1>4, <1>7, <1>8, <2>3
    <3>2. 224 + c2 \in LeadValue[3] .. LeadValue[3] + LeadRange[3] - 1
      BY <1>7, <2>3 DEF LeadValue, LeadRange
    <3>3. Announced(m[k]) = 3
      BY <3>1, <3>2, LeadAnnounces
    <3>4. (224 + c2) % LeadRange[3] = c2 /\ 224 + c2 # 0
      BY <1>7, <2>3 DEF LeadRange
    <3>5. IsWhole(m, k)
      <4>1. \A p \in k + 1 .. k + 3 - 1 : p = k + 1 \/ p = k + 2
        BY <1>2
      <4>2. 128 + (c % 64) # 0 /\ 128 + (c1 % 64) # 0
        BY <1>6
      <4> QED
        BY <3>1, <3>3, <4>1, <4>2 DEF IsWhole
    <3>6. (m[k] % LeadRange[3]) * 64 + (m[k + 1] % 64) = c1
      BY <1>5, <1>6, <3>1, <3>4
    <3>7. c1 * 64 + (m[k + 2] % 64) = c
      BY <1>5, <1>6, <3>1
    <3> QED
      BY <2>3, <3>1, <3>3, <3>4, <3>5, <3>6, <3>7 DEF Joins
  <2>4. CASE size = 4
    <3>1. /\ m[k] = 240 + c3 /\ m[k + 1] = 128 + (c2 % 64)
          /\ m[k + 2] = 128 + (c1 % 64) /\ m[k + 3] = 128 + (c % 64)
      BY <1>4, <1>7, <1>8, <2>4
    <3>2. 240 + c3 \in LeadValue[4] .. LeadValue[4] + LeadRange[4] - 1
      BY <1>7, <2>4 DEF LeadValue, LeadRange
    <3>3. Announced(m[k]) = 4
      BY <3>1, <3>2, LeadAnnounces
    <3>4. (240 + c3) % LeadRange[4] = c3 /\ 240 + c3 # 0
      BY <1>7, <2>4 DEF LeadRange
    <3>5. IsWhole(m, k)
      <4>1. \A p \in k + 1 .. k + 4 - 1 : p = k + 1 \/ p = k + 2 \/ p = k + 3
        BY <1>2
      <4>2. 128 + (c % 64) # 0 /\ 128 + (c1 % 64) # 0 /\ 128 + (c2 % 64) # 0
        BY <1>6
      <4> QED
        BY <3>1, <3>3, <4>1, <4>2 DEF IsWhole
    <3>6. (m[k] % LeadRange[4]) * 64 + (m[k + 1] % 64) = c2
      BY <1>5, <1>6, <3>1, <3>4
    <3>7. c2 * 64 + (m[k + 2] % 64) = c1
      BY <1>5, <1>6, <3>1
    <3>8. c1 * 64 + (m[k + 3] % 64) = c
      BY <1>5, <1>6, <3>1
    <3> QED
      BY <2>4, <3>1, <3>3, <3>4, <3>5, <3>6, <3>7, <3>8 DEF Joins
  <2> QED
    BY <1>3, <2>1, <2>2, <2>3, <2>4
<1>10. /\ decode_utf8(m, k) = c /\ NextChar(m, k) = k + size
       /\ utf8to16_char_len(m, k) = IF size = 4 THEN 2 ELSE 1
  BY <1>2, <1>3, <1>9, DecodesTo
<1> QED
  BY <1>3, <1>9, <1>10 DEF size
(* A name that ends before e, every half of a pair with its other half and one  *)
(* unit more behind a pair.                                                *)
Plain(m, e) ==
  /\ m \in Seq(Unit) /\ e \in 1 .. Len(m) /\ m[e] = 0
  /\ \A k \in 1 .. e - 1 :
       /\ m[k] # 0
       /\ IsHigh(m[k]) => k + 2 < e /\ IsLow(m[k + 1])
       /\ IsLow(m[k]) => k > 1 /\ IsHigh(m[k - 1])

LEMMA Halves ==
  ASSUME NEW u \in Nat
  PROVE  /\ IsSurrogate(u) <=> IsHigh(u) \/ IsLow(u)
         /\ ~(IsHigh(u) /\ IsLow(u))
         /\ IsLow(u) => u # 0
BY DEF IsSurrogate, IsHigh, IsLow

(* A pair and the code point it stands for.                                  *)
LEMMA PairCode ==
  ASSUME NEW h \in Nat, NEW l \in Nat, IsHigh(h), IsLow(l)
  PROVE  LET c == (h % 1024) * 1024 + (l % 1024) + SURROGATE_CODEPOINT_OFFSET IN
         /\ c \in Scalar /\ ~(c <= BMP_END) /\ c # 0
         /\ encode_utf16(c) = <<h, l>>
<1> DEFINE a == h - 54 * 1024
           b == l - 55 * 1024
           d == a * 1024 + b
           c == d + 65536
<1>1. /\ a \in Nat /\ a < 1024 /\ 55296 + a = h
      /\ b \in Nat /\ b < 1024 /\ 56320 + b = l
  BY DEF IsHigh, IsLow
<1>2. h % 1024 = a
  BY <1>1
<1>3. l % 1024 = b
  BY <1>1
<1> HIDE DEF a, b
<1>4. /\ d \in Nat /\ d <= 1048575
      /\ (d \div 1024) % 1024 = a
      /\ d % 1024 = b
  <2>1. d \in Nat /\ d <= 1048575
    BY <1>1
  <2>2. d % 1024 = b
    BY <1>1
  <2>3. d \div 1024 = a
    BY <1>1
  <2>4. a % 1024 = a
    BY <1>1
  <2> QED
    BY <2>1, <2>2, <2>3, <2>4
<1> HIDE DEF d
<1>5. /\ c \in Nat \ {0} /\ c <= UNICODE_MAX /\ c > 65535
      /\ c - SURROGATE_CODEPOINT_OFFSET = d
  BY <1>4 DEF SURROGATE_CODEPOINT_OFFSET, UNICODE_MAX
<1> HIDE DEF c
<1>6. ~IsSurrogate(c)
  BY <1>5, SMTT(60) DEF IsSurrogate
<1>7. c \in Scalar
  BY <1>5, <1>6 DEF Scalar
<1>8. ~(c <= BMP_END) /\ c # 0
  BY <1>5 DEF BMP_END
<1>9. encode_utf16(c) = <<55296 + a, 56320 + b>>
  BY <1>4, <1>5, <1>8 DEF encode_utf16
<1>10. /\ c \in Scalar /\ ~(c <= BMP_END) /\ c # 0
       /\ encode_utf16(c) = <<h, l>>
  BY <1>1, <1>7, <1>8, <1>9
<1>11. c = a * 1024 + b + SURROGATE_CODEPOINT_OFFSET
  BY DEF c, d, SURROGATE_CODEPOINT_OFFSET
<1> QED
  BY <1>2, <1>3, <1>10, <1>11

(* A character of such a name stands for a code point that encodes to its units. *)
LEMMA UnitsOf ==
  ASSUME NEW m, NEW e, Plain(m, e), NEW x \in 1 .. e - 1, ~IsLow(m[x])
  PROVE  LET d == decode_utf16(m, x)
             n == IF d.code <= BMP_END THEN 1 ELSE 2
         IN /\ d.code \in Scalar
            /\ d.next = x + n /\ x + n \in 1 .. e /\ ~IsLow(m[x + n])
            /\ encode_utf16(d.code) \in Seq(Nat) /\ Len(encode_utf16(d.code)) = n
            /\ \A j \in 1 .. n : encode_utf16(d.code)[j] = m[x + j - 1]
<1>1. m \in Seq(Unit) /\ e \in Nat /\ e <= Len(m) /\ Len(m) \in Nat /\ m[e] = 0
  BY DEF Plain
<1>2. x \in Nat /\ x >= 1 /\ x < e /\ x + 1 <= e /\ x + 1 \in Nat
  BY <1>1
<1>3. \A k \in 1 .. e : m[k] \in Nat /\ m[k] <= 65535
  <2>1. \A k \in 1 .. e : k \in 1 .. Len(m)
    BY <1>1
  <2>2. \A k \in 1 .. Len(m) : m[k] \in Unit
    BY <1>1
  <2>3. \A u \in Unit : u \in Nat /\ u <= 65535
    BY SMTT(60) DEF Unit, BMP_END
  <2> QED
    BY <2>1, <2>2, <2>3
<1>4. m[x] # 0 /\ m[x] \in Nat /\ m[x] <= 65535
  BY <1>2, <1>3 DEF Plain
<1>5. CASE ~IsHigh(m[x])
  <2>1. ~IsSurrogate(m[x])
    BY <1>4, <1>5, Halves
  <2>2. decode_utf16(m, x) = [code |-> m[x], next |-> x + 1]
    BY <1>4, <2>1 DEF decode_utf16
  <2>3. decode_utf16(m, x).code = m[x] /\ decode_utf16(m, x).next = x + 1
    BY <2>2
  <2>4. m[x] \in Scalar /\ m[x] <= BMP_END
    BY <1>4, <2>1 DEF Scalar, UNICODE_MAX, BMP_END
  <2>5. ~IsLow(m[x + 1])
    <3>1. CASE x + 1 = e
      BY <1>1, <3>1, Halves
    <3>2. CASE x + 1 # e
      <4>1. x + 1 \in 1 .. e - 1 /\ x + 1 - 1 = x
        BY <1>1, <1>2, <3>2
      <4>2. IsLow(m[x + 1]) => IsHigh(m[x + 1 - 1])
        BY <4>1 DEF Plain
      <4> QED
        BY <1>5, <4>1, <4>2
    <3> QED
      BY <3>1, <3>2
  <2>6. encode_utf16(m[x]) = <<m[x]>>
    BY <1>4, <2>4 DEF encode_utf16
  <2>7. x + 1 \in 1 .. e /\ \A j \in 1 .. 1 : j = 1 /\ x + j - 1 = x
    BY <1>1, <1>2
  <2>8. <<m[x]>> \in Seq(Nat) /\ Len(<<m[x]>>) = 1 /\ <<m[x]>>[1] = m[x]
    BY <1>4
  <2> QED
    BY <2>3, <2>4, <2>5, <2>6, <2>7, <2>8
<1>6. CASE IsHigh(m[x])
  <2>1. x + 2 < e /\ IsLow(m[x + 1])
    BY <1>6 DEF Plain
  <2>2. x + 2 \in 1 .. e - 1 /\ x + 1 \in 1 .. e - 1
    BY <1>1, <1>2, <2>1
  <2>3. m[x + 2] # 0 /\ m[x + 1] \in Nat /\ m[x + 1] # 0
    <3>1. m[x + 2] # 0 /\ m[x + 1] # 0
      BY <2>2 DEF Plain
    <3>2. x + 1 \in 1 .. e
      BY <1>1, <1>2
    <3> QED
      BY <1>3, <3>1, <3>2
  <2> DEFINE c == (m[x] % 1024) * 1024 + (m[x + 1] % 1024) + SURROGATE_CODEPOINT_OFFSET
  <2>4. /\ c \in Scalar /\ ~(c <= BMP_END) /\ encode_utf16(c) = <<m[x], m[x + 1]>>
    BY <1>4, <1>6, <2>1, <2>3, PairCode
  <2>5. IsSurrogate(m[x])
    BY <1>4, <1>6, Halves
  <2>6. decode_utf16(m, x) = [code |-> c, next |-> x + 2]
    BY <1>4, <1>6, <2>1, <2>3, <2>5 DEF decode_utf16
  <2> HIDE DEF c
  <2>7. decode_utf16(m, x).code = c /\ decode_utf16(m, x).next = x + 2
    BY <2>6
  <2>8. ~IsLow(m[x + 2])
    <3>1. IsLow(m[x + 2]) => IsHigh(m[x + 2 - 1])
      BY <2>2 DEF Plain
    <3>2. x + 2 - 1 = x + 1
      BY <1>2
    <3> QED
      BY <2>1, <2>3, <3>1, <3>2, Halves
  <2>9. x + 2 \in 1 .. e /\ \A j \in 1 .. 2 : (j = 1 /\ x + j - 1 = x) \/ (j = 2 /\ x + j - 1 = x + 1)
    BY <1>1, <1>2, <2>1
  <2>10. /\ <<m[x], m[x + 1]>> \in Seq(Nat) /\ Len(<<m[x], m[x + 1]>>) = 2
         /\ <<m[x], m[x + 1]>>[1] = m[x] /\ <<m[x], m[x + 1]>>[2] = m[x + 1]
    BY <1>4, <2>3
  <2> QED
    BY <2>4, <2>7, <2>8, <2>9, <2>10
<1> QED
  BY <1>5, <1>6
(* Where characters begin, in UTF-16 and in UTF-8, up to a and b: from one on,   *)
(* the bytes of w stand for the character of m, and the next one follows.      *)
Follows(m, w, P, x, y) ==
  LET d == decode_utf16(m, x) IN
  /\ Stands(w, y, d.code) /\ y + utf8_char_len(d.code) - 1 <= Len(w)
  /\ <<d.next, y + utf8_char_len(d.code)>> \in P

Trail(m, e, w, P, a, b) ==
  /\ <<1, 1>> \in P /\ <<a, b>> \in P
  /\ \A x, y : <<x, y>> \in P =>
       /\ x \in 1 .. e /\ ~IsLow(m[x]) /\ y \in Nat \ {0}
       /\ (x = a /\ y = b) \/ (x < e /\ Follows(m, w, P, x, y))

LEMMA TrailStarts ==
  ASSUME NEW m, NEW e, Plain(m, e), NEW w
  PROVE  Trail(m, e, w, {<<1, 1>>}, 1, 1)
<1>1. e \in Nat /\ e >= 1 /\ m[e] = 0
  BY DEF Plain
<1>2. ~IsLow(m[1])
  <2>1. CASE e = 1
    BY <1>1, <2>1, Halves
  <2>2. CASE e # 1
    <3>1. 1 \in 1 .. e - 1 /\ ~(1 > 1)
      BY <1>1, <2>2
    <3> QED
      BY <3>1 DEF Plain
  <2> QED
    BY <2>1, <2>2
<1>3. \A x, y : <<x, y>> \in {<<1, 1>>} => x = 1 /\ y = 1
  OBVIOUS
<1>4. 1 \in 1 .. e
  BY <1>1
<1> QED
  BY <1>2, <1>3, <1>4 DEF Trail

(* More bytes behind those there are leave a trail as it is.                   *)
LEMMA FollowsStill ==
  ASSUME NEW m, NEW w \in Seq(Byte), NEW v \in Seq(Byte), NEW P, NEW Q, P \subseteq Q,
         NEW x, NEW y \in Nat \ {0}, Follows(m, w, P, x, y), decode_utf16(m, x).code \in Nat
  PROVE  Follows(m, w \o v, Q, x, y)
<1> DEFINE c == decode_utf16(m, x).code
           n == utf8_char_len(c)
           u == w \o v
<1>1. n \in 1 .. 4
  BY Encode8Lemma
<1>2. /\ y + n - 1 <= Len(w) /\ <<decode_utf16(m, x).next, y + n>> \in P
      /\ \A j \in 1 .. n : w[y + j - 1] = encode_utf8(c)[j]
  BY DEF Follows, Stands
<1> HIDE DEF n
<1>3. Len(w) \in Nat /\ Len(v) \in Nat /\ Len(u) = Len(w) + Len(v)
      /\ \A j \in 1 .. Len(w) : u[j] = w[j]
  OBVIOUS
<1>4. \A j \in 1 .. n : y + j - 1 \in 1 .. Len(w)
  BY <1>1, <1>2, <1>3
<1>5. y + n - 1 <= Len(u)
  BY <1>1, <1>2, <1>3
<1> HIDE DEF c, u
<1>6. \A j \in 1 .. n : u[y + j - 1] = encode_utf8(c)[j]
  BY <1>2, <1>3, <1>4
<1> QED
  BY <1>2, <1>5, <1>6 DEF Follows, Stands, c, n, u

(* Encoding one more character leads the trail on.                            *)
LEMMA TrailGrows ==
  ASSUME NEW m, NEW e, Plain(m, e), NEW w \in Seq(Byte), NEW P, NEW x,
         Trail(m, e, w, P, x, Len(w) + 1), m[x] # 0
  PROVE  LET d == decode_utf16(m, x)
             u == w \o encode_utf8(d.code)
         IN /\ u \in Seq(Byte)
            /\ Trail(m, e, u, P \union {<<d.next, Len(u) + 1>>}, d.next, Len(u) + 1)
<1> DEFINE c == decode_utf16(m, x).code
           next == decode_utf16(m, x).next
           len == utf8_char_len(c)
           v == encode_utf8(c)
           u == w \o v
           Q == P \union {<<next, Len(u) + 1>>}
<1>1. e \in Nat /\ m[e] = 0 /\ x \in 1 .. e /\ ~IsLow(m[x])
  BY DEF Plain, Trail
<1>2. x \in 1 .. e - 1
  BY <1>1
<1>3. c \in Scalar /\ next \in 1 .. e /\ ~IsLow(m[next])
  BY <1>1, <1>2, UnitsOf, SMTT(60)
<1>4. c \in Nat
  BY <1>3, ScalarValue
<1>5. v \in Seq(Byte) /\ Len(v) = len /\ len \in 1 .. 4
  BY <1>4, Encode8Lemma
<1> HIDE DEF len, v, next
<1>6. /\ u \in Seq(Byte) /\ Len(w) \in Nat /\ Len(u) = Len(w) + len
      /\ \A j \in 1 .. len : u[Len(w) + 1 + j - 1] = v[j]
  <2>1. u \in Seq(Byte) /\ Len(w) \in Nat /\ Len(u) = Len(w) + Len(v)
    BY <1>5
  <2>2. \A j \in 1 .. Len(v) : u[Len(w) + j] = v[j]
    BY <1>5
  <2>3. \A j \in 1 .. len : Len(w) + 1 + j - 1 = Len(w) + j
    BY <1>5, <2>1
  <2> QED
    BY <1>5, <2>1, <2>2, <2>3
<1> DEFINE b == Len(w) + 1
<1>7. b \in Nat \ {0} /\ b + len = Len(u) + 1 /\ Len(u) + 1 \in Nat \ {0} /\ b + len - 1 <= Len(u)
  BY <1>5, <1>6
<1> HIDE DEF u
<1>8. Follows(m, u, Q, x, b)
  <2>1. \A j \in 1 .. len : u[b + j - 1] = encode_utf8(c)[j]
    BY <1>6 DEF v, b
  <2>2. <<next, b + len>> \in Q
    BY <1>7
  <2> HIDE DEF Q, b
  <2>3. Stands(u, b, c)
    BY <1>7, <2>1 DEF Stands, len
  <2> HIDE DEF c
  <2> QED
    BY <1>7, <2>2, <2>3 DEF Follows, c, len, next
<1>9. \A s, t : <<s, t>> \in P =>
        /\ s \in 1 .. e /\ ~IsLow(m[s]) /\ t \in Nat \ {0}
        /\ s < e /\ Follows(m, u, Q, s, t)
  <2> SUFFICES ASSUME NEW s, NEW t, <<s, t>> \in P
               PROVE  /\ s \in 1 .. e /\ ~IsLow(m[s]) /\ t \in Nat \ {0}
                      /\ s < e /\ Follows(m, u, Q, s, t)
    OBVIOUS
  <2>1. /\ s \in 1 .. e /\ ~IsLow(m[s]) /\ t \in Nat \ {0}
        /\ (s = x /\ t = b) \/ (s < e /\ Follows(m, w, P, s, t))
    BY DEF Trail
  <2>2. CASE s = x /\ t = b
    BY <1>1, <1>2, <1>8, <2>1, <2>2
  <2>3. CASE s < e /\ Follows(m, w, P, s, t)
    <3>1. s \in 1 .. e - 1
      BY <1>1, <2>1, <2>3
    <3>2. decode_utf16(m, s).code \in Nat
      BY <2>1, <3>1, UnitsOf, ScalarValue
    <3>3. P \subseteq Q
      OBVIOUS
    <3> HIDE DEF Q
    <3>4. Follows(m, w \o v, Q, s, t)
      BY <1>5, <2>1, <2>3, <3>2, <3>3, FollowsStill
    <3> QED
      BY <2>1, <2>3, <3>4 DEF u
  <2> QED
    BY <2>1, <2>2, <2>3
<1>10. <<1, 1>> \in Q /\ <<next, Len(u) + 1>> \in Q
  BY DEF Trail
<1>11. \A s, t : <<s, t>> \in Q => <<s, t>> \in P \/ (s = next /\ t = Len(u) + 1)
  OBVIOUS
<1> HIDE DEF Q
<1>12. Trail(m, e, u, Q, next, Len(u) + 1)
  BY <1>3, <1>7, <1>9, <1>10, <1>11 DEF Trail, next
<1> QED
  BY <1>6, <1>12 DEF Q, u, v, next, c

(* The 0 that ends the bytes leaves the trail as it is.                        *)
LEMMA TrailEnds ==
  ASSUME NEW m, NEW e, Plain(m, e), NEW w \in Seq(Byte), NEW P, NEW a, NEW b,
         Trail(m, e, w, P, a, b)
  PROVE  Trail(m, e, Append(w, 0), P, a, b)
<1>1. e \in Nat /\ Append(w, 0) = w \o <<0>> /\ <<0>> \in Seq(Byte)
  BY DEF Plain, Byte
<1> SUFFICES ASSUME NEW x, NEW y, <<x, y>> \in P, x < e, Follows(m, w, P, x, y)
             PROVE  Follows(m, Append(w, 0), P, x, y)
  BY DEF Trail
<1>2. x \in 1 .. e /\ ~IsLow(m[x]) /\ y \in Nat \ {0}
  BY DEF Trail
<1>3. x \in 1 .. e - 1
  BY <1>1, <1>2
<1>4. decode_utf16(m, x).code \in Nat
  BY <1>2, <1>3, UnitsOf, ScalarValue
<1> QED
  BY <1>1, <1>2, <1>4, FollowsStill

(* On the trail, the bytes are read a character at a time, and each gives its    *)
(* units back.                                                             *)
GivesBack(m, w, P, x, y) ==
  LET units == encode_utf16(decode_utf8(w, y))
      len == utf8to16_char_len(w, y)
  IN /\ <<x + len, NextChar(w, y)>> \in P
     /\ len \in 1 .. 2 /\ Len(units) = len /\ units \in Seq(Nat)
     /\ \A j \in 1 .. len : units[j] = m[x + j - 1]

LEMMA TrailReads ==
  ASSUME NEW m, NEW e, Plain(m, e), NEW w, NEW P, NEW b,
         Trail(m, e, w, P, e, b), w[b] = 0, NEW x, NEW y, <<x, y>> \in P
  PROVE  /\ x \in 1 .. e
         /\ w[y] = 0 => x = e
         /\ w[y] # 0 => GivesBack(m, w, P, x, y)
<1>1. /\ e \in Nat /\ x \in 1 .. e /\ ~IsLow(m[x]) /\ y \in Nat \ {0}
      /\ (x = e /\ y = b) \/ (x < e /\ Follows(m, w, P, x, y))
  BY DEF Trail, Plain
<1>2. CASE x = e /\ y = b
  BY <1>1, <1>2
<1>3. CASE x < e /\ Follows(m, w, P, x, y)
  <2> DEFINE c == decode_utf16(m, x).code
             n == IF c <= BMP_END THEN 1 ELSE 2
  <2>1. x \in 1 .. e - 1
    BY <1>1, <1>3
  <2>2. /\ c \in Scalar /\ decode_utf16(m, x).next = x + n
        /\ encode_utf16(c) \in Seq(Nat) /\ Len(encode_utf16(c)) = n
        /\ \A j \in 1 .. n : encode_utf16(c)[j] = m[x + j - 1]
    <3>1. LET d == decode_utf16(m, x)
              l == IF d.code <= BMP_END THEN 1 ELSE 2
          IN /\ d.code \in Scalar
             /\ d.next = x + l /\ x + l \in 1 .. e /\ ~IsLow(m[x + l])
             /\ encode_utf16(d.code) \in Seq(Nat) /\ Len(encode_utf16(d.code)) = l
             /\ \A j \in 1 .. l : encode_utf16(d.code)[j] = m[x + j - 1]
      BY <1>1, <2>1, UnitsOf
    <3> QED
      BY <3>1
  <2>3. Stands(w, y, c) /\ <<x + n, y + utf8_char_len(c)>> \in P
    BY <1>3, <2>2 DEF Follows
  <2>4. n \in 1 .. 2
    OBVIOUS
  <2> HIDE DEF c
  <2>5. /\ w[y] # 0 /\ decode_utf8(w, y) = c /\ NextChar(w, y) = y + utf8_char_len(c)
        /\ utf8to16_char_len(w, y) = n
    BY <2>2, <2>3, ReadsBack
  <2> HIDE DEF n
  <2>6. GivesBack(m, w, P, x, y)
    BY <2>2, <2>3, <2>4, <2>5 DEF GivesBack
  <2> QED
    BY <1>1, <2>5, <2>6
<1> QED
  BY <1>1, <1>2, <1>3

LEMMA TrailStops ==
  ASSUME NEW m, NEW e, Plain(m, e), NEW w, NEW P, NEW b,
         Trail(m, e, w, P, e, b), w[b] = 0, NEW x, NEW y, <<x, y>> \in P, w[y] = 0
  PROVE  x = e
BY TrailReads

-----------------------------------------------------------------------------
(* A listed name that comes back: well-formed, and no pair at its end.         *)
WholeName ==
  Listed /\ WellFormed(Name) /\ (Name # <<>> => ~IsLow(Name[Len(Name)]))

(* What of the name is behind the loop, and that the bytes stand for all of it.  *)
Written(e, x) == \E P, b : Trail(u16, e, u8, P, e, b) /\ u8[b] = 0 /\ <<x, at>> \in P
BackFrom(e) == /\ back \in Back /\ Len(back) < e
               /\ \A j \in 1 .. Len(back) : back[j] = u16[j]

NameKept(e) ==
  /\ Plain(u16, e)
  /\ loop = "encode8" => \E P : Trail(u16, e, u8, P, at, Len(u8) + 1)
  /\ loop = "measure16" => Written(e, need + 1)
  /\ loop = "encode16" => need + 1 = e /\ BackFrom(e) /\ Written(e, Len(back) + 1)
  /\ loop = "done" => need + 1 = e /\ BackFrom(e) /\ Len(back) = need

NamesInv == Inv /\ (WholeName => NameKept(EndOfName))

LEMMA EndLemma ==
  ASSUME Memory16(u16)
  PROVE  /\ EndOfName \in 1 .. Len(u16) /\ u16[EndOfName] = 0
         /\ \A l \in 1 .. EndOfName - 1 : u16[l] # 0
         /\ Name \in Seq(Unit) /\ Len(Name) = EndOfName - 1
         /\ \A k \in 1 .. EndOfName - 1 : Name[k] = u16[k]
<1>1. u16 \in Seq(Unit) /\ Len(u16) \in Nat /\ Len(u16) >= 2 /\ u16[Len(u16)] = 0
      /\ DOMAIN u16 = 1 .. Len(u16)
  BY DEF Memory16
<1> DEFINE zeros == {k \in 1 .. Len(u16) : u16[k] = 0}
<1>2. PICK k \in zeros : \A l \in zeros : k <= l
  <2>1. Len(u16) \in zeros
    BY <1>1
  <2>2. zeros \in SUBSET Nat /\ zeros # {}
    BY <1>1, <2>1
  <2> HIDE DEF zeros
  <2> QED
    BY <2>2, Least
<1>3. k \in DOMAIN u16 /\ u16[k] = 0 /\ \A l \in 1 .. k - 1 : u16[l] # 0
  <2> SUFFICES ASSUME NEW l \in 1 .. k - 1 PROVE u16[l] # 0
    BY <1>1
  <2>1. l \in 1 .. Len(u16) /\ ~(k <= l)
    BY <1>1
  <2> QED
    BY <1>2, <2>1
<1>4. /\ EndOfName \in DOMAIN u16 /\ u16[EndOfName] = 0
      /\ \A l \in 1 .. EndOfName - 1 : u16[l] # 0
  BY <1>3 DEF EndOfName
<1>5. PICK e : e = EndOfName
  OBVIOUS
<1>6. e \in 1 .. Len(u16)
  BY <1>1, <1>4, <1>5
<1>7. /\ SubSeq(u16, 1, e - 1) \in Seq(Unit) /\ Len(SubSeq(u16, 1, e - 1)) = e - 1
      /\ \A l \in 1 .. e - 1 : SubSeq(u16, 1, e - 1)[l] = u16[l]
  BY <1>1, <1>6
<1> QED
  BY <1>1, <1>4, <1>5, <1>6, <1>7 DEF Name

LEMMA NameIsPlain ==
  ASSUME Memory16(u16), WholeName
  PROVE  Plain(u16, EndOfName)
<1>1. PICK e : e = EndOfName
  OBVIOUS
<1>2. /\ e \in 1 .. Len(u16) /\ u16[e] = 0 /\ \A l \in 1 .. e - 1 : u16[l] # 0
      /\ Name \in Seq(Unit) /\ Len(Name) = e - 1 /\ \A k \in 1 .. e - 1 : Name[k] = u16[k]
  BY <1>1, EndLemma
<1>3. u16 \in Seq(Unit) /\ Len(u16) \in Nat
  BY DEF Memory16
<1>4. e \in Nat /\ e >= 1
  BY <1>2, <1>3
<1>5. DOMAIN Name = 1 .. e - 1
  BY <1>2
<1>6. ASSUME NEW k \in 1 .. e - 1, IsHigh(u16[k])
      PROVE  k + 2 < e /\ IsLow(u16[k + 1])
  <2>1. IsHigh(Name[k]) /\ k \in DOMAIN Name
    BY <1>2, <1>5, <1>6
  <2>2. k < Len(Name) /\ IsLow(Name[k + 1])
    BY <2>1 DEF WholeName, WellFormed
  <2>3. k + 1 \in 1 .. e - 1 /\ (k + 2 < e \/ k + 1 = Len(Name))
    BY <1>2, <1>4, <2>2
  <2>4. Len(Name) # 0
    BY <1>2, <1>4, <1>6
  <2>5. ~IsLow(Name[Len(Name)])
    BY <1>2, <2>4 DEF WholeName
  <2> QED
    BY <1>2, <2>2, <2>3, <2>5
<1>7. ASSUME NEW k \in 1 .. e - 1, IsLow(u16[k])
      PROVE  k > 1 /\ IsHigh(u16[k - 1])
  <2>1. IsLow(Name[k]) /\ k \in DOMAIN Name
    BY <1>2, <1>5, <1>7
  <2>2. k > 1 /\ IsHigh(Name[k - 1])
    BY <2>1 DEF WholeName, WellFormed
  <2>3. k - 1 \in 1 .. e - 1
    BY <1>4, <2>2
  <2> QED
    BY <1>2, <2>2, <2>3
<1> QED
  BY <1>1, <1>2, <1>3, <1>6, <1>7 DEF Plain

LEMMA NamesInit == ConvInit => NamesInv
<1> SUFFICES ASSUME ConvInit, WholeName PROVE NameKept(EndOfName)
  BY InitInv DEF NamesInv
<1>1. CASE InitListed
  <2>1. loop = "measure8"
    BY <1>1 DEF InitListed
  <2>2. Memory16(u16)
    BY <2>1, InitInv DEF Inv, InMeasure8
  <2> QED
    BY <2>1, <2>2, NameIsPlain DEF NameKept
<1>2. CASE InitConfigured
  BY <1>2 DEF InitConfigured, WholeName, Listed
<1> QED
  BY <1>1, <1>2 DEF ConvInit
LEMMA NameStep ==
  ASSUME Inv, NEW e, NameKept(e), [ConvNext]_convvars
  PROVE  NameKept(e)'
<1>1. Plain(u16, e) /\ e \in Nat /\ e >= 1
  BY DEF NameKept, Plain
<1>2. u16' = u16
  BY DEF ConvNext, convvars, Measure8, Measured8, Encode8, Encoded8, Measure16, Measured16,
         Encode16, Encoded16
<1>3. Plain(u16, e)'
  BY <1>1, <1>2
<1>4. CASE Measure8
  BY <1>3, <1>4 DEF Measure8, NameKept
<1>5. CASE Measured8
  <2>1. loop' = "encode8" /\ at' = 1 /\ u8' = <<>>
    BY <1>5 DEF Measured8, Go, Inv, InMeasure8
  <2>2. Len(u8') + 1 = 1
    BY <2>1
  <2>3. Trail(u16', e, u8', {<<1, 1>>}, at', Len(u8') + 1)
    BY <1>1, <1>2, <2>1, <2>2, TrailStarts
  <2> QED
    BY <1>3, <2>1, <2>3 DEF NameKept
<1>6. CASE Encode8
  <2>1. loop = "encode8" /\ loop' = "encode8" /\ u16[at] # 0 /\ u8 \in Seq(Byte)
    BY <1>6 DEF Encode8, Inv, InEncode8
  <2>2. PICK P : Trail(u16, e, u8, P, at, Len(u8) + 1)
    BY <2>1 DEF NameKept
  <2>3. /\ u8' = u8 \o encode_utf8(decode_utf16(u16, at).code)
        /\ at' = decode_utf16(u16, at).next
    BY <1>6 DEF Encode8
  <2>4. \E Q : Trail(u16, e, u8', Q, at', Len(u8') + 1)
    BY <1>1, <2>1, <2>2, <2>3, TrailGrows
  <2> QED
    BY <1>2, <1>3, <2>1, <2>4 DEF NameKept
<1>7. CASE Encoded8
  <2>1. loop = "encode8" /\ loop' = "measure16" /\ u16[at] = 0 /\ u8 \in Seq(Byte)
        /\ u8' = Append(u8, 0) /\ at' = 1 /\ need' = 0
    BY <1>7 DEF Encoded8, Go, Inv, InEncode8
  <2>2. PICK P : Trail(u16, e, u8, P, at, Len(u8) + 1)
    BY <2>1 DEF NameKept
  <2>3. at = e
    <3>1. at \in 1 .. e
      BY <2>2 DEF Trail
    <3>2. \A k \in 1 .. e - 1 : u16[k] # 0
      BY <1>1 DEF Plain
    <3>3. at # e => at \in 1 .. e - 1
      BY <1>1, <3>1
    <3> QED
      BY <2>1, <3>2, <3>3
  <2>4. Trail(u16, e, u8', P, e, Len(u8) + 1)
    BY <1>1, <2>1, <2>2, <2>3, TrailEnds
  <2>5. u8'[Len(u8) + 1] = 0
    BY <2>1
  <2>6. <<need' + 1, at'>> \in P
    <3>1. need' + 1 = 1
      BY <2>1
    <3> QED
      BY <2>1, <2>4, <3>1 DEF Trail
  <2>7. Written(e, need + 1)'
    BY <1>2, <2>4, <2>5, <2>6 DEF Written
  <2> QED
    BY <1>3, <2>1, <2>7 DEF NameKept
<1>8. CASE Measure16
  <2>1. /\ loop = "measure16" /\ loop' = "measure16" /\ u8[at] # 0 /\ u8' = u8
        /\ need' = need + utf8to16_char_len(u8, at) /\ at' = NextChar(u8, at)
    BY <1>8 DEF Measure16
  <2>2. PICK P, b : Trail(u16, e, u8, P, e, b) /\ u8[b] = 0 /\ <<need + 1, at>> \in P
    BY <2>1 DEF NameKept, Written
  <2>3. need \in Nat
    BY <2>1 DEF Inv, InMeasure16
  <2> DEFINE len == utf8to16_char_len(u8, at)
  <2>4. <<need + 1 + len, NextChar(u8, at)>> \in P /\ len \in 1 .. 2
    BY <1>1, <2>1, <2>2, TrailReads DEF GivesBack
  <2>5. need + 1 + len = need' + 1
    BY <2>1, <2>3, <2>4
  <2>6. <<need' + 1, at'>> \in P
    BY <2>1, <2>4, <2>5
  <2>7. Written(e, need + 1)'
    BY <1>2, <2>1, <2>2, <2>6 DEF Written
  <2> QED
    BY <1>3, <2>1, <2>7 DEF NameKept
<1>9. CASE Measured16
  <2>1. /\ loop = "measure16" /\ loop' = "encode16" /\ u8[at] = 0 /\ u8' = u8
        /\ need' = need /\ at' = 1 /\ back = <<>> /\ back' = back
    BY <1>9 DEF Measured16, Go, Inv, InMeasure16
  <2>2. PICK P, b : Trail(u16, e, u8, P, e, b) /\ u8[b] = 0 /\ <<need + 1, at>> \in P
    BY <2>1 DEF NameKept, Written
  <2>3. need + 1 = e
    <3>1. \A x : <<x, at>> \in P => x = e
      BY <1>1, <2>1, <2>2, TrailStops
    <3> QED
      BY <2>2, <3>1
  <2>4. back' \in Back /\ Len(back') = 0 /\ Len(back') + 1 = 1
    BY <2>1 DEF Back
  <2>5. BackFrom(e)'
    <3>1. \A j \in 1 .. 0 : FALSE
      OBVIOUS
    <3>2. Len(back') < e /\ \A j \in 1 .. Len(back') : FALSE
      BY <1>1, <2>4, <3>1
    <3>3. back' \in Back'
      BY <2>4 DEF Back
    <3> QED
      BY <3>2, <3>3 DEF BackFrom
  <2>6. <<Len(back') + 1, at'>> \in P
    BY <2>1, <2>2, <2>4 DEF Trail
  <2>7. Written(e, Len(back) + 1)'
    BY <1>2, <2>1, <2>2, <2>6 DEF Written
  <2>8. need' + 1 = e
    BY <2>1, <2>3
  <2> QED
    BY <1>3, <2>1, <2>5, <2>7, <2>8 DEF NameKept
<1>10. CASE Encode16
  <2> DEFINE units == encode_utf16(decode_utf8(u8, at))
             len == utf8to16_char_len(u8, at)
  <2>1. /\ loop = "encode16" /\ loop' = "encode16" /\ u8[at] # 0 /\ u8' = u8 /\ need' = need
        /\ back' = back \o units /\ at' = NextChar(u8, at)
    BY <1>10 DEF Encode16
  <2>2. need + 1 = e /\ BackFrom(e)
    BY <2>1 DEF NameKept
  <2>3. PICK P, b : Trail(u16, e, u8, P, e, b) /\ u8[b] = 0 /\ <<Len(back) + 1, at>> \in P
    BY <2>1 DEF NameKept, Written
  <2>4. /\ <<Len(back) + 1 + len, NextChar(u8, at)>> \in P
        /\ len \in 1 .. 2 /\ Len(units) = len /\ units \in Seq(Nat)
        /\ \A j \in 1 .. len : units[j] = u16[Len(back) + 1 + j - 1]
    <3>1. Plain(u16, e) /\ Trail(u16, e, u8, P, e, b) /\ u8[b] = 0
          /\ <<Len(back) + 1, at>> \in P /\ u8[at] # 0
      BY <1>1, <2>1, <2>3
    <3>2. GivesBack(u16, u8, P, Len(back) + 1, at)
      BY <3>1, TrailReads
    <3> QED
      BY <3>2 DEF GivesBack
  <2>5. back' \in Back /\ back \in Back
    <3>1. Memory8(u8) /\ at \in 1 .. Len(u8) /\ back \in Seq(Unit \ {0})
      BY <2>1 DEF Inv, InEncode16, Back
    <3>2. units \in Seq(Unit \ {0})
      BY <2>1, <3>1, CharacterFits DEF Memory8
    <3> QED
      BY <2>1, <3>1, <3>2, Joined DEF Back
  <2> HIDE DEF units, len
  <2>6. back \in Seq(Nat) /\ Len(back) \in Nat
    BY <2>5 DEF Back, Unit
  <2>7. /\ Len(back') = Len(back) + len
        /\ \A j \in 1 .. Len(back) : back'[j] = back[j]
        /\ \A j \in 1 .. len : back'[Len(back) + j] = units[j]
    BY <2>1, <2>4, <2>6
  <2>8. \A j \in 1 .. Len(back') : back'[j] = u16[j]
    <3> SUFFICES ASSUME NEW j \in 1 .. Len(back') PROVE back'[j] = u16[j]
      OBVIOUS
    <3>1. CASE j \in 1 .. Len(back)
      BY <2>2, <2>7, <3>1 DEF BackFrom
    <3>2. CASE j \notin 1 .. Len(back)
      <4>1. PICK i : i = j - Len(back)
        OBVIOUS
      <4>2. i \in 1 .. len /\ Len(back) + i = j /\ Len(back) + 1 + i - 1 = j
        BY <2>4, <2>6, <2>7, <3>2, <4>1
      <4> QED
        BY <2>4, <2>7, <4>2
    <3> QED
      BY <3>1, <3>2
  <2>9. Len(back) + 1 + len = Len(back') + 1
    BY <2>4, <2>6, <2>7
  <2>10. <<Len(back') + 1, at'>> \in P
    BY <2>1, <2>4, <2>9
  <2>11. Len(back') < e
    <3>1. Len(back') + 1 \in 1 .. e
      BY <1>1, <2>3, <2>10, TrailReads
    <3> QED
      BY <1>1, <2>4, <2>6, <2>7, <3>1
  <2>12. BackFrom(e)'
    <3>1. back' \in Back'
      BY <2>5 DEF Back
    <3> QED
      BY <1>2, <2>8, <2>11, <3>1 DEF BackFrom
  <2>13. Written(e, Len(back) + 1)'
    BY <1>2, <2>1, <2>3, <2>10 DEF Written
  <2>14. need' + 1 = e
    BY <2>1, <2>2
  <2> QED
    BY <1>3, <2>1, <2>12, <2>13, <2>14 DEF NameKept
<1>11. CASE Encoded16
  <2>1. /\ loop = "encode16" /\ loop' = "done" /\ u8[at] = 0
        /\ need' = need /\ back' = back
    BY <1>11 DEF Encoded16
  <2>2. need + 1 = e /\ BackFrom(e)
    BY <2>1 DEF NameKept
  <2>3. PICK P, b : Trail(u16, e, u8, P, e, b) /\ u8[b] = 0 /\ <<Len(back) + 1, at>> \in P
    BY <2>1 DEF NameKept, Written
  <2>4. Len(back) + 1 = e
    <3>1. \A x : <<x, at>> \in P => x = e
      BY <1>1, <2>1, <2>3, TrailStops
    <3> QED
      BY <2>3, <3>1
  <2>5. need \in Nat /\ Len(back) \in Nat
    BY <2>1 DEF Inv, InEncode16, Back
  <2>6. Len(back) = need
    BY <2>2, <2>4, <2>5
  <2>7. BackFrom(e)' /\ (need + 1 = e)' /\ (Len(back) = need)'
    BY <1>2, <2>1, <2>2, <2>6 DEF BackFrom, Back
  <2> QED
    BY <1>3, <2>1, <2>7 DEF NameKept
<1>12. CASE UNCHANGED convvars
  <2>1. loop' = loop /\ u16' = u16 /\ u8' = u8 /\ back' = back /\ at' = at /\ need' = need
    BY <1>12 DEF convvars
  <2> QED
    BY <2>1 DEF NameKept, Written, BackFrom, Back
<1> QED
  BY <1>4, <1>5, <1>6, <1>7, <1>8, <1>9, <1>10, <1>11, <1>12 DEF ConvNext

(* A well-formed name that does not end in a pair comes back unit for unit when   *)
(* its file is looked up, however long it is and whatever the buffer held behind  *)
(* it, and measures what it has: what ListDir writes to the registry is what      *)
(* buildPath finds.                                                        *)
THEOREM NamesSurviveAlways == ConvSpec => []NamesSurvive
<1>1. NamesInv /\ [ConvNext]_convvars => NamesInv'
  <2> SUFFICES ASSUME NamesInv, [ConvNext]_convvars, WholeName' PROVE NameKept(EndOfName)'
    BY NextInv DEF NamesInv
  <2>1. u16' = u16
    BY DEF ConvNext, convvars, Measure8, Measured8, Encode8, Encoded8, Measure16, Measured16,
           Encode16, Encoded16
  <2>2. EndOfName' = EndOfName
    BY <2>1 DEF EndOfName
  <2>3. WholeName
    BY <2>1, <2>2 DEF WholeName, Listed, Name, WellFormed
  <2>4. PICK e : e = EndOfName
    OBVIOUS
  <2>5. NameKept(e)'
    BY <2>3, <2>4, NameStep DEF NamesInv
  <2>6. EndOfName' = e
    BY <2>2, <2>4
  <2> QED
    BY <2>5, <2>6 DEF NameKept, Written, BackFrom
<1>2. NamesInv => NamesSurvive
  <2> SUFFICES ASSUME NamesInv, loop = "done", WholeName PROVE Survives
    BY DEF NamesSurvive, WholeName
  <2>1. PICK e : e = EndOfName
    OBVIOUS
  <2>2. Plain(u16, e) /\ need + 1 = e /\ BackFrom(e) /\ Len(back) = need
    BY <2>1 DEF NamesInv, NameKept
  <2>3. /\ u16 \in Seq(Unit) /\ e \in 1 .. Len(u16) /\ Len(u16) \in Nat
    BY <2>2 DEF Plain
  <2>4. need \in Nat /\ back \in Back /\ need = e - 1
    BY <2>2, <2>3 DEF NamesInv, Inv, InDone
  <2>5. /\ SubSeq(u16, 1, e - 1) \in Seq(Unit) /\ Len(SubSeq(u16, 1, e - 1)) = e - 1
        /\ \A l \in 1 .. e - 1 : SubSeq(u16, 1, e - 1)[l] = u16[l]
    BY <2>3
  <2>6. back \in Seq(Unit)
    BY <2>4 DEF Back
  <2>7. \A l \in 1 .. e - 1 : back[l] = u16[l]
    BY <2>2, <2>4 DEF BackFrom
  <2>8. back = SubSeq(u16, 1, e - 1)
    <3> DEFINE name == SubSeq(u16, 1, e - 1)
    <3>1. /\ name \in Seq(Unit) /\ Len(name) = Len(back)
          /\ \A l \in 1 .. Len(back) : back[l] = name[l]
      BY <2>2, <2>4, <2>5, <2>7
    <3> HIDE DEF name
    <3>2. back = name
      BY <2>6, <3>1
    <3> QED
      BY <3>2 DEF name
  <2> QED
    BY <2>1, <2>2, <2>8 DEF Survives, Name
<1> QED
  BY NamesInit, <1>1, <1>2, PTL DEF ConvSpec
=============================================================================
