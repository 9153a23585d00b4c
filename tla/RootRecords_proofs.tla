-------------------------- MODULE RootRecords_proofs --------------------------
(***************************************************************************)
(* What the operators of RootRecords and the lookups of RootRefresh do to    *)
(* a registry that is a tree, of any size: the lemmas that the proofs of     *)
(* RootRefresh cite.                                                        *)
(***************************************************************************)
EXTENDS RootRefresh, Integers, SequenceTheorems, FiniteSetTheorems, WellFoundedInduction, TLAPS

(* Induction over the steps of a walk is done with sets.                       *)
LEMMA Least ==
  ASSUME NEW T \in SUBSET Nat, T # {}
  PROVE  \E x \in T : \A y \in T : x <= y
<1> DEFINE R == {ss \in Nat \X Nat : ss[1] < ss[2]}
<1>1. IsWellFoundedOn(R, Nat)
  BY NatLessThanWellFounded DEF OpToRel
<1>2. PICK x \in T : \A y \in T : ~ (<<y, x>> \in R)
  BY <1>1, WFMin
<1>3. \A y \in T : ~(y < x)
  <2> TAKE y \in T
  <2>1. ~(<<y, x>> \in R) /\ <<y, x>> \in Nat \X Nat
    BY <1>2
  <2> QED BY <2>1
<1> HIDE DEF R
<1>4. x \in Nat /\ \A y \in T : y \in Nat
  OBVIOUS
<1> QED BY <1>3, <1>4

LEMMA Induct ==
  ASSUME NEW n \in Nat, NEW T, 0 \in T, \A k \in 1 .. n : k - 1 \in T => k \in T
  PROVE  \A k \in 0 .. n : k \in T
<1> DEFINE missed == {k \in 0 .. n : k \notin T}
<1> SUFFICES ASSUME missed # {} PROVE FALSE
  OBVIOUS
<1>1. missed \in SUBSET Nat
  OBVIOUS
<1>2. PICK m \in missed : \A j \in missed : m <= j
  <2> HIDE DEF missed
  <2> QED BY <1>1, Least
<1>3. m \in 1 .. n /\ m - 1 \in 0 .. n
  OBVIOUS
<1>4. m - 1 \notin missed
  BY <1>2, <1>3
<1> QED BY <1>3, <1>4

(* A bounded set of natural numbers that is not empty has a greatest element.   *)
LEMMA Greatest ==
  ASSUME NEW T \in SUBSET Nat, T # {}, NEW b \in Nat, \A y \in T : y <= b
  PROVE  \E x \in T : \A y \in T : y <= x
<1> DEFINE gaps == {g \in Nat : \E x \in T : g = b - x}
<1>1. gaps \in SUBSET Nat /\ gaps # {}
  <2>1. \A x \in T : b - x \in Nat
    OBVIOUS
  <2> QED BY <2>1
<1>2. PICK g \in gaps : \A h \in gaps : g <= h
  <2> HIDE DEF gaps
  <2> QED BY <1>1, Least
<1>3. PICK x \in T : g = b - x
  OBVIOUS
<1>4. \A y \in T : b - y \in gaps
  OBVIOUS
<1>5. \A y \in T : g <= b - y /\ y \in Nat
  BY <1>2, <1>4
<1> HIDE DEF gaps
<1>6. x \in Nat
  OBVIOUS
<1> QED BY <1>3, <1>5, <1>6

(* A function defined from its value before: what LET f[n \in 0 .. m] chooses.   *)
Recursive(f, n, a, step) ==
  f = [k \in 0 .. n |-> IF k = 0 THEN a ELSE step[k][f[k - 1]]]

Determined(n, V, a, step) ==
  /\ \E f : Recursive(f, n, a, step)
  /\ \A f : Recursive(f, n, a, step) =>
       /\ f \in [0 .. n -> V] /\ f[0] = a
       /\ \A k \in 1 .. n : f[k] = step[k][f[k - 1]]

LEMMA RecursionExists ==
  ASSUME NEW n \in Nat, NEW V, NEW a \in V, NEW step, \A k \in 1 .. n : \A v \in V : step[k][v] \in V
  PROVE  Determined(n, V, a, step)
<1> DEFINE Found(m) == \E g \in [0 .. m -> V] :
                         g[0] = a /\ \A k \in 1 .. m : g[k] = step[k][g[k - 1]]
           T == {m \in Nat : Found(m)}
<1>1. Found(0)
  <2> DEFINE g == [k \in 0 .. 0 |-> a]
  <2>1. g \in [0 .. 0 -> V] /\ g[0] = a /\ \A k \in 1 .. 0 : FALSE
    OBVIOUS
  <2> HIDE DEF g
  <2> QED BY <2>1
<1>2. \A m \in 1 .. n : Found(m - 1) => Found(m)
  <2> TAKE m \in 1 .. n
  <2> HAVE Found(m - 1)
  <2>1. PICK g \in [0 .. m - 1 -> V] :
          g[0] = a /\ \A k \in 1 .. m - 1 : g[k] = step[k][g[k - 1]]
    OBVIOUS
  <2> DEFINE h == [k \in 0 .. m |-> IF k = m THEN step[m][g[m - 1]] ELSE g[k]]
  <2>2. step[m][g[m - 1]] \in V
    BY <2>1
  <2>3. \A k \in 0 .. m : k # m => k \in 0 .. m - 1
    OBVIOUS
  <2>4. h \in [0 .. m -> V]
    BY <2>1, <2>2, <2>3
  <2>5. h[0] = a /\ h[m] = step[m][g[m - 1]] /\ \A k \in 0 .. m - 1 : h[k] = g[k]
    BY <2>1
  <2> HIDE DEF h
  <2>6. \A k \in 1 .. m : h[k] = step[k][h[k - 1]]
    <3> TAKE k \in 1 .. m
    <3>1. CASE k = m
      BY <2>5, <3>1
    <3>2. CASE k # m
      <4>1. k \in 1 .. m - 1 /\ k \in 0 .. m - 1 /\ k - 1 \in 0 .. m - 1
        BY <3>2
      <4> QED BY <2>1, <2>5, <4>1
    <3> QED BY <3>1, <3>2
  <2> QED BY <2>4, <2>5, <2>6
<1>3. Found(n)
  <2> HIDE DEF Found
  <2>1. 0 \in T /\ \A k \in 1 .. n : k - 1 \in T => k \in T
    BY <1>1, <1>2
  <2> HIDE DEF T
  <2>2. n \in T
    BY <2>1, Induct
  <2> QED BY <2>2 DEF T
<1>4. PICK g \in [0 .. n -> V] : g[0] = a /\ \A k \in 1 .. n : g[k] = step[k][g[k - 1]]
  BY <1>3
<1>5. Recursive(g, n, a, step)
  <2>1. \A k \in 0 .. n : g[k] = IF k = 0 THEN a ELSE step[k][g[k - 1]]
    <3> TAKE k \in 0 .. n
    <3>1. k # 0 => k \in 1 .. n
      OBVIOUS
    <3> QED BY <1>4, <3>1
  <2> QED BY <1>4, <2>1 DEF Recursive
<1>6. ASSUME NEW f, Recursive(f, n, a, step)
      PROVE  /\ f \in [0 .. n -> V] /\ f[0] = a
             /\ \A k \in 1 .. n : f[k] = step[k][f[k - 1]]
  <2>1. \A k \in 0 .. n : f[k] = IF k = 0 THEN a ELSE step[k][f[k - 1]]
    BY <1>6 DEF Recursive
  <2>2. f[0] = a /\ \A k \in 1 .. n : f[k] = step[k][f[k - 1]]
    <3>1. 0 \in 0 .. n /\ \A k \in 1 .. n : k \in 0 .. n /\ k # 0
      OBVIOUS
    <3> QED BY <2>1, <3>1
  <2> DEFINE U == {k \in 0 .. n : f[k] \in V}
  <2>3. 0 \in U /\ \A k \in 1 .. n : k - 1 \in U => k \in U
    BY <2>2
  <2> HIDE DEF U
  <2>4. \A k \in 0 .. n : k \in U
    BY <2>3, Induct
  <2>5. \A k \in 0 .. n : f[k] \in V
    BY <2>4 DEF U
  <2>6. f \in [0 .. n -> V]
    BY <1>6, <2>5 DEF Recursive
  <2> QED BY <2>2, <2>6
<1> QED BY <1>5, <1>6 DEF Determined

-----------------------------------------------------------------------------
(* Paths.                                                                  *)
AnyPath == Paths \cup {<<>>}

LEMMA PathSets ==
  /\ AnyPath = {p \in Seq(Names) : Len(p) <= Depth}
  /\ Paths = {p \in Seq(Names) : Len(p) \in 1 .. Depth}
<1>1. Depth \in Nat \ {0}
  BY DepthAssumption
<1>2. \A p \in Paths : p \in Seq(Names) /\ Len(p) \in 1 .. Depth
  <2> TAKE p \in Paths
  <2>1. PICK d \in 1 .. Depth : p \in [1 .. d -> Names]
    BY DEF Paths
  <2>2. d \in Nat
    BY <1>1
  <2>3. p \in Seq(Names)
    BY <2>1, <2>2, SeqDef
  <2>4. DOMAIN p = 1 .. Len(p) /\ Len(p) \in Nat /\ DOMAIN p = 1 .. d
    BY <2>1, <2>3, LenProperties
  <2> QED BY <2>2, <2>3, <2>4
<1>3. \A p \in Seq(Names) : Len(p) \in 1 .. Depth => p \in Paths
  <2> TAKE p \in Seq(Names)
  <2>1. p \in [1 .. Len(p) -> Names]
    BY LenProperties
  <2> QED BY <2>1 DEF Paths
<1>4. <<>> \in Seq(Names) /\ Len(<<>>) = 0
  BY EmptySeq
<1>5. \A p \in Seq(Names) : Len(p) \in Nat /\ (Len(p) = 0 => p = <<>>)
  BY EmptySeq, LenProperties
<1>6. Paths = {p \in Seq(Names) : Len(p) \in 1 .. Depth}
  BY <1>2, <1>3
<1>7. \A p \in Seq(Names) : Len(p) <= Depth <=> Len(p) \in 1 .. Depth \/ p = <<>>
  BY <1>1, <1>4, <1>5
<1> QED BY <1>4, <1>6, <1>7 DEF AnyPath

LEMMA AppendPath ==
  ASSUME NEW p \in Seq(Names), NEW n \in Names
  PROVE  /\ Append(p, n) \in Seq(Names) /\ Append(p, n) # <<>>
         /\ Len(p) \in Nat /\ Len(Append(p, n)) = Len(p) + 1
         /\ Parent(Append(p, n)) = p
         /\ Append(p, n)[Len(Append(p, n))] = n
         /\ \A i \in 1 .. Len(p) : Append(p, n)[i] = p[i]
<1> DEFINE q == Append(p, n)
<1>1. /\ q \in Seq(Names) /\ q # <<>> /\ Len(q) = Len(p) + 1 /\ Len(p) \in Nat
      /\ q[Len(p) + 1] = n /\ \A i \in 1 .. Len(p) : q[i] = p[i]
  BY AppendProperties, LenProperties
<1> HIDE DEF q
<1>2. Parent(q) = p
  <2>1. Parent(q) = SubSeq(q, 1, Len(p))
    BY <1>1 DEF Parent
  <2>2. \A i \in 1 .. Len(p) : q[i] \in Names
    BY <1>1, LenProperties
  <2>3. /\ SubSeq(q, 1, Len(p)) \in Seq(Names) /\ Len(SubSeq(q, 1, Len(p))) = Len(p)
        /\ \A i \in 1 .. Len(p) : SubSeq(q, 1, Len(p))[i] = q[i]
    <3>1. 1 \in Int /\ Len(p) \in Int
      BY <1>1
    <3>2. /\ SubSeq(q, 1, Len(p)) \in Seq(Names)
          /\ Len(SubSeq(q, 1, Len(p))) = IF 1 <= Len(p) THEN Len(p) - 1 + 1 ELSE 0
          /\ \A i \in 1 .. Len(p) - 1 + 1 : SubSeq(q, 1, Len(p))[i] = q[1 + i - 1]
      BY <3>1, <2>2, SubSeqProperties
    <3> QED BY <1>1, <3>2
  <2> QED BY <1>1, <2>1, <2>3, SeqEqual
<1> QED BY <1>1, <1>2 DEF q

LEMMA SplitPath ==
  ASSUME NEW p \in Seq(Names), p # <<>>
  PROVE  /\ Len(p) \in Nat \ {0}
         /\ Parent(p) \in Seq(Names) /\ p[Len(p)] \in Names
         /\ p = Append(Parent(p), p[Len(p)]) /\ Len(Parent(p)) = Len(p) - 1
<1>1. PICK s \in Seq(Names), n \in Names : p = Append(s, n)
  BY SequenceEmptyOrAppend
<1> QED BY <1>1, AppendPath

(* The same step again and again.                                           *)
Iterates(f, n, V, a, next) ==
  f \in [0 .. n -> V] /\ f[0] = a /\ \A k \in 1 .. n : f[k] = next[f[k - 1]]

Iteration(g, n, a, next) == g = [k \in 0 .. n |-> IF k = 0 THEN a ELSE next[g[k - 1]]]

Iterate(n, a, next) == CHOOSE g : Iteration(g, n, a, next)

LEMMA Iterated ==
  ASSUME NEW n \in Nat, NEW V, NEW a \in V, NEW next, \A v \in V : next[v] \in V
  PROVE  Iterates(Iterate(n, a, next), n, V, a, next)
<1> DEFINE step == [k \in 1 .. n |-> next]
<1>1. \A k \in 1 .. n : step[k] = next
  OBVIOUS
<1> HIDE DEF step
<1>2. \A g : Recursive(g, n, a, step) <=> Iteration(g, n, a, next)
  <2> TAKE g
  <2>1. \A k \in 0 .. n : (IF k = 0 THEN a ELSE step[k][g[k - 1]])
                        = (IF k = 0 THEN a ELSE next[g[k - 1]])
    <3>1. \A k \in 0 .. n : k # 0 => k \in 1 .. n
      OBVIOUS
    <3> QED BY <1>1, <3>1
  <2>2. [k \in 0 .. n |-> IF k = 0 THEN a ELSE step[k][g[k - 1]]]
      = [k \in 0 .. n |-> IF k = 0 THEN a ELSE next[g[k - 1]]]
    BY <2>1
  <2> QED BY <2>2 DEF Recursive, Iteration
<1>3. \A k \in 1 .. n : \A v \in V : step[k][v] \in V
  BY <1>1
<1>4. Determined(n, V, a, step)
  BY <1>3, RecursionExists
<1>5. \A g : Recursive(g, n, a, step) => Iterates(g, n, V, a, next)
  BY <1>1, <1>4 DEF Determined, Iterates
<1>6. \E g : Iteration(g, n, a, next)
  BY <1>2, <1>4 DEF Determined
<1>7. Iteration(Iterate(n, a, next), n, a, next)
  BY <1>6 DEF Iterate
<1> QED BY <1>2, <1>5, <1>7

-----------------------------------------------------------------------------
(***************************************************************************)
(* The registry as a tree.  P is the path of each record; the children of a   *)
(* directory are linked in the order of their names, from sub on.            *)
(***************************************************************************)
Kids(R, P, p) == {r \in Active(R) : P[r] = Append(P[p], R[r].name)}

FirstOf(R, K, x) == (x = 0 /\ K = {}) \/ (x \in K /\ \A s \in K : R[x].name <= R[s].name)

Greater(R, K, r) == {s \in K : R[r].name < R[s].name}

Linked(R, K, p) ==
  /\ FirstOf(R, K, R[p].sub)
  /\ \A r \in K : /\ IF R[r].islast THEN R[r].next = p ELSE R[r].next # 0
                  /\ FirstOf(R, Greater(R, K, r), NextSibling(R, r))

Placed(R, P) ==
  /\ P \in [Active(R) -> AnyPath]
  /\ \A r, s \in Active(R) : P[r] = P[s] => r = s
  /\ 0 \notin Active(R) /\ ROOT \in Dirs(R) /\ ~R[ROOT].isignore /\ P[ROOT] = <<>>
  /\ \A r \in Active(R) \ {ROOT} :
       /\ R[r].name \in Names
       /\ \E u \in Dirs(R) : ~R[u].isignore /\ P[r] = Append(P[u], R[r].name)

Forest(R, P) ==
  /\ R \in [Ids -> RecordItem] /\ Placed(R, P)
  /\ \A p \in Dirs(R) : Linked(R, Kids(R, P, p), p)

(* What is known of a directory and its children.                           *)
LEMMA KidFacts ==
  ASSUME NEW R, NEW P, Forest(R, P), NEW p \in Dirs(R)
  PROVE  /\ p \in Ids \ {0} /\ R[p].isdir
         /\ P[p] \in Seq(Names) /\ Len(P[p]) \in Nat /\ Len(P[p]) <= Depth
         /\ Linked(R, Kids(R, P, p), p)
         /\ \A r \in Kids(R, P, p) :
              /\ r \in Active(R) \ {ROOT} /\ r \in Ids \ {0} /\ r # p
              /\ R[r].name \in Names /\ R[r].name \in Nat \ {0} /\ R[r] \in RecordItem
              /\ P[r] = Append(P[p], R[r].name) /\ P[r] \in Paths
              /\ Len(P[r]) = Len(P[p]) + 1 /\ Parent(P[r]) = P[p]
         /\ \A r, s \in Kids(R, P, p) : R[r].name = R[s].name => r = s
<1>1. /\ R \in [Ids -> RecordItem] /\ P \in [Active(R) -> AnyPath] /\ 0 \notin Active(R)
      /\ P[ROOT] = <<>> /\ \A r, s \in Active(R) : P[r] = P[s] => r = s
      /\ \A r \in Active(R) \ {ROOT} : R[r].name \in Names
      /\ Linked(R, Kids(R, P, p), p)
  BY DEF Forest, Placed
<1>2. \A r \in Active(R) : r \in Ids \ {0} /\ P[r] \in Seq(Names) /\ Len(P[r]) \in Nat /\ Len(P[r]) <= Depth
  <2> TAKE r \in Active(R)
  <2>1. r \in Ids \ {0} /\ P[r] \in AnyPath
    BY <1>1 DEF Active
  <2>2. P[r] \in Seq(Names) /\ Len(P[r]) <= Depth
    BY <2>1, PathSets
  <2> QED BY <2>1, <2>2, LenProperties
<1>3. p \in Active(R) /\ R[p].isdir
  BY DEF Dirs
<1>4. \A r \in Kids(R, P, p) : r \in Active(R) /\ P[r] = Append(P[p], R[r].name)
  BY DEF Kids
<1>5. ASSUME NEW r \in Kids(R, P, p)
      PROVE  /\ r \in Active(R) \ {ROOT} /\ r # p /\ R[r].name \in Names
             /\ P[r] \in Paths /\ Len(P[r]) = Len(P[p]) + 1 /\ Parent(P[r]) = P[p]
  <2>1. r # ROOT
    <3>1. P[p] \in Seq(Names)
      BY <1>2, <1>3
    <3>2. Len(<<>>) = 0
      BY EmptySeq
    <3>3. Len(Append(P[p], R[r].name)) = Len(P[p]) + 1 /\ Len(P[p]) \in Nat
      BY <3>1
    <3> QED BY <1>1, <1>4, <3>2, <3>3
  <2>2. R[r].name \in Names
    BY <1>1, <1>4, <2>1
  <2>3. Len(P[r]) = Len(P[p]) + 1 /\ Parent(P[r]) = P[p] /\ Len(P[p]) \in Nat
    <3>1. P[p] \in Seq(Names) /\ P[r] = Append(P[p], R[r].name)
      BY <1>2, <1>3, <1>4
    <3> QED BY <3>1, <2>2, AppendPath
  <2>4. P[r] \in Seq(Names) /\ Len(P[r]) \in 1 .. Depth
    BY <1>2, <1>4, <2>3, DepthAssumption
  <2> QED BY <1>4, <2>1, <2>2, <2>3, <2>4, PathSets
<1>6. \A r \in Kids(R, P, p) : R[r].name \in Nat \ {0} /\ R[r] \in RecordItem
  BY <1>1, <1>2, <1>4, <1>5, NamesAssumption
<1>7. \A r, s \in Kids(R, P, p) : R[r].name = R[s].name => r = s
  BY <1>1, <1>4
<1> QED BY <1>1, <1>2, <1>3, <1>4, <1>5, <1>6, <1>7

(* The siblings from x on.                                                  *)
Rest(R, K, x) == IF x = 0 THEN {} ELSE {s \in K : R[x].name <= R[s].name}

(* Walking from x.                                                         *)
Steps(R, K, x, nth) ==
  /\ nth \in [0 .. MaxRec -> K \cup {0}] /\ nth[0] = x
  /\ \A k \in 1 .. MaxRec : nth[k] = IF nth[k - 1] = 0 THEN 0 ELSE NextSibling(R, nth[k - 1])

LEMMA FromSteps ==
  ASSUME NEW R, NEW P, Forest(R, P), NEW p \in Dirs(R), NEW x \in Kids(R, P, p) \cup {0}
  PROVE  Steps(R, Kids(R, P, p), x, From(R, x))
<1> DEFINE K == Kids(R, P, p)
           V == K \cup {0}
           next == [r \in Ids |-> IF r = 0 THEN 0 ELSE NextSibling(R, r)]
           f == Iterate(MaxRec, x, next)
<1>1. MaxRec \in Nat /\ 0 \in Ids
  BY MaxRecAssumption DEF Ids
<1>2. K \subseteq Ids \ {0} /\ Linked(R, K, p)
  BY KidFacts
<1>3. \A v \in V : next[v] \in V /\ next[v] = IF v = 0 THEN 0 ELSE NextSibling(R, v)
  <2> HIDE DEF K
  <2>1. \A v \in K : NextSibling(R, v) \in V
    BY <1>2 DEF Linked, FirstOf, Greater
  <2> QED BY <1>1, <1>2, <2>1
<1>4. Iterates(f, MaxRec, V, x, next)
  <2>1. x \in V /\ \A v \in V : next[v] \in V
    BY <1>3
  <2> HIDE DEF K, V, next
  <2> QED BY <1>1, <2>1, Iterated
<1>5. From(R, x) = f
  BY DEF From, Iterate, Iteration
<1> HIDE DEF f, next, K
<1>6. /\ f \in [0 .. MaxRec -> V] /\ f[0] = x
      /\ \A k \in 1 .. MaxRec : f[k] = next[f[k - 1]]
  BY <1>4 DEF Iterates
<1>7. \A k \in 1 .. MaxRec : f[k] = IF f[k - 1] = 0 THEN 0 ELSE NextSibling(R, f[k - 1])
  <2> TAKE k \in 1 .. MaxRec
  <2>1. f[k - 1] \in V
    BY <1>1, <1>6
  <2> QED BY <1>3, <1>6, <2>1
<1>8. Steps(R, K, x, f)
  BY <1>6, <1>7 DEF Steps
<1> QED BY <1>5, <1>8 DEF K

(* The walk goes on in the order of names,                                   *)
LEMMA WalkAscends ==
  ASSUME NEW R, NEW P, Forest(R, P), NEW p \in Dirs(R), NEW x, NEW nth,
         Steps(R, Kids(R, P, p), x, nth)
  PROVE  /\ \A i, j \in 0 .. MaxRec : i < j /\ nth[j] # 0 => nth[i] # 0 /\ R[nth[i]].name < R[nth[j]].name
         /\ \A j \in 0 .. MaxRec : nth[j] # 0 => nth[j] \in Rest(R, Kids(R, P, p), x)
<1> DEFINE K == Kids(R, P, p)
<1>1. MaxRec \in Nat
  BY MaxRecAssumption
<1>2. /\ \A r \in K : r # 0 /\ R[r].name \in Nat
      /\ \A r \in K : FirstOf(R, Greater(R, K, r), NextSibling(R, r))
  BY KidFacts DEF Linked
<1> HIDE DEF K
<1>3. /\ nth \in [0 .. MaxRec -> K \cup {0}] /\ nth[0] = x
      /\ \A k \in 1 .. MaxRec : nth[k] = IF nth[k - 1] = 0 THEN 0 ELSE NextSibling(R, nth[k - 1])
  BY DEF Steps, K
<1>4. \A k \in 1 .. MaxRec : nth[k] # 0 =>
        nth[k - 1] # 0 /\ R[nth[k - 1]].name < R[nth[k]].name
  <2> TAKE k \in 1 .. MaxRec
  <2> HAVE nth[k] # 0
  <2>1. nth[k - 1] # 0 /\ nth[k] = NextSibling(R, nth[k - 1])
    BY <1>3
  <2>2. nth[k - 1] \in K
    BY <1>1, <1>3, <2>1
  <2> QED BY <1>2, <2>1, <2>2 DEF FirstOf, Greater
<1>5. ASSUME NEW i \in 0 .. MaxRec
      PROVE  \A j \in 0 .. MaxRec : i < j /\ nth[j] # 0 => nth[i] # 0 /\ R[nth[i]].name < R[nth[j]].name
  <2> DEFINE T == {j \in 0 .. MaxRec : i < j /\ nth[j] # 0 => nth[i] # 0 /\ R[nth[i]].name < R[nth[j]].name}
  <2>1. 0 \in T
    BY <1>1
  <2>2. \A j \in 1 .. MaxRec : j - 1 \in T => j \in T
    <3> TAKE j \in 1 .. MaxRec
    <3> HAVE j - 1 \in T
    <3> SUFFICES ASSUME i < j, nth[j] # 0 PROVE nth[i] # 0 /\ R[nth[i]].name < R[nth[j]].name
      OBVIOUS
    <3>1. nth[j - 1] # 0 /\ R[nth[j - 1]].name < R[nth[j]].name
      BY <1>4
    <3>2. CASE i = j - 1
      BY <3>1, <3>2
    <3>3. CASE i # j - 1
      <4>1. i < j - 1 /\ j - 1 \in 0 .. MaxRec
        BY <3>3
      <4>2. nth[i] # 0 /\ R[nth[i]].name < R[nth[j - 1]].name
        BY <3>1, <4>1
      <4>3. nth[i] \in K /\ nth[j] \in K /\ nth[j - 1] \in K
        BY <1>3, <3>1, <4>1, <4>2
      <4>4. \A a, b, c \in Nat : a < b /\ b < c => a < c
        OBVIOUS
      <4> QED BY <1>2, <3>1, <4>2, <4>3, <4>4
    <3> QED BY <3>2, <3>3
  <2> HIDE DEF T
  <2>3. \A j \in 0 .. MaxRec : j \in T
    BY <1>1, <2>1, <2>2, Induct
  <2> QED BY <2>3 DEF T
<1>6. ASSUME NEW j \in 0 .. MaxRec, nth[j] # 0
      PROVE  nth[j] \in Rest(R, K, x)
  <2>1. nth[j] \in K /\ 0 \in 0 .. MaxRec
    BY <1>1, <1>3, <1>6
  <2>2. CASE j = 0
    BY <1>2, <1>3, <1>6, <2>1, <2>2 DEF Rest
  <2>3. CASE j # 0
    <3>1. x # 0 /\ R[x].name < R[nth[j]].name
      BY <1>3, <1>5, <1>6, <2>1, <2>3
    <3>2. x \in K
      BY <1>3, <2>1, <3>1
    <3> QED BY <1>2, <2>1, <3>1, <3>2 DEF Rest
  <2> QED BY <2>2, <2>3
<1> QED BY <1>5, <1>6 DEF K

(* it ends,                                                                *)
LEMMA WalkEnds ==
  ASSUME NEW R, NEW P, Forest(R, P), NEW p \in Dirs(R), NEW x, NEW nth,
         Steps(R, Kids(R, P, p), x, nth)
  PROVE  \E k \in 0 .. MaxRec : nth[k] = 0
<1> SUFFICES ASSUME \A k \in 0 .. MaxRec : nth[k] # 0 PROVE FALSE
  OBVIOUS
<1>1. MaxRec \in Nat
  BY MaxRecAssumption
<1>2. IsFiniteSet(0 .. MaxRec) /\ Cardinality(0 .. MaxRec) = MaxRec + 1
  <2>1. 0 \in Int /\ MaxRec \in Int /\ ~(0 > MaxRec) /\ MaxRec - 0 + 1 = MaxRec + 1
    BY <1>1
  <2> QED BY <2>1, FS_Interval
<1>3. IsFiniteSet(Ids) /\ Cardinality(Ids) = MaxRec
  <2>1. 0 \in Int /\ MaxRec - 1 \in Int /\ ~(0 > MaxRec - 1) /\ (MaxRec - 1) - 0 + 1 = MaxRec
    BY MaxRecAssumption
  <2> QED BY <2>1, FS_Interval DEF Ids
<1>4. /\ nth \in [0 .. MaxRec -> Ids]
      /\ \A k \in 0 .. MaxRec : R[nth[k]].name \in Nat
  <2>1. nth \in [0 .. MaxRec -> Kids(R, P, p) \cup {0}]
    BY DEF Steps
  <2>2. \A k \in 0 .. MaxRec : nth[k] \in Kids(R, P, p)
    BY <2>1
  <2> QED BY <2>1, <2>2, KidFacts
<1>5. PICK i, j \in 0 .. MaxRec : i # j /\ nth[i] = nth[j]
  <2>1. Cardinality(Ids) < Cardinality(0 .. MaxRec)
    BY <1>1, <1>2, <1>3
  <2> QED BY <1>2, <1>3, <1>4, <2>1, FS_PigeonHole, ZenonT(60)
<1>6. \A a, b \in 0 .. MaxRec : a < b => R[nth[a]].name < R[nth[b]].name
  BY WalkAscends
<1>7. i < j \/ j < i
  BY <1>1, <1>5
<1>8. \A a \in Nat : ~(a < a)
  OBVIOUS
<1> QED BY <1>4, <1>5, <1>6, <1>7, <1>8

(* and it overlooks nothing.                                                *)
LEMMA WalkMeets ==
  ASSUME NEW R, NEW P, Forest(R, P), NEW p \in Dirs(R), NEW x \in Kids(R, P, p) \cup {0}, NEW nth,
         Steps(R, Kids(R, P, p), x, nth), NEW t \in Rest(R, Kids(R, P, p), x)
  PROVE  \E k \in 0 .. MaxRec : nth[k] = t
<1> SUFFICES ASSUME \A k \in 0 .. MaxRec : nth[k] # t PROVE FALSE
  OBVIOUS
<1> DEFINE K == Kids(R, P, p)
           T == {k \in 0 .. MaxRec : nth[k] # 0 /\ R[nth[k]].name < R[t].name}
<1>1. MaxRec \in Nat
  BY MaxRecAssumption
<1>2. /\ \A r \in K : r # 0 /\ R[r].name \in Nat
      /\ \A r \in K : FirstOf(R, Greater(R, K, r), NextSibling(R, r))
      /\ \A r, s \in K : R[r].name = R[s].name => r = s
  BY KidFacts DEF Linked
<1> HIDE DEF K
<1>3. /\ nth \in [0 .. MaxRec -> K \cup {0}] /\ nth[0] = x
      /\ \A k \in 1 .. MaxRec : nth[k] = IF nth[k - 1] = 0 THEN 0 ELSE NextSibling(R, nth[k - 1])
  BY DEF Steps, K
<1>4. t \in K /\ x \in K /\ x # 0 /\ R[x].name <= R[t].name
  BY DEF Rest, K
<1>5. 0 \in T
  <2>1. 0 \in 0 .. MaxRec /\ x # t
    BY <1>1, <1>3
  <2>2. R[x].name # R[t].name /\ R[x].name \in Nat /\ R[t].name \in Nat
    BY <1>2, <1>4, <2>1
  <2> QED BY <1>3, <1>4, <2>1, <2>2
<1>6. \A k \in 1 .. MaxRec : k - 1 \in T => k \in T
  <2> TAKE k \in 1 .. MaxRec
  <2> HAVE k - 1 \in T
  <2>1. nth[k - 1] \in K /\ nth[k - 1] # 0 /\ R[nth[k - 1]].name < R[t].name
    BY <1>1, <1>3
  <2>2. nth[k] = NextSibling(R, nth[k - 1])
    BY <1>3, <2>1
  <2>3. t \in Greater(R, K, nth[k - 1])
    BY <1>4, <2>1 DEF Greater
  <2>4. nth[k] \in K /\ R[nth[k]].name <= R[t].name
    BY <1>2, <2>1, <2>2, <2>3 DEF FirstOf, Greater
  <2>5. nth[k] # t
    BY <1>1
  <2>6. R[nth[k]].name # R[t].name /\ R[nth[k]].name \in Nat /\ R[t].name \in Nat
    BY <1>2, <1>4, <2>4, <2>5
  <2>7. nth[k] # 0 /\ R[nth[k]].name < R[t].name
    BY <1>2, <2>4, <2>6
  <2> QED BY <2>7
<1> HIDE DEF T
<1>7. \A k \in 0 .. MaxRec : k \in T
  BY <1>1, <1>5, <1>6, Induct
<1> QED BY <1>7, WalkEnds DEF T

-----------------------------------------------------------------------------
(* What the operators of the model find.                                      *)
LEMMA RestOfFirst ==
  ASSUME NEW R, NEW K, NEW x, FirstOf(R, K, x), 0 \notin K
  PROVE  Rest(R, K, x) = K
BY DEF FirstOf, Rest

LEMMA ChildrenAreKids ==
  ASSUME NEW R, NEW P, Forest(R, P), NEW p \in Dirs(R)
  PROVE  Children(R, p) = Kids(R, P, p)
<1> DEFINE K == Kids(R, P, p)
           nth == From(R, R[p].sub)
<1>1. FirstOf(R, K, R[p].sub) /\ 0 \notin K
  BY KidFacts DEF Linked
<1>2. R[p].sub \in K \cup {0} /\ Rest(R, K, R[p].sub) = K
  BY <1>1, RestOfFirst DEF FirstOf
<1>3. Steps(R, K, R[p].sub, nth)
  BY <1>2, FromSteps
<1>4. \A t \in K : \E k \in 0 .. MaxRec : nth[k] = t
  BY <1>2, <1>3, WalkMeets
<1>5. \A k \in 0 .. MaxRec : nth[k] \in K \cup {0}
  BY <1>3 DEF Steps
<1>6. Children(R, p) = {nth[k] : k \in 0 .. MaxRec} \ {0}
  BY DEF Children, Chain
<1> HIDE DEF K, nth
<1>7. {nth[k] : k \in 0 .. MaxRec} \ {0} = K
  BY <1>1, <1>4, <1>5
<1> QED BY <1>6, <1>7 DEF K

LEMMA FirstFromFinds ==
  ASSUME NEW P, Forest(recs, P), NEW p \in Dirs(recs), NEW x \in Kids(recs, P, p) \cup {0}, NEW S
  PROVE  FirstOf(recs, Rest(recs, Kids(recs, P, p), x) \cap S, FirstFrom(x, S))
<1> DEFINE K == Kids(recs, P, p)
           nth == From(recs, x)
           hits == {k \in 0 .. MaxRec : nth[k] \in S \ {0}}
           least == CHOOSE k \in hits : \A j \in hits : k <= j
<1>1. Steps(recs, K, x, nth)
  BY FromSteps
<1>2. /\ \A k \in 0 .. MaxRec : nth[k] # 0 => nth[k] \in Rest(recs, K, x)
      /\ \A i, j \in 0 .. MaxRec : i < j /\ nth[j] # 0 => recs[nth[i]].name < recs[nth[j]].name
  BY <1>1, WalkAscends
<1>3. \A t \in Rest(recs, K, x) : \E k \in 0 .. MaxRec : nth[k] = t
  BY <1>1, WalkMeets
<1>4. \A r \in K : r # 0 /\ recs[r].name \in Nat
  BY KidFacts
<1>5. Rest(recs, K, x) \subseteq K
  BY DEF Rest
<1>6. FirstFrom(x, S) = IF hits = {} THEN 0 ELSE nth[least]
  BY DEF FirstFrom
<1>7. CASE hits = {}
  <2>1. Rest(recs, K, x) \cap S = {}
    BY <1>3, <1>4, <1>5, <1>7
  <2> QED BY <1>6, <1>7, <2>1 DEF FirstOf
<1>8. CASE hits # {}
  <2>1. hits \in SUBSET Nat
    OBVIOUS
  <2>2. least \in hits /\ \A j \in hits : least <= j
    <3> HIDE DEF hits
    <3>1. \E k \in hits : \A j \in hits : k <= j
      BY <1>8, <2>1, Least
    <3> QED BY <3>1
  <2> HIDE DEF K, nth, least
  <2>3. nth[least] \in Rest(recs, K, x) \cap S /\ least \in 0 .. MaxRec
    BY <1>2, <2>2
  <2>4. \A s \in Rest(recs, K, x) \cap S : recs[nth[least]].name <= recs[s].name
    <3> TAKE s \in Rest(recs, K, x) \cap S
    <3>1. PICK j \in 0 .. MaxRec : nth[j] = s
      BY <1>3
    <3>2. s # 0 /\ recs[s].name \in Nat /\ recs[nth[least]].name \in Nat
      BY <1>4, <1>5, <2>3
    <3>3. least <= j
      BY <2>2, <3>1, <3>2
    <3>4. least = j \/ recs[nth[least]].name < recs[nth[j]].name
      BY <1>2, <2>1, <2>2, <2>3, <3>1, <3>2, <3>3
    <3> QED BY <3>1, <3>2, <3>4
  <2> QED BY <1>6, <1>8, <2>3, <2>4 DEF FirstOf, K
<1> QED BY <1>7, <1>8

(* The last sibling leads back to the directory.                             *)
LEMMA LastFromReturns ==
  ASSUME NEW P, Forest(recs, P), NEW p \in Dirs(recs), NEW x \in Kids(recs, P, p)
  PROVE  recs[LastFrom(x)].next = p
<1> DEFINE K == Kids(recs, P, p)
           nth == From(recs, x)
           S == {r \in Ids : NextSibling(recs, r) = 0}
           ends == {k \in 0 .. MaxRec : nth[k] = 0}
<1>1. Steps(recs, K, x, nth) /\ MaxRec \in Nat
  BY FromSteps, MaxRecAssumption
<1>2. /\ \A r \in K : r \in Ids \ {0} /\ recs[r].name \in Nat
      /\ \A r \in K : IF recs[r].islast THEN recs[r].next = p ELSE recs[r].next # 0
  BY KidFacts DEF Linked
<1>3. ends # {} /\ ends \in SUBSET Nat
  BY <1>1, WalkEnds
<1>4. PICK k \in ends : \A j \in ends : k <= j
  <2> HIDE DEF ends
  <2> QED BY <1>3, Least
<1>5. k \in 1 .. MaxRec /\ k - 1 \in 0 .. MaxRec /\ k - 1 \notin ends
  <2>1. nth[0] = x /\ x # 0
    BY <1>1, <1>2 DEF Steps
  <2> QED BY <1>1, <1>4, <2>1
<1>6. nth[k - 1] # 0 /\ NextSibling(recs, nth[k - 1]) = 0
  <2>1. nth[k - 1] # 0 /\ nth[k] = 0
    BY <1>4, <1>5
  <2>2. nth[k] = IF nth[k - 1] = 0 THEN 0 ELSE NextSibling(recs, nth[k - 1])
    BY <1>1, <1>5 DEF Steps
  <2> QED BY <2>1, <2>2
<1>7. nth[k - 1] \in Rest(recs, K, x)
  BY <1>1, <1>5, <1>6, WalkAscends
<1>8. Rest(recs, K, x) \subseteq K
  BY DEF Rest
<1>9. FirstOf(recs, Rest(recs, K, x) \cap S, LastFrom(x))
  BY FirstFromFinds DEF LastFrom
<1> HIDE DEF K, nth
<1>10. nth[k - 1] \in Rest(recs, K, x) \cap S
  BY <1>2, <1>6, <1>7, <1>8
<1>11. LastFrom(x) \in K /\ NextSibling(recs, LastFrom(x)) = 0
  BY <1>8, <1>9, <1>10 DEF FirstOf
<1> QED BY <1>2, <1>11 DEF NextSibling

(* findRecord.                                                              *)
Found(R, K, p, n, f) ==
  \/ f.type = "FR_MATCH" /\ f.id \in K /\ R[f.id].name = n
  \/ f.type = "FR_PARENT" /\ f.id = p /\ \A s \in K : n < R[s].name
  \/ /\ f.type = "FR_PRE" /\ f.id \in K /\ R[f.id].name < n
     /\ \A s \in K : R[s].name # n /\ (R[s].name < n => R[s].name <= R[f.id].name)

LEMMA FindRecordFinds ==
  ASSUME NEW R, NEW P, Forest(R, P), NEW p \in Dirs(R), NEW n \in Nat
  PROVE  Found(R, Kids(R, P, p), p, n, FindRecord(R, [r \in Ids |-> R[r].name], p, n))
<1> DEFINE K == Kids(R, P, p)
           nth == From(R, R[p].sub)
           names == [r \in Ids |-> R[r].name]
           Stop(i) == /\ nth[i] = 0 \/ n <= names[nth[i]]
                      /\ \A j \in 0 .. i - 1 : nth[j] # 0 /\ n > names[nth[j]]
           stop == CHOOSE i \in 0 .. MaxRec : Stop(i)
           f == FindRecord(R, names, p, n)
           stops == {i \in 0 .. MaxRec : nth[i] = 0 \/ n <= names[nth[i]]}
<1>1. /\ FirstOf(R, K, R[p].sub) /\ MaxRec \in Nat
      /\ \A r \in K : r \in Ids \ {0} /\ R[r].name \in Nat
  BY KidFacts, MaxRecAssumption DEF Linked
<1>2. R[p].sub \in K \cup {0} /\ Rest(R, K, R[p].sub) = K
  BY <1>1, RestOfFirst DEF FirstOf
<1>3. Steps(R, K, R[p].sub, nth)
  BY <1>2, FromSteps
<1>4. /\ \A t \in K : \E k \in 0 .. MaxRec : nth[k] = t
      /\ \A i, j \in 0 .. MaxRec : i < j /\ nth[j] # 0 => R[nth[i]].name < R[nth[j]].name
      /\ \E k \in 0 .. MaxRec : nth[k] = 0
      /\ \A k \in 0 .. MaxRec : nth[k] \in K \cup {0}
  <2>1. \A t \in K : \E k \in 0 .. MaxRec : nth[k] = t
    BY <1>2, <1>3, WalkMeets
  <2>2. \A i, j \in 0 .. MaxRec : i < j /\ nth[j] # 0 => R[nth[i]].name < R[nth[j]].name
    BY <1>3, WalkAscends
  <2>3. \E k \in 0 .. MaxRec : nth[k] = 0
    BY <1>3, WalkEnds
  <2> QED BY <1>3, <2>1, <2>2, <2>3 DEF Steps
<1>5. \A r \in K : names[r] = R[r].name
  BY <1>1
<1>6. f = IF nth[stop] # 0 /\ names[nth[stop]] = n
          THEN [id |-> nth[stop], type |-> "FR_MATCH"]
          ELSE IF stop = 0 THEN [id |-> p, type |-> "FR_PARENT"]
                           ELSE [id |-> nth[stop - 1], type |-> "FR_PRE"]
  BY DEF FindRecord, Chain
<1> HIDE DEF K, nth, names, f
<1>7. \E i \in 0 .. MaxRec : Stop(i)
  <2>1. stops # {} /\ stops \in SUBSET Nat
    BY <1>4
  <2>2. PICK i \in stops : \A j \in stops : i <= j
    <3> HIDE DEF stops
    <3> QED BY <2>1, Least
  <2>3. \A j \in 0 .. i - 1 : j \in 0 .. MaxRec /\ j \notin stops
    BY <1>1, <2>2
  <2>4. \A j \in 0 .. i - 1 : nth[j] # 0 /\ n > names[nth[j]]
    <3> TAKE j \in 0 .. i - 1
    <3>1. nth[j] # 0 /\ ~(n <= names[nth[j]])
      BY <2>3
    <3>2. names[nth[j]] \in Nat
      BY <1>1, <1>4, <1>5, <2>3, <3>1
    <3> QED BY <3>1, <3>2
  <2> QED BY <2>2, <2>4
<1>8. stop \in 0 .. MaxRec /\ Stop(stop)
  <2> HIDE DEF Stop
  <2> QED BY <1>7
<1> HIDE DEF stop
<1>9. CASE nth[stop] # 0 /\ names[nth[stop]] = n
  <2>1. nth[stop] \in K
    BY <1>4, <1>8, <1>9
  <2> QED BY <1>5, <1>6, <1>9, <2>1 DEF Found, K, f, names
<1>10. CASE nth[stop] = 0 \/ names[nth[stop]] # n
  <2>1. \A s \in K : (\E j \in 0 .. stop - 1 : nth[j] = s) \/ n < R[s].name
    <3> TAKE s \in K
    <3>1. PICK j \in 0 .. MaxRec : nth[j] = s
      BY <1>4
    <3>2. CASE j < stop
      BY <1>8, <3>1, <3>2
    <3>3. CASE j = stop
      <4>1. s # 0 /\ R[s].name \in Nat /\ names[s] = R[s].name
        BY <1>1, <1>5
      <4> QED BY <1>8, <1>10, <3>1, <3>3, <4>1
    <3>4. CASE stop < j
      <4>1. s # 0 /\ R[s].name \in Nat /\ R[nth[stop]].name < R[s].name
        BY <1>1, <1>4, <1>8, <3>1, <3>4
      <4>2. nth[stop] # 0
        <5>1. nth[stop] = 0 => FALSE
          <6> SUFFICES ASSUME nth[stop] = 0 PROVE FALSE
            OBVIOUS
          <6> DEFINE T == {k \in 0 .. MaxRec : k < stop \/ nth[k] = 0}
          <6>1. 0 \in T
            BY <1>1, <1>8
          <6>2. \A k \in 1 .. MaxRec : k - 1 \in T => k \in T
            <7> TAKE k \in 1 .. MaxRec
            <7> HAVE k - 1 \in T
            <7>1. nth[k] = IF nth[k - 1] = 0 THEN 0 ELSE NextSibling(R, nth[k - 1])
              BY <1>3 DEF Steps
            <7>2. k < stop \/ k = stop \/ nth[k - 1] = 0
              BY <1>8
            <7> QED BY <7>1, <7>2
          <6> HIDE DEF T
          <6>3. j \in T
            BY <1>1, <6>1, <6>2, Induct
          <6> QED BY <3>1, <3>4, <4>1, <6>3, <1>8 DEF T
        <5> QED BY <5>1
      <4>3. nth[stop] \in K /\ n <= names[nth[stop]]
        BY <1>4, <1>8, <4>2
      <4>4. n <= R[nth[stop]].name /\ R[nth[stop]].name \in Nat
        BY <1>1, <1>5, <4>3
      <4> QED BY <4>1, <4>4
    <3> QED BY <1>8, <3>2, <3>3, <3>4
  <2>2. CASE stop = 0
    <3>1. \A s \in K : n < R[s].name
      BY <2>1, <2>2
    <3> QED BY <1>6, <1>10, <2>2, <3>1 DEF Found, K, f, names
  <2>3. CASE stop # 0
    <3>1. stop - 1 \in 0 .. stop - 1 /\ stop - 1 \in 0 .. MaxRec
      BY <1>1, <1>8, <2>3
    <3>2. nth[stop - 1] \in K /\ nth[stop - 1] # 0 /\ n > names[nth[stop - 1]]
      BY <1>4, <1>8, <3>1
    <3>3. R[nth[stop - 1]].name < n
      BY <1>1, <1>5, <3>2
    <3>4. \A s \in K : R[s].name # n /\ (R[s].name < n => R[s].name <= R[nth[stop - 1]].name)
      <4> TAKE s \in K
      <4>0. s # 0 /\ R[s].name \in Nat /\ R[nth[stop - 1]].name \in Nat /\ names[s] = R[s].name
        BY <1>1, <1>5, <3>2
      <4>1. CASE n < R[s].name
        BY <4>0, <4>1
      <4>2. CASE \E j \in 0 .. stop - 1 : nth[j] = s
        <5>1. PICK j \in 0 .. stop - 1 : nth[j] = s
          BY <4>2
        <5>2. n > R[s].name
          BY <1>8, <4>0, <5>1
        <5>3. j = stop - 1 \/ (j < stop - 1 /\ j \in 0 .. MaxRec)
          BY <1>1, <1>8, <3>1
        <5>4. R[s].name <= R[nth[stop - 1]].name
          BY <1>4, <3>1, <3>2, <4>0, <5>1, <5>3
        <5> QED BY <4>0, <5>2, <5>4
      <4> QED BY <2>1, <4>1, <4>2
    <3> QED BY <1>6, <1>10, <2>3, <3>2, <3>3, <3>4 DEF Found, K, f, names
  <2> QED BY <2>2, <2>3
<1> QED BY <1>9, <1>10

-----------------------------------------------------------------------------
(* The records on the way to a path.                                         *)
LEMMA PrefixFacts ==
  ASSUME NEW p \in Seq(Names), NEW i \in 0 .. Len(p)
  PROVE  /\ SubSeq(p, 1, i) \in Seq(Names) /\ Len(SubSeq(p, 1, i)) = i
         /\ \A j \in 1 .. i : SubSeq(p, 1, i)[j] = p[j]
<1>1. Len(p) \in Nat /\ \A j \in 1 .. Len(p) : p[j] \in Names
  BY LenProperties
<1>2. 1 \in Int /\ i \in Int /\ \A j \in 1 .. i : p[j] \in Names
  BY <1>1
<1>3. /\ SubSeq(p, 1, i) \in Seq(Names)
      /\ Len(SubSeq(p, 1, i)) = IF 1 <= i THEN i - 1 + 1 ELSE 0
      /\ \A j \in 1 .. i - 1 + 1 : SubSeq(p, 1, i)[j] = p[1 + j - 1]
  BY <1>2, SubSeqProperties
<1>4. i \in Nat /\ \A j \in 1 .. i : 1 + j - 1 = j
  BY <1>1
<1>5. (IF 1 <= i THEN i - 1 + 1 ELSE 0) = i /\ 1 .. i - 1 + 1 = 1 .. i
  BY <1>4
<1> QED BY <1>3, <1>4, <1>5

LEMMA PrefixOfAppend ==
  ASSUME NEW p \in Seq(Names), NEW n \in Names, NEW i \in 0 .. Len(p)
  PROVE  SubSeq(Append(p, n), 1, i) = SubSeq(p, 1, i)
<1>1. /\ Append(p, n) \in Seq(Names) /\ Len(p) \in Nat /\ Len(Append(p, n)) = Len(p) + 1
      /\ \A j \in 1 .. Len(p) : Append(p, n)[j] = p[j]
  BY AppendPath
<1>2. i \in 0 .. Len(Append(p, n)) /\ \A j \in 1 .. i : j \in 1 .. Len(p)
  BY <1>1
<1>3. /\ SubSeq(Append(p, n), 1, i) \in Seq(Names) /\ Len(SubSeq(Append(p, n), 1, i)) = i
      /\ \A j \in 1 .. i : SubSeq(Append(p, n), 1, i)[j] = Append(p, n)[j]
  BY <1>1, <1>2, PrefixFacts
<1>4. /\ SubSeq(p, 1, i) \in Seq(Names) /\ Len(SubSeq(p, 1, i)) = i
      /\ \A j \in 1 .. i : SubSeq(p, 1, i)[j] = p[j]
  BY PrefixFacts
<1>5. \A j \in 1 .. i : SubSeq(Append(p, n), 1, i)[j] = SubSeq(p, 1, i)[j]
  BY <1>1, <1>2, <1>3, <1>4
<1> QED BY <1>3, <1>4, <1>5, SeqEqual

(* Each record but that of the root directory is in a directory.                *)
LEMMA ParentOf ==
  ASSUME NEW R, NEW P, Forest(R, P), NEW r \in Active(R)
  PROVE  /\ r \in Ids \ {0} /\ P[r] \in Seq(Names) /\ Len(P[r]) \in Nat /\ Len(P[r]) <= Depth
         /\ P[r] = <<>> <=> r = ROOT
         /\ r # ROOT => P[r] \in Paths
         /\ r # ROOT => \E u \in Dirs(R) : ~R[u].isignore /\ r \in Kids(R, P, u)
<1>1. /\ R \in [Ids -> RecordItem] /\ P \in [Active(R) -> AnyPath] /\ 0 \notin Active(R)
      /\ P[ROOT] = <<>> /\ ROOT \in Active(R)
      /\ \A s, t \in Active(R) : P[s] = P[t] => s = t
      /\ \A s \in Active(R) \ {ROOT} :
           R[s].name \in Names /\ \E u \in Dirs(R) : ~R[u].isignore /\ P[s] = Append(P[u], R[s].name)
  BY DEF Forest, Placed, Dirs
<1>2. r \in Ids \ {0}
  BY <1>1 DEF Active
<1>3. P[r] \in Seq(Names) /\ Len(P[r]) <= Depth /\ Len(P[r]) \in Nat
  BY <1>1, PathSets, LenProperties
<1>4. P[r] = <<>> <=> r = ROOT
  BY <1>1
<1>5. r # ROOT => P[r] \in Paths
  BY <1>1, <1>4 DEF AnyPath
<1>6. r # ROOT => \E u \in Dirs(R) : ~R[u].isignore /\ r \in Kids(R, P, u)
  BY <1>1 DEF Kids
<1> QED BY <1>2, <1>3, <1>4, <1>5, <1>6

LEMMA DirsAbove ==
  ASSUME NEW R, NEW P, Forest(R, P), NEW r \in Active(R), NEW i \in 0 .. Len(P[r]) - 1
  PROVE  \E u \in Dirs(R) : ~R[u].isignore /\ P[u] = SubSeq(P[r], 1, i)
<1> DEFINE Up(s, j) == \E u \in Dirs(R) : ~R[u].isignore /\ P[u] = SubSeq(P[s], 1, j)
           T == {k \in 0 .. Depth : \A s \in Active(R) : Len(P[s]) = k => \A j \in 0 .. k - 1 : Up(s, j)}
<1>1. Depth \in Nat
  BY DepthAssumption
<1>2. 0 \in T
  BY <1>1
<1>3. ASSUME NEW k \in 1 .. Depth, k - 1 \in T PROVE k \in T
  <2> SUFFICES ASSUME NEW s \in Active(R), Len(P[s]) = k, NEW j \in 0 .. k - 1 PROVE Up(s, j)
    BY <1>1
  <2>1. s # ROOT
    <3>1. Len(<<>>) = 0 /\ (s = ROOT => P[s] = <<>>)
      BY EmptySeq, ParentOf
    <3> QED BY <1>1, <3>1
  <2>2. PICK u \in Dirs(R) : ~R[u].isignore /\ s \in Kids(R, P, u)
    BY <2>1, ParentOf
  <2>3. /\ P[u] \in Seq(Names) /\ R[s].name \in Names /\ P[s] = Append(P[u], R[s].name)
        /\ Len(P[u]) \in Nat /\ Len(P[s]) = Len(P[u]) + 1 /\ u \in Active(R)
    BY <2>2, KidFacts DEF Dirs
  <2>4. Len(P[u]) = k - 1
    BY <1>1, <2>3
  <2>5. j \in 0 .. Len(P[u])
    BY <1>1, <2>4
  <2>6. SubSeq(P[s], 1, j) = SubSeq(P[u], 1, j)
    BY <2>3, <2>5, PrefixOfAppend
  <2>7. CASE j = k - 1
    <3>1. SubSeq(P[u], 1, j) = P[u]
      BY <2>3, <2>4, <2>7, SubSeqFull
    <3> QED BY <2>2, <2>6, <3>1
  <2>8. CASE j # k - 1
    <3>1. j \in 0 .. (k - 1) - 1
      BY <1>1, <2>8
    <3>2. Up(u, j)
      BY <1>3, <2>3, <2>4, <3>1
    <3> QED BY <2>6, <3>2
  <2> QED BY <2>7, <2>8
<1> HIDE DEF T
<1>4. \A k \in 0 .. Depth : k \in T
  BY <1>1, <1>2, <1>3, Induct
<1>5. Len(P[r]) \in 0 .. Depth
  BY <1>1, ParentOf
<1> QED BY <1>4, <1>5 DEF T

(* RecordAt(p), for any registry.                                            *)
Below1(R, p) ==
  [k \in DOMAIN p |->
     [pid \in Ids |->
        IF pid # 0 /\ R[pid].isdir
        THEN LET found == FindRecord(R, [r \in Ids |-> R[r].name], pid, p[k])
             IN IF found.type = "FR_MATCH" THEN found.id ELSE 0
        ELSE 0]]

At(R, p) == (CHOOSE f : Recursive(f, Len(p), ROOT, Below1(R, p)))[Len(p)]

LEMMA RecordAtIsAt == \A p : RecordAt(p) = At(recs, p)
BY DEF RecordAt, At, Recursive, Below1, NamesNow, NameOf

(* A path leads to the record that is placed there.                           *)
LEMMA AtFinds ==
  ASSUME NEW R, NEW P, Forest(R, P), NEW p \in AnyPath
  PROVE  /\ At(R, p) \in Active(R) \cup {0}
         /\ At(R, p) # 0 => P[At(R, p)] = p
         /\ \A r \in Active(R) : P[r] = p => At(R, p) = r
<1> DEFINE n == Len(p)
           step == Below1(R, p)
           f == CHOOSE g : Recursive(g, n, ROOT, step)
           A(k) == SubSeq(p, 1, k)
<1>1. /\ R \in [Ids -> RecordItem] /\ P \in [Active(R) -> AnyPath] /\ 0 \notin Active(R)
      /\ P[ROOT] = <<>> /\ ROOT \in Active(R) /\ Active(R) \subseteq Ids
      /\ \A s, t \in Active(R) : P[s] = P[t] => s = t
  BY DEF Forest, Placed, Dirs, Active
<1>2. p \in Seq(Names) /\ n \in Nat /\ DOMAIN p = 1 .. n /\ \A k \in 1 .. n : p[k] \in Names /\ p[k] \in Nat
  BY PathSets, LenProperties, NamesAssumption
<1>3. ASSUME NEW k \in 1 .. n, NEW pid \in Dirs(R)
      PROVE  \/ step[k][pid] = 0 /\ \A r \in Kids(R, P, pid) : R[r].name # p[k]
             \/ step[k][pid] \in Kids(R, P, pid) /\ R[step[k][pid]].name = p[k]
  <2> DEFINE found == FindRecord(R, [r \in Ids |-> R[r].name], pid, p[k])
  <2>1. pid \in Ids \ {0} /\ R[pid].isdir
    BY KidFacts
  <2>2. step[k][pid] = IF found.type = "FR_MATCH" THEN found.id ELSE 0
    BY <1>2, <2>1 DEF Below1
  <2>3. Found(R, Kids(R, P, pid), pid, p[k], found)
    BY <1>2, FindRecordFinds
  <2>4. \A r \in Kids(R, P, pid) : R[r].name \in Nat
    BY KidFacts
  <2>5. \A a \in Nat : ~(a < a)
    OBVIOUS
  <2> HIDE DEF found, step
  <2> QED BY <1>2, <2>2, <2>3, <2>4, <2>5 DEF Found
<1>4. ASSUME NEW k \in 1 .. n, NEW pid \in Ids, pid \notin Dirs(R), pid \in Active(R) \cup {0}
      PROVE  step[k][pid] = 0
  <2>1. pid = 0 \/ ~R[pid].isdir
    BY <1>4 DEF Dirs
  <2> QED BY <1>2, <2>1 DEF Below1
<1> DEFINE V == Active(R) \cup {0}
<1>5. \A k \in 1 .. n : \A v \in V : step[k][v] \in V
  <2> TAKE k \in 1 .. n
  <2> TAKE v \in V
  <2>1. v \in Ids
    BY <1>1, MaxRecAssumption DEF Ids
  <2>2. \A u : Kids(R, P, u) \subseteq Active(R)
    BY DEF Kids
  <2> HIDE DEF step
  <2> QED BY <1>3, <1>4, <2>1, <2>2
<1>6. Recursive(f, n, ROOT, step)
  <2> HIDE DEF step, n
  <2>1. Determined(n, V, ROOT, step)
    <3>1. ROOT \in V
      BY <1>1
    <3> HIDE DEF V
    <3> QED BY <1>2, <1>5, <3>1, RecursionExists
  <2> QED BY <2>1 DEF Determined
<1>7. /\ f \in [0 .. n -> V] /\ f[0] = ROOT
      /\ \A k \in 1 .. n : f[k] = step[k][f[k - 1]]
  <2> HIDE DEF step, n, f
  <2>1. Determined(n, V, ROOT, step)
    <3>1. ROOT \in V
      BY <1>1
    <3> HIDE DEF V
    <3> QED BY <1>2, <1>5, <3>1, RecursionExists
  <2> QED BY <1>6, <2>1 DEF Determined
<1> HIDE DEF f, step
<1> DEFINE T == {k \in 0 .. n : /\ f[k] # 0 => P[f[k]] = A(k)
                                /\ \A r \in Active(R) : P[r] = A(k) => f[k] = r}
<1>8. 0 \in T
  <2>1. A(0) = <<>>
    BY SubSeqEmpty
  <2> HIDE DEF A
  <2>2. f[0] = ROOT /\ P[f[0]] = A(0) /\ \A r \in Active(R) : P[r] = A(0) => f[0] = r
    BY <1>1, <1>7, <2>1
  <2>3. 0 \in 0 .. n
    BY <1>2
  <2> QED BY <2>2, <2>3
<1>9. ASSUME NEW k \in 1 .. n, k - 1 \in T PROVE k \in T
  <2>1. /\ A(k - 1) \in Seq(Names) /\ A(k) \in Seq(Names) /\ A(k) # <<>> /\ A(k) = Append(A(k - 1), p[k])
    <3>1. k - 1 \in 0 .. Len(p) /\ k \in 0 .. Len(p) /\ k \in Nat \ {0}
      BY <1>2
    <3>2. /\ A(k - 1) \in Seq(Names) /\ Len(A(k - 1)) = k - 1
          /\ \A j \in 1 .. k - 1 : A(k - 1)[j] = p[j]
      BY <1>2, <3>1, PrefixFacts
    <3>3. /\ A(k) \in Seq(Names) /\ Len(A(k)) = k
          /\ \A j \in 1 .. k : A(k)[j] = p[j]
      BY <1>2, <3>1, PrefixFacts
    <3>4. /\ Append(A(k - 1), p[k]) \in Seq(Names) /\ Len(Append(A(k - 1), p[k])) = k
          /\ Append(A(k - 1), p[k]) # <<>>
          /\ \A j \in 1 .. k : Append(A(k - 1), p[k])[j] = p[j]
      <4> HIDE DEF A
      <4>1. /\ Append(A(k - 1), p[k]) \in Seq(Names) /\ Append(A(k - 1), p[k]) # <<>>
            /\ Len(Append(A(k - 1), p[k])) = k - 1 + 1
            /\ \A j \in 1 .. k - 1 : Append(A(k - 1), p[k])[j] = A(k - 1)[j]
            /\ Append(A(k - 1), p[k])[k - 1 + 1] = p[k]
        BY <1>2, <3>2, AppendProperties
      <4>2. k - 1 + 1 = k /\ \A j \in 1 .. k : j = k \/ j \in 1 .. k - 1
        BY <3>1
      <4> QED BY <3>2, <4>1, <4>2
    <3> HIDE DEF A
    <3>5. \A j \in 1 .. Len(A(k)) : A(k)[j] = Append(A(k - 1), p[k])[j]
      BY <3>3, <3>4
    <3>6. A(k) = Append(A(k - 1), p[k])
      BY <3>3, <3>4, <3>5, SeqEqual
    <3> QED BY <3>2, <3>3, <3>4, <3>6
  <2>2. /\ k - 1 \in 0 .. n /\ f[k - 1] \in V /\ f[k] = step[k][f[k - 1]]
        /\ f[k - 1] # 0 => P[f[k - 1]] = A(k - 1)
        /\ \A r \in Active(R) : P[r] = A(k - 1) => f[k - 1] = r
    BY <1>2, <1>7, <1>9
  <2> HIDE DEF A
  <2>3. \A r \in Active(R) : P[r] = A(k) =>
          f[k - 1] \in Dirs(R) /\ r \in Kids(R, P, f[k - 1]) /\ R[r].name = p[k]
    <3> TAKE r \in Active(R)
    <3> SUFFICES ASSUME P[r] = A(k)
                 PROVE  f[k - 1] \in Dirs(R) /\ r \in Kids(R, P, f[k - 1]) /\ R[r].name = p[k]
      OBVIOUS
    <3>r. P[r] = A(k)
      OBVIOUS
    <3>1. r # ROOT
      BY <1>1, <2>1
    <3>2. PICK u \in Dirs(R) : r \in Kids(R, P, u)
      BY <3>1, ParentOf
    <3>3. P[r] = Append(P[u], R[r].name) /\ P[u] \in Seq(Names) /\ R[r].name \in Names /\ u \in Active(R)
      BY <3>2, KidFacts DEF Dirs
    <3>4. P[u] = A(k - 1) /\ R[r].name = p[k]
      <4>1. Append(A(k - 1), p[k]) = Append(P[u], R[r].name) /\ p[k] \in Names
        BY <1>2, <2>1, <3>3
      <4>2. Parent(A(k)) = A(k - 1) /\ A(k)[Len(A(k))] = p[k]
        BY <2>1, <4>1, AppendPath
      <4>3. Parent(P[r]) = P[u] /\ P[r][Len(P[r])] = R[r].name
        BY <3>3, AppendPath
      <4> QED BY <3>r, <4>2, <4>3
    <3> QED BY <2>2, <3>2, <3>3, <3>4
  <2>4. CASE f[k - 1] \in Dirs(R)
    <3> DEFINE d == f[k - 1]
    <3>1. d # 0 /\ P[d] = A(k - 1)
      BY <2>2, <2>4, KidFacts
    <3>2. \/ f[k] = 0 /\ \A r \in Kids(R, P, d) : R[r].name # p[k]
          \/ f[k] \in Kids(R, P, d) /\ R[f[k]].name = p[k]
      BY <1>3, <2>2, <2>4
    <3>3. f[k] # 0 => f[k] \in Active(R) /\ P[f[k]] = A(k)
      BY <2>1, <3>1, <3>2 DEF Kids
    <3>4. \A r \in Active(R) : P[r] = A(k) => f[k] = r
      <4> TAKE r \in Active(R)
      <4> HAVE P[r] = A(k)
      <4>1. r \in Kids(R, P, d) /\ R[r].name = p[k]
        BY <2>3
      <4>2. f[k] # 0
        <5>1. 0 \notin Kids(R, P, d)
          BY <1>1 DEF Kids
        <5> QED BY <3>2, <4>1, <5>1
      <4> QED BY <1>1, <3>3, <4>2
    <3> QED BY <3>3, <3>4
  <2>5. CASE f[k - 1] \notin Dirs(R)
    <3>1. f[k - 1] \in Ids
      BY <1>1, <2>2, MaxRecAssumption DEF Ids
    <3>2. f[k] = 0
      BY <1>4, <2>2, <2>5, <3>1
    <3> QED BY <2>3, <2>5, <3>2
  <2> QED BY <2>4, <2>5
<1> HIDE DEF T
<1>10. n \in T
  <2>1. \A k \in 1 .. n : k - 1 \in T => k \in T
    BY <1>9
  <2>2. \A k \in 0 .. n : k \in T
    BY <1>2, <1>8, <2>1, Induct
  <2> QED BY <1>2, <2>2
<1>11. A(n) = p
  BY <1>2, SubSeqFull
<1>12. At(R, p) = f[n]
  BY DEF At, f, step
<1>13. f[n] \in V
  BY <1>2, <1>7
<1> QED BY <1>10, <1>11, <1>12, <1>13 DEF T

-----------------------------------------------------------------------------
(***************************************************************************)
(* What a change of the registry does to the tree.                            *)
(***************************************************************************)
LEMMA LinkedSame ==
  ASSUME NEW R, NEW S, NEW K, NEW p, Linked(R, K, p), S[p].sub = R[p].sub,
         \A r \in K : S[r].name = R[r].name /\ S[r].next = R[r].next /\ S[r].islast = R[r].islast
  PROVE  Linked(S, K, p)
<1>1. \A r \in K : Greater(S, K, r) = Greater(R, K, r) /\ NextSibling(S, r) = NextSibling(R, r)
  BY DEF Greater, NextSibling
<1>2. \A L, x : L \subseteq K /\ FirstOf(R, L, x) => FirstOf(S, L, x)
  BY DEF FirstOf
<1>3. \A r \in K : Greater(R, K, r) \subseteq K
  BY DEF Greater
<1> QED BY <1>1, <1>2, <1>3 DEF Linked

(* rid is linked in behind f.id, which is p itself for the first place.         *)
Inserted(R, S, K, p, n, f, rid) ==
  /\ \A s \in K : S[s].name = R[s].name
  /\ S[rid].name = n
  /\ \A s \in K \ {f.id} : S[s].next = R[s].next /\ S[s].islast = R[s].islast
  /\ IF f.id = p
     THEN /\ S[p].sub = rid
          /\ S[rid].next = (IF R[p].sub = 0 THEN p ELSE R[p].sub)
          /\ S[rid].islast = (R[p].sub = 0)
     ELSE /\ S[p].sub = R[p].sub /\ S[f.id].next = rid /\ S[f.id].islast = FALSE
          /\ S[rid].next = R[f.id].next /\ S[rid].islast = R[f.id].islast

LEMMA InsertLinked ==
  ASSUME NEW R, NEW S, NEW K, NEW p, NEW rid, NEW n \in Nat, NEW f,
         Linked(R, K, p), Found(R, K, p, n, f), f.type # "FR_MATCH",
         Inserted(R, S, K, p, n, f, rid),
         rid \notin K \cup {p, 0}, p \notin K \cup {0}, 0 \notin K, \A s \in K : R[s].name \in Nat,
         \A r, s \in K : R[r].name = R[s].name => r = s
  PROVE  Linked(S, K \cup {rid}, p)
<1> DEFINE pre == f.id
<1>i. /\ \A s \in K : S[s].name = R[s].name
      /\ S[rid].name = n
      /\ \A s \in K \ {pre} : S[s].next = R[s].next /\ S[s].islast = R[s].islast
      /\ IF pre = p
         THEN /\ S[p].sub = rid
              /\ S[rid].next = (IF R[p].sub = 0 THEN p ELSE R[p].sub)
              /\ S[rid].islast = (R[p].sub = 0)
         ELSE /\ S[p].sub = R[p].sub /\ S[pre].next = rid /\ S[pre].islast = FALSE
              /\ S[rid].next = R[pre].next /\ S[rid].islast = R[pre].islast
  BY DEF Inserted
<1> USE <1>i
<1> DEFINE L == K \cup {rid}
<1>0. /\ FirstOf(R, K, R[p].sub)
      /\ \A r \in K : /\ IF R[r].islast THEN R[r].next = p ELSE R[r].next # 0
                      /\ FirstOf(R, Greater(R, K, r), NextSibling(R, r))
  BY DEF Linked
<1>f. \A G, x : G \subseteq K /\ FirstOf(R, G, x) => FirstOf(S, G, x)
  BY DEF FirstOf
<1>1. CASE pre = p
  <2>1. /\ S[p].sub = rid /\ S[rid].islast = (R[p].sub = 0)
        /\ S[rid].next = IF R[p].sub = 0 THEN p ELSE R[p].sub
    BY <1>1
  <2>2. \A s \in K : n < R[s].name
    BY <1>1 DEF Found
  <2>3. FirstOf(S, L, S[p].sub)
    BY <2>1, <2>2 DEF FirstOf
  <2>4. \A r \in K : /\ S[r].next = R[r].next /\ S[r].islast = R[r].islast
                     /\ Greater(S, L, r) = Greater(R, K, r) /\ Greater(R, K, r) \subseteq K
    BY <1>1, <2>2 DEF Greater
  <2>5. \A r \in K : FirstOf(S, Greater(S, L, r), NextSibling(S, r))
    <3>1. \A r \in K : NextSibling(S, r) = NextSibling(R, r)
      BY <2>4 DEF NextSibling
    <3> QED BY <1>0, <1>f, <2>4, <3>1
  <2>6. Greater(S, L, rid) = K
    BY <2>2 DEF Greater
  <2>7. /\ IF S[rid].islast THEN S[rid].next = p ELSE S[rid].next # 0
        /\ FirstOf(S, Greater(S, L, rid), NextSibling(S, rid))
    <3>1. CASE R[p].sub = 0
      <4>1. K = {}
        BY <1>0, <3>1 DEF FirstOf
      <4> QED BY <2>1, <2>6, <3>1, <4>1 DEF FirstOf, NextSibling
    <3>2. CASE R[p].sub # 0
      <4>1. S[rid].next = R[p].sub /\ NextSibling(S, rid) = R[p].sub
        BY <2>1, <3>2 DEF NextSibling
      <4>2. S[rid].islast = FALSE
        BY <2>1, <3>2
      <4> QED BY <1>0, <1>f, <2>6, <3>2, <4>1, <4>2
    <3> QED BY <3>1, <3>2
  <2> QED BY <1>0, <2>3, <2>4, <2>5, <2>7 DEF Linked
<1>2. CASE pre # p
  <2>1. /\ S[p].sub = R[p].sub /\ S[pre].next = rid /\ S[pre].islast = FALSE
        /\ S[rid].next = R[pre].next /\ S[rid].islast = R[pre].islast
    BY <1>2
  <2>2. /\ pre \in K /\ R[pre].name < n
        /\ \A s \in K : R[s].name # n /\ (R[s].name < n => R[s].name <= R[pre].name)
    BY <1>2 DEF Found
  <2>3. FirstOf(S, L, S[p].sub)
    <3>1. R[p].sub \in K /\ \A s \in K : R[R[p].sub].name <= R[s].name
      BY <1>0, <2>2 DEF FirstOf
    <3>2. R[R[p].sub].name <= n
      <4>1. R[R[p].sub].name \in Nat /\ R[pre].name \in Nat /\ R[R[p].sub].name <= R[pre].name
        BY <2>2, <3>1
      <4> QED BY <2>2, <4>1
    <3> QED BY <2>1, <3>1, <3>2 DEF FirstOf
  <2>4. ASSUME NEW r \in K, r # pre
        PROVE  FirstOf(S, Greater(S, L, r), NextSibling(S, r))
    <3>1. NextSibling(S, r) = NextSibling(R, r) /\ FirstOf(R, Greater(R, K, r), NextSibling(R, r))
      BY <1>0, <2>4 DEF NextSibling
    <3>2. CASE n < R[r].name
      <4>1. Greater(S, L, r) = Greater(R, K, r) /\ Greater(R, K, r) \subseteq K
        BY <3>2 DEF Greater
      <4> QED BY <1>f, <3>1, <4>1
    <3>3. CASE R[r].name < n
      <4>1. R[r].name < R[pre].name \/ R[r].name = R[pre].name
        <5>1. R[r].name <= R[pre].name /\ R[r].name \in Nat /\ R[pre].name \in Nat
          BY <2>2, <3>3
        <5> QED BY <5>1
      <4>2. CASE R[r].name < R[pre].name
        <5>1. pre \in Greater(R, K, r)
          BY <2>2, <4>2 DEF Greater
        <5>2. NextSibling(R, r) \in Greater(R, K, r) /\ R[NextSibling(R, r)].name <= R[pre].name
              /\ \A s \in Greater(R, K, r) : R[NextSibling(R, r)].name <= R[s].name
          BY <3>1, <5>1 DEF FirstOf
        <5>3. NextSibling(R, r) \in K
          BY <5>2 DEF Greater
        <5>4. R[NextSibling(R, r)].name <= n
          <6>1. R[NextSibling(R, r)].name \in Nat /\ R[pre].name \in Nat
            BY <2>2, <5>3
          <6> QED BY <2>2, <5>2, <6>1
        <5>5. Greater(S, L, r) = Greater(R, K, r) \cup {rid}
          BY <3>3 DEF Greater
        <5>6. \A s \in Greater(R, K, r) : s \in K
          BY DEF Greater
        <5> QED BY <3>1, <5>2, <5>3, <5>4, <5>5, <5>6 DEF FirstOf
      <4>3. CASE R[r].name = R[pre].name
        BY <2>2, <2>4, <4>3
      <4> QED BY <4>1, <4>2, <4>3
    <3>4. R[r].name \in Nat /\ R[r].name # n
      BY <2>2
    <3> QED BY <3>2, <3>3, <3>4
  <2>5. FirstOf(S, Greater(S, L, pre), NextSibling(S, pre))
    <3>1. NextSibling(S, pre) = rid
      BY <2>1 DEF NextSibling
    <3>2. \A s \in L : s \in Greater(S, L, pre) => n <= S[s].name
      <4> TAKE s \in L
      <4> HAVE s \in Greater(S, L, pre)
      <4>1. CASE s = rid
        BY <4>1
      <4>2. CASE s \in K
        <5>1. R[pre].name < R[s].name /\ R[s].name \in Nat /\ R[pre].name \in Nat /\ S[s].name = R[s].name
          BY <2>2, <4>2 DEF Greater
        <5>2. ~(R[s].name < n)
          BY <2>2, <4>2, <5>1
        <5> QED BY <5>1, <5>2
      <4> QED BY <4>1, <4>2
    <3>3. rid \in Greater(S, L, pre) /\ Greater(S, L, pre) \subseteq L
      BY <2>2 DEF Greater
    <3> QED BY <3>1, <3>2, <3>3 DEF FirstOf
  <2>6. /\ IF S[rid].islast THEN S[rid].next = p ELSE S[rid].next # 0
        /\ FirstOf(S, Greater(S, L, rid), NextSibling(S, rid))
    <3>1. NextSibling(S, rid) = NextSibling(R, pre)
      BY <2>1 DEF NextSibling
    <3>2. Greater(S, L, rid) = Greater(R, K, pre)
      <4>1. \A s \in K : n < R[s].name <=> R[pre].name < R[s].name
        <5> TAKE s \in K
        <5>1. R[s].name \in Nat /\ R[pre].name \in Nat /\ R[s].name # n
              /\ (R[s].name < n => R[s].name <= R[pre].name) /\ R[pre].name < n
          BY <2>2
        <5> QED BY <5>1
      <4>2. ~(n < n)
        OBVIOUS
      <4> QED BY <4>1, <4>2 DEF Greater
    <3>3. Greater(R, K, pre) \subseteq K
      BY DEF Greater
    <3>4. FirstOf(S, Greater(S, L, rid), NextSibling(S, rid))
      BY <1>0, <1>f, <2>2, <3>1, <3>2, <3>3
    <3>5. IF R[pre].islast THEN R[pre].next = p ELSE R[pre].next # 0
      BY <1>0, <2>2
    <3> QED BY <2>1, <3>4, <3>5
  <2>7. \A r \in K \ {pre} : IF S[r].islast THEN S[r].next = p ELSE S[r].next # 0
    BY <1>0
  <2> QED BY <1>2, <2>1, <2>2, <2>3, <2>4, <2>5, <2>6, <2>7 DEF Linked
<1> QED BY <1>1, <1>2

LEMMA RemoveLinked ==
  ASSUME NEW R, NEW S, NEW K, NEW p, NEW pre, NEW rid \in K,
         Linked(R, K, p), p \notin K \cup {0}, 0 \notin K, \A s \in K : R[s].name \in Nat,
         \A r, s \in K : R[r].name = R[s].name => r = s,
         \A s \in K \ {rid} : S[s].name = R[s].name,
         \A s \in K \ {pre, rid} : S[s].next = R[s].next /\ S[s].islast = R[s].islast,
         IF pre = p
         THEN R[p].sub = rid /\ S[p].sub = NextSibling(R, rid)
         ELSE /\ pre \in K /\ NextSibling(R, pre) = rid
              /\ S[p].sub = R[p].sub /\ S[pre].next = R[rid].next /\ S[pre].islast = R[rid].islast
  PROVE  Linked(S, K \ {rid}, p)
<1> DEFINE L == K \ {rid}
<1>0. /\ FirstOf(R, K, R[p].sub)
      /\ \A r \in K : /\ IF R[r].islast THEN R[r].next = p ELSE R[r].next # 0
                      /\ FirstOf(R, Greater(R, K, r), NextSibling(R, r))
  BY DEF Linked
<1>f. \A G, x : G \subseteq L /\ FirstOf(R, G, x) => FirstOf(S, G, x)
  BY DEF FirstOf
<1>l. \A r, s \in K : r # s => R[r].name < R[s].name \/ R[s].name < R[r].name
  <2> TAKE r, s \in K
  <2>1. R[r].name \in Nat /\ R[s].name \in Nat /\ (R[r].name = R[s].name => r = s)
    OBVIOUS
  <2> QED BY <2>1
<1>a. \A r, s \in K : ~(R[r].name < R[s].name /\ R[s].name <= R[r].name)
  <2> TAKE r, s \in K
  <2>1. R[r].name \in Nat /\ R[s].name \in Nat
    OBVIOUS
  <2> QED BY <2>1
<1>g. \A r \in L : Greater(S, L, r) = Greater(R, K, r) \ {rid} /\ Greater(R, K, r) \ {rid} \subseteq L
  BY DEF Greater
<1>1. CASE pre = p
  <2>1. R[p].sub = rid /\ S[p].sub = NextSibling(R, rid)
    BY <1>1
  <2>2. \A s \in K : R[rid].name <= R[s].name
    BY <1>0, <2>1 DEF FirstOf
  <2>3. Greater(R, K, rid) = L
    BY <1>a, <1>l, <2>2 DEF Greater
  <2>4. FirstOf(S, L, S[p].sub)
    BY <1>0, <1>f, <2>1, <2>3
  <2>5. \A r \in L : rid \notin Greater(R, K, r)
    BY <1>a, <2>2 DEF Greater
  <2>6. \A r \in L : NextSibling(S, r) = NextSibling(R, r) /\ S[r].next = R[r].next /\ S[r].islast = R[r].islast
    BY <1>1 DEF NextSibling
  <2>7. \A r \in L : FirstOf(S, Greater(S, L, r), NextSibling(S, r))
    <3> TAKE r \in L
    <3>1. Greater(S, L, r) = Greater(R, K, r) /\ Greater(R, K, r) \subseteq L
      <4>1. Greater(R, K, r) \ {rid} = Greater(R, K, r)
        BY <2>5
      <4> QED BY <1>g, <4>1
    <3> QED BY <1>0, <1>f, <2>6, <3>1
  <2> QED BY <1>0, <2>4, <2>6, <2>7 DEF Linked
<1>2. CASE pre # p
  <2>1. /\ pre \in K /\ NextSibling(R, pre) = rid /\ rid # 0
        /\ S[p].sub = R[p].sub /\ S[pre].next = R[rid].next /\ S[pre].islast = R[rid].islast
    BY <1>2
  <2>2. /\ rid \in Greater(R, K, pre)
        /\ \A s \in Greater(R, K, pre) : R[rid].name <= R[s].name
    BY <1>0, <2>1 DEF FirstOf
  <2>3. R[pre].name < R[rid].name /\ pre # rid /\ pre \in L
    BY <1>a, <2>1, <2>2 DEF Greater
  <2>4. FirstOf(S, L, S[p].sub)
    <3>1. R[p].sub \in K /\ \A s \in K : R[R[p].sub].name <= R[s].name
      BY <1>0 DEF FirstOf
    <3>2. R[p].sub # rid
      BY <1>a, <2>1, <2>3, <3>1
    <3> QED BY <2>1, <3>1, <3>2 DEF FirstOf
  <2>5. FirstOf(S, Greater(S, L, pre), NextSibling(S, pre))
    <3>1. NextSibling(S, pre) = NextSibling(R, rid)
      BY <2>1 DEF NextSibling
    <3>2. Greater(R, K, pre) \ {rid} = Greater(R, K, rid)
      <4>1. \A s \in K : R[rid].name < R[s].name => s # rid /\ R[pre].name < R[s].name
        <5> TAKE s \in K
        <5>1. R[rid].name \in Nat /\ R[s].name \in Nat /\ R[pre].name \in Nat
          BY <2>1
        <5> QED BY <2>3, <5>1
      <4>2. \A s \in K : R[pre].name < R[s].name /\ s # rid => R[rid].name < R[s].name
        BY <1>a, <1>l, <2>2 DEF Greater
      <4> QED BY <4>1, <4>2 DEF Greater
    <3>3. Greater(S, L, pre) = Greater(R, K, rid) /\ Greater(R, K, rid) \subseteq L
      BY <1>g, <2>3, <3>2
    <3> QED BY <1>0, <1>f, <3>1, <3>3
  <2>6. ASSUME NEW r \in L, r # pre
        PROVE  FirstOf(S, Greater(S, L, r), NextSibling(S, r))
    <3>1. NextSibling(S, r) = NextSibling(R, r) /\ FirstOf(R, Greater(R, K, r), NextSibling(R, r))
      BY <1>0, <2>6 DEF NextSibling
    <3>2. NextSibling(R, r) # rid
      <4> SUFFICES ASSUME NextSibling(R, r) = rid PROVE FALSE
        OBVIOUS
      <4>1. rid \in Greater(R, K, r) /\ \A s \in Greater(R, K, r) : R[rid].name <= R[s].name
        BY <2>1, <3>1 DEF FirstOf
      <4>2. CASE R[r].name < R[pre].name
        BY <1>a, <2>1, <2>3, <4>1, <4>2 DEF Greater
      <4>3. CASE R[pre].name < R[r].name
        BY <1>a, <2>2, <4>1, <4>3 DEF Greater
      <4> QED BY <1>l, <2>1, <2>6, <4>2, <4>3
    <3>3. FirstOf(R, Greater(R, K, r) \ {rid}, NextSibling(R, r))
      BY <3>1, <3>2, <2>6, <1>0, <1>l DEF FirstOf, Greater
    <3> QED BY <1>f, <1>g, <3>1, <3>3
  <2>7. \A r \in L \ {pre} : S[r].next = R[r].next /\ S[r].islast = R[r].islast
    OBVIOUS
  <2>8. \A r \in L : IF S[r].islast THEN S[r].next = p ELSE S[r].next # 0
    BY <1>0, <2>1, <2>7
  <2> QED BY <2>4, <2>5, <2>6, <2>8 DEF Linked
<1> QED BY <1>1, <1>2

(* A record has one place.                                                  *)
LEMMA OneParent ==
  ASSUME NEW R, NEW P, Forest(R, P), NEW p \in Dirs(R), NEW q \in Dirs(R), p # q
  PROVE  Kids(R, P, p) \cap Kids(R, P, q) = {}
<1> SUFFICES ASSUME NEW r \in Kids(R, P, p), r \in Kids(R, P, q) PROVE FALSE
  OBVIOUS
<1>1. Parent(P[r]) = P[p]
  BY KidFacts
<1>2. Parent(P[r]) = P[q]
  BY KidFacts
<1>3. p \in Active(R) /\ q \in Active(R) /\ P[p] = P[q]
  BY <1>1, <1>2 DEF Dirs
<1> QED BY <1>3 DEF Forest, Placed

(* A new record.                                                            *)
Extended(R, P, rid, q) == [r \in Active(R) \cup {rid} |-> IF r = rid THEN q ELSE P[r]]

Added(R, S, p, n, f, rid) ==
  /\ S[rid].isactive /\ S[rid].name = n /\ (S[rid].isdir => S[rid].sub = 0)
  /\ \A r \in Ids \ {rid} : /\ S[r].name = R[r].name /\ S[r].isdir = R[r].isdir
                            /\ S[r].isactive = R[r].isactive /\ S[r].isignore = R[r].isignore
  /\ \A r \in Active(R) \ {f.id} : S[r].next = R[r].next /\ S[r].islast = R[r].islast
  /\ \A r \in Active(R) \ {p} : S[r].sub = R[r].sub
  /\ IF f.id = p
     THEN /\ S[p].sub = rid
          /\ S[rid].next = (IF R[p].sub = 0 THEN p ELSE R[p].sub)
          /\ S[rid].islast = (R[p].sub = 0)
          /\ S[p].next = R[p].next /\ S[p].islast = R[p].islast
     ELSE /\ S[p].sub = R[p].sub /\ S[f.id].next = rid /\ S[f.id].islast = FALSE
          /\ S[rid].next = R[f.id].next /\ S[rid].islast = R[f.id].islast

LEMMA InsertForest ==
  ASSUME NEW R, NEW P, Forest(R, P), NEW p \in Dirs(R), ~R[p].isignore, Len(P[p]) < Depth,
         NEW n \in Names, NEW f, Found(R, Kids(R, P, p), p, n, f), f.type # "FR_MATCH",
         NEW rid \in Ids \ {0}, rid \notin Active(R), NEW S \in [Ids -> RecordItem],
         Added(R, S, p, n, f, rid)
  PROVE  /\ Active(S) = Active(R) \cup {rid}
         /\ Forest(S, Extended(R, P, rid, Append(P[p], n)))
<1> USE DEF Added
<1> DEFINE q == Append(P[p], n)
           Q == Extended(R, P, rid, q)
           K(d) == Kids(R, P, d)
<1>1. /\ R \in [Ids -> RecordItem] /\ P \in [Active(R) -> AnyPath] /\ 0 \notin Active(R)
      /\ P[ROOT] = <<>> /\ ROOT \in Dirs(R) /\ ~R[ROOT].isignore
      /\ Active(R) \subseteq Ids /\ Dirs(R) \subseteq Active(R)
      /\ \A s, t \in Active(R) : P[s] = P[t] => s = t
      /\ \A d \in Dirs(R) : Linked(R, K(d), d)
      /\ \A r \in Active(R) \ {ROOT} :
           R[r].name \in Names /\ \E u \in Dirs(R) : ~R[u].isignore /\ P[r] = Append(P[u], R[r].name)
  BY DEF Forest, Placed, Dirs, Active
<1>2. /\ P[p] \in Seq(Names) /\ p \in Active(R) /\ p \in Ids \ {0} /\ Len(P[p]) \in Nat
      /\ n \in Nat /\ rid # p /\ rid # ROOT
      /\ \A r \in K(p) : r \in Active(R) /\ r \in Ids \ {0} /\ r # p /\ R[r].name \in Nat
      /\ \A r, s \in K(p) : R[r].name = R[s].name => r = s
      /\ Linked(R, K(p), p)
  BY <1>1, KidFacts, NamesAssumption
<1>3. q \in Paths /\ q \in AnyPath /\ q # <<>> /\ Parent(q) = P[p] /\ q[Len(q)] = n /\ Len(q) = Len(P[p]) + 1
  <2>1. /\ q \in Seq(Names) /\ q # <<>> /\ Len(q) = Len(P[p]) + 1 /\ Parent(q) = P[p] /\ q[Len(q)] = n
    BY <1>2, AppendPath
  <2>2. Len(q) \in 1 .. Depth
    BY <1>2, <2>1, DepthAssumption
  <2> QED BY <2>1, <2>2, PathSets DEF AnyPath
<1>4. f.id \in K(p) \cup {p}
  BY DEF Found
<1>5. f.id \in Active(R) /\ f.id # rid
  BY <1>2, <1>4
<1>6. Active(S) = Active(R) \cup {rid}
  BY DEF Active
<1>7. Dirs(S) = Dirs(R) \cup IF S[rid].isdir THEN {rid} ELSE {}
  BY <1>1, <1>6 DEF Dirs
<1>8. /\ \A r \in Active(R) : Q[r] = P[r] /\ r # rid
      /\ Q[rid] = q /\ Q \in [Active(S) -> AnyPath]
  <2> HIDE DEF q
  <2> QED BY <1>1, <1>3, <1>6 DEF Extended
<1> HIDE DEF Q
<1>9. \A r \in Active(R) : P[r] # q
  <2> SUFFICES ASSUME NEW r \in Active(R), P[r] = q PROVE FALSE
    OBVIOUS
  <2>1. r # ROOT
    BY <1>1, <1>3
  <2>2. PICK u \in Dirs(R) : r \in K(u)
    BY <2>1, ParentOf
  <2>3. P[u] \in Seq(Names) /\ R[r].name \in Names /\ P[r] = Append(P[u], R[r].name) /\ u \in Active(R)
    BY <1>1, <2>2, KidFacts, SMTT(60)
  <2>4. P[u] = Parent(P[r]) /\ R[r].name = P[r][Len(P[r])]
    BY <2>3, AppendPath
  <2>5. u = p /\ R[r].name = n
    BY <1>1, <1>2, <1>3, <2>3, <2>4
  <2>6. ~(n < n)
    BY <1>2
  <2> QED BY <2>2, <2>5, <2>6 DEF Found
<1>10. Placed(S, Q)
  <2>1. \A r, s \in Active(S) : Q[r] = Q[s] => r = s
    BY <1>1, <1>6, <1>8, <1>9, SMTT(60)
  <2>2. 0 \notin Active(S) /\ ROOT \in Dirs(S) /\ ~S[ROOT].isignore /\ Q[ROOT] = <<>>
    BY <1>1, <1>2, <1>6, <1>7, <1>8
  <2>3. ASSUME NEW r \in Active(S) \ {ROOT}
        PROVE  /\ S[r].name \in Names
               /\ \E u \in Dirs(S) : ~S[u].isignore /\ Q[r] = Append(Q[u], S[r].name)
    <3>1. CASE r = rid
      <4>1. Q[p] = P[p] /\ p \in Dirs(S) /\ ~S[p].isignore
        BY <1>1, <1>2, <1>7, <1>8
      <4> QED BY <1>8, <3>1, <4>1
    <3>2. CASE r # rid
      <4>1. r \in Active(R) \ {ROOT} /\ S[r].name = R[r].name
        BY <1>1, <1>6, <3>2
      <4>2. PICK u \in Dirs(R) : ~R[u].isignore /\ P[r] = Append(P[u], R[r].name)
        BY <1>1, <4>1
      <4>3. u \in Active(R) /\ u \in Dirs(S) /\ ~S[u].isignore /\ Q[u] = P[u] /\ Q[r] = P[r]
        BY <1>1, <1>7, <1>8, <4>1, <4>2
      <4>4. R[r].name \in Names
        BY <1>1, <4>1
      <4> QED BY <4>1, <4>2, <4>3, <4>4
    <3> QED BY <3>1, <3>2
  <2> QED BY <1>8, <2>1, <2>2, <2>3 DEF Placed
<1>11. Kids(S, Q, p) = K(p) \cup {rid}
  <2>1. \A r \in Active(R) : r \in Kids(S, Q, p) <=> r \in K(p)
    BY <1>1, <1>2, <1>6, <1>8 DEF Kids
  <2>2. rid \in Kids(S, Q, p)
    BY <1>2, <1>6, <1>8 DEF Kids
  <2>3. Kids(S, Q, p) \subseteq Active(R) \cup {rid} /\ K(p) \subseteq Active(R)
    BY <1>6 DEF Kids
  <2> QED BY <2>1, <2>2, <2>3
<1>12. ASSUME NEW d \in Dirs(R), d # p PROVE Kids(S, Q, d) = K(d)
  <2>1. \A r \in Active(R) : r \in Kids(S, Q, d) <=> r \in K(d)
    BY <1>1, <1>6, <1>8 DEF Kids
  <2>2. rid \notin Kids(S, Q, d)
    <3> SUFFICES ASSUME q = Append(P[d], n) PROVE FALSE
      BY <1>1, <1>8 DEF Kids
    <3>1. P[d] \in Seq(Names) /\ d \in Active(R)
      BY <1>1, KidFacts
    <3>2. Parent(q) = P[d]
      BY <3>1, AppendPath
    <3>3. P[d] = P[p] /\ p \in Active(R)
      BY <1>2, <1>3, <3>2
    <3> HIDE DEF q
    <3> QED BY <1>1, <1>12, <3>1, <3>3
  <2>3. Kids(S, Q, d) \subseteq Active(R) \cup {rid} /\ K(d) \subseteq Active(R)
    BY <1>6 DEF Kids
  <2> QED BY <2>1, <2>2, <2>3, ZenonT(60)
<1>13. S[rid].isdir => Kids(S, Q, rid) = {}
  <2> SUFFICES ASSUME NEW r \in Active(S), Q[r] = Append(q, S[r].name) PROVE FALSE
    BY <1>8 DEF Kids
  <2>1. r # ROOT
    <3>1. Append(q, S[r].name) # <<>>
      <4>1. q \in Seq(Names) /\ S[r].name \in Nat /\ q \in Seq(Nat)
        <5>1. q \in Seq(Names)
          BY <1>3, PathSets
        <5>2. S[r].name \in Nat
          BY <1>1, <1>6 DEF RecordItem
        <5> QED BY <5>1, <5>2, NamesAssumption, SeqMonotonic
      <4> HIDE DEF q
      <4> QED BY <4>1, AppendProperties
    <3> QED BY <1>1, <1>8, <3>1
  <2>2. PICK u \in Dirs(S) : Q[r] = Append(Q[u], S[r].name)
    BY <1>10, <2>1, ZenonT(60) DEF Placed
  <2>3. S[r].name \in Names /\ Q[u] \in Seq(Names) /\ q \in Seq(Names) /\ u \in Active(S)
    BY <1>3, <1>8, <1>10, <2>1, PathSets DEF Placed, Dirs
  <2>4. Q[u] = q
    <3>1. Parent(Q[r]) = Q[u]
      BY <2>2, <2>3, AppendPath
    <3>2. Parent(Q[r]) = q
      <4> HIDE DEF q
      <4> QED BY <2>3, AppendPath
    <3> QED BY <3>1, <3>2
  <2>5. u = rid
    BY <1>6, <1>8, <1>9, <2>3, <2>4
  <2>6. r # rid
    <3>1. Len(Append(q, S[r].name)) = Len(q) + 1 /\ Len(q) \in Nat
      <4> HIDE DEF q
      <4> QED BY <2>3, AppendPath
    <3> QED BY <1>8, <3>1
  <2>7. r \in Active(R) \ {ROOT}
    BY <1>6, <2>1, <2>6
  <2>8. PICK v \in Dirs(R) : P[r] = Append(P[v], R[r].name)
    BY <1>1, <2>7
  <2>9. P[v] \in Seq(Names) /\ v \in Active(R) /\ R[r].name \in Names
    BY <1>1, <2>7, KidFacts
  <2>10. P[v] = q
    <3>1. Parent(P[r]) = P[v]
      BY <2>8, <2>9, AppendPath
    <3>2. Parent(P[r]) = q
      <4>1. P[r] = Append(q, S[r].name)
        BY <1>8, <2>7
      <4> HIDE DEF q
      <4> QED BY <2>3, <4>1, AppendPath
    <3> QED BY <3>1, <3>2
  <2> QED BY <1>9, <2>9, <2>10
<1>14. Linked(S, K(p) \cup {rid}, p)
  <2> DEFINE KP == K(p)
  <2>1. /\ rid \notin KP \cup {p, 0} /\ p \notin KP \cup {0} /\ 0 \notin KP
        /\ \A s \in KP : R[s].name \in Nat
        /\ \A r, s \in KP : R[r].name = R[s].name => r = s
    BY <1>1, <1>2
  <2>2. \A s \in KP : s \in Active(R) /\ s \in Ids \ {rid}
    BY <1>1, <1>2
  <2>3. Inserted(R, S, KP, p, n, f, rid)
    <3> HIDE DEF KP
    <3> QED BY <2>2 DEF Inserted
  <2>4. Linked(R, KP, p) /\ Found(R, KP, p, n, f) /\ n \in Nat
    BY <1>2
  <2> HIDE DEF KP, K
  <2>5. Linked(S, KP \cup {rid}, p)
    BY <2>1, <2>3, <2>4, InsertLinked
  <2> QED BY <2>5 DEF KP
<1>15. ASSUME NEW d \in Dirs(S) PROVE Linked(S, Kids(S, Q, d), d)
  <2>1. CASE d = p
    BY <1>11, <1>14, <2>1
  <2>2. CASE d = rid
    <3>1. S[rid].isdir /\ S[rid].sub = 0
      BY <2>2 DEF Dirs
    <3> QED BY <1>13, <2>2, <3>1 DEF Linked, FirstOf
  <2>3. CASE d # p /\ d # rid
    <3>1. d \in Dirs(R) /\ d \in Active(R) \ {p}
      BY <1>1, <1>7, <2>3
    <3>2. Linked(R, K(d), d) /\ S[d].sub = R[d].sub
      BY <1>1, <3>1
    <3>3. \A r \in K(d) : /\ r \in Active(R) /\ S[r].name = R[r].name
                          /\ S[r].next = R[r].next /\ S[r].islast = R[r].islast
      <4> TAKE r \in K(d)
      <4>1. r \in Active(R) /\ r \in Ids \ {rid}
        BY <1>1 DEF Kids
      <4>2. r \notin K(p)
        BY <2>3, <3>1, OneParent
      <4>3. CASE f.id = p
        BY <4>1, <4>3
      <4>4. CASE f.id # p
        BY <1>4, <4>1, <4>2, <4>4
      <4> QED BY <4>1, <4>3, <4>4
    <3>4. Linked(S, K(d), d)
      <4> HIDE DEF K
      <4> QED BY <3>2, <3>3, LinkedSame
    <3> QED BY <1>12, <2>3, <3>1, <3>4
  <2> QED BY <2>1, <2>2, <2>3
<1>16. Forest(S, Q)
  BY <1>10, <1>15 DEF Forest
<1> QED BY <1>6, <1>16 DEF Q

(* A record less.                                                           *)
Without(R, P, rid) == [r \in Active(R) \ {rid} |-> P[r]]

Removed(R, S, K, p, pre, rid) ==
  /\ ~S[rid].isactive
  /\ \A r \in Ids \ {rid} : /\ S[r].name = R[r].name /\ S[r].isdir = R[r].isdir
                            /\ S[r].isactive = R[r].isactive /\ S[r].isignore = R[r].isignore
  /\ \A r \in Active(R) \ {pre, rid} : S[r].next = R[r].next /\ S[r].islast = R[r].islast
  /\ \A r \in Active(R) \ {p, rid} : S[r].sub = R[r].sub
  /\ IF pre = p
     THEN /\ R[p].sub = rid /\ S[p].sub = NextSibling(R, rid)
          /\ S[p].next = R[p].next /\ S[p].islast = R[p].islast
     ELSE /\ pre \in K /\ NextSibling(R, pre) = rid
          /\ S[p].sub = R[p].sub /\ S[pre].next = R[rid].next /\ S[pre].islast = R[rid].islast

LEMMA RemoveForest ==
  ASSUME NEW R, NEW P, Forest(R, P), NEW p \in Dirs(R), NEW rid \in Kids(R, P, p),
         R[rid].isdir => Kids(R, P, rid) = {}, NEW pre, NEW S \in [Ids -> RecordItem],
         Removed(R, S, Kids(R, P, p), p, pre, rid)
  PROVE  /\ Active(S) = Active(R) \ {rid}
         /\ Forest(S, Without(R, P, rid))
<1> DEFINE Q == Without(R, P, rid)
           K(d) == Kids(R, P, d)
<1>1. /\ R \in [Ids -> RecordItem] /\ P \in [Active(R) -> AnyPath] /\ 0 \notin Active(R)
      /\ P[ROOT] = <<>> /\ ROOT \in Dirs(R) /\ ~R[ROOT].isignore
      /\ Active(R) \subseteq Ids /\ Dirs(R) \subseteq Active(R)
      /\ \A s, t \in Active(R) : P[s] = P[t] => s = t
      /\ \A d \in Dirs(R) : Linked(R, K(d), d)
      /\ \A r \in Active(R) \ {ROOT} :
           R[r].name \in Names /\ \E u \in Dirs(R) : ~R[u].isignore /\ P[r] = Append(P[u], R[r].name)
  BY DEF Forest, Placed, Dirs, Active
<1>2. /\ \A r \in K(p) : r \in Active(R) /\ r \in Ids \ {0} /\ r # p /\ R[r].name \in Nat
      /\ \A r, s \in K(p) : R[r].name = R[s].name => r = s
      /\ p \in Ids \ {0} /\ p \in Active(R) /\ rid \in Active(R) \ {ROOT} /\ rid \in Ids /\ rid # p
      /\ Linked(R, K(p), p)
  <2>1. rid \in Active(R) \ {ROOT} /\ rid # p
    BY KidFacts
  <2> QED BY <1>1, <2>1, KidFacts
<1>3. /\ ~S[rid].isactive
      /\ \A r \in Ids \ {rid} : /\ S[r].name = R[r].name /\ S[r].isdir = R[r].isdir
                                /\ S[r].isactive = R[r].isactive /\ S[r].isignore = R[r].isignore
      /\ \A r \in Active(R) \ {pre, rid} : S[r].next = R[r].next /\ S[r].islast = R[r].islast
      /\ \A r \in Active(R) \ {p, rid} : S[r].sub = R[r].sub
      /\ IF pre = p
         THEN /\ R[p].sub = rid /\ S[p].sub = NextSibling(R, rid)
              /\ S[p].next = R[p].next /\ S[p].islast = R[p].islast
         ELSE /\ pre \in K(p) /\ NextSibling(R, pre) = rid
              /\ S[p].sub = R[p].sub /\ S[pre].next = R[rid].next /\ S[pre].islast = R[rid].islast
  BY DEF Removed
<1>4. Active(S) = Active(R) \ {rid}
  BY <1>3 DEF Active
<1>5. Dirs(S) = Dirs(R) \ {rid}
  BY <1>1, <1>3, <1>4 DEF Dirs
<1>6. Q \in [Active(S) -> AnyPath] /\ \A r \in Active(S) : Q[r] = P[r]
  BY <1>1, <1>4 DEF Without
<1> HIDE DEF Q
<1>7. \A r \in Active(R) : \A u \in Dirs(R) : P[r] = Append(P[u], R[r].name) => u # rid
  BY <1>1 DEF Dirs, Kids
<1>8. Placed(S, Q)
  <2>1. \A r, s \in Active(S) : Q[r] = Q[s] => r = s
    BY <1>1, <1>4, <1>6
  <2>2. 0 \notin Active(S) /\ ROOT \in Dirs(S) /\ ROOT \in Active(S) /\ ~S[ROOT].isignore /\ Q[ROOT] = <<>>
    BY <1>1, <1>2, <1>3, <1>4, <1>5, <1>6
  <2>3. ASSUME NEW r \in Active(S) \ {ROOT}
        PROVE  /\ S[r].name \in Names
               /\ \E u \in Dirs(S) : ~S[u].isignore /\ Q[r] = Append(Q[u], S[r].name)
    <3>1. r \in Active(R) \ {ROOT} /\ S[r].name = R[r].name
      BY <1>1, <1>3, <1>4
    <3>2. PICK u \in Dirs(R) : ~R[u].isignore /\ P[r] = Append(P[u], R[r].name)
      BY <1>1, <3>1
    <3>3. u \in Dirs(S) /\ u \in Active(S) /\ ~S[u].isignore
      BY <1>1, <1>3, <1>4, <1>5, <1>7, <3>1, <3>2
    <3>4. R[r].name \in Names
      BY <1>1, <3>1
    <3> QED BY <1>6, <3>1, <3>2, <3>3, <3>4
  <2> QED BY <1>6, <2>1, <2>2, <2>3 DEF Placed
<1>9. \A d \in Dirs(S) : Kids(S, Q, d) = K(d) \ {rid}
  <2> TAKE d \in Dirs(S)
  <2>1. d \in Active(S) /\ Q[d] = P[d]
    BY <1>6 DEF Dirs
  <2>2. \A r \in Active(S) : r \in Kids(S, Q, d) <=> r \in K(d)
    BY <1>1, <1>3, <1>4, <1>6, <2>1 DEF Kids
  <2>3. Kids(S, Q, d) \subseteq Active(S) /\ K(d) \subseteq Active(R)
    BY DEF Kids
  <2> QED BY <1>4, <2>2, <2>3
<1>10. Linked(S, K(p) \ {rid}, p)
  <2> DEFINE KP == K(p)
  <2>1. /\ rid \in KP /\ p \notin KP \cup {0} /\ 0 \notin KP
        /\ \A s \in KP : R[s].name \in Nat /\ s \in Active(R) /\ s \in Ids
        /\ \A r, s \in KP : R[r].name = R[s].name => r = s
        /\ Linked(R, KP, p)
    BY <1>2
  <2>2. IF pre = p
        THEN R[p].sub = rid /\ S[p].sub = NextSibling(R, rid)
        ELSE /\ pre \in KP /\ NextSibling(R, pre) = rid
             /\ S[p].sub = R[p].sub /\ S[pre].next = R[rid].next /\ S[pre].islast = R[rid].islast
    BY <1>3
  <2> HIDE DEF KP
  <2>3. /\ \A s \in KP \ {rid} : S[s].name = R[s].name
        /\ \A s \in KP \ {pre, rid} : S[s].next = R[s].next /\ S[s].islast = R[s].islast
    BY <1>3, <2>1
  <2>4. Linked(S, KP \ {rid}, p)
    BY <2>1, <2>2, <2>3, RemoveLinked
  <2> QED BY <2>4 DEF KP
<1>11. ASSUME NEW d \in Dirs(S) PROVE Linked(S, Kids(S, Q, d), d)
  <2>1. Kids(S, Q, d) = K(d) \ {rid} /\ d \in Dirs(R) /\ d # rid
    BY <1>5, <1>9
  <2>2. CASE d = p
    BY <1>10, <2>1, <2>2
  <2>3. CASE d # p
    <3>1. Linked(R, K(d), d) /\ S[d].sub = R[d].sub
      BY <1>1, <1>3, <2>1, <2>3
    <3>2. K(d) \cap K(p) = {}
      BY <2>1, <2>3, OneParent
    <3>3. \A r \in K(d) : S[r].name = R[r].name /\ S[r].next = R[r].next /\ S[r].islast = R[r].islast
      <4> TAKE r \in K(d)
      <4>1. r \in Active(R) /\ r \in Ids /\ r \notin K(p) /\ r # rid
        BY <1>1, <3>2 DEF Kids
      <4>2. CASE pre = p
        BY <1>3, <4>1, <4>2
      <4>3. CASE pre # p
        BY <1>3, <4>1, <4>3
      <4> QED BY <4>2, <4>3
    <3>4. Linked(S, K(d), d)
      <4> HIDE DEF K
      <4> QED BY <3>1, <3>3, LinkedSame
    <3>5. K(d) \ {rid} = K(d)
      BY <3>2
    <3> QED BY <2>1, <3>4, <3>5
  <2> QED BY <2>2, <2>3
<1>12. Forest(S, Q)
  BY <1>8, <1>11 DEF Forest
<1> QED BY <1>4, <1>12 DEF Q

(* A file record with another size or time.                                   *)
SameLinks(R, S) ==
  \A r \in Ids :
    /\ S[r].name = R[r].name /\ S[r].next = R[r].next /\ S[r].islast = R[r].islast
    /\ S[r].isdir = R[r].isdir /\ S[r].isactive = R[r].isactive /\ S[r].isignore = R[r].isignore
    /\ R[r].isdir => S[r].sub = R[r].sub

LEMMA SameForest ==
  ASSUME NEW R, NEW P, Forest(R, P), NEW S \in [Ids -> RecordItem], SameLinks(R, S)
  PROVE  Forest(S, P) /\ Active(S) = Active(R) /\ Dirs(S) = Dirs(R)
<1>1. Active(S) = Active(R) /\ Dirs(S) = Dirs(R) /\ Active(R) \subseteq Ids /\ Dirs(R) \subseteq Ids
      /\ Dirs(R) \subseteq Active(R)
  BY DEF SameLinks, Active, Dirs
<1>2. \A r \in Active(R) : S[r].name = R[r].name /\ S[r].isignore = R[r].isignore
                           /\ S[r].next = R[r].next /\ S[r].islast = R[r].islast
  BY <1>1 DEF SameLinks
<1>3. Placed(S, P)
  BY <1>1, <1>2 DEF Forest, Placed
<1>4. ASSUME NEW d \in Dirs(S) PROVE Linked(S, Kids(S, P, d), d)
  <2>1. Kids(S, P, d) = Kids(R, P, d) /\ \A r \in Kids(R, P, d) : r \in Active(R)
    BY <1>1, <1>2 DEF Kids
  <2>2. Linked(R, Kids(R, P, d), d) /\ S[d].sub = R[d].sub
    BY <1>1 DEF Forest, SameLinks, Dirs
  <2> DEFINE K == Kids(R, P, d)
  <2>3. \A r \in K : S[r].name = R[r].name /\ S[r].next = R[r].next /\ S[r].islast = R[r].islast
    BY <1>2, <2>1
  <2> HIDE DEF K
  <2>4. Linked(S, K, d)
    BY <2>2, <2>3, LinkedSame DEF K
  <2> QED BY <2>1, <2>4 DEF K
<1> QED BY <1>1, <1>3, <1>4 DEF Forest

-----------------------------------------------------------------------------
(* The recycle list holds records that are not in use, each of them once.      *)
Idle(R) == Ids \ Active(R)

Recycled(R, n) ==
  /\ n \in 2 .. MaxRec
  /\ \A r \in Ids : r >= n => r \in Idle(R)
  /\ 0 \in Idle(R)
  /\ \A q \in Idle(R) : R[q].next # 0 => R[q].next \in Idle(R) /\ R[q].next < n
  /\ \A q, s \in Idle(R) : R[q].next = R[s].next /\ R[q].next # 0 => q = s

SameInUse(R, S) ==
  \A r \in Active(R) \cap Active(S) :
    /\ S[r].name = R[r].name /\ S[r].isdir = R[r].isdir /\ S[r].isignore = R[r].isignore

Allocated(R, P, n, rid, new, q, S) ==
  /\ rid \in Ids \ {0} /\ rid \notin Active(R) /\ Active(S) = Active(R) \cup {rid}
  /\ Forest(S, Extended(R, P, rid, q)) /\ SameInUse(R, S)
  /\ Recycled(S, IF rid = n THEN n + 1 ELSE n)
  /\ S[rid].name = new.name /\ S[rid].isdir = new.isdir /\ S[rid].isignore = new.isignore

LEMMA AllocForest ==
  ASSUME NEW R, NEW P, Forest(R, P), NEW n, Recycled(R, n),
         NEW p \in Dirs(R), ~R[p].isignore, Len(P[p]) < Depth,
         NEW new \in RecordItem, new.isactive, new.name \in Names, new.isdir => new.sub = 0,
         NEW f, Found(R, Kids(R, P, p), p, new.name, f), f.type # "FR_MATCH",
         NEW rid \in {NewId(R, n)} \cap Ids
  PROVE  Allocated(R, P, n, rid, new, Append(P[p], new.name),
                   LinkRecord(AllocRec(R, rid, new), p, f.id, rid))
<1> DEFINE A == AllocRec(R, rid, new)
           S == LinkRecord(A, p, f.id, rid)
           m == IF rid = n THEN n + 1 ELSE n
           pre == f.id
<1>1. /\ n \in 2 .. MaxRec /\ MaxRec \in Nat
      /\ \A r \in Ids : r >= n => r \in Idle(R)
      /\ 0 \in Idle(R) /\ 0 \in Ids
      /\ \A q \in Idle(R) : R[q].next # 0 => R[q].next \in Idle(R) /\ R[q].next < n
      /\ \A q, s \in Idle(R) : R[q].next = R[s].next /\ R[q].next # 0 => q = s
  BY MaxRecAssumption DEF Recycled, Idle
<1>2. R \in [Ids -> RecordItem] /\ Active(R) \subseteq Ids /\ rid \in Ids
  BY DEF Forest, Active
<1>3. /\ rid = NewId(R, n) /\ rid \in Idle(R) /\ rid # 0
      /\ R[0].next # 0 => rid = R[0].next /\ rid < n
      /\ R[0].next = 0 => rid = n
  <2>1. rid = IF R[0].next # 0 THEN R[0].next ELSE n
    BY DEF NewId
  <2>2. rid \in Idle(R) /\ rid # 0
    BY <1>1, <1>2, <2>1
  <2> QED BY <1>1, <2>1, <2>2 DEF NewId
<1>4. /\ p \in Active(R) /\ p \in Ids \ {0} /\ p # rid
      /\ pre \in Kids(R, P, p) \cup {p} /\ pre \in Active(R) /\ pre \in Ids \ {0} /\ pre # rid
      /\ \A r \in Kids(R, P, p) : r # p
  <2>1. p \in Active(R) /\ p \in Ids \ {0} /\ \A r \in Kids(R, P, p) : r \in Active(R) /\ r \in Ids \ {0} /\ r # p
    BY KidFacts DEF Dirs
  <2>2. pre \in Kids(R, P, p) \cup {p}
    BY DEF Found
  <2> QED BY <1>3, <2>1, <2>2 DEF Idle
<1>5. /\ A \in [Ids -> RecordItem] /\ A[rid] = new
      /\ \A r \in Ids \ {0, rid} : A[r] = R[r]
      /\ A[0] = IF R[0].next # 0 THEN [R[0] EXCEPT !.next = R[rid].next] ELSE R[0]
  <2>1. \A r \in Ids : R[r] \in RecordItem
    BY <1>2
  <2>2. [R[0] EXCEPT !.next = R[rid].next] \in RecordItem
    <3>1. R[0] \in RecordItem /\ R[rid].next \in Nat
      BY <1>1, <2>1 DEF RecordItem
    <3> QED BY <3>1 DEF RecordItem
  <2>3. A = [r \in Ids |-> IF r = rid THEN new
                           ELSE IF r = 0 /\ R[0].next # 0 THEN [R[0] EXCEPT !.next = R[rid].next]
                           ELSE R[r]]
    BY DEF AllocRec
  <2> HIDE DEF A
  <2> QED BY <1>1, <1>3, <2>1, <2>2, <2>3
<1> DEFINE head == A[p].sub
           mine == IF pre = p
                   THEN [A[rid] EXCEPT !.next = IF head = 0 THEN p ELSE head, !.islast = (head = 0)]
                   ELSE [A[rid] EXCEPT !.next = A[pre].next, !.islast = A[pre].islast]
           before == IF pre = p THEN [A[pre] EXCEPT !.sub = rid]
                     ELSE [A[pre] EXCEPT !.next = rid, !.islast = FALSE]
<1>6. S = [A EXCEPT ![rid] = mine, ![pre] = before]
  BY DEF LinkRecord
<1>7. A[p] = R[p] /\ A[pre] = R[pre] /\ head = R[p].sub /\ head \in Nat
      /\ R[pre] \in RecordItem /\ R[p] \in RecordItem
  <2>1. A[p] = R[p] /\ A[pre] = R[pre] /\ R[pre] \in RecordItem /\ R[p] \in RecordItem
    BY <1>2, <1>4, <1>5
  <2> QED BY <2>1 DEF RecordItem
<1>8. /\ mine \in RecordItem /\ mine.name = new.name /\ mine.isdir = new.isdir
      /\ mine.isactive /\ mine.isignore = new.isignore /\ mine.sub = new.sub
      /\ pre = p => mine.next = (IF head = 0 THEN p ELSE head) /\ mine.islast = (head = 0)
      /\ pre # p => mine.next = R[pre].next /\ mine.islast = R[pre].islast
  <2>1. p \in Nat /\ R[pre].next \in Nat /\ R[pre].islast \in BOOLEAN
    BY <1>4, <1>7, SMTT(60) DEF Ids, RecordItem
  <2>2. CASE pre = p
    <3>1. mine = [new EXCEPT !.next = IF head = 0 THEN p ELSE head, !.islast = (head = 0)]
      BY <1>5, <2>2
    <3> HIDE DEF mine, head
    <3> QED BY <1>7, <2>1, <2>2, <3>1, ZenonT(60) DEF RecordItem
  <2>3. CASE pre # p
    <3>1. mine = [new EXCEPT !.next = R[pre].next, !.islast = R[pre].islast]
      BY <1>5, <1>7, <2>3
    <3> HIDE DEF mine, head
    <3> QED BY <1>7, <2>1, <2>3, <3>1 DEF RecordItem
  <2> QED BY <2>2, <2>3
<1>9. /\ before \in RecordItem /\ before.name = R[pre].name /\ before.isdir = R[pre].isdir
      /\ before.isactive = R[pre].isactive /\ before.isignore = R[pre].isignore
      /\ pre = p => before.sub = rid /\ before.next = R[p].next /\ before.islast = R[p].islast
      /\ pre # p => before.sub = R[pre].sub /\ before.next = rid /\ before.islast = FALSE
  <2>1. before = IF pre = p THEN [R[pre] EXCEPT !.sub = rid]
                 ELSE [R[pre] EXCEPT !.next = rid, !.islast = FALSE]
    BY <1>7
  <2>2. rid \in Nat
    BY <1>2 DEF Ids
  <2> HIDE DEF before
  <2>3. CASE pre = p
    BY <1>7, <2>1, <2>2, <2>3 DEF RecordItem
  <2>4. CASE pre # p
    BY <1>7, <2>1, <2>2, <2>4 DEF RecordItem
  <2> QED BY <2>3, <2>4
<1> HIDE DEF mine, before, A, S
<1>10. /\ S \in [Ids -> RecordItem] /\ S[rid] = mine /\ S[pre] = before
       /\ \A r \in Ids \ {rid, pre} : S[r] = A[r]
  BY <1>4, <1>5, <1>6, <1>8, <1>9
<1>11. \A r \in Ids \ {rid, pre, 0} : S[r] = R[r]
  BY <1>5, <1>10
<1>12. S[0] = A[0] /\ S[0].name = R[0].name /\ S[0].isdir = R[0].isdir
       /\ S[0].isactive = R[0].isactive /\ S[0].isignore = R[0].isignore
       /\ S[0].next = IF R[0].next # 0 THEN R[rid].next ELSE 0
  <2>1. S[0] = A[0]
    BY <1>1, <1>3, <1>4, <1>10
  <2>2. R[0] \in RecordItem
    BY <1>1, <1>2
  <2> QED BY <1>5, <2>1, <2>2 DEF RecordItem
<1>13. \A r \in Ids \ {rid} : /\ S[r].name = R[r].name /\ S[r].isdir = R[r].isdir
                              /\ S[r].isactive = R[r].isactive /\ S[r].isignore = R[r].isignore
  <2> TAKE r \in Ids \ {rid}
  <2>1. CASE r = pre
    BY <1>9, <1>10, <2>1
  <2>2. CASE r = 0
    BY <1>12, <2>2
  <2>3. CASE r # pre /\ r # 0
    <3>1. S[r] = R[r]
      BY <1>11, <2>3
    <3> QED BY <3>1
  <2> QED BY <2>1, <2>2, <2>3
<1>14. /\ \A r \in Active(R) \ {pre} : S[r].next = R[r].next /\ S[r].islast = R[r].islast
       /\ \A r \in Active(R) \ {p} : S[r].sub = R[r].sub
  <2>1. \A r \in Active(R) : r \in Ids \ {rid, 0}
    BY <1>1, <1>2, <1>3 DEF Idle
  <2>2. \A r \in Active(R) \ {pre} : S[r] = R[r]
    BY <1>11, <2>1
  <2> QED BY <1>9, <1>10, <2>2
<1>15. IF pre = p
       THEN /\ S[p].sub = rid
            /\ S[rid].next = (IF R[p].sub = 0 THEN p ELSE R[p].sub)
            /\ S[rid].islast = (R[p].sub = 0)
            /\ S[p].next = R[p].next /\ S[p].islast = R[p].islast
       ELSE /\ S[p].sub = R[p].sub /\ S[pre].next = rid /\ S[pre].islast = FALSE
            /\ S[rid].next = R[pre].next /\ S[rid].islast = R[pre].islast
  BY <1>4, <1>7, <1>8, <1>9, <1>10, <1>14
<1>16. S[rid].isactive /\ S[rid].name = new.name /\ (S[rid].isdir => S[rid].sub = 0) /\ rid \notin Active(R)
  BY <1>3, <1>8, <1>10 DEF Idle
<1>17. /\ Active(S) = Active(R) \cup {rid}
       /\ Forest(S, Extended(R, P, rid, Append(P[p], new.name)))
  <2>1. Added(R, S, p, new.name, f, rid)
    BY <1>13, <1>14, <1>15, <1>16 DEF Added
  <2> QED BY <1>2, <1>3, <1>10, <1>16, <2>1, InsertForest
<1>18. Recycled(S, m)
  <2>1. Idle(S) = Idle(R) \ {rid}
    BY <1>17 DEF Idle
  <2>2. \A q \in Idle(S) \ {0} : S[q] = R[q]
    <3>1. \A q \in Idle(S) : q \in Ids /\ q # rid /\ q # pre
      BY <1>4, <2>1 DEF Idle
    <3> QED BY <1>11, <3>1
  <2>3. m \in 2 .. MaxRec /\ \A r \in Ids : r >= m => r \in Idle(S)
    <3>1. rid = n => n + 1 \in 2 .. MaxRec
      BY <1>1, <1>2 DEF Ids
    <3>2. \A r \in Ids : r \in Nat
      BY DEF Ids
    <3>3. CASE rid = n
      <4>1. \A r \in Ids : r >= n + 1 => r >= n /\ r # rid
        BY <1>1, <3>2, <3>3
      <4> QED BY <1>1, <2>1, <3>1, <3>3, <4>1
    <3>4. CASE rid # n
      <4>1. \A r \in Ids : r >= n => r # rid
        BY <1>1, <1>3, <3>2, <3>4
      <4> QED BY <1>1, <2>1, <3>4, <4>1
    <3> QED BY <3>3, <3>4
  <2>4. 0 \in Idle(S)
    BY <1>1, <1>3, <2>1
  <2>5. \A q \in Idle(R) : R[q].next = rid => R[0].next = rid /\ q = 0
    BY <1>1, <1>3
  <2>6. S[0].next # 0 => R[0].next = rid /\ S[0].next = R[rid].next /\ S[0].next # rid
    BY <1>1, <1>3, <1>12, <2>5
  <2>7. \A q \in Idle(S) : S[q].next # 0 => S[q].next \in Idle(S) /\ S[q].next < m
    <3> TAKE q \in Idle(S)
    <3> HAVE S[q].next # 0
    <3>1. S[q].next \in Idle(R) /\ S[q].next < n /\ S[q].next # rid
      <4>1. CASE q = 0
        BY <1>1, <1>3, <2>6, <4>1
      <4>2. CASE q # 0
        BY <1>1, <2>1, <2>2, <2>5, <4>2
      <4> QED BY <4>1, <4>2
    <3>2. \A r \in Ids : r \in Nat
      BY DEF Ids
    <3> QED BY <1>1, <2>1, <3>1, <3>2 DEF Idle
  <2>8. \A q, s \in Idle(S) : S[q].next = S[s].next /\ S[q].next # 0 => q = s
    <3> DEFINE from(q) == IF q = 0 THEN rid ELSE q
    <3>1. \A q \in Idle(S) : S[q].next # 0 => S[q].next = R[from(q)].next /\ from(q) \in Idle(R)
      BY <1>1, <1>3, <2>1, <2>2, <2>6
    <3>2. \A q, s \in Idle(S) : from(q) = from(s) => q = s
      BY <2>1
    <3> HIDE DEF from
    <3> QED BY <1>1, <3>1, <3>2
  <2> QED BY <2>3, <2>4, <2>7, <2>8 DEF Recycled
<1>19. SameInUse(R, S)
  <2>1. \A r \in Active(R) : r \in Ids \ {rid}
    BY <1>2, <1>3 DEF Idle
  <2> QED BY <1>13, <2>1 DEF SameInUse
<1>20. S[rid].isdir = new.isdir /\ S[rid].isignore = new.isignore
  BY <1>8, <1>10
<1>21. Allocated(R, P, n, rid, new, Append(P[p], new.name), S)
  BY <1>2, <1>3, <1>16, <1>17, <1>18, <1>19, <1>20 DEF Allocated
<1> QED BY <1>21 DEF S, A

Freed(R, P, n, rid, S) ==
  /\ Active(S) = Active(R) \ {rid} /\ Forest(S, Without(R, P, rid))
  /\ Recycled(S, n) /\ SameInUse(R, S)

LEMMA RecycleForest ==
  ASSUME NEW R, NEW P, Forest(R, P), NEW n, Recycled(R, n),
         NEW p \in Dirs(R), NEW rid \in Kids(R, P, p), R[rid].isdir => Kids(R, P, rid) = {},
         NEW pre \in Ids, IsLinkTo(R, rid, p, pre), NEW rpre \in Ids, IsRecyclePre(R, rid, rpre)
  PROVE  Freed(R, P, n, rid, RecycleRec(UnlinkRecord(R, p, pre, rid), rpre, rid))
<1> DEFINE K == Kids(R, P, p)
           U == UnlinkRecord(R, p, pre, rid)
           S == RecycleRec(U, rpre, rid)
<1>1. /\ n \in 2 .. MaxRec /\ MaxRec \in Nat
      /\ \A r \in Ids : r >= n => r \in Idle(R)
      /\ 0 \in Idle(R) /\ 0 \in Ids
      /\ \A q \in Idle(R) : R[q].next # 0 => R[q].next \in Idle(R) /\ R[q].next < n
      /\ \A q, s \in Idle(R) : R[q].next = R[s].next /\ R[q].next # 0 => q = s
  BY MaxRecAssumption DEF Recycled, Idle
<1>2. /\ R \in [Ids -> RecordItem] /\ Active(R) \subseteq Ids
      /\ \A r \in Ids : R[r] \in RecordItem
  BY DEF Forest, Active
<1>3. /\ p \in Active(R) /\ p \in Ids \ {0} /\ p # rid
      /\ rid \in Active(R) /\ rid \in Ids \ {0}
      /\ \A r \in K : r \in Active(R) /\ r \in Ids \ {0} /\ R[r].name \in Nat
      /\ Linked(R, K, p) /\ Children(R, p) = K
  BY KidFacts, ChildrenAreKids DEF Dirs
<1>4. /\ pre \in Active(R) /\ pre # rid
      /\ pre = p => R[p].sub = rid
      /\ pre # p => pre \in K /\ NextSibling(R, pre) = rid
  <2>1. CASE pre = p /\ R[p].sub = rid
    BY <1>3, <2>1
  <2>2. CASE pre # p /\ pre \in K /\ NextSibling(R, pre) = rid
    <3> HIDE DEF K
    <3>1. rid \in Greater(R, K, pre)
      BY <1>3, <2>2 DEF Linked, FirstOf
    <3>2. \A a \in Nat : ~(a < a)
      OBVIOUS
    <3>3. pre # rid
      BY <1>3, <2>2, <3>1, <3>2 DEF Greater
    <3> QED BY <1>3, <2>2, <3>3
  <2> QED BY <1>3, <2>1, <2>2 DEF IsLinkTo
<1>5. rpre \in Idle(R) /\ rpre # rid /\ rpre # p /\ rpre # pre
  <2>1. rpre \in Idle(R)
    BY <1>1 DEF IsRecyclePre, Idle, Active
  <2> QED BY <1>3, <1>4, <2>1 DEF Idle
<1>6. /\ U \in [Ids -> RecordItem] /\ \A r \in Ids \ {pre} : U[r] = R[r]
      /\ U[pre].name = R[pre].name /\ U[pre].isdir = R[pre].isdir
      /\ U[pre].isactive = R[pre].isactive /\ U[pre].isignore = R[pre].isignore
      /\ pre = p => /\ U[p].sub = NextSibling(R, rid)
                    /\ U[p].next = R[p].next /\ U[p].islast = R[p].islast
      /\ pre # p => /\ U[pre].next = R[rid].next /\ U[pre].islast = R[rid].islast
                    /\ U[pre].sub = R[pre].sub
  <2>1. R[pre] \in RecordItem /\ R[rid].next \in Nat /\ R[rid].islast \in BOOLEAN /\ NextSibling(R, rid) \in Nat
    BY <1>2, <1>3 DEF RecordItem, NextSibling
  <2> DEFINE e1 == [R[pre] EXCEPT !.sub = NextSibling(R, rid)]
             e2 == [R[pre] EXCEPT !.next = R[rid].next, !.islast = R[rid].islast]
  <2>2. /\ e1 \in RecordItem /\ e1.name = R[pre].name /\ e1.isdir = R[pre].isdir
        /\ e1.isactive = R[pre].isactive /\ e1.isignore = R[pre].isignore
        /\ e1.sub = NextSibling(R, rid) /\ e1.next = R[pre].next /\ e1.islast = R[pre].islast
    BY <2>1 DEF RecordItem
  <2>3. /\ e2 \in RecordItem /\ e2.name = R[pre].name /\ e2.isdir = R[pre].isdir
        /\ e2.isactive = R[pre].isactive /\ e2.isignore = R[pre].isignore
        /\ e2.sub = R[pre].sub /\ e2.next = R[rid].next /\ e2.islast = R[rid].islast
    BY <2>1 DEF RecordItem
  <2>4. CASE pre = p
    <3>1. U = [R EXCEPT ![pre] = e1]
      BY <2>4 DEF UnlinkRecord
    <3> HIDE DEF e1, e2, U
    <3> QED BY <1>2, <2>2, <2>4, <3>1
  <2>5. CASE pre # p
    <3>1. U = [R EXCEPT ![pre] = e2]
      BY <2>5 DEF UnlinkRecord
    <3> HIDE DEF e1, e2, U
    <3> QED BY <1>2, <2>3, <2>5, <3>1
  <2> QED BY <2>4, <2>5
<1> HIDE DEF U
<1> DEFINE gone == [U[rid] EXCEPT !.name = 0, !.isdir = TRUE, !.isactive = FALSE, !.next = U[rpre].next]
           before == [U[rpre] EXCEPT !.next = rid]
<1>7. S = [U EXCEPT ![rid] = gone, ![rpre] = before]
  BY DEF RecycleRec
<1>8. gone \in RecordItem /\ ~gone.isactive /\ gone.next = R[rpre].next
  <2>1. U[rid] \in RecordItem /\ U[rpre] = R[rpre] /\ U[rpre].next \in Nat
    BY <1>2, <1>3, <1>5, <1>6 DEF RecordItem
  <2> QED BY <2>1 DEF RecordItem
<1>9. /\ before \in RecordItem /\ before.name = R[rpre].name /\ before.isdir = R[rpre].isdir
      /\ before.isactive = R[rpre].isactive /\ before.isignore = R[rpre].isignore /\ before.next = rid
  <2>1. U[rpre] = R[rpre] /\ R[rpre] \in RecordItem /\ rid \in Nat
    BY <1>2, <1>3, <1>5, <1>6 DEF Ids
  <2> QED BY <2>1 DEF RecordItem
<1> HIDE DEF gone, before, S
<1>10. /\ S \in [Ids -> RecordItem] /\ S[rid] = gone /\ S[rpre] = before
       /\ \A r \in Ids \ {rid, rpre} : S[r] = U[r]
  BY <1>3, <1>5, <1>6, <1>7, <1>8, <1>9
<1>11. \A r \in Ids \ {rid, rpre, pre} : S[r] = R[r]
  BY <1>6, <1>10
<1>12. S[pre] = U[pre]
  BY <1>4, <1>5, <1>10
<1>13. \A r \in Ids \ {rid} : /\ S[r].name = R[r].name /\ S[r].isdir = R[r].isdir
                              /\ S[r].isactive = R[r].isactive /\ S[r].isignore = R[r].isignore
  <2> TAKE r \in Ids \ {rid}
  <2>1. CASE r = pre
    BY <1>6, <1>12, <2>1
  <2>2. CASE r = rpre
    BY <1>9, <1>10, <2>2
  <2>3. CASE r # pre /\ r # rpre
    <3>1. S[r] = R[r]
      BY <1>11, <2>3
    <3> QED BY <3>1
  <2> QED BY <2>1, <2>2, <2>3
<1>14. Removed(R, S, K, p, pre, rid)
  <2>1. \A r \in Active(R) \ {pre, rid} : S[r] = R[r]
    BY <1>2, <1>5, <1>11 DEF Idle
  <2>2. ~S[rid].isactive
    BY <1>8, <1>10
  <2>3. \A r \in Active(R) \ {p, rid} : S[r].sub = R[r].sub
    BY <1>6, <1>12, <2>1
  <2>4. IF pre = p
        THEN /\ R[p].sub = rid /\ S[p].sub = NextSibling(R, rid)
             /\ S[p].next = R[p].next /\ S[p].islast = R[p].islast
        ELSE /\ pre \in K /\ NextSibling(R, pre) = rid
             /\ S[p].sub = R[p].sub /\ S[pre].next = R[rid].next /\ S[pre].islast = R[rid].islast
    BY <1>3, <1>4, <1>6, <1>12, <2>1
  <2> HIDE DEF K
  <2> QED BY <1>13, <2>1, <2>2, <2>3, <2>4 DEF Removed
<1>15. Active(S) = Active(R) \ {rid} /\ Forest(S, Without(R, P, rid))
  BY <1>10, <1>14, RemoveForest
<1>16. SameInUse(R, S)
  <2>1. \A r \in Active(R) \cap Active(S) : r \in Ids \ {rid}
    BY <1>2, <1>15
  <2> QED BY <1>13, <2>1 DEF SameInUse
<1>17. Recycled(S, n)
  <2>1. Idle(S) = Idle(R) \cup {rid}
    BY <1>2, <1>3, <1>15 DEF Idle
  <2>2. /\ S[rid].next = R[rpre].next /\ S[rpre].next = rid
        /\ \A q \in Idle(R) \ {rpre} : S[q].next = R[q].next
    <3>1. \A q \in Idle(R) \ {rpre} : S[q] = R[q]
      BY <1>3, <1>4, <1>11 DEF Idle
    <3> QED BY <1>8, <1>9, <1>10, <3>1
  <2>3. rid \notin Idle(R) /\ rid < n /\ rid # 0
    <3>1. rid \notin Idle(R)
      BY <1>3 DEF Idle
    <3>2. rid \in Nat /\ n \in Nat /\ ~(rid >= n)
      BY <1>1, <1>3, <3>1 DEF Ids
    <3> QED BY <1>3, <3>1, <3>2
  <2>4. \A q \in Idle(S) : S[q].next # 0 => S[q].next \in Idle(S) /\ S[q].next < n
    <3> TAKE q \in Idle(S)
    <3>1. CASE q = rid
      BY <1>1, <1>5, <2>1, <2>2, <3>1
    <3>2. CASE q = rpre
      BY <2>1, <2>2, <2>3, <3>2
    <3>3. CASE q # rid /\ q # rpre
      BY <1>1, <2>1, <2>2, <3>3
    <3> QED BY <3>1, <3>2, <3>3
  <2>5. \A q, s \in Idle(S) : S[q].next = S[s].next /\ S[q].next # 0 => q = s
    <3> DEFINE from(q) == IF q = rid THEN rpre ELSE IF q = rpre THEN rid ELSE q
    <3>1. \A q \in Idle(S) : q = rpre \/ (from(q) \in Idle(R) /\ S[q].next = R[from(q)].next)
      BY <1>5, <2>1, <2>2
    <3>2. \A q \in Idle(R) : R[q].next # rid
      BY <1>1, <2>3
    <3>3. \A q \in Idle(S) : q # rpre => S[q].next # rid
      BY <3>1, <3>2
    <3>4. \A q, s \in Idle(S) : from(q) = from(s) => q = s
      BY <1>5
    <3> HIDE DEF from
    <3>5. \A q, s \in Idle(S) : q # rpre /\ s # rpre /\ S[q].next = S[s].next /\ S[q].next # 0 => q = s
      BY <1>1, <3>1, <3>4
    <3> QED BY <2>2, <3>3, <3>5
  <2>6. 0 \in Idle(S) /\ \A r \in Ids : r >= n => r \in Idle(S)
    BY <1>1, <2>1
  <2> QED BY <1>1, <2>4, <2>5, <2>6 DEF Recycled
<1>18. Freed(R, P, n, rid, S)
  BY <1>15, <1>16, <1>17 DEF Freed
<1> QED BY <1>18 DEF S, U

-----------------------------------------------------------------------------
(***************************************************************************)
(* delDir goes down from the record of the action to one without children.    *)
(***************************************************************************)
Start0(P) == RecordAt(act.path) \in Active(recs) /\ P[RecordAt(act.path)] = act.path

LeafIs(P) ==
  /\ Leaf.id \in Active(recs) /\ Leaf.path = P[Leaf.id]
  /\ recs[Leaf.id].isdir => Kids(recs, P, Leaf.id) = {}
  /\ Len(Leaf.path) >= Len(act.path) /\ SubSeq(Leaf.path, 1, Len(act.path)) = act.path

LEMMA LeafFound ==
  ASSUME NEW P, Forest(recs, P), Start0(P)
  PROVE  LeafIs(P)
<1> DEFINE a == act.path
           r0 == RecordAt(act.path)
           V == Active(recs)
           first == [r \in Ids |-> IF recs[r].isdir /\ recs[r].sub # 0 THEN recs[r].sub ELSE r]
           f == Iterate(Depth, r0, first)
           visited == {f[k] : k \in 0 .. Depth}
           depth == Cardinality(visited) - 1
           IsLeaf(v) == recs[v].isdir => recs[v].sub = 0
           m == Len(a)
<1>1. Leaf = [id |-> f[Depth], path |-> a \o [k \in 1 .. depth |-> NameOf(f[k])]]
  BY DEF Leaf, Iterate, Iteration
<1>2. Depth \in Nat /\ r0 \in V /\ P[r0] = a /\ a \in Seq(Names) /\ m \in Nat /\ m <= Depth
  BY DepthAssumption, ParentOf DEF Start0
<1>3. ASSUME NEW v \in V
      PROVE  /\ first[v] \in V /\ (IsLeaf(v) => first[v] = v)
             /\ ~IsLeaf(v) => v \in Dirs(recs) /\ first[v] \in Kids(recs, P, v)
  <2>1. v \in Ids /\ first[v] = IF recs[v].isdir /\ recs[v].sub # 0 THEN recs[v].sub ELSE v
    BY ParentOf
  <2>2. CASE IsLeaf(v)
    BY <2>1, <2>2
  <2>3. CASE ~IsLeaf(v)
    <3>1. v \in Dirs(recs)
      BY <2>3 DEF Dirs
    <3>2. Linked(recs, Kids(recs, P, v), v)
      BY <3>1, KidFacts
    <3>3. recs[v].sub \in Kids(recs, P, v)
      BY <2>3, <3>2 DEF Linked, FirstOf
    <3>4. Kids(recs, P, v) \subseteq V
      BY DEF Kids
    <3> QED BY <2>1, <2>3, <3>1, <3>3, <3>4
  <2> QED BY <2>2, <2>3
<1>4. Iterates(f, Depth, V, r0, first)
  <2>1. \A v \in V : first[v] \in V
    BY <1>3
  <2> HIDE DEF V, first, r0
  <2> QED BY <1>2, <2>1, Iterated
<1> HIDE DEF f, first, visited
<1>5. /\ f \in [0 .. Depth -> V] /\ f[0] = r0
      /\ \A k \in 1 .. Depth : f[k] = first[f[k - 1]]
  BY <1>4 DEF Iterates
<1>6. \A k \in 0 .. Depth : f[k] \in V
  BY <1>5
<1>7. \A k \in 1 .. Depth : k - 1 \in 0 .. Depth
  BY <1>2
<1>8. \A v \in V : P[v] \in Seq(Names) /\ Len(P[v]) \in Nat /\ Len(P[v]) <= Depth
  BY ParentOf
(* Down to the first leaf, each step leads to a child,                          *)
<1> DEFINE Agrees(k) == /\ Len(P[f[k]]) = m + k
                        /\ \A i \in 1 .. m : P[f[k]][i] = a[i]
                        /\ \A j \in 1 .. k : P[f[k]][m + j] = NameOf(f[j])
<1>9. ASSUME NEW d \in 0 .. Depth, \A k \in 0 .. d - 1 : ~IsLeaf(f[k])
      PROVE  \A k \in 0 .. d : Agrees(k)
  <2> DEFINE T == {k \in 0 .. d : Agrees(k)}
  <2>1. 0 \in T
    <3>1. Agrees(0)
      BY <1>2, <1>5
    <3> QED BY <1>2, <3>1
  <2>2. \A k \in 1 .. d : k - 1 \in T => k \in T
    <3> TAKE k \in 1 .. d
    <3> HAVE k - 1 \in T
    <3> DEFINE u == f[k - 1]
               v == f[k]
    <3>1. k - 1 \in 0 .. d - 1 /\ k - 1 \in 0 .. Depth /\ k \in 1 .. Depth /\ k \in Nat /\ k - 1 \in Nat
      BY <1>2
    <3>2. u \in Dirs(recs) /\ v \in Kids(recs, P, u)
      BY <1>3, <1>5, <1>6, <1>9, <3>1
    <3>3. P[v] = Append(P[u], NameOf(v)) /\ P[u] \in Seq(Names) /\ NameOf(v) \in Names
      BY <3>2, KidFacts, SMTT(60) DEF NameOf
    <3>4. /\ Len(P[u]) = m + (k - 1)
          /\ \A i \in 1 .. m : P[u][i] = a[i]
          /\ \A j \in 1 .. k - 1 : P[u][m + j] = NameOf(f[j])
      OBVIOUS
    <3> HIDE DEF u, v
    <3>5. /\ Len(P[v]) = m + (k - 1) + 1 /\ P[v][m + (k - 1) + 1] = NameOf(v)
          /\ \A i \in 1 .. m + (k - 1) : P[v][i] = P[u][i]
      BY <3>3, <3>4, AppendPath
    <3>6. Len(P[v]) = m + k /\ P[v][m + k] = NameOf(v)
      <4>1. m + (k - 1) + 1 = m + k
        BY <1>2, <3>1
      <4> QED BY <3>5, <4>1
    <3>7. \A i \in 1 .. m : P[v][i] = a[i]
      <4>1. \A i \in 1 .. m : i \in 1 .. m + (k - 1)
        BY <1>2, <3>1
      <4> QED BY <3>4, <3>5, <4>1
    <3>8. \A j \in 1 .. k - 1 : P[v][m + j] = NameOf(f[j])
      <4>1. \A j \in 1 .. k - 1 : m + j \in 1 .. m + (k - 1)
        BY <1>2, <3>1
      <4> QED BY <3>4, <3>5, <4>1
    <3>9. \A j \in 1 .. k : j = k \/ j \in 1 .. k - 1
      BY <3>1
    <3>10. Agrees(k)
      BY <3>6, <3>7, <3>8, <3>9 DEF v
    <3> QED BY <3>10
  <2> HIDE DEF T
  <2>d. d \in Nat
    BY <1>2
  <2>3. \A k \in 0 .. d : k \in T
    BY <2>d, <2>1, <2>2, Induct
  <2> QED BY <2>3 DEF T
(* and a leaf is reached before the paths get too long.                          *)
<1> DEFINE leaves == {k \in 0 .. Depth : IsLeaf(f[k])}
<1>10. PICK d \in leaves : \A k \in leaves : d <= k
  <2>1. leaves \in SUBSET Nat /\ (leaves = {} => \A k \in 0 .. Depth : ~IsLeaf(f[k]))
    BY <1>2
  <2>2. leaves # {}
    <3> SUFFICES ASSUME leaves = {} PROVE FALSE
      OBVIOUS
    <3>1. Depth \in 0 .. Depth /\ \A k \in 0 .. Depth - 1 : ~IsLeaf(f[k])
      BY <1>2, <2>1
    <3> HIDE DEF Agrees, leaves, IsLeaf
    <3>2. Agrees(Depth)
      BY <1>9, <3>1
    <3>3. f[Depth] \in V /\ ~IsLeaf(f[Depth])
      BY <1>6, <2>1, <3>1
    <3>4. f[Depth] \in Dirs(recs) /\ first[f[Depth]] \in Kids(recs, P, f[Depth])
      BY <1>3, <3>3
    <3>5. /\ Len(P[first[f[Depth]]]) = Len(P[f[Depth]]) + 1
          /\ first[f[Depth]] \in V
      BY <1>3, <3>3, <3>4, KidFacts
    <3> QED BY <1>2, <1>8, <3>2, <3>3, <3>5 DEF Agrees
  <2> HIDE DEF leaves
  <2> QED BY <2>1, <2>2, Least
<1>11. d \in 0 .. Depth /\ d \in Nat /\ IsLeaf(f[d]) /\ \A k \in 0 .. d - 1 : ~IsLeaf(f[k])
  <2>1. \A k \in 0 .. d - 1 : k \in 0 .. Depth /\ ~(d <= k)
    BY <1>2
  <2> QED BY <1>10, <2>1
<1> HIDE DEF leaves, IsLeaf
<1>12. \A k \in 0 .. d : Agrees(k)
  BY <1>9, <1>11
<1>13. \A k \in 0 .. Depth : k >= d => f[k] = f[d]
  <2> DEFINE T == {k \in 0 .. Depth : k >= d => f[k] = f[d]}
  <2>1. 0 \in T
    BY <1>2, <1>11
  <2>2. \A k \in 1 .. Depth : k - 1 \in T => k \in T
    <3> TAKE k \in 1 .. Depth
    <3> HAVE k - 1 \in T
    <3>1. CASE k - 1 >= d
      <4>1. f[k] = first[f[d]]
        BY <1>5, <3>1
      <4>2. first[f[d]] = f[d]
        BY <1>3, <1>6, <1>11
      <4> QED BY <4>1, <4>2
    <3>2. CASE k - 1 < d
      BY <1>11, <3>2
    <3> QED BY <1>11, <3>1, <3>2
  <2> HIDE DEF T
  <2>3. \A k \in 0 .. Depth : k \in T
    BY <1>2, <2>1, <2>2, Induct
  <2> QED BY <2>3 DEF T
(* What was visited are the records down to it, each of them once.               *)
<1>14. depth = d
  <2> DEFINE g == [k \in 0 .. d |-> f[k]]
  <2>1. \A k \in 0 .. d : k \in 0 .. Depth
    BY <1>2, <1>11
  <2>2. \A s \in visited : \E k \in 0 .. d : f[k] = s
    <3> TAKE s \in visited
    <3>1. PICK k \in 0 .. Depth : f[k] = s
      BY DEF visited
    <3>2. k <= d \/ k >= d
      BY <1>11
    <3>3. CASE k <= d
      BY <1>11, <3>1, <3>3
    <3>4. CASE k >= d
      <4>1. f[d] = s /\ d \in 0 .. d
        BY <1>11, <1>13, <3>1, <3>4
      <4> QED BY <4>1
    <3> QED BY <3>2, <3>3, <3>4
  <2>3. g \in Surjection(0 .. d, visited)
    <3>1. g \in [0 .. d -> visited]
      BY <2>1 DEF visited
    <3> QED BY <2>2, <3>1 DEF Surjection
  <2>4. \A j, k \in 0 .. d : f[j] = f[k] => j = k
    <3> TAKE j, k \in 0 .. d
    <3>1. Len(P[f[j]]) = m + j /\ Len(P[f[k]]) = m + k
      BY <1>12
    <3> QED BY <1>2, <3>1
  <2>5. g \in Injection(0 .. d, visited)
    <3>1. g \in [0 .. d -> visited]
      BY <2>3 DEF Surjection
    <3> QED BY <2>4, <3>1 DEF Injection, IsInjective
  <2>6. IsFiniteSet(0 .. d) /\ Cardinality(0 .. d) = d + 1
    <3>1. 0 \in Int /\ d \in Int /\ ~(0 > d) /\ d - 0 + 1 = d + 1
      BY <1>11
    <3> QED BY <3>1, FS_Interval
  <2> HIDE DEF g
  <2>7. Cardinality(visited) = Cardinality(0 .. d)
    BY <2>3, <2>5, <2>6, FS_Surjection
  <2> QED BY <1>11, <2>6, <2>7
<1> DEFINE tail == [k \in 1 .. d |-> NameOf(f[k])]
<1>15. f[Depth] = f[d] /\ Depth \in 0 .. Depth
  BY <1>2, <1>11, <1>13
<1>16. Leaf.id = f[d] /\ Leaf.path = a \o tail /\ f[d] \in V /\ Agrees(d)
  <2>1. d \in 0 .. d /\ d \in 0 .. Depth
    BY <1>11
  <2> HIDE DEF depth, Agrees
  <2> QED BY <1>1, <1>6, <1>12, <1>14, <1>15, <2>1
<1>17. P[f[d]] \in Seq(Names) /\ Len(P[f[d]]) = m + d
  BY <1>8, <1>16
<1>18. tail \in Seq(Names) /\ Len(tail) = d /\ \A k \in 1 .. d : tail[k] = NameOf(f[k])
  <2>1. \A k \in 1 .. d : NameOf(f[k]) \in Names
    <3> TAKE k \in 1 .. d
    <3>1. m + k \in 1 .. m + d /\ P[f[d]][m + k] = NameOf(f[k])
      BY <1>2, <1>11, <1>16
    <3> QED BY <1>17, <3>1, LenProperties
  <2>2. tail \in [1 .. d -> Names]
    BY <2>1
  <2>3. tail \in Seq(Names)
    BY <1>11, <2>2, SeqDef
  <2>4. DOMAIN tail = 1 .. Len(tail) /\ Len(tail) \in Nat /\ DOMAIN tail = 1 .. d
    BY <2>2, <2>3, LenProperties
  <2> QED BY <1>11, <2>3, <2>4
<1> HIDE DEF tail
<1>19. /\ a \o tail \in Seq(Names) /\ Len(a \o tail) = m + d
       /\ \A i \in 1 .. m + d : (a \o tail)[i] = IF i <= m THEN a[i] ELSE tail[i - m]
  BY <1>2, <1>18, ConcatProperties, ZenonT(60)
<1>20. \A i \in 1 .. m + d : (a \o tail)[i] = P[f[d]][i]
  <2> TAKE i \in 1 .. m + d
  <2>1. CASE i <= m
    <3>1. i \in 1 .. m
      BY <1>2, <1>11, <2>1
    <3> QED BY <1>16, <1>19, <2>1, <3>1
  <2>2. CASE ~(i <= m)
    <3>1. i - m \in 1 .. d /\ m + (i - m) = i
      BY <1>2, <1>11, <2>2
    <3>2. P[f[d]][m + (i - m)] = NameOf(f[i - m])
      BY <1>16, <3>1
    <3>3. (a \o tail)[i] = tail[i - m] /\ tail[i - m] = NameOf(f[i - m])
      BY <1>18, <1>19, <2>2, <3>1
    <3> QED BY <3>1, <3>2, <3>3
  <2> QED BY <2>1, <2>2
<1>21. a \o tail = P[f[d]]
  BY <1>17, <1>19, <1>20, SeqEqual, ZenonT(60)
<1>22. recs[f[d]].isdir => Kids(recs, P, f[d]) = {}
  <2> SUFFICES ASSUME recs[f[d]].isdir PROVE Kids(recs, P, f[d]) = {}
    OBVIOUS
  <2>1. f[d] \in Dirs(recs) /\ recs[f[d]].sub = 0
    BY <1>11, <1>16 DEF Dirs, IsLeaf
  <2>2. Linked(recs, Kids(recs, P, f[d]), f[d]) /\ 0 \notin Kids(recs, P, f[d])
    BY <2>1, KidFacts
  <2> QED BY <2>1, <2>2 DEF Linked, FirstOf
<1>23. Len(P[f[d]]) >= m /\ SubSeq(P[f[d]], 1, m) = a
  <2>1. m \in 0 .. Len(P[f[d]]) /\ Len(P[f[d]]) >= m
    BY <1>2, <1>11, <1>17
  <2>2. /\ SubSeq(P[f[d]], 1, m) \in Seq(Names) /\ Len(SubSeq(P[f[d]], 1, m)) = m
        /\ \A j \in 1 .. m : SubSeq(P[f[d]], 1, m)[j] = P[f[d]][j]
    BY <1>17, <2>1, PrefixFacts
  <2>3. \A j \in 1 .. m : SubSeq(P[f[d]], 1, m)[j] = a[j]
    BY <1>16, <2>2
  <2> QED BY <1>2, <2>1, <2>2, <2>3, SeqEqual
<1> QED BY <1>16, <1>21, <1>22, <1>23 DEF LeafIs
=============================================================================
