-------------------------- MODULE RootRefresh_proofs --------------------------
(***************************************************************************)
(* Theorems about RootRefresh, for any names, any depth, any number of        *)
(* records, edits and failures.                                             *)
(***************************************************************************)
EXTENDS RootRecords_proofs

-----------------------------------------------------------------------------
(***************************************************************************)
(* The invariant.  s is the stack, c the place of the process and a the       *)
(* action that refreshStep returned.                                        *)
(***************************************************************************)
Item == [name : Names, isdir : BOOLEAN, isignore : BOOLEAN, attr : Attr]

RefreshIter == [rid : Ids \ {0}, name : Nat, stage : Stages, prog : Nat, files : Seq(Item)]

Busy == {"missing", "attr", "hist", "upload", "mkdir", "record", "unlink", "forget"}

DelTypes == {"DELDIR", "DELFILE"}

Action == [type : {"NONE", "ADDDIR", "ADDFILE", "MODFILE"} \cup DelTypes, path : AnyPath,
           isignore : BOOLEAN, keephist : BOOLEAN, attr : Attr, pending : BOOLEAN,
           histfailed : BOOLEAN]

(* A directory on the stack; from the second step of RECUR on, prog is the     *)
(* child to go on from.                                                     *)
Level(R, P, it) ==
  /\ it.rid \in Dirs(R) /\ ~R[it.rid].isignore
  /\ it.stage # "INIT" => it.name = R[it.rid].name
  /\ it.stage = "RECUR" => it.prog \in Kids(R, P, it.rid) \cup {0}

Stack(R, P, s) ==
  /\ s \in Seq(RefreshIter) /\ Len(s) >= 1 /\ s[1].rid = ROOT
  /\ \A i \in 1 .. Len(s) : Level(R, P, s[i])
  /\ \A i \in 1 .. Len(s) - 1 : s[i + 1].rid \in Kids(R, P, s[i].rid) /\ s[i].stage \in {"RECUR", "RETURN"}

(* The listing bears the record r out, or else r is what is being deleted now.  *)
Borne(R, files, r) == \E k \in DOMAIN files : files[k].name = R[r].name /\ files[k].isdir = R[r].isdir

Doomed(P, c, a, r) == c \in {"hist", "unlink", "forget"} /\ a.type \in DelTypes /\ P[r] = a.path

TopIs(R, P, it, c, a) ==
  /\ it.stage \in {"REMOVE", "NEW"} =>
       /\ \A k, l \in DOMAIN it.files : it.files[k].name = it.files[l].name => k = l
       /\ DOMAIN it.files # {} => Len(P[it.rid]) < Depth
  /\ it.stage = "REMOVE" =>
       /\ it.prog \in Kids(R, P, it.rid) \cup {0}
       /\ it.prog # 0 => \A r \in Kids(R, P, it.rid) :
            R[r].name < R[it.prog].name => Borne(R, it.files, r) \/ Doomed(P, c, a, r)
  /\ it.stage = "NEW" =>
       \A r \in Kids(R, P, it.rid) : Borne(R, it.files, r) \/ Doomed(P, c, a, r)
  /\ it.stage \in {"INIT", "REDOUPPER"} => c \in {"step", "stage"}

(* The action concerns an entry of the directory on top of the stack.           *)
DelIs(R, P, it, a) ==
  \E r \in Kids(R, P, it.rid) :
    /\ P[r] = a.path /\ R[r].isdir = (a.type = "DELDIR")
    /\ it.stage = "REMOVE" => it.prog # 0 /\ R[r].name < R[it.prog].name

ChangeIs(R, P, it, c, a) ==
  /\ it.stage = "NEW" /\ it.prog \in DOMAIN it.files
  /\ a.path = Append(P[it.rid], it.files[it.prog].name)
  /\ \/ /\ a.type = "MODFILE" /\ c # "mkdir"
        /\ \E r \in Active(R) : P[r] = a.path /\ ~R[r].isdir /\ ~R[r].isignore
     \/ /\ a.type = (IF it.files[it.prog].isdir THEN "ADDDIR" ELSE "ADDFILE")
        /\ \A r \in Active(R) : P[r] # a.path
        /\ c \in {"attr", "upload", "missing"} => a.type = "ADDFILE"
        /\ c = "mkdir" => a.type = "ADDDIR"
        /\ ~a.keephist /\ c # "hist"

ActIs(R, P, it, c, a) ==
  /\ it.stage \in {"REMOVE", "NEW"} /\ a.path \in Paths
  /\ IF a.type \in DelTypes THEN c \in {"hist", "unlink", "forget"} /\ DelIs(R, P, it, a)
     ELSE c \notin {"unlink", "forget"} /\ ChangeIs(R, P, it, c, a)

Going(R, P, s, c, a) ==
  /\ Stack(R, P, s) /\ TopIs(R, P, s[Len(s)], c, a)
  /\ c \in Busy => ActIs(R, P, s[Len(s)], c, a)

Shaped(R, n, P, s, c, a) ==
  /\ Forest(R, P) /\ Recycled(R, n)
  /\ c \notin Ended => Going(R, P, s, c, a)

-----------------------------------------------------------------------------
LEMMA FunctionIsSeq ==
  ASSUME NEW S, NEW n \in Nat, NEW t \in [1 .. n -> S]
  PROVE  t \in Seq(S) /\ Len(t) = n
<1>1. t \in Seq(S)
  BY SeqDef
<1>2. DOMAIN t = 1 .. Len(t) /\ Len(t) \in Nat /\ DOMAIN t = 1 .. n
  BY <1>1, LenProperties
<1> QED BY <1>1, <1>2

(* What may be done to the stack.                                            *)
LEMMA TopFacts ==
  ASSUME NEW R, NEW P, NEW s, Stack(R, P, s)
  PROVE  /\ Len(s) \in Nat \ {0} /\ s \in [1 .. Len(s) -> RefreshIter]
         /\ s[Len(s)] \in RefreshIter /\ Level(R, P, s[Len(s)])
         /\ s[Len(s)].rid \in Dirs(R)
<1>1. Len(s) \in Nat \ {0} /\ s \in [1 .. Len(s) -> RefreshIter]
  BY LenProperties DEF Stack
<1>2. Len(s) \in 1 .. Len(s)
  BY <1>1
<1> QED BY <1>1, <1>2 DEF Stack, Level

LEMMA RetopStack ==
  ASSUME NEW R, NEW P, NEW s, Stack(R, P, s), NEW it \in RefreshIter, Level(R, P, it),
         it.rid = s[Len(s)].rid
  PROVE  Stack(R, P, [s EXCEPT ![Len(s)] = it])
         /\ Len([s EXCEPT ![Len(s)] = it]) = Len(s) /\ [s EXCEPT ![Len(s)] = it][Len(s)] = it
<1> DEFINE m == Len(s)
           t == [s EXCEPT ![m] = it]
<1>1. /\ m \in Nat \ {0} /\ s \in [1 .. m -> RefreshIter] /\ s[1].rid = ROOT
      /\ \A i \in 1 .. m : Level(R, P, s[i])
      /\ \A i \in 1 .. m - 1 : s[i + 1].rid \in Kids(R, P, s[i].rid) /\ s[i].stage \in {"RECUR", "RETURN"}
  BY TopFacts DEF Stack
<1>2. /\ t \in [1 .. m -> RefreshIter] /\ t[m] = it /\ \A i \in 1 .. m : i # m => t[i] = s[i]
  BY <1>1
<1> HIDE DEF t
<1>3. t \in Seq(RefreshIter) /\ Len(t) = m
  <2> HIDE DEF m
  <2> QED BY <1>1, <1>2, FunctionIsSeq
<1>4. \A i \in 1 .. m : t[i].rid = s[i].rid /\ Level(R, P, t[i])
  BY <1>1, <1>2
<1>5. t[1].rid = ROOT
  BY <1>1, <1>4
<1>6. \A i \in 1 .. m - 1 : t[i + 1].rid \in Kids(R, P, t[i].rid) /\ t[i].stage \in {"RECUR", "RETURN"}
  <2> TAKE i \in 1 .. m - 1
  <2>1. i \in 1 .. m /\ i + 1 \in 1 .. m /\ i # m
    BY <1>1
  <2>2. t[i + 1].rid = s[i + 1].rid /\ t[i] = s[i]
    BY <1>2, <1>4, <2>1
  <2> QED BY <1>1, <2>2
<1> HIDE DEF m
<1>7. Stack(R, P, t)
  BY <1>1, <1>3, <1>4, <1>5, <1>6 DEF Stack
<1> QED BY <1>2, <1>3, <1>7, Zenon DEF t, m

LEMMA PopStack ==
  ASSUME NEW R, NEW P, NEW s, Stack(R, P, s), Len(s) >= 2
  PROVE  /\ Stack(R, P, SubSeq(s, 1, Len(s) - 1)) /\ Len(SubSeq(s, 1, Len(s) - 1)) = Len(s) - 1
         /\ SubSeq(s, 1, Len(s) - 1)[Len(s) - 1] = s[Len(s) - 1]
         /\ s[Len(s) - 1].stage \in {"RECUR", "RETURN"}
         /\ s[Len(s)].rid \in Kids(R, P, s[Len(s) - 1].rid)
<1> DEFINE m == Len(s)
           t == SubSeq(s, 1, m - 1)
<1>1. /\ m \in Nat \ {0, 1} /\ s \in [1 .. m -> RefreshIter] /\ s[1].rid = ROOT
      /\ \A i \in 1 .. m : Level(R, P, s[i])
      /\ \A i \in 1 .. m - 1 : s[i + 1].rid \in Kids(R, P, s[i].rid) /\ s[i].stage \in {"RECUR", "RETURN"}
  BY TopFacts DEF Stack
<1>2. t \in Seq(RefreshIter) /\ Len(t) = m - 1 /\ \A i \in 1 .. m - 1 : t[i] = s[i]
  <2>1. 1 \in Int /\ m - 1 \in Int /\ \A i \in 1 .. m - 1 : s[i] \in RefreshIter
    BY <1>1
  <2>2. /\ SubSeq(s, 1, m - 1) \in Seq(RefreshIter)
        /\ Len(SubSeq(s, 1, m - 1)) = IF 1 <= m - 1 THEN m - 1 - 1 + 1 ELSE 0
        /\ \A i \in 1 .. m - 1 - 1 + 1 : SubSeq(s, 1, m - 1)[i] = s[1 + i - 1]
    <3> HIDE DEF m
    <3> QED BY <2>1, SubSeqProperties
  <2>3. 1 <= m - 1 /\ m - 1 - 1 + 1 = m - 1 /\ \A i \in 1 .. m - 1 : 1 + i - 1 = i
    BY <1>1
  <2> QED BY <2>2, <2>3
<1> HIDE DEF t
<1>3. \A i \in 1 .. m - 1 : Level(R, P, t[i])
  <2>1. \A i \in 1 .. m - 1 : i \in 1 .. m
    BY <1>1
  <2> QED BY <1>1, <1>2, <2>1
<1>4. t[1].rid = ROOT /\ m - 1 >= 1
  BY <1>1, <1>2
<1>5. \A i \in 1 .. (m - 1) - 1 : t[i + 1].rid \in Kids(R, P, t[i].rid) /\ t[i].stage \in {"RECUR", "RETURN"}
  <2> TAKE i \in 1 .. (m - 1) - 1
  <2>1. i \in 1 .. m - 1 /\ i + 1 \in 1 .. m - 1
    BY <1>1
  <2> QED BY <1>1, <1>2, <2>1
<1>6. Stack(R, P, t)
  BY <1>2, <1>3, <1>4, <1>5 DEF Stack
<1>7. m - 1 \in 1 .. m - 1 /\ (m - 1) + 1 = m
  BY <1>1
<1>8. s[m].rid \in Kids(R, P, s[m - 1].rid) /\ s[m - 1].stage \in {"RECUR", "RETURN"}
  BY <1>1, <1>7
<1> QED BY <1>2, <1>6, <1>7, <1>8 DEF t

LEMMA PushStack ==
  ASSUME NEW R, NEW P, NEW s, Stack(R, P, s), s[Len(s)].stage \in {"RECUR", "RETURN"},
         NEW it \in RefreshIter, Level(R, P, it), it.rid \in Kids(R, P, s[Len(s)].rid)
  PROVE  Stack(R, P, Append(s, it)) /\ Len(Append(s, it)) = Len(s) + 1 /\ Append(s, it)[Len(s) + 1] = it
<1> DEFINE m == Len(s)
           t == Append(s, it)
<1>1. /\ m \in Nat \ {0} /\ s \in Seq(RefreshIter) /\ s[1].rid = ROOT
      /\ \A i \in 1 .. m : Level(R, P, s[i])
      /\ \A i \in 1 .. m - 1 : s[i + 1].rid \in Kids(R, P, s[i].rid) /\ s[i].stage \in {"RECUR", "RETURN"}
  BY TopFacts DEF Stack
<1>2. t \in Seq(RefreshIter) /\ Len(t) = m + 1 /\ t[m + 1] = it /\ \A i \in 1 .. m : t[i] = s[i]
  BY <1>1, AppendProperties
<1> HIDE DEF t
<1>3. \A i \in 1 .. m + 1 : Level(R, P, t[i])
  <2>1. \A i \in 1 .. m + 1 : i \in 1 .. m \/ i = m + 1
    BY <1>1
  <2> QED BY <1>1, <1>2, <2>1
<1>4. t[1].rid = ROOT /\ m + 1 >= 1
  BY <1>1, <1>2
<1>5. \A i \in 1 .. (m + 1) - 1 : t[i + 1].rid \in Kids(R, P, t[i].rid) /\ t[i].stage \in {"RECUR", "RETURN"}
  <2> TAKE i \in 1 .. (m + 1) - 1
  <2>1. i \in 1 .. m
    BY <1>1
  <2>2. CASE i = m
    BY <1>2, <2>1, <2>2
  <2>3. CASE i # m
    <3>1. i \in 1 .. m - 1 /\ i + 1 \in 1 .. m
      BY <1>1, <2>1, <2>3
    <3> QED BY <1>1, <1>2, <2>1, <3>1
  <2> QED BY <2>2, <2>3
<1>6. Stack(R, P, t)
  BY <1>2, <1>3, <1>4, <1>5 DEF Stack
<1> QED BY <1>2, <1>6 DEF t, m

(* The stack spells the path of the directory on top of it,                      *)
LEMMA StackPath ==
  ASSUME NEW R, NEW P, NEW s, Forest(R, P), Stack(R, P, s)
  PROVE  \A i \in 1 .. Len(s) :
           /\ P[s[i].rid] \in Seq(Names) /\ Len(P[s[i].rid]) = i - 1
           /\ \A k \in 1 .. i - 1 : P[s[i].rid][k] = R[s[k + 1].rid].name
<1> DEFINE m == Len(s)
           Spelt(i) == /\ P[s[i].rid] \in Seq(Names) /\ Len(P[s[i].rid]) = i - 1
                       /\ \A k \in 1 .. i - 1 : P[s[i].rid][k] = R[s[k + 1].rid].name
           T == {j \in 0 .. m - 1 : Spelt(j + 1)}
<1>1. /\ m \in Nat \ {0} /\ s[1].rid = ROOT
      /\ \A i \in 1 .. m : s[i].rid \in Dirs(R)
      /\ \A i \in 1 .. m - 1 : s[i + 1].rid \in Kids(R, P, s[i].rid)
  BY TopFacts DEF Stack, Level
<1>2. 0 \in T
  <2>1. P[ROOT] = <<>> /\ Len(<<>>) = 0 /\ <<>> \in Seq(Names)
    BY EmptySeq DEF Forest, Placed
  <2>2. Spelt(1)
    BY <1>1, <2>1
  <2>3. 0 \in 0 .. m - 1 /\ 0 + 1 = 1
    BY <1>1
  <2> QED BY <2>2, <2>3
<1>3. \A j \in 1 .. m - 1 : j - 1 \in T => j \in T
  <2> TAKE j \in 1 .. m - 1
  <2> HAVE j - 1 \in T
  <2>1. j \in 1 .. m /\ j - 1 + 1 = j /\ j + 1 - 1 = j /\ j \in Nat
    BY <1>1
  <2>2. Spelt(j)
    BY <2>1
  <2> DEFINE u == s[j].rid
             v == s[j + 1].rid
  <2>3. u \in Dirs(R) /\ v \in Kids(R, P, u)
    BY <1>1, <2>1
  <2>4. P[v] = Append(P[u], R[v].name) /\ P[u] \in Seq(Names) /\ R[v].name \in Names
    BY <2>3, KidFacts, SMTT(60)
  <2>5. Len(P[u]) = j - 1 /\ \A k \in 1 .. j - 1 : P[u][k] = R[s[k + 1].rid].name
    BY <2>2
  <2> HIDE DEF u
  <2>6. /\ P[v] \in Seq(Names) /\ Len(P[v]) = j
        /\ P[v][j] = R[v].name /\ \A k \in 1 .. j - 1 : P[v][k] = P[u][k]
    <3> HIDE DEF v
    <3>1. /\ P[v] \in Seq(Names) /\ Len(P[v]) = j - 1 + 1
          /\ P[v][Len(P[v])] = R[v].name /\ \A k \in 1 .. j - 1 : P[v][k] = P[u][k]
      BY <2>4, <2>5, AppendPath
    <3> QED BY <2>1, <3>1
  <2>7. \A k \in 1 .. j : P[v][k] = R[s[k + 1].rid].name
    <3> TAKE k \in 1 .. j
    <3>1. k = j \/ k \in 1 .. j - 1
      BY <2>1
    <3> QED BY <2>5, <2>6, <3>1
  <2>8. Spelt(j + 1)
    BY <2>1, <2>6, <2>7
  <2> QED BY <2>8
<1> HIDE DEF T
<1>4. \A j \in 0 .. m - 1 : j \in T
  <2>1. m - 1 \in Nat
    BY <1>1
  <2> HIDE DEF m
  <2> QED BY <1>2, <1>3, <2>1, Induct
<1>5. \A i \in 1 .. m : i - 1 \in 0 .. m - 1 /\ (i - 1) + 1 = i
  BY <1>1
<1>6. \A i \in 1 .. m : Spelt(i)
  <2> TAKE i \in 1 .. m
  <2>1. Spelt((i - 1) + 1)
    BY <1>4, <1>5 DEF T
  <2> HIDE DEF Spelt
  <2> QED BY <1>5, <2>1
<1> QED BY <1>6

(* and so do the names kept in it, once each level has listed its directory.     *)
LEMMA PathAtIs ==
  ASSUME NEW P, Forest(recs, P), Stack(recs, P, restate)
  PROVE  /\ \A i \in 1 .. Len(restate) :
              i = 1 \/ restate[i].stage # "INIT" => PathAt(i) = P[restate[i].rid]
         /\ InitPath = P[Top.rid]
         /\ Top.stage # "INIT" => TopPath = P[Top.rid]
<1> DEFINE m == Len(restate)
<1>1. /\ m \in Nat \ {0} /\ \A i \in 1 .. m : restate[i].rid \in Dirs(recs) /\ restate[i].rid \in Ids
      /\ \A i \in 1 .. m : restate[i].stage # "INIT" => restate[i].name = recs[restate[i].rid].name
      /\ \A i \in 1 .. m - 1 : /\ restate[i + 1].rid \in Kids(recs, P, restate[i].rid)
                               /\ restate[i].stage # "INIT"
      /\ restate[1].rid = ROOT
  BY TopFacts DEF Stack, Level, Dirs, Active
<1>2. \A i \in 1 .. m :
        /\ P[restate[i].rid] \in Seq(Names) /\ Len(P[restate[i].rid]) = i - 1
        /\ \A k \in 1 .. i - 1 : P[restate[i].rid][k] = recs[restate[k + 1].rid].name
  BY StackPath
<1>3. ASSUME NEW i \in 1 .. m, i = 1 \/ restate[i].stage # "INIT"
      PROVE  PathAt(i) = P[restate[i].rid]
  <2>1. \A k \in 1 .. i - 1 : restate[k + 1].name = recs[restate[k + 1].rid].name
    <3> TAKE k \in 1 .. i - 1
    <3>1. k + 1 \in 1 .. m /\ (k + 1 = i \/ k + 1 \in 1 .. m - 1)
      BY <1>1
    <3>2. restate[k + 1].stage # "INIT"
      BY <1>1, <1>3, <3>1
    <3> QED BY <1>1, <3>1, <3>2
  <2> DEFINE p == P[restate[i].rid]
             q == [k \in 1 .. i - 1 |-> restate[k + 1].name]
  <2>2. p \in Seq(Names) /\ Len(p) = i - 1 /\ \A k \in 1 .. i - 1 : p[k] = recs[restate[k + 1].rid].name
    BY <1>2
  <2>3. p = [k \in 1 .. Len(p) |-> p[k]]
    <3> HIDE DEF p
    <3> QED BY <2>2, LenProperties
  <2> HIDE DEF p
  <2>4. p = [k \in 1 .. i - 1 |-> p[k]]
    BY <2>2, <2>3
  <2>5. p = q
    BY <2>1, <2>2, <2>4
  <2> QED BY <2>5 DEF PathAt, p
<1>4. m \in 1 .. m
  BY <1>1
<1>5. InitPath = P[Top.rid]
  <2>1. CASE m = 1
    <3>1. P[Top.rid] = <<>>
      BY <1>1, <2>1 DEF Forest, Placed, Top
    <3> QED BY <2>1, <3>1 DEF InitPath
  <2>2. CASE m # 1
    <3>1. m - 1 \in 1 .. m - 1 /\ m - 1 \in 1 .. m /\ (m - 1) + 1 = m
      <4>1. m \in Nat \ {0, 1}
        BY <1>1, <2>2
      <4> HIDE DEF m
      <4> QED BY <4>1
    <3>2. PathAt(m - 1) = P[restate[m - 1].rid]
      BY <1>1, <1>3, <3>1
    <3>3. Top.rid \in Kids(recs, P, restate[m - 1].rid)
      BY <1>1, <3>1 DEF Top
    <3>4. P[Top.rid] = Append(P[restate[m - 1].rid], NameOf(Top.rid))
      BY <3>3 DEF Kids, NameOf
    <3> QED BY <2>2, <3>2, <3>4 DEF InitPath
  <2> QED BY <2>1, <2>2
<1> QED BY <1>3, <1>4, <1>5 DEF TopPath, Top

(* A change of the registry at or below the top of the stack leaves it valid.   *)
LEMMA KeepStack ==
  ASSUME NEW R, NEW P, NEW s, Forest(R, P), Stack(R, P, s), s[Len(s)].stage # "RECUR",
         NEW S, NEW Q, SameInUse(R, S),
         \A r \in Active(R) : Len(P[r]) < Len(s) => r \in Active(S),
         \A r \in Active(R) \cap Active(S) : Q[r] = P[r]
  PROVE  Stack(S, Q, s)
<1> DEFINE m == Len(s)
<1>1. /\ m \in Nat \ {0} /\ s \in Seq(RefreshIter) /\ m >= 1 /\ s[1].rid = ROOT
      /\ \A i \in 1 .. m : Level(R, P, s[i]) /\ s[i].rid \in Dirs(R) /\ s[i].rid \in Active(R)
      /\ \A i \in 1 .. m - 1 : s[i + 1].rid \in Kids(R, P, s[i].rid) /\ s[i].stage \in {"RECUR", "RETURN"}
  BY TopFacts DEF Stack, Level, Dirs
<1>2. \A i \in 1 .. m : P[s[i].rid] \in Seq(Names) /\ Len(P[s[i].rid]) = i - 1
  BY StackPath
<1>3. \A i \in 1 .. m : s[i].rid \in Active(S)
  <2> TAKE i \in 1 .. m
  <2>1. i - 1 < m
    BY <1>1
  <2> QED BY <1>1, <1>2, <2>1
<1>4. \A i \in 1 .. m - 1 : \A r \in Kids(R, P, s[i].rid) : r \in Kids(S, Q, s[i].rid)
  <2> TAKE i \in 1 .. m - 1
  <2> TAKE r \in Kids(R, P, s[i].rid)
  <2>1. i \in 1 .. m /\ (i - 1) + 1 < m
    BY <1>1
  <2>2. r \in Active(R) /\ P[r] = Append(P[s[i].rid], R[r].name) /\ Len(P[r]) = Len(P[s[i].rid]) + 1
    BY <1>1, <2>1, KidFacts, SMTT(60)
  <2>3. r \in Active(S)
    BY <1>2, <2>1, <2>2
  <2>4. s[i].rid \in Active(R) \cap Active(S)
    BY <1>1, <1>3, <2>1
  <2> QED BY <2>2, <2>3, <2>4 DEF Kids, SameInUse
<1>5. \A i \in 1 .. m : Level(S, Q, s[i])
  <2> TAKE i \in 1 .. m
  <2> DEFINE it == s[i]
  <2>1. Level(R, P, it) /\ it.rid \in Active(R) \cap Active(S) /\ R[it.rid].isdir
    BY <1>1, <1>3 DEF Dirs
  <2>2. S[it.rid].name = R[it.rid].name /\ S[it.rid].isdir /\ S[it.rid].isignore = R[it.rid].isignore
    BY <2>1 DEF SameInUse
  <2>3. it.stage = "RECUR" => it.prog \in Kids(S, Q, it.rid) \cup {0}
    <3>1. CASE i = m
      BY <3>1
    <3>2. CASE i # m
      <4>1. i \in 1 .. m - 1
        BY <1>1, <3>2
      <4> QED BY <1>4, <2>1, <4>1 DEF Level
    <3> QED BY <3>1, <3>2
  <2> HIDE DEF it
  <2>4. Level(S, Q, it)
    BY <2>1, <2>2, <2>3 DEF Level, Dirs
  <2> QED BY <2>4 DEF it
<1> QED BY <1>1, <1>4, <1>5 DEF Stack

-----------------------------------------------------------------------------
(* A listing is in order and has each name once.                               *)
LEMMA SortedIs ==
  ASSUME NEW S \in SUBSET Nat, IsFiniteSet(S)
  PROVE  /\ Cardinality(S) \in Nat /\ Sorted(S) \in [1 .. Cardinality(S) -> S]
         /\ \A i, j \in 1 .. Cardinality(S) : i < j => Sorted(S)[i] < Sorted(S)[j]
<1> DEFINE Orders(s, k, U) == s \in [1 .. k -> U] /\ \A i, j \in 1 .. k : i < j => s[i] < s[j]
           c == Cardinality(S)
           T == {k \in 0 .. c : \A U \in SUBSET S : Cardinality(U) = k => \E s : Orders(s, k, U)}
<1>1. c \in Nat
  BY FS_CardinalityType
<1>2. \A U \in SUBSET S : IsFiniteSet(U)
  BY FS_Subset
<1>3. 0 \in T
  <2>1. \A U \in SUBSET S : Orders([i \in 1 .. 0 |-> i], 0, U)
    OBVIOUS
  <2>2. 0 \in 0 .. c
    BY <1>1
  <2> HIDE DEF Orders
  <2> QED BY <2>1, <2>2
<1>4. \A k \in 1 .. c : k - 1 \in T => k \in T
  <2> TAKE k \in 1 .. c
  <2> HAVE k - 1 \in T
  <2> SUFFICES ASSUME NEW U \in SUBSET S, Cardinality(U) = k PROVE \E s : Orders(s, k, U)
    OBVIOUS
  <2>1. k \in Nat \ {0} /\ IsFiniteSet(U)
    BY <1>1, <1>2
  <2>2. U # {} /\ U \in SUBSET Nat
    BY <2>1, FS_EmptySet
  <2>3. PICK x \in U : \A y \in U : x <= y
    BY <2>2, Least
  <2> DEFINE V == U \ {x}
  <2>4. V \in SUBSET S /\ Cardinality(V) = k - 1
    BY <2>1, FS_RemoveElement
  <2>5. PICK t : Orders(t, k - 1, V)
    <3> HIDE DEF Orders, V
    <3> QED BY <2>4
  <2>6. t \in [1 .. k - 1 -> V] /\ \A i, j \in 1 .. k - 1 : i < j => t[i] < t[j]
    BY <2>5
  <2> DEFINE s == [i \in 1 .. k |-> IF i = 1 THEN x ELSE t[i - 1]]
  <2>7. \A i \in 1 .. k : i # 1 => i - 1 \in 1 .. k - 1
    BY <2>1
  <2>8. /\ s \in [1 .. k -> U] /\ s[1] = x
        /\ \A i \in 1 .. k : i # 1 => s[i] = t[i - 1] /\ s[i] \in V
    <3>1. \A i \in 1 .. k : i # 1 => t[i - 1] \in V
      BY <2>6, <2>7
    <3> QED BY <2>1, <3>1
  <2> HIDE DEF s
  <2>9. \A y \in V : x < y
    <3>1. \A y \in U : x \in Nat /\ y \in Nat
      BY <2>2
    <3> QED BY <2>3, <3>1
  <2>10. \A i, j \in 1 .. k : i < j => s[i] < s[j]
    <3> TAKE i, j \in 1 .. k
    <3> HAVE i < j
    <3>1. j # 1 /\ i \in Nat /\ j \in Nat
      BY <2>1
    <3>2. CASE i = 1
      BY <2>8, <2>9, <3>1, <3>2
    <3>3. CASE i # 1
      <4>1. i - 1 < j - 1
        BY <3>1
      <4> QED BY <2>6, <2>7, <2>8, <3>1, <3>3, <4>1
    <3> QED BY <3>2, <3>3
  <2>11. Orders(s, k, U)
    BY <2>8, <2>10
  <2> HIDE DEF Orders
  <2> QED BY <2>11
<1>5. \E s : Orders(s, c, S)
  <2> HIDE DEF T, c
  <2>1. \A k \in 0 .. c : k \in T
    BY <1>1, <1>3, <1>4, Induct
  <2>2. c \in 0 .. c
    BY <1>1
  <2> HIDE DEF Orders
  <2>3. c \in T
    BY <2>1, <2>2
  <2> QED BY <2>3 DEF T, c
<1>6. Orders(Sorted(S), c, S)
  <2>1. Sorted(S) = CHOOSE s : Orders(s, c, S)
    BY DEF Sorted
  <2> HIDE DEF Orders
  <2> QED BY <1>5, <2>1
<1> QED BY <1>1, <1>6

Present == {p \in Paths : local[p] # None}

ListingOk(p, files) ==
  /\ files \in Seq(Item)
  /\ \A k, l \in DOMAIN files : files[k].name = files[l].name => k = l
  /\ DOMAIN files # {} => Len(p) < Depth

LEMMA ListingIs ==
  ASSUME local \in [Paths -> Nodes], IsFiniteSet(Present), NEW p \in AnyPath
  PROVE  ListingOk(p, Listing(p))
<1> DEFINE names == IF Len(p) < Depth THEN {n \in Names : local[Append(p, n)] # None} ELSE {}
           order == Sorted(names)
           c == Cardinality(names)
           Entry(i) == LET q == Append(p, order[i]) IN
             [name |-> order[i], isdir |-> local[q] = Dir, isignore |-> q \in ignored,
              attr |-> IF IsFile(local[q]) THEN AttrOf[local[q]] ELSE [time |-> 0, size |-> 0]]
           files == [i \in 1 .. c |-> Entry(i)]
<1>1. Listing(p) = files
  BY DEF Listing
<1>2. p \in Seq(Names) /\ Len(p) \in Nat
  BY PathSets, LenProperties
<1>3. \A n \in names : n \in Names /\ Append(p, n) \in Present
  <2> TAKE n \in names
  <2>1. n \in Names /\ Len(p) < Depth /\ local[Append(p, n)] # None
    OBVIOUS
  <2>2. Append(p, n) \in Seq(Names) /\ Len(Append(p, n)) = Len(p) + 1
    BY <1>2, <2>1, AppendPath
  <2>3. Len(Append(p, n)) \in 1 .. Depth
    BY <1>2, <2>1, <2>2, DepthAssumption
  <2> QED BY <2>1, <2>2, <2>3, PathSets DEF Present
<1>4. IsFiniteSet(names)
  <2> DEFINE g == [n \in names |-> Append(p, n)]
  <2>1. g \in [names -> Present]
    BY <1>3
  <2>2. \A m, n \in names : g[m] = g[n] => m = n
    <3> TAKE m, n \in names
    <3>1. g[m] = Append(p, m) /\ g[n] = Append(p, n) /\ m \in Names /\ n \in Names
      BY <1>3
    <3> HIDE DEF g
    <3>2. g[m][Len(g[m])] = m /\ g[n][Len(g[n])] = n
      BY <1>2, <3>1, AppendPath
    <3> QED BY <3>2
  <2>3. g \in Injection(names, Present)
    <3>1. DOMAIN g = names
      OBVIOUS
    <3> HIDE DEF g
    <3> QED BY <2>1, <2>2, <3>1 DEF Injection, IsInjective
  <2> HIDE DEF g, names
  <2> QED BY <2>3, FS_Injection
<1>5. names \in SUBSET Nat
  BY <1>3, NamesAssumption
<1> HIDE DEF names
<1>6. c \in Nat /\ order \in [1 .. c -> names] /\ \A i, j \in 1 .. c : i < j => order[i] < order[j]
  BY <1>4, <1>5, SortedIs
<1> HIDE DEF order, c
<1>7. ASSUME NEW i \in 1 .. c
      PROVE  Entry(i) \in Item /\ Entry(i).name = order[i]
  <2> DEFINE q == Append(p, order[i])
             attr == IF IsFile(local[q]) THEN AttrOf[local[q]] ELSE [time |-> 0, size |-> 0]
  <2>1. order[i] \in Names /\ q \in Present
    BY <1>3, <1>6
  <2>2. local[q] \in Nodes
    BY <2>1 DEF Present
  <2>3. attr \in Attr
    <3>1. IsFile(local[q]) => local[q] \in Versions
      BY <2>2 DEF IsFile, Nodes
    <3> HIDE DEF q
    <3> QED BY <3>1, AttrAssumption DEF Attr
  <2>4. Entry(i) = [name |-> order[i], isdir |-> local[q] = Dir, isignore |-> q \in ignored, attr |-> attr]
    OBVIOUS
  <2> HIDE DEF Entry, attr, q
  <2> QED BY <2>1, <2>3, <2>4 DEF Item
<1> HIDE DEF Entry
<1>8. files \in [1 .. c -> Item] /\ \A i \in 1 .. c : files[i].name = order[i]
  BY <1>7
<1>9. \A k, l \in 1 .. c : files[k].name = files[l].name => k = l
  <2> TAKE k, l \in 1 .. c
  <2>1. order[k] \in Nat /\ order[l] \in Nat
    BY <1>5, <1>6
  <2>2. k < l \/ l < k \/ k = l
    BY <1>6
  <2>3. \A a \in Nat : ~(a < a)
    OBVIOUS
  <2> HIDE DEF files
  <2> QED BY <1>6, <1>8, <2>1, <2>2, <2>3
<1>10. DOMAIN files = 1 .. c
  OBVIOUS
<1>11. 1 .. c # {} => Len(p) < Depth
  <2>1. names # {} => Len(p) < Depth
    BY DEF names
  <2> QED BY <1>6, <2>1
<1> HIDE DEF files
<1>12. files \in Seq(Item)
  BY <1>6, <1>8, FunctionIsSeq
<1> QED BY <1>1, <1>9, <1>10, <1>11, <1>12 DEF ListingOk

-----------------------------------------------------------------------------
Types ==
  /\ setup \in Setups
  /\ local \in [Paths -> Nodes] /\ IsFiniteSet(Present)
  /\ ignored \subseteq Ignorable /\ edits \in 0 .. MaxEdits
  /\ cur \in [Paths -> Nodes] /\ hist \subseteq [path : Paths, version : Versions]
  /\ pc \in Ended \cup {"step", "stage"} \cup Busy
  /\ restate \in Seq(RefreshIter) /\ act \in Action
  /\ fails \in [{"file", "dir"} \X Paths -> 0 .. FailLimit + 1]
  /\ pc # "TooManyFails" => \A key \in {"file", "dir"} \X Paths : fails[key] <= FailLimit
  /\ faults \in 0 .. MaxFaults /\ overlooked \in BOOLEAN /\ quiet \in BOOLEAN /\ done \in BOOLEAN

Now(P) == Shaped(recs, nrec, P, restate, pc, act)

Shape == \E P : Now(P)

(* The end of a run, whatever the reason.                                      *)
LEMMA RunEnds ==
  ASSUME NEW P, Now(P), pc' \in Ended, UNCHANGED registry
  PROVE  Now(P)'
BY DEF Now, Shaped, registry

(* Nothing that an action concerns changes while perform is at work.             *)
LEMMA BusyMoves ==
  ASSUME NEW P, Now(P), pc \in Busy, pc' \in Busy, UNCHANGED <<registry, restate>>,
         act'.type = act.type, act'.path = act.path, act'.keephist = act.keephist,
         Deleting => pc' \in {"hist", "unlink", "forget"},
         ~Deleting => pc' \notin {"unlink", "forget"},
         act.type = "MODFILE" => pc' # "mkdir",
         act.type \in {"ADDDIR", "ADDFILE"} =>
           /\ pc' # "hist"
           /\ pc' \in {"attr", "upload", "missing"} => act.type = "ADDFILE"
           /\ pc' = "mkdir" => act.type = "ADDDIR"
  PROVE  Now(P)'
<1> DEFINE it == restate[Len(restate)]
<1>1. recs' = recs /\ nrec' = nrec /\ restate' = restate
  BY DEF registry
<1>2. /\ Forest(recs, P) /\ Recycled(recs, nrec) /\ Stack(recs, P, restate)
      /\ TopIs(recs, P, it, pc, act) /\ ActIs(recs, P, it, pc, act)
  BY DEF Now, Shaped, Going, Busy, Ended
<1> HIDE DEF it
<1>3. pc' \notin Ended /\ (Deleting <=> act.type \in DelTypes)
  BY DEF Busy, Ended, Deleting, DelTypes
<1>4. TopIs(recs, P, it, pc', act')
  <2>1. \A r : Doomed(P, pc, act, r) => Doomed(P, pc', act', r)
    BY <1>3 DEF Doomed
  <2>2. it.stage \in {"REMOVE", "NEW"}
    BY <1>2 DEF ActIs
  <2> QED BY <1>2, <2>1, <2>2 DEF TopIs
<1>5. ActIs(recs, P, it, pc', act')
  <2>1. CASE Deleting
    <3>1. DelIs(recs, P, it, act)
      BY <1>2, <1>3, <2>1 DEF ActIs
    <3>2. DelIs(recs, P, it, act')
      BY <3>1 DEF DelIs
    <3> QED BY <1>2, <1>3, <2>1, <3>2 DEF ActIs
  <2>2. CASE ~Deleting
    <3>1. ChangeIs(recs, P, it, pc, act)
      BY <1>2, <1>3, <2>2 DEF ActIs
    <3>2. act.type \in {"MODFILE", "ADDDIR", "ADDFILE"}
      BY <3>1 DEF ChangeIs
    <3>3. ChangeIs(recs, P, it, pc', act')
      BY <3>1, <3>2 DEF ChangeIs
    <3> QED BY <1>2, <1>3, <2>2, <3>3 DEF ActIs
  <2> QED BY <2>1, <2>2
<1>6. Shaped(recs, nrec, P, restate, pc', act')
  BY <1>2, <1>4, <1>5 DEF Shaped, Going, it
<1> QED BY <1>1, <1>6 DEF Now

(* Without an action a step changes the stack alone.                           *)
LEMMA WalkMoves ==
  ASSUME NEW P, Forest(recs, P), Recycled(recs, nrec), UNCHANGED registry,
         NEW s, restate' = s, pc' \in {"step", "stage"}, Stack(recs, P, s),
         TopIs(recs, P, s[Len(s)], "step", NoAction)
  PROVE  Now(P)'
<1>1. recs' = recs /\ nrec' = nrec /\ restate' = s
  BY DEF registry
<1>2. TopIs(recs, P, s[Len(s)], pc', act')
  <2> DEFINE it == s[Len(s)]
  <2> HIDE DEF it
  <2>1. TopIs(recs, P, it, "step", NoAction)
    BY DEF it
  <2>2. \A r : ~Doomed(P, "step", NoAction, r)
    BY DEF Doomed
  <2>3. TopIs(recs, P, it, pc', act')
    BY <2>1, <2>2 DEF TopIs
  <2> QED BY <2>3 DEF it
<1>3. Shaped(recs, nrec, P, s, pc', act')
  BY <1>2 DEF Shaped, Going, Busy
<1> QED BY <1>1, <1>3 DEF Now

(* What holds between two actions.                                            *)
LEMMA Walking ==
  ASSUME NEW P, Now(P), pc \in {"step", "stage"}
  PROVE  /\ Forest(recs, P) /\ Recycled(recs, nrec) /\ Stack(recs, P, restate)
         /\ TopIs(recs, P, Top, "step", NoAction)
<1>1. /\ Forest(recs, P) /\ Recycled(recs, nrec) /\ Stack(recs, P, restate)
      /\ TopIs(recs, P, Top, pc, act)
  BY DEF Now, Shaped, Going, Ended, Top
<1>2. \A r : ~Doomed(P, pc, act, r)
  BY DEF Doomed
<1> QED BY <1>1, <1>2 DEF TopIs

(* And while an action is carried out.                                         *)
LEMMA Acting ==
  ASSUME NEW P, Now(P), pc \in Busy
  PROVE  /\ Forest(recs, P) /\ Recycled(recs, nrec) /\ Stack(recs, P, restate)
         /\ TopIs(recs, P, Top, pc, act) /\ ActIs(recs, P, Top, pc, act)
         /\ Top.stage \in {"REMOVE", "NEW"} /\ act.path \in Paths
BY DEF Now, Shaped, Going, Busy, Ended, Top, ActIs

(* The checks at the beginning of a step never find anything.                   *)
LEMMA StackChecked ==
  ASSUME NEW P, Forest(recs, P), Stack(recs, P, restate), NEW i \in 2 .. Len(restate)
  PROVE  IterOk(i)
<1> DEFINE it == restate[i]
<1>1. Len(restate) \in Nat /\ i \in 1 .. Len(restate) /\ i - 1 \in 1 .. Len(restate) - 1 /\ i - 1 + 1 = i
      /\ i - 1 \in 1 .. Len(restate)
  <2>1. Len(restate) \in Nat
    BY TopFacts
  <2> QED BY <2>1
<1>2. Level(recs, P, it) /\ Level(recs, P, restate[i - 1]) /\ it.rid \in Kids(recs, P, restate[i - 1].rid)
  <2>1. restate[i - 1 + 1].rid \in Kids(recs, P, restate[i - 1].rid)
    BY <1>1 DEF Stack
  <2> QED BY <1>1, <2>1 DEF Stack
<1>3. recs[it.rid].isactive /\ recs[it.rid].isdir
  BY <1>2 DEF Level, Dirs, Active
<1>4. it.stage = "INIT" \/ it.name = NameOf(it.rid)
  BY <1>2 DEF Level, NameOf
<1>5. recs[LastFrom(it.rid)].next = restate[i - 1].rid
  <2>1. restate[i - 1].rid \in Dirs(recs)
    BY <1>2 DEF Level
  <2> HIDE DEF it
  <2> QED BY <1>2, <2>1, LastFromReturns
<1> QED BY <1>3, <1>4, <1>5 DEF IterOk

LEMMA PopToInit ==
  ASSUME NEW P, Stack(recs, P, restate), Len(restate) >= 2
  PROVE  Stack(recs, P, PoppedToInit) /\ PoppedToInit[Len(PoppedToInit)].stage = "INIT"
<1> DEFINE t == Popped
           m == Len(restate) - 1
           it == [t[m] EXCEPT !.stage = "INIT", !.files = <<>>]
<1>1. Stack(recs, P, t) /\ Len(t) = m
  BY PopStack DEF Popped
<1>2. t[m] \in RefreshIter /\ Level(recs, P, t[m])
  BY <1>1, TopFacts
<1>3. PoppedToInit = [t EXCEPT ![Len(t)] = it]
  BY <1>1 DEF PoppedToInit
<1> HIDE DEF t, m
<1>4. it \in RefreshIter /\ it.rid = t[m].rid /\ it.stage = "INIT" /\ it.name = t[m].name
  <2>1. <<>> \in Seq(Item) /\ "INIT" \in Stages
    BY EmptySeq DEF Stages
  <2> QED BY <1>2, <2>1 DEF RefreshIter
<1> HIDE DEF it
<1>5. Level(recs, P, it)
  BY <1>2, <1>4 DEF Level
<1>6. it.rid = t[Len(t)].rid
  BY <1>1, <1>4
<1>7. LET u == [t EXCEPT ![Len(t)] = it] IN Stack(recs, P, u) /\ Len(u) = Len(t) /\ u[Len(t)] = it
  BY <1>1, <1>4, <1>5, <1>6, RetopStack, ZenonT(60)
<1> QED BY <1>3, <1>4, <1>7

-----------------------------------------------------------------------------
(***************************************************************************)
(* The steps of refreshStep, one by one.                                     *)
(***************************************************************************)
LEMMA NewIterIs ==
  ASSUME NEW rid \in Ids \ {0}
  PROVE  NewIter(rid) \in RefreshIter /\ NewIter(rid).rid = rid /\ NewIter(rid).stage = "INIT"
<1>1. <<>> \in Seq(Item) /\ "INIT" \in Stages
  BY EmptySeq DEF Stages
<1> QED BY <1>1 DEF NewIter, RefreshIter

LEMMA StartShaped ==
  ASSUME NEW P, Now(P), Start
  PROVE  Now(P)'
<1> DEFINE s == <<NewIter(ROOT)>>
<1>1. /\ pc' = "step" /\ restate' = s /\ UNCHANGED registry
      /\ Forest(recs, P) /\ Recycled(recs, nrec)
  BY DEF Start, Now, Shaped
<1>2. ROOT \in Dirs(recs) /\ ~recs[ROOT].isignore /\ ROOT \in Ids \ {0}
  <2>1. ROOT \in Dirs(recs) /\ ~recs[ROOT].isignore
    BY <1>1 DEF Forest, Placed
  <2> QED BY <2>1, <1>1, KidFacts
<1>3. NewIter(ROOT) \in RefreshIter /\ NewIter(ROOT).rid = ROOT /\ NewIter(ROOT).stage = "INIT"
  BY <1>2, NewIterIs
<1> DEFINE it == NewIter(ROOT)
<1> HIDE DEF it
<1>4. s \in Seq(RefreshIter) /\ Len(s) = 1 /\ s[1] = it
  BY <1>3 DEF it
<1>5. Level(recs, P, it)
  BY <1>2, <1>3 DEF Level, it
<1> HIDE DEF s
<1>6. Stack(recs, P, s)
  BY <1>3, <1>4, <1>5 DEF Stack, it
<1>7. TopIs(recs, P, s[Len(s)], "step", NoAction)
  BY <1>3, <1>4 DEF TopIs, it
<1> QED BY <1>1, <1>6, <1>7, WalkMoves

LEMMA FallbackShaped ==
  ASSUME NEW P, Now(P), Fallback
  PROVE  Now(P)'
<1>1. /\ Forest(recs, P) /\ Recycled(recs, nrec) /\ Stack(recs, P, restate) /\ UNCHANGED registry
  BY Acting DEF Fallback, Busy
<1>2. CASE Len(restate) >= 2
  <2>1. \/ pc' = "TooManyFails"
        \/ pc' = "step" /\ restate' = PoppedToInit
    BY <1>2 DEF Fallback, RecordFail
  <2>2. CASE pc' = "TooManyFails"
    BY <1>1, <2>2, RunEnds DEF Ended
  <2>3. CASE pc' = "step" /\ restate' = PoppedToInit
    <3> DEFINE s == PoppedToInit
    <3>1. Stack(recs, P, s) /\ s[Len(s)].stage = "INIT"
      BY <1>1, <1>2, PopToInit
    <3>2. TopIs(recs, P, s[Len(s)], "step", NoAction)
      BY <3>1 DEF TopIs
    <3> HIDE DEF s
    <3> QED BY <1>1, <2>3, <3>1, <3>2, WalkMoves DEF s
  <2> QED BY <2>1, <2>2, <2>3
<1>3. CASE ~(Len(restate) >= 2)
  <2>1. pc' = "RootFallback"
    BY <1>3 DEF Fallback
  <2> QED BY <1>1, <2>1, RunEnds DEF Ended
<1> QED BY <1>2, <1>3

LEMMA CheckStackShaped ==
  ASSUME NEW P, Now(P), CheckStack
  PROVE  Now(P)' /\ pc' = "stage" /\ UNCHANGED walk
<1>1. /\ Forest(recs, P) /\ Recycled(recs, nrec) /\ Stack(recs, P, restate) /\ UNCHANGED registry
      /\ TopIs(recs, P, Top, "step", NoAction)
  BY Walking DEF CheckStack
<1>2. {i \in 2 .. Len(restate) : ~IterOk(i)} = {}
  BY <1>1, StackChecked
<1>3. pc' = "stage" /\ UNCHANGED walk
  BY <1>2 DEF CheckStack
<1>4. restate' = restate
  BY <1>3 DEF walk
<1>5. TopIs(recs, P, restate[Len(restate)], "step", NoAction)
  BY <1>1 DEF Top
<1> QED BY <1>1, <1>3, <1>4, <1>5, WalkMoves

(* What a stage knows.                                                       *)
LEMMA AtStage ==
  ASSUME NEW P, Now(P), pc = "stage"
  PROVE  /\ Forest(recs, P) /\ Recycled(recs, nrec) /\ Stack(recs, P, restate)
         /\ TopIs(recs, P, Top, "step", NoAction)
         /\ Top \in RefreshIter /\ Level(recs, P, Top) /\ Top.rid \in Dirs(recs)
         /\ ~recs[Top.rid].isignore
         /\ Len(restate) \in Nat \ {0}
         /\ InitPath = P[Top.rid] /\ P[Top.rid] \in AnyPath
         /\ Top.stage # "INIT" => TopPath = P[Top.rid]
<1>1. /\ Forest(recs, P) /\ Recycled(recs, nrec) /\ Stack(recs, P, restate)
      /\ TopIs(recs, P, Top, "step", NoAction)
  BY Walking
<1>2. /\ Top \in RefreshIter /\ Level(recs, P, Top) /\ Top.rid \in Dirs(recs) /\ Len(restate) \in Nat \ {0}
  BY <1>1, TopFacts DEF Top
<1>3. P[Top.rid] \in AnyPath /\ ~recs[Top.rid].isignore
  BY <1>1, <1>2 DEF Forest, Placed, Dirs, Level
<1> QED BY <1>1, <1>2, <1>3, PathAtIs

(* Only the top of the stack changes.                                        *)
LEMMA TopMoves ==
  ASSUME NEW P, Forest(recs, P), Recycled(recs, nrec), Stack(recs, P, restate), UNCHANGED registry,
         NEW it \in RefreshIter, it.rid = Top.rid, Level(recs, P, it),
         restate' = WithTop(it), pc' \in {"step", "stage"},
         TopIs(recs, P, it, "step", NoAction)
  PROVE  Now(P)'
<1> DEFINE s == [restate EXCEPT ![Len(restate)] = it]
<1>1. LET u == [restate EXCEPT ![Len(restate)] = it]
      IN Stack(recs, P, u) /\ Len(u) = Len(restate) /\ u[Len(restate)] = it
  BY RetopStack DEF Top
<1>2. Stack(recs, P, s) /\ s[Len(s)] = it
  BY <1>1
<1>3. restate' = s
  BY DEF WithTop
<1> HIDE DEF s
<1>4. TopIs(recs, P, s[Len(s)], "step", NoAction)
  BY <1>2
<1> QED BY <1>2, <1>3, <1>4, WalkMoves

LEMMA InitListShaped ==
  ASSUME Types, NEW P, Now(P), InitList
  PROVE  Now(P)'
<1> DEFINE files == Listing(InitPath)
           it == [rid |-> Top.rid, name |-> NameOf(Top.rid), stage |-> "REMOVE",
                  prog |-> 0, files |-> files]
<1>0. pc = "stage" /\ pc' = "stage" /\ restate' = WithTop(it) /\ UNCHANGED registry
  BY DEF InitList, InStage, StackOnly
<1>1. /\ Forest(recs, P) /\ Recycled(recs, nrec) /\ Stack(recs, P, restate)
      /\ Top \in RefreshIter /\ Level(recs, P, Top) /\ Top.rid \in Dirs(recs) /\ InitPath = P[Top.rid]
      /\ P[Top.rid] \in AnyPath
  BY <1>0, AtStage
<1>2. ListingOk(P[Top.rid], files)
  BY <1>1, ListingIs DEF Types
<1> HIDE DEF files
<1>3. recs[Top.rid].name \in Nat /\ NameOf(Top.rid) = recs[Top.rid].name
  <2>1. recs[Top.rid] \in RecordItem
    BY <1>1 DEF Forest, Dirs, Active
  <2> QED BY <2>1 DEF RecordItem, NameOf
<1>4. it \in RefreshIter
  <2>1. files \in Seq(Item) /\ Top.rid \in Ids \ {0}
    BY <1>1, <1>2 DEF ListingOk, RefreshIter
  <2> QED BY <1>3, <2>1 DEF RefreshIter, Stages
<1>5. it.rid = Top.rid /\ it.name = NameOf(Top.rid) /\ it.stage = "REMOVE" /\ it.prog = 0 /\ it.files = files
  OBVIOUS
<1> HIDE DEF it
<1>6. Level(recs, P, it)
  BY <1>1, <1>3, <1>5 DEF Level
<1>7. TopIs(recs, P, it, "step", NoAction)
  BY <1>2, <1>5 DEF TopIs, ListingOk
<1> QED BY <1>0, <1>1, <1>4, <1>5, <1>6, <1>7, TopMoves

LEMMA InitGoneShaped ==
  ASSUME NEW P, Now(P), InitGone
  PROVE  Now(P)'
<1> DEFINE it == [Top EXCEPT !.name = NameOf(Top.rid), !.files = <<>>, !.stage = "REDOUPPER"]
<1>0. /\ pc = "stage" /\ UNCHANGED registry
      /\ pc' = "TooManyFails" \/ (pc' = "stage" /\ restate' = WithTop(it))
  BY DEF InitGone, InStage, StackOnly, RecordFail
<1>1. /\ Forest(recs, P) /\ Recycled(recs, nrec) /\ Stack(recs, P, restate)
      /\ Top \in RefreshIter /\ Level(recs, P, Top) /\ Top.rid \in Dirs(recs)
  BY <1>0, AtStage
<1>2. recs[Top.rid].name \in Nat /\ NameOf(Top.rid) = recs[Top.rid].name
  <2>1. recs[Top.rid] \in RecordItem
    BY <1>1 DEF Forest, Dirs, Active
  <2> QED BY <2>1 DEF RecordItem, NameOf
<1>3. it \in RefreshIter /\ it.rid = Top.rid /\ it.name = NameOf(Top.rid) /\ it.stage = "REDOUPPER"
  <2>1. <<>> \in Seq(Item)
    BY EmptySeq
  <2> QED BY <1>1, <1>2, <2>1 DEF RefreshIter, Stages
<1> HIDE DEF it
<1>4. Level(recs, P, it) /\ TopIs(recs, P, it, "step", NoAction)
  BY <1>1, <1>2, <1>3 DEF Level, TopIs
<1>5. CASE pc' = "TooManyFails"
  BY <1>0, <1>5, RunEnds DEF Ended
<1>6. CASE pc' = "stage" /\ restate' = WithTop(it)
  BY <1>0, <1>1, <1>3, <1>4, <1>6, TopMoves
<1> QED BY <1>0, <1>5, <1>6

LEMMA ActionStarts ==
  ASSUME NEW P, Forest(recs, P), Recycled(recs, nrec), Stack(recs, P, restate), UNCHANGED registry,
         NEW it \in RefreshIter, it.rid = Top.rid, Level(recs, P, it), restate' = WithTop(it),
         pc' \in Busy, TopIs(recs, P, it, pc', act'), ActIs(recs, P, it, pc', act')
  PROVE  Now(P)'
<1> DEFINE s == [restate EXCEPT ![Len(restate)] = it]
<1>1. LET u == [restate EXCEPT ![Len(restate)] = it]
      IN Stack(recs, P, u) /\ Len(u) = Len(restate) /\ u[Len(restate)] = it
  BY RetopStack DEF Top
<1>2. Stack(recs, P, s) /\ s[Len(s)] = it
  BY <1>1
<1>3. restate' = s /\ recs' = recs /\ nrec' = nrec
  BY DEF WithTop, registry
<1> HIDE DEF s
<1>4. Shaped(recs, nrec, P, s, pc', act')
  BY <1>2 DEF Shaped, Going
<1> QED BY <1>3, <1>4 DEF Now

LEMMA GoneIs == \A r : Gone(r) <=> ~Borne(recs, Top.files, r)
BY DEF Gone, ItemsNamed, Borne, NameOf

(* REMOVE stops at the first record that has gone, or earlier.                   *)
LEMMA ToRemove ==
  ASSUME NEW P, Now(P), pc = "stage", Top.stage = "REMOVE"
  PROVE  /\ NextToRemove \in Kids(recs, P, Top.rid) \cup {0}
         /\ \A r \in Kids(recs, P, Top.rid) :
              NextToRemove = 0 \/ recs[r].name < recs[NextToRemove].name => Borne(recs, Top.files, r)
         /\ NextToRemove # 0 => Gone(NextToRemove) \/ Reclassified(NextToRemove)
<1> DEFINE K == Kids(recs, P, Top.rid)
           St == {r \in K : Gone(r) \/ Reclassified(r)}
           x == IF Top.prog = 0 THEN recs[Top.rid].sub ELSE Top.prog
           z == NextToRemove
<1>1. /\ Forest(recs, P) /\ TopIs(recs, P, Top, "step", NoAction) /\ Top.rid \in Dirs(recs)
  BY AtStage
<1>2. /\ Linked(recs, K, Top.rid) /\ \A r \in K : r # 0 /\ recs[r].name \in Nat
      /\ Children(recs, Top.rid) = K
  BY <1>1, KidFacts, ChildrenAreKids
<1>3. /\ Top.prog \in K \cup {0}
      /\ Top.prog # 0 => \A r \in K : recs[r].name < recs[Top.prog].name => Borne(recs, Top.files, r)
  BY <1>1 DEF TopIs, Doomed
<1>4. x \in K \cup {0} /\ Rest(recs, K, x) = {r \in K : Top.prog = 0 \/ recs[Top.prog].name <= recs[r].name}
  <2>1. CASE Top.prog = 0
    <3>1. FirstOf(recs, K, recs[Top.rid].sub) /\ 0 \notin K
      BY <1>2 DEF Linked
    <3> HIDE DEF K
    <3>2. Rest(recs, K, recs[Top.rid].sub) = K
      BY <3>1, RestOfFirst
    <3> QED BY <2>1, <3>1, <3>2 DEF FirstOf
  <2>2. CASE Top.prog # 0
    <3> HIDE DEF K
    <3> QED BY <1>3, <2>2 DEF Rest
  <2> QED BY <2>1, <2>2
<1>5. z = FirstFrom(x, St)
  <2>1. CASE Top.prog = 0
    BY <1>2, <2>1 DEF NextToRemove
  <2>2. CASE Top.prog # 0
    <3>1. Top.prog \in K
      BY <1>3, <2>2
    <3> QED BY <1>2, <2>2, <3>1 DEF NextToRemove
  <2> QED BY <2>1, <2>2
<1>6. FirstOf(recs, Rest(recs, K, x) \cap St, z)
  <2> HIDE DEF St, x
  <2> QED BY <1>1, <1>4, <1>5, FirstFromFinds DEF K
<1>7. z \in K \cup {0} /\ (z # 0 => Gone(z) \/ Reclassified(z))
  BY <1>6 DEF FirstOf
<1> HIDE DEF x, z, K
<1>8. \A r \in K : z = 0 \/ recs[r].name < recs[z].name => Borne(recs, Top.files, r)
  <2> TAKE r \in K
  <2> HAVE z = 0 \/ recs[r].name < recs[z].name
  <2>1. CASE Top.prog # 0 /\ recs[r].name < recs[Top.prog].name
    BY <1>3, <2>1
  <2>2. CASE ~(Top.prog # 0 /\ recs[r].name < recs[Top.prog].name)
    <3>1. r \in Rest(recs, K, x)
      <4>1. Top.prog = 0 \/ recs[Top.prog].name <= recs[r].name
        <5>1. Top.prog # 0 => recs[Top.prog].name \in Nat /\ recs[r].name \in Nat
          BY <1>2, <1>3
        <5> QED BY <2>2, <5>1
      <4> QED BY <1>4, <4>1
    <3>2. r \notin St
      <4> SUFFICES ASSUME r \in St PROVE FALSE
        OBVIOUS
      <4>1. r \in Rest(recs, K, x) \cap St
        BY <3>1
      <4> HIDE DEF St
      <4>2. z # 0 /\ recs[z].name <= recs[r].name
        BY <1>2, <1>6, <4>1 DEF FirstOf, Rest
      <4>3. recs[z].name \in Nat /\ recs[r].name \in Nat /\ recs[r].name < recs[z].name
        BY <1>2, <1>7, <4>2
      <4> QED BY <4>2, <4>3
    <3> QED BY <3>2, GoneIs
  <2> QED BY <2>1, <2>2
<1> QED BY <1>7, <1>8 DEF K, z

LEMMA ProposeDelShaped ==
  ASSUME Types, NEW P, Now(P), ProposeDel
  PROVE  Now(P)'
<1> DEFINE K == Kids(recs, P, Top.rid)
<1>1. pc = "stage" /\ Top.stage = "REMOVE" /\ UNCHANGED registry
  BY DEF ProposeDel, InStage
<1>2. PICK r \in {NextToRemove} \ {0} :
        /\ act'.type = (IF recs[r].isdir THEN "DELDIR" ELSE "DELFILE")
        /\ act'.path = Append(TopPath, NameOf(r))
        /\ pc' \in {"hist", "unlink"}
        /\ restate' = WithTop([Top EXCEPT !.stage = IF recs[r].islast THEN "NEW" ELSE @,
                                          !.prog = NextSibling(recs, r)])
  BY DEF ProposeDel, NoAction
<1>3. /\ Forest(recs, P) /\ Recycled(recs, nrec) /\ Stack(recs, P, restate)
      /\ TopIs(recs, P, Top, "step", NoAction)
      /\ Top \in RefreshIter /\ Level(recs, P, Top) /\ Top.rid \in Dirs(recs)
      /\ TopPath = P[Top.rid]
  BY <1>1, AtStage
<1>4. r \in K /\ \A q \in K : recs[q].name < recs[r].name => Borne(recs, Top.files, q)
  BY <1>1, <1>2, ToRemove
<1> DEFINE nx == NextSibling(recs, r)
           it == [Top EXCEPT !.stage = IF recs[r].islast THEN "NEW" ELSE @, !.prog = nx]
<1>5. /\ P[r] = act'.path /\ act'.path \in Paths /\ nx \in Nat
      /\ \A q \in K : q # 0 /\ recs[q].name \in Nat
      /\ \A q \in K : recs[q].name = recs[r].name => q = r
      /\ FirstOf(recs, Greater(recs, K, r), nx)
      /\ IF recs[r].islast THEN nx = 0 ELSE nx # 0
  <2>1. /\ P[r] = Append(P[Top.rid], recs[r].name) /\ P[r] \in Paths
        /\ \A q \in K : q \in Ids \ {0} /\ recs[q].name \in Nat
        /\ \A q \in K : recs[q].name = recs[r].name => q = r
        /\ Linked(recs, K, Top.rid) /\ recs[r] \in RecordItem
    BY <1>3, <1>4, KidFacts
  <2>2. FirstOf(recs, Greater(recs, K, r), nx) /\ IF recs[r].islast THEN nx = 0 ELSE nx # 0
    <3> HIDE DEF K
    <3> QED BY <1>4, <2>1 DEF Linked, NextSibling
  <2>3. nx \in Nat
    BY <2>1 DEF NextSibling, RecordItem
  <2> QED BY <1>2, <1>3, <2>1, <2>2, <2>3 DEF NameOf
<1>6. /\ it \in RefreshIter /\ it.rid = Top.rid /\ it.name = Top.name /\ it.files = Top.files
      /\ it.prog = nx /\ it.stage = (IF recs[r].islast THEN "NEW" ELSE "REMOVE")
  BY <1>1, <1>3, <1>5 DEF RefreshIter, Stages
<1>7. restate' = WithTop(it)
  BY <1>2
<1> HIDE DEF it, nx
<1>8. Level(recs, P, it)
  BY <1>1, <1>3, <1>6 DEF Level
<1>9. \A q : P[q] = P[r] => Doomed(P, pc', act', q)
  BY <1>2, <1>5 DEF Doomed, DelTypes
<1> HIDE DEF K
<1>10. \A q \in K : \/ Borne(recs, Top.files, q) \/ Doomed(P, pc', act', q)
                    \/ q \in Greater(recs, K, r)
  <2> TAKE q \in K
  <2>1. recs[q].name < recs[r].name \/ recs[q].name = recs[r].name \/ recs[r].name < recs[q].name
    BY <1>4, <1>5
  <2> QED BY <1>4, <1>5, <1>9, <2>1 DEF Greater
<1>11. TopIs(recs, P, it, pc', act')
  <2>1. /\ \A k, l \in DOMAIN it.files : it.files[k].name = it.files[l].name => k = l
        /\ DOMAIN it.files # {} => Len(P[it.rid]) < Depth
    BY <1>1, <1>3, <1>6 DEF TopIs
  <2>2. CASE recs[r].islast
    <3>1. Greater(recs, K, r) = {}
      BY <1>5, <2>2 DEF FirstOf, Greater
    <3> QED BY <1>6, <1>10, <2>1, <2>2, <3>1 DEF TopIs, K
  <2>3. CASE ~recs[r].islast
    <3>1. /\ nx \in K /\ nx # 0
          /\ \A q \in Greater(recs, K, r) : recs[nx].name <= recs[q].name
      BY <1>5, <2>3 DEF FirstOf, Greater
    <3>2. \A q \in K : recs[q].name < recs[nx].name => q \notin Greater(recs, K, r)
      <4> TAKE q \in K
      <4>1. recs[q].name \in Nat /\ recs[nx].name \in Nat
        BY <1>5, <3>1
      <4> QED BY <3>1, <4>1
    <3> QED BY <1>6, <1>10, <2>1, <2>3, <3>1, <3>2 DEF TopIs, K
  <2> QED BY <2>2, <2>3
<1>12. ActIs(recs, P, it, pc', act')
  <2>1. it.stage = "REMOVE" => it.prog # 0 /\ recs[r].name < recs[it.prog].name
    BY <1>5, <1>6 DEF FirstOf, Greater
  <2>2. recs[r].isdir = (act'.type = "DELDIR")
    <3>1. recs[r].isdir \in BOOLEAN
      BY <1>3, <1>4, KidFacts DEF RecordItem, K
    <3> QED BY <1>2, <3>1
  <2>3. DelIs(recs, P, it, act')
    BY <1>4, <1>5, <1>6, <2>1, <2>2 DEF DelIs, K
  <2> QED BY <1>2, <1>5, <1>6, <2>3 DEF ActIs, DelTypes
<1> QED BY <1>1, <1>2, <1>3, <1>6, <1>7, <1>8, <1>11, <1>12, ActionStarts DEF Busy

LEMMA RemoveDoneShaped ==
  ASSUME NEW P, Now(P), RemoveDone
  PROVE  Now(P)'
<1> DEFINE it == [Top EXCEPT !.stage = "NEW", !.prog = 0]
<1>1. /\ pc = "stage" /\ pc' = "stage" /\ Top.stage = "REMOVE" /\ UNCHANGED registry
      /\ NextToRemove = 0 /\ restate' = WithTop(it)
  BY DEF RemoveDone, InStage, StackOnly
<1>2. /\ Forest(recs, P) /\ Recycled(recs, nrec) /\ Stack(recs, P, restate)
      /\ TopIs(recs, P, Top, "step", NoAction)
      /\ Top \in RefreshIter /\ Level(recs, P, Top)
  BY <1>1, AtStage
<1>3. \A r \in Kids(recs, P, Top.rid) : Borne(recs, Top.files, r)
  BY <1>1, ToRemove
<1>4. /\ it \in RefreshIter /\ it.rid = Top.rid /\ it.name = Top.name /\ it.files = Top.files
      /\ it.stage = "NEW"
  BY <1>2 DEF RefreshIter, Stages
<1> HIDE DEF it
<1>5. Level(recs, P, it)
  BY <1>1, <1>2, <1>4 DEF Level
<1>6. TopIs(recs, P, it, "step", NoAction)
  BY <1>1, <1>2, <1>3, <1>4 DEF TopIs
<1> QED BY <1>1, <1>2, <1>4, <1>5, <1>6, TopMoves

(* The lookup of NEW: the entry n of the directory on top of the stack.          *)
ChildIs(P, n) ==
  \/ /\ Child(n) \in Kids(recs, P, Top.rid) /\ recs[Child(n)].name = n
     /\ P[Child(n)] = Append(P[Top.rid], n)
  \/ Child(n) = 0 /\ \A r \in Active(recs) : P[r] # Append(P[Top.rid], n)

LEMMA ChildFound ==
  ASSUME NEW P, Forest(recs, P), Top.rid \in Dirs(recs), NEW n \in Names
  PROVE  ChildIs(P, n)
<1> DEFINE K == Kids(recs, P, Top.rid)
           S == {r \in Active(recs) : NameOf(r) = n}
           x == recs[Top.rid].sub
           c == FirstFrom(x, S)
<1>1. /\ FirstOf(recs, K, x) /\ \A r \in K : r # 0 /\ P[r] = Append(P[Top.rid], recs[r].name)
      /\ K \subseteq Active(recs) /\ P[Top.rid] \in Seq(Names)
  <2>1. /\ Linked(recs, K, Top.rid) /\ P[Top.rid] \in Seq(Names)
        /\ \A r \in K : r \in Active(recs) /\ r # 0 /\ P[r] = Append(P[Top.rid], recs[r].name)
    <3>1. \A r \in K : r \in Active(recs) /\ r \in Ids \ {0} /\ P[r] = Append(P[Top.rid], recs[r].name)
      BY KidFacts
    <3>2. Linked(recs, K, Top.rid) /\ P[Top.rid] \in Seq(Names)
      BY KidFacts
    <3> QED BY <3>1, <3>2
  <2> HIDE DEF K
  <2> QED BY <2>1 DEF Linked
<1>2. Child(n) = c
  BY DEF Child
<1>3. x \in K \cup {0} /\ Rest(recs, K, x) = K
  <2>1. 0 \notin K /\ x \in K \cup {0}
    BY <1>1 DEF FirstOf
  <2> HIDE DEF K, x
  <2> QED BY <1>1, <2>1, RestOfFirst
<1>4. FirstOf(recs, K \cap S, c)
  <2>1. FirstOf(recs, Rest(recs, K, x) \cap S, c)
    <3> HIDE DEF S, x
    <3> QED BY <1>3, FirstFromFinds
  <2> HIDE DEF K, S, c
  <2> QED BY <1>3, <2>1
<1> HIDE DEF c, x
<1>5. CASE c # 0
  <2>1. c \in K /\ recs[c].name = n
    BY <1>4, <1>5 DEF FirstOf, NameOf
  <2> HIDE DEF K
  <2>2. P[c] = Append(P[Top.rid], n)
    BY <1>1, <2>1
  <2> QED BY <1>2, <2>1, <2>2 DEF ChildIs, K
<1>6. CASE c = 0
  <2>1. K \cap S = {}
    BY <1>1, <1>4, <1>6 DEF FirstOf
  <2>2. \A r \in Active(recs) : P[r] # Append(P[Top.rid], n)
    <3> SUFFICES ASSUME NEW r \in Active(recs), P[r] = Append(P[Top.rid], n) PROVE FALSE
      OBVIOUS
    <3>1. P[r] # <<>>
      BY <1>1, AppendPath, SMTT(60)
    <3>2. r # ROOT
      BY <3>1, ParentOf
    <3>3. PICK u \in Dirs(recs) : r \in Kids(recs, P, u)
      BY <3>2, ParentOf
    <3>4. /\ recs[r].name \in Names /\ P[u] \in Seq(Names) /\ P[r] = Append(P[u], recs[r].name)
      BY <3>3, KidFacts
    <3>5. recs[r].name = P[r][Len(P[r])]
      BY <3>4, AppendPath
    <3>6. n = P[r][Len(P[r])]
      BY <1>1, AppendPath
    <3>7. recs[r].name = n
      BY <3>5, <3>6
    <3>8. r \in K
      BY <3>7 DEF Kids
    <3> QED BY <2>1, <3>7, <3>8 DEF NameOf
  <2> QED BY <1>2, <1>6, <2>2 DEF ChildIs
<1> QED BY <1>5, <1>6

(* What a new entry of the listing leads to.                                  *)
LEMMA ChangeStarts ==
  ASSUME NEW P, Now(P), pc = "stage", Top.stage = "NEW", NEW i \in DOMAIN Top.files, UNCHANGED registry,
         restate' = WithTop([Top EXCEPT !.prog = i]), pc' \in Busy \ {"unlink", "forget"},
         act'.path = Append(TopPath, Top.files[i].name),
         act'.type \notin DelTypes,
         ChangeIs(recs, P, [Top EXCEPT !.prog = i], pc', act')
  PROVE  Now(P)'
<1> DEFINE it == [Top EXCEPT !.prog = i]
<1>1. /\ Forest(recs, P) /\ Recycled(recs, nrec) /\ Stack(recs, P, restate)
      /\ TopIs(recs, P, Top, "step", NoAction)
      /\ Top \in RefreshIter /\ Level(recs, P, Top) /\ TopPath = P[Top.rid]
      /\ P[Top.rid] \in AnyPath
  BY AtStage
<1>2. i \in Nat /\ Top.files[i].name \in Names
  <2>1. Top.files \in Seq(Item)
    BY <1>1 DEF RefreshIter
  <2>2. i \in 1 .. Len(Top.files) /\ Top.files[i] \in Item
    BY <2>1, LenProperties, ElementOfSeq
  <2> QED BY <2>2 DEF Item
<1>3. /\ it \in RefreshIter /\ it.rid = Top.rid /\ it.name = Top.name /\ it.files = Top.files
      /\ it.stage = "NEW"
  BY <1>1, <1>2 DEF RefreshIter
<1>4. ChangeIs(recs, P, it, pc', act') /\ restate' = WithTop(it)
  OBVIOUS
<1> HIDE DEF it
<1>5. Level(recs, P, it)
  BY <1>1, <1>3 DEF Level
<1>6. TopIs(recs, P, it, pc', act')
  <2>1. \A r \in Kids(recs, P, Top.rid) : Borne(recs, Top.files, r)
    BY <1>1 DEF TopIs, Doomed
  <2> QED BY <1>1, <1>3, <2>1 DEF TopIs
<1>7. act'.path \in Paths
  <2>1. Len(P[Top.rid]) < Depth
    BY <1>1 DEF TopIs
  <2>2. P[Top.rid] \in Seq(Names)
    BY <1>1, PathSets
  <2>3. Len(Append(P[Top.rid], Top.files[i].name)) \in 1 .. Depth /\ Append(P[Top.rid], Top.files[i].name) \in Seq(Names)
    BY <1>2, <2>1, <2>2, AppendPath, DepthAssumption
  <2> QED BY <1>1, <2>3, PathSets
<1>8. ActIs(recs, P, it, pc', act')
  BY <1>3, <1>4, <1>7 DEF ActIs
<1> QED BY <1>1, <1>3, <1>4, <1>5, <1>6, <1>8, ActionStarts

LEMMA ProposeAddShaped ==
  ASSUME NEW P, Now(P), ProposeAdd
  PROVE  Now(P)'
<1>1. pc = "stage" /\ Top.stage = "NEW" /\ UNCHANGED registry
  BY DEF ProposeAdd, InStage, Propose
<1>2. PICK i \in NextNew :
        /\ Child(Top.files[i].name) = 0
        /\ act'.type = (IF Top.files[i].isdir THEN "ADDDIR" ELSE "ADDFILE")
        /\ act'.path = Append(TopPath, Top.files[i].name) /\ act'.keephist = FALSE
        /\ pc' = (IF Top.files[i].isignore THEN "record" ELSE IF Top.files[i].isdir THEN "mkdir" ELSE "attr")
        /\ restate' = WithTop([Top EXCEPT !.prog = i])
  BY DEF ProposeAdd, Propose, NoAction
<1> DEFINE n == Top.files[i].name
           it == [Top EXCEPT !.prog = i]
<1>3. Forest(recs, P) /\ Top.rid \in Dirs(recs) /\ TopPath = P[Top.rid] /\ Top \in RefreshIter
  BY <1>1, AtStage
<1>4. i \in DOMAIN Top.files
  BY DEF NextNew, NewItems
<1>5. n \in Names
  <2>1. Top.files \in Seq(Item)
    BY <1>3 DEF RefreshIter
  <2>2. Top.files[i] \in Item
    BY <1>4, <2>1, LenProperties, ElementOfSeq
  <2> QED BY <2>2 DEF Item
<1>6. \A r \in Active(recs) : P[r] # Append(P[Top.rid], n)
  <2>1. 0 \notin Kids(recs, P, Top.rid)
    BY <1>3, KidFacts
  <2> HIDE DEF n
  <2> QED BY <1>2, <1>3, <1>5, <2>1, ChildFound DEF ChildIs, n
<1>7. it.stage = "NEW" /\ it.rid = Top.rid /\ it.files = Top.files /\ it.prog = i
  BY <1>1, <1>3 DEF RefreshIter
<1> HIDE DEF it
<1>8. ChangeIs(recs, P, it, pc', act')
  BY <1>2, <1>3, <1>4, <1>6, <1>7 DEF ChangeIs
<1> QED BY <1>1, <1>2, <1>4, <1>8, ChangeStarts DEF it, Busy, DelTypes

LEMMA ProposeModShaped ==
  ASSUME NEW P, Now(P), ProposeMod
  PROVE  Now(P)'
<1>1. pc = "stage" /\ Top.stage = "NEW" /\ UNCHANGED registry
  BY DEF ProposeMod, InStage, Propose
<1>2. PICK i \in NextNew :
        /\ Child(Top.files[i].name) # 0
        /\ act'.type = "MODFILE"
        /\ act'.path = Append(TopPath, Top.files[i].name)
        /\ pc' = "attr"
        /\ restate' = WithTop([Top EXCEPT !.prog = i])
  BY DEF ProposeMod, Propose, Modification, NoAction
<1> DEFINE n == Top.files[i].name
           it == [Top EXCEPT !.prog = i]
           r == Child(n)
<1>3. Forest(recs, P) /\ Top.rid \in Dirs(recs) /\ TopPath = P[Top.rid] /\ Top \in RefreshIter
  BY <1>1, AtStage
<1>4. i \in DOMAIN Top.files /\ Modified(r, Top.files[i])
  BY <1>2 DEF NextNew, NewItems
<1>5. n \in Names
  <2>1. Top.files \in Seq(Item)
    BY <1>3 DEF RefreshIter
  <2>2. Top.files[i] \in Item
    BY <1>4, <2>1, LenProperties, ElementOfSeq
  <2> QED BY <2>2 DEF Item
<1>6. r \in Active(recs) /\ P[r] = Append(P[Top.rid], n) /\ ~recs[r].isdir /\ ~recs[r].isignore
  <2>1. ~recs[r].isdir /\ ~recs[r].isignore
    BY <1>4 DEF Modified
  <2> HIDE DEF n
  <2>2. r \in Kids(recs, P, Top.rid) /\ P[r] = Append(P[Top.rid], n)
    BY <1>2, <1>3, <1>5, ChildFound DEF ChildIs, n
  <2> QED BY <2>1, <2>2 DEF Kids
<1>7. it.stage = "NEW" /\ it.rid = Top.rid /\ it.files = Top.files /\ it.prog = i
  BY <1>1, <1>3 DEF RefreshIter
<1> HIDE DEF it, r
<1>8. ChangeIs(recs, P, it, pc', act')
  <2>1. P[r] = act'.path
    BY <1>2, <1>3, <1>6
  <2> QED BY <1>2, <1>3, <1>4, <1>6, <1>7, <2>1 DEF ChangeIs
<1> QED BY <1>1, <1>2, <1>4, <1>8, ChangeStarts DEF it, Busy, DelTypes

LEMMA NewDoneShaped ==
  ASSUME NEW P, Now(P), NewDone
  PROVE  Now(P)'
<1> DEFINE it == [Top EXCEPT !.stage = "RECUR", !.prog = 0]
<1>1. /\ pc = "stage" /\ pc' = "stage" /\ Top.stage = "NEW" /\ UNCHANGED registry
      /\ restate' = WithTop(it)
  BY DEF NewDone, InStage, StackOnly
<1>2. /\ Forest(recs, P) /\ Recycled(recs, nrec) /\ Stack(recs, P, restate)
      /\ Top \in RefreshIter /\ Level(recs, P, Top)
  BY <1>1, AtStage
<1>3. it \in RefreshIter /\ it.rid = Top.rid /\ it.name = Top.name /\ it.stage = "RECUR" /\ it.prog = 0
  BY <1>2 DEF RefreshIter, Stages
<1> HIDE DEF it
<1>4. Level(recs, P, it)
  BY <1>1, <1>2, <1>3 DEF Level
<1>5. TopIs(recs, P, it, "step", NoAction)
  BY <1>3 DEF TopIs
<1> QED BY <1>1, <1>2, <1>3, <1>4, <1>5, TopMoves

LEMMA ToReturn ==
  ASSUME NEW P, Now(P), pc = "stage", pc' = "stage", Top.stage # "INIT", UNCHANGED registry,
         restate' = WithTop([Top EXCEPT !.stage = "RETURN"])
  PROVE  Now(P)'
<1> DEFINE it == [Top EXCEPT !.stage = "RETURN"]
<1>1. /\ Forest(recs, P) /\ Recycled(recs, nrec) /\ Stack(recs, P, restate)
      /\ Top \in RefreshIter /\ Level(recs, P, Top)
  BY AtStage
<1>2. it \in RefreshIter /\ it.rid = Top.rid /\ it.name = Top.name /\ it.stage = "RETURN"
  BY <1>1 DEF RefreshIter, Stages
<1>3. restate' = WithTop(it)
  OBVIOUS
<1> HIDE DEF it
<1>4. Level(recs, P, it) /\ TopIs(recs, P, it, "step", NoAction)
  BY <1>1, <1>2 DEF Level, TopIs
<1> QED BY <1>1, <1>2, <1>3, <1>4, TopMoves

(* RECUR finds a directory among the children, from prog on.                    *)
LEMMA ToEnter ==
  ASSUME NEW P, Now(P), pc = "stage", Top.stage = "RECUR", NextToEnter # 0
  PROVE  /\ NextToEnter \in Kids(recs, P, Top.rid) /\ NextToEnter \in Dirs(recs)
         /\ ~recs[NextToEnter].isignore
         /\ NextSibling(recs, NextToEnter) \in Kids(recs, P, Top.rid) \cup {0}
<1> DEFINE K == Kids(recs, P, Top.rid)
           S == {r \in Dirs(recs) : ~recs[r].isignore}
           x == IF Top.prog = 0 THEN recs[Top.rid].sub ELSE Top.prog
           z == NextToEnter
<1>1. Forest(recs, P) /\ Top.rid \in Dirs(recs) /\ Top.prog \in K \cup {0}
  BY AtStage DEF Level
<1>2. Linked(recs, K, Top.rid)
  BY <1>1, KidFacts
<1>3. x \in K \cup {0}
  <2> HIDE DEF K
  <2> QED BY <1>1, <1>2 DEF Linked, FirstOf
<1>4. z = FirstFrom(x, S)
  BY DEF NextToEnter
<1>5. FirstOf(recs, Rest(recs, K, x) \cap S, z)
  <2> HIDE DEF S, x, z
  <2> QED BY <1>1, <1>3, <1>4, FirstFromFinds
<1> HIDE DEF K, x
<1>6. z \in K /\ z \in S
  BY <1>5 DEF FirstOf, Rest
<1>7. NextSibling(recs, z) \in K \cup {0}
  BY <1>2, <1>6 DEF Linked, FirstOf, Greater
<1> QED BY <1>6, <1>7 DEF K

LEMMA RecurShaped ==
  ASSUME NEW P, Now(P), Recur
  PROVE  Now(P)'
<1> DEFINE r == NextToEnter
           next == NextSibling(recs, r)
           stage == IF next = 0 THEN "RETURN" ELSE "RECUR"
           it == [Top EXCEPT !.stage = stage, !.prog = next]
<1>1. /\ pc = "stage" /\ pc' = "stage" /\ Top.stage = "RECUR" /\ UNCHANGED registry
      /\ restate' = IF r = 0 THEN WithTop([Top EXCEPT !.stage = "RETURN"])
                    ELSE Append(WithTop(it), NewIter(r))
  BY DEF Recur, InStage, StackOnly
<1>2. CASE r = 0
  BY <1>1, <1>2, ToReturn
<1>3. CASE r # 0
  <2>1. /\ Forest(recs, P) /\ Recycled(recs, nrec) /\ Stack(recs, P, restate)
        /\ Top \in RefreshIter /\ Level(recs, P, Top) /\ Top.rid \in Dirs(recs)
    BY <1>1, AtStage
  <2>2. /\ r \in Kids(recs, P, Top.rid) /\ r \in Dirs(recs) /\ ~recs[r].isignore
        /\ next \in Kids(recs, P, Top.rid) \cup {0}
    BY <1>1, <1>3, ToEnter
  <2>3. r \in Ids \ {0} /\ next \in Nat
    <3>1. \A q \in Kids(recs, P, Top.rid) : q \in Ids \ {0}
      BY <2>1, KidFacts
    <3> HIDE DEF next, r
    <3> QED BY <2>2, <3>1 DEF Ids
  <2> HIDE DEF r, next
  <2>4. /\ it \in RefreshIter /\ it.rid = Top.rid /\ it.name = Top.name
        /\ it.stage \in {"RECUR", "RETURN"} /\ it.prog = next
    BY <2>1, <2>3 DEF RefreshIter, Stages
  <2>5. restate' = Append(WithTop(it), NewIter(r))
    BY <1>1, <1>3
  <2> HIDE DEF it
  <2>6. Level(recs, P, it)
    BY <1>1, <2>1, <2>2, <2>4 DEF Level
  <2> DEFINE s == [restate EXCEPT ![Len(restate)] = it]
  <2>7. LET u == [restate EXCEPT ![Len(restate)] = it]
        IN Stack(recs, P, u) /\ Len(u) = Len(restate) /\ u[Len(restate)] = it
    BY <2>1, <2>4, <2>6, RetopStack DEF Top
  <2>8. Stack(recs, P, s) /\ s[Len(s)] = it
    BY <2>7
  <2> DEFINE new == NewIter(r)
  <2>9. new \in RefreshIter /\ new.rid = r /\ new.stage = "INIT"
    BY <2>3, NewIterIs
  <2>10. restate' = Append(s, new)
    BY <2>5 DEF WithTop
  <2> HIDE DEF s, new
  <2>11. Level(recs, P, new)
    BY <2>2, <2>9 DEF Level
  <2>12. new.rid \in Kids(recs, P, s[Len(s)].rid) /\ s[Len(s)].stage \in {"RECUR", "RETURN"}
    BY <2>2, <2>4, <2>8, <2>9
  <2>13. Stack(recs, P, Append(s, new)) /\ Append(s, new)[Len(Append(s, new))] = new
    BY <2>8, <2>9, <2>11, <2>12, PushStack
  <2> DEFINE t == Append(s, new)
  <2> HIDE DEF t
  <2>14. Stack(recs, P, t) /\ t[Len(t)] = new /\ restate' = t
    BY <2>10, <2>13 DEF t
  <2>15. TopIs(recs, P, t[Len(t)], "step", NoAction)
    BY <2>9, <2>14 DEF TopIs
  <2> QED BY <1>1, <2>1, <2>14, <2>15, WalkMoves
<1> QED BY <1>2, <1>3

LEMMA RedoUpperShaped ==
  ASSUME NEW P, Now(P), RedoUpper
  PROVE  Now(P)'
<1>1. /\ pc = "stage" /\ pc' = "stage" /\ Top.stage = "REDOUPPER" /\ UNCHANGED registry
      /\ restate' = IF Len(restate) = 1 THEN WithTop([Top EXCEPT !.stage = "RETURN"]) ELSE PoppedToInit
  BY DEF RedoUpper, InStage, StackOnly
<1>2. CASE Len(restate) = 1
  BY <1>1, <1>2, ToReturn
<1>3. CASE Len(restate) # 1
  <2>1. /\ Forest(recs, P) /\ Recycled(recs, nrec) /\ Stack(recs, P, restate)
        /\ Len(restate) >= 2
    <3>1. Len(restate) \in Nat \ {0}
      BY <1>1, AtStage
    <3>2. \A m \in Nat \ {0} : m = 1 \/ m >= 2
      OBVIOUS
    <3>3. Len(restate) >= 2
      BY <1>3, <3>1, <3>2
    <3> QED BY <1>1, <3>3, AtStage
  <2> DEFINE s == PoppedToInit
  <2>2. Stack(recs, P, s) /\ s[Len(s)].stage = "INIT" /\ restate' = s
    BY <1>1, <1>3, <2>1, PopToInit
  <2>3. TopIs(recs, P, s[Len(s)], "step", NoAction)
    BY <2>2 DEF TopIs
  <2> HIDE DEF s
  <2> QED BY <1>1, <2>1, <2>2, <2>3, WalkMoves
<1> QED BY <1>2, <1>3

LEMMA ReturnShaped ==
  ASSUME NEW P, Now(P), Return
  PROVE  Now(P)'
<1>1. /\ pc = "stage" /\ pc' = "stage" /\ UNCHANGED registry /\ restate' = Popped /\ Len(restate) > 1
  BY DEF Return, InStage, StackOnly
<1>2. /\ Forest(recs, P) /\ Recycled(recs, nrec) /\ Stack(recs, P, restate) /\ Len(restate) \in Nat \ {0}
  BY <1>1, AtStage
<1> DEFINE s == Popped
<1>3. Stack(recs, P, s) /\ s[Len(s)].stage \in {"RECUR", "RETURN"}
  BY <1>1, <1>2, PopStack DEF Popped
<1> HIDE DEF s
<1>4. TopIs(recs, P, s[Len(s)], "step", NoAction)
  BY <1>3 DEF TopIs
<1> QED BY <1>1, <1>2, <1>3, <1>4, WalkMoves DEF s

LEMMA FinishShaped ==
  ASSUME NEW P, Now(P), Finish
  PROVE  Now(P)'
<1>1. pc' = "idle" /\ UNCHANGED registry
  BY DEF Finish
<1> QED BY <1>1, RunEnds DEF Ended

-----------------------------------------------------------------------------
(***************************************************************************)
(* The steps of perform that leave the registry alone.                       *)
(***************************************************************************)
LEMMA ActFacts ==
  ASSUME NEW P, Now(P), pc \in Busy
  PROVE  /\ Deleting => pc \in {"hist", "unlink", "forget"} /\ DelIs(recs, P, Top, act)
         /\ ~Deleting => pc \notin {"unlink", "forget"} /\ ChangeIs(recs, P, Top, pc, act)
         /\ ~Deleting => act.type \in {"MODFILE", "ADDDIR", "ADDFILE"}
<1>1. ActIs(recs, P, Top, pc, act)
  BY Acting
<1>2. Deleting <=> act.type \in DelTypes
  BY DEF Deleting, DelTypes
<1>3. /\ Deleting => pc \in {"hist", "unlink", "forget"} /\ DelIs(recs, P, Top, act)
      /\ ~Deleting => pc \notin {"unlink", "forget"} /\ ChangeIs(recs, P, Top, pc, act)
  BY <1>1, <1>2 DEF ActIs
<1>4. ChangeIs(recs, P, Top, pc, act) => act.type \in {"MODFILE", "ADDDIR", "ADDFILE"}
  BY DEF ChangeIs
<1> QED BY <1>3, <1>4

LEMMA ActionOver ==
  ASSUME NEW P, Now(P), pc \in Busy, ~Deleting, pc' = "step", UNCHANGED registry, UNCHANGED restate
  PROVE  Now(P)'
<1>1. /\ Forest(recs, P) /\ Recycled(recs, nrec) /\ Stack(recs, P, restate)
      /\ TopIs(recs, P, Top, pc, act) /\ Top.stage \in {"REMOVE", "NEW"}
  BY Acting
<1>2. \A r : ~Doomed(P, pc, act, r)
  BY DEF Doomed, Deleting, DelTypes
<1>3. TopIs(recs, P, Top, "step", NoAction)
  BY <1>1, <1>2 DEF TopIs
<1>4. TopIs(recs, P, restate[Len(restate)], "step", NoAction)
  BY <1>3 DEF Top
<1> QED BY <1>1, <1>4, WalkMoves

LEMMA ReadAttrShaped ==
  ASSUME Types, NEW P, Now(P), ReadAttr
  PROVE  Now(P)'
<1>1. /\ pc = "attr" /\ UNCHANGED registry /\ UNCHANGED restate
      /\ pc' \in {"missing", "step", "upload"} \/ (pc' = "hist" /\ act.keephist)
  BY DEF ReadAttr, Goto, walk
<1>2. act'.type = act.type /\ act'.path = act.path /\ act'.keephist = act.keephist
  BY DEF ReadAttr, Types, Action
<1>3. ~Deleting /\ ChangeIs(recs, P, Top, pc, act)
  BY <1>1, ActFacts DEF Busy
<1>4. CASE pc' = "step"
  BY <1>1, <1>3, <1>4, ActionOver DEF Busy
<1>5. CASE pc' # "step"
  <2>1. act.type \in {"ADDDIR", "ADDFILE"} => act.type = "ADDFILE" /\ ~act.keephist
    BY <1>1, <1>3 DEF ChangeIs
  <2>2. pc' \in {"missing", "upload", "hist"} /\ (pc' = "hist" => act.keephist)
    BY <1>1, <1>5
  <2> QED BY <1>1, <1>2, <1>3, <2>1, <2>2, BusyMoves DEF Busy
<1> QED BY <1>4, <1>5

LEMMA PutHistShaped ==
  ASSUME Types, NEW P, Now(P), PutHist \/ PutHistFails
  PROVE  Now(P)'
<1>1. /\ pc = "hist" /\ UNCHANGED registry
      /\ \/ pc' = "idle"
         \/ /\ pc' = (IF Deleting THEN "unlink" ELSE "upload") /\ UNCHANGED restate
            /\ act'.type = act.type /\ act'.path = act.path /\ act'.keephist = act.keephist
  <2>1. CASE PutHist
    BY <2>1 DEF PutHist, Goto, walk
  <2>2. CASE PutHistFails
    <3>1. pc = "hist" /\ UNCHANGED registry
      BY <2>2 DEF PutHistFails, Fault
    <3>2. CASE Deleting
      BY <2>2, <3>1, <3>2 DEF PutHistFails, EndRun
    <3>3. CASE ~Deleting
      BY <2>2, <3>1, <3>3 DEF PutHistFails, walk, Types, Action
    <3> QED BY <3>2, <3>3
  <2> QED BY <2>1, <2>2
<1>2. ~Deleting => act.type = "MODFILE"
  BY <1>1, ActFacts DEF Busy, ChangeIs
<1>3. CASE pc' = "idle"
  BY <1>1, <1>3, RunEnds DEF Ended
<1>4. CASE pc' # "idle"
  <2>1. /\ pc' = (IF Deleting THEN "unlink" ELSE "upload") /\ UNCHANGED restate
        /\ act'.type = act.type /\ act'.path = act.path /\ act'.keephist = act.keephist
    BY <1>1, <1>4
  <2>2. Deleting => act.type \notin {"MODFILE", "ADDDIR", "ADDFILE"}
    BY DEF Deleting
  <2> QED BY <1>1, <1>2, <2>1, <2>2, BusyMoves DEF Busy
<1> QED BY <1>3, <1>4

LEMMA UploadShaped ==
  ASSUME Types, NEW P, Now(P), Upload \/ UploadGone \/ UploadLocked \/ UploadFails
  PROVE  Now(P)'
<1>1. /\ pc = "upload" /\ UNCHANGED registry
      /\ \/ pc' = "idle"
         \/ /\ pc' = "record" /\ UNCHANGED restate
            /\ act'.type = act.type /\ act'.path = act.path /\ act'.keephist = act.keephist
  <2>1. CASE Upload
    BY <2>1 DEF Upload, EndRun, walk
  <2>2. CASE UploadGone
    BY <2>2 DEF UploadGone, Goto, walk, Types, Action
  <2>3. CASE UploadLocked
    BY <2>3 DEF UploadLocked, Fault, walk, Types, Action
  <2>4. CASE UploadFails
    BY <2>4 DEF UploadFails, Fault, EndRun
  <2> QED BY <2>1, <2>2, <2>3, <2>4
<1>2. ~Deleting
  BY <1>1, ActFacts DEF Busy
<1>3. CASE pc' = "idle"
  BY <1>1, <1>3, RunEnds DEF Ended
<1>4. CASE pc' # "idle"
  BY <1>1, <1>2, <1>4, BusyMoves DEF Busy
<1> QED BY <1>3, <1>4

LEMMA MkDirShaped ==
  ASSUME NEW P, Now(P), MkDir \/ MkDirFails
  PROVE  Now(P)'
<1>1. /\ pc = "mkdir" /\ UNCHANGED registry
      /\ pc' = "idle" \/ (pc' = "record" /\ UNCHANGED restate /\ act' = act)
  BY DEF MkDir, MkDirFails, Goto, walk, Fault, EndRun
<1>2. ~Deleting
  BY <1>1, ActFacts DEF Busy
<1>3. CASE pc' = "idle"
  BY <1>1, <1>3, RunEnds DEF Ended
<1>4. CASE pc' # "idle"
  BY <1>1, <1>2, <1>4, BusyMoves DEF Busy
<1> QED BY <1>3, <1>4

LEMMA DeleteShaped ==
  ASSUME NEW P, Now(P), SkipRemote \/ DeleteRemote \/ DeleteRefused \/ DeleteFails \/ DelDirMissed
  PROVE  Now(P)'
<1>1. /\ pc = "unlink" /\ UNCHANGED registry
      /\ pc' = "idle" \/ (pc' = "forget" /\ UNCHANGED restate /\ act' = act)
  <2>1. CASE SkipRemote
    BY <2>1 DEF SkipRemote, Goto, walk
  <2>2. CASE DeleteRemote
    BY <2>2 DEF DeleteRemote, Goto, walk
  <2>3. CASE DeleteRefused
    BY <2>3 DEF DeleteRefused, EndRun
  <2>4. CASE DeleteFails
    BY <2>4 DEF DeleteFails, Fault, EndRun
  <2>5. CASE DelDirMissed
    BY <2>5 DEF DelDirMissed, Fault, walk
  <2> QED BY <2>1, <2>2, <2>3, <2>4, <2>5
<1>2. Deleting
  BY <1>1, ActFacts DEF Busy
<1>3. CASE pc' = "idle"
  BY <1>1, <1>3, RunEnds DEF Ended
<1>4. CASE pc' # "idle"
  <2>1. act.type \notin {"MODFILE", "ADDDIR", "ADDFILE"}
    BY <1>2 DEF Deleting
  <2> QED BY <1>1, <1>2, <1>4, <2>1, BusyMoves DEF Busy
<1> QED BY <1>3, <1>4

LEMMA CrashShaped ==
  ASSUME NEW P, Now(P), Crash
  PROVE  Now(P)'
<1>1. pc' = "idle" /\ UNCHANGED registry
  BY DEF Crash, Fault, EndRun
<1> QED BY <1>1, RunEnds DEF Ended

-----------------------------------------------------------------------------
(***************************************************************************)
(* The steps of perform that rewrite the registry.                           *)
(***************************************************************************)
LEMMA RecordAtFinds ==
  ASSUME NEW P, Forest(recs, P), NEW p \in AnyPath
  PROVE  /\ RecordAt(p) \in Active(recs) \cup {0}
         /\ RecordAt(p) # 0 => P[RecordAt(p)] = p
         /\ \A r \in Active(recs) : P[r] = p => RecordAt(p) = r
<1>1. RecordAt(p) = At(recs, p)
  BY RecordAtIsAt
<1>2. /\ At(recs, p) \in Active(recs) \cup {0}
      /\ At(recs, p) # 0 => P[At(recs, p)] = p
      /\ \A r \in Active(recs) : P[r] = p => At(recs, p) = r
  BY AtFinds
<1> QED BY <1>1, <1>2

RecordedIs(old, new) ==
  /\ new \in RecordItem
  /\ new.name = old.name /\ new.next = old.next /\ new.islast = old.islast
  /\ new.isdir = old.isdir /\ new.isactive = old.isactive /\ new.isignore = old.isignore

LEMMA RecordedFacts ==
  ASSUME Types, NEW old \in RecordItem
  PROVE  RecordedIs(old, Recorded(old))
<1>1. act.attr.time \in Nat /\ act.attr.size \in Nat /\ act.pending \in BOOLEAN
  BY DEF Types, Action, Attr
<1>2. CASE act.pending
  BY <1>2 DEF Recorded, RecordedIs, RecordItem
<1>3. CASE ~act.pending
  BY <1>1, <1>3 DEF Recorded, RecordedIs, RecordItem
<1> QED BY <1>2, <1>3

(* What an entry that is added or modified knows.                              *)
ChangeFacts(P, n) ==
  /\ Forest(recs, P) /\ Recycled(recs, nrec) /\ Stack(recs, P, restate)
  /\ Top \in RefreshIter /\ Top.rid \in Dirs(recs) /\ ~recs[Top.rid].isignore
  /\ Top.stage = "NEW" /\ TopIs(recs, P, Top, "step", NoAction)
  /\ Top.prog \in DOMAIN Top.files /\ n = Top.files[Top.prog].name
  /\ n \in Names /\ Len(P[Top.rid]) < Depth
  /\ act.path = Append(P[Top.rid], n) /\ act.path[Len(act.path)] = n
  /\ RecordAt(Parent(act.path)) = Top.rid
  /\ \/ /\ act.type = "MODFILE"
        /\ \E r \in Active(recs) : P[r] = act.path /\ ~recs[r].isdir /\ ~recs[r].isignore
     \/ /\ act.type = (IF Top.files[Top.prog].isdir THEN "ADDDIR" ELSE "ADDFILE")
        /\ \A r \in Active(recs) : P[r] # act.path

LEMMA ChangeKnows ==
  ASSUME NEW P, Now(P), pc \in Busy, ~Deleting
  PROVE  \E n : ChangeFacts(P, n)
<1> DEFINE n == Top.files[Top.prog].name
<1>1. /\ Forest(recs, P) /\ Recycled(recs, nrec) /\ Stack(recs, P, restate)
      /\ TopIs(recs, P, Top, pc, act) /\ ChangeIs(recs, P, Top, pc, act)
  BY Acting, ActFacts
<1>2. Top \in RefreshIter /\ Top.rid \in Dirs(recs) /\ Level(recs, P, Top)
  BY <1>1, TopFacts DEF Top
<1>3. /\ Top.stage = "NEW" /\ Top.prog \in DOMAIN Top.files /\ act.path = Append(P[Top.rid], n)
      /\ \/ /\ act.type = "MODFILE"
            /\ \E r \in Active(recs) : P[r] = act.path /\ ~recs[r].isdir /\ ~recs[r].isignore
         \/ /\ act.type = (IF Top.files[Top.prog].isdir THEN "ADDDIR" ELSE "ADDFILE")
            /\ \A r \in Active(recs) : P[r] # act.path
  BY <1>1 DEF ChangeIs
<1>4. n \in Names
  <2>1. Top.files \in Seq(Item)
    BY <1>2 DEF RefreshIter
  <2>2. Top.files[Top.prog] \in Item
    BY <1>3, <2>1, LenProperties, ElementOfSeq
  <2> QED BY <2>2 DEF Item
<1>5. Len(P[Top.rid]) < Depth
  BY <1>1, <1>3 DEF TopIs
<1>6. P[Top.rid] \in Seq(Names) /\ P[Top.rid] \in AnyPath
  BY <1>1, <1>2, KidFacts, PathSets
<1>7. act.path[Len(act.path)] = n /\ Parent(act.path) = P[Top.rid]
  BY <1>3, <1>4, <1>6, AppendPath
<1>8. RecordAt(P[Top.rid]) = Top.rid
  BY <1>1, <1>2, <1>6, RecordAtFinds DEF Dirs
<1>9. TopIs(recs, P, Top, "step", NoAction)
  <2>1. \A r : ~Doomed(P, pc, act, r)
    BY DEF Doomed, Deleting, DelTypes
  <2> QED BY <1>1, <1>3, <2>1 DEF TopIs
<1>10. ~recs[Top.rid].isignore
  BY <1>2 DEF Level
<1> HIDE DEF n
<1>11. ChangeFacts(P, n)
  BY <1>1, <1>2, <1>3, <1>4, <1>5, <1>7, <1>8, <1>9, <1>10 DEF ChangeFacts, n
<1> QED BY <1>11

LEMMA LookupFinds ==
  ASSUME NEW P, NEW n, ChangeFacts(P, n)
  PROVE  Found(recs, Kids(recs, P, Top.rid), Top.rid, n, FindRecord(recs, NamesNow, Top.rid, n))
<1>1. NamesNow = [r \in Ids |-> recs[r].name]
  BY DEF NamesNow, NameOf
<1>2. n \in Nat /\ Forest(recs, P) /\ Top.rid \in Dirs(recs)
  BY NamesAssumption DEF ChangeFacts
<1>3. Found(recs, Kids(recs, P, Top.rid), Top.rid, n,
            FindRecord(recs, [r \in Ids |-> recs[r].name], Top.rid, n))
  BY <1>2, FindRecordFinds
<1> QED BY <1>1, <1>3

LEMMA RecordModShaped ==
  ASSUME Types, NEW P, NEW n, ChangeFacts(P, n), UNCHANGED restate, pc' = "step",
         NEW found, Found(recs, Kids(recs, P, Top.rid), Top.rid, n, found), found.type = "FR_MATCH",
         recs' = [recs EXCEPT ![found.id] = Recorded(@)], nrec' = nrec
  PROVE  Now(P)'
<1> DEFINE K == Kids(recs, P, Top.rid)
           r == found.id
           S == [recs EXCEPT ![r] = Recorded(@)]
<1>1. /\ Forest(recs, P) /\ Recycled(recs, nrec) /\ Stack(recs, P, restate)
      /\ Top.stage = "NEW" /\ TopIs(recs, P, Top, "step", NoAction)
      /\ Top.rid \in Dirs(recs) /\ act.path = Append(P[Top.rid], n)
  BY DEF ChangeFacts
<1>2. r \in K /\ recs[r].name = n
  BY DEF Found
<1>3. r \in Active(recs) /\ r \in Ids /\ P[r] = act.path /\ recs[r] \in RecordItem
  BY <1>1, <1>2, KidFacts, SMTT(60)
<1>4. ~recs[r].isdir
  <2>1. PICK q \in Active(recs) : P[q] = act.path /\ ~recs[q].isdir
    BY <1>3 DEF ChangeFacts
  <2>2. q = r
    BY <1>1, <1>3, <2>1 DEF Forest, Placed
  <2> QED BY <2>1, <2>2
<1>5. RecordedIs(recs[r], Recorded(recs[r]))
  BY <1>3, RecordedFacts
<1>6. recs \in [Ids -> RecordItem]
  BY <1>1 DEF Forest
<1>7. S \in [Ids -> RecordItem] /\ \A q \in Ids : S[q] = IF q = r THEN Recorded(recs[r]) ELSE recs[q]
  <2> HIDE DEF r
  <2> QED BY <1>3, <1>5, <1>6 DEF RecordedIs
<1>8. recs' = S
  OBVIOUS
<1> HIDE DEF S, r, K
<1>9. SameLinks(recs, S)
  BY <1>4, <1>5, <1>7 DEF SameLinks, RecordedIs
<1>10. Forest(S, P) /\ Active(S) = Active(recs)
  BY <1>1, <1>7, <1>9, SameForest
<1>11. Recycled(S, nrec)
  <2>1. Idle(S) = Idle(recs) /\ \A q \in Idle(recs) : S[q].next = recs[q].next
    BY <1>9, <1>10 DEF Idle, SameLinks
  <2> QED BY <1>1, <2>1 DEF Recycled
<1>12. SameInUse(recs, S)
  BY <1>9 DEF SameInUse, SameLinks, Active
<1>13. Stack(S, P, restate)
  <2>1. restate[Len(restate)].stage # "RECUR"
    BY <1>1 DEF Top
  <2> QED BY <1>1, <1>10, <1>12, <2>1, KeepStack
<1>14. TopIs(S, P, Top, "step", act)
  <2>1. \A q \in Kids(S, P, Top.rid) :
          q \in Kids(recs, P, Top.rid) /\ S[q].name = recs[q].name /\ S[q].isdir = recs[q].isdir
    BY <1>9, <1>10 DEF Kids, SameLinks, Active
  <2>2. \A q \in Kids(recs, P, Top.rid) : Borne(recs, Top.files, q)
    BY <1>1 DEF TopIs, Doomed
  <2>3. \A q \in Kids(S, P, Top.rid) : Borne(S, Top.files, q)
    BY <2>1, <2>2 DEF Borne
  <2> QED BY <1>1, <2>3 DEF TopIs
<1>15. Shaped(S, nrec, P, restate, "step", act')
  <2>1. TopIs(S, P, restate[Len(restate)], "step", act')
    BY <1>1, <1>14 DEF TopIs, Doomed, Top
  <2> QED BY <1>10, <1>11, <1>13, <2>1 DEF Shaped, Going, Busy
<1> QED BY <1>8, <1>15 DEF Now

(* The new record.                                                           *)
NewRecord ==
  LET blank == [Blank EXCEPT !.isactive = TRUE, !.name = act.path[Len(act.path)],
                             !.isignore = act.isignore]
  IN IF act.type = "ADDDIR" THEN [blank EXCEPT !.isdir = TRUE] ELSE Recorded(blank)

LEMMA NewRecordIs ==
  ASSUME Types, NEW n \in Names, act.path[Len(act.path)] = n
  PROVE  /\ NewRecord \in RecordItem /\ NewRecord.isactive /\ NewRecord.name = n
         /\ NewRecord.isdir = (act.type = "ADDDIR")
         /\ NewRecord.isdir => NewRecord.sub = 0
<1> DEFINE blank == [Blank EXCEPT !.isactive = TRUE, !.name = act.path[Len(act.path)],
                                  !.isignore = act.isignore]
<1>1. act.isignore \in BOOLEAN /\ n \in Nat
  BY NamesAssumption DEF Types, Action
<1>2. /\ blank \in RecordItem /\ blank.isactive /\ blank.name = n /\ blank.isdir = FALSE /\ blank.sub = 0
  BY <1>1 DEF Blank, RecordItem
<1>3. NewRecord = IF act.type = "ADDDIR" THEN [blank EXCEPT !.isdir = TRUE] ELSE Recorded(blank)
  BY DEF NewRecord
<1> HIDE DEF blank
<1>4. CASE act.type = "ADDDIR"
  BY <1>2, <1>3, <1>4 DEF RecordItem
<1>5. CASE act.type # "ADDDIR"
  <2>1. RecordedIs(blank, Recorded(blank))
    BY <1>2, RecordedFacts
  <2> QED BY <1>2, <1>3, <1>5, <2>1 DEF RecordedIs
<1> QED BY <1>4, <1>5

LEMMA RecordNewShaped ==
  ASSUME Types, NEW P, NEW n, ChangeFacts(P, n), UNCHANGED restate, pc' = "step",
         NEW found, Found(recs, Kids(recs, P, Top.rid), Top.rid, n, found), found.type # "FR_MATCH",
         RecordNew(Top.rid, found.id)
  PROVE  \E Q : Now(Q)'
<1> DEFINE K == Kids(recs, P, Top.rid)
           i == Top.prog
<1>1. /\ Forest(recs, P) /\ Recycled(recs, nrec) /\ Stack(recs, P, restate)
      /\ Top.stage = "NEW" /\ TopIs(recs, P, Top, "step", NoAction)
      /\ Top.rid \in Dirs(recs) /\ ~recs[Top.rid].isignore /\ Len(P[Top.rid]) < Depth
      /\ act.path = Append(P[Top.rid], n) /\ act.path[Len(act.path)] = n /\ n \in Names
      /\ i \in DOMAIN Top.files /\ n = Top.files[i].name
  BY DEF ChangeFacts
<1>2. /\ NewRecord \in RecordItem /\ NewRecord.isactive /\ NewRecord.name = n
      /\ NewRecord.isdir = (act.type = "ADDDIR")
      /\ NewRecord.isdir => NewRecord.sub = 0
  BY <1>1, NewRecordIs
<1>3. PICK rid \in {NewId(recs, nrec)} \cap Ids :
        /\ recs' = LinkRecord(AllocRec(recs, rid, NewRecord), Top.rid, found.id, rid)
        /\ nrec' = IF rid = nrec THEN nrec + 1 ELSE nrec
  BY DEF RecordNew, NewRecord
<1> DEFINE S == LinkRecord(AllocRec(recs, rid, NewRecord), Top.rid, found.id, rid)
           Q == Extended(recs, P, rid, Append(P[Top.rid], NewRecord.name))
<1>4. Allocated(recs, P, nrec, rid, NewRecord, Append(P[Top.rid], NewRecord.name), S)
  <2>1. Found(recs, Kids(recs, P, Top.rid), Top.rid, NewRecord.name, found)
    BY <1>2
  <2>2. NewRecord.name \in Names
    BY <1>1, <1>2
  <2> QED BY <1>1, <1>2, <2>1, <2>2, AllocForest
<1>5. recs' = S
  BY <1>3
<1> HIDE DEF S
<1>6. /\ rid \notin Active(recs) /\ Active(S) = Active(recs) \cup {rid}
      /\ Forest(S, Q) /\ SameInUse(recs, S) /\ Recycled(S, nrec')
      /\ S[rid].name = n /\ S[rid].isdir = (act.type = "ADDDIR")
  BY <1>2, <1>3, <1>4 DEF Allocated
<1>7. \A q \in Active(recs) : Q[q] = P[q]
  BY <1>6 DEF Extended
<1> HIDE DEF Q
<1>8. Stack(S, Q, restate)
  <2>1. restate[Len(restate)].stage # "RECUR"
    BY <1>1 DEF Top
  <2>2. \A r \in Active(recs) : Len(P[r]) < Len(restate) => r \in Active(S)
    BY <1>6
  <2>3. \A r \in Active(recs) \cap Active(S) : Q[r] = P[r]
    BY <1>7
  <2> QED BY <1>1, <1>6, <2>1, <2>2, <2>3, KeepStack
<1>9. act.type = (IF Top.files[i].isdir THEN "ADDDIR" ELSE "ADDFILE")
  <2> SUFFICES ASSUME act.type = "MODFILE" PROVE FALSE
    BY DEF ChangeFacts
  <2>1. PICK r \in Active(recs) : P[r] = act.path
    BY DEF ChangeFacts
  <2>2. P[Top.rid] \in Seq(Names)
    BY <1>1, KidFacts
  <2>3. P[r] # <<>>
    BY <1>1, <2>1, <2>2, AppendPath, SMTT(60)
  <2>4. r # ROOT
    BY <1>1, <2>3, ParentOf
  <2>5. PICK u \in Dirs(recs) : r \in Kids(recs, P, u)
    BY <1>1, <2>4, ParentOf
  <2>6. P[r] = Append(P[u], recs[r].name) /\ P[u] \in Seq(Names) /\ recs[r].name \in Names
    BY <1>1, <2>5, KidFacts
  <2>7. recs[r].name = n
    <3>1. P[r][Len(P[r])] = recs[r].name
      BY <2>6, AppendPath
    <3> QED BY <1>1, <2>1, <3>1
  <2>8. r \in K
    BY <1>1, <2>1, <2>7 DEF Kids
  <2>9. n \in Nat
    BY <1>1, NamesAssumption
  <2> HIDE DEF K
  <2>10. \A s \in K : recs[s].name # n
    <3>1. Found(recs, K, Top.rid, n, found)
      BY DEF K
    <3>2. \A m \in Nat : ~(m < m)
      OBVIOUS
    <3> QED BY <2>9, <3>1, <3>2 DEF Found
  <2> QED BY <2>7, <2>8, <2>10
<1>10. Top.files[i].isdir \in BOOLEAN
  <2>1. Top.files \in Seq(Item)
    BY DEF ChangeFacts, RefreshIter
  <2>2. Top.files[i] \in Item
    BY <1>1, <2>1, LenProperties, ElementOfSeq
  <2> QED BY <2>2 DEF Item
<1> HIDE DEF K
<1>11. TopIs(S, Q, Top, "step", act)
  <2>1. Top.rid \in Active(recs) /\ Q[Top.rid] = P[Top.rid]
    BY <1>1, <1>7 DEF Dirs
  <2>2. \A q \in Kids(recs, P, Top.rid) : Borne(recs, Top.files, q)
    BY <1>1 DEF TopIs, Doomed
  <2>3. Borne(S, Top.files, rid)
    BY <1>1, <1>6, <1>9, <1>10 DEF Borne
  <2>4. ASSUME NEW q \in Kids(S, Q, Top.rid), q # rid
        PROVE  Borne(S, Top.files, q)
    <3>1. q \in Active(recs) /\ q \in Active(S)
      BY <1>6, <2>4 DEF Kids
    <3>2. S[q].name = recs[q].name /\ S[q].isdir = recs[q].isdir /\ Q[q] = P[q]
      BY <1>6, <1>7, <3>1 DEF SameInUse
    <3>3. q \in Kids(recs, P, Top.rid)
      BY <2>1, <2>4, <3>1, <3>2 DEF Kids
    <3> QED BY <2>2, <3>2, <3>3 DEF Borne
  <2>5. \A q \in Kids(S, Q, Top.rid) : Borne(S, Top.files, q)
    BY <2>3, <2>4
  <2> QED BY <1>1, <2>1, <2>5 DEF TopIs
<1>12. Shaped(S, nrec', Q, restate, "step", act')
  <2>1. TopIs(S, Q, restate[Len(restate)], "step", act')
    BY <1>1, <1>11, Zenon DEF TopIs, Doomed, Top
  <2> QED BY <1>6, <1>8, <2>1 DEF Shaped, Going, Busy
<1>13. Shaped(recs', nrec', Q, restate', pc', act')
  BY <1>5, <1>12
<1>14. \E Z : Shaped(recs', nrec', Z, restate', pc', act')
  BY <1>13
<1> QED BY <1>14 DEF Now

LEMMA RecordShaped ==
  ASSUME Types, NEW P, Now(P), Record
  PROVE  \E Q : Now(Q)'
<1>1. pc = "record" /\ pc' = "step" /\ UNCHANGED restate
  BY DEF Record, Goto, walk
<1>2. ~Deleting
  BY <1>1, ActFacts DEF Busy
<1>3. PICK n : ChangeFacts(P, n)
  BY <1>1, <1>2, ChangeKnows DEF Busy
<1> DEFINE found == FindRecord(recs, NamesNow, Top.rid, n)
<1>4. Found(recs, Kids(recs, P, Top.rid), Top.rid, n, found)
  BY <1>3, LookupFinds
<1>5. IF found.type = "FR_MATCH"
      THEN recs' = [recs EXCEPT ![found.id] = Recorded(@)] /\ nrec' = nrec
      ELSE RecordNew(Top.rid, found.id)
  BY <1>3 DEF Record, ChangeFacts
<1> HIDE DEF found
<1>6. CASE found.type = "FR_MATCH"
  BY <1>1, <1>3, <1>4, <1>5, <1>6, RecordModShaped
<1>7. CASE found.type # "FR_MATCH"
  BY <1>1, <1>3, <1>4, <1>5, <1>7, RecordNewShaped
<1> QED BY <1>6, <1>7

(* What a deletion knows: r is the record of the entry to delete, leaf the record  *)
(* that goes next, u the directory it is in.                                    *)
DeleteFacts(P, r, u) ==
  /\ Forest(recs, P) /\ Recycled(recs, nrec) /\ Stack(recs, P, restate)
  /\ TopIs(recs, P, Top, pc, act) /\ Top.stage \in {"REMOVE", "NEW"}
  /\ r \in Kids(recs, P, Top.rid) /\ P[r] = act.path /\ act.path \in Paths
  /\ recs[r].isdir = (act.type = "DELDIR") /\ RecordAt(act.path) = r
  /\ Top.stage = "REMOVE" => Top.prog # 0 /\ recs[r].name < recs[Top.prog].name
  /\ LeafIs(P)
  /\ u \in Dirs(recs) /\ Leaf.id \in Kids(recs, P, u) /\ RecordAt(Parent(Leaf.path)) = u

LEMMA DeleteKnows ==
  ASSUME NEW P, Now(P), pc \in Busy, Deleting
  PROVE  \E r, u : DeleteFacts(P, r, u)
<1>1. /\ Forest(recs, P) /\ Recycled(recs, nrec) /\ Stack(recs, P, restate)
      /\ TopIs(recs, P, Top, pc, act) /\ Top.stage \in {"REMOVE", "NEW"}
      /\ DelIs(recs, P, Top, act) /\ act.path \in Paths
  BY Acting, ActFacts
<1>2. PICK r \in Kids(recs, P, Top.rid) :
        /\ P[r] = act.path /\ recs[r].isdir = (act.type = "DELDIR")
        /\ Top.stage = "REMOVE" => Top.prog # 0 /\ recs[r].name < recs[Top.prog].name
  BY <1>1 DEF DelIs
<1>3. r \in Active(recs)
  BY <1>2 DEF Kids
<1>4. RecordAt(act.path) = r
  BY <1>1, <1>2, <1>3, RecordAtFinds DEF AnyPath
<1>5. Start0(P)
  BY <1>2, <1>3, <1>4 DEF Start0
<1>6. LeafIs(P)
  BY <1>1, <1>5, LeafFound
<1> DEFINE leaf == Leaf.id
<1>7. /\ leaf \in Active(recs) /\ Leaf.path = P[leaf]
      /\ Len(P[leaf]) >= Len(act.path)
  BY <1>6 DEF LeafIs
<1> HIDE DEF leaf
<1>8. leaf # ROOT
  <2> SUFFICES ASSUME leaf = ROOT PROVE FALSE
    OBVIOUS
  <2>1. P[leaf] = <<>>
    BY <1>1, <1>7, ParentOf
  <2>2. Len(act.path) \in 1 .. Depth
    BY <1>1, PathSets
  <2>3. Len(P[leaf]) = 0
    BY <2>1
  <2> QED BY <1>7, <2>2, <2>3
<1>9. PICK u \in Dirs(recs) : leaf \in Kids(recs, P, u)
  BY <1>1, <1>7, <1>8, ParentOf
<1>10. Parent(Leaf.path) = P[u] /\ P[u] \in AnyPath
  <2>1. Parent(P[leaf]) = P[u] /\ P[u] \in Seq(Names) /\ Len(P[u]) <= Depth
    BY <1>1, <1>9, KidFacts
  <2> QED BY <1>7, <2>1, PathSets
<1>11. RecordAt(Parent(Leaf.path)) = u
  BY <1>1, <1>9, <1>10, RecordAtFinds DEF Dirs
<1>12. DeleteFacts(P, r, u)
  BY <1>1, <1>2, <1>4, <1>6, <1>9, <1>11 DEF DeleteFacts, leaf
<1> QED BY <1>12

LEMMA ForgetShaped ==
  ASSUME NEW P, Now(P), Forget
  PROVE  \E Q : Now(Q)'
<1>1. pc = "forget" /\ UNCHANGED restate /\ act' = act /\ nrec' = nrec
  BY DEF Forget, Goto, walk
<1>2. Deleting
  BY <1>1, ActFacts DEF Busy
<1>3. PICK r, u : DeleteFacts(P, r, u)
  BY <1>1, <1>2, DeleteKnows DEF Busy
<1> DEFINE leaf == Leaf.id
           K == Kids(recs, P, Top.rid)
<1>4. /\ Forest(recs, P) /\ Recycled(recs, nrec) /\ Stack(recs, P, restate)
      /\ TopIs(recs, P, Top, pc, act) /\ Top.stage \in {"REMOVE", "NEW"}
      /\ r \in K /\ P[r] = act.path /\ act.path \in Paths
      /\ recs[r].isdir = (act.type = "DELDIR")
      /\ Top.stage = "REMOVE" => Top.prog # 0 /\ recs[r].name < recs[Top.prog].name
      /\ u \in Dirs(recs) /\ leaf \in Kids(recs, P, u) /\ RecordAt(Parent(Leaf.path)) = u
  BY <1>3 DEF DeleteFacts
<1>5. /\ leaf \in Active(recs) /\ Leaf.path = P[leaf]
      /\ recs[leaf].isdir => Kids(recs, P, leaf) = {}
      /\ Len(P[leaf]) >= Len(act.path) /\ SubSeq(P[leaf], 1, Len(act.path)) = act.path
  BY <1>3 DEF DeleteFacts, LeafIs
<1>6. PICK pre, rpre \in Ids :
        /\ IsLinkTo(recs, leaf, u, pre) /\ IsRecyclePre(recs, leaf, rpre)
        /\ recs' = RecycleRec(UnlinkRecord(recs, u, pre, leaf), rpre, leaf)
        /\ pc' = IF P[leaf] = act.path THEN "step" ELSE "unlink"
  BY <1>4, <1>5 DEF Forget, Goto
<1> DEFINE S == RecycleRec(UnlinkRecord(recs, u, pre, leaf), rpre, leaf)
           Q == Without(recs, P, leaf)
<1> HIDE DEF leaf
<1>7. Freed(recs, P, nrec, leaf, S)
  BY <1>4, <1>5, <1>6, RecycleForest
<1>8. recs' = S
  BY <1>6
<1> HIDE DEF S
<1>9. Active(S) = Active(recs) \ {leaf} /\ Forest(S, Q) /\ Recycled(S, nrec) /\ SameInUse(recs, S)
  BY <1>7 DEF Freed
<1>10. \A q \in Active(S) : Q[q] = P[q] /\ q \in Active(recs) /\ q # leaf
  BY <1>9 DEF Without
<1> HIDE DEF Q
<1>11. \A q \in Active(S) : S[q].name = recs[q].name /\ S[q].isdir = recs[q].isdir
  BY <1>9, <1>10 DEF SameInUse
(* The directories on the stack are above what goes.                              *)
<1>12. Len(restate) \in Nat \ {0} /\ Top.rid \in Dirs(recs) /\ Len(P[Top.rid]) = Len(restate) - 1
  <2>1. Len(restate) \in Nat \ {0} /\ Top.rid \in Dirs(recs)
    BY <1>4, TopFacts DEF Top
  <2>2. Len(restate) \in 1 .. Len(restate)
    BY <2>1
  <2>3. Len(P[restate[Len(restate)].rid]) = Len(restate) - 1
    BY <1>4, <2>2, StackPath
  <2> QED BY <2>1, <2>3 DEF Top
<1>13. /\ \A q \in K : Len(P[q]) = Len(restate) /\ q # 0 /\ q \in Active(recs) /\ recs[q].name \in Nat
       /\ Len(act.path) = Len(restate)
  <2>1. \A q \in K : /\ Len(P[q]) = Len(P[Top.rid]) + 1 /\ q \in Ids \ {0} /\ q \in Active(recs)
                     /\ recs[q].name \in Nat
    BY <1>4, <1>12, KidFacts
  <2> HIDE DEF K
  <2>2. \A q \in K : Len(P[q]) = Len(restate)
    BY <1>12, <2>1
  <2> QED BY <1>4, <2>1, <2>2
<1>14. Stack(S, Q, restate)
  <2>1. restate[Len(restate)].stage # "RECUR"
    BY <1>4 DEF Top
  <2>2. \A q \in Active(recs) : Len(P[q]) < Len(restate) => q \in Active(S)
    <3> SUFFICES ASSUME Len(P[leaf]) < Len(restate) PROVE FALSE
      BY <1>9
    <3>1. Len(P[leaf]) \in Nat
      BY <1>4, <1>5, ParentOf
    <3> QED BY <1>5, <1>12, <1>13, <3>1
  <2>3. \A q \in Active(recs) \cap Active(S) : Q[q] = P[q]
    BY <1>10
  <2> QED BY <1>4, <1>9, <2>1, <2>2, <2>3, KeepStack
<1>15. /\ Top.rid \in Active(S) /\ Q[Top.rid] = P[Top.rid]
       /\ Kids(S, Q, Top.rid) = K \ {leaf}
  <2>1. Top.rid \in Active(recs) /\ Top.rid # leaf
    <3>1. Top.rid \in Active(recs)
      BY <1>12 DEF Dirs
    <3>2. Len(P[leaf]) \in Nat
      BY <1>4, <1>5, ParentOf
    <3>3. Len(P[leaf]) # Len(P[Top.rid])
      BY <1>5, <1>12, <1>13, <3>2
    <3> QED BY <3>1, <3>3
  <2>2. Top.rid \in Active(S) /\ Q[Top.rid] = P[Top.rid]
    BY <1>9, <1>10, <2>1
  <2> QED BY <1>9, <1>10, <1>11, <2>2 DEF Kids
<1>16. \A q \in K : Borne(recs, Top.files, q) /\ q # leaf => Borne(S, Top.files, q)
  BY <1>9, <1>11, <1>13 DEF Borne
<1>17. \A q \in K : Doomed(P, pc, act, q) => q = r
  <2>1. \A q \in Active(recs) : P[q] = P[r] => q = r
    BY <1>4, <1>13 DEF Forest, Placed
  <2> QED BY <1>4, <1>13, <2>1 DEF Doomed
<1>18. Top.stage = "REMOVE" => Top.prog \in K /\ Top.prog # 0 /\ Top.prog # r
  <2> SUFFICES ASSUME Top.stage = "REMOVE" PROVE Top.prog \in K /\ Top.prog # 0 /\ Top.prog # r
    OBVIOUS
  <2>1. Top.prog \in K /\ Top.prog # 0 /\ recs[r].name < recs[Top.prog].name
    BY <1>4 DEF TopIs
  <2>2. recs[r].name \in Nat
    BY <1>4, <1>13
  <2> QED BY <2>1, <2>2
<1> HIDE DEF K
<1> DEFINE known == /\ \A k, l \in DOMAIN Top.files : Top.files[k].name = Top.files[l].name => k = l
                    /\ DOMAIN Top.files # {} => Len(Q[Top.rid]) < Depth
<1>19. known
  BY <1>4, <1>15 DEF TopIs
<1>20. /\ Top.stage = "REMOVE" => \A q \in K :
            recs[q].name < recs[Top.prog].name => Borne(recs, Top.files, q) \/ q = r
       /\ Top.stage = "NEW" => \A q \in K : Borne(recs, Top.files, q) \/ q = r
  BY <1>4, <1>17, <1>18 DEF TopIs, K
<1>21. CASE P[leaf] = act.path
  <2>1. leaf = r
    BY <1>4, <1>5, <1>13, <1>21 DEF Forest, Placed
  <2>2. TopIs(S, Q, Top, "step", act)
    <3>1. Top.stage = "REMOVE" =>
            /\ Top.prog \in Kids(S, Q, Top.rid) \cup {0}
            /\ \A q \in Kids(S, Q, Top.rid) : S[q].name < S[Top.prog].name => Borne(S, Top.files, q)
      <4> SUFFICES ASSUME Top.stage = "REMOVE"
                   PROVE  /\ Top.prog \in Kids(S, Q, Top.rid)
                          /\ \A q \in Kids(S, Q, Top.rid) :
                               S[q].name < S[Top.prog].name => Borne(S, Top.files, q)
        OBVIOUS
      <4>1. Top.prog \in K /\ Top.prog # leaf
        BY <1>18, <2>1
      <4>2. S[Top.prog].name = recs[Top.prog].name
        BY <1>9, <1>11, <1>13, <4>1
      <4>3. \A q \in Kids(S, Q, Top.rid) : q \in K /\ q # leaf /\ S[q].name = recs[q].name
        BY <1>9, <1>11, <1>13, <1>15
      <4> QED BY <1>15, <1>16, <1>20, <2>1, <4>1, <4>2, <4>3
    <3>2. Top.stage = "NEW" => \A q \in Kids(S, Q, Top.rid) : Borne(S, Top.files, q)
      BY <1>15, <1>16, <1>20, <2>1
    <3> QED BY <1>4, <1>19, <3>1, <3>2 DEF TopIs
  <2>3. TopIs(S, Q, restate[Len(restate)], "step", act)
    BY <2>2 DEF Top
  <2>4. Shaped(S, nrec, Q, restate, "step", act)
    BY <1>9, <1>14, <2>3 DEF Shaped, Going, Busy
  <2>5. Shaped(recs', nrec', Q, restate', pc', act')
    BY <1>1, <1>6, <1>8, <1>21, <2>4
  <2>6. \E Z : Shaped(recs', nrec', Z, restate', pc', act')
    BY <2>5
  <2> QED BY <2>6 DEF Now
<1>22. CASE P[leaf] # act.path
  <2>1. leaf \notin K /\ leaf # r
    <3> SUFFICES ASSUME leaf \in K PROVE FALSE
      BY <1>4 DEF K
    <3>1. P[leaf] \in Seq(Names) /\ Len(P[leaf]) = Len(act.path)
      BY <1>4, <1>5, <1>13, ParentOf
    <3>2. SubSeq(P[leaf], 1, Len(P[leaf])) = P[leaf]
      <4>1. /\ Len(P[leaf]) \in 0 .. Len(P[leaf]) /\ Len(P[leaf]) \in Nat
        BY <3>1
      <4>2. /\ SubSeq(P[leaf], 1, Len(P[leaf])) \in Seq(Names)
            /\ Len(SubSeq(P[leaf], 1, Len(P[leaf]))) = Len(P[leaf])
            /\ \A j \in 1 .. Len(P[leaf]) : SubSeq(P[leaf], 1, Len(P[leaf]))[j] = P[leaf][j]
        BY <3>1, <4>1, PrefixFacts
      <4> QED BY <3>1, <4>2, SeqEqual
    <3> QED BY <1>5, <1>22, <3>1, <3>2
  <2>2. Kids(S, Q, Top.rid) = K
    BY <1>15, <2>1
  <2>3. \A q \in K : q \in Active(S) /\ S[q].name = recs[q].name /\ S[q].isdir = recs[q].isdir /\ Q[q] = P[q]
    BY <1>9, <1>10, <1>11, <1>13, <2>1
  <2>4. r \in K /\ Doomed(Q, "unlink", act, r) /\ Q[r] = act.path
    <3>1. r \in K /\ Q[r] = act.path
      BY <1>4, <2>3 DEF K
    <3> QED BY <1>2, <3>1 DEF Doomed, Deleting, DelTypes
  <2>5. \A q \in K : Borne(recs, Top.files, q) => Borne(S, Top.files, q)
    BY <1>16, <2>1
  <2>6. TopIs(S, Q, Top, "unlink", act)
    <3>1. Top.stage = "REMOVE" =>
            /\ Top.prog \in Kids(S, Q, Top.rid) \cup {0}
            /\ \A q \in Kids(S, Q, Top.rid) :
                 S[q].name < S[Top.prog].name => Borne(S, Top.files, q) \/ Doomed(Q, "unlink", act, q)
      BY <1>18, <1>20, <2>2, <2>3, <2>4, <2>5
    <3>2. Top.stage = "NEW" =>
            \A q \in Kids(S, Q, Top.rid) : Borne(S, Top.files, q) \/ Doomed(Q, "unlink", act, q)
      BY <1>20, <2>2, <2>4, <2>5
    <3> QED BY <1>4, <1>19, <3>1, <3>2 DEF TopIs
  <2>7. ActIs(S, Q, Top, "unlink", act)
    <3>1. S[r].isdir = (act.type = "DELDIR")
      BY <1>4, <2>3, <2>4
    <3>2. Top.stage = "REMOVE" => Top.prog # 0 /\ S[r].name < S[Top.prog].name
      BY <1>4, <1>18, <2>3, <2>4
    <3>3. DelIs(S, Q, Top, act)
      BY <2>2, <2>4, <3>1, <3>2 DEF DelIs
    <3> QED BY <1>2, <1>4, <3>3 DEF ActIs, Deleting, DelTypes
  <2>8. TopIs(S, Q, restate[Len(restate)], "unlink", act) /\ ActIs(S, Q, restate[Len(restate)], "unlink", act)
    BY <2>6, <2>7 DEF Top
  <2>9. Shaped(S, nrec, Q, restate, "unlink", act)
    BY <1>9, <1>14, <2>8 DEF Shaped, Going
  <2>10. Shaped(recs', nrec', Q, restate', pc', act')
    BY <1>1, <1>6, <1>8, <1>22, <2>9
  <2>11. \E Z : Shaped(recs', nrec', Z, restate', pc', act')
    BY <2>10
  <2> QED BY <2>11 DEF Now
<1> QED BY <1>21, <1>22

-----------------------------------------------------------------------------
(***************************************************************************)
(* The types of the user's files and of the remote.                          *)
(***************************************************************************)
Trees == [Paths -> Nodes]

LEMMA TreeTypes ==
  ASSUME NEW tree \in Trees, NEW p
  PROVE  /\ Drop(tree, p) \in Trees
         /\ \A dirs : MakeDirs(tree, dirs) \in Trees
         /\ [tree EXCEPT ![p] = None] \in Trees
         /\ \A v \in Versions : [tree EXCEPT ![p] = v] \in Trees
         /\ AddDirTo(tree, p) \in Trees
         /\ \A v \in Versions : AddFileTo(tree, p, v) \in Trees
         /\ DelDirFrom(tree, p) \in Trees /\ DelFileFrom(tree, p) \in Trees
         /\ p \in Paths => FilesAt(tree, p) \subseteq [path : Paths, version : Versions]
<1>1. DOMAIN tree = Paths /\ \A q \in Paths : tree[q] \in Nodes
  BY DEF Trees
<1>2. None \in Nodes /\ Dir \in Nodes /\ Versions \subseteq Nodes
  BY DEF Nodes
<1>3. Drop(tree, p) \in Trees
  BY <1>1, <1>2 DEF Drop, Trees
<1>4. \A t \in Trees : \A dirs : MakeDirs(t, dirs) \in Trees
  BY <1>2 DEF MakeDirs, Trees
<1>5. \A t \in Trees : \A v \in Nodes : [t EXCEPT ![p] = v] \in Trees
  BY DEF Trees
<1>6. AddDirTo(tree, p) \in Trees /\ \A v \in Versions : AddFileTo(tree, p, v) \in Trees
  BY <1>2, <1>4, <1>5 DEF AddDirTo, AddFileTo
<1>7. DelDirFrom(tree, p) \in Trees /\ DelFileFrom(tree, p) \in Trees
  BY <1>2, <1>5 DEF DelDirFrom, DelFileFrom
<1>8. ASSUME p \in Paths
      PROVE  FilesAt(tree, p) \subseteq [path : Paths, version : Versions]
  <2>1. \A q \in {p} \cup Below(tree, p) : q \in Paths
    BY <1>1, <1>8 DEF Below
  <2>2. \A q \in Paths : tree[q] \notin {None, Dir} => tree[q] \in Versions
    BY <1>1 DEF Nodes
  <2> QED BY <2>1, <2>2 DEF FilesAt
<1> QED BY <1>2, <1>3, <1>4, <1>5, <1>6, <1>7, <1>8

LEMMA StopTypes ==
  ASSUME NEW tree \in Trees, NEW p
  PROVE  /\ AddDirStops(tree, p) \subseteq Trees
         /\ \A v \in Versions : AddFileStops(tree, p, v) \subseteq Trees
         /\ DelDirStops(tree, p) \subseteq Trees /\ DelFileStops(tree, p) \subseteq Trees
         /\ PutHistStops(tree, p) \subseteq Trees
<1>1. \A t \in Trees : \A q : AddDirStops(t, q) \subseteq Trees
  <2> TAKE t \in Trees
  <2> TAKE q
  <2>1. \A dirs : MakeDirs(t, dirs) \in Trees
    BY TreeTypes
  <2>2. \A s \in Trees : \A k : [s EXCEPT ![k] = None] \in Trees
    BY TreeTypes
  <2> QED BY <2>1, <2>2, ZenonT(60) DEF AddDirStops
<1>2. \A v \in Versions : AddFileStops(tree, p, v) \subseteq Trees
  <2> TAKE v \in Versions
  <2>1. [tree EXCEPT ![p] = None] \in Trees /\ AddFileTo(tree, p, v) \in Trees
    BY TreeTypes
  <2> QED BY <1>1, <2>1 DEF AddFileStops
<1>3. DelDirStops(tree, p) \subseteq Trees /\ DelFileStops(tree, p) \subseteq Trees
  BY TreeTypes DEF DelDirStops, DelFileStops
<1>4. PutHistStops(tree, p) \subseteq Trees
  BY TreeTypes DEF PutHistStops
<1> QED BY <1>1, <1>2, <1>3, <1>4

(* The remote changes in no other step.                                       *)
LEMMA RemoteChanges ==
  ASSUME Next
  PROVE  \/ UNCHANGED remote \/ PutHist \/ PutHistFails \/ Upload \/ UploadFails
         \/ MkDir \/ MkDirFails \/ DeleteRemote \/ DeleteFails
<1>1. User => UNCHANGED remote
  BY DEF User, SaveFile, MakeDir, Delete, ToggleIgnore, Edit
<1>2. Start => UNCHANGED remote
  BY DEF Start
<1>3. RefreshStep => UNCHANGED remote
  BY Zenon DEF RefreshStep, Fallback, CheckStack, InitList, InitGone, ProposeDel, RemoveDone, ProposeAdd,
         ProposeMod, Propose, NewDone, Recur, RedoUpper, Return, Finish, StackOnly
<1>4. ReadAttr \/ UploadGone \/ Record \/ SkipRemote \/ DeleteRefused \/ Forget => UNCHANGED remote
  BY DEF ReadAttr, UploadGone, Record, SkipRemote, DeleteRefused, Forget
<1>5. UploadLocked \/ DelDirMissed \/ Crash => UNCHANGED remote
  BY DEF UploadLocked, DelDirMissed, Crash
<1> QED BY <1>1, <1>2, <1>3, <1>4, <1>5 DEF Next, Program, Perform, Fails

RemoteTypes == cur \in Trees /\ hist \subseteq [path : Paths, version : Versions]

LEMMA RemoteTyped ==
  ASSUME Types, NEW P, Now(P), Next
  PROVE  RemoteTypes'
<1> USE DEF RemoteTypes
<1>1. RemoteTypes
  BY DEF Types, Trees
<1>2. CASE UNCHANGED remote
  BY <1>1, <1>2 DEF remote
<1>3. pc \in Busy => act.path \in Paths
  BY Acting
<1>4. pc \in Busy /\ IsFile(local[act.path]) => local[act.path] \in Versions
  BY <1>3 DEF Types, IsFile, Nodes
<1>5. CASE PutHist
  <2>1. act.path \in Paths
    BY <1>3, <1>5 DEF PutHist, Busy
  <2> QED BY <1>1, <1>5, <2>1, TreeTypes DEF PutHist
<1>6. CASE PutHistFails
  <2>1. act.path \in Paths
    BY <1>3, <1>6 DEF PutHistFails, Busy
  <2> QED BY <1>1, <1>6, <2>1, TreeTypes, StopTypes DEF PutHistFails
<1>7. CASE Upload
  <2>1. local[act.path] \in Versions /\ hist' = hist
    BY <1>4, <1>7 DEF Upload, Busy
  <2>2. cur' = cur \/ cur' = AddFileTo(cur, act.path, local[act.path])
    BY <1>7 DEF Upload
  <2> QED BY <1>1, <2>1, <2>2, TreeTypes
<1>8. CASE UploadFails
  <2>1. \/ cur' = cur
        \/ IsFile(local[act.path]) /\ cur' \in AddFileStops(cur, act.path, local[act.path])
    <3>1. cur' \in IF IsFile(local[act.path]) /\ CanReplace(cur, act.path)
                   THEN AddFileStops(cur, act.path, local[act.path]) ELSE {cur}
      BY <1>8 DEF UploadFails
    <3>2. CASE IsFile(local[act.path]) /\ CanReplace(cur, act.path)
      BY <3>1, <3>2
    <3>3. CASE ~(IsFile(local[act.path]) /\ CanReplace(cur, act.path))
      BY <3>1, <3>3
    <3> QED BY <3>2, <3>3
  <2>2. IsFile(local[act.path]) => local[act.path] \in Versions
    BY <1>4, <1>8 DEF UploadFails, Busy
  <2>3. hist' = hist
    BY <1>8 DEF UploadFails
  <2> QED BY <1>1, <2>1, <2>2, <2>3, StopTypes
<1>9. CASE MkDir
  BY <1>1, <1>9, TreeTypes DEF MkDir
<1>10. CASE MkDirFails
  BY <1>1, <1>10, StopTypes DEF MkDirFails
<1>11. CASE DeleteRemote
  <2>1. PICK leaf \in {Leaf} : cur' = IF recs[leaf.id].isdir THEN DelDirFrom(cur, leaf.path)
                                      ELSE DelFileFrom(cur, leaf.path)
    BY <1>11 DEF DeleteRemote
  <2>2. hist' = hist
    BY <1>11 DEF DeleteRemote
  <2> QED BY <1>1, <2>1, <2>2, TreeTypes
<1>12. CASE DeleteFails
  <2>1. PICK leaf \in {Leaf} :
          cur' \in IF ~CanDelete(leaf) THEN {cur}
                   ELSE IF recs[leaf.id].isdir THEN DelDirStops(cur, leaf.path)
                   ELSE DelFileStops(cur, leaf.path)
    BY <1>12 DEF DeleteFails
  <2>2. hist' = hist
    BY <1>12 DEF DeleteFails
  <2> QED BY <1>1, <2>1, <2>2, StopTypes
<1> QED BY <1>2, <1>5, <1>6, <1>7, <1>8, <1>9, <1>10, <1>11, <1>12, RemoteChanges

UserTypes ==
  /\ setup \in Setups /\ local \in Trees /\ IsFiniteSet(Present)
  /\ ignored \subseteq Ignorable /\ edits \in 0 .. MaxEdits

(* The user adds at most one entry at a time.                                  *)
LEMMA UserTyped ==
  ASSUME Types, Next
  PROVE  UserTypes'
<1>1. UserTypes
  BY DEF Types, UserTypes, Trees
<1>2. UNCHANGED setup
  BY DEF Next, Program
<1>3. UNCHANGED user => UserTypes'
  BY <1>1, <1>2 DEF user, UserTypes, Present, Ignorable
<1>4. MaxEdits \in Nat
  BY BoundsAssumption
<1>5. ASSUME NEW S, S \subseteq Present, NEW p, Present' \subseteq S \cup {p}
      PROVE  IsFiniteSet(Present')
  <2>1. IsFiniteSet(S \cup {p})
    <3>1. IsFiniteSet(S)
      BY <1>1, <1>5, FS_Subset DEF UserTypes
    <3> QED BY <3>1, FS_AddElement
  <2> QED BY <1>5, <2>1, FS_Subset
<1>6. ASSUME NEW p \in Paths, NEW v \in Nodes, local' = [local EXCEPT ![p] = v]
      PROVE  local' \in Trees /\ IsFiniteSet(Present')
  <2>1. local' \in Trees
    BY <1>1, <1>6 DEF UserTypes, Trees
  <2>2. Present' \subseteq Present \cup {p}
    BY <1>1, <1>6 DEF UserTypes, Trees, Present
  <2>3. IsFiniteSet(Present')
    BY <1>5, <2>2
  <2> QED BY <2>1, <2>3
<1>7. Edit => edits' \in 0 .. MaxEdits /\ (\A v \in {edits + 1} \cup 1 .. edits : v \in Versions)
  BY <1>1, <1>4 DEF Edit, UserTypes, Versions
<1>8. ASSUME NEW p \in Paths, SaveFile(p)
      PROVE  UserTypes'
  <2>1. PICK v \in {edits + 1} \cup (IF Restores THEN 1 .. edits ELSE {}) : local' = [local EXCEPT ![p] = v]
    BY <1>8 DEF SaveFile
  <2>2. v \in {edits + 1} \cup 1 .. edits
    OBVIOUS
  <2>3. v \in Nodes /\ edits' \in 0 .. MaxEdits /\ ignored' = ignored
    BY <1>7, <1>8, <2>2 DEF SaveFile, Nodes
  <2>4. local' \in Trees /\ IsFiniteSet(Present')
    BY <1>6, <2>1, <2>3
  <2> QED BY <1>1, <1>2, <2>3, <2>4 DEF UserTypes, Ignorable
<1>9. ASSUME NEW p \in Paths, MakeDir(p)
      PROVE  UserTypes'
  <2>1. local' = [local EXCEPT ![p] = Dir] /\ Dir \in Nodes /\ edits' \in 0 .. MaxEdits /\ ignored' = ignored
    BY <1>7, <1>9 DEF MakeDir, Nodes
  <2>2. local' \in Trees /\ IsFiniteSet(Present')
    BY <1>6, <2>1
  <2> QED BY <1>1, <1>2, <2>1, <2>2 DEF UserTypes, Ignorable
<1>10. ASSUME NEW p \in Paths, Delete(p)
       PROVE  UserTypes'
  <2>1. local' = Drop(local, p) /\ edits' \in 0 .. MaxEdits /\ ignored' = ignored
    BY <1>7, <1>10 DEF Delete
  <2>2. local' \in Trees
    BY <1>1, <2>1, TreeTypes DEF UserTypes
  <2>3. Present' \subseteq Present \cup {p}
    BY <1>1, <2>1 DEF UserTypes, Trees, Present, Drop
  <2>4. IsFiniteSet(Present')
    BY <1>5, <2>3
  <2> QED BY <1>1, <1>2, <2>1, <2>2, <2>4 DEF UserTypes, Ignorable
<1>11. ASSUME NEW p \in Ignorable, ToggleIgnore(p)
       PROVE  UserTypes'
  <2>1. local' = local /\ ignored' \subseteq ignored \cup {p} /\ edits' \in 0 .. MaxEdits
    BY <1>7, <1>11 DEF ToggleIgnore
  <2> QED BY <1>1, <1>2, <2>1 DEF UserTypes, Ignorable, Present
<1>12. User => UserTypes'
  BY <1>8, <1>9, <1>10, <1>11 DEF User
<1>13. User \/ UNCHANGED user
  <2>1. Start \/ RefreshStep => UNCHANGED user
    BY Zenon DEF Start, RefreshStep, Fallback, CheckStack, InitList, InitGone, ProposeDel, RemoveDone, ProposeAdd,
           ProposeMod, Propose, NewDone, Recur, RedoUpper, Return, Finish, StackOnly, Working
  <2>2. Perform => UNCHANGED user
    BY DEF Perform, ReadAttr, PutHist, Upload, UploadGone, MkDir, Record, SkipRemote, DeleteRemote,
           DeleteRefused, Forget, Goto, Working
  <2>3. Fails => UNCHANGED user
    BY DEF Fails, PutHistFails, UploadLocked, UploadFails, MkDirFails, DeleteFails, DelDirMissed, Crash, Fault
  <2> QED BY <2>1, <2>2, <2>3 DEF Next, Program
<1> QED BY <1>3, <1>12, <1>13

CountTypes == faults \in 0 .. MaxFaults /\ overlooked \in BOOLEAN /\ quiet \in BOOLEAN /\ done \in BOOLEAN

LEMMA MissedStays ==
  ASSUME [Next]_vars
  PROVE  overlooked' = overlooked \/ overlooked' = TRUE
BY DEF Next, Program, Fails, DelDirMissed, vars

LEMMA CountTyped ==
  ASSUME Types, Next
  PROVE  CountTypes'
<1>1. CountTypes
  BY DEF Types, CountTypes
<1>2. UNCHANGED setup
  BY DEF Next, Program
<1>3. MaxFaults \in Nat /\ MaxFaults' = MaxFaults
  BY <1>2, SetupsAssumption DEF Types, MaxFaults
<1>0. overlooked' \in BOOLEAN
  BY <1>1, MissedStays DEF CountTypes
<1>4. CASE faults' = faults /\ quiet' \in {quiet, TRUE, FALSE} /\ done' \in {done, TRUE, FALSE}
  BY <1>1, <1>3, <1>4, <1>0 DEF CountTypes
<1>5. CASE Fault
  <2>1. faults \in 0 .. MaxFaults /\ faults < MaxFaults /\ faults' = faults + 1
    BY <1>1, <1>5 DEF CountTypes, Fault
  <2>2. faults' \in 0 .. MaxFaults'
    BY <1>3, <2>1
  <2>3. quiet' \in BOOLEAN /\ done' \in BOOLEAN
    BY <1>1, <1>5 DEF CountTypes, Fault
  <2> QED BY <1>0, <2>2, <2>3 DEF CountTypes
<1>6. \/ faults' = faults /\ quiet' \in {quiet, TRUE, FALSE} /\ done' \in {done, TRUE, FALSE}
      \/ Fault
  <2>1. User => faults' = faults /\ quiet' = FALSE /\ done' = done
    BY DEF User, SaveFile, MakeDir, Delete, ToggleIgnore, Edit
  <2>2. Start \/ RefreshStep => faults' = faults /\ quiet' \in {quiet, TRUE} /\ done' \in {done, TRUE, FALSE}
    BY Zenon DEF Start, RefreshStep, Fallback, CheckStack, InitList, InitGone, ProposeDel, RemoveDone, ProposeAdd,
           ProposeMod, Propose, NewDone, Recur, RedoUpper, Return, Finish, StackOnly, Working
  <2>3. Perform => faults' = faults /\ quiet' = quiet /\ done' = done
    BY DEF Perform, ReadAttr, PutHist, Upload, UploadGone, MkDir, Record, SkipRemote, DeleteRemote,
           DeleteRefused, Forget, Goto, Working
  <2>4. Fails => Fault
    BY DEF Fails, PutHistFails, UploadLocked, UploadFails, MkDirFails, DeleteFails, DelDirMissed, Crash
  <2> QED BY <2>1, <2>2, <2>3, <2>4 DEF Next, Program
<1> QED BY <1>4, <1>5, <1>6

-----------------------------------------------------------------------------
(***************************************************************************)
(* The types of what the process keeps in memory.                            *)
(***************************************************************************)
FailsOk ==
  /\ fails \in [{"file", "dir"} \X Paths -> 0 .. FailLimit + 1]
  /\ pc # "TooManyFails" => \A key \in {"file", "dir"} \X Paths : fails[key] <= FailLimit

ControlTypes ==
  /\ pc \in Ended \cup {"step", "stage"} \cup Busy
  /\ restate \in Seq(RefreshIter) /\ act \in Action /\ FailsOk

LEMMA NoActionIs == NoAction \in Action
<1>1. <<>> \in AnyPath /\ [time |-> 0, size |-> 0] \in Attr
  BY DEF AnyPath, Attr
<1> QED BY <1>1 DEF NoAction, Action

LEMMA ShapedStack ==
  ASSUME Shape', pc' \notin Ended
  PROVE  restate' \in Seq(RefreshIter)
<1>1. PICK P : Shaped(recs', nrec', P, restate', pc', act')
  BY DEF Shape, Now
<1> QED BY <1>1 DEF Shaped, Going, Stack

LEMMA ControlGoesOn ==
  ASSUME Types, Shape', pc # "TooManyFails", pc' \in {"step", "stage"} \cup Busy, fails' = fails, act' \in Action
  PROVE  ControlTypes'
<1>1. restate' \in Seq(RefreshIter)
  BY ShapedStack DEF Ended, Busy
<1>2. FailsOk'
  BY DEF Types, FailsOk
<1> QED BY <1>1, <1>2 DEF ControlTypes

LEMMA ControlFails ==
  ASSUME Types, Shape', pc # "TooManyFails", NEW kind, NEW path, NEW after, NEW goto \in {"step", "stage"},
         RecordFail(kind, path, after, goto), act' = act
  PROVE  ControlTypes'
<1> DEFINE key == <<kind, path>>
           Keys == {"file", "dir"} \X Paths
<1>1. /\ fails' = [fails EXCEPT ![key] = @ + 1]
      /\ IF fails[key] >= FailLimit
         THEN pc' = "TooManyFails" /\ restate' = restate
         ELSE pc' = goto /\ restate' = after
  BY DEF RecordFail
<1>2. fails \in [Keys -> 0 .. FailLimit + 1] /\ (\A k \in Keys : fails[k] <= FailLimit) /\ FailLimit \in Nat
  BY BoundsAssumption DEF Types
<1>3. pc' \in {"TooManyFails", "step", "stage"} /\ (pc' = "TooManyFails" => restate' = restate)
  BY <1>1
<1> HIDE DEF key, Keys
<1>4. \A k \in Keys : fails[k] \in Nat /\ fails[k] + 1 \in 0 .. FailLimit + 1
  BY <1>2
<1>5. \A k \in Keys : fails'[k] = (IF k = key THEN fails[k] + 1 ELSE fails[k])
  BY <1>1, <1>2
<1>6. fails' \in [Keys -> 0 .. FailLimit + 1]
  <2>1. DOMAIN fails' = Keys
    BY <1>1, <1>2
  <2> QED BY <1>1, <1>2, <1>4, <1>5, <2>1
<1>7. pc' # "TooManyFails" => \A k \in Keys : fails'[k] <= FailLimit
  <2> SUFFICES ASSUME pc' # "TooManyFails", NEW k \in Keys PROVE fails'[k] <= FailLimit
    OBVIOUS
  <2>1. ~(fails[key] >= FailLimit)
    BY <1>1
  <2>2. CASE k = key
    BY <1>2, <1>4, <1>5, <2>1, <2>2
  <2>3. CASE k # key
    BY <1>2, <1>5, <2>3
  <2> QED BY <2>2, <2>3
<1>8. restate' \in Seq(RefreshIter)
  <2>1. CASE pc' = "TooManyFails"
    BY <1>3, <2>1 DEF Types
  <2>2. CASE pc' # "TooManyFails"
    BY <1>3, <2>2, ShapedStack DEF Ended
  <2> QED BY <2>1, <2>2
<1>9. FailsOk'
  BY <1>6, <1>7 DEF FailsOk, Keys
<1> QED BY <1>3, <1>8, <1>9 DEF ControlTypes, Types, Ended

LEMMA ControlEnds ==
  ASSUME pc' \in {"idle", "step"}, restate' \in Seq(RefreshIter), fails' = NoFails, act' \in Action
  PROVE  ControlTypes'
<1>1. NoFails \in [{"file", "dir"} \X Paths -> 0 .. FailLimit + 1]
      /\ \A key \in {"file", "dir"} \X Paths : NoFails[key] <= FailLimit
  BY BoundsAssumption DEF NoFails
<1>2. FailsOk'
  BY <1>1 DEF FailsOk
<1> QED BY <1>2 DEF ControlTypes, Ended

LEMMA EndRunTyped ==
  ASSUME EndRun
  PROVE  ControlTypes'
<1>1. <<>> \in Seq(RefreshIter)
  BY EmptySeq
<1> QED BY <1>1, NoActionIs, ControlEnds DEF EndRun

(* The action that a step of refreshStep returns.                             *)
LEMMA ProposedTypes ==
  ASSUME Types, NEW P, Now(P), Shape', ProposeDel \/ ProposeAdd \/ ProposeMod
  PROVE  act' \in Action /\ pc' \in Busy /\ fails' = fails /\ pc = "stage"
<1>1. pc' \in Busy /\ fails' = fails /\ pc = "stage"
  BY Zenon DEF ProposeDel, ProposeAdd, ProposeMod, Propose, InStage, Busy
<1>2. act'.path \in AnyPath
  <2>1. PICK Q : Shaped(recs', nrec', Q, restate', pc', act')
    BY DEF Shape, Now
  <2> QED BY <1>1, <2>1 DEF Shaped, Going, ActIs, Busy, Ended, AnyPath
<1>3. KeepHist \in BOOLEAN
  BY SetupsAssumption DEF Types, KeepHist
<1>4. Top \in RefreshIter
  BY <1>1, AtStage
<1>5. [time |-> 0, size |-> 0] \in Attr
  BY DEF Attr
<1>7. CASE ProposeDel
  <2>1. PICK r : LET isignore == Reclassified(r) /\ ~recs[r].isignore IN
          act' = [NoAction EXCEPT
                   !.type = IF recs[r].isdir THEN "DELDIR" ELSE "DELFILE",
                   !.path = Append(TopPath, NameOf(r)),
                   !.isignore = isignore,
                   !.keephist = KeepHist /\ ~isignore /\ ~recs[r].isignore]
    BY <1>7 DEF ProposeDel
  <2> DEFINE t == IF recs[r].isdir THEN "DELDIR" ELSE "DELFILE"
             p == Append(TopPath, NameOf(r))
             i == Reclassified(r) /\ ~recs[r].isignore
             k == KeepHist /\ ~i /\ ~recs[r].isignore
  <2>2. t \in {"ADDDIR", "ADDFILE", "DELDIR", "DELFILE"}
    OBVIOUS
  <2>3. i \in BOOLEAN /\ k \in BOOLEAN
    OBVIOUS
  <2>4. act' = [NoAction EXCEPT !.type = t, !.path = p, !.isignore = i, !.keephist = k]
    BY <2>1
  <2> HIDE DEF t, p, i, k
  <2>5. act'.path = p
    BY <2>4 DEF NoAction
  <2>6. act' \in Action
    BY <1>2, <1>5, <2>2, <2>3, <2>4, <2>5 DEF NoAction, Action, DelTypes
  <2> QED BY <1>1, <2>6
<1>8. CASE ProposeAdd
  <2>1. PICK j \in NextNew : act' = [NoAction EXCEPT
           !.type = IF Top.files[j].isdir THEN "ADDDIR" ELSE "ADDFILE",
           !.path = Append(TopPath, Top.files[j].name), !.isignore = Top.files[j].isignore]
    BY <1>8 DEF ProposeAdd, Propose
  <2>2. Top.files[j].isignore \in BOOLEAN
    <3>1. Top.files \in Seq(Item) /\ j \in DOMAIN Top.files
      BY <1>4 DEF RefreshIter, NextNew, NewItems
    <3>2. Top.files[j] \in Item
      BY <3>1, LenProperties, ElementOfSeq
    <3> QED BY <3>2 DEF Item
  <2> DEFINE t == IF Top.files[j].isdir THEN "ADDDIR" ELSE "ADDFILE"
             p == Append(TopPath, Top.files[j].name)
             i == Top.files[j].isignore
  <2>3. t \in {"ADDDIR", "ADDFILE", "DELDIR", "DELFILE"}
    OBVIOUS
  <2>4. act' = [NoAction EXCEPT !.type = t, !.path = p, !.isignore = i]
    BY <2>1
  <2> HIDE DEF t, p, i
  <2>5. act'.path = p
    BY <2>4 DEF NoAction
  <2>6. act' \in Action
    BY <1>2, <1>5, <2>2, <2>3, <2>4, <2>5 DEF NoAction, Action, DelTypes, i
  <2> QED BY <1>1, <2>6
<1>9. CASE ProposeMod
  <2>1. PICK j \in NextNew :
          act' = [NoAction EXCEPT !.type = "MODFILE", !.path = Append(TopPath, Top.files[j].name),
                                  !.keephist = KeepHist]
    BY <1>9 DEF ProposeMod, Propose, Modification
  <2> DEFINE p == Append(TopPath, Top.files[j].name)
  <2>2. act' = [NoAction EXCEPT !.type = "MODFILE", !.path = p, !.keephist = KeepHist]
    BY <2>1
  <2> HIDE DEF p
  <2>3. act'.path = p
    BY <2>2 DEF NoAction
  <2>4. act' \in Action
    BY <1>2, <1>3, <1>5, <2>2, <2>3 DEF NoAction, Action, DelTypes
  <2> QED BY <1>1, <2>4
<1> QED BY <1>1, <1>7, <1>8, <1>9

LEMMA ControlOfRefresh ==
  ASSUME Types, NEW P, Now(P), Shape', Start \/ RefreshStep
  PROVE  ControlTypes'
<1>0. act \in Action
  BY DEF Types
<1>1. CASE Start
  <2>1. pc' = "step" /\ fails' = NoFails /\ act' = NoAction
    BY <1>1 DEF Start
  <2>2. restate' \in Seq(RefreshIter)
    BY <2>1, ShapedStack DEF Ended
  <2> QED BY <2>1, <2>2, NoActionIs, ControlEnds
<1>2. CASE Fallback
  <2>1. pc = "missing" /\ act' = act
    BY <1>2 DEF Fallback
  <2>2. CASE Len(restate) >= 2
    <3>1. RecordFail("file", act.path, PoppedToInit, "step")
      BY <1>2, <2>2 DEF Fallback
    <3> QED BY <2>1, <3>1, ControlFails
  <2>3. CASE ~(Len(restate) >= 2)
    <3>1. pc' = "RootFallback" /\ restate' = restate /\ fails' = fails
      BY <1>2, <2>3 DEF Fallback, walk
    <3>2. FailsOk'
      BY <2>1, <3>1 DEF Types, FailsOk
    <3> QED BY <1>0, <2>1, <3>1, <3>2 DEF ControlTypes, Types, Ended
  <2> QED BY <2>2, <2>3
<1>3. CASE CheckStack
  <2>1. pc' = "stage" /\ UNCHANGED walk
    BY <1>3, CheckStackShaped
  <2>2. fails' = fails /\ act' = NoAction /\ pc = "step"
    BY <1>3, <2>1 DEF CheckStack, walk
  <2> QED BY <2>1, <2>2, NoActionIs, ControlGoesOn
<1>4. CASE InitGone
  <2>1. pc = "stage" /\ act' = act
    BY <1>4 DEF InitGone, InStage, StackOnly
  <2>2. \E after : RecordFail("dir", InitPath, after, "stage")
    BY <1>4 DEF InitGone
  <2> QED BY <2>1, <2>2, ControlFails
<1>5. CASE InitList \/ RemoveDone \/ NewDone \/ Recur \/ RedoUpper \/ Return
  <2>1. pc = "stage" /\ pc' = pc /\ act' = act /\ fails' = fails
    BY <1>5 DEF InitList, RemoveDone, NewDone, Recur, RedoUpper, Return, InStage, StackOnly
  <2> QED BY <1>0, <2>1, ControlGoesOn
<1>6. CASE ProposeDel \/ ProposeAdd \/ ProposeMod
  <2>1. act' \in Action /\ pc' \in Busy /\ fails' = fails /\ pc = "stage"
    BY <1>6, ProposedTypes
  <2> QED BY <2>1, ControlGoesOn
<1>7. CASE Finish
  <2>1. pc' = "idle" /\ restate' = <<>> /\ fails' = NoFails /\ act' = act
    BY <1>7 DEF Finish
  <2>2. restate' \in Seq(RefreshIter)
    BY <2>1, EmptySeq
  <2> QED BY <1>0, <2>1, <2>2, ControlEnds
<1> QED BY <1>1, <1>2, <1>3, <1>4, <1>5, <1>6, <1>7 DEF RefreshStep

LEMMA ControlOfPerform ==
  ASSUME Types, NEW P, Now(P), Shape', Perform \/ Fails
  PROVE  ControlTypes'
<1>0. act \in Action /\ \A a : a \in Action => a.path = a.path
  BY DEF Types
<1>1. CASE ReadAttr
  <2>1. /\ pc = "attr" /\ fails' = fails /\ pc' \in {"missing", "step", "hist", "upload"}
    BY <1>1 DEF ReadAttr, Goto, walk
  <2>2. act' \in Action
    <3>1. act.path \in Paths
      BY <2>1, Acting DEF Busy
    <3>2. local[act.path] \in Nodes
      BY <3>1 DEF Types
    <3> DEFINE attr == IF IsFile(local[act.path]) THEN AttrOf[local[act.path]] ELSE [time |-> 0, size |-> 0]
    <3>3. attr \in Attr
      <4>1. IsFile(local[act.path]) => local[act.path] \in Versions
        BY <3>2 DEF IsFile, Nodes
      <4> QED BY <4>1, AttrAssumption DEF Attr
    <3>4. act' = act \/ act' = [act EXCEPT !.attr = attr]
      BY <1>1 DEF ReadAttr
    <3> HIDE DEF attr
    <3> QED BY <1>0, <3>3, <3>4 DEF Action
  <2> QED BY <2>1, <2>2, ControlGoesOn DEF Busy
<1>2. CASE PutHist \/ MkDir \/ Record \/ SkipRemote \/ DeleteRemote \/ Forget \/ DelDirMissed
  <2>1. /\ pc \in Busy /\ act' = act /\ fails' = fails /\ pc' \in {"step"} \cup Busy
    <3>1. CASE PutHist \/ MkDir \/ Record
      BY <3>1 DEF PutHist, MkDir, Record, Goto, walk, Busy
    <3>2. CASE SkipRemote \/ DeleteRemote \/ Forget
      BY <3>2 DEF SkipRemote, DeleteRemote, Forget, Goto, walk, Busy
    <3>3. CASE DelDirMissed
      BY <3>3 DEF DelDirMissed, walk, Busy
    <3> QED BY <1>2, <3>1, <3>2, <3>3
  <2> QED BY <1>0, <2>1, ControlGoesOn DEF Busy
<1>3. CASE UploadGone \/ UploadLocked
  <2>1. /\ pc = "upload" /\ act' = [act EXCEPT !.pending = TRUE] /\ fails' = fails /\ pc' = "record"
    BY <1>3 DEF UploadGone, UploadLocked, Goto, walk
  <2>2. act' \in Action
    BY <1>0, <2>1 DEF Action
  <2> QED BY <2>1, <2>2, ControlGoesOn DEF Busy
<1>4. CASE Upload
  <2>1. EndRun \/ (pc = "upload" /\ pc' = "record" /\ fails' = fails /\ act' = act)
    BY <1>4 DEF Upload, walk
  <2> QED BY <1>0, <2>1, EndRunTyped, ControlGoesOn DEF Busy
<1>5. CASE PutHistFails
  <2>1. EndRun \/ (pc = "hist" /\ pc' = "upload" /\ fails' = fails /\ act' = [act EXCEPT !.histfailed = TRUE])
    BY <1>5 DEF PutHistFails, walk
  <2>2. [act EXCEPT !.histfailed = TRUE] \in Action
    BY <1>0 DEF Action
  <2> QED BY <2>1, <2>2, EndRunTyped, ControlGoesOn DEF Busy
<1>6. CASE DeleteRefused \/ UploadFails \/ MkDirFails \/ DeleteFails \/ Crash
  <2>1. EndRun
    BY <1>6 DEF DeleteRefused, UploadFails, MkDirFails, DeleteFails, Crash
  <2> QED BY <2>1, EndRunTyped
<1> QED BY <1>1, <1>2, <1>3, <1>4, <1>5, <1>6 DEF Perform, Fails

LEMMA ControlTyped ==
  ASSUME Types, NEW P, Now(P), Shape', Next
  PROVE  ControlTypes'
<1>1. CASE User
  <2>1. pc' = pc /\ restate' = restate /\ act' = act /\ fails' = fails
    BY <1>1 DEF User, SaveFile, MakeDir, Delete, ToggleIgnore, Edit, walk
  <2> QED BY <2>1 DEF ControlTypes, FailsOk, Types
<1> QED BY <1>1, ControlOfRefresh, ControlOfPerform DEF Next, Program

-----------------------------------------------------------------------------
(***************************************************************************)
(* The invariant holds: at the beginning, and after every step.                *)
(***************************************************************************)
LEMMA ShapeSteps ==
  ASSUME Types, NEW P, Now(P), Next
  PROVE  Shape'
<1>1. Now(P)' => Shape'
  BY DEF Shape
<1>2. (\E Q : Now(Q)') => Shape'
  BY DEF Shape
<1>3. CASE User
  <2>1. UNCHANGED <<recs, nrec, restate, pc, act>>
    BY <1>3 DEF User, SaveFile, MakeDir, Delete, ToggleIgnore, Edit, walk, registry
  <2>2. Now(P)'
    BY <2>1 DEF Now
  <2> QED BY <1>1, <2>2
<1>4. CASE Start
  BY <1>1, <1>4, StartShaped
<1>5. CASE RefreshStep
  <2>1. CASE Fallback \/ CheckStack
    BY <1>1, <2>1, FallbackShaped, CheckStackShaped
  <2>2. CASE InitList \/ InitGone
    BY <1>1, <2>2, InitListShaped, InitGoneShaped
  <2>3. CASE ProposeDel \/ RemoveDone
    BY <1>1, <2>3, ProposeDelShaped, RemoveDoneShaped
  <2>4. CASE ProposeAdd \/ ProposeMod \/ NewDone
    BY <1>1, <2>4, ProposeAddShaped, ProposeModShaped, NewDoneShaped
  <2>5. CASE Recur \/ RedoUpper
    BY <1>1, <2>5, RecurShaped, RedoUpperShaped
  <2>6. CASE Return \/ Finish
    BY <1>1, <2>6, ReturnShaped, FinishShaped
  <2> QED BY <1>5, <2>1, <2>2, <2>3, <2>4, <2>5, <2>6 DEF RefreshStep
<1>6. CASE ReadAttr
  BY <1>1, <1>6, ReadAttrShaped
<1>7. CASE PutHist \/ PutHistFails
  BY <1>1, <1>7, PutHistShaped
<1>8. CASE Upload \/ UploadGone \/ UploadLocked \/ UploadFails
  BY <1>1, <1>8, UploadShaped
<1>9. CASE MkDir \/ MkDirFails
  BY <1>1, <1>9, MkDirShaped
<1>10. CASE SkipRemote \/ DeleteRemote \/ DeleteRefused \/ DeleteFails \/ DelDirMissed
  BY <1>1, <1>10, DeleteShaped
<1>11. CASE Record
  BY <1>2, <1>11, RecordShaped
<1>12. CASE Forget
  BY <1>2, <1>12, ForgetShaped
<1>13. CASE Crash
  BY <1>1, <1>13, CrashShaped
<1> QED BY <1>3, <1>4, <1>5, <1>6, <1>7, <1>8, <1>9, <1>10, <1>11, <1>12, <1>13
        DEF Next, Program, Perform, Fails

Inv == Types /\ Shape

LEMMA InvSteps ==
  ASSUME Inv, [Next]_vars
  PROVE  Inv'
<1>1. PICK P : Types /\ Now(P)
  BY DEF Inv, Shape
<1>2. CASE Next
  <2>1. Shape'
    BY <1>1, <1>2, ShapeSteps
  <2>2. UserTypes' /\ CountTypes' /\ RemoteTypes'
    BY <1>1, <1>2, UserTyped, CountTyped, RemoteTyped
  <2>3. ControlTypes'
    BY <1>1, <1>2, <2>1, ControlTyped
  <2>4. Types'
    BY <2>2, <2>3 DEF Types, UserTypes, RemoteTypes, ControlTypes, CountTypes, FailsOk, Trees
  <2> QED BY <2>1, <2>4 DEF Inv
<1>3. CASE UNCHANGED vars
  BY <1>3 DEF Inv, Types, Shape, Now, vars, Present, Ignorable, MaxFaults
<1> QED BY <1>2, <1>3

LEMMA InitShape ==
  ASSUME Init
  PROVE  Shape
<1> DEFINE R == InitRecords
           P == [r \in {ROOT} |-> <<>>]
<1>1. MaxRec \in Nat /\ MaxRec >= 2 /\ ROOT \in Ids /\ 0 \in Ids /\ ROOT # 0
  BY MaxRecAssumption DEF Ids, ROOT
<1>2. /\ R \in [Ids -> RecordItem]
      /\ \A r \in Ids : /\ R[r].next = 0 /\ R[r].sub = 0 /\ R[r].name = 0 /\ ~R[r].isignore
                        /\ R[r].isactive = (r = ROOT) /\ R[r].isdir = (r = ROOT)
  BY DEF InitRecords, Blank, RecordItem
<1> HIDE DEF R
<1>3. Active(R) = {ROOT} /\ Dirs(R) = {ROOT}
  BY <1>1, <1>2 DEF Active, Dirs
<1>4. P \in [{ROOT} -> AnyPath] /\ P[ROOT] = <<>>
  BY DEF AnyPath
<1> HIDE DEF P
<1>5. Kids(R, P, ROOT) = {}
  <2>1. Append(<<>>, R[ROOT].name) # <<>>
    <3>1. <<>> \in Seq(Nat) /\ R[ROOT].name \in Nat
      BY <1>1, <1>2 DEF RecordItem
    <3>2. Len(Append(<<>>, R[ROOT].name)) = 1
      BY <3>1
    <3> QED BY <3>2
  <2> QED BY <1>3, <1>4, <2>1 DEF Kids
<1>6. Forest(R, P)
  <2>1. Placed(R, P)
    BY <1>1, <1>2, <1>3, <1>4 DEF Placed
  <2>2. Linked(R, {}, ROOT)
    BY <1>1, <1>2 DEF Linked, FirstOf
  <2> QED BY <1>2, <1>3, <1>5, <2>1, <2>2 DEF Forest
<1>7. Recycled(R, 2)
  <2>1. 2 \in 2 .. MaxRec /\ \A r \in Ids : r >= 2 => r # ROOT
    BY <1>1 DEF ROOT
  <2>2. Idle(R) = Ids \ {ROOT} /\ \A q \in Ids : R[q].next = 0
    BY <1>2, <1>3 DEF Idle
  <2> QED BY <1>1, <2>1, <2>2 DEF Recycled
<1>8. Shaped(R, 2, P, restate, "idle", act)
  BY <1>6, <1>7 DEF Shaped, Ended
<1>9. Now(P)
  BY <1>8 DEF Now, Init, R
<1> QED BY <1>9 DEF Shape

LEMMA InitTypes ==
  ASSUME Init
  PROVE  Types
<1>1. setup \in Setups /\ local = [p \in Paths |-> None] /\ cur = [p \in Paths |-> None]
  BY DEF Init
<1>2. local \in Trees /\ cur \in Trees
  BY <1>1 DEF Trees, Nodes
<1>3. IsFiniteSet(Present)
  <2>1. Present = {}
    BY <1>1 DEF Present
  <2> QED BY <2>1, FS_EmptySet
<1>4. edits \in 0 .. MaxEdits /\ ignored \subseteq Ignorable /\ hist \subseteq [path : Paths, version : Versions]
  BY BoundsAssumption DEF Init
<1>5. faults \in 0 .. MaxFaults /\ overlooked \in BOOLEAN /\ quiet \in BOOLEAN /\ done \in BOOLEAN
  <2>1. MaxFaults \in Nat
    BY <1>1, SetupsAssumption DEF MaxFaults
  <2>2. faults \in 0 .. MaxFaults
    <3>1. faults = 0
      BY DEF Init
    <3> QED BY <2>1, <3>1
  <2>3. overlooked \in BOOLEAN /\ quiet \in BOOLEAN /\ done \in BOOLEAN
    BY DEF Init
  <2> QED BY <2>2, <2>3
<1>6. restate \in Seq(RefreshIter) /\ act \in Action /\ pc = "idle"
  BY NoActionIs, EmptySeq DEF Init
<1>7. FailsOk
  <2>1. NoFails \in [{"file", "dir"} \X Paths -> 0 .. FailLimit + 1]
        /\ \A key \in {"file", "dir"} \X Paths : NoFails[key] <= FailLimit
    BY BoundsAssumption DEF NoFails
  <2> QED BY <2>1 DEF FailsOk, Init
<1> QED BY <1>1, <1>2, <1>3, <1>4, <1>5, <1>6, <1>7 DEF Types, FailsOk, Trees, Ended

LEMMA Invariance == Spec => []Inv
<1>1. Init => Inv
  BY InitShape, InitTypes DEF Inv
<1>2. Inv /\ [Next]_vars => Inv'
  BY InvSteps
<1> QED BY <1>1, <1>2, PTL DEF Spec

LEMMA TypesSuffice ==
  ASSUME Inv
  PROVE  TypeOK
<1>1. PICK P : Types /\ Now(P)
  BY DEF Inv, Shape
<1>2. recs \in [Ids -> RecordItem] /\ nrec \in 2 .. MaxRec
  BY <1>1 DEF Now, Shaped, Forest, Recycled
<1>3. \A i \in DOMAIN restate :
       /\ restate[i].rid \in Ids \ {0} /\ restate[i].stage \in Stages
       /\ restate[i].prog \in Nat
       /\ \A k \in DOMAIN restate[i].files : restate[i].files[k].attr \in Attr
  <2> TAKE i \in DOMAIN restate
  <2>1. restate \in Seq(RefreshIter)
    BY <1>1 DEF Types
  <2>2. restate[i] \in RefreshIter
    BY <2>1, LenProperties, ElementOfSeq
  <2>3. restate[i].files \in Seq(Item)
    BY <2>2 DEF RefreshIter
  <2>4. \A k \in DOMAIN restate[i].files : restate[i].files[k] \in Item
    <3> DEFINE files == restate[i].files
    <3> HIDE DEF files
    <3>1. files \in Seq(Item)
      BY <2>3 DEF files
    <3>2. \A k \in DOMAIN files : files[k] \in Item
      BY <3>1, LenProperties, ElementOfSeq
    <3> QED BY <3>2 DEF files
  <2> QED BY <2>2, <2>4 DEF RefreshIter, Item
<1>4. pc \in Ended \cup {"step", "stage", "missing", "attr", "hist", "upload", "mkdir", "record",
                         "unlink", "forget"}
  BY <1>1 DEF Types, Busy
<1> QED BY <1>1, <1>2, <1>3, <1>4 DEF Types, TypeOK

(* Every variable keeps its type: the registry, the stack of refreshStep, the *)
(* failure counts and the trees, and no path fails more often than Root       *)
(* gives up after.                                                          *)
THEOREM TypeCorrect == Spec => []TypeOK
<1>1. Inv => TypeOK
  BY TypesSuffice
<1> QED BY <1>1, Invariance, PTL

(* refreshStep never needs the recoveries it has for a stack that does not fit *)
(* the registry: what it checks of its stack entries, of the records NEW finds  *)
(* and of the directory it returns to holds in every state.                    *)
THEOREM WalkIsValid == Spec => []WalkStaysValid
<1>1. ASSUME Inv PROVE WalkStaysValid
  <2>1. PICK P : Now(P)
    BY <1>1 DEF Inv, Shape
  <2>2. pc = "step" => \A i \in 2 .. Len(restate) : IterOk(i)
    BY <2>1, Walking, StackChecked
  <2>3. ASSUME InStage("NEW"), NEW i \in NewItems, Child(Top.files[i].name) # 0
        PROVE  recs[Child(Top.files[i].name)].isdir = Top.files[i].isdir
    <3> DEFINE n == Top.files[i].name
               r == Child(n)
    <3>1. /\ Forest(recs, P) /\ TopIs(recs, P, Top, "step", NoAction) /\ Top \in RefreshIter
          /\ Top.rid \in Dirs(recs) /\ Top.stage = "NEW"
      BY <2>1, <2>3, AtStage DEF InStage
    <3>2. i \in DOMAIN Top.files /\ n \in Names
      <4>1. Top.files \in Seq(Item) /\ i \in DOMAIN Top.files
        BY <3>1 DEF RefreshIter, NewItems
      <4>2. Top.files[i] \in Item
        BY <4>1, LenProperties, ElementOfSeq
      <4> QED BY <4>1, <4>2 DEF Item
    <3>3. ChildIs(P, n)
      <4> HIDE DEF n
      <4> QED BY <3>1, <3>2, ChildFound
    <3>4. r \in Kids(recs, P, Top.rid) /\ recs[r].name = n
      BY <2>3, <3>3 DEF ChildIs
    <3> HIDE DEF r
    <3>5. Borne(recs, Top.files, r)
      BY <3>1, <3>4 DEF TopIs, Doomed
    <3>6. PICK k \in DOMAIN Top.files : Top.files[k].name = n /\ Top.files[k].isdir = recs[r].isdir
      BY <3>4, <3>5 DEF Borne
    <3>7. k = i
      BY <3>1, <3>2, <3>6 DEF TopIs
    <3> QED BY <3>6, <3>7 DEF r
  <2>4. ASSUME InStage("RETURN"), Len(restate) > 1
        PROVE  restate[Len(restate) - 1].stage \in {"RECUR", "RETURN"}
    <3>1. Stack(recs, P, restate) /\ Len(restate) \in Nat \ {0}
      BY <2>1, <2>4, AtStage DEF InStage
    <3>2. Len(restate) - 1 \in 1 .. Len(restate) - 1
      BY <2>4, <3>1
    <3> QED BY <3>1, <3>2 DEF Stack
  <2>5. InStage("NEW") =>
          \A i \in NewItems : LET r == Child(Top.files[i].name)
                              IN r # 0 => recs[r].isdir = Top.files[i].isdir
    BY <2>3
  <2> QED BY <2>2, <2>4, <2>5 DEF WalkStaysValid
<1> QED BY <1>1, Invariance, PTL

(* What perform looks up by its path is there: the directory of a new entry,   *)
(* which has no record yet, the record to modify, the record to delete, each    *)
(* of the kind that refreshStep saw when it proposed the action.               *)
THEOREM ActionsMeet == Spec => []ActionsMeetTheirRecords
<1>1. ASSUME Inv PROVE ActionsMeetTheirRecords
  <2>1. PICK P : Now(P)
    BY <1>1 DEF Inv, Shape
  <2>2. ASSUME pc \in {"attr", "hist", "upload", "mkdir", "record"}, ~Deleting
        PROVE  /\ RecordAt(Parent(act.path)) # 0
               /\ IF act.type = "MODFILE"
                  THEN /\ RecordAt(act.path) # 0 /\ ~recs[RecordAt(act.path)].isdir
                       /\ ~recs[RecordAt(act.path)].isignore
                  ELSE RecordAt(act.path) = 0
    <3>1. pc \in Busy
      BY <2>2 DEF Busy
    <3>2. PICK n : ChangeFacts(P, n)
      BY <2>1, <2>2, <3>1, ChangeKnows
    <3>3. /\ Forest(recs, P) /\ RecordAt(Parent(act.path)) = Top.rid /\ Top.rid \in Dirs(recs)
          /\ act.path \in AnyPath
      BY <2>1, <3>1, <3>2, Acting DEF ChangeFacts, AnyPath
    <3>4. 0 \notin Active(recs)
      BY <3>3 DEF Forest, Placed
    <3>5. /\ RecordAt(act.path) \in Active(recs) \cup {0}
          /\ RecordAt(act.path) # 0 => P[RecordAt(act.path)] = act.path
          /\ \A r \in Active(recs) : P[r] = act.path => RecordAt(act.path) = r
      BY <3>3, RecordAtFinds
    <3>6. CASE act.type = "MODFILE"
      <4>1. PICK r \in Active(recs) : P[r] = act.path /\ ~recs[r].isdir /\ ~recs[r].isignore
        BY <3>2, <3>6 DEF ChangeFacts
      <4> QED BY <3>3, <3>4, <3>5, <3>6, <4>1 DEF Dirs
    <3>7. CASE act.type # "MODFILE"
      <4>1. \A r \in Active(recs) : P[r] # act.path
        BY <3>2, <3>7 DEF ChangeFacts
      <4> QED BY <3>3, <3>4, <3>5, <3>7, <4>1 DEF Dirs
    <3> QED BY <3>6, <3>7
  <2>3. ASSUME pc \in {"hist", "unlink", "forget"}, Deleting
        PROVE  RecordAt(act.path) # 0 /\ recs[RecordAt(act.path)].isdir = (act.type = "DELDIR")
    <3>1. PICK r, u : DeleteFacts(P, r, u)
      BY <2>1, <2>3, DeleteKnows DEF Busy
    <3>2. r # 0
      <4>1. Forest(recs, P) /\ r \in Kids(recs, P, Top.rid)
        BY <3>1 DEF DeleteFacts
      <4>2. 0 \notin Active(recs)
        BY <4>1 DEF Forest, Placed
      <4> QED BY <4>1, <4>2 DEF Kids
    <3> QED BY <3>1, <3>2 DEF DeleteFacts
  <2> QED BY <2>2, <2>3 DEF ActionsMeetTheirRecords
<1> QED BY <1>1, Invariance, PTL

-----------------------------------------------------------------------------
(***************************************************************************)
(* Versions and the history.  What an action that replaces or deletes a        *)
(* version has seen to before it comes to the remote copy.                     *)
(***************************************************************************)
KeptBefore ==
  /\ pc \in {"hist", "unlink", "forget"} /\ Deleting /\ KeepHist /\ ~act.isignore /\ ~act.keephist =>
       recs[RecordAt(act.path)].isignore
  /\ pc \in {"unlink", "forget"} /\ act.keephist =>
       \A q \in {act.path} \cup Below(cur, act.path) : cur[q] = None
  /\ pc \in {"attr", "hist", "upload"} /\ act.type = "MODFILE" /\ KeepHist => act.keephist
  /\ pc = "upload" /\ act.type = "MODFILE" /\ KeepHist /\ ~act.histfailed => ~IsFile(cur[act.path])

(* A tree that has lost some entries and won none.                             *)
Shrinks(t, s) == DOMAIN s = DOMAIN t /\ \A q \in DOMAIN t : s[q] = t[q] \/ s[q] = None

LEMMA Shrinking ==
  ASSUME NEW t \in Trees, NEW p
  PROVE  /\ Shrinks(t, Drop(t, p)) /\ \A q \in ({p} \cup Below(t, p)) \cap Paths : Drop(t, p)[q] = None
         /\ Shrinks(t, DelDirFrom(t, p)) /\ Shrinks(t, DelFileFrom(t, p)) /\ Shrinks(t, [t EXCEPT ![p] = None])
         /\ \A s \in PutHistStops(t, p) \cup DelDirStops(t, p) \cup DelFileStops(t, p) : Shrinks(t, s)
<1>1. DOMAIN t = Paths
  BY DEF Trees
<1>2. Shrinks(t, t)
  BY DEF Shrinks
<1>3. Shrinks(t, Drop(t, p)) /\ \A q \in ({p} \cup Below(t, p)) \cap Paths : Drop(t, p)[q] = None
  BY <1>1 DEF Shrinks, Drop
<1>4. Shrinks(t, [t EXCEPT ![p] = None])
  BY <1>1 DEF Shrinks, Trees
<1>5. Shrinks(t, DelDirFrom(t, p)) /\ Shrinks(t, DelFileFrom(t, p))
  BY <1>2, <1>4 DEF DelDirFrom, DelFileFrom
<1>6. \A s \in PutHistStops(t, p) \cup DelDirStops(t, p) \cup DelFileStops(t, p) : Shrinks(t, s)
  BY <1>2, <1>3, <1>5 DEF PutHistStops, DelDirStops, DelFileStops
<1> QED BY <1>3, <1>4, <1>5, <1>6

LEMMA RecordAtNext == \A p : RecordAt(p)' = At(recs', p)
BY DEF RecordAt, At, Recursive, Below1, NamesNow, NameOf

LEMMA RecordAtStays ==
  ASSUME UNCHANGED recs
  PROVE  \A p : RecordAt(p)' = RecordAt(p)
BY RecordAtIsAt, RecordAtNext

(* The remote and the record of the action stay as they are, or the remote     *)
(* loses more.                                                              *)
LEMMA KeptStays ==
  ASSUME Types, KeptBefore, UNCHANGED <<setup, recs, act>>, Shrinks(cur, cur'),
         pc \in Busy => act.path \in Paths,
         pc' \in {"hist", "unlink", "forget", "attr", "upload"} => pc' = pc \/ (pc = "unlink" /\ pc' = "forget")
  PROVE  KeptBefore'
<1>1. RecordAt(act.path)' = RecordAt(act.path) /\ KeepHist' = KeepHist /\ Deleting' = Deleting
  BY RecordAtStays DEF KeepHist, Deleting
<1>2. DOMAIN cur = Paths /\ DOMAIN cur' = Paths /\ \A q \in Paths : cur'[q] = cur[q] \/ cur'[q] = None
  BY DEF Shrinks, Types
<1>3. Below(cur', act.path) = Below(cur, act.path) /\ Below(cur, act.path) \subseteq Paths
  BY <1>2 DEF Below
<1>4. pc' \in {"unlink", "forget"} => pc \in {"unlink", "forget"} /\ pc \in Busy
  BY DEF Busy
<1>5. pc' \in {"attr", "hist", "upload"} => pc' = pc /\ pc \in Busy
  BY DEF Busy
<1>6. pc' \in {"hist", "unlink", "forget"} /\ Deleting' /\ KeepHist' /\ ~act'.isignore /\ ~act'.keephist =>
        recs'[RecordAt(act.path)'].isignore
  BY <1>1, <1>4, <1>5 DEF KeptBefore
<1>7. pc' \in {"unlink", "forget"} /\ act'.keephist =>
        \A q \in {act'.path} \cup Below(cur', act'.path) : cur'[q] = None
  <2> SUFFICES ASSUME pc' \in {"unlink", "forget"}, act.keephist,
                      NEW q \in {act.path} \cup Below(cur, act.path)
               PROVE  cur'[q] = None
    BY <1>3
  <2>1. q \in Paths /\ cur[q] = None
    BY <1>3, <1>4 DEF KeptBefore
  <2> QED BY <1>2, <2>1
<1>8. pc' \in {"attr", "hist", "upload"} /\ act'.type = "MODFILE" /\ KeepHist' => act'.keephist
  BY <1>1, <1>5 DEF KeptBefore
<1>9. pc' = "upload" /\ act'.type = "MODFILE" /\ KeepHist' /\ ~act'.histfailed => ~IsFile(cur'[act'.path])
  BY <1>1, <1>2, <1>5 DEF KeptBefore, IsFile
<1> QED BY <1>6, <1>7, <1>8, <1>9 DEF KeptBefore

(* Nothing is asked of an action that is over or has not begun.                  *)
LEMMA KeptElsewhere ==
  ASSUME pc' \notin {"attr", "hist", "upload", "unlink", "forget"}
  PROVE  KeptBefore'
BY DEF KeptBefore

LEMMA KeptByProposals ==
  ASSUME Types, NEW P, Now(P), ProposeDel \/ ProposeAdd \/ ProposeMod, UNCHANGED setup
  PROVE  KeptBefore'
<1>1. CASE ProposeDel
  <2>1. pc = "stage" /\ Top.stage = "REMOVE" /\ recs' = recs
    BY <1>1 DEF ProposeDel, InStage, registry
  <2>2. PICK r \in {NextToRemove} \ {0} :
          LET isignore == Reclassified(r) /\ ~recs[r].isignore IN
          /\ act' = [NoAction EXCEPT
                       !.type = IF recs[r].isdir THEN "DELDIR" ELSE "DELFILE",
                       !.path = Append(TopPath, NameOf(r)),
                       !.isignore = isignore,
                       !.keephist = KeepHist /\ ~isignore /\ ~recs[r].isignore]
          /\ pc' = IF act'.keephist THEN "hist" ELSE "unlink"
    BY <1>1 DEF ProposeDel
  <2> DEFINE drops == Reclassified(r) /\ ~recs[r].isignore
  <2>3. /\ act'.type \in {"DELDIR", "DELFILE"} /\ act'.path = Append(TopPath, NameOf(r))
        /\ act'.isignore = drops /\ act'.keephist = (KeepHist /\ ~drops /\ ~recs[r].isignore)
        /\ pc' = IF act'.keephist THEN "hist" ELSE "unlink"
    BY <2>2 DEF NoAction
  <2> HIDE DEF drops
  <2>4. Forest(recs, P) /\ TopPath = P[Top.rid] /\ Top.rid \in Dirs(recs)
    BY <2>1, AtStage
  <2>5. r \in Kids(recs, P, Top.rid)
    BY <2>1, <2>2, ToRemove
  <2>6. act'.path = P[r] /\ P[r] \in Paths /\ r \in Active(recs)
    BY <2>3, <2>4, <2>5, KidFacts DEF NameOf
  <2>7. RecordAt(act'.path) = r
    BY <2>4, <2>6, RecordAtFinds DEF AnyPath
  <2>8. RecordAt(act.path)' = r /\ KeepHist' = KeepHist
    <3>1. \A p : RecordAt(p)' = RecordAt(p)
      BY <2>1, RecordAtStays
    <3>2. RecordAt(act.path)' = At(recs', act'.path)
      BY DEF RecordAt, At, Recursive, Below1, NamesNow, NameOf
    <3> QED BY <2>1, <2>7, <3>2, RecordAtIsAt DEF KeepHist
  <2>9. KeepHist /\ ~act'.isignore /\ ~act'.keephist => recs'[r].isignore
    BY <2>1, <2>3
  <2> QED BY <2>3, <2>8, <2>9 DEF KeptBefore
<1>2. CASE ProposeAdd
  <2>1. act'.type \in {"ADDDIR", "ADDFILE"} /\ pc' \in {"record", "mkdir", "attr"}
    BY <1>2 DEF ProposeAdd, Propose, NoAction
  <2> QED BY <2>1 DEF KeptBefore
<1>3. CASE ProposeMod
  <2>1. act'.type = "MODFILE" /\ pc' = "attr" /\ act'.keephist = KeepHist
    BY <1>3 DEF ProposeMod, Propose, Modification, NoAction
  <2> QED BY <2>1 DEF KeptBefore, KeepHist
<1> QED BY <1>1, <1>2, <1>3

LEMMA KeptByHistory ==
  ASSUME Types, NEW P, Now(P), KeptBefore, ReadAttr \/ PutHist \/ PutHistFails, UNCHANGED setup
  PROVE  KeptBefore'
<1>1. act \in Action /\ cur \in Trees /\ KeepHist' = KeepHist
  BY DEF Types, Trees, KeepHist
<1>2. CASE ReadAttr
  <2>1. /\ pc = "attr" /\ pc' \in {"missing", "step", "hist", "upload"}
        /\ act'.type = act.type /\ act'.path = act.path /\ act'.keephist = act.keephist
        /\ pc' = "upload" => ~act.keephist
    BY <1>1, <1>2 DEF ReadAttr, Goto, Action
  <2>2. ~Deleting' /\ (act.type = "MODFILE" /\ KeepHist => act.keephist)
    <3>1. ~Deleting
      BY <2>1, ActFacts DEF Busy
    <3> QED BY <2>1, <3>1 DEF Deleting, KeptBefore
  <2> QED BY <1>1, <2>1, <2>2 DEF KeptBefore
<1>3. CASE PutHist
  <2>1. /\ pc = "hist" /\ pc' = (IF Deleting THEN "unlink" ELSE "upload")
        /\ cur' = Drop(cur, act.path) /\ act' = act /\ recs' = recs
    BY <1>3 DEF PutHist, Goto, registry
  <2>2. act.path \in Paths
    BY <2>1, Acting DEF Busy
  <2>3. Below(cur', act.path) = Below(cur, act.path) /\ Below(cur, act.path) \subseteq Paths
        /\ \A q \in {act.path} \cup Below(cur, act.path) : cur'[q] = None
    <3>1. Shrinks(cur, cur') /\ \A q \in ({act.path} \cup Below(cur, act.path)) \cap Paths : cur'[q] = None
      BY <1>1, <2>1, Shrinking
    <3>2. DOMAIN cur = Paths /\ DOMAIN cur' = Paths
      BY <1>1, <3>1 DEF Shrinks, Trees
    <3> QED BY <2>2, <3>1, <3>2 DEF Below
  <2>4. RecordAt(act.path)' = RecordAt(act.path) /\ Deleting' = Deleting
    BY <2>1, RecordAtStays DEF Deleting
  <2>5. ~IsFile(cur'[act.path])
    BY <2>3 DEF IsFile
  <2>6. Deleting => act.type # "MODFILE"
    BY DEF Deleting
  <2> QED BY <1>1, <2>1, <2>3, <2>4, <2>5, <2>6 DEF KeptBefore
<1>4. CASE PutHistFails
  <2>1. CASE Deleting
    BY <1>4, <2>1, KeptElsewhere DEF PutHistFails, EndRun
  <2>2. CASE ~Deleting
    <3>1. /\ pc = "hist" /\ pc' = "upload" /\ act' = [act EXCEPT !.histfailed = TRUE]
      BY <1>4, <2>2 DEF PutHistFails
    <3>2. act'.type = act.type /\ act'.keephist = act.keephist /\ act'.histfailed
      BY <1>1, <3>1 DEF Action
    <3> QED BY <1>1, <2>2, <3>1, <3>2 DEF KeptBefore
  <2> QED BY <2>1, <2>2
<1> QED BY <1>2, <1>3, <1>4

LEMMA KeptByDeletions ==
  ASSUME Types, NEW P, Now(P), KeptBefore, UNCHANGED setup,
         SkipRemote \/ DeleteRemote \/ DeleteRefused \/ DeleteFails \/ DelDirMissed
  PROVE  KeptBefore'
<1>1. cur \in Trees /\ (pc \in Busy => act.path \in Paths)
  BY Acting DEF Types, Trees
<1>2. CASE DeleteRefused \/ DeleteFails
  BY <1>2, KeptElsewhere DEF DeleteRefused, DeleteFails, EndRun
<1>3. CASE SkipRemote \/ DeleteRemote \/ DelDirMissed
  <2>1. pc = "unlink" /\ pc' = "forget" /\ recs' = recs /\ act' = act
    BY <1>3 DEF SkipRemote, DeleteRemote, DelDirMissed, Goto, Fault, registry
  <2>2. Shrinks(cur, cur')
    <3>1. CASE SkipRemote \/ DelDirMissed
      BY <3>1 DEF SkipRemote, DelDirMissed, remote, Shrinks
    <3>2. CASE DeleteRemote
      <4>1. PICK leaf \in {Leaf} : cur' = IF recs[leaf.id].isdir THEN DelDirFrom(cur, leaf.path)
                                          ELSE DelFileFrom(cur, leaf.path)
        BY <3>2 DEF DeleteRemote
      <4> QED BY <1>1, <4>1, Shrinking
    <3> QED BY <1>3, <3>1, <3>2
  <2> QED BY <1>1, <2>1, <2>2, KeptStays
<1> QED BY <1>2, <1>3

(* An entry goes before its directory only if that is not ignored.               *)
LEMMA LeafBelow ==
  ASSUME NEW P, NEW r, NEW u, DeleteFacts(P, r, u)
  PROVE  /\ Leaf.id \in Active(recs) /\ Leaf.path = P[Leaf.id] /\ Leaf.path \in Paths
         /\ Leaf.path # act.path => ~recs[r].isignore /\ recs[r].isdir
         /\ Leaf.path # act.path /\ DOMAIN cur = Paths => Leaf.path \in Below(cur, act.path)
         /\ Leaf.path = act.path => Leaf.id = r
<1>1. /\ Forest(recs, P) /\ LeafIs(P) /\ P[r] = act.path /\ act.path \in Paths
      /\ Leaf.id \in Kids(recs, P, u) /\ u \in Dirs(recs) /\ r \in Active(recs)
  BY DEF DeleteFacts, Kids
<1> DEFINE leaf == Leaf.id
           a == act.path
<1>2. /\ leaf \in Active(recs) /\ Leaf.path = P[leaf] /\ P[leaf] \in Paths /\ P[leaf] \in Seq(Names)
      /\ Len(P[leaf]) >= Len(a) /\ SubSeq(P[leaf], 1, Len(a)) = a
      /\ Len(P[leaf]) \in Nat /\ Len(a) \in Nat /\ a \in Seq(Names)
  BY <1>1, KidFacts, PathSets, LenProperties DEF LeafIs
<1>3. \A s \in Active(recs) : P[s] = a => s = r
  BY <1>1 DEF Forest, Placed
<1> HIDE DEF leaf, a
<1>4. ASSUME P[leaf] # a
      PROVE  Len(P[leaf]) > Len(a) /\ ~recs[r].isignore /\ recs[r].isdir
  <2>1. Len(P[leaf]) # Len(a)
    <3> SUFFICES ASSUME Len(P[leaf]) = Len(a) PROVE FALSE
      OBVIOUS
    <3>1. \A i \in 1 .. Len(a) : P[leaf][i] = a[i]
      <4>1. Len(a) \in 0 .. Len(P[leaf])
        BY <1>2
      <4> QED BY <1>2, <4>1, PrefixFacts
    <3> QED BY <1>2, <1>4, <3>1, SeqEqual
  <2>2. Len(P[leaf]) > Len(a) /\ Len(a) \in 0 .. Len(P[leaf]) - 1
    BY <1>2, <2>1
  <2> DEFINE i == Len(a)
  <2>3. PICK d \in Dirs(recs) : ~recs[d].isignore /\ P[d] = a
    <3>1. i \in 0 .. Len(P[leaf]) - 1
      BY <2>2
    <3> HIDE DEF i
    <3>2. \E d \in Dirs(recs) : ~recs[d].isignore /\ P[d] = SubSeq(P[leaf], 1, i)
      BY <1>1, <1>2, <3>1, DirsAbove
    <3> QED BY <1>2, <3>2 DEF i
  <2>4. d = r
    BY <1>3, <2>3 DEF Dirs
  <2> QED BY <2>2, <2>3, <2>4 DEF Dirs
<1>5. P[leaf] # a /\ DOMAIN cur = Paths => P[leaf] \in Below(cur, a)
  BY <1>2, <1>4 DEF Below
<1>6. P[leaf] = a => leaf = r
  BY <1>2, <1>3
<1> QED BY <1>2, <1>4, <1>5, <1>6 DEF leaf, a

LEMMA KeptByForget ==
  ASSUME Types, NEW P, Now(P), KeptBefore, UNCHANGED setup, Forget
  PROVE  KeptBefore'
<1>1. /\ pc = "forget" /\ act' = act /\ cur' = cur /\ KeepHist' = KeepHist
      /\ pc' = IF Leaf.path = act.path THEN "step" ELSE "unlink"
  BY DEF Forget, Goto, remote, KeepHist
<1>2. CASE Leaf.path = act.path
  BY <1>1, <1>2, KeptElsewhere
<1>3. CASE Leaf.path # act.path
  <2>1. Deleting
    BY <1>1, ActFacts DEF Busy
  <2>2. PICK r, u : DeleteFacts(P, r, u)
    BY <1>1, <2>1, DeleteKnows DEF Busy
  <2>3. ~recs[r].isignore /\ RecordAt(act.path) = r
    <3>1. DOMAIN cur = Paths
      BY DEF Types
    <3> QED BY <1>3, <2>2, <3>1, LeafBelow DEF DeleteFacts
  <2>4. ~(KeepHist /\ ~act.isignore /\ ~act.keephist)
    BY <1>1, <2>1, <2>3 DEF KeptBefore
  <2>5. act.keephist => \A q \in {act.path} \cup Below(cur, act.path) : cur[q] = None
    BY <1>1 DEF KeptBefore
  <2> QED BY <1>1, <1>3, <2>4, <2>5 DEF KeptBefore
<1> QED BY <1>2, <1>3

LEMMA KeptSteps ==
  ASSUME Inv, KeptBefore, [Next]_vars
  PROVE  KeptBefore'
<1>1. PICK P : Types /\ Now(P)
  BY DEF Inv, Shape
<1>2. CASE UNCHANGED vars
  <2>1. UNCHANGED <<setup, recs, act, pc, cur>> /\ Shrinks(cur, cur')
    BY <1>2 DEF vars, Shrinks
  <2>2. pc \in Busy => act.path \in Paths
    BY <1>1, Acting
  <2> QED BY <1>1, <2>1, <2>2, KeptStays
<1>3. CASE Next
  <2>1. UNCHANGED setup
    BY <1>3 DEF Next, Program
  <2>2. CASE User
    <3>1. UNCHANGED <<recs, act, pc, cur>> /\ Shrinks(cur, cur')
      BY <2>2 DEF User, SaveFile, MakeDir, Delete, ToggleIgnore, Edit, registry, remote, Shrinks
    <3>2. pc \in Busy => act.path \in Paths
      BY <1>1, Acting
    <3> QED BY <1>1, <2>1, <3>1, <3>2, KeptStays
  <2>3. CASE Start \/ Crash
    BY <2>3, KeptElsewhere DEF Start, Crash, EndRun
  <2>4. CASE ProposeDel \/ ProposeAdd \/ ProposeMod
    BY <1>1, <2>1, <2>4, KeptByProposals
  <2>5. CASE RefreshStep /\ ~(ProposeDel \/ ProposeAdd \/ ProposeMod)
    <3>1. pc' \in {"step", "stage", "idle", "RootFallback", "TooManyFails"} \/ (pc = "stage" /\ pc' = pc)
      BY <2>5 DEF RefreshStep, Fallback, CheckStack, InitList, InitGone, RemoveDone, NewDone, Recur,
             RedoUpper, Return, Finish, RecordFail, InStage
    <3> QED BY <3>1, KeptElsewhere
  <2>6. CASE ReadAttr \/ PutHist \/ PutHistFails
    BY <1>1, <2>1, <2>6, KeptByHistory
  <2>7. CASE Upload \/ UploadGone \/ UploadLocked \/ UploadFails \/ MkDir \/ MkDirFails \/ Record
    <3>1. pc' \in {"record", "idle", "step"}
      BY <2>7 DEF Upload, UploadGone, UploadLocked, UploadFails, MkDir, MkDirFails, Record, EndRun, Goto
    <3> QED BY <3>1, KeptElsewhere
  <2>8. CASE SkipRemote \/ DeleteRemote \/ DeleteRefused \/ DeleteFails \/ DelDirMissed
    BY <1>1, <2>1, <2>8, KeptByDeletions
  <2>9. CASE Forget
    BY <1>1, <2>1, <2>9, KeptByForget
  <2> QED BY <1>3, <2>2, <2>3, <2>4, <2>5, <2>6, <2>7, <2>8, <2>9 DEF Next, Program, Perform, Fails
<1> QED BY <1>2, <1>3

(* What is added changes nothing but the entry and the directories above it.     *)
LEMMA PathsAbove ==
  ASSUME NEW p \in Paths
  PROVE  /\ Above(p) = {SubSeq(p, 1, k) : k \in 1 .. Len(p) - 1}
         /\ Above(p) \cup {p} = {SubSeq(p, 1, k) : k \in 1 .. Len(p)}
         /\ Above(p) = {SubSeq(SubSeq(p, 1, Len(p) - 1), 1, k) : k \in 1 .. Len(SubSeq(p, 1, Len(p) - 1))}
         /\ Above(p) \subseteq Paths /\ p \notin Above(p)
<1>1. p \in Seq(Names) /\ Len(p) \in 1 .. Depth /\ Len(p) \in Nat \ {0}
  BY PathSets, DepthAssumption
<1>2. Above(p) = {SubSeq(p, 1, k) : k \in 1 .. Len(p) - 1}
  BY DEF Above
<1>3. SubSeq(p, 1, Len(p)) = p
  <2>1. Len(p) \in 0 .. Len(p)
    BY <1>1
  <2>2. /\ SubSeq(p, 1, Len(p)) \in Seq(Names) /\ Len(SubSeq(p, 1, Len(p))) = Len(p)
        /\ \A j \in 1 .. Len(p) : SubSeq(p, 1, Len(p))[j] = p[j]
    BY <1>1, <2>1, PrefixFacts
  <2> QED BY <1>1, <2>2, SeqEqual
<1>4. Above(p) \cup {p} = {SubSeq(p, 1, k) : k \in 1 .. Len(p)}
  <2>1. \A k \in 1 .. Len(p) : k \in 1 .. Len(p) - 1 \/ k = Len(p)
    BY <1>1
  <2>2. Len(p) \in 1 .. Len(p) /\ \A k \in 1 .. Len(p) - 1 : k \in 1 .. Len(p)
    BY <1>1
  <2> QED BY <1>2, <1>3, <2>1, <2>2
<1> DEFINE a == Parent(p)
<1>5. /\ a \in Seq(Names) /\ p = Append(a, p[Len(p)]) /\ p[Len(p)] \in Names
      /\ Len(a) = Len(p) - 1 /\ SubSeq(p, 1, Len(p) - 1) = a
  <2>1. p # <<>>
    BY <1>1, EmptySeq
  <2> QED BY <1>1, <2>1, SplitPath DEF Parent
<1> HIDE DEF a
<1>6. \A k \in 1 .. Len(a) : SubSeq(a, 1, k) = SubSeq(p, 1, k)
  <2> TAKE k \in 1 .. Len(a)
  <2> DEFINE n == p[Len(p)]
  <2> HIDE DEF n
  <2>1. n \in Names /\ p = Append(a, n) /\ k \in 0 .. Len(a)
    BY <1>1, <1>5 DEF n
  <2> QED BY <1>5, <2>1, PrefixOfAppend
<1>7. Above(p) = {SubSeq(a, 1, k) : k \in 1 .. Len(a)}
  BY <1>2, <1>5, <1>6
<1>8. \A k \in 1 .. Len(p) - 1 : SubSeq(p, 1, k) \in Paths /\ Len(SubSeq(p, 1, k)) # Len(p)
  <2> TAKE k \in 1 .. Len(p) - 1
  <2>1. k \in 0 .. Len(p) /\ k \in 1 .. Depth /\ k # Len(p)
    BY <1>1, DepthAssumption
  <2>2. SubSeq(p, 1, k) \in Seq(Names) /\ Len(SubSeq(p, 1, k)) = k
    BY <1>1, <2>1, PrefixFacts
  <2> QED BY <2>1, <2>2, PathSets
<1> QED BY <1>2, <1>4, <1>5, <1>7, <1>8

Within(t, s, S) == \A q \in Paths : s[q] # t[q] => q \in S

LEMMA Adding ==
  ASSUME NEW t \in Trees, NEW p \in Paths
  PROVE  LET over == Above(p) \cup {p} IN
         /\ Within(t, AddDirTo(t, p), over)
         /\ \A s \in AddDirStops(t, p) : Within(t, s, over)
         /\ \A v : Within(t, AddFileTo(t, p, v), over) /\ \A s \in AddFileStops(t, p, v) : Within(t, s, over)
<1> DEFINE over == Above(p) \cup {p}
           a == SubSeq(p, 1, Len(p) - 1)
<1>1. /\ over = {SubSeq(p, 1, k) : k \in 1 .. Len(p)}
      /\ Above(p) = {SubSeq(a, 1, k) : k \in 1 .. Len(a)} /\ Above(p) \subseteq over /\ p \in over
  BY PathsAbove
<1>2. p \in Seq(Names) /\ a \in Seq(Names) /\ Len(p) \in Nat /\ Len(a) \in Nat
  <2>1. p \in Seq(Names) /\ Len(p) - 1 \in 0 .. Len(p) /\ Len(p) \in Nat
    BY PathSets, DepthAssumption
  <2> DEFINE k == Len(p) - 1
  <2>2. k \in 0 .. Len(p)
    BY <2>1
  <2> HIDE DEF k
  <2>3. SubSeq(p, 1, k) \in Seq(Names)
    BY <2>1, <2>2, PrefixFacts
  <2> QED BY <2>1, <2>3, LenProperties DEF k
<1> HIDE DEF over, a
<1>3. \A f \in Trees : \A dirs : dirs \subseteq over => Within(f, MakeDirs(f, dirs), over)
  BY DEF Trees, MakeDirs, Within
<1>4. \A f \in Trees : \A q \in over : \A v : Within(f, [f EXCEPT ![q] = v], over)
  BY DEF Trees, Within
<1>5. \A f, g, h : Within(f, g, over) /\ Within(g, h, over) => Within(f, h, over)
  BY DEF Within
<1>6. ASSUME NEW f \in Trees, NEW b \in Seq(Names), Len(b) \in Nat, \A k \in 1 .. Len(b) : SubSeq(b, 1, k) \in over,
             NEW s \in AddDirStops(f, b)
      PROVE  Within(f, s, over)
  <2> DEFINE dirs(k) == {SubSeq(b, 1, j) : j \in 1 .. k}
  <2>1. \/ \E k \in 0 .. Len(b) : s = MakeDirs(f, dirs(k))
        \/ \E k \in 1 .. Len(b) : s = [MakeDirs(f, dirs(k - 1)) EXCEPT ![SubSeq(b, 1, k)] = None]
    BY <1>6 DEF AddDirStops
  <2>2. \A k \in 0 .. Len(b) : dirs(k) \subseteq over
    <3>1. \A k \in 0 .. Len(b) : \A j \in 1 .. k : j \in 1 .. Len(b)
      BY <1>6
    <3> QED BY <1>6, <3>1
  <2> HIDE DEF dirs
  <2>3. \A k \in 0 .. Len(b) : Within(f, MakeDirs(f, dirs(k)), over) /\ MakeDirs(f, dirs(k)) \in Trees
    BY <1>3, <2>2, TreeTypes
  <2>4. ASSUME NEW k \in 1 .. Len(b), s = [MakeDirs(f, dirs(k - 1)) EXCEPT ![SubSeq(b, 1, k)] = None]
        PROVE  Within(f, s, over)
    <3>1. k - 1 \in 0 .. Len(b) /\ SubSeq(b, 1, k) \in over
      BY <1>6
    <3> DEFINE g == MakeDirs(f, dirs(k - 1))
               q == SubSeq(b, 1, k)
    <3>2. Within(f, g, over) /\ g \in Trees
      BY <2>3, <3>1
    <3> HIDE DEF g
    <3>3. Within(g, [g EXCEPT ![q] = None], over)
      BY <1>4, <3>1, <3>2
    <3> QED BY <1>5, <2>4, <3>2, <3>3 DEF g
  <2> QED BY <2>1, <2>3, <2>4
<1>7. Within(t, AddDirTo(t, p), over)
  BY <1>3 DEF AddDirTo, over
<1>8. \A s \in AddDirStops(t, p) : Within(t, s, over)
  BY <1>1, <1>2, <1>6
<1>9. \A v : Within(t, AddFileTo(t, p, v), over)
  <2> TAKE v
  <2> DEFINE g == MakeDirs(t, Above(p))
  <2>1. Within(t, g, over) /\ g \in Trees
    BY <1>1, <1>3, TreeTypes
  <2> HIDE DEF g
  <2>2. Within(g, [g EXCEPT ![p] = v], over)
    BY <1>1, <1>4, <2>1
  <2> QED BY <1>5, <2>1, <2>2 DEF AddFileTo, g
<1>10. \A v : \A s \in AddFileStops(t, p, v) : Within(t, s, over)
  <2> TAKE v
  <2> TAKE s \in AddFileStops(t, p, v)
  <2>1. PICK g \in {t, [t EXCEPT ![p] = None]} : s = AddFileTo(t, p, v) \/ s \in AddDirStops(g, a)
    BY DEF AddFileStops, a
  <2>2. g \in Trees /\ Within(t, g, over)
    <3>1. Within(t, t, over)
      BY DEF Within
    <3> QED BY <1>1, <1>4, <3>1, TreeTypes, ZenonT(60)
  <2>3. \A k \in 1 .. Len(a) : SubSeq(a, 1, k) \in over
    BY <1>1
  <2>4. s \in AddDirStops(g, a) => Within(g, s, over)
    BY <1>2, <1>6, <2>2, <2>3
  <2> QED BY <1>5, <1>9, <2>1, <2>2, <2>4
<1> QED BY <1>7, <1>8, <1>9, <1>10 DEF over

(* The directories above an entry of a directory.                              *)
LEMMA DirsOver ==
  ASSUME NEW P, Forest(recs, P), NEW u \in Dirs(recs), ~recs[u].isignore, NEW n \in Names,
         NEW a \in Paths, a = Append(P[u], n)
  PROVE  \A q \in Above(a) : /\ RecordAt(q) \in Dirs(recs) /\ ~recs[RecordAt(q)].isignore
<1> DEFINE b == P[u]
<1>1. b \in Seq(Names) /\ Len(b) \in Nat /\ Len(b) <= Depth /\ Len(a) = Len(b) + 1 /\ u \in Active(recs)
  <2>1. b \in Seq(Names) /\ Len(b) \in Nat /\ Len(b) <= Depth
    BY KidFacts
  <2> HIDE DEF b
  <2> QED BY <2>1, AppendPath DEF b, Dirs
<1> HIDE DEF b
<1> SUFFICES ASSUME NEW p \in Above(a)
             PROVE  RecordAt(p) \in Dirs(recs) /\ ~recs[RecordAt(p)].isignore
  OBVIOUS
<1>2. PICK k \in 1 .. Len(a) - 1 : p = SubSeq(a, 1, k)
  BY DEF Above
<1>3. k \in 0 .. Len(b) /\ (k # Len(b) => k \in 0 .. Len(b) - 1)
  BY <1>1
<1> DEFINE q == SubSeq(b, 1, k)
<1>4. SubSeq(a, 1, k) = q
  BY <1>1, <1>3, PrefixOfAppend DEF b
<1>5. q \in AnyPath
  <2>1. q \in Seq(Names) /\ Len(q) = k /\ k <= Depth
    BY <1>1, <1>3, DepthAssumption, PrefixFacts
  <2> QED BY <2>1, PathSets
<1>6. PICK d \in Dirs(recs) : ~recs[d].isignore /\ P[d] = q
  <2>1. CASE k = Len(b)
    <3>1. q = b
      <4>1. \A j \in 1 .. Len(b) : q[j] = b[j]
        BY <1>1, <1>3, <2>1, PrefixFacts
      <4>2. q \in Seq(Names) /\ Len(q) = Len(b)
        BY <1>1, <1>3, <2>1, PrefixFacts
      <4> HIDE DEF q
      <4> QED BY <1>1, <4>1, <4>2, SeqEqual
    <3> QED BY <3>1 DEF b
  <2>2. CASE k # Len(b)
    <3>1. k \in 0 .. Len(P[u]) - 1
      BY <1>3, <2>2 DEF b
    <3> QED BY <1>1, <3>1, DirsAbove DEF b
  <2> QED BY <2>1, <2>2
<1> HIDE DEF q
<1>7. RecordAt(q) = d
  BY <1>5, <1>6, RecordAtFinds DEF Dirs
<1> QED BY <1>2, <1>4, <1>6, <1>7

(* What perform adds is no entry with a record, but for a file that is modified.  *)
LEMMA AddsFind ==
  ASSUME NEW P, Now(P), pc \in {"upload", "mkdir"}
  PROVE  /\ act.path \in Paths
         /\ \A q \in Above(act.path) : RecordAt(q) \in Dirs(recs) /\ ~recs[RecordAt(q)].isignore
         /\ ~Deleting
         /\ act.type # "MODFILE" => RecordAt(act.path) = 0
         /\ act.type = "MODFILE" => pc = "upload" /\ RecordAt(act.path) \notin Dirs(recs)
<1>1. pc \in Busy /\ ~Deleting /\ ChangeIs(recs, P, Top, pc, act) /\ act.path \in Paths
  BY Acting, ActFacts DEF Busy
<1>2. PICK n : ChangeFacts(P, n)
  BY <1>1, ChangeKnows
<1>3. /\ Forest(recs, P) /\ Top.rid \in Dirs(recs) /\ ~recs[Top.rid].isignore
      /\ n \in Names /\ act.path = Append(P[Top.rid], n)
  BY <1>2 DEF ChangeFacts
<1>4. \A q \in Above(act.path) : RecordAt(q) \in Dirs(recs) /\ ~recs[RecordAt(q)].isignore
  BY <1>1, <1>3, DirsOver
<1>5. /\ RecordAt(act.path) \in Active(recs) \cup {0}
      /\ RecordAt(act.path) # 0 => P[RecordAt(act.path)] = act.path
      /\ \A r \in Active(recs) : P[r] = act.path => RecordAt(act.path) = r
  BY <1>1, <1>3, RecordAtFinds DEF AnyPath
<1>6. act.type # "MODFILE" => RecordAt(act.path) = 0
  BY <1>1, <1>5 DEF ChangeIs
<1>7. act.type = "MODFILE" => pc = "upload" /\ RecordAt(act.path) \notin Dirs(recs)
  BY <1>1, <1>5 DEF ChangeIs, Dirs
<1> QED BY <1>1, <1>4, <1>6, <1>7

(* What one step changes of the remote: at most what putHist moves away, what   *)
(* an upload or a new directory replaces, or the leaf that is deleted.          *)
LEMMA ChangesAt ==
  ASSUME Types, NEW P, Now(P), Next
  PROVE  \/ cur' = cur
         \/ /\ pc = "hist" /\ hist' = hist \cup FilesAt(cur, act.path)
            /\ act.path \in Paths /\ cur' = Drop(cur, act.path)
         \/ pc \in {"upload", "mkdir"} /\ Within(cur, cur', Above(act.path) \cup {act.path})
         \/ /\ pc = "unlink" /\ ~LocalOnly(Leaf.id)
            /\ CanDelete(Leaf) /\ (recs[Leaf.id].isdir => cur' = DelDirFrom(cur, Leaf.path))
            /\ (~recs[Leaf.id].isdir => cur' = DelFileFrom(cur, Leaf.path))
<1>1. cur \in Trees /\ (pc \in Busy => act.path \in Paths)
  BY Acting DEF Types, Trees
<1>2. CASE UNCHANGED remote
  BY <1>2 DEF remote
<1>3. CASE PutHist \/ PutHistFails
  <2>1. pc = "hist" /\ act.path \in Paths
    BY <1>1, <1>3 DEF PutHist, PutHistFails, Busy
  <2>2. PutHistFails => cur' \in PutHistStops(cur, act.path) /\ hist' = IF cur' = cur THEN hist ELSE hist \cup FilesAt(cur, act.path)
    BY DEF PutHistFails
  <2>3. PutHistFails /\ cur' # cur => cur' = Drop(cur, act.path) /\ hist' = hist \cup FilesAt(cur, act.path)
    BY <2>2 DEF PutHistStops
  <2>4. PutHist => cur' = Drop(cur, act.path) /\ hist' = hist \cup FilesAt(cur, act.path)
    BY DEF PutHist
  <2> QED BY <1>3, <2>1, <2>3, <2>4
<1>4. CASE Upload \/ UploadFails \/ MkDir \/ MkDirFails
  <2>1. pc \in {"upload", "mkdir"} /\ act.path \in Paths
    BY <1>1, <1>4 DEF Upload, UploadFails, MkDir, MkDirFails, Busy
  <2> DEFINE over == Above(act.path) \cup {act.path}
             v == local[act.path]
  <2>2. /\ Within(cur, AddDirTo(cur, act.path), over)
        /\ \A s \in AddDirStops(cur, act.path) : Within(cur, s, over)
        /\ Within(cur, AddFileTo(cur, act.path, v), over)
        /\ \A s \in AddFileStops(cur, act.path, v) : Within(cur, s, over)
    BY <1>1, <2>1, Adding
  <2> HIDE DEF over
  <2>3. Upload => cur' = cur \/ Within(cur, cur', over)
    BY <2>2 DEF Upload
  <2>4. UploadFails => cur' = cur \/ Within(cur, cur', over)
    BY <2>2 DEF UploadFails
  <2>5. MkDir \/ MkDirFails => Within(cur, cur', over)
    BY <2>2 DEF MkDir, MkDirFails
  <2> QED BY <1>4, <2>1, <2>3, <2>4, <2>5 DEF over
<1>5. CASE DeleteRemote
  <2>1. /\ pc = "unlink" /\ ~LocalOnly(Leaf.id) /\ (recs[Leaf.id].isdir => CanDelete(Leaf))
        /\ (recs[Leaf.id].isdir => cur' = DelDirFrom(cur, Leaf.path))
        /\ (~recs[Leaf.id].isdir => cur' = DelFileFrom(cur, Leaf.path))
    BY <1>5 DEF DeleteRemote
  <2>2. ~recs[Leaf.id].isdir /\ ~CanDelete(Leaf) => cur' = cur
    BY <2>1 DEF CanDelete, CanDelFile, DelFileFrom
  <2> QED BY <2>1, <2>2
<1>6. CASE DeleteFails
  <2>1. /\ pc = "unlink" /\ ~LocalOnly(Leaf.id)
        /\ cur' \in IF ~CanDelete(Leaf) THEN {cur}
                    ELSE IF recs[Leaf.id].isdir THEN DelDirStops(cur, Leaf.path)
                    ELSE DelFileStops(cur, Leaf.path)
    BY <1>6 DEF DeleteFails
  <2> QED BY <2>1 DEF DelDirStops, DelFileStops
<1> QED BY <1>2, <1>3, <1>4, <1>5, <1>6, RemoteChanges

LEMMA VersionsStep ==
  ASSUME Inv, KeptBefore, Next, KeepHist, NEW p \in Paths, IsFile(cur[p]), RecordedFile(p), cur'[p] # cur[p]
  PROVE  \/ [path |-> p, version |-> cur[p]] \in hist'
         \/ act.isignore \/ act.histfailed
<1>1. PICK P : Types /\ Now(P)
  BY DEF Inv, Shape
<1>2. DOMAIN cur = Paths /\ cur \in Trees
  BY <1>1 DEF Types, Trees
<1> DEFINE r == RecordAt(p)
<1>3. r # 0 /\ ~recs[r].isdir /\ ~recs[r].isignore
  BY DEF RecordedFile
<1>4. CASE pc = "hist" /\ hist' = hist \cup FilesAt(cur, act.path) /\ cur' = Drop(cur, act.path)
  <2>1. p \in {act.path} \cup Below(cur, act.path)
    BY <1>2, <1>4 DEF Drop
  <2>2. cur[p] \notin {None, Dir}
    BY DEF IsFile
  <2>3. [path |-> p, version |-> cur[p]] \in FilesAt(cur, act.path)
    BY <2>1, <2>2 DEF FilesAt
  <2> QED BY <1>4, <2>3
<1>5. CASE pc \in {"upload", "mkdir"} /\ Within(cur, cur', Above(act.path) \cup {act.path})
  <2>1. p \in Above(act.path) \/ p = act.path
    BY <1>5 DEF Within
  <2>2. /\ \A q \in Above(act.path) : RecordAt(q) \in Dirs(recs)
        /\ ~Deleting /\ (act.type # "MODFILE" => RecordAt(act.path) = 0)
        /\ act.type = "MODFILE" => pc = "upload"
    BY <1>1, <1>5, AddsFind
  <2>3. p = act.path
    BY <1>3, <2>1, <2>2 DEF Dirs
  <2>4. act.type = "MODFILE" /\ pc = "upload"
    BY <1>3, <2>2, <2>3
  <2> QED BY <2>3, <2>4 DEF KeptBefore
<1>6. CASE /\ pc = "unlink" /\ ~LocalOnly(Leaf.id)
           /\ (recs[Leaf.id].isdir => cur' = DelDirFrom(cur, Leaf.path))
           /\ (~recs[Leaf.id].isdir => cur' = DelFileFrom(cur, Leaf.path))
  <2>1. Deleting
    BY <1>1, <1>6, ActFacts DEF Busy
  <2>2. PICK d, u : DeleteFacts(P, d, u)
    BY <1>1, <1>6, <2>1, DeleteKnows DEF Busy
  <2>3. /\ Leaf.path # act.path => ~recs[d].isignore /\ Leaf.path \in Below(cur, act.path)
        /\ Leaf.path = act.path => Leaf.id = d
    BY <1>2, <2>2, LeafBelow
  <2>4. p = Leaf.path
    BY <1>2, <1>6 DEF DelDirFrom, DelFileFrom, Trees
  <2>5. ~recs[Leaf.id].isignore /\ ~(act.type = "DELDIR" /\ act.keephist)
    BY <1>6 DEF LocalOnly
  <2>6. ~act.keephist
    <3> SUFFICES ASSUME act.keephist PROVE FALSE
      OBVIOUS
    <3>1. cur[p] = None
      BY <1>6, <2>3, <2>4 DEF KeptBefore
    <3> QED BY <3>1 DEF IsFile
  <2>7. RecordAt(act.path) = d
    BY <2>2 DEF DeleteFacts
  <2>8. ~recs[d].isignore
    BY <2>3, <2>5
  <2> QED BY <1>6, <2>1, <2>6, <2>7, <2>8 DEF KeptBefore
<1> QED BY <1>1, <1>4, <1>5, <1>6, ChangesAt

LEMMA KeptAlways == Spec => []KeptBefore
<1>1. Init => KeptBefore
  BY DEF Init, KeptBefore
<1>2. Inv /\ KeptBefore /\ [Next]_vars => KeptBefore'
  BY KeptSteps
<1> QED BY <1>1, <1>2, Invariance, PTL DEF Spec

(* With general.history on, no version of a file that the registry knows of      *)
(* leaves the remote but for the history, whatever fails and whenever the        *)
(* process dies: except while its path is taken out of the backup, and after a   *)
(* failure of putHist, which addFile does not look at.                           *)
THEOREM VersionsStay == Spec => VersionsKept
<1> DEFINE kept == KeepHist => \A p \in Paths :
                     IsFile(cur[p]) /\ RecordedFile(p) /\ cur'[p] # cur[p] =>
                       \/ [path |-> p, version |-> cur[p]] \in hist'
                       \/ act.isignore \/ act.histfailed
<1>1. Inv /\ KeptBefore /\ [Next]_vars => [kept]_vars
  <2> SUFFICES ASSUME Inv, KeptBefore, Next PROVE kept
    OBVIOUS
  <2> QED BY VersionsStep
<1>2. [][Inv /\ KeptBefore /\ [Next]_vars]_vars => [][kept]_vars
  BY <1>1, PTL
<1> QED BY <1>1, KeptAlways, Invariance, PTL DEF Spec, VersionsKept

-----------------------------------------------------------------------------
(***************************************************************************)
(* Room for uploads: what stands on the remote stands in directories that the   *)
(* remote has and that the registry knows.                                     *)
(***************************************************************************)
Closed(t) == \A q \in Paths : t[q] # None => \A p \in Above(q) : t[p] = Dir

LEMMA AboveAbove ==
  ASSUME NEW q \in Paths, NEW p \in Above(q)
  PROVE  p \in Paths /\ Above(p) \subseteq Above(q) /\ Len(p) < Len(q)
<1>1. q \in Seq(Names) /\ Len(q) \in Nat
  BY PathSets, DepthAssumption
<1>2. p \in Paths /\ p \notin Above(p)
  <2>1. p \in Paths
    BY PathsAbove
  <2> QED BY <2>1, PathsAbove
<1>3. PICK k \in 1 .. Len(q) - 1 : p = SubSeq(q, 1, k)
  BY DEF Above
<1>4. k \in 0 .. Len(q) /\ k < Len(q)
  BY <1>1
<1>5. p \in Seq(Names) /\ Len(p) = k /\ \A j \in 1 .. k : p[j] = q[j]
  BY <1>1, <1>3, <1>4, PrefixFacts
<1>6. ASSUME NEW s \in Above(p) PROVE s \in Above(q)
  <2>1. PICK i \in 1 .. Len(p) - 1 : s = SubSeq(p, 1, i)
    BY <1>6 DEF Above
  <2>2. i \in 0 .. Len(p) /\ i \in 0 .. Len(q) /\ i \in 1 .. Len(q) - 1 /\ \A j \in 1 .. i : j \in 1 .. k
    BY <1>1, <1>4, <1>5
  <2>3. /\ SubSeq(p, 1, i) \in Seq(Names) /\ Len(SubSeq(p, 1, i)) = i
        /\ \A j \in 1 .. i : SubSeq(p, 1, i)[j] = p[j]
    BY <1>5, <2>2, PrefixFacts
  <2>4. /\ SubSeq(q, 1, i) \in Seq(Names) /\ Len(SubSeq(q, 1, i)) = i
        /\ \A j \in 1 .. i : SubSeq(q, 1, i)[j] = q[j]
    BY <1>1, <2>2, PrefixFacts
  <2> DEFINE a == SubSeq(p, 1, i)
             b == SubSeq(q, 1, i)
  <2>5. /\ a \in Seq(Names) /\ b \in Seq(Names) /\ Len(a) = Len(b)
        /\ \A j \in 1 .. Len(a) : a[j] = b[j]
    BY <1>5, <2>2, <2>3, <2>4
  <2> HIDE DEF a, b
  <2>6. a = b
    BY <2>5, SeqEqual
  <2> QED BY <2>1, <2>2, <2>6 DEF Above, a, b
<1>7. Len(p) < Len(q)
  BY <1>4, <1>5
<1> QED BY <1>2, <1>6, <1>7

LEMMA BelowAbove ==
  ASSUME NEW t \in Trees, NEW p \in Paths
  PROVE  /\ \A q \in Paths : q \in Below(t, p) <=> p \in Above(q)
         /\ Below(t, p) \subseteq Paths
         /\ HasChildren(t, p) <=> \E q \in Paths : p \in Above(q) /\ t[q] # None
<1>1. DOMAIN t = Paths
  BY DEF Trees
<1>2. ASSUME NEW q \in Paths PROVE q \in Below(t, p) <=> p \in Above(q)
  <2>1. q \in Seq(Names) /\ Len(q) \in Nat /\ Len(p) \in 1 .. Depth /\ Len(p) \in Nat
    BY PathSets, DepthAssumption
  <2>2. q \in Below(t, p) <=> Len(q) > Len(p) /\ SubSeq(q, 1, Len(p)) = p
    BY <1>1 DEF Below
  <2>3. Len(q) > Len(p) => Len(p) \in 1 .. Len(q) - 1
    BY <2>1
  <2>4. Len(q) > Len(p) /\ SubSeq(q, 1, Len(p)) = p => p \in Above(q)
    BY <2>3 DEF Above
  <2>5. ASSUME p \in Above(q) PROVE Len(q) > Len(p) /\ SubSeq(q, 1, Len(p)) = p
    <3>1. PICK k \in 1 .. Len(q) - 1 : p = SubSeq(q, 1, k)
      BY <2>5 DEF Above
    <3>2. k \in 0 .. Len(q) /\ k < Len(q)
      BY <2>1
    <3>3. Len(p) = k
      BY <2>1, <3>1, <3>2, PrefixFacts
    <3> QED BY <2>1, <3>1, <3>2, <3>3
  <2> QED BY <2>2, <2>4, <2>5
<1>3. Below(t, p) \subseteq Paths
  BY <1>1 DEF Below
<1> QED BY <1>2, <1>3 DEF HasChildren

LEMMA ClosedKept ==
  ASSUME NEW t \in Trees, Closed(t)
  PROVE  /\ \A D : (\A q \in D : Above(q) \subseteq D) => Closed(MakeDirs(t, D))
         /\ \A p \in Paths : t[p] # Dir => ~HasChildren(t, p)
         /\ \A p \in Paths : \A v : ~HasChildren(t, p) /\ (v = None \/ \A q \in Above(p) : t[q] = Dir) =>
              Closed([t EXCEPT ![p] = v])
         /\ \A p \in Paths : Closed(Drop(t, p))
<1>1. DOMAIN t = Paths
  BY DEF Trees
<1>2. \A q \in Paths : Above(q) \subseteq Paths
  BY PathsAbove
<1>3. ASSUME NEW D, \A q \in D : Above(q) \subseteq D PROVE Closed(MakeDirs(t, D))
  <2> SUFFICES ASSUME NEW q \in Paths, MakeDirs(t, D)[q] # None, NEW p \in Above(q)
               PROVE  MakeDirs(t, D)[p] = Dir
    BY DEF Closed
  <2>1. p \in Paths
    BY <1>2
  <2>2. CASE q \in D
    BY <1>1, <1>3, <2>1, <2>2 DEF MakeDirs
  <2>3. CASE q \notin D
    BY <1>1, <2>1, <2>3 DEF MakeDirs, Closed
  <2> QED BY <2>2, <2>3
<1>4. ASSUME NEW p \in Paths, t[p] # Dir PROVE ~HasChildren(t, p)
  BY <1>4, BelowAbove DEF Closed
<1>5. ASSUME NEW p \in Paths, NEW v, ~HasChildren(t, p), v = None \/ \A q \in Above(p) : t[q] = Dir
      PROVE  Closed([t EXCEPT ![p] = v])
  <2> SUFFICES ASSUME NEW q \in Paths, [t EXCEPT ![p] = v][q] # None, NEW s \in Above(q)
               PROVE  [t EXCEPT ![p] = v][s] = Dir
    BY DEF Closed
  <2>1. s \in Paths /\ q \notin Above(q)
    BY <1>2, PathsAbove
  <2>2. CASE q = p
    BY <1>1, <1>5, <2>1, <2>2
  <2>3. CASE q # p
    <3>1. t[q] # None
      BY <1>1, <2>3
    <3>2. s # p
      BY <1>5, <3>1, BelowAbove
    <3> QED BY <1>1, <2>1, <3>1, <3>2 DEF Closed
  <2> QED BY <2>2, <2>3
<1>6. ASSUME NEW p \in Paths PROVE Closed(Drop(t, p))
  <2> SUFFICES ASSUME NEW q \in Paths, Drop(t, p)[q] # None, NEW s \in Above(q)
               PROVE  Drop(t, p)[s] = Dir
    BY DEF Closed
  <2>1. s \in Paths /\ Above(s) \subseteq Above(q)
    BY AboveAbove
  <2>2. t[q] # None /\ q \notin {p} \cup Below(t, p)
    BY <1>1 DEF Drop
  <2>3. p \notin Above(q)
    BY <2>2, BelowAbove
  <2>4. s \notin {p} \cup Below(t, p)
    BY <2>1, <2>3, BelowAbove
  <2> QED BY <1>1, <2>1, <2>2, <2>4 DEF Drop, Closed
<1> QED BY <1>3, <1>4, <1>5, <1>6

LEMMA ClosedByAdding ==
  ASSUME NEW t \in Trees, Closed(t), NEW p \in Paths
  PROVE  /\ Closed(AddDirTo(t, p)) /\ \A s \in AddDirStops(t, p) : Closed(s)
         /\ CanReplace(t, p) => \A v : /\ Closed(AddFileTo(t, p, v))
                                       /\ \A s \in AddFileStops(t, p, v) : Closed(s)
<1> DEFINE a == SubSeq(p, 1, Len(p) - 1)
           over == Above(p) \cup {p}
           dirs(b, k) == {SubSeq(b, 1, j) : j \in 1 .. k}
<1>1. /\ Above(p) = dirs(p, Len(p) - 1) /\ over = dirs(p, Len(p)) /\ Above(p) = dirs(a, Len(a))
      /\ Above(p) \subseteq Paths /\ p \notin Above(p) /\ \A q \in over : Above(q) \subseteq Above(p)
  BY PathsAbove, AboveAbove
<1>2. p \in Seq(Names) /\ a \in Seq(Names) /\ Len(p) \in Nat /\ Len(a) \in Nat
  <2>1. p \in Seq(Names) /\ Len(p) - 1 \in 0 .. Len(p) /\ Len(p) \in Nat
    BY PathSets, DepthAssumption
  <2> DEFINE k == Len(p) - 1
  <2>2. k \in 0 .. Len(p)
    BY <2>1
  <2> HIDE DEF k
  <2>3. SubSeq(p, 1, k) \in Seq(Names)
    BY <2>1, <2>2, PrefixFacts
  <2> QED BY <2>1, <2>3, LenProperties DEF k
<1> HIDE DEF a

(* The directories made are closed upwards, as far as it gets.                    *)
<1>3. ASSUME NEW b \in Seq(Names), Len(b) \in Nat, dirs(b, Len(b)) \subseteq Paths, NEW k \in 0 .. Len(b)
      PROVE  /\ \A q \in dirs(b, k) : Above(q) \subseteq dirs(b, k)
             /\ k # 0 => SubSeq(b, 1, k) \in Paths \ dirs(b, k - 1)
  <2>1. \A j \in 1 .. k : /\ j \in 1 .. Len(b) /\ j \in 0 .. Len(b)
    BY <1>3
  <2>2. \A j \in 1 .. k : SubSeq(b, 1, j) \in Paths /\ SubSeq(b, 1, j) \in Seq(Names) /\ Len(SubSeq(b, 1, j)) = j
    BY <1>3, <2>1, PrefixFacts
  <2>3. ASSUME NEW q \in dirs(b, k), NEW s \in Above(q) PROVE s \in dirs(b, k)
    <3>1. PICK j \in 1 .. k : q = SubSeq(b, 1, j)
      OBVIOUS
    <3> HIDE DEF dirs
    <3>2. q \in Seq(Names) /\ Len(q) = j
      BY <2>2, <3>1
    <3>3. PICK i \in 1 .. j - 1 : s = SubSeq(q, 1, i)
      BY <3>2 DEF Above
    <3>4. i \in 1 .. k /\ i \in 0 .. Len(q) /\ i \in 0 .. Len(b) /\ \A l \in 1 .. i : l \in 1 .. j
      BY <1>3, <3>2
    <3>5. /\ SubSeq(q, 1, i) \in Seq(Names) /\ Len(SubSeq(q, 1, i)) = i
          /\ \A l \in 1 .. i : SubSeq(q, 1, i)[l] = q[l]
      BY <3>2, <3>4, PrefixFacts
    <3>6. /\ SubSeq(b, 1, i) \in Seq(Names) /\ Len(SubSeq(b, 1, i)) = i
          /\ \A l \in 1 .. i : SubSeq(b, 1, i)[l] = b[l]
      BY <3>4, PrefixFacts
    <3>7. \A l \in 1 .. j : q[l] = b[l]
      <4>1. j \in 0 .. Len(b)
        BY <2>1
      <4> QED BY <3>1, <4>1, PrefixFacts
    <3> DEFINE c == SubSeq(q, 1, i)
               d == SubSeq(b, 1, i)
    <3>8. c \in Seq(Names) /\ d \in Seq(Names) /\ Len(c) = Len(d) /\ \A l \in 1 .. Len(c) : c[l] = d[l]
      BY <3>4, <3>5, <3>6, <3>7
    <3> HIDE DEF c, d
    <3>9. c = d
      BY <3>8, SeqEqual
    <3> QED BY <3>3, <3>4, <3>9 DEF c, d, dirs
  <2>4. ASSUME k # 0 PROVE SubSeq(b, 1, k) \in Paths \ dirs(b, k - 1)
    <3>1. k \in 1 .. k /\ \A j \in 1 .. k - 1 : j \in 1 .. k /\ j # k
      BY <2>4
    <3> QED BY <2>2, <3>1
  <2> QED BY <2>3, <2>4
<1>4. ASSUME NEW f \in Trees, Closed(f), NEW b \in Seq(Names), Len(b) \in Nat, dirs(b, Len(b)) \subseteq Paths
      PROVE  \A s \in AddDirStops(f, b) : Closed(s)
  <2> TAKE s \in AddDirStops(f, b)
  <2>1. \/ \E k \in 0 .. Len(b) : s = MakeDirs(f, dirs(b, k))
        \/ \E k \in 1 .. Len(b) : /\ f[SubSeq(b, 1, k)] # Dir
                                  /\ s = [MakeDirs(f, dirs(b, k - 1)) EXCEPT ![SubSeq(b, 1, k)] = None]
    BY DEF AddDirStops
  <2>2. \A k \in 0 .. Len(b) : /\ \A q \in dirs(b, k) : Above(q) \subseteq dirs(b, k)
                               /\ k # 0 => SubSeq(b, 1, k) \in Paths \ dirs(b, k - 1)
    BY <1>3, <1>4
  <2> HIDE DEF dirs
  <2>3. \A k \in 0 .. Len(b) : Closed(MakeDirs(f, dirs(b, k))) /\ MakeDirs(f, dirs(b, k)) \in Trees
    BY <1>4, <2>2, ClosedKept, TreeTypes
  <2>4. ASSUME NEW k \in 1 .. Len(b), f[SubSeq(b, 1, k)] # Dir,
               s = [MakeDirs(f, dirs(b, k - 1)) EXCEPT ![SubSeq(b, 1, k)] = None]
        PROVE  Closed(s)
    <3> DEFINE q == SubSeq(b, 1, k)
               g == MakeDirs(f, dirs(b, k - 1))
    <3>1. k - 1 \in 0 .. Len(b) /\ k \in 0 .. Len(b) /\ k # 0
      BY <1>4
    <3>2. q \in Paths \ dirs(b, k - 1) /\ Closed(g) /\ g \in Trees
      BY <2>2, <2>3, <3>1
    <3>3. g[q] # Dir
      BY <2>4, <3>2 DEF MakeDirs, Trees
    <3>4. s = [g EXCEPT ![q] = None]
      BY <2>4
    <3> HIDE DEF q, g
    <3>5. ~HasChildren(g, q)
      BY <3>2, <3>3, ClosedKept
    <3> QED BY <3>2, <3>4, <3>5, ClosedKept
  <2> QED BY <2>1, <2>3, <2>4
<1>5. Closed(AddDirTo(t, p))
  <2>1. \A q \in over : Above(q) \subseteq over
    BY <1>1
  <2> QED BY <2>1, ClosedKept DEF AddDirTo
<1>6. \A s \in AddDirStops(t, p) : Closed(s)
  <2>1. dirs(p, Len(p)) \subseteq Paths
    BY <1>1
  <2> HIDE DEF dirs
  <2> QED BY <1>2, <1>4, <2>1
<1>7. ASSUME CanReplace(t, p)
      PROVE  \A v : Closed(AddFileTo(t, p, v)) /\ \A s \in AddFileStops(t, p, v) : Closed(s)
  <2> TAKE v
  <2> DEFINE g == MakeDirs(t, Above(p))
             h == [t EXCEPT ![p] = None]
  <2>1. g \in Trees /\ h \in Trees /\ ~HasChildren(t, p)
    BY <1>7, TreeTypes DEF CanReplace
  <2>2. Closed(g) /\ Closed(h)
    BY <1>1, <2>1, ClosedKept
  <2>3. \A q \in Above(p) : g[q] = Dir
    BY <1>1 DEF MakeDirs, Trees
  <2>4. ~HasChildren(g, p)
    <3> SUFFICES ASSUME NEW q \in Paths, p \in Above(q), g[q] # None PROVE FALSE
      BY <2>1, BelowAbove
    <3>1. q \notin Above(p)
      <4> SUFFICES ASSUME q \in Above(p) PROVE FALSE
        OBVIOUS
      <4>1. p \in Above(p)
        BY AboveAbove
      <4> QED BY <1>1, <4>1
    <3>2. t[q] # None
      BY <3>1 DEF MakeDirs, Trees
    <3> QED BY <2>1, <3>2, BelowAbove
  <2> HIDE DEF g, h
  <2>5. Closed([g EXCEPT ![p] = v])
    BY <2>1, <2>2, <2>3, <2>4, ClosedKept
  <2>6. Closed(AddFileTo(t, p, v))
    BY <2>5 DEF AddFileTo, g
  <2>7. \A s \in AddDirStops(t, a) \cup AddDirStops(h, a) : Closed(s)
    <3>1. dirs(a, Len(a)) \subseteq Paths
      BY <1>1
    <3> HIDE DEF dirs
    <3> QED BY <1>2, <1>4, <2>1, <2>2, <3>1
  <2>8. AddFileStops(t, p, v) = {AddFileTo(t, p, v)} \cup AddDirStops(t, a) \cup AddDirStops(h, a)
    BY DEF AddFileStops, a, h
  <2> QED BY <2>6, <2>7, <2>8
<1> QED BY <1>5, <1>6, <1>7

LEMMA ClosedByDeleting ==
  ASSUME NEW t \in Trees, Closed(t), NEW p \in Paths
  PROVE  /\ CanDelDir(t, p) => ~HasChildren(t, p)
         /\ CanDelDir(t, p) => Closed(DelDirFrom(t, p))
         /\ Closed(DelFileFrom(t, p))
<1>1. CanDelDir(t, p) => ~HasChildren(t, p)
  BY ClosedKept DEF CanDelDir
<1>2. ~HasChildren(t, p) => Closed([t EXCEPT ![p] = None])
  BY ClosedKept
<1> QED BY <1>1, <1>2 DEF DelDirFrom, DelFileFrom

LEMMA RemoteClosed ==
  ASSUME Types, NEW P, Now(P), Next, Closed(cur)
  PROVE  Closed(cur')
<1>1. cur \in Trees /\ (pc \in Busy => act.path \in Paths)
  BY Acting DEF Types, Trees
<1>2. CASE UNCHANGED remote
  BY <1>2 DEF remote
<1>3. CASE PutHist \/ PutHistFails
  <2>1. act.path \in Paths
    BY <1>1, <1>3 DEF PutHist, PutHistFails, Busy
  <2>2. cur' = cur \/ cur' = Drop(cur, act.path)
    BY <1>3 DEF PutHist, PutHistFails, PutHistStops
  <2> QED BY <1>1, <2>1, <2>2, ClosedKept
<1>4. CASE Upload \/ UploadFails \/ MkDir \/ MkDirFails
  <2>1. act.path \in Paths
    BY <1>1, <1>4 DEF Upload, UploadFails, MkDir, MkDirFails, Busy
  <2> DEFINE v == local[act.path]
  <2>2. /\ Closed(AddDirTo(cur, act.path))
        /\ \A s \in AddDirStops(cur, act.path) : Closed(s)
        /\ CanReplace(cur, act.path) =>
             /\ Closed(AddFileTo(cur, act.path, v))
             /\ \A s \in AddFileStops(cur, act.path, v) : Closed(s)
    BY <1>1, <2>1, ClosedByAdding
  <2>3. Upload => cur' = cur \/ Closed(cur')
    BY <2>2 DEF Upload
  <2>4. UploadFails => cur' = cur \/ Closed(cur')
    BY <2>2 DEF UploadFails
  <2>5. MkDir \/ MkDirFails => Closed(cur')
    BY <2>2 DEF MkDir, MkDirFails
  <2> QED BY <1>4, <2>3, <2>4, <2>5
<1>5. CASE DeleteRemote \/ DeleteFails
  <2>1. pc = "unlink"
    BY <1>5 DEF DeleteRemote, DeleteFails
  <2>2. Leaf.path \in Paths
    <3>1. Deleting
      BY <1>1, <2>1, ActFacts DEF Busy
    <3>2. PICK r, u : DeleteFacts(P, r, u)
      BY <2>1, <3>1, DeleteKnows DEF Busy
    <3> QED BY <3>2, LeafBelow
  <2>3. /\ CanDelDir(cur, Leaf.path) => Closed(DelDirFrom(cur, Leaf.path))
        /\ Closed(DelFileFrom(cur, Leaf.path))
    BY <1>1, <2>2, ClosedByDeleting
  <2>4. cur' = cur \/ Closed(cur')
    BY <1>1, <1>5, <2>1, <2>3, ChangesAt DEF CanDelete
  <2> QED BY <2>4
<1> QED BY <1>2, <1>3, <1>4, <1>5, RemoteChanges

(* A directory that the registry has on record and does not ignore.              *)
Marked(R, p) == At(R, p) \in Dirs(R) /\ ~R[At(R, p)].isignore

Known(t, R) == \A q \in Paths : t[q] # None => \A p \in Above(q) : Marked(R, p)

(* What delDir is about to forget is empty on the remote as well.                *)
LeafEmpty == pc = "forget" /\ recs[Leaf.id].isdir => ~HasChildren(cur, Leaf.path)

RemoteKnown == Closed(cur) /\ Known(cur, recs) /\ LeafEmpty

LEMMA MarkedIs == \A p : Marked(recs, p) <=> RecordAt(p) \in Dirs(recs) /\ ~recs[RecordAt(p)].isignore
BY RecordAtIsAt DEF Marked

LEMMA MarkedStays ==
  ASSUME NEW R, NEW P, Forest(R, P), NEW S, NEW Q, Forest(S, Q), SameInUse(R, S), NEW p \in AnyPath,
         Marked(R, p), At(R, p) \in Active(S), Q[At(R, p)] = P[At(R, p)]
  PROVE  Marked(S, p)
<1> DEFINE d == At(R, p)
<1>1. d \in Active(R) /\ R[d].isdir /\ ~R[d].isignore /\ d \in Active(S)
  BY DEF Marked, Dirs
<1>2. d # 0
  BY <1>1 DEF Forest, Placed
<1>3. P[d] = p
  BY <1>2, AtFinds
<1> HIDE DEF d
<1>4. Q[d] = p
  BY <1>3 DEF d
<1>5. At(S, p) = d
  BY <1>1, <1>4, AtFinds
<1>6. S[d].isdir /\ ~S[d].isignore
  BY <1>1 DEF SameInUse
<1> QED BY <1>1, <1>5, <1>6 DEF Marked, Dirs

LEMMA KnownWhileSame ==
  ASSUME Types, NEW P, Now(P), Next, UNCHANGED recs, Known(cur, recs)
  PROVE  Known(cur', recs')
<1>1. cur \in Trees /\ DOMAIN cur = Paths
  BY DEF Types, Trees
<1> SUFFICES ASSUME NEW q \in Paths, cur'[q] # None, NEW p \in Above(q)
             PROVE  Marked(recs, p)
  BY DEF Known
<1>2. CASE cur[q] # None
  BY <1>2 DEF Known
<1>3. CASE cur[q] = None
  <2>1. \A a : Drop(cur, a)[q] = None /\ DelDirFrom(cur, a)[q] = None /\ DelFileFrom(cur, a)[q] = None
    BY <1>1, <1>3 DEF Drop, DelDirFrom, DelFileFrom
  <2>2. pc \in {"upload", "mkdir"} /\ Within(cur, cur', Above(act.path) \cup {act.path})
    BY <1>3, <2>1, ChangesAt, SMTT(60)
  <2>3. q \in Above(act.path) \cup {act.path}
    BY <1>3, <2>2 DEF Within
  <2>4. act.path \in Paths /\ \A s \in Above(act.path) : Marked(recs, s)
    BY <2>2, AddsFind, MarkedIs
  <2>5. Above(q) \subseteq Above(act.path)
    BY <2>3, <2>4, AboveAbove
  <2> QED BY <2>4, <2>5
<1> QED BY <1>2, <1>3

LEMMA LeafStays ==
  ASSUME UNCHANGED <<recs, act>>
  PROVE  Leaf' = Leaf
<1>1. RecordAt(act.path)' = RecordAt(act.path)
  BY RecordAtStays
<1> QED BY <1>1 DEF Leaf, NameOf

LEMMA KnownByRecord ==
  ASSUME Types, NEW P, Now(P), Record, Known(cur, recs)
  PROVE  Known(cur', recs')
<1>1. pc = "record" /\ cur' = cur
  BY DEF Record, remote
<1>2. ~Deleting
  BY <1>1, ActFacts DEF Busy
<1>3. PICK n : ChangeFacts(P, n)
  BY <1>1, <1>2, ChangeKnows DEF Busy
<1>4. /\ Forest(recs, P) /\ Recycled(recs, nrec) /\ Top.rid \in Dirs(recs) /\ ~recs[Top.rid].isignore
      /\ Len(P[Top.rid]) < Depth /\ n \in Names /\ act.path[Len(act.path)] = n
  BY <1>3 DEF ChangeFacts
<1> DEFINE found == FindRecord(recs, NamesNow, Top.rid, n)
<1>5. Found(recs, Kids(recs, P, Top.rid), Top.rid, n, found)
  BY <1>3, LookupFinds
<1>6. IF found.type = "FR_MATCH"
      THEN recs' = [recs EXCEPT ![found.id] = Recorded(@)] /\ nrec' = nrec
      ELSE RecordNew(Top.rid, found.id)
  BY <1>3 DEF Record, ChangeFacts
<1> HIDE DEF found
<1> SUFFICES ASSUME NEW p \in Paths, Marked(recs, p) PROVE Marked(recs', p)
  <2>1. \A q \in Paths : Above(q) \subseteq Paths
    BY PathsAbove
  <2> QED BY <1>1, <2>1 DEF Known
<1>7. p \in AnyPath /\ At(recs, p) \in Active(recs)
  BY DEF AnyPath, Marked, Dirs
<1>8. CASE found.type = "FR_MATCH"
  <2> DEFINE S == [recs EXCEPT ![found.id] = Recorded(@)]
  <2>1. found.id \in Active(recs) /\ P[found.id] = act.path /\ found.id \in Ids
    <3>1. found.id \in Kids(recs, P, Top.rid) /\ recs[found.id].name = n
      BY <1>5, <1>8 DEF Found
    <3> QED BY <1>3, <1>4, <3>1, KidFacts DEF ChangeFacts
  <2>2. recs \in [Ids -> RecordItem] /\ recs[found.id] \in RecordItem
    BY <1>4, <2>1 DEF Forest
  <2>3. RecordedIs(recs[found.id], Recorded(recs[found.id]))
    BY <2>2, RecordedFacts
  <2>4. S \in [Ids -> RecordItem] /\ \A q \in Ids : S[q] = IF q = found.id THEN Recorded(recs[found.id]) ELSE recs[q]
    BY <2>1, <2>2, <2>3 DEF RecordedIs
  <2>5. recs' = S
    BY <1>6, <1>8
  <2> HIDE DEF S
  <2>6. ~recs[found.id].isdir
    <3>1. PICK q \in Active(recs) : P[q] = act.path /\ ~recs[q].isdir
      <4>1. act.type = "MODFILE"
        BY <1>3, <2>1 DEF ChangeFacts
      <4> QED BY <1>3, <4>1 DEF ChangeFacts
    <3> QED BY <1>4, <2>1, <3>1 DEF Forest, Placed
  <2>7. SameLinks(recs, S)
    BY <2>3, <2>4, <2>6 DEF SameLinks, RecordedIs
  <2>8. Forest(S, P) /\ Active(S) = Active(recs)
    BY <1>4, <2>4, <2>7, SameForest
  <2>9. SameInUse(recs, S)
    BY <2>7 DEF SameInUse, SameLinks, Active
  <2> QED BY <1>4, <1>7, <2>5, <2>8, <2>9, MarkedStays
<1>9. CASE found.type # "FR_MATCH"
  <2>1. /\ NewRecord \in RecordItem /\ NewRecord.isactive /\ NewRecord.name = n
        /\ NewRecord.isdir => NewRecord.sub = 0
    BY <1>4, NewRecordIs
  <2>2. PICK rid \in {NewId(recs, nrec)} \cap Ids :
          recs' = LinkRecord(AllocRec(recs, rid, NewRecord), Top.rid, found.id, rid)
    BY <1>6, <1>9 DEF RecordNew, NewRecord
  <2> DEFINE S == LinkRecord(AllocRec(recs, rid, NewRecord), Top.rid, found.id, rid)
             Q == Extended(recs, P, rid, Append(P[Top.rid], NewRecord.name))
  <2>3. Allocated(recs, P, nrec, rid, NewRecord, Append(P[Top.rid], NewRecord.name), S)
    <3>1. Found(recs, Kids(recs, P, Top.rid), Top.rid, NewRecord.name, found)
      BY <1>5, <2>1
    <3>2. NewRecord.name \in Names
      BY <1>4, <2>1
    <3> QED BY <1>4, <1>9, <2>1, <3>1, <3>2, AllocForest
  <2>4. recs' = S
    BY <2>2
  <2> HIDE DEF S
  <2>5. rid \notin Active(recs) /\ Active(S) = Active(recs) \cup {rid} /\ Forest(S, Q) /\ SameInUse(recs, S)
    BY <2>3 DEF Allocated
  <2>6. Q[At(recs, p)] = P[At(recs, p)]
    BY <1>7, <2>5 DEF Extended
  <2> HIDE DEF Q
  <2> QED BY <1>4, <1>7, <2>4, <2>5, <2>6, MarkedStays
<1> QED BY <1>8, <1>9

LEMMA KnownByForget ==
  ASSUME Types, NEW P, Now(P), Forget, RemoteKnown
  PROVE  Known(cur', recs')
<1>1. pc = "forget" /\ cur' = cur
  BY DEF Forget, remote
<1>2. Deleting
  BY <1>1, ActFacts DEF Busy
<1>3. PICK r, u : DeleteFacts(P, r, u)
  BY <1>1, <1>2, DeleteKnows DEF Busy
<1> DEFINE leaf == Leaf.id
<1>4. /\ Forest(recs, P) /\ Recycled(recs, nrec)
      /\ u \in Dirs(recs) /\ leaf \in Kids(recs, P, u) /\ RecordAt(Parent(Leaf.path)) = u
      /\ recs[leaf].isdir => Kids(recs, P, leaf) = {}
  BY <1>3 DEF DeleteFacts, LeafIs
<1>5. leaf \in Active(recs) /\ Leaf.path = P[leaf] /\ Leaf.path \in Paths
  BY <1>3, LeafBelow
<1>6. PICK pre, rpre \in Ids :
        /\ IsLinkTo(recs, leaf, u, pre) /\ IsRecyclePre(recs, leaf, rpre)
        /\ recs' = RecycleRec(UnlinkRecord(recs, u, pre, leaf), rpre, leaf)
  BY <1>4 DEF Forget
<1> DEFINE S == RecycleRec(UnlinkRecord(recs, u, pre, leaf), rpre, leaf)
           Q == Without(recs, P, leaf)
<1> HIDE DEF leaf
<1>7. Freed(recs, P, nrec, leaf, S)
  BY <1>4, <1>6, RecycleForest
<1>8. recs' = S
  BY <1>6
<1> HIDE DEF S
<1>9. Active(S) = Active(recs) \ {leaf} /\ Forest(S, Q) /\ SameInUse(recs, S)
  BY <1>7 DEF Freed
<1>10. \A q \in Active(S) : Q[q] = P[q]
  BY <1>9 DEF Without
<1> HIDE DEF Q
<1> SUFFICES ASSUME NEW q \in Paths, cur[q] # None, NEW p \in Above(q) PROVE Marked(recs', p)
  BY <1>1 DEF Known
<1>11. Marked(recs, p) /\ p \in Paths /\ p \in AnyPath
  BY PathsAbove DEF RemoteKnown, Known, AnyPath
<1> DEFINE d == At(recs, p)
<1>12. d \in Dirs(recs) /\ d \in Active(recs) /\ P[d] = p
  <2>1. d \in Dirs(recs) /\ d \in Active(recs) /\ d # 0
    BY <1>4, <1>11 DEF Marked, Dirs, Forest, Placed
  <2> QED BY <1>4, <1>11, <2>1, AtFinds
<1>13. d # leaf
  <2> SUFFICES ASSUME d = leaf PROVE FALSE
    OBVIOUS
  <2>1. recs[leaf].isdir /\ Leaf.path = p
    BY <1>5, <1>12 DEF Dirs
  <2>2. ~HasChildren(cur, Leaf.path)
    BY <1>1, <2>1 DEF RemoteKnown, LeafEmpty, leaf
  <2>3. cur \in Trees
    BY DEF Types, Trees
  <2> QED BY <1>11, <2>1, <2>2, <2>3, BelowAbove
<1>14. d \in Active(S) /\ Q[d] = P[d]
  BY <1>9, <1>10, <1>12, <1>13
<1> QED BY <1>4, <1>8, <1>9, <1>11, <1>14, MarkedStays

LEMMA LeafEmptied ==
  ASSUME Types, NEW P, Now(P), KeptBefore, RemoteKnown, SkipRemote \/ DeleteRemote
  PROVE  LeafEmpty'
<1>1. pc = "unlink" /\ recs' = recs /\ act' = act
  BY DEF SkipRemote, DeleteRemote, Goto, registry
<1>2. Leaf' = Leaf
  BY <1>1, LeafStays
<1>3. Deleting
  BY <1>1, ActFacts DEF Busy
<1>4. PICK r, u : DeleteFacts(P, r, u)
  BY <1>1, <1>3, DeleteKnows DEF Busy
<1>5. cur \in Trees /\ DOMAIN cur = Paths /\ act.path \in Paths
  BY <1>4 DEF Types, Trees, DeleteFacts
<1>6. /\ Leaf.id \in Active(recs) /\ Leaf.path = P[Leaf.id] /\ Leaf.path \in Paths
      /\ Leaf.path \in {act.path} \cup Below(cur, act.path)
  BY <1>4, <1>5, LeafBelow
<1> DEFINE leaf == Leaf.id
           a == Leaf.path
<1>7. Forest(recs, P) /\ RecordAt(a) = leaf
  <2>1. Forest(recs, P)
    BY <1>4 DEF DeleteFacts
  <2> QED BY <1>6, <2>1, RecordAtFinds DEF AnyPath
<1>8. HasChildren(cur, a) => ~recs[leaf].isignore
  <2> SUFFICES ASSUME NEW q \in Paths, a \in Above(q), cur[q] # None PROVE ~recs[leaf].isignore
    BY <1>5, <1>6, BelowAbove
  <2>1. Marked(recs, a)
    BY DEF RemoteKnown, Known
  <2> QED BY <1>7, <2>1, MarkedIs
<1>9. act.keephist => ~HasChildren(cur, a)
  <2> SUFFICES ASSUME act.keephist, NEW q \in Paths, a \in Above(q), cur[q] # None PROVE FALSE
    BY <1>5, <1>6, BelowAbove
  <2>1. act.path \in Above(q)
    <3>1. a = act.path \/ act.path \in Above(a)
      BY <1>5, <1>6, BelowAbove
    <3> QED BY <3>1, AboveAbove
  <2>2. q \in Below(cur, act.path)
    BY <1>5, <2>1, BelowAbove
  <2> QED BY <1>1, <2>2 DEF KeptBefore
<1> HIDE DEF leaf, a
<1>10. CASE SkipRemote
  <2>1. recs[leaf].isignore \/ act.keephist
    BY <1>10 DEF SkipRemote, LocalOnly, leaf
  <2>2. ~HasChildren(cur, a)
    BY <1>8, <1>9, <2>1
  <2>3. cur' = cur
    BY <1>10 DEF SkipRemote, remote
  <2> QED BY <1>2, <2>2, <2>3 DEF LeafEmpty, a
<1>11. CASE DeleteRemote
  <2> SUFFICES ASSUME recs[leaf].isdir PROVE ~HasChildren(cur', a)
    BY <1>1, <1>2 DEF LeafEmpty, leaf, a
  <2>1. CanDelDir(cur, a) /\ cur' = DelDirFrom(cur, a)
    BY <1>11 DEF DeleteRemote, CanDelete, leaf, a
  <2>2. a \in Paths
    BY <1>6 DEF a
  <2>3. ~HasChildren(cur, a)
    BY <1>5, <2>1, <2>2, ClosedByDeleting DEF RemoteKnown
  <2>4. cur' \in Trees /\ Shrinks(cur, cur')
    BY <1>5, <2>1, TreeTypes, Shrinking
  <2>5. \A q \in Paths : cur'[q] # None => cur[q] # None
    BY <1>5, <2>4 DEF Shrinks
  <2> QED BY <1>5, <2>2, <2>3, <2>4, <2>5, BelowAbove
<1> QED BY <1>10, <1>11

LEMMA KnownSteps ==
  ASSUME Inv, KeptBefore, RemoteKnown, ~overlooked', [Next]_vars
  PROVE  RemoteKnown'
<1>1. PICK P : Types /\ Now(P)
  BY DEF Inv, Shape
<1>2. CASE UNCHANGED vars
  <2>1. UNCHANGED <<pc, recs, act, cur>>
    BY <1>2 DEF vars
  <2>2. Leaf' = Leaf
    BY <2>1, LeafStays
  <2> QED BY <2>1, <2>2 DEF RemoteKnown, LeafEmpty
<1>3. CASE Next
  <2>1. Closed(cur')
    BY <1>1, <1>3, RemoteClosed DEF RemoteKnown
  <2>2. Known(cur', recs')
    <3>1. Record \/ Forget \/ recs' = recs
      <4>1. User \/ Start \/ Fails => recs' = recs
        BY DEF User, SaveFile, MakeDir, Delete, ToggleIgnore, Edit, Start, Fails, PutHistFails, UploadLocked,
               UploadFails, MkDirFails, DeleteFails, DelDirMissed, Crash, Fault, registry
      <4>2. RefreshStep => recs' = recs
        BY Zenon DEF RefreshStep, Fallback, CheckStack, InitList, InitGone, ProposeDel, RemoveDone, ProposeAdd,
               ProposeMod, Propose, NewDone, Recur, RedoUpper, Return, Finish, StackOnly, registry
      <4>3. ReadAttr \/ PutHist \/ Upload \/ UploadGone \/ MkDir \/ SkipRemote \/ DeleteRemote \/ DeleteRefused =>
              recs' = recs
        BY DEF ReadAttr, PutHist, Upload, UploadGone, MkDir, SkipRemote, DeleteRemote, DeleteRefused, registry
      <4> QED BY <1>3, <4>1, <4>2, <4>3 DEF Next, Program, Perform
    <3>2. CASE recs' = recs
      BY <1>1, <1>3, <3>2, KnownWhileSame DEF RemoteKnown
    <3> QED BY <1>1, <3>1, <3>2, KnownByRecord, KnownByForget DEF RemoteKnown
  <2>3. LeafEmpty'
    <3>1. CASE User
      <4>1. UNCHANGED <<pc, recs, act, cur>>
        BY <3>1 DEF User, SaveFile, MakeDir, Delete, ToggleIgnore, Edit, registry, remote
      <4>2. Leaf' = Leaf
        BY <4>1, LeafStays
      <4> QED BY <4>1, <4>2 DEF RemoteKnown, LeafEmpty
    <3>2. CASE SkipRemote \/ DeleteRemote
      BY <1>1, <3>2, LeafEmptied
    <3>3. User \/ SkipRemote \/ DeleteRemote \/ pc' # "forget"
      <4>1. RefreshStep \/ Start => pc' # "forget"
        BY Zenon DEF Start, RefreshStep, Fallback, CheckStack, InitList, InitGone, ProposeDel, RemoveDone, ProposeAdd,
               ProposeMod, Propose, NewDone, Recur, RedoUpper, Return, Finish, RecordFail, InStage
      <4>2. ReadAttr \/ PutHist \/ Upload \/ UploadGone \/ MkDir \/ Record \/ DeleteRefused \/ Forget => pc' # "forget"
        BY DEF ReadAttr, PutHist, Upload, UploadGone, MkDir, Record, DeleteRefused, Forget, Goto, EndRun
      <4>3. Fails => pc' # "forget"
        BY DEF Fails, PutHistFails, UploadLocked, UploadFails, MkDirFails, DeleteFails, DelDirMissed, Crash, EndRun
      <4> QED BY <1>3, <4>1, <4>2, <4>3 DEF Next, Program, Perform
    <3>4. pc' # "forget" => LeafEmpty'
      BY DEF LeafEmpty
    <3> QED BY <3>1, <3>2, <3>3, <3>4
  <2> QED BY <2>1, <2>2, <2>3 DEF RemoteKnown
<1> QED BY <1>2, <1>3

KnownUnlessMissed == ~overlooked => RemoteKnown

(* An upload meets a directory with contents in its place only after             *)
(* remote->delDir took a directory it could not open for one that is gone:         *)
(* otherwise what is deleted goes bottom up, and on the remote before it does in   *)
(* the registry, so a directory that is no longer recorded has nothing in it.     *)
THEOREM RoomIsMade == Spec => []UploadsFindRoom
<1>1. Init => KnownUnlessMissed
  BY DEF Init, KnownUnlessMissed, RemoteKnown, Closed, Known, LeafEmpty
<1>2. ASSUME Inv, KeptBefore, KnownUnlessMissed, [Next]_vars PROVE KnownUnlessMissed'
  <2>1. ~overlooked' => ~overlooked
    BY <1>2, MissedStays
  <2> QED BY <1>2, <2>1, KnownSteps DEF KnownUnlessMissed
<1>3. ASSUME Inv, KnownUnlessMissed PROVE UploadsFindRoom
  <2> SUFFICES ASSUME RemoteKnown, pc = "upload", HasChildren(cur, act.path) PROVE FALSE
    BY <1>3 DEF UploadsFindRoom, KnownUnlessMissed, CanReplace
  <2>1. PICK P : Types /\ Now(P)
    BY <1>3 DEF Inv, Shape
  <2>2. act.path \in Paths /\ RecordAt(act.path) \notin Dirs(recs)
    <3>1. Forest(recs, P)
      BY <2>1, Acting DEF Busy
    <3>2. 0 \notin Dirs(recs)
      BY <3>1 DEF Forest, Placed, Dirs
    <3> QED BY <2>1, <3>2, AddsFind
  <2>3. cur \in Trees
    BY <2>1 DEF Types, Trees
  <2>4. PICK q \in Paths : act.path \in Above(q) /\ cur[q] # None
    BY <2>2, <2>3, BelowAbove
  <2>5. Marked(recs, act.path)
    BY <2>4 DEF RemoteKnown, Known
  <2> QED BY <2>2, <2>5, MarkedIs
<1> QED BY <1>1, <1>2, <1>3, KeptAlways, Invariance, PTL DEF Spec

-----------------------------------------------------------------------------
(***************************************************************************)
(* RunsBackUp: versions, and what the registry can tell of them.             *)
(***************************************************************************)
(* When the registry takes two attributes for different ones.                    *)
Unlike(a, b) == a.size # b.size \/ FarApart(a.time, b.time)

(* What RunsBackUp takes from the user and his clock: nobody puts an old version   *)
(* back with its old time, no file is of the first ten seconds of 1970, which the   *)
(* registry takes for the time 0 of a file that is still to be backed up, and of    *)
(* three versions in a row it can tell the last from the first.                    *)
ToldApart ==
  /\ ~Restores
  /\ \A v \in Versions : AttrOf[v].time > 10
  /\ \A u, w \in Versions : w >= u + 2 => Unlike(AttrOf[u], AttrOf[w])

(* Every change of p from version v on has come about by now: version v of p, or     *)
(* a later one, or no file, which takes an edit after v.                          *)
LocalFrom(p, v) == IF IsFile(local[p]) THEN local[p] >= v ELSE v < edits

(* A record of p with attributes a is out of date, and will be found to be.         *)
Stale(p, a) ==
  \/ a.time = 0
  \/ /\ \E u \in Versions : a = AttrOf[u] /\ LocalFrom(p, u)
     /\ IsFile(local[p]) => Unlike(a, AttrOf[local[p]])

(* The remote has the version the record is of, or a later one.                   *)
Sync(p, a) ==
  \E u, v \in Versions : a = AttrOf[u] /\ u <= v /\ IsFile(v) /\ cur[p] = v /\ LocalFrom(p, v)

Backed(p, a) == Stale(p, a) \/ Sync(p, a)

Locals == Closed(local) /\ \A p \in Paths : IsFile(local[p]) => local[p] <= edits

LEMMA VersionFacts ==
  /\ \A v \in Versions : AttrOf[v].time \in Nat /\ ~Unlike(AttrOf[v], AttrOf[v])
  /\ Versions \subseteq Nat
<1>1. Versions \subseteq Nat
  BY BoundsAssumption DEF Versions
<1>2. ASSUME NEW v \in Versions
      PROVE  AttrOf[v].time \in Nat /\ ~Unlike(AttrOf[v], AttrOf[v])
  <2>1. AttrOf[v] \in [time : Nat, size : Nat]
    BY AttrAssumption
  <2> DEFINE t == AttrOf[v].time
  <2>2. t \in Nat
    BY <2>1
  <2> HIDE DEF t
  <2>3. ~FarApart(t, t)
    BY <2>2 DEF FarApart
  <2> QED BY <2>2, <2>3 DEF Unlike, t
<1> QED BY <1>1, <1>2

(* What is told from a version is told from all later ones.                       *)
LEMMA ToldLater ==
  ASSUME ToldApart, NEW u \in Versions, NEW w \in Versions, NEW y \in Versions, u <= w, w <= y,
         Unlike(AttrOf[u], AttrOf[w])
  PROVE  u < w /\ Unlike(AttrOf[u], AttrOf[y])
<1>1. u # w
  BY VersionFacts
<1>2. u \in Nat /\ w \in Nat /\ y \in Nat
  BY VersionFacts
<1>3. u < w /\ (y = w \/ y >= u + 2)
  BY <1>1, <1>2
<1> QED BY <1>3 DEF ToldApart

(* What the user does to a path.                                               *)
Edited(p) ==
  \/ local'[p] = local[p] \/ local'[p] \in {None, Dir}
  \/ local'[p] = edits + 1 /\ edits + 1 \in Versions

LEMMA UserEdits ==
  ASSUME Types, Locals, ToldApart, User
  PROVE  /\ UNCHANGED <<remote, registry, walk, pc, act, faults, done>> /\ quiet' = FALSE
         /\ edits' = edits + 1 /\ edits \in Nat /\ Closed(local') /\ \A p \in Paths : Edited(p)
<1>1. local \in Trees /\ edits \in Nat /\ edits \in 0 .. MaxEdits /\ DOMAIN local = Paths
  BY BoundsAssumption DEF Types, Trees
<1>2. ASSUME Edit
      PROVE  /\ UNCHANGED <<remote, registry, walk, pc, act, faults, done>> /\ quiet' = FALSE
             /\ edits' = edits + 1 /\ edits + 1 \in Versions
  <2>1. edits + 1 \in Versions
    BY <1>1, <1>2, BoundsAssumption DEF Edit, Versions
  <2> QED BY <1>2, <2>1 DEF Edit
<1>3. ASSUME NEW p \in Paths, IsLocalDir(Parent(p))
      PROVE  \A q \in Above(p) : local[q] = Dir
  <2> TAKE q \in Above(p)
  <2>1. PICK k \in 1 .. Len(p) - 1 : q = SubSeq(p, 1, k)
    BY PathsAbove
  <2>2. p \in Seq(Names) /\ Len(p) \in Nat /\ Len(p) <= Depth /\ Len(p) >= 1
    BY PathSets
  <2>3. Parent(p) = SubSeq(p, 1, Len(p) - 1) /\ Len(Parent(p)) = Len(p) - 1 /\ k \in Nat
    BY <2>1, <2>2, PrefixFacts DEF Parent
  <2>4. Parent(p) \in Paths /\ local[Parent(p)] = Dir
    <3>1. Len(Parent(p)) # 0
      BY <2>1, <2>2, <2>3
    <3>2. Parent(p) # <<>>
      BY <3>1
    <3> QED BY <1>3, <3>2 DEF IsLocalDir
  <2>5. CASE q = Parent(p)
    BY <2>4, <2>5
  <2>6. CASE q # Parent(p)
    <3>1. q \in Above(Parent(p))
      <4>1. Above(p) = {SubSeq(SubSeq(p, 1, Len(p) - 1), 1, j) : j \in 1 .. Len(SubSeq(p, 1, Len(p) - 1))}
        BY PathsAbove
      <4>2. PICK j \in 1 .. Len(Parent(p)) : q = SubSeq(Parent(p), 1, j)
        BY <4>1, <2>3
      <4>3. j # Len(Parent(p))
        <5>1. Parent(p) \in Seq(Names)
          BY <2>4, PathSets
        <5>2. SubSeq(Parent(p), 1, Len(Parent(p))) = Parent(p)
          BY <5>1, SubSeqFull
        <5> QED BY <5>2, <4>2, <2>6, Zenon
      <4>4. j \in 1 .. Len(Parent(p)) - 1
        BY <2>2, <2>3, <4>2, <4>3
      <4> QED BY <4>2, <4>4 DEF Above
    <3>2. local[Parent(p)] # None
      BY <2>4, KindsAssumption
    <3> QED BY <2>4, <3>1, <3>2 DEF Locals, Closed
  <2> QED BY <2>5, <2>6
<1>4. CASE \E p \in Paths : SaveFile(p)
  <2>1. PICK p \in Paths : SaveFile(p)
    BY <1>4
  <2>2. PICK v : v = edits + 1 /\ local' = [local EXCEPT ![p] = v]
    <3>1. Restores = FALSE
      BY BoundsAssumption DEF ToldApart
    <3> QED BY <2>1, <3>1 DEF SaveFile
  <2>3. ~HasChildren(local, p)
    BY <1>1, <2>1, ClosedKept DEF SaveFile, Locals
  <2>4. \A q \in Above(p) : local[q] = Dir
    BY <1>3, <2>1 DEF SaveFile
  <2>5. Closed(local')
    BY <1>1, <2>2, <2>3, <2>4, ClosedKept DEF Locals
  <2>6. \A q \in Paths : local'[q] = IF q = p THEN v ELSE local[q]
    BY <1>1, <2>2
  <2> QED BY <1>1, <1>2, <2>1, <2>2, <2>5, <2>6 DEF SaveFile, Edited
<1>5. CASE \E p \in Paths : MakeDir(p)
  <2>1. PICK p \in Paths : MakeDir(p)
    BY <1>5
  <2>2. local' = [local EXCEPT ![p] = Dir] /\ local[p] # Dir
    BY <2>1, KindsAssumption DEF MakeDir
  <2>3. ~HasChildren(local, p)
    BY <1>1, <2>2, ClosedKept DEF Locals
  <2>4. \A q \in Above(p) : local[q] = Dir
    BY <1>3, <2>1 DEF MakeDir
  <2>5. Closed(local')
    BY <1>1, <2>2, <2>3, <2>4, ClosedKept DEF Locals
  <2>6. \A q \in Paths : local'[q] = IF q = p THEN Dir ELSE local[q]
    BY <1>1, <2>2
  <2> QED BY <1>1, <1>2, <2>1, <2>5, <2>6 DEF MakeDir, Edited
<1>6. CASE \E p \in Paths : Delete(p)
  <2>1. PICK p \in Paths : Delete(p)
    BY <1>6
  <2>2. local' = Drop(local, p)
    BY <2>1 DEF Delete
  <2>3. Closed(local')
    BY <1>1, <2>2, ClosedKept DEF Locals
  <2>4. \A q \in Paths : local'[q] = local[q] \/ local'[q] = None
    BY <1>1, <2>2 DEF Drop
  <2> QED BY <1>1, <1>2, <2>1, <2>3, <2>4 DEF Delete, Edited
<1>7. CASE \E p \in Ignorable : ToggleIgnore(p)
  BY <1>1, <1>2, <1>7 DEF ToggleIgnore, Edited, Locals
<1> QED BY <1>4, <1>5, <1>6, <1>7 DEF User

(* The user leaves what is out of date out of date, and what is synced synced or     *)
(* out of date.                                                                *)
LEMMA UserKeeps ==
  ASSUME Types, Locals, ToldApart, User
  PROVE  /\ Locals'
         /\ \A p \in Paths : \A v \in Versions : LocalFrom(p, v) => LocalFrom(p, v)'
         /\ \A p \in Paths : \A a : Stale(p, a) => Stale(p, a)'
         /\ \A p \in Paths : \A a : Sync(p, a) => Sync(p, a)'
<1>1. /\ edits' = edits + 1 /\ edits \in Nat /\ Closed(local') /\ cur' = cur
      /\ \A p \in Paths : Edited(p)
  BY UserEdits DEF remote
<1>2. \A p \in Paths : IsFile(local[p]) => local[p] \in Versions /\ local[p] \in Nat /\ local[p] <= edits
  BY VersionFacts DEF Types, Nodes, IsFile, Locals
<1>3. \A p \in Paths : local'[p] \in {None, Dir} => ~IsFile(local'[p])
  BY DEF IsFile
<1>4. ASSUME NEW p \in Paths
      PROVE  IsFile(local'[p]) =>
               \/ local'[p] = local[p] /\ IsFile(local[p])
               \/ local'[p] = edits + 1 /\ edits + 1 \in Versions
  BY <1>1, <1>3 DEF Edited
<1>5. ASSUME NEW p \in Paths, NEW v \in Versions, LocalFrom(p, v)
      PROVE  v <= edits /\ v \in Nat
  BY <1>1, <1>2, <1>5, VersionFacts DEF LocalFrom
<1>6. Locals'
  <2>1. ASSUME NEW p \in Paths, IsFile(local'[p]) PROVE local'[p] <= edits'
    BY <1>1, <1>2, <1>4, <2>1
  <2>2. Closed(local)'
    BY <1>1 DEF Closed
  <2> QED BY <2>1, <2>2 DEF Locals
<1>7. ASSUME NEW p \in Paths, NEW v \in Versions, LocalFrom(p, v)
      PROVE  LocalFrom(p, v)'
  <2>1. v <= edits /\ v \in Nat
    BY <1>5, <1>7
  <2>2. CASE IsFile(local'[p])
    <3>1. local'[p] >= v
      BY <1>1, <1>2, <1>4, <1>7, <2>1, <2>2 DEF LocalFrom
    <3> QED BY <2>2, <3>1 DEF LocalFrom
  <2>3. CASE ~IsFile(local'[p])
    <3>1. v < edits'
      BY <1>1, <2>1
    <3> QED BY <2>3, <3>1 DEF LocalFrom
  <2> QED BY <2>2, <2>3
<1>8. ASSUME NEW p \in Paths, NEW a, Stale(p, a)
      PROVE  Stale(p, a)'
  <2>1. CASE a.time = 0
    BY <2>1 DEF Stale
  <2>2. CASE a.time # 0
    <3>1. PICK u \in Versions : a = AttrOf[u] /\ LocalFrom(p, u)
      BY <1>8, <2>2 DEF Stale
    <3>2. IsFile(local[p]) => Unlike(a, AttrOf[local[p]])
      BY <1>8, <2>2 DEF Stale
    <3>3. LocalFrom(p, u)' /\ u <= edits /\ u \in Nat
      BY <1>5, <1>7, <3>1
    <3>4. ASSUME IsFile(local'[p]) PROVE Unlike(a, AttrOf[local'[p]])
      <4>1. CASE local'[p] = local[p] /\ IsFile(local[p])
        BY <3>2, <4>1
      <4>2. CASE local'[p] = edits + 1 /\ edits + 1 \in Versions /\ IsFile(local[p])
        <5>1. local[p] \in Versions /\ local[p] \in Nat /\ u <= local[p] /\ local[p] <= edits
          BY <1>2, <3>1, <4>2 DEF LocalFrom
        <5>2. Unlike(AttrOf[u], AttrOf[local[p]])
          BY <3>1, <3>2, <4>2
        <5>3. local[p] <= edits + 1
          BY <1>1, <5>1
        <5> QED BY <3>1, <4>2, <5>1, <5>2, <5>3, ToldLater
      <4>3. CASE local'[p] = edits + 1 /\ edits + 1 \in Versions /\ ~IsFile(local[p])
        <5>1. u < edits
          BY <3>1, <4>3 DEF LocalFrom
        <5>2. edits + 1 >= u + 2
          BY <1>1, <3>3, <5>1
        <5> QED BY <3>1, <4>3, <5>2 DEF ToldApart
      <4> QED BY <1>4, <3>4, <4>1, <4>2, <4>3
    <3> QED BY <3>1, <3>3, <3>4 DEF Stale
  <2> QED BY <2>1, <2>2
<1>9. ASSUME NEW p \in Paths, NEW a, Sync(p, a)
      PROVE  Sync(p, a)'
  BY <1>1, <1>7, <1>9 DEF Sync
<1> QED BY <1>6, <1>7, <1>8, <1>9

(* Nothing but the user changes what these say of a path.                           *)
LEMMA OthersKeep ==
  ASSUME UNCHANGED <<local, edits>>
  PROVE  /\ Locals' <=> Locals
         /\ \A p, v : LocalFrom(p, v)' <=> LocalFrom(p, v)
         /\ \A p, a : Stale(p, a)' <=> Stale(p, a)
         /\ \A p, a : cur'[p] = cur[p] /\ Sync(p, a) => Sync(p, a)'
<1>1. \A p, v : LocalFrom(p, v)' <=> LocalFrom(p, v)
  BY DEF LocalFrom
<1>2. Locals' <=> Locals
  BY DEF Locals, Closed
<1>3. \A p, a : Stale(p, a)' <=> Stale(p, a)
  BY <1>1 DEF Stale
<1>4. \A p, a : cur'[p] = cur[p] /\ Sync(p, a) => Sync(p, a)'
  BY <1>1 DEF Sync
<1> QED BY <1>1, <1>2, <1>3, <1>4

(* Of a file that is not there every record is out of date, and a record that the    *)
(* registry tells from an earlier version of the file is.                            *)
LEMMA StaleIf ==
  ASSUME Types, Locals, ToldApart, NEW p \in Paths, NEW a
  PROVE  /\ Backed(p, a) /\ ~IsFile(local[p]) => Stale(p, a)
         /\ \A u, x \in Versions : a = AttrOf[u] /\ u <= x /\ LocalFrom(p, x) /\ Unlike(a, AttrOf[x]) => Stale(p, a)
<1>1. IsFile(local[p]) => local[p] \in Versions /\ local[p] \in Nat
  BY VersionFacts DEF Types, Nodes, IsFile
<1>2. edits \in Nat
  BY BoundsAssumption DEF Types
<1>3. \A u, v \in Versions : u <= v /\ LocalFrom(p, v) => LocalFrom(p, u)
  BY <1>1, <1>2, VersionFacts DEF LocalFrom
<1>4. ASSUME Backed(p, a), ~IsFile(local[p]) PROVE Stale(p, a)
  <2> SUFFICES ASSUME Sync(p, a) PROVE Stale(p, a)
    BY <1>4 DEF Backed
  <2>1. PICK u, v \in Versions : a = AttrOf[u] /\ u <= v /\ LocalFrom(p, v)
    BY DEF Sync
  <2> QED BY <1>3, <1>4, <2>1 DEF Stale
<1>5. ASSUME NEW u \in Versions, NEW x \in Versions,
             a = AttrOf[u], u <= x, LocalFrom(p, x), Unlike(a, AttrOf[x])
      PROVE  Stale(p, a)
  <2>1. LocalFrom(p, u)
    BY <1>3, <1>5
  <2>2. ASSUME IsFile(local[p]) PROVE Unlike(a, AttrOf[local[p]])
    <3>1. x <= local[p] /\ local[p] \in Versions
      BY <1>1, <1>5, <2>2, VersionFacts DEF LocalFrom
    <3> QED BY <1>5, <3>1, ToldLater
  <2> QED BY <1>5, <2>1, <2>2 DEF Stale
<1> QED BY <1>4, <1>5

(* A record that is neither out of date nor of a file that differs from the local one *)
(* stands for a copy of it on the remote.                                        *)
LEMMA SettledMatches ==
  ASSUME Types, ToldApart, NEW p \in Paths, NEW a, Backed(p, a), IsFile(local[p]), ~Unlike(a, AttrOf[local[p]])
  PROVE  Matches(p)
<1> DEFINE w == local[p]
<1>1. w \in Versions /\ w \in Nat
  BY VersionFacts DEF Types, Nodes, IsFile
<1>2. ~Stale(p, a)
  <2>1. a.time # 0
    <3> SUFFICES ASSUME a.time = 0 PROVE FALSE
      OBVIOUS
    <3> DEFINE t == AttrOf[w].time
    <3>1. t > 10 /\ t \in Nat
      BY <1>1, VersionFacts DEF ToldApart
    <3> HIDE DEF t
    <3>2. FarApart(0, t)
      BY <3>1 DEF FarApart
    <3> QED BY <3>2 DEF Unlike, t
  <2> QED BY <2>1 DEF Stale
<1>3. PICK u, v \in Versions : a = AttrOf[u] /\ u <= v /\ IsFile(v) /\ cur[p] = v /\ LocalFrom(p, v)
  BY <1>2 DEF Backed, Sync
<1> HIDE DEF w
<1>4. v <= w /\ u \in Nat /\ v \in Nat
  BY <1>3, VersionFacts DEF LocalFrom, w
<1>5. ~(w >= u + 2)
  BY <1>1, <1>3 DEF ToldApart, w
<1>6. v = u \/ v = w
  BY <1>1, <1>3, <1>4, <1>5
<1>7. ~Unlike(AttrOf[v], AttrOf[w])
  BY <1>1, <1>3, <1>6, VersionFacts DEF w
<1> QED BY <1>3, <1>7 DEF Matches, Unlike, w

-----------------------------------------------------------------------------
(* The registry by path: what a path leads to in R, and in S after a change.        *)
FileAt(R, p) == At(R, p) # 0 /\ ~R[At(R, p)].isdir
DirAt(R, p) == At(R, p) # 0 /\ R[At(R, p)].isdir
AttrAt(R, p) == [time |-> R[At(R, p)].time, size |-> R[At(R, p)].sub]

SameAt(R, S, p) ==
  /\ At(S, p) = At(R, p)
  /\ At(R, p) # 0 => S[At(R, p)].isdir = R[At(R, p)].isdir /\ S[At(R, p)].name = R[At(R, p)].name
  /\ FileAt(R, p) => AttrAt(S, p) = AttrAt(R, p)

(* The time and the size of the files of R do not change.                         *)
SameData(R, S, D) ==
  \A r \in D : S[r].time = R[r].time /\ (~R[r].isdir => S[r].sub = R[r].sub)

LEMMA LinkKeepsData ==
  ASSUME NEW R \in [Ids -> RecordItem], NEW p \in Active(R), NEW pre \in Active(R), 0 \notin Active(R),
         R[p].isdir, NEW rid \in Ids \ {0}, rid \notin Active(R), NEW new \in RecordItem
  PROVE  LET S == LinkRecord(AllocRec(R, rid, new), p, pre, rid) IN
         /\ SameData(R, S, Active(R))
         /\ S[rid].time = new.time /\ S[rid].sub = new.sub
<1> DEFINE A == AllocRec(R, rid, new)
           S == LinkRecord(A, p, pre, rid)
           mine == IF pre = p
                   THEN [A[rid] EXCEPT !.next = IF A[p].sub = 0 THEN p ELSE A[p].sub, !.islast = (A[p].sub = 0)]
                   ELSE [A[rid] EXCEPT !.next = A[pre].next, !.islast = A[pre].islast]
           before == IF pre = p THEN [A[pre] EXCEPT !.sub = rid]
                     ELSE [A[pre] EXCEPT !.next = rid, !.islast = FALSE]
<1>1. p \in Ids /\ pre \in Ids /\ \A r \in Active(R) : r \in Ids /\ r # 0 /\ r # rid
  BY DEF Active
<1>2. DOMAIN A = Ids /\ A[rid] = new /\ \A r \in Active(R) : A[r] = R[r]
  BY <1>1 DEF AllocRec
<1>3. S = [A EXCEPT ![rid] = mine, ![pre] = before]
  BY DEF LinkRecord
<1>4. R[pre] \in RecordItem
  BY <1>1
<1>5. mine.time = new.time /\ mine.sub = new.sub
  <2>1. CASE pre = p
    <3>1. mine = [new EXCEPT !.next = IF A[p].sub = 0 THEN p ELSE A[p].sub, !.islast = (A[p].sub = 0)]
      BY <1>2, <2>1
    <3> HIDE DEF mine, A
    <3> QED BY <3>1 DEF RecordItem
  <2>2. CASE pre # p
    <3>1. mine = [new EXCEPT !.next = A[pre].next, !.islast = A[pre].islast]
      BY <1>2, <2>2
    <3> HIDE DEF mine, A
    <3> QED BY <3>1 DEF RecordItem
  <2> QED BY <2>1, <2>2
<1>6. before.time = R[pre].time /\ (~R[pre].isdir => before.sub = R[pre].sub)
  <2>1. CASE pre = p
    <3>1. before = [R[pre] EXCEPT !.sub = rid]
      BY <1>2, <2>1
    <3> HIDE DEF before
    <3> QED BY <1>4, <2>1, <3>1 DEF RecordItem
  <2>2. CASE pre # p
    <3>1. before = [R[pre] EXCEPT !.next = rid, !.islast = FALSE]
      BY <1>2, <2>2
    <3> HIDE DEF before
    <3> QED BY <1>4, <3>1 DEF RecordItem
  <2> QED BY <2>1, <2>2
<1> HIDE DEF mine, before, A, S
<1>7. /\ S[rid] = mine /\ S[pre] = before /\ \A r \in Active(R) \ {pre} : S[r] = R[r]
  BY <1>1, <1>2, <1>3
<1>8. SameData(R, S, Active(R))
  BY <1>6, <1>7 DEF SameData
<1> QED BY <1>5, <1>7, <1>8 DEF S, A

LEMMA UnlinkKeepsData ==
  ASSUME NEW R \in [Ids -> RecordItem], NEW u \in Active(R), R[u].isdir, NEW pre \in Ids, NEW rid \in Ids,
         NEW rpre \in Ids, rpre \notin Active(R)
  PROVE  SameData(R, RecycleRec(UnlinkRecord(R, u, pre, rid), rpre, rid), Active(R) \ {rid})
<1> DEFINE U == UnlinkRecord(R, u, pre, rid)
           S == RecycleRec(U, rpre, rid)
<1>1. R[pre] \in RecordItem /\ R[u] \in RecordItem /\ u \in Ids
  BY DEF Active
<1>2. \A r \in Ids : U[r].time = R[r].time /\ (~R[r].isdir => U[r].sub = R[r].sub)
  <2>1. CASE pre = u
    <3>1. U = [R EXCEPT ![u] = [R[u] EXCEPT !.sub = NextSibling(R, rid)]]
      BY <2>1 DEF UnlinkRecord
    <3> DEFINE x == [R[u] EXCEPT !.sub = NextSibling(R, rid)]
    <3>2. x.time = R[u].time
      BY <1>1 DEF RecordItem
    <3> HIDE DEF x, U
    <3>3. \A r \in Ids : U[r] = IF r = u THEN x ELSE R[r]
      BY <3>1 DEF x
    <3> QED BY <3>2, <3>3
  <2>2. CASE pre # u
    <3> DEFINE x == [R[pre] EXCEPT !.next = R[rid].next, !.islast = R[rid].islast]
    <3>1. U = [R EXCEPT ![pre] = x]
      BY <2>2 DEF UnlinkRecord
    <3>2. x.time = R[pre].time /\ x.sub = R[pre].sub
      BY <1>1 DEF RecordItem
    <3> HIDE DEF x, U
    <3>3. \A r \in Ids : U[r] = IF r = pre THEN x ELSE R[r]
      BY <3>1
    <3> QED BY <3>2, <3>3
  <2> QED BY <2>1, <2>2
<1>3. DOMAIN U = Ids
  BY DEF UnlinkRecord
<1>4. \A r \in Active(R) \ {rid} : r \in Ids /\ r # rid /\ r # rpre
  BY DEF Active
<1>5. \A r \in Active(R) \ {rid} : S[r] = U[r]
  <2> HIDE DEF U
  <2> QED BY <1>3, <1>4 DEF RecycleRec
<1> HIDE DEF S, U
<1>6. SameData(R, S, Active(R) \ {rid})
  BY <1>2, <1>4, <1>5 DEF SameData
<1> QED BY <1>6 DEF S, U

(* Where a path leads to an id that stays, it leads there afterwards.                *)
LEMMA StaysAt ==
  ASSUME NEW R, NEW P, Forest(R, P), NEW S, NEW Q, Forest(S, Q), SameInUse(R, S), NEW p \in AnyPath,
         \A r \in Active(S) : r \notin Active(R) => Q[r] # p,
         \A r \in Active(R) : P[r] = p => r \in Active(S),
         \A r \in Active(R) \cap Active(S) : Q[r] = P[r],
         \A r \in Active(R) : P[r] = p => S[r].time = R[r].time /\ (~R[r].isdir => S[r].sub = R[r].sub)
  PROVE  SameAt(R, S, p)
<1> DEFINE d == At(R, p)
<1>1. /\ d \in Active(R) \cup {0} /\ (d # 0 => P[d] = p) /\ \A r \in Active(R) : P[r] = p => d = r
  BY AtFinds
<1>2. /\ At(S, p) \in Active(S) \cup {0} /\ (At(S, p) # 0 => Q[At(S, p)] = p)
      /\ \A r \in Active(S) : Q[r] = p => At(S, p) = r
  BY AtFinds
<1> HIDE DEF d
<1>3. CASE d # 0
  <2>1. d \in Active(R) /\ P[d] = p /\ d \in Active(S) /\ Q[d] = p
    BY <1>1, <1>3
  <2>2. At(S, p) = d /\ S[d].isdir = R[d].isdir /\ S[d].name = R[d].name
    BY <1>2, <2>1 DEF SameInUse
  <2>3. S[d].time = R[d].time /\ (~R[d].isdir => S[d].sub = R[d].sub)
    BY <2>1
  <2> QED BY <2>2, <2>3 DEF SameAt, FileAt, AttrAt, d
<1>4. CASE d = 0
  <2>1. At(S, p) = 0
    <3> SUFFICES ASSUME At(S, p) # 0 PROVE FALSE
      OBVIOUS
    <3> DEFINE r == At(S, p)
    <3>1. r \in Active(S) /\ Q[r] = p
      BY <1>2
    <3>2. r \in Active(R)
      BY <3>1
    <3>3. P[r] = p
      BY <3>1, <3>2
    <3>4. r # 0
      OBVIOUS
    <3> QED BY <1>1, <1>4, <3>2, <3>3, <3>4
  <2> QED BY <1>4, <2>1 DEF SameAt, FileAt, d
<1> QED BY <1>3, <1>4

(* What Record does to the registry.                                             *)
RecordDoes ==
  LET a == act.path
      r == At(recs', a) IN
  /\ \A p \in AnyPath \ {a} : SameAt(recs, recs', p)
  /\ r # 0 /\ recs'[r].isdir = (act.type = "ADDDIR")
  /\ IF act.type = "MODFILE" THEN FileAt(recs, a) /\ r = At(recs, a)
                             ELSE At(recs, a) = 0 /\ r \notin Active(recs)
  /\ act.type # "ADDDIR" /\ ~act.pending => AttrAt(recs', a) = act.attr
  /\ act.type = "MODFILE" /\ act.pending => AttrAt(recs', a) = AttrAt(recs, a)
  /\ act.type = "ADDFILE" /\ act.pending => AttrAt(recs', a).time = 0
  /\ SameInUse(recs, recs') /\ Active(recs) \subseteq Active(recs')
  /\ \A s \in Active(recs') : s \in Active(recs) \/ recs'[s].isignore = act.isignore

LEMMA NewRecordData ==
  ASSUME Types
  PROVE  /\ NewRecord.isignore = act.isignore
         /\ act.type # "ADDDIR" /\ ~act.pending => NewRecord.time = act.attr.time /\ NewRecord.sub = act.attr.size
         /\ act.type # "ADDDIR" /\ act.pending => NewRecord.time = 0
<1> DEFINE blank == [Blank EXCEPT !.isactive = TRUE, !.name = act.path[Len(act.path)],
                                  !.isignore = act.isignore]
<1>1. blank.isignore = act.isignore /\ blank.time = 0
  BY DEF Blank
<1>2. NewRecord = IF act.type = "ADDDIR" THEN [blank EXCEPT !.isdir = TRUE] ELSE Recorded(blank)
  BY DEF NewRecord
<1>3. blank = [Blank EXCEPT !.isactive = TRUE, !.name = act.path[Len(act.path)], !.isignore = act.isignore]
  OBVIOUS
<1>4. CASE act.type = "ADDDIR"
  BY <1>2, <1>3, <1>4 DEF Blank
<1>5. CASE act.type # "ADDDIR" /\ act.pending
  BY <1>2, <1>3, <1>5 DEF Blank, Recorded
<1>6. CASE act.type # "ADDDIR" /\ ~act.pending
  BY <1>2, <1>3, <1>6 DEF Blank, Recorded
<1> QED BY <1>4, <1>5, <1>6

LEMMA RecordModDoes ==
  ASSUME Types, NEW P, NEW n, ChangeFacts(P, n),
         NEW found, Found(recs, Kids(recs, P, Top.rid), Top.rid, n, found), found.type = "FR_MATCH",
         recs' = [recs EXCEPT ![found.id] = Recorded(@)]
  PROVE  RecordDoes
<1> DEFINE d == found.id
           a == act.path
<1>1. /\ Forest(recs, P) /\ Top.rid \in Dirs(recs) /\ a = Append(P[Top.rid], n)
  BY DEF ChangeFacts
<1>2. d \in Kids(recs, P, Top.rid) /\ recs[d].name = n
  BY DEF Found
<1> HIDE DEF d, a
<1>3. d \in Active(recs) /\ d \in Ids /\ P[d] = a /\ a \in Paths /\ a \in AnyPath /\ recs[d] \in RecordItem /\ d # 0
  <2>1. /\ d \in Active(recs) \ {ROOT} /\ d \in Ids \ {0} /\ recs[d] \in RecordItem
        /\ P[d] = Append(P[Top.rid], recs[d].name) /\ P[d] \in Paths
    BY <1>1, <1>2, KidFacts
  <2> QED BY <1>1, <1>2, <2>1 DEF AnyPath
<1>4. act.type = "MODFILE" /\ ~recs[d].isdir
  <2>1. act.type = "MODFILE"
    BY <1>3 DEF ChangeFacts, a
  <2>2. PICK q \in Active(recs) : P[q] = a /\ ~recs[q].isdir
    BY <2>1 DEF ChangeFacts, a
  <2> QED BY <1>1, <1>3, <2>1, <2>2 DEF Forest, Placed
<1>5. RecordedIs(recs[d], Recorded(recs[d]))
  BY <1>3, RecordedFacts
<1>6. recs \in [Ids -> RecordItem]
  BY <1>1 DEF Forest
<1>7. recs' \in [Ids -> RecordItem] /\ \A q \in Ids : recs'[q] = IF q = d THEN Recorded(recs[d]) ELSE recs[q]
  BY <1>3, <1>5, <1>6 DEF RecordedIs, d
<1>8. SameLinks(recs, recs')
  BY <1>4, <1>5, <1>7 DEF SameLinks, RecordedIs
<1>9. Forest(recs', P) /\ Active(recs') = Active(recs)
  BY <1>1, <1>7, <1>8, SameForest
<1>10. SameInUse(recs, recs')
  BY <1>8 DEF SameInUse, SameLinks, Active
<1>11. At(recs, a) = d /\ At(recs', a) = d
  <2>1. At(recs, a) = d
    BY <1>1, <1>3, AtFinds
  <2>2. d \in Active(recs')
    BY <1>3, <1>9
  <2>3. At(recs', a) = d
    BY <1>3, <1>9, <2>2, AtFinds
  <2> QED BY <2>1, <2>3
<1>12. \A p \in AnyPath \ {a} : SameAt(recs, recs', p)
  <2> TAKE p \in AnyPath \ {a}
  <2>1. \A r \in Active(recs) : P[r] = p => recs'[r] = recs[r]
    BY <1>3, <1>7 DEF Active
  <2> QED BY <1>1, <1>9, <1>10, <2>1, StaysAt
<1>13. \A s \in Active(recs') : s \in Active(recs)
  BY <1>9
<1>14. recs'[d] = Recorded(recs[d]) /\ recs'[d].isdir = recs[d].isdir
  BY <1>3, <1>5, <1>7 DEF RecordedIs
<1>15. ~act.pending => AttrAt(recs', a) = act.attr
  <2> SUFFICES ASSUME ~act.pending PROVE AttrAt(recs', a) = act.attr
    OBVIOUS
  <2>1. recs'[d].time = act.attr.time /\ recs'[d].sub = act.attr.size
    <3>1. recs'[d] = [recs[d] EXCEPT !.ispending = FALSE, !.time = act.attr.time, !.sub = act.attr.size]
      BY <1>14 DEF Recorded
    <3> DEFINE old == recs[d]
               new == recs'[d]
    <3>2. old \in RecordItem
      BY <1>3
    <3>3. new = [old EXCEPT !.ispending = FALSE, !.time = act.attr.time, !.sub = act.attr.size]
      BY <3>1
    <3> HIDE DEF old, new
    <3>4. new.time = act.attr.time /\ new.sub = act.attr.size
      BY <3>2, <3>3 DEF RecordItem
    <3> QED BY <3>4 DEF new
  <2>2. act.attr \in [time : Nat, size : Nat]
    BY DEF Types, Action, Attr
  <2> QED BY <1>11, <2>1, <2>2 DEF AttrAt
<1>16. act.pending => AttrAt(recs', a) = AttrAt(recs, a)
  <2> SUFFICES ASSUME act.pending PROVE AttrAt(recs', a) = AttrAt(recs, a)
    OBVIOUS
  <2>1. recs'[d].time = recs[d].time /\ recs'[d].sub = recs[d].sub
    BY <1>3, <1>14 DEF Recorded, RecordItem
  <2> QED BY <1>11, <2>1 DEF AttrAt
<1>17. FileAt(recs, a)
  BY <1>3, <1>4, <1>11 DEF FileAt
<1>18. recs'[d].isdir = FALSE
  <2>1. recs[d].isdir \in BOOLEAN
    BY <1>3 DEF RecordItem
  <2> QED BY <1>4, <1>14, <2>1
<1>19. Active(recs) \subseteq Active(recs')
  BY <1>9
<1>20. (act.type = "ADDDIR") = FALSE
  BY <1>4
<1> QED BY <1>3, <1>4, <1>10, <1>11, <1>12, <1>13, <1>15, <1>16, <1>17, <1>18, <1>19, <1>20 DEF RecordDoes, a

LEMMA RecordNewDoes ==
  ASSUME Types, NEW P, NEW n, ChangeFacts(P, n),
         NEW found, Found(recs, Kids(recs, P, Top.rid), Top.rid, n, found), found.type # "FR_MATCH",
         RecordNew(Top.rid, found.id)
  PROVE  RecordDoes
<1> DEFINE K == Kids(recs, P, Top.rid)
           a == act.path
<1>1. /\ Forest(recs, P) /\ Recycled(recs, nrec)
      /\ Top.rid \in Dirs(recs) /\ ~recs[Top.rid].isignore /\ Len(P[Top.rid]) < Depth
      /\ a = Append(P[Top.rid], n) /\ a[Len(a)] = n /\ n \in Names
  BY DEF ChangeFacts
<1>2. /\ NewRecord \in RecordItem /\ NewRecord.isactive /\ NewRecord.name = n
      /\ NewRecord.isdir = (act.type = "ADDDIR")
      /\ NewRecord.isdir => NewRecord.sub = 0
  BY <1>1, NewRecordIs
<1>3. PICK rid \in {NewId(recs, nrec)} \cap Ids :
        recs' = LinkRecord(AllocRec(recs, rid, NewRecord), Top.rid, found.id, rid)
  BY DEF RecordNew, NewRecord
<1> DEFINE S == LinkRecord(AllocRec(recs, rid, NewRecord), Top.rid, found.id, rid)
           Q == Extended(recs, P, rid, Append(P[Top.rid], NewRecord.name))
<1>4. Allocated(recs, P, nrec, rid, NewRecord, Append(P[Top.rid], NewRecord.name), S)
  <2>1. Found(recs, Kids(recs, P, Top.rid), Top.rid, NewRecord.name, found)
    BY <1>2
  <2>2. NewRecord.name \in Names
    BY <1>1, <1>2
  <2> QED BY <1>1, <1>2, <2>1, <2>2, AllocForest
<1>5. /\ rid \in Ids \ {0} /\ rid \notin Active(recs) /\ Active(S) = Active(recs) \cup {rid}
      /\ Forest(S, Q) /\ SameInUse(recs, S)
      /\ S[rid].isdir = (act.type = "ADDDIR") /\ S[rid].isignore = act.isignore
  BY <1>2, <1>4, NewRecordData DEF Allocated
<1>6. SameData(recs, S, Active(recs)) /\ S[rid].time = NewRecord.time /\ S[rid].sub = NewRecord.sub
  <2>1. recs \in [Ids -> RecordItem] /\ 0 \notin Active(recs)
    BY <1>1 DEF Forest, Placed
  <2>2. Top.rid \in Active(recs) /\ recs[Top.rid].isdir
    BY <1>1 DEF Dirs
  <2>3. found.id \in Active(recs)
    <3>1. found.id \in Kids(recs, P, Top.rid) \cup {Top.rid}
      BY DEF Found
    <3> QED BY <2>2, <3>1 DEF Kids
  <2> QED BY <1>2, <1>5, <2>1, <2>2, <2>3, LinkKeepsData
<1>7. recs' = S
  BY <1>3
<1> HIDE DEF S
<1>8. (\A q \in Active(recs) : Q[q] = P[q]) /\ Q[rid] = a
  BY <1>1, <1>2, <1>5 DEF Extended
<1> HIDE DEF Q, K, a
<1>9. a \in AnyPath /\ rid \in Active(S)
  <2>1. rid \in Active(S) /\ rid \in Active(S) /\ Q[rid] = a
    BY <1>5, <1>8
  <2>2. Q \in [Active(S) -> AnyPath]
    BY <1>5 DEF Forest, Placed
  <2> QED BY <2>1, <2>2
<1>10. At(S, a) = rid
  BY <1>5, <1>8, <1>9, AtFinds
<1>11. \A r \in Active(recs) : P[r] # a
  <2> SUFFICES ASSUME NEW r \in Active(recs), P[r] = a PROVE FALSE
    OBVIOUS
  <2>1. r \in Active(S) /\ Q[r] = a /\ r # rid
    BY <1>5, <1>8
  <2> QED BY <1>5, <1>8, <1>9, <2>1 DEF Forest, Placed
<1>12. act.type \in {"ADDDIR", "ADDFILE"} /\ At(recs, a) = 0
  <2>1. act.type \in {"ADDDIR", "ADDFILE"}
    BY <1>11 DEF ChangeFacts, a
  <2>2. At(recs, a) \in Active(recs) \cup {0} /\ (At(recs, a) # 0 => P[At(recs, a)] = a)
    BY <1>1, <1>9, AtFinds, ZenonT(60)
  <2> QED BY <1>11, <2>1, <2>2
<1>13. \A p \in AnyPath \ {a} : SameAt(recs, S, p)
  <2> TAKE p \in AnyPath \ {a}
  <2>1. \A r \in Active(S) : r \notin Active(recs) => Q[r] # p
    BY <1>5, <1>8
  <2>2. \A r \in Active(recs) : S[r].time = recs[r].time /\ (~recs[r].isdir => S[r].sub = recs[r].sub)
    BY <1>6 DEF SameData
  <2>3. \A r \in Active(recs) \cap Active(S) : Q[r] = P[r]
    BY <1>8
  <2>4. \A r \in Active(recs) : P[r] = p => r \in Active(S)
    BY <1>5
  <2> HIDE DEF Q
  <2> QED BY <1>1, <1>5, <2>1, <2>2, <2>3, <2>4, StaysAt
<1>14. \A s \in Active(S) : s \in Active(recs) \/ S[s].isignore = act.isignore
  BY <1>5
<1>15. act.type # "ADDDIR" /\ ~act.pending => AttrAt(S, a) = act.attr
  <2>1. act.attr \in [time : Nat, size : Nat]
    BY DEF Types, Action, Attr
  <2> QED BY <1>6, <1>10, <2>1, NewRecordData DEF AttrAt
<1>16. act.type # "ADDDIR" /\ act.pending => AttrAt(S, a).time = 0
  BY <1>6, <1>10, NewRecordData DEF AttrAt
<1>17. /\ At(S, a) # 0 /\ S[At(S, a)].isdir = (act.type = "ADDDIR") /\ At(S, a) \notin Active(recs)
       /\ Active(recs) \subseteq Active(S)
  BY <1>5, <1>10
<1> QED BY <1>5, <1>7, <1>12, <1>13, <1>14, <1>15, <1>16, <1>17 DEF RecordDoes, a

LEMMA RecordIs ==
  ASSUME Types, NEW P, Now(P), Record
  PROVE  RecordDoes
<1>1. pc = "record"
  BY DEF Record
<1>2. ~Deleting
  BY <1>1, ActFacts DEF Busy
<1>3. PICK n : ChangeFacts(P, n)
  BY <1>1, <1>2, ChangeKnows DEF Busy
<1> DEFINE found == FindRecord(recs, NamesNow, Top.rid, n)
<1>4. Found(recs, Kids(recs, P, Top.rid), Top.rid, n, found)
  BY <1>3, LookupFinds
<1>5. IF found.type = "FR_MATCH"
      THEN recs' = [recs EXCEPT ![found.id] = Recorded(@)] /\ nrec' = nrec
      ELSE RecordNew(Top.rid, found.id)
  BY <1>3 DEF Record, ChangeFacts
<1> HIDE DEF found
<1>6. CASE found.type = "FR_MATCH"
  BY <1>3, <1>4, <1>5, <1>6, RecordModDoes
<1>7. CASE found.type # "FR_MATCH"
  BY <1>3, <1>4, <1>5, <1>7, RecordNewDoes
<1> QED BY <1>6, <1>7

(* What Forget does to it: the path of the leaf is at or below that of the action.     *)
ForgetDoes ==
  LET a == act.path
      l == Leaf.path IN
  /\ l \in Paths /\ (l = a \/ a \in Above(l)) /\ a \in Paths
  /\ l # a => act.type = "DELDIR"
  /\ l = a => DirAt(recs, a) = (act.type = "DELDIR")
  /\ \A p \in AnyPath \ {l} : SameAt(recs, recs', p)
  /\ At(recs', l) = 0
  /\ SameInUse(recs, recs') /\ Active(recs') \subseteq Active(recs)

LEMMA ForgetIs ==
  ASSUME Types, NEW P, Now(P), Forget
  PROVE  ForgetDoes
<1>1. pc = "forget"
  BY DEF Forget
<1>2. Deleting
  BY <1>1, ActFacts DEF Busy
<1>3. PICK r, u : DeleteFacts(P, r, u)
  BY <1>1, <1>2, DeleteKnows DEF Busy
<1> DEFINE leaf == Leaf.id
           l == Leaf.path
<1>4. /\ Forest(recs, P) /\ Recycled(recs, nrec) /\ r \in Kids(recs, P, Top.rid)
      /\ u \in Dirs(recs) /\ leaf \in Kids(recs, P, u) /\ RecordAt(Parent(Leaf.path)) = u
      /\ recs[leaf].isdir => Kids(recs, P, leaf) = {}
      /\ RecordAt(act.path) = r /\ recs[r].isdir = (act.type = "DELDIR") /\ act.path \in Paths
  BY <1>3 DEF DeleteFacts, LeafIs
<1>5. leaf \in Active(recs) /\ l = P[leaf] /\ l \in Paths /\ leaf \in Ids
  BY <1>3, LeafBelow DEF Active
<1>6. PICK pre, rpre \in Ids :
        /\ IsLinkTo(recs, leaf, u, pre) /\ IsRecyclePre(recs, leaf, rpre)
        /\ recs' = RecycleRec(UnlinkRecord(recs, u, pre, leaf), rpre, leaf)
  BY <1>4 DEF Forget
<1> DEFINE S == RecycleRec(UnlinkRecord(recs, u, pre, leaf), rpre, leaf)
           Q == Without(recs, P, leaf)
<1> HIDE DEF leaf, l
<1>7. Freed(recs, P, nrec, leaf, S)
  BY <1>4, <1>6, RecycleForest
<1>8. SameData(recs, S, Active(recs) \ {leaf})
  <2>1. recs \in [Ids -> RecordItem] /\ u \in Active(recs) /\ recs[u].isdir /\ 0 \notin Active(recs)
    BY <1>4 DEF Forest, Placed, Dirs
  <2>2. rpre \notin Active(recs)
    BY <1>6, <2>1 DEF IsRecyclePre, Active
  <2> QED BY <1>5, <2>1, <2>2, UnlinkKeepsData
<1>9. recs' = S
  BY <1>6
<1> HIDE DEF S
<1>10. Active(S) = Active(recs) \ {leaf} /\ Forest(S, Q) /\ SameInUse(recs, S)
  BY <1>7 DEF Freed
<1>11. \A q \in Active(S) : Q[q] = P[q] /\ Q[q] # l
  <2>1. \A q \in Active(S) : Q[q] = P[q] /\ q # leaf /\ q \in Active(recs)
    BY <1>10 DEF Without
  <2> QED BY <1>4, <1>5, <2>1 DEF Forest, Placed
<1> HIDE DEF Q
<1>12. At(S, l) = 0
  <2>1. l \in AnyPath
    BY <1>5 DEF AnyPath
  <2> QED BY <1>10, <1>11, <2>1, AtFinds
<1>13. \A p \in AnyPath \ {l} : SameAt(recs, S, p)
  <2> TAKE p \in AnyPath \ {l}
  <2>1. \A q \in Active(S) : q \notin Active(recs) => Q[q] # p
    BY <1>10
  <2>2. \A q \in Active(recs) : P[q] = p => q \in Active(S)
    BY <1>5, <1>10
  <2>3. \A q \in Active(recs) : P[q] = p => S[q].time = recs[q].time /\ (~recs[q].isdir => S[q].sub = recs[q].sub)
    BY <1>5, <1>8 DEF SameData
  <2>4. \A q \in Active(recs) \cap Active(S) : Q[q] = P[q]
    BY <1>11
  <2> QED BY <1>4, <1>10, <2>1, <2>2, <2>3, <2>4, StaysAt
<1>14. l # act.path => act.path \in Above(l) /\ act.type = "DELDIR"
  <2> SUFFICES ASSUME l # act.path PROVE act.path \in Above(l) /\ act.type = "DELDIR"
    OBVIOUS
  <2>1. cur \in Trees /\ DOMAIN cur = Paths
    BY DEF Types, Trees
  <2>2. l \in Below(cur, act.path) /\ recs[r].isdir
    BY <1>3, <2>1, LeafBelow DEF l
  <2> QED BY <1>4, <1>5, <2>1, <2>2, BelowAbove
<1>15. DirAt(recs, act.path) = (act.type = "DELDIR")
  <2>1. At(recs, act.path) = r /\ r # 0
    BY <1>4, RecordAtIsAt, KidFacts DEF Kids, Forest, Placed
  <2> QED BY <1>4, <2>1 DEF DirAt
<1> QED BY <1>4, <1>5, <1>9, <1>10, <1>12, <1>13, <1>14, <1>15 DEF ForgetDoes, l

-----------------------------------------------------------------------------
(* A listing tells of every path of its directory whether it is there, as what, and    *)
(* since when.                                                                *)
ListingTells(p, files) ==
  \A q \in Paths : Parent(q) = p =>
    /\ local[q] # None => \E k \in DOMAIN files : files[k].name = q[Len(q)]
    /\ \A k \in DOMAIN files : files[k].name = q[Len(q)] =>
         /\ local[q] # None /\ files[k].isdir = (local[q] = Dir) /\ files[k].isignore = (q \in ignored)
         /\ IsFile(local[q]) => files[k].attr = AttrOf[local[q]]

LEMMA ListingFull ==
  ASSUME local \in [Paths -> Nodes], IsFiniteSet(Present), NEW p \in AnyPath
  PROVE  ListingTells(p, Listing(p))
<1> DEFINE names == IF Len(p) < Depth THEN {n \in Names : local[Append(p, n)] # None} ELSE {}
           order == Sorted(names)
           c == Cardinality(names)
           Entry(i) == LET q == Append(p, order[i]) IN
             [name |-> order[i], isdir |-> local[q] = Dir, isignore |-> q \in ignored,
              attr |-> IF IsFile(local[q]) THEN AttrOf[local[q]] ELSE [time |-> 0, size |-> 0]]
           files == [i \in 1 .. c |-> Entry(i)]
<1>1. Listing(p) = files
  BY DEF Listing
<1>2. p \in Seq(Names) /\ Len(p) \in Nat
  BY PathSets, LenProperties
<1>3. \A n \in names : n \in Names /\ Append(p, n) \in Present
  <2> TAKE n \in names
  <2>1. n \in Names /\ Len(p) < Depth /\ local[Append(p, n)] # None
    OBVIOUS
  <2>2. Append(p, n) \in Seq(Names) /\ Len(Append(p, n)) = Len(p) + 1
    BY <1>2, <2>1, AppendPath
  <2>3. Len(Append(p, n)) \in 1 .. Depth
    BY <1>2, <2>1, <2>2, DepthAssumption
  <2> QED BY <2>1, <2>2, <2>3, PathSets DEF Present
<1>4. IsFiniteSet(names)
  <2> DEFINE g == [n \in names |-> Append(p, n)]
  <2>1. g \in [names -> Present]
    BY <1>3
  <2>2. \A m, n \in names : g[m] = g[n] => m = n
    <3> TAKE m, n \in names
    <3>1. g[m] = Append(p, m) /\ g[n] = Append(p, n) /\ m \in Names /\ n \in Names
      BY <1>3
    <3> HIDE DEF g
    <3>2. g[m][Len(g[m])] = m /\ g[n][Len(g[n])] = n
      BY <1>2, <3>1, AppendPath
    <3> QED BY <3>2
  <2>3. g \in Injection(names, Present)
    <3>1. DOMAIN g = names
      OBVIOUS
    <3> HIDE DEF g
    <3> QED BY <2>1, <2>2, <3>1 DEF Injection, IsInjective
  <2> HIDE DEF g, names
  <2> QED BY <2>3, FS_Injection
<1>5. names \in SUBSET Nat
  BY <1>3, NamesAssumption
<1>6. \A q \in Paths : Parent(q) = p /\ local[q] # None => q[Len(q)] \in names
  <2> TAKE q \in Paths
  <2> HAVE Parent(q) = p /\ local[q] # None
  <2>1. q \in Seq(Names) /\ Len(q) \in 1 .. Depth /\ q # <<>>
    <3>1. q \in Seq(Names) /\ Len(q) \in 1 .. Depth
      BY PathSets
    <3>2. Len(q) # 0
      BY <3>1, DepthAssumption
    <3> QED BY <3>1, <3>2
  <2>2. q = Append(p, q[Len(q)]) /\ q[Len(q)] \in Names /\ Len(p) = Len(q) - 1
    BY <2>1, SplitPath
  <2>3. Len(p) < Depth
    BY <2>1, <2>2, DepthAssumption
  <2> QED BY <2>2, <2>3
<1>7. \A q \in Paths : Parent(q) = p => q = Append(p, q[Len(q)])
  <2> TAKE q \in Paths
  <2>1. q \in Seq(Names) /\ q # <<>>
    <3>1. q \in Seq(Names) /\ Len(q) \in 1 .. Depth
      BY PathSets
    <3>2. Len(q) # 0
      BY <3>1, DepthAssumption
    <3> QED BY <3>1, <3>2
  <2> QED BY <2>1, SplitPath
<1>8. \A n \in names : local[Append(p, n)] # None
  OBVIOUS
<1> HIDE DEF names
<1>9. c \in Nat /\ order \in [1 .. c -> names] /\ \A i, j \in 1 .. c : i < j => order[i] < order[j]
  BY <1>4, <1>5, SortedIs
<1> HIDE DEF order
<1>10. \A n \in names : \E k \in 1 .. c : order[k] = n
  <2>1. \A k, l \in 1 .. c : order[k] = order[l] => k = l
    <3> TAKE k, l \in 1 .. c
    <3>1. order[k] \in Nat /\ order[l] \in Nat
      BY <1>5, <1>9
    <3>2. k < l \/ l < k \/ k = l
      BY <1>9
    <3>3. \A a \in Nat : ~(a < a)
      OBVIOUS
    <3> QED BY <1>9, <3>1, <3>2, <3>3
  <2>2. order \in Injection(1 .. c, names)
    BY <1>9, <2>1 DEF Injection, IsInjective
  <2>3. Cardinality(1 .. c) = c
    <3> HIDE DEF c
    <3>1. 1 \in Int /\ c \in Int
      BY <1>9
    <3>2. Cardinality(1 .. c) = IF 1 > c THEN 0 ELSE c - 1 + 1
      BY <3>1, FS_Interval
    <3> QED BY <1>9, <3>2
  <2>4. order \in Surjection(1 .. c, names)
    BY <1>4, <2>2, <2>3, FS_Injection
  <2> QED BY <2>4 DEF Surjection
<1> HIDE DEF c
<1>11. DOMAIN files = 1 .. c /\ \A k \in 1 .. c : files[k] = Entry(k)
  OBVIOUS
<1>12. \A k \in 1 .. c : files[k].name = order[k]
  OBVIOUS
<1> HIDE DEF files, Entry
<1> SUFFICES ASSUME NEW q \in Paths, Parent(q) = p
             PROVE  /\ local[q] # None => \E k \in 1 .. c : files[k].name = q[Len(q)]
                    /\ \A k \in 1 .. c : files[k].name = q[Len(q)] =>
                         /\ local[q] # None /\ files[k].isdir = (local[q] = Dir)
                         /\ files[k].isignore = (q \in ignored)
                         /\ IsFile(local[q]) => files[k].attr = AttrOf[local[q]]
  BY <1>1, <1>11 DEF ListingTells
<1>13. local[q] # None => \E k \in 1 .. c : files[k].name = q[Len(q)]
  BY <1>6, <1>10, <1>12
<1>14. ASSUME NEW k \in 1 .. c, files[k].name = q[Len(q)]
       PROVE  /\ local[q] # None /\ files[k].isdir = (local[q] = Dir)
              /\ files[k].isignore = (q \in ignored)
              /\ IsFile(local[q]) => files[k].attr = AttrOf[local[q]]
  <2>1. q = Append(p, order[k]) /\ order[k] \in names
    BY <1>7, <1>9, <1>12, <1>14
  <2>2. files[k] = [name |-> order[k], isdir |-> local[q] = Dir, isignore |-> q \in ignored,
                    attr |-> IF IsFile(local[q]) THEN AttrOf[local[q]] ELSE [time |-> 0, size |-> 0]]
    BY <1>11, <2>1 DEF Entry
  <2>3. local[q] # None
    BY <1>8, <2>1
  <2> QED BY <2>2, <2>3
<1> QED BY <1>13, <1>14

(* The entries of a directory, as records and as paths.                            *)
LEMMA Entries ==
  ASSUME NEW P, Forest(recs, P), NEW d \in Dirs(recs)
  PROVE  /\ P[d] \in AnyPath /\ At(recs, P[d]) = d /\ d # 0
         /\ \A q \in Paths :
              /\ Parent(q) \in AnyPath /\ q[Len(q)] \in Names /\ q = Append(Parent(q), q[Len(q)])
              /\ At(recs, Parent(q)) = d <=> Parent(q) = P[d]
              /\ At(recs, Parent(q)) = d /\ At(recs, q) # 0 =>
                   At(recs, q) \in Kids(recs, P, d) /\ recs[At(recs, q)].name = q[Len(q)]
         /\ \A r \in Kids(recs, P, d) :
              /\ P[r] \in Paths /\ At(recs, P[r]) = r /\ r # 0 /\ At(recs, Parent(P[r])) = d
              /\ P[r][Len(P[r])] = recs[r].name
<1>1. /\ P[d] \in AnyPath /\ d # 0 /\ d \in Active(recs) /\ P[d] \in Seq(Names)
  <2>1. P[d] \in Seq(Names) /\ Len(P[d]) \in Nat /\ Len(P[d]) <= Depth /\ d \in Ids \ {0}
    BY KidFacts
  <2> QED BY <2>1, PathSets DEF Dirs
<1>2. At(recs, P[d]) = d
  BY <1>1, AtFinds
<1>3. ASSUME NEW q \in Paths
      PROVE  /\ Parent(q) \in AnyPath /\ q[Len(q)] \in Names /\ q = Append(Parent(q), q[Len(q)])
             /\ At(recs, Parent(q)) = d <=> Parent(q) = P[d]
             /\ At(recs, Parent(q)) = d /\ At(recs, q) # 0 =>
                  At(recs, q) \in Kids(recs, P, d) /\ recs[At(recs, q)].name = q[Len(q)]
  <2>1. q \in Seq(Names) /\ Len(q) \in 1 .. Depth
    BY PathSets
  <2>2. q # <<>>
    <3>1. Len(q) # 0
      BY <2>1, DepthAssumption
    <3> QED BY <3>1
  <2>3. /\ q = Append(Parent(q), q[Len(q)]) /\ Parent(q) \in Seq(Names) /\ q[Len(q)] \in Names
        /\ Len(Parent(q)) = Len(q) - 1
    BY <2>1, <2>2, SplitPath
  <2>4. Parent(q) \in AnyPath
    BY <2>1, <2>3, PathSets, DepthAssumption
  <2>5. At(recs, Parent(q)) = d <=> Parent(q) = P[d]
    BY <1>1, <1>2, <2>4, AtFinds
  <2>6. ASSUME At(recs, Parent(q)) = d, At(recs, q) # 0
        PROVE  At(recs, q) \in Kids(recs, P, d) /\ recs[At(recs, q)].name = q[Len(q)]
    <3> DEFINE r == At(recs, q)
    <3>1. q \in AnyPath
      BY DEF AnyPath
    <3>2. r \in Active(recs) /\ P[r] = q
      BY <2>6, <3>1, AtFinds
    <3> HIDE DEF r
    <3>3. r # ROOT
      BY <2>2, <3>2, ParentOf
    <3>4. PICK u \in Dirs(recs) : r \in Kids(recs, P, u)
      BY <3>2, <3>3, ParentOf
    <3>5. P[r] = Append(P[u], recs[r].name) /\ Parent(P[r]) = P[u] /\ recs[r].name \in Names /\ P[u] \in Seq(Names)
      BY <3>4, KidFacts
    <3>6. P[u] = P[d] /\ q[Len(q)] = recs[r].name
      BY <2>5, <2>6, <3>2, <3>5, AppendPath
    <3>7. u = d
      BY <1>1, <3>4, <3>6 DEF Forest, Placed, Dirs
    <3> QED BY <3>4, <3>6, <3>7 DEF r
  <2> QED BY <2>3, <2>4, <2>5, <2>6
<1>4. ASSUME NEW r \in Kids(recs, P, d)
      PROVE  /\ P[r] \in Paths /\ At(recs, P[r]) = r /\ r # 0 /\ At(recs, Parent(P[r])) = d
             /\ P[r][Len(P[r])] = recs[r].name
  <2>1. /\ r \in Active(recs) \ {ROOT} /\ r \in Ids \ {0} /\ recs[r].name \in Names
        /\ P[r] = Append(P[d], recs[r].name) /\ P[r] \in Paths /\ Parent(P[r]) = P[d]
    BY KidFacts
  <2>2. At(recs, P[r]) = r
    BY <2>1, AtFinds DEF AnyPath
  <2>3. P[r][Len(P[r])] = recs[r].name
    BY <1>1, <2>1, AppendPath
  <2> QED BY <1>2, <2>1, <2>2, <2>3
<1> QED BY <1>1, <1>2, <1>3, <1>4

-----------------------------------------------------------------------------
(***************************************************************************)
(* What holds of a run at any time, as long as nothing may be ignored.      *)
(***************************************************************************)
Running == pc \notin Ended
Changing == pc \in Busy /\ ~Deleting
Listed == Running /\ Top.stage \in {"REMOVE", "NEW"}
Here(q) == At(recs, Parent(q)) = Top.rid
Lists(k, q) == k \in DOMAIN Top.files /\ Top.files[k].name = q[Len(q)]

(* Every record of a file at p and below it is out of date.                         *)
AllStale(p) == \A q \in Paths : (q = p \/ p \in Above(q)) /\ FileAt(recs, q) => Stale(q, AttrAt(recs, q))

(* An entry of a listing was a version of the file, and no record is of a later one.    *)
KnownFrom(q, a) ==
  \E x \in Versions :
    /\ a = AttrOf[x] /\ LocalFrom(q, x)
    /\ FileAt(recs, q) => AttrAt(recs, q).time = 0 \/ \E u \in Versions : AttrAt(recs, q) = AttrOf[u] /\ u <= x

Remembers == \A p \in Paths : FileAt(recs, p) => Backed(p, AttrAt(recs, p))

RemovesStale ==
  Running /\ Top.stage = "REMOVE" =>
    \A q \in Paths : Here(q) /\ At(recs, q) # 0 /\ ~Borne(recs, Top.files, At(recs, q)) => AllStale(q)

DeletesStale == pc \in Busy /\ Deleting => AllStale(act.path)

ListsKnown ==
  Listed =>
    \A q \in Paths : \A k : /\ Here(q) /\ Lists(k, q) /\ ~Top.files[k].isdir
                            /\ Top.stage = "REMOVE" \/ k > Top.prog
                            => KnownFrom(q, Top.files[k].attr)

ModifiesStale ==
  pc \in {"attr", "hist", "upload"} /\ act.type = "MODFILE" => Stale(act.path, AttrAt(recs, act.path))

ReadsKnown ==
  /\ pc \in {"hist", "upload"} /\ ~Deleting =>
       act.attr.time = 0 \/ \E y \in Versions : act.attr = AttrOf[y] /\ LocalFrom(act.path, y)
  /\ pc = "record" /\ act.type # "ADDDIR" /\ ~act.pending => Backed(act.path, act.attr)
  /\ pc \in {"attr", "hist", "upload"} /\ ~Deleting => ~act.pending

NoneIgnored ==
  /\ \A r \in Active(recs) : ~recs[r].isignore
  /\ pc \in Busy => ~act.isignore
  /\ Listed => \A k \in DOMAIN Top.files : ~Top.files[k].isignore

Core == Remembers /\ RemovesStale /\ DeletesStale /\ ListsKnown /\ ModifiesStale /\ ReadsKnown /\ NoneIgnored

LEMMA FilesInDirs ==
  ASSUME NEW P, Forest(recs, P), NEW q \in Paths, NEW p \in Above(q), At(recs, q) # 0
  PROVE  DirAt(recs, p) /\ ~FileAt(recs, p)
<1>1. q \in AnyPath /\ p \in Paths /\ p \in AnyPath
  BY PathsAbove DEF AnyPath
<1>2. At(recs, q) \in Active(recs) /\ P[At(recs, q)] = q
  BY <1>1, AtFinds
<1>3. PICK k \in 1 .. Len(q) - 1 : p = SubSeq(q, 1, k)
  BY PathsAbove
<1>4. q \in Seq(Names) /\ Len(q) \in 1 .. Depth
  BY PathSets
<1>5. k \in 0 .. Len(q) - 1
  BY <1>3, <1>4, DepthAssumption
<1>6. PICK u \in Dirs(recs) : P[u] = SubSeq(q, 1, k)
  BY <1>2, <1>5, DirsAbove
<1>7. u \in Active(recs) /\ recs[u].isdir /\ u # 0
  BY <1>6 DEF Dirs, Forest, Placed
<1>8. At(recs, p) = u
  BY <1>1, <1>3, <1>6, <1>7, AtFinds
<1> QED BY <1>7, <1>8 DEF DirAt, FileAt

LEMMA RecsDo ==
  ASSUME Next
  PROVE  Record \/ Forget \/ UNCHANGED registry
<1>1. User \/ Start \/ Fails => UNCHANGED registry
  BY DEF User, SaveFile, MakeDir, Delete, ToggleIgnore, Edit, Start, Fails, PutHistFails, UploadLocked,
         UploadFails, MkDirFails, DeleteFails, DelDirMissed, Crash, Fault, registry
<1>2. RefreshStep => UNCHANGED registry
  BY Zenon DEF RefreshStep, Fallback, CheckStack, InitList, InitGone, ProposeDel, RemoveDone, ProposeAdd,
         ProposeMod, Propose, NewDone, Recur, RedoUpper, Return, Finish, StackOnly, registry
<1>3. ReadAttr \/ PutHist \/ Upload \/ UploadGone \/ MkDir \/ SkipRemote \/ DeleteRemote \/ DeleteRefused =>
        UNCHANGED registry
  BY DEF ReadAttr, PutHist, Upload, UploadGone, MkDir, SkipRemote, DeleteRemote, DeleteRefused, registry
<1> QED BY <1>1, <1>2, <1>3 DEF Next, Program, Perform

LEMMA LocalDo ==
  ASSUME Next
  PROVE  User \/ UNCHANGED <<local, edits, ignored>>
<1>1. Start \/ Fails => UNCHANGED <<local, edits, ignored>>
  BY DEF Start, Fails, PutHistFails, UploadLocked, UploadFails, MkDirFails, DeleteFails, DelDirMissed, Crash,
         Fault, user
<1>2. RefreshStep => UNCHANGED <<local, edits, ignored>>
  BY Zenon DEF RefreshStep, Fallback, CheckStack, InitList, InitGone, ProposeDel, RemoveDone, ProposeAdd,
         ProposeMod, Propose, NewDone, Recur, RedoUpper, Return, Finish, StackOnly, Working, user
<1>3. Perform => UNCHANGED <<local, edits, ignored>>
  BY DEF Perform, ReadAttr, PutHist, Upload, UploadGone, MkDir, SkipRemote, DeleteRemote, DeleteRefused,
         Record, RecordNew, Forget, Goto, Working, user
<1> QED BY <1>1, <1>2, <1>3 DEF Next, Program

(* Whatever happens, what was known of the user's files stays true.                   *)
Forth ==
  \A p \in Paths : /\ \A v \in Versions : LocalFrom(p, v) => LocalFrom(p, v)'
                   /\ \A a : Stale(p, a) => Stale(p, a)'

LEMMA GoesForth ==
  ASSUME Types, Locals, ToldApart, Next
  PROVE  /\ Locals' /\ Forth
         /\ \A p \in Paths : \A a : cur'[p] = cur[p] /\ Sync(p, a) => Sync(p, a)'
<1>1. CASE User
  BY <1>1, UserKeeps DEF Forth
<1>2. CASE UNCHANGED <<local, edits>>
  BY <1>2, OthersKeep DEF Forth
<1> QED BY <1>1, <1>2, LocalDo

(* Unless it is Record that steps, what a path leads to it has led to before.           *)
Fewer == \A p \in AnyPath : At(recs', p) # 0 => SameAt(recs, recs', p)

LEMMA GetsFewer ==
  ASSUME Types, NEW P, Now(P), UNCHANGED registry \/ Forget
  PROVE  Fewer /\ Active(recs') \subseteq Active(recs) /\ SameInUse(recs, recs')
<1>1. CASE UNCHANGED registry
  BY <1>1 DEF registry, Fewer, SameAt, SameInUse
<1>2. CASE Forget
  BY <1>2, ForgetIs DEF ForgetDoes, Fewer
<1> QED BY <1>1, <1>2

LEMMA FewerFiles ==
  ASSUME Fewer, NEW p \in Paths, FileAt(recs', p)
  PROVE  FileAt(recs, p) /\ AttrAt(recs', p) = AttrAt(recs, p)
BY DEF Fewer, SameAt, FileAt, AnyPath

LEMMA StaleStays ==
  ASSUME Forth, Fewer, NEW p, AllStale(p)
  PROVE  AllStale(p)'
BY FewerFiles DEF AllStale, Forth

(* What changes on the remote was out of date in the registry, or not recorded.         *)
LEMMA OverStale ==
  ASSUME Types, NEW P, Now(P), Next, Remembers, DeletesStale, ModifiesStale, NEW p \in Paths,
         FileAt(recs, p), cur'[p] # cur[p]
  PROVE  Stale(p, AttrAt(recs, p))
<1>1. cur \in Trees /\ DOMAIN cur = Paths /\ At(recs, p) # 0
  BY DEF Types, Trees, FileAt
<1>2. ASSUME pc = "hist", act.path \in Paths, cur' = Drop(cur, act.path)
      PROVE  Stale(p, AttrAt(recs, p))
  <2>1. p = act.path \/ act.path \in Above(p)
    <3>1. p \in {act.path} \cup Below(cur, act.path)
      BY <1>1, <1>2 DEF Drop
    <3> QED BY <1>1, <1>2, <3>1, BelowAbove
  <2>2. CASE Deleting
    BY <1>2, <2>1, <2>2 DEF DeletesStale, AllStale, Busy
  <2>3. CASE ~Deleting
    <3>1. ChangeIs(recs, P, Top, "hist", act)
      BY <1>2, <2>3, ActFacts DEF Busy
    <3>2. act.type = "MODFILE" /\ \E r \in Active(recs) : P[r] = act.path /\ ~recs[r].isdir
      BY <3>1 DEF ChangeIs
    <3>3. Forest(recs, P)
      BY <1>2, Acting DEF Busy
    <3>4. act.path \notin Above(p)
      <4> SUFFICES ASSUME act.path \in Above(p) PROVE FALSE
        OBVIOUS
      <4>1. DirAt(recs, act.path)
        BY <1>1, <3>3, FilesInDirs
      <4>2. \A r \in Active(recs) : P[r] = act.path => At(recs, act.path) = r
        BY <1>2, <3>3, AtFinds DEF AnyPath
      <4> QED BY <3>2, <4>1, <4>2 DEF DirAt
    <3> QED BY <1>2, <2>1, <3>2, <3>4 DEF ModifiesStale
  <2> QED BY <2>2, <2>3
<1>3. ASSUME pc \in {"upload", "mkdir"}, Within(cur, cur', Above(act.path) \cup {act.path})
      PROVE  Stale(p, AttrAt(recs, p))
  <2>1. p \in Above(act.path) \cup {act.path}
    BY <1>3 DEF Within
  <2>2. p \notin Above(act.path)
    BY <1>1, <1>3, AddsFind, RecordAtIsAt DEF FileAt, Dirs
  <2>3. act.type = "MODFILE" /\ pc = "upload"
    BY <1>1, <1>3, <2>1, <2>2, AddsFind, RecordAtIsAt
  <2> QED BY <2>1, <2>2, <2>3 DEF ModifiesStale
<1>4. ASSUME pc = "unlink", recs[Leaf.id].isdir => cur' = DelDirFrom(cur, Leaf.path),
             ~recs[Leaf.id].isdir => cur' = DelFileFrom(cur, Leaf.path)
      PROVE  Stale(p, AttrAt(recs, p))
  <2>1. p = Leaf.path
    BY <1>1, <1>4 DEF DelDirFrom, DelFileFrom
  <2>2. Deleting
    BY <1>4, ActFacts DEF Busy
  <2>3. PICK r, u : DeleteFacts(P, r, u)
    BY <1>4, <2>2, DeleteKnows DEF Busy
  <2>4. p = act.path \/ act.path \in Above(p)
    <3>1. act.path \in Paths
      BY <2>3 DEF DeleteFacts
    <3>2. p = act.path \/ p \in Below(cur, act.path)
      BY <1>1, <2>1, <2>3, LeafBelow
    <3> QED BY <1>1, <3>1, <3>2, BelowAbove
  <2> QED BY <1>4, <2>2, <2>4 DEF DeletesStale, AllStale, Busy
<1> QED BY <1>2, <1>3, <1>4, ChangesAt

LEMMA BackedStays ==
  ASSUME Types, Locals, ToldApart, NEW P, Now(P), Next, Remembers, DeletesStale, ModifiesStale, NEW p \in Paths,
         FileAt(recs, p)
  PROVE  Backed(p, AttrAt(recs, p)) /\ \A a : a = AttrAt(recs, p) => Backed(p, a)'
<1> DEFINE b == AttrAt(recs, p)
<1>1. Backed(p, b)
  BY DEF Remembers
<1>2. Stale(p, b) \/ cur'[p] = cur[p]
  BY OverStale
<1> HIDE DEF b
<1>3. /\ \A a : Stale(p, a) => Stale(p, a)'
      /\ \A a : cur'[p] = cur[p] /\ Sync(p, a) => Sync(p, a)'
  BY GoesForth DEF Forth
<1>4. ASSUME NEW a, a = b PROVE Backed(p, a)'
  <2>1. Stale(p, a) \/ (cur'[p] = cur[p] /\ Sync(p, a))
    BY <1>1, <1>2, <1>4 DEF Backed
  <2> QED BY <1>3, <2>1 DEF Backed
<1> QED BY <1>1, <1>4 DEF b

LEMMA RemembersStep ==
  ASSUME Types, Locals, ToldApart, NEW P, Now(P), Next, Core
  PROVE  Remembers'
<1> SUFFICES ASSUME NEW p \in Paths, NEW a, FileAt(recs', p), a = AttrAt(recs', p)
             PROVE  Backed(p, a)'
  BY DEF Remembers
<1>1. Remembers /\ DeletesStale /\ ModifiesStale /\ ReadsKnown
  BY DEF Core
<1>2. CASE UNCHANGED registry \/ Forget
  <2>1. FileAt(recs, p) /\ a = AttrAt(recs, p)
    BY <1>2, GetsFewer, FewerFiles
  <2> QED BY <1>1, <2>1, BackedStays
<1>3. CASE Record
  <2>1. RecordDoes
    BY <1>3, RecordIs
  <2>2. p \in AnyPath /\ pc = "record" /\ cur' = cur
    BY <1>3 DEF AnyPath, Record, remote
  <2>3. CASE p # act.path
    <3>1. SameAt(recs, recs', p)
      BY <2>1, <2>2, <2>3 DEF RecordDoes
    <3>2. FileAt(recs, p) /\ a = AttrAt(recs, p)
      BY <3>1 DEF SameAt, FileAt
    <3> QED BY <1>1, <3>2, BackedStays
  <2>4. CASE p = act.path /\ act.type # "ADDDIR" /\ ~act.pending
    <3>1. a = act.attr
      BY <2>1, <2>4 DEF RecordDoes
    <3>2. Backed(p, a)
      BY <1>1, <2>2, <2>4, <3>1 DEF ReadsKnown
    <3>3. /\ \A b : Stale(p, b) => Stale(p, b)'
          /\ \A b : cur'[p] = cur[p] /\ Sync(p, b) => Sync(p, b)'
      BY GoesForth DEF Forth
    <3> QED BY <2>2, <3>2, <3>3 DEF Backed
  <2>5. CASE p = act.path /\ act.type = "MODFILE" /\ act.pending
    <3>1. FileAt(recs, p) /\ a = AttrAt(recs, p)
      BY <2>1, <2>5 DEF RecordDoes
    <3> QED BY <1>1, <3>1, BackedStays
  <2>6. CASE p = act.path /\ act.type = "ADDFILE" /\ act.pending
    <3>1. a.time = 0
      BY <2>1, <2>6 DEF RecordDoes
    <3> QED BY <3>1 DEF Backed, Stale
  <2>7. act.type \in {"MODFILE", "ADDFILE", "ADDDIR"}
    BY <2>2, ActFacts, Acting DEF Busy, Now, Shaped, Going, ActIs, Deleting
  <2>8. p = act.path => act.type # "ADDDIR"
    BY <2>1 DEF RecordDoes, FileAt
  <2> QED BY <2>3, <2>4, <2>5, <2>6, <2>7, <2>8
<1> QED BY <1>2, <1>3, RecsDo

-----------------------------------------------------------------------------
(* What a step does to the stack.  Below its top nothing changes, unless the walk       *)
(* enters a directory.                                                         *)
Nested(s, t) == \A i \in 1 .. Len(t) - 1 : i \in 1 .. Len(s) - 1 /\ t[i] = s[i] /\ t[i + 1].rid = s[i + 1].rid

LEMMA Retop ==
  ASSUME NEW s \in Seq(RefreshIter), Len(s) # 0, NEW it
  PROVE  LET t == [s EXCEPT ![Len(s)] = it] IN
         /\ Len(t) = Len(s) /\ t[Len(s)] = it /\ \A i \in 1 .. Len(s) - 1 : t[i] = s[i]
         /\ it.rid = s[Len(s)].rid => Nested(s, t)
<1> DEFINE m == Len(s)
           t == [s EXCEPT ![m] = it]
           S == RefreshIter \cup {it}
<1>1. m \in Nat \ {0} /\ s \in [1 .. m -> RefreshIter]
  BY LenProperties
<1>2. m \in 1 .. m /\ \A i \in 1 .. m - 1 : i \in 1 .. m /\ i # m /\ i + 1 \in 1 .. m
  <2> HIDE DEF m
  <2> QED BY <1>1
<1>3. t \in [1 .. m -> S] /\ t[m] = it /\ \A i \in 1 .. m : i # m => t[i] = s[i]
  BY <1>1, <1>2, Zenon
<1> HIDE DEF t, S
<1>4. Len(t) = m
  <2> HIDE DEF m
  <2> QED BY <1>1, <1>3, FunctionIsSeq
<1>5. it.rid = s[m].rid => \A i \in 1 .. m : t[i].rid = s[i].rid
  BY <1>2, <1>3
<1> HIDE DEF m
<1>6. \A i \in 1 .. m - 1 : t[i] = s[i]
  BY <1>2, <1>3
<1>7. it.rid = s[m].rid => Nested(s, t)
  BY <1>2, <1>4, <1>5, <1>6 DEF Nested, m
<1> QED BY <1>3, <1>4, <1>6, <1>7, Zenon DEF t, m

LEMMA Unstack ==
  ASSUME NEW P, Stack(recs, P, restate), Len(restate) >= 2
  PROVE  /\ Nested(restate, Popped) /\ Nested(restate, PoppedToInit)
         /\ Popped[Len(Popped)] = restate[Len(restate) - 1]
         /\ PoppedToInit[Len(PoppedToInit)].stage = "INIT"
<1> DEFINE m == Len(restate)
           t == SubSeq(restate, 1, m - 1)
           it == [t[m - 1] EXCEPT !.stage = "INIT", !.files = <<>>]
<1>1. m \in Nat \ {0, 1} /\ restate \in Seq(RefreshIter) /\ \A i \in 1 .. m : restate[i] \in RefreshIter
  BY TopFacts, ElementOfSeq DEF Stack
<1>2. t \in Seq(RefreshIter) /\ Len(t) = m - 1 /\ \A i \in 1 .. m - 1 : t[i] = restate[i]
  <2>1. 1 \in Int /\ m - 1 \in Int /\ \A i \in 1 .. m - 1 : restate[i] \in RefreshIter
    BY <1>1
  <2>2. /\ SubSeq(restate, 1, m - 1) \in Seq(RefreshIter)
        /\ Len(SubSeq(restate, 1, m - 1)) = IF 1 <= m - 1 THEN m - 1 - 1 + 1 ELSE 0
        /\ \A i \in 1 .. m - 1 - 1 + 1 : SubSeq(restate, 1, m - 1)[i] = restate[1 + i - 1]
    <3> HIDE DEF m
    <3> QED BY <2>1, SubSeqProperties
  <2>3. 1 <= m - 1 /\ m - 1 - 1 + 1 = m - 1 /\ \A i \in 1 .. m - 1 : 1 + i - 1 = i
    BY <1>1
  <2> QED BY <2>2, <2>3
<1>3. Popped = t /\ PoppedToInit = [t EXCEPT ![Len(t)] = it]
  BY <1>2 DEF Popped, PoppedToInit
<1> HIDE DEF t
<1>4. m - 1 \in 1 .. m - 1 /\ Len(t) # 0 /\ \A i \in 1 .. (m - 1) - 1 : i \in 1 .. m - 1 /\ i + 1 \in 1 .. m - 1
  BY <1>1, <1>2
<1> HIDE DEF m
<1>5. it.rid = t[Len(t)].rid /\ it.stage = "INIT"
  <2>1. t[m - 1] \in RefreshIter
    BY <1>2, <1>4, ElementOfSeq
  <2> QED BY <1>2, <2>1 DEF RefreshIter
<1> HIDE DEF it
<1>6. Nested(restate, t)
  BY <1>2, <1>4 DEF Nested, m
<1> DEFINE u == [t EXCEPT ![Len(t)] = it]
<1>7. Len(u) = Len(t) /\ u[Len(t)] = it /\ Nested(t, u)
  BY <1>2, <1>4, <1>5, Retop
<1> HIDE DEF u
<1>8. Nested(restate, u)
  <2> SUFFICES ASSUME NEW i \in 1 .. Len(u) - 1
               PROVE  i \in 1 .. m - 1 /\ u[i] = restate[i] /\ u[i + 1].rid = restate[i + 1].rid
    BY DEF Nested, m
  <2>1. i \in 1 .. Len(t) - 1 /\ u[i] = t[i] /\ u[i + 1].rid = t[i + 1].rid
    BY <1>7 DEF Nested
  <2> QED BY <1>6, <2>1 DEF Nested, m
<1> QED BY <1>2, <1>3, <1>4, <1>5, <1>6, <1>7, <1>8 DEF u, m

(* A step that does not list a directory keeps the listing that the top of the stack    *)
(* works on, and goes on with it.                                              *)
TopStays ==
  Top'.stage \in {"REMOVE", "NEW"} =>
    /\ Listed /\ Top'.rid = Top.rid /\ Top'.files = Top.files
    /\ Top'.stage = "REMOVE" => Top.stage = "REMOVE"
    /\ Top.stage = "NEW" => \A k \in Nat : k > Top'.prog => k > Top.prog

Tops ==
  /\ InitList \/ TopStays
  /\ Recur \/ Nested(restate, restate')
  /\ Top'.stage \in {"RECUR", "RETURN"} =>
       \/ Running /\ UNCHANGED restate
       \/ NewDone \/ Recur \/ Return \/ (RedoUpper /\ Len(restate) = 1)
  /\ Top'.stage = "REDOUPPER" => (Running /\ UNCHANGED restate) \/ InitGone
  /\ Top'.stage = "NEW" => (Running /\ UNCHANGED restate) \/ ProposeAdd \/ ProposeMod \/ Top'.prog = 0

LEMMA SameTops ==
  ASSUME NEW P, Now(P), Running, UNCHANGED restate
  PROVE  Tops
<1>1. Stack(recs, P, restate)
  BY DEF Now, Shaped, Going, Running
<1>2. Top \in RefreshIter /\ Len(restate) \in Nat
  BY <1>1, TopFacts DEF Top
<1>3. Top' = Top /\ Nested(restate, restate') /\ Top.prog \in Nat
  BY <1>2 DEF Top, Nested, RefreshIter
<1>4. TopStays
  BY <1>3 DEF TopStays, Listed
<1> QED BY <1>3, <1>4 DEF Tops

LEMMA NewTops ==
  ASSUME NEW P, Stack(recs, P, restate), NEW it, restate' = WithTop(it)
  PROVE  /\ Top' = it /\ Len(restate') = Len(restate)
         /\ it.rid = Top.rid => Nested(restate, restate')
<1>1. restate \in Seq(RefreshIter) /\ Len(restate) # 0
  BY TopFacts DEF Stack
<1> DEFINE t == [restate EXCEPT ![Len(restate)] = it]
<1>2. Len(t) = Len(restate) /\ t[Len(restate)] = it /\ (it.rid = Top.rid => Nested(restate, t))
  BY <1>1, Retop DEF Top
<1>3. restate' = t
  BY DEF WithTop
<1> HIDE DEF t
<1> QED BY <1>2, <1>3 DEF Top

LEMMA RunBegins ==
  ASSUME Next, Running'
  PROVE  Start \/ Running
<1>1. ASSUME pc \in Ended, ~Start PROVE pc' \in Ended
  <2>1. ~RefreshStep /\ ~Perform /\ ~Fails
    BY <1>1, Zenon DEF Ended, RefreshStep, Fallback, CheckStack, InitList, InitGone, ProposeDel, RemoveDone, ProposeAdd,
         ProposeMod, NewDone, Recur, RedoUpper, Return, Finish, InStage, Perform, ReadAttr, PutHist, Upload,
         UploadGone, MkDir, Record, SkipRemote, DeleteRemote, DeleteRefused, Forget, Fails, PutHistFails,
         UploadLocked, UploadFails, MkDirFails, DeleteFails, DelDirMissed, Crash
  <2>2. User => pc' = pc
    BY DEF User, SaveFile, MakeDir, Delete, ToggleIgnore, Edit
  <2> QED BY <1>1, <2>1, <2>2 DEF Next, Program
<1> QED BY <1>1 DEF Running

LEMMA StackDoes ==
  ASSUME Types, NEW P, Now(P), Next, Running'
  PROVE  Tops
<1>1. Start \/ Running
  BY RunBegins
<1>2. CASE Start
  <2>1. NewIter(ROOT).stage = "INIT" /\ restate' = <<NewIter(ROOT)>>
    BY <1>2 DEF Start, NewIter
  <2> DEFINE it == NewIter(ROOT)
  <2> HIDE DEF it
  <2>2. Len(restate') = 1 /\ Top' = it
    BY <2>1 DEF Top, it
  <2> QED BY <2>1, <2>2 DEF Tops, TopStays, Nested, it
<1> SUFFICES ASSUME Running PROVE Tops
  BY <1>1, <1>2
<1>3. Stack(recs, P, restate)
  BY DEF Now, Shaped, Going, Running
<1>4. Top \in RefreshIter /\ Len(restate) \in Nat \ {0}
  BY <1>3, TopFacts DEF Top
<1>5. CASE UNCHANGED restate
  BY <1>5, SameTops
<1>6. CASE InitList
  <2> DEFINE it == [rid |-> Top.rid, name |-> NameOf(Top.rid), stage |-> "REMOVE",
                    prog |-> 0, files |-> Listing(InitPath)]
  <2>1. restate' = WithTop(it)
    BY <1>6 DEF InitList
  <2>2. it.rid = Top.rid /\ it.stage = "REMOVE"
    OBVIOUS
  <2> HIDE DEF it
  <2>3. Top' = it /\ Nested(restate, restate')
    BY <1>3, <2>1, <2>2, NewTops
  <2> QED BY <1>6, <2>2, <2>3 DEF Tops
<1>7. ASSUME NEW it, restate' = WithTop(it), it.rid = Top.rid, it.files = Top.files, it.prog \in Nat,
             \/ it.stage = "REDOUPPER" /\ InitGone
             \/ it.stage \in {"RECUR", "RETURN"} /\ (NewDone \/ Recur \/ (RedoUpper /\ Len(restate) = 1))
             \/ it.stage \in {"REMOVE", "NEW"} /\ Top.stage = "REMOVE" /\ (it.stage = "NEW" => it.prog = 0)
             \/ it.stage = "NEW" /\ Top.stage = "NEW" /\ it.prog >= Top.prog /\ (ProposeAdd \/ ProposeMod)
      PROVE  Tops
  <2>1. Top' = it /\ Nested(restate, restate')
    BY <1>3, <1>7, NewTops
  <2>2. it.prog >= Top.prog => \A k \in Nat : k > it.prog => k > Top.prog
    <3> DEFINE a == it.prog
               b == Top.prog
    <3>1. a \in Nat /\ b \in Nat
      BY <1>4, <1>7 DEF RefreshIter
    <3> HIDE DEF a, b
    <3>2. a >= b => \A k \in Nat : k > a => k > b
      BY <3>1
    <3> QED BY <3>2 DEF a, b
  <2> QED BY <1>7, <2>1, <2>2 DEF Tops, TopStays, Listed
<1>8. CASE ProposeDel
  <2>1. PICK r \in {NextToRemove} \ {0} :
          restate' = WithTop([Top EXCEPT !.stage = IF recs[r].islast THEN "NEW" ELSE @,
                                         !.prog = NextSibling(recs, r)])
    BY <1>8 DEF ProposeDel
  <2> DEFINE it == [Top EXCEPT !.stage = IF recs[r].islast THEN "NEW" ELSE @, !.prog = NextSibling(recs, r)]
  <2>2. pc = "stage" /\ Top.stage = "REMOVE"
    BY <1>8 DEF ProposeDel, InStage
  <2>3. NextSibling(recs, r) \in Nat
    <3>1. r \in Kids(recs, P, Top.rid)
      BY <2>1, <2>2, ToRemove
    <3>2. recs[r] \in RecordItem
      BY <3>1, <2>2, AtStage, KidFacts
    <3> QED BY <3>2 DEF NextSibling, RecordItem
  <2>4. /\ it.rid = Top.rid /\ it.files = Top.files /\ it.prog \in Nat /\ it.stage \in {"REMOVE", "NEW"}
        /\ it.stage = "NEW" => it.prog = 0
    BY <1>4, <2>2, <2>3 DEF RefreshIter, NextSibling
  <2> HIDE DEF it
  <2> QED BY <1>7, <2>1, <2>2, <2>4 DEF it
<1>9. CASE RemoveDone
  <2> DEFINE it == [Top EXCEPT !.stage = "NEW", !.prog = 0]
  <2>1. restate' = WithTop(it) /\ Top.stage = "REMOVE"
    BY <1>9 DEF RemoveDone, InStage
  <2>2. it.rid = Top.rid /\ it.files = Top.files /\ it.prog \in Nat /\ it.prog = 0 /\ it.stage = "NEW"
    BY <1>4 DEF RefreshIter
  <2> HIDE DEF it
  <2> QED BY <1>7, <2>1, <2>2
<1>10. CASE ProposeAdd \/ ProposeMod
  <2>1. PICK i \in NextNew : restate' = WithTop([Top EXCEPT !.prog = i])
    BY <1>10 DEF ProposeAdd, ProposeMod, Propose
  <2> DEFINE it == [Top EXCEPT !.prog = i]
  <2>2. Top.stage = "NEW"
    BY <1>10 DEF ProposeAdd, ProposeMod, InStage
  <2>3. i \in Nat /\ i >= Top.prog
    <3>1. i \in DOMAIN Top.files /\ i > Top.prog
      BY <2>1 DEF NextNew, NewItems
    <3>2. Top.prog \in Nat /\ Top.files \in Seq(Item)
      BY <1>4 DEF RefreshIter
    <3>3. i \in Nat
      BY <3>1, <3>2, LenProperties
    <3> QED BY <3>1, <3>2, <3>3
  <2>4. it.rid = Top.rid /\ it.files = Top.files /\ it.prog = i /\ it.stage = "NEW"
    BY <1>4, <2>2 DEF RefreshIter
  <2> HIDE DEF it
  <2> QED BY <1>7, <1>10, <2>1, <2>2, <2>3, <2>4 DEF it
<1>11. CASE NewDone
  <2> DEFINE it == [Top EXCEPT !.stage = "RECUR", !.prog = 0]
  <2>1. restate' = WithTop(it)
    BY <1>11 DEF NewDone
  <2>2. it.rid = Top.rid /\ it.files = Top.files /\ it.prog \in Nat /\ it.stage = "RECUR"
    BY <1>4 DEF RefreshIter
  <2> HIDE DEF it
  <2> QED BY <1>7, <1>11, <2>1, <2>2
<1>12. ASSUME RedoUpper \/ Recur, restate' = WithTop([Top EXCEPT !.stage = "RETURN"]), RedoUpper => Len(restate) = 1
       PROVE  Tops
  <2> DEFINE it == [Top EXCEPT !.stage = "RETURN"]
  <2>1. it.rid = Top.rid /\ it.files = Top.files /\ it.prog \in Nat /\ it.stage = "RETURN"
    BY <1>4 DEF RefreshIter
  <2> HIDE DEF it
  <2> QED BY <1>7, <1>12, <2>1 DEF it
<1>13. CASE Recur
  <2> DEFINE r == NextToEnter
  <2>1. CASE r = 0
    <3>1. restate' = WithTop([Top EXCEPT !.stage = "RETURN"])
      BY <1>13, <2>1 DEF Recur
    <3> HIDE DEF r
    <3>2. pc = "stage" /\ Top.stage = "RECUR"
      BY <1>13 DEF Recur, InStage
    <3>3. ~RedoUpper
      BY <3>2 DEF RedoUpper, InStage
    <3> QED BY <1>12, <1>13, <3>1, <3>3
  <2>2. CASE r # 0
    <3>1. PICK s : restate' = Append(s, NewIter(r)) /\ s \in Seq(RefreshIter \cup {s[Len(restate)]})
      <4> DEFINE next == NextSibling(recs, r)
                 it == [Top EXCEPT !.stage = IF next = 0 THEN "RETURN" ELSE "RECUR", !.prog = next]
                 s == [restate EXCEPT ![Len(restate)] = it]
      <4>1. restate' = Append(s, NewIter(r))
        BY <1>13, <2>2 DEF Recur, WithTop
      <4> HIDE DEF it
      <4>2. Len(restate) \in 1 .. Len(restate) /\ restate \in [1 .. Len(restate) -> RefreshIter]
        BY <1>3, <1>4, TopFacts
      <4> DEFINE m == Len(restate)
                 S == RefreshIter \cup {s[m]}
      <4>3. s \in [1 .. m -> S]
        BY <4>2
      <4>4. s \in Seq(S)
        <5> HIDE DEF s, m, S
        <5>1. m \in Nat
          BY <1>4 DEF m
        <5> QED BY <4>3, <5>1, FunctionIsSeq
      <4> QED BY <4>1, <4>4
    <3> DEFINE new == NewIter(r)
               S == RefreshIter \cup {s[Len(restate)]} \cup {new}
    <3>2. new.stage = "INIT"
      BY DEF NewIter
    <3> HIDE DEF new
    <3>3. s \in Seq(S) /\ new \in S
      BY <3>1, SeqMonotonic
    <3> HIDE DEF S
    <3>4. restate'[Len(restate')] = new
      BY <3>1, <3>3, AppendProperties DEF new
    <3> QED BY <1>13, <3>2, <3>4 DEF Tops, TopStays, Top
  <2> QED BY <2>1, <2>2
<1>14. CASE RedoUpper
  <2>1. CASE Len(restate) = 1
    BY <1>12, <1>14, <2>1 DEF RedoUpper
  <2>2. CASE Len(restate) # 1
    <3>1. Len(restate) >= 2
      BY <1>4, <2>2, SMTT(60)
    <3>2. restate' = PoppedToInit
      BY <1>14, <2>2 DEF RedoUpper
    <3>3. Nested(restate, PoppedToInit) /\ PoppedToInit[Len(PoppedToInit)].stage = "INIT"
      BY <1>3, <3>1, Unstack
    <3> HIDE DEF PoppedToInit
    <3> QED BY <3>2, <3>3 DEF Tops, TopStays, Top
  <2> QED BY <2>1, <2>2
<1>15. CASE Return
  <2>1. Len(restate) >= 2 /\ restate' = Popped
    BY <1>4, <1>15 DEF Return
  <2>2. /\ Nested(restate, Popped) /\ Popped[Len(Popped)] = restate[Len(restate) - 1]
        /\ restate[Len(restate) - 1].stage \in {"RECUR", "RETURN"}
    BY <1>3, <2>1, Unstack, PopStack
  <2> QED BY <1>15, <2>1, <2>2 DEF Tops, TopStays, Top
<1>16. CASE InitGone
  <2>1. \/ pc' = "TooManyFails"
        \/ restate' = WithTop([Top EXCEPT !.name = NameOf(Top.rid), !.files = <<>>, !.stage = "REDOUPPER"])
    BY <1>16 DEF InitGone, RecordFail
  <2> DEFINE it == [Top EXCEPT !.name = NameOf(Top.rid), !.files = <<>>, !.stage = "REDOUPPER"]
  <2>2. it.rid = Top.rid /\ it.stage = "REDOUPPER"
    BY <1>4 DEF RefreshIter
  <2>3. restate' = WithTop(it)
    BY <2>1 DEF Running, Ended
  <2> HIDE DEF it
  <2>4. Top' = it /\ Nested(restate, restate')
    BY <1>3, <2>2, <2>3, NewTops
  <2> QED BY <1>16, <2>2, <2>4 DEF Tops, TopStays
<1>17. CASE Fallback
  <2>1. restate' = PoppedToInit /\ Len(restate) >= 2
    BY <1>17 DEF Fallback, RecordFail, Running, Ended
  <2>2. Nested(restate, PoppedToInit) /\ PoppedToInit[Len(PoppedToInit)].stage = "INIT"
    BY <1>3, <2>1, Unstack
  <2> HIDE DEF PoppedToInit
  <2> QED BY <2>1, <2>2 DEF Tops, TopStays, Top
<1>18. CASE CheckStack
  BY <1>5, <1>18, CheckStackShaped DEF walk
<1>19. Finish => ~Running'
  BY DEF Finish, Running, Ended
<1>20. User => UNCHANGED restate
  BY DEF User, SaveFile, MakeDir, Delete, ToggleIgnore, Edit, walk
<1>21. Perform => UNCHANGED restate
  BY DEF Perform, ReadAttr, PutHist, Upload, UploadGone, MkDir, SkipRemote, DeleteRemote, DeleteRefused,
         Record, Forget, Goto, walk, EndRun, Running, Ended
<1>22. Fails => UNCHANGED restate
  BY DEF Fails, PutHistFails, UploadLocked, UploadFails, MkDirFails, DeleteFails, DelDirMissed, Crash, EndRun,
         walk, Running, Ended
<1>23. RefreshStep => Tops
  BY <1>6, <1>8, <1>9, <1>10, <1>11, <1>13, <1>14, <1>15, <1>16, <1>17, <1>18, <1>19 DEF RefreshStep
<1> QED BY <1>2, <1>5, <1>20, <1>21, <1>22, <1>23 DEF Next, Program

LEMMA ParentPath ==
  ASSUME NEW q \in Paths
  PROVE  /\ Parent(q) \in AnyPath /\ q \in AnyPath /\ q[Len(q)] \in Names /\ q = Append(Parent(q), q[Len(q)])
         /\ Parent(q) = <<>> \/ Parent(q) \in Above(q)
<1>1. q \in Seq(Names) /\ Len(q) \in 1 .. Depth /\ Len(q) \in Nat
  BY PathSets, DepthAssumption
<1>2. q # <<>>
  <2>1. Len(q) # 0
    BY <1>1, DepthAssumption
  <2> QED BY <2>1
<1>3. /\ q = Append(Parent(q), q[Len(q)]) /\ Parent(q) \in Seq(Names) /\ q[Len(q)] \in Names
      /\ Len(Parent(q)) = Len(q) - 1
  BY <1>1, <1>2, SplitPath
<1>4. Parent(q) \in AnyPath
  BY <1>1, <1>3, PathSets, DepthAssumption
<1>5. CASE Len(q) = 1
  <2>1. Len(Parent(q)) = 0
    BY <1>3, <1>5
  <2>2. Parent(q) = <<>>
    BY <1>3, <2>1, EmptySeq
  <2> QED BY <1>3, <1>4, <2>2 DEF AnyPath
<1>6. CASE Len(q) # 1
  <2>1. Len(q) - 1 \in 1 .. Len(q) - 1
    <3>1. \A m \in Nat : m >= 1 /\ m # 1 => m - 1 \in 1 .. m - 1
      OBVIOUS
    <3>2. Len(q) \in Nat /\ Len(q) >= 1
      BY <1>1, DepthAssumption
    <3> QED BY <1>6, <3>1, <3>2
  <2>2. Parent(q) \in Above(q)
    BY <2>1 DEF Parent, Above
  <2> QED BY <1>3, <1>4, <2>2 DEF AnyPath
<1> QED BY <1>5, <1>6

LEMMA ListKeeps ==
  ASSUME Types, NEW P, Now(P), Forth, Fewer, TopStays, Running', RemovesStale, ListsKnown
  PROVE  RemovesStale' /\ ListsKnown'
<1> SUFFICES ASSUME Top'.stage \in {"REMOVE", "NEW"} PROVE RemovesStale' /\ ListsKnown'
  BY DEF RemovesStale, ListsKnown, Listed
<1>1. /\ Listed /\ Top'.rid = Top.rid /\ Top'.files = Top.files
      /\ Top'.stage = "REMOVE" => Top.stage = "REMOVE"
      /\ Top.stage = "NEW" => \A k \in Nat : k > Top'.prog => k > Top.prog
  BY DEF TopStays
<1>2. Running /\ Top.stage \in {"REMOVE", "NEW"}
  BY <1>1 DEF Listed
<1>3. Top \in RefreshIter /\ Top.rid # 0 /\ Top.prog \in Nat /\ Top.files \in Seq(Item)
  <2>1. Stack(recs, P, restate)
    BY <1>2 DEF Now, Shaped, Going, Running
  <2>2. Top \in RefreshIter
    BY <2>1, TopFacts DEF Top
  <2> QED BY <2>2 DEF RefreshIter
<1>4. ASSUME NEW q \in Paths, At(recs', Parent(q)) = Top'.rid
      PROVE  Here(q)
  <2>1. SameAt(recs, recs', Parent(q))
    BY <1>1, <1>3, <1>4, ParentPath DEF Fewer
  <2> QED BY <1>1, <1>4, <2>1 DEF SameAt, Here
<1>5. RemovesStale'
  <2> SUFFICES ASSUME Top'.stage = "REMOVE", NEW q \in Paths, At(recs', Parent(q)) = Top'.rid,
                      At(recs', q) # 0, ~Borne(recs', Top'.files, At(recs', q))
               PROVE  AllStale(q)'
    BY DEF RemovesStale, Here
  <2>1. SameAt(recs, recs', q)
    BY ParentPath DEF Fewer
  <2> DEFINE r == At(recs, q)
  <2>2. At(recs', q) = r /\ r # 0 /\ recs'[r].isdir = recs[r].isdir /\ recs'[r].name = recs[r].name
    BY <2>1 DEF SameAt
  <2> HIDE DEF r
  <2>3. ~Borne(recs, Top.files, r)
    BY <1>1, <2>2 DEF Borne
  <2>4. AllStale(q)
    BY <1>1, <1>2, <1>4, <2>2, <2>3 DEF RemovesStale, r
  <2> QED BY <2>4, StaleStays
<1>6. ListsKnown'
  <2> SUFFICES ASSUME NEW q \in Paths, NEW k, At(recs', Parent(q)) = Top'.rid, Lists(k, q)',
                      ~Top'.files[k].isdir, Top'.stage = "REMOVE" \/ k > Top'.prog,
                      NEW b, b = Top'.files[k].attr
               PROVE  KnownFrom(q, b)'
    BY DEF ListsKnown, Here
  <2>1. Lists(k, q) /\ ~Top.files[k].isdir /\ Top'.files[k] = Top.files[k]
    BY <1>1 DEF Lists
  <2>2. Top.stage = "REMOVE" \/ k > Top.prog
    <3> SUFFICES ASSUME Top.stage = "NEW", Top'.stage = "NEW" PROVE k > Top.prog
      BY <1>1, <1>2
    <3>1. k \in Nat
      BY <1>3, <2>1, LenProperties DEF Lists
    <3> QED BY <1>1, <3>1
  <2>3. KnownFrom(q, b)
    BY <1>1, <1>4, <2>1, <2>2 DEF ListsKnown
  <2>4. PICK x \in Versions :
          /\ b = AttrOf[x] /\ LocalFrom(q, x)
          /\ FileAt(recs, q) => AttrAt(recs, q).time = 0 \/ \E u \in Versions : AttrAt(recs, q) = AttrOf[u] /\ u <= x
    BY <2>3 DEF KnownFrom
  <2>5. LocalFrom(q, x)'
    BY <2>4 DEF Forth
  <2>6. FileAt(recs', q) => AttrAt(recs', q).time = 0 \/ \E u \in Versions : AttrAt(recs', q) = AttrOf[u] /\ u <= x
    BY <2>4, FewerFiles
  <2> QED BY <2>4, <2>5, <2>6 DEF KnownFrom
<1> QED BY <1>5, <1>6

(* An action is carried out as it was proposed.                                    *)
SameAction == act'.path = act.path /\ act'.type = act.type /\ act'.isignore = act.isignore

LEMMA BusySteps ==
  ASSUME Types, Next, pc' \in Busy
  PROVE  \/ ProposeDel \/ ProposeAdd \/ ProposeMod
         \/ /\ pc \in Busy /\ UNCHANGED restate /\ SameAction
            /\ pc' \in {"attr", "hist", "upload"} => pc \in {"attr", "hist", "upload"} /\ UNCHANGED registry
<1>1. \A a, b, c : /\ [act EXCEPT !.attr = a].path = act.path /\ [act EXCEPT !.attr = a].type = act.type
                   /\ [act EXCEPT !.attr = a].isignore = act.isignore
                   /\ [act EXCEPT !.pending = b].path = act.path /\ [act EXCEPT !.pending = b].type = act.type
                   /\ [act EXCEPT !.pending = b].isignore = act.isignore
                   /\ [act EXCEPT !.histfailed = c].path = act.path
                   /\ [act EXCEPT !.histfailed = c].type = act.type
                   /\ [act EXCEPT !.histfailed = c].isignore = act.isignore
  <2>1. act \in Action
    BY DEF Types
  <2> QED BY <2>1 DEF Action
<1>2. CASE User
  BY <1>2 DEF User, SaveFile, MakeDir, Delete, ToggleIgnore, Edit, walk, SameAction
<1>3. pc' # "idle" /\ pc' # "step" /\ pc' # "stage" /\ pc' # "RootFallback" /\ pc' # "TooManyFails"
  BY DEF Busy
<1>4. ~Start
  BY <1>3 DEF Start
<1>5. CASE RefreshStep
  <2>1. ~Fallback /\ ~CheckStack /\ ~InitGone /\ ~Finish
    BY <1>3 DEF Fallback, CheckStack, InitGone, Finish, RecordFail
  <2>2. ~InitList /\ ~RemoveDone /\ ~NewDone /\ ~Recur /\ ~RedoUpper /\ ~Return
    BY <1>3 DEF InitList, RemoveDone, NewDone, Recur, RedoUpper, Return, InStage
  <2> QED BY <1>5, <2>1, <2>2 DEF RefreshStep
<1>6. CASE ReadAttr
  BY <1>1, <1>6 DEF ReadAttr, Goto, walk, SameAction, Busy
<1>7. CASE PutHist
  BY <1>7 DEF PutHist, Goto, walk, SameAction, Busy
<1>8. CASE Upload \/ UploadGone \/ MkDir
  BY <1>1, <1>3, <1>8, ZenonT(60) DEF Upload, UploadGone, MkDir, Goto, EndRun, walk, SameAction, Busy
<1>9. CASE SkipRemote \/ DeleteRemote \/ DeleteRefused \/ Forget \/ Record
  BY <1>3, <1>9 DEF SkipRemote, DeleteRemote, DeleteRefused, Forget, Record, Goto, EndRun, walk, SameAction, Busy
<1>10. CASE PutHistFails
  BY <1>1, <1>3, <1>10, ZenonT(60) DEF PutHistFails, Fault, EndRun, walk, SameAction, Busy
<1>11. CASE UploadLocked \/ DelDirMissed
  BY <1>1, <1>11, ZenonT(60) DEF UploadLocked, DelDirMissed, Fault, walk, SameAction, Busy
<1>12. ~UploadFails /\ ~MkDirFails /\ ~DeleteFails /\ ~Crash
  BY <1>3 DEF UploadFails, MkDirFails, DeleteFails, Crash, EndRun
<1> QED BY <1>2, <1>4, <1>5, <1>6, <1>7, <1>8, <1>9, <1>10, <1>11, <1>12
        DEF Next, Program, Perform, Fails

(* What is proposed for deletion is out of date, where nothing is ignored.             *)
LEMMA ProposedDel ==
  ASSUME Types, NEW P, Now(P), ProposeDel, NoneIgnored
  PROVE  /\ pc = "stage" /\ Top.stage = "REMOVE" /\ act'.path \in Paths /\ Here(act'.path) /\ UNCHANGED registry
         /\ At(recs, act'.path) # 0 /\ ~Borne(recs, Top.files, At(recs, act'.path)) /\ ~act'.isignore
         /\ act'.type = IF DirAt(recs, act'.path) THEN "DELDIR" ELSE "DELFILE"
<1>1. pc = "stage" /\ Top.stage = "REMOVE" /\ UNCHANGED registry
  BY DEF ProposeDel, InStage
<1>2. PICK r \in {NextToRemove} \ {0} :
        /\ act'.type = (IF recs[r].isdir THEN "DELDIR" ELSE "DELFILE")
        /\ act'.path = Append(TopPath, NameOf(r))
        /\ act'.isignore = (Reclassified(r) /\ ~recs[r].isignore)
  BY DEF ProposeDel, NoAction
<1>3. Forest(recs, P) /\ Top.rid \in Dirs(recs) /\ TopPath = P[Top.rid]
  BY <1>1, AtStage
<1>4. r \in Kids(recs, P, Top.rid) /\ (Gone(r) \/ Reclassified(r))
  BY <1>1, <1>2, ToRemove
<1>5. P[r] = Append(P[Top.rid], recs[r].name) /\ r \in Active(recs)
  BY <1>3, <1>4, KidFacts
<1>6. P[r] \in Paths /\ At(recs, P[r]) = r /\ r # 0 /\ At(recs, Parent(P[r])) = Top.rid
  BY <1>3, <1>4, Entries
<1>7. act'.path = P[r]
  BY <1>2, <1>3, <1>5 DEF NameOf
<1>8. ~Reclassified(r)
  <2>1. ~recs[r].isignore /\ \A k \in DOMAIN Top.files : ~Top.files[k].isignore
    BY <1>1, <1>5 DEF NoneIgnored, Listed, Running, Ended
  <2> SUFFICES ASSUME Reclassified(r) PROVE FALSE
    OBVIOUS
  <2>2. PICK k \in ItemsNamed(NameOf(r)) : TRUE
    BY DEF Reclassified, Gone
  <2>3. k \in DOMAIN Top.files /\ Top.files[k].isignore # recs[r].isignore
    BY <2>2 DEF Reclassified, ItemsNamed
  <2>4. Top.files[k] \in Item /\ recs[r] \in RecordItem
    <3>1. Top.files \in Seq(Item)
      BY <1>1, AtStage DEF RefreshIter
    <3>2. Top.files[k] \in Item
      BY <2>3, <3>1, LenProperties, ElementOfSeq
    <3> QED BY <1>3, <1>4, <3>2, KidFacts
  <2>5. Top.files[k].isignore \in BOOLEAN /\ recs[r].isignore \in BOOLEAN
    BY <2>4 DEF Item, RecordItem
  <2> QED BY <2>1, <2>3, <2>5
<1>9. ~Borne(recs, Top.files, r)
  BY <1>4, <1>8, GoneIs
<1> QED BY <1>1, <1>2, <1>6, <1>7, <1>8, <1>9 DEF Here, DirAt

(* What is proposed for addition or modification stands in the listing.                *)
Adds(i) ==
  /\ act'.isignore = Top.files[i].isignore
  /\ act'.type = IF Top.files[i].isdir THEN "ADDDIR" ELSE "ADDFILE"
  /\ ~Top.files[i].isignore => pc' = IF Top.files[i].isdir THEN "mkdir" ELSE "attr"

Modifies(i) ==
  /\ ~act'.isignore /\ act'.type = "MODFILE" /\ pc' = "attr" /\ ~Top.files[i].isdir
  /\ FileAt(recs, act'.path) /\ Unlike(AttrAt(recs, act'.path), Top.files[i].attr)

LEMMA Proposed ==
  ASSUME Types, NEW P, Now(P), ProposeAdd \/ ProposeMod
  PROVE  /\ pc = "stage" /\ Top.stage = "NEW" /\ UNCHANGED registry
         /\ act'.path \in Paths /\ Here(act'.path) /\ ~act'.pending /\ act'.attr.time = 0
         /\ \E i \in NextNew : /\ Lists(i, act'.path) /\ i > Top.prog /\ Top' = [Top EXCEPT !.prog = i]
                               /\ Adds(i) \/ Modifies(i)
<1>1. pc = "stage" /\ Top.stage = "NEW" /\ UNCHANGED registry
  BY DEF ProposeAdd, ProposeMod, InStage, Propose
<1>2. PICK i \in NextNew :
        /\ restate' = WithTop([Top EXCEPT !.prog = i]) /\ act'.path = Append(TopPath, Top.files[i].name)
        /\ ~act'.pending /\ act'.attr.time = 0
        /\ Adds(i) \/ (/\ ~act'.isignore /\ act'.type = "MODFILE" /\ pc' = "attr"
                       /\ Child(Top.files[i].name) # 0)
  <2> DEFINE Goal == \E i \in NextNew :
        /\ restate' = WithTop([Top EXCEPT !.prog = i]) /\ act'.path = Append(TopPath, Top.files[i].name)
        /\ ~act'.pending /\ act'.attr.time = 0
        /\ Adds(i) \/ (/\ ~act'.isignore /\ act'.type = "MODFILE" /\ pc' = "attr"
                       /\ Child(Top.files[i].name) # 0)
  <2>1. CASE ProposeAdd
    <3>1. PICK i \in NextNew :
            Propose(i, [NoAction EXCEPT !.type = IF Top.files[i].isdir THEN "ADDDIR" ELSE "ADDFILE",
                                        !.path = Append(TopPath, Top.files[i].name),
                                        !.isignore = Top.files[i].isignore],
                    IF Top.files[i].isignore THEN "record" ELSE IF Top.files[i].isdir THEN "mkdir" ELSE "attr")
      BY <2>1 DEF ProposeAdd
    <3>2. /\ restate' = WithTop([Top EXCEPT !.prog = i]) /\ act'.path = Append(TopPath, Top.files[i].name)
          /\ ~act'.pending /\ act'.attr.time = 0 /\ Adds(i)
      BY <3>1 DEF Propose, NoAction, Adds
    <3> QED BY <3>2
  <2>2. CASE ProposeMod
    <3>1. PICK i \in NextNew :
            Child(Top.files[i].name) # 0 /\ Propose(i, Modification(Top.files[i].name, KeepHist), "attr")
      BY <2>2 DEF ProposeMod
    <3>2. /\ restate' = WithTop([Top EXCEPT !.prog = i]) /\ act'.path = Append(TopPath, Top.files[i].name)
          /\ ~act'.pending /\ act'.attr.time = 0 /\ ~act'.isignore /\ act'.type = "MODFILE" /\ pc' = "attr"
      BY <3>1 DEF Propose, Modification, NoAction
    <3> QED BY <3>1, <3>2
  <2> QED BY <2>1, <2>2
<1> DEFINE n == Top.files[i].name
<1>3. /\ Forest(recs, P) /\ Stack(recs, P, restate) /\ TopIs(recs, P, Top, "step", NoAction) /\ Top \in RefreshIter
      /\ Top.rid \in Dirs(recs) /\ TopPath = P[Top.rid] /\ i \in NewItems
  BY <1>1, AtStage DEF NextNew
<1>4. i \in DOMAIN Top.files /\ n \in Names /\ i > Top.prog
  <2>1. Top.files \in Seq(Item) /\ i \in DOMAIN Top.files /\ i > Top.prog
    BY <1>3 DEF RefreshIter, NewItems
  <2>2. Top.files[i] \in Item
    BY <2>1, LenProperties, ElementOfSeq
  <2> QED BY <2>1, <2>2 DEF Item
<1> HIDE DEF n
<1>5. Top' = [Top EXCEPT !.prog = i]
  BY <1>2, <1>3, NewTops
<1>6. act'.path = Append(P[Top.rid], n)
  BY <1>2, <1>3 DEF n
<1>7. act'.path \in Paths /\ Parent(act'.path) = P[Top.rid] /\ act'.path[Len(act'.path)] = n
  <2>1. P[Top.rid] \in Seq(Names) /\ Len(P[Top.rid]) \in Nat
    BY <1>3, KidFacts
  <2>2. Len(P[Top.rid]) < Depth
    BY <1>1, <1>3, <1>4 DEF TopIs
  <2>3. Append(P[Top.rid], n) \in Paths
    BY <1>4, <2>1, <2>2, AppendPath, PathSets, DepthAssumption
  <2> QED BY <1>4, <1>6, <2>1, <2>3, AppendPath
<1>8. Here(act'.path)
  BY <1>3, <1>7, Entries DEF Here
<1>9. Lists(i, act'.path)
  BY <1>4, <1>7 DEF Lists, n
<1>10. ASSUME Child(n) # 0
       PROVE  ~Top.files[i].isdir /\ FileAt(recs, act'.path) /\ Unlike(AttrAt(recs, act'.path), Top.files[i].attr)
  <2> DEFINE r == Child(n)
  <2>1. ChildIs(P, n)
    BY <1>3, <1>4, ChildFound
  <2>2. r \in Kids(recs, P, Top.rid) /\ recs[r].name = n /\ P[r] = act'.path
    BY <1>6, <1>10, <2>1 DEF ChildIs
  <2>3. Modified(r, Top.files[i])
    BY <1>3, <1>10 DEF NewItems, n
  <2> HIDE DEF r
  <2>4. r # 0 /\ At(recs, act'.path) = r
    BY <1>3, <2>2, Entries
  <2>5. Borne(recs, Top.files, r)
    BY <1>1, <1>3, <2>2 DEF TopIs, Doomed
  <2>6. PICK k \in DOMAIN Top.files : Top.files[k].name = n /\ Top.files[k].isdir = recs[r].isdir
    BY <2>2, <2>5 DEF Borne
  <2>7. k = i
    BY <1>1, <1>3, <1>4, <2>6 DEF TopIs, n
  <2> QED BY <2>3, <2>4, <2>6, <2>7 DEF Modified, Differs, Unlike, FileAt, AttrAt
<1>11. Adds(i) \/ Modifies(i)
  BY <1>2, <1>10 DEF Modifies, n
<1> QED BY <1>1, <1>2, <1>4, <1>5, <1>7, <1>8, <1>9, <1>11

(* A directory that is listed anew.                                                *)
LEMMA Relists ==
  ASSUME NEW P, Now(P), InitList
  PROVE  /\ pc = "stage" /\ Top.stage = "INIT" /\ UNCHANGED <<registry, user, remote, pc, act>>
         /\ InitPath = P[Top.rid] /\ IsLocalDir(InitPath) /\ Forest(recs, P) /\ Top.rid \in Dirs(recs)
         /\ Top'.rid = Top.rid /\ Top'.stage = "REMOVE" /\ Top'.prog = 0 /\ Top'.files = Listing(InitPath)
<1>1. pc = "stage" /\ Top.stage = "INIT" /\ UNCHANGED <<registry, user, remote, pc, act>> /\ IsLocalDir(InitPath)
  BY DEF InitList, InStage, StackOnly, Working
<1>2. Stack(recs, P, restate) /\ InitPath = P[Top.rid] /\ Forest(recs, P) /\ Top.rid \in Dirs(recs)
  BY <1>1, AtStage
<1>3. Top' = [rid |-> Top.rid, name |-> NameOf(Top.rid), stage |-> "REMOVE", prog |-> 0, files |-> Listing(InitPath)]
  BY <1>2, NewTops DEF InitList
<1> QED BY <1>1, <1>2, <1>3

(* The parts of Core, one step on.                                                 *)
LEMMA NoneIgnoredStep ==
  ASSUME Types, NEW P, Now(P), Next, NoneIgnored, Ignorable = {}
  PROVE  NoneIgnored'
<1>1. ASSUME NEW r \in Active(recs') PROVE ~recs'[r].isignore
  <2>1. CASE Record
    <3>1. RecordDoes
      BY <2>1, RecordIs
    <3>2. ~act.isignore
      BY <2>1 DEF Record, NoneIgnored, Busy
    <3>3. r \in Active(recs) \/ recs'[r].isignore = act.isignore
      BY <3>1 DEF RecordDoes
    <3>4. r \in Active(recs) => recs'[r].isignore = recs[r].isignore
      BY <3>1 DEF RecordDoes, SameInUse
    <3> QED BY <3>2, <3>3, <3>4 DEF NoneIgnored
  <2>2. CASE Forget \/ UNCHANGED registry
    <3>1. r \in Active(recs) /\ recs'[r].isignore = recs[r].isignore
      BY <2>2, GetsFewer DEF SameInUse
    <3> QED BY <3>1 DEF NoneIgnored
  <2> QED BY <2>1, <2>2, RecsDo
<1>2. ASSUME pc' \in Busy PROVE ~act'.isignore
  <2>1. CASE ProposeDel
    BY <2>1, ProposedDel
  <2>2. CASE ProposeAdd \/ ProposeMod
    <3>1. Listed
      BY <2>2, Proposed DEF Listed, Running, Ended
    <3>2. PICK i : i \in DOMAIN Top.files /\ (Adds(i) \/ Modifies(i))
      BY <2>2, Proposed DEF Lists
    <3> QED BY <3>1, <3>2 DEF Adds, Modifies, NoneIgnored
  <2>3. CASE pc \in Busy /\ SameAction
    BY <2>3 DEF SameAction, NoneIgnored
  <2> QED BY <1>2, <2>1, <2>2, <2>3, BusySteps
<1>3. ASSUME Listed', NEW k \in DOMAIN Top'.files PROVE ~Top'.files[k].isignore
  <2>1. InitList \/ TopStays
    BY <1>3, StackDoes DEF Listed, Tops
  <2>2. CASE InitList
    <3>1. Top'.files = Listing(InitPath)
      BY <2>2, Relists
    <3>2. ignored = {}
      BY DEF Types
    <3>3. \A p : \A i \in DOMAIN Listing(p) : ~Listing(p)[i].isignore
      <4> SUFFICES ASSUME NEW p, NEW i \in DOMAIN Listing(p) PROVE ~Listing(p)[i].isignore
        OBVIOUS
      <4> DEFINE names == IF Len(p) < Depth THEN {n \in Names : local[Append(p, n)] # None} ELSE {}
                 order == Sorted(names)
                 item(j) == LET q == Append(p, order[j]) IN
                   [name |-> order[j], isdir |-> local[q] = Dir, isignore |-> q \in ignored,
                    attr |-> IF IsFile(local[q]) THEN AttrOf[local[q]] ELSE [time |-> 0, size |-> 0]]
      <4>1. Listing(p) = [j \in 1 .. Cardinality(names) |-> item(j)]
        BY DEF Listing
      <4>2. \A j : item(j).isignore = (Append(p, order[j]) \in ignored)
        OBVIOUS
      <4> HIDE DEF names, item, order
      <4>3. Listing(p)[i].isignore = (Append(p, order[i]) \in ignored)
        BY <4>1, <4>2
      <4> QED BY <3>2, <4>3
    <3> QED BY <1>3, <3>1, <3>3
  <2>3. CASE TopStays
    BY <1>3, <2>3 DEF TopStays, Listed, NoneIgnored
  <2> QED BY <2>1, <2>2, <2>3
<1> QED BY <1>1, <1>2, <1>3 DEF NoneIgnored

LEMMA DeletesStaleStep ==
  ASSUME Types, Locals, ToldApart, NEW P, Now(P), Next, Core
  PROVE  DeletesStale'
<1> SUFFICES ASSUME pc' \in Busy, act'.type \in DelTypes PROVE AllStale(act.path)'
  BY DEF DeletesStale, Deleting, DelTypes
<1>1. Forth
  BY GoesForth
<1>2. CASE ProposeDel
  <2>1. /\ Listed /\ Top.stage = "REMOVE" /\ UNCHANGED registry /\ act'.path \in Paths /\ Here(act'.path)
        /\ At(recs, act'.path) # 0 /\ ~Borne(recs, Top.files, At(recs, act'.path))
    BY <1>2, ProposedDel DEF Core, Listed, Running, Ended
  <2>2. PICK p \in Paths : p = act'.path
    BY <2>1
  <2>3. AllStale(p)
    BY <2>1, <2>2 DEF Core, RemovesStale, Listed
  <2>4. Fewer
    BY <2>1, GetsFewer
  <2>5. AllStale(p)'
    BY <1>1, <2>3, <2>4, StaleStays
  <2> QED BY <2>2, <2>5 DEF AllStale
<1>3. CASE ProposeAdd \/ ProposeMod
  BY <1>3, Proposed DEF Adds, Modifies, DelTypes
<1>4. CASE pc \in Busy /\ SameAction
  <2>1. Deleting /\ act'.path = act.path
    BY <1>4 DEF SameAction, Deleting, DelTypes
  <2>2. AllStale(act.path)
    BY <1>4, <2>1 DEF Core, DeletesStale
  <2>3. ~Record
    BY DEF Record, Goto, Busy
  <2>4. Fewer
    BY <2>3, RecsDo, GetsFewer
  <2>5. PICK p : p = act.path
    OBVIOUS
  <2>6. AllStale(p)'
    BY <1>1, <2>2, <2>4, <2>5, StaleStays
  <2> QED BY <2>1, <2>5, <2>6 DEF AllStale
<1> QED BY <1>2, <1>3, <1>4, BusySteps

LEMMA ModifiesStaleStep ==
  ASSUME Types, Locals, ToldApart, NEW P, Now(P), Next, Core
  PROVE  ModifiesStale'
<1> SUFFICES ASSUME pc' \in {"attr", "hist", "upload"}, act'.type = "MODFILE"
             PROVE  Stale(act.path, AttrAt(recs, act.path))'
  BY DEF ModifiesStale
<1>1. Forth /\ pc' \in Busy
  BY GoesForth DEF Busy
<1>2. CASE ProposeDel
  BY <1>2, ProposedDel DEF Core
<1>3. CASE ProposeAdd \/ ProposeMod
  <2>1. PICK i : i \in DOMAIN Top.files /\ Lists(i, act'.path) /\ i > Top.prog /\ (Adds(i) \/ Modifies(i))
    BY <1>3, Proposed DEF Lists
  <2>2. Modifies(i) /\ Listed /\ Here(act'.path) /\ act'.path \in Paths /\ UNCHANGED registry
    BY <1>3, <2>1, Proposed DEF Adds, Listed, Running, Ended
  <2>3. PICK q \in Paths : q = act'.path
    BY <2>2
  <2>4. PICK b : b = Top.files[i].attr
    OBVIOUS
  <2>5. FileAt(recs, q) /\ Unlike(AttrAt(recs, q), b) /\ KnownFrom(q, b)
    BY <2>1, <2>2, <2>3, <2>4 DEF Modifies, Core, ListsKnown
  <2>6. PICK x \in Versions :
          /\ b = AttrOf[x] /\ LocalFrom(q, x)
          /\ AttrAt(recs, q).time = 0 \/ \E u \in Versions : AttrAt(recs, q) = AttrOf[u] /\ u <= x
    BY <2>5 DEF KnownFrom
  <2>7. Stale(q, AttrAt(recs, q))
    <3>1. CASE AttrAt(recs, q).time = 0
      BY <3>1 DEF Stale
    <3>2. CASE \E u \in Versions : AttrAt(recs, q) = AttrOf[u] /\ u <= x
      BY <2>5, <2>6, <3>2, StaleIf
    <3> QED BY <2>6, <3>1, <3>2
  <2>8. PICK a : a = AttrAt(recs, q)
    OBVIOUS
  <2>9. Stale(q, a)'
    BY <1>1, <2>7, <2>8 DEF Forth
  <2>10. AttrAt(recs', act'.path) = a
    BY <2>2, <2>3, <2>8 DEF registry
  <2> QED BY <2>3, <2>9, <2>10
<1>4. CASE pc \in {"attr", "hist", "upload"} /\ UNCHANGED registry /\ SameAction
  <2>1. act.type = "MODFILE" /\ act'.path = act.path /\ pc \in Busy
    BY <1>4 DEF SameAction, Busy
  <2>2. PICK q \in Paths : q = act.path
    BY <2>1, Acting
  <2>3. PICK a : a = AttrAt(recs, q)
    OBVIOUS
  <2>4. Stale(q, a)'
    BY <1>1, <1>4, <2>1, <2>2, <2>3 DEF Core, ModifiesStale, Forth
  <2>5. AttrAt(recs', act'.path) = a
    BY <1>4, <2>1, <2>2, <2>3 DEF registry
  <2> QED BY <2>1, <2>2, <2>4, <2>5
<1> QED BY <1>1, <1>2, <1>3, <1>4, BusySteps

(* What leads to the upload of a file and to its record.                             *)
LEMMA ChangeSteps ==
  ASSUME Types, Next, pc' \in {"attr", "hist", "upload", "record"}
  PROVE  \/ ProposeDel \/ ProposeAdd \/ ProposeMod
         \/ User /\ UNCHANGED <<pc, act, remote>>
         \/ ReadAttr
         \/ /\ SameAction /\ act'.attr = act.attr /\ pc' \in {"upload", "record"}
            /\ pc' = "upload" => pc = "hist" /\ act'.pending = act.pending
            /\ pc' = "record" =>
                 (act'.pending /\ (UploadGone \/ UploadLocked)) \/ MkDir \/ (Upload /\ act' = act)
<1>1. \A b, c : /\ [act EXCEPT !.pending = b].path = act.path /\ [act EXCEPT !.pending = b].type = act.type
                /\ [act EXCEPT !.pending = b].isignore = act.isignore
                /\ [act EXCEPT !.pending = b].attr = act.attr /\ [act EXCEPT !.pending = b].pending = b
                /\ [act EXCEPT !.histfailed = c].path = act.path /\ [act EXCEPT !.histfailed = c].attr = act.attr
                /\ [act EXCEPT !.histfailed = c].type = act.type
                /\ [act EXCEPT !.histfailed = c].isignore = act.isignore
                /\ [act EXCEPT !.histfailed = c].pending = act.pending
  <2>1. act \in Action
    BY DEF Types
  <2> QED BY <2>1 DEF Action
<1>2. CASE User
  BY <1>2 DEF User, SaveFile, MakeDir, Delete, ToggleIgnore, Edit
<1>3. /\ pc' # "idle" /\ pc' # "step" /\ pc' # "stage" /\ pc' # "RootFallback" /\ pc' # "TooManyFails"
      /\ pc' # "unlink" /\ pc' # "forget"
  OBVIOUS
<1>4. ~Start
  BY <1>3 DEF Start
<1>5. CASE RefreshStep
  <2>1. ~Fallback /\ ~CheckStack /\ ~InitGone /\ ~Finish
    BY <1>3 DEF Fallback, CheckStack, InitGone, Finish, RecordFail
  <2>2. ~InitList /\ ~RemoveDone /\ ~NewDone /\ ~Recur /\ ~RedoUpper /\ ~Return
    BY <1>3 DEF InitList, RemoveDone, NewDone, Recur, RedoUpper, Return, InStage
  <2> QED BY <1>5, <2>1, <2>2 DEF RefreshStep
<1>6. CASE PutHist
  BY <1>6 DEF PutHist, Goto, SameAction
<1>7. CASE Upload \/ UploadGone \/ MkDir
  BY <1>1, <1>3, <1>7 DEF Upload, UploadGone, MkDir, Goto, EndRun, SameAction
<1>8. CASE SkipRemote \/ DeleteRemote \/ DeleteRefused \/ Forget \/ Record
  BY <1>3, <1>8 DEF SkipRemote, DeleteRemote, DeleteRefused, Forget, Record, Goto, EndRun
<1>9. CASE PutHistFails
  BY <1>1, <1>3, <1>9, ZenonT(60) DEF PutHistFails, EndRun, SameAction
<1>10. CASE UploadLocked \/ DelDirMissed
  BY <1>1, <1>3, <1>10 DEF UploadLocked, DelDirMissed, SameAction
<1>11. ~UploadFails /\ ~MkDirFails /\ ~DeleteFails /\ ~Crash
  BY <1>3 DEF UploadFails, MkDirFails, DeleteFails, Crash, EndRun
<1> QED BY <1>2, <1>4, <1>5, <1>6, <1>7, <1>8, <1>9, <1>10, <1>11 DEF Next, Program, Perform, Fails

LEMMA ReadsKnownStep ==
  ASSUME Types, Locals, ToldApart, NEW P, Now(P), Next, Core
  PROVE  ReadsKnown'
<1>1. /\ Forth /\ {"attr", "hist", "upload", "record"} \subseteq Busy
      /\ \A p \in Paths : \A a : cur'[p] = cur[p] /\ Sync(p, a) => Sync(p, a)'
  BY GoesForth DEF Busy
<1>2. SUFFICES ASSUME pc' \in {"attr", "hist", "upload", "record"} PROVE ReadsKnown'
  BY DEF ReadsKnown
<1> DEFINE Read == pc' \in {"hist", "upload"} /\ act'.type \notin DelTypes =>
                     act'.attr.time = 0 \/ \E y \in Versions : act'.attr = AttrOf[y] /\ LocalFrom(act.path, y)'
           Kept == pc' = "record" /\ act'.type # "ADDDIR" /\ ~act'.pending => Backed(act.path, act.attr)'
           Open == pc' \in {"attr", "hist", "upload"} /\ act'.type \notin DelTypes => ~act'.pending
<1>3. SUFFICES Read /\ Kept /\ Open
  BY DEF ReadsKnown, Deleting, DelTypes
<1> HIDE DEF Read, Kept, Open
<1>4. CASE ProposeDel
  <2>1. act'.type \in DelTypes
    BY <1>4, ProposedDel DEF Core, DelTypes
  <2>2. pc' # "record"
    BY <1>4 DEF ProposeDel
  <2> QED BY <2>1, <2>2 DEF Read, Kept, Open
<1>5. CASE ProposeAdd \/ ProposeMod
  <2>1. PICK i : i \in DOMAIN Top.files /\ (Adds(i) \/ Modifies(i))
    BY <1>5, Proposed DEF Lists
  <2>2. ~act'.pending /\ act'.attr.time = 0 /\ Listed
    BY <1>5, Proposed DEF Listed, Running, Ended
  <2>3. ~Top.files[i].isignore
    BY <2>1, <2>2 DEF Core, NoneIgnored
  <2>4. pc' \in {"mkdir", "attr"}
    BY <2>1, <2>3 DEF Adds, Modifies
  <2> QED BY <2>2, <2>4 DEF Read, Kept, Open
<1>6. CASE User /\ UNCHANGED <<pc, act, remote>>
  <2>1. PICK q, a : q \in Paths /\ q = act.path /\ a = act.attr
    BY <1>1, <1>2, <1>6, Acting
  <2>2. act' = act /\ pc' = pc /\ cur' = cur
    BY <1>6 DEF remote
  <2>3. Read
    <3> SUFFICES ASSUME pc \in {"hist", "upload"}, ~Deleting
                 PROVE  a.time = 0 \/ \E y \in Versions : a = AttrOf[y] /\ LocalFrom(q, y)'
      BY <2>1, <2>2 DEF Read, Deleting, DelTypes, LocalFrom
    <3>1. a.time = 0 \/ \E y \in Versions : a = AttrOf[y] /\ LocalFrom(q, y)
      BY <2>1 DEF Core, ReadsKnown
    <3> QED BY <1>1, <2>1, <3>1 DEF Forth
  <2>4. Kept
    <3> SUFFICES ASSUME pc = "record", act.type # "ADDDIR", ~act.pending PROVE Backed(q, a)'
      BY <2>1, <2>2 DEF Kept, Backed, Stale, Sync, LocalFrom
    <3>1. Backed(q, a)
      BY <2>1 DEF Core, ReadsKnown
    <3> QED BY <1>1, <2>1, <2>2, <3>1 DEF Backed, Forth
  <2>5. Open
    BY <2>2 DEF Core, ReadsKnown, Open, Deleting, DelTypes
  <2> QED BY <2>3, <2>4, <2>5
<1>7. CASE ReadAttr
  <2> DEFINE node == local[act.path]
             b == IF IsFile(node) THEN AttrOf[node] ELSE [time |-> 0, size |-> 0]
  <2>1. /\ pc = "attr" /\ UNCHANGED local /\ (pc' \in {"hist", "upload"} => node # None)
        /\ act' = IF node = None THEN act ELSE [act EXCEPT !.attr = b]
        /\ pc' # "record" /\ pc' # "attr"
    BY <1>7 DEF ReadAttr, Goto, Working, user
  <2>2. PICK q \in Paths : q = act.path
    BY <1>1, <2>1, Acting
  <2>3. IsFile(node) => node \in Versions /\ node >= node
    <3>1. IsFile(node) => node \in Versions
      BY <2>2 DEF Types, Nodes, IsFile
    <3>2. \A v \in Versions : v \in Nat /\ v >= v
      BY VersionFacts
    <3> QED BY <3>1, <3>2
  <2> HIDE DEF b
  <2>4. pc' \in {"hist", "upload"} =>
          act'.attr = b /\ act'.path = act.path /\ act'.type = act.type /\ act'.pending = act.pending
    <3>1. act \in Action
      BY DEF Types
    <3> QED BY <2>1, <3>1 DEF Action
  <2>5. Read
    <3> SUFFICES ASSUME pc' \in {"hist", "upload"}
                 PROVE  b.time = 0 \/ \E y \in Versions : b = AttrOf[y] /\ LocalFrom(act.path, y)'
      BY <2>4 DEF Read
    <3>1. CASE IsFile(node)
      <4>1. b = AttrOf[node] /\ node \in Versions
        BY <2>3, <3>1 DEF b
      <4>2. PICK v : v = node
        OBVIOUS
      <4>3. LocalFrom(act.path, v)'
        BY <2>1, <2>3, <2>4, <3>1, <4>2 DEF LocalFrom
      <4> QED BY <4>1, <4>2, <4>3
    <3>2. CASE ~IsFile(node)
      BY <3>2 DEF b
    <3> QED BY <3>1, <3>2
  <2>6. Open
    <3> SUFFICES ASSUME pc' \in {"hist", "upload"}, act.type \notin DelTypes PROVE ~act.pending
      BY <2>1, <2>4 DEF Open
    <3> QED BY <2>1 DEF Core, ReadsKnown, Deleting, DelTypes
  <2>7. Kept
    BY <2>1 DEF Kept
  <2> QED BY <2>5, <2>6, <2>7
<1>8. CASE /\ SameAction /\ act'.attr = act.attr /\ pc' \in {"upload", "record"}
           /\ pc' = "upload" => pc = "hist" /\ act'.pending = act.pending
           /\ pc' = "record" =>
                (act'.pending /\ (UploadGone \/ UploadLocked)) \/ MkDir \/ (Upload /\ act' = act)
  <2>1. act'.path = act.path /\ act'.type = act.type
    BY <1>8 DEF SameAction
  <2>2. pc' = "upload" => pc = "hist" /\ Read /\ Open
    <3> SUFFICES ASSUME pc' = "upload" PROVE pc = "hist" /\ Read /\ Open
      OBVIOUS
    <3>1. pc = "hist" /\ act'.pending = act.pending
      BY <1>8
    <3>2. Open
      BY <2>1, <3>1 DEF Open, Core, ReadsKnown, Deleting, DelTypes
    <3>3. ASSUME act.type \notin DelTypes
          PROVE  act.attr.time = 0 \/ \E y \in Versions : act.attr = AttrOf[y] /\ LocalFrom(act.path, y)'
      <4>1. PICK q \in Paths : q = act.path
        BY <1>1, <3>1, Acting
      <4>2. act.attr.time = 0 \/ \E y \in Versions : act.attr = AttrOf[y] /\ LocalFrom(q, y)
        BY <3>1, <3>3, <4>1 DEF Core, ReadsKnown, Deleting, DelTypes
      <4>3. act.attr.time = 0 \/ \E y \in Versions : act.attr = AttrOf[y] /\ LocalFrom(q, y)'
        BY <1>1, <4>2 DEF Forth
      <4> QED BY <2>1, <4>1, <4>3 DEF LocalFrom
    <3>4. Read
      BY <1>8, <2>1, <3>3 DEF Read
    <3> QED BY <3>1, <3>2, <3>4
  <2>3. pc' = "record" => Read /\ Open
    BY DEF Read, Open
  <2>4. Kept
    <3> SUFFICES ASSUME pc' = "record", act.type # "ADDDIR", ~act'.pending PROVE Backed(act.path, act.attr)'
      BY <2>1 DEF Kept
    <3>1. MkDir \/ Upload
      BY <1>8
    <3>2. ~MkDir
      <4> SUFFICES ASSUME MkDir PROVE FALSE
        OBVIOUS
      <4>1. pc = "mkdir" /\ pc \in Busy
        BY DEF MkDir, Busy
      <4> QED BY <4>1, Acting DEF ActIs, ChangeIs, DelTypes
    <3>3. /\ pc = "upload" /\ IsFile(local[act.path]) /\ cur' = AddFileTo(cur, act.path, local[act.path])
          /\ UNCHANGED <<local, edits>>
      <4>1. Upload /\ pc' # "idle"
        BY <3>1, <3>2
      <4> QED BY <4>1 DEF Upload, EndRun, Working, user
    <3>4. PICK q, v, a : q \in Paths /\ q = act.path /\ v = local[q] /\ a = act.attr
      BY <1>1, <3>3, Acting
    <3>5. v \in Versions /\ v >= v
      <4>1. v \in Versions
        BY <3>3, <3>4 DEF Types, Nodes, IsFile
      <4>2. v \in Nat
        BY <4>1, VersionFacts
      <4> QED BY <4>1, <4>2
    <3>6. cur'[q] = v
      <4>1. DOMAIN cur = Paths
        BY DEF Types
      <4> QED BY <3>3, <3>4, <4>1 DEF AddFileTo, MakeDirs
    <3>7. LocalFrom(q, v)'
      BY <3>3, <3>4, <3>5 DEF LocalFrom
    <3>8. ~Deleting
      <4>1. pc \in Busy /\ pc \notin {"hist", "unlink", "forget"}
        BY <3>3 DEF Busy
      <4> QED BY <4>1, ActFacts
    <3>9. a.time = 0 \/ \E y \in Versions : a = AttrOf[y] /\ LocalFrom(q, y)
      BY <3>3, <3>4, <3>8 DEF Core, ReadsKnown
    <3>10. Backed(q, a)'
      <4>1. CASE a.time = 0
        BY <4>1 DEF Backed, Stale
      <4>2. CASE a.time # 0
        <5>1. PICK y \in Versions : a = AttrOf[y] /\ y <= v
          BY <3>3, <3>4, <3>9, <4>2, <3>5, VersionFacts DEF LocalFrom
        <5> QED BY <3>3, <3>4, <3>5, <3>6, <3>7, <5>1 DEF Backed, Sync
      <4> QED BY <4>1, <4>2
    <3> QED BY <1>8, <2>1, <3>4, <3>10
  <2> QED BY <1>8, <2>2, <2>3, <2>4
<1> QED BY <1>2, <1>4, <1>5, <1>6, <1>7, <1>8, ChangeSteps

(* A new listing shows what is out of date, and the files as they are.                  *)
LEMMA RelistKnown ==
  ASSUME Types, Locals, ToldApart, NEW P, Now(P), InitList, Core, Forth
  PROVE  RemovesStale' /\ ListsKnown'
<1> DEFINE d == P[Top.rid]
           files == Listing(InitPath)
<1>1. /\ pc = "stage" /\ UNCHANGED <<recs, local, edits>> /\ UNCHANGED registry /\ InitPath = d
      /\ Forest(recs, P) /\ Top.rid \in Dirs(recs) /\ d \in AnyPath
      /\ Top'.rid = Top.rid /\ Top'.stage = "REMOVE" /\ Top'.files = files
  <2>1. Forest(recs, P) /\ Top.rid \in Dirs(recs)
    BY Relists
  <2>2. d \in AnyPath
    BY <2>1, Entries
  <2> QED BY <2>1, <2>2, Relists DEF registry, user
<1>2. ListingTells(d, files)
  <2> HIDE DEF d
  <2> QED BY <1>1, ListingFull DEF Types
<1>3. \A q \in Paths : At(recs, Parent(q)) = Top.rid =>
        /\ Parent(q) = d
        /\ At(recs, q) # 0 => recs[At(recs, q)].name = q[Len(q)]
  BY <1>1, Entries
<1> HIDE DEF d, files
<1>4. \A q \in Paths : FileAt(recs, q) => Backed(q, AttrAt(recs, q))
  BY DEF Core, Remembers
<1>5. Fewer
  BY <1>1, GetsFewer
<1>6. ASSUME NEW q \in Paths, At(recs, Parent(q)) = Top.rid, At(recs, q) # 0, ~Borne(recs, files, At(recs, q))
      PROVE  AllStale(q)
  <2> DEFINE r == At(recs, q)
  <2>1. local[q] # None => \E k \in DOMAIN files : files[k].name = recs[r].name /\ files[k].isdir = (local[q] = Dir)
    BY <1>2, <1>3, <1>6 DEF ListingTells
  <2>2. ~(local[q] # None /\ recs[r].isdir = (local[q] = Dir))
    BY <1>6, <2>1 DEF Borne
  <2> SUFFICES ASSUME NEW p \in Paths, p = q \/ q \in Above(p), FileAt(recs, p)
               PROVE  Stale(p, AttrAt(recs, p))
    BY DEF AllStale
  <2>3. CASE p = q
    <3>1. ~recs[r].isdir
      BY <2>3 DEF FileAt
    <3>2. r \in Ids /\ recs[r] \in RecordItem
      <4>1. r \in Active(recs) /\ recs \in [Ids -> RecordItem]
        BY <1>1, <1>6, ParentPath, AtFinds DEF Forest
      <4> QED BY <4>1 DEF Active
    <3>3. recs[r].isdir = FALSE
      BY <3>1, <3>2 DEF RecordItem
    <3>4. ~IsFile(local[q])
      BY <2>2, <3>3 DEF IsFile
    <3> QED BY <1>4, <2>3, <3>4, StaleIf
  <2>4. CASE q \in Above(p)
    <3>1. At(recs, p) # 0
      BY DEF FileAt
    <3>2. DirAt(recs, q)
      BY <1>1, <2>4, <3>1, FilesInDirs
    <3>3. local[q] # Dir
      <4>1. r \in Active(recs) /\ recs \in [Ids -> RecordItem]
        BY <1>1, <1>6, ParentPath, AtFinds DEF Forest
      <4>2. recs[r].isdir \in BOOLEAN
        BY <4>1 DEF Active, RecordItem
      <4>3. recs[r].isdir = TRUE
        BY <3>2, <4>2 DEF DirAt
      <4> QED BY <2>2, <4>3, KindsAssumption
    <3>4. ~IsFile(local[p])
      BY <2>4, <3>3 DEF Locals, Closed, IsFile
    <3> QED BY <1>4, <3>4, StaleIf
  <2> QED BY <2>3, <2>4
<1>7. ASSUME NEW q \in Paths, NEW k \in DOMAIN files, At(recs, Parent(q)) = Top.rid, files[k].name = q[Len(q)],
             ~files[k].isdir, NEW b, b = files[k].attr
      PROVE  KnownFrom(q, b)
  <2> DEFINE x == local[q]
  <2>1. x # None /\ files[k].isdir = (x = Dir) /\ (IsFile(x) => files[k].attr = AttrOf[x])
    BY <1>2, <1>3, <1>7 DEF ListingTells
  <2>2. IsFile(x)
    BY <1>7, <2>1 DEF IsFile
  <2>3. x \in Versions
    BY <2>2 DEF Types, Nodes, IsFile
  <2>4. \A u \in Versions : LocalFrom(q, u) <=> x >= u
    BY <2>2 DEF LocalFrom
  <2> HIDE DEF x
  <2>5. x \in Nat /\ x >= x /\ \A u \in Versions : u \in Nat
    BY <2>3, VersionFacts
  <2>6. ASSUME FileAt(recs, q)
        PROVE  AttrAt(recs, q).time = 0 \/ \E u \in Versions : AttrAt(recs, q) = AttrOf[u] /\ u <= x
    <3>1. CASE Stale(q, AttrAt(recs, q))
      <4> SUFFICES ASSUME AttrAt(recs, q).time # 0
                   PROVE  \E u \in Versions : AttrAt(recs, q) = AttrOf[u] /\ u <= x
        OBVIOUS
      <4>1. PICK u \in Versions : AttrAt(recs, q) = AttrOf[u] /\ LocalFrom(q, u)
        BY <3>1 DEF Stale
      <4>2. u <= x
        BY <2>4, <2>5, <4>1
      <4> QED BY <4>1, <4>2
    <3>2. CASE Sync(q, AttrAt(recs, q))
      <4>1. PICK u, v \in Versions : AttrAt(recs, q) = AttrOf[u] /\ u <= v /\ LocalFrom(q, v)
        BY <3>2 DEF Sync
      <4>2. u <= x
        BY <2>4, <2>5, <4>1
      <4> QED BY <4>1, <4>2
    <3> QED BY <1>4, <2>6, <3>1, <3>2 DEF Backed
  <2> QED BY <1>7, <2>1, <2>2, <2>3, <2>4, <2>5, <2>6 DEF KnownFrom
<1>8. RemovesStale'
  <2> SUFFICES ASSUME NEW q \in Paths, At(recs', Parent(q)) = Top'.rid,
                      At(recs', q) # 0, ~Borne(recs', Top'.files, At(recs', q))
               PROVE  AllStale(q)'
    BY DEF RemovesStale, Here
  <2>1. AllStale(q)
    BY <1>1, <1>6
  <2> QED BY <1>5, <2>1, StaleStays
<1>9. ListsKnown'
  <2> SUFFICES ASSUME NEW q \in Paths, NEW k, At(recs', Parent(q)) = Top'.rid, Lists(k, q)',
                      ~Top'.files[k].isdir, NEW b, b = Top'.files[k].attr
               PROVE  KnownFrom(q, b)'
    BY DEF ListsKnown, Here
  <2>1. KnownFrom(q, b)
    BY <1>1, <1>7 DEF Lists
  <2> QED BY <1>1, <2>1 DEF KnownFrom, LocalFrom
<1> QED BY <1>8, <1>9

LEMMA ListKnownStep ==
  ASSUME Types, Locals, ToldApart, NEW P, Now(P), Next, Core
  PROVE  RemovesStale' /\ ListsKnown'
<1> SUFFICES ASSUME Running' PROVE RemovesStale' /\ ListsKnown'
  BY DEF RemovesStale, ListsKnown, Listed
<1>1. Forth /\ (InitList \/ TopStays)
  BY GoesForth, StackDoes DEF Tops
<1>2. CASE InitList
  BY <1>1, <1>2, RelistKnown
<1>3. CASE TopStays /\ ~Record
  <2>1. Fewer
    BY <1>3, RecsDo, GetsFewer
  <2> QED BY <1>1, <1>3, <2>1, ListKeeps DEF Core
<1>4. CASE Record
  <2>1. pc = "record" /\ pc \in Busy /\ Running /\ UNCHANGED <<restate, local, edits>>
    BY <1>4 DEF Record, Goto, Working, walk, user, Busy, Running, Ended
  <2>2. ~Deleting
    BY <2>1, ActFacts
  <2>3. PICK n : ChangeFacts(P, n)
    BY <2>1, <2>2, ChangeKnows
  <2>4. Top' = Top
    BY <2>1 DEF Top
  <2>5. Top.stage = "NEW" /\ Top.rid \in Dirs(recs)
    BY <2>3 DEF ChangeFacts
  <2>6. RecordDoes
    BY <1>4, RecordIs
  <2>7. RemovesStale'
    BY <2>4, <2>5 DEF RemovesStale
  <2>8. ASSUME NEW q \in Paths, NEW k, At(recs', Parent(q)) = Top.rid, Lists(k, q),
               ~Top.files[k].isdir, k > Top.prog, NEW b, b = Top.files[k].attr
        PROVE  KnownFrom(q, b)'
    <3>1. Top.rid \in Active(recs) /\ recs[Top.rid].isdir /\ Top.rid # 0
      BY <2>1, <2>3, KidFacts DEF ChangeFacts, Dirs
    <3>2. Parent(q) # act.path
      BY <2>6, <2>8, <3>1 DEF RecordDoes, FileAt
    <3>3. Here(q)
      BY <2>6, <2>8, <3>2, ParentPath DEF RecordDoes, SameAt, Here
    <3>4. q # act.path
      <4>1. k # Top.prog
        <5>1. Top.prog \in Nat
          BY <2>3 DEF ChangeFacts, RefreshIter
        <5>2. ~(Top.prog > Top.prog)
          BY <5>1
        <5> QED BY <2>8, <5>2
      <4>2. q[Len(q)] # n
        BY <2>3, <2>8, <4>1 DEF Lists, ChangeFacts, TopIs
      <4> QED BY <2>3, <4>2 DEF ChangeFacts
    <3>5. SameAt(recs, recs', q)
      BY <2>6, <3>4, ParentPath DEF RecordDoes
    <3>6. KnownFrom(q, b)
      BY <2>1, <2>5, <2>8, <3>3 DEF Core, ListsKnown, Listed
    <3>7. FileAt(recs', q) => FileAt(recs, q) /\ AttrAt(recs', q) = AttrAt(recs, q)
      BY <3>5 DEF SameAt, FileAt
    <3> QED BY <2>1, <3>6, <3>7 DEF KnownFrom, LocalFrom
  <2>9. ListsKnown'
    <3> SUFFICES ASSUME NEW q \in Paths, NEW k, At(recs', Parent(q)) = Top'.rid, Lists(k, q)',
                        ~Top'.files[k].isdir, Top'.stage = "REMOVE" \/ k > Top'.prog,
                        NEW b, b = Top'.files[k].attr
                 PROVE  KnownFrom(q, b)'
      BY DEF ListsKnown, Here
    <3>1. Lists(k, q)
      BY <2>4 DEF Lists
    <3> QED BY <2>4, <2>5, <2>8, <3>1
  <2> QED BY <2>7, <2>9
<1> QED BY <1>1, <1>2, <1>3, <1>4

(* Where nothing is ever ignored, all of it holds on.                                *)
LEMMA CoreStep ==
  ASSUME Types, Locals, ToldApart, NEW P, Now(P), Next, Core, Ignorable = {}
  PROVE  Core'
<1>1. Remembers' /\ DeletesStale' /\ ModifiesStale' /\ ReadsKnown'
  BY RemembersStep, DeletesStaleStep, ModifiesStaleStep, ReadsKnownStep
<1>2. NoneIgnored'
  BY NoneIgnoredStep DEF Core
<1> QED BY <1>1, <1>2, ListKnownStep DEF Core-----------------------------------------------------------------------------

(***************************************************************************)
(* What holds of a run that nothing disturbs.                              *)
(***************************************************************************)
(* The registry has the file as it is; it has what is there.                         *)
Settled(q) == FileAt(recs, q) /\ ~Unlike(AttrAt(recs, q), AttrOf[local[q]])
Finished(q) == (IsFile(local[q]) => Settled(q)) /\ (local[q] = Dir => DirAt(recs, q))
Covered(p) == \A q \in Paths : p \in Above(q) /\ IsFile(local[q]) => Settled(q)

(* The listing is up to date.                                                     *)
Shows ==
  Listed =>
    \A q \in Paths : Here(q) =>
      /\ local[q] # None => \E k : Lists(k, q)
      /\ \A k : Lists(k, q) => /\ local[q] # None /\ Top.files[k].isdir = (local[q] = Dir)
                               /\ IsFile(local[q]) => Top.files[k].attr = AttrOf[local[q]]

(* What is deleted is not there any more, what is recorded is as it was read.           *)
Spares ==
  pc \in Busy /\ Deleting =>
    /\ act.type = "DELDIR" => local[act.path] # Dir
    /\ act.type = "DELFILE" => ~IsFile(local[act.path])

ReadsNow ==
  pc \in {"hist", "upload", "record"} /\ ~Deleting /\ act.type # "ADDDIR" =>
    /\ act.attr = AttrOf[local[act.path]]
    /\ pc = "record" => ~act.pending

(* The listing is dealt with up to where the walk stands in it.                        *)
FinishesNew ==
  Running /\ Top.stage = "NEW" =>
    \A q \in Paths : \A k : /\ Here(q) /\ Lists(k, q)
                            /\ k < Top.prog \/ (k = Top.prog /\ ~Changing)
                            => Finished(q)

(* Of a directory that is entered all entries are dealt with, and the directories      *)
(* that the walk has been in, but for x where it is now, are with all they hold.        *)
Visited(it, n) == it.stage = "RETURN" \/ (it.prog # 0 /\ n < NameOf(it.prog))

LevelDone(it, x) ==
  \A q \in Paths : At(recs, Parent(q)) = it.rid =>
    /\ Finished(q)
    /\ local[q] = Dir /\ Visited(it, q[Len(q)]) /\ At(recs, q) # x => Covered(q)

Entered(i) == IF i = Len(restate) THEN 0 ELSE restate[i + 1].rid

LevelsDone ==
  \A i \in DOMAIN restate : restate[i].stage \in {"RECUR", "RETURN"} => LevelDone(restate[i], Entered(i))

Undisturbed == Shows /\ Spares /\ ReadsNow /\ FinishesNew /\ LevelsDone

(* A step of the program in such a run.                                              *)
Calm == Running /\ quiet /\ UNCHANGED <<local, edits>> /\ (RefreshStep \/ Perform)

LEMMA CalmSteps ==
  ASSUME Next, quiet'
  PROVE  Start \/ Calm
<1>1. ~Fails
  <2>1. ~Fault
    BY DEF Fault
  <2> QED BY <2>1 DEF Fails, PutHistFails, UploadLocked, UploadFails, MkDirFails, DeleteFails, DelDirMissed, Crash
<1>2. ~User
  BY DEF User, SaveFile, MakeDir, Delete, ToggleIgnore, Edit
<1>3. ASSUME RefreshStep PROVE Running /\ quiet /\ UNCHANGED <<local, edits>>
  <2>1. CASE Finish \/ CheckStack \/ Fallback
    BY <2>1 DEF Finish, CheckStack, Fallback, InStage, user, Working, Running, Ended
  <2>2. CASE ProposeDel \/ ProposeAdd \/ ProposeMod
    BY <2>2, Zenon DEF ProposeDel, ProposeAdd, ProposeMod, Propose, InStage, user, Working, Running, Ended
  <2>3. CASE InitList \/ InitGone \/ RemoveDone \/ NewDone \/ Recur \/ RedoUpper \/ Return
    BY <2>3 DEF InitList, InitGone, RemoveDone, NewDone, Recur, RedoUpper, Return, InStage, user, StackOnly,
                Working, Running, Ended
  <2> QED BY <1>3, <2>1, <2>2, <2>3 DEF RefreshStep
<1>4. ASSUME Perform PROVE Running /\ quiet /\ UNCHANGED <<local, edits>>
  <2>1. CASE ReadAttr \/ PutHist \/ Upload \/ UploadGone \/ MkDir
    BY <2>1 DEF ReadAttr, PutHist, Upload, UploadGone, MkDir, Goto, user, Working, Running, Ended
  <2>2. CASE Record \/ SkipRemote \/ DeleteRemote \/ DeleteRefused \/ Forget
    BY <2>2 DEF Record, SkipRemote, DeleteRemote, DeleteRefused, Forget, Goto, user, Working, Running, Ended
  <2> QED BY <1>4, <2>1, <2>2 DEF Perform
<1> QED BY <1>1, <1>2, <1>3, <1>4 DEF Next, Program, Calm

(* An id that is in use stays where it is.                                          *)
LEMMA IdsStay ==
  ASSUME Types, NEW P, Now(P), Next, NEW p \in AnyPath, At(recs', p) \in Active(recs)
  PROVE  At(recs, p) = At(recs', p)
<1>1. 0 \notin Active(recs)
  BY DEF Now, Shaped, Forest, Placed
<1>2. CASE Record
  BY <1>2, RecordIs DEF RecordDoes, SameAt
<1>3. CASE ~Record
  BY <1>1, <1>3, RecsDo, GetsFewer DEF Fewer, SameAt
<1> QED BY <1>2, <1>3

(* What is dealt with stays so.                                                   *)
LEMMA Keeps ==
  ASSUME Types, Locals, NEW P, Now(P), Next, UNCHANGED local, Spares, ReadsNow, NEW q \in Paths
  PROVE  /\ IsFile(local[q]) /\ Settled(q) => Settled(q)'
         /\ local[q] = Dir /\ DirAt(recs, q) => DirAt(recs', q) /\ At(recs', q) = At(recs, q)
<1>1. ASSUME SameAt(recs, recs', q)
      PROVE  /\ IsFile(local[q]) /\ Settled(q) => Settled(q)'
             /\ local[q] = Dir /\ DirAt(recs, q) => DirAt(recs', q) /\ At(recs', q) = At(recs, q)
  BY <1>1 DEF SameAt, Settled, FileAt, DirAt
<1>2. q \in AnyPath
  BY ParentPath
<1>3. CASE Record
  <2>1. RecordDoes
    BY <1>3, RecordIs
  <2>2. CASE q # act.path
    BY <1>1, <1>2, <2>1, <2>2 DEF RecordDoes
  <2>3. CASE q = act.path
    <3>1. CASE act.type # "MODFILE"
      BY <2>1, <2>3, <3>1 DEF RecordDoes, Settled, FileAt, DirAt
    <3>2. CASE act.type = "MODFILE"
      <4>1. pc = "record" /\ ~Deleting
        BY <1>3, <3>2 DEF Record, Deleting
      <4>2. act.attr = AttrOf[local[q]] /\ ~act.pending
        BY <2>3, <3>2, <4>1 DEF ReadsNow
      <4>3. FileAt(recs', q) /\ AttrAt(recs', q) = AttrOf[local[q]] /\ FileAt(recs, q)
        BY <2>1, <2>3, <3>2, <4>2 DEF RecordDoes, FileAt
      <4>4. IsFile(local[q]) => local[q] \in Versions
        BY DEF Types, Nodes, IsFile
      <4> QED BY <4>3, <4>4, VersionFacts DEF Settled, DirAt, FileAt
    <3> QED BY <3>1, <3>2
  <2> QED BY <2>2, <2>3
<1>4. CASE Forget
  <2>1. ForgetDoes
    BY <1>4, ForgetIs
  <2>2. CASE q # Leaf.path
    BY <1>1, <1>2, <2>1, <2>2 DEF ForgetDoes
  <2>3. CASE q = Leaf.path
    <3>1. pc \in Busy /\ Deleting
      <4>1. pc = "forget"
        BY <1>4 DEF Forget
      <4>2. pc \in Busy
        BY <4>1 DEF Busy
      <4> QED BY <4>1, <4>2, ActFacts
    <3>2. CASE q = act.path
      BY <2>1, <2>3, <3>1, <3>2 DEF ForgetDoes, Spares, Settled, FileAt, DirAt, Deleting
    <3>3. CASE q # act.path
      <4>1. act.type = "DELDIR" /\ act.path \in Above(q)
        BY <2>1, <2>3, <3>3 DEF ForgetDoes
      <4>2. local[act.path] # Dir
        BY <3>1, <4>1 DEF Spares
      <4>3. local[q] = None
        BY <4>1, <4>2 DEF Locals, Closed
      <4> QED BY <4>3, KindsAssumption DEF IsFile
    <3> QED BY <3>2, <3>3
  <2> QED BY <2>2, <2>3
<1>5. CASE UNCHANGED registry
  <2>1. recs' = recs
    BY <1>5 DEF registry
  <2> QED BY <2>1 DEF Settled
<1> QED BY <1>3, <1>4, <1>5, RecsDo

LEMMA Lasts ==
  ASSUME Types, Locals, NEW P, Now(P), Next, UNCHANGED local, Spares, ReadsNow, NEW q \in Paths
  PROVE  (Finished(q) => Finished(q)') /\ (Covered(q) => Covered(q)')
<1>1. \A p \in Paths : IsFile(local[p]) /\ Settled(p) => Settled(p)'
  BY Keeps
<1>2. local[q] = Dir /\ DirAt(recs, q) => DirAt(recs', q)
  BY Keeps
<1> QED BY <1>1, <1>2 DEF Finished, Covered

(* What is recorded stands in the listing, and there is the like of it.                  *)
LEMMA ChangeMeets ==
  ASSUME Types, NEW P, Now(P), Shows, pc \in Busy, ~Deleting
  PROVE  /\ act.path \in Paths /\ Top.stage = "NEW" /\ Here(act.path) /\ Lists(Top.prog, act.path)
         /\ IF act.type = "ADDDIR" THEN local[act.path] = Dir ELSE IsFile(local[act.path])
         /\ IF act.type = "MODFILE" THEN FileAt(recs, act.path) ELSE At(recs, act.path) = 0
<1>1. PICK n : ChangeFacts(P, n)
  BY ChangeKnows
<1>2. /\ Forest(recs, P) /\ Top.rid \in Dirs(recs) /\ Top.stage = "NEW" /\ TopIs(recs, P, Top, "step", NoAction)
      /\ Top.prog \in DOMAIN Top.files /\ n = Top.files[Top.prog].name
      /\ act.path = Append(P[Top.rid], n) /\ act.path[Len(act.path)] = n
      /\ RecordAt(Parent(act.path)) = Top.rid
  BY <1>1 DEF ChangeFacts
<1>3. act.path \in Paths /\ act.path \in AnyPath
  <2>1. act.path \in Paths
    BY Acting
  <2> QED BY <2>1, ParentPath
<1>4. Here(act.path)
  BY <1>2, RecordAtIsAt DEF Here
<1>5. Lists(Top.prog, act.path)
  BY <1>2 DEF Lists
<1>6. /\ local[act.path] # None /\ Top.files[Top.prog].isdir = (local[act.path] = Dir)
  BY <1>2, <1>3, <1>4, <1>5 DEF Shows, Listed, Running, Busy, Ended
<1>7. CASE act.type = "MODFILE"
  <2>1. PICK r \in Active(recs) : P[r] = act.path /\ ~recs[r].isdir
    BY <1>1, <1>7 DEF ChangeFacts
  <2>2. At(recs, act.path) = r /\ r # 0 /\ recs[r].name = n /\ r \in Kids(recs, P, Top.rid)
    <3>1. At(recs, act.path) = r
      BY <1>2, <1>3, <2>1, AtFinds, ZenonT(60)
    <3>2. r # 0
      BY <1>2, <2>1 DEF Forest, Placed
    <3>3. At(recs, act.path) \in Kids(recs, P, Top.rid) /\ recs[At(recs, act.path)].name = act.path[Len(act.path)]
      <4>1. \A q \in Paths : At(recs, Parent(q)) = Top.rid /\ At(recs, q) # 0 =>
              At(recs, q) \in Kids(recs, P, Top.rid) /\ recs[At(recs, q)].name = q[Len(q)]
        BY <1>2, Entries
      <4> QED BY <1>3, <1>4, <3>1, <3>2, <4>1 DEF Here
    <3> QED BY <1>2, <3>1, <3>2, <3>3
  <2>3. PICK k \in DOMAIN Top.files : Top.files[k].name = n /\ Top.files[k].isdir = recs[r].isdir
    BY <1>2, <2>2 DEF TopIs, Doomed, Borne
  <2>4. ~Top.files[Top.prog].isdir
    BY <1>2, <2>1, <2>3 DEF TopIs
  <2>5. IsFile(local[act.path])
    BY <1>6, <2>4 DEF IsFile
  <2> QED BY <1>2, <1>3, <1>4, <1>5, <1>7, <2>1, <2>2, <2>5 DEF FileAt
<1>8. CASE act.type # "MODFILE"
  <2>1. act.type = (IF Top.files[Top.prog].isdir THEN "ADDDIR" ELSE "ADDFILE") /\ \A r \in Active(recs) : P[r] # act.path
    BY <1>1, <1>8 DEF ChangeFacts
  <2>2. At(recs, act.path) = 0
    BY <1>2, <1>3, <2>1, AtFinds, ZenonT(60)
  <2>3. IF act.type = "ADDDIR" THEN local[act.path] = Dir ELSE IsFile(local[act.path])
    BY <1>6, <2>1 DEF IsFile
  <2> QED BY <1>2, <1>3, <1>4, <1>5, <1>8, <2>2, <2>3
<1> QED BY <1>7, <1>8

LEMMA ShowsStep ==
  ASSUME Types, NEW P, Now(P), Next, UNCHANGED local, Shows, Running'
  PROVE  Shows'
<1>1. InitList \/ TopStays
  BY StackDoes DEF Tops
<1>2. CASE InitList
  <2> DEFINE files == Listing(InitPath)
  <2>1. /\ UNCHANGED registry /\ InitPath = P[Top.rid] /\ Forest(recs, P) /\ Top.rid \in Dirs(recs)
        /\ Top'.rid = Top.rid /\ Top'.files = files
    BY <1>2, Relists
  <2>2. InitPath \in AnyPath
    BY <2>1, Entries
  <2>3. ListingTells(InitPath, files)
    BY <2>2, ListingFull DEF Types
  <2>4. \A q \in Paths : At(recs, Parent(q)) = Top.rid => Parent(q) = InitPath
    BY <2>1, Entries
  <2> HIDE DEF files
  <2>5. ASSUME NEW q \in Paths, At(recs, Parent(q)) = Top.rid
        PROVE  /\ local[q] # None => \E k : k \in DOMAIN files /\ files[k].name = q[Len(q)]
               /\ \A k : k \in DOMAIN files /\ files[k].name = q[Len(q)] =>
                           /\ local[q] # None /\ files[k].isdir = (local[q] = Dir)
                           /\ IsFile(local[q]) => files[k].attr = AttrOf[local[q]]
    BY <2>3, <2>4, <2>5 DEF ListingTells
  <2>6. recs' = recs
    BY <2>1 DEF registry
  <2> QED BY <2>1, <2>5, <2>6 DEF Shows, Here, Lists
<1>3. CASE TopStays
  <2> SUFFICES ASSUME Listed', NEW q \in Paths, At(recs', Parent(q)) = Top'.rid
               PROVE  /\ local'[q] # None => \E k : Lists(k, q)'
                      /\ \A k : Lists(k, q)' =>
                           /\ local'[q] # None /\ Top'.files[k].isdir = (local'[q] = Dir)
                           /\ IsFile(local'[q]) => Top'.files[k].attr = AttrOf[local'[q]]
    BY DEF Shows, Here
  <2>1. Listed /\ Top'.rid = Top.rid /\ Top'.files = Top.files
    BY <1>3 DEF TopStays, Listed
  <2>2. Top.rid \in Active(recs)
    BY <2>1, TopFacts DEF Now, Shaped, Going, Top, Listed, Running, Dirs
  <2>3. Here(q)
    BY <2>1, <2>2, IdsStay, ParentPath DEF Here
  <2>4. \A k : Lists(k, q)' <=> Lists(k, q)
    BY <2>1 DEF Lists
  <2> QED BY <2>1, <2>3, <2>4 DEF Shows
<1> QED BY <1>1, <1>2, <1>3

LEMMA SparesStep ==
  ASSUME Types, NEW P, Now(P), Next, UNCHANGED local, NoneIgnored, Shows, Spares
  PROVE  Spares'
<1> SUFFICES ASSUME pc' \in Busy, act'.type \in DelTypes
             PROVE  /\ act'.type = "DELDIR" => local[act'.path] # Dir
                    /\ act'.type = "DELFILE" => ~IsFile(local[act'.path])
  BY DEF Spares, Deleting, DelTypes
<1>1. CASE ProposeDel
  <2>1. PICK q \in Paths : q = act'.path
    BY <1>1, ProposedDel
  <2>2. /\ Listed /\ Here(q) /\ At(recs, q) # 0 /\ ~Borne(recs, Top.files, At(recs, q))
        /\ act'.type = IF DirAt(recs, q) THEN "DELDIR" ELSE "DELFILE"
    BY <1>1, <2>1, ProposedDel DEF Listed, Running, Ended
  <2> DEFINE r == At(recs, q)
  <2>3. Forest(recs, P) /\ Top.rid \in Dirs(recs)
    BY <1>1, AtStage DEF ProposeDel, InStage
  <2>4. recs[r].name = q[Len(q)]
    BY <2>2, <2>3, Entries DEF Here
  <2>5. local[q] # None => recs[r].isdir # (local[q] = Dir)
    <3> SUFFICES ASSUME local[q] # None PROVE recs[r].isdir # (local[q] = Dir)
      OBVIOUS
    <3>1. PICK k : Lists(k, q)
      BY <2>2 DEF Shows
    <3>2. Top.files[k].isdir = (local[q] = Dir)
      BY <2>2, <3>1 DEF Shows
    <3> HIDE DEF r
    <3> QED BY <2>2, <2>4, <3>1, <3>2 DEF Borne, Lists, r
  <2>6. recs[r].isdir \in BOOLEAN
    <3>1. r \in Active(recs) /\ recs \in [Ids -> RecordItem]
      BY <2>2, <2>3, ParentPath, AtFinds DEF Forest
    <3> QED BY <3>1 DEF Active, RecordItem
  <2>7. DirAt(recs, q) <=> recs[r].isdir
    BY <2>2 DEF DirAt
  <2> HIDE DEF r
  <2>8. act'.type = "DELDIR" => recs[r].isdir
    BY <2>2, <2>7
  <2>9. act'.type = "DELFILE" => ~recs[r].isdir
    BY <2>2, <2>7
  <2>10. local[q] = Dir => ~recs[r].isdir
    BY <2>5, <2>6, KindsAssumption
  <2>11. IsFile(local[q]) => recs[r].isdir
    BY <2>5, <2>6 DEF IsFile
  <2> QED BY <2>1, <2>8, <2>9, <2>10, <2>11
<1>2. CASE ProposeAdd \/ ProposeMod
  BY <1>2, Proposed DEF Adds, Modifies, DelTypes
<1>3. CASE pc \in Busy /\ SameAction
  BY <1>3 DEF SameAction, Spares, Deleting, DelTypes
<1> QED BY <1>1, <1>2, <1>3, BusySteps

LEMMA ReadsNowStep ==
  ASSUME Types, NEW P, Now(P), Next, quiet', UNCHANGED local, Core, Shows, ReadsNow
  PROVE  ReadsNow'
<1> SUFFICES ASSUME pc' \in {"hist", "upload", "record"}, act'.type \notin DelTypes, act'.type # "ADDDIR"
             PROVE  act'.attr = AttrOf[local[act'.path]] /\ (pc' = "record" => ~act'.pending)
  BY DEF ReadsNow, Deleting, DelTypes
<1>1. ~User /\ ~UploadLocked
  BY DEF User, SaveFile, MakeDir, Delete, ToggleIgnore, Edit, UploadLocked, Fault
<1>2. ~ProposeDel
  BY ProposedDel DEF Core, DelTypes
<1>3. ~(ProposeAdd \/ ProposeMod)
  <2> SUFFICES ASSUME ProposeAdd \/ ProposeMod PROVE FALSE
    OBVIOUS
  <2>1. PICK i : i \in DOMAIN Top.files /\ (Adds(i) \/ Modifies(i))
    BY Proposed DEF Lists
  <2>2. Listed
    BY Proposed DEF Listed, Running, Ended
  <2>3. ~Top.files[i].isignore
    BY <2>1, <2>2 DEF Core, NoneIgnored
  <2> QED BY <2>1, <2>3 DEF Adds, Modifies
<1>4. CASE ReadAttr
  <2> DEFINE node == local[act.path]
             b == IF IsFile(node) THEN AttrOf[node] ELSE [time |-> 0, size |-> 0]
  <2>1. /\ pc = "attr" /\ pc' # "record" /\ (pc' \in {"hist", "upload"} => node # None)
        /\ act' = IF node = None THEN act ELSE [act EXCEPT !.attr = b]
    BY <1>4 DEF ReadAttr, Goto
  <2> HIDE DEF b
  <2>2. act'.attr = b /\ act'.path = act.path /\ act'.type = act.type
    <3>1. act \in Action
      BY DEF Types
    <3> QED BY <2>1, <3>1 DEF Action
  <2>3. pc \in Busy /\ ~Deleting
    BY <2>1, <2>2 DEF Busy, Deleting, DelTypes
  <2>4. IsFile(node)
    BY <2>2, <2>3, ChangeMeets
  <2> QED BY <2>1, <2>2, <2>4 DEF b
<1>5. CASE /\ SameAction /\ act'.attr = act.attr /\ pc' \in {"upload", "record"}
           /\ pc' = "upload" => pc = "hist" /\ act'.pending = act.pending
           /\ pc' = "record" =>
                (act'.pending /\ (UploadGone \/ UploadLocked)) \/ MkDir \/ (Upload /\ act' = act)
  <2>1. act'.path = act.path /\ act'.type = act.type /\ ~Deleting
    BY <1>5 DEF SameAction, Deleting, DelTypes
  <2>2. CASE pc' = "upload"
    BY <1>5, <2>1, <2>2 DEF ReadsNow
  <2>3. CASE pc' = "record"
    <3>1. UploadGone \/ MkDir \/ (Upload /\ act' = act)
      BY <1>1, <1>5, <2>3
    <3>2. pc \in {"upload", "mkdir"} /\ pc \in Busy
      BY <3>1 DEF UploadGone, MkDir, Upload, Busy
    <3>3. IsFile(local[act.path])
      BY <2>1, <3>2, ChangeMeets
    <3>4. ~UploadGone
      BY <3>3 DEF UploadGone
    <3>5. ~MkDir
      <4> SUFFICES ASSUME MkDir PROVE FALSE
        OBVIOUS
      <4>1. pc = "mkdir"
        BY DEF MkDir
      <4> QED BY <2>1, <3>2, <4>1, Acting DEF ActIs, ChangeIs, DelTypes
    <3>6. Upload /\ act' = act /\ pc = "upload"
      BY <3>1, <3>4, <3>5 DEF Upload
    <3> QED BY <2>1, <2>3, <3>6 DEF ReadsNow, Core, ReadsKnown
  <2> QED BY <1>5, <2>2, <2>3
<1> QED BY <1>1, <1>2, <1>3, <1>4, <1>5, ChangeSteps

(* What NEW passes over is dealt with.                                              *)
LEMMA NotNew ==
  ASSUME NEW P, Now(P), pc = "stage", Top.stage = "NEW", Shows, NoneIgnored, NEW q \in Paths, Here(q),
         NEW k, Lists(k, q), k > Top.prog, k \notin NewItems
  PROVE  Finished(q)
<1> DEFINE item == Top.files[k]
           n == q[Len(q)]
           r == Child(n)
<1>1. /\ Forest(recs, P) /\ TopIs(recs, P, Top, "step", NoAction) /\ Top.rid \in Dirs(recs)
      /\ k \in DOMAIN Top.files /\ item.name = n
  BY AtStage DEF Lists
<1>2. n \in Names /\ q = Append(P[Top.rid], n)
  BY <1>1, Entries DEF Here
<1>3. Child(item.name) # 0 /\ ~Modified(Child(item.name), item)
  BY <1>1 DEF NewItems
<1>4. r # 0 /\ ~Modified(r, item)
  BY <1>1, <1>3
<1>5. ChildIs(P, n)
  <2> HIDE DEF n
  <2> QED BY <1>1, <1>2, ChildFound
<1>6. r \in Kids(recs, P, Top.rid) /\ recs[r].name = n /\ P[r] = q
  BY <1>2, <1>4, <1>5 DEF ChildIs
<1> HIDE DEF r, n
<1>7. At(recs, q) = r /\ r \in Active(recs) /\ recs[r] \in RecordItem
  BY <1>1, <1>6, KidFacts, AtFinds, ParentPath
<1>8. ~recs[r].isignore /\ recs[r].isdir \in BOOLEAN
  BY <1>7 DEF NoneIgnored, RecordItem
<1>9. PICK l \in DOMAIN Top.files : Top.files[l].name = n /\ Top.files[l].isdir = recs[r].isdir
  BY <1>1, <1>6 DEF TopIs, Doomed, Borne
<1>10. item.isdir = recs[r].isdir
  <2>1. l = k
    BY <1>1, <1>9 DEF TopIs
  <2> QED BY <1>9, <2>1
<1>11. /\ local[q] # None /\ item.isdir = (local[q] = Dir) /\ (IsFile(local[q]) => item.attr = AttrOf[local[q]])
  BY DEF Shows, Listed, Running, Ended
<1> HIDE DEF item
<1>12. local[q] = Dir => DirAt(recs, q)
  <2>1. local[q] = Dir => recs[r].isdir = TRUE
    BY <1>10, <1>11
  <2> QED BY <1>4, <1>7, <2>1 DEF DirAt
<1>13. ASSUME IsFile(local[q]) PROVE Settled(q)
  <2>1. recs[r].isdir = FALSE
    BY <1>10, <1>11, <1>13 DEF IsFile
  <2>2. item.attr = AttrOf[local[q]]
    BY <1>11, <1>13
  <2>3. ~Unlike(AttrAt(recs, q), item.attr)
    BY <1>4, <1>7, <1>8, <2>1 DEF Modified, Differs, Unlike, AttrAt
  <2> QED BY <1>4, <1>7, <2>1, <2>2, <2>3 DEF Settled, FileAt
<1> QED BY <1>12, <1>13 DEF Finished

(* How the action that changes an entry of the listing comes to its end.                 *)
LEMMA ChangeEnds ==
  ASSUME Types, NEW P, Now(P), Next, quiet', pc \in Busy, ~Deleting, pc' \notin Busy, Running', UNCHANGED restate
  PROVE  Record \/ (ReadAttr /\ pc' = "step")
<1>1. ~Start /\ ~User
  BY DEF Start, User, SaveFile, MakeDir, Delete, ToggleIgnore, Edit, Busy, Ended
<1>2. ~Fails
  <2>1. ~Fault
    BY DEF Fault
  <2> QED BY <2>1 DEF Fails, PutHistFails, UploadLocked, UploadFails, MkDirFails, DeleteFails, DelDirMissed, Crash
<1>3. ~Fallback
  <2> SUFFICES ASSUME Fallback PROVE FALSE
    OBVIOUS
  <2>1. restate' = PoppedToInit /\ Len(restate) >= 2
    BY DEF Fallback, RecordFail, Running, Ended
  <2>2. Stack(recs, P, restate) /\ Top.stage \in {"REMOVE", "NEW"}
    BY Acting
  <2>3. PoppedToInit[Len(PoppedToInit)].stage = "INIT"
    BY <2>1, <2>2, Unstack
  <2>4. Top' = Top
    BY DEF Top
  <2> HIDE DEF PoppedToInit
  <2> QED BY <2>1, <2>2, <2>3, <2>4 DEF Top
<1>4. ~RefreshStep
  BY <1>3, Zenon DEF RefreshStep, CheckStack, InitList, InitGone, ProposeDel, RemoveDone, ProposeAdd,
           ProposeMod, NewDone, Recur, RedoUpper, Return, Finish, InStage, Busy
<1>5. pc \notin {"unlink", "forget"} /\ pc' # "idle"
  BY Acting DEF ActIs, Deleting, DelTypes, Running, Ended
<1>6. CASE PutHist \/ Upload \/ UploadGone \/ MkDir
  BY <1>5, <1>6 DEF PutHist, Upload, UploadGone, MkDir, Goto, EndRun, Busy
<1>7. CASE SkipRemote \/ DeleteRemote \/ DeleteRefused \/ Forget
  BY <1>5, <1>7 DEF SkipRemote, DeleteRemote, DeleteRefused, Forget
<1>8. CASE ReadAttr
  BY <1>8 DEF ReadAttr, Goto, Busy
<1> QED BY <1>1, <1>2, <1>4, <1>6, <1>7, <1>8 DEF Next, Program, Perform

LEMMA FinishesNewStep ==
  ASSUME Types, Locals, NEW P, Now(P), Next, quiet', UNCHANGED local, NoneIgnored,
         Shows, Spares, ReadsNow, FinishesNew, Running'
  PROVE  FinishesNew'
<1> SUFFICES ASSUME Top'.stage = "NEW", NEW q \in Paths, NEW k, At(recs', Parent(q)) = Top'.rid, Lists(k, q)',
                    k < Top'.prog \/ (k = Top'.prog /\ ~Changing')
             PROVE  Finished(q)'
  BY DEF FinishesNew, Here
<1>1. ~InitList /\ Tops
  <2>1. Tops
    BY StackDoes
  <2> QED BY <2>1, Relists
<1>2. Listed /\ Top'.rid = Top.rid /\ Top'.files = Top.files
  BY <1>1 DEF Tops, TopStays
<1>3. Stack(recs, P, restate) /\ Forest(recs, P)
  BY <1>2 DEF Now, Shaped, Going, Listed, Running
<1>4. Top.rid \in Dirs(recs) /\ Top.rid \in Active(recs) /\ Top \in RefreshIter
  BY <1>3, TopFacts DEF Top, Dirs
<1>5. Here(q) /\ Lists(k, q)
  BY <1>2, <1>4, IdsStay, ParentPath DEF Here, Lists
<1>6. Top.prog \in Nat /\ k \in Nat /\ k >= 1
  <2>1. Top.prog \in Nat /\ Top.files \in Seq(Item) /\ k \in DOMAIN Top.files
    BY <1>4, <1>5 DEF RefreshIter, Lists
  <2>2. k \in 1 .. Len(Top.files) /\ Len(Top.files) \in Nat
    BY <2>1, LenProperties
  <2> QED BY <2>1, <2>2
<1>7. Finished(q) => Finished(q)'
  BY Lasts
<1>8. CASE Top'.prog = 0
  <2>1. ~(k < 0) /\ k # 0
    BY <1>6
  <2> QED BY <1>8, <2>1
<1>9. CASE ProposeAdd \/ ProposeMod
  <2>1. PICK i \in NextNew : Top' = [Top EXCEPT !.prog = i] /\ i > Top.prog /\ (Adds(i) \/ Modifies(i))
    BY <1>9, Proposed
  <2>2. pc = "stage" /\ Top.stage = "NEW"
    BY <1>9, Proposed
  <2>3. Top'.prog = i
    BY <1>4, <2>1 DEF RefreshIter
  <2>4. Changing'
    <3>1. act'.type \notin DelTypes
      BY <2>1 DEF Adds, Modifies, DelTypes
    <3>2. pc' \in Busy
      BY <1>9 DEF ProposeAdd, ProposeMod, Propose, Busy
    <3> QED BY <3>1, <3>2 DEF Changing, Deleting, DelTypes
  <2>5. CASE k > Top.prog
    <3>1. k < i
      BY <2>3, <2>4
    <3>2. i \in Nat
      <4>1. i \in DOMAIN Top.files /\ Top.files \in Seq(Item)
        BY <1>4 DEF NextNew, NewItems, RefreshIter
      <4> QED BY <4>1, LenProperties
    <3>3. ~(i <= k)
      BY <1>6, <3>1, <3>2
    <3>4. k \notin NewItems
      BY <3>3 DEF NextNew
    <3> QED BY <1>5, <1>7, <2>2, <2>5, <3>4, NotNew
  <2>6. CASE ~(k > Top.prog)
    <3>1. k < Top.prog \/ k = Top.prog
      BY <1>6, <2>6
    <3>2. ~Changing
      BY <2>2 DEF Changing, Busy
    <3> QED BY <1>2, <1>5, <1>7, <2>2, <3>1, <3>2 DEF FinishesNew, Listed
  <2> QED BY <2>5, <2>6
<1>10. CASE ~ProposeAdd /\ ~ProposeMod /\ UNCHANGED restate
  <2>1. Top' = Top
    BY <1>10 DEF Top
  <2>2. CASE k < Top.prog \/ ~Changing
    BY <1>2, <1>5, <1>7, <2>1, <2>2 DEF FinishesNew, Listed
  <2>3. CASE k = Top.prog /\ Changing /\ ~Changing'
    <3>1. pc \in Busy /\ ~Deleting
      BY <2>3 DEF Changing
    <3>2. pc' \notin Busy
      <4>1. ASSUME pc' \in Busy PROVE ~SameAction
        BY <2>3, <3>1, <4>1 DEF SameAction, Changing, Deleting
      <4>2. ~ProposeDel
        BY <3>1 DEF ProposeDel, InStage, Busy
      <4> QED BY <1>10, <4>1, <4>2, BusySteps
    <3>3. Record \/ (ReadAttr /\ pc' = "step")
      BY <1>10, <3>1, <3>2, ChangeEnds
    <3>4. /\ act.path \in Paths /\ Here(act.path) /\ Lists(Top.prog, act.path)
          /\ IF act.type = "ADDDIR" THEN local[act.path] = Dir ELSE IsFile(local[act.path])
          /\ IF act.type = "MODFILE" THEN FileAt(recs, act.path) ELSE At(recs, act.path) = 0
      BY <3>1, ChangeMeets
    <3>5. q = act.path
      <4>1. \A p \in Paths : p = Append(Parent(p), p[Len(p)]) /\ (Here(p) => Parent(p) = P[Top.rid])
        BY <1>3, <1>4, Entries DEF Here
      <4>2. Parent(q) = Parent(act.path) /\ q[Len(q)] = act.path[Len(act.path)]
        BY <1>5, <2>3, <3>4, <4>1 DEF Lists
      <4> QED BY <3>4, <4>1, <4>2
    <3>6. CASE Record
      <4>1. RecordDoes
        BY <3>6, RecordIs
      <4>2. CASE act.type = "ADDDIR"
        <5>1. DirAt(recs', q)
          BY <3>5, <4>1, <4>2 DEF RecordDoes, DirAt
        <5>2. local[q] = Dir
          BY <3>4, <3>5, <4>2
        <5> QED BY <5>1, <5>2 DEF Finished, IsFile
      <4>3. CASE act.type # "ADDDIR"
        <5>1. act.attr = AttrOf[local[q]] /\ ~act.pending
          BY <3>1, <3>5, <3>6, <4>3 DEF ReadsNow, Record
        <5>2. IsFile(local[q])
          BY <3>4, <3>5, <4>3
        <5>3. FileAt(recs', q) /\ AttrAt(recs', q) = AttrOf[local[q]]
          BY <3>5, <4>1, <4>3, <5>1 DEF RecordDoes, FileAt
        <5>4. local[q] \in Versions
          BY <5>2 DEF Types, Nodes, IsFile
        <5> QED BY <5>2, <5>3, <5>4, VersionFacts DEF Finished, Settled, IsFile
      <4> QED BY <4>2, <4>3
    <3>7. CASE ReadAttr /\ pc' = "step"
      <4> DEFINE node == local[act.path]
                 b == IF IsFile(node) THEN AttrOf[node] ELSE [time |-> 0, size |-> 0]
      <4>1. /\ RecordAt(act.path) # 0 /\ recs[RecordAt(act.path)].time = b.time
            /\ recs[RecordAt(act.path)].sub = b.size
        BY <3>7 DEF ReadAttr, Goto
      <4>2. At(recs, q) # 0 /\ recs[At(recs, q)].time = b.time /\ recs[At(recs, q)].sub = b.size
        BY <3>5, <4>1, RecordAtIsAt
      <4>3. FileAt(recs, q) /\ act.type = "MODFILE"
        BY <3>4, <3>5, <4>2
      <4>4. IsFile(local[q])
        BY <3>4, <3>5, <4>3
      <4>5. b = AttrOf[local[q]] /\ local[q] \in Versions
        BY <3>5, <4>4 DEF Types, Nodes, IsFile
      <4> HIDE DEF b
      <4>6. ~Unlike(AttrAt(recs, q), AttrOf[local[q]])
        BY <4>2, <4>5, VersionFacts DEF Unlike, AttrAt
      <4> QED BY <1>7, <4>3, <4>4, <4>6 DEF Finished, Settled, IsFile
    <3> QED BY <3>3, <3>6, <3>7
  <2> QED BY <2>1, <2>2, <2>3
<1> QED BY <1>1, <1>8, <1>9, <1>10 DEF Tops

(* The way to a path, one step on.                                                 *)
LEMMA StepDown ==
  ASSUME NEW f \in Paths, NEW k \in Nat, k < Len(f), NEW q, q = SubSeq(f, 1, k + 1)
  PROVE  q \in Paths /\ Parent(q) = SubSeq(f, 1, k) /\ (q = f \/ q \in Above(f))
<1>1. f \in Seq(Names) /\ Len(f) \in Nat
  BY PathSets, LenProperties
<1>2. k + 1 \in 1 .. Len(f) /\ k + 1 \in 0 .. Len(f) /\ k \in 0 .. Len(f) /\ k \in 0 .. k + 1 /\ k + 1 - 1 = k
  BY <1>1
<1>3. q = f \/ q \in Above(f)
  <2>1. PICK j \in 1 .. Len(f) : q = SubSeq(f, 1, j)
    BY <1>2
  <2>2. Above(f) \cup {f} = {SubSeq(f, 1, i) : i \in 1 .. Len(f)}
    BY PathsAbove
  <2>3. q \in {SubSeq(f, 1, i) : i \in 1 .. Len(f)}
    BY <2>1
  <2> QED BY <2>2, <2>3
<1>4. q \in Paths
  BY <1>3, PathsAbove
<1>5. q \in Seq(Names) /\ Len(q) = k + 1 /\ \A j \in 1 .. k + 1 : q[j] = f[j]
  BY <1>1, <1>2, PrefixFacts
<1>6. Parent(q) = SubSeq(q, 1, k)
  BY <1>2, <1>5 DEF Parent
<1>7. k \in 0 .. Len(q)
  BY <1>2, <1>5
<1>8. /\ SubSeq(q, 1, k) \in Seq(Names) /\ Len(SubSeq(q, 1, k)) = k
      /\ \A j \in 1 .. k : SubSeq(q, 1, k)[j] = q[j]
  BY <1>5, <1>7, PrefixFacts
<1>9. /\ SubSeq(f, 1, k) \in Seq(Names) /\ Len(SubSeq(f, 1, k)) = k
      /\ \A j \in 1 .. k : SubSeq(f, 1, k)[j] = f[j]
  BY <1>1, <1>2, PrefixFacts
<1>10. \A j \in 1 .. k : SubSeq(q, 1, k)[j] = SubSeq(f, 1, k)[j]
  <2>1. \A j \in 1 .. k : j \in 1 .. k + 1
    BY <1>2
  <2> QED BY <1>5, <1>8, <1>9, <2>1
<1>11. SubSeq(q, 1, k) = SubSeq(f, 1, k)
  BY <1>8, <1>9, <1>10, SeqEqual
<1> QED BY <1>3, <1>4, <1>6, <1>11

(* A directory that the walk leaves is dealt with, with all it holds.                    *)
LEMMA WholeCovered ==
  ASSUME NEW P, Forest(recs, P), Locals, NEW it, it.rid \in Dirs(recs), it.stage = "RETURN", LevelDone(it, 0),
         NEW f \in Paths, P[it.rid] = <<>> \/ P[it.rid] \in Above(f), IsFile(local[f])
  PROVE  Settled(f)
<1>1. f \in Seq(Names) /\ Len(f) \in Nat /\ Len(f) >= 1
  BY PathSets, DepthAssumption
<1>2. PICK k \in Nat : k < Len(f) /\ P[it.rid] = SubSeq(f, 1, k)
  <2>1. CASE P[it.rid] = <<>>
    <3>1. SubSeq(f, 1, 0) = <<>>
      BY SubSeqEmpty
    <3>2. 0 \in Nat /\ 0 < Len(f)
      BY <1>1
    <3> QED BY <2>1, <3>1, <3>2
  <2>2. CASE P[it.rid] \in Above(f)
    <3>1. PICK k \in 1 .. Len(f) - 1 : P[it.rid] = SubSeq(f, 1, k)
      BY <2>2, PathsAbove
    <3>2. k \in Nat /\ k < Len(f)
      BY <1>1
    <3> QED BY <3>1, <3>2
  <2> QED BY <2>1, <2>2
<1>3. PICK q \in Paths : Parent(q) = P[it.rid] /\ (q = f \/ q \in Above(f))
  BY <1>2, StepDown
<1>4. At(recs, Parent(q)) = it.rid
  BY <1>3, Entries
<1>5. Finished(q)
  BY <1>4 DEF LevelDone
<1>6. CASE q = f
  BY <1>5, <1>6 DEF Finished
<1>7. CASE q \in Above(f)
  <2>1. local[q] = Dir
    BY <1>7 DEF Locals, Closed, IsFile
  <2>2. At(recs, q) # 0
    BY <1>5, <2>1 DEF Finished, DirAt
  <2>3. Covered(q)
    BY <1>4, <2>1, <2>2 DEF LevelDone, Visited
  <2> QED BY <1>7, <2>3 DEF Covered
<1> QED BY <1>3, <1>6, <1>7

(* RECUR enters the directories in the order of their names, and leaves none out.         *)
LEMMA EnterNext ==
  ASSUME NEW P, Now(P), pc = "stage", Top.stage = "RECUR",
         NEW r \in Kids(recs, P, Top.rid), recs[r].isdir, ~recs[r].isignore
  PROVE  \/ Top.prog # 0 /\ recs[r].name < NameOf(Top.prog)
         \/ NextToEnter = r
         \/ /\ NextToEnter # 0 /\ NextSibling(recs, NextToEnter) # 0
            /\ NameOf(NextSibling(recs, NextToEnter)) <= recs[r].name
<1> DEFINE K == Kids(recs, P, Top.rid)
           S == {s \in Dirs(recs) : ~recs[s].isignore}
           x == IF Top.prog = 0 THEN recs[Top.rid].sub ELSE Top.prog
           e == NextToEnter
<1>1. /\ Forest(recs, P) /\ Top.rid \in Dirs(recs) /\ Level(recs, P, Top) /\ Linked(recs, K, Top.rid)
      /\ 0 \notin K /\ \A s \in K : recs[s].name \in Nat
      /\ \A s, t \in K : recs[s].name = recs[t].name => s = t
  <2>1. Forest(recs, P) /\ Top.rid \in Dirs(recs) /\ Level(recs, P, Top)
    BY AtStage
  <2> QED BY <2>1, KidFacts
<1>2. x \in K \cup {0} /\ (Top.prog = 0 => FirstOf(recs, K, x))
  BY <1>1 DEF Linked, FirstOf, Level
<1>3. FirstOf(recs, Rest(recs, K, x) \cap S, e)
  <2> HIDE DEF x
  <2>1. FirstOf(recs, Rest(recs, Kids(recs, P, Top.rid), x) \cap S, FirstFrom(x, S))
    <3> HIDE DEF S
    <3> QED BY <1>1, <1>2, FirstFromFinds
  <2> QED BY <2>1 DEF NextToEnter, x
<1>4. r \in S
  <2>1. r \in Active(recs)
    BY DEF Kids
  <2> QED BY <2>1 DEF Dirs
<1> HIDE DEF x, S, e, K
<1>5. r \in K /\ (e \in K \/ e = 0)
  BY <1>3 DEF FirstOf, Rest, K
<1>6. CASE r \notin Rest(recs, K, x)
  <2>1. Top.prog # 0
    <3> SUFFICES ASSUME Top.prog = 0 PROVE FALSE
      OBVIOUS
    <3>1. Rest(recs, K, x) = K
      BY <1>1, <1>2, RestOfFirst
    <3> QED BY <1>5, <1>6, <3>1
  <2>2. x = Top.prog /\ x \in K
    BY <1>2, <2>1 DEF x
  <2>3. ~(recs[x].name <= recs[r].name)
    BY <1>1, <1>5, <1>6, <2>2 DEF Rest
  <2>4. recs[r].name < recs[x].name
    BY <1>1, <1>5, <2>2, <2>3
  <2> QED BY <2>1, <2>2, <2>4 DEF NameOf
<1>7. CASE r \in Rest(recs, K, x) /\ e # r
  <2>1. e # 0 /\ e \in K /\ recs[e].name <= recs[r].name
    BY <1>1, <1>3, <1>4, <1>7 DEF FirstOf, Rest
  <2>2. recs[e].name < recs[r].name
    <3>1. recs[e].name # recs[r].name
      BY <1>1, <1>5, <1>7, <2>1
    <3> QED BY <1>1, <1>5, <2>1, <3>1
  <2>3. FirstOf(recs, Greater(recs, K, e), NextSibling(recs, e)) /\ r \in Greater(recs, K, e)
    BY <1>1, <1>5, <2>1, <2>2 DEF Linked, Greater
  <2>4. NextSibling(recs, e) # 0 /\ recs[NextSibling(recs, e)].name <= recs[r].name
    BY <1>1, <2>3 DEF FirstOf, Greater
  <2> QED BY <2>1, <2>4 DEF NameOf, e
<1> QED BY <1>6, <1>7 DEF e

(* A level stays dealt with.                                                       *)
LEMMA LevelKeeps ==
  ASSUME Types, Locals, NEW P, Now(P), NEW Q, Forest(recs', Q), Next, UNCHANGED local, Spares, ReadsNow,
         NEW it, Level(recs, P, it), Level(recs', Q, it), it.stage \in {"RECUR", "RETURN"}, NEW x, LevelDone(it, x)
  PROVE  LevelDone(it, x)'
<1> SUFFICES ASSUME NEW q \in Paths, At(recs', Parent(q)) = it.rid
             PROVE  /\ Finished(q)'
                    /\ local'[q] = Dir /\ Visited(it, q[Len(q)])' /\ At(recs', q) # x => Covered(q)'
  BY DEF LevelDone
<1>1. Forest(recs, P) /\ it.rid \in Dirs(recs) /\ it.rid \in Active(recs)
  BY DEF Now, Shaped, Level, Dirs
<1>2. At(recs, Parent(q)) = it.rid
  BY <1>1, IdsStay, ParentPath
<1>3. Finished(q) /\ Finished(q)'
  BY <1>2, Lasts DEF LevelDone
<1>4. ASSUME local[q] = Dir, Visited(it, q[Len(q)])', At(recs', q) # x
      PROVE  Covered(q)'
  <2>1. At(recs, q) # x
    BY <1>3, <1>4, Keeps DEF Finished
  <2>2. Visited(it, q[Len(q)])
    <3>1. CASE it.stage = "RETURN"
      BY <3>1 DEF Visited
    <3>2. CASE it.stage = "RECUR"
      <4>1. it.prog # 0 /\ q[Len(q)] < recs'[it.prog].name
        BY <1>4, <3>2 DEF Visited, NameOf
      <4>2. it.prog \in Active(recs) /\ it.prog \in Active(recs')
        BY <3>2, <4>1 DEF Level, Kids
      <4>3. SameInUse(recs, recs')
        BY RecsDo, RecordIs, GetsFewer DEF RecordDoes
      <4>4. recs'[it.prog].name = recs[it.prog].name
        BY <4>2, <4>3 DEF SameInUse
      <4> QED BY <4>1, <4>4 DEF Visited, NameOf
    <3> QED BY <3>1, <3>2
  <2>3. Covered(q)
    BY <1>2, <1>4, <2>1, <2>2 DEF LevelDone
  <2> QED BY <2>3, Lasts
<1> QED BY <1>3, <1>4

LEMMA LevelSame ==
  ASSUME UNCHANGED <<local, registry>>, NEW it, NEW x, LevelDone(it, x)
  PROVE  LevelDone(it, x)'
<1>1. recs' = recs
  BY DEF registry
<1> QED BY <1>1 DEF LevelDone, Visited, NameOf, Finished, Covered, Settled

LEMMA EnterDone ==
  ASSUME Types, NEW P, Now(P), pc = "stage", Top.stage = "RECUR", NoneIgnored, LevelDone(Top, 0),
         NEW it, it.rid = Top.rid,
         \/ NextToEnter = 0
         \/ /\ it.prog = NextSibling(recs, NextToEnter)
            /\ it.stage = (IF NextSibling(recs, NextToEnter) = 0 THEN "RETURN" ELSE "RECUR")
  PROVE  LevelDone(it, NextToEnter)
<1> SUFFICES ASSUME NEW q \in Paths, At(recs, Parent(q)) = Top.rid
             PROVE  /\ Finished(q)
                    /\ local[q] = Dir /\ Visited(it, q[Len(q)]) /\ At(recs, q) # NextToEnter => Covered(q)
  BY DEF LevelDone
<1>1. Finished(q)
  BY DEF LevelDone
<1>2. ASSUME local[q] = Dir, Visited(it, q[Len(q)]), At(recs, q) # NextToEnter
      PROVE  Covered(q)
  <2> DEFINE r == At(recs, q)
             n == q[Len(q)]
             e == NextToEnter
             next == NextSibling(recs, e)
  <2>1. Forest(recs, P) /\ Top.rid \in Dirs(recs)
    BY AtStage
  <2>2. r # 0 /\ recs[r].isdir
    BY <1>1, <1>2 DEF Finished, DirAt
  <2>3. r \in Kids(recs, P, Top.rid) /\ recs[r].name = n /\ n \in Names
    BY <2>1, <2>2, Entries
  <2>4. ~recs[r].isignore
    BY <2>3 DEF NoneIgnored, Kids
  <2>5. \/ Top.prog # 0 /\ recs[r].name < NameOf(Top.prog)
        \/ e = r
        \/ e # 0 /\ next # 0 /\ NameOf(next) <= recs[r].name
    <3> HIDE DEF r
    <3> QED BY <2>2, <2>3, <2>4, EnterNext
  <2>6. CASE Top.prog # 0 /\ recs[r].name < NameOf(Top.prog)
    <3>1. Visited(Top, n)
      BY <2>3, <2>6 DEF Visited
    <3> QED BY <1>2, <2>2, <3>1 DEF LevelDone
  <2>7. CASE e # 0 /\ next # 0 /\ NameOf(next) <= recs[r].name
    <3>1. it.prog = next /\ it.stage = "RECUR"
      BY <2>7
    <3> HIDE DEF e, next, r
    <3>2. n < NameOf(next)
      BY <1>2, <3>1 DEF Visited
    <3>3. next \in Ids
      <4>1. next \in Kids(recs, P, Top.rid) \cup {0}
        BY <2>7, ToEnter DEF e, next
      <4> QED BY <2>1, <2>7, <4>1, KidFacts
    <3>4. NameOf(next) \in Nat /\ n \in Nat
      <4>1. recs[next] \in RecordItem
        BY <2>1, <3>3 DEF Forest
      <4> QED BY <2>3, <4>1, NamesAssumption DEF NameOf, RecordItem
    <3>5. ~(NameOf(next) <= n)
      BY <3>2, <3>4
    <3> QED BY <2>3, <2>7, <3>5
  <2> QED BY <1>2, <2>5, <2>6, <2>7
<1> QED BY <1>1, <1>2

LEMMA RecurStack ==
  ASSUME NEW P, Stack(recs, P, restate), Recur, NextToEnter # 0, NEW it,
         it = [Top EXCEPT !.stage = IF NextSibling(recs, NextToEnter) = 0 THEN "RETURN" ELSE "RECUR",
                          !.prog = NextSibling(recs, NextToEnter)]
  PROVE  /\ Len(restate') = Len(restate) + 1 /\ restate'[Len(restate)] = it
         /\ restate'[Len(restate) + 1] = NewIter(NextToEnter)
         /\ \A i \in 1 .. Len(restate) - 1 : restate'[i] = restate[i]
<1> DEFINE m == Len(restate)
           s == [restate EXCEPT ![m] = it]
           new == NewIter(NextToEnter)
           S == RefreshIter \cup {it} \cup {new}
<1>1. restate' = Append(s, new)
  BY DEF Recur, WithTop
<1>2. m \in Nat \ {0} /\ restate \in Seq(RefreshIter) /\ restate \in [1 .. m -> RefreshIter]
  BY TopFacts DEF Stack
<1> HIDE DEF new
<1>3. /\ Len(s) = m /\ s[m] = it /\ \A i \in 1 .. m - 1 : s[i] = restate[i]
  BY <1>2, Retop
<1>4. s \in [1 .. m -> S]
  BY <1>2
<1> HIDE DEF s, S, m
<1>5. s \in Seq(S)
  BY <1>2, <1>4, FunctionIsSeq
<1>6. new \in S
  BY DEF S
<1>7. /\ Len(Append(s, new)) = Len(s) + 1 /\ Append(s, new)[Len(s) + 1] = new
      /\ \A i \in 1 .. Len(s) : Append(s, new)[i] = s[i]
  BY <1>5, <1>6, AppendProperties
<1>8. m \in 1 .. m /\ \A i \in 1 .. m - 1 : i \in 1 .. m
  BY <1>2
<1> QED BY <1>1, <1>3, <1>7, <1>8 DEF m, new

LEMMA LevelsDoneStep ==
  ASSUME Types, Locals, NEW P, Now(P), NEW Q, Now(Q)', Next, UNCHANGED local, NoneIgnored,
         Shows, Spares, ReadsNow, FinishesNew, LevelsDone, Running, Running',
         RedoUpper => Len(restate) # 1
  PROVE  LevelsDone'
<1> SUFFICES ASSUME NEW i \in DOMAIN restate', NEW it, it = restate'[i], it.stage \in {"RECUR", "RETURN"},
                    NEW x, x = IF i = Len(restate') THEN 0 ELSE restate'[i + 1].rid
             PROVE  LevelDone(it, x)'
  BY DEF LevelsDone, Entered
<1>1. Stack(recs, P, restate) /\ Forest(recs, P)
  BY DEF Now, Shaped, Going, Running
<1>2. Stack(recs', Q, restate') /\ Forest(recs', Q)
  BY DEF Now, Shaped, Going, Running
<1> DEFINE m == Len(restate)
           w == Len(restate')
<1>3. /\ m \in Nat \ {0} /\ DOMAIN restate = 1 .. m /\ m \in 1 .. m
      /\ w \in Nat \ {0} /\ DOMAIN restate' = 1 .. w
  <2>1. m \in Nat \ {0} /\ DOMAIN restate = 1 .. m
    BY <1>1, TopFacts
  <2>2. w \in Nat \ {0} /\ DOMAIN restate' = 1 .. w
    BY <1>2, TopFacts
  <2> QED BY <2>1, <2>2
<1> HIDE DEF m, w
<1>4. i \in 1 .. w /\ Level(recs', Q, it)
  BY <1>2, <1>3 DEF Stack, w
<1>5. Tops
  BY StackDoes
<1>6. \A j \in 1 .. m : Level(recs, P, restate[j])
  BY <1>1 DEF Stack, m
<1>7. \A j \in 1 .. m : restate[j].stage \in {"RECUR", "RETURN"} =>
        LevelDone(restate[j], IF j = m THEN 0 ELSE restate[j + 1].rid)
  BY <1>3, Zenon DEF LevelsDone, Entered, m
<1>8. ASSUME NEW j \in 1 .. m, it = restate[j], x = IF j = m THEN 0 ELSE restate[j + 1].rid
      PROVE  LevelDone(it, x)'
  <2>1. LevelDone(it, x) /\ Level(recs, P, it)
    BY <1>6, <1>7, <1>8
  <2> QED BY <1>2, <1>4, <2>1, LevelKeeps
<1>9. CASE i # w /\ ~Recur
  <2>1. i \in 1 .. w - 1
    BY <1>3, <1>4, <1>9
  <2>2. i \in 1 .. m - 1 /\ restate'[i] = restate[i] /\ restate'[i + 1].rid = restate[i + 1].rid
    BY <1>5, <1>9, <2>1 DEF Tops, Nested, m, w
  <2>3. i \in 1 .. m /\ i # m
    BY <1>3, <2>2
  <2> QED BY <1>8, <1>9, <2>2, <2>3 DEF w
<1>10. CASE UNCHANGED restate
  <2>1. w = m
    BY <1>10 DEF w, m
  <2> QED BY <1>4, <1>8, <1>10, <2>1 DEF w
<1>11. CASE NewDone
  <2>1. pc = "stage" /\ Top.stage = "NEW" /\ NewItems = {} /\ UNCHANGED registry
    BY <1>11 DEF NewDone, InStage, StackOnly
  <2>2. CASE i = w
    <3>1. it = Top' /\ x = 0
      BY <2>2 DEF Top, w
    <3>2. Top \in RefreshIter /\ Top.rid \in Dirs(recs)
      BY <1>1, TopFacts DEF Top
    <3>3. Top' = [Top EXCEPT !.stage = "RECUR", !.prog = 0]
      BY <1>1, <1>11, NewTops DEF NewDone
    <3>4. it.rid = Top.rid /\ it.stage = "RECUR" /\ it.prog = 0
      BY <3>1, <3>2, <3>3 DEF RefreshIter
    <3>5. ASSUME NEW q \in Paths, Here(q) PROVE Finished(q)
      <4>1. CASE local[q] = None
        BY <4>1, KindsAssumption DEF Finished, IsFile
      <4>2. CASE local[q] # None
        <5>1. Listed /\ ~Changing
          BY <2>1 DEF Listed, Running, Changing, Busy, Ended
        <5>2. PICK k : Lists(k, q)
          BY <3>5, <4>2, <5>1 DEF Shows
        <5>3. CASE k > Top.prog
          BY <2>1, <3>5, <5>2, <5>3, NotNew
        <5>4. CASE ~(k > Top.prog)
          <6>1. k \in Nat /\ Top.prog \in Nat
            <7>1. k \in DOMAIN Top.files /\ Top.files \in Seq(Item) /\ Top.prog \in Nat
              BY <3>2, <5>2 DEF Lists, RefreshIter
            <7> QED BY <7>1, LenProperties
          <6>2. k < Top.prog \/ k = Top.prog
            BY <5>4, <6>1
          <6> QED BY <2>1, <3>5, <5>1, <5>2, <6>2 DEF FinishesNew, Listed
        <5> QED BY <5>3, <5>4
      <4> QED BY <4>1, <4>2
    <3>6. LevelDone(it, x)
      BY <3>4, <3>5 DEF LevelDone, Here, Visited
    <3> QED BY <2>1, <3>6, LevelSame
  <2>3. ~Recur
    BY <2>1 DEF Recur, InStage
  <2> QED BY <1>9, <2>2, <2>3
<1>12. CASE Recur
  <2>1. pc = "stage" /\ Top.stage = "RECUR" /\ UNCHANGED registry
    BY <1>12 DEF Recur, InStage, StackOnly
  <2>2. Top \in RefreshIter /\ Top = restate[m]
    BY <1>1, TopFacts DEF Top, m
  <2>3. LevelDone(Top, 0)
    BY <1>3, <1>7, <2>1, <2>2
  <2>4. CASE NextToEnter = 0
    <3> DEFINE new == [Top EXCEPT !.stage = "RETURN"]
    <3>1. restate' = WithTop(new)
      BY <1>12, <2>4 DEF Recur
    <3>2. new.rid = Top.rid
      BY <2>2 DEF RefreshIter
    <3> HIDE DEF new
    <3>3. Top' = new /\ Len(restate') = Len(restate) /\ Nested(restate, restate')
      BY <1>1, <3>1, <3>2, NewTops
    <3>4. CASE i = w
      <4>1. it = new /\ x = 0
        BY <3>3, <3>4 DEF Top, w
      <4>2. LevelDone(it, x)
        BY <2>1, <2>3, <2>4, <3>2, <4>1, EnterDone
      <4> QED BY <2>1, <4>2, LevelSame
    <3>5. CASE i # w
      <4>1. i \in 1 .. w - 1
        BY <1>3, <1>4, <3>5
      <4>2. i \in 1 .. m - 1 /\ restate'[i] = restate[i] /\ restate'[i + 1].rid = restate[i + 1].rid
        BY <3>3, <4>1 DEF Nested, m, w
      <4>3. i \in 1 .. m /\ i # m
        BY <1>3, <4>2
      <4> QED BY <1>8, <3>5, <4>2, <4>3 DEF w
    <3> QED BY <3>4, <3>5
  <2>5. CASE NextToEnter # 0
    <3>1. PICK new : new = [Top EXCEPT !.stage = IF NextSibling(recs, NextToEnter) = 0 THEN "RETURN" ELSE "RECUR",
                                       !.prog = NextSibling(recs, NextToEnter)]
      OBVIOUS
    <3>2. /\ w = m + 1 /\ restate'[m] = new /\ restate'[m + 1] = NewIter(NextToEnter)
          /\ \A j \in 1 .. m - 1 : restate'[j] = restate[j]
      BY <1>1, <1>12, <2>5, <3>1, RecurStack DEF m, w
    <3>3. /\ new.rid = Top.rid /\ new.prog = NextSibling(recs, NextToEnter)
          /\ new.stage = IF NextSibling(recs, NextToEnter) = 0 THEN "RETURN" ELSE "RECUR"
      BY <2>2, <3>1 DEF RefreshIter
    <3>4. NewIter(NextToEnter).rid = NextToEnter /\ NewIter(NextToEnter).stage = "INIT"
      BY DEF NewIter
    <3>5. i \in 1 .. m - 1 \/ i = m \/ i = m + 1
      BY <1>3, <1>4, <3>2
    <3>6. i # m + 1
      BY <3>2, <3>4
    <3>7. CASE i = m
      <4>1. it = new /\ x = NextToEnter
        <5>1. m # w
          BY <1>3, <3>2
        <5> QED BY <3>2, <3>4, <3>7, <5>1 DEF w
      <4>2. LevelDone(it, x)
        BY <2>1, <2>3, <3>3, <4>1, EnterDone
      <4> QED BY <2>1, <4>2, LevelSame
    <3>8. CASE i \in 1 .. m - 1
      <4>1. i \in 1 .. m /\ i # m /\ i # w
        BY <1>3, <3>2, <3>8
      <4>2. restate'[i + 1].rid = restate[i + 1].rid
        <5>1. i + 1 \in 1 .. m - 1 \/ i + 1 = m
          BY <1>3, <3>8
        <5> QED BY <2>2, <3>2, <3>3, <5>1
      <4> QED BY <1>8, <3>2, <3>8, <4>1, <4>2 DEF w
    <3> QED BY <3>5, <3>6, <3>7, <3>8
  <2> QED BY <2>4, <2>5
<1>13. CASE Return
  <2>1. pc = "stage" /\ Top.stage = "RETURN" /\ m > 1 /\ UNCHANGED registry /\ restate' = Popped /\ ~Recur
    BY <1>13 DEF Return, InStage, StackOnly, Recur, m
  <2>2. CASE i = w
    <3>1. m >= 2 /\ m - 1 \in 1 .. m /\ m - 1 # m /\ m - 1 + 1 = m
      BY <1>3, <2>1, SMTT(60)
    <3>2. it = restate[m - 1] /\ x = 0
      BY <1>1, <2>1, <2>2, <3>1, Unstack DEF m, w
    <3>3. Top = restate[m] /\ Top.rid \in Dirs(recs)
      BY <1>1, TopFacts DEF Top, m
    <3>4. LevelDone(it, Top.rid) /\ LevelDone(Top, 0)
      BY <1>3, <1>7, <2>1, <3>1, <3>2, <3>3
    <3>5. ASSUME NEW q \in Paths, At(recs, Parent(q)) = it.rid, local[q] = Dir, Visited(it, q[Len(q)])
          PROVE  Covered(q)
      <4>1. CASE At(recs, q) # Top.rid
        BY <3>4, <3>5, <4>1 DEF LevelDone
      <4>2. CASE At(recs, q) = Top.rid
        <5>1. Top.rid # 0
          BY <1>1, <3>3, KidFacts
        <5>2. P[Top.rid] = q
          BY <1>1, <4>2, <5>1, AtFinds, ParentPath
        <5>3. \A f \in Paths : P[Top.rid] \in Above(f) /\ IsFile(local[f]) => Settled(f)
          BY <1>1, <2>1, <3>3, <3>4, WholeCovered
        <5> QED BY <5>2, <5>3 DEF Covered
      <4> QED BY <4>1, <4>2
    <3>6. LevelDone(it, x)
      BY <3>4, <3>5 DEF LevelDone
    <3> QED BY <2>1, <3>6, LevelSame
  <2> QED BY <1>9, <2>1, <2>2
<1>14. CASE i = w /\ ~Recur /\ ~NewDone /\ ~Return
  <2>1. Top'.stage \in {"RECUR", "RETURN"}
    BY <1>14 DEF Top, w
  <2>2. UNCHANGED restate \/ (RedoUpper /\ Len(restate) = 1)
    BY <1>5, <1>14, <2>1 DEF Tops
  <2> QED BY <1>10, <2>2
<1> QED BY <1>9, <1>11, <1>12, <1>13, <1>14

-----------------------------------------------------------------------------
(***************************************************************************)
(* A run from beginning to end.                                            *)
(***************************************************************************)
Always ==
  /\ Locals
  /\ Running => ~done
  /\ Running /\ Top.stage = "REDOUPPER" => Len(restate) # 1

LEMMA DoneDo ==
  ASSUME Next
  PROVE  Start \/ Finish \/ UNCHANGED done
<1>1. User \/ Fails => UNCHANGED done
  BY DEF User, SaveFile, MakeDir, Delete, ToggleIgnore, Edit, Fails, PutHistFails, UploadLocked, UploadFails,
         MkDirFails, DeleteFails, DelDirMissed, Crash, Fault
<1>2. RefreshStep => Finish \/ UNCHANGED done
  BY Zenon DEF RefreshStep, Fallback, CheckStack, InitList, InitGone, ProposeDel, RemoveDone, ProposeAdd,
         ProposeMod, Propose, NewDone, Recur, RedoUpper, Return, StackOnly, Working
<1>3. Perform => UNCHANGED done
  BY DEF Perform, ReadAttr, PutHist, Upload, UploadGone, MkDir, SkipRemote, DeleteRemote, DeleteRefused,
         Record, Forget, Goto, Working
<1> QED BY <1>1, <1>2, <1>3 DEF Next, Program

LEMMA AlwaysStep ==
  ASSUME Types, ToldApart, NEW P, Now(P), Next, Always
  PROVE  Always'
<1>1. Locals'
  BY GoesForth DEF Always
<1>2. ASSUME Running' PROVE ~done'
  <2>1. ~Finish
    BY <1>2 DEF Finish, Running, Ended
  <2>2. Start => ~done'
    BY DEF Start
  <2>3. ~Start => Running /\ done' = done
    BY <1>2, <2>1, RunBegins, DoneDo
  <2>4. Running => ~done
    BY DEF Always
  <2> QED BY <2>2, <2>3, <2>4
<1>3. ASSUME Running', Top'.stage = "REDOUPPER" PROVE Len(restate') # 1
  <2>1. (Running /\ UNCHANGED restate) \/ InitGone
    BY <1>3, StackDoes DEF Tops
  <2>2. CASE Running /\ UNCHANGED restate
    BY <1>3, <2>2 DEF Always, Top
  <2>3. CASE InitGone
    <3>1. Running /\ Len(restate) # 1
      BY <2>3 DEF InitGone, InStage, IsLocalDir, InitPath, Running, Ended
    <3>2. Stack(recs, P, restate)
      BY <3>1 DEF Now, Shaped, Going, Running
    <3>3. pc' # "TooManyFails"
      BY <1>3 DEF Running, Ended
    <3>4. PICK it : restate' = WithTop(it)
      BY <2>3, <3>3 DEF InitGone, RecordFail
    <3> QED BY <3>1, <3>2, <3>4, NewTops
  <2> QED BY <2>1, <2>2, <2>3
<1> QED BY <1>1, <1>2, <1>3 DEF Always

LEMMA StartUndisturbed ==
  ASSUME Start
  PROVE  Undisturbed'
<1> DEFINE it == NewIter(ROOT)
<1>1. it.stage = "INIT" /\ restate' = <<it>> /\ pc' = "step"
  BY DEF Start, NewIter
<1> HIDE DEF it
<1>2. Top' = it /\ \A i \in DOMAIN restate' : restate'[i] = it
  BY <1>1 DEF Top
<1>3. Shows' /\ FinishesNew'
  BY <1>1, <1>2 DEF Shows, Listed, FinishesNew
<1>4. Spares' /\ ReadsNow'
  BY <1>1 DEF Spares, ReadsNow, Busy
<1>5. LevelsDone'
  BY <1>1, <1>2 DEF LevelsDone
<1> QED BY <1>3, <1>4, <1>5 DEF Undisturbed

LEMMA UndisturbedStep ==
  ASSUME Types, Always, NEW P, Now(P), NEW Q, Now(Q)', Next, Core, quiet /\ Running => Undisturbed,
         quiet', Running'
  PROVE  Undisturbed'
<1>1. CASE Start
  BY <1>1, StartUndisturbed
<1>2. CASE Calm
  <2>1. Running /\ UNCHANGED local /\ Undisturbed /\ Locals /\ NoneIgnored
    BY <1>2 DEF Calm, Always, Core
  <2>2. Shows /\ Spares /\ ReadsNow /\ FinishesNew /\ LevelsDone
    BY <2>1 DEF Undisturbed
  <2>3. Shows' /\ Spares' /\ ReadsNow'
    BY <2>1, <2>2, ShowsStep, SparesStep, ReadsNowStep
  <2>4. FinishesNew'
    BY <2>1, <2>2, FinishesNewStep
  <2>5. RedoUpper => Len(restate) # 1
    BY <2>1 DEF RedoUpper, InStage, Always
  <2>6. LevelsDone'
    BY <2>1, <2>2, <2>5, LevelsDoneStep
  <2> QED BY <2>3, <2>4, <2>6 DEF Undisturbed
<1> QED BY <1>1, <1>2, CalmSteps

(* When refreshStep returns 0 every file has been dealt with.                        *)
LEMMA EndsBackedUp ==
  ASSUME Types, ToldApart, Always, NEW P, Now(P), Next, Core, quiet /\ Running => Undisturbed,
         pc' = "idle", done', quiet'
  PROVE  BackedUp'
<1>1. Running /\ quiet /\ Finish
  <2>1. ~Start
    BY DEF Start
  <2>2. Running /\ quiet /\ ~done
    BY <2>1, CalmSteps DEF Calm, Always
  <2> QED BY <2>1, <2>2, DoneDo
<1>2. Forest(recs, P) /\ Stack(recs, P, restate)
  BY <1>1 DEF Now, Shaped, Going, Running
<1>3. Len(restate) = 1 /\ Top.stage = "RETURN" /\ restate[1] = Top /\ DOMAIN restate = 1 .. Len(restate)
  BY <1>1, <1>2 DEF Finish, InStage, Top, Stack
<1>4. Top.rid = ROOT /\ ROOT \in Dirs(recs) /\ P[ROOT] = <<>>
  BY <1>2, <1>3 DEF Stack, Forest, Placed
<1>5. LevelDone(Top, 0)
  BY <1>1, <1>3 DEF Undisturbed, LevelsDone, Entered
<1>6. ASSUME NEW f \in Paths, IsFile(local[f]) PROVE Matches(f)
  <2>1. Settled(f)
    BY <1>2, <1>3, <1>4, <1>5, <1>6, WholeCovered DEF Always
  <2>2. Backed(f, AttrAt(recs, f))
    BY <2>1 DEF Core, Remembers, Settled
  <2> QED BY <1>6, <2>1, <2>2, SettledMatches DEF Settled
<1>7. UNCHANGED <<cur, local, ignored>>
  BY <1>1 DEF Finish, remote, user
<1> QED BY <1>6, <1>7 DEF BackedUp, Matches, Ignored

-----------------------------------------------------------------------------
BackupInv ==
  Ignorable = {} =>
    Core /\ (quiet /\ Running => Undisturbed) /\ (pc = "idle" /\ done /\ quiet => BackedUp)

LEMMA InitBacksUp ==
  ASSUME Init
  PROVE  Always /\ BackupInv
<1>1. PICK P : Now(P)
  BY InitShape DEF Shape
<1>2. recs = InitRecords /\ local = [p \in Paths |-> None] /\ pc = "idle" /\ done = FALSE
  BY DEF Init
<1>3. Forest(recs, P) /\ ~Running /\ pc \notin Busy
  BY <1>1, <1>2 DEF Now, Shaped, Running, Ended, Busy
<1>4. \A r \in Active(recs) : r = ROOT
  BY <1>2 DEF Active, InitRecords, Blank
<1>5. recs[ROOT].isdir /\ ~recs[ROOT].isignore
  BY <1>3 DEF Forest, Placed, Dirs
<1>6. Locals
  <2>1. \A p \in Paths : local[p] = None /\ ~IsFile(local[p])
    BY <1>2 DEF IsFile
  <2> QED BY <2>1 DEF Locals, Closed
<1>7. Remembers
  <2>1. ASSUME NEW p \in Paths PROVE ~FileAt(recs, p)
    <3>1. At(recs, p) \in Active(recs) \cup {0}
      BY <1>3, AtFinds DEF AnyPath
    <3> QED BY <1>4, <1>5, <3>1 DEF FileAt
  <2> QED BY <2>1 DEF Remembers
<1>8. NoneIgnored
  BY <1>3, <1>4, <1>5 DEF NoneIgnored, Listed
<1>9. Core
  BY <1>2, <1>3, <1>7, <1>8 DEF Core, RemovesStale, DeletesStale, ListsKnown, Listed, ModifiesStale, ReadsKnown
<1> QED BY <1>2, <1>3, <1>6, <1>9 DEF Always, BackupInv

LEMMA BackupSteps ==
  ASSUME ToldApart, Inv, Always, BackupInv, [Next]_vars
  PROVE  Always' /\ BackupInv'
<1>1. PICK P : Now(P)
  BY DEF Inv, Shape
<1>2. Types
  BY DEF Inv
<1>3. CASE Next
  <2>1. PICK Q : Now(Q)'
    BY <1>1, <1>2, <1>3, ShapeSteps DEF Shape
  <2>2. Always'
    BY <1>1, <1>2, <1>3, AlwaysStep
  <2>3. Ignorable' = Ignorable
    <3>1. UNCHANGED setup
      BY <1>3 DEF Next, Program
    <3> QED BY <3>1 DEF Ignorable
  <2>4. ASSUME Ignorable = {}
        PROVE  Core' /\ (quiet' /\ Running' => Undisturbed') /\ (pc' = "idle" /\ done' /\ quiet' => BackedUp')
    <3>1. Locals /\ Core /\ (quiet /\ Running => Undisturbed)
      BY <2>4 DEF Always, BackupInv
    <3>2. Core'
      BY <1>1, <1>2, <1>3, <2>4, <3>1, CoreStep
    <3>3. ASSUME quiet', Running' PROVE Undisturbed'
      BY <1>1, <1>2, <1>3, <2>1, <3>1, <3>3, UndisturbedStep
    <3>4. ASSUME pc' = "idle", done', quiet' PROVE BackedUp'
      BY <1>1, <1>2, <1>3, <3>1, <3>4, EndsBackedUp
    <3> QED BY <3>2, <3>3, <3>4
  <2> QED BY <2>2, <2>3, <2>4 DEF BackupInv
<1>4. CASE UNCHANGED vars
  <2> USE <1>4 DEF vars
  <2>1. Always'
    BY DEF Always, Locals, Closed, Running, Top
  <2>2. CASE Ignorable # {}
    BY <2>1, <2>2 DEF BackupInv, Ignorable
  <2>3. CASE Ignorable = {}
    <3>1. Core /\ (quiet /\ Running => Undisturbed) /\ (pc = "idle" /\ done /\ quiet => BackedUp)
      BY <2>3 DEF BackupInv
    <3>2. (Remembers' <=> Remembers) /\ (DeletesStale' <=> DeletesStale) /\ (RemovesStale' <=> RemovesStale)
      BY DEF Remembers, DeletesStale, RemovesStale, Backed, Stale, Sync, LocalFrom, AllStale, Running, Here, Top,
             Deleting
    <3>3. (ListsKnown' <=> ListsKnown) /\ (NoneIgnored' <=> NoneIgnored)
      BY DEF ListsKnown, NoneIgnored, KnownFrom, LocalFrom, Listed, Running, Here, Lists, Top
    <3>4. (ModifiesStale' <=> ModifiesStale) /\ (ReadsKnown' <=> ReadsKnown)
      BY DEF ModifiesStale, ReadsKnown, Backed, Stale, Sync, LocalFrom, Deleting
    <3>5. Core'
      BY <3>1, <3>2, <3>3, <3>4 DEF Core
    <3>6. (Shows' <=> Shows) /\ (Spares' <=> Spares) /\ (ReadsNow' <=> ReadsNow)
      BY DEF Shows, Spares, ReadsNow, Listed, Running, Here, Lists, Top, Deleting
    <3>7. (FinishesNew' <=> FinishesNew) /\ (LevelsDone' <=> LevelsDone)
      BY DEF FinishesNew, LevelsDone, LevelDone, Visited, NameOf, Entered, Finished, Settled, Covered, Changing,
             Deleting, Running, Here, Lists, Top
    <3>8. Undisturbed' <=> Undisturbed
      BY <3>6, <3>7 DEF Undisturbed
    <3>9. BackedUp' <=> BackedUp
      BY DEF BackedUp, Matches, Ignored
    <3> QED BY <2>1, <3>1, <3>5, <3>8, <3>9 DEF BackupInv, Running
  <2> QED BY <2>1, <2>2, <2>3
<1> QED BY <1>3, <1>4

(* A run from startRefresh to a refreshStep that returns 0, that nothing disturbed,    *)
(* leaves every file on the remote as it is locally, whatever earlier runs left behind  *)
(* that failed, were cut off or came to a crash in any place: if no path is ever        *)
(* ignored, and under ToldApart.                                                    *)
THEOREM RunsBackUp ==
  ASSUME ToldApart
  PROVE  Spec => []QuietRunBacksUp
<1>1. Init => Always /\ BackupInv
  BY InitBacksUp
<1>2. Inv /\ Always /\ BackupInv /\ [Next]_vars => Always' /\ BackupInv'
  BY BackupSteps
<1>3. Always /\ BackupInv => QuietRunBacksUp
  BY DEF BackupInv, QuietRunBacksUp
<1> QED BY <1>1, <1>2, <1>3, Invariance, PTL DEF Spec
=============================================================================
