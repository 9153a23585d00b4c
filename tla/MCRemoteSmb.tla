---------------------------- MODULE MCRemoteSmb ----------------------------
EXTENDS RemoteSmb, TLC

MCTargets == {<<<<1>>>>, <<<<2>>>>, <<<<1>>, <<1>>>>, <<<<1>>, <<2>>>>}
MCOneFile == {<<<<1>>>>, <<<<1>>, <<2>>>>}

(* A name that is two others put together. *)
MCGlued == {<<<<1>>>>, <<<<1>>, <<2>>>>, <<<<1, 2>>>>}

(* Backups of well-formed trees, and a share with nothing on it. *)
Trees(targets, versions) ==
  {t \in [targets -> {None, Dir} \cup versions] :
     \A p \in targets : Len(p) = 1 \/ t[p] = None \/ t[Front(p)] = Dir}
ShareOf(t) ==
  LET present == {p \in DOMAIN t : t[p] # None}
  IN [q \in {Full(p) : p \in present} |-> t[Tail(q)]] @@ [q \in {<<Base>>} |-> Dir]

(* The directories of an earlier run are there, or not yet. *)
Histories == {<<>>, [q \in {<<Tmp>>, <<Hist>>, <<Hist, Base>>} |-> Dir]}

MCShares ==
  {<<>>} \cup {ShareOf(t) @@ h : t \in Trees(Targets, {CHOOSE v \in Versions : TRUE}), h \in Histories}
MCBase == <<100>>
MCTmp == <<101>>
MCHist == <<102>>
=============================================================================
