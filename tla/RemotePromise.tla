---------------------------- MODULE RemotePromise ----------------------------
(***************************************************************************)
(* What class Remote promises to class Root (Remote.h): each call, told OK or  *)
(* not, and what it may have done to the tree of backed-up files.  Root keeps  *)
(* to two rules of its own: it uploads only where nothing is in the way that    *)
(* has contents, and deletes only directories that are empty.                 *)
(***************************************************************************)
EXTENDS RemoteTree

CONSTANTS Paths, Versions, Trees,
  SilentDelDir  \* whether delDir may find a directory missing that is there

VARIABLES tree, last

Told(op, p, ok) == last' = [op |-> op, path |-> p, ok |-> ok]

Init == tree \in Trees /\ last = [op |-> "none"]

addDir(p) ==
  \/ Told("addDir", p, TRUE) /\ tree' = AddDirTo(tree, p)
  \/ Told("addDir", p, FALSE) /\ tree' \in AddDirStops(tree, p)

addFile(p, version) ==
  /\ CanReplace(tree, p)
  /\ \/ Told("addFile", p, TRUE) /\ tree' = AddFileTo(tree, p, version)
     \/ Told("addFile", p, FALSE) /\ tree' \in AddFileStops(tree, p, version)

delDir(p) ==
  /\ CanDelDir(tree, p)
  /\ \/ Told("delDir", p, TRUE) /\ tree' \in {DelDirFrom(tree, p)} \cup IF SilentDelDir THEN {tree} ELSE {}
     \/ Told("delDir", p, FALSE) /\ tree' \in DelDirStops(tree, p)

delFile(p) ==
  \/ Told("delFile", p, TRUE) /\ tree' = DelFileFrom(tree, p)
  \/ Told("delFile", p, FALSE) /\ tree' \in DelFileStops(tree, p)

putHist(p) ==
  \/ Told("putHist", p, TRUE) /\ tree' = Drop(tree, p)
  \/ Told("putHist", p, FALSE) /\ tree' \in PutHistStops(tree, p)

Next ==
  \E p \in Paths :
    \/ addDir(p)
    \/ \E version \in Versions : addFile(p, version)
    \/ delDir(p)
    \/ delFile(p)
    \/ putHist(p)

Spec == Init /\ [][Next]_<<tree, last>>
=============================================================================
