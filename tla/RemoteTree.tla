----------------------------- MODULE RemoteTree -----------------------------
(***************************************************************************)
(* The remote as class Root sees it (Remote.h): what the calls of the       *)
(* interface do to the tree of backed-up files, as RemoteSmb.cpp implements  *)
(* them.  A tree is a function from paths to None, Dir or the version of a    *)
(* file; a path is a sequence of names.  Operators named ...To and ...From    *)
(* are what a call does when it returns OK, operators named ...Stops the      *)
(* trees it may leave when it returns an error: a request that fails may have  *)
(* had its effect.  RemotePromise puts them together, and RemoteSmb is        *)
(* checked to keep to them.                                                *)
(***************************************************************************)
EXTENDS Naturals, Sequences

CONSTANTS None, Dir

ASSUME KindsAssumption == None # Dir

(* The paths strictly above and strictly below a path. *)
Above(p) == {SubSeq(p, 1, k) : k \in 1 .. Len(p) - 1}
Below(tree, p) == {q \in DOMAIN tree : Len(q) > Len(p) /\ SubSeq(q, 1, Len(p)) = p}

HasChildren(tree, p) == \E q \in Below(tree, p) : tree[q] # None

(* addDir: mkdir; parents that are missing are made, a file that is in the   *)
(* way is deleted.                                                         *)
MakeDirs(tree, dirs) == [q \in DOMAIN tree |-> IF q \in dirs THEN Dir ELSE tree[q]]

AddDirTo(tree, p) == MakeDirs(tree, Above(p) \cup {p})

(* Made down to some depth, the next one perhaps deleted if it was a file. *)
AddDirStops(tree, p) ==
  LET at(k) == SubSeq(p, 1, k)
      made(k) == MakeDirs(tree, {at(j) : j \in 1 .. k})
  IN {made(k) : k \in 0 .. Len(p)}
       \cup {[made(k - 1) EXCEPT ![at(k)] = None] : k \in {k \in 1 .. Len(p) : tree[at(k)] # Dir}}

(* addFile: upload to a temporary name, then move over the destination,     *)
(* deleting a file or an empty directory that is there.                    *)
CanReplace(tree, p) == ~HasChildren(tree, p)
AddFileTo(tree, p, version) == [MakeDirs(tree, Above(p)) EXCEPT ![p] = version]

AddFileStops(tree, p, version) ==
  {AddFileTo(tree, p, version)} \cup
  UNION {AddDirStops(t, SubSeq(p, 1, Len(p) - 1)) : t \in {tree, [tree EXCEPT ![p] = None]}}

Drop(tree, p) == [q \in DOMAIN tree |-> IF q \in {p} \cup Below(tree, p) THEN None ELSE tree[q]]

(* delDir on a path that is no directory reports success and deletes nothing; *)
(* what it does to the contents of a directory leaves the directory there.    *)
CanDelDir(tree, p) == tree[p] # Dir \/ ~HasChildren(tree, p)
DelDirFrom(tree, p) == IF tree[p] = Dir THEN [tree EXCEPT ![p] = None] ELSE tree
DelDirStops(tree, p) == {tree, DelDirFrom(tree, p)}

(* delFile: unlink deletes whatever stands there, an empty directory too.  Of  *)
(* a directory that is not empty the server may say that it was deleted.      *)
CanDelFile(tree, p) == ~HasChildren(tree, p)
DelFileFrom(tree, p) == IF HasChildren(tree, p) THEN tree ELSE [tree EXCEPT ![p] = None]
DelFileStops(tree, p) == {tree, DelFileFrom(tree, p)}

(* putHist moves a file or a whole directory out of the tree, into names that *)
(* carry the time of the move.                                             *)
PutHistStops(tree, p) == {tree, Drop(tree, p)}
FilesAt(tree, p) ==
  {[path |-> q, version |-> tree[q]] :
     q \in {q \in {p} \cup Below(tree, p) : tree[q] \notin {None, Dir}}}
=============================================================================
