--------------------------- MODULE RootStoreTree ---------------------------
(***************************************************************************)
(* RootStore implements BackupTree.  The tree is read off the registry in   *)
(* memory, and durable off the files, the way load() would.  The three      *)
(* variables added here hold these functions of the state, so that a step   *)
(* computes them once.                                                     *)
(***************************************************************************)
EXTENDS RootStore

(* The path of every record. *)
PathsOf(R, names) ==
  LET children == [p \in Dirs(R) |-> Children(R, p)]
      path[r \in Active(R)] ==
        IF r = ROOT THEN <<>>
        ELSE LET p == CHOOSE p \in Dirs(R) : r \in children[p]
             IN Append(path[p], NameAt(names, R[r].name))
  IN path

EntryFor(R, path, r) ==
  [path |-> path[r],
   isdir |-> R[r].isdir,
   isignore |-> R[r].isignore,
   ispending |-> R[r].ispending,
   time |-> R[r].time,
   size |-> IF R[r].isdir THEN 0 ELSE R[r].sub]

(* The entries of a registry: its records with their paths.                 *)
TreeOf(R, names) ==
  LET path == PathsOf(R, names)
  IN {EntryFor(R, path, r) : r \in Active(R) \ {ROOT}}

Named(R, names) == \A r \in Active(R) \ {ROOT} : NameAt(names, R[r].name) # 0

Sound(R, size, names) == VerifyRec(R, size, names) = "ok" /\ Named(R, names)

(* The tree of a registry in memory, empty when there is none to speak of.  *)
TreeNow(m, R, size, names) ==
  IF m = "up" /\ Sound(R, size, names) THEN TreeOf(R, names) ELSE {}

(* What load() makes of the files. *)
DurableNow(R, size, names) ==
  LET empty == size < 2
      readable == ~empty /\ VerifyRec(R, size, names) = "ok"
      whole == empty \/ (readable /\ Named(R, names))
  IN [is |-> IF whole THEN "whole" ELSE IF readable THEN "maimed" ELSE "refused",
      tree |-> IF whole /\ ~empty THEN TreeOf(R, names) ELSE {}]

StatusNow(m, R, size, names) ==
  CASE m \in {"down", "init"} -> "closed"
    [] m = "up" -> IF Sound(R, size, names) THEN "open" ELSE "maimed"
    [] m \in {"failed", "undefined"} -> "refused"

VARIABLES tree, durable, status

TreeInit ==
  /\ Init
  /\ tree = {} /\ status = "closed"
  /\ durable = DurableNow(drecs, dnrec, drname)

TreeNext ==
  /\ Next
  /\ tree' = TreeNow(mode', recs', nrec', rname')
  /\ durable' = DurableNow(drecs', dnrec', drname')
  /\ status' = StatusNow(mode', recs', nrec', rname')

TreeSpec == TreeInit /\ [][TreeNext]_<<vars, tree, durable, status>>

Promised == INSTANCE BackupTree

(* Every behaviour of the registry and its files is one of the tree: an     *)
(* operation changes one entry, and a stop in the middle of it loses that   *)
(* entry's change, leaves its entry nameless or makes load() refuse the     *)
(* files.  No stop ever changes any other entry of a tree that loads.      *)
ImplementsTree == Promised!Spec
=============================================================================
