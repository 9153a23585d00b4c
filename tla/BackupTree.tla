----------------------------- MODULE BackupTree -----------------------------
(***************************************************************************)
(* What the registry of a root promises: it is a tree of entries, changed  *)
(* by one entry at a time, and the files keep it across restarts.          *)
(*                                                                         *)
(* durable is what the next start will find.  An operation ends with        *)
(* durable = Whole(tree).  Until it ends, a stop may leave the tree from before    *)
(* the operation, a tree with a nameless entry ("maimed", by a removal      *)
(* only), or files that load() refuses ("refused").                        *)
(***************************************************************************)
EXTENDS Naturals, Sequences

CONSTANTS Names, Attrs

VARIABLES
  tree,      \* the entries of the open root, {} while it is not open
  durable,   \* what the files hold: Whole(entries), Maimed or Refused
  status     \* "closed", "open", "maimed" or "refused"

vars == <<tree, durable, status>>

Whole(entries) == [is |-> "whole", tree |-> entries]
Maimed == [is |-> "maimed", tree |-> {}]
Refused == [is |-> "refused", tree |-> {}]

At(path) == {e \in tree : e.path = path}
Below(path) ==
  {e \in tree : Len(e.path) > Len(path) /\ SubSeq(e.path, 1, Len(path)) = path}

(* Where new entries may go: the root, and the directories not ignored.     *)
Folders == {<<>>} \cup {e.path : e \in {d \in tree : d.isdir /\ ~d.isignore}}

Init == tree = {} /\ durable = Whole({}) /\ status = "closed"

Settled == status = "open" /\ durable = Whole(tree)

Add ==
  /\ Settled
  /\ \E folder \in Folders, n \in Names :
       LET path == Append(folder, n) IN
       /\ At(path) = {}
       /\ \E isdir, isignore, ispending \in BOOLEAN,
             attr \in Attrs \cup {[time |-> 0, size |-> 0]} :
            tree' = tree \cup
              {[path |-> path, isdir |-> isdir, isignore |-> isignore,
                ispending |-> ispending, time |-> attr.time, size |-> attr.size]}
  /\ durable' = Whole(tree)
  /\ UNCHANGED status

Modify ==
  /\ Settled
  /\ \E e \in tree, ispending \in BOOLEAN,
        attr \in Attrs \cup {[time |-> 0, size |-> 0]} :
       /\ ~e.isdir /\ ~e.isignore
       /\ ispending => attr = [time |-> e.time, size |-> e.size]
       /\ tree' = (tree \ {e}) \cup
            {[e EXCEPT !.ispending = ispending, !.time = attr.time, !.size = attr.size]}
  /\ durable' = Whole(tree)
  /\ UNCHANGED status

Remove ==
  /\ Settled
  /\ \E e \in tree : Below(e.path) = {} /\ tree' = tree \ {e}
  /\ durable' = Maimed
  /\ UNCHANGED status

(* The writes of an operation: the files become unreadable, then right.     *)
Tear ==
  /\ status = "open" /\ durable # Whole(tree)
  /\ durable' = Refused
  /\ UNCHANGED <<tree, status>>

Settle ==
  /\ status = "open" /\ durable # Whole(tree)
  /\ durable' = Whole(tree)
  /\ UNCHANGED <<tree, status>>

Close ==
  /\ status # "closed"
  /\ status' = "closed" /\ tree' = {}
  /\ UNCHANGED durable

Open ==
  /\ status = "closed"
  /\ status' = IF durable.is = "whole" THEN "open" ELSE durable.is
  /\ tree' = durable.tree
  /\ UNCHANGED durable

(* A root with a nameless entry goes on, and nothing is promised of it but  *)
(* that it never becomes whole again.                                      *)
GoOnMaimed ==
  /\ status = "maimed"
  /\ durable' \in {Maimed, Refused}
  /\ UNCHANGED <<tree, status>>

Next == Add \/ Modify \/ Remove \/ Tear \/ Settle \/ Close \/ Open \/ GoOnMaimed

Spec == Init /\ [][Next]_vars
=============================================================================
