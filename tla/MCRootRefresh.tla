--------------------------- MODULE MCRootRefresh ---------------------------
(* Small instances of RootRefresh: two names, two levels. *)
EXTENDS RootRefresh

MCNames == {1, 2}
MCIgnorable == {<<1>>}

Setup(keephist, ignorable, silentdeldir, most) ==
  [keephist |-> keephist, ignorable |-> ignorable, silentdeldir |-> silentdeldir, faults |-> most]

(* Two failures or crashes at any point, with history and without, where deletions *)
(* work on the remote entry by entry and delDir may overlook a directory; and one   *)
(* when a path may become ignored.                                           *)
MCSetups == {Setup(TRUE, {}, FALSE, 2), Setup(FALSE, {}, TRUE, 2), Setup(FALSE, MCIgnorable, FALSE, 1)}

MCHistory == {Setup(TRUE, {}, FALSE, 2)}
MCNoHistory == {Setup(FALSE, {}, FALSE, 1)}
MCNoFailure == {Setup(TRUE, {}, FALSE, 0)}
MCIgnoring == {Setup(TRUE, MCIgnorable, FALSE, 1)}

(* Versions that differ in their time, and versions of which the second is    *)
(* too close to the first to be told from it.                               *)
MCApart == [v \in 1 .. MaxEdits |-> [time |-> 20 * v, size |-> 1]]
MCClose == [v \in 1 .. MaxEdits |-> [time |-> 20 + 8 * v, size |-> 1]]
=============================================================================
