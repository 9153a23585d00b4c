-------------------------- MODULE MCRootStoreTree --------------------------
(* Small instances of RootStore and its tree.  Sizes coincide with record    *)
(* ids, because a file's size shares its bytes with a directory's sub.      *)
EXTENDS RootStoreTree

MCNames == {1, 2}
MCAttrs == {[time |-> 1, size |-> 2]}
=============================================================================
