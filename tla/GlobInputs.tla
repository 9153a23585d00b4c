------------------------------ MODULE GlobInputs ------------------------------
(* Small sets of paths and patterns for the matcher. *)
EXTENDS Naturals, Sequences

Sized(chars, max) == UNION {[1 .. k -> chars] : k \in 1 .. max}

(* Paths, no name of which is empty. *)
Texts(chars, max) ==
  {t \in Sized(chars, max) :
     t[1] # "/" /\ t[Len(t)] # "/" /\ \A k \in 1 .. Len(t) - 1 : ~(t[k] = "/" /\ t[k + 1] = "/")}

(* IgnoreList takes a / off the end of a pattern; ** begins a name.            *)
Globs(chars, max) ==
  {g \in Sized(chars, max) :
     /\ g[Len(g)] # "/"
     /\ \A k \in 2 .. Len(g) - 1 : g[k] = "*" /\ g[k + 1] = "*" => g[k - 1] \in {"/", "*"}}

Stars(most, longest) == Texts({"a", "b", "/"}, longest) \X Globs({"a", "b", "*", "/"}, most)

(* Classes, escapes and case; the longest patterns begin with a class or escape. *)
Classes ==
  Texts({"A", "b", "c", "-"}, 1)
    \X {g \in Globs({"a", "c", "-", "[", "]", "!", "\\", "?"}, 5) : Len(g) <= 3 \/ g[1] \in {"[", "\\"}}

MCInputs == Stars(5, 4) \cup Classes
MCFew == Stars(4, 2)

MCCharacters == <<"!", "*", "-", "/", "?", "[", "\\", "]", "^", "a", "b", "c">>
=============================================================================
