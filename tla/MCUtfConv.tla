------------------------------ MODULE MCUtfConv ------------------------------
(* Small instances of UtfConv. *)
EXTENDS UtfConv

UpTo(units, max) == UNION {[1 .. k -> units] : k \in 1 .. max}

(* "a", an e with an acute accent, a Chinese character, and the halves of a pair; *)
(* and the first and last unit of every range, two at a time.                 *)
MCNames16 ==
  UpTo({97, 233, 20013, 55357, 56832}, 4)
    \cup UpTo({1, 127, 128, 2047, 2048, 55295, 55296, 56319, 56320, 57343, 57344, 65535}, 2)
    \cup {<<h, l, 97>> : h \in {55296, 56319}, l \in {56320, 57343}}
MCStale == {<<>>, <<97>>, <<20013, 97>>}

(* A letter, a continuation byte, overlong and good leading bytes, the bytes of   *)
(* a surrogate, the first above the last code point, and no leading byte.      *)
MCNames8 == UpTo({97, 128, 160, 192, 228, 237, 240, 244, 248}, 4)
=============================================================================
