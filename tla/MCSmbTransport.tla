---------------------------- MODULE MCSmbTransport ----------------------------
EXTENDS SmbTransport

Setup(kinds, start, generous, signed, timeouts, fail) ==
  [kinds |-> kinds, start |-> start, generous |-> generous, signed |-> signed,
   timeouts |-> timeouts, faults |-> fail]

Blocking == {"single", "compound"}

(* A miserly server and failures; writes of up to two credits between compounds; *)
(* timeouts with signed replies, where answers come after their call; and writes  *)
(* that are given up between calls that leave their memory to the callback.      *)
MCSetups ==
  {Setup(Blocking, 1, FALSE, FALSE, FALSE, TRUE)}
    \cup {Setup({"write", "compound"}, 2, TRUE, FALSE, FALSE, FALSE)}
    \cup {Setup(Blocking, 2, TRUE, TRUE, TRUE, TRUE)}
    \cup {Setup({"single", "write"}, 2, TRUE, FALSE, FALSE, TRUE)}

MCWriting == {Setup({"single", "write"}, 2, TRUE, FALSE, FALSE, TRUE)}
MCFailing == {Setup(Blocking, 3, TRUE, FALSE, FALSE, TRUE)}
MCSigned == {Setup({"compound"}, 3, TRUE, TRUE, FALSE, FALSE)}
MCTimeouts == {Setup(Blocking, 3, TRUE, FALSE, TRUE, FALSE)}
=============================================================================
