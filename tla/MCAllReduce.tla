------------------------------ MODULE MCAllReduce ------------------------------
(* Thresholds and payloads for model checking, by backend.  With the peer     *)
(* backend the calls are one-shot, tiled or row-wise: AllReduceTiledClear is  *)
(* about what happens otherwise.                                              *)
EXTENDS LamportAllReduce

ByBackend(peer, mnnvl) == [b \in Backends |-> IF b = "peer" THEN peer ELSE mnnvl]

\* One- and two-shot calls over MNNVL, one-shot calls between peers.
Thresholds == ByBackend(2, 1)
Payloads == ByBackend({1, 2}, {1, 3})

\* One token is sent one-shot, more in two.
OneToken == ByBackend(1, 1)
Single == ByBackend({1}, {1})
OneOrTwo == ByBackend({1, 2}, {1, 2})
=============================================================================
