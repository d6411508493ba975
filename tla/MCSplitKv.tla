-------------------------------- MODULE MCSplitKv -------------------------------
(* Instances of SplitKv for TLC. *)
EXTENDS SplitKv, TLC

\* Streams are alike, and so are graphs.
Alike == Permutations(Streams) \cup Permutations(Graphs)
=============================================================================
