--------------------------- MODULE MCTunedConfigStore ---------------------------
(* One key, and three values of two columns: what two of them change in the    *)
(* third does not overlap.                                                     *)
EXTENDS TunedConfigStore, TLC

OneTable == [k \in Rows |-> "table"]

Three == {[warps |-> 4, stages |-> 2], [warps |-> 8, stages |-> 2],
          [warps |-> 4, stages |-> 3]}

AnyProcess == Permutations(Processes)
=============================================================================
