------------------------------ MODULE MCMegaMoe ------------------------------
(* Routing plans for model checking: topk_ids of two ranks, one for each    *)
(* route, two choices per token, experts 0 and 1 on rank 0, 2 and 3 on rank 1. *)
EXTENDS MegaMoeDispatch

Plan(first, second) ==
  [r \in Ranks |-> LET ids == IF r = 0 THEN first ELSE second
                   IN  [i \in 0 .. Len(ids) - 1 |-> ids[i + 1]]]

\* Two tokens on each rank and two launches: in the first two programs of a rank
\* send to the same expert, which gets more than a block; the second uses other
\* experts.  -1 drops a choice.
TwoLaunches ==
  {<<Plan(<<0, -1, 2, 0>>, <<-1, 0, -1, -1>>), Plan(<<-1, 2, -1, -1>>, <<-1, -1, 0, -1>>)>>}
=============================================================================
