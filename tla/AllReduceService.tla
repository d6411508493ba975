--------------------------- MODULE AllReduceService ---------------------------
(***************************************************************************)
(* What fused_allreduce_rms_norm promises its callers, with no workspace,  *)
(* no slots and no programs: every rank makes the same sequence of calls,  *)
(* and a call returns the sum of the inputs all ranks gave to that call.   *)
(***************************************************************************)
EXTENDS Integers, Sequences

CONSTANTS
    Ranks,
    Sizes,      \* the sizes a call can have
    Parts(_),   \* the parts of a tensor of a given size
    MaxCalls

VARIABLES
    calls,      \* the agreed sequence of calls, by size
    made,       \* made[r]: number of calls rank r has made
    returned,   \* returned[r]: number of them that have returned
    result      \* result[r]: what the last call returned, if none is pending

Pending == <<>>
vars == <<calls, made, returned, result>>

Init ==
    /\ calls = <<>>
    /\ made = [r \in Ranks |-> 0]
    /\ returned = [r \in Ranks |-> 0]
    /\ result = [r \in Ranks |-> Pending]

\* A rank makes its next call when its last one has returned.
Call(r) ==
    /\ made[r] = returned[r]
    /\ made[r] < MaxCalls
    /\ IF made[r] < Len(calls)
       THEN UNCHANGED calls
       ELSE \E m \in Sizes : calls' = Append(calls, m)
    /\ made' = [made EXCEPT ![r] = @ + 1]
    /\ result' = [result EXCEPT ![r] = Pending]
    /\ UNCHANGED returned

\* A call returns when every rank has made it, with every rank's input.
Return(r) ==
    /\ returned[r] < made[r]
    /\ \A q \in Ranks : made[q] >= made[r]
    /\ returned' = [returned EXCEPT ![r] = made[r]]
    /\ result' = [result EXCEPT ![r] = [c \in Parts(calls[made[r]]) |->
                                           {<<made[r], q, c>> : q \in Ranks}]]
    /\ UNCHANGED <<calls, made>>

Next == \E r \in Ranks : Call(r) \/ Return(r)

Spec == Init /\ [][Next]_vars
=============================================================================
