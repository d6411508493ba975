--------------------------- MODULE LamportAllReduce ---------------------------
(***************************************************************************)
(* The Lamport all-reduce of ops/fused_allreduce_rms_norm.py.              *)
(*                                                                         *)
(* Every rank launches the same sequence of collective calls.  A launch is *)
(* a grid of resident programs; a payload is its own arrival signal: an    *)
(* empty cell holds the sentinel, and a program polls its local buffer     *)
(* until no cell it needs is empty.  Three slots are used in rotation and  *)
(* a launch clears the slot of the launch before it.                       *)
(*                                                                         *)
(* A value is the set of contributions summed in it; the sentinel (0x8000, *)
(* negative zero, which no payload may hold) is the empty set.  The tensor *)
(* allreduce_in is overwritten in place by the results, as the host's      *)
(* choice of residual_out and norm_scratch does.                           *)
(***************************************************************************)
EXTENDS AllReduceLayout, Sequences

CONSTANTS
    TokenCounts,    \* per backend, the values of M the callers use
    MaxCalls        \* bound: number of collective calls explored

ASSUME CallAssumption ==
    /\ TokenCounts \in [Backends -> SUBSET (1 .. MaxTokens)]
    /\ MaxCalls \in Nat

VARIABLES
    calls,      \* the agreed sequence of calls: the M of each
    launch,     \* launch[r]: index of the call rank r is in, or was in last
    slot, numel, strategy,  \* state[1..3] of each rank
    arrival,    \* state[0]: programs of the launch that have arrived
    phase,      \* state[4]: programs at the phase barrier
    pc,         \* pc[r][p]: what program p of rank r does next
    snap,       \* snap[r][p]: state[1..3] as the program loaded them
    work,       \* work[r][p]: the program's work index
    stores,     \* stores[r][p]: payload stores that have not landed yet
    cleared,    \* cleared[r][p]: it has no sentinel stores left to land
    buffer,     \* buffer[r]: the local communication buffer of rank r
    tensor,     \* tensor[r]: allreduce_in, overwritten by the results
    partial     \* partial[r]: the launch that wrote each partial square sum

vars == <<backend, calls, launch, slot, numel, strategy, arrival, phase, pc, snap, work,
          stores, cleared, buffer, tensor, partial>>

state == <<slot, numel, strategy, arrival, phase>>
control == <<backend, calls, launch>>
memory == <<stores, cleared, buffer, tensor, partial>>

Empty == {}
Contribution(n, r, c) == <<n, r, c>>
Sum(n, c) == {Contribution(n, r, c) : r \in Ranks}

\* The current launch of rank r.
M(r) == calls[launch[r]]
GridOf(r) == Grid(M(r))
KernelOf(r) == Kernel(M(r))
Resident(r) == {p \in Programs : launch[r] > 0 /\ p < GridOf(r)}
Idle(r) == \A p \in Programs : pc[r][p] = "done"

Steps == {"done", "load", "arrive", "push", "reduce", "consume", "phase",
          "spin", "norm", "finish", "exit"}

-----------------------------------------------------------------------------
Init ==
    /\ backend \in Backends
    /\ calls = <<>>
    /\ launch = [r \in Ranks |-> 0]
    /\ slot = [r \in Ranks |-> 0]
    /\ numel = [r \in Ranks |-> 0]
    /\ strategy = [r \in Ranks |-> 0]
    /\ arrival = [r \in Ranks |-> 0]
    /\ phase = [r \in Ranks |-> 0]
    /\ pc = [r \in Ranks |-> [p \in Programs |-> "done"]]
    /\ snap = [r \in Ranks |-> [p \in Programs |->
                 [slot |-> 0, numel |-> 0, strategy |-> 0]]]
    /\ work = [r \in Ranks |-> [p \in Programs |-> 0]]
    /\ stores = [r \in Ranks |-> [p \in Programs |-> {}]]
    /\ cleared = [r \in Ranks |-> [p \in Programs |-> TRUE]]
    /\ buffer = [r \in Ranks |-> [a \in BufferCells |-> Empty]]
    /\ tensor = [r \in Ranks |-> [c \in Cells(MaxTokens) |-> Empty]]
    /\ partial = [r \in Ranks |-> [x \in Slots \X Cells(MaxTokens) |-> 0]]

\* The host: the stream starts a launch when the one before it has completed.
\* The rank that is first to make a call decides its M, the others follow.
Start(r) ==
    /\ Idle(r)
    /\ launch[r] < MaxCalls
    /\ IF launch[r] < Len(calls)
       THEN UNCHANGED calls
       ELSE \E m \in TokenCounts[backend] : calls' = Append(calls, m)
    /\ launch' = [launch EXCEPT ![r] = @ + 1]
    /\ LET m == calls'[launch'[r]] IN
       /\ pc' = [pc EXCEPT ![r] = [p \in Programs |->
                    IF p < Grid(m) THEN "load" ELSE "done"]]
       /\ work' = [work EXCEPT ![r] = [p \in Programs |-> p]]
       /\ tensor' = [tensor EXCEPT ![r] = [c \in Cells(MaxTokens) |->
                        IF c \in Cells(m)
                        THEN {Contribution(launch'[r], r, c)} ELSE Empty]]
    /\ UNCHANGED <<backend, state, snap, stores, cleared, buffer, partial>>

\* The snapshot decides what the program will clear, possibly nothing.
\* slot, previous_numel, previous_strategy = state[1], state[2], state[3]
Load(r, p) ==
    /\ pc[r][p] = "load"
    /\ snap' = [snap EXCEPT ![r][p] =
          [slot |-> slot[r], numel |-> numel[r], strategy |-> strategy[r]]]
    /\ cleared' = [cleared EXCEPT ![r][p] = ClearCells(M(r), p, snap'[r][p]) = {}]
    /\ pc' = [pc EXCEPT ![r][p] = "arrive"]
    /\ UNCHANGED <<control, state, work, stores, buffer, tensor, partial>>

\* atomic_add(state, 1)
Arrive(r, p) ==
    /\ pc[r][p] = "arrive"
    /\ arrival' = [arrival EXCEPT ![r] = @ + 1]
    /\ pc' = [pc EXCEPT ![r][p] = "push"]
    /\ UNCHANGED <<control, slot, numel, strategy, phase, snap, work, memory>>

-----------------------------------------------------------------------------
(* Work loops: `while index < count: ...; index += GRID_SIZE`. *)

\* One iteration of the loop of `count` items at `step`.
Iterate(r, p, step, count) ==
    /\ pc[r][p] = step
    /\ work[r][p] < count
    /\ work' = [work EXCEPT ![r][p] = @ + GridOf(r)]

\* The loop is over; the next one starts again from the program's own index.
Leave(r, p, step, count, next) ==
    /\ pc[r][p] = step
    /\ work[r][p] >= count
    /\ work' = [work EXCEPT ![r][p] = p]
    /\ pc' = [pc EXCEPT ![r][p] = next]
    /\ UNCHANGED <<control, state, snap, memory>>

\* The stores of one item: to every rank, or in a two-shot launch to the owner.
PushStores(r, p, w) ==
    LET s == snap[r][p].slot IN
    IF KernelOf(r) = "twoshot"
    THEN {[to |-> Owner(c), at |-> ScatterCell(s, r, c), value |-> tensor[r][c]] :
             c \in ItemCells(M(r), w)}
    ELSE {[to |-> peer, at |-> OneShotCell(s, r, c), value |-> tensor[r][c]] :
             peer \in Ranks, c \in ItemCells(M(r), w)}

Push(r, p) ==
    /\ Iterate(r, p, "push", ItemCount(M(r)))
    /\ stores' = [stores EXCEPT ![r][p] = @ \cup PushStores(r, p, work[r][p])]
    /\ UNCHANGED <<control, state, pc, snap, cleared, buffer, tensor, partial>>

EndPush(r, p) == Leave(r, p, "push", ItemCount(M(r)), "reduce")

\* Stores land in any order, at any time before the program's launch completes.
Land(r, p) ==
    \E st \in stores[r][p] :
       /\ stores' = [stores EXCEPT ![r][p] = @ \ {st}]
       /\ buffer' = [buffer EXCEPT ![st.to][st.at] = st.value]
       /\ UNCHANGED <<control, state, pc, snap, work, cleared, tensor, partial>>

\* The sentinel stores follow the pushes in the program and land together.
Clear(r, p) ==
    /\ pc[r][p] \notin {"load", "arrive", "push"}
    /\ ~cleared[r][p]
    /\ cleared' = [cleared EXCEPT ![r][p] = TRUE]
    /\ LET erased == ClearCells(M(r), p, snap[r][p]) IN
       buffer' = [buffer EXCEPT ![r] = [a \in BufferCells |->
                     IF a \in erased THEN Empty ELSE @[a]]]
    /\ UNCHANGED <<control, state, pc, snap, work, stores, tensor, partial>>

-----------------------------------------------------------------------------
(* Reduction: a poll succeeds when no cell it reads holds the sentinel. *)

\* Mutant: the poll looks at the rank's own slice only.
OwnSlice(r, p, c) == {buffer[r][OneShotCell(snap[r][p].slot, r, c)]}

\* What the cells of every source rank hold, for the cell c of the tensor.
Slices(r, p, c) == {buffer[r][OneShotCell(snap[r][p].slot, q, c)] : q \in Ranks}

Scattered(r, p, c) == {buffer[r][ScatterCell(snap[r][p].slot, q, c)] : q \in Ranks}

\* One-shot: the program's own row or tile is summed and becomes the residual.
\* The tiled kernels publish the tile's partial square sum as well.
Reduce(r, p) ==
    /\ Iterate(r, p, "reduce", ItemCount(M(r)))
    /\ KernelOf(r) # "twoshot"
    /\ LET cells == ItemCells(M(r), work[r][p]) IN
       /\ \A c \in cells : Empty \notin Slices(r, p, c)
       /\ tensor' = [tensor EXCEPT ![r] = [c \in Cells(MaxTokens) |->
             IF c \in cells THEN UNION Slices(r, p, c) ELSE @[c]]]
       /\ IF KernelOf(r) = "tiled"
          THEN partial' = [partial EXCEPT ![r] = [x \in Slots \X Cells(MaxTokens) |->
                  IF x[1] = snap[r][p].slot /\ x[2] \in cells
                  THEN launch[r] ELSE @[x]]]
          ELSE UNCHANGED partial
    /\ UNCHANGED <<control, state, pc, snap, stores, cleared, buffer>>

EndReduce(r, p) ==
    /\ Leave(r, p, "reduce", ItemCount(M(r)),
             IF KernelOf(r) = "tiled" THEN "phase" ELSE "finish")
    /\ KernelOf(r) # "twoshot"

\* Two-shot: the owner sums its tiles and broadcasts the sums ...
ReduceOwned(r, p) ==
    /\ Iterate(r, p, "reduce", OwnedCount(r, M(r)))
    /\ KernelOf(r) = "twoshot"
    /\ LET c == OwnedCell(r, work[r][p]) IN
       /\ Empty \notin Scattered(r, p, c)
       /\ stores' = [stores EXCEPT ![r][p] = @ \cup
             {[to |-> peer, at |-> BroadcastCell(snap[r][p].slot, c),
               value |-> UNION Scattered(r, p, c)] : peer \in Ranks}]
    /\ UNCHANGED <<control, state, pc, snap, cleared, buffer, tensor, partial>>

EndReduceOwned(r, p) ==
    /\ Leave(r, p, "reduce", OwnedCount(r, M(r)), "consume")
    /\ KernelOf(r) = "twoshot"

\* Mutant: rows are finished without waiting for the sums.
ConsumeUnpolled(r, p) ==
    /\ Iterate(r, p, "consume", M(r))
    /\ tensor' = [tensor EXCEPT ![r] = [c \in Cells(MaxTokens) |->
          IF c[1] = work[r][p]
          THEN buffer[r][BroadcastCell(snap[r][p].slot, c)] ELSE @[c]]]
    /\ UNCHANGED <<control, state, pc, snap, stores, cleared, buffer, partial>>

\* ... and every rank finishes complete rows of sums.
Consume(r, p) ==
    /\ Iterate(r, p, "consume", M(r))
    /\ LET cells == {work[r][p]} \X Tiles
           Sums(c) == buffer[r][BroadcastCell(snap[r][p].slot, c)] IN
       /\ \A c \in cells : Sums(c) # Empty
       /\ tensor' = [tensor EXCEPT ![r] = [c \in Cells(MaxTokens) |->
             IF c \in cells THEN Sums(c) ELSE @[c]]]
    /\ UNCHANGED <<control, state, pc, snap, stores, cleared, buffer, partial>>

EndConsume(r, p) == Leave(r, p, "consume", M(r), "finish")

-----------------------------------------------------------------------------
(* The phase barrier of the tiled one-shot kernels. *)

\* atomic_add(state + 4, 1)
PhaseArrive(r, p) ==
    /\ pc[r][p] = "phase"
    /\ phase' = [phase EXCEPT ![r] = @ + 1]
    /\ pc' = [pc EXCEPT ![r][p] = "spin"]
    /\ UNCHANGED <<control, slot, numel, strategy, arrival, snap, work, memory>>

\* Mutant: no wait.
PhaseSkip(r, p) ==
    /\ pc[r][p] = "spin"
    /\ pc' = [pc EXCEPT ![r][p] = "norm"]
    /\ UNCHANGED <<control, state, snap, work, memory>>

\* while phase_arrived != GRID_SIZE
PhaseLeave(r, p) ==
    /\ pc[r][p] = "spin"
    /\ phase[r] = GridOf(r)
    /\ pc' = [pc EXCEPT ![r][p] = "norm"]
    /\ UNCHANGED <<control, state, snap, work, memory>>

\* The second pass reads the partial sums of its row; it changes only the
\* normalized output, which the model leaves out.
Normalize(r, p) ==
    /\ Iterate(r, p, "norm", ItemCount(M(r)))
    /\ UNCHANGED <<control, state, pc, snap, memory>>

EndNormalize(r, p) == Leave(r, p, "norm", ItemCount(M(r)), "finish")

-----------------------------------------------------------------------------
\* Program 0 waits for every arrival and moves the protocol to the next slot.
\* The row-wise kernel leaves state[3] as it is; only the tiled one-shot
\* kernels reset the phase counter.
AdvanceBy(r, newNumel, newStrategy, newArrival) ==
    /\ pc[r][0] = "finish"
    /\ slot' = [slot EXCEPT ![r] = (snap[r][0].slot + 1) % 3]
    /\ numel' = [numel EXCEPT ![r] = newNumel]
    /\ strategy' = [strategy EXCEPT ![r] = newStrategy]
    /\ phase' = [phase EXCEPT ![r] = IF KernelOf(r) = "tiled" THEN 0 ELSE @]
    /\ arrival' = [arrival EXCEPT ![r] = newArrival]
    /\ pc' = [pc EXCEPT ![r][0] = "exit"]
    /\ UNCHANGED <<control, snap, work, memory>>

NewNumel(r) == M(r) * TilesPerRow
NewStrategy(r) == IF KernelOf(r) = "rowwise" THEN strategy[r] ELSE Strategy(M(r))
AllArrived(r) == arrival[r] = GridOf(r)

\* Mutants: state[2] or state[3] keeps its value.
AdvanceKeepsNumel(r) ==
    AdvanceBy(r, numel[r], NewStrategy(r), 0) /\ AllArrived(r)
AdvanceKeepsStrategy(r) ==
    AdvanceBy(r, NewNumel(r), strategy[r], 0) /\ AllArrived(r)

Advance(r) == AdvanceBy(r, NewNumel(r), NewStrategy(r), 0) /\ AllArrived(r)

\* A program is over when its stores have landed.
Exit(r, p) ==
    /\ pc[r][p] = IF p = 0 THEN "exit" ELSE "finish"
    /\ stores[r][p] = {} /\ cleared[r][p]
    /\ pc' = [pc EXCEPT ![r][p] = "done"]
    /\ UNCHANGED <<control, state, snap, work, memory>>

Step(r, p) ==
    \/ Load(r, p) \/ Arrive(r, p)
    \/ Push(r, p) \/ EndPush(r, p)
    \/ Reduce(r, p) \/ EndReduce(r, p)
    \/ ReduceOwned(r, p) \/ EndReduceOwned(r, p)
    \/ Consume(r, p) \/ EndConsume(r, p)
    \/ PhaseArrive(r, p) \/ PhaseLeave(r, p)
    \/ Normalize(r, p) \/ EndNormalize(r, p)
    \/ (p = 0 /\ Advance(r))
    \/ Exit(r, p)

\* Every rank has made all its calls.
Terminated ==
    /\ \A r \in Ranks : launch[r] = MaxCalls /\ Idle(r)
    /\ UNCHANGED vars

Next ==
    \/ \E r \in Ranks : Start(r)
    \/ \E r \in Ranks, p \in Programs : Step(r, p) \/ Land(r, p) \/ Clear(r, p)
    \/ Terminated

Spec == Init /\ [][Next]_vars

\* A program that spins at the phase barrier is still counted there.
SpinningIsCounted ==
    \A r \in Ranks, p \in Programs : pc[r][p] = "spin" => phase[r] > 0

\* With the phase barrier, the one place where a rank may stop (PhaseBarrier): a
\* program waits for a phase counter that has been reset under it.
PhaseCounterLost ==
    /\ ~SpinningIsCounted
    /\ UNCHANGED vars

GridSpec == Init /\ [][Next \/ PhaseCounterLost]_vars

-----------------------------------------------------------------------------
(* Properties. *)

\* Whatever the ranks' relative speed, a cell of the tensor is either this
\* rank's input to the current call or the sum of every rank's input to the
\* SAME call: no payload of an earlier call is ever taken for an arrival.
ReductionExact ==
    \A r \in Ranks : launch[r] > 0 =>
        \A c \in Cells(M(r)) :
            tensor[r][c] \in {{Contribution(launch[r], r, c)}, Sum(launch[r], c)}

\* A payload lands on the sentinel: the cell it is sent to was cleared since
\* the slot was last used, by a launch of the destination rank, although no
\* rank ever tells another that it has cleared a slot.
LandsOnSentinel ==
    \A r \in Ranks, p \in Programs : \A st \in stores[r][p] :
        buffer[st.to][st.at] = Empty

\* The clear pass never erases a payload of the current or of a later call.
ClearsOnlyThePast ==
    [][\A r \in Ranks, a \in BufferCells :
          (buffer[r][a] # Empty /\ buffer'[r][a] = Empty) =>
              \A v \in buffer[r][a] : v[1] < launch[r]]_vars

\* No rank runs ahead of another by more than one call: this is what makes
\* three slots enough.
SkewAtMostOne == \A q, r \in Ranks : launch[q] <= launch[r] + 1

\* All programs of a launch work in one slot, and clear what the launch before
\* it wrote, although they load state[] one by one while program 0 may be the
\* first to finish: none of them reads what program 0 stores for the next launch.
OneGeneration ==
    \A r \in Ranks, p \in Programs :
        pc[r][p] \notin {"done", "load"} =>
            /\ snap[r][p].slot = (launch[r] - 1) % 3
            /\ snap[r][p].numel = IF launch[r] = 1 THEN 0
                                  ELSE calls[launch[r] - 1] * TilesPerRow

\* A program that normalizes a tile finds the partial square sum of every tile
\* of the row, written in this launch.
PartialsReady ==
    \A r \in Ranks, p \in Programs :
        (pc[r][p] = "norm" /\ work[r][p] < ItemCount(M(r))) =>
            \A c \in ItemCells(M(r), work[r][p]), k \in Tiles :
                partial[r][<<snap[r][p].slot, <<c[1], k>>>>] = launch[r]

\* What a program may have to wait for: the payloads of the cells it sums, the
\* sums of the row it finishes, the other programs of its launch.
AwaitsPayloads(r, p) ==
    /\ pc[r][p] = "reduce"
    /\ \/ /\ KernelOf(r) # "twoshot" /\ work[r][p] < ItemCount(M(r))
          /\ \E c \in ItemCells(M(r), work[r][p]) : Empty \in Slices(r, p, c)
       \/ /\ KernelOf(r) = "twoshot" /\ work[r][p] < OwnedCount(r, M(r))
          /\ Empty \in Scattered(r, p, OwnedCell(r, work[r][p]))
AwaitsSums(r, p) ==
    /\ pc[r][p] = "consume" /\ work[r][p] < M(r)
    /\ \E c \in {work[r][p]} \X Tiles :
          buffer[r][BroadcastCell(snap[r][p].slot, c)] = Empty
AwaitsPrograms(r, p) ==
    \/ pc[r][p] = "spin" /\ phase[r] # GridOf(r)
    \/ p = 0 /\ pc[r][p] = "finish" /\ ~AllArrived(r)

\* Land, Clear or Step is enabled.
Moves(r, p) ==
    \/ stores[r][p] # {}
    \/ pc[r][p] \notin {"load", "arrive", "push"} /\ ~cleared[r][p]
    \/ /\ pc[r][p] # "done"
       /\ ~AwaitsPayloads(r, p) /\ ~AwaitsSums(r, p) /\ ~AwaitsPrograms(r, p)

\* The ranks never wait for each other in a circle: while a launch is under way
\* some program can take a step, some store can land, or some rank has yet to
\* make a call that another has made.  No behaviour visits a state twice (every
\* step consumes a work item, a store or a call), so every launch ends.
SomebodyMoves ==
    (\E r \in Ranks : ~Idle(r)) =>
        \/ \E r \in Ranks, p \in Programs : Moves(r, p)
        \/ \E r \in Ranks : Idle(r) /\ launch[r] < Len(calls)

\* The protocol implements the service: a call has returned when the rank's
\* programs are done, and its result is what the tensor then holds.
Service == INSTANCE AllReduceService WITH
    Sizes <- 1 .. MaxTokens,
    Parts <- Cells,
    made <- launch,
    returned <- [r \in Ranks |-> IF Idle(r) THEN launch[r] ELSE launch[r] - 1],
    result <- [r \in Ranks |-> IF Idle(r) /\ launch[r] > 0
                               THEN [c \in Cells(M(r)) |-> tensor[r][c]]
                               ELSE <<>>]
ImplementsService == Service!Spec
=============================================================================
