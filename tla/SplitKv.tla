--------------------------------- MODULE SplitKv --------------------------------
(***************************************************************************)
(* Flash attention on Hopper with the keys split: the counters in device   *)
(* memory by which the programs of a launch share its work, and the host   *)
(* code that finds a counter for a launch (launcher.py).                   *)
(*                                                                         *)
(* The persistent kernel hands out (tile, split) pairs: program p starts   *)
(* with pair p and takes the next one from the counter; the combine kernel *)
(* that follows sets it back.  The decode kernel takes a ticket for every  *)
(* split that is stored: the last one combines and sets the counter back.  *)
(* Nothing sets a counter to zero before a launch, so that a launch can be *)
(* captured in a CUDA graph and replayed.                                  *)
(*                                                                         *)
(* The kernels of a stream run one after the other.  Whoever launches on   *)
(* two streams keeps launches with the same owner (the output) apart.      *)
(***************************************************************************)
EXTENDS Integers, Sequences

CONSTANTS
    Streams, Owners, Graphs,
    Programs,       \* programs of the persistent grid: 0 .. Programs - 1
    Tiles,          \* its (tile, split) pairs: 0 .. Tiles - 1
    Splits,         \* splits of a (sequence, head) of the decode kernel
    PoolSize,       \* _DECODE_COUNTER_POOL_SIZE, in counters of a launch
    Junk,           \* what torch.empty may leave in a counter
    NoGraph,
    MaxCounters,    \* bound: counters allocated
    MaxCalls        \* bound: calls and replays

ASSUME SplitAssumption ==
    /\ Programs \in Nat \ {0} /\ Tiles \in Nat /\ Splits \in Nat \ {0, 1}
    /\ PoolSize \in Nat \ {0, 1} /\ MaxCounters \in Nat /\ MaxCalls \in Nat
    /\ Junk \subseteq Nat
    /\ NoGraph \notin Graphs

VARIABLES
    counter,        \* counter[c]: value of counter c in device memory
    allocated,      \* counters 1 .. allocated exist
    tileCounter,    \* _split_scheduler_counters: the counter of an owner, or 0
    decodeCounter,  \* _decode_split_counters: the counter of an owner and stream, or 0
    pool,           \* the zeroed counters left: pool.next .. pool.last
    queue,          \* queue[s]: the kernels launched on stream s and not finished
    graph,          \* graph[g]: the kernels captured in graph g
    capturing,      \* capturing[s]: the graph that stream s captures, or NoGraph
    running,        \* running[s]: has the first kernel of queue[s] started?
    tile,           \* tile[s][p]: pair in hand of program p of the kernel on s
    worked,         \* worked[s][t]: how often pair t was worked
    split,          \* split[s][i]: where the CTA of split i of the kernel on s is
    stored,         \* stored[s]: splits with their partial result in memory
    combined,       \* combined[s]: CTAs that have combined
    calls,
    doubtful,       \* history: counters that no reset or combine kernel has set to zero
                    \* since they were allocated or used by a call that failed
    sound           \* history: sound[s]: was the counter in doubt at the start?

caches == <<tileCounter, decodeCounter, pool, allocated>>
launches == <<queue, graph, capturing, calls>>
progress == <<tile, worked>>
tickets == <<split, stored, combined>>
history == <<doubtful, sound>>
vars == <<counter, caches, launches, running, progress, tickets, history>>

AllPairs == 0 .. Tiles - 1
AllPrograms == 0 .. Programs - 1
AllSplits == 1 .. Splits
Counters == 1 .. MaxCounters

Init ==
    /\ counter = [c \in Counters |-> 0]
    /\ allocated = 0
    /\ tileCounter = [o \in Owners |-> 0]
    /\ decodeCounter = [k \in Owners \X Streams |-> 0]
    /\ pool = [next |-> 1, last |-> 0]
    /\ queue = [s \in Streams |-> <<>>]
    /\ graph = [g \in Graphs |-> <<>>]
    /\ capturing = [s \in Streams |-> NoGraph]
    /\ running = [s \in Streams |-> FALSE]
    /\ tile = [s \in Streams |-> [p \in AllPrograms |-> p]]
    /\ worked = [s \in Streams |-> [t \in AllPairs |-> 0]]
    /\ split = [s \in Streams |-> [i \in AllSplits |-> "store"]]
    /\ stored = [s \in Streams |-> {}]
    /\ combined = [s \in Streams |-> {}]
    /\ calls = 0
    /\ doubtful = {}
    /\ sound = [s \in Streams |-> TRUE]

-----------------------------------------------------------------------------
(* The host.                                                               *)

Kernel(kind, c, o) == [kind |-> kind, counter |-> c, owner |-> o]

Captures(s) == capturing[s] # NoGraph

\* A launch goes to the stream, or into the graph that the stream captures.
Launch(s, kernels) ==
    /\ calls' = calls + 1
    /\ IF Captures(s)
       THEN /\ graph' = [graph EXCEPT ![capturing[s]] = @ \o kernels]
            /\ UNCHANGED queue
       ELSE /\ queue' = [queue EXCEPT ![s] = @ \o kernels]
            /\ UNCHANGED graph

\* The caller: no other stream has work with this owner.
Alone(o, s) == \A r \in Streams \ {s} : \A i \in DOMAIN queue[r] : queue[r][i].owner # o

\* torch.empty; in a capture the reset kernel runs with the graph only.
Allocate(c, s, junk) ==
    /\ allocated' = c
    /\ counter' = [counter EXCEPT ![c] = junk]
    /\ doubtful' = IF Captures(s) THEN doubtful \cup {c} ELSE doubtful

\* launch_persistent under the tuner: every configuration is tried on a counter
\* set to zero (reset_to_zero), which is reset once more after the last.
Trials(tunes, c, o) ==
    IF tunes THEN <<Kernel("reset", c, o), Kernel("work", c, o), Kernel("reset", c, o)>>
             ELSE <<>>

\* A call on the persistent route.  `fails`: the call ends with an exception
\* between launch_persistent and combine_persistent_split_kv.
PersistentCall(s, o, tunes, fails) ==
    LET known == tileCounter[o] # 0
        c == IF known THEN tileCounter[o] ELSE allocated + 1
        work == Trials(tunes, c, o) \o
                (IF fails THEN <<Kernel("orphan", c, o)>>
                          ELSE <<Kernel("work", c, o), Kernel("combine", c, o)>>)
    IN  /\ calls < MaxCalls
        /\ Captures(s) \/ Alone(o, s)
        /\ Captures(s) => ~tunes /\ ~fails
        /\ IF known
           THEN /\ Launch(s, work)
                /\ UNCHANGED <<counter, caches, doubtful>>
           ELSE /\ allocated < MaxCounters
                /\ \E junk \in Junk : Allocate(c, s, junk)
                /\ tileCounter' = [tileCounter EXCEPT ![o] = c]
                /\ Launch(s, <<Kernel("reset", c, o)>> \o work)
                /\ UNCHANGED <<decodeCounter, pool>>
        /\ UNCHANGED <<capturing, running, progress, tickets, sound>>

\* "Leave ample zeroed slots for graph outputs"; initially there is no pool.
PoolLow == pool.last - pool.next + 1 < PoolSize \div 2

\* Outside a capture a pool that is low is replaced.
Renews(s) == ~Captures(s) /\ PoolLow
SlotsAfter(s) == IF Renews(s) THEN allocated + PoolSize ELSE allocated
PoolAfter(s) ==
    IF Renews(s) THEN [next |-> allocated + 1, last |-> allocated + PoolSize] ELSE pool

\* The host waits until the new pool is zeroed, and with that for everything
\* launched on the stream before.
ZeroPool(s) ==
    /\ Renews(s) => queue[s] = <<>>
    /\ SlotsAfter(s) <= MaxCounters
    /\ counter' = [c \in Counters |-> IF c \in allocated + 1 .. SlotsAfter(s)
                                      THEN 0 ELSE counter[c]]
    /\ allocated' = SlotsAfter(s)

\* A call of the fused decode: its counter is the one it used before on this
\* stream, a zeroed one of the pool, or, in a capture only, one of its own with
\* a reset kernel.
DecodeCall(s, o) ==
    LET k == <<o, s>>
        slots == PoolAfter(s)
        decode(c) == <<Kernel("decode", c, o)>>
    IN  /\ calls < MaxCalls
        /\ Captures(s) \/ Alone(o, s)
        /\ \/ /\ decodeCounter[k] # 0
              /\ ZeroPool(s)
              /\ pool' = slots
              /\ Launch(s, decode(decodeCounter[k]))
              /\ UNCHANGED <<decodeCounter, doubtful>>
           \/ /\ decodeCounter[k] = 0
              /\ slots.next <= slots.last
              /\ ZeroPool(s)
              /\ pool' = [slots EXCEPT !.next = @ + 1]
              /\ decodeCounter' = [decodeCounter EXCEPT ![k] = slots.next]
              /\ Launch(s, decode(slots.next))
              /\ UNCHANGED doubtful
           \/ /\ decodeCounter[k] = 0
              /\ slots.next > slots.last
              /\ allocated < MaxCounters
              /\ \E junk \in Junk : Allocate(allocated + 1, s, junk)
              /\ decodeCounter' = [decodeCounter EXCEPT ![k] = allocated + 1]
              /\ Launch(s, <<Kernel("reset", allocated + 1, o)>> \o decode(allocated + 1))
              /\ UNCHANGED pool
        /\ UNCHANGED <<tileCounter, capturing, running, progress, tickets, sound>>

BeginCapture(s, g) ==
    /\ \A r \in Streams : ~Captures(r)
    /\ graph[g] = <<>>
    /\ capturing' = [capturing EXCEPT ![s] = g]
    /\ UNCHANGED <<counter, caches, queue, graph, calls, running, progress, tickets, history>>

EndCapture(s) ==
    /\ Captures(s)
    /\ capturing' = [capturing EXCEPT ![s] = NoGraph]
    /\ UNCHANGED <<counter, caches, queue, graph, calls, running, progress, tickets, history>>

\* A graph may be replayed on any stream.
Replay(g, s) ==
    /\ calls < MaxCalls
    /\ \A r \in Streams : ~Captures(r)
    /\ graph[g] # <<>>
    /\ \A i \in DOMAIN graph[g] : Alone(graph[g][i].owner, s)
    /\ Launch(s, graph[g])
    /\ UNCHANGED <<counter, caches, capturing, running, progress, tickets, history>>

-----------------------------------------------------------------------------
(* The device: the first kernel of each stream.                            *)

Has(s, kinds) == queue[s] # <<>> /\ Head(queue[s]).kind \in kinds
WorkKinds == {"work", "orphan"}
Current(s) == Head(queue[s]).counter
Finish(s) == queue' = [queue EXCEPT ![s] = Tail(@)]

\* _reset_scheduler_counter, _zero_decode_split_counters
Reset(s) ==
    /\ Has(s, {"reset"})
    /\ counter' = [counter EXCEPT ![Current(s)] = 0]
    /\ doubtful' = doubtful \ {Current(s)}
    /\ Finish(s)
    /\ UNCHANGED <<caches, graph, capturing, calls, running, progress, tickets, sound>>

\* The grid starts: `tile_idx = prog_id`.
StartWork(s) ==
    /\ Has(s, WorkKinds) /\ ~running[s]
    /\ running' = [running EXCEPT ![s] = TRUE]
    /\ tile' = [tile EXCEPT ![s] = [p \in AllPrograms |-> p]]
    /\ worked' = [worked EXCEPT ![s] = [t \in AllPairs |-> 0]]
    /\ sound' = [sound EXCEPT ![s] = Current(s) \notin doubtful]
    /\ doubtful' = IF Has(s, {"orphan"}) THEN doubtful \cup {Current(s)} ELSE doubtful
    /\ UNCHANGED <<counter, caches, launches, tickets>>

\* Mutant: the claimed number is the pair.
ClaimFromZero(s, p) ==
    /\ Has(s, WorkKinds) /\ running[s]
    /\ tile[s][p] < Tiles
    /\ worked' = [worked EXCEPT ![s][tile[s][p]] = @ + 1]
    /\ tile' = [tile EXCEPT ![s][p] = counter[Current(s)]]
    /\ counter' = [counter EXCEPT ![Current(s)] = @ + 1]
    /\ UNCHANGED <<caches, launches, running, tickets, history>>

\* A program works its pair and takes another: `tile_idx = claimed + num_progs`.
Claim(s, p) ==
    /\ Has(s, WorkKinds) /\ running[s]
    /\ tile[s][p] < Tiles
    /\ worked' = [worked EXCEPT ![s][tile[s][p]] = @ + 1]
    /\ tile' = [tile EXCEPT ![s][p] = counter[Current(s)] + Programs]
    /\ counter' = [counter EXCEPT ![Current(s)] = @ + 1]
    /\ UNCHANGED <<caches, launches, running, tickets, history>>

\* `while work_valid` has ended everywhere.
EndWork(s) ==
    /\ Has(s, WorkKinds) /\ running[s]
    /\ \A p \in AllPrograms : tile[s][p] >= Tiles
    /\ running' = [running EXCEPT ![s] = FALSE]
    /\ Finish(s)
    /\ UNCHANGED <<counter, caches, graph, capturing, calls, progress, tickets, history>>

\* Mutant: the reset is left to the next launch.
CombineOnly(s) ==
    /\ Has(s, {"combine"})
    /\ Finish(s)
    /\ doubtful' = doubtful \ {Current(s)}
    /\ UNCHANGED <<counter, caches, graph, capturing, calls, running, progress, tickets, sound>>

\* combine_persistent_split_kv reads the partial results and resets the counter.
Combine(s) ==
    /\ Has(s, {"combine"})
    /\ counter' = [counter EXCEPT ![Current(s)] = 0]
    /\ doubtful' = doubtful \ {Current(s)}
    /\ Finish(s)
    /\ UNCHANGED <<caches, graph, capturing, calls, running, progress, tickets, sound>>

StartDecode(s) ==
    /\ Has(s, {"decode"}) /\ ~running[s]
    /\ running' = [running EXCEPT ![s] = TRUE]
    /\ split' = [split EXCEPT ![s] = [i \in AllSplits |-> "store"]]
    /\ stored' = [stored EXCEPT ![s] = {}]
    /\ combined' = [combined EXCEPT ![s] = {}]
    /\ sound' = [sound EXCEPT ![s] = Current(s) \notin doubtful]
    /\ UNCHANGED <<counter, caches, launches, progress, doubtful>>

\* The CTA of split i of the running decode kernel is at `place`.
At(s, i, place) == Has(s, {"decode"}) /\ running[s] /\ split[s][i] = place
Goto(s, i, place) == split' = [split EXCEPT ![s][i] = place]

\* The partial result, and a barrier for the threads of the CTA.
StorePartial(s, i) ==
    /\ At(s, i, "store")
    /\ stored' = [stored EXCEPT ![s] = @ \cup {i}]
    /\ Goto(s, i, "ticket")
    /\ UNCHANGED <<counter, caches, launches, running, progress, combined, history>>

\* Mutant: the last but one combines.
TicketEarly(s, i) ==
    /\ At(s, i, "ticket")
    /\ counter' = [counter EXCEPT ![Current(s)] = @ + 1]
    /\ Goto(s, i, IF counter[Current(s)] + 1 = Splits - 1 THEN "combine" ELSE "end")
    /\ UNCHANGED <<caches, launches, running, progress, stored, combined, history>>

\* `ticket = tl.atomic_add(counter, 1); if ticket == split_count - 1`
Ticket(s, i) ==
    /\ At(s, i, "ticket")
    /\ counter' = [counter EXCEPT ![Current(s)] = @ + 1]
    /\ Goto(s, i, IF counter[Current(s)] = Splits - 1 THEN "combine" ELSE "end")
    /\ UNCHANGED <<caches, launches, running, progress, stored, combined, history>>

\* _combine_decode_splits
CombineSplits(s, i) ==
    /\ At(s, i, "combine")
    /\ combined' = [combined EXCEPT ![s] = @ \cup {i}]
    /\ Goto(s, i, "reset")
    /\ UNCHANGED <<counter, caches, launches, running, progress, stored, history>>

\* Mutant: the counter keeps its value.
KeepTicket(s, i) ==
    /\ At(s, i, "reset")
    /\ Goto(s, i, "end")
    /\ UNCHANGED <<counter, caches, launches, running, progress, stored, combined, history>>

\* `tl.store(counter, 0)`
ResetTicket(s, i) ==
    /\ At(s, i, "reset")
    /\ counter' = [counter EXCEPT ![Current(s)] = 0]
    /\ Goto(s, i, "end")
    /\ UNCHANGED <<caches, launches, running, progress, stored, combined, history>>

EndDecode(s) ==
    /\ \A i \in AllSplits : At(s, i, "end")
    /\ running' = [running EXCEPT ![s] = FALSE]
    /\ Finish(s)
    /\ UNCHANGED <<counter, caches, graph, capturing, calls, progress, tickets, history>>

Host ==
    \E s \in Streams :
        \/ \E o \in Owners : \/ \E tunes, fails \in BOOLEAN : PersistentCall(s, o, tunes, fails)
                             \/ DecodeCall(s, o)
        \/ \E g \in Graphs : BeginCapture(s, g) \/ Replay(g, s)
        \/ EndCapture(s)

Device ==
    \E s \in Streams :
        \/ Reset(s) \/ StartWork(s) \/ EndWork(s) \/ Combine(s)
        \/ \E p \in AllPrograms : Claim(s, p)
        \/ StartDecode(s) \/ EndDecode(s)
        \/ \E i \in AllSplits :
               StorePartial(s, i) \/ Ticket(s, i) \/ CombineSplits(s, i) \/ ResetTicket(s, i)

Next == Host \/ Device
Spec == Init /\ [][Next]_vars

-----------------------------------------------------------------------------
(* Properties.                                                             *)

\* When the partial results are combined, every (tile, split) pair has been
\* worked exactly once, in whatever order the programs claimed them, unless the
\* counter was in doubt when the launch began.
PairsWorkedOnce ==
    \A s \in Streams : (Has(s, {"combine"}) /\ sound[s]) =>
        \A t \in AllPairs : worked[s][t] = 1

\* The CTA that combines the splits of a (sequence, head) finds them all in
\* memory, and when the kernel ends one CTA has combined.
SplitsCombinedOnce ==
    \A s \in Streams : (Has(s, {"decode"}) /\ running[s] /\ sound[s]) =>
        /\ \A i \in AllSplits : split[s][i] = "combine" => stored[s] = AllSplits
        /\ (\A i \in AllSplits : split[s][i] = "end") => \E i \in AllSplits : combined[s] = {i}

\* Between launches a counter is zero, on whatever stream or from whatever graph
\* the last launch came: nothing else makes the next one start at ticket 0.
CountersRest ==
    \A c \in 1 .. allocated :
        \/ c \in doubtful
        \/ \E s \in Streams : \E i \in DOMAIN queue[s] : queue[s][i].counter = c
        \/ counter[c] = 0
=============================================================================
