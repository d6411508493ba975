--------------------------- MODULE MegaMoeDispatch ---------------------------
(***************************************************************************)
(* The routes of one MegaMoE launch (hopper/mega/megamoe): every rank      *)
(* counts its routes per expert, reserves ranges in the queues of the      *)
(* ranks that own the experts, writes its routes there and publishes the   *)
(* counts; the owner pulls the tokens of its routes into a pool sorted by  *)
(* expert, the math warps scatter the results back to the source rank, and *)
(* the source rank adds up the results of each token.                      *)
(*                                                                         *)
(* The two matrix products of a pool block are the subject of MegaMoeWaves; *)
(* here a block is one step, taken when its rows have arrived.  A row is    *)
(* the launch, the rank and the route it was pulled from.                   *)
(***************************************************************************)
EXTENDS Integers, Sequences, FiniteSets, FiniteSetsExt, Functions

CONSTANTS
  NPES,         \* ranks
  NUM_SMS,      \* programs of the persistent kernel on each rank
  EPR,          \* experts per rank
  TOPK,
  BLOCK_M,      \* rows of a pool block
  BLOCK_R,      \* consecutive routes that one program takes at a time
  MAX_RECV,     \* capacity of a queue: routes of one rank to one expert
  PoolBlocks,   \* capacity of the pool, in blocks
  Schedules,    \* the routing plans explored, launch by launch: topk_ids of every rank
  MaxLaunches   \* bound: number of launches explored

Ranks   == 0 .. NPES - 1
SMs     == 0 .. NUM_SMS - 1
Streams == 0 .. 1
Local   == 0 .. EPR - 1
Experts == 0 .. NPES * EPR - 1
Routes  == UNION {DOMAIN plan[k][r] :
                    plan \in Schedules, k \in 1 .. MaxLaunches, r \in Ranks}
Blocks  == 0 .. PoolBlocks - 1
Rows    == 0 .. PoolBlocks * BLOCK_M - 1

Owner(e)   == e \div EPR
LocalOf(e) == e % EPR
Token(route)  == route \div TOPK
Choice(route) == route % TOPK

SumBelow(e, f) == SumFunctionOnSet(f, 0 .. e - 1)

\* The blocks that a number of routes takes in the pool.
BlocksFor(n) == (n + BLOCK_M - 1) \div BLOCK_M

\* What the plan of a launch gives an expert.
Given(plan, e) == UNION {{q} \X {i \in DOMAIN plan[q] : plan[q][i] = e} : q \in Ranks}

\* Every rank routes some tokens, TOPK experts or drops each; queues and pools have
\* room for what the planner sends, as the caller must guarantee.
Admitted(plan) ==
  /\ \A r \in Ranks :
       LET ntok == Cardinality(DOMAIN plan[r]) \div TOPK
       IN  ntok \in Nat /\ plan[r] \in [0 .. ntok * TOPK - 1 -> Experts \cup {-1}]
  /\ \A r \in Ranks, e \in Experts :
       Cardinality({i \in DOMAIN plan[r] : plan[r][i] = e}) <= MAX_RECV
  /\ \A r \in Ranks :
       SumBelow(EPR, [e \in Local |-> BlocksFor(Cardinality(Given(plan, r * EPR + e)))])
         <= PoolBlocks

ASSUME MegaMoeAssumption ==
  /\ {NPES, NUM_SMS, EPR, TOPK, BLOCK_M, BLOCK_R} \subseteq Nat \ {0}
  /\ {MAX_RECV, PoolBlocks, MaxLaunches} \subseteq Nat
  /\ \A plan \in Schedules : \A k \in 1 .. MaxLaunches : Admitted(plan[k])

VARIABLES
  plans,     \* the plans of the launches, the same on every rank
  launch,    \* launch[r]: the launch rank r is in, or was in last
  stage,     \* what the stream of rank r is at
  entered,   \* entered[r]: times rank r has entered barrier_all
  staged,    \* staged[r]: the launch whose inputs are in the symmetric buffers
  send,      \* expert_send_count: programs that have reserved, and routes
  queue,     \* queue[r]: routes by local expert, source rank and slot
  recv,      \* recv_count by source rank and local expert
  rsum,      \* recv_sum: programs of all ranks, and routes
  signal,    \* the two words of signal that are used
  gctr,      \* global_counters
  ready,     \* metadata_ready
  arrival,   \* l1_arrival_count
  pool,      \* l1_tokens, l1_scales, l1_weights and metadata, row by row
  combine,   \* the results that owners scattered to this rank
  output,
  pc,        \* dispatch role of each program
  base,      \* base[r][s]: start of the ranges the program has reserved
  unsent,    \* unsent[r]: experts whose counts program 0 has not published
  pull,      \* pull[r][s][j]: the pull stream's route, and whether it is copied
  math,      \* math roles of each program
  scattered  \* scattered[r]: blocks whose results have been scattered

host    == <<plans, launch, stage, entered, staged>>
counts  == <<send, queue, recv, rsum>>
sync    == <<signal, gctr, ready>>
results == <<combine, output>>
roles   == <<pc, base, unsent, pull, math, scattered>>
vars    == <<host, counts, sync, arrival, pool, results, roles>>

Zero == [ctas |-> 0, routes |-> 0]
NoRow == [launch |-> 0, rank |-> 0, route |-> 0]
NoResult == [row |-> NoRow, expert |-> 0]

Topk(r) == plans[launch[r]][r]
NTOK(r) == Cardinality(DOMAIN Topk(r)) \div TOPK

-----------------------------------------------------------------------------
(* The pool of a rank: the routes in the order of the experts, every expert *)
(* starting a new block.                                                    *)
NumM(r, e)  == BlocksFor(rsum[r][e].routes)
Start(r, e) == SumBelow(e, [f \in Local |-> rsum[r][f].routes])
Block(r, e) == SumBelow(e, [f \in Local |-> NumM(r, f)])

\* The expert of the route at a place of the expert-sorted order, and of a block.
ExpertAt(r, i) == CHOOSE e \in Local : Start(r, e) <= i /\ i < Start(r, e + 1)
ExpertOf(r, b) == CHOOSE e \in Local : Block(r, e) <= b /\ b < Block(r, e + 1)

Used(r) == {b \in Blocks : b < Block(r, EPR)}
ValidM(r, b) ==
  LET e == ExpertOf(r, b)
  IN  Min({rsum[r][e].routes - (b - Block(r, e)) * BLOCK_M, BLOCK_M})

\* Which queue, and which slot of it, the n-th route of an expert is taken from:
\* rounds of equal length over the ranks that have routes left.
Places == [left : [Ranks -> 0 .. MAX_RECV], slot : Nat, offset : Nat]

Active(left) == {q \in Ranks : left[q] > 0}
Length(left) == Min({left[q] : q \in Active(left)})
Nth(A, k)    == CHOOSE q \in A : Cardinality({p \in A : p < q}) = k

\* What is left for the rounds after this one.
After(x) ==
  LET length == Length(x.left)
  IN  [left   |-> [q \in Ranks |-> IF x.left[q] < length THEN 0 ELSE x.left[q] - length],
       slot   |-> x.slot - length * Cardinality(Active(x.left)),
       offset |-> x.offset + length]

RoundRobin[x \in Places] ==
  LET active == Active(x.left)
      n      == Cardinality(active)
  IN  IF active = {} THEN <<0, 0>>
      ELSE IF x.slot < Length(x.left) * n
        THEN <<Nth(active, x.slot % n), x.offset + x.slot \div n>>
        ELSE RoundRobin[After(x)]

-----------------------------------------------------------------------------
Init ==
  /\ plans \in Schedules
  /\ launch = [r \in Ranks |-> 0]
  /\ stage = [r \in Ranks |-> "idle"]
  /\ entered = [r \in Ranks |-> 0]
  /\ staged = [r \in Ranks |-> 0]
  /\ send = [r \in Ranks |-> [e \in Experts |-> Zero]]
  /\ queue = [r \in Ranks |-> [x \in Local \X Ranks \X (0 .. MAX_RECV - 1) |-> 0]]
  /\ recv = [r \in Ranks |-> [x \in Ranks \X Local |-> 0]]
  /\ rsum = [r \in Ranks |-> [e \in Local |-> Zero]]
  /\ signal = [r \in Ranks |-> [i \in 0 .. 1 |-> 0]]
  /\ gctr = [r \in Ranks |-> [i \in {0, 2, 3, 4} |-> 0]]
  /\ ready = [r \in Ranks |-> [s \in SMs |-> 0]]
  /\ arrival = [r \in Ranks |-> [b \in Blocks |-> 0]]
  /\ pool = [r \in Ranks |-> [x \in Rows |-> NoRow]]
  /\ combine = [r \in Ranks |-> [i \in Routes |-> NoResult]]
  /\ output = [r \in Ranks |-> [t \in {Token(i) : i \in Routes} |-> {}]]
  /\ pc = [r \in Ranks |-> [s \in SMs |-> "done"]]
  /\ base = [r \in Ranks |-> [s \in SMs |-> [e \in Experts |-> 0]]]
  /\ unsent = [r \in Ranks |-> {}]
  /\ pull = [r \in Ranks |-> [s \in SMs |-> [j \in Streams |->
               [next |-> 0, copied |-> FALSE]]]]
  /\ math = [r \in Ranks |-> [s \in SMs |-> "done"]]
  /\ scattered = [r \in Ranks |-> {}]

-----------------------------------------------------------------------------
(***************************************************************************)
(* The host enqueues, on its stream: the zeroing and the staging, an        *)
(* all-rank barrier, the kernel, an all-rank barrier.                       *)
(***************************************************************************)
Goto(r, from, to) == stage[r] = from /\ stage' = [stage EXCEPT ![r] = to]

\* Mutant: the stream does not wait for the other ranks.
BarrierSkipped(r) == TRUE

\* barrier_all_on_stream: the stream goes on when every rank has entered.
BarrierOpen(r) == \A q \in Ranks : entered[q] >= entered[r]

\* Mutants: recv_sum or the arrival counts of the launch before are left in place.
KeepSums(r) == rsum[r]
KeepArrivals(r) == arrival[r]

\* What the counters of the rank are set to before a launch.
NewSignal(r) == [i \in 0 .. 1 |-> 0]
NewSums(r) == [e \in Local |-> Zero]
NewCounters(r) == [i \in {0, 2, 3, 4} |-> 0]
NewArrivals(r) == [b \in Blocks |-> 0]

\* A launch: zero the counters and stage the inputs.
Prepare(r) ==
  /\ Goto(r, "idle", "open")
  /\ launch[r] < MaxLaunches
  /\ launch' = [launch EXCEPT ![r] = @ + 1]
  /\ staged' = [staged EXCEPT ![r] = launch'[r]]
  /\ entered' = [entered EXCEPT ![r] = @ + 1]
  /\ send' = [send EXCEPT ![r] = [e \in Experts |-> Zero]]
  /\ recv' = [recv EXCEPT ![r] = [x \in Ranks \X Local |-> 0]]
  /\ rsum' = [rsum EXCEPT ![r] = NewSums(r)]
  /\ signal' = [signal EXCEPT ![r] = NewSignal(r)]
  /\ gctr' = [gctr EXCEPT ![r] = NewCounters(r)]
  /\ ready' = [ready EXCEPT ![r] = [s \in SMs |-> 0]]
  /\ arrival' = [arrival EXCEPT ![r] = NewArrivals(r)]
  /\ UNCHANGED <<plans, queue, pool, results, roles>>

StartKernel(r) ==
  /\ Goto(r, "open", "kernel")
  /\ BarrierOpen(r)
  /\ pc' = [pc EXCEPT ![r] = [s \in SMs |-> "reserve"]]
  /\ math' = [math EXCEPT ![r] = [s \in SMs |-> "wait"]]
  /\ unsent' = [unsent EXCEPT ![r] = Experts]
  /\ scattered' = [scattered EXCEPT ![r] = {}]
  /\ UNCHANGED <<plans, launch, entered, staged, counts, sync, arrival, pool,
                 results, base, pull>>

EndKernel(r) ==
  /\ Goto(r, "kernel", "close")
  /\ \A s \in SMs : pc[r][s] = "done" /\ math[r][s] = "done"
  /\ entered' = [entered EXCEPT ![r] = @ + 1]
  /\ UNCHANGED <<plans, launch, staged, counts, sync, arrival, pool, results,
                 roles>>

Close(r) ==
  /\ Goto(r, "close", "idle")
  /\ BarrierOpen(r)
  /\ UNCHANGED <<plans, launch, entered, staged, counts, sync, arrival, pool,
                 results, roles>>

-----------------------------------------------------------------------------
(***************************************************************************)
(* D1 to D5 of the dispatch role.                                           *)
(***************************************************************************)
Step(r, s, from, to) ==
  pc[r][s] = from /\ pc' = [pc EXCEPT ![r][s] = to]

\* The routes the program takes, and those of them that go to an expert.
Share(r, s) ==
  {i \in DOMAIN Topk(r) : (i \div BLOCK_R) % NUM_SMS = s /\ Topk(r)[i] >= 0}
ShareTo(r, s, e) == {i \in Share(r, s) : Topk(r)[i] = e}

\* The adds to the counters of the experts are independent of each other.
Reserve(r, s) ==
  /\ Step(r, s, "reserve", "enqueue")
  /\ base' = [base EXCEPT ![r][s] = [e \in Experts |-> send[r][e].routes]]
  /\ send' = [send EXCEPT ![r] = [e \in Experts |->
                [ctas   |-> @[e].ctas + 1,
                 routes |-> @[e].routes + Cardinality(ShareTo(r, s, e))]]]
  /\ UNCHANGED <<host, queue, recv, rsum, sync, arrival, pool, results, unsent,
                 pull, math, scattered>>

\* The threads of a program take the slots of its range in any order.
Slotting(r, s, slot) ==
  \A e \in Experts :
    {slot[i] : i \in ShareTo(r, s, e)} =
      base[r][s][e] .. base[r][s][e] + Cardinality(ShareTo(r, s, e)) - 1

Enqueue(r, s) ==
  /\ Step(r, s, "enqueue", "arrive")
  /\ \E slot \in [Share(r, s) -> 0 .. MAX_RECV - 1] :
       /\ Slotting(r, s, slot)
       /\ queue' = [q \in Ranks |-> [x \in DOMAIN queue[q] |->
            LET sent == {i \in Share(r, s) :
                           /\ Owner(Topk(r)[i]) = q
                           /\ x = <<LocalOf(Topk(r)[i]), r, slot[i]>>}
            IN  IF sent = {} THEN queue[q][x] ELSE CHOOSE i \in sent : TRUE]]
  /\ UNCHANGED <<host, send, recv, rsum, sync, arrival, pool, results, base,
                 unsent, pull, math, scattered>>

\* rank_barrier: count the program in, then wait for all of them.
CountIn(r, i) == gctr' = [gctr EXCEPT ![r][i] = @ + 1]
\* Mutant: the barrier opens for the first program.
OneIn(r, i) == gctr[r][i] >= 1
AllIn(r, i) == gctr[r][i] >= NUM_SMS

Arrive(r, s) ==
  /\ Step(r, s, "arrive", "grid")
  /\ CountIn(r, 0)
  /\ UNCHANGED <<host, counts, signal, ready, arrival, pool, results, base,
                 unsent, pull, math, scattered>>

\* Program 0 goes on to publish; the others to the second barrier.
Grid(r, s) ==
  /\ Step(r, s, "grid", IF s = 0 THEN "publish" ELSE "meet")
  /\ AllIn(r, 0)
  /\ UNCHANGED <<host, counts, sync, arrival, pool, results, base, unsent, pull,
                 math, scattered>>

\* The status of every expert is published by a thread of its own.
Publish(r) ==
  /\ pc[r][0] = "publish"
  /\ \E e \in unsent[r] :
       /\ unsent' = [unsent EXCEPT ![r] = @ \ {e}]
       /\ recv' = [recv EXCEPT ![Owner(e)][<<r, LocalOf(e)>>] = send[r][e].routes]
       /\ rsum' = [rsum EXCEPT ![Owner(e)][LocalOf(e)] =
                     [ctas   |-> @.ctas + send[r][e].ctas,
                      routes |-> @.routes + send[r][e].routes]]
  /\ UNCHANGED <<host, send, queue, sync, arrival, pool, results, pc, base, pull,
                 math, scattered>>

\* One add to the word of every peer.
Signalled(i) == [q \in Ranks |-> [signal[q] EXCEPT ![i] = @ + 1]]
AllSignalled(r, i) == signal[r][i] >= NPES

Signal(r) ==
  /\ Step(r, 0, "publish", "await")
  /\ unsent[r] = {}
  /\ signal' = Signalled(0)
  /\ UNCHANGED <<host, counts, gctr, ready, arrival, pool, results, base, unsent,
                 pull, math, scattered>>

Await(r) ==
  /\ Step(r, 0, "await", "meet")
  /\ AllSignalled(r, 0)
  /\ UNCHANGED <<host, counts, sync, arrival, pool, results, base, unsent, pull,
                 math, scattered>>

Meet(r, s) ==
  /\ Step(r, s, "meet", "met")
  /\ CountIn(r, 2)
  /\ UNCHANGED <<host, counts, signal, ready, arrival, pool, results, base,
                 unsent, pull, math, scattered>>

\* The metadata is ready: the math role may start, and the streams pull.
Met(r, s) ==
  /\ Step(r, s, "met", "pull")
  /\ AllIn(r, 2)
  /\ ready' = [ready EXCEPT ![r][s] = 1]
  /\ pull' = [pull EXCEPT ![r][s] = [j \in Streams |->
                [next |-> 2 * s + j, copied |-> FALSE]]]
  /\ UNCHANGED <<host, counts, signal, gctr, arrival, pool, results, base, unsent,
                 math, scattered>>

-----------------------------------------------------------------------------
(***************************************************************************)
(* D6 to D9: the pull streams.                                              *)
(***************************************************************************)
Left(r, s, j) == pull[r][s][j].next < Start(r, EPR)

RowOf(r, i) ==
  LET e == ExpertAt(r, i) IN Block(r, e) * BLOCK_M + i - Start(r, e)

\* The queue entry of the i-th route: its source rank and route.
Pulled(r, i) ==
  LET e    == ExpertAt(r, i)
      from == RoundRobin[[left   |-> [q \in Ranks |-> recv[r][<<q, e>>]],
                          slot   |-> i - Start(r, e),
                          offset |-> 0]]
      src  == from[1]
  IN  [launch |-> staged[src], rank |-> src,
       route |-> queue[r][<<e, src, from[2]>>]]

\* The token, its scales, its weight and its metadata.
Copy(r, s, j) ==
  /\ pc[r][s] = "pull"
  /\ ~pull[r][s][j].copied
  /\ Left(r, s, j)
  /\ LET i == pull[r][s][j].next
     IN  pool' = [pool EXCEPT ![r][RowOf(r, i)] = Pulled(r, i)]
  /\ pull' = [pull EXCEPT ![r][s][j].copied = TRUE]
  /\ UNCHANGED <<host, counts, sync, arrival, results, pc, base, unsent, math,
                 scattered>>

\* The arrival of the row is counted when the store has completed.
Announce(r, s, j) ==
  /\ pc[r][s] = "pull"
  /\ pull[r][s][j].copied
  /\ LET b == RowOf(r, pull[r][s][j].next) \div BLOCK_M
     IN  arrival' = [arrival EXCEPT ![r][b] = @ + 1]
  /\ pull' = [pull EXCEPT ![r][s][j] =
                [next |-> @.next + 2 * NUM_SMS, copied |-> FALSE]]
  /\ UNCHANGED <<host, counts, sync, pool, results, pc, base, unsent, math,
                 scattered>>

EndPull(r, s) ==
  /\ Step(r, s, "pull", "done")
  /\ \A j \in Streams : ~Left(r, s, j)
  /\ UNCHANGED <<host, counts, sync, arrival, pool, results, base, unsent, pull,
                 math, scattered>>

-----------------------------------------------------------------------------
(***************************************************************************)
(* The math roles.  The two warp groups of a program are one actor, which   *)
(* takes its blocks in any order.                                           *)
(***************************************************************************)
MathStep(r, s, from, to) ==
  math[r][s] = from /\ math' = [math EXCEPT ![r][s] = to]

\* The loaders wait for the sums of all programs of all ranks, the math warps for
\* the flag of their program.
SumsReady(r) == \A e \in Local : rsum[r][e].ctas = NUM_SMS * NPES

WaitReady(r, s) ==
  /\ MathStep(r, s, "wait", "work")
  /\ ready[r][s] >= 1 /\ SumsReady(r)
  /\ UNCHANGED <<host, counts, sync, arrival, pool, results, pc, base, unsent,
                 pull, scattered>>

Mine(r, s) == {b \in Used(r) : b % NUM_SMS = s}

BlockArrived(r, b) == arrival[r][b] = ValidM(r, b)

\* Mutant: token-major, as the route is numbered.
TokenMajor(r, row) == Token(row.route) * TOPK + Choice(row.route)

\* Where the result of a row goes: the number of tokens is that of this rank.
Destination(r, row) == Choice(row.route) * NTOK(r) + Token(row.route)

\* The valid rows of a block, each scattered to its source rank.
Scatter(r, s) ==
  /\ math[r][s] = "work"
  /\ \E b \in Mine(r, s) \ scattered[r] :
       /\ BlockArrived(r, b)
       /\ LET valid == {pool[r][b * BLOCK_M + m] : m \in 0 .. ValidM(r, b) - 1}
              to(q, i) == {x \in valid : x.rank = q /\ Destination(r, x) = i}
          IN  combine' = [q \in Ranks |-> [i \in Routes |->
                IF to(q, i) = {} THEN combine[q][i]
                ELSE [row |-> CHOOSE x \in to(q, i) : TRUE,
                      expert |-> r * EPR + ExpertOf(r, b)]]]
       /\ scattered' = [scattered EXCEPT ![r] = @ \cup {b}]
  /\ UNCHANGED <<host, counts, sync, arrival, pool, output, pc, base, unsent,
                 pull, math>>

MathArrive(r, s) ==
  /\ MathStep(r, s, "work", "grid")
  /\ Mine(r, s) \subseteq scattered[r]
  /\ CountIn(r, 3)
  /\ UNCHANGED <<host, counts, signal, ready, arrival, pool, results, pc, base,
                 unsent, pull, scattered>>

\* Program 0 signals the peers and waits for them between the two counters.
MathGrid(r, s) ==
  /\ MathStep(r, s, "grid", IF s = 0 THEN "await" ELSE "meet")
  /\ AllIn(r, 3)
  /\ signal' = IF s = 0 THEN Signalled(1) ELSE signal
  /\ UNCHANGED <<host, counts, gctr, ready, arrival, pool, results, pc, base,
                 unsent, pull, scattered>>

\* Mutant: program 0 does not wait for the signals of the peers.
MathNoAwait(r) ==
  /\ MathStep(r, 0, "await", "meet")
  /\ UNCHANGED <<host, counts, sync, arrival, pool, results, pc, base, unsent,
                 pull, scattered>>

MathAwait(r) ==
  /\ MathStep(r, 0, "await", "meet")
  /\ AllSignalled(r, 1)
  /\ UNCHANGED <<host, counts, sync, arrival, pool, results, pc, base, unsent,
                 pull, scattered>>

MathMeet(r, s) ==
  /\ MathStep(r, s, "meet", "met")
  /\ CountIn(r, 4)
  /\ UNCHANGED <<host, counts, signal, ready, arrival, pool, results, pc, base,
                 unsent, pull, scattered>>

\* The tokens s, s + NUM_SMS, ... are added up.
Combine(r, s) ==
  /\ MathStep(r, s, "met", "done")
  /\ AllIn(r, 4)
  /\ output' = [output EXCEPT ![r] = [t \in DOMAIN @ |->
        IF t < NTOK(r) /\ t % NUM_SMS = s
        THEN {combine[r][k * NTOK(r) + t] :
                k \in {k \in 0 .. TOPK - 1 : Topk(r)[t * TOPK + k] >= 0}}
        ELSE @[t]]]
  /\ UNCHANGED <<host, counts, sync, arrival, pool, combine, pc, base, unsent,
                 pull, scattered>>

-----------------------------------------------------------------------------
Host(r) == Prepare(r) \/ StartKernel(r) \/ EndKernel(r) \/ Close(r)

Dispatch(r, s) ==
  \/ Reserve(r, s) \/ Enqueue(r, s) \/ Arrive(r, s) \/ Grid(r, s)
  \/ (s = 0 /\ (Publish(r) \/ Signal(r) \/ Await(r)))
  \/ Meet(r, s) \/ Met(r, s) \/ EndPull(r, s)
  \/ \E j \in Streams : Copy(r, s, j) \/ Announce(r, s, j)

Math(r, s) ==
  \/ WaitReady(r, s) \/ Scatter(r, s) \/ MathArrive(r, s) \/ MathGrid(r, s)
  \/ (s = 0 /\ MathAwait(r))
  \/ MathMeet(r, s) \/ Combine(r, s)

Terminated ==
  /\ \A r \in Ranks : launch[r] = MaxLaunches /\ stage[r] = "idle"
  /\ UNCHANGED vars

Next ==
  \/ \E r \in Ranks : Host(r)
  \/ \E r \in Ranks, s \in SMs : Dispatch(r, s) \/ Math(r, s)
  \/ Terminated

Spec == Init /\ [][Next]_vars

-----------------------------------------------------------------------------
InKernel(r) == stage[r] = "kernel"

\* The routes of rank q to an expert in the launch that rank r is in.
RoutesTo(r, q, e) ==
  LET topk == plans[launch[r]][q] IN {i \in DOMAIN topk : topk[i] = e}

\* While a rank is in the kernel every rank is in the same launch: none zeroes
\* its counters or stages its inputs under the feet of another.
SameLaunch ==
  \A q, r \in Ranks : InKernel(q) => launch[r] = launch[q]

\* As soon as the high word of recv_sum is complete the low word is final: the
\* weight loader schedules on it before the dispatch barriers are through.
SumsAreFinal ==
  \A r \in Ranks, e \in Local :
    InKernel(r) /\ rsum[r][e].ctas = NUM_SMS * NPES =>
      rsum[r][e].routes =
        SumBelow(NPES, [q \in Ranks |-> Cardinality(RoutesTo(r, q, r * EPR + e))])

\* A program that pulls finds in its rank's queues, and below the counts, each
\* route once, whatever programs of other ranks reserved and wrote them.
QueuesComplete ==
  \A r \in Ranks, s \in SMs : InKernel(r) /\ pc[r][s] = "pull" =>
    \A e \in Local, q \in Ranks :
      LET count == recv[r][<<q, e>>]
          to    == RoutesTo(r, q, r * EPR + e)
      IN  /\ count = Cardinality(to)
          /\ {queue[r][<<e, q, x>>] : x \in 0 .. count - 1} = to

\* A block that counts as arrived holds, in its valid rows, different routes of
\* this launch to the expert of the block: never a row of an earlier launch.
ArrivedRowsPresent ==
  \A r \in Ranks : InKernel(r) /\ SumsReady(r) =>
    \A b \in Used(r) : BlockArrived(r, b) =>
      \A m \in 0 .. ValidM(r, b) - 1 :
        LET row == pool[r][b * BLOCK_M + m] IN
        /\ row.launch = launch[r]
        /\ row.route \in RoutesTo(r, row.rank, r * EPR + ExpertOf(r, b))
        /\ \A n \in 0 .. m - 1 : pool[r][b * BLOCK_M + n] # row

\* No result is scattered to a rank that has begun to add up its tokens.
ScatterBeforeCombine ==
  [][\A r \in Ranks : combine'[r] # combine[r] =>
       InKernel(r) /\ \A s \in SMs : math[r][s] # "done"]_vars

\* When a launch is over every token has the results of exactly its own routes,
\* each computed by the expert the route goes to.
OutputExact ==
  \A r \in Ranks : stage[r] = "close" =>
    \A t \in 0 .. NTOK(r) - 1 :
      output[r][t] =
        {[row |-> [launch |-> launch[r], rank |-> r, route |-> i],
          expert |-> Topk(r)[i]] :
            i \in {i \in DOMAIN Topk(r) : Token(i) = t /\ Topk(r)[i] >= 0}}
=============================================================================
