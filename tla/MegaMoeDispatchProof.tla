------------------------- MODULE MegaMoeDispatchProof -------------------------
(***************************************************************************)
(* What the barriers inside and around a MegaMoE launch guarantee, for any  *)
(* number of ranks, programs and experts and any routing plans.             *)
(***************************************************************************)
EXTENDS MegaMoeDispatch, FiniteSetTheorems, WellFoundedInduction, TLAPS

\* A rank has entered the barriers of its launches: both of those it has left,
\* one of the launch whose kernel it is in or about to start.
Entries(r) == IF stage[r] \in {"open", "kernel"} THEN 2 * launch[r] - 1
                                                 ELSE 2 * launch[r]

\* A rank that is not waiting has seen every other rank enter as often; one that
\* waits had seen that before it entered.
Waiting(r) == stage[r] \in {"open", "close"}

\* SameLaunch alone is not inductive: it does not say why the other ranks cannot
\* be a launch ahead.  This does, from the number of entries.
BarrierInv ==
  /\ launch \in [Ranks -> Nat]
  /\ entered \in [Ranks -> Nat]
  /\ stage \in [Ranks -> {"idle", "open", "kernel", "close"}]
  /\ \A r \in Ranks : entered[r] = Entries(r)
  /\ \A q, r \in Ranks :
       IF Waiting(q) THEN entered[r] >= entered[q] - 1 ELSE entered[r] >= entered[q]

LEMMA BarrierInit == Init => BarrierInv
  BY DEF Init, BarrierInv, Entries, Waiting

\* Only the actions of the host touch the variables of BarrierInv.
LEMMA BarrierStep == BarrierInv /\ [Next]_vars => BarrierInv'
<1> SUFFICES ASSUME BarrierInv, [Next]_vars PROVE BarrierInv'
  OBVIOUS
<1> USE DEF BarrierInv, Entries, Waiting, host
<1>1. ASSUME UNCHANGED <<launch, entered, stage>> PROVE BarrierInv'
  BY <1>1
<1>2. CASE UNCHANGED vars BY <1>1, <1>2 DEF vars
<1>3. CASE Terminated BY <1>1, <1>3 DEF Terminated, vars
<1>4. ASSUME NEW r \in Ranks, Prepare(r) PROVE BarrierInv'
  <2>1. /\ stage[r] = "idle"
        /\ stage' = [stage EXCEPT ![r] = "open"]
        /\ launch' = [launch EXCEPT ![r] = @ + 1]
        /\ entered' = [entered EXCEPT ![r] = @ + 1]
    BY <1>4 DEF Prepare, Goto
  <2>2. /\ launch' \in [Ranks -> Nat] /\ entered' \in [Ranks -> Nat]
        /\ stage' \in [Ranks -> {"idle", "open", "kernel", "close"}]
    BY <2>1
  <2>3. \A q \in Ranks : entered'[q] = Entries(q)'
    BY <2>1
  <2>4. \A p, q \in Ranks :
          IF Waiting(p)' THEN entered'[q] >= entered'[p] - 1
                         ELSE entered'[q] >= entered'[p]
    BY <2>1
  <2> QED BY <2>2, <2>3, <2>4
<1>5. ASSUME NEW r \in Ranks, StartKernel(r) PROVE BarrierInv'
  BY <1>5 DEF StartKernel, Goto, BarrierOpen
<1>6. ASSUME NEW r \in Ranks, EndKernel(r) PROVE BarrierInv'
  BY <1>6 DEF EndKernel, Goto
<1>7. ASSUME NEW r \in Ranks, Close(r) PROVE BarrierInv'
  BY <1>7 DEF Close, Goto, BarrierOpen
<1>8. ASSUME NEW r \in Ranks, NEW s \in SMs, Dispatch(r, s) PROVE BarrierInv'
  <2>1. ASSUME NEW j \in Streams, Copy(r, s, j) PROVE UNCHANGED host
    BY <2>1, Zenon DEF Copy
  <2>2. ASSUME NEW j \in Streams, Announce(r, s, j) PROVE UNCHANGED host
    BY <2>2, Zenon DEF Announce
  <2> QED
    BY <1>1, <1>8, <2>1, <2>2
    DEF Dispatch, Reserve, Enqueue, Arrive, Grid, Publish, Signal, Await, Meet,
        Met, EndPull
<1>9. ASSUME NEW r \in Ranks, NEW s \in SMs, Math(r, s) PROVE BarrierInv'
  BY <1>1, <1>9
  DEF Math, WaitReady, Scatter, MathArrive, MathGrid, MathAwait, MathMeet, Combine
<1> QED
  BY <1>2, <1>3, <1>4, <1>5, <1>6, <1>7, <1>8, <1>9 DEF Next, Host

LEMMA BarrierInvariant == Spec => []BarrierInv
  BY BarrierInit, BarrierStep, PTL DEF Spec

\* A rank in the kernel has entered 2n - 1 times, any other one as often or once
\* more, and if once more it is waiting for this rank to close launch n.
LEMMA BarrierImpliesSame == BarrierInv => SameLaunch
<1> SUFFICES ASSUME BarrierInv, NEW q \in Ranks, NEW r \in Ranks, InKernel(q)
             PROVE  launch[r] = launch[q]
  BY DEF SameLaunch
<1> USE DEF BarrierInv, Entries, Waiting, InKernel
<1>1. entered[q] = 2 * launch[q] - 1 /\ entered[r] >= entered[q]
  OBVIOUS
<1>2. CASE Waiting(r)
  <2>1. entered[r] \in {2 * launch[q] - 1, 2 * launch[q]}
    BY <1>1, <1>2
  <2> QED BY <2>1, <1>2
<1>3. CASE ~Waiting(r)
  <2>1. entered[r] = 2 * launch[q] - 1
    BY <1>1, <1>3
  <2> QED BY <2>1, <1>3
<1> QED BY <1>2, <1>3

\* While a rank is in the kernel all ranks are in the same launch: no rank zeroes
\* counters that a peer still adds to, for any number of ranks and programs.
THEOREM LaunchesDoNotOverlap == Spec => []SameLaunch
  BY BarrierInvariant, BarrierImpliesSame, PTL

-----------------------------------------------------------------------------
(* What the sets of programs at the stages of the roles are.                *)
Phases     == {"reserve", "enqueue", "arrive", "grid", "publish", "await", "meet",
               "met", "pull", "done"}
MathPhases == {"wait", "work", "grid", "await", "meet", "met", "done"}

Arrived    == Phases \ {"reserve", "enqueue", "arrive"}
Past       == Arrived \ {"grid"}
Announced  == Past \ {"publish"}
Awaited    == Announced \ {"await"}
Counted    == {"met", "pull", "done"}
Pulling    == {"pull", "done"}
MathIn     == MathPhases \ {"wait", "work"}
MathPast   == MathIn \ {"grid"}
MathMetIn  == {"met", "done"}

Status == [ctas : Nat, routes : Nat]

\* The shapes that the proofs use.
ShapeInv ==
  /\ plans \in Schedules
  /\ staged \in [Ranks -> Nat]
  /\ send \in [Ranks -> [Experts -> Status]]
  /\ queue = [q \in Ranks |-> [x \in Local \X Ranks \X (0 .. MAX_RECV - 1) |-> queue[q][x]]]
  /\ recv \in [Ranks -> [Ranks \X Local -> Nat]]
  /\ rsum \in [Ranks -> [Local -> Status]]
  /\ signal \in [Ranks -> [0 .. 1 -> Nat]]
  /\ gctr \in [Ranks -> [{0, 2, 3, 4} -> Nat]]
  /\ ready \in [Ranks -> [SMs -> Nat]]
  /\ arrival \in [Ranks -> [Blocks -> Nat]]
  /\ pool = [r \in Ranks |-> [x \in Rows |-> pool[r][x]]]
  /\ combine = [r \in Ranks |-> [i \in Routes |-> combine[r][i]]]
  /\ output = [r \in Ranks |-> [t \in {Token(i) : i \in Routes} |-> output[r][t]]]
  /\ pc \in [Ranks -> [SMs -> Phases]]
  /\ base \in [Ranks -> [SMs -> [Experts -> Nat]]]
  /\ unsent \in [Ranks -> SUBSET Experts]
  /\ pull \in [Ranks -> [SMs -> [Streams -> [next : Nat, copied : BOOLEAN]]]]
  /\ math \in [Ranks -> [SMs -> MathPhases]]
  /\ scattered \in [Ranks -> SUBSET Blocks]
  /\ \A r \in Ranks : launch[r] <= MaxLaunches
  /\ \A r \in Ranks : stage[r] # "idle" => launch[r] >= 1
  /\ \A r \in Ranks, s \in SMs :
       stage[r] # "kernel" => pc[r][s] = "done" /\ math[r][s] = "done"

\* The sizes are positive naturals: there is a rank, a program, a first of each.
LEMMA Sizes ==
  /\ NPES \in Nat \ {0} /\ NUM_SMS \in Nat \ {0} /\ EPR \in Nat \ {0}
  /\ TOPK \in Nat \ {0} /\ BLOCK_M \in Nat \ {0} /\ BLOCK_R \in Nat \ {0}
  /\ MAX_RECV \in Nat /\ PoolBlocks \in Nat /\ MaxLaunches \in Nat
  /\ Ranks \subseteq Nat /\ SMs \subseteq Nat /\ 0 \in Ranks /\ 0 \in SMs
<1>1. /\ NPES \in Nat \ {0} /\ NUM_SMS \in Nat \ {0} /\ EPR \in Nat \ {0}
      /\ TOPK \in Nat \ {0} /\ BLOCK_M \in Nat \ {0} /\ BLOCK_R \in Nat \ {0}
      /\ MAX_RECV \in Nat /\ PoolBlocks \in Nat /\ MaxLaunches \in Nat
  BY MegaMoeAssumption
<1> QED BY <1>1 DEF Ranks, SMs

LEMMA FiniteSizes ==
  /\ IsFiniteSet(Ranks) /\ Cardinality(Ranks) = NPES
  /\ IsFiniteSet(SMs) /\ Cardinality(SMs) = NUM_SMS
  BY Sizes, FS_Interval DEF Ranks, SMs

\* An expert is one of the experts of its owner.
LEMMA Ownership ==
  /\ \A e \in Experts :
       Owner(e) \in Ranks /\ LocalOf(e) \in Local /\ e = Owner(e) * EPR + LocalOf(e)
  /\ \A r \in Ranks, l \in Local :
       r * EPR + l \in Experts /\ Owner(r * EPR + l) = r /\ LocalOf(r * EPR + l) = l
<1>1. ASSUME NEW n \in Nat \ {0}, NEW d \in Nat \ {0}, NEW e \in 0 .. n * d - 1
      PROVE  e \div d \in 0 .. n - 1 /\ e % d \in 0 .. d - 1 /\ e = (e \div d) * d + (e % d)
  <2>1. e \in Nat /\ e < n * d OBVIOUS
  <2>2. e % d \in 0 .. d - 1 /\ e \div d \in Nat /\ e = (e \div d) * d + (e % d)
    BY <2>1
  <2>3. ASSUME e \div d >= n PROVE FALSE
    <3>1. (e \div d) * d >= n * d BY <2>2, <2>3
    <3> QED BY <2>1, <2>2, <3>1
  <2> QED BY <2>2, <2>3
<1>2. ASSUME NEW n \in Nat \ {0}, NEW d \in Nat \ {0}, NEW r \in 0 .. n - 1, NEW l \in 0 .. d - 1
      PROVE  r * d + l \in 0 .. n * d - 1 /\ (r * d + l) \div d = r /\ (r * d + l) % d = l
  <2>1. r * d \in Nat /\ (r + 1) * d <= n * d /\ (r + 1) * d = r * d + d OBVIOUS
  <2>2. r * d + l \in 0 .. n * d - 1 BY <2>1
  <2> QED BY <2>1, <2>2
<1> QED BY <1>1, <1>2, Sizes DEF Experts, Owner, LocalOf, Ranks, Local

-----------------------------------------------------------------------------
(* The plans.                                                               *)
Tokens(n, q) == Cardinality(DOMAIN plans[n][q]) \div TOPK

\* In every launch every rank routes its tokens to experts, or drops them.
LEMMA PlanFacts ==
  ASSUME ShapeInv, NEW n \in 1 .. MaxLaunches, NEW q \in Ranks
  PROVE  /\ Tokens(n, q) \in Nat
         /\ plans[n][q] \in [0 .. Tokens(n, q) * TOPK - 1 -> Experts \cup {-1}]
         /\ DOMAIN plans[n][q] = 0 .. Tokens(n, q) * TOPK - 1
         /\ DOMAIN plans[n][q] \subseteq Nat
         /\ DOMAIN plans[n][q] \subseteq Routes
         /\ IsFiniteSet(DOMAIN plans[n][q])
         /\ Cardinality(DOMAIN plans[n][q]) = Tokens(n, q) * TOPK
<1>1. Admitted(plans[n]) BY MegaMoeAssumption DEF ShapeInv
<1>2. /\ Tokens(n, q) \in Nat
      /\ plans[n][q] \in [0 .. Tokens(n, q) * TOPK - 1 -> Experts \cup {-1}]
  BY <1>1 DEF Admitted, Tokens
<1>3. Tokens(n, q) * TOPK \in Nat BY <1>2, Sizes
<1>4. /\ DOMAIN plans[n][q] = 0 .. Tokens(n, q) * TOPK - 1
      /\ DOMAIN plans[n][q] \subseteq Routes
  BY <1>2 DEF Routes, ShapeInv
<1>5. ASSUME NEW m \in Nat
      PROVE  /\ 0 .. m - 1 \subseteq Nat
             /\ IsFiniteSet(0 .. m - 1) /\ Cardinality(0 .. m - 1) = m
  BY FS_Interval
<1> QED BY <1>2, <1>3, <1>4, <1>5

\* A rank that has begun a launch routes by the plan of that launch.
LEMMA TopkFacts ==
  ASSUME ShapeInv, BarrierInv, NEW r \in Ranks, stage[r] # "idle" \/ launch[r] >= 1
  PROVE  /\ launch[r] \in 1 .. MaxLaunches
         /\ Topk(r) = plans[launch[r]][r]
         /\ NTOK(r) = Tokens(launch[r], r)
         /\ \A i \in DOMAIN Topk(r) : Topk(r)[i] \in Experts \cup {-1}
         /\ DOMAIN Topk(r) \subseteq Nat /\ DOMAIN Topk(r) \subseteq Routes
         /\ IsFiniteSet(DOMAIN Topk(r))
<1>1. launch[r] \in 1 .. MaxLaunches
  BY Sizes DEF ShapeInv, BarrierInv
<1>2. /\ plans[launch[r]][r]
           \in [0 .. Tokens(launch[r], r) * TOPK - 1 -> Experts \cup {-1}]
      /\ DOMAIN plans[launch[r]][r] \subseteq Nat
      /\ DOMAIN plans[launch[r]][r] \subseteq Routes
      /\ IsFiniteSet(DOMAIN plans[launch[r]][r])
  BY <1>1, PlanFacts
<1> QED BY <1>1, <1>2 DEF Topk, NTOK, Tokens

LEMMA ShareFacts ==
  ASSUME ShapeInv, BarrierInv, NEW r \in Ranks, stage[r] # "idle" \/ launch[r] >= 1,
         NEW s \in SMs
  PROVE  /\ IsFiniteSet(Share(r, s))
         /\ \A i \in Share(r, s) : i \in Nat /\ Topk(r)[i] \in Experts
         /\ \A e \in Experts :
              /\ IsFiniteSet(ShareTo(r, s, e))
              /\ Cardinality(ShareTo(r, s, e)) \in Nat
<1>0. /\ \A i \in DOMAIN Topk(r) : Topk(r)[i] \in Experts \cup {-1}
      /\ DOMAIN Topk(r) \subseteq Nat
      /\ IsFiniteSet(DOMAIN Topk(r))
  BY TopkFacts
<1>1. Share(r, s) \subseteq DOMAIN Topk(r) BY DEF Share
<1>2. IsFiniteSet(Share(r, s)) BY <1>0, <1>1, FS_Subset
<1>3. \A i \in Share(r, s) : i \in Nat /\ Topk(r)[i] \in Experts
  BY <1>0 DEF Share
<1>4. ASSUME NEW e \in Experts
      PROVE  IsFiniteSet(ShareTo(r, s, e)) /\ Cardinality(ShareTo(r, s, e)) \in Nat
  <2>1. ShareTo(r, s, e) \subseteq Share(r, s) BY DEF ShareTo
  <2> QED BY <1>2, <2>1, FS_Subset, FS_CardinalityType
<1> QED BY <1>2, <1>3, <1>4

-----------------------------------------------------------------------------
(* What each action leaves alone.                                           *)
Own(q) == <<launch[q], stage[q], entered[q], staged[q], send[q], gctr[q], ready[q],
            arrival[q], pool[q], output[q], pc[q], base[q], unsent[q], pull[q],
            math[q], scattered[q]>>

\* An action of a rank leaves what the other ranks own alone.
LEMMA Frame ==
  ASSUME ShapeInv, BarrierInv, NEW r \in Ranks, NEW s \in SMs,
         Host(r) \/ Dispatch(r, s) \/ Math(r, s)
  PROVE  plans' = plans /\ \A q \in Ranks \ {r} : Own(q)' = Own(q)
<1> USE DEF Own, ShapeInv, BarrierInv, host, counts, sync, results, roles
<1> DEFINE Framed == plans' = plans /\ \A q \in Ranks \ {r} : Own(q)' = Own(q)
<1>1. ASSUME Prepare(r) PROVE Framed
  BY <1>1 DEF Prepare, Goto
<1>2. ASSUME StartKernel(r) PROVE Framed
  BY <1>2 DEF StartKernel, Goto
<1>3. ASSUME EndKernel(r) PROVE Framed
  BY <1>3 DEF EndKernel, Goto
<1>4. ASSUME Close(r) PROVE Framed
  BY <1>4 DEF Close, Goto
<1>5. ASSUME Reserve(r, s) PROVE Framed
  BY <1>5 DEF Reserve, Step
<1>6. ASSUME Enqueue(r, s) PROVE Framed
  BY <1>6 DEF Enqueue, Step
<1>7. ASSUME Arrive(r, s) PROVE Framed
  BY <1>7 DEF Arrive, Step, CountIn
<1>8. ASSUME Grid(r, s) PROVE Framed
  BY <1>8 DEF Grid, Step
<1>9. ASSUME Publish(r) PROVE Framed
  BY <1>9 DEF Publish
<1>10. ASSUME Signal(r) PROVE Framed
  BY <1>10 DEF Signal, Step
<1>11. ASSUME Await(r) PROVE Framed
  BY <1>11 DEF Await, Step
<1>12. ASSUME Meet(r, s) PROVE Framed
  BY <1>12 DEF Meet, Step, CountIn
<1>13. ASSUME Met(r, s) PROVE Framed
  BY <1>13 DEF Met, Step
<1>14. ASSUME EndPull(r, s) PROVE Framed
  BY <1>14 DEF EndPull, Step
<1>15. ASSUME NEW j \in Streams, Copy(r, s, j) PROVE Framed
  BY <1>15 DEF Copy
<1>16. ASSUME NEW j \in Streams, Announce(r, s, j) PROVE Framed
  BY <1>16 DEF Announce
<1>17. ASSUME WaitReady(r, s) PROVE Framed
  BY <1>17 DEF WaitReady, MathStep
<1>18. ASSUME Scatter(r, s) PROVE Framed
  BY <1>18 DEF Scatter
<1>19. ASSUME MathArrive(r, s) PROVE Framed
  BY <1>19 DEF MathArrive, MathStep, CountIn
<1>20. ASSUME MathGrid(r, s) PROVE Framed
  BY <1>20 DEF MathGrid, MathStep
<1>21. ASSUME MathAwait(r) PROVE Framed
  BY <1>21 DEF MathAwait, MathStep
<1>22. ASSUME MathMeet(r, s) PROVE Framed
  BY <1>22 DEF MathMeet, MathStep, CountIn
<1>23. ASSUME Combine(r, s) PROVE Framed
  BY <1>23 DEF Combine, MathStep
<1> HIDE DEF Framed
<1> QED
  BY <1>1, <1>2, <1>3, <1>4, <1>5, <1>6, <1>7, <1>8, <1>9, <1>10, <1>11, <1>12, <1>13, <1>14, <1>15, <1>16, <1>17, <1>18, <1>19, <1>20, <1>21, <1>22, <1>23, Zenon
  DEF Host, Dispatch, Math, Framed

LEMMA ShapeInit == Init => ShapeInv
<1> SUFFICES ASSUME Init PROVE ShapeInv OBVIOUS
<1> USE Sizes DEF Init, Zero, Status, Phases, MathPhases, Streams
<1>1. plans \in Schedules
  OBVIOUS
<1>2. staged \in [Ranks -> Nat]
  OBVIOUS
<1>3. send \in [Ranks -> [Experts -> Status]]
  OBVIOUS
<1>4. queue = [q \in Ranks |-> [x \in Local \X Ranks \X (0 .. MAX_RECV - 1) |-> queue[q][x]]]
  OBVIOUS
<1>5. recv \in [Ranks -> [Ranks \X Local -> Nat]]
  OBVIOUS
<1>6. rsum \in [Ranks -> [Local -> Status]]
  OBVIOUS
<1>7. signal \in [Ranks -> [0 .. 1 -> Nat]]
  OBVIOUS
<1>8. gctr \in [Ranks -> [{0, 2, 3, 4} -> Nat]]
  OBVIOUS
<1>9. ready \in [Ranks -> [SMs -> Nat]]
  OBVIOUS
<1>10. arrival \in [Ranks -> [Blocks -> Nat]]
  OBVIOUS
<1>11. pool = [q \in Ranks |-> [x \in Rows |-> pool[q][x]]]
  OBVIOUS
<1>12. combine = [q \in Ranks |-> [i \in Routes |-> combine[q][i]]]
  OBVIOUS
<1>13. output = [q \in Ranks |-> [t \in {Token(i) : i \in Routes} |-> output[q][t]]]
  OBVIOUS
<1>14. pc \in [Ranks -> [SMs -> Phases]]
  OBVIOUS
<1>15. base \in [Ranks -> [SMs -> [Experts -> Nat]]]
  OBVIOUS
<1>16. unsent \in [Ranks -> SUBSET Experts]
  OBVIOUS
<1>17. pull \in [Ranks -> [SMs -> [Streams -> [next : Nat, copied : BOOLEAN]]]]
  OBVIOUS
<1>18. math \in [Ranks -> [SMs -> MathPhases]]
  OBVIOUS
<1>19. scattered \in [Ranks -> SUBSET Blocks]
  OBVIOUS
<1>20. (\A q \in Ranks : launch[q] <= MaxLaunches)
  OBVIOUS
<1>21. (\A q \in Ranks : stage[q] # "idle" => launch[q] >= 1)
  OBVIOUS
<1>22. (\A q \in Ranks, t \in SMs : stage[q] # "kernel" => pc[q][t] = "done" /\ math[q][t] = "done")
  OBVIOUS
<1> QED
  BY <1>1, <1>2, <1>3, <1>4, <1>5, <1>6, <1>7, <1>8, <1>9, <1>10, <1>11, <1>12, <1>13, <1>14, <1>15, <1>16, <1>17, <1>18, <1>19, <1>20, <1>21, <1>22 DEF ShapeInv

LEMMA ShapePrepare ==
  ASSUME ShapeInv, BarrierInv, NEW r \in Ranks, Prepare(r)
  PROVE  ShapeInv'
<1>0. 0 \in SMs BY Sizes
<1>1. UNCHANGED <<plans, queue, pool, combine, output, pc, base, unsent, pull, math, scattered>>
  BY DEF Prepare, host, counts, sync, results, roles
<1>2. (\A q \in Ranks : launch'[q] <= MaxLaunches)
  BY <1>0, Sizes DEF Prepare, ShapeInv, Goto, BarrierInv
<1>3. (\A q \in Ranks : stage'[q] # "idle" => launch'[q] >= 1)
  BY <1>0, <1>1 DEF Prepare, ShapeInv, Goto, BarrierInv
<1>4. staged' \in [Ranks -> Nat]
  <2>1. launch' \in [Ranks -> Nat] BY DEF Prepare, BarrierInv
  <2>2. staged' = [staged EXCEPT ![r] = launch'[r]] BY DEF Prepare
  <2> QED BY <2>1, <2>2 DEF ShapeInv
<1>5. send' \in [Ranks -> [Experts -> Status]]
  BY <1>0 DEF Prepare, ShapeInv, Zero, Status
<1>6. recv' \in [Ranks -> [Ranks \X Local -> Nat]]
  BY <1>0 DEF Prepare, ShapeInv
<1>7. rsum' \in [Ranks -> [Local -> Status]]
  BY <1>0 DEF Prepare, ShapeInv, NewSums, Zero, Status
<1>8. signal' \in [Ranks -> [0 .. 1 -> Nat]]
  BY <1>0 DEF Prepare, ShapeInv, NewSignal, Signalled
<1>9. gctr' \in [Ranks -> [{0, 2, 3, 4} -> Nat]]
  BY <1>0 DEF Prepare, ShapeInv, NewCounters, CountIn
<1>10. ready' \in [Ranks -> [SMs -> Nat]]
  BY <1>0 DEF Prepare, ShapeInv
<1>11. arrival' \in [Ranks -> [Blocks -> Nat]]
  BY <1>0 DEF Prepare, ShapeInv, NewArrivals
<1>12. (\A q \in Ranks, t \in SMs : stage'[q] # "kernel" => pc'[q][t] = "done" /\ math'[q][t] = "done")
  BY <1>0, <1>1 DEF Prepare, ShapeInv, BarrierInv, Goto
<1> QED BY <1>1, <1>2, <1>3, <1>4, <1>5, <1>6, <1>7, <1>8, <1>9, <1>10, <1>11, <1>12 DEF ShapeInv

LEMMA ShapeStartKernel ==
  ASSUME ShapeInv, BarrierInv, NEW r \in Ranks, StartKernel(r)
  PROVE  ShapeInv'
<1>0. 0 \in SMs BY Sizes
<1>1. UNCHANGED <<plans, staged, send, queue, recv, rsum, signal, gctr, ready, arrival, pool, combine, output, base, pull, launch>>
  BY DEF StartKernel, host, counts, sync, results, roles, Goto
<1>2. (\A q \in Ranks : stage'[q] # "idle" => launch'[q] >= 1)
  BY <1>0, <1>1 DEF StartKernel, ShapeInv, Goto, BarrierInv
<1>3. pc' \in [Ranks -> [SMs -> Phases]]
  BY <1>0 DEF StartKernel, ShapeInv, Step, Phases
<1>4. math' \in [Ranks -> [SMs -> MathPhases]]
  BY <1>0 DEF StartKernel, ShapeInv, MathStep, MathPhases
<1>5. unsent' \in [Ranks -> SUBSET Experts]
  BY <1>0 DEF StartKernel, ShapeInv
<1>6. scattered' \in [Ranks -> SUBSET Blocks]
  BY <1>0 DEF StartKernel, ShapeInv, Mine, Used
<1>7. (\A q \in Ranks, t \in SMs : stage'[q] # "kernel" => pc'[q][t] = "done" /\ math'[q][t] = "done")
  BY <1>0, <1>1 DEF StartKernel, ShapeInv, BarrierInv, Goto
<1> QED BY <1>1, <1>2, <1>3, <1>4, <1>5, <1>6, <1>7 DEF ShapeInv

LEMMA ShapeEndKernel ==
  ASSUME ShapeInv, BarrierInv, NEW r \in Ranks, EndKernel(r)
  PROVE  ShapeInv'
<1>0. 0 \in SMs BY Sizes
<1>1. UNCHANGED <<plans, staged, send, queue, recv, rsum, signal, gctr, ready, arrival, pool, combine, output, pc, base, unsent, pull, math, scattered, launch>>
  BY DEF EndKernel, host, counts, sync, results, roles, Goto
<1>2. (\A q \in Ranks : stage'[q] # "idle" => launch'[q] >= 1)
  BY <1>0, <1>1 DEF EndKernel, ShapeInv, Goto, BarrierInv
<1>3. (\A q \in Ranks, t \in SMs : stage'[q] # "kernel" => pc'[q][t] = "done" /\ math'[q][t] = "done")
  BY <1>0, <1>1 DEF EndKernel, ShapeInv, BarrierInv, Goto
<1> QED BY <1>1, <1>2, <1>3 DEF ShapeInv

LEMMA ShapeClose ==
  ASSUME ShapeInv, BarrierInv, NEW r \in Ranks, Close(r)
  PROVE  ShapeInv'
<1>0. 0 \in SMs BY Sizes
<1>1. UNCHANGED <<plans, staged, send, queue, recv, rsum, signal, gctr, ready, arrival, pool, combine, output, pc, base, unsent, pull, math, scattered, launch>>
  BY DEF Close, host, counts, sync, results, roles, Goto
<1>2. (\A q \in Ranks : stage'[q] # "idle" => launch'[q] >= 1)
  BY <1>0, <1>1 DEF Close, ShapeInv, Goto, BarrierInv
<1>3. (\A q \in Ranks, t \in SMs : stage'[q] # "kernel" => pc'[q][t] = "done" /\ math'[q][t] = "done")
  BY <1>0, <1>1 DEF Close, ShapeInv, BarrierInv, Goto
<1> QED BY <1>1, <1>2, <1>3 DEF ShapeInv

LEMMA ShapeReserve ==
  ASSUME ShapeInv, BarrierInv, NEW r \in Ranks, NEW s \in SMs, Reserve(r, s)
  PROVE  ShapeInv'
<1>0. 0 \in SMs BY Sizes
<1>1. UNCHANGED <<plans, staged, queue, recv, rsum, signal, gctr, ready, arrival, pool, combine, output, unsent, pull, math, scattered, launch, stage>>
  BY DEF Reserve, host, counts, sync, results, roles
<1>2. pc' \in [Ranks -> [SMs -> Phases]]
  BY <1>0 DEF Reserve, ShapeInv, Step, Phases
<1>3. base' \in [Ranks -> [SMs -> [Experts -> Nat]]]
  <2>1. base' = [base EXCEPT ![r][s] = [e \in Experts |-> send[r][e].routes]]
    BY DEF Reserve
  <2>2. [e \in Experts |-> send[r][e].routes] \in [Experts -> Nat]
    BY DEF ShapeInv, Status
  <2> HIDE DEF Experts
  <2> QED BY <2>1, <2>2 DEF ShapeInv
<1>4. send' \in [Ranks -> [Experts -> Status]]
  <2>1. send' = [send EXCEPT ![r] = [e \in Experts |->
                [ctas   |-> send[r][e].ctas + 1,
                 routes |-> send[r][e].routes + Cardinality(ShareTo(r, s, e))]]]
    BY DEF Reserve, ShapeInv
  <2>2. stage[r] = "kernel" BY DEF Reserve, Step, ShapeInv
  <2>3. \A e \in Experts : Cardinality(ShareTo(r, s, e)) \in Nat
    BY <2>2, ShareFacts
  <2>4. \A e \in Experts : send[r][e] \in Status BY DEF ShapeInv
  <2>5. [e \in Experts |->
          [ctas   |-> send[r][e].ctas + 1,
           routes |-> send[r][e].routes + Cardinality(ShareTo(r, s, e))]]
          \in [Experts -> Status]
    BY <2>3, <2>4 DEF Status
  <2> QED BY <2>1, <2>5 DEF ShapeInv
<1>5. (\A q \in Ranks, t \in SMs : stage'[q] # "kernel" => pc'[q][t] = "done" /\ math'[q][t] = "done")
  BY <1>0, <1>1 DEF Reserve, ShapeInv, BarrierInv, Step
<1> QED BY <1>1, <1>2, <1>3, <1>4, <1>5 DEF ShapeInv

LEMMA ShapeEnqueue ==
  ASSUME ShapeInv, BarrierInv, NEW r \in Ranks, NEW s \in SMs, Enqueue(r, s)
  PROVE  ShapeInv'
<1>0. 0 \in SMs BY Sizes
<1>1. UNCHANGED <<plans, staged, send, recv, rsum, signal, gctr, ready, arrival, pool, combine, output, base, unsent, pull, math, scattered, launch, stage>>
  BY DEF Enqueue, host, counts, sync, results, roles
<1>2. pc' \in [Ranks -> [SMs -> Phases]]
  BY <1>0 DEF Enqueue, ShapeInv, Step, Phases
<1>3. queue' = [q \in Ranks |-> [x \in Local \X Ranks \X (0 .. MAX_RECV - 1) |-> queue'[q][x]]]
  BY <1>0 DEF Enqueue, ShapeInv
<1>4. (\A q \in Ranks, t \in SMs : stage'[q] # "kernel" => pc'[q][t] = "done" /\ math'[q][t] = "done")
  BY <1>0, <1>1 DEF Enqueue, ShapeInv, BarrierInv, Step
<1> QED BY <1>1, <1>2, <1>3, <1>4 DEF ShapeInv

LEMMA ShapeArrive ==
  ASSUME ShapeInv, BarrierInv, NEW r \in Ranks, NEW s \in SMs, Arrive(r, s)
  PROVE  ShapeInv'
<1>0. 0 \in SMs BY Sizes
<1>1. UNCHANGED <<plans, staged, send, queue, recv, rsum, signal, ready, arrival, pool, combine, output, base, unsent, pull, math, scattered, launch, stage>>
  BY DEF Arrive, host, counts, sync, results, roles
<1>2. pc' \in [Ranks -> [SMs -> Phases]]
  BY <1>0 DEF Arrive, ShapeInv, Step, Phases
<1>3. gctr' \in [Ranks -> [{0, 2, 3, 4} -> Nat]]
  BY <1>0 DEF Arrive, ShapeInv, NewCounters, CountIn
<1>4. (\A q \in Ranks, t \in SMs : stage'[q] # "kernel" => pc'[q][t] = "done" /\ math'[q][t] = "done")
  BY <1>0, <1>1 DEF Arrive, ShapeInv, BarrierInv, Step
<1> QED BY <1>1, <1>2, <1>3, <1>4 DEF ShapeInv

LEMMA ShapeGrid ==
  ASSUME ShapeInv, BarrierInv, NEW r \in Ranks, NEW s \in SMs, Grid(r, s)
  PROVE  ShapeInv'
<1>0. 0 \in SMs BY Sizes
<1>1. UNCHANGED <<plans, staged, send, queue, recv, rsum, signal, gctr, ready, arrival, pool, combine, output, base, unsent, pull, math, scattered, launch, stage>>
  BY DEF Grid, host, counts, sync, results, roles
<1>2. pc' \in [Ranks -> [SMs -> Phases]]
  BY <1>0 DEF Grid, ShapeInv, Step, Phases
<1>3. (\A q \in Ranks, t \in SMs : stage'[q] # "kernel" => pc'[q][t] = "done" /\ math'[q][t] = "done")
  BY <1>0, <1>1 DEF Grid, ShapeInv, BarrierInv, Step
<1> QED BY <1>1, <1>2, <1>3 DEF ShapeInv

LEMMA ShapePublish ==
  ASSUME ShapeInv, BarrierInv, NEW r \in Ranks, Publish(r)
  PROVE  ShapeInv'
<1>0. 0 \in SMs BY Sizes
<1>1. UNCHANGED <<plans, staged, send, queue, signal, gctr, ready, arrival, pool, combine, output, pc, base, pull, math, scattered, launch, stage>>
  BY DEF Publish, host, counts, sync, results, roles
<1>2. unsent' \in [Ranks -> SUBSET Experts]
  BY <1>0 DEF Publish, ShapeInv
<1>3. recv' \in [Ranks -> [Ranks \X Local -> Nat]]
  <2>1. PICK e \in Experts :
          recv' = [recv EXCEPT ![Owner(e)][<<r, LocalOf(e)>>] = send[r][e].routes]
    BY DEF Publish, ShapeInv
  <2>2. send[r][e].routes \in Nat BY DEF ShapeInv, Status
  <2>3. Owner(e) \in Ranks /\ LocalOf(e) \in Local BY Ownership
  <2>4. [recv[Owner(e)] EXCEPT ![<<r, LocalOf(e)>>] = send[r][e].routes]
          \in [Ranks \X Local -> Nat]
    BY <2>2, <2>3 DEF ShapeInv
  <2>5. recv' = [recv EXCEPT ![Owner(e)] =
                   [recv[Owner(e)] EXCEPT ![<<r, LocalOf(e)>>] = send[r][e].routes]]
    BY <2>1, <2>3 DEF ShapeInv
  <2> QED BY <2>3, <2>4, <2>5 DEF ShapeInv
<1>4. rsum' \in [Ranks -> [Local -> Status]]
  <2>1. PICK e \in Experts :
          rsum' = [rsum EXCEPT ![Owner(e)][LocalOf(e)] =
                     [ctas   |-> @.ctas + send[r][e].ctas,
                      routes |-> @.routes + send[r][e].routes]]
    BY DEF Publish, ShapeInv
  <2>2. send[r][e] \in Status BY DEF ShapeInv
  <2>3. Owner(e) \in Ranks /\ LocalOf(e) \in Local BY Ownership
  <2>4. rsum[Owner(e)][LocalOf(e)] \in Status BY <2>3 DEF ShapeInv
  <2>5. [ctas   |-> rsum[Owner(e)][LocalOf(e)].ctas + send[r][e].ctas,
         routes |-> rsum[Owner(e)][LocalOf(e)].routes + send[r][e].routes] \in Status
    BY <2>2, <2>4 DEF Status
  <2>6. rsum' = [rsum EXCEPT ![Owner(e)] = [rsum[Owner(e)] EXCEPT ![LocalOf(e)] =
                   [ctas   |-> rsum[Owner(e)][LocalOf(e)].ctas + send[r][e].ctas,
                    routes |-> rsum[Owner(e)][LocalOf(e)].routes + send[r][e].routes]]]
    BY <2>1, <2>3 DEF ShapeInv
  <2> HIDE DEF Status
  <2> QED BY <2>3, <2>5, <2>6 DEF ShapeInv
<1> QED BY <1>1, <1>2, <1>3, <1>4 DEF ShapeInv

LEMMA ShapeSignal ==
  ASSUME ShapeInv, BarrierInv, NEW r \in Ranks, Signal(r)
  PROVE  ShapeInv'
<1>0. 0 \in SMs BY Sizes
<1>1. UNCHANGED <<plans, staged, send, queue, recv, rsum, gctr, ready, arrival, pool, combine, output, base, unsent, pull, math, scattered, launch, stage>>
  BY DEF Signal, host, counts, sync, results, roles
<1>2. pc' \in [Ranks -> [SMs -> Phases]]
  BY <1>0 DEF Signal, ShapeInv, Step, Phases
<1>3. signal' \in [Ranks -> [0 .. 1 -> Nat]]
  BY <1>0 DEF Signal, ShapeInv, NewSignal, Signalled
<1>4. (\A q \in Ranks, t \in SMs : stage'[q] # "kernel" => pc'[q][t] = "done" /\ math'[q][t] = "done")
  BY <1>0, <1>1 DEF Signal, ShapeInv, BarrierInv, Step
<1> QED BY <1>1, <1>2, <1>3, <1>4 DEF ShapeInv

LEMMA ShapeAwait ==
  ASSUME ShapeInv, BarrierInv, NEW r \in Ranks, Await(r)
  PROVE  ShapeInv'
<1>0. 0 \in SMs BY Sizes
<1>1. UNCHANGED <<plans, staged, send, queue, recv, rsum, signal, gctr, ready, arrival, pool, combine, output, base, unsent, pull, math, scattered, launch, stage>>
  BY DEF Await, host, counts, sync, results, roles
<1>2. pc' \in [Ranks -> [SMs -> Phases]]
  BY <1>0 DEF Await, ShapeInv, Step, Phases
<1>3. (\A q \in Ranks, t \in SMs : stage'[q] # "kernel" => pc'[q][t] = "done" /\ math'[q][t] = "done")
  BY <1>0, <1>1 DEF Await, ShapeInv, BarrierInv, Step
<1> QED BY <1>1, <1>2, <1>3 DEF ShapeInv

LEMMA ShapeMeet ==
  ASSUME ShapeInv, BarrierInv, NEW r \in Ranks, NEW s \in SMs, Meet(r, s)
  PROVE  ShapeInv'
<1>0. 0 \in SMs BY Sizes
<1>1. UNCHANGED <<plans, staged, send, queue, recv, rsum, signal, ready, arrival, pool, combine, output, base, unsent, pull, math, scattered, launch, stage>>
  BY DEF Meet, host, counts, sync, results, roles
<1>2. pc' \in [Ranks -> [SMs -> Phases]]
  BY <1>0 DEF Meet, ShapeInv, Step, Phases
<1>3. gctr' \in [Ranks -> [{0, 2, 3, 4} -> Nat]]
  BY <1>0 DEF Meet, ShapeInv, NewCounters, CountIn
<1>4. (\A q \in Ranks, t \in SMs : stage'[q] # "kernel" => pc'[q][t] = "done" /\ math'[q][t] = "done")
  BY <1>0, <1>1 DEF Meet, ShapeInv, BarrierInv, Step
<1> QED BY <1>1, <1>2, <1>3, <1>4 DEF ShapeInv

LEMMA ShapeMet ==
  ASSUME ShapeInv, BarrierInv, NEW r \in Ranks, NEW s \in SMs, Met(r, s)
  PROVE  ShapeInv'
<1>0. 0 \in SMs BY Sizes
<1>1. UNCHANGED <<plans, staged, send, queue, recv, rsum, signal, gctr, arrival, pool, combine, output, base, unsent, math, scattered, launch, stage>>
  BY DEF Met, host, counts, sync, results, roles
<1>2. pc' \in [Ranks -> [SMs -> Phases]]
  BY <1>0 DEF Met, ShapeInv, Step, Phases
<1>3. ready' \in [Ranks -> [SMs -> Nat]]
  BY <1>0 DEF Met, ShapeInv
<1>4. pull' \in [Ranks -> [SMs -> [Streams -> [next : Nat, copied : BOOLEAN]]]]
  <2>1. [j \in Streams |-> [next |-> 2 * s + j, copied |-> FALSE]]
          \in [Streams -> [next : Nat, copied : BOOLEAN]]
    BY Sizes DEF Streams
  <2>2. pull' = [pull EXCEPT ![r][s] =
                   [j \in Streams |-> [next |-> 2 * s + j, copied |-> FALSE]]]
    BY DEF Met
  <2>3. pull \in [Ranks -> [SMs -> [Streams -> [next : Nat, copied : BOOLEAN]]]]
    BY DEF ShapeInv
  <2> QED BY <2>1, <2>2, <2>3
<1>5. (\A q \in Ranks, t \in SMs : stage'[q] # "kernel" => pc'[q][t] = "done" /\ math'[q][t] = "done")
  BY <1>0, <1>1 DEF Met, ShapeInv, BarrierInv, Step
<1> QED BY <1>1, <1>2, <1>3, <1>4, <1>5 DEF ShapeInv

LEMMA ShapeEndPull ==
  ASSUME ShapeInv, BarrierInv, NEW r \in Ranks, NEW s \in SMs, EndPull(r, s)
  PROVE  ShapeInv'
<1>0. 0 \in SMs BY Sizes
<1>1. UNCHANGED <<plans, staged, send, queue, recv, rsum, signal, gctr, ready, arrival, pool, combine, output, base, unsent, pull, math, scattered, launch, stage>>
  BY DEF EndPull, host, counts, sync, results, roles
<1>2. pc' \in [Ranks -> [SMs -> Phases]]
  BY <1>0 DEF EndPull, ShapeInv, Step, Phases
<1>3. (\A q \in Ranks, t \in SMs : stage'[q] # "kernel" => pc'[q][t] = "done" /\ math'[q][t] = "done")
  BY <1>0, <1>1 DEF EndPull, ShapeInv, BarrierInv, Step
<1> QED BY <1>1, <1>2, <1>3 DEF ShapeInv

LEMMA ShapeCopy ==
  ASSUME ShapeInv, BarrierInv, NEW r \in Ranks, NEW s \in SMs, NEW j \in Streams, Copy(r, s, j)
  PROVE  ShapeInv'
<1>0. 0 \in SMs BY Sizes
<1>1. UNCHANGED <<plans, staged, send, queue, recv, rsum, signal, gctr, ready, arrival, combine, output, pc, base, unsent, math, scattered, launch, stage>>
  BY DEF Copy, host, counts, sync, results, roles
<1>2. pool' = [q \in Ranks |-> [x \in Rows |-> pool'[q][x]]]
  <2>1. PICK x, y : pool' = [pool EXCEPT ![r][x] = y]
    BY DEF Copy
  <2>2. pool = [q \in Ranks |-> [z \in Rows |-> pool[q][z]]]
    BY DEF ShapeInv
  <2>3. pool' = [q \in Ranks |-> [z \in Rows |->
                   IF q = r /\ z = x THEN y ELSE pool[q][z]]]
    BY <2>1, <2>2
  <2> QED BY <2>3
<1>3. pull' \in [Ranks -> [SMs -> [Streams -> [next : Nat, copied : BOOLEAN]]]]
  <2>1. pull \in [Ranks -> [SMs -> [Streams -> [next : Nat, copied : BOOLEAN]]]]
    BY DEF ShapeInv
  <2> DEFINE z == pull[r][s][j]
  <2>2. z \in [next : Nat, copied : BOOLEAN] BY <2>1
  <2>3. [z EXCEPT !.copied = TRUE] \in [next : Nat, copied : BOOLEAN] BY <2>2
  <2>4. pull' = [pull EXCEPT ![r][s][j] = [z EXCEPT !.copied = TRUE]]
    BY <2>1 DEF Copy
  <2> HIDE DEF z
  <2>5. PICK w \in [next : Nat, copied : BOOLEAN] : pull' = [pull EXCEPT ![r][s][j] = w]
    BY <2>3, <2>4
  <2> QED BY <2>1, <2>5
<1> QED BY <1>1, <1>2, <1>3 DEF ShapeInv

LEMMA ShapeAnnounce ==
  ASSUME ShapeInv, BarrierInv, NEW r \in Ranks, NEW s \in SMs, NEW j \in Streams, Announce(r, s, j)
  PROVE  ShapeInv'
<1>0. 0 \in SMs BY Sizes
<1>1. UNCHANGED <<plans, staged, send, queue, recv, rsum, signal, gctr, ready, pool, combine, output, pc, base, unsent, math, scattered, launch, stage>>
  BY DEF Announce, host, counts, sync, results, roles
<1>2. arrival' \in [Ranks -> [Blocks -> Nat]]
  <2>1. PICK b : arrival' = [arrival EXCEPT ![r][b] = @ + 1]
    BY DEF Announce
  <2>2. arrival \in [Ranks -> [Blocks -> Nat]] BY DEF ShapeInv
  <2>3. arrival' = [q \in Ranks |-> [c \in Blocks |->
                      IF q = r /\ c = b THEN arrival[q][c] + 1 ELSE arrival[q][c]]]
    BY <2>1, <2>2
  <2> QED BY <2>2, <2>3
<1>3. pull' \in [Ranks -> [SMs -> [Streams -> [next : Nat, copied : BOOLEAN]]]]
  <2>1. pull' = [pull EXCEPT ![r][s][j] = [next |-> pull[r][s][j].next + 2 * NUM_SMS, copied |-> FALSE]]
    BY DEF Announce, ShapeInv
  <2>2. pull \in [Ranks -> [SMs -> [Streams -> [next : Nat, copied : BOOLEAN]]]]
    BY DEF ShapeInv
  <2>3. pull[r][s][j] \in [next : Nat, copied : BOOLEAN] BY <2>2
  <2>4. [next |-> pull[r][s][j].next + 2 * NUM_SMS, copied |-> FALSE] \in [next : Nat, copied : BOOLEAN]
    BY <2>3, Sizes
  <2> QED BY <2>1, <2>2, <2>4
<1> QED BY <1>1, <1>2, <1>3 DEF ShapeInv

LEMMA ShapeWaitReady ==
  ASSUME ShapeInv, BarrierInv, NEW r \in Ranks, NEW s \in SMs, WaitReady(r, s)
  PROVE  ShapeInv'
<1>0. 0 \in SMs BY Sizes
<1>1. UNCHANGED <<plans, staged, send, queue, recv, rsum, signal, gctr, ready, arrival, pool, combine, output, pc, base, unsent, pull, scattered, launch, stage>>
  BY DEF WaitReady, host, counts, sync, results, roles
<1>2. math' \in [Ranks -> [SMs -> MathPhases]]
  BY <1>0 DEF WaitReady, ShapeInv, MathStep, MathPhases
<1>3. (\A q \in Ranks, t \in SMs : stage'[q] # "kernel" => pc'[q][t] = "done" /\ math'[q][t] = "done")
  BY <1>0, <1>1 DEF WaitReady, ShapeInv, BarrierInv, MathStep
<1> QED BY <1>1, <1>2, <1>3 DEF ShapeInv

LEMMA ShapeScatter ==
  ASSUME ShapeInv, BarrierInv, NEW r \in Ranks, NEW s \in SMs, Scatter(r, s)
  PROVE  ShapeInv'
<1>0. 0 \in SMs BY Sizes
<1>1. UNCHANGED <<plans, staged, send, queue, recv, rsum, signal, gctr, ready, arrival, pool, output, pc, base, unsent, pull, math, launch, stage>>
  BY DEF Scatter, host, counts, sync, results, roles
<1>2. combine' = [q \in Ranks |-> [i \in Routes |-> combine'[q][i]]]
  BY <1>0 DEF Scatter, ShapeInv
<1>3. scattered' \in [Ranks -> SUBSET Blocks]
  BY <1>0 DEF Scatter, ShapeInv, Mine, Used
<1> QED BY <1>1, <1>2, <1>3 DEF ShapeInv

LEMMA ShapeMathArrive ==
  ASSUME ShapeInv, BarrierInv, NEW r \in Ranks, NEW s \in SMs, MathArrive(r, s)
  PROVE  ShapeInv'
<1>0. 0 \in SMs BY Sizes
<1>1. UNCHANGED <<plans, staged, send, queue, recv, rsum, signal, ready, arrival, pool, combine, output, pc, base, unsent, pull, scattered, launch, stage>>
  BY DEF MathArrive, host, counts, sync, results, roles
<1>2. math' \in [Ranks -> [SMs -> MathPhases]]
  BY <1>0 DEF MathArrive, ShapeInv, MathStep, MathPhases
<1>3. gctr' \in [Ranks -> [{0, 2, 3, 4} -> Nat]]
  BY <1>0 DEF MathArrive, ShapeInv, NewCounters, CountIn
<1>4. (\A q \in Ranks, t \in SMs : stage'[q] # "kernel" => pc'[q][t] = "done" /\ math'[q][t] = "done")
  BY <1>0, <1>1 DEF MathArrive, ShapeInv, BarrierInv, MathStep
<1> QED BY <1>1, <1>2, <1>3, <1>4 DEF ShapeInv

LEMMA ShapeMathGrid ==
  ASSUME ShapeInv, BarrierInv, NEW r \in Ranks, NEW s \in SMs, MathGrid(r, s)
  PROVE  ShapeInv'
<1>0. 0 \in SMs BY Sizes
<1>1. UNCHANGED <<plans, staged, send, queue, recv, rsum, gctr, ready, arrival, pool, combine, output, pc, base, unsent, pull, scattered, launch, stage>>
  BY DEF MathGrid, host, counts, sync, results, roles
<1>2. math' \in [Ranks -> [SMs -> MathPhases]]
  BY <1>0 DEF MathGrid, ShapeInv, MathStep, MathPhases
<1>3. signal' \in [Ranks -> [0 .. 1 -> Nat]]
  BY <1>0 DEF MathGrid, ShapeInv, NewSignal, Signalled
<1>4. (\A q \in Ranks, t \in SMs : stage'[q] # "kernel" => pc'[q][t] = "done" /\ math'[q][t] = "done")
  BY <1>0, <1>1 DEF MathGrid, ShapeInv, BarrierInv, MathStep
<1> QED BY <1>1, <1>2, <1>3, <1>4 DEF ShapeInv

LEMMA ShapeMathAwait ==
  ASSUME ShapeInv, BarrierInv, NEW r \in Ranks, MathAwait(r)
  PROVE  ShapeInv'
<1>0. 0 \in SMs BY Sizes
<1>1. UNCHANGED <<plans, staged, send, queue, recv, rsum, signal, gctr, ready, arrival, pool, combine, output, pc, base, unsent, pull, scattered, launch, stage>>
  BY DEF MathAwait, host, counts, sync, results, roles
<1>2. math' \in [Ranks -> [SMs -> MathPhases]]
  BY <1>0 DEF MathAwait, ShapeInv, MathStep, MathPhases
<1>3. (\A q \in Ranks, t \in SMs : stage'[q] # "kernel" => pc'[q][t] = "done" /\ math'[q][t] = "done")
  BY <1>0, <1>1 DEF MathAwait, ShapeInv, BarrierInv, MathStep
<1> QED BY <1>1, <1>2, <1>3 DEF ShapeInv

LEMMA ShapeMathMeet ==
  ASSUME ShapeInv, BarrierInv, NEW r \in Ranks, NEW s \in SMs, MathMeet(r, s)
  PROVE  ShapeInv'
<1>0. 0 \in SMs BY Sizes
<1>1. UNCHANGED <<plans, staged, send, queue, recv, rsum, signal, ready, arrival, pool, combine, output, pc, base, unsent, pull, scattered, launch, stage>>
  BY DEF MathMeet, host, counts, sync, results, roles
<1>2. math' \in [Ranks -> [SMs -> MathPhases]]
  BY <1>0 DEF MathMeet, ShapeInv, MathStep, MathPhases
<1>3. gctr' \in [Ranks -> [{0, 2, 3, 4} -> Nat]]
  BY <1>0 DEF MathMeet, ShapeInv, NewCounters, CountIn
<1>4. (\A q \in Ranks, t \in SMs : stage'[q] # "kernel" => pc'[q][t] = "done" /\ math'[q][t] = "done")
  BY <1>0, <1>1 DEF MathMeet, ShapeInv, BarrierInv, MathStep
<1> QED BY <1>1, <1>2, <1>3, <1>4 DEF ShapeInv

LEMMA ShapeCombine ==
  ASSUME ShapeInv, BarrierInv, NEW r \in Ranks, NEW s \in SMs, Combine(r, s)
  PROVE  ShapeInv'
<1>0. 0 \in SMs BY Sizes
<1>1. UNCHANGED <<plans, staged, send, queue, recv, rsum, signal, gctr, ready, arrival, pool, combine, pc, base, unsent, pull, scattered, launch, stage>>
  BY DEF Combine, host, counts, sync, results, roles
<1>2. math' \in [Ranks -> [SMs -> MathPhases]]
  BY <1>0 DEF Combine, ShapeInv, MathStep, MathPhases
<1>3. output' = [q \in Ranks |-> [t \in {Token(i) : i \in Routes} |-> output'[q][t]]]
  <2>1. PICK g : output' = [output EXCEPT ![r] = [t \in DOMAIN @ |-> g[t]]]
    <3> DEFINE h == [t \in DOMAIN output[r] |->
           IF t < NTOK(r) /\ t % NUM_SMS = s
           THEN {combine[r][k * NTOK(r) + t] :
                   k \in {k \in 0 .. TOPK - 1 : Topk(r)[t * TOPK + k] >= 0}}
           ELSE output[r][t]]
    <3>1. output' = [output EXCEPT ![r] = h] BY DEF Combine, ShapeInv
    <3>2. h = [t \in DOMAIN output[r] |-> h[t]] OBVIOUS
    <3> HIDE DEF h
    <3> QED BY <3>1, <3>2 DEF ShapeInv
  <2>2. output = [q \in Ranks |-> [t \in {Token(i) : i \in Routes} |-> output[q][t]]]
    BY DEF ShapeInv
  <2> QED BY <2>1, <2>2
<1>4. (\A q \in Ranks, t \in SMs : stage'[q] # "kernel" => pc'[q][t] = "done" /\ math'[q][t] = "done")
  BY <1>0, <1>1 DEF Combine, ShapeInv, BarrierInv, MathStep
<1> QED BY <1>1, <1>2, <1>3, <1>4 DEF ShapeInv

LEMMA ShapeStep ==
  ASSUME ShapeInv, BarrierInv, NEW r \in Ranks, NEW s \in SMs,
         Host(r) \/ Dispatch(r, s) \/ Math(r, s)
  PROVE  ShapeInv'
  BY ShapePrepare, ShapeStartKernel, ShapeEndKernel, ShapeClose, ShapeReserve, ShapeEnqueue, ShapeArrive, ShapeGrid, ShapePublish, ShapeSignal, ShapeAwait, ShapeMeet, ShapeMet, ShapeEndPull, ShapeCopy, ShapeAnnounce, ShapeWaitReady, ShapeScatter, ShapeMathArrive, ShapeMathGrid, ShapeMathAwait, ShapeMathMeet, ShapeCombine, Zenon
  DEF Host, Dispatch, Math

-----------------------------------------------------------------------------
(* The barriers between the programs of a rank.                             *)
PhaseCount(f, In) == Cardinality({x \in SMs : f[x] \in In})

LEMMA CountStep ==
  ASSUME NEW f, NEW g, NEW In, NEW s \in SMs, \A x \in SMs \ {s} : g[x] = f[x]
  PROVE  /\ PhaseCount(f, In) \in Nat
         /\ (f[s] \notin In /\ g[s] \in In) => PhaseCount(g, In) = PhaseCount(f, In) + 1
         /\ (f[s] \in In <=> g[s] \in In) => PhaseCount(g, In) = PhaseCount(f, In)
<1> DEFINE A == {x \in SMs : f[x] \in In}
           B == {x \in SMs : g[x] \in In}
<1>1. IsFiniteSet(A) BY FiniteSizes, FS_Subset
<1>2. Cardinality(A) \in Nat BY <1>1, FS_CardinalityType
<1>3. ASSUME f[s] \notin In, g[s] \in In PROVE Cardinality(B) = Cardinality(A) + 1
  <2>1. B = A \cup {s} /\ s \notin A BY <1>3
  <2> HIDE DEF A, B
  <2> QED BY <1>1, <2>1, FS_AddElement
<1>4. ASSUME f[s] \in In <=> g[s] \in In PROVE Cardinality(B) = Cardinality(A)
  <2>1. B = A BY <1>4
  <2> QED BY <2>1
<1> QED BY <1>2, <1>3, <1>4 DEF PhaseCount

\* The step of one program keeps a count, or adds one to it.
LEMMA CountSame ==
  ASSUME NEW f, NEW g, NEW In, NEW s \in SMs, \A x \in SMs \ {s} : g[x] = f[x],
         f[s] \in In <=> g[s] \in In
  PROVE  PhaseCount(g, In) = PhaseCount(f, In)
  BY CountStep

LEMMA CountMore ==
  ASSUME NEW f, NEW g, NEW In, NEW s \in SMs, \A x \in SMs \ {s} : g[x] = f[x],
         f[s] \notin In, g[s] \in In
  PROVE  PhaseCount(g, In) = PhaseCount(f, In) + 1
  BY CountStep

LEMMA CountEnds ==
  ASSUME NEW f, NEW In
  PROVE  /\ PhaseCount(f, In) \in Nat
         /\ PhaseCount(f, In) >= NUM_SMS => \A x \in SMs : f[x] \in In
         /\ (\A x \in SMs : f[x] \in In) => PhaseCount(f, In) = NUM_SMS
         /\ (\A x \in SMs : f[x] \notin In) => PhaseCount(f, In) = 0
<1> DEFINE A == {x \in SMs : f[x] \in In}
<1>1. /\ IsFiniteSet(A) /\ Cardinality(A) <= Cardinality(SMs)
      /\ Cardinality(A) = Cardinality(SMs) => A = SMs
  BY FiniteSizes, FS_Subset
<1>2. Cardinality(A) \in Nat BY <1>1, FS_CardinalityType
<1>3. ASSUME Cardinality(A) >= NUM_SMS PROVE A = SMs
  BY <1>1, <1>2, <1>3, FiniteSizes, Sizes
<1>4. ASSUME \A x \in SMs : f[x] \in In PROVE Cardinality(A) = NUM_SMS
  <2>1. A = SMs BY <1>4
  <2> QED BY <2>1, FiniteSizes
<1>5. ASSUME \A x \in SMs : f[x] \notin In PROVE Cardinality(A) = 0
  <2>1. A = {} BY <1>5
  <2> QED BY <2>1, FS_EmptySet
<1> QED BY <1>2, <1>3, <1>4, <1>5 DEF PhaseCount

\* A counter holds the number of programs that have counted themselves in.
CountersAgree(r) ==
  /\ gctr[r][0] = PhaseCount(pc[r], Arrived)
  /\ gctr[r][2] = PhaseCount(pc[r], Counted)
  /\ gctr[r][3] = PhaseCount(math[r], MathIn)
  /\ gctr[r][4] = PhaseCount(math[r], MathMetIn)

\* Who is through a barrier knows that all have come to it.
BarriersHold(r) ==
  /\ \A s, t \in SMs :
       /\ pc[r][s] \in Past => pc[r][t] \in Arrived
       /\ pc[r][s] \in Pulling => pc[r][t] \in Counted
       /\ math[r][s] \in MathPast => math[r][t] \in MathIn
       /\ math[r][s] = "done" => math[r][t] \in MathMetIn
  /\ \A s \in SMs :
       /\ pc[r][s] \in {"publish", "await"} => s = 0
       /\ math[r][s] = "await" => s = 0

\* What one role of a program hands over to the other.
HandOver(r) ==
  /\ \A s \in SMs :
       /\ ready[r][s] >= 1 => pc[r][s] \in Pulling
       /\ math[r][s] # "wait" => pc[r][s] \in Pulling
  /\ pc[r][0] \in Announced => unsent[r] = {}
  /\ unsent[r] # Experts => pc[r][0] \in Past

PhaseInv(r) ==
  /\ InKernel(r) => CountersAgree(r) /\ BarriersHold(r) /\ HandOver(r)
  /\ stage[r] = "open" => /\ \A i \in {0, 2, 3, 4} : gctr[r][i] = 0
                          /\ \A s \in SMs : ready[r][s] = 0
  /\ ~InKernel(r) => unsent[r] = {}

LEMMA PhaseInit ==
  ASSUME Init, NEW r \in Ranks PROVE PhaseInv(r)
BY DEF Init, PhaseInv, InKernel

LEMMA PhaseFrame ==
  ASSUME NEW q \in Ranks, PhaseInv(q), Own(q)' = Own(q) PROVE PhaseInv(q)'
BY DEF Own, PhaseInv, InKernel, CountersAgree, BarriersHold, HandOver

LEMMA PhasePrepare ==
  ASSUME ShapeInv, BarrierInv, NEW r \in Ranks, PhaseInv(r), Prepare(r)
  PROVE  PhaseInv(r)'
<1>1. stage'[r] = "open" /\ unsent' = unsent /\ ~InKernel(r)
  BY DEF Prepare, Goto, BarrierInv, InKernel, roles
<1>2. \A i \in {0, 2, 3, 4} : gctr'[r][i] = 0
  BY DEF Prepare, NewCounters, ShapeInv
<1>3. \A s \in SMs : ready'[r][s] = 0
  BY DEF Prepare, ShapeInv
<1> QED BY <1>1, <1>2, <1>3 DEF PhaseInv, InKernel

LEMMA PhaseStartKernel ==
  ASSUME ShapeInv, BarrierInv, NEW r \in Ranks, PhaseInv(r), StartKernel(r)
  PROVE  PhaseInv(r)'
<1>1. /\ stage[r] = "open" /\ stage'[r] = "kernel" /\ unsent'[r] = Experts
      /\ \A s \in SMs : pc'[r][s] = "reserve" /\ math'[r][s] = "wait"
      /\ gctr' = gctr /\ ready' = ready
  BY DEF StartKernel, Goto, BarrierInv, ShapeInv, sync
<1>2. \A i \in {0, 2, 3, 4} : gctr'[r][i] = 0
  BY <1>1 DEF PhaseInv
<1>3. \A s \in SMs : ready'[r][s] = 0
  BY <1>1 DEF PhaseInv
<1>4. /\ PhaseCount(pc'[r], Arrived) = 0 /\ PhaseCount(pc'[r], Counted) = 0
  BY <1>1, CountEnds DEF Arrived, Counted
<1>5. /\ PhaseCount(math'[r], MathIn) = 0 /\ PhaseCount(math'[r], MathMetIn) = 0
  BY <1>1, CountEnds DEF MathIn, MathMetIn
<1>6. CountersAgree(r)' BY <1>2, <1>4, <1>5 DEF CountersAgree
<1>7. BarriersHold(r)'
  BY <1>1 DEF BarriersHold, Past, Arrived, Pulling, MathPast, MathIn
<1>8. HandOver(r)'
  <2>1. 0 \in SMs BY Sizes
  <2>2. pc'[r][0] \notin Announced BY <1>1, <2>1 DEF Announced, Past, Arrived
  <2> QED BY <1>1, <1>3, <2>2 DEF HandOver
<1> QED BY <1>1, <1>6, <1>7, <1>8 DEF PhaseInv, InKernel

LEMMA PhaseEndKernel ==
  ASSUME ShapeInv, BarrierInv, NEW r \in Ranks, PhaseInv(r), EndKernel(r)
  PROVE  PhaseInv(r)'
<1>1. /\ stage[r] = "kernel" /\ stage'[r] = "close" /\ unsent' = unsent
      /\ \A s \in SMs : pc[r][s] = "done"
  BY DEF EndKernel, Goto, BarrierInv, roles
<1>2. unsent[r] = {}
  BY <1>1, Sizes DEF PhaseInv, InKernel, HandOver, Announced, Past, Arrived, Phases
<1> QED BY <1>1, <1>2 DEF PhaseInv, InKernel

LEMMA PhaseClose ==
  ASSUME ShapeInv, BarrierInv, NEW r \in Ranks, PhaseInv(r), Close(r)
  PROVE  PhaseInv(r)'
BY DEF Close, Goto, BarrierInv, roles, PhaseInv, InKernel

LEMMA PhaseReserve ==
  ASSUME ShapeInv, BarrierInv, NEW r \in Ranks, NEW s \in SMs, PhaseInv(r), Reserve(r, s)
  PROVE  PhaseInv(r)'
<1>1. UNCHANGED <<stage, math, gctr, ready, unsent>>
  BY DEF Reserve, host, counts, sync, results, roles
<1>0. 0 \in SMs BY Sizes
<1>2. /\ pc[r][s] = "reserve" /\ pc'[r][s] = "enqueue"
      /\ \A x \in SMs \ {s} : pc'[r][x] = pc[r][x]
      /\ stage[r] = "kernel"
  BY <1>0 DEF Reserve, Step, ShapeInv, Phases
<1>3. \A i \in {0, 2, 3, 4} : gctr'[r][i] = gctr[r][i]
  BY <1>1
<1>4. /\ pc[r][s] \in Arrived => pc'[r][s] \in Arrived
      /\ pc[r][s] \in Counted => pc'[r][s] \in Counted
  BY <1>2 DEF Phases, Arrived, Past, Announced, Counted, Pulling
<1>5. CountersAgree(r)'
  <2>1. PhaseCount(pc'[r], Arrived) = PhaseCount(pc[r], Arrived)
    <3>1. pc[r][s] \in Arrived <=> pc'[r][s] \in Arrived BY <1>2 DEF Phases, Arrived, Past, Announced, Counted, Pulling
    <3> QED BY <1>0, <1>2, <3>1, CountSame
  <2>2. PhaseCount(pc'[r], Counted) = PhaseCount(pc[r], Counted)
    <3>1. pc[r][s] \in Counted <=> pc'[r][s] \in Counted BY <1>2 DEF Phases, Arrived, Past, Announced, Counted, Pulling
    <3> QED BY <1>0, <1>2, <3>1, CountSame
  <2> QED BY <1>1, <1>2, <1>3, <2>1, <2>2 DEF PhaseInv, InKernel, CountersAgree
<1>6. TRUE OBVIOUS
<1>7. BarriersHold(r) /\ HandOver(r) BY <1>2 DEF PhaseInv, InKernel
<1>8. BarriersHold(r)'
  BY <1>0, <1>1, <1>2, <1>4, <1>6, <1>7 DEF BarriersHold, Phases, Arrived, Past, Announced, Counted, Pulling
<1>9. HandOver(r)'
  BY <1>0, <1>1, <1>2, <1>7 DEF HandOver, Phases, Arrived, Past, Announced, Counted, Pulling
<1> QED BY <1>1, <1>2, <1>5, <1>8, <1>9 DEF PhaseInv, InKernel

LEMMA PhaseEnqueue ==
  ASSUME ShapeInv, BarrierInv, NEW r \in Ranks, NEW s \in SMs, PhaseInv(r), Enqueue(r, s)
  PROVE  PhaseInv(r)'
<1>1. UNCHANGED <<stage, math, gctr, ready, unsent>>
  BY DEF Enqueue, host, counts, sync, results, roles
<1>0. 0 \in SMs BY Sizes
<1>2. /\ pc[r][s] = "enqueue" /\ pc'[r][s] = "arrive"
      /\ \A x \in SMs \ {s} : pc'[r][x] = pc[r][x]
      /\ stage[r] = "kernel"
  BY <1>0 DEF Enqueue, Step, ShapeInv, Phases
<1>3. \A i \in {0, 2, 3, 4} : gctr'[r][i] = gctr[r][i]
  BY <1>1
<1>4. /\ pc[r][s] \in Arrived => pc'[r][s] \in Arrived
      /\ pc[r][s] \in Counted => pc'[r][s] \in Counted
  BY <1>2 DEF Phases, Arrived, Past, Announced, Counted, Pulling
<1>5. CountersAgree(r)'
  <2>1. PhaseCount(pc'[r], Arrived) = PhaseCount(pc[r], Arrived)
    <3>1. pc[r][s] \in Arrived <=> pc'[r][s] \in Arrived BY <1>2 DEF Phases, Arrived, Past, Announced, Counted, Pulling
    <3> QED BY <1>0, <1>2, <3>1, CountSame
  <2>2. PhaseCount(pc'[r], Counted) = PhaseCount(pc[r], Counted)
    <3>1. pc[r][s] \in Counted <=> pc'[r][s] \in Counted BY <1>2 DEF Phases, Arrived, Past, Announced, Counted, Pulling
    <3> QED BY <1>0, <1>2, <3>1, CountSame
  <2> QED BY <1>1, <1>2, <1>3, <2>1, <2>2 DEF PhaseInv, InKernel, CountersAgree
<1>6. TRUE OBVIOUS
<1>7. BarriersHold(r) /\ HandOver(r) BY <1>2 DEF PhaseInv, InKernel
<1>8. BarriersHold(r)'
  BY <1>0, <1>1, <1>2, <1>4, <1>6, <1>7 DEF BarriersHold, Phases, Arrived, Past, Announced, Counted, Pulling
<1>9. HandOver(r)'
  BY <1>0, <1>1, <1>2, <1>7 DEF HandOver, Phases, Arrived, Past, Announced, Counted, Pulling
<1> QED BY <1>1, <1>2, <1>5, <1>8, <1>9 DEF PhaseInv, InKernel

LEMMA PhaseArrive ==
  ASSUME ShapeInv, BarrierInv, NEW r \in Ranks, NEW s \in SMs, PhaseInv(r), Arrive(r, s)
  PROVE  PhaseInv(r)'
<1>1. UNCHANGED <<stage, math, ready, unsent>>
  BY DEF Arrive, host, counts, sync, results, roles
<1>0. 0 \in SMs BY Sizes
<1>2. /\ pc[r][s] = "arrive" /\ pc'[r][s] = "grid"
      /\ \A x \in SMs \ {s} : pc'[r][x] = pc[r][x]
      /\ stage[r] = "kernel"
  BY <1>0 DEF Arrive, Step, ShapeInv, Phases
<1>3. /\ gctr'[r][0] = gctr[r][0] + 1
      /\ \A i \in {0, 2, 3, 4} \ {0} : gctr'[r][i] = gctr[r][i]
  BY DEF Arrive, CountIn, ShapeInv
<1>4. /\ pc[r][s] \in Arrived => pc'[r][s] \in Arrived
      /\ pc[r][s] \in Counted => pc'[r][s] \in Counted
  BY <1>2 DEF Phases, Arrived, Past, Announced, Counted, Pulling
<1>5. CountersAgree(r)'
  <2>1. PhaseCount(pc'[r], Arrived) = PhaseCount(pc[r], Arrived) + 1
    <3>1. pc[r][s] \notin Arrived /\ pc'[r][s] \in Arrived BY <1>2 DEF Phases, Arrived, Past, Announced, Counted, Pulling
    <3> QED BY <1>0, <1>2, <3>1, CountMore
  <2>2. PhaseCount(pc'[r], Counted) = PhaseCount(pc[r], Counted)
    <3>1. pc[r][s] \in Counted <=> pc'[r][s] \in Counted BY <1>2 DEF Phases, Arrived, Past, Announced, Counted, Pulling
    <3> QED BY <1>0, <1>2, <3>1, CountSame
  <2> QED BY <1>1, <1>2, <1>3, <2>1, <2>2 DEF PhaseInv, InKernel, CountersAgree
<1>6. TRUE OBVIOUS
<1>7. BarriersHold(r) /\ HandOver(r) BY <1>2 DEF PhaseInv, InKernel
<1>8. BarriersHold(r)'
  BY <1>0, <1>1, <1>2, <1>4, <1>6, <1>7 DEF BarriersHold, Phases, Arrived, Past, Announced, Counted, Pulling
<1>9. HandOver(r)'
  BY <1>0, <1>1, <1>2, <1>7 DEF HandOver, Phases, Arrived, Past, Announced, Counted, Pulling
<1> QED BY <1>1, <1>2, <1>5, <1>8, <1>9 DEF PhaseInv, InKernel

LEMMA PhaseGrid ==
  ASSUME ShapeInv, BarrierInv, NEW r \in Ranks, NEW s \in SMs, PhaseInv(r), Grid(r, s)
  PROVE  PhaseInv(r)'
<1>1. UNCHANGED <<stage, math, gctr, ready, unsent>>
  BY DEF Grid, host, counts, sync, results, roles
<1>0. 0 \in SMs BY Sizes
<1>2. /\ pc[r][s] = "grid" /\ pc'[r][s] = (IF s = 0 THEN "publish" ELSE "meet")
      /\ \A x \in SMs \ {s} : pc'[r][x] = pc[r][x]
      /\ stage[r] = "kernel"
  BY <1>0 DEF Grid, Step, ShapeInv, Phases
<1>3. \A i \in {0, 2, 3, 4} : gctr'[r][i] = gctr[r][i]
  BY <1>1
<1>4. /\ pc[r][s] \in Arrived => pc'[r][s] \in Arrived
      /\ pc[r][s] \in Counted => pc'[r][s] \in Counted
  BY <1>2 DEF Phases, Arrived, Past, Announced, Counted, Pulling
<1>5. CountersAgree(r)'
  <2>1. PhaseCount(pc'[r], Arrived) = PhaseCount(pc[r], Arrived)
    <3>1. pc[r][s] \in Arrived <=> pc'[r][s] \in Arrived BY <1>2 DEF Phases, Arrived, Past, Announced, Counted, Pulling
    <3>2. \A x \in SMs \ {s} : pc'[r][x] = pc[r][x] BY <1>2
    <3>3. PICK f, g : f = pc[r] /\ g = pc'[r] OBVIOUS
    <3>4. (f[s] \in Arrived <=> g[s] \in Arrived) /\ \A x \in SMs \ {s} : g[x] = f[x]
      BY <3>1, <3>2, <3>3
    <3>5. PhaseCount(g, Arrived) = PhaseCount(f, Arrived) BY <3>4, CountStep
    <3> QED BY <3>3, <3>5
  <2>2. PhaseCount(pc'[r], Counted) = PhaseCount(pc[r], Counted)
    <3>1. pc[r][s] \in Counted <=> pc'[r][s] \in Counted BY <1>2 DEF Phases, Arrived, Past, Announced, Counted, Pulling
    <3>2. \A x \in SMs \ {s} : pc'[r][x] = pc[r][x] BY <1>2
    <3>3. PICK f, g : f = pc[r] /\ g = pc'[r] OBVIOUS
    <3>4. (f[s] \in Counted <=> g[s] \in Counted) /\ \A x \in SMs \ {s} : g[x] = f[x]
      BY <3>1, <3>2, <3>3
    <3>5. PhaseCount(g, Counted) = PhaseCount(f, Counted) BY <3>4, CountStep
    <3> QED BY <3>3, <3>5
  <2> QED BY <1>1, <1>2, <1>3, <2>1, <2>2 DEF PhaseInv, InKernel, CountersAgree
<1>6. \A x \in SMs : pc[r][x] \in Arrived
  <2>1. gctr[r][0] >= NUM_SMS BY DEF Grid, AllIn
  <2> QED BY <1>2, <2>1, CountEnds DEF PhaseInv, InKernel, CountersAgree
<1>7. BarriersHold(r) /\ HandOver(r) BY <1>2 DEF PhaseInv, InKernel
<1>8. BarriersHold(r)'
  BY <1>0, <1>1, <1>2, <1>4, <1>6, <1>7 DEF BarriersHold, Phases, Arrived, Past, Announced, Counted, Pulling
<1>9. HandOver(r)'
  BY <1>0, <1>1, <1>2, <1>7 DEF HandOver, Phases, Arrived, Past, Announced, Counted, Pulling
<1> QED BY <1>1, <1>2, <1>5, <1>8, <1>9 DEF PhaseInv, InKernel

LEMMA PhasePublish ==
  ASSUME ShapeInv, BarrierInv, NEW r \in Ranks, PhaseInv(r), Publish(r)
  PROVE  PhaseInv(r)'
<1>1. UNCHANGED <<stage, pc, math, gctr, ready>>
  BY DEF Publish, host, counts, sync, results, roles
<1>0. 0 \in SMs BY Sizes
<1>2. pc[r][0] = "publish" /\ stage[r] = "kernel"
  BY <1>0 DEF Publish, ShapeInv
<1>3. CountersAgree(r)' /\ BarriersHold(r)'
  BY <1>1, <1>2 DEF PhaseInv, InKernel, CountersAgree, BarriersHold
<1>4. HandOver(r)'
  BY <1>0, <1>1, <1>2 DEF PhaseInv, InKernel, HandOver, Announced, Past, Arrived, Phases
<1> QED BY <1>1, <1>2, <1>3, <1>4 DEF PhaseInv, InKernel

LEMMA PhaseSignal ==
  ASSUME ShapeInv, BarrierInv, NEW r \in Ranks, PhaseInv(r), Signal(r)
  PROVE  PhaseInv(r)'
<1>1. UNCHANGED <<stage, math, gctr, ready, unsent>>
  BY DEF Signal, host, counts, sync, results, roles
<1>0. 0 \in SMs BY Sizes
<1>2. /\ pc[r][0] = "publish" /\ pc'[r][0] = "await"
      /\ \A x \in SMs \ {0} : pc'[r][x] = pc[r][x]
      /\ stage[r] = "kernel"
  BY <1>0 DEF Signal, Step, ShapeInv, Phases
<1>3. \A i \in {0, 2, 3, 4} : gctr'[r][i] = gctr[r][i]
  BY <1>1
<1>4. /\ pc[r][0] \in Arrived => pc'[r][0] \in Arrived
      /\ pc[r][0] \in Counted => pc'[r][0] \in Counted
  BY <1>2 DEF Phases, Arrived, Past, Announced, Counted, Pulling
<1>5. CountersAgree(r)'
  <2>1. PhaseCount(pc'[r], Arrived) = PhaseCount(pc[r], Arrived)
    <3>1. pc[r][0] \in Arrived <=> pc'[r][0] \in Arrived BY <1>2 DEF Phases, Arrived, Past, Announced, Counted, Pulling
    <3> QED BY <1>0, <1>2, <3>1, CountSame
  <2>2. PhaseCount(pc'[r], Counted) = PhaseCount(pc[r], Counted)
    <3>1. pc[r][0] \in Counted <=> pc'[r][0] \in Counted BY <1>2 DEF Phases, Arrived, Past, Announced, Counted, Pulling
    <3> QED BY <1>0, <1>2, <3>1, CountSame
  <2> QED BY <1>1, <1>2, <1>3, <2>1, <2>2 DEF PhaseInv, InKernel, CountersAgree
<1>6. TRUE OBVIOUS
<1>7. BarriersHold(r) /\ HandOver(r) BY <1>2 DEF PhaseInv, InKernel
<1>8. BarriersHold(r)'
  BY <1>0, <1>1, <1>2, <1>4, <1>6, <1>7 DEF BarriersHold, Phases, Arrived, Past, Announced, Counted, Pulling
<1>9. HandOver(r)'
  <2>1. unsent[r] = {} BY DEF Signal
  <2> QED BY <1>0, <1>1, <1>2, <1>7, <2>1 DEF HandOver, Phases, Arrived, Past, Announced, Counted, Pulling
<1> QED BY <1>1, <1>2, <1>5, <1>8, <1>9 DEF PhaseInv, InKernel

LEMMA PhaseAwait ==
  ASSUME ShapeInv, BarrierInv, NEW r \in Ranks, PhaseInv(r), Await(r)
  PROVE  PhaseInv(r)'
<1>1. UNCHANGED <<stage, math, gctr, ready, unsent>>
  BY DEF Await, host, counts, sync, results, roles
<1>0. 0 \in SMs BY Sizes
<1>2. /\ pc[r][0] = "await" /\ pc'[r][0] = "meet"
      /\ \A x \in SMs \ {0} : pc'[r][x] = pc[r][x]
      /\ stage[r] = "kernel"
  BY <1>0 DEF Await, Step, ShapeInv, Phases
<1>3. \A i \in {0, 2, 3, 4} : gctr'[r][i] = gctr[r][i]
  BY <1>1
<1>4. /\ pc[r][0] \in Arrived => pc'[r][0] \in Arrived
      /\ pc[r][0] \in Counted => pc'[r][0] \in Counted
  BY <1>2 DEF Phases, Arrived, Past, Announced, Counted, Pulling
<1>5. CountersAgree(r)'
  <2>1. PhaseCount(pc'[r], Arrived) = PhaseCount(pc[r], Arrived)
    <3>1. pc[r][0] \in Arrived <=> pc'[r][0] \in Arrived BY <1>2 DEF Phases, Arrived, Past, Announced, Counted, Pulling
    <3> QED BY <1>0, <1>2, <3>1, CountSame
  <2>2. PhaseCount(pc'[r], Counted) = PhaseCount(pc[r], Counted)
    <3>1. pc[r][0] \in Counted <=> pc'[r][0] \in Counted BY <1>2 DEF Phases, Arrived, Past, Announced, Counted, Pulling
    <3> QED BY <1>0, <1>2, <3>1, CountSame
  <2> QED BY <1>1, <1>2, <1>3, <2>1, <2>2 DEF PhaseInv, InKernel, CountersAgree
<1>6. TRUE OBVIOUS
<1>7. BarriersHold(r) /\ HandOver(r) BY <1>2 DEF PhaseInv, InKernel
<1>8. BarriersHold(r)'
  BY <1>0, <1>1, <1>2, <1>4, <1>6, <1>7 DEF BarriersHold, Phases, Arrived, Past, Announced, Counted, Pulling
<1>9. HandOver(r)'
  BY <1>0, <1>1, <1>2, <1>7 DEF HandOver, Phases, Arrived, Past, Announced, Counted, Pulling
<1> QED BY <1>1, <1>2, <1>5, <1>8, <1>9 DEF PhaseInv, InKernel

LEMMA PhaseMeet ==
  ASSUME ShapeInv, BarrierInv, NEW r \in Ranks, NEW s \in SMs, PhaseInv(r), Meet(r, s)
  PROVE  PhaseInv(r)'
<1>1. UNCHANGED <<stage, math, ready, unsent>>
  BY DEF Meet, host, counts, sync, results, roles
<1>0. 0 \in SMs BY Sizes
<1>2. /\ pc[r][s] = "meet" /\ pc'[r][s] = "met"
      /\ \A x \in SMs \ {s} : pc'[r][x] = pc[r][x]
      /\ stage[r] = "kernel"
  BY <1>0 DEF Meet, Step, ShapeInv, Phases
<1>3. /\ gctr'[r][2] = gctr[r][2] + 1
      /\ \A i \in {0, 2, 3, 4} \ {2} : gctr'[r][i] = gctr[r][i]
  BY DEF Meet, CountIn, ShapeInv
<1>4. /\ pc[r][s] \in Arrived => pc'[r][s] \in Arrived
      /\ pc[r][s] \in Counted => pc'[r][s] \in Counted
  BY <1>2 DEF Phases, Arrived, Past, Announced, Counted, Pulling
<1>5. CountersAgree(r)'
  <2>1. PhaseCount(pc'[r], Arrived) = PhaseCount(pc[r], Arrived)
    <3>1. pc[r][s] \in Arrived <=> pc'[r][s] \in Arrived BY <1>2 DEF Phases, Arrived, Past, Announced, Counted, Pulling
    <3> QED BY <1>0, <1>2, <3>1, CountSame
  <2>2. PhaseCount(pc'[r], Counted) = PhaseCount(pc[r], Counted) + 1
    <3>1. pc[r][s] \notin Counted /\ pc'[r][s] \in Counted BY <1>2 DEF Phases, Arrived, Past, Announced, Counted, Pulling
    <3> QED BY <1>0, <1>2, <3>1, CountMore
  <2> QED BY <1>1, <1>2, <1>3, <2>1, <2>2 DEF PhaseInv, InKernel, CountersAgree
<1>6. TRUE OBVIOUS
<1>7. BarriersHold(r) /\ HandOver(r) BY <1>2 DEF PhaseInv, InKernel
<1>8. BarriersHold(r)'
  BY <1>0, <1>1, <1>2, <1>4, <1>6, <1>7 DEF BarriersHold, Phases, Arrived, Past, Announced, Counted, Pulling
<1>9. HandOver(r)'
  BY <1>0, <1>1, <1>2, <1>7 DEF HandOver, Phases, Arrived, Past, Announced, Counted, Pulling
<1> QED BY <1>1, <1>2, <1>5, <1>8, <1>9 DEF PhaseInv, InKernel

LEMMA PhaseMet ==
  ASSUME ShapeInv, BarrierInv, NEW r \in Ranks, NEW s \in SMs, PhaseInv(r), Met(r, s)
  PROVE  PhaseInv(r)'
<1>1. UNCHANGED <<stage, math, gctr, unsent>>
  BY DEF Met, host, counts, sync, results, roles
<1>0. 0 \in SMs BY Sizes
<1>2. /\ pc[r][s] = "met" /\ pc'[r][s] = "pull"
      /\ \A x \in SMs \ {s} : pc'[r][x] = pc[r][x]
      /\ stage[r] = "kernel"
  BY <1>0 DEF Met, Step, ShapeInv, Phases
<1>3. \A i \in {0, 2, 3, 4} : gctr'[r][i] = gctr[r][i]
  BY <1>1
<1>4. /\ pc[r][s] \in Arrived => pc'[r][s] \in Arrived
      /\ pc[r][s] \in Counted => pc'[r][s] \in Counted
  BY <1>2 DEF Phases, Arrived, Past, Announced, Counted, Pulling
<1>5. CountersAgree(r)'
  <2>1. PhaseCount(pc'[r], Arrived) = PhaseCount(pc[r], Arrived)
    <3>1. pc[r][s] \in Arrived <=> pc'[r][s] \in Arrived BY <1>2 DEF Phases, Arrived, Past, Announced, Counted, Pulling
    <3> QED BY <1>0, <1>2, <3>1, CountSame
  <2>2. PhaseCount(pc'[r], Counted) = PhaseCount(pc[r], Counted)
    <3>1. pc[r][s] \in Counted <=> pc'[r][s] \in Counted BY <1>2 DEF Phases, Arrived, Past, Announced, Counted, Pulling
    <3> QED BY <1>0, <1>2, <3>1, CountSame
  <2> QED BY <1>1, <1>2, <1>3, <2>1, <2>2 DEF PhaseInv, InKernel, CountersAgree
<1>6. \A x \in SMs : pc[r][x] \in Counted
  <2>1. gctr[r][2] >= NUM_SMS BY DEF Met, AllIn
  <2> QED BY <1>2, <2>1, CountEnds DEF PhaseInv, InKernel, CountersAgree
<1>7. BarriersHold(r) /\ HandOver(r) BY <1>2 DEF PhaseInv, InKernel
<1>8. BarriersHold(r)'
  BY <1>0, <1>1, <1>2, <1>4, <1>6, <1>7 DEF BarriersHold, Phases, Arrived, Past, Announced, Counted, Pulling
<1>9. HandOver(r)'
  <2>1. \A x \in SMs \ {s} : ready'[r][x] = ready[r][x] BY DEF Met, ShapeInv
  <2> QED BY <1>0, <1>1, <1>2, <1>7, <2>1 DEF HandOver, Phases, Arrived, Past, Announced, Counted, Pulling
<1> QED BY <1>1, <1>2, <1>5, <1>8, <1>9 DEF PhaseInv, InKernel

LEMMA PhaseEndPull ==
  ASSUME ShapeInv, BarrierInv, NEW r \in Ranks, NEW s \in SMs, PhaseInv(r), EndPull(r, s)
  PROVE  PhaseInv(r)'
<1>1. UNCHANGED <<stage, math, gctr, ready, unsent>>
  BY DEF EndPull, host, counts, sync, results, roles
<1>0. 0 \in SMs BY Sizes
<1>2. /\ pc[r][s] = "pull" /\ pc'[r][s] = "done"
      /\ \A x \in SMs \ {s} : pc'[r][x] = pc[r][x]
      /\ stage[r] = "kernel"
  BY <1>0 DEF EndPull, Step, ShapeInv, Phases
<1>3. \A i \in {0, 2, 3, 4} : gctr'[r][i] = gctr[r][i]
  BY <1>1
<1>4. /\ pc[r][s] \in Arrived => pc'[r][s] \in Arrived
      /\ pc[r][s] \in Counted => pc'[r][s] \in Counted
  BY <1>2 DEF Phases, Arrived, Past, Announced, Counted, Pulling
<1>5. CountersAgree(r)'
  <2>1. PhaseCount(pc'[r], Arrived) = PhaseCount(pc[r], Arrived)
    <3>1. pc[r][s] \in Arrived <=> pc'[r][s] \in Arrived BY <1>2 DEF Phases, Arrived, Past, Announced, Counted, Pulling
    <3> QED BY <1>0, <1>2, <3>1, CountSame
  <2>2. PhaseCount(pc'[r], Counted) = PhaseCount(pc[r], Counted)
    <3>1. pc[r][s] \in Counted <=> pc'[r][s] \in Counted BY <1>2 DEF Phases, Arrived, Past, Announced, Counted, Pulling
    <3> QED BY <1>0, <1>2, <3>1, CountSame
  <2> QED BY <1>1, <1>2, <1>3, <2>1, <2>2 DEF PhaseInv, InKernel, CountersAgree
<1>6. TRUE OBVIOUS
<1>7. BarriersHold(r) /\ HandOver(r) BY <1>2 DEF PhaseInv, InKernel
<1>8. BarriersHold(r)'
  BY <1>0, <1>1, <1>2, <1>4, <1>6, <1>7 DEF BarriersHold, Phases, Arrived, Past, Announced, Counted, Pulling
<1>9. HandOver(r)'
  BY <1>0, <1>1, <1>2, <1>7 DEF HandOver, Phases, Arrived, Past, Announced, Counted, Pulling
<1> QED BY <1>1, <1>2, <1>5, <1>8, <1>9 DEF PhaseInv, InKernel

LEMMA PhaseCopy ==
  ASSUME ShapeInv, BarrierInv, NEW r \in Ranks, NEW s \in SMs, NEW j \in Streams, PhaseInv(r), Copy(r, s, j)
  PROVE  PhaseInv(r)'
<1>1. UNCHANGED <<stage, pc, math, gctr, ready, unsent>>
  BY DEF Copy, host, counts, sync, results, roles
<1> QED BY <1>1 DEF PhaseInv, InKernel, CountersAgree, BarriersHold, HandOver

LEMMA PhaseAnnounce ==
  ASSUME ShapeInv, BarrierInv, NEW r \in Ranks, NEW s \in SMs, NEW j \in Streams, PhaseInv(r), Announce(r, s, j)
  PROVE  PhaseInv(r)'
<1>1. UNCHANGED <<stage, pc, math, gctr, ready, unsent>>
  BY DEF Announce, host, counts, sync, results, roles
<1> QED BY <1>1 DEF PhaseInv, InKernel, CountersAgree, BarriersHold, HandOver

LEMMA PhaseWaitReady ==
  ASSUME ShapeInv, BarrierInv, NEW r \in Ranks, NEW s \in SMs, PhaseInv(r), WaitReady(r, s)
  PROVE  PhaseInv(r)'
<1>1. UNCHANGED <<stage, pc, gctr, ready, unsent>>
  BY DEF WaitReady, host, counts, sync, results, roles
<1>0. 0 \in SMs BY Sizes
<1>2. /\ math[r][s] = "wait" /\ math'[r][s] = "work"
      /\ \A x \in SMs \ {s} : math'[r][x] = math[r][x]
      /\ stage[r] = "kernel"
  BY <1>0 DEF WaitReady, MathStep, ShapeInv, MathPhases
<1>3. \A i \in {0, 2, 3, 4} : gctr'[r][i] = gctr[r][i]
  BY <1>1
<1>4. /\ math[r][s] \in MathIn => math'[r][s] \in MathIn
      /\ math[r][s] \in MathMetIn => math'[r][s] \in MathMetIn
  BY <1>2 DEF MathPhases, MathIn, MathPast, MathMetIn
<1>5. CountersAgree(r)'
  <2>1. PhaseCount(math'[r], MathIn) = PhaseCount(math[r], MathIn)
    <3>1. math[r][s] \in MathIn <=> math'[r][s] \in MathIn BY <1>2 DEF MathPhases, MathIn, MathPast, MathMetIn
    <3> QED BY <1>0, <1>2, <3>1, CountSame
  <2>2. PhaseCount(math'[r], MathMetIn) = PhaseCount(math[r], MathMetIn)
    <3>1. math[r][s] \in MathMetIn <=> math'[r][s] \in MathMetIn BY <1>2 DEF MathPhases, MathIn, MathPast, MathMetIn
    <3> QED BY <1>0, <1>2, <3>1, CountSame
  <2> QED BY <1>1, <1>2, <1>3, <2>1, <2>2 DEF PhaseInv, InKernel, CountersAgree
<1>6. TRUE OBVIOUS
<1>7. BarriersHold(r) /\ HandOver(r) BY <1>2 DEF PhaseInv, InKernel
<1>8. BarriersHold(r)'
  BY <1>0, <1>1, <1>2, <1>4, <1>6, <1>7 DEF BarriersHold, MathPhases, MathIn, MathPast, MathMetIn
<1>9. HandOver(r)'
  <2>1. ready[r][s] >= 1 BY DEF WaitReady
  <2> QED BY <1>0, <1>1, <1>2, <1>7, <2>1 DEF HandOver
<1> QED BY <1>1, <1>2, <1>5, <1>8, <1>9 DEF PhaseInv, InKernel

LEMMA PhaseScatter ==
  ASSUME ShapeInv, BarrierInv, NEW r \in Ranks, NEW s \in SMs, PhaseInv(r), Scatter(r, s)
  PROVE  PhaseInv(r)'
<1>1. UNCHANGED <<stage, pc, math, gctr, ready, unsent>>
  BY DEF Scatter, host, counts, sync, results, roles
<1> QED BY <1>1 DEF PhaseInv, InKernel, CountersAgree, BarriersHold, HandOver

LEMMA PhaseMathArrive ==
  ASSUME ShapeInv, BarrierInv, NEW r \in Ranks, NEW s \in SMs, PhaseInv(r), MathArrive(r, s)
  PROVE  PhaseInv(r)'
<1>1. UNCHANGED <<stage, pc, ready, unsent>>
  BY DEF MathArrive, host, counts, sync, results, roles
<1>0. 0 \in SMs BY Sizes
<1>2. /\ math[r][s] = "work" /\ math'[r][s] = "grid"
      /\ \A x \in SMs \ {s} : math'[r][x] = math[r][x]
      /\ stage[r] = "kernel"
  BY <1>0 DEF MathArrive, MathStep, ShapeInv, MathPhases
<1>3. /\ gctr'[r][3] = gctr[r][3] + 1
      /\ \A i \in {0, 2, 3, 4} \ {3} : gctr'[r][i] = gctr[r][i]
  BY DEF MathArrive, CountIn, ShapeInv
<1>4. /\ math[r][s] \in MathIn => math'[r][s] \in MathIn
      /\ math[r][s] \in MathMetIn => math'[r][s] \in MathMetIn
  BY <1>2 DEF MathPhases, MathIn, MathPast, MathMetIn
<1>5. CountersAgree(r)'
  <2>1. PhaseCount(math'[r], MathIn) = PhaseCount(math[r], MathIn) + 1
    <3>1. math[r][s] \notin MathIn /\ math'[r][s] \in MathIn BY <1>2 DEF MathPhases, MathIn, MathPast, MathMetIn
    <3> QED BY <1>0, <1>2, <3>1, CountMore
  <2>2. PhaseCount(math'[r], MathMetIn) = PhaseCount(math[r], MathMetIn)
    <3>1. math[r][s] \in MathMetIn <=> math'[r][s] \in MathMetIn BY <1>2 DEF MathPhases, MathIn, MathPast, MathMetIn
    <3> QED BY <1>0, <1>2, <3>1, CountSame
  <2> QED BY <1>1, <1>2, <1>3, <2>1, <2>2 DEF PhaseInv, InKernel, CountersAgree
<1>6. TRUE OBVIOUS
<1>7. BarriersHold(r) /\ HandOver(r) BY <1>2 DEF PhaseInv, InKernel
<1>8. BarriersHold(r)'
  BY <1>0, <1>1, <1>2, <1>4, <1>6, <1>7 DEF BarriersHold, MathPhases, MathIn, MathPast, MathMetIn
<1>9. HandOver(r)'
  BY <1>0, <1>1, <1>2, <1>7 DEF HandOver, Phases, Arrived, Past, Announced, Counted, Pulling
<1> QED BY <1>1, <1>2, <1>5, <1>8, <1>9 DEF PhaseInv, InKernel

LEMMA PhaseMathGrid ==
  ASSUME ShapeInv, BarrierInv, NEW r \in Ranks, NEW s \in SMs, PhaseInv(r), MathGrid(r, s)
  PROVE  PhaseInv(r)'
<1>1. UNCHANGED <<stage, pc, gctr, ready, unsent>>
  BY DEF MathGrid, host, counts, sync, results, roles
<1>0. 0 \in SMs BY Sizes
<1>2. /\ math[r][s] = "grid" /\ math'[r][s] = (IF s = 0 THEN "await" ELSE "meet")
      /\ \A x \in SMs \ {s} : math'[r][x] = math[r][x]
      /\ stage[r] = "kernel"
  BY <1>0 DEF MathGrid, MathStep, ShapeInv, MathPhases
<1>3. \A i \in {0, 2, 3, 4} : gctr'[r][i] = gctr[r][i]
  BY <1>1
<1>4. /\ math[r][s] \in MathIn => math'[r][s] \in MathIn
      /\ math[r][s] \in MathMetIn => math'[r][s] \in MathMetIn
  BY <1>2 DEF MathPhases, MathIn, MathPast, MathMetIn
<1>5. CountersAgree(r)'
  <2>1. PhaseCount(math'[r], MathIn) = PhaseCount(math[r], MathIn)
    <3>1. math[r][s] \in MathIn <=> math'[r][s] \in MathIn BY <1>2 DEF MathPhases, MathIn, MathPast, MathMetIn
    <3>2. \A x \in SMs \ {s} : math'[r][x] = math[r][x] BY <1>2
    <3>3. PICK f, g : f = math[r] /\ g = math'[r] OBVIOUS
    <3>4. (f[s] \in MathIn <=> g[s] \in MathIn) /\ \A x \in SMs \ {s} : g[x] = f[x]
      BY <3>1, <3>2, <3>3
    <3>5. PhaseCount(g, MathIn) = PhaseCount(f, MathIn) BY <3>4, CountStep
    <3> QED BY <3>3, <3>5
  <2>2. PhaseCount(math'[r], MathMetIn) = PhaseCount(math[r], MathMetIn)
    <3>1. math[r][s] \in MathMetIn <=> math'[r][s] \in MathMetIn BY <1>2 DEF MathPhases, MathIn, MathPast, MathMetIn
    <3>2. \A x \in SMs \ {s} : math'[r][x] = math[r][x] BY <1>2
    <3>3. PICK f, g : f = math[r] /\ g = math'[r] OBVIOUS
    <3>4. (f[s] \in MathMetIn <=> g[s] \in MathMetIn) /\ \A x \in SMs \ {s} : g[x] = f[x]
      BY <3>1, <3>2, <3>3
    <3>5. PhaseCount(g, MathMetIn) = PhaseCount(f, MathMetIn) BY <3>4, CountStep
    <3> QED BY <3>3, <3>5
  <2> QED BY <1>1, <1>2, <1>3, <2>1, <2>2 DEF PhaseInv, InKernel, CountersAgree
<1>6. \A x \in SMs : math[r][x] \in MathIn
  <2>1. gctr[r][3] >= NUM_SMS BY DEF MathGrid, AllIn
  <2> QED BY <1>2, <2>1, CountEnds DEF PhaseInv, InKernel, CountersAgree
<1>7. BarriersHold(r) /\ HandOver(r) BY <1>2 DEF PhaseInv, InKernel
<1>8. BarriersHold(r)'
  BY <1>0, <1>1, <1>2, <1>4, <1>6, <1>7 DEF BarriersHold, MathPhases, MathIn, MathPast, MathMetIn
<1>9. HandOver(r)'
  BY <1>0, <1>1, <1>2, <1>7 DEF HandOver, Phases, Arrived, Past, Announced, Counted, Pulling
<1> QED BY <1>1, <1>2, <1>5, <1>8, <1>9 DEF PhaseInv, InKernel

LEMMA PhaseMathAwait ==
  ASSUME ShapeInv, BarrierInv, NEW r \in Ranks, PhaseInv(r), MathAwait(r)
  PROVE  PhaseInv(r)'
<1>1. UNCHANGED <<stage, pc, gctr, ready, unsent>>
  BY DEF MathAwait, host, counts, sync, results, roles
<1>0. 0 \in SMs BY Sizes
<1>2. /\ math[r][0] = "await" /\ math'[r][0] = "meet"
      /\ \A x \in SMs \ {0} : math'[r][x] = math[r][x]
      /\ stage[r] = "kernel"
  BY <1>0 DEF MathAwait, MathStep, ShapeInv, MathPhases
<1>3. \A i \in {0, 2, 3, 4} : gctr'[r][i] = gctr[r][i]
  BY <1>1
<1>4. /\ math[r][0] \in MathIn => math'[r][0] \in MathIn
      /\ math[r][0] \in MathMetIn => math'[r][0] \in MathMetIn
  BY <1>2 DEF MathPhases, MathIn, MathPast, MathMetIn
<1>5. CountersAgree(r)'
  <2>1. PhaseCount(math'[r], MathIn) = PhaseCount(math[r], MathIn)
    <3>1. math[r][0] \in MathIn <=> math'[r][0] \in MathIn BY <1>2 DEF MathPhases, MathIn, MathPast, MathMetIn
    <3> QED BY <1>0, <1>2, <3>1, CountSame
  <2>2. PhaseCount(math'[r], MathMetIn) = PhaseCount(math[r], MathMetIn)
    <3>1. math[r][0] \in MathMetIn <=> math'[r][0] \in MathMetIn BY <1>2 DEF MathPhases, MathIn, MathPast, MathMetIn
    <3> QED BY <1>0, <1>2, <3>1, CountSame
  <2> QED BY <1>1, <1>2, <1>3, <2>1, <2>2 DEF PhaseInv, InKernel, CountersAgree
<1>6. TRUE OBVIOUS
<1>7. BarriersHold(r) /\ HandOver(r) BY <1>2 DEF PhaseInv, InKernel
<1>8. BarriersHold(r)'
  BY <1>0, <1>1, <1>2, <1>4, <1>6, <1>7 DEF BarriersHold, MathPhases, MathIn, MathPast, MathMetIn
<1>9. HandOver(r)'
  BY <1>0, <1>1, <1>2, <1>7 DEF HandOver, Phases, Arrived, Past, Announced, Counted, Pulling
<1> QED BY <1>1, <1>2, <1>5, <1>8, <1>9 DEF PhaseInv, InKernel

LEMMA PhaseMathMeet ==
  ASSUME ShapeInv, BarrierInv, NEW r \in Ranks, NEW s \in SMs, PhaseInv(r), MathMeet(r, s)
  PROVE  PhaseInv(r)'
<1>1. UNCHANGED <<stage, pc, ready, unsent>>
  BY DEF MathMeet, host, counts, sync, results, roles
<1>0. 0 \in SMs BY Sizes
<1>2. /\ math[r][s] = "meet" /\ math'[r][s] = "met"
      /\ \A x \in SMs \ {s} : math'[r][x] = math[r][x]
      /\ stage[r] = "kernel"
  BY <1>0 DEF MathMeet, MathStep, ShapeInv, MathPhases
<1>3. /\ gctr'[r][4] = gctr[r][4] + 1
      /\ \A i \in {0, 2, 3, 4} \ {4} : gctr'[r][i] = gctr[r][i]
  BY DEF MathMeet, CountIn, ShapeInv
<1>4. /\ math[r][s] \in MathIn => math'[r][s] \in MathIn
      /\ math[r][s] \in MathMetIn => math'[r][s] \in MathMetIn
  BY <1>2 DEF MathPhases, MathIn, MathPast, MathMetIn
<1>5. CountersAgree(r)'
  <2>1. PhaseCount(math'[r], MathIn) = PhaseCount(math[r], MathIn)
    <3>1. math[r][s] \in MathIn <=> math'[r][s] \in MathIn BY <1>2 DEF MathPhases, MathIn, MathPast, MathMetIn
    <3> QED BY <1>0, <1>2, <3>1, CountSame
  <2>2. PhaseCount(math'[r], MathMetIn) = PhaseCount(math[r], MathMetIn) + 1
    <3>1. math[r][s] \notin MathMetIn /\ math'[r][s] \in MathMetIn BY <1>2 DEF MathPhases, MathIn, MathPast, MathMetIn
    <3> QED BY <1>0, <1>2, <3>1, CountMore
  <2> QED BY <1>1, <1>2, <1>3, <2>1, <2>2 DEF PhaseInv, InKernel, CountersAgree
<1>6. TRUE OBVIOUS
<1>7. BarriersHold(r) /\ HandOver(r) BY <1>2 DEF PhaseInv, InKernel
<1>8. BarriersHold(r)'
  BY <1>0, <1>1, <1>2, <1>4, <1>6, <1>7 DEF BarriersHold, MathPhases, MathIn, MathPast, MathMetIn
<1>9. HandOver(r)'
  BY <1>0, <1>1, <1>2, <1>7 DEF HandOver, Phases, Arrived, Past, Announced, Counted, Pulling
<1> QED BY <1>1, <1>2, <1>5, <1>8, <1>9 DEF PhaseInv, InKernel

LEMMA PhaseCombine ==
  ASSUME ShapeInv, BarrierInv, NEW r \in Ranks, NEW s \in SMs, PhaseInv(r), Combine(r, s)
  PROVE  PhaseInv(r)'
<1>1. UNCHANGED <<stage, pc, gctr, ready, unsent>>
  BY DEF Combine, host, counts, sync, results, roles
<1>0. 0 \in SMs BY Sizes
<1>2. /\ math[r][s] = "met" /\ math'[r][s] = "done"
      /\ \A x \in SMs \ {s} : math'[r][x] = math[r][x]
      /\ stage[r] = "kernel"
  BY <1>0 DEF Combine, MathStep, ShapeInv, MathPhases
<1>3. \A i \in {0, 2, 3, 4} : gctr'[r][i] = gctr[r][i]
  BY <1>1
<1>4. /\ math[r][s] \in MathIn => math'[r][s] \in MathIn
      /\ math[r][s] \in MathMetIn => math'[r][s] \in MathMetIn
  BY <1>2 DEF MathPhases, MathIn, MathPast, MathMetIn
<1>5. CountersAgree(r)'
  <2>1. PhaseCount(math'[r], MathIn) = PhaseCount(math[r], MathIn)
    <3>1. math[r][s] \in MathIn <=> math'[r][s] \in MathIn BY <1>2 DEF MathPhases, MathIn, MathPast, MathMetIn
    <3> QED BY <1>0, <1>2, <3>1, CountSame
  <2>2. PhaseCount(math'[r], MathMetIn) = PhaseCount(math[r], MathMetIn)
    <3>1. math[r][s] \in MathMetIn <=> math'[r][s] \in MathMetIn BY <1>2 DEF MathPhases, MathIn, MathPast, MathMetIn
    <3> QED BY <1>0, <1>2, <3>1, CountSame
  <2> QED BY <1>1, <1>2, <1>3, <2>1, <2>2 DEF PhaseInv, InKernel, CountersAgree
<1>6. \A x \in SMs : math[r][x] \in MathMetIn
  <2>1. gctr[r][4] >= NUM_SMS BY DEF Combine, AllIn
  <2> QED BY <1>2, <2>1, CountEnds DEF PhaseInv, InKernel, CountersAgree
<1>7. BarriersHold(r) /\ HandOver(r) BY <1>2 DEF PhaseInv, InKernel
<1>8. BarriersHold(r)'
  BY <1>0, <1>1, <1>2, <1>4, <1>6, <1>7 DEF BarriersHold, MathPhases, MathIn, MathPast, MathMetIn
<1>9. HandOver(r)'
  BY <1>0, <1>1, <1>2, <1>7 DEF HandOver, Phases, Arrived, Past, Announced, Counted, Pulling
<1> QED BY <1>1, <1>2, <1>5, <1>8, <1>9 DEF PhaseInv, InKernel

LEMMA PhaseStep ==
  ASSUME ShapeInv, BarrierInv, NEW r \in Ranks, NEW s \in SMs, PhaseInv(r),
         Host(r) \/ Dispatch(r, s) \/ Math(r, s)
  PROVE  PhaseInv(r)'
  BY PhasePrepare, PhaseStartKernel, PhaseEndKernel, PhaseClose, PhaseReserve, PhaseEnqueue, PhaseArrive, PhaseGrid, PhasePublish, PhaseSignal, PhaseAwait, PhaseMeet, PhaseMet, PhaseEndPull, PhaseCopy, PhaseAnnounce, PhaseWaitReady, PhaseScatter, PhaseMathArrive, PhaseMathGrid, PhaseMathAwait, PhaseMathMeet, PhaseCombine, Zenon
  DEF Host, Dispatch, Math

-----------------------------------------------------------------------------
(* The barriers between the ranks.                                          *)
MathAwaited == {"meet", "met", "done"}

\* Rank q has signalled its peers in launch n, the word i.
Sent(q, i) ==
  /\ stage[q] # "open"
  /\ IF i = 0 THEN pc[q][0] \in Announced ELSE math[q][0] \in MathPast
SignalledIn(q, n, i) == launch[q] > n \/ (launch[q] = n /\ Sent(q, i))

Senders(n, i) == {q \in Ranks : SignalledIn(q, n, i)}

WordsAgree(r) ==
  stage[r] \in {"open", "kernel"} =>
    \A i \in 0 .. 1 : signal[r][i] = Cardinality(Senders(launch[r], i))

\* Who is through a barrier between the ranks knows that all have signalled.
AllHeard(r) ==
  stage[r] \in {"kernel", "close"} =>
    /\ pc[r][0] \in Awaited => \A q \in Ranks : SignalledIn(q, launch[r], 0)
    /\ math[r][0] \in MathAwaited => \A q \in Ranks : SignalledIn(q, launch[r], 1)

\* A rank that is about to start or in its kernel is in the newest launch, and
\* the ranks that are in the same launch have not left it.
LEMMA Newest ==
  ASSUME BarrierInv, NEW r \in Ranks, stage[r] \in {"open", "kernel"}
  PROVE  \A q \in Ranks :
           /\ launch[q] <= launch[r]
           /\ launch[q] = launch[r] => stage[q] # "idle"
           /\ InKernel(r) => launch[q] = launch[r]
<1> SUFFICES ASSUME NEW q \in Ranks
             PROVE  /\ launch[q] <= launch[r]
                    /\ launch[q] = launch[r] => stage[q] # "idle"
                    /\ InKernel(r) => launch[q] = launch[r]
  OBVIOUS
<1>1. InKernel(r) => launch[q] = launch[r]
  BY BarrierImpliesSame DEF SameLaunch
<1>2. launch[q] <= launch[r] /\ (launch[q] = launch[r] => stage[q] # "idle")
  BY DEF BarrierInv, Entries, Waiting
<1> QED BY <1>1, <1>2

LEMMA AllSenders ==
  ASSUME NEW n, NEW i
  PROVE  /\ Cardinality(Senders(n, i)) \in Nat
         /\ Cardinality(Senders(n, i)) >= NPES => \A q \in Ranks : SignalledIn(q, n, i)
<1>1. /\ IsFiniteSet(Senders(n, i)) /\ Cardinality(Senders(n, i)) <= NPES
      /\ Cardinality(Senders(n, i)) = NPES => Senders(n, i) = Ranks
  BY FiniteSizes, FS_Subset DEF Senders
<1>2. Cardinality(Senders(n, i)) \in Nat BY <1>1, FS_CardinalityType
<1>3. ASSUME Cardinality(Senders(n, i)) >= NPES PROVE Senders(n, i) = Ranks
  BY <1>1, <1>2, <1>3, Sizes
<1> QED BY <1>2, <1>3 DEF Senders

RankBarriers == \A r \in Ranks : WordsAgree(r) /\ AllHeard(r)

\* A rank may be a launch ahead of one that has not begun the next, but waits.
LEMMA NotYet ==
  ASSUME BarrierInv, NEW r \in Ranks, stage[r] = "idle"
  PROVE  \A q \in Ranks :
           /\ launch[q] <= launch[r] + 1
           /\ launch[q] = launch[r] + 1 => stage[q] = "open"
BY DEF BarrierInv, Entries, Waiting

\* The actions that leave the barriers between the ranks alone.
Quiet ==
  /\ signal' = signal /\ launch' = launch /\ stage' = stage
  /\ \A q \in Ranks :
       /\ pc'[q][0] \in Announced <=> pc[q][0] \in Announced
       /\ pc'[q][0] \in Awaited <=> pc[q][0] \in Awaited
       /\ math'[q][0] \in MathPast <=> math[q][0] \in MathPast
       /\ math'[q][0] \in MathAwaited <=> math[q][0] \in MathAwaited

LEMMA QuietReserve ==
  ASSUME ShapeInv, NEW r \in Ranks, NEW s \in SMs, Reserve(r, s)
  PROVE  Quiet
<1>1. UNCHANGED <<signal, launch, stage, math>>
  BY DEF Reserve, host, counts, sync, results, roles
<1>2. \A q \in Ranks, t \in SMs :
        \/ pc'[q][t] = pc[q][t]
        \/ t = s /\ pc[q][t] = "reserve" /\ pc'[q][t] = "enqueue"
  BY DEF Reserve, Step, ShapeInv
<1>3. 0 \in SMs BY Sizes
<1>4. \A q \in Ranks : /\ pc'[q][0] \in Announced <=> pc[q][0] \in Announced
                       /\ pc'[q][0] \in Awaited <=> pc[q][0] \in Awaited
  BY <1>2, <1>3 DEF Phases, Arrived, Past, Announced, Awaited
<1>5. \A q \in Ranks : /\ math'[q][0] \in MathPast <=> math[q][0] \in MathPast
                       /\ math'[q][0] \in MathAwaited <=> math[q][0] \in MathAwaited
  BY <1>1
<1> QED BY <1>1, <1>4, <1>5 DEF Quiet

LEMMA QuietEnqueue ==
  ASSUME ShapeInv, NEW r \in Ranks, NEW s \in SMs, Enqueue(r, s)
  PROVE  Quiet
<1>1. UNCHANGED <<signal, launch, stage, math>>
  BY DEF Enqueue, host, counts, sync, results, roles
<1>2. \A q \in Ranks, t \in SMs :
        \/ pc'[q][t] = pc[q][t]
        \/ t = s /\ pc[q][t] = "enqueue" /\ pc'[q][t] = "arrive"
  BY DEF Enqueue, Step, ShapeInv
<1>3. 0 \in SMs BY Sizes
<1>4. \A q \in Ranks : /\ pc'[q][0] \in Announced <=> pc[q][0] \in Announced
                       /\ pc'[q][0] \in Awaited <=> pc[q][0] \in Awaited
  BY <1>2, <1>3 DEF Phases, Arrived, Past, Announced, Awaited
<1>5. \A q \in Ranks : /\ math'[q][0] \in MathPast <=> math[q][0] \in MathPast
                       /\ math'[q][0] \in MathAwaited <=> math[q][0] \in MathAwaited
  BY <1>1
<1> QED BY <1>1, <1>4, <1>5 DEF Quiet

LEMMA QuietArrive ==
  ASSUME ShapeInv, NEW r \in Ranks, NEW s \in SMs, Arrive(r, s)
  PROVE  Quiet
<1>1. UNCHANGED <<signal, launch, stage, math>>
  BY DEF Arrive, host, counts, sync, results, roles
<1>2. \A q \in Ranks, t \in SMs :
        \/ pc'[q][t] = pc[q][t]
        \/ t = s /\ pc[q][t] = "arrive" /\ pc'[q][t] = "grid"
  BY DEF Arrive, Step, ShapeInv
<1>3. 0 \in SMs BY Sizes
<1>4. \A q \in Ranks : /\ pc'[q][0] \in Announced <=> pc[q][0] \in Announced
                       /\ pc'[q][0] \in Awaited <=> pc[q][0] \in Awaited
  BY <1>2, <1>3 DEF Phases, Arrived, Past, Announced, Awaited
<1>5. \A q \in Ranks : /\ math'[q][0] \in MathPast <=> math[q][0] \in MathPast
                       /\ math'[q][0] \in MathAwaited <=> math[q][0] \in MathAwaited
  BY <1>1
<1> QED BY <1>1, <1>4, <1>5 DEF Quiet

LEMMA QuietGrid ==
  ASSUME ShapeInv, NEW r \in Ranks, NEW s \in SMs, Grid(r, s)
  PROVE  Quiet
<1>1. UNCHANGED <<signal, launch, stage, math>>
  BY DEF Grid, host, counts, sync, results, roles
<1>2. \A q \in Ranks, t \in SMs :
        \/ pc'[q][t] = pc[q][t]
        \/ t = s /\ pc[q][t] = "grid" /\ pc'[q][t] = (IF s = 0 THEN "publish" ELSE "meet")
  BY DEF Grid, Step, ShapeInv
<1>3. 0 \in SMs BY Sizes
<1>4. \A q \in Ranks : /\ pc'[q][0] \in Announced <=> pc[q][0] \in Announced
                       /\ pc'[q][0] \in Awaited <=> pc[q][0] \in Awaited
  BY <1>2, <1>3 DEF Phases, Arrived, Past, Announced, Awaited
<1>5. \A q \in Ranks : /\ math'[q][0] \in MathPast <=> math[q][0] \in MathPast
                       /\ math'[q][0] \in MathAwaited <=> math[q][0] \in MathAwaited
  BY <1>1
<1> QED BY <1>1, <1>4, <1>5 DEF Quiet

LEMMA QuietPublish ==
  ASSUME ShapeInv, NEW r \in Ranks, Publish(r)
  PROVE  Quiet
<1>1. UNCHANGED <<signal, launch, stage, pc, math>>
  BY DEF Publish, host, counts, sync, results, roles
<1> QED BY <1>1 DEF Quiet

LEMMA QuietMeet ==
  ASSUME ShapeInv, NEW r \in Ranks, NEW s \in SMs, Meet(r, s)
  PROVE  Quiet
<1>1. UNCHANGED <<signal, launch, stage, math>>
  BY DEF Meet, host, counts, sync, results, roles
<1>2. \A q \in Ranks, t \in SMs :
        \/ pc'[q][t] = pc[q][t]
        \/ t = s /\ pc[q][t] = "meet" /\ pc'[q][t] = "met"
  BY DEF Meet, Step, ShapeInv
<1>3. 0 \in SMs BY Sizes
<1>4. \A q \in Ranks : /\ pc'[q][0] \in Announced <=> pc[q][0] \in Announced
                       /\ pc'[q][0] \in Awaited <=> pc[q][0] \in Awaited
  BY <1>2, <1>3 DEF Phases, Arrived, Past, Announced, Awaited
<1>5. \A q \in Ranks : /\ math'[q][0] \in MathPast <=> math[q][0] \in MathPast
                       /\ math'[q][0] \in MathAwaited <=> math[q][0] \in MathAwaited
  BY <1>1
<1> QED BY <1>1, <1>4, <1>5 DEF Quiet

LEMMA QuietMet ==
  ASSUME ShapeInv, NEW r \in Ranks, NEW s \in SMs, Met(r, s)
  PROVE  Quiet
<1>1. UNCHANGED <<signal, launch, stage, math>>
  BY DEF Met, host, counts, sync, results, roles
<1>2. \A q \in Ranks, t \in SMs :
        \/ pc'[q][t] = pc[q][t]
        \/ t = s /\ pc[q][t] = "met" /\ pc'[q][t] = "pull"
  BY DEF Met, Step, ShapeInv
<1>3. 0 \in SMs BY Sizes
<1>4. \A q \in Ranks : /\ pc'[q][0] \in Announced <=> pc[q][0] \in Announced
                       /\ pc'[q][0] \in Awaited <=> pc[q][0] \in Awaited
  BY <1>2, <1>3 DEF Phases, Arrived, Past, Announced, Awaited
<1>5. \A q \in Ranks : /\ math'[q][0] \in MathPast <=> math[q][0] \in MathPast
                       /\ math'[q][0] \in MathAwaited <=> math[q][0] \in MathAwaited
  BY <1>1
<1> QED BY <1>1, <1>4, <1>5 DEF Quiet

LEMMA QuietEndPull ==
  ASSUME ShapeInv, NEW r \in Ranks, NEW s \in SMs, EndPull(r, s)
  PROVE  Quiet
<1>1. UNCHANGED <<signal, launch, stage, math>>
  BY DEF EndPull, host, counts, sync, results, roles
<1>2. \A q \in Ranks, t \in SMs :
        \/ pc'[q][t] = pc[q][t]
        \/ t = s /\ pc[q][t] = "pull" /\ pc'[q][t] = "done"
  BY DEF EndPull, Step, ShapeInv
<1>3. 0 \in SMs BY Sizes
<1>4. \A q \in Ranks : /\ pc'[q][0] \in Announced <=> pc[q][0] \in Announced
                       /\ pc'[q][0] \in Awaited <=> pc[q][0] \in Awaited
  BY <1>2, <1>3 DEF Phases, Arrived, Past, Announced, Awaited
<1>5. \A q \in Ranks : /\ math'[q][0] \in MathPast <=> math[q][0] \in MathPast
                       /\ math'[q][0] \in MathAwaited <=> math[q][0] \in MathAwaited
  BY <1>1
<1> QED BY <1>1, <1>4, <1>5 DEF Quiet

LEMMA QuietCopy ==
  ASSUME ShapeInv, NEW r \in Ranks, NEW s \in SMs, NEW j \in Streams, Copy(r, s, j)
  PROVE  Quiet
<1>1. UNCHANGED <<signal, launch, stage, pc, math>>
  BY DEF Copy, host, counts, sync, results, roles
<1> QED BY <1>1 DEF Quiet

LEMMA QuietAnnounce ==
  ASSUME ShapeInv, NEW r \in Ranks, NEW s \in SMs, NEW j \in Streams, Announce(r, s, j)
  PROVE  Quiet
<1>1. UNCHANGED <<signal, launch, stage, pc, math>>
  BY DEF Announce, host, counts, sync, results, roles
<1> QED BY <1>1 DEF Quiet

LEMMA QuietWaitReady ==
  ASSUME ShapeInv, NEW r \in Ranks, NEW s \in SMs, WaitReady(r, s)
  PROVE  Quiet
<1>1. UNCHANGED <<signal, launch, stage, pc>>
  BY DEF WaitReady, host, counts, sync, results, roles
<1>2. \A q \in Ranks, t \in SMs :
        \/ math'[q][t] = math[q][t]
        \/ t = s /\ math[q][t] = "wait" /\ math'[q][t] = "work"
  BY DEF WaitReady, MathStep, ShapeInv
<1>3. 0 \in SMs BY Sizes
<1>4. \A q \in Ranks : /\ math'[q][0] \in MathPast <=> math[q][0] \in MathPast
                       /\ math'[q][0] \in MathAwaited <=> math[q][0] \in MathAwaited
  BY <1>2, <1>3 DEF MathPhases, MathIn, MathPast, MathAwaited
<1>5. \A q \in Ranks : /\ pc'[q][0] \in Announced <=> pc[q][0] \in Announced
                       /\ pc'[q][0] \in Awaited <=> pc[q][0] \in Awaited
  BY <1>1
<1> QED BY <1>1, <1>4, <1>5 DEF Quiet

LEMMA QuietScatter ==
  ASSUME ShapeInv, NEW r \in Ranks, NEW s \in SMs, Scatter(r, s)
  PROVE  Quiet
<1>1. UNCHANGED <<signal, launch, stage, pc, math>>
  BY DEF Scatter, host, counts, sync, results, roles
<1> QED BY <1>1 DEF Quiet

LEMMA QuietMathArrive ==
  ASSUME ShapeInv, NEW r \in Ranks, NEW s \in SMs, MathArrive(r, s)
  PROVE  Quiet
<1>1. UNCHANGED <<signal, launch, stage, pc>>
  BY DEF MathArrive, host, counts, sync, results, roles
<1>2. \A q \in Ranks, t \in SMs :
        \/ math'[q][t] = math[q][t]
        \/ t = s /\ math[q][t] = "work" /\ math'[q][t] = "grid"
  BY DEF MathArrive, MathStep, ShapeInv
<1>3. 0 \in SMs BY Sizes
<1>4. \A q \in Ranks : /\ math'[q][0] \in MathPast <=> math[q][0] \in MathPast
                       /\ math'[q][0] \in MathAwaited <=> math[q][0] \in MathAwaited
  BY <1>2, <1>3 DEF MathPhases, MathIn, MathPast, MathAwaited
<1>5. \A q \in Ranks : /\ pc'[q][0] \in Announced <=> pc[q][0] \in Announced
                       /\ pc'[q][0] \in Awaited <=> pc[q][0] \in Awaited
  BY <1>1
<1> QED BY <1>1, <1>4, <1>5 DEF Quiet

LEMMA QuietMathGrid ==
  ASSUME ShapeInv, NEW r \in Ranks, NEW s \in SMs, MathGrid(r, s), s # 0
  PROVE  Quiet
<1>1. UNCHANGED <<launch, stage, pc, signal>>
  BY DEF MathGrid, host, counts, sync, results, roles
<1>2. \A q \in Ranks, t \in SMs :
        \/ math'[q][t] = math[q][t]
        \/ t = s /\ math[q][t] = "grid" /\ math'[q][t] = "meet"
  BY DEF MathGrid, MathStep, ShapeInv
<1>3. 0 \in SMs BY Sizes
<1>4. \A q \in Ranks : /\ math'[q][0] \in MathPast <=> math[q][0] \in MathPast
                       /\ math'[q][0] \in MathAwaited <=> math[q][0] \in MathAwaited
  BY <1>2, <1>3 DEF MathPhases, MathIn, MathPast, MathAwaited
<1>5. \A q \in Ranks : /\ pc'[q][0] \in Announced <=> pc[q][0] \in Announced
                       /\ pc'[q][0] \in Awaited <=> pc[q][0] \in Awaited
  BY <1>1
<1> QED BY <1>1, <1>4, <1>5 DEF Quiet

LEMMA QuietMathMeet ==
  ASSUME ShapeInv, NEW r \in Ranks, NEW s \in SMs, MathMeet(r, s)
  PROVE  Quiet
<1>1. UNCHANGED <<signal, launch, stage, pc>>
  BY DEF MathMeet, host, counts, sync, results, roles
<1>2. \A q \in Ranks, t \in SMs :
        \/ math'[q][t] = math[q][t]
        \/ t = s /\ math[q][t] = "meet" /\ math'[q][t] = "met"
  BY DEF MathMeet, MathStep, ShapeInv
<1>3. 0 \in SMs BY Sizes
<1>4. \A q \in Ranks : /\ math'[q][0] \in MathPast <=> math[q][0] \in MathPast
                       /\ math'[q][0] \in MathAwaited <=> math[q][0] \in MathAwaited
  BY <1>2, <1>3 DEF MathPhases, MathIn, MathPast, MathAwaited
<1>5. \A q \in Ranks : /\ pc'[q][0] \in Announced <=> pc[q][0] \in Announced
                       /\ pc'[q][0] \in Awaited <=> pc[q][0] \in Awaited
  BY <1>1
<1> QED BY <1>1, <1>4, <1>5 DEF Quiet

LEMMA QuietCombine ==
  ASSUME ShapeInv, NEW r \in Ranks, NEW s \in SMs, Combine(r, s)
  PROVE  Quiet
<1>1. UNCHANGED <<signal, launch, stage, pc>>
  BY DEF Combine, host, counts, sync, results, roles
<1>2. \A q \in Ranks, t \in SMs :
        \/ math'[q][t] = math[q][t]
        \/ t = s /\ math[q][t] = "met" /\ math'[q][t] = "done"
  BY DEF Combine, MathStep, ShapeInv
<1>3. 0 \in SMs BY Sizes
<1>4. \A q \in Ranks : /\ math'[q][0] \in MathPast <=> math[q][0] \in MathPast
                       /\ math'[q][0] \in MathAwaited <=> math[q][0] \in MathAwaited
  BY <1>2, <1>3 DEF MathPhases, MathIn, MathPast, MathAwaited
<1>5. \A q \in Ranks : /\ pc'[q][0] \in Announced <=> pc[q][0] \in Announced
                       /\ pc'[q][0] \in Awaited <=> pc[q][0] \in Awaited
  BY <1>1
<1> QED BY <1>1, <1>4, <1>5 DEF Quiet

LEMMA QuietStep ==
  ASSUME ShapeInv, NEW r \in Ranks, NEW s \in SMs,
         Dispatch(r, s) \/ Math(r, s)
  PROVE  \/ Quiet
         \/ Signal(r) \/ Await(r) \/ MathGrid(r, 0) \/ MathAwait(r)
  BY QuietReserve, QuietEnqueue, QuietArrive, QuietGrid, QuietPublish, QuietMeet, QuietMet, QuietEndPull, QuietCopy, QuietAnnounce, QuietWaitReady, QuietScatter, QuietMathArrive, QuietMathGrid, QuietMathMeet, QuietCombine, Zenon
  DEF Dispatch, Math

\* What has been signalled stays signalled, and only the two signals add to it.
LEMMA SendersHost ==
  ASSUME ShapeInv, BarrierInv, NEW r \in Ranks, PhaseInv(r), Host(r)
  PROVE  \A q \in Ranks, n \in Nat, i \in 0 .. 1 : SignalledIn(q, n, i)' <=> SignalledIn(q, n, i)
<1> SUFFICES ASSUME NEW q \in Ranks, NEW n \in Nat, NEW i \in 0 .. 1
             PROVE  SignalledIn(q, n, i)' <=> SignalledIn(q, n, i)
  OBVIOUS
<1>0. launch[q] \in Nat /\ 0 \in SMs BY Sizes DEF BarrierInv
<1>1. CASE Prepare(r)
  <2>1. /\ stage[r] = "idle" /\ stage'[r] = "open" /\ launch'[r] = launch[r] + 1
        /\ \A p \in Ranks \ {r} : stage'[p] = stage[p] /\ launch'[p] = launch[p]
        /\ pc' = pc /\ math' = math
    BY <1>1 DEF Prepare, Goto, BarrierInv, roles
  <2>2. CASE q = r
    <3>1. Sent(r, i)
      BY <1>0, <2>1 DEF Sent, ShapeInv, Announced, Past, Arrived, Phases, MathPast, MathIn, MathPhases
    <3>2. ~Sent(r, i)' BY <2>1 DEF Sent
    <3> QED BY <1>0, <2>1, <2>2, <3>1, <3>2 DEF SignalledIn
  <2>3. CASE q # r
    BY <2>1, <2>3 DEF SignalledIn, Sent
  <2> QED BY <2>2, <2>3
<1>2. CASE StartKernel(r)
  <2>1. /\ stage[r] = "open" /\ launch' = launch
        /\ \A p \in Ranks \ {r} : stage'[p] = stage[p] /\ pc'[p] = pc[p] /\ math'[p] = math[p]
        /\ pc'[r][0] = "reserve" /\ math'[r][0] = "wait"
    BY <1>0, <1>2 DEF StartKernel, Goto, BarrierInv, ShapeInv
  <2>2. CASE q = r
    <3>1. ~Sent(r, i) /\ ~Sent(r, i)'
      BY <2>1 DEF Sent, Announced, Past, Arrived, Phases, MathPast, MathIn, MathPhases
    <3> QED BY <2>1, <2>2, <3>1 DEF SignalledIn
  <2>3. CASE q # r
    BY <2>1, <2>3 DEF SignalledIn, Sent
  <2> QED BY <2>2, <2>3
<1>3. CASE EndKernel(r)
  BY <1>3 DEF EndKernel, Goto, BarrierInv, roles, SignalledIn, Sent
<1>4. CASE Close(r)
  BY <1>4 DEF Close, Goto, BarrierInv, roles, SignalledIn, Sent
<1> QED BY <1>1, <1>2, <1>3, <1>4 DEF Host

LEMMA SendersQuiet ==
  ASSUME Quiet, NEW q \in Ranks, NEW n, NEW i
  PROVE  SignalledIn(q, n, i)' <=> SignalledIn(q, n, i)
BY DEF Quiet, SignalledIn, Sent

LEMMA SendersSignal ==
  ASSUME ShapeInv, BarrierInv, NEW r \in Ranks, NEW k \in 0 .. 1,
         (k = 0 /\ Signal(r)) \/ (k = 1 /\ MathGrid(r, 0))
  PROVE  /\ stage[r] = "kernel" /\ launch' = launch /\ stage' = stage
         /\ signal' = Signalled(k)
         /\ \A q \in Ranks \ {r} : pc'[q] = pc[q] /\ math'[q] = math[q]
         /\ pc'[r][0] \in Awaited => pc[r][0] \in Awaited
         /\ math'[r][0] \in MathAwaited => math[r][0] \in MathAwaited
         /\ ~SignalledIn(r, launch[r], k)
         /\ \A q \in Ranks, n \in Nat, i \in 0 .. 1 :
              SignalledIn(q, n, i)' <=>
                \/ SignalledIn(q, n, i)
                \/ q = r /\ n = launch[r] /\ i = k
<1>0. 0 \in SMs /\ launch[r] \in Nat BY Sizes DEF BarrierInv
<1>1. CASE k = 0
  <2>1. /\ launch' = launch /\ stage' = stage /\ math' = math /\ signal' = Signalled(0)
        /\ pc[r][0] = "publish" /\ pc'[r][0] = "await" /\ stage[r] = "kernel"
        /\ \A q \in Ranks \ {r} : pc'[q] = pc[q]
    BY <1>0, <1>1 DEF Signal, Step, host, roles, ShapeInv
  <2>2. ~SignalledIn(r, launch[r], 0)
    BY <1>0, <2>1 DEF SignalledIn, Sent, Announced
  <2>3. ASSUME NEW q \in Ranks, NEW n \in Nat, NEW i \in 0 .. 1
        PROVE  SignalledIn(q, n, i)' <=>
                 SignalledIn(q, n, i) \/ (q = r /\ n = launch[r] /\ i = 0)
    <3>1. CASE q = r
      BY <2>1, <3>1 DEF SignalledIn, Sent, Announced, Past, Arrived, Phases
    <3>2. CASE q # r BY <2>1, <3>2 DEF SignalledIn, Sent
    <3> QED BY <3>1, <3>2
  <2>4. pc'[r][0] \notin Awaited BY <2>1 DEF Awaited
  <2> QED BY <1>1, <2>1, <2>2, <2>3, <2>4
<1>2. CASE k = 1
  <2>1. /\ launch' = launch /\ stage' = stage /\ pc' = pc /\ signal' = Signalled(1)
        /\ math[r][0] = "grid" /\ math'[r][0] = "await" /\ stage[r] = "kernel"
        /\ \A q \in Ranks \ {r} : math'[q] = math[q]
    BY <1>0, <1>2 DEF MathGrid, MathStep, host, ShapeInv
  <2>2. ~SignalledIn(r, launch[r], 1)
    BY <1>0, <2>1 DEF SignalledIn, Sent, MathPast
  <2>3. ASSUME NEW q \in Ranks, NEW n \in Nat, NEW i \in 0 .. 1
        PROVE  SignalledIn(q, n, i)' <=>
                 SignalledIn(q, n, i) \/ (q = r /\ n = launch[r] /\ i = 1)
    <3>1. CASE q = r
      BY <2>1, <3>1 DEF SignalledIn, Sent, MathPast, MathIn, MathPhases
    <3>2. CASE q # r BY <2>1, <3>2 DEF SignalledIn, Sent
    <3> QED BY <3>1, <3>2
  <2>4. math'[r][0] \notin MathAwaited BY <2>1 DEF MathAwaited
  <2> QED BY <1>2, <2>1, <2>2, <2>3, <2>4
<1> QED BY <1>1, <1>2

LEMMA SignalInit == Init => RankBarriers
  BY DEF Init, RankBarriers, WordsAgree, AllHeard

LEMMA WordsKept ==
  ASSUME BarrierInv, NEW p \in Ranks, WordsAgree(p), launch'[p] = launch[p],
         signal'[p] = signal[p], stage'[p] \in {"open", "kernel"} => stage[p] \in {"open", "kernel"},
         \A q \in Ranks, n \in Nat, i \in 0 .. 1 : SignalledIn(q, n, i)' <=> SignalledIn(q, n, i)
  PROVE  WordsAgree(p)'
<1> SUFFICES ASSUME stage'[p] \in {"open", "kernel"}, NEW i \in 0 .. 1
             PROVE  signal'[p][i] = Cardinality(Senders(launch[p], i)')
  BY DEF WordsAgree
<1>1. PICK n \in Nat : n = launch[p] BY DEF BarrierInv
<1>2. Senders(n, i)' = Senders(n, i) BY DEF Senders
<1>3. Senders(launch[p], i)' = Senders(n, i)' BY <1>1 DEF Senders, SignalledIn
<1>4. signal[p][i] = Cardinality(Senders(n, i)) BY <1>1 DEF WordsAgree
<1> QED BY <1>2, <1>3, <1>4

LEMMA HeardKept ==
  ASSUME BarrierInv, NEW p \in Ranks, AllHeard(p), launch'[p] = launch[p],
         stage'[p] \in {"kernel", "close"} => stage[p] \in {"kernel", "close"},
         pc'[p][0] \in Awaited => pc[p][0] \in Awaited,
         math'[p][0] \in MathAwaited => math[p][0] \in MathAwaited,
         \A q \in Ranks, n \in Nat, i \in 0 .. 1 : SignalledIn(q, n, i) => SignalledIn(q, n, i)'
  PROVE  AllHeard(p)'
<1>1. PICK n \in Nat : n = launch[p] BY DEF BarrierInv
<1>2. \A q \in Ranks, i \in 0 .. 1 : SignalledIn(q, launch[p], i) => SignalledIn(q, n, i)'
  BY <1>1
<1>3. \A q \in Ranks, i \in 0 .. 1 : SignalledIn(q, n, i)' => SignalledIn(q, launch[p], i)'
  BY <1>1 DEF SignalledIn
<1> QED BY <1>2, <1>3 DEF AllHeard

LEMMA BarriersHost ==
  ASSUME ShapeInv, BarrierInv, RankBarriers, NEW r \in Ranks, PhaseInv(r), Host(r)
  PROVE  RankBarriers'
<1> SUFFICES ASSUME NEW p \in Ranks PROVE WordsAgree(p)' /\ AllHeard(p)'
  BY DEF RankBarriers
<1>0. launch \in [Ranks -> Nat] /\ 0 \in SMs BY Sizes DEF BarrierInv
<1>1. \A q \in Ranks, n \in Nat, i \in 0 .. 1 : SignalledIn(q, n, i)' <=> SignalledIn(q, n, i)
  BY SendersHost
<1>2. WordsAgree(p) /\ AllHeard(p) BY DEF RankBarriers
<1>3. CASE Prepare(r)
  <2>1. /\ stage[r] = "idle" /\ stage'[r] = "open" /\ launch'[r] = launch[r] + 1
        /\ \A q \in Ranks \ {r} :
             stage'[q] = stage[q] /\ launch'[q] = launch[q] /\ signal'[q] = signal[q]
        /\ pc' = pc /\ math' = math
        /\ \A i \in 0 .. 1 : signal'[r][i] = 0
    BY <1>3 DEF Prepare, Goto, BarrierInv, ShapeInv, roles, NewSignal
  <2>2. CASE p = r
    <3>1. PICK n \in Nat : n = launch[r] + 1 BY <1>0
    <3>2. ASSUME NEW i \in 0 .. 1 PROVE Senders(launch[r], i)' = {}
      <4>1. Senders(n, i) = {}
        <5>1. ASSUME NEW q \in Ranks, SignalledIn(q, n, i) PROVE FALSE
          <6>1. launch[q] <= n /\ (launch[q] = n => stage[q] = "open")
            BY <2>1, <3>1, NotYet
          <6> QED BY <1>0, <5>1, <6>1 DEF SignalledIn, Sent
        <5> QED BY <5>1 DEF Senders
      <4>2. Senders(n, i)' = {} BY <1>1, <4>1 DEF Senders
      <4>3. Senders(launch[r], i)' = Senders(n, i)'
        BY <2>1, <3>1 DEF Senders, SignalledIn
      <4> QED BY <4>2, <4>3
    <3>3. ASSUME NEW i \in 0 .. 1 PROVE signal'[r][i] = Cardinality(Senders(launch[r], i)')
      BY <2>1, <3>2, FS_EmptySet
    <3> QED BY <2>1, <2>2, <3>3 DEF WordsAgree, AllHeard
  <2>3. CASE p # r
    BY <1>1, <1>2, <2>1, <2>3, WordsKept, HeardKept
  <2> QED BY <2>2, <2>3
<1>4. CASE StartKernel(r)
  <2>1. /\ stage[r] = "open" /\ stage'[r] = "kernel" /\ launch' = launch /\ signal' = signal
        /\ \A q \in Ranks \ {r} : stage'[q] = stage[q] /\ pc'[q] = pc[q] /\ math'[q] = math[q]
        /\ pc'[r][0] = "reserve" /\ math'[r][0] = "wait"
    BY <1>0, <1>4 DEF StartKernel, Goto, BarrierInv, ShapeInv, sync
  <2>2. stage'[p] \in {"open", "kernel"} => stage[p] \in {"open", "kernel"}
    BY <2>1
  <2>3. WordsAgree(p)' BY <1>1, <1>2, <2>1, <2>2, WordsKept
  <2>4. CASE p = r
    <3>1. pc'[r][0] \notin Awaited /\ math'[r][0] \notin MathAwaited
      BY <2>1 DEF Awaited, Announced, Past, Arrived, MathAwaited
    <3> QED BY <2>3, <2>4, <3>1 DEF AllHeard
  <2>5. CASE p # r
    <3>1. AllHeard(p)' BY <1>1, <1>2, <2>1, <2>5, HeardKept
    <3> QED BY <2>3, <3>1
  <2> QED BY <2>4, <2>5
<1>5. CASE EndKernel(r) \/ Close(r)
  <2>1. /\ stage'[p] \in {"open", "kernel"} => stage[p] \in {"open", "kernel"}
        /\ stage'[p] \in {"kernel", "close"} => stage[p] \in {"kernel", "close"}
        /\ launch' = launch /\ signal' = signal /\ pc' = pc /\ math' = math
    BY <1>5 DEF EndKernel, Close, Goto, BarrierInv, roles, sync
  <2>2. WordsAgree(p)' BY <1>1, <1>2, <2>1, WordsKept
  <2>3. AllHeard(p)' BY <1>1, <1>2, <2>1, HeardKept
  <2> QED BY <2>2, <2>3
<1> QED BY <1>3, <1>4, <1>5 DEF Host

LEMMA BarriersQuiet ==
  ASSUME BarrierInv, RankBarriers, Quiet PROVE RankBarriers'
<1> SUFFICES ASSUME NEW p \in Ranks PROVE WordsAgree(p)' /\ AllHeard(p)'
  BY DEF RankBarriers
<1>1. \A q \in Ranks, n \in Nat, i \in 0 .. 1 : SignalledIn(q, n, i)' <=> SignalledIn(q, n, i)
  BY SendersQuiet
<1>2. WordsAgree(p) /\ AllHeard(p) BY DEF RankBarriers
<1>3. /\ launch'[p] = launch[p] /\ stage'[p] = stage[p] /\ signal'[p] = signal[p]
      /\ pc'[p][0] \in Awaited => pc[p][0] \in Awaited
      /\ math'[p][0] \in MathAwaited => math[p][0] \in MathAwaited
  BY DEF Quiet
<1>4. WordsAgree(p)' BY <1>1, <1>2, <1>3, WordsKept
<1>5. AllHeard(p)' BY <1>1, <1>2, <1>3, HeardKept
<1> QED BY <1>4, <1>5

LEMMA BarriersSignal ==
  ASSUME ShapeInv, BarrierInv, RankBarriers, NEW r \in Ranks, NEW k \in 0 .. 1,
         (k = 0 /\ Signal(r)) \/ (k = 1 /\ MathGrid(r, 0))
  PROVE  RankBarriers'
<1> SUFFICES ASSUME NEW p \in Ranks PROVE WordsAgree(p)' /\ AllHeard(p)'
  BY DEF RankBarriers
<1>1. /\ stage[r] = "kernel" /\ launch' = launch /\ stage' = stage
      /\ signal' = Signalled(k)
      /\ \A q \in Ranks \ {r} : pc'[q] = pc[q] /\ math'[q] = math[q]
      /\ pc'[r][0] \in Awaited => pc[r][0] \in Awaited
      /\ math'[r][0] \in MathAwaited => math[r][0] \in MathAwaited
      /\ ~SignalledIn(r, launch[r], k)
  BY SendersSignal
<1>2. \A q \in Ranks, n \in Nat, i \in 0 .. 1 :
        SignalledIn(q, n, i)' <=>
          SignalledIn(q, n, i) \/ (q = r /\ n = launch[r] /\ i = k)
  BY SendersSignal
<1>3. WordsAgree(p) /\ AllHeard(p) BY DEF RankBarriers
<1>4. AllHeard(p)'
  <2>1. \A q \in Ranks, n \in Nat, i \in 0 .. 1 : SignalledIn(q, n, i) => SignalledIn(q, n, i)'
    BY <1>2
  <2>2. /\ pc'[p][0] \in Awaited => pc[p][0] \in Awaited
        /\ math'[p][0] \in MathAwaited => math[p][0] \in MathAwaited
    BY <1>1
  <2> QED BY <1>1, <1>3, <2>1, <2>2, HeardKept
<1>5. WordsAgree(p)'
  <2> SUFFICES ASSUME stage[p] \in {"open", "kernel"}, NEW i \in 0 .. 1
               PROVE  signal'[p][i] = Cardinality(Senders(launch[p], i)')
    BY <1>1 DEF WordsAgree
  <2>1. PICK n \in Nat : n = launch[p] BY DEF BarrierInv
  <2>2. launch[r] = n BY <1>1, <2>1, BarrierImpliesSame DEF SameLaunch, InKernel
  <2>3. Senders(launch[p], i)' = Senders(n, i)' BY <1>1, <2>1 DEF Senders, SignalledIn
  <2>4. signal[p][i] = Cardinality(Senders(n, i)) BY <1>3, <2>1 DEF WordsAgree
  <2>5. signal'[p][i] = IF i = k THEN signal[p][i] + 1 ELSE signal[p][i]
    BY <1>1 DEF Signalled, ShapeInv
  <2>6. CASE i = k
    <3>1. Senders(n, i)' = Senders(n, i) \cup {r} /\ r \notin Senders(n, i)
      BY <1>1, <1>2, <2>2, <2>6 DEF Senders
    <3>2. IsFiniteSet(Senders(n, i)) BY FiniteSizes, FS_Subset DEF Senders
    <3>3. Cardinality(Senders(n, i) \cup {r}) = Cardinality(Senders(n, i)) + 1
      BY <3>1, <3>2, FS_AddElement
    <3> QED BY <2>3, <2>4, <2>5, <2>6, <3>1, <3>3
  <2>7. CASE i # k
    <3>1. Senders(n, i)' = Senders(n, i) BY <1>2, <2>7 DEF Senders
    <3> QED BY <2>3, <2>4, <2>5, <2>7, <3>1
  <2> QED BY <2>6, <2>7
<1> QED BY <1>4, <1>5

LEMMA BarriersAwait ==
  ASSUME ShapeInv, BarrierInv, RankBarriers, NEW r \in Ranks, Await(r) \/ MathAwait(r)
  PROVE  RankBarriers'
<1> SUFFICES ASSUME NEW p \in Ranks PROVE WordsAgree(p)' /\ AllHeard(p)'
  BY DEF RankBarriers
<1>0. 0 \in SMs BY Sizes
<1>1. PICK k \in 0 .. 1 : (k = 0 /\ Await(r)) \/ (k = 1 /\ MathAwait(r)) OBVIOUS
<1>2. /\ launch' = launch /\ stage' = stage /\ signal' = signal /\ stage[r] = "kernel"
      /\ signal[r][k] >= NPES
      /\ \A q \in Ranks \ {r} : pc'[q] = pc[q] /\ math'[q] = math[q]
      /\ \A q \in Ranks : /\ pc'[q][0] \in Announced <=> pc[q][0] \in Announced
                          /\ math'[q][0] \in MathPast <=> math[q][0] \in MathPast
      /\ k # 0 => pc' = pc
      /\ k # 1 => math' = math
  <2>1. CASE k = 0
    <3>1. /\ launch' = launch /\ stage' = stage /\ signal' = signal /\ math' = math
          /\ signal[r][0] >= NPES /\ pc[r][0] = "await"
      BY <1>1, <2>1 DEF Await, Step, host, sync, roles, AllSignalled
    <3>2. stage[r] = "kernel" BY <1>0, <3>1 DEF ShapeInv
    <3>3. \A q \in Ranks \ {r} : pc'[q] = pc[q]
      BY <1>1, <2>1 DEF Await, Step, ShapeInv
    <3>4. pc'[r][0] = "meet" BY <1>0, <1>1, <2>1 DEF Await, Step, ShapeInv
    <3>5. pc'[r][0] \in Announced /\ pc[r][0] \in Announced
      BY <3>1, <3>4 DEF Announced, Past, Arrived, Phases
    <3>6. \A q \in Ranks : pc'[q][0] \in Announced <=> pc[q][0] \in Announced
      BY <3>3, <3>5
    <3> QED BY <2>1, <3>1, <3>2, <3>3, <3>6
  <2>2. CASE k = 1
    <3>1. /\ launch' = launch /\ stage' = stage /\ signal' = signal /\ pc' = pc
          /\ signal[r][1] >= NPES /\ math[r][0] = "await"
      BY <1>1, <2>2 DEF MathAwait, MathStep, host, sync, AllSignalled
    <3>2. stage[r] = "kernel" BY <1>0, <3>1 DEF ShapeInv
    <3>3. \A q \in Ranks \ {r} : math'[q] = math[q]
      BY <1>1, <2>2 DEF MathAwait, MathStep, ShapeInv
    <3>4. math'[r][0] = "meet" BY <1>0, <1>1, <2>2 DEF MathAwait, MathStep, ShapeInv
    <3>5. math'[r][0] \in MathPast /\ math[r][0] \in MathPast
      BY <3>1, <3>4 DEF MathPast, MathIn, MathPhases
    <3>6. \A q \in Ranks : math'[q][0] \in MathPast <=> math[q][0] \in MathPast
      BY <3>3, <3>5
    <3> QED BY <2>2, <3>1, <3>2, <3>3, <3>6
  <2> QED BY <2>1, <2>2
<1>3. \A q \in Ranks, n \in Nat, i \in 0 .. 1 : SignalledIn(q, n, i)' <=> SignalledIn(q, n, i)
  BY <1>2 DEF SignalledIn, Sent
<1>4. WordsAgree(p) /\ AllHeard(p) BY DEF RankBarriers
<1>5. WordsAgree(p)' BY <1>2, <1>3, <1>4, WordsKept
<1>6. AllHeard(p)'
  <2>1. CASE p # r BY <1>2, <1>3, <1>4, <2>1, HeardKept
  <2>2. CASE p = r
    <3>1. \A q \in Ranks : SignalledIn(q, launch[r], k)
      <4>1. WordsAgree(r) BY DEF RankBarriers
      <4>2. Cardinality(Senders(launch[r], k)) >= NPES
        BY <1>2, <4>1 DEF WordsAgree
      <4> QED BY <4>2, AllSenders
    <3>2. PICK n \in Nat : n = launch[r] BY DEF BarrierInv
    <3>3. \A q \in Ranks, i \in 0 .. 1 : SignalledIn(q, launch[r], i) => SignalledIn(q, launch[r], i)'
      <4>1. \A q \in Ranks, i \in 0 .. 1 : SignalledIn(q, launch[r], i) => SignalledIn(q, n, i)'
        BY <1>3, <3>2
      <4>2. \A q \in Ranks, i \in 0 .. 1 : SignalledIn(q, n, i)' => SignalledIn(q, launch[r], i)'
        BY <1>2, <3>2 DEF SignalledIn
      <4> QED BY <4>1, <4>2
    <3>4. CASE k = 0 BY <1>2, <1>4, <2>2, <3>1, <3>3, <3>4 DEF AllHeard
    <3>5. CASE k = 1 BY <1>2, <1>4, <2>2, <3>1, <3>3, <3>5 DEF AllHeard
    <3> QED BY <3>4, <3>5
  <2> QED BY <2>1, <2>2
<1> QED BY <1>5, <1>6

LEMMA BarriersStep ==
  ASSUME ShapeInv, BarrierInv, RankBarriers, NEW r \in Ranks, NEW s \in SMs, PhaseInv(r),
         Host(r) \/ Dispatch(r, s) \/ Math(r, s)
  PROVE  RankBarriers'
<1>1. CASE Host(r) BY <1>1, BarriersHost
<1>2. CASE Quiet BY <1>2, BarriersQuiet
<1>3. CASE Signal(r) \/ MathGrid(r, 0)
  <2>1. CASE Signal(r) BY <2>1, BarriersSignal
  <2>2. CASE MathGrid(r, 0) BY <2>2, BarriersSignal
  <2> QED BY <1>3, <2>1, <2>2
<1>4. CASE Await(r) \/ MathAwait(r) BY <1>4, BarriersAwait
<1> QED BY <1>1, <1>2, <1>3, <1>4, QuietStep

-----------------------------------------------------------------------------
(* The control of a launch.                                                 *)
ControlInv ==
  /\ ShapeInv
  /\ BarrierInv
  /\ \A r \in Ranks : PhaseInv(r)
  /\ RankBarriers

LEMMA ControlInit == Init => ControlInv
  BY ShapeInit, BarrierInit, PhaseInit, SignalInit DEF ControlInv

LEMMA NextCases ==
  ASSUME [Next]_vars
  PROVE  \/ UNCHANGED vars
         \/ \E r \in Ranks, s \in SMs : Host(r) \/ Dispatch(r, s) \/ Math(r, s)
  BY Sizes DEF Next, Terminated

LEMMA ControlStutter ==
  ASSUME ControlInv, UNCHANGED vars PROVE ControlInv'
<1> USE DEF vars, host, counts, sync, results, roles
<1>1. ShapeInv' BY DEF ControlInv, ShapeInv
<1>2. BarrierInv' BY DEF ControlInv, BarrierInv, Entries, Waiting
<1>3. ASSUME NEW r \in Ranks PROVE PhaseInv(r)'
  <2>1. Own(r)' = Own(r) BY DEF Own
  <2> QED BY <2>1, PhaseFrame DEF ControlInv
<1>4. RankBarriers'
  <2>1. Quiet BY DEF Quiet
  <2> QED BY <2>1, BarriersQuiet DEF ControlInv
<1> QED BY <1>1, <1>2, <1>3, <1>4 DEF ControlInv

LEMMA ControlStep ==
  ASSUME ControlInv, [Next]_vars PROVE ControlInv'
<1>1. CASE UNCHANGED vars BY <1>1, ControlStutter
<1>2. ASSUME NEW r \in Ranks, NEW s \in SMs, Host(r) \/ Dispatch(r, s) \/ Math(r, s)
      PROVE  ControlInv'
  <2>0. ShapeInv /\ BarrierInv /\ RankBarriers /\ PhaseInv(r) BY DEF ControlInv
  <2>1. ShapeInv' BY <1>2, <2>0, ShapeStep
  <2>2. BarrierInv' BY <2>0, BarrierStep
  <2>3. ASSUME NEW q \in Ranks PROVE PhaseInv(q)'
    <3>1. CASE q = r BY <1>2, <2>0, <3>1, PhaseStep
    <3>2. CASE q # r
      <4>1. Own(q)' = Own(q) BY <1>2, <2>0, <3>2, Frame
      <4> QED BY <4>1, PhaseFrame DEF ControlInv
    <3> QED BY <3>1, <3>2
  <2>4. RankBarriers' BY <1>2, <2>0, BarriersStep
  <2> QED BY <2>1, <2>2, <2>3, <2>4 DEF ControlInv
<1> QED BY <1>1, <1>2, NextCases

LEMMA ControlInvariant == Spec => []ControlInv
  BY ControlInit, ControlStep, PTL DEF Spec

\* While a program of a rank works on its blocks, every rank has published its
\* counts, is still in the launch, and has no program that has begun to add up.
LEMMA NoneAddsUp ==
  ASSUME ControlInv, NEW r \in Ranks, NEW s \in SMs, math[r][s] = "work", NEW q \in Ranks
  PROVE  InKernel(q) /\ \A t \in SMs : math[q][t] # "done"
<1>0. /\ ShapeInv /\ BarrierInv /\ PhaseInv(r) /\ PhaseInv(q) /\ 0 \in SMs
      /\ AllHeard(r) /\ AllHeard(q)
  BY Sizes DEF ControlInv, RankBarriers
<1>1. stage[r] = "kernel" BY <1>0 DEF ShapeInv
<1>2. launch[q] = launch[r] /\ stage[q] # "idle" /\ launch[q] \in Nat
  BY <1>0, <1>1, Newest DEF InKernel, BarrierInv
<1>3. pc[r][0] \in Awaited
  <2>1. pc[r][s] \in Pulling
    BY <1>0, <1>1 DEF PhaseInv, InKernel, HandOver
  <2>2. pc[r][0] \in Counted
    BY <1>0, <1>1, <2>1 DEF PhaseInv, InKernel, BarriersHold
  <2> QED BY <2>2 DEF Counted, Awaited, Announced, Past, Arrived, Phases
<1>4. stage[q] # "open"
  <2>1. SignalledIn(q, launch[r], 0) BY <1>0, <1>1, <1>3 DEF AllHeard
  <2> QED BY <1>2, <2>1 DEF SignalledIn, Sent
<1>5. ~SignalledIn(r, launch[q], 1)
  <2>1. math[r][0] \notin MathPast
    BY <1>0, <1>1 DEF PhaseInv, InKernel, BarriersHold, MathIn
  <2> QED BY <1>2, <2>1 DEF SignalledIn, Sent
<1>6. stage[q] \in {"kernel", "close"}
  BY <1>0, <1>2, <1>4 DEF BarrierInv
<1>7. math[q][0] \notin MathAwaited
  BY <1>0, <1>5, <1>6 DEF AllHeard
<1>8. InKernel(q)
  BY <1>0, <1>6, <1>7 DEF ShapeInv, MathAwaited, InKernel
<1>9. ASSUME NEW t \in SMs, math[q][t] = "done" PROVE FALSE
  <2>1. math[q][0] \in MathMetIn
    BY <1>0, <1>8, <1>9 DEF PhaseInv, BarriersHold
  <2> QED BY <1>7, <2>1 DEF MathMetIn, MathAwaited
<1> QED BY <1>8, <1>9

\* Only the scattering of a block changes the results of a rank.
LEMMA CombineChanges ==
  ASSUME NEW r \in Ranks, NEW s \in SMs, Host(r) \/ Dispatch(r, s) \/ Math(r, s)
  PROVE  combine' = combine \/ Scatter(r, s)
<1> USE DEF host, counts, sync, results, roles
<1>1. Host(r) => combine' = combine
  BY DEF Host, Prepare, StartKernel, EndKernel, Close
<1>2. ASSUME NEW j \in Streams, Copy(r, s, j) PROVE combine' = combine
  BY <1>2 DEF Copy
<1>3. ASSUME NEW j \in Streams, Announce(r, s, j) PROVE combine' = combine
  BY <1>3 DEF Announce
<1>4. Dispatch(r, s) => combine' = combine
  BY <1>2, <1>3 DEF Dispatch, Reserve, Enqueue, Arrive, Grid, Publish, Signal, Await,
     Meet, Met, EndPull
<1>5. Math(r, s) => combine' = combine \/ Scatter(r, s)
  BY DEF Math, WaitReady, MathArrive, MathGrid, MathAwait, MathMeet, Combine
<1> QED BY <1>1, <1>4, <1>5

\* No result is scattered to a rank that has begun to add up its tokens: the
\* two barriers of the math role and the signals between the ranks exclude it.
THEOREM ScatterComesFirst == Spec => ScatterBeforeCombine
<1>1. ASSUME ControlInv, [Next]_vars
      PROVE  [\A r \in Ranks : combine'[r] # combine[r] =>
                InKernel(r) /\ \A s \in SMs : math[r][s] # "done"]_vars
  <2>1. CASE UNCHANGED vars BY <2>1
  <2>2. ASSUME NEW r \in Ranks, NEW s \in SMs, Host(r) \/ Dispatch(r, s) \/ Math(r, s),
               NEW q \in Ranks, combine'[q] # combine[q]
        PROVE  InKernel(q) /\ \A t \in SMs : math[q][t] # "done"
    <3>1. Scatter(r, s) BY <2>2, CombineChanges
    <3>2. math[r][s] = "work" BY <3>1 DEF Scatter
    <3> QED BY <1>1, <3>2, NoneAddsUp
  <2> QED BY <1>1, <2>1, <2>2, NextCases
<1> QED BY <1>1, ControlInvariant, PTL DEF Spec, ScatterBeforeCombine

-----------------------------------------------------------------------------
(* Sums over the experts or the ranks, as cardinalities.                    *)
LEMMA NatMinimum ==
  ASSUME NEW T, T \subseteq Nat, T # {}
  PROVE  \E x \in T : \A y \in T : x <= y
<1>1. \E x \in T : \A y \in T : ~ (<<y, x>> \in OpToRel(<, Nat))
  BY NatLessThanWellFounded, WFMin
<1>2. \A x, y \in Nat : <<y, x>> \in OpToRel(<, Nat) <=> y < x
  BY DEF OpToRel
<1>3. \E x \in T : \A y \in T : ~ (y < x)
  BY <1>1, <1>2, Zenon
<1> QED BY <1>3

\* The sets A[x], side by side.
Stacked(A, S) == UNION {{x} \X A[x] : x \in S}

LEMMA StackedTwo ==
  ASSUME NEW A
  PROVE  /\ Stacked(A, {}) = {}
         /\ \A S : \A x : x \notin S /\ IsFiniteSet(Stacked(A, S)) /\ IsFiniteSet(A[x])
              => /\ IsFiniteSet(Stacked(A, S \cup {x}))
                 /\ Cardinality(Stacked(A, S \cup {x})) =
                      Cardinality(Stacked(A, S)) + Cardinality(A[x])
<1>1. Stacked(A, {}) = {} BY DEF Stacked
<1>2. ASSUME NEW S, NEW x, x \notin S, IsFiniteSet(Stacked(A, S)), IsFiniteSet(A[x])
      PROVE  /\ IsFiniteSet(Stacked(A, S \cup {x}))
             /\ Cardinality(Stacked(A, S \cup {x})) =
                  Cardinality(Stacked(A, S)) + Cardinality(A[x])
  <2> DEFINE R == {x} \X A[x]
             b == [k \in A[x] |-> <<x, k>>]
  <2>1. Stacked(A, S \cup {x}) = Stacked(A, S) \cup R
    BY DEF Stacked
  <2>2. Stacked(A, S) \cap R = {}
    BY <1>2 DEF Stacked
  <2>3. IsFiniteSet(R) /\ Cardinality(R) = Cardinality(A[x])
    <3>1. b \in [A[x] -> R] OBVIOUS
    <3>2. \A k, l \in A[x] : b[k] = b[l] => k = l OBVIOUS
    <3>3. \A t \in R : \E k \in A[x] : b[k] = t OBVIOUS
    <3>4. b \in Bijection(A[x], R)
      BY <3>1, <3>2, <3>3 DEF Bijection, Injection, IsInjective, Surjection
    <3>5. ExistsBijection(A[x], R) BY <3>4 DEF ExistsBijection
    <3> QED BY <1>2, <3>5, FS_Bijection
  <2> HIDE DEF R
  <2>4. /\ IsFiniteSet(Stacked(A, S) \cup R)
        /\ Cardinality(Stacked(A, S) \cup R) =
             Cardinality(Stacked(A, S)) + Cardinality(R) - Cardinality(Stacked(A, S) \cap R)
    BY <1>2, <2>3, FS_Union
  <2>5. Cardinality(Stacked(A, S)) \in Nat /\ Cardinality(A[x]) \in Nat
    BY <1>2, FS_CardinalityType
  <2>6. Cardinality(Stacked(A, S) \cap R) = 0 BY <2>2, FS_EmptySet
  <2>7. IsFiniteSet(Stacked(A, S \cup {x})) BY <2>1, <2>4
  <2>8. PICK m, n, k : /\ m = Cardinality(Stacked(A, S)) /\ n = Cardinality(A[x])
                       /\ k = Cardinality(Stacked(A, S \cup {x}))
    OBVIOUS
  <2>9. k = m + n - 0 BY <2>1, <2>3, <2>4, <2>6, <2>8
  <2>10. k = m + n BY <2>5, <2>8, <2>9
  <2> QED BY <2>7, <2>8, <2>10
<1> QED BY <1>1, <1>2

LEMMA SumOfSizes ==
  ASSUME NEW S, IsFiniteSet(S), NEW A, NEW f,
         \A x \in S : IsFiniteSet(A[x]) /\ f[x] = Cardinality(A[x])
  PROVE  /\ IsFiniteSet(Stacked(A, S))
         /\ SumFunctionOnSet(f, S) = Cardinality(Stacked(A, S))
<1> DEFINE C(s) == CHOOSE x \in s : TRUE
<1> DEFINE Fold(g) == [s \in SUBSET S |-> IF s = {} THEN 0 ELSE f[C(s)] + g[s \ {C(s)}]]
<1>0. \A x \in S : f[x] \in Nat BY FS_CardinalityType
<1>1. SumFunctionOnSet(f, S) = (CHOOSE g : g = Fold(g))[S]
  BY DEF SumFunctionOnSet, FoldFunctionOnSet, MapThenFoldSet
<1>2. ASSUME NEW s \in SUBSET S, s # {} PROVE C(s) \in s
  BY <1>2
<1> HIDE DEF C
<1>3. ASSUME NEW s \in SUBSET S PROVE IsFiniteSet(s) /\ Cardinality(s) \in Nat
  BY <1>3, FS_Subset, FS_CardinalityType
<1>4. ASSUME NEW s \in SUBSET S, s # {}
      PROVE  /\ s \ {C(s)} \in SUBSET S
             /\ Cardinality(s \ {C(s)}) = Cardinality(s) - 1
             /\ s = (s \ {C(s)}) \cup {C(s)}
  <2>1. C(s) \in s BY <1>2, <1>4
  <2>2. IsFiniteSet(s) BY <1>3
  <2>3. Cardinality(s \ {C(s)}) = Cardinality(s) - 1 BY <2>1, <2>2, FS_RemoveElement
  <2> QED BY <2>1, <2>3
<1>5. \A s \in SUBSET S : IsFiniteSet(Stacked(A, s))
  <2> DEFINE Bad == {s \in SUBSET S : ~IsFiniteSet(Stacked(A, s))}
             Sizes_ == {Cardinality(s) : s \in Bad}
  <2> SUFFICES ASSUME Bad # {} PROVE FALSE
    OBVIOUS
  <2>1. Sizes_ \subseteq Nat /\ Sizes_ # {} BY <1>3
  <2>2. \E n \in Sizes_ : \A k \in Sizes_ : n <= k BY <2>1, NatMinimum
  <2>3. PICK s \in Bad : \A u \in Bad : Cardinality(s) <= Cardinality(u) BY <2>2
  <2>4. s # {} BY <2>3, StackedTwo, FS_EmptySet
  <2>5. s \ {C(s)} \notin Bad BY <1>3, <1>4, <2>3, <2>4
  <2>6. IsFiniteSet(Stacked(A, s \ {C(s)})) BY <1>4, <2>4, <2>5
  <2>7. C(s) \notin s \ {C(s)} /\ IsFiniteSet(A[C(s)]) BY <1>2, <2>4
  <2>8. IsFiniteSet(Stacked(A, (s \ {C(s)}) \cup {C(s)}))
    BY <2>6, <2>7, StackedTwo
  <2> QED BY <1>4, <2>3, <2>4, <2>8
<1>6. ASSUME NEW s \in SUBSET S, s # {}
      PROVE  Cardinality(Stacked(A, s)) = f[C(s)] + Cardinality(Stacked(A, s \ {C(s)}))
  <2> DEFINE x == C(s)
             t == s \ {x}
  <2>1. /\ x \notin t /\ IsFiniteSet(A[x]) /\ f[x] = Cardinality(A[x]) /\ f[x] \in Nat
        /\ IsFiniteSet(Stacked(A, t)) /\ s = t \cup {x}
    BY <1>0, <1>2, <1>4, <1>5, <1>6
  <2>2. Cardinality(Stacked(A, t)) \in Nat BY <2>1, FS_CardinalityType
  <2> HIDE DEF x, t
  <2>3. Cardinality(Stacked(A, t \cup {x})) = Cardinality(Stacked(A, t)) + Cardinality(A[x])
    BY <2>1, StackedTwo
  <2>4. Cardinality(Stacked(A, s)) = f[x] + Cardinality(Stacked(A, t))
    BY <2>1, <2>2, <2>3
  <2> QED BY <2>4 DEF x, t
<1> DEFINE h == [s \in SUBSET S |-> Cardinality(Stacked(A, s))]
<1>7. h = Fold(h)
  <2>1. ASSUME NEW s \in SUBSET S
        PROVE  h[s] = IF s = {} THEN 0 ELSE f[C(s)] + h[s \ {C(s)}]
    <3>1. CASE s = {} BY <3>1, StackedTwo, FS_EmptySet
    <3>2. CASE s # {} BY <1>4, <1>6, <3>2
    <3> QED BY <3>1, <3>2
  <2> QED BY <2>1
<1>8. \E g : g = Fold(g) BY <1>7
<1>9. PICK g : g = Fold(g) /\ g = CHOOSE k : k = Fold(k)
  BY <1>8
<1>10. \A s \in SUBSET S : g[s] = Cardinality(Stacked(A, s))
  <2>1. ASSUME NEW s \in SUBSET S
        PROVE  g[s] = IF s = {} THEN 0 ELSE f[C(s)] + g[s \ {C(s)}]
    BY <1>9
  <2> DEFINE Bad == {s \in SUBSET S : g[s] # Cardinality(Stacked(A, s))}
             Sizes_ == {Cardinality(s) : s \in Bad}
  <2> SUFFICES ASSUME Bad # {} PROVE FALSE
    OBVIOUS
  <2>2. Sizes_ \subseteq Nat /\ Sizes_ # {} BY <1>3
  <2>3. \E n \in Sizes_ : \A k \in Sizes_ : n <= k BY <2>2, NatMinimum
  <2>4. PICK s \in Bad : \A u \in Bad : Cardinality(s) <= Cardinality(u) BY <2>3
  <2>5. s # {} BY <2>1, <2>4, StackedTwo, FS_EmptySet
  <2>6. s \ {C(s)} \notin Bad BY <1>3, <1>4, <2>4, <2>5
  <2>7. g[s \ {C(s)}] = Cardinality(Stacked(A, s \ {C(s)})) BY <1>4, <2>5, <2>6
  <2> QED BY <1>6, <2>1, <2>4, <2>5, <2>7
<1>11. S \in SUBSET S OBVIOUS
<1> QED BY <1>1, <1>5, <1>9, <1>10, <1>11

-----------------------------------------------------------------------------
(* The ranges that the programs of a rank reserve.                          *)
Live(r) == stage[r] \in {"kernel", "close"}
Reserved == Phases \ {"reserve"}
Enqueued == Reserved \ {"enqueue"}

\* The routes of a rank to an expert.
To(r, e) == {i \in DOMAIN Topk(r) : Topk(r)[i] = e}

\* The slots that a program has reserved, and the routes of the programs that have.
Slots(r, s, e) == base[r][s][e] .. base[r][s][e] + Cardinality(ShareTo(r, s, e)) - 1
Taken(r, e) == UNION {ShareTo(r, s, e) : s \in {t \in SMs : pc[r][t] \in Reserved}}

Ledger(r, e) ==
  /\ send[r][e].ctas = PhaseCount(pc[r], Reserved)
  /\ send[r][e].routes = Cardinality(Taken(r, e))
  /\ \A s \in SMs : pc[r][s] \in Reserved =>
       base[r][s][e] + Cardinality(ShareTo(r, s, e)) <= send[r][e].routes
  /\ \A s, t \in SMs : pc[r][s] \in Reserved /\ pc[r][t] \in Reserved /\ s # t =>
       \/ base[r][s][e] + Cardinality(ShareTo(r, s, e)) <= base[r][t][e]
       \/ base[r][t][e] + Cardinality(ShareTo(r, t, e)) <= base[r][s][e]
  /\ \A x \in 0 .. send[r][e].routes - 1 :
       \E s \in SMs : pc[r][s] \in Reserved /\ x \in Slots(r, s, e)

LedgerInv(r) ==
  /\ Live(r) => \A e \in Experts : Ledger(r, e)
  /\ stage[r] = "open" => \A e \in Experts : send[r][e] = Zero

LEMMA LiveFacts ==
  ASSUME ShapeInv, BarrierInv, NEW r \in Ranks, stage[r] # "idle"
  PROVE  /\ \A e \in Experts :
              /\ IsFiniteSet(To(r, e)) /\ Cardinality(To(r, e)) \in Nat
              /\ To(r, e) = UNION {ShareTo(r, s, e) : s \in SMs}
              /\ \A s \in SMs : ShareTo(r, s, e) \subseteq To(r, e)
              /\ \A s, t \in SMs : s # t => ShareTo(r, s, e) \cap ShareTo(r, t, e) = {}
<1>0. /\ \A i \in DOMAIN Topk(r) : Topk(r)[i] \in Experts \cup {-1}
      /\ DOMAIN Topk(r) \subseteq Nat
      /\ IsFiniteSet(DOMAIN Topk(r))
  BY TopkFacts
<1> SUFFICES ASSUME NEW e \in Experts
             PROVE  /\ IsFiniteSet(To(r, e)) /\ Cardinality(To(r, e)) \in Nat
                    /\ To(r, e) = UNION {ShareTo(r, s, e) : s \in SMs}
                    /\ \A s \in SMs : ShareTo(r, s, e) \subseteq To(r, e)
                    /\ \A s, t \in SMs : s # t => ShareTo(r, s, e) \cap ShareTo(r, t, e) = {}
  OBVIOUS
<1>1. IsFiniteSet(To(r, e)) /\ Cardinality(To(r, e)) \in Nat
  BY <1>0, FS_Subset, FS_CardinalityType DEF To
<1>2. \A s \in SMs : ShareTo(r, s, e) \subseteq To(r, e)
  BY DEF ShareTo, Share, To
<1>3. \A s, t \in SMs : s # t => ShareTo(r, s, e) \cap ShareTo(r, t, e) = {}
  BY DEF ShareTo, Share
<1>4. ASSUME NEW i \in To(r, e) PROVE \E s \in SMs : i \in ShareTo(r, s, e)
  <2>1. i \in Nat BY <1>0 DEF To
  <2>2. \A n \in Nat, b, m \in Nat \ {0} : (n \div b) % m \in 0 .. m - 1
    OBVIOUS
  <2>3. (i \div BLOCK_R) % NUM_SMS \in SMs BY <2>1, <2>2, Sizes DEF SMs
  <2>4. Topk(r)[i] >= 0 BY <1>0, Sizes DEF To, Experts
  <2> QED BY <2>3, <2>4 DEF ShareTo, Share, To
<1> QED BY <1>1, <1>2, <1>3, <1>4

LEMMA LedgerInit ==
  ASSUME Init, NEW r \in Ranks PROVE LedgerInv(r)
BY DEF Init, LedgerInv, Live

LEMMA LedgerKept ==
  ASSUME NEW r \in Ranks, LedgerInv(r), plans' = plans, launch'[r] = launch[r],
         send'[r] = send[r], base'[r] = base[r],
         \A x \in SMs : pc'[r][x] \in Reserved <=> pc[r][x] \in Reserved,
         Live(r)' => Live(r), stage'[r] = "open" => stage[r] = "open"
  PROVE  LedgerInv(r)'
<1>1. Topk(r)' = Topk(r) BY DEF Topk
<1>2. \A s, e : ShareTo(r, s, e)' = ShareTo(r, s, e) BY <1>1 DEF ShareTo, Share
<1>3. PhaseCount(pc[r], Reserved)' = PhaseCount(pc[r], Reserved)
  BY DEF PhaseCount
<1>4. \A e : Taken(r, e)' = Taken(r, e) BY <1>2 DEF Taken
<1>5. \A s, e : Slots(r, s, e)' = Slots(r, s, e) BY <1>2 DEF Slots
<1>6. ASSUME NEW e \in Experts, Ledger(r, e) PROVE Ledger(r, e)'
  BY <1>2, <1>3, <1>4, <1>5, <1>6 DEF Ledger
<1> QED BY <1>6 DEF LedgerInv

LEMMA LedgerHost ==
  ASSUME ShapeInv, BarrierInv, NEW r \in Ranks, LedgerInv(r), Host(r)
  PROVE  LedgerInv(r)'
<1> USE DEF host, counts, sync, results, roles
<1>1. CASE Prepare(r)
  <2>1. stage'[r] = "open" /\ \A e \in Experts : send'[r][e] = Zero
    BY <1>1 DEF Prepare, Goto, BarrierInv, ShapeInv
  <2> QED BY <2>1 DEF LedgerInv, Live
<1>2. CASE StartKernel(r)
  <2>1. /\ stage[r] = "open" /\ stage'[r] = "kernel" /\ send' = send
        /\ \A x \in SMs : pc'[r][x] = "reserve"
    BY <1>2 DEF StartKernel, Goto, BarrierInv, ShapeInv
  <2>2. ASSUME NEW e \in Experts PROVE Ledger(r, e)'
    <3>1. send'[r][e].ctas = 0 /\ send'[r][e].routes = 0
      BY <2>1 DEF LedgerInv, Zero
    <3>2. \A x \in SMs : pc'[r][x] \notin Reserved BY <2>1 DEF Reserved
    <3>3. PhaseCount(pc'[r], Reserved) = 0 BY <3>2, CountEnds
    <3>4. Taken(r, e)' = {} BY <3>2 DEF Taken
    <3>5. Cardinality(Taken(r, e)') = 0 BY <3>4, FS_EmptySet
    <3>6. 0 .. send'[r][e].routes - 1 = {} BY <3>1
    <3> QED BY <3>1, <3>2, <3>3, <3>5, <3>6 DEF Ledger
  <2> QED BY <2>1, <2>2 DEF LedgerInv
<1>3. CASE EndKernel(r) \/ Close(r)
  <2>1. /\ plans' = plans /\ launch' = launch /\ send' = send /\ base' = base /\ pc' = pc
        /\ stage[r] \in {"kernel", "close"} /\ stage'[r] # "open"
    BY <1>3 DEF EndKernel, Close, Goto, BarrierInv
  <2>2. /\ Live(r)' => Live(r)
        /\ stage'[r] = "open" => stage[r] = "open"
    BY <2>1 DEF Live
  <2> QED BY <2>1, <2>2, LedgerKept
<1> QED BY <1>1, <1>2, <1>3 DEF Host

LEMMA LedgerReserve ==
  ASSUME ShapeInv, BarrierInv, NEW r \in Ranks, NEW s \in SMs, LedgerInv(r), Reserve(r, s)
  PROVE  LedgerInv(r)'
<1>1. /\ plans' = plans /\ launch' = launch /\ stage' = stage
      /\ pc[r][s] = "reserve" /\ pc'[r][s] = "enqueue" /\ stage[r] = "kernel"
      /\ \A t \in SMs \ {s} : pc'[r][t] = pc[r][t] /\ base'[r][t] = base[r][t]
  BY DEF Reserve, Step, ShapeInv, host
<1>2. Topk(r)' = Topk(r) BY <1>1 DEF Topk
<1>3. \A t, e : ShareTo(r, t, e)' = ShareTo(r, t, e) BY <1>2 DEF ShareTo, Share
<1>4. ASSUME NEW e \in Experts PROVE Ledger(r, e)'
  <2>1. Ledger(r, e) BY <1>1 DEF LedgerInv, Live
  <2> PICK n : n = Cardinality(ShareTo(r, s, e)) OBVIOUS
  <2> PICK m : m = send[r][e].routes OBVIOUS
  <2>2. n \in Nat /\ IsFiniteSet(ShareTo(r, s, e))
    BY <1>1, ShareFacts
  <2>3. m \in Nat /\ send[r][e].ctas \in Nat BY DEF ShapeInv, Status
  <2>4. /\ send'[r][e].ctas = send[r][e].ctas + 1
        /\ send'[r][e].routes = m + n
        /\ base'[r][s][e] = m
    <3>1. send'[r] = [f \in Experts |->
                [ctas   |-> send[r][f].ctas + 1,
                 routes |-> send[r][f].routes + Cardinality(ShareTo(r, s, f))]]
      BY DEF Reserve, ShapeInv
    <3>2. base'[r][s] = [f \in Experts |-> send[r][f].routes]
      BY DEF Reserve, ShapeInv
    <3> HIDE DEF Experts
    <3> QED BY <3>1, <3>2
  <2>5. PhaseCount(pc'[r], Reserved) = PhaseCount(pc[r], Reserved) + 1
    <3>1. pc[r][s] \notin Reserved /\ pc'[r][s] \in Reserved
      BY <1>1 DEF Reserved, Phases
    <3> QED BY <1>1, <3>1, CountStep
  <2>6. send'[r][e].ctas = PhaseCount(pc'[r], Reserved)
    BY <2>1, <2>4, <2>5 DEF Ledger
  <2>7. \A t \in SMs : pc'[r][t] \in Reserved <=> t = s \/ pc[r][t] \in Reserved
    BY <1>1 DEF Reserved, Phases
  <2>8. pc[r][s] \notin Reserved BY <1>1 DEF Reserved
  <2>9. send'[r][e].routes = Cardinality(Taken(r, e)')
    <3>1. Taken(r, e)' = Taken(r, e) \cup ShareTo(r, s, e)
      BY <1>3, <2>7 DEF Taken
    <3>2. Taken(r, e) \cap ShareTo(r, s, e) = {}
      BY <1>1, <2>8, LiveFacts DEF Taken
    <3>3. Taken(r, e) \subseteq To(r, e) /\ IsFiniteSet(To(r, e))
      BY <1>1, LiveFacts DEF Taken
    <3>4. IsFiniteSet(Taken(r, e)) BY <3>3, FS_Subset
    <3>5. Cardinality(Taken(r, e) \cup ShareTo(r, s, e)) =
            Cardinality(Taken(r, e)) + Cardinality(ShareTo(r, s, e)) -
              Cardinality(Taken(r, e) \cap ShareTo(r, s, e))
      BY <2>2, <3>4, FS_Union
    <3>6. Cardinality(Taken(r, e) \cap ShareTo(r, s, e)) = 0 BY <3>2, FS_EmptySet
    <3>7. Cardinality(Taken(r, e)) = m BY <2>1 DEF Ledger
    <3> QED BY <2>2, <2>3, <2>4, <3>1, <3>5, <3>6, <3>7
  <2>10. \A t \in SMs : Cardinality(ShareTo(r, t, e)) \in Nat /\ base[r][t][e] \in Nat
    <3>1. \A t \in SMs : Cardinality(ShareTo(r, t, e)) \in Nat BY <1>1, ShareFacts
    <3>2. \A t \in SMs : base[r][t][e] \in Nat BY DEF ShapeInv
    <3> QED BY <3>1, <3>2
  <2>11. \A t \in SMs : pc'[r][t] \in Reserved =>
           base'[r][t][e] + Cardinality(ShareTo(r, t, e)) <= send'[r][e].routes
    <3> SUFFICES ASSUME NEW t \in SMs, pc'[r][t] \in Reserved
                 PROVE  base'[r][t][e] + Cardinality(ShareTo(r, t, e)) <= m + n
      BY <2>4
    <3>1. CASE t = s BY <2>2, <2>3, <2>4, <3>1
    <3>2. CASE t # s
      <4>1. base[r][t][e] + Cardinality(ShareTo(r, t, e)) <= m
        BY <2>1, <2>7, <3>2 DEF Ledger
      <4> QED BY <1>1, <2>2, <2>3, <2>10, <3>2, <4>1
    <3> QED BY <3>1, <3>2
  <2>12. \A t, u \in SMs : pc'[r][t] \in Reserved /\ pc'[r][u] \in Reserved /\ t # u =>
           \/ base'[r][t][e] + Cardinality(ShareTo(r, t, e)) <= base'[r][u][e]
           \/ base'[r][u][e] + Cardinality(ShareTo(r, u, e)) <= base'[r][t][e]
    <3>1. \A t \in SMs \ {s} : pc[r][t] \in Reserved =>
            base'[r][t][e] + Cardinality(ShareTo(r, t, e)) <= base'[r][s][e]
      BY <1>1, <2>1, <2>4 DEF Ledger
    <3>2. \A t, u \in SMs \ {s} : pc[r][t] \in Reserved /\ pc[r][u] \in Reserved /\ t # u =>
           \/ base'[r][t][e] + Cardinality(ShareTo(r, t, e)) <= base'[r][u][e]
           \/ base'[r][u][e] + Cardinality(ShareTo(r, u, e)) <= base'[r][t][e]
      BY <1>1, <2>1 DEF Ledger
    <3> QED BY <2>7, <3>1, <3>2
  <2>13. \A x \in 0 .. send'[r][e].routes - 1 :
           \E t \in SMs : pc'[r][t] \in Reserved /\ x \in Slots(r, t, e)'
    <3> SUFFICES ASSUME NEW x \in 0 .. send'[r][e].routes - 1
                 PROVE  \E t \in SMs : pc'[r][t] \in Reserved /\ x \in Slots(r, t, e)'
      OBVIOUS
    <3>0. x \in 0 .. m + n - 1 BY <2>2, <2>3, <2>4
    <3>1. CASE x < m
      <4>1. x \in 0 .. m - 1 BY <2>2, <2>3, <3>0, <3>1
      <4>2. PICK t \in SMs : pc[r][t] \in Reserved /\ x \in Slots(r, t, e)
        BY <2>1, <4>1 DEF Ledger
      <4>3. t # s BY <2>8, <4>2
      <4>4. Slots(r, t, e)' = Slots(r, t, e) BY <1>1, <1>3, <4>3 DEF Slots
      <4> QED BY <2>7, <4>2, <4>4
    <3>2. CASE x >= m
      <4>1. x \in m .. m + n - 1 BY <2>2, <2>3, <3>0, <3>2
      <4>2. Slots(r, s, e)' = m .. m + n - 1 BY <1>3, <2>4 DEF Slots
      <4> QED BY <2>7, <4>1, <4>2
    <3> QED BY <2>2, <2>3, <3>0, <3>1, <3>2
  <2> QED BY <1>3, <2>6, <2>9, <2>11, <2>12, <2>13 DEF Ledger
<1> QED BY <1>1, <1>4 DEF LedgerInv

\* Steps that reserve nothing and steps that write no route into a queue.
KeepsLedger ==
  /\ UNCHANGED <<plans, launch, stage, send, base>>
  /\ \A q \in Ranks, x \in SMs : pc'[q][x] \in Reserved <=> pc[q][x] \in Reserved
KeepsQueues ==
  /\ queue' = queue
  /\ \A q \in Ranks, x \in SMs : pc'[q][x] \in Enqueued <=> pc[q][x] \in Enqueued

LEMMA KeepsEnqueue ==
  ASSUME ShapeInv, NEW r \in Ranks, NEW s \in SMs, Enqueue(r, s)
  PROVE  KeepsLedger
<1>1. UNCHANGED <<plans, launch, stage, send, base>>
  BY DEF Enqueue, host, counts, sync, results, roles
<1>2. \A q \in Ranks, t \in SMs :
        \/ pc'[q][t] = pc[q][t]
        \/ pc[q][t] = "enqueue" /\ pc'[q][t] = "arrive"
  BY DEF Enqueue, Step, ShapeInv
<1> QED BY <1>1, <1>2 DEF KeepsLedger, KeepsQueues, Phases, Reserved, Enqueued

LEMMA KeepsArrive ==
  ASSUME ShapeInv, NEW r \in Ranks, NEW s \in SMs, Arrive(r, s)
  PROVE  KeepsLedger /\ KeepsQueues
<1>1. UNCHANGED <<plans, launch, stage, send, base, queue>>
  BY DEF Arrive, host, counts, sync, results, roles
<1>2. \A q \in Ranks, t \in SMs :
        \/ pc'[q][t] = pc[q][t]
        \/ pc[q][t] = "arrive" /\ pc'[q][t] = "grid"
  BY DEF Arrive, Step, ShapeInv
<1> QED BY <1>1, <1>2 DEF KeepsLedger, KeepsQueues, Phases, Reserved, Enqueued

LEMMA KeepsGrid ==
  ASSUME ShapeInv, NEW r \in Ranks, NEW s \in SMs, Grid(r, s)
  PROVE  KeepsLedger /\ KeepsQueues
<1>1. UNCHANGED <<plans, launch, stage, send, base, queue>>
  BY DEF Grid, host, counts, sync, results, roles
<1>2. \A q \in Ranks, t \in SMs :
        \/ pc'[q][t] = pc[q][t]
        \/ pc[q][t] = "grid" /\ pc'[q][t] = (IF s = 0 THEN "publish" ELSE "meet")
  BY DEF Grid, Step, ShapeInv
<1> QED BY <1>1, <1>2 DEF KeepsLedger, KeepsQueues, Phases, Reserved, Enqueued

LEMMA KeepsPublish ==
  ASSUME ShapeInv, NEW r \in Ranks, Publish(r)
  PROVE  KeepsLedger /\ KeepsQueues
<1>1. UNCHANGED <<plans, launch, stage, send, base, queue, pc>>
  BY DEF Publish, host, counts, sync, results, roles
<1> QED BY <1>1 DEF KeepsLedger, KeepsQueues

LEMMA KeepsSignal ==
  ASSUME ShapeInv, NEW r \in Ranks, Signal(r)
  PROVE  KeepsLedger /\ KeepsQueues
<1>1. UNCHANGED <<plans, launch, stage, send, base, queue>>
  BY DEF Signal, host, counts, sync, results, roles
<1>2. \A q \in Ranks, t \in SMs :
        \/ pc'[q][t] = pc[q][t]
        \/ pc[q][t] = "publish" /\ pc'[q][t] = "await"
  BY DEF Signal, Step, ShapeInv
<1> QED BY <1>1, <1>2 DEF KeepsLedger, KeepsQueues, Phases, Reserved, Enqueued

LEMMA KeepsAwait ==
  ASSUME ShapeInv, NEW r \in Ranks, Await(r)
  PROVE  KeepsLedger /\ KeepsQueues
<1>1. UNCHANGED <<plans, launch, stage, send, base, queue>>
  BY DEF Await, host, counts, sync, results, roles
<1>2. \A q \in Ranks, t \in SMs :
        \/ pc'[q][t] = pc[q][t]
        \/ pc[q][t] = "await" /\ pc'[q][t] = "meet"
  BY DEF Await, Step, ShapeInv
<1> QED BY <1>1, <1>2 DEF KeepsLedger, KeepsQueues, Phases, Reserved, Enqueued

LEMMA KeepsMeet ==
  ASSUME ShapeInv, NEW r \in Ranks, NEW s \in SMs, Meet(r, s)
  PROVE  KeepsLedger /\ KeepsQueues
<1>1. UNCHANGED <<plans, launch, stage, send, base, queue>>
  BY DEF Meet, host, counts, sync, results, roles
<1>2. \A q \in Ranks, t \in SMs :
        \/ pc'[q][t] = pc[q][t]
        \/ pc[q][t] = "meet" /\ pc'[q][t] = "met"
  BY DEF Meet, Step, ShapeInv
<1> QED BY <1>1, <1>2 DEF KeepsLedger, KeepsQueues, Phases, Reserved, Enqueued

LEMMA KeepsMet ==
  ASSUME ShapeInv, NEW r \in Ranks, NEW s \in SMs, Met(r, s)
  PROVE  KeepsLedger /\ KeepsQueues
<1>1. UNCHANGED <<plans, launch, stage, send, base, queue>>
  BY DEF Met, host, counts, sync, results, roles
<1>2. \A q \in Ranks, t \in SMs :
        \/ pc'[q][t] = pc[q][t]
        \/ pc[q][t] = "met" /\ pc'[q][t] = "pull"
  BY DEF Met, Step, ShapeInv
<1> QED BY <1>1, <1>2 DEF KeepsLedger, KeepsQueues, Phases, Reserved, Enqueued

LEMMA KeepsEndPull ==
  ASSUME ShapeInv, NEW r \in Ranks, NEW s \in SMs, EndPull(r, s)
  PROVE  KeepsLedger /\ KeepsQueues
<1>1. UNCHANGED <<plans, launch, stage, send, base, queue>>
  BY DEF EndPull, host, counts, sync, results, roles
<1>2. \A q \in Ranks, t \in SMs :
        \/ pc'[q][t] = pc[q][t]
        \/ pc[q][t] = "pull" /\ pc'[q][t] = "done"
  BY DEF EndPull, Step, ShapeInv
<1> QED BY <1>1, <1>2 DEF KeepsLedger, KeepsQueues, Phases, Reserved, Enqueued

LEMMA KeepsCopy ==
  ASSUME ShapeInv, NEW r \in Ranks, NEW s \in SMs, NEW j \in Streams, Copy(r, s, j)
  PROVE  KeepsLedger /\ KeepsQueues
<1>1. UNCHANGED <<plans, launch, stage, send, base, queue, pc>>
  BY DEF Copy, host, counts, sync, results, roles
<1> QED BY <1>1 DEF KeepsLedger, KeepsQueues

LEMMA KeepsAnnounce ==
  ASSUME ShapeInv, NEW r \in Ranks, NEW s \in SMs, NEW j \in Streams, Announce(r, s, j)
  PROVE  KeepsLedger /\ KeepsQueues
<1>1. UNCHANGED <<plans, launch, stage, send, base, queue, pc>>
  BY DEF Announce, host, counts, sync, results, roles
<1> QED BY <1>1 DEF KeepsLedger, KeepsQueues

LEMMA KeepsWaitReady ==
  ASSUME ShapeInv, NEW r \in Ranks, NEW s \in SMs, WaitReady(r, s)
  PROVE  KeepsLedger /\ KeepsQueues
<1>1. UNCHANGED <<plans, launch, stage, send, base, queue, pc>>
  BY DEF WaitReady, host, counts, sync, results, roles
<1> QED BY <1>1 DEF KeepsLedger, KeepsQueues

LEMMA KeepsScatter ==
  ASSUME ShapeInv, NEW r \in Ranks, NEW s \in SMs, Scatter(r, s)
  PROVE  KeepsLedger /\ KeepsQueues
<1>1. UNCHANGED <<plans, launch, stage, send, base, queue, pc>>
  BY DEF Scatter, host, counts, sync, results, roles
<1> QED BY <1>1 DEF KeepsLedger, KeepsQueues

LEMMA KeepsMathArrive ==
  ASSUME ShapeInv, NEW r \in Ranks, NEW s \in SMs, MathArrive(r, s)
  PROVE  KeepsLedger /\ KeepsQueues
<1>1. UNCHANGED <<plans, launch, stage, send, base, queue, pc>>
  BY DEF MathArrive, host, counts, sync, results, roles
<1> QED BY <1>1 DEF KeepsLedger, KeepsQueues

LEMMA KeepsMathGrid ==
  ASSUME ShapeInv, NEW r \in Ranks, NEW s \in SMs, MathGrid(r, s)
  PROVE  KeepsLedger /\ KeepsQueues
<1>1. UNCHANGED <<plans, launch, stage, send, base, queue, pc>>
  BY DEF MathGrid, host, counts, sync, results, roles
<1> QED BY <1>1 DEF KeepsLedger, KeepsQueues

LEMMA KeepsMathAwait ==
  ASSUME ShapeInv, NEW r \in Ranks, MathAwait(r)
  PROVE  KeepsLedger /\ KeepsQueues
<1>1. UNCHANGED <<plans, launch, stage, send, base, queue, pc>>
  BY DEF MathAwait, host, counts, sync, results, roles
<1> QED BY <1>1 DEF KeepsLedger, KeepsQueues

LEMMA KeepsMathMeet ==
  ASSUME ShapeInv, NEW r \in Ranks, NEW s \in SMs, MathMeet(r, s)
  PROVE  KeepsLedger /\ KeepsQueues
<1>1. UNCHANGED <<plans, launch, stage, send, base, queue, pc>>
  BY DEF MathMeet, host, counts, sync, results, roles
<1> QED BY <1>1 DEF KeepsLedger, KeepsQueues

LEMMA KeepsCombine ==
  ASSUME ShapeInv, NEW r \in Ranks, NEW s \in SMs, Combine(r, s)
  PROVE  KeepsLedger /\ KeepsQueues
<1>1. UNCHANGED <<plans, launch, stage, send, base, queue, pc>>
  BY DEF Combine, host, counts, sync, results, roles
<1> QED BY <1>1 DEF KeepsLedger, KeepsQueues

LEMMA KeepsStep ==
  ASSUME ShapeInv, NEW r \in Ranks, NEW s \in SMs, Dispatch(r, s) \/ Math(r, s)
  PROVE  Reserve(r, s) \/ (Enqueue(r, s) /\ KeepsLedger) \/ (KeepsLedger /\ KeepsQueues)
  BY KeepsEnqueue, KeepsArrive, KeepsGrid, KeepsPublish, KeepsSignal, KeepsAwait, KeepsMeet, KeepsMet, KeepsEndPull, KeepsCopy, KeepsAnnounce, KeepsWaitReady, KeepsScatter, KeepsMathArrive, KeepsMathGrid, KeepsMathAwait, KeepsMathMeet, KeepsCombine, Zenon
  DEF Dispatch, Math

LEMMA LedgerStep ==
  ASSUME ShapeInv, BarrierInv, NEW r \in Ranks, NEW s \in SMs, LedgerInv(r),
         Host(r) \/ Dispatch(r, s) \/ Math(r, s)
  PROVE  LedgerInv(r)'
<1>1. CASE KeepsLedger
  <2>1. Live(r)' => Live(r) BY <1>1 DEF KeepsLedger, Live
  <2> QED BY <1>1, <2>1, LedgerKept DEF KeepsLedger
<1> QED BY <1>1, KeepsStep, LedgerHost, LedgerReserve

LEMMA LedgerFrame ==
  ASSUME NEW q \in Ranks, LedgerInv(q), Own(q)' = Own(q), plans' = plans PROVE LedgerInv(q)'
<1>1. Live(q)' => Live(q) BY DEF Own, Live
<1> QED BY <1>1, LedgerKept DEF Own

-----------------------------------------------------------------------------
(* What the programs have written into the slots they reserved.             *)
Written(r, s, e) == {queue[Owner(e)][<<LocalOf(e), r, x>>] : x \in Slots(r, s, e)}

FilledInv(r) ==
  Live(r) =>
    \A s \in SMs : pc[r][s] \in Enqueued =>
      \A e \in Experts :
        /\ Slots(r, s, e) \subseteq 0 .. MAX_RECV - 1
        /\ Written(r, s, e) = ShareTo(r, s, e)

LEMMA IntervalSize ==
  ASSUME NEW b \in Nat, NEW n \in Nat
  PROVE  IsFiniteSet(b .. b + n - 1) /\ Cardinality(b .. b + n - 1) = n
<1>1. PICK c \in Int : c = b + n - 1 OBVIOUS
<1>2. b \in Int OBVIOUS
<1>3. IsFiniteSet(b .. c) /\ Cardinality(b .. c) = IF b > c THEN 0 ELSE c - b + 1
  BY <1>2, FS_Interval
<1>4. (IF b > c THEN 0 ELSE c - b + 1) = n BY <1>1
<1> QED BY <1>1, <1>3, <1>4

LEMMA FilledInit ==
  ASSUME Init, NEW r \in Ranks PROVE FilledInv(r)
BY DEF Init, FilledInv, Live

LEMMA FilledKept ==
  ASSUME NEW r \in Ranks, FilledInv(r), plans' = plans, launch'[r] = launch[r],
         \A x \in SMs : pc'[r][x] \in Enqueued =>
           pc[r][x] \in Enqueued /\ base'[r][x] = base[r][x],
         Live(r)' => Live(r),
         \A p \in Ranks, l \in Local, x \in 0 .. MAX_RECV - 1 :
           queue'[p][<<l, r, x>>] = queue[p][<<l, r, x>>]
  PROVE  FilledInv(r)'
<1>1. Topk(r)' = Topk(r) BY DEF Topk
<1>2. \A s, e : ShareTo(r, s, e)' = ShareTo(r, s, e) BY <1>1 DEF ShareTo, Share
<1> SUFFICES ASSUME Live(r)', NEW s \in SMs, pc'[r][s] \in Enqueued, NEW e \in Experts
             PROVE  /\ Slots(r, s, e)' \subseteq 0 .. MAX_RECV - 1
                    /\ Written(r, s, e)' = ShareTo(r, s, e)'
  BY DEF FilledInv
<1>3. Slots(r, s, e)' = Slots(r, s, e) BY <1>2 DEF Slots
<1>4. /\ Slots(r, s, e) \subseteq 0 .. MAX_RECV - 1
      /\ Written(r, s, e) = ShareTo(r, s, e)
  BY DEF FilledInv
<1>5. Owner(e) \in Ranks /\ LocalOf(e) \in Local BY Ownership
<1>6. \A x \in Slots(r, s, e) :
        queue'[Owner(e)][<<LocalOf(e), r, x>>] = queue[Owner(e)][<<LocalOf(e), r, x>>]
  BY <1>4, <1>5
<1>7. Written(r, s, e)' = Written(r, s, e)
  BY <1>3, <1>6 DEF Written
<1> QED BY <1>2, <1>3, <1>4, <1>7

\* The routes that a program writes come to lie in its own slots, each once.
LEMMA EnqueueFills ==
  ASSUME ShapeInv, BarrierInv, NEW r \in Ranks, NEW s \in SMs, Enqueue(r, s), stage[r] # "idle"
  PROVE  /\ \A e \in Experts :
              /\ Slots(r, s, e) \subseteq 0 .. MAX_RECV - 1
              /\ {queue'[Owner(e)][<<LocalOf(e), r, x>>] : x \in Slots(r, s, e)}
                   = ShareTo(r, s, e)
         /\ \A q \in Ranks, l \in Local, p \in Ranks, x \in 0 .. MAX_RECV - 1 :
              \/ p = r /\ x \in Slots(r, s, q * EPR + l)
              \/ queue'[q][<<l, p, x>>] = queue[q][<<l, p, x>>]
<1> DEFINE Sent_(slot, q, x) == {i \in Share(r, s) :
                           /\ Owner(Topk(r)[i]) = q
                           /\ x = <<LocalOf(Topk(r)[i]), r, slot[i]>>}
<1>1. PICK slot \in [Share(r, s) -> 0 .. MAX_RECV - 1] :
        /\ Slotting(r, s, slot)
        /\ queue' = [q \in Ranks |-> [x \in DOMAIN queue[q] |->
             IF Sent_(slot, q, x) = {} THEN queue[q][x] ELSE CHOOSE i \in Sent_(slot, q, x) : TRUE]]
  BY DEF Enqueue
<1> DEFINE Sent1(q, x) == Sent_(slot, q, x)
<1>2. /\ IsFiniteSet(Share(r, s))
      /\ \A i \in Share(r, s) : i \in Nat /\ Topk(r)[i] \in Experts
      /\ \A e \in Experts : IsFiniteSet(ShareTo(r, s, e)) /\ Cardinality(ShareTo(r, s, e)) \in Nat
  BY ShareFacts
<1>3. \A e \in Experts : {slot[i] : i \in ShareTo(r, s, e)} = Slots(r, s, e)
  BY <1>1 DEF Slotting, Slots
<1>4. ASSUME NEW e \in Experts, NEW x
      PROVE  Sent1(Owner(e), <<LocalOf(e), r, x>>) = {i \in ShareTo(r, s, e) : slot[i] = x}
  <2>1. ASSUME NEW i \in Share(r, s), Owner(Topk(r)[i]) = Owner(e), LocalOf(Topk(r)[i]) = LocalOf(e)
        PROVE  Topk(r)[i] = e
    BY <1>2, <2>1, Ownership
  <2>2. \A i \in Sent1(Owner(e), <<LocalOf(e), r, x>>) :
          i \in Share(r, s) /\ Topk(r)[i] = e /\ slot[i] = x
    BY <2>1
  <2>3. \A i \in ShareTo(r, s, e) : slot[i] = x => i \in Sent1(Owner(e), <<LocalOf(e), r, x>>)
    BY DEF ShareTo
  <2> QED BY <2>2, <2>3 DEF ShareTo
<1>5. \A q \in Ranks : DOMAIN queue[q] = Local \X Ranks \X (0 .. MAX_RECV - 1)
  BY DEF ShapeInv
<1>6. ASSUME NEW q \in Ranks, NEW x \in Local \X Ranks \X (0 .. MAX_RECV - 1)
      PROVE  queue'[q][x] =
               IF Sent1(q, x) = {} THEN queue[q][x] ELSE CHOOSE i \in Sent1(q, x) : TRUE
  BY <1>1, <1>5
<1> HIDE DEF Sent1
<1>7. ASSUME NEW e \in Experts
      PROVE  /\ Slots(r, s, e) \subseteq 0 .. MAX_RECV - 1
             /\ {queue'[Owner(e)][<<LocalOf(e), r, x>>] : x \in Slots(r, s, e)} = ShareTo(r, s, e)
  <2>1. \A i \in ShareTo(r, s, e) : slot[i] \in 0 .. MAX_RECV - 1
    BY <1>1 DEF ShareTo
  <2>2. Slots(r, s, e) \subseteq 0 .. MAX_RECV - 1 BY <1>3, <2>1
  <2>3. Owner(e) \in Ranks /\ LocalOf(e) \in Local BY Ownership
  <2> DEFINE h == [i \in ShareTo(r, s, e) |-> slot[i]]
  <2>4. \A i, j \in ShareTo(r, s, e) : slot[i] = slot[j] => i = j
    <3>1. h \in Surjection(ShareTo(r, s, e), Slots(r, s, e))
      <4>1. h \in [ShareTo(r, s, e) -> Slots(r, s, e)] BY <1>3
      <4>2. \A x \in Slots(r, s, e) : \E i \in ShareTo(r, s, e) : h[i] = x BY <1>3
      <4> QED BY <4>1, <4>2 DEF Surjection
    <3>2. base[r][s][e] \in Nat BY DEF ShapeInv
    <3>3. Cardinality(Slots(r, s, e)) = Cardinality(ShareTo(r, s, e))
      <4>1. Cardinality(ShareTo(r, s, e)) \in Nat BY <1>2
      <4> QED BY <3>2, <4>1, IntervalSize DEF Slots
    <3>4. h \in Injection(ShareTo(r, s, e), Slots(r, s, e))
      BY <1>2, <3>1, <3>3, FS_Surjection
    <3> QED BY <3>4 DEF Injection, IsInjective
  <2>5. ASSUME NEW i \in ShareTo(r, s, e)
        PROVE  queue'[Owner(e)][<<LocalOf(e), r, slot[i]>>] = i
    <3>1. Sent1(Owner(e), <<LocalOf(e), r, slot[i]>>) = {i}
      BY <1>4, <2>4 DEF Sent1
    <3>2. <<LocalOf(e), r, slot[i]>> \in Local \X Ranks \X (0 .. MAX_RECV - 1)
      BY <2>1, <2>3
    <3> QED BY <1>6, <2>3, <3>1, <3>2
  <2>6. {queue'[Owner(e)][<<LocalOf(e), r, x>>] : x \in Slots(r, s, e)} =
          {queue'[Owner(e)][<<LocalOf(e), r, slot[i]>>] : i \in ShareTo(r, s, e)}
    BY <1>3
  <2>7. {queue'[Owner(e)][<<LocalOf(e), r, slot[i]>>] : i \in ShareTo(r, s, e)} = ShareTo(r, s, e)
    <3> HIDE DEF h
    <3>1. \A i \in ShareTo(r, s, e) : queue'[Owner(e)][<<LocalOf(e), r, slot[i]>>] = i
      BY <2>5
    <3> QED BY <3>1
  <2> QED BY <2>2, <2>6, <2>7
<1>8. ASSUME NEW q \in Ranks, NEW l \in Local, NEW p \in Ranks, NEW x \in 0 .. MAX_RECV - 1,
             ~(p = r /\ x \in Slots(r, s, q * EPR + l))
      PROVE  queue'[q][<<l, p, x>>] = queue[q][<<l, p, x>>]
  <2> DEFINE e == q * EPR + l
  <2>1. e \in Experts /\ Owner(e) = q /\ LocalOf(e) = l BY Ownership
  <2>2. Sent1(q, <<l, p, x>>) = {}
    <3>1. CASE p # r BY <3>1 DEF Sent1
    <3>2. CASE p = r
      <4>1. Sent1(q, <<l, p, x>>) = {i \in ShareTo(r, s, e) : slot[i] = x}
        BY <1>4, <2>1, <3>2
      <4>2. \A i \in ShareTo(r, s, e) : slot[i] # x BY <1>3, <1>8, <2>1, <3>2
      <4> QED BY <4>1, <4>2
    <3> QED BY <3>1, <3>2
  <2>3. <<l, p, x>> \in Local \X Ranks \X (0 .. MAX_RECV - 1) OBVIOUS
  <2> QED BY <1>6, <2>2, <2>3
<1> QED BY <1>7, <1>8

LEMMA FilledEnqueue ==
  ASSUME ShapeInv, BarrierInv, NEW r \in Ranks, NEW s \in SMs, LedgerInv(r), Enqueue(r, s),
         NEW q \in Ranks, FilledInv(q)
  PROVE  FilledInv(q)'
<1>0. /\ plans' = plans /\ launch' = launch /\ stage' = stage /\ base' = base
      /\ pc[r][s] = "enqueue" /\ pc'[r][s] = "arrive" /\ stage[r] = "kernel"
      /\ \A t \in SMs \ {s} : pc'[r][t] = pc[r][t]
      /\ \A p \in Ranks \ {r} : pc'[p] = pc[p]
  BY DEF Enqueue, Step, ShapeInv, host
<1>1. /\ \A e \in Experts :
           /\ Slots(r, s, e) \subseteq 0 .. MAX_RECV - 1
           /\ {queue'[Owner(e)][<<LocalOf(e), r, x>>] : x \in Slots(r, s, e)} = ShareTo(r, s, e)
      /\ \A p \in Ranks, l \in Local, u \in Ranks, x \in 0 .. MAX_RECV - 1 :
           \/ u = r /\ x \in Slots(r, s, p * EPR + l)
           \/ queue'[p][<<l, u, x>>] = queue[p][<<l, u, x>>]
  BY <1>0, EnqueueFills
<1>2. CASE q # r
  <2>1. Live(q)' => Live(q) BY <1>0 DEF Live
  <2>2. \A p \in Ranks, l \in Local, x \in 0 .. MAX_RECV - 1 :
          queue'[p][<<l, q, x>>] = queue[p][<<l, q, x>>]
    BY <1>1, <1>2
  <2> QED BY <1>0, <1>2, <2>1, <2>2, FilledKept
<1>3. CASE q = r
  <2>1. \A t, e : ShareTo(r, t, e)' = ShareTo(r, t, e) BY <1>0 DEF ShareTo, Share, Topk
  <2>2. \A t, e : Slots(r, t, e)' = Slots(r, t, e) BY <1>0, <2>1 DEF Slots
  <2> SUFFICES ASSUME NEW t \in SMs, pc'[r][t] \in Enqueued, NEW e \in Experts
               PROVE  /\ Slots(r, t, e) \subseteq 0 .. MAX_RECV - 1
                      /\ {queue'[Owner(e)][<<LocalOf(e), r, x>>] : x \in Slots(r, t, e)}
                           = ShareTo(r, t, e)
    BY <1>3, <2>1, <2>2 DEF FilledInv, Written
  <2>3. CASE t = s BY <1>1, <2>3
  <2>4. CASE t # s
    <3>1. pc[r][t] \in Enqueued BY <1>0, <2>4
    <3>2. /\ Slots(r, t, e) \subseteq 0 .. MAX_RECV - 1
          /\ Written(r, t, e) = ShareTo(r, t, e)
      BY <1>0, <1>3, <3>1 DEF FilledInv, Live
    <3>3. Slots(r, t, e) \cap Slots(r, s, e) = {}
      <4>1. Ledger(r, e) BY <1>0 DEF LedgerInv, Live
      <4>2. pc[r][t] \in Reserved /\ pc[r][s] \in Reserved
        BY <1>0, <3>1 DEF Enqueued, Reserved, Phases
      <4>3. /\ base[r][s][e] \in Nat /\ base[r][t][e] \in Nat BY DEF ShapeInv
      <4>4. Cardinality(ShareTo(r, s, e)) \in Nat /\ Cardinality(ShareTo(r, t, e)) \in Nat
        BY <1>0, ShareFacts
      <4>5. \/ base[r][s][e] + Cardinality(ShareTo(r, s, e)) <= base[r][t][e]
            \/ base[r][t][e] + Cardinality(ShareTo(r, t, e)) <= base[r][s][e]
        BY <2>4, <4>1, <4>2 DEF Ledger
      <4> QED BY <4>3, <4>4, <4>5 DEF Slots
    <3>4. Owner(e) \in Ranks /\ LocalOf(e) \in Local /\ Owner(e) * EPR + LocalOf(e) = e
      BY Ownership
    <3>5. \A x \in Slots(r, t, e) :
            queue'[Owner(e)][<<LocalOf(e), r, x>>] = queue[Owner(e)][<<LocalOf(e), r, x>>]
      <4> SUFFICES ASSUME NEW x \in Slots(r, t, e)
                   PROVE  queue'[Owner(e)][<<LocalOf(e), r, x>>] = queue[Owner(e)][<<LocalOf(e), r, x>>]
        OBVIOUS
      <4>1. x \in 0 .. MAX_RECV - 1 BY <3>2
      <4>2. x \notin Slots(r, s, Owner(e) * EPR + LocalOf(e)) BY <3>3, <3>4
      <4> QED BY <1>1, <3>4, <4>1, <4>2
    <3> QED BY <3>2, <3>5 DEF Written
  <2> QED BY <2>3, <2>4
<1> QED BY <1>2, <1>3

LEMMA FilledReserve ==
  ASSUME ShapeInv, NEW r \in Ranks, NEW s \in SMs, Reserve(r, s),
         NEW q \in Ranks, FilledInv(q)
  PROVE  FilledInv(q)'
<1>1. /\ plans' = plans /\ launch' = launch /\ stage' = stage /\ queue' = queue
      /\ \A x \in SMs : pc'[q][x] \in Enqueued =>
           pc[q][x] \in Enqueued /\ base'[q][x] = base[q][x]
  BY DEF Reserve, Step, ShapeInv, host, Enqueued, Reserved
<1>2. Live(q)' => Live(q) BY <1>1 DEF Live
<1> QED BY <1>1, <1>2, FilledKept

LEMMA FilledHost ==
  ASSUME ShapeInv, BarrierInv, NEW r \in Ranks, Host(r), FilledInv(r)
  PROVE  FilledInv(r)'
<1> USE DEF host, counts, roles
<1>1. CASE Prepare(r) BY <1>1 DEF Prepare, Goto, BarrierInv, FilledInv, Live
<1>2. CASE StartKernel(r)
  <2>1. \A x \in SMs : pc'[r][x] \notin Enqueued
    BY <1>2 DEF StartKernel, ShapeInv, Enqueued, Reserved
  <2> QED BY <2>1 DEF FilledInv
<1>3. CASE EndKernel(r) \/ Close(r)
  <2>1. /\ plans' = plans /\ launch' = launch /\ queue' = queue /\ base' = base /\ pc' = pc
        /\ stage[r] \in {"kernel", "close"}
    BY <1>3 DEF EndKernel, Close, Goto, BarrierInv
  <2>2. Live(r)' => Live(r) BY <2>1 DEF Live
  <2> QED BY <2>1, <2>2, FilledKept
<1> QED BY <1>1, <1>2, <1>3 DEF Host

LEMMA HostQueues ==
  ASSUME NEW r \in Ranks, Host(r)
  PROVE  UNCHANGED <<queue, plans>>
BY DEF Host, Prepare, StartKernel, EndKernel, Close, counts, host

LEMMA FilledStep ==
  ASSUME ShapeInv, BarrierInv, NEW r \in Ranks, NEW s \in SMs, LedgerInv(r),
         Host(r) \/ Dispatch(r, s) \/ Math(r, s), NEW q \in Ranks, FilledInv(q)
  PROVE  FilledInv(q)'
<1>1. CASE Host(r)
  <2>1. CASE q = r BY <1>1, <2>1, FilledHost
  <2>2. CASE q # r
    <3>1. Own(q)' = Own(q) BY <1>1, <2>2, Frame
    <3>2. queue' = queue /\ plans' = plans BY <1>1, HostQueues
    <3>3. launch'[q] = launch[q] /\ pc'[q] = pc[q] /\ base'[q] = base[q] /\ (Live(q)' => Live(q))
      BY <3>1 DEF Own, Live
    <3> QED BY <3>2, <3>3, FilledKept
  <2> QED BY <2>1, <2>2
<1>2. CASE KeepsLedger /\ KeepsQueues
  <2>1. Live(q)' => Live(q) BY <1>2 DEF KeepsLedger, Live
  <2> QED BY <1>2, <2>1, FilledKept DEF KeepsLedger, KeepsQueues
<1> QED BY <1>1, <1>2, KeepsStep, FilledReserve, FilledEnqueue

-----------------------------------------------------------------------------
(* The counts that the ranks publish.                                       *)
PlanTo(n, r, e) == {i \in DOMAIN plans[n][r] : plans[n][r][i] = e}
Shares(n, e) == [r \in Ranks |-> PlanTo(n, r, e)]

\* The ranks that have published, in the launch of rank q, the count of an expert.
Publishers(q, e) == {r \in Ranks : launch[r] = launch[q] /\ Live(r) /\ e \notin unsent[r]}

SumsInv(q) ==
  stage[q] \in {"open", "kernel"} =>
    \A e \in Experts : Owner(e) = q =>
      /\ rsum[q][LocalOf(e)].ctas = NUM_SMS * Cardinality(Publishers(q, e))
      /\ rsum[q][LocalOf(e)].routes =
           Cardinality(Stacked(Shares(launch[q], e), Publishers(q, e)))
      /\ \A r \in Publishers(q, e) :
           recv[q][<<r, LocalOf(e)>>] = Cardinality(PlanTo(launch[q], r, e))

LEMMA PlanToFacts ==
  ASSUME ShapeInv, NEW n \in 1 .. MaxLaunches, NEW e \in Experts
  PROVE  /\ \A r \in Ranks : /\ IsFiniteSet(PlanTo(n, r, e))
                             /\ Cardinality(PlanTo(n, r, e)) \in Nat
         /\ \A S \in SUBSET Ranks : IsFiniteSet(S) /\ IsFiniteSet(Stacked(Shares(n, e), S))
<1>1. ASSUME NEW r \in Ranks
      PROVE  /\ IsFiniteSet(PlanTo(n, r, e)) /\ Cardinality(PlanTo(n, r, e)) \in Nat
  <2>1. IsFiniteSet(DOMAIN plans[n][r]) BY PlanFacts
  <2> QED BY <2>1, FS_Subset, FS_CardinalityType DEF PlanTo
<1>2. ASSUME NEW S \in SUBSET Ranks
      PROVE  IsFiniteSet(S) /\ IsFiniteSet(Stacked(Shares(n, e), S))
  <2>1. IsFiniteSet(S) BY FiniteSizes, FS_Subset
  <2> DEFINE f == [r \in Ranks |-> Cardinality(PlanTo(n, r, e))]
  <2>2. \A x \in S : IsFiniteSet(Shares(n, e)[x]) /\ f[x] = Cardinality(Shares(n, e)[x])
    BY <1>1 DEF Shares
  <2> HIDE DEF f
  <2> QED BY <2>1, <2>2, SumOfSizes
<1> QED BY <1>1, <1>2

LEMMA SumsInit ==
  ASSUME Init, NEW q \in Ranks PROVE SumsInv(q)
BY DEF Init, SumsInv

LEMMA SumsKept ==
  ASSUME NEW q \in Ranks, SumsInv(q), plans' = plans, launch'[q] = launch[q],
         rsum'[q] = rsum[q], recv'[q] = recv[q],
         stage'[q] \in {"open", "kernel"} => stage[q] \in {"open", "kernel"},
         stage'[q] \in {"open", "kernel"} =>
           \A e \in Experts : Publishers(q, e)' = Publishers(q, e)
  PROVE  SumsInv(q)'
<1> SUFFICES ASSUME stage'[q] \in {"open", "kernel"}, NEW e \in Experts, Owner(e) = q
             PROVE  /\ rsum'[q][LocalOf(e)].ctas = NUM_SMS * Cardinality(Publishers(q, e)')
                    /\ rsum'[q][LocalOf(e)].routes =
                         Cardinality(Stacked(Shares(launch[q], e)', Publishers(q, e)'))
                    /\ \A r \in Publishers(q, e)' :
                         recv'[q][<<r, LocalOf(e)>>] = Cardinality(PlanTo(launch[q], r, e)')
  BY DEF SumsInv, Owner, LocalOf, Stacked
<1>4. Publishers(q, e)' = Publishers(q, e) OBVIOUS
<1>5. Shares(launch[q], e)' = Shares(launch[q], e) BY DEF Shares, PlanTo
<1>6. \A r : PlanTo(launch[q], r, e)' = PlanTo(launch[q], r, e) BY DEF PlanTo
<1> QED BY <1>4, <1>5, <1>6 DEF SumsInv

\* What the step of a rank other than publishing does not change.
LEMMA SumsOther ==
  ASSUME NEW r \in Ranks, NEW s \in SMs, Dispatch(r, s) \/ Math(r, s)
  PROVE  Publish(r) \/ UNCHANGED <<plans, launch, stage, unsent, recv, rsum>>
<1> USE DEF host, counts, roles
<1>1. ASSUME NEW j \in Streams, Copy(r, s, j)
      PROVE UNCHANGED <<plans, launch, stage, unsent, recv, rsum>>
  BY <1>1 DEF Copy
<1>2. ASSUME NEW j \in Streams, Announce(r, s, j)
      PROVE UNCHANGED <<plans, launch, stage, unsent, recv, rsum>>
  BY <1>2 DEF Announce
<1>3. Dispatch(r, s) => Publish(r) \/ UNCHANGED <<plans, launch, stage, unsent, recv, rsum>>
  BY <1>1, <1>2 DEF Dispatch, Reserve, Enqueue, Arrive, Grid, Signal, Await, Meet, Met, EndPull
<1>4. Math(r, s) => UNCHANGED <<plans, launch, stage, unsent, recv, rsum>>
  BY DEF Math, WaitReady, Scatter, MathArrive, MathGrid, MathAwait, MathMeet, Combine
<1> QED BY <1>3, <1>4

LEMMA SumsHost ==
  ASSUME ShapeInv, BarrierInv, NEW r \in Ranks, Host(r), NEW q \in Ranks, SumsInv(q)
  PROVE  SumsInv(q)'
<1>0. launch \in [Ranks -> Nat] BY DEF BarrierInv
<1>1. CASE Prepare(r)
  <2>1. /\ stage[r] = "idle" /\ stage'[r] = "open" /\ launch'[r] = launch[r] + 1
        /\ unsent' = unsent /\ plans' = plans
        /\ \A p \in Ranks \ {r} :
             stage'[p] = stage[p] /\ launch'[p] = launch[p] /\ rsum'[p] = rsum[p]
             /\ recv'[p] = recv[p]
        /\ \A l \in Local : rsum'[r][l] = Zero
    BY <1>1 DEF Prepare, Goto, BarrierInv, ShapeInv, roles, NewSums
  <2>2. CASE q = r
    <3>1. ASSUME NEW e \in Experts PROVE Publishers(r, e)' = {}
      <4>1. ASSUME NEW p \in Ranks, launch'[p] = launch'[r], Live(p)' PROVE FALSE
        <5>1. p # r BY <2>1, <4>1 DEF Live
        <5>2. stage[p] = "open" BY <2>1, <4>1, <5>1, NotYet
        <5> QED BY <2>1, <4>1, <5>1, <5>2 DEF Live
      <4> QED BY <4>1 DEF Publishers
    <3>2. Cardinality({}) = 0 BY FS_EmptySet
    <3>3. \A n, e : Stacked(Shares(n, e)', {}) = {} BY DEF Stacked
    <3>4. \A e \in Experts : LocalOf(e) \in Local BY Ownership
    <3>5. ASSUME NEW e \in Experts
          PROVE  /\ rsum'[r][LocalOf(e)].ctas = NUM_SMS * Cardinality(Publishers(r, e)')
                 /\ rsum'[r][LocalOf(e)].routes =
                      Cardinality(Stacked(Shares(launch[r], e), Publishers(r, e))')
                 /\ Publishers(r, e)' = {}
      <4>1. rsum'[r][LocalOf(e)].ctas = 0 /\ rsum'[r][LocalOf(e)].routes = 0
        BY <2>1, <3>4 DEF Zero
      <4>2. Stacked(Shares(launch[r], e), Publishers(r, e))' = {}
        BY <3>1 DEF Stacked
      <4> QED BY <3>1, <3>2, <4>1, <4>2, Sizes
    <3> QED BY <2>2, <3>5 DEF SumsInv, LocalOf, Owner
  <2>3. CASE q # r
    <3>1. ASSUME NEW e \in Experts PROVE Publishers(q, e)' = Publishers(q, e)
      <4>1. ~Live(r) /\ ~Live(r)' BY <2>1 DEF Live
      <4>2. \A p \in Ranks \ {r} : (Live(p)' <=> Live(p)) /\ launch'[p] = launch[p]
        BY <2>1 DEF Live
      <4> QED BY <2>1, <2>3, <4>1, <4>2 DEF Publishers
    <3> QED BY <2>1, <2>3, <3>1, SumsKept
  <2> QED BY <2>2, <2>3
<1>2. CASE StartKernel(r)
  <2>1. /\ stage[r] = "open" /\ stage'[r] = "kernel" /\ launch' = launch /\ plans' = plans
        /\ rsum' = rsum /\ recv' = recv
        /\ \A p \in Ranks \ {r} : stage'[p] = stage[p] /\ unsent'[p] = unsent[p]
        /\ unsent'[r] = Experts
    BY <1>2 DEF StartKernel, Goto, BarrierInv, ShapeInv, counts
  <2>2. ASSUME NEW e \in Experts PROVE Publishers(q, e)' = Publishers(q, e)
    <3>1. ~Live(r) BY <2>1 DEF Live
    <3>2. \A p \in Ranks \ {r} : Live(p)' <=> Live(p) BY <2>1 DEF Live
    <3> QED BY <2>1, <3>1, <3>2 DEF Publishers
  <2>3. stage'[q] \in {"open", "kernel"} => stage[q] \in {"open", "kernel"} BY <2>1
  <2> QED BY <2>1, <2>2, <2>3, SumsKept
<1>3. CASE EndKernel(r)
  <2>1. /\ stage[r] = "kernel" /\ stage'[r] = "close" /\ launch' = launch /\ plans' = plans
        /\ rsum' = rsum /\ recv' = recv /\ unsent' = unsent
        /\ \A p \in Ranks \ {r} : stage'[p] = stage[p]
    BY <1>3 DEF EndKernel, Goto, BarrierInv, counts, roles
  <2>2. \A p \in Ranks : Live(p)' <=> Live(p) BY <2>1 DEF Live
  <2>3. \A e \in Experts : Publishers(q, e)' = Publishers(q, e)
    BY <2>1, <2>2 DEF Publishers
  <2>4. stage'[q] \in {"open", "kernel"} => stage[q] \in {"open", "kernel"} BY <2>1
  <2> QED BY <2>1, <2>3, <2>4, SumsKept
<1>4. CASE Close(r)
  <2>1. /\ stage[r] = "close" /\ stage'[r] = "idle" /\ launch' = launch /\ plans' = plans
        /\ rsum' = rsum /\ recv' = recv /\ unsent' = unsent
        /\ \A p \in Ranks \ {r} : stage'[p] = stage[p]
        /\ entered[q] >= entered[r]
    BY <1>4 DEF Close, Goto, BarrierInv, BarrierOpen, counts, roles
  <2>2. stage'[q] \in {"open", "kernel"} => stage[q] \in {"open", "kernel"} /\ q # r BY <2>1
  <2>3. ASSUME stage'[q] \in {"open", "kernel"}, NEW e \in Experts
        PROVE  Publishers(q, e)' = Publishers(q, e)
    <3>1. launch[r] # launch[q]
      BY <2>1, <2>2, <2>3 DEF BarrierInv, Entries
    <3>2. \A p \in Ranks \ {r} : Live(p)' <=> Live(p) BY <2>1 DEF Live
    <3> QED BY <2>1, <3>1, <3>2 DEF Publishers
  <2> QED BY <2>1, <2>2, <2>3, SumsKept
<1> QED BY <1>1, <1>2, <1>3, <1>4 DEF Host

\* When program 0 publishes, all programs of the rank have reserved.
LEMMA PublishedFinal ==
  ASSUME ShapeInv, BarrierInv, NEW r \in Ranks, PhaseInv(r), LedgerInv(r),
         stage[r] = "kernel", pc[r][0] \in Past, NEW e \in Experts
  PROVE  /\ send[r][e].ctas = NUM_SMS
         /\ send[r][e].routes = Cardinality(PlanTo(launch[r], r, e))
<1>1. \A t \in SMs : pc[r][t] \in Arrived
  BY Sizes DEF PhaseInv, InKernel, BarriersHold
<1>2. \A t \in SMs : pc[r][t] \in Reserved
  BY <1>1 DEF Arrived, Reserved
<1>3. Ledger(r, e) BY DEF LedgerInv, Live
<1>4. send[r][e].ctas = NUM_SMS BY <1>2, <1>3, CountEnds DEF Ledger
<1>5. Taken(r, e) = UNION {ShareTo(r, s, e) : s \in SMs} BY <1>2 DEF Taken
<1>6. Taken(r, e) = To(r, e) BY <1>5, LiveFacts
<1>7. To(r, e) = PlanTo(launch[r], r, e) BY DEF To, PlanTo, Topk
<1> QED BY <1>3, <1>4, <1>6, <1>7 DEF Ledger

LEMMA SumsPublish ==
  ASSUME ShapeInv, BarrierInv, NEW r \in Ranks, PhaseInv(r), LedgerInv(r), Publish(r),
         NEW q \in Ranks, SumsInv(q)
  PROVE  SumsInv(q)'
<1>1. /\ pc[r][0] = "publish" /\ plans' = plans /\ launch' = launch /\ stage' = stage
  BY DEF Publish, host
<1>2. PICK f \in unsent[r] :
        /\ unsent' = [unsent EXCEPT ![r] = @ \ {f}]
        /\ recv' = [recv EXCEPT ![Owner(f)][<<r, LocalOf(f)>>] = send[r][f].routes]
        /\ rsum' = [rsum EXCEPT ![Owner(f)][LocalOf(f)] =
                      [ctas   |-> @.ctas + send[r][f].ctas,
                       routes |-> @.routes + send[r][f].routes]]
  BY DEF Publish
<1>3. stage[r] = "kernel" /\ 0 \in SMs BY <1>1, Sizes DEF ShapeInv
<1>4. f \in Experts BY <1>2 DEF ShapeInv
<1>5. Owner(f) \in Ranks /\ LocalOf(f) \in Local BY <1>4, Ownership
<1>6. launch[r] \in 1 .. MaxLaunches BY <1>3, TopkFacts
<1>7. /\ send[r][f].ctas = NUM_SMS
      /\ send[r][f].routes = Cardinality(PlanTo(launch[r], r, f))
  <2>1. pc[r][0] \in Past BY <1>1 DEF Past, Arrived, Phases
  <2> QED BY <1>3, <1>4, <2>1, PublishedFinal
<1>8. \A p \in Ranks : Live(p)' <=> Live(p) BY <1>1 DEF Live
<1>9. \A e \in Experts \ {f} : Publishers(q, e)' = Publishers(q, e)
  <2>1. \A p \in Ranks, e \in Experts \ {f} : e \in unsent'[p] <=> e \in unsent[p]
    BY <1>2 DEF ShapeInv
  <2> QED BY <1>1, <1>8, <2>1 DEF Publishers
<1>10. CASE q # Owner(f)
  <2>1. rsum'[q] = rsum[q] /\ recv'[q] = recv[q]
    BY <1>2, <1>10 DEF ShapeInv
  <2>2. ASSUME NEW e \in Experts, Owner(e) = q PROVE Publishers(q, e)' = Publishers(q, e)
    BY <1>9, <1>10, <2>2
  <2> QED
    <3> SUFFICES ASSUME stage'[q] \in {"open", "kernel"}, NEW e \in Experts, Owner(e) = q
             PROVE  /\ rsum'[q][LocalOf(e)].ctas = NUM_SMS * Cardinality(Publishers(q, e)')
                    /\ rsum'[q][LocalOf(e)].routes =
                         Cardinality(Stacked(Shares(launch[q], e)', Publishers(q, e)'))
                    /\ \A p \in Publishers(q, e)' :
                         recv'[q][<<p, LocalOf(e)>>] = Cardinality(PlanTo(launch[q], p, e)')
      BY DEF SumsInv, Owner, LocalOf, Stacked
    <3>1. Publishers(q, e)' = Publishers(q, e) BY <2>2
    <3>2. Shares(launch[q], e)' = Shares(launch[q], e) BY <1>1 DEF Shares, PlanTo
    <3>3. \A p : PlanTo(launch[q], p, e)' = PlanTo(launch[q], p, e) BY <1>1 DEF PlanTo
    <3> QED BY <1>1, <2>1, <3>1, <3>2, <3>3 DEF SumsInv
<1>11. CASE q = Owner(f)
  <2> SUFFICES ASSUME stage[q] \in {"open", "kernel"}, NEW e \in Experts, Owner(e) = q
             PROVE  /\ rsum'[q][LocalOf(e)].ctas = NUM_SMS * Cardinality(Publishers(q, e)')
                    /\ rsum'[q][LocalOf(e)].routes =
                         Cardinality(Stacked(Shares(launch[q], e)', Publishers(q, e)'))
                    /\ \A p \in Publishers(q, e)' :
                         recv'[q][<<p, LocalOf(e)>>] = Cardinality(PlanTo(launch[q], p, e)')
    BY <1>1 DEF SumsInv, Owner, LocalOf, Stacked
  <2>1. Shares(launch[q], e)' = Shares(launch[q], e) BY <1>1 DEF Shares, PlanTo
  <2>2. \A p : PlanTo(launch[q], p, e)' = PlanTo(launch[q], p, e) BY <1>1 DEF PlanTo
  <2>3. /\ rsum[q][LocalOf(e)].ctas = NUM_SMS * Cardinality(Publishers(q, e))
        /\ rsum[q][LocalOf(e)].routes =
             Cardinality(Stacked(Shares(launch[q], e), Publishers(q, e)))
        /\ \A p \in Publishers(q, e) :
             recv[q][<<p, LocalOf(e)>>] = Cardinality(PlanTo(launch[q], p, e))
    BY DEF SumsInv
  <2>4. LocalOf(e) \in Local BY Ownership
  <2>5. CASE e # f
    <3>1. LocalOf(e) # LocalOf(f) BY <1>4, <1>11, <2>5, Ownership
    <3>2. rsum'[q][LocalOf(e)] = rsum[q][LocalOf(e)]
      BY <1>2, <1>5, <1>11, <2>4, <3>1 DEF ShapeInv
    <3>3. \A p \in Ranks : recv'[q][<<p, LocalOf(e)>>] = recv[q][<<p, LocalOf(e)>>]
      BY <1>2, <1>5, <1>11, <2>4, <3>1 DEF ShapeInv
    <3>4. Publishers(q, e)' = Publishers(q, e) BY <1>9, <2>5
    <3>5. Publishers(q, e) \subseteq Ranks BY DEF Publishers
    <3> QED BY <2>1, <2>2, <2>3, <3>2, <3>3, <3>4, <3>5
  <2>6. CASE e = f
    <3>1. launch[q] = launch[r]
      <4>1. launch[q] <= launch[r] BY <1>3, Newest
      <4>2. launch[r] <= launch[q] BY Newest
      <4> QED BY <4>1, <4>2 DEF BarrierInv
    <3>2. Publishers(q, e)' = Publishers(q, e) \cup {r} /\ r \notin Publishers(q, e)
      <4>1. \A p \in Ranks : e \in unsent'[p] <=> e \in unsent[p] /\ p # r
        BY <1>2, <2>6 DEF ShapeInv
      <4>2. Live(r) BY <1>3 DEF Live
      <4> QED BY <1>1, <1>2, <1>8, <2>6, <3>1, <4>1, <4>2 DEF Publishers
    <3>3. rsum'[q][LocalOf(e)] =
            [ctas   |-> rsum[q][LocalOf(e)].ctas + send[r][e].ctas,
             routes |-> rsum[q][LocalOf(e)].routes + send[r][e].routes]
      BY <1>2, <1>5, <1>11, <2>4, <2>6 DEF ShapeInv
    <3>4. /\ recv'[q][<<r, LocalOf(e)>>] = send[r][e].routes
          /\ \A p \in Ranks \ {r} : recv'[q][<<p, LocalOf(e)>>] = recv[q][<<p, LocalOf(e)>>]
      BY <1>2, <1>5, <1>11, <2>4, <2>6 DEF ShapeInv
    <3> DEFINE P == Publishers(q, e)
               G == Shares(launch[q], e)
    <3>5. P \in SUBSET Ranks BY DEF Publishers
    <3>6. /\ IsFiniteSet(P) /\ IsFiniteSet(Stacked(G, P))
          /\ IsFiniteSet(G[r]) /\ Cardinality(G[r]) \in Nat
          /\ G[r] = PlanTo(launch[q], r, e)
      BY <1>6, <3>1, <3>5, PlanToFacts DEF Shares
    <3> HIDE DEF P, G
    <3>7. Cardinality(P \cup {r}) = Cardinality(P) + 1 /\ Cardinality(P) \in Nat
      BY <3>2, <3>6, FS_AddElement, FS_CardinalityType DEF P
    <3>8. Cardinality(Stacked(G, P \cup {r})) = Cardinality(Stacked(G, P)) + Cardinality(G[r])
      BY <3>2, <3>6, StackedTwo DEF P
    <3>9. rsum'[q][LocalOf(e)].ctas = NUM_SMS * Cardinality(Publishers(q, e)')
      <4>1. rsum'[q][LocalOf(e)].ctas = NUM_SMS * Cardinality(P) + NUM_SMS
        BY <1>7, <2>3, <2>6, <3>3 DEF P
      <4>2. NUM_SMS * (Cardinality(P) + 1) = NUM_SMS * Cardinality(P) + NUM_SMS
        BY <3>7, Sizes
      <4> QED BY <3>2, <3>7, <4>1, <4>2 DEF P
    <3>10. rsum'[q][LocalOf(e)].routes =
             Cardinality(Stacked(Shares(launch[q], e)', Publishers(q, e)'))
      <4>1. rsum'[q][LocalOf(e)].routes = Cardinality(Stacked(G, P)) + Cardinality(G[r])
        BY <1>7, <2>3, <2>6, <3>1, <3>3, <3>6 DEF P, G
      <4> QED BY <2>1, <3>2, <3>8, <4>1 DEF P, G
    <3>11. \A p \in Publishers(q, e)' :
             recv'[q][<<p, LocalOf(e)>>] = Cardinality(PlanTo(launch[q], p, e)')
      BY <1>7, <2>2, <2>3, <2>6, <3>1, <3>2, <3>4, <3>5 DEF P
    <3> QED BY <3>9, <3>10, <3>11
  <2> QED BY <2>5, <2>6
<1> QED BY <1>10, <1>11

LEMMA SumsStep ==
  ASSUME ShapeInv, BarrierInv, NEW r \in Ranks, NEW s \in SMs, PhaseInv(r), LedgerInv(r),
         Host(r) \/ Dispatch(r, s) \/ Math(r, s), NEW q \in Ranks, SumsInv(q)
  PROVE  SumsInv(q)'
<1>1. CASE UNCHANGED <<plans, launch, stage, unsent, recv, rsum>>
  <2>1. \A p \in Ranks : Live(p)' <=> Live(p) BY <1>1 DEF Live
  <2>2. \A e \in Experts : Publishers(q, e)' = Publishers(q, e)
    BY <1>1, <2>1 DEF Publishers
  <2> QED BY <1>1, <2>2, SumsKept
<1> QED BY <1>1, SumsOther, SumsHost, SumsPublish

-----------------------------------------------------------------------------
(* What the owners of the experts receive.                                  *)
CountsInv ==
  /\ ControlInv
  /\ \A r \in Ranks : LedgerInv(r) /\ FilledInv(r) /\ SumsInv(r)

LEMMA CountsInit == Init => CountsInv
  BY ControlInit, LedgerInit, FilledInit, SumsInit DEF CountsInv

LEMMA CountsStutter ==
  ASSUME CountsInv, UNCHANGED vars PROVE CountsInv'
<1>1. ControlInv' BY ControlStutter DEF CountsInv
<1>2. ASSUME NEW r \in Ranks PROVE LedgerInv(r)' /\ FilledInv(r)' /\ SumsInv(r)'
  <2>1. /\ LedgerInv(r) /\ FilledInv(r) /\ SumsInv(r) BY DEF CountsInv
  <2>2. UNCHANGED <<plans, launch, stage, send, base, pc, queue, rsum, recv, unsent>>
    BY DEF vars, host, counts, roles
  <2>3. Live(r)' => Live(r) BY <2>2 DEF Live
  <2>4. \A e : Publishers(r, e)' = Publishers(r, e) BY <2>2 DEF Publishers, Live
  <2>5. LedgerInv(r)' BY <2>1, <2>2, <2>3, LedgerKept
  <2>6. FilledInv(r)' BY <2>1, <2>2, <2>3, FilledKept
  <2>7. SumsInv(r)' BY <2>1, <2>2, <2>4, SumsKept
  <2> QED BY <2>5, <2>6, <2>7
<1> QED BY <1>1, <1>2 DEF CountsInv

LEMMA CountsStep ==
  ASSUME CountsInv, [Next]_vars PROVE CountsInv'
<1>1. CASE UNCHANGED vars BY <1>1, CountsStutter
<1>2. ASSUME NEW r \in Ranks, NEW s \in SMs, Host(r) \/ Dispatch(r, s) \/ Math(r, s)
      PROVE  CountsInv'
  <2>0. ShapeInv /\ BarrierInv /\ PhaseInv(r) /\ LedgerInv(r)
    BY DEF CountsInv, ControlInv
  <2>1. ControlInv' BY ControlStep DEF CountsInv
  <2>2. ASSUME NEW q \in Ranks PROVE LedgerInv(q)' /\ FilledInv(q)' /\ SumsInv(q)'
    <3>0. LedgerInv(q) /\ FilledInv(q) /\ SumsInv(q) BY DEF CountsInv
    <3>1. LedgerInv(q)'
      <4>1. CASE q = r BY <1>2, <2>0, <4>1, LedgerStep
      <4>2. CASE q # r
        <5>1. Own(q)' = Own(q) /\ plans' = plans BY <1>2, <2>0, <4>2, Frame
        <5> QED BY <3>0, <5>1, LedgerFrame
      <4> QED BY <4>1, <4>2
    <3>2. FilledInv(q)' BY <1>2, <2>0, <3>0, FilledStep
    <3>3. SumsInv(q)' BY <1>2, <2>0, <3>0, SumsStep
    <3> QED BY <3>1, <3>2, <3>3
  <2> QED BY <2>1, <2>2 DEF CountsInv
<1> QED BY <1>1, <1>2, NextCases

LEMMA CountsInvariant == Spec => []CountsInv
  BY CountsInit, CountsStep, PTL DEF Spec

LEMMA RoutesToPlan ==
  ASSUME NEW r, NEW q, NEW e PROVE RoutesTo(r, q, e) = PlanTo(launch[r], q, e)
  BY DEF RoutesTo, PlanTo

LEMMA FinalSums ==
  ASSUME CountsInv, NEW r \in Ranks, NEW l \in Local, InKernel(r),
         rsum[r][l].ctas = NUM_SMS * NPES
  PROVE  /\ rsum[r][l].routes =
              SumBelow(NPES, [q \in Ranks |-> Cardinality(RoutesTo(r, q, r * EPR + l))])
         /\ Publishers(r, r * EPR + l) = Ranks
<1> DEFINE e == r * EPR + l
           P == Publishers(r, e)
           G == Shares(launch[r], e)
           f == [q \in Ranks |-> Cardinality(RoutesTo(r, q, e))]
<1>1. e \in Experts /\ Owner(e) = r /\ LocalOf(e) = l BY Ownership
<1>2. ShapeInv /\ BarrierInv /\ SumsInv(r) BY DEF CountsInv, ControlInv
<1>3. stage[r] = "kernel" BY DEF InKernel
<1>4. launch[r] \in 1 .. MaxLaunches BY <1>2, <1>3, TopkFacts
<1>5. P \in SUBSET Ranks BY DEF Publishers
<1>6. /\ IsFiniteSet(P)
      /\ \A q \in Ranks : IsFiniteSet(G[q]) /\ f[q] = Cardinality(G[q])
  BY <1>1, <1>2, <1>4, <1>5, PlanToFacts, RoutesToPlan DEF Shares
<1>7. rsum[r][l].ctas = NUM_SMS * Cardinality(P) /\ rsum[r][l].routes = Cardinality(Stacked(G, P))
  BY <1>1, <1>2, <1>3 DEF SumsInv
<1> HIDE DEF P, G, f
<1>8. P = Ranks
  <2>1. Cardinality(P) \in Nat BY <1>6, FS_CardinalityType
  <2>2. ASSUME NEW a \in Nat \ {0}, NEW b \in Nat, NEW c \in Nat, a * b = a * c PROVE b = c
    BY <2>2
  <2>3. Cardinality(P) = NPES BY <1>7, <2>1, <2>2, Sizes
  <2> QED BY <1>5, <2>3, FiniteSizes, FS_Subset
<1>9. SumFunctionOnSet(f, Ranks) = Cardinality(Stacked(G, Ranks))
  BY <1>6, FiniteSizes, SumOfSizes
<1>10. SumBelow(NPES, f) = SumFunctionOnSet(f, Ranks) BY DEF SumBelow, Ranks
<1> QED BY <1>7, <1>8, <1>9, <1>10 DEF P, f

\* As soon as recv_sum counts the programs of all ranks its routes are final:
\* publishers add both halves of a status at once, and none is missing.
THEOREM CompleteSumsAreFinal == Spec => []SumsAreFinal
<1>1. CountsInv => SumsAreFinal BY FinalSums DEF SumsAreFinal
<1> QED BY <1>1, CountsInvariant, PTL

\* A rank that pulls has heard of all the others, which have written all routes.
LEMMA PullingHasAll ==
  ASSUME CountsInv, NEW r \in Ranks, NEW s \in SMs, InKernel(r), pc[r][s] \in Pulling,
         NEW q \in Ranks
  PROVE  /\ Live(q) /\ launch[q] = launch[r] /\ unsent[q] = {} /\ stage[q] # "idle"
         /\ \A t \in SMs : pc[q][t] \in Arrived
<1>1. /\ ShapeInv /\ BarrierInv /\ PhaseInv(r) /\ PhaseInv(q) /\ 0 \in SMs /\ AllHeard(r)
  BY Sizes DEF CountsInv, ControlInv, RankBarriers
<1>2. launch[q] = launch[r] /\ stage[q] # "idle" /\ launch[q] \in Nat
  BY <1>1, Newest DEF InKernel, BarrierInv
<1>3. pc[r][0] \in Awaited
  <2>1. pc[r][0] \in Counted BY <1>1 DEF PhaseInv, BarriersHold
  <2> QED BY <2>1 DEF Counted, Awaited, Announced, Past, Arrived, Phases
<1>4. Sent(q, 0)
  <2>1. SignalledIn(q, launch[r], 0) BY <1>1, <1>3 DEF AllHeard, InKernel
  <2> QED BY <1>2, <2>1 DEF SignalledIn
<1>5. Live(q) BY <1>1, <1>2, <1>4 DEF Live, Sent, BarrierInv
<1>6. unsent[q] = {}
  BY <1>1, <1>4 DEF Sent, PhaseInv, HandOver
<1>7. \A t \in SMs : pc[q][t] \in Arrived
  <2>1. CASE InKernel(q)
    <3>1. pc[q][0] \in Past BY <1>4 DEF Sent, Announced
    <3> QED BY <1>1, <2>1, <3>1 DEF PhaseInv, BarriersHold
  <2>2. CASE ~InKernel(q)
    BY <1>1, <2>2 DEF ShapeInv, InKernel, Arrived, Phases
  <2> QED BY <2>1, <2>2
<1> QED BY <1>2, <1>5, <1>6, <1>7

LEMMA FullQueues ==
  ASSUME CountsInv, NEW r \in Ranks, NEW s \in SMs, InKernel(r), pc[r][s] \in Pulling,
         NEW l \in Local, NEW q \in Ranks
  PROVE  LET count == recv[r][<<q, l>>]
             to    == RoutesTo(r, q, r * EPR + l)
         IN  /\ count = Cardinality(to)
             /\ count \in 0 .. MAX_RECV
             /\ {queue[r][<<l, q, x>>] : x \in 0 .. count - 1} = to
<1> DEFINE e == r * EPR + l
<1>1. e \in Experts /\ Owner(e) = r /\ LocalOf(e) = l BY Ownership
<1>2. /\ ShapeInv /\ BarrierInv /\ SumsInv(r) /\ LedgerInv(q) /\ FilledInv(q)
  BY DEF CountsInv, ControlInv
<1>3. /\ Live(q) /\ launch[q] = launch[r] /\ unsent[q] = {} /\ stage[q] # "idle"
      /\ \A t \in SMs : pc[q][t] \in Arrived
  BY PullingHasAll
<1>4. To(q, e) = RoutesTo(r, q, e) BY <1>3 DEF To, RoutesTo, Topk
<1>5. recv[r][<<q, l>>] = Cardinality(To(q, e))
  <2>1. q \in Publishers(r, e) BY <1>3 DEF Publishers
  <2>2. recv[r][<<q, l>>] = Cardinality(PlanTo(launch[r], q, e))
    BY <1>1, <1>2, <2>1 DEF SumsInv, InKernel
  <2> QED BY <1>4, <2>2, RoutesToPlan
<1>6. \A t \in SMs : pc[q][t] \in Reserved /\ pc[q][t] \in Enqueued
  BY <1>3 DEF Arrived, Reserved, Enqueued
<1>7. Ledger(q, e) BY <1>1, <1>2, <1>3 DEF LedgerInv
<1>8. To(q, e) = UNION {ShareTo(q, t, e) : t \in SMs} BY <1>1, <1>2, <1>3, LiveFacts
<1>9. send[q][e].routes = Cardinality(To(q, e))
  BY <1>6, <1>7, <1>8 DEF Ledger, Taken
<1>10. \A t \in SMs : /\ Slots(q, t, e) \subseteq 0 .. MAX_RECV - 1
                      /\ {queue[r][<<l, q, x>>] : x \in Slots(q, t, e)} = ShareTo(q, t, e)
  BY <1>1, <1>2, <1>3, <1>6 DEF FilledInv, Written
<1> PICK n : n = send[q][e].routes OBVIOUS
<1>11. n \in Nat BY <1>1, <1>2 DEF ShapeInv, Status
<1>12. \A x \in 0 .. n - 1 : \E t \in SMs : x \in Slots(q, t, e)
  BY <1>7 DEF Ledger
<1>13. \A t \in SMs : Slots(q, t, e) \subseteq 0 .. n - 1
  <2> SUFFICES ASSUME NEW t \in SMs PROVE Slots(q, t, e) \subseteq 0 .. n - 1
    OBVIOUS
  <2>1. base[q][t][e] \in Nat BY <1>1, <1>2 DEF ShapeInv
  <2>2. Cardinality(ShareTo(q, t, e)) \in Nat BY <1>1, <1>2, <1>3, ShareFacts
  <2>3. base[q][t][e] + Cardinality(ShareTo(q, t, e)) <= n BY <1>6, <1>7 DEF Ledger
  <2> QED BY <1>11, <2>1, <2>2, <2>3 DEF Slots
<1>14. {queue[r][<<l, q, x>>] : x \in 0 .. n - 1} = To(q, e)
  <2>1. ASSUME NEW x \in 0 .. n - 1 PROVE queue[r][<<l, q, x>>] \in To(q, e)
    <3>1. PICK t \in SMs : x \in Slots(q, t, e) BY <1>12
    <3> QED BY <1>8, <1>10, <3>1
  <2>2. ASSUME NEW i \in To(q, e) PROVE \E x \in 0 .. n - 1 : queue[r][<<l, q, x>>] = i
    <3>1. PICK t \in SMs : i \in ShareTo(q, t, e) BY <1>8
    <3>2. PICK x \in Slots(q, t, e) : queue[r][<<l, q, x>>] = i BY <1>10, <3>1
    <3> QED BY <1>13, <3>2
  <2> QED BY <2>1, <2>2
<1>15. n <= MAX_RECV
  <2>1. CASE n = 0 BY <2>1, Sizes
  <2>2. CASE n # 0
    <3>1. n - 1 \in 0 .. n - 1 BY <1>11, <2>2
    <3>2. n - 1 \in 0 .. MAX_RECV - 1 BY <1>10, <1>12, <3>1
    <3> QED BY <1>11, <3>2, Sizes
  <2> QED BY <2>1, <2>2
<1>16. recv[r][<<q, l>>] = n BY <1>5, <1>9
<1> QED BY <1>4, <1>5, <1>11, <1>14, <1>15, <1>16, Sizes

\* A program that pulls finds below the counts of its rank every route once.
THEOREM PulledQueuesAreComplete == Spec => []QueuesComplete
<1>1. CountsInv => QueuesComplete
  <2> SUFFICES ASSUME CountsInv, NEW r \in Ranks, NEW s \in SMs, InKernel(r), pc[r][s] = "pull",
                      NEW l \in Local, NEW q \in Ranks
               PROVE  LET count == recv[r][<<q, l>>]
                          to    == RoutesTo(r, q, r * EPR + l)
                      IN  /\ count = Cardinality(to)
                          /\ {queue[r][<<l, q, x>>] : x \in 0 .. count - 1} = to
    BY DEF QueuesComplete
  <2>1. pc[r][s] \in Pulling BY DEF Pulling
  <2> QED BY <2>1, FullQueues
<1> QED BY <1>1, CountsInvariant, PTL

-----------------------------------------------------------------------------
(* The order in which the routes of an expert are pulled.                   *)

\* The elements of a finite set of naturals can be counted through upwards.
LEMMA NthElement ==
  ASSUME NEW A, A \subseteq Nat, IsFiniteSet(A), NEW k \in 0 .. Cardinality(A) - 1
  PROVE  Nth(A, k) \in A /\ Cardinality({p \in A : p < Nth(A, k)}) = k
<1> DEFINE Below(q) == {p \in A : p < q}
           Bad == {m \in 0 .. Cardinality(A) - 1 : \A q \in A : Cardinality(Below(q)) # m}
<1>0. Cardinality(A) \in Nat BY FS_CardinalityType
<1>1. Bad = {}
  <2> SUFFICES ASSUME Bad # {} PROVE FALSE
    OBVIOUS
  <2>1. Bad \subseteq Nat BY <1>0
  <2>2. PICK m \in Bad : \A y \in Bad : m <= y
    <3> HIDE DEF Bad
    <3> QED BY <2>1, NatMinimum
  <2>3. m \in Nat /\ m < Cardinality(A) BY <1>0
  <2>4. CASE m = 0
    <3>1. A # {} BY <2>3, FS_EmptySet
    <3>2. PICK q \in A : \A y \in A : q <= y BY <3>1, NatMinimum
    <3>3. \A y \in A : y \in Nat /\ q \in Nat /\ ~ (y < q) BY <3>2
    <3>4. Below(q) = {} BY <3>3
    <3> QED BY <2>4, <3>4, FS_EmptySet
  <2>5. CASE m # 0
    <3>1. m - 1 \in 0 .. Cardinality(A) - 1 /\ ~ (m <= m - 1) BY <1>0, <2>3, <2>5
    <3>2. m - 1 \notin Bad BY <2>2, <3>1
    <3>3. PICK q \in A : Cardinality(Below(q)) = m - 1 BY <3>1, <3>2
    <3> DEFINE B == Below(q) \cup {q}
    <3>4. IsFiniteSet(Below(q)) /\ q \notin Below(q)
      <4>1. Below(q) \subseteq A OBVIOUS
      <4>2. IsFiniteSet(Below(q)) BY <4>1, FS_Subset
      <4> QED BY <4>2
    <3>5. Cardinality(B) = m /\ B \subseteq A
      <4>1. Cardinality(B) = Cardinality(Below(q)) + 1 BY <3>4, FS_AddElement
      <4> QED BY <2>3, <3>3, <4>1
    <3>6. A \ B # {} BY <2>3, <3>5
    <3>7. PICK u \in A \ B : \A y \in A \ B : u <= y BY <3>6, NatMinimum
    <3>8. Below(u) = B
      <4>1. \A y \in A : y \in Nat /\ q \in Nat /\ u \in Nat OBVIOUS
      <4>2. u > q BY <3>7, <4>1
      <4>3. ASSUME NEW y \in A, y < u PROVE y \in B
        <5>1. y \notin A \ B BY <3>7, <4>1, <4>3
        <5> QED BY <5>1
      <4>4. ASSUME NEW y \in B PROVE y \in A /\ y < u
        BY <4>1, <4>2, <4>4
      <4> QED BY <4>3, <4>4
    <3> QED BY <3>5, <3>7, <3>8
  <2> QED BY <2>4, <2>5
<1>2. \E q \in A : Cardinality(Below(q)) = k BY <1>1
<1> QED BY <1>2 DEF Nth

\* Every rank gives up one route for each unit of the round's length.
LEMMA RoundFacts ==
  ASSUME NEW left \in [Ranks -> 0 .. MAX_RECV], Active(left) # {}
  PROVE  /\ Length(left) \in Nat \ {0}
         /\ \A q \in Active(left) : Length(left) <= left[q]
         /\ \E q \in Active(left) : left[q] = Length(left)
         /\ Active(left) \subseteq Ranks /\ Active(left) \subseteq Nat
         /\ IsFiniteSet(Active(left)) /\ Cardinality(Active(left)) \in Nat \ {0}
<1>1. Active(left) \subseteq Ranks /\ Active(left) \subseteq Nat BY Sizes DEF Active
<1>2. IsFiniteSet(Active(left)) BY <1>1, FiniteSizes, FS_Subset
<1>3. Cardinality(Active(left)) \in Nat \ {0}
  BY <1>2, FS_CardinalityType, FS_EmptySet
<1> DEFINE T == {left[q] : q \in Active(left)}
<1>4. T \subseteq Nat /\ T # {} BY <1>1, Sizes
<1>5. \E x \in T : \A y \in T : x <= y
  <2> HIDE DEF T
  <2> QED BY <1>4, NatMinimum
<1>6. Length(left) \in T /\ \A y \in T : Length(left) <= y BY <1>5 DEF Length, Min
<1>7. \A q \in Active(left) : left[q] > 0 BY DEF Active
<1> QED BY <1>1, <1>2, <1>3, <1>4, <1>6, <1>7

\* The routes that are left, by rank and slot.
Cells(left) == {c \in Ranks \X Nat : c[2] < left[c[1]]}

LEMMA CellsSize ==
  ASSUME NEW left \in [Ranks -> Nat]
  PROVE  /\ IsFiniteSet(Cells(left)) /\ Cardinality(Cells(left)) \in Nat
         /\ Cardinality(Cells(left)) = SumFunctionOnSet(left, Ranks)
<1> DEFINE A == [q \in Ranks |-> 0 .. left[q] - 1]
<1>1. ASSUME NEW q \in Ranks PROVE IsFiniteSet(A[q]) /\ left[q] = Cardinality(A[q])
  BY IntervalSize
<1>2. Stacked(A, Ranks) = Cells(left)
  BY DEF Stacked, Cells
<1> HIDE DEF A
<1>3. /\ IsFiniteSet(Stacked(A, Ranks))
      /\ SumFunctionOnSet(left, Ranks) = Cardinality(Stacked(A, Ranks))
  BY <1>1, FiniteSizes, SumOfSizes
<1> QED BY <1>2, <1>3, FS_CardinalityType

LEMMA AfterFacts ==
  ASSUME NEW x \in Places, Active(x.left) # {},
         x.slot >= Length(x.left) * Cardinality(Active(x.left))
  PROVE  /\ After(x) \in Places
         /\ Cardinality(Active(After(x).left)) < Cardinality(Active(x.left))
         /\ Cardinality(Cells(x.left)) =
              Length(x.left) * Cardinality(Active(x.left)) + Cardinality(Cells(After(x).left))
<1> PICK left, slot, offset, length, n :
      /\ left = x.left /\ slot = x.slot /\ offset = x.offset
      /\ length = Length(left) /\ n = Cardinality(Active(left))
  OBVIOUS
<1>1. left \in [Ranks -> 0 .. MAX_RECV] /\ slot \in Nat /\ offset \in Nat
  BY DEF Places
<1>2. /\ length \in Nat \ {0}
      /\ \A q \in Active(left) : length <= left[q]
      /\ \E q \in Active(left) : left[q] = length
      /\ Active(left) \subseteq Ranks /\ IsFiniteSet(Active(left)) /\ n \in Nat \ {0}
  BY <1>1, RoundFacts
<1> DEFINE rest == [q \in Ranks |-> IF left[q] < length THEN 0 ELSE left[q] - length]
<1>3. After(x) = [left |-> rest, slot |-> slot - length * n, offset |-> offset + length]
  BY DEF After
<1>4. rest \in [Ranks -> 0 .. MAX_RECV]
  <2> SUFFICES ASSUME NEW q \in Ranks
               PROVE  (IF left[q] < length THEN 0 ELSE left[q] - length) \in 0 .. MAX_RECV
    OBVIOUS
  <2>1. left[q] \in 0 .. MAX_RECV BY <1>1
  <2> QED BY <1>2, <2>1, Sizes
<1>5. slot - length * n \in Nat
  <2>1. length * n \in Nat BY <1>2
  <2> QED BY <1>1, <2>1
<1>6. After(x) \in Places BY <1>1, <1>2, <1>3, <1>4, <1>5 DEF Places
<1>7. \A q \in Ranks : left[q] \in Nat /\ (q \in Active(left) <=> left[q] > 0)
  <2> SUFFICES ASSUME NEW q \in Ranks PROVE left[q] \in Nat /\ (q \in Active(left) <=> left[q] > 0)
    OBVIOUS
  <2>1. left[q] \in Nat BY <1>1, Sizes
  <2>2. q \in Active(left) <=> left[q] > 0 BY DEF Active
  <2> QED BY <2>1, <2>2
<1>8. Cardinality(Active(rest)) < n
  <2>1. PICK q \in Active(left) : left[q] = length BY <1>2
  <2>2. Active(rest) \subseteq Active(left) \ {q}
    <3>1. \A p \in Active(rest) : p \in Ranks /\ rest[p] > 0 BY DEF Active
    <3>2. \A p \in Ranks : rest[p] = IF left[p] < length THEN 0 ELSE left[p] - length
      OBVIOUS
    <3> HIDE DEF rest
    <3>3. rest[q] = 0 BY <1>2, <2>1, <3>2
    <3>4. ASSUME NEW p \in Ranks, rest[p] > 0 PROVE p \in Active(left)
      <4>1. left[p] \in Nat BY <1>7
      <4>2. left[p] > 0 BY <1>2, <3>2, <3>4, <4>1
      <4> QED BY <1>7, <4>2
    <3> QED BY <3>1, <3>3, <3>4
  <2>3. Cardinality(Active(left) \ {q}) = n - 1 /\ IsFiniteSet(Active(left) \ {q})
    BY <1>2, <2>1, FS_RemoveElement
  <2>4. Cardinality(Active(rest)) <= n - 1 BY <2>2, <2>3, FS_Subset
  <2>5. Cardinality(Active(rest)) \in Nat BY <2>2, <2>3, FS_Subset, FS_CardinalityType
  <2> QED BY <1>2, <2>4, <2>5
<1> DEFINE First == Active(left) \X (0 .. length - 1)
           Later == {c \in Ranks \X Nat : c[2] >= length /\ c[2] < left[c[1]]}
           shift == [c \in Later |-> <<c[1], c[2] - length>>]
<1> HIDE DEF rest
<1>9. Cells(left) = First \cup Later /\ First \cap Later = {}
  <2>1. ASSUME NEW c \in Cells(left), c \notin Later PROVE c \in First
    <3>1. c[1] \in Ranks /\ c[2] \in Nat /\ c[2] < left[c[1]] /\ c = <<c[1], c[2]>>
      BY DEF Cells
    <3>2. c[2] < length BY <1>2, <2>1, <3>1
    <3>3. c[1] \in Active(left) BY <1>7, <3>1
    <3> QED BY <1>2, <3>1, <3>2, <3>3
  <2>2. ASSUME NEW c \in First PROVE c \in Cells(left) /\ c \notin Later
    <3>1. c[1] \in Active(left) /\ c[2] \in 0 .. length - 1 /\ c = <<c[1], c[2]>>
      OBVIOUS
    <3>2. c[1] \in Ranks /\ c[2] \in Nat /\ c[2] < length /\ length <= left[c[1]]
          /\ left[c[1]] \in Nat
      BY <1>2, <1>7, <3>1
    <3>3. c[2] < left[c[1]] /\ ~ (c[2] >= length) BY <1>2, <3>2
    <3> QED BY <3>1, <3>2, <3>3 DEF Cells
  <2>3. Later \subseteq Cells(left) BY DEF Cells
  <2> QED BY <2>1, <2>2, <2>3
<1>10. IsFiniteSet(First) /\ Cardinality(First) = length * n
  <2>0. 0 \in Nat OBVIOUS
  <2>1. IsFiniteSet(0 .. 0 + length - 1) /\ Cardinality(0 .. 0 + length - 1) = length
    BY <1>2, <2>0, IntervalSize
  <2>2. 0 .. 0 + length - 1 = 0 .. length - 1 BY <1>2
  <2>3. IsFiniteSet(First) /\ Cardinality(First) = n * length
    <3> DEFINE S == Active(left)
               T == 0 .. length - 1
    <3>1. IsFiniteSet(S) /\ n = Cardinality(S) BY <1>2
    <3>2. IsFiniteSet(T) /\ Cardinality(T) = length BY <2>1, <2>2
    <3> HIDE DEF S, T
    <3>3. IsFiniteSet(S \X T) /\ Cardinality(S \X T) = Cardinality(S) * Cardinality(T)
      BY <3>1, <3>2, FS_Product
    <3>4. IsFiniteSet(S \X T) /\ Cardinality(S \X T) = n * length BY <3>1, <3>2, <3>3
    <3> QED BY <3>4 DEF S, T
  <2>4. n * length = length * n BY <1>2
  <2> QED BY <2>3, <2>4
<1>11. left \in [Ranks -> Nat] /\ rest \in [Ranks -> Nat] BY <1>1, <1>4, Sizes
<1>12. \A q \in Ranks : rest[q] = IF left[q] < length THEN 0 ELSE left[q] - length
  BY DEF rest
<1>13. IsFiniteSet(Later) /\ Cardinality(Cells(rest)) = Cardinality(Later)
  <2>1. IsFiniteSet(Cells(left)) BY <1>11, CellsSize
  <2>2. IsFiniteSet(Later) BY <1>9, <2>1, FS_Subset
  <2>3. ASSUME NEW c \in Later PROVE shift[c] \in Cells(rest)
    <3>1. c[1] \in Ranks /\ c[2] \in Nat /\ c[2] >= length /\ c[2] < left[c[1]]
      OBVIOUS
    <3>2. left[c[1]] \in Nat BY <1>7, <3>1
    <3>3. rest[c[1]] = left[c[1]] - length BY <1>2, <1>12, <3>1, <3>2
    <3>4. c[2] - length \in Nat /\ c[2] - length < rest[c[1]] BY <1>2, <3>1, <3>2, <3>3
    <3> QED BY <3>1, <3>4 DEF Cells
  <2>4. ASSUME NEW c \in Later, NEW d \in Later, shift[c] = shift[d] PROVE c = d
    <3>1. c = <<c[1], c[2]>> /\ d = <<d[1], d[2]>> /\ c[2] \in Nat /\ d[2] \in Nat
      OBVIOUS
    <3>2. c[1] = d[1] /\ c[2] - length = d[2] - length BY <2>4
    <3> QED BY <1>2, <3>1, <3>2
  <2>5. ASSUME NEW d \in Cells(rest) PROVE \E c \in Later : shift[c] = d
    <3>1. d[1] \in Ranks /\ d[2] \in Nat /\ d[2] < rest[d[1]] /\ d = <<d[1], d[2]>>
      BY DEF Cells
    <3>2. left[d[1]] \in Nat BY <1>7, <3>1
    <3>3. ~ (left[d[1]] < length) /\ d[2] < left[d[1]] - length
      BY <1>12, <3>1, <3>2
    <3> DEFINE c == <<d[1], d[2] + length>>
    <3>4. d[2] + length \in Nat /\ d[2] + length >= length /\ d[2] + length < left[d[1]]
      BY <1>2, <3>1, <3>2, <3>3
    <3>5. c \in Later BY <3>1, <3>4
    <3>6. (d[2] + length) - length = d[2] BY <1>2, <3>1
    <3>7. shift[c] = d BY <3>1, <3>5, <3>6
    <3> QED BY <3>5, <3>7
  <2> HIDE DEF Later
  <2>6. shift \in [Later -> Cells(rest)] BY <2>3
  <2> HIDE DEF shift
  <2>7. shift \in Bijection(Later, Cells(rest))
    BY <2>4, <2>5, <2>6 DEF Bijection, Injection, IsInjective, Surjection
  <2>8. ExistsBijection(Later, Cells(rest)) BY <2>7 DEF ExistsBijection
  <2> QED BY <2>2, <2>8, FS_Bijection
<1>14. Cardinality(Cells(left)) = length * n + Cardinality(Cells(rest))
  <2> HIDE DEF First, Later
  <2>1. Cardinality(First \cup Later) =
          Cardinality(First) + Cardinality(Later) - Cardinality(First \cap Later)
    BY <1>10, <1>13, FS_Union
  <2>2. Cardinality(First \cap Later) = 0 BY <1>9, FS_EmptySet
  <2>3. Cardinality(Later) \in Nat /\ Cardinality(First) \in Nat
    BY <1>10, <1>13, FS_CardinalityType
  <2>4. PICK a, b, d : a = Cardinality(First) /\ b = Cardinality(Later) /\ d = Cardinality(Cells(left))
    OBVIOUS
  <2>5. d = a + b - 0 BY <1>9, <2>1, <2>2, <2>4
  <2>6. d = a + b BY <2>3, <2>4, <2>5
  <2> QED BY <1>10, <1>13, <2>4, <2>6
<1> QED BY <1>3, <1>6, <1>8, <1>14

\* What a round does with a place, given what the later rounds do.
Turn(f, x) ==
  IF Active(x.left) = {} THEN <<0, 0>>
  ELSE IF x.slot < Length(x.left) * Cardinality(Active(x.left))
    THEN <<Nth(Active(x.left), x.slot % Cardinality(Active(x.left))),
           x.offset + x.slot \div Cardinality(Active(x.left))>>
    ELSE f[After(x)]

\* There is a function like RoundRobin: every round has fewer ranks than the last.
LEMMA RoundRobinTurns ==
  \A x \in Places : RoundRobin[x] = Turn(RoundRobin, x)
<1> DEFINE Near(n) == {x \in Places : Cardinality(Active(x.left)) < n}
           Good == {n \in Nat : \E f : /\ f = [x \in Places |-> f[x]]
                                       /\ \A x \in Near(n) : f[x] = Turn(f, x)}
           Bad == Nat \ Good
<1>1. ASSUME NEW x \in Places
      PROVE  /\ Cardinality(Active(x.left)) \in Nat
             /\ Cardinality(Active(x.left)) < NPES + 1
  <2>1. Active(x.left) \subseteq Ranks BY DEF Active
  <2>2. Cardinality(Active(x.left)) <= NPES /\ IsFiniteSet(Active(x.left))
    BY <2>1, FiniteSizes, FS_Subset
  <2>3. Cardinality(Active(x.left)) \in Nat BY <2>2, FS_CardinalityType
  <2> QED BY <2>2, <2>3, Sizes
<1>2. 0 \in Good
  <2> DEFINE f == [x \in Places |-> 0]
  <2>1. f = [x \in Places |-> f[x]] OBVIOUS
  <2>2. Near(0) = {} BY <1>1
  <2> HIDE DEF f
  <2> QED BY <2>1, <2>2
<1>3. ASSUME NEW n \in Nat, n \in Good PROVE n + 1 \in Good
  <2>1. PICK f : /\ f = [x \in Places |-> f[x]]
                 /\ \A x \in Near(n) : f[x] = Turn(f, x)
    BY <1>3
  <2> DEFINE g == [x \in Places |-> IF x \in Near(n) THEN f[x] ELSE Turn(f, x)]
  <2>2. g = [x \in Places |-> g[x]] OBVIOUS
  <2>3. \A x \in Places : g[x] = Turn(f, x) BY <2>1
  <2>4. \A x \in Near(n) : g[x] = f[x] /\ x \in Places OBVIOUS
  <2> HIDE DEF g
  <2>5. ASSUME NEW x \in Near(n + 1) PROVE g[x] = Turn(g, x)
    <3>0. x \in Places /\ Cardinality(Active(x.left)) < n + 1 OBVIOUS
    <3>1. CASE Active(x.left) = {} BY <2>3, <3>0, <3>1 DEF Turn
    <3>2. CASE Active(x.left) # {} /\ x.slot < Length(x.left) * Cardinality(Active(x.left))
      BY <2>3, <3>0, <3>2 DEF Turn
    <3>3. CASE Active(x.left) # {} /\ ~ (x.slot < Length(x.left) * Cardinality(Active(x.left)))
      <4>1. x.slot \in Nat /\ x.left \in [Ranks -> 0 .. MAX_RECV] BY <3>0 DEF Places
      <4>2. Length(x.left) * Cardinality(Active(x.left)) \in Nat
        <5>1. Length(x.left) \in Nat /\ Cardinality(Active(x.left)) \in Nat
          BY <3>3, <4>1, RoundFacts
        <5> QED BY <5>1
      <4>3. x.slot >= Length(x.left) * Cardinality(Active(x.left)) BY <3>3, <4>1, <4>2
      <4>4. /\ After(x) \in Places
            /\ Cardinality(Active(After(x).left)) < Cardinality(Active(x.left))
        BY <3>0, <3>3, <4>3, AfterFacts
      <4>5. Cardinality(Active(After(x).left)) < n BY <1>1, <3>0, <4>4
      <4>6. g[After(x)] = f[After(x)] BY <2>4, <4>4, <4>5
      <4>7. Turn(g, x) = g[After(x)] /\ Turn(f, x) = f[After(x)] BY <3>3 DEF Turn
      <4> QED BY <2>3, <3>0, <4>6, <4>7
    <3> QED BY <3>1, <3>2, <3>3
  <2> HIDE DEF Near
  <2>6. \E h : /\ h = [x \in Places |-> h[x]]
               /\ \A x \in Near(n + 1) : h[x] = Turn(h, x)
    BY <2>2, <2>5
  <2> QED BY <2>6
<1>4. Bad = {}
  <2> SUFFICES ASSUME Bad # {} PROVE FALSE
    OBVIOUS
  <2> HIDE DEF Good
  <2>1. Bad \subseteq Nat OBVIOUS
  <2>2. PICK m \in Bad : \A y \in Bad : m <= y
    <3> HIDE DEF Bad
    <3> QED BY <2>1, NatMinimum
  <2>3. m \in Nat /\ m # 0 BY <1>2
  <2>4. m - 1 \in Nat /\ m - 1 \notin Bad /\ (m - 1) + 1 = m BY <2>2, <2>3
  <2>5. m \in Good BY <1>3, <2>4
  <2> QED BY <2>5
<1>5. NPES + 1 \in Good BY <1>4, Sizes
<1>6. Near(NPES + 1) = Places BY <1>1
<1>7. PICK f : f = [x \in Places |-> f[x]] /\ \A x \in Places : f[x] = Turn(f, x)
  BY <1>5, <1>6
<1> HIDE DEF Near, Good, Bad
<1>8. f = [x \in Places |-> Turn(f, x)] BY <1>7
<1>9. RoundRobin = CHOOSE g : g = [x \in Places |-> Turn(g, x)]
  BY DEF RoundRobin, Turn
<1>10. RoundRobin = [x \in Places |-> Turn(RoundRobin, x)] BY <1>8, <1>9
<1> QED BY <1>10

LEMMA DivMod ==
  ASSUME NEW a \in Nat, NEW n \in Nat \ {0}
  PROVE  /\ a % n \in 0 .. n - 1 /\ a \div n \in Nat /\ a = (a \div n) * n + (a % n)
         /\ \A l \in Nat : a < l * n => a \div n < l
<1>0. \A b \in Nat, m \in Nat \ {0} :
        b % m \in 0 .. m - 1 /\ b \div m \in Nat /\ b = (b \div m) * m + (b % m)
  OBVIOUS
<1>1. a % n \in 0 .. n - 1 /\ a \div n \in Nat /\ a = (a \div n) * n + (a % n)
  BY <1>0
<1>2. ASSUME NEW l \in Nat, a < l * n, a \div n >= l PROVE FALSE
  <2>1. (a \div n) * n >= l * n BY <1>1, <1>2
  <2> QED BY <1>1, <1>2, <2>1
<1> QED BY <1>1, <1>2

LEMMA FirstTurn ==
  ASSUME NEW x \in Places, Active(x.left) # {},
         x.slot < Length(x.left) * Cardinality(Active(x.left))
  PROVE  \E q \in Active(x.left) : \E k \in 0 .. Length(x.left) - 1 :
           /\ RoundRobin[x] = <<q, x.offset + k>>
           /\ x.slot = k * Cardinality(Active(x.left)) + Cardinality({p \in Active(x.left) : p < q})
<1>p. PICK A, n, length, slot : /\ A = Active(x.left) /\ n = Cardinality(A)
                                /\ length = Length(x.left) /\ slot = x.slot
  OBVIOUS
<1>1. slot \in Nat /\ x.left \in [Ranks -> 0 .. MAX_RECV] BY <1>p DEF Places
<1>2. /\ length \in Nat \ {0} /\ n \in Nat \ {0} /\ A \subseteq Nat /\ IsFiniteSet(A)
  BY <1>1, <1>p, RoundFacts
<1>3. /\ slot % n \in 0 .. n - 1 /\ slot \div n \in Nat /\ slot = (slot \div n) * n + (slot % n)
      /\ \A l \in Nat : slot < l * n => slot \div n < l
  BY <1>1, <1>2, DivMod
<1>4. slot \div n < length
  BY <1>2, <1>3, <1>p
<1> PICK d, m : d = slot \div n /\ m = slot % n
  OBVIOUS
<1>5. d \in 0 .. length - 1 BY <1>2, <1>3, <1>4
<1>6. Nth(A, m) \in A /\ Cardinality({p \in A : p < Nth(A, m)}) = m
  BY <1>p, <1>2, <1>3, NthElement
<1>7. RoundRobin[x] = <<Nth(A, m), x.offset + d>>
  BY <1>p, RoundRobinTurns DEF Turn
<1>8. slot = d * n + m BY <1>3
<1>9. slot = d * n + Cardinality({p \in A : p < Nth(A, m)}) BY <1>6, <1>8, Zenon
<1> QED BY <1>p, <1>5, <1>6, <1>7, <1>9, Zenon

LEMMA LaterTurn ==
  ASSUME NEW x \in Places, Active(x.left) # {},
         ~ (x.slot < Length(x.left) * Cardinality(Active(x.left))),
         x.slot < Cardinality(Cells(x.left))
  PROVE  /\ RoundRobin[x] = RoundRobin[After(x)]
         /\ After(x) \in Places
         /\ Cardinality(Active(After(x).left)) < Cardinality(Active(x.left))
         /\ After(x).slot < Cardinality(Cells(After(x).left))
         /\ After(x).slot = x.slot - Length(x.left) * Cardinality(Active(x.left))
         /\ After(x).offset = x.offset + Length(x.left)
         /\ Length(x.left) \in Nat \ {0}
         /\ \A q \in Ranks : After(x).left[q] = IF x.left[q] < Length(x.left) THEN 0
                                                ELSE x.left[q] - Length(x.left)
<1>1. x.slot \in Nat /\ x.left \in [Ranks -> 0 .. MAX_RECV] /\ x.left \in [Ranks -> Nat]
  BY Sizes DEF Places
<1>2. Length(x.left) \in Nat \ {0} /\ Cardinality(Active(x.left)) \in Nat
  BY <1>1, RoundFacts
<1>3. Length(x.left) * Cardinality(Active(x.left)) \in Nat BY <1>2
<1>4. x.slot >= Length(x.left) * Cardinality(Active(x.left)) BY <1>1, <1>3
<1>5. /\ After(x) \in Places
      /\ Cardinality(Active(After(x).left)) < Cardinality(Active(x.left))
      /\ Cardinality(Cells(x.left)) =
           Length(x.left) * Cardinality(Active(x.left)) + Cardinality(Cells(After(x).left))
  BY <1>4, AfterFacts
<1>6. /\ After(x).slot = x.slot - Length(x.left) * Cardinality(Active(x.left))
      /\ After(x).offset = x.offset + Length(x.left)
      /\ \A q \in Ranks : After(x).left[q] = IF x.left[q] < Length(x.left) THEN 0
                                             ELSE x.left[q] - Length(x.left)
  BY DEF After
<1>7. After(x).left \in [Ranks -> Nat] BY <1>5, Sizes DEF Places
<1>8. Cardinality(Cells(After(x).left)) \in Nat BY <1>7, CellsSize
<1>9. After(x).slot < Cardinality(Cells(After(x).left))
  BY <1>1, <1>3, <1>5, <1>6, <1>8
<1>10. RoundRobin[x] = RoundRobin[After(x)] BY RoundRobinTurns DEF Turn
<1> QED BY <1>2, <1>5, <1>6, <1>9, <1>10

LEMMA SomeLeft ==
  ASSUME NEW x \in Places, x.slot < Cardinality(Cells(x.left))
  PROVE  Active(x.left) # {}
<1>1. x.slot \in Nat /\ x.left \in [Ranks -> Nat] BY Sizes DEF Places
<1> SUFFICES ASSUME Active(x.left) = {} PROVE FALSE
  OBVIOUS
<1>2. Cells(x.left) = {}
  <2> SUFFICES ASSUME NEW c \in Cells(x.left) PROVE FALSE
    OBVIOUS
  <2>1. c[1] \in Ranks /\ c[2] \in Nat /\ c[2] < x.left[c[1]] BY DEF Cells
  <2>2. x.left[c[1]] \in Nat BY <1>1, <2>1
  <2>3. x.left[c[1]] > 0 BY <2>1, <2>2
  <2> QED BY <2>1, <2>3 DEF Active
<1> QED BY <1>1, <1>2, FS_EmptySet

\* A place below the number of routes gets one of those that are left.
LEMMA RoundRobinTakes ==
  ASSUME NEW x \in Places, x.slot < Cardinality(Cells(x.left))
  PROVE  \E q \in Ranks, k \in Nat :
           RoundRobin[x] = <<q, x.offset + k>> /\ k < x.left[q]
<1> DEFINE Takes(z) == \E q \in Ranks, k \in Nat :
                         RoundRobin[z] = <<q, z.offset + k>> /\ k < z.left[q]
           Bad == {z \in Places : z.slot < Cardinality(Cells(z.left)) /\ ~Takes(z)}
           Turns == {Cardinality(Active(z.left)) : z \in Bad}
<1> SUFFICES ASSUME Bad # {} PROVE FALSE
  OBVIOUS
<1>1. Turns \subseteq Nat /\ Turns # {}
  <2>1. ASSUME NEW z \in Bad PROVE Cardinality(Active(z.left)) \in Nat
    <3>1. Active(z.left) # {} /\ z.left \in [Ranks -> 0 .. MAX_RECV]
      BY SomeLeft DEF Places
    <3> QED BY <3>1, RoundFacts
  <2> HIDE DEF Bad
  <2> QED BY <2>1
<1>2. \E n \in Turns : \A m \in Turns : n <= m
  <2> HIDE DEF Turns
  <2> QED BY <1>1, NatMinimum
<1>3. PICK z \in Bad : \A u \in Bad : Cardinality(Active(z.left)) <= Cardinality(Active(u.left))
  <2> HIDE DEF Bad
  <2> QED BY <1>2
<1>4. /\ z \in Places /\ z.slot < Cardinality(Cells(z.left)) /\ Active(z.left) # {}
      /\ z.left \in [Ranks -> 0 .. MAX_RECV] /\ z.offset \in Nat /\ ~Takes(z)
  BY SomeLeft DEF Places
<1> HIDE DEF Takes
<1>5. CASE z.slot < Length(z.left) * Cardinality(Active(z.left))
  <2>1. PICK q \in Active(z.left), k \in 0 .. Length(z.left) - 1 :
          RoundRobin[z] = <<q, z.offset + k>>
    BY <1>4, <1>5, FirstTurn
  <2>2. /\ q \in Ranks /\ Length(z.left) \in Nat /\ Length(z.left) <= z.left[q]
        /\ z.left[q] \in Nat
    BY <1>4, RoundFacts, Sizes
  <2>3. k \in Nat /\ k < z.left[q] BY <2>2
  <2> QED BY <1>4, <2>1, <2>2, <2>3 DEF Takes
<1>6. CASE ~ (z.slot < Length(z.left) * Cardinality(Active(z.left)))
  <2> PICK w, l : w = After(z) /\ l = Length(z.left)
    OBVIOUS
  <2>1. /\ RoundRobin[z] = RoundRobin[w] /\ w \in Places
        /\ Cardinality(Active(w.left)) < Cardinality(Active(z.left))
        /\ w.slot < Cardinality(Cells(w.left))
        /\ w.offset = z.offset + l /\ l \in Nat \ {0}
        /\ \A q \in Ranks : w.left[q] = IF z.left[q] < l THEN 0 ELSE z.left[q] - l
    BY <1>4, <1>6, LaterTurn
  <2>2. /\ Cardinality(Active(w.left)) \in Nat /\ Cardinality(Active(z.left)) \in Nat
    <3>1. Active(w.left) # {} /\ w.left \in [Ranks -> 0 .. MAX_RECV]
      BY <2>1, SomeLeft DEF Places
    <3> QED BY <1>4, <3>1, RoundFacts
  <2>3. w \notin Bad BY <1>3, <2>1, <2>2
  <2>4. Takes(w) BY <2>1, <2>3
  <2>5. PICK q \in Ranks, k \in Nat : RoundRobin[w] = <<q, w.offset + k>> /\ k < w.left[q]
    BY <2>4 DEF Takes
  <2>6. z.left[q] \in Nat BY <1>4, Sizes
  <2>7. k + l \in Nat /\ w.offset + k = z.offset + (k + l) /\ k + l < z.left[q]
    BY <1>4, <2>1, <2>5, <2>6
  <2> QED BY <1>4, <2>1, <2>5, <2>7 DEF Takes
<1> QED BY <1>5, <1>6

\* No two places get the same one.
LEMMA RoundRobinDiffers ==
  ASSUME NEW x \in Places, NEW y \in Places, y.left = x.left, y.offset = x.offset,
         y.slot # x.slot,
         x.slot < Cardinality(Cells(x.left)), y.slot < Cardinality(Cells(x.left))
  PROVE  RoundRobin[x] # RoundRobin[y]
<1> DEFINE Clash(z, v) == /\ v.left = z.left /\ v.offset = z.offset /\ v.slot # z.slot
                          /\ z.slot < Cardinality(Cells(z.left))
                          /\ v.slot < Cardinality(Cells(z.left))
                          /\ RoundRobin[z] = RoundRobin[v]
           Bad == {z \in Places : \E v \in Places : Clash(z, v)}
           Turns == {Cardinality(Active(z.left)) : z \in Bad}
<1> SUFFICES ASSUME Bad # {} PROVE FALSE
  OBVIOUS
<1>1. Turns \subseteq Nat /\ Turns # {}
  <2>1. ASSUME NEW z \in Bad PROVE Cardinality(Active(z.left)) \in Nat
    <3>1. Active(z.left) # {} /\ z.left \in [Ranks -> 0 .. MAX_RECV]
      BY SomeLeft DEF Places
    <3> QED BY <3>1, RoundFacts
  <2> HIDE DEF Bad
  <2> QED BY <2>1
<1>2. \E n \in Turns : \A m \in Turns : n <= m
  <2> HIDE DEF Turns
  <2> QED BY <1>1, NatMinimum
<1>3. PICK z \in Bad : \A u \in Bad : Cardinality(Active(z.left)) <= Cardinality(Active(u.left))
  <2> HIDE DEF Bad
  <2> QED BY <1>2
<1>4. PICK v \in Places : z \in Places /\ Clash(z, v)
  OBVIOUS
<1>p. PICK left, l, n, A, full : /\ left = z.left /\ l = Length(left) /\ A = Active(left)
                                 /\ n = Cardinality(A) /\ full = l * n
  OBVIOUS
<1>5. /\ v.left = left /\ v.offset = z.offset /\ v.slot # z.slot
      /\ z.slot < Cardinality(Cells(left)) /\ v.slot < Cardinality(Cells(left))
      /\ RoundRobin[z] = RoundRobin[v]
  BY <1>4, <1>p
<1> HIDE DEF Clash
<1>6. /\ A # {} /\ left \in [Ranks -> 0 .. MAX_RECV] /\ left \in [Ranks -> Nat]
      /\ z.offset \in Nat /\ z.slot \in Nat /\ v.slot \in Nat
  BY <1>4, <1>5, <1>p, SomeLeft, Sizes DEF Places
<1>7. l \in Nat \ {0} /\ n \in Nat \ {0} /\ full \in Nat
  <2>1. l \in Nat \ {0} /\ n \in Nat \ {0} BY <1>p, <1>6, RoundFacts
  <2>2. l * n \in Nat BY <2>1
  <2> QED BY <1>p, <2>1, <2>2
\* A place of this round.
<1>8. ASSUME NEW u \in Places, u.left = left, u.offset = z.offset, u.slot < full
      PROVE  \E q \in A : \E k \in 0 .. l - 1 :
               /\ RoundRobin[u] = <<q, z.offset + k>>
               /\ u.slot = k * n + Cardinality({p \in A : p < q})
  <2>0. Active(u.left) # {} /\ u.slot < Length(u.left) * Cardinality(Active(u.left))
    BY <1>p, <1>6, <1>8, Zenon
  <2>1. \E q \in Active(u.left) : \E k \in 0 .. Length(u.left) - 1 :
          /\ RoundRobin[u] = <<q, u.offset + k>>
          /\ u.slot = k * Cardinality(Active(u.left)) + Cardinality({p \in Active(u.left) : p < q})
    BY <2>0, FirstTurn
  <2> QED BY <1>p, <1>8, <2>1, Zenon
\* A place of a later round.
<1>9. ASSUME NEW u \in Places, u.left = left, u.offset = z.offset, ~ (u.slot < full),
             u.slot < Cardinality(Cells(left))
      PROVE  /\ RoundRobin[u] = RoundRobin[After(u)] /\ After(u) \in Places
             /\ Cardinality(Active(After(u).left)) < n
             /\ After(u).slot < Cardinality(Cells(After(u).left))
             /\ After(u).slot = u.slot - full /\ After(u).offset = z.offset + l
             /\ \E q \in Ranks, k \in Nat : RoundRobin[u] = <<q, z.offset + l + k>>
  <2>1. /\ RoundRobin[u] = RoundRobin[After(u)] /\ After(u) \in Places
        /\ Cardinality(Active(After(u).left)) < n
        /\ After(u).slot < Cardinality(Cells(After(u).left))
        /\ After(u).slot = u.slot - full /\ After(u).offset = z.offset + l
    BY <1>p, <1>6, <1>9, LaterTurn
  <2>2. \E q \in Ranks, k \in Nat : RoundRobin[After(u)] = <<q, After(u).offset + k>>
    BY <2>1, RoundRobinTakes
  <2> QED BY <2>1, <2>2
<1>10. ASSUME NEW u \in Places, NEW w \in Places, u.left = left, w.left = left,
              u.offset = z.offset, w.offset = z.offset, u.slot < full, ~ (w.slot < full),
              w.slot < Cardinality(Cells(left)), RoundRobin[u] = RoundRobin[w]
       PROVE  FALSE
  <2>1. PICK q \in A, k \in 0 .. l - 1 : RoundRobin[u] = <<q, z.offset + k>>
    BY <1>8, <1>10
  <2>2. PICK p \in Ranks, m \in Nat : RoundRobin[w] = <<p, z.offset + l + m>>
    BY <1>9, <1>10
  <2>3. <<q, z.offset + k>> = <<p, z.offset + l + m>> BY <1>10, <2>1, <2>2, Zenon
  <2>4. z.offset + k = z.offset + l + m BY <2>3
  <2> QED BY <1>6, <1>7, <2>4
<1>11. CASE z.slot < full /\ v.slot < full
  <2>1. PICK q \in A, k \in 0 .. l - 1 :
          RoundRobin[z] = <<q, z.offset + k>> /\ z.slot = k * n + Cardinality({p \in A : p < q})
    <3>1. z \in Places /\ z.left = left /\ z.offset = z.offset /\ z.slot < full BY <1>4, <1>p, <1>11
    <3> QED BY <3>1, <1>8, Zenon
  <2>2. PICK u \in A, m \in 0 .. l - 1 :
          RoundRobin[v] = <<u, z.offset + m>> /\ v.slot = m * n + Cardinality({p \in A : p < u})
    BY <1>4, <1>5, <1>8, <1>11
  <2>0. <<q, z.offset + k>> = <<u, z.offset + m>> BY <1>5, <2>1, <2>2, Zenon
  <2>3. q = u /\ z.offset + k = z.offset + m BY <2>0
  <2>4. k = m BY <1>6, <1>7, <2>3
  <2> QED BY <1>5, <2>1, <2>2, <2>3, <2>4
<1>12. CASE ~ (z.slot < full) /\ ~ (v.slot < full)
  <2> PICK a, b : a = After(z) /\ b = After(v)
    OBVIOUS
  <2>1. /\ RoundRobin[z] = RoundRobin[a] /\ a \in Places
        /\ Cardinality(Active(a.left)) < n /\ a.slot < Cardinality(Cells(a.left))
        /\ a.slot = z.slot - full /\ a.offset = z.offset + l
    BY <1>p, <1>4, <1>5, <1>9, <1>12
  <2>2. /\ RoundRobin[v] = RoundRobin[b] /\ b \in Places
        /\ b.slot < Cardinality(Cells(b.left))
        /\ b.slot = v.slot - full /\ b.offset = z.offset + l
    BY <1>4, <1>5, <1>9, <1>12
  <2>3. a.left = b.left BY <1>p, <1>5 DEF After
  <2>4. a.slot # b.slot BY <1>5, <1>6, <1>7, <2>1, <2>2
  <2>5. a \in Bad BY <1>5, <2>1, <2>2, <2>3, <2>4 DEF Clash
  <2>6. n <= Cardinality(Active(a.left)) BY <1>p, <1>3, <2>5
  <2>7. Cardinality(Active(a.left)) \in Nat
    <3>1. Active(a.left) # {} /\ a.left \in [Ranks -> 0 .. MAX_RECV]
      BY <2>1, SomeLeft DEF Places
    <3> QED BY <3>1, RoundFacts
  <2> QED BY <1>7, <2>1, <2>6, <2>7
<1> QED BY <1>p, <1>4, <1>5, <1>10, <1>11, <1>12

-----------------------------------------------------------------------------
(* The pool: the routes of a rank by expert, every expert from a new block. *)
Offsets == 0 .. EPR

LEMMA PrefixSums ==
  ASSUME NEW f \in [Local -> Nat]
  PROVE  /\ SumBelow(0, f) = 0
         /\ \A e \in Offsets : SumBelow(e, f) \in Nat
         /\ \A e \in Local : SumBelow(e + 1, f) = SumBelow(e, f) + f[e]
         /\ \A d, e \in Offsets : d <= e => SumBelow(d, f) <= SumBelow(e, f)
<1> DEFINE A == [e \in Local |-> 0 .. f[e] - 1]
<1>1. ASSUME NEW e \in Local PROVE IsFiniteSet(A[e]) /\ f[e] = Cardinality(A[e])
  <2>1. 0 \in Nat /\ 0 + f[e] - 1 = f[e] - 1 OBVIOUS
  <2>2. IsFiniteSet(0 .. 0 + f[e] - 1) /\ Cardinality(0 .. 0 + f[e] - 1) = f[e]
    BY IntervalSize
  <2> QED BY <2>1, <2>2
<1> HIDE DEF A
<1>2. ASSUME NEW e \in Offsets
      PROVE  /\ IsFiniteSet(Stacked(A, 0 .. e - 1))
             /\ SumBelow(e, f) = Cardinality(Stacked(A, 0 .. e - 1))
             /\ Cardinality(Stacked(A, 0 .. e - 1)) \in Nat
  <2>1. e \in Nat /\ 0 \in Nat /\ 0 + e - 1 = e - 1 BY Sizes DEF Offsets
  <2>2. IsFiniteSet(0 .. e - 1) BY <2>1, IntervalSize
  <2>3. \A x \in 0 .. e - 1 : x \in Local BY Sizes DEF Offsets, Local
  <2>4. \A x \in 0 .. e - 1 : IsFiniteSet(A[x]) /\ f[x] = Cardinality(A[x])
    BY <1>1, <2>3
  <2>5. /\ IsFiniteSet(Stacked(A, 0 .. e - 1))
        /\ SumFunctionOnSet(f, 0 .. e - 1) = Cardinality(Stacked(A, 0 .. e - 1))
    BY <2>2, <2>4, SumOfSizes
  <2> QED BY <2>5, FS_CardinalityType DEF SumBelow
<1>3. SumBelow(0, f) = 0
  <2>1. 0 \in Offsets /\ 0 .. 0 - 1 = {} BY Sizes DEF Offsets
  <2>2. Stacked(A, 0 .. 0 - 1) = {} BY <2>1, StackedTwo
  <2> QED BY <1>2, <2>1, <2>2, FS_EmptySet
<1>4. ASSUME NEW e \in Local PROVE SumBelow(e + 1, f) = SumBelow(e, f) + f[e]
  <2>1. e \in Offsets /\ e + 1 \in Offsets /\ e \in Nat BY Sizes DEF Offsets, Local
  <2>2. 0 .. (e + 1) - 1 = (0 .. e - 1) \cup {e} /\ e \notin 0 .. e - 1 BY <2>1
  <2>3. Cardinality(Stacked(A, (0 .. e - 1) \cup {e})) =
          Cardinality(Stacked(A, 0 .. e - 1)) + Cardinality(A[e])
    <3> DEFINE S == 0 .. e - 1
    <3>1. e \notin S /\ IsFiniteSet(Stacked(A, S)) /\ IsFiniteSet(A[e]) BY <1>1, <1>2, <2>1
    <3> HIDE DEF S
    <3>2. Cardinality(Stacked(A, S \cup {e})) = Cardinality(Stacked(A, S)) + Cardinality(A[e])
      BY <3>1, StackedTwo
    <3> QED BY <3>2 DEF S
  <2> QED BY <1>1, <1>2, <2>1, <2>2, <2>3
<1>5. ASSUME NEW d \in Offsets, NEW e \in Offsets, d <= e
      PROVE  SumBelow(d, f) <= SumBelow(e, f)
  <2>1. 0 .. d - 1 \subseteq 0 .. e - 1 BY <1>5 DEF Offsets
  <2>2. Stacked(A, 0 .. d - 1) \subseteq Stacked(A, 0 .. e - 1) BY <2>1 DEF Stacked
  <2> QED BY <1>2, <2>2, FS_Subset
<1> QED BY <1>2, <1>3, <1>4, <1>5

\* Every place below the sum is in the range of one expert.
LEMMA PrefixRange ==
  ASSUME NEW f \in [Local -> Nat], NEW i \in Nat, i < SumBelow(EPR, f)
  PROVE  /\ \E e \in Local : SumBelow(e, f) <= i /\ i < SumBelow(e + 1, f)
         /\ \A d, e \in Local :
              /\ SumBelow(d, f) <= i /\ i < SumBelow(d + 1, f)
              /\ SumBelow(e, f) <= i /\ i < SumBelow(e + 1, f)
              => d = e
<1> DEFINE T == {d \in Offsets : i < SumBelow(d, f)}
<1>1. EPR \in Offsets /\ 0 \in Offsets /\ Offsets \subseteq Nat
      /\ \A e \in Local : e \in Offsets /\ e + 1 \in Offsets
  BY Sizes DEF Offsets, Local
<1>2. T \subseteq Nat /\ T # {} BY <1>1
<1>3. PICK m \in T : \A d \in T : m <= d
  <2> HIDE DEF T
  <2> QED BY <1>2, NatMinimum
<1>4. \A d \in Offsets : SumBelow(d, f) \in Nat BY PrefixSums
<1>5. m # 0 BY <1>4, PrefixSums
<1>6. m - 1 \in Local /\ (m - 1) + 1 = m BY <1>5, Sizes DEF Offsets, Local
<1>7. SumBelow(m - 1, f) <= i
  <2>1. m - 1 \notin T BY <1>1, <1>3
  <2>2. ~ (i < SumBelow(m - 1, f)) BY <1>1, <1>6, <2>1
  <2> QED BY <1>1, <1>4, <1>6, <2>2
<1>8. ASSUME NEW d \in Local, NEW e \in Local, i < SumBelow(d + 1, f), SumBelow(e, f) <= i, d < e
      PROVE  FALSE
  <2>1. d + 1 <= e BY <1>8, Sizes DEF Local
  <2>2. SumBelow(d + 1, f) <= SumBelow(e, f) BY <1>1, <2>1, PrefixSums
  <2>3. SumBelow(d + 1, f) \in Nat /\ SumBelow(e, f) \in Nat BY <1>1, <1>4
  <2> QED BY <1>8, <2>2, <2>3
<1>9. \A d, e \in Local : d = e \/ d < e \/ e < d BY Sizes DEF Local
<1> QED BY <1>3, <1>6, <1>7, <1>8, <1>9

\* Blocks are full but for the last.
LEMMA BlocksForFacts ==
  ASSUME NEW n \in Nat
  PROVE  /\ BlocksFor(n) \in Nat
         /\ \A k \in Nat : k < BlocksFor(n) <=> k * BLOCK_M < n
<1>1. ASSUME NEW k \in Nat, NEW d \in Nat \ {0}
      PROVE  k < (n + d - 1) \div d <=> k * d < n
  <2>1. n + d - 1 \in Nat OBVIOUS
  <2>2. PICK m \in Nat : m = n + d - 1 BY <2>1
  <2>3. PICK q \in Nat, w \in 0 .. d - 1 : q = m \div d /\ m = q * d + w
    BY DivMod
  <2>4. ASSUME k < q PROVE k * d < n
    <3>1. (k + 1) * d <= q * d BY <2>4
    <3>2. (k + 1) * d = k * d + d OBVIOUS
    <3>3. k * d \in Nat /\ q * d \in Nat OBVIOUS
    <3> QED BY <2>2, <2>3, <3>1, <3>2, <3>3
  <2>5. ASSUME ~ (k < q) PROVE ~ (k * d < n)
    <3>1. q * d <= k * d BY <2>5
    <3>2. k * d \in Nat /\ q * d \in Nat OBVIOUS
    <3> QED BY <2>2, <2>3, <3>1, <3>2
  <2> QED BY <2>2, <2>3, <2>4, <2>5
<1>2. ASSUME NEW m \in Nat, NEW d \in Nat \ {0} PROVE (m + d - 1) \div d \in Nat
  <2>1. m + d - 1 \in Nat OBVIOUS
  <2> QED BY <2>1, DivMod
<1> QED BY <1>1, <1>2, Sizes DEF BlocksFor

LEMMA PoolSums ==
  ASSUME ShapeInv, NEW r \in Ranks
  PROVE  /\ \A e \in Local : rsum[r][e].routes \in Nat /\ NumM(r, e) \in Nat
         /\ \A e \in Offsets : Start(r, e) \in Nat /\ Block(r, e) \in Nat
         /\ Start(r, 0) = 0 /\ Block(r, 0) = 0
         /\ \A e \in Local : /\ Start(r, e + 1) = Start(r, e) + rsum[r][e].routes
                             /\ Block(r, e + 1) = Block(r, e) + NumM(r, e)
         /\ \A d, e \in Offsets :
              d <= e => Start(r, d) <= Start(r, e) /\ Block(r, d) <= Block(r, e)
<1> DEFINE f == [e \in Local |-> rsum[r][e].routes]
           g == [e \in Local |-> NumM(r, e)]
<1>1. \A e \in Local : rsum[r][e].routes \in Nat BY DEF ShapeInv, Status
<1>2. \A e \in Local : NumM(r, e) \in Nat BY <1>1, BlocksForFacts DEF NumM
<1>3. f \in [Local -> Nat] /\ g \in [Local -> Nat] BY <1>1, <1>2
<1>4. \A e : Start(r, e) = SumBelow(e, f) /\ Block(r, e) = SumBelow(e, g)
  BY DEF Start, Block
<1>5. \A e \in Local : f[e] = rsum[r][e].routes /\ g[e] = NumM(r, e) OBVIOUS
<1> HIDE DEF f, g
<1>6. /\ SumBelow(0, f) = 0
      /\ \A e \in Offsets : SumBelow(e, f) \in Nat
      /\ \A e \in Local : SumBelow(e + 1, f) = SumBelow(e, f) + f[e]
      /\ \A d, e \in Offsets : d <= e => SumBelow(d, f) <= SumBelow(e, f)
  BY <1>3, PrefixSums
<1>7. /\ SumBelow(0, g) = 0
      /\ \A e \in Offsets : SumBelow(e, g) \in Nat
      /\ \A e \in Local : SumBelow(e + 1, g) = SumBelow(e, g) + g[e]
      /\ \A d, e \in Offsets : d <= e => SumBelow(d, g) <= SumBelow(e, g)
  BY <1>3, PrefixSums
<1> QED BY <1>1, <1>2, <1>4, <1>5, <1>6, <1>7

\* Every place has one expert, and every block.
LEMMA PoolRanges ==
  ASSUME ShapeInv, NEW r \in Ranks
  PROVE  /\ \A i \in Nat : i < Start(r, EPR) =>
              /\ ExpertAt(r, i) \in Local
              /\ Start(r, ExpertAt(r, i)) <= i /\ i < Start(r, ExpertAt(r, i) + 1)
         /\ \A i \in Nat, e \in Local :
              Start(r, e) <= i /\ i < Start(r, e + 1) => ExpertAt(r, i) = e
         /\ \A b \in Nat : b < Block(r, EPR) =>
              /\ ExpertOf(r, b) \in Local
              /\ Block(r, ExpertOf(r, b)) <= b /\ b < Block(r, ExpertOf(r, b) + 1)
         /\ \A b \in Nat, e \in Local :
              Block(r, e) <= b /\ b < Block(r, e + 1) => ExpertOf(r, b) = e
<1> DEFINE f == [e \in Local |-> rsum[r][e].routes]
           g == [e \in Local |-> NumM(r, e)]
<1>1. f \in [Local -> Nat] /\ g \in [Local -> Nat] BY PoolSums
<1>2. \A e : Start(r, e) = SumBelow(e, f) /\ Block(r, e) = SumBelow(e, g)
  BY DEF Start, Block
<1> HIDE DEF f, g
<1>3. ASSUME NEW i \in Nat, i < Start(r, EPR)
      PROVE  /\ \E e \in Local : Start(r, e) <= i /\ i < Start(r, e + 1)
             /\ \A d, e \in Local :
                  /\ Start(r, d) <= i /\ i < Start(r, d + 1)
                  /\ Start(r, e) <= i /\ i < Start(r, e + 1)
                  => d = e
  <2>1. i < SumBelow(EPR, f) BY <1>2, <1>3
  <2>2. /\ \E e \in Local : SumBelow(e, f) <= i /\ i < SumBelow(e + 1, f)
        /\ \A d, e \in Local :
              /\ SumBelow(d, f) <= i /\ i < SumBelow(d + 1, f)
              /\ SumBelow(e, f) <= i /\ i < SumBelow(e + 1, f)
              => d = e
    BY <1>1, <2>1, PrefixRange
  <2> QED BY <1>2, <2>2
<1>4. ASSUME NEW b \in Nat, b < Block(r, EPR)
      PROVE  /\ \E e \in Local : Block(r, e) <= b /\ b < Block(r, e + 1)
             /\ \A d, e \in Local :
                  /\ Block(r, d) <= b /\ b < Block(r, d + 1)
                  /\ Block(r, e) <= b /\ b < Block(r, e + 1)
                  => d = e
  <2>1. b < SumBelow(EPR, g) BY <1>2, <1>4
  <2>2. /\ \E e \in Local : SumBelow(e, g) <= b /\ b < SumBelow(e + 1, g)
        /\ \A d, e \in Local :
              /\ SumBelow(d, g) <= b /\ b < SumBelow(d + 1, g)
              /\ SumBelow(e, g) <= b /\ b < SumBelow(e + 1, g)
              => d = e
    BY <1>1, <2>1, PrefixRange
  <2> QED BY <1>2, <2>2
<1>5. ASSUME NEW e \in Local
      PROVE  /\ e + 1 \in Offsets /\ EPR \in Offsets /\ e + 1 <= EPR
             /\ \A i \in Nat : i < Start(r, e + 1) => i < Start(r, EPR)
             /\ \A i \in Nat : i < Block(r, e + 1) => i < Block(r, EPR)
  <2>1. e + 1 \in Offsets /\ EPR \in Offsets /\ e + 1 <= EPR BY Sizes DEF Local, Offsets
  <2>2. /\ Start(r, e + 1) <= Start(r, EPR) /\ Block(r, e + 1) <= Block(r, EPR)
        /\ {Start(r, e + 1), Start(r, EPR), Block(r, e + 1), Block(r, EPR)} \subseteq Nat
    BY <2>1, PoolSums
  <2> QED BY <2>1, <2>2
<1>6. ASSUME NEW i \in Nat, i < Start(r, EPR)
      PROVE  /\ ExpertAt(r, i) \in Local
             /\ Start(r, ExpertAt(r, i)) <= i /\ i < Start(r, ExpertAt(r, i) + 1)
  BY <1>3, <1>6 DEF ExpertAt
<1>7. ASSUME NEW b \in Nat, b < Block(r, EPR)
      PROVE  /\ ExpertOf(r, b) \in Local
             /\ Block(r, ExpertOf(r, b)) <= b /\ b < Block(r, ExpertOf(r, b) + 1)
  BY <1>4, <1>7 DEF ExpertOf
<1>8. ASSUME NEW i \in Nat, NEW e \in Local, Start(r, e) <= i, i < Start(r, e + 1)
      PROVE  ExpertAt(r, i) = e
  <2>1. i < Start(r, EPR) BY <1>5, <1>8
  <2> QED BY <1>3, <1>6, <1>8, <2>1
<1>9. ASSUME NEW b \in Nat, NEW e \in Local, Block(r, e) <= b, b < Block(r, e + 1)
      PROVE  ExpertOf(r, b) = e
  <2>1. b < Block(r, EPR) BY <1>5, <1>9
  <2> QED BY <1>4, <1>7, <1>9, <2>1
<1> QED BY <1>6, <1>7, <1>8, <1>9

\* The k-th block of an expert and the m-th row of it, as a place.
LEMMA PlaceOfRow ==
  ASSUME ShapeInv, NEW r \in Ranks, NEW i \in Nat, i < Start(r, EPR)
  PROVE  \E k \in Nat, m \in 0 .. BLOCK_M - 1 :
           /\ i = Start(r, ExpertAt(r, i)) + (k * BLOCK_M + m)
           /\ k < NumM(r, ExpertAt(r, i))
           /\ RowOf(r, i) = (Block(r, ExpertAt(r, i)) + k) * BLOCK_M + m
           /\ RowOf(r, i) \in Nat
           /\ RowOf(r, i) \div BLOCK_M = Block(r, ExpertAt(r, i)) + k
           /\ RowOf(r, i) \div BLOCK_M \in Nat
           /\ RowOf(r, i) \div BLOCK_M < Block(r, EPR)
<1> PICK e, a, c, n, d : /\ e = ExpertAt(r, i) /\ a = Start(r, e) /\ c = Block(r, e)
                         /\ n = rsum[r][e].routes /\ d = BLOCK_M
  OBVIOUS
<1>1. e \in Local /\ a <= i /\ i < Start(r, e + 1) BY PoolRanges
<1>2. e \in Offsets /\ e + 1 \in Offsets /\ EPR \in Offsets /\ e + 1 <= EPR
  BY <1>1, Sizes DEF Local, Offsets
<1>3. a \in Nat /\ c \in Nat /\ n \in Nat /\ d \in Nat \ {0} /\ NumM(r, e) \in Nat
  BY <1>1, <1>2, PoolSums, Sizes
<1>4. Start(r, e + 1) = a + n /\ Block(r, e + 1) = c + NumM(r, e)
  BY <1>1, PoolSums
<1>5. i - a \in Nat /\ i - a < n BY <1>1, <1>3, <1>4
<1>6. PICK k \in Nat, m \in 0 .. d - 1 : i - a = k * d + m
  <2>1. (i - a) \div d \in Nat /\ (i - a) % d \in 0 .. d - 1
        /\ i - a = ((i - a) \div d) * d + ((i - a) % d)
    BY <1>3, <1>5, DivMod
  <2> QED BY <2>1
<1>7. k < NumM(r, e)
  <2>1. k * d \in Nat BY <1>3
  <2>2. k * d < n BY <1>3, <1>5, <1>6, <2>1
  <2> QED BY <1>3, <2>2, BlocksForFacts DEF NumM
<1>8. RowOf(r, i) = (c + k) * d + m
  <2>1. RowOf(r, i) = c * d + i - a BY DEF RowOf
  <2>2. \A p, q, s \in Nat : (p + q) * s = p * s + q * s /\ p * s \in Nat /\ q * s \in Nat
    OBVIOUS
  <2>3. (c + k) * d = c * d + k * d /\ c * d \in Nat /\ k * d \in Nat BY <1>3, <2>2
  <2>4. PICK x \in Nat, y \in Nat : x = c * d /\ y = k * d BY <2>3
  <2>5. c * d + i - a = x + i - a /\ i - a = y + m /\ (c + k) * d + m = x + y + m
    BY <1>6, <2>3, <2>4
  <2>6. x + i - a = x + y + m BY <1>3, <1>6, <2>5
  <2> QED BY <2>1, <2>5, <2>6
<1>9. RowOf(r, i) \in Nat /\ RowOf(r, i) \div d = c + k
  <2>1. \A p \in Nat, s \in Nat \ {0} : \A t \in 0 .. s - 1 : p * s + t \in Nat /\ (p * s + t) \div s = p
    OBVIOUS
  <2>2. c + k \in Nat BY <1>3
  <2> QED BY <1>3, <1>6, <1>8, <2>1, <2>2
<1>10. c + k \in Nat /\ c + k < Block(r, EPR)
  <2>1. Block(r, e + 1) <= Block(r, EPR) /\ Block(r, EPR) \in Nat
    BY <1>2, PoolSums
  <2> QED BY <1>3, <1>4, <1>7, <2>1
<1>11. i = a + (k * d + m)
  <2>1. k * d \in Nat BY <1>3
  <2>2. PICK x \in Nat : x = k * d BY <2>1
  <2> QED BY <1>3, <1>6, <2>2
<1>12. RowOf(r, i) \div d \in Nat /\ RowOf(r, i) \div d < Block(r, EPR) BY <1>9, <1>10
<1> QED BY <1>7, <1>8, <1>9, <1>11, <1>12, Zenon

\* The rows of a block are its valid places, in order.
LEMMA RowsOfBlock ==
  ASSUME ShapeInv, NEW r \in Ranks, NEW b \in Nat, b < Block(r, EPR)
  PROVE  /\ ExpertOf(r, b) \in Local
         /\ ValidM(r, b) \in 1 .. BLOCK_M
         /\ \E first \in Nat :
              /\ \A m \in 0 .. ValidM(r, b) - 1 :
                   /\ first + m < Start(r, EPR)
                   /\ ExpertAt(r, first + m) = ExpertOf(r, b)
                   /\ RowOf(r, first + m) = b * BLOCK_M + m
                   /\ RowOf(r, first + m) \div BLOCK_M = b
              /\ \A i \in Nat : i < Start(r, EPR) /\ RowOf(r, i) \div BLOCK_M = b =>
                   i \in first .. first + ValidM(r, b) - 1
<1>p. PICK e, a, c, n, d, v, k :
        /\ e = ExpertOf(r, b) /\ a = Start(r, e) /\ c = Block(r, e)
        /\ n = rsum[r][e].routes /\ d = BLOCK_M /\ v = ValidM(r, b) /\ k = b - c
  OBVIOUS
<1>1. e \in Local /\ c <= b /\ b < Block(r, e + 1) BY <1>p, PoolRanges
<1>2. e \in Offsets /\ e + 1 \in Offsets /\ EPR \in Offsets /\ e + 1 <= EPR
  BY <1>1, Sizes DEF Local, Offsets
<1>3. a \in Nat /\ c \in Nat /\ n \in Nat /\ d \in Nat \ {0} /\ NumM(r, e) \in Nat
  BY <1>p, <1>1, <1>2, PoolSums, Sizes
<1>4. Start(r, e + 1) = a + n /\ Block(r, e + 1) = c + NumM(r, e)
  BY <1>p, <1>1, PoolSums
<1>5. k \in Nat /\ k < NumM(r, e) /\ b = c + k BY <1>p, <1>1, <1>3, <1>4
<1>6. k * d < n /\ k * d \in Nat
  <2>1. k * d < n BY <1>p, <1>3, <1>5, BlocksForFacts DEF NumM
  <2>2. k * d \in Nat BY <1>3, <1>5
  <2> QED BY <2>1, <2>2
<1>7. PICK x \in Nat : x = k * d BY <1>6
<1>8. /\ v \in Nat \ {0} /\ v <= d /\ v <= n - x
      /\ v = d \/ v = n - x
  <2> DEFINE S == {n - x, d}
  <2>1. ValidM(r, b) = Min(S) BY <1>p, <1>7 DEF ValidM
  <2>2. n - x \in Nat \ {0} BY <1>3, <1>6, <1>7
  <2>3. \E y \in S : \A z \in S : y <= z
    <3>1. CASE n - x <= d BY <1>3, <2>2, <3>1
    <3>2. CASE ~ (n - x <= d) BY <1>3, <2>2, <3>2
    <3> QED BY <3>1, <3>2
  <2>4. Min(S) \in S /\ \A z \in S : Min(S) <= z BY <2>3 DEF Min
  <2>5. v \in S /\ v <= d /\ v <= n - x BY <1>p, <2>1, <2>4
  <2> QED BY <1>3, <2>2, <2>5
<1>9. /\ Start(r, e + 1) <= Start(r, EPR) /\ Start(r, EPR) \in Nat
  BY <1>2, PoolSums
<1> DEFINE first == a + x
<1>10. ASSUME NEW m \in 0 .. v - 1
       PROVE  /\ first + m < Start(r, EPR)
              /\ ExpertAt(r, first + m) = e
              /\ RowOf(r, first + m) = b * d + m
              /\ RowOf(r, first + m) \div d = b
  <2>1. first + m \in Nat /\ a <= first + m /\ first + m < a + n BY <1>3, <1>7, <1>8
  <2>2. first + m < Start(r, EPR) BY <1>3, <1>4, <1>9, <2>1
  <2>3. ExpertAt(r, first + m) = e BY <1>p, <1>1, <1>4, <2>1, PoolRanges
  <2>4. RowOf(r, first + m) = c * d + (first + m) - a BY <1>p, <2>3 DEF RowOf
  <2>5. \A p, q, s \in Nat : (p + q) * s = p * s + q * s /\ p * s \in Nat /\ q * s \in Nat
    OBVIOUS
  <2>6. b * d = c * d + x /\ c * d \in Nat BY <1>3, <1>5, <1>7, <2>5
  <2>7. PICK y \in Nat : y = c * d BY <2>6
  <2>8. b * d = y + x /\ y + (a + x + m) - a = y + x + m BY <1>3, <1>7, <2>6, <2>7
  <2>9. RowOf(r, first + m) = b * d + m BY <2>4, <2>7, <2>8
  <2>10. \A p \in Nat, s \in Nat \ {0} : \A t \in 0 .. s - 1 : (p * s + t) \div s = p
    OBVIOUS
  <2>11. m \in 0 .. d - 1 BY <1>3, <1>8
  <2>12. (b * d + m) \div d = b BY <1>3, <2>10, <2>11
  <2> QED BY <2>2, <2>3, <2>9, <2>12
<1>11. ASSUME NEW i \in Nat, i < Start(r, EPR), RowOf(r, i) \div d = b
       PROVE  i \in first .. first + v - 1
  <2>1. PICK l \in Nat, m \in 0 .. d - 1 :
          /\ i = Start(r, ExpertAt(r, i)) + (l * d + m)
          /\ l < NumM(r, ExpertAt(r, i))
          /\ RowOf(r, i) \div d = Block(r, ExpertAt(r, i)) + l
    BY <1>p, <1>11, PlaceOfRow
  <2> PICK h : h = ExpertAt(r, i)
    OBVIOUS
  <2>2. h \in Local /\ i < Start(r, h + 1) BY <1>11, PoolRanges
  <2>3. h \in Offsets /\ Block(r, h) \in Nat /\ NumM(r, h) \in Nat
        /\ Block(r, h + 1) = Block(r, h) + NumM(r, h)
    <3>1. h \in Offsets BY <2>2, Sizes DEF Local, Offsets
    <3> QED BY <2>2, <3>1, PoolSums
  <2>4. Block(r, h) <= b /\ b < Block(r, h + 1) BY <1>11, <2>1, <2>3
  <2>5. h = e BY <1>p, <2>2, <2>4, PoolRanges
  <2>6. l = k BY <1>p, <1>3, <1>5, <1>11, <2>1, <2>5
  <2>7. i = a + (x + m) BY <1>p, <1>7, <2>1, <2>5, <2>6
  <2>8. i < a + n BY <1>4, <2>2, <2>5
  <2> QED BY <1>3, <1>7, <1>8, <2>7, <2>8
<1>12. first \in Nat BY <1>3, <1>7
<1>13. v \in 1 .. d BY <1>3, <1>8
<1> HIDE DEF first
<1> QED BY <1>p, <1>1, <1>10, <1>11, <1>12, <1>13

-----------------------------------------------------------------------------
(* What a rank that pulls knows of its routes.                              *)
LEMMA PullSums ==
  ASSUME CountsInv, NEW r \in Ranks, NEW s \in SMs, InKernel(r), pc[r][s] \in Pulling,
         NEW l \in Local
  PROVE  /\ rsum[r][l].routes = Cardinality(Given(plans[launch[r]], r * EPR + l))
         /\ rsum[r][l].routes = SumFunctionOnSet([q \in Ranks |-> recv[r][<<q, l>>]], Ranks)
         /\ rsum[r][l].ctas = NUM_SMS * NPES
<1> DEFINE e == r * EPR + l
           G == Shares(launch[r], e)
           f == [q \in Ranks |-> recv[r][<<q, l>>]]
<1>1. e \in Experts /\ Owner(e) = r /\ LocalOf(e) = l BY Ownership
<1>2. ShapeInv /\ BarrierInv /\ SumsInv(r) BY DEF CountsInv, ControlInv
<1>3. launch[r] \in 1 .. MaxLaunches BY <1>2, TopkFacts DEF InKernel
<1>4. Publishers(r, e) = Ranks
  <2>1. \A q \in Ranks : Live(q) /\ launch[q] = launch[r] /\ unsent[q] = {}
    BY PullingHasAll
  <2> QED BY <2>1 DEF Publishers
<1>5. /\ rsum[r][l].ctas = NUM_SMS * Cardinality(Ranks)
      /\ rsum[r][l].routes = Cardinality(Stacked(G, Ranks))
      /\ \A q \in Ranks : recv[r][<<q, l>>] = Cardinality(PlanTo(launch[r], q, e))
  BY <1>1, <1>2, <1>4 DEF SumsInv, InKernel
<1>6. \A q \in Ranks : IsFiniteSet(G[q]) /\ f[q] = Cardinality(G[q])
  BY <1>1, <1>2, <1>3, <1>5, PlanToFacts DEF Shares
<1>7. Stacked(G, Ranks) = Given(plans[launch[r]], e)
  BY DEF Stacked, Given, Shares, PlanTo
<1> HIDE DEF G, f
<1>8. SumFunctionOnSet(f, Ranks) = Cardinality(Stacked(G, Ranks))
  BY <1>6, FiniteSizes, SumOfSizes
<1> QED BY <1>5, <1>7, <1>8, FiniteSizes DEF f

\* The pool has room for the routes of the rank.
LEMMA PoolHasRoom ==
  ASSUME CountsInv, NEW r \in Ranks, NEW s \in SMs, InKernel(r), pc[r][s] \in Pulling
  PROVE  Block(r, EPR) <= PoolBlocks
<1>1. ShapeInv /\ BarrierInv BY DEF CountsInv, ControlInv
<1>2. launch[r] \in 1 .. MaxLaunches BY <1>1, TopkFacts DEF InKernel
<1>3. Admitted(plans[launch[r]]) BY <1>1, <1>2, MegaMoeAssumption DEF ShapeInv
<1>4. SumBelow(EPR, [l \in Local |->
                BlocksFor(Cardinality(Given(plans[launch[r]], r * EPR + l)))]) <= PoolBlocks
  BY <1>3 DEF Admitted
<1>5. \A l \in Local :
        NumM(r, l) = BlocksFor(Cardinality(Given(plans[launch[r]], r * EPR + l)))
  BY PullSums DEF NumM
<1>6. [l \in Local |-> NumM(r, l)] =
        [l \in Local |-> BlocksFor(Cardinality(Given(plans[launch[r]], r * EPR + l)))]
  BY <1>5
<1> QED BY <1>4, <1>6 DEF Block

\* Different places of the order have different rows.
LEMMA RowsDiffer ==
  ASSUME ShapeInv, NEW r \in Ranks, NEW h \in Nat, NEW i \in Nat,
         h < Start(r, EPR), i < Start(r, EPR), RowOf(r, h) = RowOf(r, i)
  PROVE  h = i
<1>1. PICK b : b = RowOf(r, h) \div BLOCK_M OBVIOUS
<1>2. b = RowOf(r, i) \div BLOCK_M BY <1>1
<1>3. b \in Nat /\ b < Block(r, EPR) BY <1>1, PlaceOfRow
<1>4. ValidM(r, b) \in 1 .. BLOCK_M BY <1>3, RowsOfBlock
<1>5. PICK v \in Nat : v = ValidM(r, b) BY <1>4
<1>6. PICK first \in Nat :
        /\ \A m \in 0 .. v - 1 : RowOf(r, first + m) = b * BLOCK_M + m
        /\ \A x \in Nat : x < Start(r, EPR) /\ RowOf(r, x) \div BLOCK_M = b =>
                            x \in first .. first + v - 1
  BY <1>3, <1>5, RowsOfBlock
<1>7. h \in first .. first + v - 1 /\ i \in first .. first + v - 1
  BY <1>1, <1>2, <1>6
<1>8. /\ h - first \in 0 .. v - 1 /\ first + (h - first) = h
      /\ i - first \in 0 .. v - 1 /\ first + (i - first) = i
  BY <1>6, <1>7
<1>9. RowOf(r, h) = b * BLOCK_M + (h - first) /\ RowOf(r, i) = b * BLOCK_M + (i - first)
  BY <1>6, <1>8
<1>10. \A x \in Nat, y \in Int, z \in Int : x + y = x + z => y = z OBVIOUS
<1>11. b * BLOCK_M \in Nat
  <2>1. \A x, y \in Nat : x * y \in Nat OBVIOUS
  <2> QED BY <1>3, <2>1, Sizes
<1>12. h - first = i - first
  <2>1. PICK x, y, z : x = b * BLOCK_M /\ y = h - first /\ z = i - first
    OBVIOUS
  <2>2. x \in Nat /\ y \in Int /\ z \in Int BY <1>6, <1>11, <2>1
  <2>3. x + y = x + z BY <1>9, <2>1
  <2> QED BY <1>10, <2>1, <2>2, <2>3
<1> QED BY <1>6, <1>12

\* The row of a place lies in a block of the pool.
LEMMA RowInPool ==
  ASSUME CountsInv, NEW r \in Ranks, NEW s \in SMs, InKernel(r), pc[r][s] \in Pulling,
         NEW i \in Nat, i < Start(r, EPR)
  PROVE  RowOf(r, i) \in Rows /\ RowOf(r, i) \div BLOCK_M \in Blocks
<1>1. ShapeInv BY DEF CountsInv, ControlInv
<1>2. PICK x \in Nat, m \in 0 .. BLOCK_M - 1 :
        /\ RowOf(r, i) = x * BLOCK_M + m /\ RowOf(r, i) \div BLOCK_M = x
        /\ x < Block(r, EPR) /\ RowOf(r, i) \in Nat
  <2>1. PICK k \in Nat, m \in 0 .. BLOCK_M - 1 :
           /\ RowOf(r, i) = (Block(r, ExpertAt(r, i)) + k) * BLOCK_M + m
           /\ RowOf(r, i) \in Nat
           /\ RowOf(r, i) \div BLOCK_M = Block(r, ExpertAt(r, i)) + k
           /\ RowOf(r, i) \div BLOCK_M \in Nat
           /\ RowOf(r, i) \div BLOCK_M < Block(r, EPR)
    BY <1>1, PlaceOfRow
  <2> QED BY <2>1, Zenon
<1>3. EPR \in Offsets BY Sizes DEF Offsets
<1>4. Block(r, EPR) <= PoolBlocks /\ Block(r, EPR) \in Nat BY <1>1, <1>3, PoolHasRoom, PoolSums
<1>5. x < PoolBlocks BY <1>2, <1>4, Sizes
<1>6. \A y, p \in Nat, d \in Nat \ {0} : \A z \in 0 .. d - 1 : y < p => y * d + z <= p * d - 1
  <2> SUFFICES ASSUME NEW y \in Nat, NEW p \in Nat, NEW d \in Nat \ {0}, NEW z \in 0 .. d - 1,
                      y < p
               PROVE  y * d + z <= p * d - 1
    OBVIOUS
  <2>1. (y + 1) * d <= p * d OBVIOUS
  <2>2. (y + 1) * d = y * d + d /\ y * d \in Nat /\ p * d \in Nat OBVIOUS
  <2> QED BY <2>1, <2>2
<1>7. RowOf(r, i) <= PoolBlocks * BLOCK_M - 1 BY <1>2, <1>5, <1>6, Sizes
<1>8. PoolBlocks * BLOCK_M \in Nat
  <2>1. \A x_, y_ \in Nat : x_ * y_ \in Nat OBVIOUS
  <2> QED BY <2>1, Sizes
<1> QED BY <1>2, <1>5, <1>7, <1>8, Sizes DEF Rows, Blocks

\* What is pulled at a place is a route of this launch to the expert.
LEMMA PulledRoute ==
  ASSUME CountsInv, NEW r \in Ranks, NEW s \in SMs, InKernel(r), pc[r][s] \in Pulling,
         \A q \in Ranks : staged[q] = launch[q],
         NEW i \in Nat, i < Start(r, EPR)
  PROVE  /\ Pulled(r, i).launch = launch[r]
         /\ Pulled(r, i).rank \in Ranks
         /\ Pulled(r, i).route \in RoutesTo(r, Pulled(r, i).rank, r * EPR + ExpertAt(r, i))
         /\ \A h \in Nat : h # i /\ h < Start(r, EPR) /\ ExpertAt(r, h) = ExpertAt(r, i) =>
              Pulled(r, h) # Pulled(r, i)
<1> DEFINE e == ExpertAt(r, i)
           left == [q \in Ranks |-> recv[r][<<q, e>>]]
           Place(h) == [left |-> left, slot |-> h - Start(r, e), offset |-> 0]
           Mine_ == {h \in Nat : h < Start(r, EPR) /\ ExpertAt(r, h) = e}
<1>1. ShapeInv BY DEF CountsInv, ControlInv
<1>2. e \in Local /\ Start(r, e + 1) = Start(r, e) + rsum[r][e].routes
      /\ rsum[r][e].routes \in Nat /\ Start(r, e) \in Nat
  <2>1. e \in Local BY <1>1, PoolRanges
  <2>2. e \in Offsets BY <2>1, Sizes DEF Local, Offsets
  <2> QED BY <1>1, <2>1, <2>2, PoolSums
<1>3. \A h \in Mine_ : /\ Start(r, e) <= h /\ h < Start(r, e + 1)
                       /\ h - Start(r, e) \in Nat /\ h - Start(r, e) < rsum[r][e].routes
  <2> SUFFICES ASSUME NEW h \in Mine_
               PROVE  /\ Start(r, e) <= h /\ h < Start(r, e + 1)
                      /\ h - Start(r, e) \in Nat /\ h - Start(r, e) < rsum[r][e].routes
    OBVIOUS
  <2>1. Start(r, e) <= h /\ h < Start(r, e + 1) BY <1>1, PoolRanges
  <2>2. h \in Nat OBVIOUS
  <2> HIDE DEF e, Mine_
  <2> QED BY <1>2, <2>1, <2>2
<1> HIDE DEF e
<1>4. ASSUME NEW q \in Ranks
      PROVE  /\ recv[r][<<q, e>>] = Cardinality(RoutesTo(r, q, r * EPR + e))
             /\ recv[r][<<q, e>>] \in 0 .. MAX_RECV
             /\ {queue[r][<<e, q, x>>] : x \in 0 .. recv[r][<<q, e>>] - 1} =
                  RoutesTo(r, q, r * EPR + e)
  BY <1>2, FullQueues
<1>5. left \in [Ranks -> 0 .. MAX_RECV] /\ left \in [Ranks -> Nat] BY <1>4, Sizes
<1>6. Cardinality(Cells(left)) = rsum[r][e].routes
  <2>1. rsum[r][e].routes = SumFunctionOnSet(left, Ranks) BY <1>2, PullSums
  <2> HIDE DEF left
  <2> QED BY <1>5, <2>1, CellsSize
<1>7. \A q \in Ranks : left[q] = recv[r][<<q, e>>] OBVIOUS
<1> HIDE DEF left
<1>8. ASSUME NEW h \in Mine_
      PROVE  /\ Place(h) \in Places /\ Place(h).left = left /\ Place(h).offset = 0
             /\ Place(h).slot = h - Start(r, e)
             /\ Place(h).slot < Cardinality(Cells(left))
  <2> HIDE DEF Mine_
  <2> QED BY <1>3, <1>5, <1>6 DEF Places
<1>9. ASSUME NEW h \in Mine_
      PROVE  /\ Pulled(r, h) = [launch |-> staged[RoundRobin[Place(h)][1]],
                                rank   |-> RoundRobin[Place(h)][1],
                                route  |-> queue[r][<<e, RoundRobin[Place(h)][1],
                                                     RoundRobin[Place(h)][2]>>]]
             /\ RoundRobin[Place(h)][1] \in Ranks /\ RoundRobin[Place(h)][2] \in Nat
             /\ RoundRobin[Place(h)] = <<RoundRobin[Place(h)][1], RoundRobin[Place(h)][2]>>
             /\ RoundRobin[Place(h)][2] < recv[r][<<RoundRobin[Place(h)][1], e>>]
  <2>1. ExpertAt(r, h) = e OBVIOUS
  <2>2. Pulled(r, h) = [launch |-> staged[RoundRobin[Place(h)][1]],
                        rank   |-> RoundRobin[Place(h)][1],
                        route  |-> queue[r][<<e, RoundRobin[Place(h)][1],
                                             RoundRobin[Place(h)][2]>>]]
    BY <2>1 DEF Pulled, left
  <2>3. PICK x : x = Place(h) OBVIOUS
  <2>4. x \in Places /\ x.left = left /\ x.offset = 0 /\ x.slot < Cardinality(Cells(x.left))
    BY <1>8, <2>3
  <2>5. PICK q \in Ranks, k \in Nat : RoundRobin[x] = <<q, x.offset + k>> /\ k < x.left[q]
    BY <2>4, RoundRobinTakes
  <2>6. RoundRobin[x] = <<q, k>> /\ k < recv[r][<<q, e>>] BY <1>7, <2>4, <2>5
  <2>7. RoundRobin[x][1] = q /\ RoundRobin[x][2] = k BY <2>6
  <2> QED BY <2>2, <2>3, <2>6, <2>7
<1>10. i \in Mine_ BY DEF e
<1>11. \A q \in Ranks : staged[q] = launch[r] BY PullingHasAll
<1>12. /\ Pulled(r, i).launch = launch[r] /\ Pulled(r, i).rank \in Ranks
       /\ Pulled(r, i).route \in RoutesTo(r, Pulled(r, i).rank, r * EPR + e)
  <2> PICK q, k : q = RoundRobin[Place(i)][1] /\ k = RoundRobin[Place(i)][2]
    OBVIOUS
  <2>1. /\ Pulled(r, i) = [launch |-> staged[q], rank |-> q, route |-> queue[r][<<e, q, k>>]]
        /\ q \in Ranks /\ k \in Nat /\ k < recv[r][<<q, e>>]
    BY <1>9, <1>10
  <2>2. k \in 0 .. recv[r][<<q, e>>] - 1 BY <1>4, <2>1
  <2>3. queue[r][<<e, q, k>>] \in RoutesTo(r, q, r * EPR + e) BY <1>4, <2>1, <2>2
  <2> QED BY <1>11, <2>1, <2>3
<1>13. ASSUME NEW q \in Ranks, NEW k \in 0 .. recv[r][<<q, e>>] - 1,
              NEW m \in 0 .. recv[r][<<q, e>>] - 1,
              queue[r][<<e, q, k>>] = queue[r][<<e, q, m>>]
       PROVE  k = m
  <2> DEFINE S == 0 .. recv[r][<<q, e>>] - 1
             T == RoutesTo(r, q, r * EPR + e)
             f == [x \in S |-> queue[r][<<e, q, x>>]]
  <2>0. recv[r][<<q, e>>] \in Nat /\ 0 \in Nat /\ 0 + recv[r][<<q, e>>] - 1 = recv[r][<<q, e>>] - 1
    BY <1>4, Sizes
  <2>1. IsFiniteSet(S) /\ Cardinality(S) = recv[r][<<q, e>>]
    BY <2>0, IntervalSize
  <2>2. Cardinality(T) = Cardinality(S) /\ T = {f[x] : x \in S} BY <1>4, <2>1
  <2>3. k \in S /\ m \in S /\ f[k] = f[m] BY <1>13
  <2>4. f = [x \in S |-> f[x]] OBVIOUS
  <2> HIDE DEF S, T, f
  <2>5. f \in Surjection(S, T) BY <2>2, <2>4 DEF Surjection
  <2>6. f \in Injection(S, T) BY <2>1, <2>2, <2>5, FS_Surjection
  <2> QED BY <2>3, <2>6 DEF Injection, IsInjective
<1>14. ASSUME NEW h \in Mine_, h # i, Pulled(r, h) = Pulled(r, i) PROVE FALSE
  <2> PICK q, k, p, m : /\ q = RoundRobin[Place(i)][1] /\ k = RoundRobin[Place(i)][2]
                        /\ p = RoundRobin[Place(h)][1] /\ m = RoundRobin[Place(h)][2]
    OBVIOUS
  <2>1. /\ Pulled(r, i) = [launch |-> staged[q], rank |-> q, route |-> queue[r][<<e, q, k>>]]
        /\ q \in Ranks /\ k \in Nat /\ k < recv[r][<<q, e>>]
        /\ RoundRobin[Place(i)] = <<q, k>>
    BY <1>9, <1>10
  <2>2. /\ Pulled(r, h) = [launch |-> staged[p], rank |-> p, route |-> queue[r][<<e, p, m>>]]
        /\ p \in Ranks /\ m \in Nat /\ m < recv[r][<<p, e>>]
        /\ RoundRobin[Place(h)] = <<p, m>>
    BY <1>9
  <2>3. p = q /\ queue[r][<<e, q, m>>] = queue[r][<<e, q, k>>] BY <1>14, <2>1, <2>2
  <2>4. k \in 0 .. recv[r][<<q, e>>] - 1 /\ m \in 0 .. recv[r][<<q, e>>] - 1
    BY <1>4, <2>1, <2>2, <2>3
  <2>5. k = m BY <1>13, <2>1, <2>3, <2>4
  <2>6. RoundRobin[Place(h)] = RoundRobin[Place(i)] BY <2>1, <2>2, <2>3, <2>5
  <2>7. PICK x, y : x = Place(h) /\ y = Place(i) OBVIOUS
  <2>8. /\ x \in Places /\ y \in Places /\ y.left = x.left /\ y.offset = x.offset
        /\ x.slot < Cardinality(Cells(x.left)) /\ y.slot < Cardinality(Cells(x.left))
        /\ x.slot = h - Start(r, e) /\ y.slot = i - Start(r, e)
    BY <1>8, <1>10, <2>7
  <2>9. y.slot # x.slot BY <1>2, <1>14, <2>8
  <2> QED BY <2>6, <2>7, <2>8, <2>9, RoundRobinDiffers
<1> QED BY <1>12, <1>14 DEF e

-----------------------------------------------------------------------------
(* The pull streams.                                                        *)
Order(r) == 0 .. Start(r, EPR) - 1
BlockAt(r, i) == RowOf(r, i) \div BLOCK_M

\* The places whose row is counted as arrived, and those whose row is in the pool.
AnnouncedAt(r) ==
  {i \in Order(r) : \E s \in SMs, j \in Streams :
     /\ pc[r][s] \in Pulling
     /\ i % (2 * NUM_SMS) = 2 * s + j
     /\ i < pull[r][s][j].next}
StoredAt(r) ==
  {i \in Order(r) : \E s \in SMs, j \in Streams :
     /\ pc[r][s] \in Pulling
     /\ i % (2 * NUM_SMS) = 2 * s + j
     /\ \/ i < pull[r][s][j].next
        \/ i = pull[r][s][j].next /\ pull[r][s][j].copied}

\* The streams of a rank deal its places among them; a row is stored before it is
\* counted.
RowsInv(r) ==
  /\ staged[r] = launch[r]
  /\ stage[r] = "open" => \A b \in Blocks : arrival[r][b] = 0
  /\ InKernel(r) =>
       /\ \A s \in SMs, j \in Streams : pc[r][s] \in Pulling =>
            /\ pull[r][s][j].next % (2 * NUM_SMS) = 2 * s + j
            /\ pull[r][s][j].copied => pull[r][s][j].next < Start(r, EPR)
       /\ \A i \in StoredAt(r) : pool[r][RowOf(r, i)] = Pulled(r, i)
       /\ \A b \in Blocks :
            arrival[r][b] = Cardinality({i \in AnnouncedAt(r) : BlockAt(r, i) = b})

LEMMA RowsInit ==
  ASSUME Init, NEW r \in Ranks PROVE RowsInv(r)
BY DEF Init, RowsInv, InKernel

\* While a rank pulls nobody writes into its queues, sums and counts.
LEMMA PullFrame ==
  ASSUME CountsInv, NEW a \in Ranks, NEW t \in SMs, Host(a) \/ Dispatch(a, t) \/ Math(a, t),
         NEW r \in Ranks, NEW s \in SMs, InKernel(r), pc[r][s] \in Pulling
  PROVE  UNCHANGED <<queue, recv, rsum, staged, plans>>
<1>1. stage[a] # "idle" /\ unsent[a] = {} /\ \A x \in SMs : pc[a][x] \in Arrived
  BY PullingHasAll
<1>2. pc[a][t] # "enqueue" BY <1>1 DEF Arrived
<1> USE DEF host, counts, sync, results, roles
<1>3. ~ Prepare(a) BY <1>1 DEF Prepare, Goto
<1>4. ~ Enqueue(a, t) BY <1>2 DEF Enqueue, Step
<1>5. ~ Publish(a) BY <1>1 DEF Publish
<1> DEFINE Same == UNCHANGED <<queue, recv, rsum, staged, plans>>
<1>6. ASSUME Host(a) PROVE Same
  BY <1>3, <1>6 DEF Host, StartKernel, EndKernel, Close
<1>7. ASSUME Dispatch(a, t) PROVE Same
  <2>1. ASSUME NEW j \in Streams, Copy(a, t, j) PROVE Same BY <2>1 DEF Copy
  <2>2. ASSUME NEW j \in Streams, Announce(a, t, j) PROVE Same BY <2>2 DEF Announce
  <2>3. ASSUME Reserve(a, t) \/ Arrive(a, t) \/ Grid(a, t) \/ Signal(a) \/ Await(a)
               \/ Meet(a, t) \/ Met(a, t) \/ EndPull(a, t)
        PROVE  Same
    BY <2>3 DEF Reserve, Arrive, Grid, Signal, Await, Meet, Met, EndPull
  <2> HIDE DEF Same
  <2> QED BY <1>4, <1>5, <1>7, <2>1, <2>2, <2>3 DEF Dispatch
<1>8. ASSUME Math(a, t) PROVE Same
  BY <1>8 DEF Math, WaitReady, Scatter, MathArrive, MathGrid, MathAwait, MathMeet, Combine
<1> QED BY <1>6, <1>7, <1>8

\* The pool is laid out by the sums alone.
LEMMA SamePool ==
  ASSUME NEW r \in Ranks, rsum'[r] = rsum[r]
  PROVE  /\ Start(r, EPR)' = Start(r, EPR) /\ Block(r, EPR)' = Block(r, EPR)
         /\ Order(r)' = Order(r) /\ Used(r)' = Used(r)
         /\ \A i : RowOf(r, i)' = RowOf(r, i) /\ BlockAt(r, i)' = BlockAt(r, i)
                   /\ ExpertAt(r, i)' = ExpertAt(r, i)
         /\ \A b : ExpertOf(r, b)' = ExpertOf(r, b) /\ ValidM(r, b)' = ValidM(r, b)
         /\ recv'[r] = recv[r] /\ queue'[r] = queue[r] /\ staged' = staged =>
              \A i : Pulled(r, i)' = Pulled(r, i)
<1>1. \A e : NumM(r, e)' = NumM(r, e) BY DEF NumM
<1>2. \A e : Start(r, e)' = Start(r, e) BY DEF Start
<1>3. \A e : Block(r, e)' = Block(r, e)
  <2>1. [f \in Local |-> NumM(r, f)]' = [f \in Local |-> NumM(r, f)] BY <1>1
  <2> QED BY <2>1 DEF Block
<1>4. \A i : ExpertAt(r, i)' = ExpertAt(r, i) BY <1>2 DEF ExpertAt
<1>5. \A b : ExpertOf(r, b)' = ExpertOf(r, b) BY <1>3 DEF ExpertOf
<1>6. \A i : RowOf(r, i)' = RowOf(r, i) BY <1>2, <1>3, <1>4 DEF RowOf
<1>7. \A i : BlockAt(r, i)' = BlockAt(r, i) BY <1>6 DEF BlockAt
<1>8. \A b : ValidM(r, b)' = ValidM(r, b) BY <1>3, <1>5 DEF ValidM
<1>9. Order(r)' = Order(r) /\ Used(r)' = Used(r) BY <1>2, <1>3 DEF Order, Used
<1>10. ASSUME recv'[r] = recv[r], queue'[r] = queue[r], staged' = staged
       PROVE  \A i : Pulled(r, i)' = Pulled(r, i)
  BY <1>2, <1>4, <1>10 DEF Pulled
<1> QED BY <1>2, <1>3, <1>4, <1>5, <1>6, <1>7, <1>8, <1>9, <1>10

LEMMA SizesOfNone == Cardinality({}) = 0
  BY FS_EmptySet

\* A step that leaves a rank's streams and what they have moved alone.
Settled(r) ==
  /\ stage'[r] = "kernel" => stage[r] = "kernel"
  /\ stage'[r] = "open" => stage[r] = "open"
  /\ arrival'[r] = arrival[r] /\ pool'[r] = pool[r] /\ pull'[r] = pull[r]
  /\ launch'[r] = launch[r] /\ staged'[r] = staged[r]
  /\ stage'[r] = "kernel" =>
       \A x \in SMs : pc'[r][x] \in Pulling <=> pc[r][x] \in Pulling

LEMMA RowsKept ==
  ASSUME NEW r \in Ranks, RowsInv(r), Settled(r),
         (InKernel(r) /\ \E x \in SMs : pc[r][x] \in Pulling) =>
            /\ rsum'[r] = rsum[r] /\ recv'[r] = recv[r] /\ queue'[r] = queue[r]
            /\ staged' = staged
  PROVE  RowsInv(r)'
<1>1. (staged[r] = launch[r])' BY DEF RowsInv, Settled
<1>2. (stage[r] = "open" => \A b \in Blocks : arrival[r][b] = 0)'
  BY DEF RowsInv, Settled
<1> SUFFICES ASSUME InKernel(r)'
             PROVE  (/\ \A s \in SMs, j \in Streams : pc[r][s] \in Pulling =>
                          /\ pull[r][s][j].next % (2 * NUM_SMS) = 2 * s + j
                          /\ pull[r][s][j].copied => pull[r][s][j].next < Start(r, EPR)
                     /\ \A i \in StoredAt(r) : pool[r][RowOf(r, i)] = Pulled(r, i)
                     /\ \A b \in Blocks :
                          arrival[r][b] = Cardinality({i \in AnnouncedAt(r) : BlockAt(r, i) = b}))'
  BY <1>1, <1>2 DEF RowsInv
<1>3. /\ InKernel(r)
      /\ \A x \in SMs : pc'[r][x] \in Pulling <=> pc[r][x] \in Pulling
      /\ arrival'[r] = arrival[r] /\ pool'[r] = pool[r] /\ pull'[r] = pull[r]
  BY DEF Settled, InKernel
<1>4. CASE \E x \in SMs : pc[r][x] \in Pulling
  <2>1. /\ rsum'[r] = rsum[r] /\ recv'[r] = recv[r] /\ queue'[r] = queue[r] /\ staged' = staged
    BY <1>3, <1>4
  <2>2. /\ Start(r, EPR)' = Start(r, EPR) /\ Order(r)' = Order(r)
        /\ \A i : RowOf(r, i)' = RowOf(r, i) /\ BlockAt(r, i)' = BlockAt(r, i)
                  /\ Pulled(r, i)' = Pulled(r, i)
    BY <2>1, SamePool
  <2>3. AnnouncedAt(r)' = AnnouncedAt(r) BY <1>3, <2>2 DEF AnnouncedAt
  <2>4. StoredAt(r)' = StoredAt(r) BY <1>3, <2>2 DEF StoredAt
  <2>5. \A b : {i \in AnnouncedAt(r) : BlockAt(r, i) = b}' = {i \in AnnouncedAt(r) : BlockAt(r, i) = b}
    BY <2>2, <2>3
  <2>6. /\ \A s \in SMs, j \in Streams : pc[r][s] \in Pulling =>
             /\ pull[r][s][j].next % (2 * NUM_SMS) = 2 * s + j
             /\ pull[r][s][j].copied => pull[r][s][j].next < Start(r, EPR)
        /\ \A i \in StoredAt(r) : pool[r][RowOf(r, i)] = Pulled(r, i)
        /\ \A b \in Blocks :
             arrival[r][b] = Cardinality({i \in AnnouncedAt(r) : BlockAt(r, i) = b})
    BY <1>3 DEF RowsInv
  <2>7. \A s \in SMs, j \in Streams : pc'[r][s] \in Pulling =>
             /\ pull'[r][s][j].next % (2 * NUM_SMS) = 2 * s + j
             /\ pull'[r][s][j].copied => pull'[r][s][j].next < Start(r, EPR)'
    BY <1>3, <2>2, <2>6
  <2>8. \A i \in StoredAt(r)' : pool'[r][RowOf(r, i)'] = Pulled(r, i)'
    BY <1>3, <2>2, <2>4, <2>6
  <2>9. \A b \in Blocks :
          arrival'[r][b] = Cardinality({i \in AnnouncedAt(r) : BlockAt(r, i) = b}')
    BY <1>3, <2>5, <2>6
  <2> QED BY <2>7, <2>8, <2>9
<1>5. CASE ~ \E x \in SMs : pc[r][x] \in Pulling
  <2>1. AnnouncedAt(r) = {} /\ AnnouncedAt(r)' = {} /\ StoredAt(r)' = {}
    BY <1>3, <1>5 DEF AnnouncedAt, StoredAt
  <2>2. \A b : {i \in AnnouncedAt(r) : BlockAt(r, i) = b} = {}
               /\ {i \in AnnouncedAt(r) : BlockAt(r, i) = b}' = {}
    BY <2>1
  <2>3. \A b \in Blocks :
          arrival'[r][b] = Cardinality({i \in AnnouncedAt(r) : BlockAt(r, i) = b}')
    BY <1>3, <2>2 DEF RowsInv
  <2> QED BY <1>3, <1>5, <2>1, <2>3
<1> QED BY <1>4, <1>5

\* What a rank does to its own streams: five of its actions are about them.
LEMMA SettledStep ==
  ASSUME ShapeInv, BarrierInv, NEW r \in Ranks, NEW s \in SMs,
         Host(r) \/ Dispatch(r, s) \/ Math(r, s)
  PROVE  \/ Settled(r) \/ Prepare(r) \/ StartKernel(r) \/ Met(r, s)
         \/ \E j \in Streams : Copy(r, s, j) \/ Announce(r, s, j)
<1>0. 0 \in SMs BY Sizes
<1> USE DEF host, counts, sync, results, roles, Settled, Pulling, Phases
<1>1. ASSUME EndKernel(r) PROVE Settled(r)
  BY <1>0, <1>1 DEF EndKernel, Goto, ShapeInv, BarrierInv
<1>2. ASSUME Close(r) PROVE Settled(r)
  BY <1>0, <1>2 DEF Close, Goto, ShapeInv, BarrierInv
<1>3. ASSUME Reserve(r, s) PROVE Settled(r)
  BY <1>0, <1>3 DEF Reserve, Step, ShapeInv, BarrierInv
<1>4. ASSUME Enqueue(r, s) PROVE Settled(r)
  BY <1>0, <1>4 DEF Enqueue, Step, ShapeInv, BarrierInv
<1>5. ASSUME Arrive(r, s) PROVE Settled(r)
  BY <1>0, <1>5 DEF Arrive, Step, ShapeInv, BarrierInv
<1>6. ASSUME Grid(r, s) PROVE Settled(r)
  BY <1>0, <1>6 DEF Grid, Step, ShapeInv, BarrierInv
<1>7. ASSUME Publish(r) PROVE Settled(r)
  BY <1>0, <1>7 DEF Publish, ShapeInv, BarrierInv
<1>8. ASSUME Signal(r) PROVE Settled(r)
  BY <1>0, <1>8 DEF Signal, Step, ShapeInv, BarrierInv
<1>9. ASSUME Await(r) PROVE Settled(r)
  BY <1>0, <1>9 DEF Await, Step, ShapeInv, BarrierInv
<1>10. ASSUME Meet(r, s) PROVE Settled(r)
  BY <1>0, <1>10 DEF Meet, Step, ShapeInv, BarrierInv
<1>11. ASSUME EndPull(r, s) PROVE Settled(r)
  BY <1>0, <1>11 DEF EndPull, Step, ShapeInv, BarrierInv
<1>12. ASSUME WaitReady(r, s) PROVE Settled(r)
  BY <1>0, <1>12 DEF WaitReady, ShapeInv, BarrierInv
<1>13. ASSUME Scatter(r, s) PROVE Settled(r)
  BY <1>0, <1>13 DEF Scatter, ShapeInv, BarrierInv
<1>14. ASSUME MathArrive(r, s) PROVE Settled(r)
  BY <1>0, <1>14 DEF MathArrive, ShapeInv, BarrierInv
<1>15. ASSUME MathGrid(r, s) PROVE Settled(r)
  BY <1>0, <1>15 DEF MathGrid, ShapeInv, BarrierInv
<1>16. ASSUME MathAwait(r) PROVE Settled(r)
  BY <1>0, <1>16 DEF MathAwait, ShapeInv, BarrierInv
<1>17. ASSUME MathMeet(r, s) PROVE Settled(r)
  BY <1>0, <1>17 DEF MathMeet, ShapeInv, BarrierInv
<1>18. ASSUME Combine(r, s) PROVE Settled(r)
  BY <1>0, <1>18 DEF Combine, ShapeInv, BarrierInv
<1> HIDE DEF Settled
<1> QED
  BY <1>1, <1>2, <1>3, <1>4, <1>5, <1>6, <1>7, <1>8, <1>9, <1>10, <1>11, <1>12, <1>13, <1>14, <1>15, <1>16, <1>17, <1>18, Zenon
  DEF Host, Dispatch, Math

\* The places of a stream are a stride apart.
LEMMA Strides ==
  ASSUME NEW d \in Nat \ {0}, NEW x \in Nat
  PROVE  /\ (x + d) % d = x % d /\ x % d <= x /\ (x < d => x % d = x)
         /\ \A i \in Nat : i % d = x % d /\ x <= i /\ i < x + d => i = x
<1>1. PICK a \in Nat, w \in 0 .. d - 1 : a = x \div d /\ w = x % d /\ x = a * d + w
  BY DivMod
<1>2. \A b \in Nat : \A v \in 0 .. d - 1 : (b * d + v) % d = v
  OBVIOUS
<1>3. (x + d) % d = w
  <2>1. (a + 1) * d + w = a * d + d + w OBVIOUS
  <2>2. x + d = (a + 1) * d + w
    <3>1. a * d \in Nat OBVIOUS
    <3>2. PICK y \in Nat : y = a * d BY <3>1
    <3>3. (a + 1) * d + w = y + d + w BY <2>1, <3>2
    <3>4. x + d = y + w + d BY <1>1, <3>2
    <3> QED BY <3>2, <3>3, <3>4
  <2>3. a + 1 \in Nat /\ w \in 0 .. d - 1 BY <1>1
  <2>4. ((a + 1) * d + w) % d = w BY <1>2, <2>3, Zenon
  <2> QED BY <2>2, <2>4, Zenon
<1>4. w <= x
  <2>1. a * d \in Nat OBVIOUS
  <2>2. PICK y \in Nat : y = a * d BY <2>1
  <2> QED BY <1>1, <2>2
<1>5. ASSUME x < d PROVE w = x
  <2>1. 0 * d + x = x /\ x \in 0 .. d - 1 BY <1>5
  <2> QED BY <1>1, <1>2, <2>1
<1>6. ASSUME NEW i \in Nat, i % d = w, x <= i, i < x + d PROVE i = x
  <2>1. PICK b \in Nat : i = b * d + w
    <3>1. i \div d \in Nat /\ i = (i \div d) * d + (i % d) BY DivMod
    <3> QED BY <1>6, <3>1
  <2>2. CASE b = a BY <1>1, <2>1, <2>2
  <2>3. CASE b > a
    <3>1. (a + 1) * d <= b * d /\ (a + 1) * d = a * d + d BY <2>3
    <3>2. a * d \in Nat /\ b * d \in Nat OBVIOUS
    <3>3. PICK y \in Nat, z \in Nat : y = a * d /\ z = b * d BY <3>2
    <3>4. y + d <= z /\ i = z + w /\ x = y + w BY <1>1, <2>1, <3>1, <3>3
    <3> QED BY <1>6, <3>4
  <2>4. CASE b < a
    <3>1. (b + 1) * d <= a * d /\ (b + 1) * d = b * d + d BY <2>4
    <3>2. a * d \in Nat /\ b * d \in Nat OBVIOUS
    <3>3. PICK y \in Nat, z \in Nat : y = a * d /\ z = b * d BY <3>2
    <3>4. z + d <= y /\ i = z + w /\ x = y + w BY <1>1, <2>1, <3>1, <3>3
    <3> QED BY <1>6, <3>4
  <2> QED BY <2>2, <2>3, <2>4
<1> QED BY <1>1, <1>3, <1>4, <1>5, <1>6

\* No two streams of a rank start at the same place.
LEMMA StreamsDiffer ==
  ASSUME NEW s \in SMs, NEW j \in Streams, NEW t \in SMs, NEW k \in Streams
  PROVE  /\ 2 * NUM_SMS \in Nat \ {0} /\ 2 * s + j \in Nat /\ 2 * s + j < 2 * NUM_SMS
         /\ 2 * s + j = 2 * t + k => s = t /\ j = k
<1>1. s \in Nat /\ s < NUM_SMS /\ t \in Nat /\ j \in {0, 1} /\ k \in {0, 1}
  BY Sizes DEF SMs, Streams
<1> QED BY <1>1, Sizes

LEMMA RowsPrepare ==
  ASSUME ShapeInv, BarrierInv, NEW r \in Ranks, Prepare(r) PROVE RowsInv(r)'
<1>1. /\ staged' = [staged EXCEPT ![r] = launch'[r]]
      /\ arrival' = [arrival EXCEPT ![r] = [b \in Blocks |-> 0]]
      /\ stage'[r] = "open"
  BY DEF Prepare, NewArrivals, Goto, BarrierInv
<1>2. staged'[r] = launch'[r] /\ \A b \in Blocks : arrival'[r][b] = 0
  BY <1>1 DEF ShapeInv
<1> QED BY <1>1, <1>2 DEF RowsInv, InKernel

LEMMA RowsStart ==
  ASSUME ShapeInv, BarrierInv, NEW r \in Ranks, RowsInv(r), StartKernel(r) PROVE RowsInv(r)'
<1>1. /\ stage[r] = "open" /\ stage'[r] = "kernel"
      /\ \A x \in SMs : pc'[r][x] \notin Pulling
      /\ staged'[r] = staged[r] /\ launch'[r] = launch[r] /\ arrival'[r] = arrival[r]
  BY DEF StartKernel, Goto, ShapeInv, BarrierInv, Pulling, sync
<1>2. AnnouncedAt(r)' = {} /\ StoredAt(r)' = {} BY <1>1 DEF AnnouncedAt, StoredAt
<1>3. \A b : {i \in AnnouncedAt(r) : BlockAt(r, i) = b}' = {} BY <1>2
<1>4. \A b \in Blocks :
        arrival'[r][b] = Cardinality({i \in AnnouncedAt(r) : BlockAt(r, i) = b}')
  BY <1>1, <1>3, SizesOfNone DEF RowsInv
<1> QED BY <1>1, <1>2, <1>4 DEF RowsInv

\* The three steps of the streams themselves.
RowsBody(r) ==
  /\ \A s \in SMs, j \in Streams : pc[r][s] \in Pulling =>
       /\ pull[r][s][j].next % (2 * NUM_SMS) = 2 * s + j
       /\ pull[r][s][j].copied => pull[r][s][j].next < Start(r, EPR)
  /\ \A i \in StoredAt(r) : pool[r][RowOf(r, i)] = Pulled(r, i)
  /\ \A b \in Blocks :
       arrival[r][b] = Cardinality({i \in AnnouncedAt(r) : BlockAt(r, i) = b})

LEMMA BodyEnough ==
  ASSUME NEW r \in Ranks, RowsInv(r), UNCHANGED <<stage, staged, launch>>, InKernel(r)
  PROVE  RowsBody(r) /\ (RowsBody(r)' => RowsInv(r)')
BY DEF RowsInv, RowsBody, InKernel

LEMMA RowsMet ==
  ASSUME CountsInv, NEW r \in Ranks, NEW s \in SMs, RowsInv(r), Met(r, s) PROVE RowsInv(r)'
<1>0. ShapeInv BY DEF CountsInv, ControlInv
<1>1. /\ UNCHANGED <<stage, staged, launch, plans, queue, recv, rsum, arrival, pool>>
      /\ pc[r][s] = "met" /\ pc'[r][s] = "pull"
      /\ \A x \in SMs \ {s} : pc'[r][x] = pc[r][x] /\ pull'[r][x] = pull[r][x]
      /\ \A j \in Streams : pull'[r][s][j].next = 2 * s + j /\ pull'[r][s][j].copied = FALSE
  BY <1>0 DEF Met, Step, host, counts, results, ShapeInv
<1>2. InKernel(r) BY <1>0, <1>1 DEF ShapeInv, InKernel
<1>3. RowsBody(r) BY <1>1, <1>2, BodyEnough
<1>4. /\ Start(r, EPR)' = Start(r, EPR) /\ Order(r)' = Order(r)
      /\ \A i : RowOf(r, i)' = RowOf(r, i) /\ BlockAt(r, i)' = BlockAt(r, i)
                /\ Pulled(r, i)' = Pulled(r, i)
  BY <1>1, SamePool
<1>5. pc[r][s] \notin Pulling BY <1>1 DEF Pulling
<1>6. \A i \in Order(r), j \in Streams :
        i % (2 * NUM_SMS) = 2 * s + j => ~ (i < 2 * s + j)
  <2> SUFFICES ASSUME NEW i \in Order(r), NEW j \in Streams,
                      i % (2 * NUM_SMS) = 2 * s + j, i < 2 * s + j
               PROVE  FALSE
    OBVIOUS
  <2>1. i \in Nat BY DEF Order
  <2>2. 2 * NUM_SMS \in Nat \ {0} /\ 2 * s + j \in Nat BY StreamsDiffer
  <2>3. PICK d \in Nat \ {0}, p \in Nat : d = 2 * NUM_SMS /\ p = 2 * s + j BY <2>2
  <2>4. i % d <= i /\ i % d = p /\ i < p BY <2>1, <2>3, Strides
  <2> QED BY <2>1, <2>3, <2>4
<1>7. AnnouncedAt(r)' = AnnouncedAt(r)
  <2>1. ASSUME NEW i \in AnnouncedAt(r) PROVE i \in AnnouncedAt(r)'
    <3>1. PICK x \in SMs, j \in Streams :
            pc[r][x] \in Pulling /\ i % (2 * NUM_SMS) = 2 * x + j /\ i < pull[r][x][j].next
      BY DEF AnnouncedAt
    <3>2. x # s BY <1>5, <3>1
    <3>3. i \in Order(r)' BY <1>4 DEF AnnouncedAt
    <3> QED BY <1>1, <3>1, <3>2, <3>3 DEF AnnouncedAt
  <2>2. ASSUME NEW i \in AnnouncedAt(r)' PROVE i \in AnnouncedAt(r)
    <3>1. PICK x \in SMs, j \in Streams :
            pc'[r][x] \in Pulling /\ i % (2 * NUM_SMS) = 2 * x + j /\ i < pull'[r][x][j].next
      BY DEF AnnouncedAt
    <3>2. i \in Order(r) BY <1>4 DEF AnnouncedAt
    <3>3. x # s
      <4> SUFFICES ASSUME x = s PROVE FALSE
        OBVIOUS
      <4>1. pull'[r][s][j].next = 2 * s + j BY <1>1
      <4>2. i % (2 * NUM_SMS) = 2 * s + j /\ i < pull'[r][s][j].next BY <3>1
      <4> HIDE DEF Streams
      <4>3. i < 2 * s + j BY <4>1, <4>2, Zenon
      <4> QED BY <1>6, <3>2, <4>2, <4>3, Zenon
    <3>4. pc[r][x] \in Pulling /\ pull'[r][x] = pull[r][x] BY <1>1, <3>1, <3>3
    <3> QED BY <3>1, <3>2, <3>4 DEF AnnouncedAt
  <2> QED BY <2>1, <2>2
<1>8. ASSUME NEW i \in StoredAt(r)' PROVE i \in StoredAt(r)
  <2>1. PICK x \in SMs, j \in Streams :
          /\ pc'[r][x] \in Pulling /\ i % (2 * NUM_SMS) = 2 * x + j
          /\ i < pull'[r][x][j].next \/ (i = pull'[r][x][j].next /\ pull'[r][x][j].copied)
    BY DEF StoredAt
  <2>2. i \in Order(r) BY <1>4 DEF StoredAt
  <2>3. x # s
    <3> SUFFICES ASSUME x = s PROVE FALSE
      OBVIOUS
    <3>1. pull'[r][s][j].next = 2 * s + j /\ pull'[r][s][j].copied = FALSE BY <1>1
    <3>2. i % (2 * NUM_SMS) = 2 * s + j /\ i < pull'[r][s][j].next BY <2>1, <3>1
    <3>3. i < 2 * s + j BY <3>1, <3>2, Zenon
    <3> QED BY <1>6, <2>2, <3>2, <3>3, Zenon
  <2>4. pc[r][x] \in Pulling /\ pull'[r][x] = pull[r][x] BY <1>1, <2>1, <2>3
  <2> QED BY <2>1, <2>2, <2>4 DEF StoredAt
<1>9. \A x \in SMs, j \in Streams : pc'[r][x] \in Pulling =>
        /\ pull'[r][x][j].next % (2 * NUM_SMS) = 2 * x + j
        /\ pull'[r][x][j].copied => pull'[r][x][j].next < Start(r, EPR)'
  <2> SUFFICES ASSUME NEW x \in SMs, NEW j \in Streams, pc'[r][x] \in Pulling
               PROVE  /\ pull'[r][x][j].next % (2 * NUM_SMS) = 2 * x + j
                      /\ pull'[r][x][j].copied => pull'[r][x][j].next < Start(r, EPR)'
    OBVIOUS
  <2>1. CASE x = s
    <3>1. 2 * NUM_SMS \in Nat \ {0} /\ 2 * s + j \in Nat /\ 2 * s + j < 2 * NUM_SMS
      BY StreamsDiffer
    <3>2. (2 * s + j) % (2 * NUM_SMS) = 2 * s + j BY <3>1, Strides
    <3>3. pull'[r][x][j].next = 2 * s + j /\ pull'[r][x][j].copied = FALSE BY <1>1, <2>1
    <3>4. pull'[r][x][j].next % (2 * NUM_SMS) = 2 * s + j BY <3>2, <3>3, Zenon
    <3> QED BY <2>1, <3>3, <3>4
  <2>2. CASE x # s BY <1>1, <1>3, <1>4, <2>2 DEF RowsBody
  <2> QED BY <2>1, <2>2
<1>10. \A b : {i \in AnnouncedAt(r) : BlockAt(r, i) = b}' = {i \in AnnouncedAt(r) : BlockAt(r, i) = b}
  BY <1>4, <1>7
<1>11. \A b \in Blocks :
        arrival'[r][b] = Cardinality({i \in AnnouncedAt(r) : BlockAt(r, i) = b}')
  BY <1>1, <1>3, <1>10 DEF RowsBody
<1>12. \A i \in StoredAt(r)' : pool'[r][RowOf(r, i)'] = Pulled(r, i)'
  BY <1>1, <1>3, <1>4, <1>8 DEF RowsBody
<1>13. RowsBody(r)' BY <1>9, <1>11, <1>12 DEF RowsBody
<1> QED BY <1>1, <1>2, <1>13, BodyEnough

LEMMA RowsCopy ==
  ASSUME CountsInv, NEW r \in Ranks, NEW s \in SMs, NEW j \in Streams, RowsInv(r),
         Copy(r, s, j)
  PROVE  RowsInv(r)'
<1>0. ShapeInv BY DEF CountsInv, ControlInv
<1> PICK n : n = pull[r][s][j].next
  OBVIOUS
<1>p. pull' = [pull EXCEPT ![r][s][j].copied = TRUE] BY DEF Copy
<1>q. \A x \in SMs, k \in Streams :
        /\ pull'[r][x][k].next = pull[r][x][k].next
        /\ x # s \/ k # j => pull'[r][x][k].copied = pull[r][x][k].copied
        /\ x = s /\ k = j => pull'[r][x][k].copied = TRUE
  <2> TAKE x \in SMs, k \in Streams
  <2>0. /\ pull \in [Ranks -> [SMs -> [Streams -> [next : Nat, copied : BOOLEAN]]]]
    BY <1>0 DEF ShapeInv
  <2> HIDE DEF Ranks, SMs, Streams
  <2>1. CASE x = s /\ k = j BY <1>p, <2>0, <2>1
  <2>2. CASE x # s BY <1>p, <2>0, <2>2
  <2>3. CASE k # j BY <1>p, <2>0, <2>3
  <2> QED BY <2>1, <2>2, <2>3
<1>1. /\ UNCHANGED <<stage, staged, launch, plans, queue, recv, rsum, arrival, pc>>
      /\ pc[r][s] = "pull" /\ n < Start(r, EPR)
      /\ pool' = [pool EXCEPT ![r][RowOf(r, n)] = Pulled(r, n)]
  BY DEF Copy, Left, host, counts
<1>2. InKernel(r) /\ pc[r][s] \in Pulling /\ n \in Nat
  BY <1>0, <1>1 DEF ShapeInv, InKernel, Pulling
<1>3. RowsBody(r) BY <1>1, <1>2, BodyEnough
<1>4. /\ Start(r, EPR)' = Start(r, EPR) /\ Order(r)' = Order(r)
      /\ \A i : RowOf(r, i)' = RowOf(r, i) /\ BlockAt(r, i)' = BlockAt(r, i)
                /\ Pulled(r, i)' = Pulled(r, i)
  BY <1>1, SamePool
<1>5. AnnouncedAt(r)' = AnnouncedAt(r) BY <1>q, <1>1, <1>4 DEF AnnouncedAt
<1>6. Start(r, EPR) \in Nat
  <2>1. EPR \in Offsets BY Sizes DEF Offsets
  <2> QED BY <1>0, <2>1, PoolSums
<1>7. n \in Order(r) /\ \A i \in Order(r) : i \in Nat /\ i < Start(r, EPR)
  BY <1>1, <1>2, <1>6 DEF Order
<1>8. RowOf(r, n) \in Rows BY <1>1, <1>2, RowInPool
<1>9. ASSUME NEW i \in StoredAt(r)' PROVE pool'[r][RowOf(r, i)] = Pulled(r, i)
  <2>1. i \in Order(r) BY <1>4 DEF StoredAt
  <2>2. CASE i = n
    BY <1>0, <1>1, <1>8, <2>2 DEF ShapeInv
  <2>3. CASE i # n
    <3>1. i \in StoredAt(r)
      <4>1. PICK x \in SMs, k \in Streams :
              /\ pc'[r][x] \in Pulling /\ i % (2 * NUM_SMS) = 2 * x + k
              /\ i < pull'[r][x][k].next \/ (i = pull'[r][x][k].next /\ pull'[r][x][k].copied)
        BY DEF StoredAt
      <4>2. i < pull[r][x][k].next \/ (i = pull[r][x][k].next /\ pull[r][x][k].copied)
        BY <1>q, <2>3, <4>1
      <4> QED BY <1>1, <2>1, <4>1, <4>2 DEF StoredAt
    <3>2. RowOf(r, i) # RowOf(r, n) BY <1>0, <1>1, <1>2, <1>7, <2>1, <2>3, RowsDiffer
    <3>3. pool'[r][RowOf(r, i)] = pool[r][RowOf(r, i)]
      <4>1. i \in Nat /\ i < Start(r, EPR) BY <1>7, <2>1
      <4>2. RowOf(r, i) \in Rows BY <1>2, <4>1, RowInPool
      <4> QED BY <1>0, <1>1, <3>2, <4>2 DEF ShapeInv
    <3> QED BY <1>3, <3>1, <3>3 DEF RowsBody
  <2> QED BY <2>2, <2>3
<1>10. \A x \in SMs, k \in Streams : pc'[r][x] \in Pulling =>
        /\ pull'[r][x][k].next % (2 * NUM_SMS) = 2 * x + k
        /\ pull'[r][x][k].copied => pull'[r][x][k].next < Start(r, EPR)'
  BY <1>q, <1>1, <1>3, <1>4 DEF RowsBody
<1>11. \A b : {i \in AnnouncedAt(r) : BlockAt(r, i) = b}' = {i \in AnnouncedAt(r) : BlockAt(r, i) = b}
  BY <1>4, <1>5
<1>12. \A b \in Blocks :
        arrival'[r][b] = Cardinality({i \in AnnouncedAt(r) : BlockAt(r, i) = b}')
  BY <1>1, <1>3, <1>11 DEF RowsBody
<1>13. \A i \in StoredAt(r)' : pool'[r][RowOf(r, i)'] = Pulled(r, i)'
  BY <1>4, <1>9
<1>14. RowsBody(r)' BY <1>10, <1>12, <1>13 DEF RowsBody
<1> QED BY <1>1, <1>2, <1>14, BodyEnough

LEMMA RowsAnnounce ==
  ASSUME CountsInv, NEW r \in Ranks, NEW s \in SMs, NEW j \in Streams, RowsInv(r),
         Announce(r, s, j)
  PROVE  RowsInv(r)'
<1>0. ShapeInv BY DEF CountsInv, ControlInv
<1>p. PICK n, d : n = pull[r][s][j].next /\ d = 2 * NUM_SMS
  OBVIOUS
<1>1. /\ UNCHANGED <<stage, staged, launch, plans, queue, recv, rsum, pool, pc>>
      /\ pc[r][s] = "pull" /\ pull[r][s][j].copied
      /\ arrival' = [arrival EXCEPT ![r][BlockAt(r, n)] = @ + 1]
      /\ \A x \in SMs, k \in Streams :
           /\ x # s \/ k # j => pull'[r][x][k] = pull[r][x][k]
           /\ x = s /\ k = j => pull'[r][x][k] = [next |-> n + d, copied |-> FALSE]
  BY <1>0, <1>p DEF Announce, BlockAt, host, counts, results, ShapeInv
<1>2. InKernel(r) /\ pc[r][s] \in Pulling /\ n \in Nat /\ d \in Nat \ {0}
  BY <1>0, <1>1, <1>p, Sizes DEF ShapeInv, InKernel, Pulling
<1>3. RowsBody(r) BY <1>1, <1>2, BodyEnough
<1>4. /\ Start(r, EPR)' = Start(r, EPR) /\ Order(r)' = Order(r)
      /\ \A i : RowOf(r, i)' = RowOf(r, i) /\ BlockAt(r, i)' = BlockAt(r, i)
                /\ Pulled(r, i)' = Pulled(r, i)
  BY <1>1, SamePool
<1>5. n % d = 2 * s + j /\ n < Start(r, EPR)
  BY <1>1, <1>2, <1>3, <1>p DEF RowsBody
<1>6. Start(r, EPR) \in Nat
  <2>1. EPR \in Offsets BY Sizes DEF Offsets
  <2> QED BY <1>0, <2>1, PoolSums
<1>7. n \in Order(r) /\ \A i \in Order(r) : i \in Nat /\ i < Start(r, EPR)
  BY <1>2, <1>5, <1>6 DEF Order
<1>8. BlockAt(r, n) \in Blocks BY <1>2, <1>5, RowInPool DEF BlockAt
<1>9. /\ (n + d) % d = n % d
      /\ \A i \in Nat : i % d = n % d /\ n <= i /\ i < n + d => i = n
  BY <1>2, Strides
<1>10. \A x \in SMs, k \in Streams : 2 * x + k = 2 * s + j => x = s /\ k = j
  BY StreamsDiffer
<1>11. AnnouncedAt(r)' = AnnouncedAt(r) \cup {n}
  <2>1. ASSUME NEW i \in AnnouncedAt(r) PROVE i \in AnnouncedAt(r)'
    <3>1. PICK x \in SMs, k \in Streams :
            pc[r][x] \in Pulling /\ i % (2 * NUM_SMS) = 2 * x + k /\ i < pull[r][x][k].next
      BY DEF AnnouncedAt
    <3>2. i \in Order(r)' /\ i \in Nat BY <1>4, <1>7 DEF AnnouncedAt
    <3>3. i < pull'[r][x][k].next
      <4>1. CASE x = s /\ k = j BY <1>1, <1>2, <1>p, <3>1, <3>2, <4>1
      <4>2. CASE ~ (x = s /\ k = j) BY <1>1, <3>1, <4>2
      <4> QED BY <4>1, <4>2
    <3> QED BY <1>1, <3>1, <3>2, <3>3 DEF AnnouncedAt
  <2>2. n \in AnnouncedAt(r)'
    <3>1. n \in Order(r)' BY <1>4, <1>7
    <3>2. n < pull'[r][s][j].next BY <1>1, <1>2
    <3>3. n % (2 * NUM_SMS) = 2 * s + j BY <1>5, <1>p
    <3> QED BY <1>1, <1>2, <3>1, <3>2, <3>3 DEF AnnouncedAt
  <2>3. ASSUME NEW i \in AnnouncedAt(r)', i # n PROVE i \in AnnouncedAt(r)
    <3>1. PICK x \in SMs, k \in Streams :
            pc'[r][x] \in Pulling /\ i % (2 * NUM_SMS) = 2 * x + k /\ i < pull'[r][x][k].next
      BY DEF AnnouncedAt
    <3>2. i \in Order(r) /\ i \in Nat BY <1>4, <1>7 DEF AnnouncedAt
    <3>3. i < pull[r][x][k].next
      <4>1. CASE x = s /\ k = j
        <5>1. i % d = n % d /\ i < n + d BY <1>1, <1>5, <1>p, <3>1, <4>1
        <5>2. i < n BY <1>2, <1>9, <2>3, <3>2, <5>1
        <5> QED BY <1>p, <4>1, <5>2
      <4>2. CASE ~ (x = s /\ k = j) BY <1>1, <3>1, <4>2
      <4> QED BY <4>1, <4>2
    <3> QED BY <1>1, <3>1, <3>2, <3>3 DEF AnnouncedAt
  <2> QED BY <2>1, <2>2, <2>3
<1>12. n \notin AnnouncedAt(r)
  <2> SUFFICES ASSUME n \in AnnouncedAt(r) PROVE FALSE
    OBVIOUS
  <2>1. PICK x \in SMs, k \in Streams :
          n % (2 * NUM_SMS) = 2 * x + k /\ n < pull[r][x][k].next
    BY DEF AnnouncedAt
  <2>2. x = s /\ k = j BY <1>5, <1>10, <1>p, <2>1
  <2> QED BY <1>2, <1>p, <2>1, <2>2
<1>13. ASSUME NEW i \in StoredAt(r)' PROVE i \in StoredAt(r)
  <2>1. PICK x \in SMs, k \in Streams :
          /\ pc'[r][x] \in Pulling /\ i % (2 * NUM_SMS) = 2 * x + k
          /\ i < pull'[r][x][k].next \/ (i = pull'[r][x][k].next /\ pull'[r][x][k].copied)
    BY DEF StoredAt
  <2>2. i \in Order(r) /\ i \in Nat BY <1>4, <1>7 DEF StoredAt
  <2>3. i < pull[r][x][k].next \/ (i = pull[r][x][k].next /\ pull[r][x][k].copied)
    <3>1. CASE x = s /\ k = j
      <4>1. i % d = n % d /\ i < n + d BY <1>1, <1>5, <1>p, <2>1, <3>1
      <4>2. i < n \/ i = n BY <1>2, <1>9, <2>2, <4>1
      <4> QED BY <1>1, <1>p, <3>1, <4>2
    <3>2. CASE ~ (x = s /\ k = j) BY <1>1, <2>1, <3>2
    <3> QED BY <3>1, <3>2
  <2> QED BY <1>1, <2>1, <2>2, <2>3 DEF StoredAt
<1>14. \A x \in SMs, k \in Streams : pc'[r][x] \in Pulling =>
        /\ pull'[r][x][k].next % (2 * NUM_SMS) = 2 * x + k
        /\ pull'[r][x][k].copied => pull'[r][x][k].next < Start(r, EPR)'
  <2> SUFFICES ASSUME NEW x \in SMs, NEW k \in Streams, pc'[r][x] \in Pulling
               PROVE  /\ pull'[r][x][k].next % (2 * NUM_SMS) = 2 * x + k
                      /\ pull'[r][x][k].copied => pull'[r][x][k].next < Start(r, EPR)'
    OBVIOUS
  <2>1. CASE x = s /\ k = j
    <3>1. pull'[r][x][k] = [next |-> n + d, copied |-> FALSE] BY <1>1, <2>1
    <3>2. (n + d) % d = 2 * s + j BY <1>5, <1>9
    <3> QED BY <1>p, <2>1, <3>1, <3>2
  <2>2. CASE ~ (x = s /\ k = j) BY <1>1, <1>3, <1>4, <2>2 DEF RowsBody
  <2> QED BY <2>1, <2>2
<1>15. ASSUME NEW b \in Blocks
       PROVE  arrival'[r][b] = Cardinality({i \in AnnouncedAt(r) : BlockAt(r, i) = b}')
  <2> DEFINE B == {i \in AnnouncedAt(r) : BlockAt(r, i) = b}
             C == {i \in AnnouncedAt(r)' : BlockAt(r, i) = b}
  <2>1. {i \in AnnouncedAt(r) : BlockAt(r, i) = b}' = C BY <1>4
  <2>2. arrival[r][b] = Cardinality(B) BY <1>3 DEF RowsBody
  <2>3. IsFiniteSet(B)
    <3>1. 0 .. 0 + Start(r, EPR) - 1 = 0 .. Start(r, EPR) - 1 /\ 0 \in Nat BY <1>6
    <3>2. IsFiniteSet(Order(r)) BY <1>6, <3>1, IntervalSize DEF Order
    <3>3. B \subseteq Order(r) BY DEF AnnouncedAt
    <3> QED BY <3>2, <3>3, FS_Subset
  <2>4. CASE BlockAt(r, n) = b
    <3>1. C = B \cup {n} /\ n \notin B BY <1>11, <1>12, <2>4
    <3>2. Cardinality(C) = Cardinality(B) + 1
      <4> HIDE DEF B, C
      <4> QED BY <2>3, <3>1, FS_AddElement
    <3>3. arrival'[r][b] = arrival[r][b] + 1 BY <1>0, <1>1, <2>4 DEF ShapeInv
    <3> QED BY <2>1, <2>2, <3>2, <3>3
  <2>5. CASE BlockAt(r, n) # b
    <3>1. C = B BY <1>11, <2>5
    <3>2. arrival'[r][b] = arrival[r][b] BY <1>0, <1>1, <1>8, <2>5 DEF ShapeInv
    <3> QED BY <2>1, <2>2, <3>1, <3>2
  <2> QED BY <2>4, <2>5
<1>16. \A i \in StoredAt(r)' : pool'[r][RowOf(r, i)'] = Pulled(r, i)'
  BY <1>1, <1>3, <1>4, <1>13 DEF RowsBody
<1>17. RowsBody(r)' BY <1>14, <1>15, <1>16 DEF RowsBody
<1> QED BY <1>1, <1>2, <1>17, BodyEnough

LEMMA RowsStep ==
  ASSUME CountsInv, NEW a \in Ranks, NEW t \in SMs, Host(a) \/ Dispatch(a, t) \/ Math(a, t),
         NEW r \in Ranks, RowsInv(r)
  PROVE  RowsInv(r)'
<1>0. ShapeInv /\ BarrierInv BY DEF CountsInv, ControlInv
<1>1. ASSUME Settled(r) PROVE RowsInv(r)'
  <2>1. ASSUME InKernel(r), NEW x \in SMs, pc[r][x] \in Pulling
        PROVE  /\ rsum'[r] = rsum[r] /\ recv'[r] = recv[r] /\ queue'[r] = queue[r]
               /\ staged' = staged
    BY <2>1, PullFrame
  <2> QED BY <1>1, <2>1, RowsKept
<1>2. CASE a = r
  <2>1. \/ Settled(r) \/ Prepare(r) \/ StartKernel(r) \/ Met(r, t)
        \/ \E j \in Streams : Copy(r, t, j) \/ Announce(r, t, j)
    BY <1>0, <1>2, SettledStep
  <2> QED BY <1>0, <1>1, <2>1, RowsPrepare, RowsStart, RowsMet, RowsCopy, RowsAnnounce
<1>3. CASE a # r
  <2>1. Own(r)' = Own(r) BY <1>0, <1>3, Frame
  <2>2. Settled(r) BY <2>1 DEF Own, Settled
  <2> QED BY <1>1, <2>2
<1> QED BY <1>2, <1>3

\* The counts of the queues, and the rows that the streams have moved.
DispatchInv == CountsInv /\ \A r \in Ranks : RowsInv(r)

LEMMA DispatchInit == Init => DispatchInv
  BY CountsInit, RowsInit DEF DispatchInv

LEMMA DispatchStep ==
  ASSUME DispatchInv, [Next]_vars PROVE DispatchInv'
<1>1. CountsInv' BY CountsStep DEF DispatchInv
<1>2. CASE UNCHANGED vars
  <2>1. ASSUME NEW r \in Ranks PROVE RowsInv(r)'
    <3>1. UNCHANGED <<stage, arrival, pool, pull, launch, staged, pc, rsum, recv, queue>>
      BY <1>2 DEF vars, host, counts, roles
    <3>2. Settled(r) BY <3>1 DEF Settled
    <3>3. RowsInv(r) BY DEF DispatchInv
    <3> QED BY <3>1, <3>2, <3>3, RowsKept
  <2> QED BY <1>1, <2>1 DEF DispatchInv
<1>3. ASSUME NEW a \in Ranks, NEW t \in SMs, Host(a) \/ Dispatch(a, t) \/ Math(a, t)
      PROVE  DispatchInv'
  BY <1>1, <1>3, RowsStep DEF DispatchInv
<1> QED BY <1>2, <1>3, NextCases

LEMMA DispatchInvariant == Spec => []DispatchInv
  BY DispatchInit, DispatchStep, PTL DEF Spec

\* All rows of a block that counts as arrived are stored.
LEMMA ArrivedStored ==
  ASSUME DispatchInv, NEW r \in Ranks, InKernel(r), NEW b \in Used(r), BlockArrived(r, b)
  PROVE  /\ ExpertOf(r, b) \in Local /\ ValidM(r, b) \in 1 .. BLOCK_M
         /\ \E first \in Nat : \A m \in 0 .. ValidM(r, b) - 1 :
              /\ first + m < Start(r, EPR)
              /\ ExpertAt(r, first + m) = ExpertOf(r, b)
              /\ first + m \in AnnouncedAt(r)
              /\ pool[r][b * BLOCK_M + m] = Pulled(r, first + m)
         /\ \A i \in Order(r) : BlockAt(r, i) = b =>
              \E m \in 0 .. ValidM(r, b) - 1 : pool[r][b * BLOCK_M + m] = Pulled(r, i)
<1>0. ShapeInv /\ RowsInv(r) BY DEF DispatchInv, CountsInv, ControlInv
<1>1. b \in Blocks /\ b \in Nat /\ b < Block(r, EPR) BY Sizes DEF Used, Blocks
<1>2. ExpertOf(r, b) \in Local /\ ValidM(r, b) \in 1 .. BLOCK_M
  BY <1>0, <1>1, RowsOfBlock
<1>3. PICK v \in Nat : v = ValidM(r, b) BY <1>2
<1>4. PICK first \in Nat :
        /\ \A m \in 0 .. v - 1 :
             /\ first + m < Start(r, EPR)
             /\ ExpertAt(r, first + m) = ExpertOf(r, b)
             /\ RowOf(r, first + m) = b * BLOCK_M + m
        /\ \A i \in Nat : i < Start(r, EPR) /\ RowOf(r, i) \div BLOCK_M = b =>
             i \in first .. first + v - 1
  BY <1>0, <1>1, <1>3, RowsOfBlock
<1> DEFINE A == {i \in AnnouncedAt(r) : BlockAt(r, i) = b}
           I == first .. first + v - 1
<1>5. Cardinality(A) = v BY <1>0, <1>1, <1>3 DEF RowsInv, BlockArrived
<1>6. A \subseteq I
  <2> SUFFICES ASSUME NEW i \in A PROVE i \in I
    OBVIOUS
  <2>1. Start(r, EPR) \in Nat
    <3>1. EPR \in Offsets BY Sizes DEF Offsets
    <3> QED BY <1>0, <3>1, PoolSums
  <2>2. i \in Nat /\ i < Start(r, EPR) BY <2>1 DEF AnnouncedAt, Order
  <2> QED BY <1>4, <2>2 DEF BlockAt
<1>7. IsFiniteSet(I) /\ Cardinality(I) = v BY IntervalSize
<1>8. A = I
  <2> HIDE DEF A, I
  <2> QED BY <1>5, <1>6, <1>7, FS_Subset
<1>9. ASSUME NEW m \in 0 .. v - 1
      PROVE  /\ first + m \in AnnouncedAt(r)
             /\ pool[r][b * BLOCK_M + m] = Pulled(r, first + m)
  <2>1. first + m \in I OBVIOUS
  <2>2. first + m \in AnnouncedAt(r) BY <1>8, <2>1
  <2>3. first + m \in StoredAt(r) BY <2>2 DEF AnnouncedAt, StoredAt
  <2>4. pool[r][RowOf(r, first + m)] = Pulled(r, first + m) BY <1>0, <2>3 DEF RowsInv
  <2>5. RowOf(r, first + m) = b * BLOCK_M + m BY <1>4
  <2> QED BY <2>2, <2>4, <2>5
<1>10. ASSUME NEW i \in Order(r), BlockAt(r, i) = b
       PROVE  \E m \in 0 .. v - 1 : pool[r][b * BLOCK_M + m] = Pulled(r, i)
  <2>1. i \in first .. first + v - 1
    <3>1. Start(r, EPR) \in Nat
      <4>1. EPR \in Offsets BY Sizes DEF Offsets
      <4> QED BY <1>0, <4>1, PoolSums
    <3>2. i \in Nat /\ i < Start(r, EPR) BY <3>1 DEF Order
    <3> QED BY <1>4, <1>10, <3>2 DEF BlockAt
  <2>2. PICK m \in 0 .. v - 1 : i = first + m
    <3>1. i - first \in 0 .. v - 1 /\ i = first + (i - first) BY <2>1
    <3> QED BY <3>1
  <2> QED BY <1>9, <2>2
<1> QED BY <1>2, <1>3, <1>4, <1>9, <1>10

\* A block that counts as arrived holds, in its valid rows, different routes of this
\* launch to the expert of the block: a row is stored before it is counted, no other
\* place of the order falls on it, and the queues it is pulled from are complete.
THEOREM ArrivedRowsAreRoutes == Spec => []ArrivedRowsPresent
<1>1. DispatchInv => ArrivedRowsPresent
  <2> SUFFICES ASSUME DispatchInv, NEW r \in Ranks, InKernel(r), NEW b \in Used(r),
                      BlockArrived(r, b), NEW m \in 0 .. ValidM(r, b) - 1
               PROVE  LET row == pool[r][b * BLOCK_M + m] IN
                      /\ row.launch = launch[r]
                      /\ row.route \in RoutesTo(r, row.rank, r * EPR + ExpertOf(r, b))
                      /\ \A n \in 0 .. m - 1 : pool[r][b * BLOCK_M + n] # row
    BY DEF ArrivedRowsPresent
  <2>0. CountsInv /\ ShapeInv /\ BarrierInv BY DEF DispatchInv, CountsInv, ControlInv
  <2>1. PICK v \in Nat : v = ValidM(r, b) BY ArrivedStored
  <2>2. PICK first \in Nat : \A n \in 0 .. v - 1 :
          /\ first + n < Start(r, EPR)
          /\ ExpertAt(r, first + n) = ExpertOf(r, b)
          /\ first + n \in AnnouncedAt(r)
          /\ pool[r][b * BLOCK_M + n] = Pulled(r, first + n)
    BY <2>1, ArrivedStored
  <2>3. m \in 0 .. v - 1 /\ first + m \in Nat BY <2>1
  <2>4. PICK s \in SMs : pc[r][s] \in Pulling
    BY <2>2, <2>3 DEF AnnouncedAt
  <2>5. \A q \in Ranks : staged[q] = launch[q]
    BY DEF DispatchInv, RowsInv
  <2>6. PICK i \in Nat : i = first + m BY <2>3
  <2>7. i < Start(r, EPR) /\ ExpertAt(r, i) = ExpertOf(r, b)
        /\ pool[r][b * BLOCK_M + m] = Pulled(r, i)
    BY <2>2, <2>3, <2>6
  <2>8. /\ Pulled(r, i).launch = launch[r]
        /\ Pulled(r, i).route \in RoutesTo(r, Pulled(r, i).rank, r * EPR + ExpertAt(r, i))
        /\ \A h \in Nat : h # i /\ h < Start(r, EPR) /\ ExpertAt(r, h) = ExpertAt(r, i) =>
             Pulled(r, h) # Pulled(r, i)
    BY <2>0, <2>4, <2>5, <2>7, PulledRoute
  <2>9. ASSUME NEW n \in 0 .. m - 1 PROVE pool[r][b * BLOCK_M + n] # pool[r][b * BLOCK_M + m]
    <3>1. n \in 0 .. v - 1 /\ first + n \in Nat /\ first + n # i BY <2>3, <2>6
    <3>2. PICK h \in Nat : h = first + n BY <3>1
    <3>3. h # i /\ h < Start(r, EPR) /\ ExpertAt(r, h) = ExpertAt(r, i)
          /\ pool[r][b * BLOCK_M + n] = Pulled(r, h)
      BY <2>2, <2>7, <3>1, <3>2
    <3>4. Pulled(r, h) # Pulled(r, i) BY <2>8, <3>3
    <3> QED BY <2>7, <3>3, <3>4
  <2> QED BY <2>7, <2>8, <2>9
<1> QED BY <1>1, DispatchInvariant, PTL

-----------------------------------------------------------------------------
(* The results.                                                             *)
\* The ranks of a launch have the same number of tokens.
EqualTokens ==
  \A plan \in Schedules : \A k \in 1 .. MaxLaunches : \A q, r \in Ranks :
    Cardinality(DOMAIN plan[k][q]) = Cardinality(DOMAIN plan[k][r])

\* The routes of a launch that go to an expert, and the result each must have.
Wanted(k, q) == {j \in DOMAIN plans[k][q] : plans[k][q][j] >= 0}
Result(k, q, j) ==
  [row |-> [launch |-> k, rank |-> q, route |-> j], expert |-> plans[k][q][j]]
PlaceOf(k, q, j) == Choice(j) * Tokens(k, q) + Token(j)
Delivered(k, q, j) == combine[q][PlaceOf(k, q, j)] = Result(k, q, j)

\* A route is the one place of one choice of one token.
LEMMA RouteDigits ==
  ASSUME NEW n \in Nat, NEW d \in Nat \ {0}, NEW j \in 0 .. n * d - 1
  PROVE  /\ j \div d \in 0 .. n - 1 /\ j % d \in 0 .. d - 1
         /\ j = (j \div d) * d + (j % d)
         /\ (j % d) * n + (j \div d) \in 0 .. n * d - 1
<1>0. j \in Nat /\ j < n * d OBVIOUS
<1>1. j \div d \in Nat /\ j \div d < n /\ j % d \in 0 .. d - 1 /\ j = (j \div d) * d + (j % d)
  BY <1>0, DivMod
<1>2. PICK t \in 0 .. n - 1, c \in 0 .. d - 1 : t = j \div d /\ c = j % d
  BY <1>1
<1>3. c * n + t \in Nat /\ c * n + t < n * d
  <2>1. (c + 1) * n <= d * n OBVIOUS
  <2>2. (c + 1) * n = c * n + n /\ d * n = n * d /\ c * n \in Nat /\ n * d \in Nat OBVIOUS
  <2> QED BY <2>1, <2>2
<1>4. n * d \in Nat OBVIOUS
<1>5. c * n + t \in 0 .. n * d - 1 BY <1>3, <1>4
<1> QED BY <1>1, <1>2, <1>5

LEMMA DigitsDiffer ==
  ASSUME NEW n \in Nat, NEW a \in Nat, NEW b \in Nat, NEW x \in 0 .. n - 1, NEW y \in 0 .. n - 1,
         a * n + x = b * n + y
  PROVE  a = b /\ x = y
<1>1. n \in Nat \ {0} OBVIOUS
<1>2. PICK p \in Nat, q \in Nat : p = a * n /\ q = b * n
  <2>1. a * n \in Nat /\ b * n \in Nat OBVIOUS
  <2> QED BY <2>1
<1>3. p + x = q + y BY <1>2
<1>4. CASE a = b BY <1>2, <1>3, <1>4
<1>5. CASE a < b
  <2>1. (a + 1) * n <= b * n /\ (a + 1) * n = a * n + n BY <1>5
  <2>2. p + n <= q BY <1>2, <2>1
  <2> QED BY <1>3, <2>2
<1>6. CASE a > b
  <2>1. (b + 1) * n <= a * n /\ (b + 1) * n = b * n + n BY <1>6
  <2>2. q + n <= p BY <1>2, <2>1
  <2> QED BY <1>3, <2>2
<1> QED BY <1>4, <1>5, <1>6

\* What is known of a wanted route.
LEMMA WantedFacts ==
  ASSUME ShapeInv, NEW k \in 1 .. MaxLaunches, NEW q \in Ranks, NEW j \in Wanted(k, q)
  PROVE  /\ j \in Nat /\ Token(j) \in 0 .. Tokens(k, q) - 1 /\ Choice(j) \in 0 .. TOPK - 1
         /\ j = Token(j) * TOPK + Choice(j)
         /\ PlaceOf(k, q, j) \in Routes
         /\ plans[k][q][j] \in Experts
<1>1. /\ Tokens(k, q) \in Nat /\ DOMAIN plans[k][q] = 0 .. Tokens(k, q) * TOPK - 1
      /\ DOMAIN plans[k][q] \subseteq Routes
      /\ plans[k][q] \in [0 .. Tokens(k, q) * TOPK - 1 -> Experts \cup {-1}]
  BY PlanFacts
<1>2. PICK n \in Nat, d \in Nat \ {0} : n = Tokens(k, q) /\ d = TOPK
  BY <1>1, Sizes
<1>3. j \in 0 .. n * d - 1 BY <1>1, <1>2 DEF Wanted
<1>4. /\ j \div d \in 0 .. n - 1 /\ j % d \in 0 .. d - 1
      /\ j = (j \div d) * d + (j % d)
      /\ (j % d) * n + (j \div d) \in 0 .. n * d - 1
  BY <1>3, RouteDigits
<1>5. plans[k][q][j] \in Experts
  <2>1. -1 \notin Nat /\ ~(-1 >= 0) OBVIOUS
  <2> QED BY <1>1, <2>1 DEF Wanted
<1>6. PlaceOf(k, q, j) \in DOMAIN plans[k][q]
  BY <1>1, <1>2, <1>4 DEF PlaceOf, Token, Choice
<1>7. j \in Nat BY <1>3
<1> QED BY <1>1, <1>2, <1>4, <1>5, <1>6, <1>7 DEF Token, Choice

\* The results of different routes have different places.
LEMMA PlacesDiffer ==
  ASSUME ShapeInv, NEW k \in 1 .. MaxLaunches, NEW q \in Ranks,
         NEW i \in Wanted(k, q), NEW j \in Wanted(k, q), PlaceOf(k, q, i) = PlaceOf(k, q, j)
  PROVE  i = j
<1>1. /\ Token(i) \in 0 .. Tokens(k, q) - 1 /\ Choice(i) \in Nat
      /\ i = Token(i) * TOPK + Choice(i)
      /\ Token(j) \in 0 .. Tokens(k, q) - 1 /\ Choice(j) \in Nat
      /\ j = Token(j) * TOPK + Choice(j)
  BY WantedFacts
<1>2. Tokens(k, q) \in Nat BY PlanFacts
<1>3. Choice(i) = Choice(j) /\ Token(i) = Token(j)
  <2>1. Choice(i) * Tokens(k, q) + Token(i) = Choice(j) * Tokens(k, q) + Token(j)
    BY DEF PlaceOf
  <2>2. PICK n, a, b, x, y : /\ n = Tokens(k, q) /\ a = Choice(i) /\ b = Choice(j)
                             /\ x = Token(i) /\ y = Token(j)
    OBVIOUS
  <2>3. n \in Nat /\ a \in Nat /\ b \in Nat /\ x \in 0 .. n - 1 /\ y \in 0 .. n - 1
    BY <1>1, <1>2, <2>2
  <2>4. a * n + x = b * n + y BY <2>1, <2>2, Zenon
  <2>5. a = b /\ x = y
    <3>1. \A m, c, d \in Nat : \A u, v \in 0 .. m - 1 : c * m + u = d * m + v => c = d /\ u = v
      BY DigitsDiffer
    <3>2. \A c, d \in Nat : \A u, v \in 0 .. n - 1 : c * n + u = d * n + v => c = d /\ u = v
      BY <2>3, <3>1, Zenon
    <3>3. \A u, v \in 0 .. n - 1 : a * n + u = b * n + v => a = b /\ u = v
      BY <2>3, <3>2, Zenon
    <3> QED BY <2>3, <2>4, <3>3, Zenon
  <2> QED BY <2>2, <2>5, Zenon
<1> QED BY <1>1, <1>3, Zenon

\* The rows of an arrived block are routes of this launch, wanted from this expert.
LEMMA RowsWanted ==
  ASSUME DispatchInv, NEW r \in Ranks, NEW s \in SMs, InKernel(r), pc[r][s] \in Pulling,
         NEW i \in Order(r)
  PROVE  /\ ExpertAt(r, i) \in Local
         /\ \E q \in Ranks : \E j \in Wanted(launch[r], q) :
              /\ Pulled(r, i) = [launch |-> launch[r], rank |-> q, route |-> j]
              /\ plans[launch[r]][q][j] = r * EPR + ExpertAt(r, i)
<1>0. CountsInv /\ ShapeInv /\ BarrierInv /\ \A q \in Ranks : staged[q] = launch[q]
  BY DEF DispatchInv, CountsInv, ControlInv, RowsInv
<1>1. i \in Nat /\ i < Start(r, EPR)
  <2>1. EPR \in Offsets BY Sizes DEF Offsets
  <2>2. Start(r, EPR) \in Nat BY <1>0, <2>1, PoolSums
  <2> QED BY <2>2 DEF Order
<1>2. PICK q, j : q = Pulled(r, i).rank /\ j = Pulled(r, i).route OBVIOUS
<1>3. /\ Pulled(r, i).launch = launch[r] /\ q \in Ranks
      /\ j \in RoutesTo(r, q, r * EPR + ExpertAt(r, i))
  BY <1>0, <1>1, <1>2, PulledRoute
<1>4. Pulled(r, i) = [launch |-> launch[r], rank |-> q, route |-> j]
  BY <1>2, <1>3 DEF Pulled
<1>5. ExpertAt(r, i) \in Local BY <1>0, <1>1, PoolRanges
<1>6. r * EPR + ExpertAt(r, i) >= 0
  <2>1. r * EPR + ExpertAt(r, i) \in Experts BY <1>5, Ownership
  <2> QED BY <2>1 DEF Experts
<1>7. j \in DOMAIN plans[launch[r]][q] /\ plans[launch[r]][q][j] = r * EPR + ExpertAt(r, i)
  BY <1>3 DEF RoutesTo
<1>8. j \in Wanted(launch[r], q) BY <1>6, <1>7 DEF Wanted
<1> QED BY <1>3, <1>4, <1>5, <1>7, <1>8

\* A scatter delivers the results of a block, and undoes nothing delivered.
LEMMA ScatterDelivers ==
  ASSUME EqualTokens, DispatchInv, NEW r \in Ranks, NEW s \in SMs, InKernel(r), Scatter(r, s)
  PROVE  \E b \in Blocks :
           /\ scattered' = [scattered EXCEPT ![r] = @ \cup {b}]
           /\ \A q \in Ranks : \A j \in Wanted(launch[r], q) :
                Delivered(launch[r], q, j) =>
                  combine'[q][PlaceOf(launch[r], q, j)] = Result(launch[r], q, j)
           /\ \A i \in Order(r) : BlockAt(r, i) = b =>
                \E q \in Ranks : \E j \in Wanted(launch[r], q) :
                  /\ Pulled(r, i) = [launch |-> launch[r], rank |-> q, route |-> j]
                  /\ combine'[q][PlaceOf(launch[r], q, j)] = Result(launch[r], q, j)
<1>0. ShapeInv /\ BarrierInv /\ PhaseInv(r) BY DEF DispatchInv, CountsInv, ControlInv
<1>b. PICK b \in Mine(r, s) :
        /\ BlockArrived(r, b)
        /\ scattered' = [scattered EXCEPT ![r] = @ \cup {b}]
        /\ LET valid == {pool[r][b * BLOCK_M + m] : m \in 0 .. ValidM(r, b) - 1}
               to(q, i) == {x \in valid : x.rank = q /\ Destination(r, x) = i}
           IN  combine' = [q \in Ranks |-> [i \in Routes |->
                 IF to(q, i) = {} THEN combine[q][i]
                 ELSE [row |-> CHOOSE x \in to(q, i) : TRUE,
                       expert |-> r * EPR + ExpertOf(r, b)]]]
  BY DEF Scatter
<1>a. BlockArrived(r, b) /\ scattered' = [scattered EXCEPT ![r] = @ \cup {b}]
  BY <1>b
<1> DEFINE k == launch[r]
           e == r * EPR + ExpertOf(r, b)
           valid == {pool[r][b * BLOCK_M + m] : m \in 0 .. ValidM(r, b) - 1}
           to(q, i) == {x \in valid : x.rank = q /\ Destination(r, x) = i}
<1>1. b \in Used(r) /\ b \in Blocks BY DEF Mine, Used
<1>2. pc[r][s] \in Pulling BY <1>0 DEF Scatter, PhaseInv, InKernel, HandOver
<1>3. k \in 1 .. MaxLaunches BY <1>0, TopkFacts DEF InKernel
<1>4. ASSUME NEW q \in Ranks PROVE NTOK(r) = Tokens(k, q)
  <2>1. Cardinality(DOMAIN plans[k][r]) = Cardinality(DOMAIN plans[k][q])
    BY <1>0, <1>3 DEF EqualTokens, ShapeInv
  <2> QED BY <2>1 DEF NTOK, Topk, Tokens
<1>5. PICK v \in Nat : v = ValidM(r, b) BY <1>1, <1>a, ArrivedStored
<1>6. PICK first \in Nat : \A m \in 0 .. v - 1 :
        /\ ExpertAt(r, first + m) = ExpertOf(r, b) /\ first + m \in Order(r)
        /\ pool[r][b * BLOCK_M + m] = Pulled(r, first + m)
  <2>1. PICK first \in Nat : \A m \in 0 .. ValidM(r, b) - 1 :
          /\ ExpertAt(r, first + m) = ExpertOf(r, b) /\ first + m \in AnnouncedAt(r)
          /\ pool[r][b * BLOCK_M + m] = Pulled(r, first + m)
    BY <1>1, <1>a, ArrivedStored
  <2>2. AnnouncedAt(r) \subseteq Order(r) BY DEF AnnouncedAt
  <2> QED BY <1>5, <2>1, <2>2
<1>7. \A i \in Order(r) : BlockAt(r, i) = b => Pulled(r, i) \in valid
  BY <1>1, <1>a, ArrivedStored
<1>8. ASSUME NEW x \in valid
      PROVE  \E q \in Ranks : \E j \in Wanted(k, q) :
               /\ x = [launch |-> k, rank |-> q, route |-> j] /\ plans[k][q][j] = e
               /\ x.rank = q /\ Destination(r, x) = PlaceOf(k, q, j)
  <2>1. PICK m \in 0 .. v - 1 : x = pool[r][b * BLOCK_M + m] BY <1>5
  <2>2. first + m \in Order(r) /\ x = Pulled(r, first + m)
        /\ ExpertAt(r, first + m) = ExpertOf(r, b)
    BY <1>6, <2>1
  <2>3. PICK q \in Ranks : \E j \in Wanted(k, q) :
          /\ x = [launch |-> k, rank |-> q, route |-> j] /\ plans[k][q][j] = e
    BY <1>2, <2>2, RowsWanted
  <2>4. PICK j \in Wanted(k, q) :
          x = [launch |-> k, rank |-> q, route |-> j] /\ plans[k][q][j] = e
    BY <2>3
  <2>5. x.rank = q /\ x.route = j BY <2>4
  <2>6. Destination(r, x) = PlaceOf(k, q, j) BY <1>4, <2>5 DEF Destination, PlaceOf
  <2> QED BY <2>4, <2>5, <2>6
<1>9. \A q \in Ranks, i \in Routes :
        combine'[q][i] = IF to(q, i) = {} THEN combine[q][i]
                         ELSE [row |-> CHOOSE x \in to(q, i) : TRUE, expert |-> e]
  BY <1>b
<1> HIDE DEF k, valid
<1>10. ASSUME NEW q \in Ranks, NEW j \in Wanted(k, q), NEW x \in to(q, PlaceOf(k, q, j))
       PROVE  x = [launch |-> k, rank |-> q, route |-> j] /\ plans[k][q][j] = e
  <2>1. x \in valid /\ x.rank = q /\ Destination(r, x) = PlaceOf(k, q, j) OBVIOUS
  <2> HIDE DEF e
  <2>2. PICK p \in Ranks : \E i \in Wanted(k, p) :
          /\ x = [launch |-> k, rank |-> p, route |-> i] /\ plans[k][p][i] = e
          /\ x.rank = p /\ Destination(r, x) = PlaceOf(k, p, i)
    BY <1>8, <2>1
  <2>3. PICK i \in Wanted(k, q) :
          /\ x = [launch |-> k, rank |-> q, route |-> i] /\ plans[k][q][i] = e
          /\ PlaceOf(k, q, j) = PlaceOf(k, q, i)
    BY <2>1, <2>2
  <2>4. i = j BY <1>0, <1>3, <2>3, PlacesDiffer
  <2> QED BY <2>3, <2>4
<1> HIDE DEF to
<1>11. ASSUME NEW q \in Ranks, NEW j \in Wanted(k, q)
       PROVE  \/ combine'[q][PlaceOf(k, q, j)] = Result(k, q, j)
              \/ /\ to(q, PlaceOf(k, q, j)) = {}
                 /\ combine'[q][PlaceOf(k, q, j)] = combine[q][PlaceOf(k, q, j)]
  <2>1. PlaceOf(k, q, j) \in Routes BY <1>0, <1>3, WantedFacts
  <2>2. PICK T : T = to(q, PlaceOf(k, q, j)) OBVIOUS
  <2>3. CASE T = {} BY <1>9, <2>1, <2>2, <2>3
  <2>4. CASE T # {}
    <3>1. PICK y : y = (CHOOSE x \in T : TRUE) OBVIOUS
    <3>2. y \in T BY <2>4, <3>1
    <3>3. y = [launch |-> k, rank |-> q, route |-> j] /\ plans[k][q][j] = e
      BY <1>10, <2>2, <3>2 DEF to
    <3>4. combine'[q][PlaceOf(k, q, j)] = [row |-> y, expert |-> e]
      BY <1>9, <2>1, <2>2, <2>4, <3>1
    <3> QED BY <3>3, <3>4 DEF Result
  <2> QED BY <2>3, <2>4
<1>12. ASSUME NEW i \in Order(r), BlockAt(r, i) = b
       PROVE  \E q \in Ranks : \E j \in Wanted(k, q) :
                /\ Pulled(r, i) = [launch |-> k, rank |-> q, route |-> j]
                /\ combine'[q][PlaceOf(k, q, j)] = Result(k, q, j)
  <2>1. Pulled(r, i) \in valid BY <1>7, <1>12
  <2>2. PICK q \in Ranks : \E j \in Wanted(k, q) :
          /\ Pulled(r, i) = [launch |-> k, rank |-> q, route |-> j]
          /\ Pulled(r, i).rank = q /\ Destination(r, Pulled(r, i)) = PlaceOf(k, q, j)
    BY <1>8, <2>1
  <2>3. PICK j \in Wanted(k, q) :
          /\ Pulled(r, i) = [launch |-> k, rank |-> q, route |-> j]
          /\ Pulled(r, i).rank = q /\ Destination(r, Pulled(r, i)) = PlaceOf(k, q, j)
    BY <2>2
  <2>4. Pulled(r, i) \in to(q, PlaceOf(k, q, j)) BY <2>1, <2>3 DEF to
  <2>5. combine'[q][PlaceOf(k, q, j)] = Result(k, q, j) BY <1>11, <2>4
  <2> QED BY <2>3, <2>5
<1>13. ASSUME NEW q \in Ranks, NEW j \in Wanted(k, q), Delivered(k, q, j)
       PROVE  combine'[q][PlaceOf(k, q, j)] = Result(k, q, j)
  BY <1>11, <1>13 DEF Delivered
<1> QED BY <1>1, <1>a, <1>12, <1>13 DEF k

\* Every route to an expert is pulled at some place: there are as many places as routes.
LEMMA AllPulled ==
  ASSUME DispatchInv, NEW r \in Ranks, NEW s \in SMs, InKernel(r), pc[r][s] \in Pulling,
         NEW q \in Ranks, NEW j \in Wanted(launch[r], q), NEW l \in Local,
         plans[launch[r]][q][j] = r * EPR + l
  PROVE  \E i \in Order(r) : Pulled(r, i) = [launch |-> launch[r], rank |-> q, route |-> j]
<1> DEFINE k == launch[r]
           e == r * EPR + l
           n == rsum[r][l].routes
           I == Start(r, l) .. Start(r, l) + n - 1
           G == Given(plans[k], e)
           f == [i \in I |-> <<Pulled(r, i).rank, Pulled(r, i).route>>]
<1>0. CountsInv /\ ShapeInv /\ BarrierInv /\ \A p \in Ranks : staged[p] = launch[p]
  BY DEF DispatchInv, CountsInv, ControlInv, RowsInv
<1>1. /\ n \in Nat /\ Start(r, l) \in Nat /\ Start(r, l + 1) = Start(r, l) + n
      /\ Start(r, l + 1) <= Start(r, EPR) /\ Start(r, EPR) \in Nat
  <2>1. l \in Offsets /\ l + 1 \in Offsets /\ EPR \in Offsets /\ l + 1 <= EPR
    BY Sizes DEF Offsets, Local
  <2> QED BY <1>0, <2>1, PoolSums
<1>2. ASSUME NEW i \in I
      PROVE  /\ i \in Nat /\ i < Start(r, EPR) /\ i \in Order(r) /\ ExpertAt(r, i) = l
  <2>1. PICK a, m, c : a = Start(r, l) /\ m = n /\ c = Start(r, EPR) OBVIOUS
  <2>2. i \in Nat /\ a <= i /\ i < a + m /\ a + m <= c /\ c \in Nat BY <1>1, <2>1
  <2>3. i < c /\ i \in 0 .. c - 1 BY <1>1, <2>1, <2>2
  <2>4. ExpertAt(r, i) = l BY <1>0, <1>1, <2>1, <2>2, PoolRanges
  <2> QED BY <2>1, <2>2, <2>3, <2>4 DEF Order
<1>3. ASSUME NEW i \in I
      PROVE  /\ f[i] \in G
             /\ Pulled(r, i) = [launch |-> k, rank |-> f[i][1], route |-> f[i][2]]
             /\ \A h \in I : f[h] = f[i] => h = i
  <2>1. /\ Pulled(r, i).launch = k /\ Pulled(r, i).rank \in Ranks
        /\ Pulled(r, i).route \in RoutesTo(r, Pulled(r, i).rank, e)
        /\ \A h \in I : h # i => Pulled(r, h) # Pulled(r, i)
    BY <1>0, <1>2, PulledRoute
  <2>2. \A h \in I : Pulled(r, h).launch = k BY <1>0, <1>2, PulledRoute
  <2>3. \A h \in I : Pulled(r, h) = [launch |-> k, rank |-> Pulled(r, h).rank,
                                     route |-> Pulled(r, h).route]
    BY <2>2 DEF Pulled
  <2>4. f[i] \in G BY <2>1 DEF Given, RoutesTo
  <2>5. \A h \in I : f[h] = <<Pulled(r, h).rank, Pulled(r, h).route>> OBVIOUS
  <2> HIDE DEF f
  <2>6. ASSUME NEW h \in I, f[h] = f[i] PROVE h = i
    <3>1. Pulled(r, h).rank = Pulled(r, i).rank /\ Pulled(r, h).route = Pulled(r, i).route
      BY <2>5, <2>6
    <3>2. Pulled(r, h) = Pulled(r, i) BY <2>3, <3>1
    <3> QED BY <2>1, <3>2
  <2> QED BY <2>3, <2>4, <2>5, <2>6
<1>4. IsFiniteSet(I) /\ Cardinality(I) = n BY <1>1, IntervalSize
<1>5. IsFiniteSet(G) /\ Cardinality(G) = n
  <2>1. Cardinality(G) = n BY <1>0, PullSums
  <2>2. k \in 1 .. MaxLaunches BY <1>0, TopkFacts DEF InKernel
  <2>3. e \in Experts BY Ownership
  <2>4. G = Stacked(Shares(k, e), Ranks) BY DEF Given, Stacked, Shares, PlanTo
  <2>5. IsFiniteSet(G) BY <1>0, <2>2, <2>3, <2>4, PlanToFacts
  <2> QED BY <2>1, <2>5
<1>6. f \in Injection(I, G)
  <2>1. f \in [I -> G] BY <1>3
  <2>2. \A i, h \in I : f[h] = f[i] => h = i BY <1>3
  <2> HIDE DEF I, G, f
  <2> QED BY <2>1, <2>2 DEF Injection, IsInjective
<1>7. <<q, j>> \in G BY DEF Given, Wanted
<1>8. PICK i \in I : f[i] = <<q, j>>
  <2> HIDE DEF I, G, f, n
  <2>1. f \in Surjection(I, G) BY <1>4, <1>5, <1>6, FS_Injection
  <2> QED BY <1>7, <2>1 DEF Surjection
<1>9. Pulled(r, i) = [launch |-> k, rank |-> q, route |-> j]
  <2> HIDE DEF f
  <2> QED BY <1>3, <1>8
<1> QED BY <1>2, <1>9

\* Every place lies in a block that some program of the rank scatters.
LEMMA BlockIsMine ==
  ASSUME CountsInv, NEW r \in Ranks, NEW s \in SMs, InKernel(r), pc[r][s] \in Pulling,
         NEW i \in Order(r)
  PROVE  \E x \in SMs : BlockAt(r, i) \in Mine(r, x)
<1>0. ShapeInv BY DEF CountsInv, ControlInv
<1>1. i \in Nat /\ i < Start(r, EPR)
  <2>1. EPR \in Offsets BY Sizes DEF Offsets
  <2>2. Start(r, EPR) \in Nat BY <1>0, <2>1, PoolSums
  <2> QED BY <2>2 DEF Order
<1>2. BlockAt(r, i) \in Blocks /\ BlockAt(r, i) < Block(r, EPR)
  BY <1>0, <1>1, RowInPool, PlaceOfRow DEF BlockAt
<1>3. BlockAt(r, i) \in Nat BY <1>2, Sizes DEF Blocks
<1>4. BlockAt(r, i) % NUM_SMS \in SMs BY <1>3, DivMod, Sizes DEF SMs
<1> QED BY <1>2, <1>4 DEF Mine, Used

\* What the programs of a rank have scattered.
Complete(r) ==
  \A q \in Ranks : \A j \in Wanted(launch[r], q) :
    Owner(plans[launch[r]][q][j]) = r => Delivered(launch[r], q, j)

ScatterInv(r) ==
  /\ InKernel(r) =>
       /\ \A s \in SMs : math[r][s] \in MathIn => Mine(r, s) \subseteq scattered[r]
       /\ scattered[r] # {} => \E s \in SMs : math[r][s] # "wait"
       /\ \A i \in Order(r) : BlockAt(r, i) \in scattered[r] =>
            \E q \in Ranks : \E j \in Wanted(launch[r], q) :
              /\ Pulled(r, i) = [launch |-> launch[r], rank |-> q, route |-> j]
              /\ Delivered(launch[r], q, j)
  /\ stage[r] = "close" => Complete(r)

\* A rank whose programs have all scattered has delivered the results of its experts.
LEMMA ScatteredIsComplete ==
  ASSUME DispatchInv, NEW r \in Ranks, InKernel(r), ScatterInv(r),
         \A s \in SMs : math[r][s] \in MathIn
  PROVE  Complete(r)
<1>0. CountsInv /\ ShapeInv /\ BarrierInv /\ PhaseInv(r) /\ 0 \in SMs
  BY Sizes DEF DispatchInv, CountsInv, ControlInv
<1>1. pc[r][0] \in Pulling BY <1>0 DEF PhaseInv, HandOver, MathIn
<1> SUFFICES ASSUME NEW q \in Ranks, NEW j \in Wanted(launch[r], q),
                    Owner(plans[launch[r]][q][j]) = r
             PROVE  Delivered(launch[r], q, j)
  BY DEF Complete
<1>2. launch[r] \in 1 .. MaxLaunches BY <1>0, TopkFacts DEF InKernel
<1>3. plans[launch[r]][q][j] \in Experts BY <1>0, <1>2, WantedFacts
<1>4. PICK l \in Local : plans[launch[r]][q][j] = r * EPR + l BY <1>3, Ownership
<1>5. PICK i \in Order(r) : Pulled(r, i) = [launch |-> launch[r], rank |-> q, route |-> j]
  BY <1>0, <1>1, <1>4, AllPulled
<1>6. BlockAt(r, i) \in scattered[r] BY <1>0, <1>1, BlockIsMine DEF ScatterInv
<1>7. PICK p \in Ranks : \E h \in Wanted(launch[r], p) :
        /\ Pulled(r, i) = [launch |-> launch[r], rank |-> p, route |-> h]
        /\ Delivered(launch[r], p, h)
  BY <1>6 DEF ScatterInv
<1>8. PICK h \in Wanted(launch[r], p) :
        /\ Pulled(r, i) = [launch |-> launch[r], rank |-> p, route |-> h]
        /\ Delivered(launch[r], p, h)
  BY <1>7
<1>9. p = q /\ h = j BY <1>5, <1>8
<1> QED BY <1>8, <1>9

\* What has been delivered stays as long as its rank is in the launch.
LEMMA DeliveredKept ==
  ASSUME EqualTokens, DispatchInv, NEW a \in Ranks, NEW t \in SMs,
         Host(a) \/ Dispatch(a, t) \/ Math(a, t),
         NEW r \in Ranks, stage[r] \in {"kernel", "close"}, launch'[r] = launch[r],
         NEW q \in Ranks, NEW j \in Wanted(launch[r], q), Delivered(launch[r], q, j)
  PROVE  /\ plans' = plans
         /\ combine'[q][PlaceOf(launch[r], q, j)] = Result(launch[r], q, j)
<1>0. ShapeInv /\ BarrierInv BY DEF DispatchInv, CountsInv, ControlInv
<1>1. plans' = plans BY <1>0, Frame
<1>2. CASE combine' = combine BY <1>1, <1>2 DEF Delivered
<1>3. CASE Scatter(a, t)
  <2>1. math[a][t] = "work" BY <1>3 DEF Scatter
  <2>2. InKernel(a) BY <1>0, <2>1 DEF ShapeInv, InKernel
  <2>3. launch[r] = launch[a] BY <1>0, <2>2, Newest DEF InKernel
  <2> QED BY <1>1, <1>3, <2>2, <2>3, ScatterDelivers
<1> QED BY <1>2, <1>3, CombineChanges

\* Which routes are delivered depends on the results alone while a launch lasts.
LEMMA SameRoutes ==
  ASSUME plans' = plans, NEW r, launch'[r] = launch[r]
  PROVE  \A q : /\ Wanted(launch[r], q)' = Wanted(launch[r], q)
                /\ \A j : Delivered(launch[r], q, j)' <=>
                     combine'[q][PlaceOf(launch[r], q, j)] = Result(launch[r], q, j)
  BY DEF Wanted, Delivered, PlaceOf, Result, Tokens

\* A rank in its kernel that has work to scatter has complete queues and sums.
LEMMA AtWork ==
  ASSUME DispatchInv, NEW r \in Ranks, InKernel(r), NEW x \in SMs, math[r][x] # "wait"
  PROVE  pc[r][x] \in Pulling
  BY DEF DispatchInv, CountsInv, ControlInv, PhaseInv, HandOver

\* Steps that scatter no block of the rank.
LEMMA ScatterKept ==
  ASSUME EqualTokens, DispatchInv, NEW a \in Ranks, NEW t \in SMs,
         Host(a) \/ Dispatch(a, t) \/ Math(a, t),
         NEW r \in Ranks, ScatterInv(r),
         stage'[r] = stage[r], launch'[r] = launch[r], scattered'[r] = scattered[r],
         \A x \in SMs : /\ math[r][x] # "wait" => math'[r][x] # "wait"
                        /\ math'[r][x] \in MathIn =>
                             /\ math[r][x] # "wait"
                             /\ math[r][x] \in MathIn \/ Mine(r, x) \subseteq scattered[r]
  PROVE  ScatterInv(r)'
<1>0. CountsInv /\ ShapeInv /\ BarrierInv BY DEF DispatchInv, CountsInv, ControlInv
<1>1. plans' = plans BY <1>0, Frame
<1>2. /\ \A q : Wanted(launch[r], q)' = Wanted(launch[r], q)
      /\ \A q, j : Delivered(launch[r], q, j)' <=>
           combine'[q][PlaceOf(launch[r], q, j)] = Result(launch[r], q, j)
  BY <1>1, SameRoutes
<1>3. ASSUME stage[r] = "close" PROVE Complete(r)'
  <2> SUFFICES ASSUME NEW q \in Ranks, NEW j \in Wanted(launch[r], q),
                      Owner(plans[launch[r]][q][j]) = r
               PROVE  Delivered(launch[r], q, j)'
    BY <1>1, <1>2 DEF Complete, Owner
  <2>1. Delivered(launch[r], q, j) BY <1>3 DEF ScatterInv, Complete
  <2> QED BY <1>2, <1>3, <2>1, DeliveredKept
<1>4. ASSUME InKernel(r), NEW x \in SMs, math[r][x] # "wait"
      PROVE  UNCHANGED <<queue, recv, rsum, staged, plans>>
  <2>1. pc[r][x] \in Pulling BY <1>4, AtWork
  <2> QED BY <1>0, <1>4, <2>1, PullFrame
<1>5. ASSUME InKernel(r), NEW s \in SMs, math'[r][s] \in MathIn
      PROVE  Mine(r, s)' \subseteq scattered'[r]
  <2>1. math[r][s] # "wait" /\ Mine(r, s) \subseteq scattered[r]
    BY <1>5 DEF ScatterInv
  <2>2. rsum'[r] = rsum[r] BY <1>4, <1>5, <2>1
  <2>3. Used(r)' = Used(r) BY <2>2, SamePool
  <2> QED BY <2>1, <2>3 DEF Mine
<1>6. ASSUME InKernel(r), scattered[r] # {}
      PROVE  /\ \E s \in SMs : math'[r][s] # "wait"
             /\ \A i \in Order(r)' : BlockAt(r, i)' \in scattered'[r] =>
                  \E q \in Ranks : \E j \in Wanted(launch[r], q)' :
                    /\ Pulled(r, i)' = [launch |-> launch'[r], rank |-> q, route |-> j]
                    /\ Delivered(launch[r], q, j)'
  <2>1. PICK s \in SMs : math[r][s] # "wait" BY <1>6 DEF ScatterInv
  <2>2. UNCHANGED <<queue, recv, rsum, staged, plans>> BY <1>4, <1>6, <2>1
  <2>3. /\ Order(r)' = Order(r)
        /\ \A i : BlockAt(r, i)' = BlockAt(r, i) /\ Pulled(r, i)' = Pulled(r, i)
    BY <2>2, SamePool
  <2>4. ASSUME NEW i \in Order(r), BlockAt(r, i) \in scattered[r]
        PROVE  \E q \in Ranks : \E j \in Wanted(launch[r], q) :
                 /\ Pulled(r, i) = [launch |-> launch[r], rank |-> q, route |-> j]
                 /\ Delivered(launch[r], q, j)'
    <3>1. PICK q \in Ranks : \E j \in Wanted(launch[r], q) :
            /\ Pulled(r, i) = [launch |-> launch[r], rank |-> q, route |-> j]
            /\ Delivered(launch[r], q, j)
      BY <1>6, <2>4 DEF ScatterInv
    <3>2. PICK j \in Wanted(launch[r], q) :
            /\ Pulled(r, i) = [launch |-> launch[r], rank |-> q, route |-> j]
            /\ Delivered(launch[r], q, j)
      BY <3>1
    <3>3. stage[r] \in {"kernel", "close"} BY <1>6 DEF InKernel
    <3>4. Delivered(launch[r], q, j)' BY <1>2, <3>2, <3>3, DeliveredKept
    <3> QED BY <3>2, <3>4
  <2>5. math'[r][s] # "wait" BY <2>1
  <2> QED BY <1>2, <2>3, <2>4, <2>5
<1> QED BY <1>3, <1>5, <1>6 DEF ScatterInv, InKernel

\* The scattering of a block.
LEMMA ScatterOne ==
  ASSUME EqualTokens, DispatchInv, NEW r \in Ranks, NEW s \in SMs, Scatter(r, s), ScatterInv(r)
  PROVE  ScatterInv(r)'
<1>0. CountsInv /\ ShapeInv /\ BarrierInv BY DEF DispatchInv, CountsInv, ControlInv
<1>1. /\ math[r][s] = "work" /\ math' = math
      /\ UNCHANGED <<stage, launch, plans, queue, recv, rsum, staged>>
  BY DEF Scatter, host, counts
<1>2. InKernel(r) /\ stage[r] \in {"kernel", "close"}
  BY <1>0, <1>1 DEF ShapeInv, InKernel
<1>3. PICK b \in Blocks :
        /\ scattered' = [scattered EXCEPT ![r] = @ \cup {b}]
        /\ \A q \in Ranks : \A j \in Wanted(launch[r], q) :
             Delivered(launch[r], q, j) =>
               combine'[q][PlaceOf(launch[r], q, j)] = Result(launch[r], q, j)
        /\ \A i \in Order(r) : BlockAt(r, i) = b =>
             \E q \in Ranks : \E j \in Wanted(launch[r], q) :
               /\ Pulled(r, i) = [launch |-> launch[r], rank |-> q, route |-> j]
               /\ combine'[q][PlaceOf(launch[r], q, j)] = Result(launch[r], q, j)
  BY <1>2, ScatterDelivers
<1>4. scattered'[r] = scattered[r] \cup {b} BY <1>0, <1>3 DEF ShapeInv
<1>5. /\ Order(r)' = Order(r) /\ Used(r)' = Used(r)
      /\ \A i : BlockAt(r, i)' = BlockAt(r, i) /\ Pulled(r, i)' = Pulled(r, i)
  BY <1>1, SamePool
<1>6. /\ \A q : Wanted(launch[r], q)' = Wanted(launch[r], q)
      /\ \A q, j : Delivered(launch[r], q, j)' <=>
           combine'[q][PlaceOf(launch[r], q, j)] = Result(launch[r], q, j)
  BY <1>1, SameRoutes
<1>7. \A x \in SMs : math'[r][x] \in MathIn => Mine(r, x)' \subseteq scattered'[r]
  BY <1>1, <1>2, <1>4, <1>5 DEF ScatterInv, Mine
<1>8. \E x \in SMs : math'[r][x] # "wait" BY <1>1
<1>9. ASSUME NEW i \in Order(r), BlockAt(r, i) \in scattered'[r]
      PROVE  \E q \in Ranks : \E j \in Wanted(launch[r], q) :
               /\ Pulled(r, i) = [launch |-> launch[r], rank |-> q, route |-> j]
               /\ Delivered(launch[r], q, j)'
  <2>1. CASE BlockAt(r, i) = b BY <1>3, <1>6, <2>1
  <2>2. CASE BlockAt(r, i) \in scattered[r]
    <3>1. PICK q \in Ranks : \E j \in Wanted(launch[r], q) :
            /\ Pulled(r, i) = [launch |-> launch[r], rank |-> q, route |-> j]
            /\ Delivered(launch[r], q, j)
      BY <1>2, <2>2 DEF ScatterInv
    <3> QED BY <1>3, <1>6, <3>1
  <2> QED BY <1>4, <1>9, <2>1, <2>2
<1>10. \A i \in Order(r)' : BlockAt(r, i)' \in scattered'[r] =>
         \E q \in Ranks : \E j \in Wanted(launch[r], q)' :
           /\ Pulled(r, i)' = [launch |-> launch'[r], rank |-> q, route |-> j]
           /\ Delivered(launch[r], q, j)'
  BY <1>1, <1>5, <1>6, <1>9
<1>11. stage'[r] # "close" BY <1>1, <1>2 DEF InKernel
<1> QED BY <1>7, <1>8, <1>10, <1>11 DEF ScatterInv

LEMMA DispatchLeaves ==
  ASSUME NEW r \in Ranks, NEW s \in SMs, Dispatch(r, s)
  PROVE  UNCHANGED <<stage, launch, scattered, math, output>>
<1> USE DEF host, counts, sync, results, roles
<1>1. ASSUME NEW j \in Streams, Copy(r, s, j)
      PROVE  UNCHANGED <<stage, launch, scattered, math, output>>
  BY <1>1 DEF Copy
<1>2. ASSUME NEW j \in Streams, Announce(r, s, j)
      PROVE  UNCHANGED <<stage, launch, scattered, math, output>>
  BY <1>2 DEF Announce
<1> QED BY <1>1, <1>2 DEF Dispatch, Reserve, Enqueue, Arrive, Grid, Publish, Signal, Await,
     Meet, Met, EndPull

LEMMA MathLeaves ==
  ASSUME ShapeInv, NEW r \in Ranks, NEW s \in SMs, Math(r, s)
  PROVE  \/ Scatter(r, s)
         \/ /\ UNCHANGED <<stage, launch, scattered>>
            /\ \A x \in SMs : /\ math[r][x] # "wait" => math'[r][x] # "wait"
                              /\ math'[r][x] \in MathIn =>
                                   /\ math[r][x] # "wait"
                                   /\ math[r][x] \in MathIn \/ Mine(r, x) \subseteq scattered[r]
<1> DEFINE Leaves ==
      /\ UNCHANGED <<stage, launch, scattered>>
      /\ \A x \in SMs : /\ math[r][x] # "wait" => math'[r][x] # "wait"
                        /\ math'[r][x] \in MathIn =>
                             /\ math[r][x] # "wait"
                             /\ math[r][x] \in MathIn \/ Mine(r, x) \subseteq scattered[r]
<1> USE DEF ShapeInv, MathStep, MathIn, MathPhases, host, counts, sync, results, roles
<1>0. 0 \in SMs BY Sizes
<1>1. ASSUME WaitReady(r, s) PROVE Leaves BY <1>1 DEF WaitReady
<1>2. ASSUME MathArrive(r, s) PROVE Leaves BY <1>2 DEF MathArrive
<1>3. ASSUME MathGrid(r, s) PROVE Leaves BY <1>3 DEF MathGrid
<1>4. ASSUME MathAwait(r) PROVE Leaves BY <1>0, <1>4 DEF MathAwait
<1>5. ASSUME MathMeet(r, s) PROVE Leaves BY <1>5 DEF MathMeet
<1>6. ASSUME Combine(r, s) PROVE Leaves BY <1>6 DEF Combine
<1> HIDE DEF Leaves
<1>7. Scatter(r, s) \/ Leaves
  BY <1>1, <1>2, <1>3, <1>4, <1>5, <1>6, Zenon DEF Math
<1> QED BY <1>7 DEF Leaves

LEMMA ScatterHost ==
  ASSUME DispatchInv, NEW r \in Ranks, Host(r), ScatterInv(r)
  PROVE  ScatterInv(r)'
<1>0. CountsInv /\ ShapeInv /\ BarrierInv BY DEF DispatchInv, CountsInv, ControlInv
<1>1. CASE Prepare(r)
  <2>1. stage'[r] = "open" BY <1>0, <1>1 DEF Prepare, Goto, BarrierInv
  <2> QED BY <2>1 DEF ScatterInv, InKernel
<1>2. CASE StartKernel(r)
  <2>1. stage'[r] = "kernel" /\ scattered'[r] = {} /\ \A x \in SMs : math'[r][x] = "wait"
    BY <1>0, <1>2 DEF StartKernel, Goto, BarrierInv, ShapeInv
  <2> QED BY <2>1 DEF ScatterInv, InKernel, MathIn
<1>3. CASE EndKernel(r)
  <2>1. /\ InKernel(r) /\ stage'[r] = "close" /\ \A x \in SMs : math[r][x] = "done"
        /\ UNCHANGED <<plans, launch, combine>>
    BY <1>0, <1>3 DEF EndKernel, Goto, BarrierInv, InKernel, results
  <2>2. \A x \in SMs : math[r][x] \in MathIn BY <2>1 DEF MathIn, MathPhases
  <2>3. Complete(r) BY <2>1, <2>2, ScatteredIsComplete
  <2>4. Complete(r)'
    <3>1. \A q : /\ Wanted(launch[r], q)' = Wanted(launch[r], q)
                 /\ \A j : Delivered(launch[r], q, j)' <=> Delivered(launch[r], q, j)
      BY <2>1 DEF Wanted, Delivered, PlaceOf, Result, Tokens
    <3> QED BY <2>1, <2>3, <3>1 DEF Complete, Owner
  <2> QED BY <2>1, <2>4 DEF ScatterInv, InKernel
<1>4. CASE Close(r)
  <2>1. stage'[r] = "idle" BY <1>0, <1>4 DEF Close, Goto, BarrierInv
  <2> QED BY <2>1 DEF ScatterInv, InKernel
<1> QED BY <1>1, <1>2, <1>3, <1>4 DEF Host

LEMMA ScatterStep ==
  ASSUME EqualTokens, DispatchInv, NEW a \in Ranks, NEW t \in SMs,
         Host(a) \/ Dispatch(a, t) \/ Math(a, t), NEW r \in Ranks, ScatterInv(r)
  PROVE  ScatterInv(r)'
<1>0. CountsInv /\ ShapeInv /\ BarrierInv BY DEF DispatchInv, CountsInv, ControlInv
<1>1. \A x \in SMs : math[r][x] \in MathIn => math[r][x] # "wait" BY DEF MathIn
<1>2. CASE a # r
  <2>1. Own(r)' = Own(r) BY <1>0, <1>2, Frame
  <2>2. /\ stage'[r] = stage[r] /\ launch'[r] = launch[r] /\ scattered'[r] = scattered[r]
        /\ math'[r] = math[r]
    BY <2>1 DEF Own
  <2> QED BY <1>1, <2>2, ScatterKept
<1>3. CASE a = r /\ Host(a) BY <1>3, ScatterHost
<1>4. CASE a = r /\ Dispatch(a, t)
  <2>1. UNCHANGED <<stage, launch, scattered, math>> BY <1>4, DispatchLeaves
  <2> QED BY <1>1, <2>1, ScatterKept
<1>5. CASE a = r /\ Math(a, t)
  <2>1. CASE Scatter(r, t) BY <2>1, ScatterOne
  <2>2. CASE ~Scatter(r, t)
    <3>1. /\ UNCHANGED <<stage, launch, scattered>>
          /\ \A x \in SMs : /\ math[r][x] # "wait" => math'[r][x] # "wait"
                            /\ math'[r][x] \in MathIn =>
                                 /\ math[r][x] # "wait"
                                 /\ math[r][x] \in MathIn \/ Mine(r, x) \subseteq scattered[r]
      BY <1>0, <1>5, <2>2, MathLeaves
    <3> QED BY <3>1, ScatterKept
  <2> QED BY <2>1, <2>2
<1> QED BY <1>2, <1>3, <1>4, <1>5

\* A program that adds up its tokens finds all results of its rank delivered.
LEMMA AllComplete ==
  ASSUME DispatchInv, \A q \in Ranks : ScatterInv(q), NEW r \in Ranks, InKernel(r),
         gctr[r][4] >= NUM_SMS, NEW j \in Wanted(launch[r], r)
  PROVE  Delivered(launch[r], r, j)
<1>0. /\ CountsInv /\ ShapeInv /\ BarrierInv /\ \A q \in Ranks : PhaseInv(q) /\ AllHeard(q)
      /\ 0 \in SMs
  BY Sizes DEF DispatchInv, CountsInv, ControlInv, RankBarriers
<1>1. math[r][0] \in MathMetIn
  BY <1>0, CountEnds DEF PhaseInv, InKernel, CountersAgree
<1>2. \A q \in Ranks : SignalledIn(q, launch[r], 1)
  BY <1>0, <1>1 DEF AllHeard, InKernel, MathMetIn, MathAwaited
<1>3. launch[r] \in 1 .. MaxLaunches BY <1>0, TopkFacts DEF InKernel
<1>4. plans[launch[r]][r][j] \in Experts BY <1>0, <1>3, WantedFacts
<1>5. PICK q \in Ranks : q = Owner(plans[launch[r]][r][j]) BY <1>4, Ownership
<1>6. launch[q] = launch[r] /\ stage[q] # "idle" BY <1>0, Newest DEF InKernel
<1>7. stage[q] # "open" /\ math[q][0] \in MathPast
  <2>1. launch[r] \in Nat BY <1>3, Sizes
  <2> QED BY <1>2, <1>6, <2>1 DEF SignalledIn, Sent
<1>8. Complete(q)
  <2>1. CASE stage[q] = "close" BY <2>1 DEF ScatterInv
  <2>2. CASE stage[q] = "kernel"
    <3>1. \A s \in SMs : math[q][s] \in MathIn
      BY <1>0, <1>7, <2>2 DEF PhaseInv, InKernel, BarriersHold
    <3> QED BY <2>2, <3>1, ScatteredIsComplete DEF InKernel
  <2> QED BY <1>0, <1>6, <1>7, <2>1, <2>2 DEF BarrierInv
<1> QED BY <1>5, <1>6, <1>8 DEF Complete

\* The results of the routes of a token, and the tokens that are added up.
Exact(r, t) ==
  {Result(launch[r], r, i) : i \in {j \in Wanted(launch[r], r) : Token(j) = t}}

OutputInv(r) ==
  stage[r] \in {"kernel", "close"} =>
    \A s \in SMs : math[r][s] = "done" =>
      \A t \in 0 .. NTOK(r) - 1 : t % NUM_SMS = s => output[r][t] = Exact(r, t)

\* A choice of a token is a route.
LEMMA RouteOf ==
  ASSUME ShapeInv, NEW k \in 1 .. MaxLaunches, NEW q \in Ranks,
         NEW t \in 0 .. Tokens(k, q) - 1, NEW c \in 0 .. TOPK - 1
  PROVE  /\ t * TOPK + c \in DOMAIN plans[k][q]
         /\ Token(t * TOPK + c) = t /\ Choice(t * TOPK + c) = c
         /\ PlaceOf(k, q, t * TOPK + c) = c * Tokens(k, q) + t
         /\ t \in {Token(i) : i \in Routes}
<1>1. /\ Tokens(k, q) \in Nat /\ DOMAIN plans[k][q] = 0 .. Tokens(k, q) * TOPK - 1
      /\ DOMAIN plans[k][q] \subseteq Routes
  BY PlanFacts
<1>2. \A n \in Nat, d \in Nat \ {0} : \A a \in 0 .. n - 1, b \in 0 .. d - 1 :
        /\ a * d + b \in 0 .. n * d - 1
        /\ (a * d + b) \div d = a /\ (a * d + b) % d = b
  <2> SUFFICES ASSUME NEW n \in Nat, NEW d \in Nat \ {0}, NEW a \in 0 .. n - 1, NEW b \in 0 .. d - 1
               PROVE  /\ a * d + b \in 0 .. n * d - 1
                      /\ (a * d + b) \div d = a /\ (a * d + b) % d = b
    OBVIOUS
  <2>1. (a + 1) * d <= n * d /\ (a + 1) * d = a * d + d OBVIOUS
  <2>2. PICK p \in Nat, m \in Nat : p = a * d /\ m = n * d
    <3>1. a * d \in Nat /\ n * d \in Nat OBVIOUS
    <3> QED BY <3>1
  <2>3. p + b \in 0 .. m - 1 BY <2>1, <2>2
  <2>4. PICK j \in Nat : j = a * d + b BY <2>2
  <2>5. j % d \in 0 .. d - 1 /\ j \div d \in Nat /\ j = (j \div d) * d + (j % d) BY DivMod
  <2>6. PICK x \in Nat, y \in 0 .. d - 1 : x = j \div d /\ y = j % d BY <2>5
  <2>7. x * d + y = a * d + b BY <2>4, <2>5, <2>6
  <2>8. x = a /\ y = b
    <3>1. \A m_, c_, d_ \in Nat : \A u, v \in 0 .. m_ - 1 : c_ * m_ + u = d_ * m_ + v => c_ = d_ /\ u = v
      BY DigitsDiffer
    <3>2. \A c_, d_ \in Nat : \A u, v \in 0 .. d - 1 : c_ * d + u = d_ * d + v => c_ = d_ /\ u = v
      <4>1. d \in Nat OBVIOUS
      <4> QED BY <3>1, <4>1, Zenon
    <3>3. a \in Nat OBVIOUS
    <3>4. \A u, v \in 0 .. d - 1 : x * d + u = a * d + v => x = a /\ u = v
      BY <2>6, <3>2, <3>3, Zenon
    <3> QED BY <2>6, <2>7, <3>4, Zenon
  <2> QED BY <2>2, <2>3, <2>4, <2>6, <2>8, Zenon
<1>3. PICK n \in Nat, d \in Nat \ {0} : n = Tokens(k, q) /\ d = TOPK BY <1>1, Sizes
<1>4. /\ t * TOPK + c \in 0 .. Tokens(k, q) * TOPK - 1
      /\ (t * TOPK + c) \div TOPK = t /\ (t * TOPK + c) % TOPK = c
  <2>1. t \in 0 .. n - 1 /\ c \in 0 .. d - 1 BY <1>3
  <2>2. t * d + c \in 0 .. n * d - 1 /\ (t * d + c) \div d = t /\ (t * d + c) % d = c
    <3>1. \A a \in 0 .. n - 1, b \in 0 .. d - 1 :
            /\ a * d + b \in 0 .. n * d - 1
            /\ (a * d + b) \div d = a /\ (a * d + b) % d = b
      BY <1>2, <1>3, Zenon
    <3> QED BY <2>1, <3>1, Zenon
  <2> QED BY <1>3, <2>2, Zenon
<1>5. Token(t * TOPK + c) = t /\ Choice(t * TOPK + c) = c
  BY <1>4, Zenon DEF Token, Choice
<1>6. t * TOPK + c \in Routes BY <1>1, <1>4
<1> QED BY <1>1, <1>4, <1>5, <1>6, Zenon DEF PlaceOf

\* The sum of a token is that of the results of its routes.
LEMMA CombineExact ==
  ASSUME DispatchInv, NEW r \in Ranks, InKernel(r), NEW s \in SMs, Combine(r, s),
         \A j \in Wanted(launch[r], r) : Delivered(launch[r], r, j),
         NEW t \in 0 .. NTOK(r) - 1, t % NUM_SMS = s
  PROVE  output'[r][t] = Exact(r, t)
<1> DEFINE k == launch[r]
           C == {c \in 0 .. TOPK - 1 : Topk(r)[t * TOPK + c] >= 0}
           J == {j \in Wanted(k, r) : Token(j) = t}
<1>0. ShapeInv /\ BarrierInv BY DEF DispatchInv, CountsInv, ControlInv
<1>1. k \in 1 .. MaxLaunches /\ Topk(r) = plans[k][r] /\ NTOK(r) = Tokens(k, r)
  BY <1>0, TopkFacts DEF InKernel
<1>2. t \in 0 .. Tokens(k, r) - 1 BY <1>1
<1>3. t \in {Token(i) : i \in Routes}
  <2>1. 0 \in 0 .. TOPK - 1 BY Sizes
  <2> QED BY <1>0, <1>1, <1>2, <2>1, RouteOf
<1>4. output'[r][t] = {combine[r][c * NTOK(r) + t] : c \in C}
  <2>1. output' = [output EXCEPT ![r] = [x \in DOMAIN @ |->
            IF x < NTOK(r) /\ x % NUM_SMS = s
            THEN {combine[r][c * NTOK(r) + x] :
                    c \in {c \in 0 .. TOPK - 1 : Topk(r)[x * TOPK + c] >= 0}}
            ELSE @[x]]]
    BY DEF Combine
  <2>2. output = [q \in Ranks |-> [x \in {Token(i) : i \in Routes} |-> output[q][x]]]
    BY <1>0 DEF ShapeInv
  <2>3. r \in DOMAIN output /\ t \in DOMAIN output[r] BY <1>3, <2>2
  <2>4. t < NTOK(r)
    <3>1. NTOK(r) \in Nat BY <1>1, <1>0, PlanFacts
    <3> QED BY <3>1
  <2> QED BY <2>1, <2>3, <2>4
<1>5. ASSUME NEW c \in C
      PROVE  /\ t * TOPK + c \in J
             /\ combine[r][c * NTOK(r) + t] = Result(k, r, t * TOPK + c)
  <2>0. c \in 0 .. TOPK - 1 /\ Topk(r)[t * TOPK + c] >= 0 OBVIOUS
  <2> HIDE DEF C
  <2>1. /\ t * TOPK + c \in DOMAIN plans[k][r] /\ Token(t * TOPK + c) = t
        /\ PlaceOf(k, r, t * TOPK + c) = c * Tokens(k, r) + t
    BY <1>0, <1>1, <1>2, <2>0, RouteOf
  <2>2. PICK j : j = t * TOPK + c OBVIOUS
  <2>3. j \in Wanted(k, r) /\ Token(j) = t /\ PlaceOf(k, r, j) = c * NTOK(r) + t
    BY <1>1, <2>0, <2>1, <2>2, Zenon DEF Wanted
  <2>4. Delivered(k, r, j) BY <2>3
  <2> QED BY <2>2, <2>3, <2>4, Zenon DEF Delivered
<1>6. ASSUME NEW j \in J
      PROVE  Choice(j) \in C /\ j = t * TOPK + Choice(j)
  <2>1. j \in Wanted(k, r) /\ Token(j) = t OBVIOUS
  <2>2. Choice(j) \in 0 .. TOPK - 1 /\ j = t * TOPK + Choice(j)
    BY <1>0, <1>1, <2>1, WantedFacts
  <2>3. Topk(r)[j] >= 0 BY <1>1, <2>1 DEF Wanted
  <2> QED BY <2>2, <2>3, Zenon
<1> HIDE DEF C, J
<1>7. {combine[r][c * NTOK(r) + t] : c \in C} \subseteq {Result(k, r, j) : j \in J}
  BY <1>5, Zenon
<1>8. {Result(k, r, j) : j \in J} \subseteq {combine[r][c * NTOK(r) + t] : c \in C}
  <2> SUFFICES ASSUME NEW j \in J
               PROVE  \E c \in C : combine[r][c * NTOK(r) + t] = Result(k, r, j)
    BY Zenon
  <2>1. PICK c \in C : c = Choice(j) /\ j = t * TOPK + c BY <1>6
  <2>2. combine[r][c * NTOK(r) + t] = Result(k, r, t * TOPK + c) BY <1>5
  <2> QED BY <2>1, <2>2, Zenon
<1>9. {Result(k, r, j) : j \in J} = Exact(r, t) BY DEF J, Exact
<1> QED BY <1>4, <1>7, <1>8, <1>9

LEMMA OutputKept ==
  ASSUME NEW r \in Ranks, OutputInv(r), plans' = plans, launch'[r] = launch[r],
         output'[r] = output[r],
         stage'[r] \in {"kernel", "close"} => stage[r] \in {"kernel", "close"},
         \A x \in SMs : math'[r][x] = "done" => math[r][x] = "done"
  PROVE  OutputInv(r)'
<1>1. NTOK(r)' = NTOK(r) BY DEF NTOK, Topk
<1>2. \A t : Exact(r, t)' = Exact(r, t) BY DEF Exact, Result, Wanted
<1> QED BY <1>1, <1>2 DEF OutputInv

\* Only the adding up of a program changes the output of its rank.
LEMMA MathOutputs ==
  ASSUME ShapeInv, NEW r \in Ranks, NEW s \in SMs, Math(r, s)
  PROVE  /\ UNCHANGED <<stage, launch>>
         /\ Combine(r, s) \/ /\ output' = output
                             /\ \A x \in SMs : math'[r][x] = "done" => math[r][x] = "done"
<1> DEFINE Keeps == /\ UNCHANGED <<stage, launch, output>>
                    /\ \A x \in SMs : math'[r][x] = "done" => math[r][x] = "done"
<1> USE DEF ShapeInv, MathStep, host, counts, sync, results, roles
<1>0. 0 \in SMs BY Sizes
<1>1. ASSUME WaitReady(r, s) PROVE Keeps BY <1>1 DEF WaitReady
<1>2. ASSUME MathArrive(r, s) PROVE Keeps BY <1>2 DEF MathArrive
<1>3. ASSUME MathGrid(r, s) PROVE Keeps BY <1>3 DEF MathGrid
<1>4. ASSUME MathAwait(r) PROVE Keeps BY <1>0, <1>4 DEF MathAwait
<1>5. ASSUME MathMeet(r, s) PROVE Keeps BY <1>5 DEF MathMeet
<1>6. ASSUME Scatter(r, s) PROVE Keeps BY <1>6 DEF Scatter
<1>7. ASSUME Combine(r, s) PROVE UNCHANGED <<stage, launch>> BY <1>7 DEF Combine
<1> HIDE DEF Keeps
<1>8. Combine(r, s) \/ Keeps
  BY <1>1, <1>2, <1>3, <1>4, <1>5, <1>6, Zenon DEF Math
<1> QED BY <1>7, <1>8 DEF Keeps

LEMMA OutputStep ==
  ASSUME DispatchInv, \A q \in Ranks : ScatterInv(q), NEW a \in Ranks, NEW t \in SMs,
         Host(a) \/ Dispatch(a, t) \/ Math(a, t), NEW r \in Ranks, OutputInv(r)
  PROVE  OutputInv(r)'
<1>0. ShapeInv /\ BarrierInv /\ PhaseInv(r) BY DEF DispatchInv, CountsInv, ControlInv
<1>1. plans' = plans BY <1>0, Frame
<1>2. CASE a # r
  <2>1. Own(r)' = Own(r) BY <1>0, <1>2, Frame
  <2> QED BY <1>1, <2>1, OutputKept DEF Own
<1>3. CASE a = r /\ Host(a)
  <2>1. CASE Prepare(r)
    <3>1. stage'[r] = "open" BY <1>0, <2>1 DEF Prepare, Goto, BarrierInv
    <3> QED BY <3>1 DEF OutputInv
  <2>2. CASE StartKernel(r)
    <3>1. \A x \in SMs : math'[r][x] = "wait" BY <1>0, <2>2 DEF StartKernel, ShapeInv
    <3> QED BY <3>1 DEF OutputInv
  <2>3. CASE EndKernel(r)
    <3>1. stage[r] = "kernel" /\ UNCHANGED <<launch, output, math>>
      BY <2>3 DEF EndKernel, Goto, results, roles
    <3> QED BY <1>1, <3>1, OutputKept
  <2>4. CASE Close(r)
    <3>1. stage'[r] = "idle" BY <1>0, <2>4 DEF Close, Goto, BarrierInv
    <3> QED BY <3>1 DEF OutputInv
  <2> QED BY <1>3, <2>1, <2>2, <2>3, <2>4 DEF Host
<1>4. CASE a = r /\ Dispatch(a, t)
  <2>1. UNCHANGED <<stage, launch, math, output>> BY <1>4, DispatchLeaves
  <2> QED BY <1>1, <2>1, OutputKept
<1>5. CASE a = r /\ Math(a, t)
  <2>1. UNCHANGED <<stage, launch>> BY <1>0, <1>5, MathOutputs
  <2>2. CASE ~Combine(r, t)
    <3>1. output' = output /\ \A x \in SMs : math'[r][x] = "done" => math[r][x] = "done"
      BY <1>0, <1>5, <2>2, MathOutputs
    <3> QED BY <1>1, <2>1, <3>1, OutputKept
  <2>3. CASE Combine(r, t)
    <3>1. /\ math[r][t] = "met" /\ gctr[r][4] >= NUM_SMS
          /\ \A x \in SMs \ {t} : math'[r][x] = math[r][x]
      BY <1>0, <2>3 DEF Combine, MathStep, AllIn, ShapeInv
    <3>2. InKernel(r) BY <1>0, <3>1 DEF ShapeInv, InKernel
    <3>3. \A j \in Wanted(launch[r], r) : Delivered(launch[r], r, j)
      BY <3>1, <3>2, AllComplete
    <3>4. ASSUME NEW u \in 0 .. NTOK(r) - 1, u % NUM_SMS = t
          PROVE  output'[r][u] = Exact(r, u)
      BY <2>3, <3>2, <3>3, <3>4, CombineExact
    <3>5. ASSUME NEW s \in SMs, s # t, NEW u \in 0 .. NTOK(r) - 1, u % NUM_SMS = s
          PROVE  output'[r][u] = output[r][u]
      <4>1. output' = [output EXCEPT ![r] = [x \in DOMAIN @ |->
              IF x < NTOK(r) /\ x % NUM_SMS = t
              THEN {combine[r][k * NTOK(r) + x] :
                      k \in {k \in 0 .. TOPK - 1 : Topk(r)[x * TOPK + k] >= 0}}
              ELSE @[x]]]
        BY <2>3 DEF Combine
      <4>2. output = [q \in Ranks |-> [x \in {Token(i) : i \in Routes} |-> output[q][x]]]
        BY <1>0 DEF ShapeInv
      <4>3. r \in DOMAIN output /\ u \in DOMAIN output[r]
        <5>1. launch[r] \in 1 .. MaxLaunches /\ NTOK(r) = Tokens(launch[r], r)
          BY <1>0, <3>2, TopkFacts DEF InKernel
        <5>2. u \in 0 .. Tokens(launch[r], r) - 1 BY <5>1
        <5>3. 0 \in 0 .. TOPK - 1 BY Sizes
        <5>4. u \in {Token(i) : i \in Routes} BY <1>0, <5>1, <5>2, <5>3, RouteOf
        <5> QED BY <4>2, <5>4
      <4> QED BY <3>5, <4>1, <4>3
    <3>6. NTOK(r)' = NTOK(r) /\ \A u : Exact(r, u)' = Exact(r, u)
      BY <1>1, <2>1 DEF NTOK, Topk, Exact, Result, Wanted
    <3>7. ASSUME NEW s \in SMs, math'[r][s] = "done",
                 NEW u \in 0 .. NTOK(r) - 1, u % NUM_SMS = s
          PROVE  output'[r][u] = Exact(r, u)
      <4>1. CASE s = t BY <3>4, <3>7, <4>1
      <4>2. CASE s # t
        <5>1. math[r][s] = "done" BY <3>1, <3>7, <4>2
        <5>2. output[r][u] = Exact(r, u) BY <3>2, <3>7, <5>1 DEF OutputInv, InKernel
        <5> QED BY <3>5, <3>7, <4>2, <5>2
      <4> QED BY <4>1, <4>2
    <3> QED BY <3>6, <3>7 DEF OutputInv
  <2> QED BY <2>2, <2>3
<1> QED BY <1>2, <1>3, <1>4, <1>5

\* Counts, rows, deliveries and sums.
ResultsInv == DispatchInv /\ \A r \in Ranks : ScatterInv(r) /\ OutputInv(r)

LEMMA ResultsInit == Init => ResultsInv
<1> SUFFICES ASSUME Init PROVE ResultsInv
  OBVIOUS
<1>1. \A r \in Ranks : stage[r] = "idle" BY DEF Init
<1>2. \A r \in Ranks : ScatterInv(r) /\ OutputInv(r)
  BY <1>1 DEF ScatterInv, OutputInv, InKernel
<1> QED BY <1>2, DispatchInit DEF ResultsInv

LEMMA ResultsStep ==
  ASSUME EqualTokens, ResultsInv, [Next]_vars PROVE ResultsInv'
<1>1. DispatchInv' BY DispatchStep DEF ResultsInv
<1>2. CASE UNCHANGED vars
  <2>1. UNCHANGED <<plans, launch, stage, queue, recv, rsum, staged, combine, output, math,
                    scattered>>
    BY <1>2 DEF vars, host, counts, results, roles
  <2>2. ASSUME NEW r \in Ranks PROVE ScatterInv(r)' /\ OutputInv(r)'
    <3>1. ScatterInv(r) /\ OutputInv(r) BY DEF ResultsInv
    <3>2. OutputInv(r)' BY <2>1, <3>1, OutputKept
    <3>3. /\ Order(r)' = Order(r) /\ Used(r)' = Used(r)
          /\ \A i : BlockAt(r, i)' = BlockAt(r, i) /\ Pulled(r, i)' = Pulled(r, i)
      BY <2>1, SamePool
    <3>4. \A q : /\ Wanted(launch[r], q)' = Wanted(launch[r], q)
                 /\ \A j : Delivered(launch[r], q, j)' <=> Delivered(launch[r], q, j)
      BY <2>1 DEF Wanted, Delivered, PlaceOf, Result, Tokens
    <3>5. Complete(r)' <=> Complete(r) BY <2>1, <3>4 DEF Complete, Owner
    <3>6. \A s : Mine(r, s)' = Mine(r, s) BY <3>3 DEF Mine
    <3>7. ScatterInv(r)' BY <2>1, <3>1, <3>3, <3>4, <3>5, <3>6 DEF ScatterInv, InKernel
    <3> QED BY <3>2, <3>7
  <2> QED BY <1>1, <2>2 DEF ResultsInv
<1>3. ASSUME NEW a \in Ranks, NEW t \in SMs, Host(a) \/ Dispatch(a, t) \/ Math(a, t)
      PROVE  ResultsInv'
  <2>1. DispatchInv /\ \A q \in Ranks : ScatterInv(q) /\ OutputInv(q) BY DEF ResultsInv
  <2>2. \A r \in Ranks : ScatterInv(r)' BY <1>3, <2>1, ScatterStep
  <2>3. \A r \in Ranks : OutputInv(r)' BY <1>3, <2>1, OutputStep
  <2> QED BY <1>1, <2>2, <2>3 DEF ResultsInv
<1> QED BY <1>2, <1>3, NextCases

\* When a launch is over every token has the results of exactly its own routes, if
\* the ranks of a launch have the same number of tokens: the place of a result is
\* computed from the number of tokens of the rank that scatters it.
THEOREM OutputIsExact ==
  ASSUME EqualTokens
  PROVE  Spec => []OutputExact
<1>1. Init => ResultsInv BY ResultsInit
<1>2. ResultsInv /\ [Next]_vars => ResultsInv' BY ResultsStep
<1>3. ResultsInv => OutputExact
  <2> SUFFICES ASSUME ResultsInv, NEW r \in Ranks, stage[r] = "close",
                      NEW t \in 0 .. NTOK(r) - 1
               PROVE  output[r][t] =
                        {[row |-> [launch |-> launch[r], rank |-> r, route |-> i],
                          expert |-> Topk(r)[i]] :
                            i \in {i \in DOMAIN Topk(r) : Token(i) = t /\ Topk(r)[i] >= 0}}
    BY DEF OutputExact
  <2>1. t % NUM_SMS \in SMs
    <3>1. t \in Nat OBVIOUS
    <3> QED BY <3>1, DivMod, Sizes DEF SMs
  <2>2. math[r][t % NUM_SMS] = "done"
    BY <2>1 DEF ResultsInv, DispatchInv, CountsInv, ControlInv, ShapeInv
  <2>3. output[r][t] = Exact(r, t) BY <2>1, <2>2 DEF ResultsInv, OutputInv
  <2>4. {j \in Wanted(launch[r], r) : Token(j) = t} =
          {i \in DOMAIN Topk(r) : Token(i) = t /\ Topk(r)[i] >= 0}
    BY DEF Wanted, Topk
  <2> QED BY <2>3, <2>4 DEF Exact, Result, Topk
<1> QED BY <1>1, <1>2, <1>3, PTL DEF Spec
=============================================================================
