------------------------- MODULE LamportAllReduceProof -------------------------
(***************************************************************************)
(* Proofs about LamportAllReduce, for every world size, grid, workspace    *)
(* and sequence of calls.                                                  *)
(***************************************************************************)
EXTENDS LamportAllReduce, FiniteSetTheorems, TLAPS

-----------------------------------------------------------------------------
(* The launch plan. *)

\* The product of two positive numbers is positive.
LEMMA PositiveProduct ==
    ASSUME NEW a \in Nat \ {0}, NEW b \in Nat \ {0}
    PROVE  a * b \in Nat \ {0}
  OBVIOUS

\* Every launch has at least program 0 and no more than the resident programs.
LEMMA GridBounds ==
    ASSUME NEW m \in Nat \ {0}
    PROVE  Grid(m) \in 1 .. ProgramLimit
  <1>1. m * TilesPerRow \in Nat \ {0}
    BY PositiveProduct, LayoutAssumption
  <1> QED
    BY <1>1, LayoutAssumption DEF Grid, Smaller

\* The grid of a payload does not change while the backend stays.
LEMMA GridFixed ==
    ASSUME backend' = backend
    PROVE  \A m : Grid(m)' = Grid(m)
  BY DEF Grid, ItemCount, Kernel, Smaller

\* Program 0 is resident.
LEMMA ProgramZero == 0 \in Programs
  BY LayoutAssumption DEF Programs

\* An element of a sequence is in the set the sequence is over.
LEMMA SequenceElement ==
    ASSUME NEW S, NEW s \in Seq(S), NEW k \in 1 .. Len(s)
    PROVE  s[k] \in S
  OBVIOUS

\* A call has at least one token.
LEMMA CallsArePositive ==
    ASSUME NEW m \in 1 .. MaxTokens
    PROVE  m \in Nat \ {0}
  BY LayoutAssumption

-----------------------------------------------------------------------------
(* The inductive invariant behind OneGeneration.  The programs of a launch *)
(* load state[] at different times; what makes them agree is that program  *)
(* 0 writes it only when the arrival counter says that all of them have    *)
(* loaded it, so the counter has to be tied to the program counters.       *)

Arrived(r) == {p \in Programs : p < GridOf(r) /\ pc[r][p] \notin {"load", "arrive"}}
Advanced(r) == pc[r][0] \in {"exit", "done"}
PayloadOf(n) == IF n = 0 THEN 0 ELSE calls[n] * TilesPerRow

ControlTypes ==
    /\ backend \in Backends
    /\ calls \in Seq(1 .. MaxTokens)
    /\ launch \in [Ranks -> Nat]
    /\ \A r \in Ranks : launch[r] <= Len(calls)
    /\ slot \in [Ranks -> Int]
    /\ numel \in [Ranks -> Int]
    /\ strategy \in [Ranks -> Int]
    /\ arrival \in [Ranks -> Int]
    /\ pc \in [Ranks -> [Programs -> Steps]]
    /\ snap \in [Ranks -> [Programs -> [slot : Int, numel : Int, strategy : Int]]]

\* Before program 0 has advanced the protocol the launch owns state[] ...
Unadvanced(r) ==
    /\ launch[r] > 0
    /\ arrival[r] = Cardinality(Arrived(r))
    /\ slot[r] = (launch[r] - 1) % 3
    /\ numel[r] = PayloadOf(launch[r] - 1)

\* ... and afterwards state[] is ready for the next launch.
ReadyForNext(r) ==
    /\ arrival[r] = 0
    /\ slot[r] = launch[r] % 3
    /\ numel[r] = PayloadOf(launch[r])
    /\ \A p \in Programs : pc[r][p] \notin {"load", "arrive"}

RankInv(r) ==
    /\ launch[r] = 0 => Idle(r)
    /\ launch[r] > 0 => \A p \in Programs : p >= GridOf(r) => pc[r][p] = "done"
    /\ ~Advanced(r) => Unadvanced(r)
    /\ Advanced(r) => ReadyForNext(r)
    /\ \A p \in Programs : pc[r][p] \notin {"done", "load"} =>
          /\ snap[r][p].slot = (launch[r] - 1) % 3
          /\ snap[r][p].numel = PayloadOf(launch[r] - 1)

GenerationInv == ControlTypes /\ \A r \in Ranks : RankInv(r)

-----------------------------------------------------------------------------

\* The set behind the arrival counter is finite, and has at most one element
\* for every program of the grid.
LEMMA ArrivedIsFinite ==
    ASSUME NEW r \in Ranks
    PROVE  IsFiniteSet(Arrived(r))
  <1>1. IsFiniteSet(Programs)
    BY LayoutAssumption, FS_Interval DEF Programs
  <1>2. Arrived(r) \subseteq Programs
    BY DEF Arrived
  <1> QED
    BY <1>1, <1>2, FS_Subset

\* When the arrival counter has reached the grid size, every program has
\* loaded the state of this launch.
LEMMA FullArrival ==
    ASSUME NEW r \in Ranks, GridOf(r) \in 1 .. ProgramLimit,
           Cardinality(Arrived(r)) = GridOf(r)
    PROVE  \A p \in Programs : p < GridOf(r) => pc[r][p] \notin {"load", "arrive"}
  <1> DEFINE All == 0 .. GridOf(r) - 1
  <1>1. IsFiniteSet(All) /\ Cardinality(All) = GridOf(r)
    BY FS_Interval
  <1>2. Arrived(r) \subseteq All
    BY DEF Arrived, Programs
  <1>3. Arrived(r) = All
    BY <1>1, <1>2, FS_Subset
  <1> QED
    BY <1>3 DEF Arrived, Programs

LEMMA GenerationInit == Init => GenerationInv
  <1> SUFFICES ASSUME Init PROVE GenerationInv
    OBVIOUS
  <1>1. ControlTypes
    BY DEF Init, ControlTypes, Steps
  <1>2. ASSUME NEW r \in Ranks PROVE RankInv(r)
    BY <1>2, ProgramZero DEF Init, RankInv, Idle, Advanced, ReadyForNext, PayloadOf
  <1> QED
    BY <1>1, <1>2 DEF GenerationInv

\* The size of the call a rank is in.
LEMMA CurrentCall ==
    ASSUME ControlTypes, NEW r \in Ranks, launch[r] > 0
    PROVE  M(r) \in 1 .. MaxTokens /\ GridOf(r) \in 1 .. ProgramLimit
  <1>1. launch[r] \in 1 .. Len(calls)
    BY DEF ControlTypes
  <1>2. M(r) \in 1 .. MaxTokens
    <2>1. calls \in Seq(1 .. MaxTokens)
      BY DEF ControlTypes
    <2>2. calls[launch[r]] \in 1 .. MaxTokens
      BY <1>1, <2>1, SequenceElement
    <2> QED
      BY <2>2 DEF M
  <1>3. M(r) \in Nat \ {0}
    BY <1>2, CallsArePositive
  <1>4. Grid(M(r)) \in 1 .. ProgramLimit
    <2>1. M(r) * TilesPerRow \in Nat \ {0}
      BY <1>3, PositiveProduct, LayoutAssumption
    <2> QED
      BY <1>3, <2>1, LayoutAssumption DEF Grid, Smaller
  <1> QED
    BY <1>2, <1>4 DEF GridOf

\* A launch begins in the state the launch before it has left.
LEMMA GenerationStart ==
    ASSUME GenerationInv, NEW r \in Ranks, Start(r)
    PROVE  GenerationInv'
  <1> DEFINE n == launch[r] + 1
             m == calls'[n]
  <1>1. /\ calls' \in Seq(1 .. MaxTokens)
        /\ Len(calls) <= Len(calls') /\ n <= Len(calls')
        /\ \A i \in 1 .. Len(calls) : calls'[i] = calls[i]
    <2>1. CASE launch[r] < Len(calls)
      BY <2>1 DEF Start, GenerationInv, ControlTypes
    <2>2. CASE ~(launch[r] < Len(calls))
      <3>1. PICK k \in TokenCounts[backend] : calls' = Append(calls, k)
        BY <2>2 DEF Start
      <3>4. k \in 1 .. MaxTokens
        BY <3>1, CallAssumption DEF GenerationInv, ControlTypes
      <3>2. calls \in Seq(1 .. MaxTokens) /\ launch[r] = Len(calls)
        BY <2>2 DEF GenerationInv, ControlTypes
      <3>3. /\ calls' \in Seq(1 .. MaxTokens) /\ Len(calls') = Len(calls) + 1
            /\ \A i \in 1 .. Len(calls) : calls'[i] = calls[i]
        BY <3>1, <3>2, <3>4
      <3> QED
        BY <3>2, <3>3
    <2> QED
      BY <2>1, <2>2
  <1>2. launch' = [launch EXCEPT ![r] = n] /\ launch[r] \in Nat /\ n \in Nat
    BY DEF Start, GenerationInv, ControlTypes
  <1>3. m \in 1 .. MaxTokens /\ Grid(m) \in 1 .. ProgramLimit
    <2>1. n \in 1 .. Len(calls')
      BY <1>1, <1>2 DEF GenerationInv, ControlTypes
    <2>4. m \in 1 .. MaxTokens
      BY <1>1, <2>1, SequenceElement
    <2>2. m \in Nat \ {0}
      BY <2>4, CallsArePositive
    <2>3. m * TilesPerRow \in Nat \ {0}
      BY <2>2, PositiveProduct, LayoutAssumption
    <2> QED
      BY <2>4, <2>2, <2>3, LayoutAssumption DEF Grid, Smaller
  <1>4. pc' = [pc EXCEPT ![r] = [p \in Programs |-> IF p < Grid(m) THEN "load" ELSE "done"]]
    BY <1>2 DEF Start, GenerationInv, ControlTypes, Grid, Kernel, Smaller
  <1> DEFINE g == Grid(m)
  <1>8. backend' = backend /\ UNCHANGED <<slot, numel, strategy, arrival, snap>>
    BY DEF Start, state
  <1>9. \A x : Grid(x)' = Grid(x)
    BY <1>8, GridFixed
  <1>5. ControlTypes'
    <2>1. pc' = [pc EXCEPT ![r] = [p \in Programs |-> IF p < g THEN "load" ELSE "done"]]
      BY <1>4
    <2> HIDE DEF m, n, g
    <2>2. pc' \in [Ranks -> [Programs -> Steps]]
      BY <2>1 DEF GenerationInv, ControlTypes, Steps
    <2>3. \A q \in Ranks : launch'[q] \in Nat /\ launch'[q] <= Len(calls')
      BY <1>1, <1>2 DEF GenerationInv, ControlTypes
    <2>4. launch' \in [Ranks -> Nat]
      BY <1>2 DEF GenerationInv, ControlTypes
    <2> QED
      BY <1>1, <1>8, <2>2, <2>3, <2>4 DEF GenerationInv, ControlTypes
  <1>6. ASSUME NEW q \in Ranks, q # r PROVE RankInv(q)'
    <2>1. launch'[q] = launch[q] /\ pc'[q] = pc[q]
      BY <1>2, <1>4, <1>6 DEF GenerationInv, ControlTypes
    <2>2. launch[q] \in Nat /\ launch[q] <= Len(calls)
      BY DEF GenerationInv, ControlTypes
    <2>3. launch[q] > 0 => calls'[launch[q]] = calls[launch[q]]
      BY <1>1, <2>2 DEF GenerationInv, ControlTypes
    <2>4. launch[q] - 1 > 0 => calls'[launch[q] - 1] = calls[launch[q] - 1]
      <3>1. calls \in Seq(1 .. MaxTokens) /\ Len(calls) \in Nat
        BY DEF GenerationInv, ControlTypes
      <3> QED
        BY <1>1, <2>2, <3>1
    <2>5. launch[q] > 0 => GridOf(q)' = GridOf(q) /\ Arrived(q)' = Arrived(q)
      BY <1>9, <2>1, <2>3 DEF GridOf, M, Arrived
    <2>6. PayloadOf(launch[q])' = PayloadOf(launch[q])
      BY <2>1, <2>3, <2>2 DEF PayloadOf
    <2>7. launch[q] > 0 => PayloadOf(launch[q] - 1)' = PayloadOf(launch[q] - 1)
      BY <2>1, <2>4, <2>2 DEF PayloadOf
    <2>8. launch[q] = 0 => \A p \in Programs : pc[q][p] = "done"
      BY DEF GenerationInv, RankInv, Idle
    <2> QED
      BY <2>1, <2>2, <2>5, <2>6, <2>7, <2>8
      DEF Start, state, GenerationInv, RankInv, Idle, Advanced, Unadvanced, ReadyForNext
  <1>7. RankInv(r)'
    <2>1. pc[r][0] = "done" /\ ReadyForNext(r)
      BY ProgramZero DEF Start, Idle, GenerationInv, RankInv, Advanced
    <2>2. launch'[r] = n /\ M(r)' = m /\ GridOf(r)' = Grid(m)
      BY <1>2, <1>9 DEF GenerationInv, ControlTypes, M, GridOf
    <2>3. \A p \in Programs : pc'[r][p] = IF p < Grid(m) THEN "load" ELSE "done"
      BY <1>4 DEF GenerationInv, ControlTypes
    <2>4. Arrived(r)' = {}
      BY <2>2, <2>3 DEF Arrived
    <2>5. arrival'[r] = Cardinality(Arrived(r))'
      BY <2>1, <2>4, FS_EmptySet DEF Start, state, ReadyForNext
    <2>6. launch[r] > 0 => calls'[launch[r]] = calls[launch[r]]
      BY <1>1 DEF GenerationInv, ControlTypes
    <2>7. launch'[r] - 1 = launch[r] /\ launch'[r] > 0
      BY <1>2, <2>2
    <2>8. PayloadOf(launch[r] - 1)' = PayloadOf(launch[r])
      BY <1>2, <2>6, <2>7 DEF PayloadOf
    <2>9. slot' = slot /\ numel' = numel
      BY DEF Start, state
    <2>10. Unadvanced(r)'
      BY <2>1, <2>5, <2>7, <2>8, <2>9 DEF ReadyForNext, Unadvanced
    <2>11. ~Advanced(r)'
      BY <1>3, <2>3, ProgramZero DEF Advanced
    <2>12. \A p \in Programs : p >= Grid(m) => pc'[r][p] = "done"
      BY <1>3, <2>3 DEF Programs
    <2> HIDE DEF m, n
    <2> QED
      BY <2>2, <2>3, <2>7, <2>10, <2>11, <2>12 DEF RankInv
  <1> QED
    BY <1>5, <1>6, <1>7 DEF GenerationInv

\* Steps that touch neither the calls nor state[0..2] nor a snapshot, and move
\* a program that has arrived from one place of its code to another.
GenerationVars == <<backend, calls, launch, slot, numel, strategy, arrival, snap>>

LEMMA GenerationQuiet ==
    ASSUME GenerationInv, NEW r \in Ranks, NEW p \in Programs,
           UNCHANGED GenerationVars,
           pc[r][p] \notin {"load", "arrive", "done"},
           NEW x \in Steps \ {"load", "arrive"},
           pc' = [pc EXCEPT ![r][p] = x],
           x = "exit" => p # 0,
           x = "done" => (p = 0 => pc[r][p] = "exit"),
           pc[r][p] = "exit" => (p = 0 => x = "done")
    PROVE  GenerationInv'
  <1>1. ControlTypes'
    BY DEF GenerationInv, ControlTypes, GenerationVars
  <1>2. /\ pc'[r][p] = x
        /\ \A q \in Ranks, o \in Programs : ~(q = r /\ o = p) => pc'[q][o] = pc[q][o]
    BY DEF GenerationInv, ControlTypes
  <1>3. ASSUME NEW q \in Ranks PROVE RankInv(q)'
    <2>1. /\ launch'[q] = launch[q] /\ slot'[q] = slot[q] /\ numel'[q] = numel[q]
          /\ arrival'[q] = arrival[q] /\ snap'[q] = snap[q] /\ calls' = calls
          /\ backend' = backend
      BY DEF GenerationVars
    <2>2. GridOf(q)' = GridOf(q) /\ PayloadOf(launch[q])' = PayloadOf(launch[q])
          /\ PayloadOf(launch[q] - 1)' = PayloadOf(launch[q] - 1)
      BY <2>1, GridFixed DEF GridOf, M, PayloadOf
    <2>3. Arrived(q)' = Arrived(q)
      BY <1>2, <2>2 DEF Arrived
    <2>4. Advanced(q)' <=> Advanced(q)
      BY <1>2, ProgramZero DEF Advanced
    <2>5. q = r => launch[q] > 0 /\ p < GridOf(r)
      <3>1. launch[r] \in Nat /\ RankInv(r)
        BY DEF GenerationInv, ControlTypes
      <3>2. launch[r] > 0
        BY <3>1 DEF RankInv, Idle
      <3>3. GridOf(r) \in 1 .. ProgramLimit
        BY <3>2, CurrentCall DEF GenerationInv
      <3>4. ~(p >= GridOf(r))
        BY <3>1, <3>2 DEF RankInv
      <3> QED
        BY <3>2, <3>3, <3>4 DEF Programs
    <2>6. RankInv(q)
      BY DEF GenerationInv
    <2>7. launch[q] = 0 => Idle(q)'
      BY <1>2, <2>5, <2>6 DEF RankInv, Idle
    <2>8. launch[q] > 0 => \A o \in Programs : o >= GridOf(q) => pc'[q][o] = "done"
      BY <1>2, <2>5, <2>6 DEF RankInv, Programs
    <2>9. ~Advanced(q) => Unadvanced(q)'
      BY <2>1, <2>2, <2>3, <2>6 DEF RankInv, Unadvanced
    <2>10. Advanced(q) => ReadyForNext(q)'
      BY <1>2, <2>1, <2>2, <2>6 DEF RankInv, ReadyForNext
    <2>11. \A o \in Programs : pc'[q][o] \notin {"done", "load"} =>
              /\ snap[q][o].slot = (launch[q] - 1) % 3
              /\ snap[q][o].numel = PayloadOf(launch[q] - 1)
      BY <1>2, <2>6 DEF RankInv
    <2> QED
      BY <2>1, <2>2, <2>4, <2>7, <2>8, <2>9, <2>10, <2>11 DEF RankInv
  <1> QED
    BY <1>1, <1>3 DEF GenerationInv

\* Steps that touch memory only.
LEMMA GenerationStutter ==
    ASSUME GenerationInv, UNCHANGED GenerationVars, UNCHANGED pc
    PROVE  GenerationInv'
  <1>1. \A m : Grid(m)' = Grid(m)
    BY GridFixed DEF GenerationVars
  <1>2. \A r \in Ranks : GridOf(r)' = GridOf(r) /\ Arrived(r)' = Arrived(r)
    BY <1>1 DEF GenerationVars, GridOf, M, Arrived
  <1> QED
    BY <1>2 DEF GenerationInv, GenerationVars, ControlTypes, RankInv, Idle,
                Advanced, Unadvanced, ReadyForNext, PayloadOf

\* A program loads what the launch before has left: program 0 cannot have
\* advanced yet, since this program is not counted as arrived.
LEMMA GenerationLoad ==
    ASSUME GenerationInv, NEW r \in Ranks, NEW p \in Programs, Load(r, p)
    PROVE  GenerationInv'
  <1>1. ControlTypes'
    BY DEF Load, control, state, GenerationInv, ControlTypes, Steps
  <1>2. /\ pc'[r][p] = "arrive" /\ pc[r][p] = "load"
        /\ \A q \in Ranks, o \in Programs : ~(q = r /\ o = p) =>
              pc'[q][o] = pc[q][o] /\ snap'[q][o] = snap[q][o]
        /\ snap'[r][p].slot = slot[r] /\ snap'[r][p].numel = numel[r]
    BY DEF Load, GenerationInv, ControlTypes
  <1>3. Unadvanced(r)
    BY <1>2 DEF GenerationInv, RankInv, ReadyForNext
  <1>4. ASSUME NEW q \in Ranks PROVE RankInv(q)'
    <2>1. /\ launch'[q] = launch[q] /\ slot'[q] = slot[q] /\ numel'[q] = numel[q]
          /\ arrival'[q] = arrival[q] /\ calls' = calls /\ backend' = backend
      BY DEF Load, control, state
    <2>2. GridOf(q)' = GridOf(q) /\ PayloadOf(launch[q])' = PayloadOf(launch[q])
          /\ PayloadOf(launch[q] - 1)' = PayloadOf(launch[q] - 1)
      BY <2>1, GridFixed DEF GridOf, M, PayloadOf
    <2>3. Arrived(q)' = Arrived(q)
      BY <1>2, <2>2 DEF Arrived
    <2>4. Advanced(q)' <=> Advanced(q)
      BY <1>2, ProgramZero DEF Advanced
    <2>6. RankInv(q)
      BY DEF GenerationInv
    <2>5. q = r => launch[q] > 0 /\ ~(p >= GridOf(r))
      BY <1>2, <1>3, <2>6 DEF RankInv, Unadvanced
    <2>7. launch[q] = 0 => Idle(q)'
      BY <1>2, <2>5, <2>6 DEF RankInv, Idle
    <2>8. launch[q] > 0 => \A o \in Programs : o >= GridOf(q) => pc'[q][o] = "done"
      BY <1>2, <2>5, <2>6 DEF RankInv
    <2>9. ~Advanced(q) => Unadvanced(q)'
      BY <2>1, <2>2, <2>3, <2>6 DEF RankInv, Unadvanced
    <2>10. Advanced(q) => ReadyForNext(q)'
      BY <1>2, <2>1, <2>2, <2>6 DEF RankInv, ReadyForNext
    <2>11. \A o \in Programs : pc'[q][o] \notin {"done", "load"} =>
              /\ snap'[q][o].slot = (launch[q] - 1) % 3
              /\ snap'[q][o].numel = PayloadOf(launch[q] - 1)
      BY <1>2, <1>3, <2>6 DEF RankInv, Unadvanced
    <2> QED
      BY <2>1, <2>2, <2>4, <2>7, <2>8, <2>9, <2>10, <2>11 DEF RankInv
  <1> QED
    BY <1>1, <1>4 DEF GenerationInv

\* The counter counts one program more.
LEMMA GenerationArrive ==
    ASSUME GenerationInv, NEW r \in Ranks, NEW p \in Programs, Arrive(r, p)
    PROVE  GenerationInv'
  <1>1. ControlTypes'
    BY DEF Arrive, control, GenerationInv, ControlTypes, Steps
  <1>2. /\ pc'[r][p] = "push" /\ pc[r][p] = "arrive" /\ arrival'[r] = arrival[r] + 1
        /\ \A q \in Ranks : q # r => pc'[q] = pc[q] /\ arrival'[q] = arrival[q]
        /\ \A q \in Ranks, o \in Programs : ~(q = r /\ o = p) => pc'[q][o] = pc[q][o]
    BY DEF Arrive, GenerationInv, ControlTypes
  <1>3. Unadvanced(r)
    BY <1>2 DEF GenerationInv, RankInv, ReadyForNext
  <1>4. ASSUME NEW q \in Ranks PROVE RankInv(q)'
    <2>1. /\ launch'[q] = launch[q] /\ slot'[q] = slot[q] /\ numel'[q] = numel[q]
          /\ snap'[q] = snap[q] /\ calls' = calls /\ backend' = backend
      BY DEF Arrive, control
    <2>2. GridOf(q)' = GridOf(q) /\ PayloadOf(launch[q])' = PayloadOf(launch[q])
          /\ PayloadOf(launch[q] - 1)' = PayloadOf(launch[q] - 1)
      BY <2>1, GridFixed DEF GridOf, M, PayloadOf
    <2>4. Advanced(q)' <=> Advanced(q)
      BY <1>2, ProgramZero DEF Advanced
    <2>6. RankInv(q)
      BY DEF GenerationInv
    <2>5. q = r => launch[q] > 0 /\ ~(p >= GridOf(r))
      BY <1>2, <1>3, <2>6 DEF RankInv, Unadvanced
    <2>3. q = r => arrival'[q] = Cardinality(Arrived(q))'
      <3> SUFFICES ASSUME q = r PROVE arrival'[r] = Cardinality(Arrived(r)')
        OBVIOUS
      <3>1. launch[r] \in Nat /\ calls \in Seq(1 .. MaxTokens) /\ launch[r] <= Len(calls)
        BY DEF GenerationInv, ControlTypes
      <3>2. GridOf(r) \in 1 .. ProgramLimit
        BY <2>5, CurrentCall DEF GenerationInv
      <3>3. p < GridOf(r)
        BY <2>5, <3>2 DEF Programs
      <3>4. Arrived(r)' = Arrived(r) \cup {p} /\ p \notin Arrived(r)
        BY <1>2, <2>2, <3>3 DEF Arrived
      <3>5. Cardinality(Arrived(r)') = Cardinality(Arrived(r)) + 1
        BY <3>4, ArrivedIsFinite, FS_AddElement
      <3> QED
        BY <1>2, <1>3, <3>5 DEF Unadvanced
    <2>7. launch[q] = 0 => Idle(q)'
      BY <1>2, <2>5, <2>6 DEF RankInv, Idle
    <2>8. launch[q] > 0 => \A o \in Programs : o >= GridOf(q) => pc'[q][o] = "done"
      BY <1>2, <2>5, <2>6 DEF RankInv
    <2>12. q # r => Arrived(q)' = Arrived(q)
      BY <1>2, <2>2 DEF Arrived
    <2>9. ~Advanced(q) => Unadvanced(q)'
      BY <1>2, <2>1, <2>2, <2>3, <2>6, <2>12 DEF RankInv, Unadvanced
    <2>13. q = r => ~Advanced(q)
      BY <1>2, <2>6 DEF RankInv, ReadyForNext
    <2>10. Advanced(q) => ReadyForNext(q)'
      BY <1>2, <2>1, <2>2, <2>6, <2>13 DEF RankInv, ReadyForNext
    <2>11. \A o \in Programs : pc'[q][o] \notin {"done", "load"} =>
              /\ snap[q][o].slot = (launch[q] - 1) % 3
              /\ snap[q][o].numel = PayloadOf(launch[q] - 1)
      BY <1>2, <2>6 DEF RankInv
    <2> QED
      BY <2>1, <2>2, <2>4, <2>7, <2>8, <2>9, <2>10, <2>11 DEF RankInv
  <1> QED
    BY <1>1, <1>4 DEF GenerationInv

\* Program 0 stores the state of the next launch when no program of this one
\* still has to load it.
LEMMA GenerationAdvance ==
    ASSUME GenerationInv, NEW r \in Ranks, Advance(r)
    PROVE  GenerationInv'
  <1> USE DEF Advance, AdvanceBy, AllArrived, NewNumel, NewStrategy
  <1>1. /\ pc'[r][0] = "exit" /\ pc[r][0] = "finish"
        /\ \A q \in Ranks : q # r => /\ pc'[q] = pc[q] /\ arrival'[q] = arrival[q]
                                     /\ slot'[q] = slot[q] /\ numel'[q] = numel[q]
        /\ \A o \in Programs : o # 0 => pc'[r][o] = pc[r][o]
        /\ arrival'[r] = 0 /\ slot'[r] = (snap[r][0].slot + 1) % 3
        /\ numel'[r] = M(r) * TilesPerRow
    BY ProgramZero DEF GenerationInv, ControlTypes
  <1>2. RankInv(r) /\ Unadvanced(r)
    BY <1>1 DEF GenerationInv, RankInv, Advanced
  <1>3. M(r) \in 1 .. MaxTokens /\ GridOf(r) \in 1 .. ProgramLimit
    BY <1>2, CurrentCall DEF GenerationInv, Unadvanced
  <1>4. launch[r] \in Nat /\ launch[r] > 0
    BY <1>2 DEF GenerationInv, ControlTypes, Unadvanced
  <1>5. ControlTypes'
    <2>1. M(r) * TilesPerRow \in Int
      BY <1>3, CallsArePositive, LayoutAssumption
    <2>2. NewStrategy(r) \in Int
      BY DEF Strategy, GenerationInv, ControlTypes
    <2>3. (snap[r][0].slot + 1) % 3 \in Int
      BY ProgramZero DEF GenerationInv, ControlTypes
    <2> QED
      BY <2>1, <2>2, <2>3, ProgramZero DEF control, GenerationInv, ControlTypes, Steps
  <1>6. ASSUME NEW q \in Ranks, q # r PROVE RankInv(q)'
    <2>1. /\ launch'[q] = launch[q] /\ snap'[q] = snap[q] /\ calls' = calls /\ backend' = backend
          /\ pc'[q] = pc[q] /\ arrival'[q] = arrival[q]
          /\ slot'[q] = slot[q] /\ numel'[q] = numel[q]
      BY <1>1, <1>6 DEF control
    <2>2. GridOf(q)' = GridOf(q) /\ PayloadOf(launch[q])' = PayloadOf(launch[q])
          /\ PayloadOf(launch[q] - 1)' = PayloadOf(launch[q] - 1)
      BY <2>1, GridFixed DEF GridOf, M, PayloadOf
    <2>3. Arrived(q)' = Arrived(q) /\ (Advanced(q)' <=> Advanced(q))
      BY <2>1, <2>2 DEF Arrived, Advanced
    <2>4. RankInv(q)
      BY DEF GenerationInv
    <2>5. ~Advanced(q) => Unadvanced(q)'
      BY <2>1, <2>2, <2>3, <2>4 DEF RankInv, Unadvanced
    <2>6. Advanced(q) => ReadyForNext(q)'
      BY <2>1, <2>2, <2>4 DEF RankInv, ReadyForNext
    <2> HIDE DEF Advance
    <2> QED
      BY <2>1, <2>2, <2>3, <2>4, <2>5, <2>6 DEF RankInv, Idle
  <1>7. RankInv(r)'
    <2>1. launch' = launch /\ calls' = calls /\ snap' = snap /\ backend' = backend
      BY DEF control
    <2>2. GridOf(r)' = GridOf(r) /\ PayloadOf(launch[r])' = PayloadOf(launch[r])
          /\ PayloadOf(launch[r] - 1)' = PayloadOf(launch[r] - 1)
      BY <2>1, GridFixed DEF GridOf, M, PayloadOf
    <2>3. \A o \in Programs : pc[r][o] \notin {"load", "arrive"}
      <3>1. \A o \in Programs : o < GridOf(r) => pc[r][o] \notin {"load", "arrive"}
        BY <1>2, <1>3, FullArrival DEF Unadvanced
      <3>2. \A o \in Programs : o >= GridOf(r) => pc[r][o] = "done"
        BY <1>2, <1>4 DEF RankInv
      <3> QED
        BY <1>3, <3>1, <3>2 DEF Programs
    <2>4. slot'[r] = launch[r] % 3
      <3>1. snap[r][0].slot = (launch[r] - 1) % 3
        BY <1>1, <1>2, ProgramZero DEF RankInv
      <3> QED
        BY <1>1, <1>4, <3>1
    <2>5. numel'[r] = PayloadOf(launch[r])
      BY <1>1, <1>4 DEF PayloadOf, M
    <2>6. Advanced(r)' /\ ReadyForNext(r)'
      BY <1>1, <2>1, <2>2, <2>3, <2>4, <2>5 DEF Advanced, ReadyForNext
    <2>7. \A o \in Programs : pc'[r][o] \notin {"done", "load"} => pc[r][o] \notin {"done", "load"}
      BY <1>1
    <2>8. \A o \in Programs : o >= GridOf(r) => pc'[r][o] = "done"
      BY <1>1, <1>2, <1>3, <1>4 DEF RankInv
    <2> QED
      BY <1>2, <1>4, <2>1, <2>2, <2>6, <2>7, <2>8 DEF RankInv
  <1> QED
    BY <1>5, <1>6, <1>7 DEF GenerationInv

\* A work loop is left for the next one.
LEMMA GenerationLeave ==
    ASSUME GenerationInv, NEW r \in Ranks, NEW p \in Programs,
           NEW step \in Steps \ {"load", "arrive", "done", "exit"},
           NEW next \in Steps \ {"load", "arrive", "done", "exit"},
           NEW count, Leave(r, p, step, count, next)
    PROVE  GenerationInv'
  <1>1. UNCHANGED GenerationVars
    BY DEF Leave, GenerationVars, control, state
  <1>2. pc[r][p] = step /\ pc' = [pc EXCEPT ![r][p] = next]
    BY DEF Leave
  <1> QED
    BY <1>1, <1>2, GenerationQuiet

LEMMA GenerationStep ==
    ASSUME GenerationInv, NEW r \in Ranks, NEW p \in Programs, Step(r, p)
    PROVE  GenerationInv'
  <1>1. CASE Load(r, p)
    BY <1>1, GenerationLoad
  <1>2. CASE Arrive(r, p)
    BY <1>2, GenerationArrive
  <1>3. CASE Push(r, p)
    BY <1>3, GenerationStutter DEF Push, GenerationVars, control, state
  <1>4. CASE EndPush(r, p)
    BY <1>4, GenerationLeave DEF EndPush, Steps
  <1>5. CASE Reduce(r, p)
    BY <1>5, GenerationStutter DEF Reduce, GenerationVars, control, state
  <1>6. CASE EndReduce(r, p)
    <2>1. KernelOf(r) = "tiled" \/ KernelOf(r) # "tiled"
      OBVIOUS
    <2>2. CASE KernelOf(r) = "tiled"
      BY <1>6, <2>2, GenerationLeave DEF EndReduce, Steps
    <2>3. CASE KernelOf(r) # "tiled"
      BY <1>6, <2>3, GenerationLeave DEF EndReduce, Steps
    <2> QED
      BY <2>1, <2>2, <2>3
  <1>7. CASE ReduceOwned(r, p)
    BY <1>7, GenerationStutter DEF ReduceOwned, GenerationVars, control, state
  <1>8. CASE EndReduceOwned(r, p)
    BY <1>8, GenerationLeave DEF EndReduceOwned, Steps
  <1>9. CASE Consume(r, p)
    BY <1>9, GenerationStutter DEF Consume, GenerationVars, control, state
  <1>10. CASE EndConsume(r, p)
    BY <1>10, GenerationLeave DEF EndConsume, Steps
  <1>11. CASE PhaseArrive(r, p)
    <2>1. UNCHANGED GenerationVars
      BY <1>11 DEF PhaseArrive, GenerationVars, control
    <2> QED
      <3>1. pc[r][p] = "phase" /\ pc' = [pc EXCEPT ![r][p] = "spin"]
        BY <1>11 DEF PhaseArrive
      <3>2. "spin" \in Steps \ {"load", "arrive"}
        BY DEF Steps
      <3> QED
        BY <2>1, <3>1, <3>2, GenerationQuiet
  <1>12. CASE PhaseLeave(r, p)
    <2>1. UNCHANGED GenerationVars
      BY <1>12 DEF PhaseLeave, GenerationVars, control, state
    <2> QED
      <3>1. pc[r][p] = "spin" /\ pc' = [pc EXCEPT ![r][p] = "norm"]
        BY <1>12 DEF PhaseLeave
      <3>2. "norm" \in Steps \ {"load", "arrive"}
        BY DEF Steps
      <3> QED
        BY <2>1, <3>1, <3>2, GenerationQuiet
  <1>13. CASE Normalize(r, p)
    BY <1>13, GenerationStutter DEF Normalize, GenerationVars, control, state
  <1>14. CASE EndNormalize(r, p)
    BY <1>14, GenerationLeave DEF EndNormalize, Steps
  <1>15. CASE Advance(r)
    BY <1>15, GenerationAdvance
  <1>16. CASE Exit(r, p)
    <2>1. UNCHANGED GenerationVars
      BY <1>16 DEF Exit, GenerationVars, control, state
    <2> QED
      BY <1>16, <2>1, GenerationQuiet DEF Exit, Steps
  <1> QED
    BY <1>1, <1>2, <1>3, <1>4, <1>5, <1>6, <1>7, <1>8, <1>9, <1>10, <1>11, <1>12,
       <1>13, <1>14, <1>15, <1>16 DEF Step

LEMMA GenerationNext == GenerationInv /\ [Next]_vars => GenerationInv'
  <1> SUFFICES ASSUME GenerationInv, [Next]_vars PROVE GenerationInv'
    OBVIOUS
  <1>1. ASSUME NEW r \in Ranks, Start(r) PROVE GenerationInv'
    BY <1>1, GenerationStart
  <1>2. ASSUME NEW r \in Ranks, NEW p \in Programs, Step(r, p) PROVE GenerationInv'
    BY <1>2, GenerationStep
  <1>3. ASSUME NEW r \in Ranks, NEW p \in Programs, Land(r, p) PROVE GenerationInv'
    BY <1>3, GenerationStutter DEF Land, GenerationVars, control, state
  <1>4. ASSUME NEW r \in Ranks, NEW p \in Programs, Clear(r, p) PROVE GenerationInv'
    BY <1>4, GenerationStutter DEF Clear, GenerationVars, control, state
  <1>5. CASE UNCHANGED vars
    BY <1>5, GenerationStutter DEF vars, GenerationVars
  <1> QED
    BY <1>1, <1>2, <1>3, <1>4, <1>5 DEF Next, Terminated

\* All programs of a launch work in the slot (launch - 1) % 3 and clear what
\* the launch before it wrote: program 0's stores to state[1..2] never reach a
\* program of the same launch (the snapshot at the top of every kernel).
THEOREM GenerationAgreement == Spec => []OneGeneration
  <1>1. Init => GenerationInv
    BY GenerationInit
  <1>2. GenerationInv /\ [Next]_vars => GenerationInv'
    BY GenerationNext
  <1>3. GenerationInv => OneGeneration
    <2> SUFFICES ASSUME GenerationInv, NEW r \in Ranks, NEW p \in Programs,
                        pc[r][p] \notin {"done", "load"}
                 PROVE  /\ snap[r][p].slot = (launch[r] - 1) % 3
                        /\ snap[r][p].numel = IF launch[r] = 1 THEN 0
                                              ELSE calls[launch[r] - 1] * TilesPerRow
      BY DEF OneGeneration
    <2>1. launch[r] \in Nat
      BY DEF GenerationInv, ControlTypes
    <2> QED
      BY <2>1 DEF GenerationInv, RankInv, PayloadOf
  <1> QED
    BY <1>1, <1>2, <1>3, PTL DEF Spec

-----------------------------------------------------------------------------
(***************************************************************************)
(* The payload: where it lies, who has sent it, who has read it and who    *)
(* clears it.                                                              *)
(***************************************************************************)
-----------------------------------------------------------------------------
(* Arithmetic of mixed radix: an index is a high digit and a low digit. *)

\* Multiplication by a natural number keeps the order.
LEMMA ProductOrder ==
    ASSUME NEW a \in Int, NEW b \in Int, NEW n \in Nat, a <= b
    PROVE  a * n <= b * n
  <1>1. PICK d \in Nat : b = a + d
    <2>1. b - a \in Nat /\ b = a + (b - a)
      OBVIOUS
    <2> QED
      BY <2>1
  <1>2. d * n \in Nat
    OBVIOUS
  <1>3. b * n = a * n + d * n
    BY <1>1
  <1> QED
    BY <1>2, <1>3

\* Both digits of an index are determined by it.
LEMMA Digits ==
    ASSUME NEW a \in Int, NEW b \in Int, NEW n \in Nat,
           NEW x \in 0 .. n - 1, NEW y \in 0 .. n - 1,
           a * n + x = b * n + y
    PROVE  a = b /\ x = y
  <1>1. ASSUME NEW e \in Int, NEW f \in Int, NEW u \in 0 .. n - 1, NEW v \in 0 .. n - 1,
               e * n + u = f * n + v
        PROVE  ~(e < f)
    <2> SUFFICES ASSUME e < f PROVE FALSE
      OBVIOUS
    <2>1. (e + 1) * n <= f * n
      <3>1. e + 1 \in Int /\ e + 1 <= f
        OBVIOUS
      <3> QED
        BY <3>1, ProductOrder
    <2>2. (e + 1) * n = e * n + n
      OBVIOUS
    <2>3. e * n \in Int /\ f * n \in Int
      OBVIOUS
    <2> QED
      BY <1>1, <2>1, <2>2, <2>3
  <1>2. ~(a < b) /\ ~(b < a)
    BY <1>1
  <1>3. a = b
    BY <1>2
  <1>4. a * n \in Int
    OBVIOUS
  <1> QED
    BY <1>3, <1>4

\* The number with the high digit a and the low digit x, in radix n.
Number(a, x, n) == a * n + x

\* The same, of numbers.
LEMMA NumbersDiffer ==
    ASSUME NEW a \in Int, NEW b \in Int, NEW n \in Nat,
           NEW x \in 0 .. n - 1, NEW y \in 0 .. n - 1,
           Number(a, x, n) = Number(b, y, n)
    PROVE  a = b /\ x = y
  BY Digits DEF Number

\* A high digit below k makes an index below k * n.
LEMMA DigitsBound ==
    ASSUME NEW k \in Nat, NEW n \in Nat, NEW a \in 0 .. k - 1, NEW x \in 0 .. n - 1
    PROVE  a * n + x \in 0 .. k * n - 1
  <1>1. a * n \in Nat /\ k * n \in Nat
    OBVIOUS
  <1>2. (a + 1) * n <= k * n
    <2>1. a + 1 \in Int /\ a + 1 <= k
      OBVIOUS
    <2> QED
      BY <2>1, ProductOrder
  <1>3. (a + 1) * n = a * n + n
    OBVIOUS
  <1> QED
    BY <1>1, <1>2, <1>3

\* The high digit of an index below k * n.
LEMMA DigitsOf ==
    ASSUME NEW k \in Nat, NEW n \in Nat, NEW w \in 0 .. k * n - 1
    PROVE  /\ w \div n \in 0 .. k - 1
           /\ w % n \in 0 .. n - 1
           /\ w = (w \div n) * n + (w % n)
  <1>1. n \in Nat \ {0}
    <2>1. n = 0 => k * n = 0
      OBVIOUS
    <2> QED
      BY <2>1
  <1>2. w \in Nat /\ w \div n \in Nat /\ w % n \in 0 .. n - 1
    BY <1>1
  <1>3. w = (w \div n) * n + (w % n)
    BY <1>1, <1>2
  <1>4. w \div n < k
    <2> SUFFICES ASSUME k <= w \div n PROVE FALSE
      BY <1>2
    <2>1. k * n <= (w \div n) * n
      BY <1>2, ProductOrder
    <2>2. k * n \in Nat /\ (w \div n) * n \in Nat
      BY <1>2
    <2> QED
      BY <1>2, <1>3, <2>1, <2>2
  <1> QED
    BY <1>2, <1>3, <1>4

\* A row and the owner's index of it determine each other.
LEMMA OwnedRows ==
    ASSUME NEW t \in Nat
    PROVE  /\ t \div WorldSize \in Nat /\ t % WorldSize \in Ranks
           /\ t = WorldSize * (t \div WorldSize) + (t % WorldSize)
  <1>1. CASE WorldSize = 2
    BY <1>1 DEF Ranks
  <1>2. CASE WorldSize = 4
    BY <1>2 DEF Ranks
  <1>3. CASE WorldSize = 8
    BY <1>3 DEF Ranks
  <1> QED
    BY <1>1, <1>2, <1>3, LayoutAssumption

\* Rows below m have owner's indices below m / WorldSize, rounded up.
LEMMA OwnedBelow ==
    ASSUME NEW m \in Nat, NEW t \in 0 .. m - 1
    PROVE  t \div WorldSize \in 0 .. CeilDiv(m, WorldSize) - 1
  <1>1. CASE WorldSize = 2
    BY <1>1 DEF CeilDiv
  <1>2. CASE WorldSize = 4
    BY <1>2 DEF CeilDiv
  <1>3. CASE WorldSize = 8
    BY <1>3 DEF CeilDiv
  <1> QED
    BY <1>1, <1>2, <1>3, LayoutAssumption

-----------------------------------------------------------------------------
(* The mail of a launch: what is sent, where it lies and what it says.     *)

\* The slot of launch n.
SlotOf(n) == (n - 1) % 3

\* A push carries the sender's own payload, a sum the owner's broadcast.
Mail(m) == [kind : {"push", "sum"}, from : Ranks, cell : Cells(m)]

\* Mail x of a launch of m tokens goes to rank r, and perhaps to others.
Addressed(m, x, r) ==
    IF Kernel(m) = "twoshot"
    THEN IF x.kind = "push" THEN r = Owner(x.cell) ELSE x.from = Owner(x.cell)
    ELSE x.kind = "push"

Place(m, s, x) ==
    IF x.kind = "sum" THEN BroadcastCell(s, x.cell)
    ELSE IF Kernel(m) = "twoshot" THEN ScatterCell(s, x.from, x.cell)
    ELSE OneShotCell(s, x.from, x.cell)

Content(n, x) ==
    IF x.kind = "push" THEN {Contribution(n, x.from, x.cell)} ELSE Sum(n, x.cell)

\* A slot has room for both shots of a two-shot launch of m tokens.
Fits(m) == Kernel(m) = "twoshot" => StageCapacity + Capacity <= SlotCapacity

Sizes == /\ Capacity \in Nat \ {0} /\ ScatterRankCapacity \in Nat
         /\ StageCapacity \in Nat /\ SlotCapacity \in Nat
         /\ WorldSize * Capacity \in Nat /\ WorldSize * Capacity <= SlotCapacity
         /\ Capacity <= StageCapacity /\ StageCapacity <= SlotCapacity
         /\ backend = "mnnvl" => 2 * StageCapacity <= SlotCapacity

\* Rounding up keeps the order.
LEMMA CeilDivOrder ==
    ASSUME NEW a \in Nat, NEW b \in Nat, a <= b
    PROVE  /\ CeilDiv(a, WorldSize) \in Nat /\ CeilDiv(b, WorldSize) \in Nat
           /\ CeilDiv(a, WorldSize) <= CeilDiv(b, WorldSize)
           /\ b <= WorldSize * CeilDiv(b, WorldSize)
           /\ b > 0 => CeilDiv(b, WorldSize) <= b
  <1>1. CASE WorldSize = 2
    BY <1>1 DEF CeilDiv
  <1>2. CASE WorldSize = 4
    BY <1>2 DEF CeilDiv
  <1>3. CASE WorldSize = 8
    BY <1>3 DEF CeilDiv
  <1> QED
    BY <1>1, <1>2, <1>3, LayoutAssumption

LEMMA LayoutSizes == Sizes
  <1>1. MaxTokens \in Nat \ {0} /\ TilesPerRow \in Nat \ {0} /\ WorldSize \in Nat \ {0}
    BY LayoutAssumption
  <1>2. Capacity \in Nat \ {0}
    BY <1>1, PositiveProduct DEF Capacity
  <1> DEFINE up == CeilDiv(MaxTokens, WorldSize)
  <1>3. up \in Nat /\ MaxTokens <= WorldSize * up /\ up <= MaxTokens
    BY <1>1, CeilDivOrder
  <1> HIDE DEF up
  <1>4. ScatterRankCapacity = up * TilesPerRow /\ up * TilesPerRow \in Nat
    BY <1>1, <1>3 DEF ScatterRankCapacity, up
  <1>5. ScatterRankCapacity <= Capacity
    BY <1>1, <1>3, <1>4, ProductOrder DEF Capacity
  <1>6. Capacity <= StageCapacity /\ StageCapacity \in Nat
    <2>1. MaxTokens * TilesPerRow <= (WorldSize * up) * TilesPerRow
      <3>1. MaxTokens \in Int /\ WorldSize * up \in Int /\ TilesPerRow \in Nat
        BY <1>1, <1>3
      <3> QED
        BY <1>3, <3>1, ProductOrder
    <2>2. (WorldSize * up) * TilesPerRow = WorldSize * (up * TilesPerRow)
      BY <1>1, <1>3
    <2> QED
      BY <1>1, <1>4, <2>1, <2>2 DEF StageCapacity, Capacity
  <1>7. WorldSize * Capacity \in Nat /\ StageCapacity <= WorldSize * Capacity
    <2>1. CASE WorldSize = 2
      BY <1>2, <1>4, <1>5, <2>1 DEF StageCapacity
    <2>2. CASE WorldSize = 4
      BY <1>2, <1>4, <1>5, <2>2 DEF StageCapacity
    <2>3. CASE WorldSize = 8
      BY <1>2, <1>4, <1>5, <2>3 DEF StageCapacity
    <2> QED
      BY <2>1, <2>2, <2>3, LayoutAssumption
  <1>8. /\ SlotCapacity \in Nat /\ WorldSize * Capacity <= SlotCapacity
        /\ backend = "mnnvl" => 2 * StageCapacity <= SlotCapacity
    BY <1>6, <1>7 DEF SlotCapacity, Larger
  <1> QED
    BY <1>2, <1>4, <1>6, <1>7, <1>8 DEF Sizes

\* The place of a cell in a tensor.
Offset(c) == c[1] * TilesPerRow + c[2]

\* Cells of a tensor of at most MaxTokens tokens, and their offsets.
LEMMA CellOffsets ==
    ASSUME NEW m \in 1 .. MaxTokens, NEW c \in Cells(m)
    PROVE  /\ c[1] \in 0 .. m - 1 /\ c[2] \in 0 .. TilesPerRow - 1 /\ c = <<c[1], c[2]>>
           /\ c \in Cells(MaxTokens)
           /\ Offset(c) \in 0 .. m * TilesPerRow - 1
           /\ Offset(c) \in 0 .. Capacity - 1
           /\ m * TilesPerRow \in Nat /\ m * TilesPerRow <= Capacity
           /\ c[1] * TilesPerRow \in Nat
  <1>1. /\ c[1] \in 0 .. m - 1 /\ c[2] \in 0 .. TilesPerRow - 1 /\ c = <<c[1], c[2]>>
        /\ m \in Nat /\ TilesPerRow \in Nat /\ MaxTokens \in Nat
    BY LayoutAssumption DEF Cells, Tiles
  <1>2. c \in Cells(MaxTokens)
    BY <1>1 DEF Cells, Tiles
  <1>3. Offset(c) \in 0 .. m * TilesPerRow - 1
    BY <1>1, DigitsBound DEF Offset
  <1>4. m * TilesPerRow <= MaxTokens * TilesPerRow
    BY <1>1, ProductOrder
  <1>5. m * TilesPerRow \in Nat /\ MaxTokens * TilesPerRow \in Nat /\ c[1] * TilesPerRow \in Nat
    BY <1>1
  <1> QED
    BY <1>1, <1>2, <1>3, <1>4, <1>5 DEF Capacity

\* Two cells with one offset are the same.
LEMMA OffsetsDiffer ==
    ASSUME NEW m \in 1 .. MaxTokens, NEW c \in Cells(m), NEW d \in Cells(m),
           Offset(c) = Offset(d)
    PROVE  c = d
  <1>1. /\ c[1] \in Int /\ d[1] \in Int /\ TilesPerRow \in Nat
        /\ c[2] \in 0 .. TilesPerRow - 1 /\ d[2] \in 0 .. TilesPerRow - 1
        /\ c = <<c[1], c[2]>> /\ d = <<d[1], d[2]>>
    BY CellOffsets, LayoutAssumption
  <1>2. c[1] * TilesPerRow + c[2] = d[1] * TilesPerRow + d[2]
    BY DEF Offset
  <1>3. c[1] = d[1] /\ c[2] = d[2]
    BY ONLY <1>1, <1>2, Digits
  <1> QED
    BY <1>1, <1>3

\* The place of a cell among the cells of its owner.
OwnedItem(c) == (c[1] \div WorldSize) * TilesPerRow + c[2]

LEMMA OwnedItems ==
    ASSUME NEW m \in 1 .. MaxTokens, NEW c \in Cells(m)
    PROVE  /\ OwnedItem(c) \in 0 .. CeilDiv(m, WorldSize) * TilesPerRow - 1
           /\ OwnedItem(c) \in 0 .. ScatterRankCapacity - 1
           /\ Owner(c) \in Ranks
           /\ (c[1] \div WorldSize) * TilesPerRow \in Nat
  <1>1. /\ c[1] \in 0 .. m - 1 /\ c[2] \in 0 .. TilesPerRow - 1
        /\ m \in Nat /\ TilesPerRow \in Nat /\ MaxTokens \in Nat /\ m <= MaxTokens
    BY CellOffsets, LayoutAssumption
  <1>2. c[1] \div WorldSize \in 0 .. CeilDiv(m, WorldSize) - 1
    BY <1>1, OwnedBelow
  <1>3. CeilDiv(m, WorldSize) \in Nat /\ CeilDiv(MaxTokens, WorldSize) \in Nat
        /\ CeilDiv(m, WorldSize) <= CeilDiv(MaxTokens, WorldSize)
    BY <1>1, CeilDivOrder
  <1>4. OwnedItem(c) \in 0 .. CeilDiv(m, WorldSize) * TilesPerRow - 1
    BY <1>1, <1>2, <1>3, DigitsBound DEF OwnedItem
  <1>5. CeilDiv(m, WorldSize) * TilesPerRow <= CeilDiv(MaxTokens, WorldSize) * TilesPerRow
    BY <1>1, <1>3, ProductOrder
  <1>6. /\ CeilDiv(m, WorldSize) * TilesPerRow \in Nat
        /\ CeilDiv(MaxTokens, WorldSize) * TilesPerRow \in Nat
        /\ (c[1] \div WorldSize) * TilesPerRow \in Nat
    BY <1>1, <1>2, <1>3
  <1>7. Owner(c) \in Ranks
    BY <1>1, OwnedRows DEF Owner
  <1> QED
    BY <1>4, <1>5, <1>6, <1>7 DEF ScatterRankCapacity

\* Two cells of one owner with one index are the same.
LEMMA OwnedItemsDiffer ==
    ASSUME NEW m \in 1 .. MaxTokens, NEW c \in Cells(m), NEW d \in Cells(m),
           Owner(c) = Owner(d), OwnedItem(c) = OwnedItem(d)
    PROVE  c = d
  <1>1. /\ c[1] \in Nat /\ d[1] \in Nat /\ TilesPerRow \in Nat
        /\ c[2] \in 0 .. TilesPerRow - 1 /\ d[2] \in 0 .. TilesPerRow - 1
        /\ c = <<c[1], c[2]>> /\ d = <<d[1], d[2]>>
    BY CellOffsets, LayoutAssumption
  <1>2. /\ c[1] \div WorldSize \in Nat /\ d[1] \div WorldSize \in Nat
        /\ c[1] = WorldSize * (c[1] \div WorldSize) + (c[1] % WorldSize)
        /\ d[1] = WorldSize * (d[1] \div WorldSize) + (d[1] % WorldSize)
    BY <1>1, OwnedRows
  <1>3. (c[1] \div WorldSize) * TilesPerRow + c[2] = (d[1] \div WorldSize) * TilesPerRow + d[2]
    BY DEF OwnedItem
  <1>4. c[1] \div WorldSize = d[1] \div WorldSize /\ c[2] = d[2]
    BY ONLY <1>1, <1>2, <1>3, Digits
  <1>5. c[1] = d[1]
    BY <1>2, <1>4 DEF Owner
  <1> QED
    BY <1>1, <1>4, <1>5

-----------------------------------------------------------------------------
(* Mail has a place of its own in the slot of its launch. *)

\* Where mail lies in its slot.
Within(m, x) ==
    IF x.kind = "sum" THEN StageCapacity + Offset(x.cell)
    ELSE IF Kernel(m) = "twoshot" THEN x.from * ScatterRankCapacity + OwnedItem(x.cell)
    ELSE x.from * Capacity + Offset(x.cell)

\* The fields of a piece of mail.
LEMMA MailFields ==
    ASSUME NEW m \in 1 .. MaxTokens, NEW x \in Mail(m)
    PROVE  /\ x.kind \in {"push", "sum"} /\ x.from \in Ranks /\ x.cell \in Cells(m)
           /\ x = [kind |-> x.kind, from |-> x.from, cell |-> x.cell]
           /\ x.from \in Nat /\ x.from \in 0 .. WorldSize - 1
  BY LayoutAssumption DEF Mail, Ranks

LEMMA SlotBases ==
    ASSUME NEW s \in Slots
    PROVE  /\ SlotBase(s) \in Nat
           /\ \A i \in 0 .. SlotCapacity - 1 :
                SlotBase(s) + i \in SlotCells(s) /\ SlotBase(s) + i \in BufferCells
  <1>1. SlotCapacity \in Nat /\ StageCapacity \in Nat
    BY LayoutSizes DEF Sizes
  <1>2. CASE s = 0
    BY <1>1, <1>2 DEF SlotBase, SlotCells, BufferCells
  <1>3. CASE s = 1
    BY <1>1, <1>3 DEF SlotBase, SlotCells, BufferCells
  <1>4. CASE s = 2
    BY <1>1, <1>4 DEF SlotBase, SlotCells, BufferCells
  <1> QED
    BY <1>2, <1>3, <1>4 DEF Slots

\* A cell is in one slot only.
LEMMA SlotsDisjoint ==
    ASSUME NEW s \in Slots, NEW t \in Slots, NEW a,
           a \in SlotCells(s), a \in SlotCells(t)
    PROVE  s = t
  <1>1. SlotCapacity \in Nat
    BY LayoutSizes DEF Sizes
  <1> QED
    BY <1>1 DEF Slots, SlotCells, SlotBase

\* The place of a mail is its place in the slot, counted from the slot's base.
LEMMA PlaceIs ==
    ASSUME NEW m \in 1 .. MaxTokens, NEW s \in Slots, NEW x \in Mail(m)
    PROVE  Place(m, s, x) = SlotBase(s) + Within(m, x)
  <1>1. SlotBase(s) \in Nat
    BY SlotBases
  <1>2. x.cell \in Cells(m) /\ x.from \in Nat
    BY MailFields
  <1>3. /\ x.cell[1] * TilesPerRow \in Nat /\ x.cell[2] \in Int
        /\ (x.cell[1] \div WorldSize) * TilesPerRow \in Nat
    BY <1>2, CellOffsets, OwnedItems
  <1>4. /\ StageCapacity \in Nat /\ x.from * ScatterRankCapacity \in Nat
        /\ x.from * Capacity \in Nat
    <2>1. StageCapacity \in Nat /\ ScatterRankCapacity \in Nat /\ Capacity \in Nat
      BY LayoutSizes DEF Sizes
    <2> QED
      BY <1>2, <2>1
  <1> DEFINE A == x.cell[1] * TilesPerRow
             B == (x.cell[1] \div WorldSize) * TilesPerRow
             C == x.from * ScatterRankCapacity
             D == x.from * Capacity
             b == SlotBase(s)
  <1>5. BroadcastCell(s, x.cell) = b + (StageCapacity + (A + x.cell[2]))
    <2> HIDE DEF A, b
    <2>1. BroadcastCell(s, x.cell) = b + StageCapacity + A + x.cell[2]
      BY DEF BroadcastCell, A, b
    <2>2. b \in Int /\ A \in Int
      BY <1>1, <1>3 DEF A, b
    <2> QED
      BY <1>3, <1>4, <2>1, <2>2
  <1>6. ScatterCell(s, x.from, x.cell) = b + (C + (B + x.cell[2]))
    <2> HIDE DEF B, C, b
    <2>1. ScatterCell(s, x.from, x.cell) = b + C + B + x.cell[2]
      BY DEF ScatterCell, B, C, b
    <2>2. b \in Int /\ B \in Int /\ C \in Int
      BY <1>1, <1>3, <1>4 DEF B, C, b
    <2> QED
      BY <1>3, <2>1, <2>2
  <1>7. OneShotCell(s, x.from, x.cell) = b + (D + (A + x.cell[2]))
    <2> HIDE DEF A, D, b
    <2>1. OneShotCell(s, x.from, x.cell) = b + D + A + x.cell[2]
      BY DEF OneShotCell, A, D, b
    <2>2. b \in Int /\ A \in Int /\ D \in Int
      BY <1>1, <1>3, <1>4 DEF A, D, b
    <2> QED
      BY <1>3, <2>1, <2>2
  <1> QED
    BY <1>5, <1>6, <1>7 DEF Place, Within, Offset, OwnedItem

\* Mail stays within its slot.
LEMMA WithinSlot ==
    ASSUME NEW m \in 1 .. MaxTokens, Fits(m), NEW r, NEW x \in Mail(m), Addressed(m, x, r)
    PROVE  Within(m, x) \in 0 .. SlotCapacity - 1
  <1>1. x.cell \in Cells(m) /\ x.from \in 0 .. WorldSize - 1
    BY MailFields
  <1>2. /\ Offset(x.cell) \in 0 .. Capacity - 1
        /\ OwnedItem(x.cell) \in 0 .. ScatterRankCapacity - 1
    BY <1>1, CellOffsets, OwnedItems
  <1>3. Sizes
    BY LayoutSizes
  <1>4. CASE x.kind = "sum"
    <2>1. Kernel(m) = "twoshot"
      BY <1>4 DEF Addressed
    <2> QED
      BY <1>2, <1>3, <1>4, <2>1 DEF Fits, Within, Sizes
  <1>5. CASE x.kind # "sum" /\ Kernel(m) = "twoshot"
    <2>1. x.from * ScatterRankCapacity + OwnedItem(x.cell)
             \in 0 .. WorldSize * ScatterRankCapacity - 1
      <3>1. WorldSize \in Nat /\ ScatterRankCapacity \in Nat
        BY <1>3, LayoutAssumption DEF Sizes
      <3> QED
        BY <1>1, <1>2, <3>1, DigitsBound
    <2> QED
      BY <1>3, <1>5, <2>1 DEF Within, Sizes, StageCapacity
  <1>6. CASE x.kind # "sum" /\ Kernel(m) # "twoshot"
    <2>1. x.from * Capacity + Offset(x.cell) \in 0 .. WorldSize * Capacity - 1
      <3>1. WorldSize \in Nat /\ Capacity \in Nat
        BY <1>3, LayoutAssumption DEF Sizes
      <3> QED
        BY <1>1, <1>2, <3>1, DigitsBound
    <2> QED
      BY <1>3, <1>6, <2>1 DEF Within, Sizes
  <1> QED
    BY <1>4, <1>5, <1>6

LEMMA PlaceInSlot ==
    ASSUME NEW m \in 1 .. MaxTokens, Fits(m), NEW s \in Slots, NEW r,
           NEW x \in Mail(m), Addressed(m, x, r)
    PROVE  Place(m, s, x) \in SlotCells(s) /\ Place(m, s, x) \in BufferCells
  BY PlaceIs, WithinSlot, SlotBases

\* Mail to one rank has places of its own.
LEMMA PlacesDiffer ==
    ASSUME NEW m \in 1 .. MaxTokens, Fits(m), NEW s \in Slots, NEW r,
           NEW x \in Mail(m), Addressed(m, x, r),
           NEW y \in Mail(m), Addressed(m, y, r),
           Place(m, s, x) = Place(m, s, y)
    PROVE  x = y
  <1>1. /\ x.cell \in Cells(m) /\ x.from \in 0 .. WorldSize - 1 /\ x.kind \in {"push", "sum"}
        /\ x = [kind |-> x.kind, from |-> x.from, cell |-> x.cell]
        /\ y.cell \in Cells(m) /\ y.from \in 0 .. WorldSize - 1 /\ y.kind \in {"push", "sum"}
        /\ y = [kind |-> y.kind, from |-> y.from, cell |-> y.cell]
    BY MailFields
  <1>2. Within(m, x) = Within(m, y)
    <2>1. Within(m, x) \in Int /\ Within(m, y) \in Int /\ SlotBase(s) \in Int
      BY WithinSlot, SlotBases
    <2>2. SlotBase(s) + Within(m, x) = SlotBase(s) + Within(m, y)
      BY PlaceIs
    <2> DEFINE u == Within(m, x)
               v == Within(m, y)
               b == SlotBase(s)
    <2>3. u \in Int /\ v \in Int /\ b \in Int /\ b + u = b + v
      BY <2>1, <2>2
    <2> HIDE DEF u, v, b
    <2>4. u = v
      BY <2>3
    <2> QED
      BY <2>4 DEF u, v
  <1>3. /\ Offset(x.cell) \in 0 .. Capacity - 1 /\ Offset(y.cell) \in 0 .. Capacity - 1
        /\ OwnedItem(x.cell) \in 0 .. ScatterRankCapacity - 1
        /\ OwnedItem(y.cell) \in 0 .. ScatterRankCapacity - 1
    BY <1>1, CellOffsets, OwnedItems
  <1>4. Sizes /\ WorldSize \in Nat
    BY LayoutSizes, LayoutAssumption
  <1>5. CASE Kernel(m) # "twoshot"
    <2>1. x.kind = "push" /\ y.kind = "push"
      BY <1>5 DEF Addressed
    <2>2. Number(x.from, Offset(x.cell), Capacity) = Number(y.from, Offset(y.cell), Capacity)
      BY <1>2, <1>5, <2>1 DEF Within, Number
    <2>3. x.from = y.from /\ Offset(x.cell) = Offset(y.cell)
      <3>1. x.from \in Int /\ y.from \in Int /\ Capacity \in Nat
        BY <1>1, <1>4 DEF Sizes
      <3> QED
        BY <1>3, <2>2, <3>1, NumbersDiffer
    <2>4. x.cell = y.cell
      BY <1>1, <2>3, OffsetsDiffer
    <2> QED
      BY <1>1, <2>1, <2>3, <2>4
  <1>6. CASE Kernel(m) = "twoshot"
    <2>1. \A z \in {x, y} : z.kind = "push" => Within(m, z) < StageCapacity
      <3> SUFFICES ASSUME NEW z \in {x, y}, z.kind = "push"
                   PROVE  Within(m, z) < StageCapacity
        OBVIOUS
      <3>1. z.from \in 0 .. WorldSize - 1 /\ OwnedItem(z.cell) \in 0 .. ScatterRankCapacity - 1
        BY <1>1, <1>3
      <3>2. z.from * ScatterRankCapacity + OwnedItem(z.cell)
               \in 0 .. WorldSize * ScatterRankCapacity - 1
        <4>1. WorldSize \in Nat /\ ScatterRankCapacity \in Nat
          BY <1>4 DEF Sizes
        <4> QED
          BY <3>1, <4>1, DigitsBound
      <3> QED
        BY <1>4, <1>6, <3>2 DEF Within, StageCapacity, Sizes
    <2>2. \A z \in {x, y} : z.kind = "sum" => Within(m, z) >= StageCapacity
      BY <1>3, <1>4 DEF Within, Sizes
    <2>3. x.kind = y.kind
      <3>1. /\ StageCapacity \in Int /\ Within(m, x) \in Int /\ Within(m, y) \in Int
        BY <1>4, WithinSlot DEF Sizes
      <3> QED
        BY <1>1, <1>2, <2>1, <2>2, <3>1
    <2>4. CASE x.kind = "push"
      <3>1. Number(x.from, OwnedItem(x.cell), ScatterRankCapacity)
               = Number(y.from, OwnedItem(y.cell), ScatterRankCapacity)
        BY <1>2, <1>6, <2>3, <2>4 DEF Within, Number
      <3>2. x.from = y.from /\ OwnedItem(x.cell) = OwnedItem(y.cell)
        <4>1. x.from \in Int /\ y.from \in Int /\ ScatterRankCapacity \in Nat
          BY <1>1, <1>4 DEF Sizes
        <4> QED
          BY <1>3, <3>1, <4>1, NumbersDiffer
      <3>3. Owner(x.cell) = Owner(y.cell)
        BY <1>6, <2>3, <2>4 DEF Addressed
      <3>4. x.cell = y.cell
        BY <1>1, <3>2, <3>3, OwnedItemsDiffer
      <3> QED
        BY <1>1, <2>3, <3>2, <3>4
    <2>5. CASE x.kind = "sum"
      <3>1. Offset(x.cell) = Offset(y.cell)
        <4>1. StageCapacity + Offset(x.cell) = StageCapacity + Offset(y.cell)
          BY <1>2, <2>3, <2>5 DEF Within
        <4> QED
          BY <1>3, <1>4, <4>1 DEF Sizes
      <3>2. x.cell = y.cell
        BY <1>1, <3>1, OffsetsDiffer
      <3>3. x.from = y.from
        BY <1>6, <2>3, <2>5, <3>2 DEF Addressed
      <3> QED
        BY <1>1, <2>3, <3>2, <3>3
    <2> QED
      BY <1>1, <2>4, <2>5
  <1> QED
    BY <1>5, <1>6

-----------------------------------------------------------------------------
(* The clear pass covers the slot of the launch before, and nothing else. *)

\* What a snapshot says when the launch before had k tokens.
Remembers(sn, k) ==
    /\ sn.numel = k * TilesPerRow
    /\ sn.strategy = IF k = 0 THEN 0 ELSE Strategy(k)

\* Calls of m and of k tokens can share a workspace: between peers they are both
\* one-shot or both two-shot.
Compatible(m, k) == backend = "peer" => (Kernel(m) = "twoshot" <=> Kernel(k) = "twoshot")

LEMMA RowsOf ==
    ASSUME NEW k \in Nat
    PROVE  (k * TilesPerRow) \div TilesPerRow = k
  <1> DEFINE w == k * TilesPerRow
  <1>1. TilesPerRow \in Nat \ {0} /\ w \in Nat /\ w \in 0 .. (k + 1) * TilesPerRow - 1
    <2>1. TilesPerRow \in Nat \ {0}
      BY LayoutAssumption
    <2>2. 0 \in 0 .. TilesPerRow - 1 /\ k \in 0 .. (k + 1) - 1 /\ k + 1 \in Nat
      BY <2>1
    <2>3. k * TilesPerRow + 0 \in 0 .. (k + 1) * TilesPerRow - 1
      BY <2>1, <2>2, DigitsBound
    <2>4. k * TilesPerRow \in Nat
      BY <2>1
    <2> QED
      BY <2>1, <2>3, <2>4
  <1>2. /\ w \div TilesPerRow \in Nat /\ w % TilesPerRow \in 0 .. TilesPerRow - 1
        /\ w = (w \div TilesPerRow) * TilesPerRow + (w % TilesPerRow)
    <2> HIDE DEF w
    <2>1. k + 1 \in Nat /\ TilesPerRow \in Nat
      BY <1>1
    <2>2. w \div TilesPerRow \in 0 .. (k + 1) - 1
          /\ w % TilesPerRow \in 0 .. TilesPerRow - 1
          /\ w = (w \div TilesPerRow) * TilesPerRow + (w % TilesPerRow)
      BY <1>1, <2>1, DigitsOf
    <2> QED
      BY <2>2
  <1>3. Number(w \div TilesPerRow, w % TilesPerRow, TilesPerRow) = Number(k, 0, TilesPerRow)
    BY <1>1, <1>2 DEF Number
  <1>4. w \div TilesPerRow = k
    <2>1. w \div TilesPerRow \in Int /\ k \in Int /\ 0 \in 0 .. TilesPerRow - 1
          /\ TilesPerRow \in Nat
      BY <1>1, <1>2
    <2> QED
      BY <1>2, <1>3, <2>1, NumbersDiffer
  <1> QED
    BY <1>4

\* An index below count is in the share of one program of the grid.
LEMMA ShareCovers ==
    ASSUME NEW g \in 1 .. ProgramLimit, NEW count \in Int, NEW i \in 0 .. count - 1
    PROVE  \E p \in Programs : p < g /\ i \in Share(p, g, count)
  <1>1. i % g \in 0 .. g - 1
    BY LayoutAssumption
  <1>2. i % g \in Programs /\ i % g < g
    BY <1>1, LayoutAssumption DEF Programs
  <1> QED
    BY <1>2 DEF Share

\* Every piece of mail of the launch before is cleared by some program.
LEMMA ClearCovers ==
    ASSUME backend \in Backends,
           NEW m \in 1 .. MaxTokens, NEW k \in 1 .. MaxTokens, Compatible(m, k),
           NEW sn, sn.slot \in Slots, Remembers(sn, k),
           NEW r, NEW x \in Mail(k), Addressed(k, x, r)
    PROVE  \E p \in Programs : /\ p < Grid(m)
                               /\ Place(k, (sn.slot + 2) % 3, x) \in ClearCells(m, p, sn)
  <1> DEFINE base == SlotBase((sn.slot + 2) % 3)
             g == Grid(m)
             a == Place(k, (sn.slot + 2) % 3, x)
  <1>1. (sn.slot + 2) % 3 \in Slots
    BY DEF Slots
  <1>2. base \in Nat /\ a = base + Within(k, x)
    BY <1>1, SlotBases, PlaceIs
  <1>3. g \in 1 .. ProgramLimit
    BY GridBounds
  <1>4. x.cell \in Cells(k) /\ x.from \in Ranks /\ x.from \in 0 .. WorldSize - 1 /\ x.from \in Nat
        /\ x.kind \in {"push", "sum"}
    BY MailFields
  <1>5. /\ Offset(x.cell) \in 0 .. sn.numel - 1 /\ Offset(x.cell) \in 0 .. Capacity - 1
        /\ sn.numel \in Nat
        /\ OwnedItem(x.cell) \in 0 .. CeilDiv(k, WorldSize) * TilesPerRow - 1
    BY <1>4, CellOffsets, OwnedItems DEF Remembers
  <1>6. Sizes
    BY LayoutSizes
  <1>7. x.from * Capacity \in Nat /\ x.from * ScatterRankCapacity \in Nat
    BY <1>4, <1>6 DEF Sizes
  <1>8. k # 0 /\ sn.numel \div TilesPerRow = k
    BY RowsOf DEF Remembers
  <1> HIDE DEF base, g, a
  <1>9. CASE Kernel(k) # "twoshot"
    <2>1. x.kind = "push"
      BY <1>9 DEF Addressed
    <2>2. a = base + x.from * Capacity + Offset(x.cell)
      <3>1. Within(k, x) = x.from * Capacity + Offset(x.cell)
        BY <1>9, <2>1 DEF Within
      <3> QED
        BY <1>2, <1>5, <1>7, <3>1
    <2>3. \E p \in Programs : p < g /\ a \in ClearOneShot(base, p, g, sn.numel)
      <3>1. PICK p \in Programs : p < g /\ Offset(x.cell) \in Share(p, g, sn.numel)
        BY <1>3, <1>5, ShareCovers
      <3> QED
        BY <1>4, <2>2, <3>1 DEF ClearOneShot
    <2>4. sn.strategy = 0
      BY <1>8, <1>9 DEF Remembers, Strategy
    <2>5. CASE Kernel(m) = "rowwise" /\ sn.numel = Capacity
      <3> DEFINE i == x.from * Capacity + Offset(x.cell)
      <3>1. i \in 0 .. WorldSize * Capacity - 1
        <4>1. WorldSize \in Nat /\ Capacity \in Nat
          BY <1>6, LayoutAssumption DEF Sizes
        <4> QED
          BY <1>4, <1>5, <4>1, DigitsBound
      <3>2. a = base + i
        BY <1>2, <1>5, <1>7, <2>2
      <3> HIDE DEF i
      <3>3. PICK p \in Programs : p < g /\ i \in Share(p, g, WorldSize * sn.numel)
        <4>1. WorldSize * Capacity \in Int
          BY <1>6 DEF Sizes
        <4> QED
          BY <1>3, <2>5, <3>1, <4>1, ShareCovers
      <3>4. a \in ClearRowwise(base, p, g, sn.numel)
        BY <2>5, <3>2, <3>3 DEF ClearRowwise
      <3> QED
        BY <2>5, <3>3, <3>4 DEF ClearCells, base, g, a
    <2>6. CASE Kernel(m) = "rowwise" /\ sn.numel # Capacity
      BY <2>3, <2>6 DEF ClearCells, ClearRowwise, base, g, a
    <2>7. CASE Kernel(m) # "rowwise"
      BY <2>3, <2>4, <2>7 DEF ClearCells, base, g, a
    <2> QED
      BY <2>5, <2>6, <2>7
  <1>10. CASE Kernel(k) = "twoshot"
    <2>1. sn.strategy = 1
      BY <1>8, <1>10 DEF Remembers, Strategy
    <2>2. \E p \in Programs : p < g /\ a \in ClearTwoShot(base, p, g, sn.numel)
      <3>1. CASE x.kind = "sum"
        <4>1. a = base + StageCapacity + Offset(x.cell)
          <5>1. Within(k, x) = StageCapacity + Offset(x.cell)
            BY <3>1 DEF Within
          <5> QED
            BY <1>2, <1>5, <1>6, <5>1 DEF Sizes
        <4>2. PICK p \in Programs : p < g /\ Offset(x.cell) \in Share(p, g, sn.numel)
          BY <1>3, <1>5, ShareCovers
        <4>3. a \in ClearTwoShot(base, p, g, sn.numel)
          BY <4>1, <4>2 DEF ClearTwoShot
        <4> QED
          BY <4>2, <4>3
      <3>2. CASE x.kind = "push"
        <4>1. a = base + x.from * ScatterRankCapacity + OwnedItem(x.cell)
          <5>1. Within(k, x) = x.from * ScatterRankCapacity + OwnedItem(x.cell)
            BY <1>10, <3>2 DEF Within
          <5> QED
            BY <1>2, <1>5, <1>7, <5>1
        <4>2. PICK p \in Programs :
                p < g /\ OwnedItem(x.cell) \in Share(p, g, CeilDiv(k, WorldSize) * TilesPerRow)
          <5>1. CeilDiv(k, WorldSize) * TilesPerRow \in Int
            <6>1. CeilDiv(k, WorldSize) \in Nat
              BY CeilDivOrder
            <6> QED
              BY <6>1, LayoutAssumption
          <5> QED
            BY <1>3, <1>5, <5>1, ShareCovers
        <4>3. a \in ClearTwoShot(base, p, g, sn.numel)
          BY <1>4, <1>8, <4>1, <4>2 DEF ClearTwoShot
        <4> QED
          BY <4>2, <4>3
      <3> QED
        BY <1>4, <3>1, <3>2
    <2>3. Kernel(m) # "rowwise" /\ ~(Kernel(m) = "tiled" /\ backend = "peer")
      BY <1>10, LayoutAssumption DEF Compatible, Kernel
    <2> QED
      BY <2>1, <2>2, <2>3 DEF ClearCells, base, g, a
  <1> QED
    BY <1>9, <1>10

\* The clear pass stays within the slot before the current one.
LEMMA ClearInSlot ==
    ASSUME NEW m \in 1 .. MaxTokens, NEW k \in 0 .. MaxTokens, NEW p,
           k > 0 => Compatible(m, k) /\ Fits(k),
           NEW sn, sn.slot \in Slots, Remembers(sn, k)
    PROVE  ClearCells(m, p, sn) \subseteq SlotCells((sn.slot + 2) % 3)
  <1> DEFINE base == SlotBase((sn.slot + 2) % 3)
             g == Grid(m)
  <1>1. (sn.slot + 2) % 3 \in Slots
    BY DEF Slots
  <1>2. \A i \in 0 .. SlotCapacity - 1 : base + i \in SlotCells((sn.slot + 2) % 3)
    BY <1>1, SlotBases
  <1>3. base \in Nat
    BY <1>1, SlotBases
  <1>4. Sizes /\ TilesPerRow \in Nat \ {0} /\ WorldSize \in Nat /\ MaxTokens \in Nat
    BY LayoutSizes, LayoutAssumption
  <1>5. sn.numel \in Nat /\ sn.numel <= Capacity
    <2>1. k * TilesPerRow <= MaxTokens * TilesPerRow /\ k * TilesPerRow \in Nat
      BY <1>4, ProductOrder
    <2> QED
      BY <2>1 DEF Remembers, Capacity
  <1> HIDE DEF base, g
  <1>6. ClearOneShot(base, p, g, sn.numel) \subseteq SlotCells((sn.slot + 2) % 3)
    <2> SUFFICES ASSUME NEW source \in Ranks, NEW i \in 0 .. sn.numel - 1
                 PROVE  base + source * Capacity + i \in SlotCells((sn.slot + 2) % 3)
      BY DEF ClearOneShot, Share
    <2>1. source * Capacity + i \in 0 .. WorldSize * Capacity - 1
      <3>1. source \in 0 .. WorldSize - 1 /\ i \in 0 .. Capacity - 1 /\ Capacity \in Nat
        BY <1>4, <1>5 DEF Ranks, Sizes
      <3> QED
        BY <1>4, <3>1, DigitsBound
    <2>2. source * Capacity + i \in 0 .. SlotCapacity - 1
      BY <1>4, <2>1 DEF Sizes
    <2>3. source * Capacity \in Int
      BY <1>4 DEF Ranks, Sizes
    <2>4. base + source * Capacity + i = base + (source * Capacity + i)
      BY <1>3, <1>5, <2>3
    <2> QED
      BY <1>2, <2>2, <2>4
  <1>7. CASE Kernel(m) = "rowwise"
    <2>1. CASE sn.numel = Capacity
      <3>1. WorldSize * Capacity \in Nat /\ WorldSize * Capacity <= SlotCapacity /\ SlotCapacity \in Nat
        BY <1>4 DEF Sizes
      <3>2. ClearRowwise(base, p, g, sn.numel) \subseteq SlotCells((sn.slot + 2) % 3)
        BY <1>2, <2>1, <3>1 DEF ClearRowwise, Share
      <3> QED
        BY <1>7, <3>2 DEF ClearCells, base, g
    <2>2. CASE sn.numel # Capacity
      BY <1>6, <1>7, <2>2 DEF ClearCells, ClearRowwise, base, g
    <2> QED
      BY <2>1, <2>2
  <1>8. CASE Kernel(m) # "rowwise" /\ (sn.strategy = 0 \/ (Kernel(m) = "tiled" /\ backend = "peer"))
    BY <1>6, <1>8 DEF ClearCells, base, g
  <1>9. CASE /\ Kernel(m) # "rowwise" /\ sn.strategy # 0
             /\ ~(Kernel(m) = "tiled" /\ backend = "peer")
    <2>1. k > 0 /\ Kernel(k) = "twoshot"
      BY <1>9 DEF Remembers, Strategy
    <2>2. StageCapacity + Capacity <= SlotCapacity
      BY <2>1 DEF Fits
    <2>3. CeilDiv(sn.numel \div TilesPerRow, WorldSize) * TilesPerRow <= ScatterRankCapacity
          /\ CeilDiv(sn.numel \div TilesPerRow, WorldSize) * TilesPerRow \in Nat
      <3>1. sn.numel \div TilesPerRow = k
        BY RowsOf DEF Remembers
      <3>2. CeilDiv(k, WorldSize) \in Nat /\ CeilDiv(MaxTokens, WorldSize) \in Nat
            /\ CeilDiv(k, WorldSize) <= CeilDiv(MaxTokens, WorldSize)
        BY <1>4, CeilDivOrder
      <3>3. CeilDiv(k, WorldSize) * TilesPerRow <= CeilDiv(MaxTokens, WorldSize) * TilesPerRow
            /\ CeilDiv(k, WorldSize) * TilesPerRow \in Nat
        BY <1>4, <3>2, ProductOrder
      <3> QED
        BY <3>1, <3>3 DEF ScatterRankCapacity
    <2> DEFINE scatter == CeilDiv(sn.numel \div TilesPerRow, WorldSize) * TilesPerRow
    <2> HIDE DEF scatter
    <2>4. ASSUME NEW source \in Ranks, NEW i \in 0 .. scatter - 1
          PROVE  base + source * ScatterRankCapacity + i \in SlotCells((sn.slot + 2) % 3)
      <3>1. source * ScatterRankCapacity + i \in 0 .. WorldSize * ScatterRankCapacity - 1
        <4>1. source \in 0 .. WorldSize - 1 /\ i \in 0 .. ScatterRankCapacity - 1
              /\ ScatterRankCapacity \in Nat
          BY <1>4, <2>3 DEF Ranks, Sizes, scatter
        <4> QED
          BY <1>4, <4>1, DigitsBound
      <3>2. source * ScatterRankCapacity + i \in 0 .. SlotCapacity - 1
        BY <1>4, <3>1 DEF Sizes, StageCapacity
      <3>3. source * ScatterRankCapacity \in Int /\ i \in Int
        BY <1>4, <2>3 DEF Ranks, Sizes, scatter
      <3>4. base + source * ScatterRankCapacity + i = base + (source * ScatterRankCapacity + i)
        BY <1>3, <3>3
      <3> QED
        BY <1>2, <3>2, <3>4
    <2>5. ASSUME NEW i \in 0 .. sn.numel - 1
          PROVE  base + StageCapacity + i \in SlotCells((sn.slot + 2) % 3)
      <3>1. StageCapacity + i \in 0 .. SlotCapacity - 1
        BY <1>4, <1>5, <2>2 DEF Sizes
      <3>2. base + StageCapacity + i = base + (StageCapacity + i)
        BY <1>3, <1>4, <1>5 DEF Sizes
      <3> QED
        BY <1>2, <3>1, <3>2
    <2>6. ClearTwoShot(base, p, g, sn.numel) \subseteq SlotCells((sn.slot + 2) % 3)
      BY <2>4, <2>5 DEF ClearTwoShot, Share, scatter
    <2> QED
      BY <1>9, <2>6 DEF ClearCells, base, g
  <1> QED
    BY <1>7, <1>8, <1>9

-----------------------------------------------------------------------------
(* The work loops: which items are whose, and how far a loop has come. *)

AfterPush == Steps \ {"load", "arrive", "push"}
AfterReduce == AfterPush \ {"reduce"}
AfterConsume == {"finish", "exit", "done"}

\* Item i of the loop at `step` is done, in a grid of g programs whose program
\* counters are pcs and whose work indices are works.
Finished(pcs, works, g, i, step, later) ==
    \/ pcs[i % g] \in later
    \/ pcs[i % g] = step /\ i < works[i % g]

\* A program that is at s with work index w goes to t with work index v, and has
\* not done more or less of the loop at `step` than before.
Crosses(s, w, t, v, p, step, later, count) ==
    \/ s \in later /\ t \in later
    \/ s = step /\ w >= count /\ t \in later
    \/ s \notin later /\ s # step /\ t \notin later /\ t # step
    \/ s \notin later /\ s # step /\ t = step /\ v = p

\* The item of a cell in a loop over rows or tiles.
ItemOf(m, c) == IF Kernel(m) = "rowwise" THEN c[1] ELSE Offset(c)

\* Every cell belongs to one item of the loop.
LEMMA Items ==
    ASSUME NEW m \in 1 .. MaxTokens
    PROVE  /\ ItemCount(m) \in Nat
           /\ \A c \in Cells(m) : ItemOf(m, c) \in 0 .. ItemCount(m) - 1
           /\ \A w \in 0 .. ItemCount(m) - 1 : \A c :
                c \in ItemCells(m, w) <=> c \in Cells(m) /\ ItemOf(m, c) = w
  <1>1. m \in Nat /\ TilesPerRow \in Nat \ {0} /\ m * TilesPerRow \in Nat
    BY LayoutAssumption
  <1>2. \A c \in Cells(m) : /\ c[1] \in 0 .. m - 1 /\ c[2] \in 0 .. TilesPerRow - 1
                            /\ c = <<c[1], c[2]>> /\ Offset(c) \in 0 .. m * TilesPerRow - 1
    BY CellOffsets
  <1>3. CASE Kernel(m) = "rowwise"
    <2>1. \A w \in 0 .. m - 1 : \A c : c \in {w} \X Tiles <=> c \in Cells(m) /\ c[1] = w
      BY DEF Cells
    <2> QED
      BY <1>1, <1>2, <1>3, <2>1 DEF ItemCount, ItemOf, ItemCells
  <1>4. CASE Kernel(m) # "rowwise"
    <2>1. ASSUME NEW w \in 0 .. m * TilesPerRow - 1, NEW c
          PROVE  c = <<w \div TilesPerRow, w % TilesPerRow>> <=> c \in Cells(m) /\ Offset(c) = w
      <3> DEFINE d == <<w \div TilesPerRow, w % TilesPerRow>>
      <3>1. /\ w \div TilesPerRow \in 0 .. m - 1 /\ w % TilesPerRow \in 0 .. TilesPerRow - 1
            /\ w = (w \div TilesPerRow) * TilesPerRow + (w % TilesPerRow)
        BY <1>1, DigitsOf
      <3>2. d \in Cells(m) /\ Offset(d) = w
        BY <3>1 DEF Cells, Tiles, Offset
      <3>3. c \in Cells(m) /\ Offset(c) = w => c = d
        BY <3>2, OffsetsDiffer
      <3> QED
        BY <3>2, <3>3
    <2> QED
      BY <1>1, <1>2, <1>4, <2>1 DEF ItemCount, ItemOf, ItemCells
  <1> QED
    BY <1>3, <1>4

\* The same for the loop of a rank over the cells it owns.
LEMMA OwnedWork ==
    ASSUME NEW m \in 1 .. MaxTokens, NEW r \in Ranks
    PROVE  /\ OwnedCount(r, m) \in Nat
           /\ \A c \in Cells(m) : Owner(c) = r => OwnedItem(c) \in 0 .. OwnedCount(r, m) - 1
           /\ \A w \in 0 .. OwnedCount(r, m) - 1 :
                /\ OwnedCell(r, w) \in Cells(m)
                /\ Owner(OwnedCell(r, w)) = r /\ OwnedItem(OwnedCell(r, w)) = w
           /\ \A w \in 0 .. OwnedCount(r, m) - 1, c \in Cells(m) :
                Owner(c) = r /\ OwnedItem(c) = w => c = OwnedCell(r, w)
  <1> DEFINE rows == (m + WorldSize - 1 - r) \div WorldSize
  <1>1. m \in Nat /\ TilesPerRow \in Nat \ {0} /\ r \in 0 .. WorldSize - 1
    BY LayoutAssumption DEF Ranks
  <1>2. /\ rows \in Nat
        /\ \A t \in 0 .. m - 1 : t % WorldSize = r => t \div WorldSize \in 0 .. rows - 1
        /\ \A u \in 0 .. rows - 1 : /\ r + u * WorldSize \in 0 .. m - 1
                                    /\ (r + u * WorldSize) % WorldSize = r
                                    /\ (r + u * WorldSize) \div WorldSize = u
    <2>1. CASE WorldSize = 2
      BY <1>1, <2>1
    <2>2. CASE WorldSize = 4
      BY <1>1, <2>2
    <2>3. CASE WorldSize = 8
      BY <1>1, <2>3
    <2> QED
      BY <2>1, <2>2, <2>3, LayoutAssumption
  <1>3. OwnedCount(r, m) = rows * TilesPerRow
    BY DEF OwnedCount
  <1> HIDE DEF rows
  <1>4. rows * TilesPerRow \in Nat
    BY <1>1, <1>2
  <1>5. ASSUME NEW c \in Cells(m), Owner(c) = r
        PROVE  OwnedItem(c) \in 0 .. rows * TilesPerRow - 1
    <2>1. c[1] \in 0 .. m - 1 /\ c[2] \in 0 .. TilesPerRow - 1
      BY CellOffsets
    <2>2. c[1] \div WorldSize \in 0 .. rows - 1
      BY <1>2, <1>5, <2>1 DEF Owner
    <2> QED
      BY <1>1, <1>2, <2>1, <2>2, DigitsBound DEF OwnedItem
  <1>6. ASSUME NEW w \in 0 .. rows * TilesPerRow - 1
        PROVE  /\ OwnedCell(r, w) \in Cells(m)
               /\ Owner(OwnedCell(r, w)) = r /\ OwnedItem(OwnedCell(r, w)) = w
    <2>1. /\ w \div TilesPerRow \in 0 .. rows - 1 /\ w % TilesPerRow \in 0 .. TilesPerRow - 1
          /\ w = (w \div TilesPerRow) * TilesPerRow + (w % TilesPerRow)
      BY <1>1, <1>2, DigitsOf
    <2> DEFINE u == w \div TilesPerRow
               v == w % TilesPerRow
    <2>2. OwnedCell(r, w) = <<r + u * WorldSize, v>>
      BY DEF OwnedCell
    <2>3. u \in 0 .. rows - 1 /\ v \in 0 .. TilesPerRow - 1 /\ w = u * TilesPerRow + v
      BY <2>1
    <2> HIDE DEF u, v
    <2>4. /\ r + u * WorldSize \in 0 .. m - 1 /\ (r + u * WorldSize) % WorldSize = r
          /\ (r + u * WorldSize) \div WorldSize = u
      BY <1>2, <2>3
    <2>5. OwnedCell(r, w) \in Cells(m)
      BY <2>2, <2>3, <2>4 DEF Cells, Tiles
    <2>6. Owner(OwnedCell(r, w)) = r
      BY <2>2, <2>4 DEF Owner
    <2>7. OwnedItem(OwnedCell(r, w)) = u * TilesPerRow + v
      BY <2>2, <2>4 DEF OwnedItem
    <2> QED
      BY <2>3, <2>5, <2>6, <2>7
  <1>7. ASSUME NEW w \in 0 .. rows * TilesPerRow - 1, NEW c \in Cells(m),
               Owner(c) = r, OwnedItem(c) = w
        PROVE  c = OwnedCell(r, w)
    BY <1>6, <1>7, OwnedItemsDiffer
  <1> QED
    BY <1>3, <1>4, <1>5, <1>6, <1>7

\* An iteration of the loop at `step` does the item it works on.
LEMMA IterationFinishes ==
    ASSUME NEW g \in Nat \ {0}, NEW p \in Programs, p < g,
           NEW pcs, NEW works \in [Programs -> Nat], NEW step, NEW later, step \notin later,
           pcs[p] = step, works[p] % g = p, NEW i \in Nat,
           NEW works2, works2 = [works EXCEPT ![p] = @ + g]
    PROVE  Finished(pcs, works2, g, i, step, later)
              <=> Finished(pcs, works, g, i, step, later) \/ i = works[p]
  <1> DEFINE w == works[p]
  <1>1. w \in Nat /\ p \in Nat /\ w % g = p
    BY DEF Programs
  <1>2. i % g = p => (i < w + g <=> i < w \/ i = w)
    <2> SUFFICES ASSUME i % g = p, w < i, i < w + g PROVE FALSE
      BY <1>1
    <2>1. /\ i = (i \div g) * g + (i % g) /\ i \div g \in Int
          /\ w = (w \div g) * g + (w % g) /\ w \div g \in Int
      <3>1. \A z \in Nat : z = (z \div g) * g + (z % g) /\ z \div g \in Int
        OBVIOUS
      <3> QED
        BY <1>1, <3>1
    <2>2. (i \div g) * g \in Int /\ (w \div g) * g \in Int
      BY <2>1
    <2> DEFINE a == i \div g
               b == w \div g
    <2> HIDE DEF w
    <2>3. a \in Int /\ b \in Int /\ b * g < a * g /\ a * g < b * g + g
      BY <1>1, <2>1, <2>2
    <2> HIDE DEF a, b
    <2>4. ~(a <= b)
      <3> SUFFICES ASSUME a <= b PROVE FALSE
        OBVIOUS
      <3>1. a * g <= b * g
        BY <2>3, ProductOrder
      <3>2. a * g \in Int /\ b * g \in Int
        BY <2>3
      <3> QED
        BY <2>3, <3>1, <3>2
    <2>5. b + 1 <= a
      BY <2>3, <2>4
    <2>6. (b + 1) * g <= a * g
      BY <2>3, <2>5, ProductOrder
    <2>7. (b + 1) * g = b * g + g
      BY <2>3
    <2>8. a * g \in Int /\ b * g \in Int
      BY <2>3
    <2> QED
      BY <2>3, <2>6, <2>7, <2>8
  <1>3. i = w => i % g = p
    BY <1>1
  <1>4. i % g \in Int /\ w \in Int
    BY <1>1
  <1>5. CASE i % g = p
    BY <1>2, <1>4, <1>5 DEF Finished
  <1>6. CASE i % g # p
    BY <1>3, <1>6 DEF Finished
  <1> QED
    BY <1>5, <1>6

\* Going from one place of the code to another does no item.
LEMMA CrossingFinishesNothing ==
    ASSUME NEW g \in Nat \ {0}, NEW p \in Programs, p < g,
           NEW pcs \in [Programs -> Steps], NEW works \in [Programs -> Nat],
           NEW t, NEW v \in Nat, NEW step, NEW later, step \notin later,
           NEW pcs2, pcs2 = [pcs EXCEPT ![p] = t], NEW works2, works2 = [works EXCEPT ![p] = v],
           NEW count \in Nat, NEW i \in 0 .. count - 1,
           Crosses(pcs[p], works[p], t, v, p, step, later, count)
    PROVE  Finished(pcs2, works2, g, i, step, later)
              <=> Finished(pcs, works, g, i, step, later)
  <1>1. i % g = p => i >= p
    BY DEF Programs
  <1>2. i % g \in Nat /\ i % g < g /\ i \in Nat /\ p \in Nat /\ works[p] \in Nat
    BY DEF Programs
  <1>3. CASE i % g = p
    BY <1>1, <1>2, <1>3 DEF Finished, Crosses
  <1>4. CASE i % g # p
    BY <1>4 DEF Finished
  <1> QED
    BY <1>3, <1>4

-----------------------------------------------------------------------------
(* What a rank has done in the launch it is in, as sets of cells. *)

\* The cells whose payload it has pushed ...
issued == [r \in Ranks |-> {c \in Cells(M(r)) : launch[r] > 0 /\
    Finished(pc[r], work[r], GridOf(r), ItemOf(M(r), c), "push", AfterPush)}]

\* ... those it has summed for all ranks, in a two-shot launch ...
summed == [r \in Ranks |-> {c \in Cells(M(r)) : launch[r] > 0 /\
    /\ KernelOf(r) = "twoshot" /\ Owner(c) = r
    /\ Finished(pc[r], work[r], GridOf(r), OwnedItem(c), "reduce", AfterReduce)}]

\* ... those that hold their result ...
reduced == [r \in Ranks |-> {c \in Cells(M(r)) : launch[r] > 0 /\
    IF KernelOf(r) = "twoshot"
    THEN Finished(pc[r], work[r], GridOf(r), c[1], "consume", AfterConsume)
    ELSE Finished(pc[r], work[r], GridOf(r), ItemOf(M(r), c), "reduce", AfterReduce)}]

\* ... and the cells of its buffer that it has cleared.
Wipers(r) == {p \in Programs : /\ launch[r] > 0 /\ p < GridOf(r)
                               /\ pc[r][p] # "load" /\ cleared[r][p]}
wiped == [r \in Ranks |-> UNION {ClearCells(M(r), p, snap[r][p]) : p \in Wipers(r)}]

\* Program p of rank r goes to t with work index v.
LocalStep(r, p, t, v) ==
    /\ launch[r] > 0 /\ p < GridOf(r)
    /\ UNCHANGED <<backend, calls, launch>>
    /\ pc' = [pc EXCEPT ![r][p] = t]
    /\ work' = [work EXCEPT ![r][p] = v]

LoopTypes ==
    /\ work \in [Ranks -> [Programs -> Nat]]
    /\ cleared \in [Ranks -> [Programs -> BOOLEAN]]
    /\ DOMAIN stores = Ranks /\ \A r \in Ranks : DOMAIN stores[r] = Programs

\* Where a program can be.
Walk(r, p) ==
    /\ launch[r] > 0 /\ p < GridOf(r) =>
        /\ work[r][p] % GridOf(r) = p
        /\ pc[r][p] \in {"load", "arrive"} => work[r][p] = p
        /\ pc[r][p] \in {"phase", "spin", "norm"} => KernelOf(r) = "tiled"
        /\ pc[r][p] = "consume" => KernelOf(r) = "twoshot"
    /\ pc[r][p] = "done" => stores[r][p] = {} /\ cleared[r][p]

LoopInv == LoopTypes /\ \A r \in Ranks, p \in Programs : Walk(r, p)

\* The layout and the launch plan depend on the backend only.
LEMMA LayoutFixed ==
    ASSUME backend' = backend
    PROVE  /\ \A m : Kernel(m)' = Kernel(m) /\ Grid(m)' = Grid(m) /\ ItemCount(m)' = ItemCount(m)
           /\ \A m, c : ItemOf(m, c)' = ItemOf(m, c)
           /\ \A m, w : ItemCells(m, w)' = ItemCells(m, w)
           /\ \A m, p, sn : ClearCells(m, p, sn)' = ClearCells(m, p, sn)
           /\ \A m, s, x : Place(m, s, x)' = Place(m, s, x)
           /\ \A m, x, r : Addressed(m, x, r)' = Addressed(m, x, r)
           /\ \A m : Fits(m)' = Fits(m)
           /\ \A m, k : Compatible(m, k)' = Compatible(m, k)
           /\ BufferCells' = BufferCells
  <1>1. SlotCapacity' = SlotCapacity
    BY DEF SlotCapacity
  <1>2. \A s : SlotBase(s)' = SlotBase(s)
    BY <1>1 DEF SlotBase
  <1>3. \A m : Kernel(m)' = Kernel(m)
    BY DEF Kernel
  <1>4. \A m : ItemCount(m)' = ItemCount(m) /\ Grid(m)' = Grid(m) /\ Strategy(m)' = Strategy(m)
    BY <1>3 DEF ItemCount, Grid, Strategy, Smaller
  <1>5. \A m, c : ItemOf(m, c)' = ItemOf(m, c)
    BY <1>3 DEF ItemOf
  <1>6. \A m, w : ItemCells(m, w)' = ItemCells(m, w)
    BY <1>3 DEF ItemCells
  <1>7. \A m, p, sn : ClearCells(m, p, sn)' = ClearCells(m, p, sn)
    BY <1>2, <1>3, <1>4 DEF ClearCells
  <1>8. \A m, s, x : Place(m, s, x)' = Place(m, s, x)
    BY <1>2, <1>3 DEF Place, BroadcastCell, ScatterCell, OneShotCell
  <1>9. \A m, x, r : Addressed(m, x, r)' = Addressed(m, x, r)
    BY <1>3 DEF Addressed
  <1>10. \A m : Fits(m)' = Fits(m)
    BY <1>1, <1>3 DEF Fits
  <1>11. \A m, k : Compatible(m, k)' = Compatible(m, k)
    BY <1>3 DEF Compatible
  <1>12. BufferCells' = BufferCells
    BY <1>1 DEF BufferCells
  <1> QED
    BY <1>3, <1>4, <1>5, <1>6, <1>7, <1>8, <1>9, <1>10, <1>11, <1>12

\* The call of a rank stays while the rank makes no call.
LEMMA CallFixed ==
    ASSUME UNCHANGED <<backend, calls, launch>>
    PROVE  \A r : M(r)' = M(r) /\ GridOf(r)' = GridOf(r) /\ KernelOf(r)' = KernelOf(r)
  BY LayoutFixed DEF M, GridOf, KernelOf

\* The loops of the other ranks do not move.
LEMMA LoopsElsewhere ==
    ASSUME GenerationInv, LoopInv, NEW r \in Ranks, NEW p \in Programs, NEW t, NEW v,
           LocalStep(r, p, t, v)
    PROVE  /\ \A q \in Ranks : q # r => pc'[q] = pc[q] /\ work'[q] = work[q]
           /\ pc'[r] = [pc[r] EXCEPT ![p] = t] /\ work'[r] = [work[r] EXCEPT ![p] = v]
           /\ pc[r] \in [Programs -> Steps] /\ work[r] \in [Programs -> Nat]
           /\ M(r) \in 1 .. MaxTokens /\ GridOf(r) \in Nat \ {0}
           /\ KernelOf(r) \in {"twoshot", "tiled", "rowwise"}
  <1>1. pc \in [Ranks -> [Programs -> Steps]] /\ work \in [Ranks -> [Programs -> Nat]]
    BY DEF GenerationInv, ControlTypes, LoopInv, LoopTypes
  <1>2. M(r) \in 1 .. MaxTokens /\ GridOf(r) \in 1 .. ProgramLimit
    BY CurrentCall DEF LocalStep, GenerationInv
  <1>3. GridOf(r) \in Nat \ {0}
    BY <1>2, LayoutAssumption
  <1>4. KernelOf(r) \in {"twoshot", "tiled", "rowwise"}
    BY DEF KernelOf, Kernel
  <1> QED
    BY <1>1, <1>2, <1>3, <1>4 DEF LocalStep

\* Nothing is pushed, summed or finished by a program that crosses from one
\* place of its code to another.
LEMMA IssuedStays ==
    ASSUME GenerationInv, LoopInv, NEW r \in Ranks, NEW p \in Programs, NEW t, NEW v \in Nat,
           LocalStep(r, p, t, v),
           Crosses(pc[r][p], work[r][p], t, v, p, "push", AfterPush, ItemCount(M(r)))
    PROVE  issued' = issued
  <1>1. /\ \A q \in Ranks : M(q)' = M(q) /\ GridOf(q)' = GridOf(q) /\ launch'[q] = launch[q]
        /\ \A m, c : ItemOf(m, c)' = ItemOf(m, c)
    BY CallFixed, LayoutFixed DEF LocalStep
  <1>2. /\ \A q \in Ranks : q # r => pc'[q] = pc[q] /\ work'[q] = work[q]
        /\ pc'[r] = [pc[r] EXCEPT ![p] = t] /\ work'[r] = [work[r] EXCEPT ![p] = v]
        /\ pc[r] \in [Programs -> Steps] /\ work[r] \in [Programs -> Nat]
        /\ M(r) \in 1 .. MaxTokens /\ GridOf(r) \in Nat \ {0}
    BY LoopsElsewhere
  <1>5. p < GridOf(r)
    BY DEF LocalStep
  <1>3. ASSUME NEW c \in Cells(M(r))
        PROVE  Finished(pc'[r], work'[r], GridOf(r), ItemOf(M(r), c), "push", AfterPush)
                 <=> Finished(pc[r], work[r], GridOf(r), ItemOf(M(r), c), "push", AfterPush)
    <2>1. ItemCount(M(r)) \in Nat /\ ItemOf(M(r), c) \in 0 .. ItemCount(M(r)) - 1
      BY <1>2, Items
    <2>2. "push" \notin AfterPush
      BY DEF AfterPush
    <2> QED
      BY <1>2, <2>1, <1>5, <2>2, CrossingFinishesNothing
  <1> QED
    BY <1>1, <1>2, <1>3 DEF issued

LEMMA SummedStays ==
    ASSUME GenerationInv, LoopInv, NEW r \in Ranks, NEW p \in Programs, NEW t, NEW v \in Nat,
           LocalStep(r, p, t, v),
           KernelOf(r) = "twoshot" =>
              Crosses(pc[r][p], work[r][p], t, v, p, "reduce", AfterReduce, OwnedCount(r, M(r)))
    PROVE  summed' = summed
  <1>1. \A q \in Ranks : /\ M(q)' = M(q) /\ GridOf(q)' = GridOf(q) /\ launch'[q] = launch[q]
                         /\ KernelOf(q)' = KernelOf(q)
    BY CallFixed DEF LocalStep
  <1>2. /\ \A q \in Ranks : q # r => pc'[q] = pc[q] /\ work'[q] = work[q]
        /\ pc'[r] = [pc[r] EXCEPT ![p] = t] /\ work'[r] = [work[r] EXCEPT ![p] = v]
        /\ pc[r] \in [Programs -> Steps] /\ work[r] \in [Programs -> Nat]
        /\ M(r) \in 1 .. MaxTokens /\ GridOf(r) \in Nat \ {0}
    BY LoopsElsewhere
  <1>5. p < GridOf(r)
    BY DEF LocalStep
  <1>3. ASSUME NEW c \in Cells(M(r)), Owner(c) = r, KernelOf(r) = "twoshot"
        PROVE  Finished(pc'[r], work'[r], GridOf(r), OwnedItem(c), "reduce", AfterReduce)
                 <=> Finished(pc[r], work[r], GridOf(r), OwnedItem(c), "reduce", AfterReduce)
    <2>1. OwnedCount(r, M(r)) \in Nat /\ OwnedItem(c) \in 0 .. OwnedCount(r, M(r)) - 1
      BY <1>2, <1>3, OwnedWork
    <2>2. "reduce" \notin AfterReduce
      BY DEF AfterReduce
    <2>3. Crosses(pc[r][p], work[r][p], t, v, p, "reduce", AfterReduce, OwnedCount(r, M(r)))
      BY <1>3
    <2> QED
      BY <1>2, <2>1, <1>5, <2>2, <2>3, CrossingFinishesNothing
  <1> QED
    BY <1>1, <1>2, <1>3 DEF summed

LEMMA ReducedStays ==
    ASSUME GenerationInv, LoopInv, NEW r \in Ranks, NEW p \in Programs, NEW t, NEW v \in Nat,
           LocalStep(r, p, t, v),
           IF KernelOf(r) = "twoshot"
           THEN Crosses(pc[r][p], work[r][p], t, v, p, "consume", AfterConsume, M(r))
           ELSE Crosses(pc[r][p], work[r][p], t, v, p, "reduce", AfterReduce, ItemCount(M(r)))
    PROVE  reduced' = reduced
  <1>1. /\ \A q \in Ranks : /\ M(q)' = M(q) /\ GridOf(q)' = GridOf(q) /\ launch'[q] = launch[q]
                            /\ KernelOf(q)' = KernelOf(q)
        /\ \A m, c : ItemOf(m, c)' = ItemOf(m, c)
    BY CallFixed, LayoutFixed DEF LocalStep
  <1>2. /\ \A q \in Ranks : q # r => pc'[q] = pc[q] /\ work'[q] = work[q]
        /\ pc'[r] = [pc[r] EXCEPT ![p] = t] /\ work'[r] = [work[r] EXCEPT ![p] = v]
        /\ pc[r] \in [Programs -> Steps] /\ work[r] \in [Programs -> Nat]
        /\ M(r) \in 1 .. MaxTokens /\ GridOf(r) \in Nat \ {0}
    BY LoopsElsewhere
  <1>5. p < GridOf(r)
    BY DEF LocalStep
  <1>3. ASSUME NEW c \in Cells(M(r)), KernelOf(r) = "twoshot"
        PROVE  Finished(pc'[r], work'[r], GridOf(r), c[1], "consume", AfterConsume)
                 <=> Finished(pc[r], work[r], GridOf(r), c[1], "consume", AfterConsume)
    <2>1. M(r) \in Nat /\ c[1] \in 0 .. M(r) - 1
      BY <1>2, CellOffsets, LayoutAssumption
    <2>2. "consume" \notin AfterConsume
      BY DEF AfterConsume
    <2> QED
      BY <1>2, <1>3, <2>1, <1>5, <2>2, CrossingFinishesNothing
  <1>4. ASSUME NEW c \in Cells(M(r)), KernelOf(r) # "twoshot"
        PROVE  Finished(pc'[r], work'[r], GridOf(r), ItemOf(M(r), c), "reduce", AfterReduce)
                 <=> Finished(pc[r], work[r], GridOf(r), ItemOf(M(r), c), "reduce", AfterReduce)
    <2>1. ItemCount(M(r)) \in Nat /\ ItemOf(M(r), c) \in 0 .. ItemCount(M(r)) - 1
      BY <1>2, Items
    <2>2. "reduce" \notin AfterReduce
      BY DEF AfterReduce
    <2> QED
      BY <1>2, <1>4, <2>1, <1>5, <2>2, CrossingFinishesNothing
  <1> QED
    BY <1>1, <1>2, <1>3, <1>4 DEF reduced

\* What a program that is at work knows of itself.
LEMMA AtWork ==
    ASSUME GenerationInv, LoopInv, NEW r \in Ranks, NEW p \in Programs, pc[r][p] # "done"
    PROVE  /\ launch[r] > 0 /\ launch[r] \in Nat /\ p < GridOf(r)
           /\ M(r) \in 1 .. MaxTokens /\ GridOf(r) \in Nat \ {0}
           /\ pc[r] \in [Programs -> Steps] /\ work[r] \in [Programs -> Nat]
           /\ work[r][p] \in Nat /\ work[r][p] % GridOf(r) = p
  <1>1. launch[r] \in Nat /\ RankInv(r)
    BY DEF GenerationInv, ControlTypes
  <1>2. launch[r] > 0
    BY <1>1 DEF RankInv, Idle
  <1>3. M(r) \in 1 .. MaxTokens /\ GridOf(r) \in 1 .. ProgramLimit
    BY <1>2, CurrentCall DEF GenerationInv
  <1>4. GridOf(r) \in Nat \ {0}
    BY <1>3, LayoutAssumption
  <1>5. p < GridOf(r)
    <2>1. ~(p >= GridOf(r))
      BY <1>1, <1>2 DEF RankInv
    <2> QED
      BY <1>4, <2>1 DEF Programs
  <1>6. pc[r] \in [Programs -> Steps] /\ work[r] \in [Programs -> Nat]
    BY DEF GenerationInv, ControlTypes, LoopInv, LoopTypes
  <1>7. work[r][p] % GridOf(r) = p
    BY <1>2, <1>5 DEF LoopInv, Walk
  <1> QED
    BY <1>1, <1>2, <1>3, <1>4, <1>5, <1>6, <1>7

\* An iteration: the program counters stay, one work index goes on.
LEMMA Iterating ==
    ASSUME GenerationInv, LoopInv, NEW r \in Ranks, NEW p \in Programs,
           NEW step \in Steps \ {"done"}, NEW count \in Nat, Iterate(r, p, step, count),
           UNCHANGED <<backend, calls, launch, pc>>
    PROVE  /\ LocalStep(r, p, step, work[r][p] + GridOf(r))
           /\ pc[r][p] = step /\ work[r][p] \in 0 .. count - 1
           /\ work[r][p] + GridOf(r) \in Nat
           /\ (work[r][p] + GridOf(r)) % GridOf(r) = p
  <1>1. pc[r][p] = step /\ work[r][p] < count
        /\ work' = [work EXCEPT ![r][p] = work[r][p] + GridOf(r)]
    BY DEF Iterate
  <1>2. launch[r] > 0 /\ p < GridOf(r) /\ work[r][p] \in Nat /\ GridOf(r) \in Nat \ {0}
        /\ work[r][p] % GridOf(r) = p
    BY <1>1, AtWork
  <1>3. pc' = [pc EXCEPT ![r][p] = step]
    BY <1>1 DEF GenerationInv, ControlTypes
  <1>4. (work[r][p] + GridOf(r)) % GridOf(r) = work[r][p] % GridOf(r)
    <2>1. \A w \in Nat, g \in Nat \ {0} : (w + g) % g = w % g
      <3> SUFFICES ASSUME NEW w \in Nat, NEW g \in Nat \ {0} PROVE (w + g) % g = w % g
        OBVIOUS
      <3>1. /\ w = (w \div g) * g + (w % g) /\ w \div g \in Int /\ w % g \in 0 .. g - 1
            /\ w + g = ((w + g) \div g) * g + ((w + g) % g)
            /\ (w + g) \div g \in Int /\ (w + g) % g \in 0 .. g - 1
        <4>1. \A z \in Nat : z = (z \div g) * g + (z % g) /\ z \div g \in Int /\ z % g \in 0 .. g - 1
          OBVIOUS
        <4>2. w \in Nat /\ w + g \in Nat
          OBVIOUS
        <4> QED
          BY ONLY <4>1, <4>2
      <3> DEFINE a == w \div g
                 b == (w + g) \div g
                 x == w % g
                 y == (w + g) % g
      <3>2. /\ a \in Int /\ b \in Int /\ x \in 0 .. g - 1 /\ y \in 0 .. g - 1
            /\ w = a * g + x /\ w + g = b * g + y
        BY <3>1
      <3> HIDE DEF a, b, x, y
      <3>3. (a + 1) * g = a * g + g /\ a * g \in Int /\ b * g \in Int
        BY <3>2
      <3>4. (a + 1) * g + x = b * g + y
        BY <3>2, <3>3
      <3>5. Number(a + 1, x, g) = Number(b, y, g) /\ a + 1 \in Int
        BY <3>2, <3>4 DEF Number
      <3>6. x = y
        BY <3>2, <3>5, NumbersDiffer
      <3> QED
        BY <3>6 DEF x, y
    <2> QED
      BY <1>2, <2>1
  <1>5. LocalStep(r, p, step, work[r][p] + GridOf(r))
    BY <1>1, <1>2, <1>3 DEF LocalStep
  <1>6. work[r][p] \in 0 .. count - 1 /\ work[r][p] + GridOf(r) \in Nat
    BY <1>1, <1>2
  <1> QED
    BY <1>1, <1>2, <1>4, <1>5, <1>6

\* The push loop has pushed the cells of one more item.
LEMMA IssuedGrows ==
    ASSUME GenerationInv, LoopInv, NEW r \in Ranks, NEW p \in Programs,
           Iterate(r, p, "push", ItemCount(M(r))), UNCHANGED <<backend, calls, launch, pc>>
    PROVE  issued' = [issued EXCEPT ![r] = @ \cup ItemCells(M(r), work[r][p])]
  <1> DEFINE w == work[r][p]
  <1>1. pc[r][p] = "push" /\ work' = [work EXCEPT ![r][p] = @ + GridOf(r)] /\ w < ItemCount(M(r))
    BY DEF Iterate
  <1>2. /\ launch[r] > 0 /\ p < GridOf(r) /\ M(r) \in 1 .. MaxTokens /\ GridOf(r) \in Nat \ {0}
        /\ work[r] \in [Programs -> Nat] /\ w \in Nat /\ w % GridOf(r) = p
    BY <1>1, AtWork
  <1>3. /\ \A q \in Ranks : M(q)' = M(q) /\ GridOf(q)' = GridOf(q) /\ launch'[q] = launch[q]
        /\ \A m, c : ItemOf(m, c)' = ItemOf(m, c)
    BY CallFixed, LayoutFixed
  <1>4. /\ \A q \in Ranks : q # r => work'[q] = work[q]
        /\ work'[r] = [work[r] EXCEPT ![p] = @ + GridOf(r)]
    BY <1>1 DEF LoopInv, LoopTypes
  <1>5. /\ ItemCount(M(r)) \in Nat
        /\ \A c \in Cells(M(r)) : ItemOf(M(r), c) \in 0 .. ItemCount(M(r)) - 1
        /\ \A c : c \in ItemCells(M(r), w) <=> c \in Cells(M(r)) /\ ItemOf(M(r), c) = w
    BY <1>1, <1>2, Items
  <1>6. ASSUME NEW c \in Cells(M(r))
        PROVE  Finished(pc[r], work'[r], GridOf(r), ItemOf(M(r), c), "push", AfterPush)
                 <=> \/ Finished(pc[r], work[r], GridOf(r), ItemOf(M(r), c), "push", AfterPush)
                     \/ ItemOf(M(r), c) = w
    <2>1. ItemOf(M(r), c) \in Nat
      BY <1>5
    <2>2. "push" \notin AfterPush
      BY DEF AfterPush
    <2> QED
      BY <1>1, <1>2, <1>4, <2>1, <2>2, IterationFinishes
  <1> HIDE DEF w
  <1>7. ASSUME NEW q \in Ranks, q # r PROVE issued'[q] = issued[q]
    BY <1>3, <1>4, <1>7 DEF issued
  <1>8. issued'[r] = issued[r] \cup ItemCells(M(r), w)
    BY <1>2, <1>3, <1>5, <1>6 DEF issued
  <1>9. issued' = [q \in Ranks |-> issued'[q]] /\ issued = [q \in Ranks |-> issued[q]]
    BY DEF issued
  <1> HIDE DEF w
  <1>10. issued' = [issued EXCEPT ![r] = issued[r] \cup ItemCells(M(r), w)]
    <2> HIDE DEF issued
    <2> QED
      BY <1>7, <1>8, <1>9
  <1> QED
    BY <1>10 DEF w

\* The owner's loop has summed one more cell.
LEMMA SummedGrows ==
    ASSUME GenerationInv, LoopInv, NEW r \in Ranks, NEW p \in Programs,
           Iterate(r, p, "reduce", OwnedCount(r, M(r))), KernelOf(r) = "twoshot",
           UNCHANGED <<backend, calls, launch, pc>>
    PROVE  summed' = [summed EXCEPT ![r] = @ \cup {OwnedCell(r, work[r][p])}]
  <1> DEFINE w == work[r][p]
  <1>1. pc[r][p] = "reduce" /\ work' = [work EXCEPT ![r][p] = @ + GridOf(r)]
        /\ w < OwnedCount(r, M(r))
    BY DEF Iterate
  <1>2. /\ launch[r] > 0 /\ p < GridOf(r) /\ M(r) \in 1 .. MaxTokens /\ GridOf(r) \in Nat \ {0}
        /\ work[r] \in [Programs -> Nat] /\ w \in Nat /\ w % GridOf(r) = p
    BY <1>1, AtWork
  <1>3. \A q \in Ranks : /\ M(q)' = M(q) /\ GridOf(q)' = GridOf(q) /\ launch'[q] = launch[q]
                         /\ KernelOf(q)' = KernelOf(q)
    BY CallFixed
  <1>4. /\ \A q \in Ranks : q # r => work'[q] = work[q]
        /\ work'[r] = [work[r] EXCEPT ![p] = @ + GridOf(r)]
    BY <1>1 DEF LoopInv, LoopTypes
  <1>5. /\ OwnedCount(r, M(r)) \in Nat
        /\ \A c \in Cells(M(r)) : Owner(c) = r => OwnedItem(c) \in 0 .. OwnedCount(r, M(r)) - 1
        /\ w \in 0 .. OwnedCount(r, M(r)) - 1
    BY <1>1, <1>2, OwnedWork
  <1>6. \A c : c = OwnedCell(r, w) <=> c \in Cells(M(r)) /\ Owner(c) = r /\ OwnedItem(c) = w
    BY <1>2, <1>5, OwnedWork
  <1>7. ASSUME NEW c \in Cells(M(r)), Owner(c) = r
        PROVE  Finished(pc[r], work'[r], GridOf(r), OwnedItem(c), "reduce", AfterReduce)
                 <=> \/ Finished(pc[r], work[r], GridOf(r), OwnedItem(c), "reduce", AfterReduce)
                     \/ OwnedItem(c) = w
    <2>1. OwnedItem(c) \in Nat
      BY <1>5, <1>7
    <2>2. "reduce" \notin AfterReduce
      BY DEF AfterReduce
    <2> QED
      BY <1>1, <1>2, <1>4, <2>1, <2>2, IterationFinishes
  <1> HIDE DEF w
  <1>8. ASSUME NEW q \in Ranks, q # r PROVE summed'[q] = summed[q]
    BY <1>3, <1>4, <1>8 DEF summed
  <1>9. summed'[r] = summed[r] \cup {OwnedCell(r, w)}
    BY <1>2, <1>3, <1>6, <1>7 DEF summed
  <1>10. summed' = [q \in Ranks |-> summed'[q]] /\ summed = [q \in Ranks |-> summed[q]]
    BY DEF summed
  <1>11. summed' = [summed EXCEPT ![r] = summed[r] \cup {OwnedCell(r, w)}]
    <2> HIDE DEF summed
    <2> QED
      BY <1>8, <1>9, <1>10
  <1> QED
    BY <1>11 DEF w

\* The reduction of a one-shot launch has finished the cells of one more item.
LEMMA ReducedGrows ==
    ASSUME GenerationInv, LoopInv, NEW r \in Ranks, NEW p \in Programs,
           Iterate(r, p, "reduce", ItemCount(M(r))), KernelOf(r) # "twoshot",
           UNCHANGED <<backend, calls, launch, pc>>
    PROVE  reduced' = [reduced EXCEPT ![r] = @ \cup ItemCells(M(r), work[r][p])]
  <1> DEFINE w == work[r][p]
  <1>1. pc[r][p] = "reduce" /\ work' = [work EXCEPT ![r][p] = @ + GridOf(r)] /\ w < ItemCount(M(r))
    BY DEF Iterate
  <1>2. /\ launch[r] > 0 /\ p < GridOf(r) /\ M(r) \in 1 .. MaxTokens /\ GridOf(r) \in Nat \ {0}
        /\ work[r] \in [Programs -> Nat] /\ w \in Nat /\ w % GridOf(r) = p
    BY <1>1, AtWork
  <1>3. /\ \A q \in Ranks : /\ M(q)' = M(q) /\ GridOf(q)' = GridOf(q) /\ launch'[q] = launch[q]
                            /\ KernelOf(q)' = KernelOf(q)
        /\ \A m, c : ItemOf(m, c)' = ItemOf(m, c)
    BY CallFixed, LayoutFixed
  <1>4. /\ \A q \in Ranks : q # r => work'[q] = work[q]
        /\ work'[r] = [work[r] EXCEPT ![p] = @ + GridOf(r)]
    BY <1>1 DEF LoopInv, LoopTypes
  <1>5. /\ ItemCount(M(r)) \in Nat
        /\ \A c \in Cells(M(r)) : ItemOf(M(r), c) \in 0 .. ItemCount(M(r)) - 1
        /\ \A c : c \in ItemCells(M(r), w) <=> c \in Cells(M(r)) /\ ItemOf(M(r), c) = w
    BY <1>1, <1>2, Items
  <1>6. ASSUME NEW c \in Cells(M(r))
        PROVE  Finished(pc[r], work'[r], GridOf(r), ItemOf(M(r), c), "reduce", AfterReduce)
                 <=> \/ Finished(pc[r], work[r], GridOf(r), ItemOf(M(r), c), "reduce", AfterReduce)
                     \/ ItemOf(M(r), c) = w
    <2>1. ItemOf(M(r), c) \in Nat
      BY <1>5
    <2>2. "reduce" \notin AfterReduce
      BY DEF AfterReduce
    <2> QED
      BY <1>1, <1>2, <1>4, <2>1, <2>2, IterationFinishes
  <1> HIDE DEF w
  <1>7. ASSUME NEW q \in Ranks, q # r PROVE reduced'[q] = reduced[q]
    BY <1>3, <1>4, <1>7 DEF reduced
  <1>8. reduced'[r] = reduced[r] \cup ItemCells(M(r), w)
    BY <1>2, <1>3, <1>5, <1>6 DEF reduced
  <1>9. reduced' = [q \in Ranks |-> reduced'[q]] /\ reduced = [q \in Ranks |-> reduced[q]]
    BY DEF reduced
  <1>10. reduced' = [reduced EXCEPT ![r] = reduced[r] \cup ItemCells(M(r), w)]
    <2> HIDE DEF reduced
    <2> QED
      BY <1>7, <1>8, <1>9
  <1> QED
    BY <1>10 DEF w

\* The consume loop of a two-shot launch has finished one more row.
LEMMA ReducedGrowsByRow ==
    ASSUME GenerationInv, LoopInv, NEW r \in Ranks, NEW p \in Programs,
           Iterate(r, p, "consume", M(r)), KernelOf(r) = "twoshot",
           UNCHANGED <<backend, calls, launch, pc>>
    PROVE  reduced' = [reduced EXCEPT ![r] = @ \cup ({work[r][p]} \X Tiles)]
  <1> DEFINE w == work[r][p]
  <1>1. pc[r][p] = "consume" /\ work' = [work EXCEPT ![r][p] = @ + GridOf(r)] /\ w < M(r)
    BY DEF Iterate
  <1>2. /\ launch[r] > 0 /\ p < GridOf(r) /\ M(r) \in 1 .. MaxTokens /\ GridOf(r) \in Nat \ {0}
        /\ work[r] \in [Programs -> Nat] /\ w \in Nat /\ w % GridOf(r) = p
    BY <1>1, AtWork
  <1>3. \A q \in Ranks : /\ M(q)' = M(q) /\ GridOf(q)' = GridOf(q) /\ launch'[q] = launch[q]
                         /\ KernelOf(q)' = KernelOf(q)
    BY CallFixed
  <1>10. \A m, c : ItemOf(m, c)' = ItemOf(m, c)
    BY LayoutFixed
  <1>4. /\ \A q \in Ranks : q # r => work'[q] = work[q]
        /\ work'[r] = [work[r] EXCEPT ![p] = @ + GridOf(r)]
    BY <1>1 DEF LoopInv, LoopTypes
  <1>5. \A c : c \in {w} \X Tiles <=> c \in Cells(M(r)) /\ c[1] = w
    <2>1. M(r) \in Nat /\ w \in 0 .. M(r) - 1
      BY <1>1, <1>2, LayoutAssumption
    <2> QED
      BY <2>1 DEF Cells
  <1>6. ASSUME NEW c \in Cells(M(r))
        PROVE  Finished(pc[r], work'[r], GridOf(r), c[1], "consume", AfterConsume)
                 <=> \/ Finished(pc[r], work[r], GridOf(r), c[1], "consume", AfterConsume)
                     \/ c[1] = w
    <2>1. c[1] \in Nat
      BY <1>2, CellOffsets
    <2>2. "consume" \notin AfterConsume
      BY DEF AfterConsume
    <2> QED
      BY <1>1, <1>2, <1>4, <2>1, <2>2, IterationFinishes
  <1> HIDE DEF w
  <1>7. ASSUME NEW q \in Ranks, q # r PROVE reduced'[q] = reduced[q]
    BY <1>3, <1>4, <1>7, <1>10 DEF reduced
  <1>8. reduced'[r] = reduced[r] \cup ({w} \X Tiles)
    BY <1>2, <1>3, <1>5, <1>6 DEF reduced
  <1>9. reduced' = [q \in Ranks |-> reduced'[q]] /\ reduced = [q \in Ranks |-> reduced[q]]
    BY DEF reduced
  <1>11. reduced' = [reduced EXCEPT ![r] = reduced[r] \cup ({w} \X Tiles)]
    <2> HIDE DEF reduced
    <2> QED
      BY <1>7, <1>8, <1>9
  <1> QED
    BY <1>11 DEF w

\* A step that neither loads nor clears leaves the cleared cells as they are.
LEMMA WipedStays ==
    ASSUME GenerationInv, LoopInv, NEW r \in Ranks, NEW p \in Programs, NEW t \in Steps,
           UNCHANGED <<backend, calls, launch, snap, cleared>>,
           pc' = [pc EXCEPT ![r][p] = t], pc[r][p] # "load", t # "load"
    PROVE  wiped' = wiped
  <1>1. /\ \A q \in Ranks : M(q)' = M(q) /\ GridOf(q)' = GridOf(q)
        /\ \A m, o, sn : ClearCells(m, o, sn)' = ClearCells(m, o, sn)
    BY CallFixed, LayoutFixed
  <1>2. \A q \in Ranks, o \in Programs : pc'[q][o] # "load" <=> pc[q][o] # "load"
    BY DEF GenerationInv, ControlTypes
  <1>3. \A q \in Ranks : Wipers(q)' = Wipers(q)
    BY <1>1, <1>2 DEF Wipers
  <1> QED
    BY <1>1, <1>3 DEF wiped

\* A program that has just loaded has cleared nothing.
LEMMA WipedByLoad ==
    ASSUME GenerationInv, LoopInv, NEW r \in Ranks, NEW p \in Programs, Load(r, p)
    PROVE  wiped' = wiped
  <1>1. UNCHANGED <<backend, calls, launch>>
    BY DEF Load, control
  <1>2. /\ \A q \in Ranks : M(q)' = M(q) /\ GridOf(q)' = GridOf(q)
        /\ \A m, o, sn : ClearCells(m, o, sn)' = ClearCells(m, o, sn)
    BY <1>1, CallFixed, LayoutFixed
  <1>3. /\ pc[r][p] = "load"
        /\ \A q \in Ranks, o \in Programs : ~(q = r /\ o = p) =>
              /\ pc'[q][o] = pc[q][o] /\ snap'[q][o] = snap[q][o]
              /\ cleared'[q][o] = cleared[q][o]
        /\ cleared'[r][p] = (ClearCells(M(r), p, snap'[r][p]) = {})
    BY DEF Load, GenerationInv, ControlTypes, LoopInv, LoopTypes
  <1>4. ASSUME NEW q \in Ranks
        PROVE  /\ \A o \in Programs : ~(q = r /\ o = p) => (o \in Wipers(q)' <=> o \in Wipers(q))
               /\ p \notin Wipers(r)
               /\ p \in Wipers(r)' => ClearCells(M(r), p, snap'[r][p]) = {}
    BY <1>1, <1>2, <1>3 DEF Wipers
  <1>5. ASSUME NEW q \in Ranks
        PROVE  UNION {ClearCells(M(q), o, snap'[q][o]) : o \in Wipers(q)'}
                  = UNION {ClearCells(M(q), o, snap[q][o]) : o \in Wipers(q)}
    <2>1. Wipers(q)' \subseteq Programs /\ Wipers(q) \subseteq Programs
      BY DEF Wipers
    <2> QED
      BY <1>3, <1>4, <2>1
  <1> QED
    BY <1>2, <1>5 DEF wiped

\* The clear pass of a program adds its share.
LEMMA WipedByClear ==
    ASSUME GenerationInv, LoopInv, NEW r \in Ranks, NEW p \in Programs, Clear(r, p)
    PROVE  wiped' = [wiped EXCEPT ![r] = @ \cup ClearCells(M(r), p, snap[r][p])]
  <1>1. UNCHANGED <<backend, calls, launch, pc, snap>>
    BY DEF Clear, control
  <1>2. /\ \A q \in Ranks : M(q)' = M(q) /\ GridOf(q)' = GridOf(q)
        /\ \A m, o, sn : ClearCells(m, o, sn)' = ClearCells(m, o, sn)
    BY <1>1, CallFixed, LayoutFixed
  <1>3. /\ pc[r][p] # "load" /\ ~cleared[r][p] /\ cleared'[r][p]
        /\ \A q \in Ranks, o \in Programs : ~(q = r /\ o = p) => cleared'[q][o] = cleared[q][o]
    BY DEF Clear, LoopInv, LoopTypes
  <1>4. pc[r][p] # "done"
    BY <1>3 DEF LoopInv, Walk
  <1>5. launch[r] > 0 /\ p < GridOf(r)
    BY <1>4, AtWork
  <1>6. Wipers(r)' = Wipers(r) \cup {p} /\ \A q \in Ranks : q # r => Wipers(q)' = Wipers(q)
    BY <1>1, <1>2, <1>3, <1>5 DEF Wipers
  <1>7. ASSUME NEW q \in Ranks, q # r PROVE wiped'[q] = wiped[q]
    BY <1>1, <1>2, <1>6, <1>7 DEF wiped
  <1>8. wiped'[r] = wiped[r] \cup ClearCells(M(r), p, snap[r][p])
    BY <1>1, <1>2, <1>6 DEF wiped
  <1>9. wiped' = [q \in Ranks |-> wiped'[q]] /\ wiped = [q \in Ranks |-> wiped[q]]
    BY DEF wiped
  <1> HIDE DEF wiped
  <1> QED
    BY <1>7, <1>8, <1>9

-----------------------------------------------------------------------------
(* Every program keeps to its own items and to the code of its kernel. *)

LEMMA LoopInit == Init => LoopInv
  <1> SUFFICES ASSUME Init PROVE LoopInv
    OBVIOUS
  <1>1. LoopTypes
    BY DEF Init, LoopTypes, Programs
  <1>2. ASSUME NEW r \in Ranks, NEW p \in Programs PROVE Walk(r, p)
    <2>1. launch[r] = 0 /\ pc[r][p] = "done" /\ stores[r][p] = {} /\ cleared[r][p]
      BY DEF Init
    <2> QED
      BY <2>1 DEF Walk
  <1> QED
    BY <1>1, <1>2 DEF LoopInv

\* A program that goes from pc[r][p] to t, as far as the loops are concerned.
LEMMA LoopsMove ==
    ASSUME GenerationInv, LoopInv, NEW r \in Ranks, NEW p \in Programs,
           NEW t \in Steps \ {"load", "arrive"}, NEW v \in Nat, v % GridOf(r) = p,
           LocalStep(r, p, t, v),
           t \in {"phase", "spin", "norm"} => KernelOf(r) = "tiled",
           t = "consume" => KernelOf(r) = "twoshot",
           t = "done" => stores'[r][p] = {} /\ cleared'[r][p],
           DOMAIN stores' = Ranks, \A q \in Ranks : DOMAIN stores'[q] = Programs,
           cleared' \in [Ranks -> [Programs -> BOOLEAN]],
           \A q \in Ranks, o \in Programs : ~(q = r /\ o = p) =>
              stores'[q][o] = stores[q][o] /\ cleared'[q][o] = cleared[q][o]
    PROVE  LoopInv'
  <1>1. pc \in [Ranks -> [Programs -> Steps]] /\ work \in [Ranks -> [Programs -> Nat]]
    BY DEF GenerationInv, ControlTypes, LoopInv, LoopTypes
  <1>2. pc' = [pc EXCEPT ![r][p] = t] /\ work' = [work EXCEPT ![r][p] = v]
        /\ \A q \in Ranks : launch'[q] = launch[q]
    BY DEF LocalStep
  <1>3. \A q \in Ranks : M(q)' = M(q) /\ GridOf(q)' = GridOf(q) /\ KernelOf(q)' = KernelOf(q)
    BY CallFixed DEF LocalStep
  <1>4. LoopTypes'
    BY <1>1, <1>2 DEF LoopTypes
  <1>5. ASSUME NEW q \in Ranks, NEW o \in Programs, ~(q = r /\ o = p) PROVE Walk(q, o)'
    <2>1. pc'[q][o] = pc[q][o] /\ work'[q][o] = work[q][o]
      BY <1>1, <1>2, <1>5
    <2>2. Walk(q, o)
      BY DEF LoopInv
    <2>3. stores'[q][o] = stores[q][o] /\ cleared'[q][o] = cleared[q][o]
      BY <1>5
    <2> QED
      BY <1>2, <1>3, <2>1, <2>2, <2>3 DEF Walk
  <1>6. Walk(r, p)'
    <2>1. pc'[r][p] = t /\ work'[r][p] = v
      BY <1>1, <1>2
    <2> QED
      BY <1>2, <1>3, <2>1 DEF Walk
  <1> QED
    BY <1>4, <1>5, <1>6 DEF LoopInv

\* The same for a program that keeps its stores and its sentinel stores.
LEMMA LoopsHop ==
    ASSUME GenerationInv, LoopInv, NEW r \in Ranks, NEW p \in Programs,
           NEW t \in Steps \ {"load", "arrive"}, NEW v \in Nat, v % GridOf(r) = p,
           LocalStep(r, p, t, v),
           t \in {"phase", "spin", "norm"} => KernelOf(r) = "tiled",
           t = "consume" => KernelOf(r) = "twoshot",
           t = "done" => stores[r][p] = {} /\ cleared[r][p],
           UNCHANGED <<stores, cleared>>
    PROVE  LoopInv'
  <1>1. /\ DOMAIN stores' = Ranks /\ \A q \in Ranks : DOMAIN stores'[q] = Programs
        /\ cleared' \in [Ranks -> [Programs -> BOOLEAN]]
    BY DEF LoopInv, LoopTypes
  <1>2. stores' = stores /\ cleared' = cleared
    OBVIOUS
  <1> QED
    BY <1>1, <1>2, LoopsMove

\* A program leaves a loop, or goes on with its work index.
LEMMA LeavingIsLocal ==
    ASSUME GenerationInv, LoopInv, NEW r \in Ranks, NEW p \in Programs,
           NEW step \in Steps \ {"done"}, NEW count, NEW next, Leave(r, p, step, count, next)
    PROVE  /\ LocalStep(r, p, next, p) /\ pc[r][p] = step /\ work[r][p] >= count
           /\ p \in Nat /\ p % GridOf(r) = p /\ UNCHANGED <<snap, stores, cleared>>
  <1>1. pc[r][p] = step
    BY DEF Leave
  <1>2. launch[r] > 0 /\ p < GridOf(r) /\ GridOf(r) \in Nat \ {0}
    BY <1>1, AtWork
  <1>3. p \in Nat
    BY DEF Programs
  <1> QED
    BY <1>1, <1>2, <1>3 DEF Leave, LocalStep, control, memory

LEMMA HoppingIsLocal ==
    ASSUME GenerationInv, LoopInv, NEW r \in Ranks, NEW p \in Programs, NEW t,
           pc[r][p] # "done", pc' = [pc EXCEPT ![r][p] = t],
           UNCHANGED <<backend, calls, launch, work>>
    PROVE  /\ LocalStep(r, p, t, work[r][p])
           /\ work[r][p] \in Nat /\ work[r][p] % GridOf(r) = p
  <1>1. launch[r] > 0 /\ p < GridOf(r) /\ work[r][p] \in Nat /\ work[r][p] % GridOf(r) = p
    BY AtWork
  <1>2. work' = [work EXCEPT ![r][p] = work[r][p]]
    BY DEF LoopInv, LoopTypes
  <1> QED
    BY <1>1, <1>2 DEF LocalStep

LEMMA LoopsStart ==
    ASSUME GenerationInv, LoopInv, NEW r \in Ranks, Start(r)
    PROVE  LoopInv'
  <1> DEFINE m == calls'[launch'[r]]
  <1>1. /\ launch' = [launch EXCEPT ![r] = @ + 1] /\ UNCHANGED <<backend, stores, cleared>>
        /\ pc' = [pc EXCEPT ![r] = [p \in Programs |-> IF p < Grid(m) THEN "load" ELSE "done"]]
        /\ work' = [work EXCEPT ![r] = [p \in Programs |-> p]]
    <2>1. \A k : Grid(k)' = Grid(k)
      BY GridFixed DEF Start
    <2> QED
      BY <2>1 DEF Start
  <1>2. GenerationInv'
    BY GenerationStart
  <1>3. Programs \subseteq Nat
    BY DEF Programs
  <1>4. LoopTypes'
    BY <1>1, <1>3 DEF LoopInv, LoopTypes
  <1>5. \A k : Grid(k)' = Grid(k) /\ Kernel(k)' = Kernel(k)
    BY <1>1, LayoutFixed
  <1>6. ASSUME NEW q \in Ranks, q # r, NEW p \in Programs PROVE Walk(q, p)'
    <2>1. pc'[q] = pc[q] /\ work'[q] = work[q] /\ launch'[q] = launch[q]
      BY <1>1, <1>6 DEF GenerationInv, ControlTypes, LoopInv, LoopTypes
    <2>2. launch[q] > 0 => M(q)' = M(q)
      <3>1. launch[q] > 0 => launch[q] \in 1 .. Len(calls)
        BY DEF GenerationInv, ControlTypes
      <3>2. \A i \in 1 .. Len(calls) : calls'[i] = calls[i]
        <4>1. CASE launch[r] < Len(calls)
          BY <4>1 DEF Start
        <4>2. CASE ~(launch[r] < Len(calls))
          <5>1. PICK k \in TokenCounts[backend] : calls' = Append(calls, k)
            BY <4>2 DEF Start
          <5>2. calls \in Seq(1 .. MaxTokens) /\ k \in 1 .. MaxTokens
            BY CallAssumption DEF GenerationInv, ControlTypes
          <5> QED
            BY <5>1, <5>2
        <4> QED
          BY <4>1, <4>2
      <3> QED
        BY <2>1, <3>1, <3>2 DEF M
    <2>3. Walk(q, p)
      BY DEF LoopInv
    <2> QED
      BY <1>1, <1>5, <2>1, <2>2, <2>3 DEF Walk, GridOf, KernelOf
  <1>7. ASSUME NEW p \in Programs PROVE Walk(r, p)'
    <2>1. /\ work'[r][p] = p /\ pc'[r][p] = IF p < Grid(m) THEN "load" ELSE "done"
          /\ launch'[r] \in Nat
      BY <1>1 DEF GenerationInv, ControlTypes, LoopInv, LoopTypes
    <2>2. M(r)' = m /\ GridOf(r)' = Grid(m)
      BY <1>5 DEF M, GridOf
    <2>3. launch'[r] > 0 => Grid(m) \in Nat \ {0}
      <3> SUFFICES ASSUME launch'[r] > 0 PROVE Grid(m) \in Nat \ {0}
        OBVIOUS
      <3>1. calls' \in Seq(1 .. MaxTokens) /\ launch'[r] \in 1 .. Len(calls')
        BY <1>2 DEF GenerationInv, ControlTypes
      <3>2. m \in 1 .. MaxTokens
        BY <3>1, SequenceElement
      <3>3. m \in Nat \ {0}
        BY <3>2, CallsArePositive
      <3>4. Grid(m) \in 1 .. ProgramLimit
        BY <3>3, GridBounds
      <3> QED
        BY <3>4, LayoutAssumption
    <2>4. stores'[r][p] = {} /\ cleared'[r][p]
      BY <1>1 DEF Start, Idle, LoopInv, Walk
    <2>5. launch'[r] > 0 /\ p < Grid(m) => work'[r][p] % Grid(m) = p
      BY <1>3, <2>1, <2>3
    <2> QED
      BY <2>1, <2>2, <2>4, <2>5 DEF Walk
  <1> QED
    BY <1>4, <1>6, <1>7 DEF LoopInv

-----------------------------------------------------------------------------
(* What the steps of a program do to the loops. *)

\* Nothing is pushed, summed, finished or cleared.
Quiet == issued' = issued /\ summed' = summed /\ reduced' = reduced /\ wiped' = wiped

\* The three loops that matter are crossed without doing an item.
CrossesLoops(r, p, t, v) ==
    /\ Crosses(pc[r][p], work[r][p], t, v, p, "push", AfterPush, ItemCount(M(r)))
    /\ KernelOf(r) = "twoshot" =>
         /\ Crosses(pc[r][p], work[r][p], t, v, p, "reduce", AfterReduce, OwnedCount(r, M(r)))
         /\ Crosses(pc[r][p], work[r][p], t, v, p, "consume", AfterConsume, M(r))
    /\ KernelOf(r) # "twoshot" =>
         Crosses(pc[r][p], work[r][p], t, v, p, "reduce", AfterReduce, ItemCount(M(r)))

LEMMA CrossingIsQuiet ==
    ASSUME GenerationInv, LoopInv, NEW r \in Ranks, NEW p \in Programs, NEW t, NEW v \in Nat,
           LocalStep(r, p, t, v), CrossesLoops(r, p, t, v)
    PROVE  issued' = issued /\ summed' = summed /\ reduced' = reduced
  <1>1. issued' = issued
    BY IssuedStays DEF CrossesLoops
  <1>2. summed' = summed
    BY SummedStays DEF CrossesLoops
  <1>3. reduced' = reduced
    BY ReducedStays DEF CrossesLoops
  <1> QED
    BY <1>1, <1>2, <1>3

LEMMA LoadQuiet ==
    ASSUME GenerationInv, LoopInv, NEW r \in Ranks, NEW p \in Programs, Load(r, p)
    PROVE  LoopInv' /\ Quiet
  <1>1. /\ pc[r][p] = "load" /\ pc' = [pc EXCEPT ![r][p] = "arrive"]
        /\ UNCHANGED <<backend, calls, launch, work, stores>>
        /\ cleared' = [cleared EXCEPT ![r][p] = (ClearCells(M(r), p, snap'[r][p]) = {})]
    BY DEF Load, control
  <1>2. LocalStep(r, p, "arrive", work[r][p]) /\ work[r][p] \in Nat
    BY <1>1, HoppingIsLocal
  <1>3. CrossesLoops(r, p, "arrive", work[r][p])
    BY <1>1 DEF CrossesLoops, Crosses, AfterPush, AfterReduce, AfterConsume, Steps
  <1>4. Quiet
    BY <1>2, <1>3, CrossingIsQuiet, WipedByLoad DEF Quiet
  <1>5. LoopTypes'
    BY <1>1 DEF LoopInv, LoopTypes
  <1>6. \A q \in Ranks : M(q)' = M(q) /\ GridOf(q)' = GridOf(q) /\ KernelOf(q)' = KernelOf(q)
    BY <1>1, CallFixed
  <1>7. ASSUME NEW q \in Ranks, NEW o \in Programs PROVE Walk(q, o)'
    <2>1. ~(q = r /\ o = p) => pc'[q][o] = pc[q][o] /\ cleared'[q][o] = cleared[q][o]
      BY <1>1 DEF GenerationInv, ControlTypes, LoopInv, LoopTypes
    <2>2. pc'[r][p] = "arrive"
      BY <1>1 DEF GenerationInv, ControlTypes
    <2>3. Walk(q, o)
      BY DEF LoopInv
    <2> QED
      BY <1>1, <1>6, <2>1, <2>2, <2>3 DEF Walk
  <1> QED
    BY <1>4, <1>5, <1>7 DEF LoopInv

LEMMA ArriveQuiet ==
    ASSUME GenerationInv, LoopInv, NEW r \in Ranks, NEW p \in Programs, Arrive(r, p)
    PROVE  LoopInv' /\ Quiet
  <1>1. /\ pc[r][p] = "arrive" /\ pc' = [pc EXCEPT ![r][p] = "push"]
        /\ UNCHANGED <<backend, calls, launch, snap, work, stores, cleared>>
    BY DEF Arrive, control, memory
  <1>2. LocalStep(r, p, "push", work[r][p]) /\ work[r][p] \in Nat /\ work[r][p] % GridOf(r) = p
    BY <1>1, HoppingIsLocal
  <1>3. work[r][p] = p
    BY <1>1, <1>2 DEF LoopInv, Walk, LocalStep
  <1>4. CrossesLoops(r, p, "push", work[r][p])
    BY <1>1, <1>3 DEF CrossesLoops, Crosses, AfterPush, AfterReduce, AfterConsume, Steps
  <1>5. LoopInv'
    BY <1>1, <1>2, LoopsHop DEF Steps
  <1>6. wiped' = wiped
    BY <1>1, WipedStays DEF Steps
  <1> QED
    BY <1>2, <1>4, <1>5, <1>6, CrossingIsQuiet DEF Quiet

LEMMA EndPushQuiet ==
    ASSUME GenerationInv, LoopInv, NEW r \in Ranks, NEW p \in Programs, EndPush(r, p)
    PROVE  LoopInv' /\ Quiet
  <1>1. /\ LocalStep(r, p, "reduce", p) /\ pc[r][p] = "push" /\ work[r][p] >= ItemCount(M(r))
        /\ p \in Nat /\ p % GridOf(r) = p /\ UNCHANGED <<snap, stores, cleared>>
    BY LeavingIsLocal DEF EndPush, Steps
  <1>2. CrossesLoops(r, p, "reduce", p)
    BY <1>1 DEF CrossesLoops, Crosses, AfterPush, AfterReduce, AfterConsume, Steps
  <1>3. LoopInv'
    BY <1>1, LoopsHop DEF Steps
  <1>4. wiped' = wiped
    BY <1>1, WipedStays DEF Steps, LocalStep
  <1> QED
    BY <1>1, <1>2, <1>3, <1>4, CrossingIsQuiet DEF Quiet

LEMMA EndReduceQuiet ==
    ASSUME GenerationInv, LoopInv, NEW r \in Ranks, NEW p \in Programs, EndReduce(r, p)
    PROVE  LoopInv' /\ Quiet
  <1> DEFINE t == IF KernelOf(r) = "tiled" THEN "phase" ELSE "finish"
  <1>1. /\ LocalStep(r, p, t, p) /\ pc[r][p] = "reduce" /\ work[r][p] >= ItemCount(M(r))
        /\ p \in Nat /\ p % GridOf(r) = p /\ UNCHANGED <<snap, stores, cleared>>
        /\ KernelOf(r) # "twoshot"
    BY LeavingIsLocal DEF EndReduce, Steps
  <1>2. t \in {"phase", "finish"} /\ (t = "phase" => KernelOf(r) = "tiled")
    OBVIOUS
  <1> HIDE DEF t
  <1>3. CrossesLoops(r, p, t, p)
    BY <1>1, <1>2 DEF CrossesLoops, Crosses, AfterPush, AfterReduce, AfterConsume, Steps
  <1>4. LoopInv'
    BY <1>1, <1>2, LoopsHop DEF Steps
  <1>5. wiped' = wiped
    BY <1>1, <1>2, WipedStays DEF Steps, LocalStep
  <1> QED
    BY <1>1, <1>3, <1>4, <1>5, CrossingIsQuiet DEF Quiet

LEMMA EndReduceOwnedQuiet ==
    ASSUME GenerationInv, LoopInv, NEW r \in Ranks, NEW p \in Programs, EndReduceOwned(r, p)
    PROVE  LoopInv' /\ Quiet
  <1>1. /\ LocalStep(r, p, "consume", p) /\ pc[r][p] = "reduce"
        /\ work[r][p] >= OwnedCount(r, M(r))
        /\ p \in Nat /\ p % GridOf(r) = p /\ UNCHANGED <<snap, stores, cleared>>
        /\ KernelOf(r) = "twoshot"
    BY LeavingIsLocal DEF EndReduceOwned, Steps
  <1>2. CrossesLoops(r, p, "consume", p)
    BY <1>1 DEF CrossesLoops, Crosses, AfterPush, AfterReduce, AfterConsume, Steps
  <1>3. LoopInv'
    BY <1>1, LoopsHop DEF Steps
  <1>4. wiped' = wiped
    BY <1>1, WipedStays DEF Steps, LocalStep
  <1> QED
    BY <1>1, <1>2, <1>3, <1>4, CrossingIsQuiet DEF Quiet

LEMMA EndConsumeQuiet ==
    ASSUME GenerationInv, LoopInv, NEW r \in Ranks, NEW p \in Programs, EndConsume(r, p)
    PROVE  LoopInv' /\ Quiet
  <1>1. /\ LocalStep(r, p, "finish", p) /\ pc[r][p] = "consume" /\ work[r][p] >= M(r)
        /\ p \in Nat /\ p % GridOf(r) = p /\ UNCHANGED <<snap, stores, cleared>>
    BY LeavingIsLocal DEF EndConsume, Steps
  <1>2. KernelOf(r) = "twoshot"
    BY <1>1 DEF LoopInv, Walk, LocalStep
  <1>3. CrossesLoops(r, p, "finish", p)
    BY <1>1, <1>2 DEF CrossesLoops, Crosses, AfterPush, AfterReduce, AfterConsume, Steps
  <1>4. LoopInv'
    BY <1>1, LoopsHop DEF Steps
  <1>5. wiped' = wiped
    BY <1>1, WipedStays DEF Steps, LocalStep
  <1> QED
    BY <1>1, <1>3, <1>4, <1>5, CrossingIsQuiet DEF Quiet

LEMMA PhaseArriveQuiet ==
    ASSUME GenerationInv, LoopInv, NEW r \in Ranks, NEW p \in Programs, PhaseArrive(r, p)
    PROVE  LoopInv' /\ Quiet
  <1>1. /\ pc[r][p] = "phase" /\ pc' = [pc EXCEPT ![r][p] = "spin"]
        /\ UNCHANGED <<backend, calls, launch, snap, work, stores, cleared>>
    BY DEF PhaseArrive, control, memory
  <1>2. LocalStep(r, p, "spin", work[r][p]) /\ work[r][p] \in Nat /\ work[r][p] % GridOf(r) = p
    BY <1>1, HoppingIsLocal
  <1>3. KernelOf(r) = "tiled"
    BY <1>1, <1>2 DEF LoopInv, Walk, LocalStep
  <1>4. CrossesLoops(r, p, "spin", work[r][p])
    BY <1>1, <1>3 DEF CrossesLoops, Crosses, AfterPush, AfterReduce, AfterConsume, Steps
  <1>5. LoopInv'
    BY <1>1, <1>2, <1>3, LoopsHop DEF Steps
  <1>6. wiped' = wiped
    BY <1>1, WipedStays DEF Steps
  <1> QED
    BY <1>2, <1>4, <1>5, <1>6, CrossingIsQuiet DEF Quiet

LEMMA PhaseLeaveQuiet ==
    ASSUME GenerationInv, LoopInv, NEW r \in Ranks, NEW p \in Programs, PhaseLeave(r, p)
    PROVE  LoopInv' /\ Quiet
  <1>1. /\ pc[r][p] = "spin" /\ pc' = [pc EXCEPT ![r][p] = "norm"]
        /\ UNCHANGED <<backend, calls, launch, snap, work, stores, cleared>>
    BY DEF PhaseLeave, control, memory
  <1>2. LocalStep(r, p, "norm", work[r][p]) /\ work[r][p] \in Nat /\ work[r][p] % GridOf(r) = p
    BY <1>1, HoppingIsLocal
  <1>3. KernelOf(r) = "tiled"
    BY <1>1, <1>2 DEF LoopInv, Walk, LocalStep
  <1>4. CrossesLoops(r, p, "norm", work[r][p])
    BY <1>1, <1>3 DEF CrossesLoops, Crosses, AfterPush, AfterReduce, AfterConsume, Steps
  <1>5. LoopInv'
    BY <1>1, <1>2, <1>3, LoopsHop DEF Steps
  <1>6. wiped' = wiped
    BY <1>1, WipedStays DEF Steps
  <1> QED
    BY <1>2, <1>4, <1>5, <1>6, CrossingIsQuiet DEF Quiet

LEMMA NormalizeQuiet ==
    ASSUME GenerationInv, LoopInv, NEW r \in Ranks, NEW p \in Programs, Normalize(r, p)
    PROVE  LoopInv' /\ Quiet
  <1> DEFINE v == work[r][p] + GridOf(r)
  <1>1. UNCHANGED <<backend, calls, launch, pc, snap, stores, cleared>>
    BY DEF Normalize, control, memory
  <1>2. pc[r][p] = "norm"
    BY DEF Normalize, Iterate
  <1>3. ItemCount(M(r)) \in Nat
    BY <1>2, AtWork, Items
  <1>4. LocalStep(r, p, "norm", v) /\ v \in Nat /\ v % GridOf(r) = p
    BY <1>1, <1>3, Iterating DEF Normalize, Steps
  <1> HIDE DEF v
  <1>5. KernelOf(r) = "tiled"
    BY <1>2, <1>4 DEF LoopInv, Walk, LocalStep
  <1>6. CrossesLoops(r, p, "norm", v)
    BY <1>2, <1>5 DEF CrossesLoops, Crosses, AfterPush, AfterReduce, AfterConsume, Steps
  <1>7. LoopInv'
    BY <1>1, <1>4, <1>5, LoopsHop DEF Steps
  <1>8. wiped' = wiped
    <2>1. pc' = [pc EXCEPT ![r][p] = "norm"]
      BY <1>4 DEF LocalStep
    <2> QED
      BY <1>1, <1>2, <2>1, WipedStays DEF Steps
  <1> QED
    BY <1>4, <1>6, <1>7, <1>8, CrossingIsQuiet DEF Quiet

LEMMA EndNormalizeQuiet ==
    ASSUME GenerationInv, LoopInv, NEW r \in Ranks, NEW p \in Programs, EndNormalize(r, p)
    PROVE  LoopInv' /\ Quiet
  <1>1. /\ LocalStep(r, p, "finish", p) /\ pc[r][p] = "norm"
        /\ p \in Nat /\ p % GridOf(r) = p /\ UNCHANGED <<snap, stores, cleared>>
    BY LeavingIsLocal DEF EndNormalize, Steps
  <1>2. KernelOf(r) = "tiled"
    BY <1>1 DEF LoopInv, Walk, LocalStep
  <1>3. CrossesLoops(r, p, "finish", p)
    BY <1>1, <1>2 DEF CrossesLoops, Crosses, AfterPush, AfterReduce, AfterConsume, Steps
  <1>4. LoopInv'
    BY <1>1, LoopsHop DEF Steps
  <1>5. wiped' = wiped
    BY <1>1, WipedStays DEF Steps, LocalStep
  <1> QED
    BY <1>1, <1>3, <1>4, <1>5, CrossingIsQuiet DEF Quiet

LEMMA AdvanceQuiet ==
    ASSUME GenerationInv, LoopInv, NEW r \in Ranks, Advance(r)
    PROVE  LoopInv' /\ Quiet
  <1>1. /\ pc[r][0] = "finish" /\ pc' = [pc EXCEPT ![r][0] = "exit"]
        /\ UNCHANGED <<backend, calls, launch, snap, work, stores, cleared>>
    BY DEF Advance, AdvanceBy, control, memory
  <1>2. LocalStep(r, 0, "exit", work[r][0]) /\ work[r][0] \in Nat /\ work[r][0] % GridOf(r) = 0
    BY <1>1, ProgramZero, HoppingIsLocal
  <1>3. CrossesLoops(r, 0, "exit", work[r][0])
    BY <1>1 DEF CrossesLoops, Crosses, AfterPush, AfterReduce, AfterConsume, Steps
  <1>4. LoopInv'
    BY <1>1, <1>2, ProgramZero, LoopsHop DEF Steps
  <1>5. wiped' = wiped
    BY <1>1, ProgramZero, WipedStays DEF Steps
  <1> QED
    BY <1>2, <1>3, <1>4, <1>5, ProgramZero, CrossingIsQuiet DEF Quiet

LEMMA ExitQuiet ==
    ASSUME GenerationInv, LoopInv, NEW r \in Ranks, NEW p \in Programs, Exit(r, p)
    PROVE  LoopInv' /\ Quiet
  <1>1. /\ pc[r][p] \in {"exit", "finish"} /\ pc' = [pc EXCEPT ![r][p] = "done"]
        /\ stores[r][p] = {} /\ cleared[r][p]
        /\ UNCHANGED <<backend, calls, launch, snap, work, stores, cleared>>
    BY DEF Exit, control, memory
  <1>2. LocalStep(r, p, "done", work[r][p]) /\ work[r][p] \in Nat /\ work[r][p] % GridOf(r) = p
    BY <1>1, HoppingIsLocal
  <1>3. CrossesLoops(r, p, "done", work[r][p])
    BY <1>1 DEF CrossesLoops, Crosses, AfterPush, AfterReduce, AfterConsume, Steps
  <1>4. LoopInv'
    BY <1>1, <1>2, LoopsHop DEF Steps
  <1>5. wiped' = wiped
    BY <1>1, WipedStays DEF Steps
  <1> QED
    BY <1>2, <1>3, <1>4, <1>5, CrossingIsQuiet DEF Quiet

-----------------------------------------------------------------------------
(* What a launch knows of the launch before it. *)

\* Between peers all calls are one-shot, or all are two-shot and a slot has room
\* for them: the peer kernels clear in the layout they use themselves.
PeersUniform ==
    "peer" \in Backends =>
        \/ \A m \in TokenCounts["peer"] : m <= OneShotTokens["peer"]
        \/ /\ \A m \in TokenCounts["peer"] : m > OneShotTokens["peer"]
           /\ StageCapacity + Capacity <= WorldSize * Capacity

StrategyAt(n) == IF n = 0 THEN 0 ELSE Strategy(calls[n])

Snapshot(r, p) ==
    /\ snap[r][p].slot = SlotOf(launch[r])
    /\ snap[r][p].numel = PayloadOf(launch[r] - 1)
    /\ snap[r][p].strategy = StrategyAt(launch[r] - 1)

PastInv ==
    /\ calls \in Seq(TokenCounts[backend])
    /\ \A r \in Ranks :
         /\ Advanced(r) => strategy[r] = StrategyAt(launch[r])
         /\ ~Advanced(r) => strategy[r] = StrategyAt(launch[r] - 1)
         /\ \A p \in Programs :
              launch[r] > 0 /\ p < GridOf(r) /\ pc[r][p] # "load" => Snapshot(r, p)

\* With uniform peers every call fits in a slot and any two can follow each other.
LEMMA CallsFit ==
    ASSUME PeersUniform, backend \in Backends,
           NEW m \in TokenCounts[backend], NEW k \in TokenCounts[backend]
    PROVE  m \in 1 .. MaxTokens /\ Fits(m) /\ Compatible(m, k)
  <1>1. m \in 1 .. MaxTokens /\ k \in 1 .. MaxTokens
    BY CallAssumption
  <1>2. backend \in {"peer", "mnnvl"} /\ OneShotTokens[backend] \in Nat
    BY LayoutAssumption
  <1>3. \A i \in {m, k} : Kernel(i) = "twoshot" <=> i > OneShotTokens[backend]
    BY DEF Kernel
  <1>4. Sizes
    BY LayoutSizes
  <1>5. CASE backend = "mnnvl"
    BY <1>1, <1>4, <1>5 DEF Fits, Compatible, Sizes
  <1>6. CASE backend = "peer"
    <2>1. SlotCapacity = WorldSize * Capacity
      BY <1>6 DEF SlotCapacity
    <2>2. CASE \A i \in TokenCounts["peer"] : i <= OneShotTokens["peer"]
      <3>1. Kernel(m) # "twoshot" /\ Kernel(k) # "twoshot"
        BY <1>1, <1>2, <1>3, <1>6, <2>2
      <3> QED
        BY <1>1, <3>1 DEF Fits, Compatible
    <2>3. CASE /\ \A i \in TokenCounts["peer"] : i > OneShotTokens["peer"]
               /\ StageCapacity + Capacity <= WorldSize * Capacity
      <3>1. Kernel(m) = "twoshot" /\ Kernel(k) = "twoshot"
        BY <1>3, <1>6, <2>3
      <3> QED
        BY <1>1, <2>1, <2>3, <3>1 DEF Fits, Compatible
    <2> QED
      BY <1>6, <2>2, <2>3 DEF PeersUniform
  <1> QED
    BY <1>2, <1>5, <1>6

LEMMA CallsOf ==
    ASSUME PeersUniform, GenerationInv, PastInv, NEW n \in 1 .. Len(calls)
    PROVE  /\ calls[n] \in 1 .. MaxTokens /\ Fits(calls[n])
           /\ \A k \in 1 .. Len(calls) : Compatible(calls[n], calls[k])
  <1>1. backend \in Backends /\ calls \in Seq(TokenCounts[backend])
    BY DEF GenerationInv, ControlTypes, PastInv
  <1>2. \A k \in 1 .. Len(calls) : calls[k] \in TokenCounts[backend]
    BY <1>1, SequenceElement
  <1> QED
    BY <1>1, <1>2, CallsFit

LEMMA PastInit == Init => PastInv
  <1> SUFFICES ASSUME Init PROVE PastInv
    OBVIOUS
  <1>1. \A r \in Ranks : launch[r] = 0 /\ strategy[r] = 0 /\ Advanced(r)
    BY ProgramZero DEF Init, Advanced
  <1>2. calls \in Seq(TokenCounts[backend])
    BY DEF Init
  <1> QED
    BY <1>1, <1>2 DEF PastInv, StrategyAt

\* The sequence of calls only grows.
LEMMA CallsGrow ==
    ASSUME GenerationInv, NEW r \in Ranks, Start(r)
    PROVE  /\ calls \in Seq(TokenCounts[backend]) => calls' \in Seq(TokenCounts[backend])
           /\ Len(calls) <= Len(calls')
           /\ \A i \in 1 .. Len(calls) : i \in 1 .. Len(calls') /\ calls'[i] = calls[i]
           /\ launch[r] + 1 \in 1 .. Len(calls')
           /\ Len(calls) \in Nat /\ Len(calls') \in Nat
  <1>1. calls \in Seq(1 .. MaxTokens) /\ launch[r] \in Nat /\ launch[r] <= Len(calls)
    BY DEF GenerationInv, ControlTypes
  <1>2. CASE launch[r] < Len(calls)
    BY <1>1, <1>2 DEF Start
  <1>3. CASE ~(launch[r] < Len(calls))
    <2>1. PICK m \in TokenCounts[backend] : calls' = Append(calls, m)
      BY <1>3 DEF Start
    <2>2. calls \in Seq(TokenCounts[backend]) => calls' \in Seq(TokenCounts[backend])
      BY <2>1
    <2> QED
      BY <1>1, <1>3, <2>1, <2>2
  <1> QED
    BY <1>2, <1>3

LEMMA PastStart ==
    ASSUME GenerationInv, PastInv, NEW r \in Ranks, Start(r)
    PROVE  PastInv'
  <1>1. /\ calls' \in Seq(TokenCounts[backend])
        /\ \A i \in 1 .. Len(calls) : calls'[i] = calls[i]
        /\ launch[r] + 1 \in 1 .. Len(calls') /\ Len(calls) \in Nat
    BY CallsGrow DEF PastInv
  <1>2. /\ launch' = [launch EXCEPT ![r] = launch[r] + 1]
        /\ UNCHANGED <<backend, strategy, snap>> /\ launch[r] \in Nat
        /\ \A q \in Ranks : launch[q] \in Nat /\ launch[q] <= Len(calls)
    BY DEF Start, state, GenerationInv, ControlTypes
  <1>3. \A m : Grid(m)' = Grid(m) /\ Strategy(m)' = Strategy(m)
    BY <1>2, LayoutFixed DEF Strategy
  <1>4. \A n \in 0 .. Len(calls) : StrategyAt(n)' = StrategyAt(n) /\ PayloadOf(n)' = PayloadOf(n)
    BY <1>1, <1>3 DEF StrategyAt, PayloadOf
  <1>5. pc' = [pc EXCEPT ![r] = [p \in Programs |->
                  IF p < GridOf(r)' THEN "load" ELSE "done"]]
    <2>1. M(r)' = calls'[launch'[r]]
      BY DEF M
    <2>2. GridOf(r)' = Grid(calls'[launch'[r]])
      BY <1>3, <2>1 DEF GridOf
    <2> QED
      BY <1>3, <2>2 DEF Start
  <1>6. ASSUME NEW q \in Ranks, q # r
        PROVE  /\ Advanced(q)' => strategy'[q] = StrategyAt(launch[q])'
               /\ ~Advanced(q)' => strategy'[q] = StrategyAt(launch[q] - 1)'
               /\ \A p \in Programs : launch'[q] > 0 /\ p < GridOf(q)' /\ pc'[q][p] # "load"
                     => Snapshot(q, p)'
    <2>1. pc'[q] = pc[q] /\ launch'[q] = launch[q] /\ snap'[q] = snap[q] /\ strategy'[q] = strategy[q]
      BY <1>2, <1>5, <1>6 DEF GenerationInv, ControlTypes
    <2>2. Advanced(q)' <=> Advanced(q)
      BY <2>1 DEF Advanced
    <2>3. launch[q] \in 0 .. Len(calls) /\ (launch[q] > 0 => launch[q] - 1 \in 0 .. Len(calls))
      BY <1>1, <1>2
    <2>4. launch[q] > 0 => GridOf(q)' = GridOf(q)
      BY <1>1, <1>3, <2>1, <2>3 DEF GridOf, M
    <2>5. launch[q] = 0 => Advanced(q)
      BY ProgramZero DEF GenerationInv, RankInv, Idle, Advanced
    <2>6. StrategyAt(launch[q])' = StrategyAt(launch[q])
      BY <1>4, <2>1, <2>3
    <2>7. launch[q] > 0 => /\ StrategyAt(launch[q] - 1)' = StrategyAt(launch[q] - 1)
                           /\ PayloadOf(launch[q] - 1)' = PayloadOf(launch[q] - 1)
      BY <1>4, <2>1, <2>3
    <2>8. launch[q] \in Nat
      BY <1>2
    <2>9. \A p \in Programs : launch[q] > 0 /\ Snapshot(q, p) => Snapshot(q, p)'
      BY <2>1, <2>7 DEF Snapshot
    <2> QED
      BY <2>1, <2>2, <2>4, <2>5, <2>6, <2>7, <2>8, <2>9 DEF PastInv
  <1>7. /\ Advanced(r)' => strategy'[r] = StrategyAt(launch[r])'
        /\ ~Advanced(r)' => strategy'[r] = StrategyAt(launch[r] - 1)'
        /\ \A p \in Programs : launch'[r] > 0 /\ p < GridOf(r)' /\ pc'[r][p] # "load"
              => Snapshot(r, p)'
    <2>1. \A p \in Programs : pc'[r][p] = IF p < GridOf(r)' THEN "load" ELSE "done"
      BY <1>5 DEF GenerationInv, ControlTypes
    <2>2. 0 < GridOf(r)'
      <3>1. calls' \in Seq(1 .. MaxTokens) /\ launch'[r] \in 1 .. Len(calls')
        <4>1. GenerationInv'
          BY GenerationStart
        <4> QED
          BY <1>1, <1>2, <4>1 DEF GenerationInv, ControlTypes
      <3>2. calls'[launch'[r]] \in 1 .. MaxTokens
        BY <3>1, SequenceElement
      <3>3. calls'[launch'[r]] \in Nat \ {0}
        BY <3>2, CallsArePositive
      <3>4. Grid(calls'[launch'[r]]) \in 1 .. ProgramLimit
        BY <3>3, GridBounds
      <3>5. GridOf(r)' = Grid(calls'[launch'[r]])
        BY <1>3 DEF GridOf, M
      <3> QED
        BY <3>4, <3>5, LayoutAssumption
    <2>3. ~Advanced(r)'
      BY <2>1, <2>2, ProgramZero DEF Advanced
    <2>4. Advanced(r)
      BY ProgramZero DEF Start, Idle, Advanced
    <2>5. launch'[r] = launch[r] + 1 /\ launch'[r] - 1 = launch[r]
      BY <1>2 DEF GenerationInv, ControlTypes
    <2>6. StrategyAt(launch[r] - 1)' = StrategyAt(launch[r])
      <3>1. launch[r] \in 0 .. Len(calls)
        BY <1>1, <1>2
      <3>2. StrategyAt(launch[r]) = IF launch[r] = 0 THEN 0 ELSE Strategy(calls[launch[r]])
        BY DEF StrategyAt
      <3>3. StrategyAt(launch[r] - 1)' = IF launch[r] = 0 THEN 0 ELSE Strategy(calls'[launch[r]])
        BY <1>3, <2>5 DEF StrategyAt
      <3> QED
        BY <1>1, <1>2, <3>1, <3>2, <3>3
    <2> QED
      BY <1>2, <2>1, <2>3, <2>4, <2>6 DEF PastInv
  <1> QED
    BY <1>1, <1>2, <1>6, <1>7 DEF PastInv

\* A program that loads is not yet overtaken by program 0.
LEMMA PastLoad ==
    ASSUME GenerationInv, PastInv, NEW r \in Ranks, NEW p \in Programs, Load(r, p)
    PROVE  PastInv'
  <1>1. /\ pc[r][p] = "load" /\ pc' = [pc EXCEPT ![r][p] = "arrive"]
        /\ snap' = [snap EXCEPT ![r][p] =
              [slot |-> slot[r], numel |-> numel[r], strategy |-> strategy[r]]]
        /\ UNCHANGED <<backend, calls, launch, strategy>>
    BY DEF Load, control, state
  <1>2. RankInv(r) /\ ~ReadyForNext(r)
    BY <1>1 DEF GenerationInv, ReadyForNext
  <1>3. ~Advanced(r) /\ Unadvanced(r)
    BY <1>2 DEF RankInv
  <1>4. \A q \in Ranks, o \in Programs : ~(q = r /\ o = p) =>
            pc'[q][o] = pc[q][o] /\ snap'[q][o] = snap[q][o]
    BY <1>1 DEF GenerationInv, ControlTypes
  <1>5. pc'[r][p] = "arrive" /\ snap'[r][p].slot = slot[r] /\ snap'[r][p].numel = numel[r]
        /\ snap'[r][p].strategy = strategy[r]
    BY <1>1 DEF GenerationInv, ControlTypes
  <1>6. \A m : Grid(m)' = Grid(m) /\ Strategy(m)' = Strategy(m)
    BY <1>1, LayoutFixed DEF Strategy
  <1>7. /\ \A q : GridOf(q)' = GridOf(q) /\ StrategyAt(launch[q])' = StrategyAt(launch[q])
                  /\ StrategyAt(launch[q] - 1)' = StrategyAt(launch[q] - 1)
                  /\ PayloadOf(launch[q] - 1)' = PayloadOf(launch[q] - 1)
    BY <1>1, <1>6 DEF GridOf, M, StrategyAt, PayloadOf
  <1>8. \A q \in Ranks : Advanced(q)' <=> Advanced(q)
    BY <1>1, <1>4, <1>5, ProgramZero DEF Advanced
  <1>9. Snapshot(r, p)'
    BY <1>1, <1>3, <1>5, <1>7 DEF Snapshot, Unadvanced, SlotOf, PastInv
  <1>10. \A q \in Ranks, o \in Programs : ~(q = r /\ o = p) /\ Snapshot(q, o) => Snapshot(q, o)'
    BY <1>1, <1>4, <1>7 DEF Snapshot
  <1> QED
    BY <1>1, <1>4, <1>7, <1>8, <1>9, <1>10 DEF PastInv

LEMMA PastAdvance ==
    ASSUME PeersUniform, GenerationInv, PastInv, NEW r \in Ranks, Advance(r)
    PROVE  PastInv'
  <1>1. /\ pc[r][0] = "finish" /\ pc' = [pc EXCEPT ![r][0] = "exit"]
        /\ strategy' = [strategy EXCEPT ![r] = NewStrategy(r)]
        /\ UNCHANGED <<backend, calls, launch, snap>>
    BY DEF Advance, AdvanceBy, control
  <1>2. /\ \A q \in Ranks, o \in Programs : ~(q = r /\ o = 0) => pc'[q][o] = pc[q][o]
        /\ pc'[r][0] = "exit"
        /\ \A q \in Ranks : q # r => strategy'[q] = strategy[q]
        /\ strategy'[r] = NewStrategy(r)
    BY <1>1, ProgramZero DEF GenerationInv, ControlTypes
  <1>3. \A m : Grid(m)' = Grid(m) /\ Strategy(m)' = Strategy(m)
    BY <1>1, LayoutFixed DEF Strategy
  <1>4. /\ \A q : GridOf(q)' = GridOf(q) /\ StrategyAt(launch[q])' = StrategyAt(launch[q])
                  /\ StrategyAt(launch[q] - 1)' = StrategyAt(launch[q] - 1)
                  /\ PayloadOf(launch[q] - 1)' = PayloadOf(launch[q] - 1)
    BY <1>1, <1>3 DEF GridOf, M, StrategyAt, PayloadOf
  <1>5. ~Advanced(r) /\ Advanced(r)' /\ \A q \in Ranks : q # r => (Advanced(q)' <=> Advanced(q))
    BY <1>1, <1>2, ProgramZero DEF Advanced
  <1>6. launch[r] \in Nat /\ launch[r] > 0 /\ launch[r] \in 1 .. Len(calls)
    BY <1>5 DEF GenerationInv, ControlTypes, RankInv, Unadvanced
  <1>7. strategy'[r] = StrategyAt(launch[r])
    <2>1. StrategyAt(launch[r]) = Strategy(M(r))
      BY <1>6 DEF StrategyAt, M
    <2>2. CASE KernelOf(r) # "rowwise"
      BY <1>2, <2>1, <2>2 DEF NewStrategy
    <2>3. CASE KernelOf(r) = "rowwise"
      <3>1. strategy'[r] = StrategyAt(launch[r] - 1)
        BY <1>2, <1>5, <2>3 DEF NewStrategy, PastInv
      <3>2. StrategyAt(launch[r]) = 0
        BY <2>1, <2>3 DEF Strategy, KernelOf
      <3>3. StrategyAt(launch[r] - 1) = 0
        <4>1. CASE launch[r] = 1
          BY <4>1 DEF StrategyAt
        <4>2. CASE launch[r] # 1
          <5>1. launch[r] - 1 \in 1 .. Len(calls) /\ launch[r] - 1 # 0
            BY <1>6, <4>2 DEF GenerationInv, ControlTypes
          <5>2. Compatible(calls[launch[r]], calls[launch[r] - 1])
            BY <1>6, <5>1, CallsOf
          <5>3. backend = "peer"
            BY <2>3, LayoutAssumption DEF KernelOf, Kernel, GenerationInv, ControlTypes
          <5>4. Kernel(calls[launch[r] - 1]) # "twoshot"
            BY <2>3, <5>2, <5>3 DEF Compatible, KernelOf, M
          <5> QED
            BY <5>1, <5>4 DEF StrategyAt, Strategy
        <4> QED
          BY <4>1, <4>2
      <3> QED
        BY <3>1, <3>2, <3>3
    <2> QED
      BY <2>2, <2>3
  <1>8. \A q \in Ranks, o \in Programs : Snapshot(q, o) => Snapshot(q, o)'
    BY <1>1, <1>4 DEF Snapshot
  <1>9. \A q \in Ranks, o \in Programs : pc'[q][o] # "load" => pc[q][o] # "load"
    BY <1>1, <1>2
  <1> QED
    BY <1>1, <1>2, <1>4, <1>5, <1>7, <1>8, <1>9 DEF PastInv

\* The other steps.
LEMMA PastStays ==
    ASSUME GenerationInv, PastInv, UNCHANGED <<backend, calls, launch, strategy, snap>>,
           NEW r \in Ranks, NEW p \in Programs, NEW t \in Steps,
           pc' = [pc EXCEPT ![r][p] = t], pc[r][p] # "load", t # "load",
           p = 0 => (pc[r][p] \in {"exit", "done"} <=> t \in {"exit", "done"})
    PROVE  PastInv'
  <1>1. /\ \A q \in Ranks, o \in Programs : ~(q = r /\ o = p) => pc'[q][o] = pc[q][o]
        /\ pc'[r][p] = t
    BY DEF GenerationInv, ControlTypes
  <1>2. \A m : Grid(m)' = Grid(m) /\ Strategy(m)' = Strategy(m)
    BY LayoutFixed DEF Strategy
  <1>3. /\ \A q : GridOf(q)' = GridOf(q) /\ StrategyAt(launch[q])' = StrategyAt(launch[q])
                  /\ StrategyAt(launch[q] - 1)' = StrategyAt(launch[q] - 1)
                  /\ PayloadOf(launch[q] - 1)' = PayloadOf(launch[q] - 1)
    BY <1>2 DEF GridOf, M, StrategyAt, PayloadOf
  <1>4. \A q \in Ranks : Advanced(q)' <=> Advanced(q)
    BY <1>1, ProgramZero DEF Advanced
  <1>5. \A q \in Ranks, o \in Programs : Snapshot(q, o) => Snapshot(q, o)'
    BY <1>3 DEF Snapshot
  <1>6. \A q \in Ranks, o \in Programs : pc'[q][o] # "load" => pc[q][o] # "load"
    BY <1>1
  <1> QED
    BY <1>3, <1>4, <1>5, <1>6 DEF PastInv

\* A push adds the payload of one item.
LEMMA PushEffect ==
    ASSUME GenerationInv, LoopInv, NEW r \in Ranks, NEW p \in Programs, Push(r, p)
    PROVE  /\ LoopInv'
           /\ issued' = [issued EXCEPT ![r] = @ \cup ItemCells(M(r), work[r][p])]
           /\ summed' = summed /\ reduced' = reduced /\ wiped' = wiped
  <1> DEFINE v == work[r][p] + GridOf(r)
  <1>1. /\ Iterate(r, p, "push", ItemCount(M(r)))
        /\ UNCHANGED <<backend, calls, launch, pc, snap, cleared>>
        /\ stores' = [stores EXCEPT ![r][p] = @ \cup PushStores(r, p, work[r][p])]
    BY DEF Push, control
  <1>2. pc[r][p] = "push" /\ M(r) \in 1 .. MaxTokens
    BY <1>1, AtWork DEF Iterate
  <1>3. ItemCount(M(r)) \in Nat
    BY <1>2, Items
  <1>4. LocalStep(r, p, "push", v) /\ v \in Nat /\ v % GridOf(r) = p
    BY <1>1, <1>3, Iterating DEF Steps
  <1> HIDE DEF v
  <1>5. issued' = [issued EXCEPT ![r] = @ \cup ItemCells(M(r), work[r][p])]
    BY <1>1, IssuedGrows
  <1>6. summed' = summed /\ reduced' = reduced
    <2>1. /\ Crosses("push", work[r][p], "push", v, p, "reduce", AfterReduce, OwnedCount(r, M(r)))
          /\ Crosses("push", work[r][p], "push", v, p, "consume", AfterConsume, M(r))
          /\ Crosses("push", work[r][p], "push", v, p, "reduce", AfterReduce, ItemCount(M(r)))
      BY DEF Crosses, AfterPush, AfterReduce, AfterConsume
    <2> QED
      BY <1>2, <1>4, <2>1, SummedStays, ReducedStays
  <1>7. wiped' = wiped
    <2>1. pc' = [pc EXCEPT ![r][p] = "push"]
      BY <1>4 DEF LocalStep
    <2> QED
      BY <1>1, <1>2, <2>1, WipedStays DEF Steps
  <1>8. LoopInv'
    <2>1. /\ DOMAIN stores' = Ranks /\ \A q \in Ranks : DOMAIN stores'[q] = Programs
          /\ cleared' \in [Ranks -> [Programs -> BOOLEAN]]
          /\ \A q \in Ranks, o \in Programs : ~(q = r /\ o = p) =>
                stores'[q][o] = stores[q][o] /\ cleared'[q][o] = cleared[q][o]
      BY <1>1 DEF LoopInv, LoopTypes
    <2> QED
      BY <1>4, <2>1, LoopsMove DEF Steps
  <1> QED
    BY <1>5, <1>6, <1>7, <1>8

\* The owner's loop adds one cell to its sums.
LEMMA ReduceOwnedEffect ==
    ASSUME GenerationInv, LoopInv, NEW r \in Ranks, NEW p \in Programs, ReduceOwned(r, p)
    PROVE  /\ LoopInv'
           /\ summed' = [summed EXCEPT ![r] = @ \cup {OwnedCell(r, work[r][p])}]
           /\ issued' = issued /\ reduced' = reduced /\ wiped' = wiped
  <1> DEFINE v == work[r][p] + GridOf(r)
             more == {[to |-> peer, at |-> BroadcastCell(snap[r][p].slot, OwnedCell(r, work[r][p])),
                       value |-> UNION Scattered(r, p, OwnedCell(r, work[r][p]))] : peer \in Ranks}
  <1>1. /\ Iterate(r, p, "reduce", OwnedCount(r, M(r))) /\ KernelOf(r) = "twoshot"
        /\ UNCHANGED <<backend, calls, launch, pc, snap, cleared>>
        /\ stores' = [stores EXCEPT ![r][p] = @ \cup more]
    BY DEF ReduceOwned, control
  <1> HIDE DEF more
  <1>2. pc[r][p] = "reduce" /\ M(r) \in 1 .. MaxTokens
    BY <1>1, AtWork DEF Iterate
  <1>3. OwnedCount(r, M(r)) \in Nat
    BY <1>2, OwnedWork
  <1>4. LocalStep(r, p, "reduce", v) /\ v \in Nat /\ v % GridOf(r) = p
    BY <1>1, <1>3, Iterating DEF Steps
  <1> HIDE DEF v
  <1>5. summed' = [summed EXCEPT ![r] = @ \cup {OwnedCell(r, work[r][p])}]
    BY <1>1, SummedGrows
  <1>6. issued' = issued /\ reduced' = reduced
    <2>1. /\ Crosses("reduce", work[r][p], "reduce", v, p, "push", AfterPush, ItemCount(M(r)))
          /\ Crosses("reduce", work[r][p], "reduce", v, p, "consume", AfterConsume, M(r))
      BY DEF Crosses, AfterPush, AfterReduce, AfterConsume, Steps
    <2> QED
      BY <1>1, <1>2, <1>4, <2>1, IssuedStays, ReducedStays
  <1>7. wiped' = wiped
    <2>1. pc' = [pc EXCEPT ![r][p] = "reduce"]
      BY <1>4 DEF LocalStep
    <2> QED
      BY <1>1, <1>2, <2>1, WipedStays DEF Steps
  <1>8. LoopInv'
    <2>1. /\ DOMAIN stores' = Ranks /\ \A q \in Ranks : DOMAIN stores'[q] = Programs
          /\ cleared' \in [Ranks -> [Programs -> BOOLEAN]]
          /\ \A q \in Ranks, o \in Programs : ~(q = r /\ o = p) =>
                stores'[q][o] = stores[q][o] /\ cleared'[q][o] = cleared[q][o]
      BY <1>1 DEF LoopInv, LoopTypes
    <2> QED
      BY <1>4, <2>1, LoopsMove DEF Steps
  <1> QED
    BY <1>5, <1>6, <1>7, <1>8

\* The reduction of a one-shot launch finishes the cells of one item.
LEMMA ReduceEffect ==
    ASSUME GenerationInv, LoopInv, NEW r \in Ranks, NEW p \in Programs, Reduce(r, p)
    PROVE  /\ LoopInv'
           /\ reduced' = [reduced EXCEPT ![r] = @ \cup ItemCells(M(r), work[r][p])]
           /\ issued' = issued /\ summed' = summed /\ wiped' = wiped
  <1> DEFINE v == work[r][p] + GridOf(r)
  <1>1. /\ Iterate(r, p, "reduce", ItemCount(M(r))) /\ KernelOf(r) # "twoshot"
        /\ UNCHANGED <<backend, calls, launch, pc, snap, stores, cleared>>
    BY DEF Reduce, control
  <1>2. pc[r][p] = "reduce" /\ M(r) \in 1 .. MaxTokens
    BY <1>1, AtWork DEF Iterate
  <1>3. ItemCount(M(r)) \in Nat
    BY <1>2, Items
  <1>4. LocalStep(r, p, "reduce", v) /\ v \in Nat /\ v % GridOf(r) = p
    BY <1>1, <1>3, Iterating DEF Steps
  <1> HIDE DEF v
  <1>5. reduced' = [reduced EXCEPT ![r] = @ \cup ItemCells(M(r), work[r][p])]
    BY <1>1, ReducedGrows
  <1>6. issued' = issued /\ summed' = summed
    <2>1. Crosses("reduce", work[r][p], "reduce", v, p, "push", AfterPush, ItemCount(M(r)))
      BY DEF Crosses, AfterPush, Steps
    <2> QED
      BY <1>1, <1>2, <1>4, <2>1, IssuedStays, SummedStays
  <1>7. wiped' = wiped
    <2>1. pc' = [pc EXCEPT ![r][p] = "reduce"]
      BY <1>4 DEF LocalStep
    <2> QED
      BY <1>1, <1>2, <2>1, WipedStays DEF Steps
  <1>8. LoopInv'
    BY <1>1, <1>4, LoopsHop DEF Steps
  <1> QED
    BY <1>5, <1>6, <1>7, <1>8

\* The consume loop finishes a row.
LEMMA ConsumeEffect ==
    ASSUME GenerationInv, LoopInv, NEW r \in Ranks, NEW p \in Programs, Consume(r, p)
    PROVE  /\ LoopInv' /\ KernelOf(r) = "twoshot"
           /\ reduced' = [reduced EXCEPT ![r] = @ \cup ({work[r][p]} \X Tiles)]
           /\ issued' = issued /\ summed' = summed /\ wiped' = wiped
  <1> DEFINE v == work[r][p] + GridOf(r)
  <1>1. /\ Iterate(r, p, "consume", M(r))
        /\ UNCHANGED <<backend, calls, launch, pc, snap, stores, cleared>>
    BY DEF Consume, control
  <1>2. pc[r][p] = "consume" /\ M(r) \in 1 .. MaxTokens /\ launch[r] > 0 /\ p < GridOf(r)
    BY <1>1, AtWork DEF Iterate
  <1>3. M(r) \in Nat
    BY <1>2, CallsArePositive
  <1>9. KernelOf(r) = "twoshot"
    BY <1>2 DEF LoopInv, Walk
  <1>4. LocalStep(r, p, "consume", v) /\ v \in Nat /\ v % GridOf(r) = p
    BY <1>1, <1>3, Iterating DEF Steps
  <1> HIDE DEF v
  <1>5. reduced' = [reduced EXCEPT ![r] = @ \cup ({work[r][p]} \X Tiles)]
    BY <1>1, <1>9, ReducedGrowsByRow
  <1>6. issued' = issued /\ summed' = summed
    <2>1. /\ Crosses("consume", work[r][p], "consume", v, p, "push", AfterPush, ItemCount(M(r)))
          /\ Crosses("consume", work[r][p], "consume", v, p, "reduce", AfterReduce,
                     OwnedCount(r, M(r)))
      BY DEF Crosses, AfterPush, AfterReduce, Steps
    <2> QED
      BY <1>1, <1>2, <1>4, <2>1, IssuedStays, SummedStays
  <1>7. wiped' = wiped
    <2>1. pc' = [pc EXCEPT ![r][p] = "consume"]
      BY <1>4 DEF LocalStep
    <2> QED
      BY <1>1, <1>2, <2>1, WipedStays DEF Steps
  <1>8. LoopInv'
    BY <1>1, <1>4, <1>9, LoopsHop DEF Steps
  <1> QED
    BY <1>5, <1>6, <1>7, <1>8, <1>9

\* A step that moves no program: the loops stay as they are.
LEMMA LoopsStill ==
    ASSUME GenerationInv, LoopInv, UNCHANGED <<backend, calls, launch, pc, work>>
    PROVE  /\ issued' = issued /\ summed' = summed /\ reduced' = reduced
           /\ snap' = snap /\ cleared' = cleared => wiped' = wiped
           /\ LoopTypes' /\ (\A r \in Ranks, p \in Programs :
                 stores'[r][p] = {} \/ stores'[r][p] = stores[r][p] \/ pc[r][p] # "done")
              /\ (\A r \in Ranks, p \in Programs : cleared[r][p] => cleared'[r][p]) => LoopInv'
  <1>1. /\ \A q : M(q)' = M(q) /\ GridOf(q)' = GridOf(q) /\ KernelOf(q)' = KernelOf(q)
        /\ \A m, c : ItemOf(m, c)' = ItemOf(m, c)
        /\ \A m, o, sn : ClearCells(m, o, sn)' = ClearCells(m, o, sn)
    BY CallFixed, LayoutFixed
  <1>2. issued' = issued /\ summed' = summed /\ reduced' = reduced
    BY <1>1 DEF issued, summed, reduced
  <1>3. ASSUME snap' = snap, cleared' = cleared PROVE wiped' = wiped
    <2>1. \A q : Wipers(q)' = Wipers(q)
      BY <1>1, <1>3 DEF Wipers
    <2> QED
      BY <1>1, <1>3, <2>1 DEF wiped
  <1>4. ASSUME LoopTypes',
               \A r \in Ranks, p \in Programs :
                 stores'[r][p] = {} \/ stores'[r][p] = stores[r][p] \/ pc[r][p] # "done",
               \A r \in Ranks, p \in Programs : cleared[r][p] => cleared'[r][p]
        PROVE  LoopInv'
    <2> SUFFICES ASSUME NEW r \in Ranks, NEW p \in Programs PROVE Walk(r, p)'
      BY <1>4 DEF LoopInv
    <2>1. Walk(r, p)
      BY DEF LoopInv
    <2>2. /\ launch'[r] > 0 /\ p < GridOf(r)' =>
               /\ work'[r][p] % GridOf(r)' = p
               /\ pc'[r][p] \in {"load", "arrive"} => work'[r][p] = p
               /\ pc'[r][p] \in {"phase", "spin", "norm"} => KernelOf(r)' = "tiled"
               /\ pc'[r][p] = "consume" => KernelOf(r)' = "twoshot"
      BY <1>1, <2>1 DEF Walk
    <2>3. pc'[r][p] = "done" => stores'[r][p] = {} /\ cleared'[r][p]
      BY <1>4, <2>1 DEF Walk
    <2> QED
      BY <2>2, <2>3 DEF Walk
  <1> QED
    BY <1>2, <1>3, <1>4

\* A store lands.
LEMMA LandEffect ==
    ASSUME GenerationInv, LoopInv, NEW r \in Ranks, NEW p \in Programs, Land(r, p)
    PROVE  LoopInv' /\ Quiet
  <1>1. PICK st \in stores[r][p] : stores' = [stores EXCEPT ![r][p] = @ \ {st}]
    BY DEF Land
  <1>2. UNCHANGED <<backend, calls, launch, pc, work, snap, cleared>>
    BY DEF Land, control
  <1>3. /\ LoopTypes'
        /\ \A q \in Ranks, o \in Programs :
              stores'[q][o] = {} \/ stores'[q][o] = stores[q][o] \/ pc[q][o] # "done"
    BY <1>1, <1>2 DEF LoopInv, LoopTypes, Walk
  <1> QED
    BY <1>2, <1>3, LoopsStill DEF Quiet

\* The clear pass of a program wipes its share.
LEMMA ClearEffect ==
    ASSUME GenerationInv, LoopInv, NEW r \in Ranks, NEW p \in Programs, Clear(r, p)
    PROVE  /\ LoopInv'
           /\ issued' = issued /\ summed' = summed /\ reduced' = reduced
           /\ wiped' = [wiped EXCEPT ![r] = @ \cup ClearCells(M(r), p, snap[r][p])]
  <1>1. /\ UNCHANGED <<backend, calls, launch, pc, work, stores>>
        /\ cleared' = [cleared EXCEPT ![r][p] = TRUE]
    BY DEF Clear, control
  <1>2. /\ LoopTypes' /\ \A q \in Ranks, o \in Programs : cleared[q][o] => cleared'[q][o]
    BY <1>1 DEF LoopInv, LoopTypes
  <1> QED
    BY <1>1, <1>2, LoopsStill, WipedByClear

LEMMA PastStill ==
    ASSUME PastInv, UNCHANGED <<backend, calls, launch, strategy, snap, pc>>
    PROVE  PastInv'
  <1>1. \A m : Grid(m)' = Grid(m) /\ Strategy(m)' = Strategy(m)
    BY LayoutFixed DEF Strategy
  <1>2. /\ \A q : GridOf(q)' = GridOf(q) /\ StrategyAt(launch[q])' = StrategyAt(launch[q])
                  /\ StrategyAt(launch[q] - 1)' = StrategyAt(launch[q] - 1)
                  /\ PayloadOf(launch[q] - 1)' = PayloadOf(launch[q] - 1)
    BY <1>1 DEF GridOf, M, StrategyAt, PayloadOf
  <1>3. \A q : Advanced(q)' <=> Advanced(q)
    BY DEF Advanced
  <1>4. \A q \in Ranks, o \in Programs : Snapshot(q, o) => Snapshot(q, o)'
    BY <1>2 DEF Snapshot
  <1> QED
    BY <1>2, <1>3, <1>4 DEF PastInv

LEMMA PastLeave ==
    ASSUME GenerationInv, PastInv, NEW r \in Ranks, NEW p \in Programs,
           NEW step \in Steps \ {"load", "exit", "done"}, NEW next \in Steps \ {"load", "exit", "done"},
           NEW count, Leave(r, p, step, count, next)
    PROVE  PastInv'
  <1>1. /\ UNCHANGED <<backend, calls, launch, strategy, snap>>
        /\ pc[r][p] = step /\ pc' = [pc EXCEPT ![r][p] = next]
    BY DEF Leave, control, state
  <1> QED
    BY <1>1, PastStays

LEMMA PastStep ==
    ASSUME PeersUniform, GenerationInv, PastInv, NEW r \in Ranks, NEW p \in Programs, Step(r, p)
    PROVE  PastInv'
  <1>1. CASE Load(r, p)
    BY <1>1, PastLoad
  <1>2. CASE Arrive(r, p)
    BY <1>2, PastStays DEF Arrive, control, Steps
  <1>3. CASE Push(r, p)
    BY <1>3, PastStill DEF Push, control, state
  <1>4. CASE EndPush(r, p)
    BY <1>4, PastLeave DEF EndPush, Steps
  <1>5. CASE Reduce(r, p)
    BY <1>5, PastStill DEF Reduce, control, state
  <1>6. CASE EndReduce(r, p)
    <2>1. CASE KernelOf(r) = "tiled"
      <3>1. Leave(r, p, "reduce", ItemCount(M(r)), "phase")
        BY <1>6, <2>1 DEF EndReduce
      <3> QED
        BY <3>1, PastLeave DEF Steps
    <2>2. CASE KernelOf(r) # "tiled"
      <3>1. Leave(r, p, "reduce", ItemCount(M(r)), "finish")
        BY <1>6, <2>2 DEF EndReduce
      <3> QED
        BY <3>1, PastLeave DEF Steps
    <2> QED
      BY <2>1, <2>2
  <1>7. CASE ReduceOwned(r, p)
    BY <1>7, PastStill DEF ReduceOwned, control, state
  <1>8. CASE EndReduceOwned(r, p)
    BY <1>8, PastLeave DEF EndReduceOwned, Steps
  <1>9. CASE Consume(r, p)
    BY <1>9, PastStill DEF Consume, control, state
  <1>10. CASE EndConsume(r, p)
    BY <1>10, PastLeave DEF EndConsume, Steps
  <1>11. CASE PhaseArrive(r, p)
    BY <1>11, PastStays DEF PhaseArrive, control, Steps
  <1>12. CASE PhaseLeave(r, p)
    BY <1>12, PastStays DEF PhaseLeave, control, state, Steps
  <1>13. CASE Normalize(r, p)
    BY <1>13, PastStill DEF Normalize, control, state
  <1>14. CASE EndNormalize(r, p)
    BY <1>14, PastLeave DEF EndNormalize, Steps
  <1>15. CASE Advance(r)
    BY <1>15, PastAdvance
  <1>16. CASE Exit(r, p)
    <2>1. /\ UNCHANGED <<backend, calls, launch, strategy, snap>>
          /\ pc[r][p] = (IF p = 0 THEN "exit" ELSE "finish") /\ pc' = [pc EXCEPT ![r][p] = "done"]
      BY <1>16 DEF Exit, control, state
    <2> QED
      BY <2>1, PastStays DEF Steps
  <1> QED
    BY <1>1, <1>2, <1>3, <1>4, <1>5, <1>6, <1>7, <1>8, <1>9, <1>10, <1>11, <1>12,
       <1>13, <1>14, <1>15, <1>16 DEF Step

-----------------------------------------------------------------------------
(* The mail of all launches: what has been sent, what lies in the buffers  *)
(* and what has been made of it.                                           *)

IsCall(n) == n \in 1 .. Len(calls)
At(n, x) == Place(calls[n], SlotOf(n), x)

\* The mail of launch n that is to arrive at rank r.
Expected(n, r) == {x \in Mail(calls[n]) : Addressed(calls[n], x, r)}

\* The program that sends x in a launch of m tokens.
Sender(m, x) == (IF x.kind = "push" THEN ItemOf(m, x.cell) ELSE OwnedItem(x.cell)) % Grid(m)

\* Mail x of the launch its sender is in, or of launch n, has been sent.
SentNow(x) == IF x.kind = "push" THEN x.cell \in issued[x.from] ELSE x.cell \in summed[x.from]
Sent(n, x) == launch[x.from] > n \/ (launch[x.from] = n /\ SentNow(x))

MemoryTypes ==
    /\ DOMAIN buffer = Ranks /\ \A r \in Ranks : DOMAIN buffer[r] = BufferCells
    /\ DOMAIN tensor = Ranks

\* A rank that is behind has sent everything of the launch it is in.
AllSent(q) == \A t \in Ranks : \A x \in Expected(launch[q], t) : x.from = q => SentNow(x)
Behind ==
    \A q, r \in Ranks : launch[q] < launch[r] =>
        /\ launch[r] = launch[q] + 1
        /\ launch[q] > 0 => AllSent(q)

\* A store that has not landed is mail to an empty place.
Posted(q, p, st, t, x) ==
    /\ st = [to |-> t, at |-> At(launch[q], x), value |-> Content(launch[q], x)]
    /\ x.from = q /\ Sender(M(q), x) = p /\ SentNow(x)
    /\ launch[t] <= launch[q] /\ buffer[t][At(launch[q], x)] = Empty
InFlight ==
    \A q \in Ranks, p \in Programs : \A st \in stores[q][p] :
        launch[q] > 0 /\ \E t \in Ranks : \E x \in Expected(launch[q], t) : Posted(q, p, st, t, x)

\* A cell that is not empty holds mail of this launch or of one next to it.
Delivered(r, a, n, x) ==
    /\ a = At(n, x) /\ buffer[r][a] = Content(n, x) /\ Sent(n, x)
    /\ n = launch[r] - 1 => a \notin wiped[r]
Near(r) == {launch[r] - 1, launch[r], launch[r] + 1}
Holds ==
    \A r \in Ranks, a \in BufferCells : buffer[r][a] # Empty =>
        \E n \in Near(r) : IsCall(n) /\ \E x \in Expected(n, r) : Delivered(r, a, n, x)

\* What a rank has used has arrived.
Used(r, x) ==
    \/ x.cell \in reduced[r] /\ (KernelOf(r) = "twoshot" => x.kind = "sum")
    \/ x.cell \in summed[r] /\ KernelOf(r) = "twoshot" /\ x.kind = "push"
Landed ==
    \A r \in Ranks : launch[r] > 0 => \A x \in Expected(launch[r], r) :
        Used(r, x) => buffer[r][At(launch[r], x)] # Empty

Results ==
    \A r \in Ranks : launch[r] > 0 => \A c \in Cells(M(r)) :
        tensor[r][c] = IF c \in reduced[r] THEN Sum(launch[r], c)
                       ELSE {Contribution(launch[r], r, c)}

MailInv == MemoryTypes /\ Behind /\ InFlight /\ Holds /\ Landed /\ Results

PayloadInv == GenerationInv /\ LoopInv /\ PastInv /\ MailInv

-----------------------------------------------------------------------------
(* Mail of neighbouring launches to one rank never shares a cell. *)

LEMMA SlotNumbers ==
    ASSUME NEW n \in Nat \ {0}
    PROVE  /\ SlotOf(n) \in Slots
           /\ \A k \in Nat \ {0} : SlotOf(n) = SlotOf(k) /\ n - k \in -2 .. 2 => n = k
           /\ (SlotOf(n) + 2) % 3 \in Slots /\ (SlotOf(n) + 2) % 3 # SlotOf(n)
           /\ n > 1 => (SlotOf(n) + 2) % 3 = SlotOf(n - 1)
  BY Z3 DEF SlotOf, Slots

\* A rank that has made a call is in one.
LEMMA InACall ==
    ASSUME GenerationInv, NEW r \in Ranks, launch[r] > 0
    PROVE  IsCall(launch[r]) /\ launch[r] \in Nat \ {0} /\ M(r) = calls[launch[r]]
  BY DEF GenerationInv, ControlTypes, IsCall, M

LEMMA ExpectedMail ==
    ASSUME PeersUniform, GenerationInv, PastInv, NEW n, IsCall(n), NEW r \in Ranks,
           NEW x \in Expected(n, r)
    PROVE  /\ n \in Nat \ {0} /\ calls[n] \in 1 .. MaxTokens
           /\ x \in Mail(calls[n]) /\ Addressed(calls[n], x, r)
           /\ x.kind \in {"push", "sum"} /\ x.from \in Ranks /\ x.cell \in Cells(calls[n])
           /\ At(n, x) \in BufferCells /\ At(n, x) \in SlotCells(SlotOf(n))
  <1>1. n \in Nat \ {0} /\ calls[n] \in 1 .. MaxTokens /\ Fits(calls[n])
    BY CallsOf DEF IsCall
  <1>2. x \in Mail(calls[n]) /\ Addressed(calls[n], x, r)
    BY DEF Expected
  <1>3. SlotOf(n) \in Slots
    BY <1>1, SlotNumbers
  <1>4. At(n, x) \in SlotCells(SlotOf(n)) /\ At(n, x) \in BufferCells
    <2>1. Place(calls[n], SlotOf(n), x) \in SlotCells(SlotOf(n))
          /\ Place(calls[n], SlotOf(n), x) \in BufferCells
      BY <1>1, <1>2, <1>3, PlaceInSlot
    <2> QED
      BY <2>1 DEF At
  <1>5. x.kind \in {"push", "sum"} /\ x.from \in Ranks /\ x.cell \in Cells(calls[n])
    BY <1>1, <1>2, MailFields
  <1> QED
    BY <1>1, <1>2, <1>4, <1>5

LEMMA MailApart ==
    ASSUME PeersUniform, GenerationInv, PastInv, NEW r \in Ranks,
           NEW n, IsCall(n), NEW k, IsCall(k), n - k \in -2 .. 2,
           NEW x \in Expected(n, r), NEW y \in Expected(k, r), At(n, x) = At(k, y)
    PROVE  n = k /\ x = y
  <1>1. /\ n \in Nat \ {0} /\ calls[n] \in 1 .. MaxTokens
        /\ x \in Mail(calls[n]) /\ Addressed(calls[n], x, r) /\ At(n, x) \in SlotCells(SlotOf(n))
    BY ExpectedMail
  <1>2. /\ k \in Nat \ {0} /\ y \in Mail(calls[k]) /\ Addressed(calls[k], y, r)
        /\ At(k, y) \in SlotCells(SlotOf(k))
    BY ExpectedMail
  <1>3. SlotOf(n) \in Slots /\ SlotOf(k) \in Slots
    BY <1>1, <1>2, SlotNumbers
  <1>4. SlotOf(n) = SlotOf(k)
    BY <1>1, <1>2, <1>3, SlotsDisjoint
  <1>5. n = k
    BY <1>1, <1>2, <1>4, SlotNumbers
  <1>6. Fits(calls[n])
    BY CallsOf DEF IsCall
  <1>7. Place(calls[n], SlotOf(n), x) = Place(calls[n], SlotOf(n), y)
    BY <1>5 DEF At
  <1>8. y \in Mail(calls[n]) /\ Addressed(calls[n], y, r)
    BY <1>2, <1>5
  <1>9. x = y
    BY <1>1, <1>3, <1>6, <1>7, <1>8, PlacesDiffer
  <1> QED
    BY <1>5, <1>9

\* Two ranks are at most one call apart.
LEMMA RanksAreNear ==
    ASSUME GenerationInv, Behind, NEW q \in Ranks, NEW r \in Ranks
    PROVE  /\ launch[q] \in Nat /\ launch[r] \in Nat
           /\ launch[q] <= launch[r] + 1 /\ launch[q] \in Near(r)
  <1>1. launch[q] \in Nat /\ launch[r] \in Nat
    BY DEF GenerationInv, ControlTypes
  <1>2. launch[q] < launch[r] => launch[r] = launch[q] + 1
    BY DEF Behind
  <1>3. launch[r] < launch[q] => launch[q] = launch[r] + 1
    BY DEF Behind
  <1> QED
    BY <1>1, <1>2, <1>3 DEF Near

\* Mail in a cell that is not empty has arrived there.
LEMMA WhatArrived ==
    ASSUME PeersUniform, PayloadInv, NEW r \in Ranks, NEW n \in Near(r), IsCall(n),
           NEW x \in Expected(n, r), buffer[r][At(n, x)] # Empty
    PROVE  Delivered(r, At(n, x), n, x)
  <1> USE DEF PayloadInv, MailInv
  <1>1. At(n, x) \in BufferCells /\ n \in Nat
    BY ExpectedMail
  <1>2. PICK k \in Near(r) : IsCall(k) /\ \E y \in Expected(k, r) : Delivered(r, At(n, x), k, y)
    BY <1>1 DEF Holds
  <1>3. PICK y \in Expected(k, r) : Delivered(r, At(n, x), k, y)
    BY <1>2
  <1>4. n - k \in -2 .. 2
    BY DEF Near, GenerationInv, ControlTypes
  <1>5. At(n, x) = At(k, y)
    BY <1>3 DEF Delivered
  <1>6. n = k /\ x = y
    BY <1>2, <1>4, <1>5, MailApart
  <1> QED
    BY <1>3, <1>6

\* Mail that is yet to be sent has an empty place, at a rank that is not ahead.
LEMMA PlaceIsFree ==
    ASSUME PeersUniform, PayloadInv, NEW q \in Ranks, launch[q] > 0, NEW t \in Ranks,
           NEW x \in Expected(launch[q], t), x.from = q, ~SentNow(x)
    PROVE  launch[t] <= launch[q] /\ buffer[t][At(launch[q], x)] = Empty
  <1> USE DEF PayloadInv, MailInv
  <1>1. launch[q] \in Near(t) /\ launch[q] \in Nat /\ launch[t] \in Nat
    BY RanksAreNear
  <1>2. ~(launch[q] < launch[t])
    BY DEF Behind, AllSent
  <1>3. buffer[t][At(launch[q], x)] = Empty
    <2> SUFFICES ASSUME buffer[t][At(launch[q], x)] # Empty PROVE FALSE
      OBVIOUS
    <2>1. IsCall(launch[q])
      BY InACall
    <2>2. Delivered(t, At(launch[q], x), launch[q], x)
      BY <1>1, <2>1, WhatArrived
    <2> QED
      BY <1>1, <2>2 DEF Delivered, Sent
  <1> QED
    BY <1>1, <1>2, <1>3

\* Two stores to one cell are one store.
LEMMA OneStorePerCell ==
    ASSUME PeersUniform, PayloadInv,
           NEW q \in Ranks, NEW p \in Programs, NEW st \in stores[q][p],
           NEW q2 \in Ranks, NEW p2 \in Programs, NEW st2 \in stores[q2][p2],
           st.to = st2.to, st.at = st2.at
    PROVE  q = q2 /\ p = p2 /\ st = st2
  <1> USE DEF PayloadInv, MailInv
  <1>8. PICK t \in Ranks :
           launch[q] > 0 /\ \E x \in Expected(launch[q], t) : Posted(q, p, st, t, x)
    BY DEF InFlight
  <1>1. PICK x \in Expected(launch[q], t) : launch[q] > 0 /\ Posted(q, p, st, t, x)
    BY <1>8
  <1>9. PICK t2 \in Ranks :
           launch[q2] > 0 /\ \E x2 \in Expected(launch[q2], t2) : Posted(q2, p2, st2, t2, x2)
    BY DEF InFlight
  <1>2. PICK x2 \in Expected(launch[q2], t2) : launch[q2] > 0 /\ Posted(q2, p2, st2, t2, x2)
    BY <1>9
  <1>3. t = t2 /\ At(launch[q], x) = At(launch[q2], x2)
    BY <1>1, <1>2 DEF Posted
  <1>4. IsCall(launch[q]) /\ IsCall(launch[q2])
    BY <1>1, <1>2, InACall
  <1>5. launch[q] - launch[q2] \in -2 .. 2
    <2>1. launch[q] \in Near(t) /\ launch[q2] \in Near(t) /\ launch[t] \in Nat
      BY RanksAreNear
    <2> QED
      BY <2>1 DEF Near
  <1>6. launch[q] = launch[q2] /\ x = x2
    BY <1>3, <1>4, <1>5, MailApart
  <1>7. q = q2
    BY <1>1, <1>2, <1>6 DEF Posted
  <1> QED
    BY <1>1, <1>2, <1>3, <1>6, <1>7 DEF Posted

-----------------------------------------------------------------------------
(* What has to have been sent before what. *)

PushOf(q, c) == [kind |-> "push", from |-> q, cell |-> c]
SumOf(c) == [kind |-> "sum", from |-> Owner(c), cell |-> c]

\* What is sent in a call about one cell.
LEMMA MailAbout ==
    ASSUME PeersUniform, GenerationInv, PastInv, NEW n, IsCall(n),
           NEW c \in Cells(calls[n]), NEW q \in Ranks, NEW t \in Ranks
    PROVE  /\ Owner(c) \in Ranks
           /\ Kernel(calls[n]) # "twoshot" => PushOf(q, c) \in Expected(n, t)
           /\ Kernel(calls[n]) = "twoshot" => /\ PushOf(q, c) \in Expected(n, Owner(c))
                                              /\ SumOf(c) \in Expected(n, t)
  <1>1. calls[n] \in 1 .. MaxTokens
    BY CallsOf DEF IsCall
  <1>2. Owner(c) \in Ranks
    BY <1>1, OwnedItems
  <1>3. PushOf(q, c) \in Mail(calls[n]) /\ SumOf(c) \in Mail(calls[n])
    BY <1>2 DEF Mail, PushOf, SumOf
  <1>4. /\ PushOf(q, c).kind = "push" /\ PushOf(q, c).cell = c
        /\ SumOf(c).kind = "sum" /\ SumOf(c).from = Owner(c) /\ SumOf(c).cell = c
    BY DEF PushOf, SumOf
  <1> QED
    BY <1>2, <1>3, <1>4 DEF Expected, Addressed

\* A sum is sent when every payload in it has been sent.
LEMMA PushesBeforeSum ==
    ASSUME PeersUniform, PayloadInv, NEW n, IsCall(n), Kernel(calls[n]) = "twoshot",
           NEW c \in Cells(calls[n]), Sent(n, SumOf(c)), NEW q \in Ranks
    PROVE  Sent(n, PushOf(q, c))
  <1> USE DEF PayloadInv, MailInv
  <1> DEFINE o == Owner(c)
             x == PushOf(q, c)
  <1>1. o \in Ranks /\ x \in Expected(n, o) /\ n \in Nat \ {0}
    BY MailAbout, ExpectedMail
  <1>2. x.kind = "push" /\ x.from = q /\ x.cell = c
    BY DEF PushOf
  <1>3. launch[o] > n \/ (launch[o] = n /\ c \in summed[o])
    BY DEF Sent, SentNow, SumOf
  <1>4. launch[o] \in Nat /\ launch[q] \in Nat
    BY <1>1, RanksAreNear
  <1> HIDE DEF o, x
  <1>5. CASE launch[o] = n /\ c \in summed[o]
    <2>1. launch[o] > 0 /\ KernelOf(o) = "twoshot" /\ n \in Near(o)
      BY <1>1, <1>4, <1>5 DEF KernelOf, M, Near
    <2>2. Used(o, x)
      BY <1>2, <1>5, <2>1 DEF Used
    <2>3. buffer[o][At(n, x)] # Empty
      BY <1>1, <1>5, <2>1, <2>2 DEF Landed
    <2>4. Delivered(o, At(n, x), n, x)
      BY <1>1, <2>1, <2>3, WhatArrived
    <2> QED
      BY <2>4 DEF Delivered, x
  <1>6. CASE launch[o] > n
    <2>1. CASE launch[q] > n
      BY <1>2, <2>1 DEF Sent, x
    <2>2. CASE ~(launch[q] > n)
      <3>1. launch[q] < launch[o]
        BY <1>1, <1>4, <1>6, <2>2
      <3>2. launch[q] = n
        BY <1>1, <1>4, <1>6, <2>2, <3>1 DEF Behind
      <3>3. AllSent(q)
        BY <1>1, <3>1, <3>2 DEF Behind
      <3>4. SentNow(x)
        BY <1>1, <1>2, <3>2, <3>3 DEF AllSent
      <3> QED
        BY <1>2, <3>2, <3>4 DEF Sent, x
    <2> QED
      BY <2>1, <2>2
  <1> QED
    BY <1>3, <1>5, <1>6

\* A cell that holds its result has been pushed by every rank.
LEMMA ReducedIsSent ==
    ASSUME PeersUniform, PayloadInv, NEW r \in Ranks, launch[r] > 0,
           NEW c \in Cells(M(r)), c \in reduced[r], NEW q \in Ranks
    PROVE  Sent(launch[r], PushOf(q, c))
  <1> USE DEF PayloadInv, MailInv
  <1> DEFINE n == launch[r]
  <1>1. IsCall(n) /\ n \in Nat \ {0} /\ M(r) = calls[n] /\ n \in Near(r)
    BY InACall DEF Near
  <1>2. KernelOf(r) = Kernel(calls[n])
    BY <1>1 DEF KernelOf
  <1> HIDE DEF n
  <1>3. CASE Kernel(calls[n]) # "twoshot"
    <2>1. PushOf(q, c) \in Expected(n, r)
      BY <1>1, <1>3, MailAbout
    <2>2. Used(r, PushOf(q, c))
      BY <1>2, <1>3 DEF Used, PushOf
    <2>3. buffer[r][At(n, PushOf(q, c))] # Empty
      BY <2>1, <2>2 DEF Landed, n
    <2>4. Delivered(r, At(n, PushOf(q, c)), n, PushOf(q, c))
      BY <1>1, <2>1, <2>3, WhatArrived
    <2> QED
      BY <2>4 DEF Delivered, n
  <1>4. CASE Kernel(calls[n]) = "twoshot"
    <2>1. SumOf(c) \in Expected(n, r)
      BY <1>1, <1>4, MailAbout
    <2>2. Used(r, SumOf(c))
      BY DEF Used, SumOf
    <2>3. buffer[r][At(n, SumOf(c))] # Empty
      BY <2>1, <2>2 DEF Landed, n
    <2>4. Delivered(r, At(n, SumOf(c)), n, SumOf(c))
      BY <1>1, <2>1, <2>3, WhatArrived
    <2>5. Sent(n, SumOf(c)) /\ c \in Cells(calls[n])
      BY <1>1, <2>4 DEF Delivered
    <2>6. Sent(n, PushOf(q, c))
      BY <1>1, <1>4, <2>5, PushesBeforeSum
    <2> QED
      BY <2>6 DEF n
  <1> QED
    BY <1>3, <1>4

-----------------------------------------------------------------------------
(* What is known when a launch is over. *)

LEMMA IdleHasFinished ==
    ASSUME GenerationInv, NEW r \in Ranks, launch[r] > 0, Idle(r), NEW c \in Cells(M(r))
    PROVE  /\ c \in issued[r] /\ c \in reduced[r]
           /\ KernelOf(r) = "twoshot" /\ Owner(c) = r => c \in summed[r]
  <1>1. M(r) \in 1 .. MaxTokens /\ GridOf(r) \in 1 .. ProgramLimit
    BY CurrentCall DEF GenerationInv
  <1>2. M(r) \in Nat
    BY <1>1, CallsArePositive
  <1>3. ItemOf(M(r), c) \in Nat /\ c[1] \in Nat /\ OwnedItem(c) \in Nat
    <2>1. ItemOf(M(r), c) \in 0 .. ItemCount(M(r)) - 1
      BY <1>1, Items
    <2>2. c[1] \in 0 .. M(r) - 1
      BY <1>1, CellOffsets
    <2>3. OwnedItem(c) \in 0 .. CeilDiv(M(r), WorldSize) * TilesPerRow - 1
      BY <1>1, OwnedItems
    <2> QED
      BY <2>1, <2>2, <2>3
  <1>4. \A i \in Nat : pc[r][i % GridOf(r)] = "done"
    <2>1. \A i \in Nat : i % GridOf(r) \in Programs
      BY <1>1, LayoutAssumption DEF Programs
    <2> QED
      BY <2>1 DEF Idle
  <1>5. \A i \in Nat : /\ Finished(pc[r], work[r], GridOf(r), i, "push", AfterPush)
                       /\ Finished(pc[r], work[r], GridOf(r), i, "reduce", AfterReduce)
                       /\ Finished(pc[r], work[r], GridOf(r), i, "consume", AfterConsume)
    BY <1>4 DEF Finished, AfterPush, AfterReduce, AfterConsume, Steps
  <1> QED
    BY <1>3, <1>5 DEF issued, summed, reduced

LEMMA IdleHasArrived ==
    ASSUME PeersUniform, PayloadInv, NEW r \in Ranks, launch[r] > 0, Idle(r),
           NEW x \in Expected(launch[r], r)
    PROVE  buffer[r][At(launch[r], x)] # Empty /\ Sent(launch[r], x)
  <1> USE DEF PayloadInv, MailInv
  <1>1. /\ IsCall(launch[r]) /\ launch[r] \in Nat \ {0} /\ M(r) = calls[launch[r]]
        /\ launch[r] \in Near(r)
    BY InACall DEF Near
  <1>2. /\ x.kind \in {"push", "sum"} /\ x.cell \in Cells(M(r))
        /\ Addressed(M(r), x, r)
    BY <1>1, ExpectedMail
  <1>3. x.cell \in reduced[r] /\ (KernelOf(r) = "twoshot" /\ Owner(x.cell) = r => x.cell \in summed[r])
    BY <1>2, IdleHasFinished
  <1>4. Used(r, x)
    BY <1>2, <1>3 DEF Used, Addressed, KernelOf
  <1>5. buffer[r][At(launch[r], x)] # Empty
    BY <1>4 DEF Landed
  <1>6. Delivered(r, At(launch[r], x), launch[r], x)
    BY <1>1, <1>5, WhatArrived
  <1> QED
    BY <1>5, <1>6 DEF Delivered

\* All mail of the launch has been sent, to whomever it goes.
LEMMA IdleKnowsSent ==
    ASSUME PeersUniform, PayloadInv, NEW r \in Ranks, launch[r] > 0, Idle(r),
           NEW t \in Ranks, NEW x \in Expected(launch[r], t)
    PROVE  Sent(launch[r], x)
  <1> USE DEF PayloadInv, MailInv
  <1>1. IsCall(launch[r]) /\ launch[r] \in Nat \ {0} /\ M(r) = calls[launch[r]]
    BY InACall
  <1>2. /\ x.kind \in {"push", "sum"} /\ x.cell \in Cells(M(r)) /\ x.from \in Ranks
        /\ x \in Mail(M(r)) /\ Addressed(M(r), x, t) /\ M(r) \in 1 .. MaxTokens
    BY <1>1, ExpectedMail
  <1>3. CASE x.kind = "push"
    <2>1. x = PushOf(x.from, x.cell)
      BY <1>2, <1>3 DEF Mail, PushOf
    <2>2. x.cell \in reduced[r]
      BY <1>2, IdleHasFinished
    <2>3. Sent(launch[r], PushOf(x.from, x.cell))
      BY <1>2, <2>2, ReducedIsSent
    <2> QED
      BY <2>1, <2>3
  <1>4. CASE x.kind = "sum"
    <2>1. Addressed(M(r), x, r)
      BY <1>2, <1>4 DEF Addressed
    <2>2. x \in Expected(launch[r], r)
      BY <1>1, <1>2, <2>1 DEF Expected
    <2> QED
      BY <2>2, IdleHasArrived
  <1> QED
    BY <1>2, <1>3, <1>4

\* The other ranks have made the same call at least.
LEMMA IdleIsNotAhead ==
    ASSUME PeersUniform, PayloadInv, NEW r \in Ranks, launch[r] > 0, Idle(r), NEW q \in Ranks
    PROVE  launch[q] >= launch[r]
  <1> USE DEF PayloadInv, MailInv
  <1>1. IsCall(launch[r]) /\ launch[r] \in Nat \ {0} /\ M(r) = calls[launch[r]]
    BY InACall
  <1>2. M(r) \in 1 .. MaxTokens
    BY CurrentCall DEF GenerationInv
  <1>3. <<0, 0>> \in Cells(M(r))
    BY <1>2, LayoutAssumption DEF Cells, Tiles
  <1>4. <<0, 0>> \in reduced[r]
    BY <1>3, IdleHasFinished
  <1>5. Sent(launch[r], PushOf(q, <<0, 0>>))
    BY <1>3, <1>4, ReducedIsSent
  <1>6. launch[q] \in Nat
    BY RanksAreNear
  <1> QED
    BY <1>1, <1>5, <1>6 DEF Sent, PushOf

\* A program's snapshot, for the lemmas about the clear pass.
LEMMA SnapshotIs ==
    ASSUME PeersUniform, GenerationInv, PastInv, NEW r \in Ranks, NEW p \in Programs,
           launch[r] > 0, p < GridOf(r), pc[r][p] # "load"
    PROVE  /\ snap[r][p].slot = SlotOf(launch[r]) /\ SlotOf(launch[r]) \in Slots
           /\ launch[r] = 1 => Remembers(snap[r][p], 0)
           /\ launch[r] > 1 => Remembers(snap[r][p], calls[launch[r] - 1])
           /\ snap[r][p] = [slot |-> SlotOf(launch[r]), numel |-> PayloadOf(launch[r] - 1),
                            strategy |-> StrategyAt(launch[r] - 1)]
  <1>1. Snapshot(r, p)
    BY DEF PastInv
  <1>2. launch[r] \in Nat \ {0} /\ launch[r] \in 1 .. Len(calls)
    BY InACall DEF IsCall
  <1>3. SlotOf(launch[r]) \in Slots
    BY <1>2, SlotNumbers
  <1>4. snap[r][p] \in [slot : Int, numel : Int, strategy : Int]
    BY DEF GenerationInv, ControlTypes
  <1>5. launch[r] = 1 => Remembers(snap[r][p], 0)
    <2>1. launch[r] = 1 => launch[r] - 1 = 0
      OBVIOUS
    <2>2. 0 * TilesPerRow = 0
      BY LayoutAssumption
    <2> QED
      BY <1>1, <2>1, <2>2 DEF Snapshot, Remembers, PayloadOf, StrategyAt
  <1>6. launch[r] > 1 => Remembers(snap[r][p], calls[launch[r] - 1])
    <2> SUFFICES ASSUME launch[r] > 1 PROVE Remembers(snap[r][p], calls[launch[r] - 1])
      OBVIOUS
    <2>1. launch[r] - 1 # 0 /\ launch[r] - 1 \in 1 .. Len(calls)
      BY <1>2 DEF GenerationInv, ControlTypes
    <2>2. calls[launch[r] - 1] # 0
      BY <2>1, CallsOf
    <2> QED
      BY <1>1, <2>1, <2>2 DEF Snapshot, Remembers, PayloadOf, StrategyAt
  <1> QED
    BY <1>1, <1>3, <1>4, <1>5, <1>6 DEF Snapshot

\* When the launch is over nothing is left of the launch before it.
LEMMA IdleIsClean ==
    ASSUME PeersUniform, PayloadInv, NEW r \in Ranks, launch[r] > 0, Idle(r),
           IsCall(launch[r] - 1), NEW x \in Expected(launch[r] - 1, r)
    PROVE  At(launch[r] - 1, x) \in wiped[r]
  <1> USE DEF PayloadInv, MailInv
  <1> DEFINE n == launch[r]
             k == calls[n - 1]
             sn == [slot |-> SlotOf(n), numel |-> PayloadOf(n - 1), strategy |-> StrategyAt(n - 1)]
  <1>1. IsCall(n) /\ n \in Nat \ {0} /\ M(r) = calls[n] /\ n > 1
    <2>1. launch[r] - 1 \in 1 .. Len(calls)
      BY DEF IsCall
    <2>2. IsCall(n) /\ n \in Nat \ {0} /\ M(r) = calls[n]
      BY InACall
    <2> QED
      BY <2>1, <2>2
  <1>2. /\ k \in 1 .. MaxTokens /\ x \in Mail(k) /\ Addressed(k, x, r)
        /\ M(r) \in 1 .. MaxTokens /\ Compatible(M(r), k)
    <2>1. k \in 1 .. MaxTokens /\ x \in Mail(k) /\ Addressed(k, x, r)
      BY ExpectedMail
    <2>2. calls[n] \in 1 .. MaxTokens /\ Compatible(calls[n], calls[n - 1])
      BY <1>1, CallsOf DEF IsCall
    <2> QED
      BY <1>1, <2>1, <2>2
  <1>3. GridOf(r) \in 1 .. ProgramLimit
    BY CurrentCall DEF GenerationInv
  <1>4. \A p \in Programs : p < GridOf(r) => p \in Wipers(r) /\ snap[r][p] = sn
    <2> SUFFICES ASSUME NEW p \in Programs, p < GridOf(r) PROVE p \in Wipers(r) /\ snap[r][p] = sn
      OBVIOUS
    <2>1. pc[r][p] = "done"
      BY DEF Idle
    <2>2. cleared[r][p]
      BY <2>1 DEF LoopInv, Walk
    <2> QED
      BY <2>1, <2>2, SnapshotIs DEF Wipers
  <1>5. sn.slot \in Slots /\ sn.slot = SlotOf(n) /\ Remembers(sn, k)
    <2>1. 0 \in Programs /\ 0 < GridOf(r)
      BY <1>3, ProgramZero
    <2>2. snap[r][0] = sn /\ pc[r][0] # "load"
      BY <1>4, <2>1 DEF Wipers
    <2>3. snap[r][0].slot = SlotOf(n) /\ SlotOf(n) \in Slots /\ Remembers(snap[r][0], k)
      BY <1>1, <2>1, <2>2, SnapshotIs
    <2> QED
      BY <2>2, <2>3
  <1> HIDE DEF sn
  <1>6. backend \in Backends
    BY DEF GenerationInv, ControlTypes
  <1>7. PICK p \in Programs : /\ p < Grid(M(r))
                              /\ Place(k, (sn.slot + 2) % 3, x) \in ClearCells(M(r), p, sn)
    <2> HIDE DEF k
    <2> QED
      BY <1>2, <1>5, <1>6, ClearCovers
  <1>8. (sn.slot + 2) % 3 = SlotOf(n - 1)
    BY <1>1, <1>5, SlotNumbers
  <1>9. At(n - 1, x) \in ClearCells(M(r), p, snap[r][p]) /\ p \in Wipers(r)
    BY <1>4, <1>7, <1>8 DEF At, GridOf
  <1> QED
    BY <1>9 DEF wiped

-----------------------------------------------------------------------------
(* The mail stays what it is while no call is made. *)

SameCalls == UNCHANGED <<backend, calls, launch>>

\* More has been pushed and summed than before.
MoreSent == \A q \in Ranks : issued[q] \subseteq issued'[q] /\ summed[q] \subseteq summed'[q]

LEMMA MailFixed ==
    ASSUME SameCalls
    PROVE  /\ \A n, r : Expected(n, r)' = Expected(n, r)
           /\ \A n, x : At(n, x)' = At(n, x)
           /\ \A m, x : Sender(m, x)' = Sender(m, x)
           /\ \A n : IsCall(n)' = IsCall(n)
           /\ \A r : Near(r)' = Near(r) /\ M(r)' = M(r) /\ KernelOf(r)' = KernelOf(r)
           /\ \A n, x : Content(n, x)' = Content(n, x)
           /\ \A r : launch'[r] = launch[r]
           /\ BufferCells' = BufferCells
  <1>1. \A m : Mail(m)' = Mail(m)
    BY DEF Mail
  <1>2. \A m, x, r : Addressed(m, x, r)' = Addressed(m, x, r)
    BY LayoutFixed DEF SameCalls
  <1>3. \A n, r : Expected(n, r)' = Expected(n, r)
    BY <1>1, <1>2 DEF Expected, SameCalls
  <1>4. \A n, x : At(n, x)' = At(n, x)
    BY LayoutFixed DEF At, SameCalls, SlotOf
  <1>5. \A m, x : Sender(m, x)' = Sender(m, x)
    BY LayoutFixed DEF Sender, SameCalls, OwnedItem
  <1>6. \A r : M(r)' = M(r) /\ KernelOf(r)' = KernelOf(r)
    BY CallFixed DEF SameCalls
  <1>7. BufferCells' = BufferCells
    BY LayoutFixed DEF SameCalls
  <1> QED
    BY <1>3, <1>4, <1>5, <1>6, <1>7 DEF IsCall, Near, SameCalls, Content

LEMMA SentStays ==
    ASSUME SameCalls, MoreSent, NEW n, NEW x, x.from \in Ranks
    PROVE  (SentNow(x) => SentNow(x)') /\ (Sent(n, x) => Sent(n, x)')
  <1>1. SentNow(x) => SentNow(x)'
    BY DEF MoreSent, SentNow
  <1> QED
    BY <1>1 DEF SameCalls, Sent

LEMMA BehindStays ==
    ASSUME PayloadInv, SameCalls, MoreSent
    PROVE  Behind'
  <1>1. \A q \in Ranks : AllSent(q) => AllSent(q)'
    BY MailFixed, SentStays DEF AllSent
  <1>2. Behind
    BY DEF PayloadInv, MailInv
  <1> QED
    BY <1>1, <1>2, MailFixed DEF Behind

LEMMA HoldsStays ==
    ASSUME PeersUniform, PayloadInv, SameCalls, MoreSent, buffer' = buffer, wiped' = wiped
    PROVE  Holds'
  <1> USE DEF PayloadInv, MailInv
  <1> SUFFICES ASSUME NEW r \in Ranks, NEW a \in BufferCells, buffer[r][a] # Empty
               PROVE  \E n \in Near(r) : IsCall(n) /\ \E x \in Expected(n, r) : Delivered(r, a, n, x)'
    BY MailFixed DEF Holds
  <1>1. PICK n \in Near(r) : IsCall(n) /\ \E x \in Expected(n, r) : Delivered(r, a, n, x)
    BY DEF Holds
  <1>2. PICK x \in Expected(n, r) : Delivered(r, a, n, x)
    BY <1>1
  <1>3. x.from \in Ranks
    BY <1>1, ExpectedMail
  <1>4. Delivered(r, a, n, x)'
    BY <1>2, <1>3, MailFixed, SentStays DEF Delivered
  <1> QED
    BY <1>1, <1>4

\* What a rank has used is still there, and what it begins to use is there.
LEMMA LandedStays ==
    ASSUME PayloadInv, SameCalls,
           \A r \in Ranks : launch[r] > 0 => \A x \in Expected(launch[r], r) :
              /\ buffer[r][At(launch[r], x)] # Empty => buffer'[r][At(launch[r], x)] # Empty
              /\ Used(r, x)' => Used(r, x) \/ buffer'[r][At(launch[r], x)] # Empty
    PROVE  Landed'
  <1>1. Landed
    BY DEF PayloadInv, MailInv
  <1> SUFFICES ASSUME NEW r \in Ranks, launch[r] > 0, NEW x \in Expected(launch[r], r), Used(r, x)'
               PROVE  buffer'[r][At(launch[r], x)] # Empty
    BY MailFixed DEF Landed
  <1> QED
    BY <1>1 DEF Landed

LEMMA LandedStill ==
    ASSUME PayloadInv, SameCalls, reduced' = reduced, summed' = summed, buffer' = buffer
    PROVE  Landed'
  <1>1. \A r \in Ranks : \A x : Used(r, x)' = Used(r, x)
    BY MailFixed DEF Used
  <1> QED
    BY <1>1, LandedStays

LEMMA ResultsStay ==
    ASSUME PayloadInv, SameCalls, reduced' = reduced, tensor' = tensor
    PROVE  Results'
  BY MailFixed DEF PayloadInv, MailInv, Results, Cells, Tiles, Sum, Contribution

\* Stores that were posted still are, as long as nothing has been put in their place.
LEMMA PostedStays ==
    ASSUME PeersUniform, PayloadInv, SameCalls, MoreSent,
           NEW q \in Ranks, NEW p \in Programs, NEW st \in stores[q][p],
           buffer'[st.to][st.at] = buffer[st.to][st.at] \/ buffer'[st.to][st.at] = Empty
    PROVE  launch[q] > 0 /\ \E t \in Ranks : \E x \in Expected(launch[q], t) : Posted(q, p, st, t, x)'
  <1> USE DEF PayloadInv, MailInv
  <1>1. PICK t \in Ranks : launch[q] > 0 /\ \E x \in Expected(launch[q], t) : Posted(q, p, st, t, x)
    BY DEF InFlight
  <1>2. PICK x \in Expected(launch[q], t) : Posted(q, p, st, t, x)
    BY <1>1
  <1>3. x.from \in Ranks
    BY <1>1, <1>2, InACall, ExpectedMail
  <1>4. st.to = t /\ st.at = At(launch[q], x)
    BY <1>2 DEF Posted
  <1>5. SentNow(x)'
    BY <1>2, <1>3, SentStays DEF Posted
  <1>6. Posted(q, p, st, t, x)'
    BY <1>2, <1>4, <1>5, MailFixed DEF Posted
  <1> QED
    BY <1>1, <1>6

LEMMA InFlightStill ==
    ASSUME PeersUniform, PayloadInv, SameCalls, MoreSent, stores' = stores, buffer' = buffer
    PROVE  InFlight'
  BY PostedStays, MailFixed DEF InFlight

LEMMA MemoryStill ==
    ASSUME PayloadInv, SameCalls, buffer' = buffer, tensor' = tensor
    PROVE  MemoryTypes'
  BY MailFixed DEF PayloadInv, MailInv, MemoryTypes

\* Nothing is pushed, summed, finished, cleared or landed.
LEMMA MailQuiet ==
    ASSUME PeersUniform, PayloadInv, SameCalls, Quiet, UNCHANGED <<stores, buffer, tensor>>
    PROVE  MailInv'
  <1>1. MoreSent
    BY DEF Quiet, MoreSent
  <1> QED
    BY <1>1, BehindStays, HoldsStays, LandedStill, ResultsStay, InFlightStill, MemoryStill
       DEF Quiet, MailInv

-----------------------------------------------------------------------------
(* The programs at work. *)

\* The addresses a program computes are those of the mail of its launch.
LEMMA Addresses ==
    ASSUME PeersUniform, PayloadInv, NEW r \in Ranks, NEW p \in Programs,
           pc[r][p] \notin {"done", "load"}, NEW c \in Cells(M(r)), NEW q \in Ranks
    PROVE  LET s == snap[r][p].slot IN
           /\ KernelOf(r) # "twoshot" => OneShotCell(s, q, c) = At(launch[r], PushOf(q, c))
           /\ KernelOf(r) = "twoshot" => /\ ScatterCell(s, q, c) = At(launch[r], PushOf(q, c))
                                         /\ BroadcastCell(s, c) = At(launch[r], SumOf(c))
  <1> USE DEF PayloadInv
  <1>1. launch[r] > 0 /\ p < GridOf(r)
    BY AtWork
  <1>2. snap[r][p].slot = SlotOf(launch[r])
    BY <1>1, SnapshotIs
  <1>3. M(r) = calls[launch[r]]
    BY DEF M
  <1> QED
    BY <1>2, <1>3 DEF At, Place, PushOf, SumOf, KernelOf

\* What a rank finds at the place of mail of its launch is that mail.
LEMMA WhatIsFound ==
    ASSUME PeersUniform, PayloadInv, NEW r \in Ranks, launch[r] > 0,
           NEW x \in Expected(launch[r], r), buffer[r][At(launch[r], x)] # Empty
    PROVE  buffer[r][At(launch[r], x)] = Content(launch[r], x)
  <1>1. IsCall(launch[r]) /\ launch[r] \in Near(r)
    BY InACall DEF PayloadInv, Near
  <1> QED
    BY <1>1, WhatArrived DEF Delivered

\* The contributions of all ranks make the sum.
LEMMA Contributions ==
    ASSUME NEW n, NEW c, NEW f, \A q \in Ranks : f[q] = {Contribution(n, q, c)}
    PROVE  UNION {f[q] : q \in Ranks} = Sum(n, c)
  BY DEF Sum

\* What a program is about to push has been neither pushed nor reduced.
LEMMA NotYetPushed ==
    ASSUME PeersUniform, PayloadInv, NEW r \in Ranks, NEW p \in Programs,
           Iterate(r, p, "push", ItemCount(M(r))), NEW c \in ItemCells(M(r), work[r][p])
    PROVE  /\ launch[r] > 0 /\ c \in Cells(M(r)) /\ c \notin issued[r] /\ c \notin reduced[r]
           /\ ItemOf(M(r), c) % GridOf(r) = p
  <1> USE DEF PayloadInv
  <1>1. pc[r][p] = "push" /\ work[r][p] < ItemCount(M(r))
    BY DEF Iterate
  <1>2. /\ launch[r] > 0 /\ p < GridOf(r) /\ M(r) \in 1 .. MaxTokens
        /\ work[r][p] \in Nat /\ work[r][p] % GridOf(r) = p
    BY <1>1, AtWork
  <1>3. ItemCount(M(r)) \in Nat /\ work[r][p] \in 0 .. ItemCount(M(r)) - 1
    BY <1>1, <1>2, Items
  <1>4. c \in Cells(M(r)) /\ ItemOf(M(r), c) = work[r][p]
    BY <1>2, <1>3, Items
  <1>5. c \notin issued[r]
    <2>1. ~Finished(pc[r], work[r], GridOf(r), work[r][p], "push", AfterPush)
      BY <1>1, <1>2 DEF Finished, AfterPush
    <2> QED
      BY <1>4, <2>1 DEF issued
  <1>6. c \notin reduced[r]
    <2> SUFFICES ASSUME c \in reduced[r] PROVE FALSE
      OBVIOUS
    <2>1. Sent(launch[r], PushOf(r, c))
      BY <1>2, <1>4, ReducedIsSent
    <2>2. launch[r] \in Nat
      BY DEF GenerationInv, ControlTypes
    <2> QED
      BY <1>5, <2>1, <2>2 DEF Sent, SentNow, PushOf
  <1> QED
    BY <1>2, <1>4, <1>5, <1>6

\* Every store of a push is mail of the launch, to an empty place.
LEMMA PushPosts ==
    ASSUME PeersUniform, PayloadInv, NEW r \in Ranks, NEW p \in Programs, Push(r, p),
           NEW st \in PushStores(r, p, work[r][p])
    PROVE  launch[r] > 0 /\ \E t \in Ranks : \E x \in Expected(launch[r], t) : Posted(r, p, st, t, x)'
  <1> USE DEF PayloadInv, MailInv
  <1> DEFINE n == launch[r]
             cells == ItemCells(M(r), work[r][p])
  <1>1. /\ Iterate(r, p, "push", ItemCount(M(r))) /\ SameCalls /\ buffer' = buffer
    BY DEF Push, control, SameCalls
  <1>2. pc[r][p] \notin {"done", "load"} /\ launch[r] > 0
    <2>1. pc[r][p] = "push"
      BY <1>1 DEF Iterate
    <2> QED
      BY <2>1, AtWork
  <1>3. IsCall(n) /\ M(r) = calls[n]
    BY <1>2, InACall
  <1>4. \A c \in cells : c \in Cells(M(r)) /\ c \notin issued[r] /\ c \notin reduced[r]
                         /\ ItemOf(M(r), c) % GridOf(r) = p
    BY <1>1, NotYetPushed
  <1>5. PICK c \in cells, t \in Ranks :
           /\ PushOf(r, c) \in Expected(n, t)
           /\ st = [to |-> t, at |-> At(n, PushOf(r, c)), value |-> tensor[r][c]]
    <2>1. CASE KernelOf(r) = "twoshot"
      <3>1. PICK c \in cells : st = [to |-> Owner(c), at |-> ScatterCell(snap[r][p].slot, r, c),
                                     value |-> tensor[r][c]]
        BY <2>1 DEF PushStores
      <3>2. c \in Cells(M(r)) /\ Owner(c) \in Ranks /\ PushOf(r, c) \in Expected(n, Owner(c))
        BY <1>3, <1>4, <2>1, MailAbout DEF KernelOf
      <3>3. ScatterCell(snap[r][p].slot, r, c) = At(n, PushOf(r, c))
        BY <1>2, <2>1, <3>2, Addresses
      <3> QED
        BY <3>1, <3>2, <3>3
    <2>2. CASE KernelOf(r) # "twoshot"
      <3>1. PICK t \in Ranks, c \in cells :
              st = [to |-> t, at |-> OneShotCell(snap[r][p].slot, r, c), value |-> tensor[r][c]]
        BY <2>2 DEF PushStores
      <3>2. c \in Cells(M(r)) /\ PushOf(r, c) \in Expected(n, t)
        BY <1>3, <1>4, <2>2, MailAbout DEF KernelOf
      <3>3. OneShotCell(snap[r][p].slot, r, c) = At(n, PushOf(r, c))
        BY <1>2, <2>2, <3>2, Addresses
      <3> QED
        BY <3>1, <3>2, <3>3
    <2> QED
      BY <2>1, <2>2
  <1> DEFINE x == PushOf(r, c)
  <1>6. x.kind = "push" /\ x.from = r /\ x.cell = c
    BY DEF PushOf
  <1>7. tensor[r][c] = Content(n, x)
    <2>1. tensor[r][c] = {Contribution(n, r, c)}
      BY <1>2, <1>4 DEF Results
    <2> QED
      BY <1>6, <2>1 DEF Content
  <1> HIDE DEF x
  <1>8. ~SentNow(x)
    BY <1>4, <1>6 DEF SentNow
  <1>9. launch[t] <= launch[r] /\ buffer[t][At(launch[r], x)] = Empty
    BY <1>2, <1>5, <1>6, <1>8, PlaceIsFree DEF x
  <1>10. SentNow(x)'
    <2>1. issued' = [issued EXCEPT ![r] = @ \cup cells]
      BY PushEffect
    <2>2. DOMAIN issued = Ranks
      BY DEF issued
    <2>3. c \in issued'[r]
      BY <2>1, <2>2
    <2>4. x' = x
      BY DEF x, PushOf
    <2> QED
      BY <1>6, <2>3, <2>4 DEF SentNow
  <1>11. Sender(M(r), x) = p
    BY <1>4, <1>6 DEF Sender, GridOf
  <1>12. Posted(r, p, st, t, x)'
    <2>1. st = [to |-> t, at |-> At(n, x), value |-> Content(n, x)]
      BY <1>5, <1>7 DEF x
    <2> QED
      BY <1>1, <1>6, <1>9, <1>10, <1>11, <2>1, MailFixed DEF Posted
  <1>13. x \in Expected(n, t)
    BY <1>5 DEF x
  <1> QED
    BY <1>2, <1>12, <1>13

LEMMA MailPush ==
    ASSUME PeersUniform, PayloadInv, NEW r \in Ranks, NEW p \in Programs, Push(r, p)
    PROVE  MailInv'
  <1>1. SameCalls /\ UNCHANGED <<buffer, tensor>>
    BY DEF Push, control, SameCalls
  <1>2. /\ issued' = [issued EXCEPT ![r] = @ \cup ItemCells(M(r), work[r][p])]
        /\ summed' = summed /\ reduced' = reduced /\ wiped' = wiped
    BY PushEffect DEF PayloadInv
  <1>3. MoreSent
    <2>1. DOMAIN issued = Ranks
      BY DEF issued
    <2> QED
      BY <1>2, <2>1 DEF MoreSent
  <1>4. InFlight'
    <2>1. \A q \in Ranks, o \in Programs : \A st \in stores'[q][o] :
            st \in stores[q][o] \/ (q = r /\ o = p /\ st \in PushStores(r, p, work[r][p]))
      BY DEF Push, PayloadInv, LoopInv, LoopTypes
    <2> SUFFICES ASSUME NEW q \in Ranks, NEW o \in Programs, NEW st \in stores'[q][o]
                 PROVE  launch[q] > 0 /\ \E t \in Ranks : \E x \in Expected(launch[q], t) :
                                             Posted(q, o, st, t, x)'
      BY <1>1, MailFixed DEF InFlight
    <2>2. CASE st \in stores[q][o]
      BY <1>1, <1>3, <2>2, PostedStays
    <2>3. CASE q = r /\ o = p /\ st \in PushStores(r, p, work[r][p])
      BY <2>3, PushPosts
    <2> QED
      BY <2>1, <2>2, <2>3
  <1> QED
    BY <1>1, <1>2, <1>3, <1>4, BehindStays, HoldsStays, LandedStill, ResultsStay, MemoryStill
       DEF MailInv

\* The owner finds the payloads it sums, and has not summed them before.
LEMMA OwnerFinds ==
    ASSUME PeersUniform, PayloadInv, NEW r \in Ranks, NEW p \in Programs, ReduceOwned(r, p),
           NEW c, c = OwnedCell(r, work[r][p])
    PROVE  /\ launch[r] > 0 /\ p < GridOf(r) /\ pc[r][p] = "reduce" /\ KernelOf(r) = "twoshot"
           /\ c \in Cells(M(r)) /\ Owner(c) = r /\ c \notin summed[r]
           /\ OwnedItem(c) % GridOf(r) = p
           /\ \A q \in Ranks : buffer[r][At(launch[r], PushOf(q, c))] # Empty
           /\ UNION Scattered(r, p, c) = Sum(launch[r], c)
  <1> USE DEF PayloadInv, MailInv
  <1>1. /\ pc[r][p] = "reduce" /\ work[r][p] < OwnedCount(r, M(r)) /\ KernelOf(r) = "twoshot"
        /\ Empty \notin Scattered(r, p, c)
    BY DEF ReduceOwned, Iterate
  <1>2. /\ launch[r] > 0 /\ p < GridOf(r) /\ M(r) \in 1 .. MaxTokens
        /\ work[r][p] \in Nat /\ work[r][p] % GridOf(r) = p
    BY <1>1, AtWork
  <1>3. work[r][p] \in 0 .. OwnedCount(r, M(r)) - 1
    BY <1>1, <1>2, OwnedWork
  <1>4. c \in Cells(M(r)) /\ Owner(c) = r /\ OwnedItem(c) = work[r][p]
    BY <1>2, <1>3, OwnedWork
  <1>5. c \notin summed[r]
    <2>1. ~Finished(pc[r], work[r], GridOf(r), work[r][p], "reduce", AfterReduce)
      BY <1>1, <1>2 DEF Finished, AfterReduce
    <2> QED
      BY <1>4, <2>1 DEF summed
  <1>6. IsCall(launch[r]) /\ M(r) = calls[launch[r]]
    BY <1>2, InACall
  <1>7. ASSUME NEW q \in Ranks
        PROVE  /\ buffer[r][At(launch[r], PushOf(q, c))] # Empty
               /\ buffer[r][ScatterCell(snap[r][p].slot, q, c)] = {Contribution(launch[r], q, c)}
    <2>1. ScatterCell(snap[r][p].slot, q, c) = At(launch[r], PushOf(q, c))
      BY <1>1, <1>4, Addresses
    <2>2. buffer[r][At(launch[r], PushOf(q, c))] # Empty
      BY <1>1, <2>1 DEF Scattered
    <2>3. PushOf(q, c) \in Expected(launch[r], r)
      BY <1>1, <1>4, <1>6, MailAbout DEF KernelOf
    <2>4. buffer[r][At(launch[r], PushOf(q, c))] = Content(launch[r], PushOf(q, c))
      BY <1>2, <2>2, <2>3, WhatIsFound
    <2> QED
      BY <2>1, <2>2, <2>4 DEF Content, PushOf
  <1>8. UNION Scattered(r, p, c) = Sum(launch[r], c)
    <2> DEFINE f == [q \in Ranks |-> buffer[r][ScatterCell(snap[r][p].slot, q, c)]]
    <2>1. \A q \in Ranks : f[q] = {Contribution(launch[r], q, c)}
      BY <1>7
    <2>2. Scattered(r, p, c) = {f[q] : q \in Ranks}
      BY DEF Scattered
    <2> HIDE DEF f
    <2> QED
      BY <2>1, <2>2, Contributions
  <1> QED
    BY <1>1, <1>2, <1>4, <1>5, <1>7, <1>8

\* Every store of a sum is mail of the launch, to an empty place.
LEMMA SumPosts ==
    ASSUME PeersUniform, PayloadInv, NEW r \in Ranks, NEW p \in Programs, ReduceOwned(r, p),
           NEW t \in Ranks, NEW c, c = OwnedCell(r, work[r][p]),
           NEW st, st = [to |-> t, at |-> BroadcastCell(snap[r][p].slot, c),
                         value |-> UNION Scattered(r, p, c)]
    PROVE  launch[r] > 0 /\ \E x \in Expected(launch[r], t) : Posted(r, p, st, t, x)'
  <1> USE DEF PayloadInv, MailInv
  <1> DEFINE n == launch[r]
             x == SumOf(c)
  <1>1. SameCalls /\ buffer' = buffer
    BY DEF ReduceOwned, control, SameCalls
  <1>2. /\ launch[r] > 0 /\ p < GridOf(r) /\ pc[r][p] = "reduce" /\ KernelOf(r) = "twoshot"
        /\ c \in Cells(M(r)) /\ Owner(c) = r /\ c \notin summed[r]
        /\ OwnedItem(c) % GridOf(r) = p /\ UNION Scattered(r, p, c) = Sum(n, c)
    BY OwnerFinds
  <1>3. IsCall(n) /\ M(r) = calls[n]
    BY <1>2, InACall
  <1>4. x \in Expected(n, t)
    BY <1>2, <1>3, MailAbout DEF KernelOf
  <1>5. x.kind = "sum" /\ x.from = r /\ x.cell = c
    BY <1>2 DEF SumOf
  <1>6. st = [to |-> t, at |-> At(n, x), value |-> Content(n, x)]
    <2>1. BroadcastCell(snap[r][p].slot, c) = At(n, x)
      BY <1>2, Addresses
    <2>2. Content(n, x) = Sum(n, c)
      BY <1>5 DEF Content
    <2> QED
      BY <1>2, <2>1, <2>2
  <1>10. SentNow(x)'
    <2>1. summed' = [summed EXCEPT ![r] = @ \cup {c}]
      BY ReduceOwnedEffect
    <2>2. DOMAIN summed = Ranks
      BY DEF summed
    <2>3. c \in summed'[r]
      BY <2>1, <2>2
    <2>5. SentNow(x)' = (c \in summed'[r])
      BY <1>5 DEF SentNow, SumOf, Owner
    <2> QED
      BY <2>3, <2>5
  <1> HIDE DEF x
  <1>8. ~SentNow(x)
    BY <1>2, <1>5 DEF SentNow
  <1>9. launch[t] <= launch[r] /\ buffer[t][At(launch[r], x)] = Empty
    BY <1>2, <1>4, <1>5, <1>8, PlaceIsFree
  <1>11. Sender(M(r), x) = p
    BY <1>2, <1>5 DEF Sender, GridOf
  <1>12. Posted(r, p, st, t, x)'
    BY <1>1, <1>5, <1>6, <1>9, <1>10, <1>11, MailFixed DEF Posted
  <1> QED
    BY <1>2, <1>4, <1>12

LEMMA MailReduceOwned ==
    ASSUME PeersUniform, PayloadInv, NEW r \in Ranks, NEW p \in Programs, ReduceOwned(r, p)
    PROVE  MailInv'
  <1> DEFINE c == OwnedCell(r, work[r][p])
             new == {[to |-> t, at |-> BroadcastCell(snap[r][p].slot, c),
                      value |-> UNION Scattered(r, p, c)] : t \in Ranks}
  <1>1. /\ SameCalls /\ UNCHANGED <<buffer, tensor>>
        /\ stores' = [stores EXCEPT ![r][p] = @ \cup new]
    BY DEF ReduceOwned, control, SameCalls
  <1>2. /\ summed' = [summed EXCEPT ![r] = @ \cup {c}]
        /\ issued' = issued /\ reduced' = reduced /\ wiped' = wiped
    BY ReduceOwnedEffect DEF PayloadInv
  <1>3. DOMAIN summed = Ranks
    BY DEF summed
  <1>4. MoreSent
    BY <1>2, <1>3 DEF MoreSent
  <1>5. InFlight'
    <2>1. \A q \in Ranks, o \in Programs : \A st \in stores'[q][o] :
            st \in stores[q][o] \/ (q = r /\ o = p /\ st \in new)
      BY <1>1 DEF PayloadInv, LoopInv, LoopTypes
    <2> SUFFICES ASSUME NEW q \in Ranks, NEW o \in Programs, NEW st \in stores'[q][o]
                 PROVE  launch[q] > 0 /\ \E t \in Ranks : \E x \in Expected(launch[q], t) :
                                             Posted(q, o, st, t, x)'
      BY <1>1, MailFixed DEF InFlight
    <2>2. CASE st \in stores[q][o]
      BY <1>1, <1>4, <2>2, PostedStays
    <2>3. CASE q = r /\ o = p /\ st \in new
      <3>1. PICK t \in Ranks : st = [to |-> t, at |-> BroadcastCell(snap[r][p].slot, c),
                                     value |-> UNION Scattered(r, p, c)]
        BY <2>3
      <3>2. launch[r] > 0 /\ \E x \in Expected(launch[r], t) : Posted(r, p, st, t, x)'
        BY <3>1, SumPosts
      <3> QED
        BY <2>3, <3>2
    <2> QED
      BY <2>1, <2>2, <2>3
  <1>6. Landed'
    <2> SUFFICES ASSUME NEW q \in Ranks, launch[q] > 0, NEW x \in Expected(launch[q], q),
                        Used(q, x)', ~Used(q, x)
                 PROVE  buffer[q][At(launch[q], x)] # Empty
      BY <1>1, LandedStays
    <2>1. q = r /\ x.cell = c /\ x.kind = "push"
      BY <1>1, <1>2, <1>3, MailFixed DEF Used
    <2>2. x \in Mail(M(r))
      BY <2>1 DEF Expected, M
    <2>3. x = PushOf(x.from, c) /\ x.from \in Ranks
      BY <2>1, <2>2 DEF Mail, PushOf
    <2>4. \A s \in Ranks : buffer[r][At(launch[r], PushOf(s, c))] # Empty
      BY OwnerFinds
    <2> HIDE DEF c
    <2>5. buffer[r][At(launch[r], PushOf(x.from, c))] # Empty
      BY <2>3, <2>4
    <2> QED
      BY <2>1, <2>3, <2>5
  <1> QED
    BY <1>1, <1>2, <1>4, <1>5, <1>6, BehindStays, HoldsStays, ResultsStay, MemoryStill
       DEF MailInv

\* A rank's own poll finds every payload of a cell, and their sum.
LEMMA ReducerFinds ==
    ASSUME PeersUniform, PayloadInv, NEW r \in Ranks, NEW p \in Programs, Reduce(r, p),
           NEW c \in ItemCells(M(r), work[r][p])
    PROVE  /\ launch[r] > 0 /\ KernelOf(r) # "twoshot" /\ c \in Cells(M(r))
           /\ c \in Cells(MaxTokens)
           /\ \A q \in Ranks : buffer[r][At(launch[r], PushOf(q, c))] # Empty
           /\ UNION Slices(r, p, c) = Sum(launch[r], c)
  <1> USE DEF PayloadInv, MailInv
  <1>1. /\ pc[r][p] = "reduce" /\ work[r][p] < ItemCount(M(r)) /\ KernelOf(r) # "twoshot"
        /\ Empty \notin Slices(r, p, c)
    BY DEF Reduce, Iterate
  <1>2. /\ launch[r] > 0 /\ p < GridOf(r) /\ M(r) \in 1 .. MaxTokens /\ work[r][p] \in Nat
    BY <1>1, AtWork
  <1>3. work[r][p] \in 0 .. ItemCount(M(r)) - 1
    BY <1>1, <1>2, Items
  <1>4. c \in Cells(M(r)) /\ c \in Cells(MaxTokens)
    <2>1. c \in Cells(M(r))
      BY <1>2, <1>3, Items
    <2> QED
      BY <1>2, <2>1, CellOffsets
  <1>6. IsCall(launch[r]) /\ M(r) = calls[launch[r]]
    BY <1>2, InACall
  <1>7. ASSUME NEW q \in Ranks
        PROVE  /\ buffer[r][At(launch[r], PushOf(q, c))] # Empty
               /\ buffer[r][OneShotCell(snap[r][p].slot, q, c)] = {Contribution(launch[r], q, c)}
    <2>1. OneShotCell(snap[r][p].slot, q, c) = At(launch[r], PushOf(q, c))
      BY <1>1, <1>4, Addresses
    <2>2. buffer[r][At(launch[r], PushOf(q, c))] # Empty
      BY <1>1, <2>1 DEF Slices
    <2>3. PushOf(q, c) \in Expected(launch[r], r)
      BY <1>1, <1>4, <1>6, MailAbout DEF KernelOf
    <2>4. buffer[r][At(launch[r], PushOf(q, c))] = Content(launch[r], PushOf(q, c))
      BY <1>2, <2>2, <2>3, WhatIsFound
    <2> QED
      BY <2>1, <2>2, <2>4 DEF Content, PushOf
  <1>8. UNION Slices(r, p, c) = Sum(launch[r], c)
    <2> DEFINE f == [q \in Ranks |-> buffer[r][OneShotCell(snap[r][p].slot, q, c)]]
    <2>1. \A q \in Ranks : f[q] = {Contribution(launch[r], q, c)}
      BY <1>7
    <2>2. Slices(r, p, c) = {f[q] : q \in Ranks}
      BY DEF Slices
    <2> HIDE DEF f
    <2> QED
      BY <2>1, <2>2, Contributions
  <1> QED
    BY <1>1, <1>2, <1>4, <1>7, <1>8

LEMMA ResultsFrom ==
    ASSUME SameCalls,
           \A q \in Ranks : launch[q] > 0 => \A c \in Cells(M(q)) :
              tensor'[q][c] = IF c \in reduced'[q] THEN Sum(launch[q], c)
                              ELSE {Contribution(launch[q], q, c)}
    PROVE  Results'
  <1>1. \A q : M(q)' = M(q) /\ launch'[q] = launch[q]
    BY MailFixed
  <1>2. \A q : Cells(M(q))' = Cells(M(q))
    BY <1>1 DEF Cells, Tiles
  <1> QED
    BY <1>1, <1>2 DEF Results, Sum, Contribution

LEMMA MailReduce ==
    ASSUME PeersUniform, PayloadInv, NEW r \in Ranks, NEW p \in Programs, Reduce(r, p)
    PROVE  MailInv'
  <1> USE DEF PayloadInv
  <1> DEFINE cells == ItemCells(M(r), work[r][p])
  <1>1. /\ SameCalls /\ UNCHANGED <<stores, buffer>>
        /\ tensor' = [tensor EXCEPT ![r] = [c \in Cells(MaxTokens) |->
             IF c \in cells THEN UNION Slices(r, p, c) ELSE @[c]]]
    BY DEF Reduce, control, SameCalls
  <1>2. /\ reduced' = [reduced EXCEPT ![r] = @ \cup cells]
        /\ issued' = issued /\ summed' = summed /\ wiped' = wiped
    BY ReduceEffect
  <1>3. DOMAIN reduced = Ranks /\ DOMAIN tensor = Ranks /\ MoreSent
    BY <1>2 DEF reduced, MoreSent, MailInv, MemoryTypes
  <1>4. \A c \in cells : /\ KernelOf(r) # "twoshot" /\ c \in Cells(MaxTokens)
                         /\ \A q \in Ranks : buffer[r][At(launch[r], PushOf(q, c))] # Empty
                         /\ UNION Slices(r, p, c) = Sum(launch[r], c)
    BY ReducerFinds
  <1> HIDE DEF cells
  <1>5. Landed'
    <2> SUFFICES ASSUME NEW q \in Ranks, launch[q] > 0, NEW x \in Expected(launch[q], q),
                        Used(q, x)', ~Used(q, x)
                 PROVE  buffer[q][At(launch[q], x)] # Empty
      BY <1>1, LandedStays
    <2>1. q = r /\ x.cell \in cells
      BY <1>1, <1>2, <1>3, MailFixed DEF Used
    <2>2. x \in Mail(M(r)) /\ Addressed(M(r), x, r) /\ KernelOf(r) # "twoshot"
      BY <1>4, <2>1 DEF Expected, M
    <2>3. x = PushOf(x.from, x.cell) /\ x.from \in Ranks
      BY <2>1, <2>2 DEF Mail, PushOf, Addressed, KernelOf
    <2>4. buffer[r][At(launch[r], PushOf(x.from, x.cell))] # Empty
      BY <1>4, <2>1, <2>3
    <2> QED
      BY <2>1, <2>3, <2>4
  <1>6. Results'
    <2> SUFFICES ASSUME NEW q \in Ranks, launch[q] > 0, NEW c \in Cells(M(q))
                 PROVE  tensor'[q][c] = IF c \in reduced'[q] THEN Sum(launch[q], c)
                                        ELSE {Contribution(launch[q], q, c)}
      BY <1>1, ResultsFrom
    <2>1. tensor[q][c] = IF c \in reduced[q] THEN Sum(launch[q], c)
                         ELSE {Contribution(launch[q], q, c)}
      BY DEF MailInv, Results
    <2>2. CASE q # r
      BY <1>1, <1>2, <1>3, <2>1, <2>2
    <2>3. CASE q = r
      <3>1. c \in Cells(MaxTokens)
        <4>1. M(q) \in 1 .. MaxTokens
          BY CurrentCall DEF GenerationInv
        <4> QED
          BY <4>1, CellOffsets
      <3>2. tensor'[r][c] = IF c \in cells THEN UNION Slices(r, p, c) ELSE tensor[r][c]
        BY <1>1, <1>3, <3>1
      <3>3. c \in reduced'[r] <=> c \in reduced[r] \/ c \in cells
        BY <1>2, <1>3
      <3> QED
        BY <1>4, <2>1, <2>3, <3>2, <3>3
    <2> QED
      BY <2>2, <2>3
  <1>7. MemoryTypes'
    BY <1>1, <1>3, MailFixed DEF MailInv, MemoryTypes
  <1> QED
    BY <1>1, <1>2, <1>3, <1>5, <1>6, <1>7, BehindStays, HoldsStays, InFlightStill
       DEF MailInv

LEMMA MailConsume ==
    ASSUME PeersUniform, PayloadInv, NEW r \in Ranks, NEW p \in Programs, Consume(r, p)
    PROVE  MailInv'
  <1> USE DEF PayloadInv
  <1> DEFINE cells == {work[r][p]} \X Tiles
             Sums(c) == buffer[r][BroadcastCell(snap[r][p].slot, c)]
  <1>1. /\ SameCalls /\ UNCHANGED <<stores, buffer>>
        /\ \A c \in cells : Sums(c) # Empty
        /\ tensor' = [tensor EXCEPT ![r] = [c \in Cells(MaxTokens) |->
             IF c \in cells THEN Sums(c) ELSE @[c]]]
        /\ pc[r][p] = "consume" /\ work[r][p] < M(r)
    BY DEF Consume, control, SameCalls, Iterate
  <1>2. /\ reduced' = [reduced EXCEPT ![r] = @ \cup cells] /\ KernelOf(r) = "twoshot"
        /\ issued' = issued /\ summed' = summed /\ wiped' = wiped
    BY ConsumeEffect
  <1>3. DOMAIN reduced = Ranks /\ DOMAIN tensor = Ranks /\ MoreSent
    BY <1>2 DEF reduced, MoreSent, MailInv, MemoryTypes
  <1>4. launch[r] > 0 /\ M(r) \in 1 .. MaxTokens /\ M(r) \in Nat /\ work[r][p] \in Nat
    BY <1>1, AtWork, LayoutAssumption
  <1>5. IsCall(launch[r]) /\ M(r) = calls[launch[r]]
    BY <1>4, InACall
  <1>6. ASSUME NEW c \in cells
        PROVE  /\ c \in Cells(M(r)) /\ buffer[r][At(launch[r], SumOf(c))] # Empty
               /\ Sums(c) = Sum(launch[r], c)
    <2>1. c \in Cells(M(r))
      BY <1>1, <1>4 DEF Cells
    <2>2. BroadcastCell(snap[r][p].slot, c) = At(launch[r], SumOf(c))
      BY <1>1, <1>2, <2>1, Addresses
    <2>3. buffer[r][At(launch[r], SumOf(c))] # Empty
      BY <1>1, <2>2
    <2>4. SumOf(c) \in Expected(launch[r], r)
      BY <1>2, <1>5, <2>1, MailAbout DEF KernelOf
    <2>5. buffer[r][At(launch[r], SumOf(c))] = Content(launch[r], SumOf(c))
      BY <1>4, <2>3, <2>4, WhatIsFound
    <2>6. Content(launch[r], SumOf(c)) = Sum(launch[r], c)
      BY DEF Content, SumOf
    <2> QED
      BY <2>1, <2>2, <2>3, <2>5, <2>6
  <1> HIDE DEF cells, Sums
  <1>7. Landed'
    <2> SUFFICES ASSUME NEW q \in Ranks, launch[q] > 0, NEW x \in Expected(launch[q], q),
                        Used(q, x)', ~Used(q, x)
                 PROVE  buffer[q][At(launch[q], x)] # Empty
      BY <1>1, LandedStays
    <2>1. q = r /\ x.cell \in cells /\ x.kind = "sum"
      BY <1>1, <1>2, <1>3, MailFixed DEF Used
    <2>2. x \in Mail(M(r)) /\ Addressed(M(r), x, r)
      BY <2>1 DEF Expected, M
    <2>3. x = SumOf(x.cell)
      BY <1>2, <2>1, <2>2 DEF Mail, SumOf, Addressed, KernelOf
    <2>4. buffer[r][At(launch[r], SumOf(x.cell))] # Empty
      BY <1>6, <2>1
    <2> QED
      BY <2>1, <2>3, <2>4
  <1>8. Results'
    <2> SUFFICES ASSUME NEW q \in Ranks, launch[q] > 0, NEW c \in Cells(M(q))
                 PROVE  tensor'[q][c] = IF c \in reduced'[q] THEN Sum(launch[q], c)
                                        ELSE {Contribution(launch[q], q, c)}
      BY <1>1, ResultsFrom
    <2>1. tensor[q][c] = IF c \in reduced[q] THEN Sum(launch[q], c)
                         ELSE {Contribution(launch[q], q, c)}
      BY DEF MailInv, Results
    <2>2. CASE q # r
      BY <1>1, <1>2, <1>3, <2>1, <2>2
    <2>3. CASE q = r
      <3>1. c \in Cells(MaxTokens)
        <4>1. M(q) \in 1 .. MaxTokens
          BY CurrentCall DEF GenerationInv
        <4> QED
          BY <4>1, CellOffsets
      <3>2. tensor'[r][c] = IF c \in cells THEN Sums(c) ELSE tensor[r][c]
        BY <1>1, <1>3, <3>1
      <3>3. c \in reduced'[r] <=> c \in reduced[r] \/ c \in cells
        BY <1>2, <1>3
      <3> QED
        BY <1>6, <2>1, <2>3, <3>2, <3>3
    <2> QED
      BY <2>2, <2>3
  <1>9. MemoryTypes'
    BY <1>1, <1>3, MailFixed DEF MailInv, MemoryTypes
  <1> QED
    BY <1>1, <1>2, <1>3, <1>7, <1>8, <1>9, BehindStays, HoldsStays, InFlightStill
       DEF MailInv

-----------------------------------------------------------------------------
(* The memory at work: stores land and cells are cleared. *)

\* Where a store goes.
LEMMA StoreGoes ==
    ASSUME PeersUniform, PayloadInv, NEW q \in Ranks, NEW p \in Programs, NEW st \in stores[q][p]
    PROVE  st.to \in Ranks /\ st.at \in BufferCells /\ buffer[st.to][st.at] = Empty
  <1> USE DEF PayloadInv, MailInv
  <1>1. PICK t \in Ranks : launch[q] > 0 /\ \E x \in Expected(launch[q], t) : Posted(q, p, st, t, x)
    BY DEF InFlight
  <1>2. PICK x \in Expected(launch[q], t) : Posted(q, p, st, t, x)
    BY <1>1
  <1>3. At(launch[q], x) \in BufferCells
    BY <1>1, InACall, ExpectedMail
  <1> QED
    BY <1>2, <1>3 DEF Posted

LEMMA ContentIsSomething ==
    ASSUME NEW n, NEW x
    PROVE  Content(n, x) # Empty
  <1>1. 0 \in Ranks
    BY LayoutAssumption DEF Ranks
  <1>2. Contribution(n, 0, x.cell) \in Sum(n, x.cell)
    BY <1>1 DEF Sum
  <1>3. Contribution(n, x.from, x.cell) \in {Contribution(n, x.from, x.cell)}
    OBVIOUS
  <1> QED
    BY <1>2, <1>3 DEF Content, Empty

LEMMA MailLand ==
    ASSUME PeersUniform, PayloadInv, NEW r \in Ranks, NEW p \in Programs, Land(r, p)
    PROVE  MailInv'
  <1> USE DEF PayloadInv, MailInv
  <1>17. PICK n : n = launch[r]
    OBVIOUS
  <1>1. PICK st \in stores[r][p] :
           /\ stores' = [stores EXCEPT ![r][p] = @ \ {st}]
           /\ buffer' = [buffer EXCEPT ![st.to][st.at] = st.value]
    BY DEF Land
  <1>2. SameCalls /\ tensor' = tensor
    BY DEF Land, control, SameCalls
  <1>3. Quiet /\ MoreSent
    BY LandEffect DEF Quiet, MoreSent
  <1>4. PICK t \in Ranks : launch[r] > 0 /\ \E x \in Expected(n, t) : Posted(r, p, st, t, x)
    BY <1>17 DEF InFlight
  <1>5. PICK x \in Expected(n, t) : Posted(r, p, st, t, x)
    BY <1>4
  <1>18. PICK a0 : a0 = At(n, x)
    OBVIOUS
  <1>6. /\ st.to = t /\ st.at = a0 /\ st.value = Content(n, x) /\ x.from = r /\ SentNow(x)
        /\ launch[t] <= n
    BY <1>5, <1>17, <1>18 DEF Posted
  <1>7. IsCall(n) /\ n \in Nat \ {0}
    BY <1>4, <1>17, InACall
  <1>8. a0 \in BufferCells /\ x.from \in Ranks
    BY <1>7, <1>18, ExpectedMail
  <1>9. n \in Near(t) /\ n # launch[t] - 1
    <2>1. n \in Near(t) /\ launch[t] \in Nat
      BY <1>17, RanksAreNear
    <2> QED
      BY <1>6, <1>17, <2>1
  <1>10. Sent(n, x)'
    <2>1. Sent(n, x)
      BY <1>6, <1>17 DEF Sent
    <2> QED
      BY <1>2, <1>3, <1>8, <2>1, SentStays
  <1>11. /\ buffer'[t][a0] = Content(n, x) /\ Content(n, x) # Empty
         /\ \A q \in Ranks, a \in BufferCells : ~(q = t /\ a = a0) => buffer'[q][a] = buffer[q][a]
    BY <1>1, <1>6, <1>8, ContentIsSomething DEF MemoryTypes
  <1>12. Holds'
    <2> SUFFICES ASSUME NEW q \in Ranks, NEW a \in BufferCells, buffer'[q][a] # Empty
                 PROVE  \E k \in Near(q) :
                          IsCall(k) /\ \E y \in Expected(k, q) : Delivered(q, a, k, y)'
      BY <1>2, MailFixed DEF Holds
    <2>1. CASE q = t /\ a = a0
      <3>1. wiped' = wiped /\ launch' = launch
        BY <1>2, <1>3 DEF Quiet, SameCalls
      <3>2. Delivered(t, a0, n, x)'
        BY <1>2, <1>9, <1>10, <1>11, <1>18, <3>1, MailFixed DEF Delivered
      <3> QED
        BY <1>5, <1>7, <1>9, <2>1, <3>2
    <2>2. CASE ~(q = t /\ a = a0)
      <3>1. buffer'[q][a] = buffer[q][a]
        BY <1>11, <2>2
      <3>2. PICK k \in Near(q) : IsCall(k) /\ \E y \in Expected(k, q) : Delivered(q, a, k, y)
        BY <3>1 DEF Holds
      <3>3. PICK y \in Expected(k, q) : Delivered(q, a, k, y)
        BY <3>2
      <3>4. y.from \in Ranks
        BY <3>2, ExpectedMail
      <3>5. Sent(k, y)'
        BY <1>2, <1>3, <3>3, <3>4, SentStays DEF Delivered
      <3>6. wiped' = wiped
        BY <1>3 DEF Quiet
      <3>7. Delivered(q, a, k, y)'
        BY <1>2, <3>1, <3>3, <3>5, <3>6, MailFixed DEF Delivered
      <3> QED
        BY <3>2, <3>7
    <2> QED
      BY <2>1, <2>2
  <1>13. InFlight'
    <2> SUFFICES ASSUME NEW q \in Ranks, NEW o \in Programs, NEW s2 \in stores'[q][o]
                 PROVE  launch[q] > 0 /\ \E k \in Ranks : \E y \in Expected(launch[q], k) :
                                             Posted(q, o, s2, k, y)'
      BY <1>2, MailFixed DEF InFlight
    <2>1. s2 \in stores[q][o] /\ ~(q = r /\ o = p /\ s2 = st)
      BY <1>1 DEF LoopInv, LoopTypes
    <2>2. s2.to \in Ranks /\ s2.at \in BufferCells
      BY <2>1, StoreGoes
    <2>3. ~(s2.to = t /\ s2.at = a0)
      <3>1. ~(st.to = s2.to /\ st.at = s2.at)
        BY <2>1, OneStorePerCell
      <3> QED
        BY <1>6, <3>1
    <2>4. buffer'[s2.to][s2.at] = buffer[s2.to][s2.at]
      BY <1>11, <2>2, <2>3
    <2> QED
      BY <1>2, <1>3, <2>1, <2>4, PostedStays
  <1>14. Landed'
    <2>1. \A q \in Ranks : \A y : Used(q, y)' = Used(q, y)
      BY <1>2, <1>3, MailFixed DEF Used, Quiet
    <2> SUFFICES ASSUME NEW q \in Ranks, launch[q] > 0, NEW y \in Expected(launch[q], q),
                        buffer[q][At(launch[q], y)] # Empty
                 PROVE  buffer'[q][At(launch[q], y)] # Empty
      BY <1>2, <2>1, LandedStays
    <2>2. At(launch[q], y) \in BufferCells
      BY InACall, ExpectedMail
    <2> QED
      BY <1>11, <2>2
  <1>15. MemoryTypes'
    BY <1>1, <1>2, MailFixed DEF MemoryTypes
  <1>16. Results' /\ Behind'
    BY <1>2, <1>3, ResultsStay, BehindStays DEF Quiet
  <1> QED
    BY <1>12, <1>13, <1>14, <1>15, <1>16

\* The clear pass erases cells of the slot before only.
LEMMA ErasedIsPast ==
    ASSUME PeersUniform, PayloadInv, NEW r \in Ranks, NEW p \in Programs,
           pc[r][p] \notin {"done", "load"}
    PROVE  /\ launch[r] > 0
           /\ ClearCells(M(r), p, snap[r][p]) \subseteq SlotCells((SlotOf(launch[r]) + 2) % 3)
  <1> USE DEF PayloadInv
  <1> DEFINE n == launch[r]
             k == IF n = 1 THEN 0 ELSE calls[n - 1]
  <1>1. n > 0 /\ p < GridOf(r) /\ M(r) \in 1 .. MaxTokens
    BY AtWork
  <1>2. IsCall(n) /\ n \in Nat \ {0} /\ M(r) = calls[n]
    BY <1>1, InACall
  <1>3. /\ snap[r][p].slot = SlotOf(n) /\ SlotOf(n) \in Slots /\ Remembers(snap[r][p], k)
    <2>1. n = 1 \/ n > 1
      BY <1>2
    <2> QED
      BY <1>1, <2>1, SnapshotIs
  <1>4. k \in 0 .. MaxTokens /\ (k > 0 => Compatible(M(r), k) /\ Fits(k))
    <2>1. CASE n = 1
      BY <2>1, LayoutAssumption
    <2>2. CASE n # 1
      <3>1. n - 1 \in 1 .. Len(calls) /\ n \in 1 .. Len(calls)
        BY <1>2, <2>2 DEF IsCall, GenerationInv, ControlTypes
      <3>2. calls[n - 1] \in 1 .. MaxTokens /\ Fits(calls[n - 1])
            /\ Compatible(calls[n], calls[n - 1])
        BY <3>1, CallsOf
      <3> QED
        BY <1>2, <2>2, <3>2
    <2> QED
      BY <2>1, <2>2
  <1> HIDE DEF k
  <1>5. ClearCells(M(r), p, snap[r][p]) \subseteq SlotCells((snap[r][p].slot + 2) % 3)
    BY <1>1, <1>3, <1>4, ClearInSlot
  <1> QED
    BY <1>1, <1>3, <1>5

LEMMA MailClear ==
    ASSUME PeersUniform, PayloadInv, NEW r \in Ranks, NEW p \in Programs, Clear(r, p)
    PROVE  MailInv'
  <1> USE DEF PayloadInv, MailInv
  <1> DEFINE erased == ClearCells(M(r), p, snap[r][p])
  <1>1. /\ SameCalls /\ UNCHANGED <<stores, tensor>>
        /\ buffer' = [buffer EXCEPT ![r] = [a \in BufferCells |->
                        IF a \in erased THEN Empty ELSE @[a]]]
        /\ pc[r][p] # "load" /\ ~cleared[r][p]
    BY DEF Clear, control, SameCalls
  <1>2. pc[r][p] # "done"
    BY <1>1 DEF LoopInv, Walk
  <1>3. launch[r] > 0 /\ erased \subseteq SlotCells((SlotOf(launch[r]) + 2) % 3)
    BY <1>1, <1>2, ErasedIsPast
  <1>4. /\ issued' = issued /\ summed' = summed /\ reduced' = reduced
        /\ wiped' = [wiped EXCEPT ![r] = @ \cup erased]
    BY ClearEffect
  <1> HIDE DEF erased
  <1>5. MoreSent
    BY <1>4 DEF MoreSent
  <1>6. DOMAIN wiped = Ranks
    BY DEF wiped
  <1>7. \A q \in Ranks, a \in BufferCells :
           /\ buffer'[q][a] = buffer[q][a] \/ buffer'[q][a] = Empty
           /\ ~(q = r /\ a \in erased) => buffer'[q][a] = buffer[q][a]
           /\ q = r /\ a \in erased => buffer'[q][a] = Empty
    BY <1>1 DEF MemoryTypes
  <1>8. Holds'
    <2> SUFFICES ASSUME NEW q \in Ranks, NEW a \in BufferCells, buffer'[q][a] # Empty
                 PROVE  \E k \in Near(q) :
                          IsCall(k) /\ \E y \in Expected(k, q) : Delivered(q, a, k, y)'
      BY <1>1, MailFixed DEF Holds
    <2>1. buffer'[q][a] = buffer[q][a] /\ ~(q = r /\ a \in erased)
      BY <1>7
    <2>2. PICK k \in Near(q) : IsCall(k) /\ \E y \in Expected(k, q) : Delivered(q, a, k, y)
      BY <2>1 DEF Holds
    <2>3. PICK y \in Expected(k, q) : Delivered(q, a, k, y)
      BY <2>2
    <2>4. y.from \in Ranks
      BY <2>2, ExpectedMail
    <2>5. Sent(k, y)'
      BY <1>1, <1>5, <2>3, <2>4, SentStays DEF Delivered
    <2>6. a \in wiped'[q] => a \in wiped[q]
      BY <1>4, <1>6, <2>1
    <2>7. Delivered(q, a, k, y)'
      BY <1>1, <2>1, <2>3, <2>5, <2>6, MailFixed DEF Delivered
    <2> QED
      BY <2>2, <2>7
  <1>9. InFlight'
    <2> SUFFICES ASSUME NEW q \in Ranks, NEW o \in Programs, NEW st \in stores[q][o]
                 PROVE  launch[q] > 0 /\ \E k \in Ranks : \E y \in Expected(launch[q], k) :
                                             Posted(q, o, st, k, y)'
      BY <1>1, MailFixed DEF InFlight
    <2>1. st.to \in Ranks /\ st.at \in BufferCells
      BY StoreGoes
    <2>2. buffer'[st.to][st.at] = buffer[st.to][st.at] \/ buffer'[st.to][st.at] = Empty
      BY <1>7, <2>1
    <2> QED
      BY <1>1, <1>5, <2>2, PostedStays
  <1>10. Landed'
    <2>1. \A q \in Ranks : \A y : Used(q, y)' = Used(q, y)
      BY <1>1, <1>4, MailFixed DEF Used
    <2> SUFFICES ASSUME NEW q \in Ranks, launch[q] > 0, NEW y \in Expected(launch[q], q),
                        buffer[q][At(launch[q], y)] # Empty
                 PROVE  buffer'[q][At(launch[q], y)] # Empty
      BY <1>1, <2>1, LandedStays
    <2>2. At(launch[q], y) \in BufferCells /\ At(launch[q], y) \in SlotCells(SlotOf(launch[q]))
      BY InACall, ExpectedMail
    <2>3. ~(q = r /\ At(launch[q], y) \in erased)
      <3> SUFFICES ASSUME q = r, At(launch[q], y) \in erased PROVE FALSE
        OBVIOUS
      <3>1. launch[r] \in Nat \ {0}
        BY <1>3, InACall
      <3>2. /\ SlotOf(launch[r]) \in Slots /\ (SlotOf(launch[r]) + 2) % 3 \in Slots
            /\ (SlotOf(launch[r]) + 2) % 3 # SlotOf(launch[r])
        BY <3>1, SlotNumbers
      <3>3. At(launch[q], y) \in SlotCells((SlotOf(launch[r]) + 2) % 3)
        BY <1>3
      <3> QED
        BY <2>2, <3>2, <3>3, SlotsDisjoint
    <2> QED
      BY <1>7, <2>2, <2>3
  <1>11. MemoryTypes'
    BY <1>1, MailFixed DEF MemoryTypes
  <1>12. Results' /\ Behind'
    BY <1>1, <1>4, <1>5, ResultsStay, BehindStays
  <1> QED
    BY <1>8, <1>9, <1>10, <1>11, <1>12

-----------------------------------------------------------------------------
(* A new call. *)

\* The calls that have been agreed stay what they are.
LEMMA CallsKept ==
    ASSUME GenerationInv, NEW r \in Ranks, Start(r)
    PROVE  /\ backend' = backend /\ BufferCells' = BufferCells
           /\ launch[r] \in Nat /\ launch'[r] = launch[r] + 1 /\ IsCall(launch[r])'
           /\ \A q \in Ranks : launch[q] \in Nat /\ (q # r => launch'[q] = launch[q])
           /\ \A k : IsCall(k) =>
                /\ k \in Nat \ {0} /\ IsCall(k)' /\ calls'[k] = calls[k]
                /\ \A q : Expected(k, q)' = Expected(k, q)
                /\ \A x : At(k, x)' = At(k, x)
           /\ \A m, x : Sender(m, x)' = Sender(m, x)
           /\ \A q \in Ranks : q # r /\ launch[q] > 0 =>
                M(q)' = M(q) /\ GridOf(q)' = GridOf(q) /\ KernelOf(q)' = KernelOf(q)
  <1>1. /\ Len(calls) \in Nat /\ Len(calls') \in Nat /\ Len(calls) <= Len(calls')
        /\ \A i \in 1 .. Len(calls) : i \in 1 .. Len(calls') /\ calls'[i] = calls[i]
        /\ launch[r] + 1 \in 1 .. Len(calls')
    BY CallsGrow
  <1>2. backend' = backend
    BY DEF Start
  <1>3. BufferCells' = BufferCells
    BY <1>2, LayoutFixed
  <1>4. /\ launch[r] \in Nat /\ launch'[r] = launch[r] + 1
        /\ \A q \in Ranks : launch[q] \in Nat /\ (q # r => launch'[q] = launch[q])
    BY DEF Start, GenerationInv, ControlTypes
  <1>5. \A m : Mail(m)' = Mail(m)
    BY DEF Mail
  <1>6. \A m, x, q : Addressed(m, x, q)' = Addressed(m, x, q)
    BY <1>2, LayoutFixed
  <1>7. ASSUME NEW k, IsCall(k)
        PROVE  /\ k \in Nat \ {0} /\ IsCall(k)' /\ calls'[k] = calls[k]
               /\ \A q : Expected(k, q)' = Expected(k, q)
               /\ \A x : At(k, x)' = At(k, x)
    <2>1. k \in 1 .. Len(calls) /\ k \in 1 .. Len(calls') /\ calls'[k] = calls[k]
      BY <1>1, <1>7 DEF IsCall
    <2>2. \A q : Expected(k, q)' = Expected(k, q)
      BY <1>5, <1>6, <2>1 DEF Expected
    <2>3. \A x : At(k, x)' = At(k, x)
      BY <1>2, <2>1, LayoutFixed DEF At, SlotOf
    <2> QED
      BY <2>1, <2>2, <2>3 DEF IsCall
  <1>8. \A m, x : Sender(m, x)' = Sender(m, x)
    BY <1>2, LayoutFixed DEF Sender, OwnedItem
  <1>9. \A q \in Ranks : q # r /\ launch[q] > 0 =>
                M(q)' = M(q) /\ GridOf(q)' = GridOf(q) /\ KernelOf(q)' = KernelOf(q)
    <2>1. \A q \in Ranks : launch[q] > 0 => IsCall(launch[q])
      BY InACall
    <2>2. \A q \in Ranks : q # r /\ launch[q] > 0 => M(q)' = M(q)
      BY <1>4, <1>7, <2>1 DEF M
    <2> QED
      BY <1>2, <2>2, LayoutFixed DEF GridOf, KernelOf
  <1>10. IsCall(launch[r])'
    BY <1>1, <1>4 DEF IsCall, Start
  <1> QED
    BY <1>2, <1>3, <1>4, <1>7, <1>8, <1>9, <1>10

\* The loops of the rank begin anew.
LEMMA StartEffect ==
    ASSUME GenerationInv, LoopInv, NEW r \in Ranks, Start(r)
    PROVE  /\ issued'[r] = {} /\ summed'[r] = {} /\ reduced'[r] = {} /\ wiped'[r] = {}
           /\ \A q \in Ranks : q # r =>
                /\ issued'[q] = issued[q] /\ summed'[q] = summed[q]
                /\ reduced'[q] = reduced[q] /\ wiped'[q] = wiped[q]
  <1>1. /\ backend' = backend /\ UNCHANGED <<snap, cleared>>
        /\ \A q \in Ranks : q # r => pc'[q] = pc[q] /\ work'[q] = work[q] /\ launch'[q] = launch[q]
    BY DEF Start, GenerationInv, ControlTypes, LoopInv, LoopTypes
  <1>2. /\ \A m, c : ItemOf(m, c)' = ItemOf(m, c)
        /\ \A m, p, sn : ClearCells(m, p, sn)' = ClearCells(m, p, sn)
    BY <1>1, LayoutFixed
  <1>3. ASSUME NEW q \in Ranks, q # r
        PROVE  /\ issued'[q] = issued[q] /\ summed'[q] = summed[q]
               /\ reduced'[q] = reduced[q] /\ wiped'[q] = wiped[q]
    <2>1. CASE launch[q] > 0
      <3>1. M(q)' = M(q) /\ GridOf(q)' = GridOf(q) /\ KernelOf(q)' = KernelOf(q)
        BY <1>3, <2>1, CallsKept
      <3>2. Wipers(q)' = Wipers(q)
        BY <1>1, <1>3, <3>1 DEF Wipers
      <3>3. wiped'[q] = wiped[q]
        BY <1>1, <1>2, <3>1, <3>2 DEF wiped
      <3>4. issued'[q] = issued[q]
        BY <1>1, <1>2, <1>3, <3>1 DEF issued
      <3>5. summed'[q] = summed[q]
        BY <1>1, <1>2, <1>3, <3>1 DEF summed
      <3>6. reduced'[q] = reduced[q]
        BY <1>1, <1>2, <1>3, <3>1 DEF reduced
      <3> QED
        BY <3>3, <3>4, <3>5, <3>6
    <2>2. CASE ~(launch[q] > 0)
      <3>1. ~(launch'[q] > 0)
        BY <1>1, <1>3, <2>2
      <3>2. Wipers(q)' = {} /\ Wipers(q) = {}
        BY <2>2, <3>1 DEF Wipers
      <3>3. wiped'[q] = {} /\ wiped[q] = {}
        BY <3>2 DEF wiped
      <3>4. /\ issued'[q] = {} /\ issued[q] = {} /\ summed'[q] = {} /\ summed[q] = {}
            /\ reduced'[q] = {} /\ reduced[q] = {}
        BY <2>2, <3>1 DEF issued, summed, reduced
      <3> QED
        BY <3>3, <3>4
    <2> QED
      BY <2>1, <2>2
  <1>4. GenerationInv' /\ launch'[r] > 0
    BY GenerationStart, CallsKept
  <1>5. M(r)' \in 1 .. MaxTokens /\ GridOf(r)' \in 1 .. ProgramLimit
    <2>1. calls' \in Seq(1 .. MaxTokens) /\ launch'[r] \in 1 .. Len(calls')
      BY <1>4, CallsKept DEF GenerationInv, ControlTypes, IsCall
    <2>2. calls'[launch'[r]] \in 1 .. MaxTokens
      BY <2>1, SequenceElement
    <2>3. Grid(calls'[launch'[r]]) \in 1 .. ProgramLimit
      BY <2>2, CallsArePositive, GridBounds
    <2>5. \A m : Grid(m)' = Grid(m)
      BY <1>1, GridFixed
    <2> QED
      BY <2>2, <2>3, <2>5 DEF GridOf, M
  <1>6. \A p \in Programs : p < GridOf(r)' => pc'[r][p] = "load"
    <2>1. \A m : Grid(m)' = Grid(m)
      BY <1>1, GridFixed
    <2>2. GridOf(r)' = Grid(calls'[launch'[r]])
      BY <2>1 DEF GridOf, M
    <2>3. pc' = [pc EXCEPT ![r] = [p \in Programs |->
                    IF p < Grid(calls'[launch'[r]]) THEN "load" ELSE "done"]]
      BY <2>1 DEF Start
    <2> QED
      BY <2>2, <2>3 DEF GenerationInv, ControlTypes
  <1>7. ASSUME NEW i \in Nat
        PROVE  /\ ~Finished(pc'[r], work'[r], GridOf(r)', i, "push", AfterPush)
               /\ ~Finished(pc'[r], work'[r], GridOf(r)', i, "reduce", AfterReduce)
               /\ ~Finished(pc'[r], work'[r], GridOf(r)', i, "consume", AfterConsume)
    <2>1. i % GridOf(r)' \in Programs /\ i % GridOf(r)' < GridOf(r)'
      BY <1>5, LayoutAssumption DEF Programs
    <2>2. pc'[r][i % GridOf(r)'] = "load"
      BY <1>6, <2>1
    <2> QED
      BY <2>2 DEF Finished, AfterPush, AfterReduce, AfterConsume
  <1>8. ASSUME NEW c \in Cells(M(r)')
        PROVE  ItemOf(M(r), c)' \in Nat /\ c[1] \in Nat /\ OwnedItem(c) \in Nat
    <2>1. PICK m \in 1 .. MaxTokens : m = M(r)'
      BY <1>5
    <2>2. c \in Cells(m)
      BY <1>8, <2>1
    <2>3. ItemOf(m, c) \in 0 .. ItemCount(m) - 1
      BY <2>2, Items
    <2>4. c[1] \in 0 .. m - 1 /\ OwnedItem(c) \in 0 .. CeilDiv(m, WorldSize) * TilesPerRow - 1
      BY <2>2, CellOffsets, OwnedItems
    <2> QED
      BY <1>2, <2>1, <2>3, <2>4
  <1>9. issued'[r] = {} /\ summed'[r] = {} /\ reduced'[r] = {}
    <2>1. ASSUME NEW c \in Cells(M(r)') PROVE c \notin issued'[r]
      BY <1>7, <1>8, <2>1 DEF issued
    <2>2. ASSUME NEW c \in Cells(M(r)') PROVE c \notin summed'[r]
      BY <1>7, <1>8, <2>2 DEF summed, OwnedItem
    <2>3. ASSUME NEW c \in Cells(M(r)') PROVE c \notin reduced'[r]
      BY <1>7, <1>8, <2>3 DEF reduced
    <2>4. /\ issued'[r] \subseteq Cells(M(r)') /\ summed'[r] \subseteq Cells(M(r)')
          /\ reduced'[r] \subseteq Cells(M(r)')
      BY DEF issued, summed, reduced, Cells, Tiles
    <2> QED
      BY <2>1, <2>2, <2>3, <2>4
  <1>10. wiped'[r] = {}
    <2>1. Wipers(r)' = {}
      BY <1>6 DEF Wipers
    <2> QED
      BY <2>1 DEF wiped
  <1> QED
    BY <1>3, <1>9, <1>10

\* What has been sent stays sent; a rank that makes a call has sent all of the last.
LEMMA SentAtStart ==
    ASSUME GenerationInv, LoopInv, PastInv, NEW r \in Ranks, Start(r),
           NEW k \in Nat, NEW x, x.from \in Ranks, Sent(k, x)
    PROVE  Sent(k, x)' /\ (x.from # r => SentNow(x)' = SentNow(x))
  <1>1. CASE x.from = r
    <2>1. launch[r] >= k /\ launch'[r] = launch[r] + 1 /\ launch[r] \in Nat
      BY <1>1, CallsKept DEF Sent
    <2> QED
      BY <1>1, <2>1 DEF Sent
  <1>2. CASE x.from # r
    <2>1. SentNow(x)' = SentNow(x)
      BY <1>2, StartEffect DEF SentNow
    <2>2. launch'[x.from] = launch[x.from]
      BY <1>2, CallsKept
    <2> QED
      BY <2>1, <2>2 DEF Sent
  <1> QED
    BY <1>1, <1>2

\* A rank that goes on leaves the others one call behind at most, and those have
\* sent everything.
LEMMA BehindAtStart ==
    ASSUME PeersUniform, PayloadInv, NEW r \in Ranks, Start(r)
    PROVE  Behind'
  <1> USE DEF PayloadInv, MailInv
  <1> SUFFICES ASSUME NEW q \in Ranks, NEW s \in Ranks, launch'[q] < launch'[s]
               PROVE  /\ launch'[s] = launch'[q] + 1
                      /\ launch'[q] > 0 => AllSent(q)'
    BY DEF Behind
  <1>1. /\ launch'[r] = launch[r] + 1 /\ launch[r] \in Nat
        /\ \A o \in Ranks : launch[o] \in Nat /\ (o # r => launch'[o] = launch[o])
        /\ \A k : IsCall(k) => k \in Nat \ {0} /\ \A o : Expected(k, o)' = Expected(k, o)
    BY CallsKept
  <1>2. Idle(r)
    BY DEF Start
  <1>3. CASE q = r
    BY <1>1, <1>3 DEF Behind
  <1>4. CASE q # r
    <2>1. launch'[s] = launch'[q] + 1
      <3>1. CASE s = r
        <4>1. launch[r] > 0 => launch[q] >= launch[r]
          BY <1>2, IdleIsNotAhead
        <4> QED
          BY <1>1, <1>4, <3>1, <4>1
      <3>2. CASE s # r
        BY <1>1, <1>4, <3>2 DEF Behind
      <3> QED
        BY <3>1, <3>2
    <2>2. ASSUME launch[q] > 0, NEW t \in Ranks, NEW x \in Expected(launch[q], t), x.from = q
          PROVE  SentNow(x)'
      <3>1. SentNow(x)
        <4>1. CASE s = r
          <5>1. launch[q] = launch[r]
            BY <1>1, <1>4, <2>1, <4>1
          <5>2. Sent(launch[r], x)
            BY <1>2, <2>2, <5>1, IdleKnowsSent
          <5> QED
            BY <1>1, <2>2, <5>1, <5>2 DEF Sent
        <4>2. CASE s # r
          BY <1>1, <1>4, <2>2, <4>2 DEF Behind, AllSent
        <4> QED
          BY <4>1, <4>2
      <3>2. Sent(launch[q], x)
        BY <2>2, <3>1 DEF Sent
      <3> QED
        BY <1>1, <1>4, <2>2, <3>1, <3>2, SentAtStart
    <2>3. launch'[q] = launch[q]
      BY <1>1, <1>4
    <2>4. launch[q] > 0 => \A t : Expected(launch[q], t)' = Expected(launch[q], t)
      BY <1>1, <2>3, InACall
    <2> QED
      BY <2>1, <2>2, <2>3, <2>4 DEF AllSent
  <1> QED
    BY <1>3, <1>4

\* Nothing is on its way to a rank that goes on.
LEMMA InFlightAtStart ==
    ASSUME PeersUniform, PayloadInv, NEW r \in Ranks, Start(r)
    PROVE  InFlight'
  <1> USE DEF PayloadInv, MailInv
  <1>1. /\ launch'[r] = launch[r] + 1 /\ launch[r] \in Nat
        /\ \A o \in Ranks : launch[o] \in Nat /\ (o # r => launch'[o] = launch[o])
        /\ \A k : IsCall(k) => /\ k \in Nat \ {0} /\ \A o : Expected(k, o)' = Expected(k, o)
                               /\ \A x : At(k, x)' = At(k, x)
        /\ \A m, x : Sender(m, x)' = Sender(m, x)
        /\ \A q \in Ranks : q # r /\ launch[q] > 0 => M(q)' = M(q)
    BY CallsKept
  <1>2. Idle(r) /\ stores' = stores /\ buffer' = buffer
    BY DEF Start
  <1> SUFFICES ASSUME NEW q \in Ranks, NEW p \in Programs, NEW st \in stores[q][p]
               PROVE  launch'[q] > 0 /\ \E t \in Ranks : \E x \in Expected(launch[q], t)' :
                                            Posted(q, p, st, t, x)'
    BY <1>2 DEF InFlight
  <1>3. q # r
    BY <1>2 DEF Idle, LoopInv, Walk
  <1>4. PICK t \in Ranks : launch[q] > 0 /\ \E x \in Expected(launch[q], t) : Posted(q, p, st, t, x)
    BY DEF InFlight
  <1>5. PICK x \in Expected(launch[q], t) : Posted(q, p, st, t, x)
    BY <1>4
  <1>6. /\ st = [to |-> t, at |-> At(launch[q], x), value |-> Content(launch[q], x)]
        /\ x.from = q /\ Sender(M(q), x) = p /\ SentNow(x)
        /\ launch[t] <= launch[q] /\ buffer[t][At(launch[q], x)] = Empty
    BY <1>5 DEF Posted
  <1>7. IsCall(launch[q]) /\ launch'[q] = launch[q] /\ M(q)' = M(q)
    BY <1>1, <1>3, <1>4, InACall
  <1>8. launch'[t] <= launch[q]
    <2>1. CASE t # r
      BY <1>1, <1>6, <2>1
    <2>2. CASE t = r
      <3>1. launch[r] # launch[q]
        <4> SUFFICES ASSUME launch[r] = launch[q] PROVE FALSE
          OBVIOUS
        <4>1. launch[r] > 0 /\ x \in Expected(launch[r], r)
          BY <1>4, <1>5, <2>2
        <4>2. buffer[r][At(launch[r], x)] # Empty
          BY <1>2, <4>1, IdleHasArrived
        <4> QED
          BY <1>6, <2>2, <4>2
      <3> QED
        BY <1>1, <1>6, <2>2, <3>1
    <2> QED
      BY <2>1, <2>2
  <1>9. SentNow(x)'
    <2>1. Sent(launch[q], x)
      BY <1>6 DEF Sent
    <2> QED
      BY <1>1, <1>3, <1>6, <2>1, SentAtStart
  <1>10. /\ At(launch[q], x)' = At(launch[q], x)
         /\ Expected(launch[q], t)' = Expected(launch[q], t)
    BY <1>1, <1>7
  <1>11. Sender(M(q), x)' = p
    BY <1>1, <1>6, <1>7
  <1>12. Content(launch[q], x)' = Content(launch[q], x)
    BY <1>7 DEF Content, Sum, Contribution
  <1>13. Posted(q, p, st, t, x)'
    BY <1>2, <1>6, <1>7, <1>8, <1>9, <1>10, <1>11, <1>12 DEF Posted
  <1> QED
    BY <1>4, <1>5, <1>7, <1>10, <1>13

\* When a rank goes on, the slot it leaves behind is full, and the next is empty
\* but for what faster ranks have sent.
LEMMA HoldsAtStart ==
    ASSUME PeersUniform, PayloadInv, NEW r \in Ranks, Start(r)
    PROVE  Holds'
  <1> USE DEF PayloadInv, MailInv
  <1>1. /\ launch'[r] = launch[r] + 1 /\ launch[r] \in Nat /\ BufferCells' = BufferCells
        /\ \A o \in Ranks : launch[o] \in Nat /\ (o # r => launch'[o] = launch[o])
        /\ \A k : IsCall(k) => /\ k \in Nat \ {0} /\ IsCall(k)'
                               /\ \A o : Expected(k, o)' = Expected(k, o)
                               /\ \A x : At(k, x)' = At(k, x)
    BY CallsKept
  <1>2. Idle(r) /\ buffer' = buffer
    BY DEF Start
  <1> SUFFICES ASSUME NEW q \in Ranks, NEW a \in BufferCells, buffer[q][a] # Empty
               PROVE  \E n \in Near(q)' : IsCall(n)' /\ \E x \in Expected(n, q)' :
                                              Delivered(q, a, n, x)'
    BY <1>1, <1>2 DEF Holds
  <1>3. PICK n \in Near(q) : IsCall(n) /\ \E x \in Expected(n, q) : Delivered(q, a, n, x)
    BY DEF Holds
  <1>4. PICK x \in Expected(n, q) : Delivered(q, a, n, x)
    BY <1>3
  <1>5. /\ a = At(n, x) /\ buffer[q][a] = Content(n, x) /\ Sent(n, x)
        /\ n = launch[q] - 1 => a \notin wiped[q]
    BY <1>4 DEF Delivered
  <1>6. x.from \in Ranks /\ n \in Nat \ {0}
    BY <1>3, ExpectedMail
  <1>7. Sent(n, x)'
    BY <1>5, <1>6, SentAtStart
  <1>8. n \in Near(q)' /\ (n = launch'[q] - 1 => a \notin wiped'[q])
    <2>1. CASE q # r
      <3>1. launch'[q] = launch[q] /\ wiped'[q] = wiped[q]
        BY <1>1, <2>1, StartEffect
      <3> QED
        BY <1>5, <3>1 DEF Near
    <2>2. CASE q = r
      <3>1. n # launch[r] - 1
        <4> SUFFICES ASSUME n = launch[r] - 1 PROVE FALSE
          OBVIOUS
        <4>1. launch[r] > 0 /\ IsCall(launch[r] - 1) /\ x \in Expected(launch[r] - 1, r)
          BY <1>1, <1>3, <1>6, <2>2
        <4>2. At(launch[r] - 1, x) \in wiped[r]
          BY <1>2, <4>1, IdleIsClean
        <4> QED
          BY <1>5, <2>2, <4>2
      <3>2. wiped'[r] = {}
        BY StartEffect
      <3> QED
        BY <1>1, <2>2, <3>1, <3>2 DEF Near
    <2> QED
      BY <2>1, <2>2
  <1>9. Delivered(q, a, n, x)'
    BY <1>1, <1>2, <1>3, <1>5, <1>7, <1>8 DEF Delivered, Content, Sum, Contribution
  <1> QED
    BY <1>1, <1>3, <1>4, <1>8, <1>9

LEMMA LandedAtStart ==
    ASSUME PeersUniform, PayloadInv, NEW r \in Ranks, Start(r)
    PROVE  Landed'
  <1> USE DEF PayloadInv, MailInv
  <1>1. /\ \A o \in Ranks : o # r => launch'[o] = launch[o]
        /\ \A k : IsCall(k) => /\ \A o : Expected(k, o)' = Expected(k, o)
                               /\ \A x : At(k, x)' = At(k, x)
        /\ \A q \in Ranks : q # r /\ launch[q] > 0 => KernelOf(q)' = KernelOf(q)
    BY CallsKept
  <1>2. buffer' = buffer
    BY DEF Start
  <1> SUFFICES ASSUME NEW q \in Ranks, launch'[q] > 0, NEW x \in Expected(launch[q], q)', Used(q, x)'
               PROVE  buffer'[q][At(launch[q], x)'] # Empty
    BY DEF Landed
  <1>3. q # r
    BY StartEffect DEF Used
  <1>4. launch'[q] = launch[q] /\ launch[q] > 0 /\ IsCall(launch[q])
    BY <1>1, <1>3, InACall
  <1>5. Used(q, x)
    BY <1>1, <1>3, <1>4, StartEffect DEF Used
  <1>6. x \in Expected(launch[q], q) /\ At(launch[q], x)' = At(launch[q], x)
    BY <1>1, <1>4
  <1> QED
    BY <1>2, <1>4, <1>5, <1>6 DEF Landed

LEMMA ResultsAtStart ==
    ASSUME PeersUniform, PayloadInv, NEW r \in Ranks, Start(r)
    PROVE  Results'
  <1> USE DEF PayloadInv, MailInv
  <1>1. /\ \A o \in Ranks : o # r => launch'[o] = launch[o]
        /\ \A q \in Ranks : q # r /\ launch[q] > 0 => M(q)' = M(q)
    BY CallsKept
  <1>2. tensor' = [tensor EXCEPT ![r] = [c \in Cells(MaxTokens) |->
                      IF c \in Cells(M(r)') THEN {Contribution(launch'[r], r, c)} ELSE Empty]]
    BY DEF Start, M
  <1> SUFFICES ASSUME NEW q \in Ranks, launch'[q] > 0, NEW c \in Cells(M(q)')
               PROVE  tensor'[q][c] = IF c \in reduced'[q] THEN Sum(launch'[q], c)
                                      ELSE {Contribution(launch'[q], q, c)}
    BY DEF Results, Sum, Contribution, Cells, Tiles
  <1>3. CASE q # r
    <2>1. launch'[q] = launch[q] /\ M(q)' = M(q) /\ tensor'[q] = tensor[q]
      BY <1>1, <1>2, <1>3 DEF MemoryTypes
    <2>2. reduced'[q] = reduced[q]
      BY <1>3, StartEffect
    <2> QED
      BY <2>1, <2>2 DEF Results
  <1>4. CASE q = r
    <2>1. reduced'[r] = {}
      BY StartEffect
    <2>2. M(r)' \in 1 .. MaxTokens
      <3>1. calls' \in Seq(1 .. MaxTokens) /\ launch'[r] \in 1 .. Len(calls')
        BY GenerationStart, CallsKept DEF ControlTypes, GenerationInv, IsCall
      <3> QED
        BY <3>1, SequenceElement DEF M
    <2>3. c \in Cells(MaxTokens)
      BY <1>4, <2>2, CellOffsets
    <2> QED
      BY <1>2, <1>4, <2>1, <2>3 DEF MemoryTypes
  <1> QED
    BY <1>3, <1>4

LEMMA MailStart ==
    ASSUME PeersUniform, PayloadInv, NEW r \in Ranks, Start(r)
    PROVE  MailInv'
  <1>1. MemoryTypes'
    <2>1. BufferCells' = BufferCells
      BY CallsKept DEF PayloadInv
    <2> QED
      BY <2>1 DEF Start, PayloadInv, MailInv, MemoryTypes
  <1> QED
    BY <1>1, BehindAtStart, InFlightAtStart, HoldsAtStart, LandedAtStart, ResultsAtStart DEF MailInv

-----------------------------------------------------------------------------
(* The invariant is inductive. *)

LEMMA MailInit == Init => MailInv
  <1> SUFFICES ASSUME Init PROVE MailInv
    OBVIOUS
  <1>1. \A r \in Ranks : launch[r] = 0 /\ \A p \in Programs : stores[r][p] = {}
    BY DEF Init
  <1>2. \A r \in Ranks, a \in BufferCells : buffer[r][a] = Empty
    BY DEF Init
  <1>3. MemoryTypes
    BY DEF Init, MemoryTypes
  <1>4. Behind /\ Landed /\ Results
    BY <1>1 DEF Behind, Landed, Results
  <1>5. InFlight /\ Holds
    BY <1>1, <1>2 DEF InFlight, Holds
  <1> QED
    BY <1>3, <1>4, <1>5 DEF MailInv

LEMMA PayloadInit == Init => PayloadInv
  BY GenerationInit, LoopInit, PastInit, MailInit DEF PayloadInv

\* The steps of a program in which no item of a loop is done.
NoItem(r, p) ==
    \/ Load(r, p) \/ Arrive(r, p) \/ EndPush(r, p)
    \/ EndReduce(r, p) \/ EndReduceOwned(r, p) \/ EndConsume(r, p)
    \/ PhaseArrive(r, p) \/ PhaseLeave(r, p)
    \/ Normalize(r, p) \/ EndNormalize(r, p)
    \/ (p = 0 /\ Advance(r)) \/ Exit(r, p)

LEMMA NoItemIsQuiet ==
    ASSUME GenerationInv, LoopInv, NEW r \in Ranks, NEW p \in Programs, NoItem(r, p)
    PROVE  LoopInv' /\ Quiet
  BY LoadQuiet, ArriveQuiet, EndPushQuiet, EndReduceQuiet, EndReduceOwnedQuiet,
     EndConsumeQuiet, PhaseArriveQuiet, PhaseLeaveQuiet, NormalizeQuiet, EndNormalizeQuiet,
     AdvanceQuiet, ExitQuiet DEF NoItem

LEMMA QuietStep ==
    ASSUME PeersUniform, PayloadInv, NEW r \in Ranks, NEW p \in Programs, NoItem(r, p)
    PROVE  LoopInv' /\ MailInv'
  <1>1. LoopInv' /\ Quiet
    BY NoItemIsQuiet DEF PayloadInv
  <1>2. UNCHANGED <<control, stores, buffer, tensor>>
    BY DEF NoItem, Load, Arrive, EndPush, EndReduce, EndReduceOwned, EndConsume, Leave, PhaseArrive,
           PhaseLeave, Normalize, EndNormalize, Advance, AdvanceBy, Exit, memory
  <1>3. SameCalls /\ UNCHANGED <<stores, buffer, tensor>>
    BY <1>2 DEF SameCalls, control
  <1> QED
    BY <1>1, <1>3, MailQuiet

LEMMA PayloadStep ==
    ASSUME PeersUniform, PayloadInv, NEW r \in Ranks, NEW p \in Programs, Step(r, p)
    PROVE  PayloadInv'
  <1>1. GenerationInv /\ LoopInv /\ PastInv
    BY DEF PayloadInv
  <1>2. GenerationInv'
    BY <1>1, GenerationStep
  <1>3. PastInv'
    BY <1>1, PastStep
  <1>4. CASE Push(r, p)
    BY <1>1, <1>2, <1>3, <1>4, PushEffect, MailPush DEF PayloadInv
  <1>5. CASE ReduceOwned(r, p)
    BY <1>1, <1>2, <1>3, <1>5, ReduceOwnedEffect, MailReduceOwned DEF PayloadInv
  <1>6. CASE Reduce(r, p)
    BY <1>1, <1>2, <1>3, <1>6, ReduceEffect, MailReduce DEF PayloadInv
  <1>7. CASE Consume(r, p)
    BY <1>1, <1>2, <1>3, <1>7, ConsumeEffect, MailConsume DEF PayloadInv
  <1>8. CASE NoItem(r, p)
    <2>1. LoopInv' /\ MailInv'
      BY <1>8, QuietStep
    <2> QED
      BY <1>2, <1>3, <2>1 DEF PayloadInv
  <1> QED
    BY <1>4, <1>5, <1>6, <1>7, <1>8 DEF Step, NoItem

LEMMA PayloadStutter ==
    ASSUME PeersUniform, PayloadInv, UNCHANGED vars
    PROVE  PayloadInv'
  <1>1. /\ UNCHANGED <<backend, calls, launch, strategy, snap, pc, work, cleared>>
        /\ UNCHANGED <<stores, buffer, tensor>>
    BY DEF vars
  <1>2. GenerationInv /\ LoopInv /\ PastInv
    BY DEF PayloadInv
  <1>3. GenerationInv'
    BY <1>2, GenerationNext
  <1>4. PastInv'
    BY <1>1, <1>2, PastStill
  <1>5. Quiet
    BY <1>1, <1>2, LoopsStill DEF Quiet
  <1>6. LoopInv'
    <2>1. LoopTypes'
      BY <1>1, <1>2 DEF LoopInv, LoopTypes
    <2> QED
      BY <1>1, <1>2, <2>1, LoopsStill
  <1>7. MailInv'
    BY <1>1, <1>5, MailQuiet DEF SameCalls
  <1> QED
    BY <1>3, <1>4, <1>6, <1>7 DEF PayloadInv

LEMMA PayloadNext ==
    ASSUME PeersUniform, PayloadInv, [Next]_vars
    PROVE  PayloadInv'
  <1>1. GenerationInv /\ LoopInv /\ PastInv
    BY DEF PayloadInv
  <1>2. GenerationInv'
    BY <1>1, GenerationNext
  <1>3. ASSUME NEW r \in Ranks, Start(r) PROVE PayloadInv'
    BY <1>1, <1>2, <1>3, LoopsStart, PastStart, MailStart DEF PayloadInv
  <1>4. ASSUME NEW r \in Ranks, NEW p \in Programs, Step(r, p) PROVE PayloadInv'
    BY <1>4, PayloadStep
  <1>5. ASSUME NEW r \in Ranks, NEW p \in Programs, Land(r, p) PROVE PayloadInv'
    <2>1. UNCHANGED <<backend, calls, launch, strategy, snap, pc>>
      BY <1>5 DEF Land, control, state
    <2> QED
      BY <1>1, <1>2, <1>5, <2>1, LandEffect, PastStill, MailLand DEF PayloadInv
  <1>6. ASSUME NEW r \in Ranks, NEW p \in Programs, Clear(r, p) PROVE PayloadInv'
    <2>1. UNCHANGED <<backend, calls, launch, strategy, snap, pc>>
      BY <1>6 DEF Clear, control, state
    <2> QED
      BY <1>1, <1>2, <1>6, <2>1, ClearEffect, PastStill, MailClear DEF PayloadInv
  <1>7. CASE UNCHANGED vars
    BY <1>7, PayloadStutter
  <1> QED
    BY <1>3, <1>4, <1>5, <1>6, <1>7 DEF Next, Terminated

\* With uniform peers the invariant holds throughout.
LEMMA PayloadAlways == PeersUniform /\ Spec => []PayloadInv
  <1>1. PeersUniform /\ Init => PayloadInv
    BY PayloadInit
  <1>2. PeersUniform /\ PayloadInv /\ [Next]_vars => PayloadInv'
    BY PayloadNext
  <1>3. SUFFICES ASSUME PeersUniform PROVE Spec => []PayloadInv
    OBVIOUS
  <1> QED
    BY <1>1, <1>2, <1>3, PTL DEF Spec

-----------------------------------------------------------------------------
(* What follows from it. *)

\* No rank is more than one call ahead of another: a rank cannot return from a
\* call before every rank has pushed its payload of that call.
THEOREM RanksStayTogether == PeersUniform /\ Spec => []SkewAtMostOne
  <1>1. PeersUniform /\ PayloadInv => SkewAtMostOne
    <2> SUFFICES ASSUME PayloadInv, NEW q \in Ranks, NEW r \in Ranks
                 PROVE  launch[q] <= launch[r] + 1
      BY DEF SkewAtMostOne
    <2> QED
      BY RanksAreNear DEF PayloadInv, MailInv
  <1>2. SUFFICES ASSUME PeersUniform PROVE Spec => []SkewAtMostOne
    OBVIOUS
  <1> QED
    BY <1>1, <1>2, PayloadAlways, PTL

\* A payload or a sum always lands on the sentinel: the three-slot rotation has
\* cleared the cell in time on every rank, though no rank tells another so.
THEOREM SlotsAreCleared == PeersUniform /\ Spec => []LandsOnSentinel
  <1>1. PeersUniform /\ PayloadInv => LandsOnSentinel
    BY StoreGoes DEF LandsOnSentinel
  <1>2. SUFFICES ASSUME PeersUniform PROVE Spec => []LandsOnSentinel
    OBVIOUS
  <1> QED
    BY <1>1, <1>2, PayloadAlways, PTL

\* The residual is, cell by cell, the rank's input or the sum of all inputs to
\* the same call: a payload of an earlier call is never taken for an arrival.
THEOREM SumsAreExact == PeersUniform /\ Spec => []ReductionExact
  <1>1. PeersUniform /\ PayloadInv => ReductionExact
    <2> SUFFICES ASSUME PayloadInv, NEW r \in Ranks, launch[r] > 0, NEW c \in Cells(M(r))
                 PROVE  tensor[r][c] \in {{Contribution(launch[r], r, c)}, Sum(launch[r], c)}
      BY DEF ReductionExact
    <2> QED
      BY DEF PayloadInv, MailInv, Results
  <1>2. SUFFICES ASSUME PeersUniform PROVE Spec => []ReductionExact
    OBVIOUS
  <1> QED
    BY <1>1, <1>2, PayloadAlways, PTL

-----------------------------------------------------------------------------

\* What a cell holds when the clear pass comes to it is of the launch before.
LEMMA ErasedMailIsOld ==
    ASSUME PeersUniform, PayloadInv, NEW r \in Ranks, NEW p \in Programs,
           pc[r][p] \notin {"done", "load"}, NEW a \in BufferCells, buffer[r][a] # Empty,
           a \in ClearCells(M(r), p, snap[r][p]), NEW v \in buffer[r][a]
    PROVE  v[1] < launch[r]
  <1> USE DEF PayloadInv, MailInv
  <1>1. launch[r] \in Nat \ {0} /\ IsCall(launch[r])
    BY ErasedIsPast, InACall
  <1>2. a \in SlotCells((SlotOf(launch[r]) + 2) % 3)
    BY ErasedIsPast
  <1>3. PICK n \in Near(r) : IsCall(n) /\ \E x \in Expected(n, r) : Delivered(r, a, n, x)
    BY DEF Holds
  <1>4. PICK x \in Expected(n, r) : Delivered(r, a, n, x)
    BY <1>3
  <1>5. n \in Nat \ {0} /\ At(n, x) \in SlotCells(SlotOf(n)) /\ a = At(n, x)
    BY <1>3, <1>4, ExpectedMail DEF Delivered
  <1>6. SlotOf(n) = (SlotOf(launch[r]) + 2) % 3
    <2>1. SlotOf(n) \in Slots /\ (SlotOf(launch[r]) + 2) % 3 \in Slots
      BY <1>1, <1>5, SlotNumbers
    <2> QED
      BY <1>2, <1>5, <2>1, SlotsDisjoint
  <1>7. n = launch[r] - 1
    <2>1. n \in {launch[r] - 1, launch[r], launch[r] + 1}
      BY <1>3 DEF Near
    <2>2. n % 3 = (launch[r] + 2) % 3
      BY <1>1, <1>5, <1>6, Z3 DEF SlotOf
    <2> QED
      BY <1>1, <1>5, <2>1, <2>2, Z3
  <1>8. v \in Content(n, x)
    BY <1>4 DEF Delivered
  <1>9. v[1] = n
    BY <1>8 DEF Content, Sum, Contribution
  <1> QED
    BY <1>1, <1>7, <1>9

LEMMA StepErasesThePast ==
    ASSUME PeersUniform, PayloadInv, [Next]_vars, NEW r \in Ranks, NEW a \in BufferCells,
           buffer[r][a] # Empty, buffer'[r][a] = Empty, NEW v \in buffer[r][a]
    PROVE  v[1] < launch[r]
  <1> USE DEF PayloadInv, MailInv
  <1>1. CASE UNCHANGED buffer
    BY <1>1
  <1>2. ASSUME NEW q \in Ranks, Start(q) PROVE UNCHANGED buffer
    BY <1>2 DEF Start
  <1>3. ASSUME NEW q \in Ranks, NEW p \in Programs, Step(q, p) PROVE UNCHANGED buffer
    BY <1>3 DEF Step, Load, Arrive, Push, EndPush, Reduce, EndReduce, ReduceOwned, EndReduceOwned,
       Consume, EndConsume, Leave, PhaseArrive, PhaseLeave, Normalize, EndNormalize, Advance,
       AdvanceBy, Exit, memory
  <1>4. ASSUME NEW q \in Ranks, NEW p \in Programs, Land(q, p) PROVE FALSE
    <2>1. PICK st \in stores[q][p] : buffer' = [buffer EXCEPT ![st.to][st.at] = st.value]
      BY <1>4 DEF Land
    <2>2. st.value # Empty
      BY ContentIsSomething DEF InFlight, Posted
    <2> QED
      BY <2>1, <2>2 DEF MemoryTypes
  <1>5. ASSUME NEW q \in Ranks, NEW p \in Programs, Clear(q, p) PROVE v[1] < launch[r]
    <2>1. PICK erased : erased = ClearCells(M(q), p, snap[q][p])
      OBVIOUS
    <2>2. /\ pc[q][p] \notin {"load", "arrive", "push"} /\ ~cleared[q][p]
          /\ buffer' = [buffer EXCEPT ![q] = [i \in BufferCells |->
                           IF i \in erased THEN Empty ELSE @[i]]]
      BY <1>5, <2>1 DEF Clear
    <2>3. q = r /\ a \in erased
      BY <2>2 DEF MemoryTypes
    <2>4. pc[q][p] # "done"
      BY <2>2 DEF LoopInv, Walk
    <2> QED
      BY <2>1, <2>2, <2>3, <2>4, ErasedMailIsOld
  <1>6. CASE UNCHANGED vars
    BY <1>1, <1>6 DEF vars
  <1> QED
    BY <1>1, <1>2, <1>3, <1>4, <1>5, <1>6 DEF Next, Terminated

\* While the peers' strategy is uniform the clear pass erases payloads of earlier
\* calls only, never one of the current call or of the next, which a faster rank
\* may have sent already.
THEOREM ClearPassIsSafe == PeersUniform /\ Spec => ClearsOnlyThePast
  <1>1. PeersUniform /\ PayloadInv /\ [Next]_vars =>
           [\A r \in Ranks, a \in BufferCells :
              (buffer[r][a] # Empty /\ buffer'[r][a] = Empty) =>
                  \A v \in buffer[r][a] : v[1] < launch[r]]_vars
    BY StepErasesThePast
  <1>2. SUFFICES ASSUME PeersUniform PROVE Spec => ClearsOnlyThePast
    OBVIOUS
  <1> QED
    BY <1>1, <1>2, PayloadAlways, PTL DEF Spec, ClearsOnlyThePast

-----------------------------------------------------------------------------
(* The protocol implements the service.                                    *)

\* When the programs of a rank are done every rank has made the same call, and
\* the tensor holds the sums.
Answered ==
    \A r \in Ranks : launch[r] > 0 /\ Idle(r) =>
        /\ \A q \in Ranks : launch[q] >= launch[r]
        /\ \A c \in Cells(M(r)) : tensor[r][c] = Sum(launch[r], c)

LEMMA DoneIsAnswered == ASSUME PeersUniform, PayloadInv PROVE Answered
  <1> SUFFICES ASSUME NEW r \in Ranks, launch[r] > 0, Idle(r)
               PROVE  /\ \A q \in Ranks : launch[q] >= launch[r]
                      /\ \A c \in Cells(M(r)) : tensor[r][c] = Sum(launch[r], c)
    BY DEF Answered
  <1>1. \A q \in Ranks : launch[q] >= launch[r]
    BY IdleIsNotAhead
  <1>2. \A c \in Cells(M(r)) : c \in reduced[r]
    BY IdleHasFinished DEF PayloadInv
  <1> QED
    BY <1>1, <1>2 DEF PayloadInv, MailInv, Results

\* What the service sees of the protocol.
returnedOf == [r \in Ranks |-> IF Idle(r) THEN launch[r] ELSE launch[r] - 1]
resultOf == [r \in Ranks |-> IF Idle(r) /\ launch[r] > 0
                             THEN [c \in Cells(M(r)) |-> tensor[r][c]] ELSE <<>>]

LEMMA ServiceInit == Init => Service!Init
  <1> SUFFICES ASSUME Init PROVE Service!Init
    OBVIOUS
  <1>1. \A r \in Ranks : Idle(r) /\ launch[r] = 0
    BY DEF Init, Idle
  <1> QED
    BY <1>1 DEF Init, Service!Init, Service!Pending

\* A rank that stays idle or stays at work shows the service nothing.
LEMMA ServiceUnmoved ==
    ASSUME NEW q, launch'[q] = launch[q], launch[q] > 0 => M(q)' = M(q),
           Idle(q)' <=> Idle(q), Idle(q) => tensor'[q] = tensor[q]
    PROVE  /\ (IF Idle(q) THEN launch[q] ELSE launch[q] - 1)'
                 = IF Idle(q) THEN launch[q] ELSE launch[q] - 1
           /\ (IF Idle(q) /\ launch[q] > 0 THEN [c \in Cells(M(q)) |-> tensor[q][c]] ELSE <<>>)'
                 = IF Idle(q) /\ launch[q] > 0 THEN [c \in Cells(M(q)) |-> tensor[q][c]] ELSE <<>>
  <1>1. CASE Idle(q) /\ launch[q] > 0
    <2>1. Cells(M(q))' = Cells(M(q))
      BY <1>1 DEF Cells, Tiles
    <2> QED
      BY <1>1, <2>1
  <1>2. CASE ~(Idle(q) /\ launch[q] > 0)
    BY <1>2
  <1> QED
    BY <1>1, <1>2

LEMMA ServiceStutters ==
    ASSUME UNCHANGED <<calls, launch>>, \A q \in Ranks : Idle(q)' <=> Idle(q),
           \A q \in Ranks : Idle(q) => tensor'[q] = tensor[q]
    PROVE  UNCHANGED Service!vars
  <1>1. \A q : M(q)' = M(q)
    BY DEF M
  <1>2. returnedOf' = returnedOf
    BY <1>1, ServiceUnmoved DEF returnedOf
  <1>3. resultOf' = resultOf
    BY <1>1, ServiceUnmoved DEF resultOf
  <1> QED
    BY <1>2, <1>3 DEF Service!vars, returnedOf, resultOf

LEMMA StartIsCall ==
    ASSUME PeersUniform, PayloadInv, NEW r \in Ranks, Start(r)
    PROVE  Service!Call(r)
  <1>1. GenerationInv /\ PastInv
    BY DEF PayloadInv
  <1>2. /\ Idle(r) /\ launch[r] < MaxCalls /\ launch' = [launch EXCEPT ![r] = @ + 1]
        /\ launch \in [Ranks -> Nat]
    BY <1>1 DEF Start, GenerationInv, ControlTypes
  <1>3. IF launch[r] < Len(calls)
        THEN UNCHANGED calls ELSE \E m \in 1 .. MaxTokens : calls' = Append(calls, m)
    <2>1. backend \in Backends
      BY <1>1 DEF GenerationInv, ControlTypes
    <2> QED
      BY <2>1, CallAssumption DEF Start
  <1>4. ~Idle(r)'
    <2>1. \A m : Grid(m)' = Grid(m)
      BY GridFixed DEF Start
    <2>2. calls'[launch'[r]] \in 1 .. MaxTokens
      <3>1. /\ calls' \in Seq(TokenCounts[backend]) /\ launch[r] + 1 \in 1 .. Len(calls')
            /\ Len(calls') \in Nat
        BY <1>1, CallsGrow DEF PastInv
      <3>2. calls'[launch[r] + 1] \in TokenCounts[backend]
        BY <3>1, SequenceElement
      <3> QED
        BY <1>1, <1>2, <3>2, CallAssumption DEF GenerationInv, ControlTypes
    <2>3. Grid(calls'[launch'[r]]) > 0
      BY <2>2, GridBounds, <1>1 DEF GenerationInv, ControlTypes
    <2>4. pc'[r] = [p \in Programs |-> IF p < Grid(calls'[launch'[r]]) THEN "load" ELSE "done"]
      BY <1>1, <2>1 DEF Start, GenerationInv, ControlTypes
    <2> QED
      BY <2>3, <2>4, ProgramZero DEF Idle
  <1>5. ASSUME NEW q \in Ranks, q # r
        PROVE  /\ launch'[q] = launch[q] /\ (launch[q] > 0 => M(q)' = M(q))
               /\ (Idle(q)' <=> Idle(q)) /\ tensor'[q] = tensor[q]
    <2>1. launch'[q] = launch[q] /\ (launch[q] > 0 => M(q)' = M(q))
      BY <1>1, <1>5, CallsKept
    <2>2. pc'[q] = pc[q] /\ tensor'[q] = tensor[q]
      BY <1>5 DEF Start
    <2> QED
      BY <2>1, <2>2 DEF Idle
  <1>6. returnedOf' = returnedOf
    <2>1. \A q \in Ranks : q # r =>
            (IF Idle(q) THEN launch[q] ELSE launch[q] - 1)'
              = IF Idle(q) THEN launch[q] ELSE launch[q] - 1
      BY <1>5, ServiceUnmoved
    <2>2. (IF Idle(r) THEN launch[r] ELSE launch[r] - 1)'
              = IF Idle(r) THEN launch[r] ELSE launch[r] - 1
      BY <1>2, <1>4
    <2> QED
      BY <2>1, <2>2 DEF returnedOf
  <1>7. resultOf' = [resultOf EXCEPT ![r] = <<>>]
    <2>1. \A q \in Ranks : q # r => resultOf'[q] = resultOf[q]
      BY <1>5, ServiceUnmoved DEF resultOf
    <2>2. resultOf'[r] = <<>>
      BY <1>4 DEF resultOf
    <2> QED
      BY <2>1, <2>2 DEF resultOf
  <1>8. returnedOf[r] = launch[r]
    BY <1>2 DEF returnedOf
  <1> QED
    BY <1>2, <1>3, <1>6, <1>7, <1>8 DEF Service!Call, Service!Pending, returnedOf, resultOf

\* The programs of a launch end one by one; with the last one the call returns.
LEMMA ExitIsReturn ==
    ASSUME GenerationInv, LoopInv, Answered', NEW r \in Ranks, NEW p \in Programs, Exit(r, p)
    PROVE  Service!Return(r) \/ UNCHANGED Service!vars
  <1>1. /\ UNCHANGED <<calls, launch, tensor>> /\ launch \in [Ranks -> Nat]
        /\ pc[r][p] # "done" /\ pc' = [pc EXCEPT ![r][p] = "done"]
    BY DEF Exit, control, memory, GenerationInv, ControlTypes
  <1>2. ~Idle(r) /\ launch[r] > 0
    BY <1>1 DEF Idle, GenerationInv, RankInv, ControlTypes
  <1>3. \A q \in Ranks : q # r => (Idle(q)' <=> Idle(q))
    BY <1>1 DEF Idle, GenerationInv, ControlTypes
  <1>4. \A q : M(q)' = M(q)
    BY <1>1 DEF M
  <1>5. CASE ~Idle(r)'
    BY <1>1, <1>2, <1>3, <1>5, ServiceStutters
  <1>6. CASE Idle(r)'
    <2>1. /\ \A q \in Ranks : launch[q] >= launch[r]
          /\ \A c \in Cells(M(r)) : tensor'[r][c] = Sum(launch[r], c)
      <3>1. Cells(M(r))' = Cells(M(r)) /\ \A c : Sum(launch[r], c)' = Sum(launch[r], c)
        BY <1>1, <1>4 DEF Cells, Tiles, Sum, Contribution, Ranks
      <3> QED
        BY <1>1, <1>2, <1>6, <3>1 DEF Answered
    <2>2. returnedOf[r] = launch[r] - 1
      BY <1>2 DEF returnedOf
    <2>3. returnedOf' = [returnedOf EXCEPT ![r] = launch[r]]
      <3>1. \A q \in Ranks : q # r => returnedOf'[q] = returnedOf[q]
        BY <1>1, <1>3, <1>4, ServiceUnmoved DEF returnedOf
      <3>2. returnedOf'[r] = launch[r]
        BY <1>1, <1>6 DEF returnedOf
      <3> QED
        BY <3>1, <3>2 DEF returnedOf
    <2>4. resultOf' = [resultOf EXCEPT ![r] = [c \in Cells(M(r)) |->
                          {<<launch[r], q, c>> : q \in Ranks}]]
      <3>1. \A q \in Ranks : q # r => resultOf'[q] = resultOf[q]
        BY <1>1, <1>3, <1>4, ServiceUnmoved DEF resultOf
      <3>2. resultOf'[r] = [c \in Cells(M(r)) |-> tensor'[r][c]]
        <4>1. Cells(M(r))' = Cells(M(r))
          BY <1>4 DEF Cells, Tiles
        <4> QED
          BY <1>1, <1>2, <1>6, <4>1 DEF resultOf
      <3>3. \A c \in Cells(M(r)) : tensor'[r][c] = {<<launch[r], q, c>> : q \in Ranks}
        BY <2>1 DEF Sum, Contribution
      <3> QED
        BY <3>1, <3>2, <3>3 DEF resultOf
    <2>5. returnedOf[r] < launch[r]
      BY <1>1, <1>2, <2>2
    <2> QED
      BY <1>1, <2>1, <2>3, <2>4, <2>5 DEF Service!Return, returnedOf, resultOf, M
  <1> QED
    BY <1>5, <1>6

\* Every other step of a program is one of a rank that is at work before and after.
LEMMA StepIsHidden ==
    ASSUME GenerationInv, MemoryTypes, NEW r \in Ranks, NEW p \in Programs,
           Step(r, p), ~Exit(r, p)
    PROVE  UNCHANGED Service!vars
  <1>1. UNCHANGED <<calls, launch>>
    BY DEF Step, Load, Arrive, Push, EndPush, Reduce, EndReduce, ReduceOwned, EndReduceOwned,
       Consume, EndConsume, Leave, PhaseArrive, PhaseLeave, Normalize, EndNormalize, Advance,
       AdvanceBy, control
  <1>2. \A q \in Ranks : q # r => tensor'[q] = tensor[q]
    <2>1. UNCHANGED tensor \/ Reduce(r, p) \/ Consume(r, p)
      BY DEF Step, Load, Arrive, Push, EndPush, EndReduce, ReduceOwned, EndReduceOwned, EndConsume,
         Leave, PhaseArrive, PhaseLeave, Normalize, EndNormalize, Advance, AdvanceBy, memory
    <2>2. ASSUME Reduce(r, p) \/ Consume(r, p), NEW q \in Ranks, q # r
          PROVE  tensor'[q] = tensor[q]
      BY <2>2 DEF Reduce, Consume, MemoryTypes
    <2> QED
      BY <2>1, <2>2
  <1>3. \E o \in Programs : /\ pc[r][o] # "done"
                            /\ \/ pc' = pc
                               \/ \E t \in Steps \ {"done"} : pc' = [pc EXCEPT ![r][o] = t]
    <2>1. CASE Advance(r)
      BY <2>1, ProgramZero DEF Advance, AdvanceBy, Steps
    <2>2. CASE Push(r, p) \/ Reduce(r, p) \/ ReduceOwned(r, p) \/ Consume(r, p) \/ Normalize(r, p)
      BY <2>2 DEF Push, Reduce, ReduceOwned, Consume, Normalize, Iterate
    <2>3. CASE \/ Load(r, p) \/ Arrive(r, p) \/ PhaseArrive(r, p) \/ PhaseLeave(r, p)
               \/ EndPush(r, p) \/ EndReduceOwned(r, p) \/ EndConsume(r, p) \/ EndNormalize(r, p)
      BY <2>3 DEF Load, Arrive, PhaseArrive, PhaseLeave, EndPush, EndReduceOwned, EndConsume,
         EndNormalize, Leave, Steps
    <2>4. CASE EndReduce(r, p)
      BY <2>4 DEF EndReduce, Leave, Steps
    <2> QED
      BY <2>1, <2>2, <2>3, <2>4 DEF Step
  <1>4. PICK o \in Programs : /\ pc[r][o] # "done"
                              /\ \/ pc' = pc
                                 \/ \E t \in Steps \ {"done"} : pc' = [pc EXCEPT ![r][o] = t]
    BY <1>3
  <1>5. ~Idle(r) /\ ~Idle(r)'
    BY <1>4 DEF Idle, GenerationInv, ControlTypes
  <1>6. \A q \in Ranks : q # r => (Idle(q)' <=> Idle(q))
    BY <1>4 DEF Idle, GenerationInv, ControlTypes
  <1> QED
    BY <1>1, <1>2, <1>5, <1>6, ServiceStutters

LEMMA ServiceStep ==
    ASSUME PeersUniform, PayloadInv, Answered', [Next]_vars
    PROVE  [Service!Next]_(Service!vars)
  <1>1. GenerationInv /\ LoopInv /\ MemoryTypes
    BY DEF PayloadInv, MailInv
  <1>2. ASSUME NEW r \in Ranks, Start(r) PROVE Service!Next
    BY <1>2, StartIsCall DEF Service!Next
  <1>3. ASSUME NEW r \in Ranks, NEW p \in Programs, Step(r, p)
        PROVE  Service!Next \/ UNCHANGED Service!vars
    <2>1. CASE Exit(r, p)
      BY <1>1, <2>1, ExitIsReturn DEF Service!Next
    <2>2. CASE ~Exit(r, p)
      BY <1>1, <1>3, <2>2, StepIsHidden
    <2> QED
      BY <2>1, <2>2
  <1>4. ASSUME UNCHANGED <<calls, launch, pc, tensor>> PROVE UNCHANGED Service!vars
    BY <1>4, ServiceStutters DEF Idle
  <1>5. ASSUME NEW r \in Ranks, NEW p \in Programs, Land(r, p) \/ Clear(r, p)
        PROVE  UNCHANGED Service!vars
    BY <1>4, <1>5 DEF Land, Clear, control
  <1>6. CASE UNCHANGED vars
    BY <1>4, <1>6 DEF vars
  <1> QED
    BY <1>2, <1>3, <1>5, <1>6 DEF Next, Terminated

\* To its callers the protocol is the service: every rank makes the same calls,
\* and a call returns, once every rank has made it, with the sum of what all
\* ranks gave to that call.
THEOREM ServiceIsImplemented == PeersUniform /\ Spec => ImplementsService
  <1>1. Init => Service!Init
    BY ServiceInit
  <1>2. PeersUniform /\ PayloadInv => Answered
    BY DoneIsAnswered
  <1>3. PeersUniform /\ PayloadInv /\ Answered' /\ [Next]_vars => [Service!Next]_(Service!vars)
    BY ServiceStep
  <1>4. SUFFICES ASSUME PeersUniform PROVE Spec => ImplementsService
    OBVIOUS
  <1> QED
    BY <1>1, <1>2, <1>3, <1>4, PayloadAlways, PTL DEF Spec, ImplementsService, Service!Spec

-----------------------------------------------------------------------------
(* The phase barrier of the tiled one-shot kernels.                        *)

\* The programs that the phase counter of a tiled launch has counted, and those
\* that have left the barrier.
Counted == {"spin", "norm", "finish", "exit", "done"}
PastBarrier == Counted \ {"spin"}
AtBarrier(r) == {p \in Programs : p < GridOf(r) /\ pc[r][p] \in Counted}
AllCounted(r) == \A p \in Programs : p < GridOf(r) => pc[r][p] \in Counted

Tiled(r) == launch[r] > 0 /\ KernelOf(r) = "tiled"

\* The counter counts until program 0 resets it, which it does after the barrier;
\* a program that has left the barrier knows that all have been counted; and
\* every reduced cell has its partial sum of this launch.
BarrierInv(r) ==
    /\ ~Tiled(r) => phase[r] = 0
    /\ Tiled(r) =>
        /\ Advanced(r) => phase[r] = 0
        /\ ~Advanced(r) => phase[r] = Cardinality(AtBarrier(r))
        /\ (\E p \in Programs : p < GridOf(r) /\ pc[r][p] \in PastBarrier) => AllCounted(r)
        /\ \A c \in reduced[r] : partial[r][<<SlotOf(launch[r]), c>>] = launch[r]

PhaseTypes ==
    /\ phase \in [Ranks -> Int]
    /\ DOMAIN partial = Ranks
    /\ \A r \in Ranks : DOMAIN partial[r] = Slots \X Cells(MaxTokens)

PhaseInv == GenerationInv /\ LoopInv /\ PhaseTypes /\ \A r \in Ranks : BarrierInv(r)

LEMMA PhaseInit == Init => PhaseInv
  <1> SUFFICES ASSUME Init PROVE PhaseInv
    OBVIOUS
  <1>1. PhaseTypes
    BY DEF Init, PhaseTypes
  <1>2. \A r \in Ranks : launch[r] = 0 /\ phase[r] = 0
    BY DEF Init
  <1>3. \A r \in Ranks : BarrierInv(r)
    BY <1>2 DEF BarrierInv, Tiled
  <1> QED
    BY <1>1, <1>3, GenerationInit, LoopInit DEF PhaseInv

\* A counter that has reached the grid size has counted every program.
LEMMA FullBarrier ==
    ASSUME NEW r \in Ranks, GridOf(r) \in 1 .. ProgramLimit, Cardinality(AtBarrier(r)) = GridOf(r)
    PROVE  AllCounted(r)
  <1> DEFINE All == 0 .. GridOf(r) - 1
  <1>1. IsFiniteSet(All) /\ Cardinality(All) = GridOf(r)
    BY FS_Interval
  <1>2. AtBarrier(r) \subseteq All
    BY DEF AtBarrier, Programs
  <1>3. AtBarrier(r) = All
    BY <1>1, <1>2, FS_Subset
  <1> QED
    BY <1>3 DEF AtBarrier, AllCounted, Programs

\* A rank for which nothing changes.
LEMMA BarrierElsewhere ==
    ASSUME NEW q \in Ranks, BarrierInv(q), backend' = backend, launch'[q] = launch[q],
           launch[q] > 0 => M(q)' = M(q), pc'[q] = pc[q], phase'[q] = phase[q],
           partial'[q] = partial[q], reduced'[q] = reduced[q]
    PROVE  BarrierInv(q)'
  <1>1. Tiled(q)' <=> Tiled(q)
    BY LayoutFixed DEF Tiled, KernelOf
  <1>2. CASE ~Tiled(q)
    BY <1>1, <1>2 DEF BarrierInv
  <1>3. CASE Tiled(q)
    <2>1. GridOf(q)' = GridOf(q)
      BY <1>3, LayoutFixed DEF GridOf, Tiled
    <2>2. AtBarrier(q)' = AtBarrier(q) /\ (AllCounted(q)' <=> AllCounted(q))
      BY <2>1 DEF AtBarrier, AllCounted
    <2>3. SlotOf(launch[q])' = SlotOf(launch[q])
      BY DEF SlotOf
    <2> QED
      BY <1>1, <1>3, <2>1, <2>2, <2>3 DEF BarrierInv, Advanced
  <1> QED
    BY <1>2, <1>3

\* A program goes from one step to another and the counter stays: it must have
\* been counted before iff it is afterwards, and not leave the barrier now.
LEMMA BarrierHop ==
    ASSUME GenerationInv, LoopInv, NEW r \in Ranks, NEW p \in Programs, NEW t \in Steps,
           BarrierInv(r), UNCHANGED <<backend, calls, launch>>,
           pc' = [pc EXCEPT ![r][p] = t], p = 0 => (pc[r][p] \in {"exit", "done"} <=> t \in {"exit", "done"}),
           phase'[r] = phase[r], partial'[r] = partial[r], reduced'[r] = reduced[r],
           Tiled(r) => /\ pc[r][p] \in Counted <=> t \in Counted
                       /\ t \in PastBarrier => AllCounted(r)
    PROVE  BarrierInv(r)'
  <1>1. (Tiled(r)' <=> Tiled(r)) /\ GridOf(r)' = GridOf(r)
    BY LayoutFixed DEF Tiled, KernelOf, GridOf, M
  <1>2. /\ pc'[r][p] = t /\ \A o \in Programs : o # p => pc'[r][o] = pc[r][o]
    BY DEF GenerationInv, ControlTypes
  <1>3. Advanced(r)' <=> Advanced(r)
    BY <1>2, ProgramZero DEF Advanced
  <1>4. CASE ~Tiled(r)
    BY <1>1, <1>4 DEF BarrierInv
  <1>5. CASE Tiled(r)
    <2>1. AtBarrier(r)' = AtBarrier(r)
      BY <1>1, <1>2, <1>5 DEF AtBarrier
    <2>2. AllCounted(r) => AllCounted(r)'
      BY <1>1, <1>2, <1>5 DEF AllCounted
    <2>3. (\E o \in Programs : o < GridOf(r)' /\ pc'[r][o] \in PastBarrier) => AllCounted(r)
      BY <1>1, <1>2, <1>5 DEF BarrierInv
    <2>4. SlotOf(launch[r])' = SlotOf(launch[r])
      BY DEF SlotOf
    <2> QED
      BY <1>1, <1>3, <1>5, <2>1, <2>2, <2>3, <2>4 DEF BarrierInv
  <1> QED
    BY <1>4, <1>5

LEMMA PhaseStart ==
    ASSUME PhaseInv, NEW r \in Ranks, Start(r)
    PROVE  PhaseTypes' /\ \A q \in Ranks : BarrierInv(q)'
  <1> USE DEF PhaseInv
  <1>1. /\ backend' = backend /\ phase' = phase /\ partial' = partial
        /\ \A q \in Ranks : q # r => pc'[q] = pc[q] /\ launch'[q] = launch[q]
    BY DEF Start, state, GenerationInv, ControlTypes
  <1>2. PhaseTypes'
    BY <1>1 DEF PhaseTypes, Cells, Tiles
  <1>3. ASSUME NEW q \in Ranks, q # r PROVE BarrierInv(q)'
    <2>1. reduced'[q] = reduced[q]
      BY <1>3, StartEffect
    <2>2. launch[q] > 0 => M(q)' = M(q)
      BY <1>3, CallsKept
    <2> QED
      BY <1>1, <1>3, <2>1, <2>2, BarrierElsewhere
  <1>4. phase'[r] = 0
    <2>1. Idle(r)
      BY DEF Start
    <2>2. Advanced(r)
      BY <2>1, ProgramZero DEF Idle, Advanced
    <2> QED
      BY <1>1, <2>2 DEF BarrierInv
  <1>5. \A o \in Programs : pc'[r][o] = IF o < GridOf(r)' THEN "load" ELSE "done"
    <2>1. \A m : Grid(m)' = Grid(m)
      BY <1>1, GridFixed
    <2> QED
      BY <2>1 DEF Start, GridOf, M, GenerationInv, ControlTypes
  <1>6. GridOf(r)' > 0
    <2>1. launch'[r] = launch[r] + 1 /\ launch[r] \in Nat
      BY CallsKept
    <2>2. calls'[launch'[r]] \in 1 .. MaxTokens
      <3>1. GenerationInv'
        BY GenerationStart
      <3>2. calls' \in Seq(1 .. MaxTokens) /\ launch'[r] \in 1 .. Len(calls')
        BY <2>1, <3>1 DEF GenerationInv, ControlTypes
      <3> QED
        BY <3>2, SequenceElement
    <2>3. Grid(calls'[launch'[r]]) > 0
      BY <2>2, CallsArePositive, GridBounds
    <2>4. \A m : Grid(m)' = Grid(m)
      BY <1>1, GridFixed
    <2> QED
      BY <2>3, <2>4 DEF GridOf, M
  <1>7. AtBarrier(r)' = {} /\ ~Advanced(r)'
    BY <1>5, <1>6, ProgramZero DEF AtBarrier, Counted, Advanced
  <1>8. ~\E o \in Programs : o < GridOf(r)' /\ pc'[r][o] \in PastBarrier
    BY <1>5 DEF PastBarrier, Counted
  <1>9. reduced'[r] = {}
    BY StartEffect
  <1>10. BarrierInv(r)'
    BY <1>4, <1>7, <1>8, <1>9, FS_EmptySet DEF BarrierInv
  <1> QED
    BY <1>2, <1>3, <1>10

\* A step of rank r leaves the barriers of the other ranks alone.
LEMMA OtherBarriers ==
    ASSUME PhaseInv, NEW r \in Ranks, NEW p \in Programs, Step(r, p), NEW q \in Ranks, q # r,
           reduced'[q] = reduced[q]
    PROVE  BarrierInv(q)'
  <1> USE DEF PhaseInv
  <1>1. UNCHANGED <<backend, calls, launch>>
    BY DEF Step, Load, Arrive, Push, EndPush, Reduce, EndReduce, ReduceOwned, EndReduceOwned,
       Consume, EndConsume, Leave, PhaseArrive, PhaseLeave, Normalize, EndNormalize, Advance,
       AdvanceBy, Exit, control
  <1>2. pc'[q] = pc[q]
    <2>1. \/ pc' = pc
          \/ \E o \in Programs, t \in Steps : pc' = [pc EXCEPT ![r][o] = t]
      <3>1. CASE Advance(r)
        BY <3>1, ProgramZero DEF Advance, AdvanceBy, Steps
      <3>2. CASE Push(r, p) \/ Reduce(r, p) \/ ReduceOwned(r, p) \/ Consume(r, p) \/ Normalize(r, p)
        BY <3>2 DEF Push, Reduce, ReduceOwned, Consume, Normalize
      <3>3. CASE \/ Load(r, p) \/ Arrive(r, p) \/ PhaseArrive(r, p) \/ PhaseLeave(r, p) \/ Exit(r, p)
                 \/ EndPush(r, p) \/ EndReduceOwned(r, p) \/ EndConsume(r, p) \/ EndNormalize(r, p)
        BY <3>3 DEF Load, Arrive, PhaseArrive, PhaseLeave, Exit, EndPush, EndReduceOwned, EndConsume,
           EndNormalize, Leave, Steps
      <3>4. CASE EndReduce(r, p)
        BY <3>4 DEF EndReduce, Leave, Steps
      <3> QED
        BY <3>1, <3>2, <3>3, <3>4 DEF Step
    <2> QED
      BY <2>1 DEF GenerationInv, ControlTypes
  <1>3. phase'[q] = phase[q]
    <2>1. phase' = phase \/ PhaseArrive(r, p) \/ Advance(r)
      BY DEF Step, Load, Arrive, Push, EndPush, Reduce, EndReduce, ReduceOwned, EndReduceOwned,
         Consume, EndConsume, Leave, PhaseLeave, Normalize, EndNormalize, Exit, state
    <2>2. CASE PhaseArrive(r, p)
      BY <2>2 DEF PhaseArrive, PhaseTypes
    <2>3. CASE Advance(r)
      BY <2>3 DEF Advance, AdvanceBy, PhaseTypes
    <2> QED
      BY <2>1, <2>2, <2>3
  <1>4. partial'[q] = partial[q]
    <2>1. partial' = partial \/ Reduce(r, p)
      BY DEF Step, Load, Arrive, Push, EndPush, EndReduce, ReduceOwned, EndReduceOwned,
         Consume, EndConsume, Leave, PhaseArrive, PhaseLeave, Normalize, EndNormalize,
         Advance, AdvanceBy, Exit, memory
    <2>2. CASE Reduce(r, p)
      <3>1. UNCHANGED partial \/ \E f : partial' = [partial EXCEPT ![r] = f]
        BY <2>2 DEF Reduce
      <3> QED
        BY <3>1 DEF PhaseTypes
    <2> QED
      BY <2>1, <2>2
  <1>5. launch[q] > 0 => M(q)' = M(q)
    BY <1>1 DEF M
  <1> QED
    BY <1>1, <1>2, <1>3, <1>4, <1>5, BarrierElsewhere

LEMMA BarrierArrive ==
    ASSUME PhaseInv, NEW r \in Ranks, NEW p \in Programs, PhaseArrive(r, p), Quiet
    PROVE  BarrierInv(r)'
  <1> USE DEF PhaseInv
  <1>1. /\ pc[r][p] = "phase" /\ pc' = [pc EXCEPT ![r][p] = "spin"]
        /\ phase' = [phase EXCEPT ![r] = @ + 1]
        /\ UNCHANGED <<backend, calls, launch, partial>>
    BY DEF PhaseArrive, control, memory
  <1>2. launch[r] > 0 /\ p < GridOf(r)
    BY <1>1, AtWork
  <1>3. Tiled(r)
    BY <1>1, <1>2 DEF LoopInv, Walk, Tiled
  <1>4. (Tiled(r)' <=> Tiled(r)) /\ GridOf(r)' = GridOf(r)
    BY <1>1, LayoutFixed DEF Tiled, KernelOf, GridOf, M
  <1>5. /\ pc'[r][p] = "spin" /\ \A o \in Programs : o # p => pc'[r][o] = pc[r][o]
    BY <1>1 DEF GenerationInv, ControlTypes
  <1>6. ~AllCounted(r)
    BY <1>1, <1>2 DEF AllCounted, Counted
  <1>7. \A o \in Programs : o < GridOf(r) => pc[r][o] \notin PastBarrier
    BY <1>3, <1>6 DEF BarrierInv
  <1>8. 0 < GridOf(r)
    BY <1>1, AtWork
  <1>9. ~Advanced(r) /\ ~Advanced(r)'
    BY <1>5, <1>7, <1>8, ProgramZero DEF Advanced, PastBarrier, Counted
  <1>10. phase[r] = Cardinality(AtBarrier(r))
    BY <1>3, <1>9 DEF BarrierInv
  <1>11. AtBarrier(r)' = AtBarrier(r) \cup {p} /\ p \notin AtBarrier(r)
    BY <1>1, <1>2, <1>4, <1>5 DEF AtBarrier, Counted
  <1>12. IsFiniteSet(AtBarrier(r))
    <2>1. IsFiniteSet(Programs)
      BY LayoutAssumption, FS_Interval DEF Programs
    <2> QED
      BY <2>1, FS_Subset DEF AtBarrier
  <1>13. Cardinality(AtBarrier(r)') = Cardinality(AtBarrier(r)) + 1
    BY <1>11, <1>12, FS_AddElement
  <1>14. phase'[r] = Cardinality(AtBarrier(r)')
    BY <1>1, <1>10, <1>13 DEF PhaseTypes
  <1>15. \A o \in Programs : o < GridOf(r)' => pc'[r][o] \notin PastBarrier
    BY <1>4, <1>5, <1>7 DEF PastBarrier
  <1>16. \A c \in reduced'[r] : partial'[r][<<SlotOf(launch[r])', c>>] = launch'[r]
    BY <1>1, <1>3 DEF BarrierInv, Quiet, SlotOf
  <1> QED
    BY <1>3, <1>4, <1>9, <1>14, <1>15, <1>16 DEF BarrierInv

LEMMA BarrierReset ==
    ASSUME PhaseInv, NEW r \in Ranks, Advance(r), Quiet
    PROVE  BarrierInv(r)'
  <1> USE DEF PhaseInv
  <1>1. /\ pc[r][0] = "finish" /\ pc' = [pc EXCEPT ![r][0] = "exit"]
        /\ phase' = [phase EXCEPT ![r] = IF KernelOf(r) = "tiled" THEN 0 ELSE @]
        /\ UNCHANGED <<backend, calls, launch, partial>>
    BY DEF Advance, AdvanceBy, control, memory
  <1>2. launch[r] > 0 /\ 0 < GridOf(r)
    BY <1>1, ProgramZero, AtWork
  <1>3. (Tiled(r)' <=> Tiled(r)) /\ GridOf(r)' = GridOf(r)
    BY <1>1, LayoutFixed DEF Tiled, KernelOf, GridOf, M
  <1>4. /\ pc'[r][0] = "exit" /\ \A o \in Programs : o # 0 => pc'[r][o] = pc[r][o]
    BY <1>1, ProgramZero DEF GenerationInv, ControlTypes
  <1>5. Advanced(r)'
    BY <1>4 DEF Advanced
  <1>6. phase'[r] = 0
    BY <1>1, <1>2 DEF PhaseTypes, BarrierInv, Tiled
  <1>7. CASE Tiled(r)
    <2>1. AllCounted(r)
      BY <1>1, <1>2, <1>7, ProgramZero DEF BarrierInv, PastBarrier, Counted
    <2>2. AllCounted(r)'
      BY <1>3, <1>4, <2>1 DEF AllCounted, Counted
    <2>3. \A c \in reduced'[r] : partial'[r][<<SlotOf(launch[r])', c>>] = launch'[r]
      BY <1>1, <1>7 DEF BarrierInv, Quiet, SlotOf
    <2> QED
      BY <1>3, <1>5, <1>6, <1>7, <2>2, <2>3 DEF BarrierInv
  <1>8. CASE ~Tiled(r)
    BY <1>3, <1>6, <1>8 DEF BarrierInv
  <1> QED
    BY <1>7, <1>8

\* A program is let through when all have been counted.
LEMMA BarrierLeave ==
    ASSUME PhaseInv, NEW r \in Ranks, NEW p \in Programs, PhaseLeave(r, p), Quiet
    PROVE  BarrierInv(r)'
  <1> USE DEF PhaseInv
  <1>1. /\ pc[r][p] = "spin" /\ phase[r] = GridOf(r) /\ pc' = [pc EXCEPT ![r][p] = "norm"]
        /\ UNCHANGED <<backend, calls, launch, phase, partial>>
    BY DEF PhaseLeave, control, state, memory
  <1>2. launch[r] > 0 /\ GridOf(r) \in 1 .. ProgramLimit
    BY <1>1, AtWork, CurrentCall DEF GenerationInv
  <1>3. Tiled(r) => AllCounted(r)
    BY <1>1, <1>2, FullBarrier DEF BarrierInv
  <1> QED
    BY <1>1, <1>3, BarrierHop DEF Quiet, Steps, Counted

\* The other steps by which a program goes on.
LEMMA BarrierPassed ==
    ASSUME PhaseInv, NEW r \in Ranks, NEW p \in Programs, Quiet,
           \/ Load(r, p) \/ Arrive(r, p) \/ EndPush(r, p) \/ EndReduce(r, p)
           \/ EndReduceOwned(r, p) \/ EndConsume(r, p) \/ EndNormalize(r, p) \/ Exit(r, p)
    PROVE  BarrierInv(r)'
  <1> USE DEF PhaseInv
  <1>1. UNCHANGED <<backend, calls, launch, phase, partial>>
    BY DEF Load, Arrive, EndPush, EndReduce, EndReduceOwned, EndConsume, EndNormalize, Exit, Leave,
           control, state, memory
  <1>2. pc[r][p] # "done"
    BY DEF Load, Arrive, EndPush, EndReduce, EndReduceOwned, EndConsume, EndNormalize, Exit, Leave
  <1>3. launch[r] > 0 /\ p < GridOf(r)
    BY <1>2, AtWork
  <1>4. CASE Load(r, p) \/ Arrive(r, p) \/ EndPush(r, p)
    <2>1. PICK t \in {"arrive", "push", "reduce"} :
             pc[r][p] \in {"load", "arrive", "push"} /\ pc' = [pc EXCEPT ![r][p] = t]
      BY <1>4 DEF Load, Arrive, EndPush, Leave
    <2> QED
      BY <1>1, <2>1, BarrierHop DEF Quiet, Steps, Counted, PastBarrier
  <1>5. CASE EndReduce(r, p)
    <2>1. PICK t \in {"phase", "finish"} :
             /\ pc[r][p] = "reduce" /\ pc' = [pc EXCEPT ![r][p] = t]
             /\ KernelOf(r) = "tiled" => t = "phase"
      BY <1>5 DEF EndReduce, Leave
    <2> QED
      BY <1>1, <2>1, BarrierHop DEF Quiet, Steps, Counted, PastBarrier, Tiled
  <1>6. CASE EndReduceOwned(r, p)
    <2>1. pc[r][p] = "reduce" /\ pc' = [pc EXCEPT ![r][p] = "consume"]
      BY <1>6 DEF EndReduceOwned, Leave
    <2> QED
      BY <1>1, <2>1, BarrierHop DEF Quiet, Steps, Counted, PastBarrier
  <1>7. CASE EndConsume(r, p)
    <2>1. pc[r][p] = "consume" /\ pc' = [pc EXCEPT ![r][p] = "finish"]
      BY <1>7 DEF EndConsume, Leave
    <2>2. ~Tiled(r)
      BY <1>3, <2>1 DEF LoopInv, Walk, Tiled
    <2> QED
      BY <1>1, <2>1, <2>2, BarrierHop DEF Quiet, Steps
  <1>8. CASE EndNormalize(r, p)
    <2>1. pc[r][p] = "norm" /\ pc' = [pc EXCEPT ![r][p] = "finish"]
      BY <1>8 DEF EndNormalize, Leave
    <2>2. Tiled(r) => AllCounted(r)
      BY <1>3, <2>1 DEF BarrierInv, PastBarrier, Counted
    <2> QED
      BY <1>1, <2>1, <2>2, BarrierHop DEF Quiet, Steps, Counted
  <1>9. CASE Exit(r, p)
    <2>1. /\ pc[r][p] = (IF p = 0 THEN "exit" ELSE "finish") /\ pc' = [pc EXCEPT ![r][p] = "done"]
      BY <1>9 DEF Exit
    <2>2. Tiled(r) => AllCounted(r)
      BY <1>3, <2>1 DEF BarrierInv, PastBarrier, Counted
    <2> QED
      BY <1>1, <2>1, <2>2, BarrierHop DEF Quiet, Steps, Counted
  <1> QED
    BY <1>4, <1>5, <1>6, <1>7, <1>8, <1>9

\* The items of the loops.  Only the tiled reduction publishes partial sums.
LEMMA BarrierItem ==
    ASSUME PhaseInv, NEW r \in Ranks, NEW p \in Programs,
           Push(r, p) \/ ReduceOwned(r, p) \/ Consume(r, p) \/ Normalize(r, p)
    PROVE  BarrierInv(r)'
  <1> USE DEF PhaseInv
  <1>1. UNCHANGED <<backend, calls, launch, pc, phase, partial>>
    BY DEF Push, ReduceOwned, Consume, Normalize, control, state, memory
  <1>2. CASE Push(r, p) \/ ReduceOwned(r, p) \/ Normalize(r, p)
    <2>1. reduced' = reduced
      BY <1>2, PushEffect, ReduceOwnedEffect, NormalizeQuiet DEF Quiet
    <2> QED
      BY <1>1, <2>1, BarrierElsewhere DEF M
  <1>3. CASE Consume(r, p)
    <2>1. ~Tiled(r) /\ ~Tiled(r)'
      BY <1>1, <1>3, ConsumeEffect, LayoutFixed DEF Tiled, KernelOf, M
    <2> QED
      BY <1>1, <2>1 DEF BarrierInv
  <1> QED
    BY <1>2, <1>3

LEMMA BarrierReduce ==
    ASSUME PhaseInv, NEW r \in Ranks, NEW p \in Programs, Reduce(r, p)
    PROVE  BarrierInv(r)' /\ PhaseTypes'
  <1> USE DEF PhaseInv
  <1>1. PICK cells : cells = ItemCells(M(r), work[r][p])
    OBVIOUS
  <1>2. /\ UNCHANGED <<backend, calls, launch, pc, phase>>
        /\ pc[r][p] = "reduce" /\ work[r][p] < ItemCount(M(r))
        /\ KernelOf(r) = "tiled" =>
             partial' = [partial EXCEPT ![r] = [x \in Slots \X Cells(MaxTokens) |->
                  IF x[1] = snap[r][p].slot /\ x[2] \in cells THEN launch[r] ELSE @[x]]]
        /\ KernelOf(r) # "tiled" => UNCHANGED partial
    BY <1>1 DEF Reduce, Iterate, control, state
  <1>3. reduced'[r] = reduced[r] \cup cells
    <2>1. DOMAIN reduced = Ranks
      BY DEF reduced
    <2>2. reduced' = [reduced EXCEPT ![r] = @ \cup cells]
      BY <1>1, ReduceEffect
    <2> QED
      BY <2>1, <2>2
  <1>4. (Tiled(r)' <=> Tiled(r)) /\ GridOf(r)' = GridOf(r)
    BY <1>2, LayoutFixed DEF Tiled, KernelOf, GridOf, M
  <1>5. PhaseTypes'
    <2>1. DOMAIN partial' = Ranks /\ \A q \in Ranks : DOMAIN partial'[q] = Slots \X Cells(MaxTokens)
      BY <1>2 DEF PhaseTypes
    <2> QED
      BY <1>2, <2>1 DEF PhaseTypes, Cells, Tiles
  <1>6. phase'[r] = phase[r] /\ launch'[r] = launch[r] /\ pc'[r] = pc[r] /\ BarrierInv(r)
    BY <1>2
  <1>7. CASE ~Tiled(r)
    BY <1>4, <1>5, <1>6, <1>7 DEF BarrierInv
  <1>8. CASE Tiled(r)
    <2>1. /\ snap[r][p].slot = SlotOf(launch[r]) /\ SlotOf(launch[r]) \in Slots
          /\ M(r) \in 1 .. MaxTokens
      <3>1. launch[r] \in Nat \ {0}
        BY <1>8 DEF Tiled, GenerationInv, ControlTypes
      <3> QED
        BY <1>2, <1>8, <3>1, AtWork, SlotNumbers DEF GenerationInv, RankInv, SlotOf
    <2>2. ASSUME NEW c \in reduced'[r] PROVE partial'[r][<<SlotOf(launch[r]), c>>] = launch[r]
      <3>1. c \in Cells(M(r))
        <4>1. Cells(M(r))' = Cells(M(r))
          BY <1>2 DEF M, Cells, Tiles
        <4> QED
          BY <2>2, <4>1 DEF reduced
      <3>2. c \in Cells(MaxTokens)
        BY <2>1, <3>1, CellOffsets
      <3>3. partial'[r][<<SlotOf(launch[r]), c>>] =
              IF c \in cells THEN launch[r] ELSE partial[r][<<SlotOf(launch[r]), c>>]
        BY <1>2, <1>8, <2>1, <3>2 DEF PhaseTypes, Tiled
      <3> QED
        BY <1>3, <1>8, <2>2, <3>3 DEF BarrierInv
    <2>3. /\ AtBarrier(r)' = AtBarrier(r) /\ (AllCounted(r)' <=> AllCounted(r))
          /\ (Advanced(r)' <=> Advanced(r)) /\ SlotOf(launch[r])' = SlotOf(launch[r])
      BY <1>2, <1>4 DEF AtBarrier, AllCounted, Advanced, SlotOf
    <2>4. (\E o \in Programs : o < GridOf(r)' /\ pc'[r][o] \in PastBarrier) => AllCounted(r)
      BY <1>4, <1>6, <1>8 DEF BarrierInv
    <2> HIDE DEF PhaseInv
    <2> QED
      BY <1>4, <1>5, <1>6, <1>8, <2>2, <2>3, <2>4 DEF BarrierInv
  <1> QED
    BY <1>7, <1>8

LEMMA PhaseStep ==
    ASSUME PhaseInv, NEW r \in Ranks, NEW p \in Programs, Step(r, p)
    PROVE  PhaseInv'
  <1>1. GenerationInv'
    BY GenerationStep DEF PhaseInv
  <1>2. LoopInv' /\ \A q \in Ranks : q # r => reduced'[q] = reduced[q]
    BY PushEffect, ReduceOwnedEffect, ReduceEffect, ConsumeEffect, NoItemIsQuiet
       DEF PhaseInv, Step, NoItem, Quiet, reduced
  <1>3. \A q \in Ranks : q # r => BarrierInv(q)'
    BY <1>2, OtherBarriers
  <1>4. BarrierInv(r)'
    <2>1. CASE NoItem(r, p)
      <3>1. Quiet
        BY <2>1, NoItemIsQuiet DEF PhaseInv
      <3>2. CASE Normalize(r, p)
        BY <3>2, BarrierItem
      <3> QED
        BY <2>1, <3>1, <3>2, BarrierArrive, BarrierLeave, BarrierReset, BarrierPassed DEF NoItem
    <2> QED
      BY <2>1, BarrierItem, BarrierReduce DEF Step, NoItem
  <1>5. PhaseTypes'
    <2>1. CASE Reduce(r, p)
      BY <2>1, BarrierReduce
    <2>2. CASE PhaseArrive(r, p)
      <3>1. UNCHANGED partial /\ phase' \in [Ranks -> Int]
        BY <2>2 DEF PhaseArrive, memory, PhaseInv, PhaseTypes
      <3> QED
        BY <3>1 DEF PhaseInv, PhaseTypes, Cells, Tiles
    <2>3. CASE Advance(r)
      <3>1. UNCHANGED partial /\ phase' \in [Ranks -> Int]
        BY <2>3 DEF Advance, AdvanceBy, memory, PhaseInv, PhaseTypes
      <3> QED
        BY <3>1 DEF PhaseInv, PhaseTypes, Cells, Tiles
    <2>4. CASE ~Reduce(r, p) /\ ~PhaseArrive(r, p) /\ ~Advance(r)
      <3>1. UNCHANGED <<phase, partial>>
        BY <2>4 DEF Step, Load, Arrive, Push, EndPush, EndReduce, ReduceOwned, EndReduceOwned,
           Consume, EndConsume, Leave, PhaseLeave, Normalize, EndNormalize, Exit, state, memory
      <3> QED
        BY <3>1 DEF PhaseInv, PhaseTypes, Cells, Tiles
    <2> QED
      BY <2>1, <2>2, <2>3, <2>4
  <1> QED
    BY <1>1, <1>2, <1>3, <1>4, <1>5 DEF PhaseInv

\* Stores that land, cells that are cleared and steps that change nothing.
LEMMA PhaseStill ==
    ASSUME PhaseInv, GenerationInv', LoopInv', reduced' = reduced,
           UNCHANGED <<backend, calls, launch, pc, phase, partial>>
    PROVE  PhaseInv'
  <1>1. PhaseTypes'
    BY DEF PhaseInv, PhaseTypes, Cells, Tiles
  <1>2. \A q \in Ranks : BarrierInv(q)'
    BY BarrierElsewhere DEF PhaseInv, M
  <1> QED
    BY <1>1, <1>2 DEF PhaseInv

LEMMA PhaseNext ==
    ASSUME PhaseInv, [Next \/ PhaseCounterLost]_vars
    PROVE  PhaseInv'
  <1>1. [Next]_vars
    BY DEF PhaseCounterLost
  <1>2. GenerationInv'
    BY <1>1, GenerationNext DEF PhaseInv
  <1>3. ASSUME NEW r \in Ranks, Start(r) PROVE PhaseInv'
    BY <1>2, <1>3, LoopsStart, PhaseStart DEF PhaseInv
  <1>4. ASSUME NEW r \in Ranks, NEW p \in Programs, Step(r, p) PROVE PhaseInv'
    BY <1>4, PhaseStep
  <1>5. ASSUME NEW r \in Ranks, NEW p \in Programs, Land(r, p) PROVE PhaseInv'
    <2>1. LoopInv' /\ reduced' = reduced
      BY <1>5, LandEffect DEF PhaseInv, Quiet
    <2>2. UNCHANGED <<backend, calls, launch, pc, phase, partial>>
      BY <1>5 DEF Land, control, state
    <2> QED
      BY <1>2, <2>1, <2>2, PhaseStill
  <1>6. ASSUME NEW r \in Ranks, NEW p \in Programs, Clear(r, p) PROVE PhaseInv'
    <2>1. LoopInv' /\ reduced' = reduced
      BY <1>6, ClearEffect DEF PhaseInv
    <2>2. UNCHANGED <<backend, calls, launch, pc, phase, partial>>
      BY <1>6 DEF Clear, control, state
    <2> QED
      BY <1>2, <2>1, <2>2, PhaseStill
  <1>7. CASE UNCHANGED vars
    <2>1. UNCHANGED <<backend, calls, launch, pc, phase, partial, work, stores, cleared>>
      BY <1>7 DEF vars
    <2>2. reduced' = reduced
      BY <2>1, LoopsStill DEF PhaseInv
    <2>3. LoopInv'
      <3>1. LoopTypes'
        BY <2>1 DEF PhaseInv, LoopInv, LoopTypes
      <3> QED
        BY <2>1, <3>1, LoopsStill DEF PhaseInv
    <2> QED
      BY <1>2, <2>1, <2>2, <2>3, PhaseStill
  <1> QED
    BY <1>1, <1>3, <1>4, <1>5, <1>6, <1>7 DEF Next, Terminated

\* With every program at the barrier the whole tensor has been reduced.
LEMMA CountedIsReduced ==
    ASSUME PhaseInv, NEW r \in Ranks, Tiled(r), AllCounted(r), NEW c \in Cells(M(r))
    PROVE  c \in reduced[r]
  <1>1. M(r) \in 1 .. MaxTokens /\ GridOf(r) \in 1 .. ProgramLimit
    BY CurrentCall DEF PhaseInv, GenerationInv, Tiled
  <1>2. ItemOf(M(r), c) \in Nat
    BY <1>1, Items
  <1>3. ItemOf(M(r), c) % GridOf(r) \in Programs /\ ItemOf(M(r), c) % GridOf(r) < GridOf(r)
    BY <1>1, <1>2, LayoutAssumption DEF Programs
  <1>4. pc[r][ItemOf(M(r), c) % GridOf(r)] \in AfterReduce
    BY <1>3 DEF AllCounted, Counted, AfterReduce, AfterPush, Steps
  <1> QED
    BY <1>4 DEF reduced, Finished, Tiled

\* A program that normalizes a tile finds every partial square sum of the row,
\* written in this launch: the phase barrier holds it back until then, although
\* the counter is reset while programs may still be waiting there.
THEOREM PartialSumsAreReady == GridSpec => []PartialsReady
  <1>1. Init => PhaseInv
    BY PhaseInit
  <1>2. PhaseInv /\ [Next \/ PhaseCounterLost]_vars => PhaseInv'
    BY PhaseNext
  <1>3. PhaseInv => PartialsReady
    <2> SUFFICES ASSUME PhaseInv, NEW r \in Ranks, NEW p \in Programs,
                        pc[r][p] = "norm", work[r][p] < ItemCount(M(r)),
                        NEW c \in ItemCells(M(r), work[r][p]), NEW k \in Tiles
                 PROVE  partial[r][<<snap[r][p].slot, <<c[1], k>>>>] = launch[r]
      BY DEF PartialsReady
    <2>1. /\ launch[r] > 0 /\ p < GridOf(r) /\ M(r) \in 1 .. MaxTokens /\ work[r][p] \in Nat
      BY AtWork DEF PhaseInv
    <2>2. Tiled(r)
      BY <2>1 DEF PhaseInv, LoopInv, Walk, Tiled
    <2>3. AllCounted(r)
      BY <2>1, <2>2 DEF PhaseInv, BarrierInv, PastBarrier, Counted
    <2>4. <<c[1], k>> \in Cells(M(r))
      <3>1. work[r][p] \in 0 .. ItemCount(M(r)) - 1
        BY <2>1, Items
      <3>2. c \in Cells(M(r))
        BY <2>1, <3>1, Items
      <3> QED
        BY <3>2 DEF Cells
    <2>5. <<c[1], k>> \in reduced[r]
      BY <2>2, <2>3, <2>4, CountedIsReduced
    <2>6. snap[r][p].slot = SlotOf(launch[r])
      BY DEF PhaseInv, GenerationInv, RankInv, SlotOf
    <2> QED
      BY <2>2, <2>5, <2>6 DEF PhaseInv, BarrierInv
  <1> QED
    BY <1>1, <1>2, <1>3, PTL DEF GridSpec

-----------------------------------------------------------------------------
(* Mail is not lost: what has been sent lies at its place or is on its way *)
(* there, until the launch after the next.                                 *)

\* A store to cell a of rank r has not landed yet.
OnItsWay(r, a) ==
    \E q \in Ranks, p \in Programs : \E st \in stores[q][p] : st.to = r /\ st.at = a
There(r, a) == buffer[r][a] # Empty \/ OnItsWay(r, a)

\* The launch a rank is in and the next one, for which others may have sent already.
Coming(r) == {launch[r], launch[r] + 1}
Arrives ==
    \A r \in Ranks : \A n \in Coming(r) :
        IsCall(n) => \A x \in Expected(n, r) : Sent(n, x) => There(r, At(n, x))

LEMMA ArrivesInit == Init => Arrives
  BY DEF Init, Arrives, IsCall

LEMMA StoresGrow ==
    ASSUME NEW r, NEW a, There(r, a), buffer' = buffer,
           \A q \in Ranks, p \in Programs : stores[q][p] \subseteq stores'[q][p]
    PROVE  There(r, a)'
  <1>1. CASE buffer[r][a] # Empty
    BY <1>1 DEF There, Empty
  <1>2. CASE OnItsWay(r, a)
    BY <1>2 DEF There, OnItsWay
  <1> QED
    BY <1>1, <1>2 DEF There

\* A store that lands is there.
LEMMA LandingIsThere ==
    ASSUME PeersUniform, PayloadInv, NEW q \in Ranks, NEW p \in Programs, Land(q, p),
           NEW r \in Ranks, NEW a \in BufferCells, There(r, a)
    PROVE  There(r, a)'
  <1> USE DEF PayloadInv, MailInv
  <1>1. PICK st \in stores[q][p] :
           /\ stores' = [stores EXCEPT ![q][p] = @ \ {st}]
           /\ buffer' = [buffer EXCEPT ![st.to][st.at] = st.value]
    BY DEF Land
  <1>2. st.to \in Ranks /\ st.at \in BufferCells
    BY StoreGoes
  <1>3. st.value # Empty
    BY ContentIsSomething DEF InFlight, Posted
  <1>4. CASE st.to = r /\ st.at = a
    BY <1>1, <1>3, <1>4 DEF There, MemoryTypes, Empty
  <1>5. CASE ~(st.to = r /\ st.at = a)
    <2>1. buffer'[r][a] = buffer[r][a]
      BY <1>1, <1>2, <1>5 DEF MemoryTypes
    <2>2. CASE buffer[r][a] # Empty
      BY <2>1, <2>2 DEF There, Empty
    <2>3. CASE OnItsWay(r, a)
      <3>1. PICK q2 \in Ranks, p2 \in Programs : \E s \in stores[q2][p2] : s.to = r /\ s.at = a
        BY <2>3 DEF OnItsWay
      <3>2. PICK s \in stores[q2][p2] : s.to = r /\ s.at = a
        BY <3>1
      <3>3. s \in stores'[q2][p2]
        BY <1>1, <1>5, <3>2 DEF LoopInv, LoopTypes
      <3> QED
        BY <3>2, <3>3 DEF There, OnItsWay
    <2> QED
      BY <2>2, <2>3 DEF There
  <1> QED
    BY <1>4, <1>5

\* The clear pass takes no mail of the launch under way nor of the next.
LEMMA ClearingLeaves ==
    ASSUME PeersUniform, PayloadInv, NEW q \in Ranks, NEW p \in Programs, Clear(q, p),
           NEW r \in Ranks, NEW n \in Coming(r), IsCall(n), NEW a \in BufferCells,
           a \in SlotCells(SlotOf(n)), There(r, a)
    PROVE  There(r, a)'
  <1> USE DEF PayloadInv, MailInv
  <1>1. PICK erased : erased = ClearCells(M(q), p, snap[q][p])
    OBVIOUS
  <1>2. /\ pc[q][p] # "load" /\ ~cleared[q][p] /\ stores' = stores
        /\ buffer' = [buffer EXCEPT ![q] = [i \in BufferCells |->
                         IF i \in erased THEN Empty ELSE @[i]]]
    BY <1>1 DEF Clear
  <1>3. pc[q][p] # "done"
    BY <1>2 DEF LoopInv, Walk
  <1>4. launch[q] > 0 /\ erased \subseteq SlotCells((SlotOf(launch[q]) + 2) % 3)
    BY <1>1, <1>2, <1>3, ErasedIsPast
  <1>5. CASE OnItsWay(r, a)
    BY <1>2, <1>5 DEF There, OnItsWay
  <1>6. CASE buffer[r][a] # Empty
    <2>1. ~(q = r /\ a \in erased)
      <3> SUFFICES ASSUME q = r, a \in erased PROVE FALSE
        OBVIOUS
      <3>1. launch[r] \in Nat \ {0} /\ n \in Nat \ {0} /\ n \in {launch[r], launch[r] + 1}
        BY <1>4 DEF GenerationInv, ControlTypes, IsCall, Coming
      <3>2. SlotOf(n) \in Slots /\ (SlotOf(launch[r]) + 2) % 3 \in Slots
        BY <3>1, SlotNumbers
      <3>3. SlotOf(n) = (SlotOf(launch[r]) + 2) % 3
        BY <1>4, <3>2, SlotsDisjoint
      <3> QED
        BY <3>1, <3>3, Z3 DEF SlotOf
    <2>2. buffer'[r][a] = buffer[r][a]
      BY <1>2, <2>1 DEF MemoryTypes
    <2> QED
      BY <1>6, <2>2 DEF There, Empty
  <1> QED
    BY <1>5, <1>6 DEF There

\* Nothing else has been sent than before.
LEMMA NothingSent ==
    ASSUME SameCalls, issued' = issued, summed' = summed, NEW n, NEW x
    PROVE  Sent(n, x)' <=> Sent(n, x)
  BY DEF SameCalls, Sent, SentNow

\* What was there stays, and what is sent now is there.
LEMMA ArrivesStays ==
    ASSUME PeersUniform, PayloadInv, Arrives, SameCalls,
           \A r \in Ranks : \A n \in Coming(r) : \A a \in BufferCells :
              IsCall(n) /\ a \in SlotCells(SlotOf(n)) /\ There(r, a) => There(r, a)',
           \A r \in Ranks : \A n \in Coming(r) : IsCall(n) =>
              \A x \in Expected(n, r) : Sent(n, x)' =>
                 Sent(n, x) \/ \A a \in BufferCells : a = At(n, x) => There(r, a)'
    PROVE  Arrives'
  <1> USE DEF PayloadInv
  <1> SUFFICES ASSUME NEW r \in Ranks, NEW n \in Coming(r), IsCall(n),
                      NEW x \in Expected(n, r), Sent(n, x)',
                      NEW a, a = At(n, x)
               PROVE  There(r, a)'
    <2>1. \A q : Coming(q)' = Coming(q)
      BY MailFixed DEF Coming
    <2> QED
      BY <2>1, MailFixed DEF Arrives
  <1>1. a \in BufferCells /\ a \in SlotCells(SlotOf(n))
    BY ExpectedMail
  <1>2. CASE Sent(n, x)
    BY <1>1, <1>2 DEF Arrives
  <1>3. CASE ~Sent(n, x)
    BY <1>1, <1>3
  <1> QED
    BY <1>2, <1>3

LEMMA ArrivesQuiet ==
    ASSUME PeersUniform, PayloadInv, Arrives, SameCalls, issued' = issued, summed' = summed,
           buffer' = buffer, stores' = stores
    PROVE  Arrives'
  <1>1. \A r, a : There(r, a) => There(r, a)'
    BY DEF There, OnItsWay, Empty
  <1> QED
    BY <1>1, ArrivesStays, NothingSent

LEMMA ArrivesLand ==
    ASSUME PeersUniform, PayloadInv, Arrives, NEW q \in Ranks, NEW p \in Programs, Land(q, p)
    PROVE  Arrives'
  <1>1. SameCalls
    BY DEF Land, control, SameCalls
  <1>2. issued' = issued /\ summed' = summed
    BY LandEffect DEF PayloadInv, Quiet
  <1>3. \A r \in Ranks, a \in BufferCells : There(r, a) => There(r, a)'
    BY LandingIsThere
  <1> QED
    BY <1>1, <1>2, <1>3, ArrivesStays, NothingSent

LEMMA ArrivesClear ==
    ASSUME PeersUniform, PayloadInv, Arrives, NEW q \in Ranks, NEW p \in Programs, Clear(q, p)
    PROVE  Arrives'
  <1>1. SameCalls
    BY DEF Clear, control, SameCalls
  <1>2. issued' = issued /\ summed' = summed
    BY ClearEffect DEF PayloadInv
  <1>3. \A r \in Ranks : \A n \in Coming(r) : \A a \in BufferCells :
           IsCall(n) /\ a \in SlotCells(SlotOf(n)) /\ There(r, a) => There(r, a)'
    BY ClearingLeaves
  <1> QED
    BY <1>1, <1>2, <1>3, ArrivesStays, NothingSent

\* What a program pushes is on its way to everybody it is for.
LEMMA PushIsOnItsWay ==
    ASSUME PeersUniform, PayloadInv, NEW q \in Ranks, NEW p \in Programs, Push(q, p),
           NEW r \in Ranks, NEW n, IsCall(n), NEW x \in Expected(n, r),
           Sent(n, x)', ~Sent(n, x), NEW a, a = At(n, x)
    PROVE  OnItsWay(r, a)'
  <1> USE DEF PayloadInv
  <1>1. /\ Iterate(q, p, "push", ItemCount(M(q))) /\ SameCalls
        /\ stores' = [stores EXCEPT ![q][p] = @ \cup PushStores(q, p, work[q][p])]
    BY DEF Push, control, SameCalls
  <1>2. /\ issued' = [issued EXCEPT ![q] = @ \cup ItemCells(M(q), work[q][p])]
        /\ summed' = summed /\ DOMAIN issued = Ranks
    BY PushEffect DEF issued
  <1>3. /\ x.kind = "push" /\ x.from = q /\ launch[q] = n /\ x.cell \in ItemCells(M(q), work[q][p])
    BY <1>1, <1>2, ExpectedMail DEF Sent, SentNow, SameCalls
  <1>4. x \in Mail(calls[n]) /\ Addressed(calls[n], x, r) /\ x.cell \in Cells(calls[n])
    BY ExpectedMail
  <1>5. PICK c : c = x.cell
    OBVIOUS
  <1>6. x = PushOf(q, c) /\ M(q) = calls[n] /\ c \in Cells(M(q)) /\ c \in ItemCells(M(q), work[q][p])
    BY <1>3, <1>4, <1>5 DEF Mail, PushOf, M
  <1>7. pc[q][p] = "push"
    BY <1>1 DEF Iterate
  <1>8. \E st \in PushStores(q, p, work[q][p]) : st.to = r /\ st.at = a
    <2>1. CASE KernelOf(q) = "twoshot"
      <3>1. r = Owner(c)
        BY <1>3, <1>4, <1>5, <1>6, <2>1 DEF Addressed, KernelOf
      <3>2. ScatterCell(snap[q][p].slot, q, c) = a
        BY <1>3, <1>6, <1>7, <2>1, Addresses
      <3>3. [to |-> Owner(c), at |-> ScatterCell(snap[q][p].slot, q, c), value |-> tensor[q][c]]
              \in PushStores(q, p, work[q][p])
        BY <1>6, <2>1 DEF PushStores
      <3> QED
        BY <3>1, <3>2, <3>3
    <2>2. CASE KernelOf(q) # "twoshot"
      <3>1. OneShotCell(snap[q][p].slot, q, c) = a
        BY <1>3, <1>6, <1>7, <2>2, Addresses
      <3>2. [to |-> r, at |-> OneShotCell(snap[q][p].slot, q, c), value |-> tensor[q][c]]
              \in PushStores(q, p, work[q][p])
        BY <1>6, <2>2 DEF PushStores
      <3> QED
        BY <3>1, <3>2
    <2> QED
      BY <2>1, <2>2
  <1>9. PushStores(q, p, work[q][p]) \subseteq stores'[q][p]
    BY <1>1 DEF LoopInv, LoopTypes
  <1> QED
    BY <1>8, <1>9 DEF OnItsWay

LEMMA ArrivesPush ==
    ASSUME PeersUniform, PayloadInv, Arrives, NEW q \in Ranks, NEW p \in Programs, Push(q, p)
    PROVE  Arrives'
  <1>1. /\ SameCalls /\ buffer' = buffer
        /\ stores' = [stores EXCEPT ![q][p] = @ \cup PushStores(q, p, work[q][p])]
    BY DEF Push, control, SameCalls
  <1>2. \A r \in Ranks, o \in Programs : stores[r][o] \subseteq stores'[r][o]
    BY <1>1 DEF PayloadInv, LoopInv, LoopTypes
  <1>3. \A r, a : There(r, a) => There(r, a)'
    BY <1>1, <1>2, StoresGrow
  <1>4. \A r \in Ranks : \A n \in Coming(r) : IsCall(n) =>
           \A x \in Expected(n, r) : Sent(n, x)' =>
              Sent(n, x) \/ \A a \in BufferCells : a = At(n, x) => There(r, a)'
    BY PushIsOnItsWay DEF There
  <1> QED
    BY <1>1, <1>3, <1>4, ArrivesStays

\* A sum is on its way to every rank.
LEMMA SumIsOnItsWay ==
    ASSUME PeersUniform, PayloadInv, NEW q \in Ranks, NEW p \in Programs, ReduceOwned(q, p),
           NEW r \in Ranks, NEW n, IsCall(n), NEW x \in Expected(n, r),
           Sent(n, x)', ~Sent(n, x), NEW a, a = At(n, x)
    PROVE  OnItsWay(r, a)'
  <1> USE DEF PayloadInv
  <1>1. PICK c : c = OwnedCell(q, work[q][p])
    OBVIOUS
  <1>2. PICK new : new = {[to |-> t, at |-> BroadcastCell(snap[q][p].slot, c),
                           value |-> UNION Scattered(q, p, c)] : t \in Ranks}
    OBVIOUS
  <1>3. SameCalls /\ stores' = [stores EXCEPT ![q][p] = @ \cup new]
    BY <1>1, <1>2 DEF ReduceOwned, control, SameCalls
  <1>4. /\ summed' = [summed EXCEPT ![q] = @ \cup {c}] /\ issued' = issued
        /\ DOMAIN summed = Ranks
    BY <1>1, ReduceOwnedEffect DEF summed
  <1>5. x.kind # "push" /\ x.from = q /\ launch[q] = n /\ x.cell = c
    BY <1>3, <1>4, ExpectedMail DEF Sent, SentNow, SameCalls
  <1>6. x \in Mail(calls[n]) /\ x.kind = "sum"
    BY <1>5, ExpectedMail
  <1>7. /\ KernelOf(q) = "twoshot" /\ pc[q][p] = "reduce" /\ c \in Cells(M(q)) /\ Owner(c) = q
    BY <1>1, OwnerFinds
  <1>8. x = SumOf(c)
    BY <1>5, <1>6, <1>7 DEF Mail, SumOf
  <1>9. BroadcastCell(snap[q][p].slot, c) = a
    BY <1>5, <1>7, <1>8, Addresses
  <1>10. \E st \in new : st.to = r /\ st.at = a
    <2>1. PICK st : st = [to |-> r, at |-> BroadcastCell(snap[q][p].slot, c),
                          value |-> UNION Scattered(q, p, c)]
      OBVIOUS
    <2>2. st \in new
      BY <1>2, <2>1
    <2>3. st.to = r /\ st.at = a
      BY <1>9, <2>1
    <2> QED
      BY <2>2, <2>3
  <1>11. new \subseteq stores'[q][p]
    BY <1>3 DEF LoopInv, LoopTypes
  <1> QED
    BY <1>10, <1>11 DEF OnItsWay

LEMMA ArrivesReduceOwned ==
    ASSUME PeersUniform, PayloadInv, Arrives, NEW q \in Ranks, NEW p \in Programs,
           ReduceOwned(q, p)
    PROVE  Arrives'
  <1>1. SameCalls /\ buffer' = buffer
    BY DEF ReduceOwned, control, SameCalls
  <1>2. \A r \in Ranks, o \in Programs : stores[r][o] \subseteq stores'[r][o]
    BY DEF ReduceOwned, PayloadInv, LoopInv, LoopTypes
  <1>3. \A r, a : There(r, a) => There(r, a)'
    BY <1>1, <1>2, StoresGrow
  <1>4. \A r \in Ranks : \A n \in Coming(r) : IsCall(n) =>
           \A x \in Expected(n, r) : Sent(n, x)' =>
              Sent(n, x) \/ \A a \in BufferCells : a = At(n, x) => There(r, a)'
    BY SumIsOnItsWay DEF There
  <1> QED
    BY <1>1, <1>3, <1>4, ArrivesStays

LEMMA ArrivesStep ==
    ASSUME PeersUniform, PayloadInv, Arrives, NEW q \in Ranks, NEW p \in Programs, Step(q, p)
    PROVE  Arrives'
  <1> USE DEF PayloadInv
  <1>1. CASE Push(q, p)
    BY <1>1, ArrivesPush
  <1>2. CASE ReduceOwned(q, p)
    BY <1>2, ArrivesReduceOwned
  <1>3. CASE Reduce(q, p)
    <2>1. SameCalls /\ buffer' = buffer /\ stores' = stores
      BY <1>3 DEF Reduce, control, SameCalls
    <2> QED
      BY <1>3, <2>1, ReduceEffect, ArrivesQuiet
  <1>4. CASE Consume(q, p)
    <2>1. SameCalls /\ buffer' = buffer /\ stores' = stores
      BY <1>4 DEF Consume, control, SameCalls
    <2> QED
      BY <1>4, <2>1, ConsumeEffect, ArrivesQuiet
  <1>5. CASE NoItem(q, p)
    <2>1. Quiet
      BY <1>5, NoItemIsQuiet
    <2>2. UNCHANGED <<control, stores, buffer>>
      BY <1>5 DEF NoItem, Load, Arrive, EndPush, EndReduce, EndReduceOwned, EndConsume, Leave,
         PhaseArrive, PhaseLeave, Normalize, EndNormalize, Advance, AdvanceBy, Exit, memory
    <2>3. SameCalls /\ UNCHANGED <<stores, buffer>>
      BY <2>2 DEF SameCalls, control
    <2> QED
      BY <2>1, <2>3, ArrivesQuiet DEF Quiet
  <1> QED
    BY <1>1, <1>2, <1>3, <1>4, <1>5 DEF Step, NoItem

\* A rank that starts a launch finds there what has been sent for it, and has sent
\* nothing of it yet.
LEMMA ArrivesStart ==
    ASSUME PeersUniform, PayloadInv, Arrives, NEW r \in Ranks, Start(r)
    PROVE  Arrives'
  <1> USE DEF PayloadInv, MailInv
  <1>1. /\ launch[r] \in Nat /\ launch'[r] = launch[r] + 1
        /\ \A q \in Ranks : launch[q] \in Nat /\ (q # r => launch'[q] = launch[q])
        /\ \A k : IsCall(k) =>
             /\ k \in Nat \ {0} /\ \A q : Expected(k, q)' = Expected(k, q)
             /\ \A x : At(k, x)' = At(k, x)
    BY CallsKept
  <1>2. Idle(r)
    BY DEF Start
  <1>3. \A q \in Ranks : launch[q] <= launch[r] + 1
    BY RanksAreNear
  <1>4. issued'[r] = {} /\ summed'[r] = {}
    BY StartEffect
  <1>5. \A q, a : There(q, a) => There(q, a)'
    BY DEF There, OnItsWay, Start, Empty
  <1>6. \A x : x.from = r => ~SentNow(x)'
    BY <1>4 DEF SentNow
  <1> SUFFICES ASSUME NEW q \in Ranks, NEW n \in Coming(q)', IsCall(n)',
                      NEW x \in Expected(n, q)', Sent(n, x)'
               PROVE  There(q, At(n, x))'
    BY DEF Arrives
  <1>7. n \in {launch'[q], launch'[q] + 1} /\ n \in Nat \ {0}
    BY DEF Coming, IsCall
  <1>8. x.from \in Ranks
    BY DEF Expected, Mail
  <1>9. launch'[x.from] >= n
    BY <1>1, <1>7, <1>8 DEF Sent
  <1>10. n \in Coming(q)
    <2>1. CASE q = r
      <3>1. ~(n = launch[r] + 2)
        BY <1>1, <1>3, <1>7, <1>8, <1>9
      <3> QED
        BY <1>1, <1>7, <2>1, <3>1 DEF Coming
    <2>2. CASE q # r
      BY <1>1, <1>7, <2>2 DEF Coming
    <2> QED
      BY <2>1, <2>2
  <1>11. ~(x.from = r /\ n = launch[r] + 1)
    BY <1>1, <1>6, <1>7 DEF Sent
  <1>12. launch[x.from] >= n
    <2>1. CASE x.from = r
      BY <1>1, <1>7, <1>9, <1>11, <2>1
    <2>2. CASE x.from # r
      BY <1>1, <1>8, <1>9, <2>2
    <2> QED
      BY <2>1, <2>2
  <1>13. IsCall(n)
    <2>1. launch[x.from] \in 1 .. Len(calls)
      BY <1>7, <1>8, <1>12, InACall, <1>1 DEF IsCall
    <2> QED
      BY <1>7, <1>12, <2>1 DEF IsCall
  <1>14. x \in Expected(n, q)
    BY <1>1, <1>13
  <1>15. Sent(n, x)
    <2>1. CASE x.from = r
      <3>1. CASE launch[r] > n
        BY <2>1, <3>1 DEF Sent
      <3>2. CASE launch[r] = n
        <4>1. x \in Expected(launch[r], q) /\ launch[r] > 0
          BY <1>7, <1>14, <3>2
        <4>2. Sent(launch[r], x)
          BY <1>2, <4>1, IdleKnowsSent
        <4> QED
          BY <3>2, <4>2
      <3> QED
        BY <1>1, <1>7, <1>12, <2>1, <3>1, <3>2
    <2>2. CASE x.from # r
      <3>1. SentNow(x)' <=> SentNow(x)
        BY <1>8, <2>2, StartEffect DEF SentNow
      <3> QED
        BY <1>1, <1>8, <2>2, <3>1 DEF Sent
    <2> QED
      BY <2>1, <2>2
  <1>16. PICK a : a = At(n, x)
    OBVIOUS
  <1>17. There(q, a)
    BY <1>10, <1>13, <1>14, <1>15, <1>16 DEF Arrives
  <1>18. There(q, a)'
    BY <1>5, <1>17
  <1>19. At(n, x)' = a
    BY <1>1, <1>13, <1>16
  <1> QED
    BY <1>18, <1>19 DEF There, OnItsWay

LEMMA ArrivesNext ==
    ASSUME PeersUniform, PayloadInv, Arrives, [Next]_vars
    PROVE  Arrives'
  <1>1. CASE UNCHANGED vars
    <2>1. /\ SameCalls /\ buffer' = buffer /\ stores' = stores
          /\ UNCHANGED <<pc, work>>
      BY <1>1 DEF vars, SameCalls
    <2>2. issued' = issued /\ summed' = summed
      BY <1>1, LoopsStill DEF PayloadInv, vars
    <2> QED
      BY <2>1, <2>2, ArrivesQuiet
  <1> QED
    BY <1>1, ArrivesStart, ArrivesStep, ArrivesLand, ArrivesClear DEF Next, Terminated

-----------------------------------------------------------------------------
(* The ranks never wait for each other in a circle. *)

\* No store is on its way, and no program can go on.
Stuck ==
    /\ \A r \in Ranks, p \in Programs : ~Moves(r, p)
    /\ \A r \in Ranks : Idle(r) => ~(launch[r] < Len(calls))

\* Where programs can be stuck.
Waiting == {"reduce", "consume", "spin", "finish", "done"}

LEMMA StuckPrograms ==
    ASSUME Stuck, NEW r \in Ranks, NEW p \in Programs
    PROVE  /\ stores[r][p] = {} /\ pc[r][p] \in Waiting
           /\ pc[r][p] = "reduce" => AwaitsPayloads(r, p)
           /\ pc[r][p] = "consume" => AwaitsSums(r, p)
           /\ pc[r][p] = "spin" => phase[r] # GridOf(r)
           /\ pc[r][p] = "finish" => p = 0 /\ ~AllArrived(r)
  <1>1. stores[r][p] = {}
    BY DEF Stuck, Moves
  <1>2. pc[r][p] # "done" => AwaitsPayloads(r, p) \/ AwaitsSums(r, p) \/ AwaitsPrograms(r, p)
    BY DEF Stuck, Moves
  <1> QED
    BY <1>1, <1>2 DEF AwaitsPayloads, AwaitsSums, AwaitsPrograms, Waiting

\* With nothing on its way, what has been sent for a launch has arrived.
LEMMA SentHasArrived ==
    ASSUME Stuck, Arrives, NEW r \in Ranks, IsCall(launch[r]),
           NEW x \in Expected(launch[r], r), Sent(launch[r], x)
    PROVE  buffer[r][At(launch[r], x)] # Empty
  <1>1. There(r, At(launch[r], x))
    BY DEF Arrives, Coming
  <1>2. ~OnItsWay(r, At(launch[r], x))
    BY StuckPrograms DEF OnItsWay
  <1> QED
    BY <1>1, <1>2 DEF There

\* A rank whose programs are beyond a loop has done all of it.
LEMMA BeyondTheLoops ==
    ASSUME GenerationInv, NEW r \in Ranks, launch[r] > 0, NEW c \in Cells(M(r))
    PROVE  /\ (\A p \in Programs : pc[r][p] \in AfterPush) => c \in issued[r]
           /\ (\A p \in Programs : pc[r][p] \in AfterReduce) /\ KernelOf(r) = "twoshot"
                 /\ Owner(c) = r => c \in summed[r]
  <1>1. M(r) \in 1 .. MaxTokens /\ GridOf(r) \in 1 .. ProgramLimit
    BY CurrentCall DEF GenerationInv
  <1>2. ItemOf(M(r), c) \in Nat /\ OwnedItem(c) \in Nat
    <2>1. ItemOf(M(r), c) \in 0 .. ItemCount(M(r)) - 1 /\ ItemCount(M(r)) \in Nat
      BY <1>1, Items
    <2>2. /\ OwnedItem(c) \in 0 .. CeilDiv(M(r), WorldSize) * TilesPerRow - 1
      BY <1>1, OwnedItems
    <2> QED
      BY <2>1, <2>2
  <1>3. \A i \in Nat : i % GridOf(r) \in Programs
    BY <1>1, LayoutAssumption DEF Programs
  <1> QED
    BY <1>2, <1>3 DEF issued, summed, Finished

\* Some rank that has something to do is not ahead of any other.
LEMMA SomebodyIsLast ==
    ASSUME PeersUniform, PayloadInv, Stuck, \E r \in Ranks : ~Idle(r)
    PROVE  \E r \in Ranks : ~Idle(r) /\ \A q \in Ranks : launch[q] >= launch[r]
  <1> USE DEF PayloadInv, MailInv
  <1>1. PICK r \in Ranks : ~Idle(r)
    OBVIOUS
  <1>2. \A q, s \in Ranks : launch[q] \in Nat /\ launch[s] <= launch[q] + 1
    BY RanksAreNear
  <1>3. CASE \A q \in Ranks : launch[q] >= launch[r]
    BY <1>1, <1>3
  <1>4. CASE \E q \in Ranks : ~(launch[q] >= launch[r])
    <2>1. PICK q \in Ranks : ~(launch[q] >= launch[r])
      BY <1>4
    <2>2. launch[q] < launch[r] /\ launch[r] <= Len(calls)
      BY <1>2, <2>1 DEF GenerationInv, ControlTypes
    <2>3. Len(calls) \in Nat
      BY DEF GenerationInv, ControlTypes
    <2>4. ~Idle(q)
      BY <1>2, <2>2, <2>3 DEF Stuck
    <2>5. \A s \in Ranks : launch[s] >= launch[q]
      BY <1>2, <2>2
    <2> QED
      BY <2>4, <2>5
  <1> QED
    BY <1>3, <1>4

\* A rank that is not ahead finds the payloads it sums ...
LEMMA PayloadsAreThere ==
    ASSUME PeersUniform, PayloadInv, Arrives, Stuck,
           NEW r \in Ranks, \A q \in Ranks : launch[q] >= launch[r], NEW p \in Programs
    PROVE  pc[r][p] # "reduce"
  <1> USE DEF PayloadInv
  <1> SUFFICES ASSUME pc[r][p] = "reduce" PROVE FALSE
    OBVIOUS
  <1>1. /\ launch[r] > 0 /\ M(r) \in 1 .. MaxTokens /\ work[r][p] \in Nat
        /\ \A q \in Ranks : launch[q] \in Nat
    BY AtWork DEF GenerationInv, ControlTypes
  <1>2. IsCall(launch[r]) /\ M(r) = calls[launch[r]] /\ KernelOf(r) = Kernel(calls[launch[r]])
    BY <1>1, InACall DEF KernelOf
  <1>3. AwaitsPayloads(r, p)
    BY StuckPrograms
  <1>4. ASSUME NEW q \in Ranks, NEW c \in Cells(M(r)) PROVE Sent(launch[r], PushOf(q, c))
    <2>1. CASE launch[q] > launch[r]
      BY <2>1 DEF Sent, PushOf
    <2>2. CASE launch[q] = launch[r]
      <3>1. \A o \in Programs : pc[q][o] \in AfterPush
        BY StuckPrograms DEF Waiting, AfterPush, Steps
      <3>2. launch[q] > 0 /\ M(q) = M(r)
        BY <1>1, <2>2 DEF M
      <3>3. c \in issued[q]
        BY <1>4, <3>1, <3>2, BeyondTheLoops
      <3> QED
        BY <2>2, <3>3 DEF Sent, SentNow, PushOf
    <2> QED
      BY <1>1, <2>1, <2>2
  <1>5. CASE KernelOf(r) # "twoshot"
    <2>1. PICK c \in ItemCells(M(r), work[r][p]) : Empty \in Slices(r, p, c)
      BY <1>3, <1>5 DEF AwaitsPayloads
    <2>2. work[r][p] < ItemCount(M(r)) /\ ItemCount(M(r)) \in Nat
      BY <1>1, <1>3, <1>5, Items DEF AwaitsPayloads
    <2>3. c \in Cells(M(r))
      BY <1>1, <2>1, <2>2, Items
    <2>4. PICK q \in Ranks : buffer[r][OneShotCell(snap[r][p].slot, q, c)] = Empty
      BY <2>1 DEF Slices
    <2>5. OneShotCell(snap[r][p].slot, q, c) = At(launch[r], PushOf(q, c))
      BY <1>5, <2>3, Addresses
    <2>6. PushOf(q, c) \in Expected(launch[r], r)
      BY <1>2, <1>5, <2>3, MailAbout
    <2> QED
      BY <1>2, <1>4, <2>3, <2>4, <2>5, <2>6, SentHasArrived
  <1>6. CASE KernelOf(r) = "twoshot"
    <2>1. PICK c : c = OwnedCell(r, work[r][p])
      OBVIOUS
    <2>2. /\ work[r][p] < OwnedCount(r, M(r)) /\ OwnedCount(r, M(r)) \in Nat
          /\ Empty \in Scattered(r, p, c)
      BY <1>1, <1>3, <1>6, <2>1, OwnedWork DEF AwaitsPayloads
    <2>3. c \in Cells(M(r)) /\ Owner(c) = r
      BY <1>1, <2>1, <2>2, OwnedWork
    <2>4. PICK q \in Ranks : buffer[r][ScatterCell(snap[r][p].slot, q, c)] = Empty
      BY <2>2 DEF Scattered
    <2>5. ScatterCell(snap[r][p].slot, q, c) = At(launch[r], PushOf(q, c))
      BY <1>6, <2>3, Addresses
    <2>6. PushOf(q, c) \in Expected(launch[r], r)
      BY <1>2, <1>6, <2>3, MailAbout
    <2> QED
      BY <1>2, <1>4, <2>3, <2>4, <2>5, <2>6, SentHasArrived
  <1> QED
    BY <1>5, <1>6

\* ... and the sums of the rows it finishes.
LEMMA SumsAreThere ==
    ASSUME PeersUniform, PayloadInv, Arrives, Stuck,
           NEW r \in Ranks, \A q \in Ranks : launch[q] >= launch[r], NEW p \in Programs
    PROVE  pc[r][p] # "consume"
  <1> USE DEF PayloadInv
  <1> SUFFICES ASSUME pc[r][p] = "consume" PROVE FALSE
    OBVIOUS
  <1>1. /\ launch[r] > 0 /\ M(r) \in 1 .. MaxTokens /\ work[r][p] \in Nat /\ p < GridOf(r)
        /\ \A q \in Ranks : launch[q] \in Nat
    BY AtWork DEF GenerationInv, ControlTypes
  <1>2. IsCall(launch[r]) /\ M(r) = calls[launch[r]] /\ KernelOf(r) = Kernel(calls[launch[r]])
    BY <1>1, InACall DEF KernelOf
  <1>3. KernelOf(r) = "twoshot"
    BY <1>1 DEF LoopInv, Walk
  <1>4. PICK c \in {work[r][p]} \X Tiles :
           work[r][p] < M(r) /\ buffer[r][BroadcastCell(snap[r][p].slot, c)] = Empty
    BY StuckPrograms DEF AwaitsSums
  <1>5. c \in Cells(M(r))
    BY <1>1, <1>4 DEF Cells
  <1>6. PICK q \in Ranks : q = Owner(c)
    BY <1>2, <1>5, MailAbout
  <1>7. BroadcastCell(snap[r][p].slot, c) = At(launch[r], SumOf(c))
    BY <1>3, <1>5, Addresses
  <1>8. SumOf(c) \in Expected(launch[r], r)
    BY <1>2, <1>3, <1>5, MailAbout
  <1>9. Sent(launch[r], SumOf(c))
    <2>1. CASE launch[q] > launch[r]
      BY <1>6, <2>1 DEF Sent, SumOf
    <2>2. CASE launch[q] = launch[r]
      <3>1. \A s \in Ranks : launch[s] >= launch[q]
        BY <2>2
      <3>2. \A o \in Programs : pc[q][o] \in AfterReduce
        BY <3>1, StuckPrograms, PayloadsAreThere DEF Waiting, AfterReduce, AfterPush, Steps
      <3>3. launch[q] > 0 /\ M(q) = M(r) /\ KernelOf(q) = KernelOf(r)
        BY <1>1, <2>2 DEF M, KernelOf
      <3>4. c \in summed[q]
        BY <1>3, <1>5, <1>6, <3>2, <3>3, BeyondTheLoops
      <3> QED
        BY <1>6, <2>2, <3>4 DEF Sent, SentNow, SumOf
    <2> QED
      BY <1>1, <2>1, <2>2
  <1> QED
    BY <1>2, <1>4, <1>7, <1>8, <1>9, SentHasArrived

\* All programs of the grid are counted in the end.
LEMMA WholeGrid ==
    ASSUME NEW r \in Ranks, GridOf(r) \in 1 .. ProgramLimit
    PROVE  /\ (\A p \in Programs : p < GridOf(r) => pc[r][p] \notin {"load", "arrive"})
                => Cardinality(Arrived(r)) = GridOf(r)
           /\ AllCounted(r) => Cardinality(AtBarrier(r)) = GridOf(r)
  <1> DEFINE All == 0 .. GridOf(r) - 1
  <1>1. Cardinality(All) = GridOf(r)
    BY FS_Interval
  <1>2. All = {p \in Programs : p < GridOf(r)}
    BY LayoutAssumption DEF Programs
  <1>3. (\A p \in Programs : p < GridOf(r) => pc[r][p] \notin {"load", "arrive"})
          => Arrived(r) = All
    BY <1>2 DEF Arrived
  <1>4. AllCounted(r) => AtBarrier(r) = All
    BY <1>2 DEF AllCounted, AtBarrier
  <1> QED
    BY <1>1, <1>3, <1>4

\* A rank that is not ahead is not stuck, unless it has lost its phase counter.
LEMMA TheLastMoves ==
    ASSUME PeersUniform, PayloadInv, Arrives, PhaseInv, SpinningIsCounted, Stuck,
           NEW r \in Ranks, \A q \in Ranks : launch[q] >= launch[r]
    PROVE  Idle(r)
  <1> SUFFICES ASSUME NEW p \in Programs, pc[r][p] # "done" PROVE FALSE
    BY DEF Idle
  <1>1. launch[r] > 0 /\ p < GridOf(r)
    BY AtWork DEF PayloadInv
  <1>2. GridOf(r) \in 1 .. ProgramLimit
    BY <1>1, CurrentCall DEF PayloadInv, GenerationInv
  <1>3. \A o \in Programs : pc[r][o] \in {"spin", "finish", "done"}
    BY StuckPrograms, PayloadsAreThere, SumsAreThere DEF Waiting
  <1>4. CASE pc[r][p] = "spin"
    <2>1. Tiled(r)
      BY <1>1, <1>4 DEF PayloadInv, LoopInv, Walk, Tiled
    <2>2. phase[r] > 0
      BY <1>4 DEF SpinningIsCounted
    <2>3. phase[r] = Cardinality(AtBarrier(r))
      BY <2>1, <2>2 DEF PhaseInv, BarrierInv
    <2>4. AllCounted(r)
      BY <1>3 DEF AllCounted, Counted
    <2>5. phase[r] = GridOf(r)
      BY <1>2, <2>3, <2>4, WholeGrid
    <2> QED
      BY <1>4, <2>5, StuckPrograms
  <1>5. CASE pc[r][p] = "finish"
    <2>1. p = 0 /\ ~AllArrived(r)
      BY <1>5, StuckPrograms
    <2>2. ~Advanced(r)
      BY <1>5, <2>1 DEF Advanced
    <2>3. arrival[r] = Cardinality(Arrived(r))
      BY <2>2 DEF PayloadInv, GenerationInv, RankInv, Unadvanced
    <2>4. arrival[r] = GridOf(r)
      BY <1>2, <1>3, <2>3, WholeGrid
    <2> QED
      BY <2>1, <2>4 DEF AllArrived
  <1> QED
    BY <1>3, <1>4, <1>5

LEMMA NotAllAreStuck ==
    ASSUME PeersUniform, PayloadInv, Arrives, PhaseInv, SpinningIsCounted
    PROVE  SomebodyMoves
  <1>1. SUFFICES ASSUME \E r \in Ranks : ~Idle(r), Stuck PROVE FALSE
    BY DEF SomebodyMoves, Stuck
  <1> QED
    BY <1>1, SomebodyIsLast, TheLastMoves

\* The ranks never wait for each other in a circle: whatever the world size, the
\* grid and the sequence of calls, as long as a launch is under way some program
\* can go on, some store can land or some rank has yet to make a call that is
\* under way elsewhere.  The one exception is the lost phase counter: a program
\* that spins at the phase barrier after the counter has been reset.
THEOREM OnlyTheCounterCanStop ==
    PeersUniform /\ Spec => [](SpinningIsCounted => SomebodyMoves)
  <1> DEFINE Inv == PayloadInv /\ Arrives /\ PhaseInv
  <1>1. Init => Inv
    BY PayloadInit, ArrivesInit, PhaseInit
  <1>2. PeersUniform /\ Inv /\ [Next]_vars => Inv'
    <2> SUFFICES ASSUME PeersUniform, Inv, [Next]_vars PROVE Inv'
      OBVIOUS
    <2>1. PayloadInv'
      BY PayloadNext
    <2>2. Arrives'
      BY ArrivesNext
    <2>3. PhaseInv'
      BY PhaseNext
    <2> QED
      BY <2>1, <2>2, <2>3
  <1>3. PeersUniform /\ Inv => (SpinningIsCounted => SomebodyMoves)
    BY NotAllAreStuck
  <1>4. SUFFICES ASSUME PeersUniform PROVE Spec => [](SpinningIsCounted => SomebodyMoves)
    OBVIOUS
  <1> QED
    BY <1>1, <1>2, <1>3, <1>4, PTL DEF Spec

\* No two programs share a phase barrier: the calls are row-wise, two-shot or of a
\* single program.
NoSharedBarrier == \A m \in TokenCounts[backend] : Kernel(m) = "tiled" => Grid(m) = 1

LEMMA BackendStays ==
    ASSUME [Next]_vars
    PROVE  backend' = backend
  <1>1. ASSUME NEW r \in Ranks, NEW p \in Programs, Step(r, p) PROVE backend' = backend
    BY <1>1 DEF Step, Load, Arrive, Push, EndPush, Reduce, EndReduce, ReduceOwned, EndReduceOwned,
       Consume, EndConsume, Leave, PhaseArrive, PhaseLeave, Normalize, EndNormalize, Advance,
       AdvanceBy, Exit, control
  <1>2. ASSUME NEW r \in Ranks, Start(r) PROVE backend' = backend
    BY <1>2 DEF Start
  <1>3. ASSUME NEW r \in Ranks, NEW p \in Programs, Land(r, p) \/ Clear(r, p)
        PROVE  backend' = backend
    BY <1>3 DEF Land, Clear, control
  <1> QED
    BY <1>1, <1>2, <1>3 DEF Next, Terminated, vars

\* The program that resets the counter is then the one that waits for it.
LEMMA AloneAtTheBarrier ==
    ASSUME PastInv, PhaseInv, NoSharedBarrier
    PROVE  SpinningIsCounted
  <1> USE DEF PhaseInv
  <1> SUFFICES ASSUME NEW r \in Ranks, NEW p \in Programs, pc[r][p] = "spin"
               PROVE  phase[r] > 0
    BY DEF SpinningIsCounted
  <1>1. launch[r] > 0 /\ p < GridOf(r)
    BY AtWork
  <1>2. Tiled(r)
    BY <1>1 DEF LoopInv, Walk, Tiled
  <1>3. GridOf(r) = 1
    <2>1. launch[r] \in 1 .. Len(calls)
      BY <1>1, InACall DEF IsCall
    <2>2. M(r) \in TokenCounts[backend]
      BY <2>1, SequenceElement DEF PastInv, M
    <2> QED
      BY <1>2, <2>2 DEF NoSharedBarrier, Tiled, KernelOf, GridOf
  <1>4. p = 0
    BY <1>1, <1>3 DEF Programs
  <1>5. phase[r] = Cardinality(AtBarrier(r))
    BY <1>2, <1>4 DEF BarrierInv, Advanced
  <1>6. AtBarrier(r) = {0}
    BY <1>3, <1>4, LayoutAssumption DEF AtBarrier, Counted, Programs
  <1>7. Cardinality({0}) = 1
    BY FS_Singleton
  <1> QED
    BY <1>5, <1>6, <1>7

\* Where programs share no phase barrier there is no exception.
THEOREM NobodyWaitsInACircle ==
    PeersUniform /\ NoSharedBarrier /\ Spec => []SomebodyMoves
  <1>1. NoSharedBarrier /\ [Next]_vars => NoSharedBarrier'
    BY BackendStays, LayoutFixed DEF NoSharedBarrier
  <1>2. PeersUniform /\ PayloadInv /\ [Next]_vars => PayloadInv'
    BY PayloadNext
  <1>3. PhaseInv /\ [Next]_vars => PhaseInv'
    BY PhaseNext
  <1>4. PayloadInv /\ PhaseInv /\ NoSharedBarrier => SpinningIsCounted
    BY AloneAtTheBarrier DEF PayloadInv
  <1>5. SUFFICES ASSUME PeersUniform PROVE NoSharedBarrier /\ Spec => []SomebodyMoves
    OBVIOUS
  <1> QED
    BY <1>1, <1>2, <1>3, <1>4, <1>5, PayloadInit, PhaseInit, OnlyTheCounterCanStop, PTL DEF Spec
=============================================================================
