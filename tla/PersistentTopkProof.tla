-------------------------- MODULE PersistentTopkProof --------------------------
(* The persistent top-k kernel, for every batch, group size and capacity: the *)
(* barrier keeps a group of CTAs together, the ring of histograms is complete *)
(* when it is scanned, every finished row is an exact top-k, and no register  *)
(* or table leaves its range.                                                 *)
EXTENDS PersistentTopk, FiniteSetTheorems, WellFoundedInduction, TLAPS

(***************************************************************************)
(* BarrierSkew is not inductive: the counter is shared by all barriers and  *)
(* never reset, so one has to know how much of it belongs to which barrier. *)
(* The invariant says that there is a number m of barriers all CTAs have    *)
(* arrived at, that nobody has left more than these, and that the rest of   *)
(* the counter are the CTAs, not all of them, that wait at the next one.    *)
(***************************************************************************)
BarrierTyped ==
  /\ arrivals \in Nat
  /\ phase \in [Ctas -> Nat]
  /\ pc = [c \in Ctas |-> pc[c]]

Waits == {"starting", "meeting", "collecting"}

\* Barriers a CTA has arrived at.
Reached(c) == IF pc[c] \in Waits THEN phase[c] + 1 ELSE phase[c]
Ahead(m) == {c \in Ctas : Reached(c) = m + 1}

Met(m) ==
  /\ \A c \in Ctas : phase[c] <= m /\ Reached(c) \in {m, m + 1}
  /\ arrivals = m * CTAS + Cardinality(Ahead(m))
  /\ Ahead(m) # Ctas

BarrierInv == BarrierTyped /\ \E m \in Nat : Met(m)

-----------------------------------------------------------------------------
(* Arithmetic of the counter: a barrier that is open is one of the m.        *)
LEMMA OpenBarrier ==
  ASSUME NEW p \in Nat, NEW m \in Nat, NEW n \in Nat, NEW k \in Nat, k < n,
         (p + 1) * n <= m * n + k
  PROVE  p + 1 <= m
<1>1. ASSUME NEW d \in Nat, p = m + d PROVE FALSE
  <2>1. (p + 1) * n = m * n + d * n + n  BY <1>1
  <2>2. d * n \in Nat  OBVIOUS
  <2>3. QED  BY <2>1, <2>2
<1>2. CASE p >= m
  <2>1. p - m \in Nat /\ p = m + (p - m)  BY <1>2
  <2>2. QED  BY <1>1, <2>1
<1>3. QED  BY <1>2

LEMMA GroupFinite ==
  IsFiniteSet(Ctas) /\ Cardinality(Ctas) = CTAS
<1>1. CTAS \in Nat /\ CTAS # 0  BY TopkAssumption DEF TopkAssumption
<1>2. 0 \in Int /\ CTAS - 1 \in Int /\ ~(0 > CTAS - 1)  BY <1>1
<1>3. IsFiniteSet(0 .. CTAS - 1) /\ Cardinality(0 .. CTAS - 1) = CTAS - 1 - 0 + 1
  BY <1>2, FS_Interval
<1>4. QED  BY <1>1, <1>3 DEF Ctas

\* Some CTAs but not all are fewer than CTAS.
LEMMA FewerThanAll ==
  ASSUME NEW S, S \subseteq Ctas, S # Ctas
  PROVE  IsFiniteSet(S) /\ Cardinality(S) \in Nat /\ Cardinality(S) < CTAS
<1>1. IsFiniteSet(S) /\ Cardinality(S) \in Nat
  BY GroupFinite, FS_Subset, FS_CardinalityType
<1>2. Cardinality(S) < Cardinality(Ctas)
  BY GroupFinite, FS_Subset, FS_CardinalityType
<1>3. QED  BY <1>1, <1>2, GroupFinite

-----------------------------------------------------------------------------
(* The three kinds of step: none at the barrier, arriving and leaving.       *)
Elsewhere(c) ==
  /\ UNCHANGED <<arrivals, phase>>
  /\ \/ UNCHANGED pc
     \/ \E from, to : Goto(c, from, to) /\ from \notin Waits /\ to \notin Waits

Arriving(c) ==
  /\ \E from, to : Goto(c, from, to) /\ from \notin Waits /\ to \in Waits
  /\ arrivals' = arrivals + 1
  /\ UNCHANGED phase

Leaving(c) ==
  /\ \E from, to : Leave(c, from, to) /\ from \in Waits /\ to \notin Waits
  /\ UNCHANGED arrivals

LEMMA ElsewhereKeeps ==
  ASSUME BarrierInv, NEW c \in Ctas, Elsewhere(c)
  PROVE  BarrierInv'
<1>1. PICK m \in Nat : Met(m)  BY DEF BarrierInv
<1>2. \A d \in Ctas : phase'[d] = phase[d] /\ Reached(d)' = Reached(d)
  BY DEF BarrierInv, BarrierTyped, Elsewhere, Goto, Reached
<1>3. Ahead(m)' = Ahead(m)  BY <1>2 DEF Ahead
<1>4. Met(m)'  BY <1>1, <1>2, <1>3 DEF Met, Elsewhere
<1>5. BarrierTyped'  BY DEF BarrierInv, BarrierTyped, Elsewhere, Goto
<1>6. QED  BY <1>4, <1>5 DEF BarrierInv

LEMMA ArrivingKeeps ==
  ASSUME BarrierInv, NEW c \in Ctas, Arriving(c)
  PROVE  BarrierInv'
<1>1. PICK m \in Nat : Met(m)  BY DEF BarrierInv
<1>2. \A d \in Ctas : /\ phase'[d] = phase[d] /\ phase[d] \in Nat
                      /\ d # c => Reached(d)' = Reached(d)
  BY DEF BarrierInv, BarrierTyped, Arriving, Goto, Reached
<1>3. Reached(c) = phase[c] /\ Reached(c)' = phase[c] + 1
  BY DEF BarrierInv, BarrierTyped, Arriving, Goto, Reached
<1>4. Reached(c) = m /\ Reached(c)' = m + 1
  BY <1>1, <1>2, <1>3 DEF Met
<1>5. Ahead(m)' = Ahead(m) \cup {c} /\ c \notin Ahead(m)
  BY <1>2, <1>4 DEF Ahead
<1>6. IsFiniteSet(Ahead(m)) /\ Cardinality(Ahead(m)) \in Nat
  BY <1>1, FewerThanAll DEF Met, Ahead
<1>7. Cardinality(Ahead(m)') = Cardinality(Ahead(m)) + 1
  BY <1>5, <1>6, FS_AddElement
<1>8. BarrierTyped'  BY DEF BarrierInv, BarrierTyped, Arriving, Goto
<1>9. CTAS \in Nat /\ m * CTAS \in Nat
  BY TopkAssumption DEF TopkAssumption
<1>10. \A d \in Ctas : phase'[d] <= m /\ Reached(d)' \in {m, m + 1}
  BY <1>1, <1>2, <1>4 DEF Met
<1>11. arrivals' = m * CTAS + Cardinality(Ahead(m)')
  BY <1>1, <1>6, <1>7, <1>9 DEF Met, Arriving
<1>12. CASE Ahead(m)' # Ctas
  <2>1. Met(m)'  BY <1>10, <1>11, <1>12 DEF Met
  <2>2. QED  BY <1>8, <2>1 DEF BarrierInv
<1>13. CASE Ahead(m)' = Ctas
  <2>1. \A d \in Ctas : Reached(d)' = m + 1  BY <1>13 DEF Ahead
  <2>2. Ahead(m + 1)' = {}  BY <2>1 DEF Ahead
  <2>3. arrivals' = m * CTAS + CTAS  BY <1>11, <1>13, GroupFinite
  <2>4. m * CTAS + CTAS = (m + 1) * CTAS + 0  BY <1>9
  <2>5. Cardinality({}) = 0  BY FS_EmptySet
  <2>6. \A d \in Ctas : phase'[d] <= m + 1 /\ Reached(d)' \in {m + 1, m + 1 + 1}
    BY <1>2, <1>10, <2>1
  <2>7. Met(m + 1)'  BY <2>2, <2>3, <2>4, <2>5, <2>6 DEF Met
  <2>8. QED  BY <1>8, <2>7 DEF BarrierInv
<1>14. QED  BY <1>12, <1>13

LEMMA LeavingKeeps ==
  ASSUME BarrierInv, NEW c \in Ctas, Leaving(c)
  PROVE  BarrierInv'
<1>1. PICK m \in Nat : Met(m)  BY DEF BarrierInv
<1>2. \A d \in Ctas : phase[d] \in Nat /\ (d # c => phase'[d] = phase[d])
  BY DEF BarrierInv, BarrierTyped, Leaving, Leave
<1>3. phase'[c] = phase[c] + 1
  BY DEF BarrierInv, BarrierTyped, Leaving, Leave
<1>4. \A d \in Ctas : Reached(d)' = Reached(d)
  BY <1>2, <1>3 DEF BarrierInv, BarrierTyped, Leaving, Leave, Goto, Reached
<1>5. Ahead(m)' = Ahead(m)  BY <1>4 DEF Ahead
<1>6. Cardinality(Ahead(m)) \in Nat /\ Cardinality(Ahead(m)) < CTAS
  BY <1>1, FewerThanAll DEF Met, Ahead
<1>7. CTAS \in Nat  BY TopkAssumption DEF TopkAssumption
<1>8. (phase[c] + 1) * CTAS <= m * CTAS + Cardinality(Ahead(m))
  BY <1>1, <1>2, <1>6, <1>7 DEF Met, Leaving, Leave, AllArrived
<1>9. phase[c] + 1 <= m  BY <1>2, <1>6, <1>7, <1>8, OpenBarrier
<1>10. \A d \in Ctas : phase'[d] <= m  BY <1>1, <1>2, <1>3, <1>9 DEF Met
<1>11. Met(m)'  BY <1>1, <1>4, <1>5, <1>10 DEF Met, Leaving
<1>12. BarrierTyped'
  BY DEF BarrierInv, BarrierTyped, Leaving, Leave, Goto
<1>13. QED  BY <1>11, <1>12 DEF BarrierInv

-----------------------------------------------------------------------------
LEMMA InitInv == Init => BarrierInv
<1> SUFFICES ASSUME Init PROVE BarrierInv  OBVIOUS
<1>1. BarrierTyped  BY DEF Init, BarrierTyped
<1>2. \A c \in Ctas : phase[c] = 0 /\ Reached(c) = 0
  BY DEF Init, Reached, Waits
<1>3. Ahead(0) = {}  BY <1>2 DEF Ahead
<1>4. CTAS \in Nat /\ 0 \in Ctas
  BY TopkAssumption DEF TopkAssumption, Ctas
<1>5. arrivals = 0 * CTAS + Cardinality({})
  BY <1>4, FS_EmptySet DEF Init
<1>6. Met(0)  BY <1>2, <1>3, <1>4, <1>5 DEF Met
<1>7. QED  BY <1>1, <1>6 DEF BarrierInv

LEMMA StepInv == BarrierInv /\ [Next]_vars => BarrierInv'
<1> SUFFICES ASSUME BarrierInv, [Next]_vars PROVE BarrierInv'  OBVIOUS
<1>1. CASE UNCHANGED vars
  <2>1. arrivals' = arrivals /\ phase' = phase /\ pc' = pc
    BY <1>1 DEF vars, global
  <2>2. PICK m \in Nat : Met(m)  BY DEF BarrierInv
  <2>3. \A c \in Ctas : Reached(c)' = Reached(c)  BY <2>1 DEF Reached
  <2>4. Ahead(m)' = Ahead(m)  BY <2>3 DEF Ahead
  <2>5. Met(m)'  BY <2>1, <2>2, <2>3, <2>4 DEF Met
  <2>6. BarrierTyped'  BY <2>1 DEF BarrierInv, BarrierTyped
  <2>7. QED  BY <2>5, <2>6 DEF BarrierInv
<1>2. ASSUME NEW c \in Ctas, Step(c) PROVE BarrierInv'
  <2>1. CASE ShortRow(c)
    <3>1. Elsewhere(c)  BY <2>1 DEF ShortRow, Elsewhere, Waits, global
    <3>2. QED  BY <3>1, ElsewhereKeeps
  <2>2. CASE LongRow(c)
    <3>1. Arriving(c)  BY <2>2 DEF LongRow, Arriving, Waits, global
    <3>2. QED  BY <3>1, ArrivingKeeps
  <2>3. CASE LeaveStart(c)
    <3>1. Leaving(c)  BY <2>3 DEF LeaveStart, Leaving, Waits, global
    <3>2. QED  BY <3>1, LeavingKeeps
  <2>4. CASE Clear(c)
    <3>1. Elsewhere(c)  BY <2>4 DEF Clear, Elsewhere, Waits, global
    <3>2. QED  BY <3>1, ElsewhereKeeps
  <2>5. CASE Count(c)
    <3>1. Elsewhere(c)  BY <2>5 DEF Count, Elsewhere, Waits, global
    <3>2. QED  BY <3>1, ElsewhereKeeps
  <2>6. CASE ClearNext(c)
    <3>1. Elsewhere(c)  BY <2>6 DEF ClearNext, Elsewhere, Waits, global
    <3>2. QED  BY <3>1, ElsewhereKeeps
  <2>7. CASE Arrive(c, "counted", "meeting")
    <3>1. Arriving(c)  BY <2>7 DEF Arrive, Arriving, Waits, global
    <3>2. QED  BY <3>1, ArrivingKeeps
  <2>8. CASE LeaveRound(c)
    <3>1. Leaving(c)  BY <2>8 DEF LeaveRound, Leaving, Waits, global
    <3>2. QED  BY <3>1, LeavingKeeps
  <2>9. CASE Scan(c)
    <3>1. Elsewhere(c)  BY <2>9 DEF Scan, Elsewhere, Waits, global
    <3>2. QED  BY <3>1, ElsewhereKeeps
  <2>10. CASE Collect(c)
    <3>1. Elsewhere(c)  BY <2>10 DEF Collect, Elsewhere, Waits, global
    <3>2. QED  BY <3>1, ElsewhereKeeps
  <2>11. CASE Arrive(c, "collected", "collecting")
    <3>1. Arriving(c)  BY <2>11 DEF Arrive, Arriving, Waits, global
    <3>2. QED  BY <3>1, ArrivingKeeps
  <2>12. CASE LeaveCollect(c)
    <3>1. Leaving(c)  BY <2>12 DEF LeaveCollect, Leaving, Waits, global
    <3>2. QED  BY <3>1, LeavingKeeps
  <2>13. CASE TakeEqual(c)
    <3>1. Elsewhere(c)  BY <2>13 DEF TakeEqual, Elsewhere, Waits, global
    <3>2. QED  BY <3>1, ElsewhereKeeps
  <2>14. CASE NextRow(c)
    <3>1. Elsewhere(c)  BY <2>14 DEF NextRow, Elsewhere, Waits, global
    <3>2. QED  BY <3>1, ElsewhereKeeps
  <2>15. QED
    BY <1>2, <2>1, <2>2, <2>3, <2>4, <2>5, <2>6, <2>7, <2>8, <2>9, <2>10,
       <2>11, <2>12, <2>13, <2>14 DEF Step
<1>3. CASE Done  BY <1>1, <1>3 DEF Done
<1>4. QED  BY <1>1, <1>2, <1>3 DEF Next

LEMMA InvImpliesSkew == BarrierInv => BarrierSkew
<1> SUFFICES ASSUME BarrierInv, NEW c \in Ctas, NEW d \in Ctas
             PROVE  phase[c] <= phase[d] + 1
  BY DEF BarrierSkew
<1>1. PICK m \in Nat : Met(m)  BY DEF BarrierInv
<1>2. phase[c] \in Nat /\ phase[d] \in Nat  BY DEF BarrierInv, BarrierTyped
<1>3. phase[c] <= m /\ Reached(d) \in {m, m + 1}  BY <1>1 DEF Met
<1>4. m <= phase[d] + 1  BY <1>2, <1>3 DEF Reached
<1>5. QED  BY <1>2, <1>3, <1>4

-----------------------------------------------------------------------------
\* Whatever the batch, the size of the group and the order of its steps, no CTA
\* is more than one barrier ahead of another: the counter that is never reset is
\* a barrier for rows of any kind in any order.
THEOREM CtasStayTogether == Spec => []BarrierSkew
<1>1. Init => BarrierInv  BY InitInv
<1>2. BarrierInv /\ [Next]_vars => BarrierInv'  BY StepInv
<1>3. BarrierInv => BarrierSkew  BY InvImpliesSkew
<1>4. QED  BY <1>1, <1>2, <1>3, PTL DEF Spec

-----------------------------------------------------------------------------
(***************************************************************************)
(* CountsComplete: the barriers a CTA has passed tell the row and the round *)
(* it is in, since every long row has ROUNDS + 2 of them; CTAs that differ  *)
(* by one barrier can only be so far apart in the ring of slots.            *)
(***************************************************************************)
Counting  == {"count", "clearNext", "counted", "meeting", "scan"}
Taking    == {"collect", "collected", "collecting", "equal"}
Positions == {"row", "starting", "clear"} \cup Counting \cup Taking

LongBefore(k) == {j \in 1 .. k : Cardinality(DOMAIN rows[j]) > RADIX_THRESHOLD}
Base(k) == (ROUNDS + 2) * Cardinality(LongBefore(k))

\* Barriers of its row that a CTA has passed.
Offset(c) == CASE pc[c] \in {"row", "starting"} -> 0
               [] pc[c] = "clear" -> 1
               [] pc[c] \in Counting \ {"scan"} -> round[c] + 1
               [] pc[c] = "scan" -> round[c] + 2
               [] pc[c] \in Taking \ {"equal"} -> ROUNDS + 1
               [] pc[c] = "equal" -> ROUNDS + 2

Placed(c) ==
  /\ pc[c] \in Positions
  /\ iter[c] \in 0 .. Len(rows)
  /\ round[c] \in 0 .. ROUNDS
  /\ pc[c] # "row" => iter[c] < Len(rows) /\ Long(c)
  /\ pc[c] \in {"clear", "clearNext"} => c = 0
  /\ pc[c] \in {"starting", "clear"} => round[c] = 0
  /\ pc[c] \in Counting => round[c] < ROUNDS
  /\ pc[c] \in Taking => round[c] = ROUNDS
  /\ phase[c] = Base(iter[c]) + Offset(c)

Typed ==
  /\ rows \in Batches
  /\ iter \in [Ctas -> Nat]
  /\ round \in [Ctas -> Nat]
  /\ pc = [c \in Ctas |-> pc[c]]
  /\ phase \in [Ctas -> Nat]

PlaceInv == Typed /\ \A c \in Ctas : Placed(c)

LEMMA Parameters ==
  /\ CTAS \in Nat \ {0} /\ TOPK \in Nat \ {0} /\ CHUNK_SIZE \in Nat \ {0}
  /\ RADIX \in Nat \ {0} /\ RADIX_THRESHOLD \in Nat /\ RADIX_THRESHOLD >= TOPK
  /\ 0 \in Ctas
BY TopkAssumption DEF TopkAssumption, Ctas

\* A batch is a sequence of rows, a row an array of at least one key.
LEMMA RowFacts ==
  ASSUME rows \in Batches
  PROVE  /\ Len(rows) \in Nat /\ DOMAIN rows = 1 .. Len(rows)
         /\ \A k \in 1 .. Len(rows) :
              \E n \in 1 .. CTAS * CHUNK_SIZE : rows[k] \in [0 .. n - 1 -> Keys]
<1>1. rows \in Seq(Range(rows)) BY TopkAssumption DEF TopkAssumption
<1>2. Len(rows) \in Nat /\ DOMAIN rows = 1 .. Len(rows) BY <1>1
<1> QED BY <1>2, TopkAssumption DEF TopkAssumption

LEMMA LongBeforeFinite ==
  ASSUME NEW k \in Nat
  PROVE  /\ IsFiniteSet(LongBefore(k)) /\ Cardinality(LongBefore(k)) \in Nat
         /\ Base(k) \in Nat
<1>1. IsFiniteSet(1 .. k) BY FS_Interval
<1>2. IsFiniteSet(LongBefore(k)) BY <1>1, FS_Subset DEF LongBefore
<1> QED BY <1>2, FS_CardinalityType DEF Base, ROUNDS

\* A long row adds its barriers, a short one none.
LEMMA BaseNext ==
  ASSUME NEW k \in Nat
  PROVE  Base(k + 1) = IF Cardinality(DOMAIN rows[k + 1]) > RADIX_THRESHOLD
                       THEN Base(k) + ROUNDS + 2 ELSE Base(k)
<1>1. CASE Cardinality(DOMAIN rows[k + 1]) > RADIX_THRESHOLD
  <2>1. LongBefore(k + 1) = LongBefore(k) \cup {k + 1} /\ k + 1 \notin LongBefore(k)
    BY <1>1 DEF LongBefore
  <2>2. Cardinality(LongBefore(k + 1)) = Cardinality(LongBefore(k)) + 1
    BY <2>1, LongBeforeFinite, FS_AddElement
  <2> QED BY <1>1, <2>2, LongBeforeFinite DEF Base, ROUNDS
<1>2. CASE ~(Cardinality(DOMAIN rows[k + 1]) > RADIX_THRESHOLD)
  <2>1. LongBefore(k + 1) = LongBefore(k) BY <1>2 DEF LongBefore
  <2> QED BY <1>2, <2>1 DEF Base
<1> QED BY <1>1, <1>2

\* The barriers of a long row come before those of later rows.
LEMMA BaseApart ==
  ASSUME NEW k \in Nat, NEW l \in Nat, k < l,
         Cardinality(DOMAIN rows[k + 1]) > RADIX_THRESHOLD
  PROVE  Base(k) + ROUNDS + 2 <= Base(l)
<1>1. LongBefore(k + 1) \subseteq LongBefore(l) BY DEF LongBefore
<1>2. Cardinality(LongBefore(k + 1)) <= Cardinality(LongBefore(l))
  BY <1>1, LongBeforeFinite, FS_Subset
<1>3. Base(k + 1) <= Base(l) BY <1>2, LongBeforeFinite DEF Base, ROUNDS
<1> QED BY <1>3, BaseNext, LongBeforeFinite

\* The barriers of rows are counted in whole rows.
LEMMA BaseWhole ==
  ASSUME NEW k \in Nat, NEW l \in Nat, NEW a \in 0 .. 5, NEW b \in 0 .. 5,
         Base(k) + a = Base(l) + b
  PROVE  a = b
BY LongBeforeFinite DEF Base, ROUNDS

\* Nobody is past a barrier that another CTA has not reached.
LEMMA Together ==
  ASSUME BarrierInv, NEW c \in Ctas, NEW d \in Ctas
  PROVE  /\ phase[c] \in Nat /\ phase[d] \in Nat
         /\ phase[c] <= Reached(d)
<1>1. PICK m \in Nat : Met(m) BY DEF BarrierInv
<1>2. phase[c] <= m /\ Reached(d) \in {m, m + 1} BY <1>1 DEF Met
<1> QED BY <1>2 DEF BarrierInv, BarrierTyped, Reached

LEMMA PlaceInit == Init => PlaceInv
<1> SUFFICES ASSUME Init PROVE PlaceInv OBVIOUS
<1>1. LongBefore(0) = {} BY DEF LongBefore
<1>2. Base(0) = 0 BY <1>1, FS_EmptySet DEF Base, ROUNDS
<1>3. Typed BY DEF Init, Typed
<1>4. Len(rows) \in Nat BY RowFacts, <1>3 DEF Typed
<1> QED BY <1>2, <1>3, <1>4
  DEF Init, PlaceInv, Placed, Positions, Offset, Counting, Taking, ROUNDS

\* A CTA that does nothing stays where it is.
LEMMA PlacedKept ==
  ASSUME NEW d \in Ctas, Placed(d), rows' = rows, pc'[d] = pc[d], iter'[d] = iter[d],
         round'[d] = round[d], phase'[d] = phase[d]
  PROVE  Placed(d)'
BY DEF Placed, Base, LongBefore, Offset, Long, Row

LEMMA BaseSame ==
  ASSUME rows' = rows PROVE \A k : Base(k)' = Base(k)
BY DEF Base, LongBefore

LEMMA PlaceStep ==
  ASSUME PlaceInv, NEW c \in Ctas, Step(c)
  PROVE  PlaceInv'
<1> USE DEF PlaceInv, Typed, global, select, ROUNDS
<1>r. rows' = rows
  <2>1. ShortRow(c) \/ LongRow(c) \/ LeaveStart(c) \/ Clear(c) => rows' = rows
    BY DEF ShortRow, LongRow, LeaveStart, Clear
  <2>2. Count(c) \/ ClearNext(c) \/ LeaveRound(c) \/ Scan(c) => rows' = rows
    BY DEF Count, ClearNext, LeaveRound, Scan
  <2>3. Collect(c) \/ LeaveCollect(c) \/ TakeEqual(c) \/ NextRow(c) => rows' = rows
    BY DEF Collect, LeaveCollect, TakeEqual, NextRow
  <2> QED BY <2>1, <2>2, <2>3 DEF Step, Arrive
<1>0. /\ rows' = rows /\ rows \in Batches /\ Placed(c) /\ iter[c] \in Nat /\ round[c] \in Nat
      /\ phase[c] \in Nat
  BY <1>r
<1> DEFINE Mine ==
      /\ iter' \in [Ctas -> Nat] /\ round' \in [Ctas -> Nat] /\ phase' \in [Ctas -> Nat]
      /\ pc' = [d \in Ctas |-> pc'[d]]
      /\ \A d \in Ctas \ {c} : /\ pc'[d] = pc[d] /\ iter'[d] = iter[d]
                             /\ round'[d] = round[d] /\ phase'[d] = phase[d]
<1>m. Mine
  <2>1. ShortRow(c) => Mine BY DEF ShortRow
  <2>2. ASSUME LongRow(c) PROVE Mine
    <3>1. /\ iter' = iter /\ phase' = phase /\ round' = [round EXCEPT ![c] = 0]
          /\ pc' = [pc EXCEPT ![c] = "starting"]
      BY <2>2 DEF LongRow, Goto
    <3> QED BY <3>1
  <2>3. LeaveStart(c) \/ LeaveRound(c) \/ LeaveCollect(c) => Mine
    BY DEF LeaveStart, LeaveRound, LeaveCollect, Leave, Goto
  <2>4. Count(c) \/ Clear(c) \/ ClearNext(c) \/ Collect(c) \/ TakeEqual(c) => Mine
    BY DEF Count, Clear, ClearNext, Collect, TakeEqual, Goto
  <2>5. Scan(c) => Mine BY DEF Scan, Goto
  <2>6. NextRow(c) => Mine BY DEF NextRow, Goto
  <2>7. ASSUME NEW x, NEW y, Arrive(c, x, y) PROVE Mine BY <2>7 DEF Arrive, Goto
  <2> HIDE DEF Mine
  <2> QED BY <2>1, <2>2, <2>3, <2>4, <2>5, <2>6, <2>7 DEF Step
<1>1. Typed' /\ \A d \in Ctas \ {c} : /\ pc'[d] = pc[d] /\ iter'[d] = iter[d]
                                     /\ round'[d] = round[d] /\ phase'[d] = phase[d]
  BY <1>0, <1>m
<1>2. \A d \in Ctas \ {c} : Placed(d)' BY <1>0, <1>1, PlacedKept
<1>3. Len(rows) \in Nat BY <1>0, RowFacts
<1>4. /\ Base(iter[c]) \in Nat
      /\ Base(iter[c] + 1) = IF Long(c) THEN Base(iter[c]) + 6 ELSE Base(iter[c])
  BY <1>0, LongBeforeFinite, BaseNext DEF Long, Row
<1>5. \A k : Base(k)' = Base(k) BY <1>0, BaseSame
<1>7. Placed(c)'
  <2> USE DEF Placed, Positions, Offset, Counting, Taking, Goto
  <2>1. CASE ShortRow(c)
    <3>1. pc'[c] = pc[c] /\ pc[c] = "row" /\ iter'[c] = iter[c] + 1 /\ phase'[c] = phase[c]
          /\ round'[c] = round[c] /\ ~Long(c) /\ iter[c] < Len(rows)
      BY <2>1 DEF ShortRow
    <3> QED BY <1>0, <1>3, <1>4, <1>5, <3>1
  <2>2. CASE LongRow(c)
    <3>1. pc'[c] = "starting" /\ pc[c] = "row" /\ iter'[c] = iter[c] /\ phase'[c] = phase[c]
          /\ round'[c] = 0 /\ Long(c) /\ iter[c] < Len(rows) /\ Long(c)' = Long(c)
      BY <2>2, <1>0 DEF LongRow, Long, Row
    <3> QED BY <1>0, <1>3, <1>4, <1>5, <3>1
  <2>3. CASE iter' = iter /\ round' = round /\ phase' = phase /\ pc[c] # "row"
             /\ <<pc[c], pc'[c]>> \in {<<"clear", "count">>, <<"count", "counted">>,
                  <<"clearNext", "counted">>, <<"counted", "meeting">>,
                  <<"collect", "collected">>, <<"collected", "collecting">>, <<"equal", "equal">>}
    <3>1. Long(c)' = Long(c) BY <1>0, <2>3 DEF Long, Row
    <3>2. Offset(c)' = Offset(c) BY <1>0, <2>3
    <3>3. phase'[c] = Base(iter[c])' + Offset(c)'
      BY <1>0, <2>3, <3>2 DEF Base, LongBefore
    <3>4. /\ pc'[c] \in Positions
          /\ pc'[c] \in {"clear", "clearNext"} => c = 0
          /\ pc'[c] \in {"starting", "clear"} => round'[c] = 0
          /\ pc'[c] \in Counting => round'[c] < ROUNDS
          /\ pc'[c] \in Taking => round'[c] = ROUNDS
      BY <1>0, <2>3
    <3> QED BY <1>0, <2>3, <3>1, <3>3, <3>4
  <2>4. CASE Count(c) /\ c = 0
    <3>1. pc'[c] = "clearNext" /\ pc[c] = "count" /\ iter' = iter /\ phase' = phase
          /\ round' = round /\ Long(c)' = Long(c)
      BY <2>4, <1>0 DEF Count, Long, Row
    <3> QED BY <1>0, <1>3, <1>4, <1>5, <2>4, <3>1
  <2>5. CASE LeaveStart(c) \/ LeaveRound(c) \/ LeaveCollect(c)
    <3>1. phase'[c] = phase[c] + 1 /\ iter' = iter /\ round' = round /\ Long(c)' = Long(c)
          /\ \/ pc[c] = "starting" /\ pc'[c] = IF c = 0 THEN "clear" ELSE "count"
             \/ pc[c] = "meeting" /\ pc'[c] = "scan"
             \/ pc[c] = "collecting" /\ pc'[c] = "equal"
      BY <2>5, <1>0 DEF LeaveStart, LeaveRound, LeaveCollect, Leave, Long, Row
    <3> QED BY <1>0, <1>3, <1>4, <1>5, <3>1
  <2>6. CASE Scan(c)
    <3>1. phase' = phase /\ iter' = iter /\ round'[c] = round[c] + 1 /\ Long(c)' = Long(c)
          /\ pc[c] = "scan" /\ pc'[c] = IF round[c] + 1 = 4 THEN "collect" ELSE "count"
      BY <2>6, <1>0 DEF Scan, Long, Row
    <3> QED BY <1>0, <1>3, <1>4, <1>5, <3>1
  <2>7. CASE NextRow(c)
    <3>1. phase' = phase /\ iter'[c] = iter[c] + 1 /\ round' = round
          /\ pc[c] = "equal" /\ pc'[c] = "row"
      BY <2>7 DEF NextRow
    <3> QED BY <1>0, <1>3, <1>4, <1>5, <3>1
  <2> QED BY <2>1, <2>2, <2>3, <2>4, <2>5, <2>6, <2>7
    DEF Step, Clear, Count, ClearNext, Arrive, Collect, TakeEqual
<1> QED BY <1>1, <1>2, <1>7

-----------------------------------------------------------------------------
(* What a CTA must have found when it has finished some rounds of a row.      *)
Refined(row, turn, s) ==
  LET found == Threshold(Counts(row, DOMAIN row, turn, s.prefix), s.remaining)
  IN  [prefix    |-> s.prefix + found.digit * Span(turn + 1),
       remaining |-> found.remaining]

Found0(row) == [prefix |-> 0, remaining |-> TOPK]
Found1(row) == Refined(row, 0, Found0(row))
Found2(row) == Refined(row, 1, Found1(row))
Found3(row) == Refined(row, 2, Found2(row))
Found4(row) == Refined(row, 3, Found3(row))

\* The digits of the k-th largest key and the number of keys to take with them.
FoundIn(row, turn) == CASE turn = 0 -> Found0(row) [] turn = 1 -> Found1(row)
                        [] turn = 2 -> Found2(row) [] turn = 3 -> Found3(row)
                        [] turn = 4 -> Found4(row)

LEMMA FoundNext ==
  ASSUME NEW row, NEW turn \in 0 .. ROUNDS - 1
  PROVE  FoundIn(row, turn + 1) = Refined(row, turn, FoundIn(row, turn))
<1>1. turn \in {0, 1, 2, 3} BY DEF ROUNDS
<1>2. CASE turn = 0 BY <1>2 DEF FoundIn, Found1
<1>3. CASE turn = 1 BY <1>3 DEF FoundIn, Found2
<1>4. CASE turn = 2 BY <1>4 DEF FoundIn, Found3
<1>5. CASE turn = 3 BY <1>5 DEF FoundIn, Found4
<1> QED BY <1>1, <1>2, <1>3, <1>4, <1>5

Agreed(c) ==
  pc[c] # "row" => /\ prefix[c] = FoundIn(Row(c), round[c]).prefix
                   /\ remaining[c] = FoundIn(Row(c), round[c]).remaining

\* The counts of a CTA for the round that follows p barriers have been added.
Added(c, p) ==
  \/ phase[c] > p
  \/ phase[c] = p /\ pc[c] \in {"clearNext", "counted", "meeting"}

Contributed(k, p) == {i \in DOMAIN rows[k + 1] :
                        \E c \in Ctas : Added(c, p) /\ i \div CHUNK_SIZE = c}

\* The rounds of CTA 0's row whose slots are in use: the one it is in, the one
\* before, which others may still read, and the next one once it has cleared it.
Tracked(turn) ==
  /\ pc[0] \in Counting \cup (Taking \ {"equal"})
  /\ \/ turn \in {round[0] - 1, round[0]}
     \/ turn = round[0] + 1 /\ pc[0] \in {"counted", "meeting", "scan"}

\* CTA 0 clears the ring before any CTA adds to it.
ClearFirst ==
  pc[0] \in {"starting", "clear"} => \A c \in Ctas : ~Added(c, Base(iter[0]) + 1)

RingInv ==
  /\ hist \in [0 .. SLOTS - 1 -> [0 .. RADIX - 1 -> Nat]]
  /\ prefix = [c \in Ctas |-> prefix[c]]
  /\ remaining = [c \in Ctas |-> remaining[c]]
  /\ \A c \in Ctas : Agreed(c)
  /\ ClearFirst
  /\ \A turn \in 0 .. ROUNDS - 1 : Tracked(turn) =>
       hist[Slot(iter[0], turn)] =
         Counts(rows[iter[0] + 1], Contributed(iter[0], Base(iter[0]) + 1 + turn),
                turn, FoundIn(rows[iter[0] + 1], turn).prefix)

SelectInv == BarrierInv /\ PlaceInv /\ RingInv

-----------------------------------------------------------------------------
(* Counting over parts of a row.                                              *)
LEMMA CountsEmpty ==
  ASSUME NEW row, NEW turn, NEW digits
  PROVE  Counts(row, {}, turn, digits) = NoSlot
<1>1. Cardinality({}) = 0 BY FS_EmptySet
<1>2. \A d : {i \in {} : Prefix(row[i], turn) = digits /\ Digit(row[i], turn) = d} = {}
  OBVIOUS
<1> QED BY <1>1, <1>2 DEF Counts, NoSlot

LEMMA UnionSize ==
  \A X, Y : IsFiniteSet(X) /\ IsFiniteSet(Y) /\ X \cap Y = {} =>
    Cardinality(X \cup Y) = Cardinality(X) + Cardinality(Y)
<1> SUFFICES ASSUME NEW X, NEW Y, IsFiniteSet(X), IsFiniteSet(Y), X \cap Y = {}
             PROVE  Cardinality(X \cup Y) = Cardinality(X) + Cardinality(Y)
  OBVIOUS
<1>1. Cardinality(X) \in Nat /\ Cardinality(Y) \in Nat BY FS_CardinalityType
<1>2. Cardinality(X \cup Y) = Cardinality(X) + Cardinality(Y) - Cardinality(X \cap Y)
  BY FS_Union
<1>3. Cardinality(X \cap Y) = 0 BY FS_EmptySet
<1> QED BY <1>1, <1>2, <1>3

LEMMA CountsUnion ==
  ASSUME NEW row, NEW turn, NEW digits, NEW S, NEW T, IsFiniteSet(S), IsFiniteSet(T),
         S \cap T = {}
  PROVE  /\ Counts(row, S, turn, digits) \in [0 .. RADIX - 1 -> Nat]
         /\ Counts(row, S \cup T, turn, digits) \in [0 .. RADIX - 1 -> Nat]
         /\ \A d \in 0 .. RADIX - 1 :
              Counts(row, S \cup T, turn, digits)[d]
                = Counts(row, S, turn, digits)[d] + Counts(row, T, turn, digits)[d]
<1> DEFINE In(U, d) == {i \in U : Prefix(row[i], turn) = digits /\ Digit(row[i], turn) = d}
<1>1. ASSUME NEW d \in 0 .. RADIX - 1
      PROVE  /\ Cardinality(In(S, d)) \in Nat /\ Cardinality(In(S \cup T, d)) \in Nat
             /\ Cardinality(In(S \cup T, d)) = Cardinality(In(S, d)) + Cardinality(In(T, d))
  <2>1. IsFiniteSet(In(S, d)) /\ IsFiniteSet(In(T, d)) BY FS_Subset
  <2>2. In(S, d) \cap In(T, d) = {} /\ In(S \cup T, d) = In(S, d) \cup In(T, d) OBVIOUS
  <2>3. Cardinality(In(S, d) \cup In(T, d)) = Cardinality(In(S, d)) + Cardinality(In(T, d))
    BY <2>1, <2>2, UnionSize
  <2>4. Cardinality(In(S, d)) \in Nat /\ Cardinality(In(T, d)) \in Nat
    BY <2>1, FS_CardinalityType
  <2>5. Cardinality(In(S \cup T, d)) = Cardinality(In(S, d)) + Cardinality(In(T, d))
    BY <2>2, <2>3
  <2> HIDE DEF In
  <2> QED BY <2>4, <2>5
<1> QED BY <1>1 DEF Counts

LEMMA RowFinite ==
  ASSUME rows \in Batches, NEW k \in Nat, k < Len(rows)
  PROVE  IsFiniteSet(DOMAIN rows[k + 1])
<1>1. k + 1 \in 1 .. Len(rows) BY RowFacts
<1>2. PICK n \in 1 .. CTAS * CHUNK_SIZE : rows[k + 1] \in [0 .. n - 1 -> Keys]
  BY <1>1, RowFacts
<1>3. n - 1 \in Int /\ 0 \in Int BY Parameters
<1> QED BY <1>2, <1>3, FS_Interval

\* Division of a natural number smaller than a product.
LEMMA Quotient ==
  ASSUME NEW i \in Nat, NEW n \in Nat, NEW d \in Nat \ {0}, i < n * d
  PROVE  i \div d \in 0 .. n - 1
<1>0. \A b \in Nat, m \in Nat \ {0} :
        b % m \in 0 .. m - 1 /\ b \div m \in Nat /\ b = m * (b \div m) + (b % m)
  OBVIOUS
<1>1. i \div d \in Nat /\ i % d \in 0 .. d - 1 /\ i = d * (i \div d) + (i % d)
  BY <1>0
<1>2. PICK q \in Nat, m \in 0 .. d - 1 : q = i \div d /\ i = d * q + m BY <1>1
<1>3. ASSUME q >= n PROVE FALSE
  <2>1. d * n <= d * q BY <1>3
  <2>2. n * d = d * n OBVIOUS
  <2> QED BY <1>2, <2>1, <2>2
<1> QED BY <1>2, <1>3

\* The chunks of all CTAs are the whole row.
LEMMA ChunksCover ==
  ASSUME rows \in Batches, NEW k \in Nat, k < Len(rows), NEW i \in DOMAIN rows[k + 1]
  PROVE  i \in Nat /\ i \div CHUNK_SIZE \in Ctas
<1>1. k + 1 \in 1 .. Len(rows) BY RowFacts
<1>2. PICK n \in 1 .. CTAS * CHUNK_SIZE : rows[k + 1] \in [0 .. n - 1 -> Keys]
  BY <1>1, RowFacts
<1>3. i \in Nat /\ i < CTAS * CHUNK_SIZE BY <1>2, Parameters
<1> QED BY <1>3, Quotient, Parameters DEF Ctas

LEMMA RingInit == Init => RingInv
<1> SUFFICES ASSUME Init PROVE RingInv OBVIOUS
<1>1. 0 \in Ctas BY Parameters
<1> QED BY <1>1, Parameters
  DEF Init, RingInv, Agreed, ClearFirst, Tracked, NoSlot, Counting, Taking, SLOTS

-----------------------------------------------------------------------------
(* Where the other CTAs are.                                                  *)
LEMMA BaseOrder ==
  ASSUME NEW k \in Nat, NEW l \in Nat, k <= l
  PROVE  Base(k) <= Base(l)
<1>1. LongBefore(k) \subseteq LongBefore(l) BY DEF LongBefore
<1>2. Cardinality(LongBefore(k)) <= Cardinality(LongBefore(l))
  BY <1>1, LongBeforeFinite, FS_Subset
<1> QED BY <1>2, LongBeforeFinite DEF Base, ROUNDS

LEMMA PlaceFacts ==
  ASSUME PlaceInv, NEW c \in Ctas
  PROVE  /\ pc[c] \in Positions /\ iter[c] \in Nat /\ round[c] \in 0 .. 4
         /\ Base(iter[c]) \in Nat /\ phase[c] = Base(iter[c]) + Offset(c)
         /\ Offset(c) \in 0 .. 6
         /\ pc[c] # "row" => Cardinality(DOMAIN rows[iter[c] + 1]) > RADIX_THRESHOLD
<1> USE DEF PlaceInv, Typed, ROUNDS
<1>1. Placed(c) /\ iter[c] \in Nat OBVIOUS
<1>2. pc[c] \in Positions /\ round[c] \in 0 .. 4 /\ phase[c] = Base(iter[c]) + Offset(c)
  BY <1>1 DEF Placed
<1>3. Offset(c) \in 0 .. 6
  BY <1>1, <1>2 DEF Offset, Positions, Counting, Taking, Placed
<1> QED BY <1>1, <1>2, <1>3, LongBeforeFinite DEF Placed, Long, Row

\* What the offset says of the round.
LEMMA OffsetCases ==
  ASSUME PlaceInv, NEW c \in Ctas
  PROVE  /\ pc[c] \in {"row", "starting"} => Offset(c) = 0
         /\ pc[c] = "clear" => Offset(c) = 1 /\ c = 0
         /\ pc[c] \in Counting \ {"scan"} => Offset(c) = round[c] + 1 /\ round[c] \in 0 .. 3
         /\ pc[c] = "scan" => Offset(c) = round[c] + 2 /\ round[c] \in 0 .. 3
         /\ pc[c] \in Taking \ {"equal"} => Offset(c) = 5 /\ round[c] = 4
         /\ pc[c] = "equal" => Offset(c) = 6 /\ round[c] = 4
         /\ pc[c] = "clearNext" => c = 0
         /\ Reached(c) = IF pc[c] \in {"starting", "meeting", "collecting"}
                         THEN phase[c] + 1 ELSE phase[c]
<1>1. Placed(c) /\ round[c] \in Nat BY DEF PlaceInv, Typed
<1> QED BY <1>1 DEF Placed, Offset, Counting, Taking, ROUNDS, Reached, Waits

\* A CTA that has passed some but not all barriers of a long row is in that row.
LEMMA InRow ==
  ASSUME PlaceInv, NEW c \in Ctas, NEW d \in Ctas, pc[c] # "row",
         phase[d] \in Base(iter[c]) + 1 .. Base(iter[c]) + 5
  PROVE  /\ iter[d] = iter[c] /\ Offset(d) = phase[d] - Base(iter[c])
         /\ pc[d] \notin {"row", "starting", "equal"}
<1>1. /\ iter[c] \in Nat /\ Base(iter[c]) \in Nat
      /\ Cardinality(DOMAIN rows[iter[c] + 1]) > RADIX_THRESHOLD
  BY PlaceFacts
<1>2. /\ iter[d] \in Nat /\ Base(iter[d]) \in Nat /\ phase[d] = Base(iter[d]) + Offset(d)
      /\ Offset(d) \in 0 .. 6 /\ pc[d] \in Positions
      /\ pc[d] # "row" => Cardinality(DOMAIN rows[iter[d] + 1]) > RADIX_THRESHOLD
  BY PlaceFacts
<1>3. CASE iter[d] > iter[c]
  <2>1. Base(iter[c]) + 6 <= Base(iter[d]) BY <1>1, <1>2, <1>3, BaseApart DEF ROUNDS
  <2> QED BY <1>1, <1>2, <2>1
<1>4. CASE iter[d] < iter[c] /\ pc[d] = "row"
  <2>1. Offset(d) = 0 BY <1>4, OffsetCases
  <2>2. Base(iter[d]) <= Base(iter[c]) BY <1>1, <1>2, <1>4, BaseOrder
  <2> QED BY <1>1, <1>2, <2>1, <2>2
<1>5. CASE iter[d] < iter[c] /\ pc[d] # "row"
  <2>1. Base(iter[d]) + 6 <= Base(iter[c]) BY <1>1, <1>2, <1>5, BaseApart DEF ROUNDS
  <2> QED BY <1>1, <1>2, <2>1
<1>6. CASE iter[d] = iter[c]
  <2>1. Offset(d) \in 1 .. 5 /\ Offset(d) = phase[d] - Base(iter[c]) BY <1>1, <1>2, <1>6
  <2>2. pc[d] \notin {"row", "starting", "equal"}
    BY <2>1 DEF Offset, Counting, Taking, ROUNDS
  <2> QED BY <1>6, <2>1, <2>2
<1> QED BY <1>1, <1>2, <1>3, <1>4, <1>5, <1>6

\* When a CTA reads a slot all have added to it, and CTA 0 has not cleared it.
LEMMA ScanAfterAll ==
  ASSUME BarrierInv, PlaceInv, NEW c \in Ctas, pc[c] = "scan"
  PROVE  /\ \A e \in Ctas : Added(e, Base(iter[c]) + 1 + round[c])
         /\ iter[0] = iter[c] /\ Tracked(round[c]) /\ round[c] \in 0 .. ROUNDS - 1
<1> DEFINE B == Base(iter[c])
<1>1. /\ B \in Nat /\ round[c] \in 0 .. 3 /\ phase[c] = B + 2 + round[c] /\ iter[c] \in Nat
      /\ Reached(c) = phase[c]
  BY PlaceFacts, OffsetCases DEF Counting, Taking
<1>2. ASSUME NEW e \in Ctas
      PROVE  \/ phase[e] > B + 1 + round[c] /\ phase[e] <= B + 2 + round[c]
             \/ /\ phase[e] = B + 1 + round[c] /\ pc[e] = "meeting" /\ iter[e] = iter[c]
                /\ round[e] = round[c]
  <2>1. phase[e] <= B + 2 + round[c] /\ B + 2 + round[c] <= Reached(e) /\ phase[e] \in Nat
    BY <1>1, Together
  <2>2. CASE phase[e] # B + 1 + round[c]
    BY <1>1, <2>1, <2>2, OffsetCases
  <2>3. CASE phase[e] = B + 1 + round[c]
    <3>1. /\ iter[e] = iter[c] /\ Offset(e) = 1 + round[c]
          /\ pc[e] \notin {"row", "starting", "equal"}
      BY <1>1, <2>3, InRow
    <3>2. pc[e] \in {"meeting", "collecting"} BY <1>1, <2>1, <2>3, <3>1, OffsetCases
    <3>3. pc[e] = "meeting" /\ Offset(e) = round[e] + 1 /\ round[e] \in 0 .. 3
      BY <1>1, <3>1, <3>2, OffsetCases DEF Counting, Taking
    <3> QED BY <1>1, <2>3, <3>1, <3>3
  <2> QED BY <2>2, <2>3
<1>3. \A e \in Ctas : Added(e, B + 1 + round[c])
  BY <1>1, <1>2 DEF Added
<1>4. iter[0] = iter[c] /\ Tracked(round[c])
  <2>0. 0 \in Ctas BY Parameters
  <2>1. CASE phase[0] = B + 1 + round[c] /\ pc[0] = "meeting" /\ iter[0] = iter[c]
             /\ round[0] = round[c]
    BY <2>1 DEF Tracked, Counting
  <2>2. CASE phase[0] > B + 1 + round[c] /\ phase[0] <= B + 2 + round[c]
    <3>1. phase[0] = B + 2 + round[c] /\ phase[0] \in B + 1 .. B + 5
      BY <1>1, <2>0, <2>2, Together
    <3>2. /\ iter[0] = iter[c] /\ Offset(0) = round[c] + 2
          /\ pc[0] \notin {"row", "starting", "equal"} /\ pc[0] \in Positions
          /\ round[0] \in 0 .. 4
      BY <1>1, <2>0, <3>1, InRow, PlaceFacts
    <3>3. pc[0] # "clear" BY <1>1, <2>0, <3>2, OffsetCases
    <3>4. pc[0] \in Counting \cup Taking /\ round[c] \in {round[0] - 1, round[0]}
      BY <1>1, <2>0, <3>2, <3>3, OffsetCases DEF Positions, Counting, Taking
    <3> QED BY <3>2, <3>4 DEF Tracked
  <2> QED BY <1>2, <2>0, <2>1, <2>2
<1> QED BY <1>1, <1>3, <1>4 DEF ROUNDS

LEMMA ScanComplete ==
  ASSUME SelectInv, NEW c \in Ctas, pc[c] = "scan"
  PROVE  hist[Slot(iter[c], round[c])]
           = Counts(Row(c), DOMAIN Row(c), round[c], prefix[c])
<1> USE DEF SelectInv
<1>1. /\ \A e \in Ctas : Added(e, Base(iter[c]) + 1 + round[c])
      /\ iter[0] = iter[c] /\ Tracked(round[c]) /\ round[c] \in 0 .. ROUNDS - 1
  BY ScanAfterAll
<1>2. hist[Slot(iter[c], round[c])] =
        Counts(Row(c), Contributed(iter[c], Base(iter[c]) + 1 + round[c]), round[c],
               FoundIn(Row(c), round[c]).prefix)
  BY <1>1 DEF RingInv, Row
<1>3. prefix[c] = FoundIn(Row(c), round[c]).prefix BY DEF RingInv, Agreed
<1>4. rows \in Batches /\ iter[c] \in Nat /\ iter[c] < Len(rows)
  BY DEF PlaceInv, Typed, Placed
<1>5. \A i \in DOMAIN Row(c) : i \div CHUNK_SIZE \in Ctas
  BY <1>4, ChunksCover DEF Row
<1>6. Contributed(iter[c], Base(iter[c]) + 1 + round[c]) = DOMAIN Row(c)
  BY <1>1, <1>5 DEF Contributed, Row
<1> QED BY <1>2, <1>3, <1>6

-----------------------------------------------------------------------------
LEMMA SlotsDiffer ==
  ASSUME NEW k \in Nat, NEW t \in 0 .. 5, NEW u \in 0 .. 5
  PROVE  /\ Slot(k, t) \in 0 .. SLOTS - 1
         /\ t \in {u - 2, u - 1, u + 1, u + 2} => Slot(k, t) # Slot(k, u)
BY DEF Slot, SLOTS, ROUNDS

LEMMA BaseMatch ==
  ASSUME NEW k \in Nat, NEW l \in Nat, NEW a \in 0 .. 6, NEW b \in 1 .. 5,
         Base(k) + a = Base(l) + b
  PROVE  a = b
BY LongBeforeFinite DEF Base, ROUNDS

LEMMA StepFrame ==
  ASSUME PlaceInv, NEW c \in Ctas, Step(c)
  PROVE  /\ rows' = rows
         /\ \A d \in Ctas \ {c} : /\ pc'[d] = pc[d] /\ iter'[d] = iter[d]
                                  /\ round'[d] = round[d] /\ phase'[d] = phase[d]
                                  /\ prefix'[d] = prefix[d] /\ remaining'[d] = remaining[d]
         /\ hist' = hist \/ Clear(c) \/ Count(c) \/ ClearNext(c)
<1> DEFINE Mine ==
      /\ rows' = rows
      /\ \A d \in Ctas \ {c} : /\ pc'[d] = pc[d] /\ iter'[d] = iter[d]
                               /\ round'[d] = round[d] /\ phase'[d] = phase[d]
                               /\ prefix'[d] = prefix[d] /\ remaining'[d] = remaining[d]
      /\ hist' = hist \/ Clear(c) \/ Count(c) \/ ClearNext(c)
<1> USE DEF select, global
<1>1. ShortRow(c) => Mine BY DEF ShortRow, PlaceInv, Typed
<1>2. ASSUME LongRow(c) PROVE Mine
  <2>1. /\ iter' = iter /\ phase' = phase /\ round' = [round EXCEPT ![c] = 0]
        /\ pc' = [pc EXCEPT ![c] = "starting"] /\ rows' = rows /\ hist' = hist
        /\ prefix' = [prefix EXCEPT ![c] = 0] /\ remaining' = [remaining EXCEPT ![c] = TOPK]
    BY <1>2 DEF LongRow, Goto
  <2> QED BY <2>1
<1>3. LeaveStart(c) \/ LeaveRound(c) \/ LeaveCollect(c) => Mine
  <2>1. LeaveStart(c) => Mine BY DEF LeaveStart, Leave, Goto
  <2>2. LeaveRound(c) => Mine BY DEF LeaveRound, Leave, Goto
  <2>3. LeaveCollect(c) => Mine BY DEF LeaveCollect, Leave, Goto
  <2> QED BY <2>1, <2>2, <2>3
<1>4. Count(c) => Mine BY DEF Count, Goto
<1>5. Clear(c) \/ ClearNext(c) \/ Collect(c) \/ TakeEqual(c) => Mine
  <2>1. Clear(c) => Mine BY DEF Clear, Goto
  <2>2. ClearNext(c) => Mine BY DEF ClearNext, Goto
  <2>3. Collect(c) => Mine BY DEF Collect, Goto
  <2>4. TakeEqual(c) => Mine BY DEF TakeEqual
  <2> QED BY <2>1, <2>2, <2>3, <2>4
<1>6. Scan(c) => Mine BY DEF Scan, Goto
<1>7. NextRow(c) => Mine BY DEF NextRow, Goto
<1>8. ASSUME NEW x, NEW y, Arrive(c, x, y) PROVE Mine BY <1>8 DEF Arrive, Goto
<1> HIDE DEF Mine
<1>9. Mine BY <1>1, <1>2, <1>3, <1>4, <1>5, <1>6, <1>7, <1>8 DEF Step
<1> QED BY <1>9 DEF Mine

\* What a step does to the place of its CTA.
Moves(c) ==
  \/ /\ phase'[c] = phase[c]
     /\ \/ pc[c] = "row" /\ pc'[c] \in {"row", "starting"}
        \/ pc[c] = "scan" /\ pc'[c] \in {"count", "collect"}
        \/ pc[c] = "collect" /\ pc'[c] = "collected"
        \/ pc[c] = "collected" /\ pc'[c] = "collecting"
        \/ pc[c] = "equal" /\ pc'[c] \in {"equal", "row"}
        \/ pc[c] = "clearNext" /\ pc'[c] = "counted"
        \/ pc[c] = "counted" /\ pc'[c] = "meeting"
        \/ Clear(c) /\ pc[c] = "clear" /\ pc'[c] = "count"
        \/ Count(c) /\ pc[c] = "count" /\ pc'[c] = IF c = 0 THEN "clearNext" ELSE "counted"
  \/ /\ phase'[c] = phase[c] + 1
     /\ \/ pc[c] = "starting" /\ pc'[c] = IF c = 0 THEN "clear" ELSE "count"
        \/ pc[c] = "meeting" /\ pc'[c] = "scan"
        \/ pc[c] = "collecting" /\ pc'[c] = "equal"

LEMMA StepMoves ==
  ASSUME PlaceInv, NEW c \in Ctas, Step(c)
  PROVE  Moves(c)
<1> USE DEF select, global, PlaceInv, Typed, Moves
<1>1. ShortRow(c) => Moves(c) BY DEF ShortRow
<1>2. LongRow(c) => Moves(c) BY DEF LongRow, Goto
<1>3. LeaveStart(c) \/ LeaveRound(c) \/ LeaveCollect(c) => Moves(c)
  BY DEF LeaveStart, LeaveRound, LeaveCollect, Leave, Goto
<1>4. Count(c) => Moves(c)
  <2>1. Count(c) => /\ phase'[c] = phase[c] /\ pc[c] = "count"
                    /\ pc'[c] = IF c = 0 THEN "clearNext" ELSE "counted"
    BY DEF Count, Goto
  <2> QED BY <2>1
<1>5. Clear(c) => Moves(c)
  <2>1. Clear(c) => phase'[c] = phase[c] /\ pc[c] = "clear" /\ pc'[c] = "count"
    BY DEF Clear, Goto
  <2> QED BY <2>1
<1>6. ClearNext(c) \/ Collect(c) \/ TakeEqual(c) => Moves(c)
  BY DEF ClearNext, Collect, TakeEqual, Goto
<1>7. Scan(c) \/ NextRow(c) => Moves(c) BY DEF Scan, NextRow, Goto
<1>8. Arrive(c, "counted", "meeting") \/ Arrive(c, "collected", "collecting") => Moves(c)
  BY DEF Arrive, Goto
<1> QED BY <1>1, <1>2, <1>3, <1>4, <1>5, <1>6, <1>7, <1>8 DEF Step

\* Only Count adds, and only for the round of its CTA.
LEMMA AddedStep ==
  ASSUME PlaceInv, NEW c \in Ctas, Step(c), NEW k \in Nat, NEW turn \in 0 .. 3, NEW d \in Ctas,
         NEW p \in Nat, p = Base(k) + 1 + turn
  PROVE  Added(d, p)' <=> Added(d, p) \/ (d = c /\ Count(c) /\ phase[c] = p)
<1>1. CASE d # c
  <2>1. pc'[d] = pc[d] /\ phase'[d] = phase[d] BY <1>1, StepFrame
  <2> QED BY <1>1, <2>1 DEF Added
<1>2. CASE d = c
  <2>1. Moves(c) BY StepMoves
  <2>2. phase[c] \in Nat /\ phase[c] = Base(iter[c]) + Offset(c) /\ iter[c] \in Nat
    BY PlaceFacts DEF PlaceInv, Typed
  <2>3. pc[c] \in {"starting", "collecting"} => phase[c] # p
    <3>1. pc[c] \in {"starting", "collecting"} => Offset(c) \in {0, 5}
      BY OffsetCases DEF Taking
    <3>2. 1 + turn \in 1 .. 5 /\ 1 + turn # 0 /\ 1 + turn # 5 OBVIOUS
    <3>3. ASSUME Offset(c) \in {0, 5}, phase[c] = p PROVE FALSE
      <4>1. Base(iter[c]) + Offset(c) = Base(k) + (1 + turn) /\ Offset(c) \in 0 .. 6
        BY <2>2, <3>3, LongBeforeFinite
      <4> QED BY <2>2, <3>2, <3>3, <4>1, BaseMatch
    <3> QED BY <3>1, <3>3
  <2>4. Count(c) => pc[c] = "count" /\ pc'[c] \in {"clearNext", "counted"} /\ phase'[c] = phase[c]
    BY <2>1 DEF Count, Goto, Moves
  <2>5. Clear(c) => pc[c] = "clear" BY DEF Clear, Goto
  <2>6. CASE Count(c) BY <1>2, <2>2, <2>4, <2>6 DEF Added
  <2>7. CASE ~Count(c) /\ phase'[c] = phase[c]
    BY <1>2, <2>1, <2>2, <2>7 DEF Moves, Added
  <2>8. CASE ~Count(c) /\ phase'[c] = phase[c] + 1
    BY <1>2, <2>1, <2>2, <2>3, <2>8 DEF Moves, Added
  <2> QED BY <2>1, <2>6, <2>7, <2>8 DEF Moves
<1> QED BY <1>1, <1>2

-----------------------------------------------------------------------------
LEMMA AgreedStep ==
  ASSUME SelectInv, NEW c \in Ctas, Step(c), NEW d \in Ctas
  PROVE  Agreed(d)'
<1> USE DEF SelectInv, RingInv, select, global, Goto
<1>1. Agreed(d) /\ rows' = rows BY StepFrame
<1>2. CASE d # c
  <2>1. pc'[d] = pc[d] /\ iter'[d] = iter[d] /\ round'[d] = round[d]
        /\ prefix'[d] = prefix[d] /\ remaining'[d] = remaining[d]
    BY <1>2, StepFrame
  <2> QED BY <1>1, <2>1 DEF Agreed, Row
<1>3. ASSUME pc[c] # "row", iter' = iter, select' = select PROVE Agreed(c)'
  <2>1. Agreed(c) /\ Row(c)' = Row(c) BY <1>1, <1>3 DEF Row
  <2> QED BY <1>3, <2>1 DEF Agreed
<1>4. ASSUME ShortRow(c) \/ NextRow(c) PROVE Agreed(c)'
  <2>1. pc'[c] = "row" BY <1>4 DEF ShortRow, NextRow, PlaceInv, Typed
  <2> QED BY <2>1 DEF Agreed
<1>5. ASSUME LongRow(c) PROVE Agreed(c)'
  <2>1. prefix' = [prefix EXCEPT ![c] = 0] /\ remaining' = [remaining EXCEPT ![c] = TOPK]
        /\ round' = [round EXCEPT ![c] = 0]
    BY <1>5 DEF LongRow
  <2>2. prefix'[c] = 0 /\ remaining'[c] = TOPK /\ round'[c] = 0
    BY <2>1 DEF PlaceInv, Typed
  <2> QED BY <2>2 DEF Agreed, FoundIn, Found0
<1>6. ASSUME Scan(c) PROVE Agreed(c)'
  <2> DEFINE found == Threshold(hist[Slot(iter[c], round[c])], remaining[c])
  <2>1. /\ prefix' = [prefix EXCEPT ![c] = @ + found.digit * Span(round[c] + 1)]
        /\ remaining' = [remaining EXCEPT ![c] = found.remaining]
        /\ round' = [round EXCEPT ![c] = @ + 1]
        /\ iter' = iter /\ pc[c] = "scan"
    BY <1>6 DEF Scan
  <2>2. /\ prefix'[c] = prefix[c] + found.digit * Span(round[c] + 1)
        /\ remaining'[c] = found.remaining /\ round'[c] = round[c] + 1
        /\ Row(c)' = Row(c)
    BY <1>1, <2>1 DEF PlaceInv, Typed, Row
  <2>3. hist[Slot(iter[c], round[c])] = Counts(Row(c), DOMAIN Row(c), round[c], prefix[c])
    BY <2>1, ScanComplete
  <2>4. round[c] \in 0 .. ROUNDS - 1 BY <2>1, ScanAfterAll
  <2>5. prefix[c] = FoundIn(Row(c), round[c]).prefix
        /\ remaining[c] = FoundIn(Row(c), round[c]).remaining
    BY <2>1 DEF Agreed
  <2>6. FoundIn(Row(c), round[c] + 1) = Refined(Row(c), round[c], FoundIn(Row(c), round[c]))
    BY <2>4, FoundNext
  <2>7. Refined(Row(c), round[c], FoundIn(Row(c), round[c])) =
          [prefix |-> prefix[c] + found.digit * Span(round[c] + 1), remaining |-> found.remaining]
    BY <2>3, <2>5 DEF Refined
  <2> HIDE DEF found
  <2> QED BY <2>2, <2>6, <2>7 DEF Agreed
<1>7. ASSUME LeaveStart(c) \/ LeaveRound(c) \/ LeaveCollect(c) PROVE Agreed(c)'
  <2>1. pc[c] # "row" /\ iter' = iter /\ select' = select
    BY <1>7 DEF LeaveStart, LeaveRound, LeaveCollect, Leave
  <2> QED BY <1>3, <2>1
<1>8. ASSUME Clear(c) \/ Count(c) \/ ClearNext(c) PROVE Agreed(c)'
  <2>1. pc[c] # "row" /\ iter' = iter /\ select' = select
    BY <1>8 DEF Clear, Count, ClearNext
  <2> QED BY <1>3, <2>1
<1>9. ASSUME \/ Arrive(c, "counted", "meeting") \/ Arrive(c, "collected", "collecting")
             \/ Collect(c) \/ TakeEqual(c)
      PROVE Agreed(c)'
  <2>1. pc[c] # "row" /\ iter' = iter /\ select' = select
    BY <1>9 DEF Arrive, Collect, TakeEqual
  <2> QED BY <1>3, <2>1
<1> QED BY <1>2, <1>4, <1>5, <1>6, <1>7, <1>8, <1>9 DEF Step

LEMMA CountsType ==
  ASSUME NEW row, NEW turn, NEW digits, NEW S, IsFiniteSet(S)
  PROVE  Counts(row, S, turn, digits) \in [0 .. RADIX - 1 -> Nat]
<1>1. \A d : Cardinality({i \in S : Prefix(row[i], turn) = digits /\ Digit(row[i], turn) = d})
               \in Nat
  BY FS_Subset, FS_CardinalityType
<1> QED BY <1>1 DEF Counts

LEMMA RingTyped ==
  ASSUME SelectInv, NEW c \in Ctas, Step(c)
  PROVE  /\ hist' \in [0 .. SLOTS - 1 -> [0 .. RADIX - 1 -> Nat]]
         /\ prefix' = [d \in Ctas |-> prefix'[d]]
         /\ remaining' = [d \in Ctas |-> remaining'[d]]
<1> USE DEF SelectInv, RingInv, select, global
<1>1. /\ prefix' = [d \in Ctas |-> prefix'[d]] /\ remaining' = [d \in Ctas |-> remaining'[d]]
  <2> DEFINE P == /\ prefix' = [d \in Ctas |-> prefix'[d]]
                  /\ remaining' = [d \in Ctas |-> remaining'[d]]
  <2>1. ASSUME select' = select PROVE P BY <2>1
  <2>2. ShortRow(c) \/ LeaveStart(c) \/ Clear(c) => select' = select
    BY DEF ShortRow, LeaveStart, Clear
  <2>3. Count(c) \/ ClearNext(c) \/ LeaveRound(c) => select' = select
    BY DEF Count, ClearNext, LeaveRound
  <2>4. Collect(c) \/ LeaveCollect(c) \/ TakeEqual(c) \/ NextRow(c) => select' = select
    BY DEF Collect, LeaveCollect, TakeEqual, NextRow
  <2>5. LongRow(c) => P BY DEF LongRow
  <2>6. Scan(c) => P BY DEF Scan
  <2> HIDE DEF P
  <2> QED BY <2>1, <2>2, <2>3, <2>4, <2>5, <2>6 DEF Step, Arrive, P
<1>2. CASE hist' = hist BY <1>1, <1>2
<1>3. CASE Clear(c) BY <1>1, <1>3, Parameters DEF Clear, NoSlot, SLOTS
<1>4. CASE ClearNext(c) BY <1>1, <1>4, Parameters DEF ClearNext, NoSlot, SLOTS
<1>5. CASE Count(c)
  <2> DEFINE x == Slot(iter[c], round[c])
             n == Counts(Row(c), Chunk(c), round[c], prefix[c])
  <2>1. pc[c] = "count" BY <1>5 DEF Count, Goto
  <2>2. /\ rows \in Batches /\ iter[c] \in Nat /\ iter[c] < Len(rows)
    BY <2>1 DEF PlaceInv, Typed, Placed
  <2>3. IsFiniteSet(Chunk(c)) BY <2>2, RowFinite, FS_Subset DEF Chunk, Row
  <2>4. n \in [0 .. RADIX - 1 -> Nat] BY <2>3, CountsType
  <2>5. x \in 0 .. SLOTS - 1 BY <2>2, PlaceFacts, SlotsDiffer
  <2>6. hist' = [hist EXCEPT ![x] = [d \in DOMAIN @ |-> @[d] + n[d]]] BY <1>5 DEF Count
  <2> HIDE DEF x, n
  <2>7. hist[x] \in [0 .. RADIX - 1 -> Nat] BY <2>5
  <2>8. [d \in DOMAIN hist[x] |-> hist[x][d] + n[d]] \in [0 .. RADIX - 1 -> Nat]
    <3>1. \A f, g \in [0 .. RADIX - 1 -> Nat] :
            [d \in DOMAIN f |-> f[d] + g[d]] \in [0 .. RADIX - 1 -> Nat]
      OBVIOUS
    <3> QED BY <2>4, <2>7, <3>1
  <2> QED BY <1>1, <2>5, <2>6, <2>8
<1> QED BY <1>1, <1>2, <1>3, <1>4, <1>5, StepFrame

\* CTA 0, about to clear the ring, has not been overtaken.
LEMMA ClearFirstStep ==
  ASSUME PromptClear, SelectInv, NEW c \in Ctas, Step(c)
  PROVE  ClearFirst'
<1> USE DEF SelectInv
<1>0. 0 \in Ctas /\ rows' = rows /\ iter[0] \in Nat /\ iter[c] \in Nat
  BY Parameters, StepFrame, PlaceFacts
<1> SUFFICES ASSUME pc'[0] \in {"starting", "clear"}, NEW d \in Ctas
             PROVE  ~Added(d, Base(iter[0]) + 1)'
  BY DEF ClearFirst
<1>1. PICK p \in Nat : p = Base(iter[0]) + 1 BY <1>0, LongBeforeFinite
<1>2. p = Base(iter[0]) + 1 + 0 BY <1>0, <1>1, LongBeforeFinite
<1>3. /\ Added(d, p)' <=> Added(d, p) \/ (d = c /\ Count(c) /\ phase[c] = p)
  BY <1>0, <1>2, AddedStep
<1>4. iter'[0] = iter[0] /\ (pc[0] \in {"starting", "clear"} \/ pc[0] = "row")
  <2>1. CASE c # 0 BY <1>0, <2>1, StepFrame
  <2>2. CASE c = 0
    <3>1. Moves(0) BY <2>2, StepMoves
    <3>2. \/ pc[0] = "row" /\ pc'[0] = "starting"
          \/ pc[0] = "starting" /\ pc'[0] = "clear"
      BY <3>1 DEF Moves
    <3>3. ~ShortRow(0) /\ ~NextRow(0)
      BY <3>2 DEF ShortRow, NextRow, Goto, PlaceInv, Typed
    <3>4. iter' = iter
      <4>1. LongRow(0) \/ LeaveStart(0) => iter' = iter BY DEF LongRow, LeaveStart
      <4>2. ~(Clear(0) \/ Count(0) \/ ClearNext(0)) BY <3>2 DEF Clear, Count, ClearNext, Goto
      <4>3. ~(LeaveRound(0) \/ Scan(0) \/ Collect(0))
        BY <3>2 DEF LeaveRound, Leave, Scan, Collect, Goto
      <4>4. ~(LeaveCollect(0) \/ TakeEqual(0))
        BY <3>2 DEF LeaveCollect, Leave, TakeEqual, Goto
      <4>5. ~(Arrive(0, "counted", "meeting") \/ Arrive(0, "collected", "collecting"))
        BY <3>2 DEF Arrive, Goto
      <4> QED BY <2>2, <3>3, <4>1, <4>2, <4>3, <4>4, <4>5 DEF Step
    <3> QED BY <3>2, <3>4
  <2> QED BY <2>1, <2>2
<1>5. ~Added(d, p)
  <2>1. CASE pc[0] = "row"
    <3>1. phase[0] = Base(iter[0]) /\ Reached(0) = phase[0]
      BY <1>0, <2>1, PlaceFacts, OffsetCases
    <3>2. phase[d] \in Nat /\ phase[d] <= phase[0] BY <1>0, <3>1, Together
    <3>3. Base(iter[0]) \in Nat BY <1>0, LongBeforeFinite
    <3> QED BY <1>1, <3>1, <3>2, <3>3 DEF Added
  <2>2. CASE pc[0] \in {"starting", "clear"} BY <1>1, <2>2 DEF RingInv, ClearFirst
  <2> QED BY <1>4, <2>1, <2>2
<1>6. ASSUME Count(c), phase[c] = p PROVE FALSE
  <2>1. pc[c] = "count" /\ Cleared(c) BY <1>6 DEF Count, Goto
  <2>2. c # 0 /\ pc[0] = pc'[0]
    <3>1. c # 0 BY <1>4, <2>1
    <3> QED BY <1>0, <3>1, StepFrame
  <2>3. pc[0] \in {"starting", "clear"} /\ iter[0] # iter[c] BY <2>1, <2>2 DEF Cleared
  <2>4. iter[c] = iter[0]
    BY <1>0, <1>1, <1>6, <2>3, LongBeforeFinite, InRow
  <2> QED BY <2>3, <2>4
<1>7. ~Added(d, p)' BY <1>3, <1>5, <1>6
<1>8. (Base(iter[0]) + 1)' = p BY <1>0, <1>1, <1>4 DEF Base, LongBefore
<1> QED BY <1>7, <1>8 DEF Added

-----------------------------------------------------------------------------
\* A slot comes into use when CTA 0 has cleared it.
LEMMA TrackedStep ==
  ASSUME PlaceInv, NEW c \in Ctas, Step(c), NEW turn \in 0 .. 3, Tracked(turn)'
  PROVE  /\ iter'[0] = iter[0]
         /\ \/ Tracked(turn) /\ ~Clear(c) /\ ~(ClearNext(c) /\ turn = round[c] + 1)
            \/ c = 0 /\ Clear(0) /\ turn = 0
            \/ c = 0 /\ ClearNext(0) /\ turn = round[0] + 1
<1> USE DEF Goto, select, global
<1>0. 0 \in Ctas /\ Placed(c) /\ Placed(0) /\ round[c] \in Nat /\ round[0] \in Nat
  BY Parameters DEF PlaceInv, Typed
<1>1. CASE c # 0
  <2>1. pc'[0] = pc[0] /\ iter'[0] = iter[0] /\ round'[0] = round[0]
    BY <1>0, <1>1, StepFrame
  <2>2. ~Clear(c) /\ ~ClearNext(c) BY <1>0, <1>1 DEF Clear, ClearNext, Placed
  <2>3. Tracked(turn) BY <2>1 DEF Tracked
  <2> QED BY <2>1, <2>2, <2>3
<1>2. CASE c = 0
  <2>1. pc'[0] \in Counting \cup (Taking \ {"equal"})
        /\ \/ turn \in {round'[0] - 1, round'[0]}
           \/ turn = round'[0] + 1 /\ pc'[0] \in {"counted", "meeting", "scan"}
    BY DEF Tracked
  <2> USE DEF Counting, Taking, PlaceInv, Typed
  <2>2. CASE Clear(0)
    <3>1. iter' = iter /\ round' = round /\ pc'[0] = "count" /\ pc[0] = "clear"
      BY <1>0, <2>2 DEF Clear
    <3>2. round[0] = 0 BY <1>0, <3>1 DEF Placed
    <3> QED BY <1>2, <2>1, <2>2, <3>1, <3>2
  <2>3. CASE ClearNext(0)
    <3>1. iter' = iter /\ round' = round /\ pc'[0] = "counted" /\ pc[0] = "clearNext"
      BY <1>0, <2>3 DEF ClearNext
    <3>2. ~Clear(0) BY <3>1 DEF Clear
    <3>3. turn \in {round[0] - 1, round[0]} => Tracked(turn) BY <3>1 DEF Tracked
    <3> QED BY <1>0, <1>2, <2>1, <2>3, <3>1, <3>2, <3>3
  <2>4. CASE Scan(0)
    <3>1. /\ iter' = iter /\ round'[0] = round[0] + 1 /\ pc[0] = "scan"
          /\ pc'[0] \in {"count", "collect"}
      BY <1>0, <2>4 DEF Scan
    <3>2. ~Clear(0) /\ ~ClearNext(0) BY <3>1 DEF Clear, ClearNext
    <3>3. turn \in {round[0], round[0] + 1} BY <1>0, <2>1, <3>1
    <3> QED BY <1>2, <3>1, <3>2, <3>3 DEF Tracked
  <2>5. CASE \/ Count(0) \/ Arrive(0, "counted", "meeting") \/ LeaveRound(0)
             \/ Collect(0) \/ Arrive(0, "collected", "collecting")
    <3>1. /\ iter' = iter /\ round' = round
          /\ <<pc[0], pc'[0]>> \in {<<"count", "clearNext">>, <<"counted", "meeting">>,
               <<"meeting", "scan">>, <<"collect", "collected">>, <<"collected", "collecting">>}
      BY <1>0, <2>5 DEF Count, Arrive, LeaveRound, Leave, Collect
    <3>2. ~Clear(0) /\ ~ClearNext(0) BY <3>1 DEF Clear, ClearNext
    <3>3. Tracked(turn) BY <2>1, <3>1 DEF Tracked
    <3> QED BY <1>2, <3>1, <3>2, <3>3
  <2>6. CASE ShortRow(0) \/ LongRow(0) \/ LeaveStart(0) \/ LeaveCollect(0)
             \/ TakeEqual(0) \/ NextRow(0)
    <3>1. pc'[0] \in {"row", "starting", "clear", "equal"}
      <4>1. ShortRow(0) => pc'[0] = "row" BY DEF ShortRow
      <4>2. LongRow(0) => pc'[0] = "starting" BY <1>0 DEF LongRow
      <4>3. LeaveStart(0) => pc'[0] = "clear" BY <1>0 DEF LeaveStart, Leave
      <4>4. LeaveCollect(0) => pc'[0] = "equal" BY <1>0 DEF LeaveCollect, Leave
      <4>5. TakeEqual(0) => pc'[0] = "equal" BY <1>0 DEF TakeEqual
      <4>6. NextRow(0) => pc'[0] = "row" BY <1>0 DEF NextRow
      <4> QED BY <2>6, <4>1, <4>2, <4>3, <4>4, <4>5, <4>6
    <3> QED BY <2>1, <3>1
  <2> QED BY <1>2, <2>2, <2>3, <2>4, <2>5, <2>6 DEF Step
<1> QED BY <1>1, <1>2

\* A CTA that counts is in CTA 0's row, in its round or the next one.
LEMMA CountWhere ==
  ASSUME BarrierInv, PlaceInv, NEW c \in Ctas, pc[c] = "count", NEW turn \in 0 .. 3,
         Tracked(turn)
  PROVE  /\ iter[c] = iter[0] /\ phase[c] = Base(iter[0]) + 1 + round[c] /\ round[c] \in 0 .. 3
         /\ turn = round[c] \/ turn \in {round[c] - 2, round[c] - 1, round[c] + 1, round[c] + 2}
<1> DEFINE B == Base(iter[0])
<1>0. /\ 0 \in Ctas /\ iter[0] \in Nat /\ iter[c] \in Nat /\ B \in Nat /\ Base(iter[c]) \in Nat
      /\ phase[0] = B + Offset(0) /\ phase[c] = Base(iter[c]) + Offset(c)
  BY Parameters, PlaceFacts
<1>1. /\ Offset(c) = round[c] + 1 /\ round[c] \in 0 .. 3 /\ Reached(c) = phase[c]
  BY OffsetCases DEF Counting
<1>2. pc[0] \in Counting \cup (Taking \ {"equal"}) /\ turn \in {round[0] - 1, round[0], round[0] + 1}
  BY DEF Tracked
<1>3. /\ Offset(0) \in 1 .. 5 /\ Reached(0) \in {phase[0], phase[0] + 1}
      /\ pc[0] # "row"
  BY <1>0, <1>2, OffsetCases DEF Counting, Taking
<1>4. phase[0] <= phase[c] /\ phase[c] <= Reached(0) BY <1>0, <1>1, Together
<1>5. phase[c] # B + 6
  <2> SUFFICES ASSUME phase[c] = B + 6 PROVE FALSE OBVIOUS
  <2>1. B + 6 = Base(iter[c]) + (round[c] + 1) BY <1>0, <1>1
  <2>2. 6 = round[c] + 1 BY <1>0, <1>1, <2>1, BaseMatch
  <2> QED BY <1>1, <2>2
<1>6. phase[c] \in B + 1 .. B + 5 BY <1>0, <1>1, <1>3, <1>4, <1>5
<1>7. iter[c] = iter[0] /\ Offset(c) = phase[c] - B BY <1>0, <1>3, <1>6, InRow
<1>8. round[0] \in 0 .. 4 BY <1>0, PlaceFacts
<1>9. round[c] \in {round[0], round[0] + 1}
  <2>1. CASE pc[0] \in Counting \ {"scan"}
    <3>1. Offset(0) = round[0] + 1 BY <1>0, <2>1, OffsetCases
    <3> QED BY <1>0, <1>1, <1>3, <1>4, <1>7, <1>8, <3>1
  <2>2. CASE pc[0] = "scan"
    <3>1. Offset(0) = round[0] + 2 /\ Reached(0) = phase[0] BY <1>0, <2>2, OffsetCases
    <3> QED BY <1>0, <1>1, <1>4, <1>7, <1>8, <3>1
  <2>3. CASE pc[0] \in Taking \ {"equal"}
    <3>1. Offset(0) = 5 BY <1>0, <2>3, OffsetCases
    <3> QED BY <1>0, <1>1, <1>4, <1>7, <3>1
  <2> QED BY <1>2, <2>1, <2>2, <2>3
<1> QED BY <1>0, <1>1, <1>2, <1>7, <1>8, <1>9

LEMMA SlotsStep ==
  ASSUME SelectInv, NEW c \in Ctas, Step(c), NEW turn \in 0 .. 3, Tracked(turn)'
  PROVE  (hist[Slot(iter[0], turn)] =
           Counts(rows[iter[0] + 1], Contributed(iter[0], Base(iter[0]) + 1 + turn),
                  turn, FoundIn(rows[iter[0] + 1], turn).prefix))'
<1> USE DEF SelectInv
<1>0. /\ 0 \in Ctas /\ rows' = rows /\ iter[0] \in Nat /\ iter'[0] = iter[0] /\ iter[c] \in Nat
      /\ round[0] \in 0 .. 4
  BY Parameters, StepFrame, PlaceFacts, TrackedStep
<1>1. PICK k \in Nat : k = iter[0] BY <1>0
<1>2. PICK p \in Nat : p = Base(k) + 1 + turn BY LongBeforeFinite
<1> DEFINE row == rows[k + 1]
           digits == FoundIn(row, turn).prefix
           x == Slot(k, turn)
<1>3. (Base(iter[0]) + 1 + turn)' = p BY <1>0, <1>1, <1>2 DEF Base, LongBefore
<1>c. (Contributed(iter[0], Base(iter[0]) + 1 + turn))' = Contributed(k, p)'
  BY <1>0, <1>1, <1>3 DEF Contributed, Added
<1> SUFFICES hist'[x] = Counts(row, Contributed(k, p)', turn, digits)
  BY <1>0, <1>1, <1>c
<1>4. ASSUME NEW d \in Ctas
      PROVE  Added(d, p)' <=> Added(d, p) \/ (d = c /\ Count(c) /\ phase[c] = p)
  BY <1>2, AddedStep
<1>5. Contributed(k, p)' = {i \in DOMAIN row : \E d \in Ctas : Added(d, p)' /\ i \div CHUNK_SIZE = d}
  BY <1>0 DEF Contributed
<1>6. Tracked(turn) => hist[x] = Counts(row, Contributed(k, p), turn, digits)
  BY <1>1, <1>2 DEF RingInv, ROUNDS
<1>7. ASSUME ~Count(c) \/ phase[c] # p PROVE Contributed(k, p)' = Contributed(k, p)
  BY <1>4, <1>5, <1>7 DEF Contributed
<1>8. x \in 0 .. SLOTS - 1 /\ hist \in [0 .. SLOTS - 1 -> [0 .. RADIX - 1 -> Nat]]
  BY SlotsDiffer DEF RingInv
<1> HIDE DEF x, row, digits
<1>9. CASE c = 0 /\ Clear(0) /\ turn = 0
  <2>1. hist'[x] = NoSlot /\ pc[0] = "clear" BY <1>8, <1>9 DEF Clear, Goto
  <2>2. \A d \in Ctas : ~Added(d, p)
    <3>1. p = Base(iter[0]) + 1 BY <1>1, <1>2, <1>9, LongBeforeFinite
    <3> QED BY <2>1, <3>1 DEF RingInv, ClearFirst
  <2>3. ~Count(c) BY <1>9, <2>1 DEF Count, Goto
  <2>4. Contributed(k, p)' = {} BY <1>7, <2>2, <2>3 DEF Contributed
  <2> QED BY <2>1, <2>4, CountsEmpty
<1>10. CASE c = 0 /\ ClearNext(0) /\ turn = round[0] + 1
  <2>1. /\ pc[0] = "clearNext" /\ hist' = [hist EXCEPT ![Slot(iter[0], round[0] + 1)] = NoSlot]
    BY <1>10 DEF ClearNext, Goto
  <2>2. hist'[x] = NoSlot BY <1>1, <1>8, <1>10, <2>1 DEF x
  <2>3. phase[0] = Base(k) + round[0] + 1 /\ Reached(0) = phase[0] /\ Base(k) \in Nat
    BY <1>0, <1>1, <2>1, PlaceFacts, OffsetCases DEF Counting
  <2>4. \A d \in Ctas : ~Added(d, p)
    <3> TAKE d \in Ctas
    <3>1. phase[d] \in Nat /\ phase[d] <= phase[0] BY <1>0, <2>3, Together
    <3> QED BY <1>0, <1>2, <1>10, <2>3, <3>1 DEF Added
  <2>5. ~Count(c) BY <1>10, <2>1 DEF Count, Goto
  <2>6. Contributed(k, p)' = {} BY <1>7, <2>4, <2>5 DEF Contributed
  <2> QED BY <2>2, <2>6, CountsEmpty
<1>11. CASE Tracked(turn) /\ ~Clear(c) /\ ~(ClearNext(c) /\ turn = round[c] + 1)
  <2>1. CASE hist' = hist /\ ~Count(c) BY <1>6, <1>7, <1>11, <2>1
  <2>2. CASE ClearNext(c)
    <3>1. /\ pc[c] = "clearNext" /\ c = 0
          /\ hist' = [hist EXCEPT ![Slot(iter[c], round[c] + 1)] = NoSlot]
      BY <2>2, OffsetCases DEF ClearNext, Goto
    <3>2. turn \in {round[0] - 1, round[0]} BY <1>11, <2>2, <3>1 DEF Tracked
    <3>3. x # Slot(k, round[0] + 1)
      <4>1. PICK u \in 0 .. 5 : u = round[0] + 1 BY <1>0
      <4>2. turn \in 0 .. 5 /\ turn \in {u - 2, u - 1} BY <1>0, <3>2, <4>1
      <4>3. Slot(k, turn) # Slot(k, u) BY <4>2, SlotsDiffer
      <4> QED BY <4>1, <4>3 DEF x
    <3>4. hist'[x] = hist[x] BY <1>1, <1>8, <3>1, <3>3
    <3>5. ~Count(c) BY <3>1 DEF Count, Goto
    <3> QED BY <1>6, <1>7, <1>11, <3>4, <3>5
  <2>3. CASE Count(c)
    <3> DEFINE y == Slot(iter[c], round[c])
               n == Counts(Row(c), Chunk(c), round[c], prefix[c])
    <3>1. pc[c] = "count" /\ hist' = [hist EXCEPT ![y] = [d \in DOMAIN @ |-> @[d] + n[d]]]
      BY <2>3 DEF Count, Goto
    <3>2. /\ iter[c] = k /\ phase[c] = Base(k) + 1 + round[c] /\ round[c] \in 0 .. 3
          /\ turn = round[c] \/ turn \in {round[c] - 2, round[c] - 1, round[c] + 1, round[c] + 2}
      BY <1>1, <1>11, <3>1, CountWhere
    <3>3. CASE turn # round[c]
      <4>1. x # y BY <3>2, <3>3, SlotsDiffer DEF x
      <4>2. hist'[x] = hist[x] BY <1>8, <3>1, <4>1
      <4>3. phase[c] # p BY <1>2, <3>2, <3>3, LongBeforeFinite
      <4> QED BY <1>6, <1>7, <1>11, <4>2, <4>3
    <3>4. CASE turn = round[c]
      <4>1. x = y /\ phase[c] = p BY <1>2, <3>2, <3>4 DEF x
      <4>2. prefix[c] = digits /\ Row(c) = row
        BY <3>1, <3>2, <3>4 DEF RingInv, Agreed, Row, row, digits
      <4>3. Chunk(c) = {i \in DOMAIN row : i \div CHUNK_SIZE = c} BY <4>2 DEF Chunk
      <4>4. Contributed(k, p)' = Contributed(k, p) \cup Chunk(c)
        BY <1>4, <1>5, <2>3, <4>1, <4>3 DEF Contributed, row
      <4>5. ~Added(c, p) BY <3>1, <4>1 DEF Added
      <4>6. Contributed(k, p) \cap Chunk(c) = {} BY <4>3, <4>5 DEF Contributed
      <4>7. rows \in Batches /\ k < Len(rows)
        BY <3>1, <3>2 DEF PlaceInv, Typed, Placed
      <4>8. IsFiniteSet(Contributed(k, p)) /\ IsFiniteSet(Chunk(c))
        BY <4>3, <4>7, RowFinite, FS_Subset DEF Contributed, row
      <4>9. PICK S, T : S = Contributed(k, p) /\ T = Chunk(c) OBVIOUS
      <4>10. S \cap T = {} /\ IsFiniteSet(S) /\ IsFiniteSet(T) BY <4>6, <4>8, <4>9
      <4>11. /\ Counts(row, S \cup T, turn, digits) \in [0 .. RADIX - 1 -> Nat]
             /\ \A d \in 0 .. RADIX - 1 :
                  Counts(row, S \cup T, turn, digits)[d]
                    = Counts(row, S, turn, digits)[d] + Counts(row, T, turn, digits)[d]
        <5>1. Counts(row, S \cup T, turn, digits) \in [0 .. RADIX - 1 -> Nat]
          BY <4>10, CountsUnion
        <5>2. \A d \in 0 .. RADIX - 1 :
                Counts(row, S \cup T, turn, digits)[d]
                  = Counts(row, S, turn, digits)[d] + Counts(row, T, turn, digits)[d]
          BY <4>10, CountsUnion
        <5> QED BY <5>1, <5>2
      <4>12. n = Counts(row, T, turn, digits) BY <3>4, <4>2, <4>9
      <4>13. hist[x] = Counts(row, S, turn, digits) BY <1>6, <1>11, <4>9
      <4> HIDE DEF n, y
      <4>14. hist'[x] = [d \in 0 .. RADIX - 1 |-> hist[x][d] + n[d]]
        <5>1. DOMAIN hist[x] = 0 .. RADIX - 1 BY <1>8
        <5> QED BY <1>8, <3>1, <4>1, <5>1
      <4>15. hist'[x] = Counts(row, S \cup T, turn, digits)
        BY <4>11, <4>12, <4>13, <4>14
      <4> QED BY <4>4, <4>9, <4>15
    <3> QED BY <3>3, <3>4
  <2> QED BY <1>11, <2>1, <2>2, <2>3, StepFrame
<1> QED BY <1>9, <1>10, <1>11, TrackedStep

-----------------------------------------------------------------------------
LEMMA SelectInit == Init => SelectInv
BY InitInv, PlaceInit, RingInit DEF SelectInv

LEMMA SelectStep ==
  ASSUME PromptClear, SelectInv, [Next]_vars
  PROVE  SelectInv'
<1>1. CASE UNCHANGED vars
  <2> USE <1>1 DEF vars, global, select
  <2>1. BarrierInv' BY StepInv DEF SelectInv
  <2>2. PlaceInv'
    BY DEF SelectInv, PlaceInv, Typed, Placed, Base, LongBefore, Offset, Long, Row
  <2>3. RingInv'
    <3>1. RingInv BY DEF SelectInv
    <3>2. \A c, p : Added(c, p)' <=> Added(c, p) BY DEF Added
    <3>3. /\ \A k, p : Contributed(k, p)' = Contributed(k, p)
          /\ \A k : Base(k)' = Base(k)
          /\ \A t : Tracked(t)' <=> Tracked(t)
      BY DEF Added, Contributed, Base, LongBefore, Tracked
    <3>4. ClearFirst' BY <3>1 DEF RingInv, ClearFirst, Added, Base, LongBefore
    <3>5. \A c \in Ctas : Agreed(c)' BY <3>1 DEF RingInv, Agreed, Row
    <3>6. ASSUME NEW t \in 0 .. ROUNDS - 1, Tracked(t)'
          PROVE  (hist[Slot(iter[0], t)] =
                   Counts(rows[iter[0] + 1], Contributed(iter[0], Base(iter[0]) + 1 + t),
                          t, FoundIn(rows[iter[0] + 1], t).prefix))'
      <4>1. Tracked(t) BY <3>3, <3>6
      <4>2. (Contributed(iter[0], Base(iter[0]) + 1 + t))'
              = Contributed(iter[0], Base(iter[0]) + 1 + t)
        BY DEF Contributed, Added, Base, LongBefore
      <4> QED BY <3>1, <4>1, <4>2 DEF RingInv
    <3> QED BY <3>1, <3>4, <3>5, <3>6 DEF RingInv
  <2> QED BY <2>1, <2>2, <2>3 DEF SelectInv
<1>2. ASSUME NEW c \in Ctas, Step(c) PROVE SelectInv'
  <2>1. BarrierInv' BY <1>2, StepInv DEF SelectInv, Next
  <2>2. PlaceInv' BY <1>2, PlaceStep DEF SelectInv
  <2>3. RingInv'
    BY <1>2, RingTyped, AgreedStep, ClearFirstStep, SlotsStep DEF RingInv, ROUNDS
  <2> QED BY <2>1, <2>2, <2>3 DEF SelectInv
<1> QED BY <1>1, <1>2 DEF Next, Done

\* If CTA 0 clears the ring before anybody adds to it, a CTA that reads the histogram
\* of a round finds every key of the row that is still in the race once, for any
\* batch, group and interleaving: slots are reused two rounds later, when the barriers
\* between have let every reader go on.
THEOREM CountsAreComplete == ASSUME PromptClear PROVE Spec => []CountsComplete
<1>1. Init => SelectInv BY SelectInit
<1>2. SelectInv /\ [Next]_vars => SelectInv' BY SelectStep
<1>3. SelectInv => CountsComplete
  BY ScanComplete DEF CountsComplete
<1> QED BY <1>1, <1>2, <1>3, PTL DEF Spec

-----------------------------------------------------------------------------
(***************************************************************************)
(* TopKExact and TypeOK: what the digits found so far say of the keys.      *)
(***************************************************************************)
LEMMA Spans ==
  /\ \A turn \in 0 .. ROUNDS : Span(turn) \in Nat \ {0}
  /\ \A turn \in 0 .. ROUNDS - 1 : Span(turn) = RADIX * Span(turn + 1)
  /\ Span(ROUNDS) = 1
<1>1. PICK R \in Nat \ {0} : R = RADIX BY Parameters
<1>2. /\ R * R \in Nat \ {0} /\ R * R * R \in Nat \ {0} /\ R * R * R * R \in Nat \ {0}
  OBVIOUS
<1>3. /\ Span(0) = R * R * R * R /\ Span(1) = R * R * R /\ Span(2) = R * R
      /\ Span(3) = R /\ Span(4) = 1
  BY <1>1 DEF Span
<1>4. /\ R * R * R * R = R * (R * R * R) /\ R * R * R = R * (R * R) /\ R = R * 1
  OBVIOUS
<1>5. \A turn \in 0 .. 4 : turn \in {0, 1, 2, 3, 4} OBVIOUS
<1>6. \A turn \in 0 .. 3 : turn \in {0, 1, 2, 3} OBVIOUS
<1>7. 0 + 1 = 1 /\ 1 + 1 = 2 /\ 2 + 1 = 3 /\ 3 + 1 = 4 OBVIOUS
<1> QED BY <1>1, <1>2, <1>3, <1>4, <1>5, <1>6, <1>7 DEF ROUNDS

LEMMA Division ==
  \A b \in Nat, m \in Nat \ {0} :
    b % m \in 0 .. m - 1 /\ b \div m \in Nat /\ b = m * (b \div m) + (b % m)
OBVIOUS

\* A key's prefix before a round is a multiple of the span, and the digit of the
\* round adds its place value to it.
LEMMA PrefixNext ==
  ASSUME NEW key \in Nat, NEW turn \in 0 .. ROUNDS - 1
  PROVE  LET q == key \div (RADIX * Span(turn + 1))
         IN  /\ q \in Nat /\ Digit(key, turn) \in 0 .. RADIX - 1
             /\ Prefix(key, turn) = q * (RADIX * Span(turn + 1))
             /\ Prefix(key, turn + 1) = Prefix(key, turn) + Digit(key, turn) * Span(turn + 1)
<1>1. PICK R \in Nat \ {0} : R = RADIX BY Parameters
<1>2. turn + 1 \in 0 .. ROUNDS /\ turn \in 0 .. ROUNDS BY DEF ROUNDS
<1>3. PICK s \in Nat \ {0} : s = Span(turn + 1) BY <1>2, Spans
<1>4. R * s \in Nat \ {0} /\ Span(turn) = R * s BY <1>1, <1>3, Spans
<1>5. PICK h \in Nat : h = key \div s /\ key = s * h + (key % s) /\ key % s \in 0 .. s - 1
  BY <1>3, Division
<1>6. PICK q \in Nat : q = h \div R /\ h = R * q + (h % R) /\ h % R \in 0 .. R - 1
  BY <1>1, Division
<1>7. key \div (R * s) = q
  <2>1. \A a \in Nat, b \in Nat \ {0}, c \in Nat \ {0} : (a \div b) \div c = a \div (b * c) OBVIOUS
  <2>2. R * s = s * R OBVIOUS
  <2>3. (key \div s) \div R = key \div (s * R) BY <2>1
  <2> QED BY <1>5, <1>6, <2>2, <2>3
<1>8. Digit(key, turn) = h % R BY <1>1, <1>3, <1>5 DEF Digit
<1>9. key = (R * s) * q + (key % (R * s)) /\ key % (R * s) \in Nat
  <2>1. PICK m \in Nat \ {0} : m = R * s BY <1>4
  <2>2. PICK h2 \in Nat : h2 = key \div m /\ key = m * h2 + (key % m) /\ key % m \in 0 .. m - 1
    BY <2>1, Division
  <2> QED BY <1>7, <2>1, <2>2
<1>10. Prefix(key, turn) = q * (R * s)
  <2>1. (R * s) * q = q * (R * s) /\ (R * s) * q \in Nat OBVIOUS
  <2> QED BY <1>4, <1>9, <2>1 DEF Prefix
<1>11. Prefix(key, turn + 1) = s * h
  <2>1. s * h \in Nat OBVIOUS
  <2> QED BY <1>3, <1>5, <2>1 DEF Prefix
<1>12. s * h = q * (R * s) + (h % R) * s
  <2>1. PICK d \in Nat : d = h % R /\ h = R * q + d BY <1>6
  <2>2. s * h = s * (R * q) + s * d BY <2>1
  <2>3. s * (R * q) = q * (R * s) /\ s * d = d * s OBVIOUS
  <2> QED BY <2>1, <2>2, <2>3
<1> QED BY <1>1, <1>3, <1>6, <1>7, <1>8, <1>10, <1>11, <1>12

\* Comparing prefixes with one digit more.
LEMMA Multiples ==
  ASSUME NEW s \in Nat, NEW m \in Nat, NEW n \in Nat, m > n
  PROVE  n * s + s <= m * s /\ n * s \in Nat /\ m * s \in Nat
<1>1. (n + 1) * s <= m * s /\ (n + 1) * s = n * s + s OBVIOUS
<1> QED BY <1>1

LEMMA PrefixOrder ==
  ASSUME NEW R \in Nat \ {0}, NEW s \in Nat \ {0}, NEW q \in Nat, NEW u \in Nat,
         NEW d \in 0 .. R - 1, NEW g \in 0 .. R - 1
  PROVE  /\ q * (R * s) + d * s > u * (R * s) + g * s
              <=> q * (R * s) > u * (R * s) \/ (q * (R * s) = u * (R * s) /\ d > g)
         /\ q * (R * s) + d * s = u * (R * s) + g * s
              <=> q * (R * s) = u * (R * s) /\ d = g
<1>1. PICK w \in Nat \ {0} : w = R * s
  <2>1. R * s \in Nat \ {0} OBVIOUS
  <2> QED BY <2>1
<1>2. PICK a \in Nat, b \in Nat, x \in Nat, y \in Nat :
        a = q * w /\ b = u * w /\ x = d * s /\ y = g * s
  <2>1. q * w \in Nat /\ u * w \in Nat /\ d * s \in Nat /\ g * s \in Nat OBVIOUS
  <2> QED BY <2>1
<1>3. x < w /\ y < w
  <2>1. R > d /\ R > g OBVIOUS
  <2>2. d * s + s <= R * s /\ g * s + s <= R * s BY <2>1, Multiples
  <2> QED BY <1>1, <1>2, <2>2
<1>4. (q > u => b + w <= a) /\ (q < u => a + w <= b) /\ (q = u => a = b)
  BY <1>2, Multiples
<1>5. (d > g => y + s <= x) /\ (d < g => x + s <= y) /\ (d = g => x = y)
  BY <1>2, Multiples
<1>6. /\ a + x > b + y <=> a > b \/ (a = b /\ d > g)
      /\ a + x = b + y <=> a = b /\ d = g
  BY <1>3, <1>4, <1>5
<1> QED BY <1>1, <1>2, <1>6

-----------------------------------------------------------------------------
(* Sums of sizes and the order of the elements of a set.                      *)
LEMMA NatMinimum ==
  ASSUME NEW T, T \subseteq Nat, T # {}
  PROVE  \E x \in T : \A y \in T : x <= y
<1>1. \E x \in T : \A y \in T : ~ (<<y, x>> \in OpToRel(<, Nat))
  BY NatLessThanWellFounded, WFMin
<1>2. \A x, y \in Nat : <<y, x>> \in OpToRel(<, Nat) <=> y < x
  BY DEF OpToRel
<1>3. \E x \in T : \A y \in T : ~ (y < x)
  BY <1>1, <1>2, Zenon
<1> QED BY <1>3

\* The sets A[x], side by side.
Stacked(A, S) == UNION {{x} \X A[x] : x \in S}

LEMMA StackedTwo ==
  ASSUME NEW A
  PROVE  /\ Stacked(A, {}) = {}
         /\ \A S : \A x : x \notin S /\ IsFiniteSet(Stacked(A, S)) /\ IsFiniteSet(A[x])
              => /\ IsFiniteSet(Stacked(A, S \cup {x}))
                 /\ Cardinality(Stacked(A, S \cup {x})) =
                      Cardinality(Stacked(A, S)) + Cardinality(A[x])
<1>1. Stacked(A, {}) = {} BY DEF Stacked
<1>2. ASSUME NEW S, NEW x, x \notin S, IsFiniteSet(Stacked(A, S)), IsFiniteSet(A[x])
      PROVE  /\ IsFiniteSet(Stacked(A, S \cup {x}))
             /\ Cardinality(Stacked(A, S \cup {x})) =
                  Cardinality(Stacked(A, S)) + Cardinality(A[x])
  <2> DEFINE R == {x} \X A[x]
             b == [k \in A[x] |-> <<x, k>>]
  <2>1. Stacked(A, S \cup {x}) = Stacked(A, S) \cup R
    BY DEF Stacked
  <2>2. Stacked(A, S) \cap R = {}
    BY <1>2 DEF Stacked
  <2>3. IsFiniteSet(R) /\ Cardinality(R) = Cardinality(A[x])
    <3>1. b \in [A[x] -> R] OBVIOUS
    <3>2. \A k, l \in A[x] : b[k] = b[l] => k = l OBVIOUS
    <3>3. \A t \in R : \E k \in A[x] : b[k] = t OBVIOUS
    <3>4. b \in Bijection(A[x], R)
      BY <3>1, <3>2, <3>3 DEF Bijection, Injection, IsInjective, Surjection
    <3>5. ExistsBijection(A[x], R) BY <3>4 DEF ExistsBijection
    <3> QED BY <1>2, <3>5, FS_Bijection
  <2> HIDE DEF R
  <2>4. /\ IsFiniteSet(Stacked(A, S) \cup R)
        /\ Cardinality(Stacked(A, S) \cup R) =
             Cardinality(Stacked(A, S)) + Cardinality(R) - Cardinality(Stacked(A, S) \cap R)
    BY <1>2, <2>3, FS_Union
  <2>5. Cardinality(Stacked(A, S)) \in Nat /\ Cardinality(A[x]) \in Nat
    BY <1>2, FS_CardinalityType
  <2>6. Cardinality(Stacked(A, S) \cap R) = 0 BY <2>2, FS_EmptySet
  <2>7. IsFiniteSet(Stacked(A, S \cup {x})) BY <2>1, <2>4
  <2>8. PICK m, n, k : /\ m = Cardinality(Stacked(A, S)) /\ n = Cardinality(A[x])
                       /\ k = Cardinality(Stacked(A, S \cup {x}))
    OBVIOUS
  <2>9. k = m + n - 0 BY <2>1, <2>3, <2>4, <2>6, <2>8
  <2>10. k = m + n BY <2>5, <2>8, <2>9
  <2> QED BY <2>7, <2>8, <2>10
<1> QED BY <1>1, <1>2

LEMMA SumOfSizes ==
  ASSUME NEW S, IsFiniteSet(S), NEW A, NEW f,
         \A x \in S : IsFiniteSet(A[x]) /\ f[x] = Cardinality(A[x])
  PROVE  /\ IsFiniteSet(Stacked(A, S))
         /\ SumFunctionOnSet(f, S) = Cardinality(Stacked(A, S))
<1> DEFINE C(s) == CHOOSE x \in s : TRUE
<1> DEFINE Fold(g) == [s \in SUBSET S |-> IF s = {} THEN 0 ELSE f[C(s)] + g[s \ {C(s)}]]
<1>0. \A x \in S : f[x] \in Nat BY FS_CardinalityType
<1>1. SumFunctionOnSet(f, S) = (CHOOSE g : g = Fold(g))[S]
  BY DEF SumFunctionOnSet, FoldFunctionOnSet, MapThenFoldSet
<1>2. ASSUME NEW s \in SUBSET S, s # {} PROVE C(s) \in s
  BY <1>2
<1> HIDE DEF C
<1>3. ASSUME NEW s \in SUBSET S PROVE IsFiniteSet(s) /\ Cardinality(s) \in Nat
  BY <1>3, FS_Subset, FS_CardinalityType
<1>4. ASSUME NEW s \in SUBSET S, s # {}
      PROVE  /\ s \ {C(s)} \in SUBSET S
             /\ Cardinality(s \ {C(s)}) = Cardinality(s) - 1
             /\ s = (s \ {C(s)}) \cup {C(s)}
  <2>1. C(s) \in s BY <1>2, <1>4
  <2>2. IsFiniteSet(s) BY <1>3
  <2>3. Cardinality(s \ {C(s)}) = Cardinality(s) - 1 BY <2>1, <2>2, FS_RemoveElement
  <2> QED BY <2>1, <2>3
<1>5. \A s \in SUBSET S : IsFiniteSet(Stacked(A, s))
  <2> DEFINE Bad == {s \in SUBSET S : ~IsFiniteSet(Stacked(A, s))}
             Sizes_ == {Cardinality(s) : s \in Bad}
  <2> SUFFICES ASSUME Bad # {} PROVE FALSE
    OBVIOUS
  <2>1. Sizes_ \subseteq Nat /\ Sizes_ # {} BY <1>3
  <2>2. \E n \in Sizes_ : \A k \in Sizes_ : n <= k BY <2>1, NatMinimum
  <2>3. PICK s \in Bad : \A u \in Bad : Cardinality(s) <= Cardinality(u) BY <2>2
  <2>4. s # {} BY <2>3, StackedTwo, FS_EmptySet
  <2>5. s \ {C(s)} \notin Bad BY <1>3, <1>4, <2>3, <2>4
  <2>6. IsFiniteSet(Stacked(A, s \ {C(s)})) BY <1>4, <2>4, <2>5
  <2>7. C(s) \notin s \ {C(s)} /\ IsFiniteSet(A[C(s)]) BY <1>2, <2>4
  <2>8. IsFiniteSet(Stacked(A, (s \ {C(s)}) \cup {C(s)}))
    BY <2>6, <2>7, StackedTwo
  <2> QED BY <1>4, <2>3, <2>4, <2>8
<1>6. ASSUME NEW s \in SUBSET S, s # {}
      PROVE  Cardinality(Stacked(A, s)) = f[C(s)] + Cardinality(Stacked(A, s \ {C(s)}))
  <2> DEFINE x == C(s)
             t == s \ {x}
  <2>1. /\ x \notin t /\ IsFiniteSet(A[x]) /\ f[x] = Cardinality(A[x]) /\ f[x] \in Nat
        /\ IsFiniteSet(Stacked(A, t)) /\ s = t \cup {x}
    BY <1>0, <1>2, <1>4, <1>5, <1>6
  <2>2. Cardinality(Stacked(A, t)) \in Nat BY <2>1, FS_CardinalityType
  <2> HIDE DEF x, t
  <2>3. Cardinality(Stacked(A, t \cup {x})) = Cardinality(Stacked(A, t)) + Cardinality(A[x])
    BY <2>1, StackedTwo
  <2>4. Cardinality(Stacked(A, s)) = f[x] + Cardinality(Stacked(A, t))
    BY <2>1, <2>2, <2>3
  <2> QED BY <2>4 DEF x, t
<1> DEFINE h == [s \in SUBSET S |-> Cardinality(Stacked(A, s))]
<1>7. h = Fold(h)
  <2>1. ASSUME NEW s \in SUBSET S
        PROVE  h[s] = IF s = {} THEN 0 ELSE f[C(s)] + h[s \ {C(s)}]
    <3>1. CASE s = {} BY <3>1, StackedTwo, FS_EmptySet
    <3>2. CASE s # {} BY <1>4, <1>6, <3>2
    <3> QED BY <3>1, <3>2
  <2> QED BY <2>1
<1>8. \E g : g = Fold(g) BY <1>7
<1>9. PICK g : g = Fold(g) /\ g = CHOOSE k : k = Fold(k)
  BY <1>8
<1>10. \A s \in SUBSET S : g[s] = Cardinality(Stacked(A, s))
  <2>1. ASSUME NEW s \in SUBSET S
        PROVE  g[s] = IF s = {} THEN 0 ELSE f[C(s)] + g[s \ {C(s)}]
    BY <1>9
  <2> DEFINE Bad == {s \in SUBSET S : g[s] # Cardinality(Stacked(A, s))}
             Sizes_ == {Cardinality(s) : s \in Bad}
  <2> SUFFICES ASSUME Bad # {} PROVE FALSE
    OBVIOUS
  <2>2. Sizes_ \subseteq Nat /\ Sizes_ # {} BY <1>3
  <2>3. \E n \in Sizes_ : \A k \in Sizes_ : n <= k BY <2>2, NatMinimum
  <2>4. PICK s \in Bad : \A u \in Bad : Cardinality(s) <= Cardinality(u) BY <2>3
  <2>5. s # {} BY <2>1, <2>4, StackedTwo, FS_EmptySet
  <2>6. s \ {C(s)} \notin Bad BY <1>3, <1>4, <2>4, <2>5
  <2>7. g[s \ {C(s)}] = Cardinality(Stacked(A, s \ {C(s)})) BY <1>4, <2>5, <2>6
  <2> QED BY <1>6, <2>1, <2>4, <2>5, <2>7
<1>11. S \in SUBSET S OBVIOUS
<1> QED BY <1>1, <1>5, <1>9, <1>10, <1>11

Nth(A, k) == CHOOSE q \in A : Cardinality({p \in A : p < q}) = k

\* The elements of a finite set of naturals can be counted through upwards.
LEMMA NthElement ==
  ASSUME NEW A, A \subseteq Nat, IsFiniteSet(A), NEW k \in 0 .. Cardinality(A) - 1
  PROVE  Nth(A, k) \in A /\ Cardinality({p \in A : p < Nth(A, k)}) = k
<1> DEFINE Below(q) == {p \in A : p < q}
           Bad == {m \in 0 .. Cardinality(A) - 1 : \A q \in A : Cardinality(Below(q)) # m}
<1>0. Cardinality(A) \in Nat BY FS_CardinalityType
<1>1. Bad = {}
  <2> SUFFICES ASSUME Bad # {} PROVE FALSE
    OBVIOUS
  <2>1. Bad \subseteq Nat BY <1>0
  <2>2. PICK m \in Bad : \A y \in Bad : m <= y
    <3> HIDE DEF Bad
    <3> QED BY <2>1, NatMinimum
  <2>3. m \in Nat /\ m < Cardinality(A) BY <1>0
  <2>4. CASE m = 0
    <3>1. A # {} BY <2>3, FS_EmptySet
    <3>2. PICK q \in A : \A y \in A : q <= y BY <3>1, NatMinimum
    <3>3. \A y \in A : y \in Nat /\ q \in Nat /\ ~ (y < q) BY <3>2
    <3>4. Below(q) = {} BY <3>3
    <3> QED BY <2>4, <3>4, FS_EmptySet
  <2>5. CASE m # 0
    <3>1. m - 1 \in 0 .. Cardinality(A) - 1 /\ ~ (m <= m - 1) BY <1>0, <2>3, <2>5
    <3>2. m - 1 \notin Bad BY <2>2, <3>1
    <3>3. PICK q \in A : Cardinality(Below(q)) = m - 1 BY <3>1, <3>2
    <3> DEFINE B == Below(q) \cup {q}
    <3>4. IsFiniteSet(Below(q)) /\ q \notin Below(q)
      <4>1. Below(q) \subseteq A OBVIOUS
      <4>2. IsFiniteSet(Below(q)) BY <4>1, FS_Subset
      <4> QED BY <4>2
    <3>5. Cardinality(B) = m /\ B \subseteq A
      <4>1. Cardinality(B) = Cardinality(Below(q)) + 1 BY <3>4, FS_AddElement
      <4> QED BY <2>3, <3>3, <4>1
    <3>6. A \ B # {} BY <2>3, <3>5
    <3>7. PICK u \in A \ B : \A y \in A \ B : u <= y BY <3>6, NatMinimum
    <3>8. Below(u) = B
      <4>1. \A y \in A : y \in Nat /\ q \in Nat /\ u \in Nat OBVIOUS
      <4>2. u > q BY <3>7, <4>1
      <4>3. ASSUME NEW y \in A, y < u PROVE y \in B
        <5>1. y \notin A \ B BY <3>7, <4>1, <4>3
        <5> QED BY <5>1
      <4>4. ASSUME NEW y \in B PROVE y \in A /\ y < u
        BY <4>1, <4>2, <4>4
      <4> QED BY <4>3, <4>4
    <3> QED BY <3>5, <3>7, <3>8
  <2> QED BY <2>4, <2>5
<1>2. \E q \in A : Cardinality(Below(q)) = k BY <1>1
<1> QED BY <1>2 DEF Nth

-----------------------------------------------------------------------------
\* Keys in the race with at least a digit.
Race(row, S, turn, digits, d) ==
  {i \in S : Prefix(row[i], turn) = digits /\ Digit(row[i], turn) >= d}

LEMMA AtLeast ==
  ASSUME NEW row, NEW turn, NEW digits, NEW S, IsFiniteSet(S), NEW d \in Nat,
         \A i \in S : Digit(row[i], turn) \in 0 .. RADIX - 1
  PROVE  SumFunctionOnSet(Counts(row, S, turn, digits), d .. RADIX - 1)
           = Cardinality(Race(row, S, turn, digits, d))
<1> DEFINE D == d .. RADIX - 1
           f == Counts(row, S, turn, digits)
           A == [e \in D |-> {i \in S : Prefix(row[i], turn) = digits
                                          /\ Digit(row[i], turn) = e}]
           b == [i \in Race(row, S, turn, digits, d) |-> <<Digit(row[i], turn), i>>]
<1>1. IsFiniteSet(D) BY FS_Interval, Parameters
<1>2. \A x \in D : IsFiniteSet(A[x]) /\ f[x] = Cardinality(A[x])
  <2> TAKE x \in D
  <2>1. A[x] = {i \in S : Prefix(row[i], turn) = digits /\ Digit(row[i], turn) = x} OBVIOUS
  <2>2. IsFiniteSet(A[x]) BY <2>1, FS_Subset
  <2>3. x \in 0 .. RADIX - 1 BY Parameters
  <2> QED BY <2>1, <2>2, <2>3 DEF Counts
<1>3. /\ IsFiniteSet(Stacked(A, D))
      /\ SumFunctionOnSet(f, D) = Cardinality(Stacked(A, D))
  <2> HIDE DEF A, D, f
  <2> QED BY <1>1, <1>2, SumOfSizes
<1>4. IsFiniteSet(Race(row, S, turn, digits, d)) BY FS_Subset DEF Race
<1>5. b \in Bijection(Race(row, S, turn, digits, d), Stacked(A, D))
  <2>1. b \in [Race(row, S, turn, digits, d) -> Stacked(A, D)]
    <3> SUFFICES ASSUME NEW i \in Race(row, S, turn, digits, d)
                 PROVE  <<Digit(row[i], turn), i>> \in Stacked(A, D)
      OBVIOUS
    <3>1. Digit(row[i], turn) \in D /\ i \in S /\ Prefix(row[i], turn) = digits
      BY DEF Race
    <3>2. i \in A[Digit(row[i], turn)] BY <3>1
    <3> HIDE DEF A, D
    <3> QED BY <3>1, <3>2 DEF Stacked
  <2>2. \A i, j \in Race(row, S, turn, digits, d) : b[i] = b[j] => i = j OBVIOUS
  <2>3. \A t \in Stacked(A, D) : \E i \in Race(row, S, turn, digits, d) : b[i] = t
    <3> TAKE t \in Stacked(A, D)
    <3>1. PICK x \in D : t \in {x} \X A[x]
      <4> HIDE DEF A, D
      <4> QED BY DEF Stacked
    <3>2. PICK i \in A[x] : t = <<x, i>> BY <3>1
    <3>3. i \in Race(row, S, turn, digits, d) /\ Digit(row[i], turn) = x
      BY <3>2, Parameters DEF Race
    <3> QED BY <3>2, <3>3
  <2> HIDE DEF b
  <2> QED BY <2>1, <2>2, <2>3 DEF Bijection, Injection, IsInjective, Surjection
<1>6. ExistsBijection(Race(row, S, turn, digits, d), Stacked(A, D))
  BY <1>5 DEF ExistsBijection
<1>7. Cardinality(Stacked(A, D)) = Cardinality(Race(row, S, turn, digits, d))
  <2> HIDE DEF A, D
  <2> QED BY <1>4, <1>6, FS_Bijection
<1> QED BY <1>3, <1>7

\* With enough keys in the race some digit qualifies, and it splits them: fewer than
\* wanted have a larger one.
LEMMA ThresholdFacts ==
  ASSUME NEW row, NEW turn, NEW digits, NEW S, IsFiniteSet(S), NEW k \in Nat \ {0},
         \A i \in S : Digit(row[i], turn) \in 0 .. RADIX - 1,
         k <= Cardinality(Race(row, S, turn, digits, 0)),
         NEW found, found = Threshold(Counts(row, S, turn, digits), k)
  PROVE  /\ found.digit \in 0 .. RADIX - 1
         /\ found.remaining \in 1 .. k
         /\ Cardinality(Race(row, S, turn, digits, found.digit + 1)) + found.remaining = k
         /\ Cardinality(Race(row, S, turn, digits, found.digit)) >= k
<1> DEFINE f == Counts(row, S, turn, digits)
           atLeast(d) == SumFunctionOnSet(f, d .. RADIX - 1)
           hits == {d \in DOMAIN f : atLeast(d) >= k /\ atLeast(d + 1) < k}
           size(d) == Cardinality(Race(row, S, turn, digits, d))
<1>1. \A d \in Nat : atLeast(d) = size(d) BY AtLeast
<1>2. \A d \in Nat : size(d) \in Nat
  <2> TAKE d \in Nat
  <2>1. IsFiniteSet(Race(row, S, turn, digits, d)) BY FS_Subset DEF Race
  <2> QED BY <2>1, FS_CardinalityType
<1>3. \A d, e \in Nat : d <= e => size(e) <= size(d)
  <2> SUFFICES ASSUME NEW d \in Nat, NEW e \in Nat, d <= e PROVE size(e) <= size(d)
    OBVIOUS
  <2>1. IsFiniteSet(Race(row, S, turn, digits, d)) BY FS_Subset DEF Race
  <2>2. Race(row, S, turn, digits, e) \subseteq Race(row, S, turn, digits, d)
    BY Parameters DEF Race
  <2> QED BY <2>1, <2>2, FS_Subset
<1>4. size(RADIX) = 0 /\ RADIX \in Nat \ {0}
  <2>1. Race(row, S, turn, digits, RADIX) = {} BY Parameters DEF Race
  <2> QED BY <2>1, FS_EmptySet, Parameters
<1>5. DOMAIN f = 0 .. RADIX - 1 BY DEF Counts
<1>6. hits = {d \in 0 .. RADIX - 1 : size(d) >= k /\ size(d + 1) < k}
  <2> HIDE DEF f, size
  <2> QED BY <1>1, <1>4, <1>5
<1> HIDE DEF size
<1>7. hits # {}
  <2> DEFINE T == {d \in Nat : size(d) < k}
  <2>1. RADIX \in T BY <1>4
  <2>2. PICK d \in T : \A e \in T : d <= e
    <3>1. T \subseteq Nat /\ T # {} BY <2>1
    <3> QED BY <3>1, NatMinimum
  <2>3. 0 \notin T
    <3>1. k <= size(0) BY DEF size
    <3> QED BY <1>2, <3>1
  <2>4. d \in Nat /\ d # 0 /\ d <= RADIX BY <2>1, <2>2, <2>3
  <2>5. d - 1 \in Nat /\ d - 1 \notin T BY <2>2, <2>4
  <2>6. size(d - 1) >= k /\ size((d - 1) + 1) < k BY <1>2, <2>2, <2>4, <2>5
  <2>7. d - 1 \in hits BY <1>4, <1>6, <2>4, <2>6
  <2> QED BY <2>7
<1> HIDE DEF hits
<1>8. ASSUME NEW d \in hits, NEW e \in hits PROVE d = e
  <2>1. /\ d \in Nat /\ e \in Nat /\ size(d) >= k /\ size(d + 1) < k
        /\ size(e) >= k /\ size(e + 1) < k
    BY <1>4, <1>6, <1>8
  <2>2. ~(d + 1 <= e) BY <1>2, <1>3, <2>1
  <2>3. ~(e + 1 <= d) BY <1>2, <1>3, <2>1
  <2> QED BY <2>1, <2>2, <2>3
<1>9. Max(hits) \in hits
  <2>1. PICK d \in hits : \A e \in hits : e = d BY <1>7, <1>8
  <2>2. \A e \in hits : d >= e BY <1>4, <1>6, <2>1
  <2> QED BY <2>2 DEF Max
<1>10. found = [digit |-> Max(hits), remaining |-> k - atLeast(Max(hits) + 1)]
  <2>1. found = IF hits = {} THEN [digit |-> 0, remaining |-> k]
                ELSE [digit |-> Max(hits), remaining |-> k - atLeast(Max(hits) + 1)]
    BY DEF Threshold, hits
  <2> QED BY <1>7, <2>1
<1>11. PICK d \in 0 .. RADIX - 1 : d = Max(hits) /\ size(d) >= k /\ size(d + 1) < k
  BY <1>6, <1>9
<1>12. found.digit = d /\ found.remaining = k - size(d + 1) /\ d + 1 \in Nat
  <2>1. d + 1 \in Nat BY <1>4
  <2> HIDE DEF f
  <2> QED BY <1>1, <1>10, <1>11, <2>1
<1>13. size(d + 1) \in Nat BY <1>2, <1>12
<1> QED BY <1>11, <1>12, <1>13 DEF size

-----------------------------------------------------------------------------
\* What the digits found so far say of a row: there are as many keys above them as
\* places already given away, and enough keys with them for the places left.
Higher(row, turn, digits) == {i \in DOMAIN row : Prefix(row[i], turn) > digits}
Same(row, turn, digits)   == {i \in DOMAIN row : Prefix(row[i], turn) = digits}

Splits(row, turn, s) ==
  /\ s.prefix \in Nat /\ \E q \in Nat : s.prefix = q * Span(turn)
  /\ s.prefix + Span(turn) <= Span(0)
  /\ s.remaining \in 1 .. TOPK
  /\ Cardinality(Higher(row, turn, s.prefix)) + s.remaining = TOPK
  /\ Cardinality(Same(row, turn, s.prefix)) >= s.remaining

LongEnough(row) ==
  /\ IsFiniteSet(DOMAIN row) /\ \A i \in DOMAIN row : row[i] \in Keys
  /\ Cardinality(DOMAIN row) >= TOPK

LEMMA KeyFacts ==
  ASSUME NEW key \in Keys
  PROVE  /\ key \in Nat /\ Prefix(key, 0) = 0 /\ Prefix(key, ROUNDS) = key
         /\ key < Span(0)
<1>1. Span(0) \in Nat \ {0} /\ Span(ROUNDS) = 1 BY Spans DEF ROUNDS
<1>2. PICK m \in Nat \ {0} : m = Span(0) BY <1>1
<1>3. key \in 0 .. m - 1 BY <1>2 DEF Keys
<1>4. key % m = key BY <1>3
<1>5. key % 1 = 0 BY <1>3
<1> QED BY <1>1, <1>2, <1>3, <1>4, <1>5 DEF Prefix

LEMMA SplitsFirst ==
  ASSUME NEW row, LongEnough(row)
  PROVE  Splits(row, 0, Found0(row))
<1>1. \A i \in DOMAIN row : Prefix(row[i], 0) = 0 BY KeyFacts DEF LongEnough
<1>2. Higher(row, 0, 0) = {} /\ Same(row, 0, 0) = DOMAIN row
  BY <1>1 DEF Higher, Same
<1>3. Cardinality({}) = 0 BY FS_EmptySet
<1>4. Span(0) \in Nat BY Spans DEF ROUNDS
<1>5. 0 = 0 * Span(0) /\ 0 + Span(0) <= Span(0) BY <1>4
<1>6. TOPK \in 1 .. TOPK /\ 0 + TOPK = TOPK BY Parameters
<1>7. Found0(row).prefix = 0 /\ Found0(row).remaining = TOPK BY DEF Found0
<1>8. \E q \in Nat : 0 = q * Span(0) BY <1>5
<1>9. Cardinality(DOMAIN row) >= TOPK BY DEF LongEnough
<1> QED BY <1>2, <1>3, <1>5, <1>6, <1>7, <1>8, <1>9 DEF Splits

LEMMA SplitsNext ==
  ASSUME NEW row, LongEnough(row), NEW turn \in 0 .. ROUNDS - 1, NEW s, Splits(row, turn, s)
  PROVE  Splits(row, turn + 1, Refined(row, turn, s))
<1> DEFINE found == Threshold(Counts(row, DOMAIN row, turn, s.prefix), s.remaining)
           race(d) == Race(row, DOMAIN row, turn, s.prefix, d)
<1>1. PICK R \in Nat \ {0}, w \in Nat \ {0} : R = RADIX /\ w = Span(turn + 1) /\ Span(turn) = R * w
  <2>1. turn + 1 \in 0 .. ROUNDS BY DEF ROUNDS
  <2> QED BY <2>1, Parameters, Spans
<1>2. PICK u \in Nat : s.prefix = u * (R * w) BY <1>1 DEF Splits
<1>3. ASSUME NEW i \in DOMAIN row
      PROVE  /\ Digit(row[i], turn) \in 0 .. R - 1
             /\ \E q \in Nat : /\ Prefix(row[i], turn) = q * (R * w)
                               /\ Prefix(row[i], turn + 1) = q * (R * w) + Digit(row[i], turn) * w
  <2>1. row[i] \in Nat BY KeyFacts DEF LongEnough
  <2> QED BY <1>1, <2>1, PrefixNext
<1>4. race(0) = Same(row, turn, s.prefix)
  BY <1>1, <1>3 DEF Race, Same
<1>5. IsFiniteSet(DOMAIN row) BY DEF LongEnough
<1>6. PICK k \in Nat \ {0} : k = s.remaining BY Parameters DEF Splits
<1>7. /\ found.digit \in 0 .. RADIX - 1
      /\ found.remaining \in 1 .. k
      /\ Cardinality(race(found.digit + 1)) + found.remaining = k
      /\ Cardinality(race(found.digit)) >= k
  <2>1. found = Threshold(Counts(row, DOMAIN row, turn, s.prefix), k) BY <1>6
  <2>2. k <= Cardinality(Race(row, DOMAIN row, turn, s.prefix, 0))
    <3>1. Cardinality(Same(row, turn, s.prefix)) \in Nat
      BY <1>5, FS_Subset, FS_CardinalityType DEF Same
    <3> QED BY <1>4, <1>6, <3>1 DEF Splits
  <2>3. \A i \in DOMAIN row : Digit(row[i], turn) \in 0 .. RADIX - 1 BY <1>1, <1>3
  <2> HIDE DEF found
  <2> QED BY <1>5, <2>1, <2>2, <2>3, ThresholdFacts
<1>8. PICK g \in 0 .. R - 1 : g = found.digit BY <1>1, <1>7
<1> DEFINE p == s.prefix + g * w
<1>9. ASSUME NEW i \in DOMAIN row
      PROVE  /\ Prefix(row[i], turn + 1) > p
                  <=> \/ Prefix(row[i], turn) > s.prefix
                      \/ Prefix(row[i], turn) = s.prefix /\ Digit(row[i], turn) > g
             /\ Prefix(row[i], turn + 1) = p
                  <=> Prefix(row[i], turn) = s.prefix /\ Digit(row[i], turn) = g
  <2>1. PICK q \in Nat : /\ Prefix(row[i], turn) = q * (R * w)
                         /\ Prefix(row[i], turn + 1) = q * (R * w) + Digit(row[i], turn) * w
    BY <1>3
  <2>2. PICK d \in 0 .. R - 1 : d = Digit(row[i], turn) BY <1>3
  <2>3. /\ q * (R * w) + d * w > u * (R * w) + g * w
             <=> q * (R * w) > u * (R * w) \/ (q * (R * w) = u * (R * w) /\ d > g)
        /\ q * (R * w) + d * w = u * (R * w) + g * w
             <=> q * (R * w) = u * (R * w) /\ d = g
    BY PrefixOrder
  <2>4. PICK x, y, a, b : /\ x = q * (R * w) + d * w /\ y = u * (R * w) + g * w
                          /\ a = q * (R * w) /\ b = u * (R * w)
    OBVIOUS
  <2>5. (x > y <=> a > b \/ (a = b /\ d > g)) /\ (x = y <=> a = b /\ d = g)
    BY <2>3, <2>4
  <2>6. p = y /\ s.prefix = b /\ Prefix(row[i], turn) = a /\ Prefix(row[i], turn + 1) = x
    BY <1>2, <2>1, <2>2, <2>4
  <2> HIDE DEF p
  <2> QED BY <2>2, <2>5, <2>6
<1>10. \A i \in DOMAIN row : Digit(row[i], turn) \in Int /\ g \in Int
             /\ (Digit(row[i], turn) > g <=> Digit(row[i], turn) >= g + 1)
             /\ (Digit(row[i], turn) >= g <=> Digit(row[i], turn) = g \/ Digit(row[i], turn) >= g + 1)
             /\ ~(Digit(row[i], turn) = g /\ Digit(row[i], turn) >= g + 1)
  BY <1>3
<1>11. Higher(row, turn + 1, p) = Higher(row, turn, s.prefix) \cup race(g + 1)
  <2> HIDE DEF p
  <2> QED BY <1>9, <1>10 DEF Higher, Race
<1>12. Higher(row, turn, s.prefix) \cap race(g + 1) = {}
  <2>1. \A i \in DOMAIN row : ~(Prefix(row[i], turn) > s.prefix /\ Prefix(row[i], turn) = s.prefix)
    <3> TAKE i \in DOMAIN row
    <3>1. PICK q \in Nat : Prefix(row[i], turn) = q * (R * w) BY <1>3
    <3>2. q * (R * w) \in Nat /\ u * (R * w) \in Nat OBVIOUS
    <3> QED BY <1>2, <3>1, <3>2
  <2> QED BY <2>1 DEF Higher, Race
<1>13. race(g) = race(g + 1) \cup Same(row, turn + 1, p) /\ race(g + 1) \cap Same(row, turn + 1, p) = {}
  <2> HIDE DEF p
  <2> QED BY <1>9, <1>10 DEF Same, Race
<1>14. /\ IsFiniteSet(Higher(row, turn, s.prefix)) /\ IsFiniteSet(race(g + 1))
       /\ IsFiniteSet(Same(row, turn + 1, p))
  BY <1>5, FS_Subset DEF Higher, Race, Same
<1>15. /\ Cardinality(Higher(row, turn + 1, p))
            = Cardinality(Higher(row, turn, s.prefix)) + Cardinality(race(g + 1))
       /\ Cardinality(race(g)) = Cardinality(race(g + 1)) + Cardinality(Same(row, turn + 1, p))
  BY <1>11, <1>12, <1>13, <1>14, UnionSize
<1>16. /\ Cardinality(Higher(row, turn, s.prefix)) \in Nat /\ Cardinality(race(g + 1)) \in Nat
       /\ Cardinality(Same(row, turn + 1, p)) \in Nat
  BY <1>14, FS_CardinalityType
<1>17. PICK n \in 1 .. k : n = found.remaining BY <1>7
<1>18. Refined(row, turn, s) = [prefix |-> p, remaining |-> n]
  BY <1>1, <1>8, <1>17 DEF Refined
<1>19. n \in 1 .. TOPK BY <1>6, <1>17, Parameters DEF Splits
<1>20. Cardinality(Higher(row, turn + 1, p)) + n = TOPK
  <2>1. Cardinality(Higher(row, turn, s.prefix)) + k = TOPK BY <1>6 DEF Splits
  <2>2. Cardinality(race(g + 1)) + n = k BY <1>7, <1>8, <1>17
  <2> HIDE DEF p
  <2> QED BY <1>15, <1>16, <2>1, <2>2, Parameters
<1>21. Cardinality(Same(row, turn + 1, p)) >= n
  <2>1. Cardinality(race(g)) >= k /\ Cardinality(race(g + 1)) + n = k
    BY <1>7, <1>8, <1>17
  <2> HIDE DEF p
  <2> QED BY <1>15, <1>16, <2>1
<1>22. p = (u * R + g) * w /\ u * R + g \in Nat /\ p \in Nat
  <2>1. u * (R * w) = (u * R) * w /\ (u * R) * w + g * w = (u * R + g) * w OBVIOUS
  <2>2. u * R + g \in Nat /\ (u * R + g) * w \in Nat OBVIOUS
  <2> QED BY <1>2, <2>1, <2>2
<1>23. p + w <= Span(0)
  <2>1. R > g OBVIOUS
  <2>2. g * w + w <= R * w /\ g * w \in Nat BY <2>1, Multiples
  <2>3. s.prefix \in Nat /\ s.prefix + R * w <= Span(0) /\ Span(0) \in Nat
    BY <1>1, Spans DEF Splits, ROUNDS
  <2>4. R * w \in Nat OBVIOUS
  <2> QED BY <2>2, <2>3, <2>4
<1> HIDE DEF p
<1> QED BY <1>1, <1>18, <1>19, <1>20, <1>21, <1>22, <1>23 DEF Splits

LEMMA SplitsAlways ==
  ASSUME NEW row, LongEnough(row)
  PROVE  \A turn \in 0 .. ROUNDS : Splits(row, turn, FoundIn(row, turn))
<1>0. Splits(row, 0, FoundIn(row, 0)) BY SplitsFirst DEF FoundIn
<1>1. \A turn \in 0 .. ROUNDS - 1 : Splits(row, turn, FoundIn(row, turn))
         => Splits(row, turn + 1, FoundIn(row, turn + 1))
  BY FoundNext, SplitsNext
<1>2. \A turn \in 0 .. 3 : turn \in 0 .. ROUNDS - 1 BY DEF ROUNDS
<1>3. Splits(row, 1, FoundIn(row, 1))
  <2>1. 0 \in 0 .. ROUNDS - 1 /\ 0 + 1 = 1 BY DEF ROUNDS
  <2> QED BY <1>0, <1>1, <2>1
<1>4. Splits(row, 2, FoundIn(row, 2))
  <2>1. 1 \in 0 .. ROUNDS - 1 /\ 1 + 1 = 2 BY DEF ROUNDS
  <2> QED BY <1>1, <1>3, <2>1
<1>5. Splits(row, 3, FoundIn(row, 3))
  <2>1. 2 \in 0 .. ROUNDS - 1 /\ 2 + 1 = 3 BY DEF ROUNDS
  <2> QED BY <1>1, <1>4, <2>1
<1>6. Splits(row, 4, FoundIn(row, 4))
  <2>1. 3 \in 0 .. ROUNDS - 1 /\ 3 + 1 = 4 BY DEF ROUNDS
  <2> QED BY <1>1, <1>5, <2>1
<1>7. \A turn \in 0 .. ROUNDS : turn \in {0, 1, 2, 3, 4} BY DEF ROUNDS
<1> QED BY <1>0, <1>3, <1>4, <1>5, <1>6, <1>7

\* The k-th largest key of a row and what is above it and equal to it.
Pivot(row) == Found4(row).prefix
Above(row) == {i \in DOMAIN row : row[i] > Pivot(row)}
Equal(row) == {i \in DOMAIN row : row[i] = Pivot(row)}

LEMMA PivotFacts ==
  ASSUME NEW row, LongEnough(row)
  PROVE  /\ IsFiniteSet(Above(row)) /\ IsFiniteSet(Equal(row)) /\ Above(row) \cap Equal(row) = {}
         /\ Cardinality(Above(row)) \in Nat /\ Cardinality(Equal(row)) \in Nat
         /\ Cardinality(Above(row)) < TOPK
         /\ Cardinality(Above(row)) + Cardinality(Equal(row)) >= TOPK
         /\ Pivot(row) \in Nat /\ \A i \in DOMAIN row : row[i] \in Nat
<1>1. 4 \in 0 .. ROUNDS /\ ROUNDS = 4 /\ FoundIn(row, 4) = Found4(row) BY DEF ROUNDS, FoundIn
<1>2. Splits(row, 4, Found4(row)) BY <1>1, SplitsAlways
<1>3. \A i \in DOMAIN row : Prefix(row[i], 4) = row[i] /\ row[i] \in Nat
  BY <1>1, KeyFacts DEF LongEnough
<1>4. Higher(row, 4, Pivot(row)) = Above(row) /\ Same(row, 4, Pivot(row)) = Equal(row)
  BY <1>3 DEF Higher, Same, Above, Equal
<1>5. IsFiniteSet(Above(row)) /\ IsFiniteSet(Equal(row))
  BY FS_Subset DEF Above, Equal, LongEnough
<1>6. Cardinality(Above(row)) \in Nat /\ Cardinality(Equal(row)) \in Nat
  BY <1>5, FS_CardinalityType
<1>7. PICK n \in 1 .. TOPK : /\ Cardinality(Above(row)) + n = TOPK
                             /\ Cardinality(Equal(row)) >= n
  BY <1>2, <1>4 DEF Splits, Pivot
<1>8. Pivot(row) \in Nat BY <1>2 DEF Splits, Pivot
<1>9. Above(row) \cap Equal(row) = {} BY <1>3, <1>8 DEF Above, Equal
<1> QED BY <1>3, <1>5, <1>6, <1>7, <1>8, <1>9, Parameters

-----------------------------------------------------------------------------
(* The output: who has written to a row, and what.                            *)
LongAt(k) == Cardinality(DOMAIN rows[k + 1]) > RADIX_THRESHOLD

\* CTA 0 has passed a barrier and what it does right after it.
Past(b) == phase[0] > b \/ (phase[0] = b /\ pc[0] # "clear")

\* The output counter is the one of this row.
Current(k) == Past(Base(k) + 1) /\ ~Past(Base(k) + ROUNDS + 3)

\* A CTA has stored the keys of its chunk above the pivot; it has stored or given up
\* one that equals it.
HasCollected(c, k) ==
  \/ phase[c] > Base(k) + ROUNDS + 1
  \/ phase[c] = Base(k) + ROUNDS + 1 /\ pc[c] \in {"collected", "collecting"}
HasTaken(c, k, i) ==
  \/ iter[c] > k
  \/ iter[c] = k /\ pc[c] = "equal" /\ i \notin equal[c]

AboveDone(k) == {i \in Above(rows[k + 1]) :
                   \E c \in Ctas : i \div CHUNK_SIZE = c /\ HasCollected(c, k)}
EqualDone(k) == {i \in Equal(rows[k + 1]) :
                   \E c \in Ctas : i \div CHUNK_SIZE = c /\ HasTaken(c, k, i)}

\* The output of a row, and the places of it that have been given away.
OutputOf(k) == [p \in 0 .. TOPK - 1 |-> output[k * TOPK + p]]
Places == {p \in 0 .. TOPK - 1 : p < taken}

Filled(k) ==
  /\ taken = Cardinality(AboveDone(k)) + Cardinality(EqualDone(k))
  /\ \A p \in Places : OutputOf(k)[p] \in AboveDone(k) \cup EqualDone(k)
  /\ \A p, q \in Places : OutputOf(k)[p] = OutputOf(k)[q] => p = q
  /\ \A i \in AboveDone(k) : \E p \in Places : OutputOf(k)[p] = i

\* Nobody writes to the row any more.
Left(k) == IF LongAt(k) THEN \A c \in Ctas : iter[c] > k ELSE iter[0] > k

RowIndex == 0 .. Len(rows) - 1

OutTyped ==
  /\ taken \in 0 .. CTAS * CHUNK_SIZE
  /\ output \in [0 .. Len(rows) * TOPK - 1 -> Unwritten .. CTAS * CHUNK_SIZE - 1]
  /\ equal = [c \in Ctas |-> equal[c]]
  /\ \A c \in Ctas : IF pc[c] = "equal" THEN equal[c] \subseteq Equal(Row(c)) \cap Chunk(c)
                                        ELSE equal[c] = {}

OutInv ==
  /\ OutTyped
  /\ \A k \in RowIndex : LongAt(k) /\ Current(k) => Filled(k)
  /\ \A k \in RowIndex : Left(k) => OutputOf(k) \in ShortOutput(rows[k + 1])

LEMMA RowBounds ==
  ASSUME rows \in Batches, NEW k \in RowIndex
  PROVE  /\ k \in Nat /\ k < Len(rows) /\ Len(rows) \in Nat /\ k + 1 \in DOMAIN rows
         /\ IsFiniteSet(DOMAIN rows[k + 1]) /\ DOMAIN rows[k + 1] \subseteq 0 .. CTAS * CHUNK_SIZE - 1
         /\ CTAS * CHUNK_SIZE \in Nat \ {0}
         /\ Cardinality(DOMAIN rows[k + 1]) \in 0 .. CTAS * CHUNK_SIZE
         /\ LongAt(k) => LongEnough(rows[k + 1])
         /\ \A i \in DOMAIN rows[k + 1] : rows[k + 1][i] \in Keys
         /\ \E n \in 1 .. CTAS * CHUNK_SIZE : DOMAIN rows[k + 1] = 0 .. n - 1
                                              /\ Cardinality(DOMAIN rows[k + 1]) = n
<1>1. k \in Nat /\ k < Len(rows) /\ Len(rows) \in Nat /\ k + 1 \in 1 .. Len(rows)
  BY RowFacts DEF RowIndex
<1>2. PICK m \in Nat \ {0} : m = CTAS * CHUNK_SIZE
  <2>1. CTAS * CHUNK_SIZE \in Nat \ {0} BY Parameters
  <2> QED BY <2>1
<1>3. PICK n \in 1 .. m : rows[k + 1] \in [0 .. n - 1 -> Keys]
  BY <1>1, <1>2, RowFacts
<1>4. IsFiniteSet(0 .. n - 1) /\ Cardinality(0 .. n - 1) = n
  BY FS_Interval
<1>5. LongAt(k) => n >= TOPK BY <1>3, <1>4, Parameters DEF LongAt
<1> QED BY <1>1, <1>2, <1>3, <1>4, <1>5, RowFacts DEF LongEnough

\* Two long rows never share the output counter.
LEMMA CurrentOnce ==
  ASSUME PlaceInv, NEW k \in RowIndex, NEW l \in RowIndex, k < l, LongAt(k), Current(k), Current(l)
  PROVE  FALSE
<1>0. rows \in Batches /\ 0 \in Ctas BY Parameters DEF PlaceInv, Typed
<1>1. k \in Nat /\ l \in Nat BY <1>0, RowBounds
<1>2. Base(k) \in Nat /\ Base(l) \in Nat /\ Base(k) + 6 <= Base(l)
  BY <1>1, BaseApart, LongBeforeFinite DEF LongAt, ROUNDS
<1>3. phase[0] \in Nat BY <1>0 DEF PlaceInv, Typed
<1> QED BY <1>2, <1>3 DEF Current, Past, ROUNDS

\* A CTA that takes keys is in a row that has the counter.
LEMMA TakingCurrent ==
  ASSUME BarrierInv, PlaceInv, NEW c \in Ctas, pc[c] \in Taking
  PROVE  /\ iter[c] \in RowIndex /\ LongAt(iter[c]) /\ Current(iter[c])
         /\ rows \in Batches
<1>0. rows \in Batches /\ 0 \in Ctas /\ Placed(c) BY Parameters DEF PlaceInv, Typed
<1>1. iter[c] \in RowIndex /\ LongAt(iter[c])
  <2>1. pc[c] # "row" BY DEF Taking
  <2>2. iter[c] \in 0 .. Len(rows) /\ iter[c] < Len(rows) /\ Long(c)
    BY <1>0, <2>1 DEF Placed
  <2> QED BY <1>0, <2>2, RowFacts DEF RowIndex, LongAt, Long, Row
<1>2. PICK B \in Nat : B = Base(iter[c]) BY PlaceFacts
<1>3. phase[c] \in {B + 5, B + 6} /\ phase[c] \in Nat /\ phase[0] \in Nat
  BY <1>0, <1>2, PlaceFacts, OffsetCases DEF Taking
<1>4. phase[c] <= Reached(0) /\ phase[0] <= Reached(c)
  BY <1>0, Together
<1>5. Reached(0) <= phase[0] + 1 /\ Reached(c) <= B + 6
  <2>1. pc[c] = "equal" => phase[c] = B + 6 /\ Reached(c) = phase[c]
    BY <1>2, PlaceFacts, OffsetCases
  <2>2. pc[c] # "equal" => phase[c] = B + 5 /\ Reached(c) <= phase[c] + 1
    BY <1>2, <1>3, PlaceFacts, OffsetCases DEF Taking
  <2>3. Reached(0) <= phase[0] + 1 BY <1>0, <1>3, OffsetCases
  <2> QED BY <2>1, <2>2, <2>3
<1>6. Past(B + 1) /\ ~Past(B + 7)
  BY <1>0, <1>3, <1>4, <1>5 DEF Past, Reached
<1> QED BY <1>0, <1>1, <1>2, <1>6 DEF Current, ROUNDS

\* Whether the barrier that starts a row has been passed changes only when CTA 0 clears.
LEMMA PastStep ==
  ASSUME PlaceInv, NEW c \in Ctas, Step(c), NEW n \in Nat, NEW b, b = 6 * n + 1
  PROVE  Past(b)' <=> Past(b) \/ (c = 0 /\ Clear(0) /\ phase[0] = b)
<1>0. 0 \in Ctas /\ b \in Nat BY Parameters
<1>1. CASE c # 0
  <2>1. phase'[0] = phase[0] /\ pc'[0] = pc[0] BY <1>0, <1>1, StepFrame
  <2>2. b' = b OBVIOUS
  <2> QED BY <1>1, <2>1 DEF Past
<1>2. CASE c = 0
  <2>1. Moves(0) BY <1>2, StepMoves
  <2>2. phase[0] \in Nat /\ phase[0] = Base(iter[0]) + Offset(0) /\ iter[0] \in Nat
    BY <1>0, PlaceFacts DEF PlaceInv, Typed
  <2>3. PICK j \in Nat : Base(iter[0]) = 6 * j
    BY <2>2, LongBeforeFinite DEF Base, ROUNDS
  <2>4. Clear(0) => pc[0] = "clear" BY DEF Clear, Goto
  <2>5. CASE phase'[0] = phase[0] /\ pc[0] # "clear"
    <3>1. pc'[0] # "clear" BY <2>1, <2>2, <2>5 DEF Moves
    <3> QED BY <1>2, <2>4, <2>5, <3>1 DEF Past
  <2>6. CASE phase'[0] = phase[0] /\ pc[0] = "clear"
    <3>1. Clear(0) /\ pc'[0] = "count" BY <2>1, <2>2, <2>6 DEF Moves
    <3> QED BY <1>2, <2>6, <3>1 DEF Past
  <2>7. CASE phase'[0] = phase[0] + 1
    <3>1. pc[0] \in {"starting", "meeting", "collecting"}
      BY <2>1, <2>2, <2>7 DEF Moves
    <3>2. ~Clear(0) BY <2>4, <3>1
    <3>3. CASE pc[0] = "starting"
      <4>1. phase[0] = 6 * j /\ pc'[0] = "clear"
        BY <1>0, <2>1, <2>2, <2>3, <2>7, <3>3, OffsetCases DEF Moves
      <4>2. phase[0] # b /\ (phase[0] + 1 > b <=> phase[0] > b) BY <4>1
      <4> QED BY <2>7, <3>2, <3>3, <4>1, <4>2 DEF Past
    <3>4. CASE pc[0] \in {"meeting", "collecting"}
      <4>1. Offset(0) \in 1 .. 5 BY <1>0, <3>4, OffsetCases DEF Counting, Taking
      <4>2. phase[0] + 1 # b
        <5>1. PICK o \in 1 .. 5 : o = Offset(0) BY <4>1
        <5>2. phase[0] + 1 = 6 * j + o + 1 BY <2>2, <2>3, <5>1
        <5> QED BY <5>2
      <4> QED BY <1>0, <2>2, <2>7, <3>2, <3>4, <4>2 DEF Past
    <3> QED BY <3>1, <3>3, <3>4
  <2> QED BY <2>1, <2>5, <2>6, <2>7 DEF Moves
<1> QED BY <1>1, <1>2

LEMMA CurrentStep ==
  ASSUME PlaceInv, NEW c \in Ctas, Step(c), NEW k \in RowIndex, LongAt(k), Current(k)'
  PROVE  \/ Current(k) /\ ~Clear(c)
         \/ c = 0 /\ Clear(0) /\ iter[0] = k
<1>0. rows \in Batches /\ 0 \in Ctas /\ k \in Nat BY Parameters, RowBounds DEF PlaceInv, Typed
<1>1. PICK n \in Nat : Base(k) = 6 * n BY <1>0, LongBeforeFinite DEF Base, ROUNDS
<1>2. PICK b, e : b = 6 * n + 1 /\ e = 6 * n + 7 /\ e = 6 * (n + 1) + 1 /\ n + 1 \in Nat
  OBVIOUS
<1>3. Current(k) <=> Past(b) /\ ~Past(e) BY <1>1, <1>2 DEF Current, ROUNDS
<1>4. Current(k)' <=> Past(b)' /\ ~Past(e)'
  <2>1. Base(k)' = Base(k) BY StepFrame, BaseSame
  <2> QED BY <1>1, <1>2, <2>1 DEF Current, ROUNDS, Past
<1>5. /\ Past(b)' <=> Past(b) \/ (c = 0 /\ Clear(0) /\ phase[0] = b)
      /\ Past(e)' <=> Past(e) \/ (c = 0 /\ Clear(0) /\ phase[0] = e)
  BY <1>2, PastStep
<1>6. CASE ~Clear(c) BY <1>3, <1>4, <1>5, <1>6
<1>7. CASE Clear(c)
  <2>1. c = 0 /\ pc[0] = "clear"
    BY <1>7, OffsetCases DEF Clear, Goto
  <2>2. /\ phase[0] = Base(iter[0]) + 1 /\ iter[0] \in Nat /\ Base(iter[0]) \in Nat
        /\ Cardinality(DOMAIN rows[iter[0] + 1]) > RADIX_THRESHOLD
    BY <1>0, <2>1, PlaceFacts, OffsetCases
  <2>3. Base(iter[0]) >= 6 * n /\ Base(iter[0]) < 6 * n + 6
    BY <1>2, <1>4, <1>5, <1>7, <2>1, <2>2 DEF Past
  <2>4. iter[0] = k
    BY <1>0, <1>1, <2>2, <2>3, BaseApart DEF LongAt, ROUNDS
  <2> QED BY <1>7, <2>1, <2>4
<1> QED BY <1>6, <1>7

-----------------------------------------------------------------------------
\* The index of a place in the output: rows do not overlap.
LEMMA PlaceIndex ==
  ASSUME NEW n \in Nat, NEW k \in 0 .. n - 1, NEW t \in Nat, NEW p \in 0 .. t - 1
  PROVE  /\ k * t + p \in 0 .. n * t - 1
         /\ \A j \in 0 .. n - 1 : (k * t + p) - j * t \in 0 .. t - 1 => j = k
         /\ (k * t + p) - k * t = p
<1>1. k * t \in Nat /\ n * t \in Nat OBVIOUS
<1>2. k * t + t <= n * t BY Multiples
<1>3. ASSUME NEW j \in 0 .. n - 1, (k * t + p) - j * t \in 0 .. t - 1 PROVE j = k
  <2>1. j * t \in Nat OBVIOUS
  <2>2. j > k => k * t + t <= j * t BY Multiples
  <2>3. k > j => j * t + t <= k * t BY Multiples
  <2> QED BY <1>1, <1>3, <2>1, <2>2, <2>3
<1> QED BY <1>1, <1>2, <1>3

\* A CTA stores in its own row only.
LEMMA StoredFacts ==
  ASSUME OutTyped, NEW c \in Ctas, iter[c] \in RowIndex, Len(rows) \in Nat, NEW at,
         DOMAIN at \subseteq 0 .. TOPK - 1,
         \A p \in DOMAIN at : at[p] \in Unwritten .. CTAS * CHUNK_SIZE - 1
  PROVE  /\ Stored(c, at) \in [0 .. Len(rows) * TOPK - 1 -> Unwritten .. CTAS * CHUNK_SIZE - 1]
         /\ \A k \in RowIndex, p \in 0 .. TOPK - 1 :
              Stored(c, at)[k * TOPK + p] =
                IF k = iter[c] /\ p \in DOMAIN at THEN at[p] ELSE output[k * TOPK + p]
<1>1. output \in [0 .. Len(rows) * TOPK - 1 -> Unwritten .. CTAS * CHUNK_SIZE - 1]
  BY DEF OutTyped
<1>2. Stored(c, at) \in [0 .. Len(rows) * TOPK - 1 -> Unwritten .. CTAS * CHUNK_SIZE - 1]
  BY <1>1 DEF Stored
<1>3. ASSUME NEW k \in RowIndex, NEW p \in 0 .. TOPK - 1
      PROVE  Stored(c, at)[k * TOPK + p] =
                IF k = iter[c] /\ p \in DOMAIN at THEN at[p] ELSE output[k * TOPK + p]
  <2>1. /\ k * TOPK + p \in DOMAIN output
        /\ (k * TOPK + p) - iter[c] * TOPK \in 0 .. TOPK - 1 => iter[c] = k
        /\ (k * TOPK + p) - k * TOPK = p
    <3>1. PICK n \in Nat, t \in Nat : n = Len(rows) /\ t = TOPK BY Parameters
    <3>2. k \in 0 .. n - 1 /\ iter[c] \in 0 .. n - 1 /\ p \in 0 .. t - 1 BY <3>1 DEF RowIndex
    <3>3. /\ k * t + p \in 0 .. n * t - 1
          /\ \A j \in 0 .. n - 1 : (k * t + p) - j * t \in 0 .. t - 1 => j = k
          /\ (k * t + p) - k * t = p
      BY <3>2, PlaceIndex
    <3> QED BY <1>1, <3>1, <3>2, <3>3
  <2>2. Stored(c, at)[k * TOPK + p] =
          LET place == (k * TOPK + p) - iter[c] * TOPK
          IN  IF place \in DOMAIN at THEN at[place] ELSE output[k * TOPK + p]
    BY <2>1 DEF Stored
  <2>3. CASE iter[c] = k BY <2>1, <2>2, <2>3
  <2>4. CASE iter[c] # k BY <2>1, <2>2, <2>4
  <2> QED BY <2>3, <2>4
<1> QED BY <1>2, <1>3

\* The elements of a set in order.
LEMMA NthOnto ==
  ASSUME NEW A, A \subseteq Nat, IsFiniteSet(A)
  PROVE  /\ Cardinality(A) \in Nat
         /\ \A k \in 0 .. Cardinality(A) - 1 : Nth(A, k) \in A
         /\ \A k, l \in 0 .. Cardinality(A) - 1 : Nth(A, k) = Nth(A, l) => k = l
         /\ \A i \in A : \E k \in 0 .. Cardinality(A) - 1 : Nth(A, k) = i
<1> DEFINE n == Cardinality(A)
           D == 0 .. n - 1
           f == [k \in D |-> Nth(A, k)]
<1>1. n \in Nat BY FS_CardinalityType
<1>2. \A k \in D : Nth(A, k) \in A /\ Cardinality({p \in A : p < Nth(A, k)}) = k
  BY NthElement
<1>3. \A k, l \in D : Nth(A, k) = Nth(A, l) => k = l BY <1>2
<1>4. f \in Injection(D, A)
  <2>1. f \in [D -> A] BY <1>2
  <2>2. \A k, l \in D : f[k] = f[l] => k = l BY <1>3
  <2> HIDE DEF f, D
  <2> QED BY <2>1, <2>2 DEF Injection, IsInjective
<1>5. Cardinality(D) = n
  <2>1. 0 \in Int /\ n - 1 \in Int /\ (0 > n - 1 <=> n = 0) BY <1>1
  <2>2. Cardinality(D) = IF 0 > n - 1 THEN 0 ELSE (n - 1) - 0 + 1 BY <2>1, FS_Interval
  <2> QED BY <1>1, <2>1, <2>2
<1>6. f \in Surjection(D, A)
  <2> HIDE DEF f, D
  <2> QED BY <1>4, <1>5, FS_Injection
<1>7. \A i \in A : \E k \in D : f[k] = i
  <2> HIDE DEF f, D
  <2> QED BY <1>6 DEF Surjection
<1> QED BY <1>1, <1>2, <1>3, <1>7

\* A CTA has collected when it has taken the step, in the row of that step.
LEMMA CollectedStep ==
  ASSUME PlaceInv, NEW c \in Ctas, Step(c), NEW k \in RowIndex, LongAt(k), NEW d \in Ctas
  PROVE  HasCollected(d, k)' <=> HasCollected(d, k) \/ (d = c /\ Collect(c) /\ iter[c] = k)
<1>0. rows \in Batches /\ k \in Nat BY RowBounds DEF PlaceInv, Typed
<1>1. PICK B \in Nat : B = Base(k) BY <1>0, LongBeforeFinite
<1>2. Base(k)' = B BY <1>1, StepFrame, BaseSame
<1>3. HasCollected(d, k) <=> phase[d] > B + 5 \/ (phase[d] = B + 5 /\ pc[d] \in {"collected", "collecting"})
  BY <1>1 DEF HasCollected, ROUNDS
<1>4. HasCollected(d, k)' <=> phase'[d] > B + 5
                                \/ (phase'[d] = B + 5 /\ pc'[d] \in {"collected", "collecting"})
  BY <1>2 DEF HasCollected, ROUNDS
<1>5. CASE d # c
  <2>1. phase'[d] = phase[d] /\ pc'[d] = pc[d] BY <1>5, StepFrame
  <2> QED BY <1>3, <1>4, <1>5, <2>1
<1>6. CASE d = c
  <2>1. Moves(c) BY StepMoves
  <2>2. /\ phase[c] \in Nat /\ iter[c] \in Nat /\ phase[c] = Base(iter[c]) + Offset(c)
        /\ Base(iter[c]) \in Nat
    BY PlaceFacts DEF PlaceInv, Typed
  <2>3. Collect(c) => pc[c] = "collect" /\ pc'[c] = "collected" /\ phase' = phase
    BY DEF Collect, Goto, PlaceInv, Typed
  <2>4. pc[c] = "collect" => phase[c] = Base(iter[c]) + 5
                             /\ Cardinality(DOMAIN rows[iter[c] + 1]) > RADIX_THRESHOLD
    BY PlaceFacts, OffsetCases DEF Taking
  <2>5. pc[c] = "collect" => (phase[c] = B + 5 <=> iter[c] = k)
    BY <1>0, <1>1, <2>2, <2>4, BaseApart DEF LongAt, ROUNDS
  <2>6. CASE Collect(c) BY <1>3, <1>4, <1>6, <2>2, <2>3, <2>5, <2>6
  <2>7. CASE ~Collect(c) /\ phase'[c] = phase[c]
    <3>1. ~(pc[c] = "collect" /\ pc'[c] = "collected")
      <4> SUFFICES ASSUME pc[c] = "collect" PROVE Collect(c)
        BY <2>7
      <4>1. ~(ShortRow(c) \/ LongRow(c) \/ LeaveStart(c) \/ Clear(c) \/ Count(c) \/ ClearNext(c))
        BY DEF ShortRow, LongRow, LeaveStart, Leave, Clear, Count, ClearNext, Goto
      <4>2. ~(Arrive(c, "counted", "meeting") \/ LeaveRound(c) \/ Scan(c))
        BY DEF Arrive, LeaveRound, Leave, Scan, Goto
      <4>3. ~(Arrive(c, "collected", "collecting") \/ LeaveCollect(c) \/ TakeEqual(c) \/ NextRow(c))
        BY DEF Arrive, LeaveCollect, Leave, TakeEqual, NextRow, Goto
      <4> QED BY <4>1, <4>2, <4>3 DEF Step
    <3>2. pc'[c] \in {"collected", "collecting"} <=> pc[c] \in {"collected", "collecting"}
      BY <2>1, <2>2, <2>7, <3>1 DEF Moves
    <3> QED BY <1>3, <1>4, <1>6, <2>7, <3>2
  <2>8. CASE ~Collect(c) /\ phase'[c] = phase[c] + 1
    <3>1. /\ pc'[c] \notin {"collected", "collecting"}
          /\ pc[c] \in {"starting", "meeting", "collecting"}
      BY <2>1, <2>2, <2>8 DEF Moves
    <3>2. phase[c] = B + 5 => pc[c] = "collecting"
      <4>1. Offset(c) \in 0 .. 5 /\ (Offset(c) = 5 => pc[c] = "collecting")
        BY <3>1, OffsetCases DEF Counting, Taking
      <4>2. ASSUME phase[c] = B + 5 PROVE Offset(c) = 5
        <5>1. Base(iter[c]) + Offset(c) = Base(k) + 5 BY <1>1, <2>2, <4>2
        <5> QED BY <1>0, <2>2, <4>1, <5>1, BaseMatch
      <4> QED BY <4>1, <4>2
    <3>3. phase[c] + 1 > B + 5 <=> phase[c] > B + 5 \/ phase[c] = B + 5 BY <2>2
    <3> QED BY <1>3, <1>4, <1>6, <2>2, <2>8, <3>1, <3>2, <3>3
  <2> QED BY <2>1, <2>6, <2>7, <2>8 DEF Moves
<1> QED BY <1>5, <1>6

-----------------------------------------------------------------------------
\* Which steps touch the output, its counter and the keys equal to the pivot.
LEMMA OutFrame ==
  ASSUME PlaceInv, NEW c \in Ctas, Step(c)
  PROVE  /\ output' = output \/ (ShortRow(c) /\ c = 0) \/ Collect(c) \/ TakeEqual(c)
         /\ taken' = taken \/ Clear(c) \/ Collect(c) \/ TakeEqual(c)
         /\ \/ LeaveCollect(c) \/ TakeEqual(c) \/ NextRow(c) \/ ShortRow(c)
            \/ iter' = iter /\ equal' = equal /\ pc[c] # "equal" /\ pc'[c] # "equal"
         /\ iter' = iter \/ NextRow(c) \/ ShortRow(c)
         /\ equal' = equal \/ LeaveCollect(c) \/ TakeEqual(c)
<1> DEFINE P ==
      /\ output' = output \/ (ShortRow(c) /\ c = 0) \/ Collect(c) \/ TakeEqual(c)
      /\ taken' = taken \/ Clear(c) \/ Collect(c) \/ TakeEqual(c)
      /\ \/ LeaveCollect(c) \/ TakeEqual(c) \/ NextRow(c) \/ ShortRow(c)
         \/ iter' = iter /\ equal' = equal /\ pc[c] # "equal" /\ pc'[c] # "equal"
      /\ iter' = iter \/ NextRow(c) \/ ShortRow(c)
      /\ equal' = equal \/ LeaveCollect(c) \/ TakeEqual(c)
<1> USE DEF select, global
<1>0. pc = [d \in Ctas |-> pc[d]] BY DEF PlaceInv, Typed
<1>1. ShortRow(c) => P BY DEF ShortRow
<1>2. LongRow(c) => P BY <1>0 DEF LongRow, Goto
<1>3. LeaveStart(c) \/ LeaveRound(c) => P BY <1>0 DEF LeaveStart, LeaveRound, Leave, Goto
<1>4. Clear(c) => P
  <2> SUFFICES ASSUME Clear(c) PROVE P OBVIOUS
  <2>1. iter' = iter /\ equal' = equal /\ output' = output /\ pc[c] = "clear" /\ pc'[c] = "count"
    BY <1>0 DEF Clear, Goto
  <2> QED BY <2>1
<1>5. Count(c) \/ ClearNext(c) \/ Scan(c) => P
  <2>1. Count(c) => P BY <1>0 DEF Count, Goto
  <2>2. ClearNext(c) => P BY <1>0 DEF ClearNext, Goto
  <2>3. Scan(c) => P BY <1>0 DEF Scan, Goto
  <2> QED BY <2>1, <2>2, <2>3
<1>6. Collect(c) => P
  <2> SUFFICES ASSUME Collect(c) PROVE P OBVIOUS
  <2>1. iter' = iter /\ equal' = equal /\ pc[c] = "collect" /\ pc'[c] = "collected"
    BY <1>0 DEF Collect, Goto
  <2> QED BY <2>1
<1>7. LeaveCollect(c) => P
  <2> SUFFICES ASSUME LeaveCollect(c) PROVE P OBVIOUS
  <2>1. iter' = iter /\ output' = output /\ taken' = taken BY DEF LeaveCollect
  <2> QED BY <2>1
<1>8. TakeEqual(c) => P
  <2> SUFFICES ASSUME TakeEqual(c) PROVE P OBVIOUS
  <2>1. iter' = iter BY DEF TakeEqual
  <2> QED BY <2>1
<1>9. NextRow(c) => P
  <2> SUFFICES ASSUME NextRow(c) PROVE P OBVIOUS
  <2>1. output' = output /\ taken' = taken /\ equal' = equal BY DEF NextRow
  <2> QED BY <2>1
<1>10. Arrive(c, "counted", "meeting") \/ Arrive(c, "collected", "collecting") => P
  BY <1>0 DEF Arrive, Goto
<1> HIDE DEF P
<1>11. P BY <1>1, <1>2, <1>3, <1>4, <1>5, <1>6, <1>7, <1>8, <1>9, <1>10 DEF Step
<1> QED BY <1>11 DEF P

\* In the rounds of the output every CTA knows the pivot.
LEMMA PivotKnown ==
  ASSUME PlaceInv, RingInv, NEW c \in Ctas, pc[c] \in Taking
  PROVE  prefix[c] = Pivot(Row(c))
<1>1. Agreed(c) /\ round[c] = 4 /\ pc[c] # "row"
  BY OffsetCases DEF RingInv, Taking
<1> QED BY <1>1 DEF Agreed, FoundIn, Pivot

LEMMA TakenStep ==
  ASSUME PlaceInv, RingInv, OutTyped, NEW c \in Ctas, Step(c), NEW k \in RowIndex, LongAt(k),
         NEW d \in Ctas, NEW i \in Equal(rows[k + 1]), i \div CHUNK_SIZE = d
  PROVE  HasTaken(d, k, i)' <=>
           HasTaken(d, k, i) \/ (d = c /\ TakeEqual(c) /\ iter[c] = k /\ i \in equal[c] \ equal'[c])
<1> USE DEF select, global
<1>0. /\ rows \in Batches /\ k \in Nat /\ iter \in [Ctas -> Nat] /\ pc = [e \in Ctas |-> pc[e]]
      /\ equal = [e \in Ctas |-> equal[e]]
  BY RowBounds DEF PlaceInv, Typed, OutTyped
<1>1. CASE d # c
  <2>1. iter'[d] = iter[d] /\ pc'[d] = pc[d] BY <1>1, StepFrame
  <2>2. equal'[d] = equal[d]
    <3>1. LeaveCollect(c) => equal'[d] = equal[d] BY <1>0, <1>1 DEF LeaveCollect
    <3>2. TakeEqual(c) => equal'[d] = equal[d] BY <1>0, <1>1 DEF TakeEqual
    <3> QED BY <3>1, <3>2, OutFrame
  <2> QED BY <1>1, <2>1, <2>2 DEF HasTaken
<1>2. CASE d = c
  <2>1. CASE TakeEqual(c)
    <3>1. iter' = iter /\ pc' = pc /\ pc[c] = "equal" /\ equal'[c] \subseteq equal[c]
      BY <1>0, <2>1 DEF TakeEqual
    <3> QED BY <1>0, <1>2, <2>1, <3>1 DEF HasTaken
  <2>2. CASE LeaveCollect(c)
    <3>1. /\ iter' = iter /\ pc[c] = "collecting" /\ pc'[c] = "equal"
          /\ equal'[c] = {j \in Chunk(c) : Row(c)[j] = prefix[c]}
      BY <1>0, <2>2 DEF LeaveCollect, Leave, Goto
    <3>2. prefix[c] = Pivot(Row(c)) BY <3>1, PivotKnown DEF Taking
    <3>3. iter[c] = k => i \in equal'[c]
      BY <1>2, <3>1, <3>2 DEF Chunk, Row, Equal
    <3>4. ~TakeEqual(c) BY <3>1 DEF TakeEqual
    <3> QED BY <1>0, <1>2, <3>1, <3>3, <3>4 DEF HasTaken
  <2>3. CASE NextRow(c)
    <3>1. /\ iter'[c] = iter[c] + 1 /\ pc[c] = "equal" /\ pc'[c] = "row" /\ equal' = equal
          /\ equal[c] = {}
      BY <1>0, <2>3 DEF NextRow, Goto
    <3>2. iter[c] \in Nat BY <1>0
    <3> QED BY <1>0, <1>2, <3>1, <3>2 DEF HasTaken
  <2>4. CASE ShortRow(c)
    <3>1. /\ iter'[c] = iter[c] + 1 /\ pc[c] = "row" /\ pc'[c] = "row" /\ ~Long(c)
      BY <1>0, <2>4 DEF ShortRow
    <3>2. iter[c] \in Nat /\ iter[c] # k BY <1>0, <3>1 DEF Long, Row, LongAt
    <3>3. ~TakeEqual(c) BY <3>1 DEF TakeEqual
    <3> QED BY <1>0, <1>2, <3>1, <3>2, <3>3 DEF HasTaken
  <2>5. CASE iter' = iter /\ equal' = equal /\ pc[c] # "equal" /\ pc'[c] # "equal"
    BY <1>0, <1>2, <2>5 DEF HasTaken
  <2> QED BY <2>1, <2>2, <2>3, <2>4, <2>5, OutFrame
<1> QED BY <1>1, <1>2

\* Before a CTA collects, nobody has taken a key equal to the pivot; before one takes
\* such a key, everybody has collected.
LEMMA CollectFirst ==
  ASSUME BarrierInv, PlaceInv, NEW c \in Ctas
  PROVE  /\ pc[c] = "collect" => /\ ~HasCollected(c, iter[c])
                                 /\ \A d \in Ctas : \A i : ~HasTaken(d, iter[c], i)
         /\ pc[c] = "equal" => \A d \in Ctas : HasCollected(d, iter[c])
         /\ pc[c] = "clear" => /\ \A d \in Ctas : ~HasCollected(d, iter[c])
                               /\ \A d \in Ctas : \A i : ~HasTaken(d, iter[c], i)
<1>1. PICK B \in Nat : B = Base(iter[c]) BY PlaceFacts
<1>2. /\ iter[c] \in Nat /\ phase[c] \in Nat
      /\ pc[c] # "row" => Cardinality(DOMAIN rows[iter[c] + 1]) > RADIX_THRESHOLD
  BY PlaceFacts
<1>3. ASSUME NEW d \in Ctas, NEW i, HasTaken(d, iter[c], i), pc[c] # "row" PROVE phase[d] >= B + 6
  <2>1. iter[c] \in Nat /\ iter[d] \in Nat /\ phase[d] = Base(iter[d]) + Offset(d)
        /\ Base(iter[d]) \in Nat /\ Offset(d) \in 0 .. 6
    BY PlaceFacts
  <2>2. CASE iter[d] > iter[c]
    <3>1. B + 6 <= Base(iter[d])
      BY <1>1, <1>2, <1>3, <2>1, <2>2, BaseApart DEF ROUNDS
    <3> QED BY <2>1, <3>1
  <2>3. CASE iter[d] = iter[c] /\ pc[d] = "equal"
    BY <1>1, <2>1, <2>3, OffsetCases
  <2> QED BY <1>3, <2>2, <2>3 DEF HasTaken
<1>4. CASE pc[c] = "collect"
  <2>1. phase[c] = B + 5 /\ Reached(c) = phase[c]
    BY <1>1, <1>4, PlaceFacts, OffsetCases DEF Taking
  <2>2. ~HasCollected(c, iter[c]) BY <1>1, <1>4, <2>1 DEF HasCollected, ROUNDS
  <2>3. \A d \in Ctas : phase[d] \in Nat /\ phase[d] <= B + 5 BY <2>1, Together
  <2>4. \A d \in Ctas : \A i : ~HasTaken(d, iter[c], i) BY <1>1, <1>3, <1>4, <2>3
  <2> QED BY <1>4, <2>2, <2>4
<1>5. CASE pc[c] = "equal"
  <2>1. phase[c] = B + 6 BY <1>1, <1>5, PlaceFacts, OffsetCases
  <2>2. ASSUME NEW d \in Ctas PROVE HasCollected(d, iter[c])
    <3>1. phase[d] \in Nat /\ B + 6 <= Reached(d) BY <1>1, <2>1, Together
    <3>2. CASE phase[d] >= B + 6
      BY <1>1, <3>1, <3>2 DEF HasCollected, ROUNDS
    <3>3. CASE phase[d] < B + 6
      <4>1. phase[d] = B + 5 /\ pc[d] \in {"starting", "meeting", "collecting"}
        BY <3>1, <3>3, OffsetCases
      <4>2. pc[c] # "row" /\ phase[d] \in Base(iter[c]) + 1 .. Base(iter[c]) + 5
        BY <1>1, <1>5, <4>1
      <4>3. Offset(d) = 5 BY <1>1, <4>1, <4>2, InRow
      <4>4. pc[d] = "collecting" BY <4>1, <4>3, OffsetCases DEF Counting
      <4> QED BY <1>1, <4>1, <4>4 DEF HasCollected, ROUNDS
    <3> QED BY <3>1, <3>2, <3>3
  <2> QED BY <1>5, <2>2
<1>6. CASE pc[c] = "clear"
  <2>1. phase[c] = B + 1 /\ Reached(c) = phase[c]
    BY <1>1, <1>6, PlaceFacts, OffsetCases
  <2>2. \A d \in Ctas : phase[d] \in Nat /\ phase[d] <= B + 1 BY <2>1, Together
  <2>3. \A d \in Ctas : ~HasCollected(d, iter[c])
    BY <1>1, <2>2 DEF HasCollected, ROUNDS
  <2>4. \A d \in Ctas : \A i : ~HasTaken(d, iter[c], i) BY <1>1, <1>3, <1>6, <2>2
  <2> QED BY <1>6, <2>3, <2>4
<1> QED BY <1>4, <1>5, <1>6

-----------------------------------------------------------------------------
LEMMA AboveDoneStep ==
  ASSUME PlaceInv, NEW c \in Ctas, Step(c), NEW k \in RowIndex, LongAt(k)
  PROVE  AboveDone(k)' = AboveDone(k) \cup
           {i \in Above(rows[k + 1]) : Collect(c) /\ iter[c] = k /\ i \div CHUNK_SIZE = c}
<1>1. rows' = rows BY StepFrame
<1>2. \A d \in Ctas : HasCollected(d, k)' <=> HasCollected(d, k) \/ (d = c /\ Collect(c) /\ iter[c] = k)
  BY CollectedStep
<1>3. AboveDone(k)' = {i \in Above(rows[k + 1]) :
                         \E d \in Ctas : i \div CHUNK_SIZE = d /\ HasCollected(d, k)'}
  BY <1>1 DEF AboveDone
<1> QED BY <1>2, <1>3 DEF AboveDone

LEMMA EqualDoneStep ==
  ASSUME PlaceInv, RingInv, OutTyped, NEW c \in Ctas, Step(c), NEW k \in RowIndex, LongAt(k)
  PROVE  EqualDone(k)' = EqualDone(k) \cup
           {i \in Equal(rows[k + 1]) : /\ TakeEqual(c) /\ iter[c] = k /\ i \div CHUNK_SIZE = c
                                       /\ i \in equal[c] \ equal'[c]}
<1>1. rows' = rows BY StepFrame
<1>2. \A d \in Ctas, i \in Equal(rows[k + 1]) : i \div CHUNK_SIZE = d =>
        (HasTaken(d, k, i)' <=> HasTaken(d, k, i)
           \/ (d = c /\ TakeEqual(c) /\ iter[c] = k /\ i \in equal[c] \ equal'[c]))
  BY TakenStep
<1>3. EqualDone(k)' = {i \in Equal(rows[k + 1]) :
                         \E d \in Ctas : i \div CHUNK_SIZE = d /\ HasTaken(d, k, i)'}
  BY <1>1 DEF EqualDone
<1> QED BY <1>2, <1>3 DEF EqualDone

LEMMA DoneFacts ==
  ASSUME rows \in Batches, NEW k \in RowIndex, LongAt(k)
  PROVE  /\ IsFiniteSet(AboveDone(k)) /\ IsFiniteSet(EqualDone(k))
         /\ Cardinality(AboveDone(k)) \in Nat /\ Cardinality(EqualDone(k)) \in Nat
         /\ Cardinality(AboveDone(k)) < TOPK
         /\ AboveDone(k) \cap EqualDone(k) = {}
         /\ AboveDone(k) \cup EqualDone(k) \subseteq DOMAIN rows[k + 1]
<1>1. LongEnough(rows[k + 1]) BY RowBounds
<1>2. /\ IsFiniteSet(Above(rows[k + 1])) /\ IsFiniteSet(Equal(rows[k + 1]))
      /\ Above(rows[k + 1]) \cap Equal(rows[k + 1]) = {}
      /\ Cardinality(Above(rows[k + 1])) \in Nat /\ Cardinality(Above(rows[k + 1])) < TOPK
  BY <1>1, PivotFacts
<1>3. /\ AboveDone(k) \subseteq Above(rows[k + 1]) /\ EqualDone(k) \subseteq Equal(rows[k + 1])
  BY DEF AboveDone, EqualDone
<1>4. /\ IsFiniteSet(AboveDone(k)) /\ IsFiniteSet(EqualDone(k))
      /\ Cardinality(AboveDone(k)) <= Cardinality(Above(rows[k + 1]))
  BY <1>2, <1>3, FS_Subset
<1>5. /\ Cardinality(AboveDone(k)) \in Nat /\ Cardinality(EqualDone(k)) \in Nat
  BY <1>4, FS_CardinalityType
<1> QED BY <1>2, <1>3, <1>4, <1>5, Parameters DEF Above, Equal

\* The keys a CTA collects.
NewOf(c) == {i \in Above(Row(c)) : i \div CHUNK_SIZE = c}

Storing(c, n, at) ==
  /\ output' = Stored(c, at) /\ DOMAIN at = taken .. taken + n - 1
  /\ \A p \in DOMAIN at : at[p] \in NewOf(c)
  /\ \A p, q \in DOMAIN at : at[p] = at[q] => p = q
  /\ \A i \in NewOf(c) : \E p \in DOMAIN at : at[p] = i

\* What Collect stores: its keys above the pivot, at places of their own.
LEMMA CollectStores ==
  ASSUME SelectInv, OutInv, NEW c \in Ctas, Collect(c), NEW k \in Nat, k = iter[c],
         NEW n, n = Cardinality(NewOf(c))
  PROVE  /\ k \in RowIndex /\ LongAt(k) /\ Current(k) /\ n \in Nat /\ IsFiniteSet(NewOf(c))
         /\ taken \in Nat /\ taken' = taken + n /\ taken + n < TOPK
         /\ taken = Cardinality(AboveDone(k)) /\ EqualDone(k) = {}
         /\ NewOf(c) \cap AboveDone(k) = {}
         /\ \E at : Storing(c, n, at)
<1>s. BarrierInv /\ PlaceInv /\ RingInv BY DEF SelectInv
<1>0. pc[c] = "collect" BY DEF Collect, Goto
<1>1. k \in RowIndex /\ LongAt(k) /\ Current(k) /\ rows \in Batches
  BY <1>s, <1>0, TakingCurrent DEF Taking
<1>2. LongEnough(rows[k + 1]) BY <1>1, RowBounds
<1>3. /\ IsFiniteSet(Above(rows[k + 1])) /\ Cardinality(Above(rows[k + 1])) \in Nat
      /\ Cardinality(Above(rows[k + 1])) < TOPK
  BY <1>2, PivotFacts
<1>n. PICK new : new = NewOf(c) /\ new = {i \in Above(rows[k + 1]) : i \div CHUNK_SIZE = c}
  BY DEF NewOf, Row
<1>4. IsFiniteSet(new) /\ new \subseteq Above(rows[k + 1]) /\ new \subseteq Nat
  <2>1. new \subseteq Above(rows[k + 1]) BY <1>n
  <2>2. Above(rows[k + 1]) \subseteq Nat BY <1>1, RowBounds DEF Above
  <2> QED BY <1>3, <2>1, <2>2, FS_Subset
<1>5. n \in Nat /\ n = Cardinality(new) BY <1>4, <1>n, FS_CardinalityType
<1>6. EqualDone(k) = {} /\ ~HasCollected(c, k)
  BY <1>s, <1>0, CollectFirst DEF EqualDone
<1>7. new \cap AboveDone(k) = {} BY <1>6, <1>n DEF AboveDone
<1>8. taken = Cardinality(AboveDone(k)) /\ taken \in Nat
  <2>1. taken = Cardinality(AboveDone(k)) + Cardinality(EqualDone(k))
    BY <1>1 DEF OutInv, Filled
  <2>2. Cardinality(EqualDone(k)) = 0 BY <1>6, FS_EmptySet
  <2>3. Cardinality(AboveDone(k)) \in Nat BY <1>1, DoneFacts
  <2> QED BY <2>1, <2>2, <2>3
<1>9. taken + n < TOPK
  <2>1. IsFiniteSet(AboveDone(k)) BY <1>1, DoneFacts
  <2>2. Cardinality(AboveDone(k) \cup new) = taken + n
    BY <1>4, <1>5, <1>7, <1>8, <2>1, UnionSize
  <2>3. AboveDone(k) \cup new \subseteq Above(rows[k + 1]) BY <1>4 DEF AboveDone
  <2>4. Cardinality(AboveDone(k) \cup new) <= Cardinality(Above(rows[k + 1]))
    BY <1>3, <2>3, FS_Subset
  <2> QED BY <1>3, <1>5, <1>8, <2>2, <2>4, Parameters
<1>10. new = {i \in Chunk(c) : Row(c)[i] > prefix[c]}
  <2>1. prefix[c] = Pivot(Row(c)) /\ Row(c) = rows[k + 1]
    BY <1>s, <1>0, PivotKnown DEF Taking, Row
  <2> QED BY <1>n, <2>1 DEF Chunk, Above
<1>11. PICK at : /\ taken' = taken + n /\ output' = Stored(c, at)
                 /\ at = [p \in taken .. taken + n - 1 |-> Nth(new, p - taken)]
  <2> DEFINE above == {i \in Chunk(c) : Row(c)[i] > prefix[c]}
             place(s) == [p \in taken .. taken + Cardinality(s) - 1 |->
                            CHOOSE i \in s : Cardinality({j \in s : j < i}) = p - taken]
  <2>1. taken' = taken + Cardinality(above) /\ output' = Stored(c, place(above))
    BY DEF Collect
  <2>2. above = new BY <1>10
  <2> HIDE DEF above
  <2>3. taken' = taken + n /\ output' = Stored(c, place(new)) BY <1>5, <2>1, <2>2
  <2>4. place(new) = [p \in taken .. taken + n - 1 |-> Nth(new, p - taken)]
    BY <1>5 DEF Nth
  <2> QED BY <2>3, <2>4
<1>12. \A p \in taken .. taken + n - 1 : p - taken \in 0 .. n - 1 BY <1>5, <1>8
<1>13. \A m \in 0 .. n - 1 : taken + m \in taken .. taken + n - 1 /\ (taken + m) - taken = m
  BY <1>5, <1>8
<1>14. /\ \A m \in 0 .. n - 1 : Nth(new, m) \in new
       /\ \A m, l \in 0 .. n - 1 : Nth(new, m) = Nth(new, l) => m = l
       /\ \A i \in new : \E m \in 0 .. n - 1 : Nth(new, m) = i
  <2>1. \A m \in 0 .. n - 1 : Nth(new, m) \in new BY <1>4, <1>5, NthOnto
  <2>2. \A m, l \in 0 .. n - 1 : Nth(new, m) = Nth(new, l) => m = l BY <1>4, <1>5, NthOnto
  <2>3. \A i \in new : \E m \in 0 .. n - 1 : Nth(new, m) = i BY <1>4, <1>5, NthOnto
  <2> QED BY <2>1, <2>2, <2>3
<1>15. DOMAIN at = taken .. taken + n - 1 /\ \A p \in DOMAIN at : at[p] \in new
  BY <1>11, <1>12, <1>14
<1>16. ASSUME NEW p \in DOMAIN at, NEW q \in DOMAIN at, at[p] = at[q] PROVE p = q
  <2>1. p - taken = q - taken BY <1>11, <1>12, <1>14, <1>16
  <2>2. p \in Int /\ q \in Int BY <1>5, <1>8, <1>15
  <2> QED BY <1>8, <2>1, <2>2
<1>17. \A i \in new : \E p \in DOMAIN at : at[p] = i
  <2> TAKE i \in new
  <2>1. PICK m \in 0 .. n - 1 : Nth(new, m) = i BY <1>14
  <2>2. taken + m \in DOMAIN at /\ at[taken + m] = i BY <1>11, <1>13, <2>1
  <2> QED BY <2>2
<1>18. Storing(c, n, at)
  <2>1. \A p, q \in DOMAIN at : at[p] = at[q] => p = q BY <1>16
  <2>2. output' = Stored(c, at) BY <1>11
  <2> QED BY <2>1, <2>2, <1>n, <1>15, <1>17 DEF Storing
<1>19. new = NewOf(c) BY <1>n
<1>20. taken' = taken + n BY <1>11
<1> QED BY <1>19, <1>20, <1>1, <1>4, <1>5, <1>6, <1>7, <1>8, <1>9, <1>18

LEMMA CollectFills ==
  ASSUME SelectInv, OutInv, NEW c \in Ctas, Step(c), Collect(c), NEW k \in Nat, k = iter[c]
  PROVE  /\ Filled(k)'
         /\ output' \in [0 .. Len(rows) * TOPK - 1 -> Unwritten .. CTAS * CHUNK_SIZE - 1]
         /\ \A j \in RowIndex \ {k}, p \in 0 .. TOPK - 1 : output'[j * TOPK + p] = output[j * TOPK + p]
<1>0. PICK n, new : n = Cardinality(NewOf(c)) /\ new = NewOf(c) OBVIOUS
<1>1. /\ k \in RowIndex /\ LongAt(k) /\ Current(k) /\ n \in Nat /\ IsFiniteSet(new)
      /\ taken \in Nat /\ taken' = taken + n /\ taken + n < TOPK
      /\ taken = Cardinality(AboveDone(k)) /\ EqualDone(k) = {}
      /\ new \cap AboveDone(k) = {}
  BY <1>0, CollectStores
<1>2. PICK at : /\ output' = Stored(c, at) /\ DOMAIN at = taken .. taken + n - 1
                /\ \A p \in DOMAIN at : at[p] \in new
                /\ \A p, q \in DOMAIN at : at[p] = at[q] => p = q
                /\ \A i \in new : \E p \in DOMAIN at : at[p] = i
  <2>1. PICK at : Storing(c, n, at) BY <1>0, CollectStores
  <2> QED BY <1>0, <2>1 DEF Storing
<1>3. rows \in Batches /\ PlaceInv /\ RingInv /\ OutTyped BY DEF SelectInv, PlaceInv, Typed, OutInv
<1>4. AboveDone(k)' = AboveDone(k) \cup new
  <2>1. AboveDone(k)' = AboveDone(k) \cup
           {i \in Above(rows[k + 1]) : Collect(c) /\ iter[c] = k /\ i \div CHUNK_SIZE = c}
    BY <1>1, <1>3, AboveDoneStep
  <2>2. new = {i \in Above(rows[k + 1]) : i \div CHUNK_SIZE = c} BY <1>0 DEF NewOf, Row
  <2> QED BY <2>1, <2>2
<1>5. EqualDone(k)' = EqualDone(k)
  <2>1. ~TakeEqual(c) BY DEF Collect, Goto, TakeEqual
  <2>2. EqualDone(k)' = EqualDone(k) \cup
           {i \in Equal(rows[k + 1]) : /\ TakeEqual(c) /\ iter[c] = k /\ i \div CHUNK_SIZE = c
                                       /\ i \in equal[c] \ equal'[c]}
    BY <1>1, <1>3, EqualDoneStep
  <2> QED BY <2>1, <2>2
<1>6. taken' = Cardinality(AboveDone(k)') + Cardinality(EqualDone(k)')
  <2>1. IsFiniteSet(AboveDone(k)) BY <1>1, <1>3, DoneFacts
  <2>2. Cardinality(AboveDone(k)') = taken + n BY <1>0, <1>1, <1>4, <2>1, UnionSize
  <2>3. Cardinality(EqualDone(k)') = 0 BY <1>1, <1>5, FS_EmptySet
  <2> QED BY <1>1, <2>2, <2>3
<1>7. /\ output' \in [0 .. Len(rows) * TOPK - 1 -> Unwritten .. CTAS * CHUNK_SIZE - 1]
      /\ \A j \in RowIndex, p \in 0 .. TOPK - 1 : output'[j * TOPK + p] =
           IF j = k /\ p \in DOMAIN at THEN at[p] ELSE output[j * TOPK + p]
  <2>1. DOMAIN at \subseteq 0 .. TOPK - 1 BY <1>1, <1>2, Parameters
  <2>2. new \subseteq 0 .. CTAS * CHUNK_SIZE - 1
    <3>1. new \subseteq DOMAIN rows[k + 1] BY <1>0 DEF NewOf, Above, Row
    <3> QED BY <1>1, <1>3, <3>1, RowBounds
  <2>3. CTAS * CHUNK_SIZE \in Nat BY <1>1, <1>3, RowBounds
  <2>4. \A p \in DOMAIN at : at[p] \in Unwritten .. CTAS * CHUNK_SIZE - 1
    <3>1. PICK m \in Nat : m = CTAS * CHUNK_SIZE BY <2>3
    <3>2. \A p \in DOMAIN at : at[p] \in 0 .. m - 1 BY <1>2, <2>2, <3>1
    <3>3. 0 .. m - 1 \subseteq Unwritten .. m - 1 BY DEF Unwritten
    <3> QED BY <3>1, <3>2, <3>3
  <2>5. Len(rows) \in Nat BY <1>1, <1>3, RowBounds
  <2>6. iter[c] \in RowIndex BY <1>1
  <2>7. output' \in [0 .. Len(rows) * TOPK - 1 -> Unwritten .. CTAS * CHUNK_SIZE - 1]
    BY <1>2, <1>3, <2>1, <2>4, <2>5, <2>6, StoredFacts
  <2>8. \A j \in RowIndex, p \in 0 .. TOPK - 1 : Stored(c, at)[j * TOPK + p] =
           IF j = iter[c] /\ p \in DOMAIN at THEN at[p] ELSE output[j * TOPK + p]
    BY <1>3, <2>1, <2>4, <2>5, <2>6, StoredFacts
  <2> QED BY <1>2, <2>7, <2>8
<1> DEFINE out(p) == output[k * TOPK + p]
           nout(p) == output'[k * TOPK + p]
<1>8. Places = 0 .. taken - 1 /\ Places' = 0 .. taken + n - 1
      /\ Places' = Places \cup DOMAIN at /\ Places \cap DOMAIN at = {}
  <2>1. Places = {p \in 0 .. TOPK - 1 : p < taken} /\ Places' = {p \in 0 .. TOPK - 1 : p < taken'}
    BY DEF Places
  <2>2. Places = 0 .. taken - 1 BY <1>1, <2>1, Parameters
  <2>3. Places' = 0 .. taken + n - 1 BY <1>1, <2>1, Parameters
  <2> QED BY <1>1, <1>2, <2>2, <2>3
<1>9. /\ \A p \in Places : nout(p) = out(p)
      /\ \A p \in DOMAIN at : nout(p) = at[p]
  <2>1. \A p \in Places \cup DOMAIN at : p \in 0 .. TOPK - 1
    BY <1>1, <1>2, <1>8, Parameters
  <2> QED BY <1>1, <1>7, <1>8, <2>1
<1>10. /\ \A p \in Places : out(p) \in AboveDone(k)
       /\ \A p, q \in Places : out(p) = out(q) => p = q
       /\ \A i \in AboveDone(k) : \E p \in Places : out(p) = i
  <2>1. Filled(k) BY <1>1 DEF OutInv
  <2>2. \A p \in Places : OutputOf(k)[p] = out(p) BY DEF OutputOf, Places
  <2> HIDE DEF out
  <2> QED BY <1>1, <2>1, <2>2 DEF Filled
<1> HIDE DEF out, nout
<1>11. /\ \A p \in Places' : nout(p) \in AboveDone(k)' \cup EqualDone(k)'
       /\ \A p, q \in Places' : nout(p) = nout(q) => p = q
       /\ \A i \in AboveDone(k)' : \E p \in Places' : nout(p) = i
  <2>1. \A p \in Places' : nout(p) \in AboveDone(k)' BY <1>2, <1>4, <1>8, <1>9, <1>10
  <2>2. \A p, q \in Places' : nout(p) = nout(q) => p = q
    <3> TAKE p, q \in Places'
    <3>1. CASE p \in Places /\ q \in Places BY <1>9, <1>10, <3>1
    <3>2. CASE p \in DOMAIN at /\ q \in DOMAIN at BY <1>2, <1>9, <3>2
    <3>3. CASE p \in Places /\ q \in DOMAIN at BY <1>1, <1>2, <1>9, <1>10, <3>3
    <3>4. CASE q \in Places /\ p \in DOMAIN at BY <1>1, <1>2, <1>9, <1>10, <3>4
    <3> QED BY <1>8, <3>1, <3>2, <3>3, <3>4
  <2>3. \A i \in AboveDone(k)' : \E p \in Places' : nout(p) = i
    BY <1>2, <1>4, <1>8, <1>9, <1>10
  <2> QED BY <2>1, <2>2, <2>3
<1>12. \A p \in Places' : OutputOf(k)'[p] = nout(p)
  <2>1. OutputOf(k)' = [p \in 0 .. TOPK - 1 |-> output'[k * TOPK + p]] BY DEF OutputOf
  <2>2. \A p \in Places' : p \in 0 .. TOPK - 1 BY DEF Places
  <2> QED BY <2>1, <2>2 DEF nout
<1>14. Filled(k)' BY <1>6, <1>11, <1>12 DEF Filled
<1> QED BY <1>7, <1>14

-----------------------------------------------------------------------------
LEMMA TakeFills ==
  ASSUME SelectInv, OutInv, NEW c \in Ctas, Step(c), TakeEqual(c), NEW k \in Nat, k = iter[c]
  PROVE  /\ Filled(k)'
         /\ output' \in [0 .. Len(rows) * TOPK - 1 -> Unwritten .. CTAS * CHUNK_SIZE - 1]
         /\ \A j \in RowIndex \ {k}, p \in 0 .. TOPK - 1 : output'[j * TOPK + p] = output[j * TOPK + p]
<1>0. pc[c] = "equal" BY DEF TakeEqual
<1>s. BarrierInv /\ PlaceInv /\ RingInv /\ OutTyped BY DEF SelectInv, OutInv
<1>1. k \in RowIndex /\ LongAt(k) /\ Current(k) /\ rows \in Batches
  BY <1>s, <1>0, TakingCurrent DEF Taking
<1>2. PICK i \in equal[c] :
        /\ output' = IF taken < TOPK THEN Stored(c, [p \in {taken} |-> i]) ELSE output
        /\ equal' = [equal EXCEPT ![c] = @ \ {i}]
  BY DEF TakeEqual
<1>3. taken' = taken + 1 BY DEF TakeEqual
<1>4. i \in Equal(rows[k + 1]) /\ i \in Chunk(c) /\ i \div CHUNK_SIZE = c
      /\ i \in DOMAIN rows[k + 1]
  <2>1. equal[c] \subseteq Equal(Row(c)) \cap Chunk(c) BY <1>s, <1>0 DEF OutTyped
  <2> QED BY <1>2, <2>1 DEF Row, Chunk
<1>5. equal[c] \ equal'[c] = {i}
  <2>1. equal = [d \in Ctas |-> equal[d]] BY <1>s DEF OutTyped
  <2>2. equal'[c] = equal[c] \ {i} BY <1>2, <2>1
  <2> QED BY <2>2
<1>6. AboveDone(k)' = AboveDone(k)
  <2>1. ~Collect(c) BY <1>0 DEF Collect, Goto
  <2>2. AboveDone(k)' = AboveDone(k) \cup
           {j \in Above(rows[k + 1]) : Collect(c) /\ iter[c] = k /\ j \div CHUNK_SIZE = c}
    BY <1>1, <1>s, AboveDoneStep
  <2> QED BY <2>1, <2>2
<1>7. EqualDone(k)' = EqualDone(k) \cup {i}
  <2>1. EqualDone(k)' = EqualDone(k) \cup
           {j \in Equal(rows[k + 1]) : /\ TakeEqual(c) /\ iter[c] = k /\ j \div CHUNK_SIZE = c
                                       /\ j \in equal[c] \ equal'[c]}
    BY <1>1, <1>s, EqualDoneStep
  <2> QED BY <1>4, <1>5, <2>1
<1>8. i \notin EqualDone(k) /\ i \notin AboveDone(k)
  <2>1. i \notin EqualDone(k)
    BY <1>s, <1>1, <1>2, <1>4 DEF EqualDone, HasTaken
  <2>2. Above(rows[k + 1]) \cap Equal(rows[k + 1]) = {}
    <3>1. LongEnough(rows[k + 1]) BY <1>1, RowBounds
    <3> QED BY <3>1, PivotFacts
  <2> QED BY <1>4, <2>1, <2>2 DEF AboveDone
<1>9. /\ IsFiniteSet(EqualDone(k)) /\ Cardinality(EqualDone(k)) \in Nat
      /\ Cardinality(AboveDone(k)) \in Nat
      /\ taken = Cardinality(AboveDone(k)) + Cardinality(EqualDone(k)) /\ Filled(k)
  BY <1>1, DoneFacts DEF OutInv, Filled
<1>10. taken' = Cardinality(AboveDone(k)') + Cardinality(EqualDone(k)')
  <2>1. Cardinality(EqualDone(k)') = Cardinality(EqualDone(k)) + 1
    BY <1>7, <1>8, <1>9, FS_AddElement
  <2> QED BY <1>3, <1>6, <1>9, <2>1
<1>11. taken \in Nat BY <1>9
<1>12. /\ output' \in [0 .. Len(rows) * TOPK - 1 -> Unwritten .. CTAS * CHUNK_SIZE - 1]
       /\ \A j \in RowIndex, p \in 0 .. TOPK - 1 : output'[j * TOPK + p] =
            IF j = k /\ p = taken THEN i ELSE output[j * TOPK + p]
  <2>1. CASE taken < TOPK
    <3> DEFINE at == [p \in {taken} |-> i]
    <3>1. output' = Stored(c, at) BY <1>2, <2>1
    <3>2. DOMAIN at = {taken} /\ \A p \in DOMAIN at : at[p] = i OBVIOUS
    <3>3. DOMAIN at \subseteq 0 .. TOPK - 1 BY <1>11, <2>1, <3>2, Parameters
    <3>4. \A p \in DOMAIN at : at[p] \in Unwritten .. CTAS * CHUNK_SIZE - 1
      <4>1. i \in 0 .. CTAS * CHUNK_SIZE - 1 BY <1>1, <1>4, RowBounds
      <4>2. PICK m : m = CTAS * CHUNK_SIZE OBVIOUS
      <4>3. i \in Unwritten .. m - 1 BY <4>1, <4>2 DEF Unwritten
      <4> QED BY <3>2, <4>2, <4>3
    <3>5. Len(rows) \in Nat /\ iter[c] \in RowIndex BY <1>1, RowBounds
    <3> HIDE DEF at
    <3>6. /\ Stored(c, at) \in [0 .. Len(rows) * TOPK - 1 -> Unwritten .. CTAS * CHUNK_SIZE - 1]
          /\ \A j \in RowIndex, p \in 0 .. TOPK - 1 : Stored(c, at)[j * TOPK + p] =
                IF j = iter[c] /\ p \in DOMAIN at THEN at[p] ELSE output[j * TOPK + p]
      BY <1>s, <3>3, <3>4, <3>5, StoredFacts
    <3> QED BY <3>1, <3>2, <3>6
  <2>2. CASE ~(taken < TOPK)
    <3>1. output' = output BY <1>2, <2>2
    <3>2. \A p \in 0 .. TOPK - 1 : p # taken BY <1>11, <2>2, Parameters
    <3> QED BY <1>s, <3>1, <3>2 DEF OutTyped
  <2> QED BY <2>1, <2>2
<1> DEFINE out(p) == output[k * TOPK + p]
           nout(p) == output'[k * TOPK + p]
<1>13. /\ \A p \in Places' : p \in Places \/ p = taken
       /\ Places \subseteq Places' /\ taken \notin Places
  BY <1>3, <1>11, Parameters DEF Places
<1>14. /\ \A p \in Places : nout(p) = out(p)
       /\ taken \in Places' => nout(taken) = i
  BY <1>1, <1>12, <1>13 DEF Places
<1>15. /\ \A p \in Places : out(p) \in AboveDone(k) \cup EqualDone(k)
       /\ \A p, q \in Places : out(p) = out(q) => p = q
       /\ \A j \in AboveDone(k) : \E p \in Places : out(p) = j
  <2>1. \A p \in Places : OutputOf(k)[p] = out(p) BY DEF OutputOf, Places
  <2> HIDE DEF out
  <2> QED BY <1>9, <2>1 DEF Filled
<1> HIDE DEF out, nout
<1>16. \A p, q \in Places' : nout(p) = nout(q) => p = q
  BY <1>8, <1>13, <1>14, <1>15
<1>17. /\ \A p \in Places' : nout(p) \in AboveDone(k)' \cup EqualDone(k)'
       /\ \A j \in AboveDone(k)' : \E p \in Places' : nout(p) = j
  BY <1>6, <1>7, <1>13, <1>14, <1>15
<1>18. \A p \in Places' : OutputOf(k)'[p] = nout(p)
  <2>1. OutputOf(k)' = [p \in 0 .. TOPK - 1 |-> output'[k * TOPK + p]] BY DEF OutputOf
  <2>2. \A p \in Places' : p \in 0 .. TOPK - 1 BY DEF Places
  <2> QED BY <2>1, <2>2 DEF nout
<1>19. Filled(k)' BY <1>10, <1>16, <1>17, <1>18 DEF Filled
<1> QED BY <1>12, <1>19

\* A short row is written at once, by CTA 0.
LEMMA ShortFills ==
  ASSUME SelectInv, OutInv, ShortRow(0), NEW k \in Nat, k = iter[0]
  PROVE  /\ k \in RowIndex /\ ~LongAt(k)
         /\ OutputOf(k)' \in ShortOutput(rows[k + 1])
         /\ output' \in [0 .. Len(rows) * TOPK - 1 -> Unwritten .. CTAS * CHUNK_SIZE - 1]
         /\ \A j \in RowIndex \ {k}, p \in 0 .. TOPK - 1 : output'[j * TOPK + p] = output[j * TOPK + p]
<1>s. 0 \in Ctas /\ rows \in Batches /\ OutTyped
  BY Parameters DEF SelectInv, PlaceInv, Typed, OutInv
<1>1. k \in RowIndex /\ ~LongAt(k) /\ Row(0) = rows[k + 1]
  <2>1. iter[0] < Len(rows) /\ ~Long(0) BY DEF ShortRow
  <2>2. Len(rows) \in Nat BY <1>s, RowFacts
  <2> QED BY <2>1, <2>2 DEF RowIndex, LongAt, Long, Row
<1>2. PICK at \in ShortOutput(rows[k + 1]) : output' = Stored(0, at)
  BY <1>1 DEF ShortRow
<1>3. PICK n \in Nat : /\ DOMAIN rows[k + 1] = 0 .. n - 1
                       /\ Cardinality(DOMAIN rows[k + 1]) = n /\ n <= CTAS * CHUNK_SIZE
  <2>1. PICK m \in Nat : m = CTAS * CHUNK_SIZE BY <1>s, <1>1, RowBounds
  <2>2. \E n \in 1 .. m : DOMAIN rows[k + 1] = 0 .. n - 1
                          /\ Cardinality(DOMAIN rows[k + 1]) = n
    BY <1>s, <1>1, <2>1, RowBounds
  <2> QED BY <2>1, <2>2
<1>4. /\ at = [p \in 0 .. TOPK - 1 |-> at[p]]
      /\ \A p \in 0 .. TOPK - 1 : at[p] \in Unwritten .. n - 1
  <2>1. CASE n <= TOPK
    <3>1. at = [p \in 0 .. TOPK - 1 |-> IF p < n THEN p ELSE Pad]
      BY <1>2, <1>3, <2>1 DEF ShortOutput
    <3> QED BY <1>3, <3>1, Parameters DEF Pad, Unwritten
  <2>2. CASE ~(n <= TOPK)
    <3>1. at \in [0 .. TOPK - 1 -> 0 .. n - 1]
      BY <1>2, <1>3, <2>2 DEF ShortOutput
    <3>2. 0 .. n - 1 \subseteq Unwritten .. n - 1 BY DEF Unwritten
    <3> QED BY <3>1, <3>2
  <2> QED BY <2>1, <2>2
<1>5. DOMAIN at = 0 .. TOPK - 1 BY <1>4
<1>6. \A p \in DOMAIN at : at[p] \in Unwritten .. CTAS * CHUNK_SIZE - 1
  <2>1. PICK m \in Nat : m = CTAS * CHUNK_SIZE BY <1>s, <1>1, RowBounds
  <2>2. Unwritten .. n - 1 \subseteq Unwritten .. m - 1 BY <1>3, <2>1 DEF Unwritten
  <2> QED BY <1>4, <1>5, <2>1, <2>2
<1>7. Len(rows) \in Nat /\ iter[0] \in RowIndex BY <1>s, <1>1, RowBounds
<1>8. /\ Stored(0, at) \in [0 .. Len(rows) * TOPK - 1 -> Unwritten .. CTAS * CHUNK_SIZE - 1]
      /\ \A j \in RowIndex, p \in 0 .. TOPK - 1 : Stored(0, at)[j * TOPK + p] =
            IF j = iter[0] /\ p \in DOMAIN at THEN at[p] ELSE output[j * TOPK + p]
  BY <1>s, <1>5, <1>6, <1>7, StoredFacts
<1>9. OutputOf(k)' = at
  <2>1. OutputOf(k)' = [p \in 0 .. TOPK - 1 |-> output'[k * TOPK + p]] BY DEF OutputOf
  <2>2. \A p \in 0 .. TOPK - 1 : output'[k * TOPK + p] = at[p] BY <1>1, <1>2, <1>5, <1>8
  <2> QED BY <1>4, <2>1, <2>2
<1> QED BY <1>1, <1>2, <1>8, <1>9

-----------------------------------------------------------------------------
\* A row changes only when a CTA that is in it stores to it.
LEMMA RowsKept ==
  ASSUME SelectInv, OutInv, NEW c \in Ctas, Step(c), NEW k \in RowIndex,
         ~(Collect(c) /\ iter[c] = k), ~(TakeEqual(c) /\ iter[c] = k),
         ~(c = 0 /\ ShortRow(0) /\ iter[0] = k)
  PROVE  OutputOf(k)' = OutputOf(k)
<1>0. PlaceInv /\ iter[c] \in Nat BY PlaceFacts DEF SelectInv
<1>1. PICK l \in Nat : l = iter[c] BY <1>0
<1>2. \A p \in 0 .. TOPK - 1 : output'[k * TOPK + p] = output[k * TOPK + p]
  <2>1. CASE output' = output BY <2>1
  <2>2. CASE Collect(c)
    <3>1. k \in RowIndex \ {l} BY <1>1, <2>2
    <3>2. \A j \in RowIndex \ {l}, p \in 0 .. TOPK - 1 : output'[j * TOPK + p] = output[j * TOPK + p]
      BY <1>1, <2>2, CollectFills
    <3> QED BY <3>1, <3>2
  <2>3. CASE TakeEqual(c)
    <3>1. k \in RowIndex \ {l} BY <1>1, <2>3
    <3>2. \A j \in RowIndex \ {l}, p \in 0 .. TOPK - 1 : output'[j * TOPK + p] = output[j * TOPK + p]
      BY <1>1, <2>3, TakeFills
    <3> QED BY <3>1, <3>2
  <2>4. CASE ShortRow(c) /\ c = 0
    <3>1. k \in RowIndex \ {l} BY <1>1, <2>4
    <3>2. \A j \in RowIndex \ {l}, p \in 0 .. TOPK - 1 : output'[j * TOPK + p] = output[j * TOPK + p]
      BY <1>1, <2>4, ShortFills
    <3> QED BY <3>1, <3>2
  <2> QED BY <1>0, <2>1, <2>2, <2>3, <2>4, OutFrame
<1> QED BY <1>2 DEF OutputOf

LEMMA FilledStep ==
  ASSUME SelectInv, OutInv, NEW c \in Ctas, Step(c), NEW k \in RowIndex, LongAt(k), Current(k)'
  PROVE  Filled(k)'
<1>s. /\ PlaceInv /\ BarrierInv /\ RingInv /\ OutTyped /\ rows \in Batches /\ k \in Nat
      /\ iter[c] \in Nat /\ 0 \in Ctas
  BY RowBounds, PlaceFacts, Parameters DEF SelectInv, OutInv, PlaceInv, Typed
<1>1. AboveDone(k)' = AboveDone(k) \cup
         {i \in Above(rows[k + 1]) : Collect(c) /\ iter[c] = k /\ i \div CHUNK_SIZE = c}
  BY <1>s, AboveDoneStep
<1>2. EqualDone(k)' = EqualDone(k) \cup
         {i \in Equal(rows[k + 1]) : /\ TakeEqual(c) /\ iter[c] = k /\ i \div CHUNK_SIZE = c
                                     /\ i \in equal[c] \ equal'[c]}
  BY <1>s, EqualDoneStep
<1>3. CASE c = 0 /\ Clear(0) /\ iter[0] = k
  <2>1. pc[0] = "clear" /\ taken' = 0 BY <1>3 DEF Clear, Goto
  <2>2. ~Collect(0) /\ ~TakeEqual(0) BY <2>1 DEF Collect, Goto, TakeEqual
  <2>3. AboveDone(k) = {} /\ EqualDone(k) = {}
    BY <1>s, <1>3, <2>1, CollectFirst DEF AboveDone, EqualDone
  <2>4. AboveDone(k)' = {} /\ EqualDone(k)' = {} BY <1>1, <1>2, <1>3, <2>2, <2>3
  <2>5. Places' = {} BY <2>1, Parameters DEF Places
  <2>6. taken' = Cardinality(AboveDone(k)') + Cardinality(EqualDone(k)')
    BY <2>1, <2>4, FS_EmptySet
  <2> QED BY <2>4, <2>5, <2>6 DEF Filled
<1>4. CASE Current(k) /\ ~Clear(c)
  <2>1. CASE Collect(c) \/ TakeEqual(c)
    <3>1. pc[c] \in Taking BY <2>1 DEF Collect, Goto, TakeEqual, Taking
    <3>2. iter[c] \in RowIndex /\ LongAt(iter[c]) /\ Current(iter[c])
      BY <1>s, <3>1, TakingCurrent
    <3>3. iter[c] = k
      <4>1. ~(iter[c] < k) BY <1>s, <1>4, <3>2, CurrentOnce
      <4>2. ~(k < iter[c]) BY <1>s, <1>4, <3>2, CurrentOnce
      <4> QED BY <1>s, <4>1, <4>2
    <3> QED BY <1>s, <2>1, <3>3, CollectFills, TakeFills
  <2>2. CASE ~Collect(c) /\ ~TakeEqual(c)
    <3>1. Filled(k) BY <1>4 DEF OutInv
    <3>2. taken' = taken BY <1>s, <1>4, <2>2, OutFrame
    <3>3. AboveDone(k)' = AboveDone(k) /\ EqualDone(k)' = EqualDone(k) BY <1>1, <1>2, <2>2
    <3>4. ~(c = 0 /\ ShortRow(0) /\ iter[0] = k) BY DEF ShortRow, Long, Row, LongAt
    <3>5. OutputOf(k)' = OutputOf(k) BY <2>2, <3>4, RowsKept
    <3>6. Places' = Places BY <3>2 DEF Places
    <3> QED BY <3>1, <3>2, <3>3, <3>5, <3>6 DEF Filled
  <2> QED BY <2>1, <2>2
<1> QED BY <1>s, <1>3, <1>4, CurrentStep

\* When every key above the pivot and every key equal to it has been offered, the
\* output is exact.
LEMMA FilledExact ==
  ASSUME rows \in Batches, NEW k \in RowIndex, LongAt(k), Filled(k),
         AboveDone(k) = Above(rows[k + 1]), EqualDone(k) = Equal(rows[k + 1])
  PROVE  OutputOf(k) \in ShortOutput(rows[k + 1])
<1> DEFINE row == rows[k + 1]
<1>1. LongEnough(row) /\ LongAt(k) BY RowBounds
<1>2. PICK n \in Nat : n = Cardinality(DOMAIN row) /\ n > TOPK
  BY <1>1, RowBounds, Parameters DEF LongAt
<1>3. taken >= TOPK /\ taken \in Nat
  <2>1. Cardinality(Above(row)) + Cardinality(Equal(row)) >= TOPK
        /\ Cardinality(Above(row)) \in Nat /\ Cardinality(Equal(row)) \in Nat
    BY <1>1, PivotFacts
  <2> QED BY <2>1 DEF Filled
<1>4. Places = 0 .. TOPK - 1 BY <1>3, Parameters DEF Places
<1>5. \A p \in 0 .. TOPK - 1 : OutputOf(k)[p] \in Above(row) \cup Equal(row)
  BY <1>4 DEF Filled
<1>6. OutputOf(k) \in [0 .. TOPK - 1 -> DOMAIN row]
  BY <1>5 DEF OutputOf, Above, Equal
<1>7. IsInjective(OutputOf(k)) BY <1>4, <1>6 DEF Filled, IsInjective
<1>8. ASSUME NEW i \in DOMAIN row \ Range(OutputOf(k)), NEW j \in Range(OutputOf(k))
      PROVE  row[j] >= row[i]
  <2>1. i \notin Above(row) BY <1>4, <1>6, <1>8 DEF Filled, Range
  <2>2. j \in Above(row) \cup Equal(row) BY <1>5, <1>6 DEF Range
  <2>3. j \in DOMAIN row BY <2>2 DEF Above, Equal
  <2>4. Pivot(row) \in Nat /\ row[i] \in Nat /\ row[j] \in Nat BY <1>1, <1>8, <2>3, PivotFacts
  <2> QED BY <2>1, <2>2, <2>4 DEF Above, Equal
<1> HIDE DEF row
<1>9. OutputOf(k) \in ShortOutput(row)
  <2>1. ~(n <= TOPK) BY <1>2, Parameters
  <2> QED BY <1>2, <1>6, <1>7, <1>8, <2>1 DEF ShortOutput
<1> QED BY <1>9 DEF row

LEMMA LeftStep ==
  ASSUME SelectInv, OutInv, NEW c \in Ctas, Step(c), NEW k \in RowIndex, Left(k)'
  PROVE  OutputOf(k)' \in ShortOutput(rows[k + 1])
<1>s. /\ PlaceInv /\ BarrierInv /\ RingInv /\ OutTyped /\ rows \in Batches /\ k \in Nat
      /\ 0 \in Ctas /\ rows' = rows /\ iter \in [Ctas -> Nat]
  BY RowBounds, Parameters, StepFrame DEF SelectInv, OutInv, PlaceInv, Typed
<1>1. LongAt(k)' <=> LongAt(k) BY <1>s DEF LongAt
<1>2. Collect(c) \/ TakeEqual(c) => LongAt(iter[c])
  <2>1. Collect(c) \/ TakeEqual(c) => pc[c] \in Taking
    BY DEF Collect, Goto, TakeEqual, Taking
  <2> QED BY <1>s, <2>1, TakingCurrent
<1>3. \A d \in Ctas \ {c} : iter'[d] = iter[d] BY <1>s, StepFrame
<1>4. iter' = iter \/ (iter'[c] = iter[c] + 1 /\ (NextRow(c) \/ ShortRow(c)))
  <2>1. NextRow(c) => iter'[c] = iter[c] + 1 BY <1>s DEF NextRow
  <2>2. ShortRow(c) => iter'[c] = iter[c] + 1 BY <1>s DEF ShortRow
  <2> QED BY <1>s, <2>1, <2>2, OutFrame
<1>5. CASE Left(k)
  <2>1. OutputOf(k) \in ShortOutput(rows[k + 1]) BY <1>5 DEF OutInv
  <2>2. ~(Collect(c) /\ iter[c] = k) /\ ~(TakeEqual(c) /\ iter[c] = k)
    BY <1>s, <1>2, <1>5 DEF Left
  <2>3. ~(c = 0 /\ ShortRow(0) /\ iter[0] = k)
    <3>1. ShortRow(0) /\ iter[0] = k => ~LongAt(k) BY DEF ShortRow, Long, Row, LongAt
    <3> QED BY <1>s, <1>5, <3>1 DEF Left
  <2>4. OutputOf(k)' = OutputOf(k) BY <2>2, <2>3, RowsKept
  <2> QED BY <2>1, <2>4
<1>6. CASE ~Left(k) /\ LongAt(k)
  <2>1. \A d \in Ctas : iter'[d] > k BY <1>1, <1>6 DEF Left
  <2>2. \A d \in Ctas \ {c} : iter[d] > k BY <1>3, <2>1
  <2>3. ~(iter[c] > k) BY <1>6, <2>2 DEF Left
  <2>4. iter[c] = k /\ (NextRow(c) \/ ShortRow(c))
    <3>1. iter[c] \in Nat /\ iter'[c] > k BY <1>s, <2>1
    <3> QED BY <1>s, <1>4, <2>3, <3>1
  <2>5. ~ShortRow(c) BY <1>6, <2>4 DEF ShortRow, Long, Row, LongAt
  <2>6. pc[c] = "equal" /\ equal[c] = {} /\ output' = output
    BY <2>4, <2>5 DEF NextRow, Goto, global
  <2>7. Current(k) BY <1>s, <2>4, <2>6, TakingCurrent DEF Taking
  <2>8. Filled(k) BY <1>6, <2>7 DEF OutInv
  <2>9. \A d \in Ctas : HasCollected(d, k) BY <1>s, <2>4, <2>6, CollectFirst
  <2>10. \A d \in Ctas : \A i : HasTaken(d, k, i) BY <2>2, <2>4, <2>6 DEF HasTaken
  <2>11. \A i \in DOMAIN rows[k + 1] : i \div CHUNK_SIZE \in Ctas
    <3>1. k < Len(rows) BY <1>s, RowBounds
    <3> QED BY <1>s, <3>1, ChunksCover
  <2>12. AboveDone(k) = Above(rows[k + 1]) BY <2>9, <2>11 DEF AboveDone, Above
  <2>13. EqualDone(k) = Equal(rows[k + 1]) BY <2>10, <2>11 DEF EqualDone, Equal
  <2>14. OutputOf(k) \in ShortOutput(rows[k + 1])
    BY <1>s, <1>6, <2>8, <2>12, <2>13, FilledExact
  <2>15. OutputOf(k)' = OutputOf(k) BY <2>6 DEF OutputOf
  <2> QED BY <2>14, <2>15
<1>7. CASE ~Left(k) /\ ~LongAt(k)
  <2>1. iter'[0] > k /\ ~(iter[0] > k) BY <1>1, <1>7 DEF Left
  <2>2. c = 0 BY <1>s, <1>3, <2>1
  <2>3. iter[0] = k /\ (NextRow(0) \/ ShortRow(0))
    <3>1. iter[0] \in Nat BY <1>s
    <3> QED BY <1>s, <1>4, <2>1, <2>2, <3>1
  <2>4. ~NextRow(0)
    <3>1. NextRow(0) => pc[0] \in Taking BY DEF NextRow, Goto, Taking
    <3> QED BY <1>s, <1>7, <2>3, <3>1, TakingCurrent
  <2> QED BY <1>s, <2>3, <2>4, ShortFills
<1> QED BY <1>5, <1>6, <1>7

-----------------------------------------------------------------------------
\* No more places are given away than there are keys.
LEMMA TakenBound ==
  ASSUME rows \in Batches, NEW k \in RowIndex, LongAt(k), NEW A, NEW E,
         A \subseteq Above(rows[k + 1]), E \subseteq Equal(rows[k + 1])
  PROVE  Cardinality(A) + Cardinality(E) \in 0 .. CTAS * CHUNK_SIZE
<1>1. LongEnough(rows[k + 1]) BY RowBounds
<1>2. /\ IsFiniteSet(Above(rows[k + 1])) /\ IsFiniteSet(Equal(rows[k + 1]))
      /\ Above(rows[k + 1]) \cap Equal(rows[k + 1]) = {}
  BY <1>1, PivotFacts
<1>3. IsFiniteSet(A) /\ IsFiniteSet(E) /\ A \cap E = {} BY <1>2, FS_Subset
<1>4. Cardinality(A \cup E) = Cardinality(A) + Cardinality(E) BY <1>3, UnionSize
<1>5. PICK m \in Nat : m = CTAS * CHUNK_SIZE BY RowBounds
<1>6. IsFiniteSet(DOMAIN rows[k + 1]) /\ Cardinality(DOMAIN rows[k + 1]) \in 0 .. m
  BY <1>5, RowBounds
<1>7. A \cup E \subseteq DOMAIN rows[k + 1] BY DEF Above, Equal
<1>8. Cardinality(A \cup E) <= Cardinality(DOMAIN rows[k + 1]) /\ IsFiniteSet(A \cup E)
  BY <1>6, <1>7, FS_Subset
<1>9. Cardinality(A \cup E) \in Nat BY <1>8, FS_CardinalityType
<1> QED BY <1>4, <1>5, <1>6, <1>8, <1>9

LEMMA EqualStep ==
  ASSUME SelectInv, OutInv, NEW c \in Ctas, Step(c)
  PROVE  /\ equal' = [d \in Ctas |-> equal'[d]]
         /\ \A d \in Ctas : IF pc'[d] = "equal" THEN equal'[d] \subseteq Equal(Row(d))' \cap Chunk(d)'
                                                ELSE equal'[d] = {}
<1> USE DEF select, global
<1>s. /\ PlaceInv /\ RingInv /\ OutTyped /\ equal = [d \in Ctas |-> equal[d]]
      /\ pc = [d \in Ctas |-> pc[d]] /\ rows' = rows
  BY StepFrame DEF SelectInv, OutInv, OutTyped, PlaceInv, Typed
<1>1. equal' = [d \in Ctas |-> equal'[d]]
  <2>1. LeaveCollect(c) => equal' = [d \in Ctas |-> equal'[d]] BY <1>s DEF LeaveCollect
  <2>2. TakeEqual(c) => equal' = [d \in Ctas |-> equal'[d]] BY <1>s DEF TakeEqual
  <2>3. equal' = equal => equal' = [d \in Ctas |-> equal'[d]] BY <1>s
  <2> QED BY <1>s, <2>1, <2>2, <2>3, OutFrame
<1>2. ASSUME NEW d \in Ctas
      PROVE  IF pc'[d] = "equal" THEN equal'[d] \subseteq Equal(Row(d))' \cap Chunk(d)'
                                 ELSE equal'[d] = {}
  <2>0. IF pc[d] = "equal" THEN equal[d] \subseteq Equal(Row(d)) \cap Chunk(d)
                           ELSE equal[d] = {}
    BY <1>s DEF OutTyped
  <2>r. iter'[d] = iter[d] => /\ Row(d)' = Row(d) /\ Equal(Row(d))' = Equal(Row(d))
                              /\ Chunk(d)' = Chunk(d)
    BY <1>s DEF Row, Equal, Chunk
  <2>1. CASE d # c
    <3>1. iter'[d] = iter[d] /\ pc'[d] = pc[d] BY <1>s, <2>1, StepFrame
    <3>2. equal'[d] = equal[d]
      <4>1. LeaveCollect(c) => equal'[d] = equal[d] BY <1>s, <2>1 DEF LeaveCollect
      <4>2. TakeEqual(c) => equal'[d] = equal[d] BY <1>s, <2>1 DEF TakeEqual
      <4> QED BY <1>s, <4>1, <4>2, OutFrame
    <3> QED BY <2>0, <2>r, <3>1, <3>2
  <2>2. CASE d = c /\ TakeEqual(c)
    <3>1. iter' = iter /\ pc' = pc /\ equal'[c] \subseteq equal[c] /\ pc[c] = "equal"
      BY <1>s, <2>2 DEF TakeEqual
    <3> QED BY <2>0, <2>2, <2>r, <3>1
  <2>3. CASE d = c /\ LeaveCollect(c)
    <3>1. /\ iter' = iter /\ pc[c] = "collecting" /\ pc'[c] = "equal"
          /\ equal'[c] = {i \in Chunk(c) : Row(c)[i] = prefix[c]}
      BY <1>s, <2>3 DEF LeaveCollect, Leave, Goto
    <3>2. prefix[c] = Pivot(Row(c)) BY <1>s, <3>1, PivotKnown DEF Taking
    <3>3. equal'[c] \subseteq Equal(Row(c)) \cap Chunk(c)
      BY <3>1, <3>2 DEF Chunk, Equal
    <3> QED BY <2>3, <2>r, <3>1, <3>3
  <2>4. CASE d = c /\ NextRow(c)
    <3>1. pc'[c] = "row" /\ equal' = equal /\ equal[c] = {}
      BY <1>s, <2>4 DEF NextRow, Goto
    <3> QED BY <2>4, <3>1
  <2>5. CASE d = c /\ ShortRow(c)
    <3>1. pc' = pc /\ pc[c] = "row" /\ equal' = equal BY <2>5 DEF ShortRow
    <3> QED BY <2>0, <2>5, <3>1
  <2>6. CASE d = c /\ iter' = iter /\ equal' = equal /\ pc[c] # "equal" /\ pc'[c] # "equal"
    BY <2>0, <2>6
  <2> QED BY <1>s, <2>1, <2>2, <2>3, <2>4, <2>5, <2>6, OutFrame
<1> QED BY <1>1, <1>2

LEMMA OutTypedStep ==
  ASSUME SelectInv, OutInv, NEW c \in Ctas, Step(c)
  PROVE  OutTyped'
<1>s. /\ PlaceInv /\ BarrierInv /\ OutTyped /\ rows \in Batches /\ rows' = rows /\ iter[c] \in Nat
  BY StepFrame, PlaceFacts DEF SelectInv, OutInv, PlaceInv, Typed
<1>1. PICK k \in Nat : k = iter[c] BY <1>s
<1>2. taken' \in 0 .. CTAS * CHUNK_SIZE
  <2>1. CASE taken' = taken BY <1>s, <2>1 DEF OutTyped
  <2>2. CASE Clear(c)
    <3>1. CTAS * CHUNK_SIZE \in Nat BY Parameters
    <3>2. taken' = 0 BY <2>2 DEF Clear
    <3> QED BY <3>1, <3>2
  <2>3. CASE Collect(c) \/ TakeEqual(c)
    <3>1. pc[c] \in Taking BY <2>3 DEF Collect, Goto, TakeEqual, Taking
    <3>2. k \in RowIndex /\ LongAt(k) BY <1>s, <1>1, <3>1, TakingCurrent
    <3>3. Filled(k)' BY <1>1, <2>3, CollectFills, TakeFills
    <3>4. taken' = Cardinality(AboveDone(k)') + Cardinality(EqualDone(k)') BY <3>3 DEF Filled
    <3>5. AboveDone(k)' \subseteq Above(rows[k + 1]) /\ EqualDone(k)' \subseteq Equal(rows[k + 1])
      BY <1>s DEF AboveDone, EqualDone
    <3> QED BY <1>s, <3>2, <3>4, <3>5, TakenBound
  <2> QED BY <1>s, <2>1, <2>2, <2>3, OutFrame
<1>3. output' \in [0 .. Len(rows) * TOPK - 1 -> Unwritten .. CTAS * CHUNK_SIZE - 1]
  <2>1. CASE output' = output BY <1>s, <2>1 DEF OutTyped
  <2>2. CASE ShortRow(c) /\ c = 0 BY <1>1, <2>2, ShortFills
  <2>3. CASE Collect(c) BY <1>1, <2>3, CollectFills
  <2>4. CASE TakeEqual(c) BY <1>1, <2>4, TakeFills
  <2> QED BY <1>s, <2>1, <2>2, <2>3, <2>4, OutFrame
<1> QED BY <1>s, <1>2, <1>3, EqualStep DEF OutTyped

LEMMA OutInit == Init => OutInv
<1> SUFFICES ASSUME Init PROVE OutInv OBVIOUS
<1>s. PlaceInv /\ rows \in Batches /\ 0 \in Ctas
  BY PlaceInit, Parameters DEF PlaceInv, Typed
<1>1. OutTyped
  <2>1. CTAS * CHUNK_SIZE \in Nat \ {0} BY Parameters
  <2>2. PICK m \in Nat \ {0} : m = CTAS * CHUNK_SIZE BY <2>1
  <2>3. Unwritten \in Unwritten .. m - 1 BY DEF Unwritten
  <2>4. taken \in 0 .. m BY DEF Init
  <2>5. output \in [0 .. Len(rows) * TOPK - 1 -> Unwritten .. m - 1] BY <2>3 DEF Init
  <2> QED BY <2>2, <2>4, <2>5 DEF Init, OutTyped
<1>2. ASSUME NEW k \in RowIndex PROVE ~Current(k) /\ ~Left(k)
  <2>1. k \in Nat /\ Base(k) \in Nat BY <1>s, RowBounds, LongBeforeFinite
  <2>2. phase[0] = 0 /\ iter[0] = 0 BY <1>s DEF Init
  <2> QED BY <1>s, <2>1, <2>2 DEF Current, Past, Left
<1> QED BY <1>1, <1>2 DEF OutInv

LEMMA OutStep ==
  ASSUME SelectInv, OutInv, NEW c \in Ctas, Step(c)
  PROVE  OutInv'
<1>s. rows' = rows BY StepFrame DEF SelectInv
<1>1. RowIndex' = RowIndex /\ \A k : LongAt(k)' <=> LongAt(k)
  BY <1>s DEF RowIndex, LongAt
<1>2. \A k \in RowIndex : LongAt(k)' /\ Current(k)' => Filled(k)'
  BY <1>1, FilledStep
<1>3. \A k \in RowIndex : Left(k)' => OutputOf(k)' \in ShortOutput(rows[k + 1])'
  <2>1. \A k : ShortOutput(rows[k + 1])' = ShortOutput(rows[k + 1]) BY <1>s DEF ShortOutput
  <2> QED BY <2>1, LeftStep
<1> QED BY <1>1, <1>2, <1>3, OutTypedStep DEF OutInv

LEMMA OutStutter ==
  ASSUME OutInv, UNCHANGED vars
  PROVE  OutInv'
<1> USE DEF vars, global, select
<1>1. OutTyped' BY DEF OutInv, OutTyped, Equal, Row, Chunk
<1>2. RowIndex' = RowIndex /\ \A k : (LongAt(k)' <=> LongAt(k)) /\ (Current(k)' <=> Current(k))
  BY DEF RowIndex, LongAt, Current, Past, Base, LongBefore
<1>3. \A k : AboveDone(k)' = AboveDone(k)
  BY DEF AboveDone, Above, HasCollected, Base, LongBefore
<1>4. \A k : EqualDone(k)' = EqualDone(k)
  BY DEF EqualDone, Equal, HasTaken
<1>5. \A k : (Left(k)' <=> Left(k)) /\ OutputOf(k)' = OutputOf(k)
             /\ ShortOutput(rows[k + 1])' = ShortOutput(rows[k + 1])
  BY <1>2 DEF Left, OutputOf, ShortOutput
<1>6. Places' = Places /\ taken' = taken BY DEF Places
<1>7. \A k : Filled(k)' <=> Filled(k) BY <1>3, <1>4, <1>5, <1>6 DEF Filled
<1> QED BY <1>1, <1>2, <1>5, <1>7 DEF OutInv

\* Under the same proviso the row that all CTAs have left holds the largest keys: for
\* any keys, digits, chunks and interleaving, and whatever rows come before and after.
THEOREM OutputIsTopK == ASSUME PromptClear PROVE Spec => []TopKExact
<1>1. Init => SelectInv /\ OutInv BY SelectInit, OutInit
<1>2. SelectInv /\ OutInv /\ [Next]_vars => (SelectInv /\ OutInv)'
  <2>1. SelectInv /\ [Next]_vars => SelectInv' BY SelectStep
  <2>2. SelectInv /\ OutInv /\ [Next]_vars => OutInv'
    BY OutStep, OutStutter DEF Next, Done
  <2> QED BY <2>1, <2>2
<1>3. SelectInv /\ OutInv => TopKExact
  <2> SUFFICES ASSUME SelectInv, OutInv, NEW k \in DOMAIN rows, \A c \in Ctas : iter[c] >= k
               PROVE  [p \in 0 .. TOPK - 1 |-> output[(k - 1) * TOPK + p]] \in ShortOutput(rows[k])
    BY DEF TopKExact
  <2>1. rows \in Batches /\ 0 \in Ctas /\ iter \in [Ctas -> Nat]
    BY Parameters DEF SelectInv, PlaceInv, Typed
  <2>2. k \in 1 .. Len(rows) /\ Len(rows) \in Nat BY <2>1, RowFacts
  <2>3. PICK l \in RowIndex : l = k - 1 /\ l + 1 = k BY <2>2 DEF RowIndex
  <2>4. \A c \in Ctas : iter[c] > l BY <2>1, <2>2, <2>3
  <2>5. Left(l) BY <2>1, <2>4 DEF Left
  <2>6. OutputOf(l) \in ShortOutput(rows[l + 1]) BY <2>5 DEF OutInv
  <2> QED BY <2>3, <2>6 DEF OutputOf
<1> QED BY <1>1, <1>2, <1>3, PTL DEF Spec

-----------------------------------------------------------------------------
(* The ranges of registers and counters.                                      *)
RangeInv ==
  /\ hist \in [0 .. SLOTS - 1 -> [0 .. RADIX - 1 -> 0 .. CTAS * CHUNK_SIZE]]
  /\ \A c \in Ctas : pc[c] = "row" => prefix[c] \in Keys /\ remaining[c] \in 1 .. TOPK

\* A CTA in a long row holds digits of a key, and has keys left to take.
LEMMA SelectRange ==
  ASSUME SelectInv, NEW c \in Ctas, pc[c] # "row"
  PROVE  prefix[c] \in Keys /\ remaining[c] \in 1 .. TOPK
<1>1. Placed(c) /\ rows \in Batches /\ Agreed(c)
  BY DEF SelectInv, PlaceInv, Typed, RingInv
<1>2. iter[c] \in RowIndex /\ LongAt(iter[c]) /\ round[c] \in 0 .. ROUNDS
  BY <1>1, RowFacts DEF Placed, RowIndex, LongAt, Long, Row
<1>3. LongEnough(Row(c)) BY <1>1, <1>2, RowBounds DEF Row
<1>4. Splits(Row(c), round[c], FoundIn(Row(c), round[c])) BY <1>2, <1>3, SplitsAlways
<1>5. Splits(Row(c), round[c], FoundIn(Row(c), round[c])) =>
        /\ prefix[c] \in Nat /\ prefix[c] + Span(round[c]) <= Span(0)
        /\ remaining[c] \in 1 .. TOPK
  BY <1>1 DEF Splits, Agreed
<1>6. Span(round[c]) \in Nat \ {0} /\ Span(0) \in Nat BY <1>2, Spans DEF ROUNDS
<1> QED BY <1>4, <1>5, <1>6 DEF Keys

\* Barriers of the rows before, and of all rows.
LEMMA BaseBound ==
  ASSUME NEW k \in Nat
  PROVE  Base(k) <= 6 * k
<1>1. IsFiniteSet(1 .. k) /\ Cardinality(1 .. k) = k BY FS_Interval
<1>2. LongBefore(k) \subseteq 1 .. k BY DEF LongBefore
<1>3. Cardinality(LongBefore(k)) <= k BY <1>1, <1>2, FS_Subset
<1> QED BY <1>3, LongBeforeFinite DEF Base, ROUNDS

LEMMA PhaseBound ==
  ASSUME PlaceInv, NEW c \in Ctas
  PROVE  /\ phase[c] \in 0 .. 6 * Len(rows) /\ Reached(c) \in 0 .. 6 * Len(rows)
         /\ Len(rows) \in Nat
<1>1. /\ Placed(c) /\ rows \in Batches /\ phase[c] \in Nat /\ iter[c] \in Nat
      /\ Len(rows) \in Nat
  BY RowFacts DEF PlaceInv, Typed
<1>2. iter[c] <= Len(rows) /\ (pc[c] # "row" => iter[c] < Len(rows))
  BY <1>1 DEF Placed
<1>3. /\ phase[c] = Base(iter[c]) + Offset(c) /\ Offset(c) \in 0 .. 6
      /\ Base(iter[c]) \in Nat /\ Base(iter[c]) <= 6 * iter[c]
  BY <1>1, PlaceFacts, BaseBound
<1>4. pc[c] = "row" => Offset(c) = 0 /\ Reached(c) = phase[c] BY OffsetCases
<1>5. Reached(c) = phase[c] \/ (Reached(c) = phase[c] + 1 /\ Offset(c) \in 0 .. 5 /\ pc[c] # "row")
  BY OffsetCases DEF Counting, Taking
<1> QED BY <1>1, <1>2, <1>3, <1>4, <1>5

LEMMA ArrivalsBound ==
  ASSUME BarrierInv, PlaceInv
  PROVE  arrivals \in 0 .. CTAS * (ROUNDS + 2) * Len(rows)
<1>1. PICK m \in Nat : Met(m) BY DEF BarrierInv
<1>2. PICK L \in Nat : L = 6 * Len(rows) BY Parameters, PhaseBound
<1>3. PICK C \in Nat \ {0} : C = CTAS BY Parameters
<1>4. \A c \in Ctas : Reached(c) \in 0 .. L /\ Reached(c) \in {m, m + 1}
  BY <1>1, <1>2, PhaseBound DEF Met
<1>5. m <= L BY <1>4, Parameters
<1>6. Cardinality(Ahead(m)) \in 0 .. C /\ (m = L => Cardinality(Ahead(m)) = 0)
  <2>1. IsFiniteSet(Ctas) /\ Cardinality(Ctas) = C BY <1>3, FS_Interval DEF Ctas
  <2>2. Ahead(m) \subseteq Ctas BY DEF Ahead
  <2>3. IsFiniteSet(Ahead(m)) /\ Cardinality(Ahead(m)) <= C BY <2>1, <2>2, FS_Subset
  <2>4. m = L => Ahead(m) = {} BY <1>4 DEF Ahead
  <2> QED BY <2>3, <2>4, FS_CardinalityType, FS_EmptySet
<1>7. arrivals = m * C + Cardinality(Ahead(m)) BY <1>1, <1>3 DEF Met
<1>8. arrivals \in Nat /\ arrivals <= L * C
  <2>1. PICK a \in 0 .. C : a = Cardinality(Ahead(m)) BY <1>6
  <2>2. m * C \in Nat /\ L * C \in Nat OBVIOUS
  <2>3. CASE m = L BY <1>6, <1>7, <2>1, <2>2, <2>3
  <2>4. CASE m < L
    <3>1. m * C + C <= L * C BY <2>4, Multiples
    <3> QED BY <1>7, <2>1, <2>2, <3>1
  <2> QED BY <1>5, <2>3, <2>4
<1>9. CTAS * (ROUNDS + 2) * Len(rows) = L * C
  <2>1. PICK l \in Nat : l = Len(rows) BY Parameters, PhaseBound
  <2>2. C * 6 * l = (6 * l) * C OBVIOUS
  <2> QED BY <1>2, <1>3, <2>1, <2>2 DEF ROUNDS
<1> QED BY <1>8, <1>9

\* The slot a CTA adds to is in use.
LEMMA CountTracked ==
  ASSUME PromptClear, BarrierInv, PlaceInv, NEW c \in Ctas, Count(c)
  PROVE  Tracked(round[c]) /\ iter[0] = iter[c] /\ round[c] \in 0 .. 3
<1>0. 0 \in Ctas /\ pc[c] = "count" /\ Cleared(c) BY Parameters DEF Count, Goto
<1>1. PICK B \in Nat : B = Base(iter[c]) BY PlaceFacts
<1>2. /\ iter[c] \in Nat /\ iter[0] \in Nat /\ phase[0] = Base(iter[0]) + Offset(0)
      /\ Base(iter[0]) \in Nat /\ Offset(0) \in 0 .. 6 /\ pc[0] \in Positions
      /\ phase[c] = B + Offset(c) /\ round[0] \in 0 .. 4
      /\ Cardinality(DOMAIN rows[iter[c] + 1]) > RADIX_THRESHOLD
      /\ pc[0] # "row" => Cardinality(DOMAIN rows[iter[0] + 1]) > RADIX_THRESHOLD
  BY <1>0, <1>1, PlaceFacts
<1>3. Offset(c) = round[c] + 1 /\ round[c] \in 0 .. 3 /\ Reached(c) = phase[c]
  BY <1>0, OffsetCases DEF Counting
<1>4. phase[0] <= B + 1 + round[c] /\ B + 1 + round[c] <= Reached(0)
  BY <1>0, <1>1, <1>2, <1>3, Together
<1>5. CASE phase[0] = B + 1 + round[c]
  <2>1. iter[0] = iter[c] /\ Offset(0) = 1 + round[c] /\ pc[0] \notin {"row", "starting", "equal"}
    BY <1>0, <1>1, <1>3, <1>5, InRow
  <2>2. pc[0] # "clear" BY <1>0, <2>1 DEF Cleared
  <2>3. pc[0] \in Counting BY <1>0, <1>2, <1>3, <2>1, <2>2, OffsetCases DEF Positions, Taking
  <2>4. (pc[0] = "scan" /\ round[c] = round[0] + 1) \/ round[c] = round[0]
    BY <1>0, <1>2, <1>3, <2>1, <2>3, OffsetCases
  <2> QED BY <1>3, <2>1, <2>3, <2>4 DEF Tracked
<1>6. CASE phase[0] # B + 1 + round[c]
  <2>1. phase[0] = B + round[c] /\ pc[0] \in {"starting", "meeting", "collecting"}
    BY <1>0, <1>2, <1>3, <1>4, <1>6, OffsetCases
  <2>2. CASE round[c] = 0
    <3>1. Offset(0) = 0
      <4>1. Base(iter[0]) + Offset(0) = Base(iter[c]) + 0 /\ Offset(0) \in 0 .. 5
        BY <1>0, <1>1, <1>2, <2>1, <2>2, OffsetCases DEF Counting, Taking
      <4> QED BY <1>2, <4>1, BaseWhole
    <3>2. pc[0] = "starting" BY <1>0, <1>2, <2>1, <3>1, OffsetCases DEF Counting, Taking
    <3>3. iter[0] = iter[c]
      <4>1. ~(iter[0] < iter[c]) BY <1>1, <1>2, <2>1, <2>2, <3>1, <3>2, BaseApart DEF ROUNDS
      <4>2. ~(iter[c] < iter[0]) BY <1>1, <1>2, <2>1, <2>2, <3>1, <3>2, BaseApart DEF ROUNDS
      <4> QED BY <1>2, <4>1, <4>2
    <3> QED BY <1>0, <3>2, <3>3 DEF Cleared
  <2>3. CASE round[c] # 0
    <3>1. iter[0] = iter[c] /\ Offset(0) = round[c] /\ pc[0] \notin {"row", "starting", "equal"}
      BY <1>0, <1>1, <1>3, <2>1, <2>3, InRow
    <3>2. pc[0] = "meeting" BY <1>0, <1>3, <2>1, <3>1, OffsetCases DEF Taking
    <3>3. round[c] = round[0] + 1 BY <1>0, <1>2, <3>1, <3>2, OffsetCases DEF Counting
    <3> QED BY <1>3, <3>1, <3>2, <3>3 DEF Tracked, Counting
  <2> QED BY <2>2, <2>3
<1> QED BY <1>5, <1>6

-----------------------------------------------------------------------------
LEMMA CountsBound ==
  ASSUME NEW row, NEW turn, NEW digits, NEW S, NEW m \in Nat, IsFiniteSet(DOMAIN row),
         Cardinality(DOMAIN row) <= m, S \subseteq DOMAIN row
  PROVE  Counts(row, S, turn, digits) \in [0 .. RADIX - 1 -> 0 .. m]
<1>1. ASSUME NEW d
      PROVE  Cardinality({i \in S : Prefix(row[i], turn) = digits /\ Digit(row[i], turn) = d})
               \in 0 .. m
  <2> DEFINE T == {i \in S : Prefix(row[i], turn) = digits /\ Digit(row[i], turn) = d}
  <2>1. T \subseteq DOMAIN row OBVIOUS
  <2> HIDE DEF T
  <2>2. IsFiniteSet(T) /\ Cardinality(T) <= Cardinality(DOMAIN row) BY <2>1, FS_Subset
  <2>3. Cardinality(T) \in Nat /\ Cardinality(DOMAIN row) \in Nat
    BY <2>2, FS_CardinalityType
  <2>4. Cardinality(T) \in 0 .. m BY <2>2, <2>3
  <2> QED BY <2>4 DEF T
<1> QED BY <1>1 DEF Counts

LEMMA HistBound ==
  ASSUME PromptClear, SelectInv, RangeInv, NEW c \in Ctas, Step(c)
  PROVE  hist' \in [0 .. SLOTS - 1 -> [0 .. RADIX - 1 -> 0 .. CTAS * CHUNK_SIZE]]
<1>s. PlaceInv /\ BarrierInv /\ RingInv /\ rows \in Batches /\ 0 \in Ctas
  BY Parameters DEF SelectInv, PlaceInv, Typed
<1>1. PICK m \in Nat \ {0} : m = CTAS * CHUNK_SIZE
  <2>1. CTAS * CHUNK_SIZE \in Nat \ {0} BY Parameters
  <2> QED BY <2>1
<1>2. hist \in [0 .. SLOTS - 1 -> [0 .. RADIX - 1 -> 0 .. m]] BY <1>1 DEF RangeInv
<1>3. NoSlot \in [0 .. RADIX - 1 -> 0 .. m] BY DEF NoSlot
<1>4. CASE hist' = hist BY <1>1, <1>2, <1>4
<1>5. CASE Clear(c) BY <1>1, <1>2, <1>3, <1>5 DEF Clear
<1>6. CASE ClearNext(c) BY <1>1, <1>2, <1>3, <1>6 DEF ClearNext
<1>7. CASE Count(c)
  <2> DEFINE x == Slot(iter[c], round[c])
  <2>1. Tracked(round[c]) /\ iter[0] = iter[c] /\ round[c] \in 0 .. 3
    BY <1>s, <1>7, CountTracked
  <2>2. pc[c] = "count" /\ iter' = iter /\ round' = round /\ rows' = rows
        /\ pc' = [pc EXCEPT ![c] = IF c = 0 THEN "clearNext" ELSE "counted"]
    BY <1>7 DEF Count, Goto, select
  <2>3. PICK turn \in 0 .. 3 : turn = round[c] BY <2>1
  <2>4. PICK k \in Nat : k = iter[c] BY PlaceFacts, <1>s
  <2>5. Tracked(turn)'
    <3>1. CASE c = 0
      <4>1. pc'[0] = "clearNext" BY <1>s, <2>2, <3>1 DEF PlaceInv, Typed
      <4> QED BY <2>2, <2>3, <3>1, <4>1 DEF Tracked, Counting
    <3>2. CASE c # 0
      <4>1. pc'[0] = pc[0] BY <1>s, <2>2, <3>2 DEF PlaceInv, Typed
      <4> QED BY <2>1, <2>2, <2>3, <4>1 DEF Tracked
    <3> QED BY <3>1, <3>2
  <2>6. (hist[Slot(iter[0], turn)] =
           Counts(rows[iter[0] + 1], Contributed(iter[0], Base(iter[0]) + 1 + turn),
                  turn, FoundIn(rows[iter[0] + 1], turn).prefix))'
    BY <2>5, SlotsStep
  <2>7. PICK S, digits : hist'[x] = Counts(rows[k + 1], S, turn, digits) /\ S \subseteq DOMAIN rows[k + 1]
    <3>1. (Contributed(iter[0], Base(iter[0]) + 1 + turn))' \subseteq DOMAIN rows[k + 1]
      BY <2>1, <2>2, <2>4 DEF Contributed
    <3>2. hist'[x] = Counts(rows[k + 1], (Contributed(iter[0], Base(iter[0]) + 1 + turn))',
                            turn, FoundIn(rows[k + 1], turn).prefix)
      BY <2>1, <2>2, <2>3, <2>4, <2>6
    <3> QED BY <3>1, <3>2
  <2>8. k \in RowIndex
    <3>1. iter[c] < Len(rows) BY <1>s, <2>2 DEF PlaceInv, Placed
    <3> QED BY <1>s, <2>4, <3>1, RowFacts DEF RowIndex
  <2>9. IsFiniteSet(DOMAIN rows[k + 1]) /\ Cardinality(DOMAIN rows[k + 1]) \in 0 .. m
    BY <1>s, <1>1, <2>8, RowBounds
  <2>10. hist'[x] \in [0 .. RADIX - 1 -> 0 .. m] BY <2>7, <2>9, CountsBound
  <2>11. x \in 0 .. SLOTS - 1
    <3>1. turn \in 0 .. 5 OBVIOUS
    <3>2. Slot(k, turn) \in 0 .. SLOTS - 1 BY <3>1, SlotsDiffer
    <3> QED BY <2>3, <2>4, <3>2
  <2> HIDE DEF x
  <2>12. /\ DOMAIN hist' = 0 .. SLOTS - 1
         /\ hist' = [s \in 0 .. SLOTS - 1 |-> hist'[s]]
         /\ \A s \in 0 .. SLOTS - 1 : s # x => hist'[s] = hist[s]
    BY <1>2, <1>7 DEF Count, x
  <2>13. \A s \in 0 .. SLOTS - 1 : hist'[s] \in [0 .. RADIX - 1 -> 0 .. m]
    BY <1>2, <2>10, <2>12
  <2> QED BY <1>1, <2>12, <2>13
<1> QED BY <1>s, <1>4, <1>5, <1>6, <1>7, StepFrame

LEMMA RangeStep ==
  ASSUME PromptClear, SelectInv, RangeInv, NEW c \in Ctas, Step(c)
  PROVE  RangeInv'
<1>s. PlaceInv BY DEF SelectInv
<1>1. ASSUME NEW d \in Ctas, pc'[d] = "row"
      PROVE  prefix'[d] \in Keys /\ remaining'[d] \in 1 .. TOPK
  <2>1. prefix[d] \in Keys /\ remaining[d] \in 1 .. TOPK
    BY SelectRange DEF RangeInv
  <2>2. prefix'[d] = prefix[d] /\ remaining'[d] = remaining[d]
    <3>1. CASE d # c BY <1>s, <3>1, StepFrame
    <3>2. CASE d = c
      <4>1. ~LongRow(c) /\ ~Scan(c)
        <5>1. LongRow(c) => pc'[c] = "starting" BY <1>s DEF LongRow, Goto, PlaceInv, Typed
        <5>2. Scan(c) => pc'[c] \in {"collect", "count"} BY <1>s DEF Scan, Goto, PlaceInv, Typed
        <5> QED BY <1>1, <3>2, <5>1, <5>2
      <4>2. select' = select
        <5>1. ShortRow(c) \/ LeaveStart(c) \/ Clear(c) => select' = select
          BY DEF ShortRow, LeaveStart, Clear
        <5>2. Count(c) \/ ClearNext(c) \/ LeaveRound(c) => select' = select
          BY DEF Count, ClearNext, LeaveRound
        <5>3. Collect(c) \/ LeaveCollect(c) \/ TakeEqual(c) \/ NextRow(c) => select' = select
          BY DEF Collect, LeaveCollect, TakeEqual, NextRow
        <5> QED BY <4>1, <5>1, <5>2, <5>3 DEF Step, Arrive
      <4> QED BY <4>2 DEF select
    <3> QED BY <3>1, <3>2
  <2> QED BY <2>1, <2>2
<1> QED BY <1>1, HistBound DEF RangeInv

LEMMA RangeInit == Init => RangeInv
<1> SUFFICES ASSUME Init PROVE RangeInv OBVIOUS
<1>1. PICK m \in Nat \ {0} : m = CTAS * CHUNK_SIZE
  <2>1. CTAS * CHUNK_SIZE \in Nat \ {0} BY Parameters
  <2> QED BY <2>1
<1>2. 0 \in Keys
  <2>1. Span(0) \in Nat \ {0} BY Spans DEF ROUNDS
  <2> QED BY <2>1 DEF Keys
<1>3. hist \in [0 .. SLOTS - 1 -> [0 .. RADIX - 1 -> 0 .. m]] BY DEF Init, NoSlot
<1>4. TOPK \in 1 .. TOPK BY Parameters
<1> QED BY <1>1, <1>2, <1>3, <1>4 DEF Init, RangeInv

LEMMA RangeStutter ==
  ASSUME RangeInv, UNCHANGED vars
  PROVE  RangeInv'
BY DEF RangeInv, vars, global, select

LEMMA InvImpliesType ==
  ASSUME SelectInv, OutInv, RangeInv
  PROVE  TypeOK
<1>s. /\ PlaceInv /\ BarrierInv /\ RingInv /\ OutTyped /\ Typed /\ rows \in Batches
      /\ \A c \in Ctas : Placed(c)
  BY DEF SelectInv, OutInv, PlaceInv, Typed
<1>1. arrivals \in 0 .. CTAS * (ROUNDS + 2) * Len(rows) BY <1>s, ArrivalsBound
<1>2. pc \in [Ctas -> {"row", "starting", "clear", "count", "clearNext", "counted",
                       "meeting", "scan", "collect", "collected", "collecting", "equal"}]
  BY <1>s DEF Typed, Placed, Positions, Counting, Taking
<1>3. iter \in [Ctas -> 0 .. Len(rows)] BY <1>s DEF Typed, Placed
<1>4. phase \in [Ctas -> 0 .. (ROUNDS + 2) * Len(rows)]
  <2>1. \A c \in Ctas : phase[c] \in 0 .. 6 * Len(rows) BY <1>s, PhaseBound
  <2>2. (ROUNDS + 2) * Len(rows) = 6 * Len(rows) BY DEF ROUNDS
  <2> QED BY <1>s, <2>1, <2>2 DEF Typed
<1>5. round \in [Ctas -> 0 .. ROUNDS] BY <1>s DEF Typed, Placed
<1>6. prefix \in [Ctas -> Keys] /\ remaining \in [Ctas -> 1 .. TOPK]
  <2>1. \A c \in Ctas : prefix[c] \in Keys /\ remaining[c] \in 1 .. TOPK
    BY SelectRange DEF RangeInv
  <2> QED BY <1>s, <2>1 DEF RingInv
<1>7. equal \in [Ctas -> SUBSET (0 .. CTAS * CHUNK_SIZE - 1)]
  <2>1. ASSUME NEW c \in Ctas PROVE equal[c] \subseteq 0 .. CTAS * CHUNK_SIZE - 1
    <3>1. CASE pc[c] = "equal"
      <4>1. equal[c] \subseteq DOMAIN rows[iter[c] + 1]
        BY <1>s, <3>1 DEF OutTyped, Chunk, Row
      <4>2. iter[c] \in RowIndex BY <1>s, <3>1, TakingCurrent DEF Taking
      <4> QED BY <1>s, <4>1, <4>2, RowBounds
    <3>2. CASE pc[c] # "equal" BY <1>s, <3>2 DEF OutTyped
    <3> QED BY <3>1, <3>2
  <2> QED BY <1>s, <2>1 DEF OutTyped
<1> QED BY <1>s, <1>1, <1>2, <1>3, <1>4, <1>5, <1>6, <1>7 DEF TypeOK, OutTyped, RangeInv

\* Under the same proviso every counter and register stays in its range: in particular
\* a round of the select always leaves a key to be taken, and the output counter never
\* exceeds the keys of a row.
THEOREM RegistersInRange == ASSUME PromptClear PROVE Spec => []TypeOK
<1>1. Init => SelectInv /\ OutInv /\ RangeInv BY SelectInit, OutInit, RangeInit
<1>2. SelectInv /\ OutInv /\ RangeInv /\ [Next]_vars => (SelectInv /\ OutInv /\ RangeInv)'
  <2>1. SelectInv /\ [Next]_vars => SelectInv' BY SelectStep
  <2>2. SelectInv /\ OutInv /\ [Next]_vars => OutInv'
    BY OutStep, OutStutter DEF Next, Done
  <2>3. SelectInv /\ RangeInv /\ [Next]_vars => RangeInv'
    BY RangeStep, RangeStutter DEF Next, Done
  <2> QED BY <2>1, <2>2, <2>3
<1>3. SelectInv /\ OutInv /\ RangeInv => TypeOK BY InvImpliesType
<1> QED BY <1>1, <1>2, <1>3, PTL DEF Spec

=============================================================================
