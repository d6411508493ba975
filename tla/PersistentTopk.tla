---------------------------- MODULE PersistentTopk ----------------------------
(***************************************************************************)
(* The persistent top-k kernel (ops/persistent_topk.py): a group of CTAs   *)
(* takes the rows of its batch one after another.  A long row is split into *)
(* chunks, one per CTA, and the CTAs find the k-th largest key together,    *)
(* four rounds of a radix select over histograms in global memory, ordered *)
(* by a counting barrier that is never reset.  A short row is done by CTA 0 *)
(* while the others go on to the next row.                                  *)
(*                                                                         *)
(* Groups share nothing: the module is one group.  A key is a number of     *)
(* ROUNDS digits; RADIX is 256 in the code.                                 *)
(***************************************************************************)
EXTENDS Integers, Sequences, FiniteSets, FiniteSetsExt, Functions

CONSTANTS
  CTAS,             \* ctas_per_group
  TOPK,
  CHUNK_SIZE,       \* keys of a row that one CTA holds
  RADIX_THRESHOLD,  \* rows up to this length are done by CTA 0 alone
  RADIX,
  Batches,          \* the batches explored: the rows of the group, in order
  PromptClear       \* whether CTA 0 clears the ring before anyone adds to it

ROUNDS == 4
SLOTS  == 3

\* How many keys share the digits that come before a round: RADIX ^ (ROUNDS - turn).
Span(turn) == <<RADIX * RADIX * RADIX * RADIX, RADIX * RADIX * RADIX,
                RADIX * RADIX, RADIX, 1>>[turn + 1]
Keys == 0 .. Span(0) - 1

\* The host picks chunks that cover a row and rows never exceed the stride.
TopkAssumption ==
  /\ {CTAS, TOPK, CHUNK_SIZE, RADIX} \subseteq Nat \ {0}
  /\ RADIX_THRESHOLD \in Nat /\ RADIX_THRESHOLD >= TOPK
  /\ PromptClear \in BOOLEAN
  /\ \A batch \in Batches :
       /\ batch \in Seq(Range(batch))
       /\ \A k \in DOMAIN batch :
            \E n \in 1 .. CTAS * CHUNK_SIZE : batch[k] \in [0 .. n - 1 -> Keys]
ASSUME TopkAssumption

VARIABLES
  rows,      \* the batch
  hist,      \* histogram[SLOTS][RADIX], the ring in global memory
  arrivals,  \* arrival_counter
  taken,     \* output_counter
  output,    \* the index arrays of all rows, one after another
  \* registers and shared memory of each CTA:
  pc,
  iter,      \* rows it has left behind
  phase,     \* barrier_phase: barriers it has passed
  round,     \* rounds of the select it has finished
  prefix,    \* the digits found so far
  remaining, \* keys to take from those with this prefix
  equal      \* its keys equal to the k-th largest that still want a place

select == <<round, prefix, remaining>>
global == <<hist, arrivals, taken, output>>
vars   == <<rows, global, pc, iter, phase, select, equal>>

Ctas == 0 .. CTAS - 1
Unwritten == -2
Pad       == -1

Row(c)   == rows[iter[c] + 1]
Long(c)  == Cardinality(DOMAIN Row(c)) > RADIX_THRESHOLD
Chunk(c) == {i \in DOMAIN Row(c) : i \div CHUNK_SIZE = c}

\* The digit of a key that a round looks at, and the digits before it.
Digit(key, turn)  == (key \div Span(turn + 1)) % RADIX
Prefix(key, turn) == key - (key % Span(turn))

\* Keys of a set of indices that are still in the race, by digit.
Counts(row, set, turn, digits) ==
  [d \in 0 .. RADIX - 1 |->
     Cardinality({i \in set : Prefix(row[i], turn) = digits
                              /\ Digit(row[i], turn) = d})]

\* Mutant: two slots take turns.
SlotOfTwo(row, turn) == (row * ROUNDS + turn) % (SLOTS - 1)

\* The slot of a round of a row.
Slot(row, turn) == (row * ROUNDS + turn) % SLOTS

\* Stores to the output of the row the CTA is in; a position beyond its end is
\* in the next row, and beyond the last row not in the tensor.
Stored(c, at) ==
  [a \in DOMAIN output |->
     LET place == a - iter[c] * TOPK
     IN  IF place \in DOMAIN at THEN at[place] ELSE output[a]]

-----------------------------------------------------------------------------
NoSlot == [d \in 0 .. RADIX - 1 |-> 0]

Init ==
  /\ rows \in Batches
  /\ hist = [s \in 0 .. SLOTS - 1 |-> NoSlot]
  /\ arrivals = 0
  /\ taken = 0
  /\ output = [a \in 0 .. Len(rows) * TOPK - 1 |-> Unwritten]
  /\ pc = [c \in Ctas |-> "row"]
  /\ iter = [c \in Ctas |-> 0]
  /\ phase = [c \in Ctas |-> 0]
  /\ round = [c \in Ctas |-> 0]
  /\ prefix = [c \in Ctas |-> 0]
  /\ remaining = [c \in Ctas |-> TOPK]
  /\ equal = [c \in Ctas |-> {}]

Goto(c, from, to) == pc[c] = from /\ pc' = [pc EXCEPT ![c] = to]

\* The barrier: add one to the counter, spin until all of the group have.
Arrive(c, from, to) ==
  /\ Goto(c, from, to)
  /\ arrivals' = arrivals + 1
  /\ UNCHANGED <<rows, hist, taken, output, iter, phase, select, equal>>

\* Mutant: the phase of the barrier before.
AllArrivedBefore(c) == arrivals >= phase[c] * CTAS

AllArrived(c) == arrivals >= (phase[c] + 1) * CTAS

Leave(c, from, to) ==
  /\ Goto(c, from, to)
  /\ AllArrived(c)
  /\ phase' = [phase EXCEPT ![c] = @ + 1]

-----------------------------------------------------------------------------
(* A short row: CTA 0 writes all of it, the others skip it.                  *)
ShortOutput(row) ==
  LET n == Cardinality(DOMAIN row)
  IN  IF n <= TOPK
        THEN {[p \in 0 .. TOPK - 1 |-> IF p < n THEN p ELSE Pad]}
        ELSE {at \in [0 .. TOPK - 1 -> DOMAIN row] :
                /\ IsInjective(at)
                /\ \A i \in DOMAIN row \ Range(at), j \in Range(at) : row[j] >= row[i]}

ShortRow(c) ==
  /\ pc[c] = "row"
  /\ iter[c] < Len(rows)
  /\ ~Long(c)
  /\ IF c = 0 THEN \E at \in ShortOutput(Row(c)) : output' = Stored(c, at)
              ELSE UNCHANGED output
  /\ iter' = [iter EXCEPT ![c] = @ + 1]
  /\ UNCHANGED <<rows, hist, arrivals, taken, pc, phase, select, equal>>

(* A long row: load the chunk, start the select, meet at the first barrier.  *)
LongRow(c) ==
  /\ Goto(c, "row", "starting")
  /\ iter[c] < Len(rows)
  /\ Long(c)
  /\ arrivals' = arrivals + 1
  /\ round' = [round EXCEPT ![c] = 0]
  /\ prefix' = [prefix EXCEPT ![c] = 0]
  /\ remaining' = [remaining EXCEPT ![c] = TOPK]
  /\ UNCHANGED <<rows, hist, taken, output, iter, phase, equal>>

LeaveStart(c) ==
  /\ Leave(c, "starting", IF c = 0 THEN "clear" ELSE "count")
  /\ UNCHANGED <<rows, global, iter, select, equal>>

\* Mutant: the ring is left as the row before left it.
KeepRing(c) ==
  /\ Goto(c, "clear", "count")
  /\ taken' = 0
  /\ UNCHANGED <<rows, hist, arrivals, output, iter, phase, select, equal>>

\* Mutant: the output counter goes on from the row before.
KeepTaken(c) ==
  /\ Goto(c, "clear", "count")
  /\ hist' = [s \in DOMAIN hist |-> NoSlot]
  /\ UNCHANGED <<rows, arrivals, taken, output, iter, phase, select, equal>>

\* CTA 0 clears the ring and the output counter.
Clear(c) ==
  /\ Goto(c, "clear", "count")
  /\ hist' = [s \in DOMAIN hist |-> NoSlot]
  /\ taken' = 0
  /\ UNCHANGED <<rows, arrivals, output, iter, phase, select, equal>>

-----------------------------------------------------------------------------
(* A round: add the counts of the chunk to the slot of the round, CTA 0      *)
(* clears the slot of the next one, barrier, every CTA reads the slot.       *)
Cleared(c) == iter[0] # iter[c] \/ pc[0] \notin {"starting", "clear"}

Count(c) ==
  /\ Goto(c, "count", IF c = 0 THEN "clearNext" ELSE "counted")
  /\ PromptClear => Cleared(c)
  /\ LET counts == Counts(Row(c), Chunk(c), round[c], prefix[c])
     IN  hist' = [hist EXCEPT ![Slot(iter[c], round[c])] =
                    [d \in DOMAIN @ |-> @[d] + counts[d]]]
  /\ UNCHANGED <<rows, arrivals, taken, output, iter, phase, select, equal>>

ClearNext(c) ==
  /\ Goto(c, "clearNext", "counted")
  /\ hist' = [hist EXCEPT ![Slot(iter[c], round[c] + 1)] = NoSlot]
  /\ UNCHANGED <<rows, arrivals, taken, output, iter, phase, select, equal>>

LeaveRound(c) ==
  /\ Leave(c, "meeting", "scan")
  /\ UNCHANGED <<rows, global, iter, select, equal>>

\* Mutant: keys that are not above the threshold are counted as taken.
ThresholdPast(counts, k) ==
  LET atLeast(d) == SumFunctionOnSet(counts, d .. RADIX - 1)
      hits == {d \in DOMAIN counts :
                 atLeast(d) > k /\ atLeast(d + 1) <= k}
  IN  IF hits = {} THEN [digit |-> 0, remaining |-> k]
      ELSE [digit |-> Max(hits), remaining |-> k - atLeast(Max(hits) + 1)]

\* The digit of the k-th largest key, and how many are left to take with it;
\* the defaults stay when no digit qualifies.
Threshold(counts, k) ==
  LET atLeast(d) == SumFunctionOnSet(counts, d .. RADIX - 1)
      hits == {d \in DOMAIN counts :
                 atLeast(d) >= k /\ atLeast(d + 1) < k}
  IN  IF hits = {} THEN [digit |-> 0, remaining |-> k]
      ELSE [digit |-> Max(hits), remaining |-> k - atLeast(Max(hits) + 1)]

Scan(c) ==
  /\ Goto(c, "scan", IF round[c] + 1 = ROUNDS THEN "collect" ELSE "count")
  /\ LET found == Threshold(hist[Slot(iter[c], round[c])], remaining[c])
     IN  /\ prefix' = [prefix EXCEPT
                          ![c] = @ + found.digit * Span(round[c] + 1)]
         /\ remaining' = [remaining EXCEPT ![c] = found.remaining]
  /\ round' = [round EXCEPT ![c] = @ + 1]
  /\ UNCHANGED <<rows, global, iter, phase, equal>>

-----------------------------------------------------------------------------
(* Reserve places for the keys above the k-th largest and store them; after  *)
(* a barrier the keys equal to it take the places that are left.             *)
Collect(c) ==
  /\ Goto(c, "collect", "collected")
  /\ LET above == {i \in Chunk(c) : Row(c)[i] > prefix[c]}
         at    == [p \in taken .. taken + Cardinality(above) - 1 |->
                     CHOOSE i \in above :
                       Cardinality({j \in above : j < i}) = p - taken]
     IN  /\ taken' = taken + Cardinality(above)
         /\ output' = Stored(c, at)
  /\ UNCHANGED <<rows, hist, arrivals, iter, phase, select, equal>>

LeaveCollect(c) ==
  /\ Leave(c, "collecting", "equal")
  /\ equal' = [equal EXCEPT ![c] = {i \in Chunk(c) : Row(c)[i] = prefix[c]}]
  /\ UNCHANGED <<rows, global, iter, select>>

TakeEqual(c) ==
  /\ pc[c] = "equal"
  /\ \E i \in equal[c] :
       /\ output' = IF taken < TOPK THEN Stored(c, [p \in {taken} |-> i]) ELSE output
       /\ equal' = [equal EXCEPT ![c] = @ \ {i}]
  /\ taken' = taken + 1
  /\ UNCHANGED <<rows, hist, arrivals, pc, iter, phase, select>>

NextRow(c) ==
  /\ Goto(c, "equal", "row")
  /\ equal[c] = {}
  /\ iter' = [iter EXCEPT ![c] = @ + 1]
  /\ UNCHANGED <<rows, global, phase, select, equal>>

Finished(c) == pc[c] = "row" /\ iter[c] = Len(rows)

Done == (\A c \in Ctas : Finished(c)) /\ UNCHANGED vars

Step(c) ==
  \/ ShortRow(c) \/ LongRow(c) \/ LeaveStart(c) \/ Clear(c)
  \/ Count(c) \/ ClearNext(c)
  \/ Arrive(c, "counted", "meeting") \/ LeaveRound(c) \/ Scan(c)
  \/ Collect(c)
  \/ Arrive(c, "collected", "collecting") \/ LeaveCollect(c)
  \/ TakeEqual(c) \/ NextRow(c)

Next == (\E c \in Ctas : Step(c)) \/ Done

Spec == Init /\ [][Next]_vars

-----------------------------------------------------------------------------
\* Every register and counter stays in its range: in particular a round leaves
\* at least one key to be taken, and no more than TOPK.
TypeOK ==
  /\ rows \in Batches
  /\ hist \in [0 .. SLOTS - 1 -> [0 .. RADIX - 1 -> 0 .. CTAS * CHUNK_SIZE]]
  /\ arrivals \in 0 .. CTAS * (ROUNDS + 2) * Len(rows)
  /\ taken \in 0 .. CTAS * CHUNK_SIZE
  /\ output \in [0 .. Len(rows) * TOPK - 1 -> Unwritten .. CTAS * CHUNK_SIZE - 1]
  /\ pc \in [Ctas -> {"row", "starting", "clear", "count", "clearNext", "counted",
                      "meeting", "scan", "collect", "collected", "collecting", "equal"}]
  /\ iter \in [Ctas -> 0 .. Len(rows)]
  /\ phase \in [Ctas -> 0 .. (ROUNDS + 2) * Len(rows)]
  /\ round \in [Ctas -> 0 .. ROUNDS]
  /\ prefix \in [Ctas -> Keys]
  /\ remaining \in [Ctas -> 1 .. TOPK]
  /\ equal \in [Ctas -> SUBSET (0 .. CTAS * CHUNK_SIZE - 1)]

\* A CTA that reads the histogram of a round finds in it every key of the row
\* that is still in the race, once: nothing left of the row or the round that
\* used the slot before, nothing lost to the clearing of another slot.
CountsComplete ==
  \A c \in Ctas : pc[c] = "scan" =>
    hist[Slot(iter[c], round[c])]
      = Counts(Row(c), DOMAIN Row(c), round[c], prefix[c])

\* No CTA is more than one barrier ahead of another, so that a slot of the ring
\* is cleared when all have read it and no counter is reset under a reader.
BarrierSkew ==
  \A c, d \in Ctas : phase[c] <= phase[d] + 1

\* When all CTAs have left a row, its output holds TOPK different indices of keys
\* no smaller than any key left out; a row that is not longer than TOPK is listed
\* in order and padded.
TopKExact ==
  \A k \in DOMAIN rows : (\A c \in Ctas : iter[c] >= k) =>
    [p \in 0 .. TOPK - 1 |-> output[(k - 1) * TOPK + p]] \in ShortOutput(rows[k])
=============================================================================
