---------------------------- MODULE MegaMoeWaves ----------------------------
(***************************************************************************)
(* The two matrix products of a MegaMoE launch on one rank: on every        *)
(* program two loaders (activations and weights) and two math warp groups   *)
(* walk the same list of tiles, each with a cursor of its own, and meet in  *)
(* a pipe of STAGES slots.                                                  *)
(*                                                                         *)
(* The experts are taken in waves; in a wave come first the L1 tiles of all *)
(* its blocks, then their L2 tiles.  An L2 tile reads what the L1 tiles of  *)
(* the block wrote, on whatever program: the activation loader waits for    *)
(* the bits of l2_arrival_mask.  Nothing else orders the programs.          *)
(***************************************************************************)
EXTENDS Integers, FiniteSets, FiniteSetsExt, Functions

CONSTANTS
  NUM_SMS,
  EPR,          \* experts of the rank
  EPW,          \* experts of a wave: the smaller of 8 and EPR
  BLOCK_M,      \* rows of a block, split between the two math warp groups
  HiddenTiles,  \* hidden_size in tiles of 128
  InterTiles,   \* intermediate_size in tiles of 128
  STAGES,       \* slots of the pipe
  TokenCounts,  \* the numbers of routes an expert may receive
  PoolBlocks    \* capacity of the pool, in blocks

ASSUME WavesAssumption ==
  /\ NUM_SMS \in Nat \ {0} /\ EPR \in Nat \ {0} /\ EPW \in 1 .. EPR
  /\ BLOCK_M \in Nat \ {0} /\ BLOCK_M % 2 = 0
  /\ HiddenTiles \in Nat \ {0} /\ InterTiles \in Nat \ {0}
  /\ STAGES \in Nat \ {0} /\ TokenCounts \subseteq Nat /\ PoolBlocks \in Nat

SMs   == 0 .. NUM_SMS - 1
Local == 0 .. EPR - 1
WGs   == {0, 1}
Loaders == {"A", "B"}

NK1 == HiddenTiles
NK2 == InterTiles
NL1N == 2 * InterTiles
NL2N == HiddenTiles
NK(phase) == IF phase = 1 THEN NK1 ELSE NK2
Width(phase) == IF phase = 1 THEN NL1N ELSE NL2N

VARIABLES
  tokens,     \* the low words of recv_sum
  counted,    \* the high words of recv_sum are complete
  ready,      \* metadata_ready of each program
  arrived,    \* the blocks whose rows have all been pulled
  mask,       \* l2_arrival_mask: the bits set, by block
  load,       \* load[s][x]: cursor of loader x of program s
  math,       \* math[s][w]: cursor of math warp group w
  slots,      \* slots[s][x]: what loader x last put in each slot
  scattered   \* rows and column tiles scattered so far, by warp group

vars == <<tokens, counted, ready, arrived, mask, load, math, slots, scattered>>

\* Blocks of every expert; a wave may reach past the last expert.
Padded == 0 .. ((EPR + EPW - 1) \div EPW) * EPW - 1
NumM == [e \in Padded |->
           IF e < EPR THEN (tokens[e] + BLOCK_M - 1) \div BLOCK_M ELSE 0]

\* Blocks of the experts lo .. hi - 1.
BlocksOf(n, lo, hi) == SumFunctionOnSet(n, lo .. hi - 1)
Offset(e) == BlocksOf(NumM, 0, e)
Pool == 0 .. Offset(EPR) - 1

\* The expert of a block and how many of its rows hold a route.
ExpertOf(b) == CHOOSE e \in Local : b \in Offset(e) .. Offset(e + 1) - 1
ValidM(b) ==
  Min({tokens[ExpertOf(b)] - (b - Offset(ExpertOf(b))) * BLOCK_M, BLOCK_M})

\* Whether a warp group, which takes half of the rows, has rows to finish.
HasRows(w, b) == w = 0 \/ ValidM(b) > BLOCK_M \div 2

-----------------------------------------------------------------------------
(***************************************************************************)
(* The cursor: block counts the tiles still to be skipped from the first    *)
(* tile of expert cur; pool and wave are the loaders' running offsets of    *)
(* the pool; ck counts the slots and kb those of the current tile.          *)
(***************************************************************************)
Cursors == [block : Nat, cur : Nat, phase : {1, 2}, pool : Nat, wave : Nat,
            ck : Nat, kb : Nat, stop : BOOLEAN]
Cursor(s) == [block |-> s, cur |-> 0, phase |-> 1, pool |-> 0, wave |-> 0,
              ck |-> 0, kb |-> 0, stop |-> FALSE]

WaveEnd(c) == (c.cur \div EPW + 1) * EPW

\* The tiles of the experts cur .. e - 1 in the current phase.
Skipped(n, c, e) == BlocksOf(n, c.cur, e) * Width(c.phase)

\* Mutant: the L2 tiles start at the last expert of the wave.
EndOfPhase1LastExpert(n, c, end) ==
  [c EXCEPT !.block = @ - Skipped(n, c, end), !.phase = 2, !.cur = end - 1,
            !.pool = c.wave + BlocksOf(n, (c.cur \div EPW) * EPW, end - 1)]

\* Nothing left of the L1 tiles of the wave: back to its first expert for L2.
EndOfPhase1(n, c, end) ==
  [c EXCEPT !.block = @ - Skipped(n, c, end), !.phase = 2,
            !.cur = ((end - 1) \div EPW) * EPW, !.pool = c.wave]

\* Nothing left of the L2 tiles: the next wave.
EndOfPhase2(n, c, end) ==
  LET pool == c.pool + BlocksOf(n, c.cur, end)
  IN  [c EXCEPT !.block = @ - Skipped(n, c, end), !.phase = 1, !.cur = end,
                !.pool = pool, !.wave = pool]

\* The scheduler loop: on to the expert that holds the cursor's tile.
Seek(n, cursor) ==
  LET seek[c \in Cursors] ==
        LET end  == WaveEnd(c)
            hits == {e \in c.cur .. end - 1 : c.block < Skipped(n, c, e + 1)}
        IN  IF c.cur >= EPR THEN [c EXCEPT !.stop = TRUE]
            ELSE IF hits # {}
              THEN [c EXCEPT !.cur = Min(hits),
                             !.block = @ - Skipped(n, c, Min(hits)),
                             !.pool = @ + BlocksOf(n, c.cur, Min(hits))]
            ELSE seek[IF c.phase = 1 THEN EndOfPhase1(n, c, end)
                                     ELSE EndOfPhase2(n, c, end)]
  IN  seek[cursor]

\* Mutant: the programs take runs of adjacent tiles.
StrideOne(c) == Seek(NumM, [c EXCEPT !.block = @ + 1, !.kb = 0])

\* On to the program's next tile.
NextTile(c) == Seek(NumM, [c EXCEPT !.block = @ + NUM_SMS, !.kb = 0])

\* The math warps keep no offset of the pool.
Unpooled(c) == [c EXCEPT !.pool = 0, !.wave = 0]

MBlock(c) == c.block \div Width(c.phase)
NBlock(c) == c.block % Width(c.phase)

\* The block of the pool: the loaders carry its offset along, the math warps
\* compute it from the counts of all experts.
LoaderBlock(c) == c.pool + MBlock(c)
MathBlock(c)   == Offset(c.cur) + MBlock(c)

\* After a slot: the next one of the tile, or the next tile.
Advance(c) ==
  LET d == [c EXCEPT !.ck = @ + 1]
  IN  IF c.kb + 1 < NK(c.phase) THEN [d EXCEPT !.kb = @ + 1] ELSE NextTile(d)

-----------------------------------------------------------------------------
NoSlot == [phase |-> 0, expert |-> 0, at |-> 0, kb |-> 0]

Init ==
  /\ tokens \in [Local -> TokenCounts]
  /\ Offset(EPR) <= PoolBlocks
  /\ counted = FALSE
  /\ ready = [s \in SMs |-> FALSE]
  /\ arrived = {}
  /\ mask = [b \in 0 .. PoolBlocks - 1 |-> {}]
  /\ load = [s \in SMs |-> [x \in Loaders |-> Cursor(s)]]
  /\ math = [s \in SMs |-> [w \in WGs |-> Cursor(s)]]
  /\ slots = [s \in SMs |-> [x \in Loaders |-> [i \in 0 .. STAGES - 1 |-> NoSlot]]]
  /\ scattered = [w \in WGs |-> {}]

\* All ranks have published their counts: the loaders seek their first tile.
SumsComplete ==
  /\ ~counted
  /\ counted' = TRUE
  /\ load' = [s \in SMs |-> [x \in Loaders |-> Seek(NumM, Cursor(s))]]
  /\ UNCHANGED <<tokens, ready, arrived, mask, math, slots, scattered>>

\* The dispatch role of program s is past its barriers: the math warps do, too.
MetadataReady(s) ==
  /\ counted
  /\ ~ready[s]
  /\ ready' = [ready EXCEPT ![s] = TRUE]
  /\ math' = [math EXCEPT ![s] = [w \in WGs |-> Unpooled(Seek(NumM, Cursor(s)))]]
  /\ UNCHANGED <<tokens, counted, arrived, mask, load, slots, scattered>>

\* The last row of a block has been pulled, by some program past its barriers.
BlockArrives(b) ==
  /\ b \notin arrived
  /\ \E s \in SMs : ready[s]
  /\ arrived' = arrived \cup {b}
  /\ UNCHANGED <<tokens, counted, ready, mask, load, math, slots, scattered>>

-----------------------------------------------------------------------------
FullMask == (0 .. NL1N - 1) \X WGs

\* The rows that the activation loader is about to read are there.
RowsReady(c) == IF c.phase = 1 THEN LoaderBlock(c) \in arrived
                               ELSE mask[LoaderBlock(c)] = FullMask

\* Mutant: the slot is free when one warp group has released it.
AcquiredFromOne(s, ck) == \E w \in WGs : ck < math[s][w].ck + STAGES

\* acquire: both warp groups have released what the slot held before.
Acquired(s, ck) == \A w \in WGs : ck < math[s][w].ck + STAGES

\* What a loader copies: rows of the pool, or rows of an expert's weights.
Copied(x, c) ==
  [phase |-> c.phase, expert |-> c.cur, kb |-> c.kb,
   at |-> IF x = "A" THEN LoaderBlock(c) ELSE NBlock(c)]

Load(s, x) ==
  LET c == load[s][x] IN
  /\ counted /\ ~c.stop
  /\ x = "A" /\ c.kb = 0 => RowsReady(c)
  /\ Acquired(s, c.ck)
  /\ slots' = [slots EXCEPT ![s][x][c.ck % STAGES] = Copied(x, c)]
  /\ load' = [load EXCEPT ![s][x] = Advance(c)]
  /\ UNCHANGED <<tokens, counted, ready, arrived, mask, math, scattered>>

\* wait: both loaders have committed the slot.
Committed(s, ck) == \A x \in Loaders : ck < load[s][x].ck

\* Mutant: a warp group without rows does not publish either.
PublishedWithRows(w, b, n) == IF HasRows(w, b) THEN {<<n, w>>} ELSE {}

\* Both warp groups publish an L1 tile, also the one that has no rows.
Published(w, b, n) == {<<n, w>>}

\* The rows of a block that a warp group scatters, with the column tile.
RowsOf(w, b, n) ==
  LET half == BLOCK_M \div 2
  IN  {<<b, m, n>> : m \in w * half .. Min({ValidM(b), (w + 1) * half}) - 1}

\* A slot is used and released; the last one of a tile ends in its epilogue.
Multiply(s, w) ==
  LET c == math[s][w]
      b == MathBlock(c)
      last == c.kb + 1 = NK(c.phase)
  IN
  /\ ready[s] /\ ~c.stop
  /\ Committed(s, c.ck)
  /\ math' = [math EXCEPT ![s][w] = Unpooled(Advance(c))]
  /\ mask' = IF last /\ c.phase = 1
             THEN [mask EXCEPT ![b] = @ \cup Published(w, b, NBlock(c))] ELSE mask
  /\ scattered' = IF last /\ c.phase = 2 /\ HasRows(w, b)
                  THEN [scattered EXCEPT ![w] = @ \cup RowsOf(w, b, NBlock(c))]
                  ELSE scattered
  /\ UNCHANGED <<tokens, counted, ready, arrived, load, slots>>

-----------------------------------------------------------------------------
Finished ==
  \A s \in SMs : /\ \A x \in Loaders : load[s][x].stop
                 /\ \A w \in WGs : math[s][w].stop

Terminated == Finished /\ UNCHANGED vars

Next ==
  \/ SumsComplete
  \/ \E s \in SMs : MetadataReady(s)
  \/ \E b \in Pool : BlockArrives(b)
  \/ \E s \in SMs : \/ \E x \in Loaders : Load(s, x)
                    \/ \E w \in WGs : Multiply(s, w)
  \/ Terminated

Spec == Init /\ [][Next]_vars

\* All programs are resident: a role that can go on does.
FairSpec ==
  /\ Spec
  /\ WF_vars(SumsComplete)
  /\ \A s \in SMs :
       /\ WF_vars(MetadataReady(s))
       /\ \A x \in Loaders : WF_vars(Load(s, x))
       /\ \A w \in WGs : WF_vars(Multiply(s, w))
  /\ \A b \in 0 .. PoolBlocks - 1 : WF_vars(b \in Pool /\ BlockArrives(b))

-----------------------------------------------------------------------------
\* The two loaders and the math warps of a program walk one list of tiles: what
\* a warp group finds in the slot is the slice of the tile that it is at, of the
\* pool block it will store to, and no loader has reused the slot.
SlotsMatchTiles ==
  \A s \in SMs, w \in WGs :
    LET c == math[s][w]
        slot(x) == slots[s][x][c.ck % STAGES]
        slice(at) == [phase |-> c.phase, expert |-> c.cur, at |-> at, kb |-> c.kb]
    IN  ready[s] /\ ~c.stop /\ Committed(s, c.ck) =>
          slot("A") = slice(MathBlock(c)) /\ slot("B") = slice(NBlock(c))

\* No two programs work on the same tile, and no tile is scattered twice.
TilesDisjoint ==
  \A s, t \in SMs, w \in WGs :
    LET c == math[s][w]
        d == math[t][w]
    IN  ready[s] /\ ~c.stop =>
          /\ s # t /\ ready[t] /\ ~d.stop =>
               <<c.phase, MathBlock(c), NBlock(c)>> # <<d.phase, MathBlock(d), NBlock(d)>>
          /\ c.phase = 2 =>
               RowsOf(w, MathBlock(c), NBlock(c)) \cap scattered[w] = {}

\* When the programs have stopped every valid row has been scattered in full: no
\* tile is skipped between the waves, whatever the loads of the experts.
AllRowsScattered ==
  Finished =>
    scattered[0] \cup scattered[1] =
      {x \in Pool \X (0 .. BLOCK_M - 1) \X (0 .. NL2N - 1) : x[2] < ValidM(x[1])}

\* Every role of every program stops, although L2 tiles wait for L1 tiles of other
\* programs and the pipe holds the loaders back.
RolesStop == <>Finished
=============================================================================
