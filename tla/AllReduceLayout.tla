---------------------------- MODULE AllReduceLayout ----------------------------
(***************************************************************************)
(* The memory map and the launch plan of the fused all-reduce              *)
(* (ops/fused_allreduce_rms_norm.py): where a launch of M tokens puts its  *)
(* payload in the three-slot symmetric workspace, which cells it clears,   *)
(* which kernel the host picks and how the resident programs share the     *)
(* work.                                                                   *)
(*                                                                         *)
(* The unit of memory is a CELL: one tile of one row, BLOCK_SIZE elements, *)
(* so that the hidden dimension H of the source is TilesPerRow cells.      *)
(***************************************************************************)
EXTENDS Integers, FiniteSets

CONSTANTS
    WorldSize,      \* ranks of the tensor-parallel group
    MaxTokens,      \* max_token_num of the workspace
    TilesPerRow,    \* hidden_dim, in tiles
    Backends,       \* the backends a workspace may get: "peer", "mnnvl"
    ProgramLimit,   \* resident_program_limit: one program per multiprocessor
    OneShotTokens   \* per backend, the largest M under its one-shot threshold

ASSUME LayoutAssumption ==
    /\ WorldSize \in {2, 4, 8}
    /\ MaxTokens \in Nat \ {0}
    /\ TilesPerRow \in Nat \ {0}
    /\ Backends \subseteq {"peer", "mnnvl"}
    /\ ProgramLimit \in Nat \ {0}
    /\ OneShotTokens \in [Backends -> Nat]

VARIABLE
    backend         \* the backend of the workspace, chosen when it is created

Ranks == 0 .. WorldSize - 1
Programs == 0 .. ProgramLimit - 1
Tiles == 0 .. TilesPerRow - 1
Slots == 0 .. 2

\* The cells of a tensor of m tokens.
Cells(m) == (0 .. m - 1) \X Tiles

CeilDiv(a, b) == (a + b - 1) \div b
Smaller(a, b) == IF a < b THEN a ELSE b
Larger(a, b) == IF a > b THEN a ELSE b

-----------------------------------------------------------------------------
(* The workspace. *)

Capacity == MaxTokens * TilesPerRow
ScatterRankCapacity == CeilDiv(MaxTokens, WorldSize) * TilesPerRow
StageCapacity == WorldSize * ScatterRankCapacity

SlotCapacity == IF backend = "mnnvl"
                THEN Larger(WorldSize * Capacity, 2 * StageCapacity)
                ELSE WorldSize * Capacity

SlotBase(s) == s * SlotCapacity
SlotCells(s) == SlotBase(s) .. SlotBase(s) + SlotCapacity - 1

\* What follows the buffer in memory, as far as a launch could overrun it.
BufferCells == 0 .. 3 * SlotCapacity + StageCapacity - 1

\* A one-shot launch gives every source rank a slice of Capacity.
OneShotCell(s, source, c) ==
    SlotBase(s) + source * Capacity + c[1] * TilesPerRow + c[2]

\* Shot 1 of a two-shot launch: the owner of a token holds one slice of
\* ScatterRankCapacity for every source rank.
ScatterCell(s, source, c) ==
    SlotBase(s) + source * ScatterRankCapacity
                + (c[1] \div WorldSize) * TilesPerRow + c[2]

\* Shot 2: the owner's sum, at the same place on every rank.
BroadcastCell(s, c) ==
    SlotBase(s) + StageCapacity + c[1] * TilesPerRow + c[2]

Owner(c) == c[1] % WorldSize

-----------------------------------------------------------------------------
(* The launch plan. *)

Kernel(m) ==
    IF m > OneShotTokens[backend] THEN "twoshot"
    ELSE IF backend = "mnnvl" \/ m * TilesPerRow <= ProgramLimit THEN "tiled"
    ELSE "rowwise"

Grid(m) == Smaller(ProgramLimit,
                   IF Kernel(m) = "rowwise" THEN m ELSE m * TilesPerRow)

Strategy(m) == IF Kernel(m) = "twoshot" THEN 1 ELSE 0

\* The work items a grid strides over. A row-wise program handles a row at a
\* time, the others a tile.
ItemCount(m) == IF Kernel(m) = "rowwise" THEN m ELSE m * TilesPerRow
ItemCells(m, w) == IF Kernel(m) = "rowwise"
                   THEN {w} \X Tiles
                   ELSE {<<w \div TilesPerRow, w % TilesPerRow>>}

\* The tiles a rank owns in a two-shot launch.
\* Mutant: tokens split without rounding up.
OwnedFloor(r, m) == (m \div WorldSize) * TilesPerRow
OwnedCount(r, m) == ((m + WorldSize - 1 - r) \div WorldSize) * TilesPerRow
OwnedCell(r, w) == <<r + (w \div TilesPerRow) * WorldSize, w % TilesPerRow>>

-----------------------------------------------------------------------------
(* The clear pass: the share of program p in a grid of g. *)

Share(p, g, count) == {i \in 0 .. count - 1 : i % g = p}

ClearOneShot(base, p, g, numel) ==
    {base + source * Capacity + i : source \in Ranks, i \in Share(p, g, numel)}

\* Mutant: the sums of shot 2 are forgotten.
ClearScatterOnly(base, p, g, numel) ==
    LET scatter == CeilDiv(numel \div TilesPerRow, WorldSize) * TilesPerRow
    IN  {base + source * ScatterRankCapacity + i :
            source \in Ranks, i \in Share(p, g, scatter)}

ClearTwoShot(base, p, g, numel) ==
    LET scatter == CeilDiv(numel \div TilesPerRow, WorldSize) * TilesPerRow
    IN  {base + source * ScatterRankCapacity + i :
            source \in Ranks, i \in Share(p, g, scatter)}
        \cup {base + StageCapacity + i : i \in Share(p, g, numel)}

\* Mutant: the flattened clear covers one slice only.
ClearFirstSlice(base, p, g, numel) ==
    IF numel = Capacity
    THEN {base + i : i \in Share(p, g, numel)}
    ELSE ClearOneShot(base, p, g, numel)

\* The row-wise kernel treats the slices of an exact-capacity payload as one.
ClearRowwise(base, p, g, numel) ==
    IF numel = Capacity
    THEN {base + i : i \in Share(p, g, WorldSize * numel)}
    ELSE ClearOneShot(base, p, g, numel)

\* Mutant: the slot after the current one is cleared.
ClearNextSlot(m, p, snap) ==
    ClearOneShot(SlotBase((snap.slot + 1) % 3), p, Grid(m), snap.numel)

ClearCells(m, p, snap) ==
    LET base == SlotBase((snap.slot + 2) % 3)
    IN  CASE Kernel(m) = "rowwise" -> ClearRowwise(base, p, Grid(m), snap.numel)
          [] Kernel(m) = "tiled" /\ backend = "peer" ->
                ClearOneShot(base, p, Grid(m), snap.numel)
          [] OTHER -> IF snap.strategy = 0
                      THEN ClearOneShot(base, p, Grid(m), snap.numel)
                      ELSE ClearTwoShot(base, p, Grid(m), snap.numel)
=============================================================================
