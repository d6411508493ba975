------------------------------ MODULE ColumnStore ------------------------------
(***************************************************************************)
(* What the clients of the tuned configuration store can rely on           *)
(* (ConfigCache and BenchmarkCache of utils/libentry.py).                  *)
(*                                                                         *)
(* An entry appears once, as a whole, and never disappears.  After that    *)
(* its columns are separate registers: a client that stores a value late   *)
(* overwrites some of them.                                                *)
(***************************************************************************)
CONSTANTS Rows, Columns, Values, Absent

VARIABLE rows       \* rows[k]: the entry of key k, or Absent

Init == rows = [k \in Rows |-> Absent]

Appear(k, v) ==
    /\ rows[k] = Absent
    /\ rows' = [rows EXCEPT ![k] = v]

Overwrite(k, v, written) ==
    /\ rows[k] # Absent
    /\ rows' = [rows EXCEPT ![k] =
                  [c \in Columns |-> IF c \in written THEN v[c] ELSE rows[k][c]]]

Next == \E k \in Rows, v \in Values :
           Appear(k, v) \/ \E written \in SUBSET Columns : Overwrite(k, v, written)

Spec == Init /\ [][Next]_rows
=============================================================================
