--------------------------- MODULE MCPersistentTopk ---------------------------
(* Batches for model checking: three CTAs hold up to two keys each of a row. *)
EXTENDS PersistentTopk

Keyed(s) == [i \in 0 .. Len(s) - 1 |-> s[i + 1]]

\* Long rows: the second largest key is settled in the first, in the last or in
\* a middle round, is alone or shared by two or three CTAs; chunks short and empty.
LongRows == {Keyed(s) : s \in {<<70, 3, 80, 8, 5>>, <<40, 40, 40, 40, 40, 40>>,
                               <<20, 27, 26, 18>>, <<0, 0, 0, 79, 2>>}}

\* Short rows, with a key to leave out, and with a place to pad.
ShortRows == {Keyed(s) : s \in {<<6, 80, 6>>, <<4>>}}

\* Long rows next to each other, and with a short one between or around them.
MixedBatches ==
  {<<a, b>> : a, b \in LongRows}
    \cup {<<a, s, b>> : a, b \in LongRows, s \in ShortRows}
    \cup {<<s, a, s>> : a \in LongRows, s \in ShortRows}

\* One long row.
OneRow == {<<a>> : a \in LongRows}
=============================================================================
