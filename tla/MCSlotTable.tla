---------------------------- MODULE MCSlotTable ----------------------------
(* Two rows of capacity 3 over a pool of 7 slots.  Slot 0 is the slot that  *)
(* padding names, and the first offered table leases it to row 1.           *)
EXTENDS SlotTable

Short   == << <<0, 4>>, <<5, 2>> >>
Single  == << <<3>>, <<6>> >>
Full    == << <<6, 1, 3>>, <<2, 5, 4>> >>
Wide    == << <<0, 1, 2, 3>>, <<4, 5, 6, 3>> >>
Outside == << <<0, 7>>, <<1, 2>> >>
OneRow  == << <<0, 1>> >>
NoEntry == << <<>>, <<>> >>

Fitting == {Short, Single, Full, Outside, OneRow, NoEntry}
All     == Fitting \union {Wide}
=============================================================================
