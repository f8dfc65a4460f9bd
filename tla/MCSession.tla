----------------------------- MODULE MCSession -----------------------------
(* Three blocks verify; then the tables of MCSlotTable are installed and used. *)
EXTENDS Session, MCSlotTable

\* The tables of this instance are what the proofs of SessionProofs assume.
ASSUME OfferedAssumption == Narrow /\ Leases
=============================================================================
