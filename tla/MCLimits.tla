------------------------------ MODULE MCLimits ------------------------------
(* Limits with the bound of a COBS whose runs hold at most Run bytes.      *)
EXTENDS Limits

Run == 3
CobsBound == [n \in 0 .. MAX_FRAME_SIZE + SEAL_OVERHEAD |-> n + 1 + n \div Run]
=============================================================================
