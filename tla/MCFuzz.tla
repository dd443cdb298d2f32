------------------------------- MODULE MCFuzz -------------------------------
EXTENDS Fuzz

(* Empty, the largest that fits as a packet and as a frame, one above      *)
(* them, a full buffer and one above, twice, and one that wraps.           *)
Sizes == {0, 2, 3, 4, 5, 8, 14}

MCFuzzSizes == UNION {[1 .. n -> Sizes] : n \in 0 .. 3}

(* No chunks, empty ones, single bytes, uneven ones, more than there is.   *)
MCChunkSizes == {<<>>, <<0>>, <<2>>, <<1, 3>>, <<3, 0, 2>>, <<9>>}
=============================================================================
