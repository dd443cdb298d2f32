-------------------------------- MODULE Cobs --------------------------------
(***************************************************************************)
(* Consistent overhead byte stuffing, as darkbio-cobs does it by the tests *)
(* of framing.rs: a packet is cut into blocks at its zeros and after every *)
(* Run other bytes, and each block goes out behind a byte that tells where *)
(* the next one begins.  A full block stands for no zero, and the last one *)
(* for none either.                                                        *)
(***************************************************************************)
EXTENDS Naturals, Sequences

CONSTANTS
  Run  (* bytes of a full block, 254 in the library                        *)

(* The first s bytes that belong into one block.                           *)
BlockLen(s) ==
  CHOOSE k \in 0 .. Run :
    /\ k <= Len(s)
    /\ \A i \in 1 .. k : s[i] # 0
    /\ k \in {Run, Len(s)} \/ s[k + 1] = 0

RECURSIVE CobsEncode(_)
CobsEncode(s) ==
  LET k == BlockLen(s)
      block == <<k + 1>> \o SubSeq(s, 1, k)
  IN  IF k = Len(s) THEN block
      ELSE block \o CobsEncode(SubSeq(s, IF k = Run THEN k + 1 ELSE k + 2, Len(s)))

(* Every block ends within the zero-free frame f.                          *)
RECURSIVE CobsDecodable(_)
CobsDecodable(f) ==
  f = <<>> \/ (f[1] <= Len(f) /\ CobsDecodable(SubSeq(f, f[1] + 1, Len(f))))

RECURSIVE CobsDecode(_)
CobsDecode(f) ==
  LET block == SubSeq(f, 2, f[1])
      rest == SubSeq(f, f[1] + 1, Len(f))
  IN  IF rest = <<>> THEN block
      ELSE block \o (IF f[1] = Run + 1 THEN <<>> ELSE <<0>>) \o CobsDecode(rest)

(* encode_buffer: a bound on the encoding of a packet of n bytes, met by   *)
(* the packets without zeros.                                              *)
EncodeBuffer(n) == IF n = 0 THEN 1 ELSE n + (n + Run - 1) \div Run
=============================================================================
