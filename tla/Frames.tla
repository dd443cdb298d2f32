------------------------------- MODULE Frames -------------------------------
(***************************************************************************)
(* What a frame of the wire is.  A byte stream is cut at its zero bytes:   *)
(* the bytes between two zeros (or between the start of the stream and its *)
(* first zero) form a frame, the zero that ends it is its delimiter.       *)
(* Nothing here depends on how the framer finds the frames.                *)
(***************************************************************************)
EXTENDS Naturals, Sequences

CONSTANTS
  Byte,           (* the bytes a stream is made of, zero among them        *)
  MAX_FRAME_SIZE  (* frames above this size are discarded (src/lib.rs)     *)

ASSUME ByteAssumption == Byte \subseteq 0 .. 255 /\ 0 \in Byte
ASSUME SizeAssumption == MAX_FRAME_SIZE \in Nat \ {0}

(* The stretch a .. b of stream s holds no delimiter.                      *)
ZeroFree(s, a, b) == \A k \in a .. b : s[k] # 0

(* A frame may start after position p of s: p is the start of the stream   *)
(* or holds a delimiter.                                                   *)
IsBoundary(s, p) == p > 0 => s[p] = 0

(* The frame after boundary p is the stretch p + 1 .. q - 1 and the byte   *)
(* at q delimits it.  Its size is q - p - 1, zero for a reset signal.      *)
IsFrame(s, p, q) ==
  /\ p \in 0 .. Len(s) /\ q \in p + 1 .. Len(s)
  /\ IsBoundary(s, p)
  /\ ZeroFree(s, p + 1, q - 1)
  /\ s[q] = 0

FrameSize(p, q) == q - p - 1
Content(s, p, q) == SubSeq(s, p + 1, q - 1)

(* Every frame of s that starts at e or later and before p is oversized.   *)
OnlyOversizedBetween(s, e, p) ==
  \A k \in e .. p : \A l \in k + 1 .. Len(s) :
    k < p /\ IsFrame(s, k, l) => FrameSize(k, l) > MAX_FRAME_SIZE

(* The frame (p, q) is the first one at or after boundary e that fits.     *)
IsNextFitting(s, e, p, q) ==
  /\ IsFrame(s, p, q)
  /\ e <= p
  /\ FrameSize(p, q) <= MAX_FRAME_SIZE
  /\ OnlyOversizedBetween(s, e, p)
=============================================================================
