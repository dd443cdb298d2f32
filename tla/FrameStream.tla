---------------------------- MODULE FrameStream -----------------------------
(***************************************************************************)
(* What the framer promises its caller: the frames of the byte stream that *)
(* fit, each exactly once and in the order of the stream, the oversized    *)
(* ones left out.  No buffer, no chunking of the reads, no discard mode.   *)
(***************************************************************************)
EXTENDS Frames

VARIABLES
  input,  (* the bytes the transport has delivered so far                  *)
  ended,  (* position of the delimiter of the last frame handed out        *)
  frame   (* content of the last frame handed out                          *)

vars == <<input, ended, frame>>

Init ==
  /\ input = <<>>
  /\ ended = 0
  /\ frame = <<>>

(* The transport delivers more bytes.                                      *)
Arrive ==
  /\ input' \in Seq(Byte)
  /\ Len(input') > Len(input)
  /\ \A k \in 1 .. Len(input) : input'[k] = input[k]
  /\ UNCHANGED <<ended, frame>>

(* The next frame that fits is handed out.                                 *)
Deliver ==
  \E p \in ended .. Len(input) : \E q \in p + 1 .. Len(input) :
    /\ IsNextFitting(input, ended, p, q)
    /\ ended' = q
    /\ frame' = Content(input, p, q)
    /\ UNCHANGED input

Next == Arrive \/ Deliver

Spec == Init /\ [][Next]_vars

(* Every frame that fits is handed out some time.                          *)
FairSpec == Spec /\ WF_vars(Deliver)
=============================================================================
