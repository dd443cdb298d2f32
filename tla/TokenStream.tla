---------------------------- MODULE TokenStream -----------------------------
(***************************************************************************)
(* One direction of the wire as HostSide and ArkSide use it: writes of     *)
(* packets and resets that may fail half way, and next_packet at the other *)
(* end.  Everything but the state is Link's; h2a stands for either stream. *)
(***************************************************************************)
EXTENDS Link

CONSTANTS
  Sendable  (* the packets that are sent                                   *)

VARIABLES
  got  (* what next_packet returned last                                   *)

vars == <<h2a, a2h, got>>

Init == h2a = <<>> /\ a2h = <<>> /\ got = Empty

Write ==
  \E ok \in BOOLEAN :
    \E tokens \in (UNION {SendPacket(p, ok) : p \in Sendable}) \cup SendReset(ok) :
      h2a' = h2a \o tokens /\ UNCHANGED <<a2h, got>>

Take ==
  /\ got' \in NextPackets(h2a)
  /\ h2a' = Rest(h2a)
  /\ UNCHANGED a2h

(* What is longer than a frame is never heard of.                          *)
Drop ==
  /\ Glued(h2a)
  /\ h2a' = Rest(h2a)
  /\ UNCHANGED <<a2h, got>>

Next == Write \/ Take \/ Drop

Spec == Init /\ [][Next]_vars
=============================================================================
