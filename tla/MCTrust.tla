------------------------------ MODULE MCTrust -------------------------------
(* Two Arks and a root of each kind.                                       *)
EXTENDS Trust

CONSTANTS k1, k2, hw, em

Cwt(shape, key, issuer, valid) ==
  [shape |-> shape, signer |-> key, issuer |-> issuer, valid |-> valid]

(* As in the code's tests: a hardware attestation does not expire.         *)
SomeCwts ==
  { Cwt("hardware", k1, hw, {1}),     (* onboarded                         *)
    Cwt("emulator", k2, em, {0}),     (* an emulator's                     *)
    Cwt("hardware", k2, em, {0, 1}),  (* by a root of the wrong kind       *)
    Cwt("other", k1, hw, {0, 1}) }    (* no device attestation             *)

SomeTimes == {-1, 0, 1}
=============================================================================
