----------------------------- MODULE MCPackets ------------------------------
EXTENDS Packets, Cobs

(* The empty packet, a zero, a full block that fills a frame, and one that *)
(* is too large by a byte.                                                 *)
MCPayload == {<<>>, <<0>>, <<1, 2>>, <<1, 0, 1>>}

(* Every packet of up to five bytes survives its encoding, which holds no  *)
(* zero and keeps within its bound.                                        *)
ASSUME CobsRoundTrip ==
  \A n \in 0 .. 5 : \A p \in [1 .. n -> 0 .. 2] :
    /\ \A i \in DOMAIN CobsEncode(p) : CobsEncode(p)[i] \in 1 .. Run + 1
    /\ Len(CobsEncode(p)) <= EncodeBuffer(n)
    /\ CobsDecodable(CobsEncode(p)) /\ CobsDecode(CobsEncode(p)) = p

(* The packets and frames of test_next_packet and test_send_packet.        *)
Lib == INSTANCE Cobs WITH Run <- 254

UpTo(n) == [k \in 1 .. n |-> k]

TestCases ==
  { << <<>>, <<1>> >>,
    << <<102, 111, 111>>, <<4, 102, 111, 111>> >>,
    << <<10, 0, 0, 0>>, <<2, 10, 1, 1, 1>> >>,
    << UpTo(254), <<255>> \o UpTo(254) >>,
    << UpTo(255), <<255>> \o UpTo(254) \o <<2, 255>> >> }

ASSUME CobsTests ==
  \A t \in TestCases :
    /\ Lib!CobsEncode(t[1]) = t[2]
    /\ Lib!CobsDecodable(t[2]) /\ Lib!CobsDecode(t[2]) = t[1]
=============================================================================
