-------------------------------- MODULE Fuzz --------------------------------
(***************************************************************************)
(* The fuzz targets next_frame and next_packet: a stream of frames of ones *)
(* of many sizes, or of packets of ones behind COBS, is fed to the framer  *)
(* in chunks, and what comes out is asserted to be what fits, and all of   *)
(* it.  The input is data here as it is there; the framer is Framing.      *)
(***************************************************************************)
EXTENDS Framing, Cobs
LOCAL INSTANCE SequencesExt

CONSTANTS
  MAX_FUZZ_SIZE,   (* MAX_FUZZ_FRAME_SIZE and MAX_FUZZ_PACKET_SIZE         *)
  MAX_TOTAL_SIZE,
  FuzzSizes,       (* the sequences of sizes fuzzed with                   *)
  ChunkSizes       (* the sequences of chunk sizes fuzzed with             *)

VARIABLES
  target,     (* which of the two targets runs                             *)
  sizes,      (* frame_sizes or packet_sizes, cut to the limits            *)
  wire_data,
  chunks,
  chunk_idx,
  got         (* the frames or packets looked at, frame_idx of them        *)

input == <<target, sizes, wire_data, chunks>>
fuzzVars == <<vars, input, chunk_idx, got>>

-----------------------------------------------------------------------------
Ones(n) == [k \in 1 .. n |-> 1]

(* What one entry puts on the wire, and what the target reckons it does.   *)
Encoded(t, n) == IF t = "next_frame" THEN Ones(n) ELSE CobsEncode(Ones(n))
EncodedSize(t, n) == IF t = "next_frame" THEN n ELSE EncodeBuffer(n)

TotalSize(t, s) == FoldLeft(LAMBDA total, n : total + EncodedSize(t, n) + 1, 0, s)

(* The sizes wrapped to the maximum, as far as they stay below the total.  *)
CutSizes(t, raw) ==
  LET wrapped == [k \in DOMAIN raw |-> raw[k] % (MAX_FUZZ_SIZE + 1)]
      Below(k) == TotalSize(t, SubSeq(wrapped, 1, k)) <= MAX_TOTAL_SIZE
  IN  SubSeq(wrapped, 1, CHOOSE k \in 0 .. Len(raw) :
                           Below(k) /\ (k < Len(raw) => ~Below(k + 1)))

WireData(t, s) == FlattenSeq([k \in DOMAIN s |-> Append(Encoded(t, s[k]), 0)])

(* expected_sizes: those that fit.                                         *)
Expected == SelectSeq(sizes, LAMBDA n : EncodedSize(target, n) <= MAX_FRAME_SIZE)

(* The frames of test_next_frame: none, a small one, the largest, and a    *)
(* small one behind one that is too large by a byte or by far.             *)
NextFrameTests ==
  { <<0>>, <<2>>, <<MAX_FRAME_SIZE>>,
    <<MAX_FRAME_SIZE + 1, 2>>, <<2 * MAX_FRAME_SIZE + 2, 2>> }

FuzzInit ==
  /\ Init
  /\ target \in {"next_frame", "next_packet"}
  /\ \E raw \in FuzzSizes \cup NextFrameTests : sizes = CutSizes(target, raw)
  /\ wire_data = WireData(target, sizes)
  /\ IF target = "next_frame" THEN chunks \in ChunkSizes ELSE chunks = <<>>
  /\ chunk_idx = 0
  /\ got = <<>>

-----------------------------------------------------------------------------
(* A chunk of the next size, of all that fits without chunk sizes, of one  *)
(* byte at least.                                                          *)
ToRead ==
  LET space == BufferSize - reader_filled
      size == IF chunks = <<>> THEN space ELSE chunks[(chunk_idx % Len(chunks)) + 1]
  IN  Min({Max({size, 1}), Len(wire_data) - Len(received), space})

ChunkRead ==
  /\ pc = "read" /\ ToRead > 0
  /\ Ingest(SubSeq(wire_data, Len(received) + 1, Len(received) + ToRead))
  /\ chunk_idx' = IF chunks = <<>> THEN 0 ELSE chunk_idx + 1
  /\ UNCHANGED <<input, got>>

(* Mutant: no error ends the loop.                                         *)
EndOfStreamIgnored ==
  /\ pc = "read" /\ ToRead = 0
  /\ pc' = "idle"
  /\ UNCHANGED <<reader_buffer, indices, discard, frame, history, input, chunk_idx, got>>

(* The reader has nothing more, or is given no space: the loop ends.       *)
EndOfStream ==
  /\ pc = "read" /\ ToRead = 0
  /\ ReadFails
  /\ UNCHANGED <<input, chunk_idx, got>>

(* A frame is looked at as it is, a packet when it could be decoded.       *)
LookAt ==
  /\ ReturnFrame
  /\ got' =
       CASE target = "next_frame" -> Append(got, frame')
         [] target = "next_packet" ->
              IF frame' = <<>> \/ ~CobsDecodable(frame') THEN got
              ELSE Append(got, CobsDecode(frame'))
  /\ UNCHANGED <<input, chunk_idx>>

KeepSearching ==
  /\ Call \/ DropFrame \/ Compact \/ Overflow \/ DropFragment
  /\ UNCHANGED <<input, chunk_idx, got>>

FuzzNext == LookAt \/ KeepSearching \/ ChunkRead \/ EndOfStream

FuzzSpec == FuzzInit /\ [][FuzzNext]_fuzzVars /\ WF_fuzzVars(FuzzNext)

-----------------------------------------------------------------------------
(* The assertions of the targets: no more frames than expected, each of    *)
(* its size and all ones, and no less of them when the stream has ended.   *)
(* What is sent is cut up by sizes, what comes out by zeros, the buffer    *)
(* and the discard mode.                                                   *)
AssertsHold ==
  /\ Len(got) <= Len(Expected)
  /\ \A k \in DOMAIN got : got[k] = Ones(Expected[k])
  /\ pc = "closed" => Len(got) = Len(Expected)

(* The loop of a target gets to its end, and so to its last assertion,     *)
(* whatever was too large on the way.                                      *)
Terminates == <>(pc = "closed")
=============================================================================
