# Verification of darkbio-wire

TLA+ models of the wire between an Ark and its host, checked with TLC and, where
the prover reaches, proved with TLAPS. The reference is the Rust code under
`src/src/`; every definition that stands for code is listed with its lines in
`PROJECT.json` under `map`.

## 1. The system

| part | source | state | operations |
| --- | --- | --- | --- |
| framer, receiving | `framing.rs` 20-48, 99-169 | `reader_buffer` and three indices; a discard counter local to a call | `next_frame` |
| framer, packets and sending | `framing.rs` 50-97, 171-181 | scratch buffers only | `next_packet`, `send_packet`, `send_frame`, `send_reset` |
| session | `session.rs` | one HPKE context per direction, each with a sequence number | `seal`, `open` |
| host side | `side_host.rs` 79-288 | `session: Option<Session>`; in a handshake also fresh keys and a count of skipped frames | `handshake`, `next_message`, `send_message` |
| Ark side | `side_ark.rs` 62-282 | `session: Option<Session>`; in a handshake a fresh key and the host's keys | `next_message` with the handshake inline, `send_message` |
| handshake messages | `handshake.rs` | none | three CBOR structs and two of authenticated data |
| trust policy | `side_host.rs` 24-77, `side_ark.rs` 16-60 | roots, clock, attestation | `Verifier::verify`, `Attester::attest`, `Attestation::new` |
| limits | `lib.rs` 21-33 | none | `MAX_FRAME_SIZE`, `MAX_MESSAGE_SIZE` |
| schema | `proto/wire.proto`, `protocol.rs`, `build.rs` | none | generated code |
| fuzz targets | `fuzz/` | a list of sizes, a chunked reader | `next_frame`, `next_packet` |
| benchmarks | `benches/` | none | |

How they interact. A host and an Ark each own one framer over a reader and a
writer. The only thing they share is two byte streams, which have no lifecycle:
either process can be replaced while bytes are on their way. A session boundary
is therefore signalled in band, by an empty frame, which COBS never produces.
Host and Ark are sequential programs (`&mut self` everywhere); all concurrency
is between the two processes, and between either of them and time: readers have
timeouts that their callers configure (`side_host.rs:92-94`, `side_ark.rs:80-81`).

    host caller -> HostSide -> Session -> Framing ==h2a==> Framing -> Session -> ArkSide -> Ark caller
                                          Framing <==a2h== Framing

What is hard here:

- reads cut the stream anywhere, and the framer keeps three indices and a
  discard mode consistent over all of them;
- a read may fail at any point of a handshake, of a frame or of a discard, and
  the caller may call again;
- a write may fail after nothing, a part, all but the delimiter, or everything;
  the bytes written stay in the stream and are glued to what comes next;
- the two ends open and drop their sessions at different times, with messages of
  old attempts still in both streams;
- recovery is entirely up to the host: an Ark that dropped a session says
  nothing, so only a failed read tells the host.

What makes each part correct:

- *framer*: returns exactly the frames that fit, whole, once and in order, never
  waits while one is there, and never reads into a full buffer;
- *handshake*: two ends in the session of one attempt have the same pair of
  contexts; leftovers of earlier attempts are never taken for answers to this
  one; a reset ends the old session; a hello is answered;
- *messages*: within a session none is lost, repeated or reordered; an end that
  cannot follow drops its session;
- *recovery*: after any disturbance the two get back to a session.

`PROJECT.json` lists the hazards at their lines and the properties that watch
each of them.

## 2. The modules

    Frames ---- FrameStream (abstract)            SecureLink (abstract)
        \            |                                 |
         Framing ----+ refines          Link -- HostSide --+-- Wire -- refines SecureLink
          | | \                           | \              |
          | |  FramingProofs              |  -- ArkSide ---+-- Callers -- MCCallers
          | |                        TokenStream           |  \
          | Packets --- refines -------/        AgreementProofs  Recovery
          |    |  \                                 |         \   /
         Fuzz  |   PacketsProofs                SyncProofs  RecoveryProofs
          |   MCPackets                 SecureLinkProofs
          |      \
         MCFuzz  |                      Limits -- MCLimits      Trust -- MCTrust
              \-- Cobs                      \                      \
                                             LimitsProofs           TrustProofs

**Frames** says what a frame is: the stretch between two zeros of a stream. It
knows nothing of the code; `IsNextFitting` is the reference the framer is held to.

**FrameStream** is the abstract framer: bytes arrive, and the next frame that
fits is handed out. No buffer, no reads, no discarding.

**Framing** is `next_frame`, one action per branch of its loop. The program
counter `pc` is `scan` at the head of the loop and `read` before the call of
`reader.read`; the other variables are those of the code, with its indices from
0. `Compact`, `Overflow` and `DropFragment` are the three ways from the scan to
the read. The code's `if reader_offset > 0` before the compaction is no guard
here, as compacting from offset 0 changes nothing. When the offset is positive
the compacted buffer has room, so the buffer is exhausted exactly when the offset
is 0 and it is full. `received`, `ended`, `torn` and `whole` are history: all bytes
ever read, where the last returned frame ended, whether a failed read has made
the framer forget the discard of the frame it is in (`discard` is a local variable
of the call, line 106), and whether that was so of the frame returned last.
`torn` goes back to false at the next delimiter, so nothing is left unsaid of the
frames after it: `FramesAreWhole` holds a returned frame to be a whole one
(`ReturnedIsFrame`) or, just once per forgotten discard, the end of one that is
too large (`ReturnedIsRest`).

**Link** has the two streams at the grain of tokens: a zero byte, a whole encoded
packet, or a piece of one (`Cut`). `next_packet` takes the tokens up to the first
zero: none are the reset signal, one whole packet is that packet, and anything
else may decode to junk or not decode at all, as COBS decides by where its blocks
end. A failed write leaves nothing, a piece, everything but the zero, or
everything (the flush comes after the write). Keys are named by the attempt they
were made for: the contexts of a session are identified by the host's and the
Ark's key, and what is sealed names both. This is the usual perfect
cryptography: nobody makes a packet for keys it does not have. Pieces that were
glued together may also be more than a frame, which `next_frame` discards without
its caller hearing of it (`Glued`, `HostDiscards`, `ArkDiscards`).

**TokenStream** is one direction of Link on its own: pieces are written, frames
are taken or dropped.

**Packets** is one direction at byte grain, the framer of one end sending and
that of the other receiving: `send_packet` with its size check by the bound of
COBS, `send_frame` and `send_reset` with writes that stop after any byte,
`next_packet` over the loop of Framing. `sent` and `writes` are history: the bytes
the transport has taken and what they are. The coding is a parameter with the
facts the code relies on (`RoundTripAssumption`): an encoding is not empty, has no
zero, decodes to its packet and keeps within its bound. Under `Tokens` and `Got` it
implements TokenStream, so what Link takes a stream to be is what the framer, COBS
and a transport with failing writes make of it. `Tokens` are the pieces that end
after the position where the frame being received began (`FrameStart`), which
discarding and compacting leave where it is.

**Cobs** is the coding the run uses, with blocks of `Run` bytes (254 in the
library). `MCPackets` has it pass the test vectors of `test_next_packet` and
`test_send_packet` with the library's block size, and a round trip of every packet
of up to five bytes with the run's.

**Fuzz** is the two fuzz targets: sizes wrapped and cut as they do it, a stream of
ones made of them, the chunked reader that feeds it to Framing, and their
assertions, the final count included. Packets are all ones there, so the filter
by `encode_buffer` and the discarding by length agree. `test_next_frame` is among
its inputs, scaled to the frame size.

**HostSide** and **ArkSide** cut each call at its reads and writes. A step of the
Ark reads one packet and does all the code does up to its next read, including
the write of the ArkHello. `HostReadFails` is one action for the handshake and
`next_message`, as both only return an error with the session gone.
`HostReject` stands for every way an ArkHello sealed to the right key is refused
(attestation shape, verifier, signature, sizes). A message that opens but is not
valid protobuf counts as opened, as `Session::open` says. `Verdicts` is what the
verifier may answer. `next_message` of the Ark also returns when a read fails
outside a handshake, changing nothing, so its caller may send a message of an
active session at any time it is not in a handshake.

**Wire** composes the two, with a host that asks for a session when it has none
and an Ark that serves. Beside their steps there are *disturbances*, counted in
`faults`: a read that times out though an answer may come (`Timeout`), a write
that fails half way (`Torn`), a host that handshakes although it has a session
(`Reconnect`), the replacement of either process (`HostRestart`, `ArkRestart`),
which loses what the old process had buffered and may leave the stream in the
middle of a frame, and bytes of another client on the Ark's stream (`Noise`).
Which kinds happen is the constant `Disturbances`. A timeout of a host that
really waits in vain (`Quiet /\ ~InSession`) is no disturbance but the host's
only way out, and costs nothing.

`Oversize` lets what was glued together be discarded for its length; it is
counted as no disturbance, as it takes one to glue anything.

**Recovery** counts what the disturbances of Wire cost the host. It adds no state:
`RecoveryBound` relates the attempts made to the disturbances so far, and
`RecoveryInv` is the invariant it is proved from. A disturbance is worth
`PerFault` stale frames, `MAX_STALE_FRAMES` of which make a handshake.

**Callers** puts a thread at each end, with a script of calls: those of the unit
tests of `side_ark.rs` (which write a reset, a hello or junk past the host side, break
the writer, drop the host), and callers that pipeline requests or reconnect
without reading, with no more answers left unread than a handshake skips
(`Reconnecting`) or with more (`Overrunning`). A failed unwrap or assert is a panic. A thread blocked in a write
does not read, so the two may wait for each other. `HostAbort` has no part in it,
as no script leaves a frame that COBS refuses. `served` is what the Ark's thread
was given, in order.

**SecureLink** is what a user of two ends sees: ends open and close sessions,
messages of a session arrive in order, without loss, while both ends are in it.
`Wire` refines it with the two queues read off the streams: `InFlight` takes the
messages of a receiver's session out of what is on its way, in their order.

**Limits** is the way of a message out, by sizes: the loop that computes
`MAX_MESSAGE_SIZE` (one step per iteration), the check before the sealing
(`Refuse`), the encoding and the sealing, each of which may fail (`EncodingFails`
keeps the session, `SealFails` ends it, `Seal`), the check and the COBS encoding
after it (`Encode`), the write (`Send`, `SendFails`), and a call without a session
(`NoSession`). How large an encoding may get is COBS's business, so the bound is a
constant with the two properties the code relies on (`CobsAssumption`): it is
monotone, and the sealed empty message fits, without which the loop would
underflow. What is written is within that bound by `RoundTripAssumption` of Packets.

**Trust** is the handshake once more, by who vouches for whom: identity keys,
attestations, verifiers, a clock. The order of the streams is of no consequence
for it, so everything ever sent may be read at any time (`hellos`, `acks`), which
allows all that the streams do. The host's caller passes a verifier per handshake,
a pinned key or the roots; the attester's answer may change at any moment
(`Onboard`); and another Ark, even one not made with this library, may take over
the transport (`Replace`). `HostAccept` has the order of the code: the attestation
comes from a payload nobody has checked yet, the verifier turns it into a key,
and only then that key checks the signature over the payload. `darkbio-trust` is
external: `DeviceVerify` is what the code and its tests ask of it.

### Runs

| run | shows | bounds |
| --- | --- | --- |
| `framing` | each frame whole, or the rest of a frame whose discard a failed read cut short, and whole again after it; none left behind, discarded sizes exact, room to read, the inductive invariant; the caller goes on after failed reads | frames of at most 2 bytes in 3 slots, bytes 0, 1, 2, streams of up to 9 bytes and every way of reading them |
| `framing_timeout` | finding 1 | 5 bytes |
| `packets` | packets intact, resets never made up, refinement of Link's tokens and of `FrameStream`, every frame gets taken | COBS blocks of 2, frames of 3 bytes in 4 slots, packets empty, `0`, `1 2`, `1 0 1` (too large), 4 pieces or a few more, any reads |
| `fuzz` | the assertions of both targets | frames of 3 bytes, up to 3 sizes of 7 up to four times that and beyond, 6 chunkings, 20 bytes in all |
| `limits` | the message limit is exact, no sealed message is refused, no gap in the sequence whichever step of a send fails | frames of 17 bytes, 4 bytes of sealing, 3 messages, COBS blocks of 3 |
| `trust` | the identity told is the session's, vouched for at the time, with a fresh attestation | 2 handshakes, 2 answers, 2 Arks, 4 CWTs (one no attestation), 3 clock readings |
| `wire` | types, agreement, end of old sessions, messages in step, hellos heard, the inductive invariants of these (`WireInv`, `HellosAfterReset`), refinement of `SecureLink` with pieces discarded for their length | 3 attempts, 3 disturbances of all kinds but noise, 2 messages each way per session, stale limit 1 |
| `wire_session` | messages in step, the invariant that keeps them so (`SyncInv`), refinement of `SecureLink` and its invariant (`QueueInv`) | 3 attempts, 3 disturbances of all kinds but oversized pieces, 2 messages each way, stale limit 4 |
| `wire_recovery` | recovery and what it costs, also when attempts end for too many stale frames, and the inductive invariant of the cost (`RecoveryInv`) | 11 attempts, 3 disturbances of any kind, a message each way per session, stale limit 1 |
| `wire_stale` | finding 2 | 1 restart |
| `wire_oversize` | finding 3 | 1 attempt, noise once |
| `callers` | asserts of the unit tests, scripts that end, where callers wedge | the 8 scripts of the tests, 28 pipelines of up to 7 requests with up to 5 answers each, 3 reconnects, 4 overruns of the stale limit; sockets of 4 frames, stale limit 4 |

Why the bounds are enough. In the framer two payload bytes make "another byte"
visible; a stream of nine bytes holds an oversized frame of any size up to eight
followed or preceded by frames that fit, a discard that takes more than one read,
and a discard that is forgotten, what is left of its frame, and whole or discarded
frames after that, at every offset in a buffer of three slots. In the wire the interesting
encounters are between consecutive attempts, so three attempts with three
disturbances let each of two old attempts leave something behind for the current
one; two messages each way give an order to get wrong. `Capacity` lets a whole
handshake and the messages of a session be under way at once; a write that does
not fit blocks, as in the code. `MaxAttempts` of the recovery run is above
`1 + 3 * MaxFaults`, which `RecoveryBound` shows to be all a host needs (for
every constant, by `DisturbancesCostBounded`), so the bound never stops it.

`CHECK_DEADLOCK FALSE`: a framer whose caller gave up, a stream at its bound, and
two ends that have used up their attempts or messages and wait for each other
may all stop.

In `packets` a frame of three bytes takes one full block with its code byte, so
the largest packet meets the limit exactly and a glued piece outgrows it; four
pieces are a packet, the rest of a failed one glued to it, and a reset. In
`callers` the sockets hold four frames, so two to four requests with as many
answers decide whether both of them fill up; and the stale limit of four is met
exactly by a reconnect that leaves four answers and exceeded by those that leave
five to ten, so that one or two handshakes fail for it before the next succeeds.

Fairness. In `packets` the receiver keeps asking, `next_frame` runs on until it
returns or reads, and the transport delivers what it has taken; in `callers` the
operating system runs both threads; a fuzz target is one sequential loop. In
`wire_recovery` the Ark serves (its caller sits in `next_message`), and the host
persists: it handshakes when it has no session, reads, and its reader times out
when nothing comes (`side_host.rs:92-94` asks for that timeout). No fairness on
sending messages, on the verifier's verdict or on any disturbance. `Verdicts =
{TRUE}` there, because a host that rejects the Ark never gets a session.

The limit on stale frames. `wire_recovery` has the smallest limit that recovers: an
attempt that gives up has drained two frames and added one, so leftovers cost
attempts of their own but come to an end. A limit of 0 would never recover, each
attempt leaving the ArkHello the next one stumbles over. The code's limit of 32
is far above what two ends leave behind at these bounds. An Ark that goes on
writing while the host skips can reach any limit, as the skipping empties the
buffers its writer would block on; such an attempt counts as one that gives up.

Noise and oversized pieces together lose a message without ending the session
(finding 3), so `wire` and `wire_session` have one of the two each.

### Findings

1. **A discard does not survive a failed read** (`framing.rs:106`, run
   `framing_timeout`). The discard mode is a local variable of `next_frame`. When
   a read times out in the middle of an oversized frame and the caller calls
   again, the rest of the frame is returned as a frame, or, if only the delimiter
   was missing, as the empty frame that signals a reset. The doc (`framing.rs:99-102`)
   promises a resynchronization on the next delimiter. `FramesAreWhole` (run
   `framing`) shows that this is the only way to get such a frame.
2. **An undecodable stale frame ends the handshake** (`side_host.rs:140`, run
   `wire_stale`). The comment above the loop says everything not sealed to the
   fresh key is skipped; a frame COBS cannot decode makes `next_packet` fail and
   `?` returns the error. One more attempt gets past it (`Recovery`).
3. **A frame discarded for its length does not end the session**
   (`framing.rs:121`, run `wire_oversize`). Both sides drop their session when a
   frame cannot be decoded, since it "may have carried a sealed message"
   (`side_host.rs:229-230`, `side_ark.rs:107-109`). A frame that outgrew the buffer is
   dropped one layer below and neither side hears of it. If a sealed message was
   glued to foreign bytes in it, the session goes on with its sequences apart until
   the next message fails to open. Without another client of the transport this
   does not happen: a failed write ends the session of the end that failed
   (`InSync` in `wire`, with oversized pieces but no noise, and `MessagesInSync`).

## 3. What is proved

Of **Framing** (`FramingProofs`), for every alphabet, frame size and stream, and
whether or not the caller goes on after failures:

- the inductive invariant `FramingInv`: types and index order, the filled slots
  mirror the end of the stream (`BufferMirrorsStream`), what was scanned holds no
  delimiter (`ScannedIsClear`), and what is being received or discarded began at a
  frame boundary at or after the end of the last returned frame, with nothing but
  oversized frames between (`BeganAt`, `ReceivingFrame`); when a discard was forgotten
  that boundary is more than a frame back. The properties do not follow from
  each other: that a returned frame is whole needs that its start is a boundary,
  which needs to know what was discarded before it;
- from it `TypeCorrect`, `AlwaysRoomToRead`, `FramesReturnedWhole`,
  `NoFrameLeftBehind` and `DiscardSizeExact`;
- `RefinesStream`: each step is a step of `FrameStream` or a stutter, for callers
  that give up on the first failure (the only ones it is true for).

- `EveryFrameWhole`: for those callers each returned frame is whole, without any
  condition.

Of **Packets** (`PacketsProofs`), for any payloads, any coding that satisfies
`RoundTripAssumption`, any frame size and any writes:

- `PacketsInvariant` and `PacketsReturnedIntact`. A returned frame is a stretch
  between two zeros of what was read; what has to be shown is that a zero of the
  stream is always a delimiter piece, and that the stretch before it is exactly
  the piece or pieces written before it. The invariant therefore says of every
  piece where it begins and what its bytes are (`InPieces`), that what was read is
  the beginning of it (`SentMirrored`), and all of `FramingInv`, whose proof is used
  as it is: every step here is a step of the framer or leaves it alone
  (`FramerSteps`);
- `PacketsRunTheFramer`: a direction is a behaviour of Framing, so its theorems
  hold of it, and `PacketsFollowStream`, that it hands out what FrameStream promises;
- `PacketsImplementLink`, the property `ImplementsLink`: for callers that give up on
  a failed read the bytes, the framer and the coding are what TokenStream, and
  with it the model of the two sides, takes a stream to be. The frame being
  received begins with a piece that follows a delimiter (`StartInPieces`), and no
  step but the two that find a delimiter moves it (`StartStays`). Those two remove
  exactly the tokens up to the first delimiter (`FrameInPieces`, `TokensRest`):
  `next_packet` returns what Link expects of them (`GotRight`, from
  `PacketsIntact`), and what it passes over is glued together, because no piece is
  too large for a frame by itself (`PiecesFit`, from the check of `send_packet`) and a
  frame that is discarded is (`DropStep`). A write adds its tokens at the end
  (`PieceAdded`, `PiecesAdded`). The pieces are ordered by where they end
  (`EndsIncrease`), which `LeastOf` gives without an induction. After a failed read
  in a discard a caller that goes on is handed less than a frame (finding 1), so
  the theorem assumes `~Retry`.

Of **SecureLink** (`SecureLinkProofs`): `SessionsInSync`, that its rules keep two
ends of one session in step, for any number of sessions and messages.

Of **Wire** (`AgreementProofs`, `SyncProofs`, `RecoveryProofs`), for every number of
attempts, messages and disturbances, every capacity and stale limit:

- `WireTypeCorrect`: the streams hold tokens, the count of stale frames stays
  within its limit;
- `EndsAgree` and `ResetEndsOldSessions`, the properties `Agreement` and
  `OldSessionsEnd`. Neither is inductive. That the host's session has the Ark's
  newest key depends on the Ark answering the hellos in the order of the attempts
  and each once (`HellosInOrder`, `AnswersKnown`). That a reset is ahead of an Ark
  still in an old session has one dangerous step, an ack of an old attempt read
  late, which opens a session after the host has gone on; it is harmless because
  the reset the host wrote since comes after that ack in the stream
  (`AcksOvertaken`). `WireInvariant` proves these parts together, each step of the
  host, of the Ark, of a replaced process and of the noise in a lemma of its own.
  The lemmas on reading (`HellosRead`, `AcksRead`, `AnswersRead`) hold for any
  suffix of a stream, damaged or not, so they serve `next_packet` and a restart
  alike;
- `MessagesInSync`, the property `InSync`: between two ends of one session a stream
  holds the messages sealed and not yet opened, each once and in order. It assumes
  `SyncAssumption`, that noise and oversized pieces do not both happen; with both
  it is false (finding 3). The steps that read and write a message keep it by
  themselves (`ExactlyOpened`, `ExactlySealed`). What needs more is the moment the
  second end opens its session, as the first may have sealed messages by then:
  `HostAhead` says that they are all in the stream, and `NotYetUsed` that nothing
  else is, because keys are fresh. And a frame may be discarded without an end to
  the session, so `SessionsFenced` says that every message of a session has a
  delimiter on either side and what is discarded holds none. The proof of
  `SyncInvariant` has lemmas on streams (`ExactlyBehind` to `GluedPast`) that say
  nothing of the two ends, one lemma for an end that is left without a session
  (`WithoutHostSession`, `WithoutArkSession`) and one for each step that is in one;
- `EveryHelloHeard`, the action property `HelloHeard`: an Ark that serves drops a
  hello only if it gave up waiting for it or was restarted since the reset. The
  Ark serves when it expects no hello, so the property is about where the reset
  is: `HellosAfterReset` says that right before a hello on its way, and before the
  place where the host will write one, are the two zeros of its reset, as far as
  they have not been read, and that an Ark which has read both waits for it. The
  first zero may end a frame some failed write left, the second cannot. Both
  theorems assume `NoNoise`, since bytes of another client may come between the
  reset and its hello;
- `WireImplementsSecureLink`, the property `ImplementsSecureLink`: each step of the
  wire is a step of SecureLink or a stutter. A message that opens has to be the
  head of its queue, so the queue has to be in order even when the end that
  sealed it has left. `InSync` says nothing of that case; `QueueInv` adds that what
  is on its way to an end in a session, or about to open one, is a run of the
  sequence that begins with the message it expects (`QueuesInOrder`), in frames of
  their own (`QueuesApart`), sealed for keys that were answered (`KeysKnown`). The
  lemmas on `InFlight` say how the queue changes when a stream grows, is read or
  is damaged. `QueueInvariant` and the refinement assume `SyncAssumption` like
  `MessagesInSync`, and need it for the same reason;
- `DisturbancesCostBounded`, the property `RecoveryBound`:
  `MAX_STALE_FRAMES * hostKey <= MAX_STALE_FRAMES + PerFault * faults`, with
  `PerFault = 2 * MAX_STALE_FRAMES + MaxReplies`. The host tries once; a
  disturbance makes it try again for what it ended and for a piece of a packet it
  left, and once more for every `MAX_STALE_FRAMES` replies left of a session. With
  the code's limit of 32 and at most 32 replies in a session a disturbance costs no
  more than three handshakes; an Ark that sends more without pause costs more, in
  proportion, and `MaxReplies` is a parameter of the model because the code has no
  such bound. `UndisturbedTriesOnce` is the case
  of none. The theorems hold with noise and with oversized pieces as well, as they
  say nothing of the messages. They rest on `RecoveryAssumption`: a host that skips
  nothing never recovers, and one whose verifier refuses the Ark has no reason to
  stop asking.

  The argument is a potential. `Owed` is what the two streams and the two ends may
  still cost, in stale frames, and `Paid` says that it and the attempts so far
  are paid for; no step but a disturbance raises their sum. An attempt that gives
  up on stale frames has skipped one more than the limit and leaves at most its own
  answer, so its cost has been taken off `Leftover`: the frames in the stream, an
  answer for every hello that may yet be read, the replies of a session the Ark is
  in or that an ack on its way may open (`RepliesLeft`). A piece that does not
  decode ends an attempt at once and is counted as one (`PiecesIn`). `Course` is
  what the attempt under way may cost: while its hello, or the answer, is on its
  way to an end that will take it (`AttemptOnCourse`), only the frames ahead of the
  answer can end it, and those it has skipped stay on the bill (`stale`); a session
  whose frames are all there (`SessionOnCourse`) costs nothing. Three facts are
  needed to see that a step keeps that: an ack on its way is of an attempt that is
  over unless the host has a session (`AcksKnown`), nothing follows the answer to
  the attempt under way (`AnswerLast`), and in a session the host has nothing but
  the replies of it ahead (`RepliesAhead`). `RecoveryInvariant` proves them
  together with `WireInv`. The counting is in lemmas on reading and writing
  (`FrameRead`, `PacketCounted`, `ArkReadCounts`, `ArkWriteCounts`, `HostReadCounts`,
  `HostWriteCounts`), and each step has a lemma for its cost (`ArkReadsCost` to
  `HostGivesUpCost`); `Product` and `Account` keep the products of two unknowns away
  from the solver.

Of **Limits** (`LimitsProofs`), for every frame size, sealing overhead and bound
that satisfies `CobsAssumption`: `LimitInvariant`, and from it `ExactLimit` and
`NoSealedMessageRefused` and `SequenceUnbroken`. The invariant
says that every size above the candidate was found not to fit, and that a packet
on its way is no larger than the limit.

Of **Trust** (`TrustProofs`), for any keys, roots, attestations and clock:
`TrustInvariant`, and from it `SessionsAuthentic`, `ArksVouchedFor` and
`AttestationsFresh`. The invariant says that an answer is determined by its keys,
so what the host learned from the answer it read holds of the one the Ark signed.

The assumptions used are those in the modules: zero is a byte, the frame size
is positive, the bounds are natural numbers, those on COBS's bound and, for
Packets, those on its coding, which TLC evaluates for Cobs. Three more are
hypotheses of the theorems that need them: `~Retry` (the caller gives up on a failed
read; finding 1 shows the promise broken for one that goes on), `SyncAssumption`
(not both noise and oversized pieces; finding 3 shows it broken with both) and
`NoNoise` (`wire_session` runs with noise and checks what does not assume it).

Only model-checked:

- liveness (`Stream!FairSpec`, `FramesTaken`, `Recovery`, `Completes`, `Terminates`),
  which is out of the prover's reach. That the host comes to an end of its attempts
  is safety, and proved (`RecoveryBound`); that a session follows is not;
- `AssertsHold` and `WedgedOnlyBeyondBuffers` of Callers, which are about the
  scripts of the tests and the pipelines listed there;
- `AssertsHold` of Fuzz, whose inputs go through Cobs: what recursive operators
  compute for every packet is an induction over data.

## 4. What is not modelled

- memchr, HPKE, COSE, CBOR and protobuf: libraries, modelled by what the code
  relies on. COBS is a library too; Cobs models it by its documentation and the
  vectors in the tests of `framing.rs`.
- The contents of messages, logging, error texts.
- How long the pieces of the session layer's streams are: Link lets whatever was
  glued together be discarded or not. Finding 1 in a session means an undecodable
  or junk packet, or a reset, which `Noise` puts there.
- That the `while` loop of `MAX_MESSAGE_SIZE` runs at compile time.
- An ArkHello too large for a frame, which takes an attestation of that size.
- The schema (`protocol.rs`, `proto/wire.proto`, `build.rs`) has no behaviour of its
  own, and the benchmarks have no assertion beyond what their calls return.

## 5. Plan

1. (done) Frames, FrameStream, Framing; proofs of the framer.
2. (done) Link, HostSide, ArkSide, Wire; SecureLink and its proof.
3. (done) Limits and its proofs.
4. (done) Callers: the threads of the unit tests, pipelines, full sockets.
5. (done) Trust and its proofs.
6. (done) Packets and its proofs, with Cobs; Fuzz.
7. (done) Proofs about Wire: types, `Agreement`, `OldSessionsEnd`, `InSync`,
   `HelloHeard`, the refinement of SecureLink; about Packets: the refinement of
   TokenStream.
8. (done) Recovery: `RecoveryBound` by a potential over both streams and both ends.
9. Open: the assertions of Callers and Fuzz for scripts and sizes beyond those of
   their runs, which would take an induction over data.
