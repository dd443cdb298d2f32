------------------------------- MODULE Trust --------------------------------
(***************************************************************************)
(* Whom a host trusts.  The Ark presents an attestation with every         *)
(* handshake and signs it, the host hands it to the verifier of this       *)
(* handshake and checks the signature with the key that returns.  The      *)
(* clock, the attestation of the Ark and the Ark itself may change at any  *)
(* moment.  The order of the streams is of no consequence here: whatever   *)
(* was once sent can be read any time later.                               *)
(***************************************************************************)
EXTENDS Integers

CONSTANTS
  Keys,          (* identity keys                                          *)
  Hardware,      (* Roots::hardware                                        *)
  Emulator,      (* Roots::emulator                                        *)
  Roots,         (* the verifier with these roots; a pinned key is another *)
  Cwts,          (* what an attestation may be made of                     *)
  Times,         (* what the clock may show, negative before the epoch     *)
  MaxAttempts,   (* bound on the handshakes the host starts                *)
  MaxAnswers     (* bound on the hellos the Arks answer                    *)

ASSUME TrustAssumption ==
  /\ Roots \notin Keys
  /\ Times \subseteq Int
  /\ MaxAttempts \in Nat /\ MaxAnswers \in Nat
  /\ \A c \in Cwts : c.signer \in Keys

Verifiers == Keys \cup {Roots}

(* Attestation::new takes what decodes in one of the two shapes.           *)
Shaped(cwt) == cwt.shape \in {"hardware", "emulator"}

Attestations == {c \in Cwts : Shaped(c)}

VARIABLES
  now,
  verifier,     (* of the host's last handshake                            *)
  waiting,      (* the host waits for an ArkHello                          *)
  hostKey,      (* names the host's keys of the last handshake             *)
  hostSession,  (* an option: at most one                                  *)
  since,        (* history: the attestations Arks had since that handshake *)
                (* began                                                   *)
  signer,       (* the identity key of the Ark                             *)
  attestation,  (* what its attester returns                               *)
  answered,     (* the Ark waits for a HostAck                             *)
  arkKey,       (* names the Ark's keys of the last hello it answered      *)
  arkHost,      (* the host's keys in it                                   *)
  arkSession,   (* an option                                               *)
  hellos,       (* ArkHellos sent                                          *)
  acks          (* HostAcks sent                                           *)

hostVars == <<verifier, waiting, hostKey, hostSession, acks>>
arkVars == <<signer, attestation, answered, arkKey, arkHost, arkSession, hellos>>
vars == <<now, since, hostVars, arkVars>>

HostSession == [ark : Nat, identity : Keys, info : Attestations, at : Times]
ArkSession == [ark : Nat, host : Nat]
ArkHello == [host : Nat, ark : Nat, attest : Cwts, signedBy : Keys]
HostAck == [host : Nat, ark : Nat, arkSigner : Keys]

Init ==
  /\ now \in Times
  /\ verifier \in Verifiers
  /\ waiting = FALSE /\ hostKey = 0 /\ hostSession = {}
  /\ signer \in Keys
  /\ attestation \in Attestations
  /\ since = {attestation}
  /\ answered = FALSE /\ arkKey = 0 /\ arkHost = 0 /\ arkSession = {}
  /\ hellos = {} /\ acks = {}

-----------------------------------------------------------------------------
(* darkbio-trust on a device attestation: issued by a root for its shape,  *)
(* and valid at the time.                                                  *)
DeviceVerify(cwt, hardware, emulator, time) ==
  /\ \/ cwt.shape = "hardware" /\ cwt.issuer \in hardware
     \/ cwt.shape = "emulator" /\ cwt.issuer \in emulator
  /\ time \in cwt.valid

(* Mutant: the two lists of roots are one.                                 *)
RootsVerifyAny(cwt) ==
  {k \in {cwt.signer} : now >= 0 /\ DeviceVerify(cwt, Hardware \cup Emulator, Hardware \cup Emulator, now)}

(* The key the roots attest, if they do.  A clock before the epoch is an   *)
(* error.                                                                  *)
RootsVerify(cwt) ==
  {k \in {cwt.signer} : now >= 0 /\ DeviceVerify(cwt, Hardware, Emulator, now)}

(* The identity key a verifier returns, if it accepts.  A pinned key is    *)
(* returned whatever was presented.                                        *)
Verify(cwt) == IF verifier = Roots THEN RootsVerify(cwt) ELSE {verifier}

(* handshake: a session begins with a fresh key and the caller's verifier. *)
(* A write may fail although the hello goes out.                           *)
HostStart(v, ok) ==
  /\ ~waiting /\ hostKey < MaxAttempts
  /\ hostSession' = {}
  /\ hostKey' = hostKey + 1
  /\ verifier' = v
  /\ waiting' = ok
  /\ since' = {attestation}
  /\ UNCHANGED <<now, acks, arkVars>>

(* Mutant: the signature is checked with the key the attestation names.    *)
HostAcceptSelfVouched(p, ok) ==
  /\ waiting /\ p.host = hostKey
  /\ Shaped(p.attest)
  /\ \E identity \in Verify(p.attest) :
       /\ p.signedBy = p.attest.signer
       /\ \E sent \in {TRUE, ok} :
            acks' = IF sent THEN acks \cup {[host |-> p.host, ark |-> p.ark, arkSigner |-> identity]}
                            ELSE acks
       /\ hostSession' = IF ok THEN {[ark |-> p.ark, identity |-> identity, info |-> p.attest, at |-> now]}
                               ELSE {}
  /\ waiting' = FALSE
  /\ UNCHANGED <<now, since, verifier, hostKey, arkVars>>

(* The ArkHello of this handshake, with an attestation the verifier        *)
(* accepts and the signature of the key it returns, is acknowledged.       *)
HostAccept(p, ok) ==
  /\ waiting /\ p.host = hostKey
  /\ Shaped(p.attest)
  /\ \E identity \in Verify(p.attest) :
       /\ p.signedBy = identity
       /\ \E sent \in {TRUE, ok} :
            acks' = IF sent THEN acks \cup {[host |-> p.host, ark |-> p.ark, arkSigner |-> identity]}
                            ELSE acks
       /\ hostSession' = IF ok THEN {[ark |-> p.ark, identity |-> identity, info |-> p.attest, at |-> now]}
                               ELSE {}
  /\ waiting' = FALSE
  /\ UNCHANGED <<now, since, verifier, hostKey, arkVars>>

(* Any other ArkHello of this handshake ends it.                           *)
HostReject(p) ==
  /\ waiting /\ p.host = hostKey
  /\ ~Shaped(p.attest) \/ p.signedBy \notin Verify(p.attest)
  /\ waiting' = FALSE
  /\ UNCHANGED <<now, since, verifier, hostKey, hostSession, acks, arkVars>>

(* What ends the handshake or the session for other reasons.               *)
HostGivesUp ==
  /\ waiting' = FALSE /\ hostSession' = {}
  /\ UNCHANGED <<now, since, verifier, hostKey, acks, arkVars>>

-----------------------------------------------------------------------------
(* Mutant: the attester is asked once per signer.                          *)
ArkAnswerCached(host, ok) ==
  /\ host \in 1 .. hostKey /\ arkKey < MaxAnswers
  /\ arkKey' = arkKey + 1
  /\ arkHost' = host
  /\ arkSession' = {}
  /\ LET before == {m \in hellos : m.signedBy = signer}
         cwt == IF before = {} THEN attestation ELSE (CHOOSE m \in before : TRUE).attest
     IN  \E sent \in {TRUE, ok} :
       hellos' = IF sent THEN hellos \cup
                   {[host |-> host, ark |-> arkKey', attest |-> cwt, signedBy |-> signer]}
                 ELSE hellos
  /\ answered' = ok
  /\ UNCHANGED <<now, since, signer, attestation, hostVars>>

(* Mutant: the Ark's key pair is made once.                                *)
ArkAnswerSameKey(host, ok) ==
  /\ host \in 1 .. hostKey /\ arkKey < MaxAnswers
  /\ arkKey' = 1
  /\ arkHost' = host
  /\ arkSession' = {}
  /\ \E sent \in {TRUE, ok} :
       hellos' = IF sent THEN hellos \cup
                   {[host |-> host, ark |-> arkKey', attest |-> attestation, signedBy |-> signer]}
                 ELSE hellos
  /\ answered' = ok
  /\ UNCHANGED <<now, since, signer, attestation, hostVars>>

(* A reset and a hello of any attempt so far: the Ark asks its attester    *)
(* and answers under a fresh key, signed with its identity key.            *)
ArkAnswer(host, ok) ==
  /\ host \in 1 .. hostKey /\ arkKey < MaxAnswers
  /\ arkKey' = arkKey + 1
  /\ arkHost' = host
  /\ arkSession' = {}
  /\ \E sent \in {TRUE, ok} :
       hellos' = IF sent THEN hellos \cup
                   {[host |-> host, ark |-> arkKey', attest |-> attestation, signedBy |-> signer]}
                 ELSE hellos
  /\ answered' = ok
  /\ UNCHANGED <<now, since, signer, attestation, hostVars>>

(* The ack to that answer, naming this Ark, opens the session.             *)
ArkEstablish ==
  /\ answered
  /\ [host |-> arkHost, ark |-> arkKey, arkSigner |-> signer] \in acks
  /\ arkSession' = {[ark |-> arkKey, host |-> arkHost]}
  /\ answered' = FALSE
  /\ UNCHANGED <<now, since, signer, attestation, arkKey, arkHost, hellos, hostVars>>

(* What ends the handshake or the session for other reasons.               *)
ArkGivesUp ==
  /\ answered' = FALSE /\ arkSession' = {}
  /\ UNCHANGED <<now, since, signer, attestation, arkKey, arkHost, hellos, hostVars>>

-----------------------------------------------------------------------------
(* The attester has another attestation from now on, of this Ark or not.   *)
Onboard ==
  /\ attestation' \in Attestations
  /\ since' = since \cup {attestation'}
  /\ UNCHANGED <<now, signer, answered, arkKey, arkHost, arkSession, hellos, hostVars>>

(* Another Ark takes over the streams, not necessarily one made with this  *)
(* library, so what it presents need not be an attestation.                *)
Replace ==
  /\ signer' \in Keys /\ attestation' \in Cwts
  /\ since' = since \cup {attestation'}
  /\ answered' = FALSE /\ arkSession' = {}
  /\ UNCHANGED <<now, arkKey, arkHost, hellos, hostVars>>

(* The host's clock is read anew in every verification.                    *)
Tick ==
  /\ now' \in Times
  /\ UNCHANGED <<since, hostVars, arkVars>>

Next ==
  \/ \E v \in Verifiers, ok \in BOOLEAN : HostStart(v, ok)
  \/ \E p \in hellos, ok \in BOOLEAN : HostAccept(p, ok)
  \/ \E p \in hellos : HostReject(p)
  \/ HostGivesUp
  \/ \E host \in 1 .. hostKey, ok \in BOOLEAN : ArkAnswer(host, ok)
  \/ ArkEstablish \/ ArkGivesUp
  \/ Onboard \/ Replace \/ Tick

Spec == Init /\ [][Next]_vars

-----------------------------------------------------------------------------
TypeOK ==
  /\ now \in Times
  /\ verifier \in Verifiers
  /\ waiting \in BOOLEAN /\ hostKey \in 0 .. MaxAttempts
  /\ hostSession \subseteq HostSession
  /\ since \subseteq Cwts
  /\ signer \in Keys /\ attestation \in Cwts
  /\ answered \in BOOLEAN /\ arkKey \in Nat /\ arkHost \in Nat
  /\ arkSession \subseteq ArkSession
  /\ hellos \subseteq ArkHello /\ acks \subseteq HostAck

(* A host's session is with the Ark whose identity it was told: that key   *)
(* signed the answer with these contexts and the attestation the host was  *)
(* handed, and an Ark at the other end of the session has that key.        *)
Authentic ==
  \A s \in hostSession :
    /\ \A m \in hellos : m.ark = s.ark => m.signedBy = s.identity /\ m.attest = s.info
    /\ \A t \in arkSession : t.ark = s.ark => signer = s.identity

(* Under the roots, the Ark at the other end was vouched for, by a root of *)
(* its kind and at the time the session was opened, whatever attestation   *)
(* it has got since and whosever it presented.                             *)
Vouched ==
  verifier = Roots =>
    \A s \in hostSession : \A m \in hellos :
      m.ark = s.ark =>
        /\ m.attest.signer = m.signedBy
        /\ s.at >= 0 /\ DeviceVerify(m.attest, Hardware, Emulator, s.at)

(* An attestation replaced before a handshake began is not what that       *)
(* handshake hands out: the attester is asked each time.                   *)
FreshAttestation ==
  \A s \in hostSession : s.info \in since

(* The inductive strengthening, in parts.  Every answer has keys of its    *)
(* own.                                                                    *)
AnswersDistinct ==
  /\ \A m \in hellos : m.ark \in 1 .. arkKey /\ m.host \in 1 .. hostKey
  /\ \A m, n \in hellos : m.ark = n.ark => m = n

(* An answer to the current attempt carries an attestation from after the  *)
(* start of it.                                                            *)
AnswersFresh ==
  /\ attestation \in since
  /\ \A m \in hellos : m.host = hostKey => m.attest \in since

(* The Ark waits for the ack of, and is in the session of, an answer it    *)
(* signed itself.                                                          *)
ArkOwnsAnswer ==
  /\ answered => \A m \in hellos : m.ark = arkKey => m.signedBy = signer
  /\ \A t \in arkSession :
       t.ark <= arkKey /\ \A m \in hellos : m.ark = t.ark => m.signedBy = signer

(* The host's session comes from an answer to its last attempt.            *)
SessionAnswered ==
  /\ waiting => hostSession = {}
  /\ \A s \in hostSession : \E m \in hellos :
       /\ m.ark = s.ark /\ m.host = hostKey /\ m.signedBy = s.identity /\ m.attest = s.info
       /\ verifier = Roots => /\ m.attest.signer = m.signedBy
                              /\ s.at >= 0 /\ DeviceVerify(m.attest, Hardware, Emulator, s.at)

TrustInv ==
  TypeOK /\ AnswersDistinct /\ AnswersFresh /\ ArkOwnsAnswer /\ SessionAnswered
=============================================================================
