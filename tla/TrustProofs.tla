---------------------------- MODULE TrustProofs -----------------------------
(***************************************************************************)
(* Whom a host trusts, for any keys, roots, attestations and clock, and    *)
(* for any number of handshakes and of Arks.                               *)
(***************************************************************************)
EXTENDS Trust, TLAPS

USE TrustAssumption

LEMMA TrustInvInit == Init => TrustInv
<1> SUFFICES ASSUME Init PROVE TrustInv
  OBVIOUS
<1> USE DEF Init
<1>1. TypeOK
  <2>1. waiting \in BOOLEAN /\ answered \in BOOLEAN
    OBVIOUS
  <2>2. /\ hostKey \in 0 .. MaxAttempts /\ arkKey \in Nat /\ arkHost \in Nat
        /\ since \subseteq Cwts /\ attestation \in Cwts
    BY DEF Attestations
  <2>3. /\ hostSession \subseteq HostSession /\ arkSession \subseteq ArkSession
        /\ hellos \subseteq ArkHello /\ acks \subseteq HostAck
    OBVIOUS
  <2>4. QED
    BY <2>1, <2>2, <2>3, Zenon DEF TypeOK
<1>2. AnswersDistinct /\ AnswersFresh
  BY DEF AnswersDistinct, AnswersFresh
<1>3. ArkOwnsAnswer /\ SessionAnswered
  BY DEF ArkOwnsAnswer, SessionAnswered
<1>4. QED
  BY <1>1, <1>2, <1>3 DEF TrustInv

(* What the verifier returns, and when.                                    *)
LEMMA Verified ==
  ASSUME TypeOK, NEW p \in hellos, NEW identity \in Verify(p.attest)
  PROVE  /\ identity \in Keys
         /\ verifier = Roots => /\ identity = p.attest.signer
                                /\ now >= 0 /\ DeviceVerify(p.attest, Hardware, Emulator, now)
<1>1. p.attest \in Cwts
  BY DEF TypeOK, ArkHello
<1>2. p.attest.signer \in Keys
  BY <1>1
<1>3. CASE verifier = Roots
  BY <1>2, <1>3 DEF Verify, RootsVerify
<1>4. CASE verifier # Roots
  BY <1>4 DEF Verify, TypeOK, Verifiers
<1>5. QED
  BY <1>3, <1>4

(* The steps of the host.                                                  *)

LEMMA HostStartKeepsInv ==
  ASSUME TrustInv, NEW v \in Verifiers, NEW ok \in BOOLEAN, HostStart(v, ok)
  PROVE  TrustInv'
<1> USE DEF HostStart, arkVars
<1>1. TypeOK'
  BY DEF TrustInv, TypeOK
<1>2. AnswersDistinct'
  BY DEF TrustInv, TypeOK, AnswersDistinct
<1>3. AnswersFresh'
  BY DEF TrustInv, TypeOK, AnswersDistinct, AnswersFresh
<1>4. ArkOwnsAnswer' /\ SessionAnswered'
  BY DEF TrustInv, ArkOwnsAnswer, SessionAnswered
<1>5. QED
  BY <1>1, <1>2, <1>3, <1>4 DEF TrustInv

LEMMA HostAcceptKeepsInv ==
  ASSUME TrustInv, NEW p \in hellos, NEW ok \in BOOLEAN, HostAccept(p, ok)
  PROVE  TrustInv'
<1> USE DEF HostAccept, arkVars
<1>1. PICK identity \in Verify(p.attest) :
        /\ p.signedBy = identity
        /\ \E sent \in {TRUE, ok} :
             acks' = IF sent THEN acks \cup {[host |-> p.host, ark |-> p.ark, arkSigner |-> identity]}
                             ELSE acks
        /\ hostSession' = IF ok THEN {[ark |-> p.ark, identity |-> identity, info |-> p.attest, at |-> now]}
                                ELSE {}
  OBVIOUS
<1>2. /\ identity \in Keys
      /\ verifier = Roots => /\ identity = p.attest.signer
                             /\ now >= 0 /\ DeviceVerify(p.attest, Hardware, Emulator, now)
  BY Verified DEF TrustInv
<1>3. p.host \in Nat /\ p.ark \in Nat /\ p.attest \in Attestations
  BY DEF TrustInv, TypeOK, ArkHello, Attestations
<1>4. acks' \subseteq HostAck
  <2>1. [host |-> p.host, ark |-> p.ark, arkSigner |-> identity] \in HostAck
    BY <1>2, <1>3 DEF HostAck
  <2>2. QED
    BY <1>1, <2>1 DEF TrustInv, TypeOK
<1>5. hostSession' \subseteq HostSession
  <2>1. [ark |-> p.ark, identity |-> identity, info |-> p.attest, at |-> now] \in HostSession
    BY <1>2, <1>3 DEF HostSession, TrustInv, TypeOK
  <2>2. QED
    BY <1>1, <2>1
<1>6. TypeOK'
  BY <1>4, <1>5 DEF TrustInv, TypeOK
<1>7. AnswersDistinct' /\ AnswersFresh' /\ ArkOwnsAnswer'
  BY DEF TrustInv, AnswersDistinct, AnswersFresh, ArkOwnsAnswer
<1>8. SessionAnswered'
  <2> SUFFICES ASSUME NEW s \in hostSession'
               PROVE  /\ p.ark = s.ark /\ p.host = hostKey /\ p.signedBy = s.identity /\ p.attest = s.info
                      /\ verifier = Roots => /\ p.attest.signer = p.signedBy
                                             /\ s.at >= 0 /\ DeviceVerify(p.attest, Hardware, Emulator, s.at)
    BY DEF SessionAnswered
  <2>1. s = [ark |-> p.ark, identity |-> identity, info |-> p.attest, at |-> now]
    BY <1>1
  <2>2. QED
    BY <1>1, <1>2, <2>1
<1>9. QED
  BY <1>6, <1>7, <1>8 DEF TrustInv

LEMMA HostStopsKeepsInv ==
  ASSUME TrustInv, HostGivesUp \/ \E p \in hellos : HostReject(p)
  PROVE  TrustInv'
<1>1. /\ waiting' = FALSE /\ (hostSession' = hostSession \/ hostSession' = {})
      /\ UNCHANGED <<now, since, verifier, hostKey, acks, arkVars>>
  BY DEF HostGivesUp, HostReject
<1>2. TypeOK'
  BY <1>1 DEF TrustInv, TypeOK, arkVars
<1>3. AnswersDistinct' /\ AnswersFresh' /\ ArkOwnsAnswer'
  BY <1>1 DEF TrustInv, AnswersDistinct, AnswersFresh, ArkOwnsAnswer, arkVars
<1>4. SessionAnswered'
  BY <1>1 DEF TrustInv, SessionAnswered, arkVars
<1>5. QED
  BY <1>2, <1>3, <1>4 DEF TrustInv

(* The steps of the Ark.                                                   *)

LEMMA ArkAnswerKeepsInv ==
  ASSUME TrustInv, NEW host \in 1 .. hostKey, NEW ok \in BOOLEAN, ArkAnswer(host, ok)
  PROVE  TrustInv'
<1> USE DEF ArkAnswer, hostVars
<1> DEFINE new == [host |-> host, ark |-> arkKey + 1, attest |-> attestation, signedBy |-> signer]
<1>1. hellos' = hellos \cup {new} \/ hellos' = hellos
  <2>1. arkKey' = arkKey + 1
    OBVIOUS
  <2>2. PICK sent \in {TRUE, ok} :
          hellos' = IF sent THEN hellos \cup {[host |-> host, ark |-> arkKey', attest |-> attestation,
                                               signedBy |-> signer]}
                    ELSE hellos
    BY Zenon
  <2>3. CASE sent
    BY <2>1, <2>2, <2>3
  <2>4. CASE ~sent
    BY <2>2, <2>4
  <2>5. QED
    BY <2>3, <2>4
<1>2. /\ new.host = host /\ new.ark = arkKey + 1 /\ new.attest = attestation /\ new.signedBy = signer
      /\ host \in Nat /\ arkKey \in Nat /\ hostKey \in Nat /\ arkKey' = arkKey + 1
  BY DEF TrustInv, TypeOK
<1>3. new \in ArkHello
  BY <1>2 DEF TrustInv, TypeOK, ArkHello
<1> HIDE DEF new
<1>4. TypeOK'
  BY <1>1, <1>2, <1>3 DEF TrustInv, TypeOK
<1>5. \A m \in hellos : m.ark \in 1 .. arkKey /\ m.ark # arkKey + 1
  BY <1>2 DEF TrustInv, AnswersDistinct
<1>6. AnswersDistinct'
  BY <1>1, <1>2, <1>5 DEF TrustInv, AnswersDistinct
<1>7. attestation \in since
  BY DEF TrustInv, AnswersFresh
<1>8. AnswersFresh'
  BY <1>1, <1>2, <1>7 DEF TrustInv, AnswersFresh
<1>9. ArkOwnsAnswer'
  BY <1>1, <1>2, <1>5 DEF TrustInv, ArkOwnsAnswer
<1>10. SessionAnswered'
  <2>1. hellos \subseteq hellos'
    BY <1>1
  <2>2. QED
    BY <2>1 DEF TrustInv, SessionAnswered
<1>11. QED
  BY <1>4, <1>6, <1>8, <1>9, <1>10 DEF TrustInv

LEMMA ArkEstablishKeepsInv ==
  ASSUME TrustInv, ArkEstablish
  PROVE  TrustInv'
<1> USE DEF ArkEstablish, hostVars
<1>1. [ark |-> arkKey, host |-> arkHost] \in ArkSession
  BY DEF TrustInv, TypeOK, ArkSession
<1>2. TypeOK'
  BY <1>1 DEF TrustInv, TypeOK
<1>3. AnswersDistinct' /\ AnswersFresh' /\ SessionAnswered'
  BY DEF TrustInv, AnswersDistinct, AnswersFresh, SessionAnswered
<1>4. arkKey <= arkKey
  BY DEF TrustInv, TypeOK
<1>5. ArkOwnsAnswer'
  BY <1>4 DEF TrustInv, ArkOwnsAnswer
<1>6. QED
  BY <1>2, <1>3, <1>5 DEF TrustInv

(* The Ark gives up, changes its attestation, is another, or time passes.  *)
LEMMA WorldKeepsInv ==
  ASSUME TrustInv, ArkGivesUp \/ Onboard \/ Replace \/ Tick
  PROVE  TrustInv'
<1>1. /\ UNCHANGED <<hostVars, arkKey, arkHost, hellos>>
      /\ since \subseteq since' /\ (attestation' = attestation \/ attestation' \in since')
      /\ \/ UNCHANGED <<signer, answered, arkSession>>
         \/ answered' = FALSE /\ arkSession' = {}
  BY DEF ArkGivesUp, Onboard, Replace, Tick, hostVars, arkVars
<1>2. TypeOK'
  BY DEF TrustInv, TypeOK, ArkGivesUp, Onboard, Replace, Tick, hostVars, arkVars, Attestations
<1>3. AnswersDistinct' /\ AnswersFresh' /\ SessionAnswered'
  BY <1>1 DEF TrustInv, AnswersDistinct, AnswersFresh, SessionAnswered, hostVars
<1>4. ArkOwnsAnswer'
  BY <1>1 DEF TrustInv, ArkOwnsAnswer
<1>5. QED
  BY <1>2, <1>3, <1>4 DEF TrustInv

LEMMA TrustInvStep == TrustInv /\ [Next]_vars => TrustInv'
<1> SUFFICES ASSUME TrustInv, [Next]_vars PROVE TrustInv'
  OBVIOUS
<1>1. CASE Next
  BY <1>1, HostStartKeepsInv, HostAcceptKeepsInv, HostStopsKeepsInv, ArkAnswerKeepsInv,
     ArkEstablishKeepsInv, WorldKeepsInv, Zenon DEF Next
<1>2. CASE UNCHANGED vars
  BY <1>2 DEF vars, hostVars, arkVars, TrustInv, TypeOK, AnswersDistinct, AnswersFresh,
     ArkOwnsAnswer, SessionAnswered
<1>3. QED
  BY <1>1, <1>2

(* Every answer of an Ark has keys of its own, carries the attestation of  *)
(* its time, and a host's session comes from one the verifier accepted.    *)
THEOREM TrustInvariant == Spec => []TrustInv
BY TrustInvInit, TrustInvStep, PTL DEF Spec

(* The identity handshake hands out is that of the Ark whose contexts the  *)
(* session has, and that is the Ark at the other end, if one is.           *)
THEOREM SessionsAuthentic == Spec => []Authentic
<1>1. TrustInv => Authentic
  <2> SUFFICES ASSUME TrustInv, NEW s \in hostSession
               PROVE  /\ \A m \in hellos : m.ark = s.ark => m.signedBy = s.identity /\ m.attest = s.info
                      /\ \A t \in arkSession : t.ark = s.ark => signer = s.identity
    BY DEF Authentic
  <2>1. PICK n \in hellos : n.ark = s.ark /\ n.signedBy = s.identity /\ n.attest = s.info
    BY DEF TrustInv, SessionAnswered
  <2>2. \A m \in hellos : m.ark = s.ark => m = n
    BY <2>1 DEF TrustInv, AnswersDistinct
  <2>3. \A t \in arkSession : t.ark = n.ark => n.signedBy = signer
    BY DEF TrustInv, ArkOwnsAnswer
  <2>4. QED
    BY <2>1, <2>2, <2>3
<1>2. QED
  BY <1>1, TrustInvariant, PTL

(* Roots only ever opens sessions with Arks a root of their kind attests   *)
(* at that time.                                                           *)
THEOREM ArksVouchedFor == Spec => []Vouched
<1>1. TrustInv => Vouched
  <2> SUFFICES ASSUME TrustInv, verifier = Roots, NEW s \in hostSession,
                      NEW m \in hellos, m.ark = s.ark
               PROVE  /\ m.attest.signer = m.signedBy
                      /\ s.at >= 0 /\ DeviceVerify(m.attest, Hardware, Emulator, s.at)
    BY DEF Vouched
  <2>1. PICK n \in hellos :
          /\ n.ark = s.ark /\ n.attest.signer = n.signedBy
          /\ s.at >= 0 /\ DeviceVerify(n.attest, Hardware, Emulator, s.at)
    BY DEF TrustInv, SessionAnswered
  <2>2. m = n
    BY <2>1 DEF TrustInv, AnswersDistinct
  <2>3. QED
    BY <2>1, <2>2
<1>2. QED
  BY <1>1, TrustInvariant, PTL

(* An attestation given up before a handshake is never accepted in it.     *)
THEOREM AttestationsFresh == Spec => []FreshAttestation
<1>1. TrustInv => FreshAttestation
  BY DEF TrustInv, SessionAnswered, AnswersFresh, FreshAttestation
<1>2. QED
  BY <1>1, TrustInvariant, PTL
=============================================================================
