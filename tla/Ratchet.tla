------------------------------ MODULE Ratchet ------------------------------
(***************************************************************************)
(* The Double Ratchet session of crates/upm-core/src/ratchet.rs, one at    *)
(* each end of a conversation, over a transport that delays, reorders,     *)
(* duplicates and damages ciphertexts.                                     *)
(*                                                                         *)
(* Every key pair that generate() returns is fresh: a public key is        *)
(* <<device, generation>>.                                                 *)
(***************************************************************************)
EXTENDS Integers, Sequences, FiniteSets

CONSTANTS
  Alice,        \* the initiator of the session
  Bob,          \* the responder
  NoKey,        \* Option::None, for keys
  MaxSkip,      \* MAX_SKIP
  MaxSent       \* bound: messages each end encrypts

Parties == {Alice, Bob}

ASSUME PartiesAssumption == Alice # Bob
ASSUME BoundsAssumption == MaxSkip \in Nat /\ MaxSent \in Nat

Peer(p) == IF p = Alice THEN Bob ELSE Alice

VARIABLES
  session,      \* session[p]: p's DoubleRatchetSession
  sent,         \* sent[p]: every WireMessage p has encrypted, in order
  reads,        \* reads[p][i]: how often decrypt returned message i of p's peer
  lost          \* the parties whose snapshot from_snapshot refused

vars == <<session, sent, reads, lost>>

-----------------------------------------------------------------------------
(* Keys.                                                                   *)

PublicKey == Parties \X Nat

\* generate(): the device's next key pair.
FreshKey(key) == <<key[1], key[2] + 1>>

INSTANCE DoubleRatchet

ASSUME NoKeyAssumption == NoKey \notin PublicKey /\ NoKey \notin ChainKey

SignedPrekey == <<Bob, 0>>
FirstRatchetKey == <<Alice, 1>>
HandshakeRoot == << >>

-----------------------------------------------------------------------------
(* The operations of a session.                                            *)

Encrypt(p) ==
  /\ p \notin lost
  /\ Len(sent[p]) < MaxSent
  /\ session[p].sendChain # NoKey       \* otherwise NotEstablished
  /\ sent' = [sent EXCEPT ![p] = Append(@, SealedBy(session[p]))]
  /\ session' = [session EXCEPT ![p] = AfterEncrypt(@)]
  /\ UNCHANGED <<reads, lost>>

\* The transport hands p the i-th message of its peer: now, late, again, or
\* with a damaged body.
Decrypt(p, i, intact) ==
  /\ p \notin lost
  /\ i <= Len(sent[Peer(p)])
  /\ LET m == sent[Peer(p)][i]
     IN  /\ session' = [session EXCEPT ![p] = AfterDecrypt(@, m, intact)]
         /\ reads' = IF intact /\ Opens(session[p], m)
                     THEN [reads EXCEPT ![p][i] = @ + 1]
                     ELSE reads
  /\ UNCHANGED <<sent, lost>>

\* A process restart: from_snapshot(snapshot()).  The session is gone when
\* its store of skipped keys is larger than from_snapshot takes.
Reload(p) ==
  /\ p \notin lost
  /\ lost' = IF Cardinality(session[p].skipped) > MaxSkip THEN lost \cup {p} ELSE lost
  /\ UNCHANGED <<session, sent, reads>>

-----------------------------------------------------------------------------

Init ==
  /\ session = [p \in Parties |-> IF p = Alice
                              THEN InitInitiator(HandshakeRoot, FirstRatchetKey, SignedPrekey)
                              ELSE InitResponder(HandshakeRoot, SignedPrekey)]
  /\ sent = [p \in Parties |-> << >>]
  /\ reads = [p \in Parties |-> [i \in 1 .. MaxSent |-> 0]]
  /\ lost = {}

Next ==
  \E p \in Parties :
    \/ Encrypt(p)
    \/ Reload(p)
    \/ \E i \in 1 .. MaxSent, intact \in BOOLEAN : Decrypt(p, i, intact)

Spec == Init /\ [][Next]_vars

\* The server keeps an envelope until it is acknowledged and a client pulls
\* again on every poll, so each ciphertext keeps being handed to decrypt.
Fairness ==
  \A p \in Parties, i \in 1 .. MaxSent : WF_vars(Decrypt(p, i, TRUE))

FairSpec == Spec /\ Fairness

-----------------------------------------------------------------------------
(* Properties.                                                             *)

\* Type invariant.
TypeOK ==
  /\ session \in [Parties -> Session]
  /\ sent \in [Parties -> Seq(Message)]
  /\ reads \in [Parties -> [1 .. MaxSent -> Nat]]
  /\ lost \subseteq Parties

\* No message key seals two messages, in either direction and across every
\* ratchet step: the fixed all-zero nonce of encrypt is safe.
KeyUsedOnce ==
  \A p, q \in Parties :
    \A i \in 1 .. Len(sent[p]), j \in 1 .. Len(sent[q]) :
      sent[p][i].key = sent[q][j].key => p = q /\ i = j

\* However late and out of order it arrives, a message not yet read opens,
\* unless reaching it would skip more than MAX_SKIP keys of one chain.
UnreadOpens ==
  \A p \in Parties :
    \A i \in 1 .. Len(sent[Peer(p)]) :
      LET s == session[p]
          m == sent[Peer(p)][i]
      IN  \/ reads[p][i] > 0
          \/ Opens(s, m)
          \/ NeedsStep(s, m) /\ ~MaySkipTo(s, m.pn)
          \/ ~MaySkipTo(OnChain(s, m), m.n)

\* The store of skipped keys holds keys of messages the peer did send and
\* this end has not read: no key outlives its message, and none is wrong.
StoreIsOutstanding ==
  \A p \in Parties :
    \A e \in session[p].skipped :
      \E i \in 1 .. Len(sent[Peer(p)]) :
        /\ reads[p][i] = 0
        /\ sent[Peer(p)][i].dh = e.dh
        /\ sent[Peer(p)][i].n = e.n
        /\ sent[Peer(p)][i].key = e.key

\* One ciphertext makes the store grow by at most MAX_SKIP keys of the chain
\* it closes and MAX_SKIP keys of the chain it is on.
StoreGrowsByTwoSkips ==
  [][\A p \in Parties :
       Cardinality(session'[p].skipped) <= Cardinality(session[p].skipped) + 2 * MaxSkip]_vars

\* Every message is read in the end, or its reader has lost its session.
EventuallyRead ==
  \A p \in Parties, i \in 1 .. MaxSent :
    (i <= Len(sent[Peer(p)])) ~> (reads[p][i] > 0 \/ p \in lost)

\* The session implements the channel.
posted == [p \in Parties |-> Len(sent[p])]

ChannelBetween ==
  INSTANCE Channel WITH Devices <- Parties, Other <- Peer, gone <- lost

ImplementsChannel == ChannelBetween!Spec
=============================================================================
