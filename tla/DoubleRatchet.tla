--------------------------- MODULE DoubleRatchet ---------------------------
(***************************************************************************)
(* The Double Ratchet of crates/upm-core/src/ratchet.rs, as operators on   *)
(* a session record: what encrypt and decrypt make of it.                  *)
(*                                                                         *)
(* Keys are terms.  A shared secret is the set of the two public keys it   *)
(* is agreed between, a root key is the sequence of the secrets mixed into *)
(* it, and a chain key is the root it branched from, the HKDF label it was *)
(* derived under and the steps taken since.  A message key is the term of  *)
(* the chain key it is derived from.  HKDF is injective on terms; the AEAD *)
(* opens a ciphertext exactly when it is undamaged and the key is the one  *)
(* it was sealed with.                                                     *)
(***************************************************************************)
EXTENDS Integers, Sequences

CONSTANTS
  PublicKey,    \* X25519 public keys
  NoKey,        \* Option::None, for keys
  MaxSkip,      \* MAX_SKIP
  FreshKey(_)   \* generate(): a key pair never used before, by the owner of a key

-----------------------------------------------------------------------------
(* Keys.                                                                   *)

RootKey == Seq(SUBSET PublicKey)
Label == {"chain-a-to-b", "chain-b-to-a", "root-step"}
ChainKey == [root : RootKey, label : Label, step : Nat]

Agree(mine, theirs) == {mine, theirs}

\* kdf_rk: the new root key, and the chain key that branches from it.
KdfRk(root, dh) == Append(root, dh)
ChainOf(root) == [root |-> root, label |-> "root-step", step |-> 0]

\* kdf_ck, k times.
KdfCk(chain, k) == [chain EXCEPT !.step = @ + k]

-----------------------------------------------------------------------------
(* Sessions and messages.                                                  *)

SkippedKey == [dh : PublicKey, n : Nat, key : ChainKey]

Session ==
  [root : RootKey,
   self : PublicKey,                   \* dh_self_public
   remote : PublicKey \cup {NoKey},    \* dh_remote_public
   sendChain : ChainKey \cup {NoKey},
   recvChain : ChainKey,               \* both constructors set it
   ns : Nat,                           \* send_count
   nr : Nat,                           \* recv_count
   pn : Nat,                           \* prev_chain_len
   skipped : SUBSET SkippedKey]

\* A WireMessage: its header, and the key its ciphertext is sealed with.
Message == [dh : PublicKey, pn : Nat, n : Nat, key : ChainKey]

HandshakeChain(root, label) == [root |-> root, label |-> label, step |-> 0]

\* init_initiator: self is a fresh key, remote the responder's signed prekey.
InitInitiator(handshake, self, remote) ==
  LET root == KdfRk(handshake, Agree(self, remote))
  IN  [root |-> root, self |-> self, remote |-> remote,
       sendChain |-> ChainOf(root),
       recvChain |-> HandshakeChain(handshake, "chain-b-to-a"),
       ns |-> 0, nr |-> 0, pn |-> 0, skipped |-> {}]

\* init_responder: the signed prekey is the first ratchet key.
InitResponder(handshake, self) ==
  [root |-> handshake, self |-> self, remote |-> NoKey,
   sendChain |-> NoKey, recvChain |-> HandshakeChain(handshake, "chain-a-to-b"),
   ns |-> 0, nr |-> 0, pn |-> 0, skipped |-> {}]

DhRatchetStep(s, remote) ==
  LET self == FreshKey(s.self)
      rootRecv == KdfRk(s.root, Agree(s.self, remote))
      rootSend == KdfRk(rootRecv, Agree(self, remote))
  IN  [s EXCEPT !.pn = s.ns, !.ns = 0, !.nr = 0, !.remote = remote, !.self = self,
                !.recvChain = ChainOf(rootRecv), !.sendChain = ChainOf(rootSend),
                !.root = rootSend]

-----------------------------------------------------------------------------
(* skip_receiving_keys.                                                    *)

\* until.saturating_sub(recv_count) > MAX_SKIP is TooManySkipped.
\* Mutant: no limit.
MaySkipToAny(s, until) == TRUE

MaySkipTo(s, until) == until - s.nr <= MaxSkip

SkipTo(s, dh, until) ==
  LET stashed == s.nr .. until - 1
  IN  IF until <= s.nr
      THEN s
      ELSE [s EXCEPT
              !.recvChain = KdfCk(@, until - s.nr),
              !.nr = until,
              !.skipped = {e \in @ : ~(e.dh = dh /\ e.n \in stashed)} \cup
                {[dh |-> dh, n |-> k, key |-> KdfCk(s.recvChain, k - s.nr)] : k \in stashed}]

-----------------------------------------------------------------------------
(* decrypt_inner, in the order of its steps.                               *)

StoredKeys(s, m) == {e \in s.skipped : e.dh = m.dh /\ e.n = m.n}

NeedsStep(s, m) == s.remote # m.dh

\* Mutant: the old chain is dropped with the keys still outstanding on it.
OldChainDropped(s, m) == s

\* The session once the keys still outstanding on the old chain are stashed.
OldChainStashed(s, m) == SkipTo(s, IF s.remote = NoKey THEN m.dh ELSE s.remote, m.pn)

\* ... once it has ratcheted to the header's DH key ...
OnChain(s, m) ==
  IF NeedsStep(s, m) THEN DhRatchetStep(OldChainStashed(s, m), m.dh) ELSE s

\* ... and once it stands at the header's message number.
Positioned(s, m) == SkipTo(OnChain(s, m), m.dh, m.n)

OpensFromStore(s, m) == \E e \in StoredKeys(s, m) : e.key = m.key

OpensFromChain(s, m) ==
  /\ StoredKeys(s, m) = {}
  /\ NeedsStep(s, m) => MaySkipTo(s, m.pn)
  /\ MaySkipTo(OnChain(s, m), m.n)
  /\ m.n >= OnChain(s, m).nr            \* otherwise Replay
  /\ Positioned(s, m).recvChain = m.key \* AEAD authentication

Opens(s, m) == OpensFromStore(s, m) \/ OpensFromChain(s, m)

\* Mutant: the key stays in the store.
KeyKept(s, m) == s

KeyRemoved(s, m) == [s EXCEPT !.skipped = @ \ StoredKeys(s, m)]

\* Mutant: the chain stays where it is.
KeyNotTaken(s) == s

\* The chain moves past the key it stands at.
KeyTaken(s) == [s EXCEPT !.recvChain = KdfCk(@, 1), !.nr = @ + 1]

\* The candidate session a successful decrypt commits.
Opened(s, m) ==
  IF OpensFromStore(s, m)
  THEN KeyRemoved(s, m)
  ELSE KeyTaken(Positioned(s, m))

\* Mutant: the candidate is the session itself, moved before authentication.
AfterDecryptInPlace(s, m, intact) == IF Opens(s, m) THEN Opened(s, m) ELSE s

\* decrypt: the candidate is committed only if the plaintext authenticated.
AfterDecrypt(s, m, intact) == IF intact /\ Opens(s, m) THEN Opened(s, m) ELSE s

-----------------------------------------------------------------------------
(* encrypt.                                                                *)

SealedBy(s) == [dh |-> s.self, pn |-> s.pn, n |-> s.ns, key |-> s.sendChain]

\* Mutant: the message is numbered but the chain key is not stepped.
AfterEncryptSameChain(s) == [s EXCEPT !.ns = @ + 1]

AfterEncrypt(s) == [s EXCEPT !.sendChain = KdfCk(@, 1), !.ns = @ + 1]
=============================================================================
