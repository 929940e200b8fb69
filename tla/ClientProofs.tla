---------------------------- MODULE ClientProofs ----------------------------
(***************************************************************************)
(* Proofs about the desktop client for any devices, any MAX_SKIP and any   *)
(* number of messages and restarts: that it implements Delivery, and that  *)
(* a device whose sends were answered forgets no step of the ratchet,      *)
(* seals no two messages under one key and can read no message twice.      *)
(***************************************************************************)
EXTENDS Client, SequenceTheorems, TLAPS

-----------------------------------------------------------------------------
(* The inductive invariant.                                                *)

\* A chain that branched off when the key of d was agreed with a key of another
\* device: its signed prekey, or one that an older key of d was agreed with
\* just before.
BranchesFrom(root, key, d) ==
  \E before \in RootKey, other \in PublicKey :
    /\ other[1] # d /\ root = Append(before, Agree(key, other))
    /\ \/ other[2] = 0
       \/ \E start \in RootKey, old \in PublicKey :
            old # key /\ before = Append(start, Agree(old, other))

\* s is a session of d, which has generated n key pairs so far.
Owned(d, s, n) ==
  /\ s.self[1] = d /\ s.self[2] <= n
  /\ s.sendChain # NoKey =>
       /\ s.self[2] > 0
       /\ s.sendChain.step = s.ns
       /\ BranchesFrom(s.sendChain.root, s.self, d)

\* The envelope e was sealed by a session of its sender.
Keyed(e, n) ==
  /\ e.wire.dh[1] = e.from /\ e.wire.dh[2] > 0 /\ e.wire.dh[2] <= n
  /\ e.wire.key.step = e.wire.n
  /\ BranchesFrom(e.wire.key.root, e.wire.dh, e.from)

\* An envelope with a bootstrap is the first of the session it establishes.
FirstOfSession(e) ==
  e.boot # NoKey =>
    \E k \in PublicKey :
      e.wire = SealedBy(InitInitiator(Handshake(e.boot, e.to), k, SignedPrekey(e.to)))

\* What queue, tables and batches say of the envelopes made: all of them ...
Numbered ==
  /\ 1 .. Len(made) \subseteq Ids
  /\ \A i \in 1 .. Len(made) : made[i].from # made[i].to
  /\ queue \subseteq 1 .. Len(made)
  /\ unanswered \subseteq 1 .. Len(made)

\* ... the poll of a device and what it has processed ...
Polled(d) ==
  /\ conversation[d].peer # d
  /\ batch[d] \subseteq AddressedTo(d)
  /\ acks[d] \subseteq processed[d]
  /\ \A id \in processed[d] : id \in 1 .. Len(made) /\ made[id].to = d

\* ... its outbox ...
Waiting(d) ==
  \A item \in outbox[d] :
    /\ item.id \in unanswered
    /\ made[item.id].from = d
    /\ history[d][item.id] = 0

\* ... and its history.
Recorded(d) ==
  \A id \in Ids :
    /\ id \notin 1 .. Len(made) => history[d][id] = 0
    /\ id \in 1 .. Len(made) /\ made[id].to = d =>
         history[d][id] = IF id \in processed[d] THEN 1 ELSE 0
    /\ id \in 1 .. Len(made) /\ made[id].from = d /\ history[d][id] # 0 =>
         history[d][id] = 1 /\ id \in accepted

Bookkeeping ==
  /\ Numbered
  /\ \A d \in Devices : Polled(d) /\ Waiting(d) /\ Recorded(d)

Sessions ==
  \A d \in Devices :
    /\ conversation[d].session # NoSession =>
         Owned(d, conversation[d].session, minted[d])
    /\ \A p \in Devices : stored[d][p] # NoSession => Owned(d, stored[d][p], minted[d])
    /\ \A item \in outbox[d] : Owned(d, item.after, minted[d])

Envelopes ==
  \A i \in 1 .. Len(made) : Keyed(made[i], minted[made[i].from]) /\ FirstOfSession(made[i])

\* The sessions d has stored are the ones it used last: none has a key pair of
\* another one, and none is behind a message of d.
StoreIsCurrent(d) ==
  /\ conversation[d].session # NoSession =>
       stored[d][conversation[d].peer] = conversation[d].session
  /\ \A p, q \in Devices :
       /\ stored[d][p] # NoSession /\ stored[d][q] # NoSession
       /\ stored[d][p].self = stored[d][q].self /\ stored[d][p].self[2] > 0
       => p = q
  /\ \A p \in Devices, i \in 1 .. Len(made) :
       /\ stored[d][p] # NoSession
       /\ made[i].from = d /\ made[i].wire.dh = stored[d][p].self
       => made[i].wire.n < stored[d][p].ns

\* No two messages of d have the same number on the same chain.
NumberedOnce(d) ==
  \A i, j \in 1 .. Len(made) :
    /\ made[i].from = d /\ made[j].from = d
    /\ made[i].wire.dh = made[j].wire.dh /\ made[i].wire.n = made[j].wire.n
    => i = j

Current(d) == StoreIsCurrent(d) /\ NumberedOnce(d)

IInv ==
  /\ TypeOK
  /\ Bookkeeping
  /\ Sessions
  /\ Envelopes
  /\ \A d \in Devices : Answered(d) => Current(d)

-----------------------------------------------------------------------------
(* The operators of a session: types, and what they change.                *)

LEMMA NoneFacts ==
  /\ NoKey \notin PublicKey /\ NoKey \notin ChainKey
  /\ NoSession \notin Session
  BY NoneAssumption

LEMMA KeyPair ==
  ASSUME NEW k \in PublicKey
  PROVE  k[1] \in Devices /\ k[2] \in Nat /\ k = <<k[1], k[2]>>
  BY DEF PublicKey

\* generate() makes a key pair of the owner of k that it never made before.
LEMMA FreshKeyType ==
  ASSUME minted \in [Devices -> Nat], NEW k \in PublicKey
  PROVE  /\ FreshKey(k) \in PublicKey
         /\ FreshKey(k)[1] = k[1]
         /\ FreshKey(k)[2] = minted[k[1]] + 1
  BY KeyPair DEF FreshKey, PublicKey

LEMMA KdfCkType ==
  ASSUME NEW c \in ChainKey, NEW k \in Nat
  PROVE  /\ KdfCk(c, k) \in ChainKey
         /\ KdfCk(c, k) = [root |-> c.root, label |-> c.label, step |-> c.step + k]
  BY DEF KdfCk, ChainKey

LEMMA ChainOfType ==
  ASSUME NEW r \in RootKey
  PROVE  ChainOf(r) \in ChainKey /\ ChainOf(r).root = r /\ ChainOf(r).step = 0
  BY DEF ChainOf, ChainKey, Label

LEMMA KdfRkType ==
  ASSUME NEW r \in RootKey, NEW k \in PublicKey, NEW l \in PublicKey
  PROVE  KdfRk(r, Agree(k, l)) \in RootKey /\ KdfRk(r, Agree(k, l)) = Append(r, Agree(k, l))
  BY DEF KdfRk, Agree, RootKey

\* skip_receiving_keys leaves the sending side of a session alone.
LEMMA SkipToType ==
  ASSUME NEW s \in Session, NEW dh \in PublicKey, NEW until \in Nat
  PROVE  LET r == SkipTo(s, dh, until)
         IN  /\ r \in Session
             /\ r.root = s.root /\ r.self = s.self /\ r.remote = s.remote
             /\ r.sendChain = s.sendChain /\ r.ns = s.ns
  <1>1. s.nr \in Nat /\ s.recvChain \in ChainKey
    BY DEF Session
  <1>2. CASE until <= s.nr
    BY <1>1, <1>2 DEF SkipTo
  <1>3. CASE ~(until <= s.nr)
    <2> DEFINE stashed == s.nr .. until - 1
               fresh == {[dh |-> dh, n |-> k, key |-> KdfCk(s.recvChain, k - s.nr)] : k \in stashed}
               kept == {e \in s.skipped : ~(e.dh = dh /\ e.n \in stashed)}
               chain == KdfCk(s.recvChain, until - s.nr)
               r == SkipTo(s, dh, until)
    <2>1. \A k \in stashed : k \in Nat /\ KdfCk(s.recvChain, k - s.nr) \in ChainKey
      <3> TAKE k \in stashed
      <3>1. k - s.nr \in Nat /\ k \in Nat
        BY <1>1
      <3>2. QED BY <3>1, <1>1, KdfCkType
    <2>2. kept \cup fresh \subseteq SkippedKey
      BY <2>1 DEF SkippedKey, Session
    <2>3. chain \in ChainKey
      <3>1. until - s.nr \in Nat
        BY <1>1, <1>3
      <3>2. QED BY <3>1, <1>1, KdfCkType
    <2>4. r = [s EXCEPT !.recvChain = chain, !.nr = until, !.skipped = kept \cup fresh]
      BY <1>3, Zenon DEF SkipTo
    <2> HIDE DEF chain, kept, fresh, r
    <2>5. /\ r \in Session
          /\ r.root = s.root /\ r.self = s.self /\ r.remote = s.remote
          /\ r.sendChain = s.sendChain /\ r.ns = s.ns
      BY <2>2, <2>3, <2>4 DEF Session
    <2>6. QED BY <2>5 DEF r
  <1>4. QED BY <1>2, <1>3

Branched(r, s, remote) ==
  \E start \in RootKey, before \in RootKey :
    /\ before = Append(start, Agree(s.self, remote))
    /\ r.sendChain.root = Append(before, Agree(r.self, remote))

\* dh_ratchet_step draws a key pair and branches the new sending chain off it.
LEMMA StepType ==
  ASSUME minted \in [Devices -> Nat], NEW s \in Session, NEW remote \in PublicKey
  PROVE  LET r == DhRatchetStep(s, remote)
         IN  /\ r \in Session
             /\ r.self = FreshKey(s.self) /\ r.ns = 0
             /\ r.sendChain.step = 0 /\ r.sendChain \in ChainKey
             /\ Branched(r, s, remote)
  <1> DEFINE one == KdfRk(s.root, Agree(s.self, remote))
             two == KdfRk(one, Agree(FreshKey(s.self), remote))
             r == DhRatchetStep(s, remote)
  <1>1. s.root \in RootKey /\ s.self \in PublicKey
    BY DEF Session
  <1>2. FreshKey(s.self) \in PublicKey
    BY <1>1, FreshKeyType
  <1>3. one \in RootKey /\ one = Append(s.root, Agree(s.self, remote))
    BY <1>1, KdfRkType
  <1>4. two \in RootKey /\ two = Append(one, Agree(FreshKey(s.self), remote))
    BY <1>2, <1>3, KdfRkType
  <1>5. r = [s EXCEPT !.pn = s.ns, !.ns = 0, !.nr = 0, !.remote = remote,
                      !.self = FreshKey(s.self), !.recvChain = ChainOf(one),
                      !.sendChain = ChainOf(two), !.root = two]
    BY DEF DhRatchetStep
  <1>6. /\ ChainOf(one) \in ChainKey /\ ChainOf(two) \in ChainKey
        /\ ChainOf(two).root = two /\ ChainOf(two).step = 0
    BY <1>3, <1>4, ChainOfType
  <1> HIDE DEF one, two, r
  <1>7. /\ r \in Session /\ r.self = FreshKey(s.self) /\ r.ns = 0 /\ r.sendChain = ChainOf(two)
    <2> DEFINE a == FreshKey(s.self)
               b == ChainOf(one)
               c == ChainOf(two)
    <2>1. /\ a \in PublicKey /\ b \in ChainKey /\ c \in ChainKey /\ two \in RootKey
          /\ r = [s EXCEPT !.pn = s.ns, !.ns = 0, !.nr = 0, !.remote = remote,
                           !.self = a, !.recvChain = b, !.sendChain = c, !.root = two]
      BY <1>2, <1>4, <1>5, <1>6
    <2> HIDE DEF a, b, c
    <2>2. r \in Session /\ r.self = a /\ r.ns = 0 /\ r.sendChain = c
      BY <2>1 DEF Session
    <2> QED BY <2>2 DEF a, c
  <1>8. QED
    BY <1>1, <1>3, <1>4, <1>6, <1>7 DEF r, Branched

LEMMA KeyTakenType ==
  ASSUME NEW c \in Session
  PROVE  LET r == KeyTaken(c)
         IN  r \in Session /\ r.self = c.self /\ r.sendChain = c.sendChain /\ r.ns = c.ns
  <1> DEFINE b == KdfCk(c.recvChain, 1)
             k == c.nr + 1
             r == KeyTaken(c)
  <1>1. b \in ChainKey
    <2>1. c.recvChain \in ChainKey /\ 1 \in Nat
      BY DEF Session
    <2>2. QED BY <2>1, KdfCkType
  <1>2. k \in Nat
    BY DEF Session
  <1>3. r = [c EXCEPT !.recvChain = b, !.nr = k]
    BY DEF KeyTaken
  <1> HIDE DEF b, k, r
  <1>4. r \in Session /\ r.self = c.self /\ r.sendChain = c.sendChain /\ r.ns = c.ns
    BY <1>1, <1>2, <1>3 DEF Session
  <1>5. QED BY <1>4 DEF r

\* decrypt either leaves the sending side of the session alone or gives it a
\* new key pair and a chain that branches off it.
LEMMA OpenedType ==
  ASSUME minted \in [Devices -> Nat], NEW s \in Session, NEW m \in Message
  PROVE  LET r == Opened(s, m)
         IN  /\ r \in Session
             /\ \/ r.self = s.self /\ r.sendChain = s.sendChain /\ r.ns = s.ns
                \/ /\ r.self = FreshKey(s.self) /\ r.ns = 0
                   /\ r.sendChain.step = 0 /\ Branched(r, s, m.dh)
  <1> DEFINE r == Opened(s, m)
             Same(t) == t.self = s.self /\ t.sendChain = s.sendChain /\ t.ns = s.ns
             Moved(t) == /\ t.self = FreshKey(s.self) /\ t.ns = 0
                         /\ t.sendChain.step = 0 /\ Branched(t, s, m.dh)
             Fine(t) == t \in Session /\ (Same(t) \/ Moved(t))
  <1>1. m.dh \in PublicKey /\ m.n \in Nat /\ m.pn \in Nat
    BY DEF Message
  <1>2. CASE OpensFromStore(s, m)
    <2>1. r = [s EXCEPT !.skipped = s.skipped \ StoredKeys(s, m)]
      BY <1>2 DEF Opened, KeyRemoved
    <2> HIDE DEF r
    <2>2. r \in Session /\ Same(r)
      BY <2>1 DEF Session
    <2>3. QED BY <2>2 DEF r
  <1>3. CASE ~OpensFromStore(s, m)
    <2> DEFINE old == OldChainStashed(s, m)
               on == OnChain(s, m)
               at == Positioned(s, m)
    <2>1. /\ old \in Session
          /\ old.self = s.self
      <3>1. (IF s.remote = NoKey THEN m.dh ELSE s.remote) \in PublicKey
        BY <1>1 DEF Session
      <3>2. QED BY <3>1, <1>1, SkipToType DEF OldChainStashed
    <2>2. Fine(on)
      <3>1. CASE NeedsStep(s, m)
        <4>1. on = DhRatchetStep(old, m.dh)
          BY <3>1 DEF OnChain
        <4> HIDE DEF old, on
        <4>2. /\ on \in Session /\ on.self = FreshKey(s.self) /\ on.ns = 0
              /\ on.sendChain.step = 0 /\ Branched(on, old, m.dh)
          BY <4>1, <2>1, <1>1, StepType
        <4>3. Branched(on, s, m.dh)
          BY <4>2, <2>1 DEF Branched
        <4>4. QED BY <4>2, <4>3
      <3>2. CASE ~NeedsStep(s, m)
        BY <3>2 DEF OnChain
      <3>3. QED BY <3>1, <3>2
    <2>3. Fine(at)
      <3>1. at = SkipTo(on, m.dh, m.n)
        BY DEF Positioned
      <3> HIDE DEF on, at
      <3>2. at \in Session /\ at.self = on.self /\ at.sendChain = on.sendChain /\ at.ns = on.ns
        BY <3>1, <2>2, <1>1, SkipToType
      <3>3. QED BY <3>2, <2>2 DEF Branched
    <2>4. r = KeyTaken(at)
      BY <1>3 DEF Opened
    <2> HIDE DEF at, r
    <2>5. r \in Session /\ r.self = at.self /\ r.sendChain = at.sendChain /\ r.ns = at.ns
      BY <2>3, <2>4, KeyTakenType
    <2>6. Fine(r)
      BY <2>3, <2>5 DEF Branched
    <2>7. QED BY <2>6 DEF r
  <1>4. QED BY <1>2, <1>3

LEMMA SealedType ==
  ASSUME NEW s \in Session, s.sendChain # NoKey
  PROVE  /\ SealedBy(s) \in Message
         /\ SealedBy(s).dh = s.self /\ SealedBy(s).n = s.ns /\ SealedBy(s).key = s.sendChain
         /\ AfterEncrypt(s) \in Session
         /\ AfterEncrypt(s).self = s.self /\ AfterEncrypt(s).ns = s.ns + 1
         /\ AfterEncrypt(s).sendChain # NoKey
         /\ AfterEncrypt(s).sendChain.root = s.sendChain.root
         /\ AfterEncrypt(s).sendChain.step = s.sendChain.step + 1
  <1> DEFINE a == s.sendChain
             b == KdfCk(a, 1)
             k == s.ns + 1
             r == AfterEncrypt(s)
  <1>1. a \in ChainKey /\ k \in Nat
    BY DEF Session
  <1>2. r = [s EXCEPT !.sendChain = b, !.ns = k]
    BY DEF AfterEncrypt
  <1>3. /\ SealedBy(s) \in Message
        /\ SealedBy(s).dh = s.self /\ SealedBy(s).n = s.ns /\ SealedBy(s).key = a
    BY <1>1 DEF SealedBy, Message, Session
  <1> HIDE DEF a
  <1>4. b \in ChainKey /\ b.root = a.root /\ b.step = a.step + 1
    <2>1. 1 \in Nat
      OBVIOUS
    <2>2. KdfCk(a, 1) \in ChainKey
          /\ KdfCk(a, 1) = [root |-> a.root, label |-> a.label, step |-> a.step + 1]
      BY <1>1, <2>1, KdfCkType
    <2>3. QED BY <2>2
  <1>5. b # NoKey
    BY <1>4, NoneFacts
  <1> HIDE DEF b, k, r
  <1>6. r \in Session /\ r.self = s.self /\ r.ns = k /\ r.sendChain = b
    BY <1>1, <1>2, <1>4 DEF Session
  <1>7. QED BY <1>3, <1>4, <1>5, <1>6 DEF a, k, r

LEMMA HandshakeType ==
  ASSUME NEW k \in PublicKey, NEW d \in Devices
  PROVE  /\ SignedPrekey(d) \in PublicKey /\ SignedPrekey(d)[1] = d /\ SignedPrekey(d)[2] = 0
         /\ Handshake(k, d) \in RootKey
  <1>1. SignedPrekey(d) \in PublicKey /\ SignedPrekey(d)[1] = d /\ SignedPrekey(d)[2] = 0
    BY DEF SignedPrekey, PublicKey
  <1>2. {k, SignedPrekey(d)} \in SUBSET PublicKey
    BY <1>1
  <1>3. QED BY <1>1, <1>2 DEF Handshake, RootKey

LEMMA InitiatorType ==
  ASSUME NEW h \in RootKey, NEW self \in PublicKey, NEW remote \in PublicKey
  PROVE  LET s == InitInitiator(h, self, remote)
         IN  /\ s \in Session /\ s.self = self /\ s.ns = 0 /\ s.pn = 0
             /\ s.sendChain \in ChainKey /\ s.sendChain.step = 0
             /\ s.sendChain = ChainOf(KdfRk(h, Agree(self, remote)))
             /\ s.sendChain.root = Append(h, Agree(self, remote))
  <1> DEFINE root == KdfRk(h, Agree(self, remote))
             chain == ChainOf(root)
             back == HandshakeChain(h, "chain-b-to-a")
             s == InitInitiator(h, self, remote)
  <1>1. root \in RootKey /\ root = Append(h, Agree(self, remote))
    BY KdfRkType
  <1>2. chain \in ChainKey /\ chain.root = root /\ chain.step = 0
    BY <1>1, ChainOfType
  <1>3. back \in ChainKey
    BY DEF HandshakeChain, ChainKey, Label
  <1>4. s = [root |-> root, self |-> self, remote |-> remote, sendChain |-> chain,
             recvChain |-> back, ns |-> 0, nr |-> 0, pn |-> 0, skipped |-> {}]
    BY DEF InitInitiator
  <1> HIDE DEF root, chain, back, s
  <1>5. s \in Session /\ s.self = self /\ s.ns = 0 /\ s.pn = 0 /\ s.sendChain = chain
    BY <1>1, <1>2, <1>3, <1>4 DEF Session
  <1>6. QED BY <1>1, <1>2, <1>5 DEF s, chain, root

LEMMA ResponderType ==
  ASSUME NEW h \in RootKey, NEW self \in PublicKey
  PROVE  LET s == InitResponder(h, self)
         IN  /\ s \in Session /\ s.self = self /\ s.remote = NoKey /\ s.root = h
             /\ s.sendChain = NoKey /\ s.ns = 0 /\ s.nr = 0 /\ s.skipped = {}
  <1> DEFINE chain == HandshakeChain(h, "chain-a-to-b")
             s == InitResponder(h, self)
  <1>1. chain \in ChainKey
    BY DEF HandshakeChain, ChainKey, Label
  <1>2. s = [root |-> h, self |-> self, remote |-> NoKey, sendChain |-> NoKey,
             recvChain |-> chain, ns |-> 0, nr |-> 0, pn |-> 0, skipped |-> {}]
    BY DEF InitResponder
  <1> HIDE DEF chain, s
  <1>3. /\ s \in Session /\ s.self = self /\ s.remote = NoKey /\ s.root = h
        /\ s.sendChain = NoKey /\ s.ns = 0 /\ s.nr = 0 /\ s.skipped = {}
    BY <1>1, <1>2 DEF Session
  <1>4. QED BY <1>3 DEF s

\* The responder's session opens the message its bootstrap came with.
LEMMA BootstrapOpens ==
  ASSUME minted \in [Devices -> Nat],
         NEW e \in Envelope, FirstOfSession(e), e.boot # NoKey
  PROVE  Opens(InitResponder(Handshake(e.boot, e.to), SignedPrekey(e.to)), e.wire)
  <1> DEFINE h == Handshake(e.boot, e.to)
             theirs == SignedPrekey(e.to)
             s == InitResponder(h, theirs)
             m == e.wire
  <1>1. e.boot \in PublicKey /\ e.to \in Devices /\ m \in Message
    BY DEF Envelope
  <1>2. h \in RootKey /\ theirs \in PublicKey
    BY <1>1, HandshakeType
  <1>3. PICK k \in PublicKey : m = SealedBy(InitInitiator(h, k, theirs))
    BY DEF FirstOfSession
  <1> HIDE DEF h, theirs, s, m
  <1>4. /\ m.dh = k /\ m.n = 0 /\ m.pn = 0
        /\ m.key = ChainOf(KdfRk(h, Agree(k, theirs)))
    <2> DEFINE i == InitInitiator(h, k, theirs)
    <2>1. /\ i \in Session /\ i.self = k /\ i.ns = 0 /\ i.pn = 0
          /\ i.sendChain = ChainOf(KdfRk(h, Agree(k, theirs)))
      BY <1>2, InitiatorType
    <2>2. m = SealedBy(i)
      BY <1>3
    <2> HIDE DEF i
    <2>3. QED BY <2>1, <2>2 DEF SealedBy
  <1>5. /\ s \in Session /\ s.self = theirs /\ s.remote = NoKey /\ s.root = h
        /\ s.nr = 0 /\ s.skipped = {}
    BY <1>2, ResponderType DEF s
  <1>6. StoredKeys(s, m) = {}
    BY <1>5 DEF StoredKeys
  <1>7. NeedsStep(s, m)
    BY <1>4, <1>5, NoneFacts DEF NeedsStep
  <1>8. MaySkipTo(s, m.pn)
    BY <1>4, <1>5, BoundsAssumption DEF MaySkipTo
  <1>9. OldChainStashed(s, m) = s
    BY <1>4, <1>5 DEF OldChainStashed, SkipTo
  <1>10. OnChain(s, m) = DhRatchetStep(s, k)
    BY <1>4, <1>7, <1>9 DEF OnChain
  <1>11. /\ DhRatchetStep(s, k).nr = 0
         /\ DhRatchetStep(s, k).recvChain = ChainOf(KdfRk(h, Agree(theirs, k)))
    <2> DEFINE one == KdfRk(h, Agree(theirs, k))
               two == KdfRk(one, Agree(FreshKey(theirs), k))
               a == ChainOf(one)
               b == ChainOf(two)
               f == FreshKey(theirs)
    <2>1. DhRatchetStep(s, k) =
            [s EXCEPT !.pn = s.ns, !.ns = 0, !.nr = 0, !.remote = k, !.self = f,
                      !.recvChain = a, !.sendChain = b, !.root = two]
      BY <1>5 DEF DhRatchetStep
    <2> HIDE DEF one, two, a, b, f
    <2>2. DhRatchetStep(s, k).nr = 0 /\ DhRatchetStep(s, k).recvChain = a
      BY <1>5, <2>1 DEF Session
    <2>3. QED BY <2>2 DEF a, one
  <1>12. Positioned(s, m) = DhRatchetStep(s, k)
    BY <1>4, <1>10, <1>11 DEF Positioned, SkipTo
  <1>13. Agree(theirs, k) = Agree(k, theirs)
    BY DEF Agree
  <1>14. MaySkipTo(OnChain(s, m), m.n) /\ m.n >= OnChain(s, m).nr
    BY <1>4, <1>10, <1>11, BoundsAssumption DEF MaySkipTo
  <1>15. Positioned(s, m).recvChain = m.key
    BY <1>4, <1>11, <1>12, <1>13
  <1>16. OpensFromChain(s, m)
    BY <1>6, <1>8, <1>14, <1>15 DEF OpensFromChain
  <1>17. QED BY <1>16 DEF Opens, s, m, h, theirs

-----------------------------------------------------------------------------
(* What is sent, and what is read.                                         *)

LEMMA TypeFacts ==
  ASSUME TypeOK
  PROVE  /\ minted \in [Devices -> Nat]
         /\ Len(made) \in Nat
         /\ \A i \in 1 .. Len(made) : made[i] \in Envelope
         /\ \A d \in Devices : conversation[d] \in Conversation
         /\ \A d, p \in Devices : stored[d][p] \in Session \cup {NoSession}
  BY DEF TypeOK

LEMMA ConversationFacts ==
  ASSUME TypeOK, NEW d \in Devices
  PROVE  /\ conversation[d].session \in Session \cup {NoSession}
         /\ conversation[d] # Closed => conversation[d].peer \in Devices
         /\ conversation[d].session # NoSession => conversation[d].peer \in Devices
         /\ conversation[d].peer \in Devices \cup {NoDevice}
  <1>1. conversation[d] \in Conversation
    BY TypeFacts
  <1>2. QED BY <1>1 DEF Conversation, Closed

\* make_outgoing_packet, and make_initial_outgoing_packet.
Continues(d, e, after) ==
  LET s == conversation[d].session
  IN  /\ s # NoSession /\ s.sendChain # NoKey
      /\ e.boot = NoKey /\ e.wire = SealedBy(s) /\ after = AfterEncrypt(s)

Begins(d, e, after) ==
  LET s == InitInitiator(Handshake(e.boot, e.to), after.self, SignedPrekey(e.to))
  IN  /\ e.boot = <<d, minted[d] + 1>> /\ minted[d] < minted'[d]
      /\ e.wire = SealedBy(s) /\ after = AfterEncrypt(s)

\* The envelope e, and the session left when it is sealed, as send_payload
\* gets them from either kind of packet.
Sealed(d, e, after) ==
  /\ Continues(d, e, after) \/ Begins(d, e, after)
  /\ e \in Envelope /\ after \in Session
  /\ e.from = d /\ e.to = conversation[d].peer /\ e.to # d
  /\ after.self = e.wire.dh /\ after.ns = e.wire.n + 1
  /\ minted' \in [Devices -> Nat] /\ minted[d] <= minted'[d]
  /\ \A x \in Devices : x # d => minted'[x] = minted[x]
  /\ Owned(d, after, minted'[d]) /\ Keyed(e, minted'[d]) /\ FirstOfSession(e)
  /\ \/ /\ conversation[d].session # NoSession
        /\ after.self = conversation[d].session.self
        /\ e.wire.n = conversation[d].session.ns
     \/ after.self[2] > minted[d]

LEMMA NextIsSealed ==
  ASSUME TypeOK, Bookkeeping, Sessions,
         NEW d \in Devices, NEW reached \in BOOLEAN, NEW answered \in BOOLEAN,
         SendNext(d, reached, answered)
  PROVE  \E e, after :
           Sealed(d, e, after) /\ SendPayload(d, e, after, reached, answered)
  <1> DEFINE s == conversation[d].session
             p == conversation[d].peer
             e == [from |-> d, to |-> p, boot |-> NoKey, wire |-> SealedBy(s)]
             after == AfterEncrypt(s)
  <1>1. /\ s \in Session /\ s # NoSession /\ s.sendChain # NoKey /\ p \in Devices /\ p # d
        /\ minted' = minted /\ SendPayload(d, e, after, reached, answered)
    BY ConversationFacts DEF SendNext, MaySend, Bookkeeping, Polled
  <1>2. Owned(d, s, minted[d])
    BY <1>1 DEF Sessions
  <1> HIDE DEF s, p
  <1>3. /\ SealedBy(s) \in Message
        /\ SealedBy(s).dh = s.self /\ SealedBy(s).n = s.ns /\ SealedBy(s).key = s.sendChain
        /\ after \in Session
        /\ after.self = s.self /\ after.ns = s.ns + 1
        /\ after.sendChain # NoKey
        /\ after.sendChain.root = s.sendChain.root
        /\ after.sendChain.step = s.sendChain.step + 1
    BY <1>1, SealedType
  <1>4. e \in Envelope /\ e.from = d /\ e.to = p /\ e.boot = NoKey /\ e.wire = SealedBy(s)
    BY <1>1, <1>3 DEF Envelope
  <1> HIDE DEF e, after
  <1>5. Owned(d, after, minted[d])
    BY <1>2, <1>3, <1>1 DEF Owned
  <1>6. Keyed(e, minted[d])
    BY <1>2, <1>3, <1>4, <1>1 DEF Owned, Keyed
  <1>7. FirstOfSession(e)
    BY <1>4 DEF FirstOfSession
  <1>8. minted \in [Devices -> Nat] /\ minted[d] <= minted[d]
    BY TypeFacts
  <1>9. Continues(d, e, after)
    BY <1>1, <1>4 DEF Continues, s, after
  <1>10. Sealed(d, e, after)
    BY <1>1, <1>3, <1>4, <1>5, <1>6, <1>7, <1>8, <1>9 DEF Sealed, s, p
  <1>11. QED BY <1>1, <1>10

LEMMA FirstIsSealed ==
  ASSUME TypeOK, Bookkeeping, Sessions,
         NEW d \in Devices, NEW reached \in BOOLEAN, NEW answered \in BOOLEAN,
         SendFirst(d, reached, answered)
  PROVE  \E e, after :
           Sealed(d, e, after) /\ SendPayload(d, e, after, reached, answered)
  <1> DEFINE p == conversation[d].peer
             ephemeral == <<d, minted[d] + 1>>
             self == <<d, minted[d] + 2>>
             h == Handshake(ephemeral, p)
             s == InitInitiator(h, self, SignedPrekey(p))
             e == [from |-> d, to |-> p, boot |-> ephemeral, wire |-> SealedBy(s)]
             after == AfterEncrypt(s)
  <1>1. /\ p \in Devices /\ p # d
        /\ minted' = [minted EXCEPT ![d] = @ + 2]
        /\ SendPayload(d, e, after, reached, answered)
    BY ConversationFacts DEF SendFirst, MaySend, Bookkeeping, Polled
  <1>2. minted \in [Devices -> Nat] /\ minted[d] \in Nat
    BY TypeFacts
  <1>3. ephemeral \in PublicKey /\ self \in PublicKey /\ self[1] = d /\ self[2] = minted[d] + 2
    BY <1>2 DEF PublicKey
  <1> HIDE DEF ephemeral, self, p
  <1>4. /\ SignedPrekey(p) \in PublicKey /\ SignedPrekey(p)[1] = p /\ SignedPrekey(p)[2] = 0
        /\ h \in RootKey
    BY <1>1, <1>3, HandshakeType
  <1> HIDE DEF h
  <1>5. /\ s \in Session /\ s.self = self /\ s.ns = 0
        /\ s.sendChain \in ChainKey /\ s.sendChain.step = 0
        /\ s.sendChain.root = Append(h, Agree(self, SignedPrekey(p)))
    BY <1>3, <1>4, InitiatorType
  <1>6. s.sendChain # NoKey
    BY <1>5, NoneFacts
  <1> HIDE DEF s
  <1>7. /\ SealedBy(s) \in Message
        /\ SealedBy(s).dh = s.self /\ SealedBy(s).n = s.ns /\ SealedBy(s).key = s.sendChain
        /\ after \in Session
        /\ after.self = s.self /\ after.ns = s.ns + 1
        /\ after.sendChain # NoKey
        /\ after.sendChain.root = s.sendChain.root
        /\ after.sendChain.step = s.sendChain.step + 1
    BY <1>5, <1>6, SealedType
  <1>8. /\ e \in Envelope /\ e.from = d /\ e.to = p /\ e.boot = ephemeral
        /\ e.wire = SealedBy(s)
    BY <1>1, <1>3, <1>7 DEF Envelope
  <1> HIDE DEF e, after
  <1>9. BranchesFrom(s.sendChain.root, self, d)
    BY <1>1, <1>4, <1>5 DEF BranchesFrom
  <1>10. minted' \in [Devices -> Nat] /\ minted'[d] = minted[d] + 2
         /\ \A x \in Devices : x # d => minted'[x] = minted[x]
    BY <1>1, <1>2
  <1>11. Owned(d, after, minted'[d])
    BY <1>2, <1>3, <1>5, <1>7, <1>9, <1>10 DEF Owned
  <1>12. Keyed(e, minted'[d])
    <2>1. e.wire.dh = self /\ e.wire.n = 0 /\ e.wire.key = s.sendChain
      BY <1>5, <1>7, <1>8
    <2>2. e.wire.dh[1] = e.from /\ e.wire.dh[2] > 0 /\ e.wire.dh[2] <= minted'[d]
      BY <2>1, <1>2, <1>3, <1>8, <1>10
    <2>3. e.wire.key.step = e.wire.n /\ BranchesFrom(e.wire.key.root, e.wire.dh, e.from)
      BY <2>1, <1>5, <1>8, <1>9
    <2>4. QED BY <2>2, <2>3 DEF Keyed
  <1>13. FirstOfSession(e)
    BY <1>3, <1>8 DEF FirstOfSession, s, h
  <1>14. after.self = e.wire.dh /\ after.ns = e.wire.n + 1 /\ after.self[2] > minted[d]
    BY <1>2, <1>3, <1>5, <1>7, <1>8
  <1>15. minted[d] <= minted'[d]
    BY <1>2, <1>10
  <1>16. Begins(d, e, after)
    <2>1. after.self = self
      BY <1>5, <1>7
    <2>2. minted[d] < minted'[d]
      BY <1>2, <1>10
    <2> QED BY <1>8, <2>1, <2>2 DEF Begins, s, h, ephemeral, after
  <1>17. Sealed(d, e, after)
    BY <1>1, <1>7, <1>8, <1>10, <1>11, <1>12, <1>13, <1>14, <1>15, <1>16 DEF Sealed, p
  <1>18. QED BY <1>1, <1>17

-----------------------------------------------------------------------------
(* Sending keeps the invariant.                                            *)

\* d makes the message id; either its send is answered, and the tables follow,
\* or it is not, and an item of the outbox keeps it.
MadeAs(e, id, reached) ==
  /\ id \in Ids /\ id \notin 1 .. Len(made)
  /\ made' \in Seq(Envelope) /\ Len(made') = id
  /\ 1 .. Len(made') = 1 .. Len(made) \cup {id}
  /\ made'[id] = e
  /\ \A i \in 1 .. Len(made) : made'[i] = made[i]
  /\ queue' = IF reached THEN queue \cup {id} ELSE queue
  /\ batch' = batch /\ acks' = acks /\ restarts' = restarts /\ processed' = processed

Filed(d, e, id, after) ==
  /\ unanswered' = unanswered
  /\ history' = [history EXCEPT ![d][id] = @ + 1]
  /\ stored' = [stored EXCEPT ![d][e.to] = after]
  /\ outbox' = [outbox EXCEPT ![d] = OutboxWithout(d, id)]
  /\ conversation' = [conversation EXCEPT ![d] = [peer |-> e.to, session |-> after]]

Kept(d, id, after) ==
  /\ unanswered' = unanswered \cup {id}
  /\ history' = history /\ stored' = stored /\ conversation' = conversation
  /\ outbox' = [outbox EXCEPT ![d] = @ \cup {[id |-> id, after |-> after]}]

Sends(d, e, id, after, reached) ==
  /\ Sealed(d, e, after)
  /\ MadeAs(e, id, reached)
  /\ (Filed(d, e, id, after) /\ reached) \/ Kept(d, id, after)

LEMMA SendEffect ==
  ASSUME TypeOK, Bookkeeping, NEW d \in Devices, NEW reached \in BOOLEAN, NEW answered \in BOOLEAN,
         NEW e, NEW after, Sealed(d, e, after),
         MaySend(d, reached, answered), SendPayload(d, e, after, reached, answered)
  PROVE  \E id : Sends(d, e, id, after, reached)
  <1> DEFINE l == Len(made)
             id == l + 1
  <1>1. l \in Nat /\ l < MaxMade /\ MaxMade \in Nat
    BY TypeFacts, BoundsAssumption DEF MaySend
  <1>2. id \in Ids /\ id \notin 1 .. l /\ 1 .. id = 1 .. l \cup {id}
    BY <1>1 DEF Ids
  <1>3. made \in Seq(Envelope) /\ e \in Envelope /\ made' = Append(made, e)
    BY DEF TypeOK, Sealed, SendPayload
  <1>4. /\ made' \in Seq(Envelope) /\ Len(made') = id
        /\ made'[id] = e /\ \A i \in 1 .. l : made'[i] = made[i]
    BY <1>3
  <1>5. /\ queue' = IF reached THEN queue \cup {id} ELSE queue
        /\ batch' = batch /\ acks' = acks /\ restarts' = restarts
    BY DEF SendPayload, Enqueued
  <1>6. ASSUME answered
        PROVE  reached /\ processed' = processed /\ Filed(d, e, id, after)
    <2>1. CommitOutgoing(d, id, after) /\ SessionTaken(d, after) /\ unanswered' = unanswered
      BY <1>6 DEF SendPayload
    <2>2. reached
      BY <1>6 DEF MaySend
    <2>3. made'[id].to = e.to
      BY <1>4
    <2>4. conversation' = [conversation EXCEPT ![d] = [peer |-> e.to, session |-> after]]
      <3>1. conversation[d] \in Conversation /\ e.to = conversation[d].peer
        BY TypeFacts DEF Sealed
      <3>2. [conversation[d] EXCEPT !.session = after] = [peer |-> e.to, session |-> after]
        BY <3>1 DEF Conversation
      <3>3. QED BY <2>1, <3>2, Zenon DEF SessionTaken
    <2> HIDE DEF id
    <2>5. QED
      BY <2>1, <2>2, <2>3, <2>4, Zenon DEF CommitOutgoing, SessionSaved, Filed
  <1>7. ASSUME ~answered
        PROVE  processed' = processed /\ Kept(d, id, after)
    BY <1>7, Zenon DEF SendPayload, Kept
  <1>8. processed' = processed /\ ((Filed(d, e, id, after) /\ reached) \/ Kept(d, id, after))
    BY <1>6, <1>7
  <1>9. MadeAs(e, id, reached)
    <2> HIDE DEF id
    <2>1. QED BY <1>2, <1>4, <1>5, <1>8 DEF MadeAs, l
  <1>10. QED BY <1>8, <1>9, Zenon DEF Sends

LEMMA SendKeepsType ==
  ASSUME TypeOK, NEW d \in Devices, NEW reached \in BOOLEAN,
         NEW e, NEW after, NEW id, Sends(d, e, id, after, reached)
  PROVE  TypeOK'
  <1> DEFINE item == [id |-> id, after |-> after]
  <1>1. MadeAs(e, id, reached) /\ Sealed(d, e, after)
    BY DEF Sends
  <1>2. /\ id \in Ids /\ e \in Envelope /\ after \in Session /\ e.to = conversation[d].peer
        /\ minted' \in [Devices -> Nat]
    BY <1>1 DEF MadeAs, Sealed
  <1>3. /\ made' \in Seq(Envelope) /\ queue' \subseteq Ids
        /\ batch' = batch /\ acks' = acks /\ restarts' = restarts /\ processed' = processed
    BY <1>1, <1>2 DEF MadeAs, TypeOK
  <1>4. ASSUME Filed(d, e, id, after)
        PROVE  /\ conversation' \in [Devices -> Conversation]
               /\ stored' \in [Devices -> [Devices -> Session \cup {NoSession}]]
               /\ outbox' \in [Devices -> SUBSET OutboxItem]
               /\ history' \in [Devices -> [Ids -> Nat]]
               /\ unanswered' \subseteq Ids
    <2> DEFINE row == [stored[d] EXCEPT ![e.to] = after]
               c == [peer |-> e.to, session |-> after]
               rest == OutboxWithout(d, id)
               line == [history[d] EXCEPT ![id] = @ + 1]
    <2>1. /\ stored' = [stored EXCEPT ![d] = row]
          /\ conversation' = [conversation EXCEPT ![d] = c]
          /\ outbox' = [outbox EXCEPT ![d] = rest]
          /\ history' = [history EXCEPT ![d] = line]
          /\ unanswered' = unanswered
      BY <1>4 DEF Filed
    <2>2. row \in [Devices -> Session \cup {NoSession}]
      BY <1>2 DEF TypeOK
    <2>3. c \in Conversation
      BY <1>2 DEF Conversation, Envelope
    <2>4. rest \subseteq OutboxItem
      BY DEF OutboxWithout, TypeOK
    <2>5. line \in [Ids -> Nat]
      BY <1>2 DEF TypeOK
    <2> HIDE DEF row, c, rest, line
    <2>6. QED BY <2>1, <2>2, <2>3, <2>4, <2>5 DEF TypeOK
  <1>5. ASSUME Kept(d, id, after)
        PROVE  /\ conversation' \in [Devices -> Conversation]
               /\ stored' \in [Devices -> [Devices -> Session \cup {NoSession}]]
               /\ outbox' \in [Devices -> SUBSET OutboxItem]
               /\ history' \in [Devices -> [Ids -> Nat]]
               /\ unanswered' \subseteq Ids
    <2>1. item \in OutboxItem
      BY <1>2 DEF OutboxItem
    <2>2. /\ conversation' = conversation /\ stored' = stored /\ history' = history
          /\ unanswered' = unanswered \cup {id}
          /\ outbox' = [outbox EXCEPT ![d] = outbox[d] \cup {item}]
      BY <1>5 DEF Kept
    <2> HIDE DEF item
    <2>3. QED BY <1>2, <2>1, <2>2 DEF TypeOK
  <1>6. QED
    BY <1>2, <1>3, <1>4, <1>5 DEF TypeOK, Sends

LEMMA AcceptedFacts ==
  ASSUME Numbered, NEW k \in 1 .. Len(made)
  PROVE  k \in accepted <=> k \in queue \/ history[made[k].to][k] > 0
  BY DEF Numbered, accepted, shown, written, Ids

LEMMA SendKeepsBooks ==
  ASSUME TypeOK, Bookkeeping, NEW d \in Devices, NEW reached \in BOOLEAN,
         NEW e, NEW after, NEW id, Sends(d, e, id, after, reached)
  PROVE  Bookkeeping'
  <1>1. /\ MadeAs(e, id, reached) /\ Sealed(d, e, after)
        /\ (Filed(d, e, id, after) /\ reached) \/ Kept(d, id, after)
    BY DEF Sends
  <1>2. /\ id \in Ids /\ id \notin 1 .. Len(made)
        /\ 1 .. Len(made') = 1 .. Len(made) \cup {id}
        /\ made'[id] = e /\ \A i \in 1 .. Len(made) : made'[i] = made[i]
        /\ queue' = IF reached THEN queue \cup {id} ELSE queue
        /\ batch' = batch /\ acks' = acks /\ processed' = processed
    BY <1>1 DEF MadeAs
  <1>3. e.from = d /\ e.to = conversation[d].peer /\ e.to # d /\ e.to \in Devices
    BY <1>1 DEF Sealed, Envelope
  <1>4. Numbered /\ 1 .. Len(made) \subseteq Ids /\ queue \subseteq 1 .. Len(made)
    BY DEF Bookkeeping, Numbered
  <1>5. unanswered \subseteq unanswered' /\ unanswered' \subseteq unanswered \cup {id}
    BY <1>1 DEF Filed, Kept
  <1>6. \A x \in Devices, k \in Ids : ~(x = d /\ k = id) => history'[x][k] = history[x][k]
    BY <1>1, <1>2 DEF Filed, Kept, TypeOK
  <1>7. Numbered'
    BY <1>2, <1>3, <1>4, <1>5 DEF Bookkeeping, Numbered
  <1>8. \A k \in 1 .. Len(made) : k \in accepted => k \in accepted'
    <2> TAKE k \in 1 .. Len(made)
    <2>1. k \in 1 .. Len(made') /\ made'[k] = made[k] /\ made[k].to \in Devices
      BY <1>2, TypeFacts DEF Envelope
    <2>2. history'[made[k].to][k] = history[made[k].to][k] /\ queue \subseteq queue'
      BY <1>2, <1>4, <1>6, <2>1
    <2>3. k \in accepted' <=> k \in queue' \/ history'[made'[k].to][k] > 0
      BY <1>7, <2>1 DEF Numbered, accepted, shown, written, Ids
    <2>4. QED BY <1>4, <2>1, <2>2, <2>3, AcceptedFacts
  <1>9. ASSUME NEW x \in Devices
        PROVE  (Polled(x) /\ Waiting(x) /\ Recorded(x))'
    <2>1. Polled(x) /\ Waiting(x) /\ Recorded(x)
      BY DEF Bookkeeping
    <2>2. Polled(x)'
      <3>1. conversation'[x].peer = conversation[x].peer
        <4>1. CASE Filed(d, e, id, after)
          <5> DEFINE c == [peer |-> e.to, session |-> after]
          <5>1. conversation' = [conversation EXCEPT ![d] = c] /\ c.peer = conversation[d].peer
            BY <1>3, <4>1 DEF Filed
          <5> HIDE DEF c
          <5>2. QED BY <5>1 DEF TypeOK
        <4>2. CASE Kept(d, id, after)
          BY <4>2 DEF Kept
        <4>3. QED BY <1>1, <4>1, <4>2
      <3>2. AddressedTo(x) \subseteq AddressedTo(x)'
        BY <1>2, <1>4 DEF AddressedTo
      <3>3. QED BY <1>2, <2>1, <3>1, <3>2 DEF Polled
    <2>3. Waiting(x)'
      <3>1. ASSUME NEW item \in outbox'[x], item \in outbox[x]
            PROVE  item.id \in unanswered' /\ made'[item.id].from = x /\ history'[x][item.id] = 0
        <4>1. item.id \in 1 .. Len(made) /\ made[item.id].from = x /\ history[x][item.id] = 0
              /\ item.id \in unanswered
          BY <2>1, <3>1 DEF Waiting, Bookkeeping, Numbered
        <4>2. QED BY <1>2, <1>4, <1>5, <1>6, <4>1
      <3>2. ASSUME NEW item \in outbox'[x], item \notin outbox[x]
            PROVE  item.id \in unanswered' /\ made'[item.id].from = x /\ history'[x][item.id] = 0
        <4>1. Kept(d, id, after) /\ x = d /\ item.id = id
          BY <1>1, <3>2 DEF Filed, Kept, OutboxWithout, TypeOK
        <4>2. history'[d][id] = 0 /\ unanswered' = unanswered \cup {id}
          BY <1>2, <2>1, <4>1 DEF Kept, Recorded
        <4>3. QED BY <1>2, <1>3, <4>1, <4>2
      <3>3. QED BY <3>1, <3>2 DEF Waiting
    <2>4. Recorded(x)'
      <3>1. ASSUME NEW k \in Ids, k # id
            PROVE  /\ k \notin 1 .. Len(made') => history'[x][k] = 0
                   /\ k \in 1 .. Len(made') /\ made'[k].to = x =>
                        history'[x][k] = IF k \in processed'[x] THEN 1 ELSE 0
                   /\ k \in 1 .. Len(made') /\ made'[k].from = x /\ history'[x][k] # 0 =>
                        history'[x][k] = 1 /\ k \in accepted'
        <4>1. history'[x][k] = history[x][k]
          BY <1>6, <3>1
        <4>2. QED BY <1>2, <1>8, <2>1, <3>1, <4>1 DEF Recorded
      <3>2. /\ id \in 1 .. Len(made')
            /\ made'[id].to = x => history'[x][id] = IF id \in processed'[x] THEN 1 ELSE 0
            /\ made'[id].from = x /\ history'[x][id] # 0 =>
                 history'[x][id] = 1 /\ id \in accepted'
        <4>1. history[x][id] = 0 /\ id \notin processed[x]
          BY <1>2, <2>1 DEF Recorded, Polled
        <4>2. made'[id].to = x => history'[x][id] = IF id \in processed'[x] THEN 1 ELSE 0
          BY <1>2, <1>3, <1>6, <4>1
        <4>3. ASSUME made'[id].from = x, history'[x][id] # 0
              PROVE  history'[x][id] = 1 /\ id \in accepted'
          <5>1. x = d
            BY <1>2, <1>3, <4>3
          <5>2. Filed(d, e, id, after) /\ reached
            BY <1>1, <4>1, <4>3, <5>1 DEF Kept
          <5>3. history'[d][id] = 1
            BY <1>2, <4>1, <5>1, <5>2 DEF Filed, TypeOK
          <5>4. id \in accepted'
            BY <1>2, <5>2 DEF accepted
          <5>5. QED BY <5>1, <5>3, <5>4
        <4>4. QED BY <1>2, <4>2, <4>3
      <3>3. QED BY <3>1, <3>2 DEF Recorded
    <2>5. QED BY <2>2, <2>3, <2>4
  <1>10. QED BY <1>7, <1>9 DEF Bookkeeping

\* Key pairs are only ever added.
LEMMA OwnedLater ==
  ASSUME NEW d \in Devices, NEW s \in Session, NEW n \in Nat, NEW m \in Nat, n <= m, Owned(d, s, n)
  PROVE  Owned(d, s, m)
  <1>1. s.self[2] \in Nat
    BY DEF Session, PublicKey
  <1>2. QED BY <1>1 DEF Owned

LEMMA KeyedLater ==
  ASSUME NEW e \in Envelope, NEW n \in Nat, NEW m \in Nat, n <= m, Keyed(e, n)
  PROVE  Keyed(e, m)
  <1>1. e.wire.dh[2] \in Nat
    <2>1. e.wire.dh \in PublicKey
      BY DEF Envelope, Message
    <2>2. QED BY <2>1, KeyPair
  <1>2. QED BY <1>1 DEF Keyed

MintedGrows ==
  /\ minted \in [Devices -> Nat] /\ minted' \in [Devices -> Nat]
  /\ \A d \in Devices : minted[d] <= minted'[d]

LEMMA SealedGrows ==
  ASSUME TypeOK, NEW d \in Devices, NEW e, NEW after, Sealed(d, e, after)
  PROVE  MintedGrows
  <1>1. minted \in [Devices -> Nat] /\ minted' \in [Devices -> Nat]
    BY DEF TypeOK, Sealed
  <1>2. minted[d] <= minted'[d] /\ \A x \in Devices : x # d => minted'[x] = minted[x]
    BY DEF Sealed
  <1>3. QED BY <1>1, <1>2 DEF MintedGrows

LEMMA SessionsLater ==
  ASSUME TypeOK, Sessions, MintedGrows, NEW x \in Devices
  PROVE  /\ conversation[x].session # NoSession =>
              Owned(x, conversation[x].session, minted'[x])
         /\ \A p \in Devices : stored[x][p] # NoSession => Owned(x, stored[x][p], minted'[x])
         /\ \A item \in outbox[x] : Owned(x, item.after, minted'[x])
  <1>1. minted[x] \in Nat /\ minted'[x] \in Nat /\ minted[x] <= minted'[x]
    BY DEF MintedGrows
  <1>2. \A s \in Session : Owned(x, s, minted[x]) => Owned(x, s, minted'[x])
    BY <1>1, OwnedLater
  <1>3. conversation[x].session # NoSession => conversation[x].session \in Session
    BY ConversationFacts
  <1>4. \A p \in Devices : stored[x][p] # NoSession => stored[x][p] \in Session
    BY TypeFacts
  <1>5. \A item \in outbox[x] : item.after \in Session
    BY DEF TypeOK, OutboxItem
  <1>6. QED BY <1>2, <1>3, <1>4, <1>5 DEF Sessions

LEMMA EnvelopesLater ==
  ASSUME TypeOK, Envelopes, MintedGrows, NEW i \in 1 .. Len(made)
  PROVE  Keyed(made[i], minted'[made[i].from]) /\ FirstOfSession(made[i])
  <1>1. made[i] \in Envelope /\ made[i].from \in Devices
    BY TypeFacts DEF Envelope
  <1>2. QED BY <1>1, KeyedLater DEF Envelopes, MintedGrows

LEMMA SendKeepsSessions ==
  ASSUME TypeOK, Sessions, Envelopes, NEW d \in Devices, NEW reached \in BOOLEAN,
         NEW e, NEW after, NEW id, Sends(d, e, id, after, reached)
  PROVE  Sessions' /\ Envelopes'
  <1>1. /\ MadeAs(e, id, reached) /\ Sealed(d, e, after)
        /\ Filed(d, e, id, after) \/ Kept(d, id, after)
    BY DEF Sends
  <1>2. MintedGrows
    BY <1>1, SealedGrows
  <1>3. /\ Owned(d, after, minted'[d]) /\ Keyed(e, minted'[d]) /\ FirstOfSession(e)
        /\ e.from = d /\ e.to \in Devices
    BY <1>1 DEF Sealed, Envelope
  <1>4. Envelopes'
    <2>1. /\ 1 .. Len(made') = 1 .. Len(made) \cup {id}
          /\ made'[id] = e /\ \A i \in 1 .. Len(made) : made'[i] = made[i]
      BY <1>1 DEF MadeAs
    <2>2. \A i \in 1 .. Len(made) :
            Keyed(made[i], minted'[made[i].from]) /\ FirstOfSession(made[i])
      BY <1>2, EnvelopesLater
    <2>3. \A i \in 1 .. Len(made') :
            Keyed(made'[i], minted'[made'[i].from]) /\ FirstOfSession(made'[i])
      BY <1>3, <2>1, <2>2
    <2>4. QED BY <2>3 DEF Envelopes, Keyed, FirstOfSession, BranchesFrom
  <1>5. ASSUME NEW x \in Devices
        PROVE  /\ conversation'[x].session # NoSession =>
                    Owned(x, conversation'[x].session, minted'[x])
               /\ \A p \in Devices :
                    stored'[x][p] # NoSession => Owned(x, stored'[x][p], minted'[x])
               /\ \A item \in outbox'[x] : Owned(x, item.after, minted'[x])
    <2>1. /\ conversation'[x] = conversation[x] \/ (x = d /\ conversation'[x].session = after)
          /\ \A p \in Devices : stored'[x][p] = stored[x][p] \/ (x = d /\ stored'[x][p] = after)
          /\ \A item \in outbox'[x] : item \in outbox[x] \/ (x = d /\ item.after = after)
      <3>1. ASSUME Filed(d, e, id, after)
            PROVE  /\ conversation'[x] = conversation[x] \/ (x = d /\ conversation'[x].session = after)
                   /\ \A p \in Devices : stored'[x][p] = stored[x][p] \/ (x = d /\ stored'[x][p] = after)
                   /\ \A item \in outbox'[x] : item \in outbox[x]
        <4> DEFINE c == [peer |-> e.to, session |-> after]
        <4>1. c.session = after /\ conversation' = [conversation EXCEPT ![d] = c]
          BY <3>1 DEF Filed
        <4> HIDE DEF c
        <4>2. conversation'[x] = conversation[x] \/ (x = d /\ conversation'[x].session = after)
          BY <4>1 DEF TypeOK
        <4>3. \A p \in Devices : stored'[x][p] = stored[x][p] \/ (x = d /\ stored'[x][p] = after)
          BY <3>1 DEF Filed, TypeOK
        <4>4. \A item \in outbox'[x] : item \in outbox[x]
          BY <3>1 DEF Filed, TypeOK, OutboxWithout
        <4>5. QED BY <4>2, <4>3, <4>4
      <3>2. ASSUME Kept(d, id, after)
            PROVE  /\ conversation'[x] = conversation[x] /\ stored'[x] = stored[x]
                   /\ \A item \in outbox'[x] : item \in outbox[x] \/ (x = d /\ item.after = after)
        <4> DEFINE kept == [id |-> id, after |-> after]
        <4>1. /\ conversation' = conversation /\ stored' = stored /\ kept.after = after
              /\ outbox' = [outbox EXCEPT ![d] = outbox[d] \cup {kept}]
          BY <3>2 DEF Kept
        <4> HIDE DEF kept
        <4>2. QED BY <4>1 DEF TypeOK
      <3>3. QED BY <1>1, <3>1, <3>2
    <2>2. QED BY <1>2, <1>3, <2>1, SessionsLater
  <1>6. Sessions'
    BY <1>5 DEF Sessions
  <1>7. QED BY <1>4, <1>6

\* The session a message is sealed with is ahead of whatever its device has
\* stored or sent.
LEMMA SealedIsAhead ==
  ASSUME TypeOK, Sessions, Envelopes, NEW d \in Devices, StoreIsCurrent(d),
         NEW e, NEW after, Sealed(d, e, after)
  PROVE  /\ \A q \in Devices :
              q # e.to /\ stored[d][q] # NoSession => stored[d][q].self # after.self
         /\ \A i \in 1 .. Len(made) :
              made[i].from = d /\ made[i].wire.dh = after.self => made[i].wire.n < e.wire.n
  <1>1. e \in Envelope /\ after \in Session /\ e.to \in Devices /\ after.self = e.wire.dh
    BY DEF Sealed, Envelope
  <1>2. after.self[2] > 0
    BY <1>1 DEF Sealed, Keyed
  <1>3. ASSUME conversation[d].session # NoSession,
               after.self = conversation[d].session.self,
               e.wire.n = conversation[d].session.ns
        PROVE  /\ stored[d][e.to] # NoSession /\ stored[d][e.to].self = after.self
               /\ stored[d][e.to].ns = e.wire.n
    BY <1>3 DEF Sealed, StoreIsCurrent
  <1>4. ASSUME after.self[2] > minted[d]
        PROVE  /\ \A q \in Devices : stored[d][q] # NoSession => stored[d][q].self # after.self
               /\ \A i \in 1 .. Len(made) : made[i].from = d => made[i].wire.dh # after.self
    <2>1. minted[d] \in Nat /\ after.self[2] \in Nat
      BY <1>1, TypeFacts DEF Session, PublicKey
    <2>2. \A q \in Devices : stored[d][q] # NoSession => stored[d][q].self[2] <= minted[d]
      BY DEF Sessions, Owned
    <2>3. \A i \in 1 .. Len(made) : made[i].from = d => made[i].wire.dh[2] <= minted[d]
      BY DEF Envelopes, Keyed
    <2>4. QED BY <1>4, <2>1, <2>2, <2>3
  <1>5. CASE after.self[2] > minted[d]
    BY <1>4, <1>5
  <1>6. CASE ~(after.self[2] > minted[d])
    <2>1. /\ stored[d][e.to] # NoSession /\ stored[d][e.to].self = after.self
          /\ stored[d][e.to].ns = e.wire.n
      BY <1>3, <1>6 DEF Sealed
    <2>2. QED BY <1>1, <1>2, <2>1 DEF StoreIsCurrent
  <1>7. QED BY <1>5, <1>6

LEMMA SendKeepsCurrent ==
  ASSUME TypeOK, Bookkeeping, Sessions, Envelopes,
         \A x \in Devices : Answered(x) => Current(x),
         NEW d \in Devices, NEW reached \in BOOLEAN,
         NEW e, NEW after, NEW id, Sends(d, e, id, after, reached),
         NEW x \in Devices, Answered(x)'
  PROVE  Current(x)'
  <1>1. /\ MadeAs(e, id, reached) /\ Sealed(d, e, after)
        /\ Filed(d, e, id, after) \/ Kept(d, id, after)
    BY DEF Sends
  <1>2. /\ id \notin 1 .. Len(made)
        /\ 1 .. Len(made') = 1 .. Len(made) \cup {id}
        /\ made'[id] = e /\ \A i \in 1 .. Len(made) : made'[i] = made[i]
    BY <1>1 DEF MadeAs
  <1>3. /\ e \in Envelope /\ after \in Session /\ e.from = d /\ e.to \in Devices
        /\ after.self = e.wire.dh /\ after.ns = e.wire.n + 1 /\ e.wire.n \in Nat
    BY <1>1 DEF Sealed, Envelope, Message
  <1>4. Answered(x)
    <2>1. \A k \in unanswered : k \in unanswered' /\ made'[k] = made[k]
      BY <1>1, <1>2 DEF Filed, Kept, Bookkeeping, Numbered
    <2>2. QED BY <2>1 DEF Answered
  <1>5. StoreIsCurrent(x) /\ NumberedOnce(x)
    BY <1>4 DEF Current
  <1>6. CASE x # d
    <2>1. conversation'[x] = conversation[x] /\ stored'[x] = stored[x]
      <3>1. CASE Filed(d, e, id, after)
        <4> DEFINE c == [peer |-> e.to, session |-> after]
        <4>1. conversation' = [conversation EXCEPT ![d] = c]
              /\ stored' = [stored EXCEPT ![d][e.to] = after]
          BY <3>1 DEF Filed
        <4> HIDE DEF c
        <4>2. QED BY <1>6, <4>1 DEF TypeOK
      <3>2. CASE Kept(d, id, after)
        BY <3>2 DEF Kept
      <3>3. QED BY <1>1, <3>1, <3>2
    <2>2. \A i \in 1 .. Len(made') :
            made'[i].from = x => i \in 1 .. Len(made) /\ made'[i] = made[i]
      BY <1>2, <1>3, <1>6
    <2>3. StoreIsCurrent(x)'
      BY <1>5, <2>1, <2>2 DEF StoreIsCurrent
    <2>4. NumberedOnce(x)'
      BY <1>5, <2>2 DEF NumberedOnce
    <2>5. QED BY <2>3, <2>4 DEF Current
  <1>7. CASE x = d
    <2>1. Filed(d, e, id, after)
      <3>1. ASSUME Kept(d, id, after) PROVE FALSE
        BY <1>2, <1>3, <1>7, <3>1 DEF Kept, Answered
      <3>2. QED BY <1>1, <3>1
    <2>2. /\ conversation'[d].peer = e.to /\ conversation'[d].session = after
          /\ stored'[d][e.to] = after
          /\ \A q \in Devices : q # e.to => stored'[d][q] = stored[d][q]
      <3> DEFINE c == [peer |-> e.to, session |-> after]
      <3>1. /\ conversation' = [conversation EXCEPT ![d] = c]
            /\ stored' = [stored EXCEPT ![d][e.to] = after]
            /\ c.peer = e.to /\ c.session = after
        BY <2>1 DEF Filed
      <3> HIDE DEF c
      <3>2. QED BY <1>3, <3>1 DEF TypeOK
    <2>3. /\ \A q \in Devices :
               q # e.to /\ stored[d][q] # NoSession => stored[d][q].self # after.self
          /\ \A i \in 1 .. Len(made) :
               made[i].from = d /\ made[i].wire.dh = after.self => made[i].wire.n < e.wire.n
      BY <1>1, <1>5, <1>7, SealedIsAhead
    <2>4. \A p, q \in Devices :
            /\ stored'[d][p] # NoSession /\ stored'[d][q] # NoSession
            /\ stored'[d][p].self = stored'[d][q].self /\ stored'[d][p].self[2] > 0
            => p = q
      BY <1>3, <1>5, <1>7, <2>2, <2>3 DEF StoreIsCurrent
    <2>5. \A i \in 1 .. Len(made) : made[i].wire.n \in Nat
      BY TypeFacts DEF Envelope, Message
    <2>6. \A p \in Devices, i \in 1 .. Len(made') :
            /\ stored'[d][p] # NoSession
            /\ made'[i].from = d /\ made'[i].wire.dh = stored'[d][p].self
            => made'[i].wire.n < stored'[d][p].ns
      <3>1. ASSUME NEW p \in Devices, NEW i \in 1 .. Len(made'), stored'[d][p] # NoSession,
                   made'[i].from = d, made'[i].wire.dh = stored'[d][p].self
            PROVE  made'[i].wire.n < stored'[d][p].ns
        <4>1. CASE p = e.to
          <5>1. stored'[d][p] = after /\ after.ns = e.wire.n + 1
            BY <1>3, <2>2, <4>1
          <5>2. CASE i = id
            BY <1>2, <1>3, <5>1, <5>2
          <5>3. CASE i # id
            <6>1. i \in 1 .. Len(made) /\ made'[i] = made[i]
              BY <1>2, <5>3
            <6>2. made[i].wire.n < e.wire.n /\ made[i].wire.n \in Nat
              BY <2>3, <2>5, <3>1, <5>1, <6>1
            <6>3. QED BY <1>3, <5>1, <6>1, <6>2
          <5>4. QED BY <5>2, <5>3
        <4>2. CASE p # e.to
          <5>1. stored'[d][p] = stored[d][p] /\ stored[d][p].self # after.self
            BY <2>2, <2>3, <3>1, <4>2
          <5>2. i # id
            BY <1>2, <1>3, <3>1, <5>1
          <5>3. i \in 1 .. Len(made) /\ made'[i] = made[i]
            BY <1>2, <5>2
          <5>4. QED BY <1>5, <1>7, <3>1, <5>1, <5>3 DEF StoreIsCurrent
        <4>3. QED BY <4>1, <4>2
      <3>2. QED BY <3>1
    <2>7. StoreIsCurrent(d)'
      BY <2>2, <2>4, <2>6 DEF StoreIsCurrent
    <2>8. NumberedOnce(d)'
      <3>1. ASSUME NEW i \in 1 .. Len(made'), NEW j \in 1 .. Len(made'), i # j,
                   made'[i].from = d, made'[j].from = d,
                   made'[i].wire.dh = made'[j].wire.dh, made'[i].wire.n = made'[j].wire.n
            PROVE  FALSE
        <4>1. ASSUME NEW k \in 1 .. Len(made), made[k].from = d, made[k].wire.dh = e.wire.dh,
                     made[k].wire.n = e.wire.n
              PROVE  FALSE
          BY <1>3, <2>3, <4>1
        <4>2. i # id /\ j # id
          BY <1>2, <3>1, <4>1
        <4>3. QED BY <1>2, <1>5, <1>7, <3>1, <4>2 DEF NumberedOnce
      <3>2. QED BY <3>1 DEF NumberedOnce
    <2>9. QED BY <1>7, <2>7, <2>8 DEF Current
  <1>8. QED BY <1>6, <1>7

-----------------------------------------------------------------------------
(* The steps that neither make nor read a message.                          *)

\* The conversation d has open afterwards: the same, or one with the session
\* in its store, or one without a session.
Reopened(d) ==
  \/ conversation'[d] = conversation[d]
  \/ /\ conversation'[d].peer # d
     /\ \/ conversation'[d].session = NoSession
        \/ /\ conversation'[d].peer \in Devices
           /\ conversation'[d].session = stored[d][conversation'[d].peer]

\* Only what was read leaves the queue.
Quiet ==
  /\ UNCHANGED <<store, made, minted, unanswered>>
  /\ conversation' \in [Devices -> Conversation]
  /\ batch' \in [Devices -> SUBSET Ids] /\ acks' \in [Devices -> SUBSET Ids]
  /\ restarts' \in 0 .. MaxRestarts
  /\ queue' \subseteq queue
  /\ \A k \in queue : k \notin queue' => k \in processed[made[k].to]
  /\ \A d \in Devices : Reopened(d) /\ batch'[d] \subseteq AddressedTo(d)' /\ acks'[d] \subseteq processed[d]

LEMMA QuietKeeps ==
  ASSUME IInv, Quiet
  PROVE  IInv'
  <1>1. /\ stored' = stored /\ outbox' = outbox /\ processed' = processed /\ history' = history
        /\ made' = made /\ minted' = minted /\ unanswered' = unanswered
    BY DEF Quiet, store
  <1>2. TypeOK /\ Bookkeeping /\ Sessions /\ Envelopes
    BY DEF IInv
  <1>3. TypeOK'
    BY <1>1, <1>2 DEF Quiet, TypeOK
  <1>4. Numbered' /\ Numbered
    BY <1>1, <1>2 DEF Quiet, Bookkeeping, Numbered
  <1>5. \A k \in 1 .. Len(made) : k \in accepted => k \in accepted'
    <2> TAKE k \in 1 .. Len(made)
    <2>1. k \in Ids /\ made[k] \in Envelope /\ made[k].to \in Devices
      BY <1>2, <1>4, TypeFacts DEF Envelope, Numbered
    <2>2. k \in accepted' <=> k \in queue' \/ history[made[k].to][k] > 0
      BY <1>1, <2>1 DEF accepted, shown, written
    <2>3. k \in queue /\ k \notin queue' => history[made[k].to][k] = 1
      BY <1>2, <2>1 DEF Quiet, Bookkeeping, Recorded
    <2>4. QED BY <1>4, <2>2, <2>3, AcceptedFacts
  <1>6. ASSUME NEW d \in Devices
        PROVE  (Polled(d) /\ Waiting(d) /\ Recorded(d))'
    <2>1. Polled(d) /\ Waiting(d) /\ Recorded(d)
      BY <1>2 DEF Bookkeeping
    <2>2. Polled(d)'
      BY <1>1, <2>1 DEF Quiet, Reopened, Polled
    <2>3. Waiting(d)'
      BY <1>1, <2>1 DEF Waiting
    <2>4. Recorded(d)'
      BY <1>1, <1>5, <2>1 DEF Recorded
    <2>5. QED BY <2>2, <2>3, <2>4
  <1>7. Bookkeeping'
    BY <1>4, <1>6 DEF Bookkeeping
  <1>8. Sessions'
    <2>1. ASSUME NEW d \in Devices, conversation'[d].session # NoSession
          PROVE  Owned(d, conversation'[d].session, minted[d])
      BY <1>2, <2>1 DEF Quiet, Reopened, Sessions
    <2>2. QED BY <1>1, <1>2, <2>1 DEF Sessions
  <1>9. Envelopes'
    BY <1>1, <1>2 DEF Envelopes
  <1>10. ASSUME NEW d \in Devices, Answered(d)'
         PROVE  Current(d)'
    <2>1. StoreIsCurrent(d) /\ NumberedOnce(d)
      BY <1>1, <1>10 DEF IInv, Answered, Current
    <2>2. conversation'[d].session # NoSession =>
            stored[d][conversation'[d].peer] = conversation'[d].session
      BY <2>1 DEF Quiet, Reopened, StoreIsCurrent
    <2>3. QED BY <1>1, <2>1, <2>2 DEF StoreIsCurrent, NumberedOnce, Current
  <1>11. QED BY <1>3, <1>7, <1>8, <1>9, <1>10 DEF IInv

LEMMA ResolveIsQuiet ==
  ASSUME IInv, NEW d \in Devices, NEW p \in Devices, Resolve(d, p)
  PROVE  Quiet
  <1> DEFINE c == [peer |-> p, session |-> LoadSession(stored[d][p])]
  <1>1. /\ conversation' = [conversation EXCEPT ![d] = c] /\ p # d
        /\ UNCHANGED <<batch, acks, store, queue, made, minted, unanswered, restarts>>
    BY DEF Resolve
  <1>2. TypeOK /\ Bookkeeping
    BY DEF IInv
  <1>3. c.peer = p /\ (c.session = NoSession \/ c.session = stored[d][p])
    BY DEF LoadSession
  <1>4. c \in Conversation
    BY <1>2, <1>3, TypeFacts DEF Conversation
  <1> HIDE DEF c
  <1>5. conversation' \in [Devices -> Conversation] /\ \A x \in Devices : Reopened(x)
    BY <1>1, <1>2, <1>3, <1>4 DEF TypeOK, Reopened
  <1>6. \A x \in Devices : batch'[x] \subseteq AddressedTo(x)' /\ acks'[x] \subseteq processed[x]
    BY <1>1, <1>2 DEF Bookkeeping, Polled, AddressedTo
  <1>7. QED
    BY <1>1, <1>2, <1>5, <1>6 DEF Quiet, TypeOK

LEMMA PullIsQuiet ==
  ASSUME IInv, NEW d \in Devices, Pull(d)
  PROVE  Quiet
  <1>1. /\ batch' = [batch EXCEPT ![d] = AddressedTo(d)]
        /\ UNCHANGED <<conversation, acks, store, queue, made, minted, unanswered, restarts>>
    BY DEF Pull
  <1>2. TypeOK /\ Bookkeeping
    BY DEF IInv
  <1>3. AddressedTo(d) \in SUBSET Ids
    BY <1>2 DEF AddressedTo, TypeOK
  <1>4. batch' \in [Devices -> SUBSET Ids]
    BY <1>1, <1>2, <1>3 DEF TypeOK
  <1>5. \A x \in Devices : AddressedTo(x)' = AddressedTo(x)
    BY <1>1 DEF AddressedTo
  <1>6. \A x \in Devices : batch'[x] \subseteq AddressedTo(x)' /\ acks'[x] \subseteq processed[x]
    BY <1>1, <1>2, <1>5 DEF Bookkeeping, Polled, TypeOK
  <1>7. QED
    BY <1>1, <1>2, <1>4, <1>6 DEF Quiet, TypeOK, Reopened

LEMMA SkipProcessedIsQuiet ==
  ASSUME IInv, NEW d \in Devices, NEW id \in batch[d], SkipProcessed(d, id)
  PROVE  Quiet
  <1>1. /\ id \in processed[d]
        /\ batch' = [batch EXCEPT ![d] = @ \ {id}]
        /\ acks' = [acks EXCEPT ![d] = @ \cup {id}]
        /\ UNCHANGED <<conversation, store, queue, made, minted, unanswered, restarts>>
    BY DEF SkipProcessed
  <1>2. TypeOK /\ Bookkeeping
    BY DEF IInv
  <1>3. batch' \in [Devices -> SUBSET Ids] /\ acks' \in [Devices -> SUBSET Ids]
    BY <1>1, <1>2 DEF TypeOK
  <1>4. \A x \in Devices : AddressedTo(x)' = AddressedTo(x)
    BY <1>1 DEF AddressedTo
  <1>5. \A x \in Devices : batch'[x] \subseteq AddressedTo(x)' /\ acks'[x] \subseteq processed[x]
    BY <1>1, <1>2, <1>4 DEF Bookkeeping, Polled, TypeOK
  <1>6. QED
    BY <1>1, <1>2, <1>3, <1>5 DEF Quiet, TypeOK, Reopened

LEMMA AckIsQuiet ==
  ASSUME IInv, NEW d \in Devices, NEW reached \in BOOLEAN, Ack(d, reached)
  PROVE  Quiet
  <1>1. /\ batch[d] = {}
        /\ queue' = IF reached THEN queue \ Acked(d) ELSE queue
        /\ acks' = [acks EXCEPT ![d] = {}]
        /\ UNCHANGED <<conversation, batch, store, made, minted, unanswered, restarts>>
    BY DEF Ack
  <1>2. TypeOK /\ Bookkeeping
    BY DEF IInv
  <1>3. acks' \in [Devices -> SUBSET Ids]
    BY <1>1, <1>2 DEF TypeOK
  <1>4. \A k \in queue : k \notin queue' => made[k].to = d /\ k \in processed[d]
    BY <1>1, <1>2 DEF Acked, Bookkeeping, Polled
  <1>5. \A x \in Devices : x # d => AddressedTo(x)' = AddressedTo(x)
    BY <1>1, <1>4 DEF AddressedTo
  <1>6. \A x \in Devices : batch'[x] \subseteq AddressedTo(x)' /\ acks'[x] \subseteq processed[x]
    BY <1>1, <1>2, <1>5 DEF Bookkeeping, Polled, TypeOK
  <1>7. QED
    BY <1>1, <1>2, <1>3, <1>4, <1>6 DEF Quiet, TypeOK, Reopened

LEMMA RestartIsQuiet ==
  ASSUME IInv, NEW d \in Devices, Restart(d)
  PROVE  Quiet
  <1>1. /\ restarts < MaxRestarts /\ restarts' = restarts + 1
        /\ conversation' = [conversation EXCEPT ![d] = Closed]
        /\ batch' = [batch EXCEPT ![d] = {}]
        /\ acks' = [acks EXCEPT ![d] = {}]
        /\ UNCHANGED <<store, queue, made, minted, unanswered>>
    BY DEF Restart
  <1>2. TypeOK /\ Bookkeeping
    BY DEF IInv
  <1>3. Closed \in Conversation /\ Closed.peer # d /\ Closed.session = NoSession
    BY NoDeviceAssumption DEF Closed, Conversation
  <1>4. /\ conversation' \in [Devices -> Conversation]
        /\ batch' \in [Devices -> SUBSET Ids] /\ acks' \in [Devices -> SUBSET Ids]
        /\ \A x \in Devices : Reopened(x)
    BY <1>1, <1>2, <1>3 DEF TypeOK, Reopened
  <1>5. restarts' \in 0 .. MaxRestarts
    BY <1>1, <1>2, BoundsAssumption DEF TypeOK
  <1>6. \A x \in Devices : AddressedTo(x)' = AddressedTo(x)
    BY <1>1 DEF AddressedTo
  <1>7. \A x \in Devices : batch'[x] \subseteq AddressedTo(x)' /\ acks'[x] \subseteq processed[x]
    BY <1>1, <1>2, <1>6 DEF Bookkeeping, Polled, TypeOK
  <1>8. QED
    BY <1>1, <1>2, <1>4, <1>5, <1>7 DEF Quiet

-----------------------------------------------------------------------------
(* A retry keeps the invariant.                                            *)

LEMMA RetryEffect ==
  ASSUME IInv, NEW d \in Devices, NEW reached \in BOOLEAN, NEW answered \in BOOLEAN,
         NEW item \in outbox[d], Retry(d, item, reached, answered)
  PROVE  /\ item.id \in unanswered /\ item.id \in 1 .. Len(made) /\ item.id \in Ids
         /\ made[item.id].from = d /\ made[item.id].to # d
         /\ history[d][item.id] = 0
         /\ queue' \in {queue, queue \cup {item.id}}
         /\ made' = made /\ minted' = minted /\ unanswered' = unanswered
         /\ conversation' = conversation /\ batch' = batch /\ acks' = acks
         /\ processed' = processed
         /\ \A x \in Devices, k \in Ids :
              \/ history'[x][k] = history[x][k]
              \/ x = d /\ k = item.id /\ history'[x][k] = 1 /\ item.id \in queue'
         /\ \A x \in Devices : outbox'[x] \subseteq outbox[x]
         /\ \A o \in outbox'[d] : o.id = item.id => history'[d][item.id] = history[d][item.id]
         /\ \A x \in Devices, p \in Devices :
              \/ stored'[x][p] = stored[x][p]
              \/ x = d /\ stored'[x][p] = item.after
         /\ TypeOK'
  <1> DEFINE id == item.id
             to == made[id].to
             row == [stored[d] EXCEPT ![to] = item.after]
             line == [history[d] EXCEPT ![id] = @ + 1]
  <1>1. /\ answered => reached
        /\ queue' = IF reached THEN queue \cup {id} ELSE queue
        /\ made' = made /\ minted' = minted /\ unanswered' = unanswered /\ restarts' = restarts
        /\ conversation' = conversation /\ batch' = batch /\ acks' = acks
    BY DEF Retry, memory, Enqueued
  <1>2. TypeOK /\ Bookkeeping /\ Sessions /\ Envelopes /\ Numbered
    BY DEF IInv, Bookkeeping
  <1>3. /\ id \in unanswered /\ made[id].from = d /\ history[d][id] = 0
        /\ id \in Ids /\ id \in 1 .. Len(made) /\ item.after \in Session
    BY <1>2 DEF Bookkeeping, Waiting, Numbered, TypeOK, OutboxItem
  <1>4. to \in Devices /\ to # d
    BY <1>2, <1>3, TypeFacts DEF Envelope, Numbered
  <1>5. \/ reached /\ stored' = [stored EXCEPT ![d] = row]
           /\ history' = [history EXCEPT ![d] = line]
           /\ outbox' = [outbox EXCEPT ![d] = OutboxWithout(d, id)]
           /\ processed' = processed
        \/ UNCHANGED store
    <2>1. CASE answered /\ ~Refused(item.after)
      <3>1. CommitOutgoing(d, id, item.after)
        BY <2>1 DEF Retry, ItemSettled
      <3>2. made'[id].to = to
        BY <1>1
      <3>3. QED BY <1>1, <2>1, <3>1, <3>2, Zenon DEF CommitOutgoing, SessionSaved
    <2>2. CASE ~(answered /\ ~Refused(item.after))
      BY <2>2 DEF Retry, ItemSettled
    <2>3. QED BY <2>1, <2>2
  <1>6. row \in [Devices -> Session \cup {NoSession}] /\ line \in [Ids -> Nat]
    BY <1>2, <1>3, <1>4 DEF TypeOK
  <1>7. /\ line[id] = 1 /\ \A k \in Ids : k # id => line[k] = history[d][k]
        /\ \A p \in Devices : row[p] = stored[d][p] \/ row[p] = item.after
    BY <1>2, <1>3, <1>4 DEF TypeOK
  <1>8. OutboxWithout(d, id) \subseteq outbox[d] /\ \A o \in OutboxWithout(d, id) : o.id # id
    BY DEF OutboxWithout
  <1> HIDE DEF row, line, to, id
  <1>9. TypeOK'
    <2>1. stored' \in [Devices -> [Devices -> Session \cup {NoSession}]]
      <3>1. stored \in [Devices -> [Devices -> Session \cup {NoSession}]]
        BY <1>2 DEF TypeOK
      <3>2. stored' = [stored EXCEPT ![d] = row] \/ stored' = stored
        BY <1>5 DEF store
      <3> QED BY <1>6, <3>1, <3>2
    <2>2. history' \in [Devices -> [Ids -> Nat]]
      <3>1. history \in [Devices -> [Ids -> Nat]]
        BY <1>2 DEF TypeOK
      <3>2. history' = [history EXCEPT ![d] = line] \/ history' = history
        BY <1>5 DEF store
      <3> QED BY <1>6, <3>1, <3>2
    <2>3. outbox' \in [Devices -> SUBSET OutboxItem] /\ processed' = processed
      <3>1. OutboxWithout(d, id) \in SUBSET OutboxItem
        BY <1>2, <1>8 DEF TypeOK
      <3>2. outbox \in [Devices -> SUBSET OutboxItem]
        BY <1>2 DEF TypeOK
      <3>3. CASE UNCHANGED store
        BY <3>2, <3>3 DEF store
      <3>4. CASE ~UNCHANGED store
        BY <1>5, <3>1, <3>2, <3>4
      <3>5. QED BY <3>3, <3>4
    <2>4. queue' \subseteq Ids
      BY <1>1, <1>2, <1>3 DEF TypeOK
    <2>5. QED BY <1>1, <1>2, <2>1, <2>2, <2>3, <2>4 DEF TypeOK
  <1>10. /\ \A x \in Devices, k \in Ids :
               \/ history'[x][k] = history[x][k]
               \/ x = d /\ k = id /\ history'[x][k] = 1 /\ id \in queue'
         /\ \A x \in Devices : outbox'[x] \subseteq outbox[x]
         /\ \A x \in Devices, p \in Devices :
               \/ stored'[x][p] = stored[x][p]
               \/ x = d /\ stored'[x][p] = item.after
         /\ processed' = processed
    <2>1. CASE UNCHANGED store
      BY <2>1 DEF store
    <2>2. CASE ~UNCHANGED store
      <3>1. \A x \in Devices, k \in Ids :
               \/ history'[x][k] = history[x][k]
               \/ x = d /\ k = id /\ history'[x][k] = 1 /\ id \in queue'
        BY <1>1, <1>2, <1>5, <1>7, <2>2 DEF TypeOK
      <3>2. \A x \in Devices : outbox'[x] \subseteq outbox[x]
        BY <1>2, <1>5, <1>8, <2>2 DEF TypeOK
      <3>3. \A x \in Devices, p \in Devices :
               stored'[x][p] = stored[x][p] \/ (x = d /\ stored'[x][p] = item.after)
        BY <1>2, <1>5, <1>7, <2>2 DEF TypeOK
      <3>4. QED BY <1>5, <2>2, <3>1, <3>2, <3>3
    <2>3. QED BY <2>1, <2>2
  <1>11. \A o \in outbox'[d] : o.id = id => history'[d][id] = history[d][id]
    BY <1>2, <1>5, <1>8 DEF TypeOK, store
  <1>12. QED BY <1>1, <1>3, <1>4, <1>9, <1>10, <1>11 DEF id, to

LEMMA RetryKeeps ==
  ASSUME IInv, NEW d \in Devices, NEW reached \in BOOLEAN, NEW answered \in BOOLEAN,
         NEW item \in outbox[d], Retry(d, item, reached, answered)
  PROVE  IInv'
  <1> DEFINE id == item.id
  <1>1. /\ queue' \in {queue, queue \cup {id}}
        /\ made' = made /\ minted' = minted /\ unanswered' = unanswered
        /\ conversation' = conversation /\ batch' = batch /\ acks' = acks
    BY RetryEffect
  <1>2. TypeOK /\ Bookkeeping /\ Sessions /\ Envelopes /\ Numbered
    BY DEF IInv, Bookkeeping
  <1>3. /\ id \in unanswered /\ id \in 1 .. Len(made) /\ id \in Ids
        /\ made[id].from = d /\ made[id].to # d /\ history[d][id] = 0
    BY RetryEffect
  <1>4. TypeOK'
    BY RetryEffect
  <1>5. /\ \A x \in Devices, k \in Ids :
              \/ history'[x][k] = history[x][k]
              \/ x = d /\ k = id /\ history'[x][k] = 1 /\ id \in queue'
        /\ \A x \in Devices : outbox'[x] \subseteq outbox[x]
        /\ \A x \in Devices, p \in Devices :
              \/ stored'[x][p] = stored[x][p]
              \/ x = d /\ stored'[x][p] = item.after
        /\ processed' = processed
    BY RetryEffect
  <1>6. \A o \in outbox'[d] : o.id = id => history'[d][id] = history[d][id]
    BY RetryEffect
  <1> HIDE DEF id
  <1>7. Numbered'
    BY <1>1, <1>2, <1>3 DEF Numbered
  <1>8. \A k \in 1 .. Len(made) : k \in accepted => k \in accepted'
    <2> TAKE k \in 1 .. Len(made)
    <2>1. k \in Ids /\ made[k].to \in Devices
      BY <1>2, TypeFacts DEF Envelope, Numbered
    <2>2. k \in accepted' <=> k \in queue' \/ history'[made[k].to][k] > 0
      BY <1>1, <2>1 DEF accepted, shown, written
    <2>3. history[made[k].to][k] > 0 => history'[made[k].to][k] > 0
      BY <1>5, <2>1
    <2>4. queue \subseteq queue'
      BY <1>1
    <2>5. QED BY <1>2, <2>2, <2>3, <2>4, AcceptedFacts
  <1>9. ASSUME NEW x \in Devices
         PROVE  (Polled(x) /\ Waiting(x) /\ Recorded(x))'
    <2>1. Polled(x) /\ Waiting(x) /\ Recorded(x)
      BY <1>2 DEF Bookkeeping
    <2>2. Polled(x)'
      <3>1. AddressedTo(x) \subseteq AddressedTo(x)'
        BY <1>1 DEF AddressedTo
      <3>2. QED BY <1>1, <1>5, <2>1, <3>1 DEF Polled
    <2>3. Waiting(x)'
      <3>1. ASSUME NEW o \in outbox'[x]
            PROVE  o.id \in unanswered' /\ made'[o.id].from = x /\ history'[x][o.id] = 0
        <4>1. /\ o.id \in unanswered /\ made[o.id].from = x /\ history[x][o.id] = 0
              /\ o.id \in Ids
          BY <1>2, <1>5, <2>1 DEF Waiting, TypeOK
        <4>2. history'[x][o.id] = history[x][o.id]
          BY <1>5, <1>6, <4>1
        <4>3. QED BY <1>1, <4>1, <4>2
      <3>2. QED BY <3>1 DEF Waiting
    <2>4. Recorded(x)'
      <3>1. ASSUME NEW k \in Ids
            PROVE  /\ k \notin 1 .. Len(made) => history'[x][k] = 0
                   /\ k \in 1 .. Len(made) /\ made[k].to = x =>
                        history'[x][k] = IF k \in processed[x] THEN 1 ELSE 0
                   /\ k \in 1 .. Len(made) /\ made[k].from = x /\ history'[x][k] # 0 =>
                        history'[x][k] = 1 /\ k \in accepted'
        <4>1. CASE history'[x][k] = history[x][k]
          BY <1>8, <2>1, <4>1 DEF Recorded
        <4>2. CASE x = d /\ k = id /\ history'[x][k] = 1 /\ id \in queue'
          BY <1>3, <4>2 DEF accepted
        <4>3. QED BY <1>5, <4>1, <4>2
      <3>2. QED BY <1>1, <1>5, <3>1 DEF Recorded
    <2>5. QED BY <2>2, <2>3, <2>4
  <1>10. Bookkeeping'
    BY <1>7, <1>9 DEF Bookkeeping
  <1>11. Sessions'
    <2>1. Owned(d, item.after, minted[d])
      BY <1>2 DEF Sessions
    <2>2. ASSUME NEW x \in Devices
          PROVE  /\ conversation'[x].session # NoSession =>
                      Owned(x, conversation'[x].session, minted'[x])
                 /\ \A p \in Devices :
                      stored'[x][p] # NoSession => Owned(x, stored'[x][p], minted'[x])
                 /\ \A o \in outbox'[x] : Owned(x, o.after, minted'[x])
      BY <1>1, <1>2, <1>5, <2>1 DEF Sessions
    <2>3. QED BY <2>2 DEF Sessions
  <1>12. Envelopes'
    BY <1>1, <1>2 DEF Envelopes
  <1>13. ASSUME NEW x \in Devices, Answered(x)'
         PROVE  Current(x)'
    <2>1. Answered(x) /\ x # d
      BY <1>1, <1>3, <1>13 DEF Answered
    <2>2. StoreIsCurrent(x) /\ NumberedOnce(x)
      BY <2>1 DEF IInv, Current
    <2>3. \A p \in Devices : stored'[x][p] = stored[x][p]
      BY <1>5, <2>1
    <2>4. conversation[x].session # NoSession => conversation[x].peer \in Devices
      BY <1>2, ConversationFacts
    <2>5. StoreIsCurrent(x)'
      BY <1>1, <2>2, <2>3, <2>4 DEF StoreIsCurrent
    <2>6. NumberedOnce(x)'
      BY <1>1, <2>2 DEF NumberedOnce
    <2>7. QED BY <2>5, <2>6 DEF Current
  <1>14. QED BY <1>4, <1>10, <1>11, <1>12, <1>13 DEF IInv

-----------------------------------------------------------------------------
(* Reading keeps the invariant.                                            *)

\* What a session d has read a message of p with may be: the open one, with
\* its sending side as it was, or one with a key pair just made, or one that
\* still has the signed prekey.
Moves(d, p, after) ==
  /\ after \in Session /\ Owned(d, after, minted'[d])
  /\ \/ /\ conversation[d].peer = p /\ conversation[d].session # NoSession
        /\ after.self = conversation[d].session.self
        /\ after.ns = conversation[d].session.ns
     \/ after.self[2] > minted[d]
     \/ after.self[2] = 0

\* The session decrypt leaves.
Decrypts(d, e, after) ==
  LET s == ReadIn(d, e).session
  IN  ~Unreadable(d, e) /\ Opens(s, e.wire) /\ after = Opened(s, e.wire)

\* d has read the message id.
ReadsAs(d, id, after) ==
  /\ Decrypts(d, made[id], after)
  /\ id \in 1 .. Len(made) /\ made[id].to = d /\ id \notin processed[d]
  /\ MintedGrows
  /\ Moves(d, made[id].from, after)
  /\ conversation' = [conversation EXCEPT ![d] = [peer |-> made[id].from, session |-> after]]
  /\ batch' = [batch EXCEPT ![d] = @ \ {id}]
  /\ acks' = [acks EXCEPT ![d] = @ \cup {id}]
  /\ history' = [history EXCEPT ![d][id] = @ + 1]
  /\ stored' = [stored EXCEPT ![d][made[id].from] = after]
  /\ processed' = [processed EXCEPT ![d] = @ \cup {id}]
  /\ UNCHANGED <<outbox, queue, made, unanswered, restarts>>

\* Reading with a session of d: what decrypt makes of it.
LEMMA OpenedMoves ==
  ASSUME minted \in [Devices -> Nat], NEW d \in Devices, NEW s \in Session, Owned(d, s, minted[d]),
         NEW m \in Message, m.dh[1] # d,
         minted' = [minted EXCEPT ![d] = IF Opened(s, m).self = s.self THEN @ ELSE @ + 1]
  PROVE  /\ Opened(s, m) \in Session /\ Owned(d, Opened(s, m), minted'[d])
         /\ \/ Opened(s, m).self = s.self /\ Opened(s, m).ns = s.ns
            \/ Opened(s, m).self[2] > minted[d]
         /\ MintedGrows
  <1> DEFINE r == Opened(s, m)
             same == r.self = s.self
  <1>1. minted[d] \in Nat /\ s.self \in PublicKey /\ s.self[1] = d /\ s.self[2] <= minted[d]
    BY DEF Session, Owned
  <1>2. /\ r \in Session
        /\ \/ r.self = s.self /\ r.sendChain = s.sendChain /\ r.ns = s.ns
           \/ /\ r.self = FreshKey(s.self) /\ r.ns = 0
              /\ r.sendChain.step = 0 /\ Branched(r, s, m.dh)
    BY OpenedType
  <1>3. /\ FreshKey(s.self) \in PublicKey /\ FreshKey(s.self)[1] = d
        /\ FreshKey(s.self)[2] = minted[d] + 1
    BY <1>1, FreshKeyType
  <1>4. minted' = [minted EXCEPT ![d] = IF same THEN minted[d] ELSE minted[d] + 1]
    OBVIOUS
  <1>5. m.dh \in PublicKey
    BY DEF Message
  <1> HIDE DEF r
  <1>6. /\ minted'[d] = IF same THEN minted[d] ELSE minted[d] + 1
        /\ \A x \in Devices : x # d => minted'[x] = minted[x]
        /\ minted' \in [Devices -> Nat]
    BY <1>1, <1>4
  <1>7. MintedGrows
    BY <1>1, <1>6 DEF MintedGrows
  <1>8. CASE r.self = s.self /\ r.sendChain = s.sendChain /\ r.ns = s.ns
    <2>1. minted'[d] = minted[d]
      BY <1>6, <1>8
    <2>2. Owned(d, r, minted'[d])
      BY <1>8, <2>1 DEF Owned
    <2>3. QED BY <1>2, <1>7, <1>8, <2>2 DEF r
  <1>9. CASE /\ r.self = FreshKey(s.self) /\ r.ns = 0
             /\ r.sendChain.step = 0 /\ Branched(r, s, m.dh)
    <2>1. r.self[1] = d /\ r.self[2] = minted[d] + 1
      BY <1>3, <1>9
    <2>2. minted'[d] = minted[d] + 1
      BY <1>1, <1>6, <2>1
    <2>3. BranchesFrom(r.sendChain.root, r.self, d)
      <3>1. s.self # r.self
        BY <1>1, <2>1
      <3>2. QED BY <1>1, <1>5, <1>9, <3>1 DEF Branched, BranchesFrom
    <2>4. r.self[2] > 0 /\ r.self[2] <= minted'[d] /\ r.self[2] > minted[d]
      BY <1>1, <2>1, <2>2
    <2>5. Owned(d, r, minted'[d])
      BY <1>9, <2>1, <2>3, <2>4 DEF Owned
    <2>6. QED BY <1>2, <1>7, <2>4, <2>5 DEF r
  <1>10. QED BY <1>2, <1>8, <1>9

\* The session an envelope for d is read with, if there is one.
LEMMA ReadInType ==
  ASSUME IInv, NEW d \in Devices, NEW id \in batch[d], ~Unreadable(d, made[id])
  PROVE  LET e == made[id]
             c == ReadIn(d, e)
         IN  /\ id \in 1 .. Len(made) /\ e \in Envelope /\ e.to = d /\ e.wire.dh[1] # d
             /\ c.peer = e.from /\ c = [peer |-> c.peer, session |-> c.session]
             /\ c.session \in Session /\ Owned(d, c.session, minted[d])
             /\ \/ c = conversation[d] /\ conversation[d].session # NoSession
                \/ /\ conversation[d].peer # e.from
                   /\ c.session.self[2] = 0 /\ Opens(c.session, e.wire)
  <1> DEFINE e == made[id]
             c == ReadIn(d, e)
  <1>1. TypeOK /\ Numbered /\ Polled(d) /\ Sessions /\ Envelopes /\ minted[d] \in Nat
    BY TypeFacts DEF IInv, Bookkeeping
  <1>2. id \in 1 .. Len(made) /\ e.to = d /\ e.from # e.to
    BY <1>1 DEF Polled, AddressedTo, Numbered
  <1>3. e \in Envelope /\ e.from \in Devices /\ e.wire \in Message
    BY <1>1, <1>2, TypeFacts DEF Envelope
  <1>4. e.wire.dh[1] # d /\ FirstOfSession(e)
    BY <1>1, <1>2 DEF Envelopes, Keyed
  <1>5. CASE conversation[d].peer = e.from
    <2>1. c = conversation[d] /\ c.session # NoSession
      BY <1>5 DEF ReadIn, Unreadable
    <2>2. c.session \in Session /\ Owned(d, c.session, minted[d])
      BY <1>1, <2>1, ConversationFacts DEF Sessions
    <2>3. conversation[d] \in Conversation
      BY <1>1, TypeFacts
    <2>4. c = [peer |-> c.peer, session |-> c.session]
      BY <2>1, <2>3 DEF Conversation
    <2>5. QED BY <1>2, <1>3, <1>4, <1>5, <2>1, <2>2, <2>4
  <1>6. CASE conversation[d].peer # e.from
    <2> DEFINE r == InitResponder(Handshake(e.boot, d), SignedPrekey(d))
    <2>1. c = [peer |-> e.from, session |-> r]
      BY <1>6 DEF ReadIn
    <2>2. e.boot \in PublicKey /\ e.boot # NoKey
      BY <1>3, <1>6 DEF Envelope, Unreadable
    <2>3. SignedPrekey(d) \in PublicKey /\ SignedPrekey(d)[1] = d /\ SignedPrekey(d)[2] = 0
          /\ Handshake(e.boot, d) \in RootKey
      BY <2>2, HandshakeType
    <2>4. r \in Session /\ r.self = SignedPrekey(d) /\ r.sendChain = NoKey
      BY <2>3, ResponderType
    <2>5. Opens(r, e.wire)
      <3>1. Opens(InitResponder(Handshake(e.boot, e.to), SignedPrekey(e.to)), e.wire)
        BY <1>1, <1>3, <1>4, <2>2, BootstrapOpens DEF TypeOK
      <3>2. QED BY <1>2, <3>1
    <2> HIDE DEF r
    <2>6. Owned(d, r, minted[d])
      BY <1>1, <2>3, <2>4 DEF Owned
    <2>7. c.session = r /\ c.peer = e.from /\ c = [peer |-> c.peer, session |-> c.session]
      BY <2>1
    <2> HIDE DEF c, e
    <2>8. QED BY <1>2, <1>3, <1>4, <1>6, <2>3, <2>4, <2>5, <2>6, <2>7 DEF c, e
  <1>7. QED BY <1>5, <1>6

\* An envelope that is not read is dropped from the batch, and that is all.
LEMMA ReadCases ==
  ASSUME IInv, NEW d \in Devices, NEW id \in batch[d], Read(d, id)
  PROVE  Quiet \/ \E after : ReadsAs(d, id, after)
  <1> DEFINE e == made[id]
             c == ReadIn(d, e)
             after == Opened(c.session, e.wire)
  <1>1. /\ id \notin processed[d]
        /\ batch' = [batch EXCEPT ![d] = @ \ {id}]
        /\ UNCHANGED <<queue, made, unanswered, restarts>>
    BY DEF Read
  <1>2. TypeOK /\ Bookkeeping
    BY DEF IInv
  <1>3. \/ UNCHANGED <<conversation, acks, store, minted>>
        \/ /\ ~Unreadable(d, e) /\ ~Opens(c.session, e.wire)
           /\ conversation' = [conversation EXCEPT ![d] = c]
           /\ UNCHANGED <<acks, store, minted>>
        \/ /\ ~Unreadable(d, e) /\ Opens(c.session, e.wire)
           /\ conversation' = [conversation EXCEPT ![d] = [c EXCEPT !.session = after]]
           /\ CommitIncoming(d, id, after)
           /\ acks' = [acks EXCEPT ![d] = @ \cup {id}]
           /\ minted' = [minted EXCEPT ![d] = IF after.self = c.session.self THEN @ ELSE @ + 1]
    BY Zenon DEF Read
  <1>4. ASSUME UNCHANGED <<conversation, acks, store, minted>>
        PROVE  Quiet
    <2>1. batch' \in [Devices -> SUBSET Ids]
      BY <1>1, <1>2 DEF TypeOK
    <2>2. \A x \in Devices : AddressedTo(x)' = AddressedTo(x)
      BY <1>1 DEF AddressedTo
    <2>3. \A x \in Devices : batch'[x] \subseteq AddressedTo(x)' /\ acks'[x] \subseteq processed[x]
      BY <1>1, <1>2, <1>4, <2>2 DEF Bookkeeping, Polled, TypeOK
    <2>4. QED BY <1>1, <1>2, <1>4, <2>1, <2>3 DEF Quiet, TypeOK, Reopened
  <1>5. CASE UNCHANGED <<conversation, acks, store, minted>>
    BY <1>4, <1>5
  <1>6. CASE /\ ~Unreadable(d, e) /\ ~Opens(c.session, e.wire)
             /\ conversation' = [conversation EXCEPT ![d] = c]
             /\ UNCHANGED <<acks, store, minted>>
    <2>1. c = conversation[d]
      BY <1>6, ReadInType
    <2> HIDE DEF c
    <2>2. conversation' = conversation
      BY <1>2, <1>6, <2>1 DEF TypeOK
    <2>3. QED BY <1>4, <1>6, <2>2
  <1>7. CASE /\ ~Unreadable(d, e) /\ Opens(c.session, e.wire)
             /\ conversation' = [conversation EXCEPT ![d] = [c EXCEPT !.session = after]]
             /\ CommitIncoming(d, id, after)
             /\ acks' = [acks EXCEPT ![d] = @ \cup {id}]
             /\ minted' = [minted EXCEPT ![d] = IF after.self = c.session.self THEN @ ELSE @ + 1]
    <2>1. /\ id \in 1 .. Len(made) /\ e \in Envelope /\ e.to = d /\ e.wire.dh[1] # d
          /\ c.peer = e.from /\ c = [peer |-> c.peer, session |-> c.session]
          /\ c.session \in Session /\ Owned(d, c.session, minted[d])
          /\ \/ c = conversation[d] /\ conversation[d].session # NoSession
             \/ /\ conversation[d].peer # e.from
                /\ c.session.self[2] = 0 /\ Opens(c.session, e.wire)
      BY <1>7, ReadInType
    <2>2. e.wire \in Message /\ minted \in [Devices -> Nat]
      BY <1>2, <2>1, TypeFacts DEF Envelope
    <2>0. Decrypts(d, e, after)
      BY <1>7 DEF Decrypts
    <2> HIDE DEF c
    <2>3. /\ after \in Session /\ Owned(d, after, minted'[d])
          /\ \/ after.self = c.session.self /\ after.ns = c.session.ns
             \/ after.self[2] > minted[d]
          /\ MintedGrows
      BY <1>7, <2>1, <2>2, OpenedMoves
    <2> HIDE DEF after
    <2>4. Moves(d, e.from, after)
      BY <2>1, <2>3 DEF Moves
    <2>5. conversation' = [conversation EXCEPT ![d] = [peer |-> e.from, session |-> after]]
      <3>1. [c EXCEPT !.session = after] = [peer |-> e.from, session |-> after]
        <4> DEFINE p == c.peer
                   s == c.session
        <4>1. c = [peer |-> p, session |-> s] /\ p = e.from
          BY <2>1
        <4> HIDE DEF p, s
        <4>2. QED BY <4>1
      <3>2. QED BY <1>7, <3>1, Zenon
    <2>6. /\ history' = [history EXCEPT ![d][id] = @ + 1]
          /\ stored' = [stored EXCEPT ![d][e.from] = after]
          /\ processed' = [processed EXCEPT ![d] = @ \cup {id}]
          /\ outbox' = outbox
      BY <1>7, Zenon DEF CommitIncoming, SessionSaved
    <2>7. ReadsAs(d, id, after)
      BY <1>1, <1>7, <2>0, <2>1, <2>3, <2>4, <2>5, <2>6 DEF ReadsAs
    <2>8. QED BY <2>7
  <1>8. QED BY <1>3, <1>5, <1>6, <1>7

LEMMA ReadKeepsType ==
  ASSUME IInv, NEW d \in Devices, NEW id, NEW after, ReadsAs(d, id, after)
  PROVE  TypeOK'
  <1> DEFINE p == made[id].from
             c == [peer |-> p, session |-> after]
             row == [stored[d] EXCEPT ![p] = after]
             line == [history[d] EXCEPT ![id] = @ + 1]
  <1>1. TypeOK /\ Numbered /\ id \in Ids /\ p \in Devices /\ after \in Session
    BY TypeFacts DEF IInv, Bookkeeping, Numbered, ReadsAs, Moves, Envelope
  <1>2. c \in Conversation
    BY <1>1 DEF Conversation
  <1>3. row \in [Devices -> Session \cup {NoSession}] /\ line \in [Ids -> Nat]
    BY <1>1 DEF TypeOK
  <1>4. /\ conversation' = [conversation EXCEPT ![d] = c]
        /\ stored' = [stored EXCEPT ![d] = row]
        /\ history' = [history EXCEPT ![d] = line]
        /\ batch' = [batch EXCEPT ![d] = @ \ {id}]
        /\ acks' = [acks EXCEPT ![d] = @ \cup {id}]
        /\ processed' = [processed EXCEPT ![d] = @ \cup {id}]
        /\ UNCHANGED <<outbox, queue, made, unanswered, restarts>>
        /\ minted' \in [Devices -> Nat]
    BY DEF ReadsAs, MintedGrows
  <1> HIDE DEF p, c, row, line
  <1>5. /\ conversation' \in [Devices -> Conversation]
        /\ stored' \in [Devices -> [Devices -> Session \cup {NoSession}]]
        /\ history' \in [Devices -> [Ids -> Nat]]
    BY <1>1, <1>2, <1>3, <1>4 DEF TypeOK
  <1>6. /\ batch' \in [Devices -> SUBSET Ids] /\ acks' \in [Devices -> SUBSET Ids]
        /\ processed' \in [Devices -> SUBSET Ids]
    BY <1>1, <1>4 DEF TypeOK
  <1>7. QED BY <1>1, <1>4, <1>5, <1>6 DEF TypeOK

\* The step seen from each device, message and peer.
LEMMA ReadEffect ==
  ASSUME IInv, NEW d \in Devices, NEW id, NEW after, ReadsAs(d, id, after)
  PROVE  /\ made[id].from \in Devices /\ made[id].from # d /\ id \in Ids
         /\ history[d][id] = 0 /\ history'[d][id] = 1
         /\ \A x \in Devices, k \in Ids :
              ~(x = d /\ k = id) => history'[x][k] = history[x][k]
         /\ processed'[d] = processed[d] \cup {id}
         /\ batch'[d] = batch[d] \ {id} /\ acks'[d] = acks[d] \cup {id}
         /\ conversation'[d].peer = made[id].from /\ conversation'[d].session = after
         /\ stored'[d][made[id].from] = after
         /\ \A q \in Devices : q # made[id].from => stored'[d][q] = stored[d][q]
         /\ \A x \in Devices : x # d =>
              /\ processed'[x] = processed[x] /\ batch'[x] = batch[x] /\ acks'[x] = acks[x]
              /\ conversation'[x] = conversation[x] /\ stored'[x] = stored[x]
  <1> DEFINE p == made[id].from
             c == [peer |-> p, session |-> after]
             row == [stored[d] EXCEPT ![p] = after]
             line == [history[d] EXCEPT ![id] = @ + 1]
  <1>1. TypeOK /\ Bookkeeping /\ Numbered
    BY DEF IInv, Bookkeeping
  <1>2. /\ id \in 1 .. Len(made) /\ made[id].to = d /\ id \notin processed[d]
    BY DEF ReadsAs
  <1>3. id \in Ids /\ p \in Devices /\ p # d
    BY <1>1, <1>2, TypeFacts DEF Numbered, Envelope
  <1>4. history[d][id] = 0
    BY <1>1, <1>2, <1>3 DEF Bookkeeping, Recorded
  <1>5. line[id] = 1 /\ \A k \in Ids : k # id => line[k] = history[d][k]
    BY <1>1, <1>3, <1>4 DEF TypeOK
  <1>6. row[p] = after /\ \A q \in Devices : q # p => row[q] = stored[d][q]
    BY <1>1, <1>3 DEF TypeOK
  <1>7. c.peer = p /\ c.session = after
    OBVIOUS
  <1>8. /\ conversation' = [conversation EXCEPT ![d] = c]
        /\ stored' = [stored EXCEPT ![d] = row]
        /\ history' = [history EXCEPT ![d] = line]
        /\ batch' = [batch EXCEPT ![d] = @ \ {id}]
        /\ acks' = [acks EXCEPT ![d] = @ \cup {id}]
        /\ processed' = [processed EXCEPT ![d] = @ \cup {id}]
    BY DEF ReadsAs
  <1> HIDE DEF p, c, row, line
  <1>9. /\ history'[d] = line /\ \A x \in Devices : x # d => history'[x] = history[x]
        /\ processed'[d] = processed[d] \cup {id}
        /\ batch'[d] = batch[d] \ {id} /\ acks'[d] = acks[d] \cup {id}
        /\ conversation'[d] = c /\ stored'[d] = row
        /\ \A x \in Devices : x # d =>
             /\ processed'[x] = processed[x] /\ batch'[x] = batch[x] /\ acks'[x] = acks[x]
             /\ conversation'[x] = conversation[x] /\ stored'[x] = stored[x]
    BY <1>1, <1>8 DEF TypeOK
  <1>10. \A x \in Devices, k \in Ids :
           ~(x = d /\ k = id) => history'[x][k] = history[x][k]
    BY <1>5, <1>9
  <1>11. QED BY <1>3, <1>4, <1>5, <1>6, <1>7, <1>9, <1>10 DEF p

LEMMA ReadKeepsBooks ==
  ASSUME IInv, NEW d \in Devices, NEW id, NEW after, ReadsAs(d, id, after)
  PROVE  Bookkeeping'
  <1>1. TypeOK /\ Bookkeeping /\ Numbered
    BY DEF IInv, Bookkeeping
  <1>2. /\ id \in 1 .. Len(made) /\ made[id].to = d
        /\ outbox' = outbox /\ queue' = queue /\ made' = made /\ unanswered' = unanswered
    BY DEF ReadsAs
  <1>3. /\ made[id].from \in Devices /\ made[id].from # d /\ id \in Ids
        /\ history[d][id] = 0 /\ history'[d][id] = 1
        /\ \A x \in Devices, k \in Ids :
             ~(x = d /\ k = id) => history'[x][k] = history[x][k]
    BY ReadEffect
  <1>4. /\ processed'[d] = processed[d] \cup {id}
        /\ batch'[d] = batch[d] \ {id} /\ acks'[d] = acks[d] \cup {id}
        /\ conversation'[d].peer = made[id].from
        /\ \A x \in Devices : x # d =>
             /\ processed'[x] = processed[x] /\ batch'[x] = batch[x] /\ acks'[x] = acks[x]
             /\ conversation'[x] = conversation[x]
    BY ReadEffect
  <1>5. Numbered'
    BY <1>1, <1>2 DEF Numbered
  <1>6. \A k \in 1 .. Len(made) : k \in accepted => k \in accepted'
    <2> TAKE k \in 1 .. Len(made)
    <2>1. k \in Ids /\ made[k].to \in Devices
      BY <1>1, TypeFacts DEF Envelope, Numbered
    <2>2. k \in accepted' <=> k \in queue' \/ history'[made[k].to][k] > 0
      BY <1>2, <2>1 DEF accepted, shown, written
    <2>3. history[made[k].to][k] > 0 => history'[made[k].to][k] > 0
      BY <1>3, <2>1
    <2>4. QED BY <1>1, <1>2, <2>2, <2>3, AcceptedFacts
  <1>7. ASSUME NEW x \in Devices
        PROVE  (Polled(x) /\ Waiting(x) /\ Recorded(x))'
    <2>1. Polled(x) /\ Waiting(x) /\ Recorded(x)
      BY <1>1 DEF Bookkeeping
    <2>2. Polled(x)'
      <3>1. AddressedTo(x)' = AddressedTo(x)
        BY <1>2 DEF AddressedTo
      <3>2. CASE x = d
        BY <1>2, <1>3, <1>4, <2>1, <3>1, <3>2 DEF Polled
      <3>3. CASE x # d
        BY <1>2, <1>4, <2>1, <3>1, <3>3 DEF Polled
      <3>4. QED BY <3>2, <3>3
    <2>3. Waiting(x)'
      <3>1. ASSUME NEW item \in outbox[x]
            PROVE  item.id \in unanswered /\ made[item.id].from = x /\ history'[x][item.id] = 0
        <4>1. item.id \in unanswered /\ made[item.id].from = x /\ history[x][item.id] = 0
          BY <2>1 DEF Waiting
        <4>2. item.id \in Ids
          BY <1>1, <4>1 DEF TypeOK
        <4>3. QED BY <1>3, <4>1, <4>2
      <3>2. QED BY <1>2, <3>1 DEF Waiting
    <2>4. Recorded(x)'
      <3>1. ASSUME NEW k \in Ids
            PROVE  /\ k \notin 1 .. Len(made) => history'[x][k] = 0
                   /\ k \in 1 .. Len(made) /\ made[k].to = x =>
                        history'[x][k] = IF k \in processed'[x] THEN 1 ELSE 0
                   /\ k \in 1 .. Len(made) /\ made[k].from = x /\ history'[x][k] # 0 =>
                        history'[x][k] = 1 /\ k \in accepted'
        <4>1. CASE x = d /\ k = id
          BY <1>2, <1>3, <1>4, <4>1
        <4>2. CASE ~(x = d /\ k = id)
          <5>1. history'[x][k] = history[x][k] /\ (k \in processed'[x] <=> k \in processed[x])
            BY <1>3, <1>4, <4>2
          <5>2. QED BY <1>6, <2>1, <5>1 DEF Recorded
        <4>3. QED BY <4>1, <4>2
      <3>2. QED BY <1>2, <3>1 DEF Recorded
    <2>5. QED BY <2>2, <2>3, <2>4
  <1>8. QED BY <1>5, <1>7 DEF Bookkeeping

LEMMA ReadKeepsSessions ==
  ASSUME IInv, NEW d \in Devices, NEW id, NEW after, ReadsAs(d, id, after)
  PROVE  Sessions' /\ Envelopes'
  <1>1. TypeOK /\ Sessions /\ Envelopes
    BY DEF IInv
  <1>2. MintedGrows /\ Owned(d, after, minted'[d]) /\ made' = made /\ outbox' = outbox
    BY DEF ReadsAs, Moves
  <1>3. /\ conversation'[d].session = after /\ stored'[d][made[id].from] = after
        /\ \A q \in Devices : q # made[id].from => stored'[d][q] = stored[d][q]
        /\ \A x \in Devices : x # d =>
             conversation'[x] = conversation[x] /\ stored'[x] = stored[x]
    BY ReadEffect
  <1>4. Envelopes'
    BY <1>1, <1>2, EnvelopesLater DEF Envelopes
  <1>5. ASSUME NEW x \in Devices
        PROVE  /\ conversation'[x].session # NoSession =>
                    Owned(x, conversation'[x].session, minted'[x])
               /\ \A p \in Devices :
                    stored'[x][p] # NoSession => Owned(x, stored'[x][p], minted'[x])
               /\ \A item \in outbox'[x] : Owned(x, item.after, minted'[x])
    <2>1. /\ conversation[x].session # NoSession =>
                Owned(x, conversation[x].session, minted'[x])
          /\ \A p \in Devices : stored[x][p] # NoSession => Owned(x, stored[x][p], minted'[x])
          /\ \A item \in outbox[x] : Owned(x, item.after, minted'[x])
      BY <1>1, <1>2, SessionsLater
    <2>2. CASE x = d
      BY <1>2, <1>3, <2>1, <2>2
    <2>3. CASE x # d
      BY <1>2, <1>3, <2>1, <2>3
    <2>4. QED BY <2>2, <2>3
  <1>6. Sessions'
    BY <1>5 DEF Sessions
  <1>7. QED BY <1>4, <1>6

LEMMA ReadKeepsCurrent ==
  ASSUME IInv, NEW d \in Devices, NEW id, NEW after, ReadsAs(d, id, after),
         NEW x \in Devices, Answered(x)'
  PROVE  Current(x)'
  <1> DEFINE p == made[id].from
  <1>1. TypeOK /\ Sessions /\ Envelopes
    BY DEF IInv
  <1>2. Moves(d, p, after) /\ made' = made /\ unanswered' = unanswered
    BY DEF ReadsAs
  <1>3. /\ p \in Devices
        /\ conversation'[d].peer = p /\ conversation'[d].session = after
        /\ stored'[d][p] = after
        /\ \A q \in Devices : q # p => stored'[d][q] = stored[d][q]
        /\ \A y \in Devices : y # d =>
             conversation'[y] = conversation[y] /\ stored'[y] = stored[y]
    BY ReadEffect
  <1>4. StoreIsCurrent(x) /\ NumberedOnce(x)
    BY <1>2 DEF IInv, Answered, Current
  <1>5. NumberedOnce(x)'
    BY <1>2, <1>4 DEF NumberedOnce
  <1>6. CASE x # d
    BY <1>2, <1>3, <1>4, <1>5, <1>6 DEF StoreIsCurrent, Current
  <1>7. CASE x = d
    <2>1. /\ \A q \in Devices :
               q # p /\ stored[d][q] # NoSession /\ after.self[2] > 0 =>
                 stored[d][q].self # after.self
          /\ \A i \in 1 .. Len(made) :
               made[i].from = d /\ made[i].wire.dh = after.self => made[i].wire.n < after.ns
      <3>1. minted[d] \in Nat /\ after.self[2] \in Nat
        BY <1>1, <1>2, TypeFacts DEF Moves, Session, PublicKey
      <3>2. \A q \in Devices : stored[d][q] # NoSession => stored[d][q].self[2] <= minted[d]
        BY <1>1 DEF Sessions, Owned
      <3>3. \A i \in 1 .. Len(made) :
              made[i].from = d => made[i].wire.dh[2] <= minted[d] /\ made[i].wire.dh[2] > 0
        BY <1>1 DEF Envelopes, Keyed
      <3>4. CASE /\ conversation[d].peer = p /\ conversation[d].session # NoSession
                 /\ after.self = conversation[d].session.self
                 /\ after.ns = conversation[d].session.ns
        <4>1. stored[d][p] = conversation[d].session /\ stored[d][p] # NoSession
          BY <1>4, <1>7, <3>4 DEF StoreIsCurrent
        <4>2. QED BY <1>3, <1>4, <1>7, <3>4, <4>1 DEF StoreIsCurrent
      <3>5. CASE after.self[2] > minted[d]
        BY <3>1, <3>2, <3>3, <3>5
      <3>6. CASE after.self[2] = 0
        BY <3>1, <3>3, <3>6
      <3>7. QED BY <1>2, <3>4, <3>5, <3>6 DEF Moves
    <2> HIDE DEF p
    <2>2. \A q, r \in Devices :
            /\ stored'[d][q] # NoSession /\ stored'[d][r] # NoSession
            /\ stored'[d][q].self = stored'[d][r].self /\ stored'[d][q].self[2] > 0
            => q = r
      BY <1>3, <1>4, <1>7, <2>1 DEF StoreIsCurrent
    <2>3. \A q \in Devices, i \in 1 .. Len(made) :
            /\ stored'[d][q] # NoSession
            /\ made[i].from = d /\ made[i].wire.dh = stored'[d][q].self
            => made[i].wire.n < stored'[d][q].ns
      BY <1>3, <1>4, <1>7, <2>1 DEF StoreIsCurrent
    <2>4. StoreIsCurrent(d)'
      BY <1>2, <1>3, <2>2, <2>3 DEF StoreIsCurrent
    <2>5. QED BY <1>5, <1>7, <2>4 DEF Current
  <1>8. QED BY <1>6, <1>7

LEMMA ReadKeeps ==
  ASSUME IInv, NEW d \in Devices, NEW id, NEW after, ReadsAs(d, id, after)
  PROVE  IInv'
  <1>1. TypeOK'
    BY ReadKeepsType
  <1>2. Bookkeeping'
    BY ReadKeepsBooks
  <1>3. Sessions' /\ Envelopes'
    BY ReadKeepsSessions
  <1>4. \A x \in Devices : Answered(x)' => Current(x)'
    BY ReadKeepsCurrent
  <1>5. QED BY <1>1, <1>2, <1>3, <1>4 DEF IInv

-----------------------------------------------------------------------------
(* The invariant.                                                          *)

LEMMA SendKeeps ==
  ASSUME IInv, NEW d \in Devices, NEW reached \in BOOLEAN,
         NEW e, NEW after, NEW id, Sends(d, e, id, after, reached)
  PROVE  IInv'
  <1>1. TypeOK /\ Bookkeeping /\ Sessions /\ Envelopes
        /\ \A x \in Devices : Answered(x) => Current(x)
    BY DEF IInv
  <1>2. TypeOK'
    BY <1>1, SendKeepsType
  <1>3. Bookkeeping'
    BY <1>1, SendKeepsBooks
  <1>4. Sessions' /\ Envelopes'
    BY <1>1, SendKeepsSessions
  <1>5. \A x \in Devices : Answered(x)' => Current(x)'
    BY <1>1, SendKeepsCurrent
  <1>6. QED BY <1>2, <1>3, <1>4, <1>5 DEF IInv

LEMMA InitHolds == Init => IInv
  <1> SUFFICES ASSUME Init PROVE IInv
    OBVIOUS
  <1>1. Closed \in Conversation /\ Closed.session = NoSession /\ Closed.peer = NoDevice
    BY DEF Closed, Conversation
  <1>2. TypeOK
    BY <1>1, BoundsAssumption DEF Init, TypeOK
  <1>3. Len(made) = 0 /\ 1 .. Len(made) = {}
    BY DEF Init
  <1>4. Numbered
    BY <1>3 DEF Init, Numbered
  <1>5. ASSUME NEW d \in Devices
        PROVE  Polled(d) /\ Waiting(d) /\ Recorded(d)
    <2>1. Polled(d)
      BY <1>1, NoDeviceAssumption DEF Init, Polled
    <2>2. Waiting(d)
      BY DEF Init, Waiting
    <2>3. Recorded(d)
      BY <1>3 DEF Init, Recorded
    <2>4. QED BY <2>1, <2>2, <2>3
  <1>6. Sessions
    BY <1>1 DEF Init, Sessions
  <1>7. Envelopes
    BY <1>3 DEF Envelopes
  <1>8. ASSUME NEW d \in Devices
        PROVE  Current(d)
    BY <1>1, <1>3 DEF Init, Current, StoreIsCurrent, NumberedOnce
  <1>9. QED BY <1>2, <1>4, <1>5, <1>6, <1>7, <1>8 DEF IInv, Bookkeeping

\* A step writes, retries or reads one message, or is quiet.
LEMMA StepKinds ==
  ASSUME IInv, [Next]_vars
  PROVE  \/ Quiet
         \/ \E d \in Devices, reached \in BOOLEAN : \E e, after, id : Sends(d, e, id, after, reached)
         \/ \E d \in Devices, reached \in BOOLEAN, answered \in BOOLEAN :
              \E item \in outbox[d] : Retry(d, item, reached, answered)
         \/ \E d \in Devices : \E id \in batch[d] : \E after : ReadsAs(d, id, after)
  <1> DEFINE Goal ==
        \/ Quiet
        \/ \E d \in Devices, reached \in BOOLEAN : \E e, after, id : Sends(d, e, id, after, reached)
        \/ \E d \in Devices, reached \in BOOLEAN, answered \in BOOLEAN :
             \E item \in outbox[d] : Retry(d, item, reached, answered)
        \/ \E d \in Devices : \E id \in batch[d] : \E after : ReadsAs(d, id, after)
  <1>1. ASSUME UNCHANGED vars
        PROVE  Quiet
    <2>1. /\ conversation' = conversation /\ batch' = batch /\ acks' = acks
          /\ stored' = stored /\ outbox' = outbox /\ processed' = processed
          /\ history' = history /\ queue' = queue /\ made' = made /\ minted' = minted
          /\ unanswered' = unanswered /\ restarts' = restarts
      BY <1>1 DEF vars, memory, store
    <2>2. TypeOK /\ Bookkeeping
      BY DEF IInv
    <2>3. \A d \in Devices : AddressedTo(d)' = AddressedTo(d)
      BY <2>1 DEF AddressedTo
    <2>4. \A x \in Devices : batch'[x] \subseteq AddressedTo(x)' /\ acks'[x] \subseteq processed[x]
      BY <2>1, <2>2, <2>3 DEF Bookkeeping, Polled
    <2>5. QED
      BY <2>1, <2>2, <2>4 DEF Quiet, TypeOK, Reopened, store
  <1>2. ASSUME NEW d \in Devices, Step(d)
        PROVE  Goal
    <2>1. ASSUME NEW p \in Devices, Resolve(d, p) PROVE Goal
      BY <2>1, ResolveIsQuiet
    <2>2. ASSUME NEW reached \in BOOLEAN, NEW answered \in BOOLEAN,
                 SendFirst(d, reached, answered) \/ SendNext(d, reached, answered)
          PROVE  Goal
      <3>1. TypeOK /\ Bookkeeping /\ Sessions
        BY DEF IInv
      <3>2. MaySend(d, reached, answered)
        BY <2>2 DEF SendFirst, SendNext
      <3>3. PICK e, after : Sealed(d, e, after) /\ SendPayload(d, e, after, reached, answered)
        BY <2>2, <3>1, FirstIsSealed, NextIsSealed
      <3>4. QED BY <3>1, <3>2, <3>3, SendEffect
    <2>3. ASSUME NEW reached \in BOOLEAN, NEW answered \in BOOLEAN, NEW item \in outbox[d],
                 Retry(d, item, reached, answered)
          PROVE  Goal
      BY <2>3
    <2>4. ASSUME Pull(d) PROVE Goal
      BY <2>4, PullIsQuiet
    <2>5. ASSUME NEW id \in batch[d], SkipProcessed(d, id) PROVE Goal
      BY <2>5, SkipProcessedIsQuiet
    <2>6. ASSUME NEW id \in batch[d], Read(d, id) PROVE Goal
      BY <2>6, ReadCases
    <2>7. ASSUME NEW reached \in BOOLEAN, Ack(d, reached) PROVE Goal
      BY <2>7, AckIsQuiet
    <2>8. ASSUME Restart(d) PROVE Goal
      BY <2>8, RestartIsQuiet
    <2> HIDE DEF Goal
    <2>9. QED BY <1>2, <2>1, <2>2, <2>3, <2>4, <2>5, <2>6, <2>7, <2>8, Zenon DEF Step
  <1>3. QED BY <1>1, <1>2 DEF Next

LEMMA NextKeeps == IInv /\ [Next]_vars => IInv'
  <1> SUFFICES ASSUME IInv, [Next]_vars PROVE IInv'
    OBVIOUS
  <1>1. ASSUME NEW d \in Devices, NEW reached \in BOOLEAN, NEW e, NEW after, NEW id,
               Sends(d, e, id, after, reached)
        PROVE  IInv'
    BY <1>1, SendKeeps
  <1>2. ASSUME NEW d \in Devices, NEW id \in batch[d], NEW after, ReadsAs(d, id, after)
        PROVE  IInv'
    BY <1>2, ReadKeeps
  <1>3. QED BY <1>1, <1>2, StepKinds, QuietKeeps, RetryKeeps

THEOREM Invariance == Spec => []IInv
  <1>1. QED BY InitHolds, NextKeeps, PTL DEF Spec

\* Type correctness: what the client keeps in memory and in its store, and
\* what the server queues, is what their declarations say.
THEOREM TypeCorrect == Spec => []TypeOK
  <1>1. IInv => TypeOK
    BY DEF IInv
  <1>2. QED BY <1>1, Invariance, PTL

-----------------------------------------------------------------------------
(* Fresh keys.                                                             *)

LEMMA LastSecret ==
  ASSUME NEW s \in RootKey, NEW t \in RootKey,
         NEW a \in PublicKey, NEW b \in PublicKey, NEW k \in PublicKey, NEW l \in PublicKey,
         KdfRk(s, Agree(a, b)) = KdfRk(t, Agree(k, l))
  PROVE  s = t /\ ((a = k /\ b = l) \/ (a = l /\ b = k))
  <1>1. s \in Seq(SUBSET PublicKey) /\ t \in Seq(SUBSET PublicKey)
    BY DEF RootKey
  <1>2. Agree(a, b) \in SUBSET PublicKey /\ Agree(k, l) \in SUBSET PublicKey
    BY DEF Agree
  <1>3. s = t /\ Agree(a, b) = Agree(k, l)
    BY <1>1, <1>2, AppendInjective DEF KdfRk
  <1>4. QED BY <1>3 DEF Agree

\* A chain branches off from one key of one device: were it to branch off from
\* either of two, each of them would be older than the other.
LEMMA ChainHasOneOwner ==
  ASSUME NEW root, NEW k \in PublicKey, NEW l \in PublicKey, k[2] > 0, l[2] > 0,
         BranchesFrom(root, k, k[1]), BranchesFrom(root, l, l[1])
  PROVE  k = l
  <1>1. PICK s \in RootKey, o \in PublicKey :
          /\ o[1] # k[1] /\ root = Append(s, Agree(k, o))
          /\ \/ o[2] = 0
             \/ \E start \in RootKey, old \in PublicKey :
                  old # k /\ s = Append(start, Agree(old, o))
    BY DEF BranchesFrom
  <1>2. PICK t \in RootKey, p \in PublicKey :
          /\ p[1] # l[1] /\ root = Append(t, Agree(l, p))
          /\ \/ p[2] = 0
             \/ \E start \in RootKey, old \in PublicKey :
                  old # l /\ t = Append(start, Agree(old, p))
    BY DEF BranchesFrom
  <1>3. s = t /\ ((k = l /\ o = p) \/ (k = p /\ o = l))
    <2>1. KdfRk(s, Agree(k, o)) = KdfRk(t, Agree(l, p))
      BY <1>1, <1>2 DEF KdfRk
    <2>2. QED BY <2>1, LastSecret
  <1>4. ASSUME k = p, o = l PROVE FALSE
    <2>1. PICK u \in RootKey, j \in PublicKey : j # k /\ s = Append(u, Agree(j, o))
      BY <1>1, <1>4
    <2>2. PICK v \in RootKey, i \in PublicKey : i # l /\ t = Append(v, Agree(i, p))
      BY <1>2, <1>4
    <2>3. KdfRk(u, Agree(j, o)) = KdfRk(v, Agree(i, p))
      BY <1>3, <2>1, <2>2 DEF KdfRk
    <2>4. j = p \/ o = p
      BY <2>3, LastSecret
    <2>5. QED BY <1>1, <1>4, <2>1, <2>4
  <1>5. QED BY <1>3, <1>4

LEMMA FreshFollows == IInv => AnsweredKeysAreFresh
  <1> SUFFICES ASSUME IInv, NEW d \in Devices, Answered(d),
                      NEW i \in 1 .. Len(made), NEW j \in 1 .. Len(made),
                      made[i].from = d, made[i].wire.key = made[j].wire.key
               PROVE  i = j
    BY DEF AnsweredKeysAreFresh
  <1> DEFINE k == made[i].wire.dh
             l == made[j].wire.dh
  <1>1. TypeOK /\ Envelopes /\ NumberedOnce(d)
    BY DEF IInv, Current
  <1>2. k \in PublicKey /\ l \in PublicKey
    BY <1>1, TypeFacts DEF Envelope, Message
  <1>3. /\ k[1] = d /\ k[2] > 0 /\ BranchesFrom(made[i].wire.key.root, k, k[1])
        /\ made[i].wire.n = made[i].wire.key.step
    BY <1>1 DEF Envelopes, Keyed
  <1>4. /\ l[1] = made[j].from /\ l[2] > 0 /\ BranchesFrom(made[j].wire.key.root, l, l[1])
        /\ made[j].wire.n = made[j].wire.key.step
    BY <1>1 DEF Envelopes, Keyed
  <1> HIDE DEF k, l
  <1>5. k = l
    BY <1>2, <1>3, <1>4, ChainHasOneOwner
  <1>6. made[j].from = d /\ made[i].wire.n = made[j].wire.n
    BY <1>3, <1>4, <1>5
  <1>7. QED BY <1>1, <1>5, <1>6 DEF NumberedOnce, k, l

\* A device all of whose sends were answered never seals two messages under
\* one key, and no other device seals one under a key of its: restarts and
\* reopened conversations (resolve, load_session) do not turn its ratchet back.
THEOREM AnsweredKeysStayFresh == Spec => []AnsweredKeysAreFresh
  <1>1. QED BY FreshFollows, Invariance, PTL

\* ... and a restart forgets no step of the ratchet: commit_incoming_message
\* and commit_outgoing_delivery keep the stored session at the one in memory.
THEOREM StoreKeepsUp == Spec => []RestartForgetsNothing
  <1>1. IInv => RestartForgetsNothing
    BY DEF IInv, Current, StoreIsCurrent, RestartForgetsNothing
  <1>2. QED BY <1>1, Invariance, PTL

-----------------------------------------------------------------------------
(* What a session can read no more.                                        *)

\* The chains of a session grow out of one secret, that of its handshake, each
\* longer than those before it; the keys skipped on one chain are all of one DH
\* key, dh on the last chain, and numbered as they are derived.
Ordered(s, dh) ==
  /\ s.root # << >> /\ s.recvChain.root # << >>
  /\ s.recvChain.root[1] = s.root[1] /\ Len(s.recvChain.root) <= Len(s.root)
  /\ s.recvChain.step = s.nr
  /\ s.sendChain # NoKey => s.sendChain.root[1] = s.root[1]
  /\ \A e \in s.skipped :
       /\ e.key.root # << >> /\ e.key.root[1] = s.root[1] /\ e.key.step = e.n
       /\ Len(e.key.root) <= Len(s.recvChain.root)
       /\ e.key.root = s.recvChain.root => e.dh = dh /\ e.n < s.nr
  /\ \A e, f \in s.skipped : e.key.root = f.key.root => e.dh = f.dh

\* s has the key behind it.
Past(s, key) ==
  /\ \A e \in s.skipped : e.key # key
  /\ key.root[1] = s.root[1] => Len(key.root) <= Len(s.recvChain.root)
  /\ key.root = s.recvChain.root => key.step < s.recvChain.step

\* r can read what s can, or less.
Follows(r, s) ==
  /\ r.root[1] = s.root[1]
  /\ \A key \in ChainKey : Past(s, key) => Past(r, key)

LEMMA SkipToOrdered ==
  ASSUME NEW s \in Session, NEW dh \in PublicKey, NEW until \in Nat, Ordered(s, dh)
  PROVE  LET r == SkipTo(s, dh, until)
         IN  /\ r \in Session /\ Ordered(r, dh) /\ Follows(r, s)
             /\ r.root = s.root /\ r.remote = s.remote
             /\ r.recvChain.root = s.recvChain.root
             /\ r.recvChain.step >= s.recvChain.step
  <1>1. s.nr \in Nat /\ s.recvChain \in ChainKey /\ s.recvChain.step \in Nat
    BY DEF Session, ChainKey
  <1>2. CASE until <= s.nr
    BY <1>1, <1>2 DEF SkipTo, Follows
  <1>3. CASE ~(until <= s.nr)
    <2> DEFINE stashed == s.nr .. until - 1
               fresh == {[dh |-> dh, n |-> k, key |-> KdfCk(s.recvChain, k - s.nr)] : k \in stashed}
               old == {e \in s.skipped : ~(e.dh = dh /\ e.n \in stashed)}
               chain == KdfCk(s.recvChain, until - s.nr)
               r == SkipTo(s, dh, until)
    <2>1. r = [s EXCEPT !.recvChain = chain, !.nr = until, !.skipped = old \cup fresh]
      BY <1>3, Zenon DEF SkipTo
    <2>2. /\ chain.root = s.recvChain.root /\ chain.step = until
      <3>1. until - s.nr \in Nat
        BY <1>1, <1>3
      <3>2. chain = [root |-> s.recvChain.root, label |-> s.recvChain.label,
                     step |-> s.recvChain.step + (until - s.nr)]
        BY <1>1, <3>1, KdfCkType
      <3> HIDE DEF chain
      <3> QED BY <1>1, <3>2 DEF Ordered
    <2>3. \A e \in fresh : /\ e.dh = dh /\ e.n \in s.nr .. until - 1
                           /\ e.key.root = s.recvChain.root /\ e.key.step = e.n
      <3> SUFFICES ASSUME NEW k \in stashed
                   PROVE  LET c == KdfCk(s.recvChain, k - s.nr)
                          IN  c.root = s.recvChain.root /\ c.step = k
        OBVIOUS
      <3>1. k - s.nr \in Nat
        BY <1>1
      <3>2. KdfCk(s.recvChain, k - s.nr) =
              [root |-> s.recvChain.root, label |-> s.recvChain.label,
               step |-> s.recvChain.step + (k - s.nr)]
        BY <1>1, <3>1, KdfCkType
      <3> QED BY <1>1, <3>2 DEF Ordered
    <2>4. \A e \in old : e \in s.skipped
      OBVIOUS
    <2>5. r \in Session
      BY SkipToType
    <2> HIDE DEF chain, fresh, old, r
    <2>6. /\ r.root = s.root /\ r.remote = s.remote /\ r.recvChain = chain /\ r.nr = until
          /\ r.skipped = old \cup fresh /\ r.sendChain = s.sendChain
      BY <2>1 DEF Session
    <2>7. \A e \in s.skipped : e.n \in Nat
      BY DEF Session, SkippedKey
    <2>8. \A e \in r.skipped :
            \/ e \in s.skipped
            \/ /\ e.dh = dh /\ e.n \in s.nr .. until - 1
               /\ e.key.root = s.recvChain.root /\ e.key.step = e.n
      BY <2>3, <2>4, <2>6
    <2>9. Ordered(r, dh)
      <3>1. /\ r.root # << >> /\ r.recvChain.root # << >>
            /\ r.recvChain.root[1] = r.root[1] /\ Len(r.recvChain.root) <= Len(r.root)
            /\ r.recvChain.step = r.nr
            /\ r.sendChain # NoKey => r.sendChain.root[1] = r.root[1]
        BY <2>2, <2>6 DEF Ordered
      <3>2. ASSUME NEW e \in r.skipped
            PROVE  /\ e.key.root # << >> /\ e.key.root[1] = r.root[1] /\ e.key.step = e.n
                   /\ Len(e.key.root) <= Len(r.recvChain.root)
                   /\ e.key.root = r.recvChain.root => e.dh = dh /\ e.n < r.nr
        <4>1. CASE e \in s.skipped
          BY <1>1, <1>3, <2>2, <2>6, <2>7, <4>1 DEF Ordered
        <4>2. CASE e \notin s.skipped
          <5>1. Len(s.recvChain.root) \in Nat
            BY <1>1 DEF ChainKey, RootKey
          <5> QED BY <1>1, <2>2, <2>6, <2>8, <4>2, <5>1 DEF Ordered
        <4> QED BY <4>1, <4>2
      <3>3. ASSUME NEW e \in r.skipped, NEW f \in r.skipped, e.key.root = f.key.root
            PROVE  e.dh = f.dh
        BY <2>8, <3>3 DEF Ordered
      <3> QED BY <3>1, <3>2, <3>3 DEF Ordered
    <2>10. Follows(r, s)
      <3> SUFFICES ASSUME NEW key \in ChainKey, Past(s, key) PROVE Past(r, key)
        BY <2>6 DEF Follows
      <3>1. key.step \in Nat
        BY DEF ChainKey
      <3>2. ASSUME NEW e \in r.skipped PROVE e.key # key
        BY <1>1, <2>8, <3>1 DEF Past, Ordered
      <3> QED BY <1>1, <1>3, <2>2, <2>6, <3>1, <3>2 DEF Past, Ordered
    <2> QED BY <1>1, <1>3, <2>2, <2>5, <2>6, <2>9, <2>10 DEF r, Ordered
  <1> QED BY <1>2, <1>3

LEMMA StepOrdered ==
  ASSUME minted \in [Devices -> Nat], NEW s \in Session, NEW dh, Ordered(s, dh),
         NEW remote \in PublicKey
  PROVE  LET r == DhRatchetStep(s, remote)
         IN  /\ r \in Session /\ Ordered(r, remote) /\ Follows(r, s)
             /\ r.remote = remote
             /\ r.recvChain.root[1] = s.root[1]
             /\ Len(r.recvChain.root) > Len(s.root)
  <1> DEFINE one == KdfRk(s.root, Agree(s.self, remote))
             two == KdfRk(one, Agree(FreshKey(s.self), remote))
             r == DhRatchetStep(s, remote)
  <1>1. s.root \in RootKey /\ s.self \in PublicKey /\ s.recvChain \in ChainKey
    BY DEF Session
  <1>2. FreshKey(s.self) \in PublicKey
    BY <1>1, FreshKeyType
  <1>3. one \in RootKey /\ one = Append(s.root, Agree(s.self, remote))
    BY <1>1, KdfRkType
  <1>4. two \in RootKey /\ two = Append(one, Agree(FreshKey(s.self), remote))
    BY <1>2, <1>3, KdfRkType
  <1>5. r = [s EXCEPT !.pn = s.ns, !.ns = 0, !.nr = 0, !.remote = remote,
                      !.self = FreshKey(s.self), !.recvChain = ChainOf(one),
                      !.sendChain = ChainOf(two), !.root = two]
    BY DEF DhRatchetStep
  <1>6. ChainOf(one).root = one /\ ChainOf(one).step = 0 /\ ChainOf(two).root = two
    BY <1>3, <1>4, ChainOfType
  <1>7. r \in Session
    BY StepType
  <1>8. /\ s.root # << >> /\ Agree(s.self, remote) \in SUBSET PublicKey
        /\ Agree(FreshKey(s.self), remote) \in SUBSET PublicKey
    BY <1>1, <1>2 DEF Ordered, Agree
  <1>9. /\ one # << >> /\ one[1] = s.root[1] /\ Len(one) = Len(s.root) + 1
        /\ two # << >> /\ two[1] = s.root[1] /\ Len(two) = Len(s.root) + 2
        /\ Len(s.root) \in Nat
    <2>1. /\ one # << >> /\ one[1] = s.root[1] /\ Len(one) = Len(s.root) + 1
          /\ Len(s.root) \in Nat
      BY <1>1, <1>3, <1>8 DEF RootKey
    <2> HIDE DEF one
    <2>2. /\ two # << >> /\ two[1] = one[1] /\ Len(two) = Len(one) + 1
      BY <1>3, <1>4, <1>8, <2>1 DEF RootKey
    <2> QED BY <2>1, <2>2
  <1> HIDE DEF one, two, r
  <1>10. /\ r.root = two /\ r.recvChain.root = one /\ r.recvChain.step = 0 /\ r.nr = 0
         /\ r.remote = remote /\ r.skipped = s.skipped /\ r.sendChain.root = two
    BY <1>5, <1>6 DEF Session
  <1>11. Len(s.recvChain.root) \in Nat /\ Len(s.recvChain.root) <= Len(s.root)
    BY <1>1 DEF Ordered, ChainKey, RootKey
  <1>12. \A e \in s.skipped : Len(e.key.root) <= Len(s.root) /\ e.key.root # one
    <2> TAKE e \in s.skipped
    <2>1. Len(e.key.root) \in Nat
      BY DEF Session, SkippedKey, ChainKey, RootKey
    <2> QED BY <1>9, <1>11, <2>1 DEF Ordered
  <1>13. Ordered(r, remote)
    <2>1. ASSUME NEW e \in s.skipped
          PROVE  /\ e.key.root # << >> /\ e.key.root[1] = s.root[1] /\ e.key.step = e.n
                 /\ Len(e.key.root) <= Len(one) /\ e.key.root # one
      <3>1. Len(e.key.root) \in Nat
        BY DEF Session, SkippedKey, ChainKey, RootKey
      <3> QED BY <1>9, <1>12, <3>1 DEF Ordered
    <2> QED BY <1>9, <1>10, <2>1 DEF Ordered
  <1>14. Follows(r, s)
    <2> SUFFICES ASSUME NEW key \in ChainKey, Past(s, key) PROVE Past(r, key)
      BY <1>9, <1>10 DEF Follows
    <2>1. Len(key.root) \in Nat
      BY DEF ChainKey, RootKey
    <2>2. key.root[1] = s.root[1] => Len(key.root) <= Len(s.root)
      BY <1>11, <2>1 DEF Past
    <2> QED BY <1>9, <1>10, <2>1, <2>2 DEF Past
  <1> QED BY <1>7, <1>9, <1>10, <1>13, <1>14 DEF r

LEMMA TakenOrdered ==
  ASSUME NEW s \in Session, NEW dh, Ordered(s, dh)
  PROVE  LET r == KeyTaken(s)
         IN  /\ r \in Session /\ Ordered(r, dh) /\ Follows(r, s)
             /\ r.remote = s.remote /\ Past(r, s.recvChain)
  <1> DEFINE b == KdfCk(s.recvChain, 1)
             r == KeyTaken(s)
  <1>1. s.recvChain \in ChainKey /\ s.nr \in Nat /\ s.recvChain.step \in Nat
    BY DEF Session, ChainKey
  <1>2. b.root = s.recvChain.root /\ b.step = s.nr + 1
    <2>1. 1 \in Nat
      OBVIOUS
    <2>2. b = [root |-> s.recvChain.root, label |-> s.recvChain.label, step |-> s.recvChain.step + 1]
      BY <1>1, <2>1, KdfCkType
    <2> HIDE DEF b
    <2> QED BY <2>2 DEF Ordered
  <1>3. r = [s EXCEPT !.recvChain = b, !.nr = s.nr + 1]
    BY DEF KeyTaken
  <1>4. r \in Session
    BY KeyTakenType
  <1> HIDE DEF b, r
  <1>5. /\ r.root = s.root /\ r.recvChain = b /\ r.nr = s.nr + 1
        /\ r.skipped = s.skipped /\ r.remote = s.remote /\ r.sendChain = s.sendChain
    BY <1>3 DEF Session
  <1>6. \A e \in s.skipped : e.n \in Nat
    BY DEF Session, SkippedKey
  <1>7. Ordered(r, dh)
    BY <1>1, <1>2, <1>5, <1>6 DEF Ordered
  <1>8. Follows(r, s)
    <2> SUFFICES ASSUME NEW key \in ChainKey, Past(s, key) PROVE Past(r, key)
      BY <1>5 DEF Follows
    <2>1. key.step \in Nat
      BY DEF ChainKey
    <2> QED BY <1>1, <1>2, <1>5, <2>1 DEF Past, Ordered
  <1>9. Past(r, s.recvChain)
    <2>1. \A e \in s.skipped : e.key # s.recvChain
      BY <1>1, <1>6 DEF Ordered
    <2>2. Len(s.recvChain.root) \in Nat
      BY <1>1 DEF ChainKey, RootKey
    <2> QED BY <1>1, <1>2, <1>5, <2>1, <2>2 DEF Past, Ordered
  <1> QED BY <1>4, <1>5, <1>7, <1>8, <1>9 DEF r

\* Up to where decrypt_inner authenticates.
LEMMA PositionedOrdered ==
  ASSUME minted \in [Devices -> Nat], NEW s \in Session, NEW m \in Message,
         s.remote = NoKey => s.skipped = {}, Ordered(s, s.remote)
  PROVE  LET r == Positioned(s, m)
         IN  /\ r \in Session /\ Ordered(r, m.dh) /\ Follows(r, s) /\ r.remote = m.dh
             /\ \/ /\ r.recvChain.root = s.recvChain.root
                   /\ r.recvChain.step >= s.recvChain.step
                \/ r.recvChain.root[1] = s.root[1] /\ Len(r.recvChain.root) > Len(s.root)
  <1> DEFINE old == OldChainStashed(s, m)
             on == OnChain(s, m)
             r == Positioned(s, m)
  <1>1. m.dh \in PublicKey /\ m.n \in Nat /\ m.pn \in Nat
    BY DEF Message
  <1>2. PICK dh \in PublicKey : old = SkipTo(s, dh, m.pn) /\ Ordered(s, dh)
    <2>1. s.remote \in PublicKey \cup {NoKey}
      BY DEF Session
    <2> QED BY <1>1, <2>1 DEF OldChainStashed, Ordered
  <1>3. /\ old \in Session /\ Ordered(old, dh) /\ Follows(old, s) /\ old.root = s.root
    BY <1>1, <1>2, SkipToOrdered
  <1>4. /\ on \in Session /\ Ordered(on, m.dh) /\ Follows(on, s) /\ on.remote = m.dh
        /\ \/ on = s
           \/ on.recvChain.root[1] = s.root[1] /\ Len(on.recvChain.root) > Len(s.root)
    <2>1. CASE NeedsStep(s, m)
      <3>1. on = DhRatchetStep(old, m.dh)
        BY <2>1 DEF OnChain
      <3> HIDE DEF old, on
      <3> QED BY <1>1, <1>3, <3>1, StepOrdered DEF Follows
    <2>2. CASE ~NeedsStep(s, m)
      BY <2>2 DEF OnChain, NeedsStep, Follows
    <2> QED BY <2>1, <2>2
  <1>5. r = SkipTo(on, m.dh, m.n)
    BY DEF Positioned
  <1> HIDE DEF old, on, r
  <1>6. /\ r \in Session /\ Ordered(r, m.dh) /\ Follows(r, on) /\ r.remote = on.remote
        /\ r.recvChain.root = on.recvChain.root /\ r.recvChain.step >= on.recvChain.step
    BY <1>1, <1>4, <1>5, SkipToOrdered
  <1> QED BY <1>4, <1>6 DEF r, Follows

\* A key that is behind a session opens nothing.
LEMMA PastOpensNothing ==
  ASSUME minted \in [Devices -> Nat], NEW s \in Session, NEW m \in Message,
         s.remote = NoKey => s.skipped = {}, Ordered(s, s.remote), Past(s, m.key)
  PROVE  ~Opens(s, m)
  <1>1. ~OpensFromStore(s, m)
    BY DEF OpensFromStore, StoredKeys, Past
  <1>2. ~OpensFromChain(s, m)
    <2> SUFFICES ASSUME Positioned(s, m).recvChain = m.key PROVE FALSE
      BY DEF OpensFromChain
    <2>1. \/ /\ m.key.root = s.recvChain.root
             /\ m.key.step >= s.recvChain.step
          \/ m.key.root[1] = s.root[1] /\ Len(m.key.root) > Len(s.root)
      BY PositionedOrdered
    <2>2. /\ s.recvChain.step \in Nat /\ m.key.step \in Nat
          /\ Len(s.root) \in Nat /\ Len(s.recvChain.root) \in Nat /\ Len(m.key.root) \in Nat
      BY DEF Session, Message, ChainKey, RootKey
    <2>3. Len(s.recvChain.root) <= Len(s.root)
      BY DEF Ordered
    <2> QED BY <2>1, <2>2, <2>3 DEF Past
  <1> QED BY <1>1, <1>2 DEF Opens

\* decrypt leaves the key it has used behind, and what was behind already.
LEMMA OpenedIsPast ==
  ASSUME minted \in [Devices -> Nat], NEW s \in Session, NEW m \in Message,
         s.remote = NoKey => s.skipped = {}, Ordered(s, s.remote), Opens(s, m)
  PROVE  LET r == Opened(s, m)
         IN  /\ r.remote # NoKey /\ Ordered(r, r.remote) /\ Follows(r, s)
             /\ Past(r, m.key) /\ m.key.root[1] = s.root[1]
  <1> DEFINE r == Opened(s, m)
  <1>1. CASE OpensFromStore(s, m)
    <2>1. r = [s EXCEPT !.skipped = s.skipped \ StoredKeys(s, m)]
      BY <1>1 DEF Opened, KeyRemoved
    <2> HIDE DEF r
    <2>2. /\ r.root = s.root /\ r.recvChain = s.recvChain /\ r.nr = s.nr /\ r.remote = s.remote
          /\ r.skipped = s.skipped \ StoredKeys(s, m) /\ r.sendChain = s.sendChain
      BY <2>1 DEF Session
    <2>3. PICK e \in s.skipped : e.dh = m.dh /\ e.n = m.n /\ e.key = m.key
      BY <1>1 DEF OpensFromStore, StoredKeys
    <2>4. Ordered(r, r.remote)
      BY <2>2 DEF Ordered
    <2>5. Follows(r, s)
      BY <2>2 DEF Follows, Past
    <2>6. ASSUME NEW f \in r.skipped, f.key = m.key PROVE FALSE
      <3>1. f.dh = e.dh /\ f.n = e.n
        BY <2>2, <2>3, <2>6 DEF Ordered
      <3> QED BY <2>2, <2>3, <2>6, <3>1 DEF StoredKeys
    <2>7. Past(r, m.key)
      BY <2>2, <2>3, <2>6 DEF Past, Ordered
    <2>8. m.key.root[1] = s.root[1]
      BY <2>3 DEF Ordered
    <2> QED BY <2>2, <2>3, <2>4, <2>5, <2>7, <2>8 DEF r
  <1>2. CASE ~OpensFromStore(s, m)
    <2> DEFINE at == Positioned(s, m)
    <2>1. at.recvChain = m.key
      BY <1>2 DEF Opens, OpensFromChain
    <2>2. /\ at \in Session /\ Ordered(at, m.dh) /\ Follows(at, s) /\ at.remote = m.dh
      BY PositionedOrdered
    <2>3. r = KeyTaken(at)
      BY <1>2 DEF Opened
    <2> HIDE DEF at, r
    <2>4. /\ r \in Session /\ Ordered(r, m.dh) /\ Follows(r, at)
          /\ r.remote = at.remote /\ Past(r, at.recvChain)
      BY <2>2, <2>3, TakenOrdered
    <2>5. m.dh # NoKey
      BY NoneFacts DEF Message
    <2>6. m.key.root[1] = s.root[1]
      BY <2>1, <2>2 DEF Ordered, Follows
    <2> QED BY <2>1, <2>2, <2>4, <2>5, <2>6 DEF r, Follows
  <1> QED BY <1>1, <1>2

LEMMA InitiatorOrdered ==
  ASSUME NEW h \in RootKey, h # << >>, NEW self \in PublicKey, NEW remote \in PublicKey
  PROVE  LET s == InitInitiator(h, self, remote)
         IN  /\ s \in Session /\ s.sendChain # NoKey
             /\ s.remote = remote /\ s.skipped = {} /\ Ordered(s, remote)
             /\ s.root[1] = h[1] /\ s.recvChain.root = h
  <1> DEFINE root == KdfRk(h, Agree(self, remote))
             s == InitInitiator(h, self, remote)
  <1>1. /\ root \in RootKey /\ root = Append(h, Agree(self, remote))
        /\ Agree(self, remote) \in SUBSET PublicKey
    BY KdfRkType DEF Agree
  <1>2. root # << >> /\ root[1] = h[1] /\ Len(root) = Len(h) + 1 /\ Len(h) \in Nat
    BY <1>1 DEF RootKey
  <1>3. s \in Session /\ s.sendChain \in ChainKey /\ s.sendChain = ChainOf(root)
    BY InitiatorType
  <1>4. /\ s.root = root /\ s.remote = remote /\ s.skipped = {} /\ s.nr = 0
        /\ s.recvChain = HandshakeChain(h, "chain-b-to-a")
    BY DEF InitInitiator
  <1>5. ChainOf(root).root = root
    BY <1>1, ChainOfType
  <1>6. s.recvChain.root = h /\ s.recvChain.step = 0
    BY <1>4 DEF HandshakeChain
  <1> HIDE DEF root, s
  <1>7. Ordered(s, remote)
    BY <1>2, <1>3, <1>4, <1>5, <1>6 DEF Ordered
  <1> QED BY <1>2, <1>3, <1>4, <1>6, <1>7, NoneFacts DEF s

LEMMA ResponderOrdered ==
  ASSUME NEW h \in RootKey, h # << >>, NEW self \in PublicKey
  PROVE  LET s == InitResponder(h, self)
         IN  /\ s \in Session /\ s.remote = NoKey /\ s.skipped = {} /\ Ordered(s, NoKey)
             /\ s.root = h /\ s.recvChain.root = h
  <1> DEFINE s == InitResponder(h, self)
  <1>1. /\ s \in Session /\ s.remote = NoKey /\ s.root = h
        /\ s.sendChain = NoKey /\ s.nr = 0 /\ s.skipped = {}
    BY ResponderType
  <1>2. s.recvChain.root = h /\ s.recvChain.step = 0
    BY DEF InitResponder, HandshakeChain
  <1> HIDE DEF s
  <1>3. Len(h) \in Nat
    BY DEF RootKey
  <1>4. Ordered(s, NoKey)
    BY <1>1, <1>2, <1>3 DEF Ordered
  <1> QED BY <1>1, <1>2, <1>4 DEF s

LEMMA EncryptOrdered ==
  ASSUME NEW s \in Session, s.sendChain # NoKey, NEW dh, Ordered(s, dh)
  PROVE  LET r == AfterEncrypt(s)
         IN  /\ r.remote = s.remote /\ r.root = s.root /\ r.recvChain = s.recvChain
             /\ r.skipped = s.skipped /\ Ordered(r, dh) /\ Follows(r, s)
             /\ SealedBy(s).key.root[1] = s.root[1]
  <1> DEFINE r == AfterEncrypt(s)
  <1>1. /\ r.sendChain.root = s.sendChain.root /\ SealedBy(s).key = s.sendChain
    BY SealedType
  <1>2. /\ r.remote = s.remote /\ r.root = s.root /\ r.recvChain = s.recvChain
        /\ r.skipped = s.skipped /\ r.nr = s.nr
    BY DEF AfterEncrypt, Session
  <1> HIDE DEF r
  <1>3. Ordered(r, dh)
    BY <1>1, <1>2 DEF Ordered
  <1>4. Follows(r, s)
    BY <1>2 DEF Follows, Past
  <1>5. SealedBy(s).key.root[1] = s.root[1]
    BY <1>1 DEF Ordered
  <1> QED BY <1>2, <1>3, <1>4, <1>5 DEF r

-----------------------------------------------------------------------------
(* What is read is read once.                                              *)

\* The keys a handshake agreed on have been generated.
Known(secret, counts) == \A k \in secret : k[2] <= counts[k[1]]

Shaped(s, counts) == s.remote # NoKey /\ Ordered(s, s.remote) /\ Known(s.root[1], counts)

Shapes ==
  \A d \in Devices :
    /\ conversation[d].session # NoSession => Shaped(conversation[d].session, minted)
    /\ \A p \in Devices : stored[d][p] # NoSession => Shaped(stored[d][p], minted)
    /\ \A item \in outbox[d] : Shaped(item.after, minted)

\* A bootstrap has an ephemeral key of its own, and its message a key of the
\* session it establishes.
Booted ==
  \A i \in 1 .. Len(made) :
    LET e == made[i]
    IN  /\ Known(e.wire.key.root[1], minted)
        /\ e.boot # NoKey =>
             /\ e.boot[1] = e.from /\ e.boot[2] > 0 /\ e.boot[2] <= minted[e.from]
             /\ \A j \in 1 .. Len(made) : made[j].boot = e.boot => i = j

\* d has read the message that brought the secret, if a message did.
Begun(d, secret, sent, done) ==
  \A i \in 1 .. Len(sent) :
    /\ sent[i].to = d /\ sent[i].boot # NoKey
    /\ secret = {sent[i].boot, SignedPrekey(d)}
    => i \in done[d]

\* What d has read is behind the session it has stored with the sender.
Settled(d) ==
  /\ \A p \in Devices : stored[d][p] # NoSession => Begun(d, stored[d][p].root[1], made, processed)
  /\ \A id \in processed[d] :
       LET key == made[id].wire.key
           s == stored[d][made[id].from]
       IN  Begun(d, key.root[1], made, processed) /\ (s # NoSession => Past(s, key))

ReadInv == Shapes /\ Booted /\ \A d \in Devices : Answered(d) => Settled(d)

\* Key pairs are only ever added.
LEMMA KnownLater ==
  ASSUME MintedGrows, NEW secret \in SUBSET PublicKey, Known(secret, minted)
  PROVE  Known(secret, minted')
  <1> SUFFICES ASSUME NEW k \in secret PROVE k[2] <= minted'[k[1]]
    BY DEF Known
  <1>1. k[1] \in Devices /\ k[2] \in Nat
    BY KeyPair
  <1>2. /\ minted[k[1]] \in Nat /\ minted'[k[1]] \in Nat
        /\ minted[k[1]] <= minted'[k[1]] /\ k[2] <= minted[k[1]]
    BY <1>1 DEF MintedGrows, Known
  <1> QED BY <1>1, <1>2

LEMMA ShapedLater ==
  ASSUME MintedGrows, NEW s \in Session, Shaped(s, minted)
  PROVE  Shaped(s, minted')
  <1>1. s.root[1] \in SUBSET PublicKey
    BY DEF Shaped, Ordered, Session, RootKey
  <1>2. PICK secret \in SUBSET PublicKey : secret = s.root[1]
    BY <1>1
  <1>3. Known(secret, minted')
    BY <1>2, KnownLater DEF Shaped
  <1> QED BY <1>2, <1>3 DEF Shaped, Known

LEMMA FirstSecret ==
  ASSUME IInv, NEW i \in 1 .. Len(made)
  PROVE  made[i].wire.key \in ChainKey /\ made[i].wire.key.root[1] \in SUBSET PublicKey
  <1> DEFINE root == made[i].wire.key.root
  <1>1. made[i].wire.key \in ChainKey
    BY TypeFacts DEF IInv, Envelope, Message
  <1>2. PICK before \in RootKey, k \in PublicKey, l \in PublicKey :
          root = Append(before, Agree(k, l))
    <2>1. BranchesFrom(root, made[i].wire.dh, made[i].from)
      BY DEF IInv, Envelopes, Keyed
    <2>2. made[i].wire.dh \in PublicKey
      BY TypeFacts DEF IInv, Envelope, Message
    <2> QED BY <2>1, <2>2 DEF BranchesFrom
  <1>3. Agree(k, l) \in SUBSET PublicKey
    BY DEF Agree
  <1> HIDE DEF root
  <1>4. root # << >> /\ root[1] \in SUBSET PublicKey
    BY <1>2, <1>3 DEF RootKey
  <1> QED BY <1>1, <1>4 DEF root

LEMMA QuietReads ==
  ASSUME IInv, ReadInv, Quiet
  PROVE  ReadInv'
  <1>1. /\ stored' = stored /\ outbox' = outbox /\ processed' = processed
        /\ made' = made /\ minted' = minted /\ unanswered' = unanswered
    BY DEF Quiet, store
  <1>2. Booted'
    BY <1>1 DEF ReadInv, Booted, Known
  <1>3. \A d \in Devices : Answered(d)' => Settled(d)'
    BY <1>1 DEF ReadInv, Answered, Settled, Begun
  <1>4. Shapes'
    <2>1. ASSUME NEW d \in Devices, conversation'[d].session # NoSession
          PROVE  Shaped(conversation'[d].session, minted)
      BY <2>1 DEF Quiet, Reopened, ReadInv, Shapes
    <2> QED BY <1>1, <2>1 DEF ReadInv, Shapes, Shaped, Known
  <1> QED BY <1>2, <1>3, <1>4 DEF ReadInv

LEMMA RetryReads ==
  ASSUME IInv, ReadInv, NEW d \in Devices, NEW reached \in BOOLEAN, NEW answered \in BOOLEAN,
         NEW item \in outbox[d], Retry(d, item, reached, answered)
  PROVE  ReadInv'
  <1>1. /\ item.id \in unanswered /\ made[item.id].from = d
        /\ made' = made /\ minted' = minted /\ unanswered' = unanswered
        /\ conversation' = conversation /\ processed' = processed
        /\ \A x \in Devices : outbox'[x] \subseteq outbox[x]
        /\ \A x \in Devices, p \in Devices :
             \/ stored'[x][p] = stored[x][p]
             \/ x = d /\ stored'[x][p] = item.after
    BY RetryEffect
  <1>2. Booted'
    BY <1>1 DEF ReadInv, Booted, Known
  <1>3. \A x \in Devices : Answered(x) => x # d
    BY <1>1 DEF Answered
  <1>4. ASSUME NEW x \in Devices, Answered(x)' PROVE Settled(x)'
    <2>1. Answered(x) /\ \A p \in Devices : stored'[x][p] = stored[x][p]
      BY <1>1, <1>3, <1>4 DEF Answered
    <2>2. \A id \in processed[x] : made[id].from \in Devices
      BY TypeFacts DEF IInv, Bookkeeping, Polled, Envelope
    <2> QED BY <1>1, <2>1, <2>2 DEF ReadInv, Settled, Begun
  <1>5. Shapes'
    BY <1>1 DEF ReadInv, Shapes, Shaped, Known
  <1> QED BY <1>2, <1>4, <1>5 DEF ReadInv

\* The session a message was sealed with has the sender's, or is its first.
LEMMA SealedReads ==
  ASSUME IInv, ReadInv, NEW d \in Devices, NEW e, NEW after, Sealed(d, e, after)
  PROVE  /\ after \in Session /\ Shaped(after, minted') /\ Known(e.wire.key.root[1], minted')
         /\ \/ /\ e.boot = NoKey /\ conversation[d].session # NoSession
               /\ Follows(after, conversation[d].session)
            \/ /\ e.boot = <<d, minted[d] + 1>> /\ minted[d] < minted'[d]
               /\ after.root[1] = {e.boot, SignedPrekey(e.to)}
               /\ after.recvChain.root[1] = after.root[1] /\ after.skipped = {}
  <1> DEFINE s == conversation[d].session
  <1>1. TypeOK /\ MintedGrows /\ e.to \in Devices /\ e.from = d /\ after \in Session
        /\ minted[d] \in Nat
    BY SealedGrows, TypeFacts DEF IInv, Sealed, Envelope
  <1>2. CASE Continues(d, e, after)
    <2>1. /\ s \in Session /\ s.sendChain # NoKey /\ e.boot = NoKey /\ s # NoSession
          /\ e.wire = SealedBy(s) /\ after = AfterEncrypt(s) /\ Shaped(s, minted)
      BY <1>1, <1>2, ConversationFacts DEF Continues, ReadInv, Shapes
    <2> HIDE DEF s
    <2>2. /\ after.remote = s.remote /\ after.root = s.root
          /\ Ordered(after, s.remote) /\ Follows(after, s)
          /\ e.wire.key.root[1] = s.root[1]
      BY <2>1, EncryptOrdered DEF Shaped
    <2>3. Shaped(after, minted)
      BY <2>1, <2>2 DEF Shaped
    <2>4. Shaped(after, minted')
      BY <1>1, <2>3, ShapedLater
    <2>5. Known(e.wire.key.root[1], minted')
      BY <2>2, <2>4 DEF Shaped, Known
    <2> QED BY <1>1, <2>1, <2>2, <2>4, <2>5 DEF s
  <1>3. CASE Begins(d, e, after)
    <2> DEFINE h == Handshake(e.boot, e.to)
               theirs == SignedPrekey(e.to)
               first == InitInitiator(h, after.self, theirs)
    <2>1. /\ e.boot = <<d, minted[d] + 1>> /\ minted[d] < minted'[d]
          /\ e.wire = SealedBy(first) /\ after = AfterEncrypt(first)
      BY <1>3 DEF Begins
    <2>2. e.boot \in PublicKey /\ after.self \in PublicKey
      BY <1>1, <2>1 DEF PublicKey, Session
    <2>3. /\ theirs \in PublicKey /\ theirs[1] = e.to /\ theirs[2] = 0 /\ h \in RootKey
      BY <1>1, <2>2, HandshakeType
    <2>4. h # << >> /\ h[1] = {e.boot, theirs}
      BY DEF Handshake
    <2> HIDE DEF h, theirs
    <2>5. /\ first \in Session /\ first.sendChain # NoKey
          /\ first.remote = theirs /\ first.skipped = {} /\ Ordered(first, theirs)
          /\ first.root[1] = h[1] /\ first.recvChain.root = h
      BY <2>2, <2>3, <2>4, InitiatorOrdered
    <2> HIDE DEF first
    <2>6. /\ after.remote = theirs /\ after.root = first.root
          /\ after.recvChain = first.recvChain /\ after.skipped = {}
          /\ Ordered(after, theirs) /\ e.wire.key.root[1] = first.root[1]
      BY <2>1, <2>5, EncryptOrdered
    <2>7. after.root[1] = {e.boot, theirs} /\ e.wire.key.root[1] = {e.boot, theirs}
          /\ after.recvChain.root[1] = {e.boot, theirs}
      BY <2>4, <2>5, <2>6
    <2>8. \A k \in {e.boot, theirs} : k[2] <= minted'[k[1]]
      <3>1. minted'[d] \in Nat /\ minted'[e.to] \in Nat
        BY <1>1 DEF MintedGrows
      <3>2. e.boot[1] = d /\ e.boot[2] = minted[d] + 1
        BY <2>1
      <3> QED BY <1>1, <2>1, <2>3, <3>1, <3>2
    <2>9. Known(e.wire.key.root[1], minted') /\ Known(after.root[1], minted')
      <3>1. PICK secret : secret = {e.boot, theirs}
        OBVIOUS
      <3>2. Known(secret, minted')
        BY <2>8, <3>1 DEF Known
      <3> QED BY <2>7, <3>1, <3>2 DEF Known
    <2>10. Shaped(after, minted')
      BY <2>3, <2>6, <2>9, NoneFacts DEF Shaped, Ordered
    <2> QED BY <1>1, <2>1, <2>6, <2>7, <2>9, <2>10 DEF theirs
  <1> QED BY <1>2, <1>3 DEF Sealed

\* What had its shape keeps it, whatever key pairs are generated.
LEMMA ShapesLater ==
  ASSUME IInv, ReadInv, MintedGrows, NEW x \in Devices
  PROVE  /\ conversation[x].session # NoSession => Shaped(conversation[x].session, minted')
         /\ \A p \in Devices : stored[x][p] # NoSession => Shaped(stored[x][p], minted')
         /\ \A item \in outbox[x] : Shaped(item.after, minted')
  <1>1. conversation[x].session # NoSession => conversation[x].session \in Session
    BY ConversationFacts DEF IInv
  <1>2. \A p \in Devices : stored[x][p] # NoSession => stored[x][p] \in Session
    BY TypeFacts DEF IInv
  <1>3. \A item \in outbox[x] : item.after \in Session
    BY DEF IInv, TypeOK, OutboxItem
  <1>4. \A s \in Session : Shaped(s, minted) => Shaped(s, minted')
    BY ShapedLater
  <1> QED BY <1>1, <1>2, <1>3, <1>4 DEF ReadInv, Shapes

LEMMA BootsLater ==
  ASSUME IInv, ReadInv, MintedGrows, NEW i \in 1 .. Len(made)
  PROVE  /\ Known(made[i].wire.key.root[1], minted')
         /\ made[i].boot # NoKey =>
              /\ made[i].boot \in PublicKey
              /\ made[i].boot[1] = made[i].from /\ made[i].boot[2] > 0
              /\ made[i].boot[2] <= minted[made[i].from]
              /\ made[i].boot[2] <= minted'[made[i].from]
              /\ \A j \in 1 .. Len(made) : made[j].boot = made[i].boot => i = j
  <1>1. PICK secret \in SUBSET PublicKey : secret = made[i].wire.key.root[1]
    BY FirstSecret
  <1>2. Known(secret, minted')
    BY <1>1, KnownLater DEF ReadInv, Booted
  <1>3. made[i].boot \in PublicKey \cup {NoKey} /\ made[i].from \in Devices
    BY TypeFacts DEF IInv, Envelope
  <1>4. ASSUME made[i].boot # NoKey
        PROVE  /\ made[i].boot[1] = made[i].from /\ made[i].boot[2] > 0
               /\ made[i].boot[2] <= minted[made[i].from] /\ made[i].boot[2] \in Nat
               /\ \A j \in 1 .. Len(made) : made[j].boot = made[i].boot => i = j
    BY <1>3, <1>4, KeyPair DEF ReadInv, Booted
  <1>5. /\ minted[made[i].from] \in Nat /\ minted'[made[i].from] \in Nat
        /\ minted[made[i].from] <= minted'[made[i].from]
    BY <1>3 DEF MintedGrows
  <1>6. made[i].boot # NoKey => made[i].boot[2] <= minted'[made[i].from]
    BY <1>4, <1>5
  <1> QED BY <1>1, <1>2, <1>3, <1>4, <1>6

LEMMA SendReads ==
  ASSUME IInv, ReadInv, NEW d \in Devices, NEW reached \in BOOLEAN,
         NEW e, NEW after, NEW id, Sends(d, e, id, after, reached)
  PROVE  ReadInv'
  <1>1. /\ MadeAs(e, id, reached) /\ Sealed(d, e, after)
        /\ Filed(d, e, id, after) \/ Kept(d, id, after)
    BY DEF Sends
  <1>2. /\ id \notin 1 .. Len(made) /\ 1 .. Len(made') = 1 .. Len(made) \cup {id}
        /\ made'[id] = e /\ \A i \in 1 .. Len(made) : made'[i] = made[i]
        /\ processed' = processed
    BY <1>1 DEF MadeAs
  <1>3. TypeOK /\ MintedGrows /\ e \in Envelope /\ e.from = d /\ e.to \in Devices /\ e.to # d
        /\ e.to = conversation[d].peer
    BY <1>1, SealedGrows DEF IInv, Sealed, Envelope
  <1>4. /\ after \in Session /\ Shaped(after, minted') /\ Known(e.wire.key.root[1], minted')
        /\ \/ /\ e.boot = NoKey /\ conversation[d].session # NoSession
              /\ Follows(after, conversation[d].session)
           \/ /\ e.boot = <<d, minted[d] + 1>> /\ minted[d] < minted'[d]
              /\ after.root[1] = {e.boot, SignedPrekey(e.to)}
              /\ after.recvChain.root[1] = after.root[1] /\ after.skipped = {}
    BY <1>1, SealedReads
  <1>5. ASSUME NEW x \in Devices
        PROVE  /\ conversation'[x] = conversation[x] \/ (x = d /\ conversation'[x].session = after)
               /\ \A p \in Devices :
                    \/ stored'[x][p] = stored[x][p]
                    \/ x = d /\ p = e.to /\ stored'[x][p] = after
               /\ \A item \in outbox'[x] : item \in outbox[x] \/ item.after = after
    <2>1. CASE Filed(d, e, id, after)
      <3> DEFINE c == [peer |-> e.to, session |-> after]
      <3>1. c.session = after /\ conversation' = [conversation EXCEPT ![d] = c]
        BY <2>1 DEF Filed
      <3> HIDE DEF c
      <3>2. conversation'[x] = conversation[x] \/ (x = d /\ conversation'[x].session = after)
        BY <1>3, <3>1 DEF TypeOK
      <3>3. \A p \in Devices :
              \/ stored'[x][p] = stored[x][p]
              \/ x = d /\ p = e.to /\ stored'[x][p] = after
        BY <1>3, <2>1 DEF Filed, TypeOK
      <3>4. \A item \in outbox'[x] : item \in outbox[x]
        BY <1>3, <2>1 DEF Filed, TypeOK, OutboxWithout
      <3> QED BY <3>2, <3>3, <3>4
    <2>2. CASE Kept(d, id, after)
      <3> DEFINE kept == [id |-> id, after |-> after]
      <3>1. /\ conversation' = conversation /\ stored' = stored /\ kept.after = after
            /\ outbox' = [outbox EXCEPT ![d] = outbox[d] \cup {kept}]
        BY <2>2 DEF Kept
      <3> HIDE DEF kept
      <3> QED BY <1>3, <3>1 DEF TypeOK
    <2> QED BY <1>1, <2>1, <2>2
  <1>6. Shapes'
    <2>1. \A x \in Devices :
            /\ conversation[x].session # NoSession => Shaped(conversation[x].session, minted')
            /\ \A p \in Devices : stored[x][p] # NoSession => Shaped(stored[x][p], minted')
            /\ \A item \in outbox[x] : Shaped(item.after, minted')
      BY <1>3, ShapesLater
    <2> QED BY <1>4, <1>5, <2>1 DEF Shapes
  <1>7. Booted'
    <2>1. \/ e.boot = NoKey
          \/ e.boot[1] = d /\ e.boot[2] = minted[d] + 1 /\ e.boot[2] <= minted'[d]
      <3>1. minted[d] \in Nat /\ minted'[d] \in Nat
        BY <1>3 DEF MintedGrows
      <3> QED BY <1>4, <3>1
    <2>2. ASSUME NEW i \in 1 .. Len(made)
          PROVE  /\ Known(made[i].wire.key.root[1], minted')
                 /\ made[i].boot # NoKey =>
                      /\ made[i].boot[1] = made[i].from /\ made[i].boot[2] > 0
                      /\ made[i].boot[2] <= minted'[made[i].from]
                      /\ made[i].boot # e.boot
                      /\ \A j \in 1 .. Len(made) : made[j].boot = made[i].boot => i = j
      <3>1. /\ Known(made[i].wire.key.root[1], minted')
            /\ made[i].boot # NoKey =>
                 /\ made[i].boot[1] = made[i].from /\ made[i].boot[2] > 0
                 /\ made[i].boot[2] <= minted[made[i].from]
                 /\ made[i].boot[2] <= minted'[made[i].from]
                 /\ \A j \in 1 .. Len(made) : made[j].boot = made[i].boot => i = j
        BY <1>3, BootsLater
      <3>2. made[i].from \in Devices /\ minted[made[i].from] \in Nat
        BY <1>3, TypeFacts DEF Envelope, MintedGrows
      <3>3. made[i].boot # NoKey => made[i].boot # e.boot
        BY <2>1, <3>1, <3>2
      <3> QED BY <1>2, <3>1, <3>3
    <2>3. ASSUME NEW i \in 1 .. Len(made')
          PROVE  /\ Known(made'[i].wire.key.root[1], minted')
                 /\ made'[i].boot # NoKey =>
                      /\ made'[i].boot[1] = made'[i].from /\ made'[i].boot[2] > 0
                      /\ made'[i].boot[2] <= minted'[made'[i].from]
                      /\ \A j \in 1 .. Len(made') : made'[j].boot = made'[i].boot => i = j
      <3>1. CASE i # id
        BY <1>2, <2>2, <3>1 DEF Known
      <3>2. CASE i = id
        <4>1. e.boot # NoKey => e.boot[1] = e.from /\ e.boot[2] > 0 /\ e.boot[2] <= minted'[e.from]
          <5>1. minted[d] \in Nat
            BY <1>3 DEF MintedGrows
          <5> QED BY <1>3, <2>1, <5>1
        <4>2. \A j \in 1 .. Len(made) : e.boot # NoKey => made[j].boot # e.boot
          BY <2>2
        <4> QED BY <1>2, <1>4, <3>2, <4>1, <4>2 DEF Known
      <3> QED BY <3>1, <3>2
    <2> QED BY <2>3 DEF Booted, Known
  <1>8. ASSUME NEW x \in Devices, Answered(x)' PROVE Settled(x)'
    <2>1. Answered(x) /\ Settled(x) /\ StoreIsCurrent(x)
      <3>1. unanswered \subseteq unanswered' /\ unanswered \subseteq 1 .. Len(made)
        BY <1>1 DEF Filed, Kept, IInv, Bookkeeping, Numbered
      <3>2. Answered(x)
        BY <1>2, <1>8, <3>1 DEF Answered
      <3> QED BY <3>2 DEF IInv, Current, ReadInv
    <2>2. ASSUME NEW secret, Known(secret, minted), Begun(x, secret, made, processed)
          PROVE  Begun(x, secret, made', processed')
      <3>1. e.boot # NoKey => e.boot \notin secret
        <4>1. minted[d] \in Nat
          BY <1>3 DEF MintedGrows
        <4> QED BY <1>4, <2>2, <4>1 DEF Known
      <3>2. ASSUME NEW i \in 1 .. Len(made'), made'[i].to = x, made'[i].boot # NoKey,
                   secret = {made'[i].boot, SignedPrekey(x)}
            PROVE  i \in processed'[x]
        BY <1>2, <2>2, <3>1, <3>2 DEF Begun
      <3> QED BY <3>2 DEF Begun
    <2>3. \A k \in processed[x] :
            k \in 1 .. Len(made) /\ made'[k] = made[k] /\ made[k].from \in Devices
      BY <1>2, <1>3, TypeFacts DEF IInv, Bookkeeping, Polled, Envelope
    <2>4. ASSUME NEW p \in Devices, stored'[x][p] # NoSession
          PROVE  /\ Begun(x, stored'[x][p].root[1], made', processed')
                 /\ \A k \in processed[x] : made[k].from = p => Past(stored'[x][p], made[k].wire.key)
      <3>1. CASE stored'[x][p] = stored[x][p]
        <4>1. PICK secret : secret = stored[x][p].root[1]
          OBVIOUS
        <4>2. Begun(x, secret, made', processed')
          BY <2>1, <2>2, <2>4, <3>1, <4>1 DEF ReadInv, Shapes, Shaped, Settled
        <4>3. Begun(x, stored'[x][p].root[1], made', processed')
          BY <3>1, <4>1, <4>2 DEF Begun
        <4> QED BY <2>1, <2>4, <3>1, <4>3 DEF Settled
      <3>2. CASE x = d /\ p = e.to /\ stored'[x][p] = after
        <4>1. CASE conversation[d].session # NoSession /\ Follows(after, conversation[d].session)
          <5> DEFINE s == conversation[d].session
          <5>1. s = stored[x][p] /\ s # NoSession
            BY <1>3, <2>1, <3>2, <4>1 DEF StoreIsCurrent
          <5> HIDE DEF s
          <5>2. PICK secret : secret = s.root[1]
            OBVIOUS
          <5>3. Known(secret, minted) /\ Begun(x, secret, made, processed) /\ after.root[1] = secret
            BY <2>1, <4>1, <5>1, <5>2 DEF ReadInv, Shapes, Shaped, Settled, Follows, s
          <5>4. Begun(x, secret, made', processed')
            BY <2>2, <5>3
          <5>5. Begun(x, stored'[x][p].root[1], made', processed')
            BY <3>2, <5>3, <5>4 DEF Begun
          <5>6. ASSUME NEW k \in processed[x], made[k].from = p
                PROVE  Past(after, made[k].wire.key)
            <6>1. made[k].wire.key \in ChainKey
              BY <1>3, <2>3, TypeFacts DEF Envelope, Message
            <6>2. Past(s, made[k].wire.key)
              BY <2>1, <5>1, <5>6 DEF Settled
            <6> QED BY <4>1, <6>1, <6>2 DEF Follows, s
          <5> QED BY <3>2, <5>5, <5>6
        <4>2. CASE /\ e.boot = <<d, minted[d] + 1>>
                   /\ after.root[1] = {e.boot, SignedPrekey(e.to)}
                   /\ after.recvChain.root[1] = after.root[1] /\ after.skipped = {}
          <5>1. minted[d] \in Nat /\ e.boot[1] = d /\ e.boot[2] = minted[d] + 1
            BY <1>3, <4>2 DEF MintedGrows
          <5>2. SignedPrekey(d) \notin after.root[1]
            BY <1>3, <4>2, <5>1 DEF SignedPrekey
          <5>3. Begun(x, stored'[x][p].root[1], made', processed')
            BY <3>2, <5>2 DEF Begun, SignedPrekey
          <5>4. ASSUME NEW k \in processed[x]
                PROVE  Past(after, made[k].wire.key)
            <6>1. Known(made[k].wire.key.root[1], minted)
              BY <2>3 DEF ReadInv, Booted
            <6>2. e.boot \notin made[k].wire.key.root[1]
              BY <5>1, <6>1 DEF Known
            <6> QED BY <4>2, <6>2 DEF Past
          <5> QED BY <3>2, <5>3, <5>4
        <4> QED BY <1>4, <4>1, <4>2
      <3> QED BY <1>5, <3>1, <3>2
    <2>5. ASSUME NEW k \in processed[x]
          PROVE  Begun(x, made[k].wire.key.root[1], made', processed')
      <3>1. PICK secret : secret = made[k].wire.key.root[1]
        OBVIOUS
      <3>2. Begun(x, secret, made', processed')
        BY <2>1, <2>2, <2>3, <3>1 DEF ReadInv, Booted, Settled
      <3>3. made'[k].wire.key.root[1] = secret
        BY <2>3, <3>1
      <3> QED BY <3>1, <3>2, <3>3, <2>3 DEF Begun
    <2>6. ASSUME NEW k \in processed'[x]
          PROVE  LET key == made'[k].wire.key
                     s == stored'[x][made'[k].from]
                 IN  /\ Begun(x, key.root[1], made', processed')
                     /\ s # NoSession => Past(s, key)
      BY <1>2, <2>3, <2>4, <2>5
    <2> QED BY <2>4, <2>6 DEF Settled
  <1> QED BY <1>6, <1>7, <1>8 DEF ReadInv

\* A session of d that opened the message id, seen against what d read before.
LEMMA ReadsPast ==
  ASSUME IInv, ReadInv, NEW d \in Devices, NEW id, NEW after, ReadsAs(d, id, after)
  PROVE  /\ Shaped(after, minted')
         /\ Answered(d) =>
              /\ Begun(d, after.root[1], made, processed')
              /\ made[id].wire.key.root[1] = after.root[1]
              /\ \A k \in processed[d] \cup {id} :
                   made[k].from = made[id].from => Past(after, made[k].wire.key)
  <1> DEFINE e == made[id]
             p == made[id].from
             c == ReadIn(d, e).session
  <1>1. /\ Decrypts(d, e, after) /\ id \in 1 .. Len(made) /\ e.to = d /\ id \notin processed[d]
        /\ MintedGrows /\ after \in Session
    BY DEF ReadsAs, Moves
  <1>2. TypeOK /\ minted \in [Devices -> Nat] /\ e \in Envelope /\ p \in Devices /\ e.wire \in Message
    BY <1>1, TypeFacts DEF IInv, Envelope
  <1>3. ~Unreadable(d, e) /\ Opens(c, e.wire) /\ after = Opened(c, e.wire)
    BY <1>1 DEF Decrypts
  <1>4. processed'[d] = processed[d] \cup {id}
    BY ReadEffect
  <1>5. ASSUME Answered(d) PROVE Settled(d) /\ StoreIsCurrent(d)
    BY <1>5 DEF IInv, Current, ReadInv
  <1>6. \A k \in processed[d] : k \in 1 .. Len(made) /\ made[k].wire.key \in ChainKey
    BY FirstSecret DEF IInv, Bookkeeping, Polled
  <1>7. CASE conversation[d].peer = p
    <2>1. /\ c = conversation[d].session /\ c # NoSession
      BY <1>3, <1>7 DEF ReadIn, Unreadable
    <2>2. c \in Session /\ Shaped(c, minted) /\ Shaped(c, minted')
      BY <1>1, <1>2, <2>1, ConversationFacts, ShapesLater DEF ReadInv, Shapes
    <2> HIDE DEF c, e
    <2>3. /\ after.remote # NoKey /\ Ordered(after, after.remote) /\ Follows(after, c)
          /\ Past(after, e.wire.key) /\ e.wire.key.root[1] = c.root[1]
      BY <1>2, <1>3, <2>2, OpenedIsPast DEF Shaped
    <2>4. Shaped(after, minted')
      BY <2>2, <2>3 DEF Shaped, Follows
    <2>5. ASSUME Answered(d)
          PROVE  /\ Begun(d, after.root[1], made, processed')
                 /\ \A k \in processed[d] : made[k].from = p => Past(after, made[k].wire.key)
      <3>1. c = stored[d][p] /\ Settled(d)
        BY <1>5, <1>7, <2>1, <2>5 DEF StoreIsCurrent
      <3>2. Begun(d, c.root[1], made, processed)
        BY <1>2, <2>1, <3>1 DEF Settled
      <3>3. Begun(d, after.root[1], made, processed')
        BY <1>4, <2>3, <3>2 DEF Begun, Follows
      <3>4. \A k \in processed[d] : made[k].from = p => Past(c, made[k].wire.key)
        BY <2>1, <3>1 DEF Settled
      <3> QED BY <1>6, <2>3, <3>3, <3>4 DEF Follows
    <2> QED BY <2>3, <2>4, <2>5 DEF e, Follows
  <1>8. CASE conversation[d].peer # p
    <2> DEFINE h == Handshake(e.boot, d)
               mine == SignedPrekey(d)
               secret == {e.boot, mine}
    <2>1. c = InitResponder(h, mine) /\ e.boot # NoKey /\ e.boot \in PublicKey
      BY <1>2, <1>3, <1>8 DEF ReadIn, Unreadable, Envelope
    <2>2. mine \in PublicKey /\ mine[2] = 0 /\ h \in RootKey /\ h # << >> /\ h[1] = secret
      BY <2>1, HandshakeType DEF Handshake
    <2> HIDE DEF c, h, mine, e
    <2>3. /\ c \in Session /\ c.remote = NoKey /\ c.skipped = {} /\ Ordered(c, NoKey)
          /\ c.root = h
      BY <2>1, <2>2, ResponderOrdered
    <2>4. /\ after.remote # NoKey /\ Ordered(after, after.remote) /\ Follows(after, c)
          /\ Past(after, e.wire.key) /\ e.wire.key.root[1] = secret
      BY <1>2, <1>3, <2>2, <2>3, OpenedIsPast
    <2>5. after.root[1] = secret
      BY <2>2, <2>3, <2>4 DEF Follows
    <2>6. Shaped(after, minted')
      <3>1. Known(e.wire.key.root[1], minted')
        BY <1>1, BootsLater DEF e
      <3> QED BY <2>4, <2>5, <3>1 DEF Shaped
    <2>7. ASSUME NEW i \in 1 .. Len(made), made[i].boot # NoKey, secret = {made[i].boot, mine}
          PROVE  i = id
      <3>1. made[i].boot[2] > 0 /\ e.boot[2] > 0
        BY <1>1, <2>1, <2>7 DEF ReadInv, Booted, e
      <3>2. made[i].boot = e.boot
        BY <2>2, <2>7, <3>1
      <3> QED BY <1>1, <2>1, <3>2 DEF ReadInv, Booted, e
    <2>8. Begun(d, secret, made, processed')
      BY <1>4, <2>7 DEF Begun, mine
    <2>9. ASSUME Answered(d), NEW k \in processed[d]
          PROVE  Past(after, made[k].wire.key)
      <3>1. Begun(d, made[k].wire.key.root[1], made, processed)
        BY <1>5, <2>9 DEF Settled
      <3>2. made[k].wire.key.root[1] # secret
        BY <1>1, <2>1, <3>1 DEF Begun, e, mine
      <3> QED BY <2>4, <2>5, <3>2 DEF Past, Ordered
    <2> QED BY <2>4, <2>5, <2>6, <2>8, <2>9 DEF e
  <1> QED BY <1>7, <1>8

LEMMA ReadReads ==
  ASSUME IInv, ReadInv, NEW d \in Devices, NEW id, NEW after, ReadsAs(d, id, after)
  PROVE  ReadInv'
  <1> DEFINE p == made[id].from
  <1>1. /\ Shaped(after, minted')
        /\ Answered(d) =>
             /\ Begun(d, after.root[1], made, processed')
             /\ made[id].wire.key.root[1] = after.root[1]
             /\ \A k \in processed[d] \cup {id} :
                  made[k].from = p => Past(after, made[k].wire.key)
    BY ReadsPast
  <1>2. /\ MintedGrows /\ made' = made /\ outbox' = outbox /\ unanswered' = unanswered
    BY DEF ReadsAs
  <1>3. /\ p \in Devices /\ processed'[d] = processed[d] \cup {id}
        /\ conversation'[d].session = after /\ stored'[d][p] = after
        /\ \A q \in Devices : q # p => stored'[d][q] = stored[d][q]
        /\ \A x \in Devices : x # d =>
             /\ processed'[x] = processed[x] /\ conversation'[x] = conversation[x]
             /\ stored'[x] = stored[x]
    BY ReadEffect
  <1> HIDE DEF p
  <1>4. Shapes'
    <2>1. \A x \in Devices :
            /\ conversation[x].session # NoSession => Shaped(conversation[x].session, minted')
            /\ \A q \in Devices : stored[x][q] # NoSession => Shaped(stored[x][q], minted')
            /\ \A item \in outbox[x] : Shaped(item.after, minted')
      BY <1>2, ShapesLater
    <2> QED BY <1>1, <1>2, <1>3, <2>1 DEF Shapes
  <1>5. Booted'
    BY <1>2, BootsLater DEF Booted
  <1>6. ASSUME NEW x \in Devices, Answered(x)' PROVE Settled(x)'
    <2>1. Answered(x) /\ Settled(x)
      BY <1>2, <1>6 DEF Answered, ReadInv
    <2>2. \A k \in processed[x] : made[k].from \in Devices
      BY TypeFacts DEF IInv, Bookkeeping, Polled, Envelope
    <2>3. ASSUME NEW secret, Begun(x, secret, made, processed)
          PROVE  Begun(x, secret, made, processed')
      BY <1>3, <2>3 DEF Begun
    <2>4. CASE x # d
      BY <1>2, <1>3, <2>1, <2>2, <2>3, <2>4 DEF Settled
    <2>5. CASE x = d
      <3>1. ASSUME NEW q \in Devices, stored'[d][q] # NoSession
            PROVE  Begun(d, stored'[d][q].root[1], made, processed')
        BY <1>1, <1>3, <2>1, <2>3, <2>5, <3>1 DEF Settled
      <3>2. ASSUME NEW k \in processed'[d]
            PROVE  LET key == made[k].wire.key
                       s == stored'[d][made[k].from]
                   IN  /\ Begun(d, key.root[1], made, processed')
                       /\ s # NoSession => Past(s, key)
        <4>1. CASE k = id
          BY <1>1, <1>3, <2>1, <2>5, <4>1 DEF p
        <4>2. CASE k \in processed[d]
          BY <1>1, <1>3, <2>1, <2>2, <2>3, <2>5, <4>2 DEF Settled
        <4> QED BY <1>3, <4>1, <4>2
      <3> QED BY <1>2, <2>5, <3>1, <3>2 DEF Settled
    <2> QED BY <2>4, <2>5
  <1> QED BY <1>4, <1>5, <1>6 DEF ReadInv

LEMMA InitReads == Init => ReadInv
  <1> SUFFICES ASSUME Init PROVE ReadInv
    OBVIOUS
  <1>1. Len(made) = 0 /\ 1 .. Len(made) = {} /\ Closed.session = NoSession
    BY DEF Init, Closed
  <1> QED BY <1>1 DEF Init, ReadInv, Shapes, Booted, Settled

LEMMA NextReads == IInv /\ ReadInv /\ [Next]_vars => ReadInv'
  <1> SUFFICES ASSUME IInv, ReadInv, [Next]_vars PROVE ReadInv'
    OBVIOUS
  <1>1. ASSUME NEW d \in Devices, NEW reached \in BOOLEAN, NEW e, NEW after, NEW id,
               Sends(d, e, id, after, reached)
        PROVE  ReadInv'
    BY <1>1, SendReads
  <1>2. ASSUME NEW d \in Devices, NEW id \in batch[d], NEW after, ReadsAs(d, id, after)
        PROVE  ReadInv'
    BY <1>2, ReadReads
  <1> QED BY <1>1, <1>2, StepKinds, QuietReads, RetryReads

\* While the sends of a device are answered, the session commit_incoming_message
\* has stored for a sender opens no message of that sender the device has read:
\* decrypt has used its key up, whatever chains and skipped keys it went through
\* and whichever bootstraps replaced the session since.
THEOREM ReadIsPast == Spec => []ReadOnlyOnce
  <1>1. Spec => []ReadInv
    BY Invariance, InitReads, NextReads, PTL DEF Spec
  <1>2. IInv /\ ReadInv => ReadOnlyOnce
    <2> SUFFICES ASSUME IInv, ReadInv, NEW d \in Devices, Answered(d), NEW id \in processed[d],
                        stored[d][made[id].from] # NoSession
                 PROVE  ~Opens(stored[d][made[id].from], made[id].wire)
      BY DEF ReadOnlyOnce
    <2> DEFINE s == stored[d][made[id].from]
               m == made[id].wire
    <2>1. TypeOK /\ minted \in [Devices -> Nat] /\ id \in 1 .. Len(made)
      BY TypeFacts DEF IInv, Bookkeeping, Polled
    <2>2. made[id].from \in Devices /\ m \in Message /\ s \in Session
      BY <2>1, TypeFacts DEF Envelope
    <2>3. Shaped(s, minted) /\ Past(s, m.key)
      BY <2>2 DEF ReadInv, Shapes, Settled
    <2> HIDE DEF s, m
    <2>4. ~Opens(s, m)
      BY <2>1, <2>2, <2>3, PastOpensNothing DEF Shaped
    <2> QED BY <2>4 DEF s, m
  <1> QED BY <1>1, <1>2, Invariance, PTL

-----------------------------------------------------------------------------
(* The clients implement Delivery.                                         *)

\* A send is an attempt to deliver its message, and so is a retry.
LEMMA SendImplements ==
  ASSUME IInv, NEW d \in Devices, NEW reached \in BOOLEAN,
         NEW e, NEW after, NEW id, Sends(d, e, id, after, reached)
  PROVE  Promise!Attempt(id)
  <1>1. TypeOK /\ Numbered /\ \A x \in Devices : Recorded(x)
    BY DEF IInv, Bookkeeping
  <1>2. /\ MadeAs(e, id, reached) /\ Sealed(d, e, after)
        /\ (Filed(d, e, id, after) /\ reached) \/ Kept(d, id, after)
    BY DEF Sends
  <1>3. /\ id \in Ids /\ id \notin 1 .. Len(made)
        /\ 1 .. Len(made') = 1 .. Len(made) \cup {id}
        /\ made'[id] = e /\ \A i \in 1 .. Len(made) : made'[i] = made[i]
        /\ queue' = IF reached THEN queue \cup {id} ELSE queue
    BY <1>2 DEF MadeAs
  <1>4. e.from = d /\ e.to # d /\ e.to \in Devices
    BY <1>2 DEF Sealed, Envelope
  <1>5. /\ \A x \in Devices, k \in Ids : ~(x = d /\ k = id) => history'[x][k] = history[x][k]
        /\ \A x \in Devices : history[x][id] = 0
        /\ history'[d][id] = 0 \/ (history'[d][id] = 1 /\ reached)
    <2>1. \A x \in Devices : history[x][id] = 0
      BY <1>1, <1>3 DEF Recorded
    <2>2. \A x \in Devices, k \in Ids : ~(x = d /\ k = id) => history'[x][k] = history[x][k]
      BY <1>1, <1>2, <1>3 DEF Filed, Kept, TypeOK
    <2>3. history'[d][id] = 0 \/ (history'[d][id] = 1 /\ reached)
      BY <1>1, <1>2, <1>3, <2>1 DEF Filed, Kept, TypeOK
    <2>4. QED BY <2>1, <2>2, <2>3
  <1>6. \A i \in 1 .. Len(made) : made[i].to \in Devices /\ made[i].from \in Devices
    BY <1>1, TypeFacts DEF Envelope
  <1>7. written' = written \cup {id} /\ id \notin written
    BY <1>3 DEF written
  <1>8. shown' = shown
    <2>1. \A k \in Ids : (IF k \in written' THEN history'[made'[k].to][k] ELSE 0)
                          = IF k \in written THEN history[made[k].to][k] ELSE 0
      <3> TAKE k \in Ids
      <3>1. CASE k = id
        BY <1>3, <1>4, <1>5, <1>7, <3>1
      <3>2. CASE k # id
        BY <1>3, <1>5, <1>6, <1>7, <3>2 DEF written
      <3>3. QED BY <3>1, <3>2
    <2>2. QED BY <2>1, Zenon DEF shown
  <1>9. filed[id] = 0 /\ filed' = [filed EXCEPT ![id] = history'[d][id]]
    <2>1. filed[id] = 0
      BY <1>3, <1>7 DEF filed
    <2>2. \A k \in Ids : (IF k \in written' THEN history'[made'[k].from][k] ELSE 0)
                          = IF k = id THEN history'[d][id] ELSE filed[k]
      <3> TAKE k \in Ids
      <3>1. CASE k = id
        BY <1>3, <1>4, <1>7, <3>1
      <3>2. CASE k # id
        BY <1>3, <1>5, <1>6, <1>7, <3>2 DEF written, filed
      <3>3. QED BY <3>1, <3>2
    <2>3. filed' = [k \in Ids |-> IF k = id THEN history'[d][id] ELSE filed[k]]
      BY <2>2, Zenon DEF filed
    <2>4. [k \in Ids |-> IF k = id THEN history'[d][id] ELSE filed[k]]
            = [filed EXCEPT ![id] = history'[d][id]]
      BY DEF filed
    <2>5. QED BY <2>1, <2>3, <2>4
  <1>10. accepted' = IF reached THEN accepted \cup {id} ELSE accepted
    <2>1. shown[id] = 0
      BY <1>3, <1>7 DEF shown
    <2>2. {k \in written' : shown'[k] > 0} = {k \in written : shown[k] > 0}
      BY <1>7, <1>8, <2>1
    <2>3. QED BY <1>3, <2>2 DEF accepted
  <1>11. \/ id \in accepted' /\ filed' = [filed EXCEPT ![id] = 1]
         \/ filed' = filed
    <2>1. CASE history'[d][id] = 1 /\ reached
      BY <1>9, <1>10, <2>1
    <2>2. CASE history'[d][id] = 0
      <3>1. [filed EXCEPT ![id] = 0] = filed
        BY <1>9 DEF filed
      <3>2. QED BY <1>9, <2>2, <3>1
    <2>3. QED BY <1>5, <2>1, <2>2
  <1>12. QED
    BY <1>7, <1>8, <1>9, <1>10, <1>11 DEF Promise!Attempt

LEMMA RetryImplements ==
  ASSUME IInv, NEW d \in Devices, NEW reached \in BOOLEAN, NEW answered \in BOOLEAN,
         NEW item \in outbox[d], Retry(d, item, reached, answered)
  PROVE  Promise!Attempt(item.id)
  <1> DEFINE id == item.id
  <1>1. TypeOK
    BY DEF IInv
  <1>2. /\ id \in 1 .. Len(made) /\ id \in Ids
        /\ made[id].from = d /\ made[id].to # d /\ history[d][id] = 0
        /\ queue' \in {queue, queue \cup {id}} /\ made' = made
        /\ \A x \in Devices, k \in Ids :
             \/ history'[x][k] = history[x][k]
             \/ x = d /\ k = id /\ history'[x][k] = 1 /\ id \in queue'
    BY RetryEffect
  <1>3. \A i \in 1 .. Len(made) : made[i].to \in Devices /\ made[i].from \in Devices
    BY <1>1, TypeFacts DEF Envelope
  <1> HIDE DEF id
  <1>4. written' = written /\ id \in written
    BY <1>2 DEF written
  <1>5. shown' = shown
    <2>1. \A k \in Ids : (IF k \in written' THEN history'[made'[k].to][k] ELSE 0)
                          = IF k \in written THEN history[made[k].to][k] ELSE 0
      BY <1>2, <1>3, <1>4 DEF written
    <2>2. QED BY <2>1, Zenon DEF shown
  <1>6. filed[id] = 0 /\ filed' = [filed EXCEPT ![id] = history'[d][id]]
    <2>1. filed[id] = 0
      BY <1>2, <1>4 DEF filed
    <2>2. \A k \in Ids : (IF k \in written' THEN history'[made'[k].from][k] ELSE 0)
                          = IF k = id THEN history'[d][id] ELSE filed[k]
      <3> TAKE k \in Ids
      <3>1. CASE k = id
        BY <1>2, <1>4, <3>1
      <3>2. CASE k # id
        BY <1>2, <1>3, <1>4, <3>2 DEF written, filed
      <3>3. QED BY <3>1, <3>2
    <2>3. filed' = [k \in Ids |-> IF k = id THEN history'[d][id] ELSE filed[k]]
      BY <2>2, Zenon DEF filed
    <2>4. [k \in Ids |-> IF k = id THEN history'[d][id] ELSE filed[k]]
            = [filed EXCEPT ![id] = history'[d][id]]
      BY DEF filed
    <2>5. QED BY <2>1, <2>3, <2>4
  <1>7. accepted' = queue' \cup {k \in written : shown[k] > 0}
    BY <1>4, <1>5 DEF accepted
  <1>8. \/ id \in accepted' /\ filed' = [filed EXCEPT ![id] = 1]
        \/ filed' = filed
    <2>1. CASE history'[d][id] = 1 /\ id \in queue'
      BY <1>6, <1>7, <2>1
    <2>2. CASE history'[d][id] = 0
      <3>1. [filed EXCEPT ![id] = 0] = filed
        BY <1>6 DEF filed
      <3>2. QED BY <1>6, <2>2, <3>1
    <2>3. QED BY <1>2, <2>1, <2>2
  <1>9. written' = written \cup {id} /\ accepted' \in {accepted, accepted \cup {id}}
    BY <1>2, <1>4, <1>7 DEF accepted
  <1>10. QED
    BY <1>5, <1>6, <1>8, <1>9 DEF Promise!Attempt, id

\* A message is shown when it is read.
LEMMA ReadImplements ==
  ASSUME IInv, NEW d \in Devices, NEW id \in batch[d], NEW after, ReadsAs(d, id, after)
  PROVE  Promise!Show(id)
  <1>1. TypeOK /\ Numbered /\ Polled(d)
    BY DEF IInv, Bookkeeping
  <1>2. /\ id \in 1 .. Len(made) /\ made[id].to = d /\ id \in queue
        /\ made' = made /\ queue' = queue
    BY <1>1 DEF ReadsAs, Polled, AddressedTo
  <1>3. /\ made[id].from # d /\ id \in Ids
        /\ history[d][id] = 0 /\ history'[d][id] = 1
        /\ \A x \in Devices, k \in Ids : ~(x = d /\ k = id) => history'[x][k] = history[x][k]
    BY ReadEffect
  <1>4. \A i \in 1 .. Len(made) : made[i].to \in Devices /\ made[i].from \in Devices
    BY <1>1, TypeFacts DEF Envelope
  <1>5. written' = written /\ id \in written
    BY <1>2 DEF written
  <1>6. shown[id] = 0 /\ shown' = [shown EXCEPT ![id] = 1]
    <2>1. shown[id] = 0
      BY <1>2, <1>3, <1>5 DEF shown
    <2>2. \A k \in Ids : (IF k \in written' THEN history'[made'[k].to][k] ELSE 0)
                          = IF k = id THEN 1 ELSE shown[k]
      BY <1>2, <1>3, <1>4, <1>5 DEF written, shown
    <2>3. shown' = [k \in Ids |-> IF k = id THEN 1 ELSE shown[k]]
      BY <2>2, Zenon DEF shown
    <2>4. [k \in Ids |-> IF k = id THEN 1 ELSE shown[k]] = [shown EXCEPT ![id] = 1]
      BY DEF shown
    <2>5. QED BY <2>1, <2>3, <2>4
  <1>7. filed' = filed
    <2>1. \A k \in Ids : (IF k \in written' THEN history'[made'[k].from][k] ELSE 0)
                          = IF k \in written THEN history[made[k].from][k] ELSE 0
      BY <1>2, <1>3, <1>4, <1>5 DEF written
    <2>2. QED BY <2>1, Zenon DEF filed
  <1>8. id \in accepted /\ accepted' = accepted
    <2>1. \A k \in written : shown'[k] > 0 <=> k = id \/ shown[k] > 0
      <3> TAKE k \in written
      <3>1. k \in Ids
        BY <1>1 DEF written, Numbered
      <3>2. shown'[k] = IF k = id THEN 1 ELSE shown[k]
        BY <1>6, <3>1 DEF shown
      <3>3. QED BY <3>2
    <2>2. QED BY <1>2, <1>5, <2>1 DEF accepted
  <1>9. QED BY <1>5, <1>6, <1>7, <1>8 DEF Promise!Show

LEMMA QuietImplements ==
  ASSUME IInv, Quiet
  PROVE  UNCHANGED Promise!vars
  <1>1. TypeOK /\ Numbered /\ \A x \in Devices : Recorded(x)
    BY DEF IInv, Bookkeeping
  <1>2. /\ history' = history /\ made' = made /\ queue' \subseteq queue
        /\ \A k \in queue : k \notin queue' => k \in processed[made[k].to]
    BY DEF Quiet, store
  <1>3. written' = written /\ shown' = shown /\ filed' = filed
    BY <1>2 DEF written, shown, filed
  <1>4. \A k \in queue : k \notin queue' => k \in written /\ shown[k] = 1
    <2> TAKE k \in queue
    <2>1. k \in written /\ k \in 1 .. Len(made) /\ k \in Ids
      BY <1>1 DEF Numbered, written
    <2>2. made[k].to \in Devices
      BY <1>1, <2>1, TypeFacts DEF Envelope
    <2>3. k \notin queue' => history[made[k].to][k] = 1
      BY <1>1, <1>2, <2>1, <2>2 DEF Recorded
    <2>4. QED BY <2>1, <2>3 DEF shown
  <1>5. accepted' = queue' \cup {k \in written : shown[k] > 0}
    BY <1>3 DEF accepted
  <1>6. accepted' = accepted
    BY <1>2, <1>4, <1>5 DEF accepted
  <1>7. QED BY <1>3, <1>6 DEF Promise!vars

\* Once the server has accepted a message it is not lost again; it enters its
\* sender's history (commit_outgoing_delivery) at most once and its
\* recipient's (commit_incoming_message) at most once, whatever the network
\* loses and whenever a client dies.
THEOREM ClientsImplementDelivery == Spec => ImplementsDelivery
  <1>1. Init => Promise!Init
    <2> SUFFICES ASSUME Init PROVE Promise!Init
      OBVIOUS
    <2>1. written = {} /\ queue = {}
      BY DEF Init, written
    <2>2. shown = [m \in Ids |-> 0] /\ filed = [m \in Ids |-> 0]
      BY <2>1 DEF shown, filed
    <2>3. accepted = {}
      BY <2>1 DEF accepted
    <2>4. QED BY <2>1, <2>2, <2>3 DEF Promise!Init
  <1>2. IInv /\ [Next]_vars => [Promise!Next]_(Promise!vars)
    <2> SUFFICES ASSUME IInv, [Next]_vars
                 PROVE  Promise!Next \/ UNCHANGED Promise!vars
      OBVIOUS
    <2>1. ASSUME NEW d \in Devices, NEW reached \in BOOLEAN, NEW e, NEW after, NEW id,
                 Sends(d, e, id, after, reached)
          PROVE  Promise!Next
      BY <2>1, SendImplements DEF Promise!Next, Sends, MadeAs
    <2>2. ASSUME NEW d \in Devices, NEW reached \in BOOLEAN, NEW answered \in BOOLEAN,
                 NEW item \in outbox[d], Retry(d, item, reached, answered)
          PROVE  Promise!Next
      BY <2>2, RetryImplements, RetryEffect DEF Promise!Next
    <2>3. ASSUME NEW d \in Devices, NEW id \in batch[d], NEW after, ReadsAs(d, id, after)
          PROVE  Promise!Next
      BY <2>3, ReadImplements, ReadEffect DEF Promise!Next
    <2>4. QED BY <2>1, <2>2, <2>3, StepKinds, QuietImplements
  <1>3. QED
    BY <1>1, <1>2, Invariance, PTL DEF Spec, ImplementsDelivery, Promise!Spec

=============================================================================
