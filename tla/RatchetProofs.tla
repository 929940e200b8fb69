--------------------------- MODULE RatchetProofs ---------------------------
(***************************************************************************)
(* Proofs about the ratchet for every MAX_SKIP and every number of         *)
(* messages.  The inductive invariant IInv says how the two sessions are   *)
(* linked (whoever ratcheted last is one root step ahead of its peer) and, *)
(* for every message sent, whether its reader has passed it: a message     *)
(* passed is either read or its key is in the store, one not passed is     *)
(* neither.                                                                *)
(***************************************************************************)
EXTENDS Ratchet, FiniteSetTheorems, TLAPS

-----------------------------------------------------------------------------
(* The inductive invariant.                                                *)

Older(s, m) == s.remote # NoKey /\ m.dh[2] < s.remote[2]

\* The reader's session has derived the key of m.
Passed(s, m) == Older(s, m) \/ (m.dh = s.remote /\ m.n < s.nr)

\* A sender's chain continues where its last message stopped, and the chains
\* it has left behind branched from shorter roots.
SenderInv(p) ==
  LET s == session[p]
  IN  /\ Len(sent[p]) <= MaxSent
      /\ s.self[1] = p
      /\ s.sendChain # NoKey =>
           s.sendChain = [root |-> s.root, label |-> "root-step", step |-> s.ns]
      /\ s.sendChain = NoKey => sent[p] = << >> /\ s.ns = 0
      /\ \A i \in 1 .. Len(sent[p]) :
           LET m == sent[p][i]
           IN  /\ m.dh[1] = p
               /\ m.dh[2] <= s.self[2]
               /\ m.key.step = m.n
               /\ m.key.label = "root-step"
               /\ m.dh = s.self => m.n < s.ns /\ m.pn = s.pn /\ m.key.root = s.root
               /\ m.dh # s.self => Len(m.key.root) + 2 <= Len(s.root)

\* The messages of a chain are numbered from 0 without gap or repetition.
NumberingInv(p) ==
  /\ \A i, j \in 1 .. Len(sent[p]) :
       sent[p][i].dh = sent[p][j].dh /\ sent[p][i].n = sent[p][j].n => i = j
  /\ \A i \in 1 .. Len(sent[p]) : \A k \in 0 .. sent[p][i].n - 1 :
       \E j \in 1 .. Len(sent[p]) : sent[p][j].dh = sent[p][i].dh /\ sent[p][j].n = k
  /\ \A k \in 0 .. session[p].ns - 1 :
       \E j \in 1 .. Len(sent[p]) : sent[p][j].dh = session[p].self /\ sent[p][j].n = k

\* With the read counts rd, session s of p accounts for every message of q:
\* passed messages are read or stored, the others neither, and the store holds
\* nothing else.
Tracks(s, q, rd) ==
  /\ s.recvChain.step = s.nr
  /\ \A e \in s.skipped : \E i \in 1 .. Len(sent[q]) :
       sent[q][i].dh = e.dh /\ sent[q][i].n = e.n /\ sent[q][i].key = e.key
  /\ \A i \in 1 .. Len(sent[q]) :
       LET m == sent[q][i]
       IN  /\ m.dh = s.remote =>
                m.key.root = s.recvChain.root /\ m.key.label = s.recvChain.label
           /\ Passed(s, m) =>
                \/ rd[i] = 1 /\ StoredKeys(s, m) = {}
                \/ rd[i] = 0 /\ StoredKeys(s, m) # {}
           /\ ~Passed(s, m) => rd[i] = 0 /\ StoredKeys(s, m) = {}

\* p's session tracks its peer, and is at most one DH key behind it.
ReaderInv(p) ==
  LET s == session[p]
      q == Peer(p)
  IN  /\ Tracks(s, q, reads[p])
      /\ s.remote = session[q].self => s.nr <= session[q].ns
      /\ \A i \in 1 .. MaxSent : i > Len(sent[q]) => reads[p][i] = 0
      /\ \A i \in 1 .. Len(sent[q]) :
           Older(s, sent[q][i]) \/ sent[q][i].dh = s.remote \/ sent[q][i].dh = session[q].self

\* p is the one that ratcheted last: its peer has yet to see p's DH key.
Ahead(p) ==
  LET s == session[p]
      q == Peer(p)
      t == session[q]
  IN  /\ s.remote = t.self
      /\ s.root = Append(t.root, Agree(t.self, s.self))
      /\ t.sendChain # NoKey =>
           s.recvChain.root = t.root /\ s.recvChain.label = "root-step"
      /\ t.remote = NoKey => s.pn = 0
      /\ t.remote # NoKey =>
           /\ t.remote = <<p, s.self[2] - 1>>
           /\ \A i \in 1 .. Len(sent[p]) : sent[p][i].dh = t.remote => sent[p][i].n < s.pn
           /\ \A k \in 0 .. s.pn - 1 :
                \E j \in 1 .. Len(sent[p]) : sent[p][j].dh = t.remote /\ sent[p][j].n = k

IInv ==
  /\ TypeOK
  /\ KeyUsedOnce
  /\ \A p \in Parties : SenderInv(p)
  /\ \A p \in Parties : NumberingInv(p)
  /\ \A p \in Parties : ReaderInv(p)
  /\ \E p \in Parties : Ahead(p)
-----------------------------------------------------------------------------
(* Facts about the operators of a session.                                 *)

LEMMA PeerFacts ==
  ASSUME NEW p \in Parties
  PROVE  /\ Peer(p) \in Parties
         /\ Peer(p) # p
         /\ Peer(Peer(p)) = p
         /\ \A r \in Parties : r = p \/ r = Peer(p)
  BY PartiesAssumption DEF Parties, Peer

\* k steps of kdf_ck move a chain key k steps on and leave its root and label.
LEMMA KdfCkType ==
  ASSUME NEW c \in ChainKey, NEW k \in Nat
  PROVE  /\ KdfCk(c, k) \in ChainKey
         /\ KdfCk(c, k) = [root |-> c.root, label |-> c.label, step |-> c.step + k]
  BY DEF KdfCk, ChainKey

LEMMA ChainOfType ==
  ASSUME NEW r \in RootKey
  PROVE  /\ ChainOf(r) \in ChainKey
         /\ ChainOf(r).root = r
         /\ ChainOf(r).label = "root-step"
         /\ ChainOf(r).step = 0
  BY DEF ChainOf, ChainKey, Label

LEMMA KdfRkType ==
  ASSUME NEW r \in RootKey, NEW k \in PublicKey, NEW l \in PublicKey
  PROVE  /\ KdfRk(r, Agree(k, l)) \in RootKey
         /\ Len(KdfRk(r, Agree(k, l))) = Len(r) + 1
         /\ Len(r) \in Nat
  BY DEF KdfRk, Agree, RootKey

LEMMA FreshKeyType ==
  ASSUME NEW k \in PublicKey
  PROVE  /\ FreshKey(k) \in PublicKey
         /\ FreshKey(k)[1] = k[1]
         /\ FreshKey(k)[2] = k[2] + 1
         /\ k[2] \in Nat
         /\ k[1] \in Parties
         /\ k = <<k[1], k[2]>>
  BY DEF FreshKey, PublicKey

LEMMA NoKeyFacts ==
  /\ NoKey \notin PublicKey
  /\ NoKey \notin ChainKey
  BY NoKeyAssumption

\* skip_receiving_keys moves the receiving chain to message number until (never
\* back), stashes the keys it passes and changes nothing else.
LEMMA SkipToFacts ==
  ASSUME NEW s \in Session, NEW dh \in PublicKey, NEW until \in Nat,
         s.recvChain.step = s.nr
  PROVE  LET r == SkipTo(s, dh, until)
             key(k) == [root |-> s.recvChain.root, label |-> s.recvChain.label, step |-> k]
         IN  /\ r \in Session
             /\ r.root = s.root /\ r.self = s.self /\ r.remote = s.remote
             /\ r.sendChain = s.sendChain /\ r.ns = s.ns /\ r.pn = s.pn
             /\ r.nr = IF until <= s.nr THEN s.nr ELSE until
             /\ r.recvChain = key(r.nr)
             /\ \A e \in r.skipped :
                  \/ e \in s.skipped
                  \/ \E k \in s.nr .. until - 1 : e = [dh |-> dh, n |-> k, key |-> key(k)]
             /\ \A e \in s.skipped :
                  ~(e.dh = dh /\ e.n \in s.nr .. until - 1) => e \in r.skipped
             /\ \A k \in s.nr .. until - 1 : [dh |-> dh, n |-> k, key |-> key(k)] \in r.skipped
  <1> DEFINE key(k) == [root |-> s.recvChain.root, label |-> s.recvChain.label, step |-> k]
  <1>1. /\ s.nr \in Nat /\ s.recvChain \in ChainKey
        /\ s.recvChain = key(s.nr)
    BY DEF Session, ChainKey
  <1>2. CASE until <= s.nr
    BY <1>1, <1>2 DEF SkipTo
  <1>3. CASE until > s.nr
    <2> DEFINE stashed == s.nr .. until - 1
               fresh == {[dh |-> dh, n |-> k, key |-> KdfCk(s.recvChain, k - s.nr)] : k \in stashed}
               kept == {e \in s.skipped : ~(e.dh = dh /\ e.n \in stashed)}
               r == SkipTo(s, dh, until)
    <2>1. \A k \in stashed : KdfCk(s.recvChain, k - s.nr) = key(k) /\ key(k) \in ChainKey
      <3> TAKE k \in stashed
      <3>1. k - s.nr \in Nat
        BY <1>1
      <3>2. QED BY <3>1, <1>1, KdfCkType
    <2>2. /\ \A e \in fresh : \E k \in stashed : e = [dh |-> dh, n |-> k, key |-> key(k)]
          /\ \A k \in stashed : [dh |-> dh, n |-> k, key |-> key(k)] \in fresh
          /\ fresh \subseteq SkippedKey
      <3>1. \A k \in stashed : k \in Nat
        BY <1>1
      <3>2. ASSUME NEW e \in fresh
            PROVE  \E k \in stashed : e = [dh |-> dh, n |-> k, key |-> key(k)]
        <4>1. PICK k \in stashed : e = [dh |-> dh, n |-> k, key |-> KdfCk(s.recvChain, k - s.nr)]
          OBVIOUS
        <4>2. KdfCk(s.recvChain, k - s.nr) = key(k)
          BY <2>1
        <4> HIDE DEF key, stashed
        <4> QED BY <4>1, <4>2
      <3>3. ASSUME NEW k \in stashed
            PROVE  [dh |-> dh, n |-> k, key |-> key(k)] \in fresh
        <4>1. KdfCk(s.recvChain, k - s.nr) = key(k)
          BY <2>1
        <4>2. [dh |-> dh, n |-> k, key |-> KdfCk(s.recvChain, k - s.nr)] \in fresh
          OBVIOUS
        <4> HIDE DEF key, stashed, fresh
        <4> QED BY <4>1, <4>2
      <3>4. \A k \in stashed : [dh |-> dh, n |-> k, key |-> key(k)] \in SkippedKey
        BY <2>1, <3>1 DEF SkippedKey
      <3> HIDE DEF key, stashed, fresh
      <3>5. fresh \subseteq SkippedKey
        BY <3>2, <3>4
      <3> QED BY <3>2, <3>3, <3>5
    <2>3. /\ KdfCk(s.recvChain, until - s.nr) = key(until)
          /\ key(until) \in ChainKey
      <3>1. until - s.nr \in Nat /\ s.nr + (until - s.nr) = until
        BY <1>1, <1>3
      <3>2. QED BY <3>1, <1>1, KdfCkType
    <2>4. r = [s EXCEPT !.recvChain = key(until), !.nr = until, !.skipped = kept \cup fresh]
      <3>1. ~(until <= s.nr)
        BY <1>1, <1>3
      <3>2. r = [s EXCEPT !.recvChain = KdfCk(s.recvChain, until - s.nr), !.nr = until,
                          !.skipped = kept \cup fresh]
        BY <3>1, Zenon DEF SkipTo
      <3>3. QED BY <2>3, <3>2, Zenon
    <2>5. kept \cup fresh \subseteq SkippedKey
      BY <2>2 DEF Session
    <2>6. /\ r \in Session
          /\ r.root = s.root /\ r.self = s.self /\ r.remote = s.remote
          /\ r.sendChain = s.sendChain /\ r.ns = s.ns /\ r.pn = s.pn
          /\ r.nr = until /\ r.recvChain = key(until) /\ r.skipped = kept \cup fresh
      BY <2>3, <2>4, <2>5 DEF Session
    <2>8. \A e \in r.skipped : e \in s.skipped \/ e \in fresh
      BY <2>6
    <2>9. \A e \in s.skipped : ~(e.dh = dh /\ e.n \in stashed) => e \in r.skipped
      BY <2>6
    <2>10. \A k \in stashed : [dh |-> dh, n |-> k, key |-> key(k)] \in r.skipped
      <3> HIDE DEF stashed, fresh, kept, r, key
      <3> QED BY <2>2, <2>6
    <2>11. \A e \in fresh : \E k \in stashed : e = [dh |-> dh, n |-> k, key |-> key(k)]
      BY <2>2
    <2>12. r.nr = IF until <= s.nr THEN s.nr ELSE until
      BY <2>6, <1>1, <1>3
    <2> HIDE DEF stashed, fresh, kept, r
    <2>13. QED
      BY <2>6, <2>8, <2>9, <2>10, <2>11, <2>12 DEF stashed, r
  <1>4. QED
    BY <1>1, <1>2, <1>3

LEMMA SkipToKeepsChain ==
  ASSUME NEW s \in Session, NEW dh \in PublicKey, NEW until \in Nat,
         s.recvChain.step = s.nr
  PROVE  LET r == SkipTo(s, dh, until)
         IN  /\ r.recvChain.root = s.recvChain.root
             /\ r.recvChain.label = s.recvChain.label
             /\ r.recvChain.step = r.nr
  <1> DEFINE r == SkipTo(s, dh, until)
  <1>1. r.recvChain = [root |-> s.recvChain.root, label |-> s.recvChain.label, step |-> r.nr]
    BY SkipToFacts
  <1> HIDE DEF r
  <1>2. QED BY <1>1 DEF r

\* dh_ratchet_step: two root steps, a fresh key of our own, both chains and
\* both counters restarted; the store of skipped keys is untouched.
LEMMA StepFacts ==
  ASSUME NEW s \in Session, NEW remote \in PublicKey
  PROVE  LET r == DhRatchetStep(s, remote)
         IN  /\ r \in Session
             /\ r.self = FreshKey(s.self) /\ r.remote = remote
             /\ r.pn = s.ns /\ r.ns = 0 /\ r.nr = 0
             /\ r.skipped = s.skipped
             /\ r.recvChain = ChainOf(Append(s.root, Agree(s.self, remote)))
             /\ r.root = Append(Append(s.root, Agree(s.self, remote)),
                                Agree(FreshKey(s.self), remote))
             /\ r.sendChain = ChainOf(r.root)
             /\ Len(r.recvChain.root) = Len(s.root) + 1
             /\ Len(r.root) = Len(s.root) + 2
             /\ r.root \in RootKey /\ r.recvChain.root \in RootKey
  <1> DEFINE one == KdfRk(s.root, Agree(s.self, remote))
             two == KdfRk(one, Agree(FreshKey(s.self), remote))
             r == DhRatchetStep(s, remote)
  <1>1. s.root \in RootKey /\ s.self \in PublicKey
    BY DEF Session
  <1>2. FreshKey(s.self) \in PublicKey
    BY <1>1, FreshKeyType
  <1>3. one \in RootKey /\ Len(one) = Len(s.root) + 1 /\ Len(s.root) \in Nat
    BY <1>1, KdfRkType
  <1>4. two \in RootKey /\ Len(two) = Len(one) + 1
    BY <1>2, <1>3, KdfRkType
  <1>5. r = [s EXCEPT !.pn = s.ns, !.ns = 0, !.nr = 0, !.remote = remote,
                      !.self = FreshKey(s.self), !.recvChain = ChainOf(one),
                      !.sendChain = ChainOf(two), !.root = two]
    BY DEF DhRatchetStep
  <1>6. ChainOf(one) \in ChainKey /\ ChainOf(two) \in ChainKey /\ ChainOf(one).root = one
    BY <1>3, <1>4, ChainOfType
  <1> HIDE DEF one, two, r
  <1>7. /\ r \in Session
        /\ r.self = FreshKey(s.self) /\ r.remote = remote
        /\ r.pn = s.ns /\ r.ns = 0 /\ r.nr = 0
        /\ r.skipped = s.skipped
        /\ r.recvChain = ChainOf(one) /\ r.sendChain = ChainOf(two) /\ r.root = two
    BY <1>2, <1>3, <1>4, <1>5, <1>6 DEF Session
  <1>8. one = Append(s.root, Agree(s.self, remote)) /\ two = Append(one, Agree(FreshKey(s.self), remote))
    BY DEF KdfRk, one, two
  <1>9. Len(r.recvChain.root) = Len(s.root) + 1 /\ Len(r.root) = Len(s.root) + 2
    BY <1>3, <1>4, <1>6, <1>7
  <1>10. QED
    BY <1>3, <1>4, <1>6, <1>7, <1>8, <1>9 DEF r

LEMMA SentIndices ==
  ASSUME TypeOK, NEW q \in Parties, SenderInv(q)
  PROVE  1 .. Len(sent[q]) \subseteq 1 .. MaxSent
  <1>1. Len(sent[q]) \in Nat /\ Len(sent[q]) <= MaxSent /\ MaxSent \in Nat
    BY BoundsAssumption DEF TypeOK, SenderInv
  <1>2. QED BY <1>1

LEMMA MessageType ==
  ASSUME TypeOK, NEW q \in Parties, NEW i \in 1 .. Len(sent[q])
  PROVE  LET m == sent[q][i]
         IN  /\ m \in Message
             /\ m.dh \in PublicKey /\ m.n \in Nat /\ m.pn \in Nat
             /\ m.key \in ChainKey
             /\ m.dh[2] \in Nat
             /\ m.key.root \in RootKey /\ Len(m.key.root) \in Nat
  <1>1. sent[q][i] \in Message
    BY DEF TypeOK
  <1>2. QED
    BY <1>1, FreshKeyType DEF Message, ChainKey, RootKey

-----------------------------------------------------------------------------
(* The session a reader goes through while it decrypts keeps tracking the  *)
(* peer's messages.                                                        *)

\* Skipping along the chain a session is on stores the keys of messages that
\* exist and have not been read.
LEMMA SkipTracks ==
  ASSUME TypeOK, NEW q \in Parties, SenderInv(q),
         NEW s \in Session, NEW rd, Tracks(s, q, rd), s.remote \in PublicKey,
         NEW until \in Nat,
         \A k \in 0 .. until - 1 :
           \E j \in 1 .. Len(sent[q]) : sent[q][j].dh = s.remote /\ sent[q][j].n = k
  PROVE  Tracks(SkipTo(s, s.remote, until), q, rd)
  <1> DEFINE r == SkipTo(s, s.remote, until)
             key(k) == [root |-> s.recvChain.root, label |-> s.recvChain.label, step |-> k]
             new(k) == [dh |-> s.remote, n |-> k, key |-> key(k)]
  <1>0. s.nr \in Nat /\ s.recvChain \in ChainKey /\ s.recvChain.step = s.nr
    BY DEF Session, Tracks
  <1>1. /\ r \in Session
        /\ r.remote = s.remote
        /\ r.nr = IF until <= s.nr THEN s.nr ELSE until
        /\ r.recvChain = key(r.nr)
        /\ \A e \in r.skipped : e \in s.skipped \/ \E k \in s.nr .. until - 1 : e = new(k)
        /\ \A e \in s.skipped : ~(e.dh = s.remote /\ e.n \in s.nr .. until - 1) => e \in r.skipped
        /\ \A k \in s.nr .. until - 1 : new(k) \in r.skipped
    BY SkipToFacts, <1>0
  <1>2. \A j \in 1 .. Len(sent[q]) : sent[q][j] \in Message /\ sent[q][j].n \in Nat /\ sent[q][j].dh \in PublicKey
                                      /\ sent[q][j].key \in ChainKey /\ sent[q][j].key.step = sent[q][j].n
    BY MessageType DEF SenderInv
  <1> HIDE DEF r
  <1>3. \A e \in r.skipped : \E i \in 1 .. Len(sent[q]) :
          sent[q][i].dh = e.dh /\ sent[q][i].n = e.n /\ sent[q][i].key = e.key
    <2> TAKE e \in r.skipped
    <2>1. CASE e \in s.skipped
      BY <2>1 DEF Tracks
    <2>2. ASSUME NEW k \in s.nr .. until - 1, e = new(k)
          PROVE  \E i \in 1 .. Len(sent[q]) :
                   sent[q][i].dh = e.dh /\ sent[q][i].n = e.n /\ sent[q][i].key = e.key
      <3>1. k \in 0 .. until - 1
        BY <1>0
      <3>2. PICK j \in 1 .. Len(sent[q]) : sent[q][j].dh = s.remote /\ sent[q][j].n = k
        BY <3>1
      <3>3. sent[q][j].key.root = s.recvChain.root /\ sent[q][j].key.label = s.recvChain.label
        BY <3>2 DEF Tracks
      <3>4. sent[q][j].key = key(k)
        BY <3>2, <3>3, <1>2 DEF ChainKey
      <3>5. QED BY <2>2, <3>2, <3>4
    <2>3. QED BY <1>1, <2>1, <2>2
  <1>4. ASSUME NEW i \in 1 .. Len(sent[q])
        PROVE  LET m == sent[q][i]
               IN  /\ m.dh = r.remote =>
                        m.key.root = r.recvChain.root /\ m.key.label = r.recvChain.label
                   /\ Passed(r, m) =>
                        \/ rd[i] = 1 /\ StoredKeys(r, m) = {}
                        \/ rd[i] = 0 /\ StoredKeys(r, m) # {}
                   /\ ~Passed(r, m) => rd[i] = 0 /\ StoredKeys(r, m) = {}
    <2> DEFINE m == sent[q][i]
    <2>1. m.n \in Nat
      BY <1>2
    <2>2. m.dh = r.remote => m.key.root = r.recvChain.root /\ m.key.label = r.recvChain.label
      BY <1>1 DEF Tracks
    <2>3. CASE m.dh = s.remote /\ m.n \in s.nr .. until - 1
      <3>1. ~Passed(s, m) /\ Passed(r, m)
        BY <2>3, <1>0, <1>1, FreshKeyType DEF Passed, Older
      <3>2. new(m.n) \in StoredKeys(r, m)
        BY <2>3, <1>1 DEF StoredKeys
      <3>3. QED BY <3>1, <3>2, <2>2 DEF Tracks
    <2>4. CASE ~(m.dh = s.remote /\ m.n \in s.nr .. until - 1)
      <3>1. Passed(s, m) <=> Passed(r, m)
        BY <2>4, <2>1, <1>0, <1>1 DEF Passed, Older
      <3>2. StoredKeys(r, m) = StoredKeys(s, m)
        BY <2>4, <1>1 DEF StoredKeys
      <3>3. QED BY <3>1, <3>2, <2>2 DEF Tracks
    <2>5. QED BY <2>3, <2>4
  <1>5. r.recvChain.step = r.nr
    BY <1>1
  <1>6. QED
    BY <1>3, <1>4, <1>5 DEF Tracks, r

\* Ratcheting to the peer's new key passes the chain the session was on: every
\* message of that chain must already be passed.
LEMMA StepTracks ==
  ASSUME TypeOK, NEW q \in Parties, SenderInv(q),
         NEW s \in Session, NEW rd, Tracks(s, q, rd),
         s.remote # session[q].self,
         s.remote # NoKey => s.remote = <<q, session[q].self[2] - 1>>,
         session[q].root = Append(s.root, Agree(s.self, session[q].self)),
         \A i \in 1 .. Len(sent[q]) :
           \/ Older(s, sent[q][i])
           \/ sent[q][i].dh = s.remote /\ sent[q][i].n < s.nr
           \/ sent[q][i].dh = session[q].self
  PROVE  Tracks(DhRatchetStep(s, session[q].self), q, rd)
  <1> DEFINE t == session[q]
             r == DhRatchetStep(s, t.self)
  <1>1. t \in Session /\ t.self \in PublicKey /\ t.self[2] \in Nat
    BY FreshKeyType DEF TypeOK, Session
  <1>2. /\ r \in Session /\ r.remote = t.self /\ r.nr = 0 /\ r.skipped = s.skipped
        /\ r.recvChain = ChainOf(Append(s.root, Agree(s.self, t.self)))
    BY <1>1, StepFacts
  <1>3. r.recvChain.root = t.root /\ r.recvChain.label = "root-step" /\ r.recvChain.step = 0
    BY <1>2 DEF ChainOf
  <1>4. t.self # NoKey
    BY <1>1, NoKeyFacts
  <1> HIDE DEF r
  <1>5. ASSUME NEW i \in 1 .. Len(sent[q])
        PROVE  LET m == sent[q][i]
               IN  /\ m.dh = r.remote =>
                        m.key.root = r.recvChain.root /\ m.key.label = r.recvChain.label
                   /\ Passed(r, m) =>
                        \/ rd[i] = 1 /\ StoredKeys(r, m) = {}
                        \/ rd[i] = 0 /\ StoredKeys(r, m) # {}
                   /\ ~Passed(r, m) => rd[i] = 0 /\ StoredKeys(r, m) = {}
    <2> DEFINE m == sent[q][i]
    <2>1. m.n \in Nat /\ m.dh \in PublicKey /\ m.dh[2] \in Nat
      BY MessageType
    <2>2. m.dh = r.remote => m.key.root = r.recvChain.root /\ m.key.label = r.recvChain.label
      BY <1>2, <1>3 DEF SenderInv
    <2>3. StoredKeys(r, m) = StoredKeys(s, m)
      BY <1>2 DEF StoredKeys
    <2>4. Passed(r, m) <=> m.dh[2] < t.self[2]
      BY <1>2, <1>4, <2>1 DEF Passed, Older
    <2>5. CASE Older(s, m)
      <3>1. m.dh[2] < t.self[2] /\ Passed(s, m)
        BY <2>1, <2>5, <1>1, FreshKeyType DEF Passed, Older
      <3>2. QED BY <3>1, <2>2, <2>3, <2>4 DEF Tracks
    <2>6. CASE m.dh = s.remote /\ m.n < s.nr
      <3>1. Passed(s, m) /\ m.dh = <<q, t.self[2] - 1>>
        BY <2>1, <2>6, NoKeyFacts DEF Passed
      <3>2. m.dh[2] < t.self[2]
        BY <3>1, <1>1
      <3>3. QED BY <3>1, <3>2, <2>2, <2>3, <2>4 DEF Tracks
    <2>7. CASE m.dh = t.self
      <3>1. ~Passed(s, m) /\ ~Passed(r, m)
        BY <2>7, <2>4, <1>1 DEF Passed, Older
      <3>2. QED BY <3>1, <2>2, <2>3 DEF Tracks
    <2>8. QED BY <2>5, <2>6, <2>7
  <1>6. QED
    BY <1>2, <1>3, <1>5 DEF Tracks, r

\* Reading the message a session stands at: it is passed, read and not stored.
LEMMA ReadTracks ==
  ASSUME TypeOK, NEW q \in Parties, SenderInv(q), NumberingInv(q),
         NEW s \in Session, NEW rd \in [1 .. MaxSent -> Nat], Tracks(s, q, rd),
         NEW i \in 1 .. Len(sent[q]), i \in 1 .. MaxSent,
         sent[q][i].dh = s.remote, sent[q][i].n = s.nr,
         StoredKeys(s, sent[q][i]) = {}
  PROVE  Tracks(KeyTaken(s), q,
                [rd EXCEPT ![i] = @ + 1])
  <1> DEFINE r == KeyTaken(s)
             rd1 == [rd EXCEPT ![i] = @ + 1]
  <1>1. s.recvChain \in ChainKey /\ s.nr \in Nat /\ s.recvChain.step = s.nr
    BY DEF Session, Tracks
  <1>2. KdfCk(s.recvChain, 1) = [root |-> s.recvChain.root, label |-> s.recvChain.label,
                                 step |-> s.recvChain.step + 1]
    BY <1>1, KdfCkType
  <1>3. /\ r.nr = s.nr + 1 /\ r.remote = s.remote /\ r.skipped = s.skipped
        /\ r.recvChain = KdfCk(s.recvChain, 1)
    BY DEF Session, KeyTaken
  <1>4. rd[i] = 0
    <2> DEFINE m == sent[q][i]
    <2>0. m.dh[2] \in Nat
      BY MessageType
    <2>1. ~Passed(s, m)
      BY <2>0, <1>1 DEF Passed, Older
    <2>2. QED BY <2>1 DEF Tracks
  <1>5. rd1[i] = 1 /\ \A j \in 1 .. Len(sent[q]) : j # i => rd1[j] = rd[j]
    BY <1>4
  <1> HIDE DEF r, rd1
  <1>6. ASSUME NEW j \in 1 .. Len(sent[q])
        PROVE  LET m == sent[q][j]
               IN  /\ m.dh = r.remote =>
                        m.key.root = r.recvChain.root /\ m.key.label = r.recvChain.label
                   /\ Passed(r, m) =>
                        \/ rd1[j] = 1 /\ StoredKeys(r, m) = {}
                        \/ rd1[j] = 0 /\ StoredKeys(r, m) # {}
                   /\ ~Passed(r, m) => rd1[j] = 0 /\ StoredKeys(r, m) = {}
    <2> DEFINE m == sent[q][j]
    <2>1. m.n \in Nat
      BY MessageType
    <2>2. m.dh = r.remote => m.key.root = r.recvChain.root /\ m.key.label = r.recvChain.label
      BY <1>2, <1>3 DEF Tracks
    <2>3. StoredKeys(r, m) = StoredKeys(s, m)
      BY <1>3 DEF StoredKeys
    <2>4. CASE j = i
      <3>1. Passed(r, m) /\ StoredKeys(s, m) = {}
        BY <2>1, <2>4, <1>1, <1>3 DEF Passed
      <3>2. QED BY <3>1, <2>2, <2>3, <2>4, <1>5
    <2>5. CASE j # i
      <3>1. ~(m.dh = s.remote /\ m.n = s.nr)
        BY <2>5 DEF NumberingInv
      <3>2. Passed(r, m) <=> Passed(s, m)
        BY <3>1, <2>1, <1>1, <1>3 DEF Passed, Older
      <3>3. QED BY <3>2, <2>2, <2>3, <2>5, <1>5 DEF Tracks
    <2>6. QED BY <2>4, <2>5
  <1>7. r.recvChain.step = r.nr
    BY <1>1, <1>2, <1>3
  <1>8. QED
    BY <1>3, <1>6, <1>7 DEF Tracks, r, rd1

-----------------------------------------------------------------------------
(* What the invariant says of the two sessions together.                   *)

LEMMA SessionType ==
  ASSUME TypeOK, NEW p \in Parties
  PROVE  LET s == session[p]
         IN  /\ s \in Session
             /\ s.self \in PublicKey /\ s.self[2] \in Nat /\ s.self # NoKey
             /\ s.root \in RootKey /\ Len(s.root) \in Nat
             /\ s.recvChain \in ChainKey
             /\ s.nr \in Nat /\ s.ns \in Nat /\ s.pn \in Nat
             /\ s.remote \in PublicKey \/ s.remote = NoKey
  <1>1. session[p] \in Session
    BY DEF TypeOK
  <1>2. session[p].self \in PublicKey /\ session[p].root \in RootKey
    BY <1>1 DEF Session
  <1>3. Len(session[p].root) \in Nat
    BY <1>2 DEF RootKey
  <1>4. QED
    BY <1>1, <1>2, <1>3, FreshKeyType, NoKeyFacts DEF Session

\* One party is ahead by exactly one root step, and only its peer has a DH
\* key left to learn.
LEMMA AheadFacts ==
  ASSUME IInv, NEW p \in Parties, Ahead(p)
  PROVE  LET s == session[p]
             t == session[Peer(p)]
         IN  /\ s.remote = t.self
             /\ t.remote # s.self
             /\ Len(s.root) = Len(t.root) + 1
  <1>1. Peer(p) \in Parties /\ TypeOK
    BY PeerFacts DEF IInv
  <1> DEFINE s == session[p]
             t == session[Peer(p)]
  <1>2. s.root = Append(t.root, Agree(t.self, s.self)) /\ t.root \in RootKey
    BY <1>1, SessionType DEF Ahead
  <1>3. Agree(t.self, s.self) \in SUBSET PublicKey
    BY <1>1, SessionType DEF Agree
  <1>4. Len(s.root) = Len(t.root) + 1
    BY <1>2, <1>3 DEF RootKey
  <1>5. t.remote # s.self
    <2>1. CASE t.remote = NoKey
      BY <2>1, <1>1, SessionType
    <2>2. CASE t.remote # NoKey
      <3>1. t.remote = <<p, s.self[2] - 1>> /\ s.self[2] \in Nat
        BY <2>2, <1>1, SessionType DEF Ahead
      <3>2. QED BY <3>1
    <2>3. QED BY <2>1, <2>2
  <1>6. QED
    BY <1>4, <1>5 DEF Ahead

LEMMA LinkFacts ==
  ASSUME IInv, NEW p \in Parties
  PROVE  LET s == session[p]
             t == session[Peer(p)]
         IN  \/ /\ Ahead(p)
                /\ s.remote = t.self /\ t.remote # s.self
                /\ Len(s.root) = Len(t.root) + 1
             \/ /\ Ahead(Peer(p))
                /\ t.remote = s.self /\ s.remote # t.self
                /\ Len(t.root) = Len(s.root) + 1
  <1>1. PICK r \in Parties : Ahead(r)
    BY DEF IInv
  <1>2. CASE r = p
    BY <1>1, <1>2, AheadFacts
  <1>3. CASE r = Peer(p)
    <2>1. Peer(r) = p
      BY <1>3, PeerFacts
    <2>2. QED BY <1>1, <1>3, <2>1, AheadFacts
  <1>4. QED
    BY <1>2, <1>3, PeerFacts

\* A message the reader has passed and whose key is not in the store does not
\* open: a replay on the current chain is refused by its number, and one of an
\* older chain would be decrypted under a root longer than its own.
LEMMA ReplayDoesNotOpen ==
  ASSUME IInv, NEW p \in Parties, NEW i \in 1 .. Len(sent[Peer(p)]),
         Passed(session[p], sent[Peer(p)][i])
  PROVE  ~OpensFromChain(session[p], sent[Peer(p)][i])
  <1> DEFINE q == Peer(p)
             s == session[p]
             t == session[q]
             m == sent[q][i]
  <1>1. q \in Parties /\ TypeOK /\ SenderInv(q) /\ ReaderInv(p)
    BY PeerFacts DEF IInv
  <1>2. /\ m.n \in Nat /\ m.pn \in Nat /\ m.dh \in PublicKey /\ m.dh[2] \in Nat
        /\ Len(m.key.root) \in Nat
    BY <1>1, MessageType
  <1>3. /\ s \in Session /\ s.nr \in Nat /\ Len(s.root) \in Nat /\ s.recvChain.step = s.nr
        /\ t.self \in PublicKey /\ t.self[2] \in Nat /\ Len(t.root) \in Nat
    BY <1>1, SessionType DEF ReaderInv, Tracks
  <1>4. CASE m.dh = s.remote /\ m.n < s.nr
    <2>1. OnChain(s, m) = s
      BY <1>4 DEF OnChain, NeedsStep
    <2>2. QED BY <2>1, <1>4, <1>2, <1>3 DEF OpensFromChain
  <1>5. CASE Older(s, m)
    <2> DEFINE old == OldChainStashed(s, m)
               on == OnChain(s, m)
    <2>1. s.remote \in PublicKey /\ s.remote # NoKey /\ m.dh[2] < s.remote[2] /\ s.remote[2] \in Nat
      BY <1>1, <1>5, SessionType, FreshKeyType DEF Older
    <2>2. m.dh # s.remote
      BY <2>1, <1>2
    <2>3. m.dh # t.self
      <3>1. s.remote = t.self \/ s.remote = <<q, t.self[2] - 1>>
        BY LinkFacts, <2>1, PeerFacts DEF Ahead
      <3>2. s.remote[2] <= t.self[2]
        BY <3>1, <1>3
      <3>3. m.dh[2] # t.self[2]
        BY <3>2, <2>1, <1>2, <1>3, SMT
      <3> HIDE DEF m, t
      <3>4. QED BY <3>3
    <2>4. Len(m.key.root) + 2 <= Len(t.root)
      BY <2>3, <1>1 DEF SenderInv
    <2>5. Len(t.root) <= Len(s.root) + 1
      BY LinkFacts, <1>3
    <2>6. old \in Session /\ old.root = s.root
      <3>1. old = SkipTo(s, s.remote, m.pn)
        BY <2>1 DEF OldChainStashed
      <3>2. s \in Session /\ s.remote \in PublicKey /\ m.pn \in Nat /\ s.recvChain.step = s.nr
        BY <1>2, <1>3, <2>1
      <3> HIDE DEF old
      <3> QED BY <3>1, <3>2, SkipToFacts
    <2>7. on = DhRatchetStep(old, m.dh)
      BY <2>2 DEF OnChain, NeedsStep
    <2> HIDE DEF old, on
    <2>8. /\ on \in Session
          /\ on.nr = 0
          /\ on.recvChain = ChainOf(Append(old.root, Agree(old.self, m.dh)))
          /\ Len(on.recvChain.root) = Len(old.root) + 1
      BY <2>6, <2>7, <1>2, StepFacts
    <2>9. on.recvChain.step = on.nr
      BY <2>8 DEF ChainOf
    <2>10. Positioned(s, m).recvChain.root = on.recvChain.root
      <3>1. Positioned(s, m) = SkipTo(on, m.dh, m.n)
        BY DEF Positioned, on
      <3>2. QED BY <3>1, <2>8, <2>9, <1>2, SkipToKeepsChain
    <2>11. Positioned(s, m).recvChain # m.key
      <3>1. Len(Positioned(s, m).recvChain.root) = Len(s.root) + 1
        BY <2>6, <2>8, <2>10
      <3> DEFINE a == Len(m.key.root)
                 b == Len(t.root)
                 c == Len(s.root)
      <3>2. a \in Nat /\ b \in Nat /\ c \in Nat /\ a + 2 <= b /\ b <= c + 1
        BY <2>4, <2>5, <1>2, <1>3
      <3> HIDE DEF a, b, c
      <3>3. a # c + 1
        BY <3>2
      <3>4. QED BY <3>1, <3>3 DEF a, c
    <2>12. QED BY <2>11 DEF OpensFromChain
  <1>6. QED
    BY <1>4, <1>5 DEF Passed

\* A message that opens has not been read, and opens in one of three ways:
\* from the store, on the chain the session is on, or by ratcheting to the key
\* of a peer that is ahead.
LEMMA OpensCases ==
  ASSUME IInv, NEW p \in Parties, NEW i \in 1 .. Len(sent[Peer(p)]),
         Opens(session[p], sent[Peer(p)][i])
  PROVE  LET s == session[p]
             m == sent[Peer(p)][i]
         IN  /\ reads[p][i] = 0
             /\ \/ Passed(s, m) /\ OpensFromStore(s, m)
                \/ /\ ~OpensFromStore(s, m) /\ StoredKeys(s, m) = {}
                   /\ m.dh = s.remote /\ m.n >= s.nr
                \/ /\ ~OpensFromStore(s, m) /\ StoredKeys(s, m) = {}
                   /\ Ahead(Peer(p)) /\ m.dh = session[Peer(p)].self
                   /\ m.dh # s.remote
  <1> DEFINE q == Peer(p)
             s == session[p]
             t == session[q]
             m == sent[q][i]
  <1>1. q \in Parties /\ TypeOK /\ ReaderInv(p) /\ Tracks(s, q, reads[p])
    BY PeerFacts DEF IInv, ReaderInv
  <1>2. CASE Passed(s, m)
    <2>1. ~OpensFromChain(s, m)
      BY <1>2, ReplayDoesNotOpen
    <2>2. OpensFromStore(s, m) /\ StoredKeys(s, m) # {}
      BY <2>1 DEF Opens, OpensFromStore
    <2>3. QED BY <2>2, <1>1, <1>2 DEF Tracks
  <1>3. CASE ~Passed(s, m)
    <2>1. reads[p][i] = 0 /\ StoredKeys(s, m) = {} /\ ~OpensFromStore(s, m)
      BY <1>1, <1>3 DEF Tracks, OpensFromStore
    <2>2. CASE m.dh = s.remote
      <3>1. m.n \in Nat /\ s.nr \in Nat
        BY <1>1, MessageType, SessionType
      <3>2. m.n >= s.nr
        BY <1>3, <2>2, <3>1 DEF Passed
      <3>3. QED BY <2>1, <2>2, <3>2
    <2>3. CASE m.dh # s.remote
      <3>1. m.dh = t.self
        BY <1>1, <1>3, <2>3 DEF ReaderInv, Passed
      <3>2. Ahead(q)
        BY <2>3, <3>1, LinkFacts
      <3>3. QED BY <2>1, <2>3, <3>1, <3>2
    <2>4. QED BY <2>2, <2>3
  <1>4. QED
    BY <1>2, <1>3

\* Reading a message whose key is in the store removes that key.
LEMMA StoreReadTracks ==
  ASSUME IInv, NEW p \in Parties, NEW i \in 1 .. Len(sent[Peer(p)]), i \in 1 .. MaxSent,
         Passed(session[p], sent[Peer(p)][i]),
         OpensFromStore(session[p], sent[Peer(p)][i])
  PROVE  LET s == session[p]
             r == KeyRemoved(s, sent[Peer(p)][i])
         IN  /\ r \in Session
             /\ Tracks(r, Peer(p), [reads[p] EXCEPT ![i] = @ + 1])
  <1> DEFINE q == Peer(p)
             s == session[p]
             m == sent[q][i]
             r == KeyRemoved(s, m)
             rd == [reads[p] EXCEPT ![i] = @ + 1]
  <1>1. q \in Parties /\ TypeOK /\ Tracks(s, q, reads[p]) /\ NumberingInv(q) /\ s \in Session
    BY PeerFacts, SessionType DEF IInv, ReaderInv
  <1>2. /\ r \in Session
        /\ r.remote = s.remote /\ r.nr = s.nr /\ r.recvChain = s.recvChain
        /\ r.skipped = s.skipped \ StoredKeys(s, m)
    BY <1>1 DEF Session, KeyRemoved
  <1>3. reads[p][i] = 0
    BY <1>1 DEF Tracks, OpensFromStore
  <1>4. reads[p] \in [1 .. MaxSent -> Nat]
    BY <1>1 DEF TypeOK
  <1>5. rd[i] = 1 /\ \A j \in 1 .. Len(sent[q]) : j # i => rd[j] = reads[p][j]
    <2>1. 1 .. Len(sent[q]) \subseteq 1 .. MaxSent
      BY <1>1, SentIndices DEF IInv
    <2>2. rd[i] = 1
      <3> DEFINE f == reads[p]
      <3>1. f \in [1 .. MaxSent -> Nat] /\ i \in 1 .. MaxSent /\ f[i] = 0
        BY <1>3, <1>4
      <3> HIDE DEF f
      <3>2. [f EXCEPT ![i] = @ + 1][i] = 1
        BY <3>1
      <3>3. QED BY <3>2 DEF f
    <2>3. ASSUME NEW j \in 1 .. Len(sent[q]), j # i
          PROVE  rd[j] = reads[p][j]
      BY <1>4, <2>1, <2>3
    <2>4. QED BY <2>2, <2>3
  <1> HIDE DEF r, rd
  <1>6. ASSUME NEW j \in 1 .. Len(sent[q])
        PROVE  LET n == sent[q][j]
               IN  /\ n.dh = r.remote =>
                        n.key.root = r.recvChain.root /\ n.key.label = r.recvChain.label
                   /\ Passed(r, n) =>
                        \/ rd[j] = 1 /\ StoredKeys(r, n) = {}
                        \/ rd[j] = 0 /\ StoredKeys(r, n) # {}
                   /\ ~Passed(r, n) => rd[j] = 0 /\ StoredKeys(r, n) = {}
    <2> DEFINE n == sent[q][j]
    <2>1. n.dh = r.remote => n.key.root = r.recvChain.root /\ n.key.label = r.recvChain.label
      BY <1>1, <1>2 DEF Tracks
    <2>2. Passed(r, n) <=> Passed(s, n)
      BY <1>2 DEF Passed, Older
    <2>3. CASE j = i
      <3>1. StoredKeys(r, n) = {}
        BY <1>2, <2>3 DEF StoredKeys
      <3>2. QED BY <3>1, <2>1, <2>2, <2>3, <1>5
    <2>4. CASE j # i
      <3>1. ~(n.dh = m.dh /\ n.n = m.n)
        BY <2>4, <1>1 DEF NumberingInv
      <3>2. StoredKeys(r, n) = StoredKeys(s, n)
        BY <3>1, <1>2 DEF StoredKeys
      <3>3. QED BY <3>2, <2>1, <2>2, <2>4, <1>1, <1>5 DEF Tracks
    <2>5. QED BY <2>3, <2>4
  <1>7. r.recvChain.step = r.nr
    BY <1>1, <1>2 DEF Tracks
  <1>8. \A e \in r.skipped : \E j \in 1 .. Len(sent[q]) :
          sent[q][j].dh = e.dh /\ sent[q][j].n = e.n /\ sent[q][j].key = e.key
    BY <1>1, <1>2 DEF Tracks
  <1>9. Tracks(r, q, rd)
    BY <1>6, <1>7, <1>8 DEF Tracks
  <1>10. QED
    BY <1>2, <1>9 DEF r, rd

\* Taking one message key moves the chain one step and changes nothing else.
LEMMA ReadType ==
  ASSUME NEW c \in Session
  PROVE  LET r == KeyTaken(c)
         IN  /\ r \in Session /\ r.nr = c.nr + 1 /\ r.skipped = c.skipped
             /\ r.remote = c.remote /\ r.root = c.root /\ r.self = c.self
             /\ r.sendChain = c.sendChain /\ r.ns = c.ns /\ r.pn = c.pn
             /\ r.recvChain.root = c.recvChain.root
             /\ r.recvChain.label = c.recvChain.label
  <1> DEFINE a == c.recvChain
             b == KdfCk(a, 1)
             r == [c EXCEPT !.recvChain = b, !.nr = @ + 1]
  <1>1. a \in ChainKey
    BY DEF Session
  <1> HIDE DEF a
  <1>2. b \in ChainKey /\ b.root = a.root /\ b.label = a.label
    <2>1. 1 \in Nat
      OBVIOUS
    <2>2. KdfCk(a, 1) \in ChainKey
          /\ KdfCk(a, 1) = [root |-> a.root, label |-> a.label, step |-> a.step + 1]
      BY <1>1, <2>1, KdfCkType
    <2>3. QED BY <2>2
  <1> HIDE DEF b
  <1>3. /\ r \in Session /\ r.nr = c.nr + 1 /\ r.skipped = c.skipped
        /\ r.remote = c.remote /\ r.root = c.root /\ r.self = c.self
        /\ r.sendChain = c.sendChain /\ r.ns = c.ns /\ r.pn = c.pn
        /\ r.recvChain = b
    <2>1. c.nr + 1 \in Nat
      BY DEF Session
    <2> DEFINE k == c.nr + 1
    <2> HIDE DEF k
    <2>2. r = [c EXCEPT !.recvChain = b, !.nr = k]
      BY DEF k
    <2> HIDE DEF r
    <2>3. QED BY <1>2, <2>1, <2>2 DEF Session, k
  <1>4. r = KeyTaken(c)
    BY DEF KeyTaken, a, b
  <1>5. QED
    BY <1>2, <1>3, <1>4 DEF a, b

\* The session that stands at message m of its chain reads it.
LEMMA ChainReadTracks ==
  ASSUME IInv, NEW p \in Parties, NEW i \in 1 .. Len(sent[Peer(p)]),
         NEW s \in Session, Tracks(s, Peer(p), reads[p]),
         s.remote = sent[Peer(p)][i].dh,
         s.nr <= sent[Peer(p)][i].n
  PROVE  LET m == sent[Peer(p)][i]
             c == SkipTo(s, m.dh, m.n)
             r == KeyTaken(c)
         IN  /\ r \in Session
             /\ Tracks(r, Peer(p), [reads[p] EXCEPT ![i] = @ + 1])
             /\ r.nr = m.n + 1
             /\ r.remote = s.remote /\ r.root = s.root /\ r.self = s.self
             /\ r.sendChain = s.sendChain /\ r.ns = s.ns /\ r.pn = s.pn
             /\ r.recvChain.root = s.recvChain.root
             /\ r.recvChain.label = s.recvChain.label
             /\ c.recvChain = m.key
  <1> DEFINE q == Peer(p)
             m == sent[q][i]
             c == SkipTo(s, m.dh, m.n)
             r == KeyTaken(c)
  <1>1. q \in Parties /\ TypeOK /\ SenderInv(q) /\ NumberingInv(q)
    BY PeerFacts DEF IInv
  <1>2. /\ m.dh \in PublicKey /\ m.n \in Nat /\ m.key \in ChainKey
        /\ m.key.step = m.n
    BY <1>1, MessageType DEF SenderInv
  <1>3. s.recvChain.step = s.nr /\ s.nr \in Nat /\ s.recvChain \in ChainKey
    BY DEF Tracks, Session
  <1>4. /\ c \in Session
        /\ c.root = s.root /\ c.self = s.self /\ c.remote = s.remote
        /\ c.sendChain = s.sendChain /\ c.ns = s.ns /\ c.pn = s.pn
        /\ c.nr = m.n
    <2>1. (IF m.n <= s.nr THEN s.nr ELSE m.n) = m.n
      BY <1>2, <1>3
    <2>2. QED BY <2>1, <1>2, <1>3, SkipToFacts
  <1>5. /\ c.recvChain.root = s.recvChain.root
        /\ c.recvChain.label = s.recvChain.label
        /\ c.recvChain.step = m.n
    BY <1>2, <1>3, <1>4, SkipToKeepsChain
  <1>6. Tracks(c, q, reads[p])
    <2>1. \A k \in 0 .. m.n - 1 :
            \E j \in 1 .. Len(sent[q]) : sent[q][j].dh = s.remote /\ sent[q][j].n = k
      BY <1>1 DEF NumberingInv
    <2>2. c = SkipTo(s, s.remote, m.n) /\ s.remote \in PublicKey
      BY <1>2
    <2> HIDE DEF c, m
    <2>3. QED BY <2>1, <2>2, <1>1, <1>2, SkipTracks
  <1>7. StoredKeys(c, m) = {}
    <2>1. ~Passed(c, m)
      <3>1. c.remote = m.dh /\ c.nr = m.n /\ m.dh[2] \in Nat
        BY <1>1, <1>4, MessageType
      <3> HIDE DEF c, m
      <3>2. QED BY <3>1, <1>2 DEF Passed, Older
    <2>2. QED BY <2>1, <1>6 DEF Tracks
  <1>8. c.recvChain = m.key
    <2>1. m.key.root = s.recvChain.root /\ m.key.label = s.recvChain.label
      BY DEF Tracks
    <2>2. c.recvChain \in ChainKey
      BY <1>4 DEF Session
    <2> HIDE DEF c, m
    <2>3. QED BY <2>1, <2>2, <1>2, <1>5 DEF ChainKey
  <1>9. reads[p] \in [1 .. MaxSent -> Nat] /\ i \in 1 .. MaxSent
    <2>1. 1 .. Len(sent[q]) \subseteq 1 .. MaxSent
      BY <1>1, SentIndices
    <2>2. QED BY <2>1, <1>1 DEF TypeOK
  <1>10. Tracks(r, q, [reads[p] EXCEPT ![i] = @ + 1])
    <2>1. sent[q][i].dh = c.remote /\ sent[q][i].n = c.nr /\ StoredKeys(c, sent[q][i]) = {}
      BY <1>4, <1>7
    <2> HIDE DEF c
    <2>2. QED BY <2>1, <1>1, <1>4, <1>6, <1>9, ReadTracks
  <1>11. /\ r \in Session /\ r.nr = m.n + 1
         /\ r.remote = c.remote /\ r.root = c.root /\ r.self = c.self
         /\ r.sendChain = c.sendChain /\ r.ns = c.ns /\ r.pn = c.pn
         /\ r.recvChain.root = c.recvChain.root
         /\ r.recvChain.label = c.recvChain.label
    <2> HIDE DEF c, m
    <2>1. QED BY <1>2, <1>4, ReadType
  <1>12. QED
    BY <1>4, <1>5, <1>8, <1>10, <1>11

\* Stashing what is left of the old chain: the session has then passed every
\* message of a peer that is ahead, except those under the peer's new key.
LEMMA OldChainTracks ==
  ASSUME IInv, NEW p \in Parties, NEW i \in 1 .. Len(sent[Peer(p)]), Ahead(Peer(p)),
         sent[Peer(p)][i].dh = session[Peer(p)].self
  PROVE  LET s == session[p]
             q == Peer(p)
             a == OldChainStashed(s, sent[q][i])
         IN  /\ a \in Session
             /\ a.root = s.root /\ a.self = s.self /\ a.remote = s.remote /\ a.ns = s.ns
             /\ Tracks(a, q, reads[p])
             /\ \A j \in 1 .. Len(sent[q]) :
                  \/ Older(a, sent[q][j])
                  \/ sent[q][j].dh = a.remote /\ sent[q][j].n < a.nr
                  \/ sent[q][j].dh = session[q].self
  <1> DEFINE q == Peer(p)
             s == session[p]
             t == session[q]
             m == sent[q][i]
             a == OldChainStashed(s, m)
             Goal ==
               /\ a \in Session
               /\ a.root = s.root /\ a.self = s.self /\ a.remote = s.remote /\ a.ns = s.ns
               /\ Tracks(a, q, reads[p])
               /\ \A j \in 1 .. Len(sent[q]) :
                    \/ Older(a, sent[q][j])
                    \/ sent[q][j].dh = a.remote /\ sent[q][j].n < a.nr
                    \/ sent[q][j].dh = t.self
  <1>1. /\ q \in Parties /\ Peer(q) = p /\ TypeOK /\ SenderInv(q) /\ ReaderInv(p)
        /\ Tracks(s, q, reads[p])
    BY PeerFacts DEF IInv, ReaderInv
  <1>2. /\ s \in Session /\ s.nr \in Nat /\ s.recvChain.step = s.nr
        /\ s.remote \in PublicKey \/ s.remote = NoKey
    BY <1>1, SessionType DEF Tracks
  <1>3. m.dh \in PublicKey /\ m.pn \in Nat /\ m.pn = t.pn
    <2>1. m.dh \in PublicKey /\ m.pn \in Nat
      BY <1>1, MessageType
    <2>2. QED BY <2>1, <1>1 DEF SenderInv
  <1>4. \A j \in 1 .. Len(sent[q]) :
          /\ sent[q][j].dh \in PublicKey /\ sent[q][j].n \in Nat
          /\ Older(s, sent[q][j]) \/ sent[q][j].dh = s.remote \/ sent[q][j].dh = t.self
    BY <1>1, MessageType DEF ReaderInv
  <1>5. ASSUME s.remote = NoKey PROVE Goal
    <2>1. t.pn = 0
      BY <1>1, <1>5 DEF Ahead
    <2>2. a = s
      BY <2>1, <1>2, <1>3 DEF OldChainStashed, SkipTo
    <2> HIDE DEF a, m
    <2>3. QED BY <2>2, <1>1, <1>2, <1>4, <1>5, NoKeyFacts
  <1>6. ASSUME s.remote # NoKey PROVE Goal
    <2>1. s.remote \in PublicKey /\ a = SkipTo(s, s.remote, m.pn)
      BY <1>2, <1>6 DEF OldChainStashed
    <2>2. /\ \A j \in 1 .. Len(sent[q]) : sent[q][j].dh = s.remote => sent[q][j].n < m.pn
          /\ \A k \in 0 .. m.pn - 1 :
               \E j \in 1 .. Len(sent[q]) : sent[q][j].dh = s.remote /\ sent[q][j].n = k
      <3>1. /\ \A j \in 1 .. Len(sent[q]) : sent[q][j].dh = s.remote => sent[q][j].n < t.pn
            /\ \A k \in 0 .. t.pn - 1 :
                 \E j \in 1 .. Len(sent[q]) : sent[q][j].dh = s.remote /\ sent[q][j].n = k
        BY <1>1, <1>6 DEF Ahead
      <3>2. m.pn = t.pn
        BY <1>3
      <3> HIDE DEF s, t, m
      <3> QED BY <3>1, <3>2
    <2> HIDE DEF a, m
    <2>3. Tracks(a, q, reads[p])
      BY <2>1, <2>2, <1>1, <1>2, <1>3, SkipTracks
    <2>4. /\ a \in Session
          /\ a.root = s.root /\ a.self = s.self /\ a.remote = s.remote /\ a.ns = s.ns
          /\ a.nr = IF m.pn <= s.nr THEN s.nr ELSE m.pn
      BY <2>1, <1>2, <1>3, SkipToFacts
    <2>5. \A k \in Nat : k < m.pn => k < a.nr
      BY <2>4, <1>2, <1>3
    <2>6. ASSUME NEW j \in 1 .. Len(sent[q])
          PROVE  \/ Older(a, sent[q][j])
                 \/ sent[q][j].dh = a.remote /\ sent[q][j].n < a.nr
                 \/ sent[q][j].dh = t.self
      <3>1. Older(s, sent[q][j]) => Older(a, sent[q][j])
        BY <2>4 DEF Older
      <3>2. sent[q][j].dh = s.remote => sent[q][j].dh = a.remote /\ sent[q][j].n < a.nr
        BY <2>2, <2>4, <2>5, <1>4
      <3>3. QED BY <3>1, <3>2, <1>4
    <2>7. QED BY <2>3, <2>4, <2>6
  <1>7. QED
    BY <1>5, <1>6

\* Reading a message under the new key of a peer that is ahead puts the reader
\* ahead: it derives the peer's sending chain and mixes in a key of its own.
LEMMA RatchetReadTracks ==
  ASSUME IInv, NEW p \in Parties, NEW i \in 1 .. Len(sent[Peer(p)]), Ahead(Peer(p)),
         sent[Peer(p)][i].dh = session[Peer(p)].self,
         sent[Peer(p)][i].dh # session[p].remote
  PROVE  LET s == session[p]
             q == Peer(p)
             t == session[q]
             m == sent[q][i]
             r == KeyTaken(Positioned(s, m))
         IN  /\ r \in Session
             /\ Tracks(r, q, [reads[p] EXCEPT ![i] = @ + 1])
             /\ r.nr = m.n + 1
             /\ r.remote = t.self /\ r.self = FreshKey(s.self)
             /\ r.pn = s.ns /\ r.ns = 0
             /\ r.root = Append(t.root, Agree(t.self, r.self))
             /\ r.sendChain = ChainOf(r.root)
             /\ r.recvChain.root = t.root /\ r.recvChain.label = "root-step"
             /\ OnChain(s, m).nr = 0 /\ Positioned(s, m).recvChain = m.key
  <1> DEFINE q == Peer(p)
             s == session[p]
             t == session[q]
             m == sent[q][i]
             a == OldChainStashed(s, m)
             b == OnChain(s, m)
             c == Positioned(s, m)
             r == KeyTaken(c)
  <1>1. q \in Parties /\ Peer(q) = p /\ TypeOK /\ SenderInv(q)
    BY PeerFacts DEF IInv
  <1>2. /\ a \in Session
        /\ a.root = s.root /\ a.self = s.self /\ a.remote = s.remote /\ a.ns = s.ns
        /\ Tracks(a, q, reads[p])
        /\ \A j \in 1 .. Len(sent[q]) :
             \/ Older(a, sent[q][j])
             \/ sent[q][j].dh = a.remote /\ sent[q][j].n < a.nr
             \/ sent[q][j].dh = t.self
    BY OldChainTracks
  <1>3. /\ m.dh = t.self /\ m.dh \in PublicKey /\ m.n \in Nat
        /\ s.self \in PublicKey /\ t.root \in RootKey
    BY <1>1, MessageType, SessionType
  <1>4. b = DhRatchetStep(a, t.self)
    BY DEF OnChain, NeedsStep
  <1>5. /\ t.root = Append(s.root, Agree(s.self, t.self))
        /\ s.remote # NoKey => s.remote = <<q, t.self[2] - 1>>
    BY <1>1 DEF Ahead
  <1>6. c = SkipTo(b, m.dh, m.n)
    BY DEF Positioned
  <1> HIDE DEF a, b, c, m
  <1>7. Tracks(b, q, reads[p])
    <2>1. a.remote # t.self
      BY <1>2, <1>3 DEF m
    <2>2. t.root = Append(a.root, Agree(a.self, t.self))
      BY <1>2, <1>5
    <2>3. a.remote # NoKey => a.remote = <<q, t.self[2] - 1>>
      BY <1>2, <1>5
    <2>4. QED BY <2>1, <2>2, <2>3, <1>1, <1>2, <1>4, StepTracks
  <1>8. /\ b \in Session /\ b.remote = t.self /\ b.self = FreshKey(s.self)
        /\ b.pn = s.ns /\ b.ns = 0 /\ b.nr = 0
        /\ b.recvChain = ChainOf(t.root)
        /\ b.root = Append(t.root, Agree(b.self, t.self))
        /\ b.sendChain = ChainOf(b.root)
    <2> DEFINE k == t.self
    <2>1. k \in PublicKey /\ b = DhRatchetStep(a, k)
      BY <1>3, <1>4
    <2> HIDE DEF k
    <2>2. /\ b \in Session /\ b.remote = k /\ b.self = FreshKey(a.self)
          /\ b.pn = a.ns /\ b.ns = 0 /\ b.nr = 0
          /\ b.recvChain = ChainOf(Append(a.root, Agree(a.self, k)))
          /\ b.root = Append(Append(a.root, Agree(a.self, k)), Agree(FreshKey(a.self), k))
          /\ b.sendChain = ChainOf(b.root)
      BY <2>1, <1>2, StepFacts
    <2>3. Append(a.root, Agree(a.self, k)) = t.root
      BY <1>2, <1>5 DEF k
    <2>4. QED BY <2>2, <2>3, <1>2, Zenon DEF k
  <1>9. b.nr <= m.n
    BY <1>3, <1>8
  <1>10. /\ r \in Session
         /\ Tracks(r, q, [reads[p] EXCEPT ![i] = @ + 1])
         /\ r.nr = m.n + 1
         /\ r.remote = b.remote /\ r.root = b.root /\ r.self = b.self
         /\ r.sendChain = b.sendChain /\ r.ns = b.ns /\ r.pn = b.pn
         /\ r.recvChain.root = b.recvChain.root
         /\ r.recvChain.label = b.recvChain.label
         /\ c.recvChain = m.key
    <2>1. b.remote = m.dh
      BY <1>3, <1>8
    <2> DEFINE d == SkipTo(b, m.dh, m.n)
               o == KeyTaken(d)
    <2>2. /\ o \in Session
          /\ Tracks(o, q, [reads[p] EXCEPT ![i] = @ + 1])
          /\ o.nr = m.n + 1
          /\ o.remote = b.remote /\ o.root = b.root /\ o.self = b.self
          /\ o.sendChain = b.sendChain /\ o.ns = b.ns /\ o.pn = b.pn
          /\ o.recvChain.root = b.recvChain.root
          /\ o.recvChain.label = b.recvChain.label
          /\ d.recvChain = m.key
      BY <2>1, <1>7, <1>8, <1>9, ChainReadTracks, Zenon DEF m
    <2>3. o = r /\ d = c
      BY <1>6
    <2> HIDE DEF d, o, r
    <2>4. QED BY <2>2, <2>3
  <1>11. b.recvChain.root = t.root /\ b.recvChain.label = "root-step"
    BY <1>3, <1>8, ChainOfType
  <1>12. Agree(b.self, t.self) = Agree(t.self, b.self)
    BY DEF Agree
  <1>13. QED
    BY <1>8, <1>10, <1>11, <1>12 DEF b, c, m

-----------------------------------------------------------------------------
(* The invariant is inductive.                                             *)

LEMMA InitInvariant == Init => IInv
  <1> SUFFICES ASSUME Init PROVE IInv
    OBVIOUS
  <1> DEFINE a == session[Alice]
             b == session[Bob]
             root == Append(<< >>, Agree(FirstRatchetKey, SignedPrekey))
  <1>1. /\ Alice \in Parties /\ Bob \in Parties /\ Alice # Bob
        /\ Peer(Alice) = Bob /\ Peer(Bob) = Alice
        /\ \A p \in Parties : p = Alice \/ p = Bob
    BY PartiesAssumption DEF Parties, Peer
  <1>2. /\ a = InitInitiator(HandshakeRoot, FirstRatchetKey, SignedPrekey)
        /\ b = InitResponder(HandshakeRoot, SignedPrekey)
    BY <1>1 DEF Init
  <1>3. /\ FirstRatchetKey \in PublicKey /\ SignedPrekey \in PublicKey
        /\ FirstRatchetKey[1] = Alice /\ SignedPrekey[1] = Bob
        /\ FirstRatchetKey[2] = 1 /\ SignedPrekey[2] = 0
    BY <1>1 DEF FirstRatchetKey, SignedPrekey, PublicKey
  <1>4. /\ root \in RootKey /\ << >> \in RootKey
        /\ root = KdfRk(HandshakeRoot, Agree(FirstRatchetKey, SignedPrekey))
    BY <1>3 DEF RootKey, Agree, KdfRk, HandshakeRoot
  <1>5. \A l \in Label : /\ HandshakeChain(HandshakeRoot, l) \in ChainKey
                         /\ HandshakeChain(HandshakeRoot, l).step = 0
    BY <1>4 DEF HandshakeChain, ChainKey, HandshakeRoot
  <1> HIDE DEF root
  <1>6. /\ a \in Session /\ a.self = FirstRatchetKey /\ a.remote = SignedPrekey
        /\ a.root = root /\ a.sendChain = ChainOf(root)
        /\ a.recvChain = HandshakeChain(HandshakeRoot, "chain-b-to-a")
        /\ a.ns = 0 /\ a.nr = 0 /\ a.pn = 0 /\ a.skipped = {}
    <2>1. ChainOf(root) \in ChainKey /\ HandshakeChain(HandshakeRoot, "chain-b-to-a") \in ChainKey
      BY <1>4, <1>5, ChainOfType DEF Label
    <2>2. a = [root |-> root, self |-> FirstRatchetKey, remote |-> SignedPrekey,
               sendChain |-> ChainOf(root), recvChain |-> HandshakeChain(HandshakeRoot, "chain-b-to-a"),
               ns |-> 0, nr |-> 0, pn |-> 0, skipped |-> {}]
      BY <1>2, <1>4 DEF InitInitiator
    <2> HIDE DEF a
    <2>3. QED BY <2>1, <2>2, <1>3, <1>4 DEF Session
  <1>7. /\ b \in Session /\ b.self = SignedPrekey /\ b.remote = NoKey
        /\ b.root = << >> /\ b.sendChain = NoKey
        /\ b.recvChain = HandshakeChain(HandshakeRoot, "chain-a-to-b")
        /\ b.ns = 0 /\ b.nr = 0 /\ b.pn = 0 /\ b.skipped = {}
    <2>1. HandshakeChain(HandshakeRoot, "chain-a-to-b") \in ChainKey
      BY <1>5 DEF Label
    <2>2. b = [root |-> << >>, self |-> SignedPrekey, remote |-> NoKey,
               sendChain |-> NoKey, recvChain |-> HandshakeChain(HandshakeRoot, "chain-a-to-b"),
               ns |-> 0, nr |-> 0, pn |-> 0, skipped |-> {}]
      BY <1>2 DEF InitResponder, HandshakeRoot
    <2> HIDE DEF b
    <2>3. QED BY <2>1, <2>2, <1>3, <1>4 DEF Session
  <1>8. ChainOf(root) = [root |-> root, label |-> "root-step", step |-> 0]
    BY DEF ChainOf
  <1>9. \A p \in Parties : /\ sent[p] = << >> /\ Len(sent[p]) = 0 /\ 1 .. Len(sent[p]) = {}
                           /\ reads[p] = [i \in 1 .. MaxSent |-> 0]
    BY DEF Init
  <1>10. TypeOK
    <2>1. session \in [Parties -> Session]
      BY <1>1, <1>6, <1>7 DEF Init
    <2>2. sent \in [Parties -> Seq(Message)]
      BY DEF Init
    <2>3. reads \in [Parties -> [1 .. MaxSent -> Nat]] /\ lost \subseteq Parties
      BY DEF Init
    <2>4. QED BY <2>1, <2>2, <2>3 DEF TypeOK
  <1>11. KeyUsedOnce
    BY <1>9 DEF KeyUsedOnce
  <1> HIDE DEF a, b
  <1>12. SenderInv(Alice) /\ SenderInv(Bob)
    <2>1. a.sendChain # NoKey => a.sendChain = [root |-> a.root, label |-> "root-step", step |-> a.ns]
      BY <1>6, <1>8
    <2>2. Len(sent[Alice]) <= MaxSent /\ Len(sent[Bob]) <= MaxSent
      BY <1>1, <1>9, BoundsAssumption
    <2>3. a.sendChain # NoKey
      BY <1>4, <1>6, ChainOfType, NoKeyFacts
    <2>4. QED BY <2>1, <2>2, <2>3, <1>1, <1>3, <1>6, <1>7, <1>9 DEF SenderInv, a, b
  <1>13. NumberingInv(Alice) /\ NumberingInv(Bob)
    BY <1>1, <1>6, <1>7, <1>9 DEF NumberingInv, a, b
  <1>14. ReaderInv(Alice) /\ ReaderInv(Bob)
    <2>1. a.recvChain.step = 0 /\ b.recvChain.step = 0
      BY <1>5, <1>6, <1>7 DEF Label
    <2>2. Tracks(a, Bob, reads[Alice]) /\ Tracks(b, Alice, reads[Bob])
      BY <2>1, <1>1, <1>6, <1>7, <1>9 DEF Tracks
    <2>3. \A p \in Parties : \A i \in 1 .. MaxSent : reads[p][i] = 0
      BY <1>9
    <2>4. QED BY <2>2, <2>3, <1>1, <1>6, <1>7, <1>9 DEF ReaderInv, a, b
  <1>15. Ahead(Alice)
    <2>1. root = Append(<< >>, Agree(SignedPrekey, FirstRatchetKey))
      BY DEF root, Agree
    <2>2. QED BY <2>1, <1>1, <1>6, <1>7 DEF Ahead, a, b
  <1>16. QED
    BY <1>1, <1>10, <1>11, <1>12, <1>13, <1>14, <1>15 DEF IInv

\* What encrypt changes: the sender's chain and message counter, and one more
\* message under the key the chain stood at.
LEMMA EncryptFacts ==
  ASSUME IInv, NEW p \in Parties, Encrypt(p)
  PROVE  LET q == Peer(p)
             s == session[p]
             r == session'[p]
             l == Len(sent[p])
         IN  /\ l \in Nat /\ l < MaxSent
             /\ s.sendChain = [root |-> s.root, label |-> "root-step", step |-> s.ns]
             /\ r \in Session
             /\ r.root = s.root /\ r.self = s.self /\ r.remote = s.remote
             /\ r.recvChain = s.recvChain /\ r.nr = s.nr /\ r.pn = s.pn
             /\ r.skipped = s.skipped /\ r.ns = s.ns + 1
             /\ r.sendChain = [root |-> s.root, label |-> "root-step", step |-> s.ns + 1]
             /\ session'[q] = session[q] /\ session' \in [Parties -> Session]
             /\ sent'[q] = sent[q]
             /\ sent' \in [Parties -> Seq(Message)]
             /\ Len(sent'[p]) = l + 1
             /\ \A j \in 1 .. l : sent'[p][j] = sent[p][j]
             /\ sent'[p][l + 1] = [dh |-> s.self, pn |-> s.pn, n |-> s.ns,
                                   key |-> [root |-> s.root, label |-> "root-step",
                                            step |-> s.ns]]
             /\ reads' = reads /\ lost' = lost
  <1> DEFINE q == Peer(p)
             s == session[p]
             l == Len(sent[p])
             chain == [root |-> s.root, label |-> "root-step", step |-> s.ns]
             next == [root |-> s.root, label |-> "root-step", step |-> s.ns + 1]
  <1>1. /\ q \in Parties /\ q # p /\ TypeOK
        /\ s.sendChain # NoKey /\ s.sendChain = chain
        /\ sent[p] \in Seq(Message) /\ l \in Nat /\ l < MaxSent
    BY PeerFacts DEF IInv, SenderInv, Encrypt, TypeOK
  <1>2. s \in Session /\ s.ns \in Nat /\ s.root \in RootKey
    BY <1>1, SessionType
  <1>3. chain \in ChainKey /\ next \in ChainKey /\ KdfCk(chain, 1) = next
    BY <1>2 DEF ChainKey, Label, KdfCk
  <1> HIDE DEF chain, next
  <1>4. /\ session' = [session EXCEPT ![p] = AfterEncrypt(s)]
        /\ session'[p] = AfterEncrypt(s) /\ session'[q] = session[q]
    BY <1>1 DEF Encrypt, TypeOK
  <1> HIDE DEF s
  <1>5. AfterEncrypt(s) = [s EXCEPT !.sendChain = next, !.ns = s.ns + 1]
    BY <1>1, <1>3, Zenon DEF AfterEncrypt
  <1>6. s.ns + 1 \in Nat
    BY <1>2
  <1> DEFINE k == s.ns + 1
             r == AfterEncrypt(s)
  <1>7. /\ r \in Session
        /\ r.root = s.root /\ r.self = s.self /\ r.remote = s.remote
        /\ r.recvChain = s.recvChain /\ r.nr = s.nr /\ r.pn = s.pn
        /\ r.skipped = s.skipped /\ r.ns = k /\ r.sendChain = next
    <2> HIDE DEF k, r
    <2>1. r = [s EXCEPT !.sendChain = next, !.ns = k]
      BY <1>5 DEF r, k
    <2>2. k \in Nat
      BY <1>6 DEF k
    <2>3. QED BY <2>1, <2>2, <1>2, <1>3 DEF Session
  <1> HIDE DEF r
  <1> DEFINE m == SealedBy(s)
  <1>8. m = [dh |-> s.self, pn |-> s.pn, n |-> s.ns, key |-> chain] /\ m \in Message
    BY <1>1, <1>2, <1>3 DEF SealedBy, Message, Session
  <1>9. /\ sent' = [sent EXCEPT ![p] = Append(sent[p], m)]
        /\ sent'[q] = sent[q] /\ sent'[p] = Append(sent[p], m)
    BY <1>1 DEF Encrypt, s, TypeOK
  <1> HIDE DEF m
  <1>10. /\ Len(sent'[p]) = l + 1
         /\ \A j \in 1 .. l : sent'[p][j] = sent[p][j]
         /\ sent'[p][l + 1] = m
         /\ sent'[p] \in Seq(Message)
    BY <1>1, <1>8, <1>9
  <1>11. sent' \in [Parties -> Seq(Message)] /\ session' \in [Parties -> Session]
    BY <1>1, <1>4, <1>7, <1>9, <1>10 DEF TypeOK, r
  <1>12. reads' = reads /\ lost' = lost
    BY DEF Encrypt
  <1>13. session'[p] = r
    BY <1>4 DEF r
  <1>14. QED
    BY <1>1, <1>4, <1>7, <1>8, <1>9, <1>10, <1>11, <1>12, <1>13 DEF s, chain, next

\* The same facts, field by field.
LEMMA EncryptFields ==
  ASSUME IInv, NEW p \in Parties, Encrypt(p)
  PROVE  LET s == session[p]
             r == session'[p]
             l == Len(sent[p])
             m == sent'[p][l + 1]
         IN  /\ l \in Nat /\ l < MaxSent /\ Len(sent'[p]) = l + 1
             /\ r.root = s.root /\ r.self = s.self /\ r.pn = s.pn /\ r.ns = s.ns + 1
             /\ r.sendChain = [root |-> r.root, label |-> "root-step", step |-> r.ns]
             /\ r \in Session
             /\ \A j \in 1 .. l : sent'[p][j] = sent[p][j]
             /\ m.dh = s.self /\ m.pn = s.pn /\ m.n = s.ns
             /\ m.key.root = s.root /\ m.key.label = "root-step" /\ m.key.step = s.ns
  <1> DEFINE s == session[p]
             r == session'[p]
             l == Len(sent[p])
             m == sent'[p][l + 1]
             k == [root |-> s.root, label |-> "root-step", step |-> s.ns]
  <1>1. m = [dh |-> s.self, pn |-> s.pn, n |-> s.ns, key |-> k]
    BY EncryptFacts
  <1>2. /\ l \in Nat /\ l < MaxSent /\ Len(sent'[p]) = l + 1
        /\ r.root = s.root /\ r.self = s.self /\ r.pn = s.pn /\ r.ns = s.ns + 1
        /\ r.sendChain = [root |-> s.root, label |-> "root-step", step |-> s.ns + 1]
        /\ r \in Session
        /\ \A j \in 1 .. l : sent'[p][j] = sent[p][j]
    BY EncryptFacts
  <1>3. k.root = s.root /\ k.label = "root-step" /\ k.step = s.ns
    OBVIOUS
  <1> HIDE DEF k, m, r, s
  <1>4. /\ m.dh = s.self /\ m.pn = s.pn /\ m.n = s.ns
        /\ m.key.root = s.root /\ m.key.label = "root-step" /\ m.key.step = s.ns
    BY <1>1, <1>3
  <1>5. r.sendChain = [root |-> r.root, label |-> "root-step", step |-> r.ns]
    BY <1>2
  <1>6. QED BY <1>2, <1>4, <1>5 DEF s, r, m

LEMMA EncryptKeepsSender ==
  ASSUME IInv, NEW p \in Parties, Encrypt(p)
  PROVE  SenderInv(p)' /\ NumberingInv(p)'
  <1> DEFINE s == session[p]
             r == session'[p]
             l == Len(sent[p])
             m == sent'[p][l + 1]
             new == 1 .. Len(sent'[p])
  <1>1. TypeOK /\ SenderInv(p) /\ NumberingInv(p)
    BY DEF IInv
  <1>2. /\ l \in Nat /\ l < MaxSent /\ Len(sent'[p]) = l + 1
        /\ r.root = s.root /\ r.self = s.self /\ r.pn = s.pn /\ r.ns = s.ns + 1
        /\ r.sendChain = [root |-> r.root, label |-> "root-step", step |-> r.ns]
        /\ r \in Session
        /\ \A j \in 1 .. l : sent'[p][j] = sent[p][j]
        /\ m.dh = s.self /\ m.pn = s.pn /\ m.n = s.ns
        /\ m.key.root = s.root /\ m.key.label = "root-step" /\ m.key.step = s.ns
    BY EncryptFields
  <1>3. s.ns \in Nat /\ s.self[2] \in Nat
    BY <1>1, SessionType
  <1>4. \A j \in 1 .. l : sent[p][j].n \in Nat
    BY <1>1, MessageType
  <1>5. l + 1 \in new /\ \A j \in new : j \in 1 .. l \/ j = l + 1
    BY <1>2
  <1>6. r.sendChain # NoKey
    BY <1>2, NoKeyFacts DEF Session, ChainKey, Label, RootKey
  <1> HIDE DEF m, l
  <1>7. SenderInv(p)'
    <2>1. l + 1 <= MaxSent /\ MaxSent \in Nat
      BY <1>2, BoundsAssumption
    <2>2. ASSUME NEW i \in new
          PROVE  LET o == sent'[p][i]
                 IN  /\ o.dh[1] = p
                     /\ o.dh[2] <= r.self[2]
                     /\ o.key.step = o.n
                     /\ o.key.label = "root-step"
                     /\ o.dh = r.self => o.n < r.ns /\ o.pn = r.pn /\ o.key.root = r.root
                     /\ o.dh # r.self => Len(o.key.root) + 2 <= Len(r.root)
      <3>1. CASE i \in 1 .. l
        <4> DEFINE o == sent[p][i]
        <4>1. /\ o.dh[1] = p
              /\ o.dh[2] <= s.self[2]
              /\ o.key.step = o.n
              /\ o.key.label = "root-step"
              /\ o.dh = s.self => o.n < s.ns /\ o.pn = s.pn /\ o.key.root = s.root
              /\ o.dh # s.self => Len(o.key.root) + 2 <= Len(s.root)
          BY <3>1, <1>1 DEF SenderInv, l
        <4>2. sent'[p][i] = o /\ o.n \in Nat
          BY <3>1, <1>2, <1>4
        <4>3. o.n < s.ns => o.n < r.ns
          BY <4>2, <1>2, <1>3
        <4> HIDE DEF o
        <4>4. QED BY <4>1, <4>2, <4>3, <1>2
      <3>2. CASE i = l + 1
        <4>1. s.ns < r.ns /\ s.self[2] <= s.self[2] /\ s.self[1] = p
          BY <1>1, <1>2, <1>3 DEF SenderInv
        <4>2. QED BY <3>2, <4>1, <1>2 DEF m
      <3>3. QED BY <3>1, <3>2, <1>5
    <2>3. r.self[1] = p
      BY <1>1, <1>2 DEF SenderInv
    <2>4. QED BY <2>1, <2>2, <2>3, <1>2, <1>6 DEF SenderInv
  <1>8. NumberingInv(p)'
    <2>1. ASSUME NEW i \in 1 .. l PROVE sent[p][i].dh = s.self => sent[p][i].n < s.ns
      BY <1>1 DEF SenderInv, l
    <2>2. ASSUME NEW k \in 0 .. s.ns - 1
          PROVE  \E j \in new : sent'[p][j].dh = s.self /\ sent'[p][j].n = k
      <3>1. PICK j \in 1 .. l : sent[p][j].dh = s.self /\ sent[p][j].n = k
        BY <1>1 DEF NumberingInv, l
      <3>2. j \in new /\ sent'[p][j] = sent[p][j]
        BY <1>2
      <3>3. QED BY <3>1, <3>2
    <2>3. ASSUME NEW i \in new, NEW j \in new,
                 sent'[p][i].dh = sent'[p][j].dh, sent'[p][i].n = sent'[p][j].n
          PROVE  i = j
      <3>1. CASE i \in 1 .. l /\ j \in 1 .. l
        BY <3>1, <2>3, <1>1, <1>2 DEF NumberingInv, l
      <3>2. ASSUME NEW x \in 1 .. l, sent'[p][x].dh = m.dh, sent'[p][x].n = m.n
            PROVE  FALSE
        <4>1. sent[p][x].dh = s.self /\ sent[p][x].n = s.ns
          BY <3>2, <1>2
        <4>2. sent[p][x].n < s.ns
          BY <4>1, <2>1
        <4>3. QED BY <4>1, <4>2, <1>3
      <3>3. QED BY <3>1, <3>2, <2>3, <1>5 DEF m
    <2>4. ASSUME NEW i \in new, NEW k \in 0 .. sent'[p][i].n - 1
          PROVE  \E j \in new : sent'[p][j].dh = sent'[p][i].dh /\ sent'[p][j].n = k
      <3>1. CASE i \in 1 .. l
        <4>1. sent'[p][i] = sent[p][i]
          BY <3>1, <1>2
        <4>2. PICK j \in 1 .. l : sent[p][j].dh = sent[p][i].dh /\ sent[p][j].n = k
          BY <3>1, <4>1, <1>1 DEF NumberingInv, l
        <4>3. j \in new /\ sent'[p][j] = sent[p][j]
          BY <1>2
        <4>4. QED BY <4>1, <4>2, <4>3
      <3>2. CASE i = l + 1
        <4>1. sent'[p][i].dh = s.self /\ sent'[p][i].n = s.ns
          BY <3>2, <1>2 DEF m
        <4>2. QED BY <4>1, <2>2
      <3>3. QED BY <3>1, <3>2, <1>5
    <2>5. ASSUME NEW k \in 0 .. r.ns - 1
          PROVE  \E j \in new : sent'[p][j].dh = r.self /\ sent'[p][j].n = k
      <3>1. k \in 0 .. s.ns - 1 \/ k = s.ns
        BY <1>2, <1>3
      <3>2. CASE k = s.ns
        BY <3>2, <1>2, <1>5 DEF m
      <3>3. QED BY <3>1, <3>2, <2>2, <1>2
    <2>6. QED BY <2>3, <2>4, <2>5 DEF NumberingInv
  <1>9. QED BY <1>7, <1>8

\* The key of a new message is one no message was sealed with: its own chain
\* has moved past every key it gave, and every other key in use branched from
\* a root of another length.
LEMMA EncryptFreshKey ==
  ASSUME IInv, NEW p \in Parties, Encrypt(p)
  PROVE  KeyUsedOnce'
  <1> DEFINE q == Peer(p)
             s == session[p]
             t == session[q]
             l == Len(sent[p])
             m == sent'[p][l + 1]
  <1>1. /\ q \in Parties /\ TypeOK /\ KeyUsedOnce
        /\ \A x \in Parties : SenderInv(x) /\ (x = p \/ x = q)
    BY PeerFacts DEF IInv
  <1>2. /\ l \in Nat /\ Len(sent'[p]) = l + 1
        /\ \A j \in 1 .. l : sent'[p][j] = sent[p][j]
        /\ m.key.root = s.root /\ m.key.step = s.ns
    BY EncryptFields
  <1>3. sent'[q] = sent[q]
    BY EncryptFacts
  <1>4. /\ s.ns \in Nat /\ Len(s.root) \in Nat /\ Len(t.root) \in Nat
        /\ s.root \in RootKey /\ t.root \in RootKey
    BY <1>1, SessionType
  <1>5. Len(s.root) = Len(t.root) + 1 \/ Len(t.root) = Len(s.root) + 1
    BY LinkFacts
  <1>6. ASSUME NEW x \in Parties, NEW j \in 1 .. Len(sent[x])
        PROVE  sent[x][j].key # m.key
    <2> DEFINE o == sent[x][j]
               a == Len(o.key.root)
               b == Len(s.root)
               c == Len(t.root)
    <2>1. o.n \in Nat /\ a \in Nat /\ b \in Nat /\ c \in Nat /\ (b = c + 1 \/ c = b + 1)
      BY <1>1, <1>4, <1>5, MessageType
    <2>2. /\ o.key.step = o.n
          /\ o.dh = session[x].self => o.n < session[x].ns /\ o.key.root = session[x].root
          /\ o.dh # session[x].self => a + 2 <= Len(session[x].root)
      <3>1. SenderInv(x)
        BY <1>1
      <3>2. QED BY <3>1 DEF SenderInv
    <2> HIDE DEF o, m
    <2>3. CASE x = p
      <3>1. CASE o.dh = s.self
        <4>1. o.key.step < s.ns
          BY <3>1, <2>2, <2>3
        <4>2. QED BY <4>1, <1>2, <1>4 DEF o
      <3>2. CASE o.dh # s.self
        <4>1. a + 2 <= b
          BY <3>2, <2>2, <2>3
        <4> HIDE DEF a, b, c
        <4>2. a # b
          BY <4>1, <2>1
        <4>3. QED BY <4>2, <1>2 DEF a, b, o
      <3>3. QED BY <3>1, <3>2 DEF o
    <2>4. CASE x = q
      <3>1. CASE o.dh = t.self
        <4>1. a = c
          BY <3>1, <2>2, <2>4
        <4> HIDE DEF a, b, c
        <4>2. a # b
          BY <4>1, <2>1
        <4>3. QED BY <4>2, <1>2 DEF a, b, o
      <3>2. CASE o.dh # t.self
        <4>1. a + 2 <= c
          BY <3>2, <2>2, <2>4
        <4> HIDE DEF a, b, c
        <4>2. a # b
          BY <4>1, <2>1
        <4>3. QED BY <4>2, <1>2 DEF a, b, o
      <3>3. QED BY <3>1, <3>2
    <2>5. QED BY <2>3, <2>4, <1>1 DEF o
  <1> HIDE DEF m
  <1>7. ASSUME NEW x \in Parties, NEW i \in 1 .. Len(sent'[x])
        PROVE  \/ i \in 1 .. Len(sent[x]) /\ sent'[x][i] = sent[x][i]
               \/ x = p /\ i = l + 1 /\ sent'[x][i] = m
    BY <1>1, <1>2, <1>3 DEF m
  <1>8. ASSUME NEW x \in Parties, NEW y \in Parties,
               NEW i \in 1 .. Len(sent'[x]), NEW j \in 1 .. Len(sent'[y]),
               sent'[x][i].key = sent'[y][j].key
        PROVE  x = y /\ i = j
    <2>1. CASE /\ i \in 1 .. Len(sent[x]) /\ sent'[x][i] = sent[x][i]
               /\ j \in 1 .. Len(sent[y]) /\ sent'[y][j] = sent[y][j]
      BY <2>1, <1>1, <1>8 DEF KeyUsedOnce
    <2>2. CASE /\ x = p /\ i = l + 1 /\ sent'[x][i] = m
               /\ y = p /\ j = l + 1 /\ sent'[y][j] = m
      BY <2>2
    <2>3. QED
      BY <2>1, <2>2, <1>6, <1>7, <1>8
  <1>9. QED
    BY <1>8 DEF KeyUsedOnce

\* The reader of the new message has neither read it nor stored its key.
LEMMA EncryptKeepsReaders ==
  ASSUME IInv, NEW p \in Parties, Encrypt(p)
  PROVE  ReaderInv(p)' /\ ReaderInv(Peer(p))'
  <1> DEFINE q == Peer(p)
             s == session[p]
             r == session'[p]
             t == session[q]
             l == Len(sent[p])
             m == sent'[p][l + 1]
             new == 1 .. Len(sent'[p])
  <1>1. /\ q \in Parties /\ Peer(q) = p /\ TypeOK /\ SenderInv(p)
        /\ ReaderInv(p) /\ ReaderInv(q) /\ Tracks(t, p, reads[q]) /\ Tracks(s, q, reads[p])
    BY PeerFacts DEF IInv, ReaderInv
  <1>2. /\ l \in Nat /\ l < MaxSent /\ Len(sent'[p]) = l + 1
        /\ \A j \in 1 .. l : sent'[p][j] = sent[p][j]
        /\ m.dh = s.self /\ m.n = s.ns
        /\ m.key.root = s.root /\ m.key.label = "root-step"
        /\ r.self = s.self /\ r.ns = s.ns + 1
    BY EncryptFields
  <1>3. /\ sent'[q] = sent[q] /\ session'[q] = t /\ reads' = reads
        /\ r.remote = s.remote /\ r.nr = s.nr
        /\ r.recvChain = s.recvChain /\ r.skipped = s.skipped
    BY EncryptFacts
  <1>4. s.ns \in Nat /\ t.nr \in Nat /\ s.self[2] \in Nat /\ s.self # NoKey
    BY <1>1, SessionType
  <1> HIDE DEF m, l
  <1>5. ReaderInv(p)'
    <2>1. Tracks(session[p], q, reads[p])'
      BY <1>1, <1>3 DEF Tracks, Passed, Older, StoredKeys
    <2>2. QED BY <2>1, <1>1, <1>3 DEF ReaderInv, Older
  <1>6. ReaderInv(q)'
    <2>1. ~Passed(t, m) /\ (m.dh = t.remote => m.key.root = t.recvChain.root
                                            /\ m.key.label = t.recvChain.label)
      <3>1. CASE Ahead(q)
        <4>1. t.remote = s.self /\ t.nr <= s.ns
          BY <3>1, <1>1 DEF Ahead, ReaderInv
        <4>2. s.sendChain # NoKey
          BY DEF Encrypt
        <4>3. t.recvChain.root = s.root /\ t.recvChain.label = "root-step"
          BY <3>1, <4>2, <1>1 DEF Ahead
        <4>4. QED BY <4>1, <4>3, <1>2, <1>4 DEF Passed, Older
      <3>2. CASE Ahead(p)
        <4>1. t.remote = NoKey \/ t.remote = <<p, s.self[2] - 1>>
          BY <3>2 DEF Ahead
        <4>2. m.dh # t.remote
          BY <4>1, <1>2, <1>4
        <4>3. ~Older(t, m)
          BY <4>1, <1>2, <1>4 DEF Older
        <4>4. QED BY <4>2, <4>3 DEF Passed
      <3>3. QED BY <3>1, <3>2, LinkFacts
    <2>2. StoredKeys(t, m) = {}
      <3>1. ASSUME NEW e \in StoredKeys(t, m) PROVE FALSE
        <4>1. e \in t.skipped /\ e.dh = m.dh /\ e.n = m.n
          BY DEF StoredKeys
        <4>2. PICK i \in 1 .. l : sent[p][i].dh = e.dh /\ sent[p][i].n = e.n
          BY <4>1, <1>1 DEF Tracks, l
        <4>3. sent[p][i].n < s.ns
          BY <4>1, <4>2, <1>1, <1>2 DEF SenderInv, l
        <4>4. QED BY <4>1, <4>2, <4>3, <1>2, <1>4
      <3>2. QED BY <3>1
    <2>3. reads[q][l + 1] = 0
      <3>1. l + 1 \in 1 .. MaxSent /\ l + 1 > l
        BY <1>2, BoundsAssumption
      <3>2. QED BY <3>1, <1>1 DEF ReaderInv, l
    <2>4. ASSUME NEW i \in new
          PROVE  LET o == sent'[p][i]
                 IN  /\ o.dh = t.remote =>
                          o.key.root = t.recvChain.root /\ o.key.label = t.recvChain.label
                     /\ Passed(t, o) =>
                          \/ reads[q][i] = 1 /\ StoredKeys(t, o) = {}
                          \/ reads[q][i] = 0 /\ StoredKeys(t, o) # {}
                     /\ ~Passed(t, o) => reads[q][i] = 0 /\ StoredKeys(t, o) = {}
      <3>1. CASE i \in 1 .. l
        <4>1. sent'[p][i] = sent[p][i]
          BY <3>1, <1>2
        <4>2. QED BY <3>1, <4>1, <1>1 DEF Tracks, l
      <3>2. CASE i = l + 1
        BY <3>2, <2>1, <2>2, <2>3 DEF m
      <3>3. QED BY <3>1, <3>2, <1>2
    <2>5. ASSUME NEW e \in t.skipped
          PROVE  \E i \in new :
                   sent'[p][i].dh = e.dh /\ sent'[p][i].n = e.n /\ sent'[p][i].key = e.key
      <3>1. PICK i \in 1 .. l :
              sent[p][i].dh = e.dh /\ sent[p][i].n = e.n /\ sent[p][i].key = e.key
        BY <1>1 DEF Tracks, l
      <3>2. i \in new /\ sent'[p][i] = sent[p][i]
        BY <1>2
      <3>3. QED BY <3>1, <3>2
    <2>6. Tracks(session[q], p, reads[q])'
      <3>1. t.recvChain.step = t.nr
        BY <1>1 DEF Tracks
      <3> HIDE DEF t
      <3>2. QED BY <3>1, <2>4, <2>5, <1>3 DEF Tracks, Passed, Older, StoredKeys
    <2>7. t.remote = r.self => t.nr <= r.ns
      BY <1>1, <1>2, <1>4 DEF ReaderInv
    <2>8. \A i \in 1 .. MaxSent : i > Len(sent'[p]) => reads[q][i] = 0
      BY <1>1, <1>2 DEF ReaderInv, l
    <2>9. \A i \in new : \/ Older(t, sent'[p][i]) \/ sent'[p][i].dh = t.remote
                         \/ sent'[p][i].dh = r.self
      <3> TAKE i \in new
      <3>1. CASE i \in 1 .. l
        BY <3>1, <1>1, <1>2 DEF ReaderInv, l
      <3>2. CASE i = l + 1
        BY <3>2, <1>2 DEF m
      <3>3. QED BY <3>1, <3>2, <1>2
    <2> HIDE DEF t
    <2>10. QED
      BY <2>6, <2>7, <2>8, <2>9, <1>1, <1>3 DEF ReaderInv, Older
  <1>7. QED BY <1>5, <1>6

LEMMA EncryptKeepsInvariant ==
  ASSUME IInv, NEW p \in Parties, Encrypt(p)
  PROVE  IInv'
  <1> DEFINE q == Peer(p)
             s == session[p]
             r == session'[p]
             t == session[q]
             l == Len(sent[p])
  <1>1. /\ q \in Parties /\ q # p /\ Peer(q) = p /\ TypeOK
        /\ SenderInv(q) /\ NumberingInv(q) /\ SenderInv(p)
        /\ \A x \in Parties : x = p \/ x = q
    BY PeerFacts DEF IInv
  <1>2. /\ session'[q] = t /\ sent'[q] = sent[q] /\ reads' = reads /\ lost' = lost
        /\ session' \in [Parties -> Session] /\ sent' \in [Parties -> Seq(Message)]
        /\ r.root = s.root /\ r.self = s.self /\ r.remote = s.remote /\ r.pn = s.pn
        /\ r.recvChain = s.recvChain
    BY EncryptFacts
  <1>3. /\ l \in Nat /\ Len(sent'[p]) = l + 1
        /\ \A j \in 1 .. l : sent'[p][j] = sent[p][j]
        /\ sent'[p][l + 1].dh = s.self
    BY EncryptFields
  <1>4. TypeOK'
    BY <1>1, <1>2 DEF TypeOK
  <1>5. KeyUsedOnce'
    BY EncryptFreshKey
  <1>6. \A x \in Parties : SenderInv(x)'
    <2>1. SenderInv(q)'
      BY <1>1, <1>2 DEF SenderInv
    <2>2. SenderInv(p)'
      BY EncryptKeepsSender
    <2>3. QED BY <2>1, <2>2, <1>1
  <1>7. \A x \in Parties : NumberingInv(x)'
    <2>1. NumberingInv(q)'
      BY <1>1, <1>2 DEF NumberingInv
    <2>2. NumberingInv(p)'
      BY EncryptKeepsSender
    <2>3. QED BY <2>1, <2>2, <1>1
  <1>8. \A x \in Parties : ReaderInv(x)'
    BY EncryptKeepsReaders, <1>1
  <1>9. \E x \in Parties : Ahead(x)'
    <2>1. CASE Ahead(p)
      <3>1. t.remote # s.self
        BY <2>1, AheadFacts
      <3>2. ASSUME t.remote # NoKey
            PROVE  /\ t.remote = <<p, s.self[2] - 1>>
                   /\ \A i \in 1 .. l : sent[p][i].dh = t.remote => sent[p][i].n < s.pn
                   /\ \A k \in 0 .. s.pn - 1 :
                        \E j \in 1 .. l : sent[p][j].dh = t.remote /\ sent[p][j].n = k
        BY <3>2, <2>1 DEF Ahead
      <3> HIDE DEF l
      <3>3. ASSUME t.remote # NoKey, NEW i \in 1 .. Len(sent'[p]), sent'[p][i].dh = t.remote
            PROVE  sent'[p][i].n < s.pn
        <4>1. i # l + 1
          BY <3>1, <3>3, <1>3 DEF l
        <4>2. i \in 1 .. l
          BY <4>1, <1>3
        <4>3. QED BY <4>2, <3>2, <3>3, <1>3
      <3>4. ASSUME t.remote # NoKey, NEW k \in 0 .. s.pn - 1
            PROVE  \E j \in 1 .. Len(sent'[p]) : sent'[p][j].dh = t.remote /\ sent'[p][j].n = k
        <4>1. PICK j \in 1 .. l : sent[p][j].dh = t.remote /\ sent[p][j].n = k
          BY <3>2, <3>4
        <4>2. j \in 1 .. Len(sent'[p]) /\ sent'[p][j] = sent[p][j]
          BY <1>3
        <4>3. QED BY <4>1, <4>2
      <3>5. /\ s.remote = t.self
            /\ s.root = Append(t.root, Agree(t.self, s.self))
            /\ t.sendChain # NoKey => s.recvChain.root = t.root /\ s.recvChain.label = "root-step"
            /\ t.remote = NoKey => s.pn = 0
        BY <2>1 DEF Ahead
      <3>6. Ahead(p)'
        BY <3>2, <3>3, <3>4, <3>5, <1>2 DEF Ahead
      <3>7. QED BY <3>6
    <2>2. CASE Ahead(q)
      <3>1. s.sendChain # NoKey
        BY DEF Encrypt
      <3>2. Ahead(q)'
        <4>1. /\ t.remote = s.self
              /\ t.root = Append(s.root, Agree(s.self, t.self))
              /\ t.recvChain.root = s.root /\ t.recvChain.label = "root-step"
              /\ s.remote = NoKey => t.pn = 0
              /\ s.remote # NoKey =>
                   /\ s.remote = <<q, t.self[2] - 1>>
                   /\ \A i \in 1 .. Len(sent[q]) : sent[q][i].dh = s.remote => sent[q][i].n < t.pn
                   /\ \A k \in 0 .. t.pn - 1 :
                        \E j \in 1 .. Len(sent[q]) : sent[q][j].dh = s.remote /\ sent[q][j].n = k
          BY <2>2, <3>1, <1>1 DEF Ahead
        <4> HIDE DEF s, t
        <4>2. QED BY <4>1, <1>1, <1>2 DEF Ahead
      <3>3. QED BY <3>2, <1>1
    <2>3. QED BY <2>1, <2>2, LinkFacts
  <1>10. QED
    BY <1>4, <1>5, <1>6, <1>7, <1>8, <1>9 DEF IInv

\* p commits session r after reading message i.
Commits(p, i, r) ==
  /\ session' = [session EXCEPT ![p] = r]
  /\ reads' = [reads EXCEPT ![p][i] = @ + 1]
  /\ UNCHANGED <<sent, lost>>
  /\ i <= Len(sent[Peer(p)])
  /\ r \in Session
  /\ Tracks(r, Peer(p), reads'[p])

\* r is p's session but for its store and its place on the receiving chain.
SameChains(p, r) ==
  LET s == session[p]
      t == session[Peer(p)]
  IN  /\ r.root = s.root /\ r.self = s.self /\ r.remote = s.remote
      /\ r.sendChain = s.sendChain /\ r.ns = s.ns /\ r.pn = s.pn
      /\ r.recvChain.root = s.recvChain.root /\ r.recvChain.label = s.recvChain.label
      /\ r.remote = t.self => r.nr <= t.ns

\* r is p's session after a ratchet step to the key of a peer that is ahead.
Ratcheted(p, r) ==
  LET s == session[p]
      t == session[Peer(p)]
  IN  /\ r.remote = t.self /\ r.self = FreshKey(s.self)
      /\ r.pn = s.ns /\ r.ns = 0
      /\ r.root = Append(t.root, Agree(t.self, r.self))
      /\ r.sendChain = ChainOf(r.root)
      /\ r.recvChain.root = t.root /\ r.recvChain.label = "root-step"
      /\ r.nr <= t.ns

LEMMA CommitFacts ==
  ASSUME IInv, NEW p \in Parties, NEW i \in 1 .. MaxSent, NEW r, Commits(p, i, r)
  PROVE  LET q == Peer(p)
         IN  /\ session'[p] = r /\ session'[q] = session[q]
             /\ sent' = sent /\ lost' = lost /\ reads'[q] = reads[q]
             /\ r \in Session
             /\ TypeOK' /\ KeyUsedOnce'
             /\ SenderInv(q)' /\ NumberingInv(q)'
             /\ Tracks(session[p], q, reads[p])'
             /\ Tracks(session[q], p, reads[q])'
             /\ \A j \in 1 .. MaxSent : j > Len(sent[q]) => reads'[p][j] = 0
  <1> DEFINE q == Peer(p)
  <1>1. /\ q \in Parties /\ q # p /\ Peer(q) = p /\ TypeOK /\ KeyUsedOnce
        /\ SenderInv(q) /\ NumberingInv(q) /\ ReaderInv(p) /\ ReaderInv(q)
    BY PeerFacts DEF IInv
  <1>2. /\ session'[p] = r /\ session'[q] = session[q] /\ session' \in [Parties -> Session]
        /\ sent' = sent /\ lost' = lost /\ r \in Session
    BY <1>1 DEF TypeOK, Commits
  <1>3. /\ reads'[q] = reads[q]
        /\ reads' \in [Parties -> [1 .. MaxSent -> Nat]]
        /\ \A j \in 1 .. MaxSent : j # i => reads'[p][j] = reads[p][j]
    <2>1. reads' = [reads EXCEPT ![p] = [reads[p] EXCEPT ![i] = @ + 1]]
      BY DEF Commits
    <2>2. [reads[p] EXCEPT ![i] = @ + 1] \in [1 .. MaxSent -> Nat]
      <3> DEFINE f == reads[p]
      <3>1. f \in [1 .. MaxSent -> Nat]
        BY <1>1 DEF TypeOK
      <3> HIDE DEF f
      <3>2. [f EXCEPT ![i] = @ + 1] \in [1 .. MaxSent -> Nat]
        BY <3>1
      <3>3. QED BY <3>2 DEF f
    <2>3. reads'[p] = [reads[p] EXCEPT ![i] = @ + 1]
      BY <2>1, <1>1 DEF TypeOK
    <2>4. QED BY <2>1, <2>2, <2>3, <1>1 DEF TypeOK
  <1>4. TypeOK'
    BY <1>1, <1>2, <1>3 DEF TypeOK
  <1>5. KeyUsedOnce' /\ SenderInv(q)' /\ NumberingInv(q)'
    <2>1. KeyUsedOnce'
      BY <1>1, <1>2 DEF KeyUsedOnce
    <2>2. SenderInv(q)'
      BY <1>1, <1>2 DEF SenderInv
    <2>3. NumberingInv(q)'
      BY <1>1, <1>2 DEF NumberingInv
    <2>4. QED BY <2>1, <2>2, <2>3
  <1>6. Tracks(session[p], q, reads[p])'
    BY <1>2 DEF Commits, Tracks, Passed, Older, StoredKeys
  <1>7. Tracks(session[q], p, reads[q])'
    BY <1>1, <1>2, <1>3 DEF ReaderInv, Tracks, Passed, Older, StoredKeys
  <1>8. ASSUME NEW j \in 1 .. MaxSent, j > Len(sent[q]) PROVE reads'[p][j] = 0
    <2>1. Len(sent[q]) \in Nat /\ i <= Len(sent[q])
      BY <1>1 DEF TypeOK, Commits
    <2>2. j # i
      BY <2>1, <1>8
    <2>3. QED BY <2>2, <1>1, <1>3, <1>8 DEF ReaderInv
  <1>9. QED
    BY <1>2, <1>3, <1>4, <1>5, <1>6, <1>7, <1>8

\* Reading a message without a ratchet step moves p's receiving chain or its
\* store, and nothing the peer's side of the invariant looks at.
LEMMA ReadOnChainKeepsInvariant ==
  ASSUME IInv, NEW p \in Parties, NEW i \in 1 .. MaxSent, NEW r,
         Commits(p, i, r), SameChains(p, r)
  PROVE  IInv'
  <1> DEFINE q == Peer(p)
             s == session[p]
             t == session[q]
  <1>1. /\ q \in Parties /\ q # p /\ Peer(q) = p /\ TypeOK /\ KeyUsedOnce
        /\ SenderInv(p) /\ SenderInv(q) /\ NumberingInv(p) /\ NumberingInv(q)
        /\ ReaderInv(p) /\ ReaderInv(q)
        /\ \A x \in Parties : x = p \/ x = q
    BY PeerFacts DEF IInv
  <1>2. /\ session'[p] = r /\ session'[q] = t
        /\ sent' = sent /\ lost' = lost /\ reads'[q] = reads[q] /\ r \in Session
        /\ TypeOK' /\ KeyUsedOnce' /\ SenderInv(q)' /\ NumberingInv(q)'
        /\ Tracks(session[p], q, reads[p])' /\ Tracks(session[q], p, reads[q])'
        /\ \A j \in 1 .. MaxSent : j > Len(sent[q]) => reads'[p][j] = 0
    BY CommitFacts
  <1>3. /\ r.root = s.root /\ r.self = s.self /\ r.remote = s.remote
        /\ r.sendChain = s.sendChain /\ r.ns = s.ns /\ r.pn = s.pn
        /\ r.recvChain.root = s.recvChain.root /\ r.recvChain.label = s.recvChain.label
        /\ r.remote = t.self => r.nr <= t.ns
    BY DEF SameChains
  <1>4. SenderInv(p)'
    BY <1>1, <1>2, <1>3 DEF SenderInv
  <1>5. NumberingInv(p)'
    BY <1>1, <1>2, <1>3 DEF NumberingInv
  <1>6. ReaderInv(p)'
    <2>1. \A j \in 1 .. Len(sent[q]) :
            Older(r, sent[q][j]) \/ sent[q][j].dh = r.remote \/ sent[q][j].dh = t.self
      BY <1>1, <1>3 DEF ReaderInv, Older
    <2> HIDE DEF s, t
    <2>2. QED BY <2>1, <1>2, <1>3 DEF ReaderInv, Older
  <1>7. ReaderInv(q)'
    <2>1. /\ t.remote = s.self => t.nr <= s.ns
          /\ \A j \in 1 .. MaxSent : j > Len(sent[p]) => reads[q][j] = 0
          /\ \A j \in 1 .. Len(sent[p]) :
               Older(t, sent[p][j]) \/ sent[p][j].dh = t.remote \/ sent[p][j].dh = s.self
      BY <1>1 DEF ReaderInv
    <2> HIDE DEF s, t
    <2>2. QED BY <2>1, <1>1, <1>2, <1>3 DEF ReaderInv, Older
  <1>8. ASSUME Ahead(p) PROVE Ahead(p)'
    <2>1. /\ s.remote = t.self
          /\ s.root = Append(t.root, Agree(t.self, s.self))
          /\ t.sendChain # NoKey => s.recvChain.root = t.root /\ s.recvChain.label = "root-step"
          /\ t.remote = NoKey => s.pn = 0
          /\ t.remote # NoKey =>
               /\ t.remote = <<p, s.self[2] - 1>>
               /\ \A j \in 1 .. Len(sent[p]) : sent[p][j].dh = t.remote => sent[p][j].n < s.pn
               /\ \A k \in 0 .. s.pn - 1 :
                    \E j \in 1 .. Len(sent[p]) : sent[p][j].dh = t.remote /\ sent[p][j].n = k
      BY <1>8 DEF Ahead
    <2> HIDE DEF s, t
    <2>2. QED BY <2>1, <1>2, <1>3 DEF Ahead
  <1>9. ASSUME Ahead(q) PROVE Ahead(q)'
    <2>1. /\ t.remote = s.self
          /\ t.root = Append(s.root, Agree(s.self, t.self))
          /\ s.sendChain # NoKey => t.recvChain.root = s.root /\ t.recvChain.label = "root-step"
          /\ s.remote = NoKey => t.pn = 0
          /\ s.remote # NoKey =>
               /\ s.remote = <<q, t.self[2] - 1>>
               /\ \A j \in 1 .. Len(sent[q]) : sent[q][j].dh = s.remote => sent[q][j].n < t.pn
               /\ \A k \in 0 .. t.pn - 1 :
                    \E j \in 1 .. Len(sent[q]) : sent[q][j].dh = s.remote /\ sent[q][j].n = k
      BY <1>9, <1>1 DEF Ahead
    <2> HIDE DEF s, t
    <2>2. QED BY <2>1, <1>1, <1>2, <1>3 DEF Ahead
  <1>10. \E x \in Parties : Ahead(x)'
    BY <1>1, <1>8, <1>9, LinkFacts
  <1>11. QED
    BY <1>1, <1>2, <1>4, <1>5, <1>6, <1>7, <1>10 DEF IInv

\* Reading the first message under the key of a peer that is ahead: p is now
\* the one ahead, and the chain it leaves behind had ns messages.
LEMMA ReadByRatchetKeepsInvariant ==
  ASSUME IInv, NEW p \in Parties, NEW i \in 1 .. MaxSent, NEW r,
         Commits(p, i, r), Ahead(Peer(p)), Ratcheted(p, r)
  PROVE  IInv'
  <1> DEFINE q == Peer(p)
             s == session[p]
             t == session[q]
  <1>1. /\ q \in Parties /\ q # p /\ Peer(q) = p /\ TypeOK /\ KeyUsedOnce
        /\ SenderInv(p) /\ SenderInv(q) /\ NumberingInv(p) /\ NumberingInv(q)
        /\ ReaderInv(p) /\ ReaderInv(q)
        /\ \A x \in Parties : x = p \/ x = q
    BY PeerFacts DEF IInv
  <1>2. /\ session'[p] = r /\ session'[q] = t
        /\ sent' = sent /\ lost' = lost /\ reads'[q] = reads[q] /\ r \in Session
        /\ TypeOK' /\ KeyUsedOnce' /\ SenderInv(q)' /\ NumberingInv(q)'
        /\ Tracks(session[p], q, reads[p])' /\ Tracks(session[q], p, reads[q])'
        /\ \A j \in 1 .. MaxSent : j > Len(sent[q]) => reads'[p][j] = 0
    BY CommitFacts
  <1>0. /\ r.remote = t.self /\ r.self = FreshKey(s.self)
        /\ r.pn = s.ns /\ r.ns = 0
        /\ r.root = Append(t.root, Agree(t.self, r.self))
        /\ r.sendChain = ChainOf(r.root)
        /\ r.recvChain.root = t.root /\ r.recvChain.label = "root-step"
        /\ r.nr <= t.ns
    BY DEF Ratcheted
  <1>3. /\ t.remote = s.self /\ s.remote # t.self
        /\ t.root \in RootKey /\ s.root \in RootKey
        /\ Len(t.root) \in Nat /\ Len(s.root) \in Nat /\ Len(t.root) = Len(s.root) + 1
        /\ s.self \in PublicKey /\ t.self \in PublicKey /\ s.ns \in Nat
        /\ s.self # NoKey /\ t.self[2] \in Nat /\ s.self[2] \in Nat
    <2>1. Peer(q) = p /\ Ahead(q)
      BY <1>1
    <2>2. t.remote = s.self /\ s.remote # t.self /\ Len(t.root) = Len(s.root) + 1
      BY <2>1, <1>1, AheadFacts
    <2>3. QED BY <2>2, <1>1, SessionType
  <1>4. /\ r.self \in PublicKey /\ r.self[1] = s.self[1] /\ r.self[2] = s.self[2] + 1
        /\ r.self # s.self /\ s.self = <<s.self[1], s.self[2]>>
    BY <1>0, <1>3, FreshKeyType
  <1>5. r.root \in RootKey /\ Len(r.root) = Len(t.root) + 1
    <2>1. Agree(t.self, r.self) \in SUBSET PublicKey
      BY <1>3, <1>4 DEF Agree
    <2> DEFINE old == t.root
               mixed == Agree(t.self, r.self)
    <2>2. r.root = Append(old, mixed) /\ old \in Seq(SUBSET PublicKey)
      BY <1>0, <1>3 DEF RootKey
    <2> HIDE DEF old, mixed
    <2>3. r.root \in Seq(SUBSET PublicKey) /\ Len(r.root) = Len(old) + 1
      BY <2>1, <2>2 DEF mixed
    <2>4. QED BY <2>3 DEF RootKey, old
  <1>6. /\ r.sendChain = [root |-> r.root, label |-> "root-step", step |-> r.ns]
        /\ r.sendChain # NoKey
    <2>1. r.sendChain \in ChainKey
      BY <1>0, <1>5, ChainOfType
    <2>2. r.sendChain # NoKey
      BY <2>1, NoKeyFacts
    <2>3. QED BY <2>2, <1>0 DEF ChainOf
  <1>9. SenderInv(p)'
    <2>1. ASSUME NEW j \in 1 .. Len(sent[p])
          PROVE  LET m == sent[p][j]
                 IN  /\ m.dh[1] = p
                     /\ m.dh[2] <= r.self[2]
                     /\ m.key.step = m.n
                     /\ m.key.label = "root-step"
                     /\ m.dh # r.self
                     /\ Len(m.key.root) + 2 <= Len(r.root)
      <3> DEFINE m == sent[p][j]
      <3>1. /\ m.dh[1] = p /\ m.dh[2] <= s.self[2]
            /\ m.key.step = m.n /\ m.key.label = "root-step"
            /\ m.dh = s.self => m.key.root = s.root
            /\ m.dh # s.self => Len(m.key.root) + 2 <= Len(s.root)
        BY <1>1 DEF SenderInv
      <3>2. m.dh[2] \in Nat /\ Len(m.key.root) \in Nat
        BY <1>1, MessageType
      <3>3. m.dh[2] < r.self[2]
        BY <3>1, <3>2, <1>3, <1>4
      <3> DEFINE a == Len(m.key.root)
                 b == Len(s.root)
                 c == Len(r.root)
      <3>4. a \in Nat /\ b \in Nat /\ c = b + 2 /\ (a = b \/ a + 2 <= b)
        BY <3>1, <3>2, <1>3, <1>5
      <3> HIDE DEF m, a, b, c
      <3>5. a + 2 <= c
        BY <3>4
      <3>6. m.dh # r.self /\ m.dh[2] <= r.self[2]
        BY <3>2, <3>3, <1>3, <1>4
      <3>7. QED BY <3>1, <3>5, <3>6 DEF a, c, m
    <2>2. Len(sent[p]) <= MaxSent /\ s.self[1] = p
      BY <1>1 DEF SenderInv
    <2> HIDE DEF s
    <2>3. QED BY <2>1, <2>2, <1>2, <1>4, <1>6 DEF SenderInv, s
  <1>10. NumberingInv(p)'
    BY <1>0, <1>1, <1>2 DEF NumberingInv
  <1>11. ReaderInv(p)'
    <2>1. \A j \in 1 .. Len(sent[q]) : Older(r, sent[q][j]) \/ sent[q][j].dh = t.self
      <3> TAKE j \in 1 .. Len(sent[q])
      <3> DEFINE m == sent[q][j]
      <3>1. /\ m.dh[1] = q /\ m.dh[2] <= t.self[2] /\ t.self[1] = q
            /\ m.dh \in PublicKey
        BY <1>1, MessageType DEF SenderInv
      <3>2. m.dh = <<m.dh[1], m.dh[2]>> /\ t.self = <<t.self[1], t.self[2]>> /\ m.dh[2] \in Nat
        BY <3>1, <1>3, FreshKeyType
      <3>3. m.dh[2] = t.self[2] \/ m.dh[2] < t.self[2]
        BY <3>1, <3>2, <1>3
      <3>4. CASE m.dh[2] = t.self[2]
        BY <3>1, <3>2, <3>4
      <3>5. CASE m.dh[2] < t.self[2]
        BY <3>5, <1>0, <1>3, NoKeyFacts DEF Older
      <3>6. QED BY <3>3, <3>4, <3>5
    <2> HIDE DEF s, t
    <2>2. QED BY <2>1, <1>0, <1>2 DEF ReaderInv, Older
  <1>12. ReaderInv(q)'
    <2>1. /\ t.remote # r.self
          /\ \A j \in 1 .. MaxSent : j > Len(sent[p]) => reads[q][j] = 0
          /\ \A j \in 1 .. Len(sent[p]) : Older(t, sent[p][j]) \/ sent[p][j].dh = t.remote
      BY <1>0, <1>1, <1>3, <1>4 DEF ReaderInv
    <2> HIDE DEF s, t
    <2>2. QED BY <2>1, <1>1, <1>2 DEF ReaderInv, Older
  <1>13. Ahead(p)'
    <2>1. t.remote = <<p, r.self[2] - 1>> /\ t.remote # NoKey
      <3>1. s.self[1] = p
        BY <1>1 DEF SenderInv
      <3>2. QED BY <3>1, <1>0, <1>3, <1>4
    <2>2. \A j \in 1 .. Len(sent[p]) : sent[p][j].dh = t.remote => sent[p][j].n < r.pn
      BY <1>0, <1>1, <1>3 DEF SenderInv
    <2>3. \A k \in 0 .. r.pn - 1 :
            \E j \in 1 .. Len(sent[p]) : sent[p][j].dh = t.remote /\ sent[p][j].n = k
      <3>1. \A k \in 0 .. s.ns - 1 :
              \E j \in 1 .. Len(sent[p]) : sent[p][j].dh = s.self /\ sent[p][j].n = k
        BY <1>1 DEF NumberingInv
      <3>2. r.pn = s.ns /\ t.remote = s.self
        BY <1>0, <1>3
      <3> HIDE DEF s, t
      <3> QED BY <3>1, <3>2
    <2> HIDE DEF s, t
    <2>4. QED BY <2>1, <2>2, <2>3, <1>0, <1>2 DEF Ahead
  <1>14. QED
    BY <1>1, <1>2, <1>9, <1>10, <1>11, <1>12, <1>13 DEF IInv

\* Whatever way a message opens, the session decrypt commits accounts for it.
LEMMA OpenedSession ==
  ASSUME IInv, NEW p \in Parties, NEW i \in 1 .. Len(sent[Peer(p)]),
         Opens(session[p], sent[Peer(p)][i])
  PROVE  LET q == Peer(p)
             r == Opened(session[p], sent[q][i])
         IN  /\ i \in 1 .. MaxSent
             /\ reads[p][i] = 0
             /\ r \in Session
             /\ Tracks(r, q, [reads[p] EXCEPT ![i] = @ + 1])
             /\ SameChains(p, r) \/ (Ahead(q) /\ Ratcheted(p, r))
  <1> DEFINE q == Peer(p)
             s == session[p]
             t == session[q]
             m == sent[q][i]
             r == Opened(s, m)
             rd == [reads[p] EXCEPT ![i] = @ + 1]
             Goal == /\ r \in Session
                     /\ Tracks(r, q, rd)
                     /\ SameChains(p, r) \/ (Ahead(q) /\ Ratcheted(p, r))
  <1>1. /\ q \in Parties /\ TypeOK /\ SenderInv(q) /\ ReaderInv(p) /\ Tracks(s, q, reads[p])
        /\ s \in Session /\ s.nr \in Nat
    BY PeerFacts, SessionType DEF IInv, ReaderInv
  <1>2. i \in 1 .. MaxSent
    BY <1>1, SentIndices
  <1>3. m.n \in Nat /\ (m.dh = t.self => m.n < t.ns) /\ t.ns \in Nat
    BY <1>1, MessageType, SessionType DEF SenderInv
  <1>4. ASSUME Passed(s, m), OpensFromStore(s, m) PROVE Goal
    <2>1. r = KeyRemoved(s, m)
      BY <1>4 DEF Opened
    <2>2. r \in Session /\ Tracks(r, q, rd)
      BY <2>1, <1>2, <1>4, StoreReadTracks
    <2> HIDE DEF r, m
    <2>3. /\ r.root = s.root /\ r.self = s.self /\ r.remote = s.remote
          /\ r.sendChain = s.sendChain /\ r.ns = s.ns /\ r.pn = s.pn
          /\ r.recvChain = s.recvChain /\ r.nr = s.nr
      BY <2>1, <1>1 DEF KeyRemoved, Session
    <2>4. SameChains(p, r)
      BY <2>3, <1>1 DEF SameChains, ReaderInv
    <2>5. QED BY <2>2, <2>4
  <1>5. ASSUME ~OpensFromStore(s, m), m.dh = s.remote, m.n >= s.nr PROVE Goal
    <2> DEFINE c == SkipTo(s, m.dh, m.n)
    <2>1. r = KeyTaken(c)
      BY <1>5 DEF Opened, Positioned, OnChain, NeedsStep
    <2>2. s.nr <= m.n
      BY <1>1, <1>3, <1>5
    <2>3. /\ KeyTaken(c) \in Session /\ Tracks(KeyTaken(c), q, rd)
          /\ KeyTaken(c).nr = m.n + 1
          /\ KeyTaken(c).remote = s.remote /\ KeyTaken(c).root = s.root
          /\ KeyTaken(c).self = s.self /\ KeyTaken(c).sendChain = s.sendChain
          /\ KeyTaken(c).ns = s.ns /\ KeyTaken(c).pn = s.pn
          /\ KeyTaken(c).recvChain.root = s.recvChain.root
          /\ KeyTaken(c).recvChain.label = s.recvChain.label
      BY <2>2, <1>1, <1>5, ChainReadTracks
    <2>4. t.ns >= m.n + 1 \/ m.dh # t.self
      BY <1>3
    <2> HIDE DEF r, m, c
    <2>5. SameChains(p, r)
      BY <2>1, <2>3, <2>4, <1>5 DEF SameChains
    <2>6. QED BY <2>1, <2>3, <2>5
  <1>6. ASSUME ~OpensFromStore(s, m), Ahead(q), m.dh = t.self, m.dh # s.remote PROVE Goal
    <2>1. r = KeyTaken(Positioned(s, m))
      BY <1>6 DEF Opened
    <2>2. /\ r \in Session /\ Tracks(r, q, rd)
          /\ r.nr = m.n + 1
          /\ r.remote = t.self /\ r.self = FreshKey(s.self)
          /\ r.pn = s.ns /\ r.ns = 0
          /\ r.root = Append(t.root, Agree(t.self, r.self))
          /\ r.sendChain = ChainOf(r.root)
          /\ r.recvChain.root = t.root /\ r.recvChain.label = "root-step"
      BY <2>1, <1>6, RatchetReadTracks
    <2> HIDE DEF r, m
    <2>3. r.nr <= t.ns
      BY <2>2, <1>3, <1>6
    <2>4. Ratcheted(p, r)
      BY <2>2, <2>3 DEF Ratcheted
    <2>5. QED BY <2>2, <2>4, <1>6
  <1>7. reads[p][i] = 0 /\ Goal
    <2>1. /\ reads[p][i] = 0
          /\ \/ Passed(s, m) /\ OpensFromStore(s, m)
             \/ ~OpensFromStore(s, m) /\ m.dh = s.remote /\ m.n >= s.nr
             \/ ~OpensFromStore(s, m) /\ Ahead(q) /\ m.dh = t.self /\ m.dh # s.remote
      BY OpensCases
    <2> HIDE DEF Goal
    <2>2. QED BY <2>1, <1>4, <1>5, <1>6
  <1>8. QED
    BY <1>2, <1>7

\* A step that leaves the sessions, the messages and the counts alone.
LEMMA StutterKeepsInvariant ==
  ASSUME IInv, UNCHANGED <<session, sent, reads>>, lost' \subseteq Parties
  PROVE  IInv'
  <1>1. TypeOK' /\ KeyUsedOnce'
    BY DEF IInv, TypeOK, KeyUsedOnce
  <1>2. ASSUME NEW p \in Parties
        PROVE  /\ SenderInv(p)' /\ NumberingInv(p)' /\ ReaderInv(p)'
               /\ Ahead(p) => Ahead(p)'
    <2>1. SenderInv(p)' /\ NumberingInv(p)'
      BY DEF IInv, SenderInv, NumberingInv
    <2>2. ReaderInv(p)'
      BY DEF IInv, ReaderInv, Tracks, Passed, Older, StoredKeys
    <2>3. Ahead(p) => Ahead(p)'
      BY DEF Ahead
    <2>4. QED BY <2>1, <2>2, <2>3
  <1>3. QED
    BY <1>1, <1>2 DEF IInv

\* decrypt, in the terms of the invariant: nothing happens, or message i is
\* read for the first time.
LEMMA DecryptFacts ==
  ASSUME IInv, NEW p \in Parties, NEW i \in 1 .. MaxSent, NEW intact \in BOOLEAN,
         Decrypt(p, i, intact)
  PROVE  \/ UNCHANGED vars
         \/ /\ reads[p][i] = 0
            /\ i <= Len(sent[Peer(p)])
            /\ \E r : /\ Commits(p, i, r)
                      /\ SameChains(p, r) \/ (Ahead(Peer(p)) /\ Ratcheted(p, r))
  <1> DEFINE q == Peer(p)
             s == session[p]
             m == sent[q][i]
             r == Opened(s, m)
  <1>1. q \in Parties /\ TypeOK
    BY PeerFacts DEF IInv
  <1>2. i \in 1 .. Len(sent[q]) /\ UNCHANGED <<sent, lost>>
    <2>1. Len(sent[q]) \in Nat /\ i <= Len(sent[q])
      BY <1>1 DEF TypeOK, Decrypt
    <2>2. QED BY <2>1 DEF Decrypt
  <1>3. CASE ~(intact /\ Opens(s, m))
    <2>1. session' = [session EXCEPT ![p] = s] /\ reads' = reads
      BY <1>3 DEF Decrypt, AfterDecrypt
    <2>2. session' = session
      BY <2>1, <1>1 DEF TypeOK
    <2>3. QED BY <2>1, <2>2, <1>2 DEF vars
  <1>4. CASE intact /\ Opens(s, m)
    <2>1. session' = [session EXCEPT ![p] = r] /\ reads' = [reads EXCEPT ![p][i] = @ + 1]
      BY <1>4 DEF Decrypt, AfterDecrypt
    <2>2. /\ reads[p][i] = 0
          /\ r \in Session
          /\ Tracks(r, q, [reads[p] EXCEPT ![i] = @ + 1])
          /\ SameChains(p, r) \/ (Ahead(q) /\ Ratcheted(p, r))
      BY <1>2, <1>4, OpenedSession
    <2> HIDE DEF r
    <2>3. reads'[p] = [reads[p] EXCEPT ![i] = @ + 1]
      BY <2>1, <1>1 DEF TypeOK
    <2>4. Commits(p, i, r)
      BY <2>1, <2>2, <2>3, <1>2 DEF Commits
    <2>5. QED BY <2>2, <2>4, <1>2
  <1>5. QED
    BY <1>3, <1>4

LEMMA NextKeepsInvariant ==
  ASSUME IInv, [Next]_vars
  PROVE  IInv'
  <1>1. lost \subseteq Parties
    BY DEF IInv, TypeOK
  <1>2. ASSUME NEW p \in Parties, Encrypt(p) PROVE IInv'
    BY <1>2, EncryptKeepsInvariant
  <1>3. ASSUME NEW p \in Parties, Reload(p) PROVE IInv'
    BY <1>1, <1>3, StutterKeepsInvariant DEF Reload
  <1>4. ASSUME NEW p \in Parties, NEW i \in 1 .. MaxSent, NEW intact \in BOOLEAN,
               Decrypt(p, i, intact)
        PROVE  IInv'
    <2>1. CASE UNCHANGED vars
      BY <2>1, <1>1, StutterKeepsInvariant DEF vars
    <2>2. ASSUME NEW r, Commits(p, i, r), SameChains(p, r) PROVE IInv'
      BY <2>2, ReadOnChainKeepsInvariant
    <2>3. ASSUME NEW r, Commits(p, i, r), Ahead(Peer(p)), Ratcheted(p, r) PROVE IInv'
      BY <2>3, ReadByRatchetKeepsInvariant
    <2>4. QED BY <2>1, <2>2, <2>3, <1>4, DecryptFacts
  <1>5. CASE UNCHANGED vars
    BY <1>1, <1>5, StutterKeepsInvariant DEF vars
  <1>6. QED
    BY <1>2, <1>3, <1>4, <1>5 DEF Next

\* The inductive invariant holds of every reachable state.
THEOREM Invariant == Spec => []IInv
  <1>1. Init => IInv
    BY InitInvariant
  <1>2. IInv /\ [Next]_vars => IInv'
    BY NextKeepsInvariant
  <1>3. QED BY <1>1, <1>2, PTL DEF Spec

-----------------------------------------------------------------------------
(* What follows from it.                                                   *)

\* Every session, message and count has its type.
THEOREM TypeCorrect == Spec => []TypeOK
  <1>1. IInv => TypeOK
    BY DEF IInv
  <1>2. QED BY <1>1, Invariant, PTL

\* However many ratchet steps the two devices take, and in whatever order
\* their messages arrive, encrypt never derives the same message key twice:
\* the fixed nonce of encrypt is safe.
THEOREM KeysAreUsedOnce == Spec => []KeyUsedOnce
  <1>1. IInv => KeyUsedOnce
    BY DEF IInv
  <1>2. QED BY <1>1, Invariant, PTL

\* A key kept in the store is the key of a message that was sent on that chain
\* with that number, and that this end has not read.
THEOREM StoredKeysAreOutstanding == Spec => []StoreIsOutstanding
  <1>1. ASSUME IInv PROVE StoreIsOutstanding
    <2>1. ASSUME NEW p \in Parties, NEW e \in session[p].skipped
          PROVE  \E i \in 1 .. Len(sent[Peer(p)]) :
                   /\ reads[p][i] = 0
                   /\ sent[Peer(p)][i].dh = e.dh
                   /\ sent[Peer(p)][i].n = e.n
                   /\ sent[Peer(p)][i].key = e.key
      <3> DEFINE s == session[p]
                 q == Peer(p)
      <3>1. Tracks(s, q, reads[p])
        BY <1>1 DEF IInv, ReaderInv
      <3>2. PICK i \in 1 .. Len(sent[q]) :
              sent[q][i].dh = e.dh /\ sent[q][i].n = e.n /\ sent[q][i].key = e.key
        BY <3>1 DEF Tracks
      <3>3. StoredKeys(s, sent[q][i]) # {}
        BY <3>2 DEF StoredKeys
      <3>4. reads[p][i] = 0
        BY <3>1, <3>3 DEF Tracks
      <3>5. QED BY <3>2, <3>4
    <2>2. QED BY <2>1 DEF StoreIsOutstanding
  <1>2. QED BY <1>1, Invariant, PTL

\* A message that has not been read opens, whatever was read, skipped or
\* replayed before it, unless that takes more than MAX_SKIP skips of one chain.
THEOREM UnreadMessagesOpen == Spec => []UnreadOpens
  <1>1. ASSUME IInv PROVE UnreadOpens
    <2>1. ASSUME NEW p \in Parties, NEW i \in 1 .. Len(sent[Peer(p)]),
                 ~(reads[p][i] > 0),
                 ~(NeedsStep(session[p], sent[Peer(p)][i])
                   /\ ~MaySkipTo(session[p], sent[Peer(p)][i].pn)),
                 MaySkipTo(OnChain(session[p], sent[Peer(p)][i]), sent[Peer(p)][i].n)
          PROVE  Opens(session[p], sent[Peer(p)][i])
      <3> DEFINE q == Peer(p)
                 s == session[p]
                 t == session[q]
                 m == sent[q][i]
      <3>1. /\ q \in Parties /\ TypeOK /\ ReaderInv(p) /\ NumberingInv(q)
            /\ Tracks(s, q, reads[p]) /\ s \in Session /\ s.nr \in Nat
        BY <1>1, PeerFacts, SessionType DEF IInv, ReaderInv
      <3>2. reads[p][i] # 1 /\ m.n \in Nat
        BY <2>1, <3>1, MessageType
      <3>3. CASE Passed(s, m)
        <4>1. StoredKeys(s, m) # {}
          BY <3>1, <3>2, <3>3 DEF Tracks
        <4>2. PICK e \in StoredKeys(s, m) : TRUE
          BY <4>1
        <4>3. e \in s.skipped /\ e.dh = m.dh /\ e.n = m.n
          BY <4>2 DEF StoredKeys
        <4>4. PICK j \in 1 .. Len(sent[q]) :
                sent[q][j].dh = e.dh /\ sent[q][j].n = e.n /\ sent[q][j].key = e.key
          BY <4>3, <3>1 DEF Tracks
        <4>5. j = i
          BY <4>3, <4>4, <3>1 DEF NumberingInv
        <4>6. OpensFromStore(s, m)
          BY <4>2, <4>4, <4>5 DEF OpensFromStore
        <4>7. QED BY <4>6 DEF Opens
      <3>4. CASE ~Passed(s, m)
        <4>1. StoredKeys(s, m) = {}
          BY <3>1, <3>4 DEF Tracks
        <4>2. CASE m.dh = s.remote
          <5>1. s.nr <= m.n
            BY <3>1, <3>2, <3>4, <4>2 DEF Passed
          <5>2. OnChain(s, m) = s /\ Positioned(s, m) = SkipTo(s, m.dh, m.n)
            BY <4>2 DEF OnChain, NeedsStep, Positioned
          <5>3. Positioned(s, m).recvChain = m.key
            <6>1. SkipTo(s, m.dh, m.n).recvChain = m.key
              BY <5>1, <1>1, <3>1, <4>2, ChainReadTracks
            <6>2. QED BY <6>1, <5>2
          <5> HIDE DEF s, m
          <5>4. OpensFromChain(s, m)
            BY <5>1, <5>2, <5>3, <4>1, <4>2, <2>1 DEF OpensFromChain, NeedsStep, s, m
          <5>5. QED BY <5>4 DEF Opens, s, m
        <4>3. CASE m.dh # s.remote
          <5>1. m.dh = t.self
            BY <3>1, <3>4, <4>3 DEF ReaderInv, Passed
          <5>2. Ahead(q)
            BY <1>1, <4>3, <5>1, LinkFacts
          <5>3. OnChain(s, m).nr = 0 /\ Positioned(s, m).recvChain = m.key
            BY <1>1, <4>3, <5>1, <5>2, RatchetReadTracks
          <5>4. m.n >= OnChain(s, m).nr
            BY <5>3, <3>2
          <5>5. OpensFromChain(s, m)
            BY <5>3, <5>4, <4>1, <2>1 DEF OpensFromChain
          <5>6. QED BY <5>5 DEF Opens
        <4>4. QED BY <4>2, <4>3
      <3>5. QED BY <3>3, <3>4
    <2>2. QED BY <2>1 DEF UnreadOpens
  <1>2. QED BY <1>1, Invariant, PTL

\* Two Double Ratchet sessions over a transport that reorders, repeats and
\* damages implement the channel of module Channel: each message is read at
\* most once, and only after it was posted.
THEOREM SessionsImplementChannel == Spec => ImplementsChannel
  <1>1. Init => ChannelBetween!Init
    BY DEF Init, ChannelBetween!Init, posted
  <1>2. ASSUME IInv, [Next]_vars PROVE [ChannelBetween!Next]_(ChannelBetween!vars)
    <2>1. ASSUME NEW p \in Parties, Encrypt(p) PROVE ChannelBetween!Post(p)
      <3> DEFINE l == Len(sent[p])
      <3>1. /\ l < MaxSent /\ Len(sent'[p]) = l + 1 /\ sent'[Peer(p)] = sent[Peer(p)]
            /\ reads' = reads /\ lost' = lost /\ p \notin lost
        BY <1>2, <2>1, EncryptFields, EncryptFacts DEF Encrypt
      <3>2. posted[p] = l /\ \A x \in Parties : posted'[x] = Len(sent'[x]) /\ posted[x] = Len(sent[x])
        BY DEF posted
      <3>3. posted' = [posted EXCEPT ![p] = l + 1]
        <4>1. posted' = [x \in Parties |-> Len(sent'[x])]
          BY DEF posted
        <4>2. \A x \in Parties : Len(sent'[x]) = IF x = p THEN l + 1 ELSE Len(sent[x])
          BY <3>1, PeerFacts
        <4>3. QED BY <4>1, <4>2 DEF posted
      <3>4. QED BY <3>1, <3>2, <3>3 DEF ChannelBetween!Post
    <2>2. ASSUME NEW p \in Parties, Reload(p)
          PROVE  ChannelBetween!Leave(p) \/ UNCHANGED ChannelBetween!vars
      <3>1. posted' = posted /\ reads' = reads /\ (lost' = lost \cup {p} \/ lost' = lost)
        BY <2>2 DEF Reload, posted
      <3>2. QED BY <3>1 DEF ChannelBetween!Leave, ChannelBetween!vars
    <2>3. ASSUME NEW p \in Parties, NEW i \in 1 .. MaxSent, NEW intact \in BOOLEAN,
                 Decrypt(p, i, intact)
          PROVE  ChannelBetween!Read(p, i) \/ UNCHANGED ChannelBetween!vars
      <3>1. CASE UNCHANGED vars
        BY <3>1 DEF vars, ChannelBetween!vars, posted
      <3>2. CASE /\ reads[p][i] = 0 /\ i <= Len(sent[Peer(p)])
                 /\ \E r : Commits(p, i, r)
        <4>1. /\ reads' = [reads EXCEPT ![p][i] = @ + 1]
              /\ posted' = posted /\ lost' = lost /\ p \notin lost
          BY <2>3, <3>2 DEF Commits, Decrypt, posted
        <4>2. reads' = [reads EXCEPT ![p][i] = 1]
          BY <3>2, <4>1
        <4>3. i <= posted[Peer(p)]
          BY <3>2, PeerFacts DEF posted
        <4>4. QED BY <3>2, <4>1, <4>2, <4>3 DEF ChannelBetween!Read
      <3>3. QED BY <1>2, <2>3, <3>1, <3>2, DecryptFacts
    <2>4. CASE UNCHANGED vars
      BY <2>4 DEF vars, ChannelBetween!vars, posted
    <2>5. QED
      BY <1>2, <2>1, <2>2, <2>3, <2>4 DEF Next, ChannelBetween!Next
  <1>3. QED
    BY <1>1, <1>2, Invariant, PTL DEF Spec, ImplementsChannel, ChannelBetween!Spec

-----------------------------------------------------------------------------
(* How much one ciphertext can add to a store of skipped keys.             *)

FiniteStores == \A p \in Parties : IsFiniteSet(session[p].skipped)

\* skip_receiving_keys stashes at most MAX_SKIP keys.
LEMMA SkipToGrows ==
  ASSUME NEW s \in Session, NEW dh \in PublicKey, NEW until \in Nat,
         MaySkipTo(s, until), IsFiniteSet(s.skipped)
  PROVE  LET r == SkipTo(s, dh, until)
         IN  /\ IsFiniteSet(r.skipped)
             /\ Cardinality(r.skipped) <= Cardinality(s.skipped) + MaxSkip
  <1> DEFINE stashed == s.nr .. until - 1
             fresh == {[dh |-> dh, n |-> k, key |-> KdfCk(s.recvChain, k - s.nr)] : k \in stashed}
             kept == {e \in s.skipped : ~(e.dh = dh /\ e.n \in stashed)}
             r == SkipTo(s, dh, until)
  <1>1. s.nr \in Nat /\ MaxSkip \in Nat /\ Cardinality(s.skipped) \in Nat
    BY BoundsAssumption, FS_CardinalityType DEF Session
  <1>2. CASE until <= s.nr
    BY <1>1, <1>2 DEF SkipTo
  <1>3. CASE until > s.nr
    <2>1. IsFiniteSet(stashed) /\ Cardinality(stashed) <= MaxSkip /\ Cardinality(stashed) \in Nat
      <3>1. until - s.nr \in Nat /\ until - s.nr <= MaxSkip
        BY <1>1, <1>3 DEF MaySkipTo
      <3>2. IsFiniteSet(stashed) /\ Cardinality(stashed) = until - s.nr
        <4> DEFINE lo == s.nr
                   hi == until - 1
        <4>1. lo \in Int /\ hi \in Int /\ ~(lo > hi) /\ hi - lo + 1 = until - s.nr
          BY <1>1, <1>3
        <4> HIDE DEF lo, hi
        <4>2. IsFiniteSet(lo .. hi) /\ Cardinality(lo .. hi) = hi - lo + 1
          BY <4>1, FS_Interval
        <4> QED BY <4>1, <4>2 DEF lo, hi
      <3> QED BY <3>1, <3>2
    <2>2. IsFiniteSet(fresh) /\ Cardinality(fresh) <= Cardinality(stashed)
      <3> DEFINE f == [k \in stashed |->
                         [dh |-> dh, n |-> k, key |-> KdfCk(s.recvChain, k - s.nr)]]
      <3>1. f \in Surjection(stashed, fresh)
        <4> HIDE DEF stashed
        <4>1. f \in [stashed -> fresh]
          OBVIOUS
        <4>2. \A e \in fresh : \E k \in stashed : f[k] = e
          OBVIOUS
        <4> QED BY <4>1, <4>2 DEF Surjection
      <3> HIDE DEF f, stashed, fresh
      <3> QED BY <2>1, <3>1, FS_Surjection
    <2>3. IsFiniteSet(kept) /\ Cardinality(kept) <= Cardinality(s.skipped)
      BY FS_Subset
    <2>4. r.skipped = kept \cup fresh
      <3>1. ~(until <= s.nr)
        BY <1>1, <1>3
      <3>2. r = [s EXCEPT !.recvChain = KdfCk(s.recvChain, until - s.nr), !.nr = until,
                          !.skipped = kept \cup fresh]
        BY <3>1, Zenon DEF SkipTo
      <3> HIDE DEF kept, fresh, r
      <3> QED BY <3>2 DEF Session
    <2> HIDE DEF stashed, fresh, kept, r
    <2>5. /\ IsFiniteSet(kept \cup fresh)
          /\ Cardinality(kept \cup fresh) =
               Cardinality(kept) + Cardinality(fresh) - Cardinality(kept \cap fresh)
      BY <2>2, <2>3, FS_Union
    <2>6. /\ Cardinality(kept) \in Nat /\ Cardinality(fresh) \in Nat
          /\ Cardinality(kept \cap fresh) \in Nat /\ Cardinality(kept \cup fresh) \in Nat
      BY <2>2, <2>3, <2>5, FS_CardinalityType, FS_Intersection
    <2>7. Cardinality(kept \cup fresh) <= Cardinality(s.skipped) + MaxSkip
      BY <1>1, <2>1, <2>2, <2>3, <2>5, <2>6
    <2> QED BY <2>4, <2>5, <2>7 DEF r
  <1> QED BY <1>1, <1>2, <1>3

\* A decrypt skips along at most two chains: the one it closes and its own.
LEMMA OpenedGrows ==
  ASSUME IInv, NEW p \in Parties, NEW m \in Message,
         Opens(session[p], m), IsFiniteSet(session[p].skipped)
  PROVE  LET s == session[p]
             r == Opened(s, m)
         IN  /\ IsFiniteSet(r.skipped)
             /\ Cardinality(r.skipped) <= Cardinality(s.skipped) + 2 * MaxSkip
  <1> DEFINE s == session[p]
             r == Opened(s, m)
             on == OnChain(s, m)
             old == OldChainStashed(s, m)
             n == Cardinality(s.skipped)
  <1>1. /\ s \in Session /\ s.recvChain.step = s.nr
        /\ s.remote \in PublicKey \/ s.remote = NoKey
        /\ MaxSkip \in Nat /\ n \in Nat
    BY SessionType, BoundsAssumption, FS_CardinalityType DEF IInv, ReaderInv, Tracks
  <1>2. m.dh \in PublicKey /\ m.n \in Nat /\ m.pn \in Nat
    BY DEF Message
  <1>3. CASE OpensFromStore(s, m)
    <2>1. r = [s EXCEPT !.skipped = @ \ StoredKeys(s, m)]
      BY <1>3 DEF Opened, KeyRemoved
    <2>2. r.skipped \subseteq s.skipped
      BY <1>1, <2>1 DEF Session
    <2> HIDE DEF s, r
    <2>3. IsFiniteSet(r.skipped) /\ Cardinality(r.skipped) <= n
      BY <2>2, FS_Subset DEF s
    <2>4. Cardinality(r.skipped) \in Nat
      BY <2>3, FS_CardinalityType
    <2>5. Cardinality(r.skipped) <= n + 2 * MaxSkip
      BY <1>1, <2>3, <2>4
    <2> QED BY <2>3, <2>5 DEF r, s
  <1>4. CASE ~OpensFromStore(s, m)
    <2>1. /\ NeedsStep(s, m) => MaySkipTo(s, m.pn)
          /\ MaySkipTo(on, m.n)
      BY <1>4 DEF Opens, OpensFromChain
    <2>2. on \in Session /\ IsFiniteSet(on.skipped) /\ Cardinality(on.skipped) <= n + MaxSkip
      <3>1. CASE ~NeedsStep(s, m)
        BY <1>1, <3>1 DEF OnChain
      <3>2. CASE NeedsStep(s, m)
        <4> DEFINE dh == IF s.remote = NoKey THEN m.dh ELSE s.remote
        <4>1. dh \in PublicKey /\ old = SkipTo(s, dh, m.pn)
          BY <1>1, <1>2 DEF OldChainStashed
        <4> HIDE DEF dh, old
        <4>2. old \in Session
          BY <1>1, <1>2, <4>1, SkipToFacts
        <4>3. IsFiniteSet(old.skipped) /\ Cardinality(old.skipped) <= n + MaxSkip
          BY <1>1, <1>2, <2>1, <3>2, <4>1, SkipToGrows
        <4>4. on = DhRatchetStep(old, m.dh)
          BY <3>2 DEF OnChain, old
        <4>5. on \in Session /\ on.skipped = old.skipped
          BY <1>2, <4>2, <4>4, StepFacts
        <4> QED BY <4>3, <4>5
      <3> QED BY <3>1, <3>2
    <2> DEFINE to == Positioned(s, m)
    <2>3. to = SkipTo(on, m.dh, m.n)
      BY DEF Positioned
    <2>4. r = KeyTaken(to)
      BY <1>4 DEF Opened
    <2> HIDE DEF s, r, on, to
    <2>5. IsFiniteSet(to.skipped) /\ Cardinality(to.skipped) <= Cardinality(on.skipped) + MaxSkip
      BY <1>2, <2>1, <2>2, <2>3, SkipToGrows
    <2>6. r.skipped = to.skipped
      BY <2>4 DEF KeyTaken
    <2>7. Cardinality(to.skipped) \in Nat /\ Cardinality(on.skipped) \in Nat
      BY <2>2, <2>5, FS_CardinalityType
    <2>8. Cardinality(to.skipped) <= n + 2 * MaxSkip
      BY <1>1, <2>2, <2>5, <2>7
    <2> QED BY <2>5, <2>6, <2>8 DEF r, s
  <1> QED BY <1>3, <1>4

LEMMA StoresGrow ==
  ASSUME IInv, FiniteStores, [Next]_vars, NEW p \in Parties
  PROVE  /\ IsFiniteSet(session'[p].skipped)
         /\ Cardinality(session'[p].skipped) <= Cardinality(session[p].skipped) + 2 * MaxSkip
  <1> DEFINE Goal == /\ IsFiniteSet(session'[p].skipped)
                     /\ Cardinality(session'[p].skipped)
                          <= Cardinality(session[p].skipped) + 2 * MaxSkip
  <1>1. /\ session \in [Parties -> Session] /\ IsFiniteSet(session[p].skipped)
        /\ Cardinality(session[p].skipped) \in Nat /\ MaxSkip \in Nat
    BY BoundsAssumption, FS_CardinalityType DEF IInv, TypeOK, FiniteStores
  <1>2. ASSUME session'[p].skipped = session[p].skipped PROVE Goal
    <2>1. \A n \in Nat, k \in Nat : n <= n + 2 * k
      OBVIOUS
    <2> QED BY <1>1, <1>2, <2>1
  <1>3. ASSUME NEW q \in Parties, Encrypt(q) PROVE Goal
    <2>1. session'[p] = session[p] \/ session'[p] = AfterEncrypt(session[p])
      BY <1>1, <1>3 DEF Encrypt
    <2>2. session'[p].skipped = session[p].skipped
      BY <1>1, <2>1 DEF AfterEncrypt, Session
    <2> QED BY <1>2, <2>2
  <1>4. ASSUME NEW q \in Parties, Reload(q) PROVE Goal
    BY <1>2, <1>4 DEF Reload
  <1>5. ASSUME NEW q \in Parties, NEW i \in 1 .. MaxSent, NEW intact \in BOOLEAN,
               Decrypt(q, i, intact)
        PROVE  Goal
    <2> DEFINE m == sent[Peer(q)][i]
    <2>1. session' = [session EXCEPT ![q] = AfterDecrypt(session[q], m, intact)]
      BY <1>5 DEF Decrypt
    <2>2. CASE p # q \/ ~(intact /\ Opens(session[q], m))
      <3>1. session'[p] = session[p]
        BY <1>1, <2>1, <2>2 DEF AfterDecrypt
      <3> QED BY <1>2, <3>1
    <2>3. CASE p = q /\ intact /\ Opens(session[q], m)
      <3>1. session'[p] = Opened(session[p], m)
        BY <1>1, <2>1, <2>3 DEF AfterDecrypt
      <3>2. m \in Message
        <4>1. i <= Len(sent[Peer(q)]) /\ Peer(q) \in Parties /\ sent \in [Parties -> Seq(Message)]
          BY <1>5, PeerFacts DEF Decrypt, IInv, TypeOK
        <4> QED BY <4>1
      <3> HIDE DEF m
      <3> QED BY <1>1, <2>3, <3>1, <3>2, OpenedGrows
    <2> QED BY <2>2, <2>3
  <1>6. CASE UNCHANGED vars
    BY <1>2, <1>6 DEF vars
  <1> QED BY <1>3, <1>4, <1>5, <1>6 DEF Next

\* Whatever a header says of message numbers and of the chain before, and
\* however often the key has been ratcheted, one step of the program adds no
\* more than two chains' worth of MAX_SKIP keys to a store.
THEOREM StoresGrowByTwoSkips == Spec => StoreGrowsByTwoSkips
  <1>1. Init => FiniteStores
    BY FS_EmptySet DEF Init, FiniteStores, InitInitiator, InitResponder
  <1>2. IInv /\ FiniteStores /\ [Next]_vars => FiniteStores'
    BY StoresGrow DEF FiniteStores
  <1>3. IInv /\ FiniteStores /\ [Next]_vars =>
          \A p \in Parties :
            Cardinality(session'[p].skipped) <= Cardinality(session[p].skipped) + 2 * MaxSkip
    BY StoresGrow
  <1>4. QED BY <1>1, <1>2, <1>3, Invariant, PTL DEF Spec, StoreGrowsByTwoSkips
=============================================================================
