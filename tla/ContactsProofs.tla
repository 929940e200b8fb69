--------------------------- MODULE ContactsProofs ---------------------------
(***************************************************************************)
(* Proofs about Contacts, for any users and any bounds.                    *)
(***************************************************************************)
EXTENDS Contacts, FiniteSetTheorems, SequenceTheorems, TLAPS

-----------------------------------------------------------------------------
(* The inductive invariant.                                                *)

\* The identities in the session s of u are u's own, or p.
Peers(u, s, p) == \A i \in Parties(s) : i[1] = u \/ i = p

\* With n accounts and the pins pin, an entry is of an account and pinned.
EntryOk(e, n, pin) == e.device \in 1 .. n /\ pin[e.device] = e.identity

ConversationOk(u, c, n, pin) ==
  /\ EntryOk(c.peer, n, pin)
  /\ c.session # None => Peers(u, c.session, pin[c.peer.device])

StoreOk(u, sessions, pin) ==
  \A d \in Devices : sessions[d] # None => Peers(u, sessions[d], pin[d])

OutboxOk(u, items, envelopes, pin) ==
  \A item \in items :
    /\ item.id \in 1 .. Len(envelopes)
    /\ Peers(u, item.after, pin[envelopes[item.id].to])

SecretsOk(u, secrets) == IsFiniteSet(secrets.pool) /\ secrets.identity[1] = u

\* What client u has in memory and on disk.
AppOk(u, me, n, pin) ==
  /\ SecretsOk(u, me.secrets)
  /\ me.device # None => me.device \in 1 .. n
  /\ me.token => me.device # None
  /\ me.directory # None => EntryOk(me.directory, n, pin)
  /\ me.conversation # None => ConversationOk(u, me.conversation, n, pin)

ClientOk(u) ==
  /\ AppOk(u, app[u], Len(accounts), pins[u])
  /\ SecretsOk(u, kept[u])
  /\ StoreOk(u, stored[u], pins[u])
  /\ OutboxOk(u, outbox[u], made, pins[u])

\* A bundle is by the identity that registered, a queued envelope was made and
\* came from an account.
ServerOk ==
  /\ \A d \in 1 .. Len(accounts) : accounts[d].bundle \in {None, accounts[d].identity}
  /\ \A row \in queue : row.id \in 1 .. Len(made) /\ row.from \in 1 .. Len(accounts)

IInv == TypeOK /\ ServerOk /\ \A u \in Users : ClientOk(u)

-----------------------------------------------------------------------------
(* Calls that fail.                                                        *)

Calls == LoginCalls \cup {"answer", "secrets", "send", "commit", "claim", "ack"}

LEMMA PairIsFinite ==
  ASSUME NEW x, NEW y
  PROVE  IsFiniteSet({x, y})
<1>1. IsFiniteSet({x}) /\ IsFiniteSet({y})
  BY FS_Singleton
<1>2. {x, y} = {x} \cup {y}
  OBVIOUS
<1> QED BY <1>1, <1>2, FS_Union

LEMMA CallsAreFinite == IsFiniteSet(Calls)
<1>1. IsFiniteSet({"login", "visibility"})
  BY PairIsFinite
<1>2. IsFiniteSet({"keys", "prekeys"})
  BY PairIsFinite
<1>3. IsFiniteSet({"save", "answer"})
  BY PairIsFinite
<1>4. IsFiniteSet({"secrets", "send"})
  BY PairIsFinite
<1>5. IsFiniteSet({"commit", "claim"})
  BY PairIsFinite
<1>6. IsFiniteSet({"ack"})
  BY FS_Singleton
<1>7. IsFiniteSet({"login", "visibility"} \cup {"keys", "prekeys"})
  BY <1>1, <1>2, FS_Union
<1>8. IsFiniteSet({"save", "answer"} \cup {"secrets", "send"})
  BY <1>3, <1>4, FS_Union
<1>9. IsFiniteSet({"commit", "claim"} \cup {"ack"})
  BY <1>5, <1>6, FS_Union
<1>10. IsFiniteSet(({"login", "visibility"} \cup {"keys", "prekeys"})
                    \cup ({"save", "answer"} \cup {"secrets", "send"}))
  BY <1>7, <1>8, FS_Union
<1>11. IsFiniteSet((({"login", "visibility"} \cup {"keys", "prekeys"})
                    \cup ({"save", "answer"} \cup {"secrets", "send"}))
                    \cup ({"commit", "claim"} \cup {"ack"}))
  BY <1>9, <1>10, FS_Union
<1>12. Calls = ((({"login", "visibility"} \cup {"keys", "prekeys"})
                  \cup ({"save", "answer"} \cup {"secrets", "send"}))
                  \cup ({"commit", "claim"} \cup {"ack"}))
  BY DEF Calls, LoginCalls
<1> QED BY <1>11, <1>12

LEMMA FailuresType ==
  ASSUME TypeOK, NEW failed \in SUBSET Calls, Fails(failed)
  PROVE  failures' \in 0 .. MaxFailures
<1>1. Cardinality(failed) \in Nat
  BY CallsAreFinite, FS_Subset, FS_CardinalityType
<1>2. failures \in Nat /\ MaxFailures \in Nat
  BY ContactsAssumption DEF TypeOK
<1> QED BY <1>1, <1>2 DEF Fails

LEMMA BreaksType ==
  ASSUME TypeOK, Breaks
  PROVE  breaks' \in 0 .. MaxBreaks
BY ContactsAssumption DEF TypeOK, Breaks

-----------------------------------------------------------------------------
(* Sessions and their parties.                                             *)

LEMMA PartiesAreKeys ==
  ASSUME NEW s \in Session
  PROVE  Parties(s) \subseteq Key
<1>1. s.secret \in SUBSET SUBSET PublicKey
  BY DEF Session, Secret
<1>2. UNION s.secret \subseteq PublicKey
  BY <1>1
<1> QED BY <1>2 DEF Parties, PublicKey

\* The parties of a handshake are the two identities.
LEMMA InitiateParties ==
  ASSUME NEW mine, NEW theirs, NEW x, NEW k, NEW role,
         NEW i \in Parties(NewSession(Initiate(mine, theirs, <<"ephemeral", x>>, k), role))
  PROVE  i \in {mine, theirs}
<1> DEFINE s == Initiate(mine, theirs, <<"ephemeral", x>>, k)
<1>1. NewSession(s, role).secret = s
  BY DEF NewSession
<1>2. PICK a : a \in UNION s /\ a[1] \in {"exchange", "signed_prekey"} /\ i = a[2]
  BY <1>1 DEF Parties
<1>3. a \in {Exchange(mine), SignedPrekey(theirs), <<"ephemeral", x>>, Exchange(theirs),
             OneTime(k)}
  BY <1>2 DEF Initiate, Fourth, Agree
<1> QED BY <1>2, <1>3 DEF Exchange, SignedPrekey, OneTime

LEMMA RespondParties ==
  ASSUME NEW mine, NEW boot, NEW x, boot.ephemeral = <<"ephemeral", x>>, NEW role,
         NEW i \in Parties(NewSession(Respond(mine, boot), role))
  PROVE  i \in {mine, boot.identity}
<1> DEFINE s == Respond(mine, boot)
<1>1. NewSession(s, role).secret = s
  BY DEF NewSession
<1>2. PICK a : a \in UNION s /\ a[1] \in {"exchange", "signed_prekey"} /\ i = a[2]
  BY <1>1 DEF Parties
<1>3. a \in {Exchange(mine), SignedPrekey(mine), <<"ephemeral", x>>, Exchange(boot.identity),
             OneTime(boot.prekey)}
  BY <1>2 DEF Respond, Fourth, Agree
<1> QED BY <1>2, <1>3 DEF Exchange, SignedPrekey, OneTime

\* Sealing and reading leave the parties as they are.
LEMMA SealingKeepsParties ==
  ASSUME NEW s \in Session
  PROVE  AfterSealing(s) \in Session /\ Parties(AfterSealing(s)) = Parties(s)
BY DEF AfterSealing, Session, Parties

LEMMA ReadingKeepsParties ==
  ASSUME NEW s \in Session, NEW key \in MessageKey
  PROVE  AfterReading(s, key) \in Session /\ Parties(AfterReading(s, key)) = Parties(s)
BY DEF AfterReading, Session, MessageKey, Parties

LEMMA SealedIsMessageKey ==
  ASSUME NEW s \in Session
  PROVE  SealedBy(s) \in MessageKey
BY DEF SealedBy, Session, MessageKey

LEMMA InitiateType ==
  ASSUME NEW mine \in Key, NEW theirs \in Key, NEW x \in Key, NEW k \in Key \cup {None}
  PROVE  NewSession(Initiate(mine, theirs, <<"ephemeral", x>>, k), "initiator") \in Session
<1>1. /\ Exchange(mine) \in PublicKey /\ Exchange(theirs) \in PublicKey
      /\ SignedPrekey(theirs) \in PublicKey /\ <<"ephemeral", x>> \in PublicKey
  BY DEF Exchange, SignedPrekey, PublicKey
<1>2. k # None => OneTime(k) \in PublicKey
  BY DEF OneTime, PublicKey
<1>3. Fourth(<<"ephemeral", x>>, k) \in SUBSET SUBSET PublicKey
  BY <1>1, <1>2 DEF Fourth, Agree
<1>4. Initiate(mine, theirs, <<"ephemeral", x>>, k) \in Secret
  BY <1>1, <1>3 DEF Initiate, Agree, Secret
<1> QED BY <1>4 DEF NewSession, Session, Role

LEMMA RespondType ==
  ASSUME NEW mine \in Key, NEW boot \in Bootstrap
  PROVE  NewSession(Respond(mine, boot), "responder") \in Session
<1>1. boot.identity \in Key /\ boot.prekey \in Key \cup {None} /\ boot.ephemeral \in PublicKey
  BY DEF Bootstrap, PublicKey
<1>2. /\ Exchange(mine) \in PublicKey /\ Exchange(boot.identity) \in PublicKey
      /\ SignedPrekey(mine) \in PublicKey
  BY <1>1 DEF Exchange, SignedPrekey, PublicKey
<1>3. boot.prekey # None => OneTime(boot.prekey) \in PublicKey
  BY <1>1 DEF OneTime, PublicKey
<1>4. Fourth(boot.ephemeral, boot.prekey) \in SUBSET SUBSET PublicKey
  BY <1>1, <1>3 DEF Fourth, Agree
<1>5. Respond(mine, boot) \in Secret
  BY <1>1, <1>2, <1>4 DEF Respond, Agree, Secret
<1> QED BY <1>5 DEF NewSession, Session, Role

-----------------------------------------------------------------------------
(* What stays true when accounts, envelopes and pins are added.            *)

\* No pin of pin is changed in pin2.
Extends(pin, pin2) == \A d \in Devices : pin[d] # None => pin2[d] = pin[d]

LEMMA PeersKept ==
  ASSUME NEW u, NEW s \in Session, NEW p, NEW q, p # None => q = p, Peers(u, s, p)
  PROVE  Peers(u, s, q)
<1>1. \A i \in Parties(s) : i # None
  BY PartiesAreKeys, ContactsAssumption
<1> QED BY <1>1 DEF Peers

LEMMA EntryKept ==
  ASSUME NEW e \in Entry, NEW n \in Nat, NEW m \in Nat, n <= m,
         NEW pin, NEW pin2, Extends(pin, pin2), EntryOk(e, n, pin)
  PROVE  EntryOk(e, m, pin2)
<1>1. e.device \in Devices /\ e.identity \in Key
  BY DEF Entry
<1>2. e.identity # None
  BY <1>1, ContactsAssumption
<1>3. pin2[e.device] = e.identity
  BY <1>1, <1>2 DEF Extends, EntryOk
<1>4. e.device \in 1 .. m
  BY DEF EntryOk
<1> QED BY <1>3, <1>4 DEF EntryOk

LEMMA ConversationKept ==
  ASSUME NEW u, NEW c \in Conversation, NEW n \in Nat, NEW m \in Nat, n <= m,
         NEW pin, NEW pin2, Extends(pin, pin2), ConversationOk(u, c, n, pin)
  PROVE  ConversationOk(u, c, m, pin2)
<1>1. c.peer \in Entry /\ c.session \in Session \cup {None}
  BY DEF Conversation
<1>2. EntryOk(c.peer, m, pin2)
  BY <1>1, EntryKept DEF ConversationOk
<1>3. ASSUME c.session # None PROVE Peers(u, c.session, pin2[c.peer.device])
  <2>1. c.peer.device \in Devices
    BY <1>1 DEF Entry
  <2>2. pin[c.peer.device] # None => pin2[c.peer.device] = pin[c.peer.device]
    BY <2>1 DEF Extends
  <2> QED BY <1>1, <1>3, <2>2, PeersKept DEF ConversationOk
<1> QED BY <1>2, <1>3 DEF ConversationOk

LEMMA AppKept ==
  ASSUME NEW u, NEW me \in UpmApp, NEW n \in Nat, NEW m \in Nat, n <= m,
         NEW pin, NEW pin2, Extends(pin, pin2), AppOk(u, me, n, pin)
  PROVE  AppOk(u, me, m, pin2)
<1>1. me.directory \in Entry \cup {None} /\ me.conversation \in Conversation \cup {None}
  BY DEF UpmApp
<1>2. me.directory # None => EntryOk(me.directory, m, pin2)
  BY <1>1, EntryKept DEF AppOk
<1>3. me.conversation # None => ConversationOk(u, me.conversation, m, pin2)
  BY <1>1, ConversationKept DEF AppOk
<1>4. me.device # None => me.device \in 1 .. m
  BY DEF AppOk
<1> QED BY <1>2, <1>3, <1>4 DEF AppOk

LEMMA StoreKept ==
  ASSUME NEW u, NEW sessions \in [Devices -> Session \cup {None}],
         NEW pin, NEW pin2, Extends(pin, pin2), StoreOk(u, sessions, pin)
  PROVE  StoreOk(u, sessions, pin2)
<1> SUFFICES ASSUME NEW d \in Devices, sessions[d] # None
             PROVE  Peers(u, sessions[d], pin2[d])
  BY DEF StoreOk
<1>1. sessions[d] \in Session /\ Peers(u, sessions[d], pin[d])
  BY DEF StoreOk
<1>2. pin[d] # None => pin2[d] = pin[d]
  BY DEF Extends
<1> QED BY <1>1, <1>2, PeersKept

LEMMA OutboxKept ==
  ASSUME NEW u, NEW items \in SUBSET OutboxItem,
         NEW ms \in Seq(Envelope), NEW ms2 \in Seq(Envelope), Len(ms) <= Len(ms2),
         \A i \in 1 .. Len(ms) : ms2[i] = ms[i],
         NEW pin, NEW pin2, Extends(pin, pin2), OutboxOk(u, items, ms, pin)
  PROVE  OutboxOk(u, items, ms2, pin2)
<1> SUFFICES ASSUME NEW item \in items
             PROVE  /\ item.id \in 1 .. Len(ms2)
                    /\ Peers(u, item.after, pin2[ms2[item.id].to])
  BY DEF OutboxOk
<1>1. Len(ms) \in Nat /\ Len(ms2) \in Nat
  BY LenProperties
<1>2. item.id \in 1 .. Len(ms) /\ Peers(u, item.after, pin[ms[item.id].to])
  BY DEF OutboxOk
<1>3. ms2[item.id] = ms[item.id] /\ ms[item.id].to \in Devices
  <2>1. ms[item.id] \in Envelope
    BY <1>2, ElementOfSeq
  <2> QED BY <1>2, <2>1 DEF Envelope
<1>4. item.after \in Session
  BY DEF OutboxItem
<1>5. pin[ms[item.id].to] # None => pin2[ms[item.id].to] = pin[ms[item.id].to]
  BY <1>3 DEF Extends
<1>6. Peers(u, item.after, pin2[ms[item.id].to])
  BY <1>2, <1>4, <1>5, PeersKept
<1> QED BY <1>1, <1>2, <1>3, <1>6

\* Accounts and envelopes are added, and none is taken away.
Grows ==
  /\ Len(accounts) <= Len(accounts')
  /\ Len(made) <= Len(made')
  /\ \A i \in 1 .. Len(made) : made'[i] = made[i]

LEMMA TypeFacts ==
  ASSUME TypeOK
  PROVE  /\ accounts \in Seq(Account) /\ Len(accounts) \in Nat
         /\ made \in Seq(Envelope) /\ Len(made) \in Nat
         /\ \A d \in 1 .. Len(accounts) : accounts[d] \in Account /\ d \in Devices
         /\ \A id \in 1 .. Len(made) : made[id] \in Envelope /\ id \in Ids
<1>1. accounts \in Seq(Account) /\ made \in Seq(Envelope)
      /\ Len(accounts) <= MaxAccounts /\ Len(made) <= MaxMade
  BY DEF TypeOK
<1>2. Len(accounts) \in Nat /\ Len(made) \in Nat
  BY <1>1, LenProperties
<1>3. MaxAccounts \in Nat /\ MaxMade \in Nat
  BY ContactsAssumption
<1>4. \A d \in 1 .. Len(accounts) : accounts[d] \in Account /\ d \in Devices
  BY <1>1, <1>2, <1>3, ElementOfSeq DEF Devices
<1>5. \A id \in 1 .. Len(made) : made[id] \in Envelope /\ id \in Ids
  BY <1>1, <1>2, <1>3, ElementOfSeq DEF Ids
<1> QED BY <1>1, <1>2, <1>4, <1>5

\* A client that takes no part in a step stays as it was.
LEMMA OthersOk ==
  ASSUME IInv, TypeOK', Grows, NEW v \in Users,
         app'[v] = app[v], kept'[v] = kept[v], pins'[v] = pins[v],
         stored'[v] = stored[v], outbox'[v] = outbox[v]
  PROVE  ClientOk(v)'
<1>1. ClientOk(v) /\ TypeOK
  BY DEF IInv
<1>2. /\ app[v] \in UpmApp /\ stored[v] \in [Devices -> Session \cup {None}]
      /\ outbox[v] \in SUBSET OutboxItem
  BY <1>1 DEF TypeOK
<1>3. Extends(pins[v], pins[v])
  BY DEF Extends
<1>4. /\ Len(accounts) \in Nat /\ made \in Seq(Envelope)
      /\ Len(accounts') \in Nat /\ made' \in Seq(Envelope)
  <2>1. accounts' \in Seq(Account) /\ made' \in Seq(Envelope)
    BY DEF TypeOK
  <2> QED BY <1>1, <2>1, TypeFacts, LenProperties
<1>5. AppOk(v, app[v], Len(accounts'), pins[v])
  BY <1>1, <1>2, <1>3, <1>4, AppKept DEF ClientOk, Grows
<1>6. OutboxOk(v, outbox[v], made', pins[v])
  BY <1>1, <1>2, <1>3, <1>4, OutboxKept DEF ClientOk, Grows
<1>7. StoreOk(v, stored[v], pins[v]) /\ SecretsOk(v, kept[v])
  BY <1>1 DEF ClientOk
<1> QED BY <1>5, <1>6, <1>7 DEF ClientOk

\* In a step of u it is enough to look at the server and at u.
LEMMA StepOfOne ==
  ASSUME IInv, NEW u \in Users, TypeOK', ServerOk', Grows, ClientOk(u)',
         \A v \in Users \ {u} :
           /\ app'[v] = app[v] /\ kept'[v] = kept[v] /\ pins'[v] = pins[v]
           /\ stored'[v] = stored[v] /\ outbox'[v] = outbox[v]
  PROVE  IInv'
<1>1. ASSUME NEW v \in Users PROVE ClientOk(v)'
  <2>1. CASE v = u
    BY <2>1
  <2>2. CASE v # u
    BY <2>2, OthersOk
  <2> QED BY <2>1, <2>2
<1> QED BY <1>1 DEF IInv

\* pin_or_verify_peer changes no pin.
LEMMA PinnedFacts ==
  ASSUME TypeOK, NEW u \in Users, NEW d \in Devices, NEW i \in Key, MayPin(u, d, i)
  PROVE  /\ Pinned(u, d, i) \in [Users -> [Devices -> Key \cup {None}]]
         /\ Extends(pins[u], Pinned(u, d, i)[u])
         /\ Pinned(u, d, i)[u][d] = i
         /\ \A v \in Users \ {u} : Pinned(u, d, i)[v] = pins[v]
<1>1. pins \in [Users -> [Devices -> Key \cup {None}]]
  BY DEF TypeOK
<1>2. Pinned(u, d, i) = [pins EXCEPT ![u] = [pins[u] EXCEPT ![d] = i]]
  BY <1>1 DEF Pinned
<1> QED BY <1>1, <1>2 DEF Extends, MayPin

LEMMA AccountsUpdated ==
  ASSUME NEW known \in Seq(Account), NEW d \in 1 .. Len(known), NEW a \in Account,
         NEW more, more = [known EXCEPT ![d] = a]
  PROVE  /\ more \in Seq(Account) /\ Len(more) = Len(known)
         /\ \A e \in 1 .. Len(known) : more[e] = IF e = d THEN a ELSE known[e]
BY ExceptSeq

-----------------------------------------------------------------------------
(* Registration, login, restart.                                           *)

\* What a client has in a pool is its own and finite.
LEMMA SecretsFacts ==
  ASSUME IInv, NEW u \in Users
  PROVE  /\ app[u] \in UpmApp /\ app[u].secrets \in Secrets /\ kept[u] \in Secrets
         /\ SecretsOk(u, app[u].secrets) /\ SecretsOk(u, kept[u])
         /\ AppOk(u, app[u], Len(accounts), pins[u])
BY DEF IInv, TypeOK, UpmApp, ClientOk, AppOk

\* authenticate leaves a client's token and checkbox, the keys and the prekeys
\* of its device.
LEMMA AuthenticateFacts ==
  ASSUME TypeOK, NEW u \in Users, NEW me \in UpmApp, NEW known \in Seq(Account),
         me.device \in 1 .. Len(known), NEW failed,
         me.device \in Devices,
         Authenticate(u, me, known, failed)
  PROVE  /\ \E token \in BOOLEAN, visible \in BOOLEAN :
              app' = [app EXCEPT ![u] = [me EXCEPT !.token = token, !.visible = visible]]
         /\ accounts' \in Seq(Account) /\ Len(accounts') = Len(known)
         /\ \A d \in 1 .. Len(known) :
              /\ accounts'[d].identity = known[d].identity
              /\ accounts'[d].visible = known[d].visible
              /\ accounts'[d].bundle \in {known[d].bundle, known[d].identity}
         /\ prekeys' \subseteq Prekey
<1> DEFINE a == known[me.device]
           in == Verifies(me, known, failed)
<1>1. a \in Account
  BY ElementOfSeq
<1>2. in \in BOOLEAN /\ me.token \in BOOLEAN /\ me.visible \in BOOLEAN /\ a.visible \in BOOLEAN
      /\ me.secrets.identity \in Key /\ me.secrets.pool \subseteq Key
  BY <1>1 DEF Verifies, UpmApp, Account, Secrets
<1>3. \E token \in BOOLEAN, visible \in BOOLEAN :
        app' = [app EXCEPT ![u] = [me EXCEPT !.token = token, !.visible = visible]]
  <2> DEFINE token == in \/ me.token
             visible == IF in THEN VisibleAfter(me, known, failed) ELSE me.visible
  <2>1. token \in BOOLEAN /\ visible \in BOOLEAN
    BY <1>2 DEF VisibleAfter
  <2>2. app' = [app EXCEPT ![u] = [me EXCEPT !.token = token, !.visible = visible]]
    BY DEF Authenticate
  <2> QED BY <2>1, <2>2
<1>4. /\ accounts' \in Seq(Account) /\ Len(accounts') = Len(known)
      /\ \A d \in 1 .. Len(known) :
           /\ accounts'[d].identity = known[d].identity
           /\ accounts'[d].visible = known[d].visible
           /\ accounts'[d].bundle \in {known[d].bundle, known[d].identity}
  <2>1. CASE accounts' = known
    BY <2>1
  <2>2. CASE accounts' # known
    <3>1. in /\ accounts' = KeysPublished(me, known)
      BY <2>2 DEF Authenticate
    <3> DEFINE b == [a EXCEPT !.bundle = me.secrets.identity]
    <3>2. accounts' = [known EXCEPT ![me.device] = b]
      BY <3>1 DEF KeysPublished
    <3>3. b \in Account /\ b.identity = a.identity /\ b.bundle = a.identity
          /\ b.visible = a.visible
      BY <1>1, <1>2, <3>1 DEF Account, Verifies
    <3> HIDE DEF b, a
    <3>4. /\ accounts' \in Seq(Account) /\ Len(accounts') = Len(known)
          /\ \A d \in 1 .. Len(known) :
               accounts'[d] = IF d = me.device THEN b ELSE known[d]
      BY <3>2, <3>3, AccountsUpdated
    <3> QED BY <3>3, <3>4 DEF a
  <2> QED BY <2>1, <2>2
<1>5. prekeys' \subseteq Prekey
  <2>1. PrekeysPublished(me) \subseteq Prekey
    BY <1>2 DEF PrekeysPublished, Prekey, TypeOK
  <2> QED BY <2>1 DEF Authenticate, TypeOK
<1> QED BY <1>3, <1>4, <1>5

\* Persisting keeps what is in memory or what was kept.
LEMMA PersistedFacts ==
  ASSUME TypeOK, NEW u \in Users, NEW failed, Persisted(u, failed)
  PROVE  /\ kept'[u] \in {app'[u].secrets, kept[u]}
         /\ \A v \in Users \ {u} : kept'[v] = kept[v]
         /\ app'[u].secrets \in Secrets => kept' \in [Users -> Secrets]
BY DEF Persisted, TypeOK

LEMMA LoginStep ==
  ASSUME IInv, NEW u \in Users, NEW failed \in SUBSET LoginCalls, Login(u, failed)
  PROVE  IInv'
<1> USE DEF IInv
<1>1. /\ app[u].device # None /\ Fails(failed)
      /\ Authenticate(u, app[u], accounts, failed)
      /\ Persisted(u, failed) \/ UNCHANGED kept
      /\ UNCHANGED <<claimed, queue, made, minted, pins, stored, outbox, processed,
                     uncommitted, breaks>>
  BY DEF Login, store
<1>2. app[u] \in UpmApp /\ AppOk(u, app[u], Len(accounts), pins[u])
  BY SecretsFacts
<1>3. accounts \in Seq(Account) /\ app[u].device \in 1 .. Len(accounts) /\ app[u].device \in Devices
  BY <1>1, <1>2, TypeFacts DEF AppOk
<1>4. /\ \E token \in BOOLEAN, visible \in BOOLEAN :
           app' = [app EXCEPT ![u] = [app[u] EXCEPT !.token = token, !.visible = visible]]
      /\ accounts' \in Seq(Account) /\ Len(accounts') = Len(accounts)
      /\ \A d \in 1 .. Len(accounts) :
           /\ accounts'[d].identity = accounts[d].identity
           /\ accounts'[d].bundle \in {accounts[d].bundle, accounts[d].identity}
      /\ prekeys' \subseteq Prekey
  BY <1>1, <1>2, <1>3, AuthenticateFacts
<1>5. PICK token \in BOOLEAN, visible \in BOOLEAN :
        app' = [app EXCEPT ![u] = [app[u] EXCEPT !.token = token, !.visible = visible]]
  BY <1>4
<1> DEFINE me == [app[u] EXCEPT !.token = token, !.visible = visible]
<1>6. /\ me \in UpmApp /\ me.secrets = app[u].secrets /\ me.device = app[u].device
      /\ me.directory = app[u].directory /\ me.conversation = app[u].conversation
  BY <1>2 DEF UpmApp
<1>7. app' = [app EXCEPT ![u] = me]
  BY <1>5
<1> HIDE DEF me
<1>8. app' \in [Users -> UpmApp] /\ app'[u] = me /\ \A v \in Users \ {u} : app'[v] = app[v]
  BY <1>6, <1>7 DEF TypeOK
<1>9. /\ kept' \in [Users -> Secrets] /\ kept'[u] \in {app[u].secrets, kept[u]}
      /\ \A v \in Users \ {u} : kept'[v] = kept[v]
  BY <1>1, <1>6, <1>8, SecretsFacts, PersistedFacts DEF TypeOK
<1>10. TypeOK'
  <2>1. failures' \in 0 .. MaxFailures
    BY <1>1, FailuresType DEF Calls
  <2>2. Len(accounts') <= MaxAccounts
    BY <1>4 DEF TypeOK
  <2> QED BY <1>1, <1>4, <1>8, <1>9, <2>1, <2>2 DEF TypeOK
<1>11. ServerOk'
  BY <1>1, <1>4, <1>3 DEF ServerOk
<1>12. Grows
  BY <1>1, <1>4, TypeFacts DEF Grows
<1>13. ClientOk(u)'
  <2>1. AppOk(u, me, Len(accounts), pins[u])
    BY <1>1, <1>2, <1>6 DEF AppOk
  <2>2. SecretsOk(u, kept'[u])
    BY <1>9, SecretsFacts
  <2> QED BY <1>1, <1>4, <1>8, <2>1, <2>2 DEF ClientOk
<1> QED BY <1>1, <1>8, <1>9, <1>10, <1>11, <1>12, <1>13, StepOfOne

\* An account is added with the identity in memory.
LEMMA RegisteredFacts ==
  ASSUME IInv, NEW u \in Users, Len(accounts) < MaxAccounts
  PROVE  /\ Registered(u) \in Seq(Account)
         /\ Len(Registered(u)) = Len(accounts) + 1
         /\ Len(accounts) + 1 \in Devices
         /\ Registered(u)[Len(accounts) + 1].identity = app[u].secrets.identity
         /\ Registered(u)[Len(accounts) + 1].bundle = None
         /\ \A d \in 1 .. Len(accounts) : Registered(u)[d] = accounts[d]
<1> DEFINE a == [identity |-> app[u].secrets.identity, bundle |-> None, visible |-> TRUE]
<1>1. TypeOK
  BY DEF IInv
<1>2. accounts \in Seq(Account) /\ Len(accounts) \in Nat /\ MaxAccounts \in Nat
  BY <1>1, TypeFacts, ContactsAssumption
<1>3. a \in Account
  BY SecretsFacts DEF Account, Secrets
<1>4. Registered(u) = Append(accounts, a)
  BY DEF Registered
<1>5. a.identity = app[u].secrets.identity /\ a.bundle = None
  OBVIOUS
<1> HIDE DEF a
<1>6. Append(accounts, a) \in Seq(Account) /\ Len(Append(accounts, a)) = Len(accounts) + 1
  BY <1>2, <1>3
<1>7. \A d \in 1 .. Len(accounts) : Append(accounts, a)[d] = accounts[d]
  BY <1>2
<1>8. Append(accounts, a)[Len(accounts) + 1] = a
  BY <1>2
<1> QED BY <1>2, <1>4, <1>5, <1>6, <1>7, <1>8 DEF Devices

LEMMA RegisterStep ==
  ASSUME IInv, NEW u \in Users, NEW failed \in SUBSET (LoginCalls \cup {"answer"}),
         Register(u, failed)
  PROVE  IInv'
<1> USE DEF IInv
<1> DEFINE known == Registered(u)
           new == [app[u] EXCEPT !.device = Len(accounts) + 1]
<1>1. /\ ~app[u].token /\ Len(accounts) < MaxAccounts /\ Fails(failed)
      /\ UNCHANGED <<claimed, queue, made, minted, pins, stored, outbox, processed,
                     uncommitted, breaks>>
  BY DEF Register, store
<1>2. /\ known \in Seq(Account) /\ Len(known) = Len(accounts) + 1
      /\ Len(accounts) + 1 \in Devices
      /\ known[Len(accounts) + 1].bundle = None
      /\ \A d \in 1 .. Len(accounts) : known[d] = accounts[d]
  BY <1>1, RegisteredFacts
<1>3. Len(accounts) \in Nat /\ MaxAccounts \in Nat
  BY TypeFacts, ContactsAssumption
<1>4. \A d \in 1 .. Len(known) : known[d].bundle \in {None, known[d].identity}
  BY <1>2, <1>3 DEF ServerOk
<1>5. failures' \in 0 .. MaxFailures
  BY <1>1, FailuresType DEF Calls
<1>6. app[u] \in UpmApp /\ AppOk(u, app[u], Len(accounts), pins[u])
  BY SecretsFacts
<1>7. /\ new \in UpmApp /\ new.secrets = app[u].secrets /\ new.device = Len(accounts) + 1
      /\ new.directory = app[u].directory /\ new.conversation = app[u].conversation
  BY <1>2, <1>6 DEF UpmApp
<1> HIDE DEF known, new
<1>8. \E me \in UpmApp :
        /\ app' = [app EXCEPT ![u] = me]
        /\ me.secrets = app[u].secrets
        /\ me.directory = app[u].directory /\ me.conversation = app[u].conversation
        /\ \/ me.device = app[u].device /\ me.token = app[u].token
           \/ me.device = Len(accounts) + 1
        /\ accounts' \in Seq(Account) /\ Len(accounts') = Len(known)
        /\ \A d \in 1 .. Len(known) :
             /\ accounts'[d].identity = known[d].identity
             /\ accounts'[d].bundle \in {known[d].bundle, known[d].identity}
        /\ prekeys' \subseteq Prekey
        /\ Persisted(u, failed) \/ UNCHANGED kept
  <2>1. CASE "answer" \in failed
    <3>1. accounts' = known /\ UNCHANGED <<app, prekeys, kept>>
      BY <2>1 DEF Register, known
    <3>2. app' = [app EXCEPT ![u] = app[u]]
      BY <3>1 DEF TypeOK
    <3> QED BY <1>2, <1>6, <3>1, <3>2 DEF TypeOK
  <2>2. CASE "answer" \notin failed
    <3>1. Authenticate(u, new, known, failed) /\ Persisted(u, failed)
      BY <2>2 DEF Register, known, new
    <3>2. new.device \in 1 .. Len(known) /\ new.device \in Devices
      BY <1>2, <1>3, <1>7
    <3>3. /\ \E token \in BOOLEAN, visible \in BOOLEAN :
               app' = [app EXCEPT ![u] = [new EXCEPT !.token = token, !.visible = visible]]
          /\ accounts' \in Seq(Account) /\ Len(accounts') = Len(known)
          /\ \A d \in 1 .. Len(known) :
               /\ accounts'[d].identity = known[d].identity
               /\ accounts'[d].bundle \in {known[d].bundle, known[d].identity}
          /\ prekeys' \subseteq Prekey
      BY <1>2, <1>7, <3>1, <3>2, AuthenticateFacts
    <3>4. PICK token \in BOOLEAN, visible \in BOOLEAN :
            app' = [app EXCEPT ![u] = [new EXCEPT !.token = token, !.visible = visible]]
      BY <3>3
    <3> DEFINE me == [new EXCEPT !.token = token, !.visible = visible]
    <3>5. /\ me \in UpmApp /\ me.secrets = app[u].secrets /\ me.device = Len(accounts) + 1
          /\ me.directory = app[u].directory /\ me.conversation = app[u].conversation
      BY <1>7 DEF UpmApp
    <3>6. app' = [app EXCEPT ![u] = me]
      BY <3>4
    <3> HIDE DEF me
    <3> QED BY <3>1, <3>3, <3>5, <3>6
  <2> QED BY <2>1, <2>2
<1>9. PICK me \in UpmApp :
        /\ app' = [app EXCEPT ![u] = me]
        /\ me.secrets = app[u].secrets
        /\ me.directory = app[u].directory /\ me.conversation = app[u].conversation
        /\ \/ me.device = app[u].device /\ me.token = app[u].token
           \/ me.device = Len(accounts) + 1
        /\ accounts' \in Seq(Account) /\ Len(accounts') = Len(known)
        /\ \A d \in 1 .. Len(known) :
             /\ accounts'[d].identity = known[d].identity
             /\ accounts'[d].bundle \in {known[d].bundle, known[d].identity}
        /\ prekeys' \subseteq Prekey
        /\ Persisted(u, failed) \/ UNCHANGED kept
  BY <1>8
<1>10. app' \in [Users -> UpmApp] /\ app'[u] = me /\ \A v \in Users \ {u} : app'[v] = app[v]
  BY <1>9 DEF TypeOK
<1>11. /\ kept' \in [Users -> Secrets] /\ kept'[u] \in {app[u].secrets, kept[u]}
       /\ \A v \in Users \ {u} : kept'[v] = kept[v]
  BY <1>9, <1>10, SecretsFacts, PersistedFacts DEF TypeOK
<1>12. TypeOK'
  <2>1. Len(accounts') <= MaxAccounts
    BY <1>1, <1>2, <1>3, <1>9
  <2> QED BY <1>1, <1>5, <1>9, <1>10, <1>11, <2>1 DEF TypeOK
<1>13. Grows
  BY <1>1, <1>2, <1>3, <1>9, TypeFacts DEF Grows
<1>14. ServerOk'
  <2>1. \A d \in 1 .. Len(accounts') : accounts'[d].bundle \in {None, accounts'[d].identity}
    BY <1>4, <1>9
  <2>2. \A row \in queue' : row.id \in 1 .. Len(made') /\ row.from \in 1 .. Len(accounts')
    BY <1>1, <1>2, <1>3, <1>9 DEF ServerOk
  <2> QED BY <2>1, <2>2 DEF ServerOk
<1>15. ClientOk(u)'
  <2>1. Extends(pins[u], pins[u])
    BY DEF Extends
  <2>2. Len(accounts') = Len(accounts) + 1
    BY <1>2, <1>9
  <2>3. AppOk(u, app[u], Len(accounts'), pins[u])
    BY <1>3, <1>6, <2>1, <2>2, AppKept
  <2>4. me.device # None => me.device \in 1 .. Len(accounts')
    BY <1>3, <1>9, <2>2, <2>3 DEF AppOk
  <2>5. me.token => me.device # None
    <3>1. Len(accounts) + 1 # None
      BY <1>2, ContactsAssumption
    <3> QED BY <1>6, <1>9, <3>1 DEF AppOk
  <2>6. AppOk(u, me, Len(accounts'), pins[u])
    BY <1>9, <2>3, <2>4, <2>5 DEF AppOk
  <2>7. SecretsOk(u, kept'[u])
    BY <1>11, SecretsFacts
  <2> QED BY <1>1, <1>10, <2>6, <2>7 DEF ClientOk
<1> QED BY <1>1, <1>10, <1>11, <1>12, <1>13, <1>14, <1>15, StepOfOne

\* A range of one's prekeys is finite.
LEMMA PoolIsFinite ==
  ASSUME NEW u, NEW a \in Int, NEW b \in Int
  PROVE  IsFiniteSet({<<u, k>> : k \in a .. b})
<1> DEFINE f == [k \in a .. b |-> <<u, k>>]
           pool == {<<u, k>> : k \in a .. b}
<1>1. f \in [a .. b -> pool] /\ \A t \in pool : \E k \in a .. b : f[k] = t
  OBVIOUS
<1>2. f \in Surjection(a .. b, pool)
  BY <1>1 DEF Surjection
<1> QED BY <1>2, FS_Interval, FS_Surjection

\* New secrets are of their owner, and their pool is finite.
LEMMA GeneratedFacts ==
  ASSUME NEW u \in Users, NEW m \in Nat
  PROVE  /\ Generated(u, m) \in Secrets
         /\ SecretsOk(u, Generated(u, m))
<1> DEFINE pool == {<<u, k>> : k \in m + 2 .. m + 1 + PoolSize}
<1>1. PoolSize \in Nat
  BY ContactsAssumption
<1>2. m + 2 \in Int /\ m + 1 + PoolSize \in Int
  BY <1>1
<1>3. IsFiniteSet(pool)
  BY <1>2, PoolIsFinite
<1>4. pool \subseteq Key
  BY <1>1 DEF Key
<1>5. Generated(u, m) = [identity |-> <<u, m + 1>>, pool |-> pool]
  BY DEF Generated
<1>6. <<u, m + 1>> \in Key
  BY DEF Key
<1> HIDE DEF pool
<1> QED BY <1>3, <1>4, <1>5, <1>6 DEF Secrets, SecretsOk

LEMMA RestartStep ==
  ASSUME IInv, NEW u \in Users, NEW failed \in SUBSET (LoginCalls \cup {"secrets"}),
         Restart(u, failed)
  PROVE  IInv'
<1> USE DEF IInv
<1> DEFINE found == IF "secrets" \notin failed THEN kept[u] ELSE Generated(u, minted[u])
           started == [secrets |-> found, device |-> app[u].device, token |-> app[u].token,
                       visible |-> TRUE, directory |-> None, conversation |-> None]
<1>1. /\ Breaks /\ Fails(failed) /\ Persisted(u, failed)
      /\ minted' \in {minted, [minted EXCEPT ![u] = @ + 1 + PoolSize]}
      /\ UNCHANGED <<claimed, queue, made, pins, stored, outbox, processed, uncommitted>>
      /\ IF started.device # None
         THEN Authenticate(u, started, accounts, failed)
         ELSE app' = [app EXCEPT ![u] = started] /\ UNCHANGED <<accounts, prekeys>>
  BY DEF Restart, store
<1>2. app[u] \in UpmApp /\ AppOk(u, app[u], Len(accounts), pins[u])
  BY SecretsFacts
<1>3. minted[u] \in Nat /\ minted' \in [Users -> Nat]
  <2>1. minted \in [Users -> Nat] /\ PoolSize \in Nat
    BY ContactsAssumption DEF TypeOK
  <2>2. [minted EXCEPT ![u] = @ + 1 + PoolSize] \in [Users -> Nat]
    BY <2>1
  <2> QED BY <1>1, <2>1, <2>2
<1>4. found \in Secrets /\ SecretsOk(u, found)
  BY <1>3, SecretsFacts, GeneratedFacts
<1> HIDE DEF found
<1>5. /\ started \in UpmApp /\ started.secrets = found /\ started.device = app[u].device
      /\ started.token = app[u].token
      /\ started.directory = None /\ started.conversation = None
  BY <1>2, <1>4 DEF UpmApp
<1> HIDE DEF started
<1>6. accounts \in Seq(Account) /\ Len(accounts) \in Nat
  BY TypeFacts
<1>7. \E me \in UpmApp :
        /\ app' = [app EXCEPT ![u] = me]
        /\ me.secrets = found /\ me.device = app[u].device
        /\ me.token => me.device # None
        /\ me.directory = None /\ me.conversation = None
        /\ accounts' \in Seq(Account) /\ Len(accounts') = Len(accounts)
        /\ \A d \in 1 .. Len(accounts) :
             /\ accounts'[d].identity = accounts[d].identity
             /\ accounts'[d].bundle \in {accounts[d].bundle, accounts[d].identity}
        /\ prekeys' \subseteq Prekey
  <2>1. CASE app[u].device = None
    BY <1>1, <1>2, <1>5, <1>6, <2>1 DEF TypeOK, AppOk
  <2>2. CASE app[u].device # None
    <3>1. Authenticate(u, started, accounts, failed)
      BY <1>1, <1>5, <2>2
    <3>2. started.device \in 1 .. Len(accounts) /\ started.device \in Devices
      BY <1>2, <1>5, <2>2, TypeFacts DEF AppOk
    <3>3. /\ \E token \in BOOLEAN, visible \in BOOLEAN :
               app' = [app EXCEPT ![u] = [started EXCEPT !.token = token, !.visible = visible]]
          /\ accounts' \in Seq(Account) /\ Len(accounts') = Len(accounts)
          /\ \A d \in 1 .. Len(accounts) :
               /\ accounts'[d].identity = accounts[d].identity
               /\ accounts'[d].bundle \in {accounts[d].bundle, accounts[d].identity}
          /\ prekeys' \subseteq Prekey
      BY <1>5, <1>6, <3>1, <3>2, AuthenticateFacts
    <3>4. PICK token \in BOOLEAN, visible \in BOOLEAN :
            app' = [app EXCEPT ![u] = [started EXCEPT !.token = token, !.visible = visible]]
      BY <3>3
    <3> DEFINE me == [started EXCEPT !.token = token, !.visible = visible]
    <3>5. /\ me \in UpmApp /\ me.secrets = found /\ me.device = app[u].device
          /\ me.directory = None /\ me.conversation = None
      BY <1>5 DEF UpmApp
    <3>6. app' = [app EXCEPT ![u] = me]
      BY <3>4
    <3> HIDE DEF me
    <3> QED BY <2>2, <3>3, <3>5, <3>6
  <2> QED BY <2>1, <2>2
<1>8. PICK me \in UpmApp :
        /\ app' = [app EXCEPT ![u] = me]
        /\ me.secrets = found /\ me.device = app[u].device
        /\ me.token => me.device # None
        /\ me.directory = None /\ me.conversation = None
        /\ accounts' \in Seq(Account) /\ Len(accounts') = Len(accounts)
        /\ \A d \in 1 .. Len(accounts) :
             /\ accounts'[d].identity = accounts[d].identity
             /\ accounts'[d].bundle \in {accounts[d].bundle, accounts[d].identity}
        /\ prekeys' \subseteq Prekey
  BY <1>7
<1>9. app' \in [Users -> UpmApp] /\ app'[u] = me /\ \A v \in Users \ {u} : app'[v] = app[v]
  BY <1>8 DEF TypeOK
<1>10. /\ kept' \in [Users -> Secrets] /\ kept'[u] \in {found, kept[u]}
       /\ \A v \in Users \ {u} : kept'[v] = kept[v]
  BY <1>1, <1>4, <1>8, <1>9, PersistedFacts
<1>11. TypeOK'
  <2>1. failures' \in 0 .. MaxFailures /\ breaks' \in 0 .. MaxBreaks
    BY <1>1, FailuresType, BreaksType DEF Calls
  <2>2. Len(accounts') <= MaxAccounts
    BY <1>8 DEF TypeOK
  <2> QED BY <1>1, <1>3, <1>8, <1>9, <1>10, <2>1, <2>2 DEF TypeOK
<1>12. ServerOk'
  BY <1>1, <1>8 DEF ServerOk
<1>13. Grows
  BY <1>1, <1>8, TypeFacts DEF Grows
<1>14. ClientOk(u)'
  <2>1. AppOk(u, me, Len(accounts), pins[u])
    BY <1>2, <1>4, <1>8 DEF AppOk
  <2>2. SecretsOk(u, kept'[u])
    BY <1>4, <1>10, SecretsFacts
  <2> QED BY <1>1, <1>8, <1>9, <2>1, <2>2 DEF ClientOk
<1> QED BY <1>1, <1>9, <1>10, <1>11, <1>12, <1>13, <1>14, StepOfOne

\* A step that changes only the client of u and its pins.
LEMMA StepInMemory ==
  ASSUME IInv, NEW u \in Users, NEW me \in UpmApp, app' = [app EXCEPT ![u] = me],
         AppOk(u, me, Len(accounts), pins'[u]),
         pins' \in [Users -> [Devices -> Key \cup {None}]],
         Extends(pins[u], pins'[u]), \A v \in Users \ {u} : pins'[v] = pins[v],
         breaks' \in 0 .. MaxBreaks,
         UNCHANGED <<server, kept, minted, stored, outbox, processed, uncommitted, failures>>
  PROVE  IInv'
<1> USE DEF IInv
<1>1. /\ UNCHANGED <<accounts, prekeys, claimed, queue, made>>
      /\ UNCHANGED <<kept, minted, stored, outbox, processed, uncommitted, failures>>
  BY DEF server
<1>2. app' \in [Users -> UpmApp] /\ app'[u] = me /\ \A v \in Users \ {u} : app'[v] = app[v]
  BY DEF TypeOK
<1>3. TypeOK'
  BY <1>1, <1>2 DEF TypeOK
<1>4. ServerOk'
  BY <1>1 DEF ServerOk
<1>5. Grows
  BY <1>1, TypeFacts DEF Grows
<1>6. ClientOk(u)'
  <2>1. StoreOk(u, stored[u], pins'[u])
    BY StoreKept DEF TypeOK, ClientOk
  <2>2. OutboxOk(u, outbox[u], made, pins'[u])
    BY TypeFacts, OutboxKept DEF TypeOK, ClientOk
  <2>3. SecretsOk(u, kept[u])
    BY SecretsFacts
  <2> QED BY <1>1, <1>2, <2>1, <2>2, <2>3 DEF ClientOk
<1> QED BY <1>1, <1>2, <1>3, <1>4, <1>5, <1>6, StepOfOne

LEMMA LogoutStep ==
  ASSUME IInv, NEW u \in Users, Logout(u)
  PROVE  IInv'
<1> DEFINE me == [app[u] EXCEPT !.token = FALSE, !.directory = None, !.conversation = None]
<1>1. TypeOK /\ app[u] \in UpmApp /\ AppOk(u, app[u], Len(accounts), pins[u])
  BY SecretsFacts DEF IInv
<1>2. app' = [app EXCEPT ![u] = me]
  BY DEF Logout
<1>3. me \in UpmApp /\ AppOk(u, me, Len(accounts), pins[u])
  BY <1>1 DEF UpmApp, AppOk
<1> HIDE DEF me
<1>4. UNCHANGED <<server, kept, minted, pins, stored, outbox, processed, uncommitted, failures>>
  BY DEF Logout, store
<1>5. breaks' \in 0 .. MaxBreaks
  BY <1>1, BreaksType DEF Logout
<1>6. /\ pins' \in [Users -> [Devices -> Key \cup {None}]]
      /\ Extends(pins[u], pins'[u]) /\ \A v \in Users \ {u} : pins'[v] = pins[v]
  BY <1>1, <1>4 DEF TypeOK, Extends
<1> QED BY <1>2, <1>3, <1>4, <1>5, <1>6, StepInMemory

LEMMA SetVisibilityStep ==
  ASSUME IInv, NEW u \in Users, NEW failed \in SUBSET {"visibility"}, SetVisibility(u, failed)
  PROVE  IInv'
<1> USE DEF IInv
<1> DEFINE me == [app[u] EXCEPT !.visible = ~@]
           d == app[u].device
<1>1. /\ Breaks /\ app[u].token /\ Fails(failed)
      /\ app' = [app EXCEPT ![u] = me]
      /\ UNCHANGED <<prekeys, claimed, queue, made, kept, minted, pins, stored, outbox,
                     processed, uncommitted>>
  BY DEF SetVisibility, store
<1>2. app[u] \in UpmApp /\ AppOk(u, app[u], Len(accounts), pins[u])
  BY SecretsFacts
<1>3. me \in UpmApp /\ AppOk(u, me, Len(accounts), pins[u])
  BY <1>2 DEF UpmApp, AppOk
<1> HIDE DEF me
<1>4. accounts \in Seq(Account) /\ Len(accounts) \in Nat /\ d \in 1 .. Len(accounts)
  BY <1>1, <1>2, TypeFacts DEF AppOk
<1>5. /\ accounts' \in Seq(Account) /\ Len(accounts') = Len(accounts)
      /\ \A e \in 1 .. Len(accounts) :
           /\ accounts'[e].identity = accounts[e].identity
           /\ accounts'[e].bundle = accounts[e].bundle
  <2>1. CASE failed # {}
    BY <1>4, <2>1 DEF SetVisibility
  <2>2. CASE failed = {}
    <3> DEFINE a == [accounts[d] EXCEPT !.visible = ~app[u].visible]
    <3>1. accounts[d] \in Account
      BY <1>4, TypeFacts
    <3>2. /\ a \in Account /\ a.identity = accounts[d].identity
          /\ a.bundle = accounts[d].bundle
      BY <1>2, <3>1 DEF Account, UpmApp
    <3>3. accounts' = [accounts EXCEPT ![d] = a]
      BY <2>2 DEF SetVisibility
    <3> HIDE DEF a, d
    <3>4. /\ accounts' \in Seq(Account) /\ Len(accounts') = Len(accounts)
          /\ \A e \in 1 .. Len(accounts) : accounts'[e] = IF e = d THEN a ELSE accounts[e]
      BY <1>4, <3>2, <3>3, AccountsUpdated
    <3> QED BY <3>2, <3>4
  <2> QED BY <2>1, <2>2
<1>6. app' \in [Users -> UpmApp] /\ app'[u] = me /\ \A v \in Users \ {u} : app'[v] = app[v]
  BY <1>1, <1>3 DEF TypeOK
<1>7. TypeOK'
  <2>1. failures' \in 0 .. MaxFailures /\ breaks' \in 0 .. MaxBreaks
    <3>1. failed \in SUBSET Calls
      BY DEF Calls, LoginCalls
    <3> QED BY <1>1, <3>1, FailuresType, BreaksType
  <2>2. Len(accounts') <= MaxAccounts
    BY <1>5 DEF TypeOK
  <2> QED BY <1>1, <1>5, <1>6, <2>1, <2>2 DEF TypeOK
<1>8. ServerOk'
  BY <1>1, <1>5 DEF ServerOk
<1>9. Grows
  BY <1>1, <1>5, TypeFacts DEF Grows
<1>10. ClientOk(u)'
  BY <1>1, <1>3, <1>5, <1>6 DEF ClientOk
<1> QED BY <1>1, <1>6, <1>7, <1>8, <1>9, <1>10, StepOfOne

-----------------------------------------------------------------------------
(* Contacts.                                                               *)

\* The conversation a pinned entry opens.
LEMMA OpeningFacts ==
  ASSUME TypeOK, NEW u \in Users, StoreOk(u, stored[u], pins[u]),
         NEW entry \in Entry, NEW n, NEW pin, EntryOk(entry, n, pin), Extends(pins[u], pin)
  PROVE  /\ Opening(u, entry) \in Conversation
         /\ ConversationOk(u, Opening(u, entry), n, pin)
<1>1. entry.device \in Devices
  BY DEF Entry
<1>2. stored[u] \in [Devices -> Session \cup {None}]
  BY DEF TypeOK
<1>3. Opening(u, entry) \in Conversation /\ Opening(u, entry).peer = entry
      /\ Opening(u, entry).session = stored[u][entry.device]
  BY <1>1, <1>2 DEF Opening, Conversation
<1>4. StoreOk(u, stored[u], pin)
  BY <1>2, StoreKept
<1> QED BY <1>1, <1>3, <1>4 DEF ConversationOk, StoreOk

LEMMA ResolveStep ==
  ASSUME IInv, NEW u \in Users, NEW d \in Devices, Resolve(u, d)
  PROVE  IInv'
<1> USE DEF IInv
<1> DEFINE entry == [device |-> d, identity |-> accounts[d].identity]
           me == [app[u] EXCEPT !.directory = entry, !.conversation = Opening(u, entry)]
<1>1. /\ d \in Resolved /\ MayPin(u, d, entry.identity)
      /\ pins' = Pinned(u, d, entry.identity)
      /\ app' = [app EXCEPT ![u] = me]
      /\ UNCHANGED <<server, kept, minted, stored, outbox, processed, uncommitted, failures>>
      /\ UNCHANGED breaks
  BY DEF Resolve
<1>2. app[u] \in UpmApp /\ AppOk(u, app[u], Len(accounts), pins[u]) /\ ClientOk(u)
  BY SecretsFacts
<1>3. d \in 1 .. Len(accounts) /\ accounts[d] \in Account
  BY <1>1, TypeFacts DEF Resolved
<1>4. entry \in Entry /\ entry.device = d /\ entry.identity \in Key
  BY <1>3 DEF Entry, Account
<1> HIDE DEF entry
<1>5. /\ pins' \in [Users -> [Devices -> Key \cup {None}]]
      /\ Extends(pins[u], pins'[u]) /\ pins'[u][d] = entry.identity
      /\ \A v \in Users \ {u} : pins'[v] = pins[v]
  BY <1>1, <1>4, PinnedFacts
<1>6. EntryOk(entry, Len(accounts), pins'[u])
  BY <1>3, <1>4, <1>5 DEF EntryOk
<1>7. /\ Opening(u, entry) \in Conversation
      /\ ConversationOk(u, Opening(u, entry), Len(accounts), pins'[u])
  BY <1>2, <1>4, <1>5, <1>6, OpeningFacts DEF ClientOk
<1>8. me \in UpmApp
  BY <1>2, <1>4, <1>7 DEF UpmApp
<1>9. AppOk(u, me, Len(accounts), pins'[u])
  BY <1>2, <1>6, <1>7 DEF AppOk, UpmApp
<1>10. breaks' \in 0 .. MaxBreaks
  BY <1>1 DEF TypeOK
<1> HIDE DEF me
<1> QED BY <1>1, <1>5, <1>8, <1>9, <1>10, StepInMemory

-----------------------------------------------------------------------------
(* Sending.                                                                *)

\* The conversation a message is sent in.
LEMMA EnsuredFacts ==
  ASSUME IInv, NEW u \in Users, app[u].directory # None
  PROVE  /\ Ensured(u) \in Conversation
         /\ ConversationOk(u, Ensured(u), Len(accounts), pins[u])
<1> USE DEF IInv
<1>1. app[u] \in UpmApp /\ AppOk(u, app[u], Len(accounts), pins[u]) /\ ClientOk(u)
  BY SecretsFacts
<1>2. app[u].directory \in Entry /\ app[u].conversation \in Conversation \cup {None}
  BY <1>1 DEF UpmApp
<1>3. Extends(pins[u], pins[u])
  BY DEF Extends
<1>4. /\ Opening(u, app[u].directory) \in Conversation
      /\ ConversationOk(u, Opening(u, app[u].directory), Len(accounts), pins[u])
  BY <1>1, <1>2, <1>3, OpeningFacts DEF AppOk, ClientOk
<1> QED BY <1>1, <1>2, <1>4 DEF Ensured, AppOk

\* commit_outgoing_delivery stores a session with the recipient's pin.
LEMMA CommitOutgoingFacts ==
  ASSUME TypeOK, NEW u \in Users, NEW item \in OutboxItem, made'[item.id].to \in Devices,
         StoreOk(u, stored[u], pins[u]),
         Peers(u, item.after, pins[u][made'[item.id].to]),
         CommitOutgoing(u, item)
  PROVE  /\ stored' \in [Users -> [Devices -> Session \cup {None}]]
         /\ StoreOk(u, stored'[u], pins[u])
         /\ outbox' \in [Users -> SUBSET OutboxItem]
         /\ outbox'[u] \subseteq outbox[u]
         /\ \A v \in Users \ {u} : stored'[v] = stored[v] /\ outbox'[v] = outbox[v]
<1> DEFINE d == made'[item.id].to
<1>1. item.after \in Session
  BY DEF OutboxItem
<1>2. stored \in [Users -> [Devices -> Session \cup {None}]]
      /\ outbox \in [Users -> SUBSET OutboxItem]
  BY DEF TypeOK
<1>3. stored' = [stored EXCEPT ![u] = [stored[u] EXCEPT ![d] = item.after]]
  BY <1>2 DEF CommitOutgoing
<1>4. outbox' = [outbox EXCEPT ![u] = {i \in outbox[u] : i.id # item.id}]
  BY <1>2 DEF CommitOutgoing
<1>5. /\ stored' \in [Users -> [Devices -> Session \cup {None}]]
      /\ stored'[u] = [stored[u] EXCEPT ![d] = item.after]
      /\ \A v \in Users \ {u} : stored'[v] = stored[v]
  BY <1>1, <1>2, <1>3
<1>6. /\ outbox' \in [Users -> SUBSET OutboxItem] /\ outbox'[u] \subseteq outbox[u]
      /\ \A v \in Users \ {u} : outbox'[v] = outbox[v]
  BY <1>2, <1>4
<1>7. StoreOk(u, stored'[u], pins[u])
  <2> SUFFICES ASSUME NEW e \in Devices, stored'[u][e] # None
               PROVE  Peers(u, stored'[u][e], pins[u][e])
    BY DEF StoreOk
  <2>1. CASE e = d
    BY <1>2, <1>5, <2>1
  <2>2. CASE e # d
    BY <1>2, <1>5, <2>2 DEF StoreOk
  <2> QED BY <2>1, <2>2
<1> QED BY <1>5, <1>6, <1>7

\* A step that may make an envelope, queue one, and commit it.
LEMMA StepOfSender ==
  ASSUME IInv, NEW u \in Users, NEW me \in UpmApp, app' = [app EXCEPT ![u] = me],
         AppOk(u, me, Len(accounts), pins[u]),
         made' \in Seq(Envelope), Len(made') <= MaxMade, Len(made) <= Len(made'),
         \A i \in 1 .. Len(made) : made'[i] = made[i],
         queue' \subseteq Row,
         \A row \in queue' : row.id \in 1 .. Len(made') /\ row.from \in 1 .. Len(accounts),
         claimed' \subseteq Key,
         stored' \in [Users -> [Devices -> Session \cup {None}]],
         StoreOk(u, stored'[u], pins[u]),
         outbox' \in [Users -> SUBSET OutboxItem],
         OutboxOk(u, outbox'[u], made', pins[u]),
         \A v \in Users \ {u} : stored'[v] = stored[v] /\ outbox'[v] = outbox[v],
         failures' \in 0 .. MaxFailures,
         UNCHANGED <<accounts, prekeys, kept, minted, pins, processed, uncommitted, breaks>>
  PROVE  IInv'
<1> USE DEF IInv
<1>1. app' \in [Users -> UpmApp] /\ app'[u] = me /\ \A v \in Users \ {u} : app'[v] = app[v]
  BY DEF TypeOK
<1>2. TypeOK'
  BY <1>1 DEF TypeOK
<1>3. ServerOk'
  BY DEF ServerOk
<1>4. Grows
  BY TypeFacts DEF Grows
<1>5. SecretsOk(u, kept[u])
  BY SecretsFacts
<1>6. ClientOk(u)'
  BY <1>1, <1>5 DEF ClientOk
<1> QED BY <1>1, <1>2, <1>3, <1>4, <1>6, StepOfOne

LEMMA SendPayloadStep ==
  ASSUME IInv, NEW u \in Users, app[u].token, app[u].directory # None,
         NEW c \in Conversation, ConversationOk(u, c, Len(accounts), pins[u]),
         NEW boot \in Bootstrap \cup {None},
         NEW s \in Session, Peers(u, s, pins[u][c.peer.device]),
         Len(made) < MaxMade, NEW failed \in SUBSET Calls, Fails(failed),
         SendPayload(u, c, boot, s, failed), claimed' \subseteq Key,
         UNCHANGED <<accounts, prekeys, kept, minted, pins, processed, uncommitted, breaks>>
  PROVE  IInv'
<1> USE DEF IInv
<1> DEFINE id == Len(made) + 1
           item == [id |-> id, after |-> AfterSealing(s)]
           row == [id |-> id, from |-> app[u].device]
           e == [to |-> c.peer.device, boot |-> boot, key |-> SealedBy(s)]
           c2 == IF failed \cap {"send", "answer"} = {}
                 THEN [c EXCEPT !.session = item.after] ELSE c
           me == [app[u] EXCEPT !.conversation = c2]
<1>1. /\ made' = Append(made, e)
      /\ queue' \in {queue, queue \cup {row}}
      /\ app' = [app EXCEPT ![u] = me]
      /\ \/ CommitOutgoing(u, item)
         \/ outbox' = [outbox EXCEPT ![u] = @ \cup {item}] /\ UNCHANGED stored
  BY DEF SendPayload
<1>2. app[u] \in UpmApp /\ AppOk(u, app[u], Len(accounts), pins[u]) /\ ClientOk(u)
  BY SecretsFacts
<1>3. c.peer \in Entry /\ c.peer.device \in Devices /\ c.session \in Session \cup {None}
  BY DEF Conversation, Entry
<1>4. AfterSealing(s) \in Session /\ Peers(u, AfterSealing(s), pins[u][c.peer.device])
  BY SealingKeepsParties DEF Peers
<1>5. made \in Seq(Envelope) /\ Len(made) \in Nat /\ MaxMade \in Nat
  BY TypeFacts, ContactsAssumption
<1>6. e \in Envelope /\ e.to = c.peer.device
  BY <1>3, SealedIsMessageKey DEF Envelope
<1>7. id \in Ids /\ id \in Nat
  BY <1>5 DEF Ids
<1>8. app[u].device \in Devices /\ app[u].device \in 1 .. Len(accounts)
  BY <1>2, TypeFacts DEF AppOk
<1>9. item \in OutboxItem /\ item.id = id /\ item.after = AfterSealing(s)
  BY <1>4, <1>7 DEF OutboxItem
<1>10. row \in Row /\ row.id = id /\ row.from = app[u].device
  BY <1>7, <1>8 DEF Row
<1>11. c2 \in Conversation /\ ConversationOk(u, c2, Len(accounts), pins[u])
  <2>1. CASE c2 = c
    BY <2>1
  <2>2. CASE c2 = [c EXCEPT !.session = item.after]
    <3>1. c2 \in Conversation /\ c2.peer = c.peer /\ c2.session = item.after
      BY <1>3, <1>4, <1>9, <2>2 DEF Conversation
    <3> HIDE DEF c2, item
    <3> QED BY <1>4, <1>9, <3>1 DEF ConversationOk
  <2> QED BY <2>1, <2>2
<1> HIDE DEF c2
<1>12. me \in UpmApp /\ AppOk(u, me, Len(accounts), pins[u])
  BY <1>2, <1>11 DEF UpmApp, AppOk
<1> HIDE DEF me, e, row, item
<1>13. /\ made' \in Seq(Envelope) /\ Len(made') = id
       /\ \A i \in 1 .. Len(made) : made'[i] = made[i]
       /\ made'[id] = e
  BY <1>1, <1>5, <1>6
<1>14. Len(made') <= MaxMade /\ Len(made) <= Len(made')
  BY <1>5, <1>13
<1>15. queue' \subseteq Row
  BY <1>1, <1>10 DEF TypeOK
<1>16. \A r \in queue' : r.id \in 1 .. Len(made') /\ r.from \in 1 .. Len(accounts)
  <2> SUFFICES ASSUME NEW r \in queue'
               PROVE  r.id \in 1 .. Len(made') /\ r.from \in 1 .. Len(accounts)
    OBVIOUS
  <2>1. CASE r \in queue
    BY <1>5, <1>13, <2>1 DEF ServerOk
  <2>2. CASE r = row
    BY <1>5, <1>8, <1>10, <1>13, <2>2
  <2> QED BY <1>1, <2>1, <2>2
<1>17. failures' \in 0 .. MaxFailures
  BY FailuresType
<1>18. /\ item.id \in 1 .. Len(made') /\ made'[item.id].to \in Devices
       /\ Peers(u, item.after, pins[u][made'[item.id].to])
  BY <1>3, <1>4, <1>5, <1>6, <1>9, <1>13
<1>19. OutboxOk(u, outbox[u], made', pins[u])
  <2>1. Extends(pins[u], pins[u])
    BY DEF Extends
  <2>2. outbox[u] \in SUBSET OutboxItem
    BY DEF TypeOK
  <2> QED BY <1>2, <1>5, <1>13, <1>14, <2>1, <2>2, OutboxKept DEF ClientOk
<1>20. /\ stored' \in [Users -> [Devices -> Session \cup {None}]]
       /\ StoreOk(u, stored'[u], pins[u])
       /\ outbox' \in [Users -> SUBSET OutboxItem]
       /\ OutboxOk(u, outbox'[u], made', pins[u])
       /\ \A v \in Users \ {u} : stored'[v] = stored[v] /\ outbox'[v] = outbox[v]
  <2>1. CASE CommitOutgoing(u, item)
    <3>1. /\ stored' \in [Users -> [Devices -> Session \cup {None}]]
          /\ StoreOk(u, stored'[u], pins[u])
          /\ outbox' \in [Users -> SUBSET OutboxItem]
          /\ outbox'[u] \subseteq outbox[u]
          /\ \A v \in Users \ {u} : stored'[v] = stored[v] /\ outbox'[v] = outbox[v]
      BY <1>2, <1>9, <1>18, <2>1, CommitOutgoingFacts DEF ClientOk
    <3> QED BY <1>19, <3>1 DEF OutboxOk
  <2>2. CASE outbox' = [outbox EXCEPT ![u] = @ \cup {item}] /\ UNCHANGED stored
    <3>1. outbox' \in [Users -> SUBSET OutboxItem] /\ outbox'[u] = outbox[u] \cup {item}
          /\ \A v \in Users \ {u} : outbox'[v] = outbox[v]
      BY <1>9, <2>2 DEF TypeOK
    <3>2. OutboxOk(u, outbox'[u], made', pins[u])
      BY <1>18, <1>19, <3>1 DEF OutboxOk
    <3> QED BY <1>2, <2>2, <3>1, <3>2 DEF ClientOk, TypeOK
  <2> QED BY <1>1, <2>1, <2>2
<1> QED BY <1>1, <1>12, <1>13, <1>14, <1>15, <1>16, <1>17, <1>20, StepOfSender

LEMMA SendNextStep ==
  ASSUME IInv, NEW u \in Users, NEW failed \in SUBSET Calls, SendNext(u, failed)
  PROVE  IInv'
<1> DEFINE c == Ensured(u)
<1>1. /\ app[u].token /\ app[u].directory # None /\ Len(made) < MaxMade /\ Fails(failed)
      /\ c.session # None
      /\ SendPayload(u, c, None, c.session, failed)
      /\ UNCHANGED <<accounts, prekeys, claimed, kept, minted, pins, processed,
                     uncommitted, breaks>>
  BY DEF SendNext, MaySend
<1>2. c \in Conversation /\ ConversationOk(u, c, Len(accounts), pins[u])
  BY <1>1, EnsuredFacts
<1> HIDE DEF c
<1>3. c.session \in Session /\ Peers(u, c.session, pins[u][c.peer.device])
  BY <1>1, <1>2 DEF Conversation, ConversationOk
<1>4. claimed' \subseteq Key
  BY <1>1 DEF IInv, TypeOK
<1> QED BY <1>1, <1>2, <1>3, <1>4, SendPayloadStep

\* A client that only shows another conversation, when a prekey may be claimed.
LEMMA ShowsStep ==
  ASSUME IInv, NEW u \in Users, NEW c \in Conversation,
         ConversationOk(u, c, Len(accounts), pins[u]),
         app' = [app EXCEPT ![u].conversation = c],
         claimed' \subseteq Key, failures' \in 0 .. MaxFailures,
         UNCHANGED <<accounts, prekeys, queue, made, kept, minted, store, uncommitted, breaks>>
  PROVE  IInv'
<1> USE DEF IInv
<1> DEFINE me == [app[u] EXCEPT !.conversation = c]
<1>1. app[u] \in UpmApp /\ AppOk(u, app[u], Len(accounts), pins[u]) /\ ClientOk(u)
  BY SecretsFacts
<1>2. me \in UpmApp /\ AppOk(u, me, Len(accounts), pins[u])
  BY <1>1 DEF UpmApp, AppOk
<1>3. app' = [app EXCEPT ![u] = me]
  OBVIOUS
<1> HIDE DEF me
<1>4. UNCHANGED <<accounts, prekeys, queue, made, kept, minted, pins, stored, outbox,
                  processed, uncommitted, breaks>>
  BY DEF store
<1>5. /\ made \in Seq(Envelope) /\ Len(made) <= MaxMade /\ Len(made) \in Nat
      /\ queue \subseteq Row
      /\ stored \in [Users -> [Devices -> Session \cup {None}]]
      /\ outbox \in [Users -> SUBSET OutboxItem]
  BY TypeFacts DEF TypeOK
<1>6. \A row \in queue : row.id \in 1 .. Len(made) /\ row.from \in 1 .. Len(accounts)
  BY DEF ServerOk
<1>7. StoreOk(u, stored[u], pins[u]) /\ OutboxOk(u, outbox[u], made, pins[u])
  BY <1>1 DEF ClientOk
<1>8. /\ made' \in Seq(Envelope) /\ Len(made') <= MaxMade /\ Len(made) <= Len(made')
      /\ \A i \in 1 .. Len(made) : made'[i] = made[i]
      /\ queue' \subseteq Row
      /\ \A row \in queue' : row.id \in 1 .. Len(made') /\ row.from \in 1 .. Len(accounts)
      /\ stored' \in [Users -> [Devices -> Session \cup {None}]]
      /\ StoreOk(u, stored'[u], pins[u])
      /\ outbox' \in [Users -> SUBSET OutboxItem]
      /\ OutboxOk(u, outbox'[u], made', pins[u])
      /\ \A v \in Users \ {u} : stored'[v] = stored[v] /\ outbox'[v] = outbox[v]
  BY <1>4, <1>5, <1>6, <1>7
<1> QED BY <1>2, <1>3, <1>4, <1>8, StepOfSender

LEMMA SendFirstStep ==
  ASSUME IInv, NEW u \in Users, NEW k \in Key \cup {None}, NEW failed \in SUBSET Calls,
         SendFirst(u, k, failed)
  PROVE  IInv'
<1> USE DEF IInv
<1> DEFINE c == Ensured(u)
           d == c.peer.device
           theirs == accounts[d].bundle
           mine == app[u].secrets.identity
           boot == [identity |-> mine, ephemeral |-> Ephemeral(u), prekey |-> k]
           s == NewSession(Initiate(mine, theirs, Ephemeral(u), k), "initiator")
<1>1. /\ app[u].token /\ app[u].directory # None /\ Len(made) < MaxMade /\ Fails(failed)
      /\ theirs # None /\ accounts[d].identity = c.peer.identity
      /\ claimed' = claimed \cup ({k} \ {None})
      /\ IF "claim" \in failed
         THEN /\ app' = [app EXCEPT ![u].conversation = c]
              /\ UNCHANGED <<queue, made, stored, outbox>>
         ELSE SendPayload(u, c, boot, s, failed)
      /\ UNCHANGED <<accounts, prekeys, kept, minted, pins, processed, uncommitted, breaks>>
  BY DEF SendFirst, MaySend, SameIdentity
<1>2. c \in Conversation /\ ConversationOk(u, c, Len(accounts), pins[u])
  BY <1>1, EnsuredFacts
<1>3. d \in 1 .. Len(accounts) /\ pins[u][d] = c.peer.identity
  BY <1>2 DEF ConversationOk, EntryOk
<1>4. theirs \in Key /\ theirs = pins[u][d]
  <2>1. accounts[d] \in Account /\ theirs \in {None, accounts[d].identity}
    BY <1>3, TypeFacts DEF ServerOk
  <2> QED BY <1>1, <1>3, <2>1 DEF Account
<1>5. mine \in Key /\ mine[1] = u
  BY SecretsFacts DEF Secrets, SecretsOk
<1>6. Ephemeral(u) = <<"ephemeral", <<u, Len(made) + 1>>>> /\ <<u, Len(made) + 1>> \in Key
  BY TypeFacts DEF Ephemeral, Key
<1>7. boot \in Bootstrap
  BY <1>5, <1>6 DEF Bootstrap
<1>8. s \in Session
  BY <1>4, <1>5, <1>6, InitiateType
<1>9. Peers(u, s, pins[u][d])
  BY <1>4, <1>5, <1>6, InitiateParties DEF Peers
<1>10. claimed' \subseteq Key
  BY <1>1 DEF TypeOK
<1> HIDE DEF c, boot, s
<1>11. CASE "claim" \in failed
  <2>1. failures' \in 0 .. MaxFailures
    BY <1>1, FailuresType
  <2>2. UNCHANGED <<accounts, prekeys, queue, made, kept, minted, store, uncommitted, breaks>>
    BY <1>1, <1>11 DEF store
  <2> QED BY <1>1, <1>2, <1>10, <1>11, <2>1, <2>2, ShowsStep
<1>12. CASE "claim" \notin failed
  BY <1>1, <1>2, <1>7, <1>8, <1>9, <1>10, <1>12, SendPayloadStep
<1> QED BY <1>11, <1>12

LEMMA SendRefusedStep ==
  ASSUME IInv, NEW u \in Users, NEW failed \in SUBSET Calls, SendRefused(u, failed)
  PROVE  IInv'
<1>1. /\ app[u].directory # None /\ Fails(failed)
      /\ app' = [app EXCEPT ![u].conversation = Ensured(u)]
      /\ UNCHANGED <<accounts, prekeys, claimed, queue, made, kept, minted, store,
                     uncommitted, breaks>>
  BY DEF SendRefused, MaySend, server
<1>2. Ensured(u) \in Conversation /\ ConversationOk(u, Ensured(u), Len(accounts), pins[u])
  BY <1>1, EnsuredFacts
<1>3. failures' \in 0 .. MaxFailures
  BY <1>1, FailuresType DEF IInv
<1>4. claimed' \subseteq Key
  BY <1>1 DEF IInv, TypeOK
<1> QED BY <1>1, <1>2, <1>3, <1>4, ShowsStep

LEMMA RetryStep ==
  ASSUME IInv, NEW u \in Users, NEW item \in outbox[u], NEW failed \in SUBSET {"answer"},
         Retry(u, item, failed)
  PROVE  IInv'
<1> USE DEF IInv
<1> DEFINE row == [id |-> item.id, from |-> app[u].device]
<1>1. /\ app[u].token /\ Fails(failed) /\ queue' = queue \cup {row}
      /\ CommitOutgoing(u, item) \/ UNCHANGED <<stored, outbox>>
      /\ UNCHANGED <<accounts, prekeys, claimed, made, app, kept, minted, pins, processed,
                     uncommitted, breaks>>
  BY DEF Retry
<1>2. app[u] \in UpmApp /\ AppOk(u, app[u], Len(accounts), pins[u]) /\ ClientOk(u)
  BY SecretsFacts
<1>3. /\ made \in Seq(Envelope) /\ Len(made) <= MaxMade /\ Len(made) \in Nat
      /\ stored \in [Users -> [Devices -> Session \cup {None}]]
      /\ outbox \in [Users -> SUBSET OutboxItem] /\ item \in OutboxItem
  BY TypeFacts DEF TypeOK
<1>4. item.id \in 1 .. Len(made) /\ Peers(u, item.after, pins[u][made[item.id].to])
  BY <1>2 DEF ClientOk, OutboxOk
<1>5. made[item.id].to \in Devices /\ item.id \in Ids
  BY <1>4, TypeFacts DEF Envelope
<1>6. app[u].device \in Devices /\ app[u].device \in 1 .. Len(accounts)
  BY <1>1, <1>2, TypeFacts DEF AppOk
<1>7. queue' \subseteq Row
  BY <1>1, <1>5, <1>6 DEF Row, TypeOK
<1>8. \A r \in queue' : r.id \in 1 .. Len(made) /\ r.from \in 1 .. Len(accounts)
  BY <1>1, <1>4, <1>6 DEF ServerOk
<1>9. /\ stored' \in [Users -> [Devices -> Session \cup {None}]]
      /\ StoreOk(u, stored'[u], pins[u])
      /\ outbox' \in [Users -> SUBSET OutboxItem]
      /\ outbox'[u] \subseteq outbox[u]
      /\ \A v \in Users \ {u} : stored'[v] = stored[v] /\ outbox'[v] = outbox[v]
  <2>1. CASE CommitOutgoing(u, item)
    BY <1>1, <1>2, <1>3, <1>4, <1>5, <2>1, CommitOutgoingFacts DEF ClientOk
  <2>2. CASE UNCHANGED <<stored, outbox>>
    BY <1>2, <1>3, <2>2 DEF ClientOk
  <2> QED BY <1>1, <2>1, <2>2
<1>10. OutboxOk(u, outbox'[u], made, pins[u])
  BY <1>2, <1>9 DEF ClientOk, OutboxOk
<1>11. failures' \in 0 .. MaxFailures
  <2>1. failed \in SUBSET Calls
    BY DEF Calls
  <2> QED BY <1>1, <2>1, FailuresType
<1>12. app' = [app EXCEPT ![u] = app[u]] /\ claimed' \subseteq Key
  BY <1>1 DEF TypeOK
<1>13. /\ made' \in Seq(Envelope) /\ Len(made') <= MaxMade /\ Len(made) <= Len(made')
       /\ \A i \in 1 .. Len(made) : made'[i] = made[i]
       /\ \A r \in queue' : r.id \in 1 .. Len(made') /\ r.from \in 1 .. Len(accounts)
       /\ OutboxOk(u, outbox'[u], made', pins[u])
  BY <1>1, <1>3, <1>8, <1>10
<1> HIDE DEF row
<1> QED BY <1>1, <1>2, <1>7, <1>9, <1>11, <1>12, <1>13, StepOfSender

-----------------------------------------------------------------------------
(* poll.                                                                   *)

\* The envelope of a queued row, for the client it is pulled by.
LEMMA PulledFacts ==
  ASSUME IInv, NEW u \in Users, NEW row, Pulled(u, row)
  PROVE  /\ row \in Row /\ row.id \in 1 .. Len(made) /\ row.from \in Devices
         /\ row.from \in 1 .. Len(accounts)
         /\ made[row.id] \in Envelope
         /\ made[row.id].boot \in Bootstrap \cup {None} /\ made[row.id].key \in MessageKey
<1>1. row \in Row /\ row.id \in 1 .. Len(made) /\ row.from \in 1 .. Len(accounts)
  BY DEF IInv, TypeOK, ServerOk, Pulled
<1>2. made[row.id] \in Envelope
  BY <1>1, TypeFacts DEF IInv
<1>3. row.from \in Devices
  BY <1>1 DEF Row
<1> QED BY <1>1, <1>2, <1>3 DEF Envelope

LEMMA SkipProcessedStep ==
  ASSUME IInv, NEW u \in Users, NEW row, SkipProcessed(u, row)
  PROVE  IInv'
<1> USE DEF IInv
<1>1. /\ queue' \subseteq queue
      /\ UNCHANGED <<accounts, prekeys, claimed, made, app, kept, minted, pins, stored, outbox,
                     processed, uncommitted, failures, breaks>>
  BY DEF SkipProcessed, store
<1>2. TypeOK' /\ ServerOk'
  BY <1>1 DEF TypeOK, ServerOk
<1>3. Grows
  BY <1>1, TypeFacts DEF Grows
<1>4. ClientOk(u)'
  BY <1>1 DEF ClientOk
<1> QED BY <1>1, <1>2, <1>3, <1>4, StepOfOne

\* The entry of an acceptable sender is the pinned one.
LEMMA EntryOfFacts ==
  ASSUME IInv, NEW u \in Users, NEW row, Pulled(u, row), Acceptable(u, row)
  PROVE  LET i == made[row.id].boot.identity
         IN  /\ EntryOf(u, row) \in Entry
             /\ EntryOf(u, row).device = row.from /\ EntryOf(u, row).identity = i
             /\ made[row.id].boot \in Bootstrap /\ i \in Key
<1> DEFINE i == made[row.id].boot.identity
           here == app[u].directory # None /\ app[u].directory.device = row.from
<1>1. /\ made[row.id].boot \in Bootstrap /\ MayPin(u, row.from, i)
      /\ row.from \in Devices
  BY PulledFacts DEF Acceptable
<1>2. i \in Key
  BY <1>1 DEF Bootstrap
<1>3. CASE here
  <2>1. EntryOf(u, row) = app[u].directory
    BY <1>3 DEF EntryOf
  <2>2. app[u].directory \in Entry /\ EntryOk(app[u].directory, Len(accounts), pins[u])
    BY <1>3, SecretsFacts DEF UpmApp, AppOk
  <2>3. app[u].directory.identity = pins[u][row.from] /\ app[u].directory.identity \in Key
    BY <1>3, <2>2 DEF EntryOk, Entry
  <2>4. app[u].directory.identity = i
    BY <1>1, <2>3, ContactsAssumption DEF MayPin
  <2> QED BY <1>1, <1>2, <1>3, <2>1, <2>2, <2>4
<1>4. CASE ~here
  <2>1. EntryOf(u, row) = [device |-> row.from, identity |-> i]
    BY <1>4 DEF EntryOf
  <2> QED BY <1>1, <1>2, <2>1 DEF Entry
<1> QED BY <1>3, <1>4

LEMMA RefuseBootstrapStep ==
  ASSUME IInv, NEW u \in Users, NEW row, NEW damaged, RefuseBootstrap(u, row, damaged)
  PROVE  IInv'
<1> DEFINE i == made[row.id].boot.identity
           entry == EntryOf(u, row)
           me == [app[u] EXCEPT !.directory = entry]
<1>1. /\ Pulled(u, row) /\ Acceptable(u, row) /\ MayPin(u, row.from, i)
      /\ pins' = Pinned(u, row.from, i)
      /\ app' = [app EXCEPT ![u] = me]
      /\ UNCHANGED <<server, kept, minted, stored, outbox, processed, uncommitted, failures>>
      /\ UNCHANGED breaks
  BY DEF RefuseBootstrap, Acceptable
<1>2. /\ entry \in Entry /\ entry.device = row.from /\ entry.identity = i
      /\ i \in Key /\ row.from \in Devices /\ row.from \in 1 .. Len(accounts)
  BY <1>1, EntryOfFacts, PulledFacts
<1> HIDE DEF entry, i
<1>3. /\ pins' \in [Users -> [Devices -> Key \cup {None}]]
      /\ Extends(pins[u], pins'[u]) /\ pins'[u][row.from] = i
      /\ \A v \in Users \ {u} : pins'[v] = pins[v]
  BY <1>1, <1>2, PinnedFacts DEF IInv
<1>4. EntryOk(entry, Len(accounts), pins'[u])
  BY <1>2, <1>3 DEF EntryOk
<1>5. app[u] \in UpmApp /\ AppOk(u, app[u], Len(accounts), pins'[u])
  BY <1>3, SecretsFacts, TypeFacts, AppKept DEF IInv
<1>6. me \in UpmApp /\ AppOk(u, me, Len(accounts), pins'[u])
  BY <1>2, <1>4, <1>5 DEF UpmApp, AppOk
<1>7. breaks' \in 0 .. MaxBreaks
  BY <1>1 DEF IInv, TypeOK
<1> HIDE DEF me
<1> QED BY <1>1, <1>3, <1>6, <1>7, StepInMemory

\* The responder's session is with the identity of the bootstrap.
LEMMA ResponderFacts ==
  ASSUME IInv, NEW u \in Users, NEW boot \in Bootstrap
  PROVE  Responder(u, boot) \in Session /\ Peers(u, Responder(u, boot), boot.identity)
<1> DEFINE mine == app[u].secrets.identity
           found == IF boot.prekey \in app[u].secrets.pool THEN boot.prekey ELSE None
           b == [boot EXCEPT !.prekey = found]
<1>1. mine \in Key /\ mine[1] = u /\ app[u].secrets.pool \subseteq Key
  BY SecretsFacts DEF Secrets, SecretsOk
<1>2. b \in Bootstrap /\ b.identity = boot.identity
  BY <1>1 DEF Bootstrap
<1>3. PICK x : b.ephemeral = <<"ephemeral", x>>
  BY <1>2 DEF Bootstrap
<1>4. Responder(u, boot) = NewSession(Respond(mine, b), "responder")
  BY DEF Responder
<1> HIDE DEF b
<1>5. NewSession(Respond(mine, b), "responder") \in Session
  BY <1>1, <1>2, RespondType
<1>6. \A i \in Parties(NewSession(Respond(mine, b), "responder")) : i \in {mine, b.identity}
  BY <1>3, RespondParties
<1> QED BY <1>1, <1>2, <1>4, <1>5, <1>6 DEF Peers

\* The conversation an envelope is read in, and the entry it leaves.
LEMMA ReadInFacts ==
  ASSUME IInv, NEW u \in Users, NEW row, NEW damaged, Arrives(u, row, damaged)
  PROVE  /\ pins' \in [Users -> [Devices -> Key \cup {None}]]
         /\ Extends(pins[u], pins'[u])
         /\ \A v \in Users \ {u} : pins'[v] = pins[v]
         /\ ReadIn(u, row) \in Conversation /\ ReadIn(u, row).session \in Session
         /\ ReadIn(u, row).peer.device = row.from
         /\ EntryOk(ReadIn(u, row).peer, Len(accounts), pins'[u])
         /\ Peers(u, ReadIn(u, row).session, pins'[u][row.from])
         /\ DirectoryAfter(u, row) \in Entry \cup {None}
         /\ DirectoryAfter(u, row) # None =>
              EntryOk(DirectoryAfter(u, row), Len(accounts), pins'[u])
<1> DEFINE boot == made[row.id].boot
<1>1. Pulled(u, row)
  BY DEF Arrives
<1>2. app[u] \in UpmApp /\ AppOk(u, app[u], Len(accounts), pins[u])
  BY SecretsFacts
<1>3. CASE PeerKnown(u, row)
  <2> DEFINE c == app[u].conversation
  <2>1. c # None /\ c.peer.device = row.from /\ c.session # None /\ UNCHANGED pins
    BY <1>3 DEF PeerKnown, Arrives
  <2>2. c \in Conversation /\ ConversationOk(u, c, Len(accounts), pins[u])
    BY <1>2, <2>1 DEF UpmApp, AppOk
  <2>3. c.session \in Session
    BY <2>1, <2>2 DEF Conversation
  <2>4. ReadIn(u, row) = c /\ DirectoryAfter(u, row) = app[u].directory
    BY <1>3 DEF ReadIn, DirectoryAfter
  <2>5. /\ app[u].directory \in Entry \cup {None}
        /\ app[u].directory # None => EntryOk(app[u].directory, Len(accounts), pins[u])
    BY <1>2 DEF UpmApp, AppOk
  <2>6. pins \in [Users -> [Devices -> Key \cup {None}]] /\ Extends(pins[u], pins[u])
    BY DEF IInv, TypeOK, Extends
  <2> HIDE DEF c
  <2> QED BY <2>1, <2>2, <2>3, <2>4, <2>5, <2>6 DEF ConversationOk
<1>4. CASE ~PeerKnown(u, row)
  <2> DEFINE entry == EntryOf(u, row)
  <2>1. Acceptable(u, row) /\ pins' = Pinned(u, row.from, boot.identity)
    BY <1>4 DEF Arrives
  <2>2. /\ entry \in Entry /\ entry.device = row.from /\ entry.identity = boot.identity
        /\ boot \in Bootstrap /\ boot.identity \in Key
        /\ row.from \in Devices /\ row.from \in 1 .. Len(accounts)
    BY <1>1, <2>1, EntryOfFacts, PulledFacts
  <2>3. MayPin(u, row.from, boot.identity)
    BY <2>1 DEF Acceptable
  <2>4. ReadIn(u, row) = [peer |-> entry, session |-> Responder(u, boot)]
        /\ DirectoryAfter(u, row) = entry
    BY <1>4 DEF ReadIn, DirectoryAfter
  <2> HIDE DEF entry, boot
  <2>5. /\ pins' \in [Users -> [Devices -> Key \cup {None}]]
        /\ Extends(pins[u], pins'[u]) /\ pins'[u][row.from] = boot.identity
        /\ \A v \in Users \ {u} : pins'[v] = pins[v]
    BY <2>1, <2>2, <2>3, PinnedFacts DEF IInv
  <2>6. EntryOk(entry, Len(accounts), pins'[u])
    BY <2>2, <2>5 DEF EntryOk
  <2>7. Responder(u, boot) \in Session /\ Peers(u, Responder(u, boot), boot.identity)
    BY <2>2, ResponderFacts
  <2>8. /\ ReadIn(u, row) \in Conversation /\ ReadIn(u, row).session = Responder(u, boot)
        /\ ReadIn(u, row).peer = entry
    BY <2>2, <2>4, <2>7 DEF Conversation
  <2> QED BY <2>2, <2>4, <2>5, <2>6, <2>7, <2>8
<1> QED BY <1>3, <1>4

LEMMA CannotReadStep ==
  ASSUME IInv, NEW u \in Users, NEW row, NEW damaged, CannotRead(u, row, damaged)
  PROVE  IInv'
<1> DEFINE c == ReadIn(u, row)
           entry == DirectoryAfter(u, row)
           me == [app[u] EXCEPT !.directory = entry, !.conversation = c]
<1>1. /\ Arrives(u, row, damaged) /\ app' = [app EXCEPT ![u] = me]
      /\ UNCHANGED <<server, kept, minted, stored, outbox, processed, uncommitted, failures>>
      /\ UNCHANGED breaks
  BY DEF CannotRead
<1>2. /\ pins' \in [Users -> [Devices -> Key \cup {None}]]
      /\ Extends(pins[u], pins'[u]) /\ \A v \in Users \ {u} : pins'[v] = pins[v]
      /\ c \in Conversation /\ c.session \in Session /\ c.peer.device = row.from
      /\ EntryOk(c.peer, Len(accounts), pins'[u])
      /\ Peers(u, c.session, pins'[u][row.from])
      /\ entry \in Entry \cup {None}
      /\ entry # None => EntryOk(entry, Len(accounts), pins'[u])
  BY <1>1, ReadInFacts
<1> HIDE DEF c, entry
<1>3. app[u] \in UpmApp /\ AppOk(u, app[u], Len(accounts), pins'[u])
  BY <1>2, SecretsFacts, TypeFacts, AppKept DEF IInv
<1>4. me \in UpmApp
  BY <1>2, <1>3 DEF UpmApp
<1>5. AppOk(u, me, Len(accounts), pins'[u])
  BY <1>2, <1>3 DEF AppOk, ConversationOk, UpmApp
<1>6. breaks' \in 0 .. MaxBreaks
  BY <1>1 DEF IInv, TypeOK
<1> HIDE DEF me
<1> QED BY <1>1, <1>2, <1>4, <1>5, <1>6, StepInMemory

\* The secrets after a prekey was used.
LEMMA SecretsAfterFacts ==
  ASSUME IInv, NEW u \in Users, NEW boot \in Bootstrap \cup {None}
  PROVE  LET sec == SecretsAfter(u, boot)
         IN  /\ sec \in Secrets /\ SecretsOk(u, sec)
             /\ sec.identity = app[u].secrets.identity
             /\ Cardinality(sec.pool \ app[u].secrets.pool) \in Nat
<1> DEFINE old == app[u].secrets
<1>1. old \in Secrets /\ SecretsOk(u, old) /\ old.pool \subseteq Key
  BY SecretsFacts DEF Secrets
<1>2. minted[u] \in Nat /\ PoolSize \in Nat
  BY ContactsAssumption DEF IInv, TypeOK
<1>3. CASE SecretsAfter(u, boot) = old
  <2>1. Cardinality(old.pool \ old.pool) = 0
    BY FS_EmptySet
  <2> QED BY <1>1, <1>3, <2>1
<1>4. CASE SecretsAfter(u, boot) # old
  <2> DEFINE left == old.pool \ {boot.prekey}
             last == minted[u] + PoolSize - Cardinality(left)
             new == {<<u, n>> : n \in minted[u] + 1 .. last}
  <2>1. SecretsAfter(u, boot) = [old EXCEPT !.pool = left \cup new]
    BY <1>4 DEF SecretsAfter, Refilled
  <2>2. IsFiniteSet(left) /\ Cardinality(left) \in Nat
    BY <1>1, FS_RemoveElement, FS_CardinalityType DEF SecretsOk
  <2>3. last \in Int /\ minted[u] + 1 \in Int
    BY <1>2, <2>2
  <2>4. new \subseteq Key
    <3> HIDE DEF last
    <3> QED BY <1>2, <2>3 DEF Key
  <2>5. IsFiniteSet(new)
    BY <2>3, PoolIsFinite
  <2>6. left \subseteq Key
    BY <1>1
  <2> HIDE DEF left, new
  <2>7. IsFiniteSet(left \cup new)
    BY <2>2, <2>5, FS_Union
  <2>8. /\ SecretsAfter(u, boot) \in Secrets
        /\ SecretsAfter(u, boot).identity = old.identity
        /\ SecretsAfter(u, boot).pool = left \cup new
    BY <1>1, <2>1, <2>4, <2>6 DEF Secrets
  <2>9. Cardinality(SecretsAfter(u, boot).pool \ old.pool) \in Nat
    <3>1. IsFiniteSet((left \cup new) \ old.pool)
      BY <2>7, FS_Subset
    <3> QED BY <2>8, <3>1, FS_CardinalityType
  <2> QED BY <1>1, <2>7, <2>8, <2>9 DEF SecretsOk
<1> QED BY <1>3, <1>4

LEMMA ReadStep ==
  ASSUME IInv, NEW u \in Users, NEW row, NEW failed \in SUBSET Calls, Read(u, row, failed)
  PROVE  IInv'
<1> USE DEF IInv
<1> DEFINE c == ReadIn(u, row)
           entry == DirectoryAfter(u, row)
           after == AfterReading(c.session, made[row.id].key)
           boot == made[row.id].boot
           spoilt == "commit" \in failed
           secrets == IF spoilt THEN app[u].secrets ELSE SecretsAfter(u, boot)
           me == [app[u] EXCEPT !.directory = entry,
                                !.conversation = [c EXCEPT !.session = after],
                                !.secrets = secrets]
<1>1. /\ Arrives(u, row, {}) /\ Fails(failed) /\ app' = [app EXCEPT ![u] = me]
      /\ Drawn(u, app[u].secrets, secrets)
      /\ Persisted(u, failed) \/ UNCHANGED kept
      /\ CommitFails(u, row, after) \/ CommitIncoming(u, row, after)
      /\ uncommitted' \in {uncommitted, [uncommitted EXCEPT ![u] = @ \cup {row}]}
      /\ queue' \subseteq queue
      /\ UNCHANGED <<accounts, prekeys, claimed, made, outbox, breaks>>
  BY DEF Read
<1>2. /\ pins' \in [Users -> [Devices -> Key \cup {None}]]
      /\ Extends(pins[u], pins'[u]) /\ \A v \in Users \ {u} : pins'[v] = pins[v]
      /\ c \in Conversation /\ c.session \in Session /\ c.peer.device = row.from
      /\ EntryOk(c.peer, Len(accounts), pins'[u])
      /\ Peers(u, c.session, pins'[u][row.from])
      /\ entry \in Entry \cup {None}
      /\ entry # None => EntryOk(entry, Len(accounts), pins'[u])
  BY <1>1, ReadInFacts
<1>3. /\ row \in Row /\ row.from \in Devices
      /\ boot \in Bootstrap \cup {None} /\ made[row.id].key \in MessageKey
  BY <1>1, PulledFacts DEF Arrives
<1>4. after \in Session /\ Peers(u, after, pins'[u][row.from])
  BY <1>2, <1>3, ReadingKeepsParties DEF Peers
<1>5. /\ secrets \in Secrets /\ SecretsOk(u, secrets)
      /\ Cardinality(secrets.pool \ app[u].secrets.pool) \in Nat
  <2>1. Cardinality(app[u].secrets.pool \ app[u].secrets.pool) = 0
    BY FS_EmptySet
  <2>2. app[u].secrets \in Secrets /\ SecretsOk(u, app[u].secrets)
    BY SecretsFacts
  <2>3. LET sec == SecretsAfter(u, boot)
        IN  /\ sec \in Secrets /\ SecretsOk(u, sec)
            /\ Cardinality(sec.pool \ app[u].secrets.pool) \in Nat
    <3> HIDE DEF boot
    <3> QED BY <1>3, SecretsAfterFacts
  <2>4. CASE spoilt
    BY <2>1, <2>2, <2>4
  <2>5. CASE ~spoilt
    BY <2>3, <2>5
  <2> QED BY <2>4, <2>5
<1> HIDE DEF c, entry, after, boot, secrets, spoilt
<1>6. app[u] \in UpmApp /\ AppOk(u, app[u], Len(accounts), pins'[u]) /\ ClientOk(u)
  BY <1>2, SecretsFacts, TypeFacts, AppKept
<1>7. me \in UpmApp /\ me.secrets = secrets /\ AppOk(u, me, Len(accounts), pins'[u])
  <2> DEFINE c2 == [c EXCEPT !.session = after]
  <2>1. c2 \in Conversation /\ c2.peer = c.peer /\ c2.session = after
    BY <1>2, <1>4 DEF Conversation
  <2>2. ConversationOk(u, c2, Len(accounts), pins'[u])
    BY <1>2, <1>4, <2>1 DEF ConversationOk
  <2> HIDE DEF c2
  <2>3. me = [app[u] EXCEPT !.directory = entry, !.conversation = c2, !.secrets = secrets]
    BY DEF c2
  <2>4. me \in UpmApp /\ me.secrets = secrets /\ me.directory = entry /\ me.conversation = c2
        /\ me.device = app[u].device /\ me.token = app[u].token
    BY <1>2, <1>5, <1>6, <2>1, <2>3 DEF UpmApp
  <2> HIDE DEF me
  <2> QED BY <1>2, <1>5, <1>6, <2>2, <2>4 DEF AppOk
<1> HIDE DEF me
<1>8. app' \in [Users -> UpmApp] /\ app'[u] = me /\ \A v \in Users \ {u} : app'[v] = app[v]
  BY <1>1, <1>7 DEF TypeOK
<1>9. /\ kept' \in [Users -> Secrets] /\ kept'[u] \in {secrets, kept[u]}
      /\ \A v \in Users \ {u} : kept'[v] = kept[v]
  BY <1>1, <1>5, <1>7, <1>8, PersistedFacts DEF TypeOK
<1>10. /\ stored' \in [Users -> [Devices -> Session \cup {None}]]
       /\ StoreOk(u, stored'[u], pins'[u])
       /\ \A v \in Users \ {u} : stored'[v] = stored[v]
       /\ processed' \in [Users -> SUBSET Row]
  <2>1. stored \in [Users -> [Devices -> Session \cup {None}]]
        /\ processed \in [Users -> SUBSET Row]
    BY DEF TypeOK
  <2>2. StoreOk(u, stored[u], pins'[u])
    BY <1>2, <1>6, <2>1, StoreKept DEF ClientOk
  <2>3. CASE CommitFails(u, row, after)
    BY <2>1, <2>2, <2>3 DEF CommitFails
  <2>4. CASE CommitIncoming(u, row, after)
    <3>1. stored' = [stored EXCEPT ![u] = [stored[u] EXCEPT ![row.from] = after]]
      BY <2>1, <2>4 DEF CommitIncoming
    <3>2. /\ stored' \in [Users -> [Devices -> Session \cup {None}]]
          /\ stored'[u] = [stored[u] EXCEPT ![row.from] = after]
          /\ \A v \in Users \ {u} : stored'[v] = stored[v]
      BY <1>3, <1>4, <2>1, <3>1
    <3>3. ASSUME NEW e \in Devices, stored'[u][e] # None
          PROVE  Peers(u, stored'[u][e], pins'[u][e])
      <4>1. CASE e = row.from
        BY <1>4, <2>1, <3>2, <4>1
      <4>2. CASE e # row.from
        BY <2>1, <2>2, <3>2, <3>3, <4>2 DEF StoreOk
      <4> QED BY <4>1, <4>2
    <3>4. processed' \in [Users -> SUBSET Row]
      BY <1>3, <2>1, <2>4 DEF CommitIncoming
    <3> QED BY <3>2, <3>3, <3>4 DEF StoreOk
  <2> QED BY <1>1, <2>3, <2>4
<1>11. minted' \in [Users -> Nat]
  BY <1>1, <1>5 DEF Drawn, TypeOK
<1>12. uncommitted' \in [Users -> SUBSET Row]
  <2>1. uncommitted \in [Users -> SUBSET Row]
    BY DEF TypeOK
  <2>2. [uncommitted EXCEPT ![u] = @ \cup {row}] \in [Users -> SUBSET Row]
    BY <1>3, <2>1
  <2> QED BY <1>1, <2>1, <2>2
<1>13. failures' \in 0 .. MaxFailures
  BY <1>1, FailuresType
<1>14. TypeOK'
  BY <1>1, <1>2, <1>8, <1>9, <1>10, <1>11, <1>12, <1>13 DEF TypeOK
<1>15. ServerOk'
  BY <1>1 DEF ServerOk
<1>16. Grows
  BY <1>1, TypeFacts DEF Grows
<1>17. ClientOk(u)'
  <2>1. OutboxOk(u, outbox[u], made, pins'[u])
    <3>1. /\ outbox[u] \in SUBSET OutboxItem /\ made \in Seq(Envelope)
          /\ OutboxOk(u, outbox[u], made, pins[u]) /\ Len(made) <= Len(made)
      BY <1>6, TypeFacts DEF ClientOk, TypeOK
    <3> QED BY <1>2, <3>1, OutboxKept
  <2>2. SecretsOk(u, kept'[u])
    BY <1>5, <1>9, SecretsFacts
  <2> QED BY <1>1, <1>7, <1>8, <1>10, <2>1, <2>2 DEF ClientOk
<1> QED BY <1>1, <1>2, <1>8, <1>9, <1>10, <1>14, <1>15, <1>16, <1>17, StepOfOne

-----------------------------------------------------------------------------
(* The invariant holds.                                                    *)

LEMMA IInvInit ==
  ASSUME Init
  PROVE  IInv
<1> USE ContactsAssumption
<1>1. \A u \in Users : Generated(u, 0) \in Secrets /\ SecretsOk(u, Generated(u, 0))
  BY GeneratedFacts
<1>2. accounts \in Seq(Account) /\ Len(accounts) = 0 /\ made \in Seq(Envelope) /\ Len(made) = 0
  BY DEF Init
<1>3. ASSUME NEW u \in Users
      PROVE  /\ app[u] \in UpmApp /\ AppOk(u, app[u], Len(accounts), pins[u])
             /\ kept[u] \in Secrets /\ SecretsOk(u, kept[u])
  <2>1. app[u] = [secrets |-> Generated(u, 0), device |-> None, token |-> FALSE,
                  visible |-> TRUE, directory |-> None, conversation |-> None]
    BY DEF Init
  <2>2. Generated(u, 0) \in Secrets /\ SecretsOk(u, Generated(u, 0))
    BY <1>1
  <2>3. kept[u] = Generated(u, 0)
    BY DEF Init
  <2>4. app[u] \in UpmApp
    BY <2>1, <2>2 DEF UpmApp
  <2>5. AppOk(u, app[u], Len(accounts), pins[u])
    BY <2>1, <2>2 DEF AppOk
  <2> QED BY <2>2, <2>3, <2>4, <2>5
<1>4. /\ app \in [Users -> UpmApp] /\ kept \in [Users -> Secrets]
      /\ minted \in [Users -> Nat]
  <2>1. app = [u \in Users |-> app[u]] /\ kept = [u \in Users |-> kept[u]]
    BY DEF Init
  <2>2. minted \in [Users -> Nat]
    BY DEF Init
  <2> QED BY <1>3, <2>1, <2>2
<1>5. /\ pins \in [Users -> [Devices -> Key \cup {None}]]
      /\ stored \in [Users -> [Devices -> Session \cup {None}]]
      /\ outbox \in [Users -> SUBSET OutboxItem]
      /\ processed \in [Users -> SUBSET Row]
      /\ uncommitted \in [Users -> SUBSET Row]
  BY DEF Init
<1>6. /\ prekeys \subseteq Prekey /\ claimed \subseteq Key /\ queue \subseteq Row
      /\ failures \in 0 .. MaxFailures /\ breaks \in 0 .. MaxBreaks
      /\ Len(accounts) <= MaxAccounts /\ Len(made) <= MaxMade
  BY <1>2 DEF Init
<1>7. TypeOK
  BY <1>2, <1>4, <1>5, <1>6 DEF TypeOK
<1>8. ServerOk
  BY <1>2 DEF Init, ServerOk
<1>9. ASSUME NEW u \in Users PROVE ClientOk(u)
  <2>1. StoreOk(u, stored[u], pins[u]) /\ OutboxOk(u, outbox[u], made, pins[u])
    BY DEF Init, StoreOk, OutboxOk
  <2> QED BY <1>3, <2>1 DEF ClientOk
<1> QED BY <1>7, <1>8, <1>9 DEF IInv

\* The prekey a row names is one of someone's.
LEMMA RowKey ==
  ASSUME TypeOK, NEW row \in prekeys
  PROVE  row.key \in Key \cup {None}
BY DEF TypeOK, Prekey

LEMMA SigningStep ==
  ASSUME IInv, NEW u \in Users, Signing(u)
  PROVE  IInv'
<1>1. ASSUME NEW failed \in SUBSET LoginCalls, Login(u, failed) PROVE IInv'
  BY <1>1, LoginStep
<1>2. ASSUME NEW failed \in SUBSET (LoginCalls \cup {"answer"}), Register(u, failed)
      PROVE  IInv'
  BY <1>2, RegisterStep
<1>3. ASSUME NEW failed \in SUBSET (LoginCalls \cup {"secrets"}), Restart(u, failed)
      PROVE  IInv'
  BY <1>3, RestartStep
<1>4. CASE Logout(u)
  BY <1>4, LogoutStep
<1>5. ASSUME NEW failed \in SUBSET {"visibility"}, SetVisibility(u, failed) PROVE IInv'
  BY <1>5, SetVisibilityStep
<1> QED BY <1>1, <1>2, <1>3, <1>4, <1>5 DEF Signing

LEMMA SendingStep ==
  ASSUME IInv, NEW u \in Users, Sending(u)
  PROVE  IInv'
<1>1. /\ {{}, {"send"}, {"answer"}, {"commit"}} \subseteq SUBSET Calls
      /\ {"claim"} \in SUBSET Calls /\ SUBSET {"claim"} \subseteq SUBSET Calls
  BY DEF Calls
<1>2. ASSUME NEW d \in Devices, Resolve(u, d) PROVE IInv'
  BY <1>2, ResolveStep
<1>3. ASSUME NEW failed \in SUBSET Calls, SendNext(u, failed) PROVE IInv'
  BY <1>3, SendNextStep
<1>4. ASSUME NEW failed \in SUBSET Calls, NEW row \in prekeys, SendFirst(u, row.key, failed)
      PROVE  IInv'
  BY <1>4, RowKey, SendFirstStep DEF IInv
<1>5. ASSUME NEW failed \in SUBSET Calls, SendFirst(u, None, failed) PROVE IInv'
  BY <1>5, SendFirstStep
<1>6. ASSUME NEW failed \in SUBSET Calls, SendRefused(u, failed) PROVE IInv'
  BY <1>6, SendRefusedStep
<1>7. ASSUME NEW item \in outbox[u], NEW failed \in SUBSET {"answer"}, Retry(u, item, failed)
      PROVE  IInv'
  BY <1>7, RetryStep
<1> QED BY <1>1, <1>2, <1>3, <1>4, <1>5, <1>6, <1>7 DEF Sending

LEMMA PollingStep ==
  ASSUME IInv, NEW u \in Users, Polling(u)
  PROVE  IInv'
<1>1. {{}, {"commit"}, {"ack"}, {"save"}} \subseteq SUBSET Calls
  BY DEF Calls, LoginCalls
<1>2. PICK row \in queue :
        \/ SkipProcessed(u, row)
        \/ \E damaged \in Damages : RefuseBootstrap(u, row, damaged)
        \/ \E damaged \in Damages : CannotRead(u, row, damaged)
        \/ \E failed \in {{}, {"commit"}, {"ack"}, {"save"}} : Read(u, row, failed)
  BY DEF Polling
<1>3. CASE SkipProcessed(u, row)
  BY <1>3, SkipProcessedStep
<1>4. ASSUME NEW damaged, RefuseBootstrap(u, row, damaged) PROVE IInv'
  BY <1>4, RefuseBootstrapStep
<1>5. ASSUME NEW damaged, CannotRead(u, row, damaged) PROVE IInv'
  BY <1>5, CannotReadStep
<1>6. ASSUME NEW failed \in SUBSET Calls, Read(u, row, failed) PROVE IInv'
  BY <1>6, ReadStep
<1> QED BY <1>1, <1>2, <1>3, <1>4, <1>5, <1>6

LEMMA IInvStutter ==
  ASSUME IInv, UNCHANGED vars
  PROVE  IInv'
<1>1. UNCHANGED <<accounts, prekeys, claimed, queue, made, app, kept, minted, pins, stored,
                  outbox, processed, uncommitted, failures, breaks>>
  BY DEF vars, server, store
<1>2. \A u \in Users : ClientOk(u)'
  BY <1>1 DEF IInv, ClientOk
<1> QED BY <1>1, <1>2 DEF IInv, TypeOK, ServerOk

LEMMA IInvHolds == Spec => []IInv
<1>1. Init => IInv
  BY IInvInit
<1>2. IInv /\ [Next]_vars => IInv'
  BY SigningStep, SendingStep, PollingStep, IInvStutter DEF Next
<1> QED BY <1>1, <1>2, PTL DEF Spec

-----------------------------------------------------------------------------
(* The checkbox.                                                           *)

\* No two clients have a device in common.
OwnDevices ==
  \A u, v \in Users : u # v /\ app[u].device # None => app[u].device # app[v].device

\* While nothing has failed, the identity in memory is the one that is kept and
\* the one that is registered, so that a login gets through.
InSync(u) ==
  failures = 0 =>
    /\ kept[u].identity = app[u].secrets.identity
    /\ app[u].device # None =>
         accounts[app[u].device].identity = app[u].secrets.identity
    /\ app[u].token => app[u].visible = accounts[app[u].device].visible

BoxInv == OwnDevices /\ \A u \in Users : InSync(u)

LEMMA NothingFailed ==
  ASSUME TypeOK, NEW failed \in SUBSET Calls, Fails(failed), failures' = 0
  PROVE  failures = 0 /\ failed = {}
<1>1. IsFiniteSet(failed) /\ Cardinality(failed) \in Nat
  BY CallsAreFinite, FS_Subset, FS_CardinalityType
<1>2. failures \in Nat
  BY ContactsAssumption DEF TypeOK
<1>3. failures = 0 /\ Cardinality(failed) = 0
  BY <1>1, <1>2 DEF Fails
<1> QED BY <1>1, <1>3, FS_EmptySet

\* In a step of u the others stay in sync, whose devices are not its.
LEMMA BoxStep ==
  ASSUME IInv, BoxInv, NEW u \in Users, InSync(u)',
         failures' = 0 => failures = 0,
         app'[u].device \in {app[u].device, Len(accounts) + 1},
         \A d \in 1 .. Len(accounts) :
           /\ accounts'[d].identity = accounts[d].identity
           /\ d # app'[u].device => accounts'[d].visible = accounts[d].visible,
         \A v \in Users \ {u} : app'[v] = app[v] /\ kept'[v] = kept[v]
  PROVE  BoxInv'
<1>1. \A v \in Users : app[v].device # None => app[v].device \in 1 .. Len(accounts)
  BY SecretsFacts DEF AppOk
<1>2. \A v \in Users : app[v].token => app[v].device # None
  BY SecretsFacts DEF AppOk
<1>3. Len(accounts) \in Nat /\ None \notin 1 .. Len(accounts)
  BY TypeFacts, ContactsAssumption DEF IInv
<1>4. ASSUME NEW v \in Users \ {u}, app[v].device # None
      PROVE  app'[u].device # app[v].device
  BY <1>1, <1>3, <1>4 DEF BoxInv, OwnDevices
<1>5. OwnDevices'
  BY <1>1, <1>3, <1>4 DEF BoxInv, OwnDevices
<1>6. ASSUME NEW v \in Users \ {u} PROVE InSync(v)'
  BY <1>1, <1>2, <1>4 DEF BoxInv, InSync
<1> QED BY <1>5, <1>6 DEF BoxInv

\* A step that changes neither accounts nor what the box depends on.
LEMMA BoxQuiet ==
  ASSUME IInv, BoxInv, NEW u \in Users,
         failures' = 0 => failures = 0,
         accounts' = accounts,
         app'[u].device = app[u].device, app'[u].visible = app[u].visible,
         app'[u].token => app[u].token,
         app'[u].secrets.identity = app[u].secrets.identity,
         kept'[u].identity \in {kept[u].identity, app[u].secrets.identity},
         \A v \in Users \ {u} : app'[v] = app[v] /\ kept'[v] = kept[v]
  PROVE  BoxInv'
<1>1. InSync(u)'
  BY DEF BoxInv, InSync
<1> QED BY <1>1, BoxStep

LEMMA BoxLogin ==
  ASSUME IInv, BoxInv, NEW u \in Users, NEW failed \in SUBSET LoginCalls, Login(u, failed)
  PROVE  BoxInv'
<1> DEFINE in == Verifies(app[u], accounts, failed)
           d == app[u].device
<1>1. /\ d # None /\ Fails(failed)
      /\ Authenticate(u, app[u], accounts, failed)
      /\ Persisted(u, failed) \/ UNCHANGED kept
  BY DEF Login
<1>2. TypeOK /\ app[u] \in UpmApp /\ AppOk(u, app[u], Len(accounts), pins[u])
  BY SecretsFacts DEF IInv
<1>3. accounts \in Seq(Account) /\ d \in 1 .. Len(accounts) /\ d \in Devices
  BY <1>1, <1>2, TypeFacts DEF AppOk
<1>4. \A e \in 1 .. Len(accounts) :
        /\ accounts'[e].identity = accounts[e].identity
        /\ accounts'[e].visible = accounts[e].visible
  BY <1>1, <1>2, <1>3, AuthenticateFacts
<1>5. app' = [app EXCEPT ![u] =
                [app[u] EXCEPT !.token = in \/ app[u].token,
                               !.visible = IF in THEN VisibleAfter(app[u], accounts, failed)
                                           ELSE app[u].visible]]
  BY <1>1 DEF Authenticate
<1>6. /\ app'[u].device = d /\ app'[u].secrets = app[u].secrets
      /\ app'[u].visible = IF in THEN VisibleAfter(app[u], accounts, failed)
                           ELSE app[u].visible
      /\ \A v \in Users \ {u} : app'[v] = app[v]
  BY <1>2, <1>5 DEF TypeOK, UpmApp
<1>7. /\ kept'[u] \in {app[u].secrets, kept[u]}
      /\ \A v \in Users \ {u} : kept'[v] = kept[v]
  BY <1>1, <1>2, <1>6, PersistedFacts
<1>8. failures' = 0 => failures = 0 /\ failed = {}
  BY <1>1, <1>2, NothingFailed DEF Calls
<1>9. InSync(u)'
  <2> SUFFICES ASSUME failures' = 0
               PROVE  /\ kept'[u].identity = app[u].secrets.identity
                      /\ accounts'[d].identity = app[u].secrets.identity
                      /\ app'[u].visible = accounts'[d].visible
    BY <1>6 DEF InSync
  <2>1. /\ kept[u].identity = app[u].secrets.identity
        /\ accounts[d].identity = app[u].secrets.identity
    BY <1>1, <1>8 DEF BoxInv, InSync
  <2>2. in /\ VisibleAfter(app[u], accounts, failed) = accounts[d].visible
    BY <1>8, <2>1 DEF Verifies, VisibleAfter
  <2> QED BY <1>3, <1>4, <1>6, <1>7, <2>1, <2>2
<1> QED BY <1>4, <1>6, <1>7, <1>8, <1>9, BoxStep

LEMMA BoxRegister ==
  ASSUME IInv, BoxInv, NEW u \in Users, NEW failed \in SUBSET (LoginCalls \cup {"answer"}),
         Register(u, failed)
  PROVE  BoxInv'
<1> DEFINE known == Registered(u)
           d == Len(accounts) + 1
           new == [app[u] EXCEPT !.device = d]
           in == Verifies(new, known, failed)
<1>1. ~app[u].token /\ Len(accounts) < MaxAccounts /\ Fails(failed)
  BY DEF Register
<1>2. /\ known \in Seq(Account) /\ Len(known) = d /\ d \in Devices
      /\ known[d].identity = app[u].secrets.identity
      /\ \A e \in 1 .. Len(accounts) : known[e] = accounts[e]
  BY <1>1, RegisteredFacts
<1>3. TypeOK /\ app[u] \in UpmApp /\ Len(accounts) \in Nat
  BY SecretsFacts, TypeFacts DEF IInv
<1>4. failures' = 0 => failures = 0 /\ failed = {}
  BY <1>1, <1>3, NothingFailed DEF Calls
<1>5. CASE "answer" \in failed
  <2>1. accounts' = known /\ UNCHANGED <<app, kept>>
    BY <1>5 DEF Register
  <2>2. failures' # 0
    BY <1>4, <1>5
  <2>3. InSync(u)'
    BY <2>2 DEF InSync
  <2> QED BY <1>2, <2>1, <2>2, <2>3, BoxStep
<1>6. CASE "answer" \notin failed
  <2>1. Authenticate(u, new, known, failed) /\ Persisted(u, failed)
    BY <1>6 DEF Register
  <2>2. new \in UpmApp /\ new.device = d /\ new.secrets = app[u].secrets
    BY <1>2, <1>3 DEF UpmApp
  <2>3. d \in 1 .. Len(known) /\ new.device \in 1 .. Len(known) /\ new.device \in Devices
    BY <1>2, <1>3, <2>2
  <2> HIDE DEF new, known, in
  <2>4. \A e \in 1 .. Len(known) :
          /\ accounts'[e].identity = known[e].identity
          /\ accounts'[e].visible = known[e].visible
    BY <1>2, <1>3, <2>1, <2>2, <2>3, AuthenticateFacts
  <2>5. app' = [app EXCEPT ![u] =
                  [new EXCEPT !.token = in \/ new.token,
                              !.visible = IF in THEN VisibleAfter(new, known, failed)
                                          ELSE new.visible]]
    BY <2>1 DEF Authenticate, in
  <2>6. /\ app'[u].device = d /\ app'[u].secrets = app[u].secrets
        /\ app'[u].visible = IF in THEN VisibleAfter(new, known, failed) ELSE new.visible
        /\ \A v \in Users \ {u} : app'[v] = app[v]
    BY <1>3, <2>2, <2>5 DEF TypeOK, UpmApp
  <2>7. /\ kept'[u] \in {app[u].secrets, kept[u]}
        /\ \A v \in Users \ {u} : kept'[v] = kept[v]
    BY <1>3, <2>1, <2>6, PersistedFacts
  <2>8. InSync(u)'
    <3> SUFFICES ASSUME failures' = 0
                 PROVE  /\ kept'[u].identity = app[u].secrets.identity
                        /\ accounts'[d].identity = app[u].secrets.identity
                        /\ app'[u].visible = accounts'[d].visible
      BY <2>6 DEF InSync
    <3>1. kept[u].identity = app[u].secrets.identity
      BY <1>4 DEF BoxInv, InSync
    <3>2. in /\ VisibleAfter(new, known, failed) = known[d].visible
      BY <1>2, <1>4, <2>2 DEF Verifies, VisibleAfter, in
    <3> QED BY <1>2, <2>3, <2>4, <2>6, <2>7, <3>1, <3>2
  <2>9. \A e \in 1 .. Len(accounts) :
          /\ accounts'[e].identity = accounts[e].identity
          /\ accounts'[e].visible = accounts[e].visible
    BY <1>2, <1>3, <2>4
  <2> QED BY <1>4, <2>6, <2>7, <2>8, <2>9, BoxStep
<1> QED BY <1>5, <1>6

LEMMA BoxRestart ==
  ASSUME IInv, BoxInv, NEW u \in Users, NEW failed \in SUBSET (LoginCalls \cup {"secrets"}),
         Restart(u, failed)
  PROVE  BoxInv'
<1> DEFINE found == IF "secrets" \notin failed THEN kept[u] ELSE Generated(u, minted[u])
           me == [secrets |-> found, device |-> app[u].device, token |-> app[u].token,
                  visible |-> TRUE, directory |-> None, conversation |-> None]
           in == Verifies(me, accounts, failed)
           d == app[u].device
<1>1. /\ Fails(failed) /\ Persisted(u, failed)
      /\ IF d # None
         THEN Authenticate(u, me, accounts, failed)
         ELSE app' = [app EXCEPT ![u] = me] /\ UNCHANGED <<accounts, prekeys>>
  BY DEF Restart
<1>2. TypeOK /\ app[u] \in UpmApp /\ AppOk(u, app[u], Len(accounts), pins[u])
  BY SecretsFacts DEF IInv
<1>3. found \in Secrets
  <2>1. minted[u] \in Nat
    BY <1>2 DEF TypeOK
  <2> QED BY <2>1, SecretsFacts, GeneratedFacts
<1>4. failures' = 0 => failures = 0 /\ failed = {}
  BY <1>1, <1>2, NothingFailed DEF Calls
<1>5. failures' = 0 => found.identity = app[u].secrets.identity /\ found = kept[u]
  BY <1>4 DEF BoxInv, InSync
<1> HIDE DEF found
<1>6. me \in UpmApp /\ me.device = d /\ me.secrets = found /\ me.token = app[u].token
  BY <1>2, <1>3 DEF UpmApp
<1> HIDE DEF me
<1>7. CASE d = None
  <2>1. app'[u] = me /\ accounts' = accounts /\ \A v \in Users \ {u} : app'[v] = app[v]
    BY <1>1, <1>2, <1>7 DEF TypeOK
  <2>2. kept'[u] \in {found, kept[u]} /\ \A v \in Users \ {u} : kept'[v] = kept[v]
    BY <1>1, <1>2, <1>6, <2>1, PersistedFacts
  <2>3. ~app[u].token
    BY <1>2, <1>7 DEF AppOk
  <2>4. InSync(u)'
    BY <1>5, <1>6, <1>7, <2>1, <2>2, <2>3 DEF InSync
  <2> QED BY <1>4, <1>6, <2>1, <2>2, <2>4, BoxStep
<1>8. CASE d # None
  <2>1. Authenticate(u, me, accounts, failed)
    BY <1>1, <1>8
  <2>2. accounts \in Seq(Account) /\ d \in 1 .. Len(accounts) /\ d \in Devices
    BY <1>2, <1>8, TypeFacts DEF AppOk
  <2>3. \A e \in 1 .. Len(accounts) :
          /\ accounts'[e].identity = accounts[e].identity
          /\ accounts'[e].visible = accounts[e].visible
    BY <1>2, <1>6, <2>1, <2>2, AuthenticateFacts
  <2>4. app' = [app EXCEPT ![u] =
                  [me EXCEPT !.token = in \/ me.token,
                             !.visible = IF in THEN VisibleAfter(me, accounts, failed)
                                         ELSE me.visible]]
    BY <2>1 DEF Authenticate
  <2>5. /\ app'[u].device = d /\ app'[u].secrets = found
        /\ app'[u].visible = IF in THEN VisibleAfter(me, accounts, failed) ELSE me.visible
        /\ \A v \in Users \ {u} : app'[v] = app[v]
    BY <1>2, <1>6, <2>4 DEF TypeOK, UpmApp
  <2>6. kept'[u] \in {found, kept[u]} /\ \A v \in Users \ {u} : kept'[v] = kept[v]
    BY <1>1, <1>2, <2>5, PersistedFacts
  <2>7. InSync(u)'
    <3> SUFFICES ASSUME failures' = 0
                 PROVE  /\ kept'[u].identity = found.identity
                        /\ accounts'[d].identity = found.identity
                        /\ app'[u].visible = accounts'[d].visible
      BY <2>5 DEF InSync
    <3>1. accounts[d].identity = found.identity
      BY <1>4, <1>5, <1>8 DEF BoxInv, InSync
    <3>2. in /\ VisibleAfter(me, accounts, failed) = accounts[d].visible
      BY <1>4, <1>6, <3>1 DEF Verifies, VisibleAfter
    <3> QED BY <1>5, <2>2, <2>3, <2>5, <2>6, <3>1, <3>2
  <2> QED BY <1>4, <2>3, <2>5, <2>6, <2>7, BoxStep
<1> QED BY <1>7, <1>8

LEMMA BoxSetVisibility ==
  ASSUME IInv, BoxInv, NEW u \in Users, NEW failed \in SUBSET {"visibility"},
         SetVisibility(u, failed)
  PROVE  BoxInv'
<1> DEFINE d == app[u].device
<1>1. /\ app[u].token /\ Fails(failed) /\ UNCHANGED kept
      /\ app' = [app EXCEPT ![u] = [app[u] EXCEPT !.visible = ~app[u].visible]]
  BY DEF SetVisibility
<1>2. TypeOK /\ app[u] \in UpmApp /\ AppOk(u, app[u], Len(accounts), pins[u])
  BY SecretsFacts DEF IInv
<1>3. accounts \in Seq(Account) /\ d \in 1 .. Len(accounts) /\ accounts[d] \in Account
  BY <1>1, <1>2, TypeFacts DEF AppOk
<1>4. /\ app'[u].device = d /\ app'[u].secrets = app[u].secrets
      /\ app'[u].visible = ~app[u].visible
      /\ \A v \in Users \ {u} : app'[v] = app[v]
  BY <1>1, <1>2 DEF TypeOK, UpmApp
<1>5. failures' = 0 => failures = 0 /\ failed = {}
  <2>1. failed \in SUBSET Calls
    BY DEF Calls, LoginCalls
  <2> QED BY <1>1, <1>2, <2>1, NothingFailed
<1>6. CASE failed = {}
  <2> DEFINE a == [accounts[d] EXCEPT !.visible = ~app[u].visible]
  <2>1. accounts' = [accounts EXCEPT ![d] = a]
    BY <1>6 DEF SetVisibility
  <2>2. a \in Account /\ a.identity = accounts[d].identity /\ a.visible = ~app[u].visible
    BY <1>2, <1>3 DEF Account, UpmApp
  <2> HIDE DEF a, d
  <2>3. \A e \in 1 .. Len(accounts) : accounts'[e] = IF e = d THEN a ELSE accounts[e]
    BY <1>3, <2>1, <2>2, AccountsUpdated
  <2>4. /\ accounts'[d].identity = accounts[d].identity
        /\ accounts'[d].visible = app'[u].visible
    BY <1>3, <1>4, <2>2, <2>3
  <2>5. \A e \in 1 .. Len(accounts) :
          /\ accounts'[e].identity = accounts[e].identity
          /\ e # d => accounts'[e].visible = accounts[e].visible
    BY <2>2, <2>3
  <2>6. InSync(u)'
    BY <1>1, <1>4, <1>5, <2>4 DEF BoxInv, InSync, d
  <2> QED BY <1>1, <1>4, <1>5, <2>5, <2>6, BoxStep DEF d
<1>7. CASE failed # {}
  <2>1. accounts' = accounts
    BY <1>7 DEF SetVisibility
  <2>2. InSync(u)'
    BY <1>5, <1>7 DEF InSync
  <2> QED BY <1>1, <1>4, <1>5, <2>1, <2>2, BoxStep
<1> QED BY <1>6, <1>7

\* Sending changes the conversation, and nothing else of the client.
LEMMA BoxSending ==
  ASSUME IInv, BoxInv, NEW u \in Users, Sending(u)
  PROVE  BoxInv'
<1>1. TypeOK /\ app[u] \in UpmApp
  BY SecretsFacts DEF IInv
<1>2. /\ {{}, {"send"}, {"answer"}, {"commit"}} \subseteq SUBSET Calls
      /\ {"claim"} \in SUBSET Calls /\ SUBSET {"claim"} \subseteq SUBSET Calls
      /\ SUBSET {"answer"} \subseteq SUBSET Calls
  BY DEF Calls
<1>3. ASSUME NEW c, NEW e,
             app' = [app EXCEPT ![u].directory = e, ![u].conversation = c],
             UNCHANGED <<accounts, kept>>, failures' = 0 => failures = 0
      PROVE  BoxInv'
  <2>1. /\ app'[u].device = app[u].device /\ app'[u].visible = app[u].visible
        /\ app'[u].token = app[u].token /\ app'[u].secrets = app[u].secrets
        /\ \A v \in Users \ {u} : app'[v] = app[v]
    BY <1>1, <1>3 DEF TypeOK, UpmApp
  <2> QED BY <1>3, <2>1, BoxQuiet
<1>4. ASSUME NEW c, app' = [app EXCEPT ![u].conversation = c],
             UNCHANGED <<accounts, kept>>, failures' = 0 => failures = 0
      PROVE  BoxInv'
  <2>1. /\ app'[u].device = app[u].device /\ app'[u].visible = app[u].visible
        /\ app'[u].token = app[u].token /\ app'[u].secrets = app[u].secrets
        /\ \A v \in Users \ {u} : app'[v] = app[v]
    BY <1>1, <1>4 DEF TypeOK, UpmApp
  <2> QED BY <1>4, <2>1, BoxQuiet
<1>5. ASSUME NEW d \in Devices, Resolve(u, d) PROVE BoxInv'
  BY <1>3, <1>5 DEF Resolve, server
<1>6. ASSUME NEW failed \in SUBSET Calls, SendNext(u, failed) PROVE BoxInv'
  BY <1>1, <1>4, <1>6, NothingFailed DEF SendNext, SendPayload, MaySend
<1>7. ASSUME NEW failed \in SUBSET Calls, NEW k, SendFirst(u, k, failed) PROVE BoxInv'
  <2>1. \E c : app' = [app EXCEPT ![u].conversation = c]
    BY <1>7 DEF SendFirst, SendPayload
  <2>2. Fails(failed) /\ UNCHANGED <<accounts, kept>>
    BY <1>7 DEF SendFirst, MaySend
  <2> QED BY <1>1, <1>4, <2>1, <2>2, NothingFailed
<1>8. ASSUME NEW failed \in SUBSET Calls, SendRefused(u, failed) PROVE BoxInv'
  BY <1>1, <1>4, <1>8, NothingFailed DEF SendRefused, MaySend, server
<1>9. ASSUME NEW item \in outbox[u], NEW failed \in SUBSET Calls, Retry(u, item, failed)
      PROVE  BoxInv'
  <2>1. Fails(failed) /\ UNCHANGED <<accounts, app, kept>>
    BY <1>9 DEF Retry
  <2> QED BY <1>1, <2>1, NothingFailed, BoxQuiet
<1> QED BY <1>2, <1>5, <1>6, <1>7, <1>8, <1>9 DEF Sending

\* Reading may draw a prekey; the identity stays.
LEMMA BoxPolling ==
  ASSUME IInv, BoxInv, NEW u \in Users, Polling(u)
  PROVE  BoxInv'
<1>1. TypeOK /\ app[u] \in UpmApp /\ app[u].secrets \in Secrets
  BY SecretsFacts DEF IInv
<1>2. {{}, {"commit"}, {"ack"}, {"save"}} \subseteq SUBSET Calls
  BY DEF Calls, LoginCalls
<1>3. PICK row \in queue :
        \/ SkipProcessed(u, row)
        \/ \E damaged \in Damages : RefuseBootstrap(u, row, damaged)
        \/ \E damaged \in Damages : CannotRead(u, row, damaged)
        \/ \E failed \in SUBSET Calls : Read(u, row, failed)
  BY <1>2 DEF Polling
<1>4. CASE SkipProcessed(u, row)
  BY <1>4, BoxQuiet DEF SkipProcessed
<1>5. ASSUME NEW damaged, RefuseBootstrap(u, row, damaged) PROVE BoxInv'
  <2>1. /\ app' = [app EXCEPT ![u].directory = EntryOf(u, row)]
        /\ UNCHANGED <<accounts, kept, failures>>
    BY <1>5 DEF RefuseBootstrap, server
  <2>2. /\ app'[u].device = app[u].device /\ app'[u].visible = app[u].visible
        /\ app'[u].token = app[u].token /\ app'[u].secrets = app[u].secrets
        /\ \A v \in Users \ {u} : app'[v] = app[v]
    BY <1>1, <2>1 DEF TypeOK, UpmApp
  <2> QED BY <2>1, <2>2, BoxQuiet
<1>6. ASSUME NEW damaged, CannotRead(u, row, damaged) PROVE BoxInv'
  <2>1. /\ app' = [app EXCEPT ![u].directory = DirectoryAfter(u, row),
                              ![u].conversation = ReadIn(u, row)]
        /\ UNCHANGED <<accounts, kept, failures>>
    BY <1>6 DEF CannotRead, server
  <2>2. /\ app'[u].device = app[u].device /\ app'[u].visible = app[u].visible
        /\ app'[u].token = app[u].token /\ app'[u].secrets = app[u].secrets
        /\ \A v \in Users \ {u} : app'[v] = app[v]
    BY <1>1, <2>1 DEF TypeOK, UpmApp
  <2> QED BY <2>1, <2>2, BoxQuiet
<1>7. ASSUME NEW failed \in SUBSET Calls, Read(u, row, failed) PROVE BoxInv'
  <2> DEFINE boot == made[row.id].boot
  <2>1. \E c, secrets :
          /\ app' = [app EXCEPT ![u].directory = DirectoryAfter(u, row),
                                ![u].conversation = c, ![u].secrets = secrets]
          /\ secrets \in {app[u].secrets, SecretsAfter(u, boot)}
    BY <1>7 DEF Read
  <2>2. PICK c, secrets :
          /\ app' = [app EXCEPT ![u].directory = DirectoryAfter(u, row),
                                ![u].conversation = c, ![u].secrets = secrets]
          /\ secrets \in {app[u].secrets, SecretsAfter(u, boot)}
    BY <2>1
  <2>3. secrets.identity = app[u].secrets.identity
    BY <1>1, <2>2 DEF SecretsAfter, Refilled, Secrets
  <2>4. /\ app'[u].device = app[u].device /\ app'[u].visible = app[u].visible
        /\ app'[u].token = app[u].token /\ app'[u].secrets = secrets
        /\ \A v \in Users \ {u} : app'[v] = app[v]
    BY <1>1, <2>2 DEF TypeOK, UpmApp
  <2>5. Fails(failed) /\ accounts' = accounts /\ (Persisted(u, failed) \/ UNCHANGED kept)
    BY <1>7 DEF Read
  <2>6. /\ kept'[u] \in {secrets, kept[u]}
        /\ \A v \in Users \ {u} : kept'[v] = kept[v]
    BY <1>1, <2>4, <2>5, PersistedFacts
  <2> QED BY <1>1, <2>3, <2>4, <2>5, <2>6, NothingFailed, BoxQuiet
<1> QED BY <1>3, <1>4, <1>5, <1>6, <1>7

LEMMA BoxInvHolds == Spec => []BoxInv
<1>1. Init => BoxInv
  <2> SUFFICES ASSUME Init PROVE BoxInv
    OBVIOUS
  <2>1. ASSUME NEW u \in Users
        PROVE  /\ app[u].device = None /\ ~app[u].token
               /\ app[u].secrets = Generated(u, 0) /\ kept[u] = Generated(u, 0)
    BY DEF Init
  <2> QED BY <2>1 DEF BoxInv, OwnDevices, InSync
<1>2. IInv /\ BoxInv /\ [Next]_vars => BoxInv'
  <2> SUFFICES ASSUME IInv, BoxInv, [Next]_vars PROVE BoxInv'
    OBVIOUS
  <2>1. ASSUME NEW u \in Users, Logout(u) PROVE BoxInv'
    <3>1. app[u] \in UpmApp /\ app \in [Users -> UpmApp]
      BY SecretsFacts DEF IInv, TypeOK
    <3>2. /\ app'[u].device = app[u].device /\ app'[u].visible = app[u].visible
          /\ ~app'[u].token /\ app'[u].secrets = app[u].secrets
          /\ \A v \in Users \ {u} : app'[v] = app[v]
      BY <2>1, <3>1 DEF Logout, UpmApp
    <3> QED BY <2>1, <3>2, BoxQuiet DEF Logout, server
  <2>2. ASSUME NEW u \in Users, Signing(u) PROVE BoxInv'
    BY <2>1, <2>2, BoxLogin, BoxRegister, BoxRestart, BoxSetVisibility DEF Signing
  <2>3. CASE UNCHANGED vars
    BY <2>3 DEF vars, server, BoxInv, OwnDevices, InSync
  <2> QED BY <2>2, <2>3, BoxSending, BoxPolling DEF Next
<1> QED BY <1>1, <1>2, IInvHolds, PTL DEF Spec

-----------------------------------------------------------------------------
(* Prekeys are new when they are drawn.                                    *)

Old(k) == k[2] <= minted[k[1]]

KeysAreOld ==
  /\ \A u \in Users : \A k \in app[u].secrets.pool \cup kept[u].pool : Old(k)
  /\ \A row \in prekeys : Old(row.key)
  /\ \A id \in 1 .. Len(made) :
       made[id].boot # None /\ made[id].boot.prekey # None => Old(made[id].boot.prekey)

LEMMA OldStays ==
  ASSUME TypeOK, TypeOK', \A v \in Users : minted[v] <= minted'[v], NEW k \in Key, Old(k)
  PROVE  Old(k)'
<1>1. k[1] \in Users /\ k[2] \in Nat
  BY DEF Key
<1>2. minted[k[1]] \in Nat /\ minted'[k[1]] \in Nat
  BY <1>1 DEF TypeOK
<1> QED BY <1>1, <1>2 DEF Old

\* A step of u keeps KeysAreOld if what it draws is counted, and it publishes
\* and names only what was drawn.
LEMMA KeysStep ==
  ASSUME IInv, IInv', KeysAreOld, NEW u \in Users,
         \A v \in Users : minted[v] <= minted'[v],
         \A v \in Users \ {u} : app'[v] = app[v] /\ kept'[v] = kept[v],
         \A k \in app'[u].secrets.pool \cup kept'[u].pool :
           k \in app[u].secrets.pool \cup kept[u].pool \/ Old(k)',
         \A row \in prekeys' : row \in prekeys \/ row.key \in app'[u].secrets.pool,
         \A id \in 1 .. Len(made') :
           \/ id \in 1 .. Len(made) /\ made'[id] = made[id]
           \/ made'[id].boot = None
           \/ made'[id].boot.prekey = None
           \/ \E row \in prekeys : row.key = made'[id].boot.prekey
  PROVE  KeysAreOld'
<1>1. TypeOK /\ TypeOK'
  BY DEF IInv
<1>2. \A v \in Users : app[v].secrets.pool \subseteq Key /\ kept[v].pool \subseteq Key
  BY SecretsFacts DEF Secrets
<1>3. \A v \in Users : \A k \in app'[v].secrets.pool \cup kept'[v].pool : Old(k)'
  <2> SUFFICES ASSUME NEW v \in Users, NEW k \in app'[v].secrets.pool \cup kept'[v].pool
               PROVE  Old(k)'
    OBVIOUS
  <2>1. k \in app[v].secrets.pool \cup kept[v].pool \/ Old(k)'
    OBVIOUS
  <2>2. ASSUME k \in app[v].secrets.pool \cup kept[v].pool PROVE Old(k)'
    <3>1. Old(k) /\ k \in Key
      BY <1>2, <2>2 DEF KeysAreOld
    <3> QED BY <1>1, <3>1, OldStays
  <2> QED BY <2>1, <2>2
<1>4. ASSUME NEW row \in prekeys PROVE Old(row.key)'
  <2>1. row.key \in Key /\ Old(row.key)
    BY <1>1 DEF TypeOK, Prekey, KeysAreOld
  <2> QED BY <1>1, <2>1, OldStays
<1>5. \A row \in prekeys' : Old(row.key)'
  BY <1>3, <1>4
<1>6. ASSUME NEW id \in 1 .. Len(made'), made'[id].boot # None, made'[id].boot.prekey # None
      PROVE  Old(made[id].boot.prekey)'
  <2>1. PICK k : k = made'[id].boot.prekey
    OBVIOUS
  <2>2. CASE id \in 1 .. Len(made) /\ made'[id] = made[id]
    <3>1. made[id] \in Envelope /\ k = made[id].boot.prekey /\ k # None
      BY <1>1, <1>6, <2>1, <2>2, TypeFacts
    <3>2. Old(k) /\ k \in Key
      BY <1>6, <2>2, <3>1 DEF KeysAreOld, Envelope, Bootstrap
    <3>3. Old(k)'
      BY <1>1, <3>2, OldStays
    <3> QED BY <2>1, <3>3 DEF Old
  <2>3. CASE \E row \in prekeys : row.key = k
    <3>1. Old(k)'
      BY <1>4, <2>3
    <3> QED BY <2>1, <3>1 DEF Old
  <2> QED BY <1>6, <2>1, <2>2, <2>3
<1> QED BY <1>3, <1>5, <1>6 DEF KeysAreOld

\* The size of a range of prekeys.
LEMMA RangeSize ==
  ASSUME NEW u, NEW a \in Int, NEW b \in Int, a <= b
  PROVE  Cardinality({<<u, k>> : k \in a .. b}) = b - a + 1
<1> DEFINE f == [k \in a .. b |-> <<u, k>>]
           pool == {<<u, k>> : k \in a .. b}
<1>1. f \in [a .. b -> pool] /\ \A t \in pool : \E k \in a .. b : f[k] = t
  OBVIOUS
<1>2. \A k, l \in a .. b : f[k] = f[l] => k = l
  OBVIOUS
<1>3. f \in Surjection(a .. b, pool) /\ f \in Injection(a .. b, pool)
  BY <1>1, <1>2 DEF Surjection, Injection, IsInjective
<1>4. IsFiniteSet(a .. b) /\ Cardinality(a .. b) = b - a + 1
  BY FS_Interval
<1> HIDE DEF f, pool
<1>5. Cardinality(pool) = Cardinality(a .. b)
  BY <1>3, <1>4, FS_Surjection
<1> QED BY <1>4, <1>5 DEF pool

\* What ensure_one_time_prekey_pool draws is new, and counted.
LEMMA DrawnFacts ==
  ASSUME IInv, KeysAreOld, NEW u \in Users, NEW boot \in Bootstrap \cup {None},
         Drawn(u, app[u].secrets, SecretsAfter(u, boot))
  PROVE  /\ \A v \in Users : minted[v] <= minted'[v]
         /\ \A k \in SecretsAfter(u, boot).pool :
              \/ k \in app[u].secrets.pool
              \/ k[1] = u /\ minted[u] < k[2] /\ k[2] <= minted'[u]
<1> DEFINE old == app[u].secrets
           drawn == SecretsAfter(u, boot).pool \ old.pool
<1>1. old \in Secrets /\ SecretsOk(u, old) /\ old.pool \subseteq Key
  BY SecretsFacts DEF Secrets
<1>2. minted \in [Users -> Nat] /\ minted[u] \in Nat /\ PoolSize \in Nat
  BY ContactsAssumption DEF IInv, TypeOK
<1>3. Cardinality(drawn) \in Nat /\ IsFiniteSet(SecretsAfter(u, boot).pool)
  BY SecretsAfterFacts DEF SecretsOk
<1>4. minted' = [minted EXCEPT ![u] = @ + Cardinality(drawn)]
  BY DEF Drawn
<1> HIDE DEF drawn
<1>5. /\ \A v \in Users : minted[v] <= minted'[v]
      /\ minted'[u] = minted[u] + Cardinality(drawn)
  BY <1>2, <1>3, <1>4
<1>6. CASE SecretsAfter(u, boot) = old
  BY <1>5, <1>6
<1>7. CASE SecretsAfter(u, boot) # old
  <2> DEFINE left == old.pool \ {boot.prekey}
             last == minted[u] + PoolSize - Cardinality(left)
             new == {<<u, n>> : n \in minted[u] + 1 .. last}
  <2>1. SecretsAfter(u, boot) = [old EXCEPT !.pool = left \cup new]
    BY <1>7 DEF SecretsAfter, Refilled
  <2>2. IsFiniteSet(left) /\ Cardinality(left) \in Nat
    BY <1>1, FS_RemoveElement, FS_CardinalityType DEF SecretsOk
  <2>3. last \in Int /\ minted[u] + 1 \in Int
    BY <1>2, <2>2
  <2>4. SecretsAfter(u, boot).pool = left \cup new
    BY <1>1, <2>1 DEF Secrets
  <2> HIDE DEF last
  <2>5. \A k \in new : k[1] = u /\ minted[u] < k[2] /\ k[2] <= last
    BY <1>2, <2>3
  <2>6. \A k \in old.pool : ~(k[1] = u /\ minted[u] < k[2])
    <3> SUFFICES ASSUME NEW k \in old.pool, k[1] = u, minted[u] < k[2] PROVE FALSE
      OBVIOUS
    <3>1. k[2] \in Nat /\ k[2] <= minted[u]
      BY <1>1 DEF KeysAreOld, Old, Key
    <3> QED BY <1>2, <3>1
  <2>7. new # {} => last <= minted'[u]
    <3> SUFFICES ASSUME new # {} PROVE last <= minted'[u]
      OBVIOUS
    <3>1. minted[u] + 1 <= last
      BY <1>2, <2>3
    <3>2. Cardinality(new) = last - minted[u]
      <4>1. Cardinality({<<u, n>> : n \in minted[u] + 1 .. last}) = last - (minted[u] + 1) + 1
        BY <2>3, <3>1, RangeSize
      <4> QED BY <1>2, <2>3, <4>1
    <3>3. new \subseteq drawn
      BY <2>4, <2>5, <2>6 DEF drawn
    <3>4. IsFiniteSet(drawn)
      BY <1>3, FS_Subset DEF drawn
    <3> HIDE DEF new
    <3>5. Cardinality(new) <= Cardinality(drawn)
      BY <3>3, <3>4, FS_Subset
    <3> QED BY <1>2, <1>3, <1>5, <2>3, <3>2, <3>5
  <2>8. ASSUME NEW k \in new PROVE k[2] <= minted'[u]
    <3>1. k[2] \in Int
      BY <1>2, <2>3
    <3> QED BY <1>2, <1>3, <1>5, <2>3, <2>5, <2>7, <3>1
  <2> HIDE DEF new
  <2> QED BY <1>5, <2>4, <2>5, <2>8
<1> QED BY <1>6, <1>7

-----------------------------------------------------------------------------
(* The entry and the conversation.                                         *)

\* The bootstrap u refused, which has moved the entry and is pulled at every poll.
Awaits(u, row) ==
  /\ row.from = app[u].directory.device
  /\ made[row.id].to = app[u].device
  /\ made[row.id].boot # None
  /\ made[row.id].boot.identity = app[u].directory.identity
  /\ row \notin processed[u]

Screen(u) ==
  app[u].conversation # None =>
    /\ app[u].directory # None
    /\ \/ app[u].conversation.peer.device = app[u].directory.device
       \/ app[u].token /\ \E row \in queue : Awaits(u, row)

EntryInv == KeysAreOld /\ \A u \in Users : Screen(u)

\* A client that takes no part in a step that leaves the rows for it.
LEMMA ScreenOfOthers ==
  ASSUME IInv, NEW v \in Users, Screen(v), app'[v] = app[v], processed'[v] = processed[v],
         \A i \in 1 .. Len(made) : made'[i] = made[i],
         \A row \in queue : row \in queue' \/ made[row.id].to # app[v].device
  PROVE  Screen(v)'
<1>1. \A row \in queue : row.id \in 1 .. Len(made)
  BY DEF IInv, ServerOk
<1>2. ASSUME NEW row \in queue, Awaits(v, row) PROVE row \in queue' /\ Awaits(v, row)'
  BY <1>1, <1>2 DEF Awaits
<1> QED BY <1>2 DEF Screen

\* A step of u that leaves the queue, the envelopes and the processed alone.
LEMMA EntrySigning ==
  ASSUME IInv, IInv', EntryInv, NEW u \in Users, Signing(u)
  PROVE  EntryInv'
<1>1. TypeOK /\ app[u] \in UpmApp /\ AppOk(u, app[u], Len(accounts), pins[u])
  BY SecretsFacts DEF IInv
<1>2. UNCHANGED <<made, queue, processed>>
  BY DEF Signing, Login, Register, Restart, Logout, SetVisibility, server, store
<1>3. ASSUME Screen(u)', \A v \in Users \ {u} : app'[v] = app[v]
      PROVE  \A v \in Users : Screen(v)'
  BY <1>2, <1>3, ScreenOfOthers DEF EntryInv
<1>4. \A id \in 1 .. Len(made') : id \in 1 .. Len(made) /\ made'[id] = made[id]
  BY <1>2
<1>5. minted \in [Users -> Nat] /\ minted[u] \in Nat /\ PoolSize \in Nat
  BY <1>1, ContactsAssumption DEF TypeOK
<1>6. ASSUME NEW me \in UpmApp, NEW known, NEW failed, Authenticate(u, me, known, failed),
             me.conversation # None =>
               me.directory # None /\ me.conversation.peer.device = me.directory.device,
             UNCHANGED minted \/ minted' = [minted EXCEPT ![u] = @ + 1 + PoolSize],
             Persisted(u, failed) \/ UNCHANGED kept,
             \A k \in me.secrets.pool :
               k \in app[u].secrets.pool \cup kept[u].pool \/ Old(k)'
      PROVE  EntryInv'
  <2>1. /\ app'[u].secrets = me.secrets /\ app'[u].conversation = me.conversation
        /\ app'[u].directory = me.directory
        /\ \A v \in Users \ {u} : app'[v] = app[v]
    BY <1>1, <1>6 DEF Authenticate, TypeOK, UpmApp
  <2>2. /\ kept'[u] \in {me.secrets, kept[u]}
        /\ \A v \in Users \ {u} : kept'[v] = kept[v]
    BY <1>1, <1>6, <2>1, PersistedFacts
  <2>3. \A row \in prekeys' : row \in prekeys \/ row.key \in me.secrets.pool
    BY <1>6 DEF Authenticate, PrekeysPublished
  <2>4. \A v \in Users : minted[v] <= minted'[v]
    BY <1>5, <1>6
  <2>5. KeysAreOld'
    BY <1>4, <1>6, <2>1, <2>2, <2>3, <2>4, KeysStep DEF EntryInv
  <2>6. Screen(u)'
    BY <1>6, <2>1 DEF Screen
  <2> QED BY <1>3, <2>1, <2>5, <2>6 DEF EntryInv
<1>7. ASSUME NEW failed \in SUBSET LoginCalls, Login(u, failed) PROVE EntryInv'
  <2>1. app[u].conversation # None =>
          app[u].directory # None /\ app[u].conversation.peer.device = app[u].directory.device
    BY <1>7 DEF Login, EntryInv, Screen
  <2>2. Authenticate(u, app[u], accounts, failed) /\ UNCHANGED minted
        /\ (Persisted(u, failed) \/ UNCHANGED kept)
    BY <1>7 DEF Login
  <2> QED BY <1>1, <1>6, <2>1, <2>2
<1>8. ASSUME NEW failed \in SUBSET (LoginCalls \cup {"answer"}), Register(u, failed)
      PROVE  EntryInv'
  <2>1. app[u].conversation # None =>
          app[u].directory # None /\ app[u].conversation.peer.device = app[u].directory.device
    BY <1>8 DEF Register, EntryInv, Screen
  <2>2. UNCHANGED minted /\ Len(accounts) < MaxAccounts
    BY <1>8 DEF Register
  <2>3. CASE "answer" \in failed
    <3>1. UNCHANGED <<app, prekeys, kept>>
      BY <1>8, <2>3 DEF Register
    <3>2. KeysAreOld'
      BY <1>2, <2>2, <3>1 DEF EntryInv, KeysAreOld, Old
    <3>3. Screen(u)'
      BY <2>1, <3>1 DEF Screen
    <3> QED BY <1>3, <3>1, <3>2, <3>3 DEF EntryInv
  <2>4. CASE "answer" \notin failed
    <3> DEFINE new == [app[u] EXCEPT !.device = Len(accounts) + 1]
    <3>1. Authenticate(u, new, Registered(u), failed) /\ Persisted(u, failed)
      BY <1>8, <2>4 DEF Register
    <3>2. /\ new \in UpmApp /\ new.secrets = app[u].secrets
          /\ new.conversation = app[u].conversation /\ new.directory = app[u].directory
      BY <1>1, <2>2, RegisteredFacts DEF UpmApp
    <3> HIDE DEF new
    <3> QED BY <1>6, <2>1, <2>2, <3>1, <3>2
  <2> QED BY <2>3, <2>4
<1>9. ASSUME NEW failed \in SUBSET (LoginCalls \cup {"secrets"}), Restart(u, failed)
      PROVE  EntryInv'
  <2> DEFINE readable == "secrets" \notin failed
             found == IF readable THEN kept[u] ELSE Generated(u, minted[u])
             me == [secrets |-> found, device |-> app[u].device, token |-> app[u].token,
                    visible |-> TRUE, directory |-> None, conversation |-> None]
  <2>1. /\ Persisted(u, failed)
        /\ minted' = IF readable THEN minted ELSE [minted EXCEPT ![u] = @ + 1 + PoolSize]
        /\ IF me.device # None
           THEN Authenticate(u, me, accounts, failed)
           ELSE app' = [app EXCEPT ![u] = me] /\ UNCHANGED <<accounts, prekeys>>
    BY <1>9 DEF Restart
  <2>2. found \in Secrets
    BY <1>5, SecretsFacts, GeneratedFacts
  <2>3. \A k \in found.pool : k \in kept[u].pool \/ Old(k)'
    <3>1. CASE readable
      BY <3>1
    <3>2. CASE ~readable
      <4>1. minted'[u] = minted[u] + 1 + PoolSize
        BY <1>5, <2>1, <3>2
      <4> QED BY <1>5, <3>2, <4>1 DEF Generated, Old
    <3> QED BY <3>1, <3>2
  <2>4. UNCHANGED minted \/ minted' = [minted EXCEPT ![u] = @ + 1 + PoolSize]
    BY <2>1
  <2> HIDE DEF readable, found
  <2>5. me \in UpmApp /\ me.secrets = found /\ me.conversation = None /\ me.device = app[u].device
    BY <1>1, <2>2 DEF UpmApp
  <2> HIDE DEF me
  <2>6. CASE me.device # None
    BY <1>6, <2>1, <2>3, <2>4, <2>5, <2>6
  <2>7. CASE me.device = None
    <3>1. app'[u] = me /\ UNCHANGED prekeys /\ \A v \in Users \ {u} : app'[v] = app[v]
      BY <1>1, <2>1, <2>7 DEF TypeOK
    <3>2. /\ kept'[u] \in {found, kept[u]}
          /\ \A v \in Users \ {u} : kept'[v] = kept[v]
      BY <1>1, <2>1, <2>5, <3>1, PersistedFacts
    <3>3. \A v \in Users : minted[v] <= minted'[v]
      BY <1>5, <2>4
    <3>4. KeysAreOld'
      BY <1>4, <2>3, <2>5, <3>1, <3>2, <3>3, KeysStep DEF EntryInv
    <3>5. Screen(u)'
      BY <2>5, <3>1 DEF Screen
    <3> QED BY <1>3, <3>1, <3>4, <3>5 DEF EntryInv
  <2> QED BY <2>6, <2>7
<1>10. ASSUME UNCHANGED <<prekeys, kept, minted>>, app'[u].secrets = app[u].secrets,
              \A v \in Users \ {u} : app'[v] = app[v], Screen(u)'
       PROVE  EntryInv'
  <2>1. KeysAreOld'
    <3>1. \A v \in Users : app'[v].secrets = app[v].secrets
      BY <1>10
    <3> QED BY <1>2, <1>10, <3>1 DEF EntryInv, KeysAreOld, Old
  <2> QED BY <1>3, <1>10, <2>1 DEF EntryInv
<1>11. CASE Logout(u)
  <2>1. UNCHANGED <<prekeys, kept, minted>>
    BY <1>11 DEF Logout, server
  <2>2. /\ app'[u].secrets = app[u].secrets /\ app'[u].conversation = None
        /\ \A v \in Users \ {u} : app'[v] = app[v]
    BY <1>1, <1>11 DEF Logout, TypeOK, UpmApp
  <2>3. Screen(u)'
    BY <2>2 DEF Screen
  <2> QED BY <1>10, <2>1, <2>2, <2>3
<1>12. ASSUME NEW failed \in SUBSET {"visibility"}, SetVisibility(u, failed) PROVE EntryInv'
  <2>1. UNCHANGED <<prekeys, kept, minted>>
    BY <1>12 DEF SetVisibility
  <2>2. /\ app'[u].secrets = app[u].secrets /\ app'[u].conversation = app[u].conversation
        /\ app'[u].device = app[u].device /\ app'[u].directory = app[u].directory
        /\ app'[u].token = app[u].token
        /\ \A v \in Users \ {u} : app'[v] = app[v]
    BY <1>1, <1>12 DEF SetVisibility, TypeOK, UpmApp
  <2>3. Screen(u)'
    BY <1>2, <2>2 DEF EntryInv, Screen, Awaits
  <2> QED BY <1>10, <2>1, <2>2, <2>3
<1> QED BY <1>7, <1>8, <1>9, <1>11, <1>12 DEF Signing

\* An envelope u seals names no prekey, or one the server has.
Names(e) == e.boot = None \/ e.boot.prekey = None \/ \E row \in prekeys : row.key = e.boot.prekey

\* A step of u that sends: what is on the screen afterwards is of the entry.
LEMMA EntrySent ==
  ASSUME IInv, IInv', EntryInv, NEW u \in Users, NEW c, NEW e,
         app' = [app EXCEPT ![u].directory = e, ![u].conversation = c],
         e # None, c.peer.device = e.device,
         made' = made \/ \E m : made' = Append(made, m) /\ Names(m),
         queue \subseteq queue',
         UNCHANGED <<prekeys, kept, minted, processed>>
  PROVE  EntryInv'
<1>1. TypeOK /\ app[u] \in UpmApp /\ made \in Seq(Envelope) /\ Len(made) \in Nat
  BY SecretsFacts, TypeFacts DEF IInv
<1>2. /\ app'[u].secrets = app[u].secrets /\ app'[u].directory = e
      /\ app'[u].conversation = c
      /\ \A v \in Users \ {u} : app'[v] = app[v]
  BY <1>1 DEF TypeOK, UpmApp
<1>3. \A i \in 1 .. Len(made) : made'[i] = made[i]
  BY <1>1
<1>4. \A id \in 1 .. Len(made') :
        \/ id \in 1 .. Len(made) /\ made'[id] = made[id]
        \/ Names(made'[id])
  BY <1>1
<1>5. minted \in [Users -> Nat]
  BY <1>1 DEF TypeOK
<1>6. KeysAreOld'
  <2>1. \A v \in Users : minted[v] <= minted'[v]
    BY <1>5
  <2>2. /\ \A v \in Users \ {u} : app'[v] = app[v] /\ kept'[v] = kept[v]
        /\ app'[u].secrets.pool \cup kept'[u].pool = app[u].secrets.pool \cup kept[u].pool
    BY <1>2
  <2>3. \A id \in 1 .. Len(made') :
          \/ id \in 1 .. Len(made) /\ made'[id] = made[id]
          \/ made'[id].boot = None
          \/ made'[id].boot.prekey = None
          \/ \E row \in prekeys : row.key = made'[id].boot.prekey
    BY <1>4 DEF Names
  <2> QED BY <2>1, <2>2, <2>3, KeysStep DEF EntryInv
<1>7. \A v \in Users \ {u} : Screen(v)'
  BY <1>2, <1>3, ScreenOfOthers DEF EntryInv
<1>8. Screen(u)'
  BY <1>2 DEF Screen
<1> QED BY <1>6, <1>7, <1>8 DEF EntryInv

\* A conversation that is ensured is of the entry.
LEMMA EnsuredIsOfEntry ==
  ASSUME IInv, NEW u \in Users
  PROVE  Ensured(u).peer.device = app[u].directory.device
BY DEF Ensured, Opening

LEMMA EntrySendPayload ==
  ASSUME IInv, IInv', EntryInv, NEW u \in Users, NEW c, NEW boot, NEW s, NEW failed,
         app[u].directory # None, c.peer.device = app[u].directory.device,
         boot = None \/ boot.prekey = None \/ \E row \in prekeys : row.key = boot.prekey,
         SendPayload(u, c, boot, s, failed),
         UNCHANGED <<prekeys, kept, minted, processed>>
  PROVE  EntryInv'
<1> DEFINE m == [to |-> c.peer.device, boot |-> boot, key |-> SealedBy(s)]
           c2 == IF failed \cap {"send", "answer"} = {}
                 THEN [c EXCEPT !.session = AfterSealing(s)] ELSE c
<1>1. made' = Append(made, m) /\ Names(m)
  BY DEF SendPayload, Names
<1>2. queue \subseteq queue'
  BY DEF SendPayload
<1>3. app' = [app EXCEPT ![u].conversation = c2]
  BY DEF SendPayload
<1>4. app[u] \in UpmApp /\ app \in [Users -> UpmApp]
  BY SecretsFacts DEF IInv, TypeOK
<1>5. app' = [app EXCEPT ![u].directory = app[u].directory, ![u].conversation = c2]
  BY <1>3, <1>4 DEF UpmApp
<1>6. c2.peer.device = app[u].directory.device
  OBVIOUS
<1> HIDE DEF m, c2
<1> QED BY <1>1, <1>2, <1>5, <1>6, EntrySent

LEMMA EntrySending ==
  ASSUME IInv, IInv', EntryInv, NEW u \in Users, Sending(u)
  PROVE  EntryInv'
<1>1. TypeOK /\ app[u] \in UpmApp /\ app \in [Users -> UpmApp]
  BY SecretsFacts DEF IInv, TypeOK
<1>2. ASSUME NEW d \in Devices, Resolve(u, d) PROVE EntryInv'
  <2> DEFINE e == [device |-> d, identity |-> accounts[d].identity]
  <2>1. /\ app' = [app EXCEPT ![u].directory = e, ![u].conversation = Opening(u, e)]
        /\ UNCHANGED <<made, queue, prekeys, kept, minted, processed>>
    BY <1>2 DEF Resolve, server
  <2>2. Opening(u, e).peer.device = e.device
    BY DEF Opening
  <2>3. e # None
    <3>1. accounts[d] \in Account
      BY <1>1, <1>2, TypeFacts DEF Resolve, Resolved
    <3> QED BY <3>1, ContactsAssumption DEF Account
  <2> HIDE DEF e
  <2> QED BY <2>1, <2>2, <2>3, EntrySent
<1>3. ASSUME NEW failed, SendNext(u, failed) PROVE EntryInv'
  <2>1. /\ app[u].directory # None /\ SendPayload(u, Ensured(u), None, Ensured(u).session, failed)
        /\ UNCHANGED <<prekeys, kept, minted, processed>>
    BY <1>3 DEF SendNext, MaySend
  <2> QED BY <2>1, EnsuredIsOfEntry, EntrySendPayload
<1>4. ASSUME NEW k, NEW failed, SendFirst(u, k, failed),
             k = None \/ \E row \in prekeys : row.key = k
      PROVE  EntryInv'
  <2> DEFINE c == Ensured(u)
             boot == [identity |-> app[u].secrets.identity, ephemeral |-> Ephemeral(u),
                      prekey |-> k]
             s == NewSession(Initiate(app[u].secrets.identity, accounts[c.peer.device].bundle,
                                      Ephemeral(u), k), "initiator")
  <2>1. /\ app[u].directory # None
        /\ UNCHANGED <<prekeys, kept, minted, processed>>
    BY <1>4 DEF SendFirst, MaySend
  <2>2. c.peer.device = app[u].directory.device
    BY EnsuredIsOfEntry
  <2>3. boot.prekey = k
    OBVIOUS
  <2>4. CASE "claim" \in failed
    <3>1. app' = [app EXCEPT ![u].conversation = c] /\ UNCHANGED <<made, queue>>
      BY <1>4, <2>4 DEF SendFirst
    <3>2. app' = [app EXCEPT ![u].directory = app[u].directory, ![u].conversation = c]
      BY <1>1, <3>1 DEF UpmApp
    <3> HIDE DEF c
    <3> QED BY <2>1, <2>2, <3>1, <3>2, EntrySent
  <2>5. CASE "claim" \notin failed
    <3>1. SendPayload(u, c, boot, s, failed)
      BY <1>4, <2>5 DEF SendFirst
    <3> HIDE DEF c, boot, s
    <3> QED BY <1>4, <2>1, <2>2, <2>3, <3>1, EntrySendPayload
  <2> QED BY <2>4, <2>5
<1>5. ASSUME NEW failed, SendRefused(u, failed) PROVE EntryInv'
  <2> DEFINE c == Ensured(u)
  <2>1. /\ app[u].directory # None /\ app' = [app EXCEPT ![u].conversation = c]
        /\ UNCHANGED <<made, queue, prekeys, kept, minted, processed>>
    BY <1>5 DEF SendRefused, MaySend, server, store
  <2>2. app' = [app EXCEPT ![u].directory = app[u].directory, ![u].conversation = c]
    BY <1>1, <2>1 DEF UpmApp
  <2>3. c.peer.device = app[u].directory.device
    BY EnsuredIsOfEntry
  <2> HIDE DEF c
  <2> QED BY <2>1, <2>2, <2>3, EntrySent
<1>6. ASSUME NEW item \in outbox[u], NEW failed, Retry(u, item, failed) PROVE EntryInv'
  <2>1. /\ queue \subseteq queue'
        /\ UNCHANGED <<app, made, prekeys, kept, minted, processed>>
    BY <1>6 DEF Retry
  <2>2. KeysAreOld'
    BY <2>1 DEF EntryInv, KeysAreOld, Old
  <2>3. \A v \in Users : Screen(v)'
    BY <2>1, ScreenOfOthers DEF EntryInv
  <2> QED BY <2>2, <2>3 DEF EntryInv
<1>7. /\ \A row \in prekeys : \A failed : SendFirst(u, row.key, failed) => EntryInv'
      /\ \A failed : SendFirst(u, None, failed) => EntryInv'
  BY <1>4
<1> QED BY <1>2, <1>3, <1>5, <1>6, <1>7 DEF Sending

\* A step of u that reads: no other client loses a row, and u only the one it
\* has read.
LEMMA EntryPolled ==
  ASSUME IInv, OwnDevices, NEW u \in Users, NEW row, Pulled(u, row),
         \A other \in queue : other \in queue' \/ other = row,
         \A v \in Users \ {u} : app'[v] = app[v] /\ processed'[v] = processed[v],
         made' = made, KeysAreOld', Screen(u)', EntryInv
  PROVE  EntryInv'
<1>1. made[row.id].to = app[u].device /\ app[u].device # None
  BY SecretsFacts DEF Pulled, AppOk
<1>2. ASSUME NEW v \in Users \ {u} PROVE Screen(v)'
  <2>1. made[row.id].to # app[v].device
    BY <1>1, <1>2 DEF OwnDevices
  <2> QED BY <1>2, <2>1, ScreenOfOthers DEF EntryInv
<1> QED BY <1>2 DEF EntryInv

\* What poll leaves on the screen when it has read, or could not.
LEMMA ReadInEntry ==
  ASSUME NEW u, NEW row, ~PeerKnown(u, row)
  PROVE  ReadIn(u, row).peer = DirectoryAfter(u, row)
BY DEF ReadIn, DirectoryAfter

\* A sender poll accepts has an entry.
LEMMA EntryOfIsThere ==
  ASSUME IInv, NEW u \in Users, NEW row, Pulled(u, row), Acceptable(u, row)
  PROVE  EntryOf(u, row) # None
<1>1. row.from \in Devices /\ made[row.id].boot \in Bootstrap
  BY PulledFacts DEF Acceptable
<1>2. \/ EntryOf(u, row) = app[u].directory /\ app[u].directory # None
      \/ EntryOf(u, row) \in [device : Devices, identity : Key]
  BY <1>1 DEF EntryOf, Bootstrap
<1> QED BY <1>2, ContactsAssumption

LEMMA EntryRead ==
  ASSUME IInv, IInv', OwnDevices, EntryInv, NEW u \in Users, NEW row,
         NEW failed \in SUBSET Calls, Read(u, row, failed)
  PROVE  EntryInv'
<1> DEFINE c == ReadIn(u, row)
           entry == DirectoryAfter(u, row)
           after == AfterReading(c.session, made[row.id].key)
           boot == made[row.id].boot
           spoilt == "commit" \in failed
           secrets == IF spoilt THEN app[u].secrets ELSE SecretsAfter(u, boot)
           c2 == [c EXCEPT !.session = after]
<1>1. /\ Arrives(u, row, {}) /\ Drawn(u, app[u].secrets, secrets)
      /\ app' = [app EXCEPT ![u].directory = entry, ![u].conversation = c2,
                            ![u].secrets = secrets]
      /\ Persisted(u, failed) \/ UNCHANGED kept
      /\ CommitFails(u, row, after) \/ CommitIncoming(u, row, after)
      /\ queue' \in {queue, queue \ {row}}
      /\ UNCHANGED <<prekeys, made>>
  BY DEF Read
<1>2. TypeOK /\ app[u] \in UpmApp /\ app[u].secrets \in Secrets
      /\ processed \in [Users -> SUBSET Row]
  BY SecretsFacts DEF IInv, TypeOK
<1>3. Pulled(u, row) /\ row \in Row /\ row.from \in Devices /\ boot \in Bootstrap \cup {None}
  BY <1>1, PulledFacts DEF Arrives
<1>4. c2.peer = c.peer /\ (~PeerKnown(u, row) => c.peer = entry)
  BY ReadInEntry
<1>5. c \in Conversation /\ c.peer.device = row.from /\ entry \in Entry \cup {None}
  BY <1>1, ReadInFacts
<1>6. /\ \A v \in Users : minted[v] <= minted'[v]
      /\ \A k \in secrets.pool :
           \/ k \in app[u].secrets.pool
           \/ k[1] = u /\ minted[u] < k[2] /\ k[2] <= minted'[u]
  <2>1. CASE spoilt
    <3>1. Cardinality(secrets.pool \ app[u].secrets.pool) = 0
      BY <2>1, FS_EmptySet
    <3> QED BY <1>1, <1>2, <2>1, <3>1 DEF Drawn, TypeOK
  <2>2. CASE ~spoilt
    <3>1. secrets = SecretsAfter(u, boot)
      BY <2>2
    <3> HIDE DEF boot, secrets, spoilt
    <3> QED BY <1>1, <1>3, <3>1, DrawnFacts DEF EntryInv
  <2> QED BY <2>1, <2>2
<1>7. \A other \in processed'[u] : other \in processed[u] \/ other = row
  BY <1>1, <1>2 DEF CommitFails, CommitIncoming
<1>8. \A v \in Users \ {u} : processed'[v] = processed[v]
  BY <1>1, <1>2 DEF CommitFails, CommitIncoming
<1> HIDE DEF c, c2, entry, after, boot, spoilt, secrets
<1>9. /\ app'[u].directory = entry /\ app'[u].conversation = c2
      /\ app'[u].secrets = secrets /\ app'[u].device = app[u].device
      /\ app'[u].token = app[u].token
      /\ \A v \in Users \ {u} : app'[v] = app[v]
  BY <1>1, <1>2 DEF TypeOK, UpmApp
<1>10. /\ kept'[u] \in {secrets, kept[u]}
       /\ \A v \in Users \ {u} : kept'[v] = kept[v]
  BY <1>1, <1>2, <1>9, PersistedFacts
<1>11. KeysAreOld'
  <2>1. \A k \in app'[u].secrets.pool \cup kept'[u].pool :
          k \in app[u].secrets.pool \cup kept[u].pool \/ Old(k)'
    BY <1>6, <1>9, <1>10 DEF Old
  <2> QED BY <1>1, <1>6, <1>9, <1>10, <2>1, KeysStep DEF EntryInv
<1>12. Screen(u)'
  <2>1. CASE ~PeerKnown(u, row)
    <3>1. entry # None
      BY <1>1, <1>3, <2>1, EntryOfIsThere DEF entry, DirectoryAfter, Arrives
    <3> QED BY <1>4, <1>9, <2>1, <3>1 DEF Screen
  <2>2. CASE PeerKnown(u, row)
    <3>1. entry = app[u].directory /\ c.peer = app[u].conversation.peer
          /\ app[u].conversation # None /\ app[u].conversation.peer.device = row.from
      BY <2>2 DEF entry, DirectoryAfter, c, ReadIn, PeerKnown
    <3>2. app[u].directory # None
      BY <3>1 DEF EntryInv, Screen
    <3>3. CASE app[u].conversation.peer.device = app[u].directory.device
      BY <1>4, <1>9, <3>1, <3>2, <3>3 DEF Screen
    <3>4. CASE app[u].conversation.peer.device # app[u].directory.device
      <4>1. PICK other \in queue : Awaits(u, other)
        BY <3>1, <3>4 DEF EntryInv, Screen
      <4>2. other # row
        BY <3>1, <3>4, <4>1 DEF Awaits
      <4>3. other \in queue' /\ other \notin processed'[u]
        BY <1>1, <1>7, <4>1, <4>2 DEF Awaits
      <4>4. Awaits(u, other)'
        BY <1>1, <1>9, <3>1, <4>1, <4>3 DEF Awaits
      <4>5. app[u].token
        BY <1>3 DEF Pulled
      <4> QED BY <1>9, <3>1, <3>2, <4>3, <4>4, <4>5 DEF Screen
    <3> QED BY <3>3, <3>4
  <2> QED BY <2>1, <2>2
<1> QED BY <1>1, <1>3, <1>8, <1>9, <1>11, <1>12, EntryPolled

LEMMA EntryPolling ==
  ASSUME IInv, IInv', OwnDevices, EntryInv, NEW u \in Users, Polling(u)
  PROVE  EntryInv'
<1>1. TypeOK /\ app[u] \in UpmApp
  BY SecretsFacts DEF IInv
<1>2. {{}, {"commit"}, {"ack"}, {"save"}} \subseteq SUBSET Calls
  BY DEF Calls, LoginCalls
<1>3. PICK row \in queue :
        \/ SkipProcessed(u, row)
        \/ \E damaged \in Damages : RefuseBootstrap(u, row, damaged)
        \/ \E damaged \in Damages : CannotRead(u, row, damaged)
        \/ \E failed \in SUBSET Calls : Read(u, row, failed)
  BY <1>2 DEF Polling
<1>4. ASSUME UNCHANGED <<prekeys, kept, minted, made>>,
             \A v \in Users : app'[v].secrets = app[v].secrets
      PROVE  KeysAreOld'
  BY <1>4 DEF EntryInv, KeysAreOld, Old
<1>5. CASE SkipProcessed(u, row)
  <2>1. /\ Pulled(u, row) /\ row \in processed[u] /\ queue' = queue \ {row}
        /\ UNCHANGED <<prekeys, kept, minted, made, app, processed>>
    BY <1>5 DEF SkipProcessed, store
  <2>2. KeysAreOld'
    BY <1>4, <2>1
  <2>3. ASSUME NEW other \in queue, Awaits(u, other)
        PROVE  other \in queue' /\ Awaits(u, other)'
    BY <2>1, <2>3 DEF Awaits
  <2>4. Screen(u)'
    BY <2>1, <2>3 DEF EntryInv, Screen
  <2> QED BY <2>1, <2>2, <2>4, EntryPolled
<1>6. ASSUME NEW damaged, RefuseBootstrap(u, row, damaged) PROVE EntryInv'
  <2> DEFINE entry == EntryOf(u, row)
  <2>1. /\ Pulled(u, row) /\ Acceptable(u, row) /\ row \notin processed[u]
        /\ app' = [app EXCEPT ![u].directory = entry]
        /\ UNCHANGED <<prekeys, kept, minted, made, queue, processed>>
    BY <1>6 DEF RefuseBootstrap, server
  <2>2. /\ entry # None /\ entry.device = row.from
        /\ entry.identity = made[row.id].boot.identity
    BY <2>1, EntryOfIsThere, EntryOfFacts
  <2> HIDE DEF entry
  <2>3. /\ app'[u].directory = entry /\ app'[u].conversation = app[u].conversation
        /\ app'[u].secrets = app[u].secrets /\ app'[u].device = app[u].device
        /\ app'[u].token = app[u].token
        /\ \A v \in Users \ {u} : app'[v] = app[v]
    BY <1>1, <2>1 DEF TypeOK, UpmApp
  <2>4. \A v \in Users : app'[v].secrets = app[v].secrets
    BY <2>3
  <2>5. KeysAreOld'
    BY <1>4, <2>1, <2>4
  <2>6. Awaits(u, row)'
    BY <2>1, <2>2, <2>3 DEF Awaits, Pulled, Acceptable
  <2>7. app[u].token /\ row \in queue'
    BY <2>1 DEF Pulled
  <2>8. Screen(u)'
    BY <2>2, <2>3, <2>6, <2>7 DEF Screen
  <2> QED BY <2>1, <2>3, <2>5, <2>8, EntryPolled
<1>7. ASSUME NEW damaged, CannotRead(u, row, damaged) PROVE EntryInv'
  <2> DEFINE entry == DirectoryAfter(u, row)
             c == ReadIn(u, row)
  <2>1. /\ Arrives(u, row, damaged)
        /\ app' = [app EXCEPT ![u].directory = entry, ![u].conversation = c]
        /\ UNCHANGED <<prekeys, kept, minted, made, queue, processed>>
    BY <1>7 DEF CannotRead, server
  <2>2. Pulled(u, row)
    BY <2>1 DEF Arrives
  <2>3. CASE ~PeerKnown(u, row)
    <3>1. c.peer = entry
      BY <2>3, ReadInEntry
    <3>2. entry # None
      BY <2>1, <2>2, <2>3, EntryOfIsThere DEF DirectoryAfter, Arrives
    <3> HIDE DEF c, entry
    <3> QED BY <2>1, <3>1, <3>2, EntrySent
  <2>4. CASE PeerKnown(u, row)
    <3>1. entry = app[u].directory /\ c = app[u].conversation
      BY <2>4 DEF DirectoryAfter, ReadIn
    <3> HIDE DEF c, entry
    <3>2. app' = app
      BY <1>1, <2>1, <3>1 DEF TypeOK, UpmApp
    <3>3. KeysAreOld'
      BY <1>4, <2>1, <3>2
    <3>4. \A v \in Users : Screen(v)'
      BY <2>1, <3>2 DEF EntryInv, Screen, Awaits
    <3> QED BY <3>3, <3>4 DEF EntryInv
  <2> QED BY <2>3, <2>4
<1>8. ASSUME NEW failed \in SUBSET Calls, Read(u, row, failed) PROVE EntryInv'
  BY <1>8, EntryRead
<1> QED BY <1>3, <1>5, <1>6, <1>7, <1>8

LEMMA EntryInvHolds == Spec => []EntryInv
<1>1. Init => EntryInv
  <2> SUFFICES ASSUME Init PROVE EntryInv
    OBVIOUS
  <2>1. PoolSize \in Nat
    BY ContactsAssumption
  <2>2. ASSUME NEW u \in Users
        PROVE  /\ app[u].secrets = Generated(u, 0) /\ kept[u] = Generated(u, 0)
               /\ app[u].conversation = None /\ minted[u] = 1 + PoolSize
    BY DEF Init
  <2>3. \A u \in Users : \A k \in Generated(u, 0).pool : Old(k)
    <3> SUFFICES ASSUME NEW u \in Users, NEW n \in 2 .. 1 + PoolSize PROVE Old(<<u, n>>)
      BY <2>1 DEF Generated
    <3> QED BY <2>1, <2>2 DEF Old
  <2>4. prekeys = {} /\ Len(made) = 0
    BY DEF Init
  <2> QED BY <2>2, <2>3, <2>4 DEF EntryInv, KeysAreOld, Screen
<1>2. IInv /\ IInv' /\ BoxInv /\ EntryInv /\ [Next]_vars => EntryInv'
  <2> SUFFICES ASSUME IInv, IInv', OwnDevices, EntryInv, [Next]_vars PROVE EntryInv'
    BY DEF BoxInv
  <2>1. CASE UNCHANGED vars
    BY <2>1 DEF vars, server, store, EntryInv, KeysAreOld, Old, Screen, Awaits
  <2> QED BY <2>1, EntrySigning, EntrySending, EntryPolling DEF Next
<1> QED BY <1>1, <1>2, IInvHolds, BoxInvHolds, PTL DEF Spec

-----------------------------------------------------------------------------
(* A prekey belongs to one identity, and a session to a message.           *)

\* Where k is in a pool, it is with the identity i.
OfOne(k, i) ==
  \A u \in Users :
    /\ k \in app[u].secrets.pool => app[u].secrets.identity = i
    /\ k \in kept[u].pool => kept[u].identity = i

PoolsAgree ==
  /\ \A u \in Users :
       /\ \A k \in app[u].secrets.pool : OfOne(k, app[u].secrets.identity)
       /\ \A k \in kept[u].pool : OfOne(k, kept[u].identity)
  /\ \A row \in prekeys :
       row.device \in 1 .. Len(accounts) /\ OfOne(row.key, accounts[row.device].identity)

\* Whoever has the prekey of e agrees on the secret of e.
Agrees(e) == \E i \in Key : OfOne(e.boot.prekey, i) /\ e.key.secret = Respond(i, e.boot)

EnvelopesAgree ==
  \A id \in 1 .. Len(made) :
    made[id].boot # None /\ made[id].boot.prekey # None => Agrees(made[id])

\* A responder has the secret of a message.
Matched(s) ==
  s.role = "responder" => \E id \in 1 .. Len(made) : made[id].key.secret = s.secret

\* ... or was opened by a message without a prekey, and has read nothing.
Unmatched(u, s) ==
  /\ app[u].token /\ s.read = {}
  /\ \E id \in 1 .. Len(made) :
       made[id].to = app[u].device /\ made[id].boot # None /\ made[id].boot.prekey = None

SessionsMatch(u) ==
  /\ \A d \in Devices : stored[u][d] # None => Matched(stored[u][d])
  /\ \A item \in outbox[u] : Matched(item.after)
  /\ app[u].conversation # None /\ app[u].conversation.session # None =>
       \/ Matched(app[u].conversation.session)
       \/ Unmatched(u, app[u].conversation.session)

AgreeInv == PoolsAgree /\ EnvelopesAgree /\ \A u \in Users : SessionsMatch(u)

\* A step of u after which its secrets are sec: what is in the pool was there
\* with the same identity, or is new.
Draws(u, sec) ==
  /\ app'[u].secrets = sec
  /\ kept'[u] \in {sec, kept[u]}
  /\ \A v \in Users \ {u} : app'[v] = app[v] /\ kept'[v] = kept[v]
  /\ \A k \in sec.pool :
       \/ k \in app[u].secrets.pool /\ sec.identity = app[u].secrets.identity
       \/ k \in kept[u].pool /\ sec.identity = kept[u].identity
       \/ k[1] = u /\ minted[u] < k[2]

\* An old prekey stays with its identity.
LEMMA OfOneStays ==
  ASSUME IInv, NEW u \in Users, NEW sec, Draws(u, sec), NEW k \in Key, Old(k),
         NEW i, OfOne(k, i)
  PROVE  OfOne(k, i)'
<1>1. k[2] \in Nat /\ minted[u] \in Nat
  BY DEF IInv, TypeOK, Key
<1>2. k \in sec.pool => sec.identity = i
  BY <1>1 DEF Draws, OfOne, Old
<1>3. ASSUME NEW v \in Users
      PROVE  /\ k \in app'[v].secrets.pool => app'[v].secrets.identity = i
             /\ k \in kept'[v].pool => kept'[v].identity = i
  <2>1. CASE v = u
    BY <1>2, <2>1 DEF Draws, OfOne
  <2>2. CASE v # u
    BY <2>2 DEF Draws, OfOne
  <2> QED BY <2>1, <2>2
<1> QED BY <1>3 DEF OfOne

\* A new one is nowhere else.
LEMMA NewIsOfOne ==
  ASSUME IInv, KeysAreOld, NEW u \in Users, NEW sec, Draws(u, sec),
         NEW k \in sec.pool, k \in Key, k[1] = u, minted[u] < k[2]
  PROVE  OfOne(k, sec.identity)'
<1>1. k[2] \in Nat /\ minted[u] \in Nat /\ ~Old(k)
  BY DEF IInv, TypeOK, Key, Old
<1>2. \A v \in Users : k \notin app[v].secrets.pool /\ k \notin kept[v].pool
  BY <1>1 DEF KeysAreOld
<1>3. ASSUME NEW v \in Users
      PROVE  /\ k \in app'[v].secrets.pool => app'[v].secrets.identity = sec.identity
             /\ k \in kept'[v].pool => kept'[v].identity = sec.identity
  <2>1. CASE v = u
    BY <1>2, <2>1 DEF Draws
  <2>2. CASE v # u
    BY <1>2, <2>2 DEF Draws
  <2> QED BY <2>1, <2>2
<1>4. \A i : i = sec.identity => OfOne(k, i)'
  BY <1>3 DEF OfOne
<1> QED BY <1>4

LEMMA PoolsStep ==
  ASSUME IInv, IInv', KeysAreOld, PoolsAgree, NEW u \in Users, NEW sec, Draws(u, sec),
         Len(accounts) <= Len(accounts'),
         \A d \in 1 .. Len(accounts) : accounts'[d].identity = accounts[d].identity,
         \A row \in prekeys' :
           \/ row \in prekeys
           \/ /\ row.key \in sec.pool /\ row.device \in 1 .. Len(accounts')
              /\ accounts'[row.device].identity = sec.identity
  PROVE  PoolsAgree'
<1>1. /\ Len(accounts) \in Nat /\ Len(accounts') \in Nat
      /\ prekeys \subseteq Prekey
  BY TypeFacts DEF IInv, TypeOK
<1>2. \A v \in Users : app[v].secrets.pool \subseteq Key /\ kept[v].pool \subseteq Key
  BY SecretsFacts DEF Secrets
<1>3. sec.pool \subseteq Key
  BY SecretsFacts DEF Secrets, Draws, IInv, TypeOK, UpmApp
<1>4. ASSUME NEW k \in sec.pool PROVE \A i : i = sec.identity => OfOne(k, i)'
  <2>1. k \in Key
    BY <1>3
  <2>2. CASE k \in app[u].secrets.pool /\ sec.identity = app[u].secrets.identity
    BY <2>1, <2>2, OfOneStays DEF PoolsAgree, KeysAreOld
  <2>3. CASE k \in kept[u].pool /\ sec.identity = kept[u].identity
    BY <2>1, <2>3, OfOneStays DEF PoolsAgree, KeysAreOld
  <2>4. CASE k[1] = u /\ minted[u] < k[2]
    BY <2>1, <2>4, NewIsOfOne
  <2> QED BY <2>2, <2>3, <2>4 DEF Draws
<1>5. ASSUME NEW v \in Users
      PROVE  /\ \A k \in app[v].secrets.pool : \A i : i = app[v].secrets.identity => OfOne(k, i)'
             /\ \A k \in kept[v].pool : \A i : i = kept[v].identity => OfOne(k, i)'
  BY <1>2, OfOneStays DEF PoolsAgree, KeysAreOld
<1>6. ASSUME NEW row \in prekeys PROVE \A i : i = accounts[row.device].identity => OfOne(row.key, i)'
  BY <1>1, OfOneStays DEF PoolsAgree, KeysAreOld, Prekey
<1>7. ASSUME NEW v \in Users
      PROVE  /\ \A k \in app'[v].secrets.pool : OfOne(k, app[v].secrets.identity)'
             /\ \A k \in kept'[v].pool : OfOne(k, kept[v].identity)'
  <2>1. CASE v = u
    BY <1>4, <1>5, <2>1 DEF Draws, OfOne
  <2>2. CASE v # u
    BY <1>5, <2>2 DEF Draws, OfOne
  <2> QED BY <2>1, <2>2
<1>8. ASSUME NEW row \in prekeys'
      PROVE  row.device \in 1 .. Len(accounts') /\ OfOne(row.key, accounts[row.device].identity)'
  <2>1. CASE row \in prekeys
    <3>1. /\ row.device \in 1 .. Len(accounts)
          /\ accounts'[row.device].identity = accounts[row.device].identity
      BY <2>1 DEF PoolsAgree
    <3> QED BY <1>1, <1>6, <2>1, <3>1 DEF OfOne
  <2>2. CASE row.key \in sec.pool /\ row.device \in 1 .. Len(accounts')
             /\ accounts'[row.device].identity = sec.identity
    BY <1>4, <2>2 DEF OfOne
  <2> QED BY <2>1, <2>2
<1> QED BY <1>7, <1>8 DEF PoolsAgree

LEMMA EnvelopesStep ==
  ASSUME IInv, KeysAreOld, EnvelopesAgree, NEW u \in Users, NEW sec, Draws(u, sec),
         \A id \in 1 .. Len(made') :
           \/ id \in 1 .. Len(made) /\ made'[id] = made[id]
           \/ made'[id].boot = None
           \/ made'[id].boot.prekey = None
           \/ /\ made'[id].boot.prekey \in Key /\ Old(made'[id].boot.prekey)
              /\ Agrees(made'[id])
  PROVE  EnvelopesAgree'
<1>1. ASSUME NEW e, e.boot.prekey \in Key, Old(e.boot.prekey), Agrees(e)
      PROVE  \E i \in Key : OfOne(e.boot.prekey, i)' /\ e.key.secret = Respond(i, e.boot)
  <2>1. PICK i \in Key : OfOne(e.boot.prekey, i) /\ e.key.secret = Respond(i, e.boot)
    BY <1>1 DEF Agrees
  <2>2. PICK k : k = e.boot.prekey
    OBVIOUS
  <2>3. OfOne(k, i)'
    BY <1>1, <2>1, <2>2, OfOneStays
  <2> QED BY <2>1, <2>2, <2>3 DEF OfOne
<1>2. ASSUME NEW id \in 1 .. Len(made'), made'[id].boot # None, made'[id].boot.prekey # None
      PROVE  Agrees(made[id])'
  <2>1. PICK e : e = made'[id]
    OBVIOUS
  <2>2. e.boot.prekey \in Key /\ Old(e.boot.prekey) /\ Agrees(e)
    <3>1. CASE id \in 1 .. Len(made) /\ made'[id] = made[id]
      <4>1. made[id] \in Envelope
        BY <3>1, TypeFacts DEF IInv
      <4> QED BY <1>2, <2>1, <3>1, <4>1 DEF KeysAreOld, EnvelopesAgree, Envelope, Bootstrap
    <3>2. CASE e.boot.prekey \in Key /\ Old(e.boot.prekey) /\ Agrees(e)
      BY <3>2
    <3> QED BY <1>2, <2>1, <3>1, <3>2
  <2>3. \E i \in Key : OfOne(e.boot.prekey, i)' /\ e.key.secret = Respond(i, e.boot)
    BY <1>1, <2>2
  <2> QED BY <2>1, <2>3 DEF Agrees, OfOne
<1> QED BY <1>2 DEF EnvelopesAgree

\* Sessions keep their message.
LEMMA MatchedStays ==
  ASSUME Grows, NEW s, Matched(s), IInv, IInv'
  PROVE  Matched(s)'
<1>1. Len(made) \in Nat /\ Len(made') \in Nat
  BY TypeFacts DEF IInv
<1> QED BY <1>1 DEF Grows, Matched

LEMMA SessionsOfOthers ==
  ASSUME IInv, IInv', Grows, NEW v \in Users, SessionsMatch(v),
         app'[v] = app[v], stored'[v] = stored[v], outbox'[v] = outbox[v]
  PROVE  SessionsMatch(v)'
<1>1. \A s : Matched(s) => \A t : t = s => Matched(t)'
  BY MatchedStays DEF Matched
<1>2. \A d \in Devices : stored'[v][d] # None => Matched(stored[v][d])'
  BY <1>1 DEF SessionsMatch
<1>3. \A item \in outbox'[v] : Matched(item.after)'
  BY <1>1 DEF SessionsMatch
<1>4. \A s : Unmatched(v, s) => \A t : t = s => Unmatched(v, t)'
  <2>1. Len(made) \in Nat /\ Len(made') \in Nat
    BY TypeFacts DEF IInv
  <2> QED BY <2>1 DEF Grows, Unmatched
<1>5. app'[v].conversation # None /\ app'[v].conversation.session # None =>
        \/ Matched(app[v].conversation.session)'
        \/ Unmatched(v, app[v].conversation.session)'
  BY <1>1, <1>4 DEF SessionsMatch
<1> QED BY <1>2, <1>3, <1>5 DEF SessionsMatch

\* A step of u that seals nothing and leaves its store alone.
LEMMA AgreeStep ==
  ASSUME IInv, IInv', KeysAreOld, AgreeInv, NEW u \in Users, NEW sec, Draws(u, sec),
         Len(accounts) <= Len(accounts'),
         \A d \in 1 .. Len(accounts) : accounts'[d].identity = accounts[d].identity,
         \A row \in prekeys' :
           \/ row \in prekeys
           \/ /\ row.key \in sec.pool /\ row.device \in 1 .. Len(accounts')
              /\ accounts'[row.device].identity = sec.identity,
         UNCHANGED <<made, stored, outbox>>, SessionsMatch(u)'
  PROVE  AgreeInv'
<1>1. Grows
  BY TypeFacts DEF IInv, Grows
<1>2. PoolsAgree'
  BY PoolsStep DEF AgreeInv
<1>3. EnvelopesAgree'
  BY EnvelopesStep DEF AgreeInv
<1>4. \A v \in Users \ {u} : SessionsMatch(v)'
  BY <1>1, SessionsOfOthers DEF AgreeInv, Draws
<1> QED BY <1>2, <1>3, <1>4 DEF AgreeInv

\* A step of u that keeps its secrets, the accounts and the prekeys.
LEMMA AgreeQuiet ==
  ASSUME IInv, IInv', KeysAreOld, AgreeInv, NEW u \in Users,
         app'[u].secrets = app[u].secrets, UNCHANGED <<kept, prekeys>>,
         \A v \in Users \ {u} : app'[v] = app[v],
         Len(accounts) <= Len(accounts'),
         \A d \in 1 .. Len(accounts) : accounts'[d].identity = accounts[d].identity,
         UNCHANGED <<made, stored, outbox>>, SessionsMatch(u)'
  PROVE  AgreeInv'
<1>1. Draws(u, app[u].secrets)
  BY DEF Draws
<1> QED BY <1>1, AgreeStep

LEMMA AgreeAuthenticate ==
  ASSUME IInv, IInv', KeysAreOld, AgreeInv, NEW u \in Users,
         NEW me \in UpmApp, NEW known \in Seq(Account), NEW failed,
         me.device \in 1 .. Len(known), me.device \in Devices,
         Authenticate(u, me, known, failed),
         Len(accounts) <= Len(known),
         \A d \in 1 .. Len(accounts) : known[d].identity = accounts[d].identity,
         me.conversation # None =>
           ~app[u].token /\ me.conversation = app[u].conversation,
         Persisted(u, failed) \/ UNCHANGED kept,
         \A k \in me.secrets.pool :
           \/ k \in app[u].secrets.pool /\ me.secrets.identity = app[u].secrets.identity
           \/ k \in kept[u].pool /\ me.secrets.identity = kept[u].identity
           \/ k[1] = u /\ minted[u] < k[2],
         UNCHANGED <<made, stored, outbox>>
  PROVE  AgreeInv'
<1>1. TypeOK
  BY DEF IInv
<1>2. /\ app'[u].secrets = me.secrets /\ app'[u].conversation = me.conversation
      /\ \A v \in Users \ {u} : app'[v] = app[v]
  BY <1>1 DEF Authenticate, TypeOK, UpmApp
<1>3. /\ kept'[u] \in {me.secrets, kept[u]}
      /\ \A v \in Users \ {u} : kept'[v] = kept[v]
  BY <1>1, <1>2, PersistedFacts
<1>4. Draws(u, me.secrets)
  BY <1>2, <1>3 DEF Draws
<1>5. /\ Len(accounts') = Len(known)
      /\ \A d \in 1 .. Len(known) : accounts'[d].identity = known[d].identity
  BY <1>1, AuthenticateFacts
<1>6. Len(accounts) <= Len(accounts')
      /\ \A d \in 1 .. Len(accounts) : accounts'[d].identity = accounts[d].identity
  BY <1>1, <1>5, TypeFacts, LenProperties
<1>7. ASSUME NEW row \in prekeys', row \notin prekeys
      PROVE  /\ row.key \in me.secrets.pool /\ row.device \in 1 .. Len(accounts')
             /\ accounts'[row.device].identity = me.secrets.identity
  <2>1. /\ Verifies(me, known, failed)
        /\ row.key \in me.secrets.pool /\ row.device = me.device
    BY <1>7 DEF Authenticate, PrekeysPublished
  <2> QED BY <1>5, <2>1 DEF Verifies
<1>8. SessionsMatch(u)'
  BY <1>2 DEF AgreeInv, SessionsMatch, Matched, Unmatched
<1> QED BY <1>4, <1>6, <1>7, <1>8, AgreeStep

LEMMA AgreeSigning ==
  ASSUME IInv, IInv', KeysAreOld, AgreeInv, NEW u \in Users, Signing(u)
  PROVE  AgreeInv'
<1>1. /\ TypeOK /\ app[u] \in UpmApp /\ AppOk(u, app[u], Len(accounts), pins[u])
      /\ accounts \in Seq(Account) /\ Len(accounts) \in Nat
      /\ minted \in [Users -> Nat] /\ PoolSize \in Nat
  BY SecretsFacts, TypeFacts, ContactsAssumption DEF IInv, TypeOK
<1>2. UNCHANGED <<made, stored, outbox>>
  BY DEF Signing, Login, Register, Restart, Logout, SetVisibility, server, store
<1>3. app[u].device # None => app[u].device \in 1 .. Len(accounts) /\ app[u].device \in Devices
  BY <1>1, TypeFacts DEF AppOk
<1>4. ASSUME NEW failed \in SUBSET LoginCalls, Login(u, failed) PROVE AgreeInv'
  <2>1. /\ app[u].device # None /\ ~app[u].token
        /\ Authenticate(u, app[u], accounts, failed)
        /\ Persisted(u, failed) \/ UNCHANGED kept
    BY <1>4 DEF Login
  <2> QED BY <1>1, <1>2, <1>3, <2>1, AgreeAuthenticate
<1>5. ASSUME NEW failed \in SUBSET (LoginCalls \cup {"answer"}), Register(u, failed)
      PROVE  AgreeInv'
  <2>1. ~app[u].token /\ Len(accounts) < MaxAccounts
    BY <1>5 DEF Register
  <2>2. /\ Registered(u) \in Seq(Account)
        /\ Len(Registered(u)) = Len(accounts) + 1
        /\ Len(accounts) + 1 \in Devices
        /\ \A d \in 1 .. Len(accounts) : Registered(u)[d] = accounts[d]
    BY <2>1, RegisteredFacts
  <2>3. CASE "answer" \in failed
    <3>1. accounts' = Registered(u) /\ UNCHANGED <<app, prekeys, kept>>
      BY <1>5, <2>3 DEF Register
    <3>2. SessionsMatch(u)'
      BY <1>2, <3>1 DEF AgreeInv, SessionsMatch, Matched, Unmatched
    <3> QED BY <1>1, <1>2, <2>2, <3>1, <3>2, AgreeQuiet
  <2>4. CASE "answer" \notin failed
    <3> DEFINE new == [app[u] EXCEPT !.device = Len(accounts) + 1]
    <3>1. Authenticate(u, new, Registered(u), failed) /\ Persisted(u, failed)
      BY <1>5, <2>4 DEF Register
    <3>2. /\ new \in UpmApp /\ new.secrets = app[u].secrets
          /\ new.conversation = app[u].conversation /\ new.device = Len(accounts) + 1
      BY <1>1, <2>2 DEF UpmApp
    <3> HIDE DEF new
    <3>3. new.device \in 1 .. Len(Registered(u)) /\ Len(accounts) <= Len(Registered(u))
      BY <1>1, <2>2, <3>2
    <3> QED BY <1>2, <2>1, <2>2, <3>1, <3>2, <3>3, AgreeAuthenticate
  <2> QED BY <2>3, <2>4
<1>6. ASSUME NEW failed \in SUBSET (LoginCalls \cup {"secrets"}), Restart(u, failed)
      PROVE  AgreeInv'
  <2> DEFINE readable == "secrets" \notin failed
             found == IF readable THEN kept[u] ELSE Generated(u, minted[u])
             me == [secrets |-> found, device |-> app[u].device, token |-> app[u].token,
                    visible |-> TRUE, directory |-> None, conversation |-> None]
  <2>1. /\ Persisted(u, failed)
        /\ IF me.device # None
           THEN Authenticate(u, me, accounts, failed)
           ELSE app' = [app EXCEPT ![u] = me] /\ UNCHANGED <<accounts, prekeys>>
    BY <1>6 DEF Restart
  <2>2. found \in Secrets
    BY <1>1, SecretsFacts, GeneratedFacts
  <2>3. \A k \in found.pool :
          \/ k \in kept[u].pool /\ found.identity = kept[u].identity
          \/ k[1] = u /\ minted[u] < k[2]
    <3>1. CASE readable
      BY <3>1
    <3>2. CASE ~readable
      BY <1>1, <3>2 DEF Generated
    <3> QED BY <3>1, <3>2
  <2> HIDE DEF readable, found
  <2>4. me \in UpmApp /\ me.secrets = found /\ me.conversation = None /\ me.device = app[u].device
    BY <1>1, <2>2 DEF UpmApp
  <2> HIDE DEF me
  <2>5. CASE me.device # None
    BY <1>1, <1>2, <1>3, <2>1, <2>3, <2>4, <2>5, AgreeAuthenticate
  <2>6. CASE me.device = None
    <3>1. app'[u] = me /\ UNCHANGED <<accounts, prekeys>> /\ \A v \in Users \ {u} : app'[v] = app[v]
      BY <1>1, <2>1, <2>6 DEF TypeOK
    <3>2. /\ kept'[u] \in {found, kept[u]}
          /\ \A v \in Users \ {u} : kept'[v] = kept[v]
      BY <1>1, <2>1, <2>4, <3>1, PersistedFacts
    <3>3. Draws(u, found)
      BY <2>3, <2>4, <3>1, <3>2 DEF Draws
    <3>4. SessionsMatch(u)'
      BY <1>2, <2>4, <3>1 DEF AgreeInv, SessionsMatch, Matched
    <3> QED BY <1>1, <1>2, <3>1, <3>3, <3>4, AgreeStep
  <2> QED BY <2>5, <2>6
<1>7. CASE Logout(u)
  <2>1. UNCHANGED <<accounts, prekeys, kept>>
    BY <1>7 DEF Logout, server
  <2>2. /\ app'[u].secrets = app[u].secrets /\ app'[u].conversation = None
        /\ \A v \in Users \ {u} : app'[v] = app[v]
    BY <1>1, <1>7 DEF Logout, TypeOK, UpmApp
  <2>3. SessionsMatch(u)'
    BY <1>2, <2>2 DEF AgreeInv, SessionsMatch, Matched
  <2> QED BY <1>1, <1>2, <2>1, <2>2, <2>3, AgreeQuiet
<1>8. ASSUME NEW failed \in SUBSET {"visibility"}, SetVisibility(u, failed) PROVE AgreeInv'
  <2> DEFINE d == app[u].device
             a == [accounts[d] EXCEPT !.visible = ~app[u].visible]
  <2>1. UNCHANGED <<prekeys, kept>> /\ app[u].token /\ accounts' \in {accounts, [accounts EXCEPT ![d] = a]}
    BY <1>8 DEF SetVisibility
  <2>2. /\ app'[u].secrets = app[u].secrets /\ app'[u].conversation = app[u].conversation
        /\ app'[u].device = app[u].device /\ app'[u].token = app[u].token
        /\ \A v \in Users \ {u} : app'[v] = app[v]
    BY <1>1, <1>8 DEF SetVisibility, TypeOK, UpmApp
  <2>3. SessionsMatch(u)'
    BY <1>2, <2>2 DEF AgreeInv, SessionsMatch, Matched, Unmatched
  <2>4. d \in 1 .. Len(accounts) /\ accounts[d] \in Account
    BY <1>1, <1>3, <2>1, TypeFacts DEF AppOk
  <2>5. a \in Account /\ a.identity = accounts[d].identity
    BY <1>1, <2>4 DEF Account, UpmApp
  <2> HIDE DEF a, d
  <2>6. /\ Len(accounts') = Len(accounts)
        /\ \A e \in 1 .. Len(accounts) : accounts'[e].identity = accounts[e].identity
    <3>1. CASE accounts' = accounts
      BY <3>1
    <3>2. CASE accounts' = [accounts EXCEPT ![d] = a]
      BY <1>1, <2>4, <2>5, <3>2, AccountsUpdated
    <3> QED BY <2>1, <3>1, <3>2
  <2> QED BY <1>1, <1>2, <2>1, <2>2, <2>3, <2>6, AgreeQuiet
<1> QED BY <1>4, <1>5, <1>6, <1>7, <1>8 DEF Signing

\* Both ends of a handshake agree.
LEMMA BothAgree ==
  ASSUME NEW mine, NEW theirs, NEW ephemeral, NEW k, NEW boot,
         boot.identity = mine, boot.ephemeral = ephemeral, boot.prekey = k
  PROVE  Initiate(mine, theirs, ephemeral, k) = Respond(theirs, boot)
<1>1. \A x, y : Agree(x, y) = Agree(y, x)
  BY DEF Agree
<1> QED BY <1>1 DEF Initiate, Respond

\* The session a message is sent in is as good as the others.
LEMMA EnsuredMatches ==
  ASSUME IInv, AgreeInv, NEW u \in Users, app[u].directory # None, Ensured(u).session # None
  PROVE  Matched(Ensured(u).session) \/ Unmatched(u, Ensured(u).session)
<1>1. app[u].directory.device \in Devices
  BY SecretsFacts DEF UpmApp, Entry
<1> QED BY <1>1 DEF Ensured, Opening, AgreeInv, SessionsMatch

LEMMA SealsMatched ==
  ASSUME NEW u, NEW s, CanSeal(s), Matched(s) \/ Unmatched(u, s)
  PROVE  Matched(s)
BY DEF CanSeal, Matched, Unmatched

\* What is committed after sending has its message.
LEMMA OutgoingMatches ==
  ASSUME IInv, IInv', Grows, AgreeInv, NEW u \in Users, NEW item, item.id \in 1 .. Len(made'),
         Matched(item.after), CommitOutgoing(u, item)
  PROVE  /\ \A d \in Devices : stored'[u][d] # None => Matched(stored[u][d])'
         /\ \A other \in outbox'[u] : Matched(other.after)'
         /\ \A v \in Users \ {u} : stored'[v] = stored[v] /\ outbox'[v] = outbox[v]
<1>1. /\ stored \in [Users -> [Devices -> Session \cup {None}]]
      /\ outbox \in [Users -> SUBSET OutboxItem]
  BY DEF IInv, TypeOK
<1>2. made'[item.id].to \in Devices
  <2>1. made' \in Seq(Envelope)
    BY DEF IInv, TypeOK
  <2>2. made'[item.id] \in Envelope
    BY <2>1, ElementOfSeq
  <2> QED BY <2>2 DEF Envelope
<1>3. \A s : Matched(s) => \A t : t = s => Matched(t)'
  BY MatchedStays DEF Matched
<1>4. /\ stored'[u] = [stored[u] EXCEPT ![made'[item.id].to] = item.after]
      /\ outbox'[u] \subseteq outbox[u]
      /\ \A v \in Users \ {u} : stored'[v] = stored[v] /\ outbox'[v] = outbox[v]
  BY <1>1 DEF CommitOutgoing
<1>5. \A d \in Devices : stored'[u][d] \in {stored[u][d], item.after}
  BY <1>1, <1>4
<1>6. \A d \in Devices : stored'[u][d] # None => Matched(stored[u][d])'
  <2> SUFFICES ASSUME NEW d \in Devices, stored'[u][d] # None PROVE Matched(stored[u][d])'
    OBVIOUS
  <2>1. PICK s : s = stored'[u][d]
    OBVIOUS
  <2>2. Matched(s)
    BY <1>5, <2>1 DEF AgreeInv, SessionsMatch
  <2>3. Matched(s)'
    BY <2>2, MatchedStays
  <2> QED BY <2>1, <2>3 DEF Matched
<1>7. \A other \in outbox'[u] : Matched(other.after)'
  BY <1>4, MatchedStays DEF AgreeInv, SessionsMatch
<1> QED BY <1>4, <1>6, <1>7

LEMMA AgreeSendPayload ==
  ASSUME IInv, IInv', KeysAreOld, AgreeInv, NEW u \in Users, NEW c, NEW boot, NEW s \in Session,
         NEW failed, Matched(s), c.session # None => Matched(c.session) \/ Unmatched(u, c.session),
         \/ boot = None
         \/ boot.prekey = None
         \/ /\ boot.prekey \in Key /\ Old(boot.prekey)
            /\ \E i \in Key : OfOne(boot.prekey, i) /\ s.secret = Respond(i, boot),
         SendPayload(u, c, boot, s, failed), UNCHANGED <<accounts, prekeys, kept>>
  PROVE  AgreeInv'
<1> DEFINE m == [to |-> c.peer.device, boot |-> boot, key |-> SealedBy(s)]
           item == [id |-> Len(made) + 1, after |-> AfterSealing(s)]
           c2 == IF failed \cap {"send", "answer"} = {} THEN [c EXCEPT !.session = item.after] ELSE c
<1>1. /\ made' = Append(made, m)
      /\ app' = [app EXCEPT ![u].conversation = c2]
      /\ \/ CommitOutgoing(u, item)
         \/ outbox' = [outbox EXCEPT ![u] = @ \cup {item}] /\ UNCHANGED stored
  BY DEF SendPayload
<1>2. /\ app[u] \in UpmApp /\ app \in [Users -> UpmApp]
      /\ outbox \in [Users -> SUBSET OutboxItem]
      /\ made \in Seq(Envelope) /\ Len(made) \in Nat
  BY SecretsFacts, TypeFacts DEF IInv, TypeOK
<1>3. Matched(item.after)
  BY DEF AfterSealing, Matched, Session
<1>4. c2.session # None => Matched(c2.session) \/ Unmatched(u, c2.session)
  <2>1. c2 = c \/ c2.session = item.after \/ c2.session = c.session
    OBVIOUS
  <2> QED BY <1>3, <2>1
<1>5. m.boot = boot /\ m.key.secret = s.secret
  BY DEF SealedBy
<1>6. item.id = Len(made) + 1
  OBVIOUS
<1> HIDE DEF m, item, c2
<1>7. Len(made') = Len(made) + 1 /\ made'[Len(made) + 1] = m
      /\ \A i \in 1 .. Len(made) : made'[i] = made[i]
  BY <1>1, <1>2
<1>8. Grows
  BY <1>2, <1>7, TypeFacts DEF Grows, IInv
<1>9. /\ app'[u].secrets = app[u].secrets /\ app'[u].conversation = c2
      /\ app'[u].device = app[u].device /\ app'[u].token = app[u].token
      /\ \A v \in Users \ {u} : app'[v] = app[v]
  BY <1>1, <1>2 DEF UpmApp
<1>10. Draws(u, app[u].secrets)
  BY <1>9 DEF Draws
<1>11. PoolsAgree'
  BY <1>2, <1>10, TypeFacts, PoolsStep DEF AgreeInv, IInv
<1>12. EnvelopesAgree'
  <2>1. \/ m.boot = None \/ m.boot.prekey = None
        \/ m.boot.prekey \in Key /\ Old(m.boot.prekey) /\ Agrees(m)
    BY <1>5 DEF Agrees
  <2>2. ASSUME NEW id \in 1 .. Len(made')
        PROVE  \/ id \in 1 .. Len(made) /\ made'[id] = made[id]
               \/ made'[id] = m
    BY <1>2, <1>7
  <2> QED BY <1>10, <2>1, <2>2, EnvelopesStep DEF AgreeInv
<1>13. /\ \A d \in Devices : stored'[u][d] # None => Matched(stored[u][d])'
       /\ \A other \in outbox'[u] : Matched(other.after)'
       /\ \A v \in Users \ {u} : stored'[v] = stored[v] /\ outbox'[v] = outbox[v]
  <2>1. CASE CommitOutgoing(u, item)
    BY <1>2, <1>3, <1>6, <1>7, <1>8, <2>1, OutgoingMatches
  <2>2. CASE outbox' = [outbox EXCEPT ![u] = @ \cup {item}] /\ UNCHANGED stored
    <3>1. \A d \in Devices : stored'[u][d] # None => Matched(stored[u][d])'
      <4>1. SessionsMatch(u)
        BY DEF AgreeInv
      <4>2. ASSUME NEW d \in Devices, stored'[u][d] # None PROVE Matched(stored[u][d])'
        <5>1. stored'[u][d] = stored[u][d] /\ Matched(stored[u][d])
          BY <2>2, <4>1, <4>2 DEF SessionsMatch
        <5> QED BY <1>8, <5>1, MatchedStays DEF Matched
      <4> QED BY <4>2
    <3>2. /\ outbox'[u] = outbox[u] \cup {item}
          /\ \A v \in Users \ {u} : outbox'[v] = outbox[v]
      BY <1>2, <2>2
    <3>3. \A other \in outbox'[u] : Matched(other.after)'
      BY <1>3, <1>8, <3>2, MatchedStays DEF AgreeInv, SessionsMatch
    <3> QED BY <2>2, <3>1, <3>2, <3>3
  <2> QED BY <1>1, <2>1, <2>2
<1>14. PICK q : q = c2.session
  OBVIOUS
<1>15. SessionsMatch(u)'
  <2>1. q # None => Matched(q)' \/ Unmatched(u, q)'
    <3>1. Matched(q) => Matched(q)'
      BY <1>8, MatchedStays
    <3>2. Unmatched(u, q) => Unmatched(u, q)'
      BY <1>2, <1>7, <1>9 DEF Unmatched
    <3> QED BY <1>4, <1>14, <3>1, <3>2
  <2>2. q # None => Matched(app[u].conversation.session)'
                    \/ Unmatched(u, app[u].conversation.session)'
    BY <1>9, <1>14, <2>1 DEF Matched, Unmatched
  <2> QED BY <1>9, <1>13, <1>14, <2>2 DEF SessionsMatch
<1>16. \A v \in Users \ {u} : SessionsMatch(v)'
  BY <1>8, <1>9, <1>13, SessionsOfOthers DEF AgreeInv
<1> QED BY <1>11, <1>12, <1>15, <1>16 DEF AgreeInv

\* Sending shows a conversation that is as good as the others.
LEMMA AgreeShows ==
  ASSUME IInv, IInv', KeysAreOld, AgreeInv, NEW u \in Users, NEW c, NEW e,
         app' = [app EXCEPT ![u].directory = e, ![u].conversation = c],
         c # None /\ c.session # None => Matched(c.session) \/ Unmatched(u, c.session),
         UNCHANGED <<accounts, prekeys, kept, made, stored, outbox>>
  PROVE  AgreeInv'
<1>1. app[u] \in UpmApp /\ app \in [Users -> UpmApp] /\ Len(accounts) \in Nat
  BY SecretsFacts, TypeFacts DEF IInv, TypeOK
<1>2. /\ app'[u].secrets = app[u].secrets /\ app'[u].conversation = c
      /\ app'[u].device = app[u].device /\ app'[u].token = app[u].token
      /\ \A v \in Users \ {u} : app'[v] = app[v]
  BY <1>1 DEF UpmApp
<1>3. SessionsMatch(u)'
  <2>1. SessionsMatch(u) /\ UNCHANGED <<made, stored, outbox>>
    BY DEF AgreeInv
  <2>2. \A s : Matched(s)' <=> Matched(s)
    BY <2>1 DEF Matched
  <2>3. /\ \A d \in Devices : stored'[u][d] # None => Matched(stored[u][d])'
        /\ \A item \in outbox'[u] : Matched(item.after)'
    BY <2>1 DEF SessionsMatch, Matched
  <2>4. c # None /\ c.session # None => Matched(c.session)' \/ Unmatched(u, c.session)'
    BY <1>2, <2>1, <2>2 DEF Unmatched
  <2>5. app'[u].conversation # None /\ app'[u].conversation.session # None =>
          \/ Matched(app[u].conversation.session)'
          \/ Unmatched(u, app[u].conversation.session)'
    BY <1>2, <2>4 DEF Matched, Unmatched
  <2> QED BY <2>3, <2>5 DEF SessionsMatch
<1> QED BY <1>1, <1>2, <1>3, AgreeQuiet

LEMMA AgreeSending ==
  ASSUME IInv, IInv', KeysAreOld, AgreeInv, NEW u \in Users, Sending(u)
  PROVE  AgreeInv'
<1>1. app[u] \in UpmApp /\ app \in [Users -> UpmApp] /\ Len(accounts) \in Nat
  BY SecretsFacts, TypeFacts DEF IInv, TypeOK
<1>2. ASSUME NEW d \in Devices, Resolve(u, d) PROVE AgreeInv'
  <2> DEFINE e == [device |-> d, identity |-> accounts[d].identity]
             c == Opening(u, e)
  <2>1. /\ app' = [app EXCEPT ![u].directory = e, ![u].conversation = c]
        /\ UNCHANGED <<accounts, prekeys, kept, made, stored, outbox>>
    BY <1>2 DEF Resolve, server
  <2>2. c.session = stored[u][d]
    BY DEF Opening
  <2>3. c.session # None => Matched(c.session)
    BY <1>2, <2>2 DEF AgreeInv, SessionsMatch
  <2> HIDE DEF c, e
  <2> QED BY <2>1, <2>3, AgreeShows
<1>3. ASSUME NEW failed, SendNext(u, failed) PROVE AgreeInv'
  <2> DEFINE c == Ensured(u)
  <2>1. /\ app[u].directory # None /\ c.session # None /\ CanSeal(c.session)
        /\ SendPayload(u, c, None, c.session, failed)
        /\ UNCHANGED <<accounts, prekeys, kept>>
    BY <1>3 DEF SendNext, MaySend
  <2>2. c.session \in Session
    BY <2>1, EnsuredFacts DEF Conversation
  <2>3. Matched(c.session)
    BY <2>1, EnsuredMatches, SealsMatched
  <2> HIDE DEF c
  <2> QED BY <2>1, <2>2, <2>3, AgreeSendPayload
<1>4. ASSUME NEW k \in Key \cup {None}, NEW failed, SendFirst(u, k, failed) PROVE AgreeInv'
  <2> DEFINE c == Ensured(u)
             d == c.peer.device
             mine == app[u].secrets.identity
             theirs == accounts[d].bundle
             boot == [identity |-> mine, ephemeral |-> Ephemeral(u), prekey |-> k]
             s == NewSession(Initiate(mine, theirs, Ephemeral(u), k), "initiator")
  <2>1. /\ app[u].directory # None /\ c.session = None /\ theirs # None /\ MayClaim(d, k)
        /\ UNCHANGED <<accounts, prekeys, kept>>
    BY <1>4 DEF SendFirst, MaySend
  <2>2. CASE "claim" \in failed
    <3>1. /\ app' = [app EXCEPT ![u].conversation = c]
          /\ UNCHANGED <<made, stored, outbox>>
      BY <1>4, <2>2 DEF SendFirst
    <3>2. app' = [app EXCEPT ![u].directory = app[u].directory, ![u].conversation = c]
      BY <1>1, <3>1 DEF UpmApp
    <3> HIDE DEF c
    <3> QED BY <2>1, <3>1, <3>2, AgreeShows
  <2>3. CASE "claim" \notin failed
    <3>1. SendPayload(u, c, boot, s, failed)
      BY <1>4, <2>3 DEF SendFirst
    <3>2. d \in 1 .. Len(accounts)
      BY <2>1, EnsuredFacts DEF ConversationOk, EntryOk
    <3>3. theirs \in Key /\ theirs = accounts[d].identity
      <4>1. accounts[d] \in Account /\ theirs \in {None, accounts[d].identity}
        BY <3>2, TypeFacts DEF IInv, ServerOk
      <4> QED BY <2>1, <4>1 DEF Account
    <3>4. mine \in Key
      BY SecretsFacts DEF Secrets
    <3>5. Ephemeral(u) = <<"ephemeral", <<u, Len(made) + 1>>>> /\ <<u, Len(made) + 1>> \in Key
      BY TypeFacts DEF Ephemeral, Key, IInv
    <3>6. s \in Session
      BY <3>3, <3>4, <3>5, InitiateType
    <3>7. Matched(s) /\ s.secret = Initiate(mine, theirs, Ephemeral(u), k)
      BY DEF Matched, NewSession
    <3>8. Initiate(mine, theirs, Ephemeral(u), k) = Respond(theirs, boot)
      BY BothAgree
    <3>9. boot.prekey = k
      OBVIOUS
    <3>10. k # None => k \in Key /\ Old(k) /\ OfOne(k, theirs)
      <4> SUFFICES ASSUME k # None PROVE k \in Key /\ Old(k) /\ OfOne(k, theirs)
        OBVIOUS
      <4>1. PICK row \in prekeys : row.device = d /\ row.key = k
        BY <2>1 DEF MayClaim, Unclaimed
      <4> QED BY <3>3, <4>1 DEF AgreeInv, PoolsAgree, KeysAreOld
    <3> HIDE DEF c, d, mine, theirs, boot, s
    <3> QED BY <2>1, <3>1, <3>3, <3>6, <3>7, <3>8, <3>9, <3>10, AgreeSendPayload
  <2> QED BY <2>2, <2>3
<1>5. ASSUME NEW failed, SendRefused(u, failed) PROVE AgreeInv'
  <2> DEFINE c == Ensured(u)
  <2>1. /\ app[u].directory # None /\ app' = [app EXCEPT ![u].conversation = c]
        /\ UNCHANGED <<accounts, prekeys, kept, made, stored, outbox>>
    BY <1>5 DEF SendRefused, MaySend, server, store
  <2>2. app' = [app EXCEPT ![u].directory = app[u].directory, ![u].conversation = c]
    BY <1>1, <2>1 DEF UpmApp
  <2>3. c.session # None => Matched(c.session) \/ Unmatched(u, c.session)
    BY <2>1, EnsuredMatches
  <2> HIDE DEF c
  <2> QED BY <2>1, <2>2, <2>3, AgreeShows
<1>6. ASSUME NEW item \in outbox[u], NEW failed, Retry(u, item, failed) PROVE AgreeInv'
  <2>1. /\ CommitOutgoing(u, item) \/ UNCHANGED <<stored, outbox>>
        /\ UNCHANGED <<accounts, prekeys, app, kept, made>>
    BY <1>6 DEF Retry
  <2>2. CASE UNCHANGED <<stored, outbox>>
    BY <2>1, <2>2 DEF AgreeInv, PoolsAgree, EnvelopesAgree, SessionsMatch, OfOne, Agrees,
                      Matched, Unmatched
  <2>3. CASE CommitOutgoing(u, item)
    <3>1. PoolsAgree' /\ EnvelopesAgree'
      BY <2>1 DEF AgreeInv, PoolsAgree, EnvelopesAgree, OfOne, Agrees
    <3>2. Grows
      BY <1>1, <2>1, TypeFacts DEF Grows, IInv
    <3>3. Matched(item.after) /\ item.id \in 1 .. Len(made')
      BY <2>1 DEF AgreeInv, SessionsMatch, IInv, ClientOk, OutboxOk
    <3>4. /\ \A d \in Devices : stored'[u][d] # None => Matched(stored[u][d])'
          /\ \A other \in outbox'[u] : Matched(other.after)'
          /\ \A v \in Users \ {u} : stored'[v] = stored[v] /\ outbox'[v] = outbox[v]
      BY <2>3, <3>2, <3>3, OutgoingMatches
    <3>5. SessionsMatch(u)'
      BY <2>1, <3>4 DEF AgreeInv, SessionsMatch, Matched, Unmatched
    <3>6. \A v \in Users \ {u} : SessionsMatch(v)'
      BY <2>1, <3>2, <3>4, SessionsOfOthers DEF AgreeInv
    <3> QED BY <3>1, <3>5, <3>6 DEF AgreeInv
  <2> QED BY <2>1, <2>2, <2>3
<1>7. \A row \in prekeys : row.key \in Key \cup {None}
  BY RowKey DEF IInv
<1>8. /\ \A row \in prekeys : \A failed : SendFirst(u, row.key, failed) => AgreeInv'
      /\ \A failed : SendFirst(u, None, failed) => AgreeInv'
  BY <1>4, <1>7
<1> QED BY <1>2, <1>3, <1>5, <1>6, <1>8 DEF Sending

\* The session an envelope is read in, before it is.
LEMMA ArrivesMatches ==
  ASSUME IInv, AgreeInv, NEW u \in Users, NEW row,
         NEW damaged, Arrives(u, row, damaged)
  PROVE  Matched(ReadIn(u, row).session) \/ Unmatched(u, ReadIn(u, row).session)
<1>1. /\ Pulled(u, row) /\ app[u].token /\ made[row.id].to = app[u].device
      /\ row.id \in 1 .. Len(made) /\ made[row.id] \in Envelope
  BY PulledFacts DEF Arrives, Pulled
<1>2. CASE PeerKnown(u, row)
  BY <1>2 DEF Arrives, PeerKnown, ReadIn, AgreeInv, SessionsMatch
<1>3. CASE ~PeerKnown(u, row)
  <2> DEFINE boot == made[row.id].boot
             s == Responder(u, boot)
  <2>1. ReadIn(u, row).session = s /\ boot # None /\ boot \in Bootstrap
        /\ boot.prekey \in app[u].secrets.pool \cup {None}
    BY <1>1, <1>3 DEF Arrives, Acceptable, Establishes, ReadIn, Envelope
  <2>2. CASE boot.prekey \in app[u].secrets.pool
    <3>1. [boot EXCEPT !.prekey = boot.prekey] = boot
      BY <2>1 DEF Bootstrap
    <3>2. s.secret = Respond(app[u].secrets.identity, boot)
      BY <2>2, <3>1 DEF Responder, NewSession
    <3>3. boot.prekey # None
      BY <2>2, SecretsFacts, ContactsAssumption DEF Secrets
    <3>4. Agrees(made[row.id])
      BY <1>1, <2>1, <3>3 DEF AgreeInv, EnvelopesAgree
    <3>5. made[row.id].key.secret = s.secret
      BY <2>2, <3>2, <3>4 DEF Agrees, OfOne
    <3> QED BY <1>1, <2>1, <3>5 DEF Matched
  <2>3. CASE boot.prekey = None
    <3>1. s.read = {}
      BY DEF Responder, NewSession
    <3> QED BY <1>1, <2>1, <2>3, <3>1 DEF Unmatched
  <2> QED BY <2>1, <2>2, <2>3
<1> QED BY <1>2, <1>3

LEMMA AgreeRead ==
  ASSUME IInv, IInv', KeysAreOld, AgreeInv, NEW u \in Users, NEW row,
         NEW failed \in SUBSET Calls, Read(u, row, failed)
  PROVE  AgreeInv'
<1> DEFINE c == ReadIn(u, row)
           entry == DirectoryAfter(u, row)
           key == made[row.id].key
           after == AfterReading(c.session, key)
           boot == made[row.id].boot
           spoilt == "commit" \in failed
           secrets == IF spoilt THEN app[u].secrets ELSE SecretsAfter(u, boot)
           c2 == [c EXCEPT !.session = after]
<1>1. /\ Arrives(u, row, {}) /\ Drawn(u, app[u].secrets, secrets)
      /\ Opens(c.session, key)
      /\ app' = [app EXCEPT ![u].directory = entry, ![u].conversation = c2,
                            ![u].secrets = secrets]
      /\ Persisted(u, failed) \/ UNCHANGED kept
      /\ CommitFails(u, row, after) \/ CommitIncoming(u, row, after)
      /\ UNCHANGED <<accounts, prekeys, made, outbox>>
  BY DEF Read
<1>2. /\ TypeOK /\ app[u] \in UpmApp /\ app[u].secrets \in Secrets
      /\ stored \in [Users -> [Devices -> Session \cup {None}]]
      /\ Len(accounts) \in Nat
  BY SecretsFacts, TypeFacts DEF IInv, TypeOK
<1>3. /\ row.id \in 1 .. Len(made) /\ row.from \in Devices
      /\ boot \in Bootstrap \cup {None}
  BY <1>1, PulledFacts DEF Arrives
<1>4. c \in Conversation /\ c.session \in Session
  BY <1>1, ReadInFacts
<1>5. Matched(after)
  BY <1>1, <1>3, <1>4 DEF AfterReading, Opens, Matched, Session
<1>6. /\ secrets.identity = app[u].secrets.identity
      /\ \A k \in secrets.pool :
           \/ k \in app[u].secrets.pool
           \/ k[1] = u /\ minted[u] < k[2]
  <2>1. CASE spoilt
    BY <2>1
  <2>2. CASE ~spoilt
    <3>1. secrets = SecretsAfter(u, boot)
      BY <2>2
    <3>2. SecretsAfter(u, boot).identity = app[u].secrets.identity
      BY <1>2 DEF SecretsAfter, Refilled, Secrets
    <3> HIDE DEF boot, secrets, spoilt
    <3> QED BY <1>1, <1>3, <3>1, <3>2, DrawnFacts
  <2> QED BY <2>1, <2>2
<1>7. c2.session = after
  BY <1>4 DEF Conversation
<1> HIDE DEF c, c2, entry, key, after, boot, spoilt, secrets
<1>8. /\ app'[u].conversation = c2 /\ app'[u].secrets = secrets
      /\ \A v \in Users \ {u} : app'[v] = app[v]
  BY <1>1, <1>2 DEF TypeOK, UpmApp
<1>9. /\ kept'[u] \in {secrets, kept[u]}
      /\ \A v \in Users \ {u} : kept'[v] = kept[v]
  BY <1>1, <1>2, <1>8, PersistedFacts
<1>10. Draws(u, secrets)
  BY <1>6, <1>8, <1>9 DEF Draws
<1>11. PoolsAgree'
  BY <1>1, <1>2, <1>10, PoolsStep DEF AgreeInv
<1>12. EnvelopesAgree'
  BY <1>1, <1>10, EnvelopesStep DEF AgreeInv
<1>13. Grows
  BY <1>1, <1>2, TypeFacts DEF Grows
<1>14. /\ \A d \in Devices : stored'[u][d] \in {stored[u][d], after}
       /\ \A v \in Users \ {u} : stored'[v] = stored[v]
  BY <1>1, <1>2, <1>3 DEF CommitFails, CommitIncoming
<1>15. SessionsMatch(u)'
  <2>1. \A d \in Devices : stored'[u][d] # None => Matched(stored[u][d])'
    <3> SUFFICES ASSUME NEW d \in Devices, stored'[u][d] # None PROVE Matched(stored[u][d])'
      OBVIOUS
    <3>1. Matched(stored'[u][d])
      BY <1>5, <1>14 DEF AgreeInv, SessionsMatch
    <3> QED BY <1>1, <3>1 DEF Matched
  <2>2. \A item \in outbox'[u] : Matched(item.after)'
    BY <1>1 DEF AgreeInv, SessionsMatch, Matched
  <2>3. Matched(app'[u].conversation.session)
    BY <1>5, <1>7, <1>8
  <2>4. Matched(app[u].conversation.session)'
    BY <1>1, <2>3 DEF Matched
  <2> QED BY <2>1, <2>2, <2>4 DEF SessionsMatch
<1>16. \A v \in Users \ {u} : SessionsMatch(v)'
  BY <1>1, <1>8, <1>13, <1>14, SessionsOfOthers DEF AgreeInv
<1> QED BY <1>11, <1>12, <1>15, <1>16 DEF AgreeInv

LEMMA AgreePolling ==
  ASSUME IInv, IInv', KeysAreOld, AgreeInv, NEW u \in Users, Polling(u)
  PROVE  AgreeInv'
<1>1. app[u] \in UpmApp /\ app \in [Users -> UpmApp] /\ Len(accounts) \in Nat
  BY SecretsFacts, TypeFacts DEF IInv, TypeOK
<1>2. {{}, {"commit"}, {"ack"}, {"save"}} \subseteq SUBSET Calls
  BY DEF Calls, LoginCalls
<1>3. PICK row \in queue :
        \/ SkipProcessed(u, row)
        \/ \E damaged \in Damages : RefuseBootstrap(u, row, damaged)
        \/ \E damaged \in Damages : CannotRead(u, row, damaged)
        \/ \E failed \in SUBSET Calls : Read(u, row, failed)
  BY <1>2 DEF Polling
<1>4. CASE SkipProcessed(u, row)
  <2>1. UNCHANGED <<accounts, prekeys, app, kept, made, stored, outbox>>
    BY <1>4 DEF SkipProcessed, store
  <2> QED BY <2>1 DEF AgreeInv, PoolsAgree, EnvelopesAgree, SessionsMatch, OfOne, Agrees,
                      Matched, Unmatched
<1>5. ASSUME NEW damaged, RefuseBootstrap(u, row, damaged) PROVE AgreeInv'
  <2>1. /\ app' = [app EXCEPT ![u].directory = EntryOf(u, row)]
        /\ UNCHANGED <<accounts, prekeys, kept, made, stored, outbox>>
    BY <1>5 DEF RefuseBootstrap, server
  <2>2. app' = [app EXCEPT ![u].directory = EntryOf(u, row),
                           ![u].conversation = app[u].conversation]
    BY <1>1, <2>1 DEF UpmApp
  <2> DEFINE c == app[u].conversation
  <2>3. c # None /\ c.session # None => Matched(c.session) \/ Unmatched(u, c.session)
    BY DEF AgreeInv, SessionsMatch
  <2> HIDE DEF c
  <2>4. app' = [app EXCEPT ![u].directory = EntryOf(u, row), ![u].conversation = c]
    BY <2>2 DEF c
  <2> QED BY <2>1, <2>3, <2>4, AgreeShows
<1>6. ASSUME NEW damaged, CannotRead(u, row, damaged) PROVE AgreeInv'
  <2>1. /\ app' = [app EXCEPT ![u].directory = DirectoryAfter(u, row),
                              ![u].conversation = ReadIn(u, row)]
        /\ Arrives(u, row, damaged)
        /\ UNCHANGED <<accounts, prekeys, kept, made, stored, outbox>>
    BY <1>6 DEF CannotRead, server
  <2> QED BY <2>1, ArrivesMatches, AgreeShows
<1>7. ASSUME NEW failed \in SUBSET Calls, Read(u, row, failed) PROVE AgreeInv'
  BY <1>7, AgreeRead
<1> QED BY <1>3, <1>4, <1>5, <1>6, <1>7

LEMMA AgreeInvHolds == Spec => []AgreeInv
<1>1. Init => AgreeInv
  <2> SUFFICES ASSUME Init PROVE AgreeInv
    OBVIOUS
  <2>1. ASSUME NEW u \in Users
        PROVE  /\ app[u].secrets = Generated(u, 0) /\ kept[u] = Generated(u, 0)
               /\ app[u].conversation = None /\ outbox[u] = {}
               /\ \A d \in Devices : stored[u][d] = None
    BY DEF Init
  <2>2. PoolSize \in Nat
    BY ContactsAssumption
  <2>3. \A u \in Users : \A k \in Generated(u, 0).pool : k[1] = u
    BY DEF Generated
  <2>4. \A u \in Users : \A k \in Generated(u, 0).pool : OfOne(k, Generated(u, 0).identity)
    BY <2>1, <2>3 DEF OfOne
  <2>5. PoolsAgree
    BY <2>1, <2>4 DEF Init, PoolsAgree
  <2>6. EnvelopesAgree
    BY DEF Init, EnvelopesAgree
  <2>7. \A u \in Users : SessionsMatch(u)
    BY <2>1 DEF SessionsMatch
  <2> QED BY <2>5, <2>6, <2>7 DEF AgreeInv
<1>2. IInv /\ IInv' /\ EntryInv /\ AgreeInv /\ [Next]_vars => AgreeInv'
  <2> SUFFICES ASSUME IInv, IInv', KeysAreOld, AgreeInv, [Next]_vars PROVE AgreeInv'
    BY DEF EntryInv
  <2>1. CASE UNCHANGED vars
    <3>1. UNCHANGED <<accounts, prekeys, app, kept, made, stored, outbox>>
      BY <2>1 DEF vars, server, store
    <3> QED BY <3>1 DEF AgreeInv, PoolsAgree, EnvelopesAgree, SessionsMatch, OfOne, Agrees,
                        Matched, Unmatched
  <2> QED BY <2>1, AgreeSigning, AgreeSending, AgreePolling DEF Next
<1> QED BY <1>1, <1>2, IInvHolds, EntryInvHolds, PTL DEF Spec

-----------------------------------------------------------------------------
(* What a session has read.                                                *)

\* The position n that s has read is of the envelope id.
ReadAt(s, n, id) ==
  made[id].key.secret = s.secret /\ made[id].key.by # s.role /\ made[id].key.n = n

Processed(u, id) == \E row \in processed[u] : row.id = id
Uncommitted(u, id) == \E row \in uncommitted[u] : row.id = id

\* Something was committed to the session s with the device d after it.
Later(u, d, s) ==
  \/ \E row \in processed[u] : made[row.id].key.secret = s.secret
  \/ \E id \in 1 .. Len(made) :
       made[id].to = d /\ made[id].key.secret = s.secret /\ made[id].key.by = s.role

\* In memory, and in the store.
ReadHere(u, s) ==
  \A n \in s.read : \E id \in 1 .. Len(made) :
    ReadAt(s, n, id) /\ (Processed(u, id) \/ Uncommitted(u, id))
ReadThere(u, d, s) ==
  \A n \in s.read : \E id \in 1 .. Len(made) :
    ReadAt(s, n, id) /\ (Processed(u, id) \/ (Uncommitted(u, id) /\ Later(u, d, s)))

UnreadOk(u) ==
  /\ \A row \in processed[u] \cup uncommitted[u] : row.id \in 1 .. Len(made)
  /\ \A d \in Devices : stored[u][d] # None => ReadThere(u, d, stored[u][d])
  /\ \A item \in outbox[u] :
       /\ ReadHere(u, item.after)
       /\ made[item.id].key.secret = item.after.secret
       /\ made[item.id].key.by = item.after.role
  /\ app[u].conversation # None /\ app[u].conversation.session # None =>
       ReadHere(u, app[u].conversation.session)

\* What a step keeps of the envelopes, and of u's history.
Keeps == \A id \in 1 .. Len(made) : id \in 1 .. Len(made') /\ made'[id] = made[id]
Remembers(u) == processed[u] \subseteq processed'[u] /\ uncommitted[u] \subseteq uncommitted'[u]

LEMMA ReadStays ==
  ASSUME IInv, IInv', Keeps, NEW u \in Users, UnreadOk(u), Remembers(u), NEW s
  PROVE  /\ ReadHere(u, s) => ReadHere(u, s)'
         /\ \A d : ReadThere(u, d, s) => ReadThere(u, d, s)'
<1>1. /\ 1 .. Len(made) \subseteq 1 .. Len(made')
      /\ \A id \in 1 .. Len(made) : made'[id] = made[id]
  BY DEF Keeps
<1>2. \A n : \A id \in 1 .. Len(made) : ReadAt(s, n, id) => ReadAt(s, n, id)'
  BY <1>1 DEF ReadAt
<1>3. \A id : /\ Processed(u, id) => Processed(u, id)'
              /\ Uncommitted(u, id) => Uncommitted(u, id)'
  BY DEF Remembers, Processed, Uncommitted
<1>4. \A d : Later(u, d, s) => Later(u, d, s)'
  BY <1>1 DEF Remembers, UnreadOk, Later
<1>5. ReadHere(u, s) => ReadHere(u, s)'
  BY <1>1, <1>2, <1>3 DEF ReadHere
<1>6. \A d : ReadThere(u, d, s) => ReadThere(u, d, s)'
  BY <1>1, <1>2, <1>3, <1>4 DEF ReadThere
<1> QED BY <1>5, <1>6

\* A step that stores and queues nothing, and shows nothing new.
LEMMA UnreadQuiet ==
  ASSUME IInv, IInv', Keeps, NEW u \in Users, UnreadOk(u),
         processed'[u] = processed[u], uncommitted'[u] = uncommitted[u],
         stored'[u] = stored[u], outbox'[u] = outbox[u],
         NEW q, app'[u].conversation # None => app'[u].conversation.session = q,
         app'[u].conversation # None /\ q # None => ReadHere(u, q)
  PROVE  UnreadOk(u)'
<1>1. Remembers(u)
  BY DEF Remembers
<1>2. /\ 1 .. Len(made) \subseteq 1 .. Len(made')
      /\ \A id \in 1 .. Len(made) : made'[id] = made[id]
  BY DEF Keeps
<1>3. \A d \in Devices : stored'[u][d] # None => ReadThere(u, d, stored[u][d])'
  <2> SUFFICES ASSUME NEW d \in Devices, stored'[u][d] # None
               PROVE  ReadThere(u, d, stored[u][d])'
    OBVIOUS
  <2>1. PICK s : s = stored[u][d]
    OBVIOUS
  <2>2. ReadThere(u, d, s)'
    BY <1>1, <2>1, ReadStays DEF UnreadOk
  <2> QED BY <2>1, <2>2
<1>4. ASSUME NEW item \in outbox'[u]
      PROVE  /\ ReadHere(u, item.after)'
             /\ made'[item.id].key.secret = item.after.secret
             /\ made'[item.id].key.by = item.after.role
  <2>1. item \in outbox[u] /\ item.id \in 1 .. Len(made)
    BY DEF IInv, ClientOk, OutboxOk
  <2> QED BY <1>1, <1>2, <2>1, ReadStays DEF UnreadOk
<1>5. app'[u].conversation # None /\ app'[u].conversation.session # None =>
        ReadHere(u, app[u].conversation.session)'
  <2>1. ReadHere(u, q) => ReadHere(u, q)'
    BY <1>1, ReadStays
  <2> QED BY <2>1 DEF ReadHere, ReadAt
<1>6. \A row \in processed'[u] \cup uncommitted'[u] : row.id \in 1 .. Len(made')
  BY <1>2 DEF UnreadOk
<1> QED BY <1>3, <1>4, <1>5, <1>6 DEF UnreadOk

\* A step in which u takes no part.
LEMMA UnreadOfOthers ==
  ASSUME IInv, IInv', Keeps, NEW u \in Users, UnreadOk(u), app'[u] = app[u],
         processed'[u] = processed[u], uncommitted'[u] = uncommitted[u],
         stored'[u] = stored[u], outbox'[u] = outbox[u]
  PROVE  UnreadOk(u)'
<1>1. PICK q : q = app[u].conversation.session
  OBVIOUS
<1> QED BY <1>1, UnreadQuiet DEF UnreadOk

\* The conversation is still on the screen, or none is.
Forgets(u) ==
  /\ app'[u].conversation \in {app[u].conversation, None}
  /\ \A v \in Users \ {u} : app'[v] = app[v]

LEMMA UnreadSigning ==
  ASSUME IInv, IInv', \A v \in Users : UnreadOk(v), NEW u \in Users, Signing(u)
  PROVE  \A v \in Users : UnreadOk(v)'
<1>1. app[u] \in UpmApp /\ app \in [Users -> UpmApp]
      /\ Len(accounts) \in Nat /\ accounts \in Seq(Account)
  BY SecretsFacts, TypeFacts DEF IInv, TypeOK
<1>2. UNCHANGED <<made, stored, outbox, processed, uncommitted>>
  BY DEF Signing, Login, Register, Restart, Logout, SetVisibility, server, store
<1>3. ASSUME NEW me \in UpmApp, NEW known, NEW failed, Authenticate(u, me, known, failed)
      PROVE  /\ app'[u].conversation = me.conversation
             /\ \A v \in Users \ {u} : app'[v] = app[v]
  BY <1>1, <1>3 DEF Authenticate, UpmApp
<1>4. Forgets(u)
  <2>1. ASSUME NEW failed, Login(u, failed) PROVE Forgets(u)
    BY <1>1, <1>3, <2>1 DEF Login, Forgets
  <2>2. ASSUME NEW failed, Register(u, failed) PROVE Forgets(u)
    <3>1. CASE "answer" \in failed
      BY <2>2, <3>1 DEF Register, Forgets
    <3>2. CASE "answer" \notin failed
      <4> DEFINE new == [app[u] EXCEPT !.device = Len(accounts) + 1]
      <4>1. Authenticate(u, new, Registered(u), failed)
        BY <2>2, <3>2 DEF Register
      <4>2. Len(accounts) + 1 \in Devices
        BY <2>2, RegisteredFacts DEF Register
      <4>3. new \in UpmApp /\ new.conversation = app[u].conversation
        BY <1>1, <4>2 DEF UpmApp
      <4> HIDE DEF new
      <4> QED BY <1>3, <4>1, <4>3 DEF Forgets
    <3> QED BY <3>1, <3>2
  <2>3. ASSUME NEW failed, Restart(u, failed) PROVE Forgets(u)
    <3> DEFINE found == IF "secrets" \notin failed THEN kept[u] ELSE Generated(u, minted[u])
               me == [secrets |-> found, device |-> app[u].device, token |-> app[u].token,
                      visible |-> TRUE, directory |-> None, conversation |-> None]
    <3>1. IF me.device # None
          THEN Authenticate(u, me, accounts, failed)
          ELSE app' = [app EXCEPT ![u] = me]
      BY <2>3 DEF Restart
    <3>2. found \in Secrets
      BY SecretsFacts, GeneratedFacts DEF IInv, TypeOK
    <3> HIDE DEF found
    <3>3. me \in UpmApp /\ me.conversation = None
      BY <1>1, <3>2 DEF UpmApp
    <3> HIDE DEF me
    <3> QED BY <1>1, <1>3, <3>1, <3>3 DEF Forgets
  <2>4. ASSUME Logout(u) PROVE Forgets(u)
    BY <1>1, <2>4 DEF Logout, UpmApp, Forgets
  <2>5. ASSUME NEW failed, SetVisibility(u, failed) PROVE Forgets(u)
    BY <1>1, <2>5 DEF SetVisibility, UpmApp, Forgets
  <2> QED BY <2>1, <2>2, <2>3, <2>4, <2>5 DEF Signing
<1>5. Keeps
  BY <1>2 DEF Keeps
<1>6. UnreadOk(u)'
  <2>1. PICK q : q = app[u].conversation.session
    OBVIOUS
  <2> QED BY <1>2, <1>4, <1>5, <2>1, UnreadQuiet DEF UnreadOk, Forgets
<1>7. \A v \in Users \ {u} : UnreadOk(v)'
  BY <1>2, <1>4, <1>5, UnreadOfOthers DEF Forgets
<1> QED BY <1>6, <1>7

\* A step of u that shows another conversation.
LEMMA UnreadShows ==
  ASSUME IInv, IInv', \A v \in Users : UnreadOk(v), NEW u \in Users, NEW c, NEW e,
         app' = [app EXCEPT ![u].directory = e, ![u].conversation = c],
         c # None /\ c.session # None => ReadHere(u, c.session),
         UNCHANGED <<made, stored, outbox, processed, uncommitted>>
  PROVE  \A v \in Users : UnreadOk(v)'
<1>1. app[u] \in UpmApp /\ app \in [Users -> UpmApp]
  BY SecretsFacts DEF IInv, TypeOK
<1>2. app'[u].conversation = c /\ \A v \in Users \ {u} : app'[v] = app[v]
  BY <1>1 DEF UpmApp
<1>3. Keeps
  BY DEF Keeps
<1>4. UnreadOk(u)'
  <2>1. PICK q : q = c.session
    OBVIOUS
  <2> QED BY <1>2, <1>3, <2>1, UnreadQuiet
<1>5. \A v \in Users \ {u} : UnreadOk(v)'
  BY <1>2, <1>3, UnreadOfOthers
<1> QED BY <1>4, <1>5

LEMMA EnsuredRead ==
  ASSUME IInv, NEW u \in Users, UnreadOk(u), app[u].directory # None, Ensured(u).session # None
  PROVE  ReadHere(u, Ensured(u).session)
<1>1. app[u].directory.device \in Devices
  BY SecretsFacts DEF UpmApp, Entry
<1>2. \A d, s : ReadThere(u, d, s) => ReadHere(u, s)
  BY DEF ReadThere, ReadHere
<1> QED BY <1>1, <1>2 DEF Ensured, Opening, UnreadOk

\* The sender's commit: its own message is later than what the session read.
LEMMA OutgoingRead ==
  ASSUME IInv, IInv', Keeps, NEW u \in Users, UnreadOk(u), NEW item,
         item.id \in 1 .. Len(made'), item.after \in Session,
         made'[item.id].key.secret = item.after.secret,
         made'[item.id].key.by = item.after.role,
         ReadHere(u, item.after), CommitOutgoing(u, item),
         processed'[u] = processed[u], uncommitted'[u] = uncommitted[u],
         app'[u].conversation # None /\ app'[u].conversation.session # None =>
           ReadHere(u, app[u].conversation.session)'
  PROVE  UnreadOk(u)' /\ \A v \in Users \ {u} : stored'[v] = stored[v] /\ outbox'[v] = outbox[v]
<1>1. /\ stored \in [Users -> [Devices -> Session \cup {None}]]
      /\ outbox \in [Users -> SUBSET OutboxItem]
  BY DEF IInv, TypeOK
<1>2. Remembers(u)
  BY DEF Remembers
<1>3. PICK d : d = made'[item.id].to
  OBVIOUS
<1>4. d \in Devices
  <2>1. made' \in Seq(Envelope)
    BY DEF IInv, TypeOK
  <2>2. made'[item.id] \in Envelope
    BY <2>1, ElementOfSeq
  <2> QED BY <1>3, <2>2 DEF Envelope
<1>5. /\ stored'[u] = [stored[u] EXCEPT ![d] = item.after]
      /\ outbox'[u] \subseteq outbox[u]
      /\ \A v \in Users \ {u} : stored'[v] = stored[v] /\ outbox'[v] = outbox[v]
  BY <1>1, <1>3 DEF CommitOutgoing
<1>6. PICK s : s = item.after
  OBVIOUS
<1>7. ReadThere(u, d, s)'
  <2>1. ReadHere(u, s)'
    BY <1>2, <1>6, ReadStays
  <2>2. Later(u, d, s)'
    BY <1>3, <1>6 DEF Later
  <2> QED BY <2>1, <2>2 DEF ReadHere, ReadThere
<1>8. ASSUME NEW e \in Devices, stored'[u][e] # None
      PROVE  ReadThere(u, e, stored[u][e])'
  <2>1. CASE e = d
    <3>1. stored'[u][e] = s
      BY <1>1, <1>4, <1>5, <1>6, <2>1
    <3> QED BY <1>7, <2>1, <3>1
  <2>2. CASE e # d
    <3>1. PICK t : t = stored[u][e]
      OBVIOUS
    <3>2. stored'[u][e] = t
      BY <1>1, <1>5, <2>2, <3>1
    <3>3. ReadThere(u, e, t)'
      BY <1>2, <1>8, <3>1, <3>2, ReadStays DEF UnreadOk
    <3> QED BY <3>2, <3>3
  <2> QED BY <2>1, <2>2
<1>9. ASSUME NEW other \in outbox'[u]
      PROVE  /\ ReadHere(u, other.after)'
             /\ made'[other.id].key.secret = other.after.secret
             /\ made'[other.id].key.by = other.after.role
  <2>1. other \in outbox[u] /\ other.id \in 1 .. Len(made)
    BY <1>5 DEF IInv, ClientOk, OutboxOk
  <2> QED BY <1>2, <2>1, ReadStays DEF UnreadOk, Keeps
<1>10. \A row \in processed'[u] \cup uncommitted'[u] : row.id \in 1 .. Len(made')
  BY DEF UnreadOk, Keeps
<1> QED BY <1>5, <1>8, <1>9, <1>10 DEF UnreadOk

LEMMA UnreadSendPayload ==
  ASSUME IInv, IInv', \A v \in Users : UnreadOk(v), NEW u \in Users, NEW c, NEW boot,
         NEW s \in Session, NEW failed, ReadHere(u, s),
         c.session # None => ReadHere(u, c.session),
         SendPayload(u, c, boot, s, failed), UNCHANGED <<processed, uncommitted>>
  PROVE  \A v \in Users : UnreadOk(v)'
<1> DEFINE m == [to |-> c.peer.device, boot |-> boot, key |-> SealedBy(s)]
           item == [id |-> Len(made) + 1, after |-> AfterSealing(s)]
           c2 == IF failed \cap {"send", "answer"} = {} THEN [c EXCEPT !.session = item.after] ELSE c
<1>1. /\ made' = Append(made, m)
      /\ app' = [app EXCEPT ![u].conversation = c2]
      /\ \/ CommitOutgoing(u, item)
         \/ outbox' = [outbox EXCEPT ![u] = @ \cup {item}] /\ UNCHANGED stored
  BY DEF SendPayload
<1>2. /\ app[u] \in UpmApp /\ app \in [Users -> UpmApp]
      /\ outbox \in [Users -> SUBSET OutboxItem]
      /\ made \in Seq(Envelope) /\ Len(made) \in Nat
  BY SecretsFacts, TypeFacts DEF IInv, TypeOK
<1>3. item.after \in Session /\ ReadHere(u, item.after)
  <2>1. item.after \in Session /\ item.after.read = s.read /\ item.after.secret = s.secret
        /\ item.after.role = s.role
    BY DEF AfterSealing, Session
  <2> QED BY <2>1 DEF ReadHere, ReadAt
<1>4. c2.session # None => ReadHere(u, c2.session)
  <2>1. c2 = c \/ c2.session = item.after \/ c2.session = c.session
    OBVIOUS
  <2> QED BY <1>3, <2>1
<1>5. m.key.secret = item.after.secret /\ m.key.by = item.after.role /\ item.id = Len(made) + 1
  BY DEF SealedBy, AfterSealing, Session
<1> HIDE DEF m, item, c2
<1>6. Len(made') = Len(made) + 1 /\ made'[Len(made) + 1] = m
      /\ \A i \in 1 .. Len(made) : made'[i] = made[i]
  BY <1>1, <1>2
<1>7. Keeps
  BY <1>2, <1>6 DEF Keeps
<1>8. app'[u].conversation = c2 /\ \A v \in Users \ {u} : app'[v] = app[v]
  BY <1>1, <1>2 DEF UpmApp
<1>9. Remembers(u)
  BY DEF Remembers
<1>10. PICK q : q = c2.session
  OBVIOUS
<1>11. app'[u].conversation # None /\ app'[u].conversation.session # None =>
         ReadHere(u, app[u].conversation.session)'
  <2>1. q # None => ReadHere(u, q)'
    BY <1>4, <1>7, <1>9, <1>10, ReadStays
  <2> QED BY <1>8, <1>10, <2>1 DEF ReadHere, ReadAt
<1>12. UnreadOk(u)' /\ \A v \in Users \ {u} : stored'[v] = stored[v] /\ outbox'[v] = outbox[v]
  <2>1. CASE CommitOutgoing(u, item)
    BY <1>2, <1>3, <1>5, <1>6, <1>7, <1>11, <2>1, OutgoingRead
  <2>2. CASE outbox' = [outbox EXCEPT ![u] = @ \cup {item}] /\ UNCHANGED stored
    <3>1. /\ outbox'[u] = outbox[u] \cup {item}
          /\ \A v \in Users \ {u} : outbox'[v] = outbox[v]
      BY <1>2, <2>2
    <3>2. ASSUME NEW d \in Devices, stored'[u][d] # None
          PROVE  ReadThere(u, d, stored[u][d])'
      <4>1. PICK t : t = stored[u][d]
        OBVIOUS
      <4>2. ReadThere(u, d, t)'
        BY <1>7, <1>9, <2>2, <3>2, <4>1, ReadStays DEF UnreadOk
      <4> QED BY <2>2, <4>1, <4>2
    <3>3. ASSUME NEW other \in outbox'[u]
          PROVE  /\ ReadHere(u, other.after)'
                 /\ made'[other.id].key.secret = other.after.secret
                 /\ made'[other.id].key.by = other.after.role
      <4>1. CASE other = item
        <5>1. ReadHere(u, other.after)'
          BY <1>3, <1>7, <1>9, <4>1, ReadStays
        <5> QED BY <1>5, <1>6, <4>1, <5>1
      <4>2. CASE other \in outbox[u]
        <5>1. other.id \in 1 .. Len(made)
          BY <4>2 DEF IInv, ClientOk, OutboxOk
        <5> QED BY <1>7, <1>9, <4>2, <5>1, ReadStays DEF UnreadOk, Keeps
      <4> QED BY <3>1, <4>1, <4>2
    <3>4. \A row \in processed'[u] \cup uncommitted'[u] : row.id \in 1 .. Len(made')
      BY <1>7 DEF UnreadOk, Keeps
    <3>5. UnreadOk(u)'
      BY <1>11, <3>2, <3>3, <3>4 DEF UnreadOk
    <3> QED BY <2>2, <3>1, <3>5
  <2> QED BY <1>1, <2>1, <2>2
<1>13. \A v \in Users \ {u} : UnreadOk(v)'
  BY <1>7, <1>8, <1>12, UnreadOfOthers
<1> QED BY <1>12, <1>13

LEMMA UnreadSending ==
  ASSUME IInv, IInv', \A v \in Users : UnreadOk(v), NEW u \in Users, Sending(u)
  PROVE  \A v \in Users : UnreadOk(v)'
<1>1. app[u] \in UpmApp /\ app \in [Users -> UpmApp]
  BY SecretsFacts DEF IInv, TypeOK
<1>2. ASSUME NEW d \in Devices, Resolve(u, d) PROVE \A v \in Users : UnreadOk(v)'
  <2> DEFINE e == [device |-> d, identity |-> accounts[d].identity]
             c == Opening(u, e)
  <2>1. /\ app' = [app EXCEPT ![u].directory = e, ![u].conversation = c]
        /\ UNCHANGED <<made, stored, outbox, processed, uncommitted>>
    BY <1>2 DEF Resolve, server
  <2>2. c.session = stored[u][d]
    BY DEF Opening
  <2>3. c.session # None => ReadHere(u, c.session)
    BY <1>2, <2>2 DEF UnreadOk, ReadThere, ReadHere
  <2> HIDE DEF c, e
  <2> QED BY <2>1, <2>3, UnreadShows
<1>3. ASSUME NEW failed, SendNext(u, failed) PROVE \A v \in Users : UnreadOk(v)'
  <2> DEFINE c == Ensured(u)
  <2>1. /\ app[u].directory # None /\ c.session # None
        /\ SendPayload(u, c, None, c.session, failed)
        /\ UNCHANGED <<processed, uncommitted>>
    BY <1>3 DEF SendNext, MaySend
  <2>2. c.session \in Session /\ ReadHere(u, c.session)
    BY <2>1, EnsuredFacts, EnsuredRead DEF Conversation
  <2> HIDE DEF c
  <2> QED BY <2>1, <2>2, UnreadSendPayload
<1>4. ASSUME NEW k \in Key \cup {None}, NEW failed, SendFirst(u, k, failed)
      PROVE  \A v \in Users : UnreadOk(v)'
  <2> DEFINE c == Ensured(u)
             d == c.peer.device
             mine == app[u].secrets.identity
             theirs == accounts[d].bundle
             boot == [identity |-> mine, ephemeral |-> Ephemeral(u), prekey |-> k]
             s == NewSession(Initiate(mine, theirs, Ephemeral(u), k), "initiator")
  <2>1. /\ app[u].directory # None /\ c.session = None /\ theirs # None
        /\ UNCHANGED <<processed, uncommitted>>
    BY <1>4 DEF SendFirst, MaySend
  <2>2. CASE "claim" \in failed
    <3>1. /\ app' = [app EXCEPT ![u].conversation = c]
          /\ UNCHANGED <<made, stored, outbox>>
      BY <1>4, <2>2 DEF SendFirst
    <3>2. app' = [app EXCEPT ![u].directory = app[u].directory, ![u].conversation = c]
      BY <1>1, <3>1 DEF UpmApp
    <3> HIDE DEF c
    <3> QED BY <2>1, <3>1, <3>2, UnreadShows
  <2>3. CASE "claim" \notin failed
    <3>1. SendPayload(u, c, boot, s, failed)
      BY <1>4, <2>3 DEF SendFirst
    <3>2. d \in 1 .. Len(accounts)
      BY <2>1, EnsuredFacts DEF ConversationOk, EntryOk
    <3>3. theirs \in Key
      <4>1. accounts[d] \in Account
        BY <3>2, TypeFacts DEF IInv
      <4> QED BY <2>1, <4>1 DEF Account
    <3>4. mine \in Key
      BY SecretsFacts DEF Secrets
    <3>5. Ephemeral(u) = <<"ephemeral", <<u, Len(made) + 1>>>> /\ <<u, Len(made) + 1>> \in Key
      BY TypeFacts DEF Ephemeral, Key, IInv
    <3>6. s \in Session /\ ReadHere(u, s)
      <4>1. s.read = {}
        BY DEF NewSession
      <4> QED BY <3>3, <3>4, <3>5, <4>1, InitiateType DEF ReadHere
    <3> HIDE DEF c, d, mine, theirs, boot, s
    <3> QED BY <2>1, <3>1, <3>6, UnreadSendPayload
  <2> QED BY <2>2, <2>3
<1>5. ASSUME NEW failed, SendRefused(u, failed) PROVE \A v \in Users : UnreadOk(v)'
  <2> DEFINE c == Ensured(u)
  <2>1. /\ app[u].directory # None /\ app' = [app EXCEPT ![u].conversation = c]
        /\ UNCHANGED <<made, stored, outbox, processed, uncommitted>>
    BY <1>5 DEF SendRefused, MaySend, server, store
  <2>2. app' = [app EXCEPT ![u].directory = app[u].directory, ![u].conversation = c]
    BY <1>1, <2>1 DEF UpmApp
  <2>3. c.session # None => ReadHere(u, c.session)
    BY <2>1, EnsuredRead
  <2> HIDE DEF c
  <2> QED BY <2>1, <2>2, <2>3, UnreadShows
<1>6. ASSUME NEW item \in outbox[u], NEW failed, Retry(u, item, failed)
      PROVE  \A v \in Users : UnreadOk(v)'
  <2>1. /\ CommitOutgoing(u, item) \/ UNCHANGED <<stored, outbox>>
        /\ UNCHANGED <<app, made, processed, uncommitted>>
    BY <1>6 DEF Retry
  <2>2. Keeps
    BY <2>1 DEF Keeps
  <2>3. CASE UNCHANGED <<stored, outbox>>
    BY <2>1, <2>2, <2>3, UnreadOfOthers
  <2>4. CASE CommitOutgoing(u, item)
    <3>1. item.id \in 1 .. Len(made') /\ item.after \in Session
      BY <2>1 DEF IInv, TypeOK, ClientOk, OutboxOk, OutboxItem
    <3>2. /\ made'[item.id].key.secret = item.after.secret
          /\ made'[item.id].key.by = item.after.role
          /\ ReadHere(u, item.after)
      BY <2>1 DEF UnreadOk
    <3>3. app'[u].conversation # None /\ app'[u].conversation.session # None =>
            ReadHere(u, app[u].conversation.session)'
      BY <2>1 DEF UnreadOk, ReadHere, ReadAt, Processed, Uncommitted
    <3>4. UnreadOk(u)' /\ \A v \in Users \ {u} : stored'[v] = stored[v] /\ outbox'[v] = outbox[v]
      BY <2>1, <2>2, <2>4, <3>1, <3>2, <3>3, OutgoingRead
    <3> QED BY <2>1, <2>2, <3>4, UnreadOfOthers
  <2> QED BY <2>1, <2>3, <2>4
<1>7. \A row \in prekeys : row.key \in Key \cup {None}
  BY RowKey DEF IInv
<1>8. /\ \A row \in prekeys : \A failed : SendFirst(u, row.key, failed) => \A v \in Users : UnreadOk(v)'
      /\ \A failed : SendFirst(u, None, failed) => \A v \in Users : UnreadOk(v)'
  BY <1>4, <1>7
<1> QED BY <1>2, <1>3, <1>5, <1>6, <1>8 DEF Sending

\* The session an envelope is read in.
LEMMA ArrivesRead ==
  ASSUME NEW u \in Users, UnreadOk(u), NEW row, NEW damaged, Arrives(u, row, damaged)
  PROVE  ReadHere(u, ReadIn(u, row).session)
<1>1. CASE PeerKnown(u, row)
  BY <1>1 DEF Arrives, PeerKnown, ReadIn, UnreadOk
<1>2. CASE ~PeerKnown(u, row)
  <2>1. ReadIn(u, row).session.read = {}
    BY <1>2 DEF ReadIn, Responder, NewSession
  <2> QED BY <2>1 DEF ReadHere
<1> QED BY <1>1, <1>2

LEMMA UnreadRead ==
  ASSUME IInv, IInv', \A v \in Users : UnreadOk(v), NEW u \in Users, NEW row,
         NEW failed \in SUBSET Calls, Read(u, row, failed)
  PROVE  \A v \in Users : UnreadOk(v)'
<1> DEFINE c == ReadIn(u, row)
           key == made[row.id].key
           after == AfterReading(c.session, key)
           spoilt == "commit" \in failed
           c2 == [c EXCEPT !.session = after]
<1>1. /\ Arrives(u, row, {}) /\ Opens(c.session, key)
      /\ \E secrets : app' = [app EXCEPT ![u].directory = DirectoryAfter(u, row),
                                         ![u].conversation = c2, ![u].secrets = secrets]
      /\ IF spoilt THEN CommitFails(u, row, after) ELSE CommitIncoming(u, row, after)
      /\ uncommitted' = IF spoilt
                        THEN [uncommitted EXCEPT ![u] = @ \cup {row}] ELSE uncommitted
      /\ UNCHANGED <<made, outbox>>
  BY DEF Read
<1>2. /\ app[u] \in UpmApp /\ app \in [Users -> UpmApp]
      /\ stored \in [Users -> [Devices -> Session \cup {None}]]
      /\ processed \in [Users -> SUBSET Row] /\ uncommitted \in [Users -> SUBSET Row]
  BY SecretsFacts DEF IInv, TypeOK
<1>3. row.id \in 1 .. Len(made) /\ row.from \in Devices
  BY <1>1, PulledFacts DEF Arrives
<1>4. c \in Conversation /\ c.session \in Session
  BY <1>1, ReadInFacts
<1>5. /\ after.secret = c.session.secret /\ after.role = c.session.role
      /\ after.read = c.session.read \cup {key.n}
      /\ c2.session = after
  BY <1>4 DEF AfterReading, Session, Conversation
<1>6. ReadHere(u, c.session)
  BY <1>1, ArrivesRead
<1>7. key.secret = after.secret /\ key.by # after.role /\ key = made[row.id].key
  BY <1>1, <1>5 DEF Opens
<1> HIDE DEF c2, c, key, after, spoilt
<1>8. PICK s : s = after
  OBVIOUS
<1>9. app'[u].conversation = c2 /\ \A v \in Users \ {u} : app'[v] = app[v]
  BY <1>1, <1>2 DEF UpmApp
<1>10. Keeps
  BY <1>1 DEF Keeps
<1>11. /\ Remembers(u)
       /\ processed'[u] \cup uncommitted'[u] \subseteq processed[u] \cup uncommitted[u] \cup {row}
       /\ \A v \in Users \ {u} : processed'[v] = processed[v] /\ uncommitted'[v] = uncommitted[v]
       /\ IF spoilt THEN Uncommitted(u, row.id)' ELSE Processed(u, row.id)'
       /\ IF spoilt THEN stored' = stored
                    ELSE stored'[u] = [stored[u] EXCEPT ![row.from] = after]
       /\ \A v \in Users \ {u} : stored'[v] = stored[v]
  <2>1. CASE spoilt
    <3>1. /\ stored' = stored /\ processed' = processed
          /\ uncommitted' = [uncommitted EXCEPT ![u] = @ \cup {row}]
      BY <1>1, <2>1 DEF CommitFails
    <3>2. /\ uncommitted'[u] = uncommitted[u] \cup {row}
          /\ \A v \in Users \ {u} : uncommitted'[v] = uncommitted[v]
      BY <1>2, <3>1
    <3> QED BY <2>1, <3>1, <3>2 DEF Remembers, Processed, Uncommitted
  <2>2. CASE ~spoilt
    <3>1. /\ stored' = [stored EXCEPT ![u][row.from] = after]
          /\ processed' = [processed EXCEPT ![u] =
               IF \E other \in @ : other.id = row.id THEN @ ELSE @ \cup {row}]
          /\ uncommitted' = uncommitted
      BY <1>1, <2>2 DEF CommitIncoming
    <3>2. /\ stored'[u] = [stored[u] EXCEPT ![row.from] = after]
          /\ \A v \in Users \ {u} : stored'[v] = stored[v] /\ processed'[v] = processed[v]
      BY <1>2, <3>1
    <3>3. processed'[u] = IF \E other \in processed[u] : other.id = row.id
                          THEN processed[u] ELSE processed[u] \cup {row}
      BY <1>2, <3>1
    <3>4. processed[u] \subseteq processed'[u] /\ Processed(u, row.id)'
      BY <3>3 DEF Processed
    <3> QED BY <2>2, <3>1, <3>2, <3>3, <3>4 DEF Remembers, Processed, Uncommitted
  <2> QED BY <2>1, <2>2
<1>12. ReadHere(u, s)'
  <2>1. \A n \in c.session.read : \E id \in 1 .. Len(made) :
          ReadAt(s, n, id) /\ (Processed(u, id) \/ Uncommitted(u, id))
    BY <1>5, <1>6, <1>8 DEF ReadHere, ReadAt
  <2>2. \A n : \A id \in 1 .. Len(made) : ReadAt(s, n, id) => ReadAt(s, n, id)'
    BY <1>1 DEF ReadAt
  <2>3. \A id : /\ Processed(u, id) => Processed(u, id)'
                /\ Uncommitted(u, id) => Uncommitted(u, id)'
    BY <1>11 DEF Remembers, Processed, Uncommitted
  <2>0. PICK n0 : n0 = key.n
    OBVIOUS
  <2>4. ReadAt(s, n0, row.id)'
    <3>1. /\ made[row.id].key.secret = s.secret /\ made[row.id].key.by # s.role
          /\ made[row.id].key.n = n0
      BY <1>7, <1>8, <2>0
    <3> QED BY <1>1, <3>1 DEF ReadAt
  <2>5. \A n \in s.read : n \in c.session.read \/ n = n0
    BY <1>5, <1>8, <2>0
  <2>6. Processed(u, row.id)' \/ Uncommitted(u, row.id)'
    BY <1>11
  <2> QED BY <1>1, <1>3, <2>1, <2>2, <2>3, <2>4, <2>5, <2>6 DEF ReadHere
<1>13. ASSUME NEW d \in Devices, stored'[u][d] # None
       PROVE  ReadThere(u, d, stored[u][d])'
  <2>1. CASE spoilt \/ d # row.from
    <3>1. PICK t : t = stored[u][d]
      OBVIOUS
    <3>2. stored'[u][d] = t
      BY <1>2, <1>11, <2>1, <3>1
    <3>3. ReadThere(u, d, t)'
      BY <1>10, <1>11, <1>13, <3>1, <3>2, ReadStays DEF UnreadOk
    <3> QED BY <3>2, <3>3
  <2>2. CASE ~spoilt /\ d = row.from
    <3>1. stored'[u][d] = s
      BY <1>2, <1>3, <1>8, <1>11, <2>2
    <3>2. Later(u, d, s)'
      <4>1. PICK other \in processed'[u] : other.id = row.id
        BY <1>11, <2>2 DEF Processed
      <4>2. made'[other.id].key.secret = s.secret
        BY <1>1, <1>7, <1>8, <4>1
      <4> QED BY <4>1, <4>2 DEF Later
    <3>3. ReadThere(u, d, s)'
      BY <1>12, <3>2 DEF ReadHere, ReadThere
    <3> QED BY <3>1, <3>3
  <2> QED BY <2>1, <2>2
<1>14. ASSUME NEW item \in outbox'[u]
       PROVE  /\ ReadHere(u, item.after)'
              /\ made'[item.id].key.secret = item.after.secret
              /\ made'[item.id].key.by = item.after.role
  BY <1>1, <1>10, <1>11, ReadStays DEF UnreadOk
<1>15. \A r \in processed'[u] \cup uncommitted'[u] : r.id \in 1 .. Len(made')
  BY <1>1, <1>3, <1>11 DEF UnreadOk
<1>16. ReadHere(u, app[u].conversation.session)'
  <2>1. app'[u].conversation.session = s
    BY <1>5, <1>8, <1>9
  <2> QED BY <1>12, <2>1
<1>17. UnreadOk(u)'
  BY <1>13, <1>14, <1>15, <1>16 DEF UnreadOk
<1>18. \A v \in Users \ {u} : UnreadOk(v)'
  BY <1>1, <1>9, <1>10, <1>11, UnreadOfOthers
<1> QED BY <1>17, <1>18

LEMMA UnreadPolling ==
  ASSUME IInv, IInv', \A v \in Users : UnreadOk(v), NEW u \in Users, Polling(u)
  PROVE  \A v \in Users : UnreadOk(v)'
<1>1. app[u] \in UpmApp /\ app \in [Users -> UpmApp]
  BY SecretsFacts DEF IInv, TypeOK
<1>2. {{}, {"commit"}, {"ack"}, {"save"}} \subseteq SUBSET Calls
  BY DEF Calls, LoginCalls
<1>3. PICK row \in queue :
        \/ SkipProcessed(u, row)
        \/ \E damaged \in Damages : RefuseBootstrap(u, row, damaged)
        \/ \E damaged \in Damages : CannotRead(u, row, damaged)
        \/ \E failed \in SUBSET Calls : Read(u, row, failed)
  BY <1>2 DEF Polling
<1>4. CASE SkipProcessed(u, row)
  <2>1. UNCHANGED <<app, made, stored, outbox, processed, uncommitted>>
    BY <1>4 DEF SkipProcessed, store
  <2>2. Keeps
    BY <2>1 DEF Keeps
  <2> QED BY <2>1, <2>2, UnreadOfOthers
<1>5. ASSUME NEW damaged, RefuseBootstrap(u, row, damaged)
      PROVE  \A v \in Users : UnreadOk(v)'
  <2> DEFINE c == app[u].conversation
  <2>1. /\ app' = [app EXCEPT ![u].directory = EntryOf(u, row)]
        /\ UNCHANGED <<made, stored, outbox, processed, uncommitted>>
    BY <1>5 DEF RefuseBootstrap, server
  <2>2. c # None /\ c.session # None => ReadHere(u, c.session)
    BY DEF UnreadOk
  <2>3. app' = [app EXCEPT ![u].directory = EntryOf(u, row), ![u].conversation = c]
    BY <1>1, <2>1 DEF UpmApp
  <2> HIDE DEF c
  <2> QED BY <2>1, <2>2, <2>3, UnreadShows
<1>6. ASSUME NEW damaged, CannotRead(u, row, damaged)
      PROVE  \A v \in Users : UnreadOk(v)'
  <2> DEFINE c == ReadIn(u, row)
  <2>1. /\ app' = [app EXCEPT ![u].directory = DirectoryAfter(u, row), ![u].conversation = c]
        /\ Arrives(u, row, damaged)
        /\ UNCHANGED <<made, stored, outbox, processed, uncommitted>>
    BY <1>6 DEF CannotRead, server
  <2>2. ReadHere(u, c.session)
    BY <2>1, ArrivesRead
  <2> HIDE DEF c
  <2> QED BY <2>1, <2>2, UnreadShows
<1>7. ASSUME NEW failed \in SUBSET Calls, Read(u, row, failed)
      PROVE  \A v \in Users : UnreadOk(v)'
  BY <1>7, UnreadRead
<1> QED BY <1>3, <1>4, <1>5, <1>6, <1>7

UnreadInv == \A u \in Users : UnreadOk(u)

LEMMA UnreadInvHolds == Spec => []UnreadInv
<1>1. Init => UnreadInv
  <2> SUFFICES ASSUME Init, NEW u \in Users PROVE UnreadOk(u)
    BY DEF UnreadInv
  <2>1. /\ app[u].conversation = None /\ outbox[u] = {} /\ processed[u] = {}
        /\ uncommitted[u] = {} /\ \A d \in Devices : stored[u][d] = None
    BY DEF Init
  <2> QED BY <2>1 DEF UnreadOk
<1>2. IInv /\ IInv' /\ UnreadInv /\ [Next]_vars => UnreadInv'
  <2> SUFFICES ASSUME IInv, IInv', \A v \in Users : UnreadOk(v), [Next]_vars
               PROVE  \A v \in Users : UnreadOk(v)'
    BY DEF UnreadInv
  <2>1. CASE UNCHANGED vars
    <3>1. UNCHANGED <<app, made, stored, outbox, processed, uncommitted>>
      BY <2>1 DEF vars, server, store
    <3>2. Keeps
      BY <3>1 DEF Keeps
    <3> QED BY <3>1, <3>2, UnreadOfOthers
  <2> QED BY <2>1, UnreadSigning, UnreadSending, UnreadPolling DEF Next
<1> QED BY <1>1, <1>2, IInvHolds, PTL DEF Spec

-----------------------------------------------------------------------------
(* The theorems.                                                           *)

\* Server, clients and local stores have their types in every reachable state.
THEOREM TypeCorrect == Spec => []TypeOK
<1>1. IInv => TypeOK
  BY DEF IInv
<1> QED BY <1>1, IInvHolds, PTL

\* A session with a device, in memory or in the store, was agreed with the
\* identity that is pinned for it, whatever directory, bundles and bootstraps
\* say and whoever registers or loses an identity meanwhile.
THEOREM SessionsAreWithThePinned == Spec => []SessionIsWithThePinned
<1>1. ASSUME IInv, NEW u \in Users
      PROVE  /\ \A d \in Devices : stored[u][d] # None =>
                  \A i \in Parties(stored[u][d]) : i[1] = u \/ i = pins[u][d]
             /\ app[u].conversation # None /\ app[u].conversation.session # None =>
                  \A i \in Parties(app[u].conversation.session) :
                    i[1] = u \/ i = pins[u][app[u].conversation.peer.device]
  <2>1. StoreOk(u, stored[u], pins[u]) /\ AppOk(u, app[u], Len(accounts), pins[u])
    BY <1>1 DEF IInv, ClientOk
  <2> QED BY <2>1 DEF StoreOk, AppOk, ConversationOk, Peers
<1>2. IInv => SessionIsWithThePinned
  BY <1>1 DEF SessionIsWithThePinned
<1> QED BY <1>2, IInvHolds, PTL

\* The checkbox shows what the server has, restarts and other accounts in
\* between, as long as no call and no save has failed (CHANGELOG.md:6).
THEOREM BoxStaysServers == Spec => []BoxIsServers
<1>1. BoxInv => BoxIsServers
  BY DEF BoxInv, InSync, BoxIsServers
<1> QED BY <1>1, BoxInvHolds, PTL

\* What is written next goes to the entry of the directory, what is shown is the
\* conversation (app.rs:998, 1319): they are of one device and identity, or a
\* bootstrap that names the entry's was refused and is still to be read.  Either
\* way the entry's identity is the pinned one.
THEOREM EntryStaysOpen == Spec => []EntryIsOpen
<1>1. ASSUME IInv, EntryInv, NEW u \in Users, app[u].conversation # None
      PROVE  LET me == app[u]
             IN  /\ me.directory # None
                 /\ pins[u][me.directory.device] = me.directory.identity
                 /\ \/ me.conversation.peer = me.directory
                    \/ \E row \in queue \ processed[u] :
                         /\ row.from = me.directory.device
                         /\ made[row.id].to = me.device
                         /\ made[row.id].boot # None
                         /\ made[row.id].boot.identity = me.directory.identity
  <2> DEFINE entry == app[u].directory
             peer == app[u].conversation.peer
  <2>1. app[u] \in UpmApp /\ AppOk(u, app[u], Len(accounts), pins[u])
    BY <1>1, SecretsFacts
  <2>2. Screen(u)
    BY <1>1 DEF EntryInv
  <2>3. entry # None /\ entry \in Entry /\ peer \in Entry
    BY <1>1, <2>1, <2>2 DEF Screen, UpmApp, Conversation
  <2>4. entry.identity = pins[u][entry.device] /\ peer.identity = pins[u][peer.device]
    BY <1>1, <2>1, <2>3 DEF AppOk, ConversationOk, EntryOk
  <2> HIDE DEF entry, peer
  <2>5. CASE peer.device = entry.device
    <3>1. peer = entry
      BY <2>3, <2>4, <2>5 DEF Entry
    <3> QED BY <2>3, <2>4, <3>1 DEF entry, peer
  <2>6. CASE peer.device # entry.device
    <3>1. PICK row \in queue : Awaits(u, row)
      BY <1>1, <2>2, <2>6 DEF Screen, entry, peer
    <3> QED BY <2>3, <2>4, <3>1 DEF Awaits, entry
  <2> QED BY <2>5, <2>6
<1>2. IInv /\ EntryInv => EntryIsOpen
  BY <1>1 DEF EntryIsOpen
<1> QED BY <1>2, IInvHolds, EntryInvHolds, PTL

\* A first message that came with a one-time prekey is read by a session with
\* the secret it was sealed under, or by none (app.rs:853), though the reader
\* may have lost its identity since it published.
THEOREM PrekeysMakeThemAgree == Spec => []PrekeyMakesItAgree
<1>1. AgreeInv => PrekeyMakesItAgree
  BY DEF AgreeInv, SessionsMatch, Matched, Unmatched, PrekeyMakesItAgree
<1> QED BY <1>1, AgreeInvHolds, PTL

\* A message whose key is its own and that is not processed can still be read
\* after a restart; the only way to lose it is a commit that failed, followed by
\* one of the same session that did not (app.rs:1098).
THEOREM UnprocessedStaysUnread == Spec => []UnprocessedIsUnread
<1>1. ASSUME IInv, UnreadInv, NEW u \in Users, NEW row \in queue
      PROVE  LET e == made[row.id]
                 s == stored[u][row.from]
                 fresh == \A id \in 1 .. Len(made) : made[id].key = e.key => id = row.id
                 later == \/ \E other \in processed[u] : made[other.id].key.secret = e.key.secret
                          \/ \E id \in 1 .. Len(made) :
                               /\ made[id].to = row.from
                               /\ made[id].key.secret = e.key.secret
                               /\ made[id].key.by # e.key.by
             IN  /\ e.to = app[u].device
                 /\ \A other \in processed[u] : other.id # row.id
                 /\ fresh
                 /\ s # None /\ s.secret = e.key.secret /\ s.role # e.key.by
                 => \/ e.key.n \notin s.read
                    \/ (\E other \in uncommitted[u] : other.id = row.id) /\ later
  <2> DEFINE e == made[row.id]
             s == stored[u][row.from]
  <2> SUFFICES ASSUME \A other \in processed[u] : other.id # row.id,
                      \A id \in 1 .. Len(made) : made[id].key = e.key => id = row.id,
                      s # None, s.secret = e.key.secret, s.role # e.key.by, e.key.n \in s.read
               PROVE  /\ Uncommitted(u, row.id)
                      /\ \/ \E other \in processed[u] : made[other.id].key.secret = e.key.secret
                         \/ \E id \in 1 .. Len(made) :
                              /\ made[id].to = row.from
                              /\ made[id].key.secret = e.key.secret
                              /\ made[id].key.by # e.key.by
    BY DEF Uncommitted
  <2>1. /\ row.id \in 1 .. Len(made) /\ row.from \in Devices
        /\ \A id \in 1 .. Len(made) : made[id] \in Envelope
    <3>1. row \in Row
      BY <1>1 DEF IInv, TypeOK
    <3>2. row.from \in Devices
      BY <3>1 DEF Row
    <3>3. row.id \in 1 .. Len(made)
      BY <1>1 DEF IInv, ServerOk
    <3>4. \A id \in 1 .. Len(made) : made[id] \in Envelope
      BY <1>1, TypeFacts DEF IInv
    <3> QED BY <3>2, <3>3, <3>4
  <2>2. ReadThere(u, row.from, s) /\ s \in Session
    BY <1>1, <2>1 DEF UnreadInv, UnreadOk, IInv, TypeOK
  <2>3. PICK id \in 1 .. Len(made) :
          /\ ReadAt(s, e.key.n, id)
          /\ Processed(u, id) \/ (Uncommitted(u, id) /\ Later(u, row.from, s))
    BY <2>2 DEF ReadThere
  <2>4. made[id].key = e.key
    <3>1. made[id].key \in MessageKey /\ e.key \in MessageKey /\ s.role \in Role
      BY <2>1, <2>2 DEF Envelope, Session
    <3>2. made[id].key.by = e.key.by
      BY <2>3, <3>1 DEF ReadAt, MessageKey, Role
    <3> QED BY <2>3, <3>1, <3>2 DEF ReadAt, MessageKey
  <2>5. id = row.id
    BY <2>3, <2>4
  <2>6. Uncommitted(u, row.id) /\ Later(u, row.from, s)
    BY <2>3, <2>5 DEF Processed
  <2> QED BY <2>6 DEF Later
<1>2. IInv /\ UnreadInv => UnprocessedIsUnread
  BY <1>1 DEF UnprocessedIsUnread
<1> QED BY <1>2, IInvHolds, UnreadInvHolds, PTL
=============================================================================
