------------------------------ MODULE Contacts ------------------------------
(***************************************************************************)
(* Whom a desktop client talks to: its identity and its login, the         *)
(* directory, the pins of the local store, the handshake that opens a      *)
(* session, and the conversation on the screen.  A client may lose its     *)
(* identity with the credential store, register again, and be restarted;   *)
(* the calls of a login, a save, a send and a local commit may fail.       *)
(*                                                                         *)
(* A session is what Ratchet shows a pair of them to be: the secret of its *)
(* handshake, and the positions sent and read under it.  A device is named *)
(* by the position at which it was registered, and an identity by its      *)
(* owner and the position at which it was drawn: the signing, the exchange *)
(* and the signed prekey pairs are drawn, kept and lost together.          *)
(***************************************************************************)
EXTENDS Integers, Sequences, FiniteSets

CONSTANTS
  Users,        \* people, each with one installation of the client
  None,         \* Option::None
  PoolSize,     \* the 12 of ensure_one_time_prekey_pool(12)
  MaxAccounts,  \* bound: registrations
  MaxMade,      \* bound: envelopes
  MaxFailures,  \* bound: calls and saves that fail
  MaxBreaks     \* bound: restarts, log-outs and changes of the visibility

Devices == 1 .. MaxAccounts
Ids == 1 .. MaxMade
Key == Users \X Nat

ASSUME ContactsAssumption ==
  /\ {PoolSize, MaxAccounts, MaxMade, MaxFailures, MaxBreaks} \subseteq Nat
  /\ None \notin Devices \cup Key \cup [device : Devices, identity : Key]

VARIABLES
  accounts,     \* tables users and devices
  prekeys,      \* table one_time_prekeys
  claimed,      \* ... the rows with a claimed_at
  queue,        \* table message_envelopes
  made,         \* every envelope ever made
  app,          \* app[u]: UpmApp, the client's memory, with its saved profile
  kept,         \* kept[u]: the secrets in the credential store
  minted,       \* minted[u]: how many key sets and prekeys u has drawn
  pins,         \* pins[u][d]: table peer_identities
  stored,       \* stored[u][d]: table sessions
  outbox,       \* outbox[u]: table outbox
  processed,    \* processed[u]: table processed_messages
  uncommitted,  \* history: uncommitted[u], messages read whose commit failed
  failures,     \* how many calls and saves have failed
  breaks        \* how many restarts, log-outs and changes of the visibility there were

server == <<accounts, prekeys, claimed, queue, made>>
store == <<pins, stored, outbox, processed>>
vars == <<server, app, kept, minted, store, uncommitted, failures, breaks>>

-----------------------------------------------------------------------------
(* Identities and the handshake.                                           *)

Secrets == [identity : Key, pool : SUBSET Key]

\* LocalIdentity::generate, after m keys were drawn.
Generated(u, m) ==
  [identity |-> <<u, m + 1>>, pool |-> {<<u, k>> : k \in m + 2 .. m + 1 + PoolSize}]

\* remove_one_time_prekey and ensure_one_time_prekey_pool.
Refilled(u, sec, k) ==
  [sec EXCEPT !.pool = (@ \ {k}) \cup
     {<<u, n>> : n \in minted[u] + 1 .. minted[u] + PoolSize - Cardinality(@ \ {k})}]

Exchange(i) == <<"exchange", i>>
SignedPrekey(i) == <<"signed_prekey", i>>
OneTime(k) == <<"one_time_prekey", k>>
Ephemeral(u) == <<"ephemeral", <<u, Len(made) + 1>>>>
PublicKey == {"exchange", "signed_prekey", "one_time_prekey", "ephemeral"} \X Key

Agree(mine, theirs) == {mine, theirs}

\* The key agreed with a one-time prekey, if there is one.
Fourth(ephemeral, k) == IF k = None THEN {} ELSE {Agree(ephemeral, OneTime(k))}

\* handshake::initiate: mine with the bundle of theirs.
Initiate(mine, theirs, ephemeral, k) ==
  {Agree(Exchange(mine), SignedPrekey(theirs)),
   Agree(ephemeral, Exchange(theirs)),
   Agree(ephemeral, SignedPrekey(theirs))} \cup Fourth(ephemeral, k)

\* handshake::respond: mine with what a bootstrap says.
Respond(mine, boot) ==
  {Agree(SignedPrekey(mine), Exchange(boot.identity)),
   Agree(Exchange(mine), boot.ephemeral),
   Agree(SignedPrekey(mine), boot.ephemeral)} \cup Fourth(boot.ephemeral, boot.prekey)

Secret == SUBSET SUBSET PublicKey
Role == {"initiator", "responder"}
Session == [secret : Secret, role : Role, sent : Nat, read : SUBSET Nat]
MessageKey == [secret : Secret, by : Role, n : Nat]

NewSession(secret, role) == [secret |-> secret, role |-> role, sent |-> 0, read |-> {}]

\* encrypt; a responder that has read nothing is NotEstablished.
CanSeal(s) == s.role = "initiator" \/ s.read # {}
SealedBy(s) == [secret |-> s.secret, by |-> s.role, n |-> s.sent]
AfterSealing(s) == [s EXCEPT !.sent = @ + 1]

\* decrypt; any order, each position once.
Opens(s, key) == key.secret = s.secret /\ key.by # s.role /\ key.n \notin s.read
AfterReading(s, key) == [s EXCEPT !.read = @ \cup {key.n}]

-----------------------------------------------------------------------------
(* The records.                                                            *)

Account == [identity : Key, bundle : Key \cup {None}, visible : BOOLEAN]
Entry == [device : Devices, identity : Key]
Conversation == [peer : Entry, session : Session \cup {None}]

UpmApp ==
  [secrets : Secrets, device : Devices \cup {None}, token : BOOLEAN,
   visible : BOOLEAN,                      \* directory_visible
   directory : Entry \cup {None},
   conversation : Conversation \cup {None}]

Bootstrap == [identity : Key, ephemeral : {"ephemeral"} \X Key, prekey : Key \cup {None}]
Envelope == [to : Devices, boot : Bootstrap \cup {None}, key : MessageKey]

Prekey == [key : Key, device : Devices]
OutboxItem == [id : Ids, after : Session]

\* A row of message_envelopes or processed_messages: the sender is the device
\* that was logged in when the envelope was sent.
Row == [id : Ids, from : Devices]

\* What fails in a step.
Fails(failed) ==
  /\ failures + Cardinality(failed) <= MaxFailures
  /\ failures' = failures + Cardinality(failed)

Breaks == breaks < MaxBreaks /\ breaks' = breaks + 1

-----------------------------------------------------------------------------
(* Registration, login, restart.                                           *)

\* verify_and_issue_session: the challenge is signed with the identity in
\* memory and checked with the registered one.
Verifies(me, known, failed) ==
  "login" \notin failed /\ known[me.device].identity = me.secrets.identity

\* Mutant: the checkbox is left at its default.
VisibleAfterAsBefore(me, known, failed) == me.visible

\* get_directory_visibility, best effort.
VisibleAfter(me, known, failed) ==
  IF "visibility" \notin failed THEN known[me.device].visible ELSE me.visible

\* handle_publish_keys and update_device_keys: the signature over the bundle
\* verifies, it is by the identity that has just logged in.
KeysPublished(me, known) == [known EXCEPT ![me.device].bundle = me.secrets.identity]

\* publish_one_time_prekeys, INSERT OR IGNORE: an id keeps the row it has.
PrekeysPublished(me) ==
  prekeys \cup {[key |-> k, device |-> me.device] :
                  k \in {k \in me.secrets.pool : \A row \in prekeys : row.key # k}}

\* authenticate, by a client me of a server that knows these accounts.  The
\* pool of prekeys is full: generate, load and poll have left it so.
Authenticate(u, me, known, failed) ==
  LET in == Verifies(me, known, failed)
      published == in /\ "keys" \notin failed
  IN  /\ app' = [app EXCEPT ![u] =
           [me EXCEPT !.token = in \/ @,
                      !.visible = IF in THEN VisibleAfter(me, known, failed) ELSE @]]
      /\ accounts' = IF published THEN KeysPublished(me, known) ELSE known
      /\ prekeys' = IF published /\ "prekeys" \notin failed
                    THEN PrekeysPublished(me) ELSE prekeys

\* persist_identity_secrets, which drops the error of the credential store.
Persisted(u, failed) ==
  kept' = IF "save" \notin failed THEN [kept EXCEPT ![u] = app'[u].secrets] ELSE kept

LoginCalls == {"login", "visibility", "keys", "prekeys", "save"}

Login(u, failed) ==
  /\ app[u].device # None
  /\ ~app[u].token
  /\ Fails(failed)
  /\ Authenticate(u, app[u], accounts, failed)
  /\ IF Verifies(app[u], accounts, failed) THEN Persisted(u, failed) ELSE UNCHANGED kept
  /\ UNCHANGED <<claimed, queue, made, minted, store, uncommitted, breaks>>

\* register_account.  A name that is taken is refused, so a registration that
\* succeeds is under a name of its own.
Registered(u) ==
  Append(accounts, [identity |-> app[u].secrets.identity, bundle |-> None, visible |-> TRUE])

\* register; when its answer is lost the account is there all the same.
Register(u, failed) ==
  /\ ~app[u].token
  /\ Len(accounts) < MaxAccounts
  /\ Fails(failed)
  /\ IF "answer" \in failed
     THEN /\ accounts' = Registered(u)
          /\ UNCHANGED <<app, prekeys, kept>>
     ELSE /\ Authenticate(u, [app[u] EXCEPT !.device = Len(accounts) + 1],
                          Registered(u), failed)
          /\ Persisted(u, failed)
  /\ UNCHANGED <<claimed, queue, made, minted, store, uncommitted, breaks>>

\* The process ends and starts again, UpmApp::new: the profile and the store
\* are there, the secrets perhaps not.
Restart(u, failed) ==
  LET readable == "secrets" \notin failed
      me == [secrets |-> IF readable THEN kept[u] ELSE Generated(u, minted[u]),
             device |-> app[u].device, token |-> app[u].token, visible |-> TRUE,
             directory |-> None, conversation |-> None]
  IN  /\ Breaks
      /\ Fails(failed)
      /\ IF me.device # None
         THEN Authenticate(u, me, accounts, failed)
         ELSE app' = [app EXCEPT ![u] = me] /\ UNCHANGED <<accounts, prekeys>>
      /\ Persisted(u, failed)
      /\ minted' = IF readable THEN minted ELSE [minted EXCEPT ![u] = @ + 1 + PoolSize]
      /\ UNCHANGED <<claimed, queue, made, store, uncommitted>>

Logout(u) ==
  /\ Breaks
  /\ app[u].token
  /\ app' = [app EXCEPT ![u].token = FALSE, ![u].directory = None, ![u].conversation = None]
  /\ UNCHANGED <<server, kept, minted, store, uncommitted, failures>>

\* The checkbox, and update_directory_visibility.
SetVisibility(u, failed) ==
  /\ Breaks
  /\ app[u].token
  /\ Fails(failed)
  /\ app' = [app EXCEPT ![u].visible = ~@]
  /\ accounts' = IF failed = {}
                 THEN [accounts EXCEPT ![app[u].device].visible = ~app[u].visible]
                 ELSE accounts
  /\ UNCHANGED <<prekeys, claimed, queue, made, kept, minted, store, uncommitted>>

-----------------------------------------------------------------------------
(* Contacts.                                                               *)

\* resolve_username and resolve_upm_id: the first device of a visible account.
Resolved == {d \in 1 .. Len(accounts) : accounts[d].visible}

\* Mutant: a changed identity replaces the pin.
MayPinAnew(u, d, i) == TRUE

\* pin_or_verify_peer.
MayPin(u, d, i) == pins[u][d] \in {None, i}
Pinned(u, d, i) == [pins EXCEPT ![u][d] = i]

\* ensure_conversation, for an entry of the directory.
Opening(u, entry) == [peer |-> entry, session |-> stored[u][entry.device]]

Ensured(u) ==
  LET c == app[u].conversation
  IN  IF c # None /\ c.peer.device = app[u].directory.device
      THEN c ELSE Opening(u, app[u].directory)

\* resolve, of someone else.
Resolve(u, d) ==
  LET entry == [device |-> d, identity |-> accounts[d].identity]
  IN  /\ d \in Resolved \ {app[u].device}
      /\ MayPin(u, d, entry.identity)
      /\ pins' = Pinned(u, d, entry.identity)
      /\ app' = [app EXCEPT ![u].directory = entry, ![u].conversation = Opening(u, entry)]
      /\ UNCHANGED <<server, kept, minted, stored, outbox, processed, uncommitted, failures, breaks>>

-----------------------------------------------------------------------------
(* Sending.                                                                *)

\* enqueue_message: an id that is queued is accepted again, from its sender.
Enqueues(row) == \A other \in queue : other.id = row.id => other = row

\* commit_outgoing_delivery, one transaction.
CommitOutgoing(u, item) ==
  /\ stored' = [stored EXCEPT ![u][made'[item.id].to] = item.after]
  /\ outbox' = [outbox EXCEPT ![u] = {i \in @ : i.id # item.id}]

\* send_payload once the packet is made: the outbox, the server, and when the
\* answer is there the store, whose error is dropped, and the conversation.
SendPayload(u, c, boot, s, failed) ==
  LET id == Len(made) + 1
      item == [id |-> id, after |-> AfterSealing(s)]
      answered == failed \cap {"send", "answer"} = {}
  IN  /\ made' = Append(made, [to |-> c.peer.device, boot |-> boot, key |-> SealedBy(s)])
      /\ queue' = IF "send" \in failed
                  THEN queue ELSE queue \cup {[id |-> id, from |-> app[u].device]}
      /\ app' = [app EXCEPT ![u].conversation =
                   IF answered THEN [c EXCEPT !.session = item.after] ELSE c]
      /\ IF failed = {}
         THEN CommitOutgoing(u, item)
         ELSE outbox' = [outbox EXCEPT ![u] = @ \cup {item}] /\ UNCHANGED stored

MaySend(u, failed) ==
  /\ app[u].token
  /\ app[u].directory # None
  /\ Len(made) < MaxMade
  /\ Fails(failed)

\* make_outgoing_packet.
SendNext(u, failed) ==
  LET c == Ensured(u)
  IN  /\ MaySend(u, failed)
      /\ c.session # None
      /\ CanSeal(c.session)
      /\ SendPayload(u, c, None, c.session, failed)
      /\ UNCHANGED <<accounts, prekeys, claimed, kept, minted, pins, processed, uncommitted, breaks>>

\* claim_one_time_prekey: any unclaimed prekey of the device, or none.
Unclaimed(d) == {row.key : row \in {row \in prekeys : row.device = d}} \ claimed
MayClaim(d, k) == k \in Unclaimed(d) \/ (k = None /\ Unclaimed(d) = {})

\* device_keys against the entry that was pinned.
SameIdentity(entry) == accounts[entry.device].identity = entry.identity

\* make_initial_outgoing_packet with the prekey k; the answer to its claim may
\* get lost, and the prekey with it.
SendFirst(u, k, failed) ==
  LET c == Ensured(u)
      d == c.peer.device
      theirs == accounts[d].bundle
      mine == app[u].secrets.identity
      boot == [identity |-> mine, ephemeral |-> Ephemeral(u), prekey |-> k]
      s == NewSession(Initiate(mine, theirs, Ephemeral(u), k), "initiator")
  IN  /\ MaySend(u, failed)
      /\ c.session = None
      /\ theirs # None                 \* keys_unavailable
      /\ SameIdentity(c.peer)
      /\ MayClaim(d, k)
      /\ claimed' = claimed \cup ({k} \ {None})
      /\ IF "claim" \in failed
         THEN /\ app' = [app EXCEPT ![u].conversation = c]
              /\ UNCHANGED <<queue, made, stored, outbox>>
         ELSE SendPayload(u, c, boot, s, failed)
      /\ UNCHANGED <<accounts, prekeys, kept, minted, pins, processed, uncommitted, breaks>>

\* Either of them is refused after ensure_conversation, or a call for the keys
\* of the peer has not reached the server.
SendRefused(u, failed) ==
  LET c == Ensured(u)
  IN  /\ MaySend(u, failed)
      /\ IF c.session = None
         THEN failed # {} \/ accounts[c.peer.device].bundle = None \/ ~SameIdentity(c.peer)
         ELSE failed = {} /\ ~CanSeal(c.session)
      /\ app' = [app EXCEPT ![u].conversation = c]
      /\ UNCHANGED <<server, kept, minted, store, uncommitted, breaks>>

\* retry_outbox, for one item, by whatever device is logged in now.
Retry(u, item, failed) ==
  LET row == [id |-> item.id, from |-> app[u].device]
  IN  /\ app[u].token
      /\ Fails(failed)
      /\ Enqueues(row)
      /\ queue' = queue \cup {row}
      /\ UNCHANGED made
      /\ IF failed = {} THEN CommitOutgoing(u, item) ELSE UNCHANGED <<stored, outbox>>
      /\ UNCHANGED <<accounts, prekeys, claimed, app, kept, minted, pins, processed, uncommitted, breaks>>

-----------------------------------------------------------------------------
(* poll, for one envelope at a time.                                       *)

\* What may be wrong with an envelope as it is pulled: the signature in its
\* bootstrap does not verify, its ratchet message does not authenticate.  The
\* same envelope may be undamaged when it is pulled again.
Damages == SUBSET {"signature", "message"}

\* pull_messages, and is_message_processed.
Pulled(u, row) ==
  /\ app[u].token
  /\ row \in queue
  /\ made[row.id].to = app[u].device

SkipProcessed(u, row) ==
  /\ Pulled(u, row)
  /\ row \in processed[u]
  /\ queue' = queue \ {row}
  /\ UNCHANGED <<accounts, prekeys, claimed, made, app, kept, minted, store, uncommitted, failures, breaks>>

PeerKnown(u, row) ==
  app[u].conversation # None /\ app[u].conversation.peer.device = row.from

\* The entry of a sender who is not in the conversation.
EntryOf(u, row) ==
  IF app[u].directory # None /\ app[u].directory.device = row.from
  THEN app[u].directory
  ELSE [device |-> row.from, identity |-> made[row.id].boot.identity]

\* A bootstrap, with the identity that is pinned for its sender.
Acceptable(u, row) ==
  LET boot == made[row.id].boot
  IN  boot # None /\ MayPin(u, row.from, boot.identity)

\* Mutant: a prekey that is gone is taken for none.
EstablishesAnyway(u, boot, damaged) == "signature" \notin damaged

\* establish_responder_session: the bootstrap names the entry's identity, its
\* signature by it for this device verifies (verify_bootstrap), and its prekey,
\* if it has one, is still here.
Establishes(u, boot, damaged) ==
  /\ "signature" \notin damaged
  /\ boot.prekey \in app[u].secrets.pool \cup {None}

\* ... with the prekey if it was found.
Responder(u, boot) ==
  LET found == IF boot.prekey \in app[u].secrets.pool THEN boot.prekey ELSE None
  IN  NewSession(Respond(app[u].secrets.identity, [boot EXCEPT !.prekey = found]), "responder")

\* The conversation poll reads an envelope in.
ReadIn(u, row) ==
  IF PeerKnown(u, row)
  THEN app[u].conversation
  ELSE [peer |-> EntryOf(u, row), session |-> Responder(u, made[row.id].boot)]

\* Up to decrypt: pinned, and on the screen.
Arrives(u, row, damaged) ==
  /\ Pulled(u, row)
  /\ row \notin processed[u]
  /\ IF PeerKnown(u, row)
     THEN app[u].conversation.session # None /\ UNCHANGED pins
     ELSE /\ Acceptable(u, row)
          /\ Establishes(u, made[row.id].boot, damaged)
          /\ pins' = Pinned(u, row.from, made[row.id].boot.identity)

\* Mutant: poll opens the conversation and leaves the entry.
DirectoryAsBefore(u, row) == app[u].directory

DirectoryAfter(u, row) ==
  IF PeerKnown(u, row) THEN app[u].directory ELSE EntryOf(u, row)

\* The session is refused: the entry is the sender's, the conversation not.
RefuseBootstrap(u, row, damaged) ==
  /\ Pulled(u, row)
  /\ row \notin processed[u]
  /\ ~PeerKnown(u, row)
  /\ Acceptable(u, row)
  /\ ~Establishes(u, made[row.id].boot, damaged)
  /\ pins' = Pinned(u, row.from, made[row.id].boot.identity)
  /\ app' = [app EXCEPT ![u].directory = EntryOf(u, row)]
  /\ UNCHANGED <<server, kept, minted, stored, outbox, processed, uncommitted, failures, breaks>>

\* decrypt fails; a conversation that was opened for it stays.
CannotRead(u, row, damaged) ==
  LET c == ReadIn(u, row)
  IN  /\ Arrives(u, row, damaged)
      /\ "message" \in damaged \/ ~Opens(c.session, made[row.id].key)
      /\ app' = [app EXCEPT ![u].directory = DirectoryAfter(u, row), ![u].conversation = c]
      /\ UNCHANGED <<server, kept, minted, stored, outbox, processed, uncommitted, failures, breaks>>

\* Mutant: no transaction, the session is saved before the rest fails.
CommitFailsHalfway(u, row, after) ==
  /\ stored' = [stored EXCEPT ![u][row.from] = after]
  /\ UNCHANGED processed

CommitFails(u, row, after) == UNCHANGED <<stored, processed>>

\* commit_incoming_message, one transaction; INSERT OR IGNORE by id.
CommitIncoming(u, row, after) ==
  /\ stored' = [stored EXCEPT ![u][row.from] = after]
  /\ processed' = [processed EXCEPT ![u] =
       IF \E other \in @ : other.id = row.id THEN @ ELSE @ \cup {row}]

\* The prekey of a bootstrap that was read goes, another is drawn and saved.
SecretsAfter(u, boot) ==
  IF boot # None /\ boot.prekey # None
  THEN Refilled(u, app[u].secrets, boot.prekey)
  ELSE app[u].secrets

Drawn(u, before, after) ==
  minted' = [minted EXCEPT ![u] = @ + Cardinality(after.pool \ before.pool)]

Read(u, row, failed) ==
  LET c == ReadIn(u, row)
      after == AfterReading(c.session, made[row.id].key)
      boot == made[row.id].boot
      spoilt == "commit" \in failed
      secrets == IF spoilt THEN app[u].secrets ELSE SecretsAfter(u, boot)
  IN  /\ Arrives(u, row, {})
      /\ Opens(c.session, made[row.id].key)
      /\ Fails(failed)
      /\ app' = [app EXCEPT ![u].directory = DirectoryAfter(u, row),
                            ![u].conversation = [c EXCEPT !.session = after],
                            ![u].secrets = secrets]
      /\ Drawn(u, app[u].secrets, secrets)
      /\ IF secrets # app[u].secrets THEN Persisted(u, failed) ELSE UNCHANGED kept
      /\ IF spoilt THEN CommitFails(u, row, after) ELSE CommitIncoming(u, row, after)
      /\ uncommitted' = IF spoilt
                        THEN [uncommitted EXCEPT ![u] = @ \cup {row}] ELSE uncommitted
      /\ queue' = IF failed \cap {"commit", "ack"} = {} THEN queue \ {row} ELSE queue
      /\ UNCHANGED <<accounts, prekeys, claimed, made, outbox, breaks>>

-----------------------------------------------------------------------------

Init ==
  /\ accounts = << >>
  /\ prekeys = {}
  /\ claimed = {}
  /\ queue = {}
  /\ made = << >>
  /\ app = [u \in Users |->
       [secrets |-> Generated(u, 0), device |-> None, token |-> FALSE,
        visible |-> TRUE, directory |-> None, conversation |-> None]]
  /\ kept = [u \in Users |-> Generated(u, 0)]
  /\ minted = [u \in Users |-> 1 + PoolSize]
  /\ pins = [u \in Users |-> [d \in Devices |-> None]]
  /\ stored = [u \in Users |-> [d \in Devices |-> None]]
  /\ outbox = [u \in Users |-> {}]
  /\ processed = [u \in Users |-> {}]
  /\ uncommitted = [u \in Users |-> {}]
  /\ failures = 0
  /\ breaks = 0

Signing(u) ==
  \/ \E failed \in SUBSET LoginCalls : Login(u, failed)
  \/ \E failed \in SUBSET (LoginCalls \cup {"answer"}) : Register(u, failed)
  \/ \E failed \in SUBSET (LoginCalls \cup {"secrets"}) : Restart(u, failed)
  \/ Logout(u)
  \/ \E failed \in SUBSET {"visibility"} : SetVisibility(u, failed)

Sending(u) ==
  \/ \E d \in Devices : Resolve(u, d)
  \/ \E failed \in {{}, {"send"}, {"answer"}, {"commit"}} :
       \/ SendNext(u, failed)
       \/ \E row \in prekeys : SendFirst(u, row.key, failed)
       \/ SendFirst(u, None, failed)
  \/ \E row \in prekeys : SendFirst(u, row.key, {"claim"})
  \/ \E failed \in SUBSET {"claim"} : SendRefused(u, failed)
  \/ \E item \in outbox[u], failed \in SUBSET {"answer"} : Retry(u, item, failed)

Polling(u) ==
  \E row \in queue :
    \/ SkipProcessed(u, row)
    \/ \E damaged \in Damages : RefuseBootstrap(u, row, damaged) \/ CannotRead(u, row, damaged)
    \/ \E failed \in {{}, {"commit"}, {"ack"}, {"save"}} : Read(u, row, failed)

Next == \E u \in Users : Signing(u) \/ Sending(u) \/ Polling(u)

Spec == Init /\ [][Next]_vars

-----------------------------------------------------------------------------
(* Properties.                                                             *)

\* Type invariant.
TypeOK ==
  /\ accounts \in Seq(Account) /\ Len(accounts) <= MaxAccounts
  /\ prekeys \subseteq Prekey /\ claimed \subseteq Key
  /\ queue \subseteq Row
  /\ made \in Seq(Envelope) /\ Len(made) <= MaxMade
  /\ app \in [Users -> UpmApp]
  /\ kept \in [Users -> Secrets]
  /\ minted \in [Users -> Nat]
  /\ pins \in [Users -> [Devices -> Key \cup {None}]]
  /\ stored \in [Users -> [Devices -> Session \cup {None}]]
  /\ outbox \in [Users -> SUBSET OutboxItem]
  /\ processed \in [Users -> SUBSET Row]
  /\ uncommitted \in [Users -> SUBSET Row]
  /\ failures \in 0 .. MaxFailures
  /\ breaks \in 0 .. MaxBreaks

\* The identities a secret was agreed with.
Parties(s) ==
  {k[2] : k \in {k \in UNION s.secret : k[1] \in {"exchange", "signed_prekey"}}}

\* Whatever the directory, a bootstrap or a published bundle says meanwhile, a
\* session with a device is one with the identity pinned for it (app.rs
\* resolve, make_initial_outgoing_packet, poll).
SessionIsWithThePinned ==
  \A u \in Users :
    /\ \A d \in Devices : stored[u][d] # None =>
         \A i \in Parties(stored[u][d]) : i[1] = u \/ i = pins[u][d]
    /\ app[u].conversation # None /\ app[u].conversation.session # None =>
         \A i \in Parties(app[u].conversation.session) :
           i[1] = u \/ i = pins[u][app[u].conversation.peer.device]

\* What is written next goes to the entry of the directory, what is shown is
\* the conversation (app.rs:998, 1319): they are of one device and identity, or
\* a bootstrap from the entry's is queued and unread, as one that was refused is.
\* Either way the entry's identity is the pinned one, so that what goes to the
\* wrong device goes to a known one.
EntryIsOpen ==
  \A u \in Users :
    LET me == app[u]
    IN  me.conversation # None =>
          /\ me.directory # None
          /\ pins[u][me.directory.device] = me.directory.identity
          /\ \/ me.conversation.peer = me.directory
             \/ \E row \in queue \ processed[u] :
                  /\ row.from = me.directory.device
                  /\ made[row.id].to = me.device
                  /\ made[row.id].boot # None
                  /\ made[row.id].boot.identity = me.directory.identity

\* A first message that came with a one-time prekey is read by a session with
\* the secret it was sealed under, or by none (app.rs:853), though the reader
\* may have lost its identity since it published.
PrekeyMakesItAgree ==
  \A u \in Users :
    LET c == app[u].conversation
    IN  c # None /\ c.session # None /\ c.session.role = "responder" =>
          \/ \E id \in 1 .. Len(made) : made[id].key.secret = c.session.secret
          \/ \E id \in 1 .. Len(made) :
               made[id].to = app[u].device /\ made[id].boot # None /\ made[id].boot.prekey = None

\* The checkbox shows what the server has, restarts and other accounts in
\* between, as long as no call and no save has failed (CHANGELOG.md:6).
BoxIsServers ==
  \A u \in Users :
    failures = 0 /\ app[u].token => app[u].visible = accounts[app[u].device].visible

\* A message whose key is its own and that is not processed can still be read
\* after a restart; the only way to lose it is a commit that failed, followed
\* by one of the same session that did not (app.rs:1098).
UnprocessedIsUnread ==
  \A u \in Users, row \in queue :
    LET e == made[row.id]
        s == stored[u][row.from]
        fresh == \A id \in 1 .. Len(made) : made[id].key = e.key => id = row.id
        later == \/ \E other \in processed[u] : made[other.id].key.secret = e.key.secret
                 \/ \E id \in 1 .. Len(made) :
                      /\ made[id].to = row.from
                      /\ made[id].key.secret = e.key.secret
                      /\ made[id].key.by # e.key.by
    IN  /\ e.to = app[u].device
        /\ \A other \in processed[u] : other.id # row.id
        /\ fresh
        /\ s # None /\ s.secret = e.key.secret /\ s.role # e.key.by
        => \/ e.key.n \notin s.read
           \/ (\E other \in uncommitted[u] : other.id = row.id) /\ later
=============================================================================
