------------------------------ MODULE Client ------------------------------
(***************************************************************************)
(* The desktop client of clients/upm-windows: what it keeps in memory, what *)
(* its local SQLite store keeps, and the queue of the server it sends to   *)
(* and polls.  app.rs runs on one thread, so a client does one thing at a  *)
(* time, but the network may lose a request or its answer, and the process *)
(* may die between any two steps.                                          *)
(*                                                                         *)
(* The session in a conversation is a real Double Ratchet session; a       *)
(* message is named by the position at which its envelope was made.        *)
(***************************************************************************)
EXTENDS Integers, Sequences, FiniteSets

CONSTANTS
  Devices,
  NoDevice,     \* no conversation is open
  NoSession,    \* Option::None, for sessions
  NoKey,        \* Option::None, for keys
  MaxSkip,      \* MAX_SKIP
  MaxMade,      \* bound: envelopes made, by all devices
  MaxRestarts   \* bound: restarts, of all devices

Ids == 1 .. MaxMade

ASSUME BoundsAssumption == MaxSkip \in Nat /\ MaxMade \in Nat /\ MaxRestarts \in Nat
ASSUME NoDeviceAssumption == NoDevice \notin Devices

VARIABLES
  conversation, \* conversation[d]: the open conversation, [peer, session]
  stored,       \* stored[d][p]: table sessions
  outbox,       \* outbox[d]: table outbox
  processed,    \* processed[d]: table processed_messages
  history,      \* history[d][id]: how many rows table messages has for id
  batch,        \* batch[d]: pulled envelopes poll has not come to
  acks,         \* acks[d]: ack_ids of the poll under way
  queue,        \* message_envelopes on the server
  made,         \* every envelope ever made, by any device
  minted,       \* minted[d]: how many key pairs d has generated
  unanswered,   \* the messages whose first send got no answer
  restarts

memory == <<conversation, batch, acks>>
store == <<stored, outbox, processed, history>>
vars == <<memory, store, queue, made, minted, unanswered, restarts>>

-----------------------------------------------------------------------------
(* Keys and sessions.                                                      *)

PublicKey == Devices \X Nat

SignedPrekey(d) == <<d, 0>>

\* generate(): whatever session is restored, a key pair is never drawn twice.
FreshKey(key) == <<key[1], minted[key[1]] + 1>>

INSTANCE DoubleRatchet

ASSUME NoneAssumption ==
  /\ NoKey \notin PublicKey /\ NoKey \notin ChainKey
  /\ NoSession \notin Session

\* initiate and respond agree on the secret; one-time prekeys are left out.
Handshake(ephemeral, d) == <<{ephemeral, SignedPrekey(d)}>>

\* from_snapshot refuses a store of skipped keys that is too large.
Refused(s) == Cardinality(s.skipped) > MaxSkip

\* load_session, where any failure is "no session yet".
LoadSession(s) == IF s = NoSession \/ Refused(s) THEN NoSession ELSE s

-----------------------------------------------------------------------------
(* Envelopes and the conversation.                                         *)

\* boot is the ephemeral key of the SessionBootstrap, if the packet has one.
Envelope ==
  [from : Devices, to : Devices, boot : PublicKey \cup {NoKey}, wire : Message]

OutboxItem == [id : Ids, after : Session]

Conversation ==
  [peer : Devices, session : Session \cup {NoSession}]
    \cup {[peer |-> NoDevice, session |-> NoSession]}

Closed == [peer |-> NoDevice, session |-> NoSession]

\* enqueue_message accepts the same envelope again without a second row.
Enqueued(id) == queue \cup {id}

\* The UI thread is in no poll.
Idle(d) == batch[d] = {} /\ acks[d] = {}

OutboxWithout(d, id) == {item \in outbox[d] : item.id # id}

\* Mutant: INSERT OR IGNORE in place of ON CONFLICT DO UPDATE.
SessionSavedOnce(d, p, after) ==
  stored' = [stored EXCEPT ![d][p] = IF @ = NoSession THEN after ELSE @]

SessionSaved(d, p, after) == stored' = [stored EXCEPT ![d][p] = after]

\* commit_outgoing_delivery, one transaction.
CommitOutgoing(d, id, after) ==
  /\ history' = [history EXCEPT ![d][id] = @ + 1]
  /\ SessionSaved(d, made'[id].to, after)
  /\ outbox' = [outbox EXCEPT ![d] = OutboxWithout(d, id)]
  /\ UNCHANGED processed

-----------------------------------------------------------------------------
(* Sending.                                                                *)

\* resolve: the contact is looked up and its conversation opened afresh, with
\* the session the store has for it.
Resolve(d, p) ==
  /\ Idle(d)
  /\ p # d
  /\ conversation' = [conversation EXCEPT ![d] =
                        [peer |-> p, session |-> LoadSession(stored[d][p])]]
  /\ UNCHANGED <<batch, acks, store, queue, made, minted, unanswered, restarts>>

\* Mutant: the conversation keeps the session the clone was taken of.
SessionNotTaken(d, after) == UNCHANGED conversation

SessionTaken(d, after) == conversation' = [conversation EXCEPT ![d].session = after]

\* send_payload once the packet is made: the outbox first, then the server;
\* the session moves, on disk and in memory, only when the answer arrives.
SendPayload(d, envelope, after, reached, answered) ==
  LET id == Len(made) + 1
  IN  /\ made' = Append(made, envelope)
      /\ queue' = IF reached THEN Enqueued(id) ELSE queue
      /\ IF answered
         THEN /\ CommitOutgoing(d, id, after)
              /\ SessionTaken(d, after)
              /\ UNCHANGED unanswered
         ELSE /\ outbox' = [outbox EXCEPT ![d] = @ \cup {[id |-> id, after |-> after]}]
              /\ unanswered' = unanswered \cup {id}
              /\ UNCHANGED <<conversation, stored, processed, history>>
      /\ UNCHANGED <<batch, acks, restarts>>

MaySend(d, reached, answered) ==
  /\ Idle(d)
  /\ conversation[d] # Closed
  /\ Len(made) < MaxMade
  /\ answered => reached

\* make_outgoing_packet, on a clone of the conversation's session.
SendNext(d, reached, answered) ==
  LET p == conversation[d].peer
      s == conversation[d].session
  IN  /\ MaySend(d, reached, answered)
      /\ s # NoSession
      /\ s.sendChain # NoKey            \* otherwise NotEstablished
      /\ SendPayload(d, [from |-> d, to |-> p, boot |-> NoKey, wire |-> SealedBy(s)],
                     AfterEncrypt(s), reached, answered)
      /\ UNCHANGED minted

\* make_initial_outgoing_packet: a handshake of its own, and its bootstrap.
SendFirst(d, reached, answered) ==
  LET p == conversation[d].peer
      ephemeral == <<d, minted[d] + 1>>
      s == InitInitiator(Handshake(ephemeral, p), <<d, minted[d] + 2>>, SignedPrekey(p))
  IN  /\ MaySend(d, reached, answered)
      /\ conversation[d].session = NoSession
      /\ SendPayload(d, [from |-> d, to |-> p, boot |-> ephemeral, wire |-> SealedBy(s)],
                     AfterEncrypt(s), reached, answered)
      /\ minted' = [minted EXCEPT ![d] = @ + 2]

\* Mutant: a message is sent again and its item left as it is.
ItemLeft(d, item, answered) == UNCHANGED store

ItemSettled(d, item, answered) ==
  IF answered /\ ~Refused(item.after)
  THEN CommitOutgoing(d, item.id, item.after)
  ELSE UNCHANGED store

\* retry_outbox, for one item: a poll tries each, and each may fail by itself.
Retry(d, item, reached, answered) ==
  /\ Idle(d)
  /\ answered => reached
  /\ queue' = IF reached THEN Enqueued(item.id) ELSE queue
  /\ UNCHANGED made
  /\ ItemSettled(d, item, answered)
  /\ UNCHANGED <<memory, minted, unanswered, restarts>>

-----------------------------------------------------------------------------
(* Polling.                                                                *)

AddressedTo(d) == {id \in queue : made[id].to = d}

\* pull_messages hands the rows out in the order of created_at, a wall clock
\* that send reads before it takes the database lock: poll may meet them in
\* any order.
Pull(d) ==
  /\ Idle(d)
  /\ AddressedTo(d) # {}
  /\ batch' = [batch EXCEPT ![d] = AddressedTo(d)]
  /\ UNCHANGED <<conversation, acks, store, queue, made, minted, unanswered, restarts>>

\* A duplicate is acknowledged and not looked at.
SkipProcessed(d, id) ==
  /\ id \in batch[d]
  /\ id \in processed[d]
  /\ batch' = [batch EXCEPT ![d] = @ \ {id}]
  /\ acks' = [acks EXCEPT ![d] = @ \cup {id}]
  /\ UNCHANGED <<conversation, store, queue, made, minted, unanswered, restarts>>

\* The conversation an envelope is read in: the open one, if it is with the
\* sender, or a new one that its bootstrap establishes.
ReadIn(d, e) ==
  IF conversation[d].peer = e.from
  THEN conversation[d]
  ELSE [peer |-> e.from,
        session |-> InitResponder(Handshake(e.boot, d), SignedPrekey(d))]

\* Mutant: a bootstrap opens no conversation.
UnreadableUnlessOpen(d, e) ==
  conversation[d].peer = e.from => conversation[d].session = NoSession

\* Neither an open conversation nor a bootstrap, or no session in it.
Unreadable(d, e) ==
  \/ conversation[d].peer # e.from /\ e.boot = NoKey
  \/ conversation[d].peer = e.from /\ conversation[d].session = NoSession

\* commit_incoming_message, one transaction.
CommitIncoming(d, id, after) ==
  /\ history' = [history EXCEPT ![d][id] = @ + 1]
  /\ SessionSaved(d, made[id].from, after)
  /\ processed' = [processed EXCEPT ![d] = @ \cup {id}]
  /\ UNCHANGED outbox

Read(d, id) ==
  /\ id \in batch[d]
  /\ id \notin processed[d]
  /\ batch' = [batch EXCEPT ![d] = @ \ {id}]
  /\ LET e == made[id]
         c == ReadIn(d, e)
         after == Opened(c.session, e.wire)
     IN  \/ /\ Unreadable(d, e)
            /\ UNCHANGED <<conversation, acks, store, minted>>
         \/ /\ ~Unreadable(d, e)
            /\ ~Opens(c.session, e.wire)
            /\ conversation' = [conversation EXCEPT ![d] = c]
            /\ UNCHANGED <<acks, store, minted>>
         \/ /\ ~Unreadable(d, e)
            /\ Opens(c.session, e.wire)
            /\ conversation' = [conversation EXCEPT ![d] = [c EXCEPT !.session = after]]
            /\ CommitIncoming(d, id, after)
            /\ acks' = [acks EXCEPT ![d] = @ \cup {id}]
            /\ minted' = [minted EXCEPT ![d] = IF after.self = c.session.self THEN @ ELSE @ + 1]
  /\ UNCHANGED <<queue, made, unanswered, restarts>>

\* Mutant: whatever was pulled is taken for delivered.
AckedAnyway(d) == AddressedTo(d)

\* ack_messages: the rows among acks that are the device's own.
Acked(d) == {id \in queue : id \in acks[d] /\ made[id].to = d}

Ack(d, reached) ==
  /\ batch[d] = {}
  /\ acks[d] # {}
  /\ queue' = IF reached THEN queue \ Acked(d) ELSE queue
  /\ acks' = [acks EXCEPT ![d] = {}]
  /\ UNCHANGED <<conversation, batch, store, made, minted, unanswered, restarts>>

\* The process dies, or the user logs out: the store is all that is left.
Restart(d) ==
  /\ restarts < MaxRestarts
  /\ restarts' = restarts + 1
  /\ conversation' = [conversation EXCEPT ![d] = Closed]
  /\ batch' = [batch EXCEPT ![d] = {}]
  /\ acks' = [acks EXCEPT ![d] = {}]
  /\ UNCHANGED <<store, queue, made, minted, unanswered>>

-----------------------------------------------------------------------------

Init ==
  /\ conversation = [d \in Devices |-> Closed]
  /\ stored = [d \in Devices |-> [p \in Devices |-> NoSession]]
  /\ outbox = [d \in Devices |-> {}]
  /\ processed = [d \in Devices |-> {}]
  /\ history = [d \in Devices |-> [id \in Ids |-> 0]]
  /\ batch = [d \in Devices |-> {}]
  /\ acks = [d \in Devices |-> {}]
  /\ queue = {}
  /\ made = << >>
  /\ minted = [d \in Devices |-> 0]
  /\ unanswered = {}
  /\ restarts = 0

Step(d) ==
  \/ \E p \in Devices : Resolve(d, p)
  \/ \E reached, answered \in BOOLEAN :
       \/ SendFirst(d, reached, answered)
       \/ SendNext(d, reached, answered)
       \/ \E item \in outbox[d] : Retry(d, item, reached, answered)
  \/ Pull(d)
  \/ \E id \in batch[d] : SkipProcessed(d, id) \/ Read(d, id)
  \/ \E reached \in BOOLEAN : Ack(d, reached)
  \/ Restart(d)

Next == \E d \in Devices : Step(d)

Spec == Init /\ [][Next]_vars

\* app.rs update polls every two seconds: an outbox item is sent again and
\* again, an envelope is pulled again and again, and some attempt gets through.
Fairness ==
  \A d \in Devices :
    /\ \A id \in Ids :
         SF_vars(\E item \in outbox[d] : item.id = id /\ Retry(d, item, TRUE, TRUE))
    /\ SF_vars(Pull(d))
    /\ WF_vars(\E id \in batch[d] : SkipProcessed(d, id) \/ Read(d, id))
    /\ SF_vars(Ack(d, TRUE))

FairSpec == Spec /\ Fairness

-----------------------------------------------------------------------------
(* Properties.                                                             *)

\* Type invariant.
TypeOK ==
  /\ conversation \in [Devices -> Conversation]
  /\ stored \in [Devices -> [Devices -> Session \cup {NoSession}]]
  /\ outbox \in [Devices -> SUBSET OutboxItem]
  /\ processed \in [Devices -> SUBSET Ids]
  /\ history \in [Devices -> [Ids -> Nat]]
  /\ batch \in [Devices -> SUBSET Ids]
  /\ acks \in [Devices -> SUBSET Ids]
  /\ queue \subseteq Ids
  /\ made \in Seq(Envelope)
  /\ minted \in [Devices -> Nat]
  /\ unanswered \subseteq Ids
  /\ restarts \in 0 .. MaxRestarts

\* ratchet.rs:11 "Message keys are used exactly once and then discarded, so a
\* fixed all-zero AEAD nonce per message is safe".
KeyUsedOnce ==
  \A i, j \in 1 .. Len(made) : made[i].wire.key = made[j].wire.key => i = j

\* The sends of d have all been answered so far.
Answered(d) == \A k \in unanswered : made[k].from # d

\* A device all of whose sends were answered never seals two messages under
\* one key, whatever restarts and reopened conversations there are between.
AnsweredKeysAreFresh ==
  \A d \in Devices : Answered(d) =>
    \A i, j \in 1 .. Len(made) :
      made[i].from = d /\ made[i].wire.key = made[j].wire.key => i = j

\* ... and the session in its store is the one in memory, so that a restart
\* forgets no step of the ratchet.
RestartForgetsNothing ==
  \A d \in Devices : Answered(d) /\ conversation[d].session # NoSession =>
    stored[d][conversation[d].peer] = conversation[d].session

\* ... and what it has read, neither session can read again.
ReadOnlyOnce ==
  \A d \in Devices : Answered(d) =>
    \A id \in processed[d] :
      LET s == stored[d][made[id].from]
      IN  s # NoSession => ~Opens(s, made[id].wire)

\* An item of the outbox leaves it in the end.
OutboxDrains ==
  \A d \in Devices, id \in Ids :
    (\E item \in outbox[d] : item.id = id) ~>
      (\A item \in outbox[d] : item.id = id => Refused(item.after))

\* No send failed, no client restarted, one side wrote the first message, and
\* the other did not open the conversation before it had read that message.
Calm ==
  /\ unanswered = {}
  /\ restarts = 0
  /\ \A i, j \in 1 .. Len(made) :
       made[i].boot # NoKey /\ made[j].boot # NoKey => i = j
  /\ \A i \in 1 .. Len(made), d \in Devices :
       made[i].to = d /\ conversation[d].peer = made[i].from
         => conversation[d].session # NoSession

\* Then every message is read.
CalmIsRead ==
  ([]Calm) => \A d \in Devices, id \in Ids :
                (id <= Len(made) /\ made[id].to = d) ~> (id \in processed[d])

\* local_store.rs:314 "safely falls into the same "establish a fresh session"
\* path a brand-new conversation already takes - instead of the conversation
\* becoming permanently unusable": what a fresh session opens with is read.
FreshSessionIsRead ==
  \A d \in Devices, id \in Ids :
    (id \in AddressedTo(d) /\ made[id].boot # NoKey) ~> (id \in processed[d])

\* The client implements the delivery of messages.
written == 1 .. Len(made)
shown == [id \in Ids |-> IF id \in written THEN history[made[id].to][id] ELSE 0]
filed == [id \in Ids |-> IF id \in written THEN history[made[id].from][id] ELSE 0]
accepted == queue \cup {id \in written : shown[id] > 0}

Promise == INSTANCE Delivery WITH Messages <- Ids

ImplementsDelivery == Promise!Spec

=============================================================================
