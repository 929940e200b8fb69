# UPM Messenger in TLA+

UPM is a small end-to-end encrypted messenger in Rust: a shared core
(`crates/`), a store-and-forward server (`server/upm-server`) and a desktop
client (`clients/upm-windows`). This directory holds TLA+ modules translated
from that code, TLC runs that check them on small instances, and proofs that
TLAPS checks for every value of the constants.

`PROJECT.json` maps every definition to the lines it stands for and lists the
runs, the mutants, the hazards, the findings and the theorems.

## The system

| Component | State | Operations |
|---|---|---|
| Double Ratchet session, `upm-core/src/ratchet.rs` | root key, DH key pair, two chains, counters, the store of skipped keys | `encrypt`, `decrypt`, `snapshot`, `from_snapshot` |
| Handshake, `upm-core/src/handshake.rs` | none | `initiate`, `respond`: a shared secret and the two first chains |
| Client, `upm-windows/src/app.rs` | the profile and its token, the directory entry, the open conversation, the checkbox | `register`, `authenticate`, `logout`, `resolve`, `send_payload`, `retry_outbox`, `poll`, restart |
| Local store, `local_store.rs` | SQLite: `sessions`, `outbox`, `processed_messages`, `messages`, pins | single rows, and the transactions `commit_incoming_message`, `commit_outgoing_delivery` |
| Identity, `identity.rs` | identity keys, signed prekey, pool of one-time prekeys in the credential store | generate, publish, remove |
| Message queue, `db.rs`, `api.rs` | `message_envelopes` | send (idempotent), pull, acknowledge, expiry |
| Prekeys, `db.rs` | `one_time_prekeys`, device keys | publish, claim, bundle |
| Accounts, `db.rs`, `admin.rs` | users, devices, visibility | register, resolve, delete |
| Authentication, `auth.rs` | `auth_challenges`, `sessions` | challenge, verify, authenticate, revoke |
| Attachments, `api.rs`, `db.rs` | `attachments`, blob files | create, upload, download, delete, sweep |
| Workers, `main.rs`, `service.rs` | worker threads, the mutex of the database, the shutdown flag | accept, handle, sweep, stop |
| Rate limiter, `ratelimit.rs` | fixed windows per key | `check` |

How they meet: a client asks the server for a bundle and a one-time prekey,
handshakes, and sends the first ratchet message together with a *bootstrap*
(its ephemeral key). The server queues envelopes it cannot read. The recipient
polls every two seconds; a bootstrap from a device it has no conversation with
opens one; each envelope that decrypts is committed to the local store
together with the ratchet state and a dedup marker, and is acknowledged at the
end of the poll. All server state but the rate limiter's is behind one mutex
around a SQLite connection; handlers take it more than once.

What is hard, and what makes each part correct:

- *The ratchet* sees ciphertexts late, out of order, twice, damaged. Correct:
  no key seals two messages; what has not been read still opens; what has been
  read never opens again; a damaged ciphertext changes nothing.
- *The client* may lose any request or any answer and may die between any two
  steps. Correct: a message enters each history at most once and is not lost
  once accepted; the session on disk does not fall behind the one in memory;
  the outbox drains; what a new session opens with is read.
- *Whom the client talks to* is said in five places: the directory, the pin, the
  published bundle, a bootstrap, and the conversation on the screen. They change
  at different times, and either end may lose its identity and register again.
  Correct: a session is one with the pinned identity, what is written goes to
  the device whose conversation is shown (but for a bootstrap that was refused,
  below), and a handshake agrees or is refused.
- *The queue*: idempotent sends, acknowledgements scoped to the recipient,
  quotas, expiry at the boundary second, timestamps read before the lock.
- *Prekeys*: handed out at most once, used at most once, and the supply on
  the server refilled from the client's pool.
- *Attachments*: a row and a file that must agree although upload, deletion
  and sweep let go of the lock in between.
- *Accounts and authentication*: a challenge is used once; a deleted account
  leaves nothing behind, in several statements; a token is checked under one
  lock and used under another.
- *Workers*: a panic under the mutex poisons it; the shutdown has to wake
  every worker.
- *The rate limiter*: at most `limit` counted calls in a window, a bounded table
  that fails open only when it has to, a clock that may go back.

## The plan

| Module | Models | Status |
|---|---|---|
| `DoubleRatchet` | the operators of a session, shared by the next two | done |
| `Ratchet`, over `Channel` | two sessions and an adversarial transport | done, proved |
| `Client`, over `Delivery` | clients, local stores, the queue as they see it | done, proved |
| `MessageQueue`, over `Mailbox` | `handle_send`, `handle_pull`, `handle_ack`, sweep, account deletion: quotas, TTL, interleaved handlers | done, proved |
| `Attachments` | slots, blob files, concurrent handlers, sweep, crash | done, proved |
| `Prekeys` | pool, credential store, publication, claim, first message | done, proved |
| `Accounts` | registration, challenges, sessions, `require_auth` against the handlers, the deletion of an account statement by statement | done, proved |
| `Workers` | the threads, their listeners, panics and the poisoned mutex, the sweep's loop, shutdown | done, proved |
| `Contacts` | registration, login, lost identities, pins, the directory entry and the conversation, handshakes, commits that fail | done, proved |
| `RateLimiter` | fixed window, bounded table, stamps and clock; its verdict is a choice in `Workers` | done, proved |

What would come next: a store of blobs as an abstract specification for
`Attachments`; the client's half of an attachment. The abstract specifications there are: `Channel`, `Delivery` and
`Mailbox`.

## Modules

### `DoubleRatchet`

Operators only. Keys are terms: a secret is the set of the public keys it is
agreed between (so both ends compute the same one, which is what X25519 gives
them), a root key the sequence of secrets mixed in, a chain key its root,
label and step. Equal terms are equal keys and different terms different keys:
HKDF is taken to be injective and the AEAD to open exactly what was sealed
under the key. `Opened`/`Opens` follow `decrypt_inner` in the order of its
steps: the store of skipped keys, the rest of the old chain, the DH step, the
skip to the header's number, authentication. `AfterDecrypt` is `decrypt`: the
candidate is committed only when the plaintext authenticated. The constant
`FreshKey(_)` is `AgreementSecret::generate`.

### `Ratchet`

Two sessions after a handshake. `Encrypt` is `encrypt`; `Decrypt(p, i, intact)`
hands `p` the i-th message of its peer, whichever, as often as the transport
likes, damaged or not; `Reload` is a restart, `from_snapshot(snapshot())`,
which loses the session when the store is larger than `from_snapshot` takes.
`sent` and `reads` are history: the ciphertexts made, and how often each was
read.

`Channel` says what that amounts to: messages are posted, each is read at most
once, and an end may lose its session. It knows no keys.

### `Client`

Any number of desktop clients, their local stores and the server's queue.
`conversation`, `batch` and `acks` are the memory of `UpmApp`; `stored`,
`outbox`, `processed` and `history` are the tables of the local store; `queue`
is `message_envelopes`; `made`, `unanswered` and `restarts` are history and
bounds. The session in a conversation is a real `DoubleRatchet` session.

The actions: `Resolve` (`resolve` and the `ensure_conversation` it calls),
`SendFirst` and `SendNext` (`make_initial_outgoing_packet` and
`make_outgoing_packet`, each with `send_payload`), `Retry` (one item of
`retry_outbox`), `Pull`, `SkipProcessed`, `Read` and `Ack` (the parts of
`poll`, between which the process may die), `Restart` (a crash, or a logout).
`reached` and `answered` say whether a request got to the server and whether
its answer came back. The envelopes of a poll are read in any order: the
server sorts by a clock in seconds that `handle_send` reads before it takes
the lock. A message is named by its position in `made`.

Left out of `Client`: one-time prekeys, pins and identities that change, the
entry of the directory, a SQLite that fails (`Contacts` has these four),
attachments, message expiry, the rows' encryption.

`Delivery` says what the clients and the queue promise for each message: once
accepted it is not lost, it enters the sender's history at most once and the
recipient's at most once, and only if it was accepted.

### `MessageQueue`

The table `message_envelopes` with worker threads around it. `Receive` is
`require_auth` and `handle_send` up to its lock: it checks and stamps. The
envelope then waits in `sends` until `Enqueue`, which is the rest of
`handle_send` and `enqueue_message` under one hold of the mutex: sender active,
recipient known, the id free or given to this very envelope, quota, insert.
`Pull`, `Ack`, `Sweep` and `DeleteAccount` are one hold each; `Restart` loses
what the workers had and sweeps. Requests that are refused without a change of
state (version, malformed id, ttl out of range, another device's queue) are not
steps. `heard` and `seq` are history: how many rows were inserted when a send
came in, and the position at which a row was.

`Mailbox` says what that amounts to, knowing no workers, stamps or quotas:
one letter to an id, letters never change, and a letter goes by its recipient,
once it is due, or with an account. A letter that is handed out in its last
second is still there and one that the sweep takes in the same second was due;
both readings of the boundary (`<` in `pull_messages`, `<=` in the sweep) are
in the refinement.

### `Attachments`

A row and a file. The steps of `handle_attachment_upload` are actions of their
own, because the mutex is free from the lookup to `mark_attachment_uploaded`:
`BeginUpload`, `Reject` (body), `Open` and `Write` (`fs::write` creates or
truncates, then fills), `WriteFails`, `Rename`, `Mark`. `Delete` removes row
and file with the mutex held; `Sweep` and `DeleteAccount` delete rows and keep
the storage keys in `unlinking`, and `Unlink` is one turn of the loop over
them. What a name leads to is an inode, so that a second upload that truncates
the temporary file of the first is visible. `contended` is history: the ids of
which a second upload came in while or after a first.

Left out: downloads (they change nothing), a SQLite that fails, a
`create_dir_all` that fails (the same outcome as `Reject`).

### `Prekeys`

One device's pool, what the credential store has of it, and the server's table.
`Login` (startup, and `authenticate`) fills the pool, `Save` is
`persist_identity_secrets` with its ignored error, `Publish` is
`publish_prekeys` with `INSERT OR IGNORE`, `Claim` and `Write` are those who
open a session, `Read` is `establish_responder_session` with the commit of the
message, `Remove` what `poll` does with the used prekey; the client may die
between any two of these (`Crash`).

Left out: the test for fewer than four prekeys at the end of `poll`. The pool is
filled to twelve whenever one is removed, so it is never true; what `Remove`
generates reaches the server at the next login only.

### `Contacts`

The same clients from the side of whom they talk to. `app[u]` is `UpmApp` with
its saved profile, `kept[u]` the credential store, `pins`, `stored`, `outbox`
and `processed` the tables of the local store, `accounts`, `prekeys`, `claimed`
and `queue` those of the server. A session is what `Ratchet` and its proofs show
a pair of them to be: a secret and the positions sent and read under it, so that
the ratchet's chains need not be carried along. The secret is the set of
agreements of the handshake, three or four, each the set of its two public keys.
An identity is its owner and the position at which it was drawn; the signing,
the exchange and the signed prekey pairs are drawn and lost together.

`Register`, `Login` and `Restart` each run through `authenticate` to wherever a
call of it fails (`failed` says which); `Restart` may find the credential store
unreadable, and draws another identity then. `Resolve` pins and opens;
`SendFirst` takes the bundle, compares its identity with the entry's, claims a
prekey and sends with a bootstrap; `SendNext` continues; `SendRefused` is either
with an answer that forbids it. `Retry` is one item of `retry_outbox`, sent by
whichever account is logged in now. One envelope of a poll is one action:
`SkipProcessed`, `RefuseBootstrap` (the entry changes and the conversation does
not), `CannotRead` (a conversation opened for it stays) or `Read`, whose commit,
acknowledgement or save may fail. `Damages` is what may be wrong with an envelope
as it is pulled: the signature of its bootstrap, which `verify_bootstrap` refuses
after the sender was pinned and the entry set, or its message, which `decrypt`
refuses. Either may come and go from one pull to the next. A commit is a
transaction (`CommitIncoming`, `CommitFails`).

Left out: writing to oneself, an account that is deleted meanwhile (`Accounts`),
expiry, skips (`Ratchet`), a profile that cannot be saved, a claim in the order
of its seconds (any unclaimed prekey may be handed out), and a bootstrap that names
another identity than its sender's (`poll` pins what it names before it verifies
anything, `app.rs:975`).

### `Accounts`

Users, devices, challenges, sessions, and the rows that refer to devices.
`Register`, `IssueChallenge`, `RequireAuth`, `Post`, `Logout` and `Sweep` are
one hold of the mutex each; a request that `RequireAuth` let in waits in
`requests`, and its device may be deleted before `Post`. Two handlers commit
more than once while they hold the mutex, and the process may die in between,
so they are taken apart: `verify_and_issue_session` into `TakeChallenge` (read
and delete) and `Verify` (expiry, key, signature, insert), and
`admin_delete_account` into `Delete` and a `Statement` per DELETE, in their
order. `holder` is what such a handler has before it, and no other handler gets
the mutex meanwhile. Foreign keys are enforced (`open`), so a DELETE of a row
that is referred to fails (`Referred`), and so does an INSERT whose device is
gone (`Insertable`; the handlers check the same before). `signatures` is what
clients made of the challenges they were given, with the registered key or,
after the credential store was lost, another one; a signature may arrive any
number of times. `drawn`, `nonces`, `compared` and `posted` are history and
bounds.

Left out: lookups, visibility and the publication of long-lived keys (`Contacts`
has them), the expiry of rows (`MessageQueue` and `Attachments` have it),
the migration of plaintext tokens, and `memberships`, which nothing writes. An
account has one device because registration is all that makes one.

### `Workers`

The threads of `run_server` and the mutex between them. `at` says where a worker
or the thread of the dashboard is: at `recv`, in a handler (`run`), in a handler
with the mutex (`locked`), or `gone`. A handler takes the mutex a number of
times (`holds`) and then answers; one that a rate limiter refuses takes it not
at all. `Panic` strikes a handler anywhere; `catch_unwind` sends the thread back
to `recv`, and a guard that was held poisons the mutex, so that every later
`lock().expect()` is a panic of its own (`Lock`). The sweep's thread has no
`catch_unwind` and ends there. `Recv` takes what is first in the listener's
queue: a request, an `unblock`, or a connection that failed, and the last two
end the thread; the listeners are `tiny_http`, modelled from how `main.rs` uses
them. `Stop` is the service control handler, and `SeeShutdown` to
`FinalCheckpoint` are `run_server` after its wait. Threads go on after
`run_server` has returned, if any are left.

Left out: what a request is about, and a dashboard that failed to bind.

### `RateLimiter`

The limiter in front of the routes for challenges and their verification. `state`
is its table. A worker thread begins a call and reads the wall clock (`Begin`), and
gets the limiter's mutex later (`Check`), so stamps reach the table in any order.
`TimePasses` is real time, which stands still once a thread has waited `MaxDelay`,
and `SetBack` sets the wall clock back. `Check` is `FailsOpen`, for a key that a full
table has no room for after its sweep (`Swept`, `Retained`), or `Counts`. The
histories go by key and second of real time: `admitted` has every call that was let
through, `counted` those of them that the table counted, `checked` all that it
counted, and `refused` when a call was refused.
The limiter by address and the one for registrations are the same code with
other keys and limits.

## Runs

| Run | Bounds | Shows |
|---|---|---|
| `ratchet` | `MaxSkip` 1, 4 messages each way | `KeyUsedOnce`, `UnreadOpens`, `StoreIsOutstanding`, `StoreGrowsByTwoSkips`, `EventuallyRead`, `ImplementsChannel` |
| `client` | 2 devices, 3 envelopes, 1 restart, `MaxSkip` 3 | `AnsweredKeysAreFresh`, `RestartForgetsNothing`, `ReadOnlyOnce`, `ImplementsDelivery` |
| `client_live` | 2 devices, 2 envelopes, 1 restart | `OutboxDrains`, `CalmIsRead` |
| `client_keys` (violation) | as `client` | a message key seals two messages after an unanswered send |
| `client_fresh` (violation) | as `client_live` | a bootstrap is passed over for ever when its recipient opened the contact first |
| `message_queue` | 2 devices, 4 ids, 4 inserts, 2 workers, quotas 2 and 3, ttl 1, 3 seconds | `WithinQuotas`, `RetryIsAccepted`, `HandedOutInOrder`, `ImplementsMailbox` |
| `attachments` | 1 owner, 2 slots, sizes 1 and 2, quota 2, 2 workers, 3 uploads, 1 crash, ttl 1, 3 seconds | `UploadedIsThere`, `NoFileLeftBehind`, `WithinQuota`, `FilesGo` |
| `prekeys` | pool of 2, 5 prekeys, 3 bootstraps, 2 crashes | `OneTime`, `HandedOutIsKept`, `UsedIsForgotten`, `PoolIsFull`, `WritersAreRead` |
| `contacts` | 2 users, 3 accounts, 2 envelopes, pool of 1, 1 failure, 2 restarts, log-outs or changes of the checkbox | `SessionIsWithThePinned`, `EntryIsOpen`, `PrekeyMakesItAgree`, `BoxIsServers`, `UnprocessedIsUnread` |
| `accounts` | 2 names, 2 ids, 2 challenges, 1 row, 1 crash, ttls 1, 3 seconds | `ChallengeComparedOnce`, `SessionsAreSigned`, `LeftoversHaveOwners`, `DeletionCompletes` |
| `workers` | 2 workers, 2 requests, 2 holds, 1 panic, 1 failed connection | `NothingAfterTheCheckpoint`, `EveryRequestIsServed`, `ShutdownCompletes` |
| `rate_limiter` | 3 keys, a table for 2, limit 1, windows of 2 seconds, waits of 1, 2 threads, 5 calls in 5 seconds, the clock set back by 1 | `Burst`, `OpensInACrowd`, `RefusedForItsCalls` |

Each module has a type invariant `TypeOK` (`LimiterTypeOK` in `RateLimiter`). It is
proved for every value of the constants, and no run repeats it.

Why the bounds are enough. With `MaxSkip` 1 a skip that is allowed, one that is
refused and a store that is too large all happen within three messages of a
chain, and four messages each way close several chains on both sides. With two
devices and three envelopes there are two handshakes that cross, an exchange
with a DH step on both ends, and a message on a chain that a retry rolls back;
`MaxSkip` 3 is more than three envelopes can skip, since the limit is
`ratchet`'s subject and not `client`'s. One restart falls between any two
steps of a poll or a send.

In `message_queue` two sends can be stamped in one second and enqueued in
another, in either order, so that two rows for one device are queued in the order
of their stamps and in the other; the device's quota of two rows is reached by one
device, the table's of three by two; a repeated id meets its own row and another's; an account is
deleted with sends under way. In `attachments` two uploads share a slot, or one
meets a deletion, a sweep or the account's end at any of its steps, and the
quota is filled by one slot or by two. In `prekeys` a pool of two is refilled
twice, with a crash at each step of the first use and one after it. In
`accounts` one challenge replaces another while its signature is under way, a
session and a challenge expire, an envelope refers to two devices of which one
goes, and the crash falls between any two statements. In `workers` one worker
may be lost and the other panic with a request still queued; the flag is set
with handlers, the dashboard and the sweep at any of their steps; two holds are
what `require_auth` and a handler need. In `contacts` three accounts for two
people are one registration anew, with a new identity or the old one; two
envelopes are a first message and its answer, two first messages that cross, or
two in a row of which the commit of one fails; a pool of one has a prekey to
claim and then none. In `rate_limiter` three keys compete for two places, so a key
is dropped while another's window runs and while the table is swept for it, three
windows of a key fit into the five seconds, and three calls that are let through
are enough to break a bound of twice one: with two more by other keys they fill
the table first, and the three get through uncounted. With windows of two seconds and waits of
one, `Burst` is about single seconds here; the theorem is about every length.

The limiter's properties say what a fixed window in a bounded table can give. A key
that the table has no room for is let through without limit (`ratelimit.rs:69`).
That takes at least `MaxTrackedKeys` other keys, each with a call in a window that
may still be open (`OpensInACrowd`); without such a crowd a key gets no more than
twice the limit, and with it no more than that is ever *counted* as let through
(`Burst`, which has both). Twice the limit is the price of a fixed window, and it
holds in the seconds of one less `MaxDelay`: the call that opens a window may have
waited for the mutex, so the next one opens that much sooner after it. In a second
more there may be three windows (with a limit of 2 and eight calls TLC finds five of
a key in two seconds): another key's sweep drops the key from a full table while its
own calls wait, and their stamps, from before the sweep, open its next window in the
past. A clock that is set back by `WindowSecs` or more breaks even that: a stamp
from before then looks like the end of the window that was opened with the clock set
back (hence the hypothesis `MaxBack < WindowSecs`). A refused key made more calls
than its limit, within a window that is longer by what the clock was set back and by
`MaxDelay` (`RefusedForItsCalls`), and that needs no hypothesis on the clock.

What stops: when all envelopes are made and read, or a session is lost,
nothing is left to do, so deadlock is not checked in these runs.

Fairness. `Ratchet`: each ciphertext is handed to `decrypt` again, because the
server keeps an envelope until it is acknowledged and the client pulls every
two seconds. `Client`: `update` polls every two seconds, each poll tries every
outbox item, pulls, walks through what it pulled and acknowledges; strong
fairness of `Retry`, `Pull` and `Ack` says that the network lets some attempt
through, weak fairness of the walk that the process runs. Nothing is assumed
of the user. `Attachments`: the clock runs, the sweep runs at its interval and
through its loop, and a handler that has begun goes on (its body arrives or the
read fails). `Prekeys`: a client that died is started again and goes on from
each step to the next; strong fairness of `Read` says that a bootstrap in the
queue is pulled again at every poll. `Accounts`: a handler that has the mutex
runs on, statement by statement. `Workers`: a thread that can run does, and a
handler's client sends its request to the end or goes away (the code has no
timeout of its own there); strong fairness of the two lock actions says that a
waiting thread gets the mutex some time, since the sweep sleeps between its
holds. That the server is told to stop is not assumed. `MessageQueue`, `Contacts` and
`RateLimiter` state no fairness and no liveness property:
nothing obliges a recipient to poll, a user to log in or a client to call.

### What the violations show

- `client_keys`: after a send without an answer the envelope waits in the
  outbox while the session in memory has not moved; the next message takes the
  same message key and the same all-zero nonce. `AnsweredKeysAreFresh` in run
  `client` says that this is the only way.
- `client_fresh`: a conversation that is open without a session is taken for a
  known peer, so its bootstrap is not looked at.

### Where comments and code part

Met while modelling, and in none of the runs' properties:

- `ratchet.rs:14` calls the storage of skipped keys bounded by `MAX_SKIP`.
  `skip_receiving_keys` compares one skip with it, not the size of the store, so
  keys of several chains add up; `from_snapshot` (`ratchet.rs:193`) then refuses
  what `snapshot` wrote, and the session is gone at the next restart. `Reload` has
  that outcome, and `StoreGrowsByTwoSkips` and `EventuallyRead` say what holds.
- `db.rs:347` says that `admin_delete_account` works in one transaction; it opens
  none. A crash after its first statement leaves the account without its
  attachments, and nobody was told their storage keys, so their files stay.
  `LeftoversHaveOwners` says that the account can be deleted again.
- A commit that fails after `decrypt` (`app.rs:1098`) is not lost by itself: the
  session on disk has not moved, and a restart reads the message. A later message
  of the same session that is committed takes it away for good; that is the
  exception in `UnprocessedIsUnread`.
- A bootstrap whose signature does not verify, or whose prekey is gone, moves the
  directory entry to its sender and leaves the conversation (`app.rs:998`), so that
  the next message goes to the sender; that is the exception in `EntryIsOpen`,
  which says besides that the entry has the pinned identity of its device. The
  message itself stays in the queue; without its prekey it is refused at every
  pull.
- `main.rs:43` says that "a single bad request should degrade nothing beyond
  itself", and `main.rs:190` that a bug in the dashboard and one in the workers "can
  never affect the other". Both share one mutex, and a panic under it poisons it:
  every later request that needs the database panics at its lock, and the sweep
  ends. `Panic` and `Lock` have that outcome, and no property states the isolation.
  `EveryRequestIsServed` and `ShutdownCompletes` hold with it: each of those
  requests costs its worker nothing but itself, and the server can be stopped.
- `ratelimit.rs:69` fails open, and `route` takes that for a call within budget: while
  `max_tracked_keys` other keys have open windows, a key that is not in the table is
  not limited. `OpensInACrowd` says that it takes no less.
- A client whose identity was lost before anyone resolved it again stays pinned
  under the old one, and there is no way to pin anew.
- Prekey ids are the primary key of their table for all devices, so a client that
  registers again with the identity it had publishes ids that `INSERT OR IGNORE`
  drops: its new device has no prekeys until the pool is renewed. A registration
  whose answer is lost takes the name.
- An outbox item is retried under whatever account is logged in (`app.rs:888`),
  and its recipient takes it for that account's.

## Proofs

`RatchetProofs` proves, for every `MAX_SKIP` and every number of messages:

- `TypeCorrect`: `Spec => []TypeOK`;
- `KeysAreUsedOnce`: `Spec => []KeyUsedOnce`;
- `StoredKeysAreOutstanding`: `Spec => []StoreIsOutstanding`;
- `UnreadMessagesOpen`: `Spec => []UnreadOpens`;
- `StoresGrowByTwoSkips`: `Spec => StoreGrowsByTwoSkips`;
- `SessionsImplementChannel`: `Spec => ImplementsChannel`.

They rest on the assumptions named in `Ratchet` (two different parties, `None`
is no key, the bounds are naturals) and on the invariant `IInv`. None of the
properties is inductive: that a key is used once says nothing about the key the
session will use next. `IInv` says where each session stands relative to the
messages of its peer: every message carries the key of its position on its
chain; a sending chain is the one its owner's DH key and the peer's last known
key lead to; one end is at most one DH step ahead of the other; and for each
message of the peer the reader has read it, has its key in the store, has it
still ahead on the current chain, or will get to its chain by the next step.
The lemmas follow `decrypt`: what a skip and a step do to a session, which
messages can open at all, and the three ways in which one does.

`ClientProofs` proves, for any devices and any number of messages and restarts:

- `TypeCorrect`: `Spec => []TypeOK`;
- `AnsweredKeysStayFresh`: `Spec => []AnsweredKeysAreFresh`;
- `StoreKeepsUp`: `Spec => []RestartForgetsNothing`;
- `ReadIsPast`: `Spec => []ReadOnlyOnce`;
- `ClientsImplementDelivery`: `Spec => ImplementsDelivery`.

They rest on the assumptions named in `Client` (the bounds are naturals, `None`
is no device, no key and no session) and on its invariant `IInv`:

- `Bookkeeping` ties the tables to the envelopes made: what a batch holds is in
  the queue, what is acknowledged was processed, an outbox item belongs to an
  unanswered send that is not in the history, and a history row to a message
  the server accepted;
- `Sessions` and `Envelopes` say that every session and every message carries a
  key pair of its owner, and a sending chain that branched off that key pair
  (`BranchesFrom`);
- `StoreIsCurrent` and `NumberedOnce`, for a device whose sends were answered:
  its stored sessions share no key pair, none is behind a message already
  made, and no two of its messages have the same key pair and number.

That keys are fresh needs all of it. Equal message keys have the same root, so
their chains branched off the same two key pairs; were the two messages from
different devices, each key pair would be older than the other
(`ChainHasOneOwner`); so the key pair and the number agree, and `NumberedOnce`
applies. The steps fall into four kinds (`StepKinds`): a message is sent,
retried or read, or the step is quiet; each kind is one step of `Delivery` or
none.

`ReadIsPast` rests on a second invariant, `ReadInv`, which uses the first. A
session has a key behind it (`Past`) when its skipped keys do not hold it, its
chains are no shorter than the key's, and its chain is beyond the key's place on
it; `PastOpensNothing` shows that such a key opens nothing. What `decrypt` does
keeps every key behind that was behind and puts the one it used there
(`OpenedIsPast`), for sessions whose chains grow out of one handshake secret
(`Ordered`). Then `Settled` says of a device whose sends were answered that what
it has read is behind the session it has stored with the sender. The one step
that could undo it is a bootstrap that puts a new session in place of the old:
its ephemeral key is its own (`Booted`), so what was read with that secret was
read after the bootstrap itself (`Begun`), and a processed bootstrap is skipped.

`MessageQueueProofs` proves, for any devices, ids, quotas, ttl and number of
workers:

- `TypeCorrect`: `Spec => []TypeOK`;
- `QuotasHold`: `Spec => []WithinQuotas`;
- `RetriesAreAccepted`: `Spec => []RetryIsAccepted`;
- `OrderIsKept`: `Spec => []HandedOutInOrder`;
- `QueueIsMailbox`: `Spec => ImplementsMailbox`.

They rest on `QueueAssumption` (the devices are finitely many, the bounds are
naturals). The invariant adds to the properties that rows have distinct ids,
that the parties of a row are devices that are still there, that a row's
`seq` is at most `inserted`, and that nothing was stamped after `now`: an
accepted row was stamped no later than the clock when a later send was heard,
which is what `OrderIsKept` needs.

`AccountsProofs` proves, for any names, devices, ttls and number of challenges,
signatures and crashes:

- `TypeCorrect`: `Spec => []TypeOK`;
- `ChallengesMeetOneSignature`: `Spec => []ChallengeComparedOnce`;
- `SessionsStandForSignatures`: `Spec => []SessionsAreSigned`;
- `LeftoversBelongToAccounts`: `Spec => []LeftoversHaveOwners`.

They rest on `AccountsAssumption` (the bounds are naturals). That a challenge
has met one signature says nothing about the one in the table, so the invariant
adds `Untried` (a challenge in the table was compared with nothing, has a
number of its own, and numbers not yet issued are new) and `Taken` (what a
verification holds was compared with nothing and is in the table no more, and
its signature was really made). Most steps are `Quiet`: they only take
challenges, sessions and rows away.

`WorkersProofs` proves, for any number of workers, requests, panics and failed
connections:

- `TypeCorrect`: `Spec => []TypeOK`;
- `CheckpointIsLast`: `Spec => []NothingAfterTheCheckpoint`.

They rest on `WorkersAssumption` (finitely many workers, whose names are not
those of the other threads). The invariant adds who holds the mutex (`Held`) and
that whom `run_server` has joined is gone (`Joined`), which no thread can undo
because a step of a thread needs it not to be gone.

`PrekeysProofs` proves, for any keys, pool size, devices and number of copies:

- `TypeCorrect`: `Spec => []TypeOK`;
- `PrekeysAreOneTime`: `Spec => []OneTime`;
- `HandedOutStaysKept`: `Spec => []HandedOutIsKept`;
- `UsedPrekeysAreForgotten`: `Spec => []UsedIsForgotten`;
- `PoolStaysFull`: `Spec => []PoolIsFull`.

The four properties are proved with one invariant (`IInv`), since each step of
the argument uses another: a key the server hands out once is still kept by the
client only because the client drops it when a session used it, and not when it
was published.

`ContactsProofs` proves, for any users, installations, keys and number of
messages and failures:

- `TypeCorrect`: `Spec => []TypeOK`;
- `SessionsAreWithThePinned`: `Spec => []SessionIsWithThePinned`;
- `BoxStaysServers`: `Spec => []BoxIsServers`;
- `EntryStaysOpen`: `Spec => []EntryIsOpen`;
- `PrekeysMakeThemAgree`: `Spec => []PrekeyMakesItAgree`;
- `UnprocessedStaysUnread`: `Spec => []UnprocessedIsUnread`.

They rest on `ContactsAssumption` (the bounds are naturals, and `None` is no
device, key or entry). The invariant follows an identity around the system: what the server registered
(`ServerOk`: a bundle and a queued row name a device that was made), what a
client pinned when it first saw the contact, and what it stored. A session or an
outbox row is with the pinned identity (`ClientOk`), and every handler that
writes one compares the identity it was given with the pin first. Each of the
other four adds what its argument needs to this invariant:

- `BoxInv`: a device belongs to one client (`OwnDevices`), and while nothing
  failed the identity in memory is the kept and the registered one (`InSync`),
  so that every login verifies and reads the visibility back;
- `EntryInv`: an entry that is not the conversation's is explained by a row that
  its client has not processed (`Awaits`). Only its client takes such a row from
  the queue, when it has read it, and then the conversation is the entry's;
  that identities agree, with each other and with the pin, is `ClientOk`;
- `AgreeInv`: prekeys are drawn in order and never drawn again (`KeysAreOld`, which
  is proved along with `EntryInv`), one is with one identity in whatever pool it is
  (`PoolsAgree`), and what an envelope with a prekey was sealed under is what
  that identity computes (`EnvelopesAgree`), whatever was lost in between; so a
  responder has the secret of an envelope, or was opened without a prekey and
  has read nothing (`SessionsMatch`);
- `UnreadInv`: every position a session has read, in memory, in the outbox or in
  the store, is the position of an envelope that was processed or whose commit
  failed (`ReadHere`); in the store, one whose commit failed is there only when
  something of its session was committed since (`ReadThere`).

`LimitsProofs` proves, for any devices, slots, workers, quotas and ttl, and any
number of uploads and crashes:

- `TypeCorrect`: `Spec => []TypeOK`;
- `UploadedStaysThere`: `Spec => []UploadedIsThere`;
- `NoFileIsLeftBehind`: `Spec => []NoFileLeftBehind`;
- `QuotaHolds`: `Spec => []WithinQuota`.

They rest on `AttachmentsAssumption` (the bounds are naturals, `NoFile` is no
inode). The invariant says of an upload that has met no other of its id
(`Undisturbed`) that the file it is at is under the name its next step takes it
from, and that the row it is about to mark is still waiting; of the disk
(`Apart`) that an inode that is being written has one name and is no blob; and
of the table (`Slots`) that an id is drawn once, so an id whose file is about to
be removed will not have a row again. For `NoFileLeftBehind` it names who will
see to a file: a half-written one has its writer (`Writers`), a blob its row,
the loop that removes it, or the upload that is about to mark it
(`BlobsAreOwned`).

The same module proves, for any keys, threads, limit, window, size of the table,
delay and setting back of the clock:

- `LimiterTypeCorrect`: `LimiterSpec => []LimiterTypeOK`;
- `RefusedForOwnCalls`: `LimiterSpec => []RefusedForItsCalls`;
- `OpensOnlyInACrowd`: `LimiterSpec => []OpensInACrowd`;
- `BurstIsBounded`: `LimiterSpec => []Burst`;
- `TableIsBounded`: the table never holds more than `MaxTrackedKeys` keys, which is
  what `ratelimit.rs:18` promises of the memory.

They rest on `RateLimiterAssumption`. A window counts no call from before the second
it was opened in (`Counted`), and `Stamps` bounds what a stamp may be off by, which
is what `RefusedForItsCalls` needs. `OpensInACrowd` takes these two and that a key
is in the table for at least one call (`Positive`): what a full table keeps after
its sweep has windows that are not over, hence calls not long ago
(`OpensAmongOthers`), and a crowd never shrinks (`CrowdGrows`). For the counted half
of `Burst` the invariant says when the last two windows of a key were opened
(`TwoWindows`, of keys that are in the table no more, too): whatever was counted and
let through after the first of these seconds was let through by the two. The hard
part is that a window ends no sooner than `WindowSecs - MaxDelay` after it was
opened (`OverLate`), whether its own key or another key's sweep ends it. A stamp
that was taken before the one the window was opened with could end it at once, since
the clock may have been set back in between: `CallsInTurn` and `OpenedAt` order all
stamps by when they were taken and by how far the clock was set back then, and
`MaxBack < WindowSecs` excludes the ones that are too early.

Quotas and limits are sums over finite sets, and `SumFunctionOnSet` is defined by
recursion. The first part of `LimitsProofs` shows that there is one function on the
subsets of a finite set that satisfies the recursion and only one (`SumsExist`,
`SumsAreUnique`): a set of counterexamples would have a minimal one
(`MinimalSubset`, by the well-founded relation of strict inclusion), which takes
the place of an induction. From there come the laws the proofs use: a sum does not
depend on the order (`SumWithout`, `SumWith`), is monotone (`SumOfPart`) and grows
by one where its function does (`SumOfOneMore`).

Only model-checked: the liveness properties, `EventuallyRead`, `OutboxDrains`,
`CalmIsRead`, `FilesGo`, `WritersAreRead`, `DeletionCompletes`,
`EveryRequestIsServed` and `ShutdownCompletes` (the prover does neither fairness nor
`ENABLED`). Every other property of a passing run is a theorem.

## Not modelled

Arithmetic of the primitives, wire formats and base64, JSON and HTTP, the UI,
log lines, the Windows service wrapper's calls, the dashboard's pages, the
public profile, the smoke test, and the Android, iOS and web scaffolds, which
contain no behaviour. Of attachments the server's half is modelled; the
client's (`prepare_attachment`, `decrypt_attachment` and the download into the
Downloads folder, where two attachments of one filename share a file) reads and
writes files and is not. The encryption of the local store's records is taken as
given, and so is that the key that opens them is not lost.
