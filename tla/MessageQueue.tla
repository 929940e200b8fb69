---------------------------- MODULE MessageQueue ----------------------------
(***************************************************************************)
(* The table message_envelopes of the server and the handlers that work on *)
(* it: handle_send, handle_pull, handle_ack, the sweep, and the deletion   *)
(* of an account.  Every worker thread runs handlers; each statement on    *)
(* the database is under one mutex, but handle_send reads the clock and    *)
(* stamps the envelope before it takes that mutex, so that envelopes may   *)
(* enter the table in another order than the one they were stamped in.     *)
(*                                                                         *)
(* A request that is refused without a change of state (an unknown         *)
(* version, a malformed id, a ttl out of range, a pull of another device's *)
(* queue) is not a step.  The clock does not go back.                      *)
(***************************************************************************)
EXTENDS Naturals, FiniteSets

CONSTANTS
  Devices,      \* the devices registered at first, one to an account
  Ids,          \* message ids, drawn by the clients
  Bodies,       \* ciphertexts
  Workers,      \* UPM_WORKERS: how many requests are handled at a time
  DeviceQuota,  \* 10_000 rows to a recipient
  GlobalQuota,  \* 100_000 rows in all
  MaxTtl,       \* DEFAULT_MESSAGE_TTL_SECONDS, the longest ttl there is
  MaxNow,       \* bound: the clock stops here
  MaxInserted   \* bound: rows inserted

ASSUME QueueAssumption ==
  /\ IsFiniteSet(Devices)
  /\ {Workers, DeviceQuota, GlobalQuota, MaxTtl, MaxNow, MaxInserted} \subseteq Nat

VARIABLES
  rows,         \* message_envelopes
  devices,      \* the devices whose account is there, and active
  sends,        \* envelopes stamped by handle_send, waiting for the mutex
  now,          \* the wall clock, in seconds
  inserted      \* history: how many rows were ever inserted

vars == <<rows, devices, sends, now, inserted>>

Seconds == 0 .. MaxNow

\* heard is history: how many rows had been inserted when the send came in.
Envelope ==
  [id : Ids, from : Devices, to : Devices, body : Bodies,
   created : Seconds, expires : Seconds, heard : Nat]

\* seq is history: the row was the seq-th to be inserted.
Row ==
  [id : Ids, from : Devices, to : Devices, body : Bodies,
   created : Seconds, expires : Seconds, heard : Nat, seq : Nat]

RowOf(e, n) ==
  [id |-> e.id, from |-> e.from, to |-> e.to, body |-> e.body,
   created |-> e.created, expires |-> e.expires, heard |-> e.heard, seq |-> n]

QueuedFor(d) == {r \in rows : r.to = d}

-----------------------------------------------------------------------------
(* handle_send.                                                            *)

Expiry(ttl) == now + ttl

\* Authentication, the checks on the request, and the stamp; no mutex is held
\* when it is over.
Receive(from, to, id, body, ttl) ==
  /\ from \in devices
  /\ Cardinality(sends) < Workers
  /\ inserted + Cardinality(sends) < MaxInserted
  /\ now + ttl <= MaxNow
  /\ sends' = sends \cup {[id |-> id, from |-> from, to |-> to, body |-> body,
                           created |-> now, expires |-> Expiry(ttl), heard |-> inserted]}
  /\ UNCHANGED <<rows, devices, now, inserted>>

Existing(e) == {r \in rows : r.id = e.id}

Matches(r, e) == <<r.from, r.to, r.body>> = <<e.from, e.to, e.body>>

\* Mutant: the quota of a device allows one row more.
FullByOne(d) ==
  Cardinality(QueuedFor(d)) > DeviceQuota \/ Cardinality(rows) >= GlobalQuota

Full(d) ==
  Cardinality(QueuedFor(d)) >= DeviceQuota \/ Cardinality(rows) >= GlobalQuota

\* Mutant: the quota is looked at first.
AcceptsIfRoom(e) ==
  /\ {e.from, e.to} \subseteq devices
  /\ ~Full(e.to)
  /\ \A r \in Existing(e) : Matches(r, e)

\* The sender is active, the recipient is known, and the id is free or was
\* given to this very envelope; 202 and not 403, 404 or 500.
Accepts(e) ==
  /\ {e.from, e.to} \subseteq devices
  /\ \A r \in Existing(e) : Matches(r, e)
  /\ Existing(e) = {} => ~Full(e.to)

\* Mutant: ON CONFLICT DO UPDATE, so that an envelope sent again is stamped
\* anew.
InsertsOrStamps(e) ==
  IF Existing(e) = {}
  THEN /\ rows' = rows \cup {RowOf(e, inserted + 1)}
       /\ inserted' = inserted + 1
  ELSE /\ rows' = (rows \ Existing(e)) \cup
                    {[r EXCEPT !.created = e.created] : r \in Existing(e)}
       /\ UNCHANGED inserted

Inserts(e) ==
  IF Existing(e) = {}
  THEN /\ rows' = rows \cup {RowOf(e, inserted + 1)}
       /\ inserted' = inserted + 1
  ELSE UNCHANGED <<rows, inserted>>

Enqueue(e) ==
  /\ e \in sends
  /\ sends' = sends \ {e}
  /\ IF Accepts(e) THEN Inserts(e) ELSE UNCHANGED <<rows, inserted>>
  /\ UNCHANGED <<devices, now>>

-----------------------------------------------------------------------------
(* The other handlers, each under one hold of the mutex.                   *)

\* pull_messages clears the rows of every device that are past their second
\* and hands out what is left for d, the oldest created_at first.
Pull(d) ==
  /\ rows' = {r \in rows : r.expires >= now}
  /\ UNCHANGED <<devices, sends, now, inserted>>

\* Whether pull_messages may hand r out before s: rows of one second come in
\* any order.
MayPrecede(r, s) == r.created <= s.created

\* Mutant: message_id alone selects the row to delete.
AckedByAnyone(d, ids) == {r \in rows : r.id \in ids}

Acked(d, ids) == {r \in rows : r.id \in ids /\ r.to = d}

Ack(d, ids) ==
  /\ rows' = rows \ Acked(d, ids)
  /\ UNCHANGED <<devices, sends, now, inserted>>

\* reap_expired_with_attachment_keys.
LeftBySweep == {r \in rows : r.expires > now}

Sweep ==
  /\ rows' = LeftBySweep
  /\ UNCHANGED <<devices, sends, now, inserted>>

\* admin_delete_account, for the one device of an account.
DeleteAccount(d) ==
  /\ d \in devices
  /\ devices' = devices \ {d}
  /\ rows' = {r \in rows : d \notin {r.from, r.to}}
  /\ UNCHANGED <<sends, now, inserted>>

\* The process stops and starts: what the workers held is lost, what was
\* inserted is not, and run_server sweeps before it serves.
Restart ==
  /\ sends' = {}
  /\ rows' = LeftBySweep
  /\ UNCHANGED <<devices, now, inserted>>

Tick ==
  /\ now < MaxNow
  /\ now' = now + 1
  /\ UNCHANGED <<rows, devices, sends, inserted>>

-----------------------------------------------------------------------------

Init ==
  /\ rows = {}
  /\ devices = Devices
  /\ sends = {}
  /\ now = 0
  /\ inserted = 0

Next ==
  \/ \E from, to \in Devices, id \in Ids, body \in Bodies, ttl \in 1 .. MaxTtl :
       Receive(from, to, id, body, ttl)
  \/ \E e \in sends : Enqueue(e)
  \/ \E d \in Devices : Pull(d) \/ DeleteAccount(d)
  \/ \E d \in Devices, ids \in SUBSET Ids : Ack(d, ids)
  \/ Sweep
  \/ Restart
  \/ Tick

Spec == Init /\ [][Next]_vars

-----------------------------------------------------------------------------
(* Properties.                                                             *)

\* Type invariant.
TypeOK ==
  /\ rows \subseteq Row
  /\ devices \subseteq Devices
  /\ sends \subseteq Envelope
  /\ now \in Seconds
  /\ inserted \in Nat

\* CHANGELOG.md, README.md:12 "TTL/bounded queues": however many sends wait
\* for the mutex at once, neither the queue of a device nor the whole table
\* grows past its quota.
WithinQuotas ==
  /\ \A d \in Devices : Cardinality(QueuedFor(d)) <= DeviceQuota
  /\ Cardinality(rows) <= GlobalQuota

\* A client whose answer was lost sends the same envelope again (app.rs
\* retry_outbox) and hears 202 as long as its row is there, however full the
\* queue has become and whoever has left: its outbox would hold on to the
\* message for ever otherwise.
RetryIsAccepted == \A r \in rows : Accepts(r)

\* A message sent after another one to the same device was accepted is never
\* handed out before it, unless both were stamped in the same second, although
\* sends are stamped before they take the mutex.
HandedOutInOrder ==
  \A r, s \in rows :
    r.seq <= s.heard => MayPrecede(r, s)

\* The table and its handlers are a mailbox.
Letter(e) ==
  [id |-> e.id, from |-> e.from, to |-> e.to, body |-> e.body, due |-> e.expires]

Box == INSTANCE Mailbox WITH
  Letters <- [id : Ids, from : Devices, to : Devices, body : Bodies, due : Seconds],
  Members <- Devices,
  letters <- {Letter(r) : r \in rows},
  members <- devices,
  clock <- now

ImplementsMailbox == Box!Spec
=============================================================================
