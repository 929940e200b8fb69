------------------------------ MODULE Accounts ------------------------------
(***************************************************************************)
(* Accounts on the server: registration, the challenge and the session by  *)
(* which a device authenticates, the requests that a session lets in, and  *)
(* the deletion of an account.  Handlers run under the mutex of the        *)
(* database, but require_auth lets go of it before the handler takes it    *)
(* again; and the statements of verify_and_issue_session and of            *)
(* admin_delete_account are committed one by one, so that the process may  *)
(* die between any two of them.  Foreign keys are enforced (db.rs open).   *)
(*                                                                         *)
(* An account has one device, and its user_id and device_id are drawn      *)
(* together; one id stands for both.  Rows of attachments, prekeys and     *)
(* envelopes do not expire here; Attachments and MessageQueue have that.   *)
(***************************************************************************)
EXTENDS Naturals, FiniteSets, Sequences

CONSTANTS
  Names,        \* user names, normalized
  Ids,          \* user and device ids
  ChallengeTtl, \* CHALLENGE_TTL_SECONDS
  SessionTtl,   \* SESSION_TTL_SECONDS
  MaxNow,       \* bound: the clock stops here
  MaxNonces,    \* bound: challenges issued
  MaxPosts,     \* bound: rows posted
  MaxCrashes    \* bound: crashes

ASSUME AccountsAssumption ==
  {ChallengeTtl, SessionTtl, MaxNow, MaxNonces, MaxPosts, MaxCrashes} \subseteq Nat

VARIABLES
  users,        \* table users, [name, id]
  devices,      \* table devices
  rows,         \* attachments, one_time_prekeys and message_envelopes
  challenges,   \* table auth_challenges
  sessions,     \* table sessions
  holder,       \* what holds the mutex between two of its statements
  requests,     \* requests that require_auth let in
  signatures,   \* what clients made of the challenges they were given
  now,          \* the wall clock, in seconds
  drawn,        \* history: the ids that were drawn
  nonces,       \* history: how many challenges were issued
  compared,     \* history: compared[n], signatures that n was compared with
  posted,       \* history: the rows that were ever inserted
  crashes

accounts == <<users, devices, drawn>>
auth == <<challenges, sessions, compared>>
clients == <<requests, signatures>>
vars == <<accounts, rows, auth, holder, clients, now, nonces, posted, crashes>>

Nonces == 1 .. MaxNonces

Challenge == [device : Ids, nonce : Nonces, expires : 0 .. MaxNow + ChallengeTtl]

\* A token is named by the challenge it was given for.
Session == [device : Ids, token : Nonces, expires : 0 .. MaxNow + SessionTtl]

\* own: made with the key the device registered with.
Signature == [device : Ids, nonce : Nonces, own : BOOLEAN]

Request == [device : Ids, token : Nonces]

\* An attachment or a prekey is its device's own; an envelope has a recipient.
Row ==
  {r \in [table : {"attachments", "one_time_prekeys", "message_envelopes"},
          device : Ids, to : Ids] :
     r.table # "message_envelopes" => r.to = r.device}

Tables ==
  {"attachments", "one_time_prekeys", "message_envelopes", "sessions",
   "auth_challenges", "devices", "users"}

Parties(r) == {r.device, r.to}

Idle == [doing |-> "nothing"]

Free == holder = Idle

-----------------------------------------------------------------------------
(* Registration and authentication.                                        *)

\* register_account, one transaction.
Register(name, id) ==
  /\ Free
  /\ \A u \in users : u.name # name
  /\ id \notin drawn
  /\ users' = users \cup {[name |-> name, id |-> id]}
  /\ devices' = devices \cup {id}
  /\ drawn' = drawn \cup {id}
  /\ UNCHANGED <<rows, auth, holder, clients, now, nonces, posted, crashes>>

ChallengesOf(d) == {c \in challenges : c.device = d}

\* handle_auth_challenge.  Whoever asked signs what it is told, with the key
\* its credential store has: another one if the store was lost, since
\* load_or_generate_identity draws a new identity then.
IssueChallenge(d, answered, own) ==
  /\ Free
  /\ d \in devices
  /\ nonces < MaxNonces
  /\ nonces' = nonces + 1
  /\ challenges' = (challenges \ ChallengesOf(d)) \cup
                     {[device |-> d, nonce |-> nonces', expires |-> now + ChallengeTtl]}
  /\ signatures' = IF answered
                   THEN signatures \cup {[device |-> d, nonce |-> nonces', own |-> own]}
                   ELSE signatures
  /\ UNCHANGED <<accounts, rows, sessions, compared, holder, requests, now, posted, crashes>>

\* Mutant: the challenge is left until its signature has verified.
NotYetConsumed(d) == challenges

Consumed(d) == challenges \ ChallengesOf(d)

\* verify_and_issue_session: the challenge is read and deleted.  A signature
\* may come any number of times.
TakeChallenge(s, c) ==
  /\ Free
  /\ s \in signatures
  /\ c \in ChallengesOf(s.device)
  /\ challenges' = Consumed(s.device)
  /\ holder' = [doing |-> "verify", signature |-> s, challenge |-> c]
  /\ UNCHANGED <<accounts, rows, sessions, compared, clients, now, nonces, posted, crashes>>

\* Mutant: the signature is not verified against the challenge.
VerifiesKey(s, c) == s.own

Verifies(s, c) == s.own /\ s.nonce = c.nonce

SessionExpiry == now + SessionTtl

\* ... then the signature is verified, and a session inserted.
Verify ==
  LET c == holder.challenge
      s == holder.signature
      opens == now <= c.expires /\ s.device \in devices /\ Verifies(s, c)
  IN  /\ holder.doing = "verify"
      /\ compared' = [compared EXCEPT ![c.nonce] = IF now <= c.expires THEN @ + 1 ELSE @]
      /\ sessions' = IF opens
                     THEN sessions \cup {[device |-> s.device, token |-> c.nonce,
                                          expires |-> SessionExpiry]}
                     ELSE sessions
      /\ holder' = Idle
      /\ UNCHANGED <<accounts, rows, challenges, clients, now, nonces, posted, crashes>>

-----------------------------------------------------------------------------
(* Authenticated requests.                                                 *)

\* require_auth; a session past its second is deleted.
RequireAuth(s) ==
  /\ Free
  /\ s \in sessions
  /\ IF now > s.expires
     THEN sessions' = sessions \ {s} /\ UNCHANGED requests
     ELSE /\ requests' = requests \cup {[device |-> s.device, token |-> s.token]}
          /\ UNCHANGED sessions
  /\ UNCHANGED <<accounts, rows, challenges, compared, holder, signatures,
                 now, nonces, posted, crashes>>

\* Mutant: that require_auth let the request in is taken for its device to be
\* there.
InsertableOnceLetIn(r) == r.to \in devices \cup {r.device}

\* The foreign keys say the same as the checks of the handlers.
Insertable(r) == Parties(r) \subseteq devices

\* handle_attachment_create, handle_publish_one_time_prekeys and handle_send
\* insert a row if the devices it refers to are there.
Post(q, r) ==
  /\ Free
  /\ q \in requests
  /\ q.device = r.device
  /\ Cardinality(posted) < MaxPosts
  /\ requests' = requests \ {q}
  /\ IF Insertable(r)
     THEN rows' = rows \cup {r} /\ posted' = posted \cup {r}
     ELSE UNCHANGED <<rows, posted>>
  /\ UNCHANGED <<accounts, auth, holder, signatures, now, nonces, crashes>>

\* handle_logout.
Logout(q) ==
  /\ Free
  /\ q \in requests
  /\ requests' = requests \ {q}
  /\ sessions' = {s \in sessions : s.token # q.token}
  /\ UNCHANGED <<accounts, rows, challenges, compared, holder, signatures,
                 now, nonces, posted, crashes>>

-----------------------------------------------------------------------------
(* Deletion.                                                               *)

\* The statements of admin_delete_account, in their order.
Statements ==
  <<"attachments", "one_time_prekeys", "message_envelopes", "sessions",
    "auth_challenges", "devices", "users">>

\* admin_delete_account finds the account and begins.
Delete(u) ==
  /\ Free
  /\ u \in users
  /\ holder' = [doing |-> "delete", id |-> u.id, left |-> Statements]
  /\ UNCHANGED <<accounts, rows, auth, clients, now, nonces, posted, crashes>>

\* Mutant: the envelopes the account has sent stay.
OfButSent(t, d) == {r \in rows : r.table = t /\ r.to = d}

\* The rows of table t that the statement for device d deletes.
Of(t, d) == {r \in rows : r.table = t /\ d \in Parties(r)}

\* A foreign key still refers to the row of d that a statement deletes.
Referred(t, d) ==
  CASE t = "devices" ->
         \/ \E r \in rows : d \in Parties(r)
         \/ \E x \in sessions \cup challenges : x.device = d
    [] t = "users" -> d \in devices
    [] OTHER -> FALSE

\* One statement; one that fails is the last, and the answer is 500.
Statement ==
  LET d == holder.id
      t == Head(holder.left)
      rest == Tail(holder.left)
  IN  /\ holder.doing = "delete"
      /\ IF Referred(t, d)
         THEN UNCHANGED <<accounts, rows, challenges, sessions>> /\ holder' = Idle
         ELSE /\ rows' = rows \ Of(t, d)
              /\ sessions' = IF t = "sessions" THEN {s \in sessions : s.device # d} ELSE sessions
              /\ challenges' = IF t = "auth_challenges"
                               THEN challenges \ ChallengesOf(d) ELSE challenges
              /\ devices' = IF t = "devices" THEN devices \ {d} ELSE devices
              /\ users' = IF t = "users" THEN {u \in users : u.id # d} ELSE users
              /\ holder' = IF rest = << >> THEN Idle ELSE [holder EXCEPT !.left = rest]
              /\ UNCHANGED drawn
      /\ UNCHANGED <<compared, clients, now, nonces, posted, crashes>>

-----------------------------------------------------------------------------

\* reap_expired_with_attachment_keys.
Sweep ==
  /\ Free
  /\ challenges' = {c \in challenges : c.expires > now}
  /\ sessions' = {s \in sessions : s.expires > now}
  /\ UNCHANGED <<accounts, rows, compared, holder, clients, now, nonces, posted, crashes>>

\* The process dies, in the middle of a handler if need be, and starts again.
Crash ==
  /\ crashes < MaxCrashes
  /\ crashes' = crashes + 1
  /\ holder' = Idle
  /\ requests' = {}
  /\ challenges' = {c \in challenges : c.expires > now}
  /\ sessions' = {s \in sessions : s.expires > now}
  /\ UNCHANGED <<accounts, rows, compared, signatures, now, nonces, posted>>

Tick ==
  /\ now < MaxNow
  /\ now' = now + 1
  /\ UNCHANGED <<accounts, rows, auth, holder, clients, nonces, posted, crashes>>

Init ==
  /\ users = {}
  /\ devices = {}
  /\ rows = {}
  /\ challenges = {}
  /\ sessions = {}
  /\ holder = Idle
  /\ requests = {}
  /\ signatures = {}
  /\ now = 0
  /\ drawn = {}
  /\ nonces = 0
  /\ compared = [n \in Nonces |-> 0]
  /\ posted = {}
  /\ crashes = 0

Next ==
  \/ \E name \in Names, id \in Ids : Register(name, id)
  \/ \E d \in Ids, answered, own \in BOOLEAN : IssueChallenge(d, answered, own)
  \/ \E s \in signatures, c \in challenges : TakeChallenge(s, c)
  \/ Verify
  \/ \E s \in sessions : RequireAuth(s)
  \/ \E q \in requests : Logout(q) \/ \E r \in Row : Post(q, r)
  \/ \E u \in users : Delete(u)
  \/ Statement
  \/ Sweep
  \/ Crash
  \/ Tick

Spec == Init /\ [][Next]_vars

\* A handler that has the mutex runs on.
Fairness == WF_vars(Verify) /\ WF_vars(Statement)

FairSpec == Spec /\ Fairness

-----------------------------------------------------------------------------
(* Properties.                                                             *)

\* Type invariant.
TypeOK ==
  /\ users \subseteq [name : Names, id : Ids]
  /\ devices \subseteq Ids
  /\ rows \subseteq Row
  /\ posted \subseteq Row
  /\ challenges \subseteq Challenge
  /\ sessions \subseteq Session
  /\ \/ Free
     \/ holder \in [doing : {"verify"}, signature : Signature, challenge : Challenge]
     \/ holder \in [doing : {"delete"}, id : Ids, left : Seq(Tables) \ {<< >>}]
  /\ requests \subseteq Request
  /\ signatures \subseteq Signature
  /\ now \in 0 .. MaxNow
  /\ drawn \subseteq Ids
  /\ nonces \in Nat
  /\ compared \in [Nonces -> Nat]
  /\ crashes \in Nat

\* auth.rs:164 "consumes the challenge on both success and verified failure, so
\* a signature can't be replayed against the same nonce twice": no challenge is
\* ever compared with two signatures, with crashes and replaced challenges in
\* between.
ChallengeComparedOnce == \A n \in Nonces : compared[n] <= 1

\* A session of a device stands for a signature its registered key made over
\* the challenge it was given for (auth.rs:12), although challenges are replaced
\* while they are signed, and signatures come late and more than once.
SessionsAreSigned ==
  \A s \in sessions :
    [device |-> s.device, nonce |-> s.token, own |-> TRUE] \in signatures

\* Nothing is left that an administrator cannot get at any more: rows belong
\* to devices, devices to users, whatever was cut short and whoever was let in
\* before the account went.
LeftoversHaveOwners ==
  /\ \A r \in rows : Parties(r) \subseteq devices
  /\ \A x \in sessions \cup challenges : x.device \in devices
  /\ \A d \in devices : \E u \in users : u.id = d

\* A deletion that is not cut short by a crash removes the account, whatever
\* tables it has rows in (db.rs:345 "and everything tied to it").
DeletionCompletes ==
  \A d \in Ids :
    [](crashes = 0) => ((holder.doing = "delete" /\ holder.id = d) ~> d \notin {u.id : u \in users})
=============================================================================
