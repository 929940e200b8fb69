------------------------------ MODULE Prekeys ------------------------------
(***************************************************************************)
(* The one-time prekeys of a device: the pool of private keys its client   *)
(* has in memory and in the credential store, the public halves that the   *)
(* server hands out, and the bootstraps of those who claimed one.  The     *)
(* client may die between any two steps, and whoever claims a prekey may   *)
(* never write.                                                            *)
(*                                                                         *)
(* A prekey is named by the position at which it was generated; its id is  *)
(* drawn with it and never again.                                          *)
(***************************************************************************)
EXTENDS Integers, FiniteSets

CONSTANTS
  NoPrekey,     \* Option::None, for prekeys
  PoolSize,     \* the 12 of ensure_one_time_prekey_pool(12)
  MaxGenerated, \* bound: prekeys ever generated
  MaxBoots,     \* bound: bootstraps ever sent
  MaxCrashes    \* bound: crashes of the client

Keys == 1 .. MaxGenerated

ASSUME PrekeysAssumption ==
  /\ {PoolSize, MaxGenerated, MaxBoots, MaxCrashes} \subseteq Nat
  /\ NoPrekey \notin Keys

VARIABLES
  pool,         \* LocalIdentity::one_time_prekeys
  kept,         \* ... as the credential store has them
  generated,    \* how many prekeys were generated
  at,           \* what the client does next
  reading,      \* the prekey of the bootstrap that was committed last
  published,    \* table one_time_prekeys
  claimed,      \* ... the rows with a claimed_at
  holding,      \* prekeys that were claimed by someone who has yet to write
  boots,        \* bootstraps sent, <<n, prekey>>
  processed,    \* bootstraps the client has committed
  handed,       \* history: handed[k], how often claims were answered with k
  used,         \* history: used[k], how often k was agreed with
  unsaved,      \* history: the credential store once failed to save
  crashes

client == <<pool, kept, generated, at, reading>>
server == <<published, claimed>>
senders == <<holding, boots>>
ghosts == <<handed, used, unsaved, crashes>>
vars == <<client, server, senders, processed, ghosts>>

-----------------------------------------------------------------------------
(* The client's pool.                                                      *)

\* ensure_one_time_prekey_pool; the bound cuts it short.
Fresh(p) ==
  {k \in Keys : k > generated /\ k <= generated + PoolSize - Cardinality(p)}

\* Mutant: the pool is filled when it is empty.
FillsIfEmpty(p) ==
  IF p = {}
  THEN pool' = Fresh(p) /\ generated' = generated + Cardinality(Fresh(p))
  ELSE pool' = p /\ UNCHANGED generated

FillsPool(p) ==
  /\ pool' = p \cup Fresh(p)
  /\ generated' = generated + Cardinality(Fresh(p))

\* Mutant: what is generated at login is not saved before it is published.
AfterLoginUnsaved == "saved"

AfterLogin == "filled"

\* load_or_generate_identity at startup and authenticate whenever the user logs
\* in: both fill the pool and save it before authenticate publishes it.
Login ==
  /\ at \in {"starting", "idle"}
  /\ FillsPool(pool)
  /\ at' = AfterLogin
  /\ UNCHANGED <<kept, reading, server, senders, processed, ghosts>>

\* persist_identity_secrets, which ignores an error of the credential store.
Save(saves) ==
  /\ at \in {"filled", "refilled"}
  /\ kept' = IF saves THEN pool ELSE kept
  /\ unsaved' = (unsaved \/ ~saves)
  /\ at' = IF at = "filled" THEN "saved" ELSE "idle"
  /\ UNCHANGED <<pool, generated, reading, server, senders, processed, handed, used, crashes>>

\* Mutant: INSERT OR REPLACE, which forgets that a prekey was claimed.
PublishedAgain(keys) == published' = published \cup keys /\ claimed' = claimed \ keys

\* publish_one_time_prekeys, INSERT OR IGNORE.
PublishedNow(keys) == published' = published \cup keys /\ UNCHANGED claimed

\* publish_prekeys sends the whole pool; the request may not get there.
Publish(reached) ==
  /\ at = "saved"
  /\ at' = "idle"
  /\ IF reached THEN PublishedNow(pool) ELSE UNCHANGED server
  /\ UNCHANGED <<pool, kept, generated, reading, senders, processed, ghosts>>

\* The process dies, and starts again with what the credential store has; it
\* does nothing before it has filled the pool.
Crash ==
  /\ crashes < MaxCrashes
  /\ crashes' = crashes + 1
  /\ pool' = kept
  /\ at' = "starting"
  /\ reading' = NoPrekey
  /\ UNCHANGED <<kept, generated, server, senders, processed, handed, used, unsaved>>

-----------------------------------------------------------------------------
(* Those who write to the client.                                          *)

Unclaimed == published \ claimed

\* claim_one_time_prekey; the answer may get lost.  Among the unclaimed rows
\* the oldest second comes first, and rows of one second in any order.
Claim(k, answered) ==
  /\ k \in Unclaimed
  /\ claimed' = claimed \cup {k}
  /\ handed' = [handed EXCEPT ![k] = @ + 1]
  /\ holding' = IF answered THEN holding \cup {k} ELSE holding
  /\ UNCHANGED <<client, published, boots, processed, used, unsaved, crashes>>

\* make_initial_outgoing_packet after the claim, with the prekey it brought or,
\* when the server had none, without.
Write(k) ==
  /\ Cardinality(boots) < MaxBoots
  /\ k \in holding \/ (k = NoPrekey /\ Unclaimed = {})
  /\ boots' = boots \cup {<<Cardinality(boots) + 1, k>>}
  /\ holding' = holding \ {k}
  /\ UNCHANGED <<client, server, processed, ghosts>>

-----------------------------------------------------------------------------
(* The client reads a bootstrap.                                           *)

\* establish_responder_session finds the private key, or refuses; when the
\* message has been decrypted it is committed with the new session.
Read(b) ==
  /\ at = "idle"
  /\ b \in boots \ processed
  /\ b[2] \in pool \cup {NoPrekey}
  /\ processed' = processed \cup {b}
  /\ used' = IF b[2] = NoPrekey THEN used ELSE [used EXCEPT ![b[2]] = @ + 1]
  /\ reading' = b[2]
  /\ at' = IF b[2] = NoPrekey THEN "idle" ELSE "committed"
  /\ UNCHANGED <<pool, kept, generated, server, senders, handed, unsaved, crashes>>

\* Mutant: the prekey stays in the pool.
PoolAfterUseWithIt == pool

PoolAfterUse == pool \ {reading}

\* The prekey goes, and the pool is filled again but not published: it is never
\* down to the three prekeys at which the end of poll would publish it.
Remove ==
  /\ at = "committed"
  /\ FillsPool(PoolAfterUse)
  /\ reading' = NoPrekey
  /\ at' = "refilled"
  /\ UNCHANGED <<kept, server, senders, processed, ghosts>>

-----------------------------------------------------------------------------

Init ==
  /\ pool = {}
  /\ kept = {}
  /\ generated = 0
  /\ at = "starting"
  /\ reading = NoPrekey
  /\ published = {}
  /\ claimed = {}
  /\ holding = {}
  /\ boots = {}
  /\ processed = {}
  /\ handed = [k \in Keys |-> 0]
  /\ used = [k \in Keys |-> 0]
  /\ unsaved = FALSE
  /\ crashes = 0

Next ==
  \/ Login
  \/ \E saves \in BOOLEAN : Save(saves)
  \/ \E reached \in BOOLEAN : Publish(reached)
  \/ Crash
  \/ \E k \in Keys, answered \in BOOLEAN : Claim(k, answered)
  \/ \E k \in Keys \cup {NoPrekey} : Write(k)
  \/ \E b \in boots : Read(b)
  \/ Remove

Spec == Init /\ [][Next]_vars

\* A client that died is started again, its thread runs on, and update polls
\* every two seconds.
Fairness ==
  /\ WF_vars(at = "starting" /\ Login)
  /\ WF_vars(Remove)
  /\ WF_vars(\E saves \in BOOLEAN : Save(saves))
  /\ WF_vars(\E reached \in BOOLEAN : Publish(reached))
  /\ \A n \in 1 .. MaxBoots : SF_vars(\E b \in boots : b[1] = n /\ Read(b))

FairSpec == Spec /\ Fairness

-----------------------------------------------------------------------------
(* Properties.                                                             *)

\* Type invariant.
TypeOK ==
  /\ pool \subseteq Keys /\ kept \subseteq Keys
  /\ generated \in 0 .. MaxGenerated
  /\ at \in {"starting", "idle", "filled", "saved", "committed", "refilled"}
  /\ reading \in Keys \cup {NoPrekey}
  /\ published \subseteq Keys /\ claimed \subseteq published
  /\ holding \subseteq Keys
  /\ boots \subseteq (1 .. MaxBoots) \X (Keys \cup {NoPrekey})
  /\ processed \subseteq boots
  /\ handed \in [Keys -> Nat]
  /\ used \in [Keys -> Nat]
  /\ unsaved \in BOOLEAN
  /\ crashes \in Nat

\* A prekey is handed out once and agreed with once (db.rs
\* claim_one_time_prekey), although its owner publishes its whole pool at every
\* login, after a crash also what had been used before.
OneTime == \A k \in Keys : handed[k] <= 1 /\ used[k] <= handed[k]

\* What someone may still write with can be read, now and after a restart: the
\* private half of a prekey that was handed out is in the credential store
\* until it is used, as long as the store has saved what it was given.
HandedOutIsKept ==
  ~unsaved => \A k \in claimed : used[k] = 0 => k \in kept

\* What was used is forgotten (app.rs poll, remove_one_time_prekey), on disk
\* too, unless the client died before it was.
UsedIsForgotten ==
  at = "idle" /\ ~unsaved /\ crashes = 0 =>
    \A k \in pool \cup kept : used[k] = 0

\* The pool is full at the end of every poll (app.rs:1129): it is never down to
\* the three prekeys at which poll would publish, so that what the server has
\* for others grows at a login and at no other time.
PoolIsFull ==
  at # "starting" => Cardinality(pool) = PoolSize \/ generated = MaxGenerated

\* Whoever wrote is read.
WritersAreRead ==
  []~unsaved =>
    \A n \in 1 .. MaxBoots :
      (\E b \in boots : b[1] = n) ~> (\E b \in processed : b[1] = n)
=============================================================================
