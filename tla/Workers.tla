------------------------------ MODULE Workers ------------------------------
(***************************************************************************)
(* The threads of the server: the workers and the thread of the dashboard, *)
(* each taking requests from a listener; the sweep; and run_server itself, *)
(* which waits for the shutdown flag, wakes and joins them all.  What they *)
(* share is the mutex around the database, which is poisoned when a        *)
(* handler panics while it holds it.                                       *)
(*                                                                         *)
(* A request is what its handler does to the threads: it may be refused by *)
(* a rate limiter, and it takes the mutex a number of times.  The sweep of *)
(* the startup is over when the threads begin.                             *)
(***************************************************************************)
EXTENDS Naturals, FiniteSets, Sequences

CONSTANTS
  Workers,      \* worker_count() threads
  Admin,        \* the thread of the dashboard
  MaxHolds,     \* a handler takes the mutex at most so often
  MaxRequests,  \* bound: requests that arrive
  MaxPanics,    \* bound: handlers that panic
  MaxErrors     \* bound: connections the listener fails to accept

ASSUME WorkersAssumption ==
  /\ IsFiniteSet(Workers)
  /\ Admin \notin Workers
  /\ {"sweep", "main", "nobody"} \cap (Workers \cup {Admin}) = {}
  /\ {MaxHolds, MaxRequests, MaxPanics, MaxErrors} \subseteq Nat

VARIABLES
  queue,        \* what each listener has for its threads
  at,           \* at[t], where handler thread t is
  request,      \* request[t], what it handles
  holds,        \* holds[t], how often it will still take the mutex
  sweep,        \* where the sweep is
  main,         \* where run_server is
  unblocked,    \* how often run_server has called unblock
  lock,         \* who holds the mutex
  poisoned,     \* the mutex is poisoned
  shutdown,     \* the flag
  wal,          \* something was written since the last checkpoint
  arrived,      \* history: how many requests came
  answered,     \* history: requests answered
  failed,       \* history: requests whose handler panicked
  panics,       \* how many of them by itself, and not at the mutex
  errors        \* history: connections not accepted

handlers == <<at, request, holds>>
stopping == <<main, unblocked, shutdown>>
mutex == <<lock, poisoned, wal>>
history == <<arrived, answered, failed, panics, errors>>
vars == <<queue, handlers, sweep, stopping, mutex, history>>

Threads == Workers \cup {Admin}

Listeners == {"api", "admin"}

ListenerOf(t) == IF t = Admin THEN "admin" ELSE "api"

Requests == 1 .. MaxRequests

NoRequest == 0

Item == [kind : {"request"}, id : Requests] \cup [kind : {"unblock", "error"}]

-----------------------------------------------------------------------------
(* The listeners.                                                          *)

Put(l, x) == queue' = [queue EXCEPT ![l] = Append(@, x)]

\* A request comes in; the listeners accept until run_server returns.
Arrive(l) ==
  /\ arrived < MaxRequests
  /\ main # "stopped"
  /\ arrived' = arrived + 1
  /\ Put(l, [kind |-> "request", id |-> arrived'])
  /\ UNCHANGED <<handlers, sweep, stopping, mutex, answered, failed, panics, errors>>

\* A connection fails; recv hands the error to one thread.
AcceptFails(l) ==
  /\ errors < MaxErrors
  /\ main # "stopped"
  /\ errors' = errors + 1
  /\ Put(l, [kind |-> "error"])
  /\ UNCHANGED <<handlers, sweep, stopping, mutex, arrived, answered, failed, panics>>

-----------------------------------------------------------------------------
(* A handler thread.                                                       *)

\* recv: a request is handled, and anything else ends the thread.
Recv(t) ==
  LET l == ListenerOf(t)
      x == Head(queue[l])
  IN  /\ at[t] = "recv"
      /\ queue[l] # << >>
      /\ queue' = [queue EXCEPT ![l] = Tail(@)]
      /\ IF x.kind = "request"
         THEN /\ at' = [at EXCEPT ![t] = "run"]
              /\ request' = [request EXCEPT ![t] = x.id]
              /\ \E n \in 0 .. MaxHolds : holds' = [holds EXCEPT ![t] = n]
         ELSE /\ at' = [at EXCEPT ![t] = "gone"]
              /\ UNCHANGED <<request, holds>>
      /\ UNCHANGED <<sweep, stopping, mutex, history>>

\* Where a thread goes when its handler has returned.
Served == "recv"

\* Mutant: without catch_unwind a panic ends its thread.
UncaughtPanic == "gone"

\* ... or has panicked: catch_unwind.
AfterPanic == "recv"

\* The thread has done with its request.
Leave(t, to) ==
  /\ at' = [at EXCEPT ![t] = to]
  /\ request' = [request EXCEPT ![t] = NoRequest]
  /\ holds' = [holds EXCEPT ![t] = 0]

\* lock(), and expect() on it: a mutex that is poisoned is a panic.
Lock(t) ==
  /\ at[t] = "run"
  /\ holds[t] > 0
  /\ lock = "nobody"
  /\ IF poisoned
     THEN /\ Leave(t, AfterPanic)
          /\ failed' = failed \cup {request[t]}
          /\ UNCHANGED lock
     ELSE /\ at' = [at EXCEPT ![t] = "locked"]
          /\ lock' = t
          /\ UNCHANGED <<request, holds, failed>>
  /\ UNCHANGED <<queue, sweep, stopping, poisoned, wal, arrived, answered, panics, errors>>

\* The guard goes out of scope.
Unlock(t) ==
  /\ at[t] = "locked"
  /\ at' = [at EXCEPT ![t] = "run"]
  /\ holds' = [holds EXCEPT ![t] = @ - 1]
  /\ lock' = "nobody"
  /\ wal' = TRUE
  /\ UNCHANGED <<queue, request, sweep, stopping, poisoned, history>>

\* respond; a request over its rate limit is answered as well.
Answer(t) ==
  /\ at[t] = "run"
  /\ holds[t] = 0
  /\ Leave(t, Served)
  /\ answered' = answered \cup {request[t]}
  /\ UNCHANGED <<queue, sweep, stopping, mutex, arrived, failed, panics, errors>>

\* A handler panics.  A guard that is dropped by a panic poisons its mutex.
Panic(t) ==
  /\ panics < MaxPanics
  /\ panics' = panics + 1
  /\ at[t] \in {"run", "locked"}
  /\ Leave(t, AfterPanic)
  /\ failed' = failed \cup {request[t]}
  /\ poisoned' = (poisoned \/ lock = t)
  /\ lock' = IF lock = t THEN "nobody" ELSE lock
  /\ wal' = (wal \/ at[t] = "locked")
  /\ UNCHANGED <<queue, sweep, stopping, arrived, answered, errors>>

-----------------------------------------------------------------------------
(* The sweep.                                                              *)

\* Where the loop of the sweep goes on.
Looped == IF shutdown THEN "gone" ELSE "sleep"

\* Its sleep is over: the interval too, and it sweeps, or not yet.
SweepWakes ==
  /\ sweep = "sleep"
  /\ sweep' \in {"first", Looped}
  /\ UNCHANGED <<queue, handlers, stopping, mutex, history>>

\* run_sweep locks twice, to reap and to write the log back; the panic of a
\* poisoned mutex ends the thread.
SweepLocks ==
  /\ sweep \in {"first", "second"}
  /\ lock = "nobody"
  /\ IF poisoned
     THEN sweep' = "gone" /\ UNCHANGED lock
     ELSE sweep' = (IF sweep = "first" THEN "reap" ELSE "checkpoint") /\ lock' = "sweep"
  /\ UNCHANGED <<queue, handlers, stopping, poisoned, wal, history>>

SweepUnlocks ==
  /\ sweep \in {"reap", "checkpoint"}
  /\ sweep' = IF sweep = "reap" THEN "second" ELSE Looped
  /\ wal' = (sweep = "reap")
  /\ lock' = "nobody"
  /\ UNCHANGED <<queue, handlers, stopping, poisoned, history>>

-----------------------------------------------------------------------------
(* run_server.                                                             *)

\* The service is told to stop; a console never is.
Stop ==
  /\ ~shutdown
  /\ shutdown' = TRUE
  /\ UNCHANGED <<queue, handlers, sweep, main, unblocked, mutex, history>>

\* Mutant: the thread that calls unblock is taken for one of the workers.
OneUnblockShort == Cardinality(Workers) - 1

\* One call for each worker.
Unblocks == Cardinality(Workers)

\* The flag is seen.
SeeShutdown ==
  /\ main = "serving"
  /\ shutdown
  /\ main' = "unblock"
  /\ UNCHANGED <<queue, handlers, sweep, unblocked, shutdown, mutex, history>>

UnblockWorker ==
  /\ main = "unblock"
  /\ IF unblocked < Unblocks
     THEN /\ Put("api", [kind |-> "unblock"])
          /\ unblocked' = unblocked + 1
          /\ UNCHANGED main
     ELSE main' = "join" /\ UNCHANGED <<queue, unblocked>>
  /\ UNCHANGED <<handlers, sweep, shutdown, mutex, history>>

\* The workers are joined, and the thread of the dashboard woken.
JoinWorkers ==
  /\ main = "join"
  /\ \A t \in Workers : at[t] = "gone"
  /\ main' = "join_admin"
  /\ Put("admin", [kind |-> "unblock"])
  /\ UNCHANGED <<handlers, sweep, unblocked, shutdown, mutex, history>>

\* Mutant: the thread of the dashboard is woken and not waited for.
WokenAdmin == TRUE

AdminGone == at[Admin] = "gone"

JoinAdminAndSweep ==
  /\ main = "join_admin"
  /\ AdminGone
  /\ sweep = "gone"
  /\ main' = "checkpoint"
  /\ UNCHANGED <<queue, handlers, sweep, unblocked, shutdown, mutex, history>>

\* The last checkpoint, left out if the mutex is poisoned.
FinalCheckpoint ==
  /\ main = "checkpoint"
  /\ lock = "nobody"
  /\ wal' = (wal /\ poisoned)
  /\ main' = "stopped"
  /\ UNCHANGED <<queue, handlers, sweep, unblocked, shutdown, lock, poisoned, history>>

-----------------------------------------------------------------------------

Init ==
  /\ queue = [l \in Listeners |-> << >>]
  /\ at = [t \in Threads |-> "recv"]
  /\ request = [t \in Threads |-> NoRequest]
  /\ holds = [t \in Threads |-> 0]
  /\ sweep = "sleep"
  /\ main = "serving"
  /\ unblocked = 0
  /\ lock = "nobody"
  /\ poisoned = FALSE
  /\ shutdown = FALSE
  /\ wal = FALSE
  /\ arrived = 0
  /\ answered = {}
  /\ failed = {}
  /\ panics = 0
  /\ errors = 0

\* What a handler does of itself.
Handle(t) == Unlock(t) \/ Answer(t)

Sweeping == SweepWakes \/ SweepUnlocks

Stopping == SeeShutdown \/ UnblockWorker \/ JoinWorkers \/ JoinAdminAndSweep \/ FinalCheckpoint

Next ==
  \/ \E t \in Threads : Recv(t) \/ Lock(t) \/ Handle(t) \/ Panic(t)
  \/ Sweeping
  \/ SweepLocks
  \/ \E l \in Listeners : Arrive(l) \/ AcceptFails(l)
  \/ Stop
  \/ Stopping

Spec == Init /\ [][Next]_vars

\* Threads run on: a handler's client sends its request to the end or goes
\* away, and a thread that waits for the mutex gets it some time, since the
\* sweep sleeps between two holds.
Fairness ==
  /\ \A t \in Threads : WF_vars(Recv(t)) /\ WF_vars(Handle(t)) /\ SF_vars(Lock(t))
  /\ WF_vars(SweepWakes) /\ WF_vars(SweepUnlocks) /\ SF_vars(SweepLocks)
  /\ WF_vars(Stopping)

FairSpec == Spec /\ Fairness

-----------------------------------------------------------------------------
(* Properties.                                                             *)

\* Type invariant.
TypeOK ==
  /\ queue \in [Listeners -> Seq(Item)]
  /\ at \in [Threads -> {"recv", "run", "locked", "gone"}]
  /\ request \in [Threads -> Requests \cup {NoRequest}]
  /\ holds \in [Threads -> 0 .. MaxHolds]
  /\ sweep \in {"sleep", "first", "reap", "second", "checkpoint", "gone"}
  /\ main \in {"serving", "unblock", "join", "join_admin", "checkpoint", "stopped"}
  /\ unblocked \in 0 .. Cardinality(Workers)
  /\ lock \in Threads \cup {"sweep", "nobody"}
  /\ poisoned \in BOOLEAN /\ shutdown \in BOOLEAN /\ wal \in BOOLEAN
  /\ arrived \in 0 .. MaxRequests
  /\ answered \subseteq Requests
  /\ failed \subseteq Requests
  /\ panics \in 0 .. MaxPanics
  /\ errors \in Nat

\* Once run_server has returned, no thread holds the database or writes to it
\* any more after the last checkpoint (main.rs:139 "does one final WAL
\* checkpoint"), unless the mutex was poisoned.
NothingAfterTheCheckpoint == main = "stopped" => lock = "nobody" /\ (wal => poisoned)

\* Every request of the api gets an end while the server is not told to stop,
\* whatever handlers panic, unless every worker is lost to a failed connection.
EveryRequestIsServed ==
  [](errors < Cardinality(Workers)) =>
    \A r \in Requests :
      (\E i \in DOMAIN queue["api"] :
         queue["api"][i] = [kind |-> "request", id |-> r])
      ~> (r \in answered \cup failed \/ shutdown)

\* Once it is told to stop, run_server returns: one unblock per worker wakes
\* them all (main.rs:210), with requests queued before and behind, workers that
\* are busy or already gone, a sweep under way and the mutex poisoned.
ShutdownCompletes == shutdown ~> main = "stopped"
=============================================================================
