--------------------------- MODULE WorkersProofs ---------------------------
(***************************************************************************)
(* Proofs about the threads of the server for any number of workers,       *)
(* requests, panics and failed connections: that nothing happens to the    *)
(* database after the last checkpoint.                                     *)
(***************************************************************************)
EXTENDS Workers, TLAPS, FiniteSetTheorems

-----------------------------------------------------------------------------
(* The inductive invariant.                                                *)

\* The mutex is with the thread that is inside, and a thread that is in a
\* handler has a request.
Held ==
  /\ \A t \in Threads : lock = t <=> at[t] = "locked"
  /\ lock = "sweep" <=> sweep \in {"reap", "checkpoint"}
  /\ \A t \in Threads : at[t] = "locked" => holds[t] > 0
  /\ \A t \in Threads : at[t] \in {"run", "locked"} => request[t] \in Requests

\* Whom run_server has joined is gone.
Joined ==
  /\ main \in {"join_admin", "checkpoint", "stopped"} => \A t \in Workers : at[t] = "gone"
  /\ main \in {"checkpoint", "stopped"} => at[Admin] = "gone" /\ sweep = "gone"

IInv ==
  /\ TypeOK
  /\ Held
  /\ Joined
  /\ NothingAfterTheCheckpoint

\* Names of threads are not the names of what is no handler thread.
LEMMA NamesDiffer ==
  /\ "sweep" \notin Threads /\ "main" \notin Threads /\ "nobody" \notin Threads
  /\ Workers \subseteq Threads /\ Admin \in Threads
  /\ Cardinality(Workers) \in Nat
BY WorkersAssumption, FS_CardinalityType DEF Threads

LEMMA InitInvariant == Init => IInv
<1> SUFFICES ASSUME Init PROVE IInv
  OBVIOUS
<1> USE DEF Init
<1>1. TypeOK
  <2>1. queue \in [Listeners -> Seq(Item)]
    OBVIOUS
  <2>2. /\ 0 \in 0 .. MaxHolds /\ 0 \in 0 .. MaxRequests /\ 0 \in 0 .. MaxPanics
        /\ 0 \in 0 .. Cardinality(Workers)
    BY WorkersAssumption, NamesDiffer
  <2>3. /\ at \in [Threads -> {"recv", "run", "locked", "gone"}]
        /\ request \in [Threads -> Requests \cup {NoRequest}]
        /\ holds \in [Threads -> 0 .. MaxHolds]
    BY <2>2
  <2> QED BY <2>1, <2>2, <2>3 DEF TypeOK
<1>2. Held
  BY NamesDiffer DEF Held
<1> QED BY <1>1, <1>2 DEF IInv, Joined,
           NothingAfterTheCheckpoint

-----------------------------------------------------------------------------
(* Types.                                                                  *)

LEMMA PutType ==
  ASSUME queue \in [Listeners -> Seq(Item)], NEW l \in Listeners, NEW x \in Item, Put(l, x)
  PROVE  queue' \in [Listeners -> Seq(Item)]
BY DEF Put

LEMMA LeaveType ==
  ASSUME TypeOK, NEW t \in Threads, NEW to \in {"recv", "gone"}, Leave(t, to)
  PROVE  /\ at' \in [Threads -> {"recv", "run", "locked", "gone"}]
         /\ request' \in [Threads -> Requests \cup {NoRequest}]
         /\ holds' \in [Threads -> 0 .. MaxHolds]
BY WorkersAssumption DEF TypeOK, Leave

LEMMA TypeStep ==
  ASSUME IInv, Next
  PROVE  TypeOK'
<1>0. TypeOK /\ Held
  BY DEF IInv
<1>1. ASSUME NEW l \in Listeners, Arrive(l) PROVE TypeOK'
  <2>1. arrived' \in Requests
    BY <1>0, <1>1, WorkersAssumption DEF TypeOK, Arrive, Requests
  <2>2. [kind |-> "request", id |-> arrived'] \in Item
    BY <2>1 DEF Item
  <2>3. queue' \in [Listeners -> Seq(Item)]
    BY <1>0, <1>1, <2>2, PutType DEF TypeOK, Arrive
  <2> QED BY <1>0, <1>1, <2>1, <2>3 DEF TypeOK, Arrive, handlers, stopping, mutex, Requests
<1>2. ASSUME NEW l \in Listeners, AcceptFails(l) PROVE TypeOK'
  <2>1. [kind |-> "error"] \in Item
    BY DEF Item
  <2>2. queue' \in [Listeners -> Seq(Item)]
    BY <1>0, <1>2, <2>1, PutType DEF TypeOK, AcceptFails
  <2> QED BY <1>0, <1>2, <2>2 DEF TypeOK, AcceptFails, handlers, stopping, mutex
<1>3. ASSUME NEW t \in Threads, Recv(t) PROVE TypeOK'
  <2> DEFINE l == ListenerOf(t)
             x == Head(queue[l])
  <2>1. l \in Listeners /\ queue[l] \in Seq(Item) /\ queue[l] # << >>
    BY <1>0, <1>3 DEF TypeOK, Recv, ListenerOf, Listeners
  <2>2. x \in Item /\ Tail(queue[l]) \in Seq(Item)
    BY <2>1
  <2>3. x.kind = "request" => x.id \in Requests
    BY <2>2 DEF Item
  <2>4. queue' \in [Listeners -> Seq(Item)]
    BY <1>0, <1>3, <2>1, <2>2 DEF TypeOK, Recv
  <2>5. /\ at' \in [Threads -> {"recv", "run", "locked", "gone"}]
        /\ request' \in [Threads -> Requests \cup {NoRequest}]
        /\ holds' \in [Threads -> 0 .. MaxHolds]
    BY <1>0, <1>3, <2>3 DEF TypeOK, Recv
  <2> QED BY <1>0, <1>3, <2>4, <2>5 DEF TypeOK, Recv, stopping, mutex, history
<1>4. ASSUME NEW t \in Threads, Lock(t) PROVE TypeOK'
  <2>1. request[t] \in Requests
    BY <1>0, <1>4 DEF Held, Lock
  <2>2. CASE poisoned
    BY <1>0, <1>4, <2>1, <2>2, LeaveType DEF TypeOK, Lock, AfterPanic, stopping
  <2>3. CASE ~poisoned
    BY <1>0, <1>4, <2>3 DEF TypeOK, Lock, stopping
  <2> QED BY <2>2, <2>3
<1>5. ASSUME NEW t \in Threads, Unlock(t) PROVE TypeOK'
  <2>1. holds[t] \in 0 .. MaxHolds /\ holds[t] > 0
    BY <1>0, <1>5 DEF TypeOK, Held, Unlock
  <2>2. holds[t] - 1 \in 0 .. MaxHolds
    BY <2>1, WorkersAssumption
  <2> QED BY <1>0, <1>5, <2>2 DEF TypeOK, Unlock, stopping, history
<1>6. ASSUME NEW t \in Threads, Answer(t) PROVE TypeOK'
  <2>1. request[t] \in Requests
    BY <1>0, <1>6 DEF Held, Answer
  <2> QED BY <1>0, <1>6, <2>1, LeaveType DEF TypeOK, Answer, Served, stopping, mutex
<1>7. ASSUME NEW t \in Threads, Panic(t) PROVE TypeOK'
  <2>1. request[t] \in Requests
    BY <1>0, <1>7 DEF Held, Panic
  <2>2. poisoned' \in BOOLEAN /\ wal' \in BOOLEAN /\ panics' \in 0 .. MaxPanics
    BY <1>0, <1>7, WorkersAssumption DEF TypeOK, Panic
  <2>3. lock' \in Threads \cup {"sweep", "nobody"}
    BY <1>0, <1>7 DEF TypeOK, Panic
  <2> QED BY <1>0, <1>7, <2>1, <2>2, <2>3, LeaveType DEF TypeOK, Panic, AfterPanic, stopping
<1>8. ASSUME Sweeping PROVE TypeOK'
  BY <1>0, <1>8 DEF TypeOK, Sweeping, SweepWakes, SweepUnlocks, Looped, handlers, stopping,
     mutex, history
<1>9. ASSUME SweepLocks PROVE TypeOK'
  BY <1>0, <1>9 DEF TypeOK, SweepLocks, handlers, stopping, history
<1>10. ASSUME Stop PROVE TypeOK'
  BY <1>0, <1>10 DEF TypeOK, Stop, handlers, mutex, history
<1>11. ASSUME Stopping PROVE TypeOK'
  <2>1. [kind |-> "unblock"] \in Item
    BY DEF Item
  <2>2. ASSUME UnblockWorker PROVE TypeOK'
    <3>1. queue' \in [Listeners -> Seq(Item)]
      BY <1>0, <2>1, <2>2, PutType DEF TypeOK, UnblockWorker, Listeners
    <3>2. unblocked' \in 0 .. Cardinality(Workers)
      BY <1>0, <2>2, NamesDiffer DEF TypeOK, UnblockWorker, Unblocks
    <3>3. main' \in {"unblock", "join"}
      BY <2>2 DEF UnblockWorker
    <3> QED BY <1>0, <2>2, <3>1, <3>2, <3>3 DEF TypeOK, UnblockWorker, handlers, mutex, history
  <2>3. ASSUME JoinWorkers PROVE TypeOK'
    <3>1. queue' \in [Listeners -> Seq(Item)]
      BY <1>0, <2>1, <2>3, PutType DEF TypeOK, JoinWorkers, Listeners
    <3> QED BY <1>0, <2>3, <3>1 DEF TypeOK, JoinWorkers, handlers, mutex, history
  <2>4. ASSUME FinalCheckpoint PROVE TypeOK'
    <3>1. wal' \in BOOLEAN
      BY <1>0, <2>4 DEF TypeOK, FinalCheckpoint
    <3> QED BY <1>0, <2>4, <3>1 DEF TypeOK, FinalCheckpoint, handlers, history
  <2>5. ASSUME SeeShutdown \/ JoinAdminAndSweep PROVE TypeOK'
    BY <1>0, <2>5 DEF TypeOK, SeeShutdown, JoinAdminAndSweep, handlers, mutex, history
  <2> QED BY <1>11, <2>2, <2>3, <2>4, <2>5 DEF Stopping
<1>12. ASSUME NEW t \in Threads, Handle(t) PROVE TypeOK'
  BY <1>5, <1>6, <1>12 DEF Handle
<1> QED BY <1>1, <1>2, <1>3, <1>4, <1>7, <1>8, <1>9, <1>10, <1>11, <1>12 DEF Next

-----------------------------------------------------------------------------
(* The rest of the invariant.                                              *)

Rest == Held /\ Joined /\ NothingAfterTheCheckpoint

\* A step that leaves the threads and the mutex alone.
LEMMA IdleStep ==
  ASSUME IInv, UNCHANGED <<at, request, holds, sweep, lock, poisoned, wal, failed, panics>>,
         main' = main
  PROVE  Rest'
BY DEF IInv, Rest, Held, Joined, NothingAfterTheCheckpoint

\* A thread that runs belongs to no one who was joined, so run_server has not
\* come to the last checkpoint, nor past the workers if it is one of them.
LEMMA BusyNotJoined ==
  ASSUME IInv, NEW t \in Threads, at[t] # "gone"
  PROVE  /\ main \notin {"checkpoint", "stopped"}
         /\ t \in Workers => main # "join_admin"
BY DEF IInv, Joined, Threads

\* What a step of thread t leaves true of run_server.
LEMMA ThreadKeepsJoined ==
  ASSUME IInv, NEW t \in Threads, at[t] # "gone", main' = main, sweep' = sweep,
         \A u \in Threads : u # t => at'[u] = at[u]
  PROVE  Joined' /\ NothingAfterTheCheckpoint'
<1>1. main \notin {"checkpoint", "stopped"} /\ (t \in Workers => main # "join_admin")
  BY BusyNotJoined
<1>2. \A u \in Workers : main = "join_admin" => at'[u] = at[u]
  BY <1>1, NamesDiffer
<1> QED BY <1>1, <1>2 DEF IInv, Joined, NothingAfterTheCheckpoint

LEMMA RecvStep ==
  ASSUME IInv, NEW t \in Threads, Recv(t)
  PROVE  Rest'
<1> DEFINE x == Head(queue[ListenerOf(t)])
<1>0. TypeOK /\ Held
  BY DEF IInv
<1>1. /\ at[t] = "recv" /\ UNCHANGED <<main, sweep, lock, poisoned, wal, failed, panics>>
      /\ \A u \in Threads : u # t => at'[u] = at[u] /\ request'[u] = request[u]
                                   /\ holds'[u] = holds[u]
      /\ at'[t] = "gone" \/ (at'[t] = "run" /\ x.kind = "request" /\ request'[t] = x.id)
  BY <1>0 DEF TypeOK, Recv, stopping, mutex, history
<1>2. x.kind = "request" => x.id \in Requests
  <2>1. queue[ListenerOf(t)] \in Seq(Item) /\ queue[ListenerOf(t)] # << >>
    BY <1>0 DEF TypeOK, Recv, ListenerOf, Listeners
  <2>2. x \in Item
    BY <2>1
  <2> QED BY <2>2 DEF Item
<1>3. Held'
  BY <1>0, <1>1, <1>2 DEF Held
<1>4. Joined' /\ NothingAfterTheCheckpoint'
  BY <1>1, ThreadKeepsJoined
<1> QED BY <1>1, <1>3, <1>4 DEF IInv, Rest

LEMMA LockStep ==
  ASSUME IInv, NEW t \in Threads, Lock(t)
  PROVE  Rest'
<1>0. TypeOK /\ Held
  BY DEF IInv
<1>1. /\ at[t] = "run" /\ lock = "nobody" /\ holds[t] > 0
      /\ UNCHANGED <<main, sweep, poisoned, wal, panics>>
      /\ \A u \in Threads : u # t => at'[u] = at[u] /\ request'[u] = request[u]
                                   /\ holds'[u] = holds[u]
  BY <1>0 DEF TypeOK, Lock, Leave, stopping
<1>2. Joined' /\ NothingAfterTheCheckpoint'
  BY <1>1, ThreadKeepsJoined
<1>3. CASE poisoned
  <2>1. at'[t] = "recv" /\ lock' = lock
    BY <1>0, <1>3 DEF TypeOK, Lock, Leave, AfterPanic
  <2>2. Held'
    BY <1>0, <1>1, <2>1, NamesDiffer DEF Held
  <2> QED BY <1>1, <1>2, <2>1, <2>2 DEF Rest
<1>4. CASE ~poisoned
  <2>1. at'[t] = "locked" /\ lock' = t /\ UNCHANGED <<request, holds, failed>>
    BY <1>0, <1>4 DEF TypeOK, Lock
  <2>2. Held'
    BY <1>0, <1>1, <2>1, NamesDiffer DEF Held
  <2> QED BY <1>1, <1>2, <2>1, <2>2 DEF IInv, Rest
<1> QED BY <1>3, <1>4

LEMMA UnlockStep ==
  ASSUME IInv, NEW t \in Threads, Unlock(t)
  PROVE  Rest'
<1>0. TypeOK /\ Held
  BY DEF IInv
<1>1. /\ at[t] = "locked" /\ at'[t] = "run" /\ lock = t /\ lock' = "nobody"
      /\ UNCHANGED <<main, sweep, poisoned, request, failed, panics>>
      /\ \A u \in Threads : u # t => at'[u] = at[u] /\ holds'[u] = holds[u]
  BY <1>0 DEF TypeOK, Held, Unlock, stopping, history
<1>2. Joined' /\ NothingAfterTheCheckpoint'
  BY <1>1, ThreadKeepsJoined
<1>3. Held'
  BY <1>0, <1>1, NamesDiffer DEF Held
<1> QED BY <1>1, <1>2, <1>3 DEF IInv, Rest

LEMMA AnswerStep ==
  ASSUME IInv, NEW t \in Threads, Answer(t)
  PROVE  Rest'
<1>0. TypeOK /\ Held
  BY DEF IInv
<1>1. /\ at[t] = "run" /\ at'[t] = "recv"
      /\ UNCHANGED <<main, sweep, lock, poisoned, wal, failed, panics>>
      /\ \A u \in Threads : u # t => at'[u] = at[u] /\ request'[u] = request[u]
                                   /\ holds'[u] = holds[u]
  BY <1>0 DEF TypeOK, Answer, Leave, Served, stopping, mutex
<1>2. Joined' /\ NothingAfterTheCheckpoint'
  BY <1>1, ThreadKeepsJoined
<1>3. Held'
  BY <1>0, <1>1 DEF Held
<1> QED BY <1>1, <1>2, <1>3 DEF IInv, Rest

LEMMA PanicStep ==
  ASSUME IInv, NEW t \in Threads, Panic(t)
  PROVE  Rest'
<1>0. TypeOK /\ Held
  BY DEF IInv
<1>1. /\ at[t] \in {"run", "locked"} /\ at'[t] = "recv"
      /\ UNCHANGED <<main, sweep>>
      /\ \A u \in Threads : u # t => at'[u] = at[u] /\ request'[u] = request[u]
                                   /\ holds'[u] = holds[u]
  BY <1>0 DEF TypeOK, Panic, Leave, AfterPanic, stopping
<1>2. /\ lock = t <=> at[t] = "locked"
      /\ lock' = IF lock = t THEN "nobody" ELSE lock
  BY <1>0 DEF Held, Panic
<1>3. Joined' /\ NothingAfterTheCheckpoint'
  BY <1>1, ThreadKeepsJoined
<1>4. Held'
  BY <1>0, <1>1, <1>2, NamesDiffer DEF Held
<1> QED BY <1>3, <1>4 DEF Rest

LEMMA SweepStep ==
  ASSUME IInv, Sweeping \/ SweepLocks
  PROVE  Rest'
<1>1. /\ UNCHANGED <<at, request, holds, main, poisoned, failed, panics>>
      /\ sweep # "gone"
      /\ wal' = wal \/ main \notin {"checkpoint", "stopped"}
  BY DEF IInv, Joined, Sweeping, SweepWakes, SweepUnlocks, SweepLocks, handlers, stopping,
     mutex, history
<1>2. Held'
  BY <1>1, NamesDiffer DEF IInv, Held, Sweeping, SweepWakes, SweepUnlocks, SweepLocks, Looped,
     mutex
<1>3. Joined' /\ NothingAfterTheCheckpoint'
  BY <1>1 DEF IInv, Joined, NothingAfterTheCheckpoint
<1> QED BY <1>1, <1>2, <1>3 DEF IInv, Rest

LEMMA StoppingStep ==
  ASSUME IInv, Stopping
  PROVE  Rest'
<1>1. /\ UNCHANGED <<at, request, holds, sweep, lock, poisoned, failed, panics>>
  BY DEF Stopping, SeeShutdown, UnblockWorker, JoinWorkers, JoinAdminAndSweep, FinalCheckpoint,
     handlers, mutex, history
<1>2. Held'
  BY <1>1 DEF IInv, Held
<1>3. Joined'
  BY <1>1 DEF IInv, Joined, Stopping, SeeShutdown, UnblockWorker, JoinWorkers, JoinAdminAndSweep,
     AdminGone, FinalCheckpoint
<1>4. NothingAfterTheCheckpoint'
  BY <1>1 DEF IInv, TypeOK, NothingAfterTheCheckpoint, Stopping, SeeShutdown, UnblockWorker,
     JoinWorkers, JoinAdminAndSweep, FinalCheckpoint, mutex
<1> QED BY <1>2, <1>3, <1>4 DEF Rest

LEMMA NextInvariant == IInv /\ [Next]_vars => IInv'
<1> SUFFICES ASSUME IInv, [Next]_vars PROVE IInv'
  OBVIOUS
<1>1. CASE UNCHANGED vars
  BY <1>1 DEF vars, handlers, stopping, mutex, history, IInv, TypeOK, Held, Joined,
     NothingAfterTheCheckpoint
<1>2. CASE Next
  <2>1. ASSUME NEW l \in Listeners, Arrive(l) \/ AcceptFails(l) PROVE Rest'
    BY <2>1, IdleStep DEF Arrive, AcceptFails, handlers, stopping, mutex
  <2>2. ASSUME Stop PROVE Rest'
    BY <2>2, IdleStep DEF Stop, handlers, mutex, history
  <2>3. ASSUME NEW t \in Threads, Recv(t) \/ Lock(t) \/ Handle(t) \/ Panic(t) PROVE Rest'
    BY <2>3, RecvStep, LockStep, UnlockStep, AnswerStep, PanicStep DEF Handle
  <2>4. Rest'
    BY <1>2, <2>1, <2>2, <2>3, SweepStep, StoppingStep DEF Next
  <2> QED BY <1>2, <2>4, TypeStep DEF IInv, Rest
<1> QED BY <1>1, <1>2

THEOREM Invariance == Spec => []IInv
BY InitInvariant, NextInvariant, PTL DEF Spec

\* The queues, the threads and the flags keep their types.
THEOREM TypeCorrect == Spec => []TypeOK
<1>1. IInv => TypeOK
  BY DEF IInv
<1> QED BY <1>1, Invariance, PTL

\* When run_server has returned, the last checkpoint was the last thing that
\* happened to the database.
THEOREM CheckpointIsLast == Spec => []NothingAfterTheCheckpoint
<1>1. IInv => NothingAfterTheCheckpoint
  BY DEF IInv
<1> QED BY <1>1, Invariance, PTL
=============================================================================
