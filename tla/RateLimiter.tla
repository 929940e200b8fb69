---------------------------- MODULE RateLimiter ----------------------------
(***************************************************************************)
(* The rate limiter of the server (ratelimit.rs) in front of a handler: a   *)
(* fixed window per key, in a table of bounded size.  A worker thread reads *)
(* the wall clock before it takes the limiter's mutex, so calls may get to  *)
(* the table with stamps in another order, and the wall clock may be set    *)
(* back.  Every call is one on auth_limiter, which keys a request by the    *)
(* device it names (api.rs route, auth_rate_limit_key).                     *)
(*                                                                         *)
(* time is real time, which the program never sees; calls are counted by it *)
(* in calls, which only the properties read.                                *)
(***************************************************************************)
EXTENDS Naturals, FiniteSets, Functions

CONSTANTS
  Devices,
  NoDevice,       \* the body of a request that names no device
  Malformed,      \* the key of such a request
  Threads,        \* the worker threads
  NoCall,         \* a worker is in no call of the limiter
  Limit,          \* limit
  WindowSecs,     \* window_secs
  MaxTrackedKeys, \* max_tracked_keys
  MaxDelay,       \* bound: seconds between reading the clock and the mutex
  MaxBack,        \* bound: seconds the clock is set back, in all
  MaxTime,        \* bound: time stops here
  MaxCalls        \* bound: calls of the limiter, in all

Keys == Devices \cup {Malformed}

Times == MaxBack .. MaxTime

ASSUME RateLimiterAssumption ==
  /\ {Limit, MaxTrackedKeys, MaxBack, MaxTime, MaxCalls} \subseteq Nat
  /\ WindowSecs \in Nat \ {0} /\ MaxDelay \in Nat \ {0}
  /\ MaxBack <= MaxTime
  /\ NoDevice \notin Devices
  /\ IsFiniteSet(Devices)

VARIABLES
  state,      \* the table: a Window for each key it tracks
  call,       \* call[w]: the call of check that worker w is in
  time,       \* real time
  back,       \* how far the wall clock has been set back
  begun,      \* how many calls were begun
  admitted,   \* history: admitted[k][t], calls of second t let through
  counted,    \* history: counted[k][t], those of them that the table counted
  checked,    \* history: checked[k][t], calls that the table counted, refused ones too
  refused     \* history: <<k, t>> when a call was refused

history == <<admitted, counted, checked, refused>>
limiterVars == <<state, call, time, back, begun, history>>

Window == [window_start : Nat, count : Nat]

Call == [key : Keys, now : Nat, since : Nat]

\* now_secs.
Clock == time - back

-----------------------------------------------------------------------------

\* auth_rate_limit_key: bodies that name no device share a budget.
AuthRateLimitKey(device) == IF device = NoDevice THEN Malformed ELSE device

\* saturating_sub.
Elapsed(now, window) ==
  IF now >= window.window_start THEN now - window.window_start ELSE 0

\* Mutants: a window is never over, or ends where another one of the clock begins.
NeverOver(now, window) == FALSE
OverAtBoundary(now, window) == now \div WindowSecs # window.window_start \div WindowSecs

Over(now, window) == Elapsed(now, window) >= WindowSecs

Full(tracked) == Cardinality(tracked) >= MaxTrackedKeys

\* Mutant: no retain, a full table stays full.
RetainedAll(now) == DOMAIN state

\* retain, before a key is admitted to a full table.
Retained(now) == {k \in DOMAIN state : ~Over(now, state[k])}

\* The keys in the table once room was made for key, if it takes any.
Swept(key, now) ==
  IF Full(DOMAIN state) /\ key \notin DOMAIN state THEN Retained(now) ELSE DOMAIN state

\* or_insert, and the reset of a window that is over.
WindowOf(key, now) ==
  IF key \in DOMAIN state /\ ~Over(now, state[key])
  THEN state[key]
  ELSE [window_start |-> now, count |-> 0]

-----------------------------------------------------------------------------

\* route calls check for a request, and check reads the clock.
Begin(w, device) ==
  /\ call[w] = NoCall
  /\ begun < MaxCalls
  /\ begun' = begun + 1
  /\ call' = [call EXCEPT ![w] =
                [key |-> AuthRateLimitKey(device), now |-> Clock, since |-> time]]
  /\ UNCHANGED <<state, time, back, history>>

\* One more hit of key, in this second.
OneMore(hits, key) == [hits EXCEPT ![key][time] = @ + 1]

\* A key the table has no room for is let through and not counted.
FailsOpen(c) ==
  LET kept == Swept(c.key, c.now)
  IN  /\ c.key \notin kept
      /\ Full(kept)
      /\ state' = [k \in kept |-> state[k]]
      /\ admitted' = OneMore(admitted, c.key)
      /\ UNCHANGED <<counted, checked, refused>>

\* Any other is counted, and let through up to the limit.
Counts(c) ==
  LET kept == Swept(c.key, c.now)
      window == WindowOf(c.key, c.now)
      within == window.count + 1 <= Limit
  IN  /\ c.key \in kept \/ ~Full(kept)
      /\ state' = [k \in kept \cup {c.key} |->
                     IF k = c.key THEN [window EXCEPT !.count = @ + 1] ELSE state[k]]
      /\ checked' = OneMore(checked, c.key)
      /\ IF within
         THEN /\ admitted' = OneMore(admitted, c.key)
              /\ counted' = OneMore(counted, c.key)
              /\ UNCHANGED refused
         ELSE refused' = refused \cup {<<c.key, time>>} /\ UNCHANGED <<admitted, counted>>

\* check with the mutex held.
Check(w) ==
  /\ call[w] # NoCall
  /\ FailsOpen(call[w]) \/ Counts(call[w])
  /\ call' = [call EXCEPT ![w] = NoCall]
  /\ UNCHANGED <<time, back, begun>>

\* Time passes; no worker waits for the mutex longer than MaxDelay.
TimePasses ==
  /\ time < MaxTime
  /\ \A w \in Threads : call[w] # NoCall => time < call[w].since + MaxDelay
  /\ time' = time + 1
  /\ UNCHANGED <<state, call, back, begun, history>>

SetBack ==
  /\ back < MaxBack
  /\ back' = back + 1
  /\ UNCHANGED <<state, call, time, begun, history>>

-----------------------------------------------------------------------------

LimiterInit ==
  /\ state = [k \in {} |-> [window_start |-> 0, count |-> 0]]
  /\ call = [w \in Threads |-> NoCall]
  /\ time = MaxBack
  /\ back = 0
  /\ begun = 0
  /\ admitted = [k \in Keys |-> [t \in Times |-> 0]]
  /\ counted = [k \in Keys |-> [t \in Times |-> 0]]
  /\ checked = [k \in Keys |-> [t \in Times |-> 0]]
  /\ refused = {}

LimiterNext ==
  \/ \E w \in Threads : Check(w) \/ \E d \in Devices \cup {NoDevice} : Begin(w, d)
  \/ TimePasses
  \/ SetBack

LimiterSpec == LimiterInit /\ [][LimiterNext]_limiterVars

-----------------------------------------------------------------------------
(* Properties.                                                             *)

\* Type invariant.
LimiterTypeOK ==
  /\ DOMAIN state \subseteq Keys
  /\ state \in [DOMAIN state -> Window]
  /\ call \in [Threads -> Call \cup {NoCall}]
  /\ time \in Times
  /\ back \in 0 .. MaxBack
  /\ begun \in Nat
  /\ admitted \in [Keys -> [Times -> Nat]]
  /\ counted \in [Keys -> [Times -> Nat]]
  /\ checked \in [Keys -> [Times -> Nat]]
  /\ refused \subseteq Keys \X Times

\* The seconds of span from t on.
Span(t, span) == {u \in Times : t <= u /\ u < t + span}

\* The seconds whose calls may be in a window that is open in second t: it is
\* longer by what the clock was set back and a call may wait.
Recent(t) == {u \in Times : u <= t /\ t < u + WindowSecs + MaxBack + MaxDelay}

\* The other keys with a recent call.
Crowd(key, t) == {k \in Keys \ {key} : \E u \in Recent(t) : checked[k][u] > 0}

\* Three windows of a key never meet in the seconds of one, less those a call may
\* wait, so the table counts no more than twice the limit in them, although it
\* is swept meanwhile and stamps get to it out of order; and a key that gets more
\* than that gets it in a crowd (ratelimit.rs:69).  A clock that was set back by
\* a window or more takes a stamp from before for the end of the window, and
\* gives this up.
Burst ==
  MaxBack < WindowSecs =>
    \A key \in Keys, t \in Times :
      LET seconds == Span(t, WindowSecs - MaxDelay)
      IN  /\ SumFunctionOnSet(counted[key], seconds) <= 2 * Limit
          /\ \/ SumFunctionOnSet(admitted[key], seconds) <= 2 * Limit
             \/ \E u \in seconds : Full(Crowd(key, u))

\* The limiter fails open (ratelimit.rs:69) for a key only while other keys fill
\* the table, each with a call of its own in a window that may still be open: no
\* window that is over takes up room.
OpensInACrowd ==
  \A key \in Keys, t \in Times :
    admitted[key][t] # counted[key][t] => Full(Crowd(key, t))

\* A key is refused for its own calls only: more of them than the limit, within
\* a window.
RefusedForItsCalls ==
  \A r \in refused : SumFunctionOnSet(checked[r[1]], Recent(r[2])) > Limit
=============================================================================
