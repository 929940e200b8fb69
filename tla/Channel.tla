------------------------------ MODULE Channel ------------------------------
(***************************************************************************)
(* What an established session promises to the two devices that share it:  *)
(* an unordered channel on which every message that was encrypted can be   *)
(* read by the peer, at most once, until a device loses its session.       *)
(* Nothing here speaks of keys, headers or chains.                         *)
(***************************************************************************)
EXTENDS Naturals

CONSTANTS
  Devices,      \* the two ends of the channel
  Other(_),     \* the other end
  MaxSent       \* how many messages an end may post

VARIABLES
  posted,       \* posted[p]: how many messages p has posted
  reads,        \* reads[p][i]: how often p has read message i of its peer
  gone          \* the ends that have lost their session

vars == <<posted, reads, gone>>

Init ==
  /\ posted = [p \in Devices |-> 0]
  /\ reads = [p \in Devices |-> [i \in 1 .. MaxSent |-> 0]]
  /\ gone = {}

Post(p) ==
  /\ p \notin gone
  /\ posted[p] < MaxSent
  /\ posted' = [posted EXCEPT ![p] = @ + 1]
  /\ UNCHANGED <<reads, gone>>

\* Message i is read for the first and only time.
Read(p, i) ==
  /\ p \notin gone
  /\ i <= posted[Other(p)]
  /\ reads[p][i] = 0
  /\ reads' = [reads EXCEPT ![p][i] = 1]
  /\ UNCHANGED <<posted, gone>>

Leave(p) ==
  /\ gone' = gone \cup {p}
  /\ UNCHANGED <<posted, reads>>

Next ==
  \E p \in Devices :
    \/ Post(p)
    \/ Leave(p)
    \/ \E i \in 1 .. MaxSent : Read(p, i)

Spec == Init /\ [][Next]_vars
=============================================================================
