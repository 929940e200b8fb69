----------------------------- MODULE Delivery -----------------------------
(***************************************************************************)
(* What the messenger promises about each message a user writes, whatever  *)
(* the network loses and whenever a client dies: once the server has       *)
(* accepted it, it is never lost again; it enters the sender's history at  *)
(* most once, and only if it was accepted; and it enters the recipient's   *)
(* history at most once, and only if it was accepted.                      *)
(***************************************************************************)
EXTENDS Naturals

CONSTANT Messages

VARIABLES
  written,      \* the messages a client has sealed and kept to send
  accepted,     \* the messages the server has taken over
  filed,        \* filed[m]: how often m is in its sender's history
  shown         \* shown[m]: how often m is in its recipient's history

vars == <<written, accepted, filed, shown>>

Init ==
  /\ written = {}
  /\ accepted = {}
  /\ filed = [m \in Messages |-> 0]
  /\ shown = [m \in Messages |-> 0]

\* One attempt to hand m to the server: it may not get there, and the sender
\* may not hear that it did.
Attempt(m) ==
  /\ filed[m] = 0
  /\ written' = written \cup {m}
  /\ accepted' \in {accepted, accepted \cup {m}}
  /\ \/ m \in accepted' /\ filed' = [filed EXCEPT ![m] = 1]
     \/ filed' = filed
  /\ UNCHANGED shown

Show(m) ==
  /\ m \in accepted
  /\ shown[m] = 0
  /\ shown' = [shown EXCEPT ![m] = 1]
  /\ UNCHANGED <<written, accepted, filed>>

Next == \E m \in Messages : Attempt(m) \/ Show(m)

Spec == Init /\ [][Next]_vars
=============================================================================
