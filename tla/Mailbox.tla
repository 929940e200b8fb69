------------------------------ MODULE Mailbox ------------------------------
(***************************************************************************)
(* What the server promises about the letters it holds: there is one       *)
(* letter to an id, a letter never changes, and it is thrown away only by  *)
(* its recipient, after it is due, or with the account of its sender or    *)
(* its recipient, which then sends and receives nothing any more.          *)
(***************************************************************************)
EXTENDS Naturals

CONSTANTS
  Letters,      \* records with at least the fields id, from, to and due
  Members       \* the devices that have an account at first

VARIABLES
  letters,      \* the letters the server holds
  members,      \* the devices that have an account
  clock         \* seconds

vars == <<letters, members, clock>>

Init == letters = {} /\ members = Members /\ clock \in Nat

Put(l) ==
  /\ {l.from, l.to} \subseteq members
  /\ \A other \in letters : other.id # l.id
  /\ letters' = letters \cup {l}
  /\ UNCHANGED <<members, clock>>

\* The recipient throws some of its own letters away.
Take(d) ==
  /\ letters' \subseteq letters
  /\ \A l \in letters \ letters' : l.to = d
  /\ UNCHANGED <<members, clock>>

Expire ==
  /\ letters' \subseteq letters
  /\ \A l \in letters \ letters' : l.due <= clock
  /\ UNCHANGED <<members, clock>>

Leave(d) ==
  /\ members' = members \ {d}
  /\ letters' = {l \in letters : d \notin {l.from, l.to}}
  /\ UNCHANGED clock

Pass ==
  /\ clock' = clock + 1
  /\ UNCHANGED <<letters, members>>

Next ==
  \/ \E d \in Members : Take(d) \/ Leave(d)
  \/ Expire
  \/ Pass
  \/ \E l \in Letters : Put(l)

Spec == Init /\ [][Next]_vars
=============================================================================
