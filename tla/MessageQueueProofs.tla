------------------------- MODULE MessageQueueProofs -------------------------
(***************************************************************************)
(* Proofs about the queue for any devices, any number of workers, any      *)
(* quotas and any ttl: it stays within its quotas, takes a message that is *)
(* sent again, hands messages out in order, and is a mailbox.              *)
(***************************************************************************)
EXTENDS MessageQueue, FiniteSetTheorems, TLAPS

-----------------------------------------------------------------------------
(* The inductive invariant.                                                *)

OneRowPerId == \A r, s \in rows : r.id = s.id => r = s

NoOrphans == \A r \in rows : {r.from, r.to} \subseteq devices

\* What was inserted before a send came in was stamped before that send.
StampedInOrder ==
  /\ \A r \in rows : r.created <= now /\ r.seq <= inserted
  /\ \A e \in sends :
       /\ e.created <= now /\ e.heard <= inserted
       /\ \A r \in rows : r.seq <= e.heard => r.created <= e.created

HeardBefore == \A r \in rows : r.heard <= inserted

IInv ==
  /\ TypeOK
  /\ IsFiniteSet(rows)
  /\ WithinQuotas
  /\ OneRowPerId
  /\ NoOrphans
  /\ StampedInOrder
  /\ HandedOutInOrder
  /\ HeardBefore

\* A step that inserts no row: Pull, Ack, Sweep, Restart, DeleteAccount and
\* Tick are of this kind.
Removes ==
  /\ rows' \subseteq rows
  /\ sends' \subseteq sends
  /\ inserted' = inserted
  /\ now' \in Seconds /\ now <= now'
  /\ devices' \subseteq devices
  /\ \A r \in rows' : {r.from, r.to} \subseteq devices'

-----------------------------------------------------------------------------
(* Steps.                                                                  *)

\* A quota is not passed by removing rows.
LEMMA RemovingKeepsQuotas ==
  ASSUME IsFiniteSet(rows), WithinQuotas, rows' \subseteq rows,
         DeviceQuota \in Nat, GlobalQuota \in Nat
  PROVE  IsFiniteSet(rows') /\ WithinQuotas'
<1>1. IsFiniteSet(rows') /\ Cardinality(rows') <= Cardinality(rows)
  BY FS_Subset
<1>2. Cardinality(rows) \in Nat /\ Cardinality(rows') \in Nat
  BY <1>1, FS_CardinalityType
<1>3. Cardinality(rows') <= GlobalQuota
  BY <1>1, <1>2 DEF WithinQuotas
<1>4. ASSUME NEW d \in Devices
      PROVE  Cardinality(QueuedFor(d)') <= DeviceQuota
  <2>1. QueuedFor(d)' \subseteq QueuedFor(d)
    BY DEF QueuedFor
  <2>2. QueuedFor(d) \subseteq rows
    BY DEF QueuedFor
  <2>3. IsFiniteSet(QueuedFor(d))
    BY <2>2, FS_Subset
  <2>4. IsFiniteSet(QueuedFor(d)') /\ Cardinality(QueuedFor(d)') <= Cardinality(QueuedFor(d))
    BY <2>1, <2>3, FS_Subset
  <2>5. Cardinality(QueuedFor(d)) \in Nat /\ Cardinality(QueuedFor(d)') \in Nat
    BY <2>3, <2>4, FS_CardinalityType
  <2>6. Cardinality(QueuedFor(d)) <= DeviceQuota
    BY DEF WithinQuotas
  <2> QED BY <2>4, <2>5, <2>6
<1> QED BY <1>1, <1>3, <1>4 DEF WithinQuotas

LEMMA RemovingKeepsInvariant ==
  ASSUME IInv, Removes
  PROVE  IInv'
<1>1. DeviceQuota \in Nat /\ GlobalQuota \in Nat /\ MaxNow \in Nat
  BY QueueAssumption
<1>2. IsFiniteSet(rows') /\ WithinQuotas'
  BY <1>1, RemovingKeepsQuotas DEF IInv, Removes
<1>3. TypeOK'
  BY DEF IInv, Removes, TypeOK
<1>4. OneRowPerId'
  BY DEF IInv, Removes, OneRowPerId
<1>5. NoOrphans'
  BY DEF Removes, NoOrphans
<1>6. StampedInOrder'
  <2>1. ASSUME NEW r \in rows' PROVE r.created <= now' /\ r.seq <= inserted'
    <3>1. r \in rows /\ r.created <= now /\ r.seq <= inserted
      BY DEF IInv, Removes, StampedInOrder
    <3>2. r.created \in Nat /\ now \in Nat /\ now' \in Nat
      BY <1>1, <3>1 DEF IInv, TypeOK, Row, Seconds, Removes
    <3> QED BY <3>1, <3>2 DEF Removes
  <2>2. ASSUME NEW e \in sends'
        PROVE  /\ e.created <= now' /\ e.heard <= inserted'
               /\ \A r \in rows' : r.seq <= e.heard => r.created <= e.created
    <3>1. /\ e \in sends /\ e.created <= now /\ e.heard <= inserted
          /\ \A r \in rows : r.seq <= e.heard => r.created <= e.created
      BY DEF IInv, Removes, StampedInOrder
    <3>2. e.created \in Nat /\ now \in Nat /\ now' \in Nat
      BY <1>1, <3>1 DEF IInv, TypeOK, Envelope, Seconds, Removes
    <3> QED BY <3>1, <3>2 DEF Removes
  <2> QED BY <2>1, <2>2 DEF StampedInOrder
<1>7. HandedOutInOrder'
  BY DEF IInv, Removes, HandedOutInOrder, MayPrecede
<1>8. HeardBefore'
  BY DEF IInv, Removes, HeardBefore
<1> QED BY <1>2, <1>3, <1>4, <1>5, <1>6, <1>7, <1>8 DEF IInv

LEMMA QuietSteps ==
  ASSUME IInv,
         \/ \E d \in Devices : Pull(d) \/ DeleteAccount(d)
         \/ \E d \in Devices, ids \in SUBSET Ids : Ack(d, ids)
         \/ Sweep \/ Restart \/ Tick \/ UNCHANGED vars
  PROVE  Removes
<1>1. now \in Nat /\ now \in Seconds /\ MaxNow \in Nat
  BY QueueAssumption DEF IInv, TypeOK, Seconds
<1>2. \A r \in rows : {r.from, r.to} \subseteq devices
  BY DEF IInv, NoOrphans
<1>3. ASSUME NEW d \in Devices, Pull(d) PROVE Removes
  BY <1>1, <1>2, <1>3 DEF Pull, Removes
<1>4. ASSUME NEW d \in Devices, DeleteAccount(d) PROVE Removes
  BY <1>1, <1>2, <1>4 DEF DeleteAccount, Removes
<1>5. ASSUME NEW d \in Devices, NEW ids \in SUBSET Ids, Ack(d, ids) PROVE Removes
  BY <1>1, <1>2, <1>5 DEF Ack, Acked, Removes
<1>6. CASE Sweep
  BY <1>1, <1>2, <1>6 DEF Sweep, LeftBySweep, Removes
<1>7. CASE Restart
  BY <1>1, <1>2, <1>7 DEF Restart, LeftBySweep, Removes
<1>8. CASE Tick
  BY <1>1, <1>2, <1>8 DEF Tick, Removes, Seconds
<1>9. CASE UNCHANGED vars
  BY <1>1, <1>2, <1>9 DEF vars, Removes
<1> QED BY <1>3, <1>4, <1>5, <1>6, <1>7, <1>8, <1>9

\* Whatever had been inserted when a send comes in was stamped before now.
LEMMA ReceiveStep ==
  ASSUME IInv, NEW from \in Devices, NEW to \in Devices, NEW id \in Ids,
         NEW body \in Bodies, NEW ttl \in 1 .. MaxTtl,
         Receive(from, to, id, body, ttl)
  PROVE  IInv'
<1> DEFINE e == [id |-> id, from |-> from, to |-> to, body |-> body,
                 created |-> now, expires |-> now + ttl, heard |-> inserted]
<1>1. now \in Nat /\ inserted \in Nat /\ MaxNow \in Nat /\ MaxTtl \in Nat
  BY QueueAssumption DEF IInv, TypeOK, Seconds
<1>2. sends' = sends \cup {e} /\ UNCHANGED <<rows, devices, now, inserted>>
  BY DEF Receive, Expiry
<1>3. now \in Seconds /\ now + ttl \in Seconds
  BY <1>1 DEF IInv, TypeOK, Receive, Seconds
<1>4. e \in Envelope
  BY <1>1, <1>3 DEF Envelope
<1>5. e.created = now /\ e.heard = inserted
  OBVIOUS
<1> HIDE DEF e
<1>6. TypeOK'
  BY <1>2, <1>4 DEF IInv, TypeOK
<1>7. StampedInOrder'
  BY <1>1, <1>2, <1>5 DEF IInv, StampedInOrder
<1>8. /\ IsFiniteSet(rows') /\ WithinQuotas' /\ OneRowPerId' /\ NoOrphans'
      /\ HandedOutInOrder' /\ HeardBefore'
  BY <1>2 DEF IInv, WithinQuotas, QueuedFor, OneRowPerId, NoOrphans, HandedOutInOrder, MayPrecede, HeardBefore
<1> QED BY <1>6, <1>7, <1>8 DEF IInv

\* There is room for what is inserted.
LEMMA InsertKeepsQuotas ==
  ASSUME IInv, NEW e \in Envelope, NEW r, r.to = e.to,
         ~Full(e.to), rows' = rows \cup {r}
  PROVE  IsFiniteSet(rows') /\ WithinQuotas'
<1>1. DeviceQuota \in Nat /\ GlobalQuota \in Nat /\ e.to \in Devices
  BY QueueAssumption DEF Envelope
<1>2. IsFiniteSet(rows) /\ Cardinality(rows) \in Nat
  BY FS_CardinalityType DEF IInv
<1>3. IsFiniteSet(rows') /\ Cardinality(rows') <= Cardinality(rows) + 1
  <2>1. /\ IsFiniteSet(rows \cup {r})
        /\ Cardinality(rows \cup {r}) = IF r \in rows THEN Cardinality(rows)
                                                      ELSE Cardinality(rows) + 1
    BY <1>2, FS_AddElement
  <2> QED BY <1>2, <2>1
<1>4. Cardinality(rows') \in Nat
  BY <1>3, FS_CardinalityType
<1>5. IsFiniteSet(QueuedFor(e.to)) /\ Cardinality(QueuedFor(e.to)) \in Nat
  BY <1>2, FS_Subset, FS_CardinalityType DEF QueuedFor
<1>6. Cardinality(rows) < GlobalQuota /\ Cardinality(QueuedFor(e.to)) < DeviceQuota
  BY <1>1, <1>2, <1>5 DEF Full
<1>7. Cardinality(rows') <= GlobalQuota
  BY <1>1, <1>2, <1>3, <1>4, <1>6
<1>8. ASSUME NEW d \in Devices
      PROVE  Cardinality(QueuedFor(d)') <= DeviceQuota
  <2>1. CASE d = e.to
    <3>1. QueuedFor(d)' = QueuedFor(d) \cup {r}
      BY <2>1 DEF QueuedFor
    <3>2. /\ IsFiniteSet(QueuedFor(d)')
          /\ Cardinality(QueuedFor(d)') <= Cardinality(QueuedFor(d)) + 1
      BY <1>5, <2>1, <3>1, FS_AddElement
    <3>3. Cardinality(QueuedFor(d)') \in Nat
      BY <3>2, FS_CardinalityType
    <3> QED BY <1>1, <1>5, <1>6, <2>1, <3>2, <3>3
  <2>2. CASE d # e.to
    <3>1. QueuedFor(d)' = QueuedFor(d)
      BY <2>2 DEF QueuedFor
    <3> QED BY <3>1 DEF IInv, WithinQuotas
  <2> QED BY <2>1, <2>2
<1> QED BY <1>3, <1>7, <1>8 DEF WithinQuotas

\* An insertion: its id is free, both ends are known, there is room, and its
\* stamp is in order with those that were inserted before it came in.
LEMMA InsertStep ==
  ASSUME IInv, NEW e \in sends, Enqueue(e), Accepts(e), Existing(e) = {}
  PROVE  IInv'
<1> DEFINE r == RowOf(e, inserted + 1)
<1>1. e \in Envelope /\ inserted \in Nat /\ now \in Nat
  BY QueueAssumption DEF IInv, TypeOK, Seconds
<1>2. /\ r \in Row /\ r.seq = inserted + 1
      /\ r.id = e.id /\ r.from = e.from /\ r.to = e.to
      /\ r.created = e.created /\ r.heard = e.heard
  BY <1>1 DEF RowOf, Row, Envelope
<1>3. /\ rows' = rows \cup {r} /\ inserted' = inserted + 1
      /\ sends' \subseteq sends /\ UNCHANGED <<devices, now>>
  BY DEF Enqueue, Inserts
<1> HIDE DEF r
<1>4. {e.from, e.to} \subseteq devices /\ ~Full(e.to)
  BY DEF Accepts
<1>5. \A q \in rows : q.id # e.id
  BY DEF Existing
<1>6. IsFiniteSet(rows') /\ WithinQuotas'
  BY <1>1, <1>2, <1>3, <1>4, InsertKeepsQuotas
<1>7. TypeOK'
  BY <1>1, <1>2, <1>3 DEF IInv, TypeOK
<1>8. OneRowPerId'
  BY <1>2, <1>3, <1>5 DEF IInv, OneRowPerId
<1>9. NoOrphans'
  BY <1>2, <1>3, <1>4 DEF IInv, NoOrphans
<1>10. \A f \in rows \cup sends : f.heard \in Nat /\ f.heard <= inserted
  <2>1. ASSUME NEW f \in sends PROVE f.heard \in Nat /\ f.heard <= inserted
    BY DEF IInv, TypeOK, Envelope, StampedInOrder
  <2>2. ASSUME NEW f \in rows PROVE f.heard \in Nat /\ f.heard <= inserted
    BY DEF IInv, TypeOK, Row, HeardBefore
  <2> QED BY <2>1, <2>2
<1>11. StampedInOrder'
  <2>1. ASSUME NEW q \in rows' PROVE q.created <= now' /\ q.seq <= inserted'
    <3>1. CASE q \in rows
      BY <1>1, <1>3, <3>1 DEF IInv, TypeOK, Row, StampedInOrder
    <3>2. CASE q = r
      BY <1>1, <1>2, <1>3, <3>2 DEF IInv, StampedInOrder
    <3> QED BY <1>3, <3>1, <3>2
  <2>2. ASSUME NEW f \in sends'
        PROVE  /\ f.created <= now' /\ f.heard <= inserted'
               /\ \A q \in rows' : q.seq <= f.heard => q.created <= f.created
    <3>1. f \in sends /\ f.heard \in Nat /\ f.heard <= inserted
      BY <1>3, <1>10
    <3>2. f.created <= now' /\ f.heard <= inserted'
      BY <1>1, <1>3, <3>1 DEF IInv, StampedInOrder
    <3>3. ~(r.seq <= f.heard)
      BY <1>1, <1>2, <3>1
    <3>4. \A q \in rows : q.seq <= f.heard => q.created <= f.created
      BY <3>1 DEF IInv, StampedInOrder
    <3> QED BY <1>3, <3>2, <3>3, <3>4
  <2> QED BY <2>1, <2>2 DEF StampedInOrder
<1>12. HandedOutInOrder'
  <2>1. ASSUME NEW p \in rows', NEW q \in rows', p.seq <= q.heard
        PROVE  p.created <= q.created
    <3>1. q.heard \in Nat /\ q.heard <= inserted
      BY <1>2, <1>3, <1>10
    <3>2. p # r
      BY <1>1, <1>2, <2>1, <3>1
    <3>3. p \in rows
      BY <1>3, <3>2
    <3>4. CASE q \in rows
      BY <2>1, <3>3, <3>4 DEF IInv, HandedOutInOrder, MayPrecede
    <3>5. CASE q = r
      BY <1>2, <2>1, <3>3, <3>5 DEF IInv, StampedInOrder
    <3> QED BY <1>3, <3>4, <3>5
  <2> QED BY <2>1 DEF HandedOutInOrder, MayPrecede
<1>13. HeardBefore'
  BY <1>1, <1>2, <1>3, <1>10 DEF HeardBefore
<1> QED BY <1>6, <1>7, <1>8, <1>9, <1>11, <1>12, <1>13 DEF IInv

LEMMA EnqueueStep ==
  ASSUME IInv, NEW e \in sends, Enqueue(e)
  PROVE  IInv'
<1>1. CASE Accepts(e) /\ Existing(e) = {}
  BY <1>1, InsertStep
<1>2. CASE ~(Accepts(e) /\ Existing(e) = {})
  <2>1. UNCHANGED <<rows, devices, now, inserted>> /\ sends' \subseteq sends
    BY <1>2 DEF Enqueue, Inserts
  <2>2. Removes
    BY <2>1 DEF Removes, IInv, TypeOK, NoOrphans, Seconds
  <2> QED BY <2>2, RemovingKeepsInvariant
<1> QED BY <1>1, <1>2

-----------------------------------------------------------------------------
(* The theorems.                                                           *)

LEMMA InitInvariant == Init => IInv
<1> SUFFICES ASSUME Init PROVE IInv
  OBVIOUS
<1>1. rows = {} /\ sends = {} /\ devices = Devices /\ now = 0 /\ inserted = 0
  BY DEF Init
<1>2. IsFiniteSet(rows) /\ Cardinality(rows) = 0
  BY <1>1, FS_EmptySet
<1>3. \A d \in Devices : Cardinality(QueuedFor(d)) = 0
  BY <1>1, FS_EmptySet DEF QueuedFor
<1>4. DeviceQuota \in Nat /\ GlobalQuota \in Nat /\ MaxNow \in Nat
  BY QueueAssumption
<1>5. WithinQuotas
  BY <1>2, <1>3, <1>4 DEF WithinQuotas
<1>6. TypeOK
  BY <1>1, <1>4 DEF TypeOK, Seconds
<1> QED BY <1>1, <1>2, <1>5, <1>6
        DEF IInv, OneRowPerId, NoOrphans, StampedInOrder, HandedOutInOrder, HeardBefore

LEMMA NextInvariant == IInv /\ [Next]_vars => IInv'
<1> SUFFICES ASSUME IInv, [Next]_vars PROVE IInv'
  OBVIOUS
<1>1. ASSUME NEW from \in Devices, NEW to \in Devices, NEW id \in Ids,
             NEW body \in Bodies, NEW ttl \in 1 .. MaxTtl,
             Receive(from, to, id, body, ttl)
      PROVE  IInv'
  BY <1>1, ReceiveStep
<1>2. ASSUME NEW e \in sends, Enqueue(e) PROVE IInv'
  BY <1>2, EnqueueStep
<1>3. ASSUME \/ \E d \in Devices : Pull(d) \/ DeleteAccount(d)
             \/ \E d \in Devices, ids \in SUBSET Ids : Ack(d, ids)
             \/ Sweep \/ Restart \/ Tick \/ UNCHANGED vars
      PROVE  IInv'
  <2>1. Removes
    BY <1>3, QuietSteps
  <2> QED BY <2>1, RemovingKeepsInvariant
<1> QED BY <1>1, <1>2, <1>3 DEF Next

\* The invariant holds of every state that is reached.
THEOREM Invariance == Spec => []IInv
BY InitInvariant, NextInvariant, PTL DEF Spec

\* The variables keep their types.
THEOREM TypeCorrect == Spec => []TypeOK
<1>1. IInv => TypeOK
  BY DEF IInv
<1> QED BY <1>1, Invariance, PTL

\* However many workers enqueue at a time, no quota is passed.
THEOREM QuotasHold == Spec => []WithinQuotas
<1>1. IInv => WithinQuotas
  BY DEF IInv
<1> QED BY <1>1, Invariance, PTL

\* An envelope whose row is still there is accepted again.
THEOREM RetriesAreAccepted == Spec => []RetryIsAccepted
<1>1. IInv => RetryIsAccepted
  <2> SUFFICES ASSUME IInv, NEW r \in rows PROVE Accepts(r)
    BY DEF RetryIsAccepted
  <2>1. \A q \in Existing(r) : q = r
    BY DEF IInv, OneRowPerId, Existing
  <2>2. r \in Existing(r)
    BY DEF Existing
  <2>3. {r.from, r.to} \subseteq devices
    BY DEF IInv, NoOrphans
  <2> QED BY <2>1, <2>2, <2>3 DEF Accepts, Matches
<1> QED BY <1>1, Invariance, PTL

\* Messages are handed out in the order in which they were sent, by the second.
THEOREM OrderIsKept == Spec => []HandedOutInOrder
<1>1. IInv => HandedOutInOrder
  BY DEF IInv
<1> QED BY <1>1, Invariance, PTL

-----------------------------------------------------------------------------
(* The queue is a mailbox.                                                 *)

Held == {Letter(r) : r \in rows}

LEMMA LettersFollowRows ==
  ASSUME rows' \subseteq rows
  PROVE  /\ Held' \subseteq Held
         /\ \A l \in Held \ Held' : \E r \in rows \ rows' : l = Letter(r)
BY DEF Held, Letter

LEMMA InsertionIsPut ==
  ASSUME IInv, NEW e \in sends, Enqueue(e), Accepts(e), Existing(e) = {}
  PROVE  Box!Next
<1> DEFINE l == Letter(e)
<1>1. e \in Envelope
  BY DEF IInv, TypeOK
<1>2. l \in [id : Ids, from : Devices, to : Devices, body : Bodies, due : Seconds]
  BY <1>1 DEF Letter, Envelope
<1>3. rows' = rows \cup {RowOf(e, inserted + 1)} /\ UNCHANGED <<devices, now>>
  BY DEF Enqueue, Inserts
<1>4. Letter(RowOf(e, inserted + 1)) = l
  BY DEF Letter, RowOf
<1>5. Held' = Held \cup {l}
  BY <1>3, <1>4 DEF Held, Letter
<1>6. \A other \in Held : other.id # l.id
  BY DEF Existing, Held, Letter
<1>7. {l.from, l.to} \subseteq devices
  BY DEF Accepts, Letter
<1>8. Box!Put(l)
  BY <1>3, <1>5, <1>6, <1>7 DEF Box!Put, Held
<1> QED BY <1>2, <1>8 DEF Box!Next

\* Every step of the queue is one of the mailbox or none.
LEMMA StepIsMailboxStep ==
  ASSUME IInv, [Next]_vars
  PROVE  [Box!Next]_(Box!vars)
<1> USE DEF Box!Next, Box!vars
<1>1. ASSUME rows' = rows, devices' = devices, now' = now
      PROVE  UNCHANGED Box!vars
  BY <1>1
<1>2. ASSUME NEW from \in Devices, NEW to \in Devices, NEW id \in Ids,
             NEW body \in Bodies, NEW ttl \in 1 .. MaxTtl,
             Receive(from, to, id, body, ttl)
      PROVE  UNCHANGED Box!vars
  BY <1>1, <1>2 DEF Receive
<1>3. ASSUME NEW e \in sends, Enqueue(e) PROVE [Box!Next]_(Box!vars)
  <2>1. CASE Accepts(e) /\ Existing(e) = {}
    BY <1>3, <2>1, InsertionIsPut
  <2>2. CASE ~(Accepts(e) /\ Existing(e) = {})
    BY <1>1, <1>3, <2>2 DEF Enqueue, Inserts
  <2> QED BY <2>1, <2>2
<1>4. now \in Nat /\ \A r \in rows : r.expires \in Nat
  BY QueueAssumption DEF IInv, TypeOK, Seconds, Row
<1>5. ASSUME rows' \subseteq rows, \A r \in rows \ rows' : r.expires <= now,
             devices' = devices, now' = now
      PROVE  Box!Expire
  BY <1>5, LettersFollowRows DEF Box!Expire, Held, Letter
<1>6. ASSUME NEW d \in Devices, Pull(d) PROVE Box!Expire
  BY <1>4, <1>5, <1>6 DEF Pull
<1>7. ASSUME Sweep \/ Restart PROVE Box!Expire
  BY <1>4, <1>5, <1>7 DEF Sweep, Restart, LeftBySweep
<1>8. ASSUME NEW d \in Devices, NEW ids \in SUBSET Ids, Ack(d, ids) PROVE Box!Take(d)
  <2>1. rows' \subseteq rows /\ \A r \in rows \ rows' : r.to = d
    BY <1>8 DEF Ack, Acked
  <2>2. devices' = devices /\ now' = now
    BY <1>8 DEF Ack
  <2> QED BY <2>1, <2>2, LettersFollowRows DEF Box!Take, Held, Letter
<1>9. ASSUME NEW d \in Devices, DeleteAccount(d) PROVE Box!Leave(d)
  <2>1. devices' = devices \ {d} /\ now' = now
        /\ rows' = {r \in rows : d \notin {r.from, r.to}}
    BY <1>9 DEF DeleteAccount
  <2>2. Held' = {l \in Held : d \notin {l.from, l.to}}
    BY <2>1 DEF Held, Letter
  <2> QED BY <2>1, <2>2 DEF Box!Leave, Held
<1>10. ASSUME Tick PROVE Box!Pass
  BY <1>10 DEF Tick, Box!Pass
<1>11. CASE UNCHANGED vars
  BY <1>1, <1>11 DEF vars
<1> QED BY <1>2, <1>3, <1>6, <1>7, <1>8, <1>9, <1>10, <1>11 DEF Next

\* An envelope is held until its recipient acknowledges it, it expires, or one
\* end's account is deleted; nothing else removes or changes it.
THEOREM QueueIsMailbox == Spec => ImplementsMailbox
<1>1. Init => Box!Init
  BY DEF Init, Box!Init
<1>2. IInv /\ [Next]_vars => [Box!Next]_(Box!vars)
  BY StepIsMailboxStep
<1> QED BY <1>1, <1>2, Invariance, PTL DEF Spec, ImplementsMailbox, Box!Spec
=============================================================================
