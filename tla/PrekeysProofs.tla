--------------------------- MODULE PrekeysProofs ---------------------------
(***************************************************************************)
(* Proofs about Prekeys, for any size of the pool and any number of        *)
(* prekeys, bootstraps and crashes.                                        *)
(***************************************************************************)
EXTENDS Prekeys, FiniteSetTheorems, TLAPS

-----------------------------------------------------------------------------
(* The inductive invariant.                                                *)

\* What is in memory, on disk or on the server was generated.
WasGenerated == pool \cup kept \cup published \subseteq 1 .. generated

\* The pool is never larger than it is to be, and full once it was filled.
PoolFits ==
  /\ Cardinality(pool) <= PoolSize
  /\ Cardinality(kept) <= PoolSize

\* A claim is answered once.
HandedIsClaimed == \A k \in Keys : handed[k] = IF k \in claimed THEN 1 ELSE 0

\* Who claimed a prekey holds it or has written with it, and no one else has.
Claimants ==
  /\ holding \subseteq claimed
  /\ \A b \in boots : b[2] \in claimed \cup {NoPrekey} /\ b[2] \notin holding
  /\ \A b, c \in boots : b[2] = c[2] /\ b[2] # NoPrekey => b = c

\* A prekey is agreed with by reading the bootstrap that names it.
UsedIsRead ==
  \A k \in Keys : used[k] = IF \E b \in processed : b[2] = k THEN 1 ELSE 0

\* What is published and not used is in memory and on disk, if every save has
\* succeeded; and between two saves the disk has all of the pool.
PublishedIsKept ==
  ~unsaved =>
    /\ \A k \in published : used[k] = 0 => k \in pool /\ k \in kept
    /\ at \in {"saved", "idle", "committed"} => pool \subseteq kept

\* The prekey that is about to be removed was used.
ReadingIsUsed == at = "committed" => reading \in Keys /\ used[reading] # 0

\* A client that never died has used nothing that is in the pool, but what it
\* is about to remove, or on disk, but what it is about to save.
UsedIsGoing ==
  ~unsaved /\ crashes = 0 =>
    /\ \A k \in pool : used[k] # 0 => at = "committed" /\ k = reading
    /\ \A k \in kept : used[k] # 0 =>
         (at = "committed" /\ k = reading) \/ at = "refilled"

IInv ==
  /\ TypeOK
  /\ WasGenerated
  /\ PoolFits
  /\ PoolIsFull
  /\ HandedIsClaimed
  /\ Claimants
  /\ UsedIsRead
  /\ PublishedIsKept
  /\ ReadingIsUsed
  /\ UsedIsGoing

-----------------------------------------------------------------------------
(* Filling the pool.                                                       *)

\* What ensure_one_time_prekey_pool draws: the next prekeys, as many as are
\* missing or as the bound leaves.
LEMMA FreshIsNext ==
  ASSUME TypeOK, NEW p \in SUBSET (1 .. generated), Cardinality(p) <= PoolSize
  PROVE  LET g == generated + Cardinality(Fresh(p))
         IN  /\ g \in generated .. MaxGenerated
             /\ Fresh(p) = generated + 1 .. g
             /\ IsFiniteSet(p) /\ Cardinality(p) \in Nat
             /\ Cardinality(p \cup Fresh(p)) <= PoolSize
             /\ Cardinality(p \cup Fresh(p)) = PoolSize \/ g = MaxGenerated
<1> USE PrekeysAssumption
<1> DEFINE wanted == generated + PoolSize - Cardinality(p)
           last == IF wanted <= MaxGenerated THEN wanted ELSE MaxGenerated
           g == generated + Cardinality(Fresh(p))
<1>1. generated \in Nat /\ generated <= MaxGenerated /\ MaxGenerated \in Nat /\ PoolSize \in Nat
  BY DEF TypeOK
<1>2. IsFiniteSet(1 .. generated)
  BY <1>1, FS_Interval
<1>3. IsFiniteSet(p) /\ Cardinality(p) \in Nat
  BY <1>2, FS_Subset, FS_CardinalityType
<1>4. wanted \in Int /\ wanted >= generated /\ last \in Int /\ last >= generated
      /\ last <= MaxGenerated /\ last <= wanted /\ (last = wanted \/ last = MaxGenerated)
  BY <1>1, <1>3
<1>5. Fresh(p) = generated + 1 .. last
  <2> HIDE DEF last
  <2>1. Fresh(p) = {k \in Keys : k > generated /\ k <= wanted}
    BY DEF Fresh
  <2>2. ASSUME NEW k
        PROVE  (k \in Keys /\ k > generated /\ k <= wanted) <=> k \in generated + 1 .. last
    BY <1>1, <1>4 DEF Keys
  <2> QED BY <2>1, <2>2
<1>6. IsFiniteSet(Fresh(p)) /\ Cardinality(Fresh(p)) = last - generated
  <2> HIDE DEF last
  <2>1. generated + 1 \in Int
    BY <1>1
  <2>2. /\ IsFiniteSet(generated + 1 .. last)
        /\ Cardinality(generated + 1 .. last)
             = IF generated + 1 > last THEN 0 ELSE last - (generated + 1) + 1
    BY <1>4, <2>1, FS_Interval
  <2>3. Cardinality(generated + 1 .. last) = last - generated
    BY <1>1, <1>4, <2>2
  <2> QED BY <1>5, <2>2, <2>3
<1>7. g = last
  BY <1>1, <1>4, <1>6
<1>8. p \cap Fresh(p) = {}
  BY <1>1, <1>5
<1>9. Cardinality(p \cap Fresh(p)) = 0
  BY <1>8, FS_EmptySet
<1>10. Cardinality(p \cup Fresh(p)) = Cardinality(p) + (last - generated)
  BY <1>1, <1>3, <1>4, <1>6, <1>9, FS_Union
<1>11. Cardinality(p \cup Fresh(p)) <= PoolSize
  BY <1>1, <1>3, <1>4, <1>10
<1>12. Cardinality(p \cup Fresh(p)) = PoolSize \/ g = MaxGenerated
  BY <1>1, <1>3, <1>4, <1>7, <1>10
<1> QED BY <1>1, <1>3, <1>4, <1>5, <1>7, <1>11, <1>12

\* FillsPool leaves the pool full, with nothing in it that was published.
LEMMA FillsPoolFacts ==
  ASSUME TypeOK, NEW p \in SUBSET (1 .. generated), Cardinality(p) <= PoolSize,
         FillsPool(p)
  PROVE  /\ generated' \in generated .. MaxGenerated
         /\ p \subseteq pool'
         /\ pool' \subseteq 1 .. generated'
         /\ \A k \in pool' : k \in p \/ k > generated
         /\ Cardinality(pool') <= PoolSize
         /\ Cardinality(pool') = PoolSize \/ generated' = MaxGenerated
<1>1. pool' = p \cup Fresh(p) /\ generated' = generated + Cardinality(Fresh(p))
  BY DEF FillsPool
<1>2. /\ generated' \in generated .. MaxGenerated
      /\ Fresh(p) = generated + 1 .. generated'
      /\ Cardinality(pool') <= PoolSize
      /\ Cardinality(pool') = PoolSize \/ generated' = MaxGenerated
  BY <1>1, FreshIsNext
<1>3. generated \in Nat /\ MaxGenerated \in Nat
  BY PrekeysAssumption DEF TypeOK
<1>4. p \subseteq pool'
  BY <1>1
<1>5. pool' \subseteq 1 .. generated'
  <2> SUFFICES ASSUME NEW k \in pool' PROVE k \in 1 .. generated'
    OBVIOUS
  <2>1. k \in 1 .. generated \/ k \in generated + 1 .. generated'
    BY <1>1, <1>2
  <2> QED BY <1>2, <1>3, <2>1
<1>6. \A k \in pool' : k \in p \/ k > generated
  BY <1>1, <1>2, <1>3
<1> QED BY <1>2, <1>4, <1>5, <1>6

\* Without the prekey that was used the pool fits.
LEMMA WithoutReading ==
  ASSUME TypeOK, WasGenerated, PoolFits
  PROVE  /\ PoolAfterUse \in SUBSET (1 .. generated)
         /\ Cardinality(PoolAfterUse) <= PoolSize
<1>1. pool \subseteq 1 .. generated
  BY DEF WasGenerated
<1>2. IsFiniteSet(1 .. generated)
  BY FS_Interval, PrekeysAssumption DEF TypeOK
<1>3. IsFiniteSet(pool)
  BY <1>1, <1>2, FS_Subset
<1>4. Cardinality(PoolAfterUse) <= Cardinality(pool)
  BY <1>3, FS_Subset DEF PoolAfterUse
<1>5. IsFiniteSet(PoolAfterUse)
  BY <1>3, FS_Subset DEF PoolAfterUse
<1>6. Cardinality(PoolAfterUse) \in Nat /\ Cardinality(pool) \in Nat
  BY <1>3, <1>5, FS_CardinalityType
<1>7. Cardinality(PoolAfterUse) <= PoolSize
  BY <1>4, <1>6, PrekeysAssumption DEF PoolFits
<1> QED BY <1>1, <1>7 DEF PoolAfterUse

-----------------------------------------------------------------------------
(* The initial states and the steps.                                       *)

LEMMA IInvInit ==
  ASSUME Init
  PROVE  IInv
<1> USE PrekeysAssumption
<1>1. TypeOK
  <2>1. 0 \in 0 .. MaxGenerated /\ [k \in Keys |-> 0] \in [Keys -> Nat]
    OBVIOUS
  <2> QED BY <2>1 DEF Init, TypeOK
<1>2. PoolFits
  BY FS_EmptySet DEF Init, PoolFits
<1>3. WasGenerated /\ PoolIsFull /\ PublishedIsKept /\ ReadingIsUsed /\ UsedIsGoing
  BY DEF Init, WasGenerated, PoolIsFull, PublishedIsKept, ReadingIsUsed, UsedIsGoing
<1>4. HandedIsClaimed /\ Claimants /\ UsedIsRead
  BY DEF Init, HandedIsClaimed, Claimants, UsedIsRead
<1> QED BY <1>1, <1>2, <1>3, <1>4 DEF IInv

\* What every step leaves of the bounds on what was generated.
LEMMA TypeFacts ==
  ASSUME TypeOK
  PROVE  /\ generated \in Nat /\ MaxGenerated \in Nat /\ PoolSize \in Nat
         /\ NoPrekey \notin Keys
         /\ \A k \in Keys : k \in Nat /\ used[k] \in Nat /\ handed[k] \in Nat
         /\ \A g \in generated .. MaxGenerated : g \in 0 .. MaxGenerated
         /\ \A g \in generated .. MaxGenerated : 1 .. generated \subseteq 1 .. g
         /\ \A g \in 0 .. MaxGenerated : 1 .. g \subseteq Keys
<1>1. generated \in 0 .. MaxGenerated /\ handed \in [Keys -> Nat] /\ used \in [Keys -> Nat]
  BY DEF TypeOK
<1>2. MaxGenerated \in Nat /\ PoolSize \in Nat /\ NoPrekey \notin Keys
  BY PrekeysAssumption
<1>3. Keys = 1 .. MaxGenerated
  BY DEF Keys
<1>4. generated \in Nat
  BY <1>1, <1>2
<1>5. \A k \in Keys : k \in Nat
  BY <1>2, <1>3
<1>6. \A k \in Keys : used[k] \in Nat /\ handed[k] \in Nat
  BY <1>1
<1>7. \A g \in generated .. MaxGenerated : g \in 0 .. MaxGenerated
  BY <1>2, <1>4
<1>8. \A g \in generated .. MaxGenerated : 1 .. generated \subseteq 1 .. g
  <2> TAKE g \in generated .. MaxGenerated
  <2>1. g \in Nat /\ generated <= g
    BY <1>2, <1>4
  <2> QED BY <1>4, <2>1
<1>9. \A g \in 0 .. MaxGenerated : 1 .. g \subseteq Keys
  <2> TAKE g \in 0 .. MaxGenerated
  <2>1. g \in Nat /\ g <= MaxGenerated
    BY <1>2
  <2> QED BY <1>2, <1>3, <2>1
<1> QED BY <1>2, <1>4, <1>5, <1>6, <1>7, <1>8, <1>9

\* A prekey that was used is not one that is generated next.
LEMMA UsedWasGenerated ==
  ASSUME TypeOK, WasGenerated, Claimants, UsedIsRead, NEW k \in Keys, used[k] # 0
  PROVE  k \in claimed /\ k <= generated
<1>1. PICK b \in processed : b[2] = k
  BY DEF UsedIsRead
<1>2. k \in claimed
  BY <1>1, TypeFacts DEF TypeOK, Claimants
<1>3. k \in 1 .. generated
  BY <1>2 DEF TypeOK, WasGenerated
<1> QED BY <1>2, <1>3, TypeFacts

LEMMA LoginStep ==
  ASSUME IInv, Login
  PROVE  IInv'
<1> USE DEF IInv
<1>1. /\ FillsPool(pool) /\ at' = "filled" /\ at \in {"starting", "idle"}
      /\ UNCHANGED <<kept, reading, published, claimed, holding, boots, processed,
                     handed, used, unsaved, crashes>>
  BY DEF Login, AfterLogin, server, senders, ghosts
<1>2. /\ generated' \in generated .. MaxGenerated
      /\ pool \subseteq pool'
      /\ pool' \subseteq 1 .. generated'
      /\ \A k \in pool' : k \in pool \/ k > generated
      /\ Cardinality(pool') <= PoolSize
      /\ Cardinality(pool') = PoolSize \/ generated' = MaxGenerated
  BY <1>1, FillsPoolFacts DEF WasGenerated, PoolFits
<1>3. TypeOK'
  <2>1. generated' \in 0 .. MaxGenerated /\ pool' \subseteq Keys
    BY <1>2, TypeFacts
  <2> QED BY <1>1, <2>1 DEF TypeOK
<1>4. WasGenerated'
  BY <1>1, <1>2, TypeFacts DEF WasGenerated
<1>5. PoolFits' /\ PoolIsFull'
  BY <1>1, <1>2 DEF PoolFits, PoolIsFull
<1>6. HandedIsClaimed' /\ Claimants' /\ UsedIsRead'
  BY <1>1 DEF HandedIsClaimed, Claimants, UsedIsRead
<1>7. PublishedIsKept' /\ ReadingIsUsed'
  BY <1>1, <1>2 DEF PublishedIsKept, ReadingIsUsed
<1>8. UsedIsGoing'
  <2>1. \A k \in pool' : used[k] # 0 => k \in pool
    BY <1>2, <1>3, UsedWasGenerated, TypeFacts DEF TypeOK
  <2> QED BY <1>1, <2>1 DEF UsedIsGoing
<1> QED BY <1>3, <1>4, <1>5, <1>6, <1>7, <1>8

LEMMA SaveStep ==
  ASSUME IInv, NEW saves \in BOOLEAN, Save(saves)
  PROVE  IInv'
<1> USE DEF IInv
<1>1. /\ at \in {"filled", "refilled"}
      /\ kept' = IF saves THEN pool ELSE kept
      /\ unsaved' = (unsaved \/ ~saves)
      /\ at' = IF at = "filled" THEN "saved" ELSE "idle"
      /\ UNCHANGED <<pool, generated, reading, published, claimed, holding, boots,
                     processed, handed, used, crashes>>
  BY DEF Save, server, senders
<1>2. TypeOK'
  <2>1. at' \in {"saved", "idle"} /\ unsaved' \in BOOLEAN /\ kept' \subseteq Keys
    BY <1>1 DEF TypeOK
  <2> QED BY <1>1, <2>1 DEF TypeOK
<1>3. WasGenerated' /\ PoolFits' /\ PoolIsFull'
  BY <1>1 DEF WasGenerated, PoolFits, PoolIsFull
<1>4. HandedIsClaimed' /\ Claimants' /\ UsedIsRead'
  BY <1>1 DEF HandedIsClaimed, Claimants, UsedIsRead
<1>5. PublishedIsKept' /\ ReadingIsUsed'
  BY <1>1 DEF PublishedIsKept, ReadingIsUsed
<1>6. UsedIsGoing'
  BY <1>1 DEF UsedIsGoing
<1> QED BY <1>2, <1>3, <1>4, <1>5, <1>6

LEMMA PublishStep ==
  ASSUME IInv, NEW reached \in BOOLEAN, Publish(reached)
  PROVE  IInv'
<1> USE DEF IInv
<1>1. /\ at = "saved" /\ at' = "idle"
      /\ published' \in {published, published \cup pool}
      /\ UNCHANGED <<pool, kept, generated, reading, claimed, holding, boots,
                     processed, handed, used, unsaved, crashes>>
  BY DEF Publish, PublishedNow, server, senders, ghosts
<1>2. TypeOK'
  BY <1>1 DEF TypeOK
<1>3. WasGenerated' /\ PoolFits' /\ PoolIsFull'
  BY <1>1 DEF WasGenerated, PoolFits, PoolIsFull
<1>4. HandedIsClaimed' /\ Claimants' /\ UsedIsRead'
  BY <1>1 DEF HandedIsClaimed, Claimants, UsedIsRead
<1>5. PublishedIsKept' /\ ReadingIsUsed'
  BY <1>1 DEF PublishedIsKept, ReadingIsUsed
<1>6. UsedIsGoing'
  BY <1>1 DEF UsedIsGoing
<1> QED BY <1>2, <1>3, <1>4, <1>5, <1>6

LEMMA CrashStep ==
  ASSUME IInv, Crash
  PROVE  IInv'
<1> USE DEF IInv
<1>1. /\ crashes' = crashes + 1 /\ pool' = kept
      /\ at' = "starting" /\ reading' = NoPrekey
      /\ UNCHANGED <<kept, generated, published, claimed, holding, boots,
                     processed, handed, used, unsaved>>
  BY DEF Crash, server, senders
<1>2. TypeOK'
  BY <1>1 DEF TypeOK
<1>3. WasGenerated' /\ PoolFits' /\ PoolIsFull'
  BY <1>1 DEF WasGenerated, PoolFits, PoolIsFull
<1>4. HandedIsClaimed' /\ Claimants' /\ UsedIsRead'
  BY <1>1 DEF HandedIsClaimed, Claimants, UsedIsRead
<1>5. PublishedIsKept' /\ ReadingIsUsed'
  BY <1>1 DEF PublishedIsKept, ReadingIsUsed
<1>6. UsedIsGoing'
  <2>1. crashes' # 0
    BY <1>1 DEF TypeOK
  <2> QED BY <2>1 DEF UsedIsGoing
<1> QED BY <1>2, <1>3, <1>4, <1>5, <1>6

LEMMA ClaimStep ==
  ASSUME IInv, NEW k \in Keys, NEW answered \in BOOLEAN, Claim(k, answered)
  PROVE  IInv'
<1> USE DEF IInv
<1>1. /\ k \in published /\ k \notin claimed
      /\ claimed' = claimed \cup {k}
      /\ handed' = [handed EXCEPT ![k] = @ + 1]
      /\ holding' \in {holding, holding \cup {k}}
      /\ UNCHANGED <<pool, kept, generated, at, reading, published, boots,
                     processed, used, unsaved, crashes>>
  BY DEF Claim, Unclaimed, client
<1>2. TypeOK'
  <2>1. handed' \in [Keys -> Nat]
    BY <1>1 DEF TypeOK
  <2> QED BY <1>1, <2>1 DEF TypeOK
<1>3. WasGenerated' /\ PoolFits' /\ PoolIsFull'
  BY <1>1 DEF WasGenerated, PoolFits, PoolIsFull
<1>4. HandedIsClaimed'
  BY <1>1 DEF HandedIsClaimed, TypeOK
<1>5. Claimants'
  <2>1. \A b \in boots : b[2] # k
    BY <1>1, TypeFacts DEF Claimants
  <2> QED BY <1>1, <2>1 DEF Claimants
<1>6. UsedIsRead' /\ PublishedIsKept' /\ ReadingIsUsed' /\ UsedIsGoing'
  BY <1>1 DEF UsedIsRead, PublishedIsKept, ReadingIsUsed, UsedIsGoing
<1> QED BY <1>2, <1>3, <1>4, <1>5, <1>6

LEMMA WriteStep ==
  ASSUME IInv, NEW k \in Keys \cup {NoPrekey}, Write(k)
  PROVE  IInv'
<1> USE DEF IInv
<1> DEFINE b == <<Cardinality(boots) + 1, k>>
<1>1. /\ boots' = boots \cup {b} /\ holding' = holding \ {k}
      /\ k \in holding \/ k = NoPrekey
      /\ UNCHANGED <<pool, kept, generated, at, reading, published, claimed,
                     processed, handed, used, unsaved, crashes>>
  BY DEF Write, client, server, ghosts
<1>2. b[2] = k
  OBVIOUS
<1>3. b \in (1 .. MaxBoots) \X (Keys \cup {NoPrekey})
  <2>1. IsFiniteSet(1 .. MaxBoots) /\ IsFiniteSet(Keys)
    <3>1. MaxBoots \in Int /\ MaxGenerated \in Int
      BY PrekeysAssumption
    <3>2. IsFiniteSet(1 .. MaxBoots)
      BY <3>1, FS_Interval
    <3>3. IsFiniteSet(1 .. MaxGenerated)
      BY <3>1, FS_Interval
    <3> QED BY <3>2, <3>3 DEF Keys
  <2>2. IsFiniteSet(Keys \cup {NoPrekey})
    BY <2>1, FS_AddElement
  <2>3. IsFiniteSet((1 .. MaxBoots) \X (Keys \cup {NoPrekey}))
    BY <2>1, <2>2, FS_Product
  <2>4. IsFiniteSet(boots)
    BY <2>3, FS_Subset DEF TypeOK
  <2>5. Cardinality(boots) \in Nat
    BY <2>4, FS_CardinalityType
  <2>6. Cardinality(boots) < MaxBoots /\ MaxBoots \in Nat
    BY PrekeysAssumption DEF Write
  <2>7. Cardinality(boots) + 1 \in 1 .. MaxBoots
    BY <2>5, <2>6
  <2> QED BY <2>7
<1> HIDE DEF b
<1>4. TypeOK'
  <2>1. boots' \subseteq (1 .. MaxBoots) \X (Keys \cup {NoPrekey})
    BY <1>1, <1>3 DEF TypeOK
  <2> QED BY <1>1, <2>1 DEF TypeOK
<1>5. WasGenerated' /\ PoolFits' /\ PoolIsFull'
  BY <1>1 DEF WasGenerated, PoolFits, PoolIsFull
<1>6. HandedIsClaimed' /\ UsedIsRead' /\ PublishedIsKept' /\ ReadingIsUsed' /\ UsedIsGoing'
  BY <1>1 DEF HandedIsClaimed, UsedIsRead, PublishedIsKept, ReadingIsUsed, UsedIsGoing
<1>7. Claimants'
  <2>1. holding' \subseteq claimed'
    BY <1>1 DEF Claimants
  <2>2. b[2] \in claimed \cup {NoPrekey} /\ b[2] \notin holding'
    BY <1>1, <1>2, TypeFacts DEF Claimants, TypeOK
  <2>3. \A c \in boots : c[2] = b[2] => b[2] = NoPrekey
    BY <1>1, <1>2 DEF Claimants
  <2> QED BY <1>1, <2>1, <2>2, <2>3 DEF Claimants
<1> QED BY <1>4, <1>5, <1>6, <1>7

LEMMA ReadStep ==
  ASSUME IInv, NEW b \in boots, Read(b)
  PROVE  IInv'
<1> USE DEF IInv
<1>1. /\ at = "idle" /\ b \notin processed
      /\ b[2] \in pool \cup {NoPrekey}
      /\ processed' = processed \cup {b}
      /\ used' = IF b[2] = NoPrekey THEN used ELSE [used EXCEPT ![b[2]] = @ + 1]
      /\ reading' = b[2]
      /\ at' = IF b[2] = NoPrekey THEN "idle" ELSE "committed"
      /\ UNCHANGED <<pool, kept, generated, published, claimed, holding, boots,
                     handed, unsaved, crashes>>
  BY DEF Read, server, senders
<1>2. TypeOK'
  <2>1. used' \in [Keys -> Nat]
    BY <1>1 DEF TypeOK
  <2>2. reading' \in Keys \cup {NoPrekey} /\ processed' \subseteq boots
    BY <1>1 DEF TypeOK
  <2>3. at' \in {"idle", "committed"}
    BY <1>1
  <2> QED BY <1>1, <2>1, <2>2, <2>3 DEF TypeOK
<1>3. WasGenerated' /\ PoolFits' /\ PoolIsFull'
  BY <1>1 DEF WasGenerated, PoolFits, PoolIsFull
<1>4. HandedIsClaimed' /\ Claimants'
  BY <1>1 DEF HandedIsClaimed, Claimants
<1>5. \A k \in Keys : used'[k] = IF k = b[2] THEN 1 ELSE used[k]
  <2> SUFFICES ASSUME NEW k \in Keys PROVE used'[k] = IF k = b[2] THEN 1 ELSE used[k]
    OBVIOUS
  <2>1. CASE k # b[2]
    BY <1>1, <2>1 DEF TypeOK
  <2>2. CASE k = b[2]
    <3>1. ~ \E c \in processed : c[2] = k
      BY <1>1, <2>2, TypeFacts DEF Claimants, TypeOK
    <3>2. used[k] = 0
      BY <3>1 DEF UsedIsRead
    <3> QED BY <1>1, <2>2, <3>2, TypeFacts DEF TypeOK
  <2> QED BY <2>1, <2>2
<1>6. UsedIsRead'
  <2> SUFFICES ASSUME NEW k \in Keys
               PROVE  used'[k] = IF \E c \in processed' : c[2] = k THEN 1 ELSE 0
    BY DEF UsedIsRead
  <2>1. (\E c \in processed' : c[2] = k) <=> (k = b[2] \/ \E c \in processed : c[2] = k)
    BY <1>1
  <2> QED BY <1>5, <2>1 DEF UsedIsRead
<1>7. PublishedIsKept'
  <2>1. \A k \in published : used'[k] = 0 => used[k] = 0
    BY <1>5 DEF TypeOK
  <2> QED BY <1>1, <2>1 DEF PublishedIsKept
<1>8. ReadingIsUsed'
  <2>1. at' = "committed" => b[2] \in Keys
    BY <1>1 DEF TypeOK
  <2> QED BY <1>1, <1>5, <2>1 DEF ReadingIsUsed
<1>9. UsedIsGoing'
  <2>1. ~unsaved /\ crashes = 0 => \A k \in pool \cup kept : used[k] = 0
    BY <1>1 DEF UsedIsGoing
  <2>2. ~unsaved /\ crashes = 0 => \A k \in pool \cup kept : used'[k] # 0 => k = b[2]
    BY <1>5, <2>1 DEF TypeOK
  <2>3. \A k \in pool \cup kept : k = b[2] => b[2] # NoPrekey
    BY TypeFacts DEF TypeOK
  <2> QED BY <1>1, <2>2, <2>3 DEF UsedIsGoing
<1> QED BY <1>2, <1>3, <1>4, <1>6, <1>7, <1>8, <1>9

LEMMA RemoveStep ==
  ASSUME IInv, Remove
  PROVE  IInv'
<1> USE DEF IInv
<1>1. /\ at = "committed" /\ FillsPool(PoolAfterUse)
      /\ reading' = NoPrekey /\ at' = "refilled"
      /\ UNCHANGED <<kept, published, claimed, holding, boots, processed,
                     handed, used, unsaved, crashes>>
  BY DEF Remove, server, senders, ghosts
<1>2. /\ generated' \in generated .. MaxGenerated
      /\ PoolAfterUse \subseteq pool'
      /\ pool' \subseteq 1 .. generated'
      /\ \A k \in pool' : k \in PoolAfterUse \/ k > generated
      /\ Cardinality(pool') <= PoolSize
      /\ Cardinality(pool') = PoolSize \/ generated' = MaxGenerated
  BY <1>1, WithoutReading, FillsPoolFacts
<1>3. TypeOK'
  <2>1. generated' \in 0 .. MaxGenerated /\ pool' \subseteq Keys
    BY <1>2, TypeFacts
  <2> QED BY <1>1, <2>1 DEF TypeOK
<1>4. WasGenerated'
  BY <1>1, <1>2, TypeFacts DEF WasGenerated
<1>5. PoolFits' /\ PoolIsFull'
  BY <1>1, <1>2 DEF PoolFits, PoolIsFull
<1>6. HandedIsClaimed' /\ Claimants' /\ UsedIsRead'
  BY <1>1 DEF HandedIsClaimed, Claimants, UsedIsRead
<1>7. PublishedIsKept' /\ ReadingIsUsed'
  <2>1. \A k \in pool : used[k] = 0 => k \in pool'
    BY <1>1, <1>2 DEF PoolAfterUse, ReadingIsUsed
  <2> QED BY <1>1, <2>1 DEF PublishedIsKept, ReadingIsUsed
<1>8. UsedIsGoing'
  <2>1. \A k \in pool' : used[k] # 0 => k \in pool \ {reading}
    BY <1>2, <1>3, UsedWasGenerated, TypeFacts DEF TypeOK, PoolAfterUse
  <2> QED BY <1>1, <2>1 DEF UsedIsGoing
<1> QED BY <1>3, <1>4, <1>5, <1>6, <1>7, <1>8

LEMMA IInvStep ==
  ASSUME IInv, [Next]_vars
  PROVE  IInv'
<1>1. CASE Login
  BY <1>1, LoginStep
<1>2. ASSUME NEW saves \in BOOLEAN, Save(saves) PROVE IInv'
  BY <1>2, SaveStep
<1>3. ASSUME NEW reached \in BOOLEAN, Publish(reached) PROVE IInv'
  BY <1>3, PublishStep
<1>4. CASE Crash
  BY <1>4, CrashStep
<1>5. ASSUME NEW k \in Keys, NEW answered \in BOOLEAN, Claim(k, answered) PROVE IInv'
  BY <1>5, ClaimStep
<1>6. ASSUME NEW k \in Keys \cup {NoPrekey}, Write(k) PROVE IInv'
  BY <1>6, WriteStep
<1>7. ASSUME NEW b \in boots, Read(b) PROVE IInv'
  BY <1>7, ReadStep
<1>8. CASE Remove
  BY <1>8, RemoveStep
<1>9. CASE UNCHANGED vars
  BY <1>9 DEF vars, client, server, senders, ghosts, IInv, TypeOK, WasGenerated,
     PoolFits, PoolIsFull, HandedIsClaimed, Claimants, UsedIsRead, PublishedIsKept,
     ReadingIsUsed, UsedIsGoing
<1> QED BY <1>1, <1>2, <1>3, <1>4, <1>5, <1>6, <1>7, <1>8, <1>9 DEF Next

LEMMA IInvHolds == Spec => []IInv
<1>1. Init => IInv
  BY IInvInit
<1>2. IInv /\ [Next]_vars => IInv'
  BY IInvStep
<1> QED BY <1>1, <1>2, PTL DEF Spec

-----------------------------------------------------------------------------
(* The theorems.                                                           *)

\* Pool, disk, server and senders have their types in every reachable state.
THEOREM TypeCorrect == Spec => []TypeOK
<1>1. IInv => TypeOK
  BY DEF IInv
<1> QED BY <1>1, IInvHolds, PTL

\* A prekey is handed out at most once and agreed with at most once, however
\* often its owner dies and publishes it again (db.rs claim_one_time_prekey).
THEOREM PrekeysAreOneTime == Spec => []OneTime
<1>1. ASSUME IInv, NEW k \in Keys
      PROVE  handed[k] <= 1 /\ used[k] <= handed[k]
  <2>1. handed[k] = IF k \in claimed THEN 1 ELSE 0
    BY <1>1 DEF IInv, HandedIsClaimed
  <2>2. used[k] # 0 => k \in claimed
    BY <1>1, UsedWasGenerated DEF IInv
  <2>3. used[k] \in {0, 1}
    BY <1>1 DEF IInv, UsedIsRead
  <2> QED BY <2>1, <2>2, <2>3
<1>2. IInv => OneTime
  BY <1>1 DEF OneTime
<1> QED BY <1>2, IInvHolds, PTL

\* The private half of a prekey that was handed out and not used is on disk, if
\* every save has succeeded (app.rs authenticate, persist_identity_secrets).
THEOREM HandedOutStaysKept == Spec => []HandedOutIsKept
<1>1. IInv => HandedOutIsKept
  BY DEF IInv, TypeOK, PublishedIsKept, HandedOutIsKept
<1> QED BY <1>1, IInvHolds, PTL

\* A client that never died and never failed to save has forgotten every prekey
\* it used when a poll is over (app.rs poll).
THEOREM UsedPrekeysAreForgotten == Spec => []UsedIsForgotten
<1>1. IInv => UsedIsForgotten
  BY DEF IInv, UsedIsGoing, UsedIsForgotten
<1> QED BY <1>1, IInvHolds, PTL

\* The pool is full whenever poll could publish it (app.rs:1129), so that poll
\* never does.
THEOREM PoolStaysFull == Spec => []PoolIsFull
<1>1. IInv => PoolIsFull
  BY DEF IInv
<1> QED BY <1>1, IInvHolds, PTL
=============================================================================
