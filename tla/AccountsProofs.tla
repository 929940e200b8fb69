--------------------------- MODULE AccountsProofs ---------------------------
(***************************************************************************)
(* Proofs about accounts for any names, devices, times and any number of   *)
(* challenges and crashes: a challenge is compared with one signature, a   *)
(* session stands for a signature, and no row is left without an owner.    *)
(***************************************************************************)
EXTENDS Accounts, TLAPS

-----------------------------------------------------------------------------
(* The inductive invariant.                                                *)

\* A challenge that can still be taken has not been compared with anything,
\* and is the challenge of one device.
Untried ==
  /\ \A n \in Nonces : n > nonces => compared[n] = 0
  /\ \A c \in challenges : c.nonce <= nonces /\ compared[c.nonce] = 0
  /\ \A c, e \in challenges : c.nonce = e.nonce => c = e

\* The challenge that a verification has taken is nobody's any more.
Taken ==
  holder.doing = "verify" =>
    /\ holder.signature \in signatures
    /\ holder.challenge.device = holder.signature.device
    /\ holder.challenge.nonce <= nonces
    /\ compared[holder.challenge.nonce] = 0
    /\ \A c \in challenges : c.nonce # holder.challenge.nonce

IInv ==
  /\ TypeOK
  /\ ChallengeComparedOnce
  /\ Untried
  /\ Taken
  /\ SessionsAreSigned
  /\ LeftoversHaveOwners

\* A step that issues no challenge and compares none, and adds neither a
\* session nor a row.
Quiet ==
  /\ challenges' \subseteq challenges
  /\ sessions' \subseteq sessions
  /\ rows' \subseteq rows
  /\ UNCHANGED <<signatures, nonces, compared>>

-----------------------------------------------------------------------------
(* Steps.                                                                  *)

LEMMA InitInvariant == Init => IInv
<1> SUFFICES ASSUME Init PROVE IInv
  OBVIOUS
<1> USE DEF Init
<1>1. TypeOK
  BY AccountsAssumption DEF TypeOK, Free, Nonces
<1>2. Untried /\ ChallengeComparedOnce
  BY DEF Untried, ChallengeComparedOnce
<1>3. Taken
  BY DEF Taken, Idle
<1> QED BY <1>1, <1>2, <1>3 DEF IInv, SessionsAreSigned, LeftoversHaveOwners

LEMMA StatementsAreTables == Statements \in Seq(Tables) \ {<< >>}
BY DEF Statements, Tables

\* What a step that is quiet leaves true whatever else it does.
LEMMA QuietKeepsHistory ==
  ASSUME IInv, Quiet
  PROVE  Untried' /\ ChallengeComparedOnce' /\ SessionsAreSigned'
BY DEF IInv, Quiet, Untried, ChallengeComparedOnce, SessionsAreSigned

LEMMA QuietKeepsTaken ==
  ASSUME IInv, Quiet, holder' = holder \/ holder'.doing # "verify"
  PROVE  Taken'
BY DEF IInv, Quiet, Taken

LEMMA QuietKeepsOwners ==
  ASSUME IInv, Quiet, devices' = devices, users' = users
  PROVE  LeftoversHaveOwners'
BY DEF IInv, Quiet, LeftoversHaveOwners

-----------------------------------------------------------------------------
(* Types.                                                                  *)

LEMMA TypeStep ==
  ASSUME IInv, Next
  PROVE  TypeOK'
<1> USE DEF TypeOK, Free, Idle
<1>0. TypeOK /\ SessionsAreSigned /\ Taken
  BY DEF IInv
<1>1. ASSUME NEW name \in Names, NEW id \in Ids, Register(name, id) PROVE TypeOK'
  BY <1>0, <1>1 DEF Register, auth, clients
<1>2. ASSUME NEW d \in Ids, NEW answered \in BOOLEAN, NEW own \in BOOLEAN,
             IssueChallenge(d, answered, own)
      PROVE  TypeOK'
  <2>1. nonces' \in Nonces /\ nonces' \in Nat
    BY <1>0, <1>2, AccountsAssumption DEF IssueChallenge, Nonces
  <2>2. [device |-> d, nonce |-> nonces', expires |-> now + ChallengeTtl] \in Challenge
    BY <1>0, <2>1, AccountsAssumption DEF Challenge
  <2>3. [device |-> d, nonce |-> nonces', own |-> own] \in Signature
    BY <2>1 DEF Signature
  <2>4. challenges' \subseteq Challenge /\ signatures' \subseteq Signature
    BY <1>0, <1>2, <2>2, <2>3 DEF IssueChallenge, ChallengesOf
  <2> QED BY <1>0, <1>2, <2>1, <2>4 DEF IssueChallenge, accounts
<1>3. ASSUME NEW s \in signatures, NEW c \in challenges, TakeChallenge(s, c)
      PROVE  TypeOK'
  BY <1>0, <1>3 DEF TakeChallenge, Consumed, accounts, clients
<1>4. ASSUME Verify PROVE TypeOK'
  <2> DEFINE c == holder.challenge
             s == holder.signature
  <2>1. holder \in [doing : {"verify"}, signature : Signature, challenge : Challenge]
    BY <1>0, <1>4 DEF Verify
  <2>2. c.nonce \in Nonces /\ s.device \in Ids
    BY <2>1 DEF Challenge, Signature
  <2>3. [device |-> s.device, token |-> c.nonce, expires |-> SessionExpiry] \in Session
    BY <1>0, <2>2, AccountsAssumption DEF Session, SessionExpiry
  <2>4. sessions' \subseteq Session
    BY <1>0, <1>4, <2>3 DEF Verify
  <2>5. compared' \in [Nonces -> Nat]
    BY <1>0, <1>4, <2>2 DEF Verify
  <2> QED BY <1>0, <1>4, <2>4, <2>5 DEF Verify, accounts, clients
<1>5. ASSUME NEW s \in sessions, RequireAuth(s) PROVE TypeOK'
  <2>1. [device |-> s.device, token |-> s.token] \in Request
    BY <1>0 DEF Session, Request
  <2> QED BY <1>0, <1>5, <2>1 DEF RequireAuth, accounts
<1>6. ASSUME NEW q \in requests, NEW r \in Row, Post(q, r) PROVE TypeOK'
  BY <1>0, <1>6 DEF Post, accounts, auth
<1>7. ASSUME NEW q \in requests, Logout(q) PROVE TypeOK'
  BY <1>0, <1>7 DEF Logout, accounts
<1>8. ASSUME NEW u \in users, Delete(u) PROVE TypeOK'
  BY <1>0, <1>8, StatementsAreTables DEF Delete, accounts, auth, clients
<1>9. ASSUME Statement PROVE TypeOK'
  <2>1. holder \in [doing : {"delete"}, id : Ids, left : Seq(Tables) \ {<< >>}]
    BY <1>0, <1>9 DEF Statement
  <2>2. Tail(holder.left) \in Seq(Tables)
    BY <2>1
  <2>3. \/ holder' = Idle
        \/ holder' \in [doing : {"delete"}, id : Ids, left : Seq(Tables) \ {<< >>}]
    BY <1>9, <2>1, <2>2 DEF Statement
  <2>4. /\ users' \subseteq users /\ devices' \subseteq devices /\ rows' \subseteq rows
        /\ sessions' \subseteq sessions /\ challenges' \subseteq challenges
        /\ drawn' = drawn
    BY <1>9 DEF Statement, accounts
  <2> QED BY <1>0, <1>9, <2>3, <2>4 DEF Statement, clients
<1>10. ASSUME Sweep PROVE TypeOK'
  BY <1>0, <1>10 DEF Sweep, accounts, clients
<1>11. ASSUME Crash PROVE TypeOK'
  BY <1>0, <1>11 DEF Crash, accounts
<1>12. ASSUME Tick PROVE TypeOK'
  BY <1>0, <1>12, AccountsAssumption DEF Tick, accounts, auth, clients
<1> HIDE DEF TypeOK
<1> QED BY <1>1, <1>2, <1>3, <1>4, <1>5, <1>6, <1>7, <1>8, <1>9, <1>10, <1>11, <1>12 DEF Next

-----------------------------------------------------------------------------
(* The rest of the invariant, action by action.                            *)

Rest == ChallengeComparedOnce /\ Untried /\ Taken /\ SessionsAreSigned /\ LeftoversHaveOwners

LEMMA QuietStep ==
  ASSUME IInv, Quiet, holder' = holder \/ holder'.doing # "verify",
         devices' = devices, users' = users
  PROVE  Rest'
BY QuietKeepsHistory, QuietKeepsTaken, QuietKeepsOwners DEF Rest

\* A new challenge has a number that nothing has been compared with yet.
LEMMA IssueChallengeStep ==
  ASSUME IInv, NEW d \in Ids, NEW answered \in BOOLEAN, NEW own \in BOOLEAN,
         IssueChallenge(d, answered, own)
  PROVE  Rest'
<1>1. /\ nonces' = nonces + 1 /\ nonces \in Nat /\ nonces' \in Nonces
      /\ compared' = compared /\ d \in devices /\ holder = Idle /\ holder' = holder
      /\ signatures \subseteq signatures'
      /\ UNCHANGED <<users, devices, rows, sessions>>
  BY AccountsAssumption DEF IInv, TypeOK, IssueChallenge, Free, Nonces, accounts
<1>2. \A c \in challenges' :
        \/ c \in challenges
        \/ c.nonce = nonces' /\ c.device = d
  BY DEF IssueChallenge
<1>3. \A c, e \in challenges' : c \notin challenges /\ e \notin challenges => c = e
  BY DEF IssueChallenge
<1>4. Untried'
  <2>1. \A n \in Nonces : n \in Nat
    BY DEF Nonces
  <2>2. \A c \in challenges : c.nonce \in Nat
    BY <2>1 DEF IInv, TypeOK, Challenge
  <2> QED BY <1>1, <1>2, <1>3, <2>1, <2>2 DEF IInv, Untried
<1>5. ChallengeComparedOnce'
  BY <1>1 DEF IInv, ChallengeComparedOnce
<1>6. Taken'
  BY <1>1 DEF Taken, Idle
<1>7. SessionsAreSigned' /\ LeftoversHaveOwners'
  BY <1>1, <1>2 DEF IInv, SessionsAreSigned, LeftoversHaveOwners
<1> QED BY <1>4, <1>5, <1>6, <1>7 DEF Rest

LEMMA TakeChallengeStep ==
  ASSUME IInv, NEW s \in signatures, NEW c \in challenges, TakeChallenge(s, c)
  PROVE  Rest'
<1>1. Quiet /\ devices' = devices /\ users' = users
  BY DEF TakeChallenge, Quiet, Consumed, accounts, clients
<1>2. /\ holder' = [doing |-> "verify", signature |-> s, challenge |-> c]
      /\ c.device = s.device
      /\ \A e \in challenges' : e \in challenges /\ e # c
  BY DEF TakeChallenge, Consumed, ChallengesOf
<1>3. Taken'
  BY <1>1, <1>2 DEF IInv, Taken, Untried, Quiet
<1> QED BY <1>1, <1>3, QuietKeepsHistory, QuietKeepsOwners DEF Rest

LEMMA VerifyStep ==
  ASSUME IInv, Verify
  PROVE  Rest'
<1> DEFINE c == holder.challenge
           s == holder.signature
<1>1. /\ holder \in [doing : {"verify"}, signature : Signature, challenge : Challenge]
      /\ holder' = Idle
      /\ UNCHANGED <<users, devices, rows, challenges, signatures, nonces>>
  BY DEF IInv, TypeOK, Verify, Free, Idle, accounts, clients
<1>2. c.nonce \in Nonces /\ compared[c.nonce] = 0 /\ compared \in [Nonces -> Nat]
  BY <1>1 DEF IInv, TypeOK, Taken, Challenge
<1>3. /\ \A n \in Nonces : n # c.nonce => compared'[n] = compared[n]
      /\ compared'[c.nonce] \in {0, 1}
  BY <1>2 DEF Verify
<1>4. ChallengeComparedOnce'
  BY <1>3 DEF IInv, ChallengeComparedOnce
<1>5. Untried'
  <2>1. c.nonce <= nonces /\ \A e \in challenges : e.nonce # c.nonce /\ e.nonce \in Nonces
    BY <1>1 DEF IInv, TypeOK, Taken, Challenge
  <2>2. nonces \in Nat /\ \A n \in Nonces : n \in Nat
    BY DEF IInv, TypeOK, Nonces
  <2> QED BY <1>1, <1>2, <1>3, <2>1, <2>2 DEF IInv, Untried
<1>6. Taken'
  BY <1>1 DEF Taken, Idle
<1>7. \A x \in sessions' :
        \/ x \in sessions
        \/ /\ x.device = s.device /\ x.token = c.nonce
           /\ s.device \in devices /\ s.own /\ s.nonce = c.nonce
  BY DEF Verify, Verifies
<1>8. SessionsAreSigned'
  <2>1. s \in signatures /\ s \in Signature
    BY <1>1 DEF IInv, Taken
  <2>2. s.own = TRUE => s = [device |-> s.device, nonce |-> s.nonce, own |-> TRUE]
    BY <2>1 DEF Signature
  <2>3. s.own \in BOOLEAN
    BY <2>1 DEF Signature
  <2> QED BY <1>1, <1>7, <2>1, <2>2, <2>3 DEF IInv, SessionsAreSigned
<1>9. LeftoversHaveOwners'
  BY <1>1, <1>7 DEF IInv, LeftoversHaveOwners
<1> QED BY <1>4, <1>5, <1>6, <1>8, <1>9 DEF Rest

LEMMA StatementStep ==
  ASSUME IInv, Statement
  PROVE  Rest'
<1> DEFINE d == holder.id
           t == Head(holder.left)
<1>1. Quiet /\ holder'.doing # "verify"
  <2>1. holder \in [doing : {"delete"}, id : Ids, left : Seq(Tables) \ {<< >>}]
    BY DEF IInv, TypeOK, Statement, Free, Idle
  <2>2. holder' = Idle \/ holder' = [holder EXCEPT !.left = Tail(holder.left)]
    BY DEF Statement
  <2>3. holder'.doing # "verify"
    BY <2>1, <2>2 DEF Idle
  <2>4. Quiet
    BY DEF Statement, Quiet, clients, ChallengesOf
  <2> QED BY <2>3, <2>4
<1>2. LeftoversHaveOwners'
  <2>1. CASE Referred(t, d)
    BY <1>1, <2>1, QuietKeepsOwners DEF Statement, accounts
  <2>2. CASE ~Referred(t, d) /\ t = "devices"
    <3>1. /\ \A r \in rows : d \notin Parties(r)
          /\ \A x \in sessions \cup challenges : x.device # d
      BY <2>2 DEF Referred
    <3>2. devices' = devices \ {d} /\ users' = users
      BY <2>2 DEF Statement
    <3> QED BY <1>1, <3>1, <3>2 DEF IInv, LeftoversHaveOwners, Quiet
  <2>3. CASE ~Referred(t, d) /\ t = "users"
    <3>1. d \notin devices
      BY <2>3 DEF Referred
    <3>2. devices' = devices /\ users' = {u \in users : u.id # d}
      BY <2>3 DEF Statement
    <3> QED BY <1>1, <3>1, <3>2 DEF IInv, LeftoversHaveOwners, Quiet
  <2>4. CASE ~Referred(t, d) /\ t \notin {"devices", "users"}
    BY <1>1, <2>4, QuietKeepsOwners DEF Statement
  <2> QED BY <2>1, <2>2, <2>3, <2>4
<1> QED BY <1>1, <1>2, QuietKeepsHistory, QuietKeepsTaken DEF Rest

LEMMA NextInvariant == IInv /\ [Next]_vars => IInv'
<1> SUFFICES ASSUME IInv, [Next]_vars PROVE IInv'
  OBVIOUS
<1>1. CASE UNCHANGED vars
  BY <1>1 DEF vars, accounts, auth, clients, IInv, TypeOK, Free, ChallengeComparedOnce,
     Untried, Taken, SessionsAreSigned, LeftoversHaveOwners
<1>2. CASE Next
  <2>1. ASSUME NEW name \in Names, NEW id \in Ids, Register(name, id) PROVE Rest'
    <3>1. Quiet /\ holder' = holder
      BY <2>1 DEF Register, Quiet, auth, clients
    <3>2. /\ devices' = devices \cup {id}
          /\ users' = users \cup {[name |-> name, id |-> id]}
          /\ UNCHANGED <<rows, challenges, sessions>>
      BY <2>1 DEF Register, auth
    <3>3. \A d \in devices' : \E u \in users' : u.id = d
      <4>1. [name |-> name, id |-> id].id = id
        OBVIOUS
      <4> QED BY <3>2, <4>1, Zenon DEF IInv, LeftoversHaveOwners
    <3>4. LeftoversHaveOwners'
      BY <3>2, <3>3 DEF IInv, LeftoversHaveOwners
    <3> QED BY <3>1, <3>4, QuietKeepsHistory, QuietKeepsTaken DEF Rest
  <2>2. ASSUME NEW s \in sessions, RequireAuth(s) PROVE Rest'
    BY <2>2, QuietStep DEF RequireAuth, Quiet, accounts
  <2>3. ASSUME NEW q \in requests, NEW r \in Row, Post(q, r) PROVE Rest'
    <3>1. /\ \A x \in rows' : x \in rows \/ Parties(x) \subseteq devices
          /\ UNCHANGED <<users, devices, challenges, sessions, compared, holder,
                         signatures, nonces>>
      BY <2>3 DEF Post, Insertable, accounts, auth
    <3>2. LeftoversHaveOwners'
      BY <3>1 DEF IInv, LeftoversHaveOwners
    <3> QED BY <3>1, <3>2 DEF IInv, Rest, ChallengeComparedOnce, Untried, Taken,
               SessionsAreSigned
  <2>4. ASSUME NEW q \in requests, Logout(q) PROVE Rest'
    BY <2>4, QuietStep DEF Logout, Quiet, accounts
  <2>5. ASSUME NEW u \in users, Delete(u) PROVE Rest'
    BY <2>5, QuietStep DEF Delete, Quiet, accounts, auth, clients
  <2>6. ASSUME Sweep PROVE Rest'
    BY <2>6, QuietStep DEF Sweep, Quiet, accounts, clients
  <2>7. ASSUME Crash PROVE Rest'
    BY <2>7, QuietStep DEF Crash, Quiet, Idle, accounts
  <2>8. ASSUME Tick PROVE Rest'
    BY <2>8, QuietStep DEF Tick, Quiet, accounts, auth, clients
  <2>9. Rest'
    BY <1>2, <2>1, <2>2, <2>3, <2>4, <2>5, <2>6, <2>7, <2>8, IssueChallengeStep,
       TakeChallengeStep, VerifyStep, StatementStep DEF Next
  <2> QED BY <1>2, <2>9, TypeStep DEF IInv, Rest
<1> QED BY <1>1, <1>2

THEOREM Invariance == Spec => []IInv
BY InitInvariant, NextInvariant, PTL DEF Spec

\* The variables keep their types.
THEOREM TypeCorrect == Spec => []TypeOK
<1>1. IInv => TypeOK
  BY DEF IInv
<1> QED BY <1>1, Invariance, PTL

\* A challenge meets one signature, whatever crashes and however often a
\* signature comes.
THEOREM ChallengesMeetOneSignature == Spec => []ChallengeComparedOnce
<1>1. IInv => ChallengeComparedOnce
  BY DEF IInv
<1> QED BY <1>1, Invariance, PTL

\* A session was signed for by its device, over its own challenge.
THEOREM SessionsStandForSignatures == Spec => []SessionsAreSigned
<1>1. IInv => SessionsAreSigned
  BY DEF IInv
<1> QED BY <1>1, Invariance, PTL

\* What a deletion that was cut short leaves belongs to an account that can be
\* deleted again.
THEOREM LeftoversBelongToAccounts == Spec => []LeftoversHaveOwners
<1>1. IInv => LeftoversHaveOwners
  BY DEF IInv
<1> QED BY <1>1, Invariance, PTL
=============================================================================
