----------------------------- MODULE AdminProofs -----------------------------
(* Theorems about accounts and sessions, application deployment and the      *)
(* application supervisor, and the type correctness of every component that  *)
(* the administrator works with.                                             *)
EXTENDS MC_Operations, OperationsProofs

-----------------------------------------------------------------------------
(* Accounts: definitions *)

\* Every session that memory, the file or a write under way holds.
Known == sessions \cup sessFile \cup UNION sessSaving

\* A user of U owns the session and has the password it was opened with.
Matches(U, s) == \E n \in DOMAIN U : U[n].id = s.id /\ U[n].pw = s.pw

\* Users of U have distinct IDs, and values among the first d drawn.
TableOK(U, d) ==
  /\ DOMAIN U \in SUBSET Names /\ U \in [DOMAIN U -> User]
  /\ \A n, m \in DOMAIN U : U[n].id = U[m].id => n = m
  /\ \A n \in DOMAIN U : U[n].id <= d /\ U[n].pw <= d

UsersOK == TableOK(users, drawn) /\ TableOK(usersFile, drawn)

\* A token names one session, made of values that were drawn before.
SessionsOK ==
  /\ Known \subseteq Session
  /\ \A s \in Known : s.token <= drawn /\ s.id <= drawn /\ s.pw <= drawn
  /\ \A s, t \in Known : s.token = t.token => s = t

\* A barred token is of no use with the users in memory, nor with those that
\* a restart would read.
BarredIsOut ==
  \A s \in Known : s.token \in barred => ~Matches(users, s) /\ ~Matches(usersFile, s)

OfUser(S, i) == {s \in S : s.id = i}
Bounded(S)   == IsFiniteSet(S) /\ \A i \in Values : Cardinality(OfUser(S, i)) <= MaxSessions
SetsBounded  == Bounded(sessions) /\ Bounded(sessFile) /\ \A S \in sessSaving : Bounded(S)

\* sessionsPersistMu: one snapshot and one writer at a time.
ClientStates == {IdlePC, SavePC} \cup Checking \cup [pc : {"write"}, out : sessSaving]
WritesOK ==
  /\ client \in [Clients -> ClientStates]
  /\ sessSaving = {} \/ \E S \in sessSaving : sessSaving = {S}
  /\ \A c, d \in Clients : client[c].pc = "write" /\ client[d].pc = "write" => c = d

ScalarsOK ==
  /\ sessDirty \in BOOLEAN /\ revoking \in 0..MaxFresh /\ drawn \in 0..MaxFresh
  /\ restarts \in 0..MaxRestarts /\ barred \subseteq 1..drawn

\* The inductive invariant of the accounts.
AccountsInv == UsersOK /\ SessionsOK /\ BarredIsOut /\ SetsBounded /\ WritesOK /\ ScalarsOK

-----------------------------------------------------------------------------
(* Accounts: lemmas *)

\* What the assumption says of the bounds.
LEMMA AccountsBounds ==
  MaxSessions \in Nat /\ MaxSessions >= 1 /\ MaxFresh \in Nat /\ MaxRestarts \in Nat
  BY AccountsAssumption DEF AccountsAssumption

\* A subset of a bounded set of sessions is bounded.
LEMMA BoundedSubset ==
  ASSUME NEW S, NEW T, Bounded(S), T \subseteq S
  PROVE  Bounded(T)
<1>1. IsFiniteSet(S) /\ IsFiniteSet(T)
  BY FS_Subset DEF Bounded
<1> SUFFICES ASSUME NEW i \in Values PROVE Cardinality(OfUser(T, i)) <= MaxSessions
  BY <1>1 DEF Bounded
<1>2. OfUser(T, i) \subseteq OfUser(S, i) /\ OfUser(S, i) \subseteq S
  BY DEF OfUser
<1>3. IsFiniteSet(OfUser(S, i))
  BY <1>1, <1>2, FS_Subset
<1>4. /\ Cardinality(OfUser(T, i)) <= Cardinality(OfUser(S, i))
      /\ Cardinality(OfUser(T, i)) \in Nat /\ Cardinality(OfUser(S, i)) \in Nat
  BY <1>2, <1>3, FS_Subset, FS_CardinalityType
<1>5. Cardinality(OfUser(S, i)) <= MaxSessions
  BY DEF Bounded
<1> QED
  BY <1>4, <1>5, AccountsBounds

\* evictOldestSessionsLocked leaves a user no more than the sessions allowed:
\* all but the oldest of those left are newer than it.
LEMMA EvictBounds ==
  ASSUME NEW S \in SUBSET Session, IsFiniteSet(S), NEW i,
         \A s, t \in S : s.token = t.token => s = t
  PROVE  Cardinality(OfUser(Evict(S, i), i)) <= MaxSessions
<1> DEFINE T == OfUser(Evict(S, i), i)
<1>1. T \subseteq S /\ Evict(S, i) \subseteq S
  BY DEF OfUser, Evict
<1>2. IsFiniteSet(T) /\ Cardinality(T) \in Nat
  BY <1>1, FS_Subset, FS_CardinalityType
<1>3. CASE T = {}
  <2>1. Cardinality(T) = 0
    BY <1>3, FS_EmptySet
  <2> QED
    BY <2>1, AccountsBounds
<1>4. CASE T # {}
  <2>1. Tokens(T) \in SUBSET Nat /\ Tokens(T) # {}
    BY <1>1, <1>4, AccountsBounds DEF Tokens, Session, Values
  <2>2. PICK k \in Tokens(T) : \A j \in Tokens(T) : k <= j
    BY <2>1, LeastExists
  <2>3. PICK m \in T : m.token = k
    BY <2>2 DEF Tokens
  <2> DEFINE W == {o \in S : o.id = i /\ o.token > m.token}
  <2>4. m \in S /\ Cardinality(W) < MaxSessions
    BY <2>3 DEF OfUser, Evict
  <2>5. T \ {m} \subseteq W
    <3> SUFFICES ASSUME NEW s \in T, s # m PROVE s \in W
      OBVIOUS
    <3>1. s \in S /\ s.id = i /\ m \in S
      BY <2>4 DEF OfUser, Evict
    <3>2. s.token # m.token
      BY <3>1
    <3>3. k <= s.token
      BY <2>2 DEF Tokens
    <3>4. s.token \in Nat /\ m.token \in Nat
      BY <3>1, AccountsBounds DEF Session, Values
    <3> QED
      BY <2>3, <3>1, <3>2, <3>3, <3>4
  <2>6. IsFiniteSet(W) /\ Cardinality(W) \in Nat
    <3>1. W \subseteq S
      OBVIOUS
    <3> QED
      BY <3>1, FS_Subset, FS_CardinalityType
  <2>7. Cardinality(T \ {m}) <= Cardinality(W)
    BY <2>5, <2>6, FS_Subset
  <2>8. Cardinality(T \ {m}) = Cardinality(T) - 1
    BY <1>2, <2>3, FS_RemoveElement
  <2> HIDE DEF T, W
  <2>9. Cardinality(T) - 1 < MaxSessions
    BY <1>2, <2>4, <2>6, <2>7, <2>8, AccountsBounds
  <2>10. Cardinality(T) <= MaxSessions
    BY <1>2, <2>9, AccountsBounds
  <2> QED
    BY <2>10 DEF T
<1> QED
  BY <1>3, <1>4

\* No session is added and drawing goes on: the sessions stay in order.
LEMMA KnownKept ==
  ASSUME SessionsOK, ScalarsOK, Known' \subseteq Known, drawn' \in 0..MaxFresh, drawn <= drawn'
  PROVE  SessionsOK'
<1>1. drawn \in Nat /\ drawn' \in Nat
  BY AccountsBounds DEF ScalarsOK
<1>2. \A s \in Known' : s.token \in Nat /\ s.id \in Nat /\ s.pw \in Nat
  BY AccountsBounds DEF SessionsOK, Session, Values
<1> QED
  BY <1>1, <1>2 DEF SessionsOK

\* What users.json or memory had is in order however far drawing went.
LEMMA TableKept ==
  ASSUME NEW U, NEW d \in 0..MaxFresh, NEW e \in 0..MaxFresh, TableOK(U, d), d <= e
  PROVE  TableOK(U, e)
<1>1. d \in Nat /\ e \in Nat
  BY AccountsBounds
<1>2. \A n \in DOMAIN U : U[n].id \in Nat /\ U[n].pw \in Nat
  BY AccountsBounds DEF TableOK, User, Values
<1> QED
  BY <1>1, <1>2 DEF TableOK

\* A new password keeps a table in order.
LEMMA TableNewPassword ==
  ASSUME NEW U, NEW d \in 0..MaxFresh, d < MaxFresh, TableOK(U, d), NEW n \in DOMAIN U
  PROVE  TableOK([U EXCEPT ![n].pw = d + 1], d + 1)
<1> DEFINE V == [U EXCEPT ![n].pw = d + 1]
<1>1. d \in Nat /\ d + 1 \in 0..MaxFresh /\ d + 1 \in Values
  BY AccountsBounds DEF Values
<1>2. TableOK(U, d + 1)
  BY <1>1, TableKept
<1>3. DOMAIN V = DOMAIN U /\ V \in [DOMAIN U -> User]
      /\ \A m \in DOMAIN U : V[m].id = U[m].id /\ (V[m].pw = U[m].pw \/ V[m].pw = d + 1)
  BY <1>1, <1>2 DEF TableOK, User
<1> HIDE DEF V
<1>4. TableOK(V, d + 1)
  BY <1>1, <1>2, <1>3 DEF TableOK
<1> QED
  BY <1>4 DEF V

\* So does enabling or disabling an account.
LEMMA TableEnabled ==
  ASSUME NEW U, NEW d, TableOK(U, d), NEW n \in DOMAIN U, NEW on \in BOOLEAN
  PROVE  TableOK([U EXCEPT ![n].on = on], d)
<1> DEFINE V == [U EXCEPT ![n].on = on]
<1>1. DOMAIN V = DOMAIN U /\ V \in [DOMAIN U -> User]
      /\ \A m \in DOMAIN U : V[m].id = U[m].id /\ V[m].pw = U[m].pw
  BY DEF TableOK, User
<1> HIDE DEF V
<1>2. TableOK(V, d)
  BY <1>1 DEF TableOK
<1> QED
  BY <1>2 DEF V

\* So do a new user, with an ID just drawn, and one user less.
LEMMA TableWith ==
  ASSUME NEW U, NEW d \in 0..MaxFresh, d < MaxFresh, TableOK(U, d), NEW n \in Names
  PROVE  TableOK(With(U, n, [id |-> d + 1, pw |-> d + 1, on |-> TRUE]), d + 1)
<1> DEFINE x == [id |-> d + 1, pw |-> d + 1, on |-> TRUE]
           V == With(U, n, x)
<1>1. d \in Nat /\ d + 1 \in 0..MaxFresh /\ d + 1 \in Values
  BY AccountsBounds DEF Values
<1>2. TableOK(U, d + 1)
  BY <1>1, TableKept
<1>3. x \in User /\ x.id = d + 1 /\ x.pw = d + 1
  BY <1>1 DEF User
<1> HIDE DEF x
<1>4. /\ DOMAIN V = DOMAIN U \cup {n} /\ V = [m \in DOMAIN V |-> V[m]] /\ V[n] = x
      /\ \A m \in DOMAIN U : m # n => V[m] = U[m]
  BY DEF With
<1> HIDE DEF V
<1>5. \A m \in DOMAIN V : V[m] \in User
  BY <1>2, <1>3, <1>4 DEF TableOK
<1>6. V \in [DOMAIN V -> User] /\ DOMAIN V \in SUBSET Names
  BY <1>2, <1>4, <1>5 DEF TableOK
<1>7. \A m \in DOMAIN U : U[m].id # d + 1
  BY <1>1 DEF TableOK, User, Values
<1>8. \A m, k \in DOMAIN V : V[m].id = V[k].id => m = k
  BY <1>2, <1>3, <1>4, <1>7 DEF TableOK
<1>9. \A m \in DOMAIN V : V[m].id <= d + 1 /\ V[m].pw <= d + 1
  BY <1>1, <1>2, <1>3, <1>4 DEF TableOK
<1>10. TableOK(V, d + 1)
  BY <1>6, <1>8, <1>9 DEF TableOK
<1> QED
  BY <1>10 DEF V, x

\* The same for a user less.
LEMMA TableWithout ==
  ASSUME NEW U, NEW d, TableOK(U, d), NEW n
  PROVE  TableOK(Without(U, n), d)
<1> DEFINE V == Without(U, n)
<1>1. /\ DOMAIN V = DOMAIN U \ {n} /\ V = [m \in DOMAIN V |-> V[m]]
      /\ \A m \in DOMAIN V : V[m] = U[m]
  BY DEF Without
<1> HIDE DEF V
<1>2. V \in [DOMAIN V -> User] /\ DOMAIN V \in SUBSET Names
  BY <1>1 DEF TableOK
<1>3. TableOK(V, d)
  BY <1>1, <1>2 DEF TableOK
<1> QED
  BY <1>3 DEF V

\* No session appears, no token is barred and no password comes back: barred
\* tokens stay out.
LEMMA BarredKept ==
  ASSUME BarredIsOut, Known' \subseteq Known, barred' = barred,
         \A s \in Known : Matches(users', s) => Matches(users, s) \/ Matches(usersFile, s),
         \A s \in Known : Matches(usersFile', s) => Matches(users, s) \/ Matches(usersFile, s)
  PROVE  BarredIsOut'
  BY DEF BarredIsOut

\* The part of the invariant that a change of users does not touch.
LEMMA UsersStep ==
  ASSUME AccountsInv, UNCHANGED <<sessions, sessFile, sessDirty, sessSaving, restarts>>,
         WritesOK', drawn' \in 0..MaxFresh, drawn <= drawn', revoking' \in 0..MaxFresh,
         barred' \subseteq 1..drawn', TableOK(users', drawn'), TableOK(usersFile', drawn'), BarredIsOut'
  PROVE  AccountsInv'
<1>1. Known' = Known
  BY DEF Known
<1>2. SessionsOK'
  BY <1>1, KnownKept DEF AccountsInv
<1>3. SetsBounded' /\ ScalarsOK'
  BY DEF AccountsInv, SetsBounded, ScalarsOK
<1>4. UsersOK'
  BY DEF UsersOK
<1> QED
  BY <1>2, <1>3, <1>4 DEF AccountsInv

\* Revoking the sessions of user i, whose password or account is gone from
\* memory: if users.json was written, their tokens are out for good.
LEMMA RevokedOut ==
  ASSUME AccountsInv, UNCHANGED <<sessions, sessFile, sessSaving>>,
         NEW i, NEW saved \in BOOLEAN,
         barred' = IF saved THEN barred \cup Tokens(OwnedBy(i)) ELSE barred,
         usersFile' = IF saved THEN users' ELSE usersFile,
         \A s \in Known : Matches(users', s) => Matches(users, s),
         \A s \in Known : s.id = i => ~Matches(users', s)
  PROVE  BarredIsOut'
<1>1. Known' = Known
  BY DEF Known
<1>2. CASE ~saved
  BY <1>1, <1>2 DEF BarredIsOut, AccountsInv
<1>3. CASE saved
  <2> SUFFICES ASSUME NEW s \in Known, s.token \in barred' PROVE ~Matches(users', s)
    BY <1>1, <1>3 DEF BarredIsOut
  <2>1. CASE s.token \in barred
    BY <2>1 DEF BarredIsOut, AccountsInv
  <2>2. CASE s.token \in Tokens(OwnedBy(i))
    <3>1. PICK t \in OwnedBy(i) : t.token = s.token
      BY <2>2 DEF Tokens
    <3>2. t \in Known /\ t.id = i
      BY DEF OwnedBy, Known
    <3>3. s = t
      BY <3>1, <3>2 DEF AccountsInv, SessionsOK
    <3> QED
      BY <3>2, <3>3
  <2> QED
    BY <1>3, <2>1, <2>2
<1> QED
  BY <1>2, <1>3

\* Values of the step, in the form the provers use.
LEMMA AccountsFacts ==
  ASSUME AccountsInv
  PROVE  /\ drawn \in 0..MaxFresh /\ drawn \in Nat /\ drawn <= drawn
         /\ TableOK(users, drawn) /\ TableOK(usersFile, drawn)
         /\ \A n \in DOMAIN users : users[n] \in User /\ users[n].id \in Values /\ users[n].id \in 0..MaxFresh
         /\ \A s \in Known : /\ s \in Session /\ s.token \in Nat /\ s.id \in Nat /\ s.pw \in Nat
                             /\ s.token <= drawn /\ s.id <= drawn /\ s.pw <= drawn
         /\ barred \subseteq 1..drawn /\ revoking \in 0..MaxFresh
<1>1. drawn \in 0..MaxFresh /\ barred \subseteq 1..drawn /\ revoking \in 0..MaxFresh
  BY DEF AccountsInv, ScalarsOK
<1>2. TableOK(users, drawn) /\ TableOK(usersFile, drawn)
  BY DEF AccountsInv, UsersOK
<1>3. \A n \in DOMAIN users : users[n] \in User
  BY <1>2 DEF TableOK
<1>4. \A n \in DOMAIN users : users[n].id \in Values /\ users[n].id \in 0..MaxFresh
  BY <1>3, AccountsBounds DEF User, Values
<1>5. \A s \in Known : s \in Session /\ s.token <= drawn /\ s.id <= drawn /\ s.pw <= drawn
  BY DEF AccountsInv, SessionsOK
<1>6. \A s \in Known : s.token \in Nat /\ s.id \in Nat /\ s.pw \in Nat
  BY <1>5, AccountsBounds DEF Session, Values
<1> QED
  BY <1>1, <1>2, <1>3, <1>4, <1>5, <1>6, AccountsBounds

\* Tokens barred after a revocation were drawn.
LEMMA RevokedDrawn ==
  ASSUME AccountsInv, NEW i, NEW e \in Nat, drawn <= e
  PROVE  barred \cup Tokens(OwnedBy(i)) \subseteq 1..e /\ barred \subseteq 1..e
<1>1. drawn \in Nat /\ barred \subseteq 1..drawn
  BY AccountsFacts
<1>2. \A s \in OwnedBy(i) : s.token \in 1..drawn
  <2> SUFFICES ASSUME NEW s \in OwnedBy(i) PROVE s.token \in 1..drawn
    OBVIOUS
  <2>1. s \in Known
    BY DEF OwnedBy, Known
  <2>2. s \in Session /\ s.token <= drawn
    BY <2>1 DEF AccountsInv, SessionsOK
  <2> QED
    BY <1>1, <2>2, AccountsBounds DEF Session, Values
<1>3. 1..drawn \subseteq 1..e
  BY <1>1
<1> QED
  BY <1>1, <1>2, <1>3 DEF Tokens

-----------------------------------------------------------------------------
(* Accounts: steps *)

\* A client that is not writing turns to something else.
LEMMA ClientMoves ==
  ASSUME WritesOK, NEW c \in Clients, NEW x \in {IdlePC, SavePC} \cup Checking,
         client' = [client EXCEPT ![c] = x], sessSaving' = sessSaving
  PROVE  WritesOK'
<1>1. client \in [Clients -> ClientStates] /\ ClientStates' = ClientStates
  BY DEF WritesOK, ClientStates
<1>2. x \in ClientStates /\ x.pc # "write"
  BY DEF ClientStates, IdlePC, SavePC, Checking
<1>3. client' \in [Clients -> ClientStates'] /\ client'[c] = x
      /\ \A d \in Clients : d # c => client'[d] = client[d]
  BY <1>1, <1>2
<1>4. \A d, e \in Clients : client'[d].pc = "write" /\ client'[e].pc = "write" => d = e
  BY <1>2, <1>3 DEF WritesOK
<1> QED
  BY <1>3, <1>4 DEF WritesOK

\* A new password keeps the invariant, whoever sets it.
LEMMA SetPasswordInv ==
  ASSUME AccountsInv, NEW n \in DOMAIN users, SetPassword(n), WritesOK',
         UNCHANGED <<sessions, sessFile, sessDirty, sessSaving, restarts>>
  PROVE  AccountsInv'
<1>1. /\ drawn \in 0..MaxFresh /\ drawn \in Nat /\ TableOK(users, drawn) /\ TableOK(usersFile, drawn)
      /\ \A s \in Known : s.pw \in Nat /\ s.pw <= drawn
      /\ users[n].id \in 0..MaxFresh
  BY AccountsFacts
<1>2. PICK saved \in BOOLEAN : SaveUsers(saved) /\ StartRevoke(users[n].id, saved)
  BY DEF SetPassword
<1>3. drawn < MaxFresh /\ drawn' = drawn + 1 /\ users' = [users EXCEPT ![n].pw = drawn + 1]
  BY DEF SetPassword, Draw, Fresh
<1>4. drawn' \in 0..MaxFresh /\ drawn' \in Nat /\ drawn <= drawn'
  BY <1>1, <1>3, AccountsBounds
<1>5. TableOK(users', drawn') /\ TableOK(usersFile, drawn')
  BY <1>1, <1>3, <1>4, TableNewPassword, TableKept
<1>6. usersFile' = (IF saved THEN users' ELSE usersFile)
  BY <1>2 DEF SaveUsers
<1>7. TableOK(usersFile', drawn')
  BY <1>5, <1>6
<1>8. barred' = (IF saved THEN barred \cup Tokens(OwnedBy(users[n].id)) ELSE barred)
  BY <1>2 DEF StartRevoke
<1>9. revoking' \in 0..MaxFresh
  <2>1. 0 \in 0..MaxFresh
    BY AccountsBounds
  <2> QED
    BY <1>1, <1>2, <2>1 DEF StartRevoke, NoOne
<1>10. barred' \subseteq 1..drawn'
  BY <1>4, <1>8, RevokedDrawn
<1>11. /\ DOMAIN users' = DOMAIN users /\ users'[n].pw = drawn + 1
       /\ \A m \in DOMAIN users : users'[m].id = users[m].id /\ (m # n => users'[m] = users[m])
  BY <1>1, <1>3 DEF TableOK, User
<1>12. ASSUME NEW s \in Known, Matches(users', s)
       PROVE  Matches(users, s) /\ s.id # users[n].id
  <2>1. PICK m \in DOMAIN users : users'[m].id = s.id /\ users'[m].pw = s.pw
    BY <1>11, <1>12 DEF Matches
  <2>2. s.pw # drawn + 1
    BY <1>1
  <2>3. m # n
    BY <1>11, <2>1, <2>2
  <2> QED
    BY <1>1, <1>11, <2>1, <2>3 DEF Matches, TableOK
<1>13. BarredIsOut'
  BY <1>6, <1>8, <1>12, RevokedOut
<1> QED
  BY <1>4, <1>5, <1>7, <1>9, <1>10, <1>13, UsersStep

\* A step on users keeps the invariant.
LEMMA UserStepInv ==
  ASSUME AccountsInv, NEW n \in Names,
         \/ CreateFirstAdmin(n) \/ CreateUser(n) \/ ResetPassword(n) \/ DeleteUser(n)
         \/ \E on \in BOOLEAN : SetEnabled(n, on)
  PROVE  AccountsInv'
<1>1. /\ drawn \in 0..MaxFresh /\ drawn \in Nat /\ TableOK(users, drawn) /\ TableOK(usersFile, drawn)
      /\ \A m \in DOMAIN users : users[m].id \in 0..MaxFresh
      /\ \A s \in Known : s.id \in Nat /\ s.id <= drawn
      /\ drawn <= drawn /\ barred \subseteq 1..drawn /\ revoking \in 0..MaxFresh
  BY AccountsFacts
<1>2. 0 \in 0..MaxFresh
  BY AccountsBounds
<1>3. ASSUME UNCHANGED <<client, sessSaving>> PROVE WritesOK'
  BY <1>3 DEF AccountsInv, WritesOK, ClientStates
<1>4. CASE CreateUser(n)
  <2>1. /\ n \notin DOMAIN users /\ drawn < MaxFresh /\ drawn' = drawn + 1
        /\ UNCHANGED <<sessions, sessFile, sessDirty, client, sessSaving, revoking, restarts, barred>>
    BY <1>4 DEF CreateUser, Draw, Fresh, sessionVars, lockVars
  <2>2. drawn' \in 0..MaxFresh /\ drawn <= drawn' /\ drawn' \in Nat
    BY <1>1, <2>1, AccountsBounds
  <2>3. barred' \subseteq 1..drawn'
    BY <2>1, <2>2, RevokedDrawn
  <2>4. TableOK(users, drawn') /\ TableOK(usersFile, drawn')
    BY <1>1, <2>2, TableKept
  <2>5. CASE UNCHANGED userVars
    <3>1. UNCHANGED <<users, usersFile>>
      BY <2>5 DEF userVars
    <3>2. BarredIsOut'
      BY <2>1, <3>1 DEF BarredIsOut, Known, AccountsInv
    <3> QED
      BY <1>1, <1>3, <2>1, <2>2, <2>3, <2>4, <3>1, <3>2, UsersStep
  <2>6. CASE users' = With(users, n, [id |-> drawn + 1, pw |-> drawn + 1, on |-> TRUE]) /\ usersFile' = users'
    <3>1. TableOK(users', drawn')
      BY <1>1, <2>1, <2>6, TableWith
    <3>2. /\ DOMAIN users' = DOMAIN users \cup {n} /\ users'[n].id = drawn + 1
          /\ \A m \in DOMAIN users : m # n => users'[m] = users[m]
      BY <2>6 DEF With
    <3>3. \A s \in Known : Matches(users', s) => Matches(users, s)
      BY <1>1, <2>1, <3>2 DEF Matches
    <3>4. Known' = Known
      BY <2>1 DEF Known
    <3>5. BarredIsOut'
      BY <2>1, <2>6, <3>3, <3>4, BarredKept DEF AccountsInv
    <3> QED
      BY <1>1, <1>3, <2>1, <2>2, <2>3, <2>6, <3>1, <3>5, UsersStep
  <2> QED
    BY <1>4, <2>5, <2>6 DEF CreateUser, SaveUsers, Fresh
<1>5. CASE ResetPassword(n)
  <2>1. /\ n \in DOMAIN users /\ SetPassword(n)
        /\ UNCHANGED <<sessions, sessFile, sessDirty, client, sessSaving, restarts>>
    BY <1>5 DEF ResetPassword, sessionVars
  <2> QED
    BY <1>3, <2>1, SetPasswordInv
<1>6. CASE DeleteUser(n)
  <2>1. /\ n \in DOMAIN users /\ users' = Without(users, n)
        /\ UNCHANGED <<sessions, sessFile, sessDirty, client, sessSaving, drawn, restarts>>
    BY <1>6 DEF DeleteUser, sessionVars
  <2>2. PICK saved \in BOOLEAN : SaveUsers(saved) /\ StartRevoke(users[n].id, saved)
    BY <1>6 DEF DeleteUser
  <2>3. /\ usersFile' = (IF saved THEN users' ELSE usersFile)
        /\ barred' = (IF saved THEN barred \cup Tokens(OwnedBy(users[n].id)) ELSE barred)
        /\ revoking' = 0 \/ revoking' = users[n].id
    BY <2>2 DEF SaveUsers, StartRevoke, NoOne
  <2>4. revoking' \in 0..MaxFresh
    BY <1>1, <1>2, <2>1, <2>3
  <2>5. TableOK(users', drawn)
    BY <1>1, <2>1, TableWithout
  <2>6. TableOK(usersFile', drawn)
    BY <1>1, <2>3, <2>5
  <2>7. barred' \subseteq 1..drawn
    BY <1>1, <2>3, RevokedDrawn
  <2>8. DOMAIN users' = DOMAIN users \ {n} /\ \A m \in DOMAIN users' : users'[m] = users[m]
    BY <2>1 DEF Without
  <2>9. \A s \in Known : Matches(users', s) => Matches(users, s) /\ s.id # users[n].id
    BY <1>1, <2>1, <2>8 DEF Matches, TableOK
  <2>10. BarredIsOut'
    BY <2>1, <2>3, <2>9, RevokedOut
  <2>11. drawn' = drawn
    BY <2>1
  <2> QED
    BY <1>1, <1>3, <2>1, <2>4, <2>5, <2>6, <2>7, <2>10, <2>11, UsersStep
<1>7. ASSUME NEW on \in BOOLEAN, SetEnabled(n, on) PROVE AccountsInv'
  <2>1. /\ n \in DOMAIN users /\ users' = [users EXCEPT ![n].on = on]
        /\ UNCHANGED <<sessions, sessFile, sessDirty, client, sessSaving, drawn, restarts, barred>>
        /\ revoking' = 0 \/ revoking' = users[n].id
    BY <1>7 DEF SetEnabled, sessionVars, NoOne
  <2>2. PICK saved \in BOOLEAN : SaveUsers(saved)
    BY <1>7 DEF SetEnabled
  <2>3. usersFile' = users' \/ usersFile' = usersFile
    BY <2>2 DEF SaveUsers
  <2>4. revoking' \in 0..MaxFresh
    BY <1>1, <1>2, <2>1
  <2>5. TableOK(users', drawn)
    BY <1>1, <2>1, TableEnabled
  <2>6. TableOK(usersFile', drawn)
    BY <1>1, <2>3, <2>5
  <2>7. /\ DOMAIN users' = DOMAIN users
        /\ \A m \in DOMAIN users : users'[m].id = users[m].id /\ users'[m].pw = users[m].pw
    BY <1>1, <2>1 DEF TableOK, User
  <2>8. \A s \in Known : Matches(users', s) => Matches(users, s)
    BY <2>7 DEF Matches
  <2>9. Known' = Known
    BY <2>1 DEF Known
  <2>10. BarredIsOut'
    BY <2>1, <2>3, <2>8, <2>9, BarredKept DEF AccountsInv
  <2>11. drawn' = drawn /\ barred' = barred
    BY <2>1
  <2> QED
    BY <1>1, <1>3, <2>1, <2>4, <2>5, <2>6, <2>10, <2>11, UsersStep
<1> QED
  BY <1>4, <1>5, <1>6, <1>7 DEF CreateFirstAdmin

\* A step in which sessions are at most dropped, and users stay.
LEMMA SessionsDropped ==
  ASSUME AccountsInv, UNCHANGED <<users, usersFile, drawn>>, Known' \subseteq Known, barred' = barred,
         sessDirty' \in BOOLEAN, revoking' \in 0..MaxFresh, restarts' = restarts, WritesOK', SetsBounded'
  PROVE  AccountsInv'
<1>1. drawn \in 0..MaxFresh /\ drawn <= drawn /\ drawn' = drawn
  BY AccountsFacts
<1>2. SessionsOK' /\ BarredIsOut'
  BY <1>1, KnownKept, BarredKept DEF AccountsInv
<1>3. UsersOK' /\ ScalarsOK'
  BY DEF AccountsInv, UsersOK, ScalarsOK
<1> QED
  BY <1>2, <1>3 DEF AccountsInv

\* A login that ends keeps the invariant: its token is new.
LEMMA LoginInv ==
  ASSUME AccountsInv, NEW c \in Clients, LoginSucceeds(c)
  PROVE  AccountsInv'
<1> DEFINE u == client[c].user
           x == [token |-> drawn + 1, id |-> u.id, pw |-> u.pw]
           S == sessions \cup {x}
<1>1. /\ client[c].pc = "login" /\ client[c].name \in DOMAIN users
      /\ users[client[c].name].id = u.id /\ users[client[c].name].pw = u.pw
      /\ drawn < MaxFresh /\ drawn' = drawn + 1
      /\ sessions' = Evict(S, u.id) /\ client' = [client EXCEPT ![c] = SavePC]
      /\ UNCHANGED <<users, usersFile, sessFile, sessDirty, sessSaving, revoking, restarts, barred>>
  BY DEF LoginSucceeds, SameAccount, Draw, Fresh, userVars, lockVars
<1>2. /\ drawn \in 0..MaxFresh /\ drawn \in Nat /\ TableOK(users, drawn) /\ TableOK(usersFile, drawn)
      /\ \A s \in Known : /\ s \in Session /\ s.token \in Nat /\ s.id \in Nat /\ s.pw \in Nat
                          /\ s.token <= drawn /\ s.id <= drawn /\ s.pw <= drawn
      /\ barred \subseteq 1..drawn
  BY AccountsFacts
<1>3. drawn' \in 0..MaxFresh /\ drawn' \in Nat /\ drawn <= drawn' /\ drawn + 1 \in Values
  BY <1>1, <1>2, AccountsBounds DEF Values
<1>4. u.id \in Values /\ u.pw \in Values /\ u.id <= drawn /\ u.pw <= drawn
  BY <1>1, <1>2 DEF TableOK, User
<1>5. x \in Session /\ x.token = drawn + 1 /\ x.id = u.id /\ x.pw = u.pw
  BY <1>3, <1>4 DEF Session
<1> HIDE DEF x
<1>6. S \subseteq Known \cup {x} /\ Evict(S, u.id) \subseteq S
  BY DEF Known, Evict
<1>7. Known' \subseteq Known \cup {x}
  BY <1>1, <1>6 DEF Known
<1>8. \A s, t \in Known \cup {x} : s.token = t.token => s = t
  BY <1>2, <1>5 DEF AccountsInv, SessionsOK
<1>9. SessionsOK'
  <2>1. Known' \subseteq Session /\ \A s, t \in Known' : s.token = t.token => s = t
    BY <1>2, <1>5, <1>7, <1>8
  <2>2. \A s \in Known' : s.token <= drawn' /\ s.id <= drawn' /\ s.pw <= drawn'
    <3> SUFFICES ASSUME NEW s \in Known' PROVE s.token <= drawn' /\ s.id <= drawn' /\ s.pw <= drawn'
      OBVIOUS
    <3>1. CASE s \in Known
      BY <1>1, <1>2, <3>1
    <3>2. CASE s = x
      <4>1. u.id \in Nat /\ u.pw \in Nat
        BY <1>4, AccountsBounds DEF Values
      <4> QED
        BY <1>1, <1>2, <1>4, <1>5, <3>2, <4>1
    <3> QED
      BY <1>7, <3>1, <3>2
  <2> QED
    BY <2>1, <2>2 DEF SessionsOK
<1>10. BarredIsOut'
  <2>1. x.token \notin barred
    BY <1>2, <1>5
  <2> QED
    BY <1>1, <1>7, <2>1 DEF BarredIsOut, AccountsInv
<1>11. Bounded(sessions')
  <2>1. IsFiniteSet(sessions) /\ \A i \in Values : Cardinality(OfUser(sessions, i)) <= MaxSessions
    BY DEF AccountsInv, SetsBounded, Bounded
  <2>2. IsFiniteSet(S) /\ S \in SUBSET Session
    BY <1>2, <1>5, <1>6, <2>1, FS_AddElement
  <2>3. \A s, t \in S : s.token = t.token => s = t
    BY <1>6, <1>8
  <2>4. IsFiniteSet(sessions')
    BY <1>1, <1>6, <2>2, FS_Subset
  <2> HIDE DEF S, u
  <2>5. Cardinality(OfUser(sessions', u.id)) <= MaxSessions
    BY <1>1, <2>2, <2>3, EvictBounds
  <2>6. ASSUME NEW i \in Values, i # u.id PROVE Cardinality(OfUser(sessions', i)) <= MaxSessions
    <3>1. OfUser(sessions', i) \subseteq OfUser(sessions, i) /\ OfUser(sessions, i) \subseteq sessions
      BY <1>1, <1>5, <1>6, <2>6 DEF OfUser, S
    <3>2. IsFiniteSet(OfUser(sessions, i))
      BY <2>1, <3>1, FS_Subset
    <3>3. /\ Cardinality(OfUser(sessions', i)) <= Cardinality(OfUser(sessions, i))
          /\ Cardinality(OfUser(sessions', i)) \in Nat /\ Cardinality(OfUser(sessions, i)) \in Nat
      BY <3>1, <3>2, FS_Subset, FS_CardinalityType
    <3>4. Cardinality(OfUser(sessions, i)) <= MaxSessions
      BY <2>1
    <3> QED
      BY <3>3, <3>4, AccountsBounds
  <2> QED
    BY <2>4, <2>5, <2>6 DEF Bounded
<1>12. SetsBounded'
  BY <1>1, <1>11 DEF AccountsInv, SetsBounded
<1>13. WritesOK'
  BY <1>1, ClientMoves DEF AccountsInv
<1>14. UsersOK'
  BY <1>1, <1>2, <1>3, TableKept DEF UsersOK
<1>15. ScalarsOK'
  <2>1. barred \subseteq 1..drawn'
    BY <1>3, RevokedDrawn
  <2> QED
    BY <1>1, <1>3, <2>1 DEF AccountsInv, ScalarsOK
<1> QED
  BY <1>9, <1>10, <1>12, <1>13, <1>14, <1>15 DEF AccountsInv

\* A write of sessions.json that ends keeps the invariant: what it bars is
\* neither in memory nor in the file, and no other write is under way.
LEMMA WriteSessionsInv ==
  ASSUME AccountsInv, NEW c \in Clients, WriteSessions(c)
  PROVE  AccountsInv'
<1> DEFINE out == client[c].out
<1>1. PICK saved \in BOOLEAN :
         /\ sessFile' = (IF saved THEN out ELSE sessFile) /\ sessDirty' = ~saved
         /\ barred' = IF saved THEN barred \cup ((1 .. drawn) \ Tokens(out \cup sessions)) ELSE barred
  BY DEF WriteSessions, WriteFile
<1>2. /\ client[c].pc = "write" /\ sessSaving' = sessSaving \ {out}
      /\ client' = [client EXCEPT ![c] = IdlePC]
      /\ UNCHANGED <<users, usersFile, sessions, revoking, drawn, restarts>>
  BY DEF WriteSessions, userVars
<1>3. client[c] \in ClientStates /\ client \in [Clients -> ClientStates]
  BY DEF AccountsInv, WritesOK
<1>4. out \in sessSaving
  BY <1>2, <1>3 DEF ClientStates, IdlePC, SavePC, Checking
<1>5. sessSaving = {out} /\ sessSaving' = {}
  BY <1>2, <1>4 DEF AccountsInv, WritesOK
<1>6. WritesOK'
  <2>1. \A d \in Clients : d # c => client[d].pc # "write"
    BY <1>2 DEF AccountsInv, WritesOK
  <2>2. \A d \in Clients : d # c => client[d] \in {IdlePC, SavePC} \cup Checking
    BY <1>3, <2>1 DEF ClientStates
  <2>3. \A d \in Clients : client'[d] \in {IdlePC, SavePC} \cup Checking
    BY <1>2, <1>3, <2>2
  <2>4. \A d \in Clients : client'[d].pc # "write"
    BY <2>3 DEF IdlePC, SavePC, Checking
  <2>5. client' \in [Clients -> ClientStates']
    BY <1>2, <1>3, <2>3 DEF ClientStates
  <2> QED
    BY <1>5, <2>4, <2>5 DEF WritesOK
<1>7. Known' \subseteq Known
  BY <1>1, <1>2, <1>4, <1>5 DEF Known
<1>8. drawn \in 0..MaxFresh /\ drawn <= drawn /\ drawn' = drawn /\ barred \subseteq 1..drawn
  BY <1>2, AccountsFacts
<1>9. SessionsOK'
  BY <1>7, <1>8, KnownKept DEF AccountsInv
<1>10. BarredIsOut'
  <2>1. CASE ~saved
    BY <1>1, <1>2, <1>7, <2>1 DEF BarredIsOut, AccountsInv
  <2>2. CASE saved
    <3>1. Known' = out \cup sessions
      BY <1>1, <1>2, <1>5, <2>2 DEF Known
    <3>2. \A s \in Known' : s.token \in Tokens(out \cup sessions)
      BY <3>1 DEF Tokens
    <3>3. \A s \in Known' : s.token \in barred' => s.token \in barred
      BY <1>1, <2>2, <3>2
    <3> QED
      BY <1>2, <1>7, <3>3 DEF BarredIsOut, AccountsInv
  <2> QED
    BY <2>1, <2>2
<1>11. SetsBounded'
  BY <1>1, <1>2, <1>4, <1>5 DEF AccountsInv, SetsBounded
<1>12. UsersOK'
  BY <1>2 DEF AccountsInv, UsersOK
<1>13. ScalarsOK'
  <2>1. sessDirty' \in BOOLEAN
    BY <1>1
  <2>2. barred' \subseteq 1..drawn
    BY <1>1, <1>8
  <2> QED
    BY <1>2, <2>1, <2>2 DEF AccountsInv, ScalarsOK
<1> QED
  BY <1>6, <1>9, <1>10, <1>11, <1>12, <1>13 DEF AccountsInv

\* Any other step of a client, and a refused session, keep the invariant.
LEMMA ClientStepInv ==
  ASSUME AccountsInv, NEW c \in Clients,
         \/ \E n \in Names, op \in {"login", "change"} : CheckStart(c, n, op)
         \/ CheckFails(c) \/ ChangePassword(c)
         \/ \E s \in sessions : Logout(c, s)
         \/ \E S \in SUBSET sessions : CleanupSessions(c, S)
         \/ SaveSessions(c)
  PROVE  AccountsInv'
<1>1. /\ \A n \in DOMAIN users : users[n] \in User
      /\ revoking \in 0..MaxFresh /\ sessDirty \in BOOLEAN
      /\ client \in [Clients -> ClientStates] /\ WritesOK /\ SetsBounded /\ Bounded(sessions)
  BY AccountsFacts DEF AccountsInv, ScalarsOK, WritesOK, SetsBounded
<1>2. IdlePC \in {IdlePC, SavePC} \cup Checking /\ SavePC \in {IdlePC, SavePC} \cup Checking
  OBVIOUS
<1>3. ASSUME NEW n \in Names, NEW op \in {"login", "change"}, CheckStart(c, n, op) PROVE AccountsInv'
  <2> DEFINE x == [pc |-> op, name |-> n, user |-> users[n]]
  <2>1. /\ n \in DOMAIN users /\ client' = [client EXCEPT ![c] = x]
        /\ UNCHANGED <<users, usersFile, sessions, sessFile, sessDirty, sessSaving, revoking,
                       drawn, restarts, barred>>
    BY <1>3 DEF CheckStart, userVars, sessionVars, lockVars
  <2>2. x \in {IdlePC, SavePC} \cup Checking
    BY <1>1, <2>1 DEF Checking
  <2> HIDE DEF x
  <2>3. WritesOK' /\ Known' = Known /\ SetsBounded'
    BY <1>1, <2>1, <2>2, ClientMoves DEF Known, SetsBounded
  <2> QED
    BY <1>1, <2>1, <2>3, SessionsDropped
<1>4. CASE CheckFails(c)
  <2>1. /\ client' = [client EXCEPT ![c] = IdlePC]
        /\ UNCHANGED <<users, usersFile, sessions, sessFile, sessDirty, sessSaving, revoking,
                       drawn, restarts, barred>>
    BY <1>4 DEF CheckFails, userVars, sessionVars, lockVars
  <2>2. WritesOK' /\ Known' = Known /\ SetsBounded'
    BY <1>1, <1>2, <2>1, ClientMoves DEF Known, SetsBounded
  <2> QED
    BY <1>1, <2>1, <2>2, SessionsDropped
<1>5. CASE ChangePassword(c)
  <2>1. /\ client[c].name \in DOMAIN users /\ SetPassword(client[c].name)
        /\ client' = [client EXCEPT ![c] = IdlePC]
        /\ UNCHANGED <<sessions, sessFile, sessDirty, sessSaving, restarts>>
    BY <1>5 DEF ChangePassword, SameAccount, sessionVars
  <2>2. WritesOK'
    BY <1>1, <1>2, <2>1, ClientMoves
  <2> QED
    BY <2>1, <2>2, SetPasswordInv
<1>6. ASSUME NEW S, sessions' = sessions \ S, client' = [client EXCEPT ![c] = SavePC],
             UNCHANGED <<users, usersFile, sessFile, sessDirty, sessSaving, revoking, drawn, restarts, barred>>
      PROVE  AccountsInv'
  <2>1. WritesOK' /\ Known' \subseteq Known
    BY <1>1, <1>2, <1>6, ClientMoves DEF Known
  <2>2. Bounded(sessions')
    BY <1>1, <1>6, BoundedSubset
  <2>3. SetsBounded'
    BY <1>1, <1>6, <2>2 DEF SetsBounded
  <2> QED
    BY <1>1, <1>6, <2>1, <2>3, SessionsDropped
<1>7. ASSUME NEW s \in sessions, Logout(c, s) PROVE AccountsInv'
  BY <1>6, <1>7 DEF Logout, userVars, lockVars
<1>8. ASSUME NEW S \in SUBSET sessions, CleanupSessions(c, S) PROVE AccountsInv'
  BY <1>6, <1>8 DEF CleanupSessions, userVars, lockVars
<1>9. CASE SaveSessions(c)
  <2> DEFINE x == [pc |-> "write", out |-> sessions]
  <2>1. /\ client[c].pc = "save" /\ sessSaving = {} /\ sessSaving' = {sessions}
        /\ client' = [client EXCEPT ![c] = x]
        /\ UNCHANGED <<users, usersFile, sessions, sessFile, sessDirty, revoking, drawn, restarts, barred>>
    BY <1>9 DEF SaveSessions, userVars, sessionVars
  <2>2. \A d \in Clients : client[d] \in {IdlePC, SavePC} \cup Checking
    BY <1>1, <2>1 DEF ClientStates
  <2>3. \A d \in Clients : client[d].pc # "write"
    BY <2>2 DEF IdlePC, SavePC, Checking
  <2>4. x \in ClientStates' /\ \A d \in Clients : client[d] \in ClientStates'
    BY <2>1, <2>2 DEF ClientStates
  <2> HIDE DEF x
  <2>5. client' \in [Clients -> ClientStates'] /\ \A d \in Clients : d # c => client'[d] = client[d]
    BY <1>1, <2>1, <2>4
  <2>6. WritesOK'
    BY <2>1, <2>3, <2>5 DEF WritesOK
  <2>7. Known' \subseteq Known /\ SetsBounded'
    BY <1>1, <2>1 DEF Known, SetsBounded
  <2> QED
    BY <1>1, <2>1, <2>6, <2>7, SessionsDropped
<1> QED
  BY <1>3, <1>4, <1>5, <1>7, <1>8, <1>9

\* A step of the accounts keeps the invariant.
LEMMA AccountsStepInv ==
  ASSUME AccountsInv, [AccountsNext]_accountVars
  PROVE  AccountsInv'
<1>1. /\ revoking \in 0..MaxFresh /\ sessDirty \in BOOLEAN /\ drawn \in 0..MaxFresh /\ drawn <= drawn
      /\ WritesOK /\ SetsBounded /\ Bounded(sessions) /\ Bounded(sessFile) /\ restarts \in 0..MaxRestarts
  BY AccountsFacts DEF AccountsInv, ScalarsOK, SetsBounded
<1>2. CASE UNCHANGED accountVars
  BY <1>2 DEF accountVars, userVars, sessionVars, lockVars, AccountsInv, UsersOK, SessionsOK,
     BarredIsOut, SetsBounded, WritesOK, ClientStates, ScalarsOK, Known
<1>3. ASSUME UNCHANGED <<client, sessSaving>> PROVE WritesOK'
  BY <1>1, <1>3 DEF WritesOK, ClientStates
<1>4. 0 \in 0..MaxFresh
  BY AccountsBounds
<1>5. CASE InvalidateSessions
  <2>1. /\ sessions' = sessions \ OwnedBy(revoking) /\ revoking' = 0
        /\ UNCHANGED <<users, usersFile, client, sessSaving, drawn, restarts, barred>>
    BY <1>5 DEF InvalidateSessions, userVars, NoOne
  <2>2. PICK saved \in BOOLEAN : sessFile' = (IF saved THEN sessions' ELSE sessFile) /\ sessDirty' = ~saved
    BY <1>5 DEF InvalidateSessions, WriteFile
  <2>3. sessDirty' \in BOOLEAN
    BY <2>2
  <2>4. sessFile' = sessions' \/ sessFile' = sessFile
    BY <2>2
  <2>5. Known' \subseteq Known
    BY <2>1, <2>4 DEF Known
  <2>6. Bounded(sessions') /\ Bounded(sessFile')
    BY <1>1, <2>1, <2>4, BoundedSubset
  <2>7. SetsBounded'
    BY <1>1, <2>1, <2>6 DEF SetsBounded
  <2>8. revoking' \in 0..MaxFresh
    BY <1>4, <2>1
  <2> QED
    BY <1>1, <1>3, <2>1, <2>3, <2>5, <2>7, <2>8, SessionsDropped
<1>6. ASSUME NEW s \in sessions, ValidateRefuses(s) PROVE AccountsInv'
  <2>1. /\ sessions' = sessions \ {s}
        /\ UNCHANGED <<users, usersFile, sessFile, sessDirty, client, sessSaving, revoking,
                       drawn, restarts, barred>>
    BY <1>6 DEF ValidateRefuses, userVars, lockVars
  <2>2. Known' \subseteq Known
    BY <2>1 DEF Known
  <2>3. Bounded(sessions')
    BY <1>1, <2>1, BoundedSubset
  <2>4. SetsBounded'
    BY <1>1, <2>1, <2>3 DEF SetsBounded
  <2> QED
    BY <1>1, <1>3, <2>1, <2>2, <2>4, SessionsDropped
<1>7. CASE RestartAuth
  <2>1. /\ restarts < MaxRestarts /\ restarts' = restarts + 1 /\ users' = usersFile
        /\ sessions' = sessFile /\ client' = [c \in Clients |-> IdlePC]
        /\ sessSaving' = {} /\ revoking' = 0 /\ UNCHANGED <<usersFile, sessFile, drawn, barred>>
    BY <1>7 DEF RestartAuth, NoOne
  <2>2. sessDirty' \in BOOLEAN
    BY <1>7 DEF RestartAuth
  <2>3. Known' \subseteq Known
    BY <2>1 DEF Known
  <2>4. drawn' = drawn /\ barred' = barred
    BY <2>1
  <2>5. SessionsOK'
    BY <1>1, <2>3, <2>4, KnownKept DEF AccountsInv
  <2>6. BarredIsOut'
    BY <2>1, <2>3, BarredKept DEF AccountsInv
  <2>7. UsersOK'
    BY <2>1 DEF AccountsInv, UsersOK
  <2>8. SetsBounded'
    BY <1>1, <2>1 DEF SetsBounded
  <2>9. WritesOK'
    BY <2>1 DEF WritesOK, ClientStates, IdlePC
  <2>10. restarts' \in 0..MaxRestarts /\ revoking' \in 0..MaxFresh
    BY <1>1, <1>4, <2>1, AccountsBounds
  <2>11. ScalarsOK'
    BY <1>1, <2>1, <2>2, <2>10 DEF AccountsInv, ScalarsOK
  <2> QED
    BY <2>5, <2>6, <2>7, <2>8, <2>9, <2>11 DEF AccountsInv
<1> QED
  BY <1>2, <1>5, <1>6, <1>7, UserStepInv, LoginInv, WriteSessionsInv, ClientStepInv DEF AccountsNext

\* The accounts start empty.
LEMMA AccountsInitInv == AccountsInit => AccountsInv
<1> SUFFICES ASSUME AccountsInit PROVE AccountsInv
  OBVIOUS
<1>1. DOMAIN users = {} /\ users \in [{} -> User] /\ DOMAIN usersFile = {} /\ usersFile \in [{} -> User]
  BY DEF AccountsInit
<1>2. Known = {} /\ sessions = {} /\ sessFile = {} /\ sessSaving = {}
  BY DEF AccountsInit, Known
<1>3. UsersOK /\ SessionsOK /\ BarredIsOut
  BY <1>1, <1>2 DEF UsersOK, TableOK, SessionsOK, BarredIsOut
<1>4. Bounded({})
  <2>1. \A i : OfUser({}, i) = {}
    BY DEF OfUser
  <2> QED
    BY <2>1, FS_EmptySet, AccountsBounds DEF Bounded
<1>5. WritesOK
  BY <1>2 DEF AccountsInit, WritesOK, ClientStates, IdlePC
<1>6. drawn \in 0..MaxFresh /\ revoking \in 0..MaxFresh /\ restarts \in 0..MaxRestarts
  BY AccountsBounds DEF AccountsInit, NoOne
<1>7. ScalarsOK
  BY <1>6 DEF AccountsInit, ScalarsOK
<1> QED
  BY <1>2, <1>3, <1>4, <1>5, <1>7 DEF AccountsInv, SetsBounded

\* The invariant gives the types and the bound on a user's sessions.
LEMMA AccountsTypes == AccountsInv => AccountsTypeOK
<1> SUFFICES ASSUME AccountsInv PROVE AccountsTypeOK
  OBVIOUS
<1>1. users \in UserMap /\ usersFile \in UserMap
  BY DEF AccountsInv, UsersOK, TableOK, UserMap
<1>2. sessions \subseteq Session /\ sessFile \subseteq Session
  BY DEF AccountsInv, SessionsOK, Known
<1>3. \A c \in Clients : \/ client[c] \in {IdlePC, SavePC} \cup Checking
                         \/ client[c].pc = "write" /\ client[c].out \in sessSaving
  BY DEF AccountsInv, WritesOK, ClientStates
<1>4. Cardinality(sessSaving) <= 1
  <2>1. CASE sessSaving = {}
    <3>1. Cardinality(sessSaving) = 0
      BY <2>1, FS_EmptySet
    <3> QED
      BY <3>1
  <2>2. ASSUME NEW S \in sessSaving, sessSaving = {S} PROVE Cardinality(sessSaving) <= 1
    <3>1. Cardinality(sessSaving) = 1
      BY <2>2, FS_Singleton
    <3> QED
      BY <3>1
  <2> QED
    BY <2>1, <2>2 DEF AccountsInv, WritesOK
<1>5. \A S \in sessSaving \cup {sessions}, i \in Values : Cardinality({s \in S : s.id = i}) <= MaxSessions
  BY DEF AccountsInv, SetsBounded, Bounded, OfUser
<1>6. barred \subseteq Values
  <2>1. drawn \in 0..MaxFresh /\ barred \subseteq 1..drawn
    BY AccountsFacts
  <2> QED
    BY <2>1, AccountsBounds DEF Values
<1> QED
  BY <1>1, <1>2, <1>3, <1>4, <1>5, <1>6 DEF AccountsInv, ScalarsOK, AccountsTypeOK

\* The invariant of the accounts holds throughout.
THEOREM AccountsInvariant == AccountsSpec => []AccountsInv
<1>1. AccountsInv /\ [AccountsNext]_accountVars => AccountsInv'
  BY AccountsStepInv
<1> QED
  BY <1>1, AccountsInitInv, PTL DEF AccountsSpec

\* A revoked token is never admitted again.
THEOREM RevokedForGood == AccountsSpec => []RevokedStaysOut
<1>1. AccountsInv => RevokedStaysOut
  BY DEF AccountsInv, BarredIsOut, Known, Matches, RevokedStaysOut, Admits
<1> QED
  BY <1>1, AccountsInvariant, PTL

-----------------------------------------------------------------------------
(* AppDeploy *)

DeployPCs == {"idle", "queued", "checkout", "build", "register", "start", "probe", "rollback",
              "restart", "report"}
DeployRecords == [pc : DeployPCs, webhook : BOOLEAN, skipStart : BOOLEAN, dir : 0..MaxDirs,
                  from : 0..MaxRevs, sha : 0..MaxRevs, ok : BOOLEAN, rolledBack : BOOLEAN,
                  restart : BOOLEAN]
Processes == [dir : 0..MaxDirs, rev : 0..MaxRevs]

\* The process p, if it runs in the directory of deploy r, runs what w has there.
UpToDate(r, w, p) == p.dir = r.dir => p.rev = w[r.dir]

\* The deploy r has a directory, and one that is not yet to report does not
\* claim success.
DirChosen(r) ==
  /\ (\/ r.pc = "queued" /\ ~r.webhook
      \/ r.pc \notin {"idle", "queued", "report"} \/ r.ok \/ r.rolledBack) => r.dir \in WorkDirs
  /\ r.ok \/ r.rolledBack => r.pc = "report"

\* What the deploy r may rely on, with the directories w, the process p and
\* whether that is lost: from its build on that its directory holds its commit,
\* and once it started the application that no process of another one runs there.
DeployAt(r, w, p, l) ==
  /\ DirChosen(r)
  /\ r.pc \in {"register", "start", "probe"} => r.sha = w[r.dir]
  /\ r.pc = "probe" => UpToDate(r, w, p)
  /\ r.pc = "restart" => r.from = w[r.dir]
  /\ r.ok => r.sha = w[r.dir] /\ (UpToDate(r, w, p) \/ (r.skipStart /\ l))
  /\ r.rolledBack => r.from = w[r.dir] /\ (r.restart => UpToDate(r, w, p))

\* A deploy past the queue holds the lock, and one does at a time.
LockExclusive ==
  /\ \A d \in Deployers : deployer[d].pc \notin {"idle", "queued"} <=> d \in deployLock
  /\ \A d, e \in deployLock : d = e

\* The inductive invariant of the deployments.
DeployInv ==
  /\ DeployTypeOK /\ deployer \in [Deployers -> DeployRecords] /\ LockExclusive
  /\ \A d \in Deployers : DeployAt(deployer[d], workTree, serving, lost)

\* What the assumption says of the bounds.
LEMMA DeployBounds ==
  /\ MaxRevs \in Nat /\ MaxRevs >= 1 /\ MaxApps \in Nat /\ MaxApps >= 1 /\ MaxEdits \in Nat
  /\ MaxDirs \in Nat /\ MaxDirs >= 1 /\ 0 \in 0..MaxDirs /\ 0 \in 0..MaxRevs
  /\ \A dir \in WorkDirs : dir \in 0..MaxDirs /\ dir # 0
  BY AppDeployAssumption DEF AppDeployAssumption, WorkDirs

\* The types, from what the steps show.
LEMMA DeployTypeFollows ==
  ASSUME appDef' \in 0..MaxDirs, created' \in 1..MaxApps, edits' \in 0..MaxEdits,
         remote' \in 0..MaxRevs, workTree' \in [WorkDirs -> 0..MaxRevs], serving' \in Processes,
         lost' \in BOOLEAN, deployer' \in [Deployers -> DeployRecords], deployLock' \subseteq Deployers
  PROVE  DeployTypeOK'
<1>1. \A d \in Deployers :
          /\ deployer'[d].pc \in {"idle", "queued", "checkout", "build", "register", "start",
                                 "probe", "rollback", "restart", "report"}
          /\ deployer'[d].dir \in 0..MaxDirs
          /\ {deployer'[d].from, deployer'[d].sha} \subseteq 0 .. MaxRevs
          /\ {deployer'[d].webhook, deployer'[d].skipStart, deployer'[d].ok,
              deployer'[d].rolledBack, deployer'[d].restart} \subseteq BOOLEAN
  BY DEF DeployRecords, DeployPCs
<1> QED
  BY <1>1 DEF DeployTypeOK, Processes

\* The types, as the steps use them.
LEMMA DeployTypes ==
  ASSUME DeployInv
  PROVE  /\ appDef \in 0..MaxDirs /\ created \in 1..MaxApps /\ edits \in 0..MaxEdits
         /\ remote \in 0..MaxRevs /\ workTree \in [WorkDirs -> 0..MaxRevs] /\ serving \in Processes
         /\ lost \in BOOLEAN /\ deployer \in [Deployers -> DeployRecords] /\ deployLock \subseteq Deployers
         /\ LockExclusive /\ (appDef # NoApp => appDef \in WorkDirs)
<1>1. appDef \in 0..MaxDirs /\ MaxDirs \in Nat
  BY DeployBounds DEF DeployInv, DeployTypeOK
<1>2. appDef # NoApp => appDef \in WorkDirs
  BY <1>1 DEF NoApp, WorkDirs
<1> QED
  BY <1>2 DEF DeployInv, DeployTypeOK, Processes

\* The deploy that is none.
LEMMA NoDeployTyped ==
  NoDeploy \in DeployRecords /\ NoDeploy.pc = "idle" /\ \A w, p, l : DeployAt(NoDeploy, w, p, l)
<1>1. NoDeploy \in DeployRecords
  BY DeployBounds DEF NoDeploy, NoApp, DeployRecords, DeployPCs
<1> QED
  BY <1>1 DEF NoDeploy, DeployAt, DirChosen

\* What a step may do to the process: nothing, start it, stop it or try to.
ProcessStep == UNCHANGED processVars \/ StopServing \/ \E dir \in WorkDirs : StartIn(dir)

\* Such a step keeps the types,
LEMMA ProcessTyped ==
  ASSUME DeployInv, ProcessStep
  PROVE  serving' \in Processes /\ lost' \in BOOLEAN
<1>1. serving \in Processes /\ lost \in BOOLEAN /\ workTree \in [WorkDirs -> 0..MaxRevs]
  BY DeployTypes
<1>2. Down \in Processes
  BY DeployBounds DEF Down, Processes
<1>3. CASE UNCHANGED processVars
  BY <1>1, <1>3 DEF processVars
<1>4. CASE StopServing
  BY <1>1, <1>2, <1>4 DEF StopServing
<1>5. ASSUME NEW dir \in WorkDirs, StartIn(dir) PROVE serving' \in Processes /\ lost' \in BOOLEAN
  BY <1>1, <1>5, DeployBounds DEF StartIn, Processes
<1> QED
  BY <1>3, <1>4, <1>5 DEF ProcessStep

\* and takes nothing from a deploy.
LEMMA ProcessKeeps ==
  ASSUME DeployInv, ProcessStep, NEW r, DeployAt(r, workTree, serving, lost)
  PROVE  DeployAt(r, workTree, serving', lost')
<1>1. r.dir \in WorkDirs => r.dir # 0
  BY DeployBounds
<1>2. CASE UNCHANGED processVars
  BY <1>2 DEF processVars
<1>3. CASE serving' = Down /\ lost' = FALSE
  <2>1. r.dir \in WorkDirs => UpToDate(r, workTree, serving')
    BY <1>1, <1>3 DEF Down, UpToDate
  <2> QED
    BY <2>1 DEF DeployAt, DirChosen
<1>4. CASE UNCHANGED serving /\ lost' = TRUE
  BY <1>4 DEF DeployAt
<1>5. ASSUME NEW dir \in WorkDirs, StartIn(dir) PROVE DeployAt(r, workTree, serving', lost')
  <2>1. UpToDate(r, workTree, serving')
    BY <1>5 DEF StartIn, UpToDate
  <2> QED
    BY <2>1 DEF DeployAt
<1> QED
  BY <1>2, <1>3, <1>4, <1>5 DEF ProcessStep, StopServing

\* A handler that starts the application, stops it or leaves it alone takes
\* nothing from a deploy under way.
LEMMA HandlerStep ==
  ASSUME DeployInv, ProcessStep, UNCHANGED <<workTree, deployer, deployLock>>,
         appDef' \in 0..MaxDirs, created' \in 1..MaxApps, edits' \in 0..MaxEdits,
         remote' \in 0..MaxRevs
  PROVE  DeployInv'
<1>1. /\ deployer \in [Deployers -> DeployRecords] /\ deployLock \subseteq Deployers /\ LockExclusive
      /\ workTree \in [WorkDirs -> 0..MaxRevs]
  BY DeployTypes
<1>2. DeployTypeOK'
  BY <1>1, ProcessTyped, DeployTypeFollows
<1>3. \A d \in Deployers : DeployAt(deployer[d], workTree, serving', lost')
  BY ProcessKeeps DEF DeployInv
<1> QED
  BY <1>1, <1>2, <1>3 DEF DeployInv, LockExclusive

\* One deploy moves on.  If it changes a work directory or the process it
\* holds the lock, so no other deploy relies on them.
LEMMA DeployMoves ==
  ASSUME DeployInv, NEW d \in Deployers, NEW x \in DeployRecords, deployer' = [deployer EXCEPT ![d] = x],
         DeployAt(x, workTree', serving', lost'),
         d \in deployLock \/ deployLock = {} \/ UNCHANGED <<workTree, serving, lost>>,
         x.pc \in {"idle", "queued"} => deployLock' = deployLock \ {d},
         x.pc \notin {"idle", "queued"} => deployLock' = deployLock \cup {d}
                                           /\ (d \in deployLock \/ deployLock = {}),
         workTree' \in [WorkDirs -> 0..MaxRevs], serving' \in Processes, lost' \in BOOLEAN,
         appDef' \in 0..MaxDirs, UNCHANGED <<created, edits, remote>>
  PROVE  DeployInv'
<1>1. /\ deployer \in [Deployers -> DeployRecords] /\ deployLock \subseteq Deployers /\ LockExclusive
      /\ created \in 1..MaxApps /\ edits \in 0..MaxEdits /\ remote \in 0..MaxRevs
  BY DeployTypes
<1>2. /\ deployer' \in [Deployers -> DeployRecords] /\ deployer'[d] = x
      /\ \A e \in Deployers : e # d => deployer'[e] = deployer[e]
  BY <1>1
<1>3. deployLock' \subseteq Deployers
  BY <1>1
<1>4. LockExclusive'
  BY <1>1, <1>2 DEF LockExclusive
<1>5. DeployTypeOK'
  BY <1>1, <1>2, <1>3, DeployTypeFollows
<1>6. ASSUME NEW e \in Deployers, e # d PROVE DeployAt(deployer[e], workTree', serving', lost')
  <2>1. DeployAt(deployer[e], workTree, serving, lost)
    BY DEF DeployInv
  <2>2. CASE UNCHANGED <<workTree, serving, lost>>
    BY <2>1, <2>2
  <2>3. CASE d \in deployLock \/ deployLock = {}
    <3>1. deployer[e].pc \in {"idle", "queued"}
      BY <1>1, <1>6, <2>3 DEF LockExclusive
    <3> QED
      BY <2>1, <3>1 DEF DeployAt, DirChosen
  <2> QED
    BY <2>2, <2>3
<1>7. \A e \in Deployers : DeployAt(deployer'[e], workTree', serving', lost')
  BY <1>2, <1>6
<1> QED
  BY <1>2, <1>4, <1>5, <1>7 DEF DeployInv

\* The same, for a deploy that holds the lock and keeps it.
LEMMA HolderMoves ==
  ASSUME DeployInv, NEW d \in Deployers, d \in deployLock, NEW x \in DeployRecords,
         deployer' = [deployer EXCEPT ![d] = x], x.pc \notin {"idle", "queued"}, deployLock' = deployLock,
         DeployAt(x, workTree', serving', lost'), workTree' \in [WorkDirs -> 0..MaxRevs], ProcessStep,
         appDef' \in 0..MaxDirs, UNCHANGED <<created, edits, remote>>
  PROVE  DeployInv'
<1>1. deployLock' = deployLock \cup {d} /\ serving' \in Processes /\ lost' \in BOOLEAN
  BY ProcessTyped
<1> QED
  BY <1>1, DeployMoves

\* A deploy that fails, before it reported, goes to its rollback or its report.
LEMMA FailMoves ==
  ASSUME DeployInv, NEW d \in Deployers, d \in deployLock, NEW restart \in BOOLEAN, Fail(d, restart),
         deployer[d].pc # "report", deployLock' = deployLock, workTree' = workTree, ProcessStep,
         UNCHANGED <<appDef, created, edits, remote>>
  PROVE  DeployInv'
<1> DEFINE p == deployer[d]
           x == [p EXCEPT !.pc = "report"]
           y == [p EXCEPT !.pc = "rollback", !.restart = restart]
<1>1. /\ p \in DeployRecords /\ DeployAt(p, workTree, serving, lost) /\ appDef \in 0..MaxDirs
      /\ workTree \in [WorkDirs -> 0..MaxRevs] /\ p.pc \notin {"idle", "queued"}
  BY DeployTypes DEF DeployInv, LockExclusive
<1>2. ~p.ok /\ ~p.rolledBack /\ p.dir \in WorkDirs
  BY <1>1 DEF DeployAt, DirChosen
<1>3. /\ x \in DeployRecords /\ x.pc = "report" /\ ~x.ok /\ ~x.rolledBack
      /\ y \in DeployRecords /\ y.pc = "rollback" /\ ~y.ok /\ ~y.rolledBack /\ y.dir = p.dir
  BY <1>1, <1>2 DEF DeployRecords, DeployPCs
<1>4. deployer' = [deployer EXCEPT ![d] = x] \/ deployer' = [deployer EXCEPT ![d] = y]
  BY DEF Fail, Become, Advance
<1> HIDE DEF x, y
<1>5. DeployAt(x, workTree', serving', lost') /\ DeployAt(y, workTree', serving', lost')
  BY <1>2, <1>3 DEF DeployAt, DirChosen
<1> QED
  BY <1>1, <1>3, <1>4, <1>5, HolderMoves

\* A step of a deploy keeps the invariant.
LEMMA DeployerStepInv ==
  ASSUME DeployInv, NEW d \in Deployers,
         \/ \E skipStart \in BOOLEAN : RequestDeploy(d, skipStart)
         \/ Webhook(d) \/ TakeLock(d) \/ ClientLeft(d) \/ Checkout(d) \/ Build(d)
         \/ RegisterDeployed(d) \/ StartDeployed(d) \/ Probe(d)
         \/ RollBack(d) \/ RestartRolledBack(d) \/ Report(d)
  PROVE  DeployInv'
<1> DEFINE p == deployer[d]
<1>1. /\ p \in DeployRecords /\ DeployAt(p, workTree, serving, lost) /\ p.dir \in 0..MaxDirs
      /\ appDef \in 0..MaxDirs /\ (appDef # NoApp => appDef \in WorkDirs)
      /\ workTree \in [WorkDirs -> 0..MaxRevs] /\ serving \in Processes /\ lost \in BOOLEAN
      /\ remote \in 0..MaxRevs /\ p.from \in 0..MaxRevs
      /\ (p.pc \notin {"idle", "queued"} <=> d \in deployLock)
  BY DeployTypes DEF DeployInv, DeployRecords, LockExclusive
<1>2. NoDeploy \in DeployRecords /\ NoDeploy.pc = "idle" /\ \A w, q, l : DeployAt(NoDeploy, w, q, l)
  BY NoDeployTyped
<1>3. /\ p.pc # "report" => ~p.ok /\ ~p.rolledBack
      /\ p.pc \notin {"idle", "queued", "report"} => p.dir \in WorkDirs
      /\ p.pc = "queued" /\ ~p.webhook => p.dir \in WorkDirs
  BY <1>1 DEF DeployAt, DirChosen
<1>4. ASSUME NEW skipStart \in BOOLEAN, RequestDeploy(d, skipStart) PROVE DeployInv'
  <2> DEFINE x == [NoDeploy EXCEPT !.pc = "queued", !.dir = appDef, !.skipStart = skipStart]
  <2>1. /\ p.pc = "idle" /\ appDef # NoApp /\ deployer' = [deployer EXCEPT ![d] = x]
        /\ UNCHANGED <<appDef, created, edits, remote, workTree, serving, lost, deployLock>>
    BY <1>2, <1>4 DEF RequestDeploy, Become, adminVars, processVars
  <2>2. x \in DeployRecords /\ x.pc = "queued" /\ ~x.ok /\ ~x.rolledBack /\ x.dir = appDef
    BY <1>1, <1>2 DEF DeployRecords, DeployPCs, NoDeploy
  <2> HIDE DEF x
  <2>3. DeployAt(x, workTree', serving', lost') /\ deployLock' = deployLock \ {d}
    BY <1>1, <2>1, <2>2 DEF DeployAt, DirChosen
  <2> QED
    BY <1>1, <2>1, <2>2, <2>3, DeployMoves
<1>5. CASE Webhook(d)
  <2> DEFINE x == [NoDeploy EXCEPT !.pc = "queued", !.webhook = TRUE]
  <2>1. /\ p.pc = "idle" /\ deployer' = [deployer EXCEPT ![d] = x]
        /\ UNCHANGED <<appDef, created, edits, remote, workTree, serving, lost, deployLock>>
    BY <1>2, <1>5 DEF Webhook, Become, adminVars, processVars
  <2>2. x \in DeployRecords /\ x.pc = "queued" /\ ~x.ok /\ ~x.rolledBack /\ x.webhook
    BY <1>1, <1>2 DEF DeployRecords, DeployPCs, NoDeploy
  <2> HIDE DEF x
  <2>3. DeployAt(x, workTree', serving', lost') /\ deployLock' = deployLock \ {d}
    BY <1>1, <2>1, <2>2 DEF DeployAt, DirChosen
  <2> QED
    BY <1>1, <2>1, <2>2, <2>3, DeployMoves
<1>6. CASE TakeLock(d)
  <2> DEFINE x == [p EXCEPT !.pc = "report"]
             Found(dir) == [p EXCEPT !.pc = "checkout", !.dir = dir, !.from = workTree[dir]]
  <2>1. /\ p.pc = "queued" /\ deployLock = {} /\ deployLock' = deployLock \cup {d}
        /\ UNCHANGED <<appDef, created, edits, remote, workTree, serving, lost>>
    BY <1>6 DEF TakeLock, Begin, adminVars, processVars
  <2>2. \/ deployer' = [deployer EXCEPT ![d] = x]
        \/ \E dir \in WorkDirs : deployer' = [deployer EXCEPT ![d] = Found(dir)]
    BY <1>1, <1>3, <1>6, <2>1 DEF TakeLock, Begin, Become, Advance
  <2>3. CASE deployer' = [deployer EXCEPT ![d] = x]
    <3>1. x \in DeployRecords /\ x.pc = "report" /\ ~x.ok /\ ~x.rolledBack
      BY <1>1, <1>3, <2>1 DEF DeployRecords, DeployPCs
    <3> HIDE DEF x
    <3>2. DeployAt(x, workTree', serving', lost')
      BY <3>1 DEF DeployAt, DirChosen
    <3> QED
      BY <1>1, <2>1, <2>3, <3>1, <3>2, DeployMoves
  <2>4. ASSUME NEW dir \in WorkDirs, deployer' = [deployer EXCEPT ![d] = Found(dir)] PROVE DeployInv'
    <3> DEFINE y == Found(dir)
    <3>1. workTree[dir] \in 0..MaxRevs /\ dir \in 0..MaxDirs
      BY <1>1, DeployBounds
    <3>2. y \in DeployRecords /\ y.pc = "checkout" /\ ~y.ok /\ ~y.rolledBack /\ y.dir = dir
      BY <1>1, <1>3, <2>1, <3>1 DEF DeployRecords, DeployPCs
    <3>3. deployer' = [deployer EXCEPT ![d] = y]
      BY <2>4
    <3> HIDE DEF y
    <3>4. DeployAt(y, workTree', serving', lost')
      BY <3>2 DEF DeployAt, DirChosen
    <3> QED
      BY <1>1, <2>1, <3>2, <3>3, <3>4, DeployMoves
  <2> QED
    BY <2>2, <2>3, <2>4
<1>7. CASE ClientLeft(d)
  <2>1. /\ p.pc = "queued" /\ deployer' = [deployer EXCEPT ![d] = NoDeploy]
        /\ UNCHANGED <<appDef, created, edits, remote, workTree, serving, lost, deployLock>>
    BY <1>7 DEF ClientLeft, Become, adminVars, processVars
  <2>2. deployLock' = deployLock \ {d}
    BY <1>1, <2>1
  <2> QED
    BY <1>1, <1>2, <2>1, <2>2, DeployMoves
<1>8. CASE Checkout(d)
  <2>1. p.pc = "checkout" /\ UNCHANGED <<appDef, created, edits, remote, processVars, deployLock>>
    BY <1>8 DEF Checkout, adminVars
  <2>2. ProcessStep
    BY <2>1 DEF ProcessStep
  <2>3. CASE UNCHANGED workTree /\ Fail(d, ~p.webhook /\ ~p.skipStart)
    <3>1. (~p.webhook /\ ~p.skipStart) \in BOOLEAN
      OBVIOUS
    <3> QED
      BY <1>1, <2>1, <2>2, <2>3, <3>1, FailMoves
  <2>4. CASE workTree' = [workTree EXCEPT ![p.dir] = remote] /\ Advance(d, "build")
    <3> DEFINE x == [p EXCEPT !.pc = "build"]
    <3>1. deployer' = [deployer EXCEPT ![d] = x]
      BY <2>4 DEF Advance, Become
    <3>2. x \in DeployRecords /\ x.pc = "build" /\ ~x.ok /\ ~x.rolledBack /\ x.dir = p.dir
      BY <1>1, <1>3, <2>1 DEF DeployRecords, DeployPCs
    <3> HIDE DEF x
    <3>3. DeployAt(x, workTree', serving', lost')
      BY <1>3, <2>1, <3>2 DEF DeployAt, DirChosen
    <3>4. workTree' \in [WorkDirs -> 0..MaxRevs]
      BY <1>1, <2>4
    <3> QED
      BY <1>1, <2>1, <2>2, <3>1, <3>2, <3>3, <3>4, HolderMoves
  <2> QED
    BY <1>8, <2>3, <2>4 DEF Checkout
<1>9. CASE Build(d)
  <2>1. p.pc = "build" /\ UNCHANGED <<appDef, created, edits, remote, workTree, processVars, deployLock>>
    BY <1>9 DEF Build, adminVars
  <2>2. ProcessStep
    BY <2>1 DEF ProcessStep
  <2>3. CASE Fail(d, ~p.webhook /\ ~p.skipStart)
    <3>1. (~p.webhook /\ ~p.skipStart) \in BOOLEAN
      OBVIOUS
    <3> QED
      BY <1>1, <2>1, <2>2, <2>3, <3>1, FailMoves
  <2>4. CASE Become(d, [p EXCEPT !.pc = "register", !.sha = workTree[p.dir]])
    <3> DEFINE x == [p EXCEPT !.pc = "register", !.sha = workTree[p.dir]]
    <3>1. deployer' = [deployer EXCEPT ![d] = x]
      BY <2>4 DEF Become
    <3>2. workTree[p.dir] \in 0..MaxRevs
      BY <1>1, <1>3, <2>1
    <3>3. /\ x \in DeployRecords /\ x.pc = "register" /\ ~x.ok /\ ~x.rolledBack
          /\ x.sha = workTree[p.dir] /\ x.dir = p.dir
      BY <1>1, <1>3, <2>1, <3>2 DEF DeployRecords, DeployPCs
    <3> HIDE DEF x
    <3>4. DeployAt(x, workTree', serving', lost')
      BY <1>3, <2>1, <3>3 DEF DeployAt, DirChosen
    <3> QED
      BY <1>1, <2>1, <2>2, <3>1, <3>3, <3>4, HolderMoves
  <2> QED
    BY <1>9, <2>3, <2>4 DEF Build
<1>10. CASE RegisterDeployed(d)
  <2>1. p.pc = "register" /\ StopServing /\ UNCHANGED <<created, edits, remote, workTree, deployLock>>
    BY <1>10 DEF RegisterDeployed
  <2>2. ProcessStep
    BY <2>1 DEF ProcessStep
  <2>3. CASE Fail(d, TRUE) /\ UNCHANGED appDef
    BY <1>1, <2>1, <2>2, <2>3, FailMoves
  <2>4. CASE /\ appDef' = p.dir
             /\ IF p.skipStart THEN Become(d, [p EXCEPT !.pc = "report", !.ok = TRUE]) ELSE Advance(d, "start")
    <3> DEFINE x == [p EXCEPT !.pc = "report", !.ok = TRUE]
               y == [p EXCEPT !.pc = "start"]
    <3>1. \/ p.skipStart /\ deployer' = [deployer EXCEPT ![d] = x]
          \/ deployer' = [deployer EXCEPT ![d] = y]
      BY <2>4 DEF Become, Advance
    <3>2. /\ x \in DeployRecords /\ x.pc = "report" /\ x.ok /\ ~x.rolledBack /\ x.sha = p.sha
          /\ x.dir = p.dir /\ x.skipStart = p.skipStart
          /\ y \in DeployRecords /\ y.pc = "start" /\ ~y.ok /\ ~y.rolledBack /\ y.sha = p.sha
          /\ y.dir = p.dir
      BY <1>1, <1>3, <2>1 DEF DeployRecords, DeployPCs
    <3> HIDE DEF x, y
    <3>3. p.sha = workTree[p.dir] /\ p.dir \in WorkDirs /\ p.dir # 0
      BY <1>1, <1>3, <2>1, DeployBounds DEF DeployAt
    <3>4. lost' \/ serving'.dir = 0
      BY <2>1 DEF StopServing, Down
    <3>5. p.skipStart => DeployAt(x, workTree', serving', lost')
      BY <2>1, <3>2, <3>3, <3>4 DEF DeployAt, DirChosen, UpToDate
    <3>6. DeployAt(y, workTree', serving', lost')
      BY <2>1, <3>2, <3>3 DEF DeployAt, DirChosen
    <3> QED
      BY <1>1, <2>1, <2>2, <2>4, <3>1, <3>2, <3>5, <3>6, HolderMoves
  <2> QED
    BY <1>10, <2>3, <2>4 DEF RegisterDeployed
<1>11. CASE StartDeployed(d)
  <2>1. p.pc = "start" /\ UNCHANGED <<appDef, created, edits, remote, workTree, deployLock>>
    BY <1>11 DEF StartDeployed, adminVars
  <2>2. CASE Fail(d, TRUE) /\ UNCHANGED processVars
    <3>1. ProcessStep
      BY <2>2 DEF ProcessStep
    <3> QED
      BY <1>1, <2>1, <2>2, <3>1, FailMoves
  <2>3. CASE appDef # NoApp /\ StartIn(appDef) /\ Advance(d, "probe")
    <3> DEFINE x == [p EXCEPT !.pc = "probe"]
    <3>1. deployer' = [deployer EXCEPT ![d] = x] /\ ProcessStep
      BY <1>1, <2>3 DEF Advance, Become, ProcessStep
    <3>2. x \in DeployRecords /\ x.pc = "probe" /\ ~x.ok /\ ~x.rolledBack /\ x.sha = p.sha /\ x.dir = p.dir
      BY <1>1, <1>3, <2>1 DEF DeployRecords, DeployPCs
    <3> HIDE DEF x
    <3>3. UpToDate(x, workTree', serving')
      BY <2>1, <2>3 DEF StartIn, UpToDate
    <3>4. DeployAt(x, workTree', serving', lost')
      BY <1>1, <1>3, <2>1, <3>2, <3>3 DEF DeployAt, DirChosen
    <3> QED
      BY <1>1, <2>1, <3>1, <3>2, <3>4, HolderMoves
  <2> QED
    BY <1>11, <2>2, <2>3 DEF StartDeployed
<1>12. CASE Probe(d)
  <2>1. p.pc = "probe" /\ UNCHANGED <<appDef, created, edits, remote, workTree, processVars, deployLock>>
    BY <1>12 DEF Probe, adminVars
  <2>2. ProcessStep
    BY <2>1 DEF ProcessStep
  <2>3. CASE Fail(d, TRUE)
    BY <1>1, <2>1, <2>2, <2>3, FailMoves
  <2>4. CASE Become(d, [p EXCEPT !.pc = "report", !.ok = TRUE])
    <3> DEFINE x == [p EXCEPT !.pc = "report", !.ok = TRUE]
    <3>1. deployer' = [deployer EXCEPT ![d] = x]
      BY <2>4 DEF Become
    <3>2. x \in DeployRecords /\ x.pc = "report" /\ ~x.rolledBack /\ x.sha = p.sha /\ x.dir = p.dir
      BY <1>1, <1>3, <2>1 DEF DeployRecords, DeployPCs
    <3> HIDE DEF x
    <3>3. p.sha = workTree[p.dir] /\ UpToDate(p, workTree, serving)
      BY <1>1, <2>1 DEF DeployAt
    <3>4. DeployAt(x, workTree', serving', lost')
      BY <1>3, <2>1, <3>2, <3>3 DEF DeployAt, DirChosen, UpToDate, processVars
    <3> QED
      BY <1>1, <2>1, <2>2, <3>1, <3>2, <3>4, HolderMoves
  <2> QED
    BY <1>12, <2>3, <2>4 DEF Probe
<1>13. CASE RollBack(d)
  <2>1. p.pc = "rollback" /\ UNCHANGED <<appDef, created, edits, remote, deployLock>>
    BY <1>13 DEF RollBack, adminVars
  <2>2. ProcessStep
    BY <1>13 DEF RollBack, ProcessStep
  <2> DEFINE x == [p EXCEPT !.pc = "report"]
             y == [p EXCEPT !.pc = "report", !.rolledBack = TRUE]
             z == [p EXCEPT !.pc = "restart"]
             back == [workTree EXCEPT ![p.dir] = p.from]
  <2>3. /\ x \in DeployRecords /\ x.pc = "report" /\ ~x.ok /\ ~x.rolledBack
        /\ y \in DeployRecords /\ y.pc = "report" /\ ~y.ok /\ y.from = p.from /\ y.restart = p.restart
        /\ y.dir = p.dir
        /\ z \in DeployRecords /\ z.pc = "restart" /\ ~z.ok /\ ~z.rolledBack /\ z.from = p.from
        /\ z.dir = p.dir
    BY <1>1, <1>3, <2>1 DEF DeployRecords, DeployPCs
  <2>4. \/ workTree' = workTree /\ deployer' = [deployer EXCEPT ![d] = x]
        \/ workTree' = back /\ deployer' = [deployer EXCEPT ![d] = z]
        \/ workTree' = back /\ ~p.restart /\ deployer' = [deployer EXCEPT ![d] = y]
    BY <1>13 DEF RollBack, Advance, Become
  <2>5. back \in [WorkDirs -> 0..MaxRevs] /\ back[p.dir] = p.from /\ p.dir \in WorkDirs
    BY <1>1, <1>3, <2>1
  <2> HIDE DEF x, y, z, back
  <2>6. CASE workTree' = workTree /\ deployer' = [deployer EXCEPT ![d] = x]
    <3>1. DeployAt(x, workTree', serving', lost')
      BY <2>3 DEF DeployAt, DirChosen
    <3> QED
      BY <1>1, <2>1, <2>2, <2>3, <2>6, <3>1, HolderMoves
  <2>7. CASE workTree' = back /\ deployer' = [deployer EXCEPT ![d] = z]
    <3>1. DeployAt(z, workTree', serving', lost')
      BY <2>3, <2>5, <2>7 DEF DeployAt, DirChosen
    <3> QED
      BY <1>1, <2>1, <2>2, <2>3, <2>5, <2>7, <3>1, HolderMoves
  <2>8. CASE workTree' = back /\ ~p.restart /\ deployer' = [deployer EXCEPT ![d] = y]
    <3>1. DeployAt(y, workTree', serving', lost')
      BY <2>3, <2>5, <2>8 DEF DeployAt, DirChosen
    <3> QED
      BY <1>1, <2>1, <2>2, <2>3, <2>5, <2>8, <3>1, HolderMoves
  <2> QED
    BY <2>4, <2>6, <2>7, <2>8
<1>14. CASE RestartRolledBack(d)
  <2>1. p.pc = "restart" /\ UNCHANGED <<appDef, created, edits, remote, workTree, deployLock>>
    BY <1>14 DEF RestartRolledBack, adminVars
  <2> DEFINE x == [p EXCEPT !.pc = "report"]
             y == [p EXCEPT !.pc = "report", !.rolledBack = TRUE]
  <2>2. /\ x \in DeployRecords /\ x.pc = "report" /\ ~x.ok /\ ~x.rolledBack
        /\ y \in DeployRecords /\ y.pc = "report" /\ ~y.ok /\ y.from = p.from /\ y.dir = p.dir
    BY <1>1, <1>3, <2>1 DEF DeployRecords, DeployPCs
  <2>3. \/ StopServing /\ deployer' = [deployer EXCEPT ![d] = x]
        \/ appDef # NoApp /\ StartIn(appDef) /\ deployer' = [deployer EXCEPT ![d] = y]
    BY <1>14 DEF RestartRolledBack, Advance, Become
  <2> HIDE DEF x, y
  <2>4. CASE StopServing /\ deployer' = [deployer EXCEPT ![d] = x]
    <3>1. DeployAt(x, workTree', serving', lost') /\ ProcessStep
      BY <2>2, <2>4 DEF DeployAt, DirChosen, ProcessStep
    <3> QED
      BY <1>1, <2>1, <2>2, <2>4, <3>1, HolderMoves
  <2>5. CASE appDef # NoApp /\ StartIn(appDef) /\ deployer' = [deployer EXCEPT ![d] = y]
    <3>1. ProcessStep
      BY <1>1, <2>5 DEF ProcessStep
    <3>2. UpToDate(y, workTree', serving')
      BY <2>1, <2>5 DEF StartIn, UpToDate
    <3>3. DeployAt(y, workTree', serving', lost')
      BY <1>1, <1>3, <2>1, <2>2, <3>2 DEF DeployAt, DirChosen
    <3> QED
      BY <1>1, <2>1, <2>2, <2>5, <3>1, <3>3, HolderMoves
  <2> QED
    BY <2>3, <2>4, <2>5
<1>15. CASE Report(d)
  <2>1. /\ p.pc = "report" /\ deployer' = [deployer EXCEPT ![d] = NoDeploy]
        /\ deployLock' = deployLock \ {d}
        /\ UNCHANGED <<appDef, created, edits, remote, workTree, serving, lost>>
    BY <1>15 DEF Report, Become, adminVars, processVars
  <2> QED
    BY <1>1, <1>2, <2>1, DeployMoves
<1> QED
  BY <1>4, <1>5, <1>6, <1>7, <1>8, <1>9, <1>10, <1>11, <1>12, <1>13, <1>14, <1>15

\* A step of the deployments keeps the invariant.
LEMMA DeployStepInv ==
  ASSUME DeployInv, [DeployNext]_deployVars
  PROVE  DeployInv'
<1>1. /\ appDef \in 0..MaxDirs /\ created \in 1..MaxApps /\ edits \in 0..MaxEdits
      /\ remote \in 0..MaxRevs /\ (appDef # NoApp => appDef \in WorkDirs)
  BY DeployTypes
<1>2. CASE UNCHANGED deployVars
  BY <1>1, <1>2, HandlerStep DEF deployVars, adminVars, ProcessStep
<1>3. CASE Push
  <2>1. remote' \in 0..MaxRevs
    BY <1>1, <1>3, DeployBounds DEF Push
  <2>2. ProcessStep /\ UNCHANGED <<appDef, created, edits, workTree, deployer, deployLock>>
    BY <1>3 DEF Push, adminVars, ProcessStep
  <2> QED
    BY <1>1, <2>1, <2>2, HandlerStep
<1>4. ASSUME NEW dir \in WorkDirs, CreateApp(dir) PROVE DeployInv'
  <2>1. /\ created < MaxApps /\ created' = created + 1 /\ appDef' = dir
        /\ UNCHANGED <<edits, remote, workTree, deployer, deployLock>>
    BY <1>4 DEF CreateApp
  <2>2. ProcessStep
    BY <1>4 DEF CreateApp, ProcessStep
  <2>3. created' \in 1..MaxApps /\ appDef' \in 0..MaxDirs
    BY <1>1, <2>1, DeployBounds
  <2> QED
    BY <1>1, <2>1, <2>2, <2>3, HandlerStep
<1>5. ASSUME NEW dir \in WorkDirs, UpdateApp(dir) PROVE DeployInv'
  <2>1. /\ edits < MaxEdits /\ edits' = edits + 1 /\ appDef' = dir
        /\ UNCHANGED <<created, remote, workTree, deployer, deployLock>>
    BY <1>5 DEF UpdateApp
  <2>2. ProcessStep
    BY <1>5 DEF UpdateApp, ProcessStep
  <2>3. edits' \in 0..MaxEdits /\ appDef' \in 0..MaxDirs
    BY <1>1, <2>1, DeployBounds
  <2> QED
    BY <1>1, <2>1, <2>2, <2>3, HandlerStep
<1>6. CASE DeleteApp
  <2>1. /\ appDef' = NoApp /\ ProcessStep
        /\ UNCHANGED <<created, edits, remote, workTree, deployer, deployLock>>
    BY <1>6 DEF DeleteApp, ProcessStep
  <2>2. appDef' \in 0..MaxDirs
    BY <2>1, DeployBounds DEF NoApp
  <2> QED
    BY <1>1, <2>1, <2>2, HandlerStep
<1>7. CASE StartApp \/ AppDown
  <2>1. ProcessStep /\ UNCHANGED <<appDef, created, edits, remote, workTree, deployer, deployLock>>
    BY <1>1, <1>7 DEF StartApp, AppDown, adminVars, ProcessStep
  <2> QED
    BY <1>1, <2>1, HandlerStep
<1> QED
  BY <1>2, <1>3, <1>4, <1>5, <1>6, <1>7, DeployerStepInv DEF DeployNext

\* Deployments start with an application and nobody deploying it.
LEMMA DeployInitInv == DeployInit => DeployInv
<1> SUFFICES ASSUME DeployInit PROVE DeployInv
  OBVIOUS
<1>1. /\ deployer = [d \in Deployers |-> NoDeploy] /\ deployLock = {} /\ lost = FALSE
      /\ appDef = 1 /\ created = 1 /\ edits = 0 /\ remote = 1 /\ workTree \in [WorkDirs -> {0, 1}]
      /\ serving \in {Down, [dir |-> 1, rev |-> workTree[1]]}
  BY DEF DeployInit
<1>2. 1 \in WorkDirs /\ 1 \in 0..MaxDirs /\ 0 \in 0..MaxDirs /\ {0, 1} \subseteq 0..MaxRevs
      /\ 1 \in 1..MaxApps /\ 0 \in 0..MaxEdits
  BY DeployBounds DEF WorkDirs
<1>3. workTree \in [WorkDirs -> 0..MaxRevs] /\ workTree[1] \in 0..MaxRevs
  BY <1>1, <1>2
<1>4. serving \in [dir : 0..MaxDirs, rev : 0..MaxRevs]
  BY <1>1, <1>2, <1>3 DEF Down
<1>5. deployer \in [Deployers -> DeployRecords]
  BY <1>1, NoDeployTyped
<1>6. \A d \in Deployers :
          /\ deployer[d].pc \in {"idle", "queued", "checkout", "build", "register", "start",
                                 "probe", "rollback", "restart", "report"}
          /\ deployer[d].dir \in 0..MaxDirs
          /\ {deployer[d].from, deployer[d].sha} \subseteq 0 .. MaxRevs
          /\ {deployer[d].webhook, deployer[d].skipStart, deployer[d].ok,
              deployer[d].rolledBack, deployer[d].restart} \subseteq BOOLEAN
  BY <1>5 DEF DeployRecords, DeployPCs
<1>7. DeployTypeOK
  BY <1>1, <1>2, <1>3, <1>4, <1>6 DEF DeployTypeOK
<1>8. LockExclusive /\ \A d \in Deployers : DeployAt(deployer[d], workTree, serving, lost)
  BY <1>1, NoDeployTyped DEF LockExclusive
<1> QED
  BY <1>5, <1>7, <1>8 DEF DeployInv

\* The invariant of the deployments holds throughout.
THEOREM DeployInvariant == DeploySpec => []DeployInv
<1>1. DeployInv /\ [DeployNext]_deployVars => DeployInv'
  BY DeployStepInv
<1> QED
  BY <1>1, DeployInitInv, PTL DEF DeploySpec

\* What a deploy reports is so: its work directory holds the commit, and what
\* runs there runs it, however stops fail and edits move the application, but for
\* a container that survived its stop under skip_start.
THEOREM ReportsTrue == DeploySpec => []ReportIsTrue
<1>1. DeployInv => ReportIsTrue
  BY DEF DeployInv, DeployAt, UpToDate, ReportIsTrue
<1> QED
  BY <1>1, DeployInvariant, PTL

-----------------------------------------------------------------------------
(* AppSupervisor: definitions *)

ObjectRecords == [stopped : BOOLEAN, ch : 0 .. MaxRuns, cmd : 0 .. MaxRuns,
                  count : 0 .. MaxCrashes, gave : BOOLEAN]
RunRecords == [pc : {"unused", "spawn", "cleared", "removed", "spawned", "aborting",
                     "live", "exited", "backoff", "over"},
               obj : 0 .. MaxObjects, up : BOOLEAN]

\* What an object keeps, c being the registered one: a replaced object stays
\* stopped, the registered process is that of the last Start, and the crashes
\* counted stay below the limit until the supervisor gives up.
ObjectAt(o, x, c) ==
  /\ o # c => x.stopped
  /\ x.cmd # None => x.ch = x.cmd
  /\ ~x.gave => x.count < MaxCrashes

ObjectsOK == \A o \in 1 .. Made : ObjectAt(o, objects[o], current)

\* Every run belongs to an object that was registered.
RunsPlaced == \A r \in Runs : runs[r].pc # "unused" \/ runs[r].up => runs[r].obj \in 1 .. Made

\* A run whose process was seen to exit has none, unless a docker command erred.
ExitSeen == \A r \in Runs : runs[r].pc = "exited" /\ runs[r].up => r \in misjudged

\* The inductive invariant of the supervisor.
AppInv == AppTypeOK /\ ObjectsOK /\ RunsPlaced /\ ExitSeen /\ NoProcessEscapes

-----------------------------------------------------------------------------
(* AppSupervisor: lemmas *)

\* An object replaced in the table: the table keeps its type and the others.
LEMMA ObjectPut ==
  ASSUME NEW R, NEW s \in Seq(R), NEW o \in 1 .. Len(s), NEW x \in R
  PROVE  /\ [s EXCEPT ![o] = x] \in Seq(R) /\ Len([s EXCEPT ![o] = x]) = Len(s)
         /\ [s EXCEPT ![o] = x][o] = x
         /\ \A i \in 1 .. Len(s) : i # o => [s EXCEPT ![o] = x][i] = s[i]
OBVIOUS

\* The supervisor's constants and the empty values have their types.
LEMMA AppBounds ==
  /\ None \in 0 .. MaxRuns /\ None \in 0 .. MaxObjects
  /\ NewObject \in ObjectRecords
  /\ \A r \in Runs : r \in 0 .. MaxRuns /\ r # None
  /\ Unused \in RunRecords
BY AppSupervisorAssumption DEF None, NewObject, ObjectRecords, Runs, Unused, RunRecords

\* The type invariant with the names used here, and what one object promises.
LEMMA AppTypes ==
  ASSUME AppInv
  PROVE  /\ objects \in Seq(ObjectRecords) /\ Made \in Nat /\ Made = Len(objects) /\ Made <= MaxObjects
         /\ runs \in [Runs -> RunRecords] /\ kind \in {"native", "docker"} /\ current \in 0 .. Made
         /\ closed \subseteq Runs /\ killing \subseteq Runs /\ misjudged \subseteq Runs
         /\ \A o \in 1 .. Made : objects[o] \in ObjectRecords /\ ObjectAt(o, objects[o], current)
         /\ \A r \in Runs : runs[r] \in RunRecords
<1>1. /\ objects \in Seq(ObjectRecords) /\ Made <= MaxObjects
      /\ runs \in [Runs -> RunRecords] /\ kind \in {"native", "docker"} /\ current \in 0 .. Made
      /\ closed \subseteq Runs /\ killing \subseteq Runs /\ misjudged \subseteq Runs
  BY DEF AppInv, AppTypeOK, ObjectRecords, RunRecords
<1>2. Made \in Nat /\ Made = Len(objects) /\ \A o \in 1 .. Made : objects[o] \in ObjectRecords
  BY <1>1 DEF Made
<1>3. \A o \in 1 .. Made : ObjectAt(o, objects[o], current)
  BY DEF AppInv, ObjectsOK
<1> QED
  BY <1>1, <1>2, <1>3

\* One object rewritten, the registered one staying so.
LEMMA ObjectRewritten ==
  ASSUME AppInv, NEW o \in 1 .. Made, NEW x \in ObjectRecords, ObjectAt(o, x, current),
         objects' = [objects EXCEPT ![o] = x], current' = current
  PROVE  /\ objects' \in Seq(ObjectRecords) /\ Made' = Made /\ ObjectsOK' /\ objects'[o] = x
         /\ current' \in 0 .. Made'
         /\ \A i \in 1 .. Made : i # o => objects'[i] = objects[i]
<1>1. /\ objects \in Seq(ObjectRecords) /\ Made = Len(objects) /\ current \in 0 .. Made
      /\ \A i \in 1 .. Made : ObjectAt(i, objects[i], current)
  BY AppTypes
<1>2. /\ objects' \in Seq(ObjectRecords) /\ Len(objects') = Len(objects) /\ objects'[o] = x
      /\ \A i \in 1 .. Len(objects) : i # o => objects'[i] = objects[i]
  BY <1>1, ObjectPut
<1>3. Made' = Made
  BY <1>2 DEF Made
<1>4. \A i \in 1 .. Made : ObjectAt(i, objects'[i], current)
  BY <1>1, <1>2
<1>5. ObjectsOK'
  BY <1>3, <1>4 DEF ObjectsOK
<1> QED
  BY <1>1, <1>2, <1>3, <1>5

\* Processes that go down change nothing else of their runs.
LEMMA KilledRuns ==
  ASSUME AppInv, NEW K
  PROVE  /\ Killed(K) \in [Runs -> RunRecords]
         /\ \A r \in Runs : /\ Killed(K)[r].pc = runs[r].pc /\ Killed(K)[r].obj = runs[r].obj
                            /\ Killed(K)[r].up = (runs[r].up /\ r \notin K)
<1>1. \A r \in Runs : runs[r] \in RunRecords
  BY AppTypes
<1>2. ASSUME NEW r \in Runs
      PROVE  /\ Killed(K)[r] \in RunRecords /\ Killed(K)[r].pc = runs[r].pc
             /\ Killed(K)[r].obj = runs[r].obj /\ Killed(K)[r].up = (runs[r].up /\ r \notin K)
  <2>1. Killed(K)[r] = IF r \in K THEN [runs[r] EXCEPT !.up = FALSE] ELSE runs[r]
    BY DEF Killed
  <2>2. CASE r \in K
    BY <1>1, <2>1, <2>2 DEF RunRecords
  <2>3. CASE r \notin K
    <3>1. runs[r].up \in BOOLEAN
      BY <1>1 DEF RunRecords
    <3> QED
      BY <1>1, <2>1, <2>3, <3>1
  <2> QED
    BY <2>2, <2>3
<1> QED
  BY <1>2 DEF Killed

\* Stopping the processes of an object: the one it has registered is down, or
\* a docker command failed to end it.
LEMMA StopProcessesEffect ==
  ASSUME AppInv, NEW o \in 1 .. Made, StopProcesses(o)
  PROVE  /\ runs' \in [Runs -> RunRecords] /\ misjudged \subseteq misjudged' /\ misjudged' \subseteq Runs
         /\ \A r \in Runs : /\ runs'[r].pc = runs[r].pc /\ runs'[r].obj = runs[r].obj
                            /\ runs'[r].up => runs[r].up
                            /\ runs'[r].up /\ objects[o].cmd = r => r \in misjudged'
<1>1. /\ objects[o] \in ObjectRecords /\ runs \in [Runs -> RunRecords] /\ misjudged \subseteq Runs
      /\ kind \in {"native", "docker"}
  BY AppTypes
<1>2. StopTargets(o) \subseteq Runs
  BY <1>1, AppSupervisorAssumption DEF StopTargets, Up, Runs, None, ObjectRecords
<1>3. \A r \in Runs : runs[r].up /\ objects[o].cmd = r => r \in StopTargets(o)
  BY <1>1, AppBounds DEF StopTargets, Up
<1>4. CASE runs' = Killed(StopTargets(o)) /\ UNCHANGED misjudged
  <2>1. /\ runs' \in [Runs -> RunRecords]
        /\ \A r \in Runs : /\ runs'[r].pc = runs[r].pc /\ runs'[r].obj = runs[r].obj
                           /\ runs'[r].up = (runs[r].up /\ r \notin StopTargets(o))
    BY <1>4, KilledRuns
  <2> QED
    BY <1>1, <1>3, <1>4, <2>1
<1>5. CASE misjudged' = misjudged \cup StopTargets(o) /\ UNCHANGED runs
  BY <1>1, <1>2, <1>3, <1>5
<1> QED
  BY <1>4, <1>5 DEF StopProcesses

\* The invariant after a step, put together from its parts.
LEMMA AppInvFollows ==
  ASSUME objects' \in Seq(ObjectRecords), Made' <= MaxObjects, ObjectsOK',
         runs' \in [Runs -> RunRecords], kind' \in {"native", "docker"}, current' \in 0 .. Made',
         closed' \subseteq Runs, killing' \subseteq Runs, misjudged' \subseteq Runs,
         \A r \in Runs : runs'[r].pc # "unused" \/ runs'[r].up => runs'[r].obj \in 1 .. Made',
         \A r \in Runs : runs'[r].pc = "exited" /\ runs'[r].up => r \in misjudged',
         \A r \in Runs : runs'[r].up =>
             \/ runs'[r].pc \in {"spawned", "aborting"}
             \/ r \in killing' \cup misjudged'
             \/ runs'[r].obj = current' /\ objects'[runs'[r].obj].cmd = r /\ ~objects'[runs'[r].obj].stopped
  PROVE  AppInv'
<1>1. AppTypeOK'
  BY DEF AppTypeOK, ObjectRecords, RunRecords
<1>2. RunsPlaced' /\ ExitSeen' /\ NoProcessEscapes'
  BY DEF RunsPlaced, ExitSeen, NoProcessEscapes, Up, Obj
<1> QED
  BY <1>1, <1>2 DEF AppInv
\* A run that moves on without touching objects, with the process it had.
LEMMA RunMoves ==
  ASSUME AppInv, NEW r \in Runs, runs[r].pc \notin {"unused", "spawned", "aborting"},
         NEW pc \in {"spawn", "cleared", "removed", "over", "exited", "backoff"},
         ToPC(r, pc), misjudged \subseteq misjudged', misjudged' \subseteq Runs,
         pc = "exited" /\ runs[r].up => r \in misjudged',
         UNCHANGED <<kind, current, objects, closed, killing>>
  PROVE  AppInv'
<1> DEFINE x == [runs[r] EXCEPT !.pc = pc]
<1>1. runs \in [Runs -> RunRecords] /\ runs[r] \in RunRecords /\ Made' = Made
  BY AppTypes DEF Made
<1>2. runs' = [runs EXCEPT ![r] = x] /\ x \in RunRecords /\ x.pc = pc /\ x.obj = runs[r].obj /\ x.up = runs[r].up
  BY <1>1 DEF ToPC, RunRecords
<1> HIDE DEF x
<1>3. /\ runs' \in [Runs -> RunRecords] /\ runs'[r] = x
      /\ \A q \in Runs : q # r => runs'[q] = runs[q]
  BY <1>1, <1>2
<1>4. ObjectsOK'
  BY <1>1 DEF AppInv, ObjectsOK
<1>5. \A q \in Runs : /\ runs'[q].pc # "unused" \/ runs'[q].up => runs'[q].obj \in 1 .. Made'
                      /\ runs'[q].pc = "exited" /\ runs'[q].up => q \in misjudged'
  BY <1>1, <1>2, <1>3 DEF AppInv, RunsPlaced, ExitSeen
<1>6. \A q \in Runs : runs'[q].up =>
          \/ runs'[q].pc \in {"spawned", "aborting"}
          \/ q \in killing' \cup misjudged'
          \/ runs'[q].obj = current' /\ objects'[runs'[q].obj].cmd = q /\ ~objects'[runs'[q].obj].stopped
  BY <1>2, <1>3 DEF AppInv, NoProcessEscapes, Up, Obj
<1> QED
  BY <1>1, <1>3, <1>4, <1>5, <1>6, AppTypes, AppInvFollows

\* A step that changes objects and ends or moves runs: the process of a run that
\* is still up is accounted for as it was, or was misjudged.
LEMMA RunsRewritten ==
  ASSUME AppInv, runs' \in [Runs -> RunRecords], NEW o \in 1 .. Made, NEW x \in ObjectRecords,
         ObjectAt(o, x, current), objects' = [objects EXCEPT ![o] = x],
         UNCHANGED <<kind, current>>,
         closed' \subseteq Runs, killing' \subseteq Runs, misjudged \subseteq misjudged', misjudged' \subseteq Runs,
         \A q \in Runs : /\ runs'[q].pc # "unused" \/ runs'[q].up => runs'[q].obj \in 1 .. Made
                         /\ runs'[q].pc = "exited" /\ runs'[q].up => q \in misjudged',
         \A q \in Runs : runs'[q].up =>
             \/ runs'[q].pc \in {"spawned", "aborting"} \/ q \in killing' \cup misjudged'
             \/ runs'[q].obj = current /\ runs'[q].obj # o /\ objects[runs'[q].obj].cmd = q
                  /\ ~objects[runs'[q].obj].stopped
             \/ runs'[q].obj = current /\ runs'[q].obj = o /\ x.cmd = q /\ ~x.stopped
  PROVE  AppInv'
<1>1. /\ objects' \in Seq(ObjectRecords) /\ Made' = Made /\ ObjectsOK' /\ objects'[o] = x
      /\ current' \in 0 .. Made'
      /\ \A i \in 1 .. Made : i # o => objects'[i] = objects[i]
  BY ObjectRewritten
<1>2. kind \in {"native", "docker"} /\ Made <= MaxObjects
  BY AppTypes
<1>3. \A q \in Runs : runs'[q].up =>
          \/ runs'[q].pc \in {"spawned", "aborting"}
          \/ q \in killing' \cup misjudged'
          \/ runs'[q].obj = current' /\ objects'[runs'[q].obj].cmd = q /\ ~objects'[runs'[q].obj].stopped
  <2> SUFFICES ASSUME NEW q \in Runs, runs'[q].up, runs'[q].pc \notin {"spawned", "aborting"},
                      q \notin killing' \cup misjudged'
               PROVE  runs'[q].obj = current' /\ objects'[runs'[q].obj].cmd = q /\ ~objects'[runs'[q].obj].stopped
    OBVIOUS
  <2>1. CASE runs'[q].obj = current /\ runs'[q].obj # o /\ objects[runs'[q].obj].cmd = q
               /\ ~objects[runs'[q].obj].stopped
    BY <1>1, <2>1
  <2>2. CASE runs'[q].obj = current /\ runs'[q].obj = o /\ x.cmd = q /\ ~x.stopped
    BY <1>1, <2>2
  <2> QED
    BY <2>1, <2>2
<1> QED
  BY <1>1, <1>2, <1>3, AppInvFollows
\* A step of runs that leaves the objects alone.
LEMMA RunsOnly ==
  ASSUME AppInv, runs' \in [Runs -> RunRecords], misjudged' \subseteq Runs,
         UNCHANGED <<kind, current, objects, closed, killing>>,
         \A q \in Runs : /\ runs'[q].pc # "unused" \/ runs'[q].up => runs'[q].obj \in 1 .. Made
                         /\ runs'[q].pc = "exited" /\ runs'[q].up => q \in misjudged',
         \A q \in Runs : runs'[q].up =>
             \/ runs'[q].pc \in {"spawned", "aborting"} \/ q \in killing \cup misjudged'
             \/ runs'[q].obj = current /\ objects[runs'[q].obj].cmd = q /\ ~objects[runs'[q].obj].stopped
  PROVE  AppInv'
<1>1. Made' = Made
  BY DEF Made
<1>2. ObjectsOK'
  BY <1>1 DEF AppInv, ObjectsOK
<1> QED
  BY <1>1, <1>2, AppTypes, AppInvFollows

\* What the invariant says of one run.
LEMMA AppRun ==
  ASSUME AppInv, NEW q \in Runs
  PROVE  /\ runs[q].pc # "unused" \/ runs[q].up => runs[q].obj \in 1 .. Made
         /\ runs[q].pc = "exited" /\ runs[q].up => q \in misjudged
         /\ runs[q].up => \/ runs[q].pc \in {"spawned", "aborting"} \/ q \in killing \cup misjudged
                          \/ runs[q].obj = current /\ objects[runs[q].obj].cmd = q
                               /\ ~objects[runs[q].obj].stopped
BY DEF AppInv, RunsPlaced, ExitSeen, NoProcessEscapes, Up, Obj

\* Only channels of runs are closed.
LEMMA CloseChEffect ==
  ASSUME AppInv, NEW o \in 1 .. Made, CloseCh(o)
  PROVE  closed' \subseteq Runs
<1>1. objects[o] \in ObjectRecords /\ closed \subseteq Runs
  BY AppTypes
<1>2. objects[o].ch \in 0 .. MaxRuns
  BY <1>1 DEF ObjectRecords
<1>3. {objects[o].ch} \ {None} \subseteq Runs
  BY <1>2, AppSupervisorAssumption DEF Runs, None
<1> QED
  BY <1>1, <1>3 DEF CloseCh

\* Register: the registered process of the object replaced is ended.
LEMMA AppRegisterInv == AppInv /\ AppRegister => AppInv'
<1> SUFFICES ASSUME AppInv, AppRegister PROVE AppInv'
  OBVIOUS
<1>1. /\ objects \in Seq(ObjectRecords) /\ Made \in Nat /\ Made = Len(objects) /\ Made < MaxObjects
      /\ runs \in [Runs -> RunRecords] /\ kind \in {"native", "docker"} /\ current \in 0 .. Made
      /\ closed \subseteq Runs /\ killing \subseteq Runs /\ misjudged \subseteq Runs
      /\ \A o \in 1 .. Made : objects[o] \in ObjectRecords /\ ObjectAt(o, objects[o], current)
      /\ current' = Made + 1 /\ UNCHANGED <<kind, killing>> /\ MaxObjects \in Nat
  BY AppTypes, AppSupervisorAssumption DEF AppRegister
<1>2. ObjectAt(Made + 1, NewObject, Made + 1) /\ NewObject \in ObjectRecords
  BY AppBounds, AppSupervisorAssumption DEF ObjectAt, NewObject
<1>3. ASSUME NEW s \in Seq(ObjectRecords), Len(s) = Made, objects' = Append(s, NewObject),
             \A o \in 1 .. Made : ObjectAt(o, s[o], Made + 1)
      PROVE  /\ objects' \in Seq(ObjectRecords) /\ Made' = Made + 1 /\ ObjectsOK'
             /\ \A o \in 1 .. Made : objects'[o] = s[o]
  <2>1. /\ objects' \in Seq(ObjectRecords) /\ Len(objects') = Made + 1 /\ objects'[Made + 1] = NewObject
        /\ \A o \in 1 .. Made : objects'[o] = s[o]
    BY <1>1, <1>2, <1>3
  <2>2. Made' = Made + 1
    BY <2>1 DEF Made
  <2>3. \A o \in 1 .. Made + 1 : ObjectAt(o, objects'[o], Made + 1)
    BY <1>1, <1>2, <1>3, <2>1
  <2>4. ObjectsOK'
    BY <1>1, <2>2, <2>3 DEF ObjectsOK
  <2> QED
    BY <2>1, <2>2, <2>4
<1>4. CASE current = None
  <2>1. objects' = Append(objects, NewObject) /\ UNCHANGED <<runs, closed, misjudged>>
    BY <1>4 DEF AppRegister
  <2>2. \A o \in 1 .. Made : ObjectAt(o, objects[o], Made + 1)
    BY <1>1, <1>4 DEF ObjectAt, None
  <2>3. /\ objects' \in Seq(ObjectRecords) /\ Made' = Made + 1 /\ ObjectsOK'
        /\ \A o \in 1 .. Made : objects'[o] = objects[o]
    BY <1>1, <1>3, <2>1, <2>2
  <2>4. \A q \in Runs : /\ runs'[q].pc # "unused" \/ runs'[q].up => runs'[q].obj \in 1 .. Made'
                        /\ runs'[q].pc = "exited" /\ runs'[q].up => q \in misjudged'
    BY <1>1, <2>1, <2>3, AppRun
  <2>5. \A q \in Runs : runs'[q].up => runs'[q].pc \in {"spawned", "aborting"} \/ q \in killing' \cup misjudged'
    BY <1>1, <1>4, <2>1, AppRun DEF None
  <2>6. Made' <= MaxObjects /\ current' \in 0 .. Made'
    BY <1>1, <2>3
  <2> QED
    BY <1>1, <2>1, <2>3, <2>4, <2>5, <2>6, AppInvFollows
<1>5. CASE current # None
  <2> DEFINE x == [objects[current] EXCEPT !.stopped = TRUE, !.cmd = None]
             s == [objects EXCEPT ![current] = x]
  <2>1. current \in 1 .. Made /\ StopProcesses(current) /\ CloseCh(current)
    BY <1>1, <1>5 DEF AppRegister, None
  <2>2. StoppedObject(current) = s
    BY <1>1, <2>1 DEF StoppedObject, ObjectRecords
  <2>3. objects' = Append(s, NewObject)
    BY <1>5, <2>2 DEF AppRegister
  <2>4. x \in ObjectRecords /\ x.stopped /\ x.cmd = None /\ x.gave = objects[current].gave
        /\ x.count = objects[current].count
    BY <1>1, <2>1, AppBounds DEF ObjectRecords
  <2> HIDE DEF x
  <2>5. /\ s \in Seq(ObjectRecords) /\ Len(s) = Made /\ s[current] = x
        /\ \A i \in 1 .. Made : i # current => s[i] = objects[i]
    BY <1>1, <2>1, <2>4, ObjectPut
  <2> HIDE DEF s
  <2>6. \A o \in 1 .. Made : ObjectAt(o, s[o], Made + 1)
    BY <1>1, <2>1, <2>4, <2>5 DEF ObjectAt
  <2>7. objects' \in Seq(ObjectRecords) /\ Made' = Made + 1 /\ ObjectsOK'
    BY <1>3, <2>3, <2>5, <2>6
  <2>8. /\ runs' \in [Runs -> RunRecords] /\ misjudged \subseteq misjudged' /\ misjudged' \subseteq Runs
        /\ \A r \in Runs : /\ runs'[r].pc = runs[r].pc /\ runs'[r].obj = runs[r].obj
                           /\ runs'[r].up => runs[r].up
                           /\ runs'[r].up /\ objects[current].cmd = r => r \in misjudged'
    BY <2>1, StopProcessesEffect
  <2>9. closed' \subseteq Runs
    BY <2>1, CloseChEffect
  <2>10. \A q \in Runs : /\ runs'[q].pc # "unused" \/ runs'[q].up => runs'[q].obj \in 1 .. Made'
                         /\ runs'[q].pc = "exited" /\ runs'[q].up => q \in misjudged'
    BY <1>1, <2>7, <2>8, AppRun
  <2>11. \A q \in Runs : runs'[q].up => runs'[q].pc \in {"spawned", "aborting"} \/ q \in killing' \cup misjudged'
    BY <1>1, <2>8, AppRun
  <2>12. Made' <= MaxObjects /\ current' \in 0 .. Made'
    BY <1>1, <2>7
  <2> QED
    BY <1>1, <2>7, <2>8, <2>9, <2>10, <2>11, <2>12, AppInvFollows
<1> QED
  BY <1>4, <1>5

\* Unregister: the same, with no object in force afterwards.
LEMMA AppUnregisterInv == AppInv /\ AppUnregister => AppInv'
<1> SUFFICES ASSUME AppInv, AppUnregister PROVE AppInv'
  OBVIOUS
<1> DEFINE x == [objects[current] EXCEPT !.stopped = TRUE, !.cmd = None]
<1>1. /\ objects \in Seq(ObjectRecords) /\ Made \in Nat /\ Made = Len(objects) /\ Made <= MaxObjects
      /\ runs \in [Runs -> RunRecords] /\ kind \in {"native", "docker"} /\ current \in 1 .. Made
      /\ closed \subseteq Runs /\ killing \subseteq Runs /\ misjudged \subseteq Runs
      /\ \A o \in 1 .. Made : objects[o] \in ObjectRecords /\ ObjectAt(o, objects[o], current)
      /\ current' = None /\ UNCHANGED <<kind, killing>>
  BY AppTypes DEF AppUnregister, None
<1>2. objects' = [objects EXCEPT ![current] = x] /\ StopProcesses(current) /\ CloseCh(current)
  BY <1>1 DEF AppUnregister, StoppedObject, ObjectRecords
<1>3. x \in ObjectRecords /\ x.stopped /\ x.cmd = None /\ x.gave = objects[current].gave
      /\ x.count = objects[current].count
  BY <1>1, AppBounds DEF ObjectRecords
<1> HIDE DEF x
<1>4. /\ objects' \in Seq(ObjectRecords) /\ Len(objects') = Made /\ objects'[current] = x
      /\ \A i \in 1 .. Made : i # current => objects'[i] = objects[i]
  BY <1>1, <1>2, <1>3, ObjectPut
<1>5. Made' = Made
  BY <1>4 DEF Made
<1>6. \A o \in 1 .. Made : ObjectAt(o, objects'[o], None)
  BY <1>1, <1>3, <1>4 DEF ObjectAt
<1>7. ObjectsOK'
  BY <1>1, <1>5, <1>6 DEF ObjectsOK
<1>8. /\ runs' \in [Runs -> RunRecords] /\ misjudged \subseteq misjudged' /\ misjudged' \subseteq Runs
      /\ \A r \in Runs : /\ runs'[r].pc = runs[r].pc /\ runs'[r].obj = runs[r].obj
                         /\ runs'[r].up => runs[r].up
                         /\ runs'[r].up /\ objects[current].cmd = r => r \in misjudged'
  BY <1>1, <1>2, StopProcessesEffect
<1>9. closed' \subseteq Runs
  BY <1>1, <1>2, CloseChEffect
<1>10. \A q \in Runs : /\ runs'[q].pc # "unused" \/ runs'[q].up => runs'[q].obj \in 1 .. Made'
                       /\ runs'[q].pc = "exited" /\ runs'[q].up => q \in misjudged'
  BY <1>1, <1>5, <1>8, AppRun
<1>11. \A q \in Runs : runs'[q].up => runs'[q].pc \in {"spawned", "aborting"} \/ q \in killing' \cup misjudged'
  BY <1>1, <1>8, AppRun
<1>12. current' \in 0 .. Made'
  BY <1>1, <1>5 DEF None
<1> QED
  BY <1>1, <1>4, <1>5, <1>7, <1>8, <1>9, <1>10, <1>11, <1>12, AppInvFollows
\* Stop: the native process is put on the list of those being killed.
LEMMA AppStopInv == ASSUME AppInv, NEW o \in 1 .. Made, AppStop(o) PROVE AppInv'
<1> DEFINE x == [objects[o] EXCEPT !.stopped = TRUE]
           y == [objects[o] EXCEPT !.stopped = TRUE, !.cmd = None]
<1>1. /\ runs \in [Runs -> RunRecords] /\ objects[o] \in ObjectRecords /\ ObjectAt(o, objects[o], current)
      /\ killing \subseteq Runs /\ misjudged \subseteq Runs /\ closed \subseteq Runs
  BY AppTypes
<1>2. UNCHANGED <<kind, current>> /\ closed' \subseteq Runs
  BY CloseChEffect DEF AppStop
<1>3. CASE kind = "native"
  <2>1. /\ objects' = [objects EXCEPT ![o] = x] /\ killing' = killing \cup StopTargets(o)
        /\ UNCHANGED <<runs, misjudged>>
    BY <1>1, <1>3 DEF AppStop, ObjectRecords
  <2>2. x \in ObjectRecords /\ ObjectAt(o, x, current)
    BY <1>1 DEF ObjectRecords, ObjectAt
  <2> HIDE DEF x
  <2>3. StopTargets(o) \subseteq Runs /\ \A q \in Runs : objects[o].cmd = q => q \in StopTargets(o)
    BY <1>1, <1>3, AppBounds, AppSupervisorAssumption DEF StopTargets, Runs, None, ObjectRecords
  <2>4. \A q \in Runs : runs'[q].up =>
            \/ runs'[q].pc \in {"spawned", "aborting"} \/ q \in killing' \cup misjudged'
            \/ runs'[q].obj = current /\ runs'[q].obj # o /\ objects[runs'[q].obj].cmd = q
                 /\ ~objects[runs'[q].obj].stopped
    BY <2>1, <2>3, AppRun
  <2>5. runs' \in [Runs -> RunRecords] /\ killing' \subseteq Runs
        /\ misjudged \subseteq misjudged' /\ misjudged' \subseteq Runs
    BY <1>1, <2>1, <2>3
  <2>6. \A q \in Runs : /\ runs'[q].pc # "unused" \/ runs'[q].up => runs'[q].obj \in 1 .. Made
                        /\ runs'[q].pc = "exited" /\ runs'[q].up => q \in misjudged'
    BY <2>1, AppRun
  <2> QED
    BY <1>2, <2>1, <2>2, <2>4, <2>5, <2>6, RunsRewritten
<1>4. CASE kind # "native"
  <2>1. /\ objects' = [objects EXCEPT ![o] = y] /\ StopProcesses(o) /\ UNCHANGED killing
    BY <1>1, <1>4 DEF AppStop, StoppedObject, ObjectRecords
  <2>2. y \in ObjectRecords /\ ObjectAt(o, y, current)
    BY <1>1, AppBounds DEF ObjectRecords, ObjectAt
  <2> HIDE DEF y
  <2>3. /\ runs' \in [Runs -> RunRecords] /\ misjudged \subseteq misjudged' /\ misjudged' \subseteq Runs
        /\ \A r \in Runs : /\ runs'[r].pc = runs[r].pc /\ runs'[r].obj = runs[r].obj
                           /\ runs'[r].up => runs[r].up
                           /\ runs'[r].up /\ objects[o].cmd = r => r \in misjudged'
    BY <2>1, StopProcessesEffect
  <2>4. \A q \in Runs : runs'[q].up =>
            \/ runs'[q].pc \in {"spawned", "aborting"} \/ q \in killing' \cup misjudged'
            \/ runs'[q].obj = current /\ runs'[q].obj # o /\ objects[runs'[q].obj].cmd = q
                 /\ ~objects[runs'[q].obj].stopped
    BY <2>1, <2>3, AppRun
  <2>5. killing' \subseteq Runs
    BY <1>1, <2>1
  <2>6. \A q \in Runs : /\ runs'[q].pc # "unused" \/ runs'[q].up => runs'[q].obj \in 1 .. Made
                        /\ runs'[q].pc = "exited" /\ runs'[q].up => q \in misjudged'
    BY <2>3, AppRun
  <2> QED
    BY <1>2, <2>1, <2>2, <2>3, <2>4, <2>5, <2>6, RunsRewritten
<1> QED
  BY <1>3, <1>4

\* Start: nothing is registered on the object that the new run takes.
LEMMA AppStartInv == ASSUME AppInv, NEW r \in Runs, AppStart(r) PROVE AppInv'
<1> DEFINE x == [NewObject EXCEPT !.ch = r]
           y == [pc |-> "spawn", obj |-> current, up |-> FALSE]
<1>1. /\ runs \in [Runs -> RunRecords] /\ current \in 1 .. Made /\ Made \in Nat /\ Made <= MaxObjects
      /\ killing \subseteq Runs /\ misjudged \subseteq Runs /\ closed \subseteq Runs /\ MaxObjects \in Nat
  BY AppTypes, AppSupervisorAssumption DEF AppStart, None
<1>2. /\ objects[current].cmd = None /\ objects' = [objects EXCEPT ![current] = x]
      /\ runs' = [runs EXCEPT ![r] = y] /\ UNCHANGED <<kind, current, closed, killing, misjudged>>
  BY DEF AppStart
<1>3. x \in ObjectRecords /\ ObjectAt(current, x, current)
  <2>1. r \in 0 .. MaxRuns /\ None \in 0 .. MaxRuns
    BY AppBounds
  <2>2. NewObject \in ObjectRecords /\ NewObject.cmd = None /\ NewObject.count = 0
    BY AppBounds DEF NewObject
  <2>3. 0 \in 0 .. MaxCrashes /\ 0 < MaxCrashes
    BY AppSupervisorAssumption
  <2>4. x \in ObjectRecords /\ x.cmd = None /\ x.count = 0
    BY <2>1, <2>2 DEF ObjectRecords
  <2> HIDE DEF x
  <2> QED
    BY <2>3, <2>4 DEF ObjectAt
<1>4. y \in RunRecords /\ y.pc = "spawn" /\ y.obj = current /\ ~y.up
  BY <1>1 DEF RunRecords
<1> HIDE DEF x, y
<1>5. runs' \in [Runs -> RunRecords] /\ runs'[r] = y /\ \A q \in Runs : q # r => runs'[q] = runs[q]
  BY <1>1, <1>2, <1>4
<1>6. \A q \in Runs : /\ runs'[q].pc # "unused" \/ runs'[q].up => runs'[q].obj \in 1 .. Made
                      /\ runs'[q].pc = "exited" /\ runs'[q].up => q \in misjudged'
  BY <1>1, <1>2, <1>4, <1>5, AppRun
<1>7. \A q \in Runs : runs'[q].up =>
          \/ runs'[q].pc \in {"spawned", "aborting"} \/ q \in killing' \cup misjudged'
          \/ runs'[q].obj = current /\ runs'[q].obj # current /\ objects[runs'[q].obj].cmd = q
               /\ ~objects[runs'[q].obj].stopped
  BY <1>2, <1>4, <1>5, AppRun, AppBounds
<1>8. killing' \subseteq Runs /\ closed' \subseteq Runs /\ misjudged \subseteq misjudged' /\ misjudged' \subseteq Runs
  BY <1>1, <1>2
<1> QED
  BY <1>1, <1>2, <1>3, <1>5, <1>6, <1>7, <1>8, RunsRewritten

\* A run dropped from its object, when it is down or was misjudged.
LEMMA CmdCleared ==
  ASSUME AppInv, NEW r \in Runs, ClearCmd(r), runs' \in [Runs -> RunRecords],
         runs'[r].pc # "unused" => runs[r].pc # "unused", runs'[r].obj = runs[r].obj,
         \A q \in Runs : q # r => /\ runs'[q].pc = runs[q].pc /\ runs'[q].obj = runs[q].obj
                                  /\ runs'[q].up = runs[q].up,
         runs'[r].up => runs[r].up /\ r \in misjudged',
         killing' \subseteq Runs, \A q \in killing : q # r => q \in killing',
         misjudged \subseteq misjudged', misjudged' \subseteq Runs, UNCHANGED <<kind, current, closed>>
  PROVE  AppInv'
<1> DEFINE o == runs[r].obj
           x == [objects[o] EXCEPT !.cmd = IF objects[o].cmd = r THEN None ELSE objects[o].cmd]
<1>1. /\ runs \in [Runs -> RunRecords] /\ closed \subseteq Runs /\ objects \in Seq(ObjectRecords)
      /\ Made = Len(objects)
      /\ \A i \in 1 .. Made : objects[i] \in ObjectRecords /\ ObjectAt(i, objects[i], current)
  BY AppTypes
<1>2. \A q \in Runs : /\ runs'[q].pc # "unused" \/ runs'[q].up => runs'[q].obj \in 1 .. Made
                      /\ runs'[q].pc = "exited" /\ runs'[q].up => q \in misjudged'
  BY AppRun
<1>3. CASE o \in 1 .. Made
  <2>1. objects' = [objects EXCEPT ![o] = x]
    BY <1>1, <1>3 DEF ClearCmd, ObjectRecords
  <2>2. /\ x \in ObjectRecords /\ x.stopped = objects[o].stopped /\ x.ch = objects[o].ch
        /\ x.gave = objects[o].gave /\ x.count = objects[o].count
        /\ x.cmd = IF objects[o].cmd = r THEN None ELSE objects[o].cmd
    BY <1>1, <1>3, AppBounds DEF ObjectRecords
  <2> HIDE DEF x
  <2>3. ObjectAt(o, x, current)
    BY <1>1, <1>3, <2>2 DEF ObjectAt
  <2>4. \A q \in Runs : runs'[q].up =>
            \/ runs'[q].pc \in {"spawned", "aborting"} \/ q \in killing' \cup misjudged'
            \/ runs'[q].obj = current /\ runs'[q].obj # o /\ objects[runs'[q].obj].cmd = q
                 /\ ~objects[runs'[q].obj].stopped
            \/ runs'[q].obj = current /\ runs'[q].obj = o /\ x.cmd = q /\ ~x.stopped
    BY <2>2, AppRun
  <2>5. closed' \subseteq Runs
    BY <1>1
  <2> HIDE DEF o
  <2> QED
    BY <1>2, <1>3, <2>1, <2>2, <2>3, <2>4, <2>5, RunsRewritten
<1>4. CASE o \notin 1 .. Made
  <2>1. objects' = objects
    BY <1>1, <1>4 DEF ClearCmd
  <2>2. ~runs'[r].up
    BY <1>4, AppRun
  <2>3. \A q \in Runs : runs'[q].up =>
            \/ runs'[q].pc \in {"spawned", "aborting"} \/ q \in killing' \cup misjudged'
            \/ runs'[q].obj = current' /\ objects'[runs'[q].obj].cmd = q /\ ~objects'[runs'[q].obj].stopped
    BY <2>1, <2>2, AppRun
  <2>4. Made' = Made
    BY <2>1 DEF Made
  <2>5. ObjectsOK'
    BY <2>1, <2>4 DEF AppInv, ObjectsOK
  <2> QED
    BY <1>2, <2>1, <2>3, <2>4, <2>5, AppTypes, AppInvFollows
<1> QED
  BY <1>3, <1>4

\* The kill that a Stop left for after the lock.
LEMMA StopKillInv == ASSUME AppInv, NEW r \in Runs, StopKill(r) PROVE AppInv'
<1>1. killing \subseteq Runs /\ misjudged \subseteq Runs
  BY AppTypes
<1>2. /\ runs' = Killed({r}) /\ ClearCmd(r) /\ killing' = killing \ {r}
      /\ UNCHANGED <<kind, current, closed, misjudged>>
  BY DEF StopKill
<1>3. /\ runs' \in [Runs -> RunRecords]
      /\ \A q \in Runs : /\ runs'[q].pc = runs[q].pc /\ runs'[q].obj = runs[q].obj
                         /\ runs'[q].up = (runs[q].up /\ q \notin {r})
  BY <1>2, KilledRuns
<1>4. \A q \in Runs : q # r => /\ runs'[q].pc = runs[q].pc /\ runs'[q].obj = runs[q].obj
                               /\ runs'[q].up = runs[q].up
  <2> SUFFICES ASSUME NEW q \in Runs, q # r PROVE runs'[q].up = runs[q].up
    BY <1>3
  <2>1. runs[q].up \in BOOLEAN
    BY AppTypes DEF RunRecords
  <2> QED
    BY <1>3, <2>1
<1>5. ~runs'[r].up /\ runs'[r].pc = runs[r].pc /\ runs'[r].obj = runs[r].obj
  BY <1>3
<1>6. /\ killing' \subseteq Runs /\ (\A q \in killing : q # r => q \in killing')
      /\ misjudged \subseteq misjudged' /\ misjudged' \subseteq Runs
  BY <1>1, <1>2
<1> QED
  BY <1>2, <1>3, <1>4, <1>5, <1>6, CmdCleared
\* The recheck before a process is spawned.
LEMMA CheckSupersededInv == ASSUME AppInv, NEW r \in Runs, CheckSuperseded(r) PROVE AppInv'
<1> DEFINE pc == IF Superseded(r) THEN "over" ELSE "cleared"
<1>1. /\ runs[r].pc = "spawn" /\ ToPC(r, pc)
      /\ UNCHANGED <<kind, current, objects, closed, killing, misjudged>> /\ misjudged \subseteq Runs
  BY AppTypes DEF CheckSuperseded
<1>2. pc \in {"over", "cleared"}
  OBVIOUS
<1> HIDE DEF pc
<1>3. misjudged \subseteq misjudged' /\ misjudged' \subseteq Runs
  BY <1>1
<1> QED
  BY <1>1, <1>2, <1>3, RunMoves

\* docker rm -f leaves no container up.
LEMMA RemoveLeftoverInv == ASSUME AppInv, NEW r \in Runs, RemoveLeftover(r) PROVE AppInv'
<1> DEFINE K == Killed(Up)
           x == [K[r] EXCEPT !.pc = "removed"]
<1>1. /\ runs[r].pc = "cleared" /\ runs' = [K EXCEPT ![r].pc = "removed"]
      /\ UNCHANGED <<kind, current, objects, closed, killing, misjudged>> /\ misjudged \subseteq Runs
  BY AppTypes DEF RemoveLeftover
<1>2. /\ K \in [Runs -> RunRecords]
      /\ \A q \in Runs : /\ K[q].pc = runs[q].pc /\ K[q].obj = runs[q].obj
                         /\ K[q].up = (runs[q].up /\ q \notin Up)
  BY KilledRuns
<1>3. \A q \in Runs : ~K[q].up
  BY <1>2 DEF Up
<1> HIDE DEF K
<1>4. /\ runs' = [K EXCEPT ![r] = x] /\ x \in RunRecords /\ x.pc = "removed" /\ x.obj = runs[r].obj
      /\ ~x.up
  BY <1>1, <1>2, <1>3 DEF RunRecords
<1> HIDE DEF x
<1>5. /\ runs' \in [Runs -> RunRecords] /\ runs'[r] = x
      /\ \A q \in Runs : q # r => runs'[q] = K[q]
  BY <1>2, <1>4
<1>6. \A q \in Runs : /\ runs'[q].pc # "unused" => runs[q].pc # "unused"
                      /\ runs'[q].obj = runs[q].obj /\ ~runs'[q].up
  BY <1>1, <1>2, <1>3, <1>4, <1>5
<1>7. \A q \in Runs : /\ runs'[q].pc # "unused" \/ runs'[q].up => runs'[q].obj \in 1 .. Made
                      /\ runs'[q].pc = "exited" /\ runs'[q].up => q \in misjudged'
  BY <1>6, AppRun
<1> QED
  BY <1>1, <1>5, <1>6, <1>7, RunsOnly

\* One run rewritten with the objects left alone.
LEMMA RunRewritten ==
  ASSUME AppInv, NEW r \in Runs, runs[r].pc # "unused", NEW x \in RunRecords,
         runs' = [runs EXCEPT ![r] = x], x.obj = runs[r].obj, x.pc # "exited",
         x.up => x.pc \in {"spawned", "aborting"} \/ r \in misjudged'
                 \/ (x.pc = runs[r].pc /\ runs[r].up /\ (r \in misjudged => r \in misjudged')),
         misjudged' \subseteq Runs, \A q \in misjudged : q # r => q \in misjudged',
         UNCHANGED <<kind, current, objects, closed, killing>>
  PROVE  AppInv'
<1>1. /\ runs' \in [Runs -> RunRecords] /\ runs'[r] = x
      /\ \A q \in Runs : q # r => runs'[q] = runs[q]
  BY AppTypes
<1>2. \A q \in Runs : /\ runs'[q].pc # "unused" \/ runs'[q].up => runs'[q].obj \in 1 .. Made
                      /\ runs'[q].pc = "exited" /\ runs'[q].up => q \in misjudged'
  BY <1>1, AppRun
<1>3. \A q \in Runs : runs'[q].up =>
          \/ runs'[q].pc \in {"spawned", "aborting"} \/ q \in killing \cup misjudged'
          \/ runs'[q].obj = current /\ objects[runs'[q].obj].cmd = q /\ ~objects[runs'[q].obj].stopped
  BY <1>1, AppRun
<1> QED
  BY <1>1, <1>2, <1>3, RunsOnly

\* The spawn: a new process is one that somebody is about to register.
LEMMA SpawnInv == ASSUME AppInv, NEW r \in Runs, Spawn(r) PROVE AppInv'
<1>1. /\ runs[r].pc \in {"removed", "cleared"} /\ UNCHANGED <<kind, current, objects, closed, killing>>
      /\ runs[r] \in RunRecords /\ misjudged \subseteq Runs /\ runs \in [Runs -> RunRecords]
  BY AppTypes DEF Spawn
<1>2. CASE runs' = [runs EXCEPT ![r].pc = "spawned", ![r].up = TRUE] /\ misjudged' = misjudged \ {r}
  <2> DEFINE x == [runs[r] EXCEPT !.pc = "spawned", !.up = TRUE]
  <2>1. runs' = [runs EXCEPT ![r] = x] /\ x \in RunRecords /\ x.pc = "spawned" /\ x.obj = runs[r].obj
    BY <1>1, <1>2 DEF RunRecords
  <2> HIDE DEF x
  <2>2. misjudged' \subseteq Runs /\ \A q \in misjudged : q # r => q \in misjudged'
    BY <1>1, <1>2
  <2> QED
    BY <1>1, <2>1, <2>2, RunRewritten
<1>3. CASE ToPC(r, "over") /\ UNCHANGED misjudged
  <2>1. misjudged \subseteq misjudged' /\ misjudged' \subseteq Runs
    BY <1>1, <1>3
  <2> QED
    BY <1>1, <1>3, <2>1, RunMoves
<1> QED
  BY <1>2, <1>3 DEF Spawn

\* Under the lock again: the process is registered on the object in force, which
\* has no other, or its run sets out to end it.
LEMMA TakeOverInv == ASSUME AppInv, NEW r \in Runs, TakeOver(r) PROVE AppInv'
<1> DEFINE o == runs[r].obj
<1>1. /\ runs[r].pc = "spawned" /\ UNCHANGED <<kind, current, closed, killing, misjudged>>
      /\ runs[r] \in RunRecords /\ misjudged \subseteq Runs /\ runs \in [Runs -> RunRecords]
      /\ killing \subseteq Runs /\ closed \subseteq Runs
  BY AppTypes DEF TakeOver
<1>2. CASE Superseded(r)
  <2> DEFINE x == [runs[r] EXCEPT !.pc = "aborting"]
  <2>1. /\ runs' = [runs EXCEPT ![r] = x] /\ x \in RunRecords /\ x.pc = "aborting" /\ x.obj = runs[r].obj
        /\ UNCHANGED objects
    BY <1>1, <1>2 DEF TakeOver, ToPC, RunRecords
  <2> HIDE DEF x
  <2>2. misjudged' \subseteq Runs /\ \A q \in misjudged : q # r => q \in misjudged'
    BY <1>1
  <2> QED
    BY <1>1, <2>1, <2>2, RunRewritten
<1>3. CASE ~Superseded(r)
  <2> DEFINE x == [runs[r] EXCEPT !.pc = "live"]
             y == [objects[o] EXCEPT !.cmd = r]
  <2>1. o \in 1 .. Made /\ objects[o] \in ObjectRecords /\ ObjectAt(o, objects[o], current)
    BY <1>1, AppRun, AppTypes
  <2>2. o = current /\ objects[o].ch = r /\ ~objects[o].stopped
    BY <1>3, <2>1 DEF Superseded, Obj, ObjectAt
  <2>3. /\ runs' = [runs EXCEPT ![r] = x] /\ x \in RunRecords /\ x.pc = "live" /\ x.obj = o
    BY <1>1, <1>3 DEF TakeOver, ToPC, RunRecords
  <2>4. objects' = [objects EXCEPT ![o] = y]
    BY <1>1, <1>3, <2>1 DEF TakeOver, ObjectRecords
  <2>5. /\ y \in ObjectRecords /\ y.cmd = r /\ y.stopped = objects[o].stopped /\ y.ch = objects[o].ch
        /\ y.gave = objects[o].gave /\ y.count = objects[o].count
    BY <2>1, AppBounds DEF ObjectRecords
  <2> HIDE DEF x, y, o
  <2>6. ObjectAt(o, y, current)
    BY <2>1, <2>2, <2>5 DEF ObjectAt
  <2>7. /\ runs' \in [Runs -> RunRecords] /\ runs'[r] = x
        /\ \A q \in Runs : q # r => runs'[q] = runs[q]
    BY <1>1, <2>3
  <2>8. \A q \in Runs : /\ runs'[q].pc # "unused" \/ runs'[q].up => runs'[q].obj \in 1 .. Made
                        /\ runs'[q].pc = "exited" /\ runs'[q].up => q \in misjudged'
    BY <1>1, <2>1, <2>3, <2>7, AppRun
  <2>9. \A q \in Runs : q # r => objects[o].cmd # q
    BY <2>1, <2>2, AppBounds DEF ObjectAt
  <2>10. \A q \in Runs : runs'[q].up =>
             \/ runs'[q].pc \in {"spawned", "aborting"} \/ q \in killing' \cup misjudged'
             \/ runs'[q].obj = current /\ runs'[q].obj # o /\ objects[runs'[q].obj].cmd = q
                  /\ ~objects[runs'[q].obj].stopped
             \/ runs'[q].obj = current /\ runs'[q].obj = o /\ y.cmd = q /\ ~y.stopped
    BY <1>1, <2>2, <2>3, <2>5, <2>7, <2>9, AppRun
  <2>11. killing' \subseteq Runs /\ closed' \subseteq Runs /\ misjudged \subseteq misjudged' /\ misjudged' \subseteq Runs
    BY <1>1
  <2> QED
    BY <1>1, <2>1, <2>4, <2>5, <2>6, <2>7, <2>8, <2>10, <2>11, RunsRewritten
<1> QED
  BY <1>2, <1>3

\* The end of an overtaken run's own process.
LEMMA AbortKillInv == ASSUME AppInv, NEW r \in Runs, AbortKill(r) PROVE AppInv'
<1>1. /\ runs[r].pc = "aborting" /\ UNCHANGED <<kind, current, objects, closed, killing>>
      /\ runs[r] \in RunRecords /\ misjudged \subseteq Runs /\ runs \in [Runs -> RunRecords]
  BY AppTypes DEF AbortKill
<1>2. CASE runs' = [Killed({r}) EXCEPT ![r].pc = "over"] /\ UNCHANGED misjudged
  <2> DEFINE x == [runs[r] EXCEPT !.up = FALSE, !.pc = "over"]
  <2>1. Killed({r}) = [runs EXCEPT ![r] = [runs[r] EXCEPT !.up = FALSE]]
    BY <1>1 DEF Killed
  <2>2. /\ runs' = [runs EXCEPT ![r] = x] /\ x \in RunRecords /\ x.pc = "over" /\ x.obj = runs[r].obj
        /\ ~x.up
    BY <1>1, <1>2, <2>1 DEF RunRecords
  <2> HIDE DEF x
  <2>3. misjudged' \subseteq Runs /\ \A q \in misjudged : q # r => q \in misjudged'
    BY <1>1, <1>2
  <2> QED
    BY <1>1, <2>2, <2>3, RunRewritten
<1>3. CASE ToPC(r, "over") /\ misjudged' = misjudged \cup {r}
  <2> DEFINE x == [runs[r] EXCEPT !.pc = "over"]
  <2>1. /\ runs' = [runs EXCEPT ![r] = x] /\ x \in RunRecords /\ x.pc = "over" /\ x.obj = runs[r].obj
    BY <1>1, <1>3 DEF ToPC, RunRecords
  <2> HIDE DEF x
  <2>2. r \in misjudged' /\ misjudged' \subseteq Runs /\ \A q \in misjudged : q # r => q \in misjudged'
    BY <1>1, <1>3
  <2> QED
    BY <1>1, <2>1, <2>2, RunRewritten
<1> QED
  BY <1>2, <1>3 DEF AbortKill

\* A process that ends by itself.
LEMMA AppExitsInv == ASSUME AppInv, NEW r \in Runs, AppExits(r) PROVE AppInv'
<1>1. /\ runs' = Killed({r}) /\ UNCHANGED <<kind, current, objects, closed, killing, misjudged>>
      /\ misjudged \subseteq Runs
  BY AppTypes DEF AppExits
<1>2. /\ runs' \in [Runs -> RunRecords]
      /\ \A q \in Runs : /\ runs'[q].pc = runs[q].pc /\ runs'[q].obj = runs[q].obj
                         /\ runs'[q].up = (runs[q].up /\ q \notin {r})
  BY <1>1, KilledRuns
<1>3. \A q \in Runs : /\ runs'[q].pc # "unused" \/ runs'[q].up => runs'[q].obj \in 1 .. Made
                      /\ runs'[q].pc = "exited" /\ runs'[q].up => q \in misjudged'
  BY <1>1, <1>2, AppRun
<1>4. \A q \in Runs : runs'[q].up =>
          \/ runs'[q].pc \in {"spawned", "aborting"} \/ q \in killing \cup misjudged'
          \/ runs'[q].obj = current /\ objects[runs'[q].obj].cmd = q /\ ~objects[runs'[q].obj].stopped
  BY <1>1, <1>2, AppRun
<1>5. misjudged' \subseteq Runs
  BY <1>1
<1> QED
  BY <1>1, <1>2, <1>3, <1>4, <1>5, RunsOnly

\* Wait returned: a run whose channel is closed ends, any other is to be judged.
LEMMA MonitorWakesInv == ASSUME AppInv, NEW r \in Runs, MonitorWakes(r) PROVE AppInv'
<1>1. /\ runs[r].pc = "live" /\ UNCHANGED <<kind, current, closed, killing>>
      /\ misjudged' = misjudged \cup ({r} \cap Up)
      /\ runs[r] \in RunRecords /\ misjudged \subseteq Runs /\ runs \in [Runs -> RunRecords]
      /\ killing \subseteq Runs
  BY AppTypes DEF MonitorWakes
<1>2. misjudged \subseteq misjudged' /\ misjudged' \subseteq Runs /\ (runs[r].up => r \in misjudged')
  BY <1>1 DEF Up
<1>3. CASE r \in closed
  <2> DEFINE x == [runs[r] EXCEPT !.pc = "over"]
  <2>1. /\ ClearCmd(r) /\ runs' = [runs EXCEPT ![r] = x] /\ x \in RunRecords
        /\ x.obj = runs[r].obj /\ x.up = runs[r].up
    BY <1>1, <1>3 DEF MonitorWakes, ToPC, RunRecords
  <2> HIDE DEF x
  <2>2. /\ runs' \in [Runs -> RunRecords] /\ runs'[r] = x
        /\ \A q \in Runs : q # r => runs'[q] = runs[q]
    BY <1>1, <2>1
  <2>3. /\ runs'[r].obj = runs[r].obj /\ (runs'[r].up => runs[r].up /\ r \in misjudged')
        /\ killing' \subseteq Runs /\ \A q \in killing : q # r => q \in killing'
    BY <1>1, <1>2, <2>1, <2>2
  <2>4. \A q \in Runs : q # r => /\ runs'[q].pc = runs[q].pc /\ runs'[q].obj = runs[q].obj
                                 /\ runs'[q].up = runs[q].up
    BY <2>2
  <2> QED
    BY <1>1, <1>2, <2>1, <2>2, <2>3, <2>4, CmdCleared
<1>4. CASE r \notin closed
  <2>1. ToPC(r, "exited") /\ UNCHANGED objects
    BY <1>4 DEF MonitorWakes
  <2> QED
    BY <1>1, <1>2, <2>1, RunMoves
<1> QED
  BY <1>3, <1>4

\* The crash-loop bookkeeping: the run judged has no process left to lose.
LEMMA MonitorDecidesInv ==
  ASSUME AppInv, NEW r \in Runs, NEW healthyFor \in BOOLEAN, MonitorDecides(r, healthyFor)
  PROVE  AppInv'
<1> DEFINE o == runs[r].obj
           n == IF healthyFor THEN 0 ELSE objects[o].count + 1
           live == IF objects[o].cmd = r THEN None ELSE objects[o].cmd
           x == [objects[o] EXCEPT !.cmd = live]
           y == [objects[o] EXCEPT !.cmd = live, !.count = n, !.gave = (n >= MaxCrashes)]
<1>1. /\ runs[r].pc = "exited" /\ UNCHANGED <<kind, current, closed, killing, misjudged>>
      /\ runs[r] \in RunRecords /\ misjudged \subseteq Runs /\ runs \in [Runs -> RunRecords]
      /\ killing \subseteq Runs /\ closed \subseteq Runs
  BY AppTypes DEF MonitorDecides
<1>2. o \in 1 .. Made /\ objects[o] \in ObjectRecords /\ ObjectAt(o, objects[o], current)
  BY <1>1, AppRun, AppTypes
<1>3. live \in 0 .. MaxRuns /\ live \in {None, objects[o].cmd}
  BY <1>2, AppBounds DEF ObjectRecords
<1>4. x \in ObjectRecords /\ x.cmd = live /\ x.stopped = objects[o].stopped /\ ObjectAt(o, x, current)
  BY <1>2, <1>3 DEF ObjectRecords, ObjectAt
<1>5. ASSUME ~objects[o].gave
      PROVE  y \in ObjectRecords /\ y.cmd = live /\ y.stopped = objects[o].stopped /\ ObjectAt(o, y, current)
  <2>1. n \in 0 .. MaxCrashes
    BY <1>2, <1>5, AppSupervisorAssumption DEF ObjectRecords, ObjectAt
  <2>2. (n >= MaxCrashes) \in BOOLEAN
    OBVIOUS
  <2> HIDE DEF n, live
  <2>3. /\ y \in ObjectRecords /\ y.cmd = live /\ y.stopped = objects[o].stopped /\ y.ch = objects[o].ch
        /\ y.count = n /\ y.gave = (n >= MaxCrashes)
    BY <1>2, <1>3, <2>1, <2>2 DEF ObjectRecords
  <2> HIDE DEF y
  <2>4. ~y.gave => y.count < MaxCrashes
    <3>1. ~(n >= MaxCrashes) => n < MaxCrashes
      BY <2>1, AppSupervisorAssumption
    <3> QED
      BY <2>3, <3>1, Zenon
  <2>5. ObjectAt(o, y, current)
    BY <1>2, <1>3, <2>3, <2>4 DEF ObjectAt
  <2> QED
    BY <2>3, <2>5
<1>6. /\ ~objects[o].gave => objects' = [objects EXCEPT ![o] = y]
      /\ objects[o].gave => objects' = [objects EXCEPT ![o] = x]
  BY <1>2 DEF MonitorDecides, ObjectRecords
<1>7. PICK z \in ObjectRecords : /\ objects' = [objects EXCEPT ![o] = z] /\ z.cmd = live
                                 /\ z.stopped = objects[o].stopped /\ ObjectAt(o, z, current)
  <2> HIDE DEF o, n, live, x, y
  <2> QED
    BY <1>4, <1>5, <1>6
<1>8. PICK pc \in {"over", "backoff"} : ToPC(r, pc)
  BY DEF MonitorDecides
<1> DEFINE w == [runs[r] EXCEPT !.pc = pc]
<1>9. /\ runs' = [runs EXCEPT ![r] = w] /\ w \in RunRecords /\ w.pc = pc
      /\ w.obj = runs[r].obj /\ w.up = runs[r].up
  BY <1>1, <1>8 DEF ToPC, RunRecords
<1> HIDE DEF w
<1>10. /\ runs' \in [Runs -> RunRecords] /\ runs'[r] = w
       /\ \A q \in Runs : q # r => runs'[q] = runs[q]
  BY <1>1, <1>9
<1>11. \A q \in Runs : /\ runs'[q].pc # "unused" \/ runs'[q].up => runs'[q].obj \in 1 .. Made
                       /\ runs'[q].pc = "exited" /\ runs'[q].up => q \in misjudged'
  BY <1>1, <1>9, <1>10, AppRun
<1>12. \A q \in Runs : q # r /\ objects[o].cmd = q => live = q
  BY AppBounds
<1> HIDE DEF live
<1>13. \A q \in Runs : runs'[q].up =>
           \/ runs'[q].pc \in {"spawned", "aborting"} \/ q \in killing' \cup misjudged'
           \/ runs'[q].obj = current /\ runs'[q].obj # o /\ objects[runs'[q].obj].cmd = q
                /\ ~objects[runs'[q].obj].stopped
           \/ runs'[q].obj = current /\ runs'[q].obj = o /\ z.cmd = q /\ ~z.stopped
  BY <1>1, <1>7, <1>9, <1>10, <1>12, AppRun
<1>14. killing' \subseteq Runs /\ closed' \subseteq Runs /\ misjudged \subseteq misjudged' /\ misjudged' \subseteq Runs
  BY <1>1
<1> HIDE DEF o
<1> QED
  BY <1>1, <1>2, <1>7, <1>10, <1>11, <1>13, <1>14, RunsRewritten

\* The wait before a restart ends.
LEMMA BackoffEndsInv == ASSUME AppInv, NEW r \in Runs, BackoffEnds(r) PROVE AppInv'
<1> DEFINE pc == IF r \in closed THEN "over" ELSE "spawn"
<1>1. /\ runs[r].pc = "backoff" /\ ToPC(r, pc)
      /\ UNCHANGED <<kind, current, objects, closed, killing, misjudged>> /\ misjudged \subseteq Runs
  BY AppTypes DEF BackoffEnds
<1>2. pc \in {"over", "spawn"}
  OBVIOUS
<1> HIDE DEF pc
<1>3. misjudged \subseteq misjudged' /\ misjudged' \subseteq Runs
  BY <1>1
<1> QED
  BY <1>1, <1>2, <1>3, RunMoves

\* The probe after docker run that takes a container for gone.
LEMMA ProbeFailsInv == ASSUME AppInv, NEW r \in Runs, ProbeFails(r) PROVE AppInv'
<1>1. /\ ClearCmd(r) /\ UNCHANGED <<kind, current, runs, closed, killing>>
      /\ misjudged' = misjudged \cup ({r} \cap Up)
      /\ misjudged \subseteq Runs /\ runs \in [Runs -> RunRecords] /\ killing \subseteq Runs
  BY AppTypes DEF ProbeFails
<1>2. misjudged \subseteq misjudged' /\ misjudged' \subseteq Runs /\ (runs[r].up => r \in misjudged')
  BY <1>1 DEF Up
<1>3. /\ runs' \in [Runs -> RunRecords] /\ runs'[r].obj = runs[r].obj
      /\ (runs'[r].up => runs[r].up /\ r \in misjudged') /\ (runs'[r].pc # "unused" => runs[r].pc # "unused")
      /\ killing' \subseteq Runs /\ \A q \in killing : q # r => q \in killing'
  BY <1>1, <1>2
<1>4. \A q \in Runs : q # r => /\ runs'[q].pc = runs[q].pc /\ runs'[q].obj = runs[q].obj
                               /\ runs'[q].up = runs[q].up
  BY <1>1
<1> QED
  BY <1>1, <1>2, <1>3, <1>4, CmdCleared

-----------------------------------------------------------------------------
(* AppSupervisor: theorems *)

\* Every step of the supervisor keeps its invariant.
LEMMA AppStepInv == AppInv /\ [AppNext]_appVars => AppInv'
<1> SUFFICES ASSUME AppInv, [AppNext]_appVars PROVE AppInv'
  OBVIOUS
<1>1. CASE UNCHANGED appVars
  BY <1>1 DEF appVars, AppInv, AppTypeOK, ObjectsOK, RunsPlaced, ExitSeen, NoProcessEscapes, Up, Obj, Made
<1>2. ASSUME NEW r \in Runs,
             \/ AppStart(r) \/ StopKill(r)
             \/ CheckSuperseded(r) \/ RemoveLeftover(r) \/ Spawn(r)
             \/ TakeOver(r) \/ AbortKill(r) \/ AppExits(r)
             \/ MonitorWakes(r) \/ BackoffEnds(r) \/ ProbeFails(r)
             \/ \E healthyFor \in BOOLEAN : MonitorDecides(r, healthyFor)
      PROVE  AppInv'
  BY <1>2, AppStartInv, StopKillInv, CheckSupersededInv, RemoveLeftoverInv, SpawnInv, TakeOverInv,
     AbortKillInv, AppExitsInv, MonitorWakesInv, BackoffEndsInv, ProbeFailsInv, MonitorDecidesInv
<1> QED
  BY <1>1, <1>2, AppRegisterInv, AppUnregisterInv, AppStopInv DEF AppNext

\* At the start nothing is registered and nothing runs.
LEMMA AppInitInv == AppInit => AppInv
<1> SUFFICES ASSUME AppInit PROVE AppInv
  OBVIOUS
<1>1. /\ kind \in {"native", "docker"} /\ current = 0 /\ objects = <<>>
      /\ runs = [r \in Runs |-> Unused] /\ closed = {} /\ killing = {} /\ misjudged = {}
  BY DEF AppInit, None
<1>2. Made = 0 /\ Made <= MaxObjects
  BY <1>1, AppSupervisorAssumption DEF Made
<1>3. runs \in [Runs -> RunRecords] /\ \A r \in Runs : runs[r].pc = "unused" /\ ~runs[r].up
  BY <1>1, AppBounds DEF Unused
<1>4. objects \in Seq(ObjectRecords) /\ current \in 0 .. Made
  BY <1>1, <1>2
<1>5. AppTypeOK
  BY <1>1, <1>2, <1>3, <1>4 DEF AppTypeOK, ObjectRecords, RunRecords
<1>6. ObjectsOK
  BY <1>2 DEF ObjectsOK
<1>7. RunsPlaced /\ ExitSeen /\ NoProcessEscapes
  BY <1>3 DEF RunsPlaced, ExitSeen, NoProcessEscapes, Up
<1> QED
  BY <1>5, <1>6, <1>7 DEF AppInv

\* The invariant of the application supervisor holds throughout.
THEOREM AppInvariant == AppSpec => []AppInv
<1> QED
  BY AppInitInv, AppStepInv, PTL DEF AppSpec

\* No process escapes the supervisor, whatever the order of starts, stops,
\* replacements, crashes and delayed restarts.
THEOREM ProcessesHeld == AppSpec => []NoProcessEscapes
<1>1. AppInv => NoProcessEscapes
  BY DEF AppInv
<1> QED
  BY <1>1, AppInvariant, PTL

-----------------------------------------------------------------------------
(* The components together *)

\* Each component of MC_Operations behaves as its own specification says: a step
\* of the composition is a step of the component in focus and leaves the others
\* at rest.
THEOREM OperationsComposes ==
  OperationsSpec => /\ AccountsSpec /\ AppSpec /\ BackupSpec
                    /\ DeploySpec /\ FirewallSpec /\ UptimeSpec
<1>1. OperationsInit => /\ AccountsInit /\ AppInit /\ BackupInit
                        /\ DeployInit /\ FirewallInit /\ UptimeInit
  BY DEF OperationsInit
<1>2. [OperationsNext]_operationsVars => [AccountsNext]_accountVars
  BY DEF OperationsNext, operationsVars, accountVars
<1>3. [OperationsNext]_operationsVars => [AppNext]_appVars
  BY DEF OperationsNext, operationsVars, appVars
<1>4. [OperationsNext]_operationsVars => [BackupNext]_backupVars
  BY DEF OperationsNext, operationsVars, backupVars
<1>5. [OperationsNext]_operationsVars => [DeployNext]_deployVars
  BY DEF OperationsNext, operationsVars, deployVars
<1>6. [OperationsNext]_operationsVars => [FirewallNext]_firewallVars
  BY DEF OperationsNext, operationsVars, firewallVars
<1>7. [OperationsNext]_operationsVars => [UptimeNext]_uptimeVars
  BY DEF OperationsNext, operationsVars, uptimeVars
<1> QED
  BY <1>1, <1>2, <1>3, <1>4, <1>5, <1>6, <1>7, PTL DEF OperationsSpec,
     AccountsSpec, AppSpec, BackupSpec, DeploySpec, FirewallSpec, UptimeSpec

\* The invariants of the components give the types and bounds of the whole.
THEOREM OperationsTypes == OperationsSpec => []OperationsTypeOK
<1>1. AppInv /\ BackupInv /\ DeployInv /\ FirewallInv /\ UptimeInv
      => AppTypeOK /\ BackupTypeOK /\ DeployTypeOK /\ FirewallTypeOK /\ UptimeTypeOK
  BY DEF AppInv, BackupInv, DeployInv, FirewallInv, UptimeInv
<1>2. /\ AccountsInv /\ AppInv /\ BackupInv /\ DeployInv /\ FirewallInv /\ UptimeInv
      => OperationsTypeOK
  BY <1>1, AccountsTypes DEF OperationsTypeOK
<1> QED
  BY <1>2, OperationsComposes, AccountsInvariant, AppInvariant, BackupInvariant, DeployInvariant,
     FirewallInvariant, UptimeInvariant, PTL
==============================================================================
