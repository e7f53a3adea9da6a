------------------------------ MODULE Accounts ------------------------------
(***************************************************************************)
(* internal/auth: users and sessions of the admin panel and the two files  *)
(* they are kept in.  API keys and the lockout of password guesses are     *)
(* left out.                                                               *)
(*                                                                         *)
(* m.mu is held for the length of an action, except while a revocation     *)
(* waits for sessionsPersistMu: `revoking' names the account whose         *)
(* sessions are about to be dropped with m.mu held.  bcrypt runs without   *)
(* the lock, so a login or a password change is two actions.  A fresh      *)
(* number stands for every random value: a user ID, a bcrypt hash, a       *)
(* session token.  Time is left out: any session may be found expired, and *)
(* one read back from sessions.json may be found valid still.              *)
(***************************************************************************)
EXTENDS Naturals, FiniteSets

CONSTANTS Names,        \* user names
          Admins,       \* those created with RoleAdmin
          Clients,      \* concurrent requests, and the cleanup goroutine
          MaxSessions,  \* maxSessionsPerUser
          MaxFresh,     \* bound: random values drawn
          MaxRestarts   \* bound: crashes

ASSUME AccountsAssumption ==
    /\ Admins \subseteq Names
    /\ MaxSessions \in Nat \ {0} /\ MaxFresh \in Nat /\ MaxRestarts \in Nat

VARIABLES users,      \* username -> [id, pw, on]
          usersFile,  \* users.json
          sessions,   \* set of [token, id, pw]
          sessFile,   \* sessions.json
          sessDirty,  \* sessionsDirty
          client,     \* what each request is doing
          sessSaving, \* snapshots being written: sessionsPersistMu is held
          revoking,   \* user ID whose sessions are being dropped, m.mu held
          drawn,      \* random values drawn so far
          restarts,
          barred      \* history: tokens revoked for good (see RevokedStaysOut)

userVars    == <<users, usersFile>>
sessionVars == <<sessions, sessFile, sessDirty>>
lockVars    == <<sessSaving, revoking>>
accountVars == <<userVars, sessionVars, client, lockVars, drawn, restarts, barred>>

Values   == 1 .. MaxFresh
NoOne    == 0
User     == [id : Values, pw : Values, on : BOOLEAN]
UserMap  == UNION {[N -> User] : N \in SUBSET Names}
Session  == [token : Values, id : Values, pw : Values]
IdlePC   == [pc |-> "idle"]
SavePC   == [pc |-> "save"]
Checking == [pc : {"login", "change"}, name : Names, user : User]

AccountsInit ==
    /\ users = <<>> /\ usersFile = <<>>
    /\ sessions = {} /\ sessFile = {} /\ sessDirty = FALSE
    /\ client = [c \in Clients |-> IdlePC]
    /\ sessSaving = {} /\ revoking = NoOne
    /\ drawn = 0 /\ restarts = 0 /\ barred = {}

-----------------------------------------------------------------------------
(* Helpers *)

MuFree     == revoking = NoOne
Fresh      == drawn + 1
Draw       == drawn < MaxFresh /\ drawn' = Fresh
Tokens(S)  == {s.token : s \in S}
OwnedBy(i) == {s \in sessions : s.id = i}
With(f, x, v) == [y \in DOMAIN f \cup {x} |-> IF y = x THEN v ELSE f[y]]
Without(f, x) == [y \in DOMAIN f \ {x} |-> f[y]]

\* Mutant: the password fingerprint is not compared.
AdmitsAnyPassword(s) == \E n \in DOMAIN users : users[n].id = s.id /\ users[n].on

\* ValidateSession admits s.
Admits(s) == \E n \in DOMAIN users : users[n].id = s.id /\ users[n].on /\ users[n].pw = s.pw

OtherEnabledAdmin(n) == \E o \in DOMAIN users \ {n} : o \in Admins /\ users[o].on
LastAdmin(n) == n \in Admins /\ users[n].on /\ ~OtherEnabledAdmin(n)

\* evictOldestSessionsLocked: tokens grow, so the oldest has the smallest.
Evict(S, i) ==
    {s \in S : s.id = i =>
        Cardinality({o \in S : o.id = i /\ o.token > s.token}) < MaxSessions}

\* saveUsers: a failed write leaves users.json as it was.
SaveUsers(saved) == usersFile' = IF saved THEN users' ELSE usersFile

\* writeSessionsFile and sessionsDirty
WriteFile(out, saved) ==
    /\ sessFile' = IF saved THEN out ELSE sessFile
    /\ sessDirty' = ~saved

-----------------------------------------------------------------------------
(* Users *)

\* createUserLocked: a failed write rolls the new user back.
CreateUser(n) ==
    /\ MuFree /\ n \notin DOMAIN users
    /\ Draw
    /\ \/ users' = With(users, n, [id |-> Fresh, pw |-> Fresh, on |-> TRUE]) /\ SaveUsers(TRUE)
       \/ UNCHANGED userVars
    /\ UNCHANGED <<sessionVars, client, lockVars, restarts, barred>>

CreateFirstAdmin(n) == users = <<>> /\ n \in Admins /\ CreateUser(n)

\* The sessions of user i go next; a saved revocation is for good.
StartRevoke(i, saved) ==
    /\ revoking' = IF OwnedBy(i) = {} THEN NoOne ELSE i
    /\ barred' = IF saved THEN barred \cup Tokens(OwnedBy(i)) ELSE barred

\* A new hash: by an admin (updateUser), or at the end of ChangePassword.
SetPassword(n) ==
    /\ Draw
    /\ users' = [users EXCEPT ![n].pw = Fresh]
    /\ \E saved \in BOOLEAN : SaveUsers(saved) /\ StartRevoke(users[n].id, saved)

ResetPassword(n) ==
    /\ MuFree /\ n \in DOMAIN users
    /\ SetPassword(n)
    /\ UNCHANGED <<sessionVars, client, sessSaving, restarts>>

\* UpdateUserKeepAdmin with Enabled set.  Sessions of a disabled account are
\* dropped but not revoked for good: once it is enabled again, one that a crash
\* kept in sessions.json is admitted.
SetEnabled(n, on) ==
    /\ MuFree /\ n \in DOMAIN users /\ users[n].on # on
    /\ ~on => ~LastAdmin(n)
    /\ users' = [users EXCEPT ![n].on = on]
    /\ \E saved \in BOOLEAN : SaveUsers(saved)
    /\ revoking' = IF on \/ OwnedBy(users[n].id) = {} THEN NoOne ELSE users[n].id
    /\ UNCHANGED <<sessionVars, client, sessSaving, drawn, restarts, barred>>

\* DeleteUserKeepAdmin
DeleteUser(n) ==
    /\ MuFree /\ n \in DOMAIN users /\ ~LastAdmin(n)
    /\ users' = Without(users, n)
    /\ \E saved \in BOOLEAN : SaveUsers(saved) /\ StartRevoke(users[n].id, saved)
    /\ UNCHANGED <<sessionVars, client, sessSaving, drawn, restarts>>

\* invalidateUserSessionsLocked: m.mu held, sessionsPersistMu awaited.
InvalidateSessions ==
    /\ revoking # NoOne /\ sessSaving = {}
    /\ sessions' = sessions \ OwnedBy(revoking)
    /\ \E saved \in BOOLEAN : WriteFile(sessions', saved)
    /\ revoking' = NoOne
    /\ UNCHANGED <<userVars, client, sessSaving, drawn, restarts, barred>>

-----------------------------------------------------------------------------
(* Login and ChangePassword: snapshot the user, compare without m.mu, recheck *)

CheckStart(c, n, op) ==
    /\ client[c] = IdlePC /\ MuFree /\ n \in DOMAIN users
    /\ client' = [client EXCEPT ![c] = [pc |-> op, name |-> n, user |-> users[n]]]
    /\ UNCHANGED <<userVars, sessionVars, lockVars, drawn, restarts, barred>>

\* A wrong password, a disabled account at login, or (after a match) an account
\* that changed while bcrypt ran.
CheckFails(c) ==
    /\ client[c].pc \in {"login", "change"}
    /\ client' = [client EXCEPT ![c] = IdlePC]
    /\ UNCHANGED <<userVars, sessionVars, lockVars, drawn, restarts, barred>>

\* The account is still the one whose hash was compared.
SameAccount(c) ==
    LET n == client[c].name IN
    n \in DOMAIN users /\ users[n].id = client[c].user.id /\ users[n].pw = client[c].user.pw

LoginSucceeds(c) ==
    LET u == client[c].user IN
    /\ client[c].pc = "login" /\ u.on /\ MuFree
    /\ SameAccount(c) /\ users[client[c].name].on
    /\ Draw
    /\ sessions' = Evict(sessions \cup {[token |-> Fresh, id |-> u.id, pw |-> u.pw]}, u.id)
    /\ client' = [client EXCEPT ![c] = SavePC]
    /\ UNCHANGED <<userVars, sessFile, sessDirty, lockVars, restarts, barred>>

ChangePassword(c) ==
    /\ client[c].pc = "change" /\ MuFree /\ SameAccount(c)
    /\ SetPassword(client[c].name)
    /\ client' = [client EXCEPT ![c] = IdlePC]
    /\ UNCHANGED <<sessionVars, sessSaving, restarts>>

-----------------------------------------------------------------------------
(* Sessions *)

Logout(c, s) ==
    /\ client[c] = IdlePC /\ MuFree /\ s \in sessions
    /\ sessions' = sessions \ {s}
    /\ client' = [client EXCEPT ![c] = SavePC]
    /\ UNCHANGED <<userVars, sessFile, sessDirty, lockVars, drawn, restarts, barred>>

\* ValidateSession refuses s, and forgets it without a save.
ValidateRefuses(s) ==
    /\ MuFree /\ s \in sessions /\ ~Admits(s)
    /\ sessions' = sessions \ {s}
    /\ UNCHANGED <<userVars, sessFile, sessDirty, client, lockVars, drawn, restarts, barred>>

\* CleanupSessions: S has expired.  It also retries a failed write.
CleanupSessions(c, S) ==
    /\ client[c] = IdlePC /\ MuFree
    /\ S # {} \/ sessDirty
    /\ sessions' = sessions \ S
    /\ client' = [client EXCEPT ![c] = SavePC]
    /\ UNCHANGED <<userVars, sessFile, sessDirty, lockVars, drawn, restarts, barred>>

\* Mutant: the snapshot is written without sessionsPersistMu.
SaveSessionsUnordered(c) ==
    /\ client[c].pc = "save" /\ MuFree
    /\ sessSaving' = sessSaving \cup {sessions}
    /\ client' = [client EXCEPT ![c] = [pc |-> "write", out |-> sessions]]
    /\ UNCHANGED <<userVars, sessionVars, revoking, drawn, restarts, barred>>

\* saveSessions takes sessionsPersistMu before it lets go of m.mu.
SaveSessions(c) ==
    /\ client[c].pc = "save" /\ MuFree /\ sessSaving = {}
    /\ sessSaving' = {sessions}
    /\ client' = [client EXCEPT ![c] = [pc |-> "write", out |-> sessions]]
    /\ UNCHANGED <<userVars, sessionVars, revoking, drawn, restarts, barred>>

\* writeSessions: a token that neither the file nor memory holds is gone.
WriteSessions(c) ==
    /\ client[c].pc = "write"
    /\ \E saved \in BOOLEAN :
          /\ WriteFile(client[c].out, saved)
          /\ barred' = IF saved
                       THEN barred \cup ((1 .. drawn) \ Tokens(client[c].out \cup sessions))
                       ELSE barred
    /\ sessSaving' = sessSaving \ {client[c].out}
    /\ client' = [client EXCEPT ![c] = IdlePC]
    /\ UNCHANGED <<userVars, sessions, revoking, drawn, restarts>>

\* The process dies at any point; NewManager reads the two files.
RestartAuth ==
    /\ restarts < MaxRestarts /\ restarts' = restarts + 1
    /\ users' = usersFile
    /\ sessions' = sessFile /\ sessDirty' = FALSE
    /\ client' = [c \in Clients |-> IdlePC]
    /\ sessSaving' = {} /\ revoking' = NoOne
    /\ UNCHANGED <<usersFile, sessFile, drawn, barred>>

AccountsNext ==
    \/ \E n \in Names : \/ CreateFirstAdmin(n) \/ CreateUser(n)
                        \/ ResetPassword(n) \/ DeleteUser(n)
                        \/ \E on \in BOOLEAN : SetEnabled(n, on)
    \/ \E c \in Clients : \/ \E n \in Names, op \in {"login", "change"} : CheckStart(c, n, op)
                          \/ CheckFails(c)
                          \/ LoginSucceeds(c) \/ ChangePassword(c)
                          \/ \E s \in sessions : Logout(c, s)
                          \/ \E S \in SUBSET sessions : CleanupSessions(c, S)
                          \/ SaveSessions(c) \/ WriteSessions(c)
    \/ InvalidateSessions
    \/ \E s \in sessions : ValidateRefuses(s)
    \/ RestartAuth

AccountsSpec == AccountsInit /\ [][AccountsNext]_accountVars

-----------------------------------------------------------------------------
(* Properties *)

\* Type invariant; at most one write of sessions.json is under way, and its
\* snapshot never holds more sessions of a user than maxSessionsPerUser.
AccountsTypeOK ==
    /\ users \in UserMap /\ usersFile \in UserMap
    /\ sessions \subseteq Session /\ sessFile \subseteq Session /\ sessDirty \in BOOLEAN
    /\ \A c \in Clients : \/ client[c] \in {IdlePC, SavePC} \cup Checking
                          \/ client[c].pc = "write" /\ client[c].out \in sessSaving
    /\ Cardinality(sessSaving) <= 1
    /\ \A S \in sessSaving \cup {sessions}, i \in Values :
          Cardinality({s \in S : s.id = i}) <= MaxSessions
    /\ revoking \in 0 .. MaxFresh /\ drawn \in 0 .. MaxFresh
    /\ restarts \in 0 .. MaxRestarts /\ barred \subseteq Values

\* A token is never admitted again once its account's password was changed or
\* the account deleted (and users.json written), or once sessions.json was
\* written without it: not by a login that was already comparing the old hash,
\* not by an older snapshot written late, not by a crash between the two files
\* (ValidateSession and its PasswordFP check, manager.go:746).
RevokedStaysOut ==
    MuFree => \A s \in sessions : Admits(s) => s.token \notin barred
=============================================================================
