---------------------------- MODULE AuthSessions ----------------------------
(***************************************************************************)
(* auth.service.ts: accounts, the lockout after failed logins, and refresh *)
(* tokens.  A handler is a sequence of pool.query statements, each of them *)
(* committed by itself; between two of them any other request may run, and *)
(* the handler may die (a failed statement, a lost connection, a crash).   *)
(*                                                                         *)
(* Time is abstracted to the events it brings about: a lock runs out, a    *)
(* token expires.  An access token is a call's user field: it names the    *)
(* account and is not looked up in the database.                           *)
(***************************************************************************)
EXTENDS Integers

CONSTANTS
    Request,            \* requests in flight together
    User, Token,        \* ids of users and refresh_tokens rows
    Email, Password,
    MaxFailedAttempts,  \* MAX_FAILED_ATTEMPTS, 5 in the source
    Null                \* no row, or a field that is absent

ASSUME AttemptsAssumption == MaxFailedAttempts \in Nat \ {0}

VARIABLES
    users,      \* users table: User -> row or Null
    sessions,   \* refresh_tokens table: Token -> row or Null
    pc, call,   \* where a handler is, and what it was asked
    who,        \* the account it read
    read,       \* failed_login_attempts as it read it
    reply,      \* the last answer of each request
    misses,     \* history: wrong passwords since the account's last login or
                \* the end of its last lock
    retired,    \* history: passwords that a change, answered ok, did away with
    overlapped  \* history: two requests have been in flight together

history == <<misses, retired, overlapped>>
vars == <<users, sessions, pc, call, who, read, reply, misses, retired, overlapped>>

\* failed_login_attempts matters only up to the limit, so it stops there.
Attempts == 0..MaxFailedAttempts
OneMore(n) == IF n < MaxFailedAttempts THEN n + 1 ELSE n

\* locked: locked_until lies in the future.  by is history: who stored the row,
\* where one request comes in only after the answer to the one before.
UserRow == [email: Email, password: Password, attempts: Attempts, locked: BOOLEAN,
            active: BOOLEAN, by: Request]

\* parent, password and by are history: the token this one was exchanged for,
\* the password with which the session was opened, and who did the exchange.
SessionRow == [user: User, revoked: BOOLEAN, expired: BOOLEAN,
               parent: Token \cup {Null}, password: Password, by: Request \cup {Null}]

ASSUME NullAssumption == Null \notin Token \cup UserRow \cup SessionRow

Operation == {"register", "login", "refresh", "logout", "changePassword"}

NoCall == [op |-> "none", user |-> Null, email |-> Null, password |-> Null,
           newPassword |-> Null, token |-> Null]

Label == {"idle", "findByEmail", "create", "recordFailure", "recordSuccess", "findToken",
          "findAccount", "revoke", "store", "findById", "updatePassword", "revokeAll"}

TypeOK ==
    /\ users \in [User -> UserRow \cup {Null}]
    /\ sessions \in [Token -> SessionRow \cup {Null}]
    /\ pc \in [Request -> Label]
    /\ call \in [Request -> [op: Operation \cup {"none"}, user: User \cup {Null},
                             email: Email \cup {Null}, password: Password \cup {Null},
                             newPassword: Password \cup {Null}, token: Token \cup {Null}]]
    /\ who \in [Request -> User \cup {Null}]
    /\ read \in [Request -> Attempts]
    /\ reply \in [Request -> {"none", "ok", "refused", "failed"}]
    /\ misses \in [User -> Attempts]
    /\ retired \in [User -> SUBSET Password]
    /\ overlapped \in BOOLEAN

Init ==
    /\ users = [u \in User |-> Null]
    /\ sessions = [t \in Token |-> Null]
    /\ pc = [r \in Request |-> "idle"]
    /\ call = [r \in Request |-> NoCall]
    /\ who = [r \in Request |-> Null]
    /\ read = [r \in Request |-> 0]
    /\ reply = [r \in Request |-> "none"]
    /\ misses = [u \in User |-> 0]
    /\ retired = [u \in User |-> {}]
    /\ overlapped = FALSE

-----------------------------------------------------------------------------
Goto(r, label) == pc' = [pc EXCEPT ![r] = label]

Answer(r, answer) ==
    /\ Goto(r, "idle")
    /\ reply' = [reply EXCEPT ![r] = answer]
    /\ call' = [call EXCEPT ![r] = NoCall]
    /\ who' = [who EXCEPT ![r] = Null]
    /\ read' = [read EXCEPT ![r] = 0]

Refused(r) == Answer(r, "refused") /\ UNCHANGED <<users, sessions, history>>

\* On to the next statement, nothing else changed.
Continue(r, label) ==
    Goto(r, label) /\ UNCHANGED <<users, sessions, call, who, read, reply, history>>

Busy(op) == {r \in Request : call[r].op \in op}

\* Room in the bounded id sets for every handler that may need a new row.
RoomForUser == \E u \in User : users[u] = Null
RoomForToken(r) ==
    \E f \in [Busy({"login", "refresh"}) \cup {r} -> {t \in Token : sessions[t] = Null}] :
        \A p, q \in DOMAIN f : f[p] = f[q] => p = q

FirstLabel(op) ==
    CASE op \in {"register", "login"} -> "findByEmail"
      [] op = "refresh" -> "findToken"
      [] op = "logout" -> "revoke"
      [] op = "changePassword" -> "findById"

Receive(r, c) ==
    /\ pc[r] = "idle"
    /\ call' = [call EXCEPT ![r] = c]
    /\ Goto(r, FirstLabel(c.op))
    /\ reply' = [reply EXCEPT ![r] = "none"]
    /\ overlapped' = (overlapped \/ \E q \in Request : pc[q] # "idle")
    /\ UNCHANGED <<users, sessions, who, read, misses, retired>>

ReceiveRegister(r) ==
    /\ RoomForUser
    /\ \E e \in Email, p \in Password :
        Receive(r, [NoCall EXCEPT !.op = "register", !.email = e, !.password = p])

ReceiveLogin(r) ==
    /\ RoomForToken(r)
    /\ \E e \in Email, p \in Password :
        Receive(r, [NoCall EXCEPT !.op = "login", !.email = e, !.password = p])

\* A refresh token comes from the cookie of whoever was given it: it was
\* signed, hence stored, by this server, so that its hash always matches and
\* the mismatch branch (auth.service.ts:123-128) is never taken.
ReceiveRefresh(r) ==
    /\ RoomForToken(r)
    /\ \E t \in Token :
        sessions[t] # Null /\ Receive(r, [NoCall EXCEPT !.op = "refresh", !.token = t])

\* verifyRefreshToken rejects an expired JWT before any statement is sent, and
\* logout answers that it is done all the same.
ReceiveLogout(r) ==
    \E t \in Token :
        /\ sessions[t] # Null /\ ~sessions[t].expired
        /\ Receive(r, [NoCall EXCEPT !.op = "logout", !.token = t])

ReceiveChangePassword(r) ==
    \E u \in User, old, new \in Password :
        /\ users[u] # Null
        /\ Receive(r, [NoCall EXCEPT !.op = "changePassword", !.user = u, !.password = old,
                                     !.newPassword = new])

-----------------------------------------------------------------------------
(* register.                                                               *)

WithEmail(e) == {u \in User : users[u] # Null /\ users[u].email = e}

\* Mutant: the email is not looked up.
FindForRegisterUnchecked(r) ==
    pc[r] = "findByEmail" /\ call[r].op = "register" /\ Continue(r, "create")

FindForRegister(r) ==
    /\ pc[r] = "findByEmail" /\ call[r].op = "register"
    /\ IF WithEmail(call[r].email) # {} THEN Refused(r) ELSE Continue(r, "create")

\* tenant_id is NULL, so UNIQUE (tenant_id, email) does not object.
CreateUser(r) ==
    /\ pc[r] = "create"
    /\ \E u \in User :
        /\ users[u] = Null
        /\ users' = [users EXCEPT ![u] =
             [email |-> call[r].email, password |-> call[r].password, attempts |-> 0,
              locked |-> FALSE, active |-> TRUE, by |-> r]]
    /\ Answer(r, "ok")
    /\ UNCHANGED <<sessions, history>>

-----------------------------------------------------------------------------
(* login.                                                                  *)

\* findByEmail (LIMIT 1: any one), the two checks, and bcrypt on the hash it
\* read.  The verdict is carried out on what the account is by then.
FindForLogin(r) ==
    /\ pc[r] = "findByEmail" /\ call[r].op = "login"
    /\ \/ WithEmail(call[r].email) = {} /\ Refused(r)
       \/ \E u \in WithEmail(call[r].email) :
            IF users[u].locked \/ ~users[u].active
            THEN Refused(r)
            ELSE /\ who' = [who EXCEPT ![r] = u]
                 /\ read' = [read EXCEPT ![r] = users[u].attempts]
                 /\ Goto(r, IF users[u].password = call[r].password
                            THEN "recordSuccess" ELSE "recordFailure")
                 /\ UNCHANGED <<users, sessions, call, reply, history>>

\* Mutant: one attempt too many is let through.
MustLockAbove(attempts) == attempts > MaxFailedAttempts
MustLock(attempts) == attempts >= MaxFailedAttempts

\* The count it read plus one; the lock too is overwritten, with null below
\* the limit.
RecordFailure(r) ==
    /\ pc[r] = "recordFailure"
    /\ LET attempts == OneMore(read[r])
       IN  users' = [users EXCEPT ![who[r]].attempts = attempts,
                                  ![who[r]].locked = MustLock(attempts)]
    /\ misses' = [misses EXCEPT ![who[r]] = OneMore(@)]
    /\ Answer(r, "refused")
    /\ UNCHANGED <<sessions, retired, overlapped>>

\* Mutant: locked_until is left as it is.
RecordSuccessCountOnly(r) ==
    /\ pc[r] = "recordSuccess"
    /\ users' = [users EXCEPT ![who[r]].attempts = 0]
    /\ misses' = [misses EXCEPT ![who[r]] = 0]
    /\ Goto(r, "store")
    /\ UNCHANGED <<sessions, call, who, read, reply, retired, overlapped>>

RecordSuccess(r) ==
    /\ pc[r] = "recordSuccess"
    /\ users' = [users EXCEPT ![who[r]].attempts = 0, ![who[r]].locked = FALSE]
    /\ misses' = [misses EXCEPT ![who[r]] = 0]
    /\ Goto(r, "store")
    /\ UNCHANGED <<sessions, call, who, read, reply, retired, overlapped>>

\* Mutant: the account the access token names; login and refresh send none.
OwnerFromAccessToken(r) == call[r].user
Owner(r) == who[r]

\* issueTokens, for login and for refresh.
StoreToken(r) ==
    /\ pc[r] = "store"
    /\ LET parent == call[r].token
           row == [user |-> Owner(r), revoked |-> FALSE, expired |-> FALSE, parent |-> parent,
                   password |-> IF parent = Null THEN call[r].password
                                                 ELSE sessions[parent].password,
                   by |-> IF parent = Null THEN Null ELSE r]
       IN  \E t \in Token : sessions[t] = Null /\ sessions' = [sessions EXCEPT ![t] = row]
    /\ Answer(r, "ok")
    /\ UNCHANGED <<users, history>>

-----------------------------------------------------------------------------
(* refresh and logout.                                                     *)

\* Mutant: revoked_at is not looked at.
UsableUnlessExpired(t) == ~sessions[t].expired
Usable(t) == ~sessions[t].revoked /\ ~sessions[t].expired

FindToken(r) ==
    /\ pc[r] = "findToken"
    /\ IF ~Usable(call[r].token)
       THEN Refused(r)
       ELSE /\ who' = [who EXCEPT ![r] = sessions[call[r].token].user]
            /\ Goto(r, "findAccount")
            /\ UNCHANGED <<users, sessions, call, read, reply, history>>

\* Mutant: the token that was used stays in use.
AfterAccountKeepsToken == "store"
AfterAccount == "revoke"

FindAccount(r) ==
    /\ pc[r] = "findAccount"
    /\ IF users[who[r]].active THEN Continue(r, AfterAccount) ELSE Refused(r)

\* Revokes the token whatever has become of it since findToken.
RevokeToken(r) ==
    /\ pc[r] = "revoke"
    /\ sessions' = [sessions EXCEPT ![call[r].token].revoked = TRUE]
    /\ \/ /\ call[r].op = "logout" /\ Answer(r, "ok")
       \/ /\ call[r].op = "refresh" /\ Goto(r, "store")
          /\ UNCHANGED <<call, who, read, reply>>
    /\ UNCHANGED <<users, history>>

-----------------------------------------------------------------------------
(* changePassword.                                                         *)

FindForChange(r) ==
    /\ pc[r] = "findById"
    /\ IF users[call[r].user].password = call[r].password
       THEN Continue(r, "updatePassword")
       ELSE Refused(r)

UpdatePassword(r) ==
    /\ pc[r] = "updatePassword"
    /\ users' = [users EXCEPT ![call[r].user].password = call[r].newPassword]
    /\ retired' = [retired EXCEPT ![call[r].user] = @ \ {call[r].newPassword}]
    /\ Goto(r, "revokeAll")
    /\ UNCHANGED <<sessions, call, who, read, reply, misses, overlapped>>

\* Mutant: only the sessions opened by a login, not those refreshed since.
OwnedFromLogin(t, u) ==
    sessions[t] # Null /\ sessions[t].user = u /\ sessions[t].parent = Null
OwnedBy(t, u) == sessions[t] # Null /\ sessions[t].user = u

RevokeAll(r) ==
    /\ pc[r] = "revokeAll"
    /\ sessions' = [t \in Token |-> IF OwnedBy(t, call[r].user)
                                    THEN [sessions[t] EXCEPT !.revoked = TRUE]
                                    ELSE sessions[t]]
    /\ retired' = [retired EXCEPT ![call[r].user] =
                                     @ \cup ({call[r].password} \ {call[r].newPassword})]
    /\ Answer(r, "ok")
    /\ UNCHANGED <<users, misses, overlapped>>

-----------------------------------------------------------------------------
(* What happens to a handler, and around it.                               *)

\* A statement fails, or the handler dies.  logout catches whatever its
\* statement throws and answers that the session is closed.
Fail(r) ==
    /\ pc[r] # "idle"
    /\ \/ Answer(r, "failed")
       \/ call[r].op = "logout" /\ Answer(r, "ok")
    /\ UNCHANGED <<users, sessions, history>>

LockExpires(u) ==
    /\ users[u] # Null /\ users[u].locked
    /\ users' = [users EXCEPT ![u].locked = FALSE]
    /\ misses' = [misses EXCEPT ![u] = 0]
    /\ UNCHANGED <<sessions, pc, call, who, read, reply, retired, overlapped>>

TokenExpires(t) ==
    /\ sessions[t] # Null /\ ~sessions[t].expired
    /\ sessions' = [sessions EXCEPT ![t].expired = TRUE]
    /\ UNCHANGED <<users, pc, call, who, read, reply, history>>

\* No endpoint clears is_active: an operator does, in the database.
Deactivate(u) ==
    /\ users[u] # Null /\ users[u].active
    /\ users' = [users EXCEPT ![u].active = FALSE]
    /\ UNCHANGED <<sessions, pc, call, who, read, reply, history>>

Arrival(r) ==
    \/ ReceiveRegister(r) \/ ReceiveLogin(r) \/ ReceiveRefresh(r) \/ ReceiveLogout(r)
    \/ ReceiveChangePassword(r)

Statement(r) ==
    \/ FindForRegister(r) \/ CreateUser(r)
    \/ FindForLogin(r) \/ RecordFailure(r) \/ RecordSuccess(r) \/ StoreToken(r)
    \/ FindToken(r) \/ FindAccount(r) \/ RevokeToken(r)
    \/ FindForChange(r) \/ UpdatePassword(r) \/ RevokeAll(r)

Next ==
    \/ \E r \in Request : Arrival(r) \/ Statement(r) \/ Fail(r)
    \/ \E u \in User : LockExpires(u) \/ Deactivate(u)
    \/ \E t \in Token : TokenExpires(t)

Spec == Init /\ [][Next]_vars

-----------------------------------------------------------------------------
(* Properties.                                                             *)

Live(t) == sessions[t] # Null /\ Usable(t)

\* A token is out of use before its successor exists: a crash between the two
\* statements costs the session and never doubles it.
RotationOrder ==
    \A t \in Token : sessions[t] # Null /\ sessions[t].parent # Null =>
        /\ sessions[sessions[t].parent].revoked
        /\ sessions[sessions[t].parent].user = sessions[t].user

\* README.md:47: refresh tokens are "rotated on every use, with reuse detection":
\* what a token was exchanged for, no later request gets again, whatever else
\* goes on.  (Two that are in flight together may both find the token valid.)
OneSuccessor ==
    \A s, t \in Token :
        /\ sessions[s] # Null /\ sessions[t] # Null /\ sessions[s].by = sessions[t].by
        /\ sessions[s].parent # Null /\ sessions[s].parent = sessions[t].parent
        => s = t

\* README.md:47: "a replayed old token revokes all sessions for that user":
\* so says the state in which the replay has been answered.
ReplayEndsSessions ==
    [][\A r \in Request :
        /\ call[r].op = "refresh" /\ reply'[r] = "refused" /\ ~sessions[call[r].token].expired
        /\ \E s \in Token : sessions[s] # Null /\ sessions[s].parent = call[r].token
        => \A t \in Token : Live(t) /\ sessions[t].user = sessions[call[r].token].user
                            => sessions'[t].revoked]_vars

\* README.md:45: "Account lockout after 5 failed logins": so many wrong passwords
\* in a row, and the account is locked.  (Of logins that overlap, several may be
\* counted as one.)
LockedAfterLimit ==
    \A u \in User : users[u] # Null /\ misses[u] >= MaxFailedAttempts => users[u].locked

\* So it is as long as no two requests have overlapped.
QuietLockedAfterLimit == ~overlapped => LockedAfterLimit

\* README.md:45, "(15 min), enforced server-side": nothing but time ends a lock.
LockLasts ==
    [][\A u \in User : users[u] # Null /\ users[u].locked /\ ~users'[u].locked
                       => LockExpires(u)]_vars

\* The two columns of the lockout agree: who is locked has used up the
\* attempts, also when a login that had already passed the check succeeds.
LockHasCause ==
    \A u \in User : users[u] # Null /\ users[u].locked
                    => users[u].attempts = MaxFailedAttempts

\* auth.service.ts:164: "Force re-login everywhere after a password change."
PasswordChangeEndsSessions ==
    \A t \in Token : Live(t) => sessions[t].password \notin retired[sessions[t].user]

\* So it is as long as no two requests have overlapped, whatever failed.
QuietChangeEndsSessions == ~overlapped => PasswordChangeEndsSessions

\* auth.service.ts:54: "An account with this email already exists": no later
\* registration of an address succeeds, whatever else goes on.  (Two that are
\* in flight together may both find the address free.)
LaterEmailRefused ==
    \A u, v \in User :
        /\ users[u] # Null /\ users[v] # Null /\ users[u].by = users[v].by
        /\ users[u].email = users[v].email
        => u = v
=============================================================================
