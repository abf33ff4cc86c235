------------------------- MODULE AuthSessionsProofs -------------------------
(***************************************************************************)
(* Safety of AuthSessions for any number of requests, accounts and tokens: *)
(* what holds however requests overlap, and what holds until they do.      *)
(***************************************************************************)
EXTENDS AuthSessions, TLAPS

(***************************************************************************)
(* The inductive invariant.                                                *)
(***************************************************************************)

\* Where a handler of an operation can be.
InStages(r) ==
    /\ call[r].op = "none" => pc[r] = "idle"
    /\ call[r].op = "register" => pc[r] \in {"findByEmail", "create"}
    /\ call[r].op = "login" => pc[r] \in {"findByEmail", "recordFailure", "recordSuccess", "store"}
    /\ call[r].op = "refresh" => pc[r] \in {"findToken", "findAccount", "revoke", "store"}
    /\ call[r].op = "logout" => pc[r] = "revoke"
    /\ call[r].op = "changePassword" => pc[r] \in {"findById", "updatePassword", "revokeAll"}

\* What was sent along; rows that a request names do not go away.
Arguments(r) ==
    /\ call[r].op \in {"register", "login"} => call[r].email \in Email /\ call[r].password \in Password
    /\ call[r].op = "login" => call[r].token = Null
    /\ call[r].op \in {"refresh", "logout"} => call[r].token \in Token /\ sessions[call[r].token] # Null
    /\ call[r].op = "changePassword" =>
        /\ call[r].user \in User /\ users[call[r].user] # Null
        /\ call[r].password \in Password /\ call[r].newPassword \in Password

\* What the handler has read so far.
Findings(r) ==
    /\ call[r].op = "login" /\ pc[r] \in {"recordFailure", "recordSuccess", "store"} =>
        who[r] \in User /\ users[who[r]] # Null
    /\ call[r].op = "refresh" /\ pc[r] \in {"findAccount", "revoke", "store"} =>
        who[r] = sessions[call[r].token].user
    /\ call[r].op = "refresh" /\ pc[r] = "store" => sessions[call[r].token].revoked

Handler(r) == InStages(r) /\ Arguments(r) /\ Findings(r)

\* A token's predecessor is a row, revoked and of the same account.
Lineage ==
    \A t \in Token : sessions[t] # Null /\ sessions[t].parent # Null =>
        /\ sessions[sessions[t].parent] # Null
        /\ sessions[sessions[t].parent].revoked
        /\ sessions[sessions[t].parent].user = sessions[t].user

\* The tables, as long as no two requests have overlapped.
AccountQuiet(u) ==
    /\ users[u] = Null => misses[u] = 0 /\ retired[u] = {}
    /\ users[u] # Null => /\ misses[u] <= users[u].attempts
                          /\ misses[u] >= MaxFailedAttempts => users[u].locked
                          /\ users[u].password \notin retired[u]

TablesQuiet ==
    /\ \A u \in User : AccountQuiet(u)
    /\ \A t \in Token : Live(t) => sessions[t].password \notin retired[sessions[t].user]

\* What a handler has read still holds when nobody else was there.
HandlerQuiet(r) ==
    /\ pc[r] = "recordFailure" => read[r] = users[who[r]].attempts
    /\ call[r].op = "login" /\ pc[r] \in {"recordSuccess", "store"} =>
        call[r].password = users[who[r]].password
    /\ call[r].op = "refresh" /\ pc[r] \in {"findAccount", "revoke", "store"} =>
        sessions[call[r].token].password \notin retired[who[r]]
    /\ pc[r] = "revokeAll" => users[call[r].user].password = call[r].newPassword

Alone == \A q, r \in Request : pc[q] # "idle" /\ pc[r] # "idle" => q = r

Quiet == ~overlapped => Alone /\ TablesQuiet /\ \A r \in Request : HandlerQuiet(r)

AInv == TypeOK /\ (\A r \in Request : Handler(r)) /\ Lineage /\ LockHasCause /\ Quiet

\* Nobody is there and nothing is stored.
LEMMA Start == Init => AInv
<1> SUFFICES ASSUME Init PROVE AInv
  OBVIOUS
<1>1. TypeOK
  <2>1. 0 \in Attempts
    BY AttemptsAssumption DEF Attempts
  <2>2. NoCall \in [op: Operation \cup {"none"}, user: User \cup {Null}, email: Email \cup {Null},
                   password: Password \cup {Null}, newPassword: Password \cup {Null},
                   token: Token \cup {Null}]
    BY DEF NoCall
  <2> QED BY <2>1, <2>2 DEF Init, TypeOK, Label
<1>2. \A r \in Request : Handler(r) /\ HandlerQuiet(r)
  BY DEF Init, NoCall, Handler, InStages, Arguments, Findings, HandlerQuiet
<1>3. Lineage /\ LockHasCause /\ Alone
  BY DEF Init, Lineage, LockHasCause, Alone
<1>4. TablesQuiet
  BY DEF Init, TablesQuiet, AccountQuiet, Live
<1> QED BY <1>1, <1>2, <1>3, <1>4 DEF AInv, Quiet

(***************************************************************************)
(* A step of one handler.                                                  *)
(***************************************************************************)

OthersWait(r) ==
    \A q \in Request \ {r} : /\ pc'[q] = pc[q] /\ call'[q] = call[q]
                              /\ who'[q] = who[q] /\ read'[q] = read[q]

\* Rows are never deleted, a session keeps its account, a revoked one stays so.
RowsStay ==
    /\ \A u \in User : users[u] # Null => users'[u] # Null
    /\ \A t \in Token : sessions[t] # Null =>
        /\ sessions'[t] # Null /\ sessions'[t].user = sessions[t].user
        /\ sessions[t].revoked => sessions'[t].revoked

\* What the others know survives.
LEMMA OthersKeep ==
    ASSUME AInv, NEW r \in Request, OthersWait(r), RowsStay
    PROVE  \A q \in Request \ {r} : Handler(q)'
<1> SUFFICES ASSUME NEW q \in Request \ {r} PROVE Handler(q)'
  OBVIOUS
<1>1. Handler(q) /\ TypeOK /\ pc'[q] = pc[q] /\ call'[q] = call[q] /\ who'[q] = who[q]
  BY DEF AInv, OthersWait
<1>2. InStages(q)'
  BY <1>1 DEF Handler, InStages
<1>3. Arguments(q)'
  BY <1>1 DEF Handler, Arguments, RowsStay
<1>4. Findings(q)'
  BY <1>1 DEF Handler, Arguments, Findings, RowsStay
<1> QED BY <1>2, <1>3, <1>4 DEF Handler

\* Until requests overlap there are no others to think of.
LEMMA StepOfOne ==
    ASSUME AInv, NEW r \in Request, pc[r] # "idle", OthersWait(r), RowsStay, overlapped' = overlapped,
           TypeOK', Handler(r)', Lineage', LockHasCause',
           ~overlapped => TablesQuiet' /\ HandlerQuiet(r)'
    PROVE  AInv'
<1>1. ASSUME ~overlapped PROVE Alone' /\ \A q \in Request : HandlerQuiet(q)'
  <2>1. \A q \in Request \ {r} : pc'[q] = "idle"
    BY <1>1 DEF AInv, Quiet, Alone, OthersWait
  <2>2. \A q \in Request \ {r} : HandlerQuiet(q)'
    BY <2>1 DEF HandlerQuiet
  <2> QED BY <1>1, <2>1, <2>2 DEF Alone
<1> QED BY <1>1, OthersKeep DEF AInv, Quiet

\* A step that only reads.
LEMMA ReadingStep ==
    ASSUME AInv, NEW r \in Request, pc[r] # "idle", OthersWait(r), UNCHANGED <<users, sessions, history>>,
           TypeOK', Handler(r)', ~overlapped => HandlerQuiet(r)'
    PROVE  AInv'
<1>1. RowsStay /\ Lineage' /\ LockHasCause'
  BY DEF AInv, RowsStay, Lineage, LockHasCause
<1>2. ~overlapped => TablesQuiet'
  BY DEF AInv, Quiet, TablesQuiet, AccountQuiet, Live, Usable, history
<1> QED BY <1>1, <1>2, StepOfOne DEF history

\* An answer, or a failure, that leaves the tables alone.
LEMMA AnswerStep ==
    ASSUME AInv, NEW r \in Request, pc[r] # "idle", UNCHANGED <<users, sessions, history>>,
           NEW a \in {"ok", "refused", "failed"}, Answer(r, a)
    PROVE  AInv'
<1>1. TypeOK'
  BY AttemptsAssumption DEF AInv, TypeOK, Answer, Goto, NoCall, Label, Attempts, history, Operation
<1>2. OthersWait(r)
  BY DEF AInv, TypeOK, Answer, Goto, OthersWait
<1>3. pc'[r] = "idle" /\ call'[r].op = "none"
  BY DEF AInv, TypeOK, Answer, Goto, NoCall
<1>4. Handler(r)' /\ HandlerQuiet(r)'
  BY <1>3 DEF Handler, InStages, Arguments, Findings, HandlerQuiet
<1> QED BY <1>1, <1>2, <1>4, ReadingStep

\* On to the next statement.
LEMMA ContinueStep ==
    ASSUME AInv, NEW r \in Request, pc[r] # "idle", NEW l \in Label, Continue(r, l),
           InStages(r)', Findings(r)', ~overlapped => HandlerQuiet(r)'
    PROVE  AInv'
<1>1. TypeOK' /\ OthersWait(r) /\ UNCHANGED <<users, sessions, history>>
  BY DEF AInv, TypeOK, Continue, Goto, history, OthersWait
<1>2. Arguments(r)'
  BY DEF AInv, Handler, Arguments, Continue
<1> QED BY <1>1, <1>2, ReadingStep DEF Handler

(***************************************************************************)
(* Arrivals.                                                               *)
(***************************************************************************)

Calls == [op: Operation, user: User \cup {Null}, email: Email \cup {Null},
          password: Password \cup {Null}, newPassword: Password \cup {Null},
          token: Token \cup {Null}]

LEMMA ReceiveStep ==
    ASSUME AInv, NEW r \in Request, NEW c \in Calls, Receive(r, c), Arguments(r)'
    PROVE  AInv'
<1>1. /\ pc[r] = "idle"
      /\ pc' = [pc EXCEPT ![r] = FirstLabel(c.op)]
      /\ call' = [call EXCEPT ![r] = c]
      /\ UNCHANGED <<users, sessions, who, read, retired>>
  BY DEF Receive, Goto
<1>2. TypeOK'
  BY <1>1, AttemptsAssumption
  DEF AInv, TypeOK, Receive, Goto, FirstLabel, Calls, Operation, Label, Attempts
<1>3. pc'[r] = FirstLabel(c.op) /\ call'[r] = c
  BY <1>1 DEF AInv, TypeOK
<1>4. Handler(r)'
  BY <1>3 DEF Handler, InStages, Findings, FirstLabel, Calls, Operation
<1>5. \A q \in Request : Handler(q)'
  BY <1>1, <1>4, OthersKeep DEF OthersWait, RowsStay, AInv, TypeOK
<1>6. Lineage' /\ LockHasCause'
  BY <1>1 DEF AInv, Lineage, LockHasCause
<1>7. Quiet'
  <2> SUFFICES ASSUME ~overlapped' PROVE Alone' /\ TablesQuiet' /\ \A q \in Request : HandlerQuiet(q)'
    BY DEF Quiet
  <2>1. ~overlapped /\ misses' = misses /\ \A q \in Request : pc[q] = "idle"
    BY DEF Receive
  <2>2. \A q \in Request \ {r} : pc'[q] = "idle"
    BY <1>1, <2>1 DEF AInv, TypeOK
  <2>3. HandlerQuiet(r)'
    BY <1>3 DEF HandlerQuiet, FirstLabel, Calls, Operation
  <2>4. TablesQuiet'
    BY <1>1, <2>1 DEF AInv, Quiet, TablesQuiet, AccountQuiet, Live, Usable
  <2> QED BY <2>2, <2>3, <2>4 DEF Alone, HandlerQuiet
<1> QED BY <1>2, <1>5, <1>6, <1>7 DEF AInv

\* What is sent along is what the operation needs.
LEMMA ArrivalStep ==
    ASSUME AInv, NEW r \in Request, Arrival(r)
    PROVE  AInv'
<1> DEFINE Suits(c) ==
      /\ c.op \in {"register", "login"} => c.email \in Email /\ c.password \in Password
      /\ c.op = "login" => c.token = Null
      /\ c.op \in {"refresh", "logout"} => c.token \in Token /\ sessions[c.token] # Null
      /\ c.op = "changePassword" =>
            c.user \in User /\ users[c.user] # Null /\ c.password \in Password /\ c.newPassword \in Password
<1>1. ASSUME NEW c \in Calls, Receive(r, c), Suits(c) PROVE AInv'
  <2>1. call'[r] = c /\ UNCHANGED <<users, sessions>>
    BY <1>1 DEF AInv, TypeOK, Receive
  <2> QED BY <1>1, <2>1, ReceiveStep DEF Arguments
<1> HIDE DEF Suits
<1>2. CASE ReceiveRegister(r)
  BY <1>1, <1>2 DEF ReceiveRegister, NoCall, Calls, Operation, Suits
<1>3. CASE ReceiveLogin(r)
  BY <1>1, <1>3 DEF ReceiveLogin, NoCall, Calls, Operation, Suits
<1>4. CASE ReceiveRefresh(r)
  BY <1>1, <1>4 DEF ReceiveRefresh, NoCall, Calls, Operation, Suits
<1>5. CASE ReceiveLogout(r)
  BY <1>1, <1>5 DEF ReceiveLogout, NoCall, Calls, Operation, Suits
<1>6. CASE ReceiveChangePassword(r)
  BY <1>1, <1>6 DEF ReceiveChangePassword, NoCall, Calls, Operation, Suits
<1> QED BY <1>2, <1>3, <1>4, <1>5, <1>6 DEF Arrival

(***************************************************************************)
(* register.                                                               *)
(***************************************************************************)

LEMMA FindForRegisterStep ==
    ASSUME AInv, NEW r \in Request, FindForRegister(r)
    PROVE  AInv'
<1>1. CASE Refused(r)
  BY <1>1, AnswerStep DEF FindForRegister, Refused
<1>2. CASE WithEmail(call[r].email) = {} /\ Continue(r, "create")
  <2>1. pc[r] # "idle" /\ "create" \in Label /\ pc'[r] = "create" /\ call'[r] = call[r]
    BY <1>2 DEF FindForRegister, Continue, Goto, Label, AInv, TypeOK
  <2>2. InStages(r)' /\ Findings(r)'
    BY <2>1 DEF FindForRegister, InStages, Findings
  <2>3. HandlerQuiet(r)'
    BY <2>1 DEF FindForRegister, HandlerQuiet
  <2> QED BY <1>2, <2>1, <2>2, <2>3, ContinueStep
<1> QED BY <1>1, <1>2 DEF FindForRegister

\* The new account is free of misses and of retired passwords.
LEMMA CreateUserStep ==
    ASSUME AInv, NEW r \in Request, CreateUser(r)
    PROVE  AInv'
<1> DEFINE row == [email |-> call[r].email, password |-> call[r].password, attempts |-> 0,
                   locked |-> FALSE, active |-> TRUE, by |-> r]
<1>1. /\ TypeOK /\ Handler(r) /\ Lineage /\ LockHasCause
      /\ pc[r] = "create" /\ Answer(r, "ok") /\ UNCHANGED <<sessions, history>>
  BY DEF CreateUser, AInv
<1>2. PICK u \in User : users[u] = Null /\ users' = [users EXCEPT ![u] = row]
  BY DEF CreateUser
<1>3. row \in UserRow /\ row # Null
  <2>1. call[r].op = "register"
    BY <1>1 DEF Handler, InStages, TypeOK, Operation
  <2>2. call[r].email \in Email /\ call[r].password \in Password /\ 0 \in Attempts
    BY <1>1, <2>1, AttemptsAssumption DEF Handler, Arguments, Attempts
  <2>3. row \in UserRow
    BY <2>2 DEF UserRow
  <2> QED BY <2>3, NullAssumption
<1>4. row.locked = FALSE /\ row.attempts = 0 /\ row.password = call[r].password /\ row.email = call[r].email
  OBVIOUS
<1> HIDE DEF row
<1>5. TypeOK'
  BY <1>1, <1>2, <1>3, AttemptsAssumption
  DEF TypeOK, Answer, Goto, NoCall, Label, Attempts, history, Operation
<1>6. OthersWait(r) /\ RowsStay /\ pc'[r] = "idle" /\ call'[r].op = "none"
  BY <1>1, <1>2, <1>3 DEF TypeOK, Answer, Goto, NoCall, OthersWait, RowsStay
<1>7. Handler(r)' /\ HandlerQuiet(r)'
  BY <1>6 DEF Handler, InStages, Arguments, Findings, HandlerQuiet
<1>8. Lineage' /\ LockHasCause'
  BY <1>1, <1>2, <1>4 DEF TypeOK, Lineage, LockHasCause
<1>9. ~overlapped => TablesQuiet'
  <2> SUFFICES ASSUME ~overlapped PROVE TablesQuiet'
    OBVIOUS
  <2>1. TablesQuiet
    BY DEF AInv, Quiet
  <2>2. \A v \in User : AccountQuiet(v)'
    BY <1>1, <1>2, <1>4, <2>1, AttemptsAssumption DEF TypeOK, TablesQuiet, AccountQuiet, history
  <2> QED BY <1>1, <2>1, <2>2 DEF TablesQuiet, Live, Usable, history
<1> QED BY <1>1, <1>5, <1>6, <1>7, <1>8, <1>9, StepOfOne DEF history

(***************************************************************************)
(* login.                                                                  *)
(***************************************************************************)

LEMMA FindForLoginStep ==
    ASSUME AInv, NEW r \in Request, FindForLogin(r)
    PROVE  AInv'
<1>1. CASE Refused(r)
  BY <1>1, AnswerStep DEF FindForLogin, Refused
<1>2. CASE ~Refused(r)
  <2>1. PICK u \in WithEmail(call[r].email) :
          /\ who' = [who EXCEPT ![r] = u]
          /\ read' = [read EXCEPT ![r] = users[u].attempts]
          /\ pc' = [pc EXCEPT ![r] = IF users[u].password = call[r].password
                                     THEN "recordSuccess" ELSE "recordFailure"]
          /\ UNCHANGED <<users, sessions, call, reply, history>>
    BY <1>2 DEF FindForLogin, Goto
  <2>2. u \in User /\ users[u] # Null /\ users[u] \in UserRow
    BY DEF WithEmail, AInv, TypeOK
  <2>3. TypeOK' /\ OthersWait(r) /\ who'[r] = u /\ read'[r] = users[u].attempts
    BY <2>1, <2>2 DEF AInv, TypeOK, UserRow, Label, history, OthersWait
  <2>4. pc'[r] \in {"recordSuccess", "recordFailure"} /\ call'[r] = call[r] /\ call[r].op = "login"
    BY <2>1 DEF FindForLogin, AInv, TypeOK
  <2>5. pc'[r] = "recordSuccess" => users[u].password = call[r].password
    BY <2>1 DEF AInv, TypeOK
  <2>6. Handler(r)'
    BY <2>1, <2>2, <2>3, <2>4 DEF AInv, Handler, InStages, Arguments, Findings
  <2>7. HandlerQuiet(r)'
    BY <2>1, <2>3, <2>4, <2>5 DEF HandlerQuiet
  <2> QED BY <2>1, <2>3, <2>6, <2>7, ReadingStep DEF FindForLogin
<1> QED BY <1>1, <1>2

\* What TablesQuiet says of sessions is about two columns and a history.
LEMMA SessionsQuiet ==
    ASSUME TablesQuiet, UNCHANGED <<sessions, retired>>
    PROVE  \A t \in Token : Live(t)' => sessions'[t].password \notin retired'[sessions'[t].user]
BY DEF TablesQuiet, Live, Usable

\* Counting stops at the limit, keeps the order and locks there.
LEMMA Counting ==
    /\ 0 \in Attempts
    /\ \A n \in Attempts : OneMore(n) \in Attempts /\ (MustLock(n) <=> n = MaxFailedAttempts)
    /\ \A m, n \in Attempts : m <= n => OneMore(m) <= OneMore(n)
    /\ \A m, n \in Attempts : m >= MaxFailedAttempts /\ m <= n => n = MaxFailedAttempts
BY AttemptsAssumption DEF Attempts, OneMore, MustLock

\* A miss that is counted keeps pace with the count, and locks at the limit.
LEMMA RecordFailureStep ==
    ASSUME AInv, NEW r \in Request, RecordFailure(r)
    PROVE  AInv'
<1> DEFINE attempts == OneMore(read[r])
<1>1. /\ TypeOK /\ Handler(r) /\ Lineage /\ LockHasCause
      /\ pc[r] = "recordFailure" /\ Answer(r, "refused") /\ UNCHANGED <<sessions, retired, overlapped>>
  BY DEF RecordFailure, AInv
<1>2. PICK u \in User : u = who[r] /\ users[u] # Null /\ users[u] \in UserRow
  <2>1. call[r].op = "login"
    BY <1>1 DEF Handler, InStages, TypeOK, Operation
  <2> QED BY <1>1, <2>1 DEF Handler, Findings, TypeOK
<1>3. attempts \in Attempts /\ (MustLock(attempts) <=> attempts = MaxFailedAttempts)
  BY <1>1, Counting DEF TypeOK
<1>4. users' = [users EXCEPT ![u].attempts = attempts, ![u].locked = MustLock(attempts)]
  BY <1>2 DEF RecordFailure
<1>5. MustLock(attempts) \in BOOLEAN
  BY DEF MustLock
<1> HIDE DEF attempts
<1>6. /\ users'[u] \in UserRow
      /\ users'[u].attempts = attempts
      /\ users'[u].locked <=> MustLock(attempts)
      /\ users'[u].password = users[u].password /\ users'[u].email = users[u].email
  BY <1>1, <1>2, <1>3, <1>4, <1>5 DEF TypeOK, UserRow
<1>7. users' \in [User -> UserRow \cup {Null}] /\ \A v \in User \ {u} : users'[v] = users[v]
  BY <1>1, <1>2, <1>4, <1>6 DEF TypeOK
<1>8. misses' \in [User -> Attempts]
  BY <1>1, Counting DEF RecordFailure, TypeOK
<1>9. TypeOK'
  BY <1>1, <1>7, <1>8, AttemptsAssumption DEF TypeOK, Answer, Goto, NoCall, Label, Attempts, Operation
<1>10. users'[u] # Null
  BY <1>6, NullAssumption
<1>11. OthersWait(r) /\ RowsStay /\ pc'[r] = "idle" /\ call'[r].op = "none"
  BY <1>1, <1>7, <1>10 DEF TypeOK, Answer, Goto, NoCall, OthersWait, RowsStay
<1>12. Handler(r)' /\ HandlerQuiet(r)'
  BY <1>11 DEF Handler, InStages, Arguments, Findings, HandlerQuiet
<1>13. Lineage' /\ LockHasCause'
  BY <1>1, <1>3, <1>6, <1>7 DEF TypeOK, Lineage, LockHasCause
<1>14. ~overlapped => TablesQuiet'
  <2> SUFFICES ASSUME ~overlapped PROVE TablesQuiet'
    OBVIOUS
  <2>1. TablesQuiet /\ attempts = OneMore(users[u].attempts)
    BY <1>1, <1>2 DEF AInv, Quiet, HandlerQuiet, attempts
  <2>2. misses' = [misses EXCEPT ![u] = OneMore(@)]
    BY <1>2 DEF RecordFailure
  <2>3. AccountQuiet(u)'
    <3>1. misses[u] \in Attempts /\ users[u].attempts \in Attempts /\ misses[u] <= users[u].attempts
      BY <1>1, <1>2, <2>1 DEF TypeOK, UserRow, TablesQuiet, AccountQuiet
    <3>2. misses'[u] = OneMore(misses[u])
      BY <1>1, <1>2, <2>2 DEF TypeOK
    <3>3. misses'[u] <= users'[u].attempts /\ (misses'[u] >= MaxFailedAttempts => users'[u].locked)
      BY <1>3, <1>6, <2>1, <3>1, <3>2, Counting
    <3>4. users'[u].password \notin retired'[u]
      BY <1>1, <1>2, <1>6, <2>1 DEF TablesQuiet, AccountQuiet
    <3> QED BY <1>10, <3>3, <3>4 DEF AccountQuiet
  <2>4. \A v \in User \ {u} : AccountQuiet(v)'
    BY <1>1, <1>2, <1>7, <2>1, <2>2 DEF TypeOK, TablesQuiet, AccountQuiet
  <2> QED BY <1>1, <2>1, <2>3, <2>4, SessionsQuiet DEF TablesQuiet
<1> QED BY <1>1, <1>9, <1>11, <1>12, <1>13, <1>14, StepOfOne

\* A login starts the count anew and takes the lock with it.
LEMMA RecordSuccessStep ==
    ASSUME AInv, NEW r \in Request, RecordSuccess(r)
    PROVE  AInv'
<1>1. /\ TypeOK /\ Handler(r) /\ Lineage /\ LockHasCause
      /\ pc[r] = "recordSuccess" /\ pc' = [pc EXCEPT ![r] = "store"]
      /\ UNCHANGED <<sessions, call, who, read, reply, retired, overlapped>>
  BY DEF RecordSuccess, AInv, Goto
<1>2. PICK u \in User : call[r].op = "login" /\ u = who[r] /\ users[u] # Null /\ users[u] \in UserRow
  <2>1. call[r].op = "login"
    BY <1>1 DEF Handler, InStages, TypeOK, Operation
  <2> QED BY <1>1, <2>1 DEF Handler, Findings, TypeOK
<1>3. users' = [users EXCEPT ![u].attempts = 0, ![u].locked = FALSE]
      /\ misses' = [misses EXCEPT ![u] = 0]
  BY <1>2 DEF RecordSuccess
<1>4. /\ users'[u] \in UserRow
      /\ users'[u].attempts = 0 /\ ~users'[u].locked
      /\ users'[u].password = users[u].password /\ users'[u].email = users[u].email
  BY <1>1, <1>2, <1>3, Counting DEF TypeOK, UserRow
<1>5. users' \in [User -> UserRow \cup {Null}] /\ \A v \in User \ {u} : users'[v] = users[v]
  BY <1>1, <1>2, <1>3, <1>4 DEF TypeOK
<1>6. users'[u] # Null
  BY <1>4, NullAssumption
<1>7. TypeOK'
  BY <1>1, <1>2, <1>3, <1>5, AttemptsAssumption DEF TypeOK, Label, Attempts
<1>8. OthersWait(r) /\ RowsStay /\ pc'[r] = "store"
  BY <1>1, <1>5, <1>6 DEF TypeOK, OthersWait, RowsStay
<1>9. Handler(r)'
  BY <1>1, <1>2, <1>5, <1>6, <1>8 DEF Handler, InStages, Arguments, Findings
<1>10. Lineage' /\ LockHasCause'
  BY <1>1, <1>4, <1>5 DEF TypeOK, Lineage, LockHasCause
<1>11. ~overlapped => TablesQuiet' /\ HandlerQuiet(r)'
  <2> SUFFICES ASSUME ~overlapped PROVE TablesQuiet' /\ HandlerQuiet(r)'
    OBVIOUS
  <2>1. TablesQuiet /\ call[r].password = users[u].password
    BY <1>1, <1>2 DEF AInv, Quiet, HandlerQuiet
  <2>2. AccountQuiet(u)'
    <3>1. misses'[u] = 0 /\ ~(0 >= MaxFailedAttempts)
      BY <1>1, <1>2, <1>3, AttemptsAssumption DEF TypeOK
    <3> QED BY <1>1, <1>2, <1>4, <1>6, <2>1, <3>1 DEF TablesQuiet, AccountQuiet
  <2>3. \A v \in User \ {u} : AccountQuiet(v)'
    BY <1>1, <1>2, <1>3, <1>5, <2>1 DEF TypeOK, TablesQuiet, AccountQuiet
  <2>4. HandlerQuiet(r)'
    BY <1>1, <1>2, <1>4, <1>8, <2>1 DEF HandlerQuiet
  <2> QED BY <1>1, <2>1, <2>2, <2>3, <2>4, SessionsQuiet DEF TablesQuiet
<1> QED BY <1>1, <1>7, <1>8, <1>9, <1>10, <1>11, StepOfOne

\* What TablesQuiet says of accounts is about the other columns and histories.
LEMMA AccountsQuiet ==
    ASSUME TablesQuiet, UNCHANGED <<users, misses, retired>>
    PROVE  \A u \in User : AccountQuiet(u)'
BY DEF TablesQuiet, AccountQuiet

(***************************************************************************)
(* issueTokens, refresh and logout.                                        *)
(***************************************************************************)

\* The new session opens with a password that is still good, and is the first
\* successor of the token it is exchanged for.
LEMMA StoreTokenStep ==
    ASSUME AInv, NEW r \in Request, StoreToken(r)
    PROVE  AInv'
<1> DEFINE parent == call[r].token
           password == IF parent = Null THEN call[r].password ELSE sessions[parent].password
           row == [user |-> who[r], revoked |-> FALSE, expired |-> FALSE, parent |-> parent,
                   password |-> password, by |-> IF parent = Null THEN Null ELSE r]
<1>1. /\ TypeOK /\ Handler(r) /\ Lineage /\ LockHasCause
      /\ pc[r] = "store" /\ Answer(r, "ok") /\ UNCHANGED <<users, history>>
  BY DEF StoreToken, AInv
<1>2. PICK t \in Token : sessions[t] = Null /\ sessions' = [sessions EXCEPT ![t] = row]
  BY DEF StoreToken, Owner
<1>3. \/ /\ call[r].op = "login" /\ parent = Null /\ who[r] \in User /\ users[who[r]] # Null
         /\ password = call[r].password /\ password \in Password
      \/ /\ call[r].op = "refresh" /\ parent \in Token /\ parent # Null /\ sessions[parent] # Null
         /\ who[r] = sessions[parent].user /\ sessions[parent].revoked
         /\ password = sessions[parent].password
  <2>1. call[r].op \in {"login", "refresh"}
    BY <1>1 DEF Handler, InStages, TypeOK, Operation
  <2> QED BY <1>1, <2>1, NullAssumption DEF Handler, Arguments, Findings
<1>4. who[r] \in User /\ password \in Password /\ parent \in Token \cup {Null}
  BY <1>1, <1>3 DEF TypeOK, SessionRow
<1>5. row \in SessionRow /\ row # Null
  <2>1. row \in SessionRow
    BY <1>4 DEF SessionRow
  <2> QED BY <2>1, NullAssumption
<1>6. row.user = who[r] /\ row.parent = parent /\ row.password = password /\ ~row.revoked
  OBVIOUS
<1> HIDE DEF row, password, parent
<1>7. TypeOK'
  BY <1>1, <1>2, <1>5, Counting DEF TypeOK, Answer, Goto, NoCall, Label, history, Operation
<1>8. OthersWait(r) /\ RowsStay /\ pc'[r] = "idle" /\ call'[r].op = "none"
  BY <1>1, <1>2, <1>5 DEF TypeOK, Answer, Goto, NoCall, OthersWait, RowsStay
<1>9. Handler(r)' /\ HandlerQuiet(r)'
  BY <1>8 DEF Handler, InStages, Arguments, Findings, HandlerQuiet
<1>10. \A s \in Token : sessions'[s] = IF s = t THEN row ELSE sessions[s]
  BY <1>1, <1>2 DEF TypeOK
<1>11. Lineage'
  <2> SUFFICES ASSUME NEW s \in Token, sessions'[s] # Null, sessions'[s].parent # Null
               PROVE  /\ sessions'[sessions'[s].parent] # Null
                      /\ sessions'[sessions'[s].parent].revoked
                      /\ sessions'[sessions'[s].parent].user = sessions'[s].user
    BY DEF Lineage
  <2>1. CASE s = t
    BY <1>2, <1>3, <1>6, <1>10, <2>1
  <2>2. CASE s # t
    <3>1. sessions[s].parent \in Token /\ sessions[sessions[s].parent] # Null
      BY <1>1, <1>10, <2>2 DEF TypeOK, SessionRow, Lineage
    <3> QED BY <1>1, <1>2, <1>10, <2>2, <3>1 DEF Lineage
  <2> QED BY <2>1, <2>2
<1>12. LockHasCause'
  BY <1>1 DEF LockHasCause
<1>13. ~overlapped => TablesQuiet'
  <2> SUFFICES ASSUME ~overlapped PROVE TablesQuiet'
    OBVIOUS
  <2>1. TablesQuiet /\ HandlerQuiet(r) /\ UNCHANGED <<users, misses, retired>>
    BY <1>1 DEF AInv, Quiet, history
  <2>2. password \notin retired[who[r]]
    BY <1>1, <1>3, <2>1 DEF TablesQuiet, AccountQuiet, HandlerQuiet, parent
  <2>3. \A s \in Token : Live(s)' => sessions'[s].password \notin retired'[sessions'[s].user]
    BY <1>6, <1>10, <2>1, <2>2 DEF TablesQuiet, Live, Usable
  <2> QED BY <2>1, <2>3, AccountsQuiet DEF TablesQuiet
<1> QED BY <1>1, <1>7, <1>8, <1>9, <1>11, <1>12, <1>13, StepOfOne DEF history

LEMMA FindTokenStep ==
    ASSUME AInv, NEW r \in Request, FindToken(r)
    PROVE  AInv'
<1>1. CASE Refused(r)
  BY <1>1, AnswerStep DEF FindToken, Refused
<1>2. CASE ~Refused(r)
  <2>1. /\ pc[r] = "findToken" /\ Usable(call[r].token)
        /\ who' = [who EXCEPT ![r] = sessions[call[r].token].user]
        /\ pc' = [pc EXCEPT ![r] = "findAccount"]
        /\ UNCHANGED <<users, sessions, call, read, reply, history>>
    BY <1>2 DEF FindToken, Goto
  <2>2. PICK t \in Token : t = call[r].token /\ call[r].op = "refresh" /\ sessions[t] # Null
    BY <2>1 DEF AInv, TypeOK, Operation, Handler, InStages, Arguments
  <2>3. sessions[t] \in SessionRow
    BY <2>2 DEF AInv, TypeOK
  <2>4. TypeOK' /\ OthersWait(r) /\ who'[r] = sessions[t].user /\ pc'[r] = "findAccount"
    BY <2>1, <2>2, <2>3 DEF AInv, TypeOK, SessionRow, Label, history, OthersWait
  <2>5. Handler(r)'
    BY <2>1, <2>2, <2>4 DEF AInv, Handler, InStages, Arguments, Findings
  <2>6. ~overlapped => HandlerQuiet(r)'
    <3>1. ~overlapped => sessions[t].password \notin retired[sessions[t].user]
      BY <2>1, <2>2 DEF AInv, Quiet, TablesQuiet, Live
    <3> QED BY <2>1, <2>2, <2>4, <3>1 DEF HandlerQuiet, history
  <2> QED BY <2>1, <2>4, <2>5, <2>6, ReadingStep
<1> QED BY <1>1, <1>2

LEMMA FindAccountStep ==
    ASSUME AInv, NEW r \in Request, FindAccount(r)
    PROVE  AInv'
<1>1. CASE Refused(r)
  BY <1>1, AnswerStep DEF FindAccount, Refused
<1>2. CASE Continue(r, "revoke")
  <2>1. /\ pc[r] = "findAccount" /\ "revoke" \in Label /\ pc'[r] = "revoke"
        /\ call[r].op = "refresh" /\ UNCHANGED <<users, sessions, call, who, read, reply, history>>
    BY <1>2 DEF FindAccount, Continue, Goto, Label, AInv, TypeOK, Handler, InStages, Operation
  <2>2. InStages(r)' /\ Findings(r)'
    BY <2>1 DEF AInv, Handler, InStages, Findings
  <2>3. ~overlapped => HandlerQuiet(r)'
    BY <2>1 DEF AInv, Quiet, HandlerQuiet, history
  <2> QED BY <1>2, <2>1, <2>2, <2>3, ContinueStep
<1> QED BY <1>1, <1>2 DEF FindAccount, AfterAccount

\* Sessions that are revoked or run out: nothing else of them changes.
SessionsEnd ==
    \A t \in Token :
        /\ sessions[t] = Null => sessions'[t] = Null
        /\ sessions[t] # Null => /\ sessions'[t] # Null
                                 /\ sessions'[t].user = sessions[t].user
                                 /\ sessions'[t].parent = sessions[t].parent
                                 /\ sessions'[t].password = sessions[t].password
                                 /\ sessions[t].revoked => sessions'[t].revoked
                                 /\ sessions[t].expired => sessions'[t].expired

LEMMA EndingKeeps ==
    ASSUME AInv, SessionsEnd, UNCHANGED users
    PROVE  /\ RowsStay /\ Lineage' /\ LockHasCause'
           /\ \A t \in Token : Live(t)' => Live(t)
           /\ TablesQuiet /\ UNCHANGED <<misses, retired>> => TablesQuiet'
<1>1. RowsStay /\ LockHasCause'
  BY DEF AInv, SessionsEnd, RowsStay, LockHasCause
<1>3. \A t \in Token : Live(t)' => Live(t)
  BY DEF SessionsEnd, Live, Usable
<1>4. Lineage'
  <2> SUFFICES ASSUME NEW t \in Token, sessions'[t] # Null, sessions'[t].parent # Null
               PROVE  /\ sessions'[sessions'[t].parent] # Null
                      /\ sessions'[sessions'[t].parent].revoked
                      /\ sessions'[sessions'[t].parent].user = sessions'[t].user
    BY DEF Lineage
  <2>1. sessions[t] # Null /\ sessions[t].parent \in Token /\ sessions'[t].parent = sessions[t].parent
    BY DEF SessionsEnd, AInv, TypeOK, SessionRow
  <2> QED BY <2>1 DEF AInv, Lineage, SessionsEnd
<1>5. ASSUME TablesQuiet, UNCHANGED <<misses, retired>> PROVE TablesQuiet'
  <2>1. \A t \in Token : Live(t)' => sessions'[t].password \notin retired'[sessions'[t].user]
    BY <1>3, <1>5 DEF TablesQuiet, SessionsEnd, Live
  <2> QED BY <1>5, <2>1, AccountsQuiet DEF TablesQuiet
<1> QED BY <1>1, <1>3, <1>4, <1>5

LEMMA RevokeTokenStep ==
    ASSUME AInv, NEW r \in Request, RevokeToken(r)
    PROVE  AInv'
<1>1. TypeOK /\ Handler(r) /\ pc[r] = "revoke" /\ UNCHANGED <<users, history>>
  BY DEF RevokeToken, AInv
<1>2. PICK t \in Token : t = call[r].token /\ sessions[t] # Null /\ call[r].op \in {"refresh", "logout"}
  BY <1>1 DEF Handler, InStages, Arguments, TypeOK, Operation
<1>3. sessions' = [sessions EXCEPT ![t].revoked = TRUE]
  BY <1>2 DEF RevokeToken
<1>4. sessions[t] \in SessionRow
  BY <1>1, <1>2 DEF TypeOK
<1>5. sessions'[t] \in SessionRow /\ sessions'[t].revoked
  BY <1>1, <1>3, <1>4 DEF TypeOK, SessionRow
<1>6. sessions' \in [Token -> SessionRow \cup {Null}]
  BY <1>1, <1>3, <1>5 DEF TypeOK
<1>7. SessionsEnd
  <2>1. sessions'[t] # Null
    BY <1>5, NullAssumption
  <2>2. /\ sessions'[t].user = sessions[t].user /\ sessions'[t].parent = sessions[t].parent
        /\ sessions'[t].password = sessions[t].password
        /\ sessions[t].expired => sessions'[t].expired
    BY <1>1, <1>3, <1>4 DEF TypeOK, SessionRow
  <2>3. \A s \in Token \ {t} : sessions'[s] = sessions[s]
    BY <1>1, <1>3 DEF TypeOK
  <2> QED BY <1>2, <1>5, <2>1, <2>2, <2>3 DEF SessionsEnd
<1>8. CASE call[r].op = "logout" /\ Answer(r, "ok")
  <2>1. TypeOK'
    BY <1>1, <1>6, <1>8, Counting DEF TypeOK, Answer, Goto, NoCall, Label, history, Operation
  <2>2. OthersWait(r) /\ pc'[r] = "idle" /\ call'[r].op = "none"
    BY <1>1, <1>8 DEF TypeOK, Answer, Goto, NoCall, OthersWait
  <2>3. Handler(r)' /\ HandlerQuiet(r)'
    BY <2>2 DEF Handler, InStages, Arguments, Findings, HandlerQuiet
  <2> QED BY <1>1, <1>7, <2>1, <2>2, <2>3, EndingKeeps, StepOfOne DEF history, AInv, Quiet
<1>9. CASE call[r].op = "refresh" /\ Goto(r, "store") /\ UNCHANGED <<call, who, read, reply>>
  <2>1. TypeOK'
    BY <1>1, <1>6, <1>9 DEF TypeOK, Goto, Label, history
  <2>2. OthersWait(r) /\ pc'[r] = "store"
    BY <1>1, <1>9 DEF TypeOK, Goto, OthersWait
  <2>3. Handler(r)'
    BY <1>1, <1>2, <1>5, <1>7, <1>9, <2>2 DEF Handler, InStages, Arguments, Findings, SessionsEnd
  <2>4. ~overlapped => HandlerQuiet(r)'
    BY <1>1, <1>2, <1>7, <1>9, <2>2, EndingKeeps DEF AInv, Quiet, HandlerQuiet, SessionsEnd, history
  <2> QED BY <1>1, <1>7, <2>1, <2>2, <2>3, <2>4, EndingKeeps, StepOfOne DEF history, AInv, Quiet
<1> QED BY <1>8, <1>9 DEF RevokeToken

(***************************************************************************)
(* changePassword.                                                         *)
(***************************************************************************)

LEMMA FindForChangeStep ==
    ASSUME AInv, NEW r \in Request, FindForChange(r)
    PROVE  AInv'
<1>1. CASE Refused(r)
  BY <1>1, AnswerStep DEF FindForChange, Refused
<1>2. CASE Continue(r, "updatePassword")
  <2>1. /\ pc[r] = "findById" /\ "updatePassword" \in Label /\ pc'[r] = "updatePassword"
        /\ call[r].op = "changePassword" /\ call' = call
    BY <1>2 DEF FindForChange, Continue, Goto, Label, AInv, TypeOK, Handler, InStages, Operation
  <2>2. InStages(r)' /\ Findings(r)' /\ HandlerQuiet(r)'
    BY <2>1 DEF InStages, Findings, HandlerQuiet
  <2> QED BY <1>2, <2>1, <2>2, ContinueStep
<1> QED BY <1>1, <1>2 DEF FindForChange

\* The new password is no longer one that was done away with.
LEMMA UpdatePasswordStep ==
    ASSUME AInv, NEW r \in Request, UpdatePassword(r)
    PROVE  AInv'
<1>1. /\ TypeOK /\ Handler(r) /\ Lineage /\ LockHasCause
      /\ pc[r] = "updatePassword" /\ pc' = [pc EXCEPT ![r] = "revokeAll"]
      /\ UNCHANGED <<sessions, call, who, read, reply, misses, overlapped>>
  BY DEF UpdatePassword, AInv, Goto
<1>2. call[r].op = "changePassword"
  BY <1>1 DEF Handler, InStages, TypeOK, Operation
<1>3. PICK u \in User, new \in Password : u = call[r].user /\ users[u] # Null /\ new = call[r].newPassword
  BY <1>1, <1>2 DEF Handler, Arguments
<1>4. users[u] \in UserRow
  BY <1>1, <1>3 DEF TypeOK
<1>5. users' = [users EXCEPT ![u].password = new] /\ retired' = [retired EXCEPT ![u] = @ \ {new}]
  BY <1>3 DEF UpdatePassword
<1>6. /\ users'[u] \in UserRow
      /\ users'[u].password = new /\ users'[u].email = users[u].email
      /\ users'[u].attempts = users[u].attempts /\ (users'[u].locked <=> users[u].locked)
  BY <1>1, <1>4, <1>5 DEF TypeOK, UserRow
<1>7. users'[u] # Null
  BY <1>6, NullAssumption
<1>8. users' \in [User -> UserRow \cup {Null}] /\ \A v \in User \ {u} : users'[v] = users[v]
  BY <1>1, <1>5, <1>6 DEF TypeOK
<1>9. \A v \in User : retired'[v] \subseteq retired[v] /\ new \notin retired'[u]
  BY <1>1, <1>5 DEF TypeOK
<1>10. TypeOK'
  BY <1>1, <1>5, <1>8 DEF TypeOK, Label
<1>11. OthersWait(r) /\ RowsStay /\ pc'[r] = "revokeAll"
  BY <1>1, <1>7, <1>8 DEF TypeOK, OthersWait, RowsStay
<1>12. Handler(r)'
  BY <1>1, <1>2, <1>3, <1>7, <1>11 DEF Handler, InStages, Arguments, Findings
<1>13. Lineage' /\ LockHasCause'
  BY <1>1, <1>6, <1>7, <1>8, <1>3 DEF TypeOK, Lineage, LockHasCause
<1>14. HandlerQuiet(r)'
  BY <1>1, <1>2, <1>3, <1>6, <1>11 DEF HandlerQuiet
<1>15. ~overlapped => TablesQuiet'
  <2> SUFFICES ASSUME TablesQuiet PROVE TablesQuiet'
    BY DEF AInv, Quiet
  <2>1. AccountQuiet(u)'
    BY <1>1, <1>3, <1>6, <1>7, <1>9 DEF TablesQuiet, AccountQuiet
  <2>2. \A v \in User \ {u} : AccountQuiet(v)'
    BY <1>1, <1>5, <1>8 DEF TypeOK, TablesQuiet, AccountQuiet
  <2>4. \A t \in Token : Live(t)' => sessions'[t].password \notin retired'[sessions'[t].user]
    <3>1. \A t \in Token : Live(t) => sessions[t].user \in User
      BY <1>1 DEF TypeOK, SessionRow, Live
    <3> QED BY <1>1, <1>9, <3>1 DEF TablesQuiet, Live, Usable
  <2> QED BY <2>1, <2>2, <2>4 DEF TablesQuiet
<1> QED BY <1>1, <1>10, <1>11, <1>12, <1>13, <1>14, <1>15, StepOfOne

\* The password is done away with only after its sessions are, and those that
\* are left have another account.
LEMMA RevokeAllStep ==
    ASSUME AInv, NEW r \in Request, RevokeAll(r)
    PROVE  AInv'
<1>1. /\ TypeOK /\ Handler(r) /\ pc[r] = "revokeAll" /\ Answer(r, "ok")
      /\ UNCHANGED <<users, misses, overlapped>>
  BY DEF RevokeAll, AInv
<1>2. call[r].op = "changePassword"
  BY <1>1 DEF Handler, InStages, TypeOK, Operation
<1>3. PICK u \in User, old, new \in Password :
        u = call[r].user /\ users[u] # Null /\ old = call[r].password /\ new = call[r].newPassword
  BY <1>1, <1>2 DEF Handler, Arguments
<1>4. sessions' = [t \in Token |-> IF OwnedBy(t, u) THEN [sessions[t] EXCEPT !.revoked = TRUE]
                                                  ELSE sessions[t]]
  BY <1>3 DEF RevokeAll
<1>5. retired' = [retired EXCEPT ![u] = @ \cup ({old} \ {new})]
  BY <1>3 DEF RevokeAll
<1>6. ASSUME NEW t \in Token, OwnedBy(t, u)
      PROVE  /\ sessions'[t] \in SessionRow /\ sessions'[t] # Null
             /\ sessions'[t].revoked
             /\ sessions'[t].user = sessions[t].user /\ sessions'[t].parent = sessions[t].parent
             /\ sessions'[t].password = sessions[t].password
             /\ sessions[t].expired => sessions'[t].expired
  <2>1. sessions[t] \in SessionRow /\ sessions'[t] = [sessions[t] EXCEPT !.revoked = TRUE]
    BY <1>1, <1>4, <1>6 DEF TypeOK, OwnedBy
  <2>2. sessions'[t] \in SessionRow
    BY <2>1 DEF SessionRow
  <2> QED BY <2>1, <2>2, NullAssumption DEF SessionRow
<1>7. \A t \in Token : ~OwnedBy(t, u) => sessions'[t] = sessions[t]
  BY <1>4
<1>8. sessions' \in [Token -> SessionRow \cup {Null}]
  BY <1>1, <1>4, <1>6, <1>7 DEF TypeOK
<1>9. SessionsEnd
  BY <1>6, <1>7 DEF SessionsEnd, OwnedBy
<1>10. TypeOK'
  BY <1>1, <1>5, <1>8, Counting DEF TypeOK, Answer, Goto, NoCall, Label, Operation
<1>11. OthersWait(r) /\ pc'[r] = "idle" /\ call'[r].op = "none"
  BY <1>1 DEF TypeOK, Answer, Goto, NoCall, OthersWait
<1>12. Handler(r)' /\ HandlerQuiet(r)'
  BY <1>11 DEF Handler, InStages, Arguments, Findings, HandlerQuiet
<1>13. ~overlapped => TablesQuiet'
  <2> SUFFICES ASSUME ~overlapped PROVE TablesQuiet'
    OBVIOUS
  <2>1. TablesQuiet /\ users[u].password = new
    BY <1>1, <1>3 DEF AInv, Quiet, HandlerQuiet
  <2>2. AccountQuiet(u)'
    BY <1>1, <1>3, <1>5, <2>1 DEF TypeOK, TablesQuiet, AccountQuiet
  <2>3. \A v \in User \ {u} : AccountQuiet(v)'
    BY <1>1, <1>5, <2>1 DEF TypeOK, TablesQuiet, AccountQuiet
  <2>5. \A t \in Token : Live(t)' => sessions'[t].password \notin retired'[sessions'[t].user]
    <3> SUFFICES ASSUME NEW t \in Token, Live(t)'
                 PROVE  sessions'[t].password \notin retired'[sessions'[t].user]
      OBVIOUS
    <3>1. ~OwnedBy(t, u) /\ sessions'[t] = sessions[t] /\ Live(t)
      BY <1>6, <1>7 DEF Live, Usable
    <3>2. sessions[t].user \in User \ {u}
      BY <1>1, <3>1 DEF OwnedBy, Live, TypeOK, SessionRow
    <3>3. retired'[sessions[t].user] = retired[sessions[t].user]
      BY <1>1, <1>5, <3>2 DEF TypeOK
    <3> QED BY <2>1, <3>1, <3>3 DEF TablesQuiet
  <2> QED BY <2>2, <2>3, <2>5 DEF TablesQuiet
<1> QED BY <1>1, <1>9, <1>10, <1>11, <1>12, <1>13, EndingKeeps, StepOfOne

(***************************************************************************)
(* What happens around the handlers.                                       *)
(***************************************************************************)

\* No handler moves.
LEMMA StepOfNone ==
    ASSUME AInv, UNCHANGED <<pc, call, who, read, overlapped>>, RowsStay, TypeOK', Lineage', LockHasCause',
           ~overlapped => TablesQuiet' /\ \A q \in Request : HandlerQuiet(q)'
    PROVE  AInv'
<1>1. ASSUME NEW q \in Request PROVE Handler(q)'
  <2>1. Handler(q) /\ TypeOK
    BY DEF AInv
  <2>2. InStages(q)' /\ Arguments(q)'
    BY <2>1 DEF Handler, InStages, Arguments, RowsStay
  <2>3. Findings(q)'
    BY <2>1 DEF Handler, Arguments, Findings, RowsStay
  <2> QED BY <2>2, <2>3 DEF Handler
<1>2. Quiet'
  BY DEF AInv, Quiet, Alone
<1> QED BY <1>1, <1>2 DEF AInv

\* The columns that a lock or a deactivation touches are none that a handler
\* has read and relies on.
AccountsStay ==
    \A u \in User :
        /\ users[u] = Null => users'[u] = Null
        /\ users[u] # Null => /\ users'[u] # Null
                              /\ users'[u].email = users[u].email
                              /\ users'[u].password = users[u].password
                              /\ users'[u].attempts = users[u].attempts

LEMMA AccountStep ==
    ASSUME AInv, NEW u \in User, AccountsStay, TypeOK', UNCHANGED <<pc, call, who, read, overlapped>>,
           UNCHANGED <<sessions, retired>>,
           \A v \in User \ {u} : users'[v] = users[v] /\ misses'[v] = misses[v],
           \/ users'[u].locked = users[u].locked /\ misses'[u] = misses[u]
           \/ ~users'[u].locked /\ misses'[u] = 0
    PROVE  AInv'
<1>1. RowsStay /\ Lineage'
  BY DEF AInv, AccountsStay, RowsStay, Lineage
<1>2. LockHasCause'
  BY DEF AInv, AccountsStay, LockHasCause
<1>3. ASSUME ~overlapped PROVE TablesQuiet' /\ \A q \in Request : HandlerQuiet(q)'
  <2>1. TablesQuiet
    BY <1>3 DEF AInv, Quiet
  <2>2. AccountQuiet(u)'
    <3>1. users[u] # Null => users[u].attempts \in Attempts /\ 0 <= users[u].attempts
      BY DEF AInv, TypeOK, UserRow, Attempts
    <3> QED BY <2>1, <3>1, AttemptsAssumption DEF TablesQuiet, AccountQuiet, AccountsStay
  <2>3. \A v \in User \ {u} : AccountQuiet(v)'
    BY <2>1 DEF TablesQuiet, AccountQuiet
  <2>5. ASSUME NEW q \in Request PROVE HandlerQuiet(q)'
    <3>1. HandlerQuiet(q) /\ Handler(q) /\ TypeOK
      BY <1>3 DEF AInv, Quiet
    <3>2. /\ pc[q] \in {"recordFailure", "recordSuccess"} => call[q].op = "login"
          /\ pc[q] = "revokeAll" => call[q].op = "changePassword"
      BY <3>1 DEF Handler, InStages, TypeOK, Operation
    <3> QED BY <3>1, <3>2 DEF HandlerQuiet, Handler, Arguments, Findings, AccountsStay
  <2> QED BY <2>1, <2>2, <2>3, <2>5, SessionsQuiet DEF TablesQuiet
<1> QED BY <1>1, <1>2, <1>3, StepOfNone

LEMMA LockExpiresStep ==
    ASSUME AInv, NEW u \in User, LockExpires(u)
    PROVE  AInv'
<1>1. /\ TypeOK /\ users[u] # Null /\ users[u] \in UserRow
      /\ users' = [users EXCEPT ![u].locked = FALSE] /\ misses' = [misses EXCEPT ![u] = 0]
      /\ UNCHANGED <<sessions, pc, call, who, read, reply, retired, overlapped>>
  BY DEF LockExpires, AInv, TypeOK
<1>2. /\ users'[u] \in UserRow /\ ~users'[u].locked
      /\ users'[u].email = users[u].email /\ users'[u].password = users[u].password
      /\ users'[u].attempts = users[u].attempts
  BY <1>1 DEF TypeOK, UserRow
<1>3. users' \in [User -> UserRow \cup {Null}] /\ \A v \in User \ {u} : users'[v] = users[v]
  BY <1>1, <1>2 DEF TypeOK
<1>4. misses'[u] = 0 /\ \A v \in User \ {u} : misses'[v] = misses[v]
  BY <1>1 DEF TypeOK
<1>5. TypeOK'
  BY <1>1, <1>3, Counting DEF TypeOK
<1>6. AccountsStay
  BY <1>1, <1>2, <1>3, NullAssumption DEF AccountsStay
<1> QED BY <1>1, <1>2, <1>3, <1>4, <1>5, <1>6, AccountStep

LEMMA DeactivateStep ==
    ASSUME AInv, NEW u \in User, Deactivate(u)
    PROVE  AInv'
<1>1. /\ TypeOK /\ users[u] # Null /\ users[u] \in UserRow
      /\ users' = [users EXCEPT ![u].active = FALSE]
      /\ UNCHANGED <<sessions, pc, call, who, read, reply, misses, retired, overlapped>>
  BY DEF Deactivate, AInv, TypeOK, history
<1>2. /\ users'[u] \in UserRow /\ users'[u].locked = users[u].locked
      /\ users'[u].email = users[u].email /\ users'[u].password = users[u].password
      /\ users'[u].attempts = users[u].attempts
  BY <1>1 DEF TypeOK, UserRow
<1>3. users' \in [User -> UserRow \cup {Null}] /\ \A v \in User \ {u} : users'[v] = users[v]
  BY <1>1, <1>2 DEF TypeOK
<1>4. TypeOK'
  BY <1>1, <1>3 DEF TypeOK
<1>5. AccountsStay
  BY <1>1, <1>2, <1>3, NullAssumption DEF AccountsStay
<1> QED BY <1>1, <1>2, <1>3, <1>4, <1>5, AccountStep

LEMMA TokenExpiresStep ==
    ASSUME AInv, NEW t \in Token, TokenExpires(t)
    PROVE  AInv'
<1>1. /\ TypeOK /\ sessions[t] # Null /\ sessions[t] \in SessionRow
      /\ sessions' = [sessions EXCEPT ![t].expired = TRUE]
      /\ UNCHANGED <<users, pc, call, who, read, reply, misses, retired, overlapped>>
  BY DEF TokenExpires, AInv, TypeOK, history
<1>2. /\ sessions'[t] \in SessionRow /\ sessions'[t].expired
      /\ sessions'[t].user = sessions[t].user /\ sessions'[t].parent = sessions[t].parent
      /\ sessions'[t].password = sessions[t].password
      /\ sessions[t].revoked => sessions'[t].revoked
  BY <1>1 DEF TypeOK, SessionRow
<1>3. sessions' \in [Token -> SessionRow \cup {Null}] /\ \A s \in Token \ {t} : sessions'[s] = sessions[s]
  BY <1>1, <1>2 DEF TypeOK
<1>4. TypeOK'
  BY <1>1, <1>3 DEF TypeOK
<1>5. SessionsEnd
  BY <1>1, <1>2, <1>3, NullAssumption DEF SessionsEnd
<1>6. ASSUME ~overlapped, NEW q \in Request PROVE HandlerQuiet(q)'
  <2>1. HandlerQuiet(q) /\ Handler(q)
    BY <1>6 DEF AInv, Quiet
  <2> QED BY <1>1, <1>5, <2>1 DEF HandlerQuiet, Handler, Arguments, SessionsEnd
<1> QED BY <1>1, <1>4, <1>5, <1>6, EndingKeeps, StepOfNone DEF AInv, Quiet

(***************************************************************************)
(* Every step.                                                             *)
(***************************************************************************)

\* Nobody moves.
LEMMA Stutter == AInv /\ UNCHANGED vars => AInv'
BY StepOfNone
DEF vars, AInv, TypeOK, RowsStay, Lineage, LockHasCause, Quiet, TablesQuiet, AccountQuiet,
    Live, Usable, HandlerQuiet

LEMMA StatementStep ==
    ASSUME AInv, NEW r \in Request, Statement(r)
    PROVE  AInv'
BY FindForRegisterStep, CreateUserStep, FindForLoginStep, RecordFailureStep, RecordSuccessStep,
   StoreTokenStep, FindTokenStep, FindAccountStep, RevokeTokenStep, FindForChangeStep,
   UpdatePasswordStep, RevokeAllStep
DEF Statement

LEMMA FailStep ==
    ASSUME AInv, NEW r \in Request, Fail(r)
    PROVE  AInv'
BY AnswerStep DEF Fail

LEMMA Invariance == Spec => []AInv
<1>1. AInv /\ [Next]_vars => AInv'
  BY Stutter, ArrivalStep, StatementStep, FailStep, LockExpiresStep, DeactivateStep, TokenExpiresStep
  DEF Next
<1> QED BY Start, <1>1, PTL DEF Spec

(***************************************************************************)
(* What one request slot does in turn.  Its second registration finds the  *)
(* account of its first, its second exchange finds the token revoked, and  *)
(* that is so whatever the other slots do meanwhile.                       *)
(***************************************************************************)

Successor(s, t) == sessions[s] # Null /\ sessions[s].parent = t

Exchanging(r) == call[r].op = "refresh" /\ pc[r] \in {"findAccount", "revoke", "store"}

\* The address is free of accounts the request itself has stored.
MayCreate(r) ==
    \A u \in User : users[u] # Null /\ users[u].email = call[r].email => users[u].by # r

\* The token has no successor that the request itself has stored.
MayExchange(r) ==
    \A s \in Token : Successor(s, call[r].token) => sessions[s].by # r

InTurn ==
    /\ LaterEmailRefused
    /\ OneSuccessor
    /\ \A r \in Request : pc[r] = "create" => MayCreate(r)
    /\ \A r \in Request : Exchanging(r) => MayExchange(r)

\* The columns that say who stored a row, and for what.
AccountColumns ==
    \A u \in User :
        /\ users'[u] = Null <=> users[u] = Null
        /\ users[u] # Null => users'[u].email = users[u].email /\ users'[u].by = users[u].by

SessionColumns ==
    \A t \in Token :
        /\ sessions'[t] = Null <=> sessions[t] = Null
        /\ sessions[t] # Null => /\ sessions'[t].parent = sessions[t].parent
                                 /\ sessions'[t].by = sessions[t].by

\* A request goes about a new row only after it has looked.
Looked(q) ==
    /\ pc'[q] = "create" =>
        \/ pc[q] = "create" /\ call'[q] = call[q]
        \/ WithEmail(call'[q].email) = {} /\ users' = users
    /\ Exchanging(q)' =>
        \/ Exchanging(q) /\ call'[q] = call[q]
        \/ (\A s \in Token : ~Successor(s, call'[q].token)) /\ sessions' = sessions

\* A usable token has not been exchanged yet.
LEMMA UsableIsLast ==
    ASSUME AInv, NEW t \in Token, sessions[t] # Null, Usable(t)
    PROVE  \A s \in Token : ~Successor(s, t)
BY NullAssumption DEF AInv, Lineage, Usable, Successor

\* Nothing but a registration touches these columns of users.
LEMMA AccountColumnsStay ==
    ASSUME AInv, Next, \A r \in Request : ~CreateUser(r)
    PROVE  AccountColumns
<1> USE DEF AccountColumns
<1>1. /\ TypeOK
      /\ \A u \in User : users[u] # Null => users[u] \in UserRow
  BY DEF AInv, TypeOK
<1>2. CASE users' = users
  BY <1>2
<1>3. ASSUME NEW r \in Request, RecordFailure(r) \/ RecordSuccess(r) PROVE AccountColumns
  <2>1. who[r] \in User /\ users[who[r]] # Null
    BY <1>3 DEF AInv, TypeOK, RecordFailure, RecordSuccess, Handler, InStages, Findings, Operation
  <2>2. ASSUME NEW a \in Attempts, NEW l \in BOOLEAN,
               users' = [users EXCEPT ![who[r]].attempts = a, ![who[r]].locked = l]
        PROVE  AccountColumns
    <3>1. /\ users'[who[r]] \in UserRow
          /\ users'[who[r]].email = users[who[r]].email /\ users'[who[r]].by = users[who[r]].by
      BY <1>1, <2>1, <2>2 DEF TypeOK, UserRow
    <3> QED BY <1>1, <2>1, <2>2, <3>1, NullAssumption DEF TypeOK
  <2>3. CASE RecordFailure(r)
    <3> DEFINE attempts == OneMore(read[r])
    <3>1. attempts \in Attempts /\ MustLock(attempts) \in BOOLEAN
      BY <1>1, Counting DEF TypeOK, MustLock
    <3>2. users' = [users EXCEPT ![who[r]].attempts = attempts, ![who[r]].locked = MustLock(attempts)]
      BY <2>3 DEF RecordFailure
    <3> QED BY <2>2, <3>1, <3>2
  <2>4. CASE RecordSuccess(r)
    BY <2>2, <2>4, Counting DEF RecordSuccess
  <2> QED BY <1>3, <2>3, <2>4
<1>4. ASSUME NEW r \in Request, UpdatePassword(r) PROVE AccountColumns
  <2>1. call[r].user \in User /\ users[call[r].user] # Null /\ call[r].newPassword \in Password
    BY <1>4 DEF AInv, TypeOK, UpdatePassword, Handler, InStages, Arguments, Operation
  <2>2. users' = [users EXCEPT ![call[r].user].password = call[r].newPassword]
    BY <1>4 DEF UpdatePassword
  <2>3. /\ users'[call[r].user] \in UserRow
        /\ users'[call[r].user].email = users[call[r].user].email
        /\ users'[call[r].user].by = users[call[r].user].by
    BY <1>1, <2>1, <2>2 DEF TypeOK, UserRow
  <2> QED BY <1>1, <2>1, <2>2, <2>3, NullAssumption DEF TypeOK
<1>5. ASSUME NEW u \in User, LockExpires(u) \/ Deactivate(u) PROVE AccountColumns
  <2>1. users[u] # Null /\ \A v \in User \ {u} : users'[v] = users[v]
    BY <1>1, <1>5 DEF LockExpires, Deactivate, TypeOK
  <2>2. /\ users'[u] \in UserRow
        /\ users'[u].email = users[u].email /\ users'[u].by = users[u].by
    <3>1. CASE users' = [users EXCEPT ![u].locked = FALSE]
      BY <1>1, <2>1, <3>1 DEF TypeOK, UserRow
    <3>2. CASE users' = [users EXCEPT ![u].active = FALSE]
      BY <1>1, <2>1, <3>2 DEF TypeOK, UserRow
    <3> QED BY <1>5, <3>1, <3>2 DEF LockExpires, Deactivate
  <2> QED BY <2>1, <2>2, NullAssumption
<1> QED BY <1>2, <1>3, <1>4, <1>5
  DEF Next, Arrival, Statement, Fail, Receive, ReceiveRegister, ReceiveLogin, ReceiveRefresh,
      ReceiveLogout, ReceiveChangePassword, FindForRegister, FindForLogin, StoreToken, FindToken,
      FindAccount, RevokeToken, FindForChange, RevokeAll, TokenExpires, Refused, Continue

\* Nothing but issueTokens touches these columns of refresh_tokens.
LEMMA SessionColumnsStay ==
    ASSUME AInv, Next, \A r \in Request : ~StoreToken(r)
    PROVE  SessionColumns
<1> USE DEF SessionColumns
<1>1. /\ TypeOK
      /\ \A t \in Token : sessions[t] # Null => sessions[t] \in SessionRow
  BY DEF AInv, TypeOK
<1>2. CASE sessions' = sessions
  BY <1>2
<1>3. ASSUME NEW t \in Token, sessions[t] # Null,
             \/ sessions' = [sessions EXCEPT ![t].revoked = TRUE]
             \/ sessions' = [sessions EXCEPT ![t].expired = TRUE]
      PROVE  SessionColumns
  <2>1. \A s \in Token \ {t} : sessions'[s] = sessions[s]
    BY <1>1, <1>3 DEF TypeOK
  <2>2. /\ sessions'[t] \in SessionRow
        /\ sessions'[t].parent = sessions[t].parent /\ sessions'[t].by = sessions[t].by
    <3>1. CASE sessions' = [sessions EXCEPT ![t].revoked = TRUE]
      BY <1>1, <1>3, <3>1 DEF TypeOK, SessionRow
    <3>2. CASE sessions' = [sessions EXCEPT ![t].expired = TRUE]
      BY <1>1, <1>3, <3>2 DEF TypeOK, SessionRow
    <3> QED BY <1>3, <3>1, <3>2
  <2> QED BY <1>3, <2>1, <2>2, NullAssumption
<1>4. ASSUME NEW r \in Request, RevokeToken(r) PROVE SessionColumns
  <2>1. call[r].token \in Token /\ sessions[call[r].token] # Null
    BY <1>4 DEF AInv, TypeOK, RevokeToken, Handler, InStages, Arguments, Operation
  <2> QED BY <1>3, <1>4, <2>1 DEF RevokeToken
<1>5. ASSUME NEW r \in Request, RevokeAll(r) PROVE SessionColumns
  <2>1. ASSUME NEW t \in Token, sessions[t] # Null, sessions'[t] = [sessions[t] EXCEPT !.revoked = TRUE]
        PROVE  /\ sessions'[t] \in SessionRow
               /\ sessions'[t].parent = sessions[t].parent /\ sessions'[t].by = sessions[t].by
    BY <1>1, <2>1 DEF SessionRow
  <2>2. ASSUME NEW t \in Token
        PROVE  \/ sessions'[t] = sessions[t]
               \/ sessions[t] # Null /\ sessions'[t] = [sessions[t] EXCEPT !.revoked = TRUE]
    BY <1>5 DEF RevokeAll, OwnedBy
  <2> QED BY <2>1, <2>2, NullAssumption
<1> QED BY <1>2, <1>3, <1>4, <1>5
  DEF Next, Arrival, Statement, Fail, Receive, ReceiveRegister, ReceiveLogin, ReceiveRefresh,
      ReceiveLogout, ReceiveChangePassword, FindForRegister, FindForLogin, CreateUser,
      RecordFailure, RecordSuccess, FindToken, FindAccount, FindForChange, UpdatePassword,
      LockExpires, Deactivate, TokenExpires, Refused, Continue, history

\* An answered request, and one that has just come in, is not about to store.
LEMMA RequestsLook ==
    ASSUME AInv, Next, NEW q \in Request
    PROVE  Looked(q)
<1>1. TypeOK /\ Handler(q)
  BY DEF AInv
<1>2. CASE pc'[q] = pc[q] /\ call'[q] = call[q]
  BY <1>2 DEF Looked, Exchanging
<1>3. CASE pc'[q] \notin {"create", "findAccount", "revoke", "store"}
  BY <1>3 DEF Looked, Exchanging
<1>4. CASE call'[q].op \notin {"register", "refresh"} /\ pc'[q] # "create"
  BY <1>4 DEF Looked, Exchanging
<1>5. ASSUME NEW r \in Request, Arrival(r) PROVE Looked(q)
  <2>1. ASSUME NEW c, Receive(r, c), c.op \in Operation PROVE Looked(q)
    <3>1. q # r => pc'[q] = pc[q] /\ call'[q] = call[q]
      BY <1>1, <2>1 DEF Receive, Goto, TypeOK
    <3>2. q = r => pc'[q] = FirstLabel(c.op) /\ call'[q] = c
      BY <1>1, <2>1 DEF Receive, Goto, TypeOK
    <3>3. /\ FirstLabel(c.op) # "create"
          /\ c.op = "refresh" => FirstLabel(c.op) = "findToken"
      BY <2>1 DEF FirstLabel, Operation
    <3> QED BY <1>2, <3>1, <3>2, <3>3 DEF Looked, Exchanging
  <2>2. CASE ReceiveRegister(r)
    BY <2>1, <2>2 DEF ReceiveRegister, NoCall, Operation
  <2>3. CASE ReceiveLogin(r)
    BY <2>1, <2>3 DEF ReceiveLogin, NoCall, Operation
  <2>4. CASE ReceiveRefresh(r)
    BY <2>1, <2>4 DEF ReceiveRefresh, NoCall, Operation
  <2>5. CASE ReceiveLogout(r)
    BY <2>1, <2>5 DEF ReceiveLogout, NoCall, Operation
  <2>6. CASE ReceiveChangePassword(r)
    BY <2>1, <2>6 DEF ReceiveChangePassword, NoCall, Operation
  <2> QED BY <1>5, <2>2, <2>3, <2>4, <2>5, <2>6 DEF Arrival
<1>6. ASSUME NEW r \in Request, NEW a, Answer(r, a) PROVE Looked(q)
  <2>1. q # r => pc'[q] = pc[q] /\ call'[q] = call[q]
    BY <1>1, <1>6 DEF Answer, Goto, TypeOK
  <2>2. q = r => pc'[q] = "idle"
    BY <1>1, <1>6 DEF Answer, Goto, TypeOK
  <2> QED BY <1>2, <1>3, <2>1, <2>2
<1>7. ASSUME NEW r \in Request, NEW l, Goto(r, l), call' = call,
             q = r => \/ l \notin {"create", "findAccount", "revoke", "store"}
                      \/ l # "create" /\ Exchanging(q)
                      \/ l # "create" /\ call[q].op \notin {"register", "refresh"}
      PROVE  Looked(q)
  <2>1. q # r => pc'[q] = pc[q] /\ call'[q] = call[q]
    BY <1>1, <1>7 DEF Goto, TypeOK
  <2>2. q = r => pc'[q] = l /\ call'[q] = call[q]
    BY <1>1, <1>7 DEF Goto, TypeOK
  <2> QED BY <1>7, <1>2, <1>3, <1>4, <2>1, <2>2 DEF Looked, Exchanging
<1>8. ASSUME NEW r \in Request, FindForRegister(r) PROVE Looked(q)
  <2>1. CASE Refused(r)
    BY <1>6, <2>1 DEF Refused
  <2>2. CASE WithEmail(call[r].email) = {} /\ Continue(r, "create")
    <3>1. q # r => pc'[q] = pc[q] /\ call'[q] = call[q]
      BY <1>1, <2>2 DEF Continue, Goto, TypeOK
    <3>2. q = r => Looked(q)
      BY <1>1, <1>8, <2>2 DEF FindForRegister, Continue, Goto, TypeOK, Looked, Exchanging
    <3> QED BY <1>2, <3>1, <3>2
  <2> QED BY <1>8, <2>1, <2>2 DEF FindForRegister
<1>9. ASSUME NEW r \in Request, FindToken(r) PROVE Looked(q)
  <2>1. CASE Refused(r)
    BY <1>6, <2>1 DEF Refused
  <2>2. CASE ~Refused(r)
    <3>1. /\ pc[r] = "findToken" /\ Usable(call[r].token) /\ Goto(r, "findAccount")
          /\ call' = call /\ sessions' = sessions
      BY <1>9, <2>2 DEF FindToken
    <3>2. call[r].token \in Token /\ sessions[call[r].token] # Null
      BY <3>1 DEF AInv, TypeOK, Handler, InStages, Arguments, Operation
    <3>3. \A s \in Token : ~Successor(s, call[r].token)
      BY <3>1, <3>2, UsableIsLast
    <3>4. q # r => pc'[q] = pc[q] /\ call'[q] = call[q]
      BY <1>1, <3>1 DEF Goto, TypeOK
    <3>5. q = r => pc'[q] = "findAccount"
      BY <1>1, <3>1 DEF Goto, TypeOK
    <3> QED BY <1>2, <3>1, <3>3, <3>4, <3>5 DEF Looked
  <2> QED BY <2>1, <2>2
<1>10. ASSUME NEW r \in Request, Statement(r) PROVE Looked(q)
  <2>1. /\ pc[r] \in {"recordSuccess", "recordFailure"} => call[r].op = "login"
        /\ pc[r] = "findAccount" => Exchanging(r)
        /\ pc[r] = "revoke" /\ call[r].op = "refresh" => Exchanging(r)
    BY DEF AInv, TypeOK, Handler, InStages, Exchanging, Operation
  <2>2. ASSUME NEW l, Continue(r, l),
               q = r => \/ l \notin {"create", "findAccount", "revoke", "store"}
                        \/ l # "create" /\ Exchanging(q)
        PROVE  Looked(q)
    BY <1>7, <2>2 DEF Continue
  <2>3. CASE FindForLogin(r)
    <3>1. \/ Refused(r)
          \/ \E l \in {"recordSuccess", "recordFailure"} : Goto(r, l) /\ call' = call
      BY <2>3 DEF FindForLogin
    <3> QED BY <1>6, <1>7, <3>1 DEF Refused
  <2>4. CASE RecordSuccess(r)
    BY <1>7, <2>1, <2>4 DEF RecordSuccess
  <2>5. CASE FindAccount(r)
    BY <1>6, <2>1, <2>2, <2>5 DEF FindAccount, Refused, AfterAccount
  <2>6. CASE RevokeToken(r)
    BY <1>6, <1>7, <2>1, <2>6 DEF RevokeToken
  <2>7. CASE FindForChange(r)
    <3>1. CASE Refused(r)
      BY <1>6, <3>1 DEF Refused
    <3>2. CASE Continue(r, "updatePassword")
      BY <1>7, <3>2 DEF Continue
    <3> QED BY <2>7, <3>1, <3>2 DEF FindForChange
  <2>8. CASE UpdatePassword(r)
    BY <1>7, <2>8 DEF UpdatePassword
  <2>9. CASE CreateUser(r) \/ RecordFailure(r) \/ StoreToken(r) \/ RevokeAll(r)
    BY <1>6, <2>9 DEF CreateUser, RecordFailure, StoreToken, RevokeAll
  <2> QED BY <1>8, <1>9, <1>10, <2>3, <2>4, <2>5, <2>6, <2>7, <2>8, <2>9 DEF Statement
<1>11. ASSUME NEW r \in Request, Fail(r) PROVE Looked(q)
  BY <1>6, <1>11 DEF Fail
<1>12. ASSUME NEW u \in User, LockExpires(u) \/ Deactivate(u) PROVE Looked(q)
  BY <1>2, <1>12 DEF LockExpires, Deactivate
<1>13. ASSUME NEW t \in Token, TokenExpires(t) PROVE Looked(q)
  BY <1>2, <1>13 DEF TokenExpires
<1> QED BY <1>5, <1>10, <1>11, <1>12, <1>13 DEF Next

\* The new account is the request's first with this address.
LEMMA AccountsInTurn ==
    ASSUME AInv, InTurn, Next
    PROVE  LaterEmailRefused' /\ \A q \in Request : pc'[q] = "create" => MayCreate(q)'
<1>1. TypeOK /\ \A q \in Request : Looked(q)
  BY RequestsLook DEF AInv
<1>2. CASE AccountColumns
  <2>1. LaterEmailRefused'
    BY <1>2 DEF InTurn, AccountColumns, LaterEmailRefused
  <2>2. ASSUME NEW q \in Request, pc'[q] = "create" PROVE MayCreate(q)'
    BY <1>1, <1>2, <2>2 DEF InTurn, AccountColumns, Looked, MayCreate, WithEmail
  <2> QED BY <2>1, <2>2
<1>3. ASSUME NEW r \in Request, CreateUser(r)
      PROVE  LaterEmailRefused' /\ \A q \in Request : pc'[q] = "create" => MayCreate(q)'
  <2> DEFINE row == [email |-> call[r].email, password |-> call[r].password, attempts |-> 0,
                     locked |-> FALSE, active |-> TRUE, by |-> r]
  <2>1. PICK u \in User : users[u] = Null /\ users' = [users EXCEPT ![u] = row]
    BY <1>3 DEF CreateUser
  <2>2. row.email = call[r].email /\ row.by = r
    OBVIOUS
  <2> HIDE DEF row
  <2>3. \A v \in User : users'[v] = IF v = u THEN row ELSE users[v]
    BY <1>1, <2>1 DEF TypeOK
  <2>4. pc[r] = "create" /\ pc'[r] = "idle" /\ \A q \in Request \ {r} : pc'[q] = pc[q] /\ call'[q] = call[q]
    BY <1>1, <1>3 DEF CreateUser, Answer, Goto, TypeOK
  <2>5. MayCreate(r) /\ LaterEmailRefused
    BY <2>4 DEF InTurn
  <2>6. LaterEmailRefused'
    BY <2>2, <2>3, <2>5 DEF LaterEmailRefused, MayCreate
  <2>7. ASSUME NEW q \in Request, pc'[q] = "create" PROVE MayCreate(q)'
    BY <2>2, <2>3, <2>4, <2>7 DEF InTurn, MayCreate
  <2> QED BY <2>6, <2>7
<1> QED BY <1>2, <1>3, AccountColumnsStay

\* The new token is the request's first in exchange for this one.
LEMMA TokensInTurn ==
    ASSUME AInv, InTurn, Next
    PROVE  OneSuccessor' /\ \A q \in Request : Exchanging(q)' => MayExchange(q)'
<1>1. TypeOK /\ \A q \in Request : Looked(q)
  BY RequestsLook DEF AInv
<1>2. CASE SessionColumns
  <2>1. OneSuccessor'
    BY <1>2 DEF InTurn, SessionColumns, OneSuccessor
  <2>2. ASSUME NEW q \in Request, Exchanging(q)' PROVE MayExchange(q)'
    BY <1>1, <1>2, <2>2 DEF InTurn, SessionColumns, Looked, MayExchange, Successor
  <2> QED BY <2>1, <2>2
<1>3. ASSUME NEW r \in Request, StoreToken(r)
      PROVE  OneSuccessor' /\ \A q \in Request : Exchanging(q)' => MayExchange(q)'
  <2> DEFINE parent == call[r].token
             row == [user |-> Owner(r), revoked |-> FALSE, expired |-> FALSE, parent |-> parent,
                     password |-> IF parent = Null THEN call[r].password
                                                   ELSE sessions[parent].password,
                     by |-> IF parent = Null THEN Null ELSE r]
  <2>0. row.parent = call[r].token /\ row.by = IF call[r].token = Null THEN Null ELSE r
    OBVIOUS
  <2>1. PICK t \in Token : sessions[t] = Null /\ sessions' = [sessions EXCEPT ![t] = row]
    BY <1>3 DEF StoreToken
  <2> HIDE DEF row, parent
  <2>2. \A s \in Token : sessions'[s] = IF s = t THEN row ELSE sessions[s]
    BY <1>1, <2>1 DEF TypeOK
  <2>3. /\ pc[r] = "store" /\ pc'[r] = "idle"
        /\ \A q \in Request \ {r} : pc'[q] = pc[q] /\ call'[q] = call[q]
    BY <1>1, <1>3 DEF StoreToken, Answer, Goto, TypeOK
  <2>4. call[r].token # Null => Exchanging(r)
    BY <2>3 DEF AInv, TypeOK, Handler, InStages, Arguments, Exchanging, Operation
  <2>5. OneSuccessor /\ (call[r].token # Null => MayExchange(r))
    BY <2>4 DEF InTurn
  <2>6. OneSuccessor'
    BY <2>0, <2>1, <2>2, <2>5 DEF OneSuccessor, MayExchange, Successor
  <2>7. ASSUME NEW q \in Request, Exchanging(q)' PROVE MayExchange(q)'
    <3>1. q # r /\ pc'[q] = pc[q] /\ call'[q] = call[q]
      BY <2>3, <2>7 DEF Exchanging
    <3>2. MayExchange(q) /\ call[q].token # Null
      BY <2>7, <3>1, NullAssumption DEF AInv, Handler, Arguments, InTurn, Exchanging
    <3> QED BY <2>0, <2>1, <2>2, <3>1, <3>2 DEF MayExchange, Successor
  <2> QED BY <2>6, <2>7
<1> QED BY <1>2, <1>3, SessionColumnsStay

LEMMA TakingTurns == Spec => []InTurn
<1>1. Init => InTurn
  BY DEF Init, InTurn, LaterEmailRefused, OneSuccessor, Exchanging
<1>2. AInv /\ InTurn /\ [Next]_vars => InTurn'
  <2>1. ASSUME InTurn, UNCHANGED vars PROVE InTurn'
    BY <2>1 DEF vars, InTurn, LaterEmailRefused, OneSuccessor, Exchanging, MayCreate, MayExchange, Successor
  <2> QED BY <2>1, AccountsInTurn, TokensInTurn DEF InTurn
<1> QED BY <1>1, <1>2, Invariance, PTL DEF Spec

(***************************************************************************)
(* The theorems.                                                           *)
(***************************************************************************)

\* Every variable keeps its type: no handler writes to a row that is not there.
THEOREM TypeCorrectness == Spec => []TypeOK
<1>1. AInv => TypeOK
  BY DEF AInv
<1> QED BY <1>1, Invariance, PTL

\* auth.service.ts:136: a refresh token is revoked before its successor is
\* stored, and stays with its account, however requests overlap.
THEOREM RotationIsOrdered == Spec => []RotationOrder
<1>1. AInv => RotationOrder
  BY DEF AInv, Lineage, RotationOrder
<1> QED BY <1>1, Invariance, PTL

\* A locked account has used up its attempts, however requests overlap.
THEOREM LocksHaveCauses == Spec => []LockHasCause
<1>1. AInv => LockHasCause
  BY DEF AInv
<1> QED BY <1>1, Invariance, PTL

\* Until two requests overlap: the limit of wrong passwords locks the account.
THEOREM MissesLock == Spec => []QuietLockedAfterLimit
<1>1. AInv => QuietLockedAfterLimit
  BY DEF AInv, Quiet, TablesQuiet, AccountQuiet, QuietLockedAfterLimit, LockedAfterLimit
<1> QED BY <1>1, Invariance, PTL

\* Until two requests overlap: no session of a password outlives its change.
THEOREM ChangesEndSessions == Spec => []QuietChangeEndsSessions
<1>1. AInv => QuietChangeEndsSessions
  BY DEF AInv, Quiet, TablesQuiet, QuietChangeEndsSessions, PasswordChangeEndsSessions
<1> QED BY <1>1, Invariance, PTL

\* auth.service.ts:119: however the others' requests fall, a request gets a
\* token exchanged once, and is refused when it tries again later.
THEOREM TokensAreExchangedOnce == Spec => []OneSuccessor
<1>1. InTurn => OneSuccessor
  BY DEF InTurn
<1> QED BY <1>1, TakingTurns, PTL

\* auth.service.ts:52: however the others' requests fall, an address a request
\* has registered is refused to it later.
THEOREM RegistrationsTakeTurns == Spec => []LaterEmailRefused
<1>1. InTurn => LaterEmailRefused
  BY DEF InTurn
<1> QED BY <1>1, TakingTurns, PTL

=============================================================================
