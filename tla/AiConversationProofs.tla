------------------------ MODULE AiConversationProofs ------------------------
(***************************************************************************)
(* AiConversation for any number of sends and users and any history limit. *)
(***************************************************************************)
EXTENDS AiConversation, DataFacts

\* What a send has stored is determined by where it is, but for one that failed.
Stored(s) ==
    LET asked == SentBy(s, "user")
        told == SentBy(s, "bot")
    IN  /\ \A m, n \in asked : m = n
        /\ \A m, n \in told : m = n
        /\ \A a \in told : \E q \in asked : q.createdAt < a.createdAt
        /\ pc[s] \in {"unsent", "insertUser"} => asked = {}
        /\ pc[s] \in {"commitUser", "list", "generate", "insertBot"} => asked # {} /\ told = {}
        /\ pc[s] \in {"commitBot", "answered"} => told # {}

\* The rows are as many as were inserted, each with a time of its own.
RowsInv ==
    /\ messages \subseteq Message
    /\ IsFiniteSet(messages)
    /\ now \in Nat
    /\ \A m \in messages : m.createdAt < now /\ m.owner = owner[m.send]
    /\ \A m, n \in messages : m.createdAt = n.createdAt => m = n

CInv ==
    /\ RowsInv
    /\ pc \in [Send -> Label]
    /\ owner \in [Send -> Owner]
    /\ \A s \in Send : Stored(s)

\* The table is empty.
LEMMA Start == Init => CInv
<1>1. IsFiniteSet({})
  BY FS_EmptySet
<1> QED BY <1>1 DEF Init, CInv, RowsInv, Label, Stored, SentBy

\* A step that stores nothing may move a send to where Stored holds.
LEMMA MovingStep ==
    ASSUME CInv, NEW s \in Send, NEW l \in Label, Goto(s, l), UNCHANGED <<messages, now, owner>>,
           l \in {"unsent", "insertUser"} => pc[s] \in {"unsent", "insertUser"},
           l \in {"commitUser", "list", "generate", "insertBot"} =>
              pc[s] \in {"commitUser", "list", "generate", "insertBot"},
           l \in {"commitBot", "answered"} => pc[s] \in {"commitBot", "answered"}
    PROVE  CInv'
<1>1. \A x : \A q \in Send : SentBy(q, x)' = SentBy(q, x)
  BY DEF SentBy
<1>2. \A q \in Send : pc'[q] = IF q = s THEN l ELSE pc[q]
  BY DEF CInv, Goto
<1>3. \A q \in Send : Stored(q)'
  BY <1>1, <1>2 DEF CInv, Stored
<1>4. RowsInv'
  BY DEF CInv, RowsInv
<1> QED BY <1>3, <1>4 DEF CInv, Goto

\* INSERT INTO ai_messages: the row has the latest time, the others stay.
LEMMA InsertStep ==
    ASSUME CInv, NEW s \in Send, NEW sender \in {"user", "bot"}, NEW l \in Label,
           Insert(s, sender), Goto(s, l),
           \/ sender = "user" /\ pc[s] = "insertUser" /\ l = "commitUser"
           \/ sender = "bot" /\ pc[s] = "insertBot" /\ l = "commitBot"
    PROVE  CInv'
<1> DEFINE row == [owner |-> owner[s], sender |-> sender, send |-> s, createdAt |-> now]
<1>1. /\ row \in Message /\ messages' = messages \cup {row} /\ now' = now + 1 /\ owner' = owner
      /\ row.owner = owner[s] /\ row.sender = sender /\ row.send = s /\ row.createdAt = now
  BY DEF CInv, RowsInv, Message, Insert
<1> HIDE DEF row
<1>2. \A m \in messages : m.createdAt \in Nat /\ m.createdAt < now
  BY DEF CInv, RowsInv, Message
<1>3. RowsInv'
  <2>1. IsFiniteSet(messages')
    BY <1>1, FS_AddElement DEF CInv, RowsInv
  <2>2. now \in Nat /\ now' \in Nat /\ now < now'
    BY <1>1 DEF CInv, RowsInv
  <2>3. \A m \in messages' : m.createdAt < now' /\ m.owner = owner'[m.send]
    BY <1>1, <1>2, <2>2 DEF CInv, RowsInv
  <2>4. \A m, n \in messages' : m.createdAt = n.createdAt => m = n
    BY <1>1, <1>2, <2>2 DEF CInv, RowsInv
  <2> QED BY <1>1, <2>1, <2>2, <2>3, <2>4 DEF CInv, RowsInv
<1>4. \A x : \A q \in Send : SentBy(q, x)' = SentBy(q, x) \cup (IF q = s /\ x = sender THEN {row} ELSE {})
  BY <1>1 DEF SentBy
<1>5. \A q \in Send : pc'[q] = IF q = s THEN l ELSE pc[q]
  BY DEF CInv, Goto
<1>6. \A q \in Send \ {s} : Stored(q)'
  BY <1>4, <1>5 DEF CInv, Stored
<1>7. Stored(s)
  BY DEF CInv
<1>8. CASE sender = "user"
  <2>1. SentBy(s, "user")' = {row} /\ SentBy(s, "bot")' = {}
    BY <1>4, <1>7, <1>8 DEF Stored
  <2>2. Stored(s)'
    BY <1>5, <1>8, <2>1 DEF Stored
  <2> QED BY <1>1, <1>3, <1>6, <2>2 DEF CInv, Goto
<1>9. CASE sender = "bot"
  <2>1. SentBy(s, "user")' = SentBy(s, "user") /\ SentBy(s, "bot")' = {row}
    BY <1>4, <1>7, <1>9 DEF Stored
  <2>2. SentBy(s, "user") # {} /\ SentBy(s, "user") \subseteq messages
    BY <1>7, <1>9 DEF Stored, SentBy
  <2>3. Stored(s)'
    BY <1>1, <1>2, <1>5, <1>7, <1>9, <2>1, <2>2 DEF Stored
  <2> QED BY <1>1, <1>3, <1>6, <2>3 DEF CInv, Goto
<1> QED BY <1>8, <1>9

\* A send that stops may lose the row of its open INSERT, no other's.
LEMMA FailStep == ASSUME CInv, NEW s \in Send, Fail(s) PROVE CInv'
<1>1. PICK lost \in {{}, {m \in messages : m.send = s /\ Open(m)}} : messages' = messages \ lost
  BY DEF Fail
<1>2. /\ lost \subseteq {m \in messages : m.send = s /\ Open(m)}
      /\ messages' \subseteq messages /\ now' = now /\ owner' = owner
      /\ \A q \in Send : pc'[q] = IF q = s THEN "failed" ELSE pc[q]
  BY <1>1 DEF Fail, Goto, CInv
<1>3. RowsInv'
  <2>1. IsFiniteSet(messages')
    BY <1>2, FS_Subset DEF CInv, RowsInv
  <2> QED BY <1>2, <2>1 DEF CInv, RowsInv
<1>4. \A x : \A q \in Send \ {s} : SentBy(q, x)' = SentBy(q, x)
  BY <1>1, <1>2 DEF SentBy
<1>5. \A q \in Send \ {s} : Stored(q)'
  BY <1>2, <1>4 DEF CInv, Stored
<1>6. /\ SentBy(s, "user")' \subseteq SentBy(s, "user") /\ SentBy(s, "bot")' \subseteq SentBy(s, "bot")
      /\ SentBy(s, "user")' = SentBy(s, "user") \/ SentBy(s, "bot") = {}
  <2>1. SentBy(s, "user")' \subseteq SentBy(s, "user") /\ SentBy(s, "bot")' \subseteq SentBy(s, "bot")
    BY <1>2 DEF SentBy
  <2>2. CASE pc[s] = "commitUser"
    BY <2>1, <2>2 DEF CInv, Stored
  <2>3. CASE pc[s] # "commitUser"
    BY <1>1, <1>2, <2>1, <2>3 DEF Open, SentBy
  <2> QED BY <2>1, <2>2, <2>3
<1>7. Stored(s)'
  BY <1>2, <1>6 DEF CInv, Stored
<1> QED BY <1>3, <1>5, <1>7, <1>2 DEF CInv, Fail, Goto, Label

LEMMA NextStep == CInv /\ [Next]_vars => CInv'
<1> SUFFICES ASSUME CInv, [Next]_vars PROVE CInv'
  OBVIOUS
<1>1. CASE UNCHANGED vars
  BY <1>1 DEF vars, CInv, RowsInv, Stored, SentBy
<1>2. ASSUME NEW s \in Send, Receive(s) PROVE CInv'
  BY <1>2, MovingStep DEF Receive, Label
<1>3. ASSUME NEW s \in Send, CommitInsert(s) PROVE CInv'
  BY <1>3, MovingStep DEF CommitInsert, Label
<1>4. ASSUME NEW s \in Send, ListHistory(s) \/ Generate(s) PROVE CInv'
  BY <1>4, MovingStep DEF ListHistory, Generate, AfterFailure, Label
<1>5. ASSUME NEW s \in Send, InsertUser(s) \/ InsertBot(s) PROVE CInv'
  BY <1>5, InsertStep DEF InsertUser, InsertBot, AnswerSender, Label
<1> QED BY <1>1, <1>2, <1>3, <1>4, <1>5, FailStep DEF Next, Step

\* aiMessages.service.ts: however sends overlap and wherever they fail, each
\* leaves one question and, after it, at most one answer; both if answered.
THEOREM OneExchange == Spec => []OneQuestionOneAnswer
<1>1. CInv => OneQuestionOneAnswer
  BY DEF CInv, RowsInv, Stored, SentBy, OneQuestionOneAnswer
<1>2. Spec => []CInv
  BY Start, NextStep, PTL DEF Spec
<1> QED BY <1>1, <1>2, PTL

(***************************************************************************)
(* What the provider is given.                                             *)
(***************************************************************************)

\* ORDER BY created_at ASC LIMIT l: of a set of rows with times of their own,
\* those with fewer than l before them are at most l; they are l if any row is
\* left out; and no row between two of them is.
LEMMA FirstRows ==
    ASSUME NEW rows, IsFiniteSet(rows), NEW l \in Nat,
           \A m \in rows : m.createdAt \in Nat,
           \A m, n \in rows : m.createdAt = n.createdAt => m = n,
           NEW first, first = {m \in rows : Cardinality(Earlier(rows, m)) < l}
    PROVE  /\ Cardinality(first) <= l
           /\ first = rows \/ Cardinality(first) = l
           /\ \A m \in rows, b \in first : m.createdAt < b.createdAt => m \in first
<1>1. \A m \in rows : /\ IsFiniteSet(Earlier(rows, m)) /\ Cardinality(Earlier(rows, m)) \in Nat
  <2> TAKE m \in rows
  <2>1. Earlier(rows, m) \subseteq rows
    BY DEF Earlier
  <2> QED BY <2>1, FS_Subset, FS_CardinalityType
<1>2. ASSUME NEW m \in rows, NEW n \in rows, m.createdAt < n.createdAt
      PROVE  Cardinality(Earlier(rows, m)) < Cardinality(Earlier(rows, n))
  <2>1. Earlier(rows, m) \subseteq Earlier(rows, n)
    BY <1>2 DEF Earlier
  <2>2. m \in Earlier(rows, n) /\ m \notin Earlier(rows, m)
    BY <1>2 DEF Earlier
  <2>3. /\ Cardinality(Earlier(rows, m)) <= Cardinality(Earlier(rows, n))
        /\ Cardinality(Earlier(rows, m)) # Cardinality(Earlier(rows, n))
    <3>1. IsFiniteSet(Earlier(rows, n)) /\ Earlier(rows, m) \in SUBSET Earlier(rows, n)
      BY <1>1, <2>1
    <3> QED BY <2>2, <3>1, FS_Subset
  <2> QED BY <1>1, <2>3
<1>3. first \subseteq rows /\ IsFiniteSet(first) /\ Cardinality(first) \in Nat
  BY FS_Subset, FS_CardinalityType
<1>4. Cardinality(first) <= l
  <2> DEFINE rank == [m \in first |-> Cardinality(Earlier(rows, m))]
  <2>1. rank \in [first -> 0..(l - 1)]
    BY <1>1, <1>3
  <2>2. ASSUME NEW m \in first, NEW n \in first, rank[m] = rank[n] PROVE m = n
    <3>1. /\ m.createdAt \in Nat /\ n.createdAt \in Nat
          /\ rank[m] = Cardinality(Earlier(rows, m)) /\ rank[n] = Cardinality(Earlier(rows, n))
          /\ rank[m] \in Nat
      BY <1>1, <1>3
    <3>2. ~(m.createdAt < n.createdAt) /\ ~(n.createdAt < m.createdAt)
      BY <1>2, <1>3, <2>2, <3>1
    <3> QED BY <1>3, <3>1, <3>2
  <2>3. rank \in Injection(first, 0..(l - 1))
    BY <2>1, <2>2 DEF Injection, IsInjective
  <2>4. IsFiniteSet(0..(l - 1)) /\ Cardinality(0..(l - 1)) = l
    BY FS_Interval
  <2> HIDE DEF rank
  <2> QED BY <2>3, <2>4, FS_Injection
<1>5. ASSUME first # rows PROVE Cardinality(first) >= l
  <2> DEFINE left == {m.createdAt : m \in rows \ first}
  <2>1. left \subseteq Nat /\ left # {}
    BY <1>3, <1>5
  <2>2. PICK t \in left : \A u \in left : t <= u
    <3> HIDE DEF left
    <3> QED BY <2>1, LeastNat
  <2>3. PICK m \in rows \ first : m.createdAt = t
    OBVIOUS
  <2>4. Earlier(rows, m) \subseteq first
    <3> SUFFICES ASSUME NEW n \in rows, n.createdAt < m.createdAt, n \notin first PROVE FALSE
      BY DEF Earlier
    <3>1. n.createdAt \in left /\ n.createdAt \in Nat /\ m.createdAt \in Nat
      OBVIOUS
    <3> QED BY <2>2, <2>3, <3>1
  <2>5. Cardinality(Earlier(rows, m)) <= Cardinality(first)
    BY <1>3, <2>4, FS_Subset
  <2>6. Cardinality(Earlier(rows, m)) >= l
    BY <1>1, <2>3
  <2> QED BY <1>1, <1>3, <2>5, <2>6
<1>6. \A m \in rows, b \in first : m.createdAt < b.createdAt => m \in first
  <2> SUFFICES ASSUME NEW m \in rows, NEW b \in first, m.createdAt < b.createdAt PROVE m \in first
    OBVIOUS
  <2>1. Cardinality(Earlier(rows, m)) < Cardinality(Earlier(rows, b)) /\ Cardinality(Earlier(rows, b)) < l
    BY <1>2, <1>3
  <2> QED BY <1>1, <1>3, <2>1
<1> QED BY <1>3, <1>4, <1>5, <1>6

\* ContextIsConversation, of one send.
Given(s) ==
    pc[s] = "generate" =>
        LET due == known[s] \cup SentBy(s, "user")
        IN  /\ \A m \in history[s] : m.owner = owner[s]
            /\ Cardinality(history[s]) <= HistoryLimit
            /\ due \subseteq history[s] \/ Cardinality(history[s]) = HistoryLimit
            /\ \A m \in due, a, b \in history[s] :
                  a.createdAt < m.createdAt /\ m.createdAt < b.createdAt => m \in history[s]

\* What a send knew of can still be seen.
HInv ==
    /\ history \in [Send -> SUBSET Message]
    /\ known \in [Send -> SUBSET Message]
    /\ \A s \in Send : known[s] \subseteq Conversation(owner[s]) /\ Given(s)

\* What has been committed stays and can be seen by all.
LEMMA VisibleStays ==
    ASSUME CInv, [Next]_vars
    PROVE  Visible \subseteq Visible'
<1>1. CASE UNCHANGED vars
  BY <1>1 DEF vars, Visible, Open
<1>2. ASSUME NEW s \in Send, NEW l \in Label, Goto(s, l), messages' = messages,
             l \notin {"commitUser", "commitBot"}
      PROVE  Visible \subseteq Visible'
  BY <1>2 DEF CInv, RowsInv, Message, Goto, Visible, Open
<1>3. ASSUME NEW s \in Send, Receive(s) \/ CommitInsert(s) \/ ListHistory(s) \/ Generate(s)
      PROVE  Visible \subseteq Visible'
  BY <1>2, <1>3 DEF Receive, CommitInsert, ListHistory, Generate, AfterFailure, Label
<1>4. ASSUME NEW s \in Send, InsertUser(s) \/ InsertBot(s)
      PROVE  Visible \subseteq Visible'
  <2> SUFFICES ASSUME NEW m \in Visible PROVE m \in Visible'
    OBVIOUS
  <2>1. m \in messages' /\ m.send \in Send /\ m.sender \in {"user", "bot"} /\ m \in messages /\ ~Open(m)
    BY <1>4 DEF InsertUser, InsertBot, Insert, Visible, CInv, RowsInv, Message
  <2>2. CASE m.send # s
    BY <1>4, <2>1, <2>2 DEF InsertUser, InsertBot, Goto, Visible, Open, CInv
  <2>3. CASE m.send = s
    <3>1. m \in SentBy(s, m.sender) /\ Stored(s)
      BY <2>1, <2>3 DEF SentBy, CInv
    <3>2. InsertUser(s) => FALSE
      BY <2>1, <3>1 DEF InsertUser, Stored
    <3>3. m.sender = "user" /\ pc'[s] = "commitBot"
      BY <1>4, <2>1, <3>1, <3>2 DEF InsertBot, Stored, Goto, CInv
    <3> QED BY <2>1, <2>3, <3>3 DEF Visible, Open
  <2> QED BY <2>2, <2>3
<1>5. ASSUME NEW s \in Send, Fail(s) PROVE Visible \subseteq Visible'
  BY <1>5 DEF Fail, Goto, Visible, Open, CInv
<1> QED BY <1>1, <1>3, <1>4, <1>5 DEF Next, Step

\* SELECT ... LIMIT: the send's own question is among the rows selected from.
LEMMA GivenWhenListed ==
    ASSUME CInv, HInv, HistoryLimit \in Nat, NEW s \in Send, ListHistory(s)
    PROVE  Given(s)' /\ Listed(owner[s]) \subseteq Message
<1> DEFINE rows == Conversation(owner[s])
<1>1. /\ rows \subseteq messages /\ \A m \in rows : m.owner = owner[s]
      /\ messages \subseteq Message /\ IsFiniteSet(messages)
      /\ \A m, n \in rows : m.createdAt = n.createdAt => m = n
  BY DEF Conversation, Visible, CInv, RowsInv
<1>2. IsFiniteSet(rows) /\ \A m \in rows : m.createdAt \in Nat
  BY <1>1, FS_Subset DEF Message
<1>3. Listed(owner[s]) = {m \in rows : Cardinality(Earlier(rows, m)) < HistoryLimit}
  BY DEF Listed
<1>4. SentBy(s, "user") \subseteq rows /\ known[s] \subseteq rows
  BY DEF ListHistory, SentBy, Conversation, Visible, Open, CInv, RowsInv, HInv
<1> DEFINE first == Listed(owner[s])
<1>5. /\ Cardinality(first) <= HistoryLimit
      /\ first = rows \/ Cardinality(first) = HistoryLimit
      /\ \A m \in rows, b \in first : m.createdAt < b.createdAt => m \in first
  <2> HIDE DEF rows, first
  <2> QED BY <1>1, <1>2, <1>3, FirstRows DEF first
<1>6. /\ history'[s] = first /\ known' = known /\ owner' = owner
      /\ SentBy(s, "user")' = SentBy(s, "user")
  BY DEF ListHistory, HInv, SentBy
<1>7. first \subseteq rows
  BY <1>3
<1> HIDE DEF rows, first
<1>8. Given(s)'
  BY <1>1, <1>4, <1>5, <1>6, <1>7 DEF Given
<1> QED BY <1>1, <1>7, <1>8 DEF first

LEMMA HistoryStep == HistoryLimit \in Nat /\ CInv /\ HInv /\ [Next]_vars => HInv'
<1> SUFFICES ASSUME HistoryLimit \in Nat, CInv, HInv, [Next]_vars PROVE HInv'
  OBVIOUS
<1>1. owner' = owner /\ Visible \subseteq Visible'
  BY VisibleStays DEF Next, Step, vars, Receive, InsertUser, InsertBot, Insert, CommitInsert,
                      ListHistory, Generate, Fail
<1>2. \A q \in Send : Conversation(owner[q]) \subseteq Conversation(owner[q])'
  BY <1>1 DEF Conversation
<1>3. ASSUME NEW s \in Send, NEW l \in Label, Goto(s, l),
             \A q \in Send \ {s} : known'[q] = known[q] /\ history'[q] = history[q],
             \A q \in Send \ {s} : SentBy(q, "user")' = SentBy(q, "user"),
             history' \in [Send -> SUBSET Message], known' \in [Send -> SUBSET Message],
             known'[s] \subseteq Conversation(owner[s])', Given(s)'
      PROVE  HInv'
  <2>1. \A q \in Send \ {s} : pc'[q] = pc[q]
    BY <1>3 DEF Goto, CInv
  <2>2. \A q \in Send : Given(q)'
    BY <1>1, <1>3, <2>1 DEF HInv, Given
  <2> QED BY <1>1, <1>2, <1>3, <2>2 DEF HInv
<1>4. CASE UNCHANGED vars
  BY <1>4 DEF vars, HInv, Given, SentBy, Conversation, Visible, Open
<1>5. ASSUME NEW s \in Send, Receive(s) PROVE HInv'
  <2>1. Conversation(owner[s]) \subseteq Message
    BY DEF Conversation, Visible, CInv, RowsInv
  <2> QED BY <1>1, <1>2, <1>3, <1>5, <2>1 DEF Receive, Goto, HInv, Given, SentBy, CInv, Label
<1>6. ASSUME NEW s \in Send, InsertUser(s) \/ InsertBot(s) PROVE HInv'
  <2>1. \A q \in Send \ {s} : SentBy(q, "user")' = SentBy(q, "user")
    BY <1>6 DEF InsertUser, InsertBot, Insert, SentBy
  <2>2. pc'[s] # "generate" /\ history' = history /\ known' = known
    BY <1>6 DEF InsertUser, InsertBot, Insert, Goto, CInv
  <2> QED BY <1>2, <1>3, <1>6, <2>1, <2>2 DEF InsertUser, InsertBot, HInv, Given, Label
<1>7. ASSUME NEW s \in Send, CommitInsert(s) PROVE HInv'
  <2>1. pc'[s] # "generate" /\ history' = history /\ known' = known /\ messages' = messages
    BY <1>7 DEF CommitInsert, Goto, CInv
  <2> QED BY <1>2, <1>3, <1>7, <2>1 DEF CommitInsert, HInv, Given, SentBy, Label
<1>8. ASSUME NEW s \in Send, ListHistory(s) PROVE HInv'
  <2>1. Given(s)' /\ Listed(owner[s]) \subseteq Message
    BY <1>8, GivenWhenListed
  <2>2. /\ history' \in [Send -> SUBSET Message] /\ known' = known /\ messages' = messages
        /\ \A q \in Send \ {s} : history'[q] = history[q]
    BY <1>8, <2>1 DEF ListHistory, HInv
  <2> QED BY <1>2, <1>3, <1>8, <2>1, <2>2 DEF ListHistory, HInv, SentBy, Label
<1>9. ASSUME NEW s \in Send, Forget(s), NEW l \in Label, Goto(s, l), l # "generate",
             \A q \in Send \ {s} : SentBy(q, "user")' = SentBy(q, "user")
      PROVE  HInv'
  <2>1. /\ history' \in [Send -> SUBSET Message] /\ known' \in [Send -> SUBSET Message]
        /\ known'[s] = {} /\ pc'[s] # "generate"
        /\ \A q \in Send \ {s} : known'[q] = known[q] /\ history'[q] = history[q]
    BY <1>9 DEF Forget, HInv, Goto, CInv
  <2> QED BY <1>3, <1>9, <2>1 DEF Given
<1>10. ASSUME NEW s \in Send, Generate(s) PROVE HInv'
  <2>1. \A q \in Send \ {s} : SentBy(q, "user")' = SentBy(q, "user")
    BY <1>10 DEF Generate, SentBy
  <2> QED BY <1>9, <1>10, <2>1 DEF Generate, AfterFailure, Label
<1>11. ASSUME NEW s \in Send, Fail(s) PROVE HInv'
  <2>1. \A q \in Send \ {s} : SentBy(q, "user")' = SentBy(q, "user")
    BY <1>11 DEF Fail, SentBy
  <2> QED BY <1>9, <1>11, <2>1 DEF Fail, Label
<1> QED BY <1>4, <1>5, <1>6, <1>7, <1>8, <1>10, <1>11 DEF Next, Step

LEMMA HistoryInvariant == Spec => [](CInv /\ HInv)
<1>1. Init => CInv /\ HInv
  <2>1. ASSUME Init PROVE HInv
    BY <2>1 DEF Init, HInv, Given
  <2> QED BY <2>1, Start
<1>2. CInv /\ HInv /\ [Next]_vars => (CInv /\ HInv)'
  BY HistoryAssumption, NextStep, HistoryStep
<1> QED BY <1>1, <1>2, PTL DEF Spec

\* ai_messages holds questions and answers of users, and nothing else, and the
\* provider is given some of them.
THEOREM TypeCorrectness == Spec => []TypeOK
<1>1. CInv /\ HInv => TypeOK
  BY DEF CInv, RowsInv, HInv, TypeOK
<1> QED BY <1>1, HistoryInvariant, PTL

\* aiMessages.service.ts, sendMessage: in whatever order the INSERTs of other
\* sends come to be seen, the provider is given a stretch of the user's own
\* conversation, complete unless the limit is reached.
THEOREM ContextIsOwn == Spec => []ContextIsConversation
<1>1. HInv => ContextIsConversation
  BY DEF HInv, Given, ContextIsConversation
<1> QED BY <1>1, HistoryInvariant, PTL
=============================================================================
