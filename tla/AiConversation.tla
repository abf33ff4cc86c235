--------------------------- MODULE AiConversation ---------------------------
(***************************************************************************)
(* aiMessages.service.ts, sendMessage: the question is stored, the history *)
(* is read back, the provider is asked, and what it said, or an apology,   *)
(* is stored.  Three statements and a call to a third party; any other     *)
(* send, of the same user too, may run in between.                         *)
(*                                                                         *)
(* created_at is now(), the time at which an INSERT begins; its row is     *)
(* seen by others when the INSERT is committed, so that rows need not come *)
(* to be seen in the order of created_at.                                  *)
(***************************************************************************)
EXTENDS Integers, FiniteSets

CONSTANTS
    Send,           \* the POST /ai-messages calls, each made once
    Owner,          \* users, each with the tenant of the access token
    HistoryLimit    \* HISTORY_LIMIT, 20 in the source

ASSUME HistoryAssumption == HistoryLimit \in Nat \ {0}

VARIABLES
    messages,   \* the ai_messages table, with the rows of open INSERTs
    now,        \* the database server's clock, which the INSERTs advance
    pc,         \* where a send is
    owner,      \* whose send it is
    history,    \* the rows that the provider is given, in the order of created_at
    known       \* history variable: the user's conversation when the send came in

vars == <<messages, now, pc, owner, history, known>>

\* send is a history variable: the call that stored the row.
Message == [owner: Owner, sender: {"user", "bot"}, send: Send, createdAt: Nat]

Label == {"unsent", "insertUser", "commitUser", "list", "generate", "insertBot", "commitBot",
          "answered", "failed"}

\* The row of an INSERT that is not committed.
Open(m) == pc[m.send] = IF m.sender = "user" THEN "commitUser" ELSE "commitBot"

Visible == {m \in messages : ~Open(m)}

\* Mutant: the rows of every user.
ConversationOfAll(o) == Visible
\* WHERE user_id = $1 AND tenant_id IS NOT DISTINCT FROM $2
Conversation(o) == {m \in Visible : m.owner = o}

Earlier(rows, m) == {n \in rows : n.createdAt < m.createdAt}

\* ORDER BY created_at ASC LIMIT $3: the first rows of the conversation.
Listed(o) ==
    LET rows == Conversation(o)
    IN  {m \in rows : Cardinality(Earlier(rows, m)) < HistoryLimit}

Init ==
    /\ messages = {}
    /\ now = 0
    /\ pc = [s \in Send |-> "unsent"]
    /\ owner \in [Send -> Owner]
    /\ history = [s \in Send |-> {}]
    /\ known = [s \in Send |-> {}]

Goto(s, label) == pc' = [pc EXCEPT ![s] = label]

Receive(s) ==
    /\ pc[s] = "unsent"
    /\ known' = [known EXCEPT ![s] = Conversation(owner[s])]
    /\ Goto(s, "insertUser")
    /\ UNCHANGED <<messages, now, owner, history>>

Insert(s, sender) ==
    /\ messages' = messages \cup {[owner |-> owner[s], sender |-> sender, send |-> s,
                                   createdAt |-> now]}
    /\ now' = now + 1
    /\ UNCHANGED <<owner, history, known>>

InsertUser(s) == pc[s] = "insertUser" /\ Insert(s, "user") /\ Goto(s, "commitUser")

\* The INSERT is done, and its row there for all to see.
CommitInsert(s) ==
    /\ \/ pc[s] = "commitUser" /\ Goto(s, "list")
       \/ pc[s] = "commitBot" /\ Goto(s, "answered")
    /\ UNCHANGED <<messages, now, owner, history, known>>

ListHistory(s) ==
    /\ pc[s] = "list"
    /\ history' = [history EXCEPT ![s] = Listed(owner[s])]
    /\ Goto(s, "generate")
    /\ UNCHANGED <<messages, now, owner, known>>

\* What was read, and what a property compares it with, is of no more use.
Forget(s) ==
    /\ history' = [history EXCEPT ![s] = {}]
    /\ known' = [known EXCEPT ![s] = {}]

\* Mutants: read and ask again until the provider answers; start the whole send over.
AfterFailureAskAgain == "list"
AfterFailureStartOver == "insertUser"
AfterFailure == "insertBot"

\* Whatever generateAiReply throws is caught, and an apology takes the place
\* of the answer.
Generate(s) ==
    /\ pc[s] = "generate"
    /\ \/ Goto(s, "insertBot")
       \/ Goto(s, AfterFailure)
    /\ Forget(s)
    /\ UNCHANGED <<messages, now, owner>>

\* Mutant: the provider's name for the role, where the table has another.
AnswerSenderAsRole == "assistant"
AnswerSender == "bot"

InsertBot(s) == pc[s] = "insertBot" /\ Insert(s, AnswerSender) /\ Goto(s, "commitBot")

\* A statement fails, or the process dies: no answer, and what is committed
\* stays; an INSERT that was open may have come through or not.
Fail(s) ==
    /\ pc[s] \notin {"unsent", "answered", "failed"}
    /\ \E lost \in {{}, {m \in messages : m.send = s /\ Open(m)}} : messages' = messages \ lost
    /\ Forget(s)
    /\ Goto(s, "failed")
    /\ UNCHANGED <<now, owner>>

Step(s) == InsertUser(s) \/ ListHistory(s) \/ Generate(s) \/ InsertBot(s) \/ CommitInsert(s)

Next == \E s \in Send : Receive(s) \/ Step(s) \/ Fail(s)

Spec == Init /\ [][Next]_vars

\* A statement returns or fails, and so does the provider's client, which
\* gives up a request that takes too long.
FairSpec == Spec /\ \A s \in Send : WF_vars(Step(s))

-----------------------------------------------------------------------------
(* Properties.                                                             *)

\* The shape of the state; a sender is one of the two that the table admits.
TypeOK ==
    /\ messages \subseteq Message
    /\ now \in Nat
    /\ pc \in [Send -> Label]
    /\ owner \in [Send -> Owner]
    /\ history \in [Send -> SUBSET Message]
    /\ known \in [Send -> SUBSET Message]

SentBy(s, sender) == {m \in messages : m.send = s /\ m.sender = sender}

\* A send leaves at most one question and one answer in its user's
\* conversation, the answer after the question, however sends overlap and
\* wherever one of them stops; and both are there once it is answered.
OneQuestionOneAnswer ==
    \A s \in Send :
        LET asked == SentBy(s, "user")
            told == SentBy(s, "bot")
        IN  /\ \A m \in asked \cup told : m.owner = owner[s]
            /\ \A m, n \in asked : m = n
            /\ \A m, n \in told : m = n
            /\ \A a \in told : \E q \in asked : q.createdAt < a.createdAt
            /\ pc[s] = "answered" => told # {}

\* aiMessages.service.ts:25: the provider is given a stretch of the user's own
\* conversation, of at most HISTORY_LIMIT rows.  The question and what was
\* there when the send came in are missing from it only if so many rows have
\* taken their place, and none is missing between two that it has, whatever
\* other sends have open meanwhile.  (Which end is cut off is left open.)
ContextIsConversation ==
    \A s \in Send : pc[s] = "generate" =>
        LET due == known[s] \cup SentBy(s, "user")
        IN  /\ \A m \in history[s] : m.owner = owner[s]
            /\ Cardinality(history[s]) <= HistoryLimit
            /\ due \subseteq history[s] \/ Cardinality(history[s]) = HistoryLimit
            /\ \A m \in due, a, b \in history[s] :
                  a.createdAt < m.createdAt /\ m.createdAt < b.createdAt => m \in history[s]

\* aiMessages.service.ts:26: the history is recent and includes the message
\* just stored.
QuestionInContext ==
    \A s \in Send : pc[s] = "generate" => \E m \in history[s] : m.send = s

\* A send comes to its end, whether or not the provider has an answer.
EverySendEnds ==
    \A s \in Send : pc[s] = "insertUser" ~> pc[s] \in {"answered", "failed"}
=============================================================================
