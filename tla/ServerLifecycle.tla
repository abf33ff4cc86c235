--------------------------- MODULE ServerLifecycle ---------------------------
(***************************************************************************)
(* server.ts: the start, the requests in flight over HTTP connections, and *)
(* the ways the process ends: a signal (finish requests, end the pool,     *)
(* exit 0), the forced exit ten seconds later, an uncaught exception.      *)
(*                                                                         *)
(* A handler is what holds matter to: it takes a client of the pool for a  *)
(* statement or a transaction, gives it back, and does so Turns times at   *)
(* most before it answers.  Its connection may be gone by then.            *)
(***************************************************************************)
EXTENDS Integers

CONSTANTS
    Client,         \* HTTP connections, one request at a time on each
    Turns,          \* how often a handler takes a client of the pool
    MaxSignals      \* bound: signals that one process is sent

ASSUME TurnsAssumption == Turns \in Nat \ {0}
ASSUME SignalsAssumption == MaxSignals \in Nat \ {0}

VARIABLES
    process,    \* where the process is
    code,       \* with which code the last one ended
    pool,       \* the connection pool: open, ending (end() was called) or ended
    signals,    \* calls of shutdown: as many forced exits are set
    callbacks,  \* of these, the ones whose server.close callback is to come
    connected,  \* open HTTP connections
    handler,    \* the request on a connection
    left,       \* how often its handler has yet to take a client
    cut         \* history: what the last end of the process broke off

serverVars == <<process, code, pool, signals, callbacks, connected, handler, left, cut>>

ServerTypeOK ==
    /\ process \in {"down", "connecting", "checking", "serving", "closing"}
    /\ code \in {"none", "0", "1", "killed"}
    /\ pool \in {"open", "ending", "ended"}
    /\ signals \in 0..MaxSignals
    /\ callbacks \in 0..MaxSignals
    /\ connected \subseteq Client
    /\ handler \in [Client -> {"idle", "wants", "holds", "answer"}]
    /\ left \in [Client -> 0..Turns]
    /\ cut \subseteq Client

ServerInit ==
    /\ process = "down"
    /\ code = "none"
    /\ pool = "open"
    /\ signals = 0
    /\ callbacks = 0
    /\ connected = {}
    /\ handler = [c \in Client |-> "idle"]
    /\ left = [c \in Client |-> 0]
    /\ cut = {}

lifecycle == <<process, code, pool, signals, callbacks, cut>>
requests == <<connected, handler, left>>

Up == process \in {"serving", "closing"}

-----------------------------------------------------------------------------
(* The end of the process, and its start.                                  *)

\* Broken off: requests whose clients wait, and transactions.
Unfinished ==
    {c \in Client : handler[c] = "holds" \/ (c \in connected /\ handler[c] # "idle")}

Exit(c) ==
    /\ process' = "down"
    /\ code' = c
    /\ cut' = Unfinished
    /\ signals' = 0
    /\ callbacks' = 0
    /\ connected' = {}
    /\ handler' = [d \in Client |-> "idle"]
    /\ left' = [d \in Client |-> 0]
    /\ UNCHANGED pool

StartServer ==
    /\ process = "down"
    /\ process' = "connecting"
    /\ code' = "none"
    /\ pool' = "open"
    /\ cut' = {}
    /\ UNCHANGED <<signals, callbacks, requests>>

BootTo(p) == process' = p /\ UNCHANGED <<code, pool, signals, callbacks, cut, requests>>

\* checkDbConnection; then createApp and listen.
ConnectToDb == process = "connecting" /\ BootTo("checking")
Listen == process = "checking" /\ BootTo("serving")

\* The database does not answer (bootstrap's catch), or an exception nobody
\* catches: the port is taken, a connection breaks while it is checked out.
Fatal == process # "down" /\ Exit("1")

-----------------------------------------------------------------------------
(* Requests.                                                               *)

Connect(c) ==
    /\ process = "serving" /\ c \notin connected /\ handler[c] = "idle"
    /\ connected' = connected \cup {c}
    /\ UNCHANGED <<lifecycle, handler, left>>

\* A connection that is open can be used for the next request, also while
\* the server is closing.
Send(c) ==
    /\ Up /\ c \in connected /\ handler[c] = "idle"
    /\ handler' = [handler EXCEPT ![c] = "wants"]
    /\ \E n \in 1..Turns : left' = [left EXCEPT ![c] = n]
    /\ UNCHANGED <<lifecycle, connected>>

Becomes(c, h) == handler' = [handler EXCEPT ![c] = h] /\ UNCHANGED <<lifecycle, connected>>

\* pool.connect(): a pool that was told to end rejects, and so the handler does.
TakeClient(c) ==
    /\ handler[c] = "wants"
    /\ Becomes(c, IF pool = "open" THEN "holds" ELSE "answer")
    /\ UNCHANGED left

GiveBack(c) ==
    /\ handler[c] = "holds"
    /\ left' = [left EXCEPT ![c] = @ - 1]
    /\ Becomes(c, IF left[c] = 1 THEN "answer" ELSE "wants")

\* A statement throws: the client goes back and the error is answered.
Throws(c) == handler[c] = "holds" /\ Becomes(c, "answer") /\ UNCHANGED left

Respond(c) ==
    /\ handler[c] = "answer"
    /\ left' = [left EXCEPT ![c] = 0]
    /\ Becomes(c, "idle")

\* The client goes away, or keep-alive runs out; a handler runs on.
Disconnect(c) ==
    /\ c \in connected
    /\ connected' = connected \ {c}
    /\ UNCHANGED <<lifecycle, handler, left>>

-----------------------------------------------------------------------------
(* Shutdown.                                                               *)

\* Mutant: the pool is told to end at once, not in server.close's callback.
PoolOnSignalAtOnce == "ending"
PoolOnSignal == pool

\* shutdown: server.close stops listening and closes the connections that
\* are idle.  Before the handlers are installed a signal kills the process.
Signal ==
    \/ process \in {"connecting", "checking"} /\ Exit("killed")
    \/ /\ Up /\ signals < MaxSignals
       /\ process' = "closing"
       /\ pool' = PoolOnSignal
       /\ signals' = signals + 1
       /\ callbacks' = callbacks + 1
       /\ connected' = {c \in connected : handler[c] # "idle"}
       /\ UNCHANGED <<code, cut, handler, left>>

\* The server's 'close' event, once no connection is open: every callback
\* calls pool.end(), which rejects (and is logged) from the second time on.
\* A signal that comes later still makes the event come again.
CloseEvent ==
    /\ process = "closing" /\ callbacks > 0 /\ connected = {}
    /\ callbacks' = 0
    /\ pool' = IF pool = "open" THEN "ending" ELSE pool
    /\ UNCHANGED <<process, code, signals, cut, requests>>

\* pool.end() waits for the clients that are checked out.
PoolEnds ==
    /\ pool = "ending" /\ \A c \in Client : handler[c] # "holds"
    /\ pool' = "ended"
    /\ UNCHANGED <<process, code, signals, callbacks, cut, requests>>

\* Mutant: pool.end() is not awaited.
MayExitAtOnce == pool # "open"
MayExit == pool = "ended"

ExitClean == process = "closing" /\ MayExit /\ Exit("0")

\* Mutant: the timeout is set in the callback of server.close.
OverdueOnceClosed == signals > callbacks
Overdue == signals > 0

ForcedExit == Up /\ Overdue /\ Exit("1")

Shutdown == CloseEvent \/ PoolEnds \/ ExitClean

Traffic(c) == Connect(c) \/ Send(c) \/ Disconnect(c)

\* All but the statements that succeed: what these work on is up to whoever
\* extends this module.
ServerStep ==
    \/ StartServer \/ ConnectToDb \/ Listen \/ Fatal \/ Signal \/ Shutdown \/ ForcedExit
    \/ \E c \in Client : Traffic(c) \/ TakeClient(c) \/ Throws(c) \/ Respond(c)

ServerNext == ServerStep \/ \E c \in Client : GiveBack(c)

ServerSpec == ServerInit /\ [][ServerNext]_serverVars

-----------------------------------------------------------------------------
(* Properties.                                                             *)

\* server.ts:16: "finish in-flight requests, close DB pool, then exit": the
\* pool serves everyone who waits for an answer, however many signals come
\* and whatever the connections that are still open are used for.
PoolOutlivesRequests ==
    process # "down" /\ pool # "open" => \A c \in connected : handler[c] = "idle"

\* An exit with 0 breaks nothing off: no client waits, no transaction is open.
CleanExitCutsNothing == code = "0" => cut = {}

\* Once a signal has come the process ends, with requests that hang and
\* connections that stay.
SignalEndsServer == signals > 0 ~> process = "down"
=============================================================================
