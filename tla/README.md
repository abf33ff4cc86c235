# Verification of the AgriOS backend API

TLA+ specifications of the Express/PostgreSQL backend in this repository, TLC
configurations that check them on small instances, and proofs for every size
that TLAPS checks. All state of the system is in PostgreSQL; what is hard is
that every `await` of a handler is a point at which any other request may run,
and that only two handlers wrap their statements in a transaction.

Paths below are relative to the repository; `inventory.repository.ts` and the
like are under `src/modules/`.

## Inventory of the system

| Component | State | Operations | Talks to | Hard parts | What makes it correct |
|---|---|---|---|---|---|
| inventory (`modules/inventory`) | table `inventory`: stock, stock_status, sku per tenant | create, update, remove, adjustStock; list, getById read | generic repository, pool | races for the row, the row lock, float against NUMERIC(14,2), unique sku | no lost update, stock in range, status agrees with stock, one row per sku |
| transactions (`modules/transactions`) | table `transactions`; writes `inventory` too | create (one database transaction over both tables), update, remove; list, getById | pool, inventory table | partial failure, check-then-insert on the invoice number | ledger row and stock movement both or neither, one row per invoice number |
| pool (`config/db.ts`) | clients in use, at most `DB_POOL_MAX` | query, withTransaction, checkDbConnection | PostgreSQL | exhaustion, broken connections, ROLLBACK that throws, release on every path | nothing leaks, everyone is served in the end |
| auth (`modules/auth`) | tables `users` (password, attempts, lock), `refresh_tokens` | register, login, refresh, logout, changePassword; me reads | pool, JWT, bcrypt | counters read before bcrypt and written after, rotation in two statements, no transactions | lockout, one successor per token, sessions end with the password |
| ai-assistant (`modules/ai-assistant`) | table `ai_messages`, one conversation per user | sendMessage; listConversation reads | pool, a third-party provider | failing provider, overlapping sends, the history limit | each question answered once, the right context |
| generic CRUD (`common/{repository,service,controller}`), and the tables built on it: categories, suppliers, branches, farmers, employees, warehouses, expenses, reports, knowledge docs, notification settings | one table each | list, getById, create, update, remove | pool | tenant scoping, page and total read apart, cascades | a tenant changes its own rows only; pages add up to the table |
| attendance (`modules/employees`) | table `attendance` | GET, POST under an employee | pool | rows without a tenant, cascade | each row on its employee's list and no other |
| stock transfers (`modules/stock-transfers`) | table `stock_transfers` | list, create, update, remove | pool | check-then-insert on the transfer number | one row per number |
| finance, dashboard | none | summaries of several SELECTs | pool | reads torn by writes and midnight in between | figures that agree when nothing disturbs them |
| migrations (`database/migrate.ts`) | `schema_migrations` | up, status | own pool | two runners, failures and kills between statements | each file applied once, in order, with its record |
| server (`server.ts`) | listening socket, connections, pool | start, shutdown, forced exit | everything | second signal, connections that stay, clients that leave | who waits is served before the pool ends; it ends |
| middleware (`common/middlewares`) | counters of the rate limiter | authenticate, authorize, validate, limit, errors | every route | claims that outlive the users table | every answer is ok, a refusal (4xx) or a failure (500) |

`PROJECT.json` lists the same components with their status, and under
`hazards` the places where the code can go wrong in a way a test hardly reaches.

## Modules

| Module | What it is |
|---|---|
| `StockMath` | stock quantities: `computeStockStatus`, JavaScript's sum of doubles, rounding of NUMERIC(14,2) |
| `LedgerTables` | the tables `inventory` and `transactions`, the calls that pass validation, what one statement makes of a row |
| `AtomicLedger` | the promise: each call takes effect in one step on both tables or not at all, and is answered truthfully |
| `StockLedger` | the handlers: one action per `await`, pool, row locks, withTransaction, failures, crashes |
| `AuthSessions` | accounts, lockout, refresh tokens |
| `OwnedRows` | `OwnedBy`: the rows of a list that a WHERE on the tenant lets through, in their order |
| `AiConversation` | conversations with the assistant |
| `Migrations` | `migrate.ts`: runners, files, records |
| `ServerLifecycle` | `server.ts`: start, HTTP connections, handlers that hold pool clients, shutdown |
| `Deployment` | composes the two: a server works on the tables that runners create |
| `TenantTables` | the CRUD tables of several tenants, their references, attendance, stock transfers |
| `PagedList` | `list` of the repositories, in two statements, and a client that pages |
| `Summaries` | the SELECTs of the dashboard and finance summaries, over days and months |
| `MCStockLedger`, `MCAuthSessions`, `MCAiConversation`, `MCTables` | amounts, operations, symmetry and constraints for TLC; `MCTables` puts `TenantTables`, `PagedList` and `Summaries` side by side, a behaviour of it is one of any of them |
| `StockLedgerProofs`, `StockRefinementProofs`, `AuthSessionsProofs`, `AiConversationProofs`, `TenantTablesProofs`, `DeploymentProofs`, `ReadsProofs` | theorems and their proofs |
| `DataFacts` | lemmas about natural numbers, the rows of an owner and sums, which `AiConversationProofs` and `ReadsProofs` use |

Operators named after a bug (`PlainSelect`, `RollbackForgotten`, ...) and
marked *Mutant* are used nowhere in a specification. Each stands beside the
definition it would replace, and every property of a passing run has one that
violates it: the properties do depend on the code.

### StockLedger and the code

`inventory` and `ledger` are the committed tables. `lock` is who holds an
inventory row (`SELECT ... FOR UPDATE`, UPDATE and DELETE wait for it),
`clients` who holds a client of the pool, `pc` the await a handler is at,
`call` its validated fields, `target` the `newStock` it computed. Uncommitted
writes need no variable: they follow from `call`, `pc` and `target`.

| Code | Actions |
|---|---|
| `pool.query` of one statement | `AcquireClient`, then `Find`, `InsertItem`, `UpdateItem`, `RemoveItem`, `UpdateTxn` or `RemoveTxn`, then `Finish` |
| `adjustStock` | `AcquireClient` (connect, BEGIN), `SelectForUpdate`, `UpdateStock`, `Commit` or `Rollback`, `Finish` |
| `transactions.create` | `AcquireClient`, `Find` (client returned), `AcquireClient`, `InsertTxn`, and the three steps above if stock moves |
| the pool's connect timeout, a broken connection, a failing statement, the end of the process | `ConnectTimeout`, `LoseConnection`, `StatementFails`, `Crash` |

PostgreSQL is external and is modelled as this code uses it: READ COMMITTED, row
locks until the end of the transaction, an inserter that waits for an open
transaction with the same unique key (`KeyPending`), UNIQUE that ignores NULL
(`UniqueApplies`), a transaction aborted by its first failing statement
(`Abort`). Ids are random UUIDs: `IdsPossible` lets a new row have an id that
nobody else has named.

Amounts are integers of *grains*, 20 to a cent. `FloatSum` is exact on whole
units and otherwise off by at most one grain; `ToNumeric` rounds to cents. A
grain stands for the last bit of a double, so results that depend on the exact
size of a rounding error are out of reach, those that depend on there being
one are not.

### AuthSessions and the code

One step per statement of `auth.repository.ts`; a handler's local variables are
`who` (the account it read) and `read` (`failed_login_attempts` as it read it).
`Fail` ends a handler between any two statements; that `logout` catches every
error is one of its cases. Time is abstracted to `LockExpires` and
`TokenExpires`, which may come at any moment. `misses`, `retired`, `overlapped`
and the fields `parent`, `password` and `by` of rows are history variables: no
guard reads them. `Deactivate` is an operator in the database: no endpoint does
it. A refresh token was signed by this server, so its hash is that of its row,
and the branch `auth.service.ts:123-128` is never taken.

What the repository promises of accounts and sessions is false as soon as two
requests overlap. Two of its promises are checked as they are written, and
violated: `LockLasts` and `PasswordChangeEndsSessions`; a third,
`ReplayEndsSessions`, is false of one request after another. Of the others it is
plain how they fail: two wrong passwords that read one count are counted once,
two refreshes with one token both find it usable, two registrations both find
the address free. What is left of these holds, in one of two ways.

- `by` names the request that stored a row. A request comes in only after the
  answer to the one before, so two rows with one `by` are of calls that did
  not overlap each other; everything else may overlap both. `OneSuccessor` and
  `LaterEmailRefused` say that the second of them is refused. Requests are
  interchangeable: any two calls that do not overlap can be of one, and the
  theorems hold for any number of them.
- `overlapped` becomes true when two requests are in flight together. Up to
  then `QuietLockedAfterLimit` and `QuietChangeEndsSessions` hold: one overlap
  that is long over is enough to break them (a count that was lost stays lost).

`RotationOrder` and `LockHasCause` hold throughout.

### AiConversation and the code

`messages` is the table together with the rows of INSERTs that are still open,
`now` the clock of the database server. `Insert` gives a row its `created_at`,
the time at which the statement begins; `CommitInsert` makes it visible. Between
the two any other send may insert, commit and read, so that a row can come to
be seen behind rows that were read before it: what a send is given need not be
the beginning of the conversation as it is afterwards. A send stores the
question, reads the history (`Listed`: WHERE user, ORDER BY created_at ASC LIMIT
n, over what is visible), asks the provider (`Generate`: an answer, or an error
that is caught), and stores the answer or the apology. Two rows with one
`created_at`, to the microsecond, are left out: their order would be
PostgreSQL's choice.

`ContextIsConversation` says what of this can be relied on: the rows are the
user's own and at most `HISTORY_LIMIT`; of those that the send must know (what was
visible when it came in, and its question) none is missing, or the limit is
used up; and none of them is missing between two rows that are given. It leaves
open which end of a long conversation is cut off, since the texts say the old
end and the code cuts off the new one: that is `QuestionInContext`, which
`AiConversation_context` violates.

### Migrations, ServerLifecycle, Deployment and the code

A runner's `label` is the statement it is at, `todo` what its loop has left,
`exit` its last exit code. The database is `tracked` (schema_migrations exists),
`recorded` (the files it lists) and `schema` (the files whose tables are there).
A transaction writes the tables and the record in two statements; until it ends
they are in `created` and `inserted`, and `Commit` moves to the database what is
in them, and `Close` forgets it. `CREATE TABLE IF NOT EXISTS` waits for another
open transaction that has created the table and creates nothing when it is
there (`RunSql`); the record's filename is UNIQUE, so that the second runner of
a file waits, rolls back and stops with an error (`InsertRecord`). That the two
sets agree in the end is therefore a property, `RecordedIffApplied`, and the
mutant `InsertRecordOnPool`, a record written outside the transaction, breaks it. `CommitUnanswered` is a COMMIT whose answer is lost,
`KillRunner` the end of a runner anywhere.

Of the server's requests `ServerLifecycle` keeps what shutdown can see: the
connection, whether it is still there, and whether the handler holds a client
of the pool. `Signal` is `shutdown`: `server.close` stops listening and closes
idle connections; `CloseEvent` is its callback, once for all signals so far, and
calls `pool.end()`, which rejects from the second time on (an unhandled
rejection is only logged); `PoolEnds` waits for clients that are checked out; then `process.exit(0)`
follows (`ExitClean`), unless the ten seconds are over first (`ForcedExit`). A
handler whose client has left runs on, and the pool waits for its statement but
serves it no further one. In `Deployment` a handler's statement (`Use`) needs the
tables of some file; nothing in `bootstrap` looks at the schema. That such a
file's predecessors are there too is no property of its own: it is
`AppliedInOrder` and `RecordedIffApplied`, which hold in every state.

### TenantTables, PagedList, Summaries and the code

The handlers of the CRUD modules are one statement and so one action each:
`Create`, `Update`, `RemoveById`, `RecordAttendance`; `POST /stock-transfers` is
`FindByTransferNo` and `InsertTransfer`. `stored` holds every table; `ref` is the
one foreign key that a table has here, `value` stands for the columns that a PUT
may change. `By(tenant)` is what a caller of a tenant can have done. Removing a
row does what its foreign keys say (`Without`). suppliers and `supplier_id` are
the same as categories and `category_id`; the other tables have no references.

`PagedList` keeps a table in the order of `created_at DESC`. A row's
`created_at` is the start of its INSERT, so that a row may become visible
behind newer ones (`Overtaken`); two rows with one `created_at`, whose order
PostgreSQL may choose anew in every statement, are left out. The client that
goes from page to page is not in the repository: it asks as long as
`page * limit < total`. The clamps of `limit` and `page` never bite behind
`paginationQuerySchema`; they are modelled all the same.

In `Summaries` a request is a list of SELECTs (`reading`) and each step runs one
on the rows and the day of that moment (`Select`, `NextSelect`). Time counts
half days (noon is one of the figures' bounds) and months have `DaysPerMonth`
days, so that what depends on months of unequal length (the interval of six
months from the 31st) is left out. A day without rows is missing in a series
(`GROUP BY day`), as in the code, and the answer does not name the days.

## Runs

| Run | Shows | Instance |
|---|---|---|
| `StockLedger_contention` | type, range, status, no lost update, unique keys within a tenant | 2 requests, 2 items, 2 entries, a tenant and none, 2 skus, 1 invoice number, every operation; opening stock 30, movements of 24, room for 30: stocks of 30 and 6, too little of it, and too much for the column |
| `StockLedger_progress` | no lost update, nothing leaks, `AtomicSpec` (refinement), every request answered | 3 requests, 1 item, 2 pool clients; creating, adjusting, selling and buying |
| `StockLedger_status_float` | violated: status drifts on 16.08 - 6.08 | 1 request |
| `StockLedger_duplicate_invoice` | violated: two equal invoice numbers without a tenant | 2 requests |
| `AuthSessions_requests` | rotation, later refreshes and registrations refused, and, before requests overlap, lockout and password change | 2 requests, 3 accounts, 1 address, 3 tokens, 2 passwords, limit 2 |
| `AuthSessions_lock_cut_short` | violated by a login that is let in before the lock and finishes after it | 2 requests, 1 account, 2 tokens, limit 2 |
| `AuthSessions_password_change` | violated by two requests | 2 requests, 1 account, 2 tokens |
| `AuthSessions_replay` | violated by one request after another | 1 request, 3 tokens |
| `AiConversation_sends` | one question and answer each, context, every send ends | 3 sends, 2 users, limit 2 |
| `AiConversation_context` | violated: the question is not in the context | the same |
| `Deployment_lifecycle` | files and records, order, exit codes, shutdown, every run and every signalled server ends | 2 runners, 3 files as in the repository, 1 client with requests of 2 statements, 2 signals |
| `Tables_uses` | references, one list per attendance row, transfer numbers, tenants apart; what a paging client and the reader of a summary can rely on | tables: 4 rows, a tenant and none, 2 values, 1 number, 2 requests; pages: 4 rows of 2 tenants, limits 1 to 3; summaries: 2 rows of 2 tenants, 3 points in time over 4 days, months of 3 days |

Why the bounds are enough. Every conflict in the ledger is between two requests
over one row or one key; in `StockLedger_progress` the third request is the one
that waits for a client while two hold the pool, or that comes in between. One
item is enough there because no transaction locks two. Two attempts instead of
five and a history of two instead of twenty keep the shape of the code: below
the limit, at it, past it. Three tokens are a token, its successor and the
successor's, or two successors of one. Three accounts let an address be
registered twice by requests that overlap and be asked for again afterwards.
A history of two and conversations of up to six rows have questions within
the limit and past it, and rows that are seen in another order than that of
their times. Two runners on three files meet at every
statement, and one client has every history with two signals that shutdown can
tell apart; that there may be more of both is proved. Four rows are an employee
and its attendance for each of two tenants, or two transfers and what else
happens meanwhile. Four rows in pages of one to three have full, partial and
last pages; a series of two days before today and months of three days give
each SELECT's period an inside, an edge and an outside. Ids are interchangeable,
and symmetry is used only where no liveness is checked. Sends are made once each
and then the system stops, so deadlock is not checked in the two runs of
AiConversation.

State constraints cut behaviours short. `InOrder` gives out ids of accounts and
tokens in their order, since which id a new row has makes no difference.
`OneConcern` keeps apart what the code keeps apart: failed logins go on only while
there is one token, password changes and deactivation while there are two,
with three there is only rotation, and further accounts register only before
anyone logs in. The lockout reads no token, rotation and password change read
no counter, and the proofs, which know of no constraint, cover the mixtures.
`WorthReading`: no property of `Summaries` speaks of a
request during which rows were changed, and none of `PagedList` of one during
which rows both came and went; after an answer the next request finds no rows
that the first could not have found. The race between the SELECTs is what
`LaterSelectsKnowMore` is about; `QuietDashboard` and `QuietFinance` compare
figures that select the same period in different ways, which only undisturbed
SELECTs can tell apart.

Findings. The six violated runs are disagreements of code and text, listed with
both in `PROJECT.json`: the status that is computed from an unrounded double,
duplicate invoice numbers without a tenant, a lock that ends early, sessions
that outlive a password change, a replayed refresh token that revokes nothing,
and the assistant's context that keeps the oldest messages. Transfer numbers
without a tenant and the addresses of accounts can be duplicated as invoice
numbers can.

### Fairness

`StockLedger!FairSpec` asks strong fairness of each request's own steps:
pg-pool serves its queue in order of arrival and PostgreSQL grants row locks
and unique keys to waiters in turn, so a request whose step is possible again
and again in the end takes it. `Deployment!FairSpec` asks the same of a
runner's statements (the wait for another runner's tables comes and goes), and
weak fairness of the timer of the forced exit: nothing is assumed of requests,
connections, the pool or `server.close`, so that `SignalEndsServer` is what the
ten seconds alone guarantee. `AiConversation!FairSpec` asks weak fairness of
each send's steps: a statement returns or throws, and so do the provider's
clients, which give up a request that takes too long. Nothing is assumed of
arrivals, failures, timeouts, kills or crashes.

## Proofs

All theorems hold for every value of the constants that meets the named
assumptions beside their declarations (`Null` and `Free` are not ids, amounts
are natural numbers, the largest stock is a whole number of cents, limits are at
least one; the trend has at least two months, six in the code, because the last
month's income must be in it). `PROJECT.json` lists them; every safety
property of the passing runs is proved, the liveness properties are not.

**Ledger.** `StockInRange` is not inductive: COMMIT writes `target`, which is in
range only because it was checked against a row that nobody has changed since.
So `IInv` adds `ReadIsCurrent` (the row lock is held and `target` is the sum of
the committed stock), `NothingLeaks` (who holds a lock is at `update`, `commit`
or `rollback` and works on that row, so two requests cannot both hold it),
`OnPath` (a handler at a label works on a call that leads there; a stock at
`commit` fits its column) and `OwnIds` (an item being created is nobody else's,
so its INSERT disturbs no reader). Steps fall into those that end a handler
(`EndsInv`), move it on without a lock (`MovesOnInv`), write a table by
themselves (`WrittenInv`) and the four of withTransaction; `NextInv` puts them
together. `StatusNeverDrifts` adds `WholeStock`, and the lemmas about `StockMath`
supply the arithmetic: on whole units sums are exact and the column does not round.
`StockLedger_status_float` shows that the hypothesis is needed.

**Keys.** `SkuUnique` is kept by each statement that writes the column. An
invoice number is inserted at one label and committed at a later one, so
`InvoiceUnique` needs `KeyHeld`: of the transactions that have inserted a number
and are still open no two of a tenant have the same, and no committed entry has it.

**Refinement.** `ImplementsAtomicLedger` maps every action of `StockLedger` to
one step of `AtomicLedger` or to a stutter: statements that read, wait or
abort stutter; a single written statement and a COMMIT are the atomic call; an
answer is the atomic answer. Besides `IInv` and `KeyHeld` it needs `Reasons`: when
a handler is about to roll back and refuse, its item is gone and the random id
cannot come again, or the item is too short and the handler holds its lock: the
atomic call would refuse too.

**Auth.** `AInv` is `TypeOK`, the lineage of tokens (`RotationOrder` for the
tokens that exist and for the one being exchanged), `LockHasCause`, and `Quiet`:
while no requests have overlapped, at most one handler is on its way, what it
read is still so, the count of failed attempts is not behind the misses, and
what the tables say of retired passwords is as the properties ask. `InTurn` is
proved with it and is what `OneSuccessor` and `LaterEmailRefused` need: a request
that is about to store an account or a successor has stored none for the same
address or token before (`MayCreate`, `MayExchange`). It knows so because it has
looked (`Looked`): it found no account with the address, or a usable token, and
a usable token is the last of its line (`UsableIsLast`). No other request can spoil
that, since what others store has another `by` (`AccountColumns`, `SessionColumns`).

**Conversations.** `CInv` says, for each label, which rows of a send are stored,
and that no two rows have one time. `HInv` adds what the provider is about to be
given. It rests on two lemmas: `VisibleStays`, what has been seen once is seen
from then on, so that what a send knew of is among the rows its SELECT reads;
and `FirstRows`, what ORDER BY and LIMIT make of any finite set of rows with
times of their own: at most so many, all of them unless the limit is used up,
and without a gap. Nothing is said of rows that come to be seen later.

**Tenants.** `TypeOK` is inductive, and `ReferencesResolve` and
`TransferNoUnique` are with it; `AttendanceOnOneList` follows from the second, and `TenantsApart`
is checked action by action.

**Deployment.** `RecordedIffApplied` is not inductive: COMMIT writes what two
earlier statements have put into the transaction. `WorkInv` says what that is:
from the file's SQL on its tables are in the database or in `created`, and from
the INSERT on its record is in `inserted`, both of the runner's current file and
of no other. Tables may be there although this transaction did not create them,
the record may not. The rest of `MInv`: every file that a running runner no longer has before it
is on record (its own, or another's that it did not find pending), so that its
current file is the next one in order, and what exit code 0 says is so. `SInv`: a pool that was told to end has no connection
left, and a handler holds a client only while the pool is not ended.

**Pages.** `ListInv` relates what the client has (`seen`, `items`) to what is
`Beyond` the place it is at in its tenant's table, and says three things, each
for as long as it is true: without a removal every row that was there at the
start has been seen or is still ahead (`NoneLost`); without an insertion no row
that has been seen is ahead (`NoneAgain`); without either, what has been seen is
the beginning of the table (`InStep`), which the two others do not follow from.
Statements of the client move the place, those of the same tenant move the rows
past it, and those of other tenants move nothing (`OwnedAround`): a page is cut
out of `VisibleTo`, never out of the table.

**Summaries.** The proofs compare figures by way of the reader's books: its
rows of a kind, with their totals by day and by month. `SelectTells` says what a
SELECT gives when it runs: that the entry of a series is the total of its day,
that of the trend the total of its month, and that the categories add up to the
month's expenses (`SumOfClasses`: a sum over a set is the sum of the sums over
its classes). `SummaryInv` keeps that for the figures read so far (`Tells`) while
neither the rows nor the day have changed, which gives `QuietDashboard` and
`QuietFinance`. If rows are only added and days may pass, it keeps a bound instead
(`AtMost`: not above the total of some day since the request came in), and
`Covered` compares it with the series when that is read. `Order` says which
SELECTs are behind the request.

**Data.** `OwnedBy` is a recursive function and `SumFunction` a fold. Induction over
them is not available as a rule here, since its premise is a predicate;
`DataFacts` states it for a set instead: a set of numbers without a least element
is empty (`LeastNat`, `UpTo`), and a family of finite sets that has the empty one,
and with each set that with one more element, has them all (`Subsets`). What the recursions return follows, in terms of appending,
removing and joining (`OwnedAppend`, `OwnedConcat`, `SumRemove`, `SumUnion`).

Model-checked only. Liveness (`EveryRequestAnswered`, `EveryRunEnds`,
`SignalEndsServer`, `EverySendEnds`) needs fairness and ENABLED, which are out of
this prover's reach. TLC checks it on the instances above, and checks the proved
properties there as well.

## Not modelled

- Authentication and authorization: pure checks on an access token's claims.
  They narrow who may send the calls that the modules range over; here everyone
  sends everything.
- Rate limits: counters inside express-rate-limit, in one process's memory.
- The users list, getById, me, listConversation: one SELECT, no state.
- Configuration, logging, the case mapping of column names, `app.ts`: constants,
  output, string functions and wiring.
- Columns that no property tells apart; rounding of `amount` and `unit_price`;
  percentages of the summaries; calls that fail validation, which change nothing.
- The cascades from `users` to `refresh_tokens` and `ai_messages`: no endpoint
  removes a user.

What is left cannot be stated as a property of this code without inventing a
promise: nothing in the repository says when a changed role takes effect, what
a failed password change leaves behind, or that removing a sale restores stock.
