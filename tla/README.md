# PolyMind server in TLA+

A specification of the PolyMind API server (`src/`, Python: FastAPI, SQLAlchemy on PostgreSQL, Redis, Celery).
The server sells credits, spends them on chat replies from several LLM providers and on generated speech, images and
videos, and keeps the chats. What can go wrong in it goes wrong *between* statements: two webhooks for one payment,
a worker that dies after its commit, a socket that edits a chat another one is answering in. The modules here say
what the code does at that grain, TLC explores every interleaving of small instances, and TLAPS proves the
invariants for every size. Where the code computes rather than interleaves (prices, budgets, routing, wire formats),
the computation is a set of operators that TLC compares with what they are for, over every edge of their inputs.

## Inventory

| component | state | operations | interacts with | hard behaviour | what makes it correct |
|---|---|---|---|---|---|
| Billing (`services/billing.py`) | `wallets` rows | balance, has_credits, debit, credit, refund: one SQL statement each | everything that costs or grants credits | concurrent statements on one row | no lost update; a guarded debit never overdraws |
| Payments (`endpoints/payments.py`) | `transactions` rows; the gateways' sessions and orders | start a checkout or an order, Stripe webhook, Razorpay verification | Billing, Packages, Stripe, Razorpay | duplicate, concurrent and early callbacks; lost row; crash before or after commit | a paid purchase is granted once, whole, to its buyer; a webhook is acknowledged only when done |
| Packages (`endpoints/packages.py`) | `packages` rows | create, update, deactivate | Payments reads them | edited between load and commit, and between quote and credit | an edit changes what it was sent; the credit is the quote |
| Media jobs (`endpoints/media.py`, `workers/tasks.py`) | `generated_*` rows, broker queue | charge and publish; generate, poll, fail, refund; delete | Billing, Celery, D-ID, TTS, storage | late acknowledgement and redelivery, publish after commit, bounded polling, deleted rows | every charge ends in an asset or a refund, never both |
| Media providers (`services/media/`) | catalogues of voices, image models and prices | validate, quote, price | Media jobs, settings | prices per option, cuts, blocks, credentials missing | what is charged is what was quoted and pays for what is delivered |
| Chat turns (`endpoints/chat.py`, `chat_service.py`) | socket session, `chats`, `messages` | send, stop, edit, regenerate, compare, switch chat | Billing, LLM adapters, titles, audio of messages | stop against completion, two sockets on one chat, streaming before billing | replies follow their message; what is stored is charged, and only that; a turn ends |
| Context (`chat_service.load_history`, `core/redis.py`) | rows of a chat, staged files | read the history back, attach files | Chat turns, Redis | the limit, arenas, files that expire | a model is given the conversation and the prompt once, last |
| Chat sharing and titles (`endpoints/chat.py`, `llm/titles.py`) | `chats.share_token`, `chats.title` | share, unshare, rename, generate title, delete | Chat turns | read, decide, write | a revoked link is dead |
| Accounts (`endpoints/auth.py`, `users.py`, `core/security.py`) | `users` rows, reset tokens in Redis | signup, login, Google, forgot and reset, change password, delete | Billing (wallet), mail, Administration | retries after lost answers, concurrent tokens, deactivation | one account and one wallet per email; a reset link works once; who is out stays out |
| Administration (`endpoints/manage_user.py`) | `users`, `wallets` | edit rights, activity and balance, delete | Billing, Accounts | guards on the caller's own row, absolute balances | an administrator is not locked out alone |
| Rate limiting (`core/ratelimit.py`) | one counter per key in Redis | hit | all endpoints | increment and expiry in two round trips, outage | a bound on hits in any stretch of time; no client is refused for ever |
| Routing, pricing, budgets (`llm/router.py`, `models.py`, `usage.py`, `plan_budget`) | none | choose a model, plan a turn, price a reply | Chat turns | ties, rounding, missing usage, fallback models | the best family is chosen; a turn's bill lies between what was shown and what the wallet held |
| LLM adapters (`llm/openai_adapter.py`, `claude_adapter.py`, `gemini_adapter.py`) | none | write a conversation for a provider, read its stream | Chat turns | neighbours of one role, empty turns, streams that end early | three wires, one conversation |
| Files, storage, email, statistics, shell | none of their own | I/O, parsing, read-only queries | | | not modelled: no shared state |

How the parts meet: every component changes `wallets` only through Billing (Administration excepted); API handlers,
webhooks, sockets and workers are concurrent processes that share PostgreSQL at READ COMMITTED, so a handler is a
sequence of steps, each of which is one statement or one commit; an API handler reaches a worker only through the
broker, and a worker reaches a user only through rows.

## Modules

| module | what it is |
|---|---|
| `Billing` | the wallet table and the effect of each statement of `billing.py`; every module that moves credits uses it |
| `Settlement` | what selling credits promises: one step grants a paid purchase, once |
| `Payments` | the Stripe and Razorpay handlers, their row locks and unique keys, crashes, deletions; `IInv`; the mapping to `Settlement` |
| `MediaJobs` | the media endpoints, the broker and the Celery tasks; `MInv` |
| `Conversation` | what a chat promises one user: prompts, replies, replacing from a prompt on, asking again |
| `ChatTurn` | the WebSocket endpoint, the turns and the replies' streams and settlement; implements `Conversation` |
| `Accounts`, `Administration`, `ChatRows`, `Packages` | the HTTP endpoints that read, decide and commit |
| `RateLimit` | the fixed-window counter, the two round trips of a hit, time |
| `Catalogue` | the model registry: providers, rates, limits, aliases, routing defaults |
| `Routing` | from a payload to the models of a turn and the reasons shown |
| `Context` | from the rows of a chat and the staged files to the messages a model is given |
| `Wire` | from those messages to the requests of OpenAI, Anthropic and Google |
| `Generation` | from a balance to output limits, and from a stream's end to the bill |
| `MediaPrices` | what a media request is quoted, checked for, charged and given |
| `PaymentsProofs`, `MediaJobsProofs`, `AccountsProofs`, `ChatTurnProofs`, `RateLimitProofs` | the theorems about the module each is named after |
| `RequestsProofs` | the theorems about the sum `MCRequests`: those of Accounts carried over, and the proofs for Packages, Administration and ChatRows |
| `ContentsProofs` | the theorems about the sum `MCContents`: the proofs for Context, Routing, Generation, Wire and MediaPrices |
| `Lists` | `Keep`: what a query or a comprehension leaves of a list; Context and Wire use it |
| `SumsAndLists` | lemmas about sums over finite sets and intervals, and about `Keep` and the ends of lists, for the proofs |
| `MCPayments`, `MCMediaJobs`, `MCChatTurn`, `MCRateLimit` | TLC instances: the symmetry of interchangeable handlers, workers and sockets |
| `MCRequests` | one instance of Accounts, Administration, ChatRows and Packages |
| `MCContents` | one instance of Context, Routing, Generation, Wire and MediaPrices |

`MCRequests` and `MCContents` are disjoint sums: the components they take together share no row and no variable, so
`part` is chosen at the start and says which of them an execution is of; the others stutter. Every state of a
component alone is a state of the sum, and nothing else is. `RequestsAssumption` and `ContentsAssumption` assume what
the components say of their constants (`Assumptions`); TLC evaluates them on every run of the sums. Apart from the
sets named at their end, `MCRequests` and `MCContents` fix no constant, so that a theorem about their `Spec` is one
about instances of every size.

### Payments

`txn`, `wallet`, `pkg`, `member` are committed rows. A handler (`req[p]`) walks through the statements of its
endpoint. A handler at `credit` has its transaction row locked, by `SELECT ... FOR UPDATE` or as the holder of a
fresh unique index entry; at `commit` it holds the wallet row as well and carries the new balance in `bal`;
`Commit` publishes all of it and `Crash` none of it. So locks are not variables, they are read off the program
counters (`RowLocked`, `WalletLocked`), and a step that needs a locked row is disabled until it is free. `gw` and
`signed` are what the gateways know. Where the two flows run the same statements (`OpenAtGateway`,
`RecordPurchase`, `CreditWallet`, `Commit`) they share an action. An `IntegrityError` after the account is gone
takes the same path as a concurrent insert, as in the code. `granted`, `spent` and `acked` are history that the
properties read; no action is guarded by them (a bound on `spent` apart; `acked` guards only the fairness of
redelivery).

### MediaJobs

`call[j]` is the endpoint that serves job `j`: asked, reserved (the wallet row is held), charged (committed), then
published or lost. `queue` counts the copies of each task in the broker, `worker[w]` is the task a process runs and
the statement it has reached. Every provider, storage and download failure is the outcome `FALSE` of `Generate` or
the answer `"raise"` of `CheckStatus`; `"error"` is D-ID's failure and any answer other than 200. A speech or image
job keeps its rows in `rows` (a task that runs twice stores two), an avatar its one row in `video`. The faults are
actions of their own with a budget each: the endpoint dies or its publish fails (`LoseCall`), the broker refuses a
poll (`PollRefused`), a refund fails (`RefundFails`), a worker dies (`WorkerDies`, which puts the task back).

### ChatTurn

The sockets are those of one account, which is all the chats they can reach. `loop[s]` is what `websocket_endpoint`
awaits: a payload, or the end of the turn it has just stopped, or of the one that outlives its client. `turn[s].pc`
is the await `run_turn` is at, `slot[s][i].pc` the one of each `_generate_slot` task of its TaskGroup. A database
transaction is one step, except for the one that deletes old rows and inserts the prompt: between its flush (`Write`)
and its `Commit` the deleted rows stay locked, and another turn that wants them waits (`Doomed`, `Writing`). Message
ids stand for `created_at`, which is what the code orders and truncates by. A `stop` frame sets the event of the
socket; `start` makes a fresh one (`FreshStop`), which is what `InterruptedOnlyIfAsked` is about. The faults are the
database refusing a transaction (each place where the code catches it, and `TurnRaises` where nothing does), a
provider that fails or is silent (`StreamFails`, `StreamTimesOut`; silence is no step at all) and the death of the
process. Media endpoints (`Spend`, `ReadAloud`) and `DeleteChat` are the surroundings: they charge the same wallet,
reference the same messages and delete the same chat. `raced`, `overrun`, `sold`, `unit`, `refused` and `pinned` are
history: `raced` has the sockets another charge overtook after they read the balance, `overrun` what the replies since
that reading cost beyond their shares of it.

What a reply says, what it costs exactly and which models answer are left to `Generation`, `Context` and `Routing`:
here a cost is any of `Cost`, whatever was planned, as `_record_reply` debits what the provider's usage comes to.

### Accounts, Administration, ChatRows, Packages

A request loads what it needs in one step, and decides and commits in a later one; between them everybody else may
commit. That is how the code is written (`AsyncSession`, no row locks outside Payments and Billing), and SQLAlchemy
writes only the columns whose value differs from the loaded one (`Written` in `Packages`, `Read` and the commits in
`ChatRows` and `Administration`). A row that is gone by then is an error and changes nothing.

* `Accounts`: `execute_with_retry` runs a whole unit of work again when the connection is lost; `Unreachable` loses
  it before the work or after its commit, which is how a signup meets its own row. A reset link is consumed by one
  MULTI of GET and DEL (`Consume`). Access tokens name an address, and `_load_active_user` looks the account up again.
* `Administration`: rights, activity and balance are absolute values computed from the loaded row. `ledger` is the
  sum of the changes everyone meant; `crossed` remembers that a save took away what had let in a request in flight
  (`LetIn`).
* `ChatRows`: `share_chat` commits the token it drew and reads the row again for its answer (`Refresh`);
  `_title_chat` compares the title it has read, and a rename to the title it has read writes nothing.
* `Packages`: prices are rounded to cents when stored; flags may be sent as null.

### RateLimit

One key. A hit is one MULTI of INCR and TTL; a request whose TTL was missing then sends EXPIRE in a second round
trip, during which the process may die (`Abandon`), Redis may fail (`FailOpen`) and time passes (`Tick`). The seconds
are those of Redis; `recent` counts the allowed hits by age, for `SlidingBound`. A request that is let through because
Redis failed (`ratelimit.py:35-37`) has not been counted by anyone: the bound is one on counted hits.

### Catalogue, Routing, Context, Generation, Wire, MediaPrices

These follow data through a turn and a media request. `Context` runs turns of one conversation (send, edit,
regenerate, in a chat or an arena, with files that expire) and holds in `given` what each model was sent, so that
`load_history` is applied to conversations the program can reach, not to arbitrary rows. A reply is stored under the
model that served it (`Reply`), which after a fallback is another than its slot's; `asked` remembers the slot's.
`Routing` takes a payload through validation, `resolve_models` and the router, with the second reading of the prompt
for the reason. `Generation` plans a turn, lets each slot stream, fall back, be refused, stop, time out or fail, and
settles it. What a provider counts for the prompt and how many characters its tokens make are choices of its own
(`Counts`, `Shown`), either count may be missing, and a fallback may be cheaper or dearer: the plan knows only an
estimate of all this. `Wire` builds conversations the same way as `Context` leaves them, the oldest messages cut off
by the limit (`Pass`), and renders them three times; Claude's merge of neighbours is a recursive function over the
messages kept, and what a wire carries is read off the places of its parts (`Places`, `PartAt`). `MediaPrices` takes
a request through quote, validation, charge and delivery under every combination of settings, the half-configured
ones among them. Amounts are whole millionths of a credit, which is the precision of the wallet; the registry's
rates are whole in that unit, so no rounding is abstracted away.

## What TLC checks

| run | question | bounds |
|---|---|---|
| `payments_accounts` | are duplicate, concurrent and early callbacks safe against lost rows, foreign sessions, package edits, a crash, deletion, and do the wallets add up? | 2 accounts, 1 session, 1 order, 2 handlers, 2 prices, 1 credit spent, 1 crash |
| `payments_orders` | does a payment settle one order, do the rows implement `Settlement`, is a paid session credited, does every handler end? | 1 account, 1 session, 2 orders, 1 payment, 2 handlers, 1 crash |
| `media_safe` | is no charge forgotten, every job delivered or refunded exactly once while no worker dies, and does the wallet add up? | 2 jobs (1 avatar), 2 workers, 2 polls, one fault of each kind, a worker death among them |
| `media_live` | does every charged job reach an outcome? | 2 jobs (1 avatar), 1 worker, 1 death, 1 failed refund |
| `media_lost_task`, `media_double_outcome` | two of the promises below | the one fault each needs |
| `chat_alone` | does a chat of one socket implement `Conversation`, and is the wallet missing what was stored? | 1 socket, 2 chats, 2 turns of up to 2 models, 2 costs, 1 refused transaction, 1 death, 1 message read aloud |
| `chat_pair` | what two sockets on one chat, and media charges, cannot do to each other | 2 sockets, 2 turns, costs 1 and 3, 1 credit charged elsewhere |
| `chat_live` | does every turn end? | 1 socket, 2 turns of up to 2 models, silent providers |
| `requests` | what two crossing requests cannot do to accounts, rights, a shared chat or a package | 2 requests in flight, 2 accounts or packages, 4 requests in all, 2 attempts, 2 share tokens |
| `contents` | are contexts, routes, bills, wires and media charges right at every edge? | history limit 3 over 3 turns; scores up to 2 and lengths on both sides of each bound; one model per provider and an arena, balances at and just below the minimum, prompt counts missing and above the estimate, thinking and text of more characters than estimated, a cheaper and a dearer fallback; one stored reply of another model; 5 messages, 2 files; text lengths at every cut and block; all settings |
| `rate_limit` | the bound on hits of any stretch of time, and the reset | limit 2, window of 3 s, 3 requests |

Why these bounds are enough: a race of these handlers is about two of them and one row, and what is proved holds
for any number; two prices distinguish the quote from the package; two polls give a first, a last and
a middle exit; two jobs give one that is polled beside one that is not, with a fault of one that must not excuse the
other; two turns give every order of send,
edit and regenerate in which the second can undo the first; a reply of cost 3 against a balance of 2 exceeds its plan by
one; a history limit of 3 is passed by two prompts with their replies. Computations are checked at the values
where a comparison, a division or a cut changes its result and beside them.
Bounds in guards: `MaxSpend`, `MaxTurns`, `MaxMoved`, `MaxSpoken`, `MaxAsked`, `MaxRequests`, `MaxMoves`,
`MaxMessages`, and the budgets of faults. The others are sizes of sets.

`CHECK_DEADLOCK FALSE` is stated where an instance really stops: jobs, turns and requests are used up. Payments and
the rate limiter run with the deadlock check.

Every property has a mutant, a definition named `Slip...` in front of the definition it replaces: a plausible
mistake (no FOR UPDATE, a read and a write instead of one UPDATE, a stop event that is not renewed, a token read
before it is deleted, a merge of neighbouring turns left out) that TLC finds.

**Fairness.** `Payments`: strong fairness of a started handler's next step (PostgreSQL grants a row lock to its
waiters in turn, and nobody keeps one) and of Stripe's redelivery of an event it has no 2xx for. `MediaJobs`: strong
fairness of a started endpoint and task and of the delivery of each task in the broker, which hands out what it
holds. `ChatTurn` (`ServerFairness`): strong fairness of the transactions of a turn and of the settlement of a reply,
weak fairness of the endpoint noticing that its client is gone. Nothing is assumed of the providers: that a stopped
or abandoned turn ends holds while they are silent. That every turn ends is stated under `TimerFairness`, the weak
fairness of `asyncio.timeout`, as a premise of the property. `RateLimit`: weak fairness of the clock, of hits by a
client that keeps trying and of the end of an outage. Nothing is assumed of customers, of new requests, or of the
absence of faults within their budgets.

## Promises the code does not keep

Two are runs, `media_lost_task` and `media_double_outcome`. The others are definitions beside the properties; name
one as an `INVARIANT` in the `.cfg` given and TLC prints how it is broken.

| promise | where it is made | what the code does | definition, instance |
|---|---|---|---|
| credits are never taken for an asset that was never delivered | `media.py:4-5` | the charge is committed before the task is published (131, 189, 285, 379); a refused publish keeps it | `NeverTakenForNothing`, `media_lost_task` |
| every failure path refunds | `tasks.py:3-4` | a poll reschedules itself outside its error handling (274, 259); a refused poll leaves the video `processing_external`, charged | `NeverTakenForNothing`, `MCMediaJobsLostTask` with `MaxLost = 0`, `MaxRefused = 1` |
| credits are returned for work never delivered | `tasks.py:42` | late acknowledgement runs a task again after its commit; its failure refunds a delivered asset | `RefundedOnlyUndelivered`, `media_double_outcome` |
| an overdraft is bounded by one unit of work | `billing.py:64-65` | every turn plans on the balance it has read (`chat.py:585`) and charges with `allow_overdraft` (866) | `OverdraftIsOneUnit`, `MCChatTurnPair` with `MaxSpend = 2`, `Cost = {2}` |
| a turn is refused up front | `README.md:76` | regenerate deletes the old replies and commits (`chat.py:622`, 654) before the budget refuses (693) | `RefusedUpFront`, `MCChatTurnAlone` |
| a conversation keeps its mode | `chat.py:576` | the check (575) exempts regenerate, which may name several models | `ConversationKeepsMode`, `MCChatTurnAlone` |
| an edit replaces everything after it | `README.md:176` | `truncate_from` (`chat_service.py:88`) selects and then deletes; a reply stored in between stays, without a parent | `NoReplyLeftBehind`, `MCChatTurnPair` |
| "Please try again" | `chat.py:656` | the session keeps the id of a chat whose transaction failed (607); every later turn fails | `SessionChatIsStored`, `MCChatTurnAlone` |
| a chat can be deleted, with its messages | `chat.py:233` | `generated_audio.source_message_id` (`models/media.py:29`) has no ON DELETE: a message read aloud cannot go | `DeletionIsPossible`, `MCChatTurnAlone` |
| failures arrive as an error | `README.md:183` | database errors at 556, 585 and 745 of `chat.py` end the turn's task unheard | `TurnIsAnswered`, `MCChatTurnAlone` |
| a duplicate lost the race to another signup | `auth.py:111-113` | the retry meets the row its own first attempt has committed (129) | `DuplicateIsAnothers`, `MCRequests` |
| "Please try again shortly" | `auth.py:81` | `reset_password` has consumed the link (288) before the work that failed | `TryAgainCanWork`, `MCRequests` |
| an admin does not lock themselves out | `manage_user.py:75` | two administrators who demote each other at once both pass the guard (76) | `AdminRemains`, `MCRequests` |
| every balance change is one conditional statement | `README.md:73` | the form's absolute balance is assigned to a loaded row (`manage_user.py:91`) | `BalanceIsLedger`, `MCRequests` |
| `hit` returns the seconds until reset | `ratelimit.py:24` | two hits without an expiry both send EXPIRE (31); the later one prolongs the window | `ResetComesInTime`, `MCRateLimit` |
| share creates or returns a working link | `chat.py:283` | of two shares that read no token (285) the second commit replaces the first's | `ReturnedLinkWorks`, `MCRequests` |
| a rename meanwhile is respected | `chat.py:895` | the title is compared as read and then written without a condition | `RenameIsKept`, `MCRequests` |
| package names are unique | `packages.py:57, 68` | the name is checked, then inserted, and the index is not unique; an update checks nothing | `NamesAreUnique`, `MCRequests` |
| packages can be listed | `packages.py:29` | an update stores null flags and prices of 0.00, which `PackageResponse` refuses | `ListingWorks`, `MCRequests` |
| in an arena each model continues its own thread | `chat_service.py:74-75` | a fallback's reply is stored under the model that served it (`chat.py:813-816`, 871), and the filter (`chat_service.py:79`) drops it from its slot's thread; one model that answers again alone is given everyone's replies (`chat.py:574`, 650) | `OwnThread`, `MCContents` |
| the query returns the previous turns only | `chat.py:647` | the prompt is flushed before and takes one of the places | `HistoryIsPrevious`, `MCContents` |
| regenerate re-answers the last prompt | `README.md:177` | without its files (`chat.py:548`) | `SamePromptAgain`, `MCContents` |
| arena models are distinct | `schemas/chat.py:130` | ids are compared as sent; an alias and its model are one, and a regenerate is not compared | `ArenaIsDistinct`, `MCContents` |
| long prompts go to the large-context model | `router.py:25` | a coding keyword is looked at first (156) | `LongGoesToLongContext`, `MCContents` |
| the reason shown is the intent of the choice | `chat.py:685-686` | a regenerate reads the prompt twice; an edit in between makes them differ | `ReasonFitsModel`, `MCContents` |
| a plan fits the balance | `chat_service.py:169-170` | the plan has an estimate of four characters to a token and 64 tokens for all instructions (`chat_service.py:172`); the provider's count is what is billed, and a fallback may be dearer: one socket overdraws without a race | `TurnIsCovered`, `MCContents` |
| never served by one model and billed at another's rate | `README.md:79-80` | a fallback's name comes with the final message only (`claude_adapter.py:151`) | `ServedIsBilled`, `MCContents` |
| bill for whatever was produced | `chat.py:805` | without a usage report, thinking is not counted (806) | `ProducedIsCharged`, `MCContents` |
| what is not configured is hidden | `README.md:135` | a Google key file that is missing (`tts.py:166`) and a D-ID key of the wrong form (`config.py:224`) are shown as enabled; the worker fails and refunds | `EnabledCanWork`, `MCContents` |
| an unlisted Google voice is priced at the Neural2 rate | `tts.py:177-178` | `Chirp3` in its name makes it the dearer rate (`tts.py:81`) | `UnlistedAtNeural2`, `MCContents` |
| a missing key disables that one feature | `README.md:133` | the endpoints look at no key; the worker fails and refunds | `MissingKeyDisables`, `MCContents` |
| every voice the endpoints accept is listed | `media.py:80` | every well-formed Google name is accepted (`tts.py:179`) | `AcceptedIsListed`, `MCContents` |

What the code does keep is stated beside each: `OverdraftIsBounded` (the wallet goes below zero only by a turn that
another charge overtook, or by no more than what one turn's replies cost beyond their shares),
`LockoutNeedsARace` (no single request removes the last administrator), `RevokedIsDead`, `GivenIsConversation` (the
thread of a model is what is stored under its name), `SpokenIsCharged` (the rate of a voice goes by its name),
`ShownIsAble` (outside the half-configured settings a button is shown exactly where it can work), and in
`BillIsInBounds` the bound that does hold: the balance and what the plan could not foresee (`Unforeseen`), which is what
is counted above the estimate of the prompt, what is counted above a reply's ceiling, and the difference of a dearer
serving model.

## What is proved

Every safety invariant and action property of the passing runs is a theorem; liveness is not, as the end of this
section says. The theorems hold for every value of the constants that the named assumptions admit: any number of
accounts, handlers, workers, sockets, requests, faults and amounts. Most of the properties are not inductive, and
what each needs beside itself is the argument for why the code is right.

**`PaymentsProofs`** (`RefAssumption`, `NilAssumption`, `AmountAssumption`, `BoundAssumption`, `NoWalletAssumption`):
the type invariant, `AtMostOnce`, `GrantedAsSold`, `AckedIsCredited`, `PaymentSettlesOneOrder`, `WalletIsLedger`,
`ReceiptsAreFinal` and the implementation of `Settlement`. `IInv` adds what a handler in the middle of its work
knows: two handlers never hold one row (`LocksExclusive`); a handler that is about to credit works on a paid purchase
of its own user, at its own price, that was not granted yet (`HandlerOK`); row, gateway and history agree (`RowOK`,
`AckOK`). The crux is `Commit`: exclusivity gives that nobody else can be about to grant the same purchase,
`HandlerOK` that it was not granted. That the wallets add up (`Ledger`) then needs that the committed balance was
computed from the wallet as it still is, which is the wallet row's lock, and that the purchase enters the sum once,
which is `AtMostOnce` again.

**`MediaJobsProofs`** (`JobAssumption`, `AmountAssumption`, `AttemptAssumption`, `BoundAssumption`,
`NoWalletAssumption`): the type invariant, `NothingForgotten`, `DeliveredOrRefunded`, `StatusIsTrue`,
`WalletIsLedger` and `ChargesAreCovered`. `MInv` is the conjunction of four parts, each proved by its own lemma.
*Money*: one endpoint holds a wallet row, and what it will commit is covered; it gives `ChargesAreCovered`. *Shape*:
what a task has been through (`WorkerOK`), and that only published jobs have tasks. `NothingForgotten` is inductive
beside Shape: the attempt a task carries stays within its bound, so whoever drops a task leaves a successor or an
outcome, and a death puts the task back. The only excuse is a fault of the job itself, its lost task or its refused
poll (`Remembered`): `RememberKept` says once that a step which leaves such a thing behind for the job whose task it
drops forgets no other. *Single*: while no worker has died, a job has at most one task, waiting or running
(`OneTask`), and a job with a task has no outcome yet (`Open`); only the step that ends the task adds one, so there
is never a second. The lemma `SoundTurned` says this once for all steps of a task. `Ledger` adds that a request that
was not charged belongs to nobody and that only published jobs are refunded (`Unpaid`); each commit, refund and
deletion changes one job's term of the sum (`TotalMoves`).

**`AccountsProofs`** (`Assumptions` of Accounts) and **`RequestsProofs`** (`RequestsAssumption`). The invariant of
`MCRequests` is `Whole`, one conjunct for each component of the sum:

* *Accounts*, `AInv`: the type invariant, `LinkAdmitsOnce`, `AccountIsWhole`, `InactiveIsOut`, and beside them that a
  link admits nobody before it is mailed and nobody again once its key is gone (`LinkOK`), that the accounts in
  `shut` are still inactive or deleted (`ShutOK`), and what a request in flight has read (`Ready`): without it a
  request at its write could name no account, or one it had not found active. Most steps only move their request, and
  `FinishMoves`, `GoMoves` and `RetryMoves` say once what that does.
* *Administration*, `AdmInv`, gives `LockoutNeedsARace`. Its part `Uncrossed` says that until a save has taken away
  what let another request in, an administrator exists and what let each request in flight in still holds by the rows
  as they are when it commits (`LetIn`): the guard on the caller's own row then protects the last one.
* *ChatRows*, `RowsInv`, gives `RevokedIsDead`. A token about to be written was returned to nobody, is not in the
  row and no other request holds it (`Fresh`), and where an unshare has found no link to clear, the one in the row is
  none its owner knew (`Clears`); so no request in flight can bring a revoked link back.
* *Packages*, `PkgInv`, gives the action property `OnlyAskedChanges`: a request holds the row it has loaded, so the
  columns written are those in which its form differs from that row, and rows are never removed. The property names
  the request that commits, and covers every column.

A theorem of a component about its own `Spec` says nothing, formally, about the sum, whose behaviours are of another
specification; so each component contributes its two non-temporal lemmas, initial states and steps, and the temporal
step is taken once, for the `Spec` that TLC checks.

**`ChatTurnProofs`** (`ChatAssumption`, `KindAssumption`, `CostAssumption`, `BoundAssumption`,
`NoWalletAssumption`): the type invariant, `ChargedIsStored`, `InterruptedOnlyIfAsked`, `RepliesFollowPrompt`,
`OverdraftIsBounded`, and for one socket the implementation of `Conversation`. In `Inv`, `Local` is what a turn in
progress knows of its own session, chat, models and stop event, whoever else acts (a stop that is set was asked for
in this turn, since `start` renewed the event); `Prompt` says that where its prompt is stored it is a user message
of its chat, and that until its commit no row and no other turn has the prompt's identifier; `Money` is
`ChargedIsStored`; `Funds` is the argument about overdrafts: while nothing was charged beside the turn, the balance
is at least what it read, less one share for each slot that has settled (`Left`), less what its replies cost beyond
their shares (`overrun`); the shares add up to no more than what was read. Nothing is assumed of a cost. The
refinement adds, for one socket (`One`), that no row outlives its chat, that a prompt is nobody's reply, and that
what an edit selected is still all there is when it commits: exactly what a second socket can break
(`NoReplyLeftBehind`).

**`ContentsProofs`** (`ContentsAssumption`): `GivenIsConversation` (for any limit and number of rows, edits, answers
and expiries), `HighestScoreWins` (for all scores, ties resolved by the code's order), `BillIsInBounds` (for all
balances, plans, streams, fallbacks at any price and counts that the providers report or leave out),
`ChargedIsDelivered` and `ShownIsAble` (for all texts, options and settings). For the conversation, every turn
begins with the rows before a prompt and the prompt (`Begun`), of which load_history keeps what it would have kept
of the rows before, one place fewer, and then the prompt, if that has text: so dropping the last message when it is
the stored copy of the prompt drops exactly that copy, or, where the prompt is only files, nothing (`PromptedIs`).
Replies come after it and change neither, whichever model they are stored under (`ReplyInv`). For the bill, `GenInv`
keeps of each slot what it shows, counts and is named (`SlotIs`), and that its prompt and its output limit cost no
more than its share of the balance (`InShare`); a turn's bill is a sum over its slots, bounded by the sum of the
shares, which is at most the balance (`SumOfShares`), plus what each reply's counts and prices exceed the plan by
(`Beyond`). One proof corrected its property: a turn that was refused has no slots and its bill of zero is not below
an overdrawn balance, so `CostIsBounded` speaks of turns that were planned.

The same module proves the type invariant of the sum (`TypeCorrect`): a routed turn has one to three registered
models, a slot has between 512 tokens and its model's limit, and nothing that is accepted costs nothing, which is a
fact about the price list (`NothingIsFree`). It assumes that a client may leave the text and the model out.

And it proves `OneConversation` (`OneConversationCarried`), for conversations and prompts of any length. That only
the last message, a user's, has attachments is all that the invariant adds (`WrInv`). What `split_system` keeps of
the increasing message numbers is increasing and is every message that has something (`KeepSorted`,
`SplitSystemIs`), and the parts of one message are each there once (`IsOf`, `Joined`). OpenAI and Gemini are sent a
turn for each message kept (`Separate`). For Claude, a message extends the last turn or opens one after it; either
keeps every part of the messages so far in its place, once, and the roles alternating (`Extended`, `MergeGood`,
`AppendGood`), and the whole is good because there is no first message after which it is not (`ClaudeGood`). The
message added last stands in the last turn (`Ends`): that is the prompt.

**`RateLimitProofs`** (`LimitAssumption`): `SlidingBound`, for any limit and window. The invariant says that there is
a second, at most a window back, since which the counter has counted every allowed hit, and before which, within the
window, at most one limit's worth was allowed (`Began`). It survives an expiry because EXPIRE always grants a whole
window: when the counter is dropped, the second has left the window, or the hits since it are themselves at most one
limit.

**`SumsAndLists`** says what `SumFunctionOnSet` does when a term is added, taken away or changed, and how a sum over an
interval splits and shifts, and what `Keep`, which is a recursive function, does to a list that grows or increases.
Induction on sets is done in first-order logic: of the sizes at which a statement fails there would be a least one
(`LeastNumber`, from the well-foundedness of the naturals), and removing one element refutes it; a recursive function
exists because there is no least length without one (`RunExists`). No theorem that takes an operator as a parameter is
used.

Only model-checked, and why:

* liveness (`PaidIsCredited`, `RequestsFinish`, `EveryJobSettles`, `TurnEnds`, `CounterResets`): it rests on fairness,
  hence on ENABLED, which the provers do not treat;
* the promises the code does not keep, which are refuted on the instances above.

## Not modelled

File processing (parsing of uploads), storage and email (clients without shared state), statistics and histories
(read-only queries), and the application shell except for the feature flags. Of the modelled parts: the upload of an
avatar's picture (it writes one object), names, preferences and pictures of users (plain column writes), the wording
of titles, the Redis history list (written by turns and read by nothing), the HTTP exchange with a provider beyond its
outcomes. Celery's hard time limit and an exception between a task's commit and its return are not actions: the soft
limit raises inside the task and takes the failure path modelled, and both have the effect of a worker death at that
point. A WebSocket's frames arrive in order, and one account's sockets only are modelled, as every statement of a turn
is restricted to the account's own rows.

## Plan

1. `Billing`, `Payments`, `Settlement`, `PaymentsProofs`; `MediaJobs`, `MediaJobsProofs`. Done.
2. `ChatTurn` and `Conversation`; `Accounts`, `Administration`, `ChatRows`, `Packages`; `RateLimit`; `Routing`,
   `Context`, `Generation`, `Wire`, `MediaPrices`. Done.
3. Proofs about them, of every component, as listed above. Done.
4. An abstract job (`Charge`, then `Deliver` or `Refund`) implemented by `MediaJobs` without worker deaths: left; what
   it would promise is proved as `DeliveredOrRefunded`, `StatusIsTrue` and `WalletIsLedger`.
