----------------------------- MODULE MediaJobs -----------------------------
(***************************************************************************)
(* Speech, image and avatar-video generation: the endpoints of             *)
(* app/api/v1/endpoints/media.py, which charge and then publish a task,    *)
(* and the Celery tasks of app/workers/tasks.py, which deliver the asset   *)
(* or give the credits back.                                               *)
(*                                                                         *)
(* A job is one paid request.  A task is a pair <<job, attempt>>: attempt  *)
(* 0 generates, attempt n > 0 is the n-th poll of an avatar's render.  The *)
(* broker keeps a task until the worker acknowledges it at its end, so the *)
(* death of a worker puts the task back.                                   *)
(*                                                                         *)
(* A definition named Slip... is the one after it with a plausible         *)
(* mistake; no action uses it.                                             *)
(***************************************************************************)
EXTENDS Billing, Functions

CONSTANTS
    User,              \* accounts
    Message,           \* chat messages that can be read aloud
    Job,               \* requests for an asset
    Avatar,            \* the jobs that ask for an avatar video
    Worker,            \* Celery processes, one task at a time each
    Amount,            \* numbers of credits a job or a charge can cost
    MaxAttempts,       \* DID_POLL_MAX_ATTEMPTS
    Opening,           \* balance of every wallet at the start
    MaxSpend,          \* bound: credits an account is charged elsewhere
    MaxDeaths,         \* bound: worker processes that die in a task
    MaxLost,           \* bound: jobs whose charge is not followed by their task
    MaxRefused,        \* bound: tasks the broker refuses to take from a worker
    MaxFailed,         \* bound: refunds the database refuses
    Nil                \* NULL: no account, job or message

ASSUME JobAssumption == Avatar \subseteq Job /\ Nil \notin Job \cup User \cup Message
ASSUME AmountAssumption == Amount \subseteq Nat \ {0}
ASSUME AttemptAssumption == MaxAttempts \in Nat \ {0}
ASSUME BoundAssumption ==
    Opening \in Nat /\ {MaxSpend, MaxDeaths, MaxLost, MaxRefused, MaxFailed} \subseteq Nat

VARIABLES
    member,     \* accounts that exist
    message,    \* messages that exist
    wallet,     \* the committed wallets table
    call,       \* Job -> progress and locals of the endpoint that serves it
    queue,      \* tasks in the broker: how many copies of each
    worker,     \* Worker -> the task it runs and how far it is
    rows,       \* Job -> its rows in generated_audio or generated_images
    video,      \* Job -> status of its row in generated_videos
    delivered,  \* history: how often the asset was committed
    refunded,   \* history: how often the charge was given back
    reported,   \* history: jobs with a REFUND FAILED line in the log
    spent,      \* history: credits an account was charged elsewhere
    faults      \* how often each kind of fault happened, and whose poll was refused

vars == <<member, message, wallet, call, queue, worker, rows, video,
          delivered, refunded, reported, spent, faults>>
asset == <<rows, video, delivered>>

Task == Job \X (0..MaxAttempts)
NoCall == [pc |-> "none", user |-> Nil, cost |-> 0, source |-> Nil, bal |-> 0]
Free   == [pc |-> "idle", job |-> Nil, attempt |-> 0]
Call == [pc : {"none", "asked", "reserved", "charged", "published", "lost"},
         user : User \cup {Nil}, cost : Amount \cup {0},
         source : Message \cup {Nil}, bal : Int]
Process == [pc : {"idle", "generate", "store", "submit", "handoff", "check", "finish",
                  "again", "fail", "refund", "ack"},
            job : Job \cup {Nil}, attempt : 0..MaxAttempts]
Faults == [deaths : 0..MaxDeaths, lost : 0..MaxLost, refused : 0..MaxRefused,
           failed : 0..MaxFailed, dropped : SUBSET Job]

TypeOK ==
    /\ member \subseteq User
    /\ message \subseteq Message
    /\ wallet \in [User -> Balance]
    /\ call \in [Job -> Call]
    /\ \A j \in Job : call[j].pc # "none" => call[j].user \in User /\ call[j].cost \in Amount
    /\ queue \in [Task -> Nat]
    /\ worker \in [Worker -> Process]
    /\ \A w \in Worker : worker[w].pc # "idle" => worker[w].job \in Job
    /\ rows \in [Job -> Nat]
    /\ video \in [Job -> {"absent", "processing", "external", "completed", "failed"}]
    /\ delivered \in [Job -> Nat]
    /\ refunded \in [Job -> Nat]
    /\ reported \subseteq Job
    /\ spent \in [User -> Nat]
    /\ faults \in Faults

Init ==
    /\ member = User
    /\ message = Message
    /\ wallet = [u \in User |-> Opening]
    /\ call = [j \in Job |-> NoCall]
    /\ queue = [t \in Task |-> 0]
    /\ worker = [w \in Worker |-> Free]
    /\ rows = [j \in Job |-> 0]
    /\ video = [j \in Job |-> "absent"]
    /\ delivered = [j \in Job |-> 0]
    /\ refunded = [j \in Job |-> 0]
    /\ reported = {}
    /\ spent = [u \in User |-> 0]
    /\ faults = [deaths |-> 0, lost |-> 0, refused |-> 0, failed |-> 0,
                 dropped |-> {}]

-----------------------------------------------------------------------------
(* The endpoint.                                                           *)

SlipTwice(t) == [queue EXCEPT ![t] = @ + 2]

\* One more copy of a task in the broker.
Enqueue(t) == [queue EXCEPT ![t] = @ + 1]

Reach(j, pc) == call' = [call EXCEPT ![j].pc = pc]

SlipUnlocked(u) == FALSE

\* Some endpoint has run its UPDATE of the wallet and not committed.
WalletLocked(u) == \E j \in Job : call[j].pc = "reserved" /\ call[j].user = u

\* The message has an audio row already: the answer is that row, for free.
HasAudio(m) == \E j \in Job : call[j].source = m /\ rows[j] > 0

\* A validated request, with its price; reading a message aloud (m # Nil)
\* needs the message and no audio of it.
Ask(j, u, c, m) ==
    /\ call[j].pc = "none"
    /\ u \in member
    /\ m # Nil => j \notin Avatar /\ m \in message /\ ~HasAudio(m)
    /\ call' = [call EXCEPT ![j] = [pc |-> "asked", user |-> u, cost |-> c,
                                    source |-> m, bal |-> 0]]
    /\ UNCHANGED <<member, message, wallet, queue, worker, asset, refunded, reported, spent, faults>>

SlipOverdraft(u, c) == CanDebit(wallet, u, c, TRUE)

CanReserve(u, c) == CanDebit(wallet, u, c, FALSE)

\* _reserve_credits: the conditional UPDATE holds the wallet row until the
\* commit; without the credits the answer is a 402.
ReserveCredits(j) ==
    LET u == call[j].user
        c == call[j].cost IN
    /\ call[j].pc = "asked"
    /\ ~WalletLocked(u)
    /\ IF CanReserve(u, c)
       THEN call' = [call EXCEPT ![j] = [pc |-> "reserved", user |-> u, cost |-> c,
                        source |-> call[j].source, bal |-> Debit(wallet, u, c)[u]]]
       ELSE call' = [call EXCEPT ![j] = NoCall]
    /\ UNCHANGED <<member, message, wallet, queue, worker, asset, refunded, reported, spent, faults>>

\* The charge is committed, with the row of an avatar video.
CommitCharge(j) ==
    /\ call[j].pc = "reserved"
    /\ wallet' = [wallet EXCEPT ![call[j].user] = call[j].bal]
    /\ video' = IF j \in Avatar THEN [video EXCEPT ![j] = "processing"] ELSE video
    /\ Reach(j, "charged")
    /\ UNCHANGED <<member, message, queue, worker, rows, delivered, refunded, reported, spent, faults>>

\* .delay() hands the task to the broker.
Publish(j) ==
    /\ call[j].pc = "charged"
    /\ queue' = Enqueue(<<j, 0>>)
    /\ Reach(j, "published")
    /\ UNCHANGED <<member, message, wallet, worker, asset, refunded, reported, spent, faults>>

\* The API process dies, or the broker refuses the task: a charge that is not
\* committed is rolled back, one that is stays.
LoseCall(j) ==
    /\ call[j].pc \in {"asked", "reserved", "charged"}
    /\ faults.lost < MaxLost
    /\ faults' = [faults EXCEPT !.lost = @ + 1]
    /\ IF call[j].pc = "charged" THEN Reach(j, "lost")
                                 ELSE call' = [call EXCEPT ![j] = NoCall]
    /\ UNCHANGED <<member, message, wallet, queue, worker, asset, refunded, reported, spent>>

-----------------------------------------------------------------------------
(* The worker.                                                             *)

Turn(w, pc) == worker' = [worker EXCEPT ![w].pc = pc]

\* The broker gives a task to a free worker, and remembers it.
Receive(w, j, n) ==
    /\ worker[w].pc = "idle"
    /\ queue[<<j, n>>] > 0
    /\ queue' = [queue EXCEPT ![<<j, n>>] = @ - 1]
    /\ worker' = [worker EXCEPT ![w] =
          [pc |-> IF n = 0 THEN "generate" ELSE "check", job |-> j, attempt |-> n]]
    /\ UNCHANGED <<member, message, wallet, call, asset, refunded, reported, spent, faults>>

\* The task has returned or raised, and is acknowledged.
Acknowledge(w) ==
    /\ worker[w].pc = "ack"
    /\ worker' = [worker EXCEPT ![w] = Free]
    /\ UNCHANGED <<member, message, wallet, call, queue, asset, refunded, reported, spent, faults>>

\* The providers, the download and the storage work, or one of them raises.
Generate(w, ok) ==
    /\ worker[w].pc = "generate"
    /\ Turn(w, IF ~ok THEN "fail"
               ELSE IF worker[w].job \in Avatar THEN "submit" ELSE "store")
    /\ UNCHANGED <<member, message, wallet, call, queue, asset, refunded, reported, spent, faults>>

\* The foreign keys of an asset row: its account and its source message.
MayStore(j) ==
    /\ call[j].user \in member
    /\ call[j].source \in message \cup {Nil}

\* The row of the audio or image is inserted, or the insert raises.
StoreAsset(w) ==
    LET j == worker[w].job IN
    /\ worker[w].pc = "store"
    /\ IF MayStore(j)
       THEN /\ rows' = [rows EXCEPT ![j] = @ + 1]
            /\ delivered' = [delivered EXCEPT ![j] = @ + 1]
            /\ Turn(w, "ack")
       ELSE Turn(w, "fail") /\ UNCHANGED <<rows, delivered>>
    /\ UNCHANGED <<member, message, wallet, call, queue, video, refunded, reported, spent, faults>>

\* The submitted render is noted on the video row, which may have disappeared.
SubmitTalk(w) ==
    LET j == worker[w].job IN
    /\ worker[w].pc = "submit"
    /\ IF video[j] # "absent"
       THEN video' = [video EXCEPT ![j] = "external"] /\ Turn(w, "handoff")
       ELSE Turn(w, "fail") /\ UNCHANGED video
    /\ UNCHANGED <<member, message, wallet, call, queue, rows, delivered, refunded, reported, spent, faults>>

\* The arguments of the next poll.
Following(w) == <<worker[w].job, worker[w].attempt + 1>>

\* apply_async of the next poll: the first one, or one more.
NextPoll(w) ==
    /\ worker[w].pc \in {"handoff", "again"}
    /\ queue' = Enqueue(Following(w))
    /\ Turn(w, "ack")
    /\ UNCHANGED <<member, message, wallet, call, asset, refunded, reported, spent, faults>>

\* The broker refuses the poll.  The submission catches the error; a poll is
\* outside its try block by then, so the error ends the task.
PollRefused(w) ==
    /\ worker[w].pc \in {"handoff", "again"}
    /\ faults.refused < MaxRefused
    /\ IF worker[w].pc = "handoff"
       THEN /\ faults' = [faults EXCEPT !.refused = @ + 1]
            /\ Turn(w, "fail")
       ELSE /\ faults' = [faults EXCEPT !.refused = @ + 1, !.dropped = @ \cup {worker[w].job}]
            /\ Turn(w, "ack")
    /\ UNCHANGED <<member, message, wallet, call, queue, asset, refunded, reported, spent>>

\* The last check a render gets.
Exhausted(n) == n >= MaxAttempts

SlipGiveUp(w) == Turn(w, IF Exhausted(worker[w].attempt) THEN "ack" ELSE "again")

\* Try once more, or give the render up.
Retry(w) == Turn(w, IF Exhausted(worker[w].attempt) THEN "fail" ELSE "again")

\* check_status: done, failed (or any answer other than 200), still running;
\* the request, the download or the upload of the result may raise instead.
CheckStatus(w, answer) ==
    /\ worker[w].pc = "check"
    /\ \/ answer = "done" /\ Turn(w, "finish")
       \/ answer = "error" /\ Turn(w, "fail")
       \/ answer \in {"running", "raise"} /\ Retry(w)
    /\ UNCHANGED <<member, message, wallet, call, queue, asset, refunded, reported, spent, faults>>

\* The rendered video is committed; a row that has disappeared raises.
FinishVideo(w) ==
    LET j == worker[w].job IN
    /\ worker[w].pc = "finish"
    /\ IF video[j] # "absent"
       THEN /\ video' = [video EXCEPT ![j] = "completed"]
            /\ delivered' = [delivered EXCEPT ![j] = @ + 1]
            /\ Turn(w, "ack")
       ELSE Retry(w) /\ UNCHANGED <<video, delivered>>
    /\ UNCHANGED <<member, message, wallet, call, queue, rows, refunded, reported, spent, faults>>

SlipAutoRetry(w) ==
    LET j == worker[w].job IN
    /\ worker[w].pc = "fail"
    /\ video' = IF video[j] # "absent" THEN [video EXCEPT ![j] = "failed"] ELSE video
    /\ queue' = Enqueue(<<j, worker[w].attempt>>)
    /\ Turn(w, "refund")
    /\ UNCHANGED <<member, message, wallet, call, rows, delivered, refunded, reported, spent, faults>>

\* _fail_video marks the row in a transaction of its own; a tts or image task
\* has nothing to mark.
MarkFailed(w) ==
    LET j == worker[w].job IN
    /\ worker[w].pc = "fail"
    /\ video' = IF video[j] # "absent" THEN [video EXCEPT ![j] = "failed"] ELSE video
    /\ Turn(w, "refund")
    /\ UNCHANGED <<member, message, wallet, call, queue, rows, delivered, refunded, reported, spent, faults>>

\* _refund: the upsert and its commit; without the account it is an error,
\* and errors are reported in the log.
Refund(w) ==
    LET j == worker[w].job
        u == call[j].user IN
    /\ worker[w].pc = "refund"
    /\ ~WalletLocked(u)
    /\ IF u \in member
       THEN /\ wallet' = Credit(wallet, u, call[j].cost)
            /\ refunded' = [refunded EXCEPT ![j] = @ + 1]
            /\ UNCHANGED reported
       ELSE reported' = reported \cup {j} /\ UNCHANGED <<wallet, refunded>>
    /\ Turn(w, "ack")
    /\ UNCHANGED <<member, message, call, queue, asset, spent, faults>>

\* The database fails the refund.
RefundFails(w) ==
    /\ worker[w].pc = "refund"
    /\ faults.failed < MaxFailed
    /\ faults' = [faults EXCEPT !.failed = @ + 1]
    /\ reported' = reported \cup {worker[w].job}
    /\ Turn(w, "ack")
    /\ UNCHANGED <<member, message, wallet, call, queue, asset, refunded, spent>>

SlipAcksEarly(w) == queue

\* What the broker does with the task of a process that has gone.
Requeue(w) == Enqueue(<<worker[w].job, worker[w].attempt>>)

\* The process dies in its task: late acknowledgement and reject_on_worker_lost
\* put the task back.
WorkerDies(w) ==
    /\ worker[w].pc # "idle"
    /\ faults.deaths < MaxDeaths
    /\ faults' = [faults EXCEPT !.deaths = @ + 1]
    /\ queue' = Requeue(w)
    /\ worker' = [worker EXCEPT ![w] = Free]
    /\ UNCHANGED <<member, message, wallet, call, asset, refunded, reported, spent>>

-----------------------------------------------------------------------------
(* What else happens to the same rows.                                     *)

SlipDeleteMissing(j) ==
    /\ rows' = [rows EXCEPT ![j] = @ - 1]
    /\ UNCHANGED <<member, message, wallet, call, queue, worker, video, delivered, refunded, reported, spent, faults>>

\* The owner deletes an audio, an image or a video, at any time.
DeleteAsset(j) ==
    /\ \/ rows[j] > 0 /\ rows' = [rows EXCEPT ![j] = @ - 1] /\ UNCHANGED video
       \/ video[j] # "absent" /\ video' = [video EXCEPT ![j] = "absent"] /\ UNCHANGED rows
    /\ UNCHANGED <<member, message, wallet, call, queue, worker, delivered, refunded, reported, spent, faults>>

\* A chat message goes (a deleted chat, an edited turn); the foreign key keeps
\* one that has an audio row.
DeleteMessage(m) ==
    /\ m \in message
    /\ ~HasAudio(m)
    /\ message' = message \ {m}
    /\ UNCHANGED <<member, wallet, call, queue, worker, asset, refunded, reported, spent, faults>>

\* The account goes with all its rows, once no endpoint holds its wallet.
DeleteAccount(u) ==
    /\ u \in member
    /\ ~WalletLocked(u)
    /\ member' = member \ {u}
    /\ wallet' = [wallet EXCEPT ![u] = NoWallet]
    /\ rows' = [j \in Job |-> IF call[j].user = u THEN 0 ELSE rows[j]]
    /\ video' = [j \in Job |-> IF call[j].user = u THEN "absent" ELSE video[j]]
    /\ UNCHANGED <<message, call, queue, worker, delivered, refunded, reported, spent, faults>>

\* A chat reply is charged, by overdraft if need be.
SpendElsewhere(u, a) ==
    /\ u \in member
    /\ spent[u] + a <= MaxSpend
    /\ ~WalletLocked(u)
    /\ CanDebit(wallet, u, a, TRUE)
    /\ wallet' = Debit(wallet, u, a)
    /\ spent' = [spent EXCEPT ![u] = @ + a]
    /\ UNCHANGED <<member, message, call, queue, worker, asset, refunded, reported, faults>>

-----------------------------------------------------------------------------
Serve(j) == ReserveCredits(j) \/ CommitCharge(j) \/ Publish(j)

\* The steps of a task that go on by themselves.
Work(w) ==
    \/ \E ok \in BOOLEAN : Generate(w, ok)
    \/ \E answer \in {"done", "error", "running", "raise"} : CheckStatus(w, answer)
    \/ StoreAsset(w)
    \/ SubmitTalk(w)
    \/ NextPoll(w)
    \/ FinishVideo(w)
    \/ MarkFailed(w)
    \/ Refund(w)
    \/ Acknowledge(w)

Fault ==
    \/ \E j \in Job : LoseCall(j)
    \/ \E w \in Worker : PollRefused(w) \/ RefundFails(w) \/ WorkerDies(w)

Outside ==
    \/ \E j \in Job, u \in User, c \in Amount, m \in Message \cup {Nil} : Ask(j, u, c, m)
    \/ \E j \in Job : DeleteAsset(j)
    \/ \E m \in Message : DeleteMessage(m)
    \/ \E u \in User : DeleteAccount(u) \/ \E a \in Amount : SpendElsewhere(u, a)

Next ==
    \/ \E j \in Job : Serve(j)
    \/ \E w \in Worker, j \in Job, n \in 0..MaxAttempts : Receive(w, j, n)
    \/ \E w \in Worker : Work(w)
    \/ Fault
    \/ Outside

Spec == Init /\ [][Next]_vars

(* An endpoint and a task go on, PostgreSQL grants a row lock in turn, and *)
(* the broker gives every task it holds to a worker.                       *)
Fairness ==
    /\ \A j \in Job : SF_vars(Serve(j))
    /\ \A w \in Worker : SF_vars(Work(w))
    /\ \A j \in Job, n \in 0..MaxAttempts : SF_vars(\E w \in Worker : Receive(w, j, n))

FairSpec == Spec /\ Fairness
-----------------------------------------------------------------------------
(* What must hold.                                                         *)

Charged(j) == call[j].pc \in {"charged", "published", "lost"}

\* The job is in somebody's hands, and will be worked on.
Queued(j) == \E n \in 0..MaxAttempts : queue[<<j, n>>] > 0
Runs(w, j) == worker[w].job = j /\ worker[w].pc \notin {"idle", "ack"}
Running(j) == \E w \in Worker : Runs(w, j)
InHand(j) == call[j].pc = "charged" \/ Queued(j) \/ Running(j)

Settled(j) == delivered[j] + refunded[j] > 0 \/ j \in reported

\* Credits charged for a job are never silently forgotten: until the asset is
\* delivered, the refund committed or its failure reported, a task for the job
\* exists, through any number of worker deaths and whatever is deleted
\* meanwhile (tasks.py:3-4, celery_app.py:39-41).  A job is excepted only for a
\* fault of its own: its task never reached the broker, or the broker refused one
\* of its polls.
Remembered(j) == InHand(j) \/ Settled(j) \/ call[j].pc = "lost" \/ j \in faults.dropped
NothingForgotten == \A j \in Job : Charged(j) => Remembered(j)

\* While no worker dies in a task, an asset is delivered or refunded, never
\* both and never twice, however requests, polls and deletions interleave.
Once(j) == delivered[j] + refunded[j] <= 1
DeliveredOrRefunded == faults.deaths = 0 => \A j \in Job : Once(j)

\* A video marked failed is one that was not delivered, and a completed one
\* was not refunded (same proviso).
StatusTrue(j) ==
    /\ video[j] = "failed" => delivered[j] = 0
    /\ video[j] = "completed" => delivered[j] = 1 /\ refunded[j] = 0
StatusIsTrue == faults.deaths = 0 => \A j \in Job : StatusTrue(j)

\* No update of a wallet is lost between endpoints, refunds and chat charges:
\* the balance is the opening balance minus the charges of committed jobs and
\* of the chat, plus the refunds (billing.py:5-7).
Paid(j) == (IF Charged(j) THEN call[j].cost ELSE 0) - refunded[j] * call[j].cost
WalletIsLedger ==
    \A u \in member :
        wallet[u] = Opening - spent[u]
                    - SumFunctionOnSet([j \in Job |-> Paid(j)], {j \in Job : call[j].user = u})

\* A media charge never takes a balance below zero, even one that a chat reply
\* overdraws (billing.py:10-12).
ChargesAreCovered ==
    [][\A u \in User, j \in Job :
          call[j].user = u /\ call[j].pc = "reserved" /\ call'[j].pc = "charged"
              => wallet'[u] >= 0]_vars

\* Every charged job is settled in the end, also when workers die in it:
\* redelivery and the bound on the polls leave no render processing forever.
EveryJobSettles == \A j \in Job : Charged(j) ~> Settled(j)

-----------------------------------------------------------------------------
(* What the documentation says without the provisos.                       *)

\* "The worker refunds if the job fails, so credits are never taken for an
\* asset that was never delivered" (media.py:4-5): with the faults of tasks
\* that do not reach the broker.
NeverTakenForNothing == \A j \in Job : Charged(j) => InHand(j) \/ Settled(j)

\* "Return credits for work that was paid for but never delivered"
\* (tasks.py:42): with worker deaths.
RefundedOnlyUndelivered ==
    \A j \in Job : delivered[j] > 0 => refunded[j] = 0

-----------------------------------------------------------------------------
(* Why it holds: an invariant that every step preserves.                   *)

\* One endpoint holds a wallet row; what it will commit is the balance minus
\* its charge, and that is covered.
HoldsWallet(j) ==
    LET u == call[j].user IN
    call[j].pc = "reserved" =>
        /\ u \in member
        /\ call[j].bal = wallet[u] - call[j].cost
        /\ call[j].bal >= 0
LocksExclusive ==
    \A i, j \in Job : i # j /\ call[i].pc = "reserved" /\ call[j].pc = "reserved"
                        => call[i].user # call[j].user

\* A task at its place: what it has been through says which job it can be of.
WorkerOK(w) ==
    LET j == worker[w].job
        n == worker[w].attempt IN
    /\ worker[w].pc = "store" => j \notin Avatar
    /\ worker[w].pc \in {"generate", "submit", "handoff"} => n = 0
    /\ worker[w].pc = "again" => n < MaxAttempts
    /\ worker[w].pc # "idle" => call[j].pc = "published"

\* While no worker dies, a published job has at most one task that is waiting
\* or running, and a job with such a task has no outcome yet.
OneTask(j) ==
    /\ \A n \in 0..MaxAttempts : queue[<<j, n>>] <= 1
    /\ \A n, m \in 0..MaxAttempts : queue[<<j, n>>] > 0 /\ queue[<<j, m>>] > 0 => n = m
    /\ \A n \in 0..MaxAttempts, w \in Worker : queue[<<j, n>>] > 0 => ~Runs(w, j)
    /\ \A v, w \in Worker : Runs(v, j) /\ Runs(w, j) => v = w

Open(j) ==
    call[j].pc # "published" \/ Queued(j) \/ Running(j) => delivered[j] = 0 /\ refunded[j] = 0

MInv ==
    /\ TypeOK
    /\ LocksExclusive
    /\ \A j \in Job : HoldsWallet(j)
    /\ \A u \in User : wallet[u] # NoWallet <=> u \in member
    /\ \A w \in Worker : WorkerOK(w)
    /\ \A j \in Job : video[j] # "absent" => j \in Avatar
    /\ \A j \in Job : Queued(j) => call[j].pc = "published"
    /\ NothingForgotten
    /\ faults.deaths = 0 => \A j \in Job : OneTask(j) /\ Open(j) /\ Once(j) /\ StatusTrue(j)
=============================================================================
