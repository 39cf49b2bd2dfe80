-------------------------- MODULE MediaJobsProofs --------------------------
(***************************************************************************)
(* MediaJobs, for any number of accounts, jobs, workers, polls and faults. *)
(***************************************************************************)
EXTENDS MediaJobs, SumsAndLists, TLAPS

Places == {"generate", "store", "submit", "handoff", "check", "finish",
           "again", "fail", "refund", "ack"}

-----------------------------------------------------------------------------
(* Types.                                                                  *)

LEMMA AmountType == \A c \in Amount : c \in Int /\ c > 0
BY AmountAssumption

LEMMA BoundType ==
    /\ Opening \in Int /\ MaxDeaths \in Nat /\ MaxLost \in Nat
    /\ MaxRefused \in Nat /\ MaxFailed \in Nat /\ MaxAttempts \in Nat /\ MaxAttempts >= 1
BY BoundAssumption, AttemptAssumption

\* The statements of billing.py leave every balance an integer or absent.
LEMMA WalletType ==
    ASSUME NEW w \in [User -> Balance], NEW u \in User, NEW a \in Int
    PROVE  /\ Credit(w, u, a) \in [User -> Balance]
           /\ w[u] # NoWallet => Debit(w, u, a) \in [User -> Balance]
           /\ a > 0 /\ w[u] # NoWallet => Debit(w, u, a)[u] = w[u] - a
           /\ a > 0 /\ w[u] # NoWallet => Credit(w, u, a)[u] = w[u] + a
           /\ Credit(w, u, a)[u] = NoWallet => a <= 0
           /\ \A v \in User \ {u} : Debit(w, u, a)[v] = w[v] /\ Credit(w, u, a)[v] = w[v]
<1>1. GetBalance(w, u) \in Int /\ (w[u] # NoWallet => GetBalance(w, u) = w[u] /\ w[u] \in Int)
  BY DEF GetBalance, Balance
<1>2. \A i \in Int : i \in Balance /\ i # NoWallet
  BY NoWalletAssumption DEF Balance
<1>3. CASE a <= 0
  BY <1>3 DEF Credit, Debit
<1>4. CASE a > 0
  <2>1. Credit(w, u, a) = [w EXCEPT ![u] = GetBalance(w, u) + a]
    BY <1>4 DEF Credit
  <2>2. Debit(w, u, a) = [w EXCEPT ![u] = w[u] - a]
    BY <1>4 DEF Debit
  <2>3. GetBalance(w, u) + a \in Int /\ (w[u] # NoWallet => w[u] - a \in Int)
    BY <1>1
  <2> QED
    BY <1>1, <1>2, <1>4, <2>1, <2>2, <2>3
<1> QED
  BY <1>3, <1>4

LEMMA InitType == Init => TypeOK
<1> SUFFICES ASSUME Init
             PROVE  TypeOK
  OBVIOUS
<1>1. wallet \in [User -> Balance]
  BY BoundType DEF Init, Balance
<1>2. faults \in Faults
  BY BoundType DEF Init, Faults
<1>3. call \in [Job -> Call] /\ \A j \in Job : call[j].pc = "none"
  BY DEF Init, NoCall, Call
<1>4. worker \in [Worker -> Process] /\ \A w \in Worker : worker[w].pc = "idle"
  BY BoundType DEF Init, Free, Process
<1>5. queue \in [Task -> Nat]
  BY DEF Init
<1> QED
  BY <1>1, <1>2, <1>3, <1>4, <1>5 DEF Init, TypeOK

\* A task goes to its next statement.
LEMMA Turned ==
    ASSUME worker \in [Worker -> Process], NEW w \in Worker, NEW pc \in Places, Turn(w, pc)
    PROVE  /\ worker' \in [Worker -> Process]
           /\ worker'[w].pc = pc /\ worker'[w].job = worker[w].job
           /\ worker'[w].attempt = worker[w].attempt
           /\ \A v \in Worker \ {w} : worker'[v] = worker[v]
BY DEF Turn, Process, Places

LEMMA Freed ==
    ASSUME worker \in [Worker -> Process], NEW w \in Worker,
           worker' = [worker EXCEPT ![w] = Free]
    PROVE  /\ worker' \in [Worker -> Process]
           /\ worker'[w].pc = "idle"
           /\ \A v \in Worker \ {w} : worker'[v] = worker[v]
BY BoundType DEF Free, Process

\* One copy of a task is added to the broker.
LEMMA Enqueued ==
    ASSUME queue \in [Task -> Nat], NEW j \in Job, NEW n \in 0..MaxAttempts,
           queue' = Enqueue(<<j, n>>)
    PROVE  /\ queue' \in [Task -> Nat]
           /\ queue'[<<j, n>>] = queue[<<j, n>>] + 1
           /\ \A i \in Job, m \in 0..MaxAttempts :
                 i # j \/ m # n => queue'[<<i, m>>] = queue[<<i, m>>]
           /\ \A i \in Job, m \in 0..MaxAttempts : queue[<<i, m>>] \in Nat
BY DEF Enqueue, Task

LEMMA QueueGrows ==
    ASSUME queue \in [Task -> Nat], NEW j \in Job, NEW n \in 0..MaxAttempts,
           queue' = Enqueue(<<j, n>>)
    PROVE  /\ queue'[<<j, n>>] > 0
           /\ \A k \in Job, m \in 0..MaxAttempts : queue[<<k, m>>] > 0 => queue'[<<k, m>>] > 0
<1>1. queue'[<<j, n>>] > 0
  <2>1. queue'[<<j, n>>] = queue[<<j, n>>] + 1 /\ queue[<<j, n>>] \in Nat
    BY Enqueued
  <2> QED
    BY <2>1
<1>2. ASSUME NEW k \in Job, NEW m \in 0..MaxAttempts, queue[<<k, m>>] > 0
      PROVE  queue'[<<k, m>>] > 0
  <2>1. CASE k = j /\ m = n
    BY <1>1, <2>1
  <2>2. CASE k # j \/ m # n
    BY ZenonT(60), <1>2, <2>2, Enqueued
  <2> QED
    BY <2>1, <2>2
<1> QED
  BY <1>1, <1>2

LEMMA EnqueueType ==
    ASSUME queue \in [Task -> Nat], NEW t
    PROVE  Enqueue(t) \in [Task -> Nat]
<1>1. CASE t \in Task
  BY <1>1 DEF Enqueue
<1>2. CASE t \notin Task
  BY <1>2 DEF Enqueue
<1> QED
  BY <1>1, <1>2

\* One copy is taken.
LEMMA Dequeued ==
    ASSUME queue \in [Task -> Nat], NEW j \in Job, NEW n \in 0..MaxAttempts,
           queue[<<j, n>>] > 0,
           queue' = [queue EXCEPT ![<<j, n>>] = @ - 1]
    PROVE  /\ queue' \in [Task -> Nat]
           /\ queue'[<<j, n>>] = queue[<<j, n>>] - 1
           /\ \A i \in Job, m \in 0..MaxAttempts :
                 i # j \/ m # n => queue'[<<i, m>>] = queue[<<i, m>>]
           /\ \A i \in Job, m \in 0..MaxAttempts : queue[<<i, m>>] \in Nat
BY DEF Task

\* An endpoint goes to its next statement.
LEMMA Reached ==
    ASSUME call \in [Job -> Call], NEW j \in Job,
           NEW pc \in {"charged", "published", "lost"}, Reach(j, pc)
    PROVE  /\ call' \in [Job -> Call]
           /\ call'[j].pc = pc /\ call'[j].user = call[j].user /\ call'[j].cost = call[j].cost
           /\ call'[j].source = call[j].source /\ call'[j].bal = call[j].bal
           /\ \A i \in Job \ {j} : call'[i] = call[i]
BY DEF Reach, Call

-----------------------------------------------------------------------------
LEMMA StepType == TypeOK /\ [Next]_vars => TypeOK'
<1> SUFFICES ASSUME TypeOK, [Next]_vars
             PROVE  TypeOK'
  OBVIOUS
<1>t. /\ wallet \in [User -> Balance] /\ call \in [Job -> Call]
      /\ queue \in [Task -> Nat] /\ worker \in [Worker -> Process]
      /\ rows \in [Job -> Nat] /\ delivered \in [Job -> Nat] /\ refunded \in [Job -> Nat]
      /\ video \in [Job -> {"absent", "processing", "external", "completed", "failed"}]
      /\ spent \in [User -> Nat]
      /\ \A j \in Job : call[j].pc # "none" => call[j].user \in User /\ call[j].cost \in Amount
      /\ \A w \in Worker : worker[w].pc # "idle" => worker[w].job \in Job
      /\ \A w \in Worker : worker[w].attempt \in 0..MaxAttempts
  BY DEF TypeOK, Process
<1>f. /\ faults \in Faults
      /\ faults.lost < MaxLost => [faults EXCEPT !.lost = @ + 1] \in Faults
      /\ faults.refused < MaxRefused => [faults EXCEPT !.refused = @ + 1] \in Faults
      /\ faults.failed < MaxFailed => [faults EXCEPT !.failed = @ + 1] \in Faults
      /\ faults.deaths < MaxDeaths => [faults EXCEPT !.deaths = @ + 1] \in Faults
      /\ \A j \in Job : faults.refused < MaxRefused =>
            [faults EXCEPT !.refused = @ + 1, !.dropped = @ \cup {j}] \in Faults
  <2>1. faults \in Faults
    BY DEF TypeOK
  <2>2. faults.lost < MaxLost => [faults EXCEPT !.lost = @ + 1] \in Faults
    BY <2>1, BoundType DEF Faults
  <2>3. faults.refused < MaxRefused => [faults EXCEPT !.refused = @ + 1] \in Faults
    BY <2>1, BoundType DEF Faults
  <2>4. faults.failed < MaxFailed => [faults EXCEPT !.failed = @ + 1] \in Faults
    BY <2>1, BoundType DEF Faults
  <2>5. faults.deaths < MaxDeaths => [faults EXCEPT !.deaths = @ + 1] \in Faults
    BY <2>1, BoundType DEF Faults
  <2>6. ASSUME NEW j \in Job, faults.refused < MaxRefused
        PROVE  [faults EXCEPT !.refused = @ + 1, !.dropped = @ \cup {j}] \in Faults
    <3>1. faults.refused + 1 \in 0..MaxRefused /\ faults.dropped \cup {j} \in SUBSET Job
      BY <2>1, <2>6, BoundType DEF Faults
    <3> QED
      BY <2>1, <3>1 DEF Faults
  <2> QED
    BY <2>1, <2>2, <2>3, <2>4, <2>5, <2>6
<1>w. ASSUME NEW w \in Worker, NEW pc \in Places, Turn(w, pc), worker[w].pc # "idle"
      PROVE  worker' \in [Worker -> Process] /\ \A v \in Worker : worker'[v].pc # "idle" => worker'[v].job \in Job
  <2>1. worker' \in [Worker -> Process] /\ worker'[w].job = worker[w].job
        /\ \A v \in Worker \ {w} : worker'[v] = worker[v]
    BY <1>w, <1>t, Turned
  <2> QED
    BY <2>1, <1>w, <1>t
<1>1. ASSUME NEW j \in Job, Serve(j)
      PROVE  TypeOK'
  <2> DEFINE u == call[j].user
             c == call[j].cost
  <2>1. CASE ReserveCredits(j)
    <3>1. u \in User /\ c \in Amount /\ c \in Int /\ c > 0
      BY <2>1, <1>t, AmountType DEF ReserveCredits
    <3>2. CASE CanReserve(u, c)
      <4>1. wallet[u] # NoWallet
        BY <3>1, <3>2 DEF CanReserve, CanDebit
      <4>2. Debit(wallet, u, c)[u] \in Int
        <5>1. Debit(wallet, u, c)[u] = wallet[u] - c /\ wallet[u] \in Int
          BY ZenonT(60), <3>1, <4>1, <1>t, WalletType DEF Balance
        <5> QED
          BY <5>1, <3>1
      <4> DEFINE d == Debit(wallet, u, c)[u]
                 x == [pc |-> "reserved", user |-> u, cost |-> c,
                       source |-> call[j].source, bal |-> d]
      <4>4. x \in Call
        BY <4>2, <3>1, <1>t DEF Call
      <4>5. call' = [call EXCEPT ![j] = x]
        BY <2>1, <3>2 DEF ReserveCredits
      <4>6. call' \in [Job -> Call] /\ call'[j] = x /\ \A i \in Job \ {j} : call'[i] = call[i]
        BY <4>4, <4>5, <1>t
      <4>7. \A i \in Job : call'[i].pc # "none" => call'[i].user \in User /\ call'[i].cost \in Amount
        BY <4>6, <3>1, <1>t
      <4> QED
        BY <2>1, <4>6, <4>7 DEF ReserveCredits, TypeOK, asset
    <3>3. CASE ~CanReserve(u, c)
      <4>1. NoCall \in Call /\ NoCall.pc = "none"
        BY DEF NoCall, Call
      <4>2. call' = [call EXCEPT ![j] = NoCall]
        BY <2>1, <3>3 DEF ReserveCredits
      <4> QED
        BY <2>1, <4>1, <4>2 DEF ReserveCredits, TypeOK, asset
    <3> QED
      BY <3>2, <3>3
  <2>2. CASE CommitCharge(j)
    <3>1. /\ call' \in [Job -> Call]
          /\ \A i \in Job : call'[i].pc # "none" => call'[i].user \in User /\ call'[i].cost \in Amount
      <4>1. Reach(j, "charged") /\ call[j].pc = "reserved"
        BY <2>2 DEF CommitCharge
      <4>2. /\ call' \in [Job -> Call] /\ call'[j].user = u /\ call'[j].cost = c
            /\ \A i \in Job \ {j} : call'[i] = call[i]
        BY <4>1, <1>t, Reached
      <4> QED
        BY <4>1, <4>2, <1>t
    <3>2. wallet' \in [User -> Balance]
      BY <2>2, <1>t DEF CommitCharge, Call, Balance
    <3> QED
      BY <2>2, <3>1, <3>2 DEF CommitCharge, TypeOK
  <2>3. CASE Publish(j)
    <3>1. /\ call' \in [Job -> Call]
          /\ \A i \in Job : call'[i].pc # "none" => call'[i].user \in User /\ call'[i].cost \in Amount
      <4>1. Reach(j, "published") /\ call[j].pc = "charged"
        BY <2>3 DEF Publish
      <4>2. /\ call' \in [Job -> Call] /\ call'[j].user = u /\ call'[j].cost = c
            /\ \A i \in Job \ {j} : call'[i] = call[i]
        BY <4>1, <1>t, Reached
      <4> QED
        BY <4>1, <4>2, <1>t
    <3>2. queue' \in [Task -> Nat]
      <4>1. 0 \in 0..MaxAttempts /\ queue' = Enqueue(<<j, 0>>)
        BY <2>3, BoundType DEF Publish
      <4> QED
        BY <4>1, <1>t, Enqueued
    <3> QED
      BY <2>3, <3>1, <3>2 DEF Publish, TypeOK, asset
  <2> QED
    BY <1>1, <2>1, <2>2, <2>3 DEF Serve
<1>2. ASSUME NEW w \in Worker, NEW j \in Job, NEW n \in 0..MaxAttempts, Receive(w, j, n)
      PROVE  TypeOK'
  <2>1. queue' \in [Task -> Nat]
    BY <1>2, <1>t, Dequeued DEF Receive
  <2>2. [pc |-> IF n = 0 THEN "generate" ELSE "check", job |-> j, attempt |-> n] \in Process
    BY DEF Process
  <2>3. worker' \in [Worker -> Process] /\ \A v \in Worker : worker'[v].pc # "idle" => worker'[v].job \in Job
    BY <1>2, <2>2, <1>t DEF Receive
  <2> QED
    BY <1>2, <2>1, <2>3 DEF Receive, TypeOK, asset
<1>3. ASSUME NEW w \in Worker, Work(w)
      PROVE  TypeOK'
  <2> DEFINE j == worker[w].job
             n == worker[w].attempt
  <2>1. CASE Acknowledge(w)
    <3>1. worker' = [worker EXCEPT ![w] = Free]
      BY <2>1 DEF Acknowledge
    <3>2. worker' \in [Worker -> Process] /\ \A v \in Worker : worker'[v].pc # "idle" => worker'[v].job \in Job
      BY <3>1, <1>t, Freed
    <3> QED
      BY <2>1, <3>2 DEF Acknowledge, TypeOK, asset
  <2>2. CASE \E pc \in Places : Turn(w, pc) /\ worker[w].pc # "idle"
             /\ UNCHANGED <<member, message, wallet, call, queue, asset, refunded, reported, spent, faults>>
    BY <2>2, <1>w DEF TypeOK, asset
  <2>3. CASE \E ok \in BOOLEAN : Generate(w, ok)
    BY <2>2, <2>3 DEF Generate, Places
  <2>4. CASE \E answer \in {"done", "error", "running", "raise"} : CheckStatus(w, answer)
    BY <2>2, <2>4 DEF CheckStatus, Retry, Places
  <2>5. CASE StoreAsset(w)
    <3>1. \E pc \in Places : Turn(w, pc) /\ worker[w].pc # "idle"
      BY <2>5 DEF StoreAsset, Places
    <3>2. worker' \in [Worker -> Process] /\ \A v \in Worker : worker'[v].pc # "idle" => worker'[v].job \in Job
      BY <3>1, <1>w
    <3>3. rows' \in [Job -> Nat] /\ delivered' \in [Job -> Nat]
      BY <2>5, <1>t DEF StoreAsset
    <3> QED
      BY <2>5, <3>2, <3>3 DEF StoreAsset, TypeOK
  <2>6. CASE SubmitTalk(w)
    <3>1. \E pc \in Places : Turn(w, pc) /\ worker[w].pc # "idle"
      BY <2>6 DEF SubmitTalk, Places
    <3>2. worker' \in [Worker -> Process] /\ \A v \in Worker : worker'[v].pc # "idle" => worker'[v].job \in Job
      BY <3>1, <1>w
    <3>3. video' \in [Job -> {"absent", "processing", "external", "completed", "failed"}]
      BY <2>6, <1>t DEF SubmitTalk
    <3> QED
      BY <2>6, <3>2, <3>3 DEF SubmitTalk, TypeOK
  <2>7. CASE NextPoll(w)
    <3>1. Turn(w, "ack") /\ worker[w].pc # "idle"
      BY <2>7 DEF NextPoll
    <3>2. worker' \in [Worker -> Process] /\ \A v \in Worker : worker'[v].pc # "idle" => worker'[v].job \in Job
      BY <3>1, <1>w DEF Places
    <3>3. queue' \in [Task -> Nat]
      BY <2>7, <1>t, EnqueueType DEF NextPoll
    <3> QED
      BY <2>7, <3>2, <3>3 DEF NextPoll, TypeOK, asset
  <2>8. CASE FinishVideo(w)
    <3>1. \E pc \in Places : Turn(w, pc) /\ worker[w].pc # "idle"
      BY <2>8 DEF FinishVideo, Retry, Places
    <3>2. worker' \in [Worker -> Process] /\ \A v \in Worker : worker'[v].pc # "idle" => worker'[v].job \in Job
      BY <3>1, <1>w
    <3>3. /\ video' \in [Job -> {"absent", "processing", "external", "completed", "failed"}]
          /\ delivered' \in [Job -> Nat]
      BY <2>8, <1>t DEF FinishVideo
    <3> QED
      BY <2>8, <3>2, <3>3 DEF FinishVideo, TypeOK
  <2>9. CASE MarkFailed(w)
    <3>1. Turn(w, "refund") /\ worker[w].pc # "idle"
      BY <2>9 DEF MarkFailed
    <3>2. worker' \in [Worker -> Process] /\ \A v \in Worker : worker'[v].pc # "idle" => worker'[v].job \in Job
      BY <3>1, <1>w DEF Places
    <3>3. video' \in [Job -> {"absent", "processing", "external", "completed", "failed"}]
      BY <2>9, <1>t DEF MarkFailed
    <3> QED
      BY <2>9, <3>2, <3>3 DEF MarkFailed, TypeOK
  <2>10. CASE Refund(w)
    <3>1. Turn(w, "ack") /\ worker[w].pc # "idle" /\ j \in Job
      BY <2>10, <1>t DEF Refund
    <3>2. worker' \in [Worker -> Process] /\ \A v \in Worker : worker'[v].pc # "idle" => worker'[v].job \in Job
      BY <3>1, <1>w DEF Places
    <3>3. refunded' \in [Job -> Nat] /\ reported' \subseteq Job
      BY <2>10, <3>1, <1>t DEF Refund, TypeOK
    <3>4. wallet' \in [User -> Balance]
      <4>1. CASE call[j].user \in member
        <5>1. call[j].user \in User /\ call[j].cost \in Int
          BY <4>1, <3>1, <1>t, AmountType DEF TypeOK, Call
        <5> QED
          BY <2>10, <4>1, <5>1, <1>t, WalletType DEF Refund
      <4>2. CASE call[j].user \notin member
        BY <2>10, <4>2, <1>t DEF Refund
      <4> QED
        BY <4>1, <4>2
    <3> QED
      BY <2>10, <3>2, <3>3, <3>4 DEF Refund, TypeOK, asset
  <2> QED
    BY <1>3, <2>1, <2>3, <2>4, <2>5, <2>6, <2>7, <2>8, <2>9, <2>10 DEF Work
<1>4. CASE Fault
  <2>1. ASSUME NEW j \in Job, LoseCall(j)
        PROVE  TypeOK'
    <3>1. /\ call' \in [Job -> Call]
          /\ \A i \in Job : call'[i].pc # "none" => call'[i].user \in User /\ call'[i].cost \in Amount
      <4>1. CASE call[j].pc = "charged"
        <5>1. Reach(j, "lost")
          BY <2>1, <4>1 DEF LoseCall
        <5>2. /\ call' \in [Job -> Call] /\ call'[j].user = call[j].user /\ call'[j].cost = call[j].cost
              /\ \A i \in Job \ {j} : call'[i] = call[i]
          BY <5>1, <1>t, Reached
        <5> QED
          BY <4>1, <5>2, <1>t
      <4>2. CASE call[j].pc # "charged"
        <5>1. NoCall \in Call /\ NoCall.pc = "none" /\ call' = [call EXCEPT ![j] = NoCall]
          BY <2>1, <4>2 DEF LoseCall, NoCall, Call
        <5> QED
          BY <5>1, <1>t
      <4> QED
        BY <4>1, <4>2
    <3> QED
      BY <2>1, <3>1, <1>f DEF LoseCall, TypeOK, asset
  <2>2. ASSUME NEW w \in Worker, PollRefused(w)
        PROVE  TypeOK'
    <3>1. \E pc \in Places : Turn(w, pc) /\ worker[w].pc # "idle"
      BY <2>2 DEF PollRefused, Places
    <3>2. worker' \in [Worker -> Process] /\ \A v \in Worker : worker'[v].pc # "idle" => worker'[v].job \in Job
      BY <3>1, <1>w
    <3> QED
      BY <2>2, <3>2, <1>f DEF PollRefused, TypeOK, asset
  <2>3. ASSUME NEW w \in Worker, RefundFails(w)
        PROVE  TypeOK'
    <3>1. Turn(w, "ack") /\ worker[w].pc # "idle" /\ worker[w].job \in Job
      BY <2>3, <1>t DEF RefundFails
    <3>2. worker' \in [Worker -> Process] /\ \A v \in Worker : worker'[v].pc # "idle" => worker'[v].job \in Job
      BY <3>1, <1>w DEF Places
    <3> QED
      BY <2>3, <3>1, <3>2, <1>f DEF RefundFails, TypeOK, asset
  <2>4. ASSUME NEW w \in Worker, WorkerDies(w)
        PROVE  TypeOK'
    <3>1. worker[w].job \in Job /\ worker[w].attempt \in 0..MaxAttempts
      BY <2>4, <1>t DEF WorkerDies
    <3>2. queue' \in [Task -> Nat]
      BY <2>4, <3>1, <1>t, Enqueued DEF WorkerDies, Requeue
    <3>3. worker' \in [Worker -> Process] /\ \A v \in Worker : worker'[v].pc # "idle" => worker'[v].job \in Job
      BY <2>4, <1>t, Freed DEF WorkerDies
    <3> QED
      BY <2>4, <3>2, <3>3, <1>f DEF WorkerDies, TypeOK, asset
  <2> QED
    BY <1>4, <2>1, <2>2, <2>3, <2>4 DEF Fault
<1>5. CASE Outside
  <2>1. ASSUME NEW j \in Job, NEW u \in User, NEW c \in Amount, NEW m \in Message \cup {Nil}, Ask(j, u, c, m)
        PROVE  TypeOK'
    <3> DEFINE x == [pc |-> "asked", user |-> u, cost |-> c, source |-> m, bal |-> 0]
    <3>1. x \in Call
      BY DEF Call
    <3>2. call' \in [Job -> Call] /\ call'[j] = x /\ \A i \in Job \ {j} : call'[i] = call[i]
      BY <2>1, <3>1, <1>t DEF Ask
    <3>3. \A i \in Job : call'[i].pc # "none" => call'[i].user \in User /\ call'[i].cost \in Amount
      BY <3>2, <1>t
    <3> QED
      BY <2>1, <3>2, <3>3 DEF Ask, TypeOK, asset
  <2>2. ASSUME NEW j \in Job, DeleteAsset(j)
        PROVE  TypeOK'
    <3>1. /\ rows' \in [Job -> Nat]
          /\ video' \in [Job -> {"absent", "processing", "external", "completed", "failed"}]
      BY <2>2, <1>t DEF DeleteAsset
    <3> QED
      BY <2>2, <3>1 DEF DeleteAsset, TypeOK
  <2>3. ASSUME NEW m \in Message, DeleteMessage(m)
        PROVE  TypeOK'
    BY <2>3 DEF DeleteMessage, TypeOK, asset
  <2>4. ASSUME NEW u \in User, DeleteAccount(u)
        PROVE  TypeOK'
    <3>1. /\ rows' \in [Job -> Nat]
          /\ video' \in [Job -> {"absent", "processing", "external", "completed", "failed"}]
      BY <2>4, <1>t DEF DeleteAccount
    <3>2. wallet' \in [User -> Balance] /\ member' \subseteq User
      BY <2>4, <1>t DEF DeleteAccount, Balance, TypeOK
    <3> QED
      BY <2>4, <3>1, <3>2 DEF DeleteAccount, TypeOK
  <2>5. ASSUME NEW u \in User, NEW a \in Amount, SpendElsewhere(u, a)
        PROVE  TypeOK'
    <3>1. a \in Int /\ a > 0
      BY AmountType
    <3>2. wallet[u] # NoWallet
      BY <2>5, <3>1 DEF SpendElsewhere, CanDebit
    <3>3. wallet' \in [User -> Balance]
      BY <2>5, <3>1, <3>2, <1>t, WalletType DEF SpendElsewhere
    <3>4. spent' \in [User -> Nat]
      BY <2>5, <3>1, <1>t DEF SpendElsewhere
    <3> QED
      BY <2>5, <3>3, <3>4 DEF SpendElsewhere, TypeOK, asset
  <2> QED
    BY <1>5, <2>1, <2>2, <2>3, <2>4, <2>5 DEF Outside
<1>6. CASE UNCHANGED vars
  BY <1>6 DEF vars, asset, TypeOK
<1> QED
  BY <1>1, <1>2, <1>3, <1>4, <1>5, <1>6 DEF Next

\* Every variable keeps its type: the endpoints, the tasks and the broker never
\* lose track of a job's account, price or attempt (TypeOK of MediaJobs).
THEOREM TypeCorrect == Spec => []TypeOK
<1>1. Init => TypeOK
  BY InitType
<1>2. TypeOK /\ [Next]_vars => TypeOK'
  BY StepType
<1> QED
  BY <1>1, <1>2, PTL DEF Spec

-----------------------------------------------------------------------------
(* Wallets.                                                                *)

Money ==
    /\ LocksExclusive
    /\ \A j \in Job : HoldsWallet(j)
    /\ \A u \in User : wallet[u] # NoWallet <=> u \in member

\* Endpoints that do not hold a wallet row may change, and rows that no
\* endpoint holds.
LEMMA MoneyKept ==
    ASSUME TypeOK, Money,
           \A i \in Job : call'[i] = call[i] \/ call'[i].pc # "reserved",
           \A i \in Job : call[i].pc = "reserved" /\ call'[i] = call[i] =>
               (call[i].user \in member <=> call[i].user \in member')
               /\ wallet'[call[i].user] = wallet[call[i].user],
           \A u \in User : wallet'[u] # NoWallet <=> u \in member'
    PROVE  Money'
BY DEF Money, LocksExclusive, HoldsWallet

LEMMA MoneyStep == TypeOK /\ Money /\ [Next]_vars => Money'
<1> SUFFICES ASSUME TypeOK, Money, [Next]_vars
             PROVE  Money'
  OBVIOUS
<1>t. /\ wallet \in [User -> Balance] /\ call \in [Job -> Call] /\ member \subseteq User
      /\ \A j \in Job : call[j].pc # "none" => call[j].user \in User /\ call[j].cost \in Amount
  BY DEF TypeOK
<1>i. \A b \in Balance : b # NoWallet => b \in Int
  BY DEF Balance
<1>n. \A i \in Int : i # NoWallet
  BY NoWalletAssumption
<1>1. CASE UNCHANGED <<call, member, wallet>>
  BY <1>1, MoneyKept DEF Money
<1>2. ASSUME NEW j \in Job, ReserveCredits(j)
      PROVE  Money'
  <2> DEFINE u == call[j].user
             c == call[j].cost
  <2>1. u \in User /\ c \in Int /\ c > 0 /\ ~WalletLocked(u) /\ UNCHANGED <<member, wallet>>
    BY <1>2, <1>t, AmountType DEF ReserveCredits
  <2>2. CASE CanReserve(u, c)
    <3>1. wallet[u] # NoWallet /\ wallet[u] \in Int /\ wallet[u] >= c
      BY <2>1, <2>2, <1>t, <1>i DEF CanReserve, CanDebit
    <3> DEFINE d == Debit(wallet, u, c)[u]
               x == [pc |-> "reserved", user |-> u, cost |-> c,
                     source |-> call[j].source, bal |-> d]
    <3>2. d = wallet[u] - c
      BY <2>1, <3>1, <1>t, WalletType
    <3>3. call'[j] = x /\ \A i \in Job \ {j} : call'[i] = call[i]
      BY <1>2, <2>2, <1>t DEF ReserveCredits
    <3>4. \A i \in Job \ {j} : call[i].pc = "reserved" => call[i].user # u
      BY <2>1 DEF WalletLocked
    <3> HIDE DEF d
    <3>5. LocksExclusive'
      BY <3>3, <3>4 DEF Money, LocksExclusive
    <3>6. HoldsWallet(j)'
      BY <2>1, <3>1, <3>2, <3>3 DEF Money, HoldsWallet
    <3>7. \A i \in Job \ {j} : HoldsWallet(i)'
      BY <2>1, <3>3 DEF Money, HoldsWallet
    <3> QED
      BY <2>1, <3>5, <3>6, <3>7 DEF Money
  <2>3. CASE ~CanReserve(u, c)
    <3>1. \A i \in Job : call'[i] = call[i] \/ call'[i].pc # "reserved"
      BY <1>2, <2>3, <1>t DEF ReserveCredits, NoCall
    <3> QED
      BY <2>1, <3>1, MoneyKept DEF Money
  <2> QED
    BY <2>2, <2>3
<1>3. ASSUME NEW j \in Job, CommitCharge(j)
      PROVE  Money'
  <2> DEFINE u == call[j].user
  <2>1. Reach(j, "charged") /\ call[j].pc = "reserved" /\ u \in User /\ u \in member
        /\ wallet' = [wallet EXCEPT ![u] = call[j].bal] /\ member' = member
    BY <1>3, <1>t DEF CommitCharge, Money, HoldsWallet
  <2>2. call'[j].pc = "charged" /\ \A i \in Job \ {j} : call'[i] = call[i]
    BY <2>1, <1>t, Reached
  <2>3. \A i \in Job \ {j} : call[i].pc = "reserved" => call[i].user # u
    BY <2>1 DEF Money, LocksExclusive
  <2>4. wallet'[u] = call[j].bal /\ call[j].bal \in Int /\ \A v \in User \ {u} : wallet'[v] = wallet[v]
    BY <2>1, <1>t DEF Call
  <2>5. \A i \in Job \ {j} : call[i].pc = "reserved" => call[i].user \in User
    BY <1>t
  <2> QED
    BY <2>1, <2>2, <2>3, <2>4, <2>5, <1>n, MoneyKept DEF Money
<1>4. ASSUME NEW j \in Job, NEW pc \in {"charged", "published", "lost"}, Reach(j, pc),
             UNCHANGED <<member, wallet>>
      PROVE  Money'
  <2>1. call'[j].pc = pc /\ \A i \in Job \ {j} : call'[i] = call[i]
    BY <1>4, <1>t, Reached
  <2> QED
    BY <1>4, <2>1, MoneyKept DEF Money
<1>5. ASSUME NEW j \in Job, LoseCall(j)
      PROVE  Money'
  <2>1. CASE call[j].pc = "charged"
    BY <1>5, <2>1, <1>4 DEF LoseCall
  <2>2. CASE call[j].pc # "charged"
    <3>1. call'[j].pc = "none" /\ \A i \in Job \ {j} : call'[i] = call[i]
      BY <1>5, <2>2, <1>t DEF LoseCall, NoCall
    <3> QED
      BY <1>5, <3>1, MoneyKept DEF Money, LoseCall
  <2> QED
    BY <2>1, <2>2
<1>6. ASSUME NEW w \in Worker, Refund(w)
      PROVE  Money'
  <2> DEFINE j == worker[w].job
             u == call[j].user
  <2>1. CASE u \in member
    <3>1. j \in Job /\ u \in User /\ call[j].cost \in Int
      BY <1>6, <2>1, <1>t, AmountType DEF Refund, TypeOK, Call
    <3>2. wallet' = Credit(wallet, u, call[j].cost) /\ ~WalletLocked(u) /\ UNCHANGED <<call, member>>
      BY <1>6, <2>1 DEF Refund
    <3>3. /\ wallet' \in [User -> Balance]
          /\ \A v \in User \ {u} : wallet'[v] = wallet[v]
          /\ wallet'[u] = NoWallet => call[j].cost <= 0
      BY SMTT(40), <3>1, <3>2, <1>t, WalletType
    <3>4. wallet'[u] # NoWallet
      <4>1. CASE call[j].cost <= 0
        BY <2>1, <3>1, <3>2, <4>1 DEF Credit, Money
      <4>2. CASE call[j].cost > 0
        BY <3>1, <3>3, <4>2
      <4> QED
        BY <3>1, <4>1, <4>2
    <3>5. \A i \in Job : call[i].pc = "reserved" => call[i].user # u /\ call[i].user \in User
      BY <3>2, <1>t DEF WalletLocked
    <3>6. \A v \in User : wallet'[v] # NoWallet <=> v \in member'
      BY <2>1, <3>2, <3>3, <3>4 DEF Money
    <3> QED
      BY <3>2, <3>3, <3>5, <3>6, MoneyKept
  <2>2. CASE u \notin member
    BY <1>6, <2>2, <1>1 DEF Refund
  <2> QED
    BY <2>1, <2>2
<1>7. ASSUME NEW j \in Job, NEW u \in User, NEW c \in Amount, NEW m \in Message \cup {Nil}, Ask(j, u, c, m)
      PROVE  Money'
  <2>1. call'[j].pc = "asked" /\ \A i \in Job \ {j} : call'[i] = call[i]
    BY <1>7, <1>t DEF Ask
  <2> QED
    BY <1>7, <2>1, MoneyKept DEF Money, Ask
<1>8. ASSUME NEW u \in User, DeleteAccount(u)
      PROVE  Money'
  <2>1. \A i \in Job : call[i].pc = "reserved" => call[i].user # u /\ call[i].user \in User
    BY <1>8, <1>t DEF DeleteAccount, WalletLocked
  <2>2. /\ member' = member \ {u} /\ call' = call
        /\ wallet'[u] = NoWallet /\ \A v \in User \ {u} : wallet'[v] = wallet[v]
    BY <1>8, <1>t DEF DeleteAccount
  <2> QED
    BY <2>1, <2>2, MoneyKept DEF Money
<1>9. ASSUME NEW u \in User, NEW a \in Amount, SpendElsewhere(u, a)
      PROVE  Money'
  <2>1. a \in Int /\ a > 0
    BY AmountType
  <2>2. wallet[u] # NoWallet /\ wallet[u] \in Int
    BY <1>9, <2>1, <1>t, <1>i DEF SpendElsewhere, CanDebit
  <2>3. \A i \in Job : call[i].pc = "reserved" => call[i].user # u /\ call[i].user \in User
    BY <1>9, <1>t DEF SpendElsewhere, WalletLocked
  <2>4. /\ member' = member /\ call' = call
        /\ wallet'[u] = wallet[u] - a /\ \A v \in User \ {u} : wallet'[v] = wallet[v]
    BY <1>9, <2>1, <2>2, <1>t, WalletType DEF SpendElsewhere
  <2>5. \A v \in User : wallet'[v] # NoWallet <=> v \in member'
    BY <2>1, <2>2, <2>4, <1>n DEF Money
  <2> QED
    BY <2>3, <2>4, <2>5, MoneyKept
<1>10. ASSUME NEW j \in Job, Serve(j)
       PROVE  Money'
  BY <1>10, <1>2, <1>3, <1>4 DEF Serve, Publish
<1>11. ASSUME NEW w \in Worker, Work(w)
       PROVE  Money'
  BY <1>11, <1>1, <1>6 DEF Work, Generate, CheckStatus, StoreAsset, SubmitTalk, NextPoll,
     FinishVideo, MarkFailed, Acknowledge
<1>12. CASE Fault
  BY <1>12, <1>1, <1>5 DEF Fault, PollRefused, RefundFails, WorkerDies
<1>13. CASE Outside
  BY <1>13, <1>1, <1>7, <1>8, <1>9 DEF Outside, DeleteAsset, DeleteMessage
<1>14. ASSUME NEW w \in Worker, NEW j \in Job, NEW n \in 0..MaxAttempts, Receive(w, j, n)
       PROVE  Money'
  BY <1>14, <1>1 DEF Receive
<1>15. CASE UNCHANGED vars
  BY <1>15, <1>1 DEF vars
<1> QED
  BY <1>10, <1>11, <1>12, <1>13, <1>14, <1>15 DEF Next

-----------------------------------------------------------------------------
(* Places of a task.                                                       *)

Shape ==
    /\ \A w \in Worker : WorkerOK(w)
    /\ \A j \in Job : video[j] # "absent" => j \in Avatar
    /\ \A j \in Job : Queued(j) => call[j].pc = "published"

\* A published job stays published.
LEMMA StaysPublished ==
    ASSUME TypeOK, [Next]_vars
    PROVE  \A k \in Job : call[k].pc = "published" => call'[k].pc = "published"
<1>t. call \in [Job -> Call]
  BY DEF TypeOK
<1>1. ASSUME NEW j \in Job, NEW x, call[j].pc # "published", call' = [call EXCEPT ![j] = x]
      PROVE  \A k \in Job : call[k].pc = "published" => call'[k].pc = "published"
  BY <1>1, <1>t
<1>2. ASSUME NEW j \in Job, NEW pc \in {"charged", "published", "lost"},
             call[j].pc # "published", Reach(j, pc)
      PROVE  \A k \in Job : call[k].pc = "published" => call'[k].pc = "published"
  BY <1>2, <1>t, Reached
<1>3. ASSUME UNCHANGED call
      PROVE  \A k \in Job : call[k].pc = "published" => call'[k].pc = "published"
  BY <1>3
<1>4. ASSUME NEW j \in Job, Serve(j)
      PROVE  \A k \in Job : call[k].pc = "published" => call'[k].pc = "published"
  <2>1. CASE ReserveCredits(j)
    BY <2>1, <1>1 DEF ReserveCredits
  <2>2. CASE CommitCharge(j)
    BY <2>2, <1>2 DEF CommitCharge
  <2>3. CASE Publish(j)
    BY <2>3, <1>2 DEF Publish
  <2> QED
    BY <1>4, <2>1, <2>2, <2>3 DEF Serve
<1>5. ASSUME NEW w \in Worker, Work(w)
      PROVE  UNCHANGED call
  BY <1>5 DEF Work, Generate, CheckStatus, StoreAsset, SubmitTalk, NextPoll,
     FinishVideo, MarkFailed, Refund, Acknowledge
<1>6. CASE Fault
  <2>1. ASSUME NEW j \in Job, LoseCall(j)
        PROVE  \A k \in Job : call[k].pc = "published" => call'[k].pc = "published"
    BY <2>1, <1>1, <1>2 DEF LoseCall
  <2> QED
    BY <1>6, <1>3, <2>1 DEF Fault, PollRefused, RefundFails, WorkerDies
<1>7. CASE Outside
  BY <1>7, <1>1, <1>3 DEF Outside, Ask, DeleteAsset, DeleteMessage, DeleteAccount, SpendElsewhere
<1>8. ASSUME NEW w \in Worker, NEW j \in Job, NEW n \in 0..MaxAttempts, Receive(w, j, n)
      PROVE  UNCHANGED call
  BY <1>8 DEF Receive
<1> QED
  BY <1>3, <1>4, <1>5, <1>6, <1>7, <1>8 DEF Next, vars

\* One worker moves, no task is added, and no video row appears.
LEMMA ShapeKept ==
    ASSUME TypeOK, Shape, NEW w \in Worker,
           \A k \in Job : call[k].pc = "published" => call'[k].pc = "published",
           \A v \in Worker \ {w} : worker'[v] = worker[v],
           worker'[w] = worker[w] \/ WorkerOK(w)',
           \A k \in Job : video'[k] # "absent" => video[k] # "absent",
           \A k \in Job, n \in 0..MaxAttempts : queue'[<<k, n>>] > 0 =>
               queue[<<k, n>>] > 0 \/ call'[k].pc = "published"
    PROVE  Shape'
<1>1. \A v \in Worker : WorkerOK(v)'
  BY DEF Shape, WorkerOK, TypeOK
<1>2. \A k \in Job : (Queued(k) => call[k].pc = "published")'
  BY DEF Shape, Queued
<1> QED
  BY <1>1, <1>2 DEF Shape

LEMMA ShapeStep == TypeOK /\ Shape /\ [Next]_vars => Shape'
<1> SUFFICES ASSUME TypeOK, Shape, [Next]_vars
             PROVE  Shape'
  OBVIOUS
<1>t. /\ call \in [Job -> Call] /\ queue \in [Task -> Nat] /\ worker \in [Worker -> Process]
      /\ video \in [Job -> {"absent", "processing", "external", "completed", "failed"}]
      /\ \A w \in Worker : worker[w].pc # "idle" => worker[w].job \in Job
      /\ \A w \in Worker : worker[w].attempt \in 0..MaxAttempts
  BY DEF TypeOK, Process
<1>p. \A k \in Job : call[k].pc = "published" => call'[k].pc = "published"
  BY StaysPublished
<1>1. ASSUME UNCHANGED <<worker, queue>>,
             \A k \in Job : video'[k] # "absent" => video[k] # "absent" \/ k \in Avatar
      PROVE  Shape'
  <2>1. \A v \in Worker : WorkerOK(v)'
    BY <1>1, <1>p, <1>t DEF Shape, WorkerOK
  <2>2. \A k \in Job : (Queued(k) => call[k].pc = "published")'
    BY <1>1, <1>p DEF Shape, Queued
  <2> QED
    BY <1>1, <2>1, <2>2 DEF Shape
<1>2. ASSUME NEW w \in Worker, NEW pc \in Places, Turn(w, pc), worker[w].pc # "idle",
             UNCHANGED queue,
             \A k \in Job : video'[k] # "absent" => video[k] # "absent",
             pc = "store" => worker[w].job \notin Avatar,
             pc \in {"generate", "submit", "handoff"} => worker[w].attempt = 0,
             pc = "again" => worker[w].attempt < MaxAttempts
      PROVE  Shape'
  <2>1. /\ worker'[w].pc = pc /\ worker'[w].job = worker[w].job
        /\ worker'[w].attempt = worker[w].attempt
        /\ \A v \in Worker \ {w} : worker'[v] = worker[v]
    BY <1>2, <1>t, Turned
  <2>2. call'[worker[w].job].pc = "published"
    BY <1>2, <1>p, <1>t DEF Shape, WorkerOK
  <2>3. WorkerOK(w)'
    BY <1>2, <2>1, <2>2 DEF WorkerOK
  <2> QED
    BY <1>2, <1>p, <2>1, <2>3, ShapeKept
<1>3. ASSUME NEW j \in Job, Serve(j)
      PROVE  Shape'
  <2>1. CASE ReserveCredits(j)
    BY <2>1, <1>1 DEF ReserveCredits, asset
  <2>2. CASE CommitCharge(j)
    BY <2>2, <1>1, <1>t DEF CommitCharge
  <2>3. CASE Publish(j)
    <3>1. 0 \in 0..MaxAttempts /\ queue' = Enqueue(<<j, 0>>) /\ Reach(j, "published")
          /\ UNCHANGED <<worker, video>>
      BY <2>3, BoundType DEF Publish, asset
    <3>2. call'[j].pc = "published"
      BY <3>1, <1>t, Reached
    <3>3. \A k \in Job, n \in 0..MaxAttempts : queue'[<<k, n>>] > 0 =>
              queue[<<k, n>>] > 0 \/ call'[k].pc = "published"
      BY ZenonT(60), <3>1, <3>2, <1>t, Enqueued
    <3>4. \A v \in Worker : WorkerOK(v)'
      BY <3>1, <1>p, <1>t DEF Shape, WorkerOK
    <3>5. \A k \in Job : (Queued(k) => call[k].pc = "published")'
      BY <3>3, <1>p DEF Shape, Queued
    <3> QED
      BY <3>1, <3>4, <3>5 DEF Shape
  <2> QED
    BY <1>3, <2>1, <2>2, <2>3 DEF Serve
<1>4. ASSUME NEW w \in Worker, NEW j \in Job, NEW n \in 0..MaxAttempts, Receive(w, j, n)
      PROVE  Shape'
  <2>1. call'[j].pc = "published" /\ UNCHANGED video
    BY <1>4, <1>p DEF Receive, Shape, Queued, asset
  <2>2. \A k \in Job, m \in 0..MaxAttempts : queue'[<<k, m>>] > 0 => queue[<<k, m>>] > 0
    BY <1>4, <1>t, Dequeued DEF Receive
  <2>3. /\ worker'[w] = [pc |-> IF n = 0 THEN "generate" ELSE "check", job |-> j, attempt |-> n]
        /\ \A v \in Worker \ {w} : worker'[v] = worker[v]
    BY <1>4, <1>t DEF Receive
  <2>4. WorkerOK(w)'
    BY <2>1, <2>3 DEF WorkerOK
  <2> QED
    BY <1>p, <2>1, <2>2, <2>3, <2>4, ShapeKept
<1>5. ASSUME NEW w \in Worker, Work(w)
      PROVE  Shape'
  <2> DEFINE j == worker[w].job
             n == worker[w].attempt
  <2>a. worker[w].pc # "idle" => j \in Job /\ n \in 0..MaxAttempts /\ WorkerOK(w)
    BY <1>t DEF Shape
  <2>1. CASE Acknowledge(w)
    <3>1. worker'[w].pc = "idle" /\ \A v \in Worker \ {w} : worker'[v] = worker[v]
      BY <2>1, <1>t, Freed DEF Acknowledge
    <3> QED
      BY <2>1, <3>1, <1>p, ShapeKept DEF Acknowledge, WorkerOK, asset
  <2>2. ASSUME NEW ok \in BOOLEAN, Generate(w, ok)
        PROVE  Shape'
    BY <2>2, <2>a, <1>2 DEF Generate, Places, WorkerOK, asset
  <2>3. ASSUME Retry(w), worker[w].pc # "idle", UNCHANGED queue,
               \A k \in Job : video'[k] # "absent" => video[k] # "absent"
        PROVE  Shape'
    <3>1. CASE Exhausted(n)
      BY <2>3, <3>1, <1>2 DEF Retry, Places
    <3>2. CASE ~Exhausted(n)
      BY <2>3, <3>2, <2>a, <1>2, BoundType DEF Retry, Exhausted, Places
    <3> QED
      BY <3>1, <3>2
  <2>4. ASSUME NEW answer \in {"done", "error", "running", "raise"}, CheckStatus(w, answer)
        PROVE  Shape'
    BY <2>4, <2>3, <1>2 DEF CheckStatus, Places, asset
  <2>5. CASE StoreAsset(w)
    BY <2>5, <1>2 DEF StoreAsset, Places
  <2>6. CASE SubmitTalk(w)
    BY <2>6, <2>a, <1>2, <1>t DEF SubmitTalk, Places, WorkerOK
  <2>7. CASE NextPoll(w)
    <3>1. call'[j].pc = "published" /\ n + 1 \in 0..MaxAttempts /\ j \in Job /\ UNCHANGED video
      BY <2>7, <2>a, <1>p, BoundType DEF NextPoll, WorkerOK, asset
    <3>2. queue' = Enqueue(<<j, n + 1>>) /\ Turn(w, "ack")
      BY <2>7 DEF NextPoll, Following
    <3>3. \A k \in Job, m \in 0..MaxAttempts : queue'[<<k, m>>] > 0 =>
              queue[<<k, m>>] > 0 \/ call'[k].pc = "published"
      BY ZenonT(60), <3>1, <3>2, <1>t, Enqueued
    <3>4. /\ worker'[w].pc = "ack" /\ worker'[w].job = j
          /\ \A v \in Worker \ {w} : worker'[v] = worker[v]
      BY <3>2, <1>t, Turned DEF Places
    <3>5. WorkerOK(w)'
      BY <3>1, <3>4 DEF WorkerOK
    <3> QED
      BY <3>1, <3>3, <3>4, <3>5, <1>p, ShapeKept
  <2>8. CASE FinishVideo(w)
    BY <2>8, <2>3, <1>2, <1>t DEF FinishVideo, Places
  <2>9. CASE MarkFailed(w)
    BY <2>9, <1>2, <1>t DEF MarkFailed, Places
  <2>10. CASE Refund(w)
    BY <2>10, <1>2 DEF Refund, Places, asset
  <2> QED
    BY <1>5, <2>1, <2>2, <2>4, <2>5, <2>6, <2>7, <2>8, <2>9, <2>10 DEF Work
<1>6. CASE Fault
  <2>1. ASSUME NEW j \in Job, LoseCall(j)
        PROVE  Shape'
    BY <2>1, <1>1 DEF LoseCall, asset
  <2>2. ASSUME NEW w \in Worker, PollRefused(w) \/ RefundFails(w)
        PROVE  Shape'
    BY <2>2, <1>2 DEF PollRefused, RefundFails, Places, asset
  <2>3. ASSUME NEW w \in Worker, WorkerDies(w)
        PROVE  Shape'
    <3> DEFINE j == worker[w].job
               n == worker[w].attempt
    <3>1. call'[j].pc = "published" /\ n \in 0..MaxAttempts /\ j \in Job /\ UNCHANGED video
      BY <2>3, <1>t, <1>p DEF WorkerDies, Shape, WorkerOK, asset
    <3>2. queue' = Enqueue(<<j, n>>)
      BY <2>3 DEF WorkerDies, Requeue
    <3>3. \A k \in Job, m \in 0..MaxAttempts : queue'[<<k, m>>] > 0 =>
              queue[<<k, m>>] > 0 \/ call'[k].pc = "published"
      BY ZenonT(60), <3>1, <3>2, <1>t, Enqueued
    <3>4. worker'[w].pc = "idle" /\ \A v \in Worker \ {w} : worker'[v] = worker[v]
      BY <2>3, <1>t, Freed DEF WorkerDies
    <3>5. WorkerOK(w)'
      BY <3>4 DEF WorkerOK
    <3> QED
      BY <3>1, <3>3, <3>4, <3>5, <1>p, ShapeKept
  <2> QED
    BY <1>6, <2>1, <2>2, <2>3 DEF Fault
<1>7. CASE Outside
  BY <1>7, <1>1, <1>t DEF Outside, Ask, DeleteAsset, DeleteMessage, DeleteAccount, SpendElsewhere, asset
<1>8. CASE UNCHANGED vars
  BY <1>8, <1>1 DEF vars, asset
<1> QED
  BY <1>3, <1>4, <1>5, <1>6, <1>7, <1>8 DEF Next

-----------------------------------------------------------------------------
(* No charge is forgotten.                                                 *)

\* Outcomes and the faults that excuse their absence stay.
Lasting ==
    /\ \A k \in Job : Settled(k) => Settled(k)'
    /\ faults.dropped \subseteq faults'.dropped

LEMMA LastingKept ==
    ASSUME UNCHANGED <<delivered, refunded, reported, faults>>
    PROVE  Lasting
BY DEF Lasting, Settled

\* History and queue only grow, and whoever gives a job up leaves a task, an
\* outcome or a broker's refusal behind.
LEMMA RememberKept ==
    ASSUME TypeOK, TypeOK', NothingForgotten, NEW w \in Worker,
           UNCHANGED call,
           \A v \in Worker \ {w} : worker'[v] = worker[v],
           \A k \in Job, n \in 0..MaxAttempts : queue[<<k, n>>] > 0 =>
               queue'[<<k, n>>] > 0 \/ Running(k)',
           Lasting,
           \A k \in Job : Runs(w, k) => Remembered(k)'
    PROVE  NothingForgotten'
<1> SUFFICES ASSUME NEW k \in Job, Charged(k)'
             PROVE  Remembered(k)'
  BY DEF NothingForgotten
<1>1. Charged(k) /\ Remembered(k)
  BY DEF NothingForgotten, Charged
<1>2. CASE call[k].pc = "charged"
  BY <1>2 DEF Remembered, InHand
<1>3. CASE Queued(k)
  BY <1>3 DEF Queued, Remembered, InHand
<1>4. CASE Running(k)
  BY <1>4 DEF Running, Runs, Remembered, InHand
<1>5. CASE Settled(k) \/ call[k].pc = "lost" \/ k \in faults.dropped
  BY <1>5 DEF Remembered, Lasting
<1> QED
  BY <1>1, <1>2, <1>3, <1>4, <1>5 DEF Remembered, InHand

LEMMA RememberStep ==
    TypeOK /\ TypeOK' /\ Shape /\ NothingForgotten /\ [Next]_vars => NothingForgotten'
<1> SUFFICES ASSUME TypeOK, TypeOK', Shape, NothingForgotten, [Next]_vars
             PROVE  NothingForgotten'
  OBVIOUS
<1>t. /\ call \in [Job -> Call] /\ queue \in [Task -> Nat] /\ worker \in [Worker -> Process]
      /\ delivered \in [Job -> Nat] /\ refunded \in [Job -> Nat]
      /\ \A w \in Worker : worker[w].pc # "idle" => worker[w].job \in Job
      /\ \A w \in Worker : worker[w].attempt \in 0..MaxAttempts
  BY DEF TypeOK, Process
<1>1. ASSUME UNCHANGED <<queue, worker, delivered, refunded, reported, faults.dropped>>,
             \A k \in Job : Charged(k)' => \/ Charged(k) /\ call'[k].pc = call[k].pc
                                           \/ call'[k].pc \in {"charged", "lost"}
      PROVE  NothingForgotten'
  <2> SUFFICES ASSUME NEW k \in Job, Charged(k)'
               PROVE  Remembered(k)'
    BY DEF NothingForgotten
  <2>1. CASE call'[k].pc \in {"charged", "lost"}
    BY <2>1 DEF Remembered, InHand
  <2>2. CASE Charged(k) /\ call'[k].pc = call[k].pc
    BY <1>1, <2>2 DEF NothingForgotten, Remembered, InHand, Settled, Queued, Running, Runs
  <2> QED
    BY <1>1, <2>1, <2>2
<1>2. ASSUME NEW w \in Worker, NEW pc \in Places, Turn(w, pc), worker[w].pc \notin {"idle", "ack"},
             NEW j \in Job, worker[w].job = j, UNCHANGED call, UNCHANGED queue, Lasting,
             pc = "ack" => Settled(j)' \/ j \in faults'.dropped
      PROVE  NothingForgotten'
  <2>1. /\ worker'[w].pc = pc /\ worker'[w].job = j
        /\ \A v \in Worker \ {w} : worker'[v] = worker[v]
    BY <1>2, <1>t, Turned
  <2>2. ASSUME NEW k \in Job, Runs(w, k)
        PROVE  Remembered(k)'
    <3> k = j
      BY <1>2, <2>2 DEF Runs
    <3>1. CASE pc = "ack"
      BY <1>2, <3>1 DEF Remembered
    <3>2. CASE pc # "ack"
      <4>1. Runs(w, k)'
        BY <2>1, <2>2, <3>2 DEF Runs, Places
      <4> QED
        BY <4>1 DEF Running, Remembered, InHand
    <3> QED
      BY <3>1, <3>2
  <2> QED
    BY <1>2, <2>1, <2>2, RememberKept
<1>3. ASSUME NEW j \in Job, Serve(j)
      PROVE  NothingForgotten'
  <2>1. CASE ReserveCredits(j)
    <3>1. /\ \A k \in Job \ {j} : call'[k] = call[k]
          /\ call[j].pc = "asked" /\ call'[j].pc \in {"reserved", "none"}
      BY <2>1, <1>t DEF ReserveCredits, NoCall
    <3> QED
      BY <2>1, <3>1, <1>1 DEF ReserveCredits, Charged, asset
  <2>2. CASE CommitCharge(j)
    <3>1. call'[j].pc = "charged" /\ \A k \in Job \ {j} : call'[k] = call[k]
      BY <2>2, <1>t, Reached DEF CommitCharge
    <3> QED
      BY <2>2, <3>1, <1>1 DEF CommitCharge, Charged
  <2>3. CASE Publish(j)
    <3>1. 0 \in 0..MaxAttempts /\ queue' = Enqueue(<<j, 0>>) /\ Reach(j, "published")
          /\ UNCHANGED <<worker, delivered, refunded, reported, faults>>
      BY <2>3, BoundType DEF Publish, asset
    <3>2. \A k \in Job \ {j} : call'[k] = call[k]
      BY <3>1, <1>t, Reached
    <3>3. /\ queue'[<<j, 0>>] > 0
          /\ \A k \in Job, n \in 0..MaxAttempts : queue[<<k, n>>] > 0 => queue'[<<k, n>>] > 0
      BY <3>1, <1>t, QueueGrows
    <3>4. Remembered(j)'
      BY <3>1, <3>3 DEF Remembered, InHand, Queued
    <3>5. ASSUME NEW k \in Job \ {j}, Charged(k)'
          PROVE  Remembered(k)'
      BY <3>1, <3>2, <3>3, <3>5 DEF NothingForgotten, Charged, Remembered, InHand, Settled,
         Queued, Running, Runs
    <3> QED
      BY <3>4, <3>5 DEF NothingForgotten
  <2> QED
    BY <1>3, <2>1, <2>2, <2>3 DEF Serve
<1>4. ASSUME NEW w \in Worker, NEW j \in Job, NEW n \in 0..MaxAttempts, Receive(w, j, n)
      PROVE  NothingForgotten'
  <2>1. /\ worker[w].pc = "idle"
        /\ worker'[w] = [pc |-> IF n = 0 THEN "generate" ELSE "check", job |-> j, attempt |-> n]
        /\ \A v \in Worker \ {w} : worker'[v] = worker[v]
    BY <1>4, <1>t DEF Receive
  <2>2. Running(j)'
    <3>1. Runs(w, j)'
      BY <2>1 DEF Runs
    <3> QED
      BY <3>1 DEF Running
  <2>3. \A k \in Job, m \in 0..MaxAttempts : queue[<<k, m>>] > 0 =>
            queue'[<<k, m>>] > 0 \/ Running(k)'
    BY <1>4, <2>2, <1>t, Dequeued DEF Receive
  <2>4. \A k \in Job : ~Runs(w, k)
    BY <2>1 DEF Runs
  <2>5. UNCHANGED <<call, delivered, refunded, reported, faults>>
    BY <1>4 DEF Receive, asset
  <2>6. UNCHANGED call /\ Lasting
    BY <2>5, LastingKept
  <2> QED
    BY <2>1, <2>3, <2>4, <2>6, RememberKept
<1>5. ASSUME NEW w \in Worker, Work(w)
      PROVE  NothingForgotten'
  <2>a. worker[w].pc # "idle"
    BY <1>5 DEF Work, Generate, CheckStatus, StoreAsset, SubmitTalk, NextPoll,
       FinishVideo, MarkFailed, Refund, Acknowledge
  <2>j. PICK j \in Job : worker[w].job = j
    BY <2>a, <1>t
  <2>n. PICK n \in 0..MaxAttempts : worker[w].attempt = n
    BY <1>t
  <2>t. ASSUME NEW pc \in Places \ {"ack"}, Turn(w, pc), worker[w].pc # "ack",
               UNCHANGED <<call, queue, delivered, refunded, reported, faults>>
        PROVE  NothingForgotten'
    <3>1. UNCHANGED call /\ UNCHANGED queue /\ Lasting
      BY <2>t, LastingKept
    <3> QED
      BY <2>a, <2>j, <2>t, <3>1, <1>2
  <2>1. CASE Acknowledge(w)
    <3>1. /\ worker[w].pc = "ack"
          /\ UNCHANGED call /\ UNCHANGED queue /\ Lasting
      BY <2>1, LastingKept DEF Acknowledge, asset
    <3>2. \A v \in Worker \ {w} : worker'[v] = worker[v]
      BY <2>1, <1>t, Freed DEF Acknowledge
    <3>3. \A k \in Job : ~Runs(w, k)
      BY <3>1 DEF Runs
    <3> QED
      BY <3>1, <3>2, <3>3, RememberKept
  <2>2. ASSUME NEW ok \in BOOLEAN, Generate(w, ok)
        PROVE  NothingForgotten'
    <3>1. \E pc \in Places \ {"ack"} : Turn(w, pc)
      BY <2>2 DEF Generate, Places
    <3> QED
      BY <2>2, <3>1, <2>t DEF Generate, asset
  <2>3. ASSUME Retry(w), worker[w].pc # "ack",
               UNCHANGED <<call, queue, delivered, refunded, reported, faults>>
        PROVE  NothingForgotten'
    BY <2>3, <2>t DEF Retry, Places
  <2>4. ASSUME NEW answer \in {"done", "error", "running", "raise"}, CheckStatus(w, answer)
        PROVE  NothingForgotten'
    <3>1. worker[w].pc # "ack" /\ UNCHANGED <<call, queue, delivered, refunded, reported, faults>>
      BY <2>4 DEF CheckStatus, asset
    <3>2. Retry(w) \/ \E pc \in Places \ {"ack"} : Turn(w, pc)
      BY <2>4 DEF CheckStatus, Places
    <3> QED
      BY <3>1, <3>2, <2>3, <2>t
  <2>d. ASSUME delivered' = [delivered EXCEPT ![j] = @ + 1],
               UNCHANGED <<call, queue, refunded, reported, faults>>,
               Turn(w, "ack"), worker[w].pc # "ack"
        PROVE  NothingForgotten'
    <3>1. Settled(j)' /\ Lasting
      BY <2>d, <1>t DEF Settled, Lasting
    <3>2. UNCHANGED call /\ UNCHANGED queue
      BY <2>d
    <3> QED
      BY <2>a, <2>j, <2>d, <3>1, <3>2, <1>2 DEF Places
  <2>5. CASE StoreAsset(w)
    <3>1. worker[w].pc # "ack" /\ UNCHANGED <<call, queue, refunded, reported, faults>>
      BY <2>5 DEF StoreAsset
    <3>2. \/ delivered' = [delivered EXCEPT ![j] = @ + 1] /\ Turn(w, "ack")
          \/ UNCHANGED delivered /\ Turn(w, "fail")
      BY <2>5, <2>j DEF StoreAsset
    <3> QED
      BY <3>1, <3>2, <2>d, <2>t DEF Places
  <2>6. CASE SubmitTalk(w)
    <3>1. worker[w].pc # "ack" /\ UNCHANGED <<call, queue, delivered, refunded, reported, faults>>
      BY <2>6 DEF SubmitTalk
    <3>2. \E pc \in Places \ {"ack"} : Turn(w, pc)
      BY <2>6 DEF SubmitTalk, Places
    <3> QED
      BY <3>1, <3>2, <2>t
  <2>7. CASE NextPoll(w)
    <3>1. /\ worker[w].pc \in {"handoff", "again"} /\ n + 1 \in 0..MaxAttempts
          /\ UNCHANGED call /\ Lasting
      BY <2>7, <2>n, <1>t, BoundType, LastingKept DEF NextPoll, Shape, WorkerOK, asset
    <3>2. queue' = Enqueue(<<j, n + 1>>) /\ Turn(w, "ack")
      BY <2>7, <2>j, <2>n DEF NextPoll, Following
    <3>3. /\ queue'[<<j, n + 1>>] > 0
          /\ \A k \in Job, m \in 0..MaxAttempts : queue[<<k, m>>] > 0 => queue'[<<k, m>>] > 0
      BY <3>1, <3>2, <1>t, QueueGrows
    <3>4. \A v \in Worker \ {w} : worker'[v] = worker[v]
      BY <3>2, <1>t, Turned DEF Places
    <3>5. Remembered(j)'
      BY <3>1, <3>3 DEF Queued, Remembered, InHand
    <3>6. \A k \in Job : Runs(w, k) => Remembered(k)'
      BY <2>j, <3>5 DEF Runs
    <3> QED
      BY <3>1, <3>3, <3>4, <3>6, RememberKept
  <2>8. CASE FinishVideo(w)
    <3>1. worker[w].pc # "ack" /\ UNCHANGED <<call, queue, refunded, reported, faults>>
      BY <2>8 DEF FinishVideo
    <3>2. \/ delivered' = [delivered EXCEPT ![j] = @ + 1] /\ Turn(w, "ack")
          \/ UNCHANGED delivered /\ Retry(w)
      BY <2>8, <2>j DEF FinishVideo
    <3> QED
      BY <3>1, <3>2, <2>d, <2>3
  <2>9. CASE MarkFailed(w)
    <3>1. worker[w].pc # "ack" /\ Turn(w, "refund")
          /\ UNCHANGED <<call, queue, delivered, refunded, reported, faults>>
      BY <2>9 DEF MarkFailed
    <3> QED
      BY <3>1, <2>t DEF Places
  <2>10. CASE Refund(w)
    <3>1. /\ worker[w].pc = "refund" /\ Turn(w, "ack") /\ UNCHANGED faults
          /\ UNCHANGED call /\ UNCHANGED queue /\ UNCHANGED delivered
      BY <2>10 DEF Refund, asset
    <3>2. \/ refunded' = [refunded EXCEPT ![j] = @ + 1] /\ UNCHANGED reported
          \/ UNCHANGED refunded /\ reported' = reported \cup {j}
      BY <2>10, <2>j DEF Refund
    <3>3. Settled(j)' /\ Lasting
      BY <3>1, <3>2, <1>t DEF Settled, Lasting
    <3> QED
      BY <2>j, <3>1, <3>3, <1>2 DEF Places
  <2> QED
    BY <1>5, <2>1, <2>2, <2>4, <2>5, <2>6, <2>7, <2>8, <2>9, <2>10 DEF Work
<1>6. CASE Fault
  <2>1. ASSUME NEW j \in Job, LoseCall(j)
        PROVE  NothingForgotten'
    <3>1. /\ UNCHANGED <<queue, worker, delivered, refunded, reported>>
          /\ faults'.dropped = faults.dropped
      BY <2>1 DEF LoseCall, asset, TypeOK, Faults
    <3>2. CASE call[j].pc = "charged"
      <4>1. call'[j].pc = "lost" /\ \A k \in Job \ {j} : call'[k] = call[k]
        BY <2>1, <3>2, <1>t, Reached DEF LoseCall
      <4> QED
        BY <3>1, <4>1, <1>1 DEF Charged
    <3>3. CASE call[j].pc # "charged"
      <4>1. call'[j].pc = "none" /\ \A k \in Job \ {j} : call'[k] = call[k]
        BY <2>1, <3>3, <1>t DEF LoseCall, NoCall
      <4> QED
        BY <3>1, <4>1, <1>1 DEF Charged
    <3> QED
      BY <3>2, <3>3
  <2>2. ASSUME NEW w \in Worker, PollRefused(w)
        PROVE  NothingForgotten'
    <3>1. /\ worker[w].pc \in {"handoff", "again"}
          /\ UNCHANGED call /\ UNCHANGED queue /\ UNCHANGED <<delivered, refunded, reported>>
      BY <2>2 DEF PollRefused, asset
    <3>2. PICK j \in Job : worker[w].job = j
      BY <3>1, <1>t
    <3>3. CASE worker[w].pc = "handoff"
      <4>1. Turn(w, "fail") /\ faults'.dropped = faults.dropped
        BY <2>2, <3>3 DEF PollRefused, TypeOK, Faults
      <4>2. Lasting
        BY <3>1, <4>1 DEF Lasting, Settled
      <4> QED
        BY <3>1, <3>2, <4>1, <4>2, <1>2 DEF Places
    <3>4. CASE worker[w].pc = "again"
      <4>1. Turn(w, "ack") /\ faults'.dropped = faults.dropped \cup {j}
        BY <2>2, <3>2, <3>4 DEF PollRefused, TypeOK, Faults
      <4>2. Lasting
        BY <3>1, <4>1 DEF Lasting, Settled
      <4> QED
        BY <3>1, <3>2, <4>1, <4>2, <1>2 DEF Places
    <3> QED
      BY <3>1, <3>3, <3>4
  <2>3. ASSUME NEW w \in Worker, RefundFails(w)
        PROVE  NothingForgotten'
    <3>1. faults'.dropped = faults.dropped
      BY <2>3 DEF RefundFails, TypeOK, Faults
    <3>2. /\ worker[w].pc = "refund" /\ Turn(w, "ack")
          /\ UNCHANGED call /\ UNCHANGED queue /\ UNCHANGED <<delivered, refunded>>
      BY <2>3 DEF RefundFails, asset
    <3>3. PICK j \in Job : worker[w].job = j
      BY <3>2, <1>t
    <3>4. Settled(j)' /\ Lasting
      BY <2>3, <3>1, <3>2, <3>3 DEF RefundFails, Settled, Lasting
    <3> QED
      BY <3>2, <3>3, <3>4, <1>2 DEF Places
  <2>4. ASSUME NEW w \in Worker, WorkerDies(w)
        PROVE  NothingForgotten'
    <3>1. PICK j \in Job, n \in 0..MaxAttempts : worker[w].job = j /\ worker[w].attempt = n
      BY <2>4, <1>t DEF WorkerDies
    <3>2. /\ queue' = Enqueue(<<j, n>>) /\ UNCHANGED call
          /\ UNCHANGED <<delivered, refunded, reported>>
      BY <2>4, <3>1 DEF WorkerDies, Requeue, asset
    <3>3. faults'.dropped = faults.dropped
      BY <2>4 DEF WorkerDies, TypeOK, Faults
    <3>4. /\ queue'[<<j, n>>] > 0
          /\ \A k \in Job, m \in 0..MaxAttempts : queue[<<k, m>>] > 0 => queue'[<<k, m>>] > 0
      BY <3>2, <1>t, QueueGrows
    <3>5. \A v \in Worker \ {w} : worker'[v] = worker[v]
      BY <2>4, <1>t, Freed DEF WorkerDies
    <3>6. Remembered(j)'
      BY <3>4 DEF Queued, Remembered, InHand
    <3>7. \A k \in Job : Runs(w, k) => Remembered(k)'
      BY <3>1, <3>6 DEF Runs
    <3>8. Lasting
      BY <3>2, <3>3 DEF Settled, Lasting
    <3> QED
      BY <3>2, <3>4, <3>5, <3>7, <3>8, RememberKept
  <2> QED
    BY <1>6, <2>1, <2>2, <2>3, <2>4 DEF Fault
<1>7. CASE Outside
  <2>1. ASSUME NEW j \in Job, NEW u \in User, NEW c \in Amount, NEW m \in Message \cup {Nil}, Ask(j, u, c, m)
        PROVE  NothingForgotten'
    <3>1. call'[j].pc = "asked" /\ \A k \in Job \ {j} : call'[k] = call[k]
      BY <2>1, <1>t DEF Ask
    <3> QED
      BY <2>1, <3>1, <1>1 DEF Ask, Charged, asset
  <2>2. CASE UNCHANGED <<call, queue, worker, delivered, refunded, reported, faults>>
    BY <2>2, <1>1 DEF Charged
  <2> QED
    BY <1>7, <2>1, <2>2 DEF Outside, DeleteAsset, DeleteMessage, DeleteAccount, SpendElsewhere, asset
<1>8. CASE UNCHANGED vars
  BY <1>8, <1>1 DEF vars, asset, Charged
<1> QED
  BY <1>3, <1>4, <1>5, <1>6, <1>7, <1>8 DEF Next

-----------------------------------------------------------------------------
(* While no worker dies.                                                   *)

Sound(j) == OneTask(j) /\ Open(j) /\ Once(j) /\ StatusTrue(j)
Single == faults.deaths = 0 => \A j \in Job : Sound(j)

\* A step that leaves the tasks and outcomes of a job alone, and does not mark
\* its video completed or failed.
LEMMA SoundKept ==
    ASSUME NEW k \in Job, Sound(k),
           \A n \in 0..MaxAttempts : queue'[<<k, n>>] = queue[<<k, n>>],
           \A w \in Worker : Runs(w, k)' => Runs(w, k),
           call'[k].pc = "published" <=> call[k].pc = "published",
           delivered'[k] = delivered[k], refunded'[k] = refunded[k],
           video'[k] = video[k] \/ video'[k] \notin {"completed", "failed"}
    PROVE  Sound(k)'
<1>1. OneTask(k)'
  BY DEF Sound, OneTask
<1>2. Queued(k)' => Queued(k)
  BY DEF Queued
<1>3. Running(k)' => Running(k)
  BY DEF Running
<1>4. Open(k)'
  BY <1>2, <1>3 DEF Sound, Open
<1>5. Once(k)'
  BY DEF Sound, Once
<1>6. StatusTrue(k)'
  BY DEF Sound, StatusTrue
<1> QED
  BY <1>1, <1>4, <1>5, <1>6 DEF Sound

\* A job that a worker runs has no outcome and no other task.
LEMMA Alone ==
    ASSUME NEW j \in Job, NEW w \in Worker, Sound(j), Runs(w, j), queue \in [Task -> Nat]
    PROVE  /\ delivered[j] = 0 /\ refunded[j] = 0 /\ video[j] # "completed"
           /\ \A n \in 0..MaxAttempts : queue[<<j, n>>] = 0
           /\ \A v \in Worker \ {w} : ~Runs(v, j)
<1>1. Running(j)
  BY DEF Running
<1>2. delivered[j] = 0 /\ refunded[j] = 0
  BY <1>1 DEF Sound, Open
<1>3. video[j] # "completed"
  BY <1>2 DEF Sound, StatusTrue
<1>4. ASSUME NEW n \in 0..MaxAttempts
      PROVE  queue[<<j, n>>] = 0
  <2>1. queue[<<j, n>>] \in Nat
    BY DEF Task
  <2>2. ~(queue[<<j, n>>] > 0)
    BY DEF Sound, OneTask
  <2> QED
    BY <2>1, <2>2
<1>5. \A v \in Worker \ {w} : ~Runs(v, j)
  BY DEF Sound, OneTask
<1> QED
  BY <1>2, <1>3, <1>4, <1>5

\* Nobody else comes to run a job that one worker runs.
LEMMA SoundAlone ==
    ASSUME NEW j \in Job, NEW w \in Worker,
           \A n \in 0..MaxAttempts : queue'[<<j, n>>] = 0,
           \A v \in Worker \ {w} : ~Runs(v, j)',
           (delivered'[j] = 0 /\ refunded'[j] = 0) \/ (call'[j].pc = "published" /\ ~Runs(w, j)'),
           Once(j)', StatusTrue(j)'
    PROVE  Sound(j)'
<1>e. \A n \in 0..MaxAttempts : ~(queue'[<<j, n>>] > 0) /\ queue'[<<j, n>>] <= 1
  OBVIOUS
<1>1. OneTask(j)'
  <2>1. \A v, x \in Worker : Runs(v, j)' /\ Runs(x, j)' => v = x
    OBVIOUS
  <2> QED
    BY <1>e, <2>1 DEF OneTask
<1>2. ~Queued(j)'
  BY <1>e DEF Queued
<1>3. Running(j)' => Runs(w, j)'
  BY DEF Running
<1>4. Open(j)'
  BY <1>2, <1>3 DEF Open
<1> QED
  BY <1>1, <1>4 DEF Sound

\* One task waits, nobody runs one.
LEMMA SoundWaiting ==
    ASSUME NEW j \in Job, NEW n \in 0..MaxAttempts,
           queue'[<<j, n>>] = 1,
           \A m \in 0..MaxAttempts : m # n => queue'[<<j, m>>] = 0,
           \A v \in Worker : ~Runs(v, j)',
           delivered'[j] = 0, refunded'[j] = 0, video'[j] # "completed"
    PROVE  Sound(j)'
<1>1. OneTask(j)'
  BY DEF OneTask
<1>2. Open(j)' /\ Once(j)' /\ StatusTrue(j)'
  BY DEF Open, Once, StatusTrue
<1> QED
  BY <1>1, <1>2 DEF Sound

\* A worker goes on with its job: the others are not concerned, and its own is
\* settled at most once, by the step that ends the task.
LEMMA SoundTurned ==
    ASSUME TypeOK, Shape, \A k \in Job : Sound(k),
           NEW w \in Worker, NEW j \in Job, worker[w].job = j,
           worker[w].pc \notin {"idle", "ack"},
           NEW pc \in Places, Turn(w, pc), UNCHANGED call, UNCHANGED queue,
           \A k \in Job \ {j} : /\ delivered'[k] = delivered[k] /\ refunded'[k] = refunded[k]
                                 /\ video'[k] = video[k],
           (delivered'[j] = delivered[j] /\ refunded'[j] = refunded[j]) \/ pc = "ack",
           delivered[j] = 0 /\ refunded[j] = 0 /\ video[j] # "completed"
               => Once(j)' /\ StatusTrue(j)'
    PROVE  \A k \in Job : Sound(k)'
<1>t. queue \in [Task -> Nat] /\ worker \in [Worker -> Process]
  BY DEF TypeOK
<1>1. /\ worker'[w].pc = pc /\ worker'[w].job = j
      /\ \A v \in Worker \ {w} : worker'[v] = worker[v]
  BY <1>t, Turned
<1>2. Runs(w, j)
  BY DEF Runs
<1>3. ASSUME NEW k \in Job \ {j}
      PROVE  Sound(k)'
  <2>1. \A v \in Worker : Runs(v, k)' => Runs(v, k)
    BY <1>1 DEF Runs
  <2>2. \A n \in 0..MaxAttempts : queue'[<<k, n>>] = queue[<<k, n>>]
    OBVIOUS
  <2>3. call'[k].pc = "published" <=> call[k].pc = "published"
    OBVIOUS
  <2>4. /\ delivered'[k] = delivered[k] /\ refunded'[k] = refunded[k]
        /\ video'[k] = video[k] \/ video'[k] \notin {"completed", "failed"}
    OBVIOUS
  <2> QED
    BY <2>1, <2>2, <2>3, <2>4, SoundKept
<1>4. Sound(j)'
  <2>1. /\ delivered[j] = 0 /\ refunded[j] = 0 /\ video[j] # "completed"
        /\ \A n \in 0..MaxAttempts : queue[<<j, n>>] = 0
        /\ \A v \in Worker \ {w} : ~Runs(v, j)
    BY <1>2, <1>t, Alone
  <2>2. \A v \in Worker \ {w} : ~Runs(v, j)'
    BY <1>1, <2>1 DEF Runs
  <2>3. pc = "ack" => ~Runs(w, j)'
    BY <1>1 DEF Runs
  <2>4. call'[j].pc = "published"
    BY DEF Shape, WorkerOK
  <2>5. \A n \in 0..MaxAttempts : queue'[<<j, n>>] = 0
    BY <2>1
  <2>6. /\ (delivered'[j] = 0 /\ refunded'[j] = 0) \/ (call'[j].pc = "published" /\ ~Runs(w, j)')
        /\ Once(j)' /\ StatusTrue(j)'
    BY <2>1, <2>3, <2>4
  <2> QED
    BY <2>2, <2>5, <2>6, SoundAlone
<1> QED
  BY <1>3, <1>4

\* The death of a worker is not undone.
LEMMA DeathsStay ==
    ASSUME TypeOK, [Next]_vars, faults'.deaths = 0
    PROVE  /\ faults.deaths = 0
           /\ \A w \in Worker : ~WorkerDies(w)
<1>t. faults.deaths \in Nat
  BY BoundType DEF TypeOK, Faults
<1>1. ASSUME NEW w \in Worker
      PROVE  ~WorkerDies(w)
  <2>1. WorkerDies(w) => faults'.deaths = faults.deaths + 1
    BY DEF WorkerDies, TypeOK, Faults
  <2> QED
    BY <1>t, <2>1
<1>2. UNCHANGED faults => faults.deaths = 0
  OBVIOUS
<1>3. ASSUME NEW j \in Job, LoseCall(j)
      PROVE  faults.deaths = 0
  BY <1>3 DEF LoseCall, TypeOK, Faults
<1>4. ASSUME NEW w \in Worker, PollRefused(w) \/ RefundFails(w)
      PROVE  faults.deaths = 0
  BY <1>4 DEF PollRefused, RefundFails, TypeOK, Faults
<1>5. CASE Fault
  BY <1>1, <1>3, <1>4, <1>5 DEF Fault
<1>6. ASSUME NEW j \in Job, Serve(j)
      PROVE  UNCHANGED faults
  BY <1>6 DEF Serve, ReserveCredits, CommitCharge, Publish
<1>7. ASSUME NEW w \in Worker, Work(w)
      PROVE  UNCHANGED faults
  BY <1>7 DEF Work, Generate, CheckStatus, StoreAsset, SubmitTalk, NextPoll,
     FinishVideo, MarkFailed, Refund, Acknowledge
<1>8. Outside => UNCHANGED faults
  BY DEF Outside, Ask, DeleteAsset, DeleteMessage, DeleteAccount, SpendElsewhere
<1>9. ASSUME NEW w \in Worker, NEW j \in Job, NEW n \in 0..MaxAttempts, Receive(w, j, n)
      PROVE  UNCHANGED faults
  BY <1>9 DEF Receive
<1> QED
  BY <1>1, <1>2, <1>5, <1>6, <1>7, <1>8, <1>9 DEF Next, vars

LEMMA SingleStep == TypeOK /\ TypeOK' /\ Shape /\ Single /\ [Next]_vars => Single'
<1> SUFFICES ASSUME TypeOK, TypeOK', Shape, Single, [Next]_vars, faults'.deaths = 0
             PROVE  \A k \in Job : Sound(k)'
  BY DEF Single
<1>s. \A k \in Job : Sound(k)
  BY DeathsStay DEF Single
<1>t. /\ call \in [Job -> Call] /\ queue \in [Task -> Nat] /\ worker \in [Worker -> Process]
      /\ delivered \in [Job -> Nat] /\ refunded \in [Job -> Nat]
      /\ video \in [Job -> {"absent", "processing", "external", "completed", "failed"}]
      /\ \A w \in Worker : worker[w].pc # "idle" => worker[w].job \in Job
      /\ \A w \in Worker : worker[w].attempt \in 0..MaxAttempts
  BY DEF TypeOK, Process
<1>p. \A k \in Job : call[k].pc = "published" => call'[k].pc = "published"
  BY StaysPublished
<1>1. ASSUME UNCHANGED <<queue, worker, delivered, refunded>>,
             \A k \in Job : call'[k].pc = "published" => call[k].pc = "published",
             \A k \in Job : video'[k] = video[k] \/ video'[k] \notin {"completed", "failed"}
      PROVE  \A k \in Job : Sound(k)'
  <2> SUFFICES ASSUME NEW k \in Job
               PROVE  Sound(k)'
    OBVIOUS
  <2>1. \A w \in Worker : Runs(w, k)' => Runs(w, k)
    BY <1>1 DEF Runs
  <2>2. /\ \A n \in 0..MaxAttempts : queue'[<<k, n>>] = queue[<<k, n>>]
        /\ delivered'[k] = delivered[k] /\ refunded'[k] = refunded[k]
    BY <1>1
  <2>3. /\ call'[k].pc = "published" <=> call[k].pc = "published"
        /\ video'[k] = video[k] \/ video'[k] \notin {"completed", "failed"}
    BY <1>1, <1>p
  <2> QED
    BY <1>s, <2>1, <2>2, <2>3, SoundKept
<1>2. ASSUME NEW j \in Job, Serve(j)
      PROVE  \A k \in Job : Sound(k)'
  <2>1. CASE ReserveCredits(j)
    <3>1. call'[j].pc # "published" /\ \A k \in Job \ {j} : call'[k] = call[k]
      BY <2>1, <1>t DEF ReserveCredits, NoCall
    <3> QED
      BY <2>1, <3>1, <1>1 DEF ReserveCredits, asset
  <2>2. CASE CommitCharge(j)
    <3>1. call'[j].pc # "published" /\ \A k \in Job \ {j} : call'[k] = call[k]
      BY <2>2, <1>t, Reached DEF CommitCharge
    <3>2. \A k \in Job : video'[k] = video[k] \/ video'[k] \notin {"completed", "failed"}
      BY <2>2, <1>t DEF CommitCharge
    <3> QED
      BY <2>2, <3>1, <3>2, <1>1 DEF CommitCharge
  <2>3. CASE Publish(j)
    <3>1. /\ 0 \in 0..MaxAttempts /\ queue' = Enqueue(<<j, 0>>) /\ Reach(j, "published")
          /\ call[j].pc = "charged"
          /\ UNCHANGED worker /\ UNCHANGED delivered /\ UNCHANGED refunded /\ UNCHANGED video
      BY <2>3, BoundType DEF Publish, asset
    <3>2. \A k \in Job \ {j} : call'[k] = call[k]
      BY <3>1, <1>t, Reached
    <3>3. \A m \in 0..MaxAttempts : queue[<<j, m>>] = 0
      <4>1. \A m \in 0..MaxAttempts : queue[<<j, m>>] \in Nat /\ ~(queue[<<j, m>>] > 0)
        BY <3>1, <1>t DEF Shape, Queued, Task
      <4> QED
        BY <4>1
    <3>4. /\ queue'[<<j, 0>>] = 1
          /\ \A m \in 0..MaxAttempts : m # 0 => queue'[<<j, m>>] = 0
          /\ \A k \in Job \ {j}, m \in 0..MaxAttempts : queue'[<<k, m>>] = queue[<<k, m>>]
      <4>1. /\ queue'[<<j, 0>>] = queue[<<j, 0>>] + 1
            /\ \A i \in Job, m \in 0..MaxAttempts :
                  i # j \/ m # 0 => queue'[<<i, m>>] = queue[<<i, m>>]
        BY ZenonT(60), <3>1, <1>t, Enqueued
      <4>2. queue'[<<j, 0>>] = 1
        BY <3>1, <3>3, <4>1
      <4> QED
        BY <3>3, <4>1, <4>2
    <3>5. \A v \in Worker : ~Runs(v, j)'
      BY <3>1 DEF Runs, Shape, WorkerOK
    <3>6. delivered'[j] = 0 /\ refunded'[j] = 0 /\ video'[j] # "completed"
      BY <3>1, <1>s DEF Sound, Open, StatusTrue
    <3>7. Sound(j)'
      BY <3>1, <3>4, <3>5, <3>6, SoundWaiting
    <3>8. ASSUME NEW k \in Job \ {j}
          PROVE  Sound(k)'
      <4>1. \A v \in Worker : Runs(v, k)' => Runs(v, k)
        BY <3>1 DEF Runs
      <4>2. \A m \in 0..MaxAttempts : queue'[<<k, m>>] = queue[<<k, m>>]
        BY <3>4
      <4>3. /\ call'[k] = call[k] /\ delivered'[k] = delivered[k]
            /\ refunded'[k] = refunded[k] /\ video'[k] = video[k]
        BY <3>1, <3>2
      <4> QED
        BY <1>s, <4>1, <4>2, <4>3, SoundKept
    <3> QED
      BY <3>7, <3>8
  <2> QED
    BY <1>2, <2>1, <2>2, <2>3 DEF Serve
<1>3. ASSUME NEW w \in Worker, NEW j \in Job, NEW n \in 0..MaxAttempts, Receive(w, j, n)
      PROVE  \A k \in Job : Sound(k)'
  <2>1. /\ worker[w].pc = "idle" /\ worker'[w].job = j
        /\ \A v \in Worker \ {w} : worker'[v] = worker[v]
    BY <1>3, <1>t DEF Receive
  <2>2. /\ UNCHANGED call /\ UNCHANGED delivered /\ UNCHANGED refunded /\ UNCHANGED video
        /\ queue[<<j, n>>] > 0
    BY <1>3 DEF Receive, asset
  <2>3. /\ queue'[<<j, n>>] = queue[<<j, n>>] - 1
        /\ \A i \in Job, m \in 0..MaxAttempts :
              i # j \/ m # n => queue'[<<i, m>>] = queue[<<i, m>>]
        /\ \A i \in Job, m \in 0..MaxAttempts : queue[<<i, m>>] \in Nat
    <3>1. queue' = [queue EXCEPT ![<<j, n>>] = @ - 1]
      BY <1>3 DEF Receive
    <3> QED
      BY ZenonT(60), <2>2, <3>1, <1>t, Dequeued
  <2>4. ASSUME NEW k \in Job \ {j}
        PROVE  Sound(k)'
    <3>1. \A v \in Worker : Runs(v, k)' => Runs(v, k)
      BY <2>1 DEF Runs
    <3>2. \A m \in 0..MaxAttempts : queue'[<<k, m>>] = queue[<<k, m>>]
      BY <2>3
    <3>3. /\ call'[k] = call[k] /\ delivered'[k] = delivered[k]
          /\ refunded'[k] = refunded[k] /\ video'[k] = video[k]
      BY <2>2
    <3> QED
      BY <1>s, <3>1, <3>2, <3>3, SoundKept
  <2>5. Sound(j)'
    <3>1. /\ \A m \in 0..MaxAttempts : queue[<<j, m>>] <= 1
          /\ \A m \in 0..MaxAttempts : queue[<<j, m>>] > 0 => m = n
          /\ \A v \in Worker : ~Runs(v, j)
      BY <1>s, <2>2 DEF Sound, OneTask
    <3>2. \A m \in 0..MaxAttempts : queue'[<<j, m>>] = 0
      <4>1. ASSUME NEW m \in 0..MaxAttempts
            PROVE  queue'[<<j, m>>] = 0
        <5>1. CASE m = n
          BY <2>2, <2>3, <3>1, <5>1
        <5>2. CASE m # n
          BY <2>3, <3>1, <5>2
        <5> QED
          BY <5>1, <5>2
      <4> QED
        BY <4>1
    <3>3. \A v \in Worker \ {w} : ~Runs(v, j)'
      BY <2>1, <3>1 DEF Runs
    <3>4. Queued(j)
      BY <2>2 DEF Queued
    <3>5. delivered'[j] = 0 /\ refunded'[j] = 0 /\ video'[j] # "completed"
      BY <1>s, <2>2, <3>4 DEF Sound, Open, StatusTrue
    <3>6. Once(j)' /\ StatusTrue(j)'
      BY <3>5 DEF Once, StatusTrue
    <3> QED
      BY <3>2, <3>3, <3>5, <3>6, SoundAlone
  <2> QED
    BY <2>4, <2>5
<1>4. ASSUME NEW w \in Worker, Work(w)
      PROVE  \A k \in Job : Sound(k)'
  <2>a. worker[w].pc # "idle"
    BY <1>4 DEF Work, Generate, CheckStatus, StoreAsset, SubmitTalk, NextPoll,
       FinishVideo, MarkFailed, Refund, Acknowledge
  <2>j. PICK j \in Job : worker[w].job = j
    BY <2>a, <1>t
  <2>n. PICK n \in 0..MaxAttempts : worker[w].attempt = n
    BY <1>t
  <2>t. ASSUME NEW pc \in Places, Turn(w, pc), worker[w].pc # "ack",
               UNCHANGED <<call, queue, delivered, refunded>>,
               \A k \in Job \ {j} : video'[k] = video[k],
               video'[j] = video[j] \/ video'[j] # "completed"
        PROVE  \A k \in Job : Sound(k)'
    <3>1. /\ UNCHANGED call /\ UNCHANGED queue
          /\ \A k \in Job : delivered'[k] = delivered[k] /\ refunded'[k] = refunded[k]
      BY <2>t
    <3>2. delivered[j] = 0 /\ refunded[j] = 0 /\ video[j] # "completed"
              => Once(j)' /\ StatusTrue(j)'
      BY <2>t, <3>1 DEF Once, StatusTrue
    <3> QED
      BY <2>a, <2>j, <2>t, <3>1, <3>2, <1>s, SoundTurned
  <2>1. CASE Acknowledge(w)
    <3>1. /\ worker[w].pc = "ack"
          /\ UNCHANGED <<call, queue, delivered, refunded, video>>
      BY <2>1 DEF Acknowledge, asset
    <3>2. worker'[w].pc = "idle" /\ \A v \in Worker \ {w} : worker'[v] = worker[v]
      BY <2>1, <1>t, Freed DEF Acknowledge
    <3>3. ASSUME NEW k \in Job
          PROVE  Sound(k)'
      <4>1. \A v \in Worker : Runs(v, k)' => Runs(v, k)
        BY <3>2 DEF Runs
      <4>2. \A m \in 0..MaxAttempts : queue'[<<k, m>>] = queue[<<k, m>>]
        BY <3>1
      <4>3. /\ call'[k] = call[k] /\ delivered'[k] = delivered[k]
            /\ refunded'[k] = refunded[k] /\ video'[k] = video[k]
        BY <3>1
      <4> QED
        BY <1>s, <4>1, <4>2, <4>3, SoundKept
    <3> QED
      BY <3>3
  <2>2. ASSUME NEW ok \in BOOLEAN, Generate(w, ok)
        PROVE  \A k \in Job : Sound(k)'
    <3>1. \E pc \in Places : Turn(w, pc)
      BY <2>2 DEF Generate, Places
    <3> QED
      BY <2>2, <3>1, <2>t DEF Generate, asset
  <2>3. ASSUME NEW answer \in {"done", "error", "running", "raise"}, CheckStatus(w, answer)
        PROVE  \A k \in Job : Sound(k)'
    <3>1. worker[w].pc # "ack" /\ UNCHANGED <<call, queue, delivered, refunded, video>>
      BY <2>3 DEF CheckStatus, asset
    <3>2. \E pc \in Places : Turn(w, pc)
      BY <2>3 DEF CheckStatus, Retry, Places
    <3> QED
      BY <3>1, <3>2, <2>t
  <2>d. ASSUME delivered' = [delivered EXCEPT ![j] = @ + 1],
               UNCHANGED <<call, queue, refunded>>,
               \A k \in Job \ {j} : video'[k] = video[k],
               video'[j] # "failed",
               Turn(w, "ack"), worker[w].pc # "ack"
        PROVE  \A k \in Job : Sound(k)'
    <3>1. /\ UNCHANGED call /\ UNCHANGED queue
          /\ delivered'[j] = delivered[j] + 1 /\ refunded'[j] = refunded[j]
          /\ \A k \in Job \ {j} : delivered'[k] = delivered[k] /\ refunded'[k] = refunded[k]
      BY <2>d, <1>t
    <3>2. delivered[j] = 0 /\ refunded[j] = 0 /\ video[j] # "completed"
              => Once(j)' /\ StatusTrue(j)'
      BY <2>d, <3>1 DEF Once, StatusTrue
    <3> QED
      BY <2>a, <2>j, <2>d, <3>1, <3>2, <1>s, SoundTurned DEF Places
  <2>4. CASE StoreAsset(w)
    <3>1. /\ worker[w].pc = "store" /\ UNCHANGED <<call, queue, refunded, video>>
      BY <2>4 DEF StoreAsset
    <3>2. video[j] = "absent"
      BY <3>1, <2>j DEF Shape, WorkerOK
    <3>3. \/ delivered' = [delivered EXCEPT ![j] = @ + 1] /\ Turn(w, "ack")
          \/ UNCHANGED delivered /\ Turn(w, "fail")
      BY <2>4, <2>j DEF StoreAsset
    <3> QED
      BY <3>1, <3>2, <3>3, <2>d, <2>t DEF Places
  <2>5. CASE SubmitTalk(w)
    <3>1. worker[w].pc # "ack" /\ UNCHANGED <<call, queue, delivered, refunded>>
      BY <2>5 DEF SubmitTalk
    <3>2. \E pc \in Places : Turn(w, pc)
      BY <2>5 DEF SubmitTalk, Places
    <3>3. /\ \A k \in Job \ {j} : video'[k] = video[k]
          /\ video'[j] = video[j] \/ video'[j] # "completed"
      BY <2>5, <2>j, <1>t DEF SubmitTalk
    <3> QED
      BY <3>1, <3>2, <3>3, <2>t
  <2>6. CASE NextPoll(w)
    <3>1. /\ worker[w].pc \in {"handoff", "again"} /\ n + 1 \in 0..MaxAttempts
          /\ UNCHANGED call /\ UNCHANGED delivered /\ UNCHANGED refunded /\ UNCHANGED video
      BY <2>6, <2>n, <1>t, BoundType DEF NextPoll, Shape, WorkerOK, asset
    <3>2. queue' = Enqueue(<<j, n + 1>>) /\ Turn(w, "ack")
      BY <2>6, <2>j, <2>n DEF NextPoll, Following
    <3>3. /\ worker'[w].pc = "ack" /\ \A v \in Worker \ {w} : worker'[v] = worker[v]
      BY <3>2, <1>t, Turned DEF Places
    <3>4. /\ queue'[<<j, n + 1>>] = queue[<<j, n + 1>>] + 1
          /\ \A i \in Job, m \in 0..MaxAttempts :
                i # j \/ m # n + 1 => queue'[<<i, m>>] = queue[<<i, m>>]
      BY ZenonT(60), <3>1, <3>2, <1>t, Enqueued
    <3>5. Runs(w, j)
      BY <2>j, <3>1 DEF Runs
    <3>6. /\ delivered[j] = 0 /\ refunded[j] = 0 /\ video[j] # "completed"
          /\ \A m \in 0..MaxAttempts : queue[<<j, m>>] = 0
          /\ \A v \in Worker \ {w} : ~Runs(v, j)
      BY <3>5, <1>s, <1>t, Alone
    <3>7. Sound(j)'
      <4>1. \A v \in Worker : ~Runs(v, j)'
        BY <3>3, <3>6 DEF Runs
      <4>2. queue'[<<j, n + 1>>] = 1
        BY <3>1, <3>4, <3>6
      <4>3. \A m \in 0..MaxAttempts : m # n + 1 => queue'[<<j, m>>] = 0
        BY <3>4, <3>6
      <4>4. delivered'[j] = 0 /\ refunded'[j] = 0 /\ video'[j] # "completed"
        BY <3>1, <3>6
      <4> QED
        BY <3>1, <4>1, <4>2, <4>3, <4>4, SoundWaiting
    <3>8. ASSUME NEW k \in Job \ {j}
          PROVE  Sound(k)'
      <4>1. \A v \in Worker : Runs(v, k)' => Runs(v, k)
        BY <3>3 DEF Runs
      <4>2. \A m \in 0..MaxAttempts : queue'[<<k, m>>] = queue[<<k, m>>]
        BY <3>4
      <4>3. /\ call'[k] = call[k] /\ delivered'[k] = delivered[k]
            /\ refunded'[k] = refunded[k] /\ video'[k] = video[k]
        BY <3>1
      <4> QED
        BY <1>s, <4>1, <4>2, <4>3, SoundKept
    <3> QED
      BY <3>7, <3>8
  <2>7. CASE FinishVideo(w)
    <3>1. worker[w].pc = "finish" /\ UNCHANGED <<call, queue, refunded>>
      BY <2>7 DEF FinishVideo
    <3>2. CASE video[j] # "absent"
      <4>1. /\ delivered' = [delivered EXCEPT ![j] = @ + 1] /\ Turn(w, "ack")
            /\ video' = [video EXCEPT ![j] = "completed"]
        BY <2>7, <2>j, <3>2 DEF FinishVideo
      <4>2. /\ \A k \in Job \ {j} : video'[k] = video[k]
            /\ video'[j] # "failed"
        BY <4>1, <1>t
      <4> QED
        BY <3>1, <4>1, <4>2, <2>d
    <3>3. CASE video[j] = "absent"
      <4>1. UNCHANGED <<video, delivered>> /\ \E pc \in Places : Turn(w, pc)
        BY <2>7, <2>j, <3>3 DEF FinishVideo, Retry, Places
      <4> QED
        BY <3>1, <4>1, <2>t
    <3> QED
      BY <3>2, <3>3
  <2>8. CASE MarkFailed(w)
    <3>1. worker[w].pc # "ack" /\ Turn(w, "refund")
          /\ UNCHANGED <<call, queue, delivered, refunded>>
      BY <2>8 DEF MarkFailed
    <3>2. /\ \A k \in Job \ {j} : video'[k] = video[k]
          /\ video'[j] = video[j] \/ video'[j] # "completed"
      BY <2>8, <2>j, <1>t DEF MarkFailed
    <3> QED
      BY <3>1, <3>2, <2>t DEF Places
  <2>9. CASE Refund(w)
    <3>1. /\ worker[w].pc = "refund" /\ Turn(w, "ack")
          /\ UNCHANGED call /\ UNCHANGED queue /\ UNCHANGED delivered /\ UNCHANGED video
      BY <2>9 DEF Refund, asset
    <3>2. refunded' = [refunded EXCEPT ![j] = @ + 1] \/ UNCHANGED refunded
      BY <2>9, <2>j DEF Refund
    <3>3. CASE UNCHANGED refunded
      BY <3>1, <3>3, <2>t DEF Places
    <3>4. CASE refunded' = [refunded EXCEPT ![j] = @ + 1]
      <4>1. /\ refunded'[j] = refunded[j] + 1
            /\ \A k \in Job \ {j} : refunded'[k] = refunded[k]
        BY <3>4, <1>t
      <4>2. delivered[j] = 0 /\ refunded[j] = 0 /\ video[j] # "completed"
                => Once(j)' /\ StatusTrue(j)'
        BY <3>1, <4>1 DEF Once, StatusTrue
      <4>3. \A k \in Job \ {j} : /\ delivered'[k] = delivered[k] /\ refunded'[k] = refunded[k]
                                  /\ video'[k] = video[k]
        BY <3>1, <4>1
      <4> QED
        BY <2>a, <2>j, <3>1, <4>2, <4>3, <1>s, SoundTurned DEF Places
    <3> QED
      BY <3>2, <3>3, <3>4
  <2> QED
    BY <1>4, <2>1, <2>2, <2>3, <2>4, <2>5, <2>6, <2>7, <2>8, <2>9 DEF Work
<1>5. CASE Fault
  <2>1. ASSUME NEW j \in Job, LoseCall(j)
        PROVE  \A k \in Job : Sound(k)'
    <3>1. call'[j].pc # "published" /\ \A k \in Job \ {j} : call'[k] = call[k]
      <4>1. CASE call[j].pc = "charged"
        BY <2>1, <4>1, <1>t, Reached DEF LoseCall
      <4>2. CASE call[j].pc # "charged"
        BY <2>1, <4>2, <1>t DEF LoseCall, NoCall
      <4> QED
        BY <4>1, <4>2
    <3> QED
      BY <2>1, <3>1, <1>1 DEF LoseCall, asset
  <2>2. ASSUME NEW w \in Worker, NEW pc \in Places, Turn(w, pc),
               worker[w].pc \notin {"idle", "ack"},
               UNCHANGED <<call, queue, delivered, refunded, video>>
        PROVE  \A k \in Job : Sound(k)'
    <3>1. PICK j \in Job : worker[w].job = j
      BY <2>2, <1>t
    <3>2. /\ UNCHANGED call /\ UNCHANGED queue
          /\ \A k \in Job : /\ delivered'[k] = delivered[k] /\ refunded'[k] = refunded[k]
                             /\ video'[k] = video[k]
      BY <2>2
    <3>3. Once(j)' /\ StatusTrue(j)'
      BY <3>2, <1>s DEF Sound, Once, StatusTrue
    <3> QED
      BY <2>2, <3>1, <3>2, <3>3, <1>s, SoundTurned
  <2>3. ASSUME NEW w \in Worker, PollRefused(w)
        PROVE  \A k \in Job : Sound(k)'
    <3>1. /\ worker[w].pc \in {"handoff", "again"}
          /\ UNCHANGED <<call, queue, delivered, refunded, video>>
          /\ \E pc \in Places : Turn(w, pc)
      BY <2>3 DEF PollRefused, Places, asset
    <3> QED
      BY <3>1, <2>2
  <2>4. ASSUME NEW w \in Worker, RefundFails(w)
        PROVE  \A k \in Job : Sound(k)'
    <3>1. /\ worker[w].pc = "refund" /\ Turn(w, "ack")
          /\ UNCHANGED <<call, queue, delivered, refunded, video>>
      BY <2>4 DEF RefundFails, asset
    <3> QED
      BY <3>1, <2>2 DEF Places
  <2> QED
    BY <1>5, <2>1, <2>3, <2>4, DeathsStay DEF Fault
<1>6. CASE Outside
  <2>1. ASSUME NEW j \in Job, NEW u \in User, NEW c \in Amount, NEW m \in Message \cup {Nil}, Ask(j, u, c, m)
        PROVE  \A k \in Job : Sound(k)'
    <3>1. call'[j].pc # "published" /\ \A k \in Job \ {j} : call'[k] = call[k]
      BY <2>1, <1>t DEF Ask
    <3> QED
      BY <2>1, <3>1, <1>1 DEF Ask, asset
  <2>2. ASSUME NEW j \in Job, DeleteAsset(j)
        PROVE  \A k \in Job : Sound(k)'
    <3>1. \A k \in Job : video'[k] = video[k] \/ video'[k] \notin {"completed", "failed"}
      BY <2>2, <1>t DEF DeleteAsset
    <3> QED
      BY <2>2, <3>1, <1>1 DEF DeleteAsset
  <2>3. ASSUME NEW u \in User, DeleteAccount(u)
        PROVE  \A k \in Job : Sound(k)'
    <3>1. \A k \in Job : video'[k] = video[k] \/ video'[k] \notin {"completed", "failed"}
      BY <2>3, <1>t DEF DeleteAccount
    <3> QED
      BY <2>3, <3>1, <1>1 DEF DeleteAccount
  <2> QED
    BY <1>6, <2>1, <2>2, <2>3, <1>1 DEF Outside, DeleteMessage, SpendElsewhere, asset
<1>7. CASE UNCHANGED vars
  BY <1>7, <1>1 DEF vars, asset
<1> QED
  BY <1>2, <1>3, <1>4, <1>5, <1>6, <1>7 DEF Next

-----------------------------------------------------------------------------
(* The invariant, and what follows from it.                                *)

\* The parts of MInv.
LEMMA Parts == MInv <=> TypeOK /\ Money /\ Shape /\ NothingForgotten /\ Single
<1>1. Single <=> (faults.deaths = 0 =>
                    \A j \in Job : OneTask(j) /\ Open(j) /\ Once(j) /\ StatusTrue(j))
  BY DEF Single, Sound
<1> QED
  BY <1>1 DEF MInv, Money, Shape

LEMMA InitMInv == Init => MInv
<1> SUFFICES ASSUME Init
             PROVE  MInv
  OBVIOUS
<1>0. /\ TypeOK
      /\ \A j \in Job : call[j].pc = "none"
      /\ \A j \in Job, n \in 0..MaxAttempts : queue[<<j, n>>] = 0
      /\ \A w \in Worker : worker[w].pc = "idle"
      /\ \A j \in Job : video[j] = "absent" /\ delivered[j] = 0 /\ refunded[j] = 0
      /\ \A u \in User : wallet[u] = Opening
      /\ member = User
  BY InitType DEF Init, NoCall, Free, Task
<1>1. Money
  <2>1. Opening # NoWallet
    BY BoundType, NoWalletAssumption
  <2> QED
    BY <1>0, <2>1 DEF Money, LocksExclusive, HoldsWallet
<1>2. \A j \in Job : ~Queued(j) /\ ~Running(j)
  <2>1. ASSUME NEW j \in Job, NEW n \in 0..MaxAttempts
        PROVE  ~(queue[<<j, n>>] > 0)
    <3>1. queue[<<j, n>>] = 0
      BY <1>0
    <3> QED
      BY <3>1
  <2>2. \A j \in Job, w \in Worker : ~Runs(w, j)
    BY <1>0 DEF Runs
  <2> QED
    BY <2>1, <2>2 DEF Queued, Running
<1>3. Shape
  BY <1>0, <1>2 DEF Shape, WorkerOK
<1>4. NothingForgotten
  BY <1>0 DEF NothingForgotten, Charged
<1>5. ASSUME NEW j \in Job
      PROVE  Sound(j)
  <2>1. OneTask(j)
    BY <1>0 DEF OneTask, Runs
  <2>2. Open(j) /\ Once(j) /\ StatusTrue(j)
    BY <1>0 DEF Open, Once, StatusTrue
  <2> QED
    BY <2>1, <2>2 DEF Sound
<1> QED
  BY <1>0, <1>1, <1>3, <1>4, <1>5, Parts DEF Single

LEMMA Invariant == Spec => []MInv
<1>1. MInv /\ [Next]_vars => MInv'
  <2> SUFFICES ASSUME MInv, [Next]_vars
               PROVE  MInv'
    OBVIOUS
  <2>1. TypeOK /\ Money /\ Shape /\ NothingForgotten /\ Single
    BY Parts
  <2>2. TypeOK'
    BY <2>1, StepType
  <2>3. Money' /\ Shape' /\ NothingForgotten' /\ Single'
    BY <2>1, <2>2, MoneyStep, ShapeStep, RememberStep, SingleStep
  <2> QED
    BY <2>2, <2>3, Parts, PTL
<1> QED
  BY <1>1, InitMInv, PTL DEF Spec

\* Whatever dies, is redelivered or deleted, and however many jobs, workers and
\* polls there are, a job that was charged has a task, an outcome or a reported
\* refund failure, unless its task or a poll of it never reached the broker
\* (tasks.py and the queueing part of media.py).
THEOREM Unforgotten == Spec => []NothingForgotten
<1>1. MInv => NothingForgotten
  BY DEF MInv
<1> QED
  BY <1>1, Invariant, PTL

\* While no worker dies in a task, no job is delivered twice, refunded twice, or
\* delivered and refunded (the tasks of tasks.py, _refund and the polls).
THEOREM OneOutcome == Spec => []DeliveredOrRefunded
<1>1. MInv => DeliveredOrRefunded
  BY DEF MInv, DeliveredOrRefunded
<1> QED
  BY <1>1, Invariant, PTL

\* While no worker dies in a task, the status of a video row tells what became of
\* the job (_fail_video and check_did_status_task).
THEOREM StatusHonest == Spec => []StatusIsTrue
<1>1. MInv => StatusIsTrue
  BY DEF MInv, StatusIsTrue
<1> QED
  BY <1>1, Invariant, PTL

\* Only the commit of an endpoint charges a job.
LEMMA OnlyCommitCharges ==
    ASSUME TypeOK, [Next]_vars, NEW j \in Job, call[j].pc = "reserved", call'[j].pc = "charged"
    PROVE  CommitCharge(j)
<1>t. call \in [Job -> Call]
  BY DEF TypeOK
<1>1. ~UNCHANGED call
  OBVIOUS
<1>2. ASSUME NEW i \in Job, NEW x, call' = [call EXCEPT ![i] = x]
      PROVE  i = j /\ x.pc = "charged"
  <2>1. \A k \in Job \ {i} : call'[k] = call[k]
    BY <1>2, <1>t
  <2>2. i = j
    BY <2>1
  <2> QED
    BY <1>2, <2>2, <1>t
<1>3. ASSUME NEW i \in Job, NEW pc \in {"charged", "published", "lost"}, Reach(i, pc)
      PROVE  i = j /\ pc = "charged"
  <2>1. call'[i].pc = pc /\ \A k \in Job \ {i} : call'[k] = call[k]
    BY <1>3, <1>t, Reached
  <2> QED
    BY <2>1
<1>4. ASSUME NEW i \in Job, Serve(i)
      PROVE  CommitCharge(j)
  <2>1. CASE ReserveCredits(i)
    BY <2>1, <1>2 DEF ReserveCredits, NoCall
  <2>2. CASE CommitCharge(i)
    BY <2>2, <1>3 DEF CommitCharge
  <2>3. CASE Publish(i)
    BY <2>3, <1>3 DEF Publish
  <2> QED
    BY <1>4, <2>1, <2>2, <2>3 DEF Serve
<1>5. ASSUME NEW w \in Worker, Work(w)
      PROVE  FALSE
  BY <1>1, <1>5 DEF Work, Generate, CheckStatus, StoreAsset, SubmitTalk, NextPoll,
     FinishVideo, MarkFailed, Refund, Acknowledge
<1>6. ASSUME NEW i \in Job, LoseCall(i)
      PROVE  FALSE
  BY <1>2, <1>3, <1>6 DEF LoseCall, NoCall
<1>7. ~Fault
  BY <1>1, <1>6 DEF Fault, PollRefused, RefundFails, WorkerDies
<1>8. ~Outside
  BY <1>1, <1>2 DEF Outside, Ask, DeleteAsset, DeleteMessage, DeleteAccount, SpendElsewhere
<1>9. ASSUME NEW w \in Worker, NEW i \in Job, NEW n \in 0..MaxAttempts, Receive(w, i, n)
      PROVE  FALSE
  BY <1>1, <1>9 DEF Receive
<1> QED
  BY <1>1, <1>4, <1>5, <1>7, <1>8, <1>9 DEF Next, vars

\* A media charge never overdraws, whatever chat charges, refunds and deletions
\* come between its check of the balance and its commit (_reserve_credits of
\* media.py with the conditional UPDATE of billing.py).
THEOREM Covered == Spec => ChargesAreCovered
<1>1. ASSUME MInv, [Next]_vars, NEW u \in User, NEW j \in Job,
             call[j].user = u, call[j].pc = "reserved", call'[j].pc = "charged"
      PROVE  wallet'[u] >= 0
  <2>1. CommitCharge(j)
    BY <1>1, OnlyCommitCharges DEF MInv
  <2>2. call[j].bal >= 0
    BY <1>1 DEF MInv, HoldsWallet
  <2>3. wallet'[u] = call[j].bal
    BY <1>1, <2>1 DEF MInv, TypeOK, CommitCharge
  <2> QED
    BY <2>2, <2>3
<1>2. MInv /\ [Next]_vars =>
        [\A u \in User, j \in Job :
            call[j].user = u /\ call[j].pc = "reserved" /\ call'[j].pc = "charged"
                => wallet'[u] >= 0]_vars
  BY <1>1
<1> QED
  BY <1>2, Invariant, PTL DEF Spec, ChargesAreCovered

-----------------------------------------------------------------------------
(* The ledger: what the jobs of an account have cost it.                   *)

Dues == [j \in Job |-> Paid(j)]
Jobs(u) == {j \in Job : call[j].user = u}
Total(u) == SumFunctionOnSet(Dues, Jobs(u))

\* What one job has cost one account.
Share(u, j) == IF call[j].user = u THEN Paid(j) ELSE 0

\* A request that has ended without a charge belongs to nobody, and only jobs
\* whose task was published are refunded.
Unpaid(j) ==
    /\ call[j].pc = "none" => call[j].user = Nil
    /\ refunded[j] > 0 => call[j].pc = "published"

Balanced(u) == u \in member => wallet[u] = Opening - spent[u] - Total(u)
Ledger ==
    /\ \A j \in Job : Unpaid(j)
    /\ \A u \in User : IsFiniteSet(Jobs(u)) /\ Balanced(u)

LEMMA TimesInt == \A n \in Nat, c \in Int : n * c \in Int /\ (n + 1) * c = n * c + c /\ 0 * c = 0
  OBVIOUS

LEMMA PaidInt ==
    ASSUME TypeOK, NEW j \in Job
    PROVE  Paid(j) \in Int /\ Dues[j] = Paid(j) /\ (refunded[j] = 0 /\ ~Charged(j) => Paid(j) = 0)
<1>1. call[j].cost \in Int /\ refunded[j] \in Nat
  BY AmountType DEF TypeOK, Call
<1>2. refunded[j] * call[j].cost \in Int /\ 0 * call[j].cost = 0
  BY <1>1, TimesInt
<1> QED
  BY <1>1, <1>2 DEF Paid, Dues

LEMMA TotalInt ==
    ASSUME TypeOK, NEW u \in User, IsFiniteSet(Jobs(u))
    PROVE  Total(u) \in Int
<1>1. \A j \in Jobs(u) : Dues[j] \in Int
  BY PaidInt DEF Jobs
<1> QED
  BY <1>1, SumInt DEF Total

\* A job's share is a term of the total, wherever the job belongs.
LEMMA TotalSplits ==
    ASSUME TypeOK, NEW u \in User, IsFiniteSet(Jobs(u)), NEW j \in Job
    PROVE  /\ IsFiniteSet(Jobs(u) \ {j})
           /\ Total(u) = Share(u, j) + SumFunctionOnSet(Dues, Jobs(u) \ {j})
           /\ SumFunctionOnSet(Dues, Jobs(u) \ {j}) \in Int /\ Share(u, j) \in Int
<1> DEFINE R == Jobs(u) \ {j}
<1>1. IsFiniteSet(R)
  BY FS_RemoveElement
<1>2. j \notin R /\ R \subseteq Job /\ \A x \in R : Dues[x] \in Int
  BY PaidInt DEF Jobs
<1>3. Dues[j] = Paid(j) /\ Paid(j) \in Int
  BY PaidInt
<1> HIDE DEF R
<1>4. SumFunctionOnSet(Dues, R) \in Int
  BY <1>1, <1>2, SumInt
<1>5. Total(u) = Share(u, j) + SumFunctionOnSet(Dues, R)
  <2>1. CASE call[j].user = u
    <3>1. Jobs(u) = R \cup {j} /\ \A x \in R \cup {j} : Dues[x] \in Int
      BY <1>2, <1>3, <2>1 DEF Jobs, R
    <3>2. SumFunctionOnSet(Dues, R \cup {j}) = Dues[j] + SumFunctionOnSet(Dues, R)
      BY <1>1, <1>2, <3>1, SumAdds
    <3> QED
      BY <1>3, <2>1, <3>1, <3>2 DEF Total, Share
  <2>2. CASE call[j].user # u
    <3>1. Jobs(u) = R
      BY <2>2 DEF Jobs, R
    <3> QED
      BY <1>4, <2>2, <3>1 DEF Total, Share
  <2> QED
    BY <2>1, <2>2
<1> QED
  BY <1>1, <1>3, <1>4, <1>5 DEF R, Share

\* A step moves one job: the totals move by what that job's shares do.
LEMMA TotalMoves ==
    ASSUME TypeOK, TypeOK', NEW u \in User, IsFiniteSet(Jobs(u)), NEW j \in Job,
           \A i \in Job \ {j} : call'[i] = call[i] /\ refunded'[i] = refunded[i]
    PROVE  /\ IsFiniteSet(Jobs(u)') /\ Total(u) \in Int
           /\ Total(u)' = Total(u) - Share(u, j) + Share(u, j)'
<1> DEFINE R == Jobs(u) \ {j}
<1>1. /\ IsFiniteSet(R) /\ Total(u) = Share(u, j) + SumFunctionOnSet(Dues, R)
      /\ SumFunctionOnSet(Dues, R) \in Int /\ Share(u, j) \in Int
  BY TotalSplits
<1>2. Jobs(u)' \ {j} = R
  BY DEF Jobs
<1>3. \A x \in R : Dues'[x] = Dues[x]
  BY DEF Jobs, Dues, Paid, Charged
<1> HIDE DEF R
<1>4. IsFiniteSet(Jobs(u)')
  <2>1. IsFiniteSet(R \cup {j})
    BY <1>1, FS_AddElement
  <2>2. Jobs(u)' \subseteq R \cup {j}
    BY <1>2
  <2> QED
    BY <2>1, <2>2, FS_Subset
<1>5. SumFunctionOnSet(Dues', R) = SumFunctionOnSet(Dues, R)
  BY <1>1, <1>3, SumSame
<1>6. /\ Total(u)' = Share(u, j)' + SumFunctionOnSet(Dues', Jobs(u)' \ {j})
      /\ Share(u, j)' \in Int
  <2>1. \A r \in Jobs(u)' : Dues'[r] \in Int
    <3>1. \A r \in Job : Paid(r)' \in Int
      <4> SUFFICES ASSUME NEW r \in Job PROVE Paid(r)' \in Int
        OBVIOUS
      <4>1. call'[r].cost \in Int /\ refunded'[r] \in Nat
        BY AmountType DEF TypeOK, Call
      <4>2. refunded'[r] * call'[r].cost \in Int
        BY <4>1, TimesInt
      <4> QED
        BY <4>1, <4>2 DEF Paid
    <3> QED
      BY <3>1 DEF Jobs, Dues
  <2>2. CASE call'[j].user = u
    <3>1. Jobs(u)' = R \cup {j} /\ j \notin R
      BY <1>2, <2>2 DEF Jobs
    <3>2. \A x \in R \cup {j} : Dues'[x] \in Int
      BY <2>1, <3>1
    <3>3. SumFunctionOnSet(Dues', R \cup {j}) = Dues'[j] + SumFunctionOnSet(Dues', R)
      BY <1>1, <3>1, <3>2, SumAdds
    <3>4. Dues'[j] = Paid(j)' /\ Dues'[j] \in Int
      BY <3>2 DEF Dues
    <3> QED
      BY <1>2, <2>2, <3>1, <3>3, <3>4 DEF Total, Share
  <2>3. CASE call'[j].user # u
    <3>1. Jobs(u)' = R
      BY <1>2, <2>3 DEF Jobs
    <3> QED
      BY <1>1, <1>2, <1>5, <2>3, <3>1 DEF Total, Share
  <2> QED
    BY <2>2, <2>3
<1> QED
  BY <1>1, <1>2, <1>4, <1>5, <1>6

\* No job's dues and no wallet move.
LEMMA LedgerQuiet ==
    ASSUME TypeOK, TypeOK', Ledger, UNCHANGED <<member, wallet, spent>>, NEW j \in Job,
           \A i \in Job \ {j} : call'[i] = call[i] /\ refunded'[i] = refunded[i],
           Unpaid(j)', \A u \in User : Share(u, j)' = Share(u, j)
    PROVE  Ledger'
<1>1. ASSUME NEW i \in Job PROVE Unpaid(i)'
  <2>1. CASE i = j
    BY <2>1
  <2>2. CASE i # j
    BY <2>2 DEF Ledger, Unpaid
  <2> QED
    BY <2>1, <2>2
<1>2. ASSUME NEW u \in User PROVE IsFiniteSet(Jobs(u)') /\ Balanced(u)'
  <2>1. IsFiniteSet(Jobs(u)) /\ Balanced(u)
    BY DEF Ledger
  <2>2. /\ IsFiniteSet(Jobs(u)') /\ Total(u) \in Int
        /\ Total(u)' = Total(u) - Share(u, j) + Share(u, j)'
    BY <2>1, TotalMoves
  <2>3. Share(u, j)' = Share(u, j) /\ Share(u, j) \in Int
    BY <2>1, TotalSplits
  <2>4. Total(u)' = Total(u)
    BY <2>2, <2>3
  <2> QED
    BY <2>1, <2>2, <2>4 DEF Balanced
<1> QED
  BY <1>1, <1>2 DEF Ledger

\* One job's share of its account moves with the account's wallet.
LEMMA LedgerMoves ==
    ASSUME TypeOK, TypeOK', Ledger, UNCHANGED <<member, spent>>, NEW j \in Job, NEW u \in User,
           \A i \in Job \ {j} : call'[i] = call[i] /\ refunded'[i] = refunded[i],
           Unpaid(j)', call[j].user = u, call'[j].user = u,
           NEW d \in Int, Paid(j)' = Paid(j) + d,
           wallet[u] \in Int, wallet'[u] = wallet[u] - d,
           \A v \in User \ {u} : wallet'[v] = wallet[v]
    PROVE  Ledger'
<1>1. ASSUME NEW i \in Job PROVE Unpaid(i)'
  <2>1. CASE i = j
    BY <2>1
  <2>2. CASE i # j
    BY <2>2 DEF Ledger, Unpaid
  <2> QED
    BY <2>1, <2>2
<1>2. ASSUME NEW v \in User PROVE IsFiniteSet(Jobs(v)') /\ Balanced(v)'
  <2>1. IsFiniteSet(Jobs(v)) /\ Balanced(v)
    BY DEF Ledger
  <2>2. /\ IsFiniteSet(Jobs(v)') /\ Total(v) \in Int
        /\ Total(v)' = Total(v) - Share(v, j) + Share(v, j)'
    BY <2>1, TotalMoves
  <2>3. Share(v, j) \in Int /\ spent[v] \in Int /\ Opening \in Int
    <3>1. Share(v, j) \in Int
      BY <2>1, TotalSplits
    <3>2. spent[v] \in Int /\ Opening \in Int
      BY BoundType DEF TypeOK
    <3> QED
      BY <3>1, <3>2
  <2>4. CASE v = u
    <3>1. Share(v, j)' = Share(v, j) + d
      BY <2>4 DEF Share
    <3>2. Total(v)' = Total(v) + d
      BY <2>2, <2>3, <3>1
    <3> QED
      BY <2>1, <2>2, <2>3, <2>4, <3>2 DEF Balanced
  <2>5. CASE v # u
    <3>1. Share(v, j)' = 0 /\ Share(v, j) = 0
      BY <2>5 DEF Share
    <3>2. Total(v)' = Total(v)
      BY <2>2, <3>1
    <3> QED
      BY <2>1, <2>2, <2>5, <3>2 DEF Balanced
  <2> QED
    BY <2>4, <2>5
<1> QED
  BY <1>1, <1>2 DEF Ledger

LEMMA LedgerStep == TypeOK /\ TypeOK' /\ Money /\ Shape /\ Ledger /\ [Next]_vars => Ledger'
<1> SUFFICES ASSUME TypeOK, TypeOK', Money, Shape, Ledger, [Next]_vars
             PROVE  Ledger'
  OBVIOUS
<1>t. /\ wallet \in [User -> Balance] /\ call \in [Job -> Call] /\ member \subseteq User
      /\ refunded \in [Job -> Nat] /\ spent \in [User -> Nat]
      /\ \A j \in Job : call[j].pc # "none" => call[j].user \in User /\ call[j].cost \in Amount
  BY DEF TypeOK
<1>u. \A j \in Job : Unpaid(j)
  BY DEF Ledger
<1>n. \A u \in User : wallet[u] # NoWallet => wallet[u] \in Int
  BY <1>t DEF Balance
<1>k. ASSUME UNCHANGED <<call, refunded>>, NEW u \in User
      PROVE  Jobs(u)' = Jobs(u) /\ Total(u)' = Total(u) /\ IsFiniteSet(Jobs(u)) /\ Balanced(u)
  <2>1. Dues' = Dues /\ Jobs(u)' = Jobs(u)
    BY <1>k DEF Dues, Paid, Charged, Jobs
  <2> QED
    BY <2>1 DEF Total, Ledger
<1>1. CASE UNCHANGED <<call, refunded, member, wallet, spent>>
  <2>1. \A j \in Job : Unpaid(j)'
    BY <1>1, <1>u DEF Unpaid
  <2> QED
    BY <1>1, <1>k, <2>1 DEF Ledger, Balanced
\* A job is refused, or lost, before its charge: its share was nothing.
<1>2. ASSUME NEW j \in Job, call[j].pc \in {"asked", "reserved"}, call' = [call EXCEPT ![j] = NoCall],
             UNCHANGED <<refunded, member, wallet, spent>>
      PROVE  Ledger'
  <2>1. call'[j] = NoCall /\ \A i \in Job \ {j} : call'[i] = call[i] /\ refunded'[i] = refunded[i]
    BY <1>2, <1>t
  <2>2. refunded[j] = 0 /\ refunded'[j] = 0
    BY <1>2, <1>t, <1>u DEF Unpaid
  <2>3. Unpaid(j)'
    BY <2>1, <2>2 DEF Unpaid, NoCall
  <2>4. Paid(j) = 0
    BY <1>2, <2>2, PaidInt DEF Charged
  <2>5. \A u \in User : Share(u, j)' = Share(u, j)
    BY <2>1, <2>4, JobAssumption DEF Share, NoCall
  <2> QED
    BY <1>2, <2>1, <2>3, <2>5, LedgerQuiet
\* A job goes on without a charge.
<1>3. ASSUME NEW j \in Job, \A i \in Job \ {j} : call'[i] = call[i],
             call[j].pc # "none", call'[j].pc # "none", refunded[j] > 0 => call'[j].pc = "published",
             call'[j].user = call[j].user, call'[j].cost = call[j].cost, Charged(j)' <=> Charged(j),
             UNCHANGED <<refunded, member, wallet, spent>>
      PROVE  Ledger'
  <2>1. Unpaid(j)'
    BY <1>3 DEF Unpaid
  <2>2. Paid(j)' = Paid(j)
    BY <1>3 DEF Paid
  <2>3. \A u \in User : Share(u, j)' = Share(u, j)
    BY <1>3, <2>2 DEF Share
  <2> QED
    BY <1>3, <2>1, <2>3, LedgerQuiet
<1>4. ASSUME NEW j \in Job, NEW u \in User, NEW c \in Amount, NEW m \in Message \cup {Nil}, Ask(j, u, c, m)
      PROVE  Ledger'
  <2>1. /\ call[j].pc = "none" /\ call'[j].pc = "asked" /\ UNCHANGED <<refunded, member, wallet, spent>>
        /\ \A i \in Job \ {j} : call'[i] = call[i] /\ refunded'[i] = refunded[i]
    BY <1>4, <1>t DEF Ask
  <2>2. refunded[j] = 0 /\ call[j].user = Nil
    BY <1>t, <1>u, <2>1 DEF Unpaid
  <2>3. Unpaid(j)'
    BY <2>1, <2>2 DEF Unpaid
  <2>4. Paid(j)' = 0
    <3>1. ~Charged(j)' /\ refunded'[j] = 0 /\ call'[j].cost \in Int
      BY <2>1, <2>2, AmountType DEF Charged, TypeOK, Call
    <3>2. 0 * call'[j].cost = 0
      BY <3>1, TimesInt
    <3> QED
      BY <3>1, <3>2 DEF Paid
  <2>5. \A v \in User : Share(v, j)' = Share(v, j)
    BY <2>2, <2>4, JobAssumption DEF Share
  <2> QED
    BY <2>1, <2>3, <2>5, LedgerQuiet
<1>5. ASSUME NEW j \in Job, ReserveCredits(j)
      PROVE  Ledger'
  <2>1. call[j].pc = "asked" /\ UNCHANGED <<refunded, member, wallet, spent>>
    BY <1>5 DEF ReserveCredits
  <2>2. CASE CanReserve(call[j].user, call[j].cost)
    <3>1. /\ call'[j].pc = "reserved" /\ call'[j].user = call[j].user /\ call'[j].cost = call[j].cost
          /\ \A i \in Job \ {j} : call'[i] = call[i]
      BY <1>5, <2>2, <1>t DEF ReserveCredits
    <3>2. ~(refunded[j] > 0)
      BY <1>u, <2>1 DEF Unpaid
    <3> QED
      BY <1>3, <2>1, <3>1, <3>2 DEF Charged
  <2>3. CASE ~CanReserve(call[j].user, call[j].cost)
    BY <1>2, <1>5, <2>1, <2>3 DEF ReserveCredits
  <2> QED
    BY <2>2, <2>3
<1>6. ASSUME NEW j \in Job, Publish(j)
      PROVE  Ledger'
  <2>1. call[j].pc = "charged" /\ Reach(j, "published") /\ UNCHANGED <<refunded, member, wallet, spent>>
    BY <1>6 DEF Publish
  <2>2. /\ call'[j].pc = "published" /\ call'[j].user = call[j].user /\ call'[j].cost = call[j].cost
        /\ \A i \in Job \ {j} : call'[i] = call[i]
    BY <2>1, <1>t, Reached
  <2> QED
    BY <1>3, <2>1, <2>2 DEF Charged
<1>7. ASSUME NEW j \in Job, LoseCall(j)
      PROVE  Ledger'
  <2>1. UNCHANGED <<refunded, member, wallet, spent>> /\ call[j].pc \in {"asked", "reserved", "charged"}
    BY <1>7 DEF LoseCall
  <2>2. CASE call[j].pc = "charged"
    <3>1. /\ call'[j].pc = "lost" /\ call'[j].user = call[j].user /\ call'[j].cost = call[j].cost
          /\ \A i \in Job \ {j} : call'[i] = call[i]
      BY <1>7, <2>2, <1>t, Reached DEF LoseCall
    <3>2. ~(refunded[j] > 0)
      BY <1>u, <2>2 DEF Unpaid
    <3> QED
      BY <1>3, <2>1, <2>2, <3>1, <3>2 DEF Charged
  <2>3. CASE call[j].pc # "charged"
    BY <1>2, <1>7, <2>1, <2>3 DEF LoseCall
  <2> QED
    BY <2>2, <2>3
<1>8. ASSUME NEW j \in Job, CommitCharge(j)
      PROVE  Ledger'
  <2>1. PICK u \in User : u = call[j].user
    BY <1>8, <1>t DEF CommitCharge
  <2>2. PICK c \in Int : c = call[j].cost
    BY <1>8, <1>t, AmountType DEF CommitCharge
  <2>3. /\ Reach(j, "charged") /\ call[j].pc = "reserved" /\ u \in member
        /\ wallet' = [wallet EXCEPT ![u] = call[j].bal] /\ call[j].bal = wallet[u] - c
        /\ UNCHANGED <<refunded, member, spent>>
    BY <1>8, <2>1, <2>2 DEF CommitCharge, Money, HoldsWallet
  <2>4. /\ call'[j].pc = "charged" /\ call'[j].user = u /\ call'[j].cost = c
        /\ \A i \in Job \ {j} : call'[i] = call[i] /\ refunded'[i] = refunded[i]
    BY <2>1, <2>2, <2>3, <1>t, Reached
  <2>5. refunded[j] = 0 /\ refunded'[j] = 0
    BY <1>t, <1>u, <2>3 DEF Unpaid
  <2>6. Paid(j) = 0 /\ Paid(j)' = c
    <3>1. 0 * c = 0
      BY TimesInt
    <3>2. Paid(j) = 0
      BY <2>3, <2>5, PaidInt DEF Charged
    <3>3. Paid(j)' = c - 0 * c
      BY <2>4, <2>5 DEF Paid, Charged
    <3> QED
      BY <3>1, <3>2, <3>3
  <2>7. /\ wallet[u] \in Int /\ wallet'[u] = wallet[u] - c
        /\ \A v \in User \ {u} : wallet'[v] = wallet[v]
    BY <1>t, <1>n, <2>3 DEF Money
  <2>8. Unpaid(j)' /\ Paid(j)' = Paid(j) + c
    BY <2>4, <2>5, <2>6 DEF Unpaid
  <2> QED
    BY <2>1, <2>3, <2>4, <2>7, <2>8, LedgerMoves
<1>9. ASSUME NEW w \in Worker, Refund(w)
      PROVE  Ledger'
  <2>1. PICK j \in Job : j = worker[w].job
    BY <1>9 DEF Refund, TypeOK
  <2>2. call[j].pc = "published"
    BY <1>9, <2>1 DEF Refund, Shape, WorkerOK
  <2>3. PICK u \in User : u = call[j].user
    BY <1>t, <2>2
  <2>4. PICK c \in Int : c = call[j].cost /\ c > 0
    BY <1>t, <2>2, AmountType
  <2>5. CASE u \in member
    <3>1. /\ wallet' = Credit(wallet, u, c) /\ refunded' = [refunded EXCEPT ![j] = @ + 1]
          /\ UNCHANGED <<call, member, spent>>
      BY <1>9, <2>1, <2>3, <2>4, <2>5 DEF Refund
    <3>2. wallet[u] \in Int /\ wallet[u] # NoWallet
      BY <1>n, <2>5 DEF Money
    <3>3. wallet'[u] = wallet[u] + c /\ \A v \in User \ {u} : wallet'[v] = wallet[v]
      BY <1>t, <2>4, <3>1, <3>2, WalletType
    <3>4. /\ \A i \in Job \ {j} : call'[i] = call[i] /\ refunded'[i] = refunded[i]
          /\ refunded'[j] = refunded[j] + 1 /\ refunded[j] \in Nat
      BY <1>t, <3>1
    <3>5. Unpaid(j)'
      BY <2>2, <3>1 DEF Unpaid
    <3>6. Paid(j)' = Paid(j) + (-c)
      <4>1. Paid(j) = c - refunded[j] * c
        BY <2>2, <2>4 DEF Paid, Charged
      <4>2. Paid(j)' = c - (refunded[j] + 1) * c
        BY <2>2, <2>4, <3>1, <3>4 DEF Paid, Charged
      <4>3. refunded[j] * c \in Int /\ (refunded[j] + 1) * c = refunded[j] * c + c
        BY <3>4, TimesInt
      <4> QED
        BY <4>1, <4>2, <4>3
    <3>7. -c \in Int /\ wallet'[u] = wallet[u] - (-c) /\ call'[j].user = u
      BY <2>3, <3>1, <3>2, <3>3
    <3> QED
      BY <2>3, <3>1, <3>2, <3>3, <3>4, <3>5, <3>6, <3>7, LedgerMoves
  <2>6. CASE u \notin member
    BY <1>1, <1>9, <2>1, <2>3, <2>6 DEF Refund
  <2> QED
    BY <2>5, <2>6
<1>10. ASSUME NEW u \in User, DeleteAccount(u)
       PROVE  Ledger'
  <2>1. /\ member' = member \ {u} /\ UNCHANGED <<call, refunded, spent>>
        /\ \A v \in User \ {u} : wallet'[v] = wallet[v]
    BY <1>10, <1>t DEF DeleteAccount
  <2>2. \A j \in Job : Unpaid(j)'
    BY <1>u, <2>1 DEF Unpaid
  <2>3. ASSUME NEW v \in User PROVE IsFiniteSet(Jobs(v)') /\ Balanced(v)'
    BY <1>k, <2>1 DEF Balanced
  <2> QED
    BY <2>2, <2>3 DEF Ledger
<1>11. ASSUME NEW u \in User, NEW a \in Amount, SpendElsewhere(u, a)
       PROVE  Ledger'
  <2>1. /\ a \in Int /\ a > 0 /\ u \in member /\ UNCHANGED <<call, refunded, member>>
        /\ wallet' = Debit(wallet, u, a) /\ spent' = [spent EXCEPT ![u] = @ + a]
    BY <1>11, AmountType DEF SpendElsewhere
  <2>2. wallet[u] \in Int /\ wallet[u] # NoWallet
    BY <1>n, <2>1 DEF Money
  <2>3. /\ wallet'[u] = wallet[u] - a /\ \A v \in User \ {u} : wallet'[v] = wallet[v]
        /\ spent'[u] = spent[u] + a /\ \A v \in User \ {u} : spent'[v] = spent[v]
    BY <1>t, <2>1, <2>2, WalletType
  <2>4. \A j \in Job : Unpaid(j)'
    BY <1>u, <2>1 DEF Unpaid
  <2>5. ASSUME NEW v \in User PROVE IsFiniteSet(Jobs(v)') /\ Balanced(v)'
    <3>1. Jobs(v)' = Jobs(v) /\ Total(v)' = Total(v) /\ IsFiniteSet(Jobs(v)) /\ Balanced(v)
      BY <1>k, <2>1
    <3>2. Total(v) \in Int /\ spent[v] \in Int /\ Opening \in Int
      BY <1>t, <3>1, TotalInt, BoundType
    <3>3. CASE v = u
      BY <2>1, <2>2, <2>3, <3>1, <3>2, <3>3 DEF Balanced
    <3>4. CASE v # u
      BY <2>1, <2>3, <3>1, <3>4 DEF Balanced
    <3> QED
      BY <3>1, <3>3, <3>4
  <2> QED
    BY <2>4, <2>5 DEF Ledger
<1>12. ASSUME NEW w \in Worker, Work(w)
       PROVE  Ledger'
  BY <1>12, <1>1, <1>9 DEF Work, Generate, CheckStatus, StoreAsset, SubmitTalk, NextPoll,
     FinishVideo, MarkFailed, Acknowledge
<1>13. CASE Fault
  BY <1>13, <1>1, <1>7 DEF Fault, PollRefused, RefundFails, WorkerDies
<1>14. CASE Outside
  BY <1>14, <1>1, <1>4, <1>10, <1>11 DEF Outside, DeleteAsset, DeleteMessage
<1>15. ASSUME NEW w \in Worker, NEW j \in Job, NEW n \in 0..MaxAttempts, Receive(w, j, n)
       PROVE  Ledger'
  BY <1>15, <1>1 DEF Receive
<1>16. CASE UNCHANGED vars
  BY <1>16, <1>1 DEF vars
<1> QED
  BY <1>5, <1>6, <1>8, <1>12, <1>13, <1>14, <1>15, <1>16 DEF Next, Serve

LEMMA InitLedger == Init => Ledger
<1> SUFFICES ASSUME Init
             PROVE  Ledger
  OBVIOUS
<1>1. \A j \in Job : call[j].pc = "none" /\ call[j].user = Nil /\ refunded[j] = 0
  BY DEF Init, NoCall
<1>2. \A j \in Job : Unpaid(j)
  BY <1>1 DEF Unpaid
<1>3. ASSUME NEW u \in User PROVE IsFiniteSet(Jobs(u)) /\ Balanced(u)
  <2>1. Jobs(u) = {}
    BY <1>1, JobAssumption DEF Jobs
  <2>2. Total(u) = 0
    BY <2>1, SumOfNone DEF Total
  <2> QED
    BY <2>1, <2>2, FS_EmptySet, BoundType DEF Init, Balanced
<1> QED
  BY <1>2, <1>3 DEF Ledger

\* No charge, refund or debit is lost or made twice: a wallet holds its opening
\* balance, less what the chat was charged, less what its jobs have cost.
THEOREM WalletsAddUp == Spec => []WalletIsLedger
<1>1. Init => Ledger
  BY InitLedger
<1>2. MInv /\ MInv' /\ Ledger /\ [Next]_vars => Ledger'
  BY Parts, LedgerStep DEF MInv
<1>3. MInv /\ Ledger => WalletIsLedger
  BY DEF MInv, TypeOK, Ledger, Balanced, Total, Dues, Jobs, WalletIsLedger
<1> QED
  BY <1>1, <1>2, <1>3, Invariant, PTL DEF Spec
=============================================================================
