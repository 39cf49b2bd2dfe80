------------------------------ MODULE Payments ------------------------------
(***************************************************************************)
(* Credit purchases, app/api/v1/endpoints/payments.py: the Stripe checkout *)
(* and its webhook, the Razorpay order and its verification call, over     *)
(* PostgreSQL at READ COMMITTED.                                           *)
(*                                                                         *)
(* txn and wallet hold the committed rows.  What a request has written and *)
(* not yet committed is in its own record: a request at "credit" holds its *)
(* transaction row (SELECT ... FOR UPDATE, or an INSERT whose unique index *)
(* entry makes others wait), a request at "commit" holds the buyer's       *)
(* wallet row too.  A request that ends before its commit leaves nothing.  *)
(*                                                                         *)
(* A definition named Slip... is the one after it with a plausible         *)
(* mistake; no action uses it.  It is there to show that a property can    *)
(* tell the difference.                                                    *)
(***************************************************************************)
EXTENDS Billing, Functions

CONSTANTS
    User,        \* accounts
    Session,     \* ids of Stripe checkout sessions
    Order,       \* ids of Razorpay orders
    PaymentId,   \* ids of Razorpay payments
    Package,     \* rows of the packages table
    Request,     \* request handlers that can be active at the same time
    Amount,      \* numbers of credits of a package or of a charge
    Opening,     \* balance of every wallet at the start
    MaxSpend,    \* bound: credits an account uses elsewhere
    MaxCrashes,  \* bound: requests that die before their commit
    Nil          \* NULL: no user, reference or payment

Ref == Session \cup Order

ASSUME RefAssumption == Session \cap Order = {}
ASSUME NilAssumption == Nil \notin User \cup Ref \cup PaymentId
ASSUME AmountAssumption == Amount \subseteq Nat \ {0}
ASSUME BoundAssumption == Opening \in Int /\ MaxSpend \in Nat /\ MaxCrashes \in Nat

VARIABLES
    member,   \* accounts that exist
    pkg,      \* Package -> the row's credits and is_active
    gw,       \* Ref -> what the gateway knows (Stripe: payment_status and metadata)
    signed,   \* (order, payment) pairs Razorpay has signed for the customer
    txn,      \* Ref -> the committed row of the transactions table
    wallet,   \* the committed wallets table
    req,      \* Request -> progress and locals of the handler it runs
    acked,    \* sessions whose completion event was answered with a 2xx
    granted,  \* history: how often the credits of a purchase were committed
    spent,    \* history: credits an account used elsewhere
    crashes   \* requests that died so far

vars == <<member, pkg, gw, signed, txn, wallet, req, acked, granted, spent, crashes>>

NoRow  == [status |-> "absent", user |-> Nil, credits |-> 0, payment |-> Nil]
NoSale == [state |-> "none", user |-> Nil, credits |-> 0]

\* The locals of a handler at pc that has not touched the wallet.
At(pc, r, u, c, pid) ==
    [pc |-> pc, ref |-> r, user |-> u, credits |-> c, payment |-> pid, bal |-> 0]
Idle == At("idle", Nil, Nil, 0, Nil)

Row == [status : {"absent", "pending", "completed"}, user : User \cup {Nil},
        credits : Amount \cup {0}, payment : PaymentId \cup {Nil}]
Sale == [state : {"none", "open", "unpaid", "paid"}, user : User \cup {Nil},
         credits : Amount \cup {0}]
Handler == [pc : {"idle", "quoted", "record", "select", "insert", "reselect", "credit", "commit"},
            ref : Ref \cup {Nil}, user : User \cup {Nil}, credits : Amount \cup {0},
            payment : PaymentId \cup {Nil}, bal : Int]

\* A handler has the reference, the account and the credits it needs next.
LocalsSet ==
    \A p \in Request :
        /\ req[p].pc \notin {"idle", "quoted"} => req[p].ref \in Ref
        /\ req[p].pc \in {"insert", "reselect"} => req[p].ref \in Session
        /\ req[p].pc \in {"quoted", "record", "credit", "commit"} =>
              req[p].user \in User /\ req[p].credits \in Amount

\* A sale and a row name an account and some credits.
SalesSet ==
    \A r \in Ref :
        /\ txn[r].status # "absent" => txn[r].user \in User /\ txn[r].credits \in Amount
        /\ gw[r].user # Nil => gw[r].credits \in Amount

TypeOK ==
    /\ LocalsSet
    /\ SalesSet
    /\ member \subseteq User
    /\ pkg \in [Package -> [credits : Amount, active : BOOLEAN]]
    /\ gw \in [Ref -> Sale]
    /\ signed \subseteq Order \X PaymentId
    /\ txn \in [Ref -> Row]
    /\ wallet \in [User -> Balance]
    /\ req \in [Request -> Handler]
    /\ acked \subseteq Session
    /\ granted \in [Ref -> Nat]
    /\ spent \in [User -> Nat]
    /\ crashes \in 0..MaxCrashes

Init ==
    /\ member = User
    /\ pkg \in [Package -> [credits : Amount, active : {TRUE}]]
    /\ gw = [r \in Ref |-> NoSale]
    /\ signed = {}
    /\ txn = [r \in Ref |-> NoRow]
    /\ wallet = [u \in User |-> Opening]
    /\ req = [p \in Request |-> Idle]
    /\ acked = {}
    /\ granted = [r \in Ref |-> 0]
    /\ spent = [u \in User |-> 0]
    /\ crashes = 0

-----------------------------------------------------------------------------
(* Rows and locks.                                                         *)

\* The row is committed, so a SELECT of another request returns it.
Visible(r) == txn[r].status # "absent"

\* Some request holds the row, or the unique index entry it has inserted.
RowLocked(r) == \E p \in Request : req[p].ref = r /\ req[p].pc \in {"credit", "commit"}

SlipNoForUpdate(r) == Visible(r)

\* SELECT ... FOR UPDATE returns a row only when nobody else holds it.
CanLock(r) == Visible(r) /\ ~RowLocked(r)

SlipReadThenWrite(u) == FALSE

\* Some request has written the wallet row and not committed.
WalletLocked(u) == \E p \in Request : req[p].user = u /\ req[p].pc = "commit"

SlipNoForeignKey(u) == TRUE

\* The foreign key of transactions.user_id and wallets.user_id.
ForeignKeyHolds(u) == u \in member

SlipRefNotUnique(r) == TRUE

\* stripe_session_id and razorpay_order_id are unique.
UniqueRefHolds(r) == ~Visible(r)

SlipPaymentNotUnique(r, pid) == TRUE

\* razorpay_payment_id is unique.
UniquePaymentHolds(r, pid) == \A r2 \in Ref \ {r} : txn[r2].payment # pid

\* The response of a webhook call: Stripe stops redelivering after a 2xx.
Answered(r) == IF r \in Session THEN acked \cup {r} ELSE acked

Goto(p, pc) == req' = [req EXCEPT ![p].pc = pc]
Finish(p) == req' = [req EXCEPT ![p] = Idle]

-----------------------------------------------------------------------------
(* Starting a purchase, with either gateway.                               *)

\* The handler loads an active package and keeps its credits.
GetActivePackage(p, u, k) ==
    /\ req[p].pc = "idle"
    /\ u \in member
    /\ pkg[k].active
    /\ req' = [req EXCEPT ![p] = At("quoted", Nil, u, pkg[k].credits, Nil)]
    /\ UNCHANGED <<member, pkg, gw, signed, txn, wallet, acked, granted, spent, crashes>>

\* The gateway opens the purchase and stores the quote as its metadata.
OpenAtGateway(p, r) ==
    /\ req[p].pc = "quoted"
    /\ gw[r] = NoSale
    /\ gw' = [gw EXCEPT ![r] = [state |-> "open", user |-> req[p].user, credits |-> req[p].credits]]
    /\ req' = [req EXCEPT ![p] = At("record", r, req[p].user, req[p].credits, Nil)]
    /\ UNCHANGED <<member, pkg, signed, txn, wallet, acked, granted, spent, crashes>>

CreateCheckoutSession(p, s) == OpenAtGateway(p, s)

CreateRazorpayOrder(p, o) == OpenAtGateway(p, o)

\* The gateway's error becomes a 502.
GatewayRefuses(p) ==
    /\ req[p].pc = "quoted"
    /\ Finish(p)
    /\ UNCHANGED <<member, pkg, gw, signed, txn, wallet, acked, granted, spent, crashes>>

\* The pending row is inserted and committed; a violated constraint is a 500.
RecordPurchase(p) ==
    LET r == req[p].ref
        u == req[p].user IN
    /\ req[p].pc = "record"
    /\ ~RowLocked(r)
    /\ IF UniqueRefHolds(r) /\ ForeignKeyHolds(u)
       THEN txn' = [txn EXCEPT ![r] = [status |-> "pending", user |-> u,
                                       credits |-> req[p].credits, payment |-> Nil]]
       ELSE UNCHANGED txn
    /\ Finish(p)
    /\ UNCHANGED <<member, pkg, gw, signed, wallet, acked, granted, spent, crashes>>

-----------------------------------------------------------------------------
(* The gateways and the customer.                                          *)

\* The customer finishes the hosted checkout, paying at once or not.
CompleteCheckout(s, outcome) ==
    /\ gw[s].state = "open"
    /\ gw' = [gw EXCEPT ![s].state = outcome]
    /\ UNCHANGED <<member, pkg, signed, txn, wallet, req, acked, granted, spent, crashes>>

\* A session of the same Stripe account that this service did not create.
ForeignCheckout(s) ==
    /\ gw[s] = NoSale
    /\ gw' = [gw EXCEPT ![s].state = "open"]
    /\ UNCHANGED <<member, pkg, signed, txn, wallet, req, acked, granted, spent, crashes>>

\* The customer pays an order and receives the signed pair.
PayOrder(o, pid) ==
    /\ gw[o].state \in {"open", "paid"}
    /\ signed' = signed \cup {<<o, pid>>}
    /\ gw' = [gw EXCEPT ![o].state = "paid"]
    /\ UNCHANGED <<member, pkg, txn, wallet, req, acked, granted, spent, crashes>>

-----------------------------------------------------------------------------
(* The Stripe webhook.                                                     *)

SlipAnyStatus(s) == gw[s].state # "open"

\* "completed" also fires for methods that have not settled yet.
IsPaid(s) == gw[s].state = "paid"

SlipNeverRebuild(s) == FALSE

\* The metadata has a user and credits.
HasMetadata(s) == gw[s].user # Nil

\* Stripe delivers the completion event, again and concurrently if it likes.
DeliverCompleted(p, s) ==
    /\ req[p].pc = "idle"
    /\ gw[s].state \in {"unpaid", "paid"}
    /\ IF IsPaid(s)
       THEN /\ req' = [req EXCEPT ![p] = At("select", s, Nil, 0, Nil)]
            /\ UNCHANGED acked
       ELSE /\ acked' = acked \cup {s}
            /\ UNCHANGED req
    /\ UNCHANGED <<member, pkg, gw, signed, txn, wallet, granted, spent, crashes>>

\* SELECT ... FOR UPDATE finds the row: lock it, unless it is already settled.
LockTransaction(p) ==
    LET s == req[p].ref IN
    /\ req[p].pc \in {"select", "reselect"}
    /\ s \in Session
    /\ CanLock(s)
    /\ IF txn[s].status = "completed"
       THEN Finish(p) /\ acked' = Answered(s)
       ELSE /\ req' = [req EXCEPT ![p] = At("credit", s, txn[s].user, txn[s].credits, Nil)]
            /\ UNCHANGED acked
    /\ UNCHANGED <<member, pkg, gw, signed, txn, wallet, granted, spent, crashes>>

SlipRebuildAgain(p, s) == HasMetadata(s)

\* Only the first SELECT is followed by an INSERT.
MayRebuild(p, s) == req[p].pc = "select" /\ HasMetadata(s)

\* It finds no row: rebuild it from the metadata, or give the event up.
MissTransaction(p) ==
    LET s == req[p].ref IN
    /\ req[p].pc \in {"select", "reselect"}
    /\ s \in Session
    /\ ~Visible(s)
    /\ IF MayRebuild(p, s)
       THEN Goto(p, "insert") /\ UNCHANGED acked
       ELSE Finish(p) /\ acked' = Answered(s)
    /\ UNCHANGED <<member, pkg, gw, signed, txn, wallet, granted, spent, crashes>>

\* The flush of the rebuilt row holds it; an IntegrityError selects again.
InsertTransaction(p) ==
    LET s == req[p].ref IN
    /\ req[p].pc = "insert"
    /\ ~RowLocked(s)
    /\ IF UniqueRefHolds(s) /\ ForeignKeyHolds(gw[s].user)
       THEN req' = [req EXCEPT ![p] = At("credit", s, gw[s].user, gw[s].credits, Nil)]
       ELSE Goto(p, "reselect")
    /\ UNCHANGED <<member, pkg, gw, signed, txn, wallet, acked, granted, spent, crashes>>

-----------------------------------------------------------------------------
(* The Razorpay verification call.                                         *)

\* Any account may present a pair with a valid signature, as often as it likes.
VerifyPayment(p, u, o, pid) ==
    /\ req[p].pc = "idle"
    /\ u \in member
    /\ <<o, pid>> \in signed
    /\ req' = [req EXCEPT ![p] = At("select", o, u, 0, pid)]
    /\ UNCHANGED <<member, pkg, gw, signed, txn, wallet, acked, granted, spent, crashes>>

\* An order without a row is a 404.
VerifyMissing(p) ==
    /\ req[p].pc = "select"
    /\ req[p].ref \in Order
    /\ ~Visible(req[p].ref)
    /\ Finish(p)
    /\ UNCHANGED <<member, pkg, gw, signed, txn, wallet, acked, granted, spent, crashes>>

\* The order is the caller's and is still to be credited.
MaySettle(u, o) == txn[o].user = u /\ txn[o].status # "completed"

\* FOR UPDATE serialises the verifications of an order; then a 403, a repeated
\* success, or the credit.
VerifyLock(p) ==
    LET o == req[p].ref IN
    /\ req[p].pc = "select"
    /\ o \in Order
    /\ CanLock(o)
    /\ IF MaySettle(req[p].user, o)
       THEN req' = [req EXCEPT ![p] = At("credit", o, txn[o].user, txn[o].credits, req[p].payment)]
       ELSE Finish(p)
    /\ UNCHANGED <<member, pkg, gw, signed, txn, wallet, acked, granted, spent, crashes>>

-----------------------------------------------------------------------------
(* The end both flows share.                                               *)

\* billing.credit: the upsert takes the wallet row and keeps it until commit.
CreditWallet(p) ==
    LET u == req[p].user IN
    /\ req[p].pc = "credit"
    /\ ~WalletLocked(u)
    /\ req' = [req EXCEPT ![p].pc = "commit",
                          ![p].bal = Credit(wallet, u, req[p].credits)[u]]
    /\ UNCHANGED <<member, pkg, gw, signed, txn, wallet, acked, granted, spent, crashes>>

\* The wallet and the completed row become visible together, or not at all.
Commit(p) ==
    LET r == req[p].ref
        q == req[p] IN
    /\ q.pc = "commit"
    /\ IF r \in Session \/ UniquePaymentHolds(r, q.payment)
       THEN /\ txn' = [txn EXCEPT ![r] = [status |-> "completed", user |-> q.user,
                                          credits |-> q.credits, payment |-> q.payment]]
            /\ wallet' = [wallet EXCEPT ![q.user] = q.bal]
            /\ granted' = [granted EXCEPT ![r] = @ + 1]
            /\ acked' = Answered(r)
       ELSE UNCHANGED <<txn, wallet, granted, acked>>
    /\ Finish(p)
    /\ UNCHANGED <<member, pkg, gw, signed, spent, crashes>>

-----------------------------------------------------------------------------
(* What else happens to the same rows.                                     *)

\* A worker dies or its connection breaks: the transaction rolls back.
Crash(p) ==
    /\ req[p].pc # "idle"
    /\ crashes < MaxCrashes
    /\ crashes' = crashes + 1
    /\ Finish(p)
    /\ UNCHANGED <<member, pkg, gw, signed, txn, wallet, acked, granted, spent>>

\* A committed debit of another component.
Spend(u, a) ==
    /\ u \in member
    /\ spent[u] + a <= MaxSpend
    /\ ~WalletLocked(u)
    /\ CanDebit(wallet, u, a, FALSE)
    /\ wallet' = Debit(wallet, u, a)
    /\ spent' = [spent EXCEPT ![u] = @ + a]
    /\ UNCHANGED <<member, pkg, gw, signed, txn, req, acked, granted, crashes>>

\* The account goes with its wallet and its transactions; the deletion waits
\* for requests that hold a row of the account.
DeleteAccount(u) ==
    /\ u \in member
    /\ \A p \in Request : req[p].pc \in {"credit", "commit"} => req[p].user # u
    /\ member' = member \ {u}
    /\ wallet' = [wallet EXCEPT ![u] = NoWallet]
    /\ txn' = [r \in Ref |-> IF txn[r].user = u THEN NoRow ELSE txn[r]]
    /\ UNCHANGED <<pkg, gw, signed, req, acked, granted, spent, crashes>>

SlipZeroCredits(k, c, active) ==
    /\ pkg' = [pkg EXCEPT ![k] = [credits |-> c - 1, active |-> active]]
    /\ UNCHANGED <<member, gw, signed, txn, wallet, req, acked, granted, spent, crashes>>

\* An administrator edits a package, or deactivates it.
UpdatePackage(k, c, active) ==
    /\ pkg' = [pkg EXCEPT ![k] = [credits |-> c, active |-> active]]
    /\ UNCHANGED <<member, gw, signed, txn, wallet, req, acked, granted, spent, crashes>>

DeletePackage(k) ==
    /\ pkg' = [pkg EXCEPT ![k].active = FALSE]
    /\ UNCHANGED <<member, gw, signed, txn, wallet, req, acked, granted, spent, crashes>>

-----------------------------------------------------------------------------
\* The steps a request takes once it has started.
Step(p) ==
    \/ \E s \in Session : CreateCheckoutSession(p, s)
    \/ \E o \in Order : CreateRazorpayOrder(p, o)
    \/ GatewayRefuses(p)
    \/ RecordPurchase(p)
    \/ LockTransaction(p)
    \/ MissTransaction(p)
    \/ InsertTransaction(p)
    \/ VerifyMissing(p)
    \/ VerifyLock(p)
    \/ CreditWallet(p)
    \/ Commit(p)

Start(p) ==
    \/ \E u \in User, k \in Package : GetActivePackage(p, u, k)
    \/ \E s \in Session : DeliverCompleted(p, s)
    \/ \E u \in User, o \in Order, pid \in PaymentId : VerifyPayment(p, u, o, pid)

Outside ==
    \/ \E s \in Session, outcome \in {"unpaid", "paid"} : CompleteCheckout(s, outcome)
    \/ \E s \in Session : ForeignCheckout(s)
    \/ \E o \in Order, pid \in PaymentId : PayOrder(o, pid)
    \/ \E u \in User, a \in Amount : Spend(u, a)
    \/ \E u \in User : DeleteAccount(u)
    \/ \E k \in Package, c \in Amount, active \in BOOLEAN : UpdatePackage(k, c, active)
    \/ \E k \in Package : DeletePackage(k)

Next ==
    \/ \E p \in Request : Start(p) \/ Step(p) \/ Crash(p)
    \/ Outside

Spec == Init /\ [][Next]_vars

(* A started request goes on, and PostgreSQL grants a row lock to its      *)
(* waiters in turn; Stripe redelivers an event until it is acknowledged.   *)
Redeliver(s) == s \notin acked /\ \E p \in Request : DeliverCompleted(p, s)

Fairness ==
    /\ \A p \in Request : SF_vars(Step(p))
    /\ \A s \in Session : SF_vars(Redeliver(s))

FairSpec == Spec /\ Fairness
-----------------------------------------------------------------------------
(* What must hold.                                                         *)

\* However often and however concurrently a payment is reported (duplicate
\* webhooks, double-clicked verifications, a crash and its redelivery), its
\* credits are granted at most once, and the row says so: payments.py:3-6.
AtMostOnce ==
    \A r \in Ref :
        /\ granted[r] <= 1
        /\ txn[r].status = "completed" => granted[r] = 1
        /\ txn[r].status = "pending" => granted[r] = 0

\* No credit update is lost or invented while purchases and debits of one
\* wallet interleave: every balance is the opening balance plus the completed
\* purchases of the account minus what was debited (billing.py:3-7).
WalletIsLedger ==
    \A u \in member :
        wallet[u] = Opening - spent[u]
                    + SumFunctionOnSet([r \in Ref |-> txn[r].credits],
                          {r \in Ref : txn[r].user = u /\ txn[r].status = "completed"})

\* Credits are granted only for money the gateway took, and the completed row
\* names the buyer and the credits quoted when the purchase began, whatever
\* happened to the package, the row or the caller since.
GrantedAsSold ==
    \A r \in Ref : granted[r] > 0 =>
        /\ gw[r].state = "paid"
        /\ txn[r].status = "completed" =>
              /\ txn[r].user = gw[r].user
              /\ txn[r].credits = gw[r].credits
              /\ r \in Order => <<r, txn[r].payment>> \in signed

\* The same Razorpay payment never settles two orders (payments.py:371).
PaymentSettlesOneOrder ==
    \A r1, r2 \in Ref :
        r1 # r2 /\ txn[r1].payment # Nil => txn[r1].payment # txn[r2].payment

\* Stripe is told that a paid event is done only when its credits are
\* committed, unless it carries no metadata or its account is gone: no order
\* of duplicates, crashes and inserts loses a purchase to an early 2xx.
AckedIsCredited ==
    \A s \in acked : gw[s].state = "paid" /\ gw[s].user \in member
                      => txn[s].status = "completed"

\* A completed row is never changed, only deleted with its account.
ReceiptsAreFinal ==
    [][\A r \in Ref : txn[r].status = "completed" =>
          txn'[r] = txn[r] \/ txn[r].user \notin member']_vars

\* A paid checkout session of an account that stays is eventually credited:
\* neither a lost row nor a crash of every delivery so far prevents it.
PaidIsCredited ==
    \A s \in Session :
        gw[s].state = "paid" /\ gw[s].user # Nil
            ~> txn[s].status = "completed" \/ gw[s].user \notin member

\* No request waits for a row forever or runs in circles.
RequestsFinish == \A p \in Request : req[p].pc # "idle" ~> req[p].pc = "idle"

-----------------------------------------------------------------------------
(* Why it holds: an invariant that every step preserves.                   *)

Holds(p) == req[p].pc \in {"credit", "commit"}

\* A row has one holder.
Apart(p, q) ==
    Holds(p) /\ Holds(q) =>
        /\ req[p].ref # req[q].ref
        /\ req[p].pc = "commit" /\ req[q].pc = "commit" => req[p].user # req[q].user

LocksExclusive == \A p, q \in Request : p # q => Apart(p, q)

\* What a handler knows about the purchase it works on is still true.
HandlerOK(p) ==
    LET h == req[p]
        g == gw[h.ref]
    IN  /\ h.pc \notin {"idle", "quoted"} => g.state # "none"
        /\ h.pc = "record" => h.user = g.user /\ h.credits = g.credits
        /\ h.pc \in {"select", "insert", "reselect", "credit", "commit"} =>
              /\ g.state = "paid"
              /\ h.ref \in Session => h.payment = Nil
              /\ h.ref \in Order => <<h.ref, h.payment>> \in signed
        /\ h.pc = "reselect" => Visible(h.ref) \/ g.user \notin member
        /\ Holds(p) =>
              /\ h.user \in member
              /\ h.user = g.user
              /\ h.credits = g.credits
              /\ granted[h.ref] = 0
        /\ h.pc = "commit" => h.bal = wallet[h.user] + h.credits

\* The row, the gateway and the history tell the same story.
RowOK(r) ==
    /\ Visible(r) => /\ txn[r].user = gw[r].user /\ txn[r].user \in member
                     /\ txn[r].credits = gw[r].credits
    /\ ~Visible(r) => txn[r] = NoRow
    /\ txn[r].status = "pending" => granted[r] = 0
    /\ txn[r].status = "completed" =>
          granted[r] = 1 /\ (r \in Order => <<r, txn[r].payment>> \in signed)
    /\ granted[r] > 0 =>
          /\ granted[r] = 1
          /\ gw[r].state = "paid"
          /\ gw[r].user \in User
          /\ txn[r].status = "completed" \/ gw[r].user \notin member
    /\ gw[r].state = "none" => gw[r].user = Nil

AckOK(s) ==
    /\ gw[s].state \in {"unpaid", "paid"}
    /\ gw[s].state = "paid" /\ gw[s].user \in member => txn[s].status = "completed"

IInv ==
    /\ TypeOK
    /\ LocksExclusive
    /\ \A p \in Request : HandlerOK(p)
    /\ \A r \in Ref : RowOK(r)
    /\ \A s \in acked : AckOK(s)
    /\ \A u \in User : wallet[u] # NoWallet <=> u \in member
    /\ \A o \in Order, pid \in PaymentId : <<o, pid>> \in signed => gw[o].state = "paid"
    /\ PaymentSettlesOneOrder

-----------------------------------------------------------------------------
(* Settlement's variables in terms of these.                               *)
PaidRefs == {r \in Ref : gw[r].state = "paid"}
OfferOf(r) == IF gw[r].user = Nil THEN {}
              ELSE {[buyer |-> gw[r].user, credits |-> gw[r].credits]}

Abstract == INSTANCE Settlement WITH
    Purchase <- Ref,
    offer <- [r \in Ref |-> OfferOf(r)],
    paid <- PaidRefs,
    settled <- {r \in Ref : granted[r] > 0}

\* Every behaviour of the handlers is, seen from the accounts, a behaviour of
\* Settlement: each paid purchase is granted whole, in one step, at most once.
ImplementsSettlement == Abstract!Spec
=============================================================================
