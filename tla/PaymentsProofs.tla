--------------------------- MODULE PaymentsProofs ---------------------------
(***************************************************************************)
(* Payments, for any number of accounts, purchases and requests.           *)
(***************************************************************************)
EXTENDS Payments, SumsAndLists, TLAPS

-----------------------------------------------------------------------------
(* Types.                                                                  *)

LEMMA IdleType == Idle \in Handler
BY DEF Idle, At, Handler

LEMMA NoRowType == NoRow \in Row /\ NoSale \in Sale
BY DEF NoRow, Row, NoSale, Sale

LEMMA InitType == Init => TypeOK
<1> SUFFICES ASSUME Init
             PROVE  TypeOK
  OBVIOUS
<1>1. wallet \in [User -> Balance] /\ crashes \in 0..MaxCrashes
  BY BoundAssumption DEF Init, Balance
<1>2. pkg \in [Package -> [credits : Amount, active : BOOLEAN]]
  BY DEF Init
<1>3. LocalsSet /\ SalesSet
  BY DEF Init, LocalsSet, SalesSet, Idle, At, NoRow, NoSale
<1> QED
  BY <1>1, <1>2, <1>3, IdleType, NoRowType DEF Init, TypeOK

\* billing.credit leaves every balance an integer or absent, and adds to a
\* missing one as to zero.
LEMMA CreditType ==
    ASSUME NEW w \in [User -> Balance], NEW u \in User, NEW a \in Int
    PROVE  /\ Credit(w, u, a) \in [User -> Balance]
           /\ GetBalance(w, u) \in Int
           /\ a > 0 => Credit(w, u, a)[u] = GetBalance(w, u) + a
BY NoWalletAssumption DEF Credit, GetBalance, Balance

LEMMA AmountType == \A c \in Amount : c \in Int /\ c > 0
BY AmountAssumption

\* What the handler steps do to req.
Moved(p, h) == req' = [req EXCEPT ![p] = h]

\* A step that moves one handler to typed locals keeps req and LocalsSet.
LEMMA MovedType ==
    ASSUME req \in [Request -> Handler], LocalsSet,
           NEW p \in Request, NEW h \in Handler, Moved(p, h),
           h.pc \notin {"idle", "quoted"} => h.ref \in Ref,
           h.pc \in {"insert", "reselect"} => h.ref \in Session,
           h.pc \in {"quoted", "record", "credit", "commit"} => h.user \in User /\ h.credits \in Amount
    PROVE  req' \in [Request -> Handler] /\ LocalsSet'
<1>1. req' \in [Request -> Handler]
  BY DEF Moved
<1>2. \A q \in Request : req'[q] = IF q = p THEN h ELSE req[q]
  BY DEF Moved
<1> QED
  BY <1>1, <1>2 DEF LocalsSet

LEMMA FinishType ==
    ASSUME req \in [Request -> Handler], LocalsSet, NEW p \in Request, Finish(p)
    PROVE  req' \in [Request -> Handler] /\ LocalsSet'
<1>1. Moved(p, Idle)
  BY DEF Finish, Moved
<1> QED
  BY <1>1, IdleType, MovedType DEF Idle, At

LEMMA StepType == TypeOK /\ [Next]_vars => TypeOK'
<1> SUFFICES ASSUME TypeOK, [Next]_vars
             PROVE  TypeOK'
  OBVIOUS
<1>a. req \in [Request -> Handler] /\ LocalsSet
  BY DEF TypeOK
<1>1. ASSUME NEW p \in Request, NEW h \in Handler, Moved(p, h),
             h.pc \notin {"idle", "quoted"} => h.ref \in Ref,
             h.pc \in {"insert", "reselect"} => h.ref \in Session,
             h.pc \in {"quoted", "record", "credit", "commit"} => h.user \in User /\ h.credits \in Amount,
             acked' \subseteq Session,
             UNCHANGED <<member, pkg, signed, txn, wallet, granted, spent, crashes>>,
             gw' \in [Ref -> Sale], SalesSet'
      PROVE  TypeOK'
  BY <1>1, <1>a, MovedType DEF TypeOK
<1>b. ASSUME UNCHANGED <<txn, gw>>
      PROVE  SalesSet'
  BY <1>b DEF TypeOK, SalesSet
<1>2. ASSUME NEW p \in Request, Start(p)
      PROVE  TypeOK'
  <2>1. ASSUME NEW u \in User, NEW k \in Package, GetActivePackage(p, u, k)
        PROVE  TypeOK'
    <3> DEFINE h == At("quoted", Nil, u, pkg[k].credits, Nil)
    <3>1. h \in Handler /\ pkg[k].credits \in Amount
      BY DEF TypeOK, At, Handler
    <3> QED
      BY <2>1, <3>1, <1>1, <1>b DEF GetActivePackage, Moved, At, TypeOK
  <2>2. ASSUME NEW s \in Session, DeliverCompleted(p, s)
        PROVE  TypeOK'
    <3> DEFINE h == At("select", s, Nil, 0, Nil)
    <3>1. h \in Handler /\ s \in Ref
      BY DEF At, Handler, Ref
    <3>2. CASE IsPaid(s)
      BY <2>2, <3>1, <3>2, <1>1, <1>b DEF DeliverCompleted, Moved, At, TypeOK
    <3>3. CASE ~IsPaid(s)
      BY <2>2, <3>3 DEF DeliverCompleted, TypeOK, LocalsSet, SalesSet
    <3> QED
      BY <3>2, <3>3
  <2>3. ASSUME NEW u \in User, NEW o \in Order, NEW pid \in PaymentId, VerifyPayment(p, u, o, pid)
        PROVE  TypeOK'
    <3> DEFINE h == At("select", o, u, 0, pid)
    <3>1. h \in Handler /\ o \in Ref
      BY DEF At, Handler, Ref
    <3> QED
      BY <2>3, <3>1, <1>1, <1>b DEF VerifyPayment, Moved, At, TypeOK
  <2> QED
    BY <1>2, <2>1, <2>2, <2>3 DEF Start

<1>3. ASSUME NEW p \in Request, Step(p)
      PROVE  TypeOK'
  <2> DEFINE r == req[p].ref
  <2>a. req[p] \in Handler /\ (req[p].pc \notin {"idle", "quoted"} => r \in Ref)
    BY <1>a DEF LocalsSet
  <2>b. gw \in [Ref -> Sale] /\ acked \subseteq Session
    BY DEF TypeOK
  <2>c. Answered(r) \subseteq Session
    BY <2>b DEF Answered
  <2>1. ASSUME NEW x \in Ref, OpenAtGateway(p, x)
        PROVE  TypeOK'
    <3> DEFINE h == At("record", x, req[p].user, req[p].credits, Nil)
    <3>1. h \in Handler /\ req[p].user \in User /\ req[p].credits \in Amount
      BY <2>1, <2>a, <1>a DEF At, Handler, OpenAtGateway, LocalsSet
    <3>3. SalesSet'
      BY <2>1, <3>1 DEF OpenAtGateway, TypeOK, SalesSet
    <3>2. [state |-> "open", user |-> req[p].user, credits |-> req[p].credits] \in Sale
      BY <2>a DEF Handler, Sale
    <3> QED
      BY <2>1, <2>b, <3>1, <3>2, <3>3, <1>1 DEF OpenAtGateway, Moved, At
  <2>2. ASSUME Finish(p), acked' \subseteq Session,
               UNCHANGED <<member, pkg, gw, signed, txn, wallet, granted, spent, crashes>>
        PROVE  TypeOK'
    BY <1>a, <1>b, <2>2, FinishType DEF TypeOK
  <2>3. CASE RecordPurchase(p)
    <3>1. req' \in [Request -> Handler] /\ LocalsSet'
      BY <1>a, <2>3, FinishType DEF RecordPurchase
    <3>2. CASE UNCHANGED txn
      BY <2>3, <1>b, <3>1, <3>2 DEF RecordPurchase, TypeOK
    <3>3. CASE txn' # txn
      <4> DEFINE row == [status |-> "pending", user |-> req[p].user,
                         credits |-> req[p].credits, payment |-> Nil]
      <4>1. row \in Row /\ row.user \in User /\ row.credits \in Amount /\ r \in Ref
        BY <1>a, <2>a, <2>3 DEF RecordPurchase, LocalsSet, Handler, Row
      <4>2. txn' = [txn EXCEPT ![r] = row]
        BY <2>3, <3>3 DEF RecordPurchase
      <4> HIDE DEF row
      <4> QED
        BY <2>3, <3>1, <4>1, <4>2 DEF RecordPurchase, TypeOK, SalesSet
    <3> QED
      BY <3>2, <3>3
  <2>4. CASE LockTransaction(p)
    <3>1. CASE txn[r].status = "completed"
      BY <2>4, <2>c, <3>1, <2>2 DEF LockTransaction
    <3>2. CASE txn[r].status # "completed"
      <4> DEFINE h == At("credit", r, txn[r].user, txn[r].credits, Nil)
      <4>1. h \in Handler /\ txn[r].user \in User /\ txn[r].credits \in Amount
        BY <2>4, <2>a DEF LockTransaction, CanLock, Visible, TypeOK, SalesSet, Row, Handler, At, Ref
      <4> QED
        BY <2>4, <2>a, <2>b, <3>2, <4>1, <1>1, <1>b DEF LockTransaction, Moved, At
    <3> QED
      BY <3>1, <3>2
  <2>5. ASSUME NEW pc \in {"insert", "reselect"}, Goto(p, pc), r \in Session,
               UNCHANGED <<member, pkg, gw, signed, txn, wallet, acked, granted, spent, crashes>>
        PROVE  TypeOK'
    <3> DEFINE h == [req[p] EXCEPT !.pc = pc]
    <3>1. h \in Handler /\ h.pc = pc /\ h.ref = r /\ r \in Ref
      BY <2>a, <2>5 DEF Handler, Ref
    <3>2. Moved(p, h)
      BY <2>5 DEF Goto, Moved
    <3> HIDE DEF h
    <3> QED
      BY <2>5, <2>b, <3>1, <3>2, <1>1, <1>b
  <2>6. CASE MissTransaction(p)
    BY <2>6, <2>c, <2>2, <2>5 DEF MissTransaction
  <2>7. CASE InsertTransaction(p)
    <3>1. r \in Session /\ r \in Ref
      BY <1>a, <2>7 DEF InsertTransaction, LocalsSet, Ref
    <3>2. CASE ~(UniqueRefHolds(r) /\ ForeignKeyHolds(gw[r].user))
      BY <2>7, <2>5, <3>1, <3>2 DEF InsertTransaction
    <3>3. CASE UniqueRefHolds(r) /\ ForeignKeyHolds(gw[r].user)
      <4> DEFINE h == At("credit", r, gw[r].user, gw[r].credits, Nil)
      <4>1. h \in Handler /\ gw[r].user \in User /\ gw[r].credits \in Amount
        BY <2>b, <3>1, <3>3, NilAssumption DEF ForeignKeyHolds, TypeOK, SalesSet, Sale, Handler, At
      <4> QED
        BY <2>7, <2>b, <3>1, <3>3, <4>1, <1>1, <1>b DEF InsertTransaction, Moved, At
    <3> QED
      BY <3>2, <3>3
  <2>8. CASE VerifyLock(p)
    <3>1. CASE ~MaySettle(req[p].user, r)
      BY <2>8, <2>b, <3>1, <2>2 DEF VerifyLock
    <3>2. CASE MaySettle(req[p].user, r)
      <4> DEFINE h == At("credit", r, txn[r].user, txn[r].credits, req[p].payment)
      <4>1. h \in Handler /\ txn[r].user \in User /\ txn[r].credits \in Amount
        BY <2>8, <2>a DEF VerifyLock, CanLock, Visible, TypeOK, SalesSet, Row, Handler, At, Ref
      <4> QED
        BY <2>8, <2>a, <2>b, <3>2, <4>1, <1>1, <1>b DEF VerifyLock, Moved, At
    <3> QED
      BY <3>1, <3>2
  <2>9. CASE CreditWallet(p)
    <3> DEFINE bal == Credit(wallet, req[p].user, req[p].credits)[req[p].user]
               h == [req[p] EXCEPT !.pc = "commit", !.bal = bal]
    <3>1. r \in Ref /\ req[p].user \in User /\ req[p].credits \in Amount
      BY <2>9, <1>a, <2>a DEF CreditWallet, LocalsSet
    <3>2. bal \in Int
      <4>1. wallet \in [User -> Balance]
        BY DEF TypeOK
      <4>2. req[p].credits \in Int /\ req[p].credits > 0
        BY <3>1, AmountType
      <4>3. /\ GetBalance(wallet, req[p].user) \in Int
            /\ bal = GetBalance(wallet, req[p].user) + req[p].credits
        BY <3>1, <4>1, <4>2, CreditType
      <4> QED
        BY <4>2, <4>3
    <3>3. h \in Handler /\ h.ref = r /\ h.user = req[p].user
          /\ h.credits = req[p].credits /\ h.pc = "commit"
      BY <2>a, <3>2 DEF Handler
    <3>4. Moved(p, h)
      BY <2>9 DEF CreditWallet, Moved
    <3> HIDE DEF h
    <3> QED
      BY <2>9, <2>b, <3>1, <3>3, <3>4, <1>1, <1>b DEF CreditWallet
  <2>10. CASE Commit(p)
    <3> DEFINE row == [status |-> "completed", user |-> req[p].user,
                       credits |-> req[p].credits, payment |-> req[p].payment]
    <3>1. req' \in [Request -> Handler] /\ LocalsSet'
      BY <1>a, <2>10, FinishType DEF Commit
    <3>2. row \in Row /\ row.user \in User /\ row.credits \in Amount /\ r \in Ref
          /\ req[p].bal \in Balance
      BY <1>a, <2>a, <2>10 DEF Commit, LocalsSet, Handler, Row, Balance
    <3>3. CASE UNCHANGED <<txn, wallet, granted, acked>>
      BY <2>10, <1>b, <3>1, <3>3 DEF Commit, TypeOK
    <3>4. CASE /\ txn' = [txn EXCEPT ![r] = row]
               /\ wallet' = [wallet EXCEPT ![req[p].user] = req[p].bal]
               /\ granted' = [granted EXCEPT ![r] = @ + 1]
               /\ acked' = Answered(r)
      <4> HIDE DEF row
      <4> QED
        BY <2>10, <2>c, <3>1, <3>2, <3>4 DEF Commit, TypeOK, SalesSet
    <3> QED
      BY <2>10, <3>3, <3>4 DEF Commit
  <2> QED
    BY <1>3, <2>b, <2>1, <2>2, <2>3, <2>4, <2>6, <2>7, <2>8, <2>9, <2>10
       DEF Step, CreateCheckoutSession, CreateRazorpayOrder, GatewayRefuses, VerifyMissing, Ref
<1>4. ASSUME NEW p \in Request, Crash(p)
      PROVE  TypeOK'
  <2>1. req' \in [Request -> Handler] /\ LocalsSet'
    BY <1>4, <1>a, FinishType DEF Crash
  <2> QED
    BY <1>4, <1>b, <2>1, BoundAssumption DEF Crash, TypeOK
<1>5. ASSUME UNCHANGED req
      PROVE  LocalsSet'
  BY <1>5, <1>a DEF LocalsSet
<1>6. CASE Outside
  <2>1. ASSUME NEW s \in Session, NEW outcome \in {"unpaid", "paid"}, CompleteCheckout(s, outcome)
        PROVE  TypeOK'
    BY <2>1, <1>5 DEF CompleteCheckout, TypeOK, SalesSet, Sale, Ref
  <2>2. ASSUME NEW s \in Session, ForeignCheckout(s)
        PROVE  TypeOK'
    BY <2>2, <1>5 DEF ForeignCheckout, TypeOK, SalesSet, Sale, Ref
  <2>3. ASSUME NEW o \in Order, NEW pid \in PaymentId, PayOrder(o, pid)
        PROVE  TypeOK'
    BY <2>3, <1>5 DEF PayOrder, TypeOK, SalesSet, Sale, Ref
  <2>4. ASSUME NEW u \in User, NEW a \in Amount, Spend(u, a)
        PROVE  TypeOK'
    <3>1. wallet' \in [User -> Balance] /\ spent' \in [User -> Nat]
      BY <2>4, AmountAssumption, NoWalletAssumption DEF Spend, Debit, CanDebit, Balance, TypeOK
    <3> QED
      BY <2>4, <1>5, <1>b, <3>1 DEF Spend, TypeOK
  <2>5. ASSUME NEW u \in User, DeleteAccount(u)
        PROVE  TypeOK'
    <3>1. txn' \in [Ref -> Row] /\ SalesSet'
      BY <2>5, NoRowType DEF DeleteAccount, TypeOK, SalesSet, NoRow
    <3> QED
      BY <2>5, <1>5, <3>1 DEF DeleteAccount, Balance, TypeOK
  <2>6. ASSUME NEW k \in Package, NEW c \in Amount, NEW active \in BOOLEAN,
               UpdatePackage(k, c, active)
        PROVE  TypeOK'
    BY <2>6, <1>5, <1>b DEF UpdatePackage, TypeOK
  <2>7. ASSUME NEW k \in Package, DeletePackage(k)
        PROVE  TypeOK'
    BY <2>7, <1>5, <1>b DEF DeletePackage, TypeOK
  <2> QED
    BY <1>6, <2>1, <2>2, <2>3, <2>4, <2>5, <2>6, <2>7 DEF Outside
<1>7. CASE UNCHANGED vars
  BY <1>7, <1>5, <1>b DEF vars, TypeOK
<1> QED
  BY <1>2, <1>3, <1>4, <1>6, <1>7 DEF Next

\* Every variable keeps its type, and a handler that is about to lock, credit
\* or commit knows the row, the account and the credits.
THEOREM TypeCorrect == Spec => []TypeOK
<1>1. Init => TypeOK
  BY InitType
<1>2. TypeOK /\ [Next]_vars => TypeOK'
  BY StepType
<1> QED
  BY <1>1, <1>2, PTL DEF Spec

-----------------------------------------------------------------------------
(* The inductive invariant.                                                *)

\* What the invariant says beyond types.
Safe ==
    /\ LocksExclusive
    /\ \A p \in Request : HandlerOK(p)
    /\ \A r \in Ref : RowOK(r)
    /\ \A s \in acked : AckOK(s)
    /\ \A u \in User : wallet[u] # NoWallet <=> u \in member
    /\ \A o \in Order, pid \in PaymentId : <<o, pid>> \in signed => gw[o].state = "paid"
    /\ PaymentSettlesOneOrder

LEMMA InitSafe == Init => Safe
<1> SUFFICES ASSUME Init
             PROVE  Safe
  OBVIOUS
<1>1. \A p \in Request : ~Holds(p) /\ HandlerOK(p)
  BY DEF Init, Holds, HandlerOK, Idle, At
<1>2. \A r \in Ref : RowOK(r) /\ txn[r].payment = Nil
  BY DEF Init, RowOK, Visible, NoRow, NoSale
<1>3. \A u \in User : wallet[u] # NoWallet <=> u \in member
  BY BoundAssumption, NoWalletAssumption DEF Init
<1> QED
  BY <1>1, <1>2, <1>3 DEF Init, Safe, LocksExclusive, Apart, PaymentSettlesOneOrder

\* A step that only moves one handler keeps the invariant if what that handler
\* now knows is true and the rows it now holds were free.
LEMMA MoveSafe ==
    ASSUME TypeOK, TypeOK', Safe, NEW p \in Request, NEW h, Moved(p, h),
           UNCHANGED <<member, gw, signed, txn, wallet, granted>>,
           HandlerOK(p)',
           \A q \in Request : q # p => Apart(p, q)',
           \A s \in acked' : AckOK(s)
    PROVE  Safe'
<1>1. \A q \in Request : q # p => req'[q] = req[q]
  BY DEF Moved, TypeOK
<1>2. \A q \in Request : q # p => HandlerOK(q)'
  BY <1>1 DEF Safe, HandlerOK, Holds, Visible
<1>3. LocksExclusive'
  <2> SUFFICES ASSUME NEW q1 \in Request, NEW q2 \in Request, q1 # q2
               PROVE  Apart(q1, q2)'
    BY DEF LocksExclusive
  <2>1. CASE q1 # p /\ q2 # p
    BY <1>1, <2>1 DEF Safe, LocksExclusive, Apart, Holds
  <2>2. CASE q1 = p \/ q2 = p
    BY <2>2 DEF Apart, Holds
  <2> QED
    BY <2>1, <2>2
<1>4. \A r \in Ref : RowOK(r)'
  BY DEF Safe, RowOK, Visible
<1> QED
  BY <1>2, <1>3, <1>4 DEF Safe, PaymentSettlesOneOrder, AckOK

LEMMA FinishSafe ==
    ASSUME TypeOK, TypeOK', Safe, NEW p \in Request, Finish(p),
           UNCHANGED <<member, gw, signed, txn, wallet, granted>>,
           \A s \in acked' : AckOK(s)
    PROVE  Safe'
<1>1. Moved(p, Idle) /\ req'[p] = Idle
  BY DEF Finish, Moved, TypeOK
<1>2. HandlerOK(p)' /\ ~Holds(p)'
  BY <1>1 DEF HandlerOK, Holds, Idle, At
<1> QED
  BY <1>1, <1>2, MoveSafe DEF Apart

LEMMA StartSafe ==
    ASSUME TypeOK, TypeOK', Safe, NEW p \in Request, Start(p)
    PROVE  Safe'
<1>a. \A s \in acked : AckOK(s)
  BY DEF Safe
<1>1. ASSUME NEW u \in User, NEW k \in Package, GetActivePackage(p, u, k)
      PROVE  Safe'
  <2> DEFINE h == At("quoted", Nil, u, pkg[k].credits, Nil)
  <2>1. Moved(p, h) /\ req'[p] = h
    BY <1>1 DEF GetActivePackage, Moved, TypeOK
  <2>2. HandlerOK(p)' /\ ~Holds(p)'
    BY <2>1 DEF HandlerOK, Holds, At
  <2> QED
    BY <1>1, <1>a, <2>1, <2>2, MoveSafe DEF GetActivePackage, Apart
<1>2. ASSUME NEW s \in Session, DeliverCompleted(p, s)
      PROVE  Safe'
  <2>1. CASE IsPaid(s)
    <3> DEFINE h == At("select", s, Nil, 0, Nil)
    <3>1. Moved(p, h) /\ req'[p] = h
      BY <1>2, <2>1 DEF DeliverCompleted, Moved, TypeOK
    <3>2. HandlerOK(p)' /\ ~Holds(p)'
      BY <1>2, <2>1, <3>1, RefAssumption DEF DeliverCompleted, IsPaid, HandlerOK, Holds, At
    <3> QED
      BY <1>2, <2>1, <1>a, <3>1, <3>2, MoveSafe DEF DeliverCompleted, Apart
  <2>2. CASE ~IsPaid(s)
    <3>1. \A t \in acked' : AckOK(t)
      BY <1>2, <2>2, <1>a DEF DeliverCompleted, IsPaid, AckOK
    <3> QED
      BY SMTT(40), <1>2, <2>2, <3>1 DEF DeliverCompleted, Safe, LocksExclusive, Apart, Holds, HandlerOK,
         RowOK, AckOK, Visible, PaymentSettlesOneOrder
  <2> QED
    BY <2>1, <2>2
<1>3. ASSUME NEW u \in User, NEW o \in Order, NEW pid \in PaymentId, VerifyPayment(p, u, o, pid)
      PROVE  Safe'
  <2> DEFINE h == At("select", o, u, 0, pid)
  <2>1. Moved(p, h) /\ req'[p] = h
    BY <1>3 DEF VerifyPayment, Moved, TypeOK
  <2>2. gw[o].state = "paid" /\ o \notin Session
    BY <1>3, RefAssumption DEF VerifyPayment, Safe
  <2>3. HandlerOK(p)' /\ ~Holds(p)'
    BY <1>3, <2>1, <2>2 DEF VerifyPayment, HandlerOK, Holds, At
  <2> QED
    BY <1>3, <1>a, <2>1, <2>3, MoveSafe DEF VerifyPayment, Apart
<1> QED
  BY <1>1, <1>2, <1>3 DEF Start

\* The steps of a request that only moves on: everything but opening the
\* purchase, recording it and committing.
LEMMA LockSafe ==
    ASSUME TypeOK, TypeOK', Safe, NEW p \in Request,
           \/ LockTransaction(p) \/ MissTransaction(p) \/ InsertTransaction(p)
           \/ VerifyLock(p)
    PROVE  Safe'
<1> DEFINE r == req[p].ref
<1>a. (\A s \in acked : AckOK(s)) /\ r \in Ref /\ RowOK(r) /\ HandlerOK(p)
  BY DEF Safe, TypeOK, LocalsSet, LockTransaction, MissTransaction, InsertTransaction, VerifyLock
\* Taking a row that was free.
<1>1. ASSUME NEW h, Moved(p, h), ~RowLocked(r), h.pc = "credit", h.ref = r,
             UNCHANGED <<member, gw, signed, txn, wallet, granted, acked>>,
             HandlerOK(p)'
      PROVE  Safe'
  <2>1. \A q \in Request : q # p => Apart(p, q)'
    <3> SUFFICES ASSUME NEW q \in Request, q # p
                 PROVE  Apart(p, q)'
      OBVIOUS
    <3>1. req'[q] = req[q] /\ req'[p] = h
      BY <1>1 DEF Moved, TypeOK
    <3> QED
      BY <1>1, <3>1 DEF Apart, Holds, RowLocked
  <2> QED
    BY <1>1, <1>a, <2>1, MoveSafe
<1>2. CASE LockTransaction(p)
  <2>1. CASE txn[r].status = "completed"
    <3>1. \A s \in acked' : AckOK(s)
      BY <1>2, <1>a, <2>1 DEF LockTransaction, Answered, AckOK, HandlerOK
    <3> QED
      BY <1>2, <2>1, <3>1, FinishSafe DEF LockTransaction
  <2>2. CASE txn[r].status # "completed"
    <3> DEFINE h == At("credit", r, txn[r].user, txn[r].credits, Nil)
    <3>1. Moved(p, h) /\ req'[p] = h
      BY <1>2, <2>2 DEF LockTransaction, Moved, TypeOK
    <3>2. granted[r] = 0
      BY <1>2, <1>a, <2>2 DEF LockTransaction, CanLock, Visible, RowOK, TypeOK, Row
    <3>3. HandlerOK(p)'
      BY SMTT(40), <1>2, <1>a, <2>2, <3>1, <3>2, RefAssumption
         DEF LockTransaction, HandlerOK, Holds, At, CanLock, RowOK, Visible
    <3> QED
      BY <1>1, <1>2, <2>2, <3>1, <3>3 DEF LockTransaction, CanLock, At
  <2> QED
    BY <2>1, <2>2
<1>3. CASE MissTransaction(p)
  <2>1. CASE MayRebuild(p, r)
    <3> DEFINE h == [req[p] EXCEPT !.pc = "insert"]
    <3>0. req[p] \in Handler
      BY DEF TypeOK
    <3>1. Moved(p, h) /\ req'[p] = h /\ h.pc = "insert" /\ h.ref = r /\ h.payment = req[p].payment
      BY <1>3, <2>1, <3>0 DEF MissTransaction, Goto, Moved, TypeOK, Handler
    <3> HIDE DEF h
    <3>2. HandlerOK(p)' /\ ~Holds(p)'
      BY <1>3, <1>a, <2>1, <3>1 DEF MissTransaction, MayRebuild, HandlerOK, Holds
    <3> QED
      BY <1>3, <1>a, <2>1, <3>1, <3>2, MoveSafe DEF MissTransaction, Apart
  <2>2. CASE ~MayRebuild(p, r)
    <3>1. \A s \in acked' : AckOK(s)
      BY <1>3, <1>a, <2>2, NilAssumption
         DEF MissTransaction, MayRebuild, HasMetadata, Answered, AckOK, HandlerOK, TypeOK
    <3> QED
      BY <1>3, <2>2, <3>1, FinishSafe DEF MissTransaction
  <2> QED
    BY <2>1, <2>2
<1>4. CASE InsertTransaction(p)
  <2>1. CASE UniqueRefHolds(r) /\ ForeignKeyHolds(gw[r].user)
    <3> DEFINE h == At("credit", r, gw[r].user, gw[r].credits, Nil)
    <3>1. Moved(p, h) /\ req'[p] = h
      BY <1>4, <2>1 DEF InsertTransaction, Moved, TypeOK
    <3>2. granted[r] = 0 /\ txn[r].status # "completed" /\ r \in Session
      BY <1>a, <1>4, <2>1
         DEF RowOK, TypeOK, LocalsSet, InsertTransaction, UniqueRefHolds, ForeignKeyHolds, Visible
    <3>3. HandlerOK(p)'
      BY <1>4, <1>a, <2>1, <3>1, <3>2, RefAssumption
         DEF InsertTransaction, HandlerOK, Holds, At, ForeignKeyHolds
    <3> QED
      BY <1>1, <1>4, <2>1, <3>1, <3>3 DEF InsertTransaction, At
  <2>2. CASE ~(UniqueRefHolds(r) /\ ForeignKeyHolds(gw[r].user))
    <3> DEFINE h == [req[p] EXCEPT !.pc = "reselect"]
    <3>0. req[p] \in Handler
      BY DEF TypeOK
    <3>1. Moved(p, h) /\ req'[p] = h /\ h.pc = "reselect" /\ h.ref = r /\ h.payment = req[p].payment
      BY <1>4, <2>2, <3>0 DEF InsertTransaction, Goto, Moved, TypeOK, Handler
    <3> HIDE DEF h
    <3>2. HandlerOK(p)' /\ ~Holds(p)'
      BY <1>4, <1>a, <2>2, <3>1
         DEF InsertTransaction, UniqueRefHolds, ForeignKeyHolds, HandlerOK, Holds, Visible
    <3> QED
      BY <1>4, <1>a, <2>2, <3>1, <3>2, MoveSafe DEF InsertTransaction, Apart
  <2> QED
    BY <2>1, <2>2
<1>5. CASE VerifyLock(p)
  <2>1. CASE MaySettle(req[p].user, r)
    <3> DEFINE h == At("credit", r, txn[r].user, txn[r].credits, req[p].payment)
    <3>1. Moved(p, h) /\ req'[p] = h
      BY <1>5, <2>1 DEF VerifyLock, Moved, TypeOK
    <3>2. granted[r] = 0 /\ r \notin Session
      BY <1>5, <1>a, <2>1, RefAssumption 
         DEF VerifyLock, MaySettle, CanLock, Visible, RowOK, TypeOK, Row
    <3>3. HandlerOK(p)'
      BY SMTT(40), <1>5, <1>a, <2>1, <3>1, <3>2
         DEF VerifyLock, HandlerOK, Holds, At, CanLock, RowOK, Visible
    <3> QED
      BY <1>1, <1>5, <2>1, <3>1, <3>3 DEF VerifyLock, CanLock, At
  <2>2. CASE ~MaySettle(req[p].user, r)
    BY <1>5, <1>a, <2>2, FinishSafe DEF VerifyLock
  <2> QED
    BY <2>1, <2>2
<1> QED
  BY <1>2, <1>3, <1>4, <1>5

LEMMA CreditSafe ==
    ASSUME TypeOK, TypeOK', Safe, NEW p \in Request, CreditWallet(p)
    PROVE  Safe'
<1> DEFINE u == req[p].user
           c == req[p].credits
           bal == Credit(wallet, u, c)[u]
           h == [req[p] EXCEPT !.pc = "commit", !.bal = bal]
<1>a. UNCHANGED <<member, gw, signed, txn, wallet, granted, acked>> /\ req[p].pc = "credit"
  BY DEF CreditWallet
<1>b. HandlerOK(p) /\ \A s \in acked : AckOK(s)
  BY DEF Safe
<1>c. u \in member /\ u \in User /\ c \in Amount
  BY <1>a, <1>b DEF HandlerOK, Holds, TypeOK, LocalsSet
<1>1. wallet[u] # NoWallet
  BY <1>c DEF Safe
<1>2. bal = wallet[u] + c
  <2>1. wallet \in [User -> Balance] /\ c \in Int /\ c > 0
    BY <1>c, AmountType DEF TypeOK
  <2>2. bal = GetBalance(wallet, u) + c
    BY <1>c, <2>1, CreditType
  <2> QED
    BY <1>1, <2>2 DEF GetBalance
<1>3. req[p] \in Handler
  BY DEF TypeOK
<1>4. /\ Moved(p, h) /\ req'[p] = h
      /\ h.pc = "commit" /\ h.bal = bal /\ h.ref = req[p].ref /\ h.user = u /\ h.credits = c
      /\ h.payment = req[p].payment
  BY ZenonT(60), <1>3 DEF CreditWallet, Moved, TypeOK, Handler
<1> HIDE DEF h, bal
<1>5. HandlerOK(p)'
  BY <1>a, <1>b, <1>c, <1>2, <1>4 DEF HandlerOK, Holds, Visible
<1>6. \A q \in Request : q # p => Apart(p, q)'
  <2> SUFFICES ASSUME NEW q \in Request, q # p
               PROVE  Apart(p, q)'
    OBVIOUS
  <2>1. req'[q] = req[q]
    BY <1>4 DEF Moved, TypeOK
  <2>2. Apart(p, q) /\ Holds(p) /\ ~WalletLocked(u)
    BY DEF Safe, LocksExclusive, CreditWallet, Holds
  <2> QED
    BY <1>4, <2>1, <2>2 DEF Apart, Holds, WalletLocked
<1> QED
  BY <1>a, <1>b, <1>4, <1>5, <1>6, MoveSafe

LEMMA OpenSafe ==
    ASSUME TypeOK, TypeOK', Safe, NEW p \in Request, NEW x \in Ref, OpenAtGateway(p, x)
    PROVE  Safe'
<1> DEFINE h == At("record", x, req[p].user, req[p].credits, Nil)
<1>1. /\ req'[p] = h /\ \A q \in Request : q # p => req'[q] = req[q]
      /\ \A r \in Ref : r # x => gw'[r] = gw[r]
      /\ gw'[x] = [state |-> "open", user |-> req[p].user, credits |-> req[p].credits]
  BY DEF OpenAtGateway, TypeOK
<1>2. gw[x].state = "none" /\ gw[x].user = Nil
  BY DEF OpenAtGateway, NoSale
<1>3. ~Visible(x) /\ granted[x] = 0
  <2>1. RowOK(x) /\ granted[x] \in Nat /\ Nil \notin member
    BY NilAssumption DEF Safe, TypeOK
  <2> QED
    BY <1>2, <2>1 DEF RowOK
<1>4. \A r \in Ref : RowOK(r)'
  <2> SUFFICES ASSUME NEW r \in Ref
               PROVE  RowOK(r)'
    OBVIOUS
  <2>1. CASE r = x
    BY <1>1, <1>2, <1>3, <2>1 DEF Safe, OpenAtGateway, RowOK, Visible
  <2>2. CASE r # x
    BY <1>1, <2>2 DEF Safe, OpenAtGateway, RowOK, Visible
  <2> QED
    BY <2>1, <2>2
<1>5. HandlerOK(p)' /\ ~Holds(p)'
  BY <1>1 DEF HandlerOK, Holds, At
<1>6. \A q \in Request : q # p => HandlerOK(q)'
  <2> SUFFICES ASSUME NEW q \in Request, q # p
               PROVE  HandlerOK(q)'
    OBVIOUS
  <2>1. CASE req[q].pc \in {"idle", "quoted"}
    BY <1>1, <2>1 DEF HandlerOK, Holds
  <2>2. CASE req[q].pc \notin {"idle", "quoted"}
    <3>1. req[q].ref \in Ref \ {x}
      BY <1>2, <2>2 DEF Safe, HandlerOK, TypeOK, LocalsSet
    <3> QED
      BY <1>1, <3>1 DEF OpenAtGateway, Safe, HandlerOK, Holds, Visible
  <2> QED
    BY <2>1, <2>2
<1>7. LocksExclusive'
  BY <1>1, <1>5 DEF Safe, LocksExclusive, Apart, Holds
<1>8. \A s \in acked' : AckOK(s)'
  BY <1>1, <1>2 DEF OpenAtGateway, Safe, AckOK, TypeOK, Ref
<1> QED
  BY <1>1, <1>2, <1>4, <1>5, <1>6, <1>7, <1>8
     DEF OpenAtGateway, Safe, PaymentSettlesOneOrder, Ref

LEMMA RecordSafe ==
    ASSUME TypeOK, TypeOK', Safe, NEW p \in Request, RecordPurchase(p)
    PROVE  Safe'
<1> DEFINE r == req[p].ref
           row == [status |-> "pending", user |-> req[p].user,
                   credits |-> req[p].credits, payment |-> Nil]
<1>1. \A s \in acked : AckOK(s)
  BY DEF Safe
<1>2. CASE ~(UniqueRefHolds(r) /\ ForeignKeyHolds(req[p].user))
  BY <1>1, <1>2, FinishSafe DEF RecordPurchase
<1>3. CASE UniqueRefHolds(r) /\ ForeignKeyHolds(req[p].user)
  <2>1. /\ r \in Ref /\ HandlerOK(p) /\ RowOK(r)
        /\ req[p].user = gw[r].user /\ req[p].credits = gw[r].credits
    BY DEF Safe, RecordPurchase, HandlerOK, TypeOK, LocalsSet
  <2>2. /\ txn'[r] = row /\ \A x \in Ref : x # r => txn'[x] = txn[x]
        /\ req'[p] = Idle /\ \A q \in Request : q # p => req'[q] = req[q]
    BY <1>3, <2>1 DEF RecordPurchase, Finish, TypeOK
  <2>3. granted[r] = 0 /\ ~Visible(r) /\ gw[r].user \in member
    BY <1>3, <2>1 DEF UniqueRefHolds, ForeignKeyHolds, RowOK, TypeOK, Visible
  <2>4. HandlerOK(p)' /\ ~Holds(p)'
    BY <2>2 DEF HandlerOK, Holds, Idle, At
  <2>5. \A q \in Request : q # p => HandlerOK(q)'
    BY <2>2, <2>3 DEF RecordPurchase, Safe, TypeOK, LocalsSet, HandlerOK, Holds, Visible
  <2>6. LocksExclusive'
    BY <2>2, <2>4 DEF Safe, LocksExclusive, Apart, Holds
  <2>7. \A x \in Ref : RowOK(x)'
    <3>1. ASSUME NEW x \in Ref, x = r
          PROVE  RowOK(x)'
      <4>1. UNCHANGED <<member, gw, signed, granted>>
        BY DEF RecordPurchase
      <4>2. /\ txn'[x].status = "pending" /\ txn'[x].user = gw[x].user
            /\ txn'[x].credits = gw[x].credits
        BY <2>1, <2>2, <3>1
      <4> QED
        BY <2>1, <2>3, <3>1, <4>1, <4>2 DEF RowOK, Visible
    <3>2. \A x \in Ref : x # r => RowOK(x)'
      BY <2>2 DEF RecordPurchase, Safe, RowOK, Visible
    <3> QED
      BY <3>1, <3>2
  <2>8. \A s \in acked' : AckOK(s)'
    <3> SUFFICES ASSUME NEW s \in acked
                 PROVE  AckOK(s)'
      BY DEF RecordPurchase
    <3>1. AckOK(s) /\ s \in Ref /\ UNCHANGED <<member, gw>>
      BY DEF Safe, RecordPurchase, TypeOK, Ref
    <3>2. CASE s = r
      BY <2>3, <3>1, <3>2 DEF AckOK, Visible
    <3>3. CASE s # r
      BY <2>2, <3>1, <3>3 DEF AckOK
    <3> QED
      BY <3>2, <3>3
  <2>9. PaymentSettlesOneOrder'
    BY <2>2 DEF Safe, PaymentSettlesOneOrder
  <2> QED
    BY <2>4, <2>5, <2>6, <2>7, <2>8, <2>9 DEF RecordPurchase, Safe
<1> QED
  BY <1>2, <1>3

\* The commit of a handler that holds its row and its wallet.
LEMMA CommitSafe ==
    ASSUME TypeOK, TypeOK', Safe, NEW p \in Request, Commit(p)
    PROVE  Safe'
<1> DEFINE row == [status |-> "completed", user |-> req[p].user,
                   credits |-> req[p].credits, payment |-> req[p].payment]
<1>a. \A s \in acked : AckOK(s)
  BY DEF Safe
<1>1. CASE UNCHANGED <<txn, wallet, granted, acked>>
  BY <1>a, <1>1, FinishSafe DEF Commit
<1>2. PICK r \in Ref, u \in User : r = req[p].ref /\ u = req[p].user
  BY DEF Commit, TypeOK, LocalsSet
<1>3. CASE /\ r \in Session \/ UniquePaymentHolds(r, req[p].payment)
           /\ txn' = [txn EXCEPT ![r] = row]
           /\ wallet' = [wallet EXCEPT ![u] = req[p].bal]
           /\ granted' = [granted EXCEPT ![r] = @ + 1]
           /\ acked' = Answered(r)
  <2>1. /\ HandlerOK(p) /\ RowOK(r) /\ Holds(p) /\ req[p].pc = "commit"
        /\ UNCHANGED <<member, gw, signed>>
    BY DEF Safe, Commit, Holds
  <2>2. /\ u \in member /\ u = gw[r].user /\ req[p].credits = gw[r].credits
        /\ gw[r].state = "paid" /\ granted[r] = 0
        /\ r \in Session => req[p].payment = Nil
        /\ r \in Order => <<r, req[p].payment>> \in signed
    BY <1>2, <2>1 DEF HandlerOK
  <2>3. /\ txn'[r].status = "completed" /\ txn'[r].user = u /\ txn'[r].credits = req[p].credits
        /\ txn'[r].payment = req[p].payment
        /\ \A x \in Ref : x # r => txn'[x] = txn[x]
        /\ granted'[r] = 1 /\ \A x \in Ref : x # r => granted'[x] = granted[x]
        /\ \A v \in User : v # u => wallet'[v] = wallet[v]
        /\ wallet'[u] # NoWallet
    BY <1>2, <1>3, <2>2, NoWalletAssumption DEF TypeOK, Handler
  <2>4. req'[p] = Idle /\ \A q \in Request : q # p => req'[q] = req[q]
    BY DEF Commit, Finish, TypeOK
  <2>5. HandlerOK(p)' /\ ~Holds(p)'
    BY <2>4 DEF HandlerOK, Holds, Idle, At
  <2>6. ASSUME NEW q \in Request, q # p
        PROVE  HandlerOK(q)'
    <3>1. HandlerOK(q) /\ Apart(p, q) /\ req'[q] = req[q]
      BY <2>4, <2>6 DEF Safe, LocksExclusive
    <3>2. /\ req[q].pc \notin {"idle", "quoted"} => req[q].ref \in Ref
          /\ Holds(q) => req[q].user \in User
      BY DEF TypeOK, LocalsSet, Holds
    <3>3. Holds(q) => req[q].ref # r /\ (req[q].pc = "commit" => req[q].user # u)
      BY <1>2, <2>1, <3>1 DEF Apart
    <3> QED
      BY <2>1, <2>3, <3>1, <3>2, <3>3 DEF HandlerOK, Holds, Visible
  <2>7. LocksExclusive'
    BY <2>4, <2>5 DEF Safe, LocksExclusive, Apart, Holds
  <2>8. \A x \in Ref : RowOK(x)'
    <3>1. RowOK(r)'
      BY <2>1, <2>2, <2>3 DEF RowOK, Visible
    <3>2. ASSUME NEW x \in Ref, x # r
          PROVE  RowOK(x)'
      BY <2>1, <2>3, <3>2 DEF Safe, RowOK, Visible
    <3> QED
      BY <3>1, <3>2
  <2>9. \A s \in acked' : AckOK(s)'
    <3> SUFFICES ASSUME NEW s \in acked'
                 PROVE  AckOK(s)'
      OBVIOUS
    <3>1. s \in Ref /\ (s = r \/ s \in acked)
      BY <1>3 DEF Answered, TypeOK, Ref
    <3>2. CASE s = r
      BY <2>1, <2>2, <2>3, <3>2 DEF AckOK
    <3>3. CASE s # r
      BY <1>a, <2>1, <2>3, <3>1, <3>3 DEF AckOK
    <3> QED
      BY <3>2, <3>3
  <2>10. PaymentSettlesOneOrder'
    <3> SUFFICES ASSUME NEW x \in Ref, NEW y \in Ref, x # y, txn'[x].payment # Nil
                 PROVE  txn'[x].payment # txn'[y].payment
      BY DEF PaymentSettlesOneOrder
    <3>1. CASE x # r /\ y # r
      BY <2>3, <3>1 DEF Safe, PaymentSettlesOneOrder
    <3>2. CASE x = r
      BY <1>3, <2>2, <2>3, <3>2 DEF UniquePaymentHolds
    <3>3. CASE y = r
      BY <1>3, <2>2, <2>3, <3>3 DEF UniquePaymentHolds
    <3> QED
      BY <3>1, <3>2, <3>3
  <2>11. \A v \in User : wallet'[v] # NoWallet <=> v \in member'
    BY <2>1, <2>2, <2>3 DEF Safe
  <2> QED
    BY <2>1, <2>5, <2>6, <2>7, <2>8, <2>9, <2>10, <2>11 DEF Safe
<1> QED
  BY <1>1, <1>2, <1>3 DEF Commit

\* What the customer and the gateway do moves a sale forward only.
LEMMA GatewaySafe ==
    ASSUME TypeOK, TypeOK', Safe, NEW r \in Ref,
           UNCHANGED <<member, txn, wallet, req, acked, granted>>,
           \A x \in Ref : x # r => gw'[x] = gw[x],
           gw'[r].user = gw[r].user, gw'[r].credits = gw[r].credits,
           \/ gw[r].state = "none" /\ gw'[r].state = "open"
           \/ gw[r].state = "open" /\ gw'[r].state \in {"unpaid", "paid"}
           \/ gw[r].state = "paid" /\ gw'[r].state = "paid",
           r \in Session => gw[r].state # "paid",
           signed \subseteq signed',
           \A o \in Order, pid \in PaymentId : <<o, pid>> \in signed' \ signed =>
               o = r /\ gw'[r].state = "paid"
    PROVE  Safe'
<1>1. ASSUME NEW p \in Request
      PROVE  HandlerOK(p)'
  <2>1. CASE req[p].pc \in {"idle", "quoted"}
    BY <2>1 DEF HandlerOK, Holds
  <2>2. CASE req[p].pc \notin {"idle", "quoted"}
    <3>1. req[p].ref \in Ref /\ HandlerOK(p)
      BY <2>2 DEF Safe, TypeOK, LocalsSet
    <3>2. CASE req[p].ref = r
      BY <3>1, <3>2 DEF HandlerOK, Holds, Visible
    <3>3. CASE req[p].ref # r
      BY <3>1, <3>3 DEF HandlerOK, Holds, Visible
    <3> QED
      BY <3>2, <3>3
  <2> QED
    BY <2>1, <2>2
<1>2. ASSUME NEW x \in Ref
      PROVE  RowOK(x)'
  <2>1. RowOK(x)
    BY DEF Safe
  <2>2. CASE x = r
    BY <2>1, <2>2 DEF RowOK, Visible
  <2>3. CASE x # r
    BY <2>1, <2>3 DEF RowOK, Visible
  <2> QED
    BY <2>2, <2>3
<1>3. ASSUME NEW s \in acked
      PROVE  AckOK(s)'
  <2>1. s \in Ref /\ s \in Session /\ AckOK(s)
    BY DEF Safe, TypeOK, Ref
  <2>2. s # r \/ gw[s].state = "unpaid"
    BY <2>1 DEF AckOK
  <2> QED
    BY <2>1, <2>2 DEF AckOK
<1>4. \A o \in Order, pid \in PaymentId : <<o, pid>> \in signed' => gw'[o].state = "paid"
  BY DEF Safe, Ref
<1> QED
  BY <1>1, <1>2, <1>3, <1>4 DEF Safe, LocksExclusive, Apart, Holds, PaymentSettlesOneOrder

LEMMA SpendSafe ==
    ASSUME TypeOK, TypeOK', Safe, NEW u \in User, NEW a \in Amount, Spend(u, a)
    PROVE  Safe'
<1>1. /\ UNCHANGED <<member, gw, signed, txn, req, acked, granted>> /\ ~WalletLocked(u)
      /\ u \in member /\ wallet[u] # NoWallet
  BY DEF Spend, Safe
<1>2. wallet[u] \in Int /\ wallet'[u] = wallet[u] - a /\ wallet'[u] # NoWallet
      /\ \A v \in User : v # u => wallet'[v] = wallet[v]
  BY <1>1, AmountType, NoWalletAssumption DEF Spend, Debit, TypeOK, Balance
<1>3. ASSUME NEW p \in Request
      PROVE  HandlerOK(p)'
  <2>1. HandlerOK(p) /\ (req[p].pc = "commit" => req[p].user \in User /\ req[p].user # u)
    BY <1>1 DEF Safe, WalletLocked, TypeOK, LocalsSet
  <2> QED
    BY <1>1, <1>2, <2>1 DEF HandlerOK, Holds, Visible
<1>4. \A r \in Ref : RowOK(r)'
  BY <1>1 DEF Safe, RowOK, Visible
<1> QED
  BY <1>1, <1>2, <1>3, <1>4
     DEF Safe, LocksExclusive, Apart, Holds, AckOK, PaymentSettlesOneOrder

LEMMA DeleteSafe ==
    ASSUME TypeOK, TypeOK', Safe, NEW u \in User, DeleteAccount(u)
    PROVE  Safe'
<1>1. /\ UNCHANGED <<gw, signed, req, acked, granted>>
      /\ u \in member /\ member' = member \ {u}
      /\ \A p \in Request : Holds(p) => req[p].user # u
      /\ wallet'[u] = NoWallet /\ \A v \in User : v # u => wallet'[v] = wallet[v]
      /\ \A r \in Ref : txn'[r] = IF txn[r].user = u THEN NoRow ELSE txn[r]
  BY DEF DeleteAccount, Holds, TypeOK
<1>2. Nil # u
  BY NilAssumption
<1>3. ASSUME NEW r \in Ref
      PROVE  RowOK(r)'
  <2>1. RowOK(r)
    BY DEF Safe
  <2>2. CASE txn[r].user = u
    <3>1. Visible(r)
      BY <1>2, <2>1, <2>2 DEF RowOK, NoRow
    <3>2. txn'[r] = NoRow /\ ~Visible(r)' /\ gw[r].user = u
      BY <1>1, <2>1, <2>2, <3>1 DEF RowOK, Visible, NoRow
    <3> QED
      BY <1>1, <2>1, <3>2 DEF RowOK, NoRow
  <2>3. CASE txn[r].user # u
    BY <1>1, <2>1, <2>3 DEF RowOK, Visible
  <2> QED
    BY <2>2, <2>3
<1>4. ASSUME NEW p \in Request
      PROVE  HandlerOK(p)'
  <2>1. HandlerOK(p) /\ (req[p].pc \notin {"idle", "quoted"} => req[p].ref \in Ref)
        /\ (Holds(p) => req[p].user \in User)
    BY DEF Safe, TypeOK, LocalsSet, Holds
  <2>2. CASE req[p].pc = "reselect"
    <3>1. req[p].ref \in Ref /\ RowOK(req[p].ref)
      BY <2>1, <2>2 DEF Safe
    <3>2. Visible(req[p].ref) => Visible(req[p].ref)' \/ gw[req[p].ref].user \notin member'
      BY <1>1, <3>1 DEF RowOK, Visible
    <3> QED
      BY <1>1, <2>1, <2>2, <3>2 DEF HandlerOK, Holds
  <2>3. CASE req[p].pc # "reselect"
    BY <1>1, <2>1, <2>3 DEF HandlerOK, Holds
  <2> QED
    BY <2>2, <2>3
<1>5. ASSUME NEW s \in acked
      PROVE  AckOK(s)'
  <2>1. s \in Ref /\ AckOK(s) /\ RowOK(s)
    BY DEF Safe, TypeOK, Ref
  <2> QED
    BY <1>1, <2>1 DEF AckOK, RowOK, Visible
<1>6. PaymentSettlesOneOrder'
  BY <1>1 DEF Safe, PaymentSettlesOneOrder, NoRow
<1> QED
  BY <1>1, <1>3, <1>4, <1>5, <1>6 DEF Safe, LocksExclusive, Apart, Holds

LEMMA NextSafe == TypeOK /\ TypeOK' /\ Safe /\ [Next]_vars => Safe'
<1> SUFFICES ASSUME TypeOK, TypeOK', Safe, [Next]_vars
             PROVE  Safe'
  OBVIOUS
<1>1. ASSUME NEW p \in Request, Start(p)
      PROVE  Safe'
  BY <1>1, StartSafe
<1>a. \A s \in acked : AckOK(s)
  BY DEF Safe
<1>2. ASSUME NEW p \in Request, Step(p)
      PROVE  Safe'
  <2>1. CASE GatewayRefuses(p) \/ VerifyMissing(p)
    BY <2>1, <1>a, FinishSafe DEF GatewayRefuses, VerifyMissing
  <2>2. ASSUME NEW r \in Ref, OpenAtGateway(p, r)
        PROVE  Safe'
    BY <2>2, OpenSafe
  <2> QED
    BY <1>2, <2>1, <2>2, RecordSafe, LockSafe, CreditSafe, CommitSafe
       DEF Step, CreateCheckoutSession, CreateRazorpayOrder, Ref
<1>3. ASSUME NEW p \in Request, Crash(p)
      PROVE  Safe'
  BY <1>3, <1>a, FinishSafe DEF Crash
<1>4. CASE Outside
  <2>1. ASSUME NEW s \in Session, NEW outcome \in {"unpaid", "paid"}, CompleteCheckout(s, outcome)
        PROVE  Safe'
    <3>1. gw'[s] = [gw[s] EXCEPT !.state = outcome] /\ s \in Ref
          /\ \A x \in Ref : x # s => gw'[x] = gw[x]
      BY <2>1 DEF CompleteCheckout, TypeOK, Ref
    <3>2. gw'[s].state = outcome /\ gw'[s].user = gw[s].user /\ gw'[s].credits = gw[s].credits
      BY <3>1 DEF TypeOK, Sale
    <3> QED
      BY <2>1, <3>1, <3>2, GatewaySafe DEF CompleteCheckout
  <2>2. ASSUME NEW s \in Session, ForeignCheckout(s)
        PROVE  Safe'
    <3>1. gw'[s] = [gw[s] EXCEPT !.state = "open"] /\ s \in Ref /\ gw[s].state = "none"
          /\ \A x \in Ref : x # s => gw'[x] = gw[x]
      BY <2>2 DEF ForeignCheckout, TypeOK, Ref, NoSale
    <3>2. gw'[s].state = "open" /\ gw'[s].user = gw[s].user /\ gw'[s].credits = gw[s].credits
      BY <3>1 DEF TypeOK, Sale
    <3> QED
      BY <2>2, <3>1, <3>2, GatewaySafe DEF ForeignCheckout
  <2>3. ASSUME NEW o \in Order, NEW pid \in PaymentId, PayOrder(o, pid)
        PROVE  Safe'
    <3>1. gw'[o] = [gw[o] EXCEPT !.state = "paid"] /\ o \in Ref /\ o \notin Session
          /\ \A x \in Ref : x # o => gw'[x] = gw[x]
      BY <2>3, RefAssumption DEF PayOrder, TypeOK, Ref
    <3>2. gw'[o].state = "paid" /\ gw'[o].user = gw[o].user /\ gw'[o].credits = gw[o].credits
      BY <3>1 DEF TypeOK, Sale
    <3>3. \A x \in Order, y \in PaymentId : <<x, y>> \in signed' \ signed => x = o
      BY <2>3 DEF PayOrder
    <3> QED
      BY <2>3, <3>1, <3>2, <3>3, GatewaySafe DEF PayOrder
  <2>4. ASSUME UNCHANGED <<member, gw, signed, txn, wallet, req, acked, granted>>
        PROVE  Safe'
    BY SMTT(40), <2>4 DEF Safe, LocksExclusive, Apart, Holds, HandlerOK, RowOK, AckOK, Visible,
       PaymentSettlesOneOrder
  <2> QED
    BY <1>4, <2>1, <2>2, <2>3, <2>4, SpendSafe, DeleteSafe
       DEF Outside, UpdatePackage, DeletePackage
<1>5. CASE UNCHANGED vars
  BY SMTT(40), <1>5 DEF vars, Safe, LocksExclusive, Apart, Holds, HandlerOK, RowOK, AckOK, Visible,
     PaymentSettlesOneOrder
<1> QED
  BY <1>1, <1>2, <1>3, <1>4, <1>5 DEF Next

LEMMA InductiveInvariant == Spec => [](TypeOK /\ Safe)
<1>1. Init => TypeOK /\ Safe
  BY InitType, InitSafe
<1>2. (TypeOK /\ Safe) /\ [Next]_vars => (TypeOK /\ Safe)'
  BY StepType, NextSafe
<1> QED
  BY <1>1, <1>2, PTL DEF Spec

-----------------------------------------------------------------------------
(* The properties, for every instance.                                     *)

\* Whatever the number of webhooks, verifications, requests and crashes, the
\* credits of a purchase are granted at most once and its row tells whether.
THEOREM GrantsAtMostOnce == Spec => []AtMostOnce
<1>1. TypeOK /\ Safe => AtMostOnce
  <2> SUFFICES ASSUME TypeOK, Safe, NEW r \in Ref
               PROVE  /\ granted[r] <= 1
                      /\ txn[r].status = "completed" => granted[r] = 1
                      /\ txn[r].status = "pending" => granted[r] = 0
    BY DEF AtMostOnce
  <2>1. RowOK(r) /\ granted[r] \in Nat
    BY DEF TypeOK, Safe
  <2> QED
    BY <2>1 DEF RowOK
<1> QED
  BY <1>1, InductiveInvariant, PTL

\* Credits are only granted for money taken, to the buyer and in the amount
\* the purchase was opened with.
THEOREM GrantsAsSold == Spec => []GrantedAsSold
<1>1. TypeOK /\ Safe => GrantedAsSold
  <2> SUFFICES ASSUME TypeOK, Safe, NEW r \in Ref, granted[r] > 0
               PROVE  /\ gw[r].state = "paid"
                      /\ txn[r].status = "completed" =>
                            /\ txn[r].user = gw[r].user
                            /\ txn[r].credits = gw[r].credits
                            /\ r \in Order => <<r, txn[r].payment>> \in signed
    BY DEF GrantedAsSold
  <2>1. RowOK(r)
    BY DEF Safe
  <2> QED
    BY <2>1 DEF RowOK, Visible
<1> QED
  BY <1>1, InductiveInvariant, PTL

\* Stripe gets no 2xx for a paid event before its credits are committed.
THEOREM AcksWhatIsCredited == Spec => []AckedIsCredited
<1>1. Safe => AckedIsCredited
  BY DEF Safe, AckOK, AckedIsCredited
<1> QED
  BY <1>1, InductiveInvariant, PTL

\* A Razorpay payment settles at most one order.
THEOREM SettlesOneOrder == Spec => []PaymentSettlesOneOrder
<1>1. Safe => PaymentSettlesOneOrder
  BY DEF Safe
<1> QED
  BY <1>1, InductiveInvariant, PTL

\* A completed row only ever disappears with its account.
THEOREM ReceiptsStay == Spec => ReceiptsAreFinal
<1> DEFINE Final == \A r \in Ref : txn[r].status = "completed" =>
                       txn'[r] = txn[r] \/ txn[r].user \notin member'
<1>1. TypeOK /\ Safe /\ [Next]_vars => [Final]_vars
  <2> SUFFICES ASSUME TypeOK, Safe, Next, NEW r \in Ref, txn[r].status = "completed"
               PROVE  txn'[r] = txn[r] \/ txn[r].user \notin member'
    OBVIOUS
  <2>1. CASE UNCHANGED txn
    BY <2>1
  <2>2. ASSUME NEW p \in Request, RecordPurchase(p)
        PROVE  txn'[r] = txn[r]
    BY <2>2 DEF RecordPurchase, UniqueRefHolds, Visible, TypeOK
  <2>3. ASSUME NEW p \in Request, Commit(p)
        PROVE  txn'[r] = txn[r]
    <3>1. req[p].ref \in Ref /\ req[p].ref # r
      <4>1. req[p].ref \in Ref /\ HandlerOK(p) /\ RowOK(r) /\ Holds(p)
        BY <2>3 DEF Commit, Safe, TypeOK, LocalsSet, Holds
      <4> QED
        BY <4>1 DEF HandlerOK, RowOK
    <3> QED
      BY <2>3, <3>1 DEF Commit, TypeOK
  <2>4. ASSUME NEW u \in User, DeleteAccount(u)
        PROVE  txn'[r] = txn[r] \/ txn[r].user \notin member'
    BY <2>4 DEF DeleteAccount, TypeOK
  <2> QED
    BY ZenonT(60), <2>1, <2>2, <2>3, <2>4
       DEF Next, Start, Step, Outside, GetActivePackage, DeliverCompleted, VerifyPayment,
           CreateCheckoutSession, CreateRazorpayOrder, OpenAtGateway, GatewayRefuses,
           LockTransaction, MissTransaction, InsertTransaction, VerifyMissing, VerifyLock,
           CreditWallet, Crash, CompleteCheckout, ForeignCheckout, PayOrder, Spend,
           UpdatePackage, DeletePackage
<1> QED
  BY <1>1, InductiveInvariant, PTL DEF Spec, ReceiptsAreFinal

-----------------------------------------------------------------------------
(* The ledger: what a wallet holds is the sum of its completed purchases.  *)

Credits == [r \in Ref |-> txn[r].credits]
Settled(u) == {r \in Ref : txn[r].user = u /\ txn[r].status = "completed"}
Bought(u) == SumFunctionOnSet(Credits, Settled(u))

Balanced(u) == u \in member => wallet[u] = Opening - spent[u] + Bought(u)
Ledger == \A u \in User : IsFiniteSet(Settled(u)) /\ Balanced(u)

LEMMA CreditsInt == TypeOK => \A r \in Ref : Credits[r] \in Int /\ Credits[r] = txn[r].credits
  BY AmountType DEF TypeOK, Row, Credits

\* The completed rows of an account are the same, with the same credits.
LEMMA BoughtSame ==
    ASSUME TypeOK, TypeOK', NEW u \in User, IsFiniteSet(Settled(u)),
           \A r \in Ref : /\ r \in Settled(u) <=> r \in Settled(u)'
                          /\ r \in Settled(u) => txn'[r].credits = txn[r].credits
    PROVE  Settled(u)' = Settled(u) /\ Bought(u)' = Bought(u)
<1>1. Settled(u)' = Settled(u) /\ Settled(u) \subseteq Ref
  BY DEF Settled
<1>2. \A r \in Settled(u) : Credits'[r] = Credits[r]
  BY <1>1 DEF Credits
<1>3. SumFunctionOnSet(Credits', Settled(u)) = SumFunctionOnSet(Credits, Settled(u))
  BY <1>2, SumSame
<1> QED
  BY <1>1, <1>3 DEF Bought

\* No completed row comes or goes, and no wallet moves.
LEMMA LedgerKept ==
    ASSUME TypeOK, TypeOK', Ledger, UNCHANGED <<member, wallet, spent>>,
           \A r \in Ref : txn'[r] = txn[r] \/ (txn[r].status # "completed" /\ txn'[r].status # "completed")
    PROVE  Ledger'
<1> SUFFICES ASSUME NEW u \in User
             PROVE  IsFiniteSet(Settled(u)') /\ Balanced(u)'
  BY DEF Ledger
<1>1. IsFiniteSet(Settled(u)) /\ Balanced(u)
  BY DEF Ledger
<1>2. Settled(u)' = Settled(u) /\ Bought(u)' = Bought(u)
  <2>1. \A r \in Ref : /\ r \in Settled(u) <=> r \in Settled(u)'
                       /\ r \in Settled(u) => txn'[r].credits = txn[r].credits
    BY DEF Settled
  <2> QED
    BY <1>1, <2>1, BoughtSame
<1> QED
  BY <1>1, <1>2 DEF Balanced

\* The commit adds one completed row and its credits, once.
LEMMA CommitLedger ==
    ASSUME TypeOK, TypeOK', Safe, Ledger, NEW p \in Request, Commit(p)
    PROVE  Ledger'
<1>1. CASE UNCHANGED <<txn, wallet, granted, acked>>
  BY <1>1, LedgerKept DEF Commit
<1>2. PICK r \in Ref, u \in User : r = req[p].ref /\ u = req[p].user
  BY DEF Commit, TypeOK, LocalsSet
<1>3. PICK c : c = req[p].credits
  OBVIOUS
<1>4. CASE /\ txn' = [txn EXCEPT ![r] = [status |-> "completed", user |-> u, credits |-> c,
                                         payment |-> req[p].payment]]
           /\ wallet' = [wallet EXCEPT ![u] = req[p].bal]
  <2>1. /\ HandlerOK(p) /\ RowOK(r) /\ Holds(p) /\ req[p].pc = "commit"
        /\ UNCHANGED <<member, spent>>
    BY DEF Safe, Commit, Holds
  <2>2. granted[r] = 0 /\ u \in member /\ req[p].bal = wallet[u] + c /\ c \in Int
    BY <1>2, <1>3, <2>1, AmountType DEF HandlerOK, TypeOK, LocalsSet
  <2>3. txn[r].status # "completed"
    BY <2>1, <2>2 DEF RowOK
  <2>4. /\ txn'[r].status = "completed" /\ txn'[r].user = u /\ txn'[r].credits = c
        /\ \A x \in Ref : x # r => txn'[x] = txn[x]
        /\ wallet'[u] = wallet[u] + c /\ \A v \in User : v # u => wallet'[v] = wallet[v]
    BY <1>4, <2>2 DEF TypeOK
  <2>5. ASSUME NEW v \in User, v # u
        PROVE  IsFiniteSet(Settled(v)') /\ Balanced(v)'
    <3>1. IsFiniteSet(Settled(v)) /\ Balanced(v)
      BY DEF Ledger
    <3>2. \A x \in Ref : /\ x \in Settled(v) <=> x \in Settled(v)'
                         /\ x \in Settled(v) => txn'[x].credits = txn[x].credits
      BY <2>3, <2>4, <2>5 DEF Settled
    <3>3. Settled(v)' = Settled(v) /\ Bought(v)' = Bought(v)
      BY <3>1, <3>2, BoughtSame
    <3> QED
      BY <2>1, <2>4, <2>5, <3>1, <3>3 DEF Balanced
  <2>6. IsFiniteSet(Settled(u)') /\ Balanced(u)'
    <3>1. IsFiniteSet(Settled(u)) /\ wallet[u] = Opening - spent[u] + Bought(u)
      BY <2>2 DEF Ledger, Balanced
    <3>2. r \notin Settled(u) /\ Settled(u) \subseteq Ref /\ Settled(u)' = Settled(u) \cup {r}
      BY <2>3, <2>4 DEF Settled
    <3>3. IsFiniteSet(Settled(u)')
      BY <3>1, <3>2, FS_AddElement
    <3>4. \A x \in Settled(u) : Credits'[x] = Credits[x]
      BY <2>4, <3>2 DEF Credits
    <3>5. /\ \A x \in Settled(u) \cup {r} : Credits'[x] \in Int
          /\ Credits'[r] = c
      <4>1. \A x \in Ref : Credits'[x] \in Int /\ Credits'[x] = txn'[x].credits
        BY AmountType DEF TypeOK, Row, Credits
      <4> QED
        BY <2>4, <3>2, <4>1
    <3>6. SumFunctionOnSet(Credits', Settled(u) \cup {r}) = c + SumFunctionOnSet(Credits', Settled(u))
      BY <3>1, <3>2, <3>5, SumAdds
    <3>7. SumFunctionOnSet(Credits', Settled(u)) = SumFunctionOnSet(Credits, Settled(u))
      BY <3>1, <3>4, SumSame
    <3>8. Bought(u)' = c + Bought(u)
      BY <3>2, <3>6, <3>7 DEF Bought
    <3>9. Bought(u) \in Int
      BY <3>1, <3>2, CreditsInt, SumInt DEF Bought
    <3>10. spent[u] \in Int /\ spent' = spent /\ Opening \in Int
      BY <2>1, BoundAssumption DEF TypeOK
    <3> QED
      BY <2>2, <2>4, <3>1, <3>3, <3>8, <3>9, <3>10 DEF Balanced
  <2> QED
    BY <2>5, <2>6 DEF Ledger
<1> QED
  BY <1>1, <1>2, <1>3, <1>4 DEF Commit

\* A debit of another component moves the wallet and the history alike.
LEMMA SpendLedger ==
    ASSUME TypeOK, TypeOK', Safe, Ledger, NEW u \in User, NEW a \in Amount, Spend(u, a)
    PROVE  Ledger'
<1>1. /\ UNCHANGED <<txn, member>> /\ u \in member /\ wallet[u] # NoWallet /\ a \in Int
      /\ wallet' = Debit(wallet, u, a) /\ spent' = [spent EXCEPT ![u] = @ + a] /\ a > 0
  BY AmountType DEF Spend, Safe
<1>2. /\ wallet[u] \in Int /\ wallet'[u] = wallet[u] - a /\ spent'[u] = spent[u] + a
      /\ \A v \in User : v # u => wallet'[v] = wallet[v] /\ spent'[v] = spent[v]
  BY <1>1, NoWalletAssumption DEF Debit, TypeOK, Balance
<1> SUFFICES ASSUME NEW v \in User
             PROVE  IsFiniteSet(Settled(v)') /\ Balanced(v)'
  BY DEF Ledger
<1>3. IsFiniteSet(Settled(v)) /\ Balanced(v)
  BY DEF Ledger
<1>4. Settled(v)' = Settled(v) /\ Bought(v)' = Bought(v)
  <2>1. \A r \in Ref : /\ r \in Settled(v) <=> r \in Settled(v)'
                       /\ r \in Settled(v) => txn'[r].credits = txn[r].credits
    BY <1>1 DEF Settled
  <2> QED
    BY <1>3, <2>1, BoughtSame
<1>5. Bought(v) \in Int
  <2>1. Settled(v) \subseteq Ref
    BY DEF Settled
  <2> QED
    BY <1>3, <2>1, CreditsInt, SumInt DEF Bought
<1>6. spent[v] \in Int /\ Opening \in Int
  BY BoundAssumption DEF TypeOK
<1> QED
  BY <1>1, <1>2, <1>3, <1>4, <1>5, <1>6 DEF Balanced

\* An account takes its own rows with it and nobody else's.
LEMMA DeleteLedger ==
    ASSUME TypeOK, TypeOK', Ledger, NEW u \in User, DeleteAccount(u)
    PROVE  Ledger'
<1>1. /\ UNCHANGED spent /\ member' = member \ {u}
      /\ \A v \in User : v # u => wallet'[v] = wallet[v]
      /\ \A r \in Ref : txn'[r] = IF txn[r].user = u THEN NoRow ELSE txn[r]
  BY DEF DeleteAccount, TypeOK
<1>2. ASSUME NEW v \in User, v # u
      PROVE  IsFiniteSet(Settled(v)') /\ Balanced(v)'
  <2>1. IsFiniteSet(Settled(v)) /\ Balanced(v)
    BY DEF Ledger
  <2>2. \A r \in Ref : /\ r \in Settled(v) <=> r \in Settled(v)'
                       /\ r \in Settled(v) => txn'[r].credits = txn[r].credits
    BY <1>1, <1>2 DEF Settled, NoRow
  <2>3. Settled(v)' = Settled(v) /\ Bought(v)' = Bought(v)
    BY <2>1, <2>2, BoughtSame
  <2> QED
    BY <1>1, <1>2, <2>1, <2>3 DEF Balanced
<1>3. IsFiniteSet(Settled(u)') /\ Balanced(u)'
  <2>1. Settled(u)' = {}
    BY SMTT(40), <1>1 DEF Settled, NoRow
  <2> QED
    BY <1>1, <2>1, FS_EmptySet DEF Balanced
<1> QED
  BY <1>2, <1>3 DEF Ledger

LEMMA NextLedger == TypeOK /\ TypeOK' /\ Safe /\ Ledger /\ [Next]_vars => Ledger'
<1> SUFFICES ASSUME TypeOK, TypeOK', Safe, Ledger, [Next]_vars
             PROVE  Ledger'
  OBVIOUS
<1>1. CASE UNCHANGED <<member, wallet, spent, txn>>
  BY <1>1, LedgerKept
<1>2. ASSUME NEW p \in Request, RecordPurchase(p)
      PROVE  Ledger'
  <2>1. req[p].ref \in Ref
    BY <1>2 DEF RecordPurchase, TypeOK, LocalsSet
  <2>2. \A r \in Ref : txn'[r] = txn[r] \/ (txn[r].status # "completed" /\ txn'[r].status # "completed")
    BY <1>2, <2>1 DEF RecordPurchase, UniqueRefHolds, Visible, TypeOK
  <2> QED
    BY <1>2, <2>2, LedgerKept DEF RecordPurchase
<1> QED
  BY ZenonT(60), <1>1, <1>2, CommitLedger, SpendLedger, DeleteLedger
     DEF Next, Start, Step, Outside, GetActivePackage, DeliverCompleted, VerifyPayment,
         CreateCheckoutSession, CreateRazorpayOrder, OpenAtGateway, GatewayRefuses,
         LockTransaction, MissTransaction, InsertTransaction, VerifyMissing, VerifyLock,
         CreditWallet, Crash, CompleteCheckout, ForeignCheckout, PayOrder,
         UpdatePackage, DeletePackage, vars

LEMMA InitLedger == Init => Ledger
<1> SUFFICES ASSUME Init, NEW u \in User
             PROVE  IsFiniteSet(Settled(u)) /\ Balanced(u)
  BY DEF Ledger
<1>1. Settled(u) = {}
  BY DEF Init, Settled, NoRow
<1>2. Bought(u) = 0
  BY <1>1, SumOfNone DEF Bought
<1> QED
  BY <1>1, <1>2, FS_EmptySet, BoundAssumption DEF Init, Balanced

\* No credit is lost or invented: whatever purchases, debits, duplicates,
\* crashes and deletions interleave, a wallet holds its opening balance, less
\* what was spent, plus the completed purchases of its account.
THEOREM WalletsAddUp == Spec => []WalletIsLedger
<1>1. Init => TypeOK /\ Safe /\ Ledger
  BY InitType, InitSafe, InitLedger
<1>2. (TypeOK /\ Safe /\ Ledger) /\ [Next]_vars => (TypeOK /\ Safe /\ Ledger)'
  BY StepType, NextSafe, NextLedger
<1>3. TypeOK /\ Ledger => WalletIsLedger
  BY DEF TypeOK, Ledger, Balanced, Bought, Credits, Settled, WalletIsLedger
<1> QED
  BY <1>1, <1>2, <1>3, PTL DEF Spec

-----------------------------------------------------------------------------
(* Refinement.                                                             *)

LEMMA InitRefines == Init => Abstract!Init
BY BoundAssumption DEF Init, Abstract!Init, NoSale, OfferOf, PaidRefs

\* A step none of Settlement's variables sees.
LEMMA Unseen ==
    ASSUME TypeOK, UNCHANGED <<member, wallet, granted>>,
           \A r \in Ref : OfferOf(r)' = OfferOf(r) /\ (gw'[r].state = "paid" <=> gw[r].state = "paid")
    PROVE  UNCHANGED Abstract!vars
BY SMTT(40) DEF Abstract!vars, PaidRefs

LEMMA StepRefines == TypeOK /\ Safe /\ [Next]_vars => [Abstract!Next]_(Abstract!vars)
<1> SUFFICES ASSUME TypeOK, Safe, [Next]_vars
             PROVE  Abstract!Next \/ UNCHANGED Abstract!vars
  OBVIOUS
<1>1. ASSUME UNCHANGED <<member, wallet, granted, gw>>
      PROVE  UNCHANGED Abstract!vars
  BY <1>1, Unseen DEF OfferOf
<1>2. ASSUME NEW p \in Request, NEW x \in Ref, OpenAtGateway(p, x)
      PROVE  Abstract!Next
  <2>1. req[p].user \in User /\ req[p].credits \in Amount /\ req[p].user # Nil
    BY <1>2, NilAssumption DEF OpenAtGateway, TypeOK, LocalsSet
  <2>2. /\ gw[x] = NoSale
        /\ gw' = [gw EXCEPT ![x] = [state |-> "open", user |-> req[p].user,
                                    credits |-> req[p].credits]]
    BY <1>2 DEF OpenAtGateway
  <2>3. /\ OfferOf(x) = {}
        /\ OfferOf(x)' = {[buyer |-> req[p].user, credits |-> req[p].credits]}
        /\ \A r \in Ref : r # x => OfferOf(r)' = OfferOf(r)
    BY <2>1, <2>2 DEF OfferOf, NoSale, TypeOK
  <2>4. PaidRefs' = PaidRefs
    BY <2>2 DEF PaidRefs, NoSale, TypeOK
  <2>5. Abstract!Offer(x, req[p].user, req[p].credits)
    BY <1>2, <2>3, <2>4 DEF Abstract!Offer, OpenAtGateway
  <2> QED
    BY <2>1, <2>5 DEF Abstract!Next
<1>3. ASSUME NEW r \in Ref, gw' = [gw EXCEPT ![r].state = "paid"],
             UNCHANGED <<member, wallet, granted>>
      PROVE  Abstract!Next
  <2>1. \A x \in Ref : OfferOf(x)' = OfferOf(x)
    BY <1>3 DEF OfferOf, TypeOK, Sale
  <2>2. PaidRefs' = PaidRefs \cup {r}
    BY <1>3 DEF PaidRefs, TypeOK, Sale
  <2>3. Abstract!Pay(r)
    BY <1>3, <2>1, <2>2 DEF Abstract!Pay
  <2> QED
    BY <2>3 DEF Abstract!Next
<1>4. ASSUME NEW p \in Request, Commit(p)
      PROVE  Abstract!Next \/ UNCHANGED Abstract!vars
  <2>1. PICK r \in Ref, u \in User : r = req[p].ref /\ u = req[p].user
    BY <1>4 DEF Commit, TypeOK, LocalsSet
  <2>2. CASE UNCHANGED <<txn, wallet, granted, acked>>
    BY <1>1, <1>4, <2>2 DEF Commit
  <2>3. CASE /\ wallet' = [wallet EXCEPT ![u] = req[p].bal]
             /\ granted' = [granted EXCEPT ![r] = @ + 1]
    <3>1. /\ gw[r].user = u /\ gw[r].credits = req[p].credits /\ gw[r].state = "paid"
          /\ granted[r] = 0 /\ u \in member /\ req[p].bal = wallet[u] + req[p].credits
          /\ req[p].credits \in Amount /\ UNCHANGED <<gw, member>>
      BY <1>4, <2>1 DEF Commit, Safe, HandlerOK, Holds, TypeOK, LocalsSet
    <3>2. wallet[u] # NoWallet /\ u # Nil
      BY <3>1, NilAssumption DEF Safe
    <3>3. wallet' = Credit(wallet, u, req[p].credits)
      BY <2>3, <3>1, <3>2, AmountType DEF Credit, GetBalance
    <3>4. {x \in Ref : granted'[x] > 0} = {x \in Ref : granted[x] > 0} \cup {r}
      BY <2>3, <3>1 DEF TypeOK
    <3>5. OfferOf(r) = {[buyer |-> u, credits |-> req[p].credits]}
          /\ \A x \in Ref : OfferOf(x)' = OfferOf(x)
      BY <3>1, <3>2 DEF OfferOf
    <3>6. r \in PaidRefs \ {x \in Ref : granted[x] > 0} /\ PaidRefs' = PaidRefs
      BY <3>1 DEF PaidRefs
    <3>7. Abstract!Settle(r)
      <4> DEFINE o == [buyer |-> u, credits |-> req[p].credits]
      <4>1. wallet' = Abstract!Credit(wallet, o.buyer, o.credits)
        BY <3>3 DEF Abstract!Credit, Abstract!GetBalance, Credit, GetBalance
      <4>2. o \in OfferOf(r) /\ o.buyer \in member
        BY <3>1, <3>5
      <4> HIDE DEF o
      <4> QED
        BY <3>1, <3>4, <3>5, <3>6, <4>1, <4>2 DEF Abstract!Settle
    <3> QED
      BY <3>7 DEF Abstract!Next
  <2> QED
    BY <1>4, <2>1, <2>2, <2>3 DEF Commit
<1>5. ASSUME NEW u \in User, NEW a \in Amount, Spend(u, a)
      PROVE  Abstract!Next
  <2>1. Abstract!Spend(u, a)
    BY <1>5 DEF Spend, Abstract!Spend, CanDebit, Debit, Abstract!CanDebit, Abstract!Debit,
       OfferOf, PaidRefs
  <2> QED
    BY <2>1 DEF Abstract!Next
<1>6. ASSUME NEW u \in User, DeleteAccount(u)
      PROVE  Abstract!Next
  <2>1. Abstract!Leave(u)
    BY <1>6 DEF DeleteAccount, Abstract!Leave, OfferOf, PaidRefs
  <2> QED
    BY <2>1 DEF Abstract!Next
<1>7. ASSUME NEW s \in Session, ForeignCheckout(s) \/ CompleteCheckout(s, "unpaid")
      PROVE  UNCHANGED Abstract!vars
  <2>1. \A x \in Ref : OfferOf(x)' = OfferOf(x) /\ (gw'[x].state = "paid" <=> gw[x].state = "paid")
    <3>1. /\ s \in Ref /\ gw[s].state # "paid" /\ gw'[s].state # "paid"
          /\ gw'[s].user = gw[s].user /\ gw'[s].credits = gw[s].credits
          /\ \A x \in Ref : x # s => gw'[x] = gw[x]
      <4>1. CASE ForeignCheckout(s)
        BY <4>1 DEF ForeignCheckout, NoSale, TypeOK, Sale, Ref
      <4>2. CASE CompleteCheckout(s, "unpaid")
        BY <4>2 DEF CompleteCheckout, TypeOK, Sale, Ref
      <4> QED
        BY <1>7, <4>1, <4>2
    <3> QED
      BY <3>1 DEF OfferOf
  <2> QED
    BY <1>7, <2>1, Unseen DEF ForeignCheckout, CompleteCheckout
<1>8. CASE UNCHANGED vars
  BY <1>1, <1>8 DEF vars
<1> QED
  BY ZenonT(60), <1>1, <1>2, <1>3, <1>4, <1>5, <1>6, <1>7, <1>8
     DEF Next, Start, Step, Outside, GetActivePackage, DeliverCompleted, VerifyPayment,
         CreateCheckoutSession, CreateRazorpayOrder, GatewayRefuses, RecordPurchase,
         LockTransaction, MissTransaction, InsertTransaction, VerifyMissing, VerifyLock,
         CreditWallet, Crash, CompleteCheckout, PayOrder, UpdatePackage, DeletePackage, Ref

\* Both gateways together implement Settlement.
THEOREM Implements == Spec => ImplementsSettlement
<1>1. Init => Abstract!Init
  BY InitRefines
<1>2. TypeOK /\ Safe /\ [Next]_vars => [Abstract!Next]_(Abstract!vars)
  BY StepRefines
<1> QED
  BY <1>1, <1>2, InductiveInvariant, PTL DEF Spec, ImplementsSettlement, Abstract!Spec
=============================================================================
