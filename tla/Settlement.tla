----------------------------- MODULE Settlement -----------------------------
(***************************************************************************)
(* What selling credits promises, whatever the gateway and however often   *)
(* its callbacks arrive: a purchase offered to a buyer at a price in       *)
(* credits is paid at the gateway, and a paid purchase adds exactly its    *)
(* credits to exactly its buyer's wallet, at most once, in one step.       *)
(***************************************************************************)
EXTENDS Billing

CONSTANTS
    User,       \* accounts
    Purchase,   \* purchases, whichever gateway takes the money
    Amount      \* numbers of credits a purchase or a charge can be for

VARIABLES
    member,     \* accounts that exist
    offer,      \* Purchase -> the (buyer, credits) pairs it was offered for
    paid,       \* purchases the gateway has taken the money for
    settled,    \* purchases whose credits were granted
    wallet      \* the wallets table

vars == <<member, offer, paid, settled, wallet>>

Init ==
    /\ member = User
    /\ offer = [r \in Purchase |-> {}]
    /\ paid = {}
    /\ settled = {}
    /\ wallet \in [User -> Int]

\* A purchase is offered, once, to an account for some credits.
Offer(r, u, c) ==
    /\ offer[r] = {}
    /\ offer' = [offer EXCEPT ![r] = {[buyer |-> u, credits |-> c]}]
    /\ UNCHANGED <<member, paid, settled, wallet>>

\* The gateway takes the money; it may do so again for another payment of r.
Pay(r) ==
    /\ paid' = paid \cup {r}
    /\ UNCHANGED <<member, offer, settled, wallet>>

\* The one step that grants credits.
Settle(r) ==
    /\ r \in paid \ settled
    /\ \E o \in offer[r] :
          /\ o.buyer \in member
          /\ wallet' = Credit(wallet, o.buyer, o.credits)
    /\ settled' = settled \cup {r}
    /\ UNCHANGED <<member, offer, paid>>

\* Credits are used elsewhere in the system.
Spend(u, a) ==
    /\ u \in member
    /\ CanDebit(wallet, u, a, FALSE)
    /\ wallet' = Debit(wallet, u, a)
    /\ UNCHANGED <<member, offer, paid, settled>>

\* An account is deleted with its wallet.
Leave(u) ==
    /\ u \in member
    /\ member' = member \ {u}
    /\ wallet' = [wallet EXCEPT ![u] = NoWallet]
    /\ UNCHANGED <<offer, paid, settled>>

Next ==
    \/ \E r \in Purchase : Pay(r) \/ Settle(r)
    \/ \E r \in Purchase, u \in User, c \in Amount : Offer(r, u, c)
    \/ \E u \in User : Leave(u) \/ \E a \in Amount : Spend(u, a)

Spec == Init /\ [][Next]_vars
=============================================================================
