--------------------------- MODULE Administration ---------------------------
(***************************************************************************)
(* Users as administrators edit them, app/api/v1/endpoints/manage_user.py, *)
(* beside the owner's delete_account and dev_top_up_credits of users.py    *)
(* and the statements of billing.py.                                       *)
(*                                                                         *)
(* A desk is one request in flight.  Its first step authenticates the      *)
(* caller and reads the rows; its last writes what it decided and commits. *)
(* The row is written by id and holds only the changed columns; a row that *)
(* is gone by then is an error that undoes the whole.  A definition named  *)
(* Slip... is the one after it with a plausible mistake; no action uses it.*)
(***************************************************************************)
EXTENDS Billing, FiniteSets

CONSTANTS
    Desk,          \* requests in flight at once
    User,          \* accounts
    Admin,         \* the superusers at the start
    Opening,       \* every wallet at the start
    Amount,        \* credits an administrator sets, or billing moves
    MaxRequests,   \* bound: requests ever made
    MaxMoves,      \* bound: charges and top-ups
    Nil            \* no value

Assumptions ==
    /\ Admin \subseteq User /\ Admin # {} /\ Nil \notin User
    /\ Amount \subseteq Nat /\ Opening \in Nat /\ {MaxRequests, MaxMoves} \subseteq Nat

VARIABLES
    users,      \* User -> row of users: present, is_active, is_superuser
    wallet,     \* User -> row of wallets
    desk,       \* Desk -> the request it serves
    ledger,     \* history: what the wallet should hold, each change added up
    crossed,    \* history: a save has taken away what let in a request in flight
    count       \* requests and moves so far

vars == <<users, wallet, desk, ledger, crossed, count>>

NoDesk == [pc |-> "idle", caller |-> Nil, user |-> Nil, field |-> "none", value |-> Nil,
           seen |-> 0]

IsAdmin(u) == users[u].present /\ users[u].active /\ users[u].super

TypeOK ==
    /\ users \in [User -> [present : BOOLEAN, active : BOOLEAN, super : BOOLEAN]]
    /\ wallet \in [User -> Balance]
    /\ \A u \in User : users[u].present <=> wallet[u] # NoWallet
    /\ \A d \in Desk : desk[d].pc = "save" => {desk[d].caller, desk[d].user} \subseteq User
    /\ ledger \in [User -> Int] /\ crossed \in BOOLEAN
    /\ count \in [requests : 0..MaxRequests, moves : 0..MaxMoves]

Init ==
    /\ users = [u \in User |-> [present |-> TRUE, active |-> TRUE, super |-> u \in Admin]]
    /\ wallet = [u \in User |-> Opening] /\ ledger = wallet
    /\ desk = [d \in Desk |-> NoDesk] /\ crossed = FALSE
    /\ count = [requests |-> 0, moves |-> 0]

Values(field) ==
    CASE field \in {"active", "super"} -> BOOLEAN
      [] field = "credits" -> Amount
      [] OTHER -> {Nil}

SlipAllowed(caller, user, field, value) == TRUE

\* The guards of update_user_admin and delete_user_admin on the caller's own
\* row.  Its wallet was not loaded with it, so setting it is a server error.
Allowed(caller, user, field, value) ==
    caller = user => field \in {"active", "super"} /\ value = TRUE

\* get_current_admin
MayEdit(u) == IsAdmin(u)

\* The first step: the rows are read.
Read(d, caller, user, field, value) ==
    /\ desk[d].pc = "idle" /\ count.requests < MaxRequests
    /\ count' = [count EXCEPT !.requests = @ + 1]
    /\ users[user].present
    /\ desk' = [desk EXCEPT ![d] = [pc |-> "save", caller |-> caller, user |-> user,
                   field |-> field, value |-> value, seen |-> GetBalance(wallet, user)]]
    /\ UNCHANGED <<users, wallet, ledger, crossed>>

\* update_user_admin and delete_user_admin up to their writes.
Edit(d, caller, user, field, value) ==
    /\ MayEdit(caller)
    /\ value \in Values(field)
    /\ Allowed(caller, user, field, value)
    /\ Read(d, caller, user, field, value)

\* delete_account: administrators may not.
Leave(d, user) ==
    /\ users[user].active /\ ~users[user].super
    /\ Read(d, user, user, "delete", Nil)

\* What let request d in: its caller may do this, or it deletes no superuser.
LetIn(d) ==
    LET r == desk[d] IN
    \/ IsAdmin(r.caller) /\ Allowed(r.caller, r.user, r.field, r.value)
    \/ r.field = "delete" /\ ~users[r.user].super

\* The columns of users; deleting cascades to everything the account owns.
Rights(d) == [users EXCEPT ![desk[d].user] =
    CASE desk[d].field = "active" -> [@ EXCEPT !.active = desk[d].value]
      [] desk[d].field = "super" -> [@ EXCEPT !.super = desk[d].value]
      [] desk[d].field = "delete" -> [present |-> FALSE, active |-> FALSE, super |-> FALSE]
      [] OTHER -> @]

\* The commit; the balance is written if it differs from what was read.
Save(d) ==
    LET r == desk[d] IN
    /\ r.pc = "save" /\ users[r.user].present
    /\ users' = Rights(d)
    /\ CASE r.field = "credits" ->
              /\ wallet' = IF r.value # r.seen THEN [wallet EXCEPT ![r.user] = r.value] ELSE wallet
              /\ ledger' = [ledger EXCEPT ![r.user] = @ + r.value - r.seen]
         [] r.field = "delete" ->
              /\ wallet' = [wallet EXCEPT ![r.user] = NoWallet]
              /\ ledger' = [ledger EXCEPT ![r.user] = 0]
         [] OTHER -> UNCHANGED <<wallet, ledger>>
    /\ desk' = [desk EXCEPT ![d] = NoDesk]
    /\ crossed' = (crossed \/ \E x \in Desk \ {d} : desk[x].pc = "save" /\ ~LetIn(x)')
    /\ UNCHANGED count

\* The row is gone, the connection is lost, or the process dies.
Fail(d) ==
    /\ desk[d].pc = "save"
    /\ desk' = [desk EXCEPT ![d] = NoDesk]
    /\ UNCHANGED <<users, wallet, ledger, crossed, count>>

\* A chat reply is charged, or a top-up or refund credited: one statement each.
Move(u, amount, charge) ==
    /\ users[u].present /\ count.moves < MaxMoves
    /\ count' = [count EXCEPT !.moves = @ + 1]
    /\ wallet' = IF charge THEN Debit(wallet, u, amount) ELSE Credit(wallet, u, amount)
    /\ ledger' = [ledger EXCEPT ![u] = IF charge THEN @ - amount ELSE @ + amount]
    /\ UNCHANGED <<users, desk, crossed>>

Next ==
    \/ \E d \in Desk :
          \/ Save(d) \/ Fail(d)
          \/ \E u \in User : Leave(d, u)
          \/ \E c, u \in User, f \in {"active", "super", "credits", "delete"} :
                \E v \in Values(f) : Edit(d, c, u, f, v)
    \/ \E u \in User, a \in Amount, charge \in BOOLEAN : Move(u, a, charge)

Spec == Init /\ [][Next]_vars

-----------------------------------------------------------------------------
(* Properties.                                                             *)

\* The guards on the caller's own row keep an administrator in office: the last
\* one can be lost only if a request is saved that another has meanwhile taken
\* the rights from (update_user_admin).
LockoutNeedsARace == (\E u \in User : IsAdmin(u)) \/ crossed

\* "Guard against an admin locking themselves out of the admin surface"
\* (manage_user.py, update_user_admin): somebody can always administer.
AdminRemains == \E u \in User : IsAdmin(u)

\* "Every balance change is one conditional SQL statement" (README.md:73): a
\* wallet holds the sum of its changes, an administrator's being the change
\* from the balance that was read to the one that was typed.
BalanceIsLedger == \A u \in User : users[u].present => wallet[u] = ledger[u]
=============================================================================
