------------------------------ MODULE Accounts ------------------------------
(***************************************************************************)
(* Signing up and in, and passwords: app/api/v1/endpoints/auth.py, the     *)
(* password and account endpoints of users.py, and app/core/security.py.   *)
(*                                                                         *)
(* A handler is one HTTP request, walking through its awaits; call[h].pc   *)
(* names the next.  Database operations of auth.py run under               *)
(* execute_with_retry: a lost connection, before or after the commit it    *)
(* interrupts, starts the operation again.  Access tokens name an email    *)
(* address; reset links are keys of Redis that hold a user id.             *)
(*                                                                         *)
(* last_login_at, names and preferences are left out; roles and balances   *)
(* edited by an administrator are in Administration.  A definition named   *)
(* Slip... is the one after it with a plausible mistake; no action uses it.*)
(***************************************************************************)
EXTENDS Billing, FiniteSets

CONSTANTS
    Handler,       \* requests in flight at once
    Email,         \* addresses
    Id,            \* user ids, never used twice
    Password,      \* passwords, as hashes distinguish them
    Link,          \* password reset tokens, never issued twice
    Bonus,         \* SIGNUP_BONUS_CREDITS
    MaxAttempts,   \* max_retries of execute_with_retry
    MaxRequests,   \* bound: requests ever made
    Operation,     \* the endpoints clients call
    Nil            \* None

Assumptions ==
    /\ MaxAttempts \in Nat \ {0} /\ MaxRequests \in Nat /\ Bonus \in Nat \ {0}
    /\ Nil \notin Id /\ NoWallet # Bonus
    /\ Operation \subseteq {"signup", "google", "login", "forgot", "reset", "change", "delete"}

VARIABLES
    users,      \* Id -> row of users
    wallet,     \* Id -> row of wallets
    links,      \* Link -> the user id its key holds in Redis, or Nil
    mailed,     \* links issued so far
    access,     \* addresses for which somebody holds an unexpired access token
    call,       \* Handler -> the request it serves
    answer,     \* history: Handler -> how its last request was answered
    changed,    \* history: Handler -> accounts its last request created or changed
    admitted,   \* history: Link -> how many requests it let in
    shut,       \* history: Handler -> accounts inactive ever since its request began
    requests    \* number of requests made

vars == <<users, wallet, links, mailed, access, call, answer, changed, admitted, shut, requests>>
database == <<users, wallet>>
redis == <<links, mailed>>

NoUser == [state |-> "absent", email |-> Nil, password |-> Nil]
NoCall == [op |-> "none", pc |-> "idle", email |-> Nil, password |-> Nil, current |-> Nil,
           link |-> Nil, id |-> Nil, try |-> 1]
NoAnswer == [op |-> "none", what |-> "none", link |-> Nil]

Present(i) == users[i].state \in {"active", "inactive"}
Busy(h) == call[h].pc # "idle"
At(h, pc) == call[h].pc = pc

Call == [op : Operation \cup {"none"}, email : Email \cup {Nil},
         pc : {"idle", "lookup", "insert", "issue", "consume", "load", "write", "erase"},
         password : Password \cup {Nil}, current : Password \cup {Nil},
         link : Link \cup {Nil}, id : Id \cup {Nil}, try : 1..MaxAttempts]

\* What the next statement of a request uses is there.
Ready(h) ==
    LET c == call[h] IN
    /\ (c.pc # "idle" /\ ~(c.op = "reset" /\ c.pc \in {"consume", "load"})) => c.email \in Email
    /\ (c.pc \in {"issue", "write", "erase"} \/ (c.pc = "load" /\ c.op = "reset")) => c.id \in Id
    /\ c.pc = "consume" => c.link \in Link

TypeOK ==
    /\ users \in [Id -> [state : {"absent", "active", "inactive", "deleted"},
                         email : Email \cup {Nil}, password : Password \cup {Nil}]]
    /\ \A i \in Id : Present(i) => users[i].email \in Email
    /\ wallet \in [Id -> {Bonus, NoWallet}]
    /\ links \in [Link -> Id \cup {Nil}]
    /\ access \subseteq Email /\ mailed \subseteq Link
    /\ call \in [Handler -> Call] /\ \A h \in Handler : Ready(h)
    /\ changed \in [Handler -> SUBSET Id] /\ shut \in [Handler -> SUBSET Id]
    /\ admitted \in [Link -> Nat] /\ requests \in 0..MaxRequests

Init ==
    /\ users = [i \in Id |-> NoUser] /\ wallet = [i \in Id |-> NoWallet]
    /\ links = [l \in Link |-> Nil] /\ admitted = [l \in Link |-> 0]
    /\ access = {} /\ mailed = {} /\ requests = 0
    /\ call = [h \in Handler |-> NoCall] /\ answer = [h \in Handler |-> NoAnswer]
    /\ changed = [h \in Handler |-> {}] /\ shut = [h \in Handler |-> {}]

-----------------------------------------------------------------------------
(* A request begins and ends.                                              *)

\* The requests of a client; e, p, c and l are what its body and token hold.
Arguments(op, e, p, c, l) ==
    CASE op \in {"signup", "login"} -> e # Nil /\ c = Nil /\ l = Nil /\ p # Nil
      [] op \in {"google", "forgot"} -> e # Nil /\ p = Nil /\ c = Nil /\ l = Nil
      [] op = "reset" -> e = Nil /\ p # Nil /\ c = Nil /\ l \in mailed
      [] op = "change" -> p # Nil /\ l = Nil /\ e \in access
      [] op = "delete" -> p = Nil /\ l = Nil /\ e \in access

FirstStep(op) ==
    CASE op \in {"signup", "google", "login", "forgot"} -> "lookup"
      [] op = "reset" -> "consume"
      [] OTHER -> "load"

Begin(h, op, e, p, c, l) ==
    /\ requests < MaxRequests
    /\ Arguments(op, e, p, c, l)
    /\ requests' = requests + 1
    /\ call' = [call EXCEPT ![h] = [op |-> op, pc |-> FirstStep(op), email |-> e, password |-> p,
                                       current |-> c, link |-> l, id |-> Nil, try |-> 1]]
    /\ changed' = [changed EXCEPT ![h] = {}]
    /\ shut' = [shut EXCEPT ![h] = {i \in Id : users[i].state = "inactive"}]
    /\ UNCHANGED <<database, redis, access, answer, admitted>>

\* _token_response goes to those who sign up or in.
Finish(h, what) ==
    /\ call' = [call EXCEPT ![h] = NoCall]
    /\ answer' = [answer EXCEPT ![h] = [op |-> call[h].op, what |-> what, link |-> call[h].link]]
    /\ access' = IF what = "ok" /\ call[h].op \in {"signup", "google", "login", "reset"}
                 THEN access \cup {call[h].email} ELSE access

SlipExhausted(h) == call[h].try > MaxAttempts

Exhausted(h) == call[h].try >= MaxAttempts

\* execute_with_retry: from the operation's first step, or "try again shortly".
Retry(h, pc) ==
    \/ /\ ~Exhausted(h)
       /\ call' = [call EXCEPT ![h].pc = pc, ![h].try = @ + 1]
       /\ UNCHANGED <<answer, access>>
    \/ Exhausted(h) /\ Finish(h, "unavailable")

\* The next database operation has attempts of its own.
Go(h, pc, i) == call' = [call EXCEPT ![h].pc = pc, ![h].id = i, ![h].try = 1]

-----------------------------------------------------------------------------
(* auth.py                                                                 *)

Owners(e) == {i \in Id : Present(i) /\ users[i].email = e}

SlipUsable(i) == Present(i)

\* Deactivated accounts are refused wherever an account is loaded.
Usable(i) == users[i].state = "active"

\* get_user_by_email, and what each endpoint makes of it.
Lookup(h) ==
    LET c == call[h]
        found == Owners(c.email) IN
    /\ At(h, "lookup")
    /\ \/ /\ found = {} /\ c.op \in {"signup", "google"}
          /\ Go(h, "insert", Nil) /\ UNCHANGED <<answer, access>>
       \/ c.op = "signup" /\ found # {} /\ Finish(h, "duplicate")
       \/ \E i \in found : c.op = "google" /\ Finish(h, IF Usable(i) THEN "ok" ELSE "refused")
       \/ /\ c.op = "login"
          /\ Finish(h, IF \E i \in found : Usable(i) /\ users[i].password = c.password
                       THEN "ok" ELSE "refused")
       \/ /\ c.op = "forgot"
          /\ \/ \E i \in found : Usable(i) /\ Go(h, "issue", i) /\ UNCHANGED <<answer, access>>
             \/ (\A i \in found : ~Usable(i)) /\ Finish(h, "ok")
    /\ UNCHANGED <<database, redis, changed, admitted, shut, requests>>

SlipTaken(e) == FALSE

\* The unique index on users.email.
Taken(e) == Owners(e) # {}

\* The wallet is inserted with its user.
WalletOf(i) == [wallet EXCEPT ![i] = Bonus]

\* create_user_with_wallet; the last disjunct is an answer lost on its way.
Insert(h) ==
    /\ At(h, "insert")
    /\ \/ Taken(call[h].email) /\ Finish(h, "duplicate") /\ UNCHANGED <<database, changed>>
       \/ /\ ~Taken(call[h].email)
          /\ \E i \in Id :
                /\ users[i].state = "absent"
                /\ users' = [users EXCEPT ![i] =
                       [state |-> "active", email |-> call[h].email, password |-> call[h].password]]
                /\ wallet' = WalletOf(i)
                /\ changed' = [changed EXCEPT ![h] = @ \cup {i}]
          /\ Finish(h, "ok") \/ Retry(h, "insert")
    /\ UNCHANGED <<redis, admitted, shut, requests>>

\* issue_password_reset_token; the link is mailed.
Issue(h) ==
    /\ At(h, "issue")
    /\ \E l \in Link :
          /\ l \notin mailed
          /\ mailed' = mailed \cup {l}
          /\ links' = [links EXCEPT ![l] = call[h].id]
    /\ Finish(h, "ok")
    /\ UNCHANGED <<database, changed, admitted, shut, requests>>

SlipConsume(l) == links

\* GET and DEL in one MULTI.
Consume(l) == [links EXCEPT ![l] = Nil]

\* consume_password_reset_token, the first step of reset_password.
Admit(h) ==
    LET l == call[h].link IN
    /\ At(h, "consume")
    /\ IF links[l] = Nil
       THEN Finish(h, "invalid") /\ UNCHANGED admitted
       ELSE /\ admitted' = [admitted EXCEPT ![l] = @ + 1]
            /\ Go(h, "load", links[l]) /\ UNCHANGED <<answer, access>>
    /\ links' = Consume(l)
    /\ UNCHANGED <<database, mailed, changed, shut, requests>>

\* The SELECT of the reset's operation.
LoadReset(h) ==
    LET i == call[h].id IN
    /\ At(h, "load") /\ call[h].op = "reset"
    /\ IF Usable(i)
       THEN /\ call' = [call EXCEPT ![h].pc = "write", ![h].email = users[i].email]
            /\ UNCHANGED <<answer, access>>
       ELSE Finish(h, "refused")
    /\ UNCHANGED <<database, redis, changed, admitted, shut, requests>>

-----------------------------------------------------------------------------
(* users.py, and writing a password.                                       *)

\* get_current_user loads the row the token's address names now; a password,
\* where one is set, must be the current one.
Authenticate(h) ==
    LET found == {i \in Owners(call[h].email) : Usable(i)} IN
    /\ At(h, "load") /\ call[h].op \in {"change", "delete"}
    /\ \/ \E i \in found :
             /\ users[i].password \in {Nil, call[h].current}
             /\ Go(h, IF call[h].op = "change" THEN "write" ELSE "erase", i)
             /\ UNCHANGED <<answer, access>>
       \/ (\A i \in found : users[i].password \notin {Nil, call[h].current}) /\ Finish(h, "refused")
    /\ UNCHANGED <<database, redis, changed, admitted, shut, requests>>

\* The UPDATE of the password finds its row by id.  A row that is gone is an
\* error of the session; only reset_password runs under execute_with_retry.
WritePassword(h) ==
    LET i == call[h].id IN
    /\ At(h, "write")
    /\ \/ /\ Present(i)
          /\ users' = [users EXCEPT ![i].password = call[h].password]
          /\ changed' = [changed EXCEPT ![h] = @ \cup {i}]
          /\ \/ Finish(h, "ok")
             \/ call[h].op = "reset" /\ Retry(h, "load")
             \/ call[h].op = "change" /\ Finish(h, "failed")
       \/ ~Present(i) /\ Finish(h, "failed") /\ UNCHANGED <<users, changed>>
    /\ UNCHANGED <<wallet, redis, admitted, shut, requests>>

\* delete_account: the user and, by cascade, the wallet.
Erase(h) ==
    LET i == call[h].id IN
    /\ At(h, "erase")
    /\ \/ /\ Present(i)
          /\ users' = [users EXCEPT ![i] = [NoUser EXCEPT !.state = "deleted"]]
          /\ wallet' = [wallet EXCEPT ![i] = NoWallet]
          /\ changed' = [changed EXCEPT ![h] = @ \cup {i}]
          /\ Finish(h, "ok") \/ Finish(h, "failed")
       \/ ~Present(i) /\ Finish(h, "failed") /\ UNCHANGED <<database, changed>>
    /\ UNCHANGED <<redis, admitted, shut, requests>>

\* The connection is lost before anything was committed.  Without a retry, and
\* where Redis fails, the request ends with a server error.
Unreachable(h) ==
    /\ Busy(h)
    /\ \/ \E pc \in {"lookup", "insert"} : At(h, pc) /\ Retry(h, pc)
       \/ call[h].op = "reset" /\ call[h].pc \in {"load", "write"} /\ Retry(h, "load")
       \/ /\ call[h].op # "reset" \/ At(h, "consume")
          /\ call[h].pc \notin {"lookup", "insert"} /\ Finish(h, "failed")
    /\ UNCHANGED <<database, redis, changed, admitted, shut, requests>>

-----------------------------------------------------------------------------
(* Time, and an administrator.                                             *)

LinkExpires(l) ==
    /\ links[l] # Nil
    /\ links' = [links EXCEPT ![l] = Nil]
    /\ UNCHANGED <<database, mailed, access, call, answer, changed, admitted, shut, requests>>

TokensExpire(e) ==
    /\ e \in access
    /\ access' = access \ {e}
    /\ UNCHANGED <<database, redis, call, answer, changed, admitted, shut, requests>>

\* update_user_admin with is_active (Administration).
SetActive(i, active) ==
    /\ Present(i)
    /\ users' = [users EXCEPT ![i].state = IF active THEN "active" ELSE "inactive"]
    /\ shut' = IF active THEN [h \in Handler |-> shut[h] \ {i}] ELSE shut
    /\ UNCHANGED <<wallet, redis, access, call, answer, changed, admitted, requests>>

Step(h) ==
    \/ Lookup(h) \/ Insert(h) \/ Issue(h) \/ Admit(h) \/ LoadReset(h) \/ Authenticate(h)
    \/ WritePassword(h) \/ Erase(h) \/ Unreachable(h)

Next ==
    \/ \E h \in Handler :
          \/ Step(h)
          \/ ~Busy(h) /\ \E op \in Operation, e \in Email \cup {Nil}, p, c \in Password \cup {Nil},
                l \in Link \cup {Nil} : Begin(h, op, e, p, c, l)
    \/ \E l \in Link : LinkExpires(l)
    \/ \E e \in Email : TokensExpire(e)
    \/ \E i \in Id, active \in BOOLEAN : SetActive(i, active)

Spec == Init /\ [][Next]_vars

-----------------------------------------------------------------------------
(* Properties.                                                             *)

\* "A user can never exist without a wallet" and never a second time: however
\* often signups are repeated, raced or retried after a lost answer, an address
\* has one account and one bonus (create_user_with_wallet).
AccountIsWhole ==
    /\ \A i \in Id : Present(i) <=> wallet[i] # NoWallet
    /\ \A e \in Email : Cardinality(Owners(e)) <= 1

\* "Single-use": of all requests that present a reset link, at once or one
\* after the other, one is let in (consume_password_reset_token).
LinkAdmitsOnce == \A l \in Link : admitted[l] <= 1

\* A request that began after its account was deactivated never gets to write
\* it, whatever it holds: a token, a link, or the password (_load_active_user).
InactiveIsOut ==
    \A h \in Handler : At(h, "write") \/ At(h, "erase") => call[h].id \notin shut[h]

\* "A concurrent signup with the same email ... is reported as a duplicate"
\* (auth.py, create_user_with_wallet): a request so refused created nothing.
DuplicateIsAnothers ==
    \A h \in Handler : answer[h].what = "duplicate" /\ ~Busy(h) => changed[h] = {}

\* "Please try again shortly" (auth.py, execute_with_retry): the link of a
\* reset so answered has not been used up by it.
TryAgainCanWork ==
    \A h \in Handler : answer[h].what = "unavailable" /\ answer[h].op = "reset" =>
        admitted[answer[h].link] = 0

-----------------------------------------------------------------------------
(* Why it holds: an invariant that every step preserves.                   *)

\* A link lets nobody in before it is issued and once while its key is there.
LinkOK(l) ==
    /\ l \notin mailed => links[l] = Nil
    /\ (l \notin mailed \/ links[l] # Nil) => admitted[l] = 0
    /\ admitted[l] <= 1

\* Accounts that were inactive all the time are not active.
ShutOK(h) == \A i \in shut[h] : users[i].state \in {"inactive", "deleted"}

OneOwner ==
    \A i, j \in Id : Present(i) /\ Present(j) /\ users[i].email = users[j].email => i = j

AInv ==
    /\ TypeOK
    /\ \A l \in Link : LinkOK(l)
    /\ \A i \in Id : Present(i) <=> wallet[i] # NoWallet
    /\ OneOwner
    /\ \A h \in Handler : ShutOK(h)
    /\ InactiveIsOut
=============================================================================
