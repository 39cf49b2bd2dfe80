--------------------------- MODULE AccountsProofs ---------------------------
(***************************************************************************)
(* Accounts, for any number of requests in flight, addresses, accounts,    *)
(* passwords, reset links and attempts.                                    *)
(***************************************************************************)
EXTENDS Accounts, FiniteSetTheorems, TLAPS

Writing == {"write", "erase"}

\* The conjuncts of AInv, by the variables they are about.
Rows ==
    /\ users \in [Id -> [state : {"absent", "active", "inactive", "deleted"},
                         email : Email \cup {Nil}, password : Password \cup {Nil}]]
    /\ wallet \in [Id -> {Bonus, NoWallet}]
    /\ \A i \in Id : /\ Present(i) => users[i].email \in Email
                     /\ Present(i) <=> wallet[i] # NoWallet
    /\ OneOwner

Links ==
    /\ links \in [Link -> Id \cup {Nil}] /\ mailed \subseteq Link
    /\ admitted \in [Link -> Nat]
    /\ \A l \in Link : LinkOK(l)

Calls == call \in [Handler -> Call] /\ \A h \in Handler : Ready(h)

Shuts ==
    /\ shut \in [Handler -> SUBSET Id]
    /\ \A h \in Handler : ShutOK(h)
    /\ InactiveIsOut

Rest == access \subseteq Email /\ changed \in [Handler -> SUBSET Id] /\ requests \in 0..MaxRequests

LEMMA Parts ==
    /\ AInv <=> Rows /\ Links /\ Calls /\ Shuts /\ Rest
    /\ AInv' <=> Rows' /\ Links' /\ Calls' /\ Shuts' /\ Rest'
BY DEF AInv, TypeOK, Rows, Links, Calls, Shuts, Rest

-----------------------------------------------------------------------------
(* How a request moves.                                                    *)

\* Where a request may go next, and what the others do meanwhile: nothing.
Moves(h) ==
    /\ call' \in [Handler -> Call]
    /\ \A k \in Handler \ {h} : call'[k] = call[k]
    /\ call'[h].pc \in Writing => call'[h].id \notin shut[h]

LEMMA FinishMoves ==
    ASSUME Calls, NEW h \in Handler, NEW what, Finish(h, what),
           what = "ok" /\ call[h].op = "reset" => call[h].pc \notin {"consume", "load"},
           Busy(h), Assumptions, Rest
    PROVE  Moves(h) /\ Calls' /\ access' \subseteq Email
<1>1. NoCall \in Call /\ NoCall.pc = "idle" /\ NoCall.op = "none"
  BY DEF NoCall, Call, Assumptions
<1>2. call' = [call EXCEPT ![h] = NoCall]
  BY DEF Finish
<1>3. /\ call' \in [Handler -> Call] /\ call'[h] = NoCall
      /\ \A k \in Handler \ {h} : call'[k] = call[k]
  BY <1>1, <1>2 DEF Calls
<1>4. Moves(h)
  BY <1>1, <1>3 DEF Moves, Writing
<1>5. ASSUME NEW k \in Handler PROVE Ready(k)'
  <2>1. CASE k = h
    BY <1>1, <1>3, <2>1 DEF Ready
  <2>2. CASE k # h
    BY <1>3, <2>2 DEF Ready, Calls
  <2> QED
    BY <2>1, <2>2
<1>6. access' \subseteq Email
  BY DEF Finish, Calls, Ready, Busy, Rest
<1> QED
  BY <1>3, <1>4, <1>5, <1>6 DEF Calls

LEMMA GoMoves ==
    ASSUME Calls, NEW h \in Handler, NEW pc, NEW i \in Id \cup {Nil}, Go(h, pc, i), Assumptions,
           pc \in {"lookup", "insert", "issue", "consume", "load", "write", "erase"},
           call[h].email \in Email \/ (call[h].op = "reset" /\ pc = "load"),
           pc \in {"issue", "load", "write", "erase"} => i \in Id,
           pc # "consume",
           pc \in Writing => i \notin shut[h]
    PROVE  Moves(h) /\ Calls'
<1>1. call \in [Handler -> Call] /\ Ready(h)
  BY DEF Calls
<1>2. /\ call'[h] \in Call /\ call'[h].pc = pc /\ call'[h].id = i /\ call'[h].op = call[h].op
      /\ call'[h].email = call[h].email
  <2>1. call'[h] = [[[call[h] EXCEPT !.pc = pc] EXCEPT !.id = i] EXCEPT !.try = 1]
    BY <1>1 DEF Go
  <2>2. call[h] \in Call /\ 1 \in 1..MaxAttempts
    BY <1>1 DEF Assumptions
  <2>3. [call[h] EXCEPT !.pc = pc] \in Call
    BY <2>2 DEF Call
  <2>4. [[call[h] EXCEPT !.pc = pc] EXCEPT !.id = i] \in Call
    BY ZenonT(60), <2>2, <2>3 DEF Call
  <2>5. call'[h] \in Call
    BY <2>1, <2>2, <2>4 DEF Call
  <2> QED
    BY <2>1, <2>2, <2>5 DEF Call
<1>3. \A k \in Handler \ {h} : call'[k] = call[k]
  BY <1>1 DEF Go
<1>4. DOMAIN call' = Handler /\ call' = [k \in Handler |-> call'[k]]
  BY <1>1 DEF Go
<1>5. call' \in [Handler -> Call]
  BY <1>1, <1>2, <1>3, <1>4
<1>6. Moves(h)
  BY <1>2, <1>3, <1>5 DEF Moves
<1>7. ASSUME NEW k \in Handler PROVE Ready(k)'
  <2>1. CASE k = h
    BY <1>2, <2>1 DEF Ready
  <2>2. CASE k # h
    BY <1>3, <2>2 DEF Ready, Calls
  <2> QED
    BY <2>1, <2>2
<1> QED
  BY <1>5, <1>6, <1>7 DEF Calls

LEMMA RetryMoves ==
    ASSUME Calls, NEW h \in Handler, NEW pc, Retry(h, pc), Assumptions, Busy(h), Rest,
           pc \in {"lookup", "insert", "load"},
           pc = "load" => call[h].op = "reset" /\ call[h].id \in Id,
           pc # "load" => call[h].email \in Email
    PROVE  Moves(h) /\ Calls' /\ access' \subseteq Email
<1>1. call \in [Handler -> Call] /\ Ready(h)
  BY DEF Calls
<1>2. CASE Exhausted(h) /\ Finish(h, "unavailable")
  BY <1>2, FinishMoves
<1>3. CASE /\ ~Exhausted(h)
           /\ call' = [call EXCEPT ![h].pc = pc, ![h].try = @ + 1]
           /\ UNCHANGED <<answer, access>>
  <2>1. call[h] \in Call /\ call[h].try \in 1..MaxAttempts
    BY <1>1 DEF Call
  <2>2. call[h].try + 1 \in 1..MaxAttempts
    BY <1>3, <2>1 DEF Exhausted, Assumptions
  <2>3. /\ call'[h] \in Call /\ call'[h].pc = pc /\ call'[h].id = call[h].id
        /\ call'[h].op = call[h].op /\ call'[h].email = call[h].email
    BY <1>1, <1>3, <2>1, <2>2 DEF Call
  <2>4. \A k \in Handler \ {h} : call'[k] = call[k]
    BY <1>1, <1>3
  <2>5. call' = [k \in Handler |-> call'[k]]
    BY <1>1, <1>3
  <2>6. call' \in [Handler -> Call]
    BY <1>1, <2>3, <2>4, <2>5
  <2>7. Moves(h)
    BY <2>3, <2>4, <2>6 DEF Moves, Writing
  <2>8. ASSUME NEW k \in Handler PROVE Ready(k)'
    <3>1. CASE k = h
      BY <2>3, <3>1 DEF Ready
    <3>2. CASE k # h
      BY <2>4, <3>2 DEF Ready, Calls
    <3> QED
      BY <3>1, <3>2
  <2> QED
    BY <1>3, <2>6, <2>7, <2>8 DEF Calls, Rest
<1> QED
  BY <1>2, <1>3 DEF Retry

-----------------------------------------------------------------------------
(* What a step leaves alone.                                               *)

LEMMA SameLinks == Links /\ links' = links /\ mailed' = mailed /\ admitted' = admitted => Links'
BY DEF Links, LinkOK

LEMMA SameRows == Rows /\ users' = users /\ wallet' = wallet => Rows'
BY DEF Rows, OneOwner, Present

\* A request may go on to write only what has not been inactive all along.
LEMMA KeptShuts ==
    ASSUME Shuts, NEW h \in Handler, Moves(h), shut' = shut,
           \A i \in Id : users[i].state \in {"inactive", "deleted"} =>
                           users'[i].state \in {"inactive", "deleted"}
    PROVE  Shuts'
<1>1. ASSUME NEW k \in Handler PROVE ShutOK(k)'
  BY DEF Shuts, ShutOK
<1>2. ASSUME NEW k \in Handler, call'[k].pc \in Writing PROVE call'[k].id \notin shut'[k]
  BY <1>2 DEF Shuts, InactiveIsOut, At, Moves, Writing
<1> QED
  BY <1>1, <1>2 DEF Shuts, InactiveIsOut, At, Writing

-----------------------------------------------------------------------------
(* Every step preserves the invariant.                                     *)

LEMMA InitInv == Assumptions /\ Init => AInv
<1> SUFFICES ASSUME Assumptions, Init PROVE AInv
  OBVIOUS
<1>1. \A i \in Id : users[i] = NoUser /\ wallet[i] = NoWallet /\ ~Present(i)
  BY DEF Init, Present, NoUser
<1>2. Rows
  BY <1>1 DEF Rows, Init, NoUser, OneOwner
<1>3. Links
  BY DEF Links, LinkOK, Init
<1>4. \A h \in Handler : call[h] = NoCall /\ NoCall.pc = "idle" /\ shut[h] = {}
  BY DEF Init, NoCall
<1>5. NoCall \in Call
  BY DEF NoCall, Call, Assumptions
<1>6. Calls
  BY <1>4, <1>5 DEF Calls, Ready, Init
<1>7. Shuts
  BY <1>4 DEF Shuts, ShutOK, InactiveIsOut, At, Init
<1>8. Rest
  BY DEF Rest, Init, Assumptions
<1> QED
  BY <1>2, <1>3, <1>6, <1>7, <1>8, Parts

LEMMA BeginInv ==
    ASSUME Assumptions, AInv, NEW h \in Handler, NEW op \in Operation, NEW e \in Email \cup {Nil},
           NEW p \in Password \cup {Nil}, NEW c \in Password \cup {Nil},
           NEW l \in Link \cup {Nil}, ~Busy(h), Begin(h, op, e, p, c, l)
    PROVE  AInv'
<1>1. Rows /\ Links /\ Calls /\ Shuts /\ Rest
  BY Parts
<1> DEFINE new == [op |-> op, pc |-> FirstStep(op), email |-> e, password |-> p,
                   current |-> c, link |-> l, id |-> Nil, try |-> 1]
<1>2. op \in {"signup", "google", "login", "forgot", "reset", "change", "delete"}
  BY DEF Assumptions
<1>3. /\ FirstStep(op) \in {"lookup", "consume", "load"}
      /\ FirstStep(op) = "consume" <=> op = "reset"
      /\ op # "reset" => e \in Email
      /\ op = "reset" => l \in Link
  BY <1>1, <1>2 DEF FirstStep, Begin, Arguments, Rest, Links
<1>4. new \in Call
  BY <1>3 DEF Call, Assumptions
<1>5. /\ call' \in [Handler -> Call] /\ call'[h] = new
      /\ \A k \in Handler \ {h} : call'[k] = call[k]
  BY <1>1, <1>4 DEF Begin, Calls
<1>6. Calls'
  <2>1. ASSUME NEW k \in Handler PROVE Ready(k)'
    <3>1. CASE k = h
      BY <1>3, <1>5, <3>1 DEF Ready
    <3>2. CASE k # h
      BY <1>1, <1>5, <3>2 DEF Ready, Calls
    <3> QED
      BY <3>1, <3>2
  <2> QED
    BY <1>5, <2>1 DEF Calls
<1>7. /\ users' = users /\ wallet' = wallet /\ links' = links
      /\ mailed' = mailed /\ access' = access /\ admitted' = admitted
  BY DEF Begin, database, redis
<1>8. Rows' /\ Links'
  BY <1>1, <1>7, SameRows, SameLinks
<1>9. Rest'
  BY <1>1, <1>7 DEF Rest, Begin, Assumptions
<1>10. Shuts'
  <2>1. shut' \in [Handler -> SUBSET Id]
    BY <1>1 DEF Shuts, Begin
  <2>2. ASSUME NEW k \in Handler PROVE ShutOK(k)'
    BY <1>1, <1>7 DEF Shuts, ShutOK, Begin
  <2>3. ASSUME NEW k \in Handler, call'[k].pc \in Writing PROVE call'[k].id \notin shut'[k]
    <3>1. k # h
      BY <1>3, <1>5, <2>3 DEF Writing
    <3>2. call'[k] = call[k] /\ shut'[k] = shut[k]
      BY <1>1, <1>5, <3>1 DEF Shuts, Begin
    <3> QED
      BY <1>1, <2>3, <3>2 DEF Shuts, InactiveIsOut, At, Writing
  <2> QED
    BY <2>1, <2>2, <2>3 DEF Shuts, InactiveIsOut, At, Writing
<1> QED
  BY <1>6, <1>8, <1>9, <1>10, Parts

\* The steps that only read the database and move their request.
LEMMA ReadInv ==
    ASSUME Assumptions, AInv, NEW h \in Handler, Moves(h), Calls', access' \subseteq Email,
           users' = users, wallet' = wallet, changed' = changed, shut' = shut,
           requests' = requests, Links'
    PROVE  AInv'
<1>1. Rows /\ Links /\ Calls /\ Shuts /\ Rest
  BY Parts
<1>2. Rows'
  BY <1>1, SameRows
<1>3. Shuts'
  BY <1>1, KeptShuts
<1>4. Rest'
  BY <1>1 DEF Rest
<1> QED
  BY <1>2, <1>3, <1>4, Parts

LEMMA LookupInv ==
    ASSUME Assumptions, AInv, NEW h \in Handler, Lookup(h)
    PROVE  AInv'
<1>1. Rows /\ Links /\ Calls /\ Shuts /\ Rest
  BY Parts
<1>2. /\ Busy(h) /\ call[h].pc = "lookup" /\ call[h].email \in Email
      /\ users' = users /\ wallet' = wallet /\ links' = links /\ mailed' = mailed
      /\ changed' = changed /\ admitted' = admitted /\ shut' = shut /\ requests' = requests
  BY <1>1 DEF Lookup, At, Busy, Calls, Ready, database, redis
<1>3. ASSUME NEW what, Finish(h, what)
      PROVE  Moves(h) /\ Calls' /\ access' \subseteq Email
  BY <1>1, <1>2, <1>3, FinishMoves
<1>4. ASSUME Go(h, "insert", Nil), UNCHANGED access
      PROVE  Moves(h) /\ Calls' /\ access' \subseteq Email
  BY <1>1, <1>2, <1>4, GoMoves DEF Rest, Writing
<1>5. ASSUME NEW i \in Owners(call[h].email), Go(h, "issue", i), UNCHANGED access
      PROVE  Moves(h) /\ Calls' /\ access' \subseteq Email
  BY <1>1, <1>2, <1>5, GoMoves DEF Rest, Writing, Owners
<1>6. Moves(h) /\ Calls' /\ access' \subseteq Email
  BY <1>3, <1>4, <1>5 DEF Lookup
<1> QED
  BY <1>1, <1>2, <1>6, ReadInv, SameLinks

LEMMA IssueInv ==
    ASSUME Assumptions, AInv, NEW h \in Handler, Issue(h)
    PROVE  AInv'
<1>1. Rows /\ Links /\ Calls /\ Shuts /\ Rest
  BY Parts
<1>2. /\ Busy(h) /\ call[h].pc = "issue" /\ call[h].id \in Id
      /\ users' = users /\ wallet' = wallet /\ changed' = changed
      /\ admitted' = admitted /\ shut' = shut /\ requests' = requests
  BY <1>1 DEF Issue, At, Busy, Calls, Ready, database
<1>3. Moves(h) /\ Calls' /\ access' \subseteq Email
  BY <1>1, <1>2, FinishMoves DEF Issue
<1>4. PICK l \in Link : /\ l \notin mailed /\ mailed' = mailed \cup {l}
                        /\ links' = [links EXCEPT ![l] = call[h].id]
  BY DEF Issue
<1>5. Links'
  <2>1. links' \in [Link -> Id \cup {Nil}] /\ mailed' \subseteq Link /\ admitted' \in [Link -> Nat]
    BY <1>1, <1>2, <1>4 DEF Links
  <2>2. ASSUME NEW m \in Link PROVE LinkOK(m)'
    BY <1>1, <1>2, <1>4 DEF Links, LinkOK
  <2> QED
    BY <2>1, <2>2 DEF Links
<1> QED
  BY <1>2, <1>3, <1>5, ReadInv

LEMMA AdmitInv ==
    ASSUME Assumptions, AInv, NEW h \in Handler, Admit(h)
    PROVE  AInv'
<1>1. Rows /\ Links /\ Calls /\ Shuts /\ Rest
  BY Parts
<1> DEFINE l == call[h].link
<1>2. /\ Busy(h) /\ call[h].pc = "consume" /\ l \in Link
      /\ call[h].email \in Email \/ call[h].op = "reset"
      /\ users' = users /\ wallet' = wallet /\ mailed' = mailed
      /\ changed' = changed /\ shut' = shut /\ requests' = requests
  BY <1>1 DEF Admit, At, Busy, Calls, Ready, database
<1>3. links' = [links EXCEPT ![l] = Nil]
  BY DEF Admit, Consume
<1>4. CASE links[l] = Nil
  <2>1. Finish(h, "invalid") /\ UNCHANGED admitted
    BY <1>4 DEF Admit
  <2>2. Moves(h) /\ Calls' /\ access' \subseteq Email
    BY <1>1, <1>2, <2>1, FinishMoves
  <2>3. links' = links
    BY <1>1, <1>2, <1>3, <1>4 DEF Links
  <2> QED
    BY <1>1, <1>2, <2>1, <2>2, <2>3, ReadInv, SameLinks
<1>5. CASE links[l] # Nil
  <2>1. /\ admitted' = [admitted EXCEPT ![l] = @ + 1]
        /\ Go(h, "load", links[l]) /\ UNCHANGED access
    BY <1>5 DEF Admit
  <2>2. links[l] \in Id
    BY <1>1, <1>2, <1>5 DEF Links
  <2>3. Moves(h) /\ Calls' /\ access' \subseteq Email
    BY <1>1, <1>2, <2>1, <2>2, GoMoves DEF Rest, Writing
  <2>4. l \in mailed /\ admitted[l] = 0
    BY <1>1, <1>2, <1>5 DEF Links, LinkOK
  <2>5. /\ links'[l] = Nil /\ admitted'[l] = 1
        /\ \A m \in Link \ {l} : links'[m] = links[m] /\ admitted'[m] = admitted[m]
    BY <1>1, <1>2, <1>3, <2>1, <2>4 DEF Links
  <2>6. links' \in [Link -> Id \cup {Nil}] /\ mailed' \subseteq Link /\ admitted' \in [Link -> Nat]
    BY <1>1, <1>2, <1>3, <2>1 DEF Links
  <2>7. ASSUME NEW m \in Link PROVE LinkOK(m)'
    BY <1>1, <1>2, <2>4, <2>5 DEF Links, LinkOK
  <2> QED
    BY <1>2, <2>3, <2>6, <2>7, ReadInv DEF Links
<1> QED
  BY <1>4, <1>5

LEMMA LoadResetInv ==
    ASSUME Assumptions, AInv, NEW h \in Handler, LoadReset(h)
    PROVE  AInv'
<1>1. Rows /\ Links /\ Calls /\ Shuts /\ Rest
  BY Parts
<1> DEFINE i == call[h].id
<1>2. /\ Busy(h) /\ call[h].pc = "load" /\ call[h].op = "reset" /\ i \in Id
      /\ users' = users /\ wallet' = wallet /\ links' = links /\ mailed' = mailed
      /\ changed' = changed /\ admitted' = admitted /\ shut' = shut /\ requests' = requests
  BY <1>1 DEF LoadReset, At, Busy, Calls, Ready, database, redis
<1>3. ASSUME ~Usable(i)
      PROVE  Moves(h) /\ Calls' /\ access' \subseteq Email
  <2>1. Finish(h, "refused")
    BY <1>3 DEF LoadReset
  <2> QED
    BY <1>1, <1>2, <2>1, FinishMoves
<1>4. ASSUME Usable(i)
      PROVE  Moves(h) /\ Calls' /\ access' \subseteq Email
  <2>1. /\ call' = [call EXCEPT ![h].pc = "write", ![h].email = users[i].email]
        /\ access' = access
    BY <1>4 DEF LoadReset
  <2>2. users[i].email \in Email /\ i \notin shut[h]
    BY <1>1, <1>2, <1>4 DEF Rows, Shuts, ShutOK, Usable, Present
  <2>3. call[h] \in Call
    BY <1>1 DEF Calls
  <2>4. call'[h] = [[call[h] EXCEPT !.pc = "write"] EXCEPT !.email = users[i].email]
    BY <1>1, <2>1 DEF Calls
  <2>5. [call[h] EXCEPT !.pc = "write"] \in Call
    BY <2>3 DEF Call
  <2>6. /\ call'[h] \in Call /\ call'[h].pc = "write" /\ call'[h].id = i
        /\ call'[h].email \in Email
    BY ZenonT(60), <2>2, <2>3, <2>4, <2>5 DEF Call
  <2>7. /\ \A k \in Handler \ {h} : call'[k] = call[k]
        /\ call' = [k \in Handler |-> call'[k]]
    BY <1>1, <2>1 DEF Calls
  <2>8. call' \in [Handler -> Call]
    BY <1>1, <2>6, <2>7 DEF Calls
  <2>9. Moves(h)
    BY <2>2, <2>6, <2>7, <2>8 DEF Moves
  <2>10. ASSUME NEW k \in Handler PROVE Ready(k)'
    <3>1. CASE k = h
      BY <1>2, <2>6, <3>1 DEF Ready
    <3>2. CASE k # h
      BY <1>1, <2>7, <3>2 DEF Ready, Calls
    <3> QED
      BY <3>1, <3>2
  <2> QED
    BY <1>1, <2>1, <2>8, <2>9, <2>10 DEF Calls, Rest
<1> QED
  BY <1>1, <1>2, <1>3, <1>4, ReadInv, SameLinks

LEMMA AuthenticateInv ==
    ASSUME Assumptions, AInv, NEW h \in Handler, Authenticate(h)
    PROVE  AInv'
<1>1. Rows /\ Links /\ Calls /\ Shuts /\ Rest
  BY Parts
<1>2. /\ Busy(h) /\ call[h].pc = "load" /\ call[h].op # "reset" /\ call[h].email \in Email
      /\ users' = users /\ wallet' = wallet /\ links' = links /\ mailed' = mailed
      /\ changed' = changed /\ admitted' = admitted /\ shut' = shut /\ requests' = requests
  BY <1>1 DEF Authenticate, At, Busy, Calls, Ready, database, redis
<1>3. ASSUME Finish(h, "refused")
      PROVE  Moves(h) /\ Calls' /\ access' \subseteq Email
  BY <1>1, <1>2, <1>3, FinishMoves
<1>4. ASSUME NEW i \in Id, Usable(i), NEW pc \in Writing, Go(h, pc, i), access' = access
      PROVE  Moves(h) /\ Calls' /\ access' \subseteq Email
  <2>1. i \notin shut[h]
    BY <1>1, <1>4 DEF Shuts, ShutOK, Usable
  <2>2. pc \in {"write", "erase"}
    BY <1>4 DEF Writing
  <2>3. Moves(h) /\ Calls'
    BY <1>1, <1>2, <1>4, <2>1, <2>2, GoMoves
  <2> QED
    BY <1>1, <1>4, <2>3 DEF Rest
<1>5. \/ Finish(h, "refused")
      \/ \E i \in Id, pc \in Writing : Usable(i) /\ Go(h, pc, i) /\ access' = access
  BY DEF Authenticate, Owners, Writing
<1>6. Moves(h) /\ Calls' /\ access' \subseteq Email
  BY <1>3, <1>4, <1>5
<1> QED
  BY <1>1, <1>2, <1>6, ReadInv, SameLinks

LEMMA UnreachableInv ==
    ASSUME Assumptions, AInv, NEW h \in Handler, Unreachable(h)
    PROVE  AInv'
<1>1. Rows /\ Links /\ Calls /\ Shuts /\ Rest
  BY Parts
<1>2. /\ Busy(h) /\ Ready(h) /\ call[h] \in Call
      /\ users' = users /\ wallet' = wallet /\ links' = links /\ mailed' = mailed
      /\ changed' = changed /\ admitted' = admitted /\ shut' = shut /\ requests' = requests
  BY <1>1 DEF Unreachable, Calls, database, redis
<1>3. ASSUME NEW pc \in {"lookup", "insert"}, call[h].pc = pc, Retry(h, pc)
      PROVE  Moves(h) /\ Calls' /\ access' \subseteq Email
  <2>1. call[h].email \in Email
    BY <1>2, <1>3 DEF Ready
  <2> QED
    BY <1>1, <1>2, <1>3, <2>1, RetryMoves
<1>4. ASSUME call[h].op = "reset", call[h].pc \notin {"consume", "lookup", "insert"},
             Retry(h, "load")
      PROVE  Moves(h) /\ Calls' /\ access' \subseteq Email
  <2>1. call[h].id \in Id
    BY <1>2, <1>4 DEF Ready, Busy, Call
  <2> QED
    BY <1>1, <1>2, <1>4, <2>1, RetryMoves
<1>5. ASSUME Finish(h, "failed")
      PROVE  Moves(h) /\ Calls' /\ access' \subseteq Email
  BY <1>1, <1>2, <1>5, FinishMoves
<1>6. Moves(h) /\ Calls' /\ access' \subseteq Email
  BY <1>3, <1>4, <1>5 DEF Unreachable, At
<1> QED
  BY <1>1, <1>2, <1>6, ReadInv, SameLinks

\* The steps that write rows.  Those of others stay what they were.
LEMMA WriteInv ==
    ASSUME Assumptions, AInv, NEW h \in Handler, Moves(h), Calls', access' \subseteq Email, Rows',
           changed' \in [Handler -> SUBSET Id],
           links' = links, mailed' = mailed, admitted' = admitted, shut' = shut,
           requests' = requests,
           \A i \in Id : users[i].state \in {"inactive", "deleted"} =>
                           users'[i].state \in {"inactive", "deleted"}
    PROVE  AInv'
<1>1. Rows /\ Links /\ Calls /\ Shuts /\ Rest
  BY Parts
<1>2. Links'
  BY <1>1, SameLinks
<1>3. Shuts'
  BY <1>1, KeptShuts
<1>4. Rest'
  BY <1>1 DEF Rest
<1> QED
  BY <1>2, <1>3, <1>4, Parts

LEMMA InsertInv ==
    ASSUME Assumptions, AInv, NEW h \in Handler, Insert(h)
    PROVE  AInv'
<1>1. Rows /\ Links /\ Calls /\ Shuts /\ Rest
  BY Parts
<1>2. /\ Busy(h) /\ call[h].pc = "insert" /\ call[h].email \in Email
      /\ links' = links /\ mailed' = mailed /\ admitted' = admitted
      /\ shut' = shut /\ requests' = requests
  BY <1>1 DEF Insert, At, Busy, Calls, Ready, redis
<1>3. CASE /\ Finish(h, "duplicate")
           /\ users' = users /\ wallet' = wallet /\ changed' = changed
  <2>1. Moves(h) /\ Calls' /\ access' \subseteq Email
    BY <1>1, <1>2, <1>3, FinishMoves
  <2>2. Links'
    BY <1>1, <1>2, SameLinks
  <2> QED
    BY <1>2, <1>3, <2>1, <2>2, ReadInv
<1>4. CASE /\ ~Taken(call[h].email)
           /\ \E i \in Id :
                 /\ users[i].state = "absent"
                 /\ users' = [users EXCEPT ![i] = [state |-> "active", email |-> call[h].email,
                                                 password |-> call[h].password]]
                 /\ wallet' = WalletOf(i)
                 /\ changed' = [changed EXCEPT ![h] = @ \cup {i}]
           /\ Finish(h, "ok") \/ Retry(h, "insert")
  <2>1. Moves(h) /\ Calls' /\ access' \subseteq Email
    <3>1. CASE Finish(h, "ok")
      BY <1>1, <1>2, <3>1, FinishMoves
    <3>2. CASE Retry(h, "insert")
      BY <1>1, <1>2, <3>2, RetryMoves
    <3> QED
      BY <1>4, <3>1, <3>2
  <2> DEFINE row == [state |-> "active", email |-> call[h].email, password |-> call[h].password]
  <2>2. PICK i \in Id : /\ users[i].state = "absent" /\ users' = [users EXCEPT ![i] = row]
                        /\ wallet' = [wallet EXCEPT ![i] = Bonus]
                        /\ changed' = [changed EXCEPT ![h] = @ \cup {i}]
    BY <1>4 DEF WalletOf
  <2>3. call[h].password \in Password \cup {Nil}
    BY <1>1 DEF Calls, Call
  <2>4. /\ users' \in [Id -> [state : {"absent", "active", "inactive", "deleted"},
                            email : Email \cup {Nil}, password : Password \cup {Nil}]]
        /\ wallet' \in [Id -> {Bonus, NoWallet}]
    BY <1>1, <1>2, <2>2, <2>3 DEF Rows
  <2>5. /\ users'[i] = row /\ wallet'[i] = Bonus
        /\ \A j \in Id \ {i} : users'[j] = users[j] /\ wallet'[j] = wallet[j]
    BY <1>1, <2>2 DEF Rows
  <2>6. Present(i)' /\ \A j \in Id \ {i} : Present(j)' <=> Present(j)
    BY <2>5 DEF Present
  <2>7. \A j \in Id \ {i} : ~(Present(j) /\ users[j].email = call[h].email)
    BY <1>4 DEF Taken, Owners
  <2>8. \A j \in Id : /\ Present(j)' => users'[j].email \in Email
                      /\ Present(j)' <=> wallet'[j] # NoWallet
    BY <1>1, <1>2, <2>5, <2>6 DEF Rows, Assumptions
  <2>9. OneOwner'
    BY <1>1, <2>5, <2>6, <2>7 DEF Rows, OneOwner
  <2>10. Rows'
    BY <2>4, <2>8, <2>9 DEF Rows
  <2>11. changed' \in [Handler -> SUBSET Id]
    BY <1>1, <2>2 DEF Rest
  <2>12. \A j \in Id : users[j].state \in {"inactive", "deleted"} => users'[j] = users[j]
    BY <2>2, <2>5
  <2> QED
    BY <1>2, <2>1, <2>10, <2>11, <2>12, WriteInv
<1> QED
  BY <1>3, <1>4 DEF Insert, database

LEMMA WritePasswordInv ==
    ASSUME Assumptions, AInv, NEW h \in Handler, WritePassword(h)
    PROVE  AInv'
<1>1. Rows /\ Links /\ Calls /\ Shuts /\ Rest
  BY Parts
<1> DEFINE i == call[h].id
<1>2. /\ Busy(h) /\ call[h].pc = "write" /\ call[h].email \in Email /\ i \in Id
      /\ call[h].password \in Password \cup {Nil}
      /\ wallet' = wallet /\ links' = links /\ mailed' = mailed /\ admitted' = admitted
      /\ shut' = shut /\ requests' = requests
  BY <1>1 DEF WritePassword, At, Busy, Calls, Ready, Call, redis
<1>3. CASE Finish(h, "failed") /\ users' = users /\ changed' = changed
  <2>1. Moves(h) /\ Calls' /\ access' \subseteq Email
    BY <1>1, <1>2, <1>3, FinishMoves
  <2>2. Links'
    BY <1>1, <1>2, SameLinks
  <2> QED
    BY <1>2, <1>3, <2>1, <2>2, ReadInv
<1>4. CASE /\ Present(i)
           /\ users' = [users EXCEPT ![i].password = call[h].password]
           /\ changed' = [changed EXCEPT ![h] = @ \cup {i}]
           /\ \/ Finish(h, "ok")
              \/ call[h].op = "reset" /\ Retry(h, "load")
              \/ call[h].op = "change" /\ Finish(h, "failed")
  <2>1. Moves(h) /\ Calls' /\ access' \subseteq Email
    <3>1. ASSUME NEW what, Finish(h, what)
          PROVE  Moves(h) /\ Calls' /\ access' \subseteq Email
      BY <1>1, <1>2, <3>1, FinishMoves
    <3>2. ASSUME call[h].op = "reset", Retry(h, "load")
          PROVE  Moves(h) /\ Calls' /\ access' \subseteq Email
      BY <1>1, <1>2, <3>2, RetryMoves
    <3> QED
      BY <1>4, <3>1, <3>2
  <2>2. /\ users' \in [Id -> [state : {"absent", "active", "inactive", "deleted"},
                            email : Email \cup {Nil}, password : Password \cup {Nil}]]
        /\ wallet' \in [Id -> {Bonus, NoWallet}]
    BY <1>1, <1>2, <1>4 DEF Rows
  <2>3. \A j \in Id : users'[j].state = users[j].state /\ users'[j].email = users[j].email
    BY <1>1, <1>4 DEF Rows
  <2>4. Rows'
    BY <1>1, <1>2, <2>2, <2>3 DEF Rows, OneOwner, Present
  <2>5. changed' \in [Handler -> SUBSET Id]
    BY <1>1, <1>2, <1>4 DEF Rest
  <2> QED
    BY <1>2, <2>1, <2>3, <2>4, <2>5, WriteInv
<1> QED
  BY <1>3, <1>4 DEF WritePassword

LEMMA EraseInv ==
    ASSUME Assumptions, AInv, NEW h \in Handler, Erase(h)
    PROVE  AInv'
<1>1. Rows /\ Links /\ Calls /\ Shuts /\ Rest
  BY Parts
<1>0. PICK i \in Id : call[h].id = i
  BY <1>1 DEF Erase, At, Calls, Ready
<1>2. /\ Busy(h) /\ call[h].pc = "erase" /\ i \in Id
      /\ links' = links /\ mailed' = mailed /\ admitted' = admitted
      /\ shut' = shut /\ requests' = requests
  BY <1>1 DEF Erase, At, Busy, Calls, Ready, redis
<1>3. Moves(h) /\ Calls' /\ access' \subseteq Email
  <2>1. Finish(h, "ok") \/ Finish(h, "failed")
    BY DEF Erase
  <2> QED
    BY <1>1, <1>2, <2>1, FinishMoves
<1>4. CASE users' = users /\ wallet' = wallet /\ changed' = changed
  <2>1. Links'
    BY <1>1, <1>2, SameLinks
  <2> QED
    BY <1>2, <1>3, <1>4, <2>1, ReadInv
<1>5. CASE /\ Present(i)
           /\ users' = [users EXCEPT ![i] = [NoUser EXCEPT !.state = "deleted"]]
           /\ wallet' = [wallet EXCEPT ![i] = NoWallet]
           /\ changed' = [changed EXCEPT ![h] = @ \cup {i}]
  <2>1. [NoUser EXCEPT !.state = "deleted"] = [state |-> "deleted", email |-> Nil, password |-> Nil]
    BY DEF NoUser
  <2>2. /\ users' \in [Id -> [state : {"absent", "active", "inactive", "deleted"},
                            email : Email \cup {Nil}, password : Password \cup {Nil}]]
        /\ wallet' \in [Id -> {Bonus, NoWallet}]
    BY <1>1, <1>2, <1>5, <2>1 DEF Rows
  <2>3. /\ users'[i].state = "deleted" /\ wallet'[i] = NoWallet
        /\ \A j \in Id \ {i} : users'[j] = users[j] /\ wallet'[j] = wallet[j]
    BY <1>1, <1>2, <1>5, <2>1 DEF Rows
  <2>4. ~Present(i)' /\ \A j \in Id \ {i} : Present(j)' <=> Present(j)
    BY <1>2, <2>3 DEF Present
  <2>5. \A j \in Id : /\ Present(j)' => users'[j].email \in Email
                      /\ Present(j)' <=> wallet'[j] # NoWallet
    BY <1>1, <2>3, <2>4 DEF Rows
  <2>6. OneOwner'
    BY <1>1, <2>3, <2>4 DEF Rows, OneOwner
  <2>7. Rows'
    BY <2>2, <2>5, <2>6 DEF Rows
  <2>8. changed' \in [Handler -> SUBSET Id]
    BY <1>1, <1>2, <1>5 DEF Rest
  <2>9. \A j \in Id : users[j].state \in {"inactive", "deleted"} =>
                        users'[j].state \in {"inactive", "deleted"}
    BY <2>3
  <2> QED
    BY <1>2, <1>3, <2>7, <2>8, <2>9, WriteInv
<1> QED
  BY <1>0, <1>4, <1>5 DEF Erase, database

LEMMA SetActiveInv ==
    ASSUME Assumptions, AInv, NEW i \in Id, NEW active \in BOOLEAN, SetActive(i, active)
    PROVE  AInv'
<1>1. Rows /\ Links /\ Calls /\ Shuts /\ Rest
  BY Parts
<1>2. /\ wallet' = wallet /\ links' = links /\ mailed' = mailed /\ admitted' = admitted
      /\ access' = access /\ call' = call /\ changed' = changed /\ requests' = requests
  BY DEF SetActive, redis
<1>3. Links' /\ Calls' /\ Rest'
  BY <1>1, <1>2, SameLinks DEF Calls, Ready, Rest
<1> DEFINE s == IF active THEN "active" ELSE "inactive"
<1>4. Present(i) /\ users' = [users EXCEPT ![i].state = s]
  BY DEF SetActive
<1>5. users' \in [Id -> [state : {"absent", "active", "inactive", "deleted"},
                         email : Email \cup {Nil}, password : Password \cup {Nil}]]
  BY <1>1, <1>4 DEF Rows
<1>6. /\ users'[i].state = s
      /\ \A j \in Id : users'[j].email = users[j].email
      /\ \A j \in Id \ {i} : users'[j].state = users[j].state
  BY <1>1, <1>4 DEF Rows
<1>7. \A j \in Id : Present(j)' <=> Present(j)
  BY <1>4, <1>6 DEF Present
<1>8. Rows'
  BY <1>1, <1>2, <1>5, <1>6, <1>7 DEF Rows, OneOwner
<1>9. /\ shut' \in [Handler -> SUBSET Id]
      /\ \A h \in Handler : shut'[h] \subseteq shut[h] /\ (active => i \notin shut'[h])
  BY <1>1 DEF SetActive, Shuts
<1>10. ASSUME NEW h \in Handler PROVE ShutOK(h)'
  BY <1>1, <1>6, <1>9 DEF Shuts, ShutOK
<1>11. InactiveIsOut'
  BY <1>1, <1>2, <1>9 DEF Shuts, InactiveIsOut, At
<1> QED
  BY <1>3, <1>8, <1>9, <1>10, <1>11, Parts DEF Shuts

\* A step that only forgets: a link whose time is up, or the tokens of an address.
LEMMA ExpireInv ==
    ASSUME Assumptions, AInv,
           \/ \E l \in Link : LinkExpires(l)
           \/ \E e \in Email : TokensExpire(e)
    PROVE  AInv'
<1>1. Rows /\ Links /\ Calls /\ Shuts /\ Rest
  BY Parts
<1>2. /\ users' = users /\ wallet' = wallet /\ mailed' = mailed /\ admitted' = admitted
      /\ call' = call /\ changed' = changed /\ shut' = shut /\ requests' = requests
      /\ access' \subseteq access
  BY DEF LinkExpires, TokensExpire, database, redis
<1>3. Links'
  <2>1. CASE \E e \in Email : TokensExpire(e)
    BY <1>1, <1>2, <2>1, SameLinks DEF TokensExpire, redis
  <2>2. CASE \E l \in Link : LinkExpires(l)
    <3>1. PICK l \in Link : links' = [links EXCEPT ![l] = Nil]
      BY <2>2 DEF LinkExpires
    <3>2. ASSUME NEW m \in Link PROVE LinkOK(m)'
      BY <1>1, <1>2, <3>1 DEF Links, LinkOK
    <3>3. links' \in [Link -> Id \cup {Nil}]
      BY <1>1, <3>1 DEF Links
    <3> QED
      BY <1>1, <1>2, <3>2, <3>3 DEF Links
  <2> QED
    BY <2>1, <2>2
<1>4. Rows'
  BY <1>1, <1>2, SameRows
<1>5. Calls' /\ Rest'
  BY <1>1, <1>2 DEF Calls, Ready, Rest
<1>6. Shuts'
  BY <1>1, <1>2 DEF Shuts, ShutOK, InactiveIsOut, At
<1> QED
  BY <1>3, <1>4, <1>5, <1>6, Parts

LEMMA StutterInv ==
    ASSUME AInv, UNCHANGED vars
    PROVE  AInv'
<1>1. Rows /\ Links /\ Calls /\ Shuts /\ Rest
  BY Parts
<1>2. /\ users' = users /\ wallet' = wallet /\ links' = links /\ mailed' = mailed
      /\ access' = access /\ call' = call /\ changed' = changed /\ admitted' = admitted
      /\ shut' = shut /\ requests' = requests
  BY DEF vars
<1>3. Rows' /\ Links'
  BY <1>1, <1>2, SameRows, SameLinks
<1>4. Calls' /\ Rest'
  BY <1>1, <1>2 DEF Calls, Ready, Rest
<1>5. Shuts'
  BY <1>1, <1>2 DEF Shuts, ShutOK, InactiveIsOut, At
<1> QED
  BY <1>3, <1>4, <1>5, Parts

LEMMA StepInv == Assumptions /\ AInv /\ [Next]_vars => AInv'
<1> SUFFICES ASSUME Assumptions, AInv, [Next]_vars PROVE AInv'
  OBVIOUS
<1>1. ASSUME NEW h \in Handler, Step(h) PROVE AInv'
  BY <1>1, LookupInv, InsertInv, IssueInv, AdmitInv, LoadResetInv, AuthenticateInv,
     WritePasswordInv, EraseInv, UnreachableInv DEF Step
<1>2. ASSUME NEW h \in Handler, ~Busy(h), NEW op \in Operation, NEW e \in Email \cup {Nil},
             NEW p \in Password \cup {Nil}, NEW c \in Password \cup {Nil},
             NEW l \in Link \cup {Nil}, Begin(h, op, e, p, c, l)
      PROVE  AInv'
  BY <1>2, BeginInv
<1>3. ASSUME NEW i \in Id, NEW active \in BOOLEAN, SetActive(i, active) PROVE AInv'
  BY <1>3, SetActiveInv
<1>4. CASE UNCHANGED vars
  BY <1>4, StutterInv
<1> QED
  BY <1>1, <1>2, <1>3, <1>4, ExpireInv DEF Next

-----------------------------------------------------------------------------
(* The theorems.                                                           *)

\* The strengthening that makes the properties inductive: what a request may
\* do next depends on what it has read, a key of Redis on what was mailed.
THEOREM InvHolds ==
    ASSUME Assumptions
    PROVE  Spec => []AInv
<1>1. Init => AInv
  BY InitInv
<1>2. AInv /\ [Next]_vars => AInv'
  BY StepInv
<1> QED
  BY <1>1, <1>2, PTL DEF Spec

LEMMA InvIsTyped == AInv => TypeOK
  BY DEF AInv

LEMMA InvAdmitsOnce == AInv => LinkAdmitsOnce
  BY DEF AInv, LinkAdmitsOnce, LinkOK

LEMMA InvIsOut == AInv => InactiveIsOut
  BY DEF AInv

LEMMA InvIsWhole == AInv => AccountIsWhole
<1>1. ASSUME AInv, NEW e \in Email PROVE Cardinality(Owners(e)) <= 1
  <2>1. \A i, j \in Owners(e) : i = j
    BY <1>1 DEF AInv, OneOwner, Owners
  <2>2. CASE Owners(e) = {}
    BY <2>2, FS_EmptySet
  <2>3. CASE Owners(e) # {}
    <3>1. PICK i : i \in Owners(e)
      BY <2>3
    <3>2. Owners(e) = {i}
      BY <2>1, <3>1
    <3> QED
      BY <3>2, FS_Singleton
  <2> QED
    BY <2>2, <2>3
<1> QED
  BY <1>1 DEF AInv, AccountIsWhole

\* Every variable keeps its type, and every request finds what its next
\* statement uses: the account it read, the link it was given.
THEOREM TypesHold ==
    ASSUME Assumptions
    PROVE  Spec => []TypeOK
  BY InvIsTyped, InvHolds, PTL

\* consume_password_reset_token: however many requests present one link, one
\* is let in.
THEOREM LinksAreSingleUse ==
    ASSUME Assumptions
    PROVE  Spec => []LinkAdmitsOnce
  BY InvAdmitsOnce, InvHolds, PTL

\* create_user_with_wallet and delete_account: an account has a wallet, and an
\* address one account, whatever is retried after a lost answer.
THEOREM AccountsAreWhole ==
    ASSUME Assumptions
    PROVE  Spec => []AccountIsWhole
  BY InvIsWhole, InvHolds, PTL

\* _load_active_user and get_current_user: a request that began after its
\* account was deactivated never comes to write it.
THEOREM InactiveStaysOut ==
    ASSUME Assumptions
    PROVE  Spec => []InactiveIsOut
  BY InvIsOut, InvHolds, PTL
=============================================================================
