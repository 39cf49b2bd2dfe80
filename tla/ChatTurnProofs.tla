--------------------------- MODULE ChatTurnProofs ---------------------------
(***************************************************************************)
(* Chat turns, for any number of sockets, chats, models, turns, prices,    *)
(* failures and deaths.                                                    *)
(***************************************************************************)
EXTENDS ChatTurn, FiniteSetTheorems, TLAPS

\* A turn whose chat is known; one that has found a balance to spend.
Late == {"write", "commit", "budget", "stream"}
Paid == Late \cup {"rewind"}

\* The invariant, by the variables its parts are about.
Sockets ==
    /\ online \subseteq Socket /\ stop \subseteq Socket /\ asked \subseteq Socket /\ told \subseteq Socket
    /\ loop \in [Socket -> {"closed", "reading", "stopping", "closing"}]
    /\ chat \in [Chat -> {"absent", "chat", "arena", "deleted"}]
    /\ session \in [Socket -> [chat : Chat \cup {Nil}, mode : {"chat", "arena"}]]

Turns == turn \in [Socket -> Turn] /\ slot \in [Socket -> [Model -> Slot]]

Used == [turns : 0..MaxTurns, spend : 0..MaxSpend, failed : 0..MaxFailed,
         deaths : 0..MaxDeaths, spoken : 0..MaxSpoken]

Counts ==
    /\ refused \subseteq Nat /\ pinned \subseteq Nat
    /\ used \in Used

Money ==
    /\ wallet \in [{Account} -> Int] /\ sold \in Nat /\ unit \in Nat
    /\ ChargedIsStored

Rows ==
    /\ rows \subseteq Row
    /\ \A p, q \in rows : p.id = q.id => p = q
    /\ clock \in Nat /\ \A r \in rows : r.id \in 1..clock
    /\ spoken \subseteq Ids(rows)
    /\ RepliesFollowPrompt

\* One socket: its replies run in its own turn, and a stop was asked for.
Local(s) ==
    /\ turn[s].pc \in Late => session[s].chat \in Chat
    /\ IF turn[s].pc \in Paid THEN turn[s].bal > 0 ELSE turn[s].bal = 0
    /\ turn[s].pc # "stream" => slot[s] = NoSlots
    /\ \A i \in Model : /\ slot[s][i].pc # "off" => i <= turn[s].n
                        /\ slot[s][i].why = "interrupted" => s \in asked
    /\ s \in stop => s \in asked

\* A prompt that was given its identifier and is not stored yet.
Pending(s) == turn[s].pc = "commit" /\ turn[s].kind # "regenerate"

\* The prompt of a turn: where it is stored it is a user message of the turn's
\* chat, and until then nothing else has its identifier.
Prompt(s) ==
    /\ turn[s].prompt <= clock
    /\ turn[s].pc \notin Late => turn[s].prompt = 0
    /\ \A p \in rows : p.id = turn[s].prompt => p.role = "user" /\ p.chat = session[s].chat
    /\ Pending(s) =>
          /\ turn[s].prompt > 0 /\ \A p \in rows : p.id # turn[s].prompt
          /\ \A x \in Socket \ {s} : turn[x].prompt # turn[s].prompt
    /\ turn[s].pc = "commit" => turn[s].victims \cap spoken = {}

\* Where no other charge came after a turn's reading of the balance, the wallet
\* holds what the turn has read less a share for every reply that is settled and
\* what its replies have cost beyond their shares.
Settled(s) == {i \in Model : slot[s][i].pc = "done"}
Left(s) == turn[s].bal - Cardinality(Settled(s)) * Share(turn[s].bal, turn[s].n)
Covered(s) == turn[s].bal > 0 /\ s \notin raced => wallet[Account] + overrun[s] >= Left(s)
Funds ==
    /\ raced \subseteq Socket /\ overrun \in [Socket -> Nat]
    /\ OverdraftIsBounded
    /\ \A s \in Socket : Covered(s)

Inv ==
    /\ Sockets /\ Turns /\ Counts /\ Money /\ Rows /\ Funds
    /\ \A s \in Socket : Local(s) /\ Prompt(s)

-----------------------------------------------------------------------------
(* Arithmetic.                                                             *)

LEMMA ShareIs ==
    ASSUME NEW bal \in Int, NEW n \in Nat \ {0}, bal >= 0
    PROVE  Share(bal, n) \in Nat /\ n * Share(bal, n) <= bal
<1>1. PICK d \in Int : d = bal \div n
  OBVIOUS
<1>2. n * d <= bal /\ bal < n * d + n
  BY <1>1
<1>3. d >= 0
  BY <1>2
<1> QED
  BY <1>1, <1>2, <1>3 DEF Share

LEMMA TimesGrows ==
    ASSUME NEW k \in Nat, NEW m \in Nat, k <= m, NEW x \in Nat
    PROVE  k * x <= m * x
<1>1. PICK d \in Nat : m = k + d
  BY m - k \in Nat
<1>2. m * x = k * x + d * x /\ d * x >= 0
  BY <1>1
<1> QED
  BY <1>2

\* With one of n shares still unspent, what is left pays for it.
LEMMA ShareLeft ==
    ASSUME NEW bal \in Int, bal > 0, NEW n \in Nat \ {0}, NEW k \in Nat, k < n
    PROVE  bal - k * Share(bal, n) >= Share(bal, n)
<1>1. PICK x \in Nat : x = Share(bal, n) /\ n * x <= bal
  BY ShareIs
<1>2. (k + 1) * x <= n * x
  BY TimesGrows
<1>3. (k + 1) * x = k * x + x
  OBVIOUS
<1>4. k * x \in Nat /\ n * x \in Nat
  OBVIOUS
<1> QED
  BY <1>1, <1>2, <1>3, <1>4

-----------------------------------------------------------------------------
(* What a step leaves alone.                                               *)

LEMMA LocalKept ==
    ASSUME NEW s \in Socket, Local(s), turn'[s] = turn[s], slot'[s] = slot[s],
           session'[s] = session[s], s \in stop' => s \in asked', s \in asked => s \in asked'
    PROVE  Local(s)'
  BY DEF Local

LEMMA PromptKept ==
    ASSUME NEW s \in Socket, Prompt(s), turn'[s] = turn[s], session'[s] = session[s],
           clock \in Int, clock' \in Int, clock <= clock', turn \in [Socket -> Turn],
           \A p \in rows' : \/ p.id # turn[s].prompt
                            \/ \E q \in rows : q.id = p.id /\ q.role = p.role /\ q.chat = p.chat,
           turn[s].pc = "commit" => turn[s].victims \cap spoken' = {},
           Pending(s) => \A x \in Socket \ {s} : turn'[x].prompt # turn[s].prompt
    PROVE  Prompt(s)'
<1>1. turn[s].prompt \in Int
  BY DEF Turn
<1>2. turn'[s].prompt <= clock'
  BY <1>1 DEF Prompt
<1>3. Pending(s)' <=> Pending(s)
  BY DEF Pending
<1>4. \A p \in rows' : p.id = turn'[s].prompt => p.role = "user" /\ p.chat = session'[s].chat
  BY DEF Prompt
<1>5. Pending(s) => \A p \in rows' : p.id # turn'[s].prompt
  BY DEF Prompt
<1> QED
  BY <1>2, <1>3, <1>4, <1>5 DEF Prompt

\* The rows stay, and no turn gets a prompt.
LEMMA PromptsKept ==
    ASSUME Rows, turn \in [Socket -> Turn], rows' = rows, clock' = clock, spoken' = spoken,
           \A s \in Socket : Prompt(s),
           NEW s \in Socket, \A x \in Socket \ {s} : turn'[x] = turn[x] /\ session'[x] = session[x],
           turn'[s].prompt \in {0, turn[s].prompt}
    PROVE  \A x \in Socket \ {s} : Prompt(x)'
<1> SUFFICES ASSUME NEW x \in Socket \ {s} PROVE Prompt(x)'
  OBVIOUS
<1>1. Prompt(x) /\ clock \in Int
  BY DEF Rows
<1>2. Pending(x) => \A y \in Socket \ {x} : turn'[y].prompt # turn[x].prompt
  <2>1. Pending(x) => turn[x].prompt > 0 /\ \A y \in Socket \ {x} : turn[y].prompt # turn[x].prompt
    BY <1>1 DEF Prompt
  <2>2. turn[x].prompt \in Nat
    BY DEF Turn
  <2> QED
    BY <2>1, <2>2
<1>3. x \in Socket /\ turn'[x] = turn[x] /\ session'[x] = session[x] /\ clock <= clock' /\ clock' \in Int
  BY <1>1
<1>4. turn[x].pc = "commit" => turn[x].victims \cap spoken' = {}
  BY <1>1 DEF Prompt
<1> QED
  BY <1>1, <1>2, <1>3, <1>4, PromptKept

LEMMA FundsKept ==
    ASSUME Turns, Turns', Funds, raced' = raced, overrun' = overrun, wallet' = wallet, wallet \in [{Account} -> Int],
           \A s \in Socket :
              \/ turn'[s].bal <= 0
              \/ turn'[s].bal = turn[s].bal /\ turn'[s].n = turn[s].n /\ slot'[s] = slot[s]
    PROVE  Funds'
<1>1. ASSUME NEW s \in Socket, turn'[s].bal > 0, s \notin raced
      PROVE  wallet[Account] + overrun[s] >= Left(s)'
  <2>1. turn'[s].bal \in Int
    BY DEF Turns, Turn
  <2>2. turn'[s].bal = turn[s].bal /\ turn'[s].n = turn[s].n /\ slot'[s] = slot[s]
    BY <1>1, <2>1
  <2>3. Settled(s)' = Settled(s)
    BY <2>2 DEF Settled
  <2>4. Left(s)' = Left(s)
    BY <2>2, <2>3 DEF Left, Share
  <2> QED
    BY <1>1, <2>2, <2>4 DEF Funds, Covered
<1> QED
  BY <1>1 DEF Funds, Covered, OverdraftIsBounded

\* Only socket s moves.
Alone(s) ==
    \A x \in Socket \ {s} :
        /\ turn'[x] = turn[x] /\ slot'[x] = slot[x] /\ session'[x] = session[x]
        /\ x \in stop' => x \in asked'
        /\ x \in asked => x \in asked'

LEMMA AloneInv ==
    ASSUME Inv, NEW s \in Socket, Alone(s), Sockets', Turns', Counts', Money', Rows', Funds',
           Local(s)', Prompt(s)', \A x \in Socket \ {s} : Prompt(x)'
    PROVE  Inv'
<1>1. ASSUME NEW x \in Socket \ {s} PROVE Local(x)'
  BY LocalKept DEF Alone, Inv
<1> QED
  BY <1>1 DEF Inv

\* Nothing is stored or charged.
Quiet ==
    /\ wallet' = wallet /\ rows' = rows /\ spoken' = spoken /\ clock' = clock
    /\ sold' = sold /\ unit' = unit /\ used'.spend = used.spend

LEMMA QuietKeeps ==
    ASSUME Quiet, Money, Rows
    PROVE  Money' /\ Rows'
<1>1. Money'
  BY DEF Quiet, Money, ChargedIsStored
<1>2. Rows'
  BY DEF Quiet, Rows, RepliesFollowPrompt, Ids
<1> QED
  BY <1>1, <1>2

\* Every turn stays where it is.
LEMMA StillInv ==
    ASSUME Inv, Quiet, raced' = raced, overrun' = overrun,
           turn' = turn, slot' = slot, session' = session, Sockets', Counts',
           \A s \in Socket : (s \in stop' => s \in asked') /\ (s \in asked => s \in asked')
    PROVE  Inv'
<1>1. Money' /\ Rows' /\ Turns'
  BY QuietKeeps DEF Inv, Turns
<1>2. Funds'
  BY DEF Inv, Funds, Covered, OverdraftIsBounded, Left, Settled, Quiet
<1>3. ASSUME NEW s \in Socket PROVE Local(s)'
  BY LocalKept DEF Inv
<1>4. ASSUME NEW s \in Socket PROVE Prompt(s)'
  BY DEF Inv, Prompt, Pending, Quiet
<1> QED
  BY <1>1, <1>2, <1>3, <1>4 DEF Inv

-----------------------------------------------------------------------------
(* The turn ends.                                                          *)

LEMMA NoTurnIs ==
    /\ ChatAssumption /\ BoundAssumption => NoTurn \in Turn
    /\ NoTurn.pc = "idle" /\ NoTurn.prompt = 0 /\ NoTurn.bal = 0
    /\ NoSlot \in Slot /\ NoSlot.pc = "off" /\ NoSlot.why = "none"
    /\ NoSlots \in [Model -> Slot] /\ \A i \in Model : NoSlots[i] = NoSlot
<1>1. BoundAssumption => NoTurn \in Turn
  BY DEF NoTurn, Turn, BoundAssumption, Model
<1>2. NoSlot \in Slot /\ NoSlot.pc = "off" /\ NoSlot.why = "none"
  BY DEF NoSlot, Slot
<1> QED
  BY <1>1, <1>2 DEF NoTurn, NoSlots

LEMMA EndInv ==
    ASSUME Inv, NEW s \in Socket, NEW answer, EndTurn(s, answer), Quiet,
           raced' = raced, overrun' = overrun, Sockets', Counts',
           \A x \in Socket \ {s} : session'[x] = session[x],
           \A x \in Socket : (x \in stop' => x \in asked') /\ (x \in asked => x \in asked')
    PROVE  Inv'
<1>1. /\ turn' \in [Socket -> Turn] /\ slot' \in [Socket -> [Model -> Slot]]
      /\ turn'[s] = NoTurn /\ slot'[s] = NoSlots
      /\ \A x \in Socket \ {s} : turn'[x] = turn[x] /\ slot'[x] = slot[x]
  BY NoTurnIs, ChatAssumption, BoundAssumption DEF EndTurn, Inv, Turns
<1>2. Alone(s) /\ Turns'
  BY <1>1 DEF Alone, Turns
<1>3. Money' /\ Rows'
  BY QuietKeeps DEF Inv
<1>4. Funds'
  <2>1. ASSUME NEW x \in Socket
        PROVE  \/ turn'[x].bal <= 0
               \/ turn'[x].bal = turn[x].bal /\ turn'[x].n = turn[x].n /\ slot'[x] = slot[x]
    BY <1>1, NoTurnIs
  <2> QED
    BY <1>2, <2>1, FundsKept DEF Inv, Money, Quiet
<1>5. Local(s)'
  BY <1>1, NoTurnIs DEF Local, Late, Paid
<1>6. Prompt(s)'
  <2>1. \A p \in rows : p.id # 0
    BY DEF Inv, Rows
  <2>2. 0 <= clock
    BY DEF Inv, Rows
  <2> QED
    BY <1>1, <2>1, <2>2, NoTurnIs DEF Prompt, Pending, Late, Quiet
<1>7. \A x \in Socket \ {s} : Prompt(x)'
  BY <1>1, <1>2, NoTurnIs, PromptsKept DEF Inv, Turns, Quiet, Alone
<1> QED
  BY <1>2, <1>3, <1>4, <1>5, <1>6, <1>7, AloneInv

-----------------------------------------------------------------------------
(* The loop that reads the socket.                                         *)

\* A bounded thing happens once more; only Spend adds to what was spent.
LEMMA UsedMoves ==
    ASSUME Counts, refused' = refused, pinned' = pinned,
           \/ used' = used
           \/ used.turns < MaxTurns /\ used' = [used EXCEPT !.turns = @ + 1]
           \/ used.failed < MaxFailed /\ used' = [used EXCEPT !.failed = @ + 1]
           \/ used.deaths < MaxDeaths /\ used' = [used EXCEPT !.deaths = @ + 1]
           \/ used.spoken < MaxSpoken /\ used' = [used EXCEPT !.spoken = @ + 1]
    PROVE  Counts' /\ used'.spend = used.spend
<1>1. PICK u \in Used : u = used
  BY DEF Counts, Used
<1>2. /\ MaxTurns \in Nat /\ MaxSpend \in Nat /\ MaxFailed \in Nat
      /\ MaxDeaths \in Nat /\ MaxSpoken \in Nat
  BY BoundAssumption
<1>3. used' \in Used /\ used'.spend = used.spend
  <2>1. CASE used' = used
    BY <1>1, <2>1
  <2>2. CASE u.turns < MaxTurns /\ used' = [u EXCEPT !.turns = @ + 1]
    BY <1>1, <1>2, <2>2 DEF Used
  <2>3. CASE u.failed < MaxFailed /\ used' = [u EXCEPT !.failed = @ + 1]
    BY <1>1, <1>2, <2>3 DEF Used
  <2>4. CASE u.deaths < MaxDeaths /\ used' = [u EXCEPT !.deaths = @ + 1]
    BY <1>1, <1>2, <2>4 DEF Used
  <2>5. CASE u.spoken < MaxSpoken /\ used' = [u EXCEPT !.spoken = @ + 1]
    BY <1>1, <1>2, <2>5 DEF Used
  <2> QED
    BY <1>1, <2>1, <2>2, <2>3, <2>4, <2>5, Zenon
<1> QED
  BY <1>3 DEF Counts, Used

\* stop: the event is set only of a turn that something asked to stop.
LEMMA SetStopIs ==
    ASSUME Inv, NEW s \in Socket, SetStop(s)
    PROVE  /\ stop' \subseteq Socket /\ asked' \subseteq Socket
           /\ \A x \in Socket : (x \in stop' => x \in asked') /\ (x \in asked => x \in asked')
  BY DEF SetStop, Inv, Sockets, Local

LEMMA StopHangupInv ==
    ASSUME Inv, NEW s \in Socket, Stop(s) \/ Hangup(s)
    PROVE  Inv'
<1>1. /\ Quiet /\ turn' = turn /\ slot' = slot /\ session' = session /\ chat' = chat
      /\ online' = online /\ told' = told /\ used' = used
      /\ raced' = raced /\ overrun' = overrun /\ refused' = refused /\ pinned' = pinned
  BY DEF Stop, Hangup, database, history, Quiet
<1>2. SetStop(s)
  BY DEF Stop, Hangup
<1>3. loop' \in [Socket -> {"closed", "reading", "stopping", "closing"}]
  BY DEF Stop, Hangup, Inv, Sockets
<1>4. Sockets'
  BY <1>1, <1>2, <1>3, SetStopIs DEF Inv, Sockets
<1>5. Counts'
  BY <1>1, UsedMoves DEF Inv
<1> QED
  BY <1>1, <1>2, <1>4, <1>5, SetStopIs, StillInv

LEMMA WaitedInv ==
    ASSUME Inv, NEW s \in Socket, Waited(s) \/ Disconnect(s)
    PROVE  Inv'
<1>1. /\ Quiet /\ turn' = turn /\ slot' = slot /\ session' = session /\ chat' = chat
      /\ stop' = stop /\ asked' = asked /\ told' = told /\ used' = used
      /\ raced' = raced /\ overrun' = overrun /\ refused' = refused /\ pinned' = pinned
  BY DEF Waited, Disconnect, database, history, Quiet
<1>2. online' \subseteq Socket /\ loop' \in [Socket -> {"closed", "reading", "stopping", "closing"}]
  BY DEF Waited, Disconnect, Inv, Sockets
<1>3. Sockets'
  BY <1>1, <1>2 DEF Inv, Sockets
<1>4. Counts'
  BY <1>1, UsedMoves DEF Inv
<1>5. \A x \in Socket : x \in stop => x \in asked
  BY DEF Inv, Local
<1> QED
  BY <1>1, <1>3, <1>4, <1>5, StillInv

LEMMA ConnectInv ==
    ASSUME Inv, NEW s \in Socket, NEW c \in Chat \cup {Nil}, Connect(s, c)
    PROVE  Inv'
<1>1. /\ Quiet /\ turn' = turn /\ slot' = slot /\ chat' = chat /\ asked' = asked
      /\ stop' = stop \ {s} /\ told' = told \cup {s} /\ online' = online \cup {s}
      /\ used' = used /\ raced' = raced /\ overrun' = overrun /\ refused' = refused /\ pinned' = pinned
  BY DEF Connect, database, history, Quiet
<1>2. loop' = [loop EXCEPT ![s] = "reading"] /\ turn[s].pc = "idle"
  BY DEF Connect, Busy
<1>3. PICK new : new = IF Exists(c) THEN [chat |-> c, mode |-> chat[c]] ELSE [chat |-> Nil, mode |-> "chat"]
  OBVIOUS
<1>4. new \in [chat : Chat \cup {Nil}, mode : {"chat", "arena"}]
  <2>1. CASE Exists(c)
    <3>1. chat[c] \in {"chat", "arena"}
      BY <2>1 DEF Exists
    <3> QED
      BY <1>3, <2>1, <3>1
  <2>2. CASE ~Exists(c)
    BY <1>3, <2>2
  <2> QED
    BY <2>1, <2>2
<1>5. session' = [session EXCEPT ![s] = new]
  BY <1>3 DEF Connect
<1>6. /\ session' \in [Socket -> [chat : Chat \cup {Nil}, mode : {"chat", "arena"}]]
      /\ \A x \in Socket \ {s} : session'[x] = session[x]
  BY <1>4, <1>5 DEF Inv, Sockets
<1>7. Sockets'
  BY <1>1, <1>2, <1>6 DEF Inv, Sockets
<1>8. Counts' /\ Money' /\ Rows' /\ Turns'
  BY <1>1, UsedMoves, QuietKeeps DEF Inv, Turns
<1>9. Funds'
  BY <1>1 DEF Inv, Funds, Covered, OverdraftIsBounded, Left, Settled, Quiet
<1>10. Alone(s)
  BY <1>1, <1>6 DEF Alone, Inv, Local
<1>11. Local(s)'
  BY <1>1, <1>2 DEF Inv, Local, Late, Paid
<1>12. Prompt(s)'
  <2>1. turn[s].prompt = 0 /\ \A p \in rows : p.id # 0
    BY <1>2 DEF Inv, Prompt, Late, Rows
  <2> QED
    BY <1>1, <1>2, <2>1 DEF Inv, Rows, Prompt, Pending, Late, Quiet
<1>13. \A x \in Socket \ {s} : Prompt(x)'
  BY <1>1, <1>6, PromptsKept DEF Inv, Turns, Quiet
<1> QED
  BY <1>7, <1>8, <1>9, <1>10, <1>11, <1>12, <1>13, AloneInv

LEMMA DiesInv ==
    ASSUME Inv, NEW s \in Socket, ServerDies(s)
    PROVE  Inv'
<1>1. /\ EndTurn(s, TRUE) /\ session' = session /\ chat' = chat /\ stop' = stop /\ asked' = asked
      /\ raced' = raced /\ overrun' = overrun /\ refused' = refused /\ pinned' = pinned
      /\ wallet' = wallet /\ rows' = rows /\ spoken' = spoken /\ clock' = clock /\ sold' = sold /\ unit' = unit
  BY DEF ServerDies, database, history
<1>2. used.deaths < MaxDeaths /\ used' = [used EXCEPT !.deaths = @ + 1]
  BY Zenon DEF ServerDies
<1>3. Counts' /\ Quiet
  BY <1>1, <1>2, UsedMoves DEF Inv, Quiet
<1>4. told' \subseteq Socket
  BY <1>1 DEF EndTurn, Inv, Sockets
<1>5. Sockets'
  BY <1>1, <1>4 DEF ServerDies, Inv, Sockets
<1>6. \A x \in Socket : x \in stop => x \in asked
  BY DEF Inv, Local
<1> QED
  BY <1>1, <1>3, <1>5, <1>6, EndInv

-----------------------------------------------------------------------------
(* run_turn, up to its transaction.                                        *)

\* A turn of socket s moves to a step before the chat is known, and has a
\* balance only if it is about to open the transaction.
LEMMA EarlyInv ==
    ASSUME Inv, NEW s \in Socket, NEW t \in Turn, turn' = [turn EXCEPT ![s] = t], slot' = slot,
           turn[s].pc \notin Late, t.pc \in {"look", "balance", "rewind"}, t.prompt = 0,
           t.pc = "rewind" => t.bal > 0 /\ t.bal <= wallet[Account],
           t.pc # "rewind" => t.bal = 0,
           IF t.pc = "rewind" THEN raced' = raced \ {s} /\ overrun' = [overrun EXCEPT ![s] = 0]
                              ELSE raced' = raced /\ overrun' = overrun,
           Quiet, session' = session, Sockets', Counts',
           \A x \in Socket : (x \in stop' => x \in asked') /\ (x \in Socket \ {s} /\ x \in asked => x \in asked')
    PROVE  Inv'
<1>1. /\ turn' \in [Socket -> Turn] /\ turn'[s] = t
      /\ \A x \in Socket \ {s} : turn'[x] = turn[x]
  BY DEF Inv, Turns
<1>2. Alone(s) /\ Turns'
  BY <1>1 DEF Alone, Inv, Turns
<1>3. Money' /\ Rows'
  BY QuietKeeps DEF Inv
<1>4. slot[s] = NoSlots
  BY DEF Inv, Local, Late
<1>5. Funds'
  <2>1. /\ raced' \subseteq Socket /\ overrun' \in [Socket -> Nat]
        /\ \A x \in Socket \ {s} : overrun'[x] = overrun[x] /\ (x \in raced' <=> x \in raced)
        /\ t.pc = "rewind" => overrun'[s] = 0
    BY DEF Inv, Funds
  <2>2. wallet[Account] \in Int /\ wallet'[Account] = wallet[Account]
    BY DEF Inv, Money, Quiet
  <2>3. OverdraftIsBounded'
    <3>1. CASE t.pc = "rewind"
      <4>1. t.bal \in Int /\ wallet'[Account] > 0
        BY <2>2, <3>1 DEF Turn
      <4> QED
        BY <2>2, <4>1 DEF OverdraftIsBounded
    <3>2. CASE t.pc # "rewind"
      BY <2>2, <3>2 DEF Inv, Funds, OverdraftIsBounded
    <3> QED
      BY <3>1, <3>2
  <2>4. ASSUME NEW x \in Socket PROVE Covered(x)'
    <3>1. CASE x # s
      <4>1. turn'[x] = turn[x] /\ slot'[x] = slot[x]
        BY <1>1, <3>1
      <4>2. Left(x)' = Left(x)
        BY <4>1 DEF Left, Settled
      <4> QED
        BY <2>1, <2>2, <3>1, <4>1, <4>2 DEF Inv, Funds, Covered
    <3>2. CASE x = s /\ turn'[s].bal > 0
      <4>1. Settled(s)' = {}
        BY <1>4, NoTurnIs DEF Settled
      <4>2. Cardinality(Settled(s)') = 0
        BY <4>1, FS_EmptySet
      <4>3. t.pc = "rewind" /\ t.bal > 0 /\ t.bal <= wallet[Account] /\ t.bal \in Int /\ t.n \in Nat \ {0}
        BY <1>1, <3>2, BoundAssumption DEF Turn, Model
      <4>4. Share(t.bal, t.n) \in Nat
        BY <4>3, ShareIs
      <4>5. Left(s)' = t.bal
        BY <1>1, <4>2, <4>3, <4>4 DEF Left
      <4> QED
        BY <2>1, <2>2, <3>2, <4>3, <4>5 DEF Covered
    <3>3. CASE x = s /\ ~(turn'[s].bal > 0)
      BY <3>3 DEF Covered
    <3> QED
      BY <3>1, <3>2, <3>3
  <2> QED
    BY <2>1, <2>3, <2>4 DEF Funds
<1>6. Local(s)'
  BY <1>1, <1>4, NoTurnIs DEF Local, Late, Paid
<1>7. Prompt(s)'
  <2>1. \A p \in rows : p.id # 0
    BY DEF Inv, Rows
  <2>2. 0 <= clock
    BY DEF Inv, Rows
  <2> QED
    BY <1>1, <2>1, <2>2 DEF Prompt, Pending, Late, Quiet
<1>8. \A x \in Socket \ {s} : Prompt(x)'
  BY <1>1, PromptsKept DEF Inv, Turns, Quiet
<1> QED
  BY <1>2, <1>3, <1>5, <1>6, <1>7, <1>8, AloneInv

\* start: the event of the last turn is not the new one's.
LEMMA ReceiveInv ==
    ASSUME Inv, NEW s \in Socket, NEW kind \in Kind, NEW n \in Model, NEW target \in Nat,
           Receive(s, kind, n, target)
    PROVE  Inv'
<1>1. /\ Quiet /\ slot' = slot /\ session' = session /\ chat' = chat /\ online' = online /\ loop' = loop
      /\ stop' = stop \ {s} /\ asked' = asked \ {s} /\ told' = told \ {s}
      /\ raced' = raced /\ overrun' = overrun /\ refused' = refused /\ pinned' = pinned
      /\ turn[s].pc = "idle"
  <2>1. used'.spend = used.spend
    <3>1. used' = [used EXCEPT !.turns = @ + 1]
      BY Zenon DEF Receive
    <3>2. used \in Used
      BY DEF Inv, Counts, Used
    <3> QED
      BY <3>1, <3>2 DEF Used
  <2> QED
    BY <2>1 DEF Receive, database, history, socket, Quiet, FreshStop, Busy
<1>2. used.turns < MaxTurns /\ used' = [used EXCEPT !.turns = @ + 1]
  BY Zenon DEF Receive
<1>3. Counts'
  BY <1>1, <1>2, UsedMoves DEF Inv
<1>4. Sockets'
  BY <1>1 DEF Inv, Sockets
<1>5. kind \in {"send", "edit", "regenerate"}
  BY KindAssumption
<1>6. PICK t : t = [NoTurn EXCEPT !.pc = "look", !.kind = kind, !.n = n, !.target = target]
  OBVIOUS
<1>7. t \in Turn /\ t.pc = "look" /\ t.prompt = 0 /\ t.bal = 0
  <2>1. t = [pc |-> "look", kind |-> kind, n |-> n, target |-> target, bal |-> 0,
             victims |-> {}, prompt |-> 0, created |-> FALSE]
    BY <1>6 DEF NoTurn
  <2> QED
    BY <1>5, <2>1 DEF Turn
<1>8. turn' = [turn EXCEPT ![s] = t]
  BY <1>6 DEF Receive
<1>9. \A x \in Socket : (x \in stop' => x \in asked') /\ (x \in Socket \ {s} /\ x \in asked => x \in asked')
  BY <1>1 DEF Inv, Local
<1> QED
  BY <1>1, <1>3, <1>4, <1>7, <1>8, <1>9, EarlyInv DEF Late

\* What every step of run_turn before the transaction leaves alone.
LEMMA TurnQuiet ==
    ASSUME Inv, NEW s \in Socket, wallet' = wallet, rows' = rows, spoken' = spoken, clock' = clock, chat' = chat,
           online' = online, loop' = loop, session' = session, stop' = stop, asked' = asked,
           told' \in {told, told \cup {s}},
           sold' = sold, unit' = unit, refused' = refused, pinned' = pinned,
           \/ used' = used
           \/ used.failed < MaxFailed /\ used' = [used EXCEPT !.failed = @ + 1]
    PROVE  /\ Quiet /\ Sockets' /\ Counts'
           /\ \A x \in Socket : (x \in stop' => x \in asked') /\ (x \in asked => x \in asked')
<1>1. Counts' /\ used'.spend = used.spend
  BY UsedMoves DEF Inv
<1>2. Quiet
  BY <1>1 DEF Quiet
<1>3. Sockets'
  BY DEF Inv, Sockets
<1>4. \A x \in Socket : x \in stop => x \in asked
  BY DEF Inv, Local
<1> QED
  BY <1>1, <1>2, <1>3, <1>4

LEMMA LookInv ==
    ASSUME Inv, NEW s \in Socket, Look(s)
    PROVE  Inv'
<1>1. /\ wallet' = wallet /\ rows' = rows /\ spoken' = spoken /\ clock' = clock /\ chat' = chat
      /\ online' = online /\ loop' = loop /\ session' = session /\ stop' = stop /\ asked' = asked
      /\ raced' = raced /\ overrun' = overrun /\ sold' = sold /\ unit' = unit /\ refused' = refused /\ pinned' = pinned
      /\ used' = used /\ turn[s].pc = "look"
  BY DEF Look, database, socket, history
<1>2. CASE EndTurn(s, TRUE)
  BY <1>1, <1>2, TurnQuiet, EndInv DEF EndTurn
<1>3. CASE Advance(s, "balance") /\ slot' = slot /\ told' = told
  <2>1. PICK q \in Turn : q = turn[s]
    BY DEF Inv, Turns
  <2>2. PICK t : t = [q EXCEPT !.pc = "balance"]
    OBVIOUS
  <2>3. t \in Turn /\ t.pc = "balance" /\ t.prompt = q.prompt /\ t.bal = q.bal
    BY <2>1, <2>2 DEF Turn
  <2>4. turn' = [turn EXCEPT ![s] = t]
    BY <1>3, <2>1, <2>2 DEF Advance
  <2>5. q.prompt = 0 /\ q.bal = 0
    BY <1>1, <2>1 DEF Inv, Prompt, Local, Late, Paid
  <2> QED
    BY <1>1, <1>3, <2>3, <2>4, <2>5, TurnQuiet, EarlyInv DEF Late
<1> QED
  BY <1>2, <1>3 DEF Look

LEMMA CheckBalanceInv ==
    ASSUME Inv, NEW s \in Socket, CheckBalance(s)
    PROVE  Inv'
<1>1. /\ wallet' = wallet /\ rows' = rows /\ spoken' = spoken /\ clock' = clock /\ chat' = chat
      /\ online' = online /\ loop' = loop /\ session' = session /\ stop' = stop /\ asked' = asked
      /\ sold' = sold /\ unit' = unit /\ refused' = refused /\ pinned' = pinned
      /\ used' = used /\ turn[s].pc = "balance"
  BY DEF CheckBalance, database, socket, history
<1>2. CASE EndTurn(s, TRUE) /\ raced' = raced /\ overrun' = overrun
  BY <1>1, <1>2, TurnQuiet, EndInv DEF EndTurn
<1>3. PICK bal : bal \in Int /\ bal = TurnBalance /\ bal = wallet[Account]
  BY NoWalletAssumption DEF TurnBalance, GetBalance, Inv, Money
<1>4. CASE /\ bal > 0 /\ turn' = [turn EXCEPT ![s].pc = "rewind", ![s].bal = bal]
           /\ raced' = raced \ {s} /\ overrun' = [overrun EXCEPT ![s] = 0]
           /\ slot' = slot /\ told' = told
  <2>1. PICK q \in Turn : q = turn[s]
    BY DEF Inv, Turns
  <2>2. PICK t : t = [[q EXCEPT !.pc = "rewind"] EXCEPT !.bal = bal]
    OBVIOUS
  <2>3. t \in Turn /\ t.pc = "rewind" /\ t.prompt = q.prompt /\ t.bal = bal
    BY <2>1, <2>2, <1>3 DEF Turn
  <2>4. turn' = [turn EXCEPT ![s] = t]
    BY <1>4, <2>1, <2>2 DEF Inv, Turns
  <2>5. q.prompt = 0
    BY <1>1, <2>1 DEF Inv, Prompt, Late
  <2>6. /\ Quiet /\ Sockets' /\ Counts'
        /\ \A x \in Socket : (x \in stop' => x \in asked') /\ (x \in asked => x \in asked')
    BY <1>1, <1>4, TurnQuiet
  <2>7. t.bal > 0 /\ t.bal <= wallet[Account]
    BY <1>3, <1>4, <2>3
  <2> QED
    BY <1>1, <1>4, <2>3, <2>4, <2>5, <2>6, <2>7, EarlyInv DEF Late
<1> QED
  BY <1>2, <1>3, <1>4 DEF CheckBalance

LEMMA FailsInv ==
    ASSUME Inv, NEW s \in Socket, StoreFails(s) \/ TurnRaises(s) \/ CloseTurn(s)
    PROVE  Inv'
<1>1. /\ wallet' = wallet /\ rows' = rows /\ spoken' = spoken /\ clock' = clock /\ chat' = chat
      /\ online' = online /\ loop' = loop /\ session' = session /\ stop' = stop /\ asked' = asked
      /\ raced' = raced /\ overrun' = overrun /\ sold' = sold /\ unit' = unit /\ refused' = refused /\ pinned' = pinned
  BY DEF StoreFails, TurnRaises, CloseTurn, database, socket, history
<1>2. \/ used' = used
      \/ used.failed < MaxFailed /\ used' = [used EXCEPT !.failed = @ + 1]
  BY Zenon DEF StoreFails, TurnRaises, CloseTurn
<1>3. PICK answer : EndTurn(s, answer)
  BY DEF StoreFails, TurnRaises, CloseTurn
<1>4. told' \in {told, told \cup {s}}
  BY <1>3 DEF EndTurn
<1> QED
  BY <1>1, <1>2, <1>3, <1>4, TurnQuiet, EndInv

-----------------------------------------------------------------------------
(* The transaction.                                                        *)

\* A turn goes on in its own chat, with a prompt that is stored or is its own.
LEMMA GoesOn ==
    ASSUME Inv, NEW s \in Socket, NEW t \in Turn, turn' = [turn EXCEPT ![s] = t], slot' = slot,
           turn[s].pc \in {"rewind", "write", "commit"}, t.pc \in {"write", "commit", "budget"},
           t.bal = turn[s].bal, t.n = turn[s].n,
           \A x \in Socket \ {s} : session'[x] = session[x], session'[s].chat \in Chat,
           wallet' = wallet, raced' = raced, overrun' = overrun, stop' = stop, asked' = asked,
           Sockets', Counts', Money', Rows', Prompt(s)', \A x \in Socket \ {s} : Prompt(x)'
    PROVE  Inv'
<1>1. /\ turn' \in [Socket -> Turn] /\ turn'[s] = t
      /\ \A x \in Socket \ {s} : turn'[x] = turn[x]
  BY DEF Inv, Turns
<1>2. Alone(s) /\ Turns'
  BY <1>1 DEF Alone, Inv, Turns, Local
<1>3. Funds'
  BY <1>1, <1>2, FundsKept DEF Inv, Money
<1>4. Local(s)'
  BY <1>1, NoTurnIs DEF Inv, Local, Late, Paid
<1> QED
  BY <1>2, <1>3, <1>4, AloneInv

\* What is read of a chat's messages are identifiers the clock has reached.
LEMMA PromptsAre ==
    ASSUME Rows, NEW c \in Chat
    PROVE  /\ \A p \in Prompts(c) : /\ p \in 1..clock /\ p \in Nat
                                    /\ \A r \in rows : r.id = p => r.role = "user" /\ r.chat = c
           /\ \A t \in Nat : From(c, t) \subseteq Nat /\ RepliesAfter(c, t) \subseteq Nat
  BY DEF Rows, Prompts, Ids, RowsOf, From, RepliesAfter, Row

LEMMA RewindInv ==
    ASSUME Inv, NEW s \in Socket, Rewind(s)
    PROVE  Inv'
<1>1. /\ wallet' = wallet /\ rows' = rows /\ spoken' = spoken /\ clock' = clock
      /\ online' = online /\ loop' = loop /\ stop' = stop /\ asked' = asked
      /\ raced' = raced /\ overrun' = overrun /\ sold' = sold /\ unit' = unit /\ refused' = refused /\ pinned' = pinned
      /\ used' = used /\ turn[s].pc = "rewind"
  BY DEF Rewind, history
<1>2. PICK q \in Turn : q = turn[s]
  BY DEF Inv, Turns
<1>3. PICK new, mode :
          /\ new \in BOOLEAN /\ new = (session[s].chat = Nil)
          /\ mode \in {"chat", "arena"} /\ mode = IF q.n > 1 THEN "arena" ELSE "chat"
  OBVIOUS
<1>4. PICK c \in Chat :
          /\ IF new THEN Fresh(c) ELSE c = session[s].chat
          /\ session' = [session EXCEPT ![s] = IF new THEN [chat |-> c, mode |-> mode] ELSE @]
          /\ \/ /\ chat' = IF new THEN [chat EXCEPT ![c] = mode] ELSE chat
                /\ EndTurn(s, TRUE)
             \/ /\ \E p \in IF q.kind = "regenerate" THEN Last(c) ELSE {0} :
                      turn' = [turn EXCEPT ![s].pc = "write", ![s].created = new,
                                           ![s].prompt = p, ![s].victims = Removed(q, c, p)]
                /\ UNCHANGED <<chat, slot, told>>
  BY ZenonT(60), <1>2, <1>3 DEF Rewind
<1>5. /\ session' \in [Socket -> [chat : Chat \cup {Nil}, mode : {"chat", "arena"}]]
      /\ session'[s].chat = c /\ \A x \in Socket \ {s} : session'[x] = session[x]
  <2>1. CASE new
    BY <1>3, <1>4, <2>1 DEF Inv, Sockets
  <2>2. CASE ~new
    BY <1>3, <1>4, <2>2 DEF Inv, Sockets
  <2> QED
    BY <1>3, <2>1, <2>2
<1>6. Counts' /\ Quiet
  BY <1>1, UsedMoves DEF Inv, Quiet
<1>7. \A x \in Socket : (x \in stop' => x \in asked') /\ (x \in asked => x \in asked')
  BY <1>1 DEF Inv, Local
<1>8. CASE EndTurn(s, TRUE) /\ chat' = IF new THEN [chat EXCEPT ![c] = mode] ELSE chat
  <2>1. chat' \in [Chat -> {"absent", "chat", "arena", "deleted"}] /\ told' \subseteq Socket
    BY <1>3, <1>8 DEF Inv, Sockets, EndTurn
  <2>2. Sockets'
    BY <1>1, <1>5, <2>1 DEF Inv, Sockets
  <2> QED
    BY <1>1, <1>5, <1>6, <1>7, <1>8, <2>2, EndInv
<1>9. ASSUME UNCHANGED <<chat, slot, told>>, NEW p \in IF q.kind = "regenerate" THEN Last(c) ELSE {0},
             turn' = [turn EXCEPT ![s].pc = "write", ![s].created = new,
                                  ![s].prompt = p, ![s].victims = Removed(q, c, p)]
      PROVE  Inv'
  <2>1. /\ p \in Nat /\ p <= clock
        /\ \A r \in rows : r.id = p => r.role = "user" /\ r.chat = c
    <3>1. CASE q.kind = "regenerate"
      BY <3>1, PromptsAre DEF Last, Inv, Rows
    <3>2. CASE q.kind # "regenerate"
      BY <3>2 DEF Inv, Rows
    <3> QED
      BY <3>1, <3>2
  <2>2. PICK victims \in SUBSET Nat : victims = Removed(q, c, p)
    <3>1. q.target \in Nat
      BY DEF Turn
    <3>2. From(c, q.target) \subseteq Nat /\ RepliesAfter(c, p) \subseteq Nat
      BY <2>1, <3>1, PromptsAre DEF Inv
    <3>3. Removed(q, c, p) \in {From(c, q.target), RepliesAfter(c, p), {}}
      BY DEF Removed
    <3> QED
      BY <3>2, <3>3
  <2>3. PICK t : t = [[[[q EXCEPT !.pc = "write"] EXCEPT !.created = new] EXCEPT !.prompt = p] EXCEPT !.victims = victims]
    OBVIOUS
  <2>4. /\ t \in Turn /\ t.pc = "write" /\ t.prompt = p /\ t.bal = q.bal /\ t.n = q.n
    BY <1>3, <2>1, <2>3 DEF Turn
  <2>5. turn' = [turn EXCEPT ![s] = t]
    BY <1>2, <1>9, <2>2, <2>3 DEF Inv, Turns
  <2>6. Sockets'
    BY <1>1, <1>5, <1>9 DEF Inv, Sockets
  <2>7. Money' /\ Rows'
    BY <1>6, QuietKeeps DEF Inv
  <2>8. turn'[s] = t /\ \A x \in Socket \ {s} : turn'[x] = turn[x]
    BY <2>5 DEF Inv, Turns
  <2>9. Prompt(s)'
    BY <1>1, <1>5, <2>1, <2>4, <2>8 DEF Prompt, Pending, Late
  <2>10. \A x \in Socket \ {s} : Prompt(x)'
    <3> SUFFICES ASSUME NEW x \in Socket \ {s} PROVE Prompt(x)'
      OBVIOUS
    <3>1. Pending(x) => \A y \in Socket \ {x} : turn'[y].prompt # turn[x].prompt
      <4>1. ASSUME Pending(x) PROVE p # turn[x].prompt
        <5>1. turn[x].prompt > 0 /\ \A r \in rows : r.id # turn[x].prompt
          BY <4>1 DEF Inv, Prompt
        <5>2. p = 0 \/ \E r \in rows : r.id = p
          BY DEF Last, Prompts, Ids, RowsOf
        <5> QED
          BY <5>1, <5>2
      <4> QED
        BY <2>4, <2>8, <4>1 DEF Inv, Prompt
    <3>2. Prompt(x) /\ clock \in Int /\ turn \in [Socket -> Turn]
      BY DEF Inv, Rows, Turns
    <3>3. turn[x].pc = "commit" => turn[x].victims \cap spoken' = {}
      BY <1>1, <3>2 DEF Prompt
    <3> QED
      BY <1>1, <1>5, <2>8, <3>1, <3>2, <3>3, PromptKept
  <2> QED
    BY <1>1, <1>2, <1>5, <1>6, <1>9, <2>4, <2>5, <2>6, <2>7, <2>9, <2>10, GoesOn
<1> QED
  BY <1>4, <1>8, <1>9

LEMMA WriteInv ==
    ASSUME Inv, NEW s \in Socket, Write(s)
    PROVE  Inv'
<1>1. /\ wallet' = wallet /\ rows' = rows /\ spoken' = spoken /\ chat' = chat
      /\ online' = online /\ loop' = loop /\ session' = session /\ stop' = stop /\ asked' = asked
      /\ raced' = raced /\ overrun' = overrun /\ sold' = sold /\ unit' = unit /\ refused' = refused
      /\ used' = used /\ turn[s].pc = "write"
  BY DEF Write, socket
<1>2. PICK q \in Turn : q = turn[s]
  BY DEF Inv, Turns
<1>3. \A x \in Socket : (x \in stop' => x \in asked') /\ (x \in asked => x \in asked')
  BY <1>1 DEF Inv, Local
<1>4. session'[s].chat \in Chat
  BY <1>1 DEF Inv, Local, Late
<1>5. CASE EndTurn(s, TRUE) /\ clock' = clock /\ pinned' = pinned \cup Bound(s)
  <2>1. Counts'
    BY <1>1, <1>2, <1>5 DEF Inv, Counts, Bound, Turn
  <2>2. Sockets'
    BY <1>1, <1>5 DEF Inv, Sockets, EndTurn
  <2> QED
    BY <1>1, <1>3, <1>5, <2>1, <2>2, EndInv DEF Quiet
<1>6. ASSUME UNCHANGED <<slot, told, pinned>>, q.kind = "regenerate", Bound(s) = {},
             Advance(s, "commit"), clock' = clock
      PROVE  Inv'
  <2>1. PICK t : t = [q EXCEPT !.pc = "commit"]
    OBVIOUS
  <2>2. /\ t \in Turn /\ t.pc = "commit" /\ t.prompt = q.prompt /\ t.bal = q.bal /\ t.n = q.n
        /\ t.kind = q.kind /\ t.victims = q.victims
    BY <2>1 DEF Turn
  <2>3. turn' = [turn EXCEPT ![s] = t]
    BY <1>2, <1>6, <2>1 DEF Advance
  <2>4. turn'[s] = t /\ \A x \in Socket \ {s} : turn'[x] = turn[x]
    BY <2>3 DEF Inv, Turns
  <2>5. Counts' /\ Quiet /\ Sockets'
    BY <1>1, <1>6, UsedMoves DEF Inv, Quiet, Sockets
  <2>6. Money' /\ Rows'
    BY <2>5, QuietKeeps DEF Inv
  <2>7. Prompt(s)'
    BY <1>1, <1>2, <1>6, <2>2, <2>4 DEF Inv, Prompt, Pending, Late, Bound
  <2>8. \A x \in Socket \ {s} : Prompt(x)'
    BY <1>1, <1>2, <1>6, <2>2, <2>4, PromptsKept DEF Inv, Turns
  <2> QED
    BY <1>1, <1>2, <1>3, <1>4, <1>6, <2>2, <2>3, <2>5, <2>6, <2>7, <2>8, GoesOn
<1>7. ASSUME UNCHANGED <<slot, told, pinned>>, Bound(s) = {}, clock' = clock + 1,
             turn' = [turn EXCEPT ![s].pc = "commit", ![s].prompt = clock + 1]
      PROVE  Inv'
  <2>1. PICK new : new = clock + 1 /\ new \in Nat /\ clock \in Nat
    BY DEF Inv, Rows
  <2>2. PICK t : t = [[q EXCEPT !.pc = "commit"] EXCEPT !.prompt = new]
    OBVIOUS
  <2>3. /\ t \in Turn /\ t.pc = "commit" /\ t.prompt = new /\ t.bal = q.bal /\ t.n = q.n
        /\ t.victims = q.victims
    BY <2>1, <2>2 DEF Turn
  <2>4. turn' = [turn EXCEPT ![s] = t]
    BY <1>2, <1>7, <2>1, <2>2 DEF Inv, Turns
  <2>5. turn'[s] = t /\ \A x \in Socket \ {s} : turn'[x] = turn[x]
    BY <2>4 DEF Inv, Turns
  <2>6. Counts' /\ Sockets' /\ Money'
    BY <1>1, <1>7, UsedMoves DEF Inv, Sockets, Money, ChargedIsStored
  <2>7. Rows'
    BY <1>1, <1>7, <2>1 DEF Inv, Rows, RepliesFollowPrompt, Ids
  <2>8. \A p \in rows : p.id # new
    BY <2>1 DEF Inv, Rows
  <2>9. \A x \in Socket \ {s} : turn[x].prompt # new
    BY <2>1 DEF Inv, Prompt, Turns, Turn
  <2>10. Prompt(s)'
    <3>1. turn'[s].prompt = new /\ new <= clock' /\ new > 0
      BY <1>7, <2>1, <2>3, <2>5
    <3>2. turn'[s].pc = "commit" /\ t.victims \cap spoken' = {}
      BY <1>1, <1>2, <1>7, <2>3, <2>5 DEF Bound
    <3>3. \A p \in rows' : p.id # new
      BY <1>1, <2>8
    <3>4. \A x \in Socket \ {s} : turn'[x].prompt # new
      BY <2>5, <2>9
    <3> QED
      BY <2>5, <3>1, <3>2, <3>3, <3>4 DEF Prompt, Pending, Late
  <2>11. ASSUME NEW x \in Socket \ {s} PROVE Prompt(x)'
    <3>1. Prompt(x) /\ turn \in [Socket -> Turn]
      BY DEF Inv, Turns
    <3>2. Pending(x) => \A y \in Socket \ {x} : turn'[y].prompt # turn[x].prompt
      BY <2>3, <2>5, <2>9, <3>1 DEF Prompt
    <3>3. turn[x].pc = "commit" => turn[x].victims \cap spoken' = {}
      BY <1>1, <3>1 DEF Prompt
    <3> QED
      BY <1>1, <1>7, <2>1, <2>5, <3>1, <3>2, <3>3, PromptKept
  <2> QED
    BY <1>1, <1>2, <1>3, <1>4, <1>7, <2>3, <2>4, <2>6, <2>7, <2>10, <2>11, GoesOn
<1> QED
  BY <1>2, <1>5, <1>6, <1>7 DEF Write

\* The rows that stay keep all but the reference to a deleted prompt.
LEMMA WithoutIs ==
    ASSUME Rows, NEW victims
    PROVE  \A r \in Without(victims) :
              /\ r \in Row
              /\ \E q \in rows :
                    /\ q.id \notin victims
                    /\ q.id = r.id /\ q.chat = r.chat /\ q.role = r.role /\ q.model = r.model
                    /\ r.parent = IF q.parent \in victims THEN 0 ELSE q.parent
<1> SUFFICES ASSUME NEW r \in Without(victims)
             PROVE  /\ r \in Row
                    /\ \E q \in rows :
                          /\ q.id \notin victims
                          /\ q.id = r.id /\ q.chat = r.chat /\ q.role = r.role /\ q.model = r.model
                          /\ r.parent = IF q.parent \in victims THEN 0 ELSE q.parent
  OBVIOUS
<1>1. PICK q \in rows : q.id \notin victims /\ r = [q EXCEPT !.parent = IF @ \in victims THEN 0 ELSE @]
  BY DEF Without
<1>2. q \in Row
  BY DEF Rows
<1>3. /\ r \in Row /\ q.id = r.id /\ q.chat = r.chat /\ q.role = r.role /\ q.model = r.model
      /\ r.parent = IF q.parent \in victims THEN 0 ELSE q.parent
  BY <1>1, <1>2 DEF Row
<1> QED
  BY <1>1, <1>3

LEMMA WithoutHas ==
    ASSUME Rows, NEW victims, NEW q \in rows, q.id \notin victims
    PROVE  \E r \in Without(victims) : r.id = q.id /\ r.chat = q.chat /\ r.role = q.role
<1>1. PICK r : r = [q EXCEPT !.parent = IF @ \in victims THEN 0 ELSE @]
  OBVIOUS
<1>2. r \in Without(victims)
  BY <1>1 DEF Without
<1>3. r.id = q.id /\ r.chat = q.chat /\ r.role = q.role
  BY <1>1 DEF Rows, Row
<1> QED
  BY <1>2, <1>3

LEMMA CommitRows ==
    ASSUME Inv, NEW s \in Socket, Commit(s)
    PROVE  /\ Rows'
           /\ \A r \in rows' :
                 \/ \E q \in rows : q.id = r.id /\ q.role = r.role /\ q.chat = r.chat
                 \/ Pending(s) /\ r.id = turn[s].prompt /\ r.role = "user" /\ r.chat = session[s].chat
<1>1. PICK q \in Turn : q = turn[s]
  BY DEF Inv, Turns
<1>2. PICK new : new = [id |-> q.prompt, chat |-> session[s].chat, role |-> "user",
                        parent |-> 0, model |-> 0]
  OBVIOUS
<1>3. /\ rows' = Without(q.victims) \cup IF q.kind = "regenerate" THEN {} ELSE {new}
      /\ spoken' = spoken /\ clock' = clock /\ q.pc = "commit"
  BY <1>1, <1>2 DEF Commit
<1>4. Prompt(s) /\ session[s].chat \in Chat /\ Rows
  BY <1>1, <1>3 DEF Inv, Local, Late
<1>5. new \in Row /\ new.id = q.prompt /\ new.role = "user" /\ new.parent = 0 /\ new.chat = session[s].chat
  BY <1>2, <1>4 DEF Row, Turn
<1>6. Pending(s) <=> q.kind # "regenerate"
  BY <1>1, <1>3 DEF Pending
<1>7. q.kind # "regenerate" => /\ q.prompt \in 1..clock
                               /\ \A p \in rows : p.id # q.prompt
  BY <1>1, <1>4, <1>6 DEF Prompt, Turn, Rows
<1>8. \A r \in rows' :
         \/ r \in Without(q.victims)
         \/ r = new /\ q.kind # "regenerate"
  BY <1>3
<1>9. \A r \in rows' :
         \/ \E p \in rows : p.id = r.id /\ p.role = r.role /\ p.chat = r.chat
         \/ Pending(s) /\ r.id = turn[s].prompt /\ r.role = "user" /\ r.chat = session[s].chat
  BY <1>1, <1>4, <1>5, <1>6, <1>8, WithoutIs
<1>10. rows' \subseteq Row
  BY <1>4, <1>5, <1>8, WithoutIs
<1>11. \A r \in rows' : r.id \in 1..clock'
  BY <1>3, <1>4, <1>5, <1>7, <1>8, WithoutIs DEF Rows
<1>12. \A p, r \in rows' : p.id = r.id => p = r
  <2>1. ASSUME NEW p \in Without(q.victims), NEW r \in Without(q.victims), p.id = r.id PROVE p = r
    <3>1. PICK a \in rows : p = [a EXCEPT !.parent = IF @ \in q.victims THEN 0 ELSE @] /\ a.id = p.id
      BY <1>4 DEF Without, Rows, Row
    <3>2. PICK b \in rows : r = [b EXCEPT !.parent = IF @ \in q.victims THEN 0 ELSE @] /\ b.id = r.id
      BY <1>4 DEF Without, Rows, Row
    <3>3. a = b
      BY <1>4, <2>1, <3>1, <3>2 DEF Rows
    <3> QED
      BY <3>1, <3>2, <3>3
  <2>2. ASSUME NEW p \in Without(q.victims), q.kind # "regenerate" PROVE p.id # new.id
    BY <1>4, <1>5, <1>7, <2>2, WithoutIs
  <2> QED
    BY <1>8, <2>1, <2>2
<1>13. spoken' \subseteq Ids(rows')
  <2> SUFFICES ASSUME NEW m \in spoken PROVE \E r \in rows' : r.id = m
    BY <1>3 DEF Ids
  <2>1. PICK p \in rows : p.id = m
    BY <1>4 DEF Rows, Ids
  <2>2. m \notin q.victims
    BY <1>1, <1>3, <1>4 DEF Prompt
  <2> QED
    BY <1>3, <1>4, <2>1, <2>2, WithoutHas
<1>14. RepliesFollowPrompt'
  <2> SUFFICES ASSUME NEW r \in rows', r.role = "assistant", r.parent # 0
               PROVE  \E p \in rows' : p.id = r.parent /\ p.role = "user" /\ p.chat = r.chat /\ p.id < r.id
    BY DEF RepliesFollowPrompt
  <2>1. r \in Without(q.victims)
    BY <1>5, <1>8
  <2>2. PICK o \in rows : /\ o.id = r.id /\ o.chat = r.chat /\ o.role = r.role
                          /\ r.parent = IF o.parent \in q.victims THEN 0 ELSE o.parent
    BY <1>4, <2>1, WithoutIs
  <2>3. r.parent = o.parent /\ o.parent \notin q.victims
    BY <2>2
  <2>4. PICK p \in rows : p.id = o.parent /\ p.role = "user" /\ p.chat = o.chat /\ p.id < o.id
    BY <1>4, <2>2, <2>3 DEF Rows, RepliesFollowPrompt
  <2>5. PICK k \in Without(q.victims) : k.id = p.id /\ k.chat = p.chat /\ k.role = p.role
    BY <1>4, <2>3, <2>4, WithoutHas
  <2> QED
    BY <1>3, <2>2, <2>3, <2>4, <2>5
<1>15. clock' \in Nat
  BY <1>3, <1>4 DEF Rows
<1> QED
  BY <1>9, <1>10, <1>11, <1>12, <1>13, <1>14, <1>15 DEF Rows

LEMMA CommitInv ==
    ASSUME Inv, NEW s \in Socket, Commit(s)
    PROVE  Inv'
<1>1. /\ wallet' = wallet /\ spoken' = spoken /\ clock' = clock /\ slot' = slot /\ told' = told
      /\ online' = online /\ loop' = loop /\ session' = session /\ stop' = stop /\ asked' = asked
      /\ raced' = raced /\ overrun' = overrun /\ sold' = sold /\ unit' = unit /\ refused' = refused /\ pinned' = pinned
      /\ used' = used /\ turn[s].pc = "commit"
  BY DEF Commit, socket, history
<1>2. PICK q \in Turn : q = turn[s]
  BY DEF Inv, Turns
<1>3. PICK t : t = [q EXCEPT !.pc = "budget"]
  OBVIOUS
<1>4. t \in Turn /\ t.pc = "budget" /\ t.prompt = q.prompt /\ t.bal = q.bal /\ t.n = q.n
  BY <1>3 DEF Turn
<1>5. turn' = [turn EXCEPT ![s] = t]
  BY <1>2, <1>3 DEF Commit, Advance
<1>6. turn'[s] = t /\ \A x \in Socket \ {s} : turn'[x] = turn[x]
  BY <1>5 DEF Inv, Turns
<1>7. /\ Rows'
      /\ \A r \in rows' :
            \/ \E p \in rows : p.id = r.id /\ p.role = r.role /\ p.chat = r.chat
            \/ Pending(s) /\ r.id = turn[s].prompt /\ r.role = "user" /\ r.chat = session[s].chat
  BY CommitRows
<1>8. session[s].chat \in Chat
  BY <1>1 DEF Inv, Local, Late
<1>9. Sockets'
  <2>1. session[s].mode \in {"chat", "arena"}
    BY DEF Inv, Sockets
  <2>2. chat' \in [Chat -> {"absent", "chat", "arena", "deleted"}]
    BY <2>1 DEF Commit, Inv, Sockets
  <2> QED
    BY <1>1, <2>2 DEF Inv, Sockets
<1>10. Counts' /\ Money'
  BY <1>1, UsedMoves DEF Inv, Money, ChargedIsStored
<1>11. Prompt(s)'
  BY <1>1, <1>2, <1>4, <1>6, <1>7 DEF Inv, Prompt, Pending, Late
<1>12. ASSUME NEW x \in Socket \ {s} PROVE Prompt(x)'
  <2>1. Prompt(x) /\ Prompt(s) /\ clock \in Int /\ turn \in [Socket -> Turn]
    BY DEF Inv, Turns, Rows
  <2>2. Pending(x) => \A y \in Socket \ {x} : turn'[y].prompt # turn[x].prompt
    BY <1>2, <1>4, <1>6, <2>1 DEF Prompt
  <2>3. turn[x].pc = "commit" => turn[x].victims \cap spoken' = {}
    BY <1>1, <2>1 DEF Prompt
  <2>4. \A p \in rows' : \/ p.id # turn[x].prompt
                         \/ \E r \in rows : r.id = p.id /\ r.role = p.role /\ r.chat = p.chat
    BY <1>7, <2>1 DEF Prompt
  <2> QED
    BY <1>1, <1>6, <2>1, <2>2, <2>3, <2>4, PromptKept
<1> QED
  BY <1>1, <1>2, <1>4, <1>5, <1>7, <1>8, <1>9, <1>10, <1>11, <1>12, GoesOn

LEMMA BudgetInv ==
    ASSUME Inv, NEW s \in Socket, Budget(s)
    PROVE  Inv'
<1>1. /\ wallet' = wallet /\ rows' = rows /\ spoken' = spoken /\ clock' = clock /\ chat' = chat
      /\ online' = online /\ loop' = loop /\ session' = session /\ stop' = stop /\ asked' = asked
      /\ raced' = raced /\ overrun' = overrun /\ sold' = sold /\ unit' = unit /\ pinned' = pinned
      /\ used' = used /\ turn[s].pc = "budget"
  BY DEF Budget, database, socket
<1>2. PICK q \in Turn : q = turn[s]
  BY DEF Inv, Turns
<1>3. \A x \in Socket : (x \in stop' => x \in asked') /\ (x \in asked => x \in asked')
  BY <1>1 DEF Inv, Local
<1>4. CASE refused' \in {refused, refused \cup q.victims} /\ \E answer \in BOOLEAN : EndTurn(s, answer)
  <2>1. Counts'
    BY <1>1, <1>2, <1>4 DEF Inv, Counts, Turn
  <2>2. Sockets'
    BY <1>1, <1>4 DEF Inv, Sockets, EndTurn
  <2> QED
    BY <1>1, <1>3, <1>4, <2>1, <2>2, EndInv DEF Quiet
<1>5. ASSUME Advance(s, "stream"), told' = told, refused' = refused,
             slot' = [slot EXCEPT ![s] =
                [i \in Model |-> IF i <= turn[s].n THEN [NoSlot EXCEPT !.pc = "stream"] ELSE NoSlot]]
      PROVE  Inv'
  <2>1. PICK t : t = [q EXCEPT !.pc = "stream"]
    OBVIOUS
  <2>2. t \in Turn /\ t.pc = "stream" /\ t.prompt = q.prompt /\ t.bal = q.bal /\ t.n = q.n
    BY <2>1 DEF Turn
  <2>3. turn' = [turn EXCEPT ![s] = t]
    BY <1>2, <1>5, <2>1 DEF Advance
  <2>4. /\ turn' \in [Socket -> Turn] /\ turn'[s] = t
        /\ \A x \in Socket \ {s} : turn'[x] = turn[x]
    BY <2>2, <2>3 DEF Inv, Turns
  <2>5. PICK v : v = [NoSlot EXCEPT !.pc = "stream"]
    OBVIOUS
  <2>6. v \in Slot /\ v.pc = "stream" /\ v.why = "none"
    BY <2>5 DEF NoSlot, Slot
  <2>7. PICK begun : begun = [i \in Model |-> IF i <= q.n THEN v ELSE NoSlot]
    OBVIOUS
  <2>8. /\ begun \in [Model -> Slot]
        /\ \A i \in Model : /\ begun[i].pc # "off" => i <= q.n
                            /\ begun[i].why = "none" /\ begun[i].pc # "done"
    BY <2>6, <2>7, NoTurnIs
  <2>9. slot' = [slot EXCEPT ![s] = begun]
    BY <1>2, <1>5, <2>5, <2>7
  <2>10. /\ slot' \in [Socket -> [Model -> Slot]] /\ slot'[s] = begun
         /\ \A x \in Socket \ {s} : slot'[x] = slot[x]
    BY <2>8, <2>9 DEF Inv, Turns
  <2>11. Alone(s) /\ Turns' /\ Sockets' /\ Counts' /\ Quiet
    BY <1>1, <1>3, <1>5, <2>4, <2>10, UsedMoves DEF Alone, Turns, Inv, Sockets, Quiet
  <2>12. Money' /\ Rows'
    BY <2>11, QuietKeeps DEF Inv
  <2>13. Funds'
    <3>2. ASSUME NEW x \in Socket PROVE turn'[x].bal = turn[x].bal /\ Left(x)' = Left(x)
      <4>1. CASE x # s
        BY <2>4, <2>10, <4>1 DEF Left, Settled
      <4>2. CASE x = s
        <5>1. Settled(s) = {}
          BY <1>1, NoTurnIs DEF Settled, Inv, Local
        <5>2. Settled(s)' = {}
          BY <2>8, <2>10 DEF Settled
        <5> QED
          BY <1>2, <2>2, <2>4, <4>2, <5>1, <5>2 DEF Left
      <4> QED
        BY <4>1, <4>2
    <3> QED
      BY <1>1, <3>2 DEF Inv, Funds, Covered, OverdraftIsBounded
  <2>14. Local(s)'
    BY <1>1, <1>2, <2>2, <2>4, <2>8, <2>10, <1>3 DEF Inv, Local, Late, Paid
  <2>15. Prompt(s)'
    BY <1>1, <1>2, <2>2, <2>4 DEF Inv, Prompt, Pending, Late
  <2>16. \A x \in Socket \ {s} : Prompt(x)'
    BY <1>1, <1>2, <2>2, <2>4, PromptsKept DEF Inv, Turns
  <2> QED
    BY <2>11, <2>12, <2>13, <2>14, <2>15, <2>16, AloneInv
<1> QED
  BY <1>2, <1>4, <1>5 DEF Budget

-----------------------------------------------------------------------------
(* The replies.                                                            *)

LEMMA SettledIs ==
    ASSUME Turns, NEW s \in Socket
    PROVE  IsFiniteSet(Settled(s)) /\ Cardinality(Settled(s)) \in Nat
<1>1. IsFiniteSet(Model)
  BY BoundAssumption, FS_Interval DEF Model
<1>2. Settled(s) \subseteq Model
  BY DEF Settled
<1>3. IsFiniteSet(Settled(s))
  BY <1>1, <1>2, FS_Subset
<1> QED
  BY <1>3, FS_CardinalityType

\* The more replies are settled the less is set aside for the turn.
LEMMA LeftShrinks ==
    ASSUME Turns, Turns', NEW s \in Socket, turn' = turn, turn[s].bal > 0,
           Settled(s) \subseteq Settled(s)'
    PROVE  Left(s) \in Int /\ Left(s)' \in Int /\ Left(s)' <= Left(s)
<1>1. PICK q \in Turn : q = turn[s]
  BY DEF Turns
<1>2. q.bal \in Int /\ q.n \in Nat \ {0}
  BY BoundAssumption DEF Turn, Model
<1>3. PICK x \in Nat : x = Share(q.bal, q.n)
  <2>1. q.bal >= 0
    BY <1>1, <1>2
  <2>2. Share(q.bal, q.n) \in Nat
    BY <1>2, <2>1, ShareIs
  <2> QED
    BY <2>2
<1>4. PICK k \in Nat : k = Cardinality(Settled(s))
  BY SettledIs
<1>5. IsFiniteSet(Settled(s)')
  <2>1. IsFiniteSet(Model)
    BY BoundAssumption, FS_Interval DEF Model
  <2>2. Settled(s)' \subseteq Model
    BY DEF Settled
  <2> QED
    BY <2>1, <2>2, FS_Subset
<1>6. PICK m \in Nat : m = Cardinality(Settled(s)')
  BY <1>5, FS_CardinalityType
<1>7. k <= m
  BY <1>4, <1>5, <1>6, FS_Subset
<1>8. k * x <= m * x /\ k * x \in Int /\ m * x \in Int
  BY <1>7, TimesGrows
<1>9. Left(s) = q.bal - k * x /\ Left(s)' = q.bal - m * x
  BY <1>1, <1>3, <1>4, <1>6 DEF Left, Share
<1> QED
  BY <1>2, <1>8, <1>9

\* One reply that is under way moves on; a stop or a failed send is asked for.
LEMMA SlotInv ==
    ASSUME Inv, NEW s \in Socket, NEW i \in Model, NEW v \in Slot,
           slot' = [slot EXCEPT ![s][i] = v], turn' = turn, slot[s][i].pc \notin {"off", "done"},
           v.why = "interrupted" => s \in asked',
           \A x \in Socket : (x \in stop' => x \in asked') /\ (x \in asked => x \in asked'),
           Quiet, raced' = raced, overrun' = overrun, session' = session, Sockets', Counts'
    PROVE  Inv'
<1>1. /\ slot' \in [Socket -> [Model -> Slot]] /\ slot'[s][i] = v
      /\ \A x \in Socket \ {s} : slot'[x] = slot[x]
      /\ \A j \in Model \ {i} : slot'[s][j] = slot[s][j]
  BY DEF Inv, Turns
<1>2. Alone(s) /\ Turns'
  BY <1>1 DEF Alone, Inv, Turns
<1>3. Money' /\ Rows'
  BY QuietKeeps DEF Inv
<1>4. turn[s].pc = "stream"
  BY NoTurnIs DEF Inv, Local
<1>5. Funds'
  <2>1. ASSUME NEW x \in Socket, turn[x].bal > 0, x \notin raced
        PROVE  wallet[Account] + overrun[x] >= Left(x)'
    <3>1. Settled(x) \subseteq Settled(x)'
      BY <1>1 DEF Settled
    <3>2. Left(x) \in Int /\ Left(x)' \in Int /\ Left(x)' <= Left(x)
      BY <1>2, <2>1, <3>1, LeftShrinks DEF Inv
    <3>3. wallet[Account] \in Int /\ overrun[x] \in Nat
      BY DEF Inv, Money, Funds
    <3>4. wallet[Account] + overrun[x] >= Left(x)
      BY <2>1 DEF Inv, Funds, Covered
    <3> QED
      BY <3>2, <3>3, <3>4
  <2> QED
    BY <2>1 DEF Inv, Funds, Covered, OverdraftIsBounded, Quiet
<1>6. Local(s)'
  BY <1>1, <1>4 DEF Inv, Local, Late, Paid
<1>7. Prompt(s)'
  BY DEF Inv, Prompt, Pending, Quiet
<1>8. \A x \in Socket \ {s} : Prompt(x)'
  BY DEF Inv, Prompt, Pending, Quiet
<1> QED
  BY <1>2, <1>3, <1>5, <1>6, <1>7, <1>8, AloneInv

LEMMA GenerateInv ==
    ASSUME Inv, NEW s \in Socket, NEW i \in Model,
           \/ Chunk(s, i) \/ StreamEnds(s, i) \/ StreamStops(s, i) \/ StreamFails(s, i)
           \/ StreamTimesOut(s, i) \/ Empty(s, i) \/ RecordFails(s, i)
    PROVE  Inv'
<1>1. /\ wallet' = wallet /\ rows' = rows /\ spoken' = spoken /\ clock' = clock /\ chat' = chat
      /\ online' = online /\ loop' = loop /\ session' = session /\ turn' = turn /\ told' = told
      /\ raced' = raced /\ overrun' = overrun /\ sold' = sold /\ unit' = unit /\ refused' = refused /\ pinned' = pinned
  BY DEF Chunk, StreamEnds, StreamStops, StreamFails, StreamTimesOut, Empty, RecordFails,
         database, socket, history
<1>2. \/ used' = used
      \/ used.failed < MaxFailed /\ used' = [used EXCEPT !.failed = @ + 1]
  BY Zenon DEF Chunk, StreamEnds, StreamStops, StreamFails, StreamTimesOut, Empty, RecordFails
<1>3. Counts' /\ Quiet
  BY <1>1, <1>2, UsedMoves DEF Inv, Quiet
<1>4. PICK v \in Slot : v = slot[s][i]
  BY DEF Inv, Turns
<1>5. \A x \in Socket : x \in stop => x \in asked
  BY DEF Inv, Local
<1>6. v.why = "interrupted" => s \in asked
  BY <1>4 DEF Inv, Local
<1>7. /\ \A x \in Socket : (x \in stop' => x \in asked') /\ (x \in asked => x \in asked')
      /\ stop' \subseteq Socket /\ asked' \subseteq Socket
  BY <1>5 DEF Chunk, StreamEnds, StreamStops, StreamFails, StreamTimesOut, Empty, RecordFails,
              Inv, Sockets
<1>8. Sockets'
  BY <1>1, <1>7 DEF Inv, Sockets
<1>9. v.pc \notin {"off", "done"}
  BY <1>4 DEF Chunk, StreamEnds, StreamStops, StreamFails, StreamTimesOut, Empty, RecordFails
<1>10. CASE slot' = [slot EXCEPT ![s][i].text = TRUE]
  <2>1. PICK w : w = [v EXCEPT !.text = TRUE]
    OBVIOUS
  <2>2. w \in Slot /\ w.why = v.why
    BY <2>1 DEF Slot
  <2>3. slot' = [slot EXCEPT ![s][i] = w]
    BY <1>4, <1>10, <2>1
  <2> QED
    BY <1>1, <1>3, <1>4, <1>6, <1>7, <1>8, <1>9, <2>2, <2>3, SlotInv
<1>11. ASSUME slot' = [slot EXCEPT ![s][i] = [pc |-> "ended", text |-> TRUE, why |-> "interrupted"]],
              asked' = asked \cup {s}
       PROVE  Inv'
  <2>1. [pc |-> "ended", text |-> TRUE, why |-> "interrupted"] \in Slot
    BY DEF Slot
  <2> QED
    BY <1>1, <1>3, <1>4, <1>7, <1>8, <1>9, <1>11, <2>1, SlotInv
<1>12. ASSUME NEW why \in {"finished", "failed", "interrupted"}, Ended(s, i, why),
              why = "interrupted" => s \in asked'
       PROVE  Inv'
  <2>1. PICK w : w = [[v EXCEPT !.pc = "ended"] EXCEPT !.why = why]
    OBVIOUS
  <2>2. w \in Slot /\ w.why = why
    BY <2>1 DEF Slot
  <2>3. slot' = [slot EXCEPT ![s][i] = w]
    BY <1>4, <1>12, <2>1 DEF Ended, Inv, Turns
  <2> QED
    BY <1>1, <1>3, <1>4, <1>7, <1>8, <1>9, <1>12, <2>2, <2>3, SlotInv
<1>13. CASE slot' = [slot EXCEPT ![s][i].pc = "done"]
  <2>1. PICK w : w = [v EXCEPT !.pc = "done"]
    OBVIOUS
  <2>2. w \in Slot /\ w.why = v.why
    BY <2>1 DEF Slot
  <2>3. slot' = [slot EXCEPT ![s][i] = w]
    BY <1>4, <1>13, <2>1
  <2> QED
    BY <1>1, <1>3, <1>4, <1>6, <1>7, <1>8, <1>9, <2>2, <2>3, SlotInv
<1>14. CASE Chunk(s, i)
  BY <1>10, <1>11, <1>14 DEF Chunk
<1>15. CASE StreamEnds(s, i)
  BY <1>5, <1>12, <1>15 DEF StreamEnds
<1>16. CASE StreamStops(s, i)
  BY <1>5, <1>12, <1>16 DEF StreamStops, Stopped
<1>17. CASE StreamFails(s, i) \/ StreamTimesOut(s, i)
  BY <1>12, <1>17 DEF StreamFails, StreamTimesOut
<1>18. CASE Empty(s, i) \/ RecordFails(s, i)
  BY <1>13, <1>18 DEF Empty, RecordFails
<1> QED
  BY <1>14, <1>15, <1>16, <1>17, <1>18

\* A reply is charged within its share, and follows the prompt of its turn.
LEMMA RecordReplyInv ==
    ASSUME Inv, NEW s \in Socket, NEW i \in Model, NEW c \in Cost, RecordReply(s, i, c)
    PROVE  Inv'
<1>1. /\ spoken' = spoken /\ clock' = clock + 1 /\ chat' = chat
      /\ online' = online /\ loop' = loop /\ session' = session /\ stop' = stop /\ asked' = asked
      /\ turn' = turn /\ told' = told /\ refused' = refused /\ pinned' = pinned /\ used' = used
      /\ sold' = sold + c /\ slot[s][i].pc = "ended"
  BY DEF RecordReply, socket
<1>2. c \in Nat /\ c > 0
  BY CostAssumption
<1>3. wallet' \in [{Account} -> Int] /\ wallet'[Account] = wallet[Account] - c
  BY <1>2 DEF RecordReply, Charge, Debit, Inv, Money
<1>4. Money'
  <2>1. unit' \in Nat
    BY <1>2 DEF RecordReply, Inv, Money
  <2>2. used.spend \in Int /\ Opening \in Int /\ wallet[Account] \in Int /\ sold \in Nat
    BY CostAssumption, BoundAssumption DEF Inv, Counts, Used, Money
  <2> QED
    BY <1>1, <1>2, <1>3, <2>1, <2>2 DEF Inv, Money, ChargedIsStored
<1>5. PICK q \in Turn : q = turn[s]
  BY DEF Inv, Turns
<1>6. PICK new : new = [id |-> clock + 1, chat |-> session[s].chat, role |-> "assistant",
                        parent |-> q.prompt, model |-> i]
  OBVIOUS
<1>7. rows' = rows \cup {new}
  BY <1>5, <1>6 DEF RecordReply, Parent
<1>8. turn[s].pc = "stream"
  BY <1>1, NoTurnIs DEF Inv, Local
<1>9. /\ new \in Row /\ new.id = clock + 1 /\ new.chat = session[s].chat /\ new.role = "assistant"
      /\ new.parent = q.prompt
  BY <1>6, <1>8 DEF Inv, Local, Late, Rows, Row, Turn
<1>10. Rows'
  <2>1. rows' \subseteq Row /\ clock' \in Nat
    BY <1>1, <1>7, <1>9 DEF Inv, Rows
  <2>2. \A p, r \in rows' : p.id = r.id => p = r
    BY <1>7, <1>9 DEF Inv, Rows
  <2>3. \A r \in rows' : r.id \in 1..clock'
    BY <1>1, <1>7, <1>9 DEF Inv, Rows
  <2>4. spoken' \subseteq Ids(rows')
    BY <1>1, <1>7 DEF Inv, Rows, Ids
  <2>5. \E p \in rows : p.id = new.parent /\ p.role = "user" /\ p.chat = new.chat /\ p.id < new.id
    <3>1. PICK p \in rows : p.id = q.prompt
      BY <1>5 DEF RecordReply, CanStore, Ids
    <3>2. p.role = "user" /\ p.chat = session[s].chat
      BY <1>5, <3>1 DEF Inv, Prompt
    <3>3. p.id < clock + 1
      BY DEF Inv, Rows
    <3> QED
      BY <1>9, <3>1, <3>2, <3>3
  <2>6. RepliesFollowPrompt'
    BY <1>7, <1>9, <2>5 DEF Inv, Rows, RepliesFollowPrompt
  <2> QED
    BY <2>1, <2>2, <2>3, <2>4, <2>6 DEF Rows
<1>11. PICK v \in Slot : v = slot[s][i]
  BY DEF Inv, Turns
<1>12. PICK w : w = [v EXCEPT !.pc = "done"]
  OBVIOUS
<1>13. w \in Slot /\ w.pc = "done" /\ w.why = v.why
  BY <1>12 DEF Slot
<1>14. slot' = [slot EXCEPT ![s][i] = w]
  BY <1>11, <1>12 DEF RecordReply
<1>15. /\ slot' \in [Socket -> [Model -> Slot]] /\ slot'[s][i] = w
       /\ \A x \in Socket \ {s} : slot'[x] = slot[x]
       /\ \A j \in Model \ {i} : slot'[s][j] = slot[s][j]
  BY <1>13, <1>14 DEF Inv, Turns
<1>16. Turns' /\ Sockets' /\ Counts'
  BY <1>1, <1>15 DEF Inv, Turns, Sockets, Counts
<1>17. Alone(s)
  BY <1>1, <1>15 DEF Alone, Inv, Local
<1>18. Funds'
  <2>1. q.bal \in Int /\ q.bal > 0 /\ q.n \in Nat \ {0} /\ q.n \in Model
    BY <1>5, <1>8, BoundAssumption DEF Inv, Local, Late, Paid, Turn, Model
  <2>2. PICK k \in Nat : k = Cardinality(Settled(s))
    BY SettledIs DEF Inv
  <2>3. wallet[Account] \in Int /\ overrun[s] \in Nat
    BY DEF Inv, Money, Funds
  <2>4. PICK x \in Nat : x = Share(q.bal, q.n)
    <3>1. q.bal >= 0
      BY <2>1
    <3>2. Share(q.bal, q.n) \in Nat
      BY <2>1, <3>1, ShareIs
    <3> QED
      BY <3>2
  <2>5. PICK e \in Nat : e = Beyond(s, c) /\ c <= x + e
    BY <1>2, <1>5, <2>4 DEF Beyond
  <2>6. i \notin Settled(s)
    BY <1>1 DEF Settled
  <2>7. Settled(s)' = Settled(s) \cup {i}
    BY <1>13, <1>15 DEF Settled
  <2>8. Cardinality(Settled(s)') = k + 1
    BY <2>2, <2>6, <2>7, SettledIs, FS_AddElement DEF Inv
  <2>9. k < q.n
    <3>1. Settled(s) \cup {i} \subseteq 1..q.n
      <4>1. \A j \in Model : slot[s][j].pc # "off" => j <= q.n
        BY <1>5 DEF Inv, Local
      <4>2. \A j \in Model : j \in Int /\ 1 <= j
        BY BoundAssumption DEF Model
      <4> QED
        BY <1>1, <2>1, <4>1, <4>2 DEF Settled
    <3>2. IsFiniteSet(1..q.n) /\ Cardinality(1..q.n) = q.n
      <4>1. PICK n \in Int : n = q.n /\ ~(1 > n) /\ n - 1 + 1 = n
        BY <2>1
      <4>2. 1 \in Int
        OBVIOUS
      <4>3. IsFiniteSet(1..n) /\ Cardinality(1..n) = IF 1 > n THEN 0 ELSE n - 1 + 1
        BY <4>2, FS_Interval, Zenon
      <4> QED
        BY <4>1, <4>3
    <3>3. Cardinality(Settled(s) \cup {i}) <= q.n
      BY <3>1, <3>2, FS_Subset
    <3> QED
      BY <2>1, <2>7, <2>8, <3>3
  <2>10. q.bal - k * x >= x
    BY <2>1, <2>2, <2>4, <2>9, ShareLeft
  <2>11. k * x \in Int /\ (k + 1) * x = k * x + x
    BY <2>2, <2>4
  <2>12. Left(s) = q.bal - k * x /\ Left(s)' = q.bal - (k + 1) * x
    BY <1>1, <1>5, <2>2, <2>4, <2>8 DEF Left, Share
  <2>13. Left(s)' >= 0
    BY <2>1, <2>2, <2>4, <2>10, <2>11, <2>12
  <2>14. /\ raced' = raced \cup (Reckoning \ {s}) /\ Reckoning \subseteq Socket
         /\ overrun' = [overrun EXCEPT ![s] = @ + e]
    BY <2>5 DEF RecordReply, Reckoning
  <2>15. /\ raced' \subseteq Socket /\ overrun' \in [Socket -> Nat]
         /\ overrun'[s] = overrun[s] + e /\ (s \in raced' <=> s \in raced)
    BY <2>5, <2>14 DEF Inv, Funds
  <2>16. s \notin raced => wallet'[Account] + overrun'[s] >= Left(s)'
    <3> SUFFICES ASSUME s \notin raced
                 PROVE  wallet'[Account] + overrun'[s] >= Left(s)'
      OBVIOUS
    <3>1. wallet[Account] + overrun[s] >= Left(s)
      BY <1>5, <2>1 DEF Inv, Funds, Covered
    <3>2. Left(s)' = Left(s) - x /\ Left(s) \in Int
      BY <2>1, <2>2, <2>4, <2>11, <2>12
    <3> QED
      BY <1>2, <1>3, <2>3, <2>5, <2>15, <3>1, <3>2
  <2>17. OverdraftIsBounded'
    <3>1. s \in raced' \/ wallet'[Account] + overrun'[s] >= 0
      <4>1. Left(s)' \in Int /\ wallet'[Account] \in Int /\ overrun'[s] \in Int
        BY <1>3, <2>1, <2>2, <2>4, <2>11, <2>12, <2>15
      <4> QED
        BY <2>13, <2>15, <2>16, <4>1
    <3> QED
      BY <3>1 DEF OverdraftIsBounded
  <2>18. ASSUME NEW y \in Socket PROVE Covered(y)'
    <3>1. CASE y = s
      BY <2>15, <2>16, <3>1 DEF Covered
    <3>2. CASE y # s
      BY <1>1, <2>14, <3>2 DEF Covered, Reckoning
    <3> QED
      BY <3>1, <3>2
  <2> QED
    BY <2>15, <2>17, <2>18 DEF Funds
<1>19. Local(s)'
  BY <1>1, <1>8, <1>11, <1>13, <1>15 DEF Inv, Local, Late, Paid
<1>20. ASSUME NEW x \in Socket PROVE Prompt(x)'
  <2>1. Prompt(x) /\ clock \in Nat /\ turn \in [Socket -> Turn] /\ turn[x].prompt \in Nat
    BY DEF Inv, Turns, Rows, Turn
  <2>2. \A r \in rows' : \/ r.id # turn[x].prompt
                         \/ \E p \in rows : p.id = r.id /\ p.role = r.role /\ p.chat = r.chat
    BY <1>7, <1>9, <2>1 DEF Prompt
  <2>3. turn[x].pc = "commit" => turn[x].victims \cap spoken' = {}
    BY <1>1, <2>1 DEF Prompt
  <2>4. Pending(x) => \A y \in Socket \ {x} : turn'[y].prompt # turn[x].prompt
    BY <1>1, <2>1 DEF Prompt
  <2> QED
    BY <1>1, <2>1, <2>2, <2>3, <2>4, PromptKept
<1> QED
  BY <1>4, <1>10, <1>16, <1>17, <1>18, <1>19, <1>20, AloneInv

-----------------------------------------------------------------------------
(* What happens around the sockets.                                        *)

LEMMA DeleteChatInv ==
    ASSUME Inv, NEW c \in Chat, DeleteChat(c)
    PROVE  Inv'
<1>1. /\ wallet' = wallet /\ spoken' = spoken /\ clock' = clock
      /\ online' = online /\ loop' = loop /\ session' = session /\ stop' = stop /\ asked' = asked
      /\ turn' = turn /\ slot' = slot /\ told' = told /\ raced' = raced /\ overrun' = overrun /\ sold' = sold /\ unit' = unit
      /\ refused' = refused /\ used' = used
  BY DEF DeleteChat, socket
<1>2. rows' \in {rows, rows \ RowsOf(c)} /\ (rows' # rows => Ids(RowsOf(c)) \cap spoken = {})
  BY DEF DeleteChat
<1>3. Rows'
  <2>1. CASE rows' = rows
    BY <1>1, <2>1 DEF Inv, Rows, RepliesFollowPrompt, Ids
  <2>2. CASE rows' = rows \ RowsOf(c) /\ Ids(RowsOf(c)) \cap spoken = {}
    <3>1. spoken' \subseteq Ids(rows')
      BY <1>1, <2>2 DEF Inv, Rows, Ids
    <3>2. RepliesFollowPrompt'
      BY <2>2 DEF Inv, Rows, RepliesFollowPrompt, RowsOf
    <3> QED
      BY <1>1, <2>2, <3>1, <3>2 DEF Inv, Rows
  <2> QED
    BY <1>2, <2>1, <2>2
<1>4. Sockets'
  <2>1. chat' \in [Chat -> {"absent", "chat", "arena", "deleted"}]
    BY DEF DeleteChat, Inv, Sockets
  <2> QED
    BY <1>1, <2>1 DEF Inv, Sockets
<1>5. Counts'
  <2>1. Ids(RowsOf(c)) \subseteq Nat
    BY DEF Inv, Rows, Row, Ids, RowsOf
  <2>2. pinned' \subseteq Nat
    BY <2>1 DEF DeleteChat, Inv, Counts
  <2> QED
    BY <1>1, <2>2 DEF Inv, Counts
<1>6. Money' /\ Turns' /\ Funds'
  BY <1>1 DEF Inv, Money, ChargedIsStored, Turns, Funds, Covered, OverdraftIsBounded, Left, Settled
<1>7. ASSUME NEW s \in Socket PROVE Local(s)'
  BY <1>1 DEF Inv, Local
<1>8. ASSUME NEW s \in Socket PROVE Prompt(s)'
  BY <1>1, <1>2 DEF Inv, Prompt, Pending
<1> QED
  BY <1>3, <1>4, <1>5, <1>6, <1>7, <1>8 DEF Inv

LEMMA ReadAloudInv ==
    ASSUME Inv, NEW r \in rows, ReadAloud(r.id)
    PROVE  Inv'
<1>1. /\ wallet' = wallet /\ rows' = rows /\ clock' = clock /\ chat' = chat
      /\ online' = online /\ loop' = loop /\ session' = session /\ stop' = stop /\ asked' = asked
      /\ turn' = turn /\ slot' = slot /\ told' = told /\ raced' = raced /\ overrun' = overrun /\ sold' = sold /\ unit' = unit
      /\ refused' = refused /\ pinned' = pinned
      /\ spoken' = spoken \cup {r.id} /\ r.id \notin Doomed
  BY DEF ReadAloud, socket, history
<1>2. used.spoken < MaxSpoken /\ used' = [used EXCEPT !.spoken = @ + 1]
  BY Zenon DEF ReadAloud
<1>3. Counts' /\ used'.spend = used.spend
  BY <1>1, <1>2, UsedMoves DEF Inv
<1>4. Sockets' /\ Turns' /\ Money' /\ Funds'
  BY <1>1, <1>3 DEF Inv, Sockets, Turns, Money, ChargedIsStored, Funds, Covered,
                   OverdraftIsBounded, Left, Settled
<1>5. Rows'
  BY <1>1 DEF Inv, Rows, RepliesFollowPrompt, Ids
<1>6. ASSUME NEW s \in Socket PROVE Local(s)'
  BY <1>1 DEF Inv, Local
<1>7. ASSUME NEW s \in Socket PROVE Prompt(s)'
  <2>1. turn[s].pc = "commit" => r.id \notin turn[s].victims
    BY <1>1 DEF Doomed
  <2> QED
    BY <1>1, <2>1 DEF Inv, Prompt, Pending
<1> QED
  BY <1>3, <1>4, <1>5, <1>6, <1>7 DEF Inv

\* A charge by a media endpoint races with every turn that has read the balance.
LEMMA SpendInv ==
    ASSUME Inv, NEW a \in Cost, Spend(a)
    PROVE  Inv'
<1>1. /\ rows' = rows /\ clock' = clock /\ chat' = chat /\ spoken' = spoken
      /\ online' = online /\ loop' = loop /\ session' = session /\ stop' = stop /\ asked' = asked
      /\ turn' = turn /\ slot' = slot /\ told' = told /\ sold' = sold /\ unit' = unit
      /\ refused' = refused /\ pinned' = pinned
  BY DEF Spend, socket
<1>2. used.spend + a <= MaxSpend /\ used' = [used EXCEPT !.spend = @ + a]
  BY Zenon DEF Spend
<1>3. a \in Nat /\ a > 0
  BY CostAssumption
<1>4. /\ wallet' \in [{Account} -> Int] /\ wallet'[Account] = wallet[Account] - a
      /\ wallet[Account] >= a
  BY <1>3 DEF Spend, Debit, CanDebit, Inv, Money
<1>5. PICK u \in Used : u = used
  BY DEF Inv, Counts, Used
<1>6. used' \in Used /\ used'.spend = used.spend + a
  <2>1. MaxSpend \in Nat /\ u.spend \in Nat
    BY <1>5, BoundAssumption DEF Used
  <2>2. used' = [u EXCEPT !.spend = @ + a]
    BY <1>2, <1>5
  <2> QED
    BY <1>2, <1>3, <1>5, <2>1, <2>2 DEF Used
<1>8. Counts'
  BY <1>1, <1>6 DEF Inv, Counts, Used
<1>9. Money'
  <2>1. used.spend \in Int /\ Opening \in Int /\ wallet[Account] \in Int
    BY <1>5, CostAssumption, BoundAssumption DEF Inv, Money, Used
  <2> QED
    BY <1>1, <1>3, <1>4, <1>6, <2>1 DEF Inv, Money, ChargedIsStored
<1>10. Sockets' /\ Turns' /\ Rows'
  BY <1>1 DEF Inv, Sockets, Turns, Rows, RepliesFollowPrompt, Ids
<1>11. Funds'
  <2>1. wallet'[Account] >= 0
    BY <1>3, <1>4 DEF Inv, Money
  <2>2. overrun' = overrun /\ raced' = raced \cup Reckoning
    BY DEF Spend
  <2>3. \A s \in Socket : turn'[s].bal > 0 => s \in raced'
    BY <1>1, <2>2 DEF Reckoning
  <2>4. \A s \in Socket : Covered(s)'
    BY <2>3 DEF Covered
  <2>5. OverdraftIsBounded'
    BY <1>4, <2>1 DEF OverdraftIsBounded
  <2> QED
    BY <2>2, <2>4, <2>5 DEF Inv, Funds, Reckoning
<1>12. ASSUME NEW s \in Socket PROVE Local(s)' /\ Prompt(s)'
  BY <1>1 DEF Inv, Local, Prompt, Pending
<1> QED
  BY <1>8, <1>9, <1>10, <1>11, <1>12 DEF Inv

-----------------------------------------------------------------------------
(* The specification.                                                      *)

LEMMA InitInv == Init => Inv
<1> SUFFICES ASSUME Init PROVE Inv
  OBVIOUS
<1>1. Sockets
  BY ChatAssumption DEF Init, Sockets
<1>2. Turns
  BY NoTurnIs, ChatAssumption, BoundAssumption DEF Init, Turns
<1>3. Counts
  <2>1. /\ MaxTurns \in Nat /\ MaxSpend \in Nat /\ MaxFailed \in Nat
        /\ MaxDeaths \in Nat /\ MaxSpoken \in Nat
    BY BoundAssumption
  <2>2. used \in Used
    BY <2>1 DEF Init, Used
  <2> QED
    BY <2>2 DEF Init, Counts, Used
<1>4. Money
  BY CostAssumption DEF Init, Money, ChargedIsStored
<1>5. Rows
  BY DEF Init, Rows, RepliesFollowPrompt, Ids
<1>6. Funds
  BY NoTurnIs, CostAssumption DEF Init, Funds, Covered, OverdraftIsBounded
<1>7. ASSUME NEW s \in Socket PROVE Local(s) /\ Prompt(s)
  BY NoTurnIs DEF Init, Local, Prompt, Pending, Late, Paid
<1> QED
  BY <1>1, <1>2, <1>3, <1>4, <1>5, <1>6, <1>7 DEF Inv

LEMMA StutterInv ==
    ASSUME Inv, UNCHANGED vars
    PROVE  Inv'
<1>1. /\ Quiet /\ turn' = turn /\ slot' = slot /\ session' = session /\ chat' = chat
      /\ online' = online /\ loop' = loop /\ stop' = stop /\ asked' = asked /\ told' = told
      /\ used' = used /\ raced' = raced /\ overrun' = overrun /\ refused' = refused /\ pinned' = pinned
  BY DEF vars, Quiet
<1>2. Sockets'
  BY <1>1 DEF Inv, Sockets
<1>3. Counts'
  BY <1>1, UsedMoves DEF Inv
<1>4. \A s \in Socket : (s \in stop' => s \in asked') /\ (s \in asked => s \in asked')
  BY <1>1 DEF Inv, Local
<1> QED
  BY <1>1, <1>2, <1>3, <1>4, StillInv

LEMMA StepInv ==
    ASSUME Inv, [Next]_vars
    PROVE  Inv'
<1>1. ASSUME NEW s \in Socket, Endpoint(s) PROVE Inv'
  <2>1. ASSUME NEW k \in Kind, NEW n \in Model,
               NEW t \in IF k = "edit" THEN 1..clock ELSE {0}, Receive(s, k, n, t)
        PROVE  Inv'
    <3>1. t \in Nat
      BY DEF Inv, Rows
    <3> QED
      BY <2>1, <3>1, ReceiveInv
  <2> QED
    BY <1>1, <2>1, StopHangupInv, WaitedInv, DiesInv, ConnectInv DEF Endpoint
<1>2. ASSUME NEW s \in Socket, Generate(s) PROVE Inv'
  BY <1>2, GenerateInv, RecordReplyInv DEF Generate
<1>3. ASSUME NEW s \in Socket, RunTurn(s) PROVE Inv'
  BY <1>2, <1>3, LookInv, CheckBalanceInv, RewindInv, WriteInv, CommitInv, FailsInv, BudgetInv
     DEF RunTurn
<1> QED
  BY <1>1, <1>3, DeleteChatInv, ReadAloudInv, SpendInv, StutterInv DEF Next

\* What every step relies on: a turn's prompt is its chat's, and what is left
\* of the wallet pays for the replies the turn still owes.
THEOREM InvHolds == Spec => []Inv
<1>1. Init => Inv
  BY InitInv
<1>2. Inv /\ [Next]_vars => Inv'
  BY StepInv
<1> QED
  BY <1>1, <1>2, PTL DEF Spec

LEMMA RowsAreKeyed ==
    ASSUME Rows
    PROVE  Cardinality(Ids(rows)) = Cardinality(rows)
<1>1. Ids(rows) \subseteq 1..clock /\ 1 \in Int /\ clock \in Int
  BY DEF Rows, Ids
<1>2. IsFiniteSet(1..clock)
  BY <1>1, FS_Interval, Zenon
<1>3. IsFiniteSet(Ids(rows))
  BY <1>1, <1>2, FS_Subset
<1>4. PICK f : f = [r \in rows |-> r.id]
  OBVIOUS
<1>5. f \in Injection(rows, Ids(rows))
  BY <1>4 DEF Injection, IsInjective, Rows, Ids
<1>6. f \in Surjection(rows, Ids(rows))
  BY <1>4 DEF Surjection, Ids
<1>7. Cardinality(rows) = Cardinality(Ids(rows))
  BY <1>3, <1>5, <1>6, FS_Injection
<1> QED
  BY <1>7

LEMMA InvIsTyped == Inv => TypeOK
<1> SUFFICES ASSUME Inv PROVE TypeOK
  OBVIOUS
<1>1. wallet \in [{Account} -> Balance] /\ {sold, unit} \subseteq Nat
  BY DEF Inv, Money, Balance
<1>2. /\ rows \subseteq Row /\ Cardinality(Ids(rows)) = Cardinality(rows)
      /\ clock \in Nat /\ \A r \in rows : r.id \in 1..clock
      /\ spoken \subseteq Ids(rows)
  BY RowsAreKeyed DEF Inv, Rows
<1> QED
  BY <1>1, <1>2 DEF Inv, Sockets, Turns, Counts, Used, Funds, TypeOK

\* The account's rows, its sockets, their turns and replies keep their types;
\* no two messages have one identifier.
THEOREM TypesHold == Spec => []TypeOK
  BY InvIsTyped, InvHolds, PTL

\* _record_reply: what is missing in the wallet is the price of replies that
\* were stored, and of media.
THEOREM ChargesAreStored == Spec => []ChargedIsStored
<1>1. Inv => ChargedIsStored
  BY DEF Inv, Money
<1> QED
  BY <1>1, InvHolds, PTL

\* ChatSession.start and stop: a reply is interrupted only where its own turn
\* was asked to stop, however many turns the socket has run before.
THEOREM StopsHitTheirTurn == Spec => []InterruptedOnlyIfAsked
<1>1. Inv => InterruptedOnlyIfAsked
  BY DEF Inv, Local, InterruptedOnlyIfAsked
<1> QED
  BY <1>1, InvHolds, PTL

\* truncate_from, delete_replies_after and _record_reply: a reply that has a
\* prompt follows it in its own chat, whatever other sockets delete meanwhile.
THEOREM RepliesAreAnswers == Spec => []RepliesFollowPrompt
<1>1. Inv => RepliesFollowPrompt
  BY DEF Inv, Rows
<1> QED
  BY <1>1, InvHolds, PTL

\* plan_budget and _record_reply: the wallet is overdrawn only by a turn that
\* somebody else's charge has overtaken, or by no more than what the replies of
\* one turn cost beyond their shares, for any sockets, models and prices.
THEOREM OverdraftIsExplained == Spec => []OverdraftIsBounded
<1>1. Inv => OverdraftIsBounded
  BY DEF Inv, Funds
<1> QED
  BY <1>1, InvHolds, PTL

-----------------------------------------------------------------------------
(* From one socket, a chat is a Conversation.                              *)

\* A deleted chat has no messages, and a prompt answers nothing.
NoOrphans == \A c \in Chat : ~Exists(c) => RowsOf(c) = {}
Roots == \A r \in rows : r.role = "user" => r.parent = 0

\* What the open transaction has selected is still what its request is about,
\* or its chat is gone.
Selected(t, c) ==
    \/ t.kind = "send" /\ t.victims = {}
    \/ t.kind = "edit" /\ t.target \in Prompts(c) /\ t.victims = From(c, t.target)
    \/ t.kind = "regenerate" /\ t.prompt \in Last(c) /\ t.victims = RepliesAfter(c, t.prompt)
    \/ t.kind # "send" /\ ~Exists(c) /\ t.victims \cap Ids(rows) = {}

One(s) ==
    LET t == turn[s]
        c == session[s].chat IN
    /\ NoOrphans /\ Roots
    /\ t.pc \in {"write", "commit"} =>
          /\ t.created => t.kind = "send" /\ chat[c] = "absent"
          /\ Selected(t, c)
    /\ Pending(s) => (t.created \/ Exists(c)) /\ \A r \in RowsOf(c) : r.id < t.prompt
    /\ t.pc \in {"budget", "stream"} =>
          \A r \in RowsOf(c) : r.role = "user" => r.id <= t.prompt

\* The turn stays where it is, or is not where its rows matter.
LEMMA OneKept ==
    ASSUME NEW s, One(s), chat' = chat, rows' = rows,
           \/ turn'[s] = turn[s] /\ session'[s] = session[s]
           \/ turn'[s].pc \notin Late
           \/ /\ turn[s].pc = "budget" /\ turn'[s].pc = "stream" /\ turn'[s].prompt = turn[s].prompt
              /\ session'[s] = session[s]
    PROVE  One(s)'
<1>1. \A c : (Exists(c)' <=> Exists(c)) /\ RowsOf(c)' = RowsOf(c)
  BY DEF Exists, RowsOf
<1>2. \A c : Prompts(c)' = Prompts(c)
  BY <1>1 DEF Prompts, Ids
<1>3. NoOrphans' /\ Roots'
  BY <1>1 DEF One, NoOrphans, Roots
<1>4. CASE turn'[s] = turn[s] /\ session'[s] = session[s]
  <2>1. \A t, c : Selected(t, c)' <=> Selected(t, c)
    BY <1>1, <1>2 DEF Selected, From, Last, RepliesAfter, Ids
  <2> QED
    BY <1>1, <1>3, <1>4, <2>1 DEF One, Pending
<1>5. CASE turn'[s].pc \notin Late
  BY <1>3, <1>5 DEF One, Pending, Late
<1>6. CASE /\ turn[s].pc = "budget" /\ turn'[s].pc = "stream" /\ turn'[s].prompt = turn[s].prompt
           /\ session'[s] = session[s]
  BY <1>1, <1>3, <1>6 DEF One, Pending
<1> QED
  BY <1>4, <1>5, <1>6

\* Most steps show nothing of themselves in the chat.
Unseen(s) ==
    \/ Stop(s) \/ Waited(s) \/ Disconnect(s) \/ Hangup(s) \/ ServerDies(s)
    \/ \E c \in Chat \cup {Nil} : Connect(s, c)
    \/ \E k \in Kind, n \in Model :
          \E t \in IF k = "edit" THEN 1..clock ELSE {0} : Receive(s, k, n, t)
    \/ Look(s) \/ CheckBalance(s) \/ StoreFails(s) \/ Budget(s) \/ CloseTurn(s) \/ TurnRaises(s)
    \/ \E i \in Model :
          \/ Chunk(s, i) \/ StreamEnds(s, i) \/ StreamStops(s, i) \/ StreamFails(s, i)
          \/ StreamTimesOut(s, i) \/ Empty(s, i) \/ RecordFails(s, i)
    \/ \E r \in rows : ReadAloud(r.id)
    \/ \E a \in Cost : Spend(a)
    \/ UNCHANGED vars

LEMMA UnseenStep ==
    ASSUME Inv, NEW s \in Socket, One(s), Unseen(s)
    PROVE  One(s)' /\ UNCHANGED <<chat, rows>>
<1>1. turn \in [Socket -> Turn]
  BY DEF Inv, Turns
<1>2. chat' = chat /\ rows' = rows
  BY DEF Unseen, Stop, Waited, Disconnect, Hangup, ServerDies, Connect, Receive, Look, CheckBalance,
         StoreFails, Budget, CloseTurn, TurnRaises, Chunk, StreamEnds, StreamStops, StreamFails,
         StreamTimesOut, Empty, RecordFails, ReadAloud, Spend, database, vars
<1>3. NoTurn.pc \notin Late
  BY DEF NoTurn, Late
<1>4. ASSUME NEW answer, EndTurn(s, answer) PROVE turn'[s].pc \notin Late
  BY <1>1, <1>3, <1>4 DEF EndTurn
<1>5. CASE StoreFails(s) \/ CloseTurn(s) \/ TurnRaises(s) \/ ServerDies(s)
  BY <1>2, <1>4, <1>5, OneKept DEF StoreFails, CloseTurn, TurnRaises, ServerDies
<1>6. CASE Look(s)
  <2>1. CASE Advance(s, "balance")
    BY <1>1, <1>2, <2>1, OneKept DEF Advance, Late, Turn
  <2> QED
    BY <1>2, <1>4, <1>6, <2>1, OneKept DEF Look
<1>7. CASE CheckBalance(s)
  <2>1. ASSUME NEW bal, turn' = [turn EXCEPT ![s].pc = "rewind", ![s].bal = bal]
        PROVE  turn'[s].pc = "rewind"
    BY <1>1, <2>1 DEF Turn
  <2> QED
    BY <1>2, <1>4, <1>7, <2>1, OneKept DEF CheckBalance, Late
<1>8. CASE Budget(s)
  <2>1. CASE Advance(s, "stream")
    <3>1. turn[s].pc = "budget" /\ session' = session
      BY <1>8 DEF Budget, socket
    <3>2. turn'[s].pc = "stream" /\ turn'[s].prompt = turn[s].prompt
      BY <1>1, <2>1 DEF Advance, Turn
    <3> QED
      BY <1>2, <3>1, <3>2, OneKept
  <2> QED
    BY <1>2, <1>4, <1>8, <2>1, OneKept DEF Budget
<1>9. ASSUME NEW c, Connect(s, c) PROVE One(s)'
  BY <1>2, <1>9, OneKept DEF Connect, Busy, Late
<1>10. ASSUME NEW k, NEW n, NEW t, Receive(s, k, n, t) PROVE One(s)'
  <2>1. turn'[s] = [NoTurn EXCEPT !.pc = "look", !.kind = k, !.n = n, !.target = t]
    BY <1>1, <1>10 DEF Receive
  <2>2. turn'[s].pc = "look"
    BY <2>1 DEF NoTurn
  <2> QED
    BY <1>2, <2>2, OneKept DEF Late
<1>11. CASE turn' = turn /\ session' = session
  BY <1>2, <1>11, OneKept
<1> QED
  BY <1>2, <1>5, <1>6, <1>7, <1>8, <1>9, <1>10, <1>11
     DEF Unseen, Stop, Waited, Disconnect, Hangup, Chunk, StreamEnds, StreamStops, StreamFails,
         StreamTimesOut, Empty, RecordFails, ReadAloud, Spend, socket, vars

LEMMA RewindStep ==
    ASSUME Inv, NEW s \in Socket, One(s), Rewind(s)
    PROVE  One(s)' /\ [Conv!Next]_(Conv!vars)
<1>1. rows' = rows /\ turn[s].pc = "rewind"
  BY DEF Rewind
<1>2. PICK q \in Turn : q = turn[s]
  BY DEF Inv, Turns
<1>3. PICK new, mode :
          /\ new \in BOOLEAN /\ new = (session[s].chat = Nil)
          /\ mode \in {"chat", "arena"} /\ mode = IF q.n > 1 THEN "arena" ELSE "chat"
  OBVIOUS
<1>4. PICK c \in Chat :
          /\ IF new THEN Fresh(c) ELSE c = session[s].chat
          /\ session' = [session EXCEPT ![s] = IF new THEN [chat |-> c, mode |-> mode] ELSE @]
          /\ \/ /\ chat' = IF new THEN [chat EXCEPT ![c] = mode] ELSE chat
                /\ EndTurn(s, TRUE)
             \/ /\ q.kind = "edit" => q.target \in Prompts(c)
                /\ \E p \in IF q.kind = "regenerate" THEN Last(c) ELSE {0} :
                      turn' = [turn EXCEPT ![s].pc = "write", ![s].created = new,
                                           ![s].prompt = p, ![s].victims = Removed(q, c, p)]
                /\ UNCHANGED <<chat, slot, told>>
  BY ZenonT(60), <1>2, <1>3 DEF Rewind
<1>5. session'[s].chat = c
  BY <1>3, <1>4 DEF Inv, Sockets
<1>6. new => chat[c] = "absent"
  BY <1>4 DEF Fresh
<1>7. CASE EndTurn(s, TRUE) /\ chat' = IF new THEN [chat EXCEPT ![c] = mode] ELSE chat
  <2>1. turn'[s].pc \notin Late
    BY <1>7 DEF EndTurn, NoTurn, Late, Inv, Turns
  <2>2. CASE ~new
    <3>1. chat' = chat
      BY <1>7, <2>2
    <3>2. One(s)'
      BY <1>1, <2>1, <3>1, OneKept
    <3> QED
      BY <1>1, <3>1, <3>2 DEF Conv!vars
  <2>3. CASE new
    <3>1. chat' = [chat EXCEPT ![c] = mode] /\ chat[c] = "absent"
      BY <1>6, <1>7, <2>3
    <3>2. /\ chat'[c] \in {"chat", "arena"}
          /\ \A d \in Chat \ {c} : chat'[d] = chat[d]
      BY <1>3, <3>1 DEF Inv, Sockets
    <3>3. NoOrphans' /\ Roots'
      BY <1>1, <3>2, ChatAssumption DEF One, NoOrphans, Roots, Exists, RowsOf
    <3>4. One(s)'
      BY <2>1, <3>3 DEF One, Pending, Late
    <3>5. Conv!OpenEmpty(c)
      BY <1>1, <1>3, <3>1 DEF Conv!OpenEmpty, Conv!Opened
    <3> QED
      BY <3>4, <3>5 DEF Conv!Next
  <2> QED
    BY <1>3, <2>2, <2>3
<1>8. ASSUME UNCHANGED <<chat, slot, told>>, q.kind = "edit" => q.target \in Prompts(c),
             NEW p \in IF q.kind = "regenerate" THEN Last(c) ELSE {0},
             turn' = [turn EXCEPT ![s].pc = "write", ![s].created = new,
                                  ![s].prompt = p, ![s].victims = Removed(q, c, p)]
      PROVE  One(s)' /\ [Conv!Next]_(Conv!vars)
  <2>1. PICK v : v = Removed(q, c, p)
    OBVIOUS
  <2>2. PICK t : t = [[[[q EXCEPT !.pc = "write"] EXCEPT !.created = new] EXCEPT !.prompt = p] EXCEPT !.victims = v]
    OBVIOUS
  <2>3. turn'[s] = t
    BY <1>2, <1>8, <2>1, <2>2 DEF Inv, Turns
  <2>4. /\ t.pc = "write" /\ t.created = new /\ t.prompt = p /\ t.victims = v
        /\ t.kind = q.kind /\ t.target = q.target
    BY <2>2 DEF Turn
  <2>5. q.kind \in {"send", "edit", "regenerate"}
    BY DEF Turn
  <2>6. \A x, d : Selected(x, d)' <=> Selected(x, d)
    BY <1>1, <1>8 DEF Selected, From, Last, RepliesAfter, Prompts, RowsOf, Ids, Exists
  <2>7. Selected(t, c)
    <3>1. CASE q.kind = "send"
      BY <2>1, <2>4, <3>1 DEF Selected, Removed
    <3>2. CASE q.kind = "edit"
      BY <1>8, <2>1, <2>4, <3>2 DEF Selected, Removed
    <3>3. CASE q.kind = "regenerate"
      BY <1>8, <2>1, <2>4, <3>3 DEF Selected, Removed
    <3> QED
      BY <2>5, <3>1, <3>2, <3>3
  <2>8. t.created => t.kind = "send" /\ chat[c] = "absent"
    <3> SUFFICES ASSUME new PROVE q.kind = "send" /\ chat[c] = "absent"
      BY <2>4
    <3>1. RowsOf(c) = {}
      BY <1>6 DEF One, NoOrphans, Exists
    <3>2. Prompts(c) = {}
      BY <3>1 DEF Prompts, Ids
    <3> QED
      BY <1>6, <1>8, <2>5, <3>2 DEF Last
  <2>9. NoOrphans' /\ Roots'
    BY <1>1, <1>8 DEF One, NoOrphans, Roots, Exists, RowsOf
  <2>10. One(s)'
    BY <1>5, <1>8, <2>3, <2>4, <2>6, <2>7, <2>8, <2>9 DEF One, Pending
  <2> QED
    BY <1>1, <1>8, <2>10 DEF Conv!vars
<1> QED
  BY <1>4, <1>7, <1>8

LEMMA WriteStep ==
    ASSUME Inv, NEW s \in Socket, One(s), Write(s)
    PROVE  One(s)' /\ UNCHANGED <<chat, rows>>
<1>1. chat' = chat /\ rows' = rows /\ session' = session /\ turn[s].pc = "write"
  BY DEF Write, socket
<1>2. PICK q \in Turn : q = turn[s]
  BY DEF Inv, Turns
<1>3. \A x, d : Selected(x, d)' <=> Selected(x, d)
  BY <1>1 DEF Selected, From, Last, RepliesAfter, Prompts, RowsOf, Ids, Exists
<1>4. NoOrphans' /\ Roots'
  BY <1>1 DEF One, NoOrphans, Roots, Exists, RowsOf
<1>5. /\ q.created => q.kind = "send" /\ chat[session[s].chat] = "absent"
      /\ Selected(q, session[s].chat)
  BY <1>1, <1>2 DEF One
<1>6. CASE EndTurn(s, TRUE)
  <2>1. turn'[s].pc \notin Late
    BY <1>6 DEF EndTurn, NoTurn, Late, Inv, Turns
  <2> QED
    BY <1>1, <2>1, OneKept
<1>7. CASE q.kind = "regenerate" /\ Advance(s, "commit")
  <2>1. turn'[s] = [q EXCEPT !.pc = "commit"]
    BY <1>2, <1>7 DEF Advance, Inv, Turns
  <2>2. PICK t : t = turn'[s]
    OBVIOUS
  <2>3. /\ t.pc = "commit" /\ t.kind = q.kind /\ t.created = q.created
        /\ t.victims = q.victims /\ t.target = q.target /\ t.prompt = q.prompt
    BY <2>1, <2>2 DEF Turn
  <2>4. Selected(t, session[s].chat)
    BY <1>5, <2>3 DEF Selected
  <2> QED
    BY <1>1, <1>3, <1>4, <1>5, <1>7, <2>2, <2>3, <2>4 DEF One, Pending
<1>8. ASSUME q.kind # "regenerate", q.created \/ Exists(session[s].chat),
             turn' = [turn EXCEPT ![s].pc = "commit", ![s].prompt = clock + 1]
      PROVE  One(s)'
  <2>1. PICK next : next = clock + 1 /\ clock \in Nat /\ \A r \in rows : r.id < next
    BY DEF Inv, Rows
  <2>2. PICK t : t = [[q EXCEPT !.pc = "commit"] EXCEPT !.prompt = next]
    OBVIOUS
  <2>3. turn'[s] = t
    BY <1>2, <1>8, <2>1, <2>2 DEF Inv, Turns
  <2>4. /\ t.pc = "commit" /\ t.kind = q.kind /\ t.created = q.created
        /\ t.victims = q.victims /\ t.target = q.target /\ t.prompt = next
    BY <2>2 DEF Turn
  <2>5. Selected(t, session[s].chat)
    BY <1>5, <1>8, <2>4 DEF Selected
  <2>6. \A r \in RowsOf(session[s].chat) : r.id < next
    BY <2>1 DEF RowsOf
  <2>7. (Exists(session[s].chat)' <=> Exists(session[s].chat)) /\ RowsOf(session[s].chat)' = RowsOf(session[s].chat)
    BY <1>1 DEF Exists, RowsOf
  <2> QED
    BY <1>1, <1>3, <1>4, <1>5, <1>8, <2>3, <2>4, <2>5, <2>6, <2>7 DEF One, Pending
<1> QED
  BY <1>1, <1>2, <1>6, <1>7, <1>8 DEF Write

\* Where no row that stays refers to one that goes, the rest is left as it was.
LEMMA WithoutUnreferred ==
    ASSUME Rows, NEW victims, \A r \in rows : r.id \notin victims /\ r.parent # 0 => r.parent \notin victims
    PROVE  Without(victims) = {r \in rows : r.id \notin victims}
<1>1. ASSUME NEW r \in rows, r.id \notin victims
      PROVE  [r EXCEPT !.parent = IF @ \in victims THEN 0 ELSE @] = r
  <2>1. r.parent \in victims => r.parent = 0
    BY <1>1
  <2>2. r \in Row
    BY DEF Rows
  <2> QED
    BY <2>1, <2>2 DEF Row
<1>2. \A r \in Without(victims) : r \in rows /\ r.id \notin victims
  BY <1>1 DEF Without
<1>3. \A r \in rows : r.id \notin victims => r \in Without(victims)
  BY <1>1 DEF Without
<1> QED
  BY <1>2, <1>3

\* What a transaction removes is removed with every reply that refers to it.
LEMMA SelectedIsClosed ==
    ASSUME Rows, Roots, NEW t \in Turn, NEW c \in Chat, Selected(t, c)
    PROVE  \A r \in rows : r.id \notin t.victims /\ r.parent # 0 => r.parent \notin t.victims
<1> SUFFICES ASSUME NEW r \in rows, r.id \notin t.victims, r.parent # 0, r.parent \in t.victims
             PROVE  FALSE
  OBVIOUS
<1>1. r.role = "assistant"
  BY DEF Roots, Rows, Row
<1>2. PICK p \in rows : p.id = r.parent /\ p.role = "user" /\ p.chat = r.chat /\ p.id < r.id
  BY <1>1 DEF Rows, RepliesFollowPrompt
<1>3. CASE t.kind = "edit" /\ t.victims = From(c, t.target)
  <2>1. PICK x \in rows : x.chat = c /\ x.id = p.id /\ x.id >= t.target
    BY <1>2, <1>3 DEF From, RowsOf, Ids
  <2>2. x = p
    BY <2>1 DEF Rows
  <2>3. r.chat = c /\ r.id >= t.target
    <3>1. r.id \in Int /\ p.id \in Int /\ t.target \in Int
      BY DEF Rows, Row, Turn
    <3> QED
      BY <1>2, <2>1, <2>2, <3>1
  <2>4. r.id \in From(c, t.target)
    BY <2>3 DEF From, RowsOf, Ids
  <2> QED
    BY <1>3, <2>4
<1>4. CASE t.victims = RepliesAfter(c, t.prompt)
  <2>1. PICK x \in rows : x.role = "assistant" /\ x.id = p.id
    BY <1>2, <1>4 DEF RepliesAfter, RowsOf
  <2>2. x = p
    BY <2>1 DEF Rows
  <2> QED
    BY <1>2, <2>1, <2>2
<1>5. CASE t.victims \cap Ids(rows) = {}
  BY <1>2, <1>5 DEF Ids
<1>6. CASE t.victims = {}
  BY <1>6
<1> QED
  BY <1>3, <1>4, <1>5, <1>6 DEF Selected

LEMMA CommitOne ==
    ASSUME Inv, NEW s \in Socket, One(s), Commit(s)
    PROVE  One(s)'
<1>1. session' = session /\ turn[s].pc = "commit"
  BY DEF Commit, socket
<1>2. PICK q \in Turn : q = turn[s]
  BY DEF Inv, Turns
<1>3. PICK c \in Chat : c = session[s].chat
  BY <1>1 DEF Inv, Local, Late
<1>4. /\ \A r \in rows' :
            \/ \E p \in rows : p.id = r.id /\ p.role = r.role /\ p.chat = r.chat
            \/ Pending(s) /\ r.id = q.prompt /\ r.role = "user" /\ r.chat = c
      /\ Rows'
  BY <1>2, <1>3, CommitRows
<1>5. /\ q.created => q.kind = "send" /\ chat[c] = "absent"
      /\ Selected(q, c)
      /\ Pending(s) => (q.created \/ Exists(c)) /\ \A r \in RowsOf(c) : r.id < q.prompt
      /\ NoOrphans /\ Roots
  BY <1>1, <1>2, <1>3 DEF One
<1>6. chat' = IF q.created THEN [chat EXCEPT ![c] = session[s].mode] ELSE chat
  BY <1>2, <1>3 DEF Commit
<1>7. /\ \A d \in Chat \ {c} : chat'[d] = chat[d]
      /\ q.created => chat'[c] \in {"chat", "arena"}
      /\ ~q.created => chat'[c] = chat[c]
  <2>1. session[s].mode \in {"chat", "arena"} /\ chat \in [Chat -> {"absent", "chat", "arena", "deleted"}]
    BY DEF Inv, Sockets
  <2> QED
    BY <1>6, <2>1
<1>8. NoOrphans'
  <2> SUFFICES ASSUME NEW d \in Chat, NEW r \in rows', r.chat = d PROVE Exists(d)'
    BY DEF NoOrphans, RowsOf
  <2>1. CASE Pending(s) /\ d = c
    BY <1>5, <1>7, <2>1, ChatAssumption DEF Exists
  <2>2. CASE \E p \in rows : p.chat = d
    <3>1. Exists(d)
      BY <1>5, <2>2 DEF NoOrphans, RowsOf
    <3>2. q.created => d # c
      BY <1>5, <3>1 DEF Exists
    <3> QED
      BY <1>7, <3>1, <3>2 DEF Exists
  <2> QED
    BY <1>4, <2>1, <2>2
<1>9. Roots'
  <2> SUFFICES ASSUME NEW r \in rows', r.role = "user" PROVE r.parent = 0
    BY DEF Roots
  <2>1. CASE r \in Without(q.victims)
    BY <1>5, <2>1, WithoutIs DEF Inv, Roots
  <2>2. CASE r = [id |-> q.prompt, chat |-> session[s].chat, role |-> "user", parent |-> 0, model |-> 0]
    BY <2>2
  <2> QED
    BY <1>2, <2>1, <2>2 DEF Commit
<1>10. turn'[s].pc = "budget" /\ turn'[s].prompt = q.prompt
  BY <1>2 DEF Commit, Advance, Inv, Turns, Turn
<1>11. \A r \in rows' : r.chat = c /\ r.role = "user" => r.id <= q.prompt
  <2> SUFFICES ASSUME NEW r \in rows', r.chat = c, r.role = "user" PROVE r.id <= q.prompt
    OBVIOUS
  <2>1. q.prompt \in Int /\ r.id \in Int
    BY <1>4 DEF Turn, Rows, Row
  <2>2. CASE r.id = q.prompt
    BY <2>1, <2>2
  <2>3. ASSUME NEW p \in rows, p.id = r.id, p.role = "user", p.chat = c PROVE r.id <= q.prompt
    <3>1. CASE Pending(s)
      <4>1. r.id < q.prompt
        BY <1>5, <2>3, <3>1 DEF RowsOf
      <4> QED
        BY <2>1, <4>1
    <3>2. CASE ~Pending(s)
      <4>1. q.kind = "regenerate"
        BY <1>1, <1>2, <3>2 DEF Pending
      <4>2. q.prompt \in Last(c) \/ ~Exists(c)
        BY <1>5, <4>1 DEF Selected
      <4>3. Exists(c) /\ p.id \in Prompts(c)
        BY <1>5, <2>3 DEF NoOrphans, RowsOf, Prompts, Ids
      <4> QED
        BY <2>3, <4>2, <4>3 DEF Last
    <3> QED
      BY <3>1, <3>2
  <2> QED
    BY <1>4, <2>2, <2>3
<1> QED
  BY <1>1, <1>3, <1>8, <1>9, <1>10, <1>11 DEF One, Pending, RowsOf

LEMMA CommitStep ==
    ASSUME Inv, NEW s \in Socket, One(s), Commit(s)
    PROVE  [Conv!Next]_(Conv!vars)
<1>1. turn[s].pc = "commit"
  BY DEF Commit
<1>2. PICK q \in Turn : q = turn[s]
  BY DEF Inv, Turns
<1>3. PICK c \in Chat : c = session[s].chat
  BY <1>1 DEF Inv, Local, Late
<1>4. PICK new : new = [id |-> q.prompt, chat |-> c, role |-> "user", parent |-> 0, model |-> 0]
  OBVIOUS
<1>5. /\ q.created => q.kind = "send" /\ chat[c] = "absent"
      /\ Selected(q, c)
      /\ Pending(s) => (q.created \/ Exists(c)) /\ \A r \in RowsOf(c) : r.id < q.prompt
      /\ NoOrphans /\ Roots /\ Rows
  BY <1>1, <1>2, <1>3 DEF One, Inv
<1>6. rows' = {r \in rows : r.id \notin q.victims} \cup IF q.kind = "regenerate" THEN {} ELSE {new}
  <2>1. Without(q.victims) = {r \in rows : r.id \notin q.victims}
    BY <1>5, SelectedIsClosed, WithoutUnreferred
  <2> QED
    BY <1>2, <1>3, <1>4, <2>1 DEF Commit
<1>7. q.kind # "regenerate" => Pending(s)
  BY <1>1, <1>2 DEF Pending
<1>8. new.id = q.prompt /\ new.chat = c /\ new.role = "user" /\ new.parent = 0
  BY <1>4
<1>9. q.kind # "regenerate" =>
        /\ Conv!Opened(c)
        /\ new \in rows' /\ Conv!Newest(c, new.id)
  <2> SUFFICES ASSUME q.kind # "regenerate"
               PROVE  Conv!Opened(c) /\ new \in rows' /\ Conv!Newest(c, new.id)
    OBVIOUS
  <2>1. new \in rows'
    BY <1>6
  <2>2. Conv!Newest(c, new.id)
    BY <1>5, <1>7, <1>8 DEF Conv!Newest, Conv!RowsOf, RowsOf
  <2>3. CASE q.created
    <3>1. session[s].mode \in {"chat", "arena"}
      BY DEF Inv, Sockets
    <3>2. chat' = [chat EXCEPT ![c] = session[s].mode]
      BY <1>2, <1>3, <2>3 DEF Commit
    <3> QED
      BY <1>5, <2>1, <2>2, <2>3, <3>1, <3>2 DEF Conv!Opened
  <2>4. CASE ~q.created
    <3>1. chat' = chat /\ chat[c] \in {"chat", "arena"}
      BY <1>2, <1>3, <1>5, <1>7, <2>4 DEF Commit, Exists
    <3> QED
      BY <2>1, <2>2, <3>1 DEF Conv!Opened
  <2> QED
    BY <2>3, <2>4
<1>10. CASE q.kind = "send"
  <2>1. q.victims = {}
    BY <1>5, <1>10 DEF Selected
  <2>2. rows' = rows \cup {new}
    BY <1>6, <1>10, <2>1
  <2>3. Conv!Ask(c)
    BY <1>8, <1>9, <1>10, <2>2 DEF Conv!Ask
  <2> QED
    BY <2>3 DEF Conv!Next
<1>11. CASE q.kind = "edit"
  <2>1. Exists(c)
    BY <1>5, <1>7, <1>11
  <2>2. q.target \in Prompts(c) /\ q.victims = From(c, q.target)
    BY <1>5, <1>11, <2>1 DEF Selected
  <2>3. PICK t \in rows : t.chat = c /\ t.role = "user" /\ t.id = q.target
    BY <2>2 DEF Prompts, RowsOf, Ids
  <2>4. \A r \in rows : r.id \in q.victims <=> r.chat = c /\ r.id >= t.id
    <3> SUFFICES ASSUME NEW r \in rows PROVE r.id \in q.victims <=> r.chat = c /\ r.id >= t.id
      OBVIOUS
    <3>1. r.id \in q.victims <=> \E x \in rows : x.chat = c /\ x.id = r.id /\ x.id >= t.id
      BY <2>2, <2>3 DEF From, RowsOf, Ids
    <3>2. \A x \in rows : x.id = r.id => x = r
      BY <1>5 DEF Rows
    <3> QED
      BY <3>1, <3>2
  <2>5. \A r \in rows : r.id \notin q.victims <=> (r.chat = c => r.id < t.id)
    <3>1. \A r \in rows : r.id \in Int /\ (~(r.id >= t.id) <=> r.id < t.id)
      BY <1>5 DEF Rows, Row
    <3> QED
      BY <2>4, <3>1
  <2>6. rows' = {r \in rows : r.chat = c => r.id < t.id} \cup {new}
    BY <1>6, <1>11, <2>5
  <2>7. Conv!Ask(c)
    BY <1>8, <1>9, <1>11, <2>3, <2>6 DEF Conv!Ask, Conv!RowsOf
  <2> QED
    BY <2>7 DEF Conv!Next
<1>12. CASE q.kind = "regenerate"
  <2>1. chat' = chat
    BY <1>2, <1>5, <1>12 DEF Commit
  <2>2. rows' = {r \in rows : r.id \notin q.victims}
    BY <1>6, <1>12
  <2>3. CASE q.victims \cap Ids(rows) = {}
    <3>1. rows' = rows
      BY <2>2, <2>3 DEF Ids
    <3> QED
      BY <2>1, <3>1 DEF Conv!vars
  <2>4. CASE q.prompt \in Last(c) /\ q.victims = RepliesAfter(c, q.prompt)
    <3>1. PICK p \in rows : p.chat = c /\ p.role = "user" /\ p.id = q.prompt
      BY <2>4 DEF Last, Prompts, RowsOf, Ids
    <3>2. \A r \in rows : r.chat = c /\ r.role = "user" => r.id <= p.id
      BY <2>4, <3>1 DEF Last, Prompts, RowsOf, Ids
    <3>3. \A r \in rows : r.id \in q.victims <=> r.chat = c /\ r.role = "assistant" /\ r.id >= p.id
      <4> SUFFICES ASSUME NEW r \in rows
                   PROVE  r.id \in q.victims <=> r.chat = c /\ r.role = "assistant" /\ r.id >= p.id
        OBVIOUS
      <4>1. r.id \in q.victims <=>
              \E x \in rows : x.chat = c /\ x.role = "assistant" /\ x.id >= p.id /\ x.id = r.id
        BY <2>4, <3>1 DEF RepliesAfter, RowsOf
      <4>2. \A x \in rows : x.id = r.id => x = r
        BY <1>5 DEF Rows
      <4> QED
        BY <4>1, <4>2
    <3>4. ASSUME NEW r \in rows PROVE r.id \notin q.victims <=> (r.chat = c => r.id <= p.id)
      <4>1. r.id \in Int /\ p.id \in Int /\ r.role \in {"user", "assistant"}
        BY <1>5 DEF Rows, Row
      <4>2. r.id = p.id => r.role = "user"
        BY <1>5, <3>1 DEF Rows
      <4> QED
        BY <3>2, <3>3, <4>1, <4>2
    <3>5. rows' = {r \in rows : r.chat = c => r.id <= p.id}
      BY <2>2, <3>4
    <3>6. Conv!AskAgain(c)
      BY <2>1, <3>1, <3>2, <3>5 DEF Conv!AskAgain, Conv!IsLastPrompt, Conv!RowsOf
    <3> QED
      BY <3>6 DEF Conv!Next
  <2> QED
    BY <1>5, <1>12, <2>3, <2>4 DEF Selected
<1>13. q.kind \in {"send", "edit", "regenerate"}
  BY DEF Turn
<1> QED
  BY <1>10, <1>11, <1>12, <1>13

LEMMA ReplyStep ==
    ASSUME Inv, NEW s \in Socket, One(s), NEW i \in Model, NEW a \in Cost, RecordReply(s, i, a)
    PROVE  One(s)' /\ Conv!Next
<1>1. chat' = chat /\ turn' = turn /\ session' = session /\ turn[s].pc = "stream"
  BY NoTurnIs DEF RecordReply, socket, Inv, Local
<1>2. PICK c \in Chat : c = session[s].chat
  BY <1>1 DEF Inv, Local, Late
<1>3. PICK new : new = [id |-> clock + 1, chat |-> c, role |-> "assistant",
                        parent |-> turn[s].prompt, model |-> i]
  OBVIOUS
<1>4. rows' = rows \cup {new}
  BY <1>2, <1>3 DEF RecordReply, Parent
<1>5. new.id = clock + 1 /\ new.chat = c /\ new.role = "assistant" /\ new.parent = turn[s].prompt
  BY <1>3
<1>6. Exists(c) /\ turn[s].prompt \in Ids(rows)
  BY <1>2 DEF RecordReply, CanStore
<1>7. \A r \in RowsOf(c) : r.role = "user" => r.id <= turn[s].prompt
  BY <1>1, <1>2 DEF One
<1>8. One(s)'
  <2>1. NoOrphans' /\ Roots'
    BY <1>1, <1>4, <1>5, <1>6 DEF One, NoOrphans, Roots, RowsOf, Exists
  <2>2. \A r \in rows' : r.chat = c /\ r.role = "user" => r.id <= turn[s].prompt
    BY <1>4, <1>5, <1>7 DEF RowsOf
  <2> QED
    BY <1>1, <1>2, <2>1, <2>2 DEF One, Pending, RowsOf
<1>9. Conv!Answer(c)
  <2>1. PICK p \in rows : p.id = turn[s].prompt
    BY <1>6 DEF Ids
  <2>2. p.role = "user" /\ p.chat = c
    BY <1>2, <2>1 DEF Inv, Prompt
  <2>3. Conv!IsLastPrompt(c, new.parent)
    BY <1>5, <1>7, <2>1, <2>2 DEF Conv!IsLastPrompt, Conv!RowsOf, RowsOf
  <2>4. Conv!Newest(c, new.id)
    BY <1>5 DEF Conv!Newest, Conv!RowsOf, Inv, Rows
  <2> QED
    BY <1>1, <1>4, <1>5, <2>3, <2>4 DEF Conv!Answer
<1> QED
  BY <1>8, <1>9 DEF Conv!Next

LEMMA DeleteStep ==
    ASSUME Inv, NEW s \in Socket, One(s), NEW d \in Chat, DeleteChat(d)
    PROVE  One(s)' /\ [Conv!Next]_(Conv!vars)
<1>1. /\ turn' = turn /\ session' = session
      /\ Exists(d) /\ ~(turn[s].pc = "commit" /\ session[s].chat = d)
  BY DEF DeleteChat, socket, Writing
<1>2. CASE chat' = chat /\ rows' = rows
  BY <1>1, <1>2, OneKept DEF Conv!vars
<1>3. CASE chat' = [chat EXCEPT ![d] = "deleted"] /\ rows' = rows \ RowsOf(d)
  <2>1. Conv!Drop(d)
    BY <1>3 DEF Conv!Drop, Conv!RowsOf, RowsOf
  <2>2. \A e \in Chat \ {d} : chat'[e] = chat[e] /\ RowsOf(e)' = RowsOf(e)
    BY <1>3 DEF Inv, Sockets, RowsOf
  <2>3. chat'[d] = "deleted" /\ RowsOf(d)' = {}
    BY <1>3 DEF Inv, Sockets, RowsOf
  <2>4. \A e \in Chat \ {d} : Exists(e)' <=> Exists(e)
    BY <2>2 DEF Exists
  <2>5. ~Exists(d)'
    BY <2>3 DEF Exists
  <2>6. NoOrphans' /\ Roots'
    BY <1>3, <2>2, <2>3, <2>4 DEF One, NoOrphans, Roots
  <2>7. PICK q \in Turn : q = turn[s]
    BY DEF Inv, Turns
  <2>8. ASSUME q.pc \notin Late PROVE One(s)'
    <3>1. turn'[s].pc \notin Late
      BY <1>1, <2>7, <2>8
    <3> QED
      BY <2>6, <3>1 DEF One, Pending, Late
  <2>9. ASSUME q.pc \in Late PROVE One(s)'
    <3>1. PICK c \in Chat : c = session[s].chat
      BY <2>7, <2>9 DEF Inv, Local
    <3>2. Selected(q, c) => Selected(q, c)'
      <4>1. CASE c # d
        <5>1. /\ RowsOf(c)' = RowsOf(c) /\ (Exists(c)' <=> Exists(c))
              /\ Prompts(c)' = Prompts(c)
          BY <2>2, <2>4, <3>1, <4>1 DEF Prompts, Ids
        <5>2. Ids(rows') \subseteq Ids(rows)
          BY <1>3 DEF Ids
        <5>3. /\ From(c, q.target)' = From(c, q.target)
              /\ Last(c)' = Last(c) /\ RepliesAfter(c, q.prompt)' = RepliesAfter(c, q.prompt)
          BY <5>1 DEF From, Last, RepliesAfter, Ids
        <5> QED
          BY <5>1, <5>2, <5>3 DEF Selected, Ids
      <4>2. CASE c = d /\ q.kind # "send"
        <5>1. Selected(q, c) => q.victims \cap Ids(rows') = {}
          <6>1. \A r \in rows : r.id \in From(c, q.target) \cup RepliesAfter(c, q.prompt) => r.chat = d
            <7> SUFFICES ASSUME NEW r \in rows, NEW x \in rows, x.chat = d, x.id = r.id PROVE r.chat = d
              BY <4>2 DEF From, RepliesAfter, RowsOf, Ids
            <7> QED
              BY DEF Inv, Rows
          <6>2. \A r \in rows' : r \in rows /\ r.chat # d
            BY <1>3 DEF RowsOf
          <6> QED
            BY <4>2, <6>1, <6>2 DEF Selected, Ids
        <5> QED
          BY <2>5, <4>2, <5>1 DEF Selected, Ids
      <4>3. CASE q.kind = "send"
        BY <4>3 DEF Selected
      <4> QED
        BY <4>1, <4>2, <4>3
    <3>3. \A r \in RowsOf(c)' : r \in RowsOf(c)
      BY <1>3 DEF RowsOf
    <3>4. q.created /\ chat[c] = "absent" => chat'[c] = "absent"
      BY <1>1, <2>2, <3>1 DEF Exists
    <3>5. q.pc = "commit" => (Exists(c) => Exists(c)')
      BY <1>1, <2>4, <2>7, <3>1
    <3>6. q.pc \in {"write", "commit"} =>
             /\ q.created => q.kind = "send" /\ chat'[c] = "absent"
             /\ Selected(q, c)'
      BY <2>7, <3>1, <3>2, <3>4 DEF One
    <3>7. Pending(s) => (q.created \/ Exists(c)') /\ \A r \in RowsOf(c)' : r.id < q.prompt
      BY <2>7, <3>1, <3>3, <3>5 DEF One, Pending
    <3>8. q.pc \in {"budget", "stream"} => \A r \in RowsOf(c)' : r.role = "user" => r.id <= q.prompt
      BY <2>7, <3>1, <3>3 DEF One
    <3> QED
      <4>1. turn'[s] = q /\ session'[s].chat = c
        BY <1>1, <2>7, <3>1
      <4>2. Pending(s)' <=> Pending(s)
        BY <1>1 DEF Pending
      <4> QED
        BY <2>6, <3>6, <3>7, <3>8, <4>1, <4>2 DEF One
  <2> QED
    BY <2>1, <2>8, <2>9 DEF Conv!Next
<1> QED
  BY <1>2, <1>3 DEF DeleteChat

\* Init and every step of one socket are those of a Conversation.
LEMMA ConversationInit ==
    ASSUME Init
    PROVE  Conv!Init /\ \A s \in Socket : One(s)
<1>1. Conv!Init
  BY DEF Init, Conv!Init
<1>2. ASSUME NEW s \in Socket PROVE One(s)
  BY NoTurnIs DEF Init, One, NoOrphans, Roots, RowsOf, Pending
<1> QED
  BY <1>1, <1>2

LEMMA ConversationStep ==
    ASSUME NEW s, Socket = {s}, Inv, One(s), [Next]_vars
    PROVE  One(s)' /\ [Conv!Next]_(Conv!vars)
<1>1. s \in Socket
  OBVIOUS
<1>2. CASE Unseen(s)
  BY <1>1, <1>2, UnseenStep DEF Conv!vars
<1>3. CASE Rewind(s)
  BY <1>1, <1>3, RewindStep
<1>4. CASE Write(s)
  BY <1>1, <1>4, WriteStep DEF Conv!vars
<1>5. CASE Commit(s)
  BY <1>1, <1>5, CommitOne, CommitStep
<1>6. ASSUME NEW i \in Model, NEW a \in Cost, RecordReply(s, i, a) PROVE One(s)' /\ [Conv!Next]_(Conv!vars)
  BY <1>1, <1>6, ReplyStep
<1>7. ASSUME NEW c \in Chat, DeleteChat(c) PROVE One(s)' /\ [Conv!Next]_(Conv!vars)
  BY <1>1, <1>7, DeleteStep
<1>8. Endpoint(s) => Unseen(s)
  BY DEF Endpoint, Unseen
<1>9. RunTurn(s) => \/ Unseen(s) \/ Rewind(s) \/ Write(s) \/ Commit(s)
                    \/ \E i \in Model, a \in Cost : RecordReply(s, i, a)
  BY DEF RunTurn, Generate, Unseen
<1>10. \/ Endpoint(s) \/ RunTurn(s) \/ Unseen(s) \/ \E c \in Chat : DeleteChat(c)
  BY DEF Next, Unseen
<1> QED
  BY <1>2, <1>3, <1>4, <1>5, <1>6, <1>7, <1>8, <1>9, <1>10

\* A user who talks from one place has a Conversation: prompts at the end or in
\* the place of an earlier one, replies to the last prompt, and the rest of the
\* chat as it was, whatever stops, failures, deletions and deaths do to turns.
THEOREM IsAConversation ==
    ASSUME NEW s, Socket = {s}
    PROVE  Spec => IsConversation
<1>1. Init => Conv!Init /\ One(s)
  BY ConversationInit
<1>2. Inv /\ One(s) /\ [Next]_vars => One(s)'
  BY ConversationStep
<1>3. Inv /\ One(s) /\ [Next]_vars => [Conv!Next]_(Conv!vars)
  BY ConversationStep
<1> QED
  BY <1>1, <1>2, <1>3, InvHolds, PTL DEF Spec, IsConversation, Conv!Spec
=============================================================================
