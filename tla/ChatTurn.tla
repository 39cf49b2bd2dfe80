------------------------------ MODULE ChatTurn ------------------------------
(***************************************************************************)
(* Chat turns over a WebSocket: websocket_endpoint and ChatSession of      *)
(* app/api/v1/endpoints/chat.py with app/services/chat_service.py.         *)
(*                                                                         *)
(* The sockets are those of ONE account: every statement is restricted to  *)
(* the account's own chats, so sockets of two accounts share nothing.  A   *)
(* socket runs at most one turn.  A turn is a task that walks through its  *)
(* awaits; turn[s].pc names the next one.  The transaction that stores the *)
(* prompt is open at "write" and "commit"; the rows it deletes stay locked *)
(* until it ends.  Identifiers of messages are their created_at: clock is  *)
(* the last one handed out.                                                *)
(*                                                                         *)
(* The Redis list of a chat is written by turns and read by nothing, so it *)
(* is left out; titles are in ChatRows.  A definition named Slip... is the *)
(* one after it with a plausible mistake; no action uses it.               *)
(***************************************************************************)
EXTENDS Billing, FiniteSets

CONSTANTS
    Account,       \* the account whose sockets these are
    Socket,        \* its WebSocket connections
    Chat,          \* identifiers of chats
    Existing,      \* the chats that exist at the start
    MaxModels,     \* ARENA_MAX_MODELS: replies of one turn
    Kind,          \* what clients ask for: "send", "edit", "regenerate"
    Need,          \* credits a minimal reply of one model can cost
    Cost,          \* credits a reply can cost
    Opening,       \* the wallet at the start
    MaxTurns,      \* bound: turns started
    MaxSpend,      \* bound: credits charged by media endpoints
    MaxFailed,     \* bound: transactions the database refuses
    MaxDeaths,     \* bound: sockets whose server process dies
    MaxSpoken,     \* bound: messages read aloud
    Nil            \* None

ASSUME ChatAssumption == Existing \subseteq Chat /\ Nil \notin Chat
ASSUME KindAssumption == Kind \subseteq {"send", "edit", "regenerate"}
ASSUME CostAssumption == Need \cup Cost \subseteq Nat \ {0} /\ Opening \in Nat
ASSUME BoundAssumption ==
    /\ MaxModels \in Nat \ {0}
    /\ {MaxTurns, MaxSpend, MaxFailed, MaxDeaths, MaxSpoken} \subseteq Nat

VARIABLES
    wallet,     \* the account's row of wallets
    chat,       \* Chat -> its row: absent, or its mode, or deleted
    rows,       \* committed rows of messages
    spoken,     \* messages that a row of generated_audio refers to
    clock,      \* the latest created_at
    online,     \* sockets whose client is there
    loop,       \* Socket -> what websocket_endpoint awaits
    session,    \* Socket -> chat_id and chat_mode of its ChatSession
    stop,       \* sockets whose stop_event is set
    turn,       \* Socket -> progress and locals of run_turn
    slot,       \* Socket -> model -> progress of _generate_slot
    asked,      \* history: sockets whose turn something asked to stop
    told,       \* history: sockets that were sent how their last turn ended
    raced,      \* history: sockets since whose latest check somebody else was charged for
    overrun,    \* history: what replies since a socket's latest check cost beyond their share
    sold,       \* history: credits of all replies ever stored
    unit,       \* history: the dearest single reply
    refused,    \* history: messages deleted by turns then refused for credits
    pinned,     \* history: deletions of messages the database refused
    used        \* how often each bounded thing happened

vars == <<wallet, chat, rows, spoken, clock, online, loop, session, stop, turn, slot,
          asked, told, raced, overrun, sold, unit, refused, pinned, used>>
database == <<wallet, chat, rows, spoken, clock>>
socket == <<online, loop, session>>
history == <<raced, overrun, sold, unit, refused, pinned>>

Model == 1..MaxModels
NoTurn == [pc |-> "idle", kind |-> "send", n |-> 1, target |-> 0, bal |-> 0,
           victims |-> {}, prompt |-> 0, created |-> FALSE]
NoSlot == [pc |-> "off", text |-> FALSE, why |-> "none"]
NoSlots == [i \in Model |-> NoSlot]

Exists(c) == c # Nil /\ chat[c] \in {"chat", "arena"}
Busy(s) == turn[s].pc # "idle"
RowsOf(c) == {r \in rows : r.chat = c}
Ids(R) == {r.id : r \in R}
\* Rows that an open transaction has deleted or inserted are locked by it.
Doomed == UNION {turn[s].victims : s \in {x \in Socket : turn[x].pc = "commit"}}
Writing(c) == \E s \in Socket : turn[s].pc = "commit" /\ session[s].chat = c

\* The model of a reply is the one that was asked (Context tells it from the one
\* that answered).
Row == [id : Nat, chat : Chat, role : {"user", "assistant"}, parent : Nat,
        model : Model \cup {0}]
Turn == [pc : {"idle", "look", "balance", "rewind", "write", "commit", "budget",
               "stream", "close"},
         kind : {"send", "edit", "regenerate"}, n : Model, target : Nat, bal : Int,
         victims : SUBSET Nat, prompt : Nat, created : BOOLEAN]
Slot == [pc : {"off", "stream", "ended", "done"}, text : BOOLEAN,
         why : {"none", "finished", "failed", "interrupted"}]

TypeOK ==
    /\ wallet \in [{Account} -> Balance]
    /\ chat \in [Chat -> {"absent", "chat", "arena", "deleted"}]
    /\ rows \subseteq Row /\ Cardinality(Ids(rows)) = Cardinality(rows)
    /\ clock \in Nat /\ \A r \in rows : r.id \in 1..clock
    /\ spoken \subseteq Ids(rows)
    /\ online \subseteq Socket /\ stop \subseteq Socket
    /\ loop \in [Socket -> {"closed", "reading", "stopping", "closing"}]
    /\ session \in [Socket -> [chat : Chat \cup {Nil}, mode : {"chat", "arena"}]]
    /\ turn \in [Socket -> Turn]
    /\ slot \in [Socket -> [Model -> Slot]]
    /\ asked \subseteq Socket /\ told \subseteq Socket
    /\ raced \subseteq Socket /\ overrun \in [Socket -> Nat] /\ {sold, unit} \subseteq Nat
    /\ refused \subseteq Nat /\ pinned \subseteq Nat
    /\ used \in [turns : 0..MaxTurns, spend : 0..MaxSpend, failed : 0..MaxFailed,
                 deaths : 0..MaxDeaths, spoken : 0..MaxSpoken]

Init ==
    /\ wallet = [u \in {Account} |-> Opening]
    /\ chat = [c \in Chat |-> IF c \in Existing THEN "chat" ELSE "absent"]
    /\ rows = {} /\ spoken = {} /\ clock = 0
    /\ online = {} /\ stop = {} /\ asked = {} /\ told = Socket
    /\ loop = [s \in Socket |-> "closed"]
    /\ session = [s \in Socket |-> [chat |-> Nil, mode |-> "chat"]]
    /\ turn = [s \in Socket |-> NoTurn]
    /\ slot = [s \in Socket |-> NoSlots]
    /\ raced = {} /\ overrun = [s \in Socket |-> 0] /\ sold = 0 /\ unit = 0 /\ refused = {} /\ pinned = {}
    /\ used = [turns |-> 0, spend |-> 0, failed |-> 0, deaths |-> 0, spoken |-> 0]

-----------------------------------------------------------------------------
(* websocket_endpoint: the loop that reads the socket.                     *)

\* A signed-in client opens a socket; adopt_chat takes one of its own chats.
Connect(s, c) ==
    /\ loop[s] = "closed" /\ ~Busy(s)
    /\ online' = online \cup {s}
    /\ loop' = [loop EXCEPT ![s] = "reading"]
    /\ session' = [session EXCEPT ![s] =
                     IF Exists(c) THEN [chat |-> c, mode |-> chat[c]]
                                  ELSE [chat |-> Nil, mode |-> "chat"]]
    /\ stop' = stop \ {s}
    /\ told' = told \cup {s}
    /\ UNCHANGED <<database, turn, slot, asked, history, used>>

SlipStart(s) == stop

\* start makes a new stop_event for every turn.
FreshStop(s) == stop \ {s}

\* A prompt, an edited prompt or a request to answer again, while no turn of
\* this socket is in flight (otherwise the answer is a "busy" error).
Receive(s, kind, n, t) ==
    /\ loop[s] = "reading" /\ s \in online /\ ~Busy(s)
    /\ used.turns < MaxTurns
    /\ used' = [used EXCEPT !.turns = @ + 1]
    /\ turn' = [turn EXCEPT ![s] = [NoTurn EXCEPT !.pc = "look", !.kind = kind,
                                                  !.n = n, !.target = t]]
    /\ stop' = FreshStop(s)
    /\ asked' = asked \ {s}
    /\ told' = told \ {s}
    /\ UNCHANGED <<database, socket, slot, history>>

\* ChatSession.stop: sets the event of the turn in flight, if there is one.
SetStop(s) ==
    /\ stop' = IF Busy(s) THEN stop \cup {s} ELSE stop
    /\ asked' = IF Busy(s) THEN asked \cup {s} ELSE asked

\* A "stop" frame; the loop then reads nothing until the turn has ended.
Stop(s) ==
    /\ loop[s] = "reading" /\ s \in online
    /\ SetStop(s)
    /\ loop' = [loop EXCEPT ![s] = "stopping"]
    /\ UNCHANGED <<database, online, session, turn, slot, told, history, used>>

\* wait_for_turn returns when the turn is over or its 30 seconds are.
Waited(s) ==
    /\ loop[s] \in {"stopping", "closing"}
    /\ loop' = [loop EXCEPT ![s] = IF @ = "stopping" THEN "reading" ELSE "closed"]
    /\ UNCHANGED <<database, online, session, stop, turn, slot, asked, told, history, used>>

\* The client goes away; the server learns of it at its next read or send.
Disconnect(s) ==
    /\ s \in online
    /\ online' = online \ {s}
    /\ UNCHANGED <<database, loop, session, stop, turn, slot, asked, told, history, used>>

\* The read raises; the finally block stops the turn and waits for it.
Hangup(s) ==
    /\ loop[s] = "reading" /\ s \notin online
    /\ SetStop(s)
    /\ loop' = [loop EXCEPT ![s] = "closing"]
    /\ UNCHANGED <<database, online, session, turn, slot, told, history, used>>

-----------------------------------------------------------------------------
(* ChatSession.run_turn, up to the replies.                                *)

Advance(s, pc) == turn' = [turn EXCEPT ![s].pc = pc]

\* Sending returns FALSE only when the client is gone.
Sent(s, ok) == ok \/ s \notin online

\* The turn is over; answer says whether a frame told the client how it ended.
EndTurn(s, answer) ==
    /\ turn' = [turn EXCEPT ![s] = NoTurn]
    /\ slot' = [slot EXCEPT ![s] = NoSlots]
    /\ told' = IF answer THEN told \cup {s} ELSE told

Prompts(c) == Ids({r \in RowsOf(c) : r.role = "user"})

\* The first checks: something to answer again, known models, and the mode of
\* the conversation, which regenerate is not asked for.
CanStart(s) ==
    /\ turn[s].kind = "regenerate" =>
          session[s].chat # Nil /\ Prompts(session[s].chat) # {}
    /\ turn[s].kind # "regenerate" /\ session[s].chat # Nil =>
          (turn[s].n > 1) = (session[s].mode = "arena")

Look(s) ==
    /\ turn[s].pc = "look"
    /\ \/ CanStart(s) /\ Advance(s, "balance") /\ UNCHANGED <<slot, told>>
       \/ EndTurn(s, TRUE)   \* an unknown model, if nothing else is wrong
    /\ UNCHANGED <<database, socket, stop, asked, history, used>>

SlipBalance == Opening

\* billing.get_balance, read anew by every turn.
TurnBalance == GetBalance(wallet, Account)

CheckBalance(s) ==
    /\ turn[s].pc = "balance"
    /\ \/ /\ TurnBalance > 0
          /\ turn' = [turn EXCEPT ![s].pc = "rewind", ![s].bal = TurnBalance]
          /\ raced' = raced \ {s}
          /\ overrun' = [overrun EXCEPT ![s] = 0]
          /\ UNCHANGED <<slot, told>>
       \/ TurnBalance <= 0 /\ EndTurn(s, TRUE) /\ UNCHANGED <<raced, overrun>>
    /\ UNCHANGED <<database, socket, stop, asked, sold, unit, refused, pinned, used>>

\* truncate_from: the message and everything after it.
From(c, t) == {i \in Ids(RowsOf(c)) : i >= t}

SlipRepliesAfter(c, t) == From(c, t)

\* delete_replies_after: the replies younger than the last prompt.
RepliesAfter(c, t) == {r.id : r \in {x \in RowsOf(c) : x.role = "assistant" /\ x.id >= t}}

\* The last prompt of a chat, which "regenerate" answers again.
Last(c) == {p \in Prompts(c) : \A q \in Prompts(c) : q <= p}

\* The messages a turn removes from a chat, whose last prompt is p.
Removed(t, c, p) ==
    CASE t.kind = "edit" -> From(c, t.target)
      [] t.kind = "regenerate" -> RepliesAfter(c, p)
      [] OTHER -> {}

\* A chat nobody has named yet.
Fresh(c) == chat[c] = "absent" /\ \A s \in Socket : session[s].chat # c

\* The transaction begins: a new chat is flushed, its id goes to the session
\* at once; then the messages to delete are selected.  A refused edit leaves
\* the block by return, which commits.
Rewind(s) ==
    LET t == turn[s]
        new == session[s].chat = Nil
        mode == IF t.n > 1 THEN "arena" ELSE "chat" IN
    /\ turn[s].pc = "rewind"
    /\ \E c \in Chat :
          /\ IF new THEN Fresh(c) ELSE c = session[s].chat
          /\ session' = [session EXCEPT ![s] = IF new THEN [chat |-> c, mode |-> mode] ELSE @]
          /\ \/ /\ IF t.kind = "edit" THEN t.target \notin Prompts(c)
                                      ELSE t.kind = "regenerate" /\ Prompts(c) = {}
                /\ chat' = IF new THEN [chat EXCEPT ![c] = mode] ELSE chat
                /\ EndTurn(s, TRUE)
             \/ /\ t.kind = "edit" => t.target \in Prompts(c)
                /\ \E p \in IF t.kind = "regenerate" THEN Last(c) ELSE {0} :
                      turn' = [turn EXCEPT ![s].pc = "write", ![s].created = new,
                                           ![s].prompt = p, ![s].victims = Removed(t, c, p)]
                /\ UNCHANGED <<chat, slot, told>>
    /\ UNCHANGED <<wallet, rows, spoken, clock, online, loop, stop, asked, history, used>>

SlipBound(s) == {}

\* Messages to delete that audio was made from: its row has a foreign key.
Bound(s) == turn[s].victims \cap spoken

\* The DELETE, which waits for rows another transaction has deleted, and the
\* INSERT.  Audio made from a deleted message, or a chat that is gone, breaks
\* a foreign key: the transaction is undone, the session keeps its chat_id.
Write(s) ==
    LET t == turn[s]
        c == session[s].chat
        bound == Bound(s) IN
    /\ t.pc = "write"
    /\ t.victims \cap Doomed = {}
    /\ \/ /\ bound = {}
          /\ t.kind = "regenerate" \/ t.created \/ Exists(c)
          /\ IF t.kind = "regenerate"
             THEN Advance(s, "commit") /\ UNCHANGED clock
             ELSE /\ clock' = clock + 1
                  /\ turn' = [turn EXCEPT ![s].pc = "commit", ![s].prompt = clock + 1]
          /\ UNCHANGED <<slot, told, pinned>>
       \/ /\ bound # {} \/ ~(t.kind = "regenerate" \/ t.created \/ Exists(c))
          /\ EndTurn(s, TRUE)
          /\ pinned' = pinned \cup bound
          /\ UNCHANGED clock
    /\ UNCHANGED <<wallet, chat, rows, spoken, socket, stop, asked, raced, overrun,
                   sold, unit, refused, used>>

\* ON DELETE SET NULL: a reply whose prompt is deleted forgets it.
Without(victims) ==
    {[r EXCEPT !.parent = IF @ \in victims THEN 0 ELSE @] :
        r \in {x \in rows : x.id \notin victims}}

Commit(s) ==
    LET t == turn[s]
        c == session[s].chat
        prompt == [id |-> t.prompt, chat |-> c, role |-> "user", parent |-> 0, model |-> 0] IN
    /\ t.pc = "commit"
    /\ chat' = IF t.created THEN [chat EXCEPT ![c] = session[s].mode] ELSE chat
    /\ rows' = Without(t.victims) \cup IF t.kind = "regenerate" THEN {} ELSE {prompt}
    /\ Advance(s, "budget")
    /\ UNCHANGED <<wallet, spoken, clock, socket, stop, slot, asked, told, history, used>>

\* The database fails in the transaction: the client is told to try again.
StoreFails(s) ==
    /\ turn[s].pc \in {"write", "commit"}
    /\ used.failed < MaxFailed
    /\ used' = [used EXCEPT !.failed = @ + 1]
    /\ EndTurn(s, TRUE)
    /\ UNCHANGED <<database, socket, stop, asked, history>>

\* plan_budget gives each model an equal share of the balance the turn read.
Share(bal, n) == bal \div n

\* The frames "chat_id" and "truncated", then plan_budget for every model,
\* then "turn_start"; n generations begin.
Budget(s) ==
    LET t == turn[s] IN
    /\ t.pc = "budget"
    /\ \/ /\ \E need \in Need : Share(t.bal, t.n) < need
          /\ EndTurn(s, TRUE)
          /\ refused' = refused \cup t.victims
       \/ Sent(s, FALSE) /\ EndTurn(s, FALSE) /\ UNCHANGED refused
       \/ /\ \E need \in Need : Share(t.bal, t.n) >= need
          /\ Advance(s, "stream")
          /\ slot' = [slot EXCEPT ![s] =
                [i \in Model |-> IF i <= t.n THEN [NoSlot EXCEPT !.pc = "stream"] ELSE NoSlot]]
          /\ UNCHANGED <<told, refused>>
    /\ UNCHANGED <<database, socket, stop, asked, raced, overrun, sold, unit, pinned, used>>

-----------------------------------------------------------------------------
(* ChatSession._generate_slot, one for every model of the turn.            *)

Ended(s, i, why) ==
    slot' = [slot EXCEPT ![s][i].pc = "ended", ![s][i].why = why]

\* A piece of text arrives and is sent on; a send that fails stops the turn.
Chunk(s, i) ==
    /\ slot[s][i].pc = "stream"
    /\ \/ /\ slot' = [slot EXCEPT ![s][i].text = TRUE]
          /\ UNCHANGED <<stop, asked>>
       \/ /\ Sent(s, FALSE)
          /\ slot' = [slot EXCEPT ![s][i] = [pc |-> "ended", text |-> TRUE, why |-> "interrupted"]]
          /\ stop' = stop \cup {s}
          /\ asked' = asked \cup {s}
    /\ UNCHANGED <<database, socket, turn, told, history, used>>

\* The provider's stream ends by itself.
StreamEnds(s, i) ==
    /\ slot[s][i].pc = "stream"
    /\ Ended(s, i, IF s \in stop THEN "interrupted" ELSE "finished")
    /\ UNCHANGED <<database, socket, stop, turn, asked, told, history, used>>

SlipStopped(s) == FALSE

\* _stream_until races every chunk against the event.
Stopped(s) == s \in stop

StreamStops(s, i) ==
    /\ slot[s][i].pc = "stream" /\ Stopped(s)
    /\ Ended(s, i, "interrupted")
    /\ UNCHANGED <<database, socket, stop, turn, asked, told, history, used>>

\* A refusal, a missing or failing provider.
StreamFails(s, i) ==
    /\ slot[s][i].pc = "stream"
    /\ Ended(s, i, "failed")
    /\ UNCHANGED <<database, socket, stop, turn, asked, told, history, used>>

\* CHAT_STREAM_TIMEOUT_SECONDS are over.
StreamTimesOut(s, i) ==
    /\ slot[s][i].pc = "stream"
    /\ Ended(s, i, "failed")
    /\ UNCHANGED <<database, socket, stop, turn, asked, told, history, used>>

\* The foreign keys of a reply.
CanStore(s) == Exists(session[s].chat) /\ turn[s].prompt \in Ids(rows)

SlipParent(s) == clock

Parent(s) == turn[s].prompt

\* What a reply costs more than its share of the balance: plan_budget fitted its
\* own estimate to the share, the provider bills what it counted (Generation).
Beyond(s, c) ==
    LET share == Share(turn[s].bal, turn[s].n) IN IF c > share THEN c - share ELSE 0

SlipDebit(c) == wallet

\* billing.debit(..., allow_overdraft=True)
Charge(c) == Debit(wallet, Account, c)

\* The sockets whose turn has read its balance.
Reckoning == {s \in Socket : turn[s].bal > 0}

\* _record_reply: the charge and the row are one transaction.  It waits for a
\* transaction that has deleted the prompt.  Whatever was billed is debited.
RecordReply(s, i, c) ==
    /\ slot[s][i].pc = "ended" /\ slot[s][i].text
    /\ turn[s].prompt \notin Doomed
    /\ CanStore(s) /\ CanDebit(wallet, Account, c, TRUE)
    /\ wallet' = Charge(c)
    /\ clock' = clock + 1
    /\ rows' = rows \cup {[id |-> clock + 1, chat |-> session[s].chat, role |-> "assistant",
                           parent |-> Parent(s), model |-> i]}
    /\ slot' = [slot EXCEPT ![s][i].pc = "done"]
    /\ sold' = sold + c
    /\ unit' = IF c > unit THEN c ELSE unit
    /\ raced' = raced \cup (Reckoning \ {s})
    /\ overrun' = [overrun EXCEPT ![s] = @ + Beyond(s, c)]
    /\ UNCHANGED <<chat, spoken, socket, stop, turn, asked, told, refused, pinned, used>>

\* The transaction fails, by a foreign key or otherwise: only logged.
RecordFails(s, i) ==
    /\ slot[s][i].pc = "ended" /\ slot[s][i].text
    /\ turn[s].prompt \notin Doomed
    /\ slot' = [slot EXCEPT ![s][i].pc = "done"]
    /\ IF CanStore(s)
       THEN used.failed < MaxFailed /\ used' = [used EXCEPT !.failed = @ + 1]
       ELSE UNCHANGED used
    /\ UNCHANGED <<database, socket, stop, turn, asked, told, history>>

\* Nothing was produced: an error for this model, no charge.
Empty(s, i) ==
    /\ slot[s][i].pc = "ended" /\ ~slot[s][i].text
    /\ slot' = [slot EXCEPT ![s][i].pc = "done"]
    /\ UNCHANGED <<database, socket, stop, turn, asked, told, history, used>>

\* All replies are settled; touch_chat and the new balance, then "turn_done",
\* after a stop as well.
CloseTurn(s) ==
    /\ turn[s].pc = "stream"
    /\ \A i \in 1..turn[s].n : slot[s][i].pc = "done"
    /\ EndTurn(s, TRUE)
    /\ UNCHANGED <<database, socket, stop, asked, history, used>>

\* A database error where run_turn does not catch it ends the task.
TurnRaises(s) ==
    /\ \/ turn[s].pc \in {"look", "balance"}
       \/ turn[s].pc = "stream" /\ \A i \in 1..turn[s].n : slot[s][i].pc = "done"
    /\ used.failed < MaxFailed
    /\ used' = [used EXCEPT !.failed = @ + 1]
    /\ EndTurn(s, FALSE)
    /\ UNCHANGED <<database, socket, stop, asked, history>>

-----------------------------------------------------------------------------
(* What happens around the sockets.                                        *)

\* The process that serves the socket dies: its transaction is undone.
ServerDies(s) ==
    /\ loop[s] # "closed" \/ Busy(s)
    /\ used.deaths < MaxDeaths
    /\ used' = [used EXCEPT !.deaths = @ + 1]
    /\ online' = online \ {s}
    /\ loop' = [loop EXCEPT ![s] = "closed"]
    /\ EndTurn(s, TRUE)
    /\ UNCHANGED <<database, session, stop, asked, history>>

\* DELETE /chat/{id}: the chat and its messages, unless audio refers to one.
\* A message stored while it runs makes it fail as a whole, which is no step.
DeleteChat(c) ==
    LET bound == Ids(RowsOf(c)) \cap spoken IN
    /\ Exists(c) /\ ~Writing(c)
    /\ \/ /\ bound = {}
          /\ chat' = [chat EXCEPT ![c] = "deleted"]
          /\ rows' = rows \ RowsOf(c)
          /\ UNCHANGED pinned
       \/ /\ bound # {}
          /\ pinned' = pinned \cup bound
          /\ UNCHANGED <<chat, rows>>
    /\ UNCHANGED <<wallet, spoken, clock, socket, stop, turn, slot, asked, told,
                   raced, overrun, sold, unit, refused, used>>

\* A media worker stores the audio of a message (MediaJobs).
ReadAloud(m) ==
    /\ used.spoken < MaxSpoken
    /\ used' = [used EXCEPT !.spoken = @ + 1]
    /\ m \notin Doomed
    /\ spoken' = spoken \cup {m}
    /\ UNCHANGED <<wallet, chat, rows, clock, socket, stop, turn, slot, asked, told, history>>

\* A media endpoint charges the wallet, never below zero (MediaJobs).
Spend(a) ==
    /\ used.spend + a <= MaxSpend
    /\ CanDebit(wallet, Account, a, FALSE)
    /\ used' = [used EXCEPT !.spend = @ + a]
    /\ wallet' = Debit(wallet, Account, a)
    /\ raced' = raced \cup Reckoning
    /\ UNCHANGED <<chat, rows, spoken, clock, socket, stop, turn, slot, asked, told,
                   overrun, sold, unit, refused, pinned>>

-----------------------------------------------------------------------------
Generate(s) ==
    \E i \in Model :
        \/ Chunk(s, i) \/ StreamEnds(s, i) \/ StreamStops(s, i) \/ StreamFails(s, i)
        \/ StreamTimesOut(s, i) \/ Empty(s, i) \/ RecordFails(s, i)
        \/ \E c \in Cost : RecordReply(s, i, c)

RunTurn(s) ==
    \/ Look(s) \/ CheckBalance(s) \/ Rewind(s) \/ Write(s) \/ Commit(s) \/ StoreFails(s)
    \/ Budget(s) \/ Generate(s) \/ CloseTurn(s) \/ TurnRaises(s)

Endpoint(s) ==
    \/ Stop(s) \/ Waited(s) \/ Disconnect(s) \/ Hangup(s) \/ ServerDies(s)
    \/ \E c \in Chat \cup {Nil} : Connect(s, c)
    \/ \E k \in Kind, n \in Model :
          \E t \in IF k = "edit" THEN 1..clock ELSE {0} : Receive(s, k, n, t)

Next ==
    \/ \E s \in Socket : Endpoint(s) \/ RunTurn(s)
    \/ \E c \in Chat : DeleteChat(c)
    \/ \E r \in rows : ReadAloud(r.id)
    \/ \E a \in Cost : Spend(a)

Spec == Init /\ [][Next]_vars

\* The turn's own steps, which wait for nobody but the database.
TurnStep(s) ==
    \/ Look(s) \/ CheckBalance(s) \/ Rewind(s) \/ Write(s) \/ Commit(s) \/ Budget(s)
    \/ CloseTurn(s)
Settle(s, i) ==
    \/ StreamStops(s, i) \/ Empty(s, i) \/ RecordFails(s, i)
    \/ \E c \in Cost : RecordReply(s, i, c)

\* Transactions end and locks are granted in turn; the server notices that a
\* client is gone.  Nothing is assumed of the providers or of the client.
ServerFairness ==
    \A s \in Socket :
        /\ SF_vars(TurnStep(s)) /\ WF_vars(Hangup(s)) /\ WF_vars(Waited(s))
        /\ \A i \in Model : SF_vars(Settle(s, i))
\* asyncio.timeout fires.
TimerFairness == \A s \in Socket, i \in Model : WF_vars(StreamTimesOut(s, i))

LiveSpec == Spec /\ ServerFairness

-----------------------------------------------------------------------------
(* Properties.                                                             *)

\* Charging for a reply and storing it happen together, whatever the
\* database, the foreign keys and other sockets do (_record_reply): what is
\* missing in the wallet is the price of replies that were stored.
ChargedIsStored == Opening - wallet[Account] = sold + used.spend

\* A reply ends "interrupted" only if its own turn was stopped, by the client
\* or by its disappearance: a stop never hits a later turn of the socket
\* (ChatSession.start, stop).
InterruptedOnlyIfAsked ==
    \A s \in Socket, i \in Model : slot[s][i].why = "interrupted" => s \in asked

\* A stored reply that has a prompt answers an older user message of its own
\* chat, also when other sockets edit, answer again or delete meanwhile.
RepliesFollowPrompt ==
    \A r \in rows : r.role = "assistant" /\ r.parent # 0 =>
        \E p \in rows : p.id = r.parent /\ p.role = "user" /\ p.chat = r.chat /\ p.id < r.id

\* A turn starts from the balance of that moment and plan_budget fits it to that
\* balance, so the wallet goes below zero for one of two reasons only: somebody
\* else was charged between that reading and a reply of the turn, or the replies
\* of one turn cost more than their shares, and then the wallet is short of no
\* more than they did (chat_service.py plan_budget, billing.py:62-65).  How far
\* a reply can go beyond its share is Generation!CostIsBounded.
OverdraftIsBounded ==
    wallet[Account] < 0 =>
        \E s \in Socket : s \in raced \/ wallet[Account] + overrun[s] >= 0

\* A turn that is over was answered, with "turn_done" or an error.
TurnIsAnswered ==
    \A s \in online : loop[s] = "reading" /\ ~Busy(s) => s \in told

\* "edit_message_id replaces an earlier user message and everything after it"
\* (README.md:176): no reply of a removed prompt stays behind.
NoReplyLeftBehind == \A r \in rows : r.role = "assistant" => r.parent # 0

\* "The balance can then dip slightly negative, bounded by one unit of work"
\* (billing.py, debit): no further than the dearest reply so far.
OverdraftIsOneUnit == wallet[Account] >= -unit

\* "A chat turn is refused up front when the balance cannot cover it"
\* (README.md:76): a turn refused for credits has deleted nothing.
RefusedUpFront == refused = {}

\* "A conversation keeps its mode" (chat.py, run_turn): in a conversation that
\* is not an arena a prompt has one reply.
ConversationKeepsMode ==
    \A r, q \in rows : chat[r.chat] = "chat" /\ r.role = "assistant" /\ q.role = "assistant"
                       /\ r.parent = q.parent /\ r.parent # 0 => r = q

\* An idle socket's conversation is one that was stored ("Could not save your
\* message. Please try again.", chat.py, run_turn: trying again can work).
SessionChatIsStored ==
    \A s \in Socket : ~Busy(s) /\ session[s].chat # Nil => chat[session[s].chat] # "absent"

\* "Delete a chat, its messages and its cached history" (delete_chat): no
\* deletion of a message is refused by the database.
DeletionIsPossible == pinned = {}

\* From one socket, a chat is a Conversation.
Conv == INSTANCE Conversation
IsConversation == Conv!Spec

\* A stopped turn ends, and so does one whose client is gone, however long the
\* provider is silent (_stream_until, the finally block of the endpoint).  Where
\* the timeout of a stream can be relied on (CHAT_STREAM_TIMEOUT_SECONDS), every
\* turn ends, whatever the provider and the client do.
TurnEnds ==
    /\ \A s \in Socket : Busy(s) /\ (Stopped(s) \/ s \notin online) ~> ~Busy(s)
    /\ TimerFairness => \A s \in Socket : Busy(s) ~> ~Busy(s)
=============================================================================
