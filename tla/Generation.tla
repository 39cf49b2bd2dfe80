----------------------------- MODULE Generation -----------------------------
(***************************************************************************)
(* What a turn's replies may cost and do cost: plan_budget of              *)
(* app/services/chat_service.py, the end of a stream in the three adapters *)
(* of app/services/llm, Usage of app/services/llm/usage.py, and the        *)
(* settlement of ChatSession._generate_slot.  ChatTurn has the             *)
(* interleavings of a turn with everything else; here are its numbers.     *)
(*                                                                         *)
(* External: a provider stops at max_output_tokens of its own tokens, and  *)
(* produces text or thinking Chunk tokens at a time.  What it counts for   *)
(* the prompt, and how many characters its tokens make, is its own affair: *)
(* four characters to a token is "rough" (usage.py:8).  A definition named *)
(* Slip... is the one after it with a plausible mistake; no action uses it. *)
(***************************************************************************)
EXTENDS Catalogue, FiniteSetsExt, Functions

CONSTANTS
    Asked,          \* sequences of registered ids: the slots of a turn
    Histories,      \* history_chars: lengths of what is sent to a model
    Texts,          \* lengths of the prompt itself, no longer than the history
    Balances,       \* wallets, in millionths of a credit
    Counts,         \* tokens a provider reports for a prompt; 0 when it reports none
    Shown,          \* characters of one step of a provider; 0 when it thinks
    Fallbacks,      \* <<asked, served>>: models a provider falls back on
    Chunk           \* bound: tokens of one step of a provider

Assumptions ==
    /\ Asked \subseteq Seq(RegisteredIds) /\ Fallbacks \subseteq RegisteredIds \X RegisteredIds
    /\ Histories \subseteq Nat /\ Texts \subseteq Nat /\ Counts \subseteq Nat /\ Shown \subseteq Nat
    /\ Balances \subseteq Int /\ Chunk \in Nat \ {0}

VARIABLES
    turn,       \* what run_turn was given; models = <<>> before it
    slots,      \* one record per model; <<>> when the turn is refused
    stopped     \* stop_event

vars == <<turn, slots, stopped>>

Efforts == {"low", "medium", "high"}
Turns == {t \in [models : Asked, history : Histories, text : Texts, effort : Efforts,
                 balance : Balances] : t.text <= t.history}
NoTurn == [models |-> <<>>, history |-> 0, text |-> 0, effort |-> "medium", balance |-> 0]

SlotStates == {"streaming", "closed", "empty", "charged"}
FinishReasons == {"stop", "length", "refusal", "interrupted", "error"}

TypeOK ==
    /\ turn \in Turns \cup {NoTurn} /\ stopped \in BOOLEAN
    /\ Len(slots) \in {0, Len(turn.models)}
    /\ \A i \in DOMAIN slots :
          /\ slots[i].state \in SlotStates /\ slots[i].finish \in FinishReasons
          /\ slots[i].text \in Nat /\ slots[i].tokens <= slots[i].max
          /\ slots[i].text > 0 => slots[i].tokens > 0
          /\ slots[i].max >= 512 /\ slots[i].max <= GetSpec(turn.models[i]).maxOutput
          /\ slots[i].serving \in RegisteredIds
          /\ slots[i].served \in RegisteredIds \cup {"none", "unregistered"}
          /\ slots[i].state = "charged" <=> slots[i].cost > 0

Init == turn = NoTurn /\ slots = <<>> /\ stopped = FALSE

-----------------------------------------------------------------------------
(* The plan.                                                               *)

MinOutputTokens == 512
SystemSlack == 64

MaxOutputTokensByEffort == [low |-> 4096, medium |-> 8192, high |-> 16384]

EstimateTokens(chars) == (chars + 3) \div 4

PromptTokens(t) == EstimateTokens(t.history) + SystemSlack

PromptCost(spec, t) == PromptTokens(t) * InputRate(spec)

SlipMinimum(spec, t) == PromptCost(spec, t)

Minimum(spec, t) == PromptCost(spec, t) + MinOutputTokens * OutputRate(spec)

\* available < minimum, with available = balance / share
CannotAfford(spec, t) == t.balance < Len(t.models) * Minimum(spec, t)

AffordableTokens(spec, t) ==
    (t.balance - Len(t.models) * PromptCost(spec, t)) \div (Len(t.models) * OutputRate(spec))

MaxOutputTokens(spec, t) ==
    Max({MinOutputTokens,
         Min({MaxOutputTokensByEffort[t.effort], AffordableTokens(spec, t), spec.maxOutput})})

\* tokens and text: what the provider has produced, and the characters of it that
\* the client has; prompt and completion: usage.
NewSlot(model, t) ==
    [state |-> "streaming", max |-> MaxOutputTokens(GetSpec(model), t), tokens |-> 0, text |-> 0,
     serving |-> model, prompt |-> 0, completion |-> 0, served |-> "none", finish |-> "stop",
     billed |-> "none", cost |-> 0]

\* Any slot beyond the wallet refuses the whole turn.
Plan(t) ==
    /\ turn' = t
    /\ slots' = IF \E i \in DOMAIN t.models : CannotAfford(GetSpec(t.models[i]), t) THEN <<>>
                ELSE [i \in DOMAIN t.models |-> NewSlot(t.models[i], t)]
    /\ UNCHANGED stopped

-----------------------------------------------------------------------------
(* The stream.                                                             *)

Streaming(i) == i \in DOMAIN slots /\ slots[i].state = "streaming"

\* Claude only: a declined request goes on with a fallback model in the same call.
FallBack(i) ==
    /\ Streaming(i) /\ slots[i].tokens = 0
    /\ \E pair \in Fallbacks :
          /\ pair[1] = turn.models[i]
          /\ slots' = [slots EXCEPT ![i].serving = pair[2]]
    /\ UNCHANGED <<turn, stopped>>

Produce(i, chars) ==
    /\ Streaming(i) /\ ~stopped /\ slots[i].tokens < slots[i].max
    /\ LET more == Min({Chunk, slots[i].max - slots[i].tokens}) IN
       slots' = [slots EXCEPT ![i].tokens = @ + more, ![i].text = @ + chars]
    /\ UNCHANGED <<turn, stopped>>

\* The client stops the turn or is gone.
Stop ==
    /\ \E i \in DOMAIN slots : Streaming(i)
    /\ ~stopped /\ stopped' = TRUE
    /\ UNCHANGED <<turn, slots>>

Provider(i) == GetSpec(turn.models[i]).provider

\* finish_reason "interrupted" overrides the adapter's unless it raised.
FinishAs(reason) == IF stopped THEN "interrupted" ELSE reason

\* The last event of a stream: either count may be missing, the model may go by a
\* name the registry lacks.  OpenAI's response.incomplete does not name it to outcome.
Recorded(slot, prompt, completion, name, finish) ==
    [slot EXCEPT !.state = "closed", !.finish = finish, !.served = name,
                 !.prompt = prompt, !.completion = completion]

Complete(i, prompt, completion, name) ==
    /\ Streaming(i) /\ slots[i].tokens > 0
    /\ name \in {slots[i].serving, "unregistered"}
             \cup IF Provider(i) = "openai" /\ slots[i].tokens = slots[i].max THEN {"none"} ELSE {}
    /\ slots' = [slots EXCEPT ![i] = Recorded(@, prompt, completion, name,
                     FinishAs(IF slots[i].tokens = slots[i].max THEN "length" ELSE "stop"))]
    /\ UNCHANGED <<turn, stopped>>

\* A declined reply: Claude raises ModelRefusedError whatever has been streamed,
\* Gemini only when nothing has: otherwise its reply just ends there.
Raises(i) == Provider(i) = "anthropic" \/ slots[i].text = 0

Decline(i, prompt, completion, name) ==
    /\ Streaming(i) /\ Provider(i) \in {"anthropic", "google"}
    /\ name \in {slots[i].serving, "unregistered"}
    /\ slots' = [slots EXCEPT ![i] =
                    Recorded(@, prompt, completion, name,
                             IF Raises(i) THEN "refusal" ELSE FinishAs("refusal"))]
    /\ UNCHANGED <<turn, stopped>>

\* An error of the provider, of the network, or the timeout of the stream.
Fail(i) ==
    /\ Streaming(i)
    /\ slots' = [slots EXCEPT ![i].state = "closed", ![i].finish = "error"]
    /\ UNCHANGED <<turn, stopped>>

\* _stream_until closes the generator: no final event is ever seen.
Interrupt(i) ==
    /\ Streaming(i) /\ stopped
    /\ slots' = [slots EXCEPT ![i].state = "closed", ![i].finish = "interrupted"]
    /\ UNCHANGED <<turn, stopped>>

-----------------------------------------------------------------------------
(* The settlement.                                                         *)

\* Usage.ensure_validity: estimates from the prompt's text and the reply's.
EnsureValidity(slot) ==
    [slot EXCEPT !.prompt = IF @ <= 0 THEN EstimateTokens(turn.text) ELSE @,
                 !.completion = IF @ <= 0 THEN EstimateTokens(slot.text) ELSE @]

BilledModel(i) == IF IsSupported(slots[i].served) THEN slots[i].served ELSE turn.models[i]

Settle(i) ==
    /\ i \in DOMAIN slots /\ slots[i].state = "closed"
    /\ LET valid == EnsureValidity(slots[i]) IN
       slots' = [slots EXCEPT ![i] =
           IF valid.text = 0 THEN [valid EXCEPT !.state = "empty"]
           ELSE [valid EXCEPT !.state = "charged", !.billed = BilledModel(i),
                   !.cost = PriceInCredits(valid.prompt, valid.completion, GetSpec(BilledModel(i)))]]
    /\ UNCHANGED <<turn, stopped>>

\* The next turn.
Finished ==
    /\ turn # NoTurn /\ \A i \in DOMAIN slots : slots[i].state \in {"empty", "charged"}
    /\ turn' = NoTurn /\ slots' = <<>> /\ stopped' = FALSE

Next ==
    \/ turn = NoTurn /\ \E t \in Turns : Plan(t)
    \/ Stop \/ Finished
    \/ \E i \in DOMAIN slots :
          \/ FallBack(i) \/ Fail(i) \/ Interrupt(i) \/ Settle(i)
          \/ \E chars \in Shown : Produce(i, chars)
          \/ \E prompt \in Counts, completion \in {0, slots[i].tokens},
                name \in {slots[i].serving, "none", "unregistered"} :
                Complete(i, prompt, completion, name) \/ Decline(i, prompt, completion, name)

Spec == Init /\ [][Next]_vars

-----------------------------------------------------------------------------
(* Properties.                                                             *)

Charged(i) == slots[i].state = "charged"

Costs == SumFunction([i \in DOMAIN slots |-> slots[i].cost])

Over(a, b) == Max({0, a - b})

\* What plan_budget cannot foresee of a reply: a prompt the provider counts higher
\* than the estimate (instructions, images and uploads, another tokenizer), a reply
\* whose estimate is above its ceiling, and a model dearer than the one asked for.
Beyond(i) ==
    LET asked == GetSpec(turn.models[i])
        billed == GetSpec(slots[i].billed)
    IN  Over(slots[i].prompt, PromptTokens(turn)) * InputRate(billed)
        + Over(slots[i].completion, slots[i].max) * OutputRate(billed)
        + PromptTokens(turn) * Over(InputRate(billed), InputRate(asked))
        + slots[i].max * Over(OutputRate(billed), OutputRate(asked))

Unforeseen == SumFunction([i \in DOMAIN slots |-> IF Charged(i) THEN Beyond(i) ELSE 0])

\* plan_budget: "a turn on a model the balance cannot cover is refused up front,
\* and an affordable one has its output ceiling lowered to fit"
\* (chat_service.py:168-170).  The replies of all slots together cost no more
\* than the balance the turn was planned on and what the plan cannot foresee.  (A
\* turn that was refused has no replies, however far its wallet is overdrawn.)
CostIsBounded == slots # <<>> => Costs <= turn.balance + Unforeseen

\* "Without this a failed usage report would bill the user zero" (usage.py:40):
\* text that reached the client is charged, however the stream ended, for the
\* provider's tokens or for the estimate of it.
TextIsCharged ==
    \A i \in DOMAIN slots :
        /\ Charged(i) => slots[i].cost >= Min({slots[i].tokens, EstimateTokens(slots[i].text)})
                                             * OutputRate(GetSpec(slots[i].billed))
        /\ slots[i].state = "empty" => slots[i].text = 0

\* A reply whose stream ended by itself is billed as the model that the provider
\* says has served it, when the registry knows that model.
NamedIsBilled ==
    \A i \in DOMAIN slots :
        Charged(i) /\ slots[i].finish \in {"stop", "refusal"} /\ slots[i].served # "unregistered" =>
            slots[i].billed = slots[i].serving

\* A turn's bill lies between what was shown and what the wallet held with what the
\* plan cannot foresee, and is the serving model's, whatever usage is missing,
\* whoever declines and whenever the stream stops (plan_budget, ensure_validity,
\* _generate_slot).
BillIsInBounds == CostIsBounded /\ TextIsCharged /\ NamedIsBilled

\* "An affordable one has its output ceiling lowered to fit"
\* (chat_service.py:169-170): no turn costs more than the balance it was planned on.
TurnIsCovered == slots # <<>> => Costs <= turn.balance

\* "A request can never be served by one model and billed at another's rate"
\* (README.md:79-80).
ServedIsBilled == \A i \in DOMAIN slots : Charged(i) => slots[i].billed = slots[i].serving

\* "Bill for whatever was produced, even if the client vanished mid-stream"
\* (chat.py:805); "thinking tokens are billed as output" (gemini_adapter.py:88).
ProducedIsCharged ==
    \A i \in DOMAIN slots : Charged(i) => slots[i].completion >= slots[i].tokens
=============================================================================
