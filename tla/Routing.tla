------------------------------ MODULE Routing ------------------------------
(***************************************************************************)
(* From the payload of a turn to the models that answer it and the reason  *)
(* shown for each: the payloads of app/schemas/chat.py, resolve_models of  *)
(* app/services/chat_service.py, ModelRouter of                            *)
(* app/services/llm/router.py, and the steps of ChatSession.run_turn that  *)
(* use them.  A prompt is its length and how often each keyword family     *)
(* matches.  A definition named Slip... is the one after it with a         *)
(* plausible mistake; no action uses it.                                   *)
(***************************************************************************)
EXTENDS Catalogue, FiniteSetsExt

CONSTANTS
    Asked,      \* model ids clients send, "auto" and unknown ones among them
    Chars,      \* lengths of prompts
    MaxScore    \* bound: matches of a keyword family

\* A client may leave out the text (""), and the model ("auto").
Assumptions == Chars \subseteq Nat /\ 0 \in Chars /\ "auto" \in Asked /\ MaxScore \in Nat

VARIABLES
    pc,         \* "idle", "resolve", "label", "answered", "refused"
    payload,    \* what the client sent
    prompt,     \* the prompt the models were picked for
    answering,  \* resolve_models: the models of the turn, in slots
    labelled,   \* the prompt the reasons were picked for
    reasons     \* the intent of each slot

vars == <<pc, payload, prompt, answering, labelled, reasons>>

Families == {"coding", "reasoning", "creative", "data"}

\* An empty prompt matches nothing.
Prompts == {p \in [chars : Chars, score : [Families -> 0..MaxScore]] :
               p.chars = 0 => \A f \in Families : p.score[f] = 0}
NoPrompt == [chars |-> 0, score |-> [f \in Families |-> 0]]

\* UserMessagePayload and RegeneratePayload: one model, or two or three.
Lists == {<<>>} \cup [1..2 -> Asked] \cup [1..3 -> Asked]
Payloads == [regenerate : BOOLEAN, model : Asked, models : Lists]
NoPayload == [regenerate |-> FALSE, model |-> "auto", models |-> <<>>]

\* Only UserMessagePayload has the validator _distinct.
IsValid(p) ==
    ~p.regenerate => \A i, j \in DOMAIN p.models : p.models[i] = p.models[j] => i = j

TypeOK ==
    /\ pc \in {"idle", "resolve", "label", "answered", "refused"}
    /\ payload \in Payloads /\ prompt \in Prompts /\ labelled \in Prompts
    /\ Len(answering) \in 0..3 /\ Len(reasons) \in {0, Len(answering)}
    \* "Unknown ids are rejected before they reach a provider" (README.md:80).
    /\ \A i \in DOMAIN answering : answering[i] \in RegisteredIds
    /\ \A i \in DOMAIN reasons : reasons[i] \in DOMAIN RoutingDefaults \cup {"pinned"}

Init ==
    /\ pc = "idle" /\ payload = NoPayload /\ prompt = NoPrompt /\ labelled = NoPrompt
    /\ answering = <<>> /\ reasons = <<>>

-----------------------------------------------------------------------------
LongPromptChars == 4000
ShortPromptChars == 150

SlipLeads(p, family, others) == p.score[family] > 0

Leads(p, family, others) ==
    p.score[family] > 0 /\ \A f \in others : p.score[family] >= p.score[f]

\* ModelRouter.route tries these in turn; the first that fits decides.
Order == <<"coding", "long_context", "data", "reasoning", "creative", "fast", "default">>

Fits(p, intent) ==
    CASE intent = "coding" -> Leads(p, "coding", {"reasoning", "creative", "data"})
      [] intent = "long_context" -> p.chars > LongPromptChars
      [] intent = "data" -> Leads(p, "data", {"reasoning", "creative"})
      [] intent = "reasoning" -> Leads(p, "reasoning", {"creative", "data"})
      [] intent = "creative" -> p.score["creative"] > 0
      [] intent = "fast" -> p.chars < ShortPromptChars
      [] OTHER -> TRUE

Intent(p) == Order[Min({i \in DOMAIN Order : Fits(p, Order[i])})]

\* What is asked for: the listed models, or the one.
Named(p) == IF p.models = <<>> THEN <<p.model>> ELSE p.models

\* "auto" is scored as a preference only: in a list it is an unknown id.
IsAuto(p) == p.models = <<>> /\ p.model = "auto"

SlipResolved(model) == model

Resolved(model) == GetSpec(model).id

\* A turn arrives; an invalid payload never starts one.
Receive(p, q) ==
    /\ IsValid(p)
    /\ pc' = "resolve" /\ payload' = p /\ prompt' = q
    /\ UNCHANGED <<answering, labelled, reasons>>

\* resolve_models
Resolve ==
    /\ pc = "resolve"
    /\ IsAuto(payload) \/ \A i \in DOMAIN Named(payload) : IsSupported(Named(payload)[i])
    /\ answering' = IF IsAuto(payload) THEN <<RoutingDefaults[Intent(prompt)]>>
                    ELSE [i \in DOMAIN Named(payload) |-> Resolved(Named(payload)[i])]
    /\ pc' = "label"
    /\ UNCHANGED <<payload, prompt, labelled, reasons>>

Refuse ==
    /\ pc = "resolve"
    /\ ~IsAuto(payload) /\ \E i \in DOMAIN Named(payload) : ~IsSupported(Named(payload)[i])
    /\ pc' = "refused"
    /\ UNCHANGED <<payload, prompt, answering, labelled, reasons>>

\* The prompt when the reasons are picked: a turn that answers again has read it
\* a second time, after what another socket may have written.
Reread == IF IsAuto(payload) /\ payload.regenerate THEN Prompts ELSE {prompt}

\* The reasons sent with turn_start: an unlisted model is routed once more.
Label(q) ==
    /\ labelled' = q
    /\ reasons' = [i \in DOMAIN answering |-> IF IsAuto(payload) THEN Intent(q) ELSE "pinned"]
    /\ pc' = "answered"
    /\ UNCHANGED <<payload, prompt, answering>>

\* The next turn.
Again ==
    /\ pc \in {"answered", "refused"}
    /\ pc' = "idle" /\ payload' = NoPayload /\ prompt' = NoPrompt /\ labelled' = NoPrompt
    /\ answering' = <<>> /\ reasons' = <<>>

Next ==
    \/ pc = "idle" /\ \E p \in Payloads, q \in Prompts : Receive(p, q)
    \/ Resolve \/ Refuse
    \/ pc = "label" /\ \E q \in Reread : Label(q)
    \/ Again

Spec == Init /\ [][Next]_vars

-----------------------------------------------------------------------------
(* Properties.                                                             *)

Scored == pc = "answered" /\ IsAuto(payload)

\* "The highest-scoring family picks the model" (router.py) and coding wins
\* ties, for every combination of scores; a prompt that matches nothing goes by
\* its length.  Long prompts have a rule of their own.
HighestScoreWins ==
    Scored /\ prompt.chars <= LongPromptChars =>
        LET best == {f \in Families : \A g \in Families : prompt.score[f] >= prompt.score[g]} IN
        IF \A f \in Families : prompt.score[f] = 0
        THEN answering[1] = RoutingDefaults[IF prompt.chars < ShortPromptChars THEN "fast" ELSE "default"]
        ELSE /\ \E f \in best : answering[1] = RoutingDefaults[f]
             /\ "coding" \in best => answering[1] = RoutingDefaults["coding"]

\* "Arena models must be distinct" (schemas/chat.py:130).
ArenaIsDistinct ==
    \A i, j \in DOMAIN answering : answering[i] = answering[j] => i = j

\* "Prompts longer than this are routed to the large-context model regardless of
\* topic" (router.py:25).
LongGoesToLongContext ==
    Scored /\ prompt.chars > LongPromptChars => answering[1] = RoutingDefaults["long_context"]

\* "Its intent travels to the client as the reason shown" (chat.py:685-686): the
\* reason shown is one for which the router picks the model that answers.
ReasonFitsModel == Scored => answering[1] = RoutingDefaults[reasons[1]]
=============================================================================
