----------------------------- MODULE MCContents -----------------------------
(***************************************************************************)
(* What a turn and a media request are made of: the models that answer,    *)
(* the messages they are given, the form each provider gets them in, and   *)
(* the prices.  The five components share no state, so one run takes them  *)
(* together: part says which of them an execution is of, and the others do *)
(* not move.                                                               *)
(***************************************************************************)
EXTENDS Integers, TLC

CONSTANTS
    Models, Text, File, Limit, MaxTurns, MaxMoved,   \* Context; models alike, texts alike
    Asked, Chars, MaxScore,                     \* Routing
    Slots, Histories, Texts, Balances, Counts, Shown, Fallbacks, Chunk,   \* Generation
    MaxMessages, MaxFiles,                      \* Wire
    Blanks, Bodies                              \* MediaPrices

VARIABLES
    part,
    rows, arena, staged, uploaded, answering, wide, given, carried, turns,
    routing, payload, routed, models, labelled, reasons,
    turn, slots, stopped,
    messages,
    config, pc, request, charged, spoken

context == <<rows, arena, staged, uploaded, answering, wide, given, carried, turns>>
router == <<routing, payload, routed, models, labelled, reasons>>
generation == <<turn, slots, stopped>>
prices == <<config, pc, request, charged, spoken>>

Ctx == INSTANCE Context

Rt == INSTANCE Routing WITH pc <- routing, prompt <- routed, answering <- models

Gen == INSTANCE Generation WITH Asked <- Slots

Wr == INSTANCE Wire

Mp == INSTANCE MediaPrices

ASSUME ContentsAssumption ==
    Ctx!Assumptions /\ Rt!Assumptions /\ Gen!Assumptions /\ Wr!Assumptions /\ Mp!Assumptions

Parts == {"context", "routing", "generation", "wire", "prices"}

Init ==
    /\ part \in Parts
    /\ Ctx!Init /\ Rt!Init /\ Gen!Init /\ Wr!Init /\ Mp!Init
    /\ part # "context" => ~arena
    /\ part # "prices" => config = CHOOSE c \in Mp!Settings : TRUE

Next ==
    /\ UNCHANGED part
    /\ \/ part = "context" /\ Ctx!Next /\ UNCHANGED <<router, generation, messages, prices>>
       \/ part = "routing" /\ Rt!Next /\ UNCHANGED <<context, generation, messages, prices>>
       \/ part = "generation" /\ Gen!Next /\ UNCHANGED <<context, router, messages, prices>>
       \/ part = "wire" /\ Wr!Next /\ UNCHANGED <<context, router, generation, prices>>
       \/ part = "prices" /\ Mp!Next /\ UNCHANGED <<context, router, generation, messages>>

Spec == Init /\ [][Next]_<<part, context, router, generation, messages, prices>>

-----------------------------------------------------------------------------
(* The values of the constants that a .cfg cannot write.                   *)

\* One model of each provider alone, and an arena of two.
OneEachAndTwo == {<<"claude-fable-5-1">>, <<"gpt-5.5">>, <<"gemini-3.8-flash">>,
                  <<"gpt-5.4-nano", "claude-opus-5">>}

\* Tokens of the prompt, its price and the 512 tokens a reply must have room for,
\* as literals: wallets one millionth below and at what the slots of one of them
\* need, and one that pays for more.
Rates == {<<1, 400, 2000>>, <<1, 200, 1200>>, <<1, 30, 150>>, <<2, 200, 1000>>}
AtTheMinimum == UNION {LET need == r[1] * (315 * r[2] + 512 * r[3]) IN
                       {need - 1, need} : r \in Rates} \cup {5000001}

\* A model that is cheaper than the one asked for, and one that is dearer.
ClaudeFallbacks == {<<"claude-fable-5-1", "claude-opus-5">>, <<"claude-opus-5", "claude-fable-5-1">>}

\* Models and texts of Context are interchangeable.
Symmetry == Permutations(Models) \cup Permutations(Text)

-----------------------------------------------------------------------------
(* What is checked, of each component.                                     *)

\* Rows, plans, slots, routes and requests have their form.
TypeOK ==
    /\ part \in Parts
    /\ part = "context" => Ctx!TypeOK
    /\ part = "routing" => Rt!TypeOK
    /\ part = "generation" => Gen!TypeOK
    /\ part = "wire" => Wr!TypeOK
    /\ part = "prices" => Mp!TypeOK

\* A model is given the conversation before the prompt, and the prompt once
\* (load_history, run_turn).
GivenIsConversation == Ctx!GivenIsConversation

\* The chain of comparisons finds the best family (ModelRouter.route).
HighestScoreWins == Rt!HighestScoreWins

\* A turn's bill covers what was shown and is covered by the wallet (plan_budget,
\* _generate_slot).
BillIsInBounds == Gen!BillIsInBounds

\* Three wire formats carry one conversation (the adapters).
OneConversation == Wr!OneConversation

\* A media charge is for what was offered, and pays for what is delivered (media.py).
ChargedIsDelivered == Mp!ChargedIsDelivered

\* What is shown as enabled is what can be done, but for half a configuration
\* (public_features).
ShownIsAble == Mp!ShownIsAble
-----------------------------------------------------------------------------
(* Promises of the documentation the code does not keep: named as an       *)
(* INVARIANT in the .cfg, TLC shows how each is broken (see README.md).    *)

\* A model of an arena is given its own thread (chat_service.py:74).
OwnThread == Ctx!OwnThread

\* The history is as long as the setting says (chat.py:647).
HistoryIsPrevious == Ctx!HistoryIsPrevious

\* A prompt answered again has its files (README.md:177).
SamePromptAgain == Ctx!SamePromptAgain

\* The models of an arena are distinct (schemas/chat.py:130).
ArenaIsDistinct == Rt!ArenaIsDistinct

\* A long prompt goes to the large-context model (router.py:25).
LongGoesToLongContext == Rt!LongGoesToLongContext

\* The reason shown is the reason of the choice (chat.py:685).
ReasonFitsModel == Rt!ReasonFitsModel

\* A turn costs no more than the balance that admitted it (chat_service.py:169).
TurnIsCovered == Gen!TurnIsCovered

\* A reply is billed at the rate of the model that served it (README.md:79).
ServedIsBilled == Gen!ServedIsBilled

\* Whatever was produced is billed (chat.py:805).
ProducedIsCharged == Gen!ProducedIsCharged

\* What is shown as enabled can be done (README.md:135).
EnabledCanWork == Mp!EnabledCanWork

\* An unlisted Google voice has the Neural2 rate (tts.py:177).
UnlistedAtNeural2 == Mp!UnlistedAtNeural2

\* What is queued has its provider's key (README.md:133).
MissingKeyDisables == Mp!MissingKeyDisables

\* What is charged for was offered (media.py:80).
AcceptedIsListed == Mp!AcceptedIsListed
=============================================================================
