----------------------------- MODULE Catalogue -----------------------------
(***************************************************************************)
(* The model registry of app/services/llm/models.py.                       *)
(*                                                                         *)
(* Wallets hold six decimals of a credit; here and in the modules that     *)
(* price something an amount is a whole number of millionths of a credit.  *)
(* A price in cents per million tokens, times PROFIT_MARGIN 4 and          *)
(* USD_TO_CREDITS_RATE 10, is 2/5 of a millionth per token for every cent: *)
(* all rates are whole, so price_in_credits never rounds.                  *)
(***************************************************************************)
EXTENDS Integers, Sequences

ModelSpec(id, provider, input, output, max, reasoning) ==
    [id |-> id, provider |-> provider, input |-> input, output |-> output,
     maxOutput |-> max, reasoning |-> reasoning]

\* MODEL_REGISTRY: cents per million tokens in and out, and the output limit.
Registry ==
    {ModelSpec("gpt-5.5-pro", "openai", 3000, 18000, 128000, TRUE),
     ModelSpec("gpt-5.5", "openai", 500, 3000, 128000, TRUE),
     ModelSpec("gpt-5.4", "openai", 250, 1500, 128000, TRUE),
     ModelSpec("gpt-5.4-mini", "openai", 75, 450, 128000, TRUE),
     ModelSpec("gpt-5.4-nano", "openai", 20, 125, 128000, TRUE),
     ModelSpec("claude-fable-5-1", "anthropic", 1000, 5000, 128000, TRUE),
     ModelSpec("claude-opus-5", "anthropic", 500, 2500, 128000, TRUE),
     ModelSpec("claude-sonnet-5", "anthropic", 200, 1000, 128000, TRUE),
     ModelSpec("claude-haiku-4-5", "anthropic", 100, 500, 64000, FALSE),
     ModelSpec("gemini-3.1-pro-preview", "google", 200, 1200, 65536, TRUE),
     ModelSpec("gemini-3.8-flash", "google", 75, 375, 65536, TRUE),
     ModelSpec("gemini-3.5-flash-lite", "google", 30, 250, 65536, TRUE)}

RegisteredIds == {spec.id : spec \in Registry}

LegacyAliases ==
    {<<"gpt-5.2-pro", "gpt-5.5-pro">>, <<"gpt-5.2", "gpt-5.5">>, <<"gpt-5-mini", "gpt-5.4-mini">>,
     <<"claude-4.5-opus", "claude-opus-5">>, <<"claude-4.5-sonnet", "claude-sonnet-5">>,
     <<"claude-4.5-haiku", "claude-haiku-4-5">>,
     <<"gemini-3-pro-preview", "gemini-3.1-pro-preview">>,
     <<"gemini-3-flash-preview", "gemini-3.8-flash">>,
     <<"gemini-2.5-pro", "gemini-3.1-pro-preview">>, <<"gemini-2.5-flash", "gemini-3.8-flash">>}

ResolveModelId(model) ==
    IF \E pair \in LegacyAliases : pair[1] = model
    THEN (CHOOSE pair \in LegacyAliases : pair[1] = model)[2]
    ELSE model

\* get_spec raises UnknownModelError for every other id.
IsSupported(model) == ResolveModelId(model) \in RegisteredIds

GetSpec(model) == CHOOSE spec \in Registry : spec.id = ResolveModelId(model)

\* The models a routed turn goes to.
RoutingDefaults ==
    [coding |-> "claude-opus-5", reasoning |-> "gpt-5.5",
     long_context |-> "gemini-3.1-pro-preview", data |-> "gemini-3.1-pro-preview",
     creative |-> "claude-sonnet-5", fast |-> "gemini-3.8-flash", default |-> "claude-sonnet-5"]

InputRate(spec) == (spec.input * 2) \div 5
OutputRate(spec) == (spec.output * 2) \div 5

PriceInCredits(prompt, completion, spec) ==
    prompt * InputRate(spec) + completion * OutputRate(spec)
=============================================================================
