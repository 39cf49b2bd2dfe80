------------------------------ MODULE Context ------------------------------
(***************************************************************************)
(* What a model is given: the conversation as load_history reads it back   *)
(* (app/services/chat_service.py), the prompt that ChatSession.run_turn    *)
(* puts at its end (app/api/v1/endpoints/chat.py), and the files staged in *)
(* Redis for it (upload_files_for_context, ChatCache).                     *)
(*                                                                         *)
(* Turns of one conversation follow each other here; ChatTurn has what     *)
(* happens when they do not.  The rows are in the order of created_at.  A  *)
(* definition named Slip... is the one after it with a plausible mistake;  *)
(* no action uses it.                                                      *)
(***************************************************************************)
EXTENDS Integers, FiniteSets, SequencesExt, Lists

CONSTANTS
    Models,     \* models a turn may name
    Text,       \* texts that are not empty
    File,       \* uploaded files
    Limit,      \* CHAT_HISTORY_LIMIT
    MaxTurns,   \* bound: turns
    MaxMoved    \* bound: stored replies that another model served

Assumptions == Limit \in Nat \ {0} /\ MaxTurns \in Nat /\ MaxMoved \in Nat /\ "" \notin Text

VARIABLES
    rows,       \* messages of the chat: a sequence of Message
    arena,      \* the conversation is an arena
    staged,     \* files whose content Redis holds
    uploaded,   \* files that were ever staged
    answering,  \* the models of the turn in flight
    wide,       \* run_turn's arena: the turn in flight has several models
    given,      \* history: model -> the list of messages it answers, while it does
    carried,    \* history: files given to the models with the prompt when it was sent
    turns       \* turns so far

vars == <<rows, arena, staged, uploaded, answering, wide, given, carried, turns>>

\* A row of messages; model is "" for a prompt, files what it lists.  History: asked
\* is the model whose slot the reply came from, which the row does not say.
Message == [role : {"user", "assistant"}, text : Text \cup {""}, model : Models \cup {""},
            asked : Models \cup {""}, files : SUBSET File]

TypeOK ==
    /\ rows \in Seq(Message) /\ arena \in BOOLEAN
    /\ staged \subseteq uploaded /\ uploaded \subseteq File
    /\ answering \subseteq Models /\ wide \in BOOLEAN /\ carried \subseteq File
    /\ given \in [Models -> Seq(Message)]
    /\ \A m \in Models : Len(given[m]) <= Limit
    /\ turns \in 0..MaxTurns

Init ==
    /\ rows = <<>> /\ staged = {} /\ uploaded = {} /\ answering = {} /\ carried = {}
    /\ arena \in BOOLEAN /\ wide = FALSE
    /\ given = [m \in Models |-> <<>>] /\ turns = 0

-----------------------------------------------------------------------------
IsPrompt(r) == r.role = "user"

\* The last n of a sequence.
Recent(s, n) == SubSeq(s, Len(s) - (IF n < Len(s) THEN n ELSE Len(s)) + 1, Len(s))

\* The rows that load_history's query matches; filtered is model_filter given.
Visible(s, m, filtered) == Keep(s, {r \in Message : filtered => IsPrompt(r) \/ r.model = m})

\* Rows that have text: load_history leaves the others out.
Written == {r \in Message : r.text # ""}

SlipLoadHistory(s, m, filtered) ==
    Recent(Keep(Visible(s, m, filtered), Written), Limit)

\* load_history: the newest rows, of which those without text are left out.
LoadHistory(s, m, filtered) ==
    Keep(Recent(Visible(s, m, filtered), Limit), Written)

\* The stored copy of the prompt was loaded: its rich version replaces it.
Stored(h, text) == h # <<>> /\ IsPrompt(Last(h)) /\ Last(h).text = text

Latest(text, files) == [role |-> "user", text |-> text, model |-> "", asked |-> "", files |-> files]

\* Rows are loaded without attachments.
Bare(s) == [i \in DOMAIN s |-> [s[i] EXCEPT !.files = {}]]

\* The list that generate_stream receives.
Prompted(s, m, filtered, text, files) ==
    LET h == Bare(LoadHistory(s, m, filtered)) IN
    Append(IF Stored(h, text) THEN Front(h) ELSE h, Latest(text, files))

LastPrompt == Max({i \in DOMAIN rows : IsPrompt(rows[i])})

\* A turn: the rows its transaction leaves, and what the models are given.
Begin(ms, kept, text, files) ==
    /\ answering = {} /\ turns < MaxTurns
    /\ turns' = turns + 1
    /\ rows' = kept
    /\ answering' = ms /\ wide' = (Cardinality(ms) > 1)
    /\ given' = [m \in Models |-> IF m \notin ms THEN <<>>
                                  ELSE Prompted(kept, m, wide', text, files)]
    /\ UNCHANGED <<arena, staged, uploaded>>

\* An arena compares at least two models, a chat has one.
Picks(ms) == IF arena THEN Cardinality(ms) > 1 ELSE Cardinality(ms) = 1

\* A prompt, which may consist of files only; it lists files that Redis may
\* have dropped meanwhile (_resolve_attachments logs that and goes on).
Send(ms, text, files) ==
    /\ Picks(ms)
    /\ files \subseteq uploaded
    /\ Begin(ms, Append(rows, Latest(text, files)), text, files \cap staged)
    /\ carried' = files \cap staged

\* edit_message_id: truncate_from the i-th message, which must be a prompt.
Edit(ms, i, text, files) ==
    /\ Picks(ms)
    /\ i \in DOMAIN rows /\ IsPrompt(rows[i])
    /\ files \subseteq uploaded
    /\ Begin(ms, Append(SubSeq(rows, 1, i - 1), Latest(text, files)), text, files \cap staged)
    /\ carried' = files \cap staged

\* delete_replies_after the last prompt; a regenerate has no attachments, and the
\* mode of the chat is not asked about.
Regenerate(ms) ==
    /\ ms # {}
    /\ \E i \in DOMAIN rows : IsPrompt(rows[i])
    /\ Begin(ms, SubSeq(rows, 1, LastPrompt), rows[LastPrompt].text, {})
    /\ UNCHANGED carried

Ends(m) ==
    /\ m \in answering
    /\ answering' = answering \ {m} /\ given' = [given EXCEPT ![m] = <<>>]

\* A reply is stored under the model that served it, which after a fallback of the
\* provider is another than the slot's; one without text never is.
Reply(m, served, text) ==
    /\ Ends(m)
    /\ served = m \/ Cardinality({i \in DOMAIN rows : rows[i].model # rows[i].asked}) < MaxMoved
    /\ rows' = Append(rows, [role |-> "assistant", text |-> text, model |-> served, asked |-> m,
                             files |-> {}])
    /\ UNCHANGED <<arena, staged, uploaded, wide, carried, turns>>

\* It failed, or produced nothing.
NoReply(m) ==
    /\ Ends(m)
    /\ UNCHANGED <<rows, arena, staged, uploaded, wide, carried, turns>>

\* upload_files_for_context puts extracted content under a fresh id, for CACHE_TTL_SECONDS.
Upload(f) ==
    /\ f \notin uploaded
    /\ staged' = staged \cup {f} /\ uploaded' = uploaded \cup {f}
    /\ UNCHANGED <<rows, arena, answering, wide, given, carried, turns>>

Expire(f) ==
    /\ f \in staged
    /\ staged' = staged \ {f}
    /\ UNCHANGED <<rows, arena, uploaded, answering, wide, given, carried, turns>>

Next ==
    \/ \E ms \in SUBSET Models, text \in Text \cup {""}, files \in SUBSET File :
          /\ text = "" => files # {}
          /\ \/ Send(ms, text, files)
             \/ \E i \in DOMAIN rows : Edit(ms, i, text, files)
    \/ \E ms \in SUBSET Models : Regenerate(ms)
    \/ \E m \in Models : NoReply(m) \/ \E served \in Models, text \in Text : Reply(m, served, text)
    \/ \E f \in File : Upload(f) \/ Expire(f)

Spec == Init /\ [][Next]_vars

-----------------------------------------------------------------------------
(* Properties.                                                             *)

\* While models answer, the last row is the prompt or a reply to it; what came
\* before the prompt.
Before == SubSeq(rows, 1, LastPrompt - 1)

\* What a turn needs of load_history: the prompt comes once, at the end, and
\* before it the text of the Limit - 1 messages that precede it, whether the
\* prompt has text of its own, repeats an earlier one, or follows prompts nobody
\* answered; and no file of another prompt (_resolve_attachments).  In an arena the
\* replies are those "produced by that model" (load_history's docstring), which is
\* the model a row is stored under: OwnThread asks for those of its slot.
GivenIsConversation ==
    \A m \in answering :
        /\ Last(given[m]).text = rows[LastPrompt].text
        /\ Front(given[m]) =
              Bare(Keep(Recent(Visible(Before, m, wide), Limit - 1), Written))
        /\ Last(given[m]).files \subseteq rows[LastPrompt].files

\* "So in an arena each model continues its own thread of the conversation"
\* (load_history's docstring, app/services/chat_service.py:75): it is given the
\* prompts and what its slot has answered.
OfSlot(m) == {r \in Message : IsPrompt(r) \/ r.asked = m}

OwnThread ==
    arena => \A m \in answering :
        Front(given[m]) = Bare(Keep(Recent(Keep(Before, OfSlot(m)), Limit - 1), Written))

\* "This query returns the previous turns only" (app/api/v1/endpoints/chat.py:647):
\* the history is as long as the setting says, and the prompt is not part of it.
HistoryIsPrevious ==
    \A m \in answering : Front(given[m]) = Bare(LoadHistory(Before, m, wide))

\* "Re-answers the last prompt" (README.md:177): a model that answers again is
\* given the files that came with the prompt.
SamePromptAgain == \A m \in answering : Last(given[m]).files = carried
=============================================================================
