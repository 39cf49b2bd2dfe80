-------------------------------- MODULE Wire --------------------------------
(***************************************************************************)
(* How one conversation is written for three providers: split_system of    *)
(* app/services/llm/base.py, ChatMessage of app/services/llm/schema.py and *)
(* the request builders of the adapters.  A message is whether it has      *)
(* text, and its attachments; what a provider is sent is a sequence of     *)
(* turns whose parts are <<message, 0>> for the text of a message and      *)
(* <<message, n>> for its n-th attachment.  The messages are those that    *)
(* run_turn hands over: the stored ones without attachments, then the      *)
(* prompt with them (Context).  A definition named Slip... is the one      *)
(* after it with a plausible mistake; no action uses it.                   *)
(***************************************************************************)
EXTENDS Integers, SequencesExt, Lists

CONSTANTS
    MaxMessages,    \* bound: messages of a conversation
    MaxFiles        \* bound: attachments of a prompt

VARIABLE messages

Assumptions == MaxMessages \in Nat /\ MaxFiles \in Nat

\* Kinds of attachments: an image may turn out not to be base64.
Kinds == {"text", "image", "corrupt"}

Message == [role : {"user", "assistant"}, text : BOOLEAN, files : BoundedSeq(Kinds, MaxFiles)]

TypeOK ==
    /\ messages \in Seq(Message) /\ Len(messages) <= MaxMessages
    /\ \A i \in DOMAIN messages : messages[i].files # <<>> => i = Len(messages)

Init == messages = <<>>

-----------------------------------------------------------------------------
(* The requests.                                                           *)

\* split_system leaves out what has neither text nor attachments.
SplitSystem == Keep([i \in DOMAIN messages |-> i],
                    {i \in DOMAIN messages : messages[i].text \/ messages[i].files # <<>>})

TextPart(i) == IF messages[i].text THEN <<<<i, 0>>>> ELSE <<>>

FileParts(i, kinds) ==
    LET files == messages[i].files
        chosen == Keep([n \in DOMAIN files |-> n], {n \in DOMAIN files : files[n] \in kinds})
    IN [k \in DOMAIN chosen |-> <<i, chosen[k]>>]

Images == {"image", "corrupt"}

Turn(i, parts) == [role |-> messages[i].role, parts |-> parts]

\* OpenAI: the text with the files folded in after it, then the images, which an
\* assistant's turn cannot carry.
ToResponsesInput(i) ==
    Turn(i, TextPart(i) \o FileParts(i, {"text"})
            \o IF messages[i].role = "user" THEN FileParts(i, Images) ELSE <<>>)

OpenAIInput == [k \in DOMAIN SplitSystem |-> ToResponsesInput(SplitSystem[k])]

\* Claude: attachments before the text.
Blocks(i) == FileParts(i, Kinds) \o TextPart(i)

SlipMerges(turns, i) == FALSE

Merges(turns, i) == turns # <<>> /\ Last(turns).role = messages[i].role

AddTurn(turns, i) ==
    IF Merges(turns, i) THEN [turns EXCEPT ![Len(turns)].parts = @ \o Blocks(i)]
    ELSE Append(turns, Turn(i, Blocks(i)))

\* The messages are added one by one (a fold, as a function for the provers).
ClaudeTurns ==
    LET kept == SplitSystem
        added[n \in 0..Len(kept)] == IF n = 0 THEN <<>> ELSE AddTurn(added[n - 1], kept[n])
    IN added[Len(kept)]

\* Gemini: what cannot be decoded is skipped, and a message that is left empty.
Parts(i) == TextPart(i) \o FileParts(i, {"text", "image"})

GeminiContents ==
    LET kept == Keep(SplitSystem, {i \in DOMAIN messages : Parts(i) # <<>>})
    IN [k \in DOMAIN kept |-> Turn(kept[k], Parts(kept[k]))]

-----------------------------------------------------------------------------
(* The conversation.                                                       *)

\* Attachments are not loaded again with a stored message.
Stored == [i \in DOMAIN messages |-> [messages[i] EXCEPT !.files = <<>>]]

Ask(text, files) ==
    /\ Len(messages) < MaxMessages /\ (text \/ files # <<>>)
    /\ messages' = Append(Stored, [role |-> "user", text |-> text, files |-> files])

\* A reply is never blank; none may come at all, and an arena stores several.
Answer ==
    /\ Len(messages) < MaxMessages /\ messages # <<>>
    /\ messages' = Append(Stored, [role |-> "assistant", text |-> TRUE, files |-> <<>>])

\* The last prompt is answered again, from its stored text.
LastPrompt == Max({i \in DOMAIN messages : messages[i].role = "user"})

Regenerate ==
    /\ \E i \in DOMAIN messages : messages[i].role = "user"
    /\ messages' = SubSeq(Stored, 1, LastPrompt)

\* The oldest message passes out of load_history's limit, which may leave a reply
\* without its prompt at the head.
Pass == Len(messages) > 1 /\ messages' = Tail(messages)

Next == \/ \E text \in BOOLEAN, files \in BoundedSeq(Kinds, MaxFiles) : Ask(text, files)
        \/ Answer \/ Regenerate \/ Pass

Spec == Init /\ [][Next]_messages

-----------------------------------------------------------------------------
(* Properties.                                                             *)

IsSent == messages # <<>> /\ Last(messages).role = "user"

\* Where the parts of a request stand: <<turn, number in the turn>>.
Places(turns) == UNION {{k} \X DOMAIN turns[k].parts : k \in DOMAIN turns}

PartAt(turns, p) == turns[p[1]].parts[p[2]]

Precedes(p, q) == p[1] < q[1] \/ (p[1] = q[1] /\ p[2] < q[2])

\* "Claude requires alternating user/assistant turns; merge neighbours"
\* (claude_adapter.py:81), for prompts without replies, arenas and dropped messages.
Alternates ==
    \A k \in 1..Len(ClaudeTurns) - 1 : ClaudeTurns[k].role # ClaudeTurns[k + 1].role

\* "Adapters translate these into each vendor's wire format" (schema.py:3): a
\* wire carries every text and attachment exactly once, in the order of their
\* messages and under their roles.
Carries(turns, kinds) ==
    /\ \A p, q \in Places(turns) :
          /\ PartAt(turns, p) = PartAt(turns, q) => p = q
          /\ PartAt(turns, p)[1] < PartAt(turns, q)[1] => Precedes(p, q)
    /\ {PartAt(turns, p) : p \in Places(turns)} =
          UNION {ToSet(TextPart(i) \o FileParts(i, kinds)) : i \in DOMAIN messages}
    /\ \A p \in Places(turns) : messages[PartAt(turns, p)[1]].role = turns[p[1]].role

IsCarried ==
    IsSent => /\ Carries(OpenAIInput, Kinds)
              /\ Carries(ClaudeTurns, Kinds)
              /\ Carries(GeminiContents, {"text", "image"})

\* No provider is sent an empty turn, and the prompt comes last: where it was
\* only files and is answered again nothing is left of it.
PromptComesLast ==
    /\ \A turn \in ToSet(OpenAIInput \o ClaudeTurns \o GeminiContents) : turn.parts # <<>>
    /\ IsSent /\ (Last(messages).text \/ Last(messages).files # <<>>) =>
          \A turns \in {OpenAIInput, ClaudeTurns} :
              <<Len(messages), IF Last(messages).text THEN 0 ELSE 1>> \in ToSet(Last(turns).parts)

\* Whatever was asked, left without a reply, answered twice, answered again or
\* cut at the limit, the three providers are sent one and the same conversation, each in a form
\* that it accepts (the adapters' request builders).
OneConversation == Alternates /\ IsCarried /\ PromptComesLast
=============================================================================
