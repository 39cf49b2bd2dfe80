---------------------------- MODULE Conversation ----------------------------
(***************************************************************************)
(* What a chat promises a user who talks in it from one place: a prompt is *)
(* added at the end, or in the place of an earlier one and of everything   *)
(* after it; a reply answers the last prompt; asking again removes the     *)
(* replies to the last prompt and nothing else; a chat goes as a whole.    *)
(***************************************************************************)
EXTENDS Naturals

CONSTANT Chat

VARIABLES chat, rows

vars == <<chat, rows>>

RowsOf(c) == {r \in rows : r.chat = c}
Newest(c, id) == \A r \in RowsOf(c) : r.id < id
\* p is the last prompt of c.
IsLastPrompt(c, p) ==
    /\ \E r \in RowsOf(c) : r.id = p /\ r.role = "user"
    /\ \A r \in RowsOf(c) : r.role = "user" => r.id <= p

Init == rows = {} /\ chat \in [Chat -> {"absent", "chat", "arena"}]

Opened(c) ==
    \/ chat[c] \in {"chat", "arena"} /\ UNCHANGED chat
    \/ chat[c] = "absent" /\ \E m \in {"chat", "arena"} : chat' = [chat EXCEPT ![c] = m]

\* A prompt, in the place of the messages from some prompt on, or at the end.
Ask(c) ==
    /\ Opened(c)
    /\ \E r \in rows' :
          /\ r.chat = c /\ r.role = "user" /\ r.parent = 0 /\ Newest(c, r.id)
          /\ \/ rows' = rows \cup {r}
             \/ \E t \in RowsOf(c) :
                   /\ t.role = "user"
                   /\ rows' = {x \in rows : x.chat = c => x.id < t.id} \cup {r}

Answer(c) ==
    \E r \in rows' :
        /\ rows' = rows \cup {r}
        /\ r.chat = c /\ r.role = "assistant" /\ Newest(c, r.id) /\ IsLastPrompt(c, r.parent)
        /\ UNCHANGED chat

AskAgain(c) ==
    /\ \E p \in RowsOf(c) :
          /\ IsLastPrompt(c, p.id)
          /\ rows' = {r \in rows : r.chat = c => r.id <= p.id}
    /\ UNCHANGED chat

OpenEmpty(c) ==
    /\ chat[c] = "absent" /\ Opened(c)
    /\ UNCHANGED rows

Drop(c) ==
    /\ chat' = [chat EXCEPT ![c] = "deleted"]
    /\ rows' = rows \ RowsOf(c)

Next == \E c \in Chat : Ask(c) \/ Answer(c) \/ AskAgain(c) \/ OpenEmpty(c) \/ Drop(c)

Spec == Init /\ [][Next]_vars
=============================================================================
