------------------------------ MODULE ChatRows ------------------------------
(***************************************************************************)
(* The row of one chat under its HTTP endpoints and the generated title:   *)
(* update_chat, share_chat, unshare_chat, delete_chat and                  *)
(* ChatSession._title_chat of app/api/v1/endpoints/chat.py.                *)
(*                                                                         *)
(* A request reads the row, decides, and commits an UPDATE by id of the    *)
(* columns whose value differs from what it read; nothing is locked in     *)
(* between.  An UPDATE of a row that is gone is an error.  A definition    *)
(* named Slip... is the one after it with a plausible mistake; no action   *)
(* uses it.                                                                *)
(***************************************************************************)
EXTENDS Integers, FiniteSets

CONSTANTS
    Request,    \* requests in flight at once, and the title task
    Token,      \* share tokens, never generated twice
    Title,      \* names a user may give; "fallback" and "generated" are not
    Op,         \* what is asked: "share", "unshare", "rename", "title", "delete"
    MaxAsked,   \* bound: requests ever made
    Nil         \* NULL

Assumptions ==
    /\ Nil \notin Token /\ MaxAsked \in Nat
    /\ Op \subseteq {"share", "unshare", "rename", "title", "delete"}

VARIABLES
    present,    \* the chat exists
    title,      \* chats.title
    token,      \* chats.share_token; the link /chat/shared/{token} works
    request,    \* Request -> its operation, next step and what it has read
    drawn,      \* tokens generated so far
    returned,   \* history: links that were given to the owner
    revoked,    \* history: links returned before an unshare, since answered, began
    unshared,   \* history: somebody has asked to unshare
    renamed,    \* history: the last name the user has given, or Nil
    asked       \* requests made

vars == <<present, title, token, request, drawn, returned, revoked, unshared, renamed, asked>>
history == <<returned, revoked, unshared, renamed>>

Idle == [op |-> "none", pc |-> "idle", title |-> Nil, was |-> Nil, token |-> Nil, known |-> {}]
AnyTitle == Title \cup {"fallback", "generated"}

TypeOK ==
    /\ present \in BOOLEAN /\ unshared \in BOOLEAN
    /\ title \in AnyTitle /\ token \in Token \cup {Nil}
    /\ drawn \subseteq Token /\ returned \cup revoked \subseteq drawn
    /\ token # Nil => token \in drawn
    /\ renamed \in Title \cup {Nil} /\ asked \in 0..MaxAsked
    /\ \A r \in Request : request[r].pc \in {"idle", "read", "commit", "refresh"}

Init ==
    /\ present = TRUE /\ title = "fallback" /\ token = Nil
    /\ request = [r \in Request |-> Idle]
    /\ drawn = {} /\ returned = {} /\ revoked = {} /\ unshared = FALSE
    /\ renamed = Nil /\ asked = 0

Finish(r) == request' = [request EXCEPT ![r] = Idle]

\* A request arrives; a rename carries its title, the title task one that was
\* generated meanwhile.
Ask(r, op, t) ==
    /\ request[r].pc = "idle" /\ asked < MaxAsked
    /\ asked' = asked + 1
    /\ request' = [request EXCEPT ![r] =
          [op |-> op, pc |-> "read", title |-> t, was |-> Nil, token |-> Nil, known |-> returned]]
    /\ unshared' = (unshared \/ op = "unshare")
    /\ UNCHANGED <<present, title, token, drawn, returned, revoked, renamed>>

\* "The user renamed it meanwhile": the title is not the fallback of the turn.
Untouched(r) == title = "fallback"

\* _owned_chat, or the title task's db.get, and the decision on what was read.
Read(r) ==
    LET q == request[r] IN
    /\ q.pc = "read"
    /\ \/ /\ ~present \/ (q.op = "title" /\ ~Untouched(r))
          /\ Finish(r) /\ UNCHANGED <<drawn, returned>>
       \/ /\ present /\ q.op = "share" /\ token # Nil
          /\ returned' = returned \cup {token}
          /\ Finish(r) /\ UNCHANGED drawn
       \/ /\ present /\ q.op = "share" /\ token = Nil
          /\ \E t \in Token \ drawn :
                /\ drawn' = drawn \cup {t}
                /\ request' = [request EXCEPT ![r].pc = "commit", ![r].was = title, ![r].token = t]
          /\ UNCHANGED returned
       \/ /\ present
          /\ q.op \in {"unshare", "rename", "delete"} \/ (q.op = "title" /\ Untouched(r))
          /\ request' = [request EXCEPT ![r].pc = "commit", ![r].was = title, ![r].token = token]
          /\ UNCHANGED <<drawn, returned>>
    /\ UNCHANGED <<present, title, token, revoked, unshared, renamed, asked>>

\* share_chat commits, and reads the row again for its answer.
CommitShare(r) ==
    /\ request[r].pc = "commit" /\ request[r].op = "share" /\ present
    /\ token' = request[r].token
    /\ request' = [request EXCEPT ![r].pc = "refresh"]
    /\ UNCHANGED <<present, title, drawn, history, asked>>

\* What db.refresh finds; no token or no row is a server error.
Refresh(r) ==
    /\ request[r].pc = "refresh"
    /\ returned' = IF present /\ token # Nil THEN returned \cup {token} ELSE returned
    /\ Finish(r)
    /\ UNCHANGED <<present, title, token, drawn, revoked, unshared, renamed, asked>>

SlipCleared(r) == token

\* unshare_chat sets NULL; where it has read NULL there is nothing to update.
Cleared(r) == IF request[r].token = Nil THEN token ELSE Nil

CommitUnshare(r) ==
    /\ request[r].pc = "commit" /\ request[r].op = "unshare"
    /\ present \/ request[r].token = Nil
    /\ token' = Cleared(r)
    /\ revoked' = revoked \cup request[r].known
    /\ Finish(r)
    /\ UNCHANGED <<present, title, drawn, returned, unshared, renamed, asked>>

\* update_chat, or the generated title; the title it has read is not written again.
CommitTitle(r) ==
    /\ request[r].pc = "commit" /\ request[r].op \in {"rename", "title"} /\ present
    /\ title' = IF request[r].title = request[r].was THEN title ELSE request[r].title
    /\ renamed' = IF request[r].op = "rename" THEN request[r].title ELSE renamed
    /\ Finish(r)
    /\ UNCHANGED <<present, token, drawn, returned, revoked, unshared, asked>>

\* delete_chat
CommitDelete(r) ==
    /\ request[r].pc = "commit" /\ request[r].op = "delete"
    /\ present' = FALSE
    /\ token' = Nil
    /\ Finish(r)
    /\ UNCHANGED <<title, drawn, history, asked>>

\* The row is gone, the database fails, or the process dies.
Fail(r) ==
    /\ request[r].pc # "idle"
    /\ Finish(r)
    /\ UNCHANGED <<present, title, token, drawn, history, asked>>

Next ==
    \E r \in Request :
        \/ Read(r) \/ CommitShare(r) \/ Refresh(r) \/ CommitUnshare(r) \/ CommitTitle(r)
        \/ CommitDelete(r) \/ Fail(r)
        \/ \E op \in Op :
              \E t \in CASE op = "rename" -> Title
                         [] op = "title" -> {"generated"}
                         [] OTHER -> {Nil} : Ask(r, op, t)

Spec == Init /\ [][Next]_vars

-----------------------------------------------------------------------------
(* Properties.                                                             *)

\* A link the owner held when asking to unshare is dead from the answer on,
\* whatever shares run at the same time (unshare_chat).
RevokedIsDead == token \notin revoked

\* "Create (or return) a public read-only link" (share_chat): a link that was
\* returned works until somebody asks to unshare, or deletes the chat.
ReturnedLinkWorks == present /\ ~unshared => returned \subseteq {token}

\* "The user renamed it meanwhile" (chat.py, _title_chat): a name the user has
\* given is never replaced by a generated one.
RenameIsKept == renamed # Nil => title # "generated"
=============================================================================
