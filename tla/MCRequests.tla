----------------------------- MODULE MCRequests -----------------------------
(***************************************************************************)
(* The HTTP endpoints that read, decide and commit: accounts, their        *)
(* administration, the rows of chats and the packages.  They share no row, *)
(* so one run takes them together: part says which of them an execution is *)
(* of, and the others do not move.                                         *)
(***************************************************************************)
EXTENDS Integers, TLC

CONSTANTS
    Slot,       \* requests in flight at once, of any endpoint
    Key,        \* accounts and packages
    Email, Password, Link, Bonus, MaxAttempts,
    Admin, Opening, Amount, MaxMoves,
    Token, Title,
    Name, Price, Featured,
    MaxRequests,   \* bound: requests of accounts or of administrators
    MaxAsked,      \* bound: requests about the chat
    Nil, NoWallet

VARIABLES
    part,
    accUsers, accWallet, links, mailed, access, call, answer, changed, admitted, shut, requests,
    admUsers, admWallet, desk, ledger, crossed, count,
    present, title, token, rowRequest, drawn, returned, revoked, unshared, renamed, asked,
    packages, editing

accounts == <<accUsers, accWallet, links, mailed, access, call, answer, changed, admitted, shut, requests>>
administration == <<admUsers, admWallet, desk, ledger, crossed, count>>
rows == <<present, title, token, rowRequest, drawn, returned, revoked, unshared, renamed, asked>>
catalogue == <<packages, editing>>
all == <<part, accounts, administration, rows, catalogue>>

\* Of the accounts, the module with their proofs: what it proves holds of the
\* instance too (RequestsProofs).
Acc == INSTANCE AccountsProofs WITH
    Handler <- Slot, Id <- Key, users <- accUsers, wallet <- accWallet,
    Operation <- {"signup", "google", "login", "forgot", "reset", "change", "delete"}

Adm == INSTANCE Administration WITH
    Desk <- Slot, User <- Key, users <- admUsers, wallet <- admWallet

RowOp == {"share", "unshare", "rename", "title", "delete"}

Rows == INSTANCE ChatRows WITH
    Request <- Slot, Op <- RowOp,
    request <- rowRequest

Pkg == INSTANCE Packages WITH
    Ids <- Key, Requests <- Slot, Names <- Name, Prices <- Price,
    rows <- packages, requests <- editing

ASSUME RequestsAssumption ==
    /\ NoWallet \notin Int
    /\ Acc!Assumptions /\ Adm!Assumptions /\ Rows!Assumptions /\ Pkg!Assumptions

Init ==
    /\ part \in {"accounts", "administration", "rows", "packages"}
    /\ Acc!Init /\ Adm!Init /\ Rows!Init /\ Pkg!Init

Next ==
    /\ UNCHANGED part
    /\ \/ part = "accounts" /\ Acc!Next /\ UNCHANGED <<administration, rows, catalogue>>
       \/ part = "administration" /\ Adm!Next /\ UNCHANGED <<accounts, rows, catalogue>>
       \/ part = "rows" /\ Rows!Next /\ UNCHANGED <<accounts, administration, catalogue>>
       \/ part = "packages" /\ Pkg!Next /\ UNCHANGED <<accounts, administration, rows>>

Spec == Init /\ [][Next]_all

\* Requests, keys and names are interchangeable.
Symmetry == Permutations(Slot) \cup Permutations(Key) \cup Permutations(Name)

-----------------------------------------------------------------------------
(* What is checked, of each component.                                     *)

\* Every row, every request in flight and every history has its form.
TypeOK ==
    CASE part = "accounts" -> Acc!TypeOK
      [] part = "administration" -> Adm!TypeOK
      [] part = "rows" -> Rows!TypeOK
      [] part = "packages" -> Pkg!TypeOK

\* A reset link lets one request in (consume_password_reset_token).
LinkAdmitsOnce == Acc!LinkAdmitsOnce

\* An address has one account, an account its wallet (create_user_with_wallet).
AccountIsWhole == Acc!AccountIsWhole

\* A request that began after a deactivation writes nothing (_load_active_user).
InactiveIsOut == Acc!InactiveIsOut

\* Only crossing requests remove the last administrator (update_user_admin).
LockoutNeedsARace == Adm!LockoutNeedsARace

\* A link that was known when unsharing was asked for is dead (unshare_chat).
RevokedIsDead == Rows!RevokedIsDead

\* An edit of a package changes what it was sent, no other column (update_package).
OnlyAskedChanges == Pkg!OnlyAskedChanges
-----------------------------------------------------------------------------
(* Promises of the documentation the code does not keep: named as an       *)
(* INVARIANT in the .cfg, TLC shows how each is broken (see README.md).    *)

\* A request refused as a duplicate did not create the account (auth.py:111).
DuplicateIsAnothers == Acc!DuplicateIsAnothers

\* A reset told to try again still has its link (auth.py:81).
TryAgainCanWork == Acc!TryAgainCanWork

\* There is always an administrator (manage_user.py:75).
AdminRemains == Adm!AdminRemains

\* A typed balance overwrites no charge (README.md:73).
BalanceIsLedger == Adm!BalanceIsLedger

\* A link that was returned works until it is revoked (chat.py:283).
ReturnedLinkWorks == Rows!ReturnedLinkWorks

\* A generated title replaces no name the user has given (chat.py:895).
RenameIsKept == Rows!RenameIsKept

\* No two packages have one name (packages.py:57).
NamesAreUnique == Pkg!NamesAreUnique

\* The list of packages can be sent (packages.py:29).
ListingWorks == Pkg!ListingWorks
=============================================================================
