------------------------------ MODULE Packages ------------------------------
(***************************************************************************)
(* The credit packages and their endpoints:                                *)
(* app/api/v1/endpoints/packages.py, app/models/package.py,                *)
(* app/schemas/package.py.  Requests of administrators load, then commit,  *)
(* and SQLAlchemy writes only the columns whose value has changed since    *)
(* the load.  Buying is in Payments.  A definition named Slip... is the    *)
(* one after it with a plausible mistake; no action uses it.               *)
(***************************************************************************)
EXTENDS Integers, FiniteSets

CONSTANTS
    Ids,        \* packages that can be created
    Requests,   \* requests in flight at once
    Names,
    Prices,     \* prices as sent, in tenths of a cent
    Featured    \* what updates send for is_featured

VARIABLES
    rows,       \* the table, one entry per id
    requests    \* the state of each request

vars == <<rows, requests>>

\* Both flags are nullable, in the table and in PackageUpdate.
Flags == {"yes", "no", "null"}
None == [name |-> "none"]

Assumptions == Prices \subseteq Nat /\ Featured \subseteq Flags

Row == [name : Names, price : Nat, active : Flags, featured : Flags]

\* What a request sends: "unset" and -1 leave a field alone.
Creates == [name : Names, price : Prices, active : {"yes", "no"}, featured : {"no"}]
Updates == [name : Names \cup {"unset"}, price : Prices \cup {-1},
            active : Flags \cup {"unset"}, featured : Featured \cup {"unset"}]
Idle == [op |-> "idle"]

Exists(i) == rows[i] # None

TypeOK ==
    /\ rows \in [Ids -> Row \cup {None}]
    /\ \A q \in Requests :
          \/ requests[q] = Idle
          \/ requests[q].op = "create" /\ requests[q].body \in Creates
          \/ requests[q].op \in {"update", "delete"} /\ requests[q].body \in Updates
             /\ requests[q].loaded \in Row /\ Exists(requests[q].id)

Init ==
    /\ rows = [i \in Ids |-> None] /\ requests = [q \in Requests |-> Idle]

-----------------------------------------------------------------------------
\* Numeric(10, 2): a price is stored in cents.
Cents(price) == (price + 5) \div 10

NameTaken(name) == \E i \in Ids : Exists(i) /\ rows[i].name = name

\* create_package looks for the name; a taken one is answered 400.
CheckName(q, body) ==
    /\ requests[q] = Idle /\ ~NameTaken(body.name)
    /\ requests' = [requests EXCEPT ![q] = [op |-> "create", body |-> body]]
    /\ UNCHANGED rows

\* No index makes the name unique, so the commit's IntegrityError is never of the name.
CommitCreate(q, i) ==
    /\ requests[q].op = "create" /\ ~Exists(i)
    /\ LET body == requests[q].body IN
       rows' = [rows EXCEPT ![i] = [name |-> body.name, price |-> Cents(body.price),
                                    active |-> body.active, featured |-> body.featured]]
    /\ requests' = [requests EXCEPT ![q] = Idle]

Deactivate == [name |-> "unset", price |-> -1, active |-> "no", featured |-> "unset"]

Load(q, op, i, body) ==
    /\ requests[q] = Idle /\ Exists(i)
    /\ op = "delete" => body = Deactivate
    /\ requests' = [requests EXCEPT ![q] =
                       [op |-> op, id |-> i, body |-> body, loaded |-> rows[i]]]
    /\ UNCHANGED rows

SlipWritten(sent, loaded, stored, unset) == IF sent = unset THEN loaded ELSE sent

\* A column is written when it was sent and differs from the value that was loaded.
Written(sent, loaded, stored, unset) == IF sent = unset \/ sent = loaded THEN stored ELSE sent

\* The row as the commit of request q leaves it.
Changed(q) ==
    LET body == requests[q].body
        old == requests[q].loaded
        now == rows[requests[q].id]
    IN [name |-> Written(body.name, old.name, now.name, "unset"),
        price |-> IF body.price \in {-1, 10 * old.price} THEN now.price ELSE Cents(body.price),
        active |-> Written(body.active, old.active, now.active, "unset"),
        featured |-> Written(body.featured, old.featured, now.featured, "unset")]

\* Rows are never removed: deleting one only deactivates it.
CommitChange(q) ==
    /\ requests[q].op \in {"update", "delete"}
    /\ rows' = [rows EXCEPT ![requests[q].id] = Changed(q)]
    /\ requests' = [requests EXCEPT ![q] = Idle]

\* The database refuses the commit, or the connection is lost.
Fail(q) ==
    /\ requests[q] # Idle
    /\ requests' = [requests EXCEPT ![q] = Idle]
    /\ UNCHANGED rows

Next ==
    \E q \in Requests :
        \/ \E body \in Creates : CheckName(q, body)
        \/ \E i \in Ids : CommitCreate(q, i)
        \/ \E i \in Ids, op \in {"update", "delete"}, body \in Updates : Load(q, op, i, body)
        \/ CommitChange(q) \/ Fail(q)

Spec == Init /\ [][Next]_vars

-----------------------------------------------------------------------------
(* Reading.                                                                *)

\* read_packages without include_inactive.
Listed(i) == Exists(i) /\ rows[i].active = "yes"

\* PackageResponse: flags that are Booleans, a price above zero.
Serializes(i) == rows[i].active # "null" /\ rows[i].featured # "null" /\ rows[i].price > 0

(* Properties.                                                             *)

\* The rows that are row, but for columns that body was sent for.
Edits(row, body) ==
    [name : {row.name, body.name}, active : {row.active, body.active},
     featured : {row.featured, body.featured},
     price : {row.price} \cup (IF body.price = -1 THEN {} ELSE {Cents(body.price)})]

\* Request q commits what it was sent for row i.
Commits(q, i) ==
    /\ requests[q].op \in {"update", "delete"} /\ requests[q].id = i
    /\ requests'[q] = Idle

\* A request changes the columns it was sent and no other, though it loaded the
\* row before another request committed: no deletion is undone by an edit of the
\* name, no price by an edit of a flag (update_package, delete_package).
OnlyAskedChanges ==
    [][\A i \in Ids : Exists(i) /\ rows'[i] # rows[i] =>
          \E q \in Requests : Commits(q, i) /\ rows'[i] \in Edits(rows[i], requests[q].body)]_vars

\* "A package with this name already exists" (packages.py:57, 68).
NamesAreUnique ==
    \A i, j \in Ids : Exists(i) /\ Exists(j) /\ rows[i].name = rows[j].name => i = j

\* "List packages available for purchase" (packages.py:29): whatever updates have
\* stored, the list every buyer sees can be sent.
ListingWorks == \A i \in Ids : Listed(i) => Serializes(i)
=============================================================================
