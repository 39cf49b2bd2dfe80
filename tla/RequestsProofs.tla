--------------------------- MODULE RequestsProofs ---------------------------
(***************************************************************************)
(* The endpoints that read, decide and commit, taken together: what        *)
(* AccountsProofs shows of its component holds of the specification that   *)
(* composes it with the others; and the proofs about Packages,             *)
(* Administration and ChatRows, for any number of requests, accounts,      *)
(* packages, amounts, share tokens and names.                              *)
(***************************************************************************)
EXTENDS MCRequests, TLAPS

-----------------------------------------------------------------------------
(* Packages.                                                               *)

Loaded == [op : {"update", "delete"}, id : Key, body : Pkg!Updates, loaded : Pkg!Row]
Checked == [op : {"create"}, body : Pkg!Creates]

\* A request has found the row it will change, and rows are never removed.
PkgInv ==
    /\ packages \in [Key -> Pkg!Row \cup {Pkg!None}]
    /\ editing \in [Slot -> {Pkg!Idle} \cup Checked \cup Loaded]
    /\ \A q \in Slot : editing[q].op \in {"update", "delete"} => Pkg!Exists(editing[q].id)

\* None of the three kinds of request is taken for another.
LEMMA Kinds ==
    ASSUME NEW e \in {Pkg!Idle} \cup Checked \cup Loaded
    PROVE  /\ e.op \in {"idle", "create", "update", "delete"}
           /\ e.op = "idle" <=> e = Pkg!Idle
           /\ e.op = "create" <=> e \in Checked
           /\ e.op \in {"update", "delete"} <=> e \in Loaded
<1>1. CASE e = Pkg!Idle
  BY <1>1 DEF Pkg!Idle, Checked, Loaded
<1>2. CASE e \in Checked
  BY <1>2 DEF Pkg!Idle, Checked, Loaded
<1>3. CASE e \in Loaded
  BY <1>3 DEF Pkg!Idle, Checked, Loaded
<1> QED
  BY <1>1, <1>2, <1>3

LEMMA RowIsSome == \A row \in Pkg!Row : row # Pkg!None
  BY DEF Pkg!Row, Pkg!None

\* A price that was sent is stored in whole cents.
LEMMA CentsAreNat ==
    ASSUME NEW price \in Nat
    PROVE  Pkg!Cents(price) \in Nat
  BY DEF Pkg!Cents

\* A column keeps its value or takes the one that was sent.
LEMMA WrittenIs ==
    ASSUME NEW sent, NEW loaded, NEW stored, NEW unset
    PROVE  LET w == Pkg!Written(sent, loaded, stored, unset) IN w = stored \/ (w = sent /\ sent # unset)
  BY DEF Pkg!Written

\* The row a request loaded is still a row, and its change leaves one.
LEMMA ChangedIs ==
    ASSUME RequestsAssumption, PkgInv, NEW q \in Slot, editing[q].op \in {"update", "delete"},
           NEW i \in Key, i = editing[q].id, NEW new, new = Pkg!Changed(q)
    PROVE  /\ new \in Pkg!Row
           /\ new \in Pkg!Edits(packages[i], editing[q].body)
<1>1. PICK old \in Pkg!Row : old = packages[i]
  BY DEF PkgInv, Pkg!Exists
<1>2. PICK e \in Loaded : e = editing[q]
  BY Kinds DEF PkgInv
<1>3. PICK body \in Pkg!Updates : body = e.body
  BY <1>2 DEF Loaded
<1>4. PICK was \in Pkg!Row : was = e.loaded
  BY <1>2 DEF Loaded
<1>5. PICK name, active, featured, price :
          /\ name = Pkg!Written(body.name, was.name, old.name, "unset")
          /\ active = Pkg!Written(body.active, was.active, old.active, "unset")
          /\ featured = Pkg!Written(body.featured, was.featured, old.featured, "unset")
          /\ price = IF body.price \in {-1, 10 * was.price} THEN old.price ELSE Pkg!Cents(body.price)
  OBVIOUS
<1>6. new = [name |-> name, price |-> price, active |-> active, featured |-> featured]
  BY <1>1, <1>2, <1>3, <1>4, <1>5 DEF Pkg!Changed
<1>7. /\ name = old.name \/ (name = body.name /\ body.name # "unset")
      /\ active = old.active \/ (active = body.active /\ body.active # "unset")
      /\ featured = old.featured \/ (featured = body.featured /\ body.featured # "unset")
  BY <1>5, WrittenIs
<1>8. name \in Name /\ active \in Pkg!Flags /\ featured \in Pkg!Flags
  BY <1>7, RequestsAssumption DEF Pkg!Assumptions, Pkg!Row, Pkg!Updates
<1>9. price \in Nat
  BY <1>5, CentsAreNat, RequestsAssumption DEF Pkg!Assumptions, Pkg!Row, Pkg!Updates
<1>10. new \in Pkg!Row
  BY <1>6, <1>8, <1>9 DEF Pkg!Row
<1>11. new \in Pkg!Edits(old, body)
  <2>1. price = old.price \/ (body.price # -1 /\ price = Pkg!Cents(body.price))
    BY <1>5
  <2> QED
    BY <1>6, <1>7, <2>1 DEF Pkg!Edits
<1> QED
  BY <1>1, <1>2, <1>3, <1>10, <1>11

\* A row that is there changes only as a request that commits was sent to.
Asked ==
    \A i \in Key : Pkg!Exists(i) /\ packages'[i] # packages[i] =>
        \E q \in Slot : Pkg!Commits(q, i) /\ packages'[i] \in Pkg!Edits(packages[i], editing[q].body)

\* A request that begins, or ends, without a write.
LEMMA EditingMoves ==
    ASSUME PkgInv, NEW q \in Slot, packages' = packages,
           NEW e \in {Pkg!Idle} \cup Checked \cup Loaded, editing' = [editing EXCEPT ![q] = e],
           e.op \in {"update", "delete"} => Pkg!Exists(e.id)
    PROVE  PkgInv' /\ Asked
<1>1. /\ editing' \in [Slot -> {Pkg!Idle} \cup Checked \cup Loaded]
      /\ editing'[q] = e /\ \A x \in Slot \ {q} : editing'[x] = editing[x]
  BY DEF PkgInv
<1>2. ASSUME NEW i PROVE Pkg!Exists(i)' <=> Pkg!Exists(i)
  BY DEF Pkg!Exists
<1>3. ASSUME NEW x \in Slot, editing'[x].op \in {"update", "delete"}
      PROVE  packages'[editing'[x].id] # Pkg!None
  BY <1>1, <1>3 DEF PkgInv, Pkg!Exists
<1>4. PkgInv'
  BY <1>1, <1>3 DEF PkgInv, Pkg!Exists
<1>5. Asked
  BY <1>2 DEF Asked
<1> QED
  BY <1>4, <1>5

LEMMA FinishEdit ==
    ASSUME PkgInv, NEW q \in Slot, editing' = [editing EXCEPT ![q] = Pkg!Idle]
    PROVE  /\ editing' \in [Slot -> {Pkg!Idle} \cup Checked \cup Loaded]
           /\ \A x \in Slot : editing'[x].op \in {"update", "delete"} => x # q /\ editing'[x] = editing[x]
<1>1. Pkg!Idle.op = "idle"
  BY DEF Pkg!Idle
<1> QED
  BY <1>1 DEF PkgInv

\* create_package writes a row that was not there.
LEMMA CommitCreateInv ==
    ASSUME RequestsAssumption, PkgInv, NEW q \in Slot, NEW i \in Key, Pkg!CommitCreate(q, i)
    PROVE  PkgInv' /\ Asked
<1>1. PICK e \in Checked : e = editing[q]
  BY Kinds DEF PkgInv, Pkg!CommitCreate
<1>2. PICK body \in Pkg!Creates : body = e.body
  BY <1>1 DEF Checked
<1>3. PICK price \in Nat : price = Pkg!Cents(body.price)
  BY <1>2, CentsAreNat, RequestsAssumption DEF Pkg!Assumptions, Pkg!Creates
<1>4. PICK row : row = [name |-> body.name, price |-> price, active |-> body.active, featured |-> body.featured]
  OBVIOUS
<1>5. row \in Pkg!Row
  BY <1>2, <1>3, <1>4 DEF Pkg!Row, Pkg!Creates, Pkg!Flags
<1>6. /\ packages' = [packages EXCEPT ![i] = row] /\ ~Pkg!Exists(i)
      /\ editing' = [editing EXCEPT ![q] = Pkg!Idle]
  BY <1>1, <1>2, <1>3, <1>4 DEF Pkg!CommitCreate
<1>7. /\ packages' \in [Key -> Pkg!Row \cup {Pkg!None}]
      /\ packages'[i] = row /\ \A x \in Key \ {i} : packages'[x] = packages[x]
  BY <1>5, <1>6 DEF PkgInv
<1>8. PkgInv'
  <2>1. ASSUME NEW x \in Slot, editing'[x].op \in {"update", "delete"}
        PROVE  packages'[editing'[x].id] # Pkg!None
    <3>1. editing'[x] = editing[x]
      BY <1>6, <2>1, FinishEdit
    <3>2. editing[x].id \in Key /\ Pkg!Exists(editing[x].id)
      BY <2>1, <3>1, Kinds DEF PkgInv, Loaded
    <3> QED
      BY <1>5, <1>7, <3>1, <3>2, RowIsSome DEF Pkg!Exists
  <2> QED
    BY <1>6, <1>7, <2>1, FinishEdit DEF PkgInv, Pkg!Exists
<1>9. Asked
  BY <1>6, <1>7 DEF Asked, Pkg!Exists
<1> QED
  BY <1>8, <1>9

\* update_package and delete_package write a row that is there.
LEMMA CommitChangeInv ==
    ASSUME RequestsAssumption, PkgInv, NEW q \in Slot, Pkg!CommitChange(q)
    PROVE  PkgInv' /\ Asked
<1>1. editing[q].op \in {"update", "delete"} /\ editing' = [editing EXCEPT ![q] = Pkg!Idle]
  BY DEF Pkg!CommitChange
<1>2. PICK i \in Key : i = editing[q].id
  BY <1>1, Kinds DEF PkgInv, Loaded
<1>3. PICK new : new = Pkg!Changed(q)
  OBVIOUS
<1>4. packages' = [packages EXCEPT ![i] = new]
  BY <1>2, <1>3 DEF Pkg!CommitChange
<1>5. /\ new \in Pkg!Row
      /\ new \in Pkg!Edits(packages[i], editing[q].body)
  BY <1>1, <1>2, <1>3, ChangedIs
<1>6. /\ packages' \in [Key -> Pkg!Row \cup {Pkg!None}]
      /\ packages'[i] = new /\ \A x \in Key \ {i} : packages'[x] = packages[x]
  BY <1>4, <1>5 DEF PkgInv
<1>7. PkgInv'
  <2>1. ASSUME NEW x \in Slot, editing'[x].op \in {"update", "delete"}
        PROVE  packages'[editing'[x].id] # Pkg!None
    <3>1. editing'[x] = editing[x]
      BY <1>1, <2>1, FinishEdit
    <3>2. editing[x].id \in Key /\ Pkg!Exists(editing[x].id)
      BY <2>1, <3>1, Kinds DEF PkgInv, Loaded
    <3> QED
      BY <1>5, <1>6, <3>1, <3>2, RowIsSome DEF Pkg!Exists
  <2> QED
    BY <1>1, <1>6, <2>1, FinishEdit DEF PkgInv, Pkg!Exists
<1>8. Asked
  <2>1. Pkg!Commits(q, i)
    BY <1>1, <1>2 DEF Pkg!Commits, PkgInv
  <2> QED
    BY <1>5, <1>6, <2>1 DEF Asked
<1> QED
  BY <1>7, <1>8

LEMMA PkgStep ==
    ASSUME RequestsAssumption, PkgInv, Pkg!Next
    PROVE  PkgInv' /\ Asked
<1>1. ASSUME NEW q \in Slot, NEW body \in Pkg!Creates, Pkg!CheckName(q, body) PROVE PkgInv' /\ Asked
  <2>1. PICK e \in Checked : e = [op |-> "create", body |-> body]
    BY DEF Checked
  <2>2. e.op = "create"
    BY <2>1
  <2> QED
    BY <1>1, <2>1, <2>2, EditingMoves DEF Pkg!CheckName
<1>2. ASSUME NEW q \in Slot, NEW i \in Key, NEW op \in {"update", "delete"}, NEW body \in Pkg!Updates,
             Pkg!Load(q, op, i, body)
      PROVE  PkgInv' /\ Asked
  <2>1. packages[i] \in Pkg!Row
    BY <1>2 DEF Pkg!Load, Pkg!Exists, PkgInv
  <2>2. PICK e \in Loaded : e = [op |-> op, id |-> i, body |-> body, loaded |-> packages[i]]
    BY <2>1 DEF Loaded
  <2>3. e.id = i
    BY <2>2
  <2> QED
    BY <1>2, <2>2, <2>3, EditingMoves DEF Pkg!Load
<1>3. ASSUME NEW q \in Slot, Pkg!Fail(q) PROVE PkgInv' /\ Asked
  <2>1. Pkg!Idle.op = "idle"
    BY DEF Pkg!Idle
  <2> QED
    BY <1>3, <2>1, EditingMoves DEF Pkg!Fail
<1> QED
  BY <1>1, <1>2, <1>3, CommitCreateInv, CommitChangeInv, Zenon DEF Pkg!Next

LEMMA PkgStutter ==
    ASSUME PkgInv, UNCHANGED Pkg!vars
    PROVE  PkgInv'
  BY DEF Pkg!vars, PkgInv, Pkg!Exists

LEMMA PkgInit ==
    ASSUME Pkg!Init
    PROVE  PkgInv
<1>1. Pkg!Idle.op = "idle"
  BY DEF Pkg!Idle
<1> QED
  BY <1>1 DEF Pkg!Init, PkgInv

-----------------------------------------------------------------------------
(* The administrators' requests.                                           *)

UserRow == [present : BOOLEAN, active : BOOLEAN, super : BOOLEAN]

Field == {"active", "super", "credits", "delete"}

\* A request that will save holds what Edit or Leave let through.
Form(d) ==
    desk[d].pc = "save" =>
        /\ desk[d].caller \in Key /\ desk[d].user \in Key /\ desk[d].field \in Field
        /\ desk[d].field \in {"active", "super"} => desk[d].value \in BOOLEAN
        /\ desk[d].field = "credits" => desk[d].value \in Amount
        /\ desk[d].seen \in Int

Desks == /\ DOMAIN desk = Slot /\ \A d \in Slot : Form(d)
         /\ \A d \in Slot : desk[d].pc \in {"idle", "save"}

Wallets ==
    /\ admWallet \in [Key -> Adm!Balance] /\ ledger \in [Key -> Int]
    /\ \A u \in Key : admUsers[u].present <=> admWallet[u] # NoWallet

Counts == crossed \in BOOLEAN /\ count \in [requests : 0..MaxRequests, moves : 0..MaxMoves]

\* Until two requests have crossed there is an administrator, and what let each
\* request in flight in still holds.
Uncrossed == crossed \/ (/\ \E u \in Key : Adm!IsAdmin(u)
                         /\ \A d \in Slot : desk[d].pc = "save" => Adm!LetIn(d))

AdmInv == admUsers \in [Key -> UserRow] /\ Desks /\ Wallets /\ Counts /\ Uncrossed

LEMMA CountMoves ==
    ASSUME Counts, Adm!Assumptions
    PROVE  /\ count.requests < MaxRequests =>
                [count EXCEPT !.requests = @ + 1] \in [requests : 0..MaxRequests, moves : 0..MaxMoves]
           /\ count.moves < MaxMoves =>
                [count EXCEPT !.moves = @ + 1] \in [requests : 0..MaxRequests, moves : 0..MaxMoves]
<1>1. PICK c \in [requests : 0..MaxRequests, moves : 0..MaxMoves] : c = count
  BY DEF Counts
<1>2. MaxRequests \in Nat /\ MaxMoves \in Nat
  BY DEF Adm!Assumptions
<1> QED
  BY <1>1, <1>2

LEMMA OpenInv ==
    ASSUME AdmInv, Adm!Assumptions, NEW d \in Slot, NEW caller \in Key, NEW user \in Key, NEW field \in Field,
           NEW value, Adm!Read(d, caller, user, field, value),
           field \in {"active", "super"} => value \in BOOLEAN,
           field = "credits" => value \in Amount,
           \/ Adm!IsAdmin(caller) /\ Adm!Allowed(caller, user, field, value)
           \/ field = "delete" /\ ~admUsers[user].super
    PROVE  AdmInv'
<1>1. /\ admUsers' = admUsers /\ admWallet' = admWallet /\ ledger' = ledger /\ crossed' = crossed
  BY DEF Adm!Read
<1>a. count.requests < MaxRequests /\ count' = [count EXCEPT !.requests = @ + 1]
  BY Zenon DEF Adm!Read
<1>b. admWallet[user] \in Int \cup {NoWallet}
  BY DEF AdmInv, Wallets, Adm!Balance
<1>2. PICK seen \in Int : seen = Adm!GetBalance(admWallet, user)
  <2>1. Adm!GetBalance(admWallet, user) \in Int
    BY <1>b DEF Adm!GetBalance
  <2> QED
    BY <2>1
<1> DEFINE r == [pc |-> "save", caller |-> caller, user |-> user, field |-> field,
                 value |-> value, seen |-> seen]
<1>3. /\ r.pc = "save" /\ r.caller = caller /\ r.user = user /\ r.field = field
      /\ r.value = value /\ r.seen = seen
  OBVIOUS
<1>4. desk' = [desk EXCEPT ![d] = r]
  BY <1>2 DEF Adm!Read
<1> HIDE DEF r
<1>5. DOMAIN desk' = Slot /\ desk'[d] = r /\ \A x \in Slot \ {d} : desk'[x] = desk[x]
  BY <1>4 DEF AdmInv, Desks
<1>6. Desks'
  <2>1. ASSUME NEW x \in Slot PROVE Form(x)' /\ desk'[x].pc \in {"idle", "save"}
    BY <1>2, <1>3, <1>5 DEF Form, AdmInv, Desks
  <2> QED
    BY <1>5, <2>1 DEF Desks
<1>7. Wallets' /\ admUsers' \in [Key -> UserRow]
  BY <1>1 DEF AdmInv, Wallets
<1>8. Counts'
  BY <1>1, <1>a, CountMoves DEF AdmInv, Counts
<1>9. Uncrossed'
  <2>1. ASSUME NEW u \in Key PROVE Adm!IsAdmin(u)' <=> Adm!IsAdmin(u)
    BY <1>1 DEF Adm!IsAdmin
  <2>2. ASSUME NEW x \in Slot, desk'[x].pc = "save", ~crossed PROVE Adm!LetIn(x)'
    <3>1. CASE x = d
      BY <1>1, <1>3, <1>5, <2>1, <3>1 DEF Adm!LetIn, Adm!IsAdmin
    <3>2. CASE x # d
      BY <1>1, <1>5, <2>1, <2>2, <3>2 DEF Adm!LetIn, AdmInv, Uncrossed, Adm!IsAdmin
    <3> QED
      BY <3>1, <3>2
  <2> QED
    BY <1>1, <2>1, <2>2 DEF AdmInv, Uncrossed
<1> QED
  BY <1>6, <1>7, <1>8, <1>9 DEF AdmInv

LEMMA EditInv ==
    ASSUME AdmInv, Adm!Assumptions, NEW d \in Slot, NEW caller \in Key, NEW user \in Key, NEW field \in Field,
           NEW value, Adm!Edit(d, caller, user, field, value)
    PROVE  AdmInv'
<1>1. field \in {"active", "super"} => value \in BOOLEAN
  BY DEF Adm!Edit, Adm!Values
<1>2. field = "credits" => value \in Amount
  BY DEF Adm!Edit, Adm!Values
<1> QED
  BY <1>1, <1>2, OpenInv DEF Adm!Edit, Adm!MayEdit

LEMMA LeaveInv ==
    ASSUME AdmInv, Adm!Assumptions, NEW d \in Slot, NEW user \in Key, Adm!Leave(d, user)
    PROVE  AdmInv'
<1>1. "delete" \in Field
  BY DEF Field
<1> QED
  BY <1>1, OpenInv DEF Adm!Leave

\* The desk of a request that has ended; the others are as they were.
LEMMA IdleMoves ==
    ASSUME Desks, NEW d \in Slot, desk' = [desk EXCEPT ![d] = Adm!NoDesk]
    PROVE  /\ Desks' /\ desk'[d].pc = "idle"
           /\ \A x \in Slot \ {d} : desk'[x] = desk[x]
<1>1. Adm!NoDesk.pc = "idle"
  BY DEF Adm!NoDesk
<1>2. DOMAIN desk' = Slot /\ desk'[d] = Adm!NoDesk /\ \A x \in Slot \ {d} : desk'[x] = desk[x]
  BY DEF Desks
<1>3. ASSUME NEW x \in Slot PROVE Form(x)' /\ desk'[x].pc \in {"idle", "save"}
  BY <1>1, <1>2 DEF Form, Desks
<1> QED
  BY <1>1, <1>2, <1>3 DEF Desks

LEMMA DropInv ==
    ASSUME AdmInv, Adm!Assumptions, NEW d \in Slot, Adm!Fail(d)
    PROVE  AdmInv'
<1>1. /\ admUsers' = admUsers /\ admWallet' = admWallet /\ ledger' = ledger
      /\ crossed' = crossed /\ count' = count
  BY DEF Adm!Fail
<1>2. Desks' /\ desk'[d].pc = "idle" /\ \A x \in Slot \ {d} : desk'[x] = desk[x]
  BY IdleMoves DEF Adm!Fail, AdmInv
<1>3. ASSUME NEW x \in Slot, desk'[x].pc = "save" PROVE x # d /\ desk'[x] = desk[x]
  BY <1>2, <1>3
<1>4. Uncrossed'
  <2>1. ASSUME NEW x \in Slot, desk'[x].pc = "save", Adm!LetIn(x) PROVE Adm!LetIn(x)'
    BY <1>1, <1>3, <2>1 DEF Adm!LetIn, Adm!IsAdmin
  <2> QED
    BY <1>1, <1>3, <2>1 DEF AdmInv, Uncrossed, Adm!IsAdmin
<1> QED
  BY <1>1, <1>2, <1>4 DEF AdmInv, Wallets, Counts

\* What a save does to the row of users it writes.
LEMMA RightsAre ==
    ASSUME AdmInv, NEW d \in Slot, desk[d].pc = "save", admUsers' = Adm!Rights(d),
           NEW u \in Key, NEW f, NEW v, u = desk[d].user, f = desk[d].field, v = desk[d].value
    PROVE  /\ admUsers' \in [Key -> UserRow]
           /\ \A x \in Key \ {u} : admUsers'[x] = admUsers[x]
           /\ f \in {"active", "super"} /\ v = TRUE /\ Adm!IsAdmin(u) => Adm!IsAdmin(u)'
           /\ f = "delete" => ~admUsers'[u].present
           /\ f # "delete" => admUsers'[u].present = admUsers[u].present
<1>1. u \in Key /\ f \in Field /\ (f \in {"active", "super"} => v \in BOOLEAN)
  BY DEF AdmInv, Desks, Form
<1>2. PICK w \in UserRow : w = admUsers[u]
  BY <1>1 DEF AdmInv
<1> DEFINE new == CASE f = "active" -> [w EXCEPT !.active = v]
                    [] f = "super" -> [w EXCEPT !.super = v]
                    [] f = "delete" -> [present |-> FALSE, active |-> FALSE, super |-> FALSE]
                    [] OTHER -> w
<1>3. admUsers' = [admUsers EXCEPT ![u] = new]
  BY <1>2 DEF Adm!Rights
<1>4. PICK row : row = new
  OBVIOUS
<1>a. f = "active" => row = [w EXCEPT !.active = v]
  BY <1>4
<1>b. f = "super" => row = [w EXCEPT !.super = v]
  BY <1>4
<1>c. f = "delete" => row = [present |-> FALSE, active |-> FALSE, super |-> FALSE]
  BY <1>4
<1>d. f = "credits" => row = w
  BY <1>4
<1>e. admUsers' = [admUsers EXCEPT ![u] = row]
  BY <1>3, <1>4
<1> HIDE DEF new
<1>5. /\ row \in UserRow
      /\ f \in {"active", "super"} /\ v = TRUE =>
            row.present = w.present /\ (w.active => row.active) /\ (w.super => row.super)
      /\ f = "delete" => ~row.present
      /\ f # "delete" => row.present = w.present
  <2>1. CASE f = "active"
    BY <1>1, <1>2, <1>a, <2>1 DEF UserRow
  <2>2. CASE f = "super"
    BY <1>1, <1>2, <1>b, <2>2 DEF UserRow
  <2>3. CASE f = "delete"
    <3>1. row = [present |-> FALSE, active |-> FALSE, super |-> FALSE]
      BY <1>c, <2>3
    <3>2. ~row.present
      BY <3>1
    <3>3. row \in UserRow
      BY <3>1 DEF UserRow
    <3> QED
      BY <2>3, <3>2, <3>3
  <2>4. CASE f = "credits"
    BY <1>2, <1>d, <2>4
  <2> QED
    BY <1>1, <2>1, <2>2, <2>3, <2>4 DEF Field
<1>6. /\ admUsers' \in [Key -> UserRow] /\ admUsers'[u] = row
      /\ \A x \in Key \ {u} : admUsers'[x] = admUsers[x]
  BY <1>1, <1>e, <1>5 DEF AdmInv
<1>7. /\ \A x \in Key \ {u} : admUsers'[x] = admUsers[x]
      /\ f = "delete" => ~admUsers'[u].present
      /\ f # "delete" => admUsers'[u].present = admUsers[u].present
  BY <1>2, <1>5, <1>6
<1>8. f \in {"active", "super"} /\ v = TRUE /\ Adm!IsAdmin(u) => Adm!IsAdmin(u)'
  <2>1. SUFFICES ASSUME f \in {"active", "super"}, v = TRUE, w.present /\ w.active /\ w.super
                 PROVE  row.present /\ row.active /\ row.super
    BY <1>2, <1>6 DEF Adm!IsAdmin
  <2> QED
    BY <1>5, <2>1
<1> QED
  BY <1>6, <1>7, <1>8

\* The wallet and the ledger a save leaves are typed, and the account keeps a
\* wallet unless it is deleted.
LEMMA SaveWallets ==
    ASSUME AdmInv, Adm!Assumptions, NEW d \in Slot, Adm!Save(d)
    PROVE  Wallets'
<1>1. PICK u, f, v, n :
          /\ u \in Key /\ f \in Field /\ n \in Int
          /\ u = desk[d].user /\ f = desk[d].field /\ v = desk[d].value /\ n = desk[d].seen
          /\ f = "credits" => v \in Int
  <2>1. desk[d].pc = "save" /\ Form(d)
    BY DEF Adm!Save, AdmInv, Desks
  <2>2. desk[d].field = "credits" => desk[d].value \in Int
    <3>1. Amount \subseteq Int
      BY DEF Adm!Assumptions
    <3> QED
      BY <2>1, <3>1 DEF Form
  <2>3. desk[d].user \in Key /\ desk[d].field \in Field /\ desk[d].seen \in Int
    BY <2>1 DEF Form
  <2> QED
    BY <2>2, <2>3
<1>2. /\ admUsers[u].present /\ admUsers' = Adm!Rights(d) /\ desk[d].pc = "save"
  BY <1>1 DEF Adm!Save
<1>3. /\ \A x \in Key \ {u} : admUsers'[x] = admUsers[x]
      /\ f = "delete" => ~admUsers'[u].present
      /\ f # "delete" => admUsers'[u].present = admUsers[u].present
  BY ZenonT(60), <1>1, <1>2, RightsAre
<1>4. admWallet[u] \in Int /\ ledger[u] \in Int
  BY <1>1, <1>2 DEF AdmInv, Wallets, Adm!Balance
<1>5. CASE f = "credits"
  <2>1. /\ admWallet' = IF v # n THEN [admWallet EXCEPT ![u] = v] ELSE admWallet
        /\ ledger' = [ledger EXCEPT ![u] = @ + v - n]
    BY <1>1, <1>5 DEF Adm!Save
  <2>2. admWallet' \in [Key -> Adm!Balance] /\ admWallet'[u] \in Int /\ \A x \in Key \ {u} : admWallet'[x] = admWallet[x]
    BY <1>1, <1>4, <1>5, <2>1 DEF AdmInv, Wallets, Adm!Balance
  <2>3. ledger' \in [Key -> Int]
    BY <1>1, <1>4, <1>5, <2>1 DEF AdmInv, Wallets
  <2> QED
    BY ZenonT(60), <1>1, <1>2, <1>3, <1>5, <2>2, <2>3, RequestsAssumption DEF AdmInv, Wallets
<1>6. CASE f = "delete"
  <2>1. /\ admWallet' = [admWallet EXCEPT ![u] = NoWallet] /\ ledger' = [ledger EXCEPT ![u] = 0]
    BY <1>1, <1>6 DEF Adm!Save
  <2> QED
    BY <1>1, <1>3, <1>6, <2>1 DEF AdmInv, Wallets, Adm!Balance
<1>7. CASE f \in {"active", "super"}
  <2>1. admWallet' = admWallet /\ ledger' = ledger
    BY <1>1, <1>7 DEF Adm!Save
  <2> QED
    BY <1>1, <1>3, <1>7, <2>1 DEF AdmInv, Wallets
<1> QED
  BY <1>1, <1>5, <1>6, <1>7 DEF Field

\* The heart of it: a save that no other request crosses leaves an
\* administrator, who is the caller, or whom the leaving owner is not.
LEMMA SaveKeepsAdmin ==
    ASSUME AdmInv, Adm!Assumptions, NEW d \in Slot, Adm!Save(d), ~crossed
    PROVE  \E u \in Key : Adm!IsAdmin(u)'
<1>1. PICK c, u, f, v :
          c \in Key /\ u \in Key /\ c = desk[d].caller /\ u = desk[d].user /\ f = desk[d].field /\ v = desk[d].value
  BY DEF Adm!Save, AdmInv, Desks, Form
<1>2. admUsers' = Adm!Rights(d) /\ desk[d].pc = "save"
  BY DEF Adm!Save
<1>3. /\ \A x \in Key \ {u} : admUsers'[x] = admUsers[x]
      /\ f \in {"active", "super"} /\ v = TRUE /\ Adm!IsAdmin(u) => Adm!IsAdmin(u)'
  BY <1>1, <1>2, RightsAre
<1>4. \A x \in Key \ {u} : Adm!IsAdmin(x) => Adm!IsAdmin(x)'
  BY <1>3 DEF Adm!IsAdmin
<1>5. CASE Adm!IsAdmin(c) /\ Adm!Allowed(c, u, f, v)
  BY <1>1, <1>3, <1>4, <1>5 DEF Adm!Allowed
<1>6. CASE f = "delete" /\ ~admUsers[u].super
  <2>1. PICK a \in Key : Adm!IsAdmin(a)
    BY DEF AdmInv, Uncrossed
  <2>2. a # u
    BY <1>6, <2>1 DEF Adm!IsAdmin
  <2> QED
    BY <1>4, <2>1, <2>2
<1> QED
  BY <1>1, <1>2, <1>5, <1>6 DEF AdmInv, Uncrossed, Adm!LetIn

LEMMA SaveInv ==
    ASSUME AdmInv, Adm!Assumptions, NEW d \in Slot, Adm!Save(d)
    PROVE  AdmInv'
<1>1. /\ desk' = [desk EXCEPT ![d] = Adm!NoDesk] /\ count' = count /\ admUsers' = Adm!Rights(d)
      /\ desk[d].pc = "save"
  BY DEF Adm!Save
<1>2. crossed' = (crossed \/ \E x \in Slot \ {d} : desk[x].pc = "save" /\ ~Adm!LetIn(x)')
  BY DEF Adm!Save
<1>3. Desks' /\ desk'[d].pc = "idle" /\ \A x \in Slot \ {d} : desk'[x] = desk[x]
  BY <1>1, IdleMoves DEF AdmInv
<1>4. admUsers' \in [Key -> UserRow]
  <2>1. PICK u, f, v : u \in Key /\ u = desk[d].user /\ f = desk[d].field /\ v = desk[d].value
    BY <1>1 DEF AdmInv, Desks, Form
  <2> QED
    BY <1>1, <2>1, RightsAre
<1>5. Counts'
  BY <1>1, <1>2 DEF AdmInv, Counts
<1>6. Uncrossed'
  <2>1. CASE crossed'
    BY <2>1 DEF Uncrossed
  <2>2. CASE ~crossed'
    <3>1. ~crossed /\ \A x \in Slot \ {d} : desk[x].pc = "save" => Adm!LetIn(x)'
      BY <1>2, <2>2
    <3>2. \A x \in Slot : desk'[x].pc = "save" => Adm!LetIn(x)'
      BY <1>3, <3>1
    <3> QED
      BY <3>1, <3>2, SaveKeepsAdmin DEF Uncrossed
  <2> QED
    BY <2>1, <2>2
<1> QED
  BY <1>3, <1>4, <1>5, <1>6, SaveWallets DEF AdmInv

LEMMA MoveInv ==
    ASSUME AdmInv, Adm!Assumptions, NEW u \in Key, NEW a \in Amount, NEW charge \in BOOLEAN, Adm!Move(u, a, charge)
    PROVE  AdmInv'
<1>1. admUsers' = admUsers /\ desk' = desk /\ crossed' = crossed /\ admUsers[u].present
  BY DEF Adm!Move
<1>2. count.moves < MaxMoves /\ count' = [count EXCEPT !.moves = @ + 1]
  BY Zenon DEF Adm!Move
<1>3. /\ admWallet' = IF charge THEN Adm!Debit(admWallet, u, a) ELSE Adm!Credit(admWallet, u, a)
      /\ ledger' = [ledger EXCEPT ![u] = IF charge THEN @ - a ELSE @ + a]
  BY DEF Adm!Move
<1>4. admWallet[u] \in Int /\ ledger[u] \in Int /\ a \in Int
  BY <1>1 DEF AdmInv, Wallets, Adm!Balance, Adm!Assumptions
<1>5. /\ admWallet' \in [Key -> Adm!Balance] /\ admWallet'[u] \in Int
      /\ \A x \in Key \ {u} : admWallet'[x] = admWallet[x]
  BY <1>3, <1>4, RequestsAssumption DEF AdmInv, Wallets, Adm!Balance, Adm!Debit, Adm!Credit, Adm!GetBalance
<1>6. ledger' \in [Key -> Int]
  BY <1>3, <1>4 DEF AdmInv, Wallets
<1>7. Wallets'
  BY <1>1, <1>4, <1>5, <1>6, RequestsAssumption DEF AdmInv, Wallets
<1>8. Desks' /\ Uncrossed'
  BY <1>1 DEF AdmInv, Desks, Form, Uncrossed, Adm!LetIn, Adm!IsAdmin
<1> QED
  BY <1>1, <1>2, <1>7, <1>8, CountMoves DEF AdmInv, Counts

LEMMA AdmInit ==
    ASSUME Adm!Assumptions, Adm!Init
    PROVE  AdmInv
<1>1. admUsers \in [Key -> UserRow] /\ \A u \in Key : admUsers[u].present
  BY DEF Adm!Init, UserRow
<1>2. PICK a \in Key : Adm!IsAdmin(a)
  BY DEF Adm!Init, Adm!Assumptions, Adm!IsAdmin
<1>3. \A d \in Slot : desk[d].pc = "idle"
  BY DEF Adm!Init, Adm!NoDesk
<1>4. Desks
  BY <1>3 DEF Adm!Init, Desks, Form
<1>5. Wallets
  BY <1>1, RequestsAssumption DEF Adm!Init, Wallets, Adm!Balance, Adm!Assumptions
<1>6. Counts
  <2>1. MaxRequests \in Nat /\ MaxMoves \in Nat
    BY DEF Adm!Assumptions
  <2>2. 0 \in 0..MaxRequests /\ 0 \in 0..MaxMoves
    BY <2>1
  <2> QED
    BY <2>2 DEF Adm!Init, Counts
<1>7. Uncrossed
  BY <1>2, <1>3 DEF Uncrossed
<1> QED
  BY <1>1, <1>4, <1>5, <1>6, <1>7 DEF AdmInv

LEMMA AdmStutter ==
    ASSUME AdmInv, UNCHANGED Adm!vars
    PROVE  AdmInv'
  BY DEF Adm!vars, AdmInv, Desks, Form, Wallets, Counts, Uncrossed, Adm!LetIn, Adm!IsAdmin

LEMMA AdmStep ==
    ASSUME Adm!Assumptions, AdmInv, [Adm!Next]_(Adm!vars)
    PROVE  AdmInv'
<1>1. ASSUME NEW d \in Slot, Adm!Save(d) \/ Adm!Fail(d) PROVE AdmInv'
  BY <1>1, SaveInv, DropInv
<1>2. ASSUME NEW d \in Slot, NEW u \in Key, Adm!Leave(d, u) PROVE AdmInv'
  BY <1>2, LeaveInv
<1>3. ASSUME NEW d \in Slot, NEW c \in Key, NEW u \in Key, NEW f \in Field, NEW v, Adm!Edit(d, c, u, f, v) PROVE AdmInv'
  BY <1>3, EditInv
<1>4. ASSUME NEW u \in Key, NEW a \in Amount, NEW charge \in BOOLEAN, Adm!Move(u, a, charge) PROVE AdmInv'
  BY <1>4, MoveInv
<1>5. CASE UNCHANGED Adm!vars
  BY <1>5, AdmStutter
<1> QED
  BY <1>1, <1>2, <1>3, <1>4, <1>5, Zenon DEF Adm!Next, Field

LEMMA AdmIsRace == AdmInv => Adm!LockoutNeedsARace
  BY DEF AdmInv, Uncrossed, Adm!LockoutNeedsARace

LEMMA AdmTyped == AdmInv => Adm!TypeOK
  BY DEF AdmInv, Desks, Form, Wallets, Counts, Adm!TypeOK, UserRow

-----------------------------------------------------------------------------
(* The row of a chat.                                                      *)

Query == [op : RowOp \cup {"none"}, pc : {"idle", "read", "commit", "refresh"},
          title : Rows!AnyTitle \cup {Nil}, was : Rows!AnyTitle \cup {Nil},
          token : Token \cup {Nil}, known : SUBSET Token]

\* A request that will write a title has one.
Titled(r) ==
    /\ rowRequest[r].op = "rename" => rowRequest[r].title \in Title
    /\ rowRequest[r].op = "title" => rowRequest[r].title = "generated"

\* A request that is about to share a link holds one nobody has seen: it was
\* not returned, is not in the row, and no other request holds it.
Sharing(r) == rowRequest[r].pc = "commit" /\ rowRequest[r].op = "share"
Fresh(r) ==
    Sharing(r) =>
        /\ rowRequest[r].token \in drawn \ returned
        /\ rowRequest[r].token # token
        /\ \A x \in Slot \ {r} : Sharing(x) => rowRequest[x].token # rowRequest[r].token

\* An unshare that found no link to clear: whatever is in the row by the time
\* it is answered is none of the links its caller knew.
Unsharing(r) == rowRequest[r].pc = "commit" /\ rowRequest[r].op = "unshare"
Clears(r) == Unsharing(r) /\ rowRequest[r].token = Nil => token \notin rowRequest[r].known

RowRequests == rowRequest \in [Slot -> Query] /\ \A r \in Slot : Titled(r)

Titles ==
    /\ present \in BOOLEAN /\ unshared \in BOOLEAN /\ asked \in 0..MaxAsked
    /\ title \in Rows!AnyTitle /\ renamed \in Title \cup {Nil}

Tokens ==
    /\ drawn \subseteq Token /\ token \in drawn \cup {Nil}
    /\ returned \subseteq drawn /\ revoked \subseteq returned
    /\ \A r \in Slot : rowRequest[r].known \subseteq returned

RowsInv ==
    /\ RowRequests /\ Titles /\ Tokens
    /\ \A r \in Slot : Fresh(r) /\ Clears(r)
    /\ Rows!RevokedIsDead

-----------------------------------------------------------------------------
(* How a request moves.                                                    *)

Others(r) == \A x \in Slot \ {r} : rowRequest'[x] = rowRequest[x]

LEMMA FinishMoves ==
    ASSUME RowRequests, NEW r \in Slot, Rows!Finish(r)
    PROVE  RowRequests' /\ Others(r) /\ rowRequest'[r] = Rows!Idle
<1>1. Rows!Idle \in Query /\ Rows!Idle.op = "none"
  BY DEF Rows!Idle, Query
<1>2. rowRequest' \in [Slot -> Query] /\ Others(r) /\ rowRequest'[r] = Rows!Idle
  BY <1>1 DEF RowRequests, Rows!Finish, Others
<1>3. \A x \in Slot : Titled(x)'
  BY <1>1, <1>2 DEF RowRequests, Titled, Others
<1> QED
  BY <1>2, <1>3 DEF RowRequests

LEMMA AskMoves ==
    ASSUME RowRequests, Tokens, NEW r \in Slot, NEW op \in RowOp,
           NEW t \in CASE op = "rename" -> Title [] op = "title" -> {"generated"} [] OTHER -> {Nil},
           Rows!Ask(r, op, t), Rows!Assumptions
    PROVE  /\ RowRequests' /\ Others(r)
           /\ rowRequest'[r].pc = "read" /\ rowRequest'[r].known = returned
<1> DEFINE q == [op |-> op, pc |-> "read", title |-> t, was |-> Nil, token |-> Nil, known |-> returned]
<1>1. t \in Rows!AnyTitle \cup {Nil}
  BY DEF Rows!AnyTitle
<1>2. q \in Query /\ q.pc = "read" /\ q.known = returned /\ q.op = op /\ q.title = t
  BY <1>1 DEF Query, Tokens
<1>3. rowRequest' = [rowRequest EXCEPT ![r] = q]
  BY DEF Rows!Ask
<1> HIDE DEF q
<1>4. rowRequest' \in [Slot -> Query] /\ Others(r) /\ rowRequest'[r] = q
  BY <1>2, <1>3 DEF RowRequests, Others
<1>5. \A x \in Slot : Titled(x)'
  BY <1>2, <1>4 DEF RowRequests, Titled, Others
<1> QED
  BY <1>2, <1>4, <1>5 DEF RowRequests

\* The request has read the row, and will write with token t.
LEMMA ReadMoves ==
    ASSUME RowRequests, title \in Rows!AnyTitle, NEW r \in Slot, NEW t \in Token \cup {Nil},
           rowRequest' = [rowRequest EXCEPT ![r].pc = "commit", ![r].was = title, ![r].token = t]
    PROVE  /\ RowRequests' /\ Others(r)
           /\ rowRequest'[r].pc = "commit" /\ rowRequest'[r].token = t
           /\ rowRequest'[r].op = rowRequest[r].op /\ rowRequest'[r].known = rowRequest[r].known
<1>1. rowRequest[r] \in Query
  BY DEF RowRequests
<1>2. /\ rowRequest' \in [Slot -> Query] /\ Others(r)
      /\ rowRequest'[r].pc = "commit" /\ rowRequest'[r].token = t
      /\ rowRequest'[r].op = rowRequest[r].op /\ rowRequest'[r].known = rowRequest[r].known
      /\ rowRequest'[r].title = rowRequest[r].title
  BY <1>1 DEF RowRequests, Others, Query
<1>3. \A x \in Slot : Titled(x)'
  BY <1>2 DEF RowRequests, Titled, Others
<1> QED
  BY <1>2, <1>3 DEF RowRequests

\* The row's link and the links handed out stay; request r moves to a state in
\* which it neither shares nor has found nothing to clear.
LEMMA QuietInv ==
    ASSUME RowsInv, NEW r \in Slot, Others(r), RowRequests', Titles', Tokens',
           token' = token, returned' = returned, revoked' = revoked, drawn' = drawn,
           ~Sharing(r)', ~Unsharing(r)'
    PROVE  RowsInv'
<1>1. ASSUME NEW x \in Slot PROVE Fresh(x)'
  BY <1>1 DEF RowsInv, Others, Fresh, Sharing
<1>2. ASSUME NEW x \in Slot PROVE Clears(x)'
  BY <1>2 DEF RowsInv, Others, Clears, Unsharing
<1> QED
  BY <1>1, <1>2 DEF RowsInv, Rows!RevokedIsDead

LEMMA IdleInv ==
    ASSUME RowsInv, NEW r \in Slot, Rows!Finish(r)
    PROVE  /\ RowRequests' /\ Others(r) /\ ~Sharing(r)' /\ ~Unsharing(r)'
           /\ \A x \in Slot : /\ rowRequest'[x].known \subseteq rowRequest[x].known
                              /\ Sharing(x)' => Sharing(x) /\ x # r
                              /\ Unsharing(x)' => Unsharing(x) /\ x # r
<1>1. RowRequests' /\ Others(r) /\ rowRequest'[r] = Rows!Idle
  BY FinishMoves DEF RowsInv
<1>2. Rows!Idle.pc = "idle" /\ Rows!Idle.known = {}
  BY DEF Rows!Idle
<1>3. ~Sharing(r)' /\ ~Unsharing(r)'
  BY <1>1, <1>2 DEF Sharing, Unsharing
<1> QED
  BY <1>1, <1>2, <1>3 DEF Others, Sharing, Unsharing

LEMMA AskInv ==
    ASSUME RowsInv, Rows!Assumptions, NEW r \in Slot, NEW op \in RowOp,
           NEW t \in CASE op = "rename" -> Title [] op = "title" -> {"generated"} [] OTHER -> {Nil},
           Rows!Ask(r, op, t)
    PROVE  RowsInv'
<1>1. /\ RowRequests' /\ Others(r)
      /\ rowRequest'[r].pc = "read" /\ rowRequest'[r].known = returned
  BY AskMoves DEF RowsInv
<1>2. /\ asked < MaxAsked /\ asked' = asked + 1 /\ unshared' \in BOOLEAN
      /\ present' = present /\ title' = title /\ token' = token /\ drawn' = drawn
      /\ returned' = returned /\ revoked' = revoked /\ renamed' = renamed
  BY DEF Rows!Ask, RowsInv, Titles
<1>3. Titles'
  BY <1>2 DEF RowsInv, Titles, Rows!Assumptions
<1>4. Tokens'
  BY <1>1, <1>2 DEF RowsInv, Tokens, Others
<1> QED
  BY <1>1, <1>2, <1>3, <1>4, QuietInv DEF Sharing, Unsharing

\* share_chat and _owned_chat: what each outcome of the first read leaves.
LEMMA ReadInv ==
    ASSUME RowsInv, Rows!Assumptions, NEW r \in Slot, Rows!Read(r)
    PROVE  RowsInv'
<1>1. /\ present' = present /\ title' = title /\ token' = token /\ revoked' = revoked
      /\ unshared' = unshared /\ renamed' = renamed /\ asked' = asked
  BY DEF Rows!Read
<1>2. Titles'
  BY <1>1 DEF RowsInv, Titles
<1>3. ASSUME Rows!Finish(r), drawn' = drawn, returned' = returned \/ (token # Nil /\ returned' = returned \cup {token})
      PROVE  RowsInv'
  <2>1. /\ RowRequests' /\ Others(r) /\ ~Sharing(r)' /\ ~Unsharing(r)'
        /\ \A x \in Slot : rowRequest'[x].known \subseteq rowRequest[x].known
    BY <1>3, IdleInv
  <2>2. Tokens'
    BY <1>1, <1>3, <2>1 DEF RowsInv, Tokens, Rows!Assumptions
  <2>3. ASSUME NEW x \in Slot PROVE Fresh(x)'
    BY <1>1, <1>3, <2>1 DEF RowsInv, Others, Fresh, Sharing
  <2>4. ASSUME NEW x \in Slot PROVE Clears(x)'
    BY <1>1, <2>1 DEF RowsInv, Others, Clears, Unsharing
  <2> QED
    BY <1>1, <1>2, <2>1, <2>2, <2>3, <2>4 DEF RowsInv, Rows!RevokedIsDead
<1>4. ASSUME rowRequest[r].op = "share", NEW t \in Token \ drawn, drawn' = drawn \cup {t},
             rowRequest' = [rowRequest EXCEPT ![r].pc = "commit", ![r].was = title, ![r].token = t],
             returned' = returned
      PROVE  RowsInv'
  <2>1. /\ RowRequests' /\ Others(r)
        /\ rowRequest'[r].pc = "commit" /\ rowRequest'[r].token = t
        /\ rowRequest'[r].op = "share" /\ rowRequest'[r].known = rowRequest[r].known
    BY ZenonT(60), <1>4, ReadMoves DEF RowsInv, Titles
  <2>2. Tokens'
    BY <1>1, <1>4, <2>1 DEF RowsInv, Tokens, Others
  <2>3. ASSUME NEW x \in Slot PROVE Fresh(x)'
    <3>1. CASE x = r
      <4>1. rowRequest'[x].token \in drawn' \ returned' /\ rowRequest'[x].token # token'
        BY <1>1, <1>4, <2>1, <3>1 DEF RowsInv, Tokens, Rows!Assumptions
      <4>2. ASSUME NEW y \in Slot \ {x}, Sharing(y)' PROVE rowRequest'[y].token # rowRequest'[x].token
        <5>1. Sharing(y) /\ rowRequest'[y].token = rowRequest[y].token /\ rowRequest'[x].token = t
          BY <2>1, <3>1, <4>2 DEF Others, Sharing
        <5>2. rowRequest[y].token \in drawn
          BY <5>1 DEF RowsInv, Fresh
        <5> QED
          BY <1>4, <5>1, <5>2
      <4> QED
        BY <4>1, <4>2 DEF Fresh
    <3>2. CASE x # r
      <4>1. Sharing(x)' => Sharing(x) /\ rowRequest'[x].token = rowRequest[x].token
        BY <2>1, <3>2 DEF Others, Sharing
      <4>2. Fresh(x) /\ (rowRequest[x].token \in drawn => rowRequest[x].token # t)
        BY <1>4 DEF RowsInv
      <4>3. \A y \in Slot \ {x, r} : Sharing(y)' => Sharing(y) /\ rowRequest'[y].token = rowRequest[y].token
        BY <2>1 DEF Others, Sharing
      <4> QED
        <5>1. ASSUME Sharing(x)' PROVE rowRequest'[x].token \in drawn' \ returned' /\ rowRequest'[x].token # token'
          BY <1>1, <1>4, <4>1, <4>2, <5>1 DEF Fresh
        <5>2. ASSUME Sharing(x)', NEW y \in Slot \ {x}, Sharing(y)' PROVE rowRequest'[y].token # rowRequest'[x].token
          BY <2>1, <4>1, <4>2, <4>3, <5>2 DEF Fresh
        <5> QED
          BY <5>1, <5>2 DEF Fresh
    <3> QED
      BY <3>1, <3>2
  <2>4. ASSUME NEW x \in Slot PROVE Clears(x)'
    BY <1>1, <2>1 DEF RowsInv, Others, Clears, Unsharing
  <2> QED
    BY <1>1, <1>2, <1>4, <2>1, <2>2, <2>3, <2>4 DEF RowsInv, Rows!RevokedIsDead
<1>5. ASSUME rowRequest[r].op # "share", drawn' = drawn, returned' = returned,
             rowRequest' = [rowRequest EXCEPT ![r].pc = "commit", ![r].was = title, ![r].token = token]
      PROVE  RowsInv'
  <2>1. PICK t \in Token \cup {Nil} : t = token
    BY DEF RowsInv, Tokens
  <2>2. rowRequest' = [rowRequest EXCEPT ![r].pc = "commit", ![r].was = title, ![r].token = t]
    BY <1>5, <2>1
  <2>3. /\ RowRequests' /\ Others(r)
        /\ rowRequest'[r].pc = "commit" /\ rowRequest'[r].token = t
        /\ rowRequest'[r].op = rowRequest[r].op /\ rowRequest'[r].known = rowRequest[r].known
    BY <2>2, ReadMoves DEF RowsInv, Titles
  <2>4. Tokens'
    BY <1>1, <1>5, <2>3 DEF RowsInv, Tokens, Others
  <2>5. ASSUME NEW x \in Slot PROVE Fresh(x)'
    BY ZenonT(60), <1>1, <1>5, <2>3 DEF RowsInv, Others, Fresh, Sharing
  <2>6. ASSUME NEW x \in Slot PROVE Clears(x)'
    <3>1. CASE x = r
      <4>1. token = Nil => token \notin rowRequest[r].known
        BY DEF RowsInv, Tokens, Rows!Assumptions
      <4> QED
        BY <1>1, <2>1, <2>3, <3>1, <4>1 DEF Clears
    <3>2. CASE x # r
      BY <1>1, <2>3, <3>2 DEF RowsInv, Others, Clears, Unsharing
    <3> QED
      BY <3>1, <3>2
  <2> QED
    BY <1>1, <1>2, <1>5, <2>3, <2>4, <2>5, <2>6 DEF RowsInv, Rows!RevokedIsDead
<1> QED
  BY <1>3, <1>4, <1>5 DEF Rows!Read

\* share_chat's commit: the row holds a link that nobody has been given.
LEMMA CommitShareInv ==
    ASSUME RowsInv, Rows!Assumptions, NEW r \in Slot, Rows!CommitShare(r)
    PROVE  RowsInv'
<1>1. /\ Sharing(r) /\ token' = rowRequest[r].token
      /\ rowRequest' = [rowRequest EXCEPT ![r].pc = "refresh"]
      /\ present' = present /\ title' = title /\ drawn' = drawn /\ asked' = asked
      /\ returned' = returned /\ revoked' = revoked /\ unshared' = unshared /\ renamed' = renamed
  BY DEF Rows!CommitShare, Sharing, Rows!history
<1>2. PICK q \in Query : q = rowRequest[r]
  BY DEF RowsInv, RowRequests
<1>3. /\ rowRequest' \in [Slot -> Query] /\ Others(r)
      /\ rowRequest'[r].pc = "refresh" /\ rowRequest'[r].op = q.op
      /\ rowRequest'[r].title = q.title /\ rowRequest'[r].known = q.known
  BY <1>1, <1>2 DEF RowsInv, RowRequests, Others, Query
<1>4. RowRequests'
  BY <1>2, <1>3 DEF RowsInv, RowRequests, Titled, Others
<1>5. Titles'
  BY <1>1 DEF RowsInv, Titles
<1>6. token' \in drawn \ returned
  BY <1>1 DEF RowsInv, Fresh
<1>7. Tokens'
  BY <1>1, <1>2, <1>3, <1>6 DEF RowsInv, Tokens, Others
<1>8. \A x \in Slot : Sharing(x)' => x # r /\ Sharing(x) /\ rowRequest'[x].token = rowRequest[x].token
  BY <1>3 DEF Others, Sharing
<1>9. ASSUME NEW x \in Slot PROVE Fresh(x)'
  <2>1. ASSUME Sharing(x)'
        PROVE  rowRequest'[x].token \in drawn' \ returned' /\ rowRequest'[x].token # token'
    <3>1. x # r /\ Sharing(x) /\ rowRequest'[x].token = rowRequest[x].token
      BY <1>8, <2>1
    <3>2. rowRequest[x].token # rowRequest[r].token /\ rowRequest[x].token \in drawn \ returned
      BY <1>1, <3>1 DEF RowsInv, Fresh
    <3> QED
      BY <1>1, <3>1, <3>2
  <2>2. ASSUME Sharing(x)', NEW y \in Slot \ {x}, Sharing(y)'
        PROVE  rowRequest'[y].token # rowRequest'[x].token
    BY <1>8, <2>2 DEF RowsInv, Fresh
  <2> QED
    BY <2>1, <2>2 DEF Fresh
<1>10. ASSUME NEW x \in Slot PROVE Clears(x)'
  <2>1. Unsharing(x)' => x # r /\ rowRequest'[x].known \subseteq returned
    BY <1>3 DEF RowsInv, Tokens, Others, Unsharing
  <2> QED
    BY <1>6, <2>1 DEF Clears
<1>11. Rows!RevokedIsDead'
  BY <1>1, <1>6 DEF RowsInv, Tokens, Rows!RevokedIsDead
<1> QED
  BY <1>4, <1>5, <1>7, <1>9, <1>10, <1>11 DEF RowsInv

\* The request ends, and the row's link is gone or what it was: nothing new
\* is in the row, and what is returned or revoked was there.
LEMMA EndInv ==
    ASSUME RowsInv, Rows!Assumptions, NEW r \in Slot, Rows!Finish(r), Titles',
           token' \in {token, Nil}, drawn' = drawn,
           \/ returned' = returned
           \/ token # Nil /\ returned' = returned \cup {token},
           \/ revoked' = revoked
           \/ revoked' = revoked \cup rowRequest[r].known /\ token' \notin rowRequest[r].known
    PROVE  RowsInv'
<1>1. /\ RowRequests' /\ Others(r) /\ ~Sharing(r)' /\ ~Unsharing(r)'
      /\ \A x \in Slot : /\ rowRequest'[x].known \subseteq rowRequest[x].known
                         /\ Sharing(x)' => Sharing(x) /\ x # r
                         /\ Unsharing(x)' => Unsharing(x) /\ x # r
  BY IdleInv
<1>2. Nil \notin returned
  BY DEF RowsInv, Tokens, Rows!Assumptions
<1>3. Tokens'
  BY <1>1 DEF RowsInv, Tokens
<1>4. ASSUME NEW x \in Slot PROVE Fresh(x)'
  <2>1. ASSUME Sharing(x)'
        PROVE  rowRequest'[x].token \in drawn' \ returned' /\ rowRequest'[x].token # token'
    <3>1. Sharing(x) /\ rowRequest'[x].token = rowRequest[x].token
      BY <1>1, <2>1 DEF Others
    <3>2. rowRequest[x].token \in drawn \ returned /\ rowRequest[x].token # token
      BY <3>1 DEF RowsInv, Fresh
    <3>3. rowRequest[x].token # Nil
      BY <3>2 DEF RowsInv, Tokens, Rows!Assumptions
    <3> QED
      BY <3>1, <3>2, <3>3
  <2>2. ASSUME Sharing(x)', NEW y \in Slot \ {x}, Sharing(y)'
        PROVE  rowRequest'[y].token # rowRequest'[x].token
    BY <1>1, <2>2 DEF RowsInv, Fresh, Others
  <2> QED
    BY <2>1, <2>2 DEF Fresh
<1>5. ASSUME NEW x \in Slot PROVE Clears(x)'
  <2>1. Unsharing(x)' => x # r /\ rowRequest'[x] = rowRequest[x] /\ Unsharing(x)
    BY <1>1 DEF Others
  <2>2. rowRequest[x].known \subseteq returned
    BY DEF RowsInv, Tokens
  <2> QED
    BY <1>2, <2>1, <2>2 DEF RowsInv, Clears
<1>6. Rows!RevokedIsDead'
  <2>1. revoked \subseteq returned
    BY DEF RowsInv, Tokens
  <2> QED
    BY <1>2, <2>1 DEF RowsInv, Rows!RevokedIsDead
<1> QED
  BY <1>1, <1>3, <1>4, <1>5, <1>6 DEF RowsInv

LEMMA RefreshInv ==
    ASSUME RowsInv, Rows!Assumptions, NEW r \in Slot, Rows!Refresh(r)
    PROVE  RowsInv'
<1>1. Titles'
  BY DEF Rows!Refresh, RowsInv, Titles
<1> QED
  BY <1>1, EndInv DEF Rows!Refresh

\* unshare_chat's commit: the links its caller knew are revoked, and the row
\* holds none of them.
LEMMA CommitUnshareInv ==
    ASSUME RowsInv, Rows!Assumptions, NEW r \in Slot, Rows!CommitUnshare(r)
    PROVE  RowsInv'
<1>1. Titles'
  BY DEF Rows!CommitUnshare, RowsInv, Titles
<1>2. Nil \notin rowRequest[r].known
  BY DEF RowsInv, Tokens, Rows!Assumptions
<1>3. token' \in {token, Nil} /\ token' \notin rowRequest[r].known
  BY <1>2 DEF Rows!CommitUnshare, Rows!Cleared, RowsInv, Clears, Unsharing
<1> QED
  BY <1>1, <1>3, EndInv DEF Rows!CommitUnshare

LEMMA CommitTitleInv ==
    ASSUME RowsInv, Rows!Assumptions, NEW r \in Slot, Rows!CommitTitle(r)
    PROVE  RowsInv'
<1>1. Titles'
  BY DEF Rows!CommitTitle, RowsInv, RowRequests, Titled, Titles, Rows!AnyTitle
<1> QED
  BY <1>1, EndInv DEF Rows!CommitTitle

LEMMA CommitDeleteInv ==
    ASSUME RowsInv, Rows!Assumptions, NEW r \in Slot, Rows!CommitDelete(r)
    PROVE  RowsInv'
<1>1. Titles'
  BY DEF Rows!CommitDelete, RowsInv, Titles, Rows!history
<1> QED
  BY <1>1, EndInv DEF Rows!CommitDelete, Rows!history

LEMMA FailInv ==
    ASSUME RowsInv, Rows!Assumptions, NEW r \in Slot, Rows!Fail(r)
    PROVE  RowsInv'
<1>1. Titles'
  BY DEF Rows!Fail, RowsInv, Titles, Rows!history
<1> QED
  BY <1>1, EndInv DEF Rows!Fail, Rows!history

LEMMA RowsInit ==
    ASSUME Rows!Assumptions, Rows!Init
    PROVE  RowsInv
<1>1. Rows!Idle \in Query /\ Rows!Idle.op = "none" /\ Rows!Idle.pc = "idle" /\ Rows!Idle.known = {}
  BY DEF Rows!Idle, Query
<1>2. rowRequest \in [Slot -> Query] /\ \A r \in Slot : rowRequest[r] = Rows!Idle
  BY <1>1 DEF Rows!Init
<1>3. RowRequests /\ \A r \in Slot : Fresh(r) /\ Clears(r)
  BY <1>1, <1>2 DEF RowRequests, Titled, Fresh, Sharing, Clears, Unsharing
<1>4. Tokens /\ Rows!RevokedIsDead
  BY <1>1, <1>2 DEF Rows!Init, Tokens, Rows!RevokedIsDead
<1>5. Titles
  <2>1. 0 \in 0..MaxAsked
    BY DEF Rows!Assumptions
  <2> QED
    BY <2>1 DEF Rows!Init, Titles, Rows!AnyTitle
<1> QED
  BY <1>3, <1>4, <1>5 DEF RowsInv

LEMMA RowsStutter ==
    ASSUME RowsInv, UNCHANGED Rows!vars
    PROVE  RowsInv'
  BY DEF Rows!vars, RowsInv, RowRequests, Titled, Titles, Tokens, Fresh, Sharing, Clears, Unsharing, Rows!RevokedIsDead

LEMMA RowsStep ==
    ASSUME Rows!Assumptions, RowsInv, [Rows!Next]_(Rows!vars)
    PROVE  RowsInv'
<1>1. CASE Rows!Next
  <2>1. PICK r \in Slot :
            \/ Rows!Read(r) \/ Rows!CommitShare(r) \/ Rows!Refresh(r) \/ Rows!CommitUnshare(r) \/ Rows!CommitTitle(r)
            \/ Rows!CommitDelete(r) \/ Rows!Fail(r)
            \/ \E op \in RowOp :
                  \E t \in CASE op = "rename" -> Title
                             [] op = "title" -> {"generated"}
                             [] OTHER -> {Nil} : Rows!Ask(r, op, t)
    BY <1>1, Zenon DEF Rows!Next
  <2> QED
    BY <2>1, Zenon, ReadInv, CommitShareInv, RefreshInv, CommitUnshareInv, CommitTitleInv,
       CommitDeleteInv, FailInv, AskInv
<1>2. CASE UNCHANGED Rows!vars
  BY <1>2, RowsStutter
<1> QED
  BY <1>1, <1>2

LEMMA RowsAreDead == RowsInv => Rows!RevokedIsDead
  BY DEF RowsInv

LEMMA RowsTyped == RowsInv => Rows!TypeOK
  BY DEF RowsInv, RowRequests, Titles, Tokens, Rows!TypeOK, Query

-----------------------------------------------------------------------------
(* The composition: one component moves, the others keep their invariants. *)

Part == part \in {"accounts", "administration", "rows", "packages"}
Whole == Part /\ Acc!AInv /\ AdmInv /\ RowsInv /\ PkgInv

LEMMA WholeInit ==
    ASSUME RequestsAssumption, Init
    PROVE  Whole
<1>1. Acc!AInv
  BY RequestsAssumption, Acc!InitInv DEF Init
<1>2. AdmInv
  BY RequestsAssumption, AdmInit DEF Init
<1>3. RowsInv
  BY RequestsAssumption, RowsInit DEF Init
<1> QED
  BY <1>1, <1>2, <1>3, PkgInit DEF Init, Whole, Part

\* Each component takes a step of its own or none.
LEMMA StepIs ==
    ASSUME [Next]_all
    PROVE  /\ [Acc!Next]_(Acc!vars) /\ [Adm!Next]_(Adm!vars)
           /\ [Rows!Next]_(Rows!vars) /\ [Pkg!Next]_(Pkg!vars)
           /\ part' = part
  BY DEF Next, all, accounts, administration, rows, catalogue,
         Acc!vars, Adm!vars, Rows!vars, Pkg!vars

LEMMA WholeStep ==
    ASSUME RequestsAssumption, Whole, [Next]_all
    PROVE  Whole'
<1>1. Acc!AInv'
  BY RequestsAssumption, StepIs, Acc!StepInv DEF Whole
<1>2. AdmInv'
  BY RequestsAssumption, StepIs, AdmStep DEF Whole
<1>3. RowsInv'
  BY RequestsAssumption, StepIs, RowsStep DEF Whole
<1>4. PkgInv'
  BY RequestsAssumption, StepIs, PkgStep, PkgStutter DEF Whole
<1> QED
  BY <1>1, <1>2, <1>3, <1>4, StepIs DEF Whole, Part

\* The part of the run that moves keeps its invariant; the others have not moved,
\* so all four hold theirs.
THEOREM WholeHolds == Spec => []Whole
<1>1. Init => Whole
  BY RequestsAssumption, WholeInit
<1>2. Whole /\ [Next]_all => Whole'
  BY RequestsAssumption, WholeStep
<1> QED
  BY <1>1, <1>2, PTL DEF Spec

LEMMA PkgTyped == PkgInv => Pkg!TypeOK
<1> SUFFICES ASSUME PkgInv PROVE Pkg!TypeOK
  OBVIOUS
<1>1. ASSUME NEW q \in Slot
      PROVE  \/ editing[q] = Pkg!Idle
             \/ editing[q].op = "create" /\ editing[q].body \in Pkg!Creates
             \/ editing[q].op \in {"update", "delete"} /\ editing[q].body \in Pkg!Updates
                /\ editing[q].loaded \in Pkg!Row /\ Pkg!Exists(editing[q].id)
  BY DEF PkgInv, Checked, Loaded
<1> QED
  BY <1>1 DEF PkgInv, Pkg!TypeOK

-----------------------------------------------------------------------------
(* The theorems.                                                           *)

\* The rows of users, wallets, chats and packages, the requests in flight and
\* the histories keep their types, in every component.
THEOREM TypesHold == Spec => []TypeOK
<1>1. Whole => Acc!TypeOK /\ Adm!TypeOK /\ Rows!TypeOK /\ Pkg!TypeOK
  BY RequestsAssumption, Acc!InvIsTyped, AdmTyped, RowsTyped, PkgTyped DEF Whole
<1>2. Whole => TypeOK
  BY <1>1 DEF Whole, Part, TypeOK
<1> QED
  BY <1>2, WholeHolds, PTL

\* consume_password_reset_token: of any number of requests that present one
\* link, at once or after one another, one is let in.
THEOREM LinksAdmitOnce == Spec => []LinkAdmitsOnce
<1>1. Whole => LinkAdmitsOnce
  BY RequestsAssumption, Acc!InvAdmitsOnce DEF Whole, LinkAdmitsOnce
<1> QED
  BY <1>1, WholeHolds, PTL

\* create_user_with_wallet and delete_account: an account has its wallet and
\* an address one account, however signups are raced and retried.
THEOREM AccountsAreWhole == Spec => []AccountIsWhole
<1>1. Whole => AccountIsWhole
  BY RequestsAssumption, Acc!InvIsWhole DEF Whole, AccountIsWhole
<1> QED
  BY <1>1, WholeHolds, PTL

\* _load_active_user: a request that began after its account was deactivated
\* never comes to write it.
THEOREM InactiveStaysOut == Spec => []InactiveIsOut
<1>1. Whole => InactiveIsOut
  BY RequestsAssumption, Acc!InvIsOut DEF Whole, InactiveIsOut
<1> QED
  BY <1>1, WholeHolds, PTL

\* update_user_admin, delete_user_admin and delete_account: the last
\* administrator is lost only after a request was saved across another.
THEOREM LockoutIsARace == Spec => []LockoutNeedsARace
<1>1. Whole => LockoutNeedsARace
  BY RequestsAssumption, AdmIsRace DEF Whole, LockoutNeedsARace
<1> QED
  BY <1>1, WholeHolds, PTL

\* unshare_chat: a link its owner held when asking to unshare is dead from the
\* answer on, whatever shares run at the same time.
THEOREM RevokedStaysDead == Spec => []RevokedIsDead
<1>1. Whole => RevokedIsDead
  BY RequestsAssumption, RowsAreDead DEF Whole, RevokedIsDead
<1> QED
  BY <1>1, WholeHolds, PTL

\* update_package and delete_package: a row keeps the name and the flag that
\* no request has sent, whatever was committed since the row was loaded.
THEOREM EditsAreKept == Spec => OnlyAskedChanges
<1>1. Whole /\ [Next]_all => [Asked]_(Pkg!vars)
  BY RequestsAssumption, StepIs, PkgStep DEF Whole
<1>2. OnlyAskedChanges <=> [][Asked]_(Pkg!vars)
  BY DEF OnlyAskedChanges, Pkg!OnlyAskedChanges, Asked
<1> QED
  BY <1>1, <1>2, WholeHolds, PTL DEF Spec
=============================================================================
