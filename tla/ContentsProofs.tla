--------------------------- MODULE ContentsProofs ---------------------------
(***************************************************************************)
(* What a turn and a media request are made of, for every prompt, score,   *)
(* wallet, model, stream, text and conversation: what a model is given,    *)
(* the route of a prompt, the bill of a reply, and the price of a media    *)
(* request.                                                                *)
(***************************************************************************)
EXTENDS MCContents, SumsAndLists, TLAPS

\* Min and Max of the community modules, as each component has them.
Least(S) == CHOOSE x \in S : \A y \in S : x =< y
Greatest(S) == CHOOSE x \in S : \A y \in S : x >= y

LEMMA LeastIs ==
    ASSUME NEW S, S \subseteq Int, NEW i \in S, \A j \in S : i <= j
    PROVE  Least(S) = i
<1>1. \E x \in S : \A y \in S : x =< y
  OBVIOUS
<1>2. Least(S) \in S /\ \A y \in S : Least(S) =< y
  BY <1>1, Zenon DEF Least
<1>3. PICK x \in S : x = Least(S)
  BY <1>2
<1>4. x \in Int /\ i \in Int /\ x =< i /\ i =< x
  BY <1>2, <1>3
<1> QED
  BY <1>3, <1>4

LEMMA LeastOfTwo ==
    ASSUME NEW a \in Int, NEW b \in Int
    PROVE  Least({a, b}) = IF a <= b THEN a ELSE b
  BY DEF Least

LEMMA GreatestOfTwo ==
    ASSUME NEW a \in Int, NEW b \in Int
    PROVE  Greatest({a, b}) = IF a >= b THEN a ELSE b
  BY DEF Greatest

-----------------------------------------------------------------------------
(* Context.                                                                *)

LEMMA CtxKeep == \A s, S : Ctx!Keep(s, S) = Keep(s, S)
  BY DEF Ctx!Keep, Keep

LEMMA VisibleIs ==
    ASSUME NEW s \in Seq(Ctx!Message), NEW m, NEW filtered
    PROVE  Ctx!Visible(s, m, filtered) \in Seq(Ctx!Message)
  BY CtxKeep, KeepIn DEF Ctx!Visible

LEMMA VisiblePrompt ==
    ASSUME NEW s \in Seq(Ctx!Message), NEW p \in Ctx!Message, Ctx!IsPrompt(p), NEW m, NEW filtered
    PROVE  Ctx!Visible(Append(s, p), m, filtered) = Append(Ctx!Visible(s, m, filtered), p)
<1> DEFINE S == {r \in Ctx!Message : filtered => Ctx!IsPrompt(r) \/ r.model = m}
<1>1. p \in S
  OBVIOUS
<1> HIDE DEF S
<1>2. Keep(Append(s, p), S) = Append(Keep(s, S), p)
  BY <1>1, KeepAppend
<1> QED
  BY <1>2, CtxKeep DEF Ctx!Visible, S

LEMMA RecentIs ==
    ASSUME NEW X, NEW s \in Seq(X), NEW n \in Nat
    PROVE  Ctx!Recent(s, n) \in Seq(X) /\ Len(Ctx!Recent(s, n)) <= n
<1>1. Len(s) \in Nat /\ \A i \in 1..Len(s) : s[i] \in X
  OBVIOUS
<1>2. PICK a \in Int : a = Len(s) - (IF n < Len(s) THEN n ELSE Len(s)) + 1
  BY SMTT(40), <1>1
<1>3. a >= 1 /\ a <= Len(s) + 1 /\ Len(s) - a + 1 <= n
  <2>1. CASE n < Len(s)
    BY <1>1, <1>2, <2>1
  <2>2. CASE ~(n < Len(s))
    BY <1>1, <1>2, <2>2
  <2> QED
    BY <2>1, <2>2
<1>4. \A i \in a..Len(s) : s[i] \in X
  BY <1>1, <1>3
<1>5. /\ SubSeq(s, a, Len(s)) \in Seq(X)
      /\ Len(SubSeq(s, a, Len(s))) = IF a <= Len(s) THEN Len(s) - a + 1 ELSE 0
  BY <1>1, <1>4, SubSeqProperties
<1> QED
  BY <1>1, <1>2, <1>3, <1>5 DEF Ctx!Recent

LEMMA RecentAppend ==
    ASSUME NEW X, NEW s \in Seq(X), NEW e \in X, NEW n \in Nat, NEW l \in Nat, n = l + 1
    PROVE  Ctx!Recent(Append(s, e), n) = Append(Ctx!Recent(s, l), e)
<1> DEFINE t == Append(s, e)
<1>1. Len(s) \in Nat /\ Len(t) \in Nat /\ Len(t) = Len(s) + 1
  BY AppendProperties
<1> HIDE DEF t
<1>2. PICK k \in Nat, j \in Nat : k = Len(s) /\ j = Len(t) /\ j = k + 1
  BY <1>1
<1> DEFINE a == k - (IF l < k THEN l ELSE k) + 1
<1>3. a = j - (IF n < j THEN n ELSE j) + 1 /\ a \in 1..j
  <2>1. CASE l < k
    <3>1. n < j
      BY <1>2, <2>1
    <3> QED
      BY <1>2, <2>1, <3>1
  <2>2. CASE ~(l < k)
    <3>1. ~(n < j)
      BY <1>2, <2>2
    <3> QED
      BY <1>2, <2>2, <3>1
  <2> QED
    BY <2>1, <2>2
<1>4. SubSeq(t, a, Len(t)) = Append(SubSeq(s, a, Len(s)), e)
  <2> HIDE DEF a
  <2>1. t = Append(s, e)
    BY DEF t
  <2>2. a \in 1..Len(t)
    BY <1>2, <1>3
  <2> QED
    BY <2>1, <2>2, EndGrows
<1> QED
  BY <1>2, <1>3, <1>4 DEF Ctx!Recent, t

LEMMA BareIs ==
    ASSUME NEW s \in Seq(Ctx!Message)
    PROVE  /\ Ctx!Bare(s) \in Seq(Ctx!Message) /\ Len(Ctx!Bare(s)) = Len(s)
           /\ \A i \in 1..Len(s) : Ctx!Bare(s)[i] = [s[i] EXCEPT !.files = {}]
           /\ \A i \in 1..Len(s) : Ctx!Bare(s)[i].text = s[i].text
<1>1. Len(s) \in Nat /\ DOMAIN s = 1..Len(s) /\ \A i \in 1..Len(s) : s[i] \in Ctx!Message
  OBVIOUS
<1>2. \A r \in Ctx!Message : [r EXCEPT !.files = {}] \in Ctx!Message /\ [r EXCEPT !.files = {}].text = r.text
  BY DEF Ctx!Message
<1> DEFINE b == Ctx!Bare(s)
<1>3. b = [i \in 1..Len(s) |-> [s[i] EXCEPT !.files = {}]]
  BY <1>1 DEF Ctx!Bare
<1> HIDE DEF b
<1>4. \A i \in 1..Len(s) : b[i] = [s[i] EXCEPT !.files = {}]
  BY <1>3
<1>5. \A i \in 1..Len(s) : b[i] \in Ctx!Message /\ b[i].text = s[i].text
  BY <1>1, <1>2, <1>4
<1>6. b \in [1..Len(s) -> Ctx!Message]
  BY <1>3, <1>4, <1>5
<1>7. b \in Seq(Ctx!Message) /\ Len(b) = Len(s)
  BY <1>1, <1>6
<1> QED
  BY <1>4, <1>5, <1>7 DEF b

LEMMA BareAppend ==
    ASSUME NEW s \in Seq(Ctx!Message), NEW p \in Ctx!Message
    PROVE  Ctx!Bare(Append(s, p)) = Append(Ctx!Bare(s), [p EXCEPT !.files = {}])
<1> DEFINE bare(r) == [r EXCEPT !.files = {}]
           t == Append(s, p)
           b == Ctx!Bare(s)
           c == Ctx!Bare(t)
           d == Append(b, bare(p))
<1>1. bare(p) \in Ctx!Message
  BY DEF Ctx!Message
<1>2. /\ Len(s) \in Nat /\ t \in Seq(Ctx!Message) /\ Len(t) = Len(s) + 1 /\ t[Len(s) + 1] = p
      /\ \A i \in 1..Len(s) : t[i] = s[i]
  BY AppendProperties
<1> HIDE DEF t
<1>3. b \in Seq(Ctx!Message) /\ Len(b) = Len(s) /\ \A i \in 1..Len(s) : b[i] = bare(s[i])
  BY BareIs
<1>4. c \in Seq(Ctx!Message) /\ Len(c) = Len(t) /\ \A i \in 1..Len(t) : c[i] = bare(t[i])
  BY <1>2, BareIs
<1> HIDE DEF b, c, bare
<1>5. /\ d \in Seq(Ctx!Message) /\ Len(d) = Len(b) + 1 /\ d[Len(b) + 1] = bare(p)
      /\ \A i \in 1..Len(b) : d[i] = b[i]
  BY <1>1, <1>3, AppendProperties
<1> HIDE DEF d
<1>6. Len(c) = Len(d)
  BY <1>2, <1>3, <1>4, <1>5
<1>7. \A i \in 1..Len(c) : c[i] = d[i]
  <2> SUFFICES ASSUME NEW i \in 1..Len(c) PROVE c[i] = d[i]
    OBVIOUS
  <2>1. i \in 1..Len(s) \/ i = Len(s) + 1
    BY <1>2, <1>4
  <2>2. i \in 1..Len(t)
    BY <1>4
  <2> QED
    BY <1>2, <1>3, <1>4, <1>5, <2>1, <2>2
<1>8. c = d
  BY <1>4, <1>5, <1>6, <1>7, SeqEqual
<1> QED
  BY <1>8 DEF b, c, d, t, bare

\* What load_history makes of the rows before a prompt, when one place is the prompt's.
Earlier(before, m, filtered) ==
    Ctx!Bare(Keep(Ctx!Recent(Ctx!Visible(before, m, filtered), Limit - 1), Ctx!Written))

\* The text of a row.
Words(r) == r.text

\* The stored copy of the prompt, where load_history finds it, is what its rich
\* version replaces; where it has no text, what is last is no copy of it.
LEMMA PromptedIs ==
    ASSUME NEW before \in Seq(Ctx!Message), NEW p \in Ctx!Message, Ctx!IsPrompt(p),
           NEW text, Words(p) = text, NEW m, NEW filtered, NEW files, Ctx!Assumptions
    PROVE  /\ Ctx!Prompted(Append(before, p), m, filtered, text, files)
                 = Append(Earlier(before, m, filtered), Ctx!Latest(text, files))
           /\ Earlier(before, m, filtered) \in Seq(Ctx!Message)
           /\ Len(Earlier(before, m, filtered)) <= Limit - 1
<1> DEFINE M == Ctx!Message
           v == Ctx!Visible(before, m, filtered)
           r == Ctx!Recent(v, Limit - 1)
           w == Keep(r, Ctx!Written)
           h == Ctx!Bare(w)
           full == Ctx!Bare(Ctx!LoadHistory(Append(before, p), m, filtered))
           bare == [p EXCEPT !.files = {}]
<1>1. Limit \in Nat /\ Limit - 1 \in Nat /\ Limit = (Limit - 1) + 1
  <2>1. Limit \in Nat /\ Limit # 0
    BY DEF Ctx!Assumptions
  <2> QED
    BY <2>1
<1>2. v \in Seq(M)
  BY VisibleIs
<1>3. Ctx!Visible(Append(before, p), m, filtered) = Append(v, p)
  BY VisiblePrompt
<1> HIDE DEF v
<1>4. r \in Seq(M) /\ Len(r) <= Limit - 1
  BY <1>1, <1>2, RecentIs
<1>5. Ctx!Recent(Append(v, p), Limit) = Append(r, p)
  BY <1>1, <1>2, RecentAppend
<1> HIDE DEF r
<1>6. w \in Seq(M) /\ Len(w) <= Len(r) /\ \A i \in 1..Len(w) : w[i] \in Ctx!Written
  BY <1>4, KeepIn
<1>7. Keep(Append(r, p), Ctx!Written) = IF p \in Ctx!Written THEN Append(w, p) ELSE w
  BY <1>4, KeepAppend
<1>8. full = Ctx!Bare(IF p \in Ctx!Written THEN Append(w, p) ELSE w)
  BY <1>3, <1>5, <1>7, CtxKeep DEF Ctx!LoadHistory
<1> HIDE DEF w
<1>9. h \in Seq(M) /\ Len(h) = Len(w)
  BY <1>6, BareIs
<1>21. \A i \in 1..Len(h) : h[i].text # ""
  <2>1. Len(h) = Len(w) /\ \A i \in 1..Len(w) : h[i].text = w[i].text
    BY <1>6, BareIs
  <2> QED
    BY <1>6, <2>1 DEF Ctx!Written
<1>10. Ctx!Bare(Append(w, p)) = Append(h, bare)
  BY <1>6, BareAppend
<1>11. bare \in M /\ bare.text = text /\ Ctx!IsPrompt(bare)
  BY DEF Words, Ctx!Message, Ctx!IsPrompt
<1>20. Len(h) \in Nat /\ Len(w) \in Nat /\ Len(r) \in Nat /\ \A i \in 1..Len(h) : h[i] \in M
  <2> HIDE DEF h, M, full, bare
  <2>1. Len(h) \in Nat
    BY <1>9
  <2>2. Len(w) \in Nat
    BY <1>6
  <2>3. Len(r) \in Nat
    BY <1>4
  <2>4. \A i \in 1..Len(h) : h[i] \in M
    BY <1>9
  <2> QED
    BY <2>1, <2>2, <2>3, <2>4
<1> HIDE DEF h, full, bare, M
<1>12. (IF Ctx!Stored(full, text) THEN Ctx!Front(full) ELSE full) = h
  <2>1. CASE p \in Ctx!Written
    <3>1. full = Append(h, bare)
      BY <1>8, <1>10, <2>1
    <3>2. /\ Len(h) \in Nat /\ full # <<>> /\ Len(full) = Len(h) + 1 /\ full[Len(h) + 1] = bare
          /\ \A i \in 1..Len(h) : full[i] = h[i] /\ h[i] \in M
      <4>1. Len(h) \in Nat /\ \A i \in 1..Len(h) : h[i] \in M
        BY <1>20
      <4> DEFINE g == Append(h, bare)
      <4>2. g # <<>> /\ Len(g) = Len(h) + 1 /\ g[Len(h) + 1] = bare /\ \A i \in 1..Len(h) : g[i] = h[i]
        BY <1>9, <1>11, AppendProperties
      <4> HIDE DEF g
      <4>3. full = g
        BY <3>1 DEF g
      <4> QED
        BY <4>1, <4>2, <4>3
    <3>3. Ctx!Stored(full, text)
      BY <1>11, <3>2 DEF Ctx!Stored, Ctx!Last
    <3>4. Ctx!Front(full) = h
      BY <1>9, <1>11, <3>1, <3>2, FrontOfAppend DEF Ctx!Front
    <3> QED
      BY <3>3, <3>4
  <2>2. CASE p \notin Ctx!Written
    <3>1. full = h
      BY <1>8, <2>2 DEF h
    <3>2. text = ""
      BY <2>2 DEF Words, Ctx!Written
    <3>3. ~Ctx!Stored(full, text)
      <4>1. h # <<>> => Len(h) \in 1..Len(h)
        BY <1>9, <1>20, EmptySeq
      <4> QED
        BY <1>21, <3>1, <3>2, <4>1 DEF Ctx!Stored, Ctx!Last
    <3> QED
      BY <3>1, <3>3
  <2> QED
    BY <2>1, <2>2
<1>13. Ctx!Prompted(Append(before, p), m, filtered, text, files) = Append(h, Ctx!Latest(text, files))
  BY <1>12 DEF Ctx!Prompted, full
<1>14. Earlier(before, m, filtered) = h
  BY DEF Earlier, h, w, r, v
<1>15. Len(h) <= Limit - 1
  BY <1>1, <1>4, <1>6, <1>9, <1>20
<1> QED
  BY <1>9, <1>13, <1>14, <1>15 DEF M

\* The place of the last prompt of a list of rows.
LastIn(s) == Greatest({i \in DOMAIN s : Ctx!IsPrompt(s[i])})

\* What a model was given is what the rows before the last prompt make, and the prompt.
GivenOf(s, m, w, g) ==
    LET n == LastIn(s) IN
    /\ Ctx!Last(g).text = s[n].text
    /\ Ctx!Front(g) = Earlier(SubSeq(s, 1, n - 1), m, w)
    /\ Ctx!Last(g).files \subseteq s[n].files

CtxInv ==
    /\ Ctx!TypeOK
    /\ answering # {} => \E i \in DOMAIN rows : Ctx!IsPrompt(rows[i])
    /\ \A m \in answering : GivenOf(rows, m, wide, given[m])

LEMMA PlacesAre ==
    ASSUME NEW X, NEW s \in Seq(X)
    PROVE  DOMAIN s = 1..Len(s) /\ Len(s) \in Nat
  OBVIOUS

LEMMA LastInIs ==
    ASSUME NEW s \in Seq(Ctx!Message), NEW n \in 1..Len(s), Ctx!IsPrompt(s[n]),
           \A i \in 1..Len(s) : i > n => ~Ctx!IsPrompt(s[i])
    PROVE  LastIn(s) = n
<1> DEFINE S == {i \in DOMAIN s : Ctx!IsPrompt(s[i])}
<1>1. DOMAIN s = 1..Len(s) /\ Len(s) \in Nat
  OBVIOUS
<1>2. n \in S /\ \A i \in S : i \in Int /\ n >= i
  BY <1>1
<1> HIDE DEF S
<1>3. Greatest(S) \in S /\ \A i \in S : Greatest(S) >= i
  BY <1>2, Zenon DEF Greatest
<1>4. PICK g \in S : g = Greatest(S)
  BY <1>3
<1>5. g \in Int /\ n \in Int /\ n >= g /\ g >= n
  BY <1>2, <1>3, <1>4
<1>6. g = n
  BY <1>5
<1> QED
  BY <1>4, <1>6 DEF LastIn, S

LEMMA LastInExists ==
    ASSUME NEW s \in Seq(Ctx!Message), \E i \in DOMAIN s : Ctx!IsPrompt(s[i])
    PROVE  \E n \in 1..Len(s) : /\ LastIn(s) = n /\ Ctx!IsPrompt(s[n])
                                /\ \A i \in 1..Len(s) : i > n => ~Ctx!IsPrompt(s[i])
<1> DEFINE S == {i \in 1..Len(s) : Ctx!IsPrompt(s[i])}
<1>1. DOMAIN s = 1..Len(s) /\ Len(s) \in Nat
  OBVIOUS
<1>2. S \subseteq 1..Len(s) /\ S # {}
  BY <1>1
<1>3. PICK n \in S : \A i \in S : i <= n
  <2> HIDE DEF S
  <2> QED
    BY <1>1, <1>2, LastNumber
<1>4. n \in 1..Len(s) /\ Ctx!IsPrompt(s[n])
  OBVIOUS
<1>5. \A i \in 1..Len(s) : i > n => ~Ctx!IsPrompt(s[i])
  BY <1>3
<1>6. LastIn(s) = n
  BY <1>4, <1>5, LastInIs
<1> QED
  BY <1>4, <1>5, <1>6

LEMMA LastPromptIs == Ctx!LastPrompt = LastIn(rows)
  BY DEF Ctx!LastPrompt, Ctx!Max, LastIn, Greatest

\* A turn begins with the rows before a prompt, and the prompt.
LEMMA Begun ==
    ASSUME CtxInv, Ctx!Assumptions, NEW before \in Seq(Ctx!Message), NEW p \in Ctx!Message,
           Ctx!IsPrompt(p), NEW text, Words(p) = text, NEW ms \in SUBSET Models,
           NEW files \in SUBSET p.files, Ctx!Begin(ms, Append(before, p), text, files), carried' \subseteq File
    PROVE  CtxInv'
<1> DEFINE M == Ctx!Message
           kept == Append(before, p)
           n == Len(before) + 1
<1>1. /\ kept \in Seq(M) /\ Len(kept) = n /\ kept[n] = p /\ Len(before) \in Nat
      /\ DOMAIN kept = 1..n
  <2>1. Len(before) \in Nat
    OBVIOUS
  <2> QED
    BY <2>1, AppendProperties
<1>2. SubSeq(kept, 1, n - 1) = before
  <2>1. n - 1 = Len(before)
    BY <1>1
  <2> QED
    BY <2>1, FrontOfAppend
<1> HIDE DEF M
<1>3. LastIn(kept) = n
  <2> HIDE DEF kept
  <2>1. n \in 1..Len(kept) /\ \A i \in 1..Len(kept) : ~(i > n)
    BY <1>1
  <2> QED
    BY <1>1, <2>1, LastInIs DEF M
<1> HIDE DEF kept
<1>4. /\ rows' = kept /\ answering' = ms /\ wide' \in BOOLEAN /\ turns < MaxTurns /\ turns' = turns + 1
      /\ UNCHANGED <<arena, staged, uploaded>>
      /\ given' = [m \in Models |-> IF m \notin ms THEN <<>>
                                    ELSE Ctx!Prompted(kept, m, wide', text, files)]
  BY DEF Ctx!Begin, kept
<1>5. PICK w \in BOOLEAN : w = wide'
  BY <1>4
<1>6. ASSUME NEW m \in ms
      PROVE  /\ given'[m] \in Seq(M) /\ Len(given'[m]) <= Limit
             /\ GivenOf(kept, m, w, given'[m])
  <2> DEFINE e == Earlier(before, m, w)
             l == Ctx!Latest(text, files)
             g == Append(e, l)
  <2>1. given'[m] = g /\ e \in Seq(M) /\ Len(e) <= Limit - 1
    <3>1. given'[m] = Ctx!Prompted(kept, m, w, text, files)
      BY <1>4, <1>5
    <3>2. /\ Ctx!Prompted(kept, m, w, text, files) = g
          /\ e \in Seq(M) /\ Len(e) <= Limit - 1
      BY PromptedIs DEF kept, M
    <3> QED
      BY <3>1, <3>2
  <2>2. text = p.text /\ text \in Text \cup {""} /\ p.files \subseteq File
    BY DEF Ctx!Message, Words
  <2>3. l \in M /\ l.text = text /\ l.files = files
    BY <2>2 DEF Ctx!Latest, M, Ctx!Message
  <2> HIDE DEF e, l
  <2>4. g \in Seq(M) /\ Len(g) = Len(e) + 1 /\ g[Len(e) + 1] = l /\ Len(e) \in Nat
    <3>1. Len(e) \in Nat
      BY <2>1
    <3> QED
      BY <2>1, <2>3, <3>1, AppendProperties
  <2>5. SubSeq(g, 1, Len(e)) = e
    BY <2>1, <2>3, FrontOfAppend
  <2> HIDE DEF g
  <2>6. Limit \in Nat
    BY DEF Ctx!Assumptions
  <2>7. Len(g) <= Limit /\ Len(g) - 1 = Len(e)
    BY <2>1, <2>4, <2>6
  <2>8. Ctx!Last(g) = l /\ Ctx!Front(g) = e
    BY <2>4, <2>5, <2>7 DEF Ctx!Last, Ctx!Front
  <2>9. GivenOf(kept, m, w, g)
    BY <1>1, <1>2, <1>3, <2>2, <2>3, <2>8 DEF GivenOf, e
  <2> QED
    BY <2>1, <2>4, <2>7, <2>9
<1>7. Ctx!TypeOK
  BY DEF CtxInv
<1>8. given' \in [Models -> Seq(M)] /\ \A m \in Models : Len(given'[m]) <= Limit
  <2>1. given' = [m \in Models |-> given'[m]]
    BY <1>4
  <2>2. ASSUME NEW m \in Models PROVE given'[m] \in Seq(M) /\ Len(given'[m]) <= Limit
    <3>1. CASE m \in ms
      BY <1>6, <3>1
    <3>2. CASE m \notin ms
      <4>1. given'[m] = <<>>
        BY <1>4, <3>2
      <4>2. <<>> \in Seq(M) /\ Len(<<>>) = 0
        BY EmptySeq
      <4>3. Limit \in Nat
        BY DEF Ctx!Assumptions
      <4> QED
        BY <4>1, <4>2, <4>3
    <3> QED
      BY <3>1, <3>2
  <2> QED
    BY <2>1, <2>2
<1>9. turns' \in 0..MaxTurns
  <2>1. MaxTurns \in Nat /\ turns \in 0..MaxTurns
    BY <1>7 DEF Ctx!TypeOK, Ctx!Assumptions
  <2> QED
    BY <1>4, <2>1
<1>10. Ctx!TypeOK'
  BY <1>1, <1>4, <1>7, <1>8, <1>9 DEF Ctx!TypeOK, M
<1>11. \E i \in DOMAIN kept : Ctx!IsPrompt(kept[i])
  <2>1. n \in 1..n
    BY <1>1
  <2> QED
    BY <1>1, <2>1
<1>12. \A m \in answering' : GivenOf(rows', m, wide', given'[m])
  BY <1>4, <1>5, <1>6
<1>13. answering' # {} => \E i \in DOMAIN rows' : Ctx!IsPrompt(rows'[i])
  BY <1>4, <1>11
<1> QED
  BY <1>10, <1>12, <1>13 DEF CtxInv

\* A new prompt is a row.
LEMMA LatestIs ==
    ASSUME NEW text \in Text \cup {""}, NEW files \in SUBSET File
    PROVE  /\ Ctx!Latest(text, files) \in Ctx!Message /\ Ctx!IsPrompt(Ctx!Latest(text, files))
           /\ Words(Ctx!Latest(text, files)) = text /\ Ctx!Latest(text, files).files = files
  BY DEF Ctx!Latest, Ctx!Message, Ctx!IsPrompt, Words

LEMMA SendInv ==
    ASSUME CtxInv, Ctx!Assumptions, NEW ms \in SUBSET Models, NEW text \in Text \cup {""},
           NEW files \in SUBSET File, Ctx!Send(ms, text, files)
    PROVE  CtxInv'
<1> DEFINE p == Ctx!Latest(text, files)
<1>1. p \in Ctx!Message /\ Ctx!IsPrompt(p) /\ Words(p) = text /\ p.files = files
  BY LatestIs
<1>2. rows \in Seq(Ctx!Message)
  BY DEF CtxInv, Ctx!TypeOK
<1>3. Ctx!Begin(ms, Append(rows, p), text, files \cap staged) /\ carried' = files \cap staged
  BY DEF Ctx!Send
<1> HIDE DEF p
<1>4. files \cap staged \in SUBSET p.files /\ carried' \subseteq File
  BY <1>1, <1>3
<1> QED
  BY <1>1, <1>2, <1>3, <1>4, Begun

LEMMA EditInv ==
    ASSUME CtxInv, Ctx!Assumptions, NEW ms \in SUBSET Models, NEW text \in Text \cup {""},
           NEW files \in SUBSET File, NEW i \in DOMAIN rows, Ctx!Edit(ms, i, text, files)
    PROVE  CtxInv'
<1> DEFINE p == Ctx!Latest(text, files)
           before == SubSeq(rows, 1, i - 1)
<1>1. p \in Ctx!Message /\ Ctx!IsPrompt(p) /\ Words(p) = text /\ p.files = files
  BY LatestIs
<1>2. before \in Seq(Ctx!Message)
  <2>1. rows \in Seq(Ctx!Message)
    BY DEF CtxInv, Ctx!TypeOK
  <2>2. DOMAIN rows = 1..Len(rows)
    BY <2>1, PlacesAre
  <2>3. i \in 1..Len(rows)
    BY <2>2
  <2> QED
    BY <2>1, <2>3, FrontAndLast
<1>3. Ctx!Begin(ms, Append(before, p), text, files \cap staged) /\ carried' = files \cap staged
  BY DEF Ctx!Edit
<1> HIDE DEF p, before
<1>4. files \cap staged \in SUBSET p.files /\ carried' \subseteq File
  BY <1>1, <1>3
<1> QED
  BY <1>1, <1>2, <1>3, <1>4, Begun

LEMMA RegenerateInv ==
    ASSUME CtxInv, Ctx!Assumptions, NEW ms \in SUBSET Models, Ctx!Regenerate(ms)
    PROVE  CtxInv'
<1>1. rows \in Seq(Ctx!Message) /\ carried \subseteq File
  BY DEF CtxInv, Ctx!TypeOK
<1>2. \E i \in DOMAIN rows : Ctx!IsPrompt(rows[i])
  BY DEF Ctx!Regenerate
<1>3. PICK n \in 1..Len(rows) : LastIn(rows) = n /\ Ctx!IsPrompt(rows[n])
  BY <1>1, <1>2, LastInExists
<1>4. /\ SubSeq(rows, 1, n - 1) \in Seq(Ctx!Message) /\ rows[n] \in Ctx!Message
      /\ SubSeq(rows, 1, n) = Append(SubSeq(rows, 1, n - 1), rows[n])
  BY <1>1, FrontAndLast
<1>5. Ctx!Begin(ms, Append(SubSeq(rows, 1, n - 1), rows[n]), Words(rows[n]), {}) /\ carried' = carried
  BY <1>3, <1>4, LastPromptIs DEF Ctx!Regenerate, Words
<1>6. {} \in SUBSET rows[n].files
  OBVIOUS
<1> QED
  BY <1>1, <1>3, <1>4, <1>5, <1>6, Begun

\* A model that has ended was given nothing.
LEMMA NothingGiven ==
    ASSUME Ctx!Assumptions, given \in [Models -> Seq(Ctx!Message)],
           \A k \in Models : Len(given[k]) <= Limit, NEW m \in Models,
           given' = [given EXCEPT ![m] = <<>>]
    PROVE  /\ given' \in [Models -> Seq(Ctx!Message)]
           /\ \A k \in Models : Len(given'[k]) <= Limit /\ (k # m => given'[k] = given[k])
<1>1. <<>> \in Seq(Ctx!Message) /\ Len(<<>>) = 0
  BY EmptySeq
<1>2. Limit \in Nat
  BY DEF Ctx!Assumptions
<1> QED
  BY <1>1, <1>2

LEMMA EndsInv ==
    ASSUME CtxInv, Ctx!Assumptions, NEW m \in Models, answering' = answering \ {m},
           given' = [given EXCEPT ![m] = <<>>],
           UNCHANGED <<rows, arena, staged, uploaded, wide, carried, turns>>
    PROVE  CtxInv'
<1>1. Ctx!TypeOK
  BY DEF CtxInv
<1>2. /\ given' \in [Models -> Seq(Ctx!Message)]
      /\ \A k \in Models : Len(given'[k]) <= Limit /\ (k # m => given'[k] = given[k])
  BY <1>1, NothingGiven DEF Ctx!TypeOK
<1>3. Ctx!TypeOK'
  BY <1>1, <1>2 DEF Ctx!TypeOK
<1>4. \A k \in answering' : k # m /\ k \in Models /\ k \in answering
  BY <1>1 DEF Ctx!TypeOK
<1> QED
  BY <1>2, <1>3, <1>4 DEF CtxInv

\* A reply comes after the last prompt, and nothing before it changes.
LEMMA ReplyInv ==
    ASSUME CtxInv, Ctx!Assumptions, NEW m \in Models, NEW served \in Models, NEW text \in Text,
           Ctx!Reply(m, served, text)
    PROVE  CtxInv'
<1> DEFINE r == [role |-> "assistant", text |-> text, model |-> served, asked |-> m, files |-> {}]
<1>1. rows \in Seq(Ctx!Message) /\ \E i \in DOMAIN rows : Ctx!IsPrompt(rows[i])
  BY DEF CtxInv, Ctx!TypeOK, Ctx!Reply, Ctx!Ends
<1>2. r \in Ctx!Message /\ ~Ctx!IsPrompt(r)
  BY DEF Ctx!Message, Ctx!IsPrompt
<1>3. /\ rows' = Append(rows, r) /\ answering' = answering \ {m}
      /\ given' = [given EXCEPT ![m] = <<>>]
      /\ UNCHANGED <<arena, staged, uploaded, wide, carried, turns>>
  BY DEF Ctx!Reply, Ctx!Ends
<1> HIDE DEF r
<1>4. PICK n \in 1..Len(rows) : /\ LastIn(rows) = n /\ Ctx!IsPrompt(rows[n])
                                /\ \A i \in 1..Len(rows) : i > n => ~Ctx!IsPrompt(rows[i])
  BY <1>1, LastInExists
<1> DEFINE t == Append(rows, r)
<1>5. /\ t \in Seq(Ctx!Message) /\ Len(t) = Len(rows) + 1 /\ t[Len(rows) + 1] = r
      /\ \A i \in 1..Len(rows) : t[i] = rows[i]
      /\ Len(rows) \in Nat
  <2>1. Len(rows) \in Nat
    BY <1>1
  <2> QED
    BY <1>1, <1>2, <2>1, AppendProperties
<1>6. SubSeq(t, 1, n - 1) = SubSeq(rows, 1, n - 1)
  <2>1. n - 1 \in 0..Len(rows)
    BY <1>5
  <2> QED
    BY <1>1, <1>2, <2>1, PrefixSame
<1> HIDE DEF t
<1>7. n \in 1..Len(t) /\ \A i \in 1..Len(t) : i \in 1..Len(rows) \/ i = Len(rows) + 1
  BY <1>5
<1>8. LastIn(t) = n /\ t[n] = rows[n]
  <2>1. \A i \in 1..Len(t) : i > n => ~Ctx!IsPrompt(t[i])
    BY <1>2, <1>4, <1>5, <1>7
  <2> QED
    BY <1>4, <1>5, <1>7, <2>1, LastInIs
<1>9. \A k, w, g : GivenOf(t, k, w, g) <=> GivenOf(rows, k, w, g)
  BY <1>4, <1>6, <1>8 DEF GivenOf
<1>10. DOMAIN t = 1..Len(t)
  BY <1>5
<1>11. /\ given' \in [Models -> Seq(Ctx!Message)]
       /\ \A k \in Models : Len(given'[k]) <= Limit /\ (k # m => given'[k] = given[k])
  BY <1>3, NothingGiven DEF CtxInv, Ctx!TypeOK
<1>12. Ctx!TypeOK'
  BY <1>3, <1>5, <1>11 DEF CtxInv, Ctx!TypeOK, t
<1>13. \A k \in answering' : k # m /\ k \in Models /\ k \in answering
  BY <1>3 DEF CtxInv, Ctx!TypeOK
<1>14. \A k \in answering' : GivenOf(t, k, wide', given'[k])
  BY <1>3, <1>9, <1>11, <1>13 DEF CtxInv
<1>15. rows' = t
  BY <1>3 DEF t
<1>16. \E i \in DOMAIN t : Ctx!IsPrompt(t[i])
  BY <1>4, <1>7, <1>8, <1>10
<1> QED
  BY <1>12, <1>14, <1>15, <1>16 DEF CtxInv

LEMMA CtxStep ==
    ASSUME CtxInv, Ctx!Assumptions, Ctx!Next
    PROVE  CtxInv'
<1>1. ASSUME NEW ms \in SUBSET Models, NEW text \in Text \cup {""}, NEW files \in SUBSET File,
             \/ Ctx!Send(ms, text, files)
             \/ \E i \in DOMAIN rows : Ctx!Edit(ms, i, text, files)
      PROVE  CtxInv'
  BY <1>1, SendInv, EditInv
<1>2. ASSUME NEW ms \in SUBSET Models, Ctx!Regenerate(ms)
      PROVE  CtxInv'
  BY <1>2, RegenerateInv
<1>3. ASSUME NEW m \in Models, Ctx!NoReply(m)
      PROVE  CtxInv'
  <2>1. /\ answering' = answering \ {m} /\ given' = [given EXCEPT ![m] = <<>>]
        /\ UNCHANGED <<rows, arena, staged, uploaded, wide, carried, turns>>
    BY <1>3 DEF Ctx!NoReply, Ctx!Ends
  <2>2. CtxInv
    OBVIOUS
  <2> QED
    BY <2>1, <2>2, EndsInv
<1>4. ASSUME NEW m \in Models, NEW served \in Models, NEW text \in Text, Ctx!Reply(m, served, text)
      PROVE  CtxInv'
  BY <1>4, ReplyInv
<1>5. ASSUME NEW f \in File, Ctx!Upload(f) \/ Ctx!Expire(f)
      PROVE  CtxInv'
  BY <1>5 DEF Ctx!Upload, Ctx!Expire, CtxInv, Ctx!TypeOK
<1> QED
  BY <1>1, <1>2, <1>3, <1>4, <1>5 DEF Ctx!Next

LEMMA CtxStill ==
    ASSUME CtxInv, UNCHANGED context
    PROVE  CtxInv'
  BY DEF CtxInv, Ctx!TypeOK, context

LEMMA CtxInit ==
    ASSUME Ctx!Init, Ctx!Assumptions
    PROVE  CtxInv
<1>1. <<>> \in Seq(Ctx!Message) /\ Len(<<>>) = 0
  BY EmptySeq
<1>2. given = [m \in Models |-> <<>>]
  BY DEF Ctx!Init
<1>3. given \in [Models -> Seq(Ctx!Message)] /\ \A m \in Models : Len(given[m]) <= Limit
  <2>1. Limit \in Nat
    BY DEF Ctx!Assumptions
  <2>2. \A m \in Models : given[m] = <<>>
    BY <1>2
  <2> QED
    BY <1>1, <1>2, <2>1, <2>2
<1>4. Ctx!TypeOK
  <2>1. MaxTurns \in Nat /\ turns = 0
    BY DEF Ctx!Assumptions, Ctx!Init
  <2>2. turns \in 0..MaxTurns
    BY <2>1
  <2> QED
    BY <1>1, <1>3, <2>2 DEF Ctx!Init, Ctx!TypeOK
<1>5. answering = {}
  BY DEF Ctx!Init
<1> QED
  BY <1>4, <1>5 DEF CtxInv

LEMMA GivenIs ==
    ASSUME CtxInv
    PROVE  GivenIsConversation
<1>1. \A s, m, w : Earlier(s, m, w)
          = Ctx!Bare(Ctx!Keep(Ctx!Recent(Ctx!Visible(s, m, w), Limit - 1), Ctx!Written))
  BY CtxKeep DEF Earlier
<1> QED
  BY <1>1, LastPromptIs DEF CtxInv, GivenOf, GivenIsConversation, Ctx!GivenIsConversation, Ctx!Before

-----------------------------------------------------------------------------
(* Routing.                                                                *)

\* A turn that let the server choose has the model of the intent of its prompt.
RtInv ==
    /\ routing \in {"resolve", "label", "answered"} => routed \in Rt!Prompts
    /\ routing \in {"label", "answered"} /\ Rt!IsAuto(payload) =>
           models = <<Rt!RoutingDefaults[Rt!Intent(routed)]>>

\* ModelRouter.route is the chain of its comparisons: Order is tried in turn.
LEMMA IntentIs ==
    ASSUME NEW p
    PROVE  Rt!Intent(p) =
              IF Rt!Fits(p, "coding") THEN "coding"
              ELSE IF Rt!Fits(p, "long_context") THEN "long_context"
              ELSE IF Rt!Fits(p, "data") THEN "data"
              ELSE IF Rt!Fits(p, "reasoning") THEN "reasoning"
              ELSE IF Rt!Fits(p, "creative") THEN "creative"
              ELSE IF Rt!Fits(p, "fast") THEN "fast"
              ELSE "default"
<1> DEFINE S == {i \in DOMAIN Rt!Order : Rt!Fits(p, Rt!Order[i])}
<1>1. /\ DOMAIN Rt!Order = 1..7
      /\ Rt!Order[1] = "coding" /\ Rt!Order[2] = "long_context" /\ Rt!Order[3] = "data"
      /\ Rt!Order[4] = "reasoning" /\ Rt!Order[5] = "creative" /\ Rt!Order[6] = "fast"
      /\ Rt!Order[7] = "default"
  BY DEF Rt!Order
<1>2. Rt!Fits(p, "default")
  BY DEF Rt!Fits
<1>3. \A i \in 1..7 : i \in S <=> Rt!Fits(p, Rt!Order[i])
  BY <1>1
<1>4. S \subseteq 1..7
  BY <1>1
<1>5. PICK i \in S : \A j \in S : i <= j
  <2> HIDE DEF S
  <2> QED
    BY <1>1, <1>2, <1>3, <1>4
<1>6. Least(S) = i
  <2>1. S \subseteq Int
    BY <1>4
  <2> HIDE DEF S
  <2> QED
    BY <1>5, <2>1, LeastIs
<1>7. Rt!Intent(p) = Rt!Order[i]
  BY <1>6, <1>1 DEF Rt!Intent, Rt!Min, Least
<1> HIDE DEF S
<1> QED
  BY <1>1, <1>2, <1>3, <1>4, <1>5, <1>7
\* What each intent asks of a prompt, in the scores of the four families.
LEMMA FitsAre ==
    ASSUME NEW p, NEW c, NEW r, NEW v, NEW d,
           c = p.score["coding"], r = p.score["reasoning"],
           v = p.score["creative"], d = p.score["data"]
    PROVE  /\ Rt!Fits(p, "coding") <=> c > 0 /\ c >= r /\ c >= v /\ c >= d
           /\ Rt!Fits(p, "long_context") <=> p.chars > 4000
           /\ Rt!Fits(p, "data") <=> d > 0 /\ d >= r /\ d >= v
           /\ Rt!Fits(p, "reasoning") <=> r > 0 /\ r >= v /\ r >= d
           /\ Rt!Fits(p, "creative") <=> v > 0
           /\ Rt!Fits(p, "fast") <=> p.chars < 150
  BY DEF Rt!Fits, Rt!Leads, Rt!LongPromptChars, Rt!ShortPromptChars

\* A family none scores higher than.
Best(p) == {f \in Rt!Families : \A g \in Rt!Families : p.score[f] >= p.score[g]}
Silent(p) == \A f \in Rt!Families : p.score[f] = 0

LEMMA BestIsPicked ==
    ASSUME NEW p \in Rt!Prompts, Rt!Assumptions, p.chars <= Rt!LongPromptChars
    PROVE  /\ Silent(p) => Rt!Intent(p) = IF p.chars < Rt!ShortPromptChars THEN "fast" ELSE "default"
           /\ ~Silent(p) => /\ Rt!Intent(p) \in Best(p)
                            /\ "coding" \in Best(p) => Rt!Intent(p) = "coding"
<1>1. PICK c \in Nat, r \in Nat, v \in Nat, d \in Nat :
          /\ c = p.score["coding"] /\ r = p.score["reasoning"]
          /\ v = p.score["creative"] /\ d = p.score["data"]
  <2>1. p.score \in [Rt!Families -> 0..MaxScore]
    BY DEF Rt!Prompts
  <2> QED
    BY <2>1 DEF Rt!Families, Rt!Assumptions
<1>2. PICK n \in Nat : n = p.chars
  BY DEF Rt!Prompts, Rt!Assumptions
<1>3. n <= 4000
  BY <1>2 DEF Rt!LongPromptChars
<1>4. Rt!Intent(p) = IF c > 0 /\ c >= r /\ c >= v /\ c >= d THEN "coding"
                     ELSE IF d > 0 /\ d >= r /\ d >= v THEN "data"
                     ELSE IF r > 0 /\ r >= v /\ r >= d THEN "reasoning"
                     ELSE IF v > 0 THEN "creative"
                     ELSE IF n < 150 THEN "fast" ELSE "default"
  BY <1>1, <1>2, <1>3, FitsAre, IntentIs
<1>5. Silent(p) <=> c = 0 /\ r = 0 /\ v = 0 /\ d = 0
  BY <1>1 DEF Silent, Rt!Families
<1>6. \A f \in Rt!Families : f \in Best(p) <=>
          LET x == p.score[f] IN x >= c /\ x >= r /\ x >= v /\ x >= d
  BY <1>1 DEF Best, Rt!Families
<1>7. ASSUME Silent(p)
      PROVE  Rt!Intent(p) = IF p.chars < Rt!ShortPromptChars THEN "fast" ELSE "default"
  BY <1>2, <1>4, <1>5, <1>7 DEF Rt!ShortPromptChars
<1>8. ASSUME ~Silent(p)
      PROVE  /\ Rt!Intent(p) \in Best(p)
             /\ "coding" \in Best(p) => Rt!Intent(p) = "coding"
  <2>1. CASE c > 0 /\ c >= r /\ c >= v /\ c >= d
    BY <1>1, <1>4, <1>6, <2>1 DEF Rt!Families
  <2>2. CASE ~(c >= r /\ c >= v /\ c >= d)
    <3>1. "coding" \notin Best(p)
      BY <1>1, <1>6, <2>2 DEF Rt!Families
    <3>2. Rt!Intent(p) \in Best(p)
      BY <1>1, <1>4, <1>6, <2>2 DEF Rt!Families
    <3> QED
      BY <3>1, <3>2
  <2> QED
    BY <1>5, <1>8, <2>1, <2>2
<1> QED
  BY <1>7, <1>8

LEMMA RtStep ==
    ASSUME RtInv, Rt!Next
    PROVE  RtInv'
<1>1. ASSUME NEW p \in Rt!Payloads, NEW q \in Rt!Prompts, Rt!Receive(p, q)
      PROVE  RtInv'
  BY <1>1 DEF Rt!Receive, RtInv
<1>2. CASE Rt!Resolve
  BY <1>2 DEF Rt!Resolve, RtInv, Rt!IsAuto
<1>3. CASE Rt!Refuse
  BY <1>3 DEF Rt!Refuse, RtInv
<1>4. ASSUME NEW q, routing = "label", Rt!Label(q)
      PROVE  RtInv'
  BY <1>4 DEF Rt!Label, RtInv, Rt!IsAuto
<1>5. CASE Rt!Again
  BY <1>5 DEF Rt!Again, RtInv
<1> QED
  BY <1>1, <1>2, <1>3, <1>4, <1>5 DEF Rt!Next

LEMMA RtWins ==
    ASSUME ContentsAssumption, RtInv
    PROVE  HighestScoreWins
<1> SUFFICES ASSUME Rt!Scored, routed.chars <= Rt!LongPromptChars
             PROVE  Rt!HighestScoreWins
  BY DEF HighestScoreWins, Rt!HighestScoreWins
<1>1. /\ routed \in Rt!Prompts
      /\ models[1] = Rt!RoutingDefaults[Rt!Intent(routed)]
  BY DEF Rt!Scored, RtInv
<1>2. /\ Silent(routed) =>
             Rt!Intent(routed) = IF routed.chars < Rt!ShortPromptChars THEN "fast" ELSE "default"
      /\ ~Silent(routed) => /\ Rt!Intent(routed) \in Best(routed)
                            /\ "coding" \in Best(routed) => Rt!Intent(routed) = "coding"
  BY <1>1, BestIsPicked DEF ContentsAssumption
<1>3. CASE Silent(routed)
  BY <1>1, <1>2, <1>3 DEF Rt!HighestScoreWins, Silent
<1>4. CASE ~Silent(routed)
  <2>1. PICK f \in Best(routed) : f = Rt!Intent(routed) /\ ("coding" \in Best(routed) => f = "coding")
    BY <1>2, <1>4
  <2> QED
    BY <1>1, <1>4, <2>1 DEF Rt!HighestScoreWins, Silent, Best
<1> QED
  BY <1>3, <1>4
-----------------------------------------------------------------------------
(* MediaPrices.                                                            *)

\* What is charged is the cost of what was accepted, and what is spoken the
\* text that was charged for.
MpInv ==
    /\ config \in Mp!Settings
    /\ request \in Mp!ImageRequests \cup Mp!SpokenRequests \cup {Mp!NoRequest}
    /\ pc = "refused" => ~Mp!Accepted(request)
    /\ pc \in {"queued", "delivered"} => Mp!Accepted(request) /\ charged = Mp!Cost(request)
    /\ pc \notin {"queued", "delivered"} => charged = 0
    /\ pc = "delivered" /\ request.kind # "image" =>
           spoken = Least({Mp!PromptChars(request), Mp!MaxTtsChars})

\* The four models: their qualities, and one set of sizes for all of them.
LEMMA ModelsAre ==
    /\ Mp!ImageModels = {"gpt-image-2", "gpt-image-1.5", "gemini-3.1-flash-image", "gemini-3-pro-image"}
    /\ \A m \in Mp!ImageModels : \A q \in Mp!Qualities(m) :
          DOMAIN Mp!ImagePrices[m][q] =
              IF m \in {"gpt-image-2", "gpt-image-1.5"} THEN Mp!OpenAISizes ELSE Mp!GoogleSizes
<1>1. Mp!ImageModels = {"gpt-image-2", "gpt-image-1.5", "gemini-3.1-flash-image", "gemini-3-pro-image"}
  BY DEF Mp!ImageModels, Mp!ImagePrices
<1>2. ASSUME NEW a, NEW b PROVE DOMAIN Mp!OpenAIPrices(a, b) = Mp!OpenAISizes
  BY DEF Mp!OpenAIPrices
<1>3. ASSUME NEW a PROVE DOMAIN Mp!Flat(a) = Mp!GoogleSizes
  BY DEF Mp!Flat
<1>4. ASSUME NEW m \in {"gpt-image-2", "gpt-image-1.5"}, NEW q \in Mp!Qualities(m)
      PROVE  DOMAIN Mp!ImagePrices[m][q] = Mp!OpenAISizes
  BY <1>2 DEF Mp!Qualities, Mp!ImagePrices
<1>5. ASSUME NEW m \in {"gemini-3.1-flash-image", "gemini-3-pro-image"}, NEW q \in Mp!Qualities(m)
      PROVE  DOMAIN Mp!ImagePrices[m][q] = Mp!GoogleSizes
  BY <1>3 DEF Mp!Qualities, Mp!ImagePrices
<1> QED
  BY <1>1, <1>4, <1>5

\* The picker offers the options that the endpoint accepts, and no others.
LEMMA OfferedIsValid ==
    ASSUME NEW r \in Mp!ImageRequests
    PROVE  Mp!Offered(r) <=> Mp!ValidOptions(r)
<1>1. r.kind = "image"
  BY DEF Mp!ImageRequests
<1>2. Mp!Offered(r) <=> /\ r.model \in Mp!ImageModels /\ r.quality \in Mp!Qualities(r.model)
                        /\ r.size \in Mp!Sizes(r.model)
  BY <1>1 DEF Mp!Offered, Mp!OfferedImages
<1>3. ASSUME r.model \in Mp!ImageModels, r.quality \in Mp!Qualities(r.model)
      PROVE  Mp!Sizes(r.model) = DOMAIN Mp!ImagePrices[r.model][r.quality]
  BY <1>3, ModelsAre DEF Mp!Sizes
<1> QED
  BY <1>2, <1>3 DEF Mp!ValidOptions

LEMMA MpStep ==
    ASSUME MpInv, Mp!Next
    PROVE  MpInv'
<1>1. ASSUME NEW r \in Mp!ImageRequests \cup Mp!SpokenRequests, Mp!Charge(r), pc = "idle"
      PROVE  MpInv'
  BY <1>1 DEF Mp!Charge, Mp!Accepted, MpInv
<1>2. ASSUME NEW r \in Mp!ImageRequests \cup Mp!SpokenRequests, Mp!Refuse(r), pc = "idle"
      PROVE  MpInv'
  BY <1>2 DEF Mp!Refuse, Mp!Accepted, MpInv
<1>3. CASE Mp!Deliver
  BY <1>3 DEF Mp!Deliver, Mp!Accepted, MpInv, Mp!Min, Least
<1>4. CASE Mp!Refund
  BY <1>4 DEF Mp!Refund, MpInv
<1>5. CASE Mp!Again
  BY <1>5 DEF Mp!Again, MpInv
<1> QED
  BY <1>1, <1>2, <1>3, <1>4, <1>5 DEF Mp!Next

LEMMA OfferedCharged ==
    ASSUME MpInv
    PROVE  Mp!OfferedIsAccepted
<1> SUFFICES ASSUME request.kind = "image"
             PROVE  Mp!OfferedIsAccepted
  BY DEF Mp!OfferedIsAccepted
<1>1. request \in Mp!ImageRequests
  BY DEF MpInv, Mp!SpokenRequests, Mp!NoRequest
<1>2. Mp!Offered(request) <=> Mp!ValidOptions(request)
  BY <1>1, OfferedIsValid
<1>3. Mp!Accepted(request) <=> config.storage /\ Mp!ValidOptions(request)
  BY DEF Mp!Accepted
<1> QED
  BY <1>2, <1>3 DEF MpInv, Mp!OfferedIsAccepted

\* No request is charged for more than one synthesis takes.
LEMMA CharsAre ==
    ASSUME ContentsAssumption, NEW r \in Mp!SpokenRequests
    PROVE  /\ Mp!PromptChars(r) \in Nat /\ Mp!PromptChars(r) <= 4096
           /\ r.kind = "avatar" => Mp!PromptChars(r) = r.blanks + r.body
           /\ r.kind \in {"speech", "avatar", "read"}
<1>0. /\ r.blanks \in Nat /\ r.body \in Nat
      /\ r.kind \in {"speech", "avatar", "read"}
      /\ r.kind # "read" => r.blanks + r.body \in 1..Mp!MaxTtsChars
  BY DEF Mp!SpokenRequests, ContentsAssumption, Mp!Assumptions
<1>1. PICK a \in Nat, b \in Nat : a = r.blanks /\ b = r.body
  BY <1>0
<1>2. ASSUME r.kind # "read" PROVE a + b <= 4096
  <2>1. a + b \in 1..Mp!MaxTtsChars
    BY <1>0, <1>1, <1>2
  <2>2. a + b \in 1..4096
    BY <2>1 DEF Mp!MaxTtsChars
  <2> QED
    BY <2>2
<1>3. PICK n \in Nat : n = Least({b, 4096}) /\ n <= 4096
  <2>1. Least({b, 4096}) = IF b <= 4096 THEN b ELSE 4096
    BY LeastOfTwo
  <2> QED
    BY <2>1
<1>4. Mp!PromptChars(r) = IF r.kind = "avatar" THEN a + b ELSE IF r.kind = "read" THEN n ELSE b
  BY <1>1, <1>3 DEF Mp!PromptChars, Mp!MaxTtsChars, Mp!Min, Least
<1>5. PICK m \in Nat : m = Mp!PromptChars(r) /\ m <= 4096
  <2>1. CASE r.kind = "avatar"
    <3>1. a + b <= 4096 /\ a + b \in Nat
      BY <1>2, <2>1
    <3> QED
      BY <1>4, <2>1, <3>1
  <2>2. CASE r.kind = "read"
    BY <1>3, <1>4, <2>2
  <2>3. CASE r.kind = "speech"
    <3>1. b <= 4096
      BY <1>2, <2>3
    <3> QED
      BY <1>4, <2>3, <3>1
  <2> QED
    BY <1>0, <2>1, <2>2, <2>3
<1>6. r.kind = "avatar" => Mp!PromptChars(r) = a + b
  BY <1>4
<1> QED
  BY <1>0, <1>1, <1>5, <1>6

LEMMA RateIs ==
    ASSUME NEW voice
    PROVE  Mp!CostPerChar(voice) \in Nat
  BY DEF Mp!CostPerChar

LEMMA TimesIsInt ==
    ASSUME NEW a \in Int, NEW b \in Int
    PROVE  a * b \in Int
  OBVIOUS

\* The blocks of a script cover it at fifteen characters a second.
LEMMA BlocksCover ==
    ASSUME NEW chars \in Nat
    PROVE  Mp!Blocks(chars) \in Nat /\ Mp!Blocks(chars) * 225 >= chars
<1>1. PICK q \in Nat : q = (chars + 14) \div 15
  OBVIOUS
<1>2. q * 15 >= chars
  BY <1>1
<1>3. PICK seconds \in Nat : seconds = Mp!EstimateDuration(chars)
  <2>1. Mp!EstimateDuration(chars) = Greatest({15, q})
    BY <1>1 DEF Mp!EstimateDuration, Mp!Max, Greatest
  <2> QED
    BY <2>1, GreatestOfTwo
<1>4. seconds >= q
  <2>1. seconds = Greatest({15, q})
    BY <1>1, <1>3 DEF Mp!EstimateDuration, Mp!Max, Greatest
  <2> QED
    BY <2>1, GreatestOfTwo
<1>5. PICK b \in Nat : b = (seconds + 14) \div 15 /\ b * 15 >= seconds
  OBVIOUS
<1>6. Mp!Blocks(chars) = Greatest({1, b})
  BY <1>3, <1>5 DEF Mp!Blocks, Mp!Max, Greatest
<1>7. PICK n : n = Mp!Blocks(chars)
  OBVIOUS
<1>8. n \in Nat /\ n >= b
  BY <1>6, <1>7, GreatestOfTwo
<1>9. n * 225 >= chars
  BY <1>2, <1>4, <1>5, <1>8
<1> QED
  BY <1>7, <1>8, <1>9

\* What a delivered text was charged.
LEMMA SpokenIs ==
    ASSUME ContentsAssumption, MpInv, pc = "delivered", request.kind \in {"speech", "read", "avatar"}
    PROVE  /\ request \in Mp!SpokenRequests
           /\ spoken = Mp!PromptChars(request)
           /\ charged = IF request.kind = "avatar"
                        THEN Mp!VideoCost(request.blanks + request.body) + Mp!SpeechCost(request)
                        ELSE Mp!SpeechCost(request)
<1>1. request \in Mp!SpokenRequests
  BY DEF MpInv, Mp!ImageRequests, Mp!NoRequest
<1>2. PICK n \in Nat : n = Mp!PromptChars(request) /\ n <= 4096
  BY <1>1, CharsAre
<1>3. spoken = n
  <2>1. spoken = Least({n, 4096})
    BY <1>2 DEF MpInv, Mp!MaxTtsChars
  <2>2. n \in Int /\ n <= 4096
    BY <1>2
  <2> QED
    BY <2>1, <2>2, LeastOfTwo
<1>4. charged = Mp!Cost(request)
  BY DEF MpInv
<1> QED
  BY <1>1, <1>2, <1>3, <1>4 DEF Mp!Cost

LEMMA SpokenCharged ==
    ASSUME ContentsAssumption, MpInv
    PROVE  Mp!SpokenIsCharged
<1> SUFFICES ASSUME pc = "delivered", request.kind \in {"speech", "read", "avatar"}
             PROVE  charged = spoken * Mp!CostPerChar(request.voice) * 40
                              + IF request.kind = "avatar" THEN Mp!VideoCost(spoken) ELSE 0
  <2>1. Mp!Spoken => request \in Mp!SpokenRequests /\ Mp!ValidVoice(request.voice)
    BY SpokenIs DEF Mp!Spoken, MpInv, Mp!Accepted, Mp!SpokenRequests
  <2>2. Mp!Spoken => Mp!CostPerChar(request.voice) =
            IF request.voice \in Mp!Chirp3 \ Mp!ListedVoices
            THEN Mp!DocumentedRate("en-US-Chirp3-HD-Aoede") ELSE Mp!DocumentedRate(request.voice)
    BY <2>1 DEF Mp!ValidVoice, Mp!CostPerChar, Mp!VoiceProvider, Mp!Chirp3, Mp!ListedVoices,
                Mp!UnlistedVoices, Mp!DocumentedRate
  <2> QED
    BY <2>2 DEF Mp!SpokenIsCharged, Mp!SpokenAt, Mp!Spoken
<1>1. PICK n \in Nat : n = spoken /\ n = Mp!PromptChars(request)
  <2>1. request \in Mp!SpokenRequests /\ spoken = Mp!PromptChars(request)
    BY SpokenIs
  <2>2. Mp!PromptChars(request) \in Nat
    BY <2>1, CharsAre
  <2> QED
    BY <2>1, <2>2
<1>2. PICK rate \in Nat : rate = Mp!CostPerChar(request.voice)
  BY RateIs
<1>3. PICK s \in Int : s = n * rate * 40
  BY TimesIsInt
<1>4. Mp!SpeechCost(request) = s
  BY <1>1, <1>2, <1>3 DEF Mp!SpeechCost
<1>5. CASE request.kind = "avatar"
  <2>1. PICK v : v = Mp!VideoCost(n)
    OBVIOUS
  <2>2. v \in Int
    BY <1>1, <2>1, BlocksCover DEF Mp!VideoCost, Mp!UsdToCredits, Mp!PricePerBlock
  <2>3. charged = v + s
    BY <1>1, <1>4, <1>5, <2>1, SpokenIs, CharsAre
  <2>4. charged = s + v
    BY <1>3, <2>2, <2>3
  <2> QED
    BY <1>1, <1>2, <1>3, <1>5, <2>1, <2>4
<1>6. CASE request.kind # "avatar"
  BY <1>1, <1>2, <1>3, <1>4, <1>6, SpokenIs
<1> QED
  BY <1>5, <1>6

LEMMA ScriptCovered ==
    ASSUME ContentsAssumption, MpInv
    PROVE  Mp!ScriptIsCovered
<1> SUFFICES ASSUME pc = "delivered", request.kind = "avatar"
             PROVE  ((charged - Mp!SpeechCost(request)) \div Mp!UsdToCredits(Mp!PricePerBlock)) * 225
                        >= request.blanks + request.body
  BY DEF Mp!ScriptIsCovered
<1>1. PICK n \in Nat : n = request.blanks + request.body /\ n = Mp!PromptChars(request)
  <2>1. request \in Mp!SpokenRequests
    BY SpokenIs
  <2>2. /\ Mp!PromptChars(request) \in Nat
        /\ Mp!PromptChars(request) = request.blanks + request.body
    BY <2>1, CharsAre
  <2> QED
    BY <2>2
<1>2. PICK b \in Nat : b = Mp!Blocks(n) /\ b * 225 >= n
  BY BlocksCover
<1>3. PICK s \in Int : s = Mp!SpeechCost(request)
  BY <1>1, RateIs, TimesIsInt DEF Mp!SpeechCost
<1>4. charged = b * 4000000 + s
  BY <1>1, <1>2, <1>3, SpokenIs DEF Mp!VideoCost, Mp!UsdToCredits, Mp!PricePerBlock
<1>5. (charged - s) \div 4000000 = b
  BY <1>4
<1> QED
  BY <1>1, <1>2, <1>3, <1>5 DEF Mp!UsdToCredits, Mp!PricePerBlock

LEMMA ShownAble ==
    ASSUME MpInv
    PROVE  Mp!ShownIsAble
<1> SUFFICES ASSUME pc = "queued", ~Mp!HalfConfigured(request)
             PROVE  Mp!IsShown(request) <=> Mp!Configured(request)
  BY DEF Mp!ShownIsAble
<1>1. /\ config.credentials \in {"none", "missing", "valid"} /\ config.ambient \in BOOLEAN
      /\ config.did \in {"none", "malformed", "valid"} /\ config.storage
  BY DEF MpInv, Mp!Settings, Mp!Accepted
<1>2. CASE request.kind = "image"
  BY <1>1, <1>2 DEF Mp!IsShown, Mp!Enabled, Mp!Configured
<1>3. ASSUME request.kind # "image"
      PROVE  Mp!CanSpeak(request.voice) <=>
                 IF Mp!VoiceProvider(request.voice) = "openai" THEN config.openai
                 ELSE config.credentials # "none"
  <2>1. Mp!VoiceProvider(request.voice) \in {"openai", "google"}
    BY DEF Mp!VoiceProvider
  <2> QED
    BY <1>1, <1>3, <2>1 DEF Mp!CanSpeak, Mp!HalfConfigured
<1>4. CASE request.kind = "avatar"
  <2>1. request \in Mp!SpokenRequests
    BY <1>4 DEF MpInv, Mp!ImageRequests, Mp!NoRequest
  <2>2. PICK said : said = [request EXCEPT !.kind = "speech"]
    OBVIOUS
  <2>3. said.kind = "speech" /\ said.voice = request.voice
    BY <2>1, <2>2 DEF Mp!SpokenRequests
  <2>4. Mp!Enabled(said) <=> Mp!CanSpeak(request.voice)
    BY <1>1, <1>3, <1>4, <2>3 DEF Mp!Enabled
  <2>5. Mp!Enabled(request) <=> config.did = "valid"
    BY <1>1, <1>4 DEF Mp!Enabled, Mp!HalfConfigured
  <2> QED
    BY <1>4, <2>2, <2>4, <2>5 DEF Mp!IsShown, Mp!Configured
<1>5. CASE request.kind \notin {"image", "avatar"}
  BY <1>1, <1>3, <1>5 DEF Mp!IsShown, Mp!Enabled, Mp!Configured
<1> QED
  BY <1>2, <1>4, <1>5
-----------------------------------------------------------------------------
(* Generation.                                                             *)

In(model) == Gen!InputRate(Gen!GetSpec(model))
Out(model) == Gen!OutputRate(Gen!GetSpec(model))
Guess(chars) == Gen!EstimateTokens(chars)

GenSlot == [state : Gen!SlotStates, max : Nat, tokens : Nat, text : Nat, serving : Gen!RegisteredIds,
            prompt : Nat, completion : Nat, served : Gen!RegisteredIds \cup {"none", "unregistered"},
            finish : Gen!FinishReasons, billed : Gen!RegisteredIds \cup {"none"}, cost : Int]

\* A slot of the model m: what is counted of the reply is what the provider has
\* produced or the estimate of what was shown, and the name the provider gave is
\* the serving model's or no model's.
SlotIs(sl, m) ==
    /\ sl \in GenSlot
    /\ sl.tokens <= sl.max /\ (sl.text > 0 => sl.tokens > 0)
    /\ sl.completion \in {0, sl.tokens, Guess(sl.text)}
    /\ sl.served \in {sl.serving, "none", "unregistered"}
    /\ sl.state = "streaming" => sl.served = "none" /\ sl.completion = 0
    /\ sl.served = "none" => sl.state = "streaming" \/ sl.finish \notin {"stop", "refusal"}
    /\ sl.state = "empty" => sl.text = 0
    /\ sl.state # "charged" => sl.cost = 0
    /\ sl.state = "charged" =>
           /\ sl.text > 0 /\ sl.completion \in {sl.tokens, Guess(sl.text)}
           /\ sl.billed = IF Gen!IsSupported(sl.served) THEN sl.served ELSE m
           /\ sl.cost = sl.prompt * In(sl.billed) + sl.completion * Out(sl.billed)

\* The reply of a slot, at its longest, fits its share of the balance, and its
\* length what the model can write.
InShare(sl, m, t) ==
    /\ Len(t.models) * (Gen!PromptTokens(t) * In(m) + sl.max * Out(m)) <= t.balance
    /\ 512 <= sl.max /\ sl.max <= Gen!GetSpec(m).maxOutput

GenInv ==
    /\ turn \in Gen!Turns \cup {Gen!NoTurn}
    /\ \/ slots = <<>>
       \/ /\ turn \in Gen!Turns /\ slots \in [DOMAIN turn.models -> GenSlot]
          /\ \A i \in DOMAIN turn.models :
                SlotIs(slots[i], turn.models[i]) /\ InShare(slots[i], turn.models[i], turn)

\* The registry has a price for every model; no alias hides a model.
LEMMA SpecsAre ==
    \A spec \in Gen!Registry :
        /\ spec.input \in Nat /\ spec.output \in Nat /\ spec.output >= 5
        /\ spec.maxOutput \in Nat /\ spec.maxOutput >= 512
  BY DEF Gen!Registry, Gen!ModelSpec

LEMMA NoAlias ==
    ASSUME NEW m \in Gen!RegisteredIds \cup {"none", "unregistered"}
    PROVE  Gen!ResolveModelId(m) = m
<1>1. Gen!RegisteredIds =
          {"gpt-5.5-pro", "gpt-5.5", "gpt-5.4", "gpt-5.4-mini", "gpt-5.4-nano", "claude-fable-5-1",
           "claude-opus-5", "claude-sonnet-5", "claude-haiku-4-5", "gemini-3.1-pro-preview",
           "gemini-3.8-flash", "gemini-3.5-flash-lite"}
  BY DEF Gen!RegisteredIds, Gen!Registry, Gen!ModelSpec
<1>2. \A pair \in Gen!LegacyAliases : pair[1] # m
  BY <1>1 DEF Gen!LegacyAliases
<1> QED
  BY <1>2 DEF Gen!ResolveModelId

LEMMA NamesAre ==
    /\ \A m \in Gen!RegisteredIds : Gen!IsSupported(m)
    /\ ~Gen!IsSupported("none") /\ ~Gen!IsSupported("unregistered")
<1>1. "none" \notin Gen!RegisteredIds /\ "unregistered" \notin Gen!RegisteredIds
  BY DEF Gen!RegisteredIds, Gen!Registry, Gen!ModelSpec
<1> QED
  BY <1>1, NoAlias DEF Gen!IsSupported

LEMMA RatesAre ==
    ASSUME NEW m \in Gen!RegisteredIds
    PROVE  In(m) \in Nat /\ Out(m) \in Nat \ {0} /\ Gen!GetSpec(m) \in Gen!Registry
<1>1. \E spec \in Gen!Registry : spec.id = Gen!ResolveModelId(m)
  BY NoAlias DEF Gen!RegisteredIds
<1>2. Gen!GetSpec(m) \in Gen!Registry
  BY <1>1 DEF Gen!GetSpec
<1>3. PICK spec \in Gen!Registry : spec = Gen!GetSpec(m)
  BY <1>2
<1>4. PICK a \in Nat, b \in Nat : a = spec.input /\ b = spec.output /\ b >= 5
  BY SpecsAre
<1>5. (a * 2) \div 5 \in Nat /\ (b * 2) \div 5 \in Nat \ {0}
  BY <1>4
<1>6. In(m) = (a * 2) \div 5 /\ Out(m) = (b * 2) \div 5
  BY <1>3, <1>4 DEF In, Out, Gen!InputRate, Gen!OutputRate
<1> QED
  BY <1>2, <1>5, <1>6

LEMMA GuessIs ==
    ASSUME NEW chars \in Nat
    PROVE  Guess(chars) \in Nat /\ (chars > 0 => Guess(chars) > 0)
  BY DEF Guess, Gen!EstimateTokens

LEMMA TurnIs ==
    ASSUME ContentsAssumption, NEW t \in Gen!Turns
    PROVE  /\ t.models \in Seq(Gen!RegisteredIds) /\ t.balance \in Int
           /\ t.history \in Nat /\ t.text \in Nat /\ t.effort \in Gen!Efforts
           /\ Gen!PromptTokens(t) \in Nat /\ Guess(t.text) \in Nat
<1>1. /\ t.models \in Seq(Gen!RegisteredIds) /\ t.balance \in Int
      /\ t.history \in Nat /\ t.text \in Nat
      /\ t.effort \in Gen!Efforts
  BY DEF Gen!Turns, ContentsAssumption, Gen!Assumptions
<1>2. Guess(t.history) \in Nat /\ Guess(t.text) \in Nat
  BY <1>1, GuessIs
<1>3. Gen!PromptTokens(t) = Guess(t.history) + 64
  BY DEF Gen!PromptTokens, Gen!SystemSlack, Guess
<1> QED
  BY <1>1, <1>2, <1>3

LEMMA LeastOfThree ==
    ASSUME NEW a \in Int, NEW b \in Int, NEW c \in Int
    PROVE  Least({a, b, c}) \in Int /\ Least({a, b, c}) <= b /\ Least({a, b, c}) <= c
<1>1. PICK i \in {a, b, c} : i <= a /\ i <= b /\ i <= c
  OBVIOUS
<1>2. Least({a, b, c}) = i
  <2>1. {a, b, c} \subseteq Int
    OBVIOUS
  <2> QED
    BY <1>1, <2>1, LeastIs
<1> QED
  BY <1>1, <1>2

LEMMA TimesGrows ==
    ASSUME NEW k \in Nat, NEW m \in Nat, k <= m, NEW x \in Nat
    PROVE  k * x <= m * x
<1>1. PICK d \in Nat : m = k + d
  BY m - k \in Nat
<1>2. m * x = k * x + d * x /\ d * x >= 0
  BY <1>1
<1> QED
  BY <1>2

\* An output limit that is affordable, or is the least one and the wallet has
\* room for it, keeps n replies of prompt cost c within the balance.
LEMMA LimitFits ==
    ASSUME NEW n \in Nat \ {0}, NEW o \in Nat \ {0}, NEW c \in Nat, NEW bal \in Int,
           bal >= n * (c + 512 * o),
           NEW x \in Nat, x <= 512 \/ x <= (bal - n * c) \div (n * o)
    PROVE  n * (c + x * o) <= bal
<1>1. PICK d \in Nat \ {0} : d = n * o
  <2>1. n * o >= 1
    <3>1. 1 * o <= n * o
      BY TimesGrows
    <3> QED
      BY <3>1
  <2> QED
    BY <2>1
<1>2. PICK p \in Nat : p = n * c
  OBVIOUS
<1>3. n * (c + 512 * o) = p + 512 * d
  BY <1>1, <1>2
<1>4. n * (c + x * o) = p + x * d
  <2>1. n * (c + x * o) = n * c + n * (x * o)
    OBVIOUS
  <2>2. n * (x * o) = x * (n * o)
    OBVIOUS
  <2> QED
    BY <1>1, <1>2, <2>1, <2>2
<1>5. CASE x <= 512
  <2>1. x * d <= 512 * d
    BY <1>5, TimesGrows
  <2> QED
    BY <1>3, <1>4, <2>1
<1>6. CASE x <= (bal - n * c) \div (n * o)
  <2>1. PICK a \in Int : a = (bal - p) \div d
    OBVIOUS
  <2>2. a * d <= bal - p
    BY <2>1
  <2>3. x <= a /\ a \in Nat
    BY <1>1, <1>2, <1>6, <2>1
  <2>4. x * d <= a * d
    BY <2>3, TimesGrows
  <2>5. x * d \in Int /\ a * d \in Int
    OBVIOUS
  <2> QED
    BY <1>4, <2>2, <2>4, <2>5
<1> QED
  BY <1>5, <1>6

LEMMA PlanFits ==
    ASSUME ContentsAssumption, NEW t \in Gen!Turns, NEW i \in DOMAIN t.models,
           NEW m, m = t.models[i], ~Gen!CannotAfford(Gen!GetSpec(m), t)
    PROVE  /\ Gen!MaxOutputTokens(Gen!GetSpec(m), t) \in Nat
           /\ Len(t.models) * (Gen!PromptTokens(t) * In(m)
                               + Gen!MaxOutputTokens(Gen!GetSpec(m), t) * Out(m)) <= t.balance
           /\ 512 <= Gen!MaxOutputTokens(Gen!GetSpec(m), t)
           /\ Gen!MaxOutputTokens(Gen!GetSpec(m), t) <= Gen!GetSpec(m).maxOutput
<1>1. m \in Gen!RegisteredIds /\ Len(t.models) \in Nat \ {0}
  BY TurnIs
<1>2. PICK n \in Nat \ {0}, p \in Nat, a \in Nat, o \in Nat \ {0}, bal \in Int :
          /\ n = Len(t.models) /\ p = Gen!PromptTokens(t) /\ a = In(m) /\ o = Out(m)
          /\ bal = t.balance
  BY <1>1, TurnIs, RatesAre
<1>3. PICK c \in Nat : c = p * a
  OBVIOUS
<1>4. bal >= n * (c + 512 * o)
  <2>1. Gen!Minimum(Gen!GetSpec(m), t) = c + 512 * o
    BY <1>2, <1>3 DEF Gen!Minimum, Gen!PromptCost, Gen!MinOutputTokens, In, Out
  <2> QED
    BY SMTT(40), <1>2, <2>1 DEF Gen!CannotAfford
<1>5. PICK e \in Int, cap \in Int :
          /\ e = Gen!MaxOutputTokensByEffort[t.effort]
          /\ cap = Gen!GetSpec(m).maxOutput /\ cap >= 512
  <2>1. Gen!MaxOutputTokensByEffort[t.effort] \in Int
    BY TurnIs DEF Gen!MaxOutputTokensByEffort, Gen!Efforts
  <2>2. Gen!GetSpec(m).maxOutput \in Int /\ Gen!GetSpec(m).maxOutput >= 512
    BY <1>1, RatesAre, SpecsAre
  <2> QED
    BY <2>1, <2>2
<1>6. PICK room \in Int : room = (bal - n * c) \div (n * o)
  <2>1. n * o >= 1
    <3>1. 1 * o <= n * o
      BY TimesGrows
    <3> QED
      BY <3>1
  <2>2. PICK d \in Nat \ {0}, left \in Int : d = n * o /\ left = bal - n * c
    BY <2>1
  <2>3. left \div d \in Int
    OBVIOUS
  <2> QED
    BY <2>2, <2>3
<1>7. Gen!AffordableTokens(Gen!GetSpec(m), t) = room
  BY <1>2, <1>3, <1>6 DEF Gen!AffordableTokens, Gen!PromptCost, In, Out
<1>8. PICK least \in Int : least = Least({e, room, cap}) /\ least <= room /\ least <= cap
  BY LeastOfThree
<1>9. PICK x : x = Gen!MaxOutputTokens(Gen!GetSpec(m), t)
  OBVIOUS
<1>10. x = Greatest({512, least})
  BY <1>5, <1>7, <1>8, <1>9 DEF Gen!MaxOutputTokens, Gen!MinOutputTokens, Gen!Max, Gen!Min, Least, Greatest
<1>11. x \in Nat /\ (x <= 512 \/ x <= room) /\ 512 <= x /\ x <= cap
  <2>1. x = IF 512 >= least THEN 512 ELSE least
    BY <1>10, GreatestOfTwo
  <2> QED
    BY <1>5, <1>8, <2>1
<1>12. n * (c + x * o) <= bal
  <2>1. x \in Nat /\ (x <= 512 \/ x <= (bal - n * c) \div (n * o))
    BY <1>6, <1>11
  <2> QED
    BY <1>4, <2>1, LimitFits
<1>13. n * (p * a + x * o) <= bal
  BY <1>3, <1>12
<1> QED
  BY <1>2, <1>5, <1>9, <1>11, <1>13

\* A slot is opened, and then only its own record changes.
LEMMA NewSlotIs ==
    ASSUME ContentsAssumption, NEW t \in Gen!Turns, NEW m \in Gen!RegisteredIds,
           Gen!MaxOutputTokens(Gen!GetSpec(m), t) \in Nat
    PROVE  SlotIs(Gen!NewSlot(m, t), m)
<1>1. PICK x \in Nat : x = Gen!MaxOutputTokens(Gen!GetSpec(m), t)
  OBVIOUS
<1>2. PICK sl : sl = [state |-> "streaming", max |-> x, tokens |-> 0, text |-> 0, serving |-> m,
                      prompt |-> 0, completion |-> 0, served |-> "none", finish |-> "stop",
                      billed |-> "none", cost |-> 0]
  OBVIOUS
<1>3. sl = Gen!NewSlot(m, t)
  BY <1>1, <1>2 DEF Gen!NewSlot
<1>4. sl \in GenSlot
  BY <1>2 DEF GenSlot, Gen!SlotStates, Gen!FinishReasons
<1>5. /\ sl.state = "streaming" /\ sl.tokens = 0 /\ sl.text = 0 /\ sl.completion = 0 /\ sl.served = "none"
      /\ sl.tokens <= sl.max /\ sl.cost = 0
  BY <1>2
<1> QED
  BY <1>3, <1>4, <1>5 DEF SlotIs

LEMMA PlanInv ==
    ASSUME ContentsAssumption, NEW t \in Gen!Turns, Gen!Plan(t)
    PROVE  GenInv'
<1>1. turn' = t
  BY DEF Gen!Plan
<1>2. CASE \E i \in DOMAIN t.models : Gen!CannotAfford(Gen!GetSpec(t.models[i]), t)
  BY <1>1, <1>2 DEF Gen!Plan, GenInv
<1>3. CASE \A i \in DOMAIN t.models : ~Gen!CannotAfford(Gen!GetSpec(t.models[i]), t)
  <2>1. slots' = [i \in DOMAIN t.models |-> Gen!NewSlot(t.models[i], t)]
    BY <1>3 DEF Gen!Plan
  <2>2. ASSUME NEW i \in DOMAIN t.models
        PROVE  /\ SlotIs(Gen!NewSlot(t.models[i], t), t.models[i])
               /\ InShare(Gen!NewSlot(t.models[i], t), t.models[i], t)
    <3>1. PICK m \in Gen!RegisteredIds : m = t.models[i]
      BY TurnIs
    <3>2. /\ Gen!MaxOutputTokens(Gen!GetSpec(m), t) \in Nat
          /\ Len(t.models) * (Gen!PromptTokens(t) * In(m)
                              + Gen!MaxOutputTokens(Gen!GetSpec(m), t) * Out(m)) <= t.balance
          /\ 512 <= Gen!MaxOutputTokens(Gen!GetSpec(m), t)
          /\ Gen!MaxOutputTokens(Gen!GetSpec(m), t) <= Gen!GetSpec(m).maxOutput
      BY <1>3, <3>1, PlanFits
    <3>3. Gen!NewSlot(m, t).max = Gen!MaxOutputTokens(Gen!GetSpec(m), t)
      BY DEF Gen!NewSlot
    <3> QED
      BY <3>1, <3>2, <3>3, NewSlotIs DEF InShare
  <2>3. slots' \in [DOMAIN t.models -> GenSlot]
    BY <2>1, <2>2 DEF SlotIs
  <2> QED
    BY <1>1, <2>1, <2>2, <2>3 DEF GenInv
<1> QED
  BY <1>2, <1>3

LEMMA SlotMoves ==
    ASSUME GenInv, NEW i \in DOMAIN slots, turn' = turn, NEW new, slots' = [slots EXCEPT ![i] = new],
           SlotIs(new, turn.models[i]), new.max = slots[i].max
    PROVE  GenInv'
<1>1. /\ turn \in Gen!Turns /\ slots \in [DOMAIN turn.models -> GenSlot]
      /\ \A j \in DOMAIN turn.models :
            SlotIs(slots[j], turn.models[j]) /\ InShare(slots[j], turn.models[j], turn)
  BY DEF GenInv
<1>2. i \in DOMAIN turn.models /\ new \in GenSlot
  BY <1>1 DEF SlotIs
<1>3. slots' \in [DOMAIN turn.models -> GenSlot]
  BY <1>1, <1>2
<1>4. ASSUME NEW j \in DOMAIN turn.models
      PROVE  SlotIs(slots'[j], turn.models[j]) /\ InShare(slots'[j], turn.models[j], turn)
  <2>1. CASE j = i
    <3>1. slots'[j] = new
      BY <1>1, <1>2, <2>1
    <3> QED
      BY <1>1, <1>2, <2>1, <3>1 DEF InShare
  <2>2. CASE j # i
    BY <1>1, <2>2
  <2> QED
    BY <2>1, <2>2
<1> QED
  BY <1>1, <1>3, <1>4 DEF GenInv

\* A slot in a turn: its record, and the model that was asked.
LEMMA SlotOf ==
    ASSUME ContentsAssumption, GenInv, NEW i \in DOMAIN slots
    PROVE  /\ turn \in Gen!Turns /\ turn.models[i] \in Gen!RegisteredIds
           /\ SlotIs(slots[i], turn.models[i])
           /\ InShare(slots[i], turn.models[i], turn)
           /\ slots[i] \in GenSlot
<1>1. /\ turn \in Gen!Turns /\ i \in DOMAIN turn.models
      /\ SlotIs(slots[i], turn.models[i]) /\ InShare(slots[i], turn.models[i], turn)
  BY DEF GenInv
<1> QED
  BY <1>1, TurnIs DEF SlotIs

LEMMA FallBackInv ==
    ASSUME ContentsAssumption, GenInv, NEW i \in DOMAIN slots, Gen!FallBack(i)
    PROVE  GenInv'
<1>1. PICK old \in GenSlot, m \in Gen!RegisteredIds :
          old = slots[i] /\ m = turn.models[i] /\ SlotIs(old, m)
  BY SlotOf
<1>2. PICK pair \in Fallbacks :
          slots' = [slots EXCEPT ![i].serving = pair[2]]
  BY <1>1 DEF Gen!FallBack
<1>3. PICK s \in Gen!RegisteredIds : s = pair[2]
  BY DEF ContentsAssumption, Gen!Assumptions
<1>4. PICK new : new = [old EXCEPT !.serving = s]
  OBVIOUS
<1>5. slots' = [slots EXCEPT ![i] = new] /\ turn' = turn
  BY <1>1, <1>2, <1>3, <1>4 DEF Gen!FallBack
<1>6. new \in GenSlot /\ new.serving = s /\ new.max = old.max
  BY <1>4 DEF GenSlot
<1>7. /\ new.text = old.text /\ new.completion = old.completion /\ new.tokens = old.tokens
      /\ new.prompt = old.prompt /\ new.served = old.served /\ new.state = old.state
      /\ new.finish = old.finish /\ new.cost = old.cost
  BY <1>4 DEF GenSlot
<1>8. old.state = "streaming" /\ old.served = "none"
  BY <1>1 DEF Gen!FallBack, Gen!Streaming, SlotIs
<1>9. SlotIs(new, m)
  BY <1>1, <1>6, <1>7, <1>8 DEF SlotIs
<1> QED
  BY <1>1, <1>5, <1>6, <1>9, SlotMoves

LEMMA ProduceInv ==
    ASSUME ContentsAssumption, GenInv, NEW i \in DOMAIN slots, NEW chars \in Shown,
           Gen!Produce(i, chars)
    PROVE  GenInv'
<1>1. PICK old \in GenSlot, m \in Gen!RegisteredIds :
          old = slots[i] /\ m = turn.models[i] /\ SlotIs(old, m)
  BY SlotOf
<1>2. /\ old.state = "streaming" /\ old.completion = 0 /\ old.served = "none"
      /\ old.max \in Nat /\ old.tokens \in Nat /\ old.text \in Nat /\ old.tokens < old.max
  BY <1>1 DEF Gen!Produce, Gen!Streaming, SlotIs, GenSlot
<1>3. PICK more \in Nat \ {0} :
          more = Least({Chunk, old.max - old.tokens}) /\ old.tokens + more <= old.max
  <2>1. Chunk \in Nat \ {0}
    <3>1. Gen!Assumptions
      BY DEF ContentsAssumption
    <3> QED
      BY <3>1 DEF Gen!Assumptions
  <2>2. PICK p \in Nat, q \in Nat : p = old.max /\ q = old.tokens /\ q < p
    BY <1>2
  <2>3. p - q \in Nat \ {0}
    BY <2>2
  <2>4. PICK x \in Nat \ {0}, y \in Nat \ {0} : x = Chunk /\ y = old.max - old.tokens
    BY <2>1, <2>2, <2>3
  <2>5. Least({x, y}) = IF x <= y THEN x ELSE y
    BY LeastOfTwo
  <2>6. (IF x <= y THEN x ELSE y) \in Nat \ {0} /\ q + (IF x <= y THEN x ELSE y) <= p
    BY <2>2, <2>4
  <2> QED
    BY <2>2, <2>4, <2>5, <2>6
<1>4. PICK new : new = [old EXCEPT !.tokens = old.tokens + more,
                                   !.text = old.text + chars]
  OBVIOUS
<1>5. slots' = [slots EXCEPT ![i] = new] /\ turn' = turn
  <2>1. Gen!Min({Chunk, slots[i].max - slots[i].tokens}) = more
    BY <1>1, <1>3 DEF Gen!Min, Least
  <2>2. slots' = [slots EXCEPT ![i].tokens = @ + more, ![i].text = @ + chars]
    BY <2>1 DEF Gen!Produce
  <2> QED
    BY <1>1, <1>4, <2>2 DEF Gen!Produce
<1>6. new \in GenSlot /\ new.max = old.max
  <2>1. chars \in Nat
    BY DEF ContentsAssumption, Gen!Assumptions
  <2>2. old.tokens + more \in Nat /\ old.text + chars \in Nat
    BY <1>2, <2>1
  <2> QED
    BY <1>4, <2>2 DEF GenSlot
<1>7. /\ new.completion = old.completion /\ new.serving = old.serving
      /\ new.prompt = old.prompt /\ new.served = old.served /\ new.state = old.state
      /\ new.finish = old.finish /\ new.cost = old.cost
  BY <1>4 DEF GenSlot
<1>8. new.tokens = old.tokens + more
  BY <1>4 DEF GenSlot
<1>9. new.tokens > 0 /\ new.tokens <= new.max
  BY <1>2, <1>3, <1>6, <1>8
<1>10. SlotIs(new, m)
  BY <1>1, <1>2, <1>6, <1>7, <1>9 DEF SlotIs
<1> QED
  BY <1>1, <1>5, <1>6, <1>10, SlotMoves

\* Fail and Interrupt: no final event is seen.
LEMMA CutInv ==
    ASSUME ContentsAssumption, GenInv, NEW i \in DOMAIN slots, Gen!Streaming(i), turn' = turn,
           NEW finish \in {"error", "interrupted"},
           slots' = [slots EXCEPT ![i].state = "closed", ![i].finish = finish]
    PROVE  GenInv'
<1>1. PICK old \in GenSlot, m \in Gen!RegisteredIds :
          old = slots[i] /\ m = turn.models[i] /\ SlotIs(old, m)
  BY SlotOf
<1>2. PICK new : new = [old EXCEPT !.state = "closed", !.finish = finish]
  OBVIOUS
<1>3. slots' = [slots EXCEPT ![i] = new]
  BY <1>1, <1>2
<1>4. new \in GenSlot /\ new.max = old.max /\ new.state = "closed" /\ new.finish = finish
  <2>1. finish \in Gen!FinishReasons /\ "closed" \in Gen!SlotStates
    BY DEF Gen!SlotStates, Gen!FinishReasons
  <2> QED
    BY <1>2, <2>1 DEF GenSlot
<1>5. /\ new.completion = old.completion /\ new.serving = old.serving
      /\ new.prompt = old.prompt /\ new.served = old.served
      /\ new.tokens = old.tokens /\ new.text = old.text /\ new.cost = old.cost
  BY <1>2 DEF GenSlot
<1>s. old.state = "streaming"
  BY <1>1 DEF Gen!Streaming
<1>6. SlotIs(new, m)
  BY <1>1, <1>4, <1>5, <1>s DEF SlotIs
<1> QED
  BY <1>1, <1>3, <1>4, <1>6, SlotMoves

\* Complete and Decline: the last event of a stream.
LEMMA RecordedInv ==
    ASSUME ContentsAssumption, GenInv, NEW i \in DOMAIN slots, Gen!Streaming(i), turn' = turn,
           NEW prompt \in Counts, NEW completion \in {0, slots[i].tokens},
           NEW name \in {slots[i].serving, "none", "unregistered"},
           NEW finish \in Gen!FinishReasons, name = "none" => finish \notin {"stop", "refusal"},
           slots' = [slots EXCEPT ![i] = Gen!Recorded(slots[i], prompt, completion, name, finish)]
    PROVE  GenInv'
<1>1. PICK old \in GenSlot, m \in Gen!RegisteredIds :
          old = slots[i] /\ m = turn.models[i] /\ SlotIs(old, m)
  BY SlotOf
<1>2. prompt \in Nat
  BY DEF ContentsAssumption, Gen!Assumptions
<1>3. PICK new : new = [old EXCEPT !.state = "closed", !.finish = finish, !.served = name,
                                   !.prompt = prompt, !.completion = completion]
  OBVIOUS
<1>4. slots' = [slots EXCEPT ![i] = new]
  BY <1>1, <1>2, <1>3 DEF Gen!Recorded
<1>5. new \in GenSlot
  <2>1. prompt \in Nat /\ completion \in Nat
    BY <1>1, <1>2 DEF GenSlot
  <2>2. name \in Gen!RegisteredIds \cup {"none", "unregistered"}
    BY <1>1 DEF GenSlot
  <2> QED
    BY ZenonT(60), <1>3, <2>1, <2>2 DEF GenSlot, Gen!SlotStates
<1>6. /\ new.max = old.max /\ new.state = "closed" /\ new.finish = finish /\ new.served = name
      /\ new.serving = old.serving /\ new.tokens = old.tokens /\ new.text = old.text
      /\ new.cost = old.cost
  BY <1>3 DEF GenSlot
<1>s. old.state = "streaming"
  BY <1>1 DEF Gen!Streaming
<1>7. new.completion = completion
  BY <1>3 DEF GenSlot
<1>8. new.completion \in {0, new.tokens}
  BY <1>1, <1>6, <1>7
<1>9. SlotIs(new, m)
  BY <1>1, <1>5, <1>6, <1>8, <1>s DEF SlotIs
<1> QED
  BY ZenonT(60), <1>1, <1>4, <1>6, <1>9, SlotMoves

LEMMA CompleteInv ==
    ASSUME ContentsAssumption, GenInv, NEW i \in DOMAIN slots, NEW prompt \in Counts,
           NEW completion \in {0, slots[i].tokens}, NEW name, Gen!Complete(i, prompt, completion, name)
    PROVE  GenInv'
<1>1. PICK finish : finish = Gen!FinishAs(IF slots[i].tokens = slots[i].max THEN "length" ELSE "stop")
  OBVIOUS
<1>2. finish \in Gen!FinishReasons /\ (slots[i].tokens = slots[i].max => finish \notin {"stop", "refusal"})
  BY <1>1 DEF Gen!FinishAs, Gen!FinishReasons
<1>3. /\ name \in {slots[i].serving, "none", "unregistered"}
      /\ name = "none" => slots[i].tokens = slots[i].max
  <2>1. slots[i].serving # "none"
    BY SlotOf, NamesAre DEF GenSlot
  <2> QED
    BY <2>1 DEF Gen!Complete
<1>4. /\ Gen!Streaming(i) /\ turn' = turn
      /\ slots' = [slots EXCEPT ![i] = Gen!Recorded(slots[i], prompt, completion, name, finish)]
  BY <1>1 DEF Gen!Complete
<1> QED
  BY <1>2, <1>3, <1>4, RecordedInv

LEMMA DeclineInv ==
    ASSUME ContentsAssumption, GenInv, NEW i \in DOMAIN slots, NEW prompt \in Counts,
           NEW completion \in {0, slots[i].tokens}, NEW name, Gen!Decline(i, prompt, completion, name)
    PROVE  GenInv'
<1>1. PICK finish : finish = IF Gen!Raises(i) THEN "refusal" ELSE Gen!FinishAs("refusal")
  OBVIOUS
<1>2. finish \in Gen!FinishReasons
  BY <1>1 DEF Gen!FinishAs, Gen!FinishReasons
<1>3. name \in {slots[i].serving, "none", "unregistered"} /\ name # "none"
  <2>1. slots[i].serving # "none"
    BY SlotOf, NamesAre DEF GenSlot
  <2> QED
    BY <2>1 DEF Gen!Decline
<1>4. /\ Gen!Streaming(i) /\ turn' = turn
      /\ slots' = [slots EXCEPT ![i] = Gen!Recorded(slots[i], prompt, completion, name, finish)]
  BY <1>1 DEF Gen!Decline
<1> QED
  BY <1>2, <1>3, <1>4, RecordedInv

LEMMA SettleInv ==
    ASSUME ContentsAssumption, GenInv, NEW i \in DOMAIN slots, Gen!Settle(i)
    PROVE  GenInv'
<1>1. PICK old \in GenSlot, m \in Gen!RegisteredIds :
          old = slots[i] /\ m = turn.models[i] /\ SlotIs(old, m)
  BY SlotOf
<1>2. PICK told \in Nat, shown \in Nat : /\ told = Guess(turn.text)
                                        /\ shown = Guess(old.text)
  BY SlotOf, TurnIs, GuessIs DEF GenSlot
<1>3. PICK prompt \in Nat, completion \in Nat :
          /\ prompt = IF old.prompt <= 0 THEN told ELSE old.prompt
          /\ completion = IF old.completion <= 0 THEN shown ELSE old.completion
  BY DEF GenSlot
<1>4. PICK valid : valid = [old EXCEPT !.prompt = prompt, !.completion = completion]
  OBVIOUS
<1>5. valid = Gen!EnsureValidity(slots[i])
  BY <1>1, <1>2, <1>3, <1>4 DEF Gen!EnsureValidity, Guess
<1>6. /\ valid \in GenSlot /\ valid.prompt = prompt /\ valid.completion = completion
      /\ valid.text = old.text /\ valid.tokens = old.tokens /\ valid.max = old.max
      /\ valid.serving = old.serving /\ valid.served = old.served /\ valid.finish = old.finish
      /\ valid.state = "closed" /\ valid.cost = old.cost
  <2>1. old.state = "closed"
    BY <1>1 DEF Gen!Settle
  <2> QED
    BY <1>4, <2>1 DEF GenSlot
<1>7. PICK b \in Gen!RegisteredIds : b = IF Gen!IsSupported(old.served) THEN old.served ELSE m
  BY NamesAre DEF GenSlot
<1>8. PICK cost \in Int : cost = prompt * In(b) + completion * Out(b)
  BY RatesAre
<1>9. PICK new :
          new = IF valid.text = 0 THEN [valid EXCEPT !.state = "empty"]
                ELSE [valid EXCEPT !.state = "charged", !.billed = b, !.cost = cost]
  OBVIOUS
<1>10. slots' = [slots EXCEPT ![i] = new] /\ turn' = turn
  <2>1. b = Gen!BilledModel(i)
    BY <1>1, <1>7 DEF Gen!BilledModel
  <2>2. cost = Gen!PriceInCredits(valid.prompt, valid.completion, Gen!GetSpec(b))
    BY <1>6, <1>8 DEF Gen!PriceInCredits, In, Out
  <2> QED
    BY <1>5, <1>9, <2>1, <2>2 DEF Gen!Settle
<1>11. completion \in {old.tokens, Guess(old.text)} /\ old.text \in Nat
  BY <1>1, <1>2, <1>3 DEF SlotIs, GenSlot
<1>12. /\ new.text = old.text /\ new.tokens = old.tokens /\ new.max = old.max
       /\ new.serving = old.serving /\ new.served = old.served /\ new.finish = old.finish
       /\ new.prompt = prompt /\ new.completion = completion
  BY <1>6, <1>9 DEF GenSlot
<1>13. new \in GenSlot
  <2>1. {"empty", "charged"} \subseteq Gen!SlotStates
    BY DEF Gen!SlotStates
  <2> QED
    BY <1>6, <1>9, <2>1 DEF GenSlot
<1>14. \/ new.state = "empty" /\ new.text = 0 /\ new.cost = old.cost
       \/ new.state = "charged" /\ new.text # 0 /\ new.billed = b /\ new.cost = cost
  BY <1>6, <1>9 DEF GenSlot
<1>15. old.state = "closed"
  BY <1>1 DEF Gen!Settle
<1>16. SlotIs(new, m)
  BY <1>1, <1>7, <1>8, <1>11, <1>12, <1>13, <1>14, <1>15 DEF SlotIs
<1> QED
  BY <1>1, <1>10, <1>12, <1>16, SlotMoves

LEMMA GenStep ==
    ASSUME ContentsAssumption, GenInv, Gen!Next
    PROVE  GenInv'
<1>1. ASSUME NEW t \in Gen!Turns, Gen!Plan(t)
      PROVE  GenInv'
  BY <1>1, PlanInv
<1>2. CASE Gen!Stop
  BY <1>2 DEF Gen!Stop, GenInv
<1>3. CASE Gen!Finished
  BY <1>3 DEF Gen!Finished, GenInv
<1>4. ASSUME NEW i \in DOMAIN slots, Gen!FallBack(i)
      PROVE  GenInv'
  BY <1>4, FallBackInv
<1>5. ASSUME NEW i \in DOMAIN slots, Gen!Fail(i)
      PROVE  GenInv'
  BY <1>5, CutInv DEF Gen!Fail
<1>6. ASSUME NEW i \in DOMAIN slots, Gen!Interrupt(i)
      PROVE  GenInv'
  BY <1>6, CutInv DEF Gen!Interrupt
<1>7. ASSUME NEW i \in DOMAIN slots, Gen!Settle(i)
      PROVE  GenInv'
  BY <1>7, SettleInv
<1>8. ASSUME NEW i \in DOMAIN slots, NEW chars \in Shown, Gen!Produce(i, chars)
      PROVE  GenInv'
  BY <1>8, ProduceInv
<1>9. ASSUME NEW i \in DOMAIN slots, NEW prompt \in Counts,
             NEW completion \in {0, slots[i].tokens}, NEW name,
             Gen!Complete(i, prompt, completion, name) \/ Gen!Decline(i, prompt, completion, name)
      PROVE  GenInv'
  BY <1>9, CompleteInv, DeclineInv
<1> QED
  BY <1>1, <1>2, <1>3, <1>4, <1>5, <1>6, <1>7, <1>8, <1>9 DEF Gen!Next

\* The model a reply is billed as: the serving one or the asked one.
LEMMA BilledIs ==
    ASSUME NEW sl, NEW m \in Gen!RegisteredIds, SlotIs(sl, m), sl.state = "charged"
    PROVE  /\ sl.billed \in Gen!RegisteredIds
           /\ sl.served \notin {"none", "unregistered"} => sl.billed = sl.serving
<1>1. sl \in GenSlot /\ sl.served \in {sl.serving, "none", "unregistered"}
  BY DEF SlotIs
<1>2. sl.serving \in Gen!RegisteredIds
  BY <1>1 DEF GenSlot
<1>3. sl.billed = IF Gen!IsSupported(sl.served) THEN sl.served ELSE m
  BY DEF SlotIs
<1>4. Gen!IsSupported(sl.serving) /\ ~Gen!IsSupported("none") /\ ~Gen!IsSupported("unregistered")
  BY <1>2, NamesAre
<1>5. CASE sl.billed = sl.serving
  BY <1>2, <1>5
<1>6. CASE sl.served \in {"none", "unregistered"} /\ sl.billed = m
  BY <1>2, <1>6
<1> QED
  BY <1>1, <1>3, <1>4, <1>5, <1>6

LEMMA TextCharged ==
    ASSUME ContentsAssumption, GenInv
    PROVE  Gen!TextIsCharged
<1> SUFFICES ASSUME NEW i \in DOMAIN slots
             PROVE  /\ slots[i].state = "charged" =>
                           slots[i].cost >= Least({slots[i].tokens, Guess(slots[i].text)})
                                                * Out(slots[i].billed)
                    /\ slots[i].state = "empty" => slots[i].text = 0
  BY DEF Gen!TextIsCharged, Gen!Charged, Out, Guess, Least, Gen!Min
<1>1. PICK sl \in GenSlot, m \in Gen!RegisteredIds :
          sl = slots[i] /\ m = turn.models[i] /\ SlotIs(sl, m)
  BY SlotOf
<1>2. ASSUME sl.state = "charged"
      PROVE  sl.cost >= Least({sl.tokens, Guess(sl.text)}) * Out(sl.billed)
  <2>1. sl.billed \in Gen!RegisteredIds
    BY <1>1, <1>2, BilledIs
  <2>2. PICK made \in Nat, shown \in Nat, count \in Nat, prompt \in Nat, o \in Nat, a \in Nat :
            /\ made = sl.tokens /\ shown = Guess(sl.text) /\ count = sl.completion
            /\ prompt = sl.prompt /\ o = Out(sl.billed) /\ a = In(sl.billed)
    BY <2>1, RatesAre, GuessIs DEF GenSlot
  <2>3. count \in {made, shown} /\ sl.cost = prompt * a + count * o
    BY <1>1, <1>2, <2>2 DEF SlotIs
  <2>4. PICK least \in Nat : least = Least({made, shown}) /\ least <= count
    <3>1. Least({made, shown}) = IF made <= shown THEN made ELSE shown
      BY LeastOfTwo
    <3> QED
      BY <2>3, <3>1
  <2>5. least * o <= count * o
    BY <2>4, TimesGrows
  <2>6. prompt * a \in Nat /\ count * o \in Nat /\ least * o \in Nat
    OBVIOUS
  <2> QED
    BY <2>2, <2>3, <2>4, <2>5, <2>6
<1>3. sl.state = "empty" => sl.text = 0
  BY <1>1 DEF SlotIs
<1> QED
  BY <1>1, <1>2, <1>3

LEMMA NamedBilled ==
    ASSUME ContentsAssumption, GenInv
    PROVE  Gen!NamedIsBilled
<1> SUFFICES ASSUME NEW i \in DOMAIN slots, slots[i].state = "charged",
                    slots[i].finish \in {"stop", "refusal"}, slots[i].served # "unregistered"
             PROVE  slots[i].billed = slots[i].serving
  BY DEF Gen!NamedIsBilled, Gen!Charged
<1>1. PICK m \in Gen!RegisteredIds : m = turn.models[i] /\ SlotIs(slots[i], m)
  BY SlotOf
<1>2. slots[i].served # "none"
  BY <1>1 DEF SlotIs
<1> QED
  BY <1>1, <1>2, BilledIs

\* No reply of a turn costs more than its share of the balance and what the plan
\* could not foresee of it (plan_budget).
Excess(i) == IF Gen!Charged(i) THEN Gen!Beyond(i) ELSE 0
EachInItsShare ==
    \A i \in DOMAIN slots :
        Excess(i) \in Int /\ Len(turn.models) * (slots[i].cost - Excess(i)) <= turn.balance

LEMMA OverIs ==
    ASSUME NEW a \in Nat, NEW b \in Nat
    PROVE  Gen!Over(a, b) \in Nat /\ a <= b + Gen!Over(a, b)
<1>1. Greatest({0, a - b}) = IF 0 >= a - b THEN 0 ELSE a - b
  BY GreatestOfTwo
<1>2. Gen!Over(a, b) = Greatest({0, a - b})
  BY DEF Gen!Over, Gen!Max, Greatest
<1> QED
  BY <1>1, <1>2

LEMMA TimesBelow ==
    ASSUME NEW a \in Nat, NEW b \in Nat, NEW c \in Nat, NEW d \in Nat, a <= c, b <= d
    PROVE  a * b <= c * d
<1>1. a * b <= c * b
  BY TimesGrows
<1>2. b * c <= d * c
  BY TimesGrows
<1>3. a * b \in Nat /\ c * b = b * c /\ c * d = d * c /\ b * c \in Nat /\ d * c \in Nat
  OBVIOUS
<1> QED
  BY <1>1, <1>2, <1>3

\* A price p * a + x * o, when each factor has grown.
LEMMA PriceGrows ==
    ASSUME NEW p \in Nat, NEW x \in Nat, NEW a \in Nat, NEW o \in Nat,
           NEW prompt \in Nat, NEW count \in Nat, NEW ab \in Nat, NEW ob \in Nat,
           NEW u \in Nat, NEW v \in Nat, NEW da \in Nat, NEW do \in Nat,
           prompt <= p + u, count <= x + v, ab <= a + da, ob <= o + do
    PROVE  prompt * ab + count * ob <= (p * a + x * o) + (u * ab + v * ob + p * da + x * do)
<1>1. prompt * ab <= (p + u) * ab /\ count * ob <= (x + v) * ob
  BY TimesBelow
<1>2. p * ab <= p * (a + da) /\ x * ob <= x * (o + do)
  BY TimesBelow
<1>3. (p + u) * ab = p * ab + u * ab /\ (x + v) * ob = x * ob + v * ob
  OBVIOUS
<1>4. p * (a + da) = p * a + p * da /\ x * (o + do) = x * o + x * do
  OBVIOUS
<1>5. /\ prompt * ab \in Nat /\ count * ob \in Nat /\ p * ab \in Nat /\ x * ob \in Nat
      /\ p * a \in Nat /\ x * o \in Nat /\ u * ab \in Nat /\ v * ob \in Nat
      /\ p * da \in Nat /\ x * do \in Nat
  OBVIOUS
<1> QED
  BY <1>1, <1>2, <1>3, <1>4, <1>5

LEMMA InItsShare ==
    ASSUME ContentsAssumption, GenInv
    PROVE  EachInItsShare
<1> SUFFICES ASSUME NEW i \in DOMAIN slots
             PROVE  /\ Excess(i) \in Int
                    /\ Len(turn.models) * (slots[i].cost - Excess(i)) <= turn.balance
  BY DEF EachInItsShare
<1>1. PICK sl \in GenSlot, m \in Gen!RegisteredIds :
          sl = slots[i] /\ m = turn.models[i] /\ SlotIs(sl, m) /\ InShare(sl, m, turn)
  BY SlotOf
<1>2. PICK n \in Nat, bal \in Int, p \in Nat :
          n = Len(turn.models) /\ bal = turn.balance /\ p = Gen!PromptTokens(turn)
  BY SMTT(40), SlotOf, TurnIs
<1>3. PICK a \in Nat, o \in Nat, x \in Nat : a = In(m) /\ o = Out(m) /\ x = sl.max
  BY RatesAre DEF GenSlot
<1>4. PICK share \in Nat : share = p * a + x * o /\ n * share <= bal
  <2>1. n * (p * a + x * o) <= bal
    BY <1>1, <1>2, <1>3 DEF InShare
  <2> QED
    BY <2>1
<1>5. PICK cost \in Int, k \in Int : cost = sl.cost /\ k = Excess(i) /\ cost - k <= share
  <2>1. CASE sl.state = "charged"
    <3>1. PICK b \in Gen!RegisteredIds : b = sl.billed
      BY <1>1, <2>1, BilledIs
    <3>2. PICK ab \in Nat, ob \in Nat, prompt \in Nat, count \in Nat :
              ab = In(b) /\ ob = Out(b) /\ prompt = sl.prompt /\ count = sl.completion
      BY RatesAre DEF GenSlot
    <3>3. PICK u \in Nat, v \in Nat, da \in Nat, do \in Nat :
              /\ u = Gen!Over(prompt, p) /\ v = Gen!Over(count, x)
              /\ da = Gen!Over(ab, a) /\ do = Gen!Over(ob, o)
              /\ prompt <= p + u /\ count <= x + v /\ ab <= a + da /\ ob <= o + do
      BY OverIs
    <3>4. Excess(i) = u * ab + v * ob + p * da + x * do
      BY <1>1, <1>2, <1>3, <2>1, <3>1, <3>2, <3>3 DEF Excess, Gen!Charged, Gen!Beyond, In, Out
    <3>5. sl.cost = prompt * ab + count * ob
      BY <1>1, <2>1, <3>1, <3>2 DEF SlotIs
    <3>6. prompt * ab + count * ob <= (p * a + x * o) + (u * ab + v * ob + p * da + x * do)
      BY <3>3, PriceGrows
    <3>7. PICK cost \in Int, k \in Int :
              cost = prompt * ab + count * ob /\ k = u * ab + v * ob + p * da + x * do
      OBVIOUS
    <3>8. cost - k <= share
      BY <1>4, <3>6, <3>7
    <3> QED
      BY <3>4, <3>5, <3>7, <3>8
  <2>2. CASE sl.state # "charged"
    <3>1. sl.cost = 0 /\ Excess(i) = 0
      BY <1>1, <2>2 DEF SlotIs, Excess, Gen!Charged
    <3> QED
      BY <3>1
  <2> QED
    BY <2>1, <2>2
<1>6. n * (cost - k) <= n * share
  <2>1. PICK d \in Nat, w \in Int : w = cost - k /\ share = w + d
    <3>1. share - (cost - k) \in Nat
      BY <1>5
    <3> QED
      BY <3>1
  <2>2. n * share = n * w + n * d /\ n * d >= 0
    BY <2>1
  <2> QED
    BY <2>1, <2>2
<1>7. PICK y \in Int, z \in Int : y = n * (cost - k) /\ z = n * share
  OBVIOUS
<1>8. y <= bal
  BY <1>4, <1>6, <1>7
<1> QED
  BY <1>1, <1>2, <1>5, <1>7, <1>8
\* The sums of the component are those of SumsAndLists.
LEMMA GenSum ==
    ASSUME NEW f
    PROVE  Gen!SumFunction(f) = SumFunctionOnSet(f, DOMAIN f)
  BY DEF Gen!SumFunction, Gen!SumFunctionOnSet, Gen!FoldFunctionOnSet, Gen!MapThenFoldSet,
         SumFunctionOnSet, FoldFunctionOnSet, MapThenFoldSet

\* A turn that was admitted costs no more than its balance and what the plan
\* leaves out, since no reply costs more than its share of them.
LEMMA AllInShares ==
    ASSUME ContentsAssumption, GenInv
    PROVE  Gen!CostIsBounded
<1> SUFFICES ASSUME slots # <<>> PROVE Gen!Costs <= turn.balance + Gen!Unforeseen
  BY DEF Gen!CostIsBounded
<1>1. /\ turn \in Gen!Turns /\ slots \in [DOMAIN turn.models -> GenSlot]
      /\ turn.models \in Seq(Gen!RegisteredIds) /\ turn.balance \in Int
  BY TurnIs DEF GenInv
<1>2. PICK n \in Nat : n = Len(turn.models) /\ DOMAIN turn.models = 1..n /\ DOMAIN slots = 1..n
  BY <1>1
<1>3. n > 0
  <2>1. CASE n = 0
    <3>1. slots \in [{} -> GenSlot]
      BY <1>1, <1>2, <2>1
    <3>2. slots = <<>>
      BY <3>1
    <3> QED
      BY <3>2
  <2> QED
    BY <1>2, <2>1
<1>4. PICK f : f = [i \in DOMAIN slots |-> slots[i].cost]
  OBVIOUS
<1>5. PICK r : r = [i \in DOMAIN slots |-> Excess(i)]
  OBVIOUS
<1>6. PICK h : h = [i \in 1..n |-> f[i] - 1 * r[i]]
  OBVIOUS
<1>7. ASSUME NEW i \in 1..n
      PROVE  /\ f[i] \in Int /\ r[i] \in Int /\ h[i] = f[i] - 1 * r[i] /\ h[i] \in Int
             /\ n * h[i] <= turn.balance
  <2>1. slots[i] \in GenSlot /\ i \in DOMAIN slots
    BY <1>1, <1>2
  <2>2. f[i] = slots[i].cost /\ r[i] = Excess(i)
    BY <1>4, <1>5, <2>1
  <2>3. f[i] \in Int
    BY <2>1, <2>2 DEF GenSlot
  <2>4. r[i] \in Int /\ n * (f[i] - r[i]) <= turn.balance
    BY <1>2, <2>1, <2>2, InItsShare DEF EachInItsShare
  <2>5. h[i] = f[i] - 1 * r[i]
    BY <1>6
  <2>6. h[i] = f[i] - r[i]
    BY <2>4, <2>5
  <2> QED
    BY <2>3, <2>4, <2>5, <2>6
<1>8. SumFunctionOnSet(h, 1..n) = SumFunctionOnSet(f, 1..n) - 1 * SumFunctionOnSet(r, 1..n)
  <2>1. \A i \in 1..n : f[i] \in Int /\ r[i] \in Int /\ h[i] = f[i] - 1 * r[i]
    BY <1>7
  <2> QED
    BY <2>1, SumTakesOff
<1>9. SumFunctionOnSet(h, 1..n) <= turn.balance
  <2>1. PICK balance \in Int : balance = turn.balance
    BY <1>1
  <2>2. \A i \in 1..n : h[i] \in Int /\ n * h[i] <= balance
    BY <1>7, <2>1
  <2>3. SumFunctionOnSet(h, 1..n) <= balance
    BY <1>3, <2>2, SumOfShares
  <2> QED
    BY <2>1, <2>3
<1>10. SumFunctionOnSet(f, 1..n) \in Int /\ SumFunctionOnSet(r, 1..n) \in Int
  <2>1. IsFiniteSet(1..n)
    BY FS_Interval
  <2>2. \A i \in 1..n : f[i] \in Int
    BY <1>7
  <2>3. \A i \in 1..n : r[i] \in Int
    BY <1>7
  <2> QED
    BY <2>1, <2>2, <2>3, SumInt
<1>11. Gen!Costs = SumFunctionOnSet(f, 1..n)
  <2>1. DOMAIN f = 1..n
    BY <1>2, <1>4
  <2> QED
    BY <1>4, <2>1, GenSum DEF Gen!Costs
<1>12. Gen!Unforeseen = SumFunctionOnSet(r, 1..n)
  <2>1. DOMAIN r = 1..n
    BY <1>2, <1>5
  <2>2. r = [i \in DOMAIN slots |-> IF Gen!Charged(i) THEN Gen!Beyond(i) ELSE 0]
    BY <1>5 DEF Excess
  <2> QED
    BY <2>1, <2>2, GenSum DEF Gen!Unforeseen
<1>13. PICK F \in Int, R \in Int : F = SumFunctionOnSet(f, 1..n) /\ R = SumFunctionOnSet(r, 1..n)
  BY <1>10
<1>14. F - R <= turn.balance
  BY <1>8, <1>9, <1>13
<1> QED
  BY <1>1, <1>11, <1>12, <1>13, <1>14
-----------------------------------------------------------------------------
(* Wire.                                                                   *)

LEMMA WrKeep == \A s, S : Wr!Keep(s, S) = Keep(s, S)
  BY DEF Wr!Keep, Keep

\* The parts q are those of message i with the numbers in A, each once.
Part == Int \X Int
IsOf(q, i, A) ==
    /\ q \in Seq(Part)
    /\ \A n, m \in 1..Len(q) : q[n] = q[m] => n = m
    /\ \A n \in 1..Len(q) : \E a \in A : q[n] = <<i, a>>
    /\ \A a \in A : \E n \in 1..Len(q) : q[n] = <<i, a>>

LEMMA Concat ==
    ASSUME NEW X, NEW q \in Seq(X), NEW r \in Seq(X)
    PROVE  /\ q \o r \in Seq(X) /\ Len(q \o r) = Len(q) + Len(r)
           /\ Len(q) \in Nat /\ Len(r) \in Nat /\ Len(q \o r) \in Nat
           /\ \A n \in 1..Len(q) : (q \o r)[n] = q[n]
           /\ \A n \in 1..Len(r) : (q \o r)[Len(q) + n] = r[n]
           /\ \A n \in 1..(Len(q) + Len(r)) : n \in 1..Len(q) \/ (n - Len(q)) \in 1..Len(r)
<1>1. Len(q) \in Nat /\ Len(r) \in Nat
  OBVIOUS
<1>2. /\ q \o r \in Seq(X) /\ Len(q \o r) = Len(q) + Len(r)
      /\ \A n \in 1..(Len(q) + Len(r)) : (q \o r)[n] = IF n <= Len(q) THEN q[n] ELSE r[n - Len(q)]
  BY ConcatProperties
<1>3. \A n \in 1..Len(q) : n \in 1..(Len(q) + Len(r)) /\ n <= Len(q)
  BY <1>1
<1>4. \A n \in 1..Len(r) : /\ Len(q) + n \in 1..(Len(q) + Len(r)) /\ ~(Len(q) + n <= Len(q))
                           /\ (Len(q) + n) - Len(q) = n
  BY <1>1
<1>5. \A n \in 1..(Len(q) + Len(r)) : n \in 1..Len(q) \/ (n - Len(q)) \in 1..Len(r)
  BY <1>1
<1>6. Len(q) + Len(r) \in Nat
  BY <1>1
<1> QED
  BY <1>1, <1>2, <1>3, <1>4, <1>5, <1>6

LEMMA Joined ==
    ASSUME NEW i \in Int, NEW A, NEW B, A \cap B = {}, NEW q, NEW r, IsOf(q, i, A), IsOf(r, i, B)
    PROVE  IsOf(q \o r, i, A \cup B)
<1>1. q \in Seq(Part) /\ r \in Seq(Part)
  BY DEF IsOf
<1> DEFINE s == q \o r
<1>2. /\ s \in Seq(Part) /\ Len(s) = Len(q) + Len(r)
      /\ Len(q) \in Nat /\ Len(r) \in Nat
      /\ \A n \in 1..Len(q) : s[n] = q[n]
      /\ \A n \in 1..Len(r) : s[Len(q) + n] = r[n]
      /\ \A n \in 1..Len(s) : n \in 1..Len(q) \/ (n - Len(q)) \in 1..Len(r)
  BY <1>1, Concat
<1> HIDE DEF s
<1>3. PICK k \in Nat, l \in Nat : k = Len(q) /\ l = Len(r) /\ Len(s) = k + l
  BY <1>2
<1>4. \A n \in 1..k : n \in 1..(k + l)
  OBVIOUS
<1>5. \A n \in 1..l : k + n \in 1..(k + l)
  OBVIOUS
<1>6. \A n \in 1..(k + l) : n \in 1..k \/ (\E m \in 1..l : n = k + m)
  <2> SUFFICES ASSUME NEW n \in 1..(k + l), n \notin 1..k PROVE \E m \in 1..l : n = k + m
    OBVIOUS
  <2>1. n - k \in 1..l /\ n = k + (n - k)
    OBVIOUS
  <2> QED
    BY <2>1
<1>7. \A n \in 1..k : s[n] = q[n]
  BY <1>2, <1>3
<1>8. \A n \in 1..l : s[k + n] = r[n]
  BY <1>2, <1>3
<1>9. \A n \in 1..k : \E a \in A : q[n] = <<i, a>>
  BY <1>3 DEF IsOf
<1>10. \A n \in 1..l : \E b \in B : r[n] = <<i, b>>
  BY <1>3 DEF IsOf
<1>11. \A n \in 1..k, m \in 1..l : q[n] # r[m]
  BY <1>9, <1>10
<1>12. \A n \in 1..(k + l) : \E a \in A \cup B : s[n] = <<i, a>>
  BY <1>6, <1>7, <1>8, <1>9, <1>10
<1>13. \A n, m \in 1..k : q[n] = q[m] => n = m
  BY <1>3 DEF IsOf
<1>14. \A n, m \in 1..l : r[n] = r[m] => n = m
  BY <1>3 DEF IsOf
<1>15. ASSUME NEW n \in 1..(k + l), NEW m \in 1..(k + l), s[n] = s[m]
       PROVE  n = m
  <2>1. CASE n \in 1..k /\ m \in 1..k
    BY <1>7, <1>13, <1>15, <2>1
  <2>2. CASE n \notin 1..k /\ m \notin 1..k
    <3>1. PICK x \in 1..l, y \in 1..l : n = k + x /\ m = k + y
      BY <1>6, <2>2
    <3>2. r[x] = r[y]
      BY <1>8, <1>15, <3>1
    <3> QED
      BY <1>14, <3>1, <3>2
  <2>3. CASE n \in 1..k /\ m \notin 1..k
    BY <1>6, <1>7, <1>8, <1>11, <1>15, <2>3
  <2>4. CASE n \notin 1..k /\ m \in 1..k
    BY <1>6, <1>7, <1>8, <1>11, <1>15, <2>4
  <2> QED
    BY <2>1, <2>2, <2>3, <2>4
<1>16. ASSUME NEW a \in A PROVE \E n \in 1..(k + l) : s[n] = <<i, a>>
  <2>1. PICK n \in 1..k : q[n] = <<i, a>>
    BY <1>3 DEF IsOf
  <2> QED
    BY <1>4, <1>7, <2>1
<1>17. ASSUME NEW b \in B PROVE \E n \in 1..(k + l) : s[n] = <<i, b>>
  <2>1. PICK n \in 1..l : r[n] = <<i, b>>
    BY <1>3 DEF IsOf
  <2> QED
    BY <1>5, <1>8, <2>1
<1> QED
  BY <1>2, <1>3, <1>12, <1>15, <1>16, <1>17 DEF IsOf, s

\* Of the first N numbers those in S, in their order.
Numbers(N) == [x \in 1..N |-> x]

LEMMA NumbersKept ==
    ASSUME NEW N \in Nat, NEW S, NEW k, k = Keep(Numbers(N), S)
    PROVE  /\ k \in Seq(Int) /\ Len(k) \in Nat /\ Increasing(k)
           /\ \A j \in 1..Len(k) : k[j] \in 1..N /\ k[j] \in S
           /\ \A i \in 1..N : i \in S => \E j \in 1..Len(k) : k[j] = i
<1> DEFINE s == Numbers(N)
<1>1. s \in Seq(Int) /\ Len(s) = N /\ \A i \in 1..N : s[i] = i
  BY DEF Numbers
<1> HIDE DEF s
<1>2. Increasing(s)
  BY <1>1 DEF Increasing
<1>3. Increasing(k) /\ Selects(k, s, N, S)
  BY <1>1, <1>2, KeepSorted DEF s
<1>4. k \in Seq(Int) /\ \A j \in 1..Len(k) : k[j] \in S
  BY <1>1, KeepIn DEF s
<1> QED
  BY SMTT(40), <1>1, <1>3, <1>4 DEF Selects

\* Numbers that increase differ.
LEMMA IncreasingDiffer ==
    ASSUME NEW k \in Seq(Int), Increasing(k)
    PROVE  /\ \A n, m \in 1..Len(k) : k[n] = k[m] => n = m
           /\ \A n, m \in 1..Len(k) : k[n] < k[m] => n < m
<1>1. Len(k) \in Nat /\ \A n \in 1..Len(k) : k[n] \in Int
  OBVIOUS
<1> SUFFICES ASSUME NEW n \in 1..Len(k), NEW m \in 1..Len(k)
             PROVE  (k[n] = k[m] => n = m) /\ (k[n] < k[m] => n < m)
  OBVIOUS
<1>2. n \in Int /\ m \in Int /\ k[n] \in Int /\ k[m] \in Int
  BY <1>1
<1>3. n < m => k[n] < k[m]
  BY DEF Increasing
<1>4. m < n => k[m] < k[n]
  BY DEF Increasing
<1> QED
  BY <1>2, <1>3, <1>4

\* The turns carry the numbers A[i] of the messages i in T, each once, in the order
\* of the messages and under the roles R of theirs.
Bears(sent, A, T, R) ==
    /\ \A k \in DOMAIN sent : \A n \in DOMAIN sent[k].parts :
          /\ \E i \in T : \E a \in A[i] : sent[k].parts[n] = <<i, a>> /\ sent[k].role = R[i]
          /\ \A l \in DOMAIN sent : \A m \in DOMAIN sent[l].parts :
                /\ sent[k].parts[n] = sent[l].parts[m] => k = l /\ n = m
                /\ sent[k].parts[n][1] < sent[l].parts[m][1] => k < l \/ (k = l /\ n < m)
    /\ \A i \in T : \A a \in A[i] :
          \E k \in DOMAIN sent : \E n \in DOMAIN sent[k].parts : sent[k].parts[n] = <<i, a>>

LEMMA IsOfPlaces ==
    ASSUME NEW q, NEW i, NEW A, IsOf(q, i, A)
    PROVE  DOMAIN q = 1..Len(q) /\ Len(q) \in Nat
  BY DEF IsOf

\* A turn for each message does.
LEMMA Separate ==
    ASSUME NEW s \in Seq(Int), Increasing(s), NEW A, NEW R, NEW sent,
           DOMAIN sent = 1..Len(s),
           \A k \in 1..Len(s) : IsOf(sent[k].parts, s[k], A[s[k]]) /\ sent[k].role = R[s[k]]
    PROVE  Bears(sent, A, {s[k] : k \in 1..Len(s)}, R)
<1> DEFINE T == {s[k] : k \in 1..Len(s)}
<1>1. \A k \in 1..Len(s) : DOMAIN sent[k].parts = 1..Len(sent[k].parts) /\ s[k] \in T
  BY IsOfPlaces
<1>2. /\ \A n, m \in 1..Len(s) : s[n] = s[m] => n = m
      /\ \A n, m \in 1..Len(s) : s[n] < s[m] => n < m
  BY IncreasingDiffer
<1>3. \A k \in 1..Len(s) : \A n \in 1..Len(sent[k].parts) :
          /\ \E a \in A[s[k]] : sent[k].parts[n] = <<s[k], a>>
          /\ \A m \in 1..Len(sent[k].parts) : sent[k].parts[n] = sent[k].parts[m] => n = m
  BY DEF IsOf
<1>4. \A k \in 1..Len(s) : \A a \in A[s[k]] : \E n \in 1..Len(sent[k].parts) : sent[k].parts[n] = <<s[k], a>>
  BY DEF IsOf
<1>5. \A i \in T : \E k \in 1..Len(s) : i = s[k]
  OBVIOUS
<1> HIDE DEF T
<1>6. ASSUME NEW k \in DOMAIN sent, NEW n \in DOMAIN sent[k].parts
      PROVE  \E i \in T : \E a \in A[i] : sent[k].parts[n] = <<i, a>> /\ sent[k].role = R[i]
  <2>1. k \in 1..Len(s) /\ n \in 1..Len(sent[k].parts) /\ s[k] \in T
    BY <1>1
  <2>2. sent[k].role = R[s[k]]
    BY <2>1
  <2> QED
    BY <1>3, <2>1, <2>2
<1>7. ASSUME NEW k \in DOMAIN sent, NEW n \in DOMAIN sent[k].parts,
             NEW l \in DOMAIN sent, NEW m \in DOMAIN sent[l].parts
      PROVE  /\ sent[k].parts[n] = sent[l].parts[m] => k = l /\ n = m
             /\ sent[k].parts[n][1] < sent[l].parts[m][1] => k < l \/ (k = l /\ n < m)
  <2>1. /\ k \in 1..Len(s) /\ n \in 1..Len(sent[k].parts)
        /\ l \in 1..Len(s) /\ m \in 1..Len(sent[l].parts)
    BY <1>1
  <2>2. PICK a : sent[k].parts[n] = <<s[k], a>>
    BY <1>3, <2>1
  <2>3. PICK b : sent[l].parts[m] = <<s[l], b>>
    BY <1>3, <2>1
  <2>4. sent[k].parts[n] = sent[l].parts[m] => s[k] = s[l]
    BY <2>2, <2>3
  <2>5. s[k] < s[l] => k < l
    BY <1>2, <2>1
  <2>6. sent[k].parts[n][1] = s[k] /\ sent[l].parts[m][1] = s[l]
    BY <2>2, <2>3
  <2>7. sent[k].parts[n][1] < sent[l].parts[m][1] => k < l
    BY <2>5, <2>6
  <2>8. sent[k].parts[n] = sent[l].parts[m] => k = l
    BY <1>2, <2>1, <2>4
  <2>9. ASSUME sent[k].parts[n] = sent[l].parts[m] PROVE n = m
    <3>1. k = l
      BY <2>8, <2>9
    <3>2. n \in 1..Len(sent[k].parts) /\ m \in 1..Len(sent[k].parts)
      BY <2>1, <3>1
    <3>3. sent[k].parts[n] = sent[k].parts[m]
      BY <2>9, <3>1
    <3> QED
      BY <1>3, <2>1, <3>2, <3>3
  <2> QED
    BY <2>7, <2>8, <2>9
<1>8. ASSUME NEW i \in T, NEW a \in A[i]
      PROVE  \E k \in DOMAIN sent : \E n \in DOMAIN sent[k].parts : sent[k].parts[n] = <<i, a>>
  <2>1. PICK k \in 1..Len(s) : i = s[k]
    BY <1>5
  <2>2. PICK n \in 1..Len(sent[k].parts) : sent[k].parts[n] = <<s[k], a>>
    BY <1>4, <2>1
  <2>3. k \in DOMAIN sent /\ n \in DOMAIN sent[k].parts
    BY <1>1
  <2> QED
    BY <2>1, <2>2, <2>3
<1>9. Bears(sent, A, T, R)
  BY SMTT(40), <1>6, <1>7, <1>8 DEF Bears
<1> QED
  BY <1>9 DEF T

\* So do turns to which the parts q of a later message e are added, after place o of turn L.
Older(sent, more, L, o, k, n) ==
    /\ k \in DOMAIN sent /\ n \in DOMAIN sent[k].parts
    /\ more[k].parts[n] = sent[k].parts[n] /\ more[k].role = sent[k].role
    /\ k \in Int /\ n \in Int /\ (k < L \/ (k = L /\ n <= o))

Adds(sent, more, L, o, q) ==
    /\ \A k \in DOMAIN more : \A n \in DOMAIN more[k].parts :
          \/ Older(sent, more, L, o, k, n)
          \/ k = L /\ \E x \in 1..Len(q) : n = o + x
    /\ \A k \in DOMAIN sent : \A n \in DOMAIN sent[k].parts :
          k \in DOMAIN more /\ n \in DOMAIN more[k].parts /\ Older(sent, more, L, o, k, n)
    /\ \A x \in 1..Len(q) : /\ L \in DOMAIN more /\ o + x \in DOMAIN more[L].parts
                            /\ more[L].parts[o + x] = q[x]

LEMMA Extended ==
    ASSUME NEW sent, NEW more, NEW A, NEW T \in SUBSET Int, NEW R, NEW L \in Int, NEW o \in Int,
           NEW e \in Int, NEW q, Bears(sent, A, T, R), IsOf(q, e, A[e]), \A i \in T : i < e,
           Adds(sent, more, L, o, q),
           q # <<>> => more[L].role = R[e]
    PROVE  Bears(more, A, T \cup {e}, R)
<1> DEFINE Old(k, n) == Older(sent, more, L, o, k, n)
           New(k, n) == k = L /\ \E x \in 1..Len(q) : n = o + x
<1>1. Len(q) \in Nat /\ (q = <<>> => Len(q) = 0)
  BY DEF IsOf
<1>2. ASSUME NEW k, NEW n, Old(k, n)
      PROVE  \E i \in T : \E a \in A[i] : more[k].parts[n] = <<i, a>> /\ more[k].role = R[i]
  <2>1. /\ k \in DOMAIN sent /\ n \in DOMAIN sent[k].parts
        /\ more[k].parts[n] = sent[k].parts[n] /\ more[k].role = sent[k].role
    BY <1>2 DEF Older
  <2>2. \E i \in T : \E a \in A[i] : sent[k].parts[n] = <<i, a>> /\ sent[k].role = R[i]
    BY <2>1 DEF Bears
  <2> QED
    BY <2>1, <2>2
<1>q. \A x \in 1..Len(q) : /\ L \in DOMAIN more /\ o + x \in DOMAIN more[L].parts
                           /\ more[L].parts[o + x] = q[x]
  BY DEF Adds
<1>3. ASSUME NEW k, NEW n, New(k, n)
      PROVE  \E a \in A[e] : more[k].parts[n] = <<e, a>> /\ more[k].role = R[e]
  <2>1. PICK x \in 1..Len(q) : k = L /\ n = o + x
    BY <1>3
  <2>2. more[k].parts[n] = q[x]
    BY <1>q, <2>1
  <2>3. q # <<>>
    BY <1>1
  <2>4. \E a \in A[e] : q[x] = <<e, a>>
    BY DEF IsOf
  <2> QED
    BY <2>1, <2>2, <2>3, <2>4
<1>4. ASSUME NEW k, NEW n, NEW l, NEW m, Old(k, n), Old(l, m)
      PROVE  /\ more[k].parts[n] = more[l].parts[m] => k = l /\ n = m
             /\ more[k].parts[n][1] < more[l].parts[m][1] => k < l \/ (k = l /\ n < m)
  BY SMTT(40), <1>4 DEF Older, Bears
<1>5. ASSUME NEW k, NEW n, NEW l, NEW m, New(k, n), New(l, m)
      PROVE  /\ more[k].parts[n] = more[l].parts[m] => k = l /\ n = m
             /\ ~(more[k].parts[n][1] < more[l].parts[m][1])
  <2>1. PICK x \in 1..Len(q), y \in 1..Len(q) : n = o + x /\ m = o + y /\ k = L /\ l = L
    BY <1>5
  <2>2. more[k].parts[n] = q[x] /\ more[l].parts[m] = q[y]
    BY <1>q, <2>1
  <2>3. q[x] = q[y] => x = y
    BY DEF IsOf
  <2>4. q[x][1] = e /\ q[y][1] = e
    BY DEF IsOf
  <2>5. ~(e < e)
    OBVIOUS
  <2> QED
    BY <2>1, <2>2, <2>3, <2>4, <2>5
<1>6. ASSUME NEW k, NEW n, NEW l, NEW m, Old(k, n), New(l, m)
      PROVE  /\ more[k].parts[n] # more[l].parts[m]
             /\ k < l \/ (k = l /\ n < m)
             /\ ~(more[l].parts[m][1] < more[k].parts[n][1])
  <2>0. \E i \in T : \E a \in A[i] : more[k].parts[n] = <<i, a>>
    BY <1>2, <1>6
  <2>1. PICK i \in T : \E a : more[k].parts[n] = <<i, a>>
    BY <2>0
  <2>8. PICK a : more[k].parts[n] = <<i, a>>
    BY <2>1
  <2>2. PICK b : more[l].parts[m] = <<e, b>>
    BY <1>3, <1>6
  <2>3. i < e /\ i \in Int
    OBVIOUS
  <2>4. PICK x \in 1..Len(q) : m = o + x /\ l = L
    BY <1>6
  <2>5. k \in Int /\ n \in Int /\ (k < L \/ (k = L /\ n <= o))
    BY <1>6 DEF Older
  <2>6. k < l \/ (k = l /\ n < m)
    BY <1>1, <2>4, <2>5
  <2>7. ~(e < i) /\ i # e
    BY <2>3
  <2> QED
    BY <2>8, <2>2, <2>6, <2>7
<1>7. ASSUME NEW i \in T \cup {e}, NEW a \in A[i]
      PROVE  \E k \in DOMAIN more : \E n \in DOMAIN more[k].parts : more[k].parts[n] = <<i, a>>
  <2>1. CASE i \in T
    <3>1. PICK k \in DOMAIN sent : \E n \in DOMAIN sent[k].parts : sent[k].parts[n] = <<i, a>>
      BY <2>1 DEF Bears
    <3>2. PICK n \in DOMAIN sent[k].parts : sent[k].parts[n] = <<i, a>>
      BY <3>1
    <3>3. k \in DOMAIN more /\ n \in DOMAIN more[k].parts /\ Old(k, n)
      BY DEF Adds
    <3> QED
      BY <3>2, <3>3 DEF Older
  <2>2. CASE i = e
    <3>1. PICK x \in 1..Len(q) : q[x] = <<e, a>>
      BY <2>2 DEF IsOf
    <3> QED
      BY <1>q, <2>2, <3>1
  <2> QED
    BY <2>1, <2>2
<1>8. \A k \in DOMAIN more : \A n \in DOMAIN more[k].parts : Old(k, n) \/ New(k, n)
  BY DEF Adds
<1> HIDE DEF Old, New
<1>9. ASSUME NEW k \in DOMAIN more, NEW n \in DOMAIN more[k].parts
      PROVE  \E i \in T \cup {e} : \E a \in A[i] : more[k].parts[n] = <<i, a>> /\ more[k].role = R[i]
  BY <1>2, <1>3, <1>8
<1>10. ASSUME NEW k \in DOMAIN more, NEW n \in DOMAIN more[k].parts,
              NEW l \in DOMAIN more, NEW m \in DOMAIN more[l].parts
       PROVE  /\ more[k].parts[n] = more[l].parts[m] => k = l /\ n = m
              /\ more[k].parts[n][1] < more[l].parts[m][1] => k < l \/ (k = l /\ n < m)
  <2>1. Old(k, n) \/ New(k, n)
    BY <1>8
  <2>2. Old(l, m) \/ New(l, m)
    BY <1>8
  <2> QED
    BY <1>4, <1>5, <1>6, <2>1, <2>2
<1> QED
  BY <1>7, <1>9, <1>10 DEF Bears

\* What is written for Claude, after the messages in T.
TurnRec == [role : {"user", "assistant"}, parts : Seq(Part)]
Alternate(t) == \A k \in 1..(Len(t) - 1) : t[k].role # t[k + 1].role
Good(t, A, T, R) ==
    /\ t \in Seq(TurnRec) /\ Bears(t, A, T, R) /\ Alternate(t)
    /\ \A k \in 1..Len(t) : t[k].parts # <<>>

\* The last turn has the parts of message e.
Ends(t, A, e) ==
    /\ t # <<>>
    /\ \A a \in A[e] : \E x \in 1..Len(t[Len(t)].parts) : t[Len(t)].parts[x] = <<e, a>>

LEMMA SeqOfLength ==
    ASSUME NEW X, NEW l \in Nat, NEW t \in [1..l -> X]
    PROVE  t \in Seq(X) /\ Len(t) = l
  OBVIOUS

LEMMA AppendGood ==
    ASSUME NEW A, NEW R, NEW T \in SUBSET Int, NEW e \in Int, \A i \in T : i < e,
           NEW d, Good(d, A, T, R), NEW B, IsOf(B, e, A[e]), B # <<>>,
           NEW r \in {"user", "assistant"}, r = R[e], d # <<>> => d[Len(d)].role # r,
           NEW t, t = Append(d, [role |-> r, parts |-> B])
    PROVE  Good(t, A, T \cup {e}, R) /\ Ends(t, A, e)
<1> DEFINE turn1 == [role |-> r, parts |-> B]
<1>0. PICK o \in Int : o = 0
  OBVIOUS
<1>1. d \in Seq(TurnRec) /\ Bears(d, A, T, R) /\ Alternate(d) /\ \A k \in 1..Len(d) : d[k].parts # <<>>
  BY DEF Good
<1>2. B \in Seq(Part) /\ Len(B) \in Nat /\ DOMAIN B = 1..Len(B)
  BY DEF IsOf
<1>3. turn1 \in TurnRec /\ turn1.role = r /\ turn1.parts = B
  BY <1>2 DEF TurnRec
<1> HIDE DEF turn1
<1>4. PICK l \in Nat : l = Len(d)
  BY <1>1
<1>5. /\ t \in Seq(TurnRec) /\ Len(t) = l + 1 /\ t[l + 1] = turn1
      /\ \A k \in 1..l : t[k] = d[k]
  BY <1>1, <1>3, <1>4, AppendProperties DEF turn1
<1>6. DOMAIN t = 1..(l + 1) /\ DOMAIN d = 1..l
  BY <1>1, <1>4, <1>5
<1>7. \A k \in 1..l : DOMAIN d[k].parts \subseteq Int
  <2> SUFFICES ASSUME NEW k \in 1..l PROVE DOMAIN d[k].parts \subseteq Int
    OBVIOUS
  <2>1. d[k] \in TurnRec
    BY <1>1, <1>4
  <2>2. d[k].parts \in Seq(Part)
    BY <2>1 DEF TurnRec
  <2>3. DOMAIN d[k].parts = 1..Len(d[k].parts) /\ Len(d[k].parts) \in Nat
    BY <2>2
  <2> QED
    BY <2>3
<1>8. ASSUME NEW k \in 1..l, NEW n \in DOMAIN d[k].parts
      PROVE  k \in DOMAIN t /\ n \in DOMAIN t[k].parts /\ Older(d, t, l + 1, o, k, n)
  <2>1. k \in Int /\ n \in Int /\ k < l + 1 /\ t[k] = d[k] /\ k \in 1..(l + 1)
    BY <1>5, <1>7
  <2> QED
    BY <1>6, <2>1 DEF Older
<1>9. ASSUME NEW k \in DOMAIN t, NEW n \in DOMAIN t[k].parts
      PROVE  Older(d, t, l + 1, o, k, n) \/ (k = l + 1 /\ \E x \in 1..Len(B) : n = o + x)
  <2>1. CASE k \in 1..l
    BY <1>5, <1>8, <2>1
  <2>2. CASE k = l + 1
    <3>1. n \in 1..Len(B)
      BY <1>2, <1>3, <1>5, <2>2
    <3>2. n = o + n
      BY <1>0, <1>2, <3>1
    <3> QED
      BY <2>2, <3>1, <3>2
  <2> QED
    BY <1>6, <2>1, <2>2
<1>10. ASSUME NEW x \in 1..Len(B)
       PROVE  l + 1 \in DOMAIN t /\ o + x \in DOMAIN t[l + 1].parts /\ t[l + 1].parts[o + x] = B[x]
  <2>1. o + x = x /\ l + 1 \in 1..(l + 1)
    BY <1>0, <1>2
  <2> QED
    BY <1>2, <1>3, <1>5, <1>6, <2>1
<1>11. Bears(t, A, T \cup {e}, R)
  <2>1. PICK m \in Int : m = l + 1
    OBVIOUS
  <2>2. \A k \in DOMAIN t : \A n \in DOMAIN t[k].parts :
            Older(d, t, m, o, k, n) \/ (k = m /\ \E x \in 1..Len(B) : n = o + x)
    BY <1>9, <2>1
  <2>3. \A k \in DOMAIN d : \A n \in DOMAIN d[k].parts :
            k \in DOMAIN t /\ n \in DOMAIN t[k].parts /\ Older(d, t, m, o, k, n)
    BY <1>6, <1>8, <2>1
  <2>4. \A x \in 1..Len(B) : m \in DOMAIN t /\ o + x \in DOMAIN t[m].parts /\ t[m].parts[o + x] = B[x]
    BY <1>10, <2>1
  <2>5. t[m].role = R[e]
    BY <1>3, <1>5, <2>1
  <2>6. Adds(d, t, m, o, B)
    BY <2>2, <2>3, <2>4 DEF Adds
  <2> QED
    BY <1>1, <2>5, <2>6, Extended
<1>12. Alternate(t)
  <2> SUFFICES ASSUME NEW k \in 1..(Len(t) - 1) PROVE t[k].role # t[k + 1].role
    BY DEF Alternate
  <2>1. k \in 1..l /\ k + 1 \in 1..(l + 1)
    BY <1>5
  <2>2. CASE k = l
    <3>1. d # <<>>
      BY <1>4, <2>1
    <3> QED
      BY <1>3, <1>4, <1>5, <2>1, <2>2, <3>1
  <2>3. CASE k # l
    <3>1. k \in 1..(l - 1) /\ k + 1 \in 1..l
      BY <2>1, <2>3
    <3> QED
      BY <1>1, <1>4, <1>5, <2>1, <3>1 DEF Alternate
  <2> QED
    BY <2>2, <2>3
<1>13. \A k \in 1..Len(t) : t[k].parts # <<>>
  <2>1. \A k \in 1..Len(t) : k \in 1..l \/ k = l + 1
    BY <1>5
  <2> QED
    BY <1>1, <1>3, <1>4, <1>5, <2>1
<1>14. Ends(t, A, e)
  <2>1. t # <<>> /\ t[Len(t)].parts = B
    BY <1>3, <1>5
  <2> QED
    BY ZenonT(60), <2>1 DEF Ends, IsOf
<1> QED
  BY <1>5, <1>11, <1>12, <1>13, <1>14 DEF Good

LEMMA NotEmpty ==
    ASSUME NEW X, NEW s \in Seq(X), s # <<>>
    PROVE  \E l \in Nat : l = Len(s) /\ l \in 1..l /\ DOMAIN s = 1..l
<1>1. PICK l \in Nat : l = Len(s) /\ DOMAIN s = 1..l
  OBVIOUS
<1>2. l # 0
  BY <1>1, EmptySeq
<1>3. l \in 1..l
  BY <1>2
<1> QED
  BY <1>1, <1>3

\* The parts B come to the last turn.
Merged(d, B) == [d EXCEPT ![Len(d)].parts = @ \o B]

LEMMA MergeGood ==
    ASSUME NEW A, NEW R, NEW T \in SUBSET Int, NEW e \in Int, \A i \in T : i < e,
           NEW d, Good(d, A, T, R), NEW B, IsOf(B, e, A[e]), B # <<>>,
           d # <<>>, d[Len(d)].role = R[e],
           NEW t, t = Merged(d, B)
    PROVE  Good(t, A, T \cup {e}, R) /\ Ends(t, A, e)
<1>1. d \in Seq(TurnRec) /\ Bears(d, A, T, R) /\ Alternate(d) /\ \A k \in 1..Len(d) : d[k].parts # <<>>
  BY DEF Good
<1>2. B \in Seq(Part)
  BY DEF IsOf
<1>3. PICK l \in Nat : l = Len(d) /\ l \in 1..l /\ DOMAIN d = 1..l
  BY <1>1, NotEmpty
<1>4. \A k \in 1..l : d[k] \in TurnRec /\ d[k].parts \in Seq(Part)
  <2>1. \A k \in 1..l : d[k] \in TurnRec
    BY <1>1, <1>3
  <2> QED
    BY <2>1 DEF TurnRec
<1> DEFINE p == d[l].parts
           w == p \o B
           last == [d[l] EXCEPT !.parts = w]
<1>5. /\ w \in Seq(Part) /\ Len(w) = Len(p) + Len(B) /\ Len(p) \in Nat /\ Len(B) \in Nat
      /\ \A n \in 1..Len(p) : w[n] = p[n]
      /\ \A n \in 1..Len(B) : w[Len(p) + n] = B[n]
  <2>1. p \in Seq(Part)
    BY <1>3, <1>4
  <2> HIDE DEF p
  <2> QED
    BY <1>2, <2>1, Concat
<1>6. p \in Seq(Part)
  BY <1>3, <1>4
<1>7. t = [d EXCEPT ![l] = last]
  BY <1>3 DEF Merged
<1> HIDE DEF w
<1>8. last \in TurnRec /\ last.role = d[l].role /\ last.parts = w
  <2>1. d[l] \in TurnRec
    BY <1>3, <1>4
  <2> QED
    BY <1>5, <2>1 DEF TurnRec
<1> HIDE DEF last, p
<1>9. /\ DOMAIN t = 1..l /\ t[l] = last /\ \A k \in 1..l : k # l => t[k] = d[k]
  BY <1>3, <1>7
<1>10. t \in Seq(TurnRec) /\ Len(t) = l
  <2>1. \A k \in 1..l : t[k] \in TurnRec
    BY <1>4, <1>8, <1>9
  <2>2. t = [k \in 1..l |-> t[k]]
    BY <1>3, <1>7, <1>9
  <2>3. t \in [1..l -> TurnRec]
    BY <2>1, <2>2
  <2> QED
    BY <2>3, SeqOfLength
<1>11. PICK o \in Nat, b \in Nat : o = Len(p) /\ b = Len(B) /\ Len(w) = o + b
  BY <1>5
<1>12. DOMAIN p = 1..o /\ DOMAIN w = 1..(o + b) /\ DOMAIN B = 1..b
  BY <1>2, <1>5, <1>6, <1>11
<1>13. \A k \in 1..l : DOMAIN d[k].parts \subseteq Int
  <2> SUFFICES ASSUME NEW k \in 1..l PROVE DOMAIN d[k].parts \subseteq Int
    OBVIOUS
  <2>1. d[k].parts \in Seq(Part)
    BY <1>4
  <2>2. DOMAIN d[k].parts = 1..Len(d[k].parts) /\ Len(d[k].parts) \in Nat
    BY <2>1
  <2> QED
    BY <2>2
<1>14. ASSUME NEW k \in 1..l, NEW n \in DOMAIN d[k].parts
       PROVE  k \in DOMAIN t /\ n \in DOMAIN t[k].parts /\ Older(d, t, l, o, k, n)
  <2>1. k \in Int /\ n \in Int /\ k \in DOMAIN d
    BY <1>3, <1>13
  <2>2. CASE k # l
    <3>1. t[k] = d[k] /\ k < l
      BY <1>9, <2>2
    <3> QED
      BY <1>9, <2>1, <3>1 DEF Older
  <2>3. CASE k = l
    <3>1. n \in 1..o /\ d[k].parts = p
      BY <1>12, <2>3 DEF p
    <3>2. n \in 1..(o + b) /\ n <= o
      BY <3>1
    <3>3. t[k].parts = w /\ w[n] = p[n] /\ t[k].role = d[k].role
      BY <1>5, <1>8, <1>9, <1>11, <2>3, <3>1
    <3> QED
      BY <1>9, <1>12, <2>1, <2>3, <3>1, <3>2, <3>3 DEF Older
  <2> QED
    BY <2>2, <2>3
<1>15. ASSUME NEW k \in DOMAIN t, NEW n \in DOMAIN t[k].parts
       PROVE  Older(d, t, l, o, k, n) \/ (k = l /\ \E x \in 1..Len(B) : n = o + x)
  <2>1. CASE k # l
    <3>1. k \in 1..l /\ n \in DOMAIN d[k].parts
      BY <1>9, <2>1
    <3> QED
      BY <1>14, <3>1
  <2>2. CASE k = l
    <3>1. n \in 1..(o + b)
      BY <1>8, <1>9, <1>12, <2>2
    <3>2. CASE n \in 1..o
      <4>1. n \in DOMAIN d[k].parts
        BY <1>12, <2>2, <3>2 DEF p
      <4> QED
        BY <1>3, <1>14, <2>2, <4>1
    <3>3. CASE n \notin 1..o
      <4>1. n - o \in 1..b /\ n = o + (n - o)
        BY <3>1, <3>3
      <4> QED
        BY <1>11, <2>2, <4>1
    <3> QED
      BY <3>2, <3>3
  <2> QED
    BY <2>1, <2>2
<1>16. ASSUME NEW x \in 1..Len(B)
       PROVE  l \in DOMAIN t /\ o + x \in DOMAIN t[l].parts /\ t[l].parts[o + x] = B[x]
  <2>1. o + x \in 1..(o + b)
    BY <1>11
  <2> QED
    BY <1>3, <1>5, <1>8, <1>9, <1>11, <1>12, <2>1
<1>17. t[l].role = R[e]
  BY <1>3, <1>8, <1>9
<1>18. Bears(t, A, T \cup {e}, R)
  <2>1. l \in Int /\ o \in Int
    OBVIOUS
  <2>2. \A k \in DOMAIN t : \A n \in DOMAIN t[k].parts :
            Older(d, t, l, o, k, n) \/ (k = l /\ \E x \in 1..Len(B) : n = o + x)
    BY <1>15
  <2>3. \A k \in DOMAIN d : \A n \in DOMAIN d[k].parts :
            k \in DOMAIN t /\ n \in DOMAIN t[k].parts /\ Older(d, t, l, o, k, n)
    BY <1>3, <1>14
  <2>4. Adds(d, t, l, o, B)
    BY <1>16, <2>2, <2>3 DEF Adds
  <2> QED
    BY <1>1, <1>17, <2>1, <2>4, Extended
<1>19. \A k \in 1..l : t[k].role = d[k].role
  BY <1>8, <1>9
<1>20. Alternate(t)
  <2> SUFFICES ASSUME NEW k \in 1..(Len(t) - 1) PROVE t[k].role # t[k + 1].role
    BY DEF Alternate
  <2>1. k \in 1..l /\ k + 1 \in 1..l /\ k \in 1..(Len(d) - 1)
    BY <1>3, <1>10
  <2> QED
    BY <1>1, <1>19, <2>1 DEF Alternate
<1>21. \E x \in 1..(o + b) : TRUE
  <2>1. b # 0
    BY <1>2, <1>11, EmptySeq
  <2>2. o + b \in 1..(o + b)
    BY <2>1
  <2> QED
    BY <2>2
<1>22. \A k \in 1..Len(t) : t[k].parts # <<>>
  <2>1. w # <<>>
    BY <1>12, <1>21
  <2> QED
    BY <1>1, <1>3, <1>8, <1>9, <1>10, <2>1
<1>23. Ends(t, A, e)
  <2>0. t # <<>>
    <3>1. l # 0
      BY <1>3
    <3> QED
      BY <1>10, <3>1
  <2>1. t # <<>> /\ t[Len(t)].parts = w
    BY <1>3, <1>8, <1>9, <1>10, <2>0
  <2> SUFFICES ASSUME NEW a \in A[e] PROVE \E x \in 1..Len(w) : w[x] = <<e, a>>
    BY <2>1 DEF Ends
  <2>2. PICK x \in 1..Len(B) : B[x] = <<e, a>>
    BY DEF IsOf
  <2>3. o + x \in 1..(o + b) /\ w[o + x] = B[x]
    BY <1>5, <1>11
  <2> QED
    BY <1>11, <2>2, <2>3
<1> QED
  BY <1>10, <1>18, <1>20, <1>22, <1>23 DEF Good

\* Only prompts have attachments, and of those only the last message.
WrInv ==
    /\ Wr!TypeOK
    /\ \A i \in DOMAIN messages : messages[i].files # <<>> => messages[i].role = "user"

LEMMA FilesAre ==
    ASSUME NEW f \in Wr!BoundedSeq(Wr!Kinds, MaxFiles)
    PROVE  f \in Seq(Wr!Kinds)
<1>1. PICK m \in 0..MaxFiles : f \in [1..m -> Wr!Kinds]
  BY DEF Wr!BoundedSeq, Wr!SeqOf
<1>2. m \in Nat
  OBVIOUS
<1> QED
  BY <1>1, <1>2, SeqOfLength

LEMMA MessageIs ==
    ASSUME WrInv
    PROVE  /\ messages \in Seq(Wr!Message) /\ Len(messages) \in Nat /\ DOMAIN messages = 1..Len(messages)
           /\ \A i \in DOMAIN messages :
                 /\ i \in Int /\ messages[i].role \in {"user", "assistant"} /\ messages[i].text \in BOOLEAN
                 /\ messages[i].files \in Seq(Wr!Kinds) /\ Len(messages[i].files) \in Nat
                 /\ DOMAIN messages[i].files = 1..Len(messages[i].files)
<1>1. messages \in Seq(Wr!Message)
  BY DEF WrInv, Wr!TypeOK
<1>2. Len(messages) \in Nat /\ DOMAIN messages = 1..Len(messages)
  BY <1>1
<1>3. ASSUME NEW i \in DOMAIN messages
      PROVE  /\ i \in Int /\ messages[i].role \in {"user", "assistant"} /\ messages[i].text \in BOOLEAN
             /\ messages[i].files \in Seq(Wr!Kinds) /\ Len(messages[i].files) \in Nat
             /\ DOMAIN messages[i].files = 1..Len(messages[i].files)
  <2>1. messages[i] \in Wr!Message /\ i \in Int
    BY <1>1, <1>2
  <2>2. messages[i].files \in Wr!BoundedSeq(Wr!Kinds, MaxFiles)
    BY <2>1 DEF Wr!Message
  <2>3. messages[i].role \in {"user", "assistant"} /\ messages[i].text \in BOOLEAN
    BY <2>1 DEF Wr!Message
  <2>4. messages[i].files \in Seq(Wr!Kinds)
    BY <2>2, FilesAre
  <2>5. Len(messages[i].files) \in Nat /\ DOMAIN messages[i].files = 1..Len(messages[i].files)
    BY <2>4
  <2> QED
    BY <2>1, <2>3, <2>4, <2>5
<1> QED
  BY <1>1, <1>2, <1>3

\* The numbers of the parts of message i: 0 for its text, n for its n-th file.
TextOf(i) == IF messages[i].text THEN {0} ELSE {}
FilesOf(i, kinds) == {n \in DOMAIN messages[i].files : messages[i].files[n] \in kinds}
PartsOf(i, kinds) == TextOf(i) \cup FilesOf(i, kinds)

LEMMA NoPart == ASSUME NEW i PROVE IsOf(<<>>, i, {})
<1>1. <<>> \in Seq(Part) /\ Len(<<>>) = 0
  BY EmptySeq
<1> QED
  BY <1>1 DEF IsOf

LEMMA TextPartIs ==
    ASSUME WrInv, NEW i \in DOMAIN messages
    PROVE  IsOf(Wr!TextPart(i), i, TextOf(i))
<1>1. CASE messages[i].text
  <2>1. Wr!TextPart(i) = <<<<i, 0>>>> /\ TextOf(i) = {0}
    BY <1>1 DEF Wr!TextPart, TextOf
  <2>2. i \in Int
    BY MessageIs
  <2> DEFINE q == <<<<i, 0>>>>
  <2>3. q \in Seq(Part) /\ Len(q) = 1 /\ q[1] = <<i, 0>>
    BY <2>2 DEF Part
  <2> HIDE DEF q
  <2>4. IsOf(q, i, {0})
    BY <2>3 DEF IsOf
  <2> QED
    BY <2>1, <2>4 DEF q
<1>2. CASE ~messages[i].text
  BY <1>2, NoPart DEF Wr!TextPart, TextOf
<1> QED
  BY <1>1, <1>2

LEMMA FilePartsAre ==
    ASSUME WrInv, NEW i \in DOMAIN messages, NEW kinds
    PROVE  IsOf(Wr!FileParts(i, kinds), i, FilesOf(i, kinds))
<1> DEFINE files == messages[i].files
<1>0. PICK S : S = FilesOf(i, kinds)
  OBVIOUS
<1>1. i \in Int /\ Len(files) \in Nat /\ DOMAIN files = 1..Len(files)
  BY MessageIs
<1>a. PICK N \in Nat : N = Len(files) /\ DOMAIN files = 1..N
  BY <1>1
<1>b. PICK k : k = Keep(Numbers(N), S)
  OBVIOUS
<1> DEFINE q == [j \in DOMAIN k |-> <<i, k[j]>>]
<1>2. Wr!FileParts(i, kinds) = q
  BY <1>0, <1>a, <1>b, WrKeep DEF Wr!FileParts, FilesOf, Numbers
<1>3. S \subseteq 1..N
  BY <1>0, <1>a DEF FilesOf
<1>4. /\ k \in Seq(Int) /\ Len(k) \in Nat /\ Increasing(k)
      /\ \A j \in 1..Len(k) : k[j] \in 1..N /\ k[j] \in S
      /\ \A n \in 1..N : n \in S => \E j \in 1..Len(k) : k[j] = n
  BY SMTT(40), <1>b, NumbersKept
<1>5. \A n, m \in 1..Len(k) : k[n] = k[m] => n = m
  BY <1>4, IncreasingDiffer
<1>6. PICK l \in Nat : l = Len(k) /\ DOMAIN k = 1..l
  BY <1>4
<1>7. q \in [1..l -> Part]
  <2>1. \A j \in 1..l : <<i, k[j]>> \in Part
    BY <1>1, <1>4, <1>6 DEF Part
  <2> QED
    BY <1>6, <2>1
<1>8. q \in Seq(Part) /\ Len(q) = l
  <2> HIDE DEF q
  <2> QED
    BY <1>7, SeqOfLength
<1>9. \A j \in 1..l : q[j] = <<i, k[j]>>
  BY <1>6
<1> HIDE DEF q
<1>10. \A n, m \in 1..l : q[n] = q[m] => n = m
  BY <1>5, <1>6, <1>9
<1>11. \A n \in 1..l : \E a \in S : q[n] = <<i, a>>
  BY <1>4, <1>6, <1>9
<1>12. \A a \in S : \E n \in 1..l : q[n] = <<i, a>>
  BY <1>3, <1>4, <1>6, <1>9
<1> QED
  BY <1>0, <1>2, <1>8, <1>10, <1>11, <1>12 DEF IsOf

LEMMA Apart ==
    ASSUME WrInv, NEW i \in DOMAIN messages, NEW kinds
    PROVE  TextOf(i) \cap FilesOf(i, kinds) = {} /\ FilesOf(i, kinds) \cap TextOf(i) = {}
<1>1. Len(messages[i].files) \in Nat /\ DOMAIN messages[i].files = 1..Len(messages[i].files)
  BY MessageIs
<1>2. 0 \notin FilesOf(i, kinds)
  BY <1>1 DEF FilesOf
<1> QED
  BY <1>2 DEF TextOf

\* What each wire makes of a message.
LEMMA WantedIs ==
    ASSUME WrInv, NEW i \in DOMAIN messages, NEW kinds
    PROVE  /\ IsOf(Wr!TextPart(i) \o Wr!FileParts(i, kinds), i, PartsOf(i, kinds))
           /\ IsOf(Wr!FileParts(i, kinds) \o Wr!TextPart(i), i, PartsOf(i, kinds))
<1>1. i \in Int /\ IsOf(Wr!TextPart(i), i, TextOf(i)) /\ IsOf(Wr!FileParts(i, kinds), i, FilesOf(i, kinds))
  BY MessageIs, TextPartIs, FilePartsAre
<1>2. IsOf(Wr!TextPart(i) \o Wr!FileParts(i, kinds), i, TextOf(i) \cup FilesOf(i, kinds))
  BY <1>1, Apart, Joined
<1>3. IsOf(Wr!FileParts(i, kinds) \o Wr!TextPart(i), i, FilesOf(i, kinds) \cup TextOf(i))
  BY <1>1, Apart, Joined
<1>4. FilesOf(i, kinds) \cup TextOf(i) = PartsOf(i, kinds) /\ TextOf(i) \cup FilesOf(i, kinds) = PartsOf(i, kinds)
  BY DEF PartsOf
<1> QED
  BY <1>2, <1>3, <1>4

LEMMA ResponsesInputIs ==
    ASSUME WrInv, NEW i \in DOMAIN messages
    PROVE  /\ Wr!ToResponsesInput(i).role = messages[i].role
           /\ IsOf(Wr!ToResponsesInput(i).parts, i, PartsOf(i, Wr!Kinds))
<1> DEFINE q == Wr!TextPart(i) \o Wr!FileParts(i, {"text"})
           r == IF messages[i].role = "user" THEN Wr!FileParts(i, Wr!Images) ELSE <<>>
<1>1. IsOf(q, i, PartsOf(i, {"text"}))
  BY WantedIs
<1>2. IsOf(r, i, FilesOf(i, Wr!Images))
  <2>1. CASE messages[i].role = "user"
    BY <2>1, FilePartsAre
  <2>2. CASE messages[i].role # "user"
    <3>1. messages[i].files = <<>>
      BY <2>2 DEF WrInv
    <3>2. FilesOf(i, Wr!Images) = {}
      BY <3>1 DEF FilesOf
    <3> QED
      BY <2>2, <3>2, NoPart
  <2> QED
    BY <2>1, <2>2
<1>3. PartsOf(i, {"text"}) \cap FilesOf(i, Wr!Images) = {}
  <2>1. TextOf(i) \cap FilesOf(i, Wr!Images) = {}
    BY Apart
  <2>2. FilesOf(i, {"text"}) \cap FilesOf(i, Wr!Images) = {}
    BY DEF FilesOf, Wr!Images
  <2> QED
    BY <2>1, <2>2 DEF PartsOf
<1>4. PartsOf(i, {"text"}) \cup FilesOf(i, Wr!Images) = PartsOf(i, Wr!Kinds)
  <2>1. FilesOf(i, {"text"}) \cup FilesOf(i, Wr!Images) = FilesOf(i, Wr!Kinds)
    BY DEF FilesOf, Wr!Images, Wr!Kinds
  <2> QED
    BY <2>1 DEF PartsOf
<1>5. i \in Int
  BY MessageIs
<1> HIDE DEF q, r
<1>6. IsOf(q \o r, i, PartsOf(i, Wr!Kinds))
  BY <1>1, <1>2, <1>3, <1>4, <1>5, Joined
<1>7. Wr!ToResponsesInput(i) = [role |-> messages[i].role, parts |-> q \o r]
  BY DEF Wr!ToResponsesInput, Wr!Turn, q, r
<1> QED
  BY <1>6, <1>7

\* split_system keeps the messages that have parts, in their order.
LEMMA SplitSystemIs ==
    ASSUME WrInv, NEW s, s = Wr!SplitSystem
    PROVE  /\ s \in Seq(Int) /\ Len(s) \in Nat /\ DOMAIN s = 1..Len(s) /\ Increasing(s)
           /\ \A j \in 1..Len(s) : s[j] \in DOMAIN messages /\ PartsOf(s[j], Wr!Kinds) # {}
           /\ \A i \in DOMAIN messages : PartsOf(i, Wr!Kinds) # {} => \E j \in 1..Len(s) : s[j] = i
<1> DEFINE S == {i \in DOMAIN messages : messages[i].text \/ messages[i].files # <<>>}
           N == Len(messages)
<1>1. N \in Nat /\ DOMAIN messages = 1..N
  BY MessageIs
<1>2. s = Keep(Numbers(N), S)
  BY <1>1, WrKeep DEF Wr!SplitSystem, Numbers
<1>3. ASSUME NEW i \in DOMAIN messages PROVE i \in S <=> PartsOf(i, Wr!Kinds) # {}
  <2> DEFINE f == messages[i].files
  <2>1. f \in Seq(Wr!Kinds) /\ Len(f) \in Nat /\ DOMAIN f = 1..Len(f)
    BY MessageIs
  <2> HIDE DEF f
  <2>2. \A n \in DOMAIN f : f[n] \in Wr!Kinds
    BY <2>1
  <2>3. f # <<>> => 1 \in DOMAIN f
    BY <2>1, EmptySeq
  <2>4. f = <<>> => DOMAIN f = {}
    BY <2>1
  <2>5. FilesOf(i, Wr!Kinds) = DOMAIN f
    BY <2>2 DEF FilesOf, f
  <2>6. FilesOf(i, Wr!Kinds) # {} <=> f # <<>>
    BY <2>3, <2>4, <2>5
  <2>7. TextOf(i) # {} <=> messages[i].text
    BY DEF TextOf
  <2> QED
    BY <2>6, <2>7 DEF PartsOf, f
<1> HIDE DEF S, N
<1>4. /\ s \in Seq(Int) /\ Len(s) \in Nat /\ Increasing(s)
      /\ \A j \in 1..Len(s) : s[j] \in 1..N /\ s[j] \in S
      /\ \A i \in 1..N : i \in S => \E j \in 1..Len(s) : s[j] = i
  BY <1>1, <1>2, NumbersKept
<1>5. DOMAIN s = 1..Len(s)
  BY <1>4
<1> QED
  BY <1>1, <1>3, <1>4, <1>5

\* The parts and the roles that the wires are to carry.
Wanted(kinds) == [i \in DOMAIN messages |-> PartsOf(i, kinds)]
Roles == [i \in DOMAIN messages |-> messages[i].role]

\* T has every message of which a wire has a part.
Covers(T, kinds) ==
    T \subseteq DOMAIN messages /\ \A i \in DOMAIN messages : PartsOf(i, kinds) # {} => i \in T

LEMMA EmptyIs ==
    ASSUME NEW X, NEW q \in Seq(X)
    PROVE  q = <<>> <=> Len(q) = 0
  BY EmptySeq

LEMMA IsOfSet ==
    ASSUME NEW q, NEW i, NEW A, IsOf(q, i, A)
    PROVE  /\ Wr!ToSet(q) = {<<i, a>> : a \in A}
           /\ q # <<>> <=> A # {}
<1>1. q \in Seq(Part) /\ DOMAIN q = 1..Len(q) /\ Len(q) \in Nat
  BY DEF IsOf
<1>2. /\ \A n \in DOMAIN q : \E a \in A : q[n] = <<i, a>>
      /\ \A a \in A : \E n \in DOMAIN q : q[n] = <<i, a>>
  BY <1>1 DEF IsOf
<1>3. Wr!ToSet(q) = {q[n] : n \in DOMAIN q}
  BY DEF Wr!ToSet
<1>4. q # <<>> <=> DOMAIN q # {}
  <2>0. q \in Seq(Part)
    BY <1>1
  <2>1. q = <<>> <=> Len(q) = 0
    BY <2>0, EmptyIs
  <2>2. PICK l \in Nat : l = Len(q)
    BY <1>1
  <2>3. l = 0 <=> 1..l = {}
    OBVIOUS
  <2> QED
    BY <1>1, <2>1, <2>2, <2>3
<1>5. {q[n] : n \in DOMAIN q} = {<<i, a>> : a \in A}
  BY <1>2
<1>6. DOMAIN q # {} <=> A # {}
  BY <1>2
<1> QED
  BY <1>3, <1>4, <1>5, <1>6

LEMMA CarriesAll ==
    ASSUME WrInv, NEW kinds, NEW sent, NEW T, Covers(T, kinds), Bears(sent, Wanted(kinds), T, Roles)
    PROVE  Wr!Carries(sent, kinds)
<1>1. ASSUME NEW p \in Wr!Places(sent)
      PROVE  /\ p = <<p[1], p[2]>> /\ p[1] \in DOMAIN sent /\ p[2] \in DOMAIN sent[p[1]].parts
             /\ Wr!PartAt(sent, p) = sent[p[1]].parts[p[2]]
  <2>1. PICK k \in DOMAIN sent : p \in {k} \X DOMAIN sent[k].parts
    BY <1>1 DEF Wr!Places
  <2>2. p = <<p[1], p[2]>> /\ p[1] = k /\ p[2] \in DOMAIN sent[k].parts
    BY <2>1
  <2> QED
    BY <2>2 DEF Wr!PartAt
<1>2. ASSUME NEW k \in DOMAIN sent, NEW n \in DOMAIN sent[k].parts
      PROVE  <<k, n>> \in Wr!Places(sent) /\ Wr!PartAt(sent, <<k, n>>) = sent[k].parts[n]
  BY DEF Wr!Places, Wr!PartAt
<1>3. ASSUME NEW i \in T PROVE i \in DOMAIN messages /\ Wanted(kinds)[i] = PartsOf(i, kinds) /\ Roles[i] = messages[i].role
  BY <1>3 DEF Covers, Wanted, Roles
<1>4. ASSUME NEW p \in Wr!Places(sent), NEW q \in Wr!Places(sent)
      PROVE  /\ Wr!PartAt(sent, p) = Wr!PartAt(sent, q) => p = q
             /\ Wr!PartAt(sent, p)[1] < Wr!PartAt(sent, q)[1] => Wr!Precedes(p, q)
  <2>1. PICK k, n : p = <<k, n>> /\ k \in DOMAIN sent /\ n \in DOMAIN sent[k].parts
    BY <1>1
  <2>2. PICK l, m : q = <<l, m>> /\ l \in DOMAIN sent /\ m \in DOMAIN sent[l].parts
    BY <1>1
  <2>3. /\ sent[k].parts[n] = sent[l].parts[m] => k = l /\ n = m
        /\ sent[k].parts[n][1] < sent[l].parts[m][1] => k < l \/ (k = l /\ n < m)
    BY <2>1, <2>2 DEF Bears
  <2>4. Wr!PartAt(sent, p) = sent[k].parts[n] /\ Wr!PartAt(sent, q) = sent[l].parts[m]
    BY <1>2, <2>1, <2>2
  <2>5. p[1] = k /\ p[2] = n /\ q[1] = l /\ q[2] = m
    BY <2>1, <2>2
  <2> QED
    BY <2>1, <2>2, <2>3, <2>4, <2>5 DEF Wr!Precedes
<1>5. ASSUME NEW p \in Wr!Places(sent)
      PROVE  \E i \in T : \E a \in PartsOf(i, kinds) :
                Wr!PartAt(sent, p) = <<i, a>> /\ sent[p[1]].role = messages[i].role
  <2>1. PICK i \in T : \E a \in Wanted(kinds)[i] :
           sent[p[1]].parts[p[2]] = <<i, a>> /\ sent[p[1]].role = Roles[i]
    BY <1>1 DEF Bears
  <2> QED
    BY <1>1, <1>3, <2>1
<1> DEFINE All == UNION {Wr!ToSet(Wr!TextPart(i) \o Wr!FileParts(i, kinds)) : i \in DOMAIN messages}
<1>6. ASSUME NEW i \in DOMAIN messages
      PROVE  Wr!ToSet(Wr!TextPart(i) \o Wr!FileParts(i, kinds)) = {<<i, a>> : a \in PartsOf(i, kinds)}
  BY WantedIs, IsOfSet
<1>7. \A x : x \in All <=> \E i \in DOMAIN messages : \E a \in PartsOf(i, kinds) : x = <<i, a>>
  BY <1>6
<1> HIDE DEF All
<1>8. ASSUME NEW i \in DOMAIN messages, NEW a \in PartsOf(i, kinds)
      PROVE  \E p \in Wr!Places(sent) : Wr!PartAt(sent, p) = <<i, a>>
  <2>1. i \in T
    BY DEF Covers
  <2>2. a \in Wanted(kinds)[i]
    BY <1>3, <2>1
  <2>3. PICK k \in DOMAIN sent : \E n \in DOMAIN sent[k].parts : sent[k].parts[n] = <<i, a>>
    BY <2>1, <2>2 DEF Bears
  <2> QED
    BY <1>2, <2>3
<1>9. {Wr!PartAt(sent, p) : p \in Wr!Places(sent)} = All
  <2>1. \A p \in Wr!Places(sent) : Wr!PartAt(sent, p) \in All
    BY <1>3, <1>5, <1>7
  <2>2. \A x \in All : \E p \in Wr!Places(sent) : x = Wr!PartAt(sent, p)
    BY <1>7, <1>8
  <2> QED
    BY <2>1, <2>2
<1>10. ASSUME NEW p \in Wr!Places(sent)
       PROVE  messages[Wr!PartAt(sent, p)[1]].role = sent[p[1]].role
  BY <1>5
<1> QED
  BY <1>4, <1>9, <1>10 DEF Wr!Carries, All

\* OpenAI: a turn for each message that has parts.
LEMMA OpenAIIs ==
    ASSUME WrInv, NEW s, s = Wr!SplitSystem
    PROVE  /\ Wr!Carries(Wr!OpenAIInput, Wr!Kinds)
           /\ DOMAIN Wr!OpenAIInput = 1..Len(s)
           /\ Wr!OpenAIInput = [k \in 1..Len(s) |-> Wr!OpenAIInput[k]]
           /\ \A k \in 1..Len(s) : /\ IsOf(Wr!OpenAIInput[k].parts, s[k], PartsOf(s[k], Wr!Kinds))
                                   /\ Wr!OpenAIInput[k].parts # <<>>
<1>1. /\ s \in Seq(Int) /\ Len(s) \in Nat /\ DOMAIN s = 1..Len(s) /\ Increasing(s)
      /\ \A j \in 1..Len(s) : s[j] \in DOMAIN messages /\ PartsOf(s[j], Wr!Kinds) # {}
      /\ \A i \in DOMAIN messages : PartsOf(i, Wr!Kinds) # {} => \E j \in 1..Len(s) : s[j] = i
  BY SplitSystemIs
<1>2. PICK t : t = Wr!OpenAIInput
  OBVIOUS
<1>3. DOMAIN t = 1..Len(s) /\ \A k \in 1..Len(s) : t[k] = Wr!ToResponsesInput(s[k])
  BY <1>1, <1>2 DEF Wr!OpenAIInput
<1>12. t = [k \in 1..Len(s) |-> t[k]]
  BY <1>1, <1>2 DEF Wr!OpenAIInput
<1>4. ASSUME NEW k \in 1..Len(s)
      PROVE  /\ IsOf(t[k].parts, s[k], PartsOf(s[k], Wr!Kinds)) /\ t[k].role = messages[s[k]].role
             /\ t[k].parts # <<>>
  <2>1. s[k] \in DOMAIN messages /\ PartsOf(s[k], Wr!Kinds) # {}
    BY <1>1
  <2>2. IsOf(t[k].parts, s[k], PartsOf(s[k], Wr!Kinds)) /\ t[k].role = messages[s[k]].role
    BY <1>3, <2>1, ResponsesInputIs
  <2> QED
    BY <2>1, <2>2, IsOfSet
<1>5. PICK A, R : A = Wanted(Wr!Kinds) /\ R = Roles
  OBVIOUS
<1>6. \A k \in 1..Len(s) : A[s[k]] = PartsOf(s[k], Wr!Kinds) /\ R[s[k]] = messages[s[k]].role
  BY <1>1, <1>5 DEF Wanted, Roles
<1>7. \A k \in 1..Len(s) : IsOf(t[k].parts, s[k], A[s[k]]) /\ t[k].role = R[s[k]]
  BY <1>4, <1>6
<1>8. PICK T : T = {s[k] : k \in 1..Len(s)}
  OBVIOUS
<1>9. Bears(t, A, T, R)
  BY <1>1, <1>3, <1>7, <1>8, Separate
<1>10. Covers(T, Wr!Kinds)
  BY <1>1, <1>8 DEF Covers
<1>11. Wr!Carries(t, Wr!Kinds)
  BY <1>5, <1>9, <1>10, CarriesAll
<1> QED
  BY <1>2, <1>3, <1>4, <1>11, <1>12

\* Gemini: a turn for each message that has parts after what is corrupt is skipped.
LEMMA GeminiIs ==
    ASSUME WrInv
    PROVE  /\ Wr!Carries(Wr!GeminiContents, {"text", "image"})
           /\ \E l \in Nat : Wr!GeminiContents = [k \in 1..l |-> Wr!GeminiContents[k]]
           /\ \A k \in DOMAIN Wr!GeminiContents : Wr!GeminiContents[k].parts # <<>>
<1>0. PICK s : s = Wr!SplitSystem
  OBVIOUS
<1>a. PICK kinds : kinds = {"text", "image"}
  OBVIOUS
<1>1. /\ s \in Seq(Int) /\ Len(s) \in Nat /\ Increasing(s)
      /\ \A j \in 1..Len(s) : s[j] \in DOMAIN messages
      /\ \A i \in DOMAIN messages : PartsOf(i, Wr!Kinds) # {} => \E j \in 1..Len(s) : s[j] = i
  BY <1>0, SplitSystemIs
<1>2. PICK S : S = {i \in DOMAIN messages : Wr!Parts(i) # <<>>}
  OBVIOUS
<1>3. ASSUME NEW i \in DOMAIN messages
      PROVE  /\ IsOf(Wr!Parts(i), i, PartsOf(i, kinds))
             /\ i \in S <=> PartsOf(i, kinds) # {}
  <2>1. IsOf(Wr!Parts(i), i, PartsOf(i, kinds))
    BY <1>a, WantedIs DEF Wr!Parts
  <2> QED
    BY <1>2, <2>1, IsOfSet
<1>4. PICK k : k = Keep(s, S)
  OBVIOUS
<1>5. k \in Seq(Int) /\ Len(k) \in Nat /\ \A j \in 1..Len(k) : k[j] \in S
  BY <1>1, <1>4, KeepIn
<1>6. Increasing(k) /\ Selects(k, s, Len(s), S)
  BY <1>1, <1>4, KeepSorted
<1>7. \A j \in 1..Len(k) : k[j] \in DOMAIN messages /\ PartsOf(k[j], kinds) # {}
  BY <1>2, <1>3, <1>5
<1>8. ASSUME NEW i \in DOMAIN messages, PartsOf(i, kinds) # {}
      PROVE  \E j \in 1..Len(k) : k[j] = i
  <2>1. PartsOf(i, Wr!Kinds) # {}
    BY <1>8, <1>a DEF PartsOf, FilesOf, Wr!Kinds
  <2>2. PICK j \in 1..Len(s) : s[j] = i
    BY <1>1, <2>1
  <2>3. i \in S
    BY <1>3, <1>8
  <2> QED
    BY <1>6, <2>2, <2>3 DEF Selects
<1>9. PICK t : t = Wr!GeminiContents
  OBVIOUS
<1>10. t = [j \in DOMAIN k |-> Wr!Turn(k[j], Wr!Parts(k[j]))]
  BY <1>0, <1>2, <1>4, <1>9, WrKeep DEF Wr!GeminiContents
<1>11. DOMAIN k = 1..Len(k)
  BY <1>5
<1>12. DOMAIN t = 1..Len(k) /\ \A j \in 1..Len(k) : t[j].parts = Wr!Parts(k[j]) /\ t[j].role = messages[k[j]].role
  BY <1>10, <1>11 DEF Wr!Turn
<1>b. t = [j \in 1..Len(k) |-> t[j]]
  BY <1>10, <1>11
<1>13. \A j \in 1..Len(k) : IsOf(t[j].parts, k[j], PartsOf(k[j], kinds)) /\ t[j].parts # <<>>
  <2> SUFFICES ASSUME NEW j \in 1..Len(k)
               PROVE  IsOf(t[j].parts, k[j], PartsOf(k[j], kinds)) /\ t[j].parts # <<>>
    OBVIOUS
  <2>1. IsOf(Wr!Parts(k[j]), k[j], PartsOf(k[j], kinds)) /\ PartsOf(k[j], kinds) # {}
    BY <1>3, <1>7
  <2> QED
    BY <1>12, <2>1, IsOfSet
<1>14. PICK A, R : A = Wanted(kinds) /\ R = Roles
  OBVIOUS
<1>15. \A j \in 1..Len(k) : A[k[j]] = PartsOf(k[j], kinds) /\ R[k[j]] = messages[k[j]].role
  BY <1>7, <1>14 DEF Wanted, Roles
<1>16. \A j \in 1..Len(k) : IsOf(t[j].parts, k[j], A[k[j]]) /\ t[j].role = R[k[j]]
  BY <1>12, <1>13, <1>15
<1>17. PICK T : T = {k[j] : j \in 1..Len(k)}
  OBVIOUS
<1>18. Bears(t, A, T, R)
  BY <1>5, <1>6, <1>12, <1>16, <1>17, Separate
<1>19. Covers(T, kinds)
  BY <1>7, <1>8, <1>17 DEF Covers
<1>20. Wr!Carries(t, kinds)
  BY <1>14, <1>18, <1>19, CarriesAll
<1> QED
  BY <1>a, <1>b, <1>5, <1>9, <1>12, <1>13, <1>20

\* Claude: the turns after the first n messages that have parts.
IsAdded(g, s) == g = [n \in 0..Len(s) |-> IF n = 0 THEN <<>> ELSE Wr!AddTurn(g[n - 1], s[n])]

LEMMA ClaudeIs ==
    ASSUME NEW s, s = Wr!SplitSystem
    PROVE  Wr!ClaudeTurns = (CHOOSE g : IsAdded(g, s))[Len(s)]
  BY DEF Wr!ClaudeTurns, IsAdded

LEMMA BlocksAre ==
    ASSUME WrInv, NEW i \in DOMAIN messages
    PROVE  /\ IsOf(Wr!Blocks(i), i, PartsOf(i, Wr!Kinds)) /\ Wr!Blocks(i) \in Seq(Part)
           /\ messages[i].role \in {"user", "assistant"}
<1>1. IsOf(Wr!Blocks(i), i, PartsOf(i, Wr!Kinds))
  BY WantedIs DEF Wr!Blocks
<1> QED
  BY <1>1, MessageIs DEF IsOf

LEMMA AddTurnMerges ==
    ASSUME NEW i, NEW d, d # <<>>, d[Len(d)].role = messages[i].role
    PROVE  Wr!AddTurn(d, i) = Merged(d, Wr!Blocks(i))
  BY DEF Wr!AddTurn, Wr!Merges, Wr!Last, Merged

LEMMA AddTurnAppends ==
    ASSUME NEW i, NEW d, ~(d # <<>> /\ d[Len(d)].role = messages[i].role)
    PROVE  Wr!AddTurn(d, i) = Append(d, [role |-> messages[i].role, parts |-> Wr!Blocks(i)])
  BY DEF Wr!AddTurn, Wr!Merges, Wr!Last, Wr!Turn

LEMMA MergeType ==
    ASSUME NEW d \in Seq(TurnRec), d # <<>>, NEW B \in Seq(Part),
           NEW t, t = Merged(d, B)
    PROVE  t \in Seq(TurnRec)
<1>1. PICK l \in Nat : l = Len(d) /\ l \in 1..l /\ DOMAIN d = 1..l
  BY NotEmpty
<1>2. d[l] \in TurnRec /\ \A k \in 1..l : d[k] \in TurnRec
  BY <1>1
<1>3. d[l].parts \in Seq(Part)
  BY <1>2 DEF TurnRec
<1> DEFINE p == d[l].parts
<1>4. PICK w : w = p \o B
  OBVIOUS
<1>5. w \in Seq(Part)
  <2> HIDE DEF p
  <2>1. p \in Seq(Part)
    BY <1>3 DEF p
  <2> QED
    BY <1>4, <2>1, Concat
<1> DEFINE last == [d[l] EXCEPT !.parts = w]
<1>6. last \in TurnRec
  BY <1>2, <1>5 DEF TurnRec
<1>7. t = [d EXCEPT ![l] = last]
  BY <1>1, <1>4 DEF Merged
<1> HIDE DEF last
<1>8. t \in [1..l -> TurnRec]
  BY <1>1, <1>2, <1>6, <1>7
<1> QED
  BY <1>8, SeqOfLength

LEMMA AddTurnType ==
    ASSUME WrInv, NEW i \in DOMAIN messages, NEW d \in Seq(TurnRec)
    PROVE  Wr!AddTurn(d, i) \in Seq(TurnRec)
<1>1. PICK t : t = Wr!AddTurn(d, i)
  OBVIOUS
<1>2. PICK B : B = Wr!Blocks(i)
  OBVIOUS
<1>3. B \in Seq(Part) /\ messages[i].role \in {"user", "assistant"}
  BY <1>2, BlocksAre
<1>4. CASE d # <<>> /\ d[Len(d)].role = messages[i].role
  <2>1. t = Merged(d, B)
    BY <1>1, <1>2, <1>4, AddTurnMerges
  <2> QED
    BY <1>1, <1>3, <1>4, <2>1, MergeType
<1>5. CASE ~(d # <<>> /\ d[Len(d)].role = messages[i].role)
  <2>1. PICK e : e = [role |-> messages[i].role, parts |-> B]
    OBVIOUS
  <2>2. e \in TurnRec
    BY <1>3, <2>1 DEF TurnRec
  <2>3. t = Append(d, e)
    BY <1>1, <1>2, <1>5, <2>1, AddTurnAppends
  <2>4. Append(d, e) \in Seq(TurnRec)
    BY <2>2
  <2> QED
    BY <1>1, <2>3, <2>4
<1> QED
  BY <1>4, <1>5

LEMMA ClaudeRuns ==
    ASSUME WrInv, NEW s, s = Wr!SplitSystem
    PROVE  \E g : /\ Wr!ClaudeTurns = g[Len(s)] /\ g[0] = <<>>
                  /\ \A n \in 1..Len(s) : g[n] = Wr!AddTurn(g[n - 1], s[n])
<1> DEFINE D == Seq(TurnRec)
           st == [n \in 1..Len(s) |-> [d \in D |-> Wr!AddTurn(d, s[n])]]
<1>1. /\ Len(s) \in Nat /\ <<>> \in D
      /\ \A n \in 1..Len(s) : s[n] \in DOMAIN messages
  BY SplitSystemIs
<1>2. st \in [1..Len(s) -> [D -> D]]
  <2> SUFFICES ASSUME NEW n \in 1..Len(s), NEW d \in D PROVE Wr!AddTurn(d, s[n]) \in D
    OBVIOUS
  <2> QED
    BY <1>1, AddTurnType
<1>3. \E f : StepsOf(f, <<>>, st, Len(s), D)
  <2> HIDE DEF st, D
  <2> QED
    BY <1>1, <1>2, RunExists
<1>4. PICK f : StepsOf(f, <<>>, st, Len(s), D)
  BY <1>3
<1>5. PICK N \in Nat : N = Len(s)
  BY <1>1
<1>6. /\ DOMAIN f = 0..N /\ f = [n \in 0..N |-> f[n]] /\ f[0] = <<>>
      /\ \A n \in 0..N : f[n] \in D
      /\ \A n \in 1..N : f[n] = st[n][f[n - 1]]
  <2> HIDE DEF st, D
  <2> QED
    BY <1>4, <1>5 DEF StepsOf
<1>7. ASSUME NEW n \in 1..N PROVE f[n] = Wr!AddTurn(f[n - 1], s[n])
  <2>1. n - 1 \in 0..N
    OBVIOUS
  <2>2. f[n - 1] \in D
    BY <1>6, <2>1
  <2> QED
    BY <1>5, <1>6, <2>2
<1>8. IsAdded(f, s)
  <2> DEFINE h == [n \in 0..N |-> IF n = 0 THEN <<>> ELSE Wr!AddTurn(f[n - 1], s[n])]
  <2>1. ASSUME NEW n \in 0..N PROVE f[n] = h[n]
    <3>1. CASE n = 0
      BY <1>6, <3>1
    <3>2. CASE n # 0
      <4>1. n \in 1..N
        BY <3>2
      <4> QED
        BY <1>7, <3>2, <4>1
    <3> QED
      BY <3>1, <3>2
  <2>2. f = h
    BY <1>6, <2>1
  <2> QED
    BY <1>5, <2>2 DEF IsAdded
<1>9. PICK g : g = CHOOSE x : IsAdded(x, s)
  OBVIOUS
<1>10. IsAdded(g, s)
  BY <1>8, <1>9
<1>11. \A n \in 0..N : g[n] = IF n = 0 THEN <<>> ELSE Wr!AddTurn(g[n - 1], s[n])
  BY <1>5, <1>10 DEF IsAdded
<1>12. g[0] = <<>>
  BY <1>11
<1>13. \A n \in 1..N : g[n] = Wr!AddTurn(g[n - 1], s[n])
  <2>1. \A n \in 1..N : n \in 0..N /\ n # 0
    OBVIOUS
  <2> QED
    BY <1>11, <2>1
<1>14. Wr!ClaudeTurns = g[Len(s)]
  BY <1>9, ClaudeIs
<1> QED
  BY <1>5, <1>12, <1>13, <1>14

LEMMA OneMore ==
    ASSUME WrInv, NEW A, NEW R, A = Wanted(Wr!Kinds), R = Roles,
           NEW T \in SUBSET Int, NEW e \in DOMAIN messages, PartsOf(e, Wr!Kinds) # {},
           \A i \in T : i < e, NEW d, Good(d, A, T, R), NEW t, t = Wr!AddTurn(d, e)
    PROVE  Good(t, A, T \cup {e}, R) /\ Ends(t, A, e)
<1>1. PICK B : B = Wr!Blocks(e)
  OBVIOUS
<1>2. PICK r : r = messages[e].role
  OBVIOUS
<1>3. IsOf(B, e, A[e]) /\ r \in {"user", "assistant"} /\ r = R[e] /\ e \in Int
  BY <1>1, <1>2, BlocksAre, MessageIs DEF Wanted, Roles
<1>4. B # <<>>
  <2>1. IsOf(B, e, PartsOf(e, Wr!Kinds))
    BY <1>1, BlocksAre
  <2> QED
    BY <2>1, IsOfSet
<1>5. CASE d # <<>> /\ d[Len(d)].role = r
  <2>1. t = Merged(d, B)
    BY <1>1, <1>2, <1>5, AddTurnMerges
  <2> QED
    BY <1>3, <1>4, <1>5, <2>1, MergeGood
<1>6. CASE ~(d # <<>> /\ d[Len(d)].role = r)
  <2>1. t = Append(d, [role |-> r, parts |-> B])
    BY <1>1, <1>2, <1>6, AddTurnAppends
  <2> QED
    BY <1>3, <1>4, <1>6, <2>1, AppendGood
<1> QED
  BY <1>5, <1>6

LEMMA ClaudeGood ==
    ASSUME WrInv, NEW s, s = Wr!SplitSystem, NEW A, NEW R, A = Wanted(Wr!Kinds), R = Roles
    PROVE  /\ Good(Wr!ClaudeTurns, A, {s[j] : j \in 1..Len(s)}, R)
           /\ Len(s) > 0 => Ends(Wr!ClaudeTurns, A, s[Len(s)])
<1>1. /\ s \in Seq(Int) /\ Len(s) \in Nat /\ Increasing(s)
      /\ \A j \in 1..Len(s) : s[j] \in DOMAIN messages /\ PartsOf(s[j], Wr!Kinds) # {}
  BY SplitSystemIs
<1>2. PICK g : /\ Wr!ClaudeTurns = g[Len(s)] /\ g[0] = <<>>
               /\ \A n \in 1..Len(s) : g[n] = Wr!AddTurn(g[n - 1], s[n])
  BY ClaudeRuns
<1>3. PICK N \in Nat : N = Len(s)
  BY <1>1
<1> DEFINE T(n) == {s[j] : j \in 1..n}
           Holds(n) == Good(g[n], A, T(n), R) /\ (n > 0 => Ends(g[n], A, s[n]))
           Bad == {n \in 0..N : ~Holds(n)}
<1>4. Holds(0)
  <2>1. T(0) = {}
    OBVIOUS
  <2>2. <<>> \in Seq(TurnRec) /\ DOMAIN <<>> = {} /\ Len(<<>>) = 0
    OBVIOUS
  <2>a. PICK z : z = <<>>
    OBVIOUS
  <2>b. z \in Seq(TurnRec) /\ DOMAIN z = {} /\ Len(z) = 0
    BY <2>2, <2>a
  <2>3. Bears(z, A, {}, R)
    BY <2>b DEF Bears
  <2>4. Alternate(z) /\ \A k \in 1..Len(z) : z[k].parts # <<>>
    BY <2>b DEF Alternate
  <2>5. Good(z, A, {}, R)
    BY <2>b, <2>3, <2>4 DEF Good
  <2>6. g[0] = z
    BY <1>2, <2>a
  <2> HIDE DEF T
  <2> QED
    BY <2>1, <2>5, <2>6
<1>5. ASSUME NEW n \in 1..N, Holds(n - 1) PROVE Holds(n)
  <2>1. PICK m \in Nat : m = n - 1 /\ n = m + 1
    OBVIOUS
  <2>2. PICK S : S = T(m)
    OBVIOUS
  <2>3. s[n] \in DOMAIN messages /\ PartsOf(s[n], Wr!Kinds) # {} /\ n \in 1..Len(s)
    BY <1>1, <1>3
  <2>4. \A j \in 1..m : j \in 1..Len(s) /\ j < n
    BY <1>3, <2>1
  <2>5. \A j \in 1..m : s[j] \in Int /\ s[j] < s[n]
    <3>1. \A j \in 1..Len(s) : s[j] \in Int
      BY <1>1
    <3>2. \A j \in 1..m : s[j] < s[n]
      BY <1>1, <2>3, <2>4 DEF Increasing
    <3> QED
      BY <2>4, <3>1, <3>2
  <2>6. S \in SUBSET Int /\ \A i \in S : i < s[n]
    BY <2>2, <2>5
  <2>7. T(n) = S \cup {s[n]}
    <3>1. 1..n = (1..m) \cup {n}
      BY <2>1
    <3> QED
      BY <2>2, <3>1
  <2>8. Good(g[m], A, S, R) /\ g[n] = Wr!AddTurn(g[m], s[n])
    BY <1>2, <1>5, <2>1, <2>2, <2>3
  <2> HIDE DEF T
  <2>9. Good(g[n], A, S \cup {s[n]}, R) /\ Ends(g[n], A, s[n])
    BY <2>3, <2>6, <2>8, OneMore
  <2> QED
    BY <2>7, <2>9
<1> HIDE DEF Holds
<1>6. Bad = {}
  <2> SUFFICES ASSUME Bad # {} PROVE FALSE
    OBVIOUS
  <2>1. PICK n \in Bad : \A m \in Bad : n <= m
    <3>1. Bad \subseteq Nat
      OBVIOUS
    <3> HIDE DEF Bad
    <3> QED
      BY <3>1, LeastNumber
  <2>2. n \in 0..N /\ ~Holds(n)
    OBVIOUS
  <2>3. n \in 1..N /\ n - 1 \in 0..N /\ ~(n <= n - 1)
    BY <1>4, <2>2
  <2>4. n - 1 \notin Bad
    BY <2>1, <2>3
  <2>5. Holds(n - 1)
    BY <2>3, <2>4
  <2> QED
    BY <1>5, <2>2, <2>3, <2>5
<1>7. Holds(N)
  BY <1>6
<1> QED
  BY <1>2, <1>3, <1>7 DEF Holds

\* A list of turns none of which is empty.
Filled(t) == \E l \in Nat : /\ DOMAIN t = 1..l /\ t = [k \in 1..l |-> t[k]]
                            /\ \A k \in 1..l : t[k].parts # <<>>

LEMMA FilledSeq ==
    ASSUME NEW t, Filled(t), NEW X, \A k \in DOMAIN t : t[k] \in X
    PROVE  t \in Seq(X)
<1>1. PICK l \in Nat : DOMAIN t = 1..l /\ t = [k \in 1..l |-> t[k]]
  BY DEF Filled
<1>2. t \in [1..l -> X]
  BY <1>1
<1> QED
  BY <1>2, SeqOfLength

LEMMA NoneIsEmpty ==
    ASSUME NEW a, NEW b, NEW c, Filled(a), Filled(b), Filled(c)
    PROVE  \A one \in Wr!ToSet(a \o b \o c) : one.parts # <<>>
<1> DEFINE X == {a[k] : k \in DOMAIN a} \cup {b[k] : k \in DOMAIN b} \cup {c[k] : k \in DOMAIN c}
<1>1. \A x \in X : x.parts # <<>>
  BY DEF Filled
<1>2. /\ \A k \in DOMAIN a : a[k] \in X
      /\ \A k \in DOMAIN b : b[k] \in X
      /\ \A k \in DOMAIN c : c[k] \in X
  OBVIOUS
<1> HIDE DEF X
<1>3. a \in Seq(X) /\ b \in Seq(X) /\ c \in Seq(X)
  BY <1>2, FilledSeq
<1>4. PICK s : s = a \o b \o c
  OBVIOUS
<1>5. s \in Seq(X)
  BY <1>3, <1>4
<1>6. \A k \in DOMAIN s : s[k] \in X
  BY <1>5
<1>7. Wr!ToSet(s) = {s[k] : k \in DOMAIN s}
  BY DEF Wr!ToSet
<1> QED
  BY <1>1, <1>4, <1>6, <1>7

\* The last message, when it has something, ends the list of those that have.
LEMMA LastIsKept ==
    ASSUME WrInv, Wr!IsSent, Wr!Last(messages).text \/ Wr!Last(messages).files # <<>>,
           NEW s, s = Wr!SplitSystem
    PROVE  /\ Len(s) \in Nat \ {0} /\ s[Len(s)] = Len(messages) /\ Len(messages) \in DOMAIN messages
           /\ (IF Wr!Last(messages).text THEN 0 ELSE 1) \in PartsOf(Len(messages), Wr!Kinds)
<1>1. messages \in Seq(Wr!Message) /\ messages # <<>>
  BY MessageIs DEF Wr!IsSent
<1>2. PICK L \in Nat : L = Len(messages) /\ L \in 1..L /\ DOMAIN messages = 1..L
  BY <1>1, NotEmpty
<1>3. Wr!Last(messages) = messages[L]
  BY <1>2 DEF Wr!Last
<1>4. (IF messages[L].text THEN 0 ELSE 1) \in PartsOf(L, Wr!Kinds)
  <2>1. CASE messages[L].text
    BY <2>1 DEF PartsOf, TextOf
  <2>2. CASE ~messages[L].text
    <3>1. messages[L].files \in Seq(Wr!Kinds) /\ messages[L].files # <<>>
      BY <1>2, <1>3, <2>2, MessageIs
    <3>2. PICK f : f = messages[L].files
      OBVIOUS
    <3>3. \E l \in Nat : l = Len(f) /\ l \in 1..l /\ DOMAIN f = 1..l
      BY <3>1, <3>2, NotEmpty
    <3>4. 1 \in DOMAIN f
      BY <3>3
    <3>5. f[1] \in Wr!Kinds
      BY <3>1, <3>2, <3>4
    <3> QED
      BY <2>2, <3>2, <3>4, <3>5 DEF PartsOf, FilesOf
  <2> QED
    BY <2>1, <2>2
<1>5. /\ s \in Seq(Int) /\ Len(s) \in Nat /\ Increasing(s)
      /\ \A j \in 1..Len(s) : s[j] \in 1..L
      /\ \E j \in 1..Len(s) : s[j] = L
  <2>1. PartsOf(L, Wr!Kinds) # {}
    BY <1>4
  <2> QED
    BY <1>2, <2>1, SplitSystemIs
<1>6. PICK N \in Nat : N = Len(s)
  BY <1>5
<1>7. PICK j \in 1..N : s[j] = L
  BY <1>5, <1>6
<1>8. N \in 1..N /\ N # 0
  OBVIOUS
<1>9. s[N] \in 1..L /\ s[j] \in Int
  BY <1>5, <1>6, <1>8
<1>10. j < N => L < s[N]
  BY <1>5, <1>6, <1>7, <1>8 DEF Increasing
<1>11. ~(L < s[N])
  BY <1>9
<1>12. j = N
  BY <1>10, <1>11
<1> QED
  BY <1>2, <1>3, <1>4, <1>6, <1>7, <1>8, <1>12

LEMMA WireIs ==
    ASSUME WrInv
    PROVE  Wr!OneConversation
<1>0. PICK s : s = Wr!SplitSystem
  OBVIOUS
<1>1. PICK A, R : A = Wanted(Wr!Kinds) /\ R = Roles
  OBVIOUS
<1>2. PICK o, c, g : o = Wr!OpenAIInput /\ c = Wr!ClaudeTurns /\ g = Wr!GeminiContents
  OBVIOUS
<1>3. PICK T : T = {s[j] : j \in 1..Len(s)}
  OBVIOUS
<1>4. Good(c, A, T, R) /\ (Len(s) > 0 => Ends(c, A, s[Len(s)]))
  BY <1>0, <1>1, <1>2, <1>3, ClaudeGood
<1>5. /\ Len(s) \in Nat
      /\ \A j \in 1..Len(s) : s[j] \in DOMAIN messages /\ PartsOf(s[j], Wr!Kinds) # {}
      /\ \A i \in DOMAIN messages : PartsOf(i, Wr!Kinds) # {} => \E j \in 1..Len(s) : s[j] = i
  BY <1>0, SplitSystemIs
<1>6. Covers(T, Wr!Kinds)
  BY <1>3, <1>5 DEF Covers
<1>7. Bears(c, A, T, R) /\ Alternate(c) /\ c \in Seq(TurnRec) /\ \A k \in 1..Len(c) : c[k].parts # <<>>
  BY <1>4 DEF Good
<1>8. Wr!Carries(c, Wr!Kinds)
  BY <1>1, <1>6, <1>7, CarriesAll
<1>9. Wr!Alternates
  BY <1>2, <1>7 DEF Alternate, Wr!Alternates
<1>10. /\ Wr!Carries(o, Wr!Kinds) /\ DOMAIN o = 1..Len(s) /\ o = [k \in 1..Len(s) |-> o[k]]
       /\ \A k \in 1..Len(s) : IsOf(o[k].parts, s[k], PartsOf(s[k], Wr!Kinds)) /\ o[k].parts # <<>>
  BY <1>0, <1>2, OpenAIIs
<1>11. /\ Wr!Carries(g, {"text", "image"}) /\ \E l \in Nat : g = [k \in 1..l |-> g[k]]
       /\ \A k \in DOMAIN g : g[k].parts # <<>>
  BY <1>2, GeminiIs
<1>12. Wr!IsCarried
  BY <1>2, <1>8, <1>10, <1>11 DEF Wr!IsCarried
<1>13. Filled(o)
  BY <1>5, <1>10 DEF Filled
<1>14. Filled(g)
  BY <1>11 DEF Filled
<1>15. Filled(c)
  <2>1. PICK l \in Nat : l = Len(c) /\ DOMAIN c = 1..l /\ c = [k \in 1..l |-> c[k]]
    BY <1>7
  <2> QED
    BY <1>7, <2>1 DEF Filled
<1>16. \A one \in Wr!ToSet(o \o c \o g) : one.parts # <<>>
  BY <1>13, <1>14, <1>15, NoneIsEmpty
<1>17. ASSUME Wr!IsSent, Wr!Last(messages).text \/ Wr!Last(messages).files # <<>>
       PROVE  \A sent \in {o, c} :
                 <<Len(messages), IF Wr!Last(messages).text THEN 0 ELSE 1>> \in Wr!ToSet(Wr!Last(sent).parts)
  <2>1. PICK L, a : L = Len(messages) /\ a = IF Wr!Last(messages).text THEN 0 ELSE 1
    OBVIOUS
  <2>2. Len(s) \in Nat \ {0} /\ s[Len(s)] = L /\ L \in DOMAIN messages /\ a \in PartsOf(L, Wr!Kinds)
    BY <1>0, <1>17, <2>1, LastIsKept
  <2>3. PICK N \in Nat : N = Len(s) /\ N \in 1..N /\ N > 0
    BY <2>2
  <2>4. <<L, a>> \in Wr!ToSet(Wr!Last(o).parts)
    <3>1. N = Len(o)
      <4>1. o \in [1..N -> {o[k] : k \in 1..N}]
        BY <1>10, <2>3
      <4> QED
        BY <4>1, SeqOfLength
    <3>2. Wr!Last(o) = o[N]
      BY <3>1 DEF Wr!Last
    <3>3. IsOf(o[N].parts, L, PartsOf(L, Wr!Kinds))
      BY <1>10, <2>2, <2>3
    <3>4. Wr!ToSet(o[N].parts) = {<<L, x>> : x \in PartsOf(L, Wr!Kinds)}
      BY <3>3, IsOfSet
    <3> QED
      BY <2>2, <3>2, <3>4
  <2>5. <<L, a>> \in Wr!ToSet(Wr!Last(c).parts)
    <3>1. Ends(c, A, L)
      BY <1>4, <2>2, <2>3
    <3>2. A[L] = PartsOf(L, Wr!Kinds)
      BY <1>1, <2>2 DEF Wanted
    <3>3. c # <<>> /\ \E x \in 1..Len(c[Len(c)].parts) : c[Len(c)].parts[x] = <<L, a>>
      BY <2>2, <3>1, <3>2 DEF Ends
    <3>4. PICK m \in Nat : m = Len(c) /\ m \in 1..m /\ DOMAIN c = 1..m
      BY <1>7, <3>3, NotEmpty
    <3>5. c[m] \in TurnRec
      BY <1>7, <3>4
    <3>6. c[m].parts \in Seq(Part)
      BY <3>5 DEF TurnRec
    <3>7. PICK q : q = c[m].parts
      OBVIOUS
    <3>8. DOMAIN q = 1..Len(q)
      BY <3>6, <3>7
    <3>9. <<L, a>> \in Wr!ToSet(q)
      BY <3>3, <3>4, <3>7, <3>8 DEF Wr!ToSet
    <3>10. Wr!Last(c) = c[m]
      BY <3>4 DEF Wr!Last
    <3> QED
      BY <3>7, <3>9, <3>10
  <2> QED
    BY <2>1, <2>4, <2>5
<1>18. Wr!PromptComesLast
  BY <1>2, <1>16, <1>17 DEF Wr!PromptComesLast
<1> QED
  BY <1>9, <1>12, <1>18 DEF Wr!OneConversation

LEMMA NoFiles ==
    ASSUME Wr!Assumptions
    PROVE  <<>> \in Wr!BoundedSeq(Wr!Kinds, MaxFiles)
<1>1. <<>> \in [1..0 -> Wr!Kinds] /\ 0 \in 0..MaxFiles
  BY DEF Wr!Assumptions
<1> QED
  BY <1>1 DEF Wr!BoundedSeq, Wr!SeqOf

LEMMA StoredIs ==
    ASSUME WrInv, Wr!Assumptions, NEW s, s = Wr!Stored
    PROVE  /\ s \in Seq(Wr!Message) /\ Len(s) = Len(messages)
           /\ \A i \in 1..Len(s) : s[i].files = <<>>
<1>1. PICK n \in Nat : n = Len(messages) /\ DOMAIN messages = 1..n
  BY MessageIs
<1>2. \A i \in 1..n : messages[i] \in Wr!Message
  BY <1>1, MessageIs
<1>3. \A m \in Wr!Message : [m EXCEPT !.files = <<>>] \in Wr!Message /\ [m EXCEPT !.files = <<>>].files = <<>>
  BY NoFiles DEF Wr!Message
<1>4. s = [i \in 1..n |-> [messages[i] EXCEPT !.files = <<>>]]
  BY <1>1 DEF Wr!Stored
<1>5. \A i \in 1..n : s[i] \in Wr!Message /\ s[i].files = <<>>
  BY <1>2, <1>3, <1>4
<1>6. s \in [1..n -> Wr!Message]
  BY <1>4, <1>5
<1>7. s \in Seq(Wr!Message) /\ Len(s) = n
  BY <1>6, SeqOfLength
<1>8. \A i \in 1..Len(s) : s[i].files = <<>>
  BY ZenonT(60), <1>5, <1>7
<1>9. Len(s) = Len(messages)
  BY <1>1, <1>7
<1> QED
  BY ZenonT(60), <1>7, <1>8, <1>9

\* A message is added to the stored ones.
LEMMA AddedInv ==
    ASSUME WrInv, Wr!Assumptions, Len(messages) < MaxMessages,
           NEW m \in Wr!Message, m.files # <<>> => m.role = "user", messages' = Append(Wr!Stored, m)
    PROVE  WrInv'
<1>1. PICK s : s = Wr!Stored
  BY ZenonT(60)
<1>2. PICK n \in Nat : n = Len(messages)
  BY MessageIs
<1>3. s \in Seq(Wr!Message) /\ Len(s) = n /\ \A i \in 1..n : s[i].files = <<>>
  BY <1>1, <1>2, StoredIs
<1>4. PICK t : t = Append(s, m)
  BY ZenonT(60)
<1>5. t \in Seq(Wr!Message) /\ Len(t) = n + 1 /\ t[n + 1] = m /\ \A i \in 1..n : t[i] = s[i]
  BY <1>3, <1>4, AppendProperties
<1>6. DOMAIN t = 1..(n + 1)
  BY <1>5
<1>7. \A i \in 1..(n + 1) : i \in 1..n \/ i = n + 1
  OBVIOUS
<1>8. \A i \in DOMAIN t : t[i].files # <<>> => i = Len(t) /\ t[i].role = "user"
  BY <1>3, <1>5, <1>6, <1>7
<1>9. Len(t) <= MaxMessages
  BY <1>2, <1>5 DEF Wr!Assumptions
<1>10. messages' = t
  BY <1>1, <1>4
<1> QED
  BY <1>5, <1>8, <1>9, <1>10 DEF WrInv, Wr!TypeOK

LEMMA WrStep ==
    ASSUME WrInv, Wr!Assumptions, Wr!Next
    PROVE  WrInv'
<1>1. ASSUME NEW text \in BOOLEAN, NEW files \in Wr!BoundedSeq(Wr!Kinds, MaxFiles), Wr!Ask(text, files)
      PROVE  WrInv'
  <2>1. PICK m : m = [role |-> "user", text |-> text, files |-> files]
    OBVIOUS
  <2>2. m \in Wr!Message /\ m.role = "user"
    BY <2>1 DEF Wr!Message
  <2> QED
    BY <1>1, <2>1, <2>2, AddedInv DEF Wr!Ask
<1>2. CASE Wr!Answer
  <2>1. PICK m : m = [role |-> "assistant", text |-> TRUE, files |-> <<>>]
    OBVIOUS
  <2>2. m \in Wr!Message /\ m.files = <<>>
    BY <2>1, NoFiles DEF Wr!Message
  <2> QED
    BY <1>2, <2>1, <2>2, AddedInv DEF Wr!Answer
<1>3. CASE Wr!Regenerate
  <2>1. PICK s : s = Wr!Stored
    OBVIOUS
  <2>2. PICK n \in Nat : n = Len(messages) /\ DOMAIN messages = 1..n /\ n <= MaxMessages
    BY MessageIs DEF WrInv, Wr!TypeOK
  <2>3. s \in Seq(Wr!Message) /\ Len(s) = n /\ \A i \in 1..n : s[i].files = <<>>
    BY <2>1, <2>2, StoredIs
  <2>4. PICK S : S = {i \in DOMAIN messages : messages[i].role = "user"}
    OBVIOUS
  <2>5. S # {} /\ S \subseteq 1..n
    BY <1>3, <2>2, <2>4 DEF Wr!Regenerate
  <2>6. \E x \in S : \A y \in S : y <= x
    BY <2>5, LastNumber
  <2>7. \E x \in S : \A y \in S : x >= y
    <3>1. \A x \in S : x \in Int
      BY <2>5
    <3> QED
      BY <2>6, <3>1
  <2>8. PICK l : l = Wr!LastPrompt
    OBVIOUS
  <2>9. l \in S
    BY <2>4, <2>7, <2>8 DEF Wr!LastPrompt, Wr!Max
  <2>10. l \in 1..n
    BY <2>5, <2>9
  <2>11. PICK t : t = SubSeq(s, 1, l)
    OBVIOUS
  <2>12. /\ t \in Seq(Wr!Message) /\ Len(t) = l /\ DOMAIN t = 1..l
         /\ \A i \in 1..l : t[i] = s[i]
    BY <2>3, <2>10, <2>11
  <2>13. \A i \in DOMAIN t : t[i].files = <<>>
    <3>1. \A i \in 1..l : i \in 1..n
      BY <2>10
    <3> QED
      BY <2>3, <2>12, <3>1
  <2>14. Len(t) <= MaxMessages
    BY <2>2, <2>10, <2>12 DEF Wr!Assumptions
  <2>15. messages' = t
    BY <1>3, <2>1, <2>8, <2>11 DEF Wr!Regenerate
  <2> QED
    BY <2>12, <2>13, <2>14, <2>15 DEF WrInv, Wr!TypeOK
<1>4. CASE Wr!Pass
  <2>1. messages \in Seq(Wr!Message) /\ Len(messages) \in Nat /\ Len(messages) > 1
    BY <1>4, MessageIs DEF Wr!Pass
  <2>2. messages' = Tail(messages) /\ Len(messages) <= MaxMessages /\ MaxMessages \in Nat
    BY <1>4 DEF Wr!Pass, WrInv, Wr!TypeOK, Wr!Assumptions
  <2>3. /\ messages' \in Seq(Wr!Message) /\ Len(messages') = Len(messages) - 1
        /\ \A i \in DOMAIN messages' : i + 1 \in DOMAIN messages /\ messages'[i] = messages[i + 1]
    BY <2>1, <2>2
  <2>4. ASSUME NEW i \in DOMAIN messages', messages'[i].files # <<>>
        PROVE  i = Len(messages') /\ messages'[i].role = "user"
    <3>1. i \in 1..Len(messages')
      BY <2>3
    <3>2. i + 1 \in DOMAIN messages /\ messages[i + 1].files # <<>> /\ messages'[i] = messages[i + 1]
      BY <2>3, <2>4
    <3>3. i + 1 = Len(messages) /\ messages[i + 1].role = "user"
      BY <3>2 DEF WrInv, Wr!TypeOK
    <3> QED
      BY <2>1, <2>3, <3>1, <3>2, <3>3
  <2> QED
    BY <2>1, <2>2, <2>3, <2>4 DEF WrInv, Wr!TypeOK
<1> QED
  BY <1>1, <1>2, <1>3, <1>4 DEF Wr!Next

LEMMA WrStill ==
    ASSUME WrInv, UNCHANGED messages
    PROVE  WrInv'
<1>1. WrInv' <=> WrInv
  BY DEF WrInv, Wr!TypeOK
<1> QED
  BY <1>1

LEMMA WrInit ==
    ASSUME Wr!Init, Wr!Assumptions
    PROVE  WrInv
<1>1. <<>> \in Seq(Wr!Message) /\ Len(<<>>) = 0 /\ DOMAIN <<>> = {}
  OBVIOUS
<1>2. 0 <= MaxMessages
  BY DEF Wr!Assumptions
<1>3. messages \in Seq(Wr!Message) /\ Len(messages) = 0 /\ DOMAIN messages = {}
  BY <1>1 DEF Wr!Init
<1> QED
  BY <1>2, <1>3 DEF WrInv, Wr!TypeOK

-----------------------------------------------------------------------------
(* Types: what the invariants above leave out of TypeOK.                   *)

\* Routing: a turn has one to three registered models, and a reason for each.
Reasons == DOMAIN Rt!RoutingDefaults \cup {"pinned"}

RtType ==
    /\ routing \in {"idle", "resolve", "label", "answered", "refused"}
    /\ payload \in Rt!Payloads /\ routed \in Rt!Prompts /\ labelled \in Rt!Prompts
    /\ models \in Seq(Rt!RegisteredIds) /\ Len(models) <= 3
    /\ reasons \in Seq(Reasons) /\ Len(reasons) \in {0, Len(models)}
    /\ routing \in {"idle", "resolve"} => Len(reasons) = 0

LEMMA NothingAsked ==
    ASSUME Rt!Assumptions
    PROVE  Rt!NoPayload \in Rt!Payloads /\ Rt!NoPrompt \in Rt!Prompts
<1>1. Rt!NoPayload \in Rt!Payloads
  BY DEF Rt!Assumptions, Rt!NoPayload, Rt!Payloads, Rt!Lists
<1>2. [f \in Rt!Families |-> 0] \in [Rt!Families -> 0..MaxScore]
  BY DEF Rt!Assumptions
<1>3. Rt!NoPrompt \in [chars : Chars, score : [Rt!Families -> 0..MaxScore]]
  BY <1>2 DEF Rt!Assumptions, Rt!NoPrompt
<1>4. \A f \in Rt!Families : Rt!NoPrompt.score[f] = 0
  BY DEF Rt!NoPrompt
<1> QED
  BY <1>1, <1>3, <1>4 DEF Rt!Prompts

\* A supported id has a specification, and that is registered.
LEMMA ResolvedIsRegistered ==
    ASSUME NEW m, Rt!IsSupported(m)
    PROVE  Rt!Resolved(m) \in Rt!RegisteredIds
<1>1. \E spec \in Rt!Registry : spec.id = Rt!ResolveModelId(m)
  BY DEF Rt!IsSupported, Rt!RegisteredIds
<1>2. Rt!GetSpec(m) \in Rt!Registry
  BY <1>1 DEF Rt!GetSpec
<1> QED
  BY <1>2 DEF Rt!Resolved, Rt!RegisteredIds

LEMMA DefaultsAreRegistered ==
    ASSUME NEW p
    PROVE  /\ Rt!Intent(p) \in DOMAIN Rt!RoutingDefaults
           /\ Rt!RoutingDefaults[Rt!Intent(p)] \in Rt!RegisteredIds
<1>1. Rt!Intent(p) \in {"coding", "long_context", "data", "reasoning", "creative", "fast", "default"}
  BY IntentIs
<1>2. DOMAIN Rt!RoutingDefaults =
          {"coding", "long_context", "data", "reasoning", "creative", "fast", "default"}
  BY DEF Rt!RoutingDefaults
<1>3. {"claude-opus-5", "gpt-5.5", "gemini-3.1-pro-preview", "claude-sonnet-5", "gemini-3.8-flash"}
          \subseteq Rt!RegisteredIds
  BY DEF Rt!RegisteredIds, Rt!Registry, Rt!ModelSpec
<1>4. \A i \in DOMAIN Rt!RoutingDefaults : Rt!RoutingDefaults[i] \in
          {"claude-opus-5", "gpt-5.5", "gemini-3.1-pro-preview", "claude-sonnet-5", "gemini-3.8-flash"}
  BY <1>2 DEF Rt!RoutingDefaults
<1> QED
  BY <1>1, <1>2, <1>3, <1>4

LEMMA NamedAre ==
    ASSUME NEW p \in Rt!Payloads
    PROVE  \E l \in 1..3 : DOMAIN Rt!Named(p) = 1..l
<1>1. p.models \in Rt!Lists
  BY DEF Rt!Payloads
<1>2. CASE p.models = <<>>
  <2>1. Rt!Named(p) = <<p.model>>
    BY <1>2 DEF Rt!Named
  <2> QED
    BY <2>1
<1>3. CASE p.models # <<>>
  <2>1. PICK ms : ms = p.models
    OBVIOUS
  <2>2. ms \in [1..2 -> Asked] \/ ms \in [1..3 -> Asked]
    BY <1>1, <1>3, <2>1 DEF Rt!Lists
  <2>3. Rt!Named(p) = ms
    BY <1>3, <2>1 DEF Rt!Named
  <2> QED
    BY <2>2, <2>3
<1> QED
  BY <1>2, <1>3

LEMMA ResolveType ==
    ASSUME RtType, Rt!Resolve
    PROVE  RtType'
<1>1. /\ payload \in Rt!Payloads /\ payload' = payload /\ routed' = routed
      /\ labelled' = labelled /\ reasons' = reasons /\ routing' = "label" /\ Len(reasons) = 0
  BY DEF Rt!Resolve, RtType
<1>2. models' \in Seq(Rt!RegisteredIds) /\ Len(models') <= 3
  <2>1. CASE Rt!IsAuto(payload)
    <3>1. PICK d \in Rt!RegisteredIds : d = Rt!RoutingDefaults[Rt!Intent(routed)]
      BY DefaultsAreRegistered
    <3>2. models' = <<d>>
      BY <2>1, <3>1 DEF Rt!Resolve
    <3> QED
      BY <3>2
  <2>2. CASE ~Rt!IsAuto(payload)
    <3>0. PICK named : named = Rt!Named(payload)
      OBVIOUS
    <3>1. PICK l \in 1..3 : named = Rt!Named(payload) /\ DOMAIN named = 1..l
      BY <1>1, <3>0, NamedAre
    <3>2. models' = [i \in 1..l |-> Rt!Resolved(named[i])]
      BY <2>2, <3>1 DEF Rt!Resolve
    <3>3. \A i \in 1..l : Rt!Resolved(named[i]) \in Rt!RegisteredIds
      BY <2>2, <3>1, ResolvedIsRegistered DEF Rt!Resolve
    <3>4. models' \in [1..l -> Rt!RegisteredIds]
      BY <3>2, <3>3
    <3>5. models' \in Seq(Rt!RegisteredIds) /\ Len(models') = l
      BY <3>4, SeqOfLength
    <3> QED
      BY <3>5
  <2> QED
    BY <2>1, <2>2
<1> QED
  BY <1>1, <1>2 DEF RtType

LEMMA LabelType ==
    ASSUME RtType, NEW q \in Rt!Prompts, Rt!Label(q)
    PROVE  RtType'
<1>1. PICK l \in Nat : l = Len(models) /\ DOMAIN models = 1..l
  BY DEF RtType
<1>2. PICK why : why = IF Rt!IsAuto(payload) THEN Rt!Intent(q) ELSE "pinned"
  OBVIOUS
<1>3. why \in Reasons
  BY <1>2, DefaultsAreRegistered DEF Reasons
<1>4. reasons' = [i \in 1..l |-> why]
  BY <1>1, <1>2 DEF Rt!Label
<1>5. reasons' \in [1..l -> Reasons]
  BY <1>3, <1>4
<1>6. reasons' \in Seq(Reasons) /\ Len(reasons') = l
  BY <1>5, SeqOfLength
<1>7. /\ payload' = payload /\ routed' = routed /\ models' = models /\ labelled' = q
      /\ routing' = "answered"
  BY DEF Rt!Label
<1> QED
  BY <1>1, <1>6, <1>7 DEF RtType

LEMMA RtTypeStep ==
    ASSUME Rt!Assumptions, RtType, Rt!Next
    PROVE  RtType'
<1>1. ASSUME NEW p \in Rt!Payloads, NEW q \in Rt!Prompts, routing = "idle", Rt!Receive(p, q)
      PROVE  RtType'
  BY <1>1 DEF Rt!Receive, RtType
<1>2. CASE Rt!Resolve
  BY <1>2, ResolveType
<1>3. CASE Rt!Refuse
  BY <1>3 DEF Rt!Refuse, RtType
<1>4. ASSUME NEW q \in Rt!Reread, Rt!Label(q)
      PROVE  RtType'
  <2>1. q \in Rt!Prompts
    BY DEF Rt!Reread, RtType
  <2> QED
    BY <1>4, <2>1, LabelType
<1>5. CASE Rt!Again
  <2>1. /\ routing' = "idle" /\ payload' = Rt!NoPayload /\ routed' = Rt!NoPrompt
        /\ labelled' = Rt!NoPrompt /\ models' = <<>> /\ reasons' = <<>>
    BY <1>5 DEF Rt!Again
  <2>2. <<>> \in Seq(Rt!RegisteredIds) /\ <<>> \in Seq(Reasons) /\ Len(<<>>) = 0
    OBVIOUS
  <2> QED
    BY <2>1, <2>2, NothingAsked DEF RtType
<1> QED
  BY <1>1, <1>2, <1>3, <1>4, <1>5 DEF Rt!Next

LEMMA RtTypeInit ==
    ASSUME Rt!Assumptions, Rt!Init
    PROVE  RtType
<1>1. <<>> \in Seq(Rt!RegisteredIds) /\ <<>> \in Seq(Reasons) /\ Len(<<>>) = 0
  OBVIOUS
<1> QED
  BY <1>1, NothingAsked DEF RtType, Rt!Init

LEMMA RtTyped ==
    ASSUME RtType
    PROVE  Rt!TypeOK
<1>1. PICK ms, why : ms = models /\ why = reasons
  OBVIOUS
<1>2. /\ ms \in Seq(Rt!RegisteredIds) /\ Len(ms) <= 3
      /\ why \in Seq(Reasons) /\ Len(why) \in {0, Len(ms)}
  BY <1>1 DEF RtType
<1>3. Len(ms) \in 0..3
  <2>1. PICK l \in Nat : l = Len(ms)
    BY <1>2
  <2>2. l <= 3
    BY <1>2, <2>1
  <2> QED
    BY <2>1, <2>2
<1>4. \A i \in DOMAIN ms : ms[i] \in Rt!RegisteredIds
  BY <1>2
<1>5. \A i \in DOMAIN why : why[i] \in DOMAIN Rt!RoutingDefaults \cup {"pinned"}
  BY <1>2 DEF Reasons
<1>6. /\ routing \in {"idle", "resolve", "label", "answered", "refused"}
      /\ payload \in Rt!Payloads /\ routed \in Rt!Prompts /\ labelled \in Rt!Prompts
  BY DEF RtType
<1> QED
  BY <1>1, <1>2, <1>3, <1>4, <1>5, <1>6 DEF Rt!TypeOK

\* Generation.
GenType == stopped \in BOOLEAN

LEMMA GenTypeStep ==
    ASSUME GenType, Gen!Next
    PROVE  GenType'
<1>1. ASSUME NEW i \in DOMAIN slots,
             Gen!FallBack(i) \/ Gen!Fail(i) \/ Gen!Interrupt(i) \/ Gen!Settle(i)
      PROVE  stopped' = stopped
  BY <1>1 DEF Gen!FallBack, Gen!Fail, Gen!Interrupt, Gen!Settle
<1>2. ASSUME NEW i, NEW chars, NEW prompt, NEW name,
             \/ Gen!Produce(i, chars)
             \/ Gen!Complete(i, prompt, chars, name) \/ Gen!Decline(i, prompt, chars, name)
      PROVE  stopped' = stopped
  BY <1>2 DEF Gen!Produce, Gen!Complete, Gen!Decline
<1>3. ASSUME NEW t, Gen!Plan(t) PROVE stopped' = stopped
  BY <1>3 DEF Gen!Plan
<1>4. Gen!Stop => stopped' = TRUE
  BY DEF Gen!Stop
<1>5. Gen!Finished => stopped' = FALSE
  BY DEF Gen!Finished
<1> QED
  BY <1>1, <1>2, <1>3, <1>4, <1>5 DEF Gen!Next, GenType

\* What is charged has text, and so a price.
LEMMA GenTyped ==
    ASSUME ContentsAssumption, GenInv, GenType
    PROVE  Gen!TypeOK
<1>1. ASSUME NEW i \in DOMAIN slots
      PROVE  /\ slots[i].state \in Gen!SlotStates /\ slots[i].finish \in Gen!FinishReasons
             /\ slots[i].text \in Nat /\ slots[i].tokens <= slots[i].max
             /\ slots[i].text > 0 => slots[i].tokens > 0
             /\ slots[i].max >= 512 /\ slots[i].max <= Gen!GetSpec(turn.models[i]).maxOutput
             /\ slots[i].serving \in Gen!RegisteredIds
             /\ slots[i].served \in Gen!RegisteredIds \cup {"none", "unregistered"}
             /\ slots[i].state = "charged" <=> slots[i].cost > 0
  <2>1. PICK sl \in GenSlot, m \in Gen!RegisteredIds :
            sl = slots[i] /\ m = turn.models[i] /\ SlotIs(sl, m) /\ InShare(sl, m, turn)
    BY SlotOf
  <2>2. sl.max \in Nat /\ 512 <= sl.max /\ sl.max <= Gen!GetSpec(m).maxOutput
    BY <2>1 DEF InShare, GenSlot
  <2>3. sl.text \in Nat /\ sl.tokens <= sl.max /\ (sl.text > 0 => sl.tokens > 0)
    BY <2>1 DEF SlotIs, GenSlot
  <2>4. ASSUME sl.state = "charged" PROVE sl.cost > 0
    <3>1. sl.billed \in Gen!RegisteredIds
      BY <2>1, <2>4, BilledIs
    <3>2. PICK a \in Nat, o \in Nat \ {0} : a = In(sl.billed) /\ o = Out(sl.billed)
      BY <3>1, RatesAre
    <3>3. PICK p \in Nat, c \in Nat, x \in Nat : p = sl.prompt /\ c = sl.completion /\ x = sl.text
      BY DEF GenSlot
    <3>4. c >= 1
      <4>1. x > 0 /\ sl.tokens > 0 /\ c \in {sl.tokens, Guess(x)}
        BY <2>1, <2>4, <3>3 DEF SlotIs
      <4>2. Guess(x) > 0
        BY <4>1, GuessIs
      <4> QED
        BY <4>1, <4>2
    <3>5. 1 * o <= c * o
      BY <3>4, TimesGrows
    <3>6. p * a \in Nat /\ c * o \in Nat
      OBVIOUS
    <3>7. sl.cost = p * a + c * o
      BY <2>1, <2>4, <3>2, <3>3 DEF SlotIs
    <3> QED
      BY <3>5, <3>6, <3>7
  <2>5. ASSUME sl.state # "charged" PROVE sl.cost = 0
    BY <2>1, <2>5 DEF SlotIs
  <2>6. 512 <= sl.max => sl.max >= 512
    BY <2>2
  <2>7. sl.state = "charged" <=> sl.cost > 0
    BY <2>4, <2>5
  <2> QED
    BY <2>1, <2>2, <2>3, <2>6, <2>7 DEF GenSlot
<1>2. Len(slots) \in {0, Len(turn.models)}
  <2>1. CASE slots = <<>>
    BY <2>1
  <2>2. CASE turn \in Gen!Turns /\ slots \in [DOMAIN turn.models -> GenSlot]
    <3>1. PICK n \in Nat : n = Len(turn.models) /\ DOMAIN turn.models = 1..n
      BY <2>2, TurnIs
    <3>2. slots \in [1..n -> GenSlot]
      BY <2>2, <3>1
    <3>3. Len(slots) = n
      BY <3>2, SeqOfLength
    <3> QED
      BY <3>1, <3>3
  <2> QED
    BY <2>1, <2>2 DEF GenInv
<1>3. turn \in Gen!Turns \cup {Gen!NoTurn} /\ stopped \in BOOLEAN
  BY DEF GenInv, GenType
<1> QED
  BY <1>1, <1>2, <1>3 DEF Gen!TypeOK

\* Media prices: nothing that is accepted is free.
MpType ==
    /\ pc \in {"idle", "refused", "queued", "delivered", "refunded"}
    /\ spoken \in Nat /\ spoken <= 4096
    /\ pc \in {"queued", "delivered"} => request \in Mp!ImageRequests \cup Mp!SpokenRequests

LEMMA ImagesCost ==
    ASSUME NEW r, Mp!ValidOptions(r)
    PROVE  Mp!ImageCost(r) \in Nat \ {0}
<1>1. PICK m, q, s : m = r.model /\ q = r.quality /\ s = r.size
  OBVIOUS
<1>2. m \in Mp!ImageModels /\ q \in Mp!Qualities(m) /\ s \in DOMAIN Mp!ImagePrices[m][q]
  BY <1>1 DEF Mp!ValidOptions
<1>3. ASSUME NEW a \in Nat \ {0}, NEW b \in Nat \ {0}, NEW z \in Mp!OpenAISizes
      PROVE  Mp!OpenAIPrices(a, b)[z] \in Nat \ {0}
  BY DEF Mp!OpenAIPrices
<1>4. ASSUME NEW a \in Nat \ {0}, NEW z \in Mp!GoogleSizes
      PROVE  Mp!Flat(a)[z] \in Nat \ {0}
  BY DEF Mp!Flat
<1>5. PICK price \in Nat \ {0} : price = Mp!ImagePrices[m][q][s]
  <2>1. CASE m \in {"gpt-image-2", "gpt-image-1.5"}
    <3>1. s \in Mp!OpenAISizes
      BY <1>2, <2>1, ModelsAre
    <3>2. ASSUME NEW o, o = [low |-> Mp!OpenAIPrices(6, 9), medium |-> Mp!OpenAIPrices(53, 79),
                             high |-> Mp!OpenAIPrices(211, 316)],
                 NEW y \in DOMAIN o
          PROVE  o[y][s] \in Nat \ {0}
      BY <1>3, <3>1, <3>2
    <3>3. ASSUME NEW o, o = [low |-> Mp!OpenAIPrices(9, 13), medium |-> Mp!OpenAIPrices(34, 50),
                             high |-> Mp!OpenAIPrices(133, 200)],
                 NEW y \in DOMAIN o
          PROVE  o[y][s] \in Nat \ {0}
      BY <1>3, <3>1, <3>3
    <3>4. CASE m = "gpt-image-2"
      <4>1. Mp!ImagePrices[m] = [low |-> Mp!OpenAIPrices(6, 9), medium |-> Mp!OpenAIPrices(53, 79),
                                 high |-> Mp!OpenAIPrices(211, 316)]
        BY <3>4 DEF Mp!ImagePrices
      <4> QED
        BY <1>2, <3>2, <4>1 DEF Mp!Qualities
    <3>5. CASE m = "gpt-image-1.5"
      <4>1. Mp!ImagePrices[m] = [low |-> Mp!OpenAIPrices(9, 13), medium |-> Mp!OpenAIPrices(34, 50),
                                 high |-> Mp!OpenAIPrices(133, 200)]
        BY <3>5 DEF Mp!ImagePrices
      <4> QED
        BY <1>2, <3>3, <4>1 DEF Mp!Qualities
    <3> QED
      BY <2>1, <3>4, <3>5
  <2>2. CASE m \in {"gemini-3.1-flash-image", "gemini-3-pro-image"}
    <3>1. s \in Mp!GoogleSizes
      BY <1>2, <2>2, ModelsAre
    <3>2. \E a \in Nat \ {0} : Mp!ImagePrices[m][q] = Mp!Flat(a)
      BY <1>2, <2>2 DEF Mp!Qualities, Mp!ImagePrices
    <3> QED
      BY <1>4, <3>1, <3>2
  <2> QED
    BY <1>2, <2>1, <2>2, ModelsAre
<1>6. Mp!ImageCost(r) = price * 40000
  BY <1>1, <1>5 DEF Mp!ImageCost, Mp!UsdToCredits
<1> QED
  BY <1>6

LEMMA SpeechCosts ==
    ASSUME ContentsAssumption, NEW r \in Mp!SpokenRequests
    PROVE  /\ Mp!SpeechCost(r) \in Nat
           /\ Mp!PromptChars(r) > 0 => Mp!SpeechCost(r) > 0
<1>1. PICK n \in Nat : n = Mp!PromptChars(r)
  BY CharsAre
<1>2. PICK rate \in Nat \ {0} : rate = Mp!CostPerChar(r.voice)
  <2>1. Mp!CostPerChar(r.voice) \in {16, 17, 30}
    BY DEF Mp!CostPerChar
  <2> QED
    BY <2>1
<1>3. PICK x \in Nat : x = n * rate /\ (n > 0 => x > 0)
  <2>1. n > 0 => 1 * rate <= n * rate
    BY TimesGrows
  <2>2. n * rate \in Nat
    OBVIOUS
  <2> QED
    BY <2>1, <2>2
<1>4. Mp!SpeechCost(r) = x * 40
  BY <1>1, <1>2, <1>3 DEF Mp!SpeechCost
<1> QED
  BY <1>1, <1>3, <1>4

LEMMA VideosCost ==
    ASSUME NEW chars \in Nat
    PROVE  Mp!VideoCost(chars) \in Nat \ {0}
<1>1. PICK b : b = Mp!Blocks(chars)
  OBVIOUS
<1>2. b \in Nat
  BY <1>1, BlocksCover
<1>3. b >= 1
  <2>1. PICK s \in Nat : s = Mp!EstimateDuration(chars)
    <3>1. PICK q \in Nat : q = (chars + 14) \div 15
      OBVIOUS
    <3>2. Mp!EstimateDuration(chars) = Greatest({15, q})
      BY <3>1 DEF Mp!EstimateDuration, Mp!Max, Greatest
    <3> QED
      BY <3>2, GreatestOfTwo
  <2>2. PICK d \in Nat : d = (s + 14) \div 15
    OBVIOUS
  <2>3. b = Greatest({1, d})
    BY <1>1, <2>1, <2>2 DEF Mp!Blocks, Mp!Max, Greatest
  <2> QED
    BY <2>3, GreatestOfTwo
<1>4. Mp!VideoCost(chars) = b * 4000000
  BY <1>1, <1>2 DEF Mp!VideoCost, Mp!UsdToCredits, Mp!PricePerBlock
<1> QED
  BY <1>2, <1>3, <1>4

LEMMA NothingIsFree ==
    ASSUME ContentsAssumption, NEW r \in Mp!ImageRequests \cup Mp!SpokenRequests, Mp!Accepted(r)
    PROVE  Mp!Cost(r) \in Nat \ {0}
<1>1. CASE r \in Mp!ImageRequests
  <2>1. r.kind = "image"
    BY <1>1 DEF Mp!ImageRequests
  <2> QED
    BY <2>1, ImagesCost DEF Mp!Accepted, Mp!Cost
<1>2. CASE r \in Mp!SpokenRequests
  <2>1. PICK a \in Nat, b \in Nat : a = r.blanks /\ b = r.body
    BY <1>2 DEF Mp!SpokenRequests, ContentsAssumption, Mp!Assumptions
  <2>2. PICK c \in Nat : c = Mp!SpeechCost(r) /\ (Mp!PromptChars(r) > 0 => c > 0)
    BY <1>2, SpeechCosts
  <2>3. CASE r.kind = "avatar"
    <3>1. PICK v \in Nat \ {0} : v = Mp!VideoCost(a + b)
      BY VideosCost
    <3>2. Mp!Cost(r) = v + c
      BY <2>1, <2>2, <2>3, <3>1 DEF Mp!Cost
    <3> QED
      BY <3>2
  <2>4. CASE r.kind \in {"speech", "read"}
    <3>1. b > 0
      BY <2>1, <2>4 DEF Mp!Accepted
    <3>2. PICK n \in Nat : n = Least({b, 4096}) /\ n > 0
      <4>1. Least({b, 4096}) = IF b <= 4096 THEN b ELSE 4096
        BY LeastOfTwo
      <4> QED
        BY <3>1, <4>1
    <3>3. Mp!PromptChars(r) = IF r.kind = "read" THEN n ELSE b
      BY <2>1, <2>4, <3>2 DEF Mp!PromptChars, Mp!MaxTtsChars, Mp!Min, Least
    <3>4. Mp!PromptChars(r) > 0
      BY <3>1, <3>2, <3>3
    <3>5. Mp!Cost(r) = c
      BY <2>2, <2>4 DEF Mp!Cost
    <3> QED
      BY <2>2, <3>4, <3>5
  <2> QED
    BY <1>2, <2>3, <2>4, CharsAre
<1> QED
  BY <1>1, <1>2

LEMMA MpTypeStep ==
    ASSUME ContentsAssumption, MpType, Mp!Next
    PROVE  MpType'
<1>1. ASSUME NEW r \in Mp!ImageRequests \cup Mp!SpokenRequests, Mp!Charge(r) \/ Mp!Refuse(r)
      PROVE  MpType'
  BY <1>1 DEF Mp!Charge, Mp!Refuse, MpType
<1>2. CASE Mp!Deliver
  <2>1. CASE request.kind = "image"
    BY <1>2, <2>1 DEF Mp!Deliver, MpType
  <2>2. CASE request.kind # "image"
    <3>1. request \in Mp!SpokenRequests
      BY <1>2, <2>2 DEF Mp!Deliver, MpType, Mp!ImageRequests
    <3>2. PICK n \in Nat : n = Mp!PromptChars(request) /\ n <= 4096
      BY <3>1, CharsAre
    <3>3. Least({n, 4096}) = n
      BY <3>2, LeastOfTwo
    <3>4. spoken' = n
      BY <1>2, <2>2, <3>2, <3>3 DEF Mp!Deliver, Mp!MaxTtsChars, Mp!Min, Least
    <3> QED
      BY <1>2, <3>2, <3>4 DEF Mp!Deliver, MpType
  <2> QED
    BY <2>1, <2>2
<1>3. CASE Mp!Refund
  BY <1>3 DEF Mp!Refund, MpType
<1>4. CASE Mp!Again
  BY <1>4 DEF Mp!Again, MpType
<1> QED
  BY <1>1, <1>2, <1>3, <1>4 DEF Mp!Next

LEMMA MpTyped ==
    ASSUME ContentsAssumption, MpInv, MpType
    PROVE  Mp!TypeOK
<1>2. ASSUME pc \in {"queued", "delivered"} PROVE charged \in Nat /\ charged > 0
  <2>1. Mp!Cost(request) \in Nat \ {0}
    BY <1>2, NothingIsFree DEF MpInv, MpType
  <2>2. charged = Mp!Cost(request)
    BY <1>2 DEF MpInv
  <2> QED
    BY <2>1, <2>2
<1>3. ASSUME pc \notin {"queued", "delivered"} PROVE charged = 0
  BY <1>3 DEF MpInv
<1>4. charged \in Nat /\ (pc \in {"queued", "delivered"} <=> charged > 0)
  BY <1>2, <1>3
<1>5. spoken \in 0..Mp!MaxTtsChars
  BY DEF MpType, Mp!MaxTtsChars
<1> QED
  BY <1>4, <1>5 DEF MpInv, MpType, Mp!TypeOK

-----------------------------------------------------------------------------
(* The components together.                                                *)

ContentsInv ==
    /\ CtxInv /\ RtInv /\ MpInv /\ GenInv /\ WrInv
    /\ part \in Parts /\ RtType /\ GenType /\ MpType

LEMMA InitInv ==
    ASSUME ContentsAssumption, Init
    PROVE  ContentsInv
<1>0. CtxInv
  BY CtxInit DEF Init, ContentsAssumption
<1>1. RtInv
  BY DEF Init, Rt!Init, RtInv
<1>2. MpInv
  BY DEF Init, Mp!Init, MpInv
<1>3. GenInv
  BY DEF Init, Gen!Init, GenInv
<1>4. WrInv
  BY WrInit DEF Init, ContentsAssumption
<1>5. RtType
  BY RtTypeInit DEF Init, ContentsAssumption
<1>6. part \in Parts
  BY DEF Init
<1>7. GenType
  BY DEF Init, Gen!Init, GenType
<1>8. MpType
  BY DEF Init, Mp!Init, MpType
<1> QED
  BY <1>0, <1>1, <1>2, <1>3, <1>4, <1>5, <1>6, <1>7, <1>8 DEF ContentsInv

LEMMA RtStill ==
    ASSUME RtInv, RtType, UNCHANGED router
    PROVE  RtInv' /\ RtType'
  BY DEF RtInv, RtType, router

LEMMA MpStill ==
    ASSUME MpInv, MpType, UNCHANGED prices
    PROVE  MpInv' /\ MpType'
  BY DEF MpInv, MpType, prices, Mp!Accepted

LEMMA GenStill ==
    ASSUME GenInv, GenType, UNCHANGED generation
    PROVE  GenInv' /\ GenType'
  BY DEF GenInv, GenType, generation

LEMMA StepInv ==
    ASSUME ContentsAssumption, ContentsInv,
           [Next]_<<part, context, router, generation, messages, prices>>
    PROVE  ContentsInv'
<1>0. /\ CtxInv /\ RtInv /\ MpInv /\ GenInv /\ WrInv
      /\ part \in Parts /\ RtType /\ GenType /\ MpType
      /\ Ctx!Assumptions /\ Rt!Assumptions /\ Wr!Assumptions
  BY DEF ContentsInv, ContentsAssumption
<1>1. CASE Ctx!Next /\ UNCHANGED <<part, router, generation, messages, prices>>
  BY <1>0, <1>1, CtxStep, RtStill, MpStill, GenStill, WrStill DEF ContentsInv
<1>2. CASE Rt!Next /\ UNCHANGED <<part, context, generation, messages, prices>>
  BY <1>0, <1>2, CtxStill, RtStep, RtTypeStep, MpStill, GenStill, WrStill DEF ContentsInv
<1>3. CASE Gen!Next /\ UNCHANGED <<part, context, router, messages, prices>>
  BY <1>0, <1>3, CtxStill, RtStill, MpStill, GenStep, GenTypeStep, WrStill DEF ContentsInv
<1>4. CASE Wr!Next /\ UNCHANGED <<part, context, router, generation, prices>>
  BY <1>0, <1>4, CtxStill, RtStill, MpStill, GenStill, WrStep DEF ContentsInv
<1>5. CASE Mp!Next /\ UNCHANGED <<part, context, router, generation, messages>>
  BY <1>0, <1>5, CtxStill, RtStill, MpStep, MpTypeStep, GenStill, WrStill DEF ContentsInv
<1>6. CASE UNCHANGED <<part, context, router, generation, messages, prices>>
  BY <1>0, <1>6, CtxStill, RtStill, MpStill, GenStill, WrStill DEF ContentsInv
<1> QED
  BY <1>1, <1>2, <1>3, <1>4, <1>5, <1>6 DEF Next

\* The invariants of the five hold in every execution of the components together.
THEOREM InvHolds == Spec => []ContentsInv
<1>1. Init => ContentsInv
  BY InitInv, ContentsAssumption
<1>2. ContentsInv /\ [Next]_<<part, context, router, generation, messages, prices>> => ContentsInv'
  BY StepInv, ContentsAssumption
<1> QED
  BY <1>1, <1>2, PTL DEF Spec

\* Rows, plans, slots, routes and requests have their form: a routed turn has one
\* to three registered models, an output limit lies between 512 tokens and its
\* model's, and what is charged has a price (resolve_models, plan_budget,
\* _generate_slot, media.py).
THEOREM TypeCorrect == Spec => []TypeOK
<1>1. ContentsInv => TypeOK
  <2> SUFFICES ASSUME ContentsInv PROVE TypeOK
    OBVIOUS
  <2>1. Ctx!TypeOK /\ Wr!TypeOK
    BY DEF ContentsInv, CtxInv, WrInv
  <2>2. Rt!TypeOK /\ Gen!TypeOK /\ Mp!TypeOK
    BY RtTyped, GenTyped, MpTyped, ContentsAssumption DEF ContentsInv
  <2>3. part \in Parts
    BY DEF ContentsInv
  <2> QED
    BY <2>1, <2>2, <2>3 DEF TypeOK
<1> QED
  BY <1>1, InvHolds, PTL

\* A model is given the conversation before the prompt, as far as the limit
\* goes, and the prompt once, with no file of another (load_history, run_turn):
\* for every limit, number of turns, edit and answer.
THEOREM GivenIsTheConversation == Spec => []GivenIsConversation
<1>1. ContentsInv => GivenIsConversation
  BY GivenIs DEF ContentsInv
<1> QED
  BY <1>1, InvHolds, PTL

\* The model of a routed turn is that of the family its prompt scores highest,
\* coding first, or that of its length (ModelRouter.route): for every prompt.
THEOREM BestFamilyWins == Spec => []HighestScoreWins
<1>1. ContentsInv => HighestScoreWins
  BY RtWins, ContentsAssumption DEF ContentsInv
<1> QED
  BY <1>1, InvHolds, PTL

\* A media charge is for what was offered, of the characters that are spoken at
\* their voice's rate and the seconds that are rendered: for texts of any length.
THEOREM ChargesAreDelivered == Spec => []ChargedIsDelivered
<1>1. ContentsInv => ChargedIsDelivered
  BY OfferedCharged, SpokenCharged, ScriptCovered, ContentsAssumption
     DEF ContentsInv, ChargedIsDelivered, Mp!ChargedIsDelivered
<1> QED
  BY <1>1, InvHolds, PTL

\* A request that was offered and charged finds its provider configured exactly
\* when it is shown as enabled, under all settings of which none is half made
\* (public_features).
THEOREM WhatIsShownIsAble == Spec => []ShownIsAble
<1>1. ContentsInv => ShownIsAble
  BY ShownAble DEF ContentsInv, ShownIsAble
<1> QED
  BY <1>1, InvHolds, PTL

\* OpenAI, Claude and Gemini are sent every text and attachment of a conversation
\* once, in order, under its role, no empty turn, to Claude in turns that
\* alternate, and the prompt last (split_system and the adapters' builders): for
\* conversations of any length, with any attachments, answers and regenerations.
THEOREM OneConversationCarried == Spec => []OneConversation
<1>1. ContentsInv => OneConversation
  BY WireIs DEF ContentsInv, OneConversation
<1> QED
  BY <1>1, InvHolds, PTL

\* Whatever was shown is charged, at the rate of the model that is named, and
\* the replies of a turn together cost no more than its balance and what the plan
\* cannot foresee (plan_budget, ensure_validity, _generate_slot): for every balance,
\* history, number of models, count a provider reports, fallback and way a stream
\* can end.
THEOREM BillsAreInBounds == Spec => []BillIsInBounds
<1>1. ContentsInv => BillIsInBounds
  BY TextCharged, NamedBilled, AllInShares, ContentsAssumption
     DEF ContentsInv, BillIsInBounds, Gen!BillIsInBounds
<1> QED
  BY <1>1, InvHolds, PTL
=============================================================================
