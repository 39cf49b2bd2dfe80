-------------------------- MODULE RateLimitProofs --------------------------
(***************************************************************************)
(* Proofs about RateLimit: what any number of requests is allowed in any   *)
(* stretch of a window's length, whatever the limit and the window.        *)
(***************************************************************************)
EXTENDS RateLimit, SumsAndLists, TLAPS

LEMMA MinOfTwo ==
    ASSUME NEW a \in Int, NEW b \in Int
    PROVE  Min({a, b}) \in {a, b} /\ Min({a, b}) <= a /\ Min({a, b}) <= b
<1>1. \E x \in {a, b} : \A y \in {a, b} : x <= y
  <2>1. CASE a <= b
    BY <2>1
  <2>2. CASE b <= a
    BY <2>2
  <2> QED
    BY <2>1, <2>2
<1> QED
  BY <1>1 DEF Min

\* The type invariant.
LEMMA TypeInit == Init => TypeOK
<1> SUFFICES ASSUME Init PROVE TypeOK
  OBVIOUS
<1>1. Limit + 1 \in Nat /\ Window \in Nat /\ 0 \in 0..(Limit + 1)
  BY LimitAssumption
<1>2. hits \in [Request -> 0..(Limit + 1)] /\ recent \in [Age -> Nat]
  BY <1>1 DEF Init
<1> QED
  BY <1>1, <1>2 DEF Init, TypeOK

LEMMA TypeStep == TypeOK /\ [Next]_vars => TypeOK'
<1> SUFFICES ASSUME TypeOK, [Next]_vars PROVE TypeOK'
  OBVIOUS
<1> USE LimitAssumption
<1>n. Window \in Nat /\ Window >= 1 /\ Limit \in Nat
  OBVIOUS
<1>1. ASSUME NEW r \in Request, Hit(r) PROVE TypeOK'
  <2>1. PICK n : n = Min({count + 1, Limit + 1})
    OBVIOUS
  <2>2. n \in 1..(Limit + 1) /\ count' = n
    BY <1>1, <2>1, MinOfTwo DEF Hit, TypeOK
  <2>3. recent' \in [Age -> Nat]
    <3>1. recent' = recent \/ recent' = [recent EXCEPT ![0] = @ + 1]
      BY <1>1 DEF Hit
    <3> QED
      BY <3>1 DEF TypeOK, Age
  <2>4. hits' \in [Request -> 0..(Limit + 1)]
    <3>1. hits' = hits \/ hits' = [hits EXCEPT ![r] = n]
      BY <1>1, <2>1 DEF Hit
    <3> QED
      BY <2>2, <3>1 DEF TypeOK
  <2>5. refused' \in BOOLEAN /\ due' \in 0..Window \cup {None}
    <3>1. CASE ttl = None
      BY <1>1, <3>1 DEF Hit, NeedsExpiry, TypeOK
    <3>2. CASE ttl # None
      <4>1. Answer(n, ttl) /\ ttl \in 1..Window
        BY <1>1, <2>1, <3>2 DEF Hit, NeedsExpiry, TypeOK
      <4>2. due' = due \/ due' = ttl \/ (due # None /\ due' = Min({due, ttl}))
        BY <4>1 DEF Answer
      <4>3. ASSUME due # None PROVE Min({due, ttl}) \in {due, ttl}
        <5>1. due \in Int /\ ttl \in Int
          BY <4>1, <4>3 DEF TypeOK
        <5> QED
          BY <5>1, MinOfTwo
      <4>4. refused' \in BOOLEAN
        BY <4>1 DEF Answer
      <4>5. ttl \in 0..Window /\ due \in 0..Window \cup {None}
        BY <4>1, <1>n DEF TypeOK
      <4> QED
        BY <4>2, <4>3, <4>4, <4>5
    <3> QED
      BY <3>1, <3>2
  <2>6. ttl' = ttl /\ open' = open
    BY <1>1 DEF Hit
  <2> QED
    BY <2>2, <2>3, <2>4, <2>5, <2>6 DEF TypeOK
<1>2. ASSUME NEW r \in Request, Expire(r) PROVE TypeOK'
  <2>1. /\ ttl' \in 1..Window \cup {None} /\ (count = 0 => ttl' = None)
        /\ UNCHANGED <<count, open, recent>> /\ Answer(hits[r], Window)
    BY <1>2 DEF Expire
  <2>2. hits' \in [Request -> 0..(Limit + 1)]
    BY <1>2 DEF Expire, TypeOK
  <2>3. due' \in {due, Window} \/ (due # None /\ due' = Min({due, Window}))
    BY <2>1 DEF Answer
  <2>4. ASSUME due # None PROVE Min({due, Window}) \in {due, Window}
    <3>1. due \in Int /\ Window \in Int
      BY <2>4 DEF TypeOK
    <3> QED
      BY <3>1, MinOfTwo
  <2>5. due' \in 0..Window \cup {None}
    BY <2>3, <2>4 DEF TypeOK
  <2>6. refused' \in BOOLEAN
    BY <2>1 DEF Answer
  <2> QED
    BY <2>1, <2>2, <2>5, <2>6 DEF TypeOK
<1>3. ASSUME NEW r \in Request, Abandon(r) PROVE TypeOK'
  <2>1. hits' \in [Request -> 0..(Limit + 1)]
    <3>1. 0 \in 0..(Limit + 1)
      BY <1>n
    <3> QED
      BY <1>3, <3>1 DEF Abandon, TypeOK
  <2> QED
    BY <1>3, <2>1 DEF Abandon, TypeOK
<1>4. CASE FailOpen
  BY <1>4 DEF FailOpen, TypeOK
<1>5. CASE Outage
  BY <1>5 DEF Outage, TypeOK
<1>6. CASE Tick
  <2>1. recent' \in [Age -> Nat]
    BY <1>6 DEF Tick, TypeOK, Age
  <2>2. ttl' \in 1..Window \cup {None} /\ (count' = 0 => ttl' = None) /\ count' \in 0..(Limit + 1)
    BY <1>6 DEF Tick, TypeOK
  <2>3. due' \in 0..Window \cup {None}
    BY <1>6 DEF Tick, TypeOK
  <2> QED
    BY <1>6, <2>1, <2>2, <2>3 DEF Tick, TypeOK
<1>7. CASE UNCHANGED vars
  BY <1>7 DEF vars, TypeOK
<1> QED
  BY <1>1, <1>2, <1>3, <1>4, <1>5, <1>6, <1>7 DEF Next

\* The counter counts what is allowed since the c seconds ago it began at, and no
\* more than a limit was allowed before in as far as anyone remembers.  An expiry
\* ends no earlier than a window after that beginning, since EXPIRE gives the key
\* a whole window whenever it comes.
Began(c) ==
    /\ SumFunctionOnSet(recent, 0..(c - 1)) <= count
    /\ SumFunctionOnSet(recent, 0..(c - 1)) <= Limit
    /\ SumFunctionOnSet(recent, c..(Window - 1)) <= Limit
    /\ ttl # None => c + ttl >= Window

Counted == \E c \in 1..Window : Began(c)

Inv == TypeOK /\ Counted

\* Sums of hits are natural numbers.
LEMMA HitsType ==
    ASSUME TypeOK, NEW a \in Nat, NEW b \in Int, a <= b + 1, b < Window
    PROVE  SumFunctionOnSet(recent, a..b) \in Nat
<1>1. \A x \in a..b : recent[x] \in Nat
  BY LimitAssumption DEF TypeOK, Age
<1> QED
  BY <1>1, SumNat

\* Fewer of them have a smaller sum.
LEMMA FewerHits ==
    ASSUME TypeOK, NEW a \in Nat, NEW b \in Int, NEW c \in Int, a <= b + 1, b <= c, c < Window
    PROVE  SumFunctionOnSet(recent, a..b) <= SumFunctionOnSet(recent, a..c)
<1>1. \A x \in a..c : recent[x] \in Int
  BY LimitAssumption DEF TypeOK, Age
<1>2. SumFunctionOnSet(recent, a..c)
        = SumFunctionOnSet(recent, a..b) + SumFunctionOnSet(recent, (b + 1)..c)
  BY <1>1, SumSplits
<1>3. SumFunctionOnSet(recent, (b + 1)..c) \in Nat /\ SumFunctionOnSet(recent, a..b) \in Nat
  <2>1. b + 1 \in Nat /\ b + 1 <= c + 1 /\ b < Window
    BY LimitAssumption
  <2> QED
    BY <2>1, HitsType
<1> QED
  BY <1>2, <1>3

\* A second later every hit is a second older.
LEMMA OlderHits ==
    ASSUME TypeOK, Tick, NEW a \in Nat, NEW b \in Int, a <= b + 1, b + 1 < Window,
           NEW c \in Int, c = a + 1, NEW d \in Int, d = b + 1
    PROVE  SumFunctionOnSet(recent', c..d) = SumFunctionOnSet(recent, a..b)
<1>1. \A x \in a..b : recent[x] \in Int /\ recent'[x + 1] = recent[x]
  BY LimitAssumption DEF TypeOK, Age, Tick
<1> QED
  BY SMTT(40), <1>1, SumShifts

\* And those of the last second are none.
LEMMA NewHits ==
    ASSUME TypeOK, TypeOK', Tick, NEW b \in Nat, b < Window
    PROVE  SumFunctionOnSet(recent', 0..b) = SumFunctionOnSet(recent', 1..b)
<1>1. \A x \in 0..b : recent'[x] \in Int
  BY LimitAssumption DEF TypeOK, Age
<1>2. SumFunctionOnSet(recent', 0..b)
        = SumFunctionOnSet(recent', 0..0) + SumFunctionOnSet(recent', 1..b)
  <2>1. \A y \in Int : 0 <= y + 1 /\ y <= b
          => SumFunctionOnSet(recent', 0..b)
               = SumFunctionOnSet(recent', 0..y) + SumFunctionOnSet(recent', (y + 1)..b)
    BY <1>1, SumSplits
  <2>2. 0 \in Int /\ 0 <= 0 + 1 /\ 0 <= b /\ 0 + 1 = 1
    OBVIOUS
  <2> QED
    BY <2>1, <2>2
<1>3. SumFunctionOnSet(recent', 0..0) = 0
  <2>1. recent'[0] = 0
    BY LimitAssumption DEF Tick, Age
  <2>2. 0..0 = {} \cup {0} /\ IsFiniteSet({})
    BY FS_EmptySet
  <2>3. SumFunctionOnSet(recent', {} \cup {0}) = recent'[0] + SumFunctionOnSet(recent', {})
    BY <2>1, <2>2, SumAdds
  <2> QED
    BY <2>1, <2>2, <2>3, SumOfNone
<1>4. SumFunctionOnSet(recent', 1..b) \in Int
  <2>1. IsFiniteSet(1..b)
    BY FS_Interval
  <2>2. \A x \in 1..b : recent'[x] \in Int
    BY <1>1
  <2> QED
    BY <2>1, <2>2, SumInt
<1> QED
  BY <1>2, <1>3, <1>4

LEMMA CountedInit == Init => Counted
<1> SUFFICES ASSUME Init PROVE Counted
  OBVIOUS
<1> USE LimitAssumption
<1>1. TypeOK
  BY TypeInit
<1>2. ASSUME NEW a \in Nat, NEW b \in Int, a <= b + 1, b < Window
      PROVE  SumFunctionOnSet(recent, a..b) = 0
  <2>1. \A x \in a..b : recent[x] = 0
    <3>1. \A x \in a..b : x \in Age
      BY <1>2 DEF Age
    <3> QED
      BY <3>1 DEF Init
  <2> QED
    BY <2>1, SumZeros
<1>3. /\ SumFunctionOnSet(recent, 0..(1 - 1)) = 0
      /\ SumFunctionOnSet(recent, 1..(Window - 1)) = 0
  <2>1. /\ 0 \in Nat /\ 1 - 1 \in Int /\ 0 <= (1 - 1) + 1 /\ 1 - 1 < Window
        /\ 1 \in Nat /\ Window - 1 \in Int /\ 1 <= (Window - 1) + 1 /\ Window - 1 < Window
    OBVIOUS
  <2> QED
    BY <2>1, <1>2
<1>4. Began(1)
  BY <1>3 DEF Began, Init
<1> QED
  BY <1>4 DEF Counted

LEMMA CountedHit ==
    ASSUME TypeOK, NEW c \in 1..Window, Began(c), NEW r \in Request, Hit(r)
    PROVE  Began(c)'
<1> USE LimitAssumption
<1>1. PICK n : n = Min({count + 1, Limit + 1})
  OBVIOUS
<1>2. n \in {count + 1, Limit + 1} /\ n <= count + 1 /\ count' = n /\ ttl' = ttl
  <2>1. count + 1 \in Int /\ Limit + 1 \in Int
    BY DEF TypeOK
  <2> QED
    BY <1>1, <2>1, MinOfTwo DEF Hit
<1>3. c \in Nat /\ c - 1 \in Int /\ Window - 1 \in Int /\ count \in Nat /\ count <= Limit + 1
  BY DEF TypeOK
<1>4. CASE Allowed(n)
  <2>1. recent' = [recent EXCEPT ![0] = @ + 1] /\ n = count + 1 /\ n <= Limit
    BY <1>1, <1>2, <1>3, <1>4 DEF Hit, Allowed
  <2>2. /\ 0 \in 0..(c - 1) /\ IsFiniteSet(0..(c - 1))
        /\ \A x \in 0..(c - 1) : recent[x] \in Int /\ recent'[x] \in Int
        /\ \A x \in (0..(c - 1)) \ {0} : recent'[x] = recent[x]
        /\ recent[0] \in Int /\ recent'[0] = recent[0] + 1
    <3>1. 0 \in 0..(c - 1) /\ IsFiniteSet(0..(c - 1)) /\ \A x \in 0..(c - 1) : x \in Age
      BY SMTT(40), <1>3, FS_Interval DEF Age
    <3>2. recent \in [Age -> Nat] /\ 0 \in Age
      BY <3>1 DEF TypeOK
    <3>3. \A x \in Age : recent'[x] = IF x = 0 THEN recent[0] + 1 ELSE recent[x]
      BY <2>1, <3>2
    <3> QED
      BY <3>1, <3>2, <3>3
  <2>3. SumFunctionOnSet(recent', 0..(c - 1))
          = SumFunctionOnSet(recent, 0..(c - 1)) - recent[0] + recent'[0]
    BY SMTT(40), <2>2, SumChanges
  <2>4. SumFunctionOnSet(recent, 0..(c - 1)) \in Nat
    BY <1>3, HitsType
  <2>5. SumFunctionOnSet(recent', 0..(c - 1)) = SumFunctionOnSet(recent, 0..(c - 1)) + 1
    BY <2>2, <2>3, <2>4
  <2>6. SumFunctionOnSet(recent', c..(Window - 1)) = SumFunctionOnSet(recent, c..(Window - 1))
    <3>1. IsFiniteSet(c..(Window - 1))
      BY <1>3, FS_Interval
    <3>2. \A x \in c..(Window - 1) : recent'[x] = recent[x]
      BY <2>1, <1>3 DEF TypeOK, Age
    <3> QED
      BY <3>1, <3>2, SumSame
  <2> QED
    BY <1>2, <1>3, <2>1, <2>4, <2>5, <2>6 DEF Began
<1>5. CASE ~Allowed(n)
  <2>1. recent' = recent
    BY <1>1, <1>5 DEF Hit
  <2>2. n > Limit
    BY <1>2, <1>3, <1>5 DEF Allowed
  <2>3. SumFunctionOnSet(recent, 0..(c - 1)) \in Nat
    BY <1>3, HitsType
  <2> QED
    BY <1>2, <1>3, <2>1, <2>2, <2>3 DEF Began
<1> QED
  BY <1>4, <1>5

LEMMA CountedTick ==
    ASSUME TypeOK, TypeOK', NEW c \in 1..Window, Began(c), Tick
    PROVE  Counted'
<1> USE LimitAssumption
<1>n. /\ Window \in Nat /\ Window >= 1 /\ Limit \in Nat /\ c \in Nat /\ c >= 1 /\ c <= Window
      /\ c - 1 \in Int /\ Window - 1 \in Int /\ Window - 2 \in Int /\ count \in Nat
  BY DEF TypeOK
<1> DEFINE Old(a, b) == SumFunctionOnSet(recent, a..b)
           New(a, b) == SumFunctionOnSet(recent', a..b)
<1>1. Old(0, c - 1) \in Nat /\ Old(c, Window - 1) \in Nat
  BY <1>n, HitsType
<1>2. Old(0, c - 1) <= count /\ Old(0, c - 1) <= Limit /\ Old(c, Window - 1) <= Limit
  BY DEF Began
<1>3. CASE ttl = 1
  <2>1. c >= Window - 1 /\ count' = 0 /\ ttl' = None
    BY <1>3, <1>n DEF Began, Tick
  <2>2. New(0, 0) = New(1, 0)
    <3>1. 0 \in Nat /\ 0 < Window
      BY <1>n
    <3> QED
      BY <3>1, NewHits
  <2>3. New(1, 0) = 0
    <3>1. 1..0 = {}
      OBVIOUS
    <3> QED
      BY <3>1, SumOfNone
  <2>4. New(1, Window - 1) = Old(0, Window - 2)
    <3>1. /\ 1 = 0 + 1 /\ Window - 1 = (Window - 2) + 1 /\ 0 <= (Window - 2) + 1
          /\ (Window - 2) + 1 < Window /\ 0 \in Nat
      BY <1>n
    <3> QED
      BY <3>1, <1>n, OlderHits
  <2>5. Old(0, Window - 2) <= Old(0, c - 1) /\ Old(0, Window - 2) \in Nat
    <3>1. 0 <= (Window - 2) + 1 /\ Window - 2 <= c - 1 /\ c - 1 < Window /\ Window - 2 < Window
      BY <1>n, <2>1
    <3> QED
      BY <3>1, <1>n, FewerHits, HitsType
  <2>6. New(0, 1 - 1) = 0 /\ New(1, Window - 1) <= Limit
    BY <1>1, <1>2, <1>n, <2>2, <2>3, <2>4, <2>5
  <2>7. Began(1)'
    BY <1>n, <2>1, <2>6 DEF Began
  <2> QED
    BY <1>n, <2>7 DEF Counted
<1>4. CASE ttl # 1 /\ c < Window
  <2>1. count' = count /\ ttl' = IF ttl = None THEN None ELSE ttl - 1
    BY <1>4 DEF Tick
  <2>2. New(0, c) = New(1, c)
    BY <1>4, <1>n, NewHits
  <2>3. New(1, c) = Old(0, c - 1)
    <3>1. /\ 1 = 0 + 1 /\ c = (c - 1) + 1 /\ 0 <= (c - 1) + 1 /\ (c - 1) + 1 < Window
          /\ 0 \in Nat
      BY <1>4, <1>n
    <3> QED
      BY <3>1, <1>n, OlderHits
  <2>4. New(c + 1, Window - 1) = Old(c, Window - 2)
    <3>1. /\ Window - 1 = (Window - 2) + 1 /\ c <= (Window - 2) + 1
          /\ (Window - 2) + 1 < Window /\ c + 1 \in Int
      BY <1>4, <1>n
    <3> QED
      BY <3>1, <1>n, OlderHits
  <2>5. Old(c, Window - 2) <= Old(c, Window - 1) /\ Old(c, Window - 2) \in Nat
    <3>1. /\ c <= (Window - 2) + 1 /\ Window - 2 <= Window - 1 /\ Window - 1 < Window
          /\ Window - 2 < Window
      BY <1>4, <1>n
    <3> QED
      BY <3>1, <1>n, FewerHits, HitsType
  <2>6. /\ New(0, (c + 1) - 1) = Old(0, c - 1)
        /\ New(c + 1, Window - 1) <= Limit
    <3>1. (c + 1) - 1 = c
      BY <1>n
    <3> QED
      BY <1>1, <1>2, <1>n, <2>2, <2>3, <2>4, <2>5, <3>1
  <2>7. ttl' # None => (c + 1) + ttl' >= Window
    BY <1>n, <2>1 DEF Began, TypeOK
  <2>8. Began(c + 1)'
    BY <1>2, <2>1, <2>6, <2>7 DEF Began
  <2>9. c + 1 \in 1..Window
    BY <1>4, <1>n
  <2> QED
    BY <2>8, <2>9 DEF Counted
<1>5. CASE ttl # 1 /\ c = Window
  <2>1. count' = count /\ ttl' = IF ttl = None THEN None ELSE ttl - 1
    BY <1>5 DEF Tick
  <2>2. New(0, Window - 1) = New(1, Window - 1)
    <3>1. Window - 1 \in Nat /\ Window - 1 < Window
      BY <1>n
    <3> QED
      BY <3>1, NewHits
  <2>3. New(1, Window - 1) = Old(0, Window - 2)
    <3>1. /\ 1 = 0 + 1 /\ Window - 1 = (Window - 2) + 1 /\ 0 <= (Window - 2) + 1
          /\ (Window - 2) + 1 < Window /\ 0 \in Nat
      BY <1>n
    <3> QED
      BY <3>1, <1>n, OlderHits
  <2>4. Old(0, Window - 2) <= Old(0, c - 1) /\ Old(0, Window - 2) \in Nat
    <3>1. 0 <= (Window - 2) + 1 /\ Window - 2 <= c - 1 /\ c - 1 < Window /\ Window - 2 < Window
      BY <1>n, <1>5
    <3> QED
      BY <3>1, <1>n, FewerHits, HitsType
  <2>5. New(Window, Window - 1) = 0
    <3>1. Window..(Window - 1) = {}
      BY <1>n
    <3> QED
      BY <3>1, SumOfNone
  <2>6. New(0, Window - 1) <= count /\ New(0, Window - 1) <= Limit
    BY <1>1, <1>2, <1>n, <2>2, <2>3, <2>4
  <2>7. ttl' # None => Window + ttl' >= Window
    BY <1>n, <1>5, <2>1 DEF TypeOK
  <2>8. Began(Window)'
    BY <1>n, <2>1, <2>5, <2>6, <2>7 DEF Began
  <2> QED
    BY <1>n, <2>8 DEF Counted
<1> QED
  BY <1>3, <1>4, <1>5, <1>n

LEMMA CountedStep == TypeOK /\ TypeOK' /\ Counted /\ [Next]_vars => Counted'
<1> SUFFICES ASSUME TypeOK, TypeOK', Counted, [Next]_vars PROVE Counted'
  OBVIOUS
<1> USE LimitAssumption
<1>p. PICK c \in 1..Window : Began(c)
  BY DEF Counted
<1>1. ASSUME NEW r \in Request, Hit(r) PROVE Counted'
  BY <1>1, <1>p, CountedHit DEF Counted
<1>2. ASSUME NEW r \in Request, Expire(r) PROVE Counted'
  <2>1. UNCHANGED <<count, recent>> /\ ttl' \in {None, Window}
    BY <1>2 DEF Expire
  <2>2. Began(c)'
    BY <1>p, <2>1 DEF Began
  <2> QED
    BY <2>2 DEF Counted
<1>3. ASSUME UNCHANGED <<count, recent, ttl>> PROVE Counted'
  BY <1>3, <1>p DEF Counted, Began
<1>4. CASE Tick
  BY <1>4, <1>p, CountedTick
<1>5. CASE FailOpen \/ Outage \/ (\E r \in Request : Abandon(r)) \/ UNCHANGED vars
  BY <1>3, <1>5 DEF FailOpen, Outage, Abandon, vars
<1> QED
  BY <1>1, <1>2, <1>4, <1>5 DEF Next

LEMMA InvBounds == Inv => SlidingBound
<1> SUFFICES ASSUME Inv PROVE SlidingBound
  OBVIOUS
<1> USE LimitAssumption
<1>1. TypeOK
  BY DEF Inv
<1>2. PICK c \in 1..Window : Began(c)
  BY DEF Inv, Counted
<1>3. PICK b \in Int : b = c - 1
  OBVIOUS
<1>4. PICK d \in Int : d = Window - 1
  OBVIOUS
<1>5. b + 1 = c /\ 0 <= b + 1 /\ b <= d /\ c <= d + 1 /\ c \in Nat /\ b < Window /\ d < Window
  BY <1>3, <1>4
<1>6. \A x \in 0..d : recent[x] \in Int
  BY <1>1, <1>4 DEF TypeOK, Age
<1>7. SumFunctionOnSet(recent, 0..d)
        = SumFunctionOnSet(recent, 0..b) + SumFunctionOnSet(recent, (b + 1)..d)
  BY <1>5, <1>6, SumSplits
<1>8. SumFunctionOnSet(recent, 0..b) \in Nat /\ SumFunctionOnSet(recent, c..d) \in Nat
  BY <1>1, <1>5, HitsType
<1>9. SumFunctionOnSet(recent, 0..b) <= Limit /\ SumFunctionOnSet(recent, c..d) <= Limit
  BY <1>2, <1>3, <1>4 DEF Began
<1>10. SumFunctionOnSet(recent, 0..d) <= 2 * Limit
  BY <1>5, <1>7, <1>8, <1>9
<1> QED
  BY <1>4, <1>10 DEF SlidingBound, Age

\* Any stretch of a window's length holds at most two limits' worth of allowed
\* hits (hit, limit_by_ip), for every number of requests, limit and window.
THEOREM HitsAreBounded == Spec => []SlidingBound
<1>1. Init => Inv
  BY TypeInit, CountedInit DEF Inv
<1>2. Inv /\ [Next]_vars => Inv'
  BY TypeStep, CountedStep DEF Inv
<1>3. Inv => SlidingBound
  BY InvBounds
<1> QED
  BY <1>1, <1>2, <1>3, PTL DEF Spec
=============================================================================
