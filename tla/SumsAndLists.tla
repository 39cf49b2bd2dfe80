---------------------------- MODULE SumsAndLists ----------------------------
(***************************************************************************)
(* Sums over finite sets: what SumFunctionOnSet of the community modules   *)
(* does when a term comes, goes or changes; and lists: what Keep of Lists  *)
(* keeps, and the front and the end of a list.  Induction is by the least  *)
(* number of a set, which is a fact about sets and no proof rule.          *)
(***************************************************************************)
EXTENDS Integers, FiniteSets, Functions, FiniteSetTheorems, SequenceTheorems, Lists, TLAPS

\* Every set of numbers has a least one.
LEMMA LeastNumber ==
    ASSUME NEW T, T \subseteq Nat, T # {}
    PROVE  \E n \in T : \A m \in T : n <= m
<1> DEFINE R == {ss \in Nat \X Nat : ss[1] < ss[2]}
<1>1. R = OpToRel(<, Nat)
  BY DEF OpToRel
<1>2. IsWellFoundedOn(R, Nat)
  BY <1>1, NatLessThanWellFounded
<1> HIDE DEF R
<1>3. PICK n \in T : \A m \in T : ~ (<<m, n>> \in R)
  BY <1>2, WFMin
<1>4. ASSUME NEW m \in T PROVE n <= m
  <2>1. ~(m < n)
    BY <1>3 DEF R
  <2> QED
    BY <2>1
<1> QED
  BY <1>4

\* Of a set of finite sets that is not empty, one has the fewest members.
LEMMA Smallest ==
    ASSUME NEW D, D # {}, \A s \in D : IsFiniteSet(s)
    PROVE  \E s \in D : \A t \in D : Cardinality(s) <= Cardinality(t)
<1>1. \A s \in D : Cardinality(s) \in Nat
  BY FS_CardinalityType
<1> DEFINE T == {n \in Nat : \E s \in D : Cardinality(s) = n}
<1>2. T \subseteq Nat /\ T # {}
  BY <1>1
<1>3. PICK n \in T : \A m \in T : n <= m
  <2> HIDE DEF T
  <2> QED
    BY <1>2, LeastNumber
<1>4. PICK s \in D : Cardinality(s) = n
  OBVIOUS
<1>5. ASSUME NEW t \in D PROVE Cardinality(s) <= Cardinality(t)
  BY <1>1, <1>3, <1>4
<1> QED
  BY <1>5

-----------------------------------------------------------------------------
(* The recursive function of the sum.                                      *)

Pick(s) == CHOOSE x \in s : TRUE
Rest(s) == s \ {Pick(s)}

\* The sum of every set of D, where D has with a set also its rests.
IsSum(g, f, D) == g = [s \in D |-> IF s = {} THEN 0 ELSE f[Pick(s)] + g[Rest(s)]]

LEMMA SumIs ==
    ASSUME NEW f, NEW S
    PROVE  SumFunctionOnSet(f, S) = (CHOOSE g : IsSum(g, f, SUBSET S))[S]
  BY DEF SumFunctionOnSet, FoldFunctionOnSet, MapThenFoldSet, IsSum, Pick, Rest

LEMMA PickIs ==
    ASSUME NEW s, s # {}
    PROVE  Pick(s) \in s /\ Rest(s) \subseteq s /\ s = Rest(s) \cup {Pick(s)} /\ Pick(s) \notin Rest(s)
<1>1. Pick(s) \in s
  BY DEF Pick
<1> QED
  BY <1>1 DEF Rest

LEMMA RestIs ==
    ASSUME NEW s, s # {}, IsFiniteSet(s)
    PROVE  /\ IsFiniteSet(Rest(s)) /\ Cardinality(s) \in Nat
           /\ Cardinality(Rest(s)) = Cardinality(s) - 1
  BY PickIs, FS_RemoveElement, FS_CardinalityType DEF Rest

LEMMA Unfold ==
    ASSUME NEW g, NEW f, NEW D, IsSum(g, f, D), NEW s \in D
    PROVE  g[s] = IF s = {} THEN 0 ELSE f[Pick(s)] + g[Rest(s)]
  BY DEF IsSum

\* It exists: one level of sizes after the other.
Level(S, n) == {s \in SUBSET S : Cardinality(s) <= n}

LEMMA NextLevel ==
    ASSUME NEW f, NEW S, IsFiniteSet(S), NEW n \in Nat, NEW g, IsSum(g, f, Level(S, n))
    PROVE  \E h : IsSum(h, f, Level(S, n + 1))
<1>1. \A s \in SUBSET S : IsFiniteSet(s) /\ Cardinality(s) \in Nat
  BY FS_Subset, FS_CardinalityType
<1>2. Level(S, n) \subseteq Level(S, n + 1)
  BY <1>1 DEF Level
<1>3. \A s \in Level(S, n + 1) : s # {} => Rest(s) \in Level(S, n)
  <2> SUFFICES ASSUME NEW s \in Level(S, n + 1), s # {}
               PROVE  Rest(s) \in Level(S, n)
    OBVIOUS
  <2>1. s \in SUBSET S /\ Cardinality(s) <= n + 1
    BY DEF Level
  <2>2. Cardinality(s) \in Nat /\ Cardinality(Rest(s)) = Cardinality(s) - 1
    BY <1>1, <2>1, RestIs
  <2>3. Rest(s) \in SUBSET S
    BY <2>1, PickIs
  <2> QED
    BY <2>1, <2>2, <2>3 DEF Level
<1> DEFINE h == [s \in Level(S, n + 1) |-> IF s = {} THEN 0 ELSE f[Pick(s)] + g[Rest(s)]]
<1>4. \A s \in Level(S, n) : h[s] = g[s]
  BY <1>2, Unfold
<1>5. \A s \in Level(S, n + 1) : s # {} => h[Rest(s)] = g[Rest(s)]
  BY <1>3, <1>4
<1>6. h = [s \in Level(S, n + 1) |-> IF s = {} THEN 0 ELSE f[Pick(s)] + h[Rest(s)]]
  BY <1>5
<1> QED
  BY <1>6 DEF IsSum

LEMMA SumExists ==
    ASSUME NEW f, NEW S, IsFiniteSet(S)
    PROVE  \E g : IsSum(g, f, SUBSET S)
<1> DEFINE T == {n \in Nat : ~ \E g : IsSum(g, f, Level(S, n))}
<1>1. \A s \in SUBSET S : IsFiniteSet(s) /\ Cardinality(s) \in Nat /\ Cardinality(s) <= Cardinality(S)
  BY FS_Subset, FS_CardinalityType
<1>2. T = {}
  <2> SUFFICES ASSUME T # {} PROVE FALSE
    OBVIOUS
  <2>1. PICK n \in T : \A m \in T : n <= m
    <3>1. T \subseteq Nat
      OBVIOUS
    <3> HIDE DEF T
    <3> QED
      BY <3>1, LeastNumber
  <2>2. n # 0
    <3>1. Level(S, 0) = {{}}
      BY <1>1, FS_EmptySet DEF Level
    <3>2. IsSum([s \in {{}} |-> 0], f, {{}})
      BY DEF IsSum
    <3> QED
      BY <3>1, <3>2
  <2>3. n - 1 \in Nat /\ n - 1 \notin T
    BY <2>1, <2>2
  <2>4. PICK g : IsSum(g, f, Level(S, n - 1))
    BY <2>3
  <2>5. \E h : IsSum(h, f, Level(S, n - 1 + 1))
    BY <2>3, <2>4, NextLevel
  <2>6. n - 1 + 1 = n
    OBVIOUS
  <2> QED
    BY <2>5, <2>6
<1>3. Level(S, Cardinality(S)) = SUBSET S
  BY <1>1 DEF Level
<1>4. Cardinality(S) \in Nat
  BY FS_CardinalityType
<1> QED
  BY SMTT(40), <1>2, <1>3, <1>4

\* It is one: what it gives a set depends on the terms of its members alone.
\* The sums of all subsets of S.
SumsUp(g, f, S) == IsSum(g, f, SUBSET S)

LEMMA UnfoldAll ==
    ASSUME NEW g, NEW f, NEW S, SumsUp(g, f, S), NEW s \in SUBSET S
    PROVE  g[s] = IF s = {} THEN 0 ELSE f[Pick(s)] + g[Rest(s)]
  BY Unfold DEF SumsUp

LEMMA SumIsOne ==
    ASSUME NEW S, IsFiniteSet(S), NEW R, S \subseteq R,
           NEW f, NEW h, \A x \in S : f[x] = h[x],
           NEW g, SumsUp(g, f, S), NEW k, SumsUp(k, h, R)
    PROVE  g[S] = k[S]
<1> DEFINE T == {s \in SUBSET S : g[s] # k[s]}
<1> SUFFICES ASSUME T # {} PROVE FALSE
  OBVIOUS
<1>1. \A s \in T : IsFiniteSet(s)
  BY FS_Subset
<1>2. PICK s \in T : \A t \in T : Cardinality(s) <= Cardinality(t)
  <2> HIDE DEF T
  <2> QED
    BY <1>1, Smallest
<1>3. s \in SUBSET S /\ s \in SUBSET R /\ IsFiniteSet(s)
  BY <1>1
<1>4. s # {}
  <2>1. s = {} => g[s] = 0
    BY <1>3, UnfoldAll
  <2>2. s = {} => k[s] = 0
    BY <1>3, UnfoldAll
  <2>3. g[s] # k[s]
    OBVIOUS
  <2> QED
    BY <2>1, <2>2, <2>3
<1>5. /\ Rest(s) \in SUBSET S /\ Pick(s) \in S
      /\ Cardinality(Rest(s)) = Cardinality(s) - 1 /\ Cardinality(s) \in Nat
  BY <1>3, <1>4, PickIs, RestIs
<1>6. Rest(s) \notin T
  BY <1>2, <1>5
<1>7. g[Rest(s)] = k[Rest(s)] /\ f[Pick(s)] = h[Pick(s)]
  BY <1>5, <1>6
<1>8. g[s] = f[Pick(s)] + g[Rest(s)] /\ k[s] = h[Pick(s)] + k[Rest(s)]
  <2>1. g[s] = f[Pick(s)] + g[Rest(s)]
    BY <1>3, <1>4, UnfoldAll
  <2>2. k[s] = h[Pick(s)] + k[Rest(s)]
    BY <1>3, <1>4, UnfoldAll
  <2> QED
    BY <2>1, <2>2
<1> QED
  BY <1>7, <1>8

LEMMA SumIsInt ==
    ASSUME NEW S, IsFiniteSet(S), NEW f, \A x \in S : f[x] \in Int,
           NEW g, SumsUp(g, f, S), NEW r \in SUBSET S
    PROVE  g[r] \in Int
<1> DEFINE T == {s \in SUBSET S : g[s] \notin Int}
<1> SUFFICES ASSUME T # {} PROVE FALSE
  OBVIOUS
<1>1. \A s \in T : IsFiniteSet(s)
  BY FS_Subset
<1>2. PICK s \in T : \A t \in T : Cardinality(s) <= Cardinality(t)
  <2> HIDE DEF T
  <2> QED
    BY <1>1, Smallest
<1>3. s \in SUBSET S /\ IsFiniteSet(s)
  BY <1>1
<1>4. s # {}
  <2>1. s = {} => g[s] = 0
    BY <1>3, UnfoldAll
  <2> QED
    BY <2>1
<1>5. /\ Rest(s) \in SUBSET S /\ Pick(s) \in S
      /\ Cardinality(Rest(s)) = Cardinality(s) - 1 /\ Cardinality(s) \in Nat
  BY <1>3, <1>4, PickIs, RestIs
<1>6. Rest(s) \notin T
  BY <1>2, <1>5
<1>7. g[s] = f[Pick(s)] + g[Rest(s)]
  BY <1>3, <1>4, UnfoldAll
<1> QED
  BY <1>5, <1>6, <1>7

\* Whichever member is taken first.
LEMMA SumTakes ==
    ASSUME NEW S, IsFiniteSet(S), NEW f, \A x \in S : f[x] \in Int,
           NEW g, SumsUp(g, f, S)
    PROVE  \A y \in S : g[S] = f[y] + g[S \ {y}]
<1> DEFINE T == {s \in SUBSET S : \E y \in s : g[s] # f[y] + g[s \ {y}]}
<1> SUFFICES ASSUME T # {} PROVE FALSE
  <2>1. S \in SUBSET S
    OBVIOUS
  <2> QED
    BY <2>1
<1>1. \A s \in T : IsFiniteSet(s)
  BY FS_Subset
<1>2. PICK s \in T : \A t \in T : Cardinality(s) <= Cardinality(t)
  <2> HIDE DEF T
  <2> QED
    BY <1>1, Smallest
<1>3. s \in SUBSET S /\ IsFiniteSet(s)
  BY <1>1
<1>4. PICK y \in s : g[s] # f[y] + g[s \ {y}]
  OBVIOUS
<1>5. s # {}
  BY <1>4
<1>6. PICK x : x = Pick(s)
  OBVIOUS
<1>7. x \in s /\ Rest(s) = s \ {x} /\ x # y
  <2>1. x \in s /\ Rest(s) = s \ {x}
    BY <1>5, <1>6, PickIs DEF Rest
  <2>2. g[s] = f[x] + g[Rest(s)]
    BY <1>3, <1>5, <1>6, UnfoldAll
  <2> QED
    BY <1>4, <2>1, <2>2
<1>8. \A z \in s : s \ {z} \in SUBSET S /\ s \ {z} \notin T
  <2> SUFFICES ASSUME NEW z \in s PROVE s \ {z} \in SUBSET S /\ s \ {z} \notin T
    OBVIOUS
  <2>1. Cardinality(s \ {z}) = Cardinality(s) - 1 /\ Cardinality(s) \in Nat
    BY <1>3, FS_RemoveElement, FS_CardinalityType
  <2>2. s \ {z} \in SUBSET S
    BY <1>3
  <2> QED
    BY SMTT(40), <1>2, <2>1, <2>2
<1>9. g[s \ {x}] = f[y] + g[(s \ {x}) \ {y}]
  BY <1>4, <1>7, <1>8
<1>10. g[s \ {y}] = f[x] + g[(s \ {y}) \ {x}]
  BY <1>4, <1>7, <1>8
<1>11. (s \ {x}) \ {y} = (s \ {y}) \ {x}
  OBVIOUS
<1>12. g[s] = f[x] + g[s \ {x}]
  <2>1. g[s] = f[Pick(s)] + g[Rest(s)]
    BY <1>3, <1>5, UnfoldAll
  <2> QED
    BY <1>6, <1>7, <2>1
<1>13. PICK rest \in Int : rest = g[(s \ {x}) \ {y}]
  <2>1. (s \ {x}) \ {y} \in SUBSET S
    BY <1>3
  <2> QED
    BY <2>1, SumIsInt
<1>14. f[x] \in Int /\ f[y] \in Int
  BY <1>3, <1>4, <1>7
<1>15. g[s] = f[x] + (f[y] + rest) /\ g[s \ {y}] = f[x] + rest
  BY <1>9, <1>10, <1>11, <1>12, <1>13
<1>16. f[x] + (f[y] + rest) = f[y] + (f[x] + rest)
  BY <1>13, <1>14
<1> QED
  BY <1>4, <1>15, <1>16

-----------------------------------------------------------------------------
(* Sums.                                                                   *)

LEMMA SumOf ==
    ASSUME NEW f, NEW S, IsFiniteSet(S)
    PROVE  \E g : SumsUp(g, f, S) /\ SumFunctionOnSet(f, S) = g[S]
<1>1. PICK h : SumsUp(h, f, S)
  BY SumExists DEF SumsUp
<1>2. IsSum(CHOOSE g : IsSum(g, f, SUBSET S), f, SUBSET S)
  BY <1>1 DEF SumsUp
<1> QED
  BY <1>2, SumIs DEF SumsUp

\* The sum of nothing.
LEMMA SumOfNone ==
    ASSUME NEW f
    PROVE  SumFunctionOnSet(f, {}) = 0
<1>1. IsFiniteSet({}) /\ {} \in SUBSET {}
  BY FS_EmptySet
<1> QED
  BY <1>1, SumOf, UnfoldAll

LEMMA SumInt ==
    ASSUME NEW f, NEW S, IsFiniteSet(S), \A x \in S : f[x] \in Int
    PROVE  SumFunctionOnSet(f, S) \in Int
<1>1. PICK g : SumsUp(g, f, S) /\ SumFunctionOnSet(f, S) = g[S]
  BY SumOf
<1>2. S \in SUBSET S
  OBVIOUS
<1> QED
  BY <1>1, <1>2, SumIsInt

\* The same terms have the same sum.
LEMMA SumSame ==
    ASSUME NEW f, NEW h, NEW S, IsFiniteSet(S), \A x \in S : f[x] = h[x]
    PROVE  SumFunctionOnSet(f, S) = SumFunctionOnSet(h, S)
<1>1. PICK g : SumsUp(g, f, S) /\ SumFunctionOnSet(f, S) = g[S]
  BY SumOf
<1>2. PICK k : SumsUp(k, h, S) /\ SumFunctionOnSet(h, S) = k[S]
  BY SumOf
<1>3. S \subseteq S
  OBVIOUS
<1>4. g[S] = k[S]
  BY <1>1, <1>2, <1>3, SumIsOne
<1> QED
  BY <1>1, <1>2, <1>4

\* One term more.
LEMMA SumAdds ==
    ASSUME NEW f, NEW S, IsFiniteSet(S), NEW y, y \notin S, \A x \in S \cup {y} : f[x] \in Int
    PROVE  SumFunctionOnSet(f, S \cup {y}) = f[y] + SumFunctionOnSet(f, S)
<1>1. PICK R : R = S \cup {y}
  OBVIOUS
<1>2. IsFiniteSet(R) /\ S \subseteq R /\ R \in SUBSET R /\ y \in R /\ R \ {y} = S
  BY <1>1, FS_AddElement
<1>3. PICK g : SumsUp(g, f, R) /\ SumFunctionOnSet(f, R) = g[R]
  BY <1>2, SumOf
<1>4. PICK k : SumsUp(k, f, S) /\ SumFunctionOnSet(f, S) = k[S]
  BY SumOf
<1>5. k[S] = g[S]
  <2>1. \A x \in S : f[x] = f[x]
    OBVIOUS
  <2> QED
    BY <1>2, <1>3, <1>4, <2>1, SumIsOne
<1>6. \A z \in R : g[R] = f[z] + g[R \ {z}]
  <2>1. \A x \in R : f[x] \in Int
    BY <1>1
  <2> QED
    BY <1>2, <1>3, <2>1, SumTakes
<1>7. g[R] = f[y] + g[S]
  BY <1>2, <1>6
<1> QED
  BY <1>1, <1>3, <1>4, <1>5, <1>7

\* One term that changes.
LEMMA SumChanges ==
    ASSUME NEW f, NEW h, NEW S, IsFiniteSet(S), NEW y \in S,
           \A x \in S : f[x] \in Int /\ h[x] \in Int, \A x \in S \ {y} : h[x] = f[x]
    PROVE  SumFunctionOnSet(h, S) = SumFunctionOnSet(f, S) - f[y] + h[y]
<1> DEFINE R == S \ {y}
<1>1. S = R \cup {y} /\ y \notin R /\ R \subseteq S
  OBVIOUS
<1>2. IsFiniteSet(R)
  BY FS_RemoveElement
<1> HIDE DEF R
<1>3. SumFunctionOnSet(h, R) = SumFunctionOnSet(f, R)
  BY <1>2, SumSame DEF R
<1>4. SumFunctionOnSet(f, S) = f[y] + SumFunctionOnSet(f, R)
  BY <1>1, <1>2, SumAdds
<1>5. SumFunctionOnSet(h, S) = h[y] + SumFunctionOnSet(h, R)
  BY <1>1, <1>2, SumAdds
<1>6. SumFunctionOnSet(f, R) \in Int
  BY <1>1, <1>2, SumInt
<1> QED
  BY <1>1, <1>3, <1>4, <1>5, <1>6
-----------------------------------------------------------------------------
(* Sums over intervals of numbers.  Those ending in Past say how far the    *)
(* interval goes, for induction; the ones cited elsewhere say where it ends. *)

LEMMA SumGrows ==
    ASSUME NEW f, NEW a \in Int, NEW b \in Int, a <= b + 1, \A x \in a..(b + 1) : f[x] \in Int
    PROVE  SumFunctionOnSet(f, a..(b + 1)) = f[b + 1] + SumFunctionOnSet(f, a..b)
<1>1. IsFiniteSet(a..b)
  BY FS_Interval
<1>2. a..(b + 1) = (a..b) \cup {b + 1} /\ b + 1 \notin a..b
  OBVIOUS
<1> QED
  BY ZenonT(60), <1>1, <1>2, SumAdds

\* A sum of zeros.
LEMMA ZerosPast ==
    ASSUME NEW f, NEW a \in Int, NEW n \in Nat, \A x \in a..(a + n - 1) : f[x] = 0
    PROVE  SumFunctionOnSet(f, a..(a + n - 1)) = 0
<1> DEFINE T == {k \in 0..n : SumFunctionOnSet(f, a..(a + k - 1)) # 0}
<1> SUFFICES ASSUME T # {} PROVE FALSE
  <2>1. n \in 0..n
    OBVIOUS
  <2> QED
    BY <2>1
<1>1. PICK k \in T : \A m \in T : k <= m
  <2>1. T \subseteq Nat
    OBVIOUS
  <2> HIDE DEF T
  <2> QED
    BY <2>1, LeastNumber
<1>2. CASE k = 0
  <2>1. a..(a + k - 1) = {}
    BY <1>2
  <2> QED
    BY <1>1, <2>1, SumOfNone
<1>3. CASE k # 0
  <2>1. k - 1 \in 0..n /\ k - 1 \notin T
    <3>1. k - 1 \in 0..n /\ k \in 0..n
      BY <1>1, <1>3
    <3>2. k - 1 \notin T
      <4> HIDE DEF T
      <4> QED
        BY <1>1, <3>1
    <3> QED
      BY <3>1, <3>2
  <2>2. PICK c \in Int : c = a + (k - 1) - 1
    BY <1>1
  <2>3. a <= c + 1 /\ c + 1 = a + k - 1 /\ c + 1 \in a..(a + n - 1)
    BY <1>1, <1>3, <2>2
  <2>4. \A x \in a..(c + 1) : f[x] \in Int
    <3>1. \A x \in a..(c + 1) : f[x] = 0
      BY <1>1, <2>3
    <3> QED
      BY <3>1
  <2>5. SumFunctionOnSet(f, a..c) = 0
    BY <2>1, <2>2
  <2>6. SumFunctionOnSet(f, a..(c + 1)) = f[c + 1] + SumFunctionOnSet(f, a..c)
    BY <2>3, <2>4, SumGrows
  <2>7. f[c + 1] = 0
    BY <2>3
  <2> QED
    BY <1>1, <2>3, <2>5, <2>6, <2>7
<1> QED
  BY <1>2, <1>3

\* A sum of numbers that are not negative is none.
LEMMA NatPast ==
    ASSUME NEW f, NEW a \in Int, NEW n \in Nat, \A x \in a..(a + n - 1) : f[x] \in Nat
    PROVE  SumFunctionOnSet(f, a..(a + n - 1)) \in Nat
<1> DEFINE T == {k \in 0..n : SumFunctionOnSet(f, a..(a + k - 1)) \notin Nat}
<1> SUFFICES ASSUME T # {} PROVE FALSE
  <2>1. n \in 0..n
    OBVIOUS
  <2> QED
    BY <2>1
<1>1. PICK k \in T : \A m \in T : k <= m
  <2>1. T \subseteq Nat
    OBVIOUS
  <2> HIDE DEF T
  <2> QED
    BY <2>1, LeastNumber
<1>2. CASE k = 0
  <2>1. a..(a + k - 1) = {}
    BY <1>2
  <2> QED
    BY <1>1, <2>1, SumOfNone
<1>3. CASE k # 0
  <2>1. k - 1 \in 0..n /\ k - 1 \notin T
    BY <1>1, <1>3
  <2> DEFINE b == a + (k - 1) - 1
  <2>2. SumFunctionOnSet(f, a..b) \in Nat
    BY <2>1
  <2>3. b \in Int /\ a <= b + 1 /\ b + 1 = a + k - 1 /\ b + 1 \in a..(a + n - 1)
    BY <1>1, <1>3
  <2>4. \A x \in a..(b + 1) : f[x] \in Int
    BY <1>1, <2>3
  <2> HIDE DEF b
  <2>5. SumFunctionOnSet(f, a..(b + 1)) = f[b + 1] + SumFunctionOnSet(f, a..b)
    BY <2>3, <2>4, SumGrows
  <2>6. f[b + 1] \in Nat
    BY <2>3
  <2> QED
    BY <1>1, <2>2, <2>3, <2>5, <2>6
<1> QED
  BY <1>2, <1>3

\* An interval in two parts.
LEMMA SplitsPast ==
    ASSUME NEW f, NEW a \in Int, NEW b \in Int, a <= b + 1, NEW n \in Nat,
           \A x \in a..(b + n) : f[x] \in Int
    PROVE  SumFunctionOnSet(f, a..(b + n))
             = SumFunctionOnSet(f, a..b) + SumFunctionOnSet(f, (b + 1)..(b + n))
<1> DEFINE Whole(k) == SumFunctionOnSet(f, a..(b + k))
           Rear(k) == SumFunctionOnSet(f, (b + 1)..(b + k))
           T == {k \in 0..n : Whole(k) # SumFunctionOnSet(f, a..b) + Rear(k)}
<1> SUFFICES ASSUME T # {} PROVE FALSE
  <2>1. n \in 0..n
    OBVIOUS
  <2> QED
    BY <2>1
<1>1. PICK k \in T : \A m \in T : k <= m
  <2>1. T \subseteq Nat
    OBVIOUS
  <2> HIDE DEF T
  <2> QED
    BY <2>1, LeastNumber
<1>2. SumFunctionOnSet(f, a..b) \in Int
  <2>1. IsFiniteSet(a..b)
    BY FS_Interval
  <2>2. \A x \in a..b : f[x] \in Int
    OBVIOUS
  <2> QED
    BY <2>1, <2>2, SumInt
<1>3. CASE k = 0
  <2>1. (b + 1)..(b + k) = {} /\ b + k = b
    BY <1>3
  <2>2. Rear(k) = 0 /\ Whole(k) = SumFunctionOnSet(f, a..b)
    BY <2>1, SumOfNone
  <2> QED
    BY <1>1, <1>2, <2>2
<1>4. CASE k # 0
  <2>1. k - 1 \in 0..n /\ k - 1 \notin T
    BY <1>1, <1>4
  <2>2. PICK c \in Int : c = b + (k - 1)
    BY <1>1
  <2>3. a <= c + 1 /\ b + 1 <= c + 1 /\ c + 1 = b + k /\ c + 1 \in a..(b + n)
    BY <1>1, <1>4, <2>2
  <2>4. \A x \in a..(c + 1) : f[x] \in Int
    BY <1>1, <2>3
  <2>5. \A x \in (b + 1)..(c + 1) : f[x] \in Int
    BY <1>1, <2>3
  <2>6. SumFunctionOnSet(f, a..c)
          = SumFunctionOnSet(f, a..b) + SumFunctionOnSet(f, (b + 1)..c)
    BY <2>1, <2>2
  <2>7. SumFunctionOnSet(f, a..(c + 1)) = f[c + 1] + SumFunctionOnSet(f, a..c)
    BY <2>3, <2>4, SumGrows
  <2>8. SumFunctionOnSet(f, (b + 1)..(c + 1)) = f[c + 1] + SumFunctionOnSet(f, (b + 1)..c)
    BY <2>3, <2>5, SumGrows
  <2>9. SumFunctionOnSet(f, (b + 1)..c) \in Int
    <3>1. IsFiniteSet((b + 1)..c)
      BY FS_Interval
    <3>2. \A x \in (b + 1)..c : f[x] \in Int
      BY <2>5
    <3> QED
      BY <3>1, <3>2, SumInt
  <2>10. f[c + 1] \in Int
    BY <2>3
  <2>11. SumFunctionOnSet(f, a..(c + 1))
           = SumFunctionOnSet(f, a..b) + SumFunctionOnSet(f, (b + 1)..(c + 1))
    BY <1>2, <2>6, <2>7, <2>8, <2>9, <2>10
  <2> QED
    BY <1>1, <2>3, <2>11
<1> QED
  BY <1>3, <1>4

LEMMA SumZeros ==
    ASSUME NEW f, NEW a \in Int, NEW b \in Int, a <= b + 1, \A x \in a..b : f[x] = 0
    PROVE  SumFunctionOnSet(f, a..b) = 0
<1>1. PICK n \in Nat : n = b + 1 - a
  OBVIOUS
<1>2. a + n - 1 = b
  BY <1>1
<1>3. SumFunctionOnSet(f, a..(a + n - 1)) = 0
  <2>1. \A x \in a..(a + n - 1) : f[x] = 0
    BY <1>2
  <2> QED
    BY <2>1, ZerosPast
<1> QED
  BY <1>2, <1>3

LEMMA SumNat ==
    ASSUME NEW f, NEW a \in Int, NEW b \in Int, a <= b + 1, \A x \in a..b : f[x] \in Nat
    PROVE  SumFunctionOnSet(f, a..b) \in Nat
<1>1. PICK n \in Nat : n = b + 1 - a
  OBVIOUS
<1>2. a + n - 1 = b
  BY <1>1
<1>3. SumFunctionOnSet(f, a..(a + n - 1)) \in Nat
  <2>1. \A x \in a..(a + n - 1) : f[x] \in Nat
    BY <1>2
  <2> QED
    BY <2>1, NatPast
<1> QED
  BY <1>2, <1>3

LEMMA SumSplits ==
    ASSUME NEW f, NEW a \in Int, NEW b \in Int, NEW c \in Int, a <= b + 1, b <= c,
           \A x \in a..c : f[x] \in Int
    PROVE  SumFunctionOnSet(f, a..c)
             = SumFunctionOnSet(f, a..b) + SumFunctionOnSet(f, (b + 1)..c)
<1>1. PICK n \in Nat : n = c - b
  OBVIOUS
<1>2. b + n = c
  BY <1>1
<1>3. SumFunctionOnSet(f, a..(b + n))
        = SumFunctionOnSet(f, a..b) + SumFunctionOnSet(f, (b + 1)..(b + n))
  <2>1. \A x \in a..(b + n) : f[x] \in Int
    BY <1>2
  <2> QED
    BY <2>1, SplitsPast
<1> QED
  BY <1>2, <1>3

\* The same terms, each one place further on.
LEMMA SumShifts ==
    ASSUME NEW f, NEW h, NEW a \in Int, NEW b \in Int, a <= b + 1,
           \A x \in a..b : f[x] \in Int /\ h[x + 1] = f[x],
           NEW c \in Int, c = a + 1, NEW d \in Int, d = b + 1
    PROVE  SumFunctionOnSet(h, c..d) = SumFunctionOnSet(f, a..b)
<1>0. PICK n \in Nat : n = b + 1 - a
  OBVIOUS
<1>n. a + n - 1 = b /\ a + n = d /\ a + 1 = c
  BY <1>0
<1> DEFINE T == {k \in 0..n : SumFunctionOnSet(h, (a + 1)..(a + k))
                                # SumFunctionOnSet(f, a..(a + k - 1))}
<1> SUFFICES ASSUME T # {} PROVE FALSE
  <2>1. n \in 0..n
    OBVIOUS
  <2> QED
    BY <1>n, <2>1
<1>1. PICK k \in T : \A m \in T : k <= m
  <2>1. T \subseteq Nat
    OBVIOUS
  <2> HIDE DEF T
  <2> QED
    BY <2>1, LeastNumber
<1>2. CASE k = 0
  <2>1. (a + 1)..(a + k) = {} /\ a..(a + k - 1) = {}
    BY <1>2
  <2> QED
    BY <1>1, <2>1, SumOfNone
<1>3. CASE k # 0
  <2>1. k - 1 \in 0..n /\ k - 1 \notin T
    <3>1. k - 1 \in 0..n /\ k \in 0..n
      BY <1>1, <1>3
    <3>2. k - 1 \notin T
      <4> HIDE DEF T
      <4> QED
        BY <1>1, <3>1
    <3> QED
      BY <3>1, <3>2
  <2>2. PICK e \in Int : e = a + (k - 1) - 1
    BY <1>1
  <2>3. /\ a <= e + 1 /\ e + 1 = a + k - 1 /\ e + 2 = a + k /\ a + (k - 1) = e + 1
        /\ e + 1 \in a..b
    BY <1>n, <1>1, <1>3, <2>2
  <2>4. \A x \in a..(e + 1) : f[x] \in Int
    BY <1>n, <1>1, <2>3
  <2>5. \A x \in (a + 1)..(e + 1 + 1) : h[x] \in Int
    <3>1. ASSUME NEW x \in (a + 1)..(e + 1 + 1) PROVE h[x] \in Int
      <4>1. x - 1 \in a..b /\ (x - 1) + 1 = x
        BY <1>n, <1>1, <2>3
      <4> QED
        BY <4>1
    <3> QED
      BY <3>1
  <2>6. SumFunctionOnSet(h, (a + 1)..(e + 1)) = SumFunctionOnSet(f, a..e)
    BY <2>1, <2>2, <2>3
  <2>7. SumFunctionOnSet(f, a..(e + 1)) = f[e + 1] + SumFunctionOnSet(f, a..e)
    BY <2>3, <2>4, SumGrows
  <2>8. SumFunctionOnSet(h, (a + 1)..(e + 1 + 1))
          = h[e + 1 + 1] + SumFunctionOnSet(h, (a + 1)..(e + 1))
    BY <2>3, <2>5, SumGrows
  <2>9. h[e + 1 + 1] = f[e + 1] /\ e + 1 + 1 = a + k
    BY <2>3
  <2> QED
    BY <1>1, <2>3, <2>6, <2>7, <2>8, <2>9
<1> QED
  BY <1>2, <1>3

LEMMA TimesPlus ==
    ASSUME NEW k \in Int, NEW a \in Int, NEW b \in Int
    PROVE  k * a \in Int /\ k * b \in Int /\ k * (a + b) = k * a + k * b /\ a * k = k * a
  OBVIOUS

\* Terms with a multiple of another's taken off.
LEMMA SumTakesOff ==
    ASSUME NEW f, NEW r, NEW h, NEW k \in Int, NEW n \in Nat,
           \A x \in 1..n : f[x] \in Int /\ r[x] \in Int /\ h[x] = f[x] - k * r[x]
    PROVE  SumFunctionOnSet(h, 1..n) = SumFunctionOnSet(f, 1..n) - k * SumFunctionOnSet(r, 1..n)
<1> DEFINE T == {m \in 0..n : SumFunctionOnSet(h, 1..m)
                    # SumFunctionOnSet(f, 1..m) - k * SumFunctionOnSet(r, 1..m)}
<1> SUFFICES ASSUME T # {} PROVE FALSE
  <2>1. n \in 0..n
    OBVIOUS
  <2> QED
    BY <2>1
<1>1. PICK m \in T : \A q \in T : m <= q
  <2>1. T \subseteq Nat
    OBVIOUS
  <2> HIDE DEF T
  <2> QED
    BY <2>1, LeastNumber
<1>2. CASE m = 0
  <2>1. 1..m = {} /\ k * 0 = 0
    BY <1>2
  <2> QED
    BY <1>1, <2>1, SumOfNone
<1>3. CASE m # 0
  <2>1. PICK q \in Nat : m = q + 1
    <3>1. m - 1 \in Nat /\ m = (m - 1) + 1
      BY <1>1, <1>3
    <3> QED
      BY <3>1
  <2>2. q \in 0..n /\ q \notin T /\ q + 1 \in 1..n
    <3>1. q \in 0..n /\ m \in 0..n /\ q + 1 \in 1..n
      BY <1>1, <2>1
    <3>2. q \notin T
      <4> HIDE DEF T
      <4> QED
        BY <1>1, <2>1, <3>1
    <3> QED
      BY <3>1, <3>2
  <2>3. \A x \in 1..(q + 1) : f[x] \in Int /\ r[x] \in Int /\ h[x] = f[x] - k * r[x]
    BY <2>2
  <2>4. \A x \in 1..(q + 1) : f[x] \in Int /\ r[x] \in Int /\ h[x] \in Int
    <3>1. ASSUME NEW x \in 1..(q + 1) PROVE h[x] \in Int
      BY SMTT(40), <2>3, TimesPlus
    <3> QED
      BY <2>3, <3>1
  <2>5. /\ SumFunctionOnSet(f, 1..(q + 1)) = f[q + 1] + SumFunctionOnSet(f, 1..q)
        /\ SumFunctionOnSet(r, 1..(q + 1)) = r[q + 1] + SumFunctionOnSet(r, 1..q)
        /\ SumFunctionOnSet(h, 1..(q + 1)) = h[q + 1] + SumFunctionOnSet(h, 1..q)
    <3>1. 1 \in Int /\ 1 <= q + 1
      OBVIOUS
    <3>2. \A x \in 1..(q + 1) : f[x] \in Int
      BY <2>4
    <3>3. \A x \in 1..(q + 1) : r[x] \in Int
      BY <2>4
    <3>4. \A x \in 1..(q + 1) : h[x] \in Int
      BY <2>4
    <3>5. SumFunctionOnSet(f, 1..(q + 1)) = f[q + 1] + SumFunctionOnSet(f, 1..q)
      BY <3>1, <3>2, SumGrows
    <3>6. SumFunctionOnSet(r, 1..(q + 1)) = r[q + 1] + SumFunctionOnSet(r, 1..q)
      BY <3>1, <3>3, SumGrows
    <3>7. SumFunctionOnSet(h, 1..(q + 1)) = h[q + 1] + SumFunctionOnSet(h, 1..q)
      BY <3>1, <3>4, SumGrows
    <3> QED
      BY <3>5, <3>6, <3>7
  <2>6. SumFunctionOnSet(f, 1..q) \in Int /\ SumFunctionOnSet(r, 1..q) \in Int
    <3>1. IsFiniteSet(1..q)
      BY FS_Interval
    <3>2. \A x \in 1..q : f[x] \in Int
      BY <2>4
    <3>3. \A x \in 1..q : r[x] \in Int
      BY <2>4
    <3> QED
      BY <3>1, <3>2, <3>3, SumInt
  <2>7. SumFunctionOnSet(h, 1..q) = SumFunctionOnSet(f, 1..q) - k * SumFunctionOnSet(r, 1..q)
    BY <2>2
  <2>8. h[q + 1] = f[q + 1] - k * r[q + 1] /\ f[q + 1] \in Int /\ r[q + 1] \in Int
    BY <2>2
  <2>9. PICK R \in Int, a \in Int, b \in Int :
            /\ R = SumFunctionOnSet(r, 1..q) /\ a = r[q + 1] /\ b = k * a + k * R
            /\ k * (a + R) = b /\ k * a \in Int /\ k * R \in Int
    BY <2>6, <2>8, TimesPlus
  <2>10. SumFunctionOnSet(h, 1..(q + 1))
           = SumFunctionOnSet(f, 1..(q + 1)) - k * SumFunctionOnSet(r, 1..(q + 1))
    <3>1. SumFunctionOnSet(r, 1..(q + 1)) = a + R
      BY <2>5, <2>9
    <3>2. PICK p1 \in Int, p2 \in Int : p1 = k * a /\ p2 = k * R /\ b = p1 + p2
      BY <2>9
    <3>3. SumFunctionOnSet(h, 1..(q + 1)) = f[q + 1] - p1 + (SumFunctionOnSet(f, 1..q) - p2)
      BY <2>5, <2>7, <2>8, <2>9, <3>2
    <3>4. SumFunctionOnSet(h, 1..(q + 1)) = SumFunctionOnSet(f, 1..(q + 1)) - b
      BY SMTT(40), <2>5, <2>6, <2>8, <3>2, <3>3
    <3> QED
      BY <2>9, <3>1, <3>4
  <2> QED
    BY <1>1, <2>1, <2>10
<1> QED
  BY <1>2, <1>3

\* Terms of which none is more than its share of the whole.
LEMMA SumOfShares ==
    ASSUME NEW h, NEW n \in Nat, n > 0, NEW K \in Int,
           \A x \in 1..n : h[x] \in Int /\ n * h[x] <= K
    PROVE  SumFunctionOnSet(h, 1..n) <= K
<1> DEFINE Sum(m) == SumFunctionOnSet(h, 1..m)
           T == {m \in 0..n : ~ (n * Sum(m) <= m * K)}
<1>i. \A m \in 0..n : Sum(m) \in Int
  <2>1. ASSUME NEW m \in 0..n PROVE Sum(m) \in Int
    <3>1. IsFiniteSet(1..m)
      BY FS_Interval
    <3>2. \A x \in 1..m : h[x] \in Int
      OBVIOUS
    <3> QED
      BY <3>1, <3>2, SumInt
  <2> QED
    BY <2>1
<1>t. T = {}
  <2> SUFFICES ASSUME T # {} PROVE FALSE
    OBVIOUS
  <2>1. PICK m \in T : \A q \in T : m <= q
    <3>1. T \subseteq Nat
      OBVIOUS
    <3> HIDE DEF T
    <3> QED
      BY <3>1, LeastNumber
  <2>2. CASE m = 0
    <3>1. 1..m = {} /\ n * 0 = 0 /\ 0 * K = 0
      BY <2>2
    <3> QED
      BY <2>1, <2>2, <3>1, SumOfNone
  <2>3. CASE m # 0
    <3>1. PICK q \in Nat : m = q + 1
      <4>1. m - 1 \in Nat /\ m = (m - 1) + 1
        BY <2>1, <2>3
      <4> QED
        BY <4>1
    <3>2. q \in 0..n /\ q \notin T /\ q + 1 \in 1..n
      <4>1. q \in 0..n /\ m \in 0..n /\ q + 1 \in 1..n
        BY <2>1, <3>1
      <4>2. q \notin T
        <5> HIDE DEF T
        <5> QED
          BY <2>1, <3>1, <4>1
      <4> QED
        BY <4>1, <4>2
    <3>3. SumFunctionOnSet(h, 1..(q + 1)) = h[q + 1] + SumFunctionOnSet(h, 1..q)
      <4>1. 1 \in Int /\ 1 <= q + 1 /\ \A x \in 1..(q + 1) : h[x] \in Int
        BY <3>2
      <4> QED
        BY <4>1, SumGrows
    <3>4. PICK S \in Int, a \in Int : S = Sum(q) /\ a = h[q + 1] /\ n * a <= K
      BY <3>2, <1>i
    <3>5. n * S <= q * K
      BY <3>2, <3>4
    <3>6. n * (a + S) = n * a + n * S /\ n * a \in Int /\ n * S \in Int
      BY TimesPlus
    <3>7. K * (q + 1) = K * q + K * 1 /\ q * K = K * q /\ K * q \in Int /\ (q + 1) * K = K * (q + 1)
      BY TimesPlus
    <3>8. K * 1 = K
      OBVIOUS
    <3>9. n * (a + S) <= (q + 1) * K
      <4>1. PICK u \in Int, v \in Int, w \in Int : u = n * a /\ v = n * S /\ w = q * K
        BY <3>6, <3>7
      <4>2. u <= K /\ v <= w /\ n * (a + S) = u + v /\ (q + 1) * K = w + K
        BY <3>4, <3>5, <3>6, <3>7, <3>8, <4>1
      <4> QED
        BY <4>2
    <3> QED
      BY <2>1, <3>1, <3>3, <3>4, <3>9
  <2> QED
    BY <2>2, <2>3
<1>1. PICK S \in Int : S = Sum(n) /\ n * S <= n * K
  <2>1. n \in 0..n
    OBVIOUS
  <2> QED
    BY <1>i, <1>t, <2>1
<1>2. S <= K
  <2> SUFFICES ASSUME S > K PROVE FALSE
    OBVIOUS
  <2>1. PICK d \in Nat : S = K + d /\ d > 0
    <3>1. S - K \in Nat /\ S = K + (S - K)
      OBVIOUS
    <3> QED
      BY <3>1
  <2>2. n * (K + d) = n * K + n * d /\ n * K \in Int /\ n * d \in Int
    BY TimesPlus
  <2>3. n * d > 0
    BY <2>1
  <2> QED
    BY <1>1, <2>1, <2>2, <2>3
<1> QED
  BY <1>1, <1>2

-----------------------------------------------------------------------------
(* Lists built step by step.                                               *)

\* f is the run of N steps from b, within D; step n takes d to st[n][d].
StepsOf(f, b, st, N, D) ==
    f \in [0..N -> D] /\ f[0] = b /\ \A n \in 1..N : f[n] = st[n][f[n - 1]]

LEMMA RunExists ==
    ASSUME NEW D, NEW b \in D, NEW N \in Nat, NEW st \in [1..N -> [D -> D]]
    PROVE  \E f : StepsOf(f, b, st, N, D)
<1> DEFINE T == {M \in 0..N : ~ \E f : StepsOf(f, b, st, M, D)}
<1>1. T = {}
  <2> SUFFICES ASSUME T # {} PROVE FALSE
    OBVIOUS
  <2>1. PICK M \in T : \A m \in T : M <= m
    <3>1. T \subseteq Nat
      OBVIOUS
    <3> HIDE DEF T
    <3> QED
      BY <3>1, LeastNumber
  <2>2. M # 0
    <3>1. StepsOf([n \in 0..0 |-> b], b, st, 0, D)
      BY DEF StepsOf
    <3> QED
      BY <3>1
  <2>3. M - 1 \in 0..N /\ M - 1 \notin T /\ M \in 1..N
    BY <2>1, <2>2
  <2>4. PICK f : StepsOf(f, b, st, M - 1, D)
    BY <2>3
  <2>5. f[M - 1] \in D /\ st[M][f[M - 1]] \in D
    <3>1. f[M - 1] \in D
      BY <2>3, <2>4 DEF StepsOf
    <3> QED
      BY <2>3, <3>1
  <2> DEFINE g == [n \in 0..M |-> IF n = M THEN st[M][f[M - 1]] ELSE f[n]]
  <2>6. g \in [0..M -> D] /\ g[0] = b
    BY <2>2, <2>3, <2>4, <2>5 DEF StepsOf
  <2>7. \A n \in 1..M : g[n] = st[n][g[n - 1]]
    BY <2>3, <2>4 DEF StepsOf
  <2>8. StepsOf(g, b, st, M, D)
    BY <2>6, <2>7 DEF StepsOf
  <2> QED
    BY <2>1, <2>8
<1> QED
  BY <1>1

-----------------------------------------------------------------------------
(* What Keep keeps.                                                        *)

IsKeep(f, s, S) ==
    f = [n \in 0..Len(s) |->
            IF n = 0 THEN <<>>
            ELSE IF s[n] \in S THEN Append(f[n - 1], s[n]) ELSE f[n - 1]]

LEMMA KeepIs ==
    ASSUME NEW s, NEW S
    PROVE  Keep(s, S) = (CHOOSE f : IsKeep(f, s, S))[Len(s)]
  BY DEF Keep, IsKeep

\* f[n] is what is kept of the first n.
Keeps(f, s, S, X) ==
    /\ f \in [0..Len(s) -> Seq(X)] /\ f[0] = <<>>
    /\ \A n \in 1..Len(s) : f[n] = IF s[n] \in S THEN Append(f[n - 1], s[n]) ELSE f[n - 1]

LEMMA KeepsIsKeep ==
    ASSUME NEW X, NEW s \in Seq(X), NEW S, NEW f, Keeps(f, s, S, X)
    PROVE  IsKeep(f, s, S)
<1> DEFINE g == [n \in 0..Len(s) |->
            IF n = 0 THEN <<>>
            ELSE IF s[n] \in S THEN Append(f[n - 1], s[n]) ELSE f[n - 1]]
<1>1. \A n \in 0..Len(s) : f[n] = g[n]
  <2> SUFFICES ASSUME NEW n \in 0..Len(s) PROVE f[n] = g[n]
    OBVIOUS
  <2>1. CASE n = 0
    BY <2>1 DEF Keeps
  <2>2. CASE n \in 1..Len(s)
    BY <2>2 DEF Keeps
  <2> QED
    BY <2>1, <2>2
<1>2. f = [n \in 0..Len(s) |-> f[n]]
  BY DEF Keeps
<1>3. f = g
  BY <1>1, <1>2
<1> QED
  BY <1>3 DEF IsKeep

LEMMA KeepRuns ==
    ASSUME NEW X, NEW s \in Seq(X), NEW S
    PROVE  \E f : Keeps(f, s, S, X) /\ Keep(s, S) = f[Len(s)]
<1> DEFINE D == Seq(X)
           N == Len(s)
           st == [n \in 1..N |-> [d \in D |-> IF s[n] \in S THEN Append(d, s[n]) ELSE d]]
<1>1. N \in Nat /\ <<>> \in D /\ \A n \in 1..N : s[n] \in X
  OBVIOUS
<1>2. st \in [1..N -> [D -> D]]
  <2> SUFFICES ASSUME NEW n \in 1..N, NEW d \in D
               PROVE  (IF s[n] \in S THEN Append(d, s[n]) ELSE d) \in D
    OBVIOUS
  <2> QED
    BY <1>1
<1>3. \E f : StepsOf(f, <<>>, st, N, D)
  <2> HIDE DEF st, D, N
  <2> QED
    BY <1>1, <1>2, RunExists
<1>4. PICK f : StepsOf(f, <<>>, st, N, D)
  BY <1>3
<1>5. Keeps(f, s, S, X)
  <2>1. f \in [0..N -> D] /\ f[0] = <<>> /\ \A n \in 1..N : f[n] = st[n][f[n - 1]]
    BY <1>4 DEF StepsOf
  <2> SUFFICES ASSUME NEW n \in 1..N
               PROVE  f[n] = IF s[n] \in S THEN Append(f[n - 1], s[n]) ELSE f[n - 1]
    BY <2>1 DEF Keeps
  <2>2. f[n - 1] \in D
    <3>1. n - 1 \in 0..N
      BY <1>1
    <3> QED
      BY <2>1, <3>1
  <2>3. f[n] = st[n][f[n - 1]]
    BY <2>1
  <2> QED
    BY <2>2, <2>3
<1>6. IsKeep(f, s, S)
  BY <1>5, KeepsIsKeep
<1> DEFINE k == CHOOSE x : IsKeep(x, s, S)
<1>7. IsKeep(k, s, S)
  BY <1>6
<1>8. Keep(s, S) = k[Len(s)]
  BY KeepIs
<1>9. \A n \in 0..N : k[n] = f[n]
  <2> DEFINE T == {n \in 0..N : k[n] # f[n]}
  <2> SUFFICES ASSUME T # {} PROVE FALSE
    OBVIOUS
  <2>0. \A n \in 0..N : k[n] = IF n = 0 THEN <<>>
                              ELSE IF s[n] \in S THEN Append(k[n - 1], s[n]) ELSE k[n - 1]
    <3> HIDE DEF k
    <3> QED
      BY <1>7 DEF IsKeep
  <2> HIDE DEF k
  <2>1. PICK n \in T : \A m \in T : n <= m
    <3>1. T \subseteq Nat
      OBVIOUS
    <3> HIDE DEF T
    <3> QED
      BY <3>1, LeastNumber
  <2>2. n # 0
    BY <2>0, <1>5 DEF Keeps
  <2>3. n - 1 \in 0..N /\ n - 1 \notin T /\ n \in 1..N
    BY <2>1, <2>2
  <2>4. k[n - 1] = f[n - 1]
    BY <2>3
  <2>5. f[n] = IF s[n] \in S THEN Append(f[n - 1], s[n]) ELSE f[n - 1]
    BY <2>3, <1>5 DEF Keeps
  <2>6. k[n] = IF s[n] \in S THEN Append(k[n - 1], s[n]) ELSE k[n - 1]
    BY <2>0, <2>2
  <2> QED
    BY <2>4, <2>5, <2>6
<1> HIDE DEF k
<1> QED
  BY <1>1, <1>5, <1>8, <1>9

LEMMA KeepAppend ==
    ASSUME NEW X, NEW s \in Seq(X), NEW e \in X, NEW S
    PROVE  Keep(Append(s, e), S) = IF e \in S THEN Append(Keep(s, S), e) ELSE Keep(s, S)
<1> DEFINE t == Append(s, e)
<1>1. t \in Seq(X) /\ Len(t) = Len(s) + 1 /\ t[Len(t)] = e /\ \A n \in 1..Len(s) : t[n] = s[n]
  OBVIOUS
<1>2. PICK f : Keeps(f, s, S, X) /\ Keep(s, S) = f[Len(s)]
  BY KeepRuns
<1>3. PICK g : Keeps(g, t, S, X) /\ Keep(t, S) = g[Len(t)]
  BY <1>1, KeepRuns
<1> HIDE DEF t
<1>4. Len(s) \in Nat /\ Len(t) \in Nat
  BY <1>1
<1>5. \A n \in 0..Len(s) : g[n] = f[n]
  <2> DEFINE T == {n \in 0..Len(s) : g[n] # f[n]}
  <2> SUFFICES ASSUME T # {} PROVE FALSE
    OBVIOUS
  <2>1. PICK n \in T : \A m \in T : n <= m
    <3>1. T \subseteq Nat
      OBVIOUS
    <3> HIDE DEF T
    <3> QED
      BY <3>1, LeastNumber
  <2>2. n # 0
    BY <1>2, <1>3 DEF Keeps
  <2>3. n - 1 \in 0..Len(s) /\ n - 1 \notin T /\ n \in 1..Len(s) /\ n \in 1..Len(t)
    BY <2>1, <2>2, <1>1, <1>4
  <2>4. g[n - 1] = f[n - 1] /\ t[n] = s[n]
    BY <2>3, <1>1
  <2>5. f[n] = IF s[n] \in S THEN Append(f[n - 1], s[n]) ELSE f[n - 1]
    BY <2>3, <1>2 DEF Keeps
  <2>6. g[n] = IF t[n] \in S THEN Append(g[n - 1], t[n]) ELSE g[n - 1]
    BY <2>3, <1>3 DEF Keeps
  <2> QED
    BY <2>4, <2>5, <2>6
<1>6. Len(t) \in 1..Len(t) /\ Len(t) - 1 = Len(s) /\ Len(s) \in 0..Len(s)
  BY <1>1, <1>4
<1>7. g[Len(t)] = IF t[Len(t)] \in S THEN Append(g[Len(t) - 1], t[Len(t)]) ELSE g[Len(t) - 1]
  BY <1>3, <1>6 DEF Keeps
<1>8. g[Len(t) - 1] = f[Len(s)]
  BY <1>5, <1>6
<1> QED
  BY <1>1, <1>2, <1>3, <1>7, <1>8 DEF t

\* Of no list nothing is kept.
LEMMA KeepNone == \A S : Keep(<<>>, S) = <<>>
<1> TAKE S
<1>1. <<>> \in Seq({}) /\ Len(<<>>) = 0
  OBVIOUS
<1>2. PICK f : Keeps(f, <<>>, S, {}) /\ Keep(<<>>, S) = f[Len(<<>>)]
  BY <1>1, KeepRuns
<1> QED
  BY <1>1, <1>2 DEF Keeps

\* Each of the kept is one of S in the list, there are no more of them.
LEMMA KeepIn ==
    ASSUME NEW X, NEW s \in Seq(X), NEW S
    PROVE  /\ Keep(s, S) \in Seq(X) /\ Len(Keep(s, S)) <= Len(s)
           /\ \A i \in 1..Len(Keep(s, S)) : Keep(s, S)[i] \in S
<1>1. PICK f : Keeps(f, s, S, X) /\ Keep(s, S) = f[Len(s)]
  BY KeepRuns
<1>2. Len(s) \in Nat /\ \A n \in 0..Len(s) : f[n] \in Seq(X) /\ Len(f[n]) \in Nat
  BY <1>1 DEF Keeps
<1> DEFINE Good(n) == Len(f[n]) <= n /\ \A i \in 1..Len(f[n]) : f[n][i] \in S
           T == {n \in 0..Len(s) : ~Good(n)}
<1>3. T = {}
  <2> SUFFICES ASSUME T # {} PROVE FALSE
    OBVIOUS
  <2>1. PICK n \in T : \A m \in T : n <= m
    <3>1. T \subseteq Nat
      OBVIOUS
    <3> HIDE DEF T
    <3> QED
      BY <3>1, LeastNumber
  <2>2. n # 0
    BY <1>1 DEF Keeps
  <2>3. n - 1 \in 0..Len(s) /\ n - 1 \notin T /\ n \in 1..Len(s)
    BY SMTT(40), <1>2, <2>1, <2>2
  <2>4. Good(n - 1)
    BY <2>3
  <2>5. f[n] = IF s[n] \in S THEN Append(f[n - 1], s[n]) ELSE f[n - 1]
    BY <2>3, <1>1 DEF Keeps
  <2>6. PICK h \in Seq(X), k \in Seq(X) : h = f[n - 1] /\ k = f[n]
    BY <1>2, <2>3
  <2>7. Len(h) \in Nat /\ Len(k) \in Nat /\ s[n] \in X /\ n \in Nat
    BY SMTT(40), <2>3
  <2>11. ~(Len(k) <= n /\ \A i \in 1..Len(k) : k[i] \in S)
    BY <2>1, <2>6
  <2>8. Len(h) <= n - 1 /\ \A i \in 1..Len(h) : h[i] \in S
    BY <2>4, <2>6
  <2>9. CASE s[n] \in S
    <3>1. k = Append(h, s[n])
      BY <2>5, <2>6, <2>9
    <3>2. Len(k) = Len(h) + 1 /\ k[Len(k)] = s[n] /\ \A i \in 1..Len(h) : k[i] = h[i]
      BY <2>7, <3>1
    <3>3. Len(k) <= n
      BY <2>7, <2>8, <3>2
    <3>4. \A i \in 1..Len(k) : i \in 1..Len(h) \/ i = Len(k)
      BY <2>7, <3>2
    <3> QED
      BY <2>8, <2>9, <2>11, <3>2, <3>3, <3>4
  <2>10. CASE s[n] \notin S
    <3>1. k = h
      BY <2>5, <2>6, <2>10
    <3> QED
      BY <2>7, <2>8, <2>11, <3>1
  <2> QED
    BY <2>9, <2>10
<1>4. Good(Len(s))
  <2>1. Len(s) \in 0..Len(s) /\ Len(s) \notin T
    BY <1>2, <1>3
  <2> QED
    BY <2>1
<1> QED
  BY <1>1, <1>2, <1>4

\* The numbers of s increase.
Increasing(s) == \A i, j \in 1..Len(s) : i < j => s[i] < s[j]

\* All of s up to n that is in S is in h, and nothing else.
Selects(h, s, n, S) ==
    /\ \A i \in 1..Len(h) : \E j \in 1..n : h[i] = s[j]
    /\ \A j \in 1..n : s[j] \in S => \E i \in 1..Len(h) : h[i] = s[j]

LEMMA SelectsMore ==
    ASSUME NEW s \in Seq(Int), NEW S, Increasing(s), NEW n \in 1..Len(s),
           NEW h \in Seq(Int), Increasing(h), NEW l \in Nat, l = n - 1, Selects(h, s, l, S),
           NEW k \in Seq(Int), k = IF s[n] \in S THEN Append(h, s[n]) ELSE h
    PROVE  Increasing(k) /\ Selects(k, s, n, S)
<1>1. Len(h) \in Nat /\ Len(k) \in Nat /\ s[n] \in Int /\ n \in Nat /\ Len(s) \in Nat
  OBVIOUS
<1>2. CASE s[n] \in S
  <2>1. /\ Len(k) = Len(h) + 1 /\ k[Len(k)] = s[n] /\ Len(k) \in 1..Len(k)
        /\ \A i \in 1..Len(h) : k[i] = h[i] /\ i \in 1..Len(k)
        /\ \A i \in 1..Len(k) : i = Len(k) \/ i \in 1..Len(h)
    BY <1>1, <1>2
  <2>2. \A j \in 1..n : j = n \/ j \in 1..l
    BY <1>1
  <2>3. \A j \in 1..l : j \in 1..n /\ s[j] < s[n]
    <3> SUFFICES ASSUME NEW j \in 1..l PROVE j \in 1..n /\ s[j] < s[n]
      OBVIOUS
    <3>1. j \in 1..n /\ j \in 1..Len(s) /\ j < n
      BY <1>1
    <3> QED
      BY <3>1 DEF Increasing
  <2>4. \A i \in 1..Len(h) : h[i] < s[n]
    BY <2>3 DEF Selects
  <2>5. Increasing(k)
    <3> SUFFICES ASSUME NEW i \in 1..Len(k), NEW j \in 1..Len(k), i < j
                 PROVE  k[i] < k[j]
      BY DEF Increasing
    <3>1. i \in 1..Len(h)
      BY <1>1, <2>1
    <3>2. CASE j \in 1..Len(h)
      BY <2>1, <3>1, <3>2 DEF Increasing
    <3>3. CASE j = Len(k)
      BY <2>1, <2>4, <3>1, <3>3
    <3> QED
      BY <2>1, <3>2, <3>3
  <2>6. \A i \in 1..Len(k) : \E j \in 1..n : k[i] = s[j]
    <3> SUFFICES ASSUME NEW i \in 1..Len(k) PROVE \E j \in 1..n : k[i] = s[j]
      OBVIOUS
    <3>1. CASE i \in 1..Len(h)
      <4>1. PICK j \in 1..l : h[i] = s[j]
        BY <3>1 DEF Selects
      <4> QED
        BY <2>1, <2>3, <3>1, <4>1
    <3>2. CASE i = Len(k)
      BY <2>1, <3>2
    <3> QED
      BY <2>1, <3>1, <3>2
  <2>7. \A j \in 1..n : s[j] \in S => \E i \in 1..Len(k) : k[i] = s[j]
    <3> SUFFICES ASSUME NEW j \in 1..n, s[j] \in S PROVE \E i \in 1..Len(k) : k[i] = s[j]
      OBVIOUS
    <3>1. CASE j \in 1..l
      <4>1. PICK i \in 1..Len(h) : h[i] = s[j]
        BY <3>1 DEF Selects
      <4> QED
        BY <2>1, <4>1
    <3>2. CASE j = n
      BY <2>1, <3>2
    <3> QED
      BY <2>2, <3>1, <3>2
  <2> QED
    BY <2>5, <2>6, <2>7 DEF Selects
<1>3. CASE s[n] \notin S
  <2>1. k = h
    BY <1>3
  <2>2. \A j \in 1..n : s[j] \in S => j \in 1..l
    BY <1>1, <1>3
  <2>3. \A j \in 1..l : j \in 1..n
    BY <1>1
  <2> QED
    BY <2>1, <2>2, <2>3 DEF Selects
<1> QED
  BY <1>2, <1>3

\* Of an increasing list of numbers what is kept increases, and is all of S.
LEMMA KeepSorted ==
    ASSUME NEW s \in Seq(Int), NEW S, Increasing(s)
    PROVE  Increasing(Keep(s, S)) /\ Selects(Keep(s, S), s, Len(s), S)
<1>1. PICK f : Keeps(f, s, S, Int) /\ Keep(s, S) = f[Len(s)]
  BY KeepRuns
<1>2. Len(s) \in Nat /\ \A n \in 0..Len(s) : f[n] \in Seq(Int)
  <2>1. f \in [0..Len(s) -> Seq(Int)]
    BY <1>1 DEF Keeps
  <2>2. Len(s) \in Nat
    OBVIOUS
  <2> QED
    BY <2>1, <2>2
<1> DEFINE T == {n \in 0..Len(s) : ~(Increasing(f[n]) /\ Selects(f[n], s, n, S))}
<1>3. T = {}
  <2> SUFFICES ASSUME T # {} PROVE FALSE
    OBVIOUS
  <2>1. PICK n \in T : \A m \in T : n <= m
    <3>1. T \subseteq Nat
      OBVIOUS
    <3> HIDE DEF T
    <3> QED
      BY <3>1, LeastNumber
  <2>2. n # 0
    BY <1>1 DEF Keeps, Increasing, Selects
  <2>3. n - 1 \in 0..Len(s) /\ n - 1 \notin T /\ n \in 1..Len(s)
    BY <1>2, <2>1, <2>2
  <2>4. PICK l \in Nat : l = n - 1
    BY <2>3
  <2>5. f[n] = IF s[n] \in S THEN Append(f[l], s[n]) ELSE f[l]
    BY <2>3, <2>4, <1>1 DEF Keeps
  <2>6. f[n] \in Seq(Int) /\ f[l] \in Seq(Int) /\ Increasing(f[l]) /\ Selects(f[l], s, l, S)
    BY <1>2, <2>3, <2>4
  <2>7. Increasing(f[n]) /\ Selects(f[n], s, n, S)
    BY <2>3, <2>4, <2>5, <2>6, SelectsMore
  <2> QED
    BY <2>1, <2>7
<1> QED
  BY <1>1, <1>2, <1>3

-----------------------------------------------------------------------------
(* Ends of lists.                                                          *)

LEMMA EndGrows ==
    ASSUME NEW X, NEW s \in Seq(X), NEW e \in X, NEW t, t = Append(s, e), NEW a \in 1..Len(t)
    PROVE  SubSeq(t, a, Len(t)) = Append(SubSeq(s, a, Len(s)), e)
<1>1. /\ Len(s) \in Nat /\ Len(t) = Len(s) + 1 /\ t[Len(t)] = e
      /\ \A i \in 1..Len(s) : t[i] = s[i] /\ s[i] \in X
  BY AppendProperties
<1>2. a \in Int /\ a >= 1 /\ a <= Len(s) + 1 /\ Len(t) \in Int /\ Len(s) \in Int
  BY <1>1
<1>3. \A i \in a..Len(s) : s[i] \in X
  BY <1>1, <1>2
<1>4. \A i \in a..Len(t) : t[i] \in X
  <2> SUFFICES ASSUME NEW i \in a..Len(t) PROVE t[i] \in X
    OBVIOUS
  <2>1. i \in 1..Len(s) \/ i = Len(t)
    BY <1>1, <1>2
  <2> QED
    BY <1>1, <2>1
<1> DEFINE u == SubSeq(s, a, Len(s))
           v == SubSeq(t, a, Len(t))
           w == Append(u, e)
<1>5. u \in Seq(X) /\ Len(u) = Len(s) - a + 1 /\ \A i \in 1..(Len(s) - a + 1) : u[i] = s[a + i - 1]
  BY <1>2, <1>3, SubSeqProperties
<1>6. v \in Seq(X) /\ Len(v) = Len(t) - a + 1 /\ \A i \in 1..(Len(t) - a + 1) : v[i] = t[a + i - 1]
  BY <1>2, <1>4, SubSeqProperties
<1> HIDE DEF u, v
<1>7. /\ w \in Seq(X) /\ Len(w) = Len(u) + 1 /\ w[Len(u) + 1] = e
      /\ \A i \in 1..Len(u) : w[i] = u[i]
  BY <1>5, AppendProperties
<1> HIDE DEF w
<1>8. Len(v) = Len(w)
  BY <1>1, <1>2, <1>5, <1>6, <1>7
<1>9. \A i \in 1..Len(v) : v[i] = w[i]
  <2> SUFFICES ASSUME NEW i \in 1..Len(v) PROVE v[i] = w[i]
    OBVIOUS
  <2>1. CASE i \in 1..Len(u)
    <3>1. a + i - 1 \in 1..Len(s) /\ i \in 1..(Len(s) - a + 1) /\ i \in 1..(Len(t) - a + 1)
      BY SMTT(40), <1>1, <1>2, <1>5, <2>1
    <3>2. v[i] = t[a + i - 1] /\ u[i] = s[a + i - 1] /\ w[i] = u[i]
      BY <1>5, <1>6, <1>7, <2>1, <3>1
    <3>3. t[a + i - 1] = s[a + i - 1]
      BY <1>1, <3>1
    <3> QED
      BY <3>2, <3>3
  <2>2. CASE i = Len(u) + 1
    <3>1. i \in 1..(Len(t) - a + 1) /\ a + i - 1 = Len(t)
      BY <1>1, <1>2, <1>5, <2>2
    <3> QED
      BY <1>1, <1>6, <1>7, <2>2, <3>1
  <2> QED
    BY <1>1, <1>2, <1>5, <1>6, <2>1, <2>2
<1>10. v = w
  BY <1>6, <1>7, <1>8, <1>9, SeqEqual
<1> QED
  BY <1>10 DEF u, v, w

\* A list that is not empty is its front and its last.
LEMMA FrontAndLast ==
    ASSUME NEW X, NEW s \in Seq(X), NEW n \in 1..Len(s)
    PROVE  /\ SubSeq(s, 1, n - 1) \in Seq(X) /\ s[n] \in X
           /\ SubSeq(s, 1, n) = Append(SubSeq(s, 1, n - 1), s[n])
<1>1. Len(s) \in Nat /\ s[n] \in X /\ \A i \in 1..Len(s) : s[i] \in X
  OBVIOUS
<1>2. n \in Int /\ n - 1 \in Int /\ 1 <= n /\ n <= Len(s)
  BY <1>1
<1>3. \A i \in 1..(n - 1) : s[i] \in X
  BY <1>1, <1>2
<1>4. \A i \in 1..n : s[i] \in X
  BY <1>1, <1>2
<1> DEFINE u == SubSeq(s, 1, n - 1)
           v == SubSeq(s, 1, n)
           w == Append(u, s[n])
<1>5. u \in Seq(X) /\ Len(u) = n - 1 /\ \A i \in 1..(n - 1) : u[i] = s[i]
  BY <1>2, <1>3, SubSeqProperties
<1>6. v \in Seq(X) /\ Len(v) = n /\ \A i \in 1..n : v[i] = s[i]
  BY <1>2, <1>4, SubSeqProperties
<1> HIDE DEF u, v
<1>7. /\ w \in Seq(X) /\ Len(w) = Len(u) + 1 /\ w[Len(u) + 1] = s[n]
      /\ \A i \in 1..Len(u) : w[i] = u[i]
  BY <1>1, <1>5, AppendProperties
<1> HIDE DEF w
<1>8. Len(v) = Len(w)
  BY <1>2, <1>5, <1>6, <1>7
<1>9. \A i \in 1..Len(v) : v[i] = w[i]
  <2> SUFFICES ASSUME NEW i \in 1..Len(v) PROVE v[i] = w[i]
    OBVIOUS
  <2>1. i \in 1..Len(u) \/ i = n
    BY <1>2, <1>5, <1>6
  <2>2. n = Len(u) + 1 /\ n \in 1..n
    BY <1>2, <1>5
  <2> QED
    BY <1>5, <1>6, <1>7, <2>1, <2>2
<1>10. v = w
  BY <1>6, <1>7, <1>8, <1>9, SeqEqual
<1> QED
  BY <1>1, <1>5, <1>10 DEF u, v, w

\* What is appended changes nothing before it.
LEMMA PrefixSame ==
    ASSUME NEW X, NEW s \in Seq(X), NEW e \in X, NEW n \in 0..Len(s)
    PROVE  SubSeq(Append(s, e), 1, n) = SubSeq(s, 1, n) /\ SubSeq(s, 1, n) \in Seq(X)
<1> DEFINE t == Append(s, e)
           u == SubSeq(s, 1, n)
           v == SubSeq(t, 1, n)
<1>1. Len(s) \in Nat /\ n \in Int /\ n <= Len(s) /\ \A i \in 1..Len(s) : s[i] \in X
  OBVIOUS
<1>2. \A i \in 1..Len(s) : t[i] = s[i]
  BY AppendProperties
<1> HIDE DEF t
<1>3. \A i \in 1..n : i \in 1..Len(s)
  BY <1>1
<1>4. \A i \in 1..n : s[i] \in X /\ t[i] = s[i] /\ t[i] \in X
  BY <1>1, <1>2, <1>3
<1>5. u \in Seq(X) /\ Len(u) = (IF 1 <= n THEN n - 1 + 1 ELSE 0) /\ \A i \in 1..(n - 1 + 1) : u[i] = s[1 + i - 1]
  BY <1>1, <1>4, SubSeqProperties
<1>6. v \in Seq(X) /\ Len(v) = (IF 1 <= n THEN n - 1 + 1 ELSE 0) /\ \A i \in 1..(n - 1 + 1) : v[i] = t[1 + i - 1]
  BY <1>1, <1>4, SubSeqProperties
<1> HIDE DEF u, v
<1>7. \A i \in 1..Len(v) : i \in 1..n /\ i \in 1..(n - 1 + 1) /\ 1 + i - 1 = i
  BY <1>1, <1>6
<1>8. \A i \in 1..Len(v) : v[i] = u[i]
  BY <1>4, <1>5, <1>6, <1>7
<1>9. v = u
  BY <1>5, <1>6, <1>8, SeqEqual
<1> QED
  BY <1>5, <1>9 DEF t, u, v

LEMMA FrontOfAppend ==
    ASSUME NEW X, NEW s \in Seq(X), NEW e \in X
    PROVE  /\ SubSeq(Append(s, e), 1, Len(s)) = s
           /\ Append(s, e)[Len(s) + 1] = e /\ Len(Append(s, e)) = Len(s) + 1
<1>1. Len(s) \in Nat
  OBVIOUS
<1>2. Len(s) \in 0..Len(s)
  BY <1>1
<1> QED
  BY <1>2, PrefixSame, SubSeqFull, AppendProperties

\* A set of places that is not empty has a last one.
LEMMA LastNumber ==
    ASSUME NEW N \in Nat, NEW T, T \subseteq 1..N, T # {}
    PROVE  \E n \in T : \A m \in T : m <= n
<1> DEFINE D == {N - n : n \in T}
<1>1. D \subseteq Nat /\ D # {}
  <2>1. \A n \in T : N - n \in Nat
    OBVIOUS
  <2>2. D \subseteq Nat
    BY <2>1
  <2>3. PICK n : n \in T
    OBVIOUS
  <2>4. N - n \in D
    BY <2>3
  <2> QED
    BY <2>2, <2>4
<1>2. \E d \in D : \A c \in D : d <= c
  <2> HIDE DEF D
  <2> QED
    BY <1>1, LeastNumber
<1>3. PICK n \in T : \A c \in D : N - n <= c
  BY <1>2
<1>4. ASSUME NEW m \in T PROVE m <= n
  <2>1. N - m \in D
    OBVIOUS
  <2>2. N - n <= N - m
    BY <1>3, <2>1
  <2> QED
    BY <2>2
<1> QED
  BY <1>3, <1>4
=============================================================================
