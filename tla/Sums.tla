-------------------------------- MODULE Sums --------------------------------
(***************************************************************************)
(* What the proofs need of numbers, finite sets and sums over them: least  *)
(* and greatest elements, induction over a set of numbers or the subsets   *)
(* of a finite set, that a sum doesn't depend on the order its elements    *)
(* are taken in, that a recursive function exists whose arguments get      *)
(* smaller, and that pairs of numbers can be put in order.                 *)
(***************************************************************************)
EXTENDS Integers, Functions, FiniteSetTheorems, SequenceTheorems, TLAPS

-----------------------------------------------------------------------------
(* Induction *)

\* A set of naturals has a least element: intervals are well-founded under inclusion.
LEMMA HasLeast ==
    ASSUME NEW S \in SUBSET Nat, S # {}
    PROVE  \E x \in S : \A y \in S : x <= y
<1> DEFINE T == {0 .. x : x \in S}
           R == StrictSubsetOrdering(Nat)
<1>1. T \subseteq FiniteSubsetsOf(Nat) /\ T # {}
    <2>1. \A x \in S : 0 .. x \in FiniteSubsetsOf(Nat)
        BY FS_Interval DEF FiniteSubsetsOf
    <2> QED  BY <2>1
<1>2. IsWellFoundedOn(R, FiniteSubsetsOf(Nat))
    BY FS_StrictSubsetOrderingWellFounded
<1>3. \E t \in T : \A u \in T : <<u, t>> \notin R
    <2> HIDE DEF T, R
    <2> QED  BY <1>1, <1>2, WFMin
<1>4. PICK x \in S : \A y \in S : <<0 .. y, 0 .. x>> \notin R
    BY <1>3
<1>5. ASSUME NEW y \in S, y < x PROVE FALSE
    <2>1. 0 .. y \in SUBSET Nat /\ 0 .. x \in SUBSET Nat /\ 0 .. y \subseteq 0 .. x
        BY <1>5
    <2>2. x \in 0 .. x /\ x \notin 0 .. y
        BY <1>5
    <2>3. <<0 .. y, 0 .. x>> \in R
        BY <2>1, <2>2 DEF StrictSubsetOrdering
    <2> QED  BY <2>3, <1>4
<1> QED
    BY <1>5

LEMMA HasGreatest ==
    ASSUME NEW S \in SUBSET Nat, S # {}, NEW b \in Nat, \A x \in S : x <= b
    PROVE  \E x \in S : \A y \in S : y <= x
<1> DEFINE D == {b - x : x \in S}
<1>1. D \in SUBSET Nat /\ D # {}
    <2>1. \A x \in S : b - x \in Nat
        OBVIOUS
    <2> QED  BY <2>1
<1>2. PICK d \in D : \A e \in D : d <= e
    <2> HIDE DEF D
    <2> QED  BY <1>1, HasLeast
<1>3. PICK x \in S : d = b - x
    OBVIOUS
<1>4. \A y \in S : b - y \in D
    OBVIOUS
<1>5. \A y \in S : b - x <= b - y
    BY <1>2, <1>3, <1>4
<1> QED
    BY <1>5

\* Induction, for a set: the least number that isn't in it would follow one that is.
LEMMA SetInduction ==
    ASSUME NEW X \in SUBSET Nat, 0 \in X, \A n \in Nat : n \in X => n + 1 \in X
    PROVE  \A n \in Nat : n \in X
<1> SUFFICES ASSUME NEW m \in Nat \ X PROVE FALSE
    OBVIOUS
<1>1. PICK x \in Nat \ X : \A y \in Nat \ X : x <= y
    BY HasLeast
<1>2. x - 1 \in Nat /\ x - 1 \in X
    BY <1>1
<1> QED
    BY <1>1, <1>2

\* The same for finite sets, by their size.
LEMMA SmallerFirst ==
    ASSUME NEW U, IsFiniteSet(U), NEW X \in SUBSET SUBSET U, {} \in X,
           \A s \in SUBSET U : s # {} /\ (\A t \in SUBSET U : Cardinality(t) < Cardinality(s) => t \in X)
                               => s \in X
    PROVE  \A s \in SUBSET U : s \in X
<1> SUFFICES ASSUME NEW r \in SUBSET U, r \notin X PROVE FALSE
    OBVIOUS
<1>1. \A s \in SUBSET U : IsFiniteSet(s) /\ Cardinality(s) \in Nat
    BY FS_Subset, FS_CardinalityType
<1> DEFINE Sizes == {Cardinality(s) : s \in (SUBSET U) \ X}
<1>2. Sizes \in SUBSET Nat /\ Sizes # {}
    BY <1>1
<1>3. PICK n \in Sizes : \A m \in Sizes : n <= m
    <2> HIDE DEF Sizes
    <2> QED BY <1>2, HasLeast
<1>4. PICK s \in (SUBSET U) \ X : n = Cardinality(s)
    BY <1>3
<1>5. \A t \in SUBSET U : Cardinality(t) < Cardinality(s) => t \in X
    BY <1>1, <1>3, <1>4
<1> QED
    BY <1>4, <1>5

-----------------------------------------------------------------------------
(* Sums *)

\* What SumFunctionOnSet chooses first of a set, and how it goes on.
AnyOf(s) == CHOOSE x \in s : TRUE
SumsUp(g, f, S) == g = [s \in SUBSET S |-> IF s = {} THEN 0 ELSE f[AnyOf(s)] + g[s \ {AnyOf(s)}]]

LEMMA SumIs ==
    ASSUME NEW f, NEW S
    PROVE  SumFunctionOnSet(f, S) = (CHOOSE g : SumsUp(g, f, S))[S]
    BY DEF SumFunctionOnSet, FoldFunctionOnSet, MapThenFoldSet, SumsUp, AnyOf

LEMMA Without ==
    ASSUME NEW U, IsFiniteSet(U), NEW s \in SUBSET U, NEW x \in s
    PROVE  /\ s \ {x} \in SUBSET U
           /\ Cardinality(s) \in Nat \ {0} /\ Cardinality(s \ {x}) = Cardinality(s) - 1
    BY FS_Subset, FS_CardinalityType, FS_RemoveElement, FS_EmptySet

\* There is such a function,
LEMMA SumExists ==
    ASSUME NEW f, NEW S, IsFiniteSet(S)
    PROVE  \E g : SumsUp(g, f, S)
<1> DEFINE Next(g) == [s \in SUBSET S |-> IF s = {} THEN 0 ELSE f[AnyOf(s)] + g[s \ {AnyOf(s)}]]
           Upto(g, n) == \A s \in SUBSET S : Cardinality(s) <= n => g[s] = Next(g)[s]
           X == {n \in Nat : \E g : g = [s \in SUBSET S |-> g[s]] /\ Upto(g, n)}
<1>0. \A s \in SUBSET S : IsFiniteSet(s) /\ Cardinality(s) \in Nat
                          /\ (s # {} => AnyOf(s) \in s /\ s \ {AnyOf(s)} \in SUBSET S
                                        /\ Cardinality(s \ {AnyOf(s)}) = Cardinality(s) - 1)
    BY FS_Subset, FS_CardinalityType, Without DEF AnyOf
<1>1. 0 \in X
    <2>1. ASSUME NEW s \in SUBSET S, Cardinality(s) <= 0 PROVE s = {}
        <3>0. IsFiniteSet(s) /\ Cardinality(s) \in Nat
            BY <1>0
        <3>1. Cardinality(s) = 0
            BY <2>1, <3>0
        <3> QED
            BY <3>0, <3>1, FS_EmptySet
    <2> DEFINE g == [s \in SUBSET S |-> 0]
    <2>2. g = [s \in SUBSET S |-> g[s]] /\ Upto(g, 0)
        BY <2>1
    <2> QED
        BY <2>2
<1>2. ASSUME NEW n \in Nat, n \in X PROVE n + 1 \in X
    <2>1. PICK g : g = [s \in SUBSET S |-> g[s]] /\ Upto(g, n)
        BY <1>2
    <2> DEFINE h == Next(g)
    <2>2. h = [s \in SUBSET S |-> h[s]]
        OBVIOUS
    <2>3. ASSUME NEW s \in SUBSET S, Cardinality(s) <= n + 1 PROVE h[s] = Next(h)[s]
        <3>1. CASE s = {}
            BY <3>1
        <3>2. CASE s # {}
            <4> DEFINE t == s \ {AnyOf(s)}
            <4>1. t \in SUBSET S /\ Cardinality(t) <= n
                BY <1>0, <2>3, <3>2
            <4>2. g[t] = Next(g)[t]
                BY <2>1, <4>1
            <4>3. h[t] = g[t]
                BY <4>2
            <4>4. h[s] = f[AnyOf(s)] + g[t] /\ Next(h)[s] = f[AnyOf(s)] + h[t]
                BY <3>2
            <4> QED
                BY <4>3, <4>4
        <3> QED
            BY <3>1, <3>2
    <2>4. Upto(h, n + 1)
        BY <2>3
    <2> HIDE DEF h, Upto
    <2>5. n + 1 \in Nat
        OBVIOUS
    <2> QED
        BY <2>2, <2>4, <2>5
<1>3. Cardinality(S) \in X
    <2>1. X \in SUBSET Nat
        OBVIOUS
    <2> HIDE DEF X
    <2> QED
        BY <1>0, <1>1, <1>2, <2>1, SetInduction
<1>4. PICK g : g = [s \in SUBSET S |-> g[s]] /\ Upto(g, Cardinality(S))
    BY <1>3
<1>5. \A s \in SUBSET S : Cardinality(s) <= Cardinality(S)
    BY FS_Subset
<1>6. \A s \in SUBSET S : g[s] = Next(g)[s]
    BY <1>4, <1>5
<1>7. SumsUp(g, f, S)
    BY <1>4, <1>6 DEF SumsUp
<1> QED
    BY <1>7

\* which sums up the subsets too.
LEMMA SumsAgree ==
    ASSUME NEW f, NEW S, IsFiniteSet(S), NEW R \in SUBSET S, NEW g, SumsUp(g, f, S), NEW h, SumsUp(h, f, R)
    PROVE  \A s \in SUBSET R : g[s] = h[s]
<1> DEFINE X == {s \in SUBSET R : g[s] = h[s]}
<1>0. IsFiniteSet(R)
    BY FS_Subset
<1>1. {} \in X
    BY DEF SumsUp
<1>2. ASSUME NEW s \in SUBSET R, s # {}, \A t \in SUBSET R : Cardinality(t) < Cardinality(s) => t \in X
      PROVE  s \in X
    <2>1. AnyOf(s) \in s
        BY <1>2 DEF AnyOf
    <2>2. s \ {AnyOf(s)} \in X
        BY <1>0, <1>2, <2>1, Without
    <2> QED
        BY <1>2, <2>1, <2>2 DEF SumsUp
<1>3. X \in SUBSET SUBSET R
    OBVIOUS
<1> HIDE DEF X
<1>4. \A s \in SUBSET R : s \in X
    BY <1>0, <1>1, <1>2, <1>3, SmallerFirst
<1> QED
    BY <1>4 DEF X

LEMMA SumOf ==
    ASSUME NEW f, NEW S, IsFiniteSet(S), NEW R \in SUBSET S, NEW g, SumsUp(g, f, S)
    PROVE  SumFunctionOnSet(f, R) = g[R]
<1>1. IsFiniteSet(R)
    BY FS_Subset
<1>2. \E c : SumsUp(c, f, R) /\ SumFunctionOnSet(f, R) = c[R]
    <2> DEFINE c == CHOOSE h : SumsUp(h, f, R)
    <2>1. SumsUp(c, f, R)
        BY <1>1, SumExists
    <2>2. SumFunctionOnSet(f, R) = c[R]
        BY SumIs
    <2> HIDE DEF c
    <2> QED
        BY <2>1, <2>2
<1>3. PICK c : SumsUp(c, f, R) /\ SumFunctionOnSet(f, R) = c[R]
    BY <1>2
<1>4. \A s \in SUBSET R : g[s] = c[s]
    BY <1>3, SumsAgree
<1>5. g[R] = c[R]
    BY <1>4
<1> QED
    BY <1>3, <1>5

LEMMA SumNothing ==
    ASSUME NEW f
    PROVE  SumFunctionOnSet(f, {}) = 0
<1>1. IsFiniteSet({})
    BY FS_EmptySet
<1>2. PICK g : SumsUp(g, f, {})
    BY <1>1, SumExists
<1>3. SumFunctionOnSet(f, {}) = g[{}]
    BY <1>1, <1>2, SumOf
<1>4. g[{}] = 0
    BY <1>2 DEF SumsUp
<1> QED
    BY <1>3, <1>4

LEMMA SumInt ==
    ASSUME NEW f, NEW S, IsFiniteSet(S), \A x \in S : f[x] \in Int
    PROVE  SumFunctionOnSet(f, S) \in Int
<1>1. PICK g : SumsUp(g, f, S)
    BY SumExists
<1> DEFINE X == {s \in SUBSET S : g[s] \in Int}
<1>2. {} \in X
    BY <1>1 DEF SumsUp
<1>3. ASSUME NEW s \in SUBSET S, s # {}, \A t \in SUBSET S : Cardinality(t) < Cardinality(s) => t \in X
      PROVE  s \in X
    <2>1. AnyOf(s) \in s
        BY <1>3 DEF AnyOf
    <2>2. s \ {AnyOf(s)} \in X
        BY <1>3, <2>1, Without
    <2>3. g[s] = f[AnyOf(s)] + g[s \ {AnyOf(s)}]
        BY <1>1, <1>3 DEF SumsUp
    <2> QED
        BY <2>1, <2>2, <2>3
<1>4. X \in SUBSET SUBSET S
    OBVIOUS
<1> HIDE DEF X
<1>5. \A s \in SUBSET S : s \in X
    BY <1>2, <1>3, <1>4, SmallerFirst
<1> QED
    BY <1>1, <1>5, SumOf DEF X

\* Whichever element is taken out.
LEMMA SumTakes ==
    ASSUME NEW f, NEW S, IsFiniteSet(S), \A x \in S : f[x] \in Int, NEW x \in S
    PROVE  SumFunctionOnSet(f, S) = f[x] + SumFunctionOnSet(f, S \ {x})
<1>1. PICK g : SumsUp(g, f, S)
    BY SumExists
<1>2. \A s \in SUBSET S : g[s] \in Int
    <2>1. \A s \in SUBSET S : IsFiniteSet(s)
        BY FS_Subset
    <2>2. ASSUME NEW s \in SUBSET S PROVE SumFunctionOnSet(f, s) \in Int
        BY <2>1, SumInt
    <2>3. ASSUME NEW s \in SUBSET S PROVE SumFunctionOnSet(f, s) = g[s]
        BY <1>1, SumOf
    <2> QED BY <2>2, <2>3
<1> DEFINE X == {s \in SUBSET S : \A y \in s : g[s] = f[y] + g[s \ {y}]}
<1>3. {} \in X
    OBVIOUS
<1>4. ASSUME NEW s \in SUBSET S, s # {}, \A t \in SUBSET S : Cardinality(t) < Cardinality(s) => t \in X,
             NEW y \in s
      PROVE  g[s] = f[y] + g[s \ {y}]
    <2> DEFINE z == AnyOf(s)
    <2>1. z \in s
        BY <1>4 DEF AnyOf
    <2> HIDE DEF z
    <2>2. g[s] = f[z] + g[s \ {z}]
        BY <1>1, <1>4 DEF SumsUp, z
    <2>3. CASE y # z
        <3>1. s \ {z} \in X /\ s \ {y} \in X
            BY <1>4, <2>1, Without
        <3>2. g[s \ {z}] = f[y] + g[(s \ {z}) \ {y}] /\ g[s \ {y}] = f[z] + g[(s \ {y}) \ {z}]
            BY <2>1, <2>3, <3>1
        <3>3. (s \ {z}) \ {y} = (s \ {y}) \ {z} /\ (s \ {z}) \ {y} \in SUBSET S
            OBVIOUS
        <3>4. f[y] \in Int /\ f[z] \in Int /\ g[(s \ {z}) \ {y}] \in Int
            BY <1>2, <2>1, <3>3
        <3> DEFINE a == g[(s \ {z}) \ {y}]
        <3>5. g[s] = f[z] + (f[y] + a) /\ g[s \ {y}] = f[z] + a /\ a \in Int
            BY <2>2, <3>2, <3>3, <3>4
        <3> HIDE DEF a
        <3> QED
            BY <3>4, <3>5
    <2> QED
        BY <2>2, <2>3
<1>5. X \in SUBSET SUBSET S
    OBVIOUS
<1>6. S \in X
    <2> HIDE DEF X
    <2>1. ASSUME NEW s \in SUBSET S, s # {}, \A t \in SUBSET S : Cardinality(t) < Cardinality(s) => t \in X
          PROVE  s \in X
        BY <1>4, <2>1 DEF X
    <2> QED
        BY <1>3, <1>5, <2>1, SmallerFirst
<1> QED
    BY <1>1, <1>6, SumOf

\* A sum depends on what is added up only.
LEMMA SumSame ==
    ASSUME NEW f, NEW h, NEW S, IsFiniteSet(S), \A x \in S : f[x] = h[x]
    PROVE  SumFunctionOnSet(f, S) = SumFunctionOnSet(h, S)
<1>1. PICK g : SumsUp(g, f, S)
    BY SumExists
<1>2. ASSUME NEW s \in SUBSET S PROVE IF s = {} THEN TRUE ELSE AnyOf(s) \in S
    BY DEF AnyOf
<1>3. SumsUp(g, h, S)
    BY <1>1, <1>2 DEF SumsUp
<1> QED
    BY <1>1, <1>3, SumOf

LEMMA SumWithout ==
    ASSUME NEW f, NEW S, IsFiniteSet(S), \A y \in S : f[y] \in Int, NEW x,
           NEW a \in Int, x \in S => a = f[x], x \notin S => a = 0
    PROVE  SumFunctionOnSet(f, S) = SumFunctionOnSet(f, S \ {x}) + a
<1>1. SumFunctionOnSet(f, S \ {x}) \in Int
    BY FS_Subset, SumInt
<1>2. CASE x \in S
    BY <1>1, <1>2, SumTakes
<1>3. CASE x \notin S
    <2>1. S \ {x} = S
        BY <1>3
    <2>2. SumFunctionOnSet(f, S) = SumFunctionOnSet(f, S \ {x})
        BY <2>1, Zenon
    <2> QED
        BY <1>1, <1>3, <2>2
<1> QED
    BY <1>2, <1>3

\* Two sums that differ in one element, or in whether it is in.
LEMMA SumDiffers ==
    ASSUME NEW f, NEW h, NEW S, NEW R, IsFiniteSet(S), IsFiniteSet(R), NEW x,
           S \ {x} = R \ {x}, \A y \in S : f[y] \in Int, \A y \in R : h[y] \in Int,
           \A y \in S \ {x} : f[y] = h[y],
           NEW a \in Int, x \in S => a = f[x], x \notin S => a = 0,
           NEW b \in Int, x \in R => b = h[x], x \notin R => b = 0
    PROVE  SumFunctionOnSet(h, R) = SumFunctionOnSet(f, S) - a + b
<1>1. IsFiniteSet(S \ {x}) /\ \A y \in S \ {x} : f[y] \in Int
    BY FS_Subset
<1>2. SumFunctionOnSet(f, S \ {x}) \in Int
    BY <1>1, SumInt
<1>3. SumFunctionOnSet(f, S \ {x}) = SumFunctionOnSet(h, R \ {x})
    BY <1>1, SumSame
<1>4. SumFunctionOnSet(f, S) = SumFunctionOnSet(f, S \ {x}) + a
    BY SumWithout
<1>5. SumFunctionOnSet(h, R) = SumFunctionOnSet(h, R \ {x}) + b
    BY SumWithout
<1> QED
    BY <1>2, <1>3, <1>4, <1>5

\* A sum of naturals is one, and no less than what any one adds to it.
LEMMA SumNat ==
    ASSUME NEW f, NEW S, IsFiniteSet(S), \A x \in S : f[x] \in Nat
    PROVE  /\ SumFunctionOnSet(f, S) \in Nat
           /\ \A x \in S : f[x] <= SumFunctionOnSet(f, S)
<1> DEFINE X == {s \in SUBSET S : SumFunctionOnSet(f, s) \in Nat}
<1>1. {} \in X
    BY SumNothing
<1>2. ASSUME NEW s \in SUBSET S, s # {}, \A t \in SUBSET S : Cardinality(t) < Cardinality(s) => t \in X
      PROVE  s \in X
    <2>1. PICK x \in s : TRUE
        BY <1>2
    <2>2. s \ {x} \in X
        BY <1>2, <2>1, Without
    <2>3. IsFiniteSet(s) /\ \A y \in s : f[y] \in Int
        BY FS_Subset
    <2>4. SumFunctionOnSet(f, s) = f[x] + SumFunctionOnSet(f, s \ {x})
        BY <2>1, <2>3, SumTakes
    <2>5. f[x] \in Nat /\ SumFunctionOnSet(f, s \ {x}) \in Nat
        BY <2>1, <2>2
    <2> QED
        BY <2>4, <2>5
<1>3. X \in SUBSET SUBSET S
    OBVIOUS
<1>4. \A s \in SUBSET S : SumFunctionOnSet(f, s) \in Nat
    <2> HIDE DEF X
    <2>1. \A s \in SUBSET S : s \in X
        BY <1>1, <1>2, <1>3, SmallerFirst
    <2> QED
        BY <2>1 DEF X
<1>5. ASSUME NEW x \in S PROVE f[x] <= SumFunctionOnSet(f, S)
    <2>1. SumFunctionOnSet(f, S) = f[x] + SumFunctionOnSet(f, S \ {x})
        BY SumTakes
    <2>2. SumFunctionOnSet(f, S \ {x}) \in Nat
        BY <1>4
    <2> QED
        BY <2>1, <2>2
<1> QED
    BY <1>4, <1>5

\* What is added up may be split in two.
LEMMA SumSplit ==
    ASSUME NEW f, NEW S, IsFiniteSet(S), \A x \in S : f[x] \in Int, NEW R \in SUBSET S
    PROVE  SumFunctionOnSet(f, S) = SumFunctionOnSet(f, R) + SumFunctionOnSet(f, S \ R)
<1> DEFINE X == {s \in SUBSET R : SumFunctionOnSet(f, S) = SumFunctionOnSet(f, s) + SumFunctionOnSet(f, S \ s)}
<1>0. \A s \in SUBSET S : IsFiniteSet(s) /\ \A x \in s : f[x] \in Int
    BY FS_Subset
<1>1. \A s \in SUBSET S : SumFunctionOnSet(f, s) \in Int
    BY <1>0, SumInt
<1>2. {} \in X
    <2>1. SumFunctionOnSet(f, {}) = 0 /\ S \ {} = S /\ SumFunctionOnSet(f, S) \in Int
        BY <1>1, SumNothing
    <2> QED
        BY <2>1
<1>3. ASSUME NEW s \in SUBSET R, s # {}, \A t \in SUBSET R : Cardinality(t) < Cardinality(s) => t \in X
      PROVE  s \in X
    <2>1. PICK x \in s : TRUE
        BY <1>3
    <2> DEFINE t == s \ {x}
    <2>2. t \in X
        BY <1>0, <1>3, <2>1, Without
    <2>3. SumFunctionOnSet(f, s) = f[x] + SumFunctionOnSet(f, t)
        BY <1>0, SumTakes
    <2>4. SumFunctionOnSet(f, S \ t) = f[x] + SumFunctionOnSet(f, S \ s)
        <3>1. S \ t \in SUBSET S /\ x \in S \ t /\ (S \ t) \ {x} = S \ s
            BY <2>1
        <3> QED
            BY <1>0, <3>1, SumTakes
    <2>5. /\ f[x] \in Int /\ SumFunctionOnSet(f, t) \in Int /\ SumFunctionOnSet(f, S \ s) \in Int
          /\ SumFunctionOnSet(f, S) = SumFunctionOnSet(f, t) + SumFunctionOnSet(f, S \ t)
        BY <1>1, <2>2
    <2>6. SumFunctionOnSet(f, S) = SumFunctionOnSet(f, s) + SumFunctionOnSet(f, S \ s)
        <3> HIDE DEF t
        <3> QED  BY <2>3, <2>4, <2>5
    <2> QED
        BY <2>6
<1>4. X \in SUBSET SUBSET R
    OBVIOUS
<1> HIDE DEF X
<1>5. \A s \in SUBSET R : s \in X
    BY <1>0, <1>2, <1>3, <1>4, SmallerFirst
<1> QED
    BY <1>5 DEF X

-----------------------------------------------------------------------------
(* Recursion *)

\* Where base holds b is the result, elsewhere what H makes of the argument and of the result for
\* the next one.
OneStep(f, p, base, b, next, H) == IF p \in base THEN b[p] ELSE H[<<p, f[next[p]]>>]

\* At each step the measure mu falls.
Descends(D, V, base, b, next, H, mu) ==
    /\ base \in SUBSET D /\ b \in [D -> V] /\ \A p \in D : mu[p] \in Nat
    /\ \A p \in D \ base : next[p] \in D /\ mu[next[p]] < mu[p]
    /\ \A p \in D \ base : \A v \in V : H[<<p, v>>] \in V

\* A recursive function exists if a measure falls at each step.
LEMMA Recursion ==
    ASSUME NEW D, NEW V, NEW base, NEW b, NEW next, NEW H, NEW mu, Descends(D, V, base, b, next, H, mu)
    PROVE  \E f \in [D -> V] : \A p \in D : f[p] = OneStep(f, p, base, b, next, H)
<1> USE DEF Descends
<1> DEFINE F(g) == [p \in D |-> OneStep(g, p, base, b, next, H)]
           Upto(g, k) == g \in [D -> V] /\ \A p \in D : mu[p] <= k => g[p] = F(g)[p]
           X == {k \in Nat : \E g : Upto(g, k)}
<1>1. ASSUME NEW g \in [D -> V] PROVE F(g) \in [D -> V]
    BY DEF OneStep
<1>2. 0 \in X
    <2>1. Upto(b, 0)
        BY DEF OneStep
    <2> QED
        BY <2>1
<1>3. ASSUME NEW k \in Nat, k \in X PROVE k + 1 \in X
    <2>1. PICK g : Upto(g, k)
        BY <1>3
    <2> DEFINE h == F(g)
    <2>2. ASSUME NEW p \in D, mu[p] <= k + 1 PROVE h[p] = F(h)[p]
        <3>1. CASE p \in base
            BY <3>1 DEF OneStep
        <3>2. CASE p \notin base
            <4>1. next[p] \in D /\ mu[next[p]] <= k
                BY <2>2, <3>2
            <4>2. h[next[p]] = g[next[p]]
                BY <2>1, <4>1
            <4> QED
                BY <3>2, <4>2 DEF OneStep
        <3> QED
            BY <3>1, <3>2
    <2>3. h \in [D -> V]
        BY <1>1, <2>1
    <2> HIDE DEF h
    <2>4. Upto(h, k + 1)
        BY <2>2, <2>3
    <2> QED
        BY <2>4
<1>4. \A k \in Nat : k \in X
    <2>1. X \in SUBSET Nat
        OBVIOUS
    <2> HIDE DEF X
    <2> QED
        BY <1>2, <1>3, <2>1, SetInduction
<1> DEFINE G == [k \in Nat |-> CHOOSE g : Upto(g, k)]
<1>5. ASSUME NEW k \in Nat PROVE Upto(G[k], k)
    <2>1. \E g : Upto(g, k)
        BY <1>4
    <2> HIDE DEF Upto
    <2> QED
        BY <2>1
<1> HIDE DEF G
<1> DEFINE Y == {j \in Nat : \A p \in D : \A k, m \in Nat : mu[p] <= j /\ j <= k /\ j <= m => G[k][p] = G[m][p]}
<1>6. \A j \in Nat : j \in Y
    <2>1. 0 \in Y
        <3>1. ASSUME NEW p \in D, NEW k \in Nat, NEW m \in Nat, mu[p] <= 0 PROVE G[k][p] = G[m][p]
            <4>1. p \in base
                BY <3>1
            <4>2. mu[p] <= k /\ mu[p] <= m
                BY <3>1
            <4>3. G[k][p] = OneStep(G[k], p, base, b, next, H) /\ G[m][p] = OneStep(G[m], p, base, b, next, H)
                BY <1>5, <4>2
            <4> QED
                BY <4>1, <4>3 DEF OneStep
        <3> QED
            BY <3>1
    <2>2. ASSUME NEW j \in Nat, j \in Y PROVE j + 1 \in Y
        <3>1. ASSUME NEW p \in D, NEW k \in Nat, NEW m \in Nat, mu[p] <= j + 1, j + 1 <= k, j + 1 <= m
              PROVE  G[k][p] = G[m][p]
            <4>1. /\ G[k][p] = OneStep(G[k], p, base, b, next, H)
                  /\ G[m][p] = OneStep(G[m], p, base, b, next, H)
                <5>1. mu[p] <= k /\ mu[p] <= m
                    BY <3>1
                <5> QED
                    BY <1>5, <5>1
            <4>2. CASE p \in base
                BY <4>1, <4>2 DEF OneStep
            <4>3. CASE p \notin base
                <5>1. next[p] \in D /\ mu[next[p]] <= j /\ j <= k /\ j <= m
                    BY <3>1, <4>3
                <5>2. G[k][next[p]] = G[m][next[p]]
                    BY <2>2, <5>1
                <5> QED
                    BY <4>1, <4>3, <5>2 DEF OneStep
            <4> QED
                BY <4>2, <4>3
        <3> QED
            BY <3>1
    <2>3. Y \in SUBSET Nat
        OBVIOUS
    <2> HIDE DEF Y
    <2> QED
        BY <2>1, <2>2, <2>3, SetInduction
<1> DEFINE f == [p \in D |-> G[mu[p]][p]]
<1>7. f \in [D -> V]
    <2>1. ASSUME NEW p \in D PROVE G[mu[p]][p] \in V
        BY <1>5
    <2> QED
        BY <2>1
<1>8. ASSUME NEW p \in D PROVE f[p] = OneStep(f, p, base, b, next, H)
    <2>1. f[p] = OneStep(G[mu[p]], p, base, b, next, H)
        BY <1>5
    <2>2. CASE p \in base
        BY <2>1, <2>2 DEF OneStep
    <2>3. CASE p \notin base
        <3> DEFINE q == next[p]
        <3>1. q \in D /\ mu[q] \in Nat /\ mu[q] <= mu[p] /\ mu[q] <= mu[q] /\ mu[p] \in Nat
            BY <2>3
        <3> HIDE DEF q
        <3>2. G[mu[q]][q] = G[mu[p]][q]
            BY <1>6, <3>1
        <3>3. f[q] = G[mu[p]][q]
            BY <3>1, <3>2
        <3> QED
            BY <2>1, <2>3, <3>3 DEF OneStep, q
    <2> QED
        BY <2>2, <2>3
<1> QED
    BY <1>7, <1>8

-----------------------------------------------------------------------------
(* Sorting *)

\* Pairs of numbers, by the first and then the second.
ComesFirst(x, y) == x[1] < y[1] \/ (x[1] = y[1] /\ x[2] < y[2])

LEMMA Lowest ==
    ASSUME NEW S \in SUBSET (Nat \X Nat), S # {}
    PROVE  \E m \in S : \A x \in S : x = m \/ ComesFirst(m, x)
<1> DEFINE Fst == {x[1] : x \in S}
<1>1. Fst \in SUBSET Nat /\ Fst # {}
    OBVIOUS
<1>2. PICK a \in Fst : \A n \in Fst : a <= n
    <2> HIDE DEF Fst
    <2> QED
        BY <1>1, HasLeast
<1> DEFINE Snd == {x[2] : x \in {y \in S : y[1] = a}}
<1>3. Snd \in SUBSET Nat /\ Snd # {}
    BY <1>2
<1>4. PICK c \in Snd : \A n \in Snd : c <= n
    <2> HIDE DEF Snd
    <2> QED
        BY <1>3, HasLeast
<1>5. PICK m \in S : m[1] = a /\ m[2] = c
    BY <1>4
<1>6. ASSUME NEW x \in S, x # m PROVE ComesFirst(m, x)
    <2>1. a <= x[1] /\ x \in Nat \X Nat /\ m \in Nat \X Nat
        BY <1>2
    <2>2. x[1] = a => c <= x[2]
        BY <1>4
    <2>3. x[1] # m[1] \/ x[2] # m[2]
        BY <1>6, <2>1
    <2> QED
        BY <1>5, <2>1, <2>2, <2>3 DEF ComesFirst
<1> QED
    BY <1>6

\* Any set of them can be put in order.
LEMMA Ordering ==
    ASSUME NEW S \in SUBSET (Nat \X Nat), IsFiniteSet(S)
    PROVE  \E q \in [1..Cardinality(S) -> S] : \A i, j \in 1..Cardinality(S) : i < j => ComesFirst(q[i], q[j])
<1> DEFINE Ordered(q, s) == /\ q \in [1..Cardinality(s) -> s]
                            /\ \A i, j \in 1..Cardinality(s) : i < j => ComesFirst(q[i], q[j])
           X == {s \in SUBSET S : \E q : Ordered(q, s)}
<1>1. {} \in X
    <2>1. Cardinality({}) = 0
        BY FS_EmptySet
    <2> DEFINE q == [i \in 1..0 |-> i]
    <2>2. q \in [1..0 -> {}] /\ 1..0 = {}
        OBVIOUS
    <2> HIDE DEF q
    <2>3. Ordered(q, {})
        BY <2>1, <2>2
    <2> QED
        BY <2>3
<1>2. ASSUME NEW s \in SUBSET S, s # {}, \A t \in SUBSET S : Cardinality(t) < Cardinality(s) => t \in X
      PROVE  s \in X
    <2>1. PICK m \in s : \A x \in s : x = m \/ ComesFirst(m, x)
        BY <1>2, Lowest
    <2> DEFINE t == s \ {m}
               n == Cardinality(s)
    <2>2. n \in Nat \ {0} /\ Cardinality(t) = n - 1 /\ t \in SUBSET S
        BY Without
    <2> HIDE DEF n
    <2>3. \E r : Ordered(r, t)
        <3>1. t \in SUBSET S /\ Cardinality(t) < Cardinality(s)
            BY <2>2 DEF n
        <3>2. t \in X
            <4> HIDE DEF t, X
            <4> QED
                BY <1>2, <3>1
        <3> HIDE DEF Ordered, t
        <3> QED
            BY <3>2
    <2> HIDE DEF X
    <2>31. PICK r : Ordered(r, t)
        BY <2>3
    <2>4. /\ r \in [1..(n - 1) -> t]
          /\ \A i, j \in 1..(n - 1) : i < j => ComesFirst(r[i], r[j])
        BY <2>2, <2>31
    <2> DEFINE q == [i \in 1..n |-> IF i = 1 THEN m ELSE r[i - 1]]
    <2>5. \A i \in 1..n : i # 1 => i - 1 \in 1..(n - 1) /\ q[i] = r[i - 1] /\ q[i] \in s /\ q[i] # m
        BY <2>2, <2>4
    <2>6. q[1] = m /\ q \in [1..n -> s]
        BY <2>2, <2>5
    <2> HIDE DEF q, t
    <2>7. ASSUME NEW i \in 1..n, NEW j \in 1..n, i < j PROVE ComesFirst(q[i], q[j])
        <3>1. CASE i = 1
            <4>1. q[j] \in s /\ q[j] # m
                BY <2>2, <2>5, <2>7, <3>1
            <4> QED
                BY <2>1, <2>6, <3>1, <4>1
        <3>2. CASE i # 1
            <4>1. i - 1 \in 1..(n - 1) /\ j - 1 \in 1..(n - 1) /\ i - 1 < j - 1 /\ q[i] = r[i - 1] /\ q[j] = r[j - 1]
                BY <2>2, <2>5, <2>7, <3>2
            <4> QED
                BY <2>4, <4>1
        <3> QED
            BY <3>1, <3>2
    <2>8. q \in [1..Cardinality(s) -> s] /\ \A i, j \in 1..Cardinality(s) : i < j => ComesFirst(q[i], q[j])
        BY ONLY <2>6, <2>7, Zenon DEF n
    <2>9. Ordered(q, s)
        BY <2>8
    <2> HIDE DEF Ordered
    <2> QED
        BY <2>9 DEF X
<1>3. X \in SUBSET SUBSET S
    OBVIOUS
<1> HIDE DEF X
<1>4. S \in X
    BY <1>1, <1>2, <1>3, SmallerFirst
<1> QED
    BY <1>4 DEF X

\* And then has every element of it.
Lists(q, S) ==
    q \in [1..Cardinality(S) -> S] /\ \A i, j \in 1..Cardinality(S) : i < j => q[i] # q[j]

LEMMA OrderedAll ==
    ASSUME NEW S, IsFiniteSet(S), NEW q, Lists(q, S)
    PROVE  /\ Cardinality(S) \in Nat
           /\ \A i, j \in 1..Cardinality(S) : i # j => q[i] # q[j]
           /\ \A x \in S : \E i \in 1..Cardinality(S) : q[i] = x
<1> USE DEF Lists
<1>1. Cardinality(S) \in Nat
    BY FS_CardinalityType
<1>2. \A i, j \in 1..Cardinality(S) : i # j => q[i] # q[j]
    BY <1>1
<1>3. q \in Injection(1..Cardinality(S), S)
    BY <1>2 DEF Injection, IsInjective
<1>4. Cardinality(1..Cardinality(S)) = Cardinality(S)
    BY <1>1, FS_Interval
<1>5. q \in Surjection(1..Cardinality(S), S)
    BY <1>3, <1>4, FS_Injection
<1> QED
    BY <1>1, <1>2, <1>5 DEF Surjection

-----------------------------------------------------------------------------
(* Sums under other names *)

\* A sum is over numbers, whatever they are numbered by.
Renumbers(g, S, f, h) ==
    /\ \A x \in S : f[x] \in Int /\ h[g[x]] = f[x]
    /\ \A x \in S : \A y \in S : x # y => g[x] # g[y]

LEMMA SumMoved ==
    ASSUME NEW S, IsFiniteSet(S), NEW f, NEW h, NEW g, Renumbers(g, S, f, h)
    PROVE  /\ IsFiniteSet({g[x] : x \in S})
           /\ SumFunctionOnSet(h, {g[x] : x \in S}) = SumFunctionOnSet(f, S)
<1> USE DEF Renumbers
<1> DEFINE Img(s) == {g[x] : x \in s}
           X == {s \in SUBSET S : SumFunctionOnSet(h, Img(s)) = SumFunctionOnSet(f, s)}
<1>1. ASSUME NEW s \in SUBSET S PROVE IsFiniteSet(s) /\ IsFiniteSet(Img(s))
    <2>1. IsFiniteSet(s)
        BY FS_Subset
    <2>2. [x \in s |-> g[x]] \in Surjection(s, Img(s))
        BY DEF Surjection
    <2> QED
        BY <2>1, <2>2, FS_Surjection
<1>2. {} \in X
    <2>1. Img({}) = {}
        OBVIOUS
    <2> QED
        BY <2>1, SumNothing
<1>3. ASSUME NEW s \in SUBSET S, s # {}, \A t \in SUBSET S : Cardinality(t) < Cardinality(s) => t \in X
      PROVE  s \in X
    <2>1. PICK x \in s : TRUE
        BY <1>3
    <2> DEFINE t == s \ {x}
    <2>2. t \in SUBSET S /\ Cardinality(t) < Cardinality(s)
        BY Without
    <2>3. SumFunctionOnSet(h, Img(t)) = SumFunctionOnSet(f, t)
        BY <1>3, <2>2
    <2>4. Img(s) \ {g[x]} = Img(t) /\ g[x] \in Img(s)
        OBVIOUS
    <2>5. SumFunctionOnSet(f, s) = f[x] + SumFunctionOnSet(f, t)
        <3>1. IsFiniteSet(s) /\ \A y \in s : f[y] \in Int
            BY <1>1
        <3> HIDE DEF Renumbers
        <3> QED
            BY <3>1, SumTakes
    <2>6. \A y \in Img(s) : h[y] \in Int
        OBVIOUS
    <2> HIDE DEF Img, t
    <2>7. SumFunctionOnSet(h, Img(s)) = h[g[x]] + SumFunctionOnSet(h, Img(t))
        <3>1. SumFunctionOnSet(h, Img(s)) = h[g[x]] + SumFunctionOnSet(h, Img(s) \ {g[x]})
            BY <1>1, <2>4, <2>6, SumTakes
        <3> QED
            BY <2>4, <3>1
    <2> QED
        BY <2>3, <2>5, <2>7
<1>4. X \in SUBSET SUBSET S
    OBVIOUS
<1> HIDE DEF X
<1>5. S \in X
    BY <1>2, <1>3, <1>4, SmallerFirst
<1> QED
    BY <1>1, <1>5 DEF X

\* The same places, one further on.
FurtherOn(I, J, n) == I \subseteq 1..n /\ J \subseteq 1..(n + 1) /\ \A i \in 1..n : i \in I <=> i + 1 \in J
MovedOn(f, h, n) == h[1] \in Int /\ \A i \in 1..n : f[i] \in Int /\ h[i + 1] = f[i]

\* One more in front.
LEMMA SumInFront ==
    ASSUME NEW n \in Nat, NEW I, NEW J, FurtherOn(I, J, n), NEW f, NEW h,
           MovedOn(f, h, n)
    PROVE  SumFunctionOnSet(h, J) = SumFunctionOnSet(f, I) + (IF 1 \in J THEN h[1] ELSE 0)
<1> USE DEF FurtherOn, MovedOn
<1> DEFINE g == [i \in I |-> i + 1]
<1>1. IsFiniteSet(I) /\ IsFiniteSet(J)
    <2>1. IsFiniteSet(1..n) /\ IsFiniteSet(1..(n + 1))
        BY FS_Interval
    <2> QED
        BY <2>1, FS_Subset
<1>2. \A i \in I : f[i] \in Int /\ h[g[i]] = f[i] /\ g[i] \in Int
    OBVIOUS
<1>3. \A i, j \in I : i # j => g[i] # g[j]
    OBVIOUS
<1>4. {g[i] : i \in I} = J \ {1}
    <2>1. ASSUME NEW j \in J \ {1} PROVE j - 1 \in I /\ g[j - 1] = j
        OBVIOUS
    <2>2. \A i \in I : g[i] \in J \ {1}
        OBVIOUS
    <2>3. \A j \in J \ {1} : \E i \in I : g[i] = j
        BY <2>1
    <2> HIDE DEF g
    <2> QED
        BY ONLY <2>2, <2>3
<1> HIDE DEF g
<1>5. SumFunctionOnSet(h, J \ {1}) = SumFunctionOnSet(f, I)
    <2>1. SumFunctionOnSet(h, {g[i] : i \in I}) = SumFunctionOnSet(f, I)
        <3>1. Renumbers(g, I, f, h)
            BY <1>2, <1>3 DEF Renumbers
        <3> QED
            BY ONLY <1>1, <3>1, SumMoved
    <2> QED
        BY ONLY <1>4, <2>1
<1>6. \A j \in J : h[j] \in Int
    <2>1. ASSUME NEW j \in J, j # 1 PROVE h[j] \in Int
        <3>1. j - 1 \in 1..n /\ (j - 1) + 1 = j
            BY <2>1
        <3> QED
            BY <3>1
    <2> QED
        BY <2>1
<1> QED
    <2>1. SumFunctionOnSet(f, I) \in Int
        BY <1>1, <1>2, SumInt
    <2>2. CASE 1 \in J
        <3>1. SumFunctionOnSet(h, J) = h[1] + SumFunctionOnSet(h, J \ {1})
            BY ONLY <1>1, <1>6, <2>2, SumTakes
        <3> QED
            BY <1>5, <2>1, <2>2, <3>1
    <2>3. CASE 1 \notin J
        <3>1. J \ {1} = J
            BY <2>3
        <3>2. SumFunctionOnSet(h, J) = SumFunctionOnSet(f, I)
            BY ONLY <1>5, <3>1
        <3> QED
            BY <2>1, <2>3, <3>2
    <2> QED
        BY <2>2, <2>3

-----------------------------------------------------------------------------
(* Sequences *)

\* One more in front.
LEMMA InFront ==
    ASSUME NEW S, NEW x \in S, NEW t \in Seq(S), NEW u, u = <<x>> \o t
    PROVE  /\ u \in Seq(S) /\ u # <<>> /\ Len(u) = Len(t) + 1 /\ Head(u) = x /\ Tail(u) = t
           /\ u[1] = x /\ \A i \in 1..Len(t) : u[i + 1] = t[i]
<1>1. <<x>> \in Seq(S) /\ Len(<<x>>) = 1 /\ <<x>>[1] = x
    OBVIOUS
<1>2. u \in Seq(S) /\ Len(u) = Len(t) + 1 /\ Len(t) \in Nat
      /\ \A i \in 1..(Len(t) + 1) : u[i] = IF i <= 1 THEN x ELSE t[i - 1]
    BY <1>1, ConcatProperties, LenProperties
<1>3. u[1] = x /\ \A i \in 1..Len(t) : u[i + 1] = t[i]
    BY <1>2
<1>4. u # <<>> /\ Head(u) = u[1]
    BY <1>2, EmptySeq
<1>5. Tail(u) \in Seq(S) /\ Len(Tail(u)) = Len(u) - 1 /\ \A i \in 1..Len(Tail(u)) : Tail(u)[i] = u[i + 1]
    BY <1>2, <1>4, HeadTailProperties
<1>6. Tail(u) = t
    BY <1>2, <1>3, <1>5, SeqEqual
<1> QED
    BY <1>2, <1>3, <1>4, <1>6

LEMMA FirstAndRest ==
    ASSUME NEW S, NEW t \in Seq(S), t # <<>>
    PROVE  /\ Len(t) \in Nat \ {0} /\ Head(t) \in S /\ Head(t) = t[1]
           /\ Tail(t) \in Seq(S) /\ Len(Tail(t)) = Len(t) - 1
           /\ \A i \in 1..Len(Tail(t)) : Tail(t)[i] = t[i + 1]
BY EmptySeq, HeadTailProperties
=============================================================================
