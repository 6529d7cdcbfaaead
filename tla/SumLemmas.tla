------------------------------ MODULE SumLemmas ------------------------------
(***************************************************************************)
(* What sums over finite sets obey. The sums are those of Functions, and   *)
(* their order does not matter.                                            *)
(***************************************************************************)
EXTENDS Integers, Functions, WellFoundedInduction, FiniteSetTheorems, TLAPS

\* A set of natural numbers has a least one: what stands in for induction.
LEMMA Smallest ==
    ASSUME NEW T, T \subseteq Nat, T # {}
    PROVE  \E x \in T : \A y \in T : x <= y
<1> DEFINE R == {ss \in Nat \X Nat : ss[1] < ss[2]}
<1>1. IsWellFoundedOn(R, Nat)
  BY NatLessThanWellFounded DEF OpToRel
<1>2. \A x, y \in Nat : y < x => <<y, x>> \in R
  OBVIOUS
<1> HIDE DEF R
<1>3. PICK x \in T : \A y \in T : ~(<<y, x>> \in R)
  BY <1>1, WFMin
<1>4. ASSUME NEW y \in T PROVE x <= y
  <2>1. ~(<<y, x>> \in R) /\ x \in Nat /\ y \in Nat
    BY <1>3
  <2>2. ~(y < x)
    BY <1>2, <2>1, Zenon
  <2> QED BY <2>1, <2>2
<1> QED BY <1>4

\* Induction over the subsets of a finite set, P being the set of those that have the
\* property.
LEMMA Subsets ==
    ASSUME NEW S, IsFiniteSet(S), NEW P,
           \A T \in SUBSET S : (\A x \in T : T \ {x} \in P) => T \in P
    PROVE  \A T \in SUBSET S : T \in P
<1> SUFFICES ASSUME NEW U \in SUBSET S, U \notin P PROVE FALSE
  OBVIOUS
<1> DEFINE bad == {n \in Nat : \E T \in SUBSET S : T \notin P /\ Cardinality(T) = n}
<1>1. \A T \in SUBSET S : IsFiniteSet(T) /\ Cardinality(T) \in Nat
  BY FS_Subset, FS_CardinalityType
<1>2. Cardinality(U) \in bad
  BY <1>1
<1>3. PICK n \in bad : \A m \in bad : n <= m
  <2>1. bad \subseteq Nat /\ bad # {}
    BY <1>2
  <2> HIDE DEF bad
  <2> QED BY <2>1, Smallest
<1>4. PICK T \in SUBSET S : T \notin P /\ Cardinality(T) = n
  BY <1>3
<1>5. PICK x \in T : T \ {x} \notin P
  BY <1>4
<1>6. Cardinality(T \ {x}) = n - 1 /\ T \ {x} \in SUBSET S
  BY <1>1, <1>4, <1>5, FS_RemoveElement
<1>7. Cardinality(T \ {x}) \in bad /\ n \in Nat
  BY <1>1, <1>5, <1>6
<1>8. n <= Cardinality(T \ {x})
  BY <1>3, <1>7
<1> HIDE DEF bad
<1> QED BY <1>6, <1>7, <1>8

-----------------------------------------------------------------------------
(* What the sum is: Functions defines it by a recursive function on the    *)
(* subsets of S.                                                           *)

Some(s) == CHOOSE x \in s : TRUE

\* g is the sum of f on the subsets in D.
Sums(f, D, g) == g = [s \in D |-> IF s = {} THEN 0 ELSE f[Some(s)] + g[s \ {Some(s)}]]

LEMMA SumIs ==
    ASSUME NEW f, NEW S
    PROVE  SumFunctionOnSet(f, S) = (CHOOSE g : Sums(f, SUBSET S, g))[S]
BY DEF SumFunctionOnSet, FoldFunctionOnSet, MapThenFoldSet, Sums, Some

\* There is such a function.
LEMMA SumsExist ==
    ASSUME NEW f, NEW S, IsFiniteSet(S)
    PROVE  \E g : Sums(f, SUBSET S, g)
<1> DEFINE D(n) == {s \in SUBSET S : Cardinality(s) <= n}
           bad == {n \in Nat : \A g : ~Sums(f, D(n), g)}
<1>1. \A s \in SUBSET S : IsFiniteSet(s) /\ Cardinality(s) \in Nat /\ Cardinality(s) <= Cardinality(S)
  BY FS_Subset, FS_CardinalityType
<1>2. \A s \in SUBSET S : s # {} =>
         /\ Some(s) \in s /\ s \ {Some(s)} \in SUBSET S
         /\ Cardinality(s \ {Some(s)}) = Cardinality(s) - 1
  BY <1>1, FS_RemoveElement DEF Some
<1>3. bad = {}
  <2> SUFFICES ASSUME bad # {} PROVE FALSE
    OBVIOUS
  <2>1. PICK n \in bad : \A m \in bad : n <= m
    <3>1. bad \subseteq Nat
      OBVIOUS
    <3> HIDE DEF bad
    <3> QED BY <3>1, Smallest
  <2>2. n \in Nat /\ \A g : ~Sums(f, D(n), g)
    BY <2>1
  <2>3. CASE n = 0
    <3>1. \A s \in D(0) : s = {}
      BY <1>1, FS_EmptySet
    <3>2. Sums(f, D(0), [s \in D(0) |-> 0])
      BY <3>1 DEF Sums
    <3> QED BY <2>2, <2>3, <3>2
  <2>4. CASE n # 0
    <3>1. n - 1 \in Nat /\ n - 1 \notin bad
      BY <2>1, <2>2, <2>4
    <3>2. PICK h : Sums(f, D(n - 1), h)
      BY <3>1
    <3>3. PICK g : g = [s \in D(n) |-> IF s = {} THEN 0 ELSE f[Some(s)] + h[s \ {Some(s)}]]
      OBVIOUS
    <3>4. ASSUME NEW s \in D(n), s # {} PROVE g[s \ {Some(s)}] = h[s \ {Some(s)}]
      <4> DEFINE r == s \ {Some(s)}
      <4>1. r \in D(n - 1) /\ r \in D(n)
        BY <1>1, <1>2, <2>2, <3>4
      <4> HIDE DEF r
      <4>2. h[r] = IF r = {} THEN 0 ELSE f[Some(r)] + h[r \ {Some(r)}]
        BY <3>2, <4>1 DEF Sums
      <4>3. g[r] = IF r = {} THEN 0 ELSE f[Some(r)] + h[r \ {Some(r)}]
        BY <3>3, <4>1
      <4> QED BY <4>2, <4>3 DEF r
    <3>5. Sums(f, D(n), g)
      <4>1. g = [s \in D(n) |-> IF s = {} THEN 0 ELSE f[Some(s)] + g[s \ {Some(s)}]]
        BY <3>3, <3>4
      <4> QED BY <4>1 DEF Sums
    <3> QED BY <2>2, <3>5
  <2> QED BY <2>3, <2>4
<1>4. Cardinality(S) \in Nat /\ D(Cardinality(S)) = SUBSET S
  BY <1>1, FS_CardinalityType
<1> QED BY <1>3, <1>4

\* g is the sum of f on every subset of S.
SumsOn(f, S, g) == Sums(f, SUBSET S, g)

\* f and h are the same on T.
Alike(f, h, T) == \A x \in T : f[x] = h[x]

\* Two of them agree where both are defined.
LEMMA SumsAgree ==
    \A f, h, S, T, g, k :
        IsFiniteSet(S) /\ T \subseteq S /\ Alike(f, h, T) /\ SumsOn(f, S, g) /\ SumsOn(h, T, k)
        => g[T] = k[T]
<1> SUFFICES ASSUME NEW f, NEW h, NEW S, IsFiniteSet(S), NEW T, T \subseteq S, Alike(f, h, T),
                    NEW g, SumsOn(f, S, g), NEW k, SumsOn(h, T, k)
             PROVE  g[T] = k[T]
  OBVIOUS
<1> DEFINE P == {s \in SUBSET T : g[s] = k[s]}
<1>1. IsFiniteSet(T)
  BY FS_Subset
<1>2. ASSUME NEW s \in SUBSET T, \A x \in s : s \ {x} \in P PROVE s \in P
  <2>1. /\ g[s] = IF s = {} THEN 0 ELSE f[Some(s)] + g[s \ {Some(s)}]
        /\ k[s] = IF s = {} THEN 0 ELSE h[Some(s)] + k[s \ {Some(s)}]
    BY DEF Sums, SumsOn
  <2>2. s # {} => Some(s) \in s
    BY DEF Some
  <2>3. s # {} => g[s \ {Some(s)}] = k[s \ {Some(s)}] /\ f[Some(s)] = h[Some(s)]
    BY <1>2, <2>2 DEF Alike
  <2> QED BY <2>1, <2>3
<1> HIDE DEF P
<1>3. T \in P
  BY <1>1, <1>2, Subsets
<1> QED BY <1>3 DEF P

-----------------------------------------------------------------------------
(* What follows from that.                                                 *)

LEMMA SumOfNone ==
    ASSUME NEW f
    PROVE  SumFunctionOnSet(f, {}) = 0
<1>1. PICK g : Sums(f, SUBSET {}, g) /\ SumFunctionOnSet(f, {}) = g[{}]
  BY FS_EmptySet, SumsExist, SumIs
<1> QED BY <1>1 DEF Sums

\* The sum takes some element first.
LEMMA SumOfSome ==
    ASSUME NEW f, NEW S, IsFiniteSet(S), S # {}
    PROVE  \E x \in S : SumFunctionOnSet(f, S) = f[x] + SumFunctionOnSet(f, S \ {x})
<1>1. PICK x \in S : x = Some(S)
  BY DEF Some
<1>2. PICK g : Sums(f, SUBSET S, g) /\ SumFunctionOnSet(f, S) = g[S]
  BY SumsExist, SumIs
<1>3. IsFiniteSet(S \ {x}) /\ S \ {x} \in SUBSET S
  BY FS_RemoveElement
<1>4. PICK k : Sums(f, SUBSET (S \ {x}), k) /\ SumFunctionOnSet(f, S \ {x}) = k[S \ {x}]
  BY <1>3, SumsExist, SumIs
<1>5. g[S \ {x}] = k[S \ {x}]
  <2>1. Alike(f, f, S \ {x})
    BY DEF Alike
  <2> QED BY <1>2, <1>3, <1>4, <2>1, SumsAgree DEF SumsOn
<1>6. g[S] = f[x] + g[S \ {x}]
  BY <1>1, <1>2 DEF Sums
<1> QED BY <1>2, <1>4, <1>5, <1>6

\* Sums of functions that agree on the set.
LEMMA SumSame ==
    ASSUME NEW f, NEW h, NEW S, IsFiniteSet(S), \A x \in S : f[x] = h[x]
    PROVE  SumFunctionOnSet(f, S) = SumFunctionOnSet(h, S)
<1>1. PICK g : Sums(f, SUBSET S, g) /\ SumFunctionOnSet(f, S) = g[S]
  BY SumsExist, SumIs
<1>2. PICK k : Sums(h, SUBSET S, k) /\ SumFunctionOnSet(h, S) = k[S]
  BY SumsExist, SumIs
<1>3. S \in SUBSET S /\ Alike(f, h, S)
  BY DEF Alike
<1>4. g[S] = k[S]
  BY <1>1, <1>2, <1>3, SumsAgree DEF SumsOn
<1> QED BY <1>1, <1>2, <1>4

\* A sum of numbers of a kind that is closed under addition is of that kind.
LEMMA SumIn ==
    ASSUME NEW f, NEW S, IsFiniteSet(S), NEW K, 0 \in K, \A a, b \in K : a + b \in K,
           \A x \in S : f[x] \in K
    PROVE  SumFunctionOnSet(f, S) \in K
<1> DEFINE P == {s \in SUBSET S : SumFunctionOnSet(f, s) \in K}
<1>1. ASSUME NEW s \in SUBSET S, \A x \in s : s \ {x} \in P PROVE s \in P
  <2>1. IsFiniteSet(s)
    BY FS_Subset
  <2>2. CASE s = {}
    BY <2>2, SumOfNone
  <2>3. CASE s # {}
    <3>1. PICK x \in s : SumFunctionOnSet(f, s) = f[x] + SumFunctionOnSet(f, s \ {x})
      BY <2>1, <2>3, SumOfSome
    <3> QED BY <1>1, <3>1
  <2> QED BY <2>2, <2>3
<1> HIDE DEF P
<1>2. \A s \in SUBSET S : s \in P
  BY <1>1, Subsets
<1> QED BY <1>2 DEF P

LEMMA SumType ==
    ASSUME NEW f, NEW S, IsFiniteSet(S), \A x \in S : f[x] \in Int
    PROVE  SumFunctionOnSet(f, S) \in Int
BY SumIn

\* Any element may be taken first.
LEMMA SumOfAny ==
    ASSUME NEW f, NEW S, IsFiniteSet(S), \A x \in S : f[x] \in Int, NEW y \in S
    PROVE  SumFunctionOnSet(f, S) = f[y] + SumFunctionOnSet(f, S \ {y})
<1> DEFINE P == {s \in SUBSET S : \A z \in s : SumFunctionOnSet(f, s) = f[z] + SumFunctionOnSet(f, s \ {z})}
<1>1. ASSUME NEW s \in SUBSET S, \A x \in s : s \ {x} \in P PROVE s \in P
  <2> SUFFICES ASSUME NEW z \in s PROVE SumFunctionOnSet(f, s) = f[z] + SumFunctionOnSet(f, s \ {z})
    OBVIOUS
  <2>1. IsFiniteSet(s)
    BY FS_Subset
  <2>2. PICK x \in s : SumFunctionOnSet(f, s) = f[x] + SumFunctionOnSet(f, s \ {x})
    BY <2>1, SumOfSome
  <2>3. CASE x = z
    BY <2>2, <2>3
  <2>4. CASE x # z
    <3> DEFINE rest == (s \ {x}) \ {z}
    <3>1. SumFunctionOnSet(f, s \ {x}) = f[z] + SumFunctionOnSet(f, rest)
      BY <1>1, <2>4
    <3>2. SumFunctionOnSet(f, s \ {z}) = f[x] + SumFunctionOnSet(f, rest)
      <4>1. (s \ {z}) \ {x} = rest
        OBVIOUS
      <4> QED BY <1>1, <2>4, <4>1
    <3>3. IsFiniteSet(rest) /\ \A w \in rest : f[w] \in Int
      BY <2>1, FS_RemoveElement
    <3>4. SumFunctionOnSet(f, rest) \in Int /\ f[x] \in Int /\ f[z] \in Int
      <4> HIDE DEF rest
      <4> QED BY <3>3, SumType
    <3> HIDE DEF rest
    <3> QED BY <2>2, <3>1, <3>2, <3>4
  <2> QED BY <2>3, <2>4
<1>2. \A s \in SUBSET S : s \in P
  <2> HIDE DEF P
  <2> QED BY <1>1, Subsets
<1> QED BY <1>2

\* One element more.
LEMMA SumWith ==
    ASSUME NEW f, NEW S, IsFiniteSet(S), NEW y, y \notin S, \A x \in S \cup {y} : f[x] \in Int
    PROVE  SumFunctionOnSet(f, S \cup {y}) = f[y] + SumFunctionOnSet(f, S)
<1>1. IsFiniteSet(S \cup {y}) /\ (S \cup {y}) \ {y} = S
  BY FS_AddElement
<1> QED BY <1>1, SumOfAny

\* The sum of a sum, and of a difference.
LEMMA SumOfSums ==
    ASSUME NEW f, NEW h, NEW k, NEW S, IsFiniteSet(S),
           \A x \in S : f[x] \in Int /\ h[x] \in Int /\ k[x] = f[x] + h[x]
    PROVE  SumFunctionOnSet(k, S) = SumFunctionOnSet(f, S) + SumFunctionOnSet(h, S)
<1> DEFINE P == {s \in SUBSET S :
                   SumFunctionOnSet(k, s) = SumFunctionOnSet(f, s) + SumFunctionOnSet(h, s)}
<1>1. ASSUME NEW s \in SUBSET S, \A x \in s : s \ {x} \in P PROVE s \in P
  <2>1. IsFiniteSet(s)
    BY FS_Subset
  <2>2. CASE s = {}
    BY <2>2, SumOfNone
  <2>3. CASE s # {}
    <3>1. PICK x \in s : TRUE
      BY <2>3
    <3>2. /\ SumFunctionOnSet(k, s) = k[x] + SumFunctionOnSet(k, s \ {x})
          /\ SumFunctionOnSet(f, s) = f[x] + SumFunctionOnSet(f, s \ {x})
          /\ SumFunctionOnSet(h, s) = h[x] + SumFunctionOnSet(h, s \ {x})
      <4>1. \A y \in s : f[y] \in Int /\ h[y] \in Int /\ k[y] \in Int
        OBVIOUS
      <4> QED BY <2>1, <4>1, SumOfAny
    <3>3. IsFiniteSet(s \ {x})
      BY <2>1, FS_RemoveElement
    <3>4. SumFunctionOnSet(f, s \ {x}) \in Int /\ SumFunctionOnSet(h, s \ {x}) \in Int
      BY <3>3, SumType
    <3>5. SumFunctionOnSet(k, s \ {x}) = SumFunctionOnSet(f, s \ {x}) + SumFunctionOnSet(h, s \ {x})
      BY <1>1
    <3> QED BY <3>2, <3>4, <3>5
  <2> QED BY <2>2, <2>3
<1> HIDE DEF P
<1>2. \A s \in SUBSET S : s \in P
  BY <1>1, Subsets
<1> QED BY <1>2 DEF P

\* The sum over what two sets hold, none of it in both.
LEMMA SumOfBoth ==
    ASSUME NEW f, NEW S, IsFiniteSet(S), NEW T, IsFiniteSet(T), S \cap T = {},
           \A x \in S \cup T : f[x] \in Int
    PROVE  SumFunctionOnSet(f, S \cup T) = SumFunctionOnSet(f, S) + SumFunctionOnSet(f, T)
<1> DEFINE P == {s \in SUBSET T :
                   SumFunctionOnSet(f, S \cup s) = SumFunctionOnSet(f, S) + SumFunctionOnSet(f, s)}
<1>0. SumFunctionOnSet(f, S) \in Int
  BY SumType
<1>1. ASSUME NEW s \in SUBSET T, \A x \in s : s \ {x} \in P PROVE s \in P
  <2>1. IsFiniteSet(s) /\ IsFiniteSet(S \cup s)
    BY FS_Subset, FS_Union
  <2>2. CASE s = {}
    <3>1. S \cup s = S
      BY <2>2
    <3> QED BY <1>0, <2>2, <3>1, SumOfNone
  <2>3. CASE s # {}
    <3>1. PICK x \in s : TRUE
      BY <2>3
    <3>2. (S \cup s) \ {x} = S \cup (s \ {x})
      OBVIOUS
    <3>3. /\ SumFunctionOnSet(f, S \cup s) = f[x] + SumFunctionOnSet(f, S \cup (s \ {x}))
          /\ SumFunctionOnSet(f, s) = f[x] + SumFunctionOnSet(f, s \ {x})
      BY <2>1, <3>2, SumOfAny
    <3>4. IsFiniteSet(s \ {x})
      BY <2>1, FS_RemoveElement
    <3>5. SumFunctionOnSet(f, s \ {x}) \in Int /\ f[x] \in Int
      BY <3>4, SumType
    <3>6. SumFunctionOnSet(f, S \cup (s \ {x})) = SumFunctionOnSet(f, S) + SumFunctionOnSet(f, s \ {x})
      BY <1>1
    <3> QED BY <1>0, <3>3, <3>5, <3>6
  <2> QED BY <2>2, <2>3
<1> HIDE DEF P
<1>2. \A s \in SUBSET T : s \in P
  BY <1>1, Subsets
<1> QED BY <1>2 DEF P

\* The sum over S is the sum over T where p gives each element of T one of S.
LEMMA SumMoved ==
    ASSUME NEW f, NEW S, NEW h, NEW T, IsFiniteSet(S), NEW p, \A x \in S : f[x] \in Int,
           T = {p[x] : x \in S}, \A x, y \in S : p[x] = p[y] => x = y,
           \A x \in S : h[p[x]] = f[x]
    PROVE  IsFiniteSet(T) /\ SumFunctionOnSet(h, T) = SumFunctionOnSet(f, S)
<1> DEFINE Image(s) == {p[x] : x \in s}
           P == {s \in SUBSET S : /\ IsFiniteSet(Image(s))
                                  /\ SumFunctionOnSet(h, Image(s)) = SumFunctionOnSet(f, s)}
<1>1. ASSUME NEW s \in SUBSET S, \A x \in s : s \ {x} \in P PROVE s \in P
  <2>1. IsFiniteSet(s)
    BY FS_Subset
  <2>2. CASE s = {}
    <3>1. Image(s) = {}
      BY <2>2
    <3> QED BY <2>2, <3>1, SumOfNone, FS_EmptySet
  <2>3. CASE s # {}
    <3>1. PICK x \in s : TRUE
      BY <2>3
    <3>2. /\ IsFiniteSet(Image(s \ {x}))
          /\ SumFunctionOnSet(h, Image(s \ {x})) = SumFunctionOnSet(f, s \ {x})
      BY <1>1
    <3>3. Image(s) = Image(s \ {x}) \cup {p[x]} /\ p[x] \notin Image(s \ {x})
      OBVIOUS
    <3>4. \A y \in Image(s \ {x}) \cup {p[x]} : h[y] \in Int
      OBVIOUS
    <3> HIDE DEF Image
    <3>5. SumFunctionOnSet(h, Image(s)) = h[p[x]] + SumFunctionOnSet(h, Image(s \ {x}))
      BY <3>2, <3>3, <3>4, SumWith
    <3>6. SumFunctionOnSet(f, s) = f[x] + SumFunctionOnSet(f, s \ {x})
      BY <2>1, SumOfAny
    <3>7. IsFiniteSet(Image(s))
      <4>1. IsFiniteSet(Image(s \ {x}) \cup {p[x]})
        BY <3>2, FS_AddElement, Zenon
      <4> QED BY <3>3, <4>1
    <3> QED BY <3>2, <3>5, <3>6, <3>7
  <2> QED BY <2>2, <2>3
<1>2. \A s \in SUBSET S : s \in P
  <2> HIDE DEF P
  <2> QED BY <1>1, Subsets
<1> QED BY <1>2

\* What p puts at a.
Part(S, p, a) == {x \in S : p[x] = a}

\* The sum over a set is the sum of the sums over its parts: t[a] is the sum of f over
\* the part at a.
LEMMA SumOfParts ==
    ASSUME NEW f, NEW S, IsFiniteSet(S), NEW A, IsFiniteSet(A), NEW p, \A x \in S : p[x] \in A,
           \A x \in S : f[x] \in Int,
           NEW t, \A a \in A : t[a] = SumFunctionOnSet(f, Part(S, p, a))
    PROVE  SumFunctionOnSet(t, A) = SumFunctionOnSet(f, S)
<1> DEFINE Over(s) == {x \in S : p[x] \in s}
           P == {s \in SUBSET A : SumFunctionOnSet(t, s) = SumFunctionOnSet(f, Over(s))}
<1>0. \A s : IsFiniteSet(Over(s)) /\ Over(s) \subseteq S
  BY FS_Subset
<1>1. \A a \in A : t[a] \in Int
  <2>1. ASSUME NEW a \in A PROVE t[a] \in Int
    <3>1. IsFiniteSet(Part(S, p, a)) /\ \A x \in Part(S, p, a) : f[x] \in Int
      BY FS_Subset DEF Part
    <3> QED BY <3>1, SumType
  <2> QED BY <2>1
<1>2. ASSUME NEW s \in SUBSET A, \A a \in s : s \ {a} \in P PROVE s \in P
  <2>1. IsFiniteSet(s)
    BY FS_Subset
  <2>2. CASE s = {}
    <3>1. Over(s) = {}
      BY <2>2
    <3> QED BY <2>2, <3>1, SumOfNone
  <2>3. CASE s # {}
    <3>1. PICK a \in s : TRUE
      BY <2>3
    <3> DEFINE one == Part(S, p, a)
    <3>2. Over(s) = Over(s \ {a}) \cup one /\ Over(s \ {a}) \cap one = {} /\ one \subseteq S
      BY DEF Part
    <3>3. IsFiniteSet(one)
      BY FS_Subset DEF Part
    <3> HIDE DEF one
    <3>4. SumFunctionOnSet(f, Over(s)) = SumFunctionOnSet(f, Over(s \ {a})) + SumFunctionOnSet(f, one)
      <4> HIDE DEF Over
      <4>1. \A x \in Over(s \ {a}) \cup one : f[x] \in Int
        BY <1>0, <3>2
      <4>2. SumFunctionOnSet(f, Over(s \ {a}) \cup one)
              = SumFunctionOnSet(f, Over(s \ {a})) + SumFunctionOnSet(f, one)
        BY <1>0, <3>2, <3>3, <4>1, SumOfBoth, Zenon
      <4> QED BY <3>2, <4>2
    <3>5. SumFunctionOnSet(t, s) = t[a] + SumFunctionOnSet(t, s \ {a})
      BY <1>1, <2>1, SumOfAny
    <3>6. t[a] = SumFunctionOnSet(f, one) /\ t[a] \in Int
      BY <1>1 DEF one
    <3>7. SumFunctionOnSet(t, s \ {a}) = SumFunctionOnSet(f, Over(s \ {a}))
      BY <1>2
    <3>8. SumFunctionOnSet(f, Over(s \ {a})) \in Int
      <4> HIDE DEF Over
      <4> QED BY <1>0, SumType
    <3> HIDE DEF Over
    <3> QED BY <3>4, <3>5, <3>6, <3>7, <3>8
  <2> QED BY <2>2, <2>3
<1>3. A \in P
  <2> HIDE DEF P
  <2> QED BY <1>2, Subsets
<1>4. Over(A) = S
  OBVIOUS
<1> QED BY <1>3, <1>4

\* Nothing counts for nothing.
LEMMA SumOfZeros ==
    ASSUME NEW f, NEW S, IsFiniteSet(S), \A x \in S : f[x] = 0
    PROVE  SumFunctionOnSet(f, S) = 0
<1>1. \A x \in S : f[x] \in Int /\ f[x] = f[x] + f[x]
  OBVIOUS
<1>2. SumFunctionOnSet(f, S) = SumFunctionOnSet(f, S) + SumFunctionOnSet(f, S)
  BY <1>1, SumOfSums
<1>3. SumFunctionOnSet(f, S) \in Int
  BY <1>1, SumType
<1>4. \A n \in Int : n = n + n => n = 0
  OBVIOUS
<1> QED BY <1>2, <1>3, <1>4, Zenon

\* Only what does not count for nothing matters.
LEMMA SumOfRest ==
    ASSUME NEW f, NEW S, IsFiniteSet(S), NEW T, T \subseteq S, \A x \in S : f[x] \in Int,
           \A x \in S \ T : f[x] = 0
    PROVE  SumFunctionOnSet(f, S) = SumFunctionOnSet(f, T)
<1>1. IsFiniteSet(T) /\ IsFiniteSet(S \ T) /\ T \cap (S \ T) = {} /\ T \cup (S \ T) = S
  BY FS_Subset
<1>2. SumFunctionOnSet(f, S \ T) = 0
  BY <1>1, SumOfZeros
<1>3. SumFunctionOnSet(f, T \cup (S \ T)) = SumFunctionOnSet(f, T) + SumFunctionOnSet(f, S \ T)
  <2>1. \A x \in T \cup (S \ T) : f[x] \in Int
    OBVIOUS
  <2> QED BY <1>1, <2>1, SumOfBoth
<1>4. SumFunctionOnSet(f, T) \in Int
  BY <1>1, SumType
<1>5. \A m, n \in Int : m = n + 0 => m = n
  OBVIOUS
<1>6. SumFunctionOnSet(f, S) \in Int
  BY SumType
<1> QED BY <1>1, <1>2, <1>3, <1>4, <1>5, <1>6

\* Changes that lead from one level to the next add up to the last of them.
LEMMA SumOfSteps ==
    ASSUME NEW N \in Nat, NEW f, NEW level, level[0] = 0,
           \A i \in 1 .. N : f[i] \in Int /\ level[i] \in Int /\ level[i] = level[i - 1] + f[i]
    PROVE  SumFunctionOnSet(f, 1 .. N) = level[N]
<1> DEFINE bad == {n \in 0 .. N : SumFunctionOnSet(f, 1 .. n) # level[n]}
<1>1. bad = {}
  <2> SUFFICES ASSUME bad # {} PROVE FALSE
    OBVIOUS
  <2>1. PICK n \in bad : \A m \in bad : n <= m
    <3>1. bad \subseteq Nat
      OBVIOUS
    <3> HIDE DEF bad
    <3> QED BY <3>1, Smallest
  <2>2. n \in 0 .. N /\ SumFunctionOnSet(f, 1 .. n) # level[n]
    BY <2>1
  <2>3. CASE n = 0
    <3>1. 1 .. n = {}
      BY <2>3
    <3> QED BY <2>2, <2>3, <3>1, SumOfNone
  <2>4. CASE n # 0
    <3>1. n - 1 \in 0 .. N /\ ~(n <= n - 1) /\ n \in 1 .. N
      BY <2>2, <2>4
    <3>2. SumFunctionOnSet(f, 1 .. n - 1) = level[n - 1]
      BY <2>1, <3>1
    <3>3. 1 .. n = (1 .. n - 1) \cup {n} /\ n \notin 1 .. n - 1
      BY <3>1
    <3>4. IsFiniteSet(1 .. n - 1) /\ \A x \in (1 .. n - 1) \cup {n} : f[x] \in Int
      <4>1. 1 \in Int /\ n - 1 \in Int
        BY <3>1
      <4>2. IsFiniteSet(1 .. n - 1)
        BY <4>1, FS_Interval
      <4>3. (1 .. n - 1) \cup {n} \subseteq 1 .. N
        BY <3>1
      <4> QED BY <4>2, <4>3
    <3>5. SumFunctionOnSet(f, (1 .. n - 1) \cup {n}) = f[n] + SumFunctionOnSet(f, 1 .. n - 1)
      BY <3>3, <3>4, SumWith
    <3>6. f[n] \in Int /\ level[n - 1] \in Int /\ level[n] = level[n - 1] + f[n]
      <4>1. CASE n = 1
        BY <3>1, <4>1
      <4>2. CASE n # 1
        <5>1. n - 1 \in 1 .. N
          BY <2>2, <2>4, <4>2
        <5> QED BY <3>1, <5>1
      <4> QED BY <4>1, <4>2
    <3>7. f[n] + level[n - 1] = level[n]
      BY <3>6
    <3> QED BY <2>2, <3>2, <3>3, <3>5, <3>7
  <2> QED BY <2>3, <2>4
<1>2. N \in 0 .. N
  OBVIOUS
<1> QED BY <1>1, <1>2

=============================================================================
