------------------------------- MODULE NatFacts -------------------------------
(***************************************************************************)
(* Facts the other proof modules share, about natural numbers and about    *)
(* sums over finite sets.  What would be an induction is a search for the  *)
(* least set that fails.                                                   *)
(***************************************************************************)
EXTENDS Naturals, FiniteSetTheorems, WellFoundedInduction, TLAPS

\* A non-empty set of naturals has a least element.
LEMMA LeastNat ==
    ASSUME NEW C, C \subseteq Nat, C # {}
    PROVE  \E m \in C : \A t \in C : m <= t
<1> DEFINE R == {ss \in Nat \X Nat : ss[1] < ss[2]}
<1>1. IsWellFoundedOn(R, Nat)
  BY NatLessThanWellFounded DEF OpToRel
<1>2. \E m \in C : \A t \in C : ~(<<t, m>> \in R)
  <2> HIDE DEF R
  <2> QED
    BY <1>1, WFMin
<1>3. PICK m \in C : \A t \in C : ~(<<t, m>> \in R)
  BY <1>2
<1>4. ASSUME NEW t \in C PROVE m <= t
  <2>1. t \in Nat /\ m \in Nat /\ <<t, m>> \in Nat \X Nat
    OBVIOUS
  <2>2. ~(t < m)
    <3>1. <<t, m>>[1] = t /\ <<t, m>>[2] = m
      OBVIOUS
    <3>2. t < m => <<t, m>> \in R
      BY <2>1, <3>1
    <3> QED
      BY <1>3, <3>2
  <2> QED
    BY <2>1, <2>2
<1> QED
  BY <1>4

\* A non-empty set of finite sets has a member none of whose elements can be
\* taken out without leaving it.
LEMMA SmallestSet ==
    ASSUME NEW F, F # {}, \A s \in F : IsFiniteSet(s)
    PROVE  \E s \in F : \A x \in s : s \ {x} \notin F
<1> DEFINE Sizes == {Cardinality(s) : s \in F}
<1>1. \A s \in F : Cardinality(s) \in Nat
  BY FS_CardinalityType
<1>2. Sizes # {} /\ Sizes \subseteq Nat
  BY <1>1
<1>3. \E m \in Sizes : \A n \in Sizes : m <= n
  <2> HIDE DEF Sizes
  <2> QED
    BY <1>2, LeastNat
<1>4. PICK s \in F : \A t \in F : Cardinality(s) <= Cardinality(t)
  BY <1>3
<1>5. ASSUME NEW x \in s PROVE s \ {x} \notin F
  <2>1. Cardinality(s \ {x}) = Cardinality(s) - 1
    BY FS_RemoveElement
  <2> QED
    BY <1>1, <1>4, <2>1
<1> QED
  BY <1>5

\* The values of a function on a finite set.
LEMMA FiniteImage ==
    ASSUME NEW S, IsFiniteSet(S), NEW f, NEW T, \A t \in T : \E x \in S : t = f[x]
    PROVE  IsFiniteSet(T)
<1> DEFINE Values(s) == {f[x] : x \in s}
           Bad == {s \in SUBSET S : ~IsFiniteSet(Values(s))}
<1>1. ASSUME Bad # {} PROVE FALSE
  <2>1. PICK s \in Bad : \A x \in s : s \ {x} \notin Bad
    <3>1. \A s \in Bad : IsFiniteSet(s)
      BY FS_Subset
    <3> HIDE DEF Bad
    <3> QED
      BY <1>1, <3>1, SmallestSet
  <2>2. ~IsFiniteSet(Values(s)) /\ s \in SUBSET S
    OBVIOUS
  <2>3. s # {}
    <3>1. Values({}) = {}
      OBVIOUS
    <3> HIDE DEF Values
    <3> QED
      BY <2>2, <3>1, FS_EmptySet
  <2>4. PICK x \in s : TRUE
    BY <2>3
  <2>5. IsFiniteSet(Values(s \ {x}))
    BY <2>1, <2>2
  <2>6. IsFiniteSet(Values(s \ {x}) \cup {f[x]})
    <3> HIDE DEF Values
    <3> QED
      BY <2>5, FS_AddElement
  <2>7. Values(s) = Values(s \ {x}) \cup {f[x]}
    OBVIOUS
  <2> HIDE DEF Values
  <2> QED
    BY <2>2, <2>6, <2>7
<1>2. IsFiniteSet(Values(S))
  BY <1>1
<1>3. T \subseteq Values(S)
  OBVIOUS
<1> HIDE DEF Values
<1> QED
  BY <1>2, <1>3, FS_Subset

------------------------------------------------------------------------------
(***************************************************************************)
(* Sums of the values of a function over a finite set.                     *)
(***************************************************************************)
Picked(s) == CHOOSE x \in s : TRUE

\* g is what a fold of + over the subsets of S builds: it takes out one element
\* after the other.
AddsUp(g, w, S) ==
    g = [s \in S |-> IF s = {} THEN 0 ELSE w[Picked(s)] + g[s \ {Picked(s)}]]

SumOver(w, S) == (CHOOSE g : AddsUp(g, w, SUBSET S))[S]

LEMMA PickedIn == ASSUME NEW s, s # {} PROVE Picked(s) \in s
BY DEF Picked

\* Such a function exists for the subsets of at most n elements, for every n.
LEMMA AddsUpTo ==
    ASSUME NEW S, IsFiniteSet(S), NEW w, NEW n \in Nat
    PROVE  \E g : AddsUp(g, w, {s \in SUBSET S : Cardinality(s) <= n})
<1> DEFINE Small(k) == {s \in SUBSET S : Cardinality(s) <= k}
           Fails == {k \in Nat : ~ \E g : AddsUp(g, w, Small(k))}
<1>1. ASSUME Fails # {} PROVE FALSE
  <2>1. PICK k \in Fails : \A j \in Fails : k <= j
    BY <1>1, LeastNat
  <2>2. k # 0
    <3>1. ASSUME NEW s \in SUBSET S, Cardinality(s) <= 0 PROVE s = {}
      BY <3>1, FS_Subset, FS_EmptySet, FS_CardinalityType
    <3>2. AddsUp([s \in Small(0) |-> 0], w, Small(0))
      BY <3>1 DEF AddsUp
    <3> QED
      BY <2>1, <3>2
  <2>3. k - 1 \in Nat /\ k - 1 \notin Fails
    <3>1. k \in Nat
      BY <2>1
    <3> HIDE DEF Fails
    <3> QED
      BY <2>1, <2>2, <3>1
  <2>4. PICK g : AddsUp(g, w, Small(k - 1))
    BY <2>3
  <2> DEFINE h == [s \in Small(k) |-> IF s = {} THEN 0 ELSE w[Picked(s)] + g[s \ {Picked(s)}]]
  <2>5. ASSUME NEW s \in Small(k), s # {}
        PROVE  s \ {Picked(s)} \in Small(k - 1) /\ s \ {Picked(s)} \in Small(k)
    <3>1. IsFiniteSet(s) /\ Picked(s) \in s /\ Cardinality(s) \in Nat
      BY <2>5, PickedIn, FS_Subset, FS_CardinalityType
    <3>2. Cardinality(s \ {Picked(s)}) = Cardinality(s) - 1
      BY <3>1, FS_RemoveElement
    <3>3. Cardinality(s) <= k /\ k \in Nat
      BY <2>1
    <3> QED
      BY <3>1, <3>2, <3>3
  <2>6. ASSUME NEW s \in Small(k - 1) PROVE h[s] = g[s]
    <3>1. s \in Small(k)
      <4>1. Cardinality(s) \in Nat
        BY FS_Subset, FS_CardinalityType
      <4> QED
        BY <2>1, <2>3, <4>1
    <3> HIDE DEF Small
    <3>2. g[s] = IF s = {} THEN 0 ELSE w[Picked(s)] + g[s \ {Picked(s)}]
      BY <2>4 DEF AddsUp
    <3> QED
      BY <3>1, <3>2
  <2>7. ASSUME NEW s \in Small(k)
        PROVE  h[s] = IF s = {} THEN 0 ELSE w[Picked(s)] + h[s \ {Picked(s)}]
    <3> HIDE DEF Small
    <3> QED
      BY <2>5, <2>6
  <2>8. AddsUp(h, w, Small(k))
    <3>1. h = [s \in Small(k) |-> h[s]]
      OBVIOUS
    <3> HIDE DEF h, Small
    <3> QED
      BY <2>7, <3>1 DEF AddsUp
  <2> QED
    BY <2>1, <2>8
<1> QED
  BY <1>1

LEMMA AddsUpExists ==
    ASSUME NEW S, IsFiniteSet(S), NEW w
    PROVE  \E g : AddsUp(g, w, SUBSET S)
<1>1. Cardinality(S) \in Nat /\ \A s \in SUBSET S : Cardinality(s) <= Cardinality(S)
  BY FS_Subset, FS_CardinalityType
<1>2. {s \in SUBSET S : Cardinality(s) <= Cardinality(S)} = SUBSET S
  BY <1>1
<1>3. \E g : AddsUp(g, w, {s \in SUBSET S : Cardinality(s) <= Cardinality(S)})
  BY <1>1, AddsUpTo, Zenon
<1> QED
  BY <1>2, <1>3, Zenon

LEMMA SumDef ==
    ASSUME NEW S, IsFiniteSet(S), NEW w
    PROVE  \E g : AddsUp(g, w, SUBSET S) /\ SumOver(w, S) = g[S]
<1>1. AddsUp(CHOOSE g : AddsUp(g, w, SUBSET S), w, SUBSET S)
  BY AddsUpExists, Zenon
<1> QED
  BY <1>1, Zenon DEF SumOver

\* What such a function says of a set does not depend on the larger set it was
\* built for, nor on the weights of other elements.
LEMMA AddsUpAlike ==
    ASSUME NEW S, NEW R, NEW w, NEW v, NEW g, NEW h,
           AddsUp(g, w, SUBSET S), AddsUp(h, v, SUBSET R),
           NEW T, T \subseteq S, T \subseteq R, IsFiniteSet(T), \A x \in T : w[x] = v[x]
    PROVE  g[T] = h[T]
<1> DEFINE Differ == {s \in SUBSET T : g[s] # h[s]}
<1> SUFFICES ASSUME Differ # {} PROVE FALSE
  OBVIOUS
<1>1. \A s \in Differ : IsFiniteSet(s)
  BY FS_Subset
<1>2. PICK s \in Differ : \A y \in s : s \ {y} \notin Differ
  <2> HIDE DEF Differ
  <2> QED
    BY <1>1, SmallestSet
<1> DEFINE x == Picked(s)
           r == s \ {x}
<1>3. s \in SUBSET S /\ s \in SUBSET R /\ s \in SUBSET T
  OBVIOUS
<1>4. /\ g[s] = IF s = {} THEN 0 ELSE w[x] + g[r]
      /\ h[s] = IF s = {} THEN 0 ELSE v[x] + h[r]
  BY <1>3 DEF AddsUp
<1>5. s # {}
  BY <1>4
<1>6. x \in s
  BY <1>5, PickedIn
<1> HIDE DEF x
<1>7. g[r] = h[r]
  BY <1>2, <1>3, <1>6
<1>8. w[x] = v[x]
  BY <1>3, <1>6
<1> QED
  BY <1>4, <1>5, <1>7, <1>8

LEMMA SumSame ==
    ASSUME NEW S, IsFiniteSet(S), NEW w, NEW v, \A x \in S : w[x] = v[x]
    PROVE  SumOver(w, S) = SumOver(v, S)
<1>1. PICK g : AddsUp(g, w, SUBSET S) /\ SumOver(w, S) = g[S]
  BY SumDef
<1>2. PICK h : AddsUp(h, v, SUBSET S) /\ SumOver(v, S) = h[S]
  BY SumDef
<1>3. g[S] = h[S]
  BY <1>1, <1>2, AddsUpAlike
<1> QED
  BY <1>1, <1>2, <1>3

LEMMA SumEmpty == ASSUME NEW w PROVE SumOver(w, {}) = 0
<1>1. PICK g : AddsUp(g, w, SUBSET {}) /\ SumOver(w, {}) = g[{}]
  BY SumDef, FS_EmptySet
<1> QED
  BY <1>1 DEF AddsUp

\* The sum of a set is that of one of its elements and the rest, first for the
\* element the fold takes out and then for any.
LEMMA SumPicked ==
    ASSUME NEW S, IsFiniteSet(S), S # {}, NEW w
    PROVE  SumOver(w, S) = w[Picked(S)] + SumOver(w, S \ {Picked(S)})
<1> DEFINE r == S \ {Picked(S)}
<1>1. PICK g : AddsUp(g, w, SUBSET S) /\ SumOver(w, S) = g[S]
  BY SumDef
<1>2. IsFiniteSet(r)
  BY FS_Subset
<1>3. PICK h : AddsUp(h, w, SUBSET r) /\ SumOver(w, r) = h[r]
  BY <1>2, SumDef
<1>4. g[r] = h[r]
  <2>1. r \subseteq S
    OBVIOUS
  <2> HIDE DEF r
  <2> QED
    BY <1>1, <1>2, <1>3, <2>1, AddsUpAlike
<1>5. g[S] = w[Picked(S)] + g[r]
  BY <1>1 DEF AddsUp
<1> QED
  BY <1>1, <1>3, <1>4, <1>5

LEMMA SumType ==
    ASSUME NEW S, IsFiniteSet(S), NEW w, \A x \in S : w[x] \in Nat
    PROVE  SumOver(w, S) \in Nat
<1> DEFINE Bad == {s \in SUBSET S : SumOver(w, s) \notin Nat}
<1> SUFFICES ASSUME Bad # {} PROVE FALSE
  OBVIOUS
<1>1. \A s \in SUBSET S : IsFiniteSet(s)
  BY FS_Subset
<1>2. PICK s \in Bad : \A x \in s : s \ {x} \notin Bad
  <2>1. \A s \in Bad : IsFiniteSet(s)
    BY <1>1
  <2> HIDE DEF Bad
  <2> QED
    BY <2>1, SmallestSet
<1> DEFINE x == Picked(s)
<1>3. s \in SUBSET S /\ SumOver(w, s) \notin Nat
  OBVIOUS
<1>4. s # {}
  BY <1>3, SumEmpty
<1>5. SumOver(w, s) = w[x] + SumOver(w, s \ {x})
  BY <1>1, <1>3, <1>4, SumPicked
<1>6. x \in s
  BY <1>4, PickedIn
<1> HIDE DEF x
<1>7. SumOver(w, s \ {x}) \in Nat
  BY <1>2, <1>3, <1>6
<1> QED
  BY <1>3, <1>5, <1>6, <1>7

LEMMA SumOut ==
    ASSUME NEW S, IsFiniteSet(S), NEW w, \A x \in S : w[x] \in Nat, NEW a \in S
    PROVE  SumOver(w, S) = w[a] + SumOver(w, S \ {a})
<1> DEFINE Bad == {s \in SUBSET S : \E y \in s : SumOver(w, s) # w[y] + SumOver(w, s \ {y})}
<1> SUFFICES ASSUME Bad # {} PROVE FALSE
  OBVIOUS
<1>1. \A s \in SUBSET S : IsFiniteSet(s) /\ SumOver(w, s) \in Nat
  BY FS_Subset, SumType
<1>2. PICK s \in Bad : \A x \in s : s \ {x} \notin Bad
  <2>1. \A s \in Bad : IsFiniteSet(s)
    BY <1>1
  <2> HIDE DEF Bad
  <2> QED
    BY <2>1, SmallestSet
<1>3. s \in SUBSET S /\ s # {}
  OBVIOUS
<1>4. PICK y \in s : SumOver(w, s) # w[y] + SumOver(w, s \ {y})
  OBVIOUS
<1> DEFINE x == Picked(s)
<1>5. SumOver(w, s) = w[x] + SumOver(w, s \ {x})
  BY <1>1, <1>3, SumPicked
<1>6. x \in s
  BY <1>3, PickedIn
<1> HIDE DEF x
<1>7. x # y
  BY <1>4, <1>5
<1>8. ASSUME NEW z \in s, NEW u \in s, z # u
      PROVE  SumOver(w, s \ {z}) = w[u] + SumOver(w, (s \ {z}) \ {u})
  <2>1. s \ {z} \in SUBSET S /\ u \in s \ {z}
    BY <1>3, <1>8
  <2>2. s \ {z} \notin Bad
    BY <1>2
  <2> QED
    BY <2>1, <2>2
<1>9. (s \ {x}) \ {y} = (s \ {y}) \ {x}
  OBVIOUS
<1> DEFINE core == (s \ {x}) \ {y}
<1>10. /\ SumOver(w, s \ {x}) = w[y] + SumOver(w, core)
       /\ SumOver(w, s \ {y}) = w[x] + SumOver(w, core)
  BY <1>6, <1>7, <1>8, <1>9
<1>11. w[x] \in Nat /\ w[y] \in Nat /\ SumOver(w, core) \in Nat
  BY <1>1, <1>3, <1>6
<1> HIDE DEF core
<1> QED
  BY <1>4, <1>5, <1>10, <1>11

\* The sum of two sets without a common element.
LEMMA SumSplit ==
    ASSUME NEW S, IsFiniteSet(S), NEW w, \A x \in S : w[x] \in Nat,
           NEW A \in SUBSET S, NEW B \in SUBSET S, A \cap B = {}
    PROVE  SumOver(w, A \cup B) = SumOver(w, A) + SumOver(w, B)
<1> DEFINE Bad == {s \in SUBSET A : SumOver(w, s \cup B) # SumOver(w, s) + SumOver(w, B)}
<1> SUFFICES ASSUME Bad # {} PROVE FALSE
  OBVIOUS
<1>1. \A s \in SUBSET S : IsFiniteSet(s) /\ SumOver(w, s) \in Nat
  BY FS_Subset, SumType
<1>2. PICK s \in Bad : \A x \in s : s \ {x} \notin Bad
  <2>1. \A s \in Bad : IsFiniteSet(s)
    BY <1>1
  <2> HIDE DEF Bad
  <2> QED
    BY <2>1, SmallestSet
<1>3. s \in SUBSET A /\ SumOver(w, s \cup B) # SumOver(w, s) + SumOver(w, B)
  OBVIOUS
<1>4. PICK x \in s : TRUE
  <2>1. s # {}
    <3>1. {} \cup B = B
      OBVIOUS
    <3> QED
      BY <1>1, <1>3, <3>1, SumEmpty
  <2> QED
    BY <2>1
<1> DEFINE r == s \ {x}
<1>5. SumOver(w, s) = w[x] + SumOver(w, r)
  BY <1>1, <1>3, SumOut
<1>6. SumOver(w, s \cup B) = w[x] + SumOver(w, r \cup B)
  <2> DEFINE t == s \cup B
  <2>1. t \ {x} = r \cup B /\ x \in t /\ t \in SUBSET S
    BY <1>3
  <2> HIDE DEF r, t
  <2>2. SumOver(w, t) = w[x] + SumOver(w, t \ {x})
    BY <1>1, <2>1, SumOut
  <2> QED
    BY <2>1, <2>2 DEF t
<1>7. SumOver(w, r \cup B) = SumOver(w, r) + SumOver(w, B)
  BY <1>2, <1>3
<1>8. w[x] \in Nat /\ SumOver(w, r) \in Nat /\ SumOver(w, B) \in Nat
  BY <1>1, <1>3
<1> HIDE DEF r
<1> QED
  BY <1>3, <1>5, <1>6, <1>7, <1>8

\* The sum of sums is the sum of what is added up.
LEMMA SumPlus ==
    ASSUME NEW S, IsFiniteSet(S), NEW w, NEW v, NEW u,
           \A x \in S : w[x] \in Nat /\ v[x] \in Nat /\ u[x] = w[x] + v[x]
    PROVE  SumOver(u, S) = SumOver(w, S) + SumOver(v, S)
<1> DEFINE Bad == {s \in SUBSET S : SumOver(u, s) # SumOver(w, s) + SumOver(v, s)}
<1> SUFFICES ASSUME Bad # {} PROVE FALSE
  OBVIOUS
<1>1. \A s \in SUBSET S : /\ IsFiniteSet(s)
                          /\ SumOver(w, s) \in Nat /\ SumOver(v, s) \in Nat
  BY FS_Subset, SumType
<1>2. PICK s \in Bad : \A x \in s : s \ {x} \notin Bad
  <2>1. \A s \in Bad : IsFiniteSet(s)
    BY <1>1
  <2> HIDE DEF Bad
  <2> QED
    BY <2>1, SmallestSet
<1>3. s \in SUBSET S /\ SumOver(u, s) # SumOver(w, s) + SumOver(v, s)
  OBVIOUS
<1>4. s # {}
  <2> SUFFICES ASSUME s = {} PROVE FALSE
    OBVIOUS
  <2>1. SumOver(u, s) = 0 /\ SumOver(w, s) = 0 /\ SumOver(v, s) = 0
    BY SumEmpty
  <2>2. 0 = 0 + 0
    OBVIOUS
  <2> QED
    BY <1>3, <2>1, <2>2
<1> DEFINE x == Picked(s)
           r == s \ {x}
<1>5. /\ SumOver(u, s) = u[x] + SumOver(u, r)
      /\ SumOver(w, s) = w[x] + SumOver(w, r)
      /\ SumOver(v, s) = v[x] + SumOver(v, r)
  BY <1>1, <1>3, <1>4, SumPicked
<1>6. x \in s
  BY <1>4, PickedIn
<1> HIDE DEF x
<1>7. SumOver(u, r) = SumOver(w, r) + SumOver(v, r) /\ r \in SUBSET S
  BY <1>2, <1>3, <1>6
<1>8. /\ w[x] \in Nat /\ v[x] \in Nat /\ u[x] = w[x] + v[x]
      /\ SumOver(w, r) \in Nat /\ SumOver(v, r) \in Nat
  BY <1>1, <1>3, <1>6, <1>7
<1> HIDE DEF r
<1> QED
  BY <1>3, <1>5, <1>7, <1>8

\* A sum of one value counts.
LEMMA SumConstant ==
    ASSUME NEW S, IsFiniteSet(S), NEW c \in Nat, NEW w, \A x \in S : w[x] = c
    PROVE  SumOver(w, S) = c * Cardinality(S)
<1> DEFINE Bad == {s \in SUBSET S : SumOver(w, s) # c * Cardinality(s)}
<1> SUFFICES ASSUME Bad # {} PROVE FALSE
  OBVIOUS
<1>1. \A s \in SUBSET S : IsFiniteSet(s) /\ Cardinality(s) \in Nat
  BY FS_Subset, FS_CardinalityType
<1>2. PICK s \in Bad : \A x \in s : s \ {x} \notin Bad
  <2>1. \A s \in Bad : IsFiniteSet(s)
    BY <1>1
  <2> HIDE DEF Bad
  <2> QED
    BY <2>1, SmallestSet
<1>3. s \in SUBSET S /\ SumOver(w, s) # c * Cardinality(s)
  OBVIOUS
<1>4. s # {}
  BY <1>3, SumEmpty, FS_EmptySet
<1> DEFINE x == Picked(s)
           r == s \ {x}
<1>5. SumOver(w, s) = w[x] + SumOver(w, r)
  BY <1>1, <1>3, <1>4, SumPicked
<1>6. x \in s
  BY <1>4, PickedIn
<1> HIDE DEF x
<1>7. SumOver(w, r) = c * Cardinality(r) /\ r \in SUBSET S
  BY <1>2, <1>3, <1>6
<1>8. Cardinality(s) = Cardinality(r) + 1
  <2>1. Cardinality(r) = Cardinality(s) - 1
    BY <1>1, <1>3, <1>6, FS_RemoveElement
  <2> QED
    BY <1>1, <1>3, <2>1
<1>9. c * (Cardinality(r) + 1) = c + c * Cardinality(r) /\ w[x] = c
  BY <1>1, <1>3, <1>6, <1>7
<1> QED
  BY <1>3, <1>5, <1>7, <1>8, <1>9

\* A sum may be taken class by class: class[k] holds the elements of S that f
\* takes to k, p[k] is its sum, and T is the union of the classes.
LEMMA SumByClass ==
    ASSUME NEW S, IsFiniteSet(S), NEW w, NEW f, \A x \in S : w[x] \in Nat,
           NEW K, IsFiniteSet(K), NEW class, NEW p,
           \A k \in K : class[k] \subseteq S /\ p[k] = SumOver(w, class[k]),
           \A k \in K : \A x \in S : x \in class[k] <=> f[x] = k,
           NEW T \in SUBSET S, \A x \in S : x \in T <=> f[x] \in K
    PROVE  SumOver(p, K) = SumOver(w, T)
<1> DEFINE Of(k) == {x \in S : f[x] \in k}
           Bad == {k \in SUBSET K : SumOver(p, k) # SumOver(w, Of(k))}
<1>0. Of(K) = T /\ \A k \in K : class[k] = {x \in S : f[x] = k}
  OBVIOUS
<1> SUFFICES ASSUME Bad # {} PROVE FALSE
  <2>1. K \in SUBSET K
    OBVIOUS
  <2>2. Bad = {} => SumOver(p, K) = SumOver(w, Of(K))
    OBVIOUS
  <2> HIDE DEF Bad, Of
  <2> QED
    BY <1>0, <2>2
<1>1. \A k \in SUBSET K : IsFiniteSet(k)
  BY FS_Subset
<1>2. PICK k \in Bad : \A c \in k : k \ {c} \notin Bad
  <2>1. \A k \in Bad : IsFiniteSet(k)
    BY <1>1
  <2> HIDE DEF Bad
  <2> QED
    BY <2>1, SmallestSet
<1>3. k \in SUBSET K /\ SumOver(p, k) # SumOver(w, Of(k))
  OBVIOUS
<1>4. k # {}
  <2>1. Of({}) = {}
    OBVIOUS
  <2> HIDE DEF Of
  <2> QED
    BY <1>3, <2>1, SumEmpty
<1> DEFINE c == Picked(k)
           r == k \ {c}
<1>5. SumOver(p, k) = p[c] + SumOver(p, r)
  BY <1>1, <1>3, <1>4, SumPicked
<1>6. c \in k
  BY <1>4, PickedIn
<1> HIDE DEF c
<1>7. SumOver(p, r) = SumOver(w, Of(r))
  BY <1>2, <1>3, <1>6
<1>8. p[c] = SumOver(w, class[c]) /\ class[c] = {x \in S : f[x] = c}
  <2>1. c \in K
    BY <1>3, <1>6
  <2> QED
    BY <1>0, <2>1
<1>9. SumOver(w, Of(k)) = SumOver(w, class[c]) + SumOver(w, Of(r))
  <2>1. /\ Of(k) = class[c] \cup Of(r) /\ class[c] \cap Of(r) = {}
        /\ class[c] \in SUBSET S /\ Of(r) \in SUBSET S
    BY <1>6, <1>8
  <2> HIDE DEF Of, r
  <2> QED
    BY <2>1, SumSplit
<1> QED
  BY <1>3, <1>5, <1>7, <1>8, <1>9

================================================================================
