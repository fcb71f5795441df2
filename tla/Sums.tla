-------------------------------- MODULE Sums --------------------------------
(***************************************************************************)
(* Facts about the sum of a function over a finite set, for the theorems   *)
(* about credit, reservations and savings.  An induction over a finite set *)
(* is carried out by looking at a smallest counterexample among its        *)
(* subsets (Least).                                                        *)
(***************************************************************************)
EXTENDS Integers, FiniteSets, Functions, FiniteSetTheorems, TLAPS

\* A nonempty family of subsets of a finite set has a least member.
LEMMA Least ==
    ASSUME NEW S, IsFiniteSet(S), NEW B, B \subseteq SUBSET S, B # {}
    PROVE  \E T \in B : \A U \in SUBSET T : U # T => U \notin B
<1>1. IsWellFoundedOn(StrictSubsetOrdering(S), FiniteSubsetsOf(S))
  BY FS_StrictSubsetOrderingWellFounded
<1>2. B \subseteq FiniteSubsetsOf(S)
  BY FS_Subset DEF FiniteSubsetsOf
<1>3. PICK T \in B : \A U \in B : <<U, T>> \notin StrictSubsetOrdering(S)
  BY <1>1, <1>2, WFMin
<1> QED BY <1>3 DEF StrictSubsetOrdering

-----------------------------------------------------------------------------
(***************************************************************************)
(* The recursive function behind SumFunctionOnSet exists, so the sum can   *)
(* be unfolded.                                                            *)
(***************************************************************************)

Pick(s) == CHOOSE x \in s : TRUE

\* g gives the sum of f over every subset of S, one element after the other.
Sums(f, S, g) ==
    g = [s \in SUBSET S |-> IF s = {} THEN 0 ELSE f[Pick(s)] + g[s \ {Pick(s)}]]

\* Two such functions agree where both are defined.
LEMMA SumsAgree ==
    ASSUME NEW f, NEW S, IsFiniteSet(S), NEW T, NEW g, NEW h,
           Sums(f, S, g), Sums(f, T, h), NEW s \in SUBSET S, s \in SUBSET T
    PROVE  g[s] = h[s]
<1> DEFINE B == {u \in SUBSET S : u \in SUBSET T /\ g[u] # h[u]}
<1> SUFFICES ASSUME B # {} PROVE FALSE
  OBVIOUS
<1>1. PICK u \in B : \A v \in SUBSET u : v # u => v \notin B
  <2>1. B \subseteq SUBSET S
    OBVIOUS
  <2> HIDE DEF B
  <2> QED BY <2>1, Least
<1>2. /\ g[u] = IF u = {} THEN 0 ELSE f[Pick(u)] + g[u \ {Pick(u)}]
      /\ h[u] = IF u = {} THEN 0 ELSE f[Pick(u)] + h[u \ {Pick(u)}]
  BY DEF Sums
<1>3. u # {}
  BY <1>2
<1>4. Pick(u) \in u
  BY <1>3 DEF Pick
<1>5. g[u \ {Pick(u)}] = h[u \ {Pick(u)}]
  BY <1>1, <1>4
<1> QED BY <1>2, <1>3, <1>5

LEMMA SumsExist ==
    ASSUME NEW f, NEW S, IsFiniteSet(S)
    PROVE  \E g : Sums(f, S, g)
<1> DEFINE Good(T) == \E g : Sums(f, T, g)
           B == {T \in SUBSET S : ~Good(T)}
<1> SUFFICES ASSUME B # {} PROVE FALSE
  OBVIOUS
<1>1. PICK T \in B : \A U \in SUBSET T : U # T => U \notin B
  <2>1. B \subseteq SUBSET S
    OBVIOUS
  <2> HIDE DEF B
  <2> QED BY <2>1, Least
<1>2. \A U \in SUBSET T : U # T => Good(U)
  BY <1>1
<1> DEFINE G(U) == CHOOSE g : Sums(f, U, g)
           v(U) == G(U)[U]
           h == [s \in SUBSET T |-> IF s = {} THEN 0
                                    ELSE IF s = T THEN f[Pick(s)] + v(s \ {Pick(s)})
                                    ELSE v(s)]
<1>3. \A U \in SUBSET T : U # T => Sums(f, U, G(U))
  BY <1>2
<1>4. \A U \in SUBSET T : IsFiniteSet(U)
  BY FS_Subset
<1> HIDE DEF G
<1>5. ASSUME NEW s \in SUBSET T, s # {}
      PROVE  h[s] = f[Pick(s)] + h[s \ {Pick(s)}]
  <2>1. Pick(s) \in s
    BY <1>5 DEF Pick
  <2> DEFINE p == s \ {Pick(s)}
  <2>2. p \in SUBSET T /\ p # T /\ p \in SUBSET s /\ p \in SUBSET p
    BY <2>1
  <2>3. Sums(f, p, G(p)) /\ IsFiniteSet(p)
    BY <1>3, <1>4, <2>2
  <2>4. v(p) = IF p = {} THEN 0 ELSE f[Pick(p)] + G(p)[p \ {Pick(p)}]
    BY <2>2, <2>3 DEF Sums
  <2>5. h[p] = v(p)
    BY <2>2, <2>4
  <2>6. CASE s = T
    BY <1>5, <2>5, <2>6
  <2>7. CASE s # T
    <3>1. h[s] = v(s)
      BY <1>5, <2>7
    <3>2. Sums(f, s, G(s)) /\ IsFiniteSet(s)
      BY <1>3, <1>4, <2>7
    <3>3. v(s) = f[Pick(s)] + G(s)[p]
      BY <1>5, <3>2 DEF Sums
    <3>4. G(s)[p] = G(p)[p]
      BY <2>2, <2>3, <3>2, SumsAgree
    <3> QED BY <2>5, <3>1, <3>3, <3>4
  <2> QED BY <2>6, <2>7
<1>6. Sums(f, T, h)
  <2> DEFINE k == [s \in SUBSET T |-> IF s = {} THEN 0
                                      ELSE f[Pick(s)] + h[s \ {Pick(s)}]]
  <2>1. \A s \in SUBSET T : h[s] = k[s]
    BY <1>5
  <2>2. h = k
    BY <2>1
  <2> QED BY <2>2 DEF Sums
<1> QED BY <1>6

\* The sum over the empty set, and over a set in the order of CHOOSE.
LEMMA SumUnfold ==
    ASSUME NEW f, NEW S, IsFiniteSet(S)
    PROVE  /\ S = {} => SumFunctionOnSet(f, S) = 0
           /\ S # {} => /\ Pick(S) \in S
                        /\ SumFunctionOnSet(f, S)
                             = f[Pick(S)] + SumFunctionOnSet(f, S \ {Pick(S)})
<1> DEFINE G(U) == CHOOSE g : Sums(f, U, g)
<1>1. ASSUME NEW U, IsFiniteSet(U)
      PROVE  Sums(f, U, G(U)) /\ SumFunctionOnSet(f, U) = G(U)[U]
  <2>1. Sums(f, U, G(U))
    BY <1>1, SumsExist
  <2>2. SumFunctionOnSet(f, U) = G(U)[U]
    BY DEF SumFunctionOnSet, FoldFunctionOnSet, MapThenFoldSet, Sums, Pick
  <2> QED BY <2>1, <2>2
<1> HIDE DEF G
<1>2. G(S)[S] = IF S = {} THEN 0 ELSE f[Pick(S)] + G(S)[S \ {Pick(S)}]
  BY <1>1 DEF Sums
<1>3. CASE S = {}
  BY <1>1, <1>2, <1>3
<1>4. CASE S # {}
  <2>1. Pick(S) \in S
    BY <1>4 DEF Pick
  <2> DEFINE p == S \ {Pick(S)}
  <2>2. IsFiniteSet(p)
    BY FS_Subset
  <2>3. G(S)[p] = G(p)[p]
    <3>1. Sums(f, S, G(S)) /\ Sums(f, p, G(p)) /\ p \in SUBSET S /\ p \in SUBSET p
      BY <1>1, <2>2
    <3> HIDE DEF p
    <3> QED BY <3>1, SumsAgree
  <2> QED BY <1>1, <1>2, <1>4, <2>1, <2>2, <2>3
<1> QED BY <1>3, <1>4

-----------------------------------------------------------------------------
(***************************************************************************)
(* Laws of sums of integers.                                               *)
(***************************************************************************)

\* Sums of integers are integers, and any element may be taken out first.
LEMMA SumRemove ==
    ASSUME NEW f, NEW S, IsFiniteSet(S), \A x \in S : f[x] \in Int
    PROVE  /\ SumFunctionOnSet(f, S) \in Int
           /\ \A x \in S : /\ SumFunctionOnSet(f, S \ {x}) \in Int
                           /\ SumFunctionOnSet(f, S)
                                = f[x] + SumFunctionOnSet(f, S \ {x})
<1> DEFINE M(T) == SumFunctionOnSet(f, T)
           Law(T) == /\ M(T) \in Int
                     /\ \A x \in T : M(T \ {x}) \in Int /\ M(T) = f[x] + M(T \ {x})
           B == {T \in SUBSET S : ~Law(T)}
<1>1. \A T \in SUBSET S : IsFiniteSet(T)
  BY FS_Subset
<1>2. ASSUME NEW T \in SUBSET S
      PROVE  /\ T = {} => M(T) = 0
             /\ T # {} => Pick(T) \in T /\ M(T) = f[Pick(T)] + M(T \ {Pick(T)})
  BY <1>1, SumUnfold
<1> HIDE DEF M
<1> SUFFICES ASSUME B # {} PROVE FALSE
  BY DEF M
<1>3. PICK T \in B : \A U \in SUBSET T : U # T => U \notin B
  <2>1. B \subseteq SUBSET S
    OBVIOUS
  <2> HIDE DEF B
  <2> QED BY <2>1, Least
<1>4. \A x \in T : Law(T \ {x}) /\ T \ {x} \in SUBSET S
  BY <1>3
<1>5. T # {}
  <2>1. T = {} => M(T) = 0
    BY <1>2, <1>3
  <2>2. T = {} => Law(T)
    BY <2>1
  <2> QED BY <1>3, <2>2
<1> DEFINE y == Pick(T)
<1>6. y \in T /\ M(T) = f[y] + M(T \ {y}) /\ M(T \ {y}) \in Int /\ f[y] \in Int
  BY <1>2, <1>4, <1>5
<1>7. ASSUME NEW x \in T
      PROVE  M(T \ {x}) \in Int /\ M(T) = f[x] + M(T \ {x})
  <2>1. CASE x = y
    BY <1>6, <2>1
  <2>2. CASE x # y
    <3>1. x \in T \ {y} /\ y \in T \ {x} /\ (T \ {y}) \ {x} = (T \ {x}) \ {y}
      BY <1>6, <2>2
    <3>2. M(T \ {y}) = f[x] + M((T \ {y}) \ {x}) /\ M((T \ {y}) \ {x}) \in Int
      BY <1>4, <1>6, <3>1
    <3>3. M(T \ {x}) = f[y] + M((T \ {x}) \ {y}) /\ M(T \ {x}) \in Int
      BY <1>4, <3>1
    <3>4. f[x] \in Int
      BY <1>3
    <3>5. M((T \ {y}) \ {x}) = M((T \ {x}) \ {y})
      BY <3>1
    <3> HIDE DEF y
    <3> QED BY <1>6, <3>2, <3>3, <3>4, <3>5
  <2> QED BY <2>1, <2>2
<1>8. M(T) \in Int
  BY <1>6
<1> QED BY <1>3, <1>7, <1>8

\* Sums are monotone.
LEMMA SumMono ==
    ASSUME NEW f, NEW g, NEW S, IsFiniteSet(S),
           \A x \in S : f[x] \in Int /\ g[x] \in Int /\ f[x] <= g[x]
    PROVE  SumFunctionOnSet(f, S) <= SumFunctionOnSet(g, S)
<1> DEFINE F(T) == SumFunctionOnSet(f, T)
           G(T) == SumFunctionOnSet(g, T)
           B == {T \in SUBSET S : ~(F(T) <= G(T))}
<1>1. ASSUME NEW T \in SUBSET S
      PROVE  /\ F(T) \in Int /\ G(T) \in Int
             /\ T = {} => F(T) = 0 /\ G(T) = 0
             /\ \A x \in T : F(T) = f[x] + F(T \ {x}) /\ G(T) = g[x] + G(T \ {x})
  <2>1. IsFiniteSet(T)
    BY FS_Subset
  <2>2. T = {} => F(T) = 0 /\ G(T) = 0
    BY <2>1, SumUnfold
  <2>3. \A x \in T : f[x] \in Int
    OBVIOUS
  <2>4. \A x \in T : g[x] \in Int
    OBVIOUS
  <2>5. F(T) \in Int /\ \A x \in T : F(T) = f[x] + F(T \ {x})
    BY <2>1, <2>3, SumRemove
  <2>6. G(T) \in Int /\ \A x \in T : G(T) = g[x] + G(T \ {x})
    BY <2>1, <2>4, SumRemove
  <2> QED BY <2>2, <2>5, <2>6
<1> HIDE DEF F, G
<1> SUFFICES ASSUME B # {} PROVE FALSE
  BY DEF F, G
<1>2. PICK T \in B : \A U \in SUBSET T : U # T => U \notin B
  <2>1. B \subseteq SUBSET S
    OBVIOUS
  <2> HIDE DEF B
  <2> QED BY <2>1, Least
<1>3. PICK x : x \in T
  BY <1>1, <1>2
<1>4. T \ {x} \in SUBSET S /\ F(T \ {x}) <= G(T \ {x})
  BY <1>2, <1>3
<1>5. F(T \ {x}) \in Int /\ G(T \ {x}) \in Int
  BY <1>1, <1>4
<1>6. F(T) = f[x] + F(T \ {x}) /\ G(T) = g[x] + G(T \ {x})
  BY <1>1, <1>2, <1>3
<1> QED BY <1>2, <1>3, <1>4, <1>5, <1>6

\* Functions that agree on the set have the same sum.
LEMMA SumSame ==
    ASSUME NEW f, NEW g, NEW S, IsFiniteSet(S),
           \A x \in S : f[x] \in Int /\ g[x] = f[x]
    PROVE  SumFunctionOnSet(g, S) = SumFunctionOnSet(f, S)
<1>1. SumFunctionOnSet(g, S) \in Int /\ SumFunctionOnSet(f, S) \in Int
  <2>1. \A x \in S : f[x] \in Int
    OBVIOUS
  <2>2. \A x \in S : g[x] \in Int
    OBVIOUS
  <2> QED BY <2>1, <2>2, SumRemove
<1>2. \A x \in S : f[x] \in Int /\ g[x] \in Int /\ f[x] <= g[x] /\ g[x] <= f[x]
  OBVIOUS
<1>3. SumFunctionOnSet(g, S) <= SumFunctionOnSet(f, S)
  BY <1>2, SumMono
<1>4. SumFunctionOnSet(f, S) <= SumFunctionOnSet(g, S)
  BY <1>2, SumMono
<1> QED BY <1>1, <1>3, <1>4

\* One value changes.
LEMMA SumUpdate ==
    ASSUME NEW f, NEW g, NEW S, IsFiniteSet(S), NEW x \in S,
           \A y \in S : f[y] \in Int /\ g[y] \in Int,
           \A y \in S \ {x} : g[y] = f[y]
    PROVE  SumFunctionOnSet(g, S) = SumFunctionOnSet(f, S) + g[x] - f[x]
<1>1. IsFiniteSet(S \ {x})
  BY FS_Subset
<1>2. SumFunctionOnSet(g, S \ {x}) = SumFunctionOnSet(f, S \ {x})
  BY <1>1, SumSame
<1>3. /\ SumFunctionOnSet(f, S) = f[x] + SumFunctionOnSet(f, S \ {x})
      /\ SumFunctionOnSet(f, S \ {x}) \in Int
  <2>1. \A y \in S : f[y] \in Int
    OBVIOUS
  <2> QED BY <2>1, SumRemove
<1>4. SumFunctionOnSet(g, S) = g[x] + SumFunctionOnSet(g, S \ {x})
  <2>1. \A y \in S : g[y] \in Int
    OBVIOUS
  <2> QED BY <2>1, SumRemove
<1> QED BY <1>2, <1>3, <1>4

\* The sum of two functions.
LEMMA SumPlus ==
    ASSUME NEW f, NEW g, NEW h, NEW S, IsFiniteSet(S),
           \A x \in S : f[x] \in Int /\ g[x] \in Int /\ h[x] = f[x] + g[x]
    PROVE  SumFunctionOnSet(h, S) = SumFunctionOnSet(f, S) + SumFunctionOnSet(g, S)
<1> DEFINE F(T) == SumFunctionOnSet(f, T)
           G(T) == SumFunctionOnSet(g, T)
           H(T) == SumFunctionOnSet(h, T)
           B == {T \in SUBSET S : H(T) # F(T) + G(T)}
<1>1. ASSUME NEW T \in SUBSET S
      PROVE  /\ F(T) \in Int /\ G(T) \in Int /\ H(T) \in Int
             /\ T = {} => F(T) = 0 /\ G(T) = 0 /\ H(T) = 0
             /\ \A x \in T : /\ F(T) = f[x] + F(T \ {x}) /\ G(T) = g[x] + G(T \ {x})
                             /\ H(T) = h[x] + H(T \ {x})
  <2>1. IsFiniteSet(T)
    BY FS_Subset
  <2>2. T = {} => F(T) = 0 /\ G(T) = 0 /\ H(T) = 0
    BY <2>1, SumUnfold
  <2>3. \A x \in T : f[x] \in Int
    OBVIOUS
  <2>4. \A x \in T : g[x] \in Int
    OBVIOUS
  <2>5. \A x \in T : h[x] \in Int
    OBVIOUS
  <2>6. F(T) \in Int /\ \A x \in T : F(T) = f[x] + F(T \ {x})
    BY <2>1, <2>3, SumRemove
  <2>7. G(T) \in Int /\ \A x \in T : G(T) = g[x] + G(T \ {x})
    BY <2>1, <2>4, SumRemove
  <2>8. H(T) \in Int /\ \A x \in T : H(T) = h[x] + H(T \ {x})
    BY <2>1, <2>5, SumRemove
  <2> QED BY <2>2, <2>6, <2>7, <2>8
<1> HIDE DEF F, G, H
<1> SUFFICES ASSUME B # {} PROVE FALSE
  BY DEF F, G, H
<1>2. PICK T \in B : \A U \in SUBSET T : U # T => U \notin B
  <2>1. B \subseteq SUBSET S
    OBVIOUS
  <2> HIDE DEF B
  <2> QED BY <2>1, Least
<1>3. PICK x : x \in T
  BY <1>1, <1>2
<1>4. T \ {x} \in SUBSET S /\ H(T \ {x}) = F(T \ {x}) + G(T \ {x})
  BY <1>2, <1>3
<1>5. F(T \ {x}) \in Int /\ G(T \ {x}) \in Int
  BY <1>1, <1>4
<1>6. /\ F(T) = f[x] + F(T \ {x}) /\ G(T) = g[x] + G(T \ {x})
      /\ H(T) = h[x] + H(T \ {x})
  BY <1>1, <1>2, <1>3
<1>7. f[x] \in Int /\ g[x] \in Int /\ h[x] = f[x] + g[x]
  BY <1>2, <1>3
<1> QED BY <1>2, <1>4, <1>5, <1>6, <1>7

\* Where the function is zero it adds nothing.
LEMMA SumSupport ==
    ASSUME NEW f, NEW S, IsFiniteSet(S), \A x \in S : f[x] \in Int,
           NEW R \in SUBSET S, \A x \in S \ R : f[x] = 0
    PROVE  SumFunctionOnSet(f, S) = SumFunctionOnSet(f, R)
<1> DEFINE F(T) == SumFunctionOnSet(f, T)
           B == {T \in SUBSET S : R \subseteq T /\ F(T) # F(R)}
<1>1. ASSUME NEW T \in SUBSET S
      PROVE  F(T) \in Int /\ \A x \in T : F(T) = f[x] + F(T \ {x})
  <2>1. IsFiniteSet(T)
    BY FS_Subset
  <2> QED BY <2>1, SumRemove
<1> HIDE DEF F
<1> SUFFICES ASSUME B # {} PROVE FALSE
  BY DEF F
<1>2. PICK T \in B : \A U \in SUBSET T : U # T => U \notin B
  <2>1. B \subseteq SUBSET S
    OBVIOUS
  <2> HIDE DEF B
  <2> QED BY <2>1, Least
<1>3. PICK x \in T : x \notin R
  <2>1. R \subseteq T /\ R # T
    BY <1>2
  <2> QED BY <2>1
<1>4. T \ {x} \in SUBSET S /\ F(T \ {x}) = F(R)
  BY <1>2, <1>3
<1>5. F(T) = f[x] + F(T \ {x}) /\ f[x] = 0 /\ F(T \ {x}) \in Int
  BY <1>1, <1>2, <1>3, <1>4
<1> QED BY <1>2, <1>4, <1>5

\* A sum of naturals is a natural and no less than each of them, nor than the sum
\* over a part of the set; it is zero only if all of them are.
LEMMA SumNat ==
    ASSUME NEW f, NEW S, IsFiniteSet(S), \A x \in S : f[x] \in Nat
    PROVE  /\ SumFunctionOnSet(f, S) \in Nat
           /\ \A x \in S : f[x] <= SumFunctionOnSet(f, S)
           /\ (\A x \in S : f[x] = 0) <=> SumFunctionOnSet(f, S) = 0
<1> DEFINE z == [x \in S |-> 0]
<1>1. ASSUME NEW T \in SUBSET S
      PROVE  SumFunctionOnSet(z, T) = 0
  <2>1. IsFiniteSet(T)
    BY FS_Subset
  <2>2. {} \in SUBSET T /\ (\A x \in T : z[x] \in Int) /\ \A x \in T \ {} : z[x] = 0
    OBVIOUS
  <2>3. SumFunctionOnSet(z, T) = SumFunctionOnSet(z, {})
    BY <2>1, <2>2, SumSupport
  <2> QED BY <2>3, FS_EmptySet, SumUnfold
<1>2. ASSUME NEW T \in SUBSET S
      PROVE  SumFunctionOnSet(f, T) \in Nat
  <2>1. IsFiniteSet(T)
    BY FS_Subset
  <2>2. SumFunctionOnSet(f, T) \in Int
    BY <2>1, SumRemove
  <2>3. SumFunctionOnSet(z, T) <= SumFunctionOnSet(f, T)
    <3>1. \A x \in T : z[x] \in Int /\ f[x] \in Int /\ z[x] <= f[x]
      OBVIOUS
    <3> HIDE DEF z
    <3> QED BY <2>1, <3>1, SumMono
  <2> QED BY <1>1, <2>2, <2>3
<1>3. ASSUME NEW x \in S
      PROVE  f[x] <= SumFunctionOnSet(f, S)
  <2>1. SumFunctionOnSet(f, S) = f[x] + SumFunctionOnSet(f, S \ {x})
    BY SumRemove
  <2>2. SumFunctionOnSet(f, S \ {x}) \in Nat
    BY <1>2
  <2> QED BY <2>1, <2>2
<1>4. ASSUME \A x \in S : f[x] = 0
      PROVE  SumFunctionOnSet(f, S) = 0
  <2>1. \A x \in S : z[x] \in Int /\ f[x] = z[x]
    BY <1>4
  <2> HIDE DEF z
  <2>2. SumFunctionOnSet(f, S) = SumFunctionOnSet(z, S)
    BY <2>1, SumSame
  <2> QED BY <1>1, <2>2
<1> QED BY <1>2, <1>3, <1>4

\* A larger set has a larger sum of naturals.
LEMMA SumSubset ==
    ASSUME NEW f, NEW S, IsFiniteSet(S), \A x \in S : f[x] \in Nat, NEW R \in SUBSET S
    PROVE  SumFunctionOnSet(f, R) <= SumFunctionOnSet(f, S)
<1> DEFINE g == [x \in S |-> IF x \in R THEN f[x] ELSE 0]
<1>1. IsFiniteSet(R)
  BY FS_Subset
<1>2. /\ \A x \in S : g[x] \in Int /\ f[x] \in Int /\ g[x] <= f[x]
      /\ \A x \in S \ R : g[x] = 0
      /\ \A x \in R : f[x] \in Int /\ g[x] = f[x]
  OBVIOUS
<1> HIDE DEF g
<1>3. SumFunctionOnSet(g, S) <= SumFunctionOnSet(f, S)
  BY <1>2, SumMono
<1>4. SumFunctionOnSet(g, S) = SumFunctionOnSet(g, R)
  BY <1>2, SumSupport
<1>5. SumFunctionOnSet(g, R) = SumFunctionOnSet(f, R)
  BY <1>1, <1>2, SumSame
<1> QED BY <1>3, <1>4, <1>5

\* A function below another with the same sum is the same everywhere.
LEMMA SumTight ==
    ASSUME NEW f, NEW g, NEW S, IsFiniteSet(S),
           \A x \in S : f[x] \in Int /\ g[x] \in Int /\ f[x] <= g[x],
           SumFunctionOnSet(f, S) = SumFunctionOnSet(g, S)
    PROVE  \A x \in S : f[x] = g[x]
<1> TAKE x \in S
<1>1. IsFiniteSet(S \ {x})
  BY FS_Subset
<1>2. SumFunctionOnSet(f, S \ {x}) <= SumFunctionOnSet(g, S \ {x})
  BY <1>1, SumMono
<1>3. /\ SumFunctionOnSet(f, S) = f[x] + SumFunctionOnSet(f, S \ {x})
      /\ SumFunctionOnSet(f, S \ {x}) \in Int
  BY SumRemove
<1>4. /\ SumFunctionOnSet(g, S) = g[x] + SumFunctionOnSet(g, S \ {x})
      /\ SumFunctionOnSet(g, S \ {x}) \in Int
  BY SumRemove
<1>5. f[x] \in Int /\ g[x] \in Int /\ f[x] <= g[x]
  OBVIOUS
<1>6. f[x] + SumFunctionOnSet(f, S \ {x}) = g[x] + SumFunctionOnSet(g, S \ {x})
  BY <1>3, <1>4
<1> QED BY <1>2, <1>3, <1>4, <1>5, <1>6


-----------------------------------------------------------------------------
(***************************************************************************)
(* Sums along a sequence.                                                  *)
(***************************************************************************)

\* Induction up to n, by a smallest initial segment.
LEMMA Segments ==
    ASSUME NEW n \in Nat, NEW G, 0 \in G, \A m \in 0..(n - 1) : m \in G => m + 1 \in G
    PROVE  n \in G
<1> SUFFICES ASSUME n \notin G PROVE FALSE
  OBVIOUS
<1> DEFINE B == {1..m : m \in {i \in 0..n : i \notin G}}
<1>1. IsFiniteSet(1..n)
  BY FS_Interval
<1>2. \A T \in B : T \in SUBSET (1..n)
  OBVIOUS
<1>3. 1..n \in B
  OBVIOUS
<1>4. PICK T \in B : \A U \in SUBSET T : U # T => U \notin B
  <2>1. B \subseteq SUBSET (1..n) /\ B # {}
    BY <1>2, <1>3
  <2> HIDE DEF B
  <2> QED BY <1>1, <2>1, Least
<1>5. PICK m \in 0..n : m \notin G /\ T = 1..m
  BY <1>4
<1>6. m - 1 \in 0..(n - 1) /\ (m - 1) + 1 = m
  BY <1>5
<1>7. m - 1 \notin G /\ m - 1 \in 0..n
  BY <1>5, <1>6
<1>8. 1..(m - 1) \in B
  BY <1>7
<1>9. 1..(m - 1) \in SUBSET T /\ 1..(m - 1) # T
  <2>1. m \in 1..m /\ m \notin 1..(m - 1)
    BY <1>6
  <2>2. \A i \in 1..(m - 1) : i \in 1..m
    BY <1>6
  <2> QED BY <1>5, <2>1, <2>2
<1> QED BY <1>4, <1>8, <1>9

\* One element is taken out.
LEMMA SumTake ==
    ASSUME NEW f, NEW S, IsFiniteSet(S), \A x \in S : f[x] \in Int, NEW y \in S,
           NEW R, S \ {y} = R
    PROVE  /\ SumFunctionOnSet(f, S) = f[y] + SumFunctionOnSet(f, R)
           /\ SumFunctionOnSet(f, R) \in Int
<1>1. /\ SumFunctionOnSet(f, S) = f[y] + SumFunctionOnSet(f, S \ {y})
      /\ SumFunctionOnSet(f, S \ {y}) \in Int
  BY SumRemove
<1> QED BY <1>1

\* An initial segment and the next index.
LEMMA SumNext ==
    ASSUME NEW f, NEW n \in Nat, \A i \in 1..(n + 1) : f[i] \in Int
    PROVE  /\ SumFunctionOnSet(f, 1..n) \in Int
           /\ SumFunctionOnSet(f, 1..(n + 1)) = SumFunctionOnSet(f, 1..n) + f[n + 1]
<1>1. IsFiniteSet(1..(n + 1))
  BY FS_Interval
<1>2. n + 1 \in 1..(n + 1) /\ (1..(n + 1)) \ {n + 1} = 1..n
  OBVIOUS
<1>3. /\ SumFunctionOnSet(f, 1..n) \in Int
      /\ SumFunctionOnSet(f, 1..(n + 1)) = f[n + 1] + SumFunctionOnSet(f, 1..n)
  <2> DEFINE S == 1..(n + 1)
             R == 1..n
             y == n + 1
  <2>1. IsFiniteSet(S) /\ y \in S /\ S \ {y} = R
    BY <1>1, <1>2
  <2>2. \A x \in S : f[x] \in Int
    OBVIOUS
  <2> HIDE DEF S, R, y
  <2>3. SumFunctionOnSet(f, R) \in Int /\ SumFunctionOnSet(f, S) = f[y] + SumFunctionOnSet(f, R)
    BY <2>1, <2>2, SumTake
  <2> QED BY <2>3 DEF S, R, y
<1>4. f[n + 1] \in Int
  BY <1>2
<1> QED BY <1>3, <1>4

\* Summed along a sequence without repetition, a function has the sum over what the
\* sequence lists.
LEMMA SumAlong ==
    ASSUME NEW S, IsFiniteSet(S), NEW n \in Nat, NEW s \in [1..n -> S], IsInjective(s),
           NEW f, NEW g,
           \A i \in 1..n : f[s[i]] \in Int /\ g[i] = f[s[i]]
    PROVE  SumFunctionOnSet(g, 1..n) = SumFunctionOnSet(f, Range(s))
<1> DEFINE R(m) == {s[i] : i \in 1..m}
           G == {m \in 0..n : SumFunctionOnSet(g, 1..m) = SumFunctionOnSet(f, R(m))}
<1>1. 0 \in G
  <2>1. 1..0 = {} /\ R(0) = {}
    OBVIOUS
  <2>2. SumFunctionOnSet(g, {}) = 0 /\ SumFunctionOnSet(f, {}) = 0
    BY FS_EmptySet, SumUnfold
  <2>3. SumFunctionOnSet(g, 1..0) = SumFunctionOnSet(f, R(0))
    BY <2>1, <2>2
  <2>4. 0 \in 0..n
    OBVIOUS
  <2> HIDE DEF R
  <2> QED BY <2>3, <2>4
<1>2. ASSUME NEW m \in 0..(n - 1), m \in G
      PROVE  m + 1 \in G
  <2>1. m \in Nat /\ m + 1 \in 1..n /\ m + 1 \in 0..n /\ \A i \in 1..(m + 1) : i \in 1..n
    OBVIOUS
  <2>2. \A i \in 1..(m + 1) : g[i] \in Int
    BY <2>1
  <2>3. /\ SumFunctionOnSet(g, 1..(m + 1)) = SumFunctionOnSet(g, 1..m) + g[m + 1]
        /\ SumFunctionOnSet(g, 1..m) \in Int
    BY <2>1, <2>2, SumNext
  <2>4. IsFiniteSet(R(m + 1))
    <3>1. R(m + 1) \subseteq S
      BY <2>1
    <3> QED BY <3>1, FS_Subset
  <2>5. \A x \in R(m + 1) : f[x] \in Int
    BY <2>1
  <2>6. s[m + 1] \in R(m + 1) /\ R(m + 1) \ {s[m + 1]} = R(m)
    <3>1. m + 1 \in 1..(m + 1)
      BY <2>1
    <3>2. \A i \in 1..(m + 1) : i \in 1..m \/ i = m + 1
      BY <2>1
    <3>3. \A i \in 1..m : i \in 1..(m + 1) /\ i # m + 1
      BY <2>1
    <3>4. \A i \in 1..m : s[i] # s[m + 1]
      BY <2>1, <3>3 DEF IsInjective
    <3> QED BY <3>1, <3>2, <3>3, <3>4
  <2>7. /\ SumFunctionOnSet(f, R(m + 1)) = f[s[m + 1]] + SumFunctionOnSet(f, R(m))
        /\ SumFunctionOnSet(f, R(m)) \in Int
    <3> HIDE DEF R, G
    <3> QED BY <2>4, <2>5, <2>6, SumTake
  <2>8. g[m + 1] = f[s[m + 1]] /\ f[s[m + 1]] \in Int
    BY <2>1
  <2>9. SumFunctionOnSet(g, 1..m) = SumFunctionOnSet(f, R(m))
    BY <1>2
  <2> HIDE DEF R
  <2>10. SumFunctionOnSet(g, 1..(m + 1)) = SumFunctionOnSet(f, R(m + 1))
    BY <2>3, <2>7, <2>8, <2>9
  <2> QED BY <2>1, <2>10
<1>3. n \in G
  <2> HIDE DEF G
  <2> QED BY <1>1, <1>2, Segments
<1>4. R(n) = Range(s)
  BY DEF Range
<1> QED BY <1>3, <1>4

=============================================================================
