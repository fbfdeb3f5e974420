---------------------------- MODULE SumTheorems ----------------------------
(***************************************************************************)
(* Theorems about SumFunctionOnSet, the sum of a function over a finite    *)
(* set: it is well defined, does not depend on the order in which CHOOSE   *)
(* takes the elements, and follows from its parts.  The induction is over  *)
(* the finite subsets of a set: a set of counterexamples would have one    *)
(* that is minimal for inclusion.                                          *)
(***************************************************************************)
EXTENDS Functions, FiniteSetTheorems, WellFoundedInduction, TLAPS

-----------------------------------------------------------------------------
(* The recursion of the fold *)

Picked(s) == CHOOSE x \in s : TRUE

\* g gives the sum of w over every subset of S.
IsSum(w, S, g) ==
    g = [s \in SUBSET S |->
            IF s = {} THEN 0 ELSE w[Picked(s)] + g[s \ {Picked(s)}]]

\* Picked is an element.
LEMMA PickedIn == ASSUME NEW s, s # {} PROVE Picked(s) \in s
  BY DEF Picked

\* A set of subsets of a finite set has a minimal member.
LEMMA MinimalSubset ==
    ASSUME NEW S, IsFiniteSet(S), NEW B \in SUBSET SUBSET S, B # {}
    PROVE  \E T \in B : \A U \in SUBSET T : U # T => U \notin B
<1>1. IsWellFoundedOn(StrictSubsetOrdering(S), SUBSET S)
  BY FS_FiniteSubsetsOfFinite, FS_StrictSubsetOrderingWellFounded
<1>2. PICK T \in B : \A U \in B : <<U, T>> \notin StrictSubsetOrdering(S)
  BY <1>1, WFMin
<1>3. ASSUME NEW U \in SUBSET T, U # T, U \in B
      PROVE  FALSE
  <2>1. <<U, T>> \in (SUBSET S) \X (SUBSET S)
    BY <1>3
  <2>2. <<U, T>> \in StrictSubsetOrdering(S)
    BY <1>3, <2>1 DEF StrictSubsetOrdering
  <2> QED BY <1>2, <1>3, <2>2
<1> QED BY <1>3

\* The operator takes some function that satisfies the recursion.
LEMMA SumIsChosen ==
    ASSUME NEW w, NEW S
    PROVE  SumFunctionOnSet(w, S) = (CHOOSE g : IsSum(w, S, g))[S]
  BY DEF SumFunctionOnSet, FoldFunctionOnSet, MapThenFoldSet, IsSum, Picked

\* What the recursion says of one subset.
LEMMA IsSumAt ==
    ASSUME NEW w, NEW S, NEW g, IsSum(w, S, g), NEW s \in SUBSET S
    PROVE  /\ s = {} => g[s] = 0
           /\ s # {} => /\ Picked(s) \in s
                        /\ g[s] = w[Picked(s)] + g[s \ {Picked(s)}]
<1>1. g[s] = IF s = {} THEN 0 ELSE w[Picked(s)] + g[s \ {Picked(s)}]
  BY DEF IsSum
<1> QED BY <1>1, PickedIn

\* Two such functions agree where both are defined.
LEMMA SumsAgree ==
    ASSUME NEW S, IsFiniteSet(S), NEW w, NEW T \in SUBSET S, NEW g, NEW h,
           IsSum(w, S, g), IsSum(w, T, h), NEW s \in SUBSET T
    PROVE  g[s] = h[s]
<1> DEFINE B == {t \in SUBSET T : g[t] # h[t]}
<1> SUFFICES ASSUME B # {} PROVE FALSE
  OBVIOUS
<1>1. B \in SUBSET SUBSET S
  OBVIOUS
<1>2. PICK t \in B : \A u \in SUBSET t : u # t => u \notin B
  <2> HIDE DEF B
  <2> QED BY <1>1, MinimalSubset
<1>3. t \in SUBSET T /\ t \in SUBSET S /\ g[t] # h[t]
  BY <1>2
<1>4. t # {} /\ Picked(t) \in t
  BY <1>3, IsSumAt
<1>5. t \ {Picked(t)} \in SUBSET t /\ t \ {Picked(t)} # t /\ t \ {Picked(t)} \in SUBSET T
  BY <1>3, <1>4
<1>6. g[t \ {Picked(t)}] = h[t \ {Picked(t)}]
  BY <1>2, <1>5
<1>7. g[t] = w[Picked(t)] + g[t \ {Picked(t)}]
  BY <1>3, <1>4, IsSumAt
<1>8. h[t] = w[Picked(t)] + h[t \ {Picked(t)}]
  BY <1>3, <1>4, IsSumAt
<1> QED BY <1>3, <1>6, <1>7, <1>8

\* The recursion has a solution.
LEMMA SumExists ==
    ASSUME NEW S, IsFiniteSet(S), NEW w
    PROVE  \E g : IsSum(w, S, g)
<1> DEFINE B == {T \in SUBSET S : ~\E g : IsSum(w, T, g)}
<1> SUFFICES ASSUME B # {} PROVE FALSE
  OBVIOUS
<1>0. B \in SUBSET SUBSET S
  OBVIOUS
<1>1. PICK T \in B : \A U \in SUBSET T : U # T => U \notin B
  <2> HIDE DEF B
  <2> QED BY <1>0, MinimalSubset
<1>2. T \in SUBSET S /\ IsFiniteSet(T)
  BY <1>1, FS_Subset
<1> DEFINE G(U) == CHOOSE g : IsSum(w, U, g)
           P == T \ {Picked(T)}
           h == [s \in SUBSET T |->
                   IF s = {} THEN 0
                   ELSE IF s = T THEN w[Picked(T)] + G(P)[P] ELSE G(s)[s]]
<1>3. ASSUME NEW U \in SUBSET T, U # T
      PROVE  IsSum(w, U, G(U))
  <2>1. U \in SUBSET S
    BY <1>2
  <2>2. \E g : IsSum(w, U, g)
    BY <1>1, <1>3, <2>1
  <2> QED BY <2>2
<1>4. ASSUME NEW U \in SUBSET T, U # T, NEW V \in SUBSET U
      PROVE  G(U)[V] = G(V)[V]
  <2>1. IsFiniteSet(U)
    BY <1>2, FS_Subset
  <2>2. V # T /\ V \in SUBSET T
    BY <1>4
  <2>3. IsSum(w, U, G(U)) /\ IsSum(w, V, G(V))
    BY <1>3, <1>4, <2>2
  <2> HIDE DEF G
  <2> QED BY <2>1, <2>3, SumsAgree
<1>5. ASSUME NEW s \in SUBSET T, s # T
      PROVE  h[s] = G(s)[s]
  <2>1. IsSum(w, s, G(s))
    BY <1>3, <1>5
  <2> HIDE DEF G
  <2>2. s = {} => G(s)[s] = 0
    BY <2>1, IsSumAt
  <2> QED BY <1>5, <2>2
<1>6. ASSUME NEW s \in SUBSET T, s # {}
      PROVE  h[s] = w[Picked(s)] + h[s \ {Picked(s)}]
  <2>1. Picked(s) \in s
    BY <1>6, PickedIn
  <2>2. s \ {Picked(s)} \in SUBSET T /\ s \ {Picked(s)} # T /\ s \ {Picked(s)} \in SUBSET s
    BY <2>1
  <2>3. h[s \ {Picked(s)}] = G(s \ {Picked(s)})[s \ {Picked(s)}]
    BY <1>5, <2>2
  <2>4. CASE s = T
    <3>1. h[s] = w[Picked(T)] + G(P)[P]
      BY <1>6, <2>4
    <3> QED BY <2>3, <2>4, <3>1
  <2>5. CASE s # T
    <3>1. IsSum(w, s, G(s))
      BY <1>3, <2>5
    <3>2. G(s)[s \ {Picked(s)}] = G(s \ {Picked(s)})[s \ {Picked(s)}]
      BY <1>4, <2>2, <2>5
    <3>3. h[s] = G(s)[s]
      BY <1>5, <2>5
    <3> HIDE DEF G, h
    <3>4. G(s)[s] = w[Picked(s)] + G(s)[s \ {Picked(s)}]
      BY <1>6, <3>1, IsSumAt
    <3> QED BY <2>3, <3>2, <3>3, <3>4
  <2> QED BY <2>4, <2>5
<1>7. h[{}] = 0
  OBVIOUS
<1>8. h = [s \in SUBSET T |-> h[s]]
  OBVIOUS
<1> HIDE DEF h
<1>9. h = [s \in SUBSET T |-> IF s = {} THEN 0 ELSE w[Picked(s)] + h[s \ {Picked(s)}]]
  BY <1>6, <1>7, <1>8
<1>10. IsSum(w, T, h)
  BY <1>9 DEF IsSum
<1> QED BY <1>1, <1>10

-----------------------------------------------------------------------------
(* The sum over a set *)

\* No element sums to zero, and every element in turn may come first.
LEMMA SumOverNothing ==
    ASSUME NEW w
    PROVE  \A T : T = {} => SumFunctionOnSet(w, T) = 0
<1>1. IsFiniteSet({})
  BY FS_EmptySet
<1>2. IsSum(w, {}, CHOOSE g : IsSum(w, {}, g))
  BY <1>1, SumExists
<1>3. SumFunctionOnSet(w, {}) = 0
  BY <1>2, SumIsChosen, IsSumAt
<1> QED BY <1>3

\* The element that CHOOSE takes is added to the sum over the others.
LEMMA SumPicksOne ==
    ASSUME NEW S, IsFiniteSet(S), S # {}, NEW w
    PROVE  /\ Picked(S) \in S
           /\ SumFunctionOnSet(w, S)
                = w[Picked(S)] + SumFunctionOnSet(w, S \ {Picked(S)})
<1> DEFINE g == CHOOSE f : IsSum(w, S, f)
           R == S \ {Picked(S)}
           h == CHOOSE f : IsSum(w, R, f)
<1>1. IsSum(w, S, g)
  BY SumExists
<1>2. IsFiniteSet(R) /\ R \in SUBSET S
  BY FS_Subset
<1>3. IsSum(w, R, h)
  BY <1>2, SumExists
<1>4. SumFunctionOnSet(w, S) = g[S] /\ SumFunctionOnSet(w, R) = h[R]
  BY SumIsChosen
<1> HIDE DEF g, h
<1>5. g[R] = h[R]
  BY <1>1, <1>2, <1>3, SumsAgree
<1>6. Picked(S) \in S /\ g[S] = w[Picked(S)] + g[R]
  BY <1>1, IsSumAt
<1> QED BY <1>4, <1>5, <1>6

\* Sums of integers are integers.
LEMMA SumInt ==
    ASSUME NEW S, IsFiniteSet(S), NEW w, \A x \in S : w[x] \in Int
    PROVE  SumFunctionOnSet(w, S) \in Int
<1> DEFINE B == {T \in SUBSET S : SumFunctionOnSet(w, T) \notin Int}
<1> SUFFICES ASSUME B # {} PROVE FALSE
  OBVIOUS
<1>0. B \in SUBSET SUBSET S
  OBVIOUS
<1>1. PICK T \in B : \A U \in SUBSET T : U # T => U \notin B
  <2> HIDE DEF B
  <2> QED BY <1>0, MinimalSubset
<1>2. IsFiniteSet(T) /\ T \in SUBSET S
  BY <1>1, FS_Subset
<1>3. T # {}
  BY <1>1, SumOverNothing
<1>4. Picked(T) \in T /\ SumFunctionOnSet(w, T)
        = w[Picked(T)] + SumFunctionOnSet(w, T \ {Picked(T)})
  BY <1>2, <1>3, SumPicksOne
<1>5. SumFunctionOnSet(w, T \ {Picked(T)}) \in Int
  BY <1>1, <1>2, <1>4
<1> QED BY <1>1, <1>2, <1>4, <1>5

\* The order does not matter: any element may be taken first.
THEOREM SumTakesAny ==
    ASSUME NEW S, IsFiniteSet(S), NEW w, \A x \in S : w[x] \in Int, NEW a \in S
    PROVE  SumFunctionOnSet(w, S) = w[a] + SumFunctionOnSet(w, S \ {a})
<1> DEFINE B == {T \in SUBSET S : \E x \in T :
                    SumFunctionOnSet(w, T) # w[x] + SumFunctionOnSet(w, T \ {x})}
<1> SUFFICES ASSUME B # {} PROVE FALSE
  OBVIOUS
<1>0. B \in SUBSET SUBSET S
  OBVIOUS
<1>1. PICK T \in B : \A U \in SUBSET T : U # T => U \notin B
  <2> HIDE DEF B
  <2> QED BY <1>0, MinimalSubset
<1>2. PICK x \in T : SumFunctionOnSet(w, T) # w[x] + SumFunctionOnSet(w, T \ {x})
  BY <1>1
<1> DEFINE c == Picked(T)
<1>3. /\ T \in SUBSET S
      /\ IsFiniteSet(T)
      /\ IsFiniteSet(T \ {x})
      /\ IsFiniteSet((T \ {c}) \ {x})
  BY <1>1, FS_Subset
<1>4. c \in T /\ SumFunctionOnSet(w, T) = w[c] + SumFunctionOnSet(w, T \ {c})
  BY <1>2, <1>3, SumPicksOne
<1>5. c # x
  BY <1>2, <1>4
<1> HIDE DEF c
<1>6. T \ {c} \notin B /\ T \ {x} \notin B
  BY <1>1, <1>2, <1>4
<1>7. SumFunctionOnSet(w, T \ {c}) = w[x] + SumFunctionOnSet(w, (T \ {c}) \ {x})
  BY <1>2, <1>3, <1>5, <1>6
<1>8. SumFunctionOnSet(w, T \ {x}) = w[c] + SumFunctionOnSet(w, (T \ {x}) \ {c})
  BY <1>3, <1>4, <1>5, <1>6
<1>9. (T \ {x}) \ {c} = (T \ {c}) \ {x}
  OBVIOUS
<1>10. SumFunctionOnSet(w, (T \ {c}) \ {x}) \in Int /\ w[c] \in Int /\ w[x] \in Int
  BY <1>2, <1>3, <1>4, SumInt
<1> DEFINE z == SumFunctionOnSet(w, (T \ {c}) \ {x})
<1> HIDE DEF z
<1>11. /\ SumFunctionOnSet(w, T) = w[c] + (w[x] + z)
       /\ SumFunctionOnSet(w, T \ {x}) = w[c] + z
       /\ z \in Int
  BY <1>4, <1>7, <1>8, <1>9, <1>10 DEF z
<1> QED BY <1>2, <1>10, <1>11

\* Only the values on the set matter.
THEOREM SumOfSame ==
    ASSUME NEW S, IsFiniteSet(S), NEW v, NEW w, \A x \in S : v[x] = w[x]
    PROVE  SumFunctionOnSet(v, S) = SumFunctionOnSet(w, S)
<1> DEFINE B == {T \in SUBSET S : SumFunctionOnSet(v, T) # SumFunctionOnSet(w, T)}
<1> SUFFICES ASSUME B # {} PROVE FALSE
  OBVIOUS
<1>0. B \in SUBSET SUBSET S
  OBVIOUS
<1>1. PICK T \in B : \A U \in SUBSET T : U # T => U \notin B
  <2> HIDE DEF B
  <2> QED BY <1>0, MinimalSubset
<1>2. IsFiniteSet(T) /\ T \in SUBSET S
  BY <1>1, FS_Subset
<1>3. T # {}
  BY <1>1, SumOverNothing
<1>4. /\ Picked(T) \in T
      /\ SumFunctionOnSet(v, T) = v[Picked(T)] + SumFunctionOnSet(v, T \ {Picked(T)})
      /\ SumFunctionOnSet(w, T) = w[Picked(T)] + SumFunctionOnSet(w, T \ {Picked(T)})
  BY <1>2, <1>3, SumPicksOne
<1>5. SumFunctionOnSet(v, T \ {Picked(T)}) = SumFunctionOnSet(w, T \ {Picked(T)})
  BY <1>1, <1>2, <1>4
<1> QED BY <1>1, <1>2, <1>4, <1>5

\* A change at one element changes the sum by as much.
THEOREM SumAfterChange ==
    ASSUME NEW S, IsFiniteSet(S), NEW a \in S,
           NEW v, \A x \in S : v[x] \in Int,
           NEW w, \A x \in S : w[x] \in Int,
           \A x \in S : x # a => v[x] = w[x]
    PROVE  SumFunctionOnSet(v, S) = SumFunctionOnSet(w, S) - w[a] + v[a]
<1>1. IsFiniteSet(S \ {a})
  BY FS_Subset
<1>2. SumFunctionOnSet(v, S \ {a}) = SumFunctionOnSet(w, S \ {a})
  BY <1>1, SumOfSame
<1>3. SumFunctionOnSet(v, S) = v[a] + SumFunctionOnSet(v, S \ {a})
  BY SumTakesAny
<1>4. SumFunctionOnSet(w, S) = w[a] + SumFunctionOnSet(w, S \ {a})
  BY SumTakesAny
<1>5. SumFunctionOnSet(w, S \ {a}) \in Int
  BY <1>1, SumInt
<1> QED BY <1>2, <1>3, <1>4, <1>5

\* The parts of a set sum up to the whole.
THEOREM SumOfParts ==
    ASSUME NEW S, IsFiniteSet(S), NEW R \in SUBSET S, NEW w, \A x \in S : w[x] \in Int
    PROVE  SumFunctionOnSet(w, S) = SumFunctionOnSet(w, R) + SumFunctionOnSet(w, S \ R)
<1> DEFINE B == {T \in SUBSET R :
                   SumFunctionOnSet(w, (S \ R) \cup T)
                     # SumFunctionOnSet(w, T) + SumFunctionOnSet(w, S \ R)}
<1>0. (S \ R) \cup R = S
  OBVIOUS
<1> SUFFICES ASSUME B # {} PROVE FALSE
  BY <1>0
<1>1. IsFiniteSet(R) /\ IsFiniteSet(S \ R) /\ B \in SUBSET SUBSET R
  BY FS_Subset
<1>2. PICK T \in B : \A U \in SUBSET T : U # T => U \notin B
  <2> HIDE DEF B
  <2> QED BY <1>1, MinimalSubset
<1>3. /\ T \in SUBSET R
      /\ SumFunctionOnSet(w, (S \ R) \cup T)
           # SumFunctionOnSet(w, T) + SumFunctionOnSet(w, S \ R)
  BY <1>2
<1>4. SumFunctionOnSet(w, S \ R) \in Int
  BY <1>1, SumInt
<1>5. T # {}
  <2>1. SUFFICES ASSUME T = {} PROVE FALSE
    OBVIOUS
  <2>2. (S \ R) \cup T = S \ R
    BY <2>1
  <2>3. SumFunctionOnSet(w, T) = 0
    BY <2>1, SumOverNothing
  <2>4. SumFunctionOnSet(w, (S \ R) \cup T) = SumFunctionOnSet(w, S \ R)
    BY <2>2
  <2> HIDE DEF B
  <2> QED BY <1>3, <1>4, <2>3, <2>4
<1>6. PICK a \in T : TRUE
  BY <1>5
<1>7. T \ {a} \notin B /\ T \ {a} \in SUBSET R
  BY <1>2, <1>6
<1>8. SumFunctionOnSet(w, (S \ R) \cup (T \ {a}))
        = SumFunctionOnSet(w, T \ {a}) + SumFunctionOnSet(w, S \ R)
  BY <1>7
<1>9. ((S \ R) \cup T) \ {a} = (S \ R) \cup (T \ {a}) /\ a \in (S \ R) \cup T
  BY <1>3, <1>6
<1>10. IsFiniteSet((S \ R) \cup T) /\ IsFiniteSet(T) /\ IsFiniteSet(T \ {a})
  BY <1>3, FS_Subset
<1>11. SumFunctionOnSet(w, (S \ R) \cup T)
         = w[a] + SumFunctionOnSet(w, (S \ R) \cup (T \ {a}))
  BY <1>3, <1>9, <1>10, SumTakesAny
<1>12. SumFunctionOnSet(w, T) = w[a] + SumFunctionOnSet(w, T \ {a})
  BY <1>3, <1>6, <1>10, SumTakesAny
<1>13. w[a] \in Int /\ SumFunctionOnSet(w, T \ {a}) \in Int
  BY <1>3, <1>6, <1>10, SumInt
<1> QED BY <1>3, <1>4, <1>8, <1>11, <1>12, <1>13

\* The sum of two functions.
THEOREM SumOfSum ==
    ASSUME NEW S, IsFiniteSet(S), NEW u,
           NEW v, \A x \in S : v[x] \in Int,
           NEW w, \A x \in S : w[x] \in Int,
           \A x \in S : u[x] = v[x] + w[x]
    PROVE  SumFunctionOnSet(u, S) = SumFunctionOnSet(v, S) + SumFunctionOnSet(w, S)
<1> DEFINE B == {T \in SUBSET S : SumFunctionOnSet(u, T)
                     # SumFunctionOnSet(v, T) + SumFunctionOnSet(w, T)}
<1> SUFFICES ASSUME B # {} PROVE FALSE
  OBVIOUS
<1>0. B \in SUBSET SUBSET S
  OBVIOUS
<1>1. PICK T \in B : \A U \in SUBSET T : U # T => U \notin B
  <2> HIDE DEF B
  <2> QED BY <1>0, MinimalSubset
<1>2. IsFiniteSet(T) /\ T \in SUBSET S
  BY <1>1, FS_Subset
<1>3. T # {}
  BY <1>1, SumOverNothing
<1> DEFINE c == Picked(T)
<1>4. /\ c \in T
      /\ SumFunctionOnSet(u, T) = u[c] + SumFunctionOnSet(u, T \ {c})
      /\ SumFunctionOnSet(v, T) = v[c] + SumFunctionOnSet(v, T \ {c})
      /\ SumFunctionOnSet(w, T) = w[c] + SumFunctionOnSet(w, T \ {c})
  BY <1>2, <1>3, SumPicksOne
<1> HIDE DEF c
<1>5. SumFunctionOnSet(u, T \ {c})
        = SumFunctionOnSet(v, T \ {c}) + SumFunctionOnSet(w, T \ {c})
  BY <1>1, <1>2, <1>4
<1>6. IsFiniteSet(T \ {c}) /\ v[c] \in Int /\ w[c] \in Int /\ u[c] = v[c] + w[c]
  BY <1>2, <1>4, FS_Subset
<1>7. SumFunctionOnSet(v, T \ {c}) \in Int /\ SumFunctionOnSet(w, T \ {c}) \in Int
  BY <1>2, <1>6, SumInt
<1> QED BY <1>1, <1>4, <1>5, <1>6, <1>7

\* A sum of zeros.
THEOREM SumOfZeros ==
    ASSUME NEW S, IsFiniteSet(S), NEW w, \A x \in S : w[x] = 0
    PROVE  SumFunctionOnSet(w, S) = 0
<1>1. \A x \in S : w[x] \in Int /\ w[x] = w[x] + w[x]
  OBVIOUS
<1>2. SumFunctionOnSet(w, S) \in Int
  BY <1>1, SumInt
<1>3. SumFunctionOnSet(w, S) = SumFunctionOnSet(w, S) + SumFunctionOnSet(w, S)
  BY ONLY <1>1, IsFiniteSet(S), SumOfSum
<1> DEFINE n == SumFunctionOnSet(w, S)
<1> HIDE DEF n
<1>4. n \in Int /\ n = n + n
  BY <1>2, <1>3 DEF n
<1>5. n = 0
  BY <1>4
<1> QED BY <1>5 DEF n

-----------------------------------------------------------------------------
(* Sums of natural numbers *)

\* Sums of natural numbers are natural numbers.
THEOREM SumNat ==
    ASSUME NEW S, IsFiniteSet(S), NEW w, \A x \in S : w[x] \in Nat
    PROVE  SumFunctionOnSet(w, S) \in Nat
<1> DEFINE B == {T \in SUBSET S : SumFunctionOnSet(w, T) \notin Nat}
<1> SUFFICES ASSUME B # {} PROVE FALSE
  OBVIOUS
<1>0. B \in SUBSET SUBSET S
  OBVIOUS
<1>1. PICK T \in B : \A U \in SUBSET T : U # T => U \notin B
  <2> HIDE DEF B
  <2> QED BY <1>0, MinimalSubset
<1>2. IsFiniteSet(T) /\ T \in SUBSET S
  BY <1>1, FS_Subset
<1>3. T # {}
  BY <1>1, SumOverNothing
<1>4. Picked(T) \in T /\ SumFunctionOnSet(w, T)
        = w[Picked(T)] + SumFunctionOnSet(w, T \ {Picked(T)})
  BY <1>2, <1>3, SumPicksOne
<1>5. SumFunctionOnSet(w, T \ {Picked(T)}) \in Nat
  BY <1>1, <1>2, <1>4
<1> QED BY <1>1, <1>2, <1>4, <1>5

\* No part exceeds the sum, and what is beside a part that reaches it is zero.
THEOREM SumBoundsPart ==
    ASSUME NEW S, IsFiniteSet(S), NEW R \in SUBSET S, NEW w, \A x \in S : w[x] \in Nat
    PROVE  /\ SumFunctionOnSet(w, R) <= SumFunctionOnSet(w, S)
           /\ SumFunctionOnSet(w, R) = SumFunctionOnSet(w, S)
                => \A x \in S \ R : w[x] = 0
<1>1. IsFiniteSet(R) /\ IsFiniteSet(S \ R)
  BY FS_Subset
<1>2. SumFunctionOnSet(w, R) \in Nat /\ SumFunctionOnSet(w, S \ R) \in Nat
  BY <1>1, SumNat
<1>3. SumFunctionOnSet(w, S) = SumFunctionOnSet(w, R) + SumFunctionOnSet(w, S \ R)
  BY SumOfParts
<1>4. ASSUME NEW x \in S \ R
      PROVE  w[x] <= SumFunctionOnSet(w, S \ R)
  <2>1. SumFunctionOnSet(w, S \ R) = w[x] + SumFunctionOnSet(w, (S \ R) \ {x})
    BY <1>1, SumTakesAny
  <2>2. IsFiniteSet((S \ R) \ {x})
    BY FS_Subset
  <2>3. SumFunctionOnSet(w, (S \ R) \ {x}) \in Nat /\ w[x] \in Nat
    BY <2>2, SumNat
  <2> QED BY <2>1, <2>3
<1>5. \A x \in S \ R : w[x] \in Nat
  OBVIOUS
<1> QED BY <1>2, <1>3, <1>4, <1>5

\* No element exceeds the sum.
THEOREM SumBoundsElement ==
    ASSUME NEW S, IsFiniteSet(S), NEW w, \A x \in S : w[x] \in Nat, NEW a \in S
    PROVE  w[a] <= SumFunctionOnSet(w, S)
<1>1. IsFiniteSet(S \ {a})
  BY FS_Subset
<1>2. SumFunctionOnSet(w, S \ {a}) \in Nat /\ w[a] \in Nat
  BY <1>1, SumNat
<1>3. SumFunctionOnSet(w, S) = w[a] + SumFunctionOnSet(w, S \ {a})
  BY SumTakesAny
<1> QED BY <1>2, <1>3
=============================================================================
