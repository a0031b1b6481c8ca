-------------------------------- MODULE Sums --------------------------------
(***************************************************************************)
(* Facts about SumFunctionOnSet of the Functions module, which adds up the *)
(* values of a function on a finite set: what one more element, one changed *)
(* value, and a shifted index do to a sum.  The provers do no induction, so *)
(* each fact about all finite sets is proved from a smallest set that would *)
(* violate it.                                                             *)
(***************************************************************************)
EXTENDS Integers, FiniteSets, Functions, FiniteSetTheorems, WellFoundedInduction, TLAPS

LEMMA LeastNatural ==
    ASSUME NEW T, T \subseteq Nat, T # {}
    PROVE  \E n \in T : \A m \in T : n <= m
<1> DEFINE R == {ss \in Nat \X Nat : ss[1] < ss[2]}
<1>1. IsWellFoundedOn(R, Nat)
  BY NatLessThanWellFounded DEF OpToRel
<1>2. PICK n \in T : \A m \in T : <<m, n>> \notin R
  <2> HIDE DEF R
  <2> QED BY <1>1, WFMin
<1>3. \A m \in T : n \in Nat /\ m \in Nat /\ ~(m < n)
  BY <1>2
<1> QED BY <1>3

(* A family of finite sets has a member of which no smaller set is a member. *)
LEMMA SmallestSet ==
    ASSUME NEW S, IsFiniteSet(S), NEW B, B \subseteq SUBSET S, B # {}
    PROVE  \E T \in B : /\ IsFiniteSet(T)
                        /\ \A U \in SUBSET T : U # T => U \notin B
<1>0. \A T \in SUBSET S : IsFiniteSet(T)
  BY FS_Subset
<1> DEFINE C == {Cardinality(T) : T \in B}
<1>1. C \subseteq Nat /\ C # {}
  BY <1>0, FS_CardinalityType
<1> HIDE DEF C
<1>2. PICK n \in C : \A m \in C : n <= m
  BY <1>1, LeastNatural
<1>3. PICK T \in B : n = Cardinality(T)
  BY <1>2 DEF C
<1>4. ASSUME NEW U \in SUBSET T, U # T, U \in B PROVE FALSE
  <2>1. Cardinality(U) <= Cardinality(T) /\ (Cardinality(U) = Cardinality(T) => U = T)
    BY <1>0, FS_Subset
  <2>2. Cardinality(U) \in C
    BY <1>4 DEF C
  <2>3. n <= Cardinality(U) /\ n \in Nat /\ Cardinality(U) \in Nat
    BY <1>1, <1>2, <2>2
  <2> QED BY <1>3, <1>4, <2>1, <2>3
<1> QED BY <1>0, <1>3, <1>4

-----------------------------------------------------------------------------
(* The recursion that defines a sum, and that it has exactly one solution. *)

Pick(s) == CHOOSE x \in s : TRUE
Adds(g, f, S) == g = [s \in SUBSET S |-> IF s = {} THEN 0
                                         ELSE f[Pick(s)] + g[s \ {Pick(s)}]]
Addition(f, S) == CHOOSE g : Adds(g, f, S)

LEMMA PickIn == ASSUME NEW s, s # {} PROVE Pick(s) \in s
BY DEF Pick

LEMMA SumIsAddition ==
    ASSUME NEW S, NEW f PROVE SumFunctionOnSet(f, S) = Addition(f, S)[S]
BY DEF SumFunctionOnSet, FoldFunctionOnSet, MapThenFoldSet, Addition, Adds, Pick

LEMMA AdditionsAgree ==
    ASSUME NEW S, NEW T \in SUBSET S, IsFiniteSet(T), NEW f, NEW g, Adds(g, f, S),
           NEW h, Adds(h, f, T)
    PROVE  \A s \in SUBSET T : g[s] = h[s]
<1> DEFINE B == {s \in SUBSET T : g[s] # h[s]}
<1> SUFFICES ASSUME B # {} PROVE FALSE
  OBVIOUS
<1>1. PICK s \in B : \A U \in SUBSET s : U # s => U \notin B
  <2>1. B \subseteq SUBSET T
    OBVIOUS
  <2> HIDE DEF B
  <2> QED BY <2>1, SmallestSet
<1>2. s \in SUBSET T /\ g[s] # h[s]
  BY <1>1
<1>3. s # {}
  BY <1>2 DEF Adds
<1> DEFINE r == s \ {Pick(s)}
<1>4. r \in SUBSET T /\ r # s /\ r \in SUBSET s
  BY <1>2, <1>3, PickIn
<1>5. g[r] = h[r]
  BY <1>1, <1>4
<1>6. g[s] = f[Pick(s)] + g[r] /\ h[s] = f[Pick(s)] + h[r]
  BY <1>2, <1>3 DEF Adds
<1> QED BY <1>2, <1>5, <1>6

LEMMA AdditionExists ==
    ASSUME NEW S, IsFiniteSet(S), NEW f
    PROVE  Adds(Addition(f, S), f, S)
<1> SUFFICES \E g : Adds(g, f, S)
  BY DEF Addition
<1> DEFINE B == {T \in SUBSET S : ~ \E g : Adds(g, f, T)}
<1> SUFFICES ASSUME B # {} PROVE FALSE
  OBVIOUS
<1>1. PICK T \in B : IsFiniteSet(T) /\ \A U \in SUBSET T : U # T => U \notin B
  <2>1. B \subseteq SUBSET S
    OBVIOUS
  <2> HIDE DEF B
  <2> QED BY <2>1, SmallestSet
<1>2. \A U \in SUBSET T : U # T => Adds(Addition(f, U), f, U)
  BY <1>1 DEF Addition
<1> DEFINE rest(s) == s \ {Pick(s)}
           total(s) == Addition(f, s)[s]
           g == [s \in SUBSET T |-> IF s = {} THEN 0 ELSE f[Pick(s)] + total(rest(s))]
<1>3. ASSUME NEW s \in SUBSET T, s # {} PROVE g[rest(s)] = total(rest(s))
  <2> DEFINE r == rest(s)
  <2>1. r \in SUBSET T /\ r # T
    BY <1>3, PickIn
  <2>2. Adds(Addition(f, r), f, r)
    BY <1>2, <2>1
  <2>3. CASE r = {}
    BY <2>1, <2>2, <2>3 DEF Adds
  <2>4. CASE r # {}
    <3>1. rest(r) \in SUBSET r /\ rest(r) # T
      BY <2>1
    <3>2. Adds(Addition(f, rest(r)), f, rest(r)) /\ IsFiniteSet(rest(r))
      BY <1>1, <1>2, <2>1, <3>1, FS_Subset
    <3>3. Addition(f, r)[r] = f[Pick(r)] + Addition(f, r)[rest(r)]
      BY <2>2, <2>4 DEF Adds
    <3> HIDE DEF r, rest
    <3>4. Addition(f, r)[rest(r)] = Addition(f, rest(r))[rest(r)]
      BY <2>2, <3>1, <3>2, AdditionsAgree
    <3> QED BY <2>1, <2>4, <3>3, <3>4 DEF r
  <2> QED BY <2>3, <2>4
<1>4. g = [s \in SUBSET T |-> IF s = {} THEN 0 ELSE f[Pick(s)] + g[s \ {Pick(s)}]]
  <2> HIDE DEF total
  <2> QED BY <1>3
<1> HIDE DEF g
<1>5. Adds(g, f, T)
  BY <1>4 DEF Adds
<1> QED BY <1>1, <1>5

-----------------------------------------------------------------------------
(* The sum of nothing, and of a set without the element that is picked first. *)

LEMMA SumOfNothing == ASSUME NEW f PROVE SumFunctionOnSet(f, {}) = 0
<1>1. Adds(Addition(f, {}), f, {})
  BY AdditionExists, FS_EmptySet
<1> QED BY <1>1, SumIsAddition DEF Adds

LEMMA SumPicks ==
    ASSUME NEW S, IsFiniteSet(S), S # {}, NEW f
    PROVE  SumFunctionOnSet(f, S) = f[Pick(S)] + SumFunctionOnSet(f, S \ {Pick(S)})
<1> DEFINE r == S \ {Pick(S)}
<1>1. r \in SUBSET S /\ IsFiniteSet(r)
  BY FS_Subset
<1>2. Adds(Addition(f, S), f, S) /\ Adds(Addition(f, r), f, r)
  BY <1>1, AdditionExists
<1>3. Addition(f, S)[r] = Addition(f, r)[r]
  <2> HIDE DEF r
  <2> QED BY <1>1, <1>2, AdditionsAgree
<1>4. Addition(f, S)[S] = f[Pick(S)] + Addition(f, S)[r]
  BY <1>2 DEF Adds
<1> QED BY <1>3, <1>4, SumIsAddition

LEMMA SumType ==
    ASSUME NEW S, IsFiniteSet(S), NEW f, \A x \in S : f[x] \in Nat
    PROVE  SumFunctionOnSet(f, S) \in Nat
<1> DEFINE B == {T \in SUBSET S : SumFunctionOnSet(f, T) \notin Nat}
<1> SUFFICES ASSUME B # {} PROVE FALSE
  OBVIOUS
<1>1. PICK T \in B : IsFiniteSet(T) /\ \A U \in SUBSET T : U # T => U \notin B
  <2>1. B \subseteq SUBSET S
    OBVIOUS
  <2> HIDE DEF B
  <2> QED BY <2>1, SmallestSet
<1>2. T # {} /\ T \in SUBSET S
  <2>1. SumFunctionOnSet(f, T) \notin Nat /\ T \in SUBSET S
    BY <1>1
  <2>2. SumFunctionOnSet(f, {}) = 0
    BY SumOfNothing
  <2> QED BY <2>1, <2>2
<1> DEFINE x == Pick(T)
<1>3. x \in T /\ SumFunctionOnSet(f, T) = f[x] + SumFunctionOnSet(f, T \ {x})
  BY <1>1, <1>2, PickIn, SumPicks
<1> HIDE DEF x
<1>4. SumFunctionOnSet(f, T \ {x}) \in Nat
  BY <1>1, <1>3
<1>5. f[x] \in Nat
  BY <1>1, <1>3
<1> QED BY <1>1, <1>3, <1>4, <1>5

(* Any element can be taken out first. *)
LEMMA SumRemove ==
    ASSUME NEW S, IsFiniteSet(S), NEW f, \A x \in S : f[x] \in Nat, NEW x \in S
    PROVE  SumFunctionOnSet(f, S) = f[x] + SumFunctionOnSet(f, S \ {x})
<1> DEFINE Sum(T) == SumFunctionOnSet(f, T)
           B == {T \in SUBSET S : \E y \in T : Sum(T) # f[y] + Sum(T \ {y})}
<1> SUFFICES ASSUME B # {} PROVE FALSE
  OBVIOUS
<1>1. PICK T \in B : IsFiniteSet(T) /\ \A U \in SUBSET T : U # T => U \notin B
  <2>1. B \subseteq SUBSET S
    OBVIOUS
  <2> HIDE DEF B
  <2> QED BY <2>1, SmallestSet
<1>2. PICK y \in T : Sum(T) # f[y] + Sum(T \ {y})
  BY <1>1
<1> DEFINE p == Pick(T)
           rest == (T \ {y}) \ {p}
<1>3. p \in T /\ Sum(T) = f[p] + Sum(T \ {p})
  BY <1>1, <1>2, PickIn, SumPicks
<1>4. p # y
  BY <1>2, <1>3
<1> HIDE DEF p
<1>5. Sum(T \ {p}) = f[y] + Sum((T \ {p}) \ {y})
  <2>1. T \ {p} \in SUBSET S /\ T \ {p} \in SUBSET T /\ T \ {p} # T /\ y \in T \ {p}
    BY <1>1, <1>3, <1>4
  <2> HIDE DEF Sum
  <2> QED BY <1>1, <2>1
<1>6. Sum(T \ {y}) = f[p] + Sum((T \ {y}) \ {p})
  <2>1. T \ {y} \in SUBSET S /\ T \ {y} \in SUBSET T /\ T \ {y} # T /\ p \in T \ {y}
    BY <1>1, <1>2, <1>3, <1>4
  <2> HIDE DEF Sum
  <2> QED BY <1>1, <2>1
<1>7. (T \ {p}) \ {y} = rest
  OBVIOUS
<1>8. Sum(rest) \in Nat /\ f[p] \in Nat /\ f[y] \in Nat
  <2>1. rest \in SUBSET S /\ IsFiniteSet(rest)
    BY <1>1, FS_Subset
  <2> HIDE DEF rest
  <2> QED BY <1>1, <1>2, <1>3, <2>1, SumType
<1> HIDE DEF Sum, rest
<1> QED BY <1>2, <1>3, <1>5, <1>6, <1>7, <1>8 DEF rest

(* Only the values on the set count. *)
LEMMA SumSame ==
    ASSUME NEW S, IsFiniteSet(S), NEW f, NEW g, \A x \in S : f[x] = g[x]
    PROVE  SumFunctionOnSet(f, S) = SumFunctionOnSet(g, S)
<1> DEFINE B == {T \in SUBSET S : SumFunctionOnSet(f, T) # SumFunctionOnSet(g, T)}
<1> SUFFICES ASSUME B # {} PROVE FALSE
  OBVIOUS
<1>1. PICK T \in B : IsFiniteSet(T) /\ \A U \in SUBSET T : U # T => U \notin B
  <2>1. B \subseteq SUBSET S
    OBVIOUS
  <2> HIDE DEF B
  <2> QED BY <2>1, SmallestSet
<1>2. T \in SUBSET S /\ SumFunctionOnSet(f, T) # SumFunctionOnSet(g, T)
  BY <1>1
<1>3. T # {}
  BY <1>2, SumOfNothing
<1> DEFINE x == Pick(T)
<1>4. /\ x \in T
      /\ SumFunctionOnSet(f, T) = f[x] + SumFunctionOnSet(f, T \ {x})
      /\ SumFunctionOnSet(g, T) = g[x] + SumFunctionOnSet(g, T \ {x})
  BY <1>1, <1>3, PickIn, SumPicks
<1> HIDE DEF x
<1>5. SumFunctionOnSet(f, T \ {x}) = SumFunctionOnSet(g, T \ {x})
  BY <1>1, <1>2, <1>4
<1>6. f[x] = g[x]
  BY <1>2, <1>4
<1> QED BY <1>2, <1>4, <1>5, <1>6

(* One value changes. *)
LEMMA SumChange ==
    ASSUME NEW S, IsFiniteSet(S), NEW f, NEW g, NEW x \in S,
           \A y \in S : f[y] \in Nat /\ g[y] \in Nat,
           \A y \in S \ {x} : f[y] = g[y]
    PROVE  SumFunctionOnSet(g, S) = SumFunctionOnSet(f, S) - f[x] + g[x]
<1> DEFINE r == S \ {x}
<1>1. IsFiniteSet(r) /\ r \in SUBSET S
  BY FS_Subset
<1>2. /\ SumFunctionOnSet(f, S) = f[x] + SumFunctionOnSet(f, r)
      /\ SumFunctionOnSet(g, S) = g[x] + SumFunctionOnSet(g, r)
  BY SumRemove
<1>3. SumFunctionOnSet(f, r) = SumFunctionOnSet(g, r)
  <2>1. \A y \in r : f[y] = g[y]
    OBVIOUS
  <2> HIDE DEF r
  <2> QED BY <1>1, <2>1, SumSame
<1>4. SumFunctionOnSet(f, r) \in Nat /\ f[x] \in Nat /\ g[x] \in Nat
  <2>1. \A y \in r : f[y] \in Nat
    OBVIOUS
  <2> HIDE DEF r
  <2> QED BY <1>1, <2>1, SumType
<1> HIDE DEF r
<1> QED BY <1>2, <1>3, <1>4

(* One element more. *)
LEMMA SumAdd ==
    ASSUME NEW S, IsFiniteSet(S), NEW x, x \notin S, NEW T, T = S \cup {x},
           NEW f, NEW g, g[x] \in Nat, \A y \in S : f[y] \in Nat /\ g[y] = f[y]
    PROVE  SumFunctionOnSet(g, T) = g[x] + SumFunctionOnSet(f, S)
<1>1. IsFiniteSet(T) /\ x \in T /\ T \ {x} = S
  BY FS_AddElement
<1>2. \A y \in T : g[y] \in Nat
  OBVIOUS
<1>3. SumFunctionOnSet(g, T) = g[x] + SumFunctionOnSet(g, S)
  BY <1>1, <1>2, SumRemove
<1>4. SumFunctionOnSet(g, S) = SumFunctionOnSet(f, S)
  BY SumSame
<1> QED BY <1>3, <1>4

(* A value is no larger than the sum it is part of. *)
LEMMA SumBounds ==
    ASSUME NEW S, IsFiniteSet(S), NEW f, \A y \in S : f[y] \in Nat, NEW x \in S
    PROVE  f[x] <= SumFunctionOnSet(f, S)
<1>1. SumFunctionOnSet(f, S) = f[x] + SumFunctionOnSet(f, S \ {x})
  BY SumRemove
<1>2. IsFiniteSet(S \ {x})
  BY FS_Subset
<1>3. SumFunctionOnSet(f, S \ {x}) \in Nat
  BY <1>2, SumType
<1> QED BY <1>1, <1>3

(* Smaller values have a smaller sum. *)
LEMMA SumMonotone ==
    ASSUME NEW S, IsFiniteSet(S), NEW f, NEW g,
           \A x \in S : f[x] \in Nat /\ g[x] \in Nat /\ f[x] <= g[x]
    PROVE  SumFunctionOnSet(f, S) <= SumFunctionOnSet(g, S)
<1> DEFINE B == {T \in SUBSET S : ~(SumFunctionOnSet(f, T) <= SumFunctionOnSet(g, T))}
<1> SUFFICES ASSUME B # {} PROVE FALSE
  OBVIOUS
<1>1. PICK T \in B : IsFiniteSet(T) /\ \A U \in SUBSET T : U # T => U \notin B
  <2>1. B \subseteq SUBSET S
    OBVIOUS
  <2> HIDE DEF B
  <2> QED BY <2>1, SmallestSet
<1>2. T \in SUBSET S /\ ~(SumFunctionOnSet(f, T) <= SumFunctionOnSet(g, T))
  BY <1>1
<1>3. T # {}
  BY <1>2, SumOfNothing
<1> DEFINE x == Pick(T)
<1>4. /\ x \in T
      /\ SumFunctionOnSet(f, T) = f[x] + SumFunctionOnSet(f, T \ {x})
      /\ SumFunctionOnSet(g, T) = g[x] + SumFunctionOnSet(g, T \ {x})
  BY <1>1, <1>3, PickIn, SumPicks
<1> HIDE DEF x
<1>5. SumFunctionOnSet(f, T \ {x}) <= SumFunctionOnSet(g, T \ {x})
  BY <1>1, <1>2, <1>4
<1>6. SumFunctionOnSet(f, T \ {x}) \in Nat /\ SumFunctionOnSet(g, T \ {x}) \in Nat
  <2>1. IsFiniteSet(T \ {x}) /\ \A z \in T \ {x} : f[z] \in Nat /\ g[z] \in Nat
    BY <1>1, <1>2, FS_Subset
  <2> QED BY <2>1, SumType
<1>7. f[x] \in Nat /\ g[x] \in Nat /\ f[x] <= g[x]
  BY <1>2, <1>4
<1> QED BY <1>2, <1>4, <1>5, <1>6, <1>7

LEMMA SumOfZeros ==
    ASSUME NEW S, IsFiniteSet(S), NEW f, \A x \in S : f[x] = 0
    PROVE  SumFunctionOnSet(f, S) = 0
<1> DEFINE B == {T \in SUBSET S : SumFunctionOnSet(f, T) # 0}
<1> SUFFICES ASSUME B # {} PROVE FALSE
  OBVIOUS
<1>1. PICK T \in B : IsFiniteSet(T) /\ \A U \in SUBSET T : U # T => U \notin B
  <2>1. B \subseteq SUBSET S
    OBVIOUS
  <2> HIDE DEF B
  <2> QED BY <2>1, SmallestSet
<1>2. T \in SUBSET S /\ SumFunctionOnSet(f, T) # 0
  BY <1>1
<1>3. T # {}
  BY <1>2, SumOfNothing
<1> DEFINE x == Pick(T)
<1>4. x \in T /\ SumFunctionOnSet(f, T) = f[x] + SumFunctionOnSet(f, T \ {x})
  BY <1>1, <1>3, PickIn, SumPicks
<1> HIDE DEF x
<1>5. SumFunctionOnSet(f, T \ {x}) = 0
  BY <1>1, <1>2, <1>4
<1>6. f[x] = 0
  BY <1>2, <1>4
<1> QED BY <1>2, <1>4, <1>5, <1>6

(* The values at 2..n+1 are those of another function at 1..n. *)
LEMMA SumShifted ==
    ASSUME NEW n \in Nat, NEW f, NEW g,
           \A i \in 1..n : g[i] = f[i + 1] /\ g[i] \in Nat
    PROVE  SumFunctionOnSet(f, 2..n + 1) = SumFunctionOnSet(g, 1..n)
<1> DEFINE B == {k \in 0..n : SumFunctionOnSet(f, 2..k + 1) # SumFunctionOnSet(g, 1..k)}
<1> SUFFICES ASSUME B # {} PROVE FALSE
  OBVIOUS
<1>1. PICK k \in B : \A m \in B : k <= m
  <2>1. B \subseteq Nat
    OBVIOUS
  <2> HIDE DEF B
  <2> QED BY <2>1, LeastNatural
<1>2. k \in 0..n /\ SumFunctionOnSet(f, 2..k + 1) # SumFunctionOnSet(g, 1..k)
  BY <1>1
<1>3. k # 0
  <2> SUFFICES ASSUME k = 0 PROVE FALSE
    OBVIOUS
  <2>1. 2..k + 1 = {} /\ 1..k = {}
    OBVIOUS
  <2> QED BY <1>2, <2>1, SumOfNothing
<1>4. k - 1 \in 0..n /\ ~(k <= k - 1) /\ (k - 1) + 1 = k
  BY <1>2, <1>3
<1>5. SumFunctionOnSet(f, 2..k) = SumFunctionOnSet(g, 1..k - 1)
  BY <1>1, <1>4
<1> DEFINE P == 2..k
           Q == 1..k - 1
<1>6. /\ 2..k + 1 = P \cup {k + 1} /\ k + 1 \notin P /\ IsFiniteSet(P)
      /\ 1..k = Q \cup {k} /\ k \notin Q /\ IsFiniteSet(Q)
  <2>1. IsFiniteSet(P) /\ IsFiniteSet(Q)
    BY <1>2, FS_Interval
  <2>2. 2..k + 1 = P \cup {k + 1} /\ k + 1 \notin P
    BY <1>2, <1>3
  <2>3. 1..k = Q \cup {k} /\ k \notin Q
    BY <1>2, <1>3
  <2> QED BY <2>1, <2>2, <2>3
<1>7. \A y \in P : f[y] \in Nat
  <2> SUFFICES ASSUME NEW y \in P PROVE f[y] \in Nat
    OBVIOUS
  <2>1. y - 1 \in 1..n /\ (y - 1) + 1 = y
    BY <1>2
  <2> QED BY <2>1
<1>8. (\A y \in Q : g[y] \in Nat) /\ g[k] = f[k + 1] /\ g[k] \in Nat
  <2>1. k \in 1..n /\ \A y \in Q : y \in 1..n
    BY <1>2, <1>3
  <2> QED BY <2>1
<1> HIDE DEF P, Q, B
<1>9. SumFunctionOnSet(g, 1..k) = g[k] + SumFunctionOnSet(g, Q)
  <2>1. g[k] \in Nat /\ \A y \in Q : g[y] \in Nat
    BY <1>8
  <2>2. 1..k = Q \cup {k} /\ k \notin Q /\ IsFiniteSet(Q)
    BY <1>6
  <2> DEFINE R == 1..k
  <2> HIDE DEF R
  <2>3. SumFunctionOnSet(g, R) = g[k] + SumFunctionOnSet(g, Q)
    BY <2>1, <2>2, SumAdd DEF R
  <2> QED BY <2>3 DEF R
<1>10. SumFunctionOnSet(f, 2..k + 1) = f[k + 1] + SumFunctionOnSet(f, P)
  <2>1. f[k + 1] \in Nat
    BY <1>8
  <2> QED BY <1>6, <1>7, <2>1, SumAdd
<1> QED BY <1>2, <1>5, <1>8, <1>9, <1>10 DEF P, Q
=============================================================================
