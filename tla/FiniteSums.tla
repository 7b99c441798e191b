----------------------------- MODULE FiniteSums -----------------------------
(***************************************************************************)
(* Sums over finite sets, as MapThenSumSet of FiniteSetsExt computes them: *)
(* one element is taken out after another, in no particular order.  What   *)
(* the total of a row set does when a row joins or leaves it is proved     *)
(* here for every finite set.  The provers have no induction over data;    *)
(* its place is taken by a smallest counterexample, which exists because   *)
(* strict inclusion of finite sets is well founded.                        *)
(***************************************************************************)
EXTENDS FiniteSetsExt, FiniteSetTheorems, WellFoundedInduction, TLAPS

\* A family of subsets of a finite set has a smallest member.
LEMMA SmallestMember ==
    ASSUME NEW S, IsFiniteSet(S), NEW T \in SUBSET (SUBSET S), T # {}
    PROVE  \E A \in T : \A B \in T : B \subseteq A => B = A
  <1>1. \A A \in SUBSET S : IsFiniteSet(A)
    BY FS_Subset
  <1>2. T \subseteq FiniteSubsetsOf(S)
    BY <1>1 DEF FiniteSubsetsOf
  <1>3. PICK A \in T : \A B \in T : ~(<<B, A>> \in StrictSubsetOrdering(S))
    BY <1>2, WFMin, FS_StrictSubsetOrderingWellFounded
  <1> QED BY <1>3 DEF StrictSubsetOrdering

\* A set of numbers that is not empty has a least one.
LEMMA LeastNumber ==
    ASSUME NEW T \in SUBSET Nat, T # {}
    PROVE  \E n \in T : \A m \in T : n <= m
  <1>1. PICK k \in T : TRUE
    OBVIOUS
  <1>2. IsFiniteSet(0..k)
    BY FS_Interval
  <1>3. PICK U : U = {0..m : m \in {n \in T : n <= k}}
    OBVIOUS
  <1>4. U \in SUBSET (SUBSET (0..k)) /\ U # {}
    <2>1. \A n \in Nat : n <= k => 0..n \subseteq 0..k
      OBVIOUS
    <2>2. \A A \in U : A \subseteq 0..k
      BY <1>3, <2>1
    <2>3. 0..k \in U
      BY <1>3
    <2> QED BY <2>2, <2>3
  <1>5. PICK A \in U : \A B \in U : B \subseteq A => B = A
    <2>1. PICK I : I = 0..k
      OBVIOUS
    <2>2. IsFiniteSet(I) /\ U \in SUBSET (SUBSET I) /\ U # {}
      BY <1>2, <1>4, <2>1
    <2> QED BY <2>2, SmallestMember
  <1>6. PICK n \in T : n <= k /\ A = 0..n
    BY <1>3, <1>5
  <1>7. ASSUME NEW m \in T, m < n PROVE FALSE
    <2>1. 0..m \in U /\ 0..m \subseteq A
      BY <1>3, <1>6, <1>7
    <2>2. 0..m = A /\ n \in A /\ ~(n \in 0..m)
      BY <1>5, <1>6, <1>7, <2>1
    <2> QED BY <2>2
  <1> QED BY <1>7

----------------------------------------------------------------------------
\* The element taken out of s first, and the total as MapThenSumSet defines it.
First(s) == CHOOSE x \in s : TRUE
Total(f, S) == MapThenSumSet(LAMBDA x : f[x], S)

\* g gives the total of f over every subset of S.
IsTotal(g, f, S) ==
    g = [s \in SUBSET S |-> IF s = {} THEN 0 ELSE f[First(s)] + g[s \ {First(s)}]]

\* Where totals exist the sum is one of them.
LEMMA TotalDef ==
    ASSUME NEW f, NEW S, NEW h, IsTotal(h, f, S)
    PROVE  \E g : IsTotal(g, f, S) /\ Total(f, S) = g[S]
  <1>1. PICK g : g = CHOOSE k : IsTotal(k, f, S)
    OBVIOUS
  <1>2. IsTotal(g, f, S)
    BY <1>1
  <1>3. Total(f, S) = g[S]
    BY <1>1 DEF Total, MapThenSumSet, MapThenFoldSet, IsTotal, First
  <1> QED BY <1>2, <1>3

\* Two ways to give totals agree on the sets they share.
LEMMA TotalsAgree ==
    ASSUME NEW f, NEW S, NEW T, IsFiniteSet(S), NEW g, NEW h, IsTotal(g, f, S), IsTotal(h, f, T)
    PROVE  \A s \in SUBSET (S \cap T) : g[s] = h[s]
  <1> SUFFICES ASSUME NEW s \in SUBSET (S \cap T), g[s] # h[s] PROVE FALSE
    OBVIOUS
  <1>1. PICK U : U = {t \in SUBSET S : t \subseteq T /\ g[t] # h[t]}
    OBVIOUS
  <1>2. U \in SUBSET (SUBSET S) /\ U # {}
    BY <1>1
  <1>3. PICK A \in U : \A B \in U : B \subseteq A => B = A
    BY <1>2, SmallestMember
  <1>4. A \in SUBSET S /\ A \in SUBSET T /\ g[A] # h[A]
    BY <1>1, <1>3
  <1>5. /\ g[A] = IF A = {} THEN 0 ELSE f[First(A)] + g[A \ {First(A)}]
        /\ h[A] = IF A = {} THEN 0 ELSE f[First(A)] + h[A \ {First(A)}]
    BY <1>4 DEF IsTotal
  <1>6. A # {} => First(A) \in A
    BY DEF First
  <1>7. g[A \ {First(A)}] = h[A \ {First(A)}]
    <2>1. CASE A = {}
      BY <1>4, <1>5, <2>1
    <2>2. CASE A # {}
      <3>1. PICK B : B = A \ {First(A)}
        OBVIOUS
      <3>2. B \subseteq A /\ B # A /\ B \in SUBSET S /\ B \subseteq T
        BY <1>4, <1>6, <2>2, <3>1
      <3>3. B \notin U
        BY <1>3, <3>2
      <3> QED BY <1>1, <3>1, <3>2, <3>3
    <2> QED BY <2>1, <2>2
  <1> QED BY <1>4, <1>5, <1>7

\* Totals exist.
LEMMA TotalsExist ==
    ASSUME NEW f, NEW S, IsFiniteSet(S)
    PROVE  \E g : IsTotal(g, f, S)
  <1> SUFFICES ASSUME ~ \E g : IsTotal(g, f, S) PROVE FALSE
    OBVIOUS
  <1>1. PICK U : U = {t \in SUBSET S : ~ \E g : IsTotal(g, f, t)}
    OBVIOUS
  <1>2. U \in SUBSET (SUBSET S) /\ U # {}
    BY <1>1
  <1>3. PICK A \in U : \A B \in U : B \subseteq A => B = A
    BY <1>2, SmallestMember
  <1>4. A \in SUBSET S /\ IsFiniteSet(A) /\ ~ \E g : IsTotal(g, f, A)
    BY <1>1, <1>3, FS_Subset
  <1>5. \A B \in SUBSET A : B # A => \E g : IsTotal(g, f, B)
    BY <1>1, <1>3, <1>4
  <1>6. PICK w : w = [B \in SUBSET A |-> CHOOSE g : IsTotal(g, f, B)]
    OBVIOUS
  <1>7. \A B \in SUBSET A : B # A => IsTotal(w[B], f, B)
    BY <1>5, <1>6
  <1>8. PICK v : v = [s \in SUBSET A |-> IF s = {} THEN 0
                                         ELSE f[First(s)] + w[s \ {First(s)}][s \ {First(s)}]]
    OBVIOUS
  <1>9. \A s \in SUBSET A : s # {} => /\ First(s) \in s /\ s \ {First(s)} \in SUBSET A
                                      /\ s \ {First(s)} # A
    BY DEF First
  <1>10. ASSUME NEW B \in SUBSET A, B # A
         PROVE  v[B] = w[B][B]
    <2>1. w[B][B] = IF B = {} THEN 0 ELSE f[First(B)] + w[B][B \ {First(B)}]
      BY <1>7, <1>10 DEF IsTotal
    <2>2. v[B] = IF B = {} THEN 0 ELSE f[First(B)] + w[B \ {First(B)}][B \ {First(B)}]
      BY <1>8
    <2>3. CASE B # {}
      <3>1. PICK C : C = B \ {First(B)}
        OBVIOUS
      <3>2. C \in SUBSET A /\ C # A /\ C \subseteq B
        BY <1>9, <2>3, <3>1
      <3>3. IsFiniteSet(B) /\ IsTotal(w[B], f, B) /\ IsTotal(w[C], f, C) /\ C \in SUBSET (B \cap C)
        BY <1>4, <1>7, <1>10, <3>2, FS_Subset
      <3>4. w[B][C] = w[C][C]
        <4>1. PICK g, h : g = w[B] /\ h = w[C]
          OBVIOUS
        <4>2. IsFiniteSet(B) /\ IsTotal(g, f, B) /\ IsTotal(h, f, C)
          BY <3>3, <4>1
        <4>3. \A s \in SUBSET (B \cap C) : g[s] = h[s]
          BY <4>2, TotalsAgree
        <4> QED BY <3>3, <4>1, <4>3
      <3> QED BY <2>1, <2>2, <2>3, <3>1, <3>4
    <2> QED BY <2>1, <2>2, <2>3
  <1>11. \A s \in SUBSET A : v[s] = IF s = {} THEN 0 ELSE f[First(s)] + v[s \ {First(s)}]
    BY <1>8, <1>9, <1>10
  <1>12. v = [s \in SUBSET A |-> IF s = {} THEN 0 ELSE f[First(s)] + v[s \ {First(s)}]]
    BY <1>8, <1>11
  <1> QED BY <1>4, <1>12 DEF IsTotal

\* The totals of naturals are naturals, and an element may be taken out in any order.
LEMMA TotalsAdd ==
    ASSUME NEW S, IsFiniteSet(S), NEW f, \A x \in S : f[x] \in Nat, NEW g, IsTotal(g, f, S)
    PROVE  /\ g[{}] = 0
           /\ \A s \in SUBSET S : g[s] \in Nat
           /\ \A s \in SUBSET S : \A c \in s : g[s] = f[c] + g[s \ {c}]
  <1>1. \A s \in SUBSET S : g[s] = IF s = {} THEN 0 ELSE f[First(s)] + g[s \ {First(s)}]
    BY DEF IsTotal
  <1>2. \A s \in SUBSET S : s # {} => First(s) \in s
    BY DEF First
  <1>3. g[{}] = 0
    BY <1>1
  <1>4. ASSUME NEW s \in SUBSET S, g[s] \notin Nat PROVE FALSE
    <2>1. PICK U : U = {t \in SUBSET S : g[t] \notin Nat}
      OBVIOUS
    <2>2. U \in SUBSET (SUBSET S) /\ U # {}
      BY <1>4, <2>1
    <2>3. PICK A \in U : \A B \in U : B \subseteq A => B = A
      BY <2>2, SmallestMember
    <2>4. A \in SUBSET S /\ g[A] \notin Nat /\ A # {}
      <3>1. A \in SUBSET S /\ g[A] \notin Nat
        BY <2>1, <2>3
      <3>2. g[{}] \in Nat
        BY <1>3
      <3> QED BY <3>1, <3>2
    <2>5. PICK B : B = A \ {First(A)}
      OBVIOUS
    <2>6. B \in SUBSET S /\ B \subseteq A /\ B # A /\ First(A) \in S
      BY <1>2, <2>4, <2>5
    <2>7. g[B] \in Nat
      BY <2>1, <2>3, <2>6
    <2>8. g[A] = f[First(A)] + g[B]
      BY <1>1, <2>4, <2>5
    <2> QED BY <2>4, <2>6, <2>7, <2>8
  <1>5. ASSUME NEW s \in SUBSET S, NEW c \in s, g[s] # f[c] + g[s \ {c}] PROVE FALSE
    <2>1. PICK U : U = {t \in SUBSET S : \E d \in t : g[t] # f[d] + g[t \ {d}]}
      OBVIOUS
    <2>2. U \in SUBSET (SUBSET S) /\ U # {}
      BY <1>5, <2>1
    <2>3. PICK A \in U : \A B \in U : B \subseteq A => B = A
      BY <2>2, SmallestMember
    <2>4. PICK d \in A : g[A] # f[d] + g[A \ {d}]
      BY <2>1, <2>3
    <2>5. PICK x : x = First(A)
      OBVIOUS
    <2>6. A \in SUBSET S /\ x \in A /\ g[A] = f[x] + g[A \ {x}] /\ x # d
      BY <1>1, <1>2, <2>1, <2>3, <2>4, <2>5
    <2>7. PICK B, C, D : B = A \ {x} /\ C = A \ {d} /\ D = A \ {x, d}
      OBVIOUS
    <2>8. /\ B \in SUBSET S /\ C \in SUBSET S /\ D \in SUBSET S
          /\ B \subseteq A /\ B # A /\ d \in B /\ D = B \ {d}
          /\ C \subseteq A /\ C # A /\ x \in C /\ D = C \ {x}
      BY <2>4, <2>6, <2>7
    <2>9. B \notin U /\ C \notin U
      BY <2>3, <2>8
    <2>10. g[B] = f[d] + g[D] /\ g[C] = f[x] + g[D]
      BY <2>1, <2>8, <2>9
    <2>11. g[D] \in Nat /\ f[d] \in Nat /\ f[x] \in Nat
      BY <1>4, <2>4, <2>6, <2>8
    <2>12. f[x] + (f[d] + g[D]) = f[d] + (f[x] + g[D])
      BY <2>11
    <2> QED BY <2>4, <2>6, <2>7, <2>10, <2>12
  <1> QED BY <1>3, <1>4, <1>5

\* The total of a set and of its subsets come from the same function.
LEMMA TotalOfSubset ==
    ASSUME NEW f, NEW S, IsFiniteSet(S), NEW g, IsTotal(g, f, S), NEW T \in SUBSET S
    PROVE  Total(f, T) = g[T]
  <1>1. IsFiniteSet(T)
    BY FS_Subset
  <1>2. \E h : IsTotal(h, f, T)
    BY <1>1, TotalsExist
  <1>3. PICK h : IsTotal(h, f, T) /\ Total(f, T) = h[T]
    BY <1>2, TotalDef
  <1>4. \A s \in SUBSET (S \cap T) : g[s] = h[s]
    BY <1>3, TotalsAgree
  <1> QED BY <1>3, <1>4

\* An element's share of the total is its own value, whatever the order of the sum.
THEOREM SumSplitsOff ==
    ASSUME NEW S, IsFiniteSet(S), NEW f, \A x \in S : f[x] \in Nat
    PROVE  /\ Total(f, {}) = 0
           /\ Total(f, S) \in Nat
           /\ \A c \in S : Total(f, S) = f[c] + Total(f, S \ {c})
  <1>1. PICK g : IsTotal(g, f, S)
    BY TotalsExist
  <1>2. /\ g[{}] = 0 /\ g[S] \in Nat
        /\ \A c \in S : g[S] = f[c] + g[S \ {c}]
    BY <1>1, TotalsAdd
  <1>3. \A T \in SUBSET S : Total(f, T) = g[T]
    BY <1>1, TotalOfSubset
  <1> QED BY <1>2, <1>3

\* More rows never add up to less.
THEOREM SumGrows ==
    ASSUME NEW S, IsFiniteSet(S), NEW f, \A x \in S : f[x] \in Nat, NEW T \in SUBSET S
    PROVE  Total(f, T) <= Total(f, S)
  <1>1. PICK g : IsTotal(g, f, S)
    BY TotalsExist
  <1>2. \A s \in SUBSET S : g[s] \in Nat /\ \A c \in s : g[s] = f[c] + g[s \ {c}]
    BY <1>1, TotalsAdd
  <1>3. ASSUME ~(g[T] <= g[S]) PROVE FALSE
    <2>1. PICK U : U = {t \in SUBSET S : T \subseteq t /\ ~(g[T] <= g[t])}
      OBVIOUS
    <2>2. U \in SUBSET (SUBSET S) /\ U # {}
      BY <1>3, <2>1
    <2>3. PICK A \in U : \A B \in U : B \subseteq A => B = A
      BY <2>2, SmallestMember
    <2>4. A \in SUBSET S /\ T \subseteq A /\ ~(g[T] <= g[A])
      BY <2>1, <2>3
    <2>5. PICK c \in A : c \notin T
      <3>1. g[T] \in Nat /\ g[T] <= g[T]
        BY <1>2
      <3>2. A # T
        BY <2>4, <3>1
      <3> QED BY <2>4, <3>2
    <2>6. PICK B : B = A \ {c}
      OBVIOUS
    <2>7. B \in SUBSET S /\ T \subseteq B /\ B \subseteq A /\ B # A
      BY <2>4, <2>5, <2>6
    <2>8. g[T] <= g[B]
      BY <2>1, <2>3, <2>7
    <2>9. g[A] = f[c] + g[B] /\ f[c] \in Nat /\ g[B] \in Nat /\ g[T] \in Nat
      BY <1>2, <2>4, <2>5, <2>6, <2>7
    <2> QED BY <2>4, <2>8, <2>9
  <1>4. Total(f, T) = g[T] /\ Total(f, S) = g[S]
    BY <1>1, TotalOfSubset
  <1> QED BY <1>3, <1>4

\* Smaller rows never add up to more.
THEOREM SumBounded ==
    ASSUME NEW S, IsFiniteSet(S), NEW f, NEW w, \A x \in S : f[x] \in Nat /\ w[x] \in Nat /\ f[x] <= w[x]
    PROVE  Total(f, S) <= Total(w, S)
  <1>1. PICK g, h : IsTotal(g, f, S) /\ IsTotal(h, w, S)
    BY TotalsExist
  <1>2. /\ g[{}] = 0 /\ h[{}] = 0
        /\ \A s \in SUBSET S : g[s] \in Nat /\ h[s] \in Nat
        /\ \A s \in SUBSET S : \A c \in s : g[s] = f[c] + g[s \ {c}]
        /\ \A s \in SUBSET S : \A c \in s : h[s] = w[c] + h[s \ {c}]
    BY <1>1, TotalsAdd
  <1>3. ASSUME ~(g[S] <= h[S]) PROVE FALSE
    <2>1. PICK U : U = {t \in SUBSET S : ~(g[t] <= h[t])}
      OBVIOUS
    <2>2. U \in SUBSET (SUBSET S) /\ U # {}
      BY <1>3, <2>1
    <2>3. PICK A \in U : \A B \in U : B \subseteq A => B = A
      BY <2>2, SmallestMember
    <2>4. A \in SUBSET S /\ ~(g[A] <= h[A])
      BY <2>1, <2>3
    <2>5. PICK c \in A : TRUE
      <3>1. g[{}] <= h[{}]
        BY <1>2
      <3> QED BY <2>4, <3>1
    <2>6. PICK B : B = A \ {c}
      OBVIOUS
    <2>7. B \in SUBSET S /\ B \subseteq A /\ B # A
      BY <2>4, <2>6
    <2>8. g[B] <= h[B]
      BY <2>1, <2>3, <2>7
    <2>9. g[A] = f[c] + g[B] /\ h[A] = w[c] + h[B]
      BY <1>2, <2>4, <2>6
    <2>10. f[c] \in Nat /\ w[c] \in Nat /\ f[c] <= w[c] /\ g[B] \in Nat /\ h[B] \in Nat
      BY <1>2, <2>4, <2>7
    <2> QED BY <2>4, <2>8, <2>9, <2>10
  <1>4. S \in SUBSET S
    OBVIOUS
  <1>5. Total(f, S) = g[S] /\ Total(w, S) = h[S]
    BY <1>1, <1>4, TotalOfSubset
  <1> QED BY <1>3, <1>5

\* Sums over disjoint sets add up.
THEOREM SumOfUnion ==
    ASSUME NEW S, NEW T, IsFiniteSet(S), IsFiniteSet(T), S \cap T = {},
           NEW f, \A x \in S \cup T : f[x] \in Nat
    PROVE  Total(f, S \cup T) = Total(f, S) + Total(f, T)
  <1> SUFFICES ASSUME Total(f, S \cup T) # Total(f, S) + Total(f, T) PROVE FALSE
    OBVIOUS
  <1>1. PICK U : U = {A \in SUBSET T : Total(f, S \cup A) # Total(f, S) + Total(f, A)}
    OBVIOUS
  <1>2. U \in SUBSET (SUBSET T) /\ U # {}
    BY <1>1
  <1>3. PICK A \in U : \A B \in U : B \subseteq A => B = A
    BY <1>2, SmallestMember
  <1>4. A \in SUBSET T /\ Total(f, S \cup A) # Total(f, S) + Total(f, A)
    BY <1>1, <1>3
  <1>5. \A B \in SUBSET T : IsFiniteSet(B) /\ IsFiniteSet(S \cup B)
    BY FS_Subset, FS_Union
  <1>6. CASE A = {}
    <2>1. S \cup A = S
      BY <1>6
    <2>2. Total(f, S) \in Nat /\ Total(f, A) = 0
      BY <1>6, SumSplitsOff
    <2> QED BY <1>4, <2>1, <2>2
  <1>7. CASE A # {}
    <2>1. PICK c \in A : TRUE
      BY <1>7
    <2>2. PICK B : B = A \ {c}
      OBVIOUS
    <2>3. B \in SUBSET T /\ B \subseteq A /\ B # A /\ (S \cup A) \ {c} = S \cup B
      BY <1>4, <2>1, <2>2
    <2>4. Total(f, S \cup B) = Total(f, S) + Total(f, B)
      BY <1>1, <1>3, <2>3
    <2>5. /\ Total(f, A) = f[c] + Total(f, B)
          /\ Total(f, B) \in Nat
      BY <1>4, <1>5, <2>1, <2>2, <2>3, SumSplitsOff
    <2>6. Total(f, S \cup A) = f[c] + Total(f, S \cup B)
      <3>1. PICK SA : SA = S \cup A
        OBVIOUS
      <3>2. IsFiniteSet(SA) /\ c \in SA /\ SA \ {c} = S \cup B /\ \A x \in SA : f[x] \in Nat
        BY <1>4, <1>5, <2>1, <2>3, <3>1
      <3>3. Total(f, SA) = f[c] + Total(f, SA \ {c})
        BY <3>2, SumSplitsOff
      <3> QED BY <3>1, <3>2, <3>3
    <2>7. Total(f, S) \in Nat /\ f[c] \in Nat
      BY <1>4, <2>1, SumSplitsOff
    <2> QED BY <1>4, <2>4, <2>5, <2>6, <2>7
  <1> QED BY <1>6, <1>7

\* h gives the elements of S new names, the elements of R, and g values them as f did.
Renames(h, S, R, f, g) ==
    /\ \A x \in S : h[x] \in R /\ f[x] \in Nat /\ g[h[x]] = f[x]
    /\ \A y \in R : \E x \in S : h[x] = y
    /\ \A x, y \in S : h[x] = h[y] => x = y

\* A sum does not depend on the names of its elements.
THEOREM SumRenamed ==
    ASSUME NEW S, IsFiniteSet(S), NEW R, NEW f, NEW g, NEW h, Renames(h, S, R, f, g)
    PROVE  Total(g, R) = Total(f, S)
  <1> USE DEF Renames
  <1>0. R = {h[x] : x \in S}
    OBVIOUS
  <1> SUFFICES ASSUME Total(g, {h[x] : x \in S}) # Total(f, S) PROVE FALSE
    BY <1>0
  <1>1. PICK U : U = {A \in SUBSET S : Total(g, {h[x] : x \in A}) # Total(f, A)}
    OBVIOUS
  <1>2. U \in SUBSET (SUBSET S) /\ U # {}
    BY <1>1
  <1>3. PICK A \in U : \A B \in U : B \subseteq A => B = A
    BY <1>2, SmallestMember
  <1>4. PICK H : H = {h[x] : x \in A}
    OBVIOUS
  <1>5. A \in SUBSET S /\ Total(g, H) # Total(f, A)
    BY <1>1, <1>3, <1>4
  <1>6. IsFiniteSet(A) /\ IsFiniteSet(H)
    <2>1. IsFiniteSet(A)
      BY <1>5, FS_Subset
    <2>2. PICK k : k = [x \in A |-> h[x]]
      OBVIOUS
    <2>3. k \in Surjection(A, H)
      BY <1>4, <2>2 DEF Surjection
    <2> QED BY <2>1, <2>3, FS_Surjection
  <1>7. CASE A = {}
    <2>1. H = {}
      BY <1>4, <1>7
    <2>2. Total(f, A) = 0 /\ Total(g, H) = 0
      BY <1>7, <2>1, SumSplitsOff, FS_EmptySet
    <2> QED BY <1>5, <2>2
  <1>8. CASE A # {}
    <2>1. PICK c \in A : TRUE
      BY <1>8
    <2>2. PICK B : B = A \ {c}
      OBVIOUS
    <2>3. B \in SUBSET S /\ B \subseteq A /\ B # A
      BY <1>5, <2>1, <2>2
    <2>4. H \ {h[c]} = {h[x] : x \in B} /\ h[c] \in H
      BY <1>4, <1>5, <2>1, <2>2
    <2>5. Total(g, H \ {h[c]}) = Total(f, B)
      BY <1>1, <1>3, <2>3, <2>4
    <2>6. Total(f, A) = f[c] + Total(f, B)
      <3>1. \A x \in A : f[x] \in Nat
        BY <1>5
      <3>2. Total(f, A) = f[c] + Total(f, A \ {c})
        BY <1>6, <2>1, <3>1, SumSplitsOff
      <3> QED BY <2>2, <3>2
    <2>7. Total(g, H) = g[h[c]] + Total(g, H \ {h[c]})
      <3>1. \A y \in H : g[y] \in Nat
        BY <1>4, <1>5
      <3>2. \A y \in H : Total(g, H) = g[y] + Total(g, H \ {y})
        BY <1>6, <3>1, SumSplitsOff
      <3> QED BY <2>4, <3>2
    <2> QED BY <1>5, <2>1, <2>5, <2>6, <2>7
  <1> QED BY <1>7, <1>8
=============================================================================
