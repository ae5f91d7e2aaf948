------------------------- MODULE BlockFetcherProofs -------------------------
(***************************************************************************)
(* Proofs, for every set of peers and blocks, of the safety properties of  *)
(* BlockFetcher.                                                           *)
(***************************************************************************)
EXTENDS BlockFetcher, FiniteSetTheorems, SequenceTheorems, WellFoundedInduction, TLAPS

-----------------------------------------------------------------------------
(***************************************************************************)
(* Sums over finite sets.                                                  *)
(***************************************************************************)

\* Every nonempty set of naturals has a least element.
LEMMA LeastNumber ==
    ASSUME NEW N \in SUBSET Nat, N # {}
    PROVE  \E n \in N : \A m \in N : n <= m
<1> DEFINE R == OpToRel(<, Nat)
<1>1. IsWellFoundedOn(R, Nat)
  BY NatLessThanWellFounded, Zenon
<1>2. \A m, n \in Nat : <<m, n>> \in R <=> m < n
  BY Zenon DEF OpToRel
<1> HIDE DEF R
<1>3. N \subseteq Nat
  BY Zenon
<1>4. \E n \in N : \A m \in N : ~ (<<m, n>> \in R)
  BY <1>1, <1>3, WFMin, Zenon
<1>5. \E n \in N : \A m \in N : ~ (m < n)
  BY <1>2, <1>3, <1>4, Zenon
<1> QED
  BY <1>3, <1>5

\* What holds of no smallest set holds of none.
LEMMA SmallestSet ==
    ASSUME NEW H, IsFiniteSet(H), NEW B \in SUBSET SUBSET H, B # {}
    PROVE  \E s \in B : \A t \in B : Cardinality(s) <= Cardinality(t)
<1> DEFINE N == {Cardinality(s) : s \in B}
<1>1. \A s \in B : IsFiniteSet(s) /\ Cardinality(s) \in Nat
  BY FS_Subset, FS_CardinalityType, Zenon
<1>2. N \in SUBSET Nat /\ N # {}
  BY <1>1, Zenon
<1>3. PICK n \in N : \A m \in N : n <= m
  <2> HIDE DEF N
  <2> QED
    BY <1>2, LeastNumber, Zenon
<1> QED
  BY <1>3, Zenon

\* An element taken out of a subset of a finite set.
LEMMA OneLess ==
    ASSUME NEW H, IsFiniteSet(H), NEW s \in SUBSET H, NEW x \in s
    PROVE  /\ s \ {x} \in SUBSET H
           /\ Cardinality(s \ {x}) \in Nat /\ Cardinality(s) = Cardinality(s \ {x}) + 1
<1>1. IsFiniteSet(s)
  BY FS_Subset, Zenon
<1>2. Cardinality(s) \in Nat /\ Cardinality(s \ {x}) = Cardinality(s) - 1 /\ IsFiniteSet(s \ {x})
  BY <1>1, FS_RemoveElement, FS_CardinalityType, Zenon
<1>3. Cardinality(s \ {x}) \in Nat
  BY <1>2, FS_CardinalityType, Zenon
<1> QED
  BY <1>2, <1>3

Pick(s) == CHOOSE x \in s : TRUE

SumBody(w, g, s) == IF s = {} THEN 0 ELSE w[Pick(s)] + g[s \ {Pick(s)}]

Sums(w, F, g) == g = [s \in F |-> SumBody(w, g, s)]

\* A sum, one element at a time.
LEMMA SumsAt ==
    ASSUME NEW w, NEW F, NEW g, Sums(w, F, g), NEW s \in F
    PROVE  g[s] = SumBody(w, g, s)
BY Zenon DEF Sums

\* SumFunctionOnSet is the library's fold, spelled out.
LEMMA SumUnfold ==
    ASSUME NEW w, NEW S
    PROVE  SumFunctionOnSet(w, S) = (CHOOSE g : Sums(w, SUBSET S, g))[S]
BY Zenon DEF SumFunctionOnSet, FoldFunctionOnSet, MapThenFoldSet, Sums, SumBody, Pick


\* What Pick takes is in the set.
LEMMA PickIn ==
    ASSUME NEW s, s # {}
    PROVE  Pick(s) \in s
BY Zenon DEF Pick

\* The recursion has a solution on the subsets of a finite set.
LEMMA SumsExist ==
    ASSUME NEW w, NEW H, IsFiniteSet(H)
    PROVE  \E g : Sums(w, SUBSET H, g)
<1> DEFINE F(n) == {s \in SUBSET H : Cardinality(s) <= n}
           Failing == {n \in Nat : ~ \E g : Sums(w, F(n), g)}
<1>1. \A s \in SUBSET H : IsFiniteSet(s) /\ Cardinality(s) \in Nat
  BY FS_Subset, FS_CardinalityType, Zenon
<1>2. Failing = {}
  <2> SUFFICES ASSUME Failing # {} PROVE FALSE
    BY Zenon
  <2>1. PICK n \in Failing : \A m \in Failing : n <= m
    <3>1. Failing \in SUBSET Nat
      BY Zenon
    <3> HIDE DEF Failing
    <3> QED
      BY <3>1, LeastNumber, Zenon
  <2>2. \E h : \A s \in SUBSET H : Cardinality(s) < n => h[s] = SumBody(w, h, s)
    <3>1. CASE n = 0
      BY <1>1, <3>1
    <3>2. CASE n # 0
      <4>1. n - 1 \in Nat /\ n - 1 \notin Failing
        <5>1. n \in Nat
          BY Zenon
        <5> HIDE DEF Failing
        <5> QED
          BY <2>1, <3>2, <5>1
      <4>2. PICK h : Sums(w, F(n - 1), h)
        BY <4>1, Zenon
      <4>3. \A s \in SUBSET H : Cardinality(s) < n => s \in F(n - 1)
        BY <1>1, <2>1
      <4>4. PICK E : E = F(n - 1)
        BY Zenon
      <4>5. \A s \in E : h[s] = SumBody(w, h, s)
        BY <4>2, <4>4, SumsAt
      <4> HIDE DEF F
      <4> QED
        BY <4>3, <4>4, <4>5, Zenon
    <3> QED
      BY <3>1, <3>2, Zenon
  <2>3. PICK h : \A s \in SUBSET H : Cardinality(s) < n => h[s] = SumBody(w, h, s)
    BY <2>2, Zenon
  <2> DEFINE g == [s \in F(n) |-> SumBody(w, h, s)]
  <2>4. ASSUME NEW s \in F(n) PROVE SumBody(w, g, s) = SumBody(w, h, s)
    <3>1. CASE s = {}
      BY <3>1, Zenon DEF SumBody
    <3>2. CASE s # {}
      <4>1. PICK x, t : x = Pick(s) /\ t = s \ {x}
        BY Zenon
      <4>2. x \in s
        BY <3>2, <4>1, PickIn, Zenon
      <4>3. t \in SUBSET H /\ Cardinality(t) \in Nat /\ Cardinality(s) = Cardinality(t) + 1
        BY <4>1, <4>2, OneLess
      <4>4. Cardinality(t) < n /\ t \in F(n)
        BY <2>1, <4>3
      <4>5. g[t] = SumBody(w, h, t)
        BY <4>4, Zenon
      <4>6. h[t] = SumBody(w, h, t)
        BY <2>3, <4>3, <4>4, Zenon
      <4> HIDE DEF g
      <4> QED
        BY <3>2, <4>1, <4>5, <4>6, Zenon DEF SumBody
    <3> QED
      BY <3>1, <3>2, Zenon
  <2>5. Sums(w, F(n), g)
    BY <2>4, Zenon DEF Sums
  <2> QED
    BY <2>1, <2>5, Zenon
<1>3. Cardinality(H) \in Nat
  BY <1>1, Zenon
<1>4. PICK g : Sums(w, F(Cardinality(H)), g)
  BY <1>2, <1>3, Zenon
<1>5. F(Cardinality(H)) = SUBSET H
  BY <1>1, FS_Subset, Zenon
<1> QED
  BY <1>4, <1>5, Zenon

Total(w, S) == SumFunctionOnSet(w, S)

\* What a sum is: with the function that adds up all subsets.
LEMMA TotalAsFunction ==
    ASSUME NEW w, NEW H, IsFiniteSet(H)
    PROVE  \E g : /\ \A s \in SUBSET H : g[s] = Total(w, s)
                  /\ \A s \in SUBSET H : g[s] = SumBody(w, g, s)
<1>1. PICK g : Sums(w, SUBSET H, g)
  BY SumsExist, Zenon
<1>2. \A s \in SUBSET H : g[s] = SumBody(w, g, s)
  BY <1>1, SumsAt, Zenon
<1>3. ASSUME NEW S \in SUBSET H PROVE g[S] = Total(w, S)
  <2>1. IsFiniteSet(S)
    BY FS_Subset, Zenon
  <2>2. PICK k : k = CHOOSE e : Sums(w, SUBSET S, e)
    BY Zenon
  <2>3. Sums(w, SUBSET S, k)
    BY <2>1, <2>2, SumsExist, Zenon
  <2>4. Total(w, S) = k[S]
    BY <2>2, SumUnfold, Zenon DEF Total
  <2> DEFINE Failing == {s \in SUBSET S : k[s] # g[s]}
  <2>5. Failing = {}
    <3> SUFFICES ASSUME Failing # {} PROVE FALSE
      BY Zenon
    <3>1. PICK s \in Failing : \A t \in Failing : Cardinality(s) <= Cardinality(t)
      <4>1. Failing \in SUBSET SUBSET S
        BY Zenon
      <4> HIDE DEF Failing
      <4> QED
        BY <2>1, <4>1, SmallestSet, Zenon
    <3>2. k[s] = SumBody(w, k, s) /\ g[s] = SumBody(w, g, s)
      BY <1>2, <2>3, SumsAt
    <3>3. CASE s = {}
      BY <3>1, <3>2, <3>3, Zenon DEF SumBody
    <3>4. CASE s # {}
      <4>1. PICK x, t : x = Pick(s) /\ t = s \ {x}
        BY Zenon
      <4>2. x \in s
        BY <3>4, <4>1, PickIn, Zenon
      <4>3. t \in SUBSET S /\ Cardinality(t) \in Nat /\ Cardinality(s) = Cardinality(t) + 1
        BY <2>1, <4>1, <4>2, OneLess
      <4>4. k[t] = g[t]
        BY <3>1, <4>3
      <4>5. SumBody(w, k, s) = SumBody(w, g, s)
        BY <3>4, <4>1, <4>4, Zenon DEF SumBody
      <4> QED
        BY <3>1, <3>2, <4>5, Zenon
    <3> QED
      BY <3>3, <3>4, Zenon
  <2> QED
    BY <2>4, <2>5, Zenon
<1> QED
  BY <1>2, <1>3, Zenon


\* Sums of natural numbers: any element may be taken out.
LEMMA TotalStep ==
    ASSUME NEW H, IsFiniteSet(H), NEW w, \A x \in H : w[x] \in Nat
    PROVE  \A s \in SUBSET H :
               /\ Total(w, s) \in Nat
               /\ s = {} => Total(w, s) = 0
               /\ \A x \in s : Total(w, s) = w[x] + Total(w, s \ {x})
<1>1. PICK g : /\ \A s \in SUBSET H : g[s] = Total(w, s)
               /\ \A s \in SUBSET H : g[s] = SumBody(w, g, s)
  BY TotalAsFunction, Zenon
<1> DEFINE Good(s) == /\ g[s] \in Nat
                      /\ s = {} => g[s] = 0
                      /\ \A x \in s : g[s] = w[x] + g[s \ {x}]
           Failing == {s \in SUBSET H : ~Good(s)}
<1>2. Failing = {}
  <2> SUFFICES ASSUME Failing # {} PROVE FALSE
    BY Zenon
  <2>1. PICK s \in Failing : \A t \in Failing : Cardinality(s) <= Cardinality(t)
    <3>1. Failing \in SUBSET SUBSET H
      BY Zenon
    <3> HIDE DEF Failing
    <3> QED
      BY <3>1, SmallestSet, Zenon
  <2>2. s \in SUBSET H /\ ~Good(s)
    BY Zenon
  <2>3. ASSUME NEW x \in s PROVE Good(s \ {x}) /\ s \ {x} \in SUBSET H
    <3>1. PICK t : t = s \ {x}
      BY Zenon
    <3>2. t \in SUBSET H /\ Cardinality(t) \in Nat /\ Cardinality(s) = Cardinality(t) + 1
      BY <2>2, <3>1, OneLess
    <3>3. ~(Cardinality(s) <= Cardinality(t))
      BY <3>2
    <3>4. t \notin Failing
      <4> HIDE DEF Failing
      <4> QED
        BY <2>1, <3>3, Zenon
    <3>5. Good(t)
      BY <3>2, <3>4, Zenon
    <3> HIDE DEF Good
    <3> QED
      BY <3>1, <3>2, <3>5, Zenon
  <2>4. g[s] = SumBody(w, g, s)
    BY <1>1, <2>2, Zenon
  <2>5. CASE s = {}
    BY <2>2, <2>4, <2>5 DEF SumBody
  <2>6. CASE s # {}
    <3>1. PICK c : c = Pick(s)
      BY Zenon
    <3>2. c \in s
      BY <2>6, <3>1, PickIn, Zenon
    <3>3. g[s] = w[c] + g[s \ {c}]
      BY <2>4, <2>6, <3>1, Zenon DEF SumBody
    <3>4. g[s \ {c}] \in Nat /\ w[c] \in Nat
      BY <2>2, <2>3, <3>2, Zenon
    <3>5. ASSUME NEW x \in s PROVE g[s] = w[x] + g[s \ {x}]
      <4>1. CASE x = c
        BY <3>3, <4>1, Zenon
      <4>2. CASE x # c
        <5>1. PICK a, b, d : a = s \ {c} /\ b = s \ {x} /\ d = (s \ {c}) \ {x}
          BY Zenon
        <5>2. x \in a /\ c \in b /\ a \ {x} = d /\ b \ {c} = d
          BY <3>2, <4>2, <5>1, Zenon
        <5>3. g[a] = w[x] + g[a \ {x}]
          BY <2>3, <3>2, <5>1, <5>2, Zenon
        <5>4. g[b] = w[c] + g[b \ {c}] /\ g[b] \in Nat
          BY <2>3, <5>1, <5>2, ZenonT(30)
        <5>5. a \ {x} \in SUBSET H /\ w[x] \in Nat
          BY <2>2, <5>1, Zenon
        <5>6. g[d] \in Nat
          <6>1. a \in SUBSET H
            BY <2>2, <5>1, Zenon
          <6>3. Cardinality(a \ {x}) \in Nat /\ Cardinality(a) = Cardinality(a \ {x}) + 1
            <7> HIDE DEF Good, Failing
            <7> QED
              BY <5>2, <6>1, OneLess
          <6>4. Cardinality(s) = Cardinality(a) + 1
            BY <2>2, <3>2, <5>1, OneLess
          <6>5. ~(Cardinality(s) <= Cardinality(d))
            BY <5>2, <6>3, <6>4
          <6>6. d \notin Failing
            <7> HIDE DEF Failing
            <7> QED
              BY <2>1, <6>5, Zenon
          <6> QED
            BY <5>2, <5>5, <6>6, Zenon
        <5>7. PICK S, A, B, D, W, C : /\ S = g[s] /\ A = g[a] /\ B = g[b] /\ D = g[d]
                                      /\ W = w[x] /\ C = w[c]
          BY Zenon
        <5>8. S = C + A /\ A = W + D /\ B = C + D
          BY <3>3, <5>1, <5>2, <5>3, <5>4, <5>7, Zenon
        <5>9. C \in Nat /\ W \in Nat /\ D \in Nat
          BY <3>4, <5>5, <5>6, <5>7, Zenon
        <5>10. S = W + B
          BY <5>8, <5>9
        <5> QED
          BY <5>1, <5>7, <5>10, Zenon
      <4> QED
        BY <4>1, <4>2, Zenon
    <3>6. g[s] \in Nat
      BY <3>3, <3>4
    <3> QED
      BY <2>2, <2>6, <3>5, <3>6, Zenon
  <2> QED
    BY <2>5, <2>6, Zenon
<1>3. ASSUME NEW s \in SUBSET H
      PROVE  /\ Total(w, s) \in Nat
             /\ s = {} => Total(w, s) = 0
             /\ \A x \in s : Total(w, s) = w[x] + Total(w, s \ {x})
  <2>1. Good(s)
    BY <1>2, Zenon
  <2>2. \A x \in s : g[s \ {x}] = Total(w, s \ {x})
    BY <1>1, Zenon
  <2> QED
    BY <1>1, <2>1, <2>2, Zenon
<1> QED
  BY <1>3, Zenon


\* A sum of larger numbers is not smaller.
LEMMA TotalGrows ==
    ASSUME NEW H, IsFiniteSet(H), NEW w, NEW v,
           \A x \in H : w[x] \in Nat /\ v[x] \in Nat
    PROVE  \A s \in SUBSET H :
               (\A x \in s : w[x] <= v[x]) => Total(w, s) <= Total(v, s)
<1> DEFINE Good(s) == (\A x \in s : w[x] <= v[x]) => Total(w, s) <= Total(v, s)
           Failing == {s \in SUBSET H : ~Good(s)}
<1> SUFFICES ASSUME Failing # {} PROVE FALSE
  BY Zenon
<1>1. PICK s \in Failing : \A t \in Failing : Cardinality(s) <= Cardinality(t)
  <2>1. Failing \in SUBSET SUBSET H
    BY Zenon
  <2> HIDE DEF Failing
  <2> QED
    BY <2>1, SmallestSet, Zenon
<1>2. s \in SUBSET H /\ ~Good(s)
  BY Zenon
<1>3. CASE s = {}
  <2>1. Total(w, s) = 0 /\ Total(v, s) = 0
    BY <1>2, <1>3, TotalStep, ZenonT(30)
  <2> QED
    BY <1>2, <2>1
<1>4. CASE s # {}
  <2>1. PICK x \in s : TRUE
    BY <1>4, Zenon
  <2>2. PICK t : t = s \ {x}
    BY Zenon
  <2>3. t \in SUBSET H /\ Cardinality(t) \in Nat /\ Cardinality(s) = Cardinality(t) + 1
    <3> HIDE DEF Failing, Good
    <3>1. x \in s
      BY <2>1, Zenon
    <3> QED
      BY <1>2, <2>2, <3>1, OneLess
  <2>4. ~(Cardinality(s) <= Cardinality(t))
    BY <2>3
  <2>5. t \notin Failing
    <3> HIDE DEF Failing
    <3> QED
      BY <1>1, <2>4, Zenon
  <2>6. Good(t)
    BY <2>3, <2>5, Zenon
  <2>7. Total(w, s) = w[x] + Total(w, t) /\ Total(v, s) = v[x] + Total(v, t)
    BY <1>2, <2>1, <2>2, TotalStep
  <2>8. Total(w, t) \in Nat /\ Total(v, t) \in Nat /\ w[x] \in Nat /\ v[x] \in Nat
    BY <1>2, <2>1, <2>3, TotalStep, Zenon
  <2> QED
    BY <1>2, <2>1, <2>2, <2>6, <2>7, <2>8
<1> QED
  BY <1>3, <1>4, Zenon

\* The sum over a set is that over a part and that over the rest.
LEMMA TotalSplit ==
    ASSUME NEW H, IsFiniteSet(H), NEW w, \A x \in H : w[x] \in Nat
    PROVE  \A s \in SUBSET H : Total(w, H) = Total(w, s) + Total(w, H \ s)
<1> DEFINE Good(s) == Total(w, H) = Total(w, s) + Total(w, H \ s)
           Failing == {s \in SUBSET H : ~Good(s)}
<1> SUFFICES ASSUME Failing # {} PROVE FALSE
  BY ZenonT(30)
<1>1. PICK s \in Failing : \A t \in Failing : Cardinality(s) <= Cardinality(t)
  <2>1. Failing \in SUBSET SUBSET H
    BY Zenon
  <2> HIDE DEF Failing
  <2> QED
    BY <2>1, SmallestSet, Zenon
<1>2. s \in SUBSET H /\ ~Good(s)
  BY Zenon
<1>3. CASE s = {}
  <2>1. Total(w, s) = 0 /\ Total(w, H) \in Nat /\ H \ s = H
    BY <1>2, <1>3, TotalStep
  <2> QED
    BY <1>2, <2>1
<1>4. CASE s # {}
  <2>1. PICK x \in s : TRUE
    BY <1>4, Zenon
  <2>2. PICK t, r, q : t = s \ {x} /\ r = H \ s /\ q = H \ t
    BY ZenonT(30)
  <2>3. t \in SUBSET H /\ Cardinality(t) \in Nat /\ Cardinality(s) = Cardinality(t) + 1
    <3> HIDE DEF Failing, Good
    <3>1. x \in s
      BY <2>1, Zenon
    <3> QED
      BY <1>2, <2>2, <3>1, OneLess
  <2>4. ~(Cardinality(s) <= Cardinality(t))
    BY <2>3
  <2>5. t \notin Failing
    <3> HIDE DEF Failing
    <3> QED
      BY <1>1, <2>4, Zenon
  <2>6. Total(w, H) = Total(w, t) + Total(w, q)
    BY <2>2, <2>3, <2>5, Zenon
  <2>7. q \in SUBSET H /\ r \in SUBSET H /\ x \in q /\ q \ {x} = r
    BY <1>2, <2>1, <2>2, Zenon
  <2>8. Total(w, s) = w[x] + Total(w, t)
    BY <1>2, <2>1, <2>2, TotalStep
  <2>9. Total(w, q) = w[x] + Total(w, q \ {x})
    BY <2>7, TotalStep
  <2>10. Total(w, t) \in Nat /\ Total(w, r) \in Nat /\ w[x] \in Nat
    BY <2>3, <2>7, TotalStep, Zenon
  <2>11. PICK S, R, T, Q, N, W : /\ S = Total(w, s) /\ R = Total(w, r) /\ T = Total(w, t)
                                 /\ Q = Total(w, q) /\ N = Total(w, H) /\ W = w[x]
    BY Zenon
  <2>12. N = T + Q /\ S = W + T /\ Q = W + R
    BY <2>6, <2>7, <2>8, <2>9, <2>11, Zenon
  <2>13. T \in Nat /\ R \in Nat /\ W \in Nat
    BY <2>10, <2>11, Zenon
  <2>14. N = S + R
    BY <2>12, <2>13
  <2> QED
    BY <1>2, <2>2, <2>11, <2>14, Zenon
<1> QED
  BY <1>3, <1>4, Zenon

\* Nothing is left of what is set to zero, the rest stays: what is taken off the sum is at
\* most what the elements that are set to zero are worth.
LEMMA TotalCleared ==
    ASSUME NEW H, IsFiniteSet(H), NEW s \in SUBSET H, NEW w, NEW v, NEW u,
           \A x \in H : w[x] \in Nat /\ v[x] \in Nat,
           \A x \in s : w[x] <= v[x],
           \A x \in H : u[x] = IF x \in s THEN 0 ELSE w[x]
    PROVE  /\ Total(w, H) \in Nat /\ Total(v, s) \in Nat /\ Total(u, H) \in Nat
           /\ Total(w, H) - Total(v, s) <= Total(u, H)
<1>1. \A x \in H : u[x] \in Nat
  OBVIOUS
<1>2. PICK r \in SUBSET H : r = H \ s
  BY Zenon
<1>3. /\ Total(w, H) \in Nat /\ Total(v, s) \in Nat /\ Total(u, H) \in Nat
      /\ Total(w, s) \in Nat /\ Total(u, s) \in Nat /\ Total(w, r) \in Nat /\ Total(u, r) \in Nat
  BY <1>1, TotalStep, Zenon
<1>4. Total(w, s) <= Total(v, s)
  BY TotalGrows, Zenon
<1>5. Total(w, r) <= Total(u, r)
  <2>1. \A x \in r : w[x] <= u[x]
    BY <1>2
  <2> QED
    BY <1>1, <2>1, TotalGrows, Zenon
<1>6. Total(w, H) = Total(w, s) + Total(w, r)
  BY <1>2, TotalSplit, Zenon
<1>7. Total(u, H) = Total(u, s) + Total(u, r)
  BY <1>1, <1>2, TotalSplit, Zenon
<1> QED
  BY <1>3, <1>4, <1>5, <1>6, <1>7

\* One more announcement of one block makes the sum at least one larger.
LEMMA TotalIncreased ==
    ASSUME NEW H, IsFiniteSet(H), NEW h \in H, NEW w, NEW u,
           \A x \in H : w[x] \in Nat,
           \A x \in H : u[x] = IF x = h THEN w[x] + 1 ELSE w[x]
    PROVE  /\ Total(w, H) \in Nat
           /\ Total(w, H) + 1 <= Total(u, H)
<1>1. \A x \in H : u[x] \in Nat
  OBVIOUS
<1>2. PICK r \in SUBSET H : r = H \ {h}
  BY Zenon
<1>3. Total(w, H) \in Nat /\ Total(w, r) \in Nat /\ Total(u, r) \in Nat
  BY <1>1, TotalStep, Zenon
<1>4. Total(w, r) <= Total(u, r)
  <2>1. \A x \in r : w[x] <= u[x]
    BY <1>2
  <2> QED
    BY <1>1, <2>1, TotalGrows, Zenon
<1>5. Total(w, H) = w[h] + Total(w, r) /\ Total(u, H) = u[h] + Total(u, r)
  BY <1>1, <1>2, TotalStep
<1> QED
  BY <1>3, <1>4, <1>5


-----------------------------------------------------------------------------
(***************************************************************************)
(* The maps of the fetcher, and the operations on them.                    *)
(***************************************************************************)

Maps == [Hash -> Peer \cup {Nobody}]

Fetchers ==
    [announced : [Hash -> [Peer -> Nat]], announces : [Peer -> Nat],
     fetching : Maps, fetched : Maps, completing : Maps, queued : Maps,
     queue : SUBSET Hash, queues : [Peer -> Nat]]

Count(g, p) == Total([h \in Hash |-> g.announced[h][p]], Hash)

QueuedFor(g, p) == {h \in Hash : g.queued[h] = p}

\* AllowanceKept, for the maps g.
Allowed(g) ==
    \A p \in Peer : /\ g.announces[p] <= Count(g, p)
                    /\ g.queues[p] = Cardinality(QueuedFor(g, p))

\* What forgetHash does to the rest.
Forgot(g, S, r) ==
    /\ r.queued = g.queued /\ r.queue = g.queue /\ r.queues = g.queues
    /\ r.completing = Clear(g.completing, S)

\* What deleting the entries of some blocks leaves of a map.
LEMMA ClearType ==
    ASSUME NEW map \in Maps, NEW S
    PROVE  /\ Clear(map, S) \in Maps
           /\ \A h \in Hash : Clear(map, S)[h] = IF h \in S THEN Nobody ELSE map[h]
BY Zenon DEF Clear, Maps

Weight(g, p) ==
    [h \in Hash |-> g.announced[h][p] + (IF g.fetching[h] = p THEN 1 ELSE 0)
                      + (IF g.fetched[h] = p THEN 1 ELSE 0)
                      + (IF g.completing[h] = p THEN 1 ELSE 0)]

Lowered(g, S, p) ==
    IF g.announces[p] - Decrements(g, S, p) > 0
    THEN g.announces[p] - Decrements(g, S, p) ELSE 0

\* Every field that forgetHash leaves behind.
LEMMA ForgetHashFields ==
    ASSUME NEW g \in Fetchers, NEW S \in SUBSET Hash, NEW r, r = forgetHash(g, S)
    PROVE  /\ r = [announced |-> [h \in Hash |-> [p \in Peer |-> IF h \in S THEN 0
                                                              ELSE g.announced[h][p]]],
                   announces |-> [p \in Peer |-> Lowered(g, S, p)],
                   fetching |-> Clear(g.fetching, S), fetched |-> Clear(g.fetched, S),
                   completing |-> Clear(g.completing, S), queued |-> g.queued,
                   queue |-> g.queue, queues |-> g.queues]
BY ZenonT(30) DEF forgetHash, Lowered, Fetchers

\* The decrements of forgetHash are a sum of weights.
LEMMA DecrementsTotal ==
    ASSUME NEW g, NEW S, NEW p
    PROVE  Decrements(g, S, p) = Total(Weight(g, p), S)
BY Zenon DEF Decrements, Total, Weight


\* Forgetting announcements takes at least as much off the counters as they were charged.
LEMMA ForgetHashKeeps ==
    ASSUME NEW g \in Fetchers, Allowed(g), NEW S \in SUBSET Hash, NEW r, r = forgetHash(g, S)
    PROVE  r \in Fetchers /\ Allowed(r) /\ Forgot(g, S, r)
<1> DEFINE A == [h \in Hash |-> [p \in Peer |-> IF h \in S THEN 0 ELSE g.announced[h][p]]]
           N == [p \in Peer |-> Lowered(g, S, p)]
<1>1. /\ g.announced \in [Hash -> [Peer -> Nat]] /\ g.announces \in [Peer -> Nat]
      /\ g.fetching \in Maps /\ g.fetched \in Maps /\ g.completing \in Maps
      /\ g.queued \in Maps /\ g.queue \in SUBSET Hash /\ g.queues \in [Peer -> Nat]
  BY Zenon DEF Fetchers
<1>2. r = [announced |-> A, announces |-> N,
           fetching |-> Clear(g.fetching, S), fetched |-> Clear(g.fetched, S),
           completing |-> Clear(g.completing, S), queued |-> g.queued,
           queue |-> g.queue, queues |-> g.queues]
  BY ForgetHashFields, Zenon
<1>3. IsFiniteSet(Hash) /\ IsFiniteSet(S)
  BY FetcherAssumption, FS_Subset, Zenon
<1>4. ASSUME NEW p \in Peer
      PROVE  N[p] \in Nat /\ N[p] <= Count(r, p)
  <2>1. PICK w, v, u : /\ w = [h \in Hash |-> g.announced[h][p]] /\ v = Weight(g, p)
                       /\ u = [h \in Hash |-> r.announced[h][p]]
    BY Zenon
  <2>2. \A h \in Hash : w[h] \in Nat /\ v[h] \in Nat /\ w[h] <= v[h]
    <3> SUFFICES ASSUME NEW h \in Hash PROVE w[h] \in Nat /\ v[h] \in Nat /\ w[h] <= v[h]
      BY Zenon
    <3>1. PICK a, b, c, d : /\ a = g.announced[h][p] /\ b = (IF g.fetching[h] = p THEN 1 ELSE 0)
                            /\ c = (IF g.fetched[h] = p THEN 1 ELSE 0)
                            /\ d = (IF g.completing[h] = p THEN 1 ELSE 0)
      BY Zenon
    <3>2. a \in Nat /\ b \in Nat /\ c \in Nat /\ d \in Nat
      BY <1>1, <3>1, Zenon
    <3>3. w[h] = a /\ v[h] = a + b + c + d
      BY <2>1, <3>1, Zenon DEF Weight
    <3> QED
      BY <3>2, <3>3
  <2>3. \A h \in Hash : u[h] = IF h \in S THEN 0 ELSE w[h]
    <3>1. r.announced = A
      BY <1>2
    <3> QED
      BY <2>1, <3>1
  <2>4. /\ Total(w, Hash) \in Nat /\ Total(v, S) \in Nat /\ Total(u, Hash) \in Nat
        /\ Total(w, Hash) - Total(v, S) <= Total(u, Hash)
    BY <1>3, <2>2, <2>3, TotalCleared, Zenon
  <2>5. PICK n, m, k : n = g.announces[p] /\ m = Total(v, S) /\ k = Total(u, Hash)
    BY Zenon
  <2>6. n \in Nat /\ n <= Total(w, Hash)
    <3>1. n <= Count(g, p)
      BY <2>5, Zenon DEF Allowed
    <3>2. Count(g, p) = Total(w, Hash)
      BY <2>1, Zenon DEF Count
    <3> QED
      BY <1>1, <2>5, <3>1, <3>2, Zenon
  <2>7. N[p] = IF n - m > 0 THEN n - m ELSE 0
    BY <2>1, <2>5, DecrementsTotal, Zenon DEF Lowered
  <2>8. Count(r, p) = k
    BY <2>1, <2>5, Zenon DEF Count
  <2> HIDE DEF N
  <2> QED
    BY <2>4, <2>5, <2>6, <2>7, <2>8
<1>5. r \in Fetchers
  <2>1. A \in [Hash -> [Peer -> Nat]]
    BY <1>1, Zenon
  <2>2. N \in [Peer -> Nat]
    BY <1>4, Zenon
  <2> HIDE DEF A, N
  <2> QED
    BY <1>1, <1>2, <2>1, <2>2, ClearType DEF Fetchers
<1>6. Forgot(g, S, r)
  BY <1>2 DEF Forgot
<1>7. \A p \in Peer : r.queues[p] = Cardinality(QueuedFor(r, p))
  <2>1. \A p : QueuedFor(r, p) = QueuedFor(g, p)
    BY <1>6, Zenon DEF Forgot, QueuedFor
  <2> QED
    BY <1>6, <2>1, Zenon DEF Forgot, Allowed
<1>8. r.announces = N
  BY <1>2
<1>9. Allowed(r)
  <2> HIDE DEF N
  <2> QED
    BY <1>4, <1>7, <1>8, Zenon DEF Allowed
<1> QED
  BY <1>5, <1>6, <1>9, Zenon

\* What forgetBlock does to the rest.
Dropped(g, S, r) ==
    /\ r.queued = Clear(g.queued, S) /\ r.queue = g.queue /\ r.completing = g.completing

\* forgetBlock gives back what the dropped blocks were counted for.
LEMMA ForgetBlockKeeps ==
    ASSUME NEW g \in Fetchers, Allowed(g), NEW S \in SUBSET Hash, NEW r, r = forgetBlock(g, S)
    PROVE  r \in Fetchers /\ Allowed(r) /\ Dropped(g, S, r)
<1> DEFINE Q == [p \in Peer |-> g.queues[p] - Cardinality({h \in S : g.queued[h] = p})]
<1>1. /\ g.announced \in [Hash -> [Peer -> Nat]] /\ g.announces \in [Peer -> Nat]
      /\ g.fetching \in Maps /\ g.fetched \in Maps /\ g.completing \in Maps
      /\ g.queued \in Maps /\ g.queue \in SUBSET Hash /\ g.queues \in [Peer -> Nat]
  BY Zenon DEF Fetchers
<1>2. r = [announced |-> g.announced, announces |-> g.announces,
           fetching |-> g.fetching, fetched |-> g.fetched,
           completing |-> g.completing, queued |-> Clear(g.queued, S),
           queue |-> g.queue, queues |-> Q]
  BY Zenon DEF forgetBlock, Fetchers
<1>3. ASSUME NEW p \in Peer PROVE Q[p] \in Nat /\ Q[p] = Cardinality(QueuedFor(r, p))
  <2>1. PICK a, b, c : a = QueuedFor(g, p) /\ b = {h \in S : g.queued[h] = p} /\ c = QueuedFor(r, p)
    BY ZenonT(30)
  <2>2. p # Nobody
    BY FetcherAssumption, Zenon
  <2>3. r.queued = Clear(g.queued, S)
    BY <1>2
  <2>4. c = a \ b /\ b \subseteq a /\ a \in SUBSET Hash
    <3>1. \A h \in Hash : r.queued[h] = IF h \in S THEN Nobody ELSE g.queued[h]
      BY <1>1, <2>3, ClearType
    <3> QED
      BY <2>1, <2>2, <3>1, Zenon DEF QueuedFor
  <2>5. IsFiniteSet(a) /\ IsFiniteSet(b)
    BY <2>4, FetcherAssumption, FS_Subset, Zenon
  <2>6. Cardinality(a \ b) = Cardinality(a) - Cardinality(a \cap b) /\ a \cap b = b
    BY <2>4, <2>5, FS_Difference, Zenon
  <2>7. Cardinality(c) \in Nat
    BY <2>4, <2>5, FS_Subset, FS_CardinalityType, Zenon
  <2>8. g.queues[p] = Cardinality(a)
    BY <2>1, Zenon DEF Allowed
  <2>9. Q[p] = g.queues[p] - Cardinality(b)
    BY <2>1, Zenon
  <2> HIDE DEF Q
  <2> QED
    BY <2>1, <2>4, <2>6, <2>7, <2>8, <2>9, Zenon
<1>4. Q \in [Peer -> Nat]
  BY <1>3, Zenon
<1>5. r \in Fetchers
  <2> HIDE DEF Q
  <2> QED
    BY <1>1, <1>2, <1>4, ClearType DEF Fetchers
<1>6. Dropped(g, S, r)
  BY <1>2 DEF Dropped
<1>7. /\ \A p \in Peer : Count(r, p) = Count(g, p)
      /\ r.announces = g.announces /\ r.queues = Q
  <2>1. r.announced = g.announced /\ r.announces = g.announces /\ r.queues = Q
    BY <1>2
  <2> QED
    BY <2>1, Zenon DEF Count
<1>8. Allowed(r)
  <2> HIDE DEF Q
  <2> QED
    BY <1>3, <1>7, Zenon DEF Allowed
<1> QED
  BY <1>5, <1>6, <1>8, Zenon


\* ImportedOnce for the maps g, with I in import and D waiting to be forgotten.
QueueOK(g, I, D) ==
    /\ g.queue \cup I \cup D = Those(g.queued)
    /\ g.queue \cap I = {} /\ g.queue \cap D = {} /\ I \cap D = {}

\* OnlyLossBlocks for the maps g, with A asked, L lost and the chain C, for all blocks
\* but those in X.
BodyOK(g, X, A, L, C) ==
    \A h \in Those(g.completing) \ X :
        \/ h \in C \cup L \cup Those(g.queued)
        \/ Request("body", g.completing[h], h) \in A

Sane(g) == g \in Fetchers /\ Allowed(g)

Freed(g, S, r) ==
    /\ r.queued = g.queued /\ r.queue = g.queue
    /\ Those(r.completing) = Those(g.completing) \ S
    /\ \A h \in Those(r.completing) : r.completing[h] = g.completing[h]

\* forgetHash keeps the counts right and empties the maps of the blocks.
LEMMA ForgetHashFrees ==
    ASSUME NEW g, Sane(g), NEW S \in SUBSET Hash, NEW r, r = forgetHash(g, S)
    PROVE  Sane(r) /\ Freed(g, S, r)
<1>1. Sane(r) /\ Forgot(g, S, r)
  BY ForgetHashKeeps, Zenon DEF Sane
<1>2. r.queued = g.queued /\ r.queue = g.queue /\ r.completing = Clear(g.completing, S)
  BY <1>1, Zenon DEF Forgot
<1>3. g.completing \in Maps
  BY Zenon DEF Sane, Fetchers
<1>4. \A h \in Hash : r.completing[h] = IF h \in S THEN Nobody ELSE g.completing[h]
  BY <1>2, <1>3, ClearType
<1>5. /\ Those(r.completing) = Those(g.completing) \ S
      /\ \A h \in Those(r.completing) : r.completing[h] = g.completing[h]
  BY <1>4, Zenon DEF Those
<1> QED
  BY <1>1, <1>2, <1>5, Zenon DEF Freed

\* forgetHash keeps the queue and takes blocks out of completing only.
LEMMA ForgetHashOK ==
    ASSUME NEW g, Sane(g), NEW S \in SUBSET Hash, NEW r, r = forgetHash(g, S),
           NEW I, NEW D, QueueOK(g, I, D),
           NEW X, NEW A, NEW L, NEW C, BodyOK(g, X, A, L, C)
    PROVE  /\ Sane(r) /\ QueueOK(r, I, D) /\ BodyOK(r, X, A, L, C)
           /\ Freed(g, S, r)
<1>1. Sane(r) /\ Freed(g, S, r)
  BY ForgetHashFrees, Zenon
<1>2. QueueOK(r, I, D)
  BY <1>1, Zenon DEF QueueOK, Freed
<1>3. BodyOK(r, X, A, L, C)
  BY <1>1, Zenon DEF BodyOK, Freed
<1> QED
  BY <1>1, <1>2, <1>3, Zenon

\* forgetBlock forgets that blocks are queued and leaves them in completing.
LEMMA ForgetBlockOK ==
    ASSUME NEW g, Sane(g), NEW S \in SUBSET Hash, NEW r, r = forgetBlock(g, S)
    PROVE  /\ Sane(r) /\ r.queue = g.queue /\ r.completing = g.completing
           /\ Those(r.queued) = Those(g.queued) \ S
<1>1. Sane(r) /\ Dropped(g, S, r)
  BY ForgetBlockKeeps, Zenon DEF Sane
<1>2. r.queued = Clear(g.queued, S) /\ r.queue = g.queue /\ r.completing = g.completing
  BY <1>1, Zenon DEF Dropped
<1>3. g.queued \in Maps
  BY Zenon DEF Sane, Fetchers
<1>4. \A h \in Hash : r.queued[h] = IF h \in S THEN Nobody ELSE g.queued[h]
  BY <1>2, <1>3, ClearType
<1>5. Those(r.queued) = Those(g.queued) \ S
  BY <1>4, Zenon DEF Those
<1> QED
  BY <1>1, <1>2, <1>5, Zenon

\* A block is queued for a peer.
QueueFor(g, p, h) == [g EXCEPT !.queues[p] = @ + 1, !.queued[h] = p, !.queue = @ \cup {h}]

\* Queuing a block that is not queued counts it for its peer.
LEMMA QueueSane ==
    ASSUME NEW g, Sane(g), NEW p \in Peer, NEW h \in Hash, g.queued[h] = Nobody,
           NEW r, r = QueueFor(g, p, h)
    PROVE  /\ Sane(r) /\ r.queue = g.queue \cup {h} /\ r.completing = g.completing
           /\ Those(r.queued) = Those(g.queued) \cup {h}
<1>1. /\ g \in Fetchers /\ Allowed(g)
      /\ g.announced \in [Hash -> [Peer -> Nat]] /\ g.announces \in [Peer -> Nat]
      /\ g.fetching \in Maps /\ g.fetched \in Maps /\ g.completing \in Maps
      /\ g.queued \in Maps /\ g.queue \in SUBSET Hash /\ g.queues \in [Peer -> Nat]
  BY Zenon DEF Sane, Fetchers
<1>2. PICK Q, M : Q = [g.queues EXCEPT ![p] = @ + 1] /\ M = [g.queued EXCEPT ![h] = p]
  BY Zenon
<1>3. r = [announced |-> g.announced, announces |-> g.announces,
           fetching |-> g.fetching, fetched |-> g.fetched,
           completing |-> g.completing, queued |-> M,
           queue |-> g.queue \cup {h}, queues |-> Q]
  <2>1. PICK g1 : g1 = [g EXCEPT !.queues[p] = @ + 1]
    BY Zenon
  <2>2. PICK g2 : g2 = [g1 EXCEPT !.queued[h] = p]
    BY Zenon
  <2>3. r = [g2 EXCEPT !.queue = @ \cup {h}]
    BY <2>1, <2>2, Zenon DEF QueueFor
  <2>4. g1 = [announced |-> g.announced, announces |-> g.announces,
              fetching |-> g.fetching, fetched |-> g.fetched,
              completing |-> g.completing, queued |-> g.queued,
              queue |-> g.queue, queues |-> Q]
    BY <1>1, <1>2, <2>1, Zenon DEF Fetchers
  <2>5. g2 = [announced |-> g.announced, announces |-> g.announces,
              fetching |-> g.fetching, fetched |-> g.fetched,
              completing |-> g.completing, queued |-> M,
              queue |-> g.queue, queues |-> Q]
    BY <1>2, <2>2, <2>4, Zenon
  <2> QED
    BY <2>3, <2>5, Zenon
<1>4. M \in Maps /\ \A k \in Hash : M[k] = IF k = h THEN p ELSE g.queued[k]
  BY <1>1, <1>2, Zenon DEF Maps
<1>5. Q \in [Peer -> Nat] /\ \A q \in Peer : Q[q] = IF q = p THEN g.queues[q] + 1 ELSE g.queues[q]
  BY <1>1, <1>2
<1>6. /\ r.queue = g.queue \cup {h} /\ r.completing = g.completing /\ r.queued = M
      /\ r.queues = Q /\ r.announced = g.announced /\ r.announces = g.announces
  BY <1>3
<1>7. r \in Fetchers
  BY <1>1, <1>3, <1>4, <1>5 DEF Fetchers
<1>8. p # Nobody
  BY FetcherAssumption, Zenon
<1>9. Those(r.queued) = Those(g.queued) \cup {h}
  BY <1>4, <1>6, <1>8 DEF Those
<1>10. ASSUME NEW q \in Peer PROVE r.queues[q] = Cardinality(QueuedFor(r, q))
  <2>1. PICK a, b : a = QueuedFor(g, q) /\ b = QueuedFor(r, q)
    BY Zenon
  <2>2. g.queues[q] = Cardinality(a)
    BY <1>1, <2>1, Zenon DEF Allowed
  <2>3. CASE q # p
    <3>1. b = a
      BY <1>4, <1>6, <1>8, <2>1, <2>3, FetcherAssumption, Zenon DEF QueuedFor
    <3> QED
      BY <1>5, <1>6, <2>1, <2>2, <2>3, <3>1, Zenon
  <2>4. CASE q = p
    <3>1. b = a \cup {h} /\ h \notin a /\ a \subseteq Hash
      BY <1>4, <1>6, <1>8, <2>1, <2>4 DEF QueuedFor
    <3>2. IsFiniteSet(a)
      BY <3>1, FetcherAssumption, FS_Subset, Zenon
    <3>3. Cardinality(b) = Cardinality(a) + 1
      BY <3>1, <3>2, FS_AddElement, Zenon
    <3> QED
      BY <1>5, <1>6, <2>1, <2>2, <2>4, <3>3, Zenon
  <2> QED
    BY <2>3, <2>4, Zenon
<1>11. \A q \in Peer : r.announces[q] <= Count(r, q)
  BY <1>1, <1>6, Zenon DEF Allowed, Count
<1>12. Allowed(r)
  BY <1>10, <1>11, Zenon DEF Allowed
<1> QED
  BY <1>6, <1>7, <1>9, <1>12, Zenon DEF Sane

\* enqueue: afterwards the block is queued, or no longer among those to be completed.
LEMMA EnqueueOK ==
    ASSUME NEW g, Sane(g), NEW p \in Peer, NEW h \in Hash, NEW r, r = enqueue(g, p, h),
           NEW I, NEW D, QueueOK(g, I, D),
           NEW X, NEW A, NEW L, NEW C, BodyOK(g, X, A, L, C)
    PROVE  Sane(r) /\ QueueOK(r, I, D) /\ BodyOK(r, X \ {h}, A, L, C)
<1>1. CASE g.queues[p] + 1 > BlockLimit \/ TooFar(Number[h])
  <2>1. r = forgetHash(g, {h})
    BY <1>1, Zenon DEF enqueue
  <2>2. Sane(r) /\ QueueOK(r, I, D) /\ BodyOK(r, X, A, L, C) /\ Freed(g, {h}, r)
    BY <2>1, ForgetHashOK, Zenon
  <2>3. BodyOK(r, X \ {h}, A, L, C)
    BY <2>2, Zenon DEF BodyOK, Freed
  <2> QED
    BY <2>2, <2>3, Zenon
<1>2. CASE ~(g.queues[p] + 1 > BlockLimit \/ TooFar(Number[h])) /\ g.queued[h] # Nobody
  <2>1. r = g
    BY <1>2, Zenon DEF enqueue
  <2>2. h \in Those(g.queued)
    BY <1>2, Zenon DEF Those
  <2>3. BodyOK(r, X \ {h}, A, L, C)
    BY <2>1, <2>2, Zenon DEF BodyOK
  <2> QED
    BY <2>1, <2>3, Zenon
<1>3. CASE ~(g.queues[p] + 1 > BlockLimit \/ TooFar(Number[h])) /\ g.queued[h] = Nobody
  <2>1. r = QueueFor(g, p, h)
    BY <1>3, Zenon DEF enqueue, QueueFor
  <2>2. /\ Sane(r) /\ r.queue = g.queue \cup {h} /\ r.completing = g.completing
        /\ Those(r.queued) = Those(g.queued) \cup {h}
    BY <1>3, <2>1, QueueSane
  <2>3. h \notin Those(g.queued)
    BY <1>3, Zenon DEF Those
  <2>4. QueueOK(r, I, D)
    BY <2>2, <2>3 DEF QueueOK
  <2>5. BodyOK(r, X \ {h}, A, L, C)
    BY <2>2, Zenon DEF BodyOK
  <2> QED
    BY <2>2, <2>4, <2>5, Zenon
<1> QED
  BY <1>1, <1>2, <1>3, Zenon


\* More requests, more losses and a longer chain excuse no less.
LEMMA BodyGrows ==
    ASSUME NEW g, NEW X, NEW A, NEW L, NEW C, BodyOK(g, X, A, L, C),
           NEW A2, NEW L2, NEW C2, A \subseteq A2, L \subseteq L2, C \subseteq C2
    PROVE  BodyOK(g, X, A2, L2, C2)
BY Zenon DEF BodyOK

\* The loop of a delivery.
DeliverBody(g, p, order, a, i) == IF i = 0 THEN g ELSE enqueue(a[i - 1], p, order[i])

Delivers(g, p, order, n, a) == a = [i \in 0 .. n |-> DeliverBody(g, p, order, a, i)]

\* The loop of deliver has a result after every round.
LEMMA DeliverExists ==
    ASSUME NEW g, NEW p, NEW order, NEW n \in Nat
    PROVE  \E a : Delivers(g, p, order, n, a)
<1> USE DEF Delivers
<1> DEFINE Failing == {k \in Nat : ~ \E a : a = [i \in 0 .. k |-> DeliverBody(g, p, order, a, i)]}
<1> SUFFICES ASSUME Failing # {} PROVE FALSE
  BY Zenon
<1>1. PICK k \in Failing : \A j \in Failing : k <= j
  <2>1. Failing \in SUBSET Nat
    BY Zenon
  <2> HIDE DEF Failing
  <2> QED
    BY <2>1, LeastNumber, Zenon
<1>2. CASE k = 0
  <2> DEFINE a == [i \in 0 .. 0 |-> g]
  <2>1. a = [i \in 0 .. 0 |-> DeliverBody(g, p, order, a, i)]
    BY DEF DeliverBody
  <2> QED
    BY <1>1, <1>2, <2>1, Zenon
<1>3. CASE k # 0
  <2>1. k - 1 \in Nat /\ k - 1 \notin Failing
    BY <1>1, <1>3
  <2>2. PICK b : b = [i \in 0 .. k - 1 |-> DeliverBody(g, p, order, b, i)]
    BY <2>1, Zenon
  <2> DEFINE a == [i \in 0 .. k |-> IF i = k THEN DeliverBody(g, p, order, b, k) ELSE b[i]]
  <2>3. \A i \in 0 .. k : a[i] = DeliverBody(g, p, order, a, i)
    <3> TAKE i \in 0 .. k
    <3>1. i # 0 => i - 1 \in 0 .. k - 1 /\ a[i - 1] = b[i - 1]
      BY <1>1
    <3>2. DeliverBody(g, p, order, a, i) = DeliverBody(g, p, order, b, i)
      <4> HIDE DEF a
      <4> QED
        BY <3>1, Zenon DEF DeliverBody
    <3>3. a[i] = IF i = k THEN DeliverBody(g, p, order, b, k) ELSE b[i]
      BY Zenon
    <3>4. i # k => b[i] = DeliverBody(g, p, order, b, i)
      <4>1. i # k => i \in 0 .. k - 1
        BY <1>1
      <4> QED
        BY <2>2, <4>1, Zenon
    <3> HIDE DEF a
    <3> QED
      BY <3>2, <3>3, <3>4, Zenon
  <2>4. a = [i \in 0 .. k |-> DeliverBody(g, p, order, a, i)]
    <3>1. a = [i \in 0 .. k |-> a[i]]
      BY Zenon
    <3> HIDE DEF a
    <3> QED
      BY <2>3, <3>1, Zenon
  <2> HIDE DEF a
  <2> QED
    BY <1>1, <2>4, Zenon
<1> QED
  BY <1>2, <1>3, Zenon

\* An order of a finite set meets all its elements.
LEMMA OrderOf ==
    ASSUME NEW S, IsFiniteSet(S), NEW order \in Orders(S)
    PROVE  /\ Len(order) \in Nat
           /\ \A i \in 1 .. Len(order) : order[i] \in S
           /\ \A x \in S : \E i \in 1 .. Len(order) : order[i] = x
<1>1. PICK n : n = Cardinality(S)
  BY Zenon
<1>2. n \in Nat
  BY <1>1, FS_CardinalityType, Zenon
<1>3. order \in Injection(1 .. n, S)
  BY <1>1, Zenon DEF Orders
<1>4. order \in [1 .. n -> S]
  BY <1>3, Zenon DEF Injection
<1>5. Len(order) = n
  BY <1>2, <1>4
<1>6. Cardinality(1 .. n) = n
  BY <1>2, FS_Interval
<1>7. order \in Surjection(1 .. n, S)
  BY <1>1, <1>3, <1>6, FS_Injection, Zenon
<1>8. \A x \in S : \E i \in 1 .. n : order[i] = x
  BY <1>7, Zenon DEF Surjection
<1> QED
  BY <1>2, <1>4, <1>5, <1>8, Zenon

\* After BodyFilter has queued the completed blocks, in any order, each of them is queued or
\* forgotten: none needs to be excused any more.
LEMMA DeliverOK ==
    ASSUME NEW g, Sane(g), NEW p \in Peer, NEW S \in SUBSET Hash,
           NEW order \in Orders(S),
           NEW r, r = deliver(g, p, order),
           NEW I, NEW D, QueueOK(g, I, D),
           NEW A, NEW L, NEW C, BodyOK(g, S, A, L, C)
    PROVE  Sane(r) /\ QueueOK(r, I, D) /\ BodyOK(r, {}, A, L, C)
<1>1. IsFiniteSet(S)
  BY FetcherAssumption, FS_Subset, Zenon
<1>2. PICK n \in Nat : n = Len(order)
  BY <1>1, OrderOf, Zenon
<1>3. /\ \A i \in 1 .. n : order[i] \in S
      /\ \A x \in S : \E i \in 1 .. n : order[i] = x
  BY <1>1, <1>2, OrderOf
<1> DEFINE after == CHOOSE e : Delivers(g, p, order, n, e)
<1>4. r = after[n]
  BY <1>2, Zenon DEF Delivers, DeliverBody, deliver
<1>5. Delivers(g, p, order, n, after)
  <2>1. PICK b : Delivers(g, p, order, n, b)
    BY DeliverExists, Zenon
  <2> QED
    BY <2>1, Zenon
<1>6. PICK a : a = after
  BY Zenon
<1> HIDE DEF after
<1>7. \A i \in 0 .. n : a[i] = IF i = 0 THEN g ELSE enqueue(a[i - 1], p, order[i])
  BY <1>5, <1>6, Zenon DEF DeliverBody, Delivers
<1> DEFINE Left(i) == {x \in S : \A j \in 1 .. i : order[j] # x}
           Good(i) == /\ Sane(a[i]) /\ QueueOK(a[i], I, D)
                      /\ BodyOK(a[i], Left(i), A, L, C)
           Failing == {i \in 0 .. n : ~Good(i)}
<1>8. Failing = {}
  <2> SUFFICES ASSUME Failing # {} PROVE FALSE
    BY Zenon
  <2>1. PICK k \in Failing : \A j \in Failing : k <= j
    <3>1. Failing \in SUBSET Nat
      OBVIOUS
    <3> HIDE DEF Failing
    <3> QED
      BY <3>1, LeastNumber, Zenon
  <2>2. k \in 0 .. n /\ ~Good(k)
    BY Zenon
  <2>3. CASE k = 0
    <3>1. Left(0) = S
      OBVIOUS
    <3>2. a[0] = g
      BY <1>7
    <3>3. Good(0)
      <4> HIDE DEF Left
      <4> QED
        BY <3>1, <3>2, Zenon
    <3> QED
      BY <2>2, <2>3, <3>3, Zenon
  <2>4. CASE k # 0
    <3>1. k - 1 \in 0 .. n /\ k \in 1 .. n
      BY <2>2, <2>4
    <3>2. k - 1 \notin Failing
      <4>1. ~(k <= k - 1)
        BY <3>1
      <4> HIDE DEF Failing
      <4> QED
        BY <2>1, <4>1, Zenon
    <3>3. Good(k - 1)
      BY <3>1, <3>2, Zenon
    <3>4. PICK b, c, h, X : b = a[k - 1] /\ c = a[k] /\ h = order[k] /\ X = Left(k - 1)
      BY ZenonT(30)
    <3>5. Sane(b) /\ QueueOK(b, I, D) /\ BodyOK(b, X, A, L, C)
      BY <3>3, <3>4, Zenon
    <3>6. c = enqueue(b, p, h) /\ h \in Hash
      BY <1>3, <1>7, <2>4, <3>1, <3>4, Zenon
    <3>7. Sane(c) /\ QueueOK(c, I, D) /\ BodyOK(c, X \ {h}, A, L, C)
      BY <3>5, <3>6, EnqueueOK, Zenon
    <3>8. X \ {h} = Left(k)
      BY <3>1, <3>4
    <3> QED
      BY <2>2, <3>4, <3>7, <3>8, Zenon
  <2> QED
    BY <2>3, <2>4, Zenon
<1>9. Good(n)
  <2>1. n \in 0 .. n
    OBVIOUS
  <2> HIDE DEF Good
  <2> QED
    BY <1>8, <2>1, Zenon
<1>10. Left(n) = {}
  BY <1>3, Zenon
<1> QED
  BY <1>4, <1>6, <1>9, <1>10, Zenon


\* The charges only depend on four of the maps.
LEMMA SameCharges ==
    ASSUME NEW g, Sane(g), NEW r \in Fetchers,
           r.announced = g.announced, r.announces = g.announces,
           r.queued = g.queued, r.queues = g.queues
    PROVE  Sane(r)
BY Zenon DEF Sane, Allowed, Count, QueuedFor

\* Taking blocks out of the queue changes no count.
LEMMA CutQueue ==
    ASSUME NEW g, Sane(g), NEW S, NEW r, r = [g EXCEPT !.queue = @ \ S]
    PROVE  /\ Sane(r) /\ r.queue = g.queue \ S
           /\ r.queued = g.queued /\ r.completing = g.completing
<1>1. g \in Fetchers
  BY Zenon DEF Sane
<1>2. /\ r \in Fetchers /\ r.queue = g.queue \ S
      /\ r.queued = g.queued /\ r.completing = g.completing
      /\ r.announced = g.announced /\ r.announces = g.announces /\ r.queues = g.queues
  BY <1>1, Zenon DEF Fetchers
<1> QED
  BY <1>2, SameCharges, Zenon

\* Moving announcements to fetching changes no count.
LEMMA SetFetching ==
    ASSUME NEW g, Sane(g), NEW M \in Maps, NEW r, r = [g EXCEPT !.fetching = M]
    PROVE  /\ Sane(r) /\ r.queue = g.queue
           /\ r.queued = g.queued /\ r.completing = g.completing
<1>1. g \in Fetchers
  BY Zenon DEF Sane
<1>2. /\ r \in Fetchers /\ r.queue = g.queue
      /\ r.queued = g.queued /\ r.completing = g.completing
      /\ r.announced = g.announced /\ r.announces = g.announces /\ r.queues = g.queues
  BY <1>1, Zenon DEF Fetchers
<1> QED
  BY <1>2, SameCharges, Zenon

\* Moving announcements to fetched changes no count.
LEMMA SetFetched ==
    ASSUME NEW g, Sane(g), NEW M \in Maps, NEW r, r = [g EXCEPT !.fetched = M]
    PROVE  /\ Sane(r) /\ r.queue = g.queue
           /\ r.queued = g.queued /\ r.completing = g.completing
<1>1. g \in Fetchers
  BY Zenon DEF Sane
<1>2. /\ r \in Fetchers /\ r.queue = g.queue
      /\ r.queued = g.queued /\ r.completing = g.completing
      /\ r.announced = g.announced /\ r.announces = g.announces /\ r.queues = g.queues
  BY <1>1, Zenon DEF Fetchers
<1> QED
  BY <1>2, SameCharges, Zenon

\* Moving announcements to completing changes no count.
LEMMA SetCompleting ==
    ASSUME NEW g, Sane(g), NEW M \in Maps, NEW r, r = [g EXCEPT !.completing = M]
    PROVE  /\ Sane(r) /\ r.queue = g.queue
           /\ r.queued = g.queued /\ r.completing = M
<1>1. g \in Fetchers
  BY Zenon DEF Sane
<1>2. /\ r \in Fetchers /\ r.queue = g.queue
      /\ r.queued = g.queued /\ r.completing = M
      /\ r.announced = g.announced /\ r.announces = g.announces /\ r.queues = g.queues
  BY <1>1, Zenon DEF Fetchers
<1> QED
  BY <1>2, SameCharges, ZenonT(30)

\* What the bookkeeping of the fetcher keeps, whatever arrives in whatever order.
FetcherInv ==
    /\ Sane(f)
    /\ QueueOK(f, importing, done)
    /\ BodyOK(f, {}, asked, lost, chain)

\* A new fetcher has counted nothing.
LEMMA InitOK == FetcherInit => FetcherInv
<1> SUFFICES ASSUME FetcherInit PROVE FetcherInv
  BY Zenon
<1>1. f \in Fetchers
  BY Zenon DEF FetcherInit, Fetchers, Maps
<1>2. Those(f.queued) = {} /\ Those(f.completing) = {}
  BY Zenon DEF FetcherInit, Those
<1>3. ASSUME NEW p \in Peer
      PROVE  f.announces[p] <= Count(f, p) /\ f.queues[p] = Cardinality(QueuedFor(f, p))
  <2>1. PICK w : w = [h \in Hash |-> f.announced[h][p]]
    BY ZenonT(30)
  <2>2. \A h \in Hash : w[h] \in Nat
    BY <1>1, <2>1, Zenon DEF Fetchers
  <2>3. Total(w, Hash) \in Nat
    BY <2>2, FetcherAssumption, TotalStep, Zenon
  <2>4. Count(f, p) = Total(w, Hash)
    BY <2>1, Zenon DEF Count
  <2>5. QueuedFor(f, p) = {}
    BY FetcherAssumption, Zenon DEF QueuedFor, FetcherInit
  <2>6. f.announces[p] = 0 /\ f.queues[p] = 0
    BY Zenon DEF FetcherInit
  <2> QED
    BY <2>3, <2>4, <2>5, <2>6, FS_EmptySet
<1>4. Sane(f)
  BY <1>1, <1>3, Zenon DEF Sane, Allowed
<1>5. QueueOK(f, importing, done)
  BY <1>2, Zenon DEF QueueOK, FetcherInit
<1>6. BodyOK(f, {}, asked, lost, chain)
  BY <1>2, Zenon DEF BodyOK
<1> QED
  BY <1>4, <1>5, <1>6, Zenon DEF FetcherInv

\* What is queued or in import is a block.
LEMMA QueueInHash ==
    ASSUME NEW g, NEW I, NEW D, QueueOK(g, I, D)
    PROVE  g.queue \in SUBSET Hash /\ I \in SUBSET Hash /\ D \in SUBSET Hash
BY Zenon DEF QueueOK, Those


\* The top of loop: expired fetches are forgotten and the queue is emptied into imports.
LEMMA TopOK == FetcherInv /\ Top => FetcherInv'
<1> SUFFICES ASSUME FetcherInv, Top PROVE FetcherInv'
  BY Zenon
<1>1. PICK expired \in SUBSET Those(f.fetching) :
        LET g == forgetHash(f, expired)
            ripe == {h \in g.queue : Number[h] <= Height + 1}
            old == {h \in ripe : Number[h] + MaxUncleDist < Height}
            stale == old \cup (ripe \cap chain)
        IN  /\ f' = [forgetBlock(g, stale) EXCEPT !.queue = @ \ ripe]
            /\ importing' = importing \cup (ripe \ stale)
            /\ lost' = lost \cup old
  BY Zenon DEF Top
<1>2. PICK g : g = forgetHash(f, expired)
  BY Zenon
<1>3. PICK ripe, old :
        /\ ripe = {h \in g.queue : Number[h] <= Height + 1}
        /\ old = {h \in ripe : Number[h] + MaxUncleDist < Height}
  BY Zenon
<1>4. PICK stale : stale = old \cup (ripe \cap chain)
  BY Zenon
<1>5. PICK k : k = forgetBlock(g, stale)
  BY Zenon
<1>6. /\ f' = [k EXCEPT !.queue = @ \ ripe]
      /\ importing' = importing \cup (ripe \ stale)
      /\ lost' = lost \cup old
  BY <1>1, <1>2, <1>3, <1>4, <1>5, Zenon
<1>7. done' = done /\ chain' = chain /\ asked' = asked
  BY Zenon DEF Top, chainVars
<1>8. expired \in SUBSET Hash
  BY Zenon DEF Those
<1>9. Sane(g) /\ QueueOK(g, importing, done) /\ BodyOK(g, {}, asked, lost, chain)
  BY <1>2, <1>8, ForgetHashOK, Zenon DEF FetcherInv
<1>10. ripe \subseteq g.queue /\ stale \subseteq ripe /\ old \subseteq stale /\ stale \ old \subseteq chain
  BY <1>3, <1>4, Zenon
<1>11. stale \in SUBSET Hash
  BY <1>9, <1>10, QueueInHash, Zenon
<1>12. /\ Sane(k) /\ k.queue = g.queue /\ k.completing = g.completing
       /\ Those(k.queued) = Those(g.queued) \ stale
  BY <1>5, <1>9, <1>11, ForgetBlockOK, Zenon
<1>13. /\ Sane(f') /\ f'.queue = k.queue \ ripe
       /\ f'.queued = k.queued /\ f'.completing = k.completing
  BY <1>6, <1>12, CutQueue
<1>14. QueueOK(f', importing', done')
  <2>1. /\ f'.queue = g.queue \ ripe /\ Those(f'.queued) = Those(g.queued) \ stale
    BY <1>12, <1>13, Zenon
  <2>2. /\ g.queue \cup importing \cup done = Those(g.queued)
        /\ g.queue \cap importing = {} /\ g.queue \cap done = {} /\ importing \cap done = {}
    BY <1>9, Zenon DEF QueueOK
  <2>3. /\ f'.queue \cup importing' \cup done' = Those(f'.queued)
        /\ f'.queue \cap importing' = {} /\ f'.queue \cap done' = {}
        /\ importing' \cap done' = {}
    BY <1>6, <1>7, <1>10, <2>1, <2>2, Zenon
  <2> QED
    BY <2>3, Zenon DEF QueueOK
<1>15. BodyOK(f', {}, asked', lost', chain')
  <2> SUFFICES ASSUME NEW h \in Those(f'.completing) \ {}
               PROVE  \/ h \in chain' \cup lost' \cup Those(f'.queued)
                      \/ Request("body", f'.completing[h], h) \in asked'
    BY Zenon DEF BodyOK
  <2>1. f'.completing = g.completing /\ Those(f'.queued) = Those(g.queued) \ stale
    BY <1>12, <1>13, Zenon
  <2>2. \/ h \in chain \cup lost \cup Those(g.queued)
        \/ Request("body", g.completing[h], h) \in asked
    BY <1>9, <2>1, Zenon DEF BodyOK
  <2> QED
    BY <1>6, <1>7, <1>10, <2>1, <2>2
<1> QED
  BY <1>13, <1>14, <1>15, Zenon DEF FetcherInv

\* A propagated block arrives.
LEMMA EnqueueKeeps ==
    ASSUME FetcherInv, NEW p \in Peer, NEW h \in Hash, Enqueue(p, h)
    PROVE  FetcherInv'
<1>1. f' = enqueue(f, p, h)
  BY Zenon DEF Enqueue
<1>2. importing' = importing /\ done' = done /\ chain' = chain /\ asked' = asked /\ lost' = lost
  BY Zenon DEF Enqueue, chainVars
<1>3. Sane(f') /\ QueueOK(f', importing, done) /\ BodyOK(f', {} \ {h}, asked, lost, chain)
  BY <1>1, EnqueueOK, Zenon DEF FetcherInv
<1>4. {} \ {h} = {}
  BY Zenon
<1> QED
  BY <1>2, <1>3, <1>4, Zenon DEF FetcherInv

\* An import is done: both forgets are called.
LEMMA DoneOK == ASSUME FetcherInv, NEW h \in Hash, Done(h) PROVE FetcherInv'
<1>1. PICK g : g = forgetHash(f, {h})
  BY Zenon
<1>2. f' = forgetBlock(g, {h}) /\ h \in done
  BY <1>1, Zenon DEF Done
<1>3. /\ importing' = importing /\ done' = done \ {h} /\ chain' = chain
      /\ asked' = asked /\ lost' = lost
  BY Zenon DEF Done, chainVars
<1>4. {h} \in SUBSET Hash
  BY Zenon
<1>5. /\ Sane(g) /\ QueueOK(g, importing, done) /\ BodyOK(g, {}, asked, lost, chain)
      /\ Freed(f, {h}, g)
  BY <1>1, <1>4, ForgetHashOK, Zenon DEF FetcherInv
<1>6. /\ Sane(f') /\ f'.queue = g.queue /\ f'.completing = g.completing
      /\ Those(f'.queued) = Those(g.queued) \ {h}
  BY <1>2, <1>4, <1>5, ForgetBlockOK, Zenon
<1>7. QueueOK(f', importing', done')
  <2>1. /\ g.queue \cup importing \cup done = Those(g.queued)
        /\ g.queue \cap importing = {} /\ g.queue \cap done = {} /\ importing \cap done = {}
    BY <1>5, Zenon DEF QueueOK
  <2>2. /\ f'.queue \cup importing' \cup done' = Those(f'.queued)
        /\ f'.queue \cap importing' = {} /\ f'.queue \cap done' = {}
        /\ importing' \cap done' = {}
    BY <1>2, <1>3, <1>6, <2>1, ZenonT(30)
  <2> QED
    BY <2>2, Zenon DEF QueueOK
<1>8. BodyOK(f', {}, asked', lost', chain')
  <2> SUFFICES ASSUME NEW x \in Those(f'.completing) \ {}
               PROVE  \/ x \in chain' \cup lost' \cup Those(f'.queued)
                      \/ Request("body", f'.completing[x], x) \in asked'
    BY Zenon DEF BodyOK
  <2>1. \/ x \in chain \cup lost \cup Those(g.queued)
        \/ Request("body", g.completing[x], x) \in asked
    BY <1>5, <1>6, Zenon DEF BodyOK
  <2>2. x # h
    BY <1>5, <1>6, Zenon DEF Freed
  <2> QED
    BY <1>3, <1>6, <2>1, <2>2, Zenon
<1> QED
  BY <1>6, <1>7, <1>8, Zenon DEF FetcherInv


Announce(g, p, h) == [g EXCEPT !.announces[p] = @ + 1, !.announced[h][p] = @ + 1]

\* An announcement is charged to its peer and scheduled for it.
LEMMA AnnounceSane ==
    ASSUME NEW g, Sane(g), NEW p \in Peer, NEW h \in Hash, NEW r, r = Announce(g, p, h)
    PROVE  /\ Sane(r) /\ r.queue = g.queue
           /\ r.queued = g.queued /\ r.completing = g.completing
<1>1. /\ g \in Fetchers /\ Allowed(g)
      /\ g.announced \in [Hash -> [Peer -> Nat]] /\ g.announces \in [Peer -> Nat]
  BY Zenon DEF Sane, Fetchers
<1>2. PICK N, A, R : /\ N = [g.announces EXCEPT ![p] = @ + 1]
                     /\ R = [g.announced[h] EXCEPT ![p] = @ + 1]
                     /\ A = [g.announced EXCEPT ![h] = R]
  BY Zenon
<1>3. r = [announced |-> A, announces |-> N, fetching |-> g.fetching, fetched |-> g.fetched,
           completing |-> g.completing, queued |-> g.queued, queue |-> g.queue,
           queues |-> g.queues]
  BY <1>1, <1>2, ZenonT(30) DEF Announce, Fetchers
<1>4. R \in [Peer -> Nat] /\ R[p] = g.announced[h][p] + 1
      /\ \A q \in Peer : q # p => R[q] = g.announced[h][q]
  BY <1>1, <1>2
<1>5. A \in [Hash -> [Peer -> Nat]] /\ A[h] = R /\ \A x \in Hash : x # h => A[x] = g.announced[x]
  BY <1>1, <1>2, <1>4, Zenon
<1>6. N \in [Peer -> Nat] /\ N[p] = g.announces[p] + 1
      /\ \A q \in Peer : q # p => N[q] = g.announces[q]
  BY <1>1, <1>2
<1>7. r \in Fetchers
  BY <1>1, <1>3, <1>5, <1>6 DEF Fetchers
<1>8. /\ r.announced = A /\ r.announces = N /\ r.queue = g.queue /\ r.queues = g.queues
      /\ r.queued = g.queued /\ r.completing = g.completing
  BY <1>3
<1>9. ASSUME NEW q \in Peer
      PROVE  /\ r.announces[q] <= Count(r, q)
             /\ r.queues[q] = Cardinality(QueuedFor(r, q))
  <2>1. g.announces[q] <= Count(g, q) /\ g.queues[q] = Cardinality(QueuedFor(g, q))
    BY <1>1, Zenon DEF Allowed
  <2>2. QueuedFor(r, q) = QueuedFor(g, q)
    BY <1>8, Zenon DEF QueuedFor
  <2>3. PICK w, u : w = [x \in Hash |-> g.announced[x][q]] /\ u = [x \in Hash |-> A[x][q]]
    BY ZenonT(30)
  <2>4. Count(g, q) = Total(w, Hash) /\ Count(r, q) = Total(u, Hash)
    BY <1>8, <2>3, Zenon DEF Count
  <2>5. \A x \in Hash : w[x] \in Nat
    BY <1>1, <2>3, Zenon
  <2>6. CASE q = p
    <3>1. \A x \in Hash : u[x] = IF x = h THEN w[x] + 1 ELSE w[x]
      BY <1>4, <1>5, <2>3, <2>6, Zenon
    <3>2. Total(w, Hash) \in Nat /\ Total(w, Hash) + 1 <= Total(u, Hash)
      BY <2>5, <3>1, FetcherAssumption, TotalIncreased, Zenon
    <3>3. Total(u, Hash) \in Nat
      <4>1. \A x \in Hash : u[x] \in Nat
        BY <2>5, <3>1
      <4> QED
        BY <4>1, FetcherAssumption, TotalStep, Zenon
    <3>4. PICK a, b, c : a = Total(w, Hash) /\ b = Total(u, Hash) /\ c = g.announces[p]
      BY Zenon
    <3>5. a \in Nat /\ b \in Nat /\ c \in Nat /\ a + 1 <= b /\ c <= a
      BY <1>1, <2>1, <2>4, <2>6, <3>2, <3>3, <3>4, Zenon
    <3>6. r.announces[q] = c + 1 /\ Count(r, q) = b
      BY <1>6, <1>8, <2>4, <2>6, <3>4, Zenon
    <3> QED
      BY <1>8, <2>1, <2>2, <3>5, <3>6
  <2>7. CASE q # p
    <3>1. \A x \in Hash : A[x][q] = g.announced[x][q]
      BY <1>4, <1>5, <2>7, Zenon
    <3>2. u = w
      BY <2>3, <3>1, Zenon
    <3> QED
      BY <1>6, <1>8, <2>1, <2>2, <2>4, <2>7, <3>2, Zenon
  <2> QED
    BY <2>6, <2>7, Zenon
<1> QED
  BY <1>7, <1>8, <1>9, Zenon DEF Sane, Allowed

\* The queue and the bodies only depend on three of the maps.
LEMMA SameQueue ==
    ASSUME NEW g, NEW r, r.queue = g.queue, r.queued = g.queued, r.completing = g.completing,
           NEW I, NEW D, QueueOK(g, I, D),
           NEW X, NEW A, NEW L, NEW C, BodyOK(g, X, A, L, C)
    PROVE  QueueOK(r, I, D) /\ BodyOK(r, X, A, L, C)
BY Zenon DEF QueueOK, BodyOK

\* An announcement arrives.
LEMMA NotifyOK == ASSUME FetcherInv, NEW p \in Peer, NEW h \in Hash, Notify(p, h) PROVE FetcherInv'
<1>1. importing' = importing /\ done' = done /\ chain' = chain /\ asked' = asked /\ lost' = lost
  BY Zenon DEF Notify, chainVars
<1>2. f' = f \/ f' = Announce(f, p, h)
  BY Zenon DEF Notify, Announce
<1>3. CASE f' = f
  BY <1>1, <1>3, Zenon DEF FetcherInv
<1>4. CASE f' = Announce(f, p, h)
  <2>1. /\ Sane(f') /\ f'.queue = f.queue /\ f'.queued = f.queued
        /\ f'.completing = f.completing
    BY <1>4, AnnounceSane DEF FetcherInv
  <2>2. QueueOK(f', importing, done) /\ BodyOK(f', {}, asked, lost, chain)
    BY <2>1, SameQueue, Zenon DEF FetcherInv
  <2> QED
    BY <1>1, <2>1, <2>2, Zenon DEF FetcherInv
<1> QED
  BY <1>2, <1>3, <1>4, Zenon


\* Announcements are forgotten and, unless known, fetched.
LEMMA FetchTimerOK == ASSUME FetcherInv, NEW due \in SUBSET Hash, FetchTimer(due) PROVE FetcherInv'
<1>1. PICK from \in [due -> Peer] :
        LET g == forgetHash(f, due)
            wanted == due \ chain
        IN  /\ f' = [g EXCEPT !.fetching = [h \in Hash |-> IF h \in wanted THEN from[h] ELSE @[h]]]
            /\ asked' = asked \cup {Request("header", from[h], h) :
                                      h \in {k \in wanted : from[k] \in peers}}
  BY Zenon DEF FetchTimer
<1>2. PICK g : g = forgetHash(f, due)
  BY Zenon
<1>3. PICK M : M = [h \in Hash |-> IF h \in due \ chain THEN from[h] ELSE g.fetching[h]]
  BY Zenon
<1>4. /\ Sane(g) /\ QueueOK(g, importing, done) /\ BodyOK(g, {}, asked, lost, chain)
  BY <1>2, ForgetHashOK, Zenon DEF FetcherInv
<1>5. f' = [g EXCEPT !.fetching = M]
  BY <1>1, <1>2, <1>3, <1>4, Zenon DEF Sane, Fetchers
<1>6. M \in Maps
  BY <1>3, <1>4, Zenon DEF Maps, Sane, Fetchers
<1>7. asked \subseteq asked' /\ importing' = importing /\ done' = done /\ chain' = chain /\ lost' = lost
  <2>1. asked \subseteq asked'
    BY <1>1, Zenon
  <2> QED
    BY <2>1, Zenon DEF FetchTimer, chainVars
<1>8. /\ Sane(f') /\ f'.queue = g.queue /\ f'.queued = g.queued
      /\ f'.completing = g.completing
  BY <1>4, <1>5, <1>6, SetFetching
<1>9. QueueOK(f', importing, done) /\ BodyOK(f', {}, asked, lost, chain)
  BY <1>4, <1>8, SameQueue, Zenon
<1>10. BodyOK(f', {}, asked', lost, chain)
  BY <1>7, <1>9, BodyGrows, Zenon
<1> QED
  BY <1>7, <1>8, <1>9, <1>10, Zenon DEF FetcherInv

\* Fetched headers are forgotten and, unless known, completed: their bodies are asked for.
LEMMA CompleteTimerOK == FetcherInv /\ CompleteTimer => FetcherInv'
<1> SUFFICES ASSUME FetcherInv, CompleteTimer PROVE FetcherInv'
  BY Zenon
<1>1. PICK all, from : all = Those(f.fetched) /\ from = f.fetched
  BY Zenon
<1>2. PICK g : g = forgetHash(f, all)
  BY Zenon
<1>3. PICK wanted : wanted = all \ chain
  BY Zenon
<1>4. PICK M : M = [h \in Hash |-> IF h \in wanted THEN from[h] ELSE g.completing[h]]
  BY ZenonT(30)
<1>5. /\ f' = [g EXCEPT !.completing = [h \in Hash |-> IF h \in wanted THEN from[h] ELSE @[h]]]
      /\ asked' = asked \cup {Request("body", from[h], h) : h \in {k \in wanted : from[k] \in peers}}
      /\ lost' = lost \cup {h \in wanted : from[h] \notin peers}
      /\ importing' = importing /\ done' = done /\ chain' = chain
  BY <1>1, <1>2, <1>3, Zenon DEF CompleteTimer, chainVars
<1>6. all \in SUBSET Hash /\ from \in Maps
  BY <1>1, Zenon DEF Those, FetcherInv, Sane, Fetchers
<1>7. /\ Sane(g) /\ QueueOK(g, importing, done) /\ BodyOK(g, {}, asked, lost, chain)
  BY <1>2, <1>6, ForgetHashOK, Zenon DEF FetcherInv
<1>8. f' = [g EXCEPT !.completing = M]
  BY <1>4, <1>5, <1>7, Zenon DEF Sane, Fetchers
<1>9. M \in Maps
  BY <1>4, <1>6, <1>7, Zenon DEF Maps, Sane, Fetchers
<1>10. /\ Sane(f') /\ f'.queue = g.queue /\ f'.queued = g.queued /\ f'.completing = M
  BY <1>7, <1>8, <1>9, SetCompleting
<1>11. QueueOK(f', importing', done')
  BY <1>5, <1>7, <1>10, Zenon DEF QueueOK
<1>12. BodyOK(f', {}, asked', lost', chain')
  <2> SUFFICES ASSUME NEW h \in Those(f'.completing) \ {}
               PROVE  \/ h \in chain' \cup lost' \cup Those(f'.queued)
                      \/ Request("body", f'.completing[h], h) \in asked'
    BY Zenon DEF BodyOK
  <2>1. h \in Hash /\ M[h] # Nobody
    BY <1>10, Zenon DEF Those
  <2>2. CASE h \in wanted
    <3>1. M[h] = from[h]
      BY <1>4, <2>1, <2>2, Zenon
    <3>2. h \in lost' \/ Request("body", from[h], h) \in asked'
      BY <1>5, <2>2, Zenon
    <3> QED
      BY <1>10, <3>1, <3>2, Zenon
  <2>3. CASE h \notin wanted
    <3>1. M[h] = g.completing[h]
      BY <1>4, <2>1, <2>3, Zenon
    <3>2. h \in Those(g.completing)
      BY <2>1, <3>1, Zenon DEF Those
    <3>3. \/ h \in chain \cup lost \cup Those(g.queued)
          \/ Request("body", g.completing[h], h) \in asked
      BY <1>7, <3>2, Zenon DEF BodyOK
    <3> QED
      BY <1>5, <1>10, <3>1, <3>3
  <2> QED
    BY <2>2, <2>3, Zenon
<1> QED
  BY <1>10, <1>11, <1>12, Zenon DEF FetcherInv


\* The fields of a request.
LEMMA RequestFields ==
    ASSUME NEW kind, NEW p, NEW h, NEW r, r = Request(kind, p, h)
    PROVE  r.kind = kind /\ r.peer = p /\ r.hash = h
BY Zenon DEF Request

\* Requests that go unanswered are lost with the blocks that wait for them.
LEMMA RequestsGone ==
    ASSUME NEW g, NEW X, NEW A, NEW L, NEW C, BodyOK(g, X, A, L, C),
           NEW gone, NEW L2, L \subseteq L2, BodiesOf(gone) \subseteq L2
    PROVE  BodyOK(g, X, A \ gone, L2, C)
<1> SUFFICES ASSUME NEW h \in Those(g.completing) \ X
             PROVE  \/ h \in C \cup L2 \cup Those(g.queued)
                    \/ Request("body", g.completing[h], h) \in A \ gone
  BY Zenon DEF BodyOK
<1>1. \/ h \in C \cup L \cup Those(g.queued)
      \/ Request("body", g.completing[h], h) \in A
  BY Zenon DEF BodyOK
<1>2. PICK r : r = Request("body", g.completing[h], h)
  BY Zenon
<1>3. r.kind = "body" /\ r.hash = h
  BY <1>2, RequestFields
<1>4. r \in gone => h \in L2
  BY <1>3, Zenon DEF BodiesOf
<1> QED
  BY <1>1, <1>2, <1>4, Zenon

\* The requests to a dropped peer are lost, and the bodies with them.
LEMMA DropPeerOK ==
    ASSUME NEW g, NEW X, BodyOK(g, X, asked, lost, chain), NEW p, dropPeer(p)
    PROVE  BodyOK(g, X, asked', lost', chain)
<1>1. PICK gone : gone = {r \in asked : r.peer = p}
  BY ZenonT(30)
<1>2. asked' = asked \ gone /\ lost' = lost \cup BodiesOf(gone)
  BY <1>1, Zenon DEF dropPeer
<1>3. lost \subseteq lost' /\ BodiesOf(gone) \subseteq lost'
  BY <1>2, Zenon
<1> QED
  BY <1>2, <1>3, RequestsGone, Zenon

\* An answer does not come.
LEMMA LoseOK == ASSUME FetcherInv, NEW request, Lose(request) PROVE FetcherInv'
<1>1. /\ f' = f /\ importing' = importing /\ done' = done /\ chain' = chain
      /\ asked' = asked \ {request} /\ lost' = lost \cup BodiesOf({request})
  BY Zenon DEF Lose, chainVars
<1>2. lost \subseteq lost' /\ BodiesOf({request}) \subseteq lost'
  BY <1>1, Zenon
<1>3. BodyOK(f, {}, asked', lost', chain)
  BY <1>1, <1>2, RequestsGone, Zenon DEF FetcherInv
<1> QED
  BY <1>1, <1>3, Zenon DEF FetcherInv

\* A block reaches the chain by another way.
LEMMA InsertElsewhereOK == ASSUME FetcherInv, NEW h \in Hash, InsertElsewhere(h) PROVE FetcherInv'
<1>1. /\ f' = f /\ importing' = importing /\ done' = done
      /\ asked' = asked /\ lost' = lost /\ chain \subseteq chain'
  BY Zenon DEF InsertElsewhere, Insert
<1>2. BodyOK(f, {}, asked, lost, chain')
  BY <1>1, BodyGrows, Zenon DEF FetcherInv
<1> QED
  BY <1>1, <1>2, Zenon DEF FetcherInv

\* An import succeeds or not, and its peer may be dropped.
LEMMA ImportOK == ASSUME FetcherInv, NEW h \in Hash, Import(h) PROVE FetcherInv'
<1>1. /\ f' = f /\ h \in importing /\ importing' = importing \ {h} /\ done' = done \cup {h}
  BY Zenon DEF Import
<1>2. QueueOK(f', importing', done')
  <2>1. /\ f.queue \cup importing \cup done = Those(f.queued)
        /\ f.queue \cap importing = {} /\ f.queue \cap done = {} /\ importing \cap done = {}
    BY Zenon DEF QueueOK, FetcherInv
  <2>2. /\ f.queue \cup importing' \cup done' = Those(f.queued)
        /\ f.queue \cap importing' = {} /\ f.queue \cap done' = {}
        /\ importing' \cap done' = {}
    BY <1>1, <2>1, Zenon
  <2> QED
    BY <1>1, <2>2, Zenon DEF QueueOK
<1>3. BodyOK(f, {}, asked', lost', chain')
  <2>1. CASE Parent[h] \in chain /\ h \in Bad
    <3>1. dropPeer(f.queued[h]) /\ chain' = chain
      BY <2>1, Zenon DEF Import, chainVars
    <3>2. PICK q : q = f.queued[h]
      BY Zenon
    <3> QED
      BY <3>1, <3>2, DropPeerOK, Zenon DEF FetcherInv
  <2>2. CASE ~(Parent[h] \in chain /\ h \in Bad)
    <3>1. asked' = asked /\ lost' = lost /\ chain \subseteq chain'
      BY <2>2, Zenon DEF Import, Insert, chainVars
    <3> QED
      BY <3>1, BodyGrows, Zenon DEF FetcherInv
  <2> QED
    BY <2>1, <2>2, Zenon
<1> QED
  BY <1>1, <1>2, <1>3, Zenon DEF FetcherInv


\* A header arrives, maybe late, wrong or of an empty block.
LEMMA HeaderFilterOK ==
    ASSUME FetcherInv, NEW p \in Peer, NEW h \in Hash, HeaderFilter(p, h)
    PROVE  FetcherInv'
<1>1. importing' = importing /\ done' = done /\ chain' = chain
  BY Zenon DEF HeaderFilter, chainVars
<1>2. \/ f' = f
      \/ f' = forgetHash(f, {h})
      \/ f' = enqueue([f EXCEPT !.completing[h] = p], p, h)
      \/ f' = [f EXCEPT !.fetched[h] = p]
  BY Zenon DEF HeaderFilter
<1>3. \/ dropPeer(p)
      \/ asked' = asked \ {Request("header", p, h)} /\ lost' = lost
  BY Zenon DEF HeaderFilter
<1>4. /\ Sane(f) /\ QueueOK(f, importing, done) /\ BodyOK(f, {}, asked, lost, chain)
  BY Zenon DEF FetcherInv
<1>5. Sane(f') /\ QueueOK(f', importing, done) /\ BodyOK(f', {}, asked, lost, chain)
  <2>1. CASE f' = f
    BY <1>4, <2>1, Zenon
  <2>2. CASE f' = forgetHash(f, {h})
    <3>1. {h} \in SUBSET Hash
      BY Zenon
    <3> QED
      BY <1>4, <2>2, <3>1, ForgetHashOK, Zenon
  <2>3. CASE f' = enqueue([f EXCEPT !.completing[h] = p], p, h)
    <3>1. PICK M : M = [f.completing EXCEPT ![h] = p]
      BY Zenon
    <3>2. PICK g : g = [f EXCEPT !.completing = M]
      BY Zenon
    <3>3. f \in Fetchers /\ f.completing \in Maps
      BY <1>4, Zenon DEF Sane, Fetchers
    <3>4. g = [f EXCEPT !.completing[h] = p]
      BY <3>1, <3>2, <3>3, Zenon DEF Fetchers
    <3>5. M \in Maps /\ \A x \in Hash : x # h => M[x] = f.completing[x]
      BY <3>1, <3>3, Zenon DEF Maps
    <3>6. /\ Sane(g) /\ g.queue = f.queue /\ g.queued = f.queued /\ g.completing = M
      BY <1>4, <3>2, <3>5, SetCompleting
    <3>7. QueueOK(g, importing, done)
      BY <1>4, <3>6, Zenon DEF QueueOK
    <3>8. BodyOK(g, {h}, asked, lost, chain)
      <4> SUFFICES ASSUME NEW x \in Those(g.completing) \ {h}
                   PROVE  \/ x \in chain \cup lost \cup Those(g.queued)
                          \/ Request("body", g.completing[x], x) \in asked
        BY Zenon DEF BodyOK
      <4>1. x \in Hash /\ g.completing[x] = f.completing[x]
        BY <3>5, <3>6, Zenon DEF Those
      <4>2. x \in Those(f.completing) \ {}
        BY <4>1, Zenon DEF Those
      <4> QED
        BY <1>4, <3>6, <4>1, <4>2, Zenon DEF BodyOK
    <3>9. f' = enqueue(g, p, h)
      BY <2>3, <3>4, Zenon
    <3>10. Sane(f') /\ QueueOK(f', importing, done) /\ BodyOK(f', {h} \ {h}, asked, lost, chain)
      BY <3>6, <3>7, <3>8, <3>9, EnqueueOK, ZenonT(30)
    <3>11. {h} \ {h} = {}
      BY Zenon
    <3> QED
      BY <3>10, <3>11, Zenon
  <2>4. CASE f' = [f EXCEPT !.fetched[h] = p]
    <3>1. PICK M : M = [f.fetched EXCEPT ![h] = p]
      BY Zenon
    <3>2. f \in Fetchers /\ f.fetched \in Maps
      BY <1>4, Zenon DEF Sane, Fetchers
    <3>3. f' = [f EXCEPT !.fetched = M]
      BY <2>4, <3>1, <3>2, Zenon DEF Fetchers
    <3>4. M \in Maps
      BY <3>1, <3>2, Zenon DEF Maps
    <3>5. /\ Sane(f') /\ f'.queue = f.queue /\ f'.queued = f.queued
          /\ f'.completing = f.completing
      BY <1>4, <3>3, <3>4, SetFetched
    <3> QED
      BY <1>4, <3>5, SameQueue, Zenon
  <2> QED
    BY <1>2, <2>1, <2>2, <2>3, <2>4, Zenon
<1>6. BodyOK(f', {}, asked', lost', chain)
  <2>1. CASE dropPeer(p)
    BY <1>5, <2>1, DropPeerOK, Zenon
  <2>2. CASE asked' = asked \ {Request("header", p, h)} /\ lost' = lost
    <3>1. PICK r : r = Request("header", p, h)
      BY Zenon
    <3>2. r.kind = "header"
      BY <3>1, RequestFields
    <3>3. BodiesOf({r}) \subseteq lost
      BY <3>2, Zenon DEF BodiesOf
    <3> QED
      BY <1>5, <2>2, <3>1, <3>3, RequestsGone, Zenon
  <2> QED
    BY <1>3, <2>1, <2>2, Zenon
<1> QED
  BY <1>1, <1>5, <1>6, Zenon DEF FetcherInv

\* A body arrives, and completes every block that waits for it.
LEMMA BodyFilterOK ==
    ASSUME FetcherInv, NEW p \in Peer, NEW h \in Hash, BodyFilter(p, h)
    PROVE  FetcherInv'
<1>1. PICK matched : matched = {k \in Hash : /\ f.completing[k] = p /\ f.queued[k] = Nobody
                                             /\ Body[k] = Body[h]}
  BY Zenon
<1>2. PICK g, S, K : g = forgetHash(f, K) /\ S = matched \ chain /\ K = matched \cap chain
  BY Zenon
<1>3. PICK order \in Orders(S) : f' = deliver(g, p, order)
  BY <1>1, <1>2, Zenon DEF BodyFilter
<1>4. PICK request : request = Request("body", p, h)
  BY Zenon
<1>5. /\ importing' = importing /\ done' = done /\ chain' = chain /\ lost' = lost
      /\ asked' = asked \ {request}
  BY <1>4, Zenon DEF BodyFilter, chainVars
<1>6. S \in SUBSET Hash /\ K \in SUBSET Hash
  BY <1>1, <1>2, Zenon
<1>7. /\ Sane(g) /\ QueueOK(g, importing, done) /\ BodyOK(g, {}, asked, lost, chain)
      /\ g.queued = f.queued /\ Those(g.completing) = Those(f.completing) \ K
      /\ \A x \in Those(g.completing) : g.completing[x] = f.completing[x]
  <2>1. /\ Sane(f) /\ QueueOK(f, importing, done) /\ BodyOK(f, {}, asked, lost, chain)
    BY Zenon DEF FetcherInv
  <2>2. /\ Sane(g) /\ QueueOK(g, importing, done) /\ BodyOK(g, {}, asked, lost, chain)
        /\ Freed(f, K, g)
    BY <1>2, <1>6, <2>1, ForgetHashOK, Zenon
  <2> QED
    BY <2>2, Zenon DEF Freed
<1>8. BodyOK(g, S, asked', lost, chain)
  <2> SUFFICES ASSUME NEW x \in Those(g.completing) \ S
               PROVE  \/ x \in chain \cup lost \cup Those(g.queued)
                      \/ Request("body", g.completing[x], x) \in asked'
    BY Zenon DEF BodyOK
  <2>1. \/ x \in chain \cup lost \cup Those(g.queued)
        \/ Request("body", g.completing[x], x) \in asked
    BY <1>7, Zenon DEF BodyOK
  <2>2. PICK r : r = Request("body", g.completing[x], x)
    BY Zenon
  <2>3. r.peer = g.completing[x] /\ r.hash = x /\ request.peer = p /\ request.hash = h
    BY <1>4, <2>2, RequestFields
  <2>4. CASE r = request
    <3>1. x = h /\ g.completing[x] = p
      BY <2>3, <2>4, Zenon
    <3>2. f.completing[h] = p
      BY <1>7, <3>1, Zenon
    <3>3. CASE f.queued[h] = Nobody
      <4>1. h \in matched
        BY <1>1, <3>2, <3>3, Zenon
      <4> QED
        BY <1>2, <3>1, <4>1, Zenon
    <3>4. CASE f.queued[h] # Nobody
      BY <1>7, <3>1, <3>4, ZenonT(30) DEF Those
    <3> QED
      BY <3>3, <3>4, Zenon
  <2>5. CASE r # request
    BY <1>5, <2>1, <2>2, <2>5, Zenon
  <2> QED
    BY <2>4, <2>5, Zenon
<1>9. Sane(f') /\ QueueOK(f', importing, done) /\ BodyOK(f', {}, asked', lost, chain)
  <2>1. PICK A : A = asked'
    BY Zenon
  <2>2. BodyOK(g, S, A, lost, chain)
    BY <1>8, <2>1, Zenon
  <2>3. Sane(f') /\ QueueOK(f', importing, done) /\ BodyOK(f', {}, A, lost, chain)
    BY <1>3, <1>6, <1>7, <2>2, DeliverOK, Zenon
  <2> QED
    BY <2>1, <2>3, Zenon
<1> QED
  BY <1>5, <1>9, Zenon DEF FetcherInv


\* The bookkeeping is kept by every step of the loop, of an import and of the network.
THEOREM FetcherInvariance == FetcherSpec => []FetcherInv
<1>1. FetcherInv /\ [FetcherNext]_fetcherVars => FetcherInv'
  <2> SUFFICES ASSUME FetcherInv, [FetcherNext]_fetcherVars PROVE FetcherInv'
    BY Zenon
  <2>1. CASE Top
    BY <2>1, TopOK, Zenon
  <2>2. CASE CompleteTimer
    BY <2>2, CompleteTimerOK, Zenon
  <2>3. ASSUME NEW due \in SUBSET Hash, FetchTimer(due) PROVE FetcherInv'
    BY <2>3, FetchTimerOK, Zenon
  <2>4. ASSUME NEW p \in Peer, NEW h \in Hash, Notify(p, h) PROVE FetcherInv'
    BY <2>4, NotifyOK, Zenon
  <2>5. ASSUME NEW p \in Peer, NEW h \in Hash, Enqueue(p, h) PROVE FetcherInv'
    BY <2>5, EnqueueKeeps, Zenon
  <2>6. ASSUME NEW p \in Peer, NEW h \in Hash, HeaderFilter(p, h) PROVE FetcherInv'
    BY <2>6, HeaderFilterOK, Zenon
  <2>7. ASSUME NEW p \in Peer, NEW h \in Hash, BodyFilter(p, h) PROVE FetcherInv'
    BY <2>7, BodyFilterOK, Zenon
  <2>8. ASSUME NEW h \in Hash, Done(h) PROVE FetcherInv'
    BY <2>8, DoneOK, Zenon
  <2>9. ASSUME NEW h \in Hash, Import(h) PROVE FetcherInv'
    BY <2>9, ImportOK, Zenon
  <2>10. ASSUME NEW h \in Hash, InsertElsewhere(h) PROVE FetcherInv'
    BY <2>10, InsertElsewhereOK, Zenon
  <2>11. ASSUME NEW request \in asked, Lose(request) PROVE FetcherInv'
    BY <2>11, LoseOK, Zenon
  <2>12. CASE UNCHANGED fetcherVars
    BY <2>12, Zenon DEF fetcherVars, FetcherInv, chainVars
  <2> QED
    BY <2>1, <2>2, <2>3, <2>4, <2>5, <2>6, <2>7, <2>8, <2>9, <2>10, <2>11, <2>12, Zenon
       DEF FetcherNext
<1> QED
  BY <1>1, InitOK, PTL DEF FetcherSpec

\* However announcements, timeouts, late answers and imports interleave, no peer is charged
\* for more announcements than are scheduled for it, and for exactly the blocks queued for
\* it: forgetHash and forgetBlock give back what notify and enqueue charged.
THEOREM AllowancesAreGivenBack == FetcherSpec => []AllowanceKept
<1>1. FetcherInv => AllowanceKept
  BY Zenon DEF FetcherInv, Sane, Allowed, Count, QueuedFor, Total, AllowanceKept
<1> QED
  BY <1>1, FetcherInvariance, PTL

\* A block is in one of the queue, the import and the list of what is to be forgotten, and
\* recorded as queued as long as it is: a second copy of it is not imported at the same
\* time.
THEOREM BlocksAreImportedOnce == FetcherSpec => []ImportedOnce
<1>1. FetcherInv => ImportedOnce
  BY Zenon DEF FetcherInv, QueueOK, ImportedOnce
<1> QED
  BY <1>1, FetcherInvariance, PTL

\* A block that waits for its body, and whose announcements are ignored for it, has its
\* request under way, unless it is queued or in the chain, or an answer was lost, or it was
\* dropped as too old.
THEOREM WaitingBlocksAreAskedFor == FetcherSpec => []OnlyLossBlocks
<1>1. FetcherInv => OnlyLossBlocks
  BY Zenon DEF FetcherInv, BodyOK, OnlyLossBlocks
<1> QED
  BY <1>1, FetcherInvariance, PTL
=============================================================================
