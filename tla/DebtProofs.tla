----------------------------- MODULE DebtProofs -----------------------------
(* What one loan and the books over all loans keep, whatever the loans are: the  *)
(* facts about sums, about the split of a payment and about the change of one    *)
(* loan that the proofs on the pool and on the loan manager rest on.             *)
EXTENDS LoanDebt, FiniteSetsExt, FiniteSetTheorems, TLAPS

-----------------------------------------------------------------------------
(* Sums over finite sets.  SumFunctionOnSet is defined by recursion over         *)
(* subsets, and every fact here is an induction over them.  An induction is      *)
(* written as the choice of a smallest subset that fails, which needs no         *)
(* predicate as a parameter.                                                     *)

\* The time a leaf is given, by each of the two provers that try it.
USE SMTT(20), ZenonT(30)

\* Among the subsets of a finite set there is no endless descent, so that a family of them
\* has a smallest member: induction over finite sets, without an operator as a parameter.
LEMMA SmallestSubset ==
    ASSUME NEW S, IsFiniteSet(S), NEW T, T \subseteq SUBSET S, T # {}
    PROVE  \E x \in T : \A y \in T : y \subseteq x => y = x
<1>1. IsWellFoundedOn(StrictSubsetOrdering(S), SUBSET S)
  BY FS_StrictSubsetOrderingWellFounded, FS_FiniteSubsetsOfFinite, ZenonT(30)
<1>2. PICK x \in T : \A y \in T : ~(<<y, x>> \in StrictSubsetOrdering(S))
  BY <1>1, WFMin, ZenonT(30)
<1>3. \A y \in T : y \subseteq x => y = x
  BY <1>2, ZenonT(30) DEF StrictSubsetOrdering
<1> QED BY <1>3, ZenonT(30)

pick(s) == CHOOSE x \in s : TRUE

\* g holds the sums of f over the subsets of S.
Sums(f, S, g) == g = [s \in SUBSET S |-> IF s = {} THEN 0 ELSE f[pick(s)] + g[s \ {pick(s)}]]

\* The recursive function inside the library's sum.
LEMMA SumUnfolds == \A f, S : SumFunctionOnSet(f, S) = (CHOOSE g : Sums(f, S, g))[S]
  BY ZenonT(30) DEF SumFunctionOnSet, FoldFunctionOnSet, MapThenFoldSet, Sums, pick

\* What CHOOSE picks of a set that is not empty is in it.
LEMMA Picked == \A s : s # {} => pick(s) \in s
  BY ZenonT(30) DEF pick

\* What the equation of Sums says of one subset.
LEMMA SumsAt ==
    ASSUME NEW f, NEW S, NEW g, Sums(f, S, g), NEW s \in SUBSET S
    PROVE  /\ s = {} => g[s] = 0
           /\ s # {} => g[s] = f[pick(s)] + g[s \ {pick(s)}]
  BY ZenonT(30) DEF Sums

\* Two such functions agree where both are defined.
LEMMA SumsAgree ==
    ASSUME NEW f, NEW S, IsFiniteSet(S), NEW g, NEW h, NEW U \in SUBSET S, NEW V \in SUBSET S,
           Sums(f, U, g), Sums(f, V, h)
    PROVE  \A s \in SUBSET (U \cap V) : g[s] = h[s]
<1> DEFINE Bad == {s \in SUBSET (U \cap V) : g[s] # h[s]}
<1> SUFFICES ASSUME Bad # {} PROVE FALSE
  OBVIOUS
<1>1. Bad \subseteq SUBSET S
  OBVIOUS
<1>2. \E t \in Bad : \A y \in Bad : y \subseteq t => y = t
  <2> HIDE DEF Bad
  <2> QED BY <1>1, SmallestSubset
<1>2a. PICK t \in Bad : \A y \in Bad : y \subseteq t => y = t
  BY <1>2, ZenonT(30)
<1>3. t \in SUBSET U /\ t \in SUBSET V /\ g[t] # h[t]
  BY <1>2a, ZenonT(30)
<1>4. t # {}
  BY <1>3, SumsAt, ZenonT(30)
<1>5. t \ {pick(t)} # t /\ t \ {pick(t)} \subseteq t
  BY <1>4, Picked, ZenonT(30)
<1>6. t \ {pick(t)} \notin Bad
  BY <1>2a, <1>5, ZenonT(30)
<1>7. g[t \ {pick(t)}] = h[t \ {pick(t)}]
  BY <1>6, <1>3, ZenonT(30)
<1> QED BY <1>3, <1>4, <1>7, SumsAt

\* The recursion is well founded: there is such a function.
LEMMA SumsExist ==
    ASSUME NEW f, NEW S, IsFiniteSet(S)
    PROVE  \A T \in SUBSET S : \E g : Sums(f, T, g)
<1> DEFINE Bad == {T \in SUBSET S : ~ \E g : Sums(f, T, g)}
<1> SUFFICES ASSUME Bad # {} PROVE FALSE
  OBVIOUS
<1>0. \E t \in Bad : \A y \in Bad : y \subseteq t => y = t
  <2>1. Bad \subseteq SUBSET S
    OBVIOUS
  <2> HIDE DEF Bad
  <2> QED BY <2>1, SmallestSubset
<1>1. PICK t \in Bad : \A y \in Bad : y \subseteq t => y = t
  BY <1>0, ZenonT(30)
<1> DEFINE fn(s) == CHOOSE g : Sums(f, s, g)
           G == [s \in SUBSET t |-> IF s = {} THEN 0 ELSE f[pick(s)] + fn(s \ {pick(s)})[s \ {pick(s)}]]
<1>2. \A s \in SUBSET t : s # t => Sums(f, s, fn(s))
  BY <1>1, ZenonT(30)
<1>3. \A s \in SUBSET t : s # t => G[s] = fn(s)[s]
  <2> SUFFICES ASSUME NEW s \in SUBSET t, s # t PROVE G[s] = fn(s)[s]
    BY ZenonT(30)
  <2> DEFINE r == s \ {pick(s)}
  <2>0. s \in SUBSET s
    OBVIOUS
  <2>1. CASE s = {}
    BY <2>1, <2>0, <1>2, SumsAt, ZenonT(30)
  <2>2. CASE s # {}
    <3>1. r \in SUBSET t /\ r # t /\ r \in SUBSET (s \cap r)
      BY <2>2, Picked, ZenonT(30)
    <3>2. Sums(f, s, fn(s)) /\ Sums(f, r, fn(r))
      BY <1>2, <3>1, ZenonT(30)
    <3>3. s \in SUBSET S /\ r \in SUBSET S
      BY <1>1, ZenonT(30)
    <3>4. fn(s)[r] = fn(r)[r]
      <4> HIDE DEF fn, r
      <4> QED BY <3>1, <3>2, <3>3, SumsAgree
    <3>5. fn(s)[s] = f[pick(s)] + fn(s)[r]
      <4> DEFINE g == fn(s)
      <4>1. Sums(f, s, g)
        BY <3>2, ZenonT(30)
      <4> HIDE DEF g
      <4>2. g[s] = f[pick(s)] + g[s \ {pick(s)}]
        BY <4>1, <2>0, <2>2, SumsAt
      <4> QED BY <4>2, ZenonT(30) DEF g
    <3> QED BY <3>4, <3>5, <2>2, ZenonT(30)
  <2> QED BY <2>1, <2>2, ZenonT(30)
<1>4. Sums(f, t, G)
  <2>1. \A s \in SUBSET t : s # {} => G[s \ {pick(s)}] = fn(s \ {pick(s)})[s \ {pick(s)}]
    <3> SUFFICES ASSUME NEW s \in SUBSET t, s # {}
                 PROVE  G[s \ {pick(s)}] = fn(s \ {pick(s)})[s \ {pick(s)}]
      BY ZenonT(30)
    <3>1. s \ {pick(s)} \in SUBSET t /\ s \ {pick(s)} # t
      BY Picked, ZenonT(30)
    <3> HIDE DEF G, fn
    <3> QED BY <3>1, <1>3, ZenonT(30)
  <2>2. \A s \in SUBSET t : G[s] = IF s = {} THEN 0 ELSE f[pick(s)] + G[s \ {pick(s)}]
    <3> SUFFICES ASSUME NEW s \in SUBSET t
                 PROVE  G[s] = IF s = {} THEN 0 ELSE f[pick(s)] + G[s \ {pick(s)}]
      BY ZenonT(30)
    <3>1. CASE s = {}
      BY <3>1, ZenonT(30)
    <3>2. CASE s # {}
      <4>1. G[s] = f[pick(s)] + fn(s \ {pick(s)})[s \ {pick(s)}]
        BY <3>2, ZenonT(30)
      <4> HIDE DEF G, fn
      <4> QED BY <4>1, <3>2, <2>1, ZenonT(30)
    <3> QED BY <3>1, <3>2, ZenonT(30)
  <2>3. G = [s \in SUBSET t |-> G[s]]
    OBVIOUS
  <2> HIDE DEF G
  <2> QED BY <2>2, <2>3, ZenonT(30) DEF Sums
<1> QED BY <1>1, <1>4, ZenonT(30)

\* The equations of the sum: nothing over the empty set, and one element and the rest.
LEMMA SumStep ==
    ASSUME NEW f, NEW S, IsFiniteSet(S)
    PROVE  /\ SumFunctionOnSet(f, {}) = 0
           /\ S # {} => SumFunctionOnSet(f, S) = f[pick(S)] + SumFunctionOnSet(f, S \ {pick(S)})
<1> DEFINE fn(s) == CHOOSE g : Sums(f, s, g)
           r == S \ {pick(S)}
<1>1. S \in SUBSET S /\ {} \in SUBSET S /\ r \in SUBSET S /\ r \in SUBSET (S \cap r) /\ {} \in SUBSET {}
  OBVIOUS
<1>2. Sums(f, S, fn(S)) /\ Sums(f, r, fn(r)) /\ Sums(f, {}, fn({}))
  BY SumsExist, <1>1, ZenonT(30)
<1>3. SumFunctionOnSet(f, S) = fn(S)[S] /\ SumFunctionOnSet(f, r) = fn(r)[r]
      /\ SumFunctionOnSet(f, {}) = fn({})[{}]
  BY SumUnfolds, ZenonT(30)
<1> HIDE DEF fn, r
<1>4. fn(S)[r] = fn(r)[r]
  <2> DEFINE g == fn(S)
             h == fn(r)
  <2>1. Sums(f, S, g) /\ Sums(f, r, h)
    BY <1>2, ZenonT(30)
  <2> HIDE DEF g, h
  <2>2. \A s \in SUBSET (S \cap r) : g[s] = h[s]
    BY <2>1, <1>1, SumsAgree
  <2> QED BY <2>2, <1>1, ZenonT(30) DEF g, h
<1>5. fn({})[{}] = 0
  BY <1>1, <1>2, SumsAt, ZenonT(30)
<1>6. S # {} => fn(S)[S] = f[pick(S)] + fn(S)[r]
  BY <1>1, <1>2, SumsAt DEF r
<1> QED BY <1>3, <1>4, <1>5, <1>6, ZenonT(30) DEF r

\* The first of them, which needs no set.
LEMMA SumEmpty == \A f : SumFunctionOnSet(f, {}) = 0
<1>1. IsFiniteSet({})
  BY FS_EmptySet, ZenonT(30)
<1> QED BY <1>1, SumStep, ZenonT(30)

\* The sum of whole numbers is one.
LEMMA SumType ==
    ASSUME NEW f, NEW S, IsFiniteSet(S), \A x \in S : f[x] \in Int
    PROVE  \A T \in SUBSET S : SumFunctionOnSet(f, T) \in Int
<1> DEFINE Bad == {T \in SUBSET S : SumFunctionOnSet(f, T) \notin Int}
<1> SUFFICES ASSUME Bad # {} PROVE FALSE
  OBVIOUS
<1>1. PICK t \in Bad : \A y \in Bad : y \subseteq t => y = t
  <2>1. Bad \subseteq SUBSET S
    OBVIOUS
  <2> HIDE DEF Bad
  <2> QED BY <2>1, SmallestSubset
<1>2. t \in SUBSET S /\ SumFunctionOnSet(f, t) \notin Int /\ IsFiniteSet(t)
  BY <1>1, FS_Subset, ZenonT(30)
<1>3. t # {}
  BY <1>2, SumEmpty
<1>4. pick(t) \in t /\ t \ {pick(t)} \subseteq t /\ t \ {pick(t)} # t
  BY <1>3, Picked, ZenonT(30)
<1>5. SumFunctionOnSet(f, t \ {pick(t)}) \in Int
  BY <1>1, <1>2, <1>4, ZenonT(30)
<1>6. f[pick(t)] \in Int
  BY <1>2, <1>4, ZenonT(30)
<1> QED BY <1>2, <1>3, <1>5, <1>6, SumStep

\* The same for naturals.
LEMMA SumNat ==
    ASSUME NEW f, NEW S, IsFiniteSet(S), \A x \in S : f[x] \in Nat
    PROVE  \A T \in SUBSET S : SumFunctionOnSet(f, T) \in Nat
<1> DEFINE Bad == {T \in SUBSET S : SumFunctionOnSet(f, T) \notin Nat}
<1> SUFFICES ASSUME Bad # {} PROVE FALSE
  OBVIOUS
<1>1. PICK t \in Bad : \A y \in Bad : y \subseteq t => y = t
  <2>1. Bad \subseteq SUBSET S
    OBVIOUS
  <2> HIDE DEF Bad
  <2> QED BY <2>1, SmallestSubset
<1>2. t \in SUBSET S /\ SumFunctionOnSet(f, t) \notin Nat /\ IsFiniteSet(t)
  BY <1>1, FS_Subset, ZenonT(30)
<1>3. t # {}
  BY <1>2, SumEmpty
<1>4. pick(t) \in t /\ t \ {pick(t)} \subseteq t /\ t \ {pick(t)} # t
  BY <1>3, Picked, ZenonT(30)
<1>5. SumFunctionOnSet(f, t \ {pick(t)}) \in Nat
  BY <1>1, <1>2, <1>4, ZenonT(30)
<1>6. f[pick(t)] \in Nat
  BY <1>2, <1>4, ZenonT(30)
<1> QED BY <1>2, <1>3, <1>5, <1>6, SumStep

\* Functions that agree on a set have the same sum over it.
LEMMA SumSame ==
    ASSUME NEW f, NEW h, NEW S, IsFiniteSet(S), \A x \in S : f[x] = h[x]
    PROVE  \A T \in SUBSET S : SumFunctionOnSet(f, T) = SumFunctionOnSet(h, T)
<1> DEFINE Bad == {T \in SUBSET S : SumFunctionOnSet(f, T) # SumFunctionOnSet(h, T)}
<1> SUFFICES ASSUME Bad # {} PROVE FALSE
  OBVIOUS
<1>1. PICK t \in Bad : \A y \in Bad : y \subseteq t => y = t
  <2>1. Bad \subseteq SUBSET S
    OBVIOUS
  <2> HIDE DEF Bad
  <2> QED BY <2>1, SmallestSubset
<1>2. t \in SUBSET S /\ SumFunctionOnSet(f, t) # SumFunctionOnSet(h, t) /\ IsFiniteSet(t)
  BY <1>1, FS_Subset, ZenonT(30)
<1>3. t # {}
  BY <1>2, SumEmpty, ZenonT(30)
<1>4. pick(t) \in t /\ t \ {pick(t)} \subseteq t /\ t \ {pick(t)} # t
  BY <1>3, Picked, ZenonT(30)
<1>5. SumFunctionOnSet(f, t \ {pick(t)}) = SumFunctionOnSet(h, t \ {pick(t)})
  BY <1>1, <1>2, <1>4, ZenonT(30)
<1>6. f[pick(t)] = h[pick(t)]
  BY <1>2, <1>4, ZenonT(30)
<1> QED BY <1>2, <1>3, <1>5, <1>6, SumStep

\* The order of the sum does not matter: any element can be the first.
LEMMA SumAny ==
    ASSUME NEW f, NEW S, IsFiniteSet(S), \A x \in S : f[x] \in Int
    PROVE  \A T \in SUBSET S : \A p \in T :
               SumFunctionOnSet(f, T) = f[p] + SumFunctionOnSet(f, T \ {p})
<1> DEFINE Bad == {T \in SUBSET S : ~ \A p \in T :
                      SumFunctionOnSet(f, T) = f[p] + SumFunctionOnSet(f, T \ {p})}
<1> SUFFICES ASSUME Bad # {} PROVE FALSE
  BY ZenonT(30)
<1>1. PICK t \in Bad : \A y \in Bad : y \subseteq t => y = t
  <2>1. Bad \subseteq SUBSET S
    OBVIOUS
  <2> HIDE DEF Bad
  <2> QED BY <2>1, SmallestSubset
<1>2. t \in SUBSET S /\ IsFiniteSet(t)
  BY <1>1, FS_Subset, ZenonT(30)
<1>3. PICK p \in t : SumFunctionOnSet(f, t) # f[p] + SumFunctionOnSet(f, t \ {p})
  BY <1>1, ZenonT(30)
<1> DEFINE x == pick(t)
<1>4. t # {} /\ x \in t
  BY <1>3, Picked, ZenonT(30)
<1>5. SumFunctionOnSet(f, t) = f[x] + SumFunctionOnSet(f, t \ {x})
  BY <1>2, <1>4, SumStep, ZenonT(30)
<1> HIDE DEF x
<1>6. x # p
  BY <1>3, <1>5, ZenonT(30)
<1>7. SumFunctionOnSet(f, t \ {x}) = f[p] + SumFunctionOnSet(f, (t \ {x}) \ {p})
  <2>1. t \ {x} \in SUBSET S /\ t \ {x} \subseteq t /\ t \ {x} # t
    BY <1>2, <1>4, ZenonT(30)
  <2>2. t \ {x} \notin Bad
    BY <2>1, <1>1, ZenonT(30)
  <2> QED BY <2>1, <2>2, <1>6, ZenonT(30)
<1>8. SumFunctionOnSet(f, t \ {p}) = f[x] + SumFunctionOnSet(f, (t \ {p}) \ {x})
  <2>1. t \ {p} \in SUBSET S /\ t \ {p} \subseteq t /\ t \ {p} # t /\ x \in t \ {p}
    BY <1>2, <1>4, <1>6, ZenonT(30)
  <2>2. t \ {p} \notin Bad
    BY <2>1, <1>1, ZenonT(30)
  <2> QED BY <2>1, <2>2, ZenonT(30)
<1>9. (t \ {p}) \ {x} = (t \ {x}) \ {p}
  OBVIOUS
<1>10. f[x] \in Int /\ f[p] \in Int
  BY <1>2, <1>4, ZenonT(30)
<1>11. SumFunctionOnSet(f, (t \ {x}) \ {p}) \in Int
  BY <1>2, SumType, ZenonT(30)
<1> DEFINE rest == SumFunctionOnSet(f, (t \ {x}) \ {p})
<1>12. /\ SumFunctionOnSet(f, t) = f[x] + (f[p] + rest) /\ rest \in Int
       /\ SumFunctionOnSet(f, t \ {p}) = f[x] + rest
  BY <1>5, <1>7, <1>8, <1>9, <1>11, ZenonT(30)
<1> HIDE DEF rest
<1> QED BY <1>3, <1>10, <1>12

\* One value that changes changes the sum by as much.
LEMMA SumUpdate ==
    ASSUME NEW S, IsFiniteSet(S), NEW f, NEW h, NEW p \in S,
           \A x \in S : f[x] \in Int /\ h[x] \in Int, \A x \in S \ {p} : f[x] = h[x]
    PROVE  SumFunctionOnSet(h, S) = SumFunctionOnSet(f, S) + h[p] - f[p]
<1>0. S \in SUBSET S /\ S \ {p} \in SUBSET S /\ S \ {p} \in SUBSET (S \ {p})
  OBVIOUS
<1>1. SumFunctionOnSet(h, S) = h[p] + SumFunctionOnSet(h, S \ {p})
  BY <1>0, SumAny
<1>2. SumFunctionOnSet(f, S) = f[p] + SumFunctionOnSet(f, S \ {p})
  BY <1>0, SumAny
<1>3. SumFunctionOnSet(f, S \ {p}) = SumFunctionOnSet(h, S \ {p})
  <2>1. IsFiniteSet(S \ {p})
    BY FS_RemoveElement, ZenonT(30)
  <2> QED BY <2>1, <1>0, SumSame
<1>4. SumFunctionOnSet(f, S \ {p}) \in Int /\ f[p] \in Int /\ h[p] \in Int
  BY <1>0, SumType, ZenonT(30)
<1> QED BY <1>1, <1>2, <1>3, <1>4

\* No part is larger than a sum of naturals.
LEMMA SumCovers ==
    ASSUME NEW S, IsFiniteSet(S), NEW f, NEW p \in S, \A x \in S : f[x] \in Nat
    PROVE  f[p] <= SumFunctionOnSet(f, S) /\ SumFunctionOnSet(f, S) \in Nat
<1>0. S \in SUBSET S /\ S \ {p} \in SUBSET S /\ \A x \in S : f[x] \in Int
  OBVIOUS
<1>1. SumFunctionOnSet(f, S) = f[p] + SumFunctionOnSet(f, S \ {p})
  BY <1>0, SumAny
<1>2. SumFunctionOnSet(f, S \ {p}) \in Nat /\ f[p] \in Nat
  BY <1>0, SumNat, ZenonT(30)
<1> QED BY <1>1, <1>2

\* A sum of zeros is zero.
LEMMA SumZero ==
    ASSUME NEW f, NEW S, IsFiniteSet(S), \A x \in S : f[x] = 0
    PROVE  \A T \in SUBSET S : SumFunctionOnSet(f, T) = 0
<1> DEFINE Bad == {T \in SUBSET S : SumFunctionOnSet(f, T) # 0}
<1> SUFFICES ASSUME Bad # {} PROVE FALSE
  OBVIOUS
<1>1. PICK t \in Bad : \A y \in Bad : y \subseteq t => y = t
  <2>1. Bad \subseteq SUBSET S
    OBVIOUS
  <2> HIDE DEF Bad
  <2> QED BY <2>1, SmallestSubset
<1>2. t \in SUBSET S /\ SumFunctionOnSet(f, t) # 0 /\ IsFiniteSet(t)
  BY <1>1, FS_Subset, ZenonT(30)
<1>3. t # {}
  BY <1>2, SumEmpty, ZenonT(30)
<1>4. pick(t) \in t /\ t \ {pick(t)} \subseteq t /\ t \ {pick(t)} # t
  BY <1>3, Picked, ZenonT(30)
<1>5. SumFunctionOnSet(f, t \ {pick(t)}) = 0
  BY <1>1, <1>2, <1>4, ZenonT(30)
<1>6. f[pick(t)] = 0
  BY <1>2, <1>4, ZenonT(30)
<1> QED BY <1>2, <1>3, <1>5, <1>6, SumStep

\* A bound on the ratio of the parts is one on the ratio of the sums.
LEMMA SumRatio ==
    ASSUME NEW f, NEW h, NEW S, IsFiniteSet(S), NEW a \in Int, NEW b \in Int,
           \A x \in S : f[x] \in Int /\ h[x] \in Int /\ a * f[x] <= b * h[x]
    PROVE  \A T \in SUBSET S : a * SumFunctionOnSet(f, T) <= b * SumFunctionOnSet(h, T)
<1> DEFINE Bad == {T \in SUBSET S : ~(a * SumFunctionOnSet(f, T) <= b * SumFunctionOnSet(h, T))}
<1> SUFFICES ASSUME Bad # {} PROVE FALSE
  OBVIOUS
<1>1. PICK t \in Bad : \A y \in Bad : y \subseteq t => y = t
  <2>1. Bad \subseteq SUBSET S
    OBVIOUS
  <2> HIDE DEF Bad
  <2> QED BY <2>1, SmallestSubset
<1>2. /\ t \in SUBSET S /\ IsFiniteSet(t)
      /\ ~(a * SumFunctionOnSet(f, t) <= b * SumFunctionOnSet(h, t))
  BY <1>1, FS_Subset, ZenonT(30)
<1>3. t # {}
  <2>1. a * 0 <= b * 0
    OBVIOUS
  <2> QED BY <2>1, <1>2, SumEmpty, ZenonT(30)
<1> DEFINE r == t \ {pick(t)}
           sf == SumFunctionOnSet(f, r)
           sh == SumFunctionOnSet(h, r)
<1>4. pick(t) \in t /\ r \subseteq t /\ r # t /\ r \in SUBSET S
  BY <1>2, <1>3, Picked, ZenonT(30)
<1>5. a * sf <= b * sh
  BY <1>1, <1>4, ZenonT(30)
<1>6. /\ f[pick(t)] \in Int /\ h[pick(t)] \in Int /\ a * f[pick(t)] <= b * h[pick(t)]
      /\ sf \in Int /\ sh \in Int
  BY <1>2, <1>4, SumType, ZenonT(30)
<1>7. SumFunctionOnSet(f, t) = f[pick(t)] + sf /\ SumFunctionOnSet(h, t) = h[pick(t)] + sh
  BY <1>2, <1>3, SumStep, ZenonT(30)
<1> HIDE DEF sf, sh, r
<1>8. a * (f[pick(t)] + sf) = a * f[pick(t)] + a * sf
  BY <1>6
<1>9. b * (h[pick(t)] + sh) = b * h[pick(t)] + b * sh
  BY <1>6
<1>10. /\ a * f[pick(t)] \in Int /\ a * sf \in Int /\ b * h[pick(t)] \in Int /\ b * sh \in Int
  BY <1>6
<1> QED BY <1>2, <1>5, <1>6, <1>7, <1>8, <1>9, <1>10

\* The number of elements of a set that gains or loses at most p.
LEMMA CountUpdate ==
    ASSUME NEW S, IsFiniteSet(S), NEW A \in SUBSET S, NEW B \in SUBSET S, NEW p \in S,
           A \ {p} = B \ {p}
    PROVE  /\ Cardinality(A) \in Nat /\ Cardinality(B) \in Nat
           /\ (p \in A <=> p \in B) => Cardinality(B) = Cardinality(A)
           /\ p \in B /\ p \notin A => Cardinality(B) = Cardinality(A) + 1
           /\ p \notin B /\ p \in A => Cardinality(A) = Cardinality(B) + 1
<1>1. IsFiniteSet(A) /\ IsFiniteSet(B)
  BY FS_Subset, ZenonT(30)
<1>2. Cardinality(A) \in Nat /\ Cardinality(B) \in Nat
  BY <1>1, FS_CardinalityType, ZenonT(30)
<1>3. ASSUME p \in B, p \notin A PROVE Cardinality(B) = Cardinality(A) + 1
  <2>1. B = A \cup {p}
    BY <1>3, ZenonT(30)
  <2> QED BY <1>1, <1>3, <2>1, FS_AddElement, ZenonT(30)
<1>4. ASSUME p \notin B, p \in A PROVE Cardinality(A) = Cardinality(B) + 1
  <2>1. A = B \cup {p}
    BY <1>4, ZenonT(30)
  <2> QED BY <1>1, <1>4, <2>1, FS_AddElement, ZenonT(30)
<1>5. ASSUME p \in A <=> p \in B PROVE A = B
  BY <1>5
<1> QED BY <1>2, <1>3, <1>4, <1>5, ZenonT(30)

-----------------------------------------------------------------------------
(* A payment and the three buckets it is split over.                            *)

one_if(b) == IF b THEN 1 ELSE 0

\* The size of a set of buckets.
LEMMA BucketCount ==
    ASSUME NEW S \in SUBSET Buckets
    PROVE  Cardinality(S) = one_if(1 \in S) + one_if(2 \in S) + one_if(3 \in S)
<1> DEFINE S1 == S \cap {1}
           S2 == S \cap {1, 2}
<1>0. \A x \in Buckets : x = 1 \/ x = 2 \/ x = 3
  BY DEF Buckets
<1>1. IsFiniteSet({}) /\ Cardinality({}) = 0
  BY FS_EmptySet, ZenonT(30)
<1>2. IsFiniteSet(S1) /\ Cardinality(S1) = one_if(1 \in S)
  <2>1. CASE 1 \in S
    <3>1. S1 = {} \cup {1}
      BY <2>1, ZenonT(30)
    <3> QED BY <1>1, <2>1, <3>1, FS_AddElement DEF one_if
  <2>2. CASE 1 \notin S
    <3>1. S1 = {}
      BY <2>2, ZenonT(30)
    <3> QED BY <1>1, <2>2, <3>1, ZenonT(30) DEF one_if
  <2> QED BY <2>1, <2>2, ZenonT(30)
<1>3. IsFiniteSet(S2) /\ Cardinality(S2) = one_if(1 \in S) + one_if(2 \in S)
  <2>0. one_if(1 \in S) \in Nat
    BY ZenonT(30) DEF one_if
  <2>1. CASE 2 \in S
    <3>1. S2 = S1 \cup {2} /\ 2 \notin S1
      BY <2>1
    <3> HIDE DEF S1, S2
    <3>2. IsFiniteSet(S2) /\ Cardinality(S2) = Cardinality(S1) + 1
      BY <1>2, <3>1, FS_AddElement, ZenonT(30)
    <3> QED BY <1>2, <2>1, <3>2, ZenonT(30) DEF one_if
  <2>2. CASE 2 \notin S
    <3>1. S2 = S1
      BY <2>2, ZenonT(30)
    <3> QED BY <1>2, <2>0, <2>2, <3>1 DEF one_if
  <2> QED BY <2>1, <2>2, ZenonT(30)
<1>4. Cardinality(S) = one_if(1 \in S) + one_if(2 \in S) + one_if(3 \in S)
  <2>0. one_if(1 \in S) + one_if(2 \in S) \in Nat
    BY DEF one_if
  <2>1. CASE 3 \in S
    <3>1. S = S2 \cup {3} /\ 3 \notin S2
      BY <1>0, <2>1
    <3> HIDE DEF S2
    <3>2. Cardinality(S) = Cardinality(S2) + 1
      BY <1>3, <3>1, FS_AddElement, ZenonT(30)
    <3> QED BY <1>3, <2>1, <3>2 DEF one_if
  <2>2. CASE 3 \notin S
    <3>1. S = S2
      BY <1>0, <2>2, ZenonT(30)
    <3> QED BY <1>3, <2>0, <2>2, <3>1 DEF one_if
  <2> QED BY <2>1, <2>2, ZenonT(30)
<1> QED BY <1>4, ZenonT(30)

\* Division with remainder, of what is due to one bucket.
LEMMA Remainders ==
    ASSUME NEW x \in Nat, NEW t \in Nat \ {0}
    PROVE  /\ x \div t \in Nat /\ x % t \in Nat /\ x % t < t
           /\ x = t * (x \div t) + (x % t)
  OBVIOUS

\* a times d1, d2 and d3, which make up t, divided by t.
Divided(t, a, d1, d2, d3, q1, q2, q3, r1, r2, r3) ==
    /\ t = d1 + d2 + d3 /\ a <= t
    /\ a * d1 = t * q1 + r1 /\ a * d2 = t * q2 + r2 /\ a * d3 = t * q3 + r3
    /\ r1 < t /\ r2 < t /\ r3 < t

\* What the loop of proportional_repayment_split starts from: less than three units are left
\* over, t times their number are the remainders, and a bucket with a remainder has room.
LEMMA LeftOver ==
    ASSUME NEW t \in Nat \ {0}, NEW a \in Nat, NEW d1 \in Nat, NEW d2 \in Nat, NEW d3 \in Nat,
           NEW q1 \in Nat, NEW q2 \in Nat, NEW q3 \in Nat,
           NEW r1 \in Nat, NEW r2 \in Nat, NEW r3 \in Nat,
           Divided(t, a, d1, d2, d3, q1, q2, q3, r1, r2, r3)
    PROVE  /\ a - q1 - q2 - q3 \in 0..2
           /\ t * (a - q1 - q2 - q3) = r1 + r2 + r3
           /\ r1 > 0 => q1 < d1
           /\ r2 > 0 => q2 < d2
           /\ r3 > 0 => q3 < d3
           /\ q1 <= d1 /\ q2 <= d2 /\ q3 <= d3
<1> DEFINE u == a - q1 - q2 - q3
<1>0. u \in Int /\ a = u + q1 + q2 + q3
  OBVIOUS
<1> HIDE DEF u
<1> USE DEF Divided
<1>1. a * t = a * d1 + a * d2 + a * d3
  OBVIOUS
<1>2. t * u = t * a - t * q1 - t * q2 - t * q3
  BY <1>0
<1>3. t * u = r1 + r2 + r3
  BY <1>1, <1>2
<1>4. t * u >= 0 /\ t * u < 3 * t
  BY <1>3
<1>5. u >= 0 /\ u < 3
  BY <1>0, <1>4
<1>6. a * d1 <= t * d1 /\ a * d2 <= t * d2 /\ a * d3 <= t * d3
  OBVIOUS
<1>7. ASSUME NEW q \in Nat, NEW d \in Nat, NEW r \in Nat, t * q + r <= t * d
      PROVE  q <= d /\ (r > 0 => q < d)
  <2>1. t * q <= t * d /\ (r > 0 => t * q < t * d)
    BY <1>7
  <2> QED BY <2>1
<1>8. /\ q1 <= d1 /\ (r1 > 0 => q1 < d1)
      /\ q2 <= d2 /\ (r2 > 0 => q2 < d2)
      /\ q3 <= d3 /\ (r3 > 0 => q3 < d3)
  BY <1>6, <1>7
<1> QED BY <1>0, <1>3, <1>5, <1>8 DEF u

\* k1, k2 and k3 are the buckets of open that are served before each, by remainder and then
\* by order, and c1, c2 and c3 tell which are among the first u.
Chosen(open, u, t, r1, r2, r3, k1, k2, k3, c1, c2, c3) ==
    /\ r1 < t /\ r2 < t /\ r3 < t /\ t * u = r1 + r2 + r3
    /\ (r1 > 0 => 1 \in open) /\ (r2 > 0 => 2 \in open) /\ (r3 > 0 => 3 \in open)
    /\ k1 = one_if(2 \in open /\ r2 > r1) + one_if(3 \in open /\ r3 > r1)
    /\ k2 = one_if(1 \in open /\ r1 >= r2) + one_if(3 \in open /\ r3 > r2)
    /\ k3 = one_if(1 \in open /\ r1 >= r3) + one_if(2 \in open /\ r2 >= r3)
    /\ c1 = one_if(1 \in open /\ k1 < u)
    /\ c2 = one_if(2 \in open /\ k2 < u)
    /\ c3 = one_if(3 \in open /\ k3 < u)

\* As many buckets are chosen as there are units left over, and each has a remainder.
LEMMA Choice ==
    ASSUME NEW open, NEW u \in 0..2, NEW t \in Nat \ {0},
           NEW r1 \in Nat, NEW r2 \in Nat, NEW r3 \in Nat,
           NEW k1, NEW k2, NEW k3, NEW c1, NEW c2, NEW c3,
           Chosen(open, u, t, r1, r2, r3, k1, k2, k3, c1, c2, c3)
    PROVE  /\ c1 \in {0, 1} /\ c2 \in {0, 1} /\ c3 \in {0, 1}
           /\ c1 + c2 + c3 = u
           /\ c1 = 1 => r1 > 0
           /\ c2 = 1 => r2 > 0
           /\ c3 = 1 => r3 > 0
<1>0. c1 \in {0, 1} /\ c2 \in {0, 1} /\ c3 \in {0, 1}
  BY ZenonT(30) DEF one_if, Chosen
<1>1. CASE u = 0
  BY <1>0, <1>1 DEF one_if, Chosen
<1>2. CASE u = 1
  <2>1. r1 + r2 + r3 = t
    BY <1>2 DEF Chosen
  <2> QED BY <1>0, <1>2, <2>1 DEF one_if, Chosen
<1>3. CASE u = 2
  <2>1. r1 + r2 + r3 = t + t
    BY <1>3 DEF Chosen
  <2>2. r1 > 0 /\ r2 > 0 /\ r3 > 0
    BY <2>1 DEF Chosen
  <2> QED BY <1>0, <1>3, <2>2 DEF one_if, Chosen
<1> QED BY <1>1, <1>2, <1>3

Fair(dues, amount, payment) ==
    /\ payment[1] + payment[2] + payment[3] = amount
    /\ \A i \in Buckets :
          /\ payment[i] \in Nat /\ payment[i] <= dues[i]
          /\ payment[i] * total_due(dues) < amount * dues[i] + total_due(dues)
          /\ payment[i] * total_due(dues) > amount * dues[i] - total_due(dues)

\* proportional_repayment_split uses a payment up and stays within a unit of each bucket's
\* proportional share, whatever is due.
LEMMA SplitFair ==
    ASSUME NEW dues, dues[1] \in Nat, dues[2] \in Nat, dues[3] \in Nat,
           NEW amount \in Nat \ {0}, amount <= total_due(dues)
    PROVE  Fair(dues, amount, proportional_repayment_split(dues, amount))
<1> DEFINE t == total_due(dues)
           q(i) == floor_share(dues, amount, i)
           r(i) == remainder(dues, amount, i)
           u == unallocated(dues, amount)
           open == open_buckets(dues, amount)
           before(i) == {j \in open : served_before(dues, amount, j, i)}
           chosen(i) == i \in open /\ Cardinality(before(i)) < u
           payment == proportional_repayment_split(dues, amount)
<1>1. t \in Nat \ {0} /\ t = dues[1] + dues[2] + dues[3]
  BY DEF total_due
<1>2. \A i \in Buckets : i = 1 \/ i = 2 \/ i = 3
  BY DEF Buckets
<1>3. 1 \in Buckets /\ 2 \in Buckets /\ 3 \in Buckets
  BY DEF Buckets
<1>4. \A i \in Buckets : payment[i] = q(i) + one_if(chosen(i))
  BY ZenonT(30) DEF proportional_repayment_split, one_if
<1>5. \A i \in Buckets : q(i) = (amount * dues[i]) \div t /\ r(i) = (amount * dues[i]) % t
  BY ZenonT(30) DEF floor_share, remainder
<1>6. u = amount - q(1) - q(2) - q(3)
  BY ZenonT(30) DEF unallocated
<1>7. \A i \in Buckets : i \in open <=> dues[i] > q(i)
  BY ZenonT(30) DEF open_buckets
<1>8. \A i \in Buckets : before(i) \in SUBSET Buckets
  BY ZenonT(30) DEF open_buckets
<1>9. \A i, j \in Buckets : j \in before(i) <=> j \in open /\ (r(j) > r(i) \/ (r(j) = r(i) /\ j < i))
  BY ZenonT(30) DEF served_before, open_buckets
<1> HIDE DEF t, q, r, u, open, payment
<1>10. \A i \in Buckets : dues[i] \in Nat
  BY <1>2, ZenonT(30)
<1>11. \A i \in Buckets : /\ q(i) \in Nat /\ r(i) \in Nat /\ r(i) < t
                          /\ amount * dues[i] = t * q(i) + r(i)
  <2> SUFFICES ASSUME NEW i \in Buckets
               PROVE  q(i) \in Nat /\ r(i) \in Nat /\ r(i) < t /\ amount * dues[i] = t * q(i) + r(i)
    OBVIOUS
  <2>1. amount * dues[i] \in Nat
    BY <1>10
  <2> DEFINE x == amount * dues[i]
  <2>2. q(i) = x \div t /\ r(i) = x % t /\ x \in Nat
    BY <1>5, <2>1, ZenonT(30)
  <2> HIDE DEF x
  <2>3. /\ x \div t \in Nat /\ x % t \in Nat /\ x % t < t /\ x = t * (x \div t) + (x % t)
    BY <1>1, <2>2, Remainders, ZenonT(30)
  <2>4. q(i) \in Nat /\ r(i) \in Nat /\ r(i) < t /\ x = t * q(i) + r(i)
    BY <2>2, <2>3, ZenonT(30)
  <2> QED BY <2>4, ZenonT(30) DEF x
<1>12. amount \in Nat /\ amount <= t
  BY ZenonT(30) DEF t
<1> DEFINE q1 == q(1)
           q2 == q(2)
           q3 == q(3)
           r1 == r(1)
           r2 == r(2)
           r3 == r(3)
<1>13. /\ q1 \in Nat /\ q2 \in Nat /\ q3 \in Nat /\ r1 \in Nat /\ r2 \in Nat /\ r3 \in Nat
       /\ r1 < t /\ r2 < t /\ r3 < t
       /\ amount * dues[1] = t * q1 + r1 /\ amount * dues[2] = t * q2 + r2
       /\ amount * dues[3] = t * q3 + r3
  BY <1>3, <1>11, ZenonT(30)
<1> HIDE DEF q1, q2, q3, r1, r2, r3
<1> DEFINE d1 == dues[1]
           d2 == dues[2]
           d3 == dues[3]
<1>14. d1 \in Nat /\ d2 \in Nat /\ d3 \in Nat /\ Divided(t, amount, d1, d2, d3, q1, q2, q3, r1, r2, r3)
  BY <1>1, <1>12, <1>13, ZenonT(30) DEF Divided
<1> HIDE DEF d1, d2, d3
<1>15. /\ amount - q1 - q2 - q3 \in 0..2
       /\ t * (amount - q1 - q2 - q3) = r1 + r2 + r3
       /\ r1 > 0 => q1 < d1
       /\ r2 > 0 => q2 < d2
       /\ r3 > 0 => q3 < d3
       /\ q1 <= d1 /\ q2 <= d2 /\ q3 <= d3
  BY <1>1, <1>12, <1>13, <1>14, LeftOver
<1>16. u = amount - q1 - q2 - q3
  BY <1>6, ZenonT(30) DEF q1, q2, q3
<1>17. u \in 0..2 /\ t * u = r1 + r2 + r3
  BY <1>15, <1>16, ZenonT(30)
<1> DEFINE k1 == Cardinality(before(1))
           k2 == Cardinality(before(2))
           k3 == Cardinality(before(3))
           c1 == one_if(1 \in open /\ k1 < u)
           c2 == one_if(2 \in open /\ k2 < u)
           c3 == one_if(3 \in open /\ k3 < u)
<1>18. /\ k1 = one_if(1 \in before(1)) + one_if(2 \in before(1)) + one_if(3 \in before(1))
       /\ k2 = one_if(1 \in before(2)) + one_if(2 \in before(2)) + one_if(3 \in before(2))
       /\ k3 = one_if(1 \in before(3)) + one_if(2 \in before(3)) + one_if(3 \in before(3))
  <2> HIDE DEF before
  <2> QED BY <1>3, <1>8, BucketCount, ZenonT(30)
<1>19. /\ 1 \notin before(1)
       /\ 2 \in before(1) <=> 2 \in open /\ r2 > r1
       /\ 3 \in before(1) <=> 3 \in open /\ r3 > r1
       /\ 1 \in before(2) <=> 1 \in open /\ r1 >= r2
       /\ 2 \notin before(2)
       /\ 3 \in before(2) <=> 3 \in open /\ r3 > r2
       /\ 1 \in before(3) <=> 1 \in open /\ r1 >= r3
       /\ 2 \in before(3) <=> 2 \in open /\ r2 >= r3
       /\ 3 \notin before(3)
  <2> HIDE DEF before
  <2> QED BY <1>3, <1>9, <1>13 DEF r1, r2, r3
<1> HIDE DEF before
<1>20. /\ r1 > 0 => 1 \in open
       /\ r2 > 0 => 2 \in open
       /\ r3 > 0 => 3 \in open
  BY <1>3, <1>7, <1>13, <1>14, <1>15, ZenonT(30) DEF q1, q2, q3, d1, d2, d3
<1>21. Chosen(open, u, t, r1, r2, r3, k1, k2, k3, c1, c2, c3)
  <2>1. /\ k1 = one_if(2 \in open /\ r2 > r1) + one_if(3 \in open /\ r3 > r1)
        /\ k2 = one_if(1 \in open /\ r1 >= r2) + one_if(3 \in open /\ r3 > r2)
        /\ k3 = one_if(1 \in open /\ r1 >= r3) + one_if(2 \in open /\ r2 >= r3)
    <3> HIDE DEF k1, k2, k3
    <3> QED BY <1>18, <1>19 DEF one_if
  <2> QED BY <2>1, <1>13, <1>17, <1>20, ZenonT(30) DEF Chosen
<1>22. /\ payment[1] = q1 + c1
       /\ payment[2] = q2 + c2
       /\ payment[3] = q3 + c3
  BY <1>3, <1>4, ZenonT(30) DEF q1, q2, q3
<1> HIDE DEF k1, k2, k3, c1, c2, c3
<1>23. /\ c1 \in {0, 1} /\ c2 \in {0, 1} /\ c3 \in {0, 1}
       /\ c1 + c2 + c3 = u
       /\ c1 = 1 => r1 > 0
       /\ c2 = 1 => r2 > 0
       /\ c3 = 1 => r3 > 0
  <2>1. t \in Nat \ {0} /\ u \in 0..2 /\ r1 \in Nat /\ r2 \in Nat /\ r3 \in Nat
    BY <1>1, <1>13, <1>17, ZenonT(30)
  <2> QED BY <2>1, <1>21, Choice
<1>24. payment[1] + payment[2] + payment[3] = amount
  BY <1>12, <1>13, <1>16, <1>22, <1>23
<1>25. ASSUME NEW d \in Nat, NEW p, NEW qq \in Nat, NEW rr \in Nat, NEW c \in {0, 1},
              p = qq + c, rr < t, amount * d = t * qq + rr, qq <= d,
              rr > 0 => qq < d, c = 1 => rr > 0
       PROVE  /\ p \in Nat /\ p <= d
              /\ p * t < amount * d + t /\ p * t > amount * d - t
  <2>1. t * qq \in Int /\ t \in Int /\ t > 0
    BY <1>1, <1>25
  <2>2. CASE c = 1
    <3>1. p * t = t * qq + t
      BY <2>1, <2>2, <1>25
    <3> QED BY <3>1, <2>1, <2>2, <1>25
  <2>3. CASE c = 0
    <3>1. p * t = t * qq
      BY <2>1, <2>3, <1>25
    <3> QED BY <3>1, <2>1, <2>3, <1>25
  <2> QED BY <2>2, <2>3, <1>25, ZenonT(30)
<1>26. \A i \in Buckets :
          /\ payment[i] \in Nat /\ payment[i] <= dues[i]
          /\ payment[i] * t < amount * dues[i] + t
          /\ payment[i] * t > amount * dues[i] - t
  <2>0. amount * d1 = t * q1 + r1 /\ amount * d2 = t * q2 + r2 /\ amount * d3 = t * q3 + r3
    BY <1>13, ZenonT(30) DEF d1, d2, d3
  <2>1. /\ payment[1] \in Nat /\ payment[1] <= d1
        /\ payment[1] * t < amount * d1 + t /\ payment[1] * t > amount * d1 - t
    BY <2>0, <1>13, <1>14, <1>15, <1>22, <1>23, <1>25, ZenonT(30)
  <2>2. /\ payment[2] \in Nat /\ payment[2] <= d2
        /\ payment[2] * t < amount * d2 + t /\ payment[2] * t > amount * d2 - t
    BY <2>0, <1>13, <1>14, <1>15, <1>22, <1>23, <1>25, ZenonT(30)
  <2>3. /\ payment[3] \in Nat /\ payment[3] <= d3
        /\ payment[3] * t < amount * d3 + t /\ payment[3] * t > amount * d3 - t
    BY <2>0, <1>13, <1>14, <1>15, <1>22, <1>23, <1>25, ZenonT(30)
  <2> QED BY <1>2, <2>1, <2>2, <2>3, ZenonT(30) DEF d1, d2, d3
<1> QED BY <1>24, <1>26, ZenonT(30) DEF Fair, payment, t
-----------------------------------------------------------------------------
(* One loan.                                                                    *)

LoanFields ==
    {"status", "borrower", "amount", "collateral_amount", "principal_paid", "income_paid",
     "accrued_interest", "interest_residual", "accrued_late_fee", "interest_rate", "due_date",
     "last_interest_ledger", "last_late_fee_ledger", "extension_count"}

Statuses ==
    {"None", "Pending", "Approved", "Repaid", "Defaulted", "Liquidated", "Cancelled", "Rejected"}

\* A loan as it is stored at ledger now.
Sound(loan, now) ==
    /\ DOMAIN loan = LoanFields
    /\ loan.status \in Statuses
    /\ loan.amount \in Nat /\ loan.principal_paid \in Nat /\ loan.principal_paid <= loan.amount
    /\ loan.collateral_amount \in Nat /\ loan.income_paid \in Nat
    /\ loan.accrued_interest \in Nat /\ loan.accrued_late_fee \in Nat
    /\ loan.interest_residual \in Nat /\ loan.interest_residual < PRECISION
    /\ loan.interest_rate \in Nat /\ loan.due_date \in Nat
    /\ loan.last_interest_ledger \in Nat /\ loan.last_interest_ledger <= now
    /\ loan.last_late_fee_ledger \in Nat
    /\ loan.extension_count \in Nat /\ loan.extension_count <= MAX_EXTENSIONS

\* The two agree on everything that accrual leaves alone.
Alike(loan, other) ==
    /\ other.status = loan.status /\ other.borrower = loan.borrower /\ other.amount = loan.amount
    /\ other.principal_paid = loan.principal_paid
    /\ other.collateral_amount = loan.collateral_amount
    /\ other.income_paid = loan.income_paid
    /\ other.interest_rate = loan.interest_rate /\ other.due_date = loan.due_date
    /\ other.extension_count = loan.extension_count

\* What does not fill a unit of interest is carried.
LEMMA Carried ==
    ASSUME NEW total \in Nat, NEW residual \in Nat
    PROVE  /\ total \div PRECISION \in Nat
           /\ residual + (total % PRECISION) \in Nat
           /\ (residual + (total % PRECISION)) \div PRECISION \in Nat
           /\ (residual + (total % PRECISION)) % PRECISION \in Nat
           /\ (residual + (total % PRECISION)) % PRECISION < PRECISION
<1>1. total \div PRECISION \in Nat /\ total % PRECISION \in Nat
  BY DebtAssumption, Remainders, ZenonT(30)
<1> DEFINE c == residual + (total % PRECISION)
<1>2. c \in Nat
  BY <1>1
<1> HIDE DEF c
<1>3. c \div PRECISION \in Nat /\ c % PRECISION \in Nat /\ c % PRECISION < PRECISION
  BY <1>2, DebtAssumption, Remainders, ZenonT(30)
<1> QED BY <1>1, <1>2, <1>3, ZenonT(30) DEF c

\* An amount at a rate over some ledgers.
LEMMA Charge ==
    ASSUME NEW a \in Nat, NEW b \in Nat, NEW c \in Nat
    PROVE  /\ (a * b * c) \div (BPS * DEFAULT_TERM_LEDGERS) \in Nat
           /\ (a * b * c * PRECISION) \div (BPS * DEFAULT_TERM_LEDGERS) \in Nat
<1> DEFINE x == a * b * c
           y == x * PRECISION
           z == BPS * DEFAULT_TERM_LEDGERS
<1>1. a * b \in Nat
  OBVIOUS
<1>2. x \in Nat
  BY <1>1
<1> HIDE DEF x
<1>3. y \in Nat
  BY <1>2, DebtAssumption
<1>4. z \in Nat \ {0}
  BY DebtAssumption
<1> HIDE DEF y, z
<1>5. x \div z \in Nat /\ y \div z \in Nat
  BY <1>2, <1>3, <1>4, Remainders, ZenonT(30)
<1> QED BY <1>5, ZenonT(30) DEF x, y, z

\* accrue_interest.
LEMMA InterestKeeps ==
    ASSUME NEW now \in Nat, NEW loan, Sound(loan, now)
    PROVE  Sound(accrue_interest(loan, now), now) /\ Alike(loan, accrue_interest(loan, now))
<1> DEFINE total == (remaining_principal(loan) * loan.interest_rate * (now - loan.last_interest_ledger)
                       * PRECISION) \div (BPS * DEFAULT_TERM_LEDGERS)
           carried == loan.interest_residual + (total % PRECISION)
           more == loan.accrued_interest + total \div PRECISION + carried \div PRECISION
           rest == carried % PRECISION
           new == accrue_interest(loan, now)
<1>1. \/ new = loan
      \/ new = [loan EXCEPT !.last_interest_ledger = now]
      \/ new = [loan EXCEPT !.accrued_interest = more, !.interest_residual = rest,
                            !.last_interest_ledger = now]
  BY ZenonT(30) DEF accrue_interest
<1>2. /\ remaining_principal(loan) \in Nat /\ loan.interest_rate \in Nat
      /\ now - loan.last_interest_ledger \in Nat
  BY DEF Sound, remaining_principal
<1>3. total \in Nat
  BY <1>2, Charge, ZenonT(30)
<1> HIDE DEF total, new
<1>4. more \in Nat /\ rest \in Nat /\ rest < PRECISION
  <2>1. loan.interest_residual \in Nat /\ loan.accrued_interest \in Nat
    BY ZenonT(30) DEF Sound
  <2>2. /\ total \div PRECISION \in Nat /\ carried \div PRECISION \in Nat
        /\ carried % PRECISION \in Nat /\ carried % PRECISION < PRECISION
    BY <1>3, <2>1, Carried, ZenonT(30)
  <2> HIDE DEF carried
  <2> QED BY <2>1, <2>2
<1> HIDE DEF carried, more, rest
<1>5. CASE new = loan
  BY <1>5, ZenonT(30) DEF Alike, new
<1>6. CASE new = [loan EXCEPT !.last_interest_ledger = now]
  <2>1. Sound(new, now) /\ Alike(loan, new)
    BY <1>6 DEF Alike, Sound, LoanFields
  <2> QED BY <2>1, ZenonT(30) DEF new
<1>7. CASE new = [loan EXCEPT !.accrued_interest = more, !.interest_residual = rest,
                              !.last_interest_ledger = now]
  <2>1. Sound(new, now) /\ Alike(loan, new)
    BY <1>4, <1>7 DEF Alike, Sound, LoanFields
  <2> QED BY <2>1, ZenonT(30) DEF new
<1> QED BY <1>1, <1>5, <1>6, <1>7, ZenonT(30)

\* accrue_late_fee.
LEMMA FeeKeeps ==
    ASSUME NEW now \in Nat, NEW loan, Sound(loan, now), NEW grace \in Nat, NEW rate \in Nat
    PROVE  /\ Sound(accrue_late_fee(loan, now, grace, rate), now)
           /\ Alike(loan, accrue_late_fee(loan, now, grace, rate))
<1> DEFINE ends == loan.due_date + grace
           start == IF loan.last_late_fee_ledger > ends THEN loan.last_late_fee_ledger ELSE ends
           fee == (loan.amount * rate * (now - start)) \div (BPS * DEFAULT_TERM_LEDGERS)
           capacity == MAX_PENALTY_MULTIPLIER * loan.amount - debt(loan)
           charged == IF capacity <= 0 THEN 0 ELSE IF fee <= capacity THEN fee ELSE capacity
           more == loan.accrued_late_fee + charged
           new == accrue_late_fee(loan, now, grace, rate)
<1>1. \/ new = loan
      \/ new = [loan EXCEPT !.last_late_fee_ledger = now]
      \/ now > start /\ new = [loan EXCEPT !.accrued_late_fee = more, !.last_late_fee_ledger = now]
  <2>1. start \in Nat
    BY DEF Sound
  <2> QED BY <2>1 DEF accrue_late_fee
<1>2. /\ loan.amount \in Nat /\ loan.accrued_late_fee \in Nat /\ start \in Nat
  BY DEF Sound
<1>3. capacity \in Int
  <2>1. debt(loan) \in Int
    BY DEF Sound, debt, remaining_principal
  <2>2. MAX_PENALTY_MULTIPLIER * loan.amount \in Int
    BY <1>2, DebtAssumption
  <2> QED BY <2>1, <2>2
<1> HIDE DEF start, capacity, new
<1>4. now > start => fee \in Nat
  <2> SUFFICES ASSUME now > start PROVE fee \in Nat
    OBVIOUS
  <2>1. now - start \in Nat
    BY <1>2
  <2> QED BY <1>2, <2>1, Charge, ZenonT(30)
<1> HIDE DEF fee
<1>5. now > start => more \in Nat
  BY <1>2, <1>3, <1>4
<1> HIDE DEF more
<1>6. CASE new = loan
  BY <1>6, ZenonT(30) DEF Alike, new
<1>7. CASE new = [loan EXCEPT !.last_late_fee_ledger = now]
  <2>1. Sound(new, now) /\ Alike(loan, new)
    BY <1>7, ZenonT(30) DEF Alike, Sound, LoanFields
  <2> QED BY <2>1, ZenonT(30) DEF new
<1>8. CASE now > start /\ new = [loan EXCEPT !.accrued_late_fee = more, !.last_late_fee_ledger = now]
  <2>1. Sound(new, now) /\ Alike(loan, new)
    BY <1>5, <1>8, ZenonT(30) DEF Alike, Sound, LoanFields
  <2> QED BY <2>1, ZenonT(30) DEF new
<1> QED BY <1>1, <1>6, <1>7, <1>8, ZenonT(30)

\* apply_debt_recovery: the principal paid, and what is left of each bucket.
LEMMA RecoveryKeeps ==
    ASSUME NEW now, NEW loan, Sound(loan, now), NEW amount \in Nat, amount <= debt(loan)
    PROVE  LET paid == apply_debt_recovery(loan, amount)
               payment == proportional_repayment_split(dues_of(loan), amount)
           IN  /\ Sound(paid, now)
               /\ paid.status = loan.status /\ paid.borrower = loan.borrower
               /\ paid.amount = loan.amount /\ paid.collateral_amount = loan.collateral_amount
               /\ paid.due_date = loan.due_date
               /\ amount > 0 =>
                     /\ payment[1] \in Nat /\ payment[2] \in Nat /\ payment[3] \in Nat
                     /\ payment[1] + payment[2] + payment[3] = amount
                     /\ payment[1] <= remaining_principal(loan)
                     /\ remaining_principal(paid) = remaining_principal(loan) - payment[1]
<1> DEFINE paid == apply_debt_recovery(loan, amount)
           dues == dues_of(loan)
           payment == proportional_repayment_split(dues, amount)
<1>1. CASE amount = 0
  <2>1. paid = loan
    BY <1>1 DEF apply_debt_recovery
  <2> QED BY <1>1, <2>1
<1>2. CASE amount > 0
  <2>1. /\ dues[1] = remaining_principal(loan) /\ dues[2] = loan.accrued_interest
        /\ dues[3] = loan.accrued_late_fee
    BY ZenonT(30) DEF dues_of
  <2>2. remaining_principal(loan) \in Nat /\ loan.accrued_interest \in Nat /\ loan.accrued_late_fee \in Nat
    BY DEF Sound, remaining_principal
  <2>3. amount <= total_due(dues)
    BY <2>1, ZenonT(30) DEF total_due, debt
  <2>4. paid = [loan EXCEPT !.principal_paid = @ + payment[1], !.accrued_interest = @ - payment[2],
                            !.accrued_late_fee = @ - payment[3],
                            !.income_paid = @ + payment[2] + payment[3]]
    BY <1>2 DEF apply_debt_recovery
  <2> HIDE DEF dues
  <2>5. Fair(dues, amount, payment)
    <3>1. amount \in Nat \ {0}
      BY <1>2
    <3> QED BY <2>1, <2>2, <2>3, <3>1, SplitFair, ZenonT(30)
  <2> HIDE DEF payment, paid
  <2>6. /\ payment[1] \in Nat /\ payment[2] \in Nat /\ payment[3] \in Nat
        /\ payment[1] + payment[2] + payment[3] = amount
        /\ payment[1] <= remaining_principal(loan) /\ payment[2] <= loan.accrued_interest
        /\ payment[3] <= loan.accrued_late_fee
    <3>1. 1 \in Buckets /\ 2 \in Buckets /\ 3 \in Buckets
      BY DEF Buckets
    <3> QED BY <2>1, <2>5, <3>1, ZenonT(30) DEF Fair
  <2>7. /\ DOMAIN paid = LoanFields
        /\ paid.principal_paid = loan.principal_paid + payment[1]
        /\ paid.accrued_interest = loan.accrued_interest - payment[2]
        /\ paid.accrued_late_fee = loan.accrued_late_fee - payment[3]
        /\ paid.income_paid = loan.income_paid + payment[2] + payment[3]
        /\ paid.status = loan.status /\ paid.borrower = loan.borrower /\ paid.amount = loan.amount
        /\ paid.collateral_amount = loan.collateral_amount
        /\ paid.interest_residual = loan.interest_residual
        /\ paid.interest_rate = loan.interest_rate /\ paid.due_date = loan.due_date
        /\ paid.last_interest_ledger = loan.last_interest_ledger
        /\ paid.last_late_fee_ledger = loan.last_late_fee_ledger
        /\ paid.extension_count = loan.extension_count
    BY <2>4, ZenonT(30) DEF Sound, LoanFields
  <2>8. Sound(paid, now)
    BY <2>2, <2>6, <2>7 DEF Sound, remaining_principal
  <2>9. remaining_principal(paid) = remaining_principal(loan) - payment[1]
    BY <2>6, <2>7 DEF Sound, remaining_principal
  <2> QED BY <2>6, <2>7, <2>8, <2>9, ZenonT(30) DEF paid, payment, dues
<1> QED BY <1>1, <1>2

\* Rust's division of whole numbers by a positive one, as the contract uses it.
LEMMA DivBounds ==
    ASSUME NEW x \in Int, NEW y \in Nat \ {0}
    PROVE  /\ x \div y \in Int
           /\ (x \div y) * y <= x /\ x < (x \div y) * y + y
           /\ x >= 0 => x \div y >= 0
  OBVIOUS

\* A product of whole numbers keeps the order of one factor if the other is not negative.
LEMMA TimesMonotone ==
    ASSUME NEW x \in Int, NEW y \in Int, NEW z \in Nat, x <= y
    PROVE  x * z <= y * z
  OBVIOUS

\* The share of the collateral that a smaller loan gives back.
LEMMA ReturnedShare ==
    ASSUME NEW c \in Nat, NEW rest \in Nat, NEW n \in Nat, 0 < n, n < rest
    PROVE  /\ (c * (rest - n)) \div rest \in Nat
           /\ (c * (rest - n)) \div rest <= c
<1> DEFINE x == c * (rest - n)
           q == x \div rest
<1>1. x \in Nat
  OBVIOUS
<1>2. c * rest \in Nat /\ x <= c * rest
  <2>1. x = c * rest - c * n /\ c * n \in Nat /\ c * rest \in Nat
    OBVIOUS
  <2> QED BY <2>1
<1> HIDE DEF x
<1>3. q \in Int /\ q >= 0 /\ q * rest <= x
  BY <1>1, DivBounds
<1> HIDE DEF q
<1>4. q <= c
  <2> SUFFICES ASSUME q > c PROVE FALSE
    BY <1>3
  <2>1. (c + 1) * rest <= q * rest
    BY <1>3, TimesMonotone
  <2>2. (c + 1) * rest = c * rest + rest
    OBVIOUS
  <2>3. q * rest \in Int
    BY <1>3
  <2> QED BY <1>1, <1>2, <1>3, <2>1, <2>2, <2>3
<1> QED BY <1>3, <1>4 DEF q, x

-----------------------------------------------------------------------------
(* The books over all loans, and a step that replaces one loan.                  *)

\* Collateral is held for approved loans only, and nothing is paid on a request.
Kept(loan) ==
    /\ loan.collateral_amount > 0 => loan.status = "Approved"
    /\ loan.status = "Pending" => loan.principal_paid = 0

\* The loans as they are stored at ledger now, with borrowers among users.
Stored(ls, ids, users, now) ==
    /\ IsFiniteSet(ids) /\ ids \subseteq Nat /\ DOMAIN ls = ids
    /\ \A id \in ids : Sound(ls[id], now) /\ Kept(ls[id]) /\ ls[id].borrower \in users

principals(ls, ids) == SumFunctionOnSet([id \in ids |-> principal_out(ls[id])], ids)
amounts(ls, ids) == SumFunctionOnSet([id \in ids |-> amount_out(ls[id])], ids)
collaterals(ls, ids) == SumFunctionOnSet([id \in ids |-> ls[id].collateral_amount], ids)
slots(ls, ids, u) == {id \in ids : takes_slot(ls[id], u)}

\* The counts against the limit on loans.
Counted(ls, ids, users, count) ==
    count \in [users -> Nat] /\ \A u \in users : count[u] = Cardinality(slots(ls, ids, u))

\* The counters and balances are those of the loans: the last id given out, the counts
\* against the limits, the amounts and the principal that are out, the collateral held.
Books(ls, ids, users, now, counter, count, out, held, lent) ==
    /\ Stored(ls, ids, users, now)
    /\ counter \in Nat /\ \A id \in ids : id > counter => ls[id].status = "None"
    /\ Counted(ls, ids, users, count)
    /\ out = amounts(ls, ids) /\ held = collaterals(ls, ids) /\ lent = principals(ls, ids)

\* What a loan counts for is a natural number.
LEMMA Weights ==
    ASSUME NEW loan, NEW now, Sound(loan, now)
    PROVE  /\ principal_out(loan) \in Nat /\ amount_out(loan) \in Nat
           /\ loan.collateral_amount \in Nat /\ remaining_principal(loan) \in Nat
           /\ loan.amount \in Nat
  BY DEF Sound, principal_out, amount_out, remaining_principal

\* What the books hold, and one loan in them.
LEMMA Entry ==
    ASSUME NEW ls, NEW ids, NEW users, NEW now, NEW counter, NEW count, NEW out, NEW held, NEW lent,
           Books(ls, ids, users, now, counter, count, out, held, lent)
    PROVE  /\ out \in Nat /\ held \in Nat /\ lent \in Nat
           /\ \A id \in ids :
                 /\ Sound(ls[id], now) /\ Kept(ls[id]) /\ ls[id].borrower \in users
                 /\ principal_out(ls[id]) <= lent
<1> DEFINE f == [id \in ids |-> principal_out(ls[id])]
           g == [id \in ids |-> amount_out(ls[id])]
           h == [id \in ids |-> ls[id].collateral_amount]
<1>1. IsFiniteSet(ids) /\ \A id \in ids : Sound(ls[id], now) /\ Kept(ls[id]) /\ ls[id].borrower \in users
  BY ZenonT(30) DEF Books, Stored
<1>2. ids \in SUBSET ids /\ \A id \in ids : f[id] \in Nat /\ g[id] \in Nat /\ h[id] \in Nat
  BY <1>1, Weights, ZenonT(30)
<1>3. \A id \in ids : f[id] = principal_out(ls[id])
  OBVIOUS
<1>4. /\ lent = SumFunctionOnSet(f, ids) /\ out = SumFunctionOnSet(g, ids)
      /\ held = SumFunctionOnSet(h, ids)
  BY ZenonT(30) DEF Books, principals, amounts, collaterals
<1> HIDE DEF f, g, h
<1>5. lent \in Nat /\ out \in Nat /\ held \in Nat
  BY <1>1, <1>2, <1>4, SumNat, ZenonT(30)
<1>6. \A id \in ids : f[id] <= lent
  BY <1>1, <1>2, <1>4, SumCovers, ZenonT(30)
<1> QED BY <1>1, <1>3, <1>5, <1>6, ZenonT(30)

\* The sums follow the loan that is replaced.
WeightsMove(ls, new, ids, id, loan) ==
    /\ principals(new, ids) = principals(ls, ids) + principal_out(loan) - principal_out(ls[id])
    /\ amounts(new, ids) = amounts(ls, ids) + amount_out(loan) - amount_out(ls[id])
    /\ collaterals(new, ids) = collaterals(ls, ids) + loan.collateral_amount - ls[id].collateral_amount

\* The sums, when one loan is replaced.
LEMMA SumsMove ==
    ASSUME NEW ls, NEW ids, NEW users, NEW now, Stored(ls, ids, users, now),
           NEW id \in ids, NEW loan, Sound(loan, now), NEW new, new = [ls EXCEPT ![id] = loan]
    PROVE  WeightsMove(ls, new, ids, id, loan)
<1> DEFINE f(l) == [x \in ids |-> principal_out(l[x])]
           g(l) == [x \in ids |-> amount_out(l[x])]
           h(l) == [x \in ids |-> l[x].collateral_amount]
<1>1. /\ IsFiniteSet(ids) /\ new[id] = loan /\ \A x \in ids \ {id} : new[x] = ls[x]
      /\ \A x \in ids : Sound(ls[x], now)
  BY ZenonT(30) DEF Stored
<1>2. \A x \in ids : Sound(new[x], now)
  BY <1>1, ZenonT(30)
<1>3. \A x \in ids : /\ f(ls)[x] = principal_out(ls[x]) /\ f(new)[x] = principal_out(new[x])
                     /\ g(ls)[x] = amount_out(ls[x]) /\ g(new)[x] = amount_out(new[x])
                     /\ h(ls)[x] = ls[x].collateral_amount /\ h(new)[x] = new[x].collateral_amount
  OBVIOUS
<1> DEFINE f1 == f(ls)
           f2 == f(new)
           g1 == g(ls)
           g2 == g(new)
           h1 == h(ls)
           h2 == h(new)
<1>4. /\ \A x \in ids : f1[x] \in Int /\ f2[x] \in Int
      /\ \A x \in ids : g1[x] \in Int /\ g2[x] \in Int
      /\ \A x \in ids : h1[x] \in Int /\ h2[x] \in Int
  <2>1. \A x \in ids : /\ principal_out(ls[x]) \in Nat /\ principal_out(new[x]) \in Nat
                       /\ amount_out(ls[x]) \in Nat /\ amount_out(new[x]) \in Nat
                       /\ ls[x].collateral_amount \in Nat /\ new[x].collateral_amount \in Nat
    BY <1>1, <1>2, Weights, ZenonT(30)
  <2> QED BY <1>3, <2>1
<1>5. \A x \in ids \ {id} : f1[x] = f2[x] /\ g1[x] = g2[x] /\ h1[x] = h2[x]
  BY <1>1, <1>3, ZenonT(30)
<1>6. /\ principals(ls, ids) = SumFunctionOnSet(f1, ids) /\ principals(new, ids) = SumFunctionOnSet(f2, ids)
      /\ amounts(ls, ids) = SumFunctionOnSet(g1, ids) /\ amounts(new, ids) = SumFunctionOnSet(g2, ids)
      /\ collaterals(ls, ids) = SumFunctionOnSet(h1, ids)
      /\ collaterals(new, ids) = SumFunctionOnSet(h2, ids)
  BY ZenonT(30) DEF principals, amounts, collaterals
<1>7. /\ f1[id] = principal_out(ls[id]) /\ f2[id] = principal_out(loan)
      /\ g1[id] = amount_out(ls[id]) /\ g2[id] = amount_out(loan)
      /\ h1[id] = ls[id].collateral_amount /\ h2[id] = loan.collateral_amount
  BY <1>1, <1>3, ZenonT(30)
<1> HIDE DEF f1, f2, g1, g2, h1, h2
<1>8. SumFunctionOnSet(f2, ids) = SumFunctionOnSet(f1, ids) + f2[id] - f1[id]
  BY <1>1, <1>4, <1>5, SumUpdate
<1>9. SumFunctionOnSet(g2, ids) = SumFunctionOnSet(g1, ids) + g2[id] - g1[id]
  BY <1>1, <1>4, <1>5, SumUpdate
<1>10. SumFunctionOnSet(h2, ids) = SumFunctionOnSet(h1, ids) + h2[id] - h1[id]
  BY <1>1, <1>4, <1>5, SumUpdate
<1> QED BY <1>6, <1>7, <1>8, <1>9, <1>10, ZenonT(30) DEF WeightsMove

\* The count against the limit on loans follows the loan that is replaced.
SlotsMove(old, loan, users, count, counts) ==
    \/ counts = count /\ \A u \in users : takes_slot(loan, u) <=> takes_slot(old, u)
    \/ /\ counts = count_down(count, old.borrower) /\ takes_slot(old, old.borrower)
       /\ \A u \in users : ~takes_slot(loan, u)
    \/ /\ counts = [count EXCEPT ![loan.borrower] = @ + 1] /\ takes_slot(loan, loan.borrower)
       /\ \A u \in users : ~takes_slot(old, u)

\* The counts, when one loan is replaced.
LEMMA CountsMove ==
    ASSUME NEW ls, NEW ids, NEW users, NEW now, Stored(ls, ids, users, now), NEW id \in ids,
           NEW loan, loan.borrower \in users, NEW new, new = [ls EXCEPT ![id] = loan],
           NEW count, Counted(ls, ids, users, count),
           NEW counts, SlotsMove(ls[id], loan, users, count, counts)
    PROVE  Counted(new, ids, users, counts)
<1> DEFINE old == ls[id]
           A(u) == slots(ls, ids, u)
           B(u) == slots(new, ids, u)
<1>0. /\ IsFiniteSet(ids) /\ new[id] = loan /\ \A x \in ids \ {id} : new[x] = ls[x]
      /\ count \in [users -> Nat]
  BY ZenonT(30) DEF Stored, Counted
<1>1. \A u : A(u) \in SUBSET ids /\ B(u) \in SUBSET ids /\ A(u) \ {id} = B(u) \ {id}
  BY <1>0, ZenonT(30) DEF slots
<1>2. \A u : (id \in A(u) <=> takes_slot(old, u)) /\ (id \in B(u) <=> takes_slot(loan, u))
  BY <1>0, ZenonT(30) DEF slots
<1> HIDE DEF A, B
<1>3. \A u : /\ Cardinality(A(u)) \in Nat /\ Cardinality(B(u)) \in Nat
             /\ (takes_slot(old, u) <=> takes_slot(loan, u)) => Cardinality(B(u)) = Cardinality(A(u))
             /\ takes_slot(loan, u) /\ ~takes_slot(old, u) => Cardinality(B(u)) = Cardinality(A(u)) + 1
             /\ takes_slot(old, u) /\ ~takes_slot(loan, u) => Cardinality(A(u)) = Cardinality(B(u)) + 1
  <2> SUFFICES ASSUME NEW u
               PROVE  /\ Cardinality(A(u)) \in Nat /\ Cardinality(B(u)) \in Nat
                      /\ (takes_slot(old, u) <=> takes_slot(loan, u)) => Cardinality(B(u)) = Cardinality(A(u))
                      /\ takes_slot(loan, u) /\ ~takes_slot(old, u) => Cardinality(B(u)) = Cardinality(A(u)) + 1
                      /\ takes_slot(old, u) /\ ~takes_slot(loan, u) => Cardinality(A(u)) = Cardinality(B(u)) + 1
    OBVIOUS
  <2>1. /\ Cardinality(A(u)) \in Nat /\ Cardinality(B(u)) \in Nat
        /\ (id \in A(u) <=> id \in B(u)) => Cardinality(B(u)) = Cardinality(A(u))
        /\ id \in B(u) /\ id \notin A(u) => Cardinality(B(u)) = Cardinality(A(u)) + 1
        /\ id \notin B(u) /\ id \in A(u) => Cardinality(A(u)) = Cardinality(B(u)) + 1
    BY <1>0, <1>1, CountUpdate
  <2> QED BY <1>2, <2>1, ZenonT(30)
<1>4. \A u \in users : count[u] = Cardinality(A(u))
  BY ZenonT(30) DEF A, Counted
<1>5. old.borrower \in users /\ loan.borrower \in users
  BY ZenonT(30) DEF Stored
<1>6. /\ \A u : takes_slot(old, u) => u = old.borrower
      /\ \A u : takes_slot(loan, u) => u = loan.borrower
  BY ZenonT(30) DEF takes_slot
<1>7. counts \in [users -> Nat] /\ \A u \in users : counts[u] = Cardinality(B(u))
  <2> HIDE DEF old
  <2>1. CASE counts = count /\ \A u \in users : takes_slot(loan, u) <=> takes_slot(old, u)
    BY <1>0, <1>3, <1>4, <2>1, ZenonT(30)
  <2>2. CASE /\ counts = count_down(count, old.borrower) /\ takes_slot(old, old.borrower)
             /\ \A u \in users : ~takes_slot(loan, u)
    <3>1. count[old.borrower] > 0
      BY <1>3, <1>4, <1>5, <2>2
    <3>2. counts \in [users -> Nat]
      BY <1>0, <1>5, <2>2 DEF count_down
    <3>3. counts[old.borrower] = count[old.borrower] - 1
          /\ \A u \in users : u # old.borrower => counts[u] = count[u]
      BY <1>0, <1>5, <2>2, <3>1 DEF count_down
    <3> QED BY <1>3, <1>4, <1>5, <1>6, <2>2, <3>2, <3>3
  <2>3. CASE /\ counts = [count EXCEPT ![loan.borrower] = @ + 1] /\ takes_slot(loan, loan.borrower)
             /\ \A u \in users : ~takes_slot(old, u)
    <3>1. counts \in [users -> Nat]
      BY <1>0, <1>5, <2>3
    <3>2. counts[loan.borrower] = count[loan.borrower] + 1
          /\ \A u \in users : u # loan.borrower => counts[u] = count[u]
      BY <1>0, <1>5, <2>3, ZenonT(30)
    <3> QED BY <1>3, <1>4, <1>5, <1>6, <2>3, <3>1, <3>2
  <2> QED BY <2>1, <2>2, <2>3, ZenonT(30) DEF SlotsMove, old
<1> QED BY <1>7, ZenonT(30) DEF B, Counted

\* One loan is replaced, and the counters and balances move by what it counts for.
LEMMA Replacing ==
    ASSUME NEW ls, NEW ids, NEW users, NEW now, NEW counter, NEW count, NEW out, NEW held, NEW lent,
           Books(ls, ids, users, now, counter, count, out, held, lent),
           NEW id \in ids, NEW loan, Sound(loan, now), Kept(loan), loan.borrower \in users,
           NEW counters, \/ counters = counter /\ (loan.status # "None" => ls[id].status # "None")
                         \/ counters = id /\ id = counter + 1,
           NEW counts, SlotsMove(ls[id], loan, users, count, counts)
    PROVE  Books([ls EXCEPT ![id] = loan], ids, users, now, counters, counts,
                 out + amount_out(loan) - amount_out(ls[id]),
                 held + loan.collateral_amount - ls[id].collateral_amount,
                 lent + principal_out(loan) - principal_out(ls[id]))
<1> DEFINE new == [ls EXCEPT ![id] = loan]
<1>1. /\ Stored(ls, ids, users, now) /\ counter \in Nat
      /\ \A x \in ids : x > counter => ls[x].status = "None"
      /\ Counted(ls, ids, users, count)
      /\ out = amounts(ls, ids) /\ held = collaterals(ls, ids) /\ lent = principals(ls, ids)
  BY ZenonT(30) DEF Books
<1>2. new = [ls EXCEPT ![id] = loan]
  OBVIOUS
<1>3. /\ DOMAIN new = ids /\ new[id] = loan /\ \A x \in ids \ {id} : new[x] = ls[x]
      /\ IsFiniteSet(ids) /\ ids \subseteq Nat
  BY <1>1, ZenonT(30) DEF Stored
<1> HIDE DEF new
<1>4. Stored(new, ids, users, now)
  BY <1>1, <1>3, ZenonT(30) DEF Stored
<1>5. counters \in Nat /\ \A x \in ids : x > counters => new[x].status = "None"
  BY <1>1, <1>3
<1>6. Counted(new, ids, users, counts)
  BY <1>1, <1>2, CountsMove, ZenonT(30)
<1>7. WeightsMove(ls, new, ids, id, loan)
  BY <1>1, <1>2, SumsMove, ZenonT(30)
<1>8. Books(new, ids, users, now, counters, counts,
            out + amount_out(loan) - amount_out(ls[id]),
            held + loan.collateral_amount - ls[id].collateral_amount,
            lent + principal_out(loan) - principal_out(ls[id]))
  BY <1>1, <1>4, <1>5, <1>6, <1>7, ZenonT(30) DEF Books, WeightsMove
<1> QED BY <1>2, <1>8, ZenonT(30)

-----------------------------------------------------------------------------
(* The books after each of the operations on a loan.                             *)

\* An entry that holds no loan.
Empty(loan) ==
    /\ DOMAIN loan = LoanFields /\ loan.status = "None"
    /\ \A f \in LoanFields \ {"status", "borrower"} : loan[f] = 0

\* A request takes the next entry and a slot of the borrower's.
LEMMA Requesting ==
    ASSUME NEW ls, NEW ids, NEW users, NEW now \in Nat, NEW counter, NEW count, NEW out, NEW held, NEW lent,
           Books(ls, ids, users, now, counter, count, out, held, lent), counter + 1 \in ids,
           NEW none, Empty(none), NEW u \in users, NEW amount \in Nat, NEW rate \in Nat
    PROVE  Books([ls EXCEPT ![counter + 1] = [none EXCEPT !.status = "Pending", !.borrower = u,
                                                          !.amount = amount, !.interest_rate = rate]],
                 ids, users, now, counter + 1, [count EXCEPT ![u] = @ + 1], out, held, lent)
<1> DEFINE id == counter + 1
           old == ls[id]
           loan == [none EXCEPT !.status = "Pending", !.borrower = u, !.amount = amount,
                                !.interest_rate = rate]
<1>1. old.status = "None"
  BY DEF Books
<1>2. out \in Nat /\ held \in Nat /\ lent \in Nat /\ Sound(old, now) /\ Kept(old)
  BY Entry, ZenonT(30)
<1>3. /\ DOMAIN loan = LoanFields /\ loan.status = "Pending" /\ loan.borrower = u
      /\ loan.amount = amount /\ loan.interest_rate = rate
      /\ \A f \in LoanFields \ {"status", "borrower", "amount", "interest_rate"} : loan[f] = 0
  BY ZenonT(30) DEF Empty, LoanFields
<1> HIDE DEF loan, old
<1>4. Sound(loan, now) /\ Kept(loan)
  BY <1>3, DebtAssumption DEF Sound, Kept, LoanFields, Statuses
<1>5. amount_out(loan) = 0 /\ principal_out(loan) = 0 /\ loan.collateral_amount = 0
  BY <1>3, ZenonT(30) DEF amount_out, principal_out, LoanFields
<1>6. amount_out(old) = 0 /\ principal_out(old) = 0 /\ old.collateral_amount = 0
  BY <1>1, <1>2 DEF amount_out, principal_out, Sound, Kept
<1>7. SlotsMove(old, loan, users, count, [count EXCEPT ![u] = @ + 1])
  BY <1>1, <1>3, ZenonT(30) DEF SlotsMove, takes_slot
<1> HIDE DEF id
<1>8. id \in ids /\ id = counter + 1
  BY ZenonT(30) DEF id
<1>9. Books([ls EXCEPT ![id] = loan], ids, users, now, id, [count EXCEPT ![u] = @ + 1],
            out + amount_out(loan) - amount_out(ls[id]),
            held + loan.collateral_amount - ls[id].collateral_amount,
            lent + principal_out(loan) - principal_out(ls[id]))
  BY <1>3, <1>4, <1>7, <1>8, Replacing, ZenonT(30) DEF old
<1> QED BY <1>2, <1>5, <1>6, <1>9 DEF old, loan, id

\* A loan that goes on with its status, for a change of dates and of collateral.
Dated(old, loan, now) ==
    /\ DOMAIN loan = LoanFields
    /\ \A f \in LoanFields \ {"collateral_amount", "due_date", "extension_count"} : loan[f] = old[f]
    /\ loan.collateral_amount \in Nat /\ loan.due_date \in Nat
    /\ loan.extension_count \in Nat /\ loan.extension_count <= MAX_EXTENSIONS
    /\ loan.collateral_amount > 0 => old.status = "Approved"

\* Such a loan moves the collateral that is held, and nothing else.
LEMMA Dating ==
    ASSUME NEW ls, NEW ids, NEW users, NEW now, NEW counter, NEW count, NEW out, NEW held, NEW lent,
           Books(ls, ids, users, now, counter, count, out, held, lent),
           NEW id \in ids, NEW loan, Dated(ls[id], loan, now)
    PROVE  Books([ls EXCEPT ![id] = loan], ids, users, now, counter, count, out,
                 held + loan.collateral_amount - ls[id].collateral_amount, lent)
<1> DEFINE old == ls[id]
<1>1. /\ out \in Nat /\ held \in Nat /\ lent \in Nat
      /\ Sound(old, now) /\ Kept(old) /\ old.borrower \in users
  BY Entry, ZenonT(30)
<1> HIDE DEF old
<1>2. Dated(old, loan, now)
  BY ZenonT(30) DEF old
<1>3. Sound(loan, now) /\ Kept(loan)
  BY <1>1, <1>2, ZenonT(30) DEF Dated, Sound, Kept, LoanFields
<1>4. loan.borrower \in users /\ loan.status = old.status
  BY <1>1, <1>2, ZenonT(30) DEF Dated, LoanFields
<1>5. amount_out(loan) = amount_out(old) /\ principal_out(loan) = principal_out(old)
  BY <1>2, ZenonT(30) DEF Dated, amount_out, principal_out, remaining_principal, LoanFields
<1>6. SlotsMove(old, loan, users, count, count)
  BY <1>2, ZenonT(30) DEF Dated, SlotsMove, takes_slot, LoanFields
<1>7. amount_out(old) \in Nat /\ principal_out(old) \in Nat
  BY <1>1, Weights, ZenonT(30)
<1>8. Books([ls EXCEPT ![id] = loan], ids, users, now, counter, count,
            out + amount_out(loan) - amount_out(old),
            held + loan.collateral_amount - old.collateral_amount,
            lent + principal_out(loan) - principal_out(old))
  BY <1>3, <1>4, <1>6, Replacing, ZenonT(30) DEF old
<1>9. out + amount_out(loan) - amount_out(old) = out /\ lent + principal_out(loan) - principal_out(old) = lent
  BY <1>1, <1>5, <1>7
<1> QED BY <1>8, <1>9, ZenonT(30) DEF old

\* Collateral comes in.
LEMMA Securing ==
    ASSUME NEW ls, NEW ids, NEW users, NEW now, NEW counter, NEW count, NEW out, NEW held, NEW lent,
           Books(ls, ids, users, now, counter, count, out, held, lent),
           NEW id \in ids, ls[id].status = "Approved", NEW amount \in Nat
    PROVE  Books([ls EXCEPT ![id].collateral_amount = @ + amount], ids, users, now, counter, count, out,
                 held + amount, lent)
<1> DEFINE old == ls[id]
           loan == [old EXCEPT !.collateral_amount = @ + amount]
<1>1. held \in Nat /\ Sound(old, now)
  BY Entry, ZenonT(30)
<1>2. [ls EXCEPT ![id].collateral_amount = @ + amount] = [ls EXCEPT ![id] = loan]
  BY ZenonT(30) DEF Books, Stored
<1>3. Dated(old, loan, now) /\ loan.collateral_amount = old.collateral_amount + amount
  BY <1>1 DEF Dated, Sound, LoanFields
<1>4. old.collateral_amount \in Nat
  BY <1>1, ZenonT(30) DEF Sound
<1> HIDE DEF loan
<1>5. Books([ls EXCEPT ![id] = loan], ids, users, now, counter, count, out,
            held + loan.collateral_amount - old.collateral_amount, lent)
  BY <1>3, Dating, ZenonT(30)
<1>6. held + loan.collateral_amount - old.collateral_amount = held + amount
  BY <1>1, <1>3, <1>4
<1> QED BY <1>2, <1>5, <1>6, ZenonT(30) DEF loan

\* Collateral of a loan that is not approved is released: there is none.
LEMMA Releasing ==
    ASSUME NEW ls, NEW ids, NEW users, NEW now, NEW counter, NEW count, NEW out, NEW held, NEW lent,
           Books(ls, ids, users, now, counter, count, out, held, lent), NEW id \in ids
    PROVE  Books([ls EXCEPT ![id].collateral_amount = 0], ids, users, now, counter, count, out,
                 held - ls[id].collateral_amount, lent)
<1> DEFINE old == ls[id]
           loan == [old EXCEPT !.collateral_amount = 0]
<1>1. held \in Nat /\ Sound(old, now)
  BY Entry, ZenonT(30)
<1>2. [ls EXCEPT ![id].collateral_amount = 0] = [ls EXCEPT ![id] = loan]
  BY ZenonT(30) DEF Books, Stored
<1>3. Dated(old, loan, now) /\ loan.collateral_amount = 0
  BY <1>1 DEF Dated, Sound, LoanFields
<1>4. old.collateral_amount \in Nat
  BY <1>1, ZenonT(30) DEF Sound
<1> HIDE DEF loan
<1>5. Books([ls EXCEPT ![id] = loan], ids, users, now, counter, count, out,
            held + loan.collateral_amount - old.collateral_amount, lent)
  BY <1>3, Dating, ZenonT(30)
<1>6. held + loan.collateral_amount - old.collateral_amount = held - old.collateral_amount
  BY <1>1, <1>3, <1>4
<1> QED BY <1>2, <1>5, <1>6, ZenonT(30) DEF loan

\* A loan is extended.
LEMMA Extending ==
    ASSUME NEW ls, NEW ids, NEW users, NEW now, NEW counter, NEW count, NEW out, NEW held, NEW lent,
           Books(ls, ids, users, now, counter, count, out, held, lent),
           NEW id \in ids, ls[id].extension_count < MAX_EXTENSIONS, NEW extra \in Nat
    PROVE  Books([ls EXCEPT ![id] = [ls[id] EXCEPT !.due_date = @ + extra, !.extension_count = @ + 1]],
                 ids, users, now, counter, count, out, held, lent)
<1> DEFINE old == ls[id]
           loan == [old EXCEPT !.due_date = @ + extra, !.extension_count = @ + 1]
<1>1. held \in Nat /\ Sound(old, now) /\ Kept(old) /\ old.extension_count < MAX_EXTENSIONS
  BY Entry, ZenonT(30)
<1> HIDE DEF old
<1>2. /\ DOMAIN loan = LoanFields
      /\ loan.due_date = old.due_date + extra /\ loan.extension_count = old.extension_count + 1
      /\ \A f \in LoanFields \ {"due_date", "extension_count"} : loan[f] = old[f]
  BY <1>1, ZenonT(30) DEF Sound, LoanFields
<1> HIDE DEF loan
<1>3. /\ old.collateral_amount \in Nat /\ old.due_date \in Nat /\ old.extension_count \in Nat
      /\ old.collateral_amount > 0 => old.status = "Approved"
  BY <1>1, ZenonT(30) DEF Sound, Kept
<1>4. loan.collateral_amount = old.collateral_amount
  BY <1>2, ZenonT(30) DEF LoanFields
<1>5. loan.extension_count \in Nat /\ loan.extension_count <= MAX_EXTENSIONS /\ loan.due_date \in Nat
  BY <1>1, <1>2, <1>3, DebtAssumption
<1>6. Dated(old, loan, now)
  BY <1>2, <1>3, <1>4, <1>5, ZenonT(30) DEF Dated
<1>7. Books([ls EXCEPT ![id] = loan], ids, users, now, counter, count, out,
            held + loan.collateral_amount - old.collateral_amount, lent)
  BY <1>6, Dating, ZenonT(30) DEF old
<1>8. held + loan.collateral_amount - old.collateral_amount = held
  BY <1>1, <1>3, <1>4
<1> QED BY <1>7, <1>8, ZenonT(30) DEF loan, old

\* A request is closed, and keeps its slot.
LEMMA Closing ==
    ASSUME NEW ls, NEW ids, NEW users, NEW now, NEW counter, NEW count, NEW out, NEW held, NEW lent,
           Books(ls, ids, users, now, counter, count, out, held, lent),
           NEW id \in ids, ls[id].status = "Pending", NEW status \in {"Cancelled", "Rejected"}
    PROVE  Books([ls EXCEPT ![id] = [ls[id] EXCEPT !.status = status, !.collateral_amount = 0]],
                 ids, users, now, counter, count, out, held - ls[id].collateral_amount, lent)
<1> DEFINE old == ls[id]
           loan == [old EXCEPT !.status = status, !.collateral_amount = 0]
<1>1. /\ out \in Nat /\ held \in Nat /\ lent \in Nat /\ old.status = "Pending"
      /\ Sound(old, now) /\ Kept(old) /\ old.borrower \in users
  BY Entry, ZenonT(30)
<1> HIDE DEF old
<1>2. /\ DOMAIN loan = LoanFields /\ loan.collateral_amount = 0 /\ loan.status = status
      /\ \A f \in LoanFields \ {"collateral_amount", "status"} : loan[f] = old[f]
  BY <1>1, ZenonT(30) DEF Sound, LoanFields
<1> HIDE DEF loan
<1>3. Sound(loan, now) /\ Kept(loan) /\ loan.borrower \in users
  BY <1>1, <1>2 DEF Sound, Kept, LoanFields, Statuses
<1>4. /\ amount_out(loan) = 0 /\ amount_out(old) = 0
      /\ principal_out(loan) = 0 /\ principal_out(old) = 0
      /\ old.collateral_amount \in Nat
  BY <1>1, <1>2, ZenonT(30) DEF amount_out, principal_out, Sound
<1>5. SlotsMove(old, loan, users, count, count)
  BY <1>1, <1>2, ZenonT(30) DEF SlotsMove, takes_slot, LoanFields
<1>6. Books([ls EXCEPT ![id] = loan], ids, users, now, counter, count,
            out + amount_out(loan) - amount_out(old),
            held + loan.collateral_amount - old.collateral_amount,
            lent + principal_out(loan) - principal_out(old))
  BY <1>1, <1>3, <1>5, Replacing, ZenonT(30) DEF old
<1>7. /\ out + amount_out(loan) - amount_out(old) = out /\ lent + principal_out(loan) - principal_out(old) = lent
      /\ held + loan.collateral_amount - old.collateral_amount = held - old.collateral_amount
  BY <1>1, <1>2, <1>4
<1> QED BY <1>6, <1>7, ZenonT(30) DEF old, loan

\* A closed loan is purged; a request that was closed gives its slot back.
LEMMA Purging ==
    ASSUME NEW ls, NEW ids, NEW users, NEW now \in Nat, NEW counter, NEW count, NEW out, NEW held, NEW lent,
           Books(ls, ids, users, now, counter, count, out, held, lent),
           NEW id \in ids, ls[id].status \in {"Repaid", "Cancelled", "Rejected"},
           NEW none, Empty(none), none.borrower \in users
    PROVE  Books([ls EXCEPT ![id] = none], ids, users, now, counter,
                 IF ls[id].status \in {"Cancelled", "Rejected"} THEN count_down(count, ls[id].borrower)
                 ELSE count,
                 out, held - ls[id].collateral_amount, lent)
<1> DEFINE old == ls[id]
           counts == IF old.status \in {"Cancelled", "Rejected"} THEN count_down(count, old.borrower) ELSE count
<1>1. /\ out \in Nat /\ held \in Nat /\ lent \in Nat /\ old.status \in {"Repaid", "Cancelled", "Rejected"}
      /\ Sound(old, now) /\ Kept(old) /\ old.borrower \in users
  BY Entry, ZenonT(30)
<1> HIDE DEF old
<1>2. Sound(none, now) /\ Kept(none) /\ none.collateral_amount = 0 /\ none.status = "None"
  BY DebtAssumption DEF Empty, Sound, Kept, LoanFields, Statuses
<1>3. /\ amount_out(none) = 0 /\ amount_out(old) = 0
      /\ principal_out(none) = 0 /\ principal_out(old) = 0
      /\ old.collateral_amount \in Nat
  BY <1>1, <1>2, ZenonT(30) DEF amount_out, principal_out, Sound
<1>4. SlotsMove(old, none, users, count, counts)
  BY <1>1, <1>2, ZenonT(30) DEF SlotsMove, takes_slot
<1> HIDE DEF counts
<1>5. Books([ls EXCEPT ![id] = none], ids, users, now, counter, counts,
            out + amount_out(none) - amount_out(old),
            held + none.collateral_amount - old.collateral_amount,
            lent + principal_out(none) - principal_out(old))
  BY <1>2, <1>4, Replacing, ZenonT(30) DEF old
<1>6. /\ out + amount_out(none) - amount_out(old) = out /\ lent + principal_out(none) - principal_out(old) = lent
      /\ held + none.collateral_amount - old.collateral_amount = held - old.collateral_amount
  BY <1>1, <1>2, <1>3
<1> QED BY <1>5, <1>6, ZenonT(30) DEF old, counts

\* A request is approved, and counts from now on.
LEMMA Approving ==
    ASSUME NEW ls, NEW ids, NEW users, NEW now \in Nat, NEW counter, NEW count, NEW out, NEW held, NEW lent,
           Books(ls, ids, users, now, counter, count, out, held, lent),
           NEW id \in ids, ls[id].status = "Pending", NEW due \in Nat, NEW fees \in Nat
    PROVE  Books([ls EXCEPT ![id] = [ls[id] EXCEPT !.status = "Approved", !.due_date = due,
                                                   !.last_interest_ledger = now,
                                                   !.last_late_fee_ledger = fees]],
                 ids, users, now, counter, count, out + ls[id].amount, held, lent + ls[id].amount)
<1> DEFINE old == ls[id]
           loan == [old EXCEPT !.status = "Approved", !.due_date = due, !.last_interest_ledger = now,
                               !.last_late_fee_ledger = fees]
<1>1. /\ out \in Nat /\ held \in Nat /\ lent \in Nat /\ old.status = "Pending"
      /\ Sound(old, now) /\ Kept(old) /\ old.borrower \in users
  BY Entry, ZenonT(30)
<1> HIDE DEF old
<1>2. /\ DOMAIN loan = LoanFields /\ loan.status = "Approved" /\ loan.due_date = due
      /\ loan.last_interest_ledger = now /\ loan.last_late_fee_ledger = fees
      /\ \A f \in LoanFields \ {"status", "due_date", "last_interest_ledger", "last_late_fee_ledger"} :
            loan[f] = old[f]
  BY <1>1, ZenonT(30) DEF Sound, LoanFields
<1> HIDE DEF loan
<1>3. Sound(loan, now) /\ Kept(loan) /\ loan.borrower \in users
  BY <1>1, <1>2 DEF Sound, Kept, LoanFields, Statuses
<1>4. /\ amount_out(loan) = old.amount /\ amount_out(old) = 0
      /\ principal_out(loan) = old.amount /\ principal_out(old) = 0
      /\ loan.collateral_amount = old.collateral_amount
      /\ old.amount \in Nat /\ old.collateral_amount \in Nat
  BY <1>1, <1>2 DEF amount_out, principal_out, remaining_principal, Kept, Sound, LoanFields
<1>5. SlotsMove(old, loan, users, count, count)
  BY <1>1, <1>2, ZenonT(30) DEF SlotsMove, takes_slot, LoanFields
<1>6. Books([ls EXCEPT ![id] = loan], ids, users, now, counter, count,
            out + amount_out(loan) - amount_out(old),
            held + loan.collateral_amount - old.collateral_amount,
            lent + principal_out(loan) - principal_out(old))
  BY <1>1, <1>3, <1>5, Replacing, ZenonT(30) DEF old
<1>7. /\ out + amount_out(loan) - amount_out(old) = out + old.amount
      /\ lent + principal_out(loan) - principal_out(old) = lent + old.amount
      /\ held + loan.collateral_amount - old.collateral_amount = held
  BY <1>1, <1>4
<1> QED BY <1>6, <1>7, ZenonT(30) DEF old, loan

\* A loan ends that was approved: it leaves the counts, the amounts and the collateral.
LEMMA Ending ==
    ASSUME NEW ls, NEW ids, NEW users, NEW now, NEW counter, NEW count, NEW out, NEW held, NEW lent,
           Books(ls, ids, users, now, counter, count, out, held, lent),
           NEW id \in ids, ls[id].status = "Approved",
           NEW loan, Sound(loan, now), loan.status \in {"Repaid", "Defaulted", "Liquidated"},
           loan.collateral_amount = 0, loan.borrower = ls[id].borrower
    PROVE  Books([ls EXCEPT ![id] = loan], ids, users, now, counter, count_down(count, ls[id].borrower),
                 out - ls[id].amount, held - ls[id].collateral_amount,
                 lent - remaining_principal(ls[id]))
<1> DEFINE old == ls[id]
           counts == count_down(count, old.borrower)
<1>1. /\ out \in Nat /\ held \in Nat /\ lent \in Nat /\ old.status = "Approved"
      /\ Sound(old, now) /\ old.borrower \in users
  BY Entry, ZenonT(30)
<1> HIDE DEF old
<1>2. /\ amount_out(loan) = 0 /\ principal_out(loan) = 0 /\ Kept(loan) /\ loan.borrower \in users
      /\ amount_out(old) = old.amount /\ principal_out(old) = remaining_principal(old)
  BY <1>1 DEF amount_out, principal_out, Kept, old
<1>3. old.amount \in Nat /\ old.collateral_amount \in Nat /\ remaining_principal(old) \in Nat
  BY <1>1, Weights, ZenonT(30)
<1>4. SlotsMove(old, loan, users, count, counts)
  BY <1>1, ZenonT(30) DEF SlotsMove, takes_slot
<1> HIDE DEF counts
<1>5. Books([ls EXCEPT ![id] = loan], ids, users, now, counter, counts,
            out + amount_out(loan) - amount_out(old),
            held + loan.collateral_amount - old.collateral_amount,
            lent + principal_out(loan) - principal_out(old))
  BY <1>1, <1>2, <1>4, Replacing, ZenonT(30) DEF old
<1>6. /\ out + amount_out(loan) - amount_out(old) = out - old.amount
      /\ lent + principal_out(loan) - principal_out(old) = lent - remaining_principal(old)
      /\ held + loan.collateral_amount - old.collateral_amount = held - old.collateral_amount
  BY <1>1, <1>2, <1>3
<1> QED BY <1>5, <1>6, ZenonT(30) DEF old, counts

\* A loan whose status is changed and whose collateral is gone.
LEMMA Struck ==
    ASSUME NEW old, NEW now, Sound(old, now), NEW status \in Statuses
    PROVE  LET loan == [old EXCEPT !.status = status, !.collateral_amount = 0]
           IN  /\ Sound(loan, now) /\ loan.status = status /\ loan.collateral_amount = 0
               /\ loan.borrower = old.borrower
<1> DEFINE loan == [old EXCEPT !.status = status, !.collateral_amount = 0]
<1>1. /\ DOMAIN loan = LoanFields /\ loan.status = status /\ loan.collateral_amount = 0
      /\ \A f \in LoanFields \ {"status", "collateral_amount"} : loan[f] = old[f]
  BY ZenonT(30) DEF Sound, LoanFields
<1> HIDE DEF loan
<1>2. Sound(loan, now) /\ loan.borrower = old.borrower
  BY <1>1 DEF Sound, LoanFields
<1> QED BY <1>1, <1>2, ZenonT(30) DEF loan

\* A default.
LEMMA Defaulting ==
    ASSUME NEW ls, NEW ids, NEW users, NEW now, NEW counter, NEW count, NEW out, NEW held, NEW lent,
           Books(ls, ids, users, now, counter, count, out, held, lent),
           NEW id \in ids, ls[id].status = "Approved"
    PROVE  Books([ls EXCEPT ![id] = [ls[id] EXCEPT !.status = "Defaulted", !.collateral_amount = 0]],
                 ids, users, now, counter, count_down(count, ls[id].borrower), out - ls[id].amount,
                 held - ls[id].collateral_amount, lent - remaining_principal(ls[id]))
<1> DEFINE old == ls[id]
           loan == [old EXCEPT !.status = "Defaulted", !.collateral_amount = 0]
<1>1. Sound(old, now)
  BY Entry, ZenonT(30)
<1>2. /\ Sound(loan, now) /\ loan.status = "Defaulted" /\ loan.collateral_amount = 0
      /\ loan.borrower = old.borrower
  BY <1>1, Struck, ZenonT(30) DEF Statuses
<1> HIDE DEF loan
<1>3. Books([ls EXCEPT ![id] = loan], ids, users, now, counter, count_down(count, ls[id].borrower),
            out - ls[id].amount, held - ls[id].collateral_amount, lent - remaining_principal(ls[id]))
  BY <1>2, Ending, ZenonT(30)
<1> QED BY <1>3, ZenonT(30) DEF loan

\* A loan with its interest and late fees up to now.
UpToDate(loan, due, now) ==
    /\ now \in Nat
    /\ \E grace \in Nat, rate \in Nat :
          due = accrue_late_fee(accrue_interest(loan, now), now, grace, rate)

\* What such a loan has of the one that was stored.
Fresh(loan, due, now) ==
    /\ Sound(due, now) /\ debt(due) \in Nat
    /\ due.status = loan.status /\ due.borrower = loan.borrower /\ due.amount = loan.amount
    /\ due.collateral_amount = loan.collateral_amount /\ due.due_date = loan.due_date
    /\ remaining_principal(due) = remaining_principal(loan)

\* Accrual changes neither what a loan counts for nor whose it is.
LEMMA Accruing ==
    ASSUME NEW loan, NEW now, Sound(loan, now), NEW due, UpToDate(loan, due, now)
    PROVE  Fresh(loan, due, now)
<1> DEFINE mid == accrue_interest(loan, now)
<1>1. Sound(mid, now) /\ Alike(loan, mid)
  BY InterestKeeps, ZenonT(30) DEF UpToDate
<1> HIDE DEF mid
<1>2. PICK grace \in Nat, rate \in Nat : due = accrue_late_fee(mid, now, grace, rate)
  BY ZenonT(30) DEF UpToDate, mid
<1>3. Sound(due, now) /\ Alike(mid, due)
  BY <1>1, <1>2, FeeKeeps, ZenonT(30) DEF UpToDate
<1>4. Alike(loan, due)
  BY <1>1, <1>3, ZenonT(30) DEF Alike
<1>5. debt(due) \in Nat
  BY <1>3 DEF Sound, debt, remaining_principal
<1> QED BY <1>3, <1>4, <1>5, ZenonT(30) DEF Alike, remaining_principal, Fresh

\* A liquidation, whatever part of the debt the collateral pays.
LEMMA Liquidating ==
    ASSUME NEW ls, NEW ids, NEW users, NEW now \in Nat, NEW counter, NEW count, NEW out, NEW held, NEW lent,
           Books(ls, ids, users, now, counter, count, out, held, lent),
           NEW id \in ids, ls[id].status = "Approved",
           NEW due, UpToDate(ls[id], due, now), NEW repaid \in Nat, repaid <= debt(due)
    PROVE  Books([ls EXCEPT ![id] = [apply_debt_recovery(due, repaid) EXCEPT !.status = "Liquidated",
                                                                             !.collateral_amount = 0]],
                 ids, users, now, counter, count_down(count, due.borrower), out - due.amount,
                 held - due.collateral_amount, lent - remaining_principal(due))
<1> DEFINE old == ls[id]
           paid == apply_debt_recovery(due, repaid)
           loan == [paid EXCEPT !.status = "Liquidated", !.collateral_amount = 0]
<1>1. Sound(old, now) /\ old.status = "Approved"
  BY Entry, ZenonT(30)
<1>0. Fresh(old, due, now)
  BY <1>1, Accruing, ZenonT(30)
<1> HIDE DEF old
<1>2. /\ Sound(due, now) /\ due.borrower = old.borrower /\ due.amount = old.amount
      /\ due.collateral_amount = old.collateral_amount
      /\ remaining_principal(due) = remaining_principal(old)
  BY <1>0, ZenonT(30) DEF Fresh
<1>3. Sound(paid, now) /\ paid.borrower = old.borrower
  BY <1>2, RecoveryKeeps
<1> HIDE DEF paid
<1>4. /\ Sound(loan, now) /\ loan.status = "Liquidated" /\ loan.collateral_amount = 0
      /\ loan.borrower = paid.borrower
  BY <1>3, Struck, ZenonT(30) DEF Statuses
<1> HIDE DEF loan
<1>5. Sound(loan, now) /\ loan.borrower = old.borrower
  BY <1>3, <1>4, ZenonT(30)
<1>6. Books([ls EXCEPT ![id] = loan], ids, users, now, counter, count_down(count, old.borrower),
            out - old.amount, held - old.collateral_amount, lent - remaining_principal(old))
  BY <1>1, <1>4, <1>5, Ending, ZenonT(30) DEF old
<1> QED BY <1>2, <1>6, ZenonT(30) DEF loan, paid

\* What a payment leaves due.
LEMMA Paying ==
    ASSUME NEW now, NEW due, Sound(due, now), NEW amount \in Nat \ {0}, amount <= debt(due)
    PROVE  LET paid == apply_debt_recovery(due, amount)
               payment == proportional_repayment_split(dues_of(due), amount)
           IN  /\ payment[2] + payment[3] \in Nat
               /\ remaining_principal(paid) \in Nat /\ (debt(paid) = 0 => remaining_principal(paid) = 0)
               /\ remaining_principal(paid) = remaining_principal(due) - amount + (payment[2] + payment[3])
<1> DEFINE paid == apply_debt_recovery(due, amount)
           payment == proportional_repayment_split(dues_of(due), amount)
<1>1. /\ Sound(paid, now)
      /\ payment[1] \in Nat /\ payment[2] \in Nat /\ payment[3] \in Nat
      /\ payment[1] + payment[2] + payment[3] = amount
      /\ remaining_principal(paid) = remaining_principal(due) - payment[1]
  BY RecoveryKeeps
<1> HIDE DEF paid, payment
<1>2. remaining_principal(paid) \in Nat /\ remaining_principal(due) \in Nat
  BY <1>1, Weights, ZenonT(30)
<1>3. debt(paid) = 0 => remaining_principal(paid) = 0
  BY <1>1, <1>2 DEF debt, Sound
<1>4. remaining_principal(paid) = remaining_principal(due) - amount + (payment[2] + payment[3])
  BY <1>1, <1>2
<1> QED BY <1>1, <1>2, <1>3, <1>4 DEF paid, payment

\* A payment that closes the loan, with what is left of the principal forgiven.
LEMMA Completing ==
    ASSUME NEW ls, NEW ids, NEW users, NEW now \in Nat, NEW counter, NEW count, NEW out, NEW held, NEW lent,
           Books(ls, ids, users, now, counter, count, out, held, lent),
           NEW id \in ids, ls[id].status = "Approved",
           NEW due, UpToDate(ls[id], due, now), NEW amount \in Nat, amount <= debt(due)
    PROVE  Books([ls EXCEPT ![id] = [apply_debt_recovery(due, amount) EXCEPT
                                        !.status = "Repaid", !.principal_paid = due.amount,
                                        !.accrued_interest = 0, !.accrued_late_fee = 0,
                                        !.collateral_amount = 0]],
                 ids, users, now, counter, count_down(count, due.borrower), out - due.amount,
                 held - due.collateral_amount, lent - remaining_principal(due))
<1> DEFINE old == ls[id]
           paid == apply_debt_recovery(due, amount)
           loan == [paid EXCEPT !.status = "Repaid", !.principal_paid = due.amount,
                                !.accrued_interest = 0, !.accrued_late_fee = 0, !.collateral_amount = 0]
<1>1. Sound(old, now) /\ old.status = "Approved"
  BY Entry, ZenonT(30)
<1>0. Fresh(old, due, now)
  BY <1>1, Accruing, ZenonT(30)
<1> HIDE DEF old
<1>2. /\ Sound(due, now) /\ due.borrower = old.borrower /\ due.amount = old.amount
      /\ due.collateral_amount = old.collateral_amount
      /\ remaining_principal(due) = remaining_principal(old)
  BY <1>0, ZenonT(30) DEF Fresh
<1>3. Sound(paid, now) /\ paid.borrower = old.borrower /\ paid.amount = due.amount
  BY <1>2, RecoveryKeeps
<1> HIDE DEF paid
<1>4. /\ DOMAIN loan = LoanFields /\ loan.status = "Repaid" /\ loan.collateral_amount = 0
      /\ loan.principal_paid = due.amount /\ loan.accrued_interest = 0 /\ loan.accrued_late_fee = 0
      /\ \A f \in LoanFields \ {"status", "principal_paid", "accrued_interest", "accrued_late_fee",
                                "collateral_amount"} : loan[f] = paid[f]
  BY <1>3, ZenonT(30) DEF Sound, LoanFields
<1> HIDE DEF loan
<1>5. Sound(loan, now) /\ loan.borrower = old.borrower
  BY <1>3, <1>4 DEF Sound, LoanFields, Statuses
<1>6. Books([ls EXCEPT ![id] = loan], ids, users, now, counter, count_down(count, old.borrower),
            out - old.amount, held - old.collateral_amount, lent - remaining_principal(old))
  BY <1>1, <1>4, <1>5, Ending, ZenonT(30) DEF old
<1> QED BY <1>2, <1>6, ZenonT(30) DEF loan, paid

\* A payment after which the loan goes on.
LEMMA Reducing ==
    ASSUME NEW ls, NEW ids, NEW users, NEW now \in Nat, NEW counter, NEW count, NEW out, NEW held, NEW lent,
           Books(ls, ids, users, now, counter, count, out, held, lent),
           NEW id \in ids, ls[id].status = "Approved",
           NEW due, UpToDate(ls[id], due, now), NEW amount \in Nat, amount <= debt(due)
    PROVE  LET paid == apply_debt_recovery(due, amount)
           IN  Books([ls EXCEPT ![id] = paid], ids, users, now, counter, count, out, held,
                     lent - remaining_principal(due) + remaining_principal(paid))
<1> DEFINE old == ls[id]
           paid == apply_debt_recovery(due, amount)
<1>1. /\ out \in Nat /\ held \in Nat /\ lent \in Nat
      /\ Sound(old, now) /\ old.status = "Approved" /\ old.borrower \in users
  BY Entry, ZenonT(30)
<1>0. Fresh(old, due, now)
  BY <1>1, Accruing, ZenonT(30)
<1> HIDE DEF old
<1>2. /\ Sound(due, now) /\ due.borrower = old.borrower /\ due.amount = old.amount
      /\ due.collateral_amount = old.collateral_amount /\ due.status = old.status
      /\ remaining_principal(due) = remaining_principal(old)
  BY <1>0, ZenonT(30) DEF Fresh
<1>3. /\ Sound(paid, now) /\ paid.borrower = old.borrower /\ paid.amount = old.amount
      /\ paid.status = "Approved" /\ paid.collateral_amount = old.collateral_amount
  BY <1>1, <1>2, RecoveryKeeps
<1> HIDE DEF paid
<1>4. /\ amount_out(paid) = old.amount /\ amount_out(old) = old.amount
      /\ principal_out(paid) = remaining_principal(paid)
      /\ principal_out(old) = remaining_principal(due) /\ Kept(paid)
  BY <1>1, <1>2, <1>3, ZenonT(30) DEF amount_out, principal_out, Kept
<1>5. /\ old.amount \in Nat /\ old.collateral_amount \in Nat
      /\ remaining_principal(due) \in Nat /\ remaining_principal(paid) \in Nat
  BY <1>1, <1>2, <1>3, Weights, ZenonT(30)
<1>6. SlotsMove(old, paid, users, count, count)
  BY <1>1, <1>3, ZenonT(30) DEF SlotsMove, takes_slot
<1>7. Books([ls EXCEPT ![id] = paid], ids, users, now, counter, count,
            out + amount_out(paid) - amount_out(old),
            held + paid.collateral_amount - old.collateral_amount,
            lent + principal_out(paid) - principal_out(old))
  BY <1>1, <1>3, <1>4, <1>6, Replacing, ZenonT(30) DEF old
<1>8. /\ out + amount_out(paid) - amount_out(old) = out
      /\ held + paid.collateral_amount - old.collateral_amount = held
      /\ lent + principal_out(paid) - principal_out(old)
           = lent - remaining_principal(due) + remaining_principal(paid)
  BY <1>1, <1>3, <1>4, <1>5
<1> QED BY <1>7, <1>8, ZenonT(30) DEF paid

\* A refinancing: a new amount, and some of the collateral given back.
LEMMA Refinancing ==
    ASSUME NEW ls, NEW ids, NEW users, NEW now \in Nat, NEW counter, NEW count, NEW out, NEW held, NEW lent,
           Books(ls, ids, users, now, counter, count, out, held, lent),
           NEW id \in ids, ls[id].status = "Approved",
           NEW due, UpToDate(ls[id], due, now), NEW amount \in Nat,
           NEW returned \in Nat, returned <= due.collateral_amount, NEW rate \in Nat, NEW end \in Nat
    PROVE  Books([ls EXCEPT ![id] =
                    [due EXCEPT !.income_paid = @ + due.accrued_interest + due.accrued_late_fee,
                                !.accrued_interest = 0, !.accrued_late_fee = 0,
                                !.collateral_amount = @ - returned,
                                !.amount = amount, !.principal_paid = 0, !.interest_rate = rate,
                                !.last_interest_ledger = now, !.due_date = end,
                                !.last_late_fee_ledger = end]],
                 ids, users, now, counter, count, out + (amount - due.amount), held - returned,
                 lent + amount - remaining_principal(due))
<1> DEFINE old == ls[id]
           loan == [due EXCEPT !.income_paid = @ + due.accrued_interest + due.accrued_late_fee,
                               !.accrued_interest = 0, !.accrued_late_fee = 0,
                               !.collateral_amount = @ - returned,
                               !.amount = amount, !.principal_paid = 0, !.interest_rate = rate,
                               !.last_interest_ledger = now, !.due_date = end,
                               !.last_late_fee_ledger = end]
<1>1. /\ out \in Nat /\ held \in Nat /\ lent \in Nat
      /\ Sound(old, now) /\ old.status = "Approved" /\ old.borrower \in users
  BY Entry, ZenonT(30)
<1>0. Fresh(old, due, now)
  BY <1>1, Accruing, ZenonT(30)
<1> HIDE DEF old
<1>2. /\ Sound(due, now) /\ due.borrower = old.borrower /\ due.amount = old.amount
      /\ due.collateral_amount = old.collateral_amount /\ due.status = old.status
      /\ remaining_principal(due) = remaining_principal(old)
  BY <1>0, ZenonT(30) DEF Fresh
<1>3. /\ DOMAIN loan = LoanFields
      /\ loan.income_paid = due.income_paid + due.accrued_interest + due.accrued_late_fee
      /\ loan.accrued_interest = 0 /\ loan.accrued_late_fee = 0
      /\ loan.collateral_amount = due.collateral_amount - returned
      /\ loan.amount = amount /\ loan.principal_paid = 0 /\ loan.interest_rate = rate
      /\ loan.last_interest_ledger = now /\ loan.due_date = end /\ loan.last_late_fee_ledger = end
      /\ loan.status = due.status /\ loan.borrower = due.borrower
      /\ loan.interest_residual = due.interest_residual /\ loan.extension_count = due.extension_count
  BY <1>2, ZenonT(30) DEF Sound, LoanFields
<1> HIDE DEF loan
<1>4. Sound(loan, now)
  BY <1>2, <1>3 DEF Sound
<1>5. /\ amount_out(loan) = amount /\ amount_out(old) = due.amount
      /\ principal_out(loan) = amount /\ principal_out(old) = remaining_principal(due) /\ Kept(loan)
  BY <1>1, <1>2, <1>3 DEF amount_out, principal_out, remaining_principal, Kept
<1>6. due.amount \in Nat /\ due.collateral_amount \in Nat /\ remaining_principal(due) \in Nat
  BY <1>2, Weights, ZenonT(30)
<1>7. SlotsMove(old, loan, users, count, count)
  BY <1>1, <1>2, <1>3, ZenonT(30) DEF SlotsMove, takes_slot
<1>8. Books([ls EXCEPT ![id] = loan], ids, users, now, counter, count,
            out + amount_out(loan) - amount_out(old),
            held + loan.collateral_amount - old.collateral_amount,
            lent + principal_out(loan) - principal_out(old))
  BY <1>1, <1>2, <1>3, <1>4, <1>5, <1>7, Replacing, ZenonT(30) DEF old
<1>9. out + amount_out(loan) - amount_out(old) = out + (amount - due.amount)
  BY <1>1, <1>5, <1>6, ZenonT(30)
<1>10. lent + principal_out(loan) - principal_out(old) = lent + amount - remaining_principal(due)
  BY <1>1, <1>5, <1>6, ZenonT(30)
<1>11. loan.collateral_amount = due.collateral_amount - returned
       /\ old.collateral_amount = due.collateral_amount
  BY <1>2, <1>3, ZenonT(30)
<1>12. held + loan.collateral_amount - old.collateral_amount = held - returned
  BY <1>1, <1>6, <1>11
<1> QED BY <1>8, <1>9, <1>10, <1>12, ZenonT(30) DEF loan

\* The ledger closes: what is stored was accrued no later than now.
LEMMA Passing ==
    ASSUME NEW ls, NEW ids, NEW users, NEW now \in Nat, NEW counter, NEW count, NEW out, NEW held, NEW lent,
           Books(ls, ids, users, now, counter, count, out, held, lent), NEW later \in Nat, now <= later
    PROVE  Books(ls, ids, users, later, counter, count, out, held, lent)
<1>1. \A loan : Sound(loan, now) => Sound(loan, later)
  BY DEF Sound
<1> QED BY <1>1, ZenonT(30) DEF Books, Stored

\* Before the first request.
LEMMA Starting ==
    ASSUME NEW ids, IsFiniteSet(ids), ids \subseteq Nat, NEW users, NEW now \in Nat,
           NEW none, Empty(none), none.borrower \in users
    PROVE  Books([id \in ids |-> none], ids, users, now, 0, [u \in users |-> 0], 0, 0, 0)
<1> DEFINE ls == [id \in ids |-> none]
           f == [id \in ids |-> principal_out(ls[id])]
           g == [id \in ids |-> amount_out(ls[id])]
           h == [id \in ids |-> ls[id].collateral_amount]
<1>1. Sound(none, now) /\ Kept(none) /\ none.collateral_amount = 0 /\ none.status = "None"
  BY DebtAssumption DEF Empty, Sound, Kept, LoanFields, Statuses
<1>2. principal_out(none) = 0 /\ amount_out(none) = 0 /\ \A u : ~takes_slot(none, u)
  BY <1>1, ZenonT(30) DEF principal_out, amount_out, takes_slot
<1>3. DOMAIN ls = ids /\ \A id \in ids : ls[id] = none
  OBVIOUS
<1> HIDE DEF ls
<1>4. ids \in SUBSET ids /\ \A id \in ids : f[id] = 0 /\ g[id] = 0 /\ h[id] = 0
  BY <1>1, <1>2, <1>3, ZenonT(30)
<1>5. /\ principals(ls, ids) = SumFunctionOnSet(f, ids) /\ amounts(ls, ids) = SumFunctionOnSet(g, ids)
      /\ collaterals(ls, ids) = SumFunctionOnSet(h, ids)
  BY ZenonT(30) DEF principals, amounts, collaterals
<1> HIDE DEF f, g, h
<1>6. principals(ls, ids) = 0 /\ amounts(ls, ids) = 0 /\ collaterals(ls, ids) = 0
  BY <1>4, <1>5, SumZero, ZenonT(30)
<1>7. \A u : slots(ls, ids, u) = {}
  BY <1>2, <1>3, ZenonT(30) DEF slots
<1>8. Counted(ls, ids, users, [u \in users |-> 0])
  BY <1>7, FS_EmptySet, ZenonT(30) DEF Counted
<1>9. Stored(ls, ids, users, now) /\ \A id \in ids : ls[id].status = "None"
  BY <1>1, <1>3, ZenonT(30) DEF Stored
<1>10. Books(ls, ids, users, now, 0, [u \in users |-> 0], 0, 0, 0)
  BY <1>6, <1>8, <1>9, ZenonT(30) DEF Books
<1> QED BY <1>10, ZenonT(30) DEF ls

\* A payment on a debt is split fairly.
LEMMA DebtSplits ==
    ASSUME NEW due, NEW now, Sound(due, now), NEW amount \in 1..debt(due)
    PROVE  Fair(dues_of(due), amount, proportional_repayment_split(dues_of(due), amount))
<1> DEFINE dues == dues_of(due)
<1>1. /\ dues[1] = remaining_principal(due) /\ dues[2] = due.accrued_interest
      /\ dues[3] = due.accrued_late_fee
  BY ZenonT(30) DEF dues_of
<1>2. /\ remaining_principal(due) \in Nat /\ due.accrued_interest \in Nat
      /\ due.accrued_late_fee \in Nat
  BY Weights, ZenonT(30) DEF Sound
<1>3. total_due(dues) = debt(due) /\ debt(due) \in Nat
  BY <1>1, <1>2 DEF total_due, debt
<1>4. amount \in Nat \ {0} /\ amount <= total_due(dues)
  BY <1>3
<1> HIDE DEF dues
<1>5. dues[1] \in Nat /\ dues[2] \in Nat /\ dues[3] \in Nat
  BY <1>1, <1>2, ZenonT(30)
<1>6. Fair(dues, amount, proportional_repayment_split(dues, amount))
  BY <1>4, <1>5, SplitFair, ZenonT(30)
<1> QED BY <1>6, ZenonT(30) DEF dues

\* A share of basis points is a number.
LEMMA BasisPoints ==
    ASSUME NEW x \in Nat, NEW y \in Nat
    PROVE  (x * y) \div BPS \in Nat
<1> DEFINE z == x * y
<1>1. z \in Nat
  OBVIOUS
<1> HIDE DEF z
<1>2. z \div BPS \in Nat
  BY <1>1, DebtAssumption, DivBounds
<1> QED BY <1>2, ZenonT(30) DEF z
=============================================================================
