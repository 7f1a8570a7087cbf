---------------------------- MODULE SumTheorems ----------------------------
(***************************************************************************)
(* What a sum over a finite set, as the community modules define it        *)
(* (SumFunctionOnSet, a recursive function on the subsets), adds up to,    *)
(* and where a step that is repeated comes to rest.                        *)
(* Induction is by a smallest counterexample: of the sets of subsets of a  *)
(* finite set, one has no proper subset that is another of them.           *)
(***************************************************************************)
EXTENDS Integers, FiniteSets, Functions, FiniteSetTheorems, WellFoundedInduction, TLAPS

\* A set of finite subsets has a smallest one.
LEMMA SmallestSubset ==
  ASSUME NEW S, IsFiniteSet(S), NEW B \in SUBSET SUBSET S, B # {}
  PROVE  \E T \in B : \A U \in B : U \subseteq T => U = T
<1>1. IsWellFoundedOn(StrictSubsetOrdering(S), FiniteSubsetsOf(S))
  BY FS_StrictSubsetOrderingWellFounded
<1>2. FiniteSubsetsOf(S) = SUBSET S
  BY FS_FiniteSubsetsOfFinite
<1>3. \E T \in B : \A U \in B : <<U, T>> \notin StrictSubsetOrdering(S)
  BY <1>1, <1>2, WFMin
<1> QED  BY <1>3 DEF StrictSubsetOrdering

Element(s) == CHOOSE x \in s : TRUE

IsSum(g, f, S) ==
  g = [s \in SUBSET S |-> IF s = {} THEN 0
                          ELSE f[Element(s)] + g[s \ {Element(s)}]]

Chosen(f, S) == CHOOSE g : IsSum(g, f, S)

LEMMA SumChosen ==
  ASSUME NEW f, NEW S
  PROVE  SumFunctionOnSet(f, S) = Chosen(f, S)[S]
BY DEF SumFunctionOnSet, FoldFunctionOnSet, MapThenFoldSet, IsSum, Element, Chosen

LEMMA ElementIn == \A s : s # {} => Element(s) \in s
BY DEF Element

\* What the recursion gives of one subset.
LEMMA SumUnfold ==
  ASSUME NEW g, NEW f, NEW S, IsSum(g, f, S), NEW s \in SUBSET S
  PROVE  /\ s = {} => g[s] = 0
         /\ s # {} => g[s] = f[Element(s)] + g[s \ {Element(s)}]
BY DEF IsSum

\* Two of them agree where both are defined.
LEMMA SumUnique ==
  ASSUME NEW S, IsFiniteSet(S), NEW T \in SUBSET S, NEW f, NEW g, NEW h,
         IsSum(g, f, S), IsSum(h, f, T)
  PROVE  g[T] = h[T]
<1> DEFINE B == {U \in SUBSET T : g[U] # h[U]}
<1>1. SUFFICES ASSUME B # {} PROVE FALSE
  OBVIOUS
<1>2. IsFiniteSet(T)  BY FS_Subset
<1>3. PICK U \in B : \A V \in B : V \subseteq U => V = U
  <2>1. B \in SUBSET SUBSET T  OBVIOUS
  <2> HIDE DEF B
  <2> QED  BY <1>1, <1>2, <2>1, SmallestSubset
<1>4. U \in SUBSET S /\ U \in SUBSET T /\ g[U] # h[U]
  OBVIOUS
<1>5. U # {}
  BY <1>4, SumUnfold
<1>6. PICK x : x = Element(U)  OBVIOUS
<1>7. x \in U /\ U \ {x} \in SUBSET T /\ U \ {x} \subseteq U /\ U \ {x} # U
  BY <1>4, <1>5, <1>6, ElementIn
<1>8. g[U \ {x}] = h[U \ {x}]
  BY <1>3, <1>7
<1>9. g[U] = f[x] + g[U \ {x}]
  BY <1>4, <1>5, <1>6, SumUnfold
<1>10. h[U] = f[x] + h[U \ {x}]
  BY <1>4, <1>5, <1>6, SumUnfold
<1> QED  BY <1>4, <1>8, <1>9, <1>10

\* The recursion defines something.
LEMMA SumExists ==
  ASSUME NEW S, IsFiniteSet(S), NEW f
  PROVE  IsSum(Chosen(f, S), f, S)
<1> DEFINE B == {U \in SUBSET S : ~ \E g : IsSum(g, f, U)}
<1>1. SUFFICES ASSUME B # {} PROVE FALSE
  BY DEF Chosen
<1>2. PICK T \in B : \A V \in B : V \subseteq T => V = T
  <2>1. B \in SUBSET SUBSET S  OBVIOUS
  <2> HIDE DEF B
  <2> QED  BY <1>1, <2>1, SmallestSubset
<1> DEFINE W(U) == Chosen(f, U)[U]
           g == [s \in SUBSET T |-> IF s = {} THEN 0 ELSE f[Element(s)] + W(s \ {Element(s)})]
<1>3. \A U \in SUBSET T : U # T => IsSum(Chosen(f, U), f, U)
  BY <1>2 DEF Chosen
<1>4. ASSUME NEW t \in SUBSET T, t # T
      PROVE  W(t) = g[t]
  <2>1. IsSum(Chosen(f, t), f, t)  BY <1>3, <1>4
  <2>2. CASE t = {}
    BY <2>1, <2>2, SumUnfold
  <2>3. CASE t # {}
    <3>1. PICK x : x = Element(t)  OBVIOUS
    <3>2. x \in t /\ t \ {x} \in SUBSET t /\ t \ {x} # T
      BY <1>4, <2>3, <3>1, ElementIn
    <3>3. IsSum(Chosen(f, t \ {x}), f, t \ {x})  BY <1>3, <3>2
    <3>4. IsFiniteSet(t)  BY FS_Subset
    <3>5. Chosen(f, t)[t \ {x}] = W(t \ {x})
      BY <2>1, <3>2, <3>3, <3>4, SumUnique
    <3>6. W(t) = f[x] + Chosen(f, t)[t \ {x}]
      BY <2>1, <2>3, <3>1, SumUnfold
    <3>7. g[t] = f[x] + W(t \ {x})  BY <2>3, <3>1
    <3> QED  BY <3>5, <3>6, <3>7
  <2> QED  BY <2>2, <2>3
<1>5. ASSUME NEW s \in SUBSET T, s # {}
      PROVE  g[s] = f[Element(s)] + g[s \ {Element(s)}]
  <2>1. PICK x : x = Element(s)  OBVIOUS
  <2>2. x \in s /\ s \ {x} \in SUBSET T /\ s \ {x} # T  BY <1>5, <2>1, ElementIn
  <2>3. g[s] = f[x] + W(s \ {x})  BY <1>5, <2>1
  <2>4. W(s \ {x}) = g[s \ {x}]  BY <1>4, <2>2
  <2> QED  BY <2>1, <2>3, <2>4
<1>6. g[{}] = 0  OBVIOUS
<1>7. g = [s \in SUBSET T |-> g[s]]  OBVIOUS
<1> HIDE DEF g, W
<1>8. IsSum(g, f, T)
  BY <1>5, <1>6, <1>7 DEF IsSum
<1> QED  BY <1>8

LEMMA SumEmpty == \A f : SumFunctionOnSet(f, {}) = 0
<1> TAKE f
<1>1. IsSum(Chosen(f, {}), f, {})  BY FS_EmptySet, SumExists
<1> QED  BY <1>1, SumChosen, SumUnfold

LEMMA SumStep ==
  ASSUME NEW S, IsFiniteSet(S), S # {}, NEW f
  PROVE  SumFunctionOnSet(f, S) = f[Element(S)] + SumFunctionOnSet(f, S \ {Element(S)})
<1>1. PICK x : x = Element(S)  OBVIOUS
<1>2. x \in S /\ IsFiniteSet(S \ {x})  BY <1>1, ElementIn, FS_RemoveElement
<1>3. IsSum(Chosen(f, S), f, S) /\ IsSum(Chosen(f, S \ {x}), f, S \ {x})
  BY <1>2, SumExists
<1>4. Chosen(f, S)[S \ {x}] = Chosen(f, S \ {x})[S \ {x}]
  BY <1>2, <1>3, SumUnique
<1>5. Chosen(f, S)[S] = f[x] + Chosen(f, S)[S \ {x}]
  BY <1>1, <1>3, SumUnfold
<1> QED  BY <1>1, <1>4, <1>5, SumChosen

-----------------------------------------------------------------------------
(* What is said of sums in the proofs of the models *)

\* The sum of numbers is a number.
LEMMA SumType ==
  ASSUME NEW S, IsFiniteSet(S), NEW f, \A x \in S : f[x] \in Int
  PROVE  SumFunctionOnSet(f, S) \in Int
<1> DEFINE B == {U \in SUBSET S : SumFunctionOnSet(f, U) \notin Int}
<1>1. SUFFICES ASSUME B # {} PROVE FALSE
  OBVIOUS
<1>2. PICK U \in B : \A V \in B : V \subseteq U => V = U
  <2>1. B \in SUBSET SUBSET S  OBVIOUS
  <2> HIDE DEF B
  <2> QED  BY <1>1, <2>1, SmallestSubset
<1>3. U # {}  BY SumEmpty
<1>4. PICK x : x = Element(U)  OBVIOUS
<1>5. x \in U /\ f[x] \in Int /\ U \ {x} \in SUBSET S /\ U \ {x} \subseteq U /\ U \ {x} # U
  BY <1>3, <1>4, ElementIn
<1>6. SumFunctionOnSet(f, U \ {x}) \in Int  BY <1>2, <1>5
<1>7. IsFiniteSet(U)  BY FS_Subset
<1>8. SumFunctionOnSet(f, U) = f[x] + SumFunctionOnSet(f, U \ {x})
  BY <1>3, <1>4, <1>7, SumStep
<1> QED  BY <1>5, <1>6, <1>8

\* Any element may be taken out of a sum, not only the one the recursion takes.
LEMMA SumRemove ==
  ASSUME NEW S, IsFiniteSet(S), NEW f, \A x \in S : f[x] \in Int, NEW y \in S
  PROVE  SumFunctionOnSet(f, S) = f[y] + SumFunctionOnSet(f, S \ {y})
<1> DEFINE B == {U \in SUBSET S : \E z \in U :
                   SumFunctionOnSet(f, U) # f[z] + SumFunctionOnSet(f, U \ {z})}
<1>1. SUFFICES ASSUME B # {} PROVE FALSE
  OBVIOUS
<1>2. PICK U \in B : \A V \in B : V \subseteq U => V = U
  <2>1. B \in SUBSET SUBSET S  OBVIOUS
  <2> HIDE DEF B
  <2> QED  BY <1>1, <2>1, SmallestSubset
<1>3. PICK z \in U : SumFunctionOnSet(f, U) # f[z] + SumFunctionOnSet(f, U \ {z})
  OBVIOUS
<1>4. PICK x : x = Element(U)  OBVIOUS
<1>5. x \in U /\ U \in SUBSET S /\ IsFiniteSet(U)  BY <1>4, ElementIn, FS_Subset
<1>6. SumFunctionOnSet(f, U) = f[x] + SumFunctionOnSet(f, U \ {x})
  BY <1>4, <1>5, SumStep
<1>7. x # z  BY <1>3, <1>6
<1>8. \A V \in SUBSET S : V \subseteq U /\ V # U => \A w \in V :
         SumFunctionOnSet(f, V) = f[w] + SumFunctionOnSet(f, V \ {w})
  BY <1>2
<1>9. SumFunctionOnSet(f, U \ {x}) = f[z] + SumFunctionOnSet(f, (U \ {x}) \ {z})
  BY <1>5, <1>7, <1>8
<1>10. SumFunctionOnSet(f, U \ {z}) = f[x] + SumFunctionOnSet(f, (U \ {z}) \ {x})
  BY <1>5, <1>7, <1>8
<1>11. (U \ {x}) \ {z} = (U \ {z}) \ {x}  OBVIOUS
<1>12. PICK rest : rest = SumFunctionOnSet(f, (U \ {x}) \ {z})  OBVIOUS
<1>13. rest \in Int
  <2>1. IsFiniteSet((U \ {x}) \ {z})  BY <1>5, FS_RemoveElement
  <2> QED  BY <1>5, <1>12, <2>1, SumType
<1>14. f[x] \in Int /\ f[z] \in Int  BY <1>5
<1>15. SumFunctionOnSet(f, U \ {z}) = f[x] + rest  BY <1>10, <1>11, <1>12
<1>16. SumFunctionOnSet(f, U) = f[x] + (f[z] + rest)  BY <1>6, <1>9, <1>12
<1>17. f[x] + (f[z] + rest) = f[z] + (f[x] + rest)  BY <1>13, <1>14
<1> QED  BY <1>3, <1>15, <1>16, <1>17

\* An element is added.
LEMMA SumAdd ==
  ASSUME NEW S, IsFiniteSet(S), NEW f, NEW y, y \notin S, \A x \in S \cup {y} : f[x] \in Int
  PROVE  SumFunctionOnSet(f, S \cup {y}) = f[y] + SumFunctionOnSet(f, S)
<1>1. IsFiniteSet(S \cup {y}) /\ (S \cup {y}) \ {y} = S  BY FS_AddElement
<1> QED  BY <1>1, SumRemove

\* Only the values of the summands matter.
LEMMA SumSame ==
  ASSUME NEW S, IsFiniteSet(S), NEW f, NEW g, \A x \in S : f[x] = g[x]
  PROVE  SumFunctionOnSet(f, S) = SumFunctionOnSet(g, S)
<1> DEFINE B == {U \in SUBSET S : SumFunctionOnSet(f, U) # SumFunctionOnSet(g, U)}
<1>1. SUFFICES ASSUME B # {} PROVE FALSE
  OBVIOUS
<1>2. PICK U \in B : \A V \in B : V \subseteq U => V = U
  <2>1. B \in SUBSET SUBSET S  OBVIOUS
  <2> HIDE DEF B
  <2> QED  BY <1>1, <2>1, SmallestSubset
<1>3. U # {}  BY SumEmpty
<1>4. PICK x : x = Element(U)  OBVIOUS
<1>5. x \in U /\ f[x] = g[x] /\ U \ {x} \in SUBSET S /\ U \ {x} \subseteq U /\ U \ {x} # U
  BY <1>3, <1>4, ElementIn
<1>6. SumFunctionOnSet(f, U \ {x}) = SumFunctionOnSet(g, U \ {x})  BY <1>2, <1>5
<1>7. IsFiniteSet(U)  BY FS_Subset
<1>8. /\ SumFunctionOnSet(f, U) = f[x] + SumFunctionOnSet(f, U \ {x})
      /\ SumFunctionOnSet(g, U) = g[x] + SumFunctionOnSet(g, U \ {x})
  BY <1>3, <1>4, <1>7, SumStep
<1> QED  BY <1>5, <1>6, <1>8

\* One summand changes.
LEMMA SumChange ==
  ASSUME NEW S, IsFiniteSet(S), NEW f, NEW g, NEW y \in S,
         \A x \in S : f[x] \in Int /\ g[x] \in Int, \A x \in S \ {y} : f[x] = g[x]
  PROVE  SumFunctionOnSet(g, S) = SumFunctionOnSet(f, S) - f[y] + g[y]
<1>1. IsFiniteSet(S \ {y})  BY FS_RemoveElement
<1>2. SumFunctionOnSet(g, S \ {y}) = SumFunctionOnSet(f, S \ {y})  BY <1>1, SumSame
<1>3. SumFunctionOnSet(f, S \ {y}) \in Int  BY <1>1, SumType
<1>4. /\ SumFunctionOnSet(f, S) = f[y] + SumFunctionOnSet(f, S \ {y})
      /\ SumFunctionOnSet(g, S) = g[y] + SumFunctionOnSet(g, S \ {y})
  BY SumRemove
<1> QED  BY <1>2, <1>3, <1>4

\* A sum of summands that are no greater is no greater.
LEMMA SumBelow ==
  ASSUME NEW S, IsFiniteSet(S), NEW f, NEW g,
         \A x \in S : f[x] \in Int /\ g[x] \in Int /\ f[x] <= g[x]
  PROVE  SumFunctionOnSet(f, S) <= SumFunctionOnSet(g, S)
<1> DEFINE B == {U \in SUBSET S : ~(SumFunctionOnSet(f, U) <= SumFunctionOnSet(g, U))}
<1>1. SUFFICES ASSUME B # {} PROVE FALSE
  OBVIOUS
<1>2. PICK U \in B : \A V \in B : V \subseteq U => V = U
  <2>1. B \in SUBSET SUBSET S  OBVIOUS
  <2> HIDE DEF B
  <2> QED  BY <1>1, <2>1, SmallestSubset
<1>3. U # {}  BY SumEmpty
<1>4. PICK x : x = Element(U)  OBVIOUS
<1>5. x \in U /\ U \ {x} \in SUBSET S /\ U \ {x} \subseteq U /\ U \ {x} # U
  BY <1>3, <1>4, ElementIn
<1>6. SumFunctionOnSet(f, U \ {x}) <= SumFunctionOnSet(g, U \ {x})  BY <1>2, <1>5
<1>7. IsFiniteSet(U) /\ IsFiniteSet(U \ {x})  BY <1>5, FS_Subset
<1>8. /\ SumFunctionOnSet(f, U) = f[x] + SumFunctionOnSet(f, U \ {x})
      /\ SumFunctionOnSet(g, U) = g[x] + SumFunctionOnSet(g, U \ {x})
  BY <1>3, <1>4, <1>7, SumStep
<1>9. /\ SumFunctionOnSet(f, U \ {x}) \in Int /\ SumFunctionOnSet(g, U \ {x}) \in Int
      /\ f[x] \in Int /\ g[x] \in Int /\ f[x] <= g[x]
  BY <1>5, <1>7, SumType
<1> QED  BY <1>6, <1>8, <1>9

\* Summands of naught add nothing.
LEMMA SumZero ==
  ASSUME NEW S, IsFiniteSet(S), NEW f, \A x \in S : f[x] = 0
  PROVE  SumFunctionOnSet(f, S) = 0
<1> DEFINE B == {U \in SUBSET S : SumFunctionOnSet(f, U) # 0}
<1>1. SUFFICES ASSUME B # {} PROVE FALSE
  OBVIOUS
<1>2. PICK U \in B : \A V \in B : V \subseteq U => V = U
  <2>1. B \in SUBSET SUBSET S  OBVIOUS
  <2> HIDE DEF B
  <2> QED  BY <1>1, <2>1, SmallestSubset
<1>3. U # {}  BY SumEmpty
<1>4. PICK x : x = Element(U)  OBVIOUS
<1>5. x \in U /\ U \ {x} \in SUBSET S /\ U \ {x} \subseteq U /\ U \ {x} # U /\ f[x] = 0
  BY <1>3, <1>4, ElementIn
<1>6. SumFunctionOnSet(f, U \ {x}) = 0  BY <1>2, <1>5
<1>7. IsFiniteSet(U)  BY FS_Subset
<1>8. SumFunctionOnSet(f, U) = f[x] + SumFunctionOnSet(f, U \ {x})
  BY <1>3, <1>4, <1>7, SumStep
<1> QED  BY <1>5, <1>6, <1>8

\* A sum of natural numbers is one, and no summand exceeds it.
LEMMA SumNat ==
  ASSUME NEW S, IsFiniteSet(S), NEW f, \A x \in S : f[x] \in Nat
  PROVE  /\ SumFunctionOnSet(f, S) \in Nat
         /\ \A y \in S : f[y] <= SumFunctionOnSet(f, S)
<1>1. ASSUME NEW T, IsFiniteSet(T), \A x \in T : f[x] \in Nat
      PROVE  SumFunctionOnSet(f, T) \in Nat
  <2>1. PICK z : z = [x \in T |-> 0]  OBVIOUS
  <2>2. \A x \in T : z[x] = 0  BY <2>1
  <2>3. SumFunctionOnSet(z, T) = 0  BY <1>1, <2>2, SumZero
  <2>4. \A x \in T : z[x] \in Int /\ f[x] \in Int /\ z[x] <= f[x]  BY <1>1, <2>2
  <2>5. SumFunctionOnSet(z, T) <= SumFunctionOnSet(f, T)  BY <1>1, <2>4, SumBelow
  <2>6. SumFunctionOnSet(f, T) \in Int  BY <1>1, SumType
  <2> QED  BY <2>3, <2>5, <2>6
<1>2. ASSUME NEW y \in S PROVE f[y] <= SumFunctionOnSet(f, S)
  <2>1. IsFiniteSet(S \ {y})  BY FS_RemoveElement
  <2>2. SumFunctionOnSet(f, S \ {y}) \in Nat  BY <1>1, <2>1
  <2>3. SumFunctionOnSet(f, S) = f[y] + SumFunctionOnSet(f, S \ {y})  BY SumRemove
  <2> QED  BY <2>2, <2>3
<1> QED  BY <1>1, <1>2

\* A sum over fewer elements is no greater.
LEMMA SumSubset ==
  ASSUME NEW S, IsFiniteSet(S), NEW T \in SUBSET S, NEW f, \A x \in S : f[x] \in Nat
  PROVE  SumFunctionOnSet(f, T) <= SumFunctionOnSet(f, S)
<1> DEFINE B == {U \in SUBSET S : T \subseteq U /\ ~(SumFunctionOnSet(f, T) <= SumFunctionOnSet(f, U))}
<1>1. SUFFICES ASSUME B # {} PROVE FALSE
  OBVIOUS
<1>2. PICK U \in B : \A V \in B : V \subseteq U => V = U
  <2>1. B \in SUBSET SUBSET S  OBVIOUS
  <2> HIDE DEF B
  <2> QED  BY <1>1, <2>1, SmallestSubset
<1>3. IsFiniteSet(T) /\ IsFiniteSet(U) /\ U \in SUBSET S /\ T \in SUBSET U
  BY FS_Subset
<1>4. SumFunctionOnSet(f, T) \in Nat /\ SumFunctionOnSet(f, U) \in Nat
  BY <1>3, SumNat
<1>5. U # T  BY <1>4
<1>6. PICK z \in U : z \notin T  BY <1>3, <1>5
<1>7. U \ {z} \in SUBSET S /\ T \subseteq U \ {z} /\ U \ {z} # U /\ IsFiniteSet(U \ {z})
  BY <1>3, <1>6, FS_RemoveElement
<1>8. SumFunctionOnSet(f, T) <= SumFunctionOnSet(f, U \ {z})  BY <1>2, <1>7
<1>9. SumFunctionOnSet(f, U) = f[z] + SumFunctionOnSet(f, U \ {z})  BY <1>3, SumRemove
<1>10. SumFunctionOnSet(f, U \ {z}) \in Nat /\ f[z] \in Nat  BY <1>3, <1>7, SumNat
<1> QED  BY <1>4, <1>8, <1>9, <1>10

\* The sums of two summands each are two sums.
LEMMA SumOfTwo ==
  ASSUME NEW S, IsFiniteSet(S), NEW f, NEW g, NEW h,
         \A x \in S : f[x] \in Int /\ g[x] \in Int /\ h[x] = f[x] + g[x]
  PROVE  SumFunctionOnSet(h, S) = SumFunctionOnSet(f, S) + SumFunctionOnSet(g, S)
<1> DEFINE B == {U \in SUBSET S :
                   SumFunctionOnSet(h, U) # SumFunctionOnSet(f, U) + SumFunctionOnSet(g, U)}
<1>1. SUFFICES ASSUME B # {} PROVE FALSE
  OBVIOUS
<1>2. PICK U \in B : \A V \in B : V \subseteq U => V = U
  <2>1. B \in SUBSET SUBSET S  OBVIOUS
  <2> HIDE DEF B
  <2> QED  BY <1>1, <2>1, SmallestSubset
<1>3. U # {}
  <2>1. 0 = 0 + 0  OBVIOUS
  <2> QED  BY <2>1, SumEmpty
<1>4. PICK x : x = Element(U)  OBVIOUS
<1>5. x \in U /\ U \ {x} \in SUBSET S /\ U \ {x} \subseteq U /\ U \ {x} # U
  BY <1>3, <1>4, ElementIn
<1>6. SumFunctionOnSet(h, U \ {x})
        = SumFunctionOnSet(f, U \ {x}) + SumFunctionOnSet(g, U \ {x})
  BY <1>2, <1>5
<1>7. IsFiniteSet(U) /\ IsFiniteSet(U \ {x})  BY <1>5, FS_Subset
<1>8. /\ SumFunctionOnSet(f, U) = f[x] + SumFunctionOnSet(f, U \ {x})
      /\ SumFunctionOnSet(g, U) = g[x] + SumFunctionOnSet(g, U \ {x})
      /\ SumFunctionOnSet(h, U) = h[x] + SumFunctionOnSet(h, U \ {x})
  BY <1>3, <1>4, <1>7, SumStep
<1>9. /\ SumFunctionOnSet(f, U \ {x}) \in Int /\ SumFunctionOnSet(g, U \ {x}) \in Int
      /\ f[x] \in Int /\ g[x] \in Int /\ h[x] = f[x] + g[x]
  BY <1>5, <1>7, SumType
<1>10. SumFunctionOnSet(h, U) = SumFunctionOnSet(f, U) + SumFunctionOnSet(g, U)
  BY <1>6, <1>8, <1>9
<1> QED  BY <1>10

\* A sum over a set is the sum over a part and the sum over the rest.
LEMMA SumParts ==
  ASSUME NEW S, IsFiniteSet(S), NEW T \in SUBSET S, NEW f, \A x \in S : f[x] \in Int
  PROVE  SumFunctionOnSet(f, S) = SumFunctionOnSet(f, T) + SumFunctionOnSet(f, S \ T)
<1> DEFINE B == {U \in SUBSET S : T \subseteq U /\
                   SumFunctionOnSet(f, U) # SumFunctionOnSet(f, T) + SumFunctionOnSet(f, U \ T)}
<1>1. SUFFICES ASSUME B # {} PROVE FALSE
  OBVIOUS
<1>2. PICK U \in B : \A V \in B : V \subseteq U => V = U
  <2>1. B \in SUBSET SUBSET S  OBVIOUS
  <2> HIDE DEF B
  <2> QED  BY <1>1, <2>1, SmallestSubset
<1>3. /\ IsFiniteSet(T) /\ IsFiniteSet(U) /\ IsFiniteSet(U \ T)
      /\ U \in SUBSET S /\ T \in SUBSET U
  BY FS_Subset
<1>4. SumFunctionOnSet(f, T) \in Int
  BY <1>3, SumType
<1>5. U # T
  <2>1. T \ T = {}  OBVIOUS
  <2>2. SumFunctionOnSet(f, T) = SumFunctionOnSet(f, T) + 0  BY <1>4
  <2> QED  BY <2>1, <2>2, SumEmpty
<1>6. PICK z \in U : z \notin T  BY <1>3, <1>5
<1>7. /\ U \ {z} \in SUBSET S /\ T \subseteq U \ {z} /\ U \ {z} # U
      /\ (U \ {z}) \ T = (U \ T) \ {z} /\ z \in U \ T
      /\ IsFiniteSet((U \ T) \ {z})
  BY <1>3, <1>6, FS_RemoveElement
<1>8. SumFunctionOnSet(f, U \ {z})
        = SumFunctionOnSet(f, T) + SumFunctionOnSet(f, (U \ T) \ {z})
  <2>1. U \ {z} \notin B  BY <1>2, <1>7
  <2>2. SumFunctionOnSet(f, U \ {z})
          = SumFunctionOnSet(f, T) + SumFunctionOnSet(f, (U \ {z}) \ T)
    BY <1>7, <2>1
  <2> HIDE DEF B
  <2> QED  BY <1>7, <2>2
<1>9. /\ SumFunctionOnSet(f, U) = f[z] + SumFunctionOnSet(f, U \ {z})
      /\ SumFunctionOnSet(f, U \ T) = f[z] + SumFunctionOnSet(f, (U \ T) \ {z})
  BY <1>3, <1>6, <1>7, SumRemove
<1>10. SumFunctionOnSet(f, (U \ T) \ {z}) \in Int /\ f[z] \in Int
  BY <1>3, <1>6, <1>7, SumType
<1>11. SumFunctionOnSet(f, U) = SumFunctionOnSet(f, T) + SumFunctionOnSet(f, U \ T)
  <2> HIDE DEF B
  <2> QED  BY <1>4, <1>8, <1>9, <1>10
<1> QED  BY <1>11

\* Summands of naught may be left out.
LEMMA SumNonZero ==
  ASSUME NEW S, IsFiniteSet(S), NEW T \in SUBSET S, NEW f, \A x \in S : f[x] \in Int,
         \A x \in S \ T : f[x] = 0
  PROVE  SumFunctionOnSet(f, S) = SumFunctionOnSet(f, T)
<1>1. IsFiniteSet(T) /\ IsFiniteSet(S \ T)  BY FS_Subset
<1>2. SumFunctionOnSet(f, S \ T) = 0  BY <1>1, SumZero
<1>3. SumFunctionOnSet(f, T) \in Int  BY <1>1, SumType
<1>4. SumFunctionOnSet(f, S) = SumFunctionOnSet(f, T) + SumFunctionOnSet(f, S \ T)
  BY SumParts
<1> QED  BY <1>2, <1>3, <1>4

\* Of some numbers one is the least.
LEMMA LeastNumber ==
  ASSUME NEW B \in SUBSET Nat, B # {}
  PROVE  \E m \in B : \A k \in B : m <= k
<1>1. IsWellFoundedOn(OpToRel(<, Nat), Nat)  BY NatLessThanWellFounded, Zenon
<1>2. PICK m \in B : \A k \in B : <<k, m>> \notin OpToRel(<, Nat)
  BY <1>1, WFMin, Zenon
<1>3. \A k \in B : ~ (k < m)  BY <1>2 DEF OpToRel
<1> QED  BY <1>3

\* Differences of neighbours add up to the difference of the ends.
LEMMA SumTelescopes ==
  ASSUME NEW N \in Nat, NEW c, NEW v, \A i \in 0..N : c[i] \in Int,
         \A i \in 1..N : v[i] = c[i] - c[i - 1]
  PROVE  SumFunctionOnSet(v, 1..N) = c[N] - c[0]
<1> DEFINE B == {k \in 0..N : SumFunctionOnSet(v, 1..k) # c[k] - c[0]}
<1>1. SUFFICES ASSUME B # {} PROVE FALSE
  OBVIOUS
<1>2. PICK k \in B : \A j \in B : k <= j
  <2>1. B \in SUBSET Nat  OBVIOUS
  <2> HIDE DEF B
  <2> QED  BY <1>1, <2>1, LeastNumber
<1>3. k \in 0..N /\ SumFunctionOnSet(v, 1..k) # c[k] - c[0]  OBVIOUS
<1>4. k # 0
  <2>1. k = 0 => 1..k = {}  OBVIOUS
  <2>2. c[0] - c[0] = 0  OBVIOUS
  <2> QED  BY <1>3, <2>1, <2>2, SumEmpty
<1>5. /\ k \in 1..N /\ k - 1 \in 0..N /\ k \notin 1..(k - 1)
      /\ 1..k = 1..(k - 1) \cup {k} /\ ~ (k <= k - 1)
  BY <1>3, <1>4
<1>6. k - 1 \notin B  BY <1>2, <1>5
<1>7. SumFunctionOnSet(v, 1..(k - 1)) = c[k - 1] - c[0]  BY <1>5, <1>6
<1>8. \A i \in 1..(k - 1) \cup {k} : v[i] \in Int
  <2>1. \A i \in 1..N : i - 1 \in 0..N /\ i \in 0..N  OBVIOUS
  <2> QED  BY <1>5, <2>1
<1>9. IsFiniteSet(1..(k - 1))  BY FS_Interval
<1>10. SumFunctionOnSet(v, 1..k) = v[k] + SumFunctionOnSet(v, 1..(k - 1))
  <2>1. SumFunctionOnSet(v, 1..(k - 1) \cup {k}) = v[k] + SumFunctionOnSet(v, 1..(k - 1))
    BY <1>5, <1>8, <1>9, SumAdd
  <2> HIDE DEF B
  <2> QED  BY <1>5, <2>1
<1>11. v[k] = c[k] - c[k - 1] /\ c[k] \in Int /\ c[k - 1] \in Int /\ c[0] \in Int
  BY <1>3, <1>5
<1>12. SumFunctionOnSet(v, 1..k) = c[k] - c[0]
  <2> HIDE DEF B
  <2> QED  BY <1>7, <1>10, <1>11
<1> QED  BY <1>3, <1>12

\* The sum of a whole function.
LEMMA SumWhole == \A f : SumFunction(f) = SumFunctionOnSet(f, DOMAIN f)
BY DEF SumFunction, SumFunctionOnSet, FoldFunction

\* The sum of a function given by its values.
LEMMA SumOfValues ==
  ASSUME NEW S, IsFiniteSet(S), NEW f, NEW g, DOMAIN g = S, \A x \in S : g[x] = f[x]
  PROVE  SumFunction(g) = SumFunctionOnSet(f, S)
BY SumWhole, SumSame

\* Differences add up to the difference of the sums.
LEMMA SumOfDifference ==
  ASSUME NEW S, IsFiniteSet(S), NEW f, NEW g, NEW h,
         \A x \in S : f[x] \in Int /\ g[x] \in Int /\ h[x] = f[x] - g[x]
  PROVE  SumFunctionOnSet(h, S) = SumFunctionOnSet(f, S) - SumFunctionOnSet(g, S)
<1>1. \A x \in S : h[x] \in Int /\ f[x] = h[x] + g[x]  OBVIOUS
<1>2. SumFunctionOnSet(f, S) = SumFunctionOnSet(h, S) + SumFunctionOnSet(g, S)
  BY <1>1, SumOfTwo
<1>3. SumFunctionOnSet(h, S) \in Int /\ SumFunctionOnSet(g, S) \in Int
  BY <1>1, SumType
<1> QED  BY <1>2, <1>3

LEMMA Distributes == \A c, a, b \in Int : c * (a + b) = c * a + c * b
OBVIOUS

\* A common factor.
LEMMA SumScaled ==
  ASSUME NEW S, IsFiniteSet(S), NEW f, NEW g, NEW c \in Int,
         \A x \in S : f[x] \in Int /\ g[x] = c * f[x]
  PROVE  SumFunctionOnSet(g, S) = c * SumFunctionOnSet(f, S)
<1> DEFINE B == {U \in SUBSET S : SumFunctionOnSet(g, U) # c * SumFunctionOnSet(f, U)}
<1>1. SUFFICES ASSUME B # {} PROVE FALSE
  OBVIOUS
<1>2. PICK U \in B : \A V \in B : V \subseteq U => V = U
  <2>1. B \in SUBSET SUBSET S  OBVIOUS
  <2> HIDE DEF B
  <2> QED  BY <1>1, <2>1, SmallestSubset
<1>3. U # {}
  <2>1. c * 0 = 0  OBVIOUS
  <2> QED  BY <2>1, SumEmpty
<1>4. PICK x : x = Element(U)  OBVIOUS
<1>5. x \in U /\ U \ {x} \in SUBSET S /\ U \ {x} \subseteq U /\ U \ {x} # U
  BY <1>3, <1>4, ElementIn
<1>6. SumFunctionOnSet(g, U \ {x}) = c * SumFunctionOnSet(f, U \ {x})  BY <1>2, <1>5
<1>7. IsFiniteSet(U) /\ IsFiniteSet(U \ {x})  BY <1>5, FS_Subset
<1>8. /\ SumFunctionOnSet(f, U) = f[x] + SumFunctionOnSet(f, U \ {x})
      /\ SumFunctionOnSet(g, U) = g[x] + SumFunctionOnSet(g, U \ {x})
  BY <1>3, <1>4, <1>7, SumStep
<1>9. SumFunctionOnSet(f, U \ {x}) \in Int /\ f[x] \in Int /\ g[x] = c * f[x]
  BY <1>5, <1>7, SumType
<1>10. SumFunctionOnSet(g, U) = c * SumFunctionOnSet(f, U)
  <2>1. PICK a, b : a = f[x] /\ b = SumFunctionOnSet(f, U \ {x})  OBVIOUS
  <2>2. c * (a + b) = c * a + c * b  BY <1>9, <2>1, Distributes
  <2>3. SumFunctionOnSet(g, U) = c * a + c * b  BY <1>6, <1>8, <1>9, <2>1, Zenon
  <2>4. SumFunctionOnSet(f, U) = a + b  BY <1>8, <2>1, Zenon
  <2> QED  BY <2>2, <2>3, <2>4, Zenon
<1> QED  BY <1>10

\* One counts the elements.
LEMMA SumOfOnes ==
  ASSUME NEW S, IsFiniteSet(S), NEW f, \A x \in S : f[x] = 1
  PROVE  SumFunctionOnSet(f, S) = Cardinality(S)
<1> DEFINE B == {U \in SUBSET S : SumFunctionOnSet(f, U) # Cardinality(U)}
<1>1. SUFFICES ASSUME B # {} PROVE FALSE
  OBVIOUS
<1>2. PICK U \in B : \A V \in B : V \subseteq U => V = U
  <2>1. B \in SUBSET SUBSET S  OBVIOUS
  <2> HIDE DEF B
  <2> QED  BY <1>1, <2>1, SmallestSubset
<1>3. U # {}  BY SumEmpty, FS_EmptySet
<1>4. PICK x : x = Element(U)  OBVIOUS
<1>5. x \in U /\ f[x] = 1 /\ U \ {x} \in SUBSET S /\ U \ {x} \subseteq U /\ U \ {x} # U
  BY <1>3, <1>4, ElementIn
<1>6. SumFunctionOnSet(f, U \ {x}) = Cardinality(U \ {x})  BY <1>2, <1>5
<1>7. IsFiniteSet(U)  BY FS_Subset
<1>8. SumFunctionOnSet(f, U) = f[x] + SumFunctionOnSet(f, U \ {x})
  BY <1>3, <1>4, <1>7, SumStep
<1>9. Cardinality(U \ {x}) = Cardinality(U) - 1 /\ Cardinality(U) \in Nat
  BY <1>5, <1>7, FS_RemoveElement, FS_CardinalityType
<1>10. SumFunctionOnSet(f, U) = Cardinality(U)
  <2> HIDE DEF B
  <2> QED  BY <1>5, <1>6, <1>8, <1>9
<1> QED  BY <1>10

\* The rows of a table add up to what its columns add up to.
LEMMA SumSwapped ==
  ASSUME NEW S, IsFiniteSet(S), NEW P, IsFiniteSet(P), NEW t,
         \A p \in P : \A x \in S : t[p][x] \in Int
  PROVE  SumFunctionOnSet([x \in S |-> SumFunctionOnSet([p \in P |-> t[p][x]], P)], S)
           = SumFunctionOnSet([p \in P |-> SumFunctionOnSet(t[p], S)], P)
<1> DEFINE column(x) == [p \in P |-> t[p][x]]
           byRow(Q) == [x \in S |-> SumFunctionOnSet(column(x), Q)]
           rowSum == [p \in P |-> SumFunctionOnSet(t[p], S)]
           B == {Q \in SUBSET P : SumFunctionOnSet(byRow(Q), S) # SumFunctionOnSet(rowSum, Q)}
<1>1. ASSUME B # {} PROVE FALSE
  <2>2. PICK Q \in B : \A V \in B : V \subseteq Q => V = Q
    <3>1. B \in SUBSET SUBSET P  OBVIOUS
    <3> HIDE DEF B
    <3> QED  BY <1>1, <3>1, SmallestSubset
  <2>3. Q \in SUBSET P /\ SumFunctionOnSet(byRow(Q), S) # SumFunctionOnSet(rowSum, Q)
    OBVIOUS
  <2>4. Q # {}
    <3>1. \A x \in S : byRow({})[x] = 0  BY SumEmpty
    <3> HIDE DEF byRow
    <3>2. SumFunctionOnSet(byRow({}), S) = 0  BY <3>1, SumZero
    <3> QED  BY <2>3, <3>2, SumEmpty
  <2>5. PICK q : q = Element(Q)  OBVIOUS
  <2>6. /\ q \in Q /\ q \in P /\ Q \ {q} \in SUBSET P /\ Q \ {q} \subseteq Q /\ Q \ {q} # Q
        /\ IsFiniteSet(Q) /\ IsFiniteSet(Q \ {q})
    BY <2>3, <2>4, <2>5, ElementIn, FS_Subset
  <2>7. SumFunctionOnSet(byRow(Q \ {q}), S) = SumFunctionOnSet(rowSum, Q \ {q})
    <3>1. Q \ {q} \notin B  BY <2>2, <2>6
    <3> QED  BY <2>6, <3>1
  <2>8. \A x \in S : /\ t[q][x] \in Int /\ byRow(Q \ {q})[x] \in Int
                     /\ byRow(Q)[x] = t[q][x] + byRow(Q \ {q})[x]
    <3> TAKE x \in S
    <3>1. PICK f : f = column(x)  OBVIOUS
    <3>2. f[q] = t[q][x] /\ \A p \in Q : f[p] \in Int  BY <2>3, <2>6, <3>1
    <3>3. SumFunctionOnSet(f, Q) = f[q] + SumFunctionOnSet(f, Q \ {q})
      BY <2>4, <2>5, <2>6, SumStep
    <3>4. SumFunctionOnSet(f, Q \ {q}) \in Int  BY <2>6, <3>2, SumType
    <3> HIDE DEF column
    <3>5. byRow(Q)[x] = SumFunctionOnSet(f, Q) /\ byRow(Q \ {q})[x] = SumFunctionOnSet(f, Q \ {q})
      BY <3>1
    <3> QED  BY <2>6, <3>2, <3>3, <3>4, <3>5
  <2>9. SumFunctionOnSet(byRow(Q), S)
          = SumFunctionOnSet(t[q], S) + SumFunctionOnSet(byRow(Q \ {q}), S)
    <3> HIDE DEF byRow
    <3> QED  BY <2>8, SumOfTwo
  <2>10. SumFunctionOnSet(rowSum, Q)
           = SumFunctionOnSet(t[q], S) + SumFunctionOnSet(rowSum, Q \ {q})
    <3>1. rowSum[q] = SumFunctionOnSet(t[q], S)  BY <2>6
    <3> HIDE DEF rowSum
    <3> QED  BY <2>4, <2>5, <2>6, <3>1, SumStep
  <2> QED  BY <2>3, <2>7, <2>9, <2>10, Zenon
<1>2. P \in SUBSET P  OBVIOUS
<1>3. SumFunctionOnSet(byRow(P), S) = SumFunctionOnSet(rowSum, P)
  BY <1>1, <1>2
<1> QED  BY <1>3
------------------------------------------------------------------------------
(* Repeating a step *)

\* f begins with base and goes on by step.
Repeats(f, base, step) == f[0] = base /\ \A n \in Nat : f[n + 1] = step[f[n]]
RepeatsTo(f, N, base, step) == f[0] = base /\ \A n \in 0 .. N : n > 0 => f[n] = step[f[n - 1]]

\* A property that passes from each number to the next holds of all: B are those
\* of which it does not.
LEMMA NoCounterexample ==
  ASSUME NEW B \in SUBSET Nat, 0 \notin B, \A n \in Nat : n + 1 \in B => n \in B
  PROVE  B = {}
<1> SUFFICES ASSUME B # {} PROVE FALSE  OBVIOUS
<1>1. PICK n \in B : \A m \in B : n <= m  BY LeastNumber
<1>2. n \in Nat /\ n # 0  OBVIOUS
<1>3. n - 1 \in Nat /\ (n - 1) + 1 = n  BY <1>2
<1>4. n - 1 \in B  BY <1>1, <1>3
<1> QED  BY <1>1, <1>3, <1>4

\* What a step makes of a start can be continued for any number of rounds.
LEMMA RepeatsToExists ==
  ASSUME NEW S, NEW base \in S, NEW step \in [S -> S], NEW N \in Nat
  PROVE  \E f \in [0 .. N -> S] : RepeatsTo(f, N, base, step)
<1> DEFINE B == {n \in Nat : ~ \E f \in [0 .. n -> S] : RepeatsTo(f, n, base, step)}
<1>1. 0 \notin B
  <2>1. PICK f : f = [n \in 0 .. 0 |-> base]  OBVIOUS
  <2>2. f \in [0 .. 0 -> S] /\ RepeatsTo(f, 0, base, step)  BY <2>1 DEF RepeatsTo
  <2> QED  BY <2>2
<1>2. ASSUME NEW n \in Nat, n \notin B PROVE n + 1 \notin B
  <2>1. PICK f \in [0 .. n -> S] : RepeatsTo(f, n, base, step)  BY <1>2
  <2>2. PICK g : g = [m \in 0 .. n + 1 |-> IF m = n + 1 THEN step[f[n]] ELSE f[m]]  OBVIOUS
  <2>3. g \in [0 .. n + 1 -> S]  BY <2>1, <2>2
  <2>4. g[0] = base  BY <2>1, <2>2 DEF RepeatsTo
  <2>5. ASSUME NEW m \in 0 .. n + 1, m > 0 PROVE g[m] = step[g[m - 1]]
    <3>1. CASE m = n + 1
      <4>1. m - 1 = n /\ n \in 0 .. n + 1 /\ n # n + 1  BY <3>1
      <4> QED  BY <2>2, <3>1, <4>1
    <3>2. CASE m # n + 1
      <4>1. m \in 0 .. n /\ m - 1 \in 0 .. n /\ m - 1 # n + 1 /\ m - 1 \in 0 .. n + 1  BY <2>5, <3>2
      <4>2. f[m] = step[f[m - 1]]  BY <2>1, <2>5, <4>1 DEF RepeatsTo
      <4> QED  BY <2>2, <3>2, <4>1, <4>2
    <3> QED  BY <3>1, <3>2
  <2>6. RepeatsTo(g, n + 1, base, step)  BY <2>4, <2>5 DEF RepeatsTo
  <2> QED  BY <2>3, <2>6
<1>3. B \in SUBSET Nat  OBVIOUS
<1>4. \A n \in Nat : n + 1 \in B => n \in B  BY <1>2
<1> HIDE DEF B
<1>5. B = {}  BY <1>1, <1>3, <1>4, NoCounterexample
<1> QED  BY <1>5 DEF B

\* Two such repetitions agree as far as both go.
LEMMA RepeatsToOnce ==
  ASSUME NEW base, NEW step, NEW M \in Nat, NEW N \in Nat, NEW f, NEW g,
         RepeatsTo(f, M, base, step), RepeatsTo(g, N, base, step), NEW n \in Nat, n <= M, n <= N
  PROVE  f[n] = g[n]
<1> DEFINE B == {m \in Nat : m <= M /\ m <= N /\ f[m] # g[m]}
<1>1. 0 \notin B  BY DEF RepeatsTo
<1>2. ASSUME NEW m \in Nat, m + 1 \in B PROVE m \in B
  <2>1. m + 1 \in 0 .. M /\ m + 1 \in 0 .. N /\ m + 1 > 0 /\ (m + 1) - 1 = m  BY <1>2
  <2>2. f[m + 1] = step[f[m]] /\ g[m + 1] = step[g[m]]  BY <2>1 DEF RepeatsTo
  <2> QED  BY <1>2, <2>2
<1>3. B \in SUBSET Nat  OBVIOUS
<1> HIDE DEF B
<1>4. B = {}  BY <1>1, <1>2, <1>3, NoCounterexample
<1> QED  BY <1>4 DEF B

\* A step can be repeated forever.
LEMMA RepeatsExists ==
  ASSUME NEW S, NEW base \in S, NEW step \in [S -> S]
  PROVE  \E f \in [Nat -> S] : Repeats(f, base, step)
<1> DEFINE A(n) == CHOOSE f \in [0 .. n -> S] : RepeatsTo(f, n, base, step)
<1>1. ASSUME NEW n \in Nat PROVE A(n) \in [0 .. n -> S] /\ RepeatsTo(A(n), n, base, step)
  BY RepeatsToExists
<1> HIDE DEF A
<1>2. PICK f : f = [n \in Nat |-> A(n)[n]]  OBVIOUS
<1>3. f \in [Nat -> S]  BY <1>1, <1>2
<1>4. f[0] = base  BY <1>1, <1>2 DEF RepeatsTo
<1>5. ASSUME NEW n \in Nat PROVE f[n + 1] = step[f[n]]
  <2>1. n + 1 \in 0 .. n + 1 /\ n + 1 > 0 /\ (n + 1) - 1 = n /\ n <= n + 1 /\ n + 1 \in Nat  OBVIOUS
  <2>2. A(n + 1)[n + 1] = step[A(n + 1)[n]]  BY <1>1, <2>1 DEF RepeatsTo
  <2>3. A(n + 1)[n] = A(n)[n]
    <3>1. RepeatsTo(A(n + 1), n + 1, base, step) /\ RepeatsTo(A(n), n, base, step)  BY <1>1, <2>1
    <3> QED  BY <2>1, <3>1, RepeatsToOnce
  <2> QED  BY <1>2, <2>1, <2>2, <2>3
<1> QED  BY <1>3, <1>4, <1>5 DEF Repeats

\* A repetition of N rounds is the beginning of that.
LEMMA RepeatsUpTo ==
  ASSUME NEW base, NEW step, NEW N \in Nat, NEW f, NEW g, Repeats(f, base, step),
         RepeatsTo(g, N, base, step), NEW n \in 0 .. N
  PROVE  g[n] = f[n]
<1>1. RepeatsTo(f, N, base, step)
  <2>1. ASSUME NEW m \in 0 .. N, m > 0 PROVE f[m] = step[f[m - 1]]
    <3>1. m - 1 \in Nat /\ (m - 1) + 1 = m  BY <2>1
    <3> QED  BY <3>1 DEF Repeats
  <2> QED  BY <2>1 DEF Repeats, RepeatsTo
<1> QED  BY <1>1, RepeatsToOnce

\* Steps that give more for more come to rest after as many as there are elements.
LEMMA Climbs ==
  ASSUME NEW U, NEW F \in [SUBSET U -> SUBSET U],
         \A X, Y \in SUBSET U : X \subseteq Y => F[X] \subseteq F[Y],
         NEW f \in [Nat -> SUBSET U], Repeats(f, {}, F)
  PROVE  \A n \in Nat : f[n] \subseteq f[n + 1]
<1> DEFINE B == {n \in Nat : ~(f[n] \subseteq f[n + 1])}
<1>1. 0 \notin B  BY DEF Repeats
<1>2. ASSUME NEW n \in Nat, n \notin B PROVE n + 1 \notin B
  <2>1. f[n] \in SUBSET U /\ f[n + 1] \in SUBSET U /\ f[n] \subseteq f[n + 1]  BY <1>2
  <2>2. f[n + 1] = F[f[n]] /\ f[(n + 1) + 1] = F[f[n + 1]]  BY DEF Repeats
  <2> QED  BY <2>1, <2>2
<1>3. B \in SUBSET Nat /\ \A n \in Nat : n + 1 \in B => n \in B  BY <1>2
<1> HIDE DEF B
<1>4. B = {}  BY <1>1, <1>3, NoCounterexample
<1> QED  BY <1>4 DEF B

\* They climb to a set that one more step leaves as it is.
LEMMA ComesToRest ==
  ASSUME NEW U, IsFiniteSet(U), NEW F \in [SUBSET U -> SUBSET U],
         \A X, Y \in SUBSET U : X \subseteq Y => F[X] \subseteq F[Y],
         NEW f \in [Nat -> SUBSET U], Repeats(f, {}, F)
  PROVE  /\ F[f[Cardinality(U)]] = f[Cardinality(U)]
         /\ \A n \in Nat : f[n] \subseteq f[Cardinality(U)]
<1>1. PICK N : N = Cardinality(U) /\ N \in Nat  BY FS_CardinalityType
<1>2. \A n \in Nat : f[n] \subseteq f[n + 1]  BY Climbs
<1>3. \A n \in Nat : f[n + 1] = F[f[n]]  BY DEF Repeats
<1>4. \A n \in Nat : IsFiniteSet(f[n]) /\ Cardinality(f[n]) \in Nat /\ f[n] \subseteq U
  <2> TAKE n \in Nat
  <2>1. f[n] \subseteq U  OBVIOUS
  <2>2. IsFiniteSet(f[n])  BY <2>1, FS_Subset
  <2> QED  BY <2>1, <2>2, FS_CardinalityType
<1>5. \A n \in Nat : n <= Cardinality(f[n]) \/ F[f[n]] = f[n]
  <2> DEFINE B == {n \in Nat : ~(n <= Cardinality(f[n]) \/ F[f[n]] = f[n])}
  <2>1. 0 \notin B  BY <1>4
  <2>2. ASSUME NEW n \in Nat, n \notin B PROVE n + 1 \notin B
    <3>1. CASE F[f[n]] = f[n]
      <4>1. f[n + 1] = f[n]  BY <1>3, <3>1
      <4> QED  BY <3>1, <4>1
    <3>2. CASE F[f[n]] # f[n]
      <4>1. n <= Cardinality(f[n]) /\ f[n + 1] # f[n] /\ f[n] \subseteq f[n + 1]
        BY <1>2, <1>3, <2>2, <3>2
      <4>2. n + 1 \in Nat  OBVIOUS
      <4>3. IsFiniteSet(f[n + 1]) /\ Cardinality(f[n + 1]) \in Nat /\ Cardinality(f[n]) \in Nat
        BY <1>4, <4>2
      <4>4. Cardinality(f[n]) < Cardinality(f[n + 1])
        BY <4>1, <4>3, FS_Subset
      <4>5. n + 1 <= Cardinality(f[n + 1])  BY <4>1, <4>3, <4>4
      <4> QED  BY <4>5
    <3> QED  BY <3>1, <3>2
  <2>3. B \in SUBSET Nat /\ \A n \in Nat : n + 1 \in B => n \in B  BY <2>2
  <2> HIDE DEF B
  <2>4. B = {}  BY <2>1, <2>3, NoCounterexample
  <2> QED  BY <2>4 DEF B
<1>6. F[f[N]] = f[N]
  <2>1. CASE N <= Cardinality(f[N])
    <3>1. f[N] = U
      <4>1. f[N] \subseteq U /\ Cardinality(f[N]) \in Nat  BY <1>1, <1>4
      <4>2. Cardinality(f[N]) <= Cardinality(U)
            /\ (Cardinality(f[N]) = Cardinality(U) => f[N] = U)
        BY <4>1, FS_Subset
      <4> QED  BY <1>1, <2>1, <4>1, <4>2
    <3>2. f[N + 1] \in SUBSET U /\ f[N + 1] = F[f[N]] /\ f[N] \subseteq f[N + 1]
      BY <1>1, <1>2, <1>3
    <3> QED  BY ZenonT(60), <3>1, <3>2
  <2> QED  BY <1>1, <1>5, <2>1
<1>7. \A n \in Nat : f[n] \subseteq f[N]
  <2> DEFINE B == {n \in Nat : ~(f[n] \subseteq f[N])}
  <2>1. 0 \notin B  BY DEF Repeats
  <2>2. ASSUME NEW n \in Nat, n \notin B PROVE n + 1 \notin B
    <3>1. f[n] \in SUBSET U /\ f[N] \in SUBSET U /\ f[n] \subseteq f[N] /\ f[n + 1] = F[f[n]]
      BY <1>1, <1>3, <2>2
    <3>2. F[f[n]] \subseteq F[f[N]]  BY <3>1
    <3> QED  BY <1>6, <3>1, <3>2
  <2>3. B \in SUBSET Nat /\ \A n \in Nat : n + 1 \in B => n \in B  BY <2>2
  <2> HIDE DEF B
  <2>4. B = {}  BY <2>1, <2>3, NoCounterexample
  <2> QED  BY <2>4 DEF B
<1> QED  BY <1>1, <1>6, <1>7

-----------------------------------------------------------------------------
(* Sums renamed, and what is spread over places in an order *)

\* Adding up under other names.
LEMMA SumRenamed ==
  ASSUME NEW S, IsFiniteSet(S), NEW T, IsFiniteSet(T), NEW b \in [S -> T],
         \A x, y \in S : b[x] = b[y] => x = y, \A t \in T : \E x \in S : b[x] = t,
         NEW f, NEW g, \A t \in T : f[t] \in Int, \A x \in S : g[x] = f[b[x]]
  PROVE  SumFunctionOnSet(g, S) = SumFunctionOnSet(f, T)
<1> DEFINE Named(U) == {t \in T : \E x \in U : b[x] = t}
           B == {U \in SUBSET S : SumFunctionOnSet(g, U) # SumFunctionOnSet(f, Named(U))}
<1>1. B = {}
  <2>1. SUFFICES ASSUME B # {} PROVE FALSE
    OBVIOUS
  <2>2. PICK U \in B : \A V \in B : V \subseteq U => V = U
    <3>1. B \in SUBSET SUBSET S  OBVIOUS
    <3> HIDE DEF B
    <3> QED  BY <2>1, <3>1, SmallestSubset
  <2>3. U # {}
    <3>1. U = {} => Named(U) = {}  OBVIOUS
    <3> QED  BY <3>1, SumEmpty
  <2>4. PICK x : x \in U  BY <2>3
  <2>5. PICK V : V = U \ {x}  OBVIOUS
  <2>6. /\ V \in SUBSET S /\ V \subseteq U /\ V # U /\ x \notin V /\ U = V \cup {x}
        /\ IsFiniteSet(V)
    BY <2>4, <2>5, FS_Subset
  <2>7. SumFunctionOnSet(g, V) = SumFunctionOnSet(f, Named(V))
    BY <2>2, <2>6
  <2>8. Named(U) = Named(V) \cup {b[x]} /\ b[x] \notin Named(V)
    BY <2>4, <2>6
  <2>9. Named(V) \in SUBSET T /\ IsFiniteSet(Named(V)) /\ b[x] \in T
    BY <2>4, FS_Subset
  <2>10. SumFunctionOnSet(f, Named(V) \cup {b[x]}) = f[b[x]] + SumFunctionOnSet(f, Named(V))
    <3>1. \A t \in Named(V) \cup {b[x]} : f[t] \in Int  BY <2>9
    <3> HIDE DEF Named
    <3> QED  BY <2>8, <2>9, <3>1, SumAdd
  <2>11. SumFunctionOnSet(g, V \cup {x}) = g[x] + SumFunctionOnSet(g, V)
    <3>1. \A y \in V \cup {x} : g[y] \in Int  BY <2>4, <2>6
    <3> QED  BY <2>6, <3>1, SumAdd
  <2>12. g[x] = f[b[x]]  BY <2>4
  <2>13. SumFunctionOnSet(g, U) = SumFunctionOnSet(f, Named(U))
    <3> HIDE DEF Named
    <3> QED  BY <2>6, <2>7, <2>8, <2>10, <2>11, <2>12
  <2> QED  BY <2>13
<1>2. Named(S) = T  OBVIOUS
<1>3. SumFunctionOnSet(g, S) = SumFunctionOnSet(f, Named(S))
  BY <1>1
<1> QED  BY <1>2, <1>3

\* What a place takes of q, with room for so much, when those before it have
\* room for so much.
TakesUpTo(room, before, q, taken) ==
  /\ before >= q => taken = 0
  /\ before < q /\ before + room <= q => taken = room
  /\ before < q /\ before + room > q => taken = q - before

\* After one place more, what was taken is again the smaller of the two.
LEMMA OnePlaceMore ==
  ASSUME NEW a \in Nat, NEW b \in Nat, NEW c \in Nat, NEW d \in Nat, NEW q \in Nat,
         b <= q => a = b, b >= q => a = q, TakesUpTo(d, b, q, c)
  PROVE  /\ d + b <= q => c + a = d + b
         /\ d + b >= q => c + a = q
<1>1. CASE b >= q  BY <1>1 DEF TakesUpTo
<1>2. CASE b < q /\ b + d <= q  BY <1>2 DEF TakesUpTo
<1>3. CASE b < q /\ b + d > q  BY <1>3 DEF TakesUpTo
<1> QED  BY <1>1, <1>2, <1>3

\* before[x] are the places ahead of x, in an order.
OrdersPlaces(before, S) ==
  /\ before \in [S -> SUBSET S]
  /\ \A x \in S : x \notin before[x]
  /\ \A x, y \in S : y \in before[x] => before[y] \subseteq before[x]
  /\ \A x, y \in S : x # y => x \in before[y] \/ y \in before[x]

\* A finite set of places that holds those ahead of each of its own, if it is
\* not empty, is a last place and those ahead of it.
LEMMA LastPlace ==
  ASSUME NEW S, IsFiniteSet(S), NEW before, OrdersPlaces(before, S),
         NEW U \in SUBSET S, U # {}, \A x \in U : before[x] \subseteq U
  PROVE  \E x \in U : U = before[x] \cup {x}
<1> DEFINE B == {T \in SUBSET S : \E x \in U : T = U \ before[x]}
<1>1. B # {}
  <2>1. PICK x : x \in U  OBVIOUS
  <2>2. U \ before[x] \in B  BY <2>1
  <2> QED  BY <2>2
<1>2. PICK T \in B : \A V \in B : V \subseteq T => V = T
  <2>1. B \in SUBSET SUBSET S  OBVIOUS
  <2> HIDE DEF B
  <2> QED  BY <1>1, <2>1, SmallestSubset
<1>3. PICK x \in U : T = U \ before[x]  OBVIOUS
<1>4. ASSUME NEW y \in U, y # x PROVE y \in before[x]
  <2>1. SUFFICES ASSUME y \notin before[x] PROVE FALSE  OBVIOUS
  <2>2. x \in before[y] /\ before[x] \subseteq before[y] /\ x \notin before[x]
    BY <1>4, <2>1 DEF OrdersPlaces
  <2>3. U \ before[y] \in B /\ U \ before[y] \subseteq T  BY <1>3, <2>2
  <2>4. U \ before[y] = T  BY <1>2, <2>3
  <2> QED  BY <1>3, <2>2, <2>4
<1>5. before[x] \subseteq U  OBVIOUS
<1>6. U = before[x] \cup {x}  BY <1>4, <1>5
<1> QED  BY <1>6

\* Places filled in their order, each up to its room, take exactly what is to
\* be placed, if together they have room for it.
LEMMA PlacedInOrder ==
  ASSUME NEW S, IsFiniteSet(S), NEW before, OrdersPlaces(before, S), NEW q \in Nat,
         NEW room, NEW taken, \A x \in S : room[x] \in Nat /\ taken[x] \in Nat,
         \A x \in S : TakesUpTo(room[x], SumFunctionOnSet(room, before[x]), q, taken[x]),
         q <= SumFunctionOnSet(room, S)
  PROVE  SumFunctionOnSet(taken, S) = q
<1> DEFINE Room(U) == SumFunctionOnSet(room, U)
           Taken(U) == SumFunctionOnSet(taken, U)
           Right(U) == /\ Room(U) <= q => Taken(U) = Room(U)
                       /\ Room(U) >= q => Taken(U) = q
           Closed(U) == \A x \in U : before[x] \subseteq U
           B == {U \in SUBSET S : Closed(U) /\ ~Right(U)}
<1>1. \A U \in SUBSET S : IsFiniteSet(U) /\ Room(U) \in Nat /\ Taken(U) \in Nat
  <2> TAKE U \in SUBSET S
  <2>1. IsFiniteSet(U) /\ \A x \in U : room[x] \in Nat /\ taken[x] \in Nat
    BY FS_Subset
  <2> QED  BY <2>1, SumNat
<1>2. B = {}
  <2>1. SUFFICES ASSUME B # {} PROVE FALSE  OBVIOUS
  <2>2. PICK U \in B : \A V \in B : V \subseteq U => V = U
    <3>1. B \in SUBSET SUBSET S  OBVIOUS
    <3> HIDE DEF B
    <3> QED  BY <2>1, <3>1, SmallestSubset
  <2>3. U \in SUBSET S /\ Closed(U) /\ ~Right(U)  OBVIOUS
  <2>4. U # {}
    <3>1. Room({}) = 0 /\ Taken({}) = 0  BY SumEmpty
    <3> QED  BY <2>3, <3>1
  <2>5. PICK x \in U : U = before[x] \cup {x}
    <3> HIDE DEF B, Right
    <3> QED  BY <2>3, <2>4, LastPlace
  <2>6. PICK V : V = before[x]  OBVIOUS
  <2>7. V \in SUBSET S /\ V \subseteq U /\ x \notin V /\ U = V \cup {x} /\ x \in S
    BY <2>3, <2>5, <2>6 DEF OrdersPlaces
  <2>8. Closed(V)
    <3> HIDE DEF B, Right
    <3> QED  BY <2>6, <2>7 DEF OrdersPlaces
  <2>9. Right(V)  BY <2>2, <2>7, <2>8
  <2>10. Room(U) = room[x] + Room(V) /\ Taken(U) = taken[x] + Taken(V)
    <3>1. IsFiniteSet(V) /\ \A y \in V \cup {x} : room[y] \in Int /\ taken[y] \in Int
      BY <1>1, <2>7
    <3> QED  BY <2>7, <3>1, SumAdd
  <2>11. PICK a, b, c, d : a = Taken(V) /\ b = Room(V) /\ c = taken[x] /\ d = room[x]
    OBVIOUS
  <2>12. a \in Nat /\ b \in Nat /\ c \in Nat /\ d \in Nat
    BY <1>1, <2>7, <2>11
  <2>13. TakesUpTo(d, b, q, c)  BY <2>6, <2>7, <2>11
  <2>14. (b <= q => a = b) /\ (b >= q => a = q)  BY <2>9, <2>11
  <2>15. Room(U) = d + b /\ Taken(U) = c + a  BY <2>10, <2>11
  <2>16. /\ d + b <= q => c + a = d + b
         /\ d + b >= q => c + a = q
    <3> HIDE DEF B, Room, Taken, Right, Closed
    <3> QED  BY <2>12, <2>13, <2>14, OnePlaceMore
  <2>17. Right(U)
    <3> HIDE DEF Room, Taken
    <3> QED  BY <2>15, <2>16
  <2> QED  BY <2>3, <2>17
<1>3. Closed(S) /\ S \in SUBSET S  BY DEF OrdersPlaces
<1>4. Right(S)
  <2> HIDE DEF Right, Closed
  <2> QED  BY <1>2, <1>3
<1>5. Room(S) >= q  BY <1>1
<1> QED  BY <1>4, <1>5

------------------------------------------------------------------------------
(* Groups *)

\* The sums of the groups add up to the whole, whatever groups are empty.
LEMMA SumGrouped ==
  ASSUME NEW S, IsFiniteSet(S), NEW K, IsFiniteSet(K), NEW key, \A x \in S : key[x] \in K,
         NEW f, \A x \in S : f[x] \in Int
  PROVE  SumFunctionOnSet([k \in K |-> SumFunctionOnSet(f, {x \in S : key[x] = k})], K)
           = SumFunctionOnSet(f, S)
<1> DEFINE group(k) == {x \in S : key[x] = k}
           cells(k) == [x \in S |-> IF key[x] = k THEN f[x] ELSE 0]
           t == [k \in K |-> cells(k)]
           rows == [k \in K |-> SumFunctionOnSet(t[k], S)]
           columns == [x \in S |-> SumFunctionOnSet([k \in K |-> t[k][x]], K)]
<1>1. ASSUME NEW k \in K PROVE SumFunctionOnSet(t[k], S) = SumFunctionOnSet(f, group(k))
  <2>1. PICK g : g = cells(k)  OBVIOUS
  <2>2. t[k] = g  BY <2>1
  <2>3. group(k) \in SUBSET S /\ IsFiniteSet(group(k)) /\ IsFiniteSet(S \ group(k))
    BY FS_Subset
  <2>4. \A x \in S : g[x] \in Int  BY <2>1
  <2>5. SumFunctionOnSet(g, S) = SumFunctionOnSet(g, group(k)) + SumFunctionOnSet(g, S \ group(k))
    <3> HIDE DEF group, cells, t
    <3> QED  BY <2>3, <2>4, SumParts
  <2>6. SumFunctionOnSet(g, group(k)) = SumFunctionOnSet(f, group(k))
    <3>1. \A x \in group(k) : g[x] = f[x]  BY <2>1
    <3> HIDE DEF group, cells, t
    <3> QED  BY <2>3, <3>1, SumSame
  <2>7. SumFunctionOnSet(g, S \ group(k)) = 0
    <3>1. \A x \in S \ group(k) : g[x] = 0  BY <2>1
    <3> HIDE DEF group, cells, t
    <3> QED  BY <2>3, <3>1, SumZero
  <2>8. SumFunctionOnSet(f, group(k)) \in Int
    <3>1. \A x \in group(k) : f[x] \in Int  OBVIOUS
    <3> HIDE DEF group, cells, t
    <3> QED  BY <2>3, <3>1, SumType
  <2> HIDE DEF group, cells, t
  <2> QED  BY <2>2, <2>5, <2>6, <2>7, <2>8
<1>2. ASSUME NEW x \in S PROVE SumFunctionOnSet([k \in K |-> t[k][x]], K) = f[x]
  <2>1. PICK g : g = [k \in K |-> t[k][x]]  OBVIOUS
  <2>2. \A k \in K : g[k] = IF key[x] = k THEN f[x] ELSE 0  BY <2>1
  <2>3. \A k \in K : g[k] \in Int  BY <2>2
  <2>4. PICK y \in K : y = key[x]  OBVIOUS
  <2>5. IsFiniteSet(K \ {y}) /\ \A k \in K \ {y} : g[k] = 0  BY <2>2, <2>4, FS_RemoveElement
  <2>6. SumFunctionOnSet(g, K \ {y}) = 0  BY <2>5, SumZero
  <2>7. SumFunctionOnSet(g, K) = g[y] + SumFunctionOnSet(g, K \ {y})  BY <2>3, SumRemove
  <2>8. g[y] = f[x] /\ f[x] \in Int  BY <2>2, <2>4
  <2> QED  BY <2>1, <2>6, <2>7, <2>8
<1>3. \A k \in K : \A x \in S : t[k][x] \in Int  OBVIOUS
<1>4. SumFunctionOnSet(columns, S) = SumFunctionOnSet(rows, K)
  <2> HIDE DEF t
  <2> QED  BY <1>3, SumSwapped
<1>5. SumFunctionOnSet(columns, S) = SumFunctionOnSet(f, S)
  <2>1. \A x \in S : columns[x] = f[x]  BY <1>2
  <2> HIDE DEF columns
  <2> QED  BY <2>1, SumSame
<1>6. rows = [k \in K |-> SumFunctionOnSet(f, group(k))]
  <2> HIDE DEF t, group
  <2> QED  BY <1>1
<1> HIDE DEF rows, columns, t, cells
<1> QED  BY <1>4, <1>5, <1>6

\* A finite set has a subset of every size up to its own.
LEMMA SubsetOfSize ==
  ASSUME NEW S, IsFiniteSet(S), NEW n \in Nat, n <= Cardinality(S)
  PROVE  \E T \in SUBSET S : Cardinality(T) = n
<1> DEFINE B == {U \in SUBSET S : n <= Cardinality(U)}
<1>1. PICK T \in B : \A U \in B : U \subseteq T => U = T
  <2>1. B \in SUBSET SUBSET S /\ B # {}  OBVIOUS
  <2> HIDE DEF B
  <2> QED  BY <2>1, SmallestSubset
<1>2. IsFiniteSet(T) /\ T \in SUBSET S /\ n <= Cardinality(T)  BY FS_Subset
<1>3. Cardinality(T) \in Nat  BY <1>2, FS_CardinalityType
<1>4. SUFFICES ASSUME Cardinality(T) # n PROVE FALSE  BY <1>2
<1>5. T # {}  BY <1>2, <1>3, <1>4, FS_EmptySet
<1>6. PICK x \in T : TRUE  BY <1>5
<1>7. Cardinality(T \ {x}) = Cardinality(T) - 1  BY <1>2, FS_RemoveElement
<1>8. T \ {x} \in B  BY <1>2, <1>3, <1>4, <1>7
<1> QED  BY <1>1, <1>6, <1>8

\* Of some numbers up to n one is the greatest.
LEMMA GreatestNumber ==
  ASSUME NEW B \in SUBSET Nat, B # {}, NEW n \in Nat, \A x \in B : x <= n
  PROVE  \E m \in B : \A k \in B : k <= m
<1> DEFINE C == {y \in Nat : n - y \in B}
<1>1. C \in SUBSET Nat /\ \A x \in B : n - x \in C
  <2>1. \A x \in B : n - x \in Nat /\ n - (n - x) = x  OBVIOUS
  <2> QED  BY <2>1
<1>2. PICK c \in C : \A d \in C : c <= d
  <2> HIDE DEF C
  <2> QED  BY <1>1, LeastNumber
<1>3. PICK m \in B : m = n - c  OBVIOUS
<1>4. ASSUME NEW k \in B PROVE k <= m  BY <1>1, <1>2, <1>3
<1> QED  BY <1>4

=============================================================================
