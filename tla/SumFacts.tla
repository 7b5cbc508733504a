------------------------------ MODULE SumFacts ------------------------------
(* What SumFunctionOnSet of the community modules computes, for any finite   *)
(* index set: the folds the models state their totals with, and recursion    *)
(* over the prefixes of a sequence.  The induction over subsets is           *)
(* first-order (a family of sets, not a predicate), so that each fact is an  *)
(* instance of it.                                                           *)
EXTENDS FiniteSetsExt, FiniteSetTheorems, TLAPS

Picked(s) == CHOOSE x \in s : TRUE

\* g holds the sum of f over every subset of S, taken in the order of the picks.
Sums(f, g, S) ==
  g = [s \in SUBSET S |-> IF s = {} THEN 0 ELSE f[Picked(s)] + g[s \ {Picked(s)}]]

-----------------------------------------------------------------------------
(* Induction over the subsets of a finite set. *)

\* A family that holds each subset whose smaller subsets it holds, holds all.
LEMMA SubsetInduction ==
  ASSUME NEW S, IsFiniteSet(S), NEW F,
         \A T \in SUBSET S : (\A U \in SUBSET T : U # T => U \in F) => T \in F
  PROVE  \A T \in SUBSET S : T \in F
<1> DEFINE R == StrictSubsetOrdering(S)
           D == SUBSET S
           Bad == {T \in D : T \notin F}
<1>1. IsWellFoundedOn(R, D)
  BY FS_StrictSubsetOrderingWellFounded, FS_FiniteSubsetsOfFinite
<1> SUFFICES ASSUME Bad # {} PROVE FALSE
  OBVIOUS
<1>2. Bad \subseteq D
  OBVIOUS
<1>3. \E T \in Bad : \A U \in Bad : <<U, T>> \notin R
  <2> HIDE DEF R, D, Bad
  <2> QED
    BY <1>1, <1>2, WFMin
<1>4. PICK T \in Bad : \A U \in Bad : <<U, T>> \notin R
  BY <1>3
<1>5. ASSUME NEW U \in SUBSET T, U # T
      PROVE  U \in F
  <2>1. <<U, T>> \in R
    BY <1>5 DEF StrictSubsetOrdering
  <2> QED
    BY <1>4, <2>1
<1> QED
  BY <1>4, <1>5

\* A non-empty set has its pick, and is larger without it.
LEMMA PickedFrom ==
  ASSUME NEW s, s # {}
  PROVE  /\ Picked(s) \in s
         /\ s \ {Picked(s)} \in SUBSET s /\ s \ {Picked(s)} # s
<1>1. Picked(s) \in s
  BY DEF Picked
<1> QED
  BY <1>1

-----------------------------------------------------------------------------
(* The table of partial sums. *)

\* An entry of the table.
LEMMA Entry ==
  ASSUME NEW f, NEW g, NEW S, Sums(f, g, S), NEW s \in SUBSET S
  PROVE  g[s] = IF s = {} THEN 0 ELSE f[Picked(s)] + g[s \ {Picked(s)}]
<1>1. \A t \in SUBSET S : g[t] = IF t = {} THEN 0 ELSE f[Picked(t)] + g[t \ {Picked(t)}]
  <2> DEFINE body == [t \in SUBSET S |-> IF t = {} THEN 0 ELSE f[Picked(t)] + g[t \ {Picked(t)}]]
  <2>1. g = body
    BY DEF Sums
  <2>2. \A t \in SUBSET S : body[t] = IF t = {} THEN 0 ELSE f[Picked(t)] + g[t \ {Picked(t)}]
    OBVIOUS
  <2> HIDE DEF body
  <2> QED
    BY <2>1, <2>2
<1> QED
  BY <1>1

\* Two tables agree where they sum the same values.
LEMMA TablesAgree ==
  ASSUME NEW f, NEW g, NEW S, Sums(f, g, S), NEW e, NEW h, NEW T, Sums(e, h, T),
         NEW W, W \subseteq S, W \subseteq T, IsFiniteSet(W), \A i \in W : f[i] = e[i]
  PROVE  \A s \in SUBSET W : g[s] = h[s]
<1> DEFINE F == {s \in SUBSET W : g[s] = h[s]}
<1>1. ASSUME NEW s \in SUBSET W, \A u \in SUBSET s : u # s => u \in F
      PROVE  s \in F
  <2>1. s \in SUBSET S /\ s \in SUBSET T
    OBVIOUS
  <2>2. g[s] = IF s = {} THEN 0 ELSE f[Picked(s)] + g[s \ {Picked(s)}]
    BY <2>1, Entry
  <2>3. h[s] = IF s = {} THEN 0 ELSE e[Picked(s)] + h[s \ {Picked(s)}]
    BY <2>1, Entry
  <2>4. CASE s = {}
    BY <2>2, <2>3, <2>4
  <2>5. CASE s # {}
    <3>1. f[Picked(s)] = e[Picked(s)] /\ g[s \ {Picked(s)}] = h[s \ {Picked(s)}]
      BY <1>1, <2>5, PickedFrom
    <3> QED
      BY <2>2, <2>3, <2>5, <3>1
  <2> QED
    BY <2>4, <2>5
<1> HIDE DEF F
<1>2. \A s \in SUBSET W : s \in F
  BY <1>1, SubsetInduction
<1> QED
  BY <1>2 DEF F

\* Every finite set has its table.
LEMMA TableExists ==
  ASSUME NEW f, NEW S, IsFiniteSet(S)
  PROVE  \E g : Sums(f, g, S)
<1> DEFINE F == {T \in SUBSET S : \E g : Sums(f, g, T)}
<1>1. ASSUME NEW T \in SUBSET S, \A U \in SUBSET T : U # T => U \in F
      PROVE  T \in F
  <2> DEFINE own(s) == CHOOSE g : Sums(f, g, s)
             last == f[Picked(T)] + own(T \ {Picked(T)})[T \ {Picked(T)}]
             h == [s \in SUBSET T |-> IF s = T THEN (IF T = {} THEN 0 ELSE last) ELSE own(s)[s]]
  <2>1. \A s \in SUBSET T : s # T => Sums(f, own(s), s)
    BY <1>1, Zenon
  <2> HIDE DEF own
  <2>2. ASSUME NEW s \in SUBSET T
        PROVE  h[s] = IF s = {} THEN 0 ELSE f[Picked(s)] + h[s \ {Picked(s)}]
    <3>1. CASE s = {}
      <4>1. s # T => own(s)[s] = 0
        BY <2>1, <3>1, Entry
      <4> QED
        BY <3>1, <4>1
    <3>2. CASE s # {}
      <4> DEFINE r == s \ {Picked(s)}
      <4>1. r \in SUBSET s /\ r # s /\ r \in SUBSET T /\ r # T
        BY <3>2, PickedFrom
      <4>2. h[r] = own(r)[r]
        BY <4>1
      <4>3. CASE s = T
        BY <3>2, <4>2, <4>3
      <4>4. CASE s # T
        <5>1. own(s)[s] = f[Picked(s)] + own(s)[r]
          BY <2>1, <3>2, <4>4, Entry
        <5>2. IsFiniteSet(r)
          BY <4>1, FS_Subset
        <5>3. Sums(f, own(s), s) /\ Sums(f, own(r), r)
          BY <2>1, <4>1, <4>4
        <5>4. own(s)[r] = own(r)[r]
          <6> HIDE DEF r
          <6> QED
            BY <4>1, <5>2, <5>3, TablesAgree
        <5>5. h[s] = own(s)[s]
          BY <4>4
        <5> HIDE DEF h
        <5> QED
          BY <3>2, <4>2, <5>1, <5>4, <5>5
      <4> QED
        BY <4>3, <4>4
    <3> QED
      BY <3>1, <3>2
  <2>3. Sums(f, h, T)
    <3>1. h = [s \in SUBSET T |-> h[s]]
      OBVIOUS
    <3> HIDE DEF h
    <3>2. [s \in SUBSET T |-> h[s]]
            = [s \in SUBSET T |-> IF s = {} THEN 0 ELSE f[Picked(s)] + h[s \ {Picked(s)}]]
      BY <2>2
    <3> QED
      BY <3>1, <3>2 DEF Sums
  <2> QED
    BY <2>3
<1> HIDE DEF F
<1>2. \A T \in SUBSET S : T \in F
  BY <1>1, SubsetInduction
<1> QED
  BY <1>2 DEF F

\* The sum over a set is the entry of its table.
LEMMA SumIsEntry ==
  ASSUME NEW f, NEW S, IsFiniteSet(S)
  PROVE  \E g : Sums(f, g, S) /\ SumFunctionOnSet(f, S) = g[S]
<1> DEFINE g == CHOOSE g : Sums(f, g, S)
<1>1. Sums(f, g, S)
  BY TableExists, Zenon
<1>2. SumFunctionOnSet(f, S) = g[S]
  BY DEF SumFunctionOnSet, FoldFunctionOnSet, MapThenFoldSet, Sums, Picked
<1> QED
  BY <1>1, <1>2

-----------------------------------------------------------------------------
(* Sums. *)

\* Nothing sums to zero.
LEMMA SumEmpty == \A f : SumFunctionOnSet(f, {}) = 0
<1> SUFFICES ASSUME NEW f PROVE SumFunctionOnSet(f, {}) = 0
  OBVIOUS
<1>1. PICK g : Sums(f, g, {}) /\ SumFunctionOnSet(f, {}) = g[{}]
  BY SumIsEntry, FS_EmptySet
<1> QED
  BY <1>1, Entry

\* The sum takes one element after the other.
LEMMA SumPicked ==
  ASSUME NEW f, NEW S, IsFiniteSet(S), S # {}
  PROVE  SumFunctionOnSet(f, S) = f[Picked(S)] + SumFunctionOnSet(f, S \ {Picked(S)})
<1> DEFINE R == S \ {Picked(S)}
<1>1. PICK g : Sums(f, g, S) /\ SumFunctionOnSet(f, S) = g[S]
  BY SumIsEntry
<1>2. R \in SUBSET S /\ IsFiniteSet(R)
  BY FS_Subset
<1>3. PICK h : Sums(f, h, R) /\ SumFunctionOnSet(f, R) = h[R]
  BY <1>2, SumIsEntry
<1>4. g[S] = f[Picked(S)] + g[R]
  BY <1>1, Entry
<1>5. g[R] = h[R]
  <2> HIDE DEF R
  <2> QED
    BY <1>1, <1>2, <1>3, TablesAgree
<1> QED
  BY <1>1, <1>3, <1>4, <1>5

\* Functions that agree on a set have the same sum over it.
LEMMA SumSame ==
  ASSUME NEW f, NEW e, NEW S, IsFiniteSet(S), \A i \in S : f[i] = e[i]
  PROVE  SumFunctionOnSet(f, S) = SumFunctionOnSet(e, S)
<1>1. PICK g : Sums(f, g, S) /\ SumFunctionOnSet(f, S) = g[S]
  BY SumIsEntry
<1>2. PICK h : Sums(e, h, S) /\ SumFunctionOnSet(e, S) = h[S]
  BY SumIsEntry
<1> QED
  BY <1>1, <1>2, TablesAgree

\* A sum of integers is one.
LEMMA SumInt ==
  ASSUME NEW f, NEW S, IsFiniteSet(S), \A i \in S : f[i] \in Int
  PROVE  \A T \in SUBSET S : SumFunctionOnSet(f, T) \in Int
<1> DEFINE F == {T \in SUBSET S : SumFunctionOnSet(f, T) \in Int}
<1>1. ASSUME NEW T \in SUBSET S, \A U \in SUBSET T : U # T => U \in F
      PROVE  T \in F
  <2>1. CASE T = {}
    BY <2>1, SumEmpty
  <2>2. CASE T # {}
    <3> DEFINE R == T \ {Picked(T)}
    <3>1. Picked(T) \in T /\ SumFunctionOnSet(f, R) \in Int
      BY <1>1, <2>2, PickedFrom
    <3>2. SumFunctionOnSet(f, T) = f[Picked(T)] + SumFunctionOnSet(f, R)
      BY <2>2, FS_Subset, SumPicked
    <3>3. f[Picked(T)] \in Int
      BY <3>1
    <3> HIDE DEF R
    <3> QED
      BY <3>1, <3>2, <3>3
  <2> QED
    BY <2>1, <2>2
<1> HIDE DEF F
<1>2. \A T \in SUBSET S : T \in F
  BY <1>1, SubsetInduction
<1> QED
  BY <1>2 DEF F

\* A sum of naturals is one.
LEMMA SumNat ==
  ASSUME NEW f, NEW S, IsFiniteSet(S), \A i \in S : f[i] \in Nat
  PROVE  \A T \in SUBSET S : SumFunctionOnSet(f, T) \in Nat
<1> DEFINE F == {T \in SUBSET S : SumFunctionOnSet(f, T) \in Nat}
<1>1. ASSUME NEW T \in SUBSET S, \A U \in SUBSET T : U # T => U \in F
      PROVE  T \in F
  <2>1. CASE T = {}
    BY <2>1, SumEmpty
  <2>2. CASE T # {}
    <3> DEFINE R == T \ {Picked(T)}
    <3>1. Picked(T) \in T /\ SumFunctionOnSet(f, R) \in Nat
      BY <1>1, <2>2, PickedFrom
    <3>2. SumFunctionOnSet(f, T) = f[Picked(T)] + SumFunctionOnSet(f, R)
      BY <2>2, FS_Subset, SumPicked
    <3>3. f[Picked(T)] \in Nat
      BY <3>1
    <3> HIDE DEF R
    <3> QED
      BY <3>1, <3>2, <3>3
  <2> QED
    BY <2>1, <2>2
<1> HIDE DEF F
<1>2. \A T \in SUBSET S : T \in F
  BY <1>1, SubsetInduction
<1> QED
  BY <1>2 DEF F

\* Any element can be taken first.
LEMMA SumWithout ==
  ASSUME NEW f, NEW S, IsFiniteSet(S), \A i \in S : f[i] \in Int
  PROVE  \A T \in SUBSET S : \A x \in T :
           SumFunctionOnSet(f, T) = f[x] + SumFunctionOnSet(f, T \ {x})
<1> DEFINE sum(T) == SumFunctionOnSet(f, T)
           F == {T \in SUBSET S : \A x \in T : sum(T) = f[x] + sum(T \ {x})}
<1>0. \A T \in SUBSET S : sum(T) \in Int
  BY SumInt
<1>p. \A T \in SUBSET S : T # {} => sum(T) = f[Picked(T)] + sum(T \ {Picked(T)})
  BY FS_Subset, SumPicked
<1> HIDE DEF sum
<1>1. ASSUME NEW T \in SUBSET S, \A U \in SUBSET T : U # T => U \in F
      PROVE  T \in F
  <2> SUFFICES ASSUME NEW x \in T PROVE sum(T) = f[x] + sum(T \ {x})
    OBVIOUS
  <2> DEFINE p == Picked(T)
             rest == (T \ {p}) \ {x}
  <2>1. p \in T /\ T \ {p} \in SUBSET T /\ T \ {p} # T
    BY PickedFrom
  <2>2. sum(T) = f[p] + sum(T \ {p})
    BY <1>p
  <2> HIDE DEF p
  <2>3. CASE x = p
    BY <2>2, <2>3
  <2>4. CASE x # p
    <3>1. sum(T \ {p}) = f[x] + sum(rest)
      BY <1>1, <2>1, <2>4
    <3>2. sum(T \ {x}) = f[p] + sum(rest)
      <4>1. T \ {x} \in SUBSET T /\ T \ {x} # T /\ p \in T \ {x} /\ (T \ {x}) \ {p} = rest
        BY <2>1, <2>4
      <4> QED
        BY <1>1, <4>1
    <3>3. f[x] \in Int /\ f[p] \in Int /\ sum(rest) \in Int
      BY <1>0, <2>1
    <3> HIDE DEF rest
    <3> QED
      BY <2>2, <3>1, <3>2, <3>3
  <2> QED
    BY <2>3, <2>4
<1> HIDE DEF F
<1>2. \A T \in SUBSET S : T \in F
  BY <1>1, SubsetInduction
<1> QED
  BY <1>2 DEF F, sum

\* One more element.
LEMMA SumWith ==
  ASSUME NEW f, NEW S, IsFiniteSet(S), NEW x, x \notin S, f[x] \in Int, \A i \in S : f[i] \in Int
  PROVE  SumFunctionOnSet(f, S \union {x}) = f[x] + SumFunctionOnSet(f, S)
<1> DEFINE T == S \union {x}
<1>1. IsFiniteSet(T) /\ x \in T /\ T \ {x} = S /\ \A i \in T : f[i] \in Int
  BY FS_AddElement
<1> HIDE DEF T
<1>2. SumFunctionOnSet(f, T) = f[x] + SumFunctionOnSet(f, T \ {x})
  BY <1>1, SumWithout
<1> QED
  BY <1>1, <1>2 DEF T

\* Leaving elements out of a sum of naturals does not raise it.
LEMMA SumPart ==
  ASSUME NEW f, NEW S, IsFiniteSet(S), \A i \in S : f[i] \in Nat, NEW P \in SUBSET S
  PROVE  SumFunctionOnSet(f, P) <= SumFunctionOnSet(f, S)
<1> DEFINE sum(T) == SumFunctionOnSet(f, T)
           F == {T \in SUBSET S : sum(P \cap T) <= sum(T)}
<1>0. \A T \in SUBSET S : sum(T) \in Nat
  BY SumNat
<1>1. \A T \in SUBSET S : \A x \in T : sum(T) = f[x] + sum(T \ {x})
  <2>1. \A i \in S : f[i] \in Int
    OBVIOUS
  <2> QED
    BY <2>1, SumWithout, ZenonT(60)
<1>2. sum({}) = 0
  BY SumEmpty
<1> HIDE DEF sum
<1>3. ASSUME NEW T \in SUBSET S, \A U \in SUBSET T : U # T => U \in F
      PROVE  T \in F
  <2>1. CASE T = {}
    <3>1. P \cap T = {}
      BY <2>1
    <3> QED
      BY <1>2, <2>1, <3>1
  <2>2. CASE T # {}
    <3> PICK x \in T : TRUE
      BY <2>2
    <3> DEFINE r == T \ {x}
    <3>1. r \in SUBSET S /\ P \cap r \in SUBSET S /\ P \cap T \in SUBSET S /\ sum(P \cap r) <= sum(r)
      BY <1>3
    <3>2. sum(T) = f[x] + sum(r)
      BY <1>1
    <3>3. f[x] \in Nat /\ sum(r) \in Nat /\ sum(P \cap r) \in Nat
      BY <1>0, <3>1
    <3>4. sum(P \cap T) = sum(P \cap r) \/ sum(P \cap T) = f[x] + sum(P \cap r)
      <4>1. CASE x \in P
        <5>1. (P \cap T) \ {x} = P \cap r
          OBVIOUS
        <5> QED
          BY <1>1, <3>1, <4>1, <5>1
      <4>2. CASE x \notin P
        <5>1. P \cap T = P \cap r
          BY <4>2
        <5> QED
          BY <5>1
      <4> QED
        BY <4>1, <4>2
    <3> HIDE DEF r
    <3> QED
      BY <3>1, <3>2, <3>3, <3>4
  <2> QED
    BY <2>1, <2>2
<1> HIDE DEF F
<1>4. S \in F
  BY <1>3, SubsetInduction
<1>5. P \cap S = P
  OBVIOUS
<1> QED
  BY <1>4, <1>5 DEF F, sum

\* The two parts of a set make up its sum.
LEMMA SumSplit ==
  ASSUME NEW f, NEW S, IsFiniteSet(S), \A i \in S : f[i] \in Int, NEW P \in SUBSET S
  PROVE  SumFunctionOnSet(f, S) = SumFunctionOnSet(f, P) + SumFunctionOnSet(f, S \ P)
<1> DEFINE sum(T) == SumFunctionOnSet(f, T)
           F == {T \in SUBSET S : sum(T) = sum(P \cap T) + sum(T \ P)}
<1>0. \A T \in SUBSET S : sum(T) \in Int
  BY SumInt
<1>1. \A T \in SUBSET S : \A x \in T : sum(T) = f[x] + sum(T \ {x})
  BY SumWithout, ZenonT(60)
<1>2. sum({}) = 0
  BY SumEmpty
<1> HIDE DEF sum
<1>3. ASSUME NEW T \in SUBSET S, \A U \in SUBSET T : U # T => U \in F
      PROVE  T \in F
  <2>1. CASE T = {}
    <3>1. P \cap T = {} /\ T \ P = {}
      BY <2>1
    <3> QED
      BY <1>2, <2>1, <3>1
  <2>2. CASE T # {}
    <3> PICK x \in T : TRUE
      BY <2>2
    <3> DEFINE r == T \ {x}
    <3>1. /\ r \in SUBSET S /\ P \cap r \in SUBSET S /\ P \cap T \in SUBSET S
          /\ T \ P \in SUBSET S /\ r \ P \in SUBSET S /\ sum(r) = sum(P \cap r) + sum(r \ P)
      BY <1>3
    <3>2. sum(T) = f[x] + sum(r)
      BY <1>1
    <3>3. f[x] \in Int /\ sum(r) \in Int /\ sum(P \cap r) \in Int /\ sum(r \ P) \in Int
      BY <1>0, <3>1
    <3>4. \/ sum(P \cap T) = sum(P \cap r) /\ sum(T \ P) = f[x] + sum(r \ P)
          \/ sum(P \cap T) = f[x] + sum(P \cap r) /\ sum(T \ P) = sum(r \ P)
      <4>1. CASE x \in P
        <5>1. (P \cap T) \ {x} = P \cap r /\ T \ P = r \ P /\ x \in P \cap T
          BY <4>1
        <5>2. sum(P \cap T) = f[x] + sum((P \cap T) \ {x})
          BY <1>1, <3>1, <5>1
        <5> QED
          BY <5>1, <5>2
      <4>2. CASE x \notin P
        <5>1. P \cap T = P \cap r /\ (T \ P) \ {x} = r \ P /\ x \in T \ P
          BY <4>2
        <5> QED
          BY <1>1, <3>1, <5>1
      <4> QED
        BY <4>1, <4>2
    <3> HIDE DEF r
    <3> QED
      BY <3>1, <3>2, <3>3, <3>4
  <2> QED
    BY <2>1, <2>2
<1> HIDE DEF F
<1>4. S \in F
  BY <1>3, SubsetInduction
<1>5. P \cap S = P
  OBVIOUS
<1> QED
  BY <1>4, <1>5 DEF F, sum

\* Scaling every value by a ratio scales the sum by it.
LEMMA SumScaled ==
  ASSUME NEW f, NEW e, NEW S, IsFiniteSet(S), NEW num \in Int, NEW den \in Int,
         \A i \in S : f[i] \in Int /\ e[i] \in Int /\ e[i] * den = f[i] * num
  PROVE  SumFunctionOnSet(e, S) * den = SumFunctionOnSet(f, S) * num
<1> DEFINE sum(T) == SumFunctionOnSet(f, T)
           scaled(T) == SumFunctionOnSet(e, T)
           F == {T \in SUBSET S : scaled(T) * den = sum(T) * num}
<1>0. \A T \in SUBSET S : sum(T) \in Int /\ scaled(T) \in Int
  BY SumInt
<1>1. \A T \in SUBSET S : T # {} => /\ sum(T) = f[Picked(T)] + sum(T \ {Picked(T)})
                                    /\ scaled(T) = e[Picked(T)] + scaled(T \ {Picked(T)})
  BY FS_Subset, SumPicked
<1>2. sum({}) = 0 /\ scaled({}) = 0
  BY SumEmpty
<1> HIDE DEF sum, scaled
<1>3. ASSUME NEW T \in SUBSET S, \A U \in SUBSET T : U # T => U \in F
      PROVE  T \in F
  <2>1. CASE T = {}
    BY <1>2, <2>1
  <2>2. CASE T # {}
    <3> DEFINE p == Picked(T)
               r == T \ {p}
    <3>1. p \in T /\ r \in SUBSET S /\ scaled(r) * den = sum(r) * num
      BY <1>3, <2>2, PickedFrom
    <3>2. sum(T) = f[p] + sum(r) /\ scaled(T) = e[p] + scaled(r)
      BY <1>1, <2>2
    <3>3. f[p] \in Int /\ e[p] \in Int /\ e[p] * den = f[p] * num /\ sum(r) \in Int /\ scaled(r) \in Int
      BY <1>0, <3>1
    <3> HIDE DEF p, r
    <3>4. \A a, b, c \in Int : (a + b) * c = a * c + b * c
      OBVIOUS
    <3> QED
      BY <3>1, <3>2, <3>3, <3>4, SMTT(60)
  <2> QED
    BY <2>1, <2>2
<1> HIDE DEF F
<1>4. \A T \in SUBSET S : T \in F
  BY <1>3, SubsetInduction
<1> QED
  BY <1>4 DEF F, sum, scaled

\* Taking something off every value takes its sum off the sum.
LEMMA SumLess ==
  ASSUME NEW f, NEW e, NEW d, NEW S, IsFiniteSet(S),
         \A i \in S : f[i] \in Int /\ d[i] \in Int /\ e[i] = f[i] - d[i]
  PROVE  SumFunctionOnSet(e, S) = SumFunctionOnSet(f, S) - SumFunctionOnSet(d, S)
<1> DEFINE sum(T) == SumFunctionOnSet(f, T)
           less(T) == SumFunctionOnSet(e, T)
           off(T) == SumFunctionOnSet(d, T)
           F == {T \in SUBSET S : less(T) = sum(T) - off(T)}
<1>0. \A T \in SUBSET S : sum(T) \in Int /\ off(T) \in Int
  BY SumInt
<1>1. \A T \in SUBSET S : T # {} => /\ sum(T) = f[Picked(T)] + sum(T \ {Picked(T)})
                                    /\ less(T) = e[Picked(T)] + less(T \ {Picked(T)})
                                    /\ off(T) = d[Picked(T)] + off(T \ {Picked(T)})
  BY FS_Subset, SumPicked
<1>2. sum({}) = 0 /\ less({}) = 0 /\ off({}) = 0
  BY SumEmpty
<1> HIDE DEF sum, less, off
<1>3. ASSUME NEW T \in SUBSET S, \A U \in SUBSET T : U # T => U \in F
      PROVE  T \in F
  <2>1. CASE T = {}
    BY <1>2, <2>1
  <2>2. CASE T # {}
    <3> DEFINE p == Picked(T)
               r == T \ {p}
    <3>1. p \in T /\ r \in SUBSET S /\ less(r) = sum(r) - off(r)
      BY <1>3, <2>2, PickedFrom
    <3>2. sum(T) = f[p] + sum(r) /\ less(T) = e[p] + less(r) /\ off(T) = d[p] + off(r)
      BY <1>1, <2>2
    <3>3. f[p] \in Int /\ d[p] \in Int /\ e[p] = f[p] - d[p] /\ sum(r) \in Int /\ off(r) \in Int
      BY <1>0, <3>1
    <3> HIDE DEF p, r
    <3> QED
      BY <3>1, <3>2, <3>3
  <2> QED
    BY <2>1, <2>2
<1> HIDE DEF F
<1>4. \A T \in SUBSET S : T \in F
  BY <1>3, SubsetInduction
<1> QED
  BY <1>4 DEF F, sum, less, off

-----------------------------------------------------------------------------
(* Minima, maxima and prefixes. *)

\* The smaller and the larger of two integers.
LEMMA OfTwo ==
  ASSUME NEW a \in Int, NEW b \in Int
  PROVE  /\ Min({a, b}) = (IF a <= b THEN a ELSE b)
         /\ Max({a, b}) = (IF a >= b THEN a ELSE b)
<1>1. Min({a, b}) \in {a, b} /\ \A y \in {a, b} : Min({a, b}) <= y
  <2>1. \E x \in {a, b} : \A y \in {a, b} : x <= y
    OBVIOUS
  <2> QED
    BY <2>1, Zenon DEF Min
<1>2. Max({a, b}) \in {a, b} /\ \A y \in {a, b} : Max({a, b}) >= y
  <2>1. \E x \in {a, b} : \A y \in {a, b} : x >= y
    OBVIOUS
  <2> QED
    BY <2>1, Zenon DEF Max
<1> QED
  BY <1>1, <1>2

\* Induction over the prefixes of a sequence.
LEMMA PrefixInduction ==
  ASSUME NEW n \in Nat, NEW F, 0 \in F, \A k \in 0 .. n-1 : k \in F => k+1 \in F
  PROVE  \A k \in 0 .. n : k \in F
<1> DEFINE G == {T \in SUBSET (1..n) : \A k \in 0..n : T = 1..k => k \in F}
<1>1. ASSUME NEW T \in SUBSET (1..n), \A U \in SUBSET T : U # T => U \in G
      PROVE  T \in G
  <2> SUFFICES ASSUME NEW k \in 0..n, T = 1..k PROVE k \in F
    OBVIOUS
  <2>1. CASE k = 0
    BY <2>1
  <2>2. CASE k # 0
    <3>1. 1..(k-1) \in SUBSET T /\ 1..(k-1) # T /\ k-1 \in 0..n-1
      <4>1. k \in T /\ k \notin 1..(k-1)
        BY <2>2
      <4>2. 1..(k-1) \subseteq 1..k
        BY <2>2
      <4> QED
        BY <2>2, <4>1, <4>2
    <3>2. k-1 \in F
      <4> DEFINE U == 1..(k-1)
      <4>1. U \in G
        <5>1. U \in SUBSET T /\ U # T
          BY <3>1
        <5> HIDE DEF G, U
        <5> QED
          BY <1>1, <5>1
      <4>2. k-1 \in 0..n
        BY <2>2
      <4> QED
        BY <4>1, <4>2
    <3> QED
      BY <3>1, <3>2
  <2> QED
    BY <2>1, <2>2
<1>2. IsFiniteSet(1..n)
  BY FS_Interval
<1> SUFFICES ASSUME NEW k \in 0..n PROVE k \in F
  OBVIOUS
<1>3. 1..k \in SUBSET (1..n)
  OBVIOUS
<1>4. 1..k \in G
  <2> DEFINE S == 1..n
  <2>1. \A T \in SUBSET S : (\A U \in SUBSET T : U # T => U \in G) => T \in G
    BY <1>1
  <2>2. IsFiniteSet(S) /\ 1..k \in SUBSET S
    BY <1>2, <1>3
  <2> HIDE DEF G, S
  <2> QED
    BY <2>1, <2>2, SubsetInduction
<1> QED
  BY <1>4

\* base and then n steps G[1], ..., G[n] within S.
Stepwise(n, S, base, G) ==
  n \in Nat /\ base \in S /\ \A i \in 1..n : \A x \in S : G[i][x] \in S

\* A recursion over the places of a sequence has its table: an entry for each prefix,
\* made from the one before.
LEMMA PrefixRecursion ==
  ASSUME NEW n, NEW S, NEW base, NEW G, Stepwise(n, S, base, G)
  PROVE  \E f \in [0..n -> S] : f[0] = base /\ \A i \in 1..n : f[i] = G[i][f[i-1]]
<1> USE DEF Stepwise
<1> DEFINE Table(k, f) == f[0] = base /\ \A i \in 1..k : f[i] = G[i][f[i-1]]
           F == {k \in 0..n : \E f \in [0..k -> S] : Table(k, f)}
<1>1. 0 \in F
  <2> DEFINE f == [i \in 0..0 |-> base]
  <2>1. f \in [0..0 -> S] /\ Table(0, f) /\ 0 \in 0..n
    OBVIOUS
  <2> HIDE DEF f, Table
  <2> QED
    BY <2>1
<1>2. ASSUME NEW k \in 0 .. n-1, k \in F
      PROVE  k+1 \in F
  <2>1. PICK f \in [0..k -> S] : Table(k, f)
    BY <1>2
  <2> DEFINE g == [i \in 0..(k+1) |-> IF i = k+1 THEN G[k+1][f[k]] ELSE f[i]]
  <2>2. k \in 0..k /\ k+1 \in 1..n /\ k+1 \in 0..n /\ f[k] \in S /\ G[k+1][f[k]] \in S
    <3>1. k \in 0..k /\ k+1 \in 1..n /\ k+1 \in 0..n
      OBVIOUS
    <3>2. f[k] \in S
      BY <3>1
    <3> QED
      BY <3>1, <3>2
  <2>3. g \in [0..(k+1) -> S]
    BY <2>2
  <2>4. \A i \in 0..k : g[i] = f[i]
    BY <2>2
  <2>5. ASSUME NEW i \in 1..(k+1)
        PROVE  g[i] = G[i][g[i-1]]
    <3>1. CASE i = k+1
      <4>1. g[k+1] = G[k+1][f[k]] /\ g[k] = f[k] /\ (k+1)-1 = k
        BY <2>4
      <4> QED
        BY <3>1, <4>1
    <3>2. CASE i # k+1
      <4>1. i \in 1..k /\ i-1 \in 0..k /\ i \in 0..k
        BY <3>2
      <4> QED
        BY <2>1, <2>4, <4>1
    <3> QED
      BY <3>1, <3>2
  <2>6. g[0] = base
    BY <2>1, <2>4
  <2> HIDE DEF g
  <2> QED
    BY <2>2, <2>3, <2>5, <2>6
<1> HIDE DEF F
<1>3. \A k \in 0..n : k \in F
  BY <1>1, <1>2, PrefixInduction
<1>4. n \in F
  BY <1>3
<1> QED
  BY <1>4 DEF F

\* One more at the end of a sequence of numbers.
LEMMA SumAppended ==
  ASSUME NEW s, NEW t, NEW n \in Nat, NEW q \in Int,
         \A k \in 1..n : s[k] \in Int /\ t[k] = s[k], t[n+1] = q
  PROVE  SumFunctionOnSet(t, 1..(n+1)) = SumFunctionOnSet(s, 1..n) + q
<1>1. IsFiniteSet(1..n) /\ n+1 \notin 1..n /\ 1..(n+1) = (1..n) \union {n+1}
  <2>1. IsFiniteSet(1..n)
    BY FS_Interval
  <2> QED
    BY <2>1
<1>2. \A k \in 1..n : t[k] \in Int
  OBVIOUS
<1> DEFINE T == 1..n
           x == n+1
<1>3. IsFiniteSet(T) /\ x \notin T /\ t[x] \in Int /\ \A k \in T : t[k] \in Int
  BY <1>1, <1>2
<1>4. \A k \in T : t[k] = s[k]
  OBVIOUS
<1>5. t[x] = q /\ SumFunctionOnSet(s, T) \in Int
  <2>1. \A k \in T : s[k] \in Int
    OBVIOUS
  <2> QED
    BY <1>1, <2>1, SumInt
<1> HIDE DEF T, x
<1>6. SumFunctionOnSet(t, T \union {x}) = t[x] + SumFunctionOnSet(t, T)
  BY <1>3, SumWith
<1>7. SumFunctionOnSet(t, T) = SumFunctionOnSet(s, T)
  BY <1>3, <1>4, SumSame
<1>8. SumFunctionOnSet(t, T \union {x}) = SumFunctionOnSet(s, T) + q
  BY <1>5, <1>6, <1>7
<1> QED
  BY <1>1, <1>8 DEF T, x

\* t has the m numbers of s, b places further.
Moved(s, t, b, m) ==
  b \in Nat /\ m \in Nat /\ \A k \in 1..m : s[k] \in Int /\ t[b+k] = s[k]

\* Moving a sequence of numbers along leaves its sum.
LEMMA SumShifted ==
  ASSUME NEW s, NEW t, NEW b, NEW m, Moved(s, t, b, m)
  PROVE  SumFunctionOnSet(t, (b+1)..(b+m)) = SumFunctionOnSet(s, 1..m)
<1> USE DEF Moved
<1> DEFINE F == {k \in 0..m : SumFunctionOnSet(t, (b+1)..(b+k)) = SumFunctionOnSet(s, 1..k)}
<1>1. 0 \in F
  <2>1. (b+1)..(b+0) = {} /\ 1..0 = {}
    OBVIOUS
  <2> QED
    BY <2>1, SumEmpty
<1>2. ASSUME NEW k \in 0 .. m-1, k \in F
      PROVE  k+1 \in F
  <2> DEFINE T == (b+1)..(b+k)
             U == 1..k
             x == b+(k+1)
             y == k+1
  <2>1. /\ (b+1)..(b+(k+1)) = T \union {x} /\ 1..(k+1) = U \union {y}
        /\ x \notin T /\ y \notin U
    OBVIOUS
  <2>2. IsFiniteSet(T) /\ IsFiniteSet(U)
    BY FS_Interval
  <2>3. t[x] \in Int /\ s[y] \in Int /\ t[x] = s[y]
    OBVIOUS
  <2>4. ASSUME NEW i \in T
        PROVE  t[i] \in Int
    <3>1. i - b \in 1..m /\ b + (i - b) = i
      OBVIOUS
    <3> QED
      BY <3>1
  <2>5. \A i \in U : s[i] \in Int
    OBVIOUS
  <2>6. SumFunctionOnSet(t, T) = SumFunctionOnSet(s, U)
    BY <1>2
  <2> HIDE DEF T, U, x, y
  <2>7. /\ SumFunctionOnSet(t, T \union {x}) = t[x] + SumFunctionOnSet(t, T)
        /\ SumFunctionOnSet(s, U \union {y}) = s[y] + SumFunctionOnSet(s, U)
    BY <2>1, <2>2, <2>3, <2>4, <2>5, SumWith
  <2>8. SumFunctionOnSet(t, (b+1)..(b+(k+1))) = SumFunctionOnSet(s, 1..(k+1))
    BY <2>1, <2>3, <2>6, <2>7
  <2>9. k+1 \in 0..m
    OBVIOUS
  <2> QED
    BY <2>8, <2>9
<1> HIDE DEF F
<1>3. \A k \in 0..m : k \in F
  BY <1>1, <1>2, PrefixInduction
<1>4. m \in F
  BY <1>3
<1> QED
  BY <1>4 DEF F

-----------------------------------------------------------------------------
(* Drawing a quantity from one value after the other. *)

\* d is what the elements of A give, one after the other, of the values of f until
\* q is reached; b[i] are the elements asked before i.
Draws(n, f, A, q, b, d) ==
  /\ n \in Nat /\ q \in Nat /\ A \in SUBSET (1..n) /\ q <= SumFunctionOnSet(f, A)
  /\ \A i \in 1..n : f[i] \in Nat
  /\ \A i \in 1..n : b[i] = {j \in 1..(i-1) : j \in A}
  /\ \A i \in 1..n : d[i] = IF i \in A
                           THEN Min({f[i], Max({0, q - SumFunctionOnSet(f, b[i])})}) ELSE 0

\* What is drawn, oldest first, from the values of f with an index in A: each gives
\* what it has until q is reached, so that together they give q if they hold it.
LEMMA Drawing ==
  ASSUME NEW n, NEW f, NEW A, NEW q, NEW b, NEW d, Draws(n, f, A, q, b, d)
  PROVE  /\ \A i \in 1..n : d[i] \in Nat /\ d[i] <= f[i] /\ (i \notin A => d[i] = 0)
         /\ SumFunctionOnSet(d, A) = q
<1>0. /\ n \in Nat /\ q \in Nat /\ A \in SUBSET (1..n) /\ q <= SumFunctionOnSet(f, A)
      /\ \A i \in 1..n : f[i] \in Nat
      /\ \A i \in 1..n : b[i] = {j \in 1..(i-1) : j \in A}
      /\ \A i \in 1..n : d[i] = IF i \in A
                               THEN Min({f[i], Max({0, q - SumFunctionOnSet(f, b[i])})}) ELSE 0
  BY DEF Draws
<1> USE <1>0
<1> DEFINE upto(k) == {j \in 1..k : j \in A}
           have(k) == SumFunctionOnSet(f, upto(k))
           gave(k) == SumFunctionOnSet(d, upto(k))
<1>1. IsFiniteSet(A) /\ \A k \in 0..n : upto(k) \in SUBSET A
  <2>1. IsFiniteSet(1..n)
    BY FS_Interval
  <2>2. IsFiniteSet(A)
    BY <2>1, FS_Subset
  <2> QED
    BY <2>2
<1>2. \A k \in 0..n : have(k) \in Nat
  <2>1. \A i \in A : f[i] \in Nat
    OBVIOUS
  <2> QED
    BY <1>1, <2>1, SumNat
<1>3. \A i \in 1..n : d[i] = IF i \in A THEN Min({f[i], Max({0, q - have(i-1)})}) ELSE 0
  <2>1. \A i \in 1..n : b[i] = upto(i-1)
    OBVIOUS
  <2> HIDE DEF upto
  <2> QED
    BY <2>1
<1> HIDE DEF have
<1>4. ASSUME NEW i \in 1..n, i \in A
      PROVE  d[i] = IF have(i-1) + f[i] <= q THEN f[i]
                    ELSE IF have(i-1) <= q THEN q - have(i-1) ELSE 0
  <2> DEFINE h == have(i-1)
             a == f[i]
             m == Max({0, q - h})
  <2>1. h \in Nat /\ a \in Nat
    BY <1>2
  <2>2. d[i] = Min({a, m})
    BY <1>3, <1>4
  <2> HIDE DEF h, a
  <2>3. m = IF 0 >= q - h THEN 0 ELSE q - h
    <3>1. 0 \in Int /\ q - h \in Int
      BY <2>1
    <3> QED
      BY <3>1, OfTwo
  <2>4. m \in Int
    BY <2>1, <2>3
  <2> HIDE DEF m
  <2>5. Min({a, m}) = IF a <= m THEN a ELSE m
    BY <2>1, <2>4, OfTwo
  <2>6. d[i] = IF h + a <= q THEN a ELSE IF h <= q THEN q - h ELSE 0
    BY <2>1, <2>2, <2>3, <2>5
  <2> QED
    BY <2>6 DEF h, a
<1>5. \A i \in 1..n : d[i] \in Nat /\ d[i] <= f[i] /\ (i \notin A => d[i] = 0)
  <2> SUFFICES ASSUME NEW i \in 1..n
               PROVE  d[i] \in Nat /\ d[i] <= f[i] /\ (i \notin A => d[i] = 0)
    OBVIOUS
  <2>1. f[i] \in Nat /\ have(i-1) \in Nat
    BY <1>2
  <2>2. CASE i \in A
    BY <1>4, <2>1, <2>2
  <2>3. CASE i \notin A
    <3>1. d[i] = 0
      BY <1>3, <2>3, Zenon
    <3> QED
      BY <2>1, <3>1
  <2> QED
    BY <2>2, <2>3
<1>6. \A k \in 0..n : gave(k) = IF have(k) <= q THEN have(k) ELSE q
  <2> DEFINE F == {k \in 0..n : gave(k) = IF have(k) <= q THEN have(k) ELSE q}
  <2>1. 0 \in F
    <3>1. upto(0) = {}
      OBVIOUS
    <3>2. gave(0) = 0 /\ have(0) = 0
      BY <3>1, SumEmpty DEF have
    <3> QED
      BY <3>2
  <2>2. ASSUME NEW k \in 0 .. n-1, k \in F
        PROVE  k+1 \in F
    <3>1. k \in 0..n /\ k+1 \in 0..n /\ k+1 \in 1..n /\ (k+1)-1 = k
      OBVIOUS
    <3>2. CASE k+1 \notin A
      <4>1. upto(k+1) = upto(k)
        BY <3>2
      <4> QED
        BY <2>2, <3>1, <4>1 DEF have
    <3>3. CASE k+1 \in A
      <4>1. upto(k+1) = upto(k) \union {k+1} /\ k+1 \notin upto(k)
        BY <3>1, <3>3
      <4>2. IsFiniteSet(upto(k)) /\ \A i \in upto(k) : f[i] \in Int /\ d[i] \in Int
        BY <1>1, <1>5, <3>1, FS_Subset
      <4>3. f[k+1] \in Nat /\ d[k+1] \in Nat /\ have(k) \in Nat
        BY <1>2, <1>5, <3>1
      <4>4. have(k+1) = f[k+1] + have(k) /\ gave(k+1) = d[k+1] + gave(k)
        <5> DEFINE T == upto(k)
                   x == k+1
        <5>1. IsFiniteSet(T) /\ x \notin T /\ f[x] \in Int /\ d[x] \in Int
              /\ \A i \in T : f[i] \in Int /\ d[i] \in Int
          BY <4>1, <4>2, <4>3
        <5> HIDE DEF T, x
        <5>2. /\ SumFunctionOnSet(f, T \union {x}) = f[x] + SumFunctionOnSet(f, T)
              /\ SumFunctionOnSet(d, T \union {x}) = d[x] + SumFunctionOnSet(d, T)
          BY <5>1, SumWith
        <5> QED
          BY <4>1, <5>2 DEF T, x, have
      <4>5. d[k+1] = IF have(k) + f[k+1] <= q THEN f[k+1]
                     ELSE IF have(k) <= q THEN q - have(k) ELSE 0
        BY <1>4, <3>1, <3>3
      <4>6. gave(k) = IF have(k) <= q THEN have(k) ELSE q
        BY <2>2
      <4> HIDE DEF gave
      <4>7. gave(k+1) = IF have(k+1) <= q THEN have(k+1) ELSE q
        BY <4>3, <4>4, <4>5, <4>6
      <4> QED
        BY <3>1, <4>7 DEF gave
    <3> QED
      BY <3>2, <3>3
  <2> HIDE DEF F
  <2>3. \A k \in 0..n : k \in F
    BY <2>1, <2>2, PrefixInduction
  <2> QED
    BY <2>3 DEF F
<1>7. upto(n) = A
  OBVIOUS
<1>8. have(n) = SumFunctionOnSet(f, A) /\ gave(n) = SumFunctionOnSet(d, A)
  BY <1>7 DEF have
<1>9. have(n) \in Nat /\ q <= have(n)
  BY <1>2, <1>8
<1>10. gave(n) = q
  <2>1. n \in 0..n
    OBVIOUS
  <2> HIDE DEF gave
  <2> QED
    BY <1>6, <1>9, <2>1
<1> QED
  BY <1>5, <1>8, <1>10

\* An entitlement that leaves no fraction scales without rounding.
LEMMA Divides ==
  ASSUME NEW x \in Nat, NEW y \in Nat, NEW d \in Nat \ {0}
  PROVE  /\ x % d = 0 => (x \div d) \in Nat /\ (x \div d) * d = x
         /\ x = y * d => x \div d = y
<1>1. x \div d \in Nat
  OBVIOUS
<1>2. ASSUME x % d = 0 PROVE (x \div d) * d = x
  <2>1. x = d * (x \div d)
    BY <1>2
  <2> QED
    BY <1>1, <2>1
<1>3. (y * d) \div d = y
  OBVIOUS
<1> QED
  BY <1>1, <1>2, <1>3

-----------------------------------------------------------------------------
(* A balance along a journal: moves add to it or scale it. *)

\* A balance X at the places 0..n: at a place of R the move M adds or scales, elsewhere it stays.
Replays(X, R, M, n) ==
  /\ n \in Nat /\ X \in [0..n -> Int] /\ R \in SUBSET (1..n)
  /\ \A i \in (1..n) \ R : X[i] = X[i-1]
  /\ \A i \in R : /\ M[i].by \in Int
                  /\ X[i] = IF M[i].adds THEN X[i-1] + M[i].by ELSE (X[i-1] * M[i].num) \div M[i].den
  /\ \A i, j \in R : M[i] = M[j] => i = j

UpTo(R, M, i) == {M[j] : j \in {l \in R : l <= i}}
Total(moves) == SumFunctionOnSet([m \in moves |-> m.by], moves)

\* What moves come to.
LEMMA Totals ==
  ASSUME NEW S, IsFiniteSet(S), \A m \in S : m.by \in Int
  PROVE  /\ \A P \in SUBSET S : Total(P) \in Int /\ Total(S) = Total(P) + Total(S \ P)
         /\ Total({}) = 0
<1> DEFINE f == [m \in S |-> m.by]
<1>1. ASSUME NEW P \in SUBSET S
      PROVE  Total(P) = SumFunctionOnSet(f, P)
  <2> DEFINE g == [m \in P |-> m.by]
  <2>1. \A m \in P : g[m] = f[m]
    OBVIOUS
  <2>2. IsFiniteSet(P)
    BY FS_Subset
  <2> HIDE DEF f, g
  <2>3. SumFunctionOnSet(g, P) = SumFunctionOnSet(f, P)
    BY <2>1, <2>2, SumSame
  <2> QED
    BY <2>3 DEF Total, g
<1>2. \A m \in S : f[m] \in Int
  OBVIOUS
<1> HIDE DEF f
<1>3. \A P \in SUBSET S : /\ SumFunctionOnSet(f, P) \in Int
                          /\ SumFunctionOnSet(f, S) = SumFunctionOnSet(f, P) + SumFunctionOnSet(f, S \ P)
  BY <1>2, SumInt, SumSplit
<1>4. Total({}) = 0
  BY SumEmpty DEF Total
<1> QED
  BY <1>1, <1>3, <1>4

\* One move comes to itself.
LEMMA OneMove ==
  ASSUME NEW m, m.by \in Int
  PROVE  Total({m}) = m.by
<1> DEFINE f == [x \in {m} |-> x.by]
<1>1. f[m] = m.by /\ \A x \in {} : f[x] \in Int
  OBVIOUS
<1> HIDE DEF f
<1>2. SumFunctionOnSet(f, {} \union {m}) = f[m] + SumFunctionOnSet(f, {})
  BY <1>1, SumWith, FS_EmptySet
<1>3. {} \union {m} = {m} /\ SumFunctionOnSet(f, {}) = 0
  BY SumEmpty
<1> QED
  BY <1>1, <1>2, <1>3 DEF Total, f

\* The moves up to a place, one place further.
LEMMA UpToNext ==
  ASSUME NEW X, NEW R, NEW M, NEW n, Replays(X, R, M, n)
  PROVE  /\ UpTo(R, M, 0) = {}
         /\ \A i \in 0..n : IsFiniteSet(UpTo(R, M, i)) /\ \A m \in UpTo(R, M, i) : m.by \in Int
         /\ \A i \in 1..n : /\ i \notin R => UpTo(R, M, i) = UpTo(R, M, i-1)
                            /\ i \in R => /\ UpTo(R, M, i) = UpTo(R, M, i-1) \union {M[i]}
                                          /\ M[i] \notin UpTo(R, M, i-1)
         /\ \A i, j \in 0..n : i <= j => UpTo(R, M, i) \subseteq UpTo(R, M, j)
         /\ \A j \in R : j \in 1..n /\ \A i \in 0..n : M[j] \in UpTo(R, M, i) <=> j <= i
<1>0. /\ n \in Nat /\ R \in SUBSET (1..n) /\ \A i \in R : M[i].by \in Int
      /\ \A i, j \in R : M[i] = M[j] => i = j
  BY DEF Replays
<1>1. UpTo(R, M, 0) = {}
  BY <1>0 DEF UpTo
<1>2. \A j \in R : j \in 1..n /\ \A i \in 0..n : M[j] \in UpTo(R, M, i) <=> j <= i
  BY <1>0 DEF UpTo
<1>3. ASSUME NEW i \in 1..n
      PROVE  /\ i \notin R => UpTo(R, M, i) = UpTo(R, M, i-1)
             /\ i \in R => /\ UpTo(R, M, i) = UpTo(R, M, i-1) \union {M[i]}
                           /\ M[i] \notin UpTo(R, M, i-1)
  <2>1. CASE i \notin R
    <3>0. \A l \in R : l <= i <=> l <= i-1
      BY <1>0, <2>1
    <3>1. {l \in R : l <= i} = {l \in R : l <= i-1}
      BY <3>0
    <3> QED
      BY <2>1, <3>1 DEF UpTo
  <2>2. CASE i \in R
    <3>0. i <= i /\ \A l \in R : l <= i <=> (l <= i-1 \/ l = i)
      BY <1>0
    <3>1. {l \in R : l <= i} = {l \in R : l <= i-1} \union {i}
      BY <2>2, <3>0
    <3>2. UpTo(R, M, i) = UpTo(R, M, i-1) \union {M[i]}
      BY <3>1 DEF UpTo
    <3>3. i-1 \in 0..n /\ ~(i <= i-1)
      BY <1>0
    <3> QED
      BY <1>2, <2>2, <3>2, <3>3
  <2> QED
    BY <2>1, <2>2
<1>4. \A i, j \in 0..n : i <= j => UpTo(R, M, i) \subseteq UpTo(R, M, j)
  BY <1>0 DEF UpTo
<1>5. ASSUME NEW i \in 0..n
      PROVE  IsFiniteSet(UpTo(R, M, i)) /\ \A m \in UpTo(R, M, i) : m.by \in Int
  <2>1. IsFiniteSet({l \in R : l <= i})
    <3>1. {l \in R : l <= i} \in SUBSET (1..n)
      BY <1>0
    <3>2. IsFiniteSet(1..n)
      BY <1>0, FS_Interval
    <3> QED
      BY <3>1, <3>2, FS_Subset
  <2>2. IsFiniteSet(UpTo(R, M, i))
    <3> DEFINE L == {l \in R : l <= i}
           f == [j \in L |-> M[j]]
           T == {M[j] : j \in L}
    <3>0. f \in Surjection(L, T)
      BY DEF Surjection
    <3>1. IsFiniteSet(T)
      <4> HIDE DEF f, T
      <4> QED
        BY <2>1, <3>0, FS_Surjection
    <3> QED
      BY <3>1 DEF UpTo
  <2> QED
    BY <1>0, <2>2 DEF UpTo
<1> QED
  BY <1>1, <1>2, <1>3, <1>4, <1>5

\* Where nothing scales, the balance moves by the total of the moves.
LEMMA Stretch ==
  ASSUME NEW X, NEW R, NEW M, NEW n, Replays(X, R, M, n), NEW a \in 0..n, NEW b \in 0..n, a <= b,
         \A j \in R : a < j /\ j <= b => M[j].adds
  PROVE  X[b] = X[a] + Total(UpTo(R, M, b) \ UpTo(R, M, a))
<1> DEFINE U(i) == UpTo(R, M, i)
           F == {k \in 0..(b - a) : X[a + k] = X[a] + Total(U(a + k) \ U(a))}
<1>0. /\ n \in Nat /\ R \in SUBSET (1..n) /\ X \in [0..n -> Int]
      /\ \A i \in (1..n) \ R : X[i] = X[i-1]
      /\ \A i \in R : M[i].adds => M[i].by \in Int /\ X[i] = X[i-1] + M[i].by
  BY DEF Replays
<1>1. /\ \A i \in 0..n : IsFiniteSet(U(i)) /\ \A m \in U(i) : m.by \in Int
      /\ \A i \in 1..n : /\ i \notin R => U(i) = U(i-1)
                         /\ i \in R => U(i) = U(i-1) \union {M[i]} /\ M[i] \notin U(i-1)
      /\ \A i, j \in 0..n : i <= j => U(i) \subseteq U(j)
  BY UpToNext
<1> HIDE DEF U
<1>2. b - a \in Nat /\ a + (b - a) = b /\ b - a \in 0..(b - a)
  OBVIOUS
<1>3. 0 \in F
  <2>1. a + 0 = a /\ U(a) \ U(a) = {} /\ 0 \in 0..(b - a) /\ X[a] \in Int
    BY <1>0, <1>2
  <2>2. Total({}) = 0
    BY SumEmpty DEF Total
  <2>3. X[a + 0] = X[a] + Total(U(a + 0) \ U(a))
    BY <2>1, <2>2
  <2> QED
    BY <2>1, <2>3
<1>4. ASSUME NEW k \in 0..(b - a) - 1, k \in F
      PROVE  k + 1 \in F
  <2> DEFINE i == a + (k + 1)
             T == U(i - 1) \ U(a)
  <2>1. /\ i \in 1..n /\ i \in 0..n /\ i - 1 \in 0..n /\ i - 1 = a + k
        /\ a < i /\ i <= b /\ a <= i - 1 /\ k + 1 \in 0..(b - a)
    <3>1. k \in Nat /\ k + 1 <= b - a /\ a \in Nat /\ b \in Nat /\ n \in Nat /\ b <= n
      BY <1>0, <1>2
    <3> QED
      BY <3>1
  <2>2. X[i - 1] = X[a] + Total(T) /\ X[i-1] \in Int /\ X[a] \in Int
    BY <1>0, <1>4, <2>1
  <2> HIDE DEF i
  <2>3. CASE i \notin R
    BY <1>0, <1>1, <2>1, <2>2, <2>3 DEF i
  <2>4. CASE i \in R
    <3>1. X[i] = X[i-1] + M[i].by /\ M[i].by \in Int
      BY <1>0, <2>1, <2>4
    <3>2. U(i) = U(i-1) \union {M[i]} /\ M[i] \notin U(i-1) /\ U(a) \subseteq U(i-1)
      BY <1>1, <2>1, <2>4
    <3>3. U(i) \ U(a) = T \union {M[i]} /\ M[i] \notin T
      BY <3>2
    <3>4. IsFiniteSet(U(i) \ U(a)) /\ \A m \in U(i) \ U(a) : m.by \in Int
      BY <1>1, <2>1, FS_Difference
    <3> DEFINE S == U(i) \ U(a)
    <3>5. Total(S) = Total(T) + Total(S \ T) /\ Total(T) \in Int
      <4>1. T \in SUBSET S
        BY <3>3
      <4> HIDE DEF S, T
      <4> QED
        BY <3>4, <4>1, Totals DEF S
    <3>6. S \ T = {M[i]}
      BY <3>3
    <3>7. Total({M[i]}) = M[i].by
      BY <3>1, OneMove
    <3> HIDE DEF S, T
    <3>8. X[i] = X[a] + Total(S)
      <4> DEFINE x == M[i].by
                 t == Total(T)
      <4>1. Total(S) = t + x /\ x \in Int /\ t \in Int
        BY <3>1, <3>5, <3>6, <3>7
      <4>2. X[i] = X[i-1] + x /\ X[i-1] = X[a] + t /\ X[a] \in Int
        BY <2>2, <3>1
      <4> HIDE DEF x, t
      <4> QED
        BY <4>1, <4>2
    <3> QED
      BY <2>1, <3>8 DEF S, i
  <2> QED
    BY <2>3, <2>4
<1>5. \A k \in 0..(b - a) : k \in F
  <2> HIDE DEF F
  <2> QED
    BY <1>2, <1>3, <1>4, PrefixInduction
<1>6. b - a \in F
  BY <1>2, <1>5
<1> QED
  BY <1>2, <1>6 DEF U

\* Two journals that scale after the same moves: one is ahead of the other by moves that add.
Leads(R, M, i, S, N, k) ==
  UpTo(R, M, i) \subseteq UpTo(S, N, k) /\ \A m \in UpTo(S, N, k) \ UpTo(R, M, i) : m.adds

\* Their balances are then as far apart as these moves come to.
LEMMA ReplaysAgree ==
  ASSUME NEW X, NEW R, NEW M, NEW n, Replays(X, R, M, n),
         NEW Y, NEW S, NEW N, NEW p, Replays(Y, S, N, p), X[0] = Y[0],
         \A i \in R, k \in S : M[i] = N[k] /\ ~M[i].adds => UpTo(R, M, i-1) = UpTo(S, N, k-1)
  PROVE  \A i \in 0..n, k \in 0..p :
           Leads(R, M, i, S, N, k) => Y[k] = X[i] + Total(UpTo(S, N, k) \ UpTo(R, M, i))
<1> DEFINE U(i) == UpTo(R, M, i)
           V(k) == UpTo(S, N, k)
           Before(i, k) == U(i) \subseteq V(k) /\ \A m \in V(k) \ U(i) : m.adds
           F == {i \in 0..n : \A k \in 0..p : Before(i, k) => Y[k] = X[i] + Total(V(k) \ U(i))}
<1>0. /\ n \in Nat /\ R \in SUBSET (1..n) /\ X \in [0..n -> Int]
      /\ \A i \in (1..n) \ R : X[i] = X[i-1]
      /\ \A i \in R : /\ M[i].by \in Int
                      /\ M[i].adds => X[i] = X[i-1] + M[i].by
                      /\ ~M[i].adds => X[i] = (X[i-1] * M[i].num) \div M[i].den
  BY DEF Replays
<1>1. /\ p \in Nat /\ S \in SUBSET (1..p) /\ Y \in [0..p -> Int]
      /\ \A k \in S : ~N[k].adds => Y[k] = (Y[k-1] * N[k].num) \div N[k].den
  BY DEF Replays
<1>2. /\ U(0) = {}
      /\ \A i \in 1..n : /\ i \notin R => U(i) = U(i-1)
                         /\ i \in R => U(i) = U(i-1) \union {M[i]} /\ M[i] \notin U(i-1)
  BY UpToNext
<1>3. /\ V(0) = {}
      /\ \A k \in 0..p : IsFiniteSet(V(k)) /\ \A m \in V(k) : m.by \in Int
      /\ \A k \in 1..p : k \in S => V(k) = V(k-1) \union {N[k]}
      /\ \A j \in S : j \in 1..p /\ \A k \in 0..p : N[j] \in V(k) <=> j <= k
  BY UpToNext
<1>4. \A a, b \in 0..p : a <= b /\ (\A j \in S : a < j /\ j <= b => N[j].adds)
        => Y[b] = Y[a] + Total(V(b) \ V(a))
  BY Stretch
<1>5. \A k \in 0..p : \A m \in V(k) : \E j \in S : j <= k /\ m = N[j]
  BY DEF UpTo
<1>6. \A i \in R, k \in S : M[i] = N[k] /\ ~M[i].adds => U(i-1) = V(k-1)
  OBVIOUS
<1> HIDE DEF U, V
<1>7. 0 \in F
  <2> SUFFICES ASSUME NEW k \in 0..p, Before(0, k) PROVE Y[k] = X[0] + Total(V(k) \ U(0))
    BY <1>0
  <2>1. \A j \in S : 0 < j /\ j <= k => N[j].adds
    BY <1>2, <1>3
  <2>2. 0 \in 0..p /\ 0 <= k
    BY <1>1
  <2>3. Y[k] = Y[0] + Total(V(k) \ V(0))
    BY <1>4, <2>1, <2>2
  <2> QED
    BY <1>2, <1>3, <2>3
<1>8. ASSUME NEW h \in 0..n-1, h \in F
      PROVE  h + 1 \in F
  <2> DEFINE i == h + 1
  <2>1. i \in 1..n /\ i \in 0..n /\ h = i - 1 /\ h \in 0..n
    BY <1>0
  <2>2. \A k \in 0..p : Before(h, k) => Y[k] = X[h] + Total(V(k) \ U(h))
    BY <1>8
  <2> HIDE DEF i
  <2> SUFFICES ASSUME NEW k \in 0..p, Before(i, k) PROVE Y[k] = X[i] + Total(V(k) \ U(i))
    BY <2>1 DEF i
  <2>3. CASE i \notin R
    BY <1>0, <1>2, <2>1, <2>2, <2>3
  <2>4. CASE i \in R /\ M[i].adds
    <3> DEFINE T == V(k) \ U(i)
               W == V(k) \ U(h)
               x == M[i].by
    <3>1. U(i) = U(h) \union {M[i]} /\ M[i] \notin U(h) /\ M[i] \in V(k)
      BY <1>2, <2>1, <2>4
    <3>2. Before(h, k)
      BY <2>4, <3>1
    <3>3. Y[k] = X[h] + Total(W)
      BY <2>2, <3>2
    <3>4. X[i] = X[h] + x /\ x \in Int /\ X[h] \in Int
      BY <1>0, <2>1, <2>4
    <3>5. IsFiniteSet(W) /\ (\A m \in W : m.by \in Int) /\ T \in SUBSET W /\ W \ T = {M[i]}
      BY <1>3, <3>1, FS_Difference
    <3> HIDE DEF T, W
    <3>6. Total(W) = Total(T) + Total({M[i]}) /\ Total(T) \in Int
      BY <3>5, Totals
    <3>7. Total({M[i]}) = x
      BY <3>4, OneMove
    <3> HIDE DEF x
    <3> QED
      BY <3>3, <3>4, <3>6, <3>7 DEF T
  <2>5. CASE i \in R /\ ~M[i].adds
    <3>1. U(i) = U(h) \union {M[i]} /\ M[i] \in V(k)
      BY <1>2, <2>1, <2>5
    <3>2. PICK b \in S : b <= k /\ M[i] = N[b]
      BY <1>5, <3>1
    <3>3. b \in 1..p /\ b \in 0..p /\ b-1 \in 0..p
      BY <1>1
    <3>4. U(h) = V(b-1)
      BY <1>6, <2>1, <2>5, <3>2
    <3>5. Y[b-1] = X[h]
      <4>1. Before(h, b-1) /\ V(b-1) \ U(h) = {}
        BY <3>4
      <4>2. Y[b-1] = X[h] + Total({})
        BY <2>2, <3>3, <4>1
      <4>3. Total({}) = 0 /\ X[h] \in Int
        BY <1>0, <2>1, SumEmpty DEF Total
      <4> QED
        BY <4>2, <4>3
    <3>6. X[i] = Y[b]
      <4>1. X[i] = (X[h] * M[i].num) \div M[i].den /\ Y[b] = (Y[b-1] * N[b].num) \div N[b].den
        BY <1>0, <1>1, <2>1, <2>5, <3>2
      <4> QED
        BY <3>2, <3>5, <4>1, Zenon
    <3>7. U(i) = V(b)
      BY <1>3, <3>1, <3>2, <3>3, <3>4
    <3>12. \A j \in S : N[j] \in V(k) <=> j <= k
      BY <1>3, Zenon
    <3>8. \A j \in S : b < j /\ j <= k => N[j].adds
      <4> SUFFICES ASSUME NEW j \in S, b < j, j <= k, ~N[j].adds PROVE FALSE
        OBVIOUS
      <4>1. N[j] \in V(k)
        BY <3>12
      <4>2. N[j] \in V(b)
        BY <3>7, <4>1
      <4>3. j <= b /\ j \in Int /\ b \in Int
        BY <1>3, <3>3, <4>2
      <4> QED
        BY <4>3
    <3>9. Y[k] = Y[b] + Total(V(k) \ V(b))
      BY <1>4, <3>2, <3>3, <3>8
    <3> QED
      BY <3>6, <3>7, <3>9
  <2> QED
    BY <2>3, <2>4, <2>5
<1>9. \A i \in 0..n : i \in F
  <2> HIDE DEF F
  <2> QED
    BY <1>0, <1>7, <1>8, PrefixInduction
<1> QED
  BY <1>9 DEF Leads, U, V
\* Moves that differ come to the sum over whatever tells them apart.
LEMMA TotalOver ==
  ASSUME NEW D, IsFiniteSet(D), NEW F, \A i \in D : F[i].by \in Int,
         \A i, j \in D : F[i] = F[j] => i = j
  PROVE  \A P \in SUBSET D :
           /\ Total({F[i] : i \in P}) = SumFunctionOnSet([i \in D |-> F[i].by], P)
           /\ IsFiniteSet({F[i] : i \in P})
<1> DEFINE f == [i \in D |-> F[i].by]
           Image(P) == {F[i] : i \in P}
           Good == {P \in SUBSET D : Total(Image(P)) = SumFunctionOnSet(f, P) /\ IsFiniteSet(Image(P))}
<1>1. \A i \in D : f[i] = F[i].by /\ f[i] \in Int
  OBVIOUS
<1> HIDE DEF f
<1>2. ASSUME NEW P \in SUBSET D, \A U \in SUBSET P : U # P => U \in Good
      PROVE  P \in Good
  <2>1. CASE P = {}
    <3>1. Image(P) = {}
      BY <2>1
    <3> QED
      BY <2>1, <3>1, SumEmpty, FS_EmptySet DEF Total
  <2>2. CASE P # {}
    <3>1. PICK x \in P : TRUE
      BY <2>2
    <3> DEFINE U == P \ {x}
               A == Image(P)
               B == Image(U)
               m == F[x]
    <3>2. U \in Good /\ U \in SUBSET D
      BY <1>2, <3>1
    <3>3. Total(B) = SumFunctionOnSet(f, U) /\ IsFiniteSet(B)
      BY <3>2
    <3>4. A = B \union {m} /\ m \notin B
      BY <3>1
    <3>5. \A y \in A : y.by \in Int
      OBVIOUS
    <3>7. B \in SUBSET A /\ A \ B = {m}
      BY <3>4
    <3> HIDE DEF A, B, m
    <3>6. IsFiniteSet(A)
      BY <3>3, <3>4, FS_AddElement
    <3>8. Total(A) = Total(B) + Total({m})
      <4>1. Total(A) = Total(B) + Total(A \ B)
        BY <3>5, <3>6, <3>7, Totals
      <4> QED
        BY <3>7, <4>1
    <3>9. m.by \in Int /\ m.by = f[x]
      BY <1>1, <3>1 DEF m
    <3>10. Total({m}) = f[x]
      BY <3>9, OneMove
    <3>11. SumFunctionOnSet(f, P) = f[x] + SumFunctionOnSet(f, U) /\ SumFunctionOnSet(f, U) \in Int
      <4>1. IsFiniteSet(U) /\ x \notin U /\ P = U \union {x} /\ (\A i \in U : f[i] \in Int) /\ f[x] \in Int
        BY <1>1, <3>1, FS_Subset
      <4>2. SumFunctionOnSet(f, U \union {x}) = f[x] + SumFunctionOnSet(f, U)
        BY <4>1, SumWith
      <4>3. SumFunctionOnSet(f, U) \in Int
        BY <4>1, SumInt
      <4> QED
        BY <4>1, <4>2, <4>3
    <3>12. Total(A) = SumFunctionOnSet(f, P)
      BY <1>1, <3>1, <3>3, <3>8, <3>10, <3>11
    <3> QED
      BY <3>6, <3>12 DEF A
  <2> QED
    BY <2>1, <2>2
<1>3. \A P \in SUBSET D : P \in Good
  <2> HIDE DEF Good
  <2> QED
    BY <1>2, SubsetInduction
<1> QED
  BY <1>3 DEF f
=============================================================================
