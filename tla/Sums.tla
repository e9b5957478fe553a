-------------------------------- MODULE Sums --------------------------------
(***************************************************************************)
(* Folds over finite sets, and the sum of a function over one, for the     *)
(* proofs about the mean of core loads (Telemetry), the rows a flush       *)
(* appends (SwitchPorts) and the cost of channels (AirMatch).              *)
(*                                                                         *)
(* The community modules define a fold by recursion over the subsets of    *)
(* the set.  The induction theorems of the library take an operator, which *)
(* no backend instantiates; here a counterexample that is minimal among    *)
(* the subsets takes their place.                                          *)
(***************************************************************************)
EXTENDS Integers, FiniteSetsExt, FiniteSetTheorems, WellFoundedInduction, TLAPS

SumOver(f, S) == MapThenSumSet(LAMBDA x : f[x], S)

(* Among some subsets of a finite set, one has no other below it.          *)
LEMMA MinimalSubset ==
  ASSUME NEW S, IsFiniteSet(S), NEW B, B \subseteq SUBSET S, B # {}
  PROVE  \E T \in B : \A U \in SUBSET T : U \in B => U = T
<1>1. IsWellFoundedOn(StrictSubsetOrdering(S), SUBSET S)
  BY FS_StrictSubsetOrderingWellFounded, FS_FiniteSubsetsOfFinite
<1>2. PICK T \in B : \A U \in B : ~ (<<U, T>> \in StrictSubsetOrdering(S))
  BY <1>1, WFMin
<1> QED BY <1>2 DEF StrictSubsetOrdering

-----------------------------------------------------------------------------
(* A fold takes a finite set apart, one element at a time: pick says which *)
(* element of a set is next, step what its contribution does to the value  *)
(* of the rest.                                                            *)

Foldable(S, V, base, step, pick) ==
  /\ IsFiniteSet(S)
  /\ base \in V
  /\ step \in [S -> [V -> V]]
  /\ \A s \in SUBSET S : s # {} => pick[s] \in s

Foldings(V, base, step, pick, T) ==
  {g \in [SUBSET T -> V] :
     \A s \in SUBSET T :
       g[s] = IF s = {} THEN base ELSE step[pick[s]][g[s \ {pick[s]}]]}

(* Solutions agree where both are defined.                                 *)
LEMMA FoldingsAgree ==
  ASSUME NEW S, NEW V, NEW base, NEW step, NEW pick,
         Foldable(S, V, base, step, pick),
         NEW U, U \subseteq S, NEW W, W \subseteq U,
         NEW g \in Foldings(V, base, step, pick, U),
         NEW h \in Foldings(V, base, step, pick, W)
  PROVE  g[W] = h[W]
<1> DEFINE B == {s \in SUBSET W : g[s] # h[s]}
<1>0. IsFiniteSet(W) /\ W \in SUBSET W
  BY FS_Subset DEF Foldable
<1>1. SUFFICES ASSUME B # {} PROVE FALSE
  BY <1>0
<1>2. PICK s \in B : \A u \in SUBSET s : u \in B => u = s
  <2> HIDE DEF B
  <2>1. B \subseteq SUBSET W
    BY DEF B
  <2> QED BY <1>0, <1>1, <2>1, MinimalSubset
<1>3. /\ g[s] = IF s = {} THEN base ELSE step[pick[s]][g[s \ {pick[s]}]]
      /\ h[s] = IF s = {} THEN base ELSE step[pick[s]][h[s \ {pick[s]}]]
  BY DEF Foldings
<1>4. CASE s = {}
  BY <1>3, <1>4
<1>5. CASE s # {}
  <2>1. pick[s] \in s
    BY <1>5 DEF Foldable
  <2>2. s \ {pick[s]} \notin B /\ s \ {pick[s]} \in SUBSET W
    BY <1>2, <2>1
  <2>3. g[s \ {pick[s]}] = h[s \ {pick[s]}]
    BY <2>2
  <2> QED BY <1>3, <1>5, <2>3
<1> QED BY <1>4, <1>5

(* Values of smaller sets make a solution for the set.                     *)
LEMMA FoldingExtends ==
  ASSUME NEW S, NEW V, NEW base, NEW step, NEW pick,
         Foldable(S, V, base, step, pick),
         NEW T, T \subseteq S, T # {},
         \A U \in SUBSET T : U # T => Foldings(V, base, step, pick, U) # {}
  PROVE  Foldings(V, base, step, pick, T) # {}
<1> DEFINE Sol(U) == Foldings(V, base, step, pick, U)
           On(s) == (CHOOSE h \in Sol(s) : TRUE)[s]
           p == pick[T]
           top == step[p][On(T \ {p})]
           g == [s \in SUBSET T |-> IF s = T THEN top ELSE On(s)]
<1>1. p \in T /\ \A s \in SUBSET T : s # {} => pick[s] \in s
  BY DEF Foldable
<1>2. ASSUME NEW s \in SUBSET T, s # T
      PROVE  /\ On(s) \in V
             /\ s = {} => On(s) = base
             /\ s # {} => On(s) = step[pick[s]][On(s \ {pick[s]})]
  <2> DEFINE h == CHOOSE k \in Sol(s) : TRUE
  <2>1. h \in Sol(s) /\ On(s) = h[s]
    BY <1>2
  <2> HIDE DEF h
  <2>2. /\ h \in [SUBSET s -> V]
        /\ h[s] = IF s = {} THEN base ELSE step[pick[s]][h[s \ {pick[s]}]]
    BY <2>1 DEF Foldings
  <2>3. ASSUME s # {} PROVE h[s \ {pick[s]}] = On(s \ {pick[s]})
    <3> DEFINE r == s \ {pick[s]}
               k == CHOOSE l \in Sol(r) : TRUE
    <3>1. r \in SUBSET T /\ r \subseteq s /\ r # T
      BY <1>1, <1>2, <2>3
    <3>2. k \in Sol(r) /\ On(r) = k[r]
      BY <3>1
    <3> HIDE DEF k, r
    <3>3. s \subseteq S
      OBVIOUS
    <3>4. h[r] = k[r]
      BY <2>1, <3>1, <3>2, <3>3, FoldingsAgree
    <3> QED BY <3>2, <3>4 DEF r
  <2> HIDE DEF On
  <2> QED BY <2>1, <2>2, <2>3
<1>3. T \ {p} \in SUBSET T /\ T \ {p} # T
  BY <1>1
<1> HIDE DEF On, p
<1>4. top \in V
  <2>1. On(T \ {p}) \in V
    BY <1>2, <1>3
  <2>2. step[p] \in [V -> V]
    BY <1>1 DEF Foldable
  <2> QED BY <2>1, <2>2
<1>5. g \in [SUBSET T -> V]
  <2> HIDE DEF top
  <2> QED BY <1>2, <1>4
<1>6. ASSUME NEW s \in SUBSET T
      PROVE  g[s] = IF s = {} THEN base ELSE step[pick[s]][g[s \ {pick[s]}]]
  <2>1. CASE s = T
    BY <2>1, <1>3 DEF p
  <2>2. CASE s # T /\ s = {}
    BY <2>2, <1>2
  <2>3. CASE s # T /\ s # {}
    <3>1. s \ {pick[s]} \in SUBSET T /\ s \ {pick[s]} # T
      BY <1>1, <2>3
    <3> HIDE DEF top
    <3> QED BY <2>3, <3>1, <1>2
  <2> QED BY <2>1, <2>2, <2>3
<1> HIDE DEF g
<1>7. g \in Foldings(V, base, step, pick, T)
  BY <1>5, <1>6 DEF Foldings
<1> QED BY <1>7

(* The recursion has a solution.                                           *)
LEMMA FoldingExists ==
  ASSUME NEW S, NEW V, NEW base, NEW step, NEW pick,
         Foldable(S, V, base, step, pick)
  PROVE  Foldings(V, base, step, pick, S) # {}
<1> DEFINE B == {T \in SUBSET S : Foldings(V, base, step, pick, T) = {}}
<1>0. IsFiniteSet(S) /\ base \in V
  BY DEF Foldable
<1>1. SUFFICES ASSUME B # {} PROVE FALSE
  OBVIOUS
<1>2. PICK T \in B : \A U \in SUBSET T : U \in B => U = T
  <2> HIDE DEF B
  <2>1. B \subseteq SUBSET S
    BY DEF B
  <2> QED BY <1>0, <1>1, <2>1, MinimalSubset
<1>3. CASE T = {}
  <2> DEFINE g == [s \in SUBSET {} |-> base]
  <2>1. g \in Foldings(V, base, step, pick, {})
    BY <1>0 DEF Foldings
  <2> QED BY <1>3, <2>1
<1>4. CASE T # {}
  <2>1. \A U \in SUBSET T : U # T => Foldings(V, base, step, pick, U) # {}
    BY <1>2
  <2>2. Foldings(V, base, step, pick, T) # {}
    BY <1>4, <2>1, FoldingExtends
  <2> QED BY <2>2
<1> QED BY <1>3, <1>4

(* A function that takes the steps wherever it has a value is a solution.  *)
LEMMA FoldingIsClosed ==
  ASSUME NEW S, NEW V, NEW base, NEW step, NEW pick,
         Foldable(S, V, base, step, pick),
         NEW it, it = [s \in SUBSET S |-> it[s]],
         it[{}] = base,
         \A s \in SUBSET S :
           s # {} /\ it[s \ {pick[s]}] \in V
             => it[s] = step[pick[s]][it[s \ {pick[s]}]]
  PROVE  it \in Foldings(V, base, step, pick, S)
<1> DEFINE B == {s \in SUBSET S : it[s] \notin V}
<1>0. IsFiniteSet(S) /\ \A s \in SUBSET S : s # {} => pick[s] \in s
  BY DEF Foldable
<1>1. ASSUME B # {} PROVE FALSE
  <2>1. PICK s \in B : \A u \in SUBSET s : u \in B => u = s
    <3> HIDE DEF B
    <3>1. B \subseteq SUBSET S
      BY DEF B
    <3> QED BY <1>0, <1>1, <3>1, MinimalSubset
  <2>2. CASE s = {}
    BY <2>2, <2>1 DEF Foldable
  <2>3. CASE s # {}
    <3>1. pick[s] \in s
      BY <1>0, <2>3
    <3>2. it[s \ {pick[s]}] \in V
      <4>1. s \ {pick[s]} \in SUBSET s /\ s \ {pick[s]} # s
        BY <3>1
      <4>2. s \ {pick[s]} \notin B
        <5> HIDE DEF B
        <5> QED BY <2>1, <4>1
      <4> QED BY <4>2
    <3>3. it[s] = step[pick[s]][it[s \ {pick[s]}]]
      BY <2>3, <3>2
    <3>4. step[pick[s]] \in [V -> V]
      BY <3>1 DEF Foldable
    <3> QED BY <3>2, <3>3, <3>4
  <2> QED BY <2>2, <2>3
<1>2. it \in [SUBSET S -> V]
  BY <1>1
<1>3. \A s \in SUBSET S : s # {} => it[s \ {pick[s]}] \in V
  BY <1>2
<1> QED BY <1>2, <1>3 DEF Foldings

(* What holds of the base and is kept by the steps holds of the result.    *)
LEMMA FoldingKeeps ==
  ASSUME NEW S, NEW V, NEW base, NEW step, NEW pick,
         Foldable(S, V, base, step, pick),
         NEW g \in Foldings(V, base, step, pick, S),
         NEW P, base \in P[{}],
         \A s \in SUBSET S :
           s # {} => \A v \in V : v \in P[s \ {pick[s]}] => step[pick[s]][v] \in P[s]
  PROVE  g[S] \in P[S]
<1> DEFINE B == {s \in SUBSET S : g[s] \notin P[s]}
<1>0. IsFiniteSet(S) /\ \A s \in SUBSET S : s # {} => pick[s] \in s
  BY DEF Foldable
<1>1. SUFFICES ASSUME B # {} PROVE FALSE
  OBVIOUS
<1>2. PICK s \in B : \A u \in SUBSET s : u \in B => u = s
  <2> HIDE DEF B
  <2>1. B \subseteq SUBSET S
    BY DEF B
  <2> QED BY <1>0, <1>1, <2>1, MinimalSubset
<1>3. /\ g \in [SUBSET S -> V]
      /\ g[s] = IF s = {} THEN base ELSE step[pick[s]][g[s \ {pick[s]}]]
  BY DEF Foldings
<1>4. CASE s = {}
  BY <1>2, <1>3, <1>4
<1>5. CASE s # {}
  <2>1. pick[s] \in s
    BY <1>0, <1>5
  <2> DEFINE r == s \ {pick[s]}
  <2>2. r \in SUBSET S /\ r \notin B
    BY <1>2, <2>1
  <2>3. g[r] \in V /\ g[r] \in P[r]
    BY <1>3, <2>2
  <2>4. step[pick[s]][g[r]] \in P[s]
    BY <1>5, <2>3
  <2> QED BY <1>2, <1>3, <1>5, <2>4
<1> QED BY <1>4, <1>5

(* The greatest of finitely many numbers, which a fold from the left takes *)
(* away first.                                                             *)
LEMMA MaxIsMember ==
  ASSUME NEW S, IsFiniteSet(S), S \subseteq Int, S # {}
  PROVE  Max(S) \in S /\ \A x \in S : x <= Max(S)
<1> DEFINE Top(T) == \E m \in T : \A x \in T : x <= m
           B == {T \in SUBSET S : T # {} /\ ~ Top(T)}
<1>1. Top(S)
  <2>1. SUFFICES ASSUME S \in B PROVE FALSE
    OBVIOUS
  <2>2. PICK T \in B : \A U \in SUBSET T : U \in B => U = T
    <3>1. B \subseteq SUBSET S
      OBVIOUS
    <3> HIDE DEF B
    <3>2. B # {}
      BY <2>1
    <3> QED BY ONLY IsFiniteSet(S), <3>1, <3>2, MinimalSubset
  <2>3. PICK x \in T : TRUE
    OBVIOUS
  <2> DEFINE U == T \ {x}
  <2>4. CASE U = {}
    BY <2>3, <2>4
  <2>5. CASE U # {}
    <3>1. Top(U)
      <4>1. U \in SUBSET T /\ U # T /\ U \in SUBSET S
        BY <2>3
      <4>2. U \notin B
        <5> HIDE DEF B, U
        <5> QED BY <2>2, <4>1
      <4> QED BY <2>5, <4>1, <4>2
    <3>2. PICK m \in U : \A y \in U : y <= m
      BY <3>1
    <3>3. x \in Int /\ m \in Int /\ T \subseteq Int /\ m \in T
      OBVIOUS
    <3>4. CASE x <= m
      BY <3>2, <3>3, <3>4
    <3>5. CASE m <= x
      <4>1. \A y \in T : y <= x
        BY <3>2, <3>3, <3>5
      <4> QED BY <4>1
    <3> QED BY <3>3, <3>4, <3>5
  <2> QED BY <2>4, <2>5
<1>2. PICK m \in S : \A x \in S : m >= x
  BY <1>1
<1>3. Max(S) = CHOOSE x \in S : \A y \in S : x >= y
  BY DEF Max
<1>4. Max(S) \in S /\ \A y \in S : Max(S) >= y
  BY <1>2, <1>3
<1> QED BY <1>4

-----------------------------------------------------------------------------
(* A sum is a fold.                                                        *)

Chosen(s) == CHOOSE x \in s : TRUE

Picks(S) == [s \in SUBSET S |-> Chosen(s)]
Adds(f, S) == [x \in S |-> [v \in Int |-> f[x] + v]]

(* How the library computes the sum: the values of the subsets, each taken *)
(* apart at the element chosen.                                            *)
IsSumming(g, f, S) ==
  /\ g \in [SUBSET S -> Int]
  /\ g[{}] = 0
  /\ \A s \in SUBSET S : s # {} => g[s] = f[Chosen(s)] + g[s \ {Chosen(s)}]
  /\ g \in Foldings(Int, 0, Adds(f, S), Picks(S), S)

LEMMA ChosenIsMember == ASSUME NEW s, s # {} PROVE Chosen(s) \in s
  BY DEF Chosen

LEMMA SumIsFoldable ==
  ASSUME NEW f, NEW S, IsFiniteSet(S), \A x \in S : f[x] \in Int
  PROVE  Foldable(S, Int, 0, Adds(f, S), Picks(S))
<1>1. Adds(f, S) \in [S -> [Int -> Int]]
  BY DEF Adds
<1>2. \A s \in SUBSET S : s # {} => Picks(S)[s] \in s
  BY ChosenIsMember DEF Picks
<1> QED BY <1>1, <1>2 DEF Foldable

LEMMA SumSteps ==
  ASSUME NEW f, NEW S, NEW s \in SUBSET S, s # {}, NEW v \in Int
  PROVE  Picks(S)[s] = Chosen(s) /\ Adds(f, S)[Chosen(s)][v] = f[Chosen(s)] + v
<1>1. Chosen(s) \in S /\ Picks(S)[s] = Chosen(s)
  BY ChosenIsMember DEF Picks
<1> QED BY <1>1 DEF Adds

(* The equation of the sum, element by element as the library chooses.     *)
LEMMA SumIsSolution ==
  ASSUME NEW f, NEW S, IsFiniteSet(S), \A x \in S : f[x] \in Int
  PROVE  \E g : IsSumming(g, f, S) /\ SumOver(f, S) = g[S]
<1> DEFINE Eq(g) == g = [s \in SUBSET S |->
                           IF s = {} THEN 0
                           ELSE f[CHOOSE x \in s : TRUE] + g[s \ {CHOOSE x \in s : TRUE}]]
           it == CHOOSE g : Eq(g)
<1>0. Foldable(S, Int, 0, Adds(f, S), Picks(S))
  BY SumIsFoldable
<1>1. SumOver(f, S) = it[S]
  BY DEF SumOver, MapThenSumSet, MapThenFoldSet
<1>a. ASSUME NEW s \in SUBSET S, s # {}, NEW v \in Int
      PROVE  Adds(f, S)[Picks(S)[s]][v] = f[Chosen(s)] + v
  BY <1>a, SumSteps
<1>2. \E g : Eq(g)
  <2>1. PICK g : g \in Foldings(Int, 0, Adds(f, S), Picks(S), S)
    BY <1>0, FoldingExists
  <2>2. /\ g \in [SUBSET S -> Int]
        /\ \A s \in SUBSET S :
             g[s] = IF s = {} THEN 0
                    ELSE Adds(f, S)[Picks(S)[s]][g[s \ {Picks(S)[s]}]]
    BY <2>1 DEF Foldings
  <2>3. ASSUME NEW s \in SUBSET S, s # {}
        PROVE  g[s] = f[Chosen(s)] + g[s \ {Chosen(s)}]
    <3>1. Picks(S)[s] = Chosen(s) /\ g[s \ {Chosen(s)}] \in Int
      BY <2>2 DEF Picks
    <3> QED BY <1>a, <2>2, <2>3, <3>1
  <2>4. Eq(g)
    BY <2>2, <2>3 DEF Chosen
  <2> QED BY <2>4
<1>3. Eq(it)
  BY <1>2
<1> HIDE DEF it
<1>4. it = [s \in SUBSET S |-> it[s]] /\ it[{}] = 0
  BY <1>3
<1>5. \A s \in SUBSET S : s # {} => it[s] = f[Chosen(s)] + it[s \ {Chosen(s)}]
  BY <1>3 DEF Chosen
<1>6. \A s \in SUBSET S :
        s # {} /\ it[s \ {Picks(S)[s]}] \in Int
          => it[s] = Adds(f, S)[Picks(S)[s]][it[s \ {Picks(S)[s]}]]
  BY <1>5, <1>a DEF Picks
<1>7. it \in Foldings(Int, 0, Adds(f, S), Picks(S), S)
  BY <1>0, <1>4, <1>6, FoldingIsClosed
<1>8. it \in [SUBSET S -> Int]
  BY <1>7 DEF Foldings
<1> QED BY <1>1, <1>4, <1>5, <1>7, <1>8 DEF IsSumming

(* A sum of integers is an integer, and that of nothing is zero.           *)
LEMMA SumType ==
  ASSUME NEW f, NEW S, IsFiniteSet(S), \A x \in S : f[x] \in Int
  PROVE  SumOver(f, S) \in Int
<1>1. PICK g : IsSumming(g, f, S) /\ SumOver(f, S) = g[S]
  BY SumIsSolution
<1> QED BY <1>1 DEF IsSumming

LEMMA SumEmpty == ASSUME NEW f PROVE SumOver(f, {}) = 0
<1>1. PICK g : IsSumming(g, f, {}) /\ SumOver(f, {}) = g[{}]
  BY SumIsSolution, FS_EmptySet
<1> QED BY <1>1 DEF IsSumming

LEMMA SumChosen ==
  ASSUME NEW f, NEW S, IsFiniteSet(S), S # {}, \A x \in S : f[x] \in Int
  PROVE  SumOver(f, S) = f[Chosen(S)] + SumOver(f, S \ {Chosen(S)})
<1> DEFINE r == S \ {Chosen(S)}
<1>1. PICK g : IsSumming(g, f, S) /\ SumOver(f, S) = g[S]
  BY SumIsSolution
<1>2. IsFiniteSet(r) /\ r \subseteq S /\ \A x \in r : f[x] \in Int
  BY FS_Subset
<1> HIDE DEF r
<1>3. PICK h : IsSumming(h, f, r) /\ SumOver(f, r) = h[r]
  BY <1>2, SumIsSolution
<1>4. Foldable(S, Int, 0, Adds(f, S), Picks(S))
  BY SumIsFoldable
<1>5. g \in Foldings(Int, 0, Adds(f, S), Picks(S), S)
  BY <1>1 DEF IsSumming
<1>6. h \in Foldings(Int, 0, Adds(f, S), Picks(S), r)
  <2>1. ASSUME NEW s \in SUBSET r, s # {}
        PROVE  h[s] = Adds(f, S)[Picks(S)[s]][h[s \ {Picks(S)[s]}]]
    <3>1. s \in SUBSET S /\ h[s \ {Chosen(s)}] \in Int
      BY <1>2, <1>3 DEF IsSumming
    <3> QED BY <1>3, <2>1, <3>1, SumSteps DEF IsSumming
  <2> QED BY <1>3, <2>1 DEF Foldings, IsSumming
<1>7. g[r] = h[r]
  BY <1>2, <1>4, <1>5, <1>6, FoldingsAgree
<1>8. g[S] = f[Chosen(S)] + g[r]
  BY <1>1 DEF r, IsSumming
<1> QED BY <1>1, <1>3, <1>7, <1>8 DEF r

(* Any element can be taken out first.                                     *)
LEMMA SumTakeOut ==
  ASSUME NEW f, NEW S, IsFiniteSet(S), \A x \in S : f[x] \in Int, NEW e \in S
  PROVE  SumOver(f, S) = f[e] + SumOver(f, S \ {e})
<1> DEFINE B == {T \in SUBSET S : \E x \in T : SumOver(f, T) # f[x] + SumOver(f, T \ {x})}
<1>1. SUFFICES ASSUME B # {} PROVE FALSE
  OBVIOUS
<1>2. PICK T \in B : \A U \in SUBSET T : U \in B => U = T
  <2> HIDE DEF B
  <2>1. B \subseteq SUBSET S
    BY DEF B
  <2> QED BY <1>1, <2>1, MinimalSubset
<1>3. PICK x \in T : SumOver(f, T) # f[x] + SumOver(f, T \ {x})
  OBVIOUS
<1> DEFINE p == Chosen(T)
<1>4. p \in T
  BY ChosenIsMember
<1>5. ASSUME NEW U \in SUBSET T
      PROVE  /\ IsFiniteSet(U) /\ \A y \in U : f[y] \in Int
             /\ SumOver(f, U) \in Int
  BY FS_Subset, SumType
<1>6. SumOver(f, T) = f[p] + SumOver(f, T \ {p})
  BY <1>5, SumChosen
<1>7. x # p
  BY <1>3, <1>6
<1>8. /\ SumOver(f, T \ {p}) = f[x] + SumOver(f, (T \ {p}) \ {x})
      /\ SumOver(f, T \ {x}) = f[p] + SumOver(f, (T \ {x}) \ {p})
  <2>1. T \ {p} \notin B /\ T \ {x} \notin B
    <3>1. T \ {p} # T /\ T \ {x} # T /\ T \ {p} \in SUBSET T /\ T \ {x} \in SUBSET T
      BY <1>3, <1>4
    <3> HIDE DEF B, p
    <3> QED BY <3>1, <1>2
  <2>2. T \ {p} \in SUBSET S /\ T \ {x} \in SUBSET S
    OBVIOUS
  <2>3. x \in T \ {p} /\ p \in T \ {x}
    BY <1>4, <1>7
  <2> QED BY <2>1, <2>2, <2>3
<1>9. (T \ {p}) \ {x} = (T \ {x}) \ {p}
  OBVIOUS
<1> DEFINE r == SumOver(f, (T \ {p}) \ {x})
<1>10. f[x] \in Int /\ f[p] \in Int /\ r \in Int
  BY <1>4, <1>5
<1>11. /\ SumOver(f, T) = f[p] + (f[x] + r)
       /\ SumOver(f, T \ {x}) = f[p] + r
  BY <1>6, <1>8, <1>9
<1> HIDE DEF p, r
<1>12. f[p] + (f[x] + r) = f[x] + (f[p] + r)
  BY <1>10
<1> QED BY <1>3, <1>11, <1>12

(* The sum of a set is that of a part and that of the rest.                *)
LEMMA SumSplit ==
  ASSUME NEW f, NEW S, IsFiniteSet(S), \A x \in S : f[x] \in Int,
         NEW A, A \subseteq S
  PROVE  SumOver(f, S) = SumOver(f, A) + SumOver(f, S \ A)
<1> DEFINE B == {T \in SUBSET S : SumOver(f, S) # SumOver(f, T) + SumOver(f, S \ T)}
<1>0. ASSUME NEW U \in SUBSET S
      PROVE  IsFiniteSet(U) /\ (\A y \in U : f[y] \in Int) /\ SumOver(f, U) \in Int
  BY FS_Subset, SumType
<1>1. SUFFICES ASSUME B # {} PROVE FALSE
  OBVIOUS
<1>2. PICK T \in B : \A U \in SUBSET T : U \in B => U = T
  <2> HIDE DEF B
  <2>1. B \subseteq SUBSET S
    BY DEF B
  <2> QED BY <1>1, <2>1, MinimalSubset
<1>3. T # {}
  <2>1. SUFFICES ASSUME T = {} PROVE FALSE
    OBVIOUS
  <2>2. S \ T = S /\ SumOver(f, T) = 0 /\ SumOver(f, S) \in Int
    BY <1>0, <2>1, SumEmpty
  <2> QED BY <2>2
<1>4. PICK x : x \in T
  BY <1>3
<1> DEFINE U == T \ {x}
<1>5. SumOver(f, S) = SumOver(f, U) + SumOver(f, S \ U)
  <2>1. U \in SUBSET T /\ U # T /\ U \in SUBSET S
    BY <1>4
  <2>2. U \notin B
    <3> HIDE DEF B, U
    <3> QED BY <1>2, <2>1
  <2> QED BY <2>1, <2>2
<1>6. SumOver(f, T) = f[x] + SumOver(f, U)
  BY <1>0, <1>4, SumTakeOut
<1>7. SumOver(f, S \ U) = f[x] + SumOver(f, S \ T)
  <2>1. x \in S \ U /\ (S \ U) \ {x} = S \ T /\ S \ U \in SUBSET S
    BY <1>4
  <2> HIDE DEF U
  <2>2. SumOver(f, S \ U) = f[x] + SumOver(f, (S \ U) \ {x})
    BY <1>0, <2>1, SumTakeOut
  <2> QED BY <2>1, <2>2
<1>8. /\ f[x] \in Int /\ SumOver(f, U) \in Int /\ SumOver(f, S \ T) \in Int
      /\ SumOver(f, S) # SumOver(f, T) + SumOver(f, S \ T)
  BY <1>0, <1>4
<1> HIDE DEF U, B
<1> QED BY <1>5, <1>6, <1>7, <1>8

(* Functions that agree on a set have one sum over it.                     *)
LEMMA SumsAgree ==
  ASSUME NEW f, NEW g, NEW S, IsFiniteSet(S),
         \A x \in S : f[x] \in Int /\ g[x] = f[x]
  PROVE  SumOver(g, S) = SumOver(f, S)
<1> DEFINE B == {T \in SUBSET S : SumOver(g, T) # SumOver(f, T)}
<1>1. SUFFICES ASSUME B # {} PROVE FALSE
  OBVIOUS
<1>2. PICK T \in B : \A U \in SUBSET T : U \in B => U = T
  <2> HIDE DEF B
  <2>1. B \subseteq SUBSET S
    BY DEF B
  <2> QED BY <1>1, <2>1, MinimalSubset
<1>3. T # {}
  <2>1. SumOver(f, {}) = 0 /\ SumOver(g, {}) = 0
    BY SumEmpty
  <2> QED BY <2>1
<1>4. PICK x : x \in T
  BY <1>3
<1> DEFINE U == T \ {x}
<1>5. SumOver(g, U) = SumOver(f, U)
  <2>1. U \in SUBSET T /\ U # T /\ U \in SUBSET S
    BY <1>4
  <2>2. U \notin B
    <3> HIDE DEF B, U
    <3> QED BY <1>2, <2>1
  <2> QED BY <2>1, <2>2
<1>6. IsFiniteSet(T) /\ \A y \in T : f[y] \in Int /\ g[y] = f[y] /\ g[y] \in Int
  BY FS_Subset
<1>7. SumOver(f, T) = f[x] + SumOver(f, U)
  BY <1>4, <1>6, SumTakeOut
<1>8. SumOver(g, T) = g[x] + SumOver(g, U)
  BY <1>4, <1>6, SumTakeOut
<1> QED BY <1>4, <1>5, <1>6, <1>7, <1>8

(* If all values are below a limit, so is their mean.                      *)
LEMMA MeanIsReached ==
  ASSUME NEW f, NEW S, IsFiniteSet(S), S # {}, \A x \in S : f[x] \in Int,
         NEW limit \in Int, SumOver(f, S) >= limit * Cardinality(S)
  PROVE  \E x \in S : f[x] >= limit
<1> DEFINE Below(T) == SumOver(f, T) < limit * Cardinality(T)
           B == {T \in SUBSET S : T # {} /\ ~ Below(T)}
<1>1. SUFFICES ASSUME \A x \in S : f[x] < limit PROVE FALSE
  OBVIOUS
<1>2. ASSUME NEW T \in SUBSET S
      PROVE  /\ IsFiniteSet(T) /\ Cardinality(T) \in Nat
             /\ \A x \in T : f[x] \in Int
             /\ SumOver(f, T) \in Int
  BY FS_Subset, FS_CardinalityType, SumType
<1>3. S \in B
  <2>1. ~ Below(S)
    <3>1. SumOver(f, S) \in Int /\ Cardinality(S) \in Nat
      BY <1>2
    <3> DEFINE m == limit * Cardinality(S)
    <3>2. m \in Int
      BY <3>1
    <3> HIDE DEF m
    <3> QED BY <3>1, <3>2 DEF m
  <2> QED BY <2>1
<1>4. PICK T \in B : \A U \in SUBSET T : U \in B => U = T
  <2> HIDE DEF B
  <2>1. B \subseteq SUBSET S
    BY DEF B
  <2> QED BY <1>3, <2>1, MinimalSubset
<1>5. T \in SUBSET S /\ T # {} /\ ~ Below(T)
  OBVIOUS
<1>6. PICK x : x \in T
  BY <1>5
<1> DEFINE U == T \ {x}
<1>7. /\ SumOver(f, T) = f[x] + SumOver(f, U)
      /\ Cardinality(T) = Cardinality(U) + 1
      /\ U \in SUBSET S /\ U \in SUBSET T /\ U # T
  <2>1. SumOver(f, T) = f[x] + SumOver(f, U)
    BY <1>2, <1>5, <1>6, SumTakeOut
  <2>2. Cardinality(U) = Cardinality(T) - 1
    BY <1>2, <1>5, <1>6, FS_RemoveElement
  <2>3. U \in SUBSET S /\ U \in SUBSET T /\ U # T
    BY <1>5, <1>6
  <2> QED BY <2>1, <2>2, <2>3, <1>2, <1>5
<1> HIDE DEF U, B
<1>8. f[x] \in Int /\ f[x] < limit
  BY <1>1, <1>5, <1>6
<1>9. SumOver(f, U) <= limit * Cardinality(U)
  <2>1. CASE U = {}
    <3>1. SumOver(f, U) = 0 /\ Cardinality(U) = 0
      BY <2>1, SumEmpty, FS_EmptySet
    <3> QED BY <3>1
  <2>2. CASE U # {}
    <3>1. Below(U)
      BY <2>2, <1>4, <1>7 DEF B
    <3> DEFINE m == limit * Cardinality(U)
    <3>2. m \in Int /\ SumOver(f, U) \in Int
      BY <1>2, <1>7
    <3>3. SumOver(f, U) < m
      BY <3>1
    <3> HIDE DEF m
    <3>4. SumOver(f, U) <= m
      BY <3>2, <3>3
    <3> QED BY <3>4 DEF m
  <2> QED BY <2>1, <2>2
<1>10. Below(T)
  <2> DEFINE n == Cardinality(U)  s == SumOver(f, U)
  <2>1. n \in Nat /\ s \in Int
    BY <1>2, <1>7
  <2>2. limit * (n + 1) = limit * n + limit /\ limit * n \in Int
    BY <2>1
  <2>3. s <= limit * n
    BY <1>9
  <2> HIDE DEF n, s
  <2>4. f[x] + s < limit * (n + 1)
    BY <1>8, <2>1, <2>2, <2>3
  <2> QED BY <1>7, <2>4 DEF n, s
<1> QED BY <1>5, <1>10

(* A sum drops when one of its values does.                                *)
LEMMA SumDrops ==
  ASSUME NEW f, NEW g, NEW S, IsFiniteSet(S),
         \A x \in S : f[x] \in Int /\ g[x] \in Int,
         NEW e \in S, g[e] < f[e], \A x \in S \ {e} : g[x] = f[x]
  PROVE  SumOver(g, S) < SumOver(f, S)
<1>1. SumOver(f, S) = f[e] + SumOver(f, S \ {e})
  BY SumTakeOut
<1>2. SumOver(g, S) = g[e] + SumOver(g, S \ {e})
  BY SumTakeOut
<1>3. /\ IsFiniteSet(S \ {e}) /\ \A x \in S \ {e} : f[x] \in Int /\ g[x] = f[x]
  BY FS_Subset
<1>4. SumOver(g, S \ {e}) = SumOver(f, S \ {e}) /\ SumOver(f, S \ {e}) \in Int
  BY <1>3, SumsAgree, SumType
<1> QED BY <1>1, <1>2, <1>4

(* It is no greater when none of its values is.                            *)
LEMMA SumAtMost ==
  ASSUME NEW f, NEW g, NEW S, IsFiniteSet(S),
         \A x \in S : f[x] \in Int /\ g[x] \in Int /\ g[x] <= f[x]
  PROVE  SumOver(g, S) <= SumOver(f, S)
<1> DEFINE B == {T \in SUBSET S : ~ (SumOver(g, T) <= SumOver(f, T))}
<1>0. ASSUME NEW U \in SUBSET S
      PROVE  /\ IsFiniteSet(U) /\ \A x \in U : f[x] \in Int /\ g[x] \in Int
             /\ SumOver(f, U) \in Int /\ SumOver(g, U) \in Int
  BY FS_Subset, SumType
<1>1. SUFFICES ASSUME B # {} PROVE FALSE
  OBVIOUS
<1>2. PICK T \in B : \A U \in SUBSET T : U \in B => U = T
  <2> HIDE DEF B
  <2>1. B \subseteq SUBSET S
    BY DEF B
  <2> QED BY <1>1, <2>1, MinimalSubset
<1>3. PICK x : x \in T
  <2>1. SumOver(f, {}) = 0 /\ SumOver(g, {}) = 0
    BY SumEmpty
  <2>2. T # {}
    BY <2>1
  <2> QED BY <2>2
<1> DEFINE U == T \ {x}
<1>4. SumOver(g, U) <= SumOver(f, U) /\ SumOver(f, U) \in Int /\ SumOver(g, U) \in Int
  <2>1. U \in SUBSET T /\ U # T /\ U \in SUBSET S
    BY <1>3
  <2>2. U \notin B
    <3> HIDE DEF B, U
    <3> QED BY <1>2, <2>1
  <2> QED BY <1>0, <2>1, <2>2
<1>5. SumOver(f, T) = f[x] + SumOver(f, U)
  BY <1>0, <1>3, SumTakeOut
<1>6. SumOver(g, T) = g[x] + SumOver(g, U)
  BY <1>0, <1>3, SumTakeOut
<1>7. f[x] \in Int /\ g[x] \in Int /\ g[x] <= f[x] /\ ~ (SumOver(g, T) <= SumOver(f, T))
  BY <1>3
<1> HIDE DEF U, B
<1> QED BY <1>4, <1>5, <1>6, <1>7

(* Natural numbers have a natural sum.                                     *)
LEMMA SumOfNats ==
  ASSUME NEW f, NEW S, IsFiniteSet(S), \A x \in S : f[x] \in Nat
  PROVE  SumOver(f, S) \in Nat
<1> DEFINE B == {T \in SUBSET S : SumOver(f, T) \notin Nat}
<1>1. SUFFICES ASSUME B # {} PROVE FALSE
  OBVIOUS
<1>2. PICK T \in B : \A U \in SUBSET T : U \in B => U = T
  <2> HIDE DEF B
  <2>1. B \subseteq SUBSET S
    BY DEF B
  <2> QED BY <1>1, <2>1, MinimalSubset
<1>3. PICK x : x \in T
  <2>1. T # {}
    BY SumEmpty
  <2> QED BY <2>1
<1>4. SumOver(f, T \ {x}) \in Nat
  <2>1. T \ {x} \in SUBSET T /\ T \ {x} # T /\ T \ {x} \in SUBSET S
    BY <1>3
  <2>2. T \ {x} \notin B
    <3> HIDE DEF B
    <3> QED BY <1>2, <2>1
  <2> QED BY <2>1, <2>2
<1>5. SumOver(f, T) = f[x] + SumOver(f, T \ {x}) /\ f[x] \in Nat
  <2>1. IsFiniteSet(T) /\ \A y \in T : f[y] \in Int
    BY FS_Subset
  <2> QED BY <1>3, <2>1, SumTakeOut
<1> QED BY <1>4, <1>5
=============================================================================
