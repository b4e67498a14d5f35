----------------------------- MODULE SumLemmas -----------------------------
(***************************************************************************)
(* Sums over finite sets, as Mandate takes them from the folds: what is to *)
(* be added is a function, not an operator, so that the provers can put    *)
(* one sum for another.                                                    *)
(***************************************************************************)
EXTENDS FiniteSetsExt, FiniteSetTheorems, TLAPS

SumOver(f, S) == MapThenSumSet(LAMBDA x : f[x], S)

\* The element the fold takes out first, and one turn of the fold.
Pick(s) == CHOOSE x \in s : TRUE
Turn(f, g, s) == IF s = {} THEN 0 ELSE f[Pick(s)] + g[s \ {Pick(s)}]

\* g is the fold of f over the subsets of S.
Folds(g, f, S) == g = [s \in SUBSET S |-> Turn(f, g, s)]
TheFold(f, S) == CHOOSE g : Folds(g, f, S)

\* A sum is the value its fold has at the whole set.
LEMMA SumIsFold ==
    ASSUME NEW f, NEW S
    PROVE  SumOver(f, S) = TheFold(f, S)[S]
BY DEF SumOver, MapThenSumSet, MapThenFoldSet, TheFold, Folds, Turn, Pick


\* Induction over the subsets of a finite set: Good holds those of which the
\* claim is true.
LEMMA SubsetsAreGood ==
    ASSUME NEW S, IsFiniteSet(S), NEW Good,
           \A T \in SUBSET S :
              (\A U \in SUBSET T : U # T => U \in Good) => T \in Good
    PROVE  \A T \in SUBSET S : T \in Good
<1> DEFINE Bad == {T \in SUBSET S : T \notin Good}
<1> SUFFICES ASSUME Bad # {} PROVE FALSE
  OBVIOUS
<1>1. IsWellFoundedOn(StrictSubsetOrdering(S), SUBSET S)
  <2>1. FiniteSubsetsOf(S) = SUBSET S
    BY FS_FiniteSubsetsOfFinite
  <2>2. IsWellFoundedOn(StrictSubsetOrdering(S), FiniteSubsetsOf(S))
    BY FS_StrictSubsetOrderingWellFounded
  <2> QED BY <2>1, <2>2
<1>2. \E T \in Bad : \A U \in Bad : ~ (<<U, T>> \in StrictSubsetOrdering(S))
  <2>1. Bad \subseteq SUBSET S
    OBVIOUS
  <2> HIDE DEF Bad
  <2> QED BY <1>1, <2>1, WFMin
<1>3. PICK T \in Bad : \A U \in Bad : <<U, T>> \notin StrictSubsetOrdering(S)
  BY <1>2
<1>4. T \in SUBSET S
  BY <1>3
<1>5. ASSUME NEW U \in SUBSET T, U # T PROVE U \in Good
  <2>1. U \in SUBSET S
    BY <1>4
  <2>2. <<U, T>> \in StrictSubsetOrdering(S)
    BY <1>4, <1>5, <2>1 DEF StrictSubsetOrdering
  <2> QED BY <1>3, <2>1, <2>2
<1> QED BY <1>3, <1>4, <1>5

-----------------------------------------------------------------------------
(* The fold.                                                               *)

\* What is picked is a member: the rest is a smaller set.
LEMMA PickIsIn ==
    ASSUME NEW s, s # {}
    PROVE  /\ Pick(s) \in s
           /\ s \ {Pick(s)} \in SUBSET s
           /\ s \ {Pick(s)} # s
<1>1. Pick(s) \in s
  BY DEF Pick
<1> QED BY <1>1

\* Two folds of one function agree where both are defined.
LEMMA FoldsAgree ==
    ASSUME NEW S, IsFiniteSet(S), NEW f, NEW T \in SUBSET S, NEW U \in SUBSET S,
           NEW g, NEW h, Folds(g, f, T), Folds(h, f, U)
    PROVE  \A s \in SUBSET T : s \in SUBSET U => g[s] = h[s]
<1> DEFINE Good == {s \in SUBSET S : s \in SUBSET T /\ s \in SUBSET U
                                        => g[s] = h[s]}
<1>1. ASSUME NEW s \in SUBSET S, \A r \in SUBSET s : r # s => r \in Good
      PROVE  s \in Good
  <2> SUFFICES ASSUME s \in SUBSET T, s \in SUBSET U PROVE g[s] = h[s]
    OBVIOUS
  <2>1. g[s] = Turn(f, g, s) /\ h[s] = Turn(f, h, s)
    BY DEF Folds
  <2>2. CASE s = {}
    BY <2>1, <2>2 DEF Turn
  <2>3. CASE s # {}
    <3> DEFINE r == s \ {Pick(s)}
    <3>1. r \in SUBSET s /\ r # s
      BY <2>3, PickIsIn
    <3>2. r \in SUBSET T /\ r \in SUBSET U /\ r \in Good
      BY <1>1, <3>1
    <3>3. g[r] = h[r]
      BY <3>2
    <3> QED BY <2>1, <3>3 DEF Turn
  <2> QED BY <2>2, <2>3
<1>2. \A s \in SUBSET S : s \in Good
  <2> HIDE DEF Good
  <2> QED BY <1>1, SubsetsAreGood
<1> QED BY <1>2

\* There is a fold over every finite set.
LEMMA FoldExists ==
    ASSUME NEW S, IsFiniteSet(S), NEW f
    PROVE  \A T \in SUBSET S : \E g : Folds(g, f, T)
<1> DEFINE Good == {T \in SUBSET S : \E g : Folds(g, f, T)}
<1>1. ASSUME NEW T \in SUBSET S, \A U \in SUBSET T : U # T => U \in Good
      PROVE  \E g : Folds(g, f, T)
  <2> DEFINE rest(s) == s \ {Pick(s)}
             h == [s \in SUBSET T |->
                     IF s = {} THEN 0
                     ELSE f[Pick(s)] + TheFold(f, rest(s))[rest(s)]]
  <2>1. ASSUME NEW U \in SUBSET T, U # T PROVE Folds(TheFold(f, U), f, U)
    <3>1. \E g : Folds(g, f, U)
      BY <1>1, <2>1
    <3> QED BY <3>1 DEF TheFold
  <2>2. ASSUME NEW s \in SUBSET T, s # {}
        PROVE  h[rest(s)] = TheFold(f, rest(s))[rest(s)]
    <3>1. rest(s) \in SUBSET T /\ rest(s) # T
      <4>1. Pick(s) \in s
        BY <2>2, PickIsIn
      <4> QED BY <4>1
    <3>2. Folds(TheFold(f, rest(s)), f, rest(s))
      BY <2>1, <3>1
    <3>3. TheFold(f, rest(s))[rest(s)]
             = Turn(f, TheFold(f, rest(s)), rest(s))
      <4>1. rest(s) \in SUBSET rest(s)
        OBVIOUS
      <4> HIDE DEF rest
      <4> QED BY <3>2, <4>1 DEF Folds
    <3>4. CASE rest(s) = {}
      BY <3>1, <3>3, <3>4 DEF Turn
    <3>5. CASE rest(s) # {}
      <4> DEFINE r == rest(s)
                 q == rest(r)
      <4>1. q \in SUBSET r /\ q \in SUBSET T /\ q # T
        <5>1. Pick(r) \in r
          BY <3>5, PickIsIn
        <5> QED BY <3>1, <5>1
      <4>2. Folds(TheFold(f, q), f, q)
        BY <2>1, <4>1
      <4>3. TheFold(f, r)[q] = TheFold(f, q)[q]
        <5>1. r \in SUBSET S /\ q \in SUBSET S /\ q \in SUBSET q
          BY <3>1, <4>1
        <5>2. Folds(TheFold(f, r), f, r)
          BY <3>2
        <5> HIDE DEF r, q
        <5> QED BY <4>1, <4>2, <5>1, <5>2, FoldsAgree
      <4>4. h[r] = f[Pick(r)] + TheFold(f, q)[q]
        BY <3>1, <3>5
      <4>5. TheFold(f, r)[r] = f[Pick(r)] + TheFold(f, r)[q]
        BY <3>3, <3>5 DEF Turn
      <4> QED BY <4>3, <4>4, <4>5
    <3> QED BY <3>4, <3>5
  <2>3. ASSUME NEW s \in SUBSET T PROVE h[s] = Turn(f, h, s)
    <3>1. CASE s = {}
      BY <3>1 DEF Turn
    <3>2. CASE s # {}
      BY <2>2, <3>2 DEF Turn
    <3> QED BY <3>1, <3>2
  <2>4. h = [s \in SUBSET T |-> Turn(f, h, s)]
    <3>1. h = [s \in SUBSET T |-> h[s]]
      OBVIOUS
    <3> HIDE DEF h
    <3> QED BY <2>3, <3>1
  <2> HIDE DEF h
  <2> QED BY <2>4 DEF Folds
<1>2. \A T \in SUBSET S : T \in Good
  <2>1. \A T \in SUBSET S :
           (\A U \in SUBSET T : U # T => U \in Good) => T \in Good
    BY <1>1
  <2> HIDE DEF Good
  <2> QED BY <2>1, SubsetsAreGood
<1> QED BY <1>2

\* The fold chosen is a fold.
LEMMA TheFoldFolds ==
    ASSUME NEW S, IsFiniteSet(S), NEW f
    PROVE  Folds(TheFold(f, S), f, S)
<1>1. \E g : Folds(g, f, S)
  BY FoldExists
<1> QED BY <1>1 DEF TheFold

-----------------------------------------------------------------------------
(* The sum.                                                                *)

\* The sum over the empty set.
LEMMA SumOfNothing ==
    ASSUME NEW f
    PROVE  SumOver(f, {}) = 0
<1>1. Folds(TheFold(f, {}), f, {})
  BY TheFoldFolds, FS_EmptySet
<1>2. TheFold(f, {})[{}] = Turn(f, TheFold(f, {}), {})
  BY <1>1 DEF Folds
<1> QED BY <1>2, SumIsFold DEF Turn

\* One turn of the sum.
LEMMA SumPicks ==
    ASSUME NEW S, IsFiniteSet(S), S # {}, NEW f
    PROVE  SumOver(f, S) = f[Pick(S)] + SumOver(f, S \ {Pick(S)})
<1> DEFINE R == S \ {Pick(S)}
<1>1. R \in SUBSET S /\ IsFiniteSet(R)
  BY FS_Subset
<1>2. Folds(TheFold(f, S), f, S) /\ Folds(TheFold(f, R), f, R)
  BY <1>1, TheFoldFolds
<1>3. TheFold(f, S)[S] = f[Pick(S)] + TheFold(f, S)[R]
  <2>1. TheFold(f, S)[S] = Turn(f, TheFold(f, S), S)
    BY <1>2 DEF Folds
  <2> QED BY <2>1 DEF Turn
<1>4. TheFold(f, S)[R] = TheFold(f, R)[R]
  <2>1. R \in SUBSET R /\ S \in SUBSET S
    OBVIOUS
  <2> HIDE DEF R
  <2> QED BY <1>1, <1>2, <2>1, FoldsAgree
<1> QED BY <1>3, <1>4, SumIsFold

\* A sum of numbers is a number.
LEMMA SumIsInt ==
    ASSUME NEW S, IsFiniteSet(S), NEW f, \A x \in S : f[x] \in Int
    PROVE  \A T \in SUBSET S : SumOver(f, T) \in Int
<1> DEFINE Good == {T \in SUBSET S : SumOver(f, T) \in Int}
<1>1. ASSUME NEW T \in SUBSET S, \A U \in SUBSET T : U # T => U \in Good
      PROVE  SumOver(f, T) \in Int
  <2>1. IsFiniteSet(T)
    BY FS_Subset
  <2>2. CASE T = {}
    BY <2>2, SumOfNothing
  <2>3. CASE T # {}
    <3>1. Pick(T) \in T /\ T \ {Pick(T)} \in SUBSET T /\ T \ {Pick(T)} # T
      BY <2>3, PickIsIn
    <3>2. SumOver(f, T \ {Pick(T)}) \in Int /\ f[Pick(T)] \in Int
      BY <1>1, <3>1
    <3> QED BY <2>1, <2>3, <3>2, SumPicks
  <2> QED BY <2>2, <2>3
<1>2. \A T \in SUBSET S : T \in Good
  <2>1. \A T \in SUBSET S :
           (\A U \in SUBSET T : U # T => U \in Good) => T \in Good
    BY <1>1
  <2> HIDE DEF Good
  <2> QED BY <2>1, SubsetsAreGood
<1> QED BY <1>2

\* Any element may be taken out first.
LEMMA SumTakesOut ==
    ASSUME NEW S, IsFiniteSet(S), NEW f, \A x \in S : f[x] \in Int
    PROVE  \A T \in SUBSET S : \A x \in T :
              SumOver(f, T) = f[x] + SumOver(f, T \ {x})
<1> DEFINE Good == {T \in SUBSET S : \A x \in T :
                       SumOver(f, T) = f[x] + SumOver(f, T \ {x})}
<1>1. ASSUME NEW T \in SUBSET S, \A U \in SUBSET T : U # T => U \in Good,
             NEW x \in T
      PROVE  SumOver(f, T) = f[x] + SumOver(f, T \ {x})
  <2> DEFINE y == Pick(T)
  <2>1. IsFiniteSet(T) /\ y \in T
    BY FS_Subset, PickIsIn
  <2>2. SumOver(f, T) = f[y] + SumOver(f, T \ {y})
    BY <2>1, SumPicks
  <2> HIDE DEF y
  <2>3. CASE x = y
    BY <2>2, <2>3
  <2>4. CASE x # y
    <3>1. /\ T \ {x} \in SUBSET T /\ T \ {x} # T /\ y \in T \ {x}
          /\ T \ {y} \in SUBSET T /\ T \ {y} # T /\ x \in T \ {y}
      BY <2>1, <2>4
    <3>2. /\ SumOver(f, T \ {y}) = f[x] + SumOver(f, (T \ {y}) \ {x})
          /\ SumOver(f, T \ {x}) = f[y] + SumOver(f, (T \ {x}) \ {y})
      BY <1>1, <3>1
    <3>3. (T \ {y}) \ {x} = (T \ {x}) \ {y}
      OBVIOUS
    <3>4. SumOver(f, (T \ {x}) \ {y}) \in Int /\ f[x] \in Int /\ f[y] \in Int
      BY <2>1, SumIsInt
    <3>5. \A a, b, c \in Int : a + (b + c) = b + (a + c)
      OBVIOUS
    <3> DEFINE rest == SumOver(f, (T \ {x}) \ {y})
    <3>6. f[x] + (f[y] + rest) = f[y] + (f[x] + rest)
      BY <3>4, <3>5, Zenon
    <3>7. SumOver(f, T) = f[y] + (f[x] + rest)
      BY <2>2, <3>2, <3>3, Zenon
    <3>8. f[x] + SumOver(f, T \ {x}) = f[x] + (f[y] + rest)
      BY <3>2, Zenon
    <3> QED BY <3>6, <3>7, <3>8, Zenon
  <2> QED BY <2>3, <2>4
<1>2. \A T \in SUBSET S : T \in Good
  <2>1. \A T \in SUBSET S :
           (\A U \in SUBSET T : U # T => U \in Good) => T \in Good
    BY <1>1
  <2> HIDE DEF Good
  <2> QED BY <2>1, SubsetsAreGood
<1> QED BY <1>2

\* A sum only looks at the elements of the set.
LEMMA SumsAgree ==
    ASSUME NEW S, IsFiniteSet(S), NEW f, NEW g, \A x \in S : f[x] = g[x]
    PROVE  \A T \in SUBSET S : SumOver(f, T) = SumOver(g, T)
<1> DEFINE Good == {T \in SUBSET S : SumOver(f, T) = SumOver(g, T)}
<1>1. ASSUME NEW T \in SUBSET S, \A U \in SUBSET T : U # T => U \in Good
      PROVE  SumOver(f, T) = SumOver(g, T)
  <2>1. IsFiniteSet(T)
    BY FS_Subset
  <2>2. CASE T = {}
    BY <2>2, SumOfNothing
  <2>3. CASE T # {}
    <3>1. Pick(T) \in T /\ T \ {Pick(T)} \in SUBSET T /\ T \ {Pick(T)} # T
      BY <2>3, PickIsIn
    <3>2. SumOver(f, T \ {Pick(T)}) = SumOver(g, T \ {Pick(T)})
      BY <1>1, <3>1
    <3>3. f[Pick(T)] = g[Pick(T)]
      BY <3>1
    <3> QED BY <2>1, <2>3, <3>2, <3>3, SumPicks
  <2> QED BY <2>2, <2>3
<1>2. \A T \in SUBSET S : T \in Good
  <2>1. \A T \in SUBSET S :
           (\A U \in SUBSET T : U # T => U \in Good) => T \in Good
    BY <1>1
  <2> HIDE DEF Good
  <2> QED BY <2>1, SubsetsAreGood
<1> QED BY <1>2

\* One summand changes, and the sum by as much.
LEMMA SumChangesWithOne ==
    ASSUME NEW S, IsFiniteSet(S), NEW f, NEW g, NEW x \in S,
           \A y \in S : f[y] \in Int /\ g[y] \in Int,
           \A y \in S : y # x => g[y] = f[y]
    PROVE  SumOver(g, S) = SumOver(f, S) + g[x] - f[x]
<1> DEFINE R == S \ {x}
<1>1. R \in SUBSET S /\ IsFiniteSet(R) /\ S \in SUBSET S
  BY FS_Subset
<1>2. /\ SumOver(f, S) = f[x] + SumOver(f, R)
      /\ SumOver(g, S) = g[x] + SumOver(g, R)
  BY <1>1, SumTakesOut
<1>3. SumOver(f, R) = SumOver(g, R)
  <2>1. R \in SUBSET R /\ \A y \in R : f[y] = g[y]
    OBVIOUS
  <2> HIDE DEF R
  <2> QED BY <1>1, <2>1, SumsAgree
<1>4. SumOver(f, R) \in Int /\ f[x] \in Int /\ g[x] \in Int
  BY <1>1, SumIsInt
<1> QED BY <1>2, <1>3, <1>4

\* An element more, and the sum is more by its summand.
LEMMA SumPutsIn ==
    ASSUME NEW S, IsFiniteSet(S), NEW f, NEW x, x \notin S,
           \A y \in S \cup {x} : f[y] \in Int
    PROVE  SumOver(f, S \cup {x}) = SumOver(f, S) + f[x]
<1> DEFINE T == S \cup {x}
<1>1. IsFiniteSet(T) /\ T \in SUBSET T /\ x \in T /\ S \in SUBSET S
  BY FS_AddElement
<1>2. SumOver(f, T) = f[x] + SumOver(f, T \ {x})
  <2>1. \A y \in T : f[y] \in Int
    OBVIOUS
  <2> HIDE DEF T
  <2> QED BY <1>1, <2>1, SumTakesOut
<1>3. T \ {x} = S
  OBVIOUS
<1>4. SumOver(f, S) \in Int /\ f[x] \in Int
  BY <1>1, SumIsInt
<1>5. \A a, b \in Int : a + b = b + a
  OBVIOUS
<1> QED BY <1>2, <1>3, <1>4, <1>5, Zenon

\* Nothing but zeros adds up to zero.
LEMMA SumOfZeros ==
    ASSUME NEW S, IsFiniteSet(S), NEW f, \A x \in S : f[x] = 0
    PROVE  SumOver(f, S) = 0
<1> DEFINE Good == {T \in SUBSET S : SumOver(f, T) = 0}
<1>1. ASSUME NEW T \in SUBSET S, \A U \in SUBSET T : U # T => U \in Good
      PROVE  SumOver(f, T) = 0
  <2>1. IsFiniteSet(T)
    BY FS_Subset
  <2>2. CASE T = {}
    BY <2>2, SumOfNothing
  <2>3. CASE T # {}
    <3>1. Pick(T) \in T /\ T \ {Pick(T)} \in SUBSET T /\ T \ {Pick(T)} # T
      BY <2>3, PickIsIn
    <3>2. SumOver(f, T \ {Pick(T)}) = 0 /\ f[Pick(T)] = 0
      BY <1>1, <3>1
    <3> QED BY <2>1, <2>3, <3>2, SumPicks
  <2> QED BY <2>2, <2>3
<1>2. \A T \in SUBSET S : T \in Good
  <2>1. \A T \in SUBSET S :
           (\A U \in SUBSET T : U # T => U \in Good) => T \in Good
    BY <1>1
  <2> HIDE DEF Good
  <2> QED BY <2>1, SubsetsAreGood
<1> QED BY <1>2

=============================================================================
