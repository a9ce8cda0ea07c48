------------------------------- MODULE Chips -------------------------------
(***************************************************************************)
(* What the proofs about chips and prizes need: the laws of sums over      *)
(* finite sets, whatever the set, and what the pots of SidePots are,       *)
(* whatever the bets, the folds and the hands; and what the lists of       *)
(* Sorting hold.                                                           *)
(*                                                                         *)
(* MapThenSumSet, and the loop that builds the pots, are recursive         *)
(* functions on subsets, and the library's induction theorem takes an      *)
(* operator; MinimalSet and SubsetInduction state induction over finite    *)
(* sets for a set of subsets instead, and everything here follows from it. *)
(***************************************************************************)
EXTENDS SidePots, Sorting, FiniteSetTheorems, WellFoundedInduction, TLAPS

SumOver(f, S) == MapThenSumSet(LAMBDA u : f[u], S)

(* The recursion MapThenSumSet solves, and its solution.                   *)
Body(f, S, g) ==
  [s \in SUBSET S |-> IF s = {} THEN 0
                      ELSE f[CHOOSE x \in s : TRUE] + g[s \ {CHOOSE x \in s : TRUE}]]
Solves(f, S, g) == g = Body(f, S, g)
Iter(f, S) == CHOOSE g : Solves(f, S, g)

LEMMA Unfold == ASSUME NEW f, NEW S
  PROVE SumOver(f, S) = Iter(f, S)[S]
BY DEF SumOver, MapThenSumSet, MapThenFoldSet, Body, Solves, Iter

(* Every set of subsets of a finite set has a minimal member.              *)
LEMMA MinimalSet == ASSUME NEW S, IsFiniteSet(S), NEW T \in SUBSET SUBSET S, T # {}
  PROVE \E s \in T : \A t \in T : t \subseteq s => t = s
<1>1. IsWellFoundedOn(StrictSubsetOrdering(S), FiniteSubsetsOf(S))
  BY FS_StrictSubsetOrderingWellFounded
<1>2. T \subseteq FiniteSubsetsOf(S)
  BY FS_FiniteSubsetsOfFinite
<1>3. \E x \in T : \A y \in T : ~ (<<y, x>> \in StrictSubsetOrdering(S))
  BY <1>1, <1>2, WFMin
<1>4. PICK x \in T : \A y \in T : ~ (<<y, x>> \in StrictSubsetOrdering(S))
  BY <1>3
<1>5. ASSUME NEW y \in T, y \subseteq x, y # x
      PROVE  FALSE
  <2>1. <<y, x>> \in (SUBSET S) \X (SUBSET S)
    BY <1>4
  <2>2. <<y, x>>[1] = y /\ <<y, x>>[2] = x
    OBVIOUS
  <2>3. <<y, x>> \in StrictSubsetOrdering(S)
    BY <1>5, <2>1, <2>2 DEF StrictSubsetOrdering
  <2> QED
    BY <1>4, <2>3
<1> QED
  BY <1>4, <1>5

(* The recursion has at most one solution.                                 *)
LEMMA Unique == ASSUME NEW f, NEW S, IsFiniteSet(S), NEW g, Solves(f, S, g), NEW h, Solves(f, S, h)
  PROVE g = h
<1> DEFINE T == {s \in SUBSET S : g[s] # h[s]}
<1>1. T = {}
  <2>1. SUFFICES ASSUME T # {} PROVE FALSE
    OBVIOUS
  <2>2. PICK s \in T : \A t \in T : t \subseteq s => t = s
    <3>1. T \in SUBSET SUBSET S
      OBVIOUS
    <3> HIDE DEF T
    <3> QED
      BY <2>1, <3>1, MinimalSet
  <2>3. CASE s = {}
    BY <2>2, <2>3 DEF Solves, Body
  <2>4. CASE s # {}
    <3> DEFINE c == CHOOSE x \in s : TRUE
    <3>1. c \in s
      BY <2>4
    <3> HIDE DEF c
    <3>2. s \ {c} \in SUBSET S /\ s \ {c} # s
      BY <3>1
    <3>3. g[s \ {c}] = h[s \ {c}]
      BY <2>2, <3>2
    <3>4. g[s] = f[c] + g[s \ {c}] /\ h[s] = f[c] + h[s \ {c}]
      BY <2>4 DEF Solves, Body, c
    <3> QED
      BY <2>2, <3>3, <3>4
  <2> QED
    BY <2>3, <2>4
<1>2. /\ g = [s \in SUBSET S |-> g[s]]
      /\ h = [s \in SUBSET S |-> h[s]]
  BY DEF Solves, Body
<1> QED
  BY <1>1, <1>2

(* A solution is one on every subset.                                      *)
LEMMA Restricted == ASSUME NEW f, NEW S, NEW g, Solves(f, S, g), NEW T \in SUBSET S
  PROVE Solves(f, T, [s \in SUBSET T |-> g[s]])
<1> DEFINE h == [s \in SUBSET T |-> g[s]]
<1>1. ASSUME NEW s \in SUBSET T
      PROVE  h[s] = Body(f, T, h)[s]
  <2>1. CASE s = {}
    BY <2>1 DEF Solves, Body
  <2>2. CASE s # {}
    <3> DEFINE c == CHOOSE x \in s : TRUE
    <3>1. s \ {c} \in SUBSET T
      OBVIOUS
    <3>2. g[s] = f[c] + g[s \ {c}]
      BY <2>2 DEF Solves, Body
    <3>3. Body(f, T, h)[s] = f[c] + h[s \ {c}]
      BY <2>2 DEF Body
    <3> QED
      BY <3>1, <3>2, <3>3
  <2> QED
    BY <2>1, <2>2
<1> QED
  BY <1>1 DEF Solves, Body

(* It has one on every finite set: on a smallest set without, it could be  *)
(* put together from those of the smaller sets.                            *)
LEMMA SolutionExists == ASSUME NEW f, NEW S, IsFiniteSet(S)
  PROVE Solves(f, S, Iter(f, S))
<1> DEFINE T == {s \in SUBSET S : ~ \E g : Solves(f, s, g)}
<1>1. T = {}
  <2>1. SUFFICES ASSUME T # {} PROVE FALSE
    OBVIOUS
  <2>2. PICK s \in T : \A t \in T : t \subseteq s => t = s
    <3>1. T \in SUBSET SUBSET S
      OBVIOUS
    <3> HIDE DEF T
    <3> QED
      BY <2>1, <3>1, MinimalSet
  <2>3. ASSUME NEW t \in SUBSET s, t # s
        PROVE  Solves(f, t, Iter(f, t)) /\ IsFiniteSet(t)
    <3>1. IsFiniteSet(t)
      BY FS_Subset
    <3>2. \E g : Solves(f, t, g)
      BY <2>2, <2>3
    <3> QED
      BY <3>1, <3>2 DEF Iter
  <2>4. ASSUME NEW t \in SUBSET s, t # s, NEW r \in SUBSET t
        PROVE  Iter(f, t)[r] = Iter(f, r)[r]
    <3> DEFINE h == [q \in SUBSET r |-> Iter(f, t)[q]]
    <3>1. Solves(f, r, h)
      BY <2>3, <2>4, Restricted
    <3>2. r \in SUBSET s /\ r # s
      BY <2>4
    <3>3. Solves(f, r, Iter(f, r)) /\ IsFiniteSet(r)
      BY <2>3, <3>2
    <3>4. h[r] = Iter(f, t)[r]
      OBVIOUS
    <3> HIDE DEF h
    <3>5. h = Iter(f, r)
      BY <3>1, <3>3, Unique
    <3> QED
      BY <3>4, <3>5
  <2> DEFINE pick(t) == CHOOSE x \in t : TRUE
             k == [t \in SUBSET s |->
                     IF t = {} THEN 0
                     ELSE f[pick(t)] + Iter(f, t \ {pick(t)})[t \ {pick(t)}]]
  <2>5. ASSUME NEW t \in SUBSET s, t # {}
        PROVE  k[t \ {pick(t)}] = Iter(f, t \ {pick(t)})[t \ {pick(t)}]
    <3> DEFINE r == t \ {pick(t)}
    <3>1. r \in SUBSET s /\ r # s
      BY <2>5
    <3>2. Solves(f, r, Iter(f, r))
      BY <2>3, <3>1
    <3>3. CASE r = {}
      BY <3>1, <3>2, <3>3 DEF Solves, Body
    <3>4. CASE r # {}
      <4> DEFINE q == r \ {pick(r)}
      <4>1. Iter(f, r)[r] = f[pick(r)] + Iter(f, r)[q]
        BY <3>2, <3>4 DEF Solves, Body
      <4>2. Iter(f, r)[q] = Iter(f, q)[q]
        BY <2>4, <3>1
      <4>3. k[r] = f[pick(r)] + Iter(f, q)[q]
        BY <3>1, <3>4
      <4> QED
        BY <4>1, <4>2, <4>3
    <3> QED
      BY <3>3, <3>4
  <2>6. ASSUME NEW t \in SUBSET s
        PROVE  k[t] = Body(f, s, k)[t]
    <3>1. CASE t = {}
      BY <3>1 DEF Body
    <3>2. CASE t # {}
      <4>1. k[t] = f[pick(t)] + Iter(f, t \ {pick(t)})[t \ {pick(t)}]
        BY <3>2
      <4>2. Body(f, s, k)[t] = f[pick(t)] + k[t \ {pick(t)}]
        <5> HIDE DEF k
        <5> QED
          BY <3>2 DEF Body
      <4>3. k[t \ {pick(t)}] = Iter(f, t \ {pick(t)})[t \ {pick(t)}]
        BY <2>5, <3>2
      <4> QED
        BY <4>1, <4>2, <4>3
    <3> QED
      BY <3>1, <3>2
  <2>7. k = Body(f, s, k)
    <3>1. /\ k = [t \in SUBSET s |-> k[t]]
          /\ Body(f, s, k) = [t \in SUBSET s |-> Body(f, s, k)[t]]
      BY DEF Body
    <3> HIDE DEF k
    <3> QED
      BY <2>6, <3>1
  <2> QED
    BY <2>2, <2>7 DEF Solves
<1> QED
  BY <1>1 DEF Iter

(* Induction: a set of subsets has S in it when it has a set s whenever it *)
(* has s without any one of its members.                                   *)
LEMMA SubsetInduction ==
  ASSUME NEW S, IsFiniteSet(S), NEW T,
         \A s \in SUBSET S : (\A c \in s : s \ {c} \in T) => s \in T
  PROVE  S \in T
<1> DEFINE Bad == (SUBSET S) \ T
<1>1. Bad = {}
  <2>1. SUFFICES ASSUME Bad # {} PROVE FALSE
    OBVIOUS
  <2>2. PICK s \in Bad : \A t \in Bad : t \subseteq s => t = s
    <3>1. Bad \in SUBSET SUBSET S
      OBVIOUS
    <3> HIDE DEF Bad
    <3> QED
      BY <2>1, <3>1, MinimalSet
  <2>3. \A c \in s : s \ {c} \in T
    BY <2>2
  <2> QED
    BY <2>2, <2>3
<1> QED
  BY <1>1

-----------------------------------------------------------------------------
(* The sum of none, and of one and the rest.                               *)
LEMMA SumOfNone == ASSUME NEW f
  PROVE SumOver(f, {}) = 0
<1>1. Solves(f, {}, Iter(f, {}))
  BY SolutionExists, FS_EmptySet
<1> QED
  BY <1>1, Unfold DEF Solves, Body

LEMMA SumUnfolds == ASSUME NEW f, NEW S, IsFiniteSet(S), S # {}
  PROVE LET c == CHOOSE x \in S : TRUE
        IN  SumOver(f, S) = f[c] + SumOver(f, S \ {c})
<1> DEFINE c == CHOOSE x \in S : TRUE
           R == S \ {c}
           h == [q \in SUBSET R |-> Iter(f, S)[q]]
<1>1. Solves(f, S, Iter(f, S))
  BY SolutionExists
<1>2. IsFiniteSet(R)
  BY FS_Subset
<1>3. Solves(f, R, Iter(f, R))
  BY <1>2, SolutionExists
<1>4. Solves(f, R, h)
  BY <1>1, Restricted
<1>5. Iter(f, S)[S] = f[c] + Iter(f, S)[R]
  BY <1>1 DEF Solves, Body
<1>6. h[R] = Iter(f, S)[R]
  OBVIOUS
<1>7. h = Iter(f, R)
  <2> HIDE DEF h, R
  <2> QED
    BY <1>2, <1>3, <1>4, Unique
<1>8. SumOver(f, S) = Iter(f, S)[S] /\ SumOver(f, R) = Iter(f, R)[R]
  BY Unfold
<1> QED
  BY <1>5, <1>6, <1>7, <1>8

LEMMA SumIsInt ==
  ASSUME NEW S, IsFiniteSet(S), NEW f, \A u \in S : f[u] \in Int
  PROVE  SumOver(f, S) \in Int
<1> DEFINE T == {s \in SUBSET S : SumOver(f, s) \in Int}
<1>1. ASSUME NEW s \in SUBSET S, \A c \in s : s \ {c} \in T
      PROVE  s \in T
  <2>1. CASE s = {}
    BY <2>1, SumOfNone
  <2>2. CASE s # {}
    <3> DEFINE c == CHOOSE x \in s : TRUE
    <3>1. c \in s
      BY <2>2
    <3>2. SumOver(f, s) = f[c] + SumOver(f, s \ {c})
      BY <2>2, SumUnfolds, FS_Subset
    <3> HIDE DEF c
    <3> QED
      BY <1>1, <3>1, <3>2
  <2> QED
    BY <2>1, <2>2
<1>2. S \in T
  <2> HIDE DEF T
  <2> QED
    BY <1>1, SubsetInduction
<1> QED
  BY <1>2

(* The order in which the members are added does not matter.               *)
LEMMA SumRemoves ==
  ASSUME NEW S, IsFiniteSet(S), NEW f, \A u \in S : f[u] \in Int, NEW x \in S
  PROVE  SumOver(f, S) = f[x] + SumOver(f, S \ {x})
<1> DEFINE T == {s \in SUBSET S :
                   \A y \in s : SumOver(f, s) = f[y] + SumOver(f, s \ {y})}
<1>1. ASSUME NEW s \in SUBSET S, \A z \in s : s \ {z} \in T
      PROVE  s \in T
  <2>1. SUFFICES ASSUME NEW y \in s
                 PROVE  SumOver(f, s) = f[y] + SumOver(f, s \ {y})
    OBVIOUS
  <2> DEFINE c == CHOOSE z \in s : TRUE
             r == s \ {c, y}
  <2>2. c \in s
    OBVIOUS
  <2>3. SumOver(f, s) = f[c] + SumOver(f, s \ {c})
    BY SumUnfolds, FS_Subset
  <2>4. CASE y = c
    BY <2>3, <2>4
  <2>5. CASE y # c
    <3> HIDE DEF c
    <3>1. SumOver(f, s \ {c}) = f[y] + SumOver(f, r)
      <4>1. s \ {c} \in T /\ y \in s \ {c} /\ (s \ {c}) \ {y} = r
        BY <1>1, <2>2, <2>5
      <4> QED
        BY <4>1
    <3>2. SumOver(f, s \ {y}) = f[c] + SumOver(f, r)
      <4>1. s \ {y} \in T /\ c \in s \ {y} /\ (s \ {y}) \ {c} = r
        BY <1>1, <2>2, <2>5
      <4> QED
        BY <4>1
    <3>3. SumOver(f, r) \in Int /\ f[y] \in Int /\ f[c] \in Int
      BY <2>2, SumIsInt, FS_Subset
    <3> HIDE DEF r
    <3> QED
      BY <2>3, <3>1, <3>2, <3>3
  <2> QED
    BY <2>4, <2>5
<1>2. S \in T
  <2> HIDE DEF T
  <2> QED
    BY <1>1, SubsetInduction
<1> QED
  BY <1>2

-----------------------------------------------------------------------------
(* Sums are added member by member.                                        *)
LEMMA SumAdds ==
  ASSUME NEW S, IsFiniteSet(S), NEW f, NEW g, NEW h,
         \A u \in S : f[u] \in Int /\ g[u] \in Int /\ h[u] = f[u] + g[u]
  PROVE  SumOver(h, S) = SumOver(f, S) + SumOver(g, S)
<1> DEFINE T == {s \in SUBSET S : SumOver(h, s) = SumOver(f, s) + SumOver(g, s)}
<1>1. ASSUME NEW s \in SUBSET S, \A c \in s : s \ {c} \in T
      PROVE  s \in T
  <2>1. CASE s = {}
    BY <2>1, SumOfNone
  <2>2. CASE s # {}
    <3>1. PICK c : c \in s
      BY <2>2
    <3>2. IsFiniteSet(s) /\ \A u \in s : f[u] \in Int /\ g[u] \in Int /\ h[u] \in Int
      BY FS_Subset
    <3>3. /\ SumOver(f, s) = f[c] + SumOver(f, s \ {c})
          /\ SumOver(g, s) = g[c] + SumOver(g, s \ {c})
          /\ SumOver(h, s) = h[c] + SumOver(h, s \ {c})
      BY <3>1, <3>2, SumRemoves
    <3>4. SumOver(h, s \ {c}) = SumOver(f, s \ {c}) + SumOver(g, s \ {c})
      BY <1>1, <3>1
    <3>5. SumOver(f, s \ {c}) \in Int /\ SumOver(g, s \ {c}) \in Int
      BY <3>2, SumIsInt, FS_Subset
    <3>6. f[c] \in Int /\ g[c] \in Int /\ h[c] = f[c] + g[c]
      BY <3>1
    <3> QED
      BY <3>3, <3>4, <3>5, <3>6
  <2> QED
    BY <2>1, <2>2
<1>2. S \in T
  <2> HIDE DEF T
  <2> QED
    BY <1>1, SubsetInduction
<1> QED
  BY <1>2

(* Members that add nothing can be left out.                               *)
LEMMA SumSkipsZeros ==
  ASSUME NEW S, IsFiniteSet(S), NEW R \in SUBSET S, NEW f, NEW g,
         \A u \in R : f[u] \in Int /\ g[u] = f[u],
         \A u \in S \ R : f[u] = 0
  PROVE  SumOver(f, S) = SumOver(g, R)
<1> DEFINE T == {s \in SUBSET S : SumOver(f, s) = SumOver(g, s \cap R)}
<1>1. ASSUME NEW s \in SUBSET S, \A c \in s : s \ {c} \in T
      PROVE  s \in T
  <2>1. CASE s = {}
    <3>1. s \cap R = {}
      BY <2>1
    <3> QED
      BY <2>1, <3>1, SumOfNone
  <2>2. CASE s # {}
    <3>1. PICK c : c \in s
      BY <2>2
    <3>2. /\ IsFiniteSet(s) /\ IsFiniteSet(s \cap R)
          /\ \A u \in s : f[u] \in Int
          /\ \A u \in s \cap R : g[u] \in Int
      BY FS_Subset
    <3>3. SumOver(f, s) = f[c] + SumOver(f, s \ {c})
      BY <3>1, <3>2, SumRemoves
    <3>4. SumOver(f, s \ {c}) = SumOver(g, (s \ {c}) \cap R)
      BY <1>1, <3>1
    <3>5. CASE c \in R
      <4>1. SumOver(g, s \cap R) = g[c] + SumOver(g, (s \cap R) \ {c})
        BY <3>1, <3>2, <3>5, SumRemoves
      <4>2. SumOver(g, (s \cap R) \ {c}) = SumOver(g, (s \ {c}) \cap R)
        <5>1. (s \cap R) \ {c} = (s \ {c}) \cap R
          OBVIOUS
        <5> QED
          BY <5>1
      <4>3. g[c] = f[c]
        BY <3>5
      <4>4. SumOver(f, s) = SumOver(g, s \cap R)
        BY <3>3, <3>4, <4>1, <4>2, <4>3
      <4> QED
        BY <4>4
    <3>6. CASE c \notin R
      <4>1. SumOver(g, (s \ {c}) \cap R) = SumOver(g, s \cap R)
        <5>1. (s \ {c}) \cap R = s \cap R
          BY <3>6
        <5> QED
          BY <5>1
      <4>2. f[c] = 0
        BY <3>1, <3>6
      <4>3. SumOver(f, s \ {c}) \in Int
        BY <3>2, SumIsInt, FS_Subset
      <4>4. SumOver(f, s) = SumOver(g, s \cap R)
        BY <3>3, <3>4, <4>1, <4>2, <4>3
      <4> QED
        BY <4>4
    <3> QED
      BY <3>5, <3>6
  <2> QED
    BY <2>1, <2>2
<1>2. S \in T
  <2> HIDE DEF T
  <2> QED
    BY <1>1, SubsetInduction
<1>3. S \cap R = R
  OBVIOUS
<1> QED
  BY <1>2, <1>3

LEMMA SumOfOne ==
  ASSUME NEW S, IsFiniteSet(S), NEW x \in S, NEW f, f[x] \in Int,
         \A u \in S \ {x} : f[u] = 0
  PROVE  SumOver(f, S) = f[x]
<1>1. SumOver(f, S) = SumOver(f, {x})
  BY SumSkipsZeros
<1>2. SumOver(f, {x}) = f[x] + SumOver(f, {x} \ {x})
  BY SumRemoves, FS_Singleton
<1>3. SumOver(f, {x} \ {x}) = 0
  <2>1. {x} \ {x} = {}
    OBVIOUS
  <2> QED
    BY <2>1, SumOfNone
<1> QED
  BY <1>1, <1>2, <1>3

(* One member is changed.                                                  *)
LEMMA SumUpdates ==
  ASSUME NEW S, IsFiniteSet(S), NEW f \in [S -> Int], NEW x \in S, NEW d \in Int
  PROVE  SumOver([f EXCEPT ![x] = @ + d], S) = SumOver(f, S) + d
<1> DEFINE g == [u \in S |-> IF u = x THEN d ELSE 0]
           h == [f EXCEPT ![x] = @ + d]
<1>1. \A u \in S : f[u] \in Int /\ g[u] \in Int /\ h[u] = f[u] + g[u]
  OBVIOUS
<1>2. g[x] = d /\ \A u \in S \ {x} : g[u] = 0
  OBVIOUS
<1> HIDE DEF g, h
<1>3. SumOver(h, S) = SumOver(f, S) + SumOver(g, S)
  BY <1>1, SumAdds
<1>4. SumOver(g, S) = d
  BY <1>2, SumOfOne
<1> QED
  BY <1>3, <1>4 DEF h

-----------------------------------------------------------------------------
LEMMA SumIsMonotone ==
  ASSUME NEW S, IsFiniteSet(S), NEW f, NEW g,
         \A u \in S : f[u] \in Int /\ g[u] \in Int /\ f[u] <= g[u]
  PROVE  SumOver(f, S) <= SumOver(g, S)
<1> DEFINE T == {s \in SUBSET S : SumOver(f, s) <= SumOver(g, s)}
<1>1. ASSUME NEW s \in SUBSET S, \A c \in s : s \ {c} \in T
      PROVE  s \in T
  <2>1. CASE s = {}
    BY <2>1, SumOfNone
  <2>2. CASE s # {}
    <3>1. PICK c : c \in s
      BY <2>2
    <3>2. IsFiniteSet(s) /\ \A u \in s : f[u] \in Int /\ g[u] \in Int
      BY FS_Subset
    <3>3. /\ SumOver(f, s) = f[c] + SumOver(f, s \ {c})
          /\ SumOver(g, s) = g[c] + SumOver(g, s \ {c})
      BY <3>1, <3>2, SumRemoves
    <3>4. SumOver(f, s \ {c}) <= SumOver(g, s \ {c})
      BY <1>1, <3>1
    <3>5. SumOver(f, s \ {c}) \in Int /\ SumOver(g, s \ {c}) \in Int
      BY <3>2, SumIsInt, FS_Subset
    <3>6. f[c] \in Int /\ g[c] \in Int /\ f[c] <= g[c]
      BY <3>1
    <3> QED
      BY <3>3, <3>4, <3>5, <3>6
  <2> QED
    BY <2>1, <2>2
<1>2. S \in T
  <2> HIDE DEF T
  <2> QED
    BY <1>1, SubsetInduction
<1> QED
  BY <1>2

LEMMA SumIsNat ==
  ASSUME NEW S, IsFiniteSet(S), NEW f, \A u \in S : f[u] \in Nat
  PROVE  SumOver(f, S) \in Nat
<1> DEFINE g == [u \in S |-> 0]
<1>1. \A u \in S : g[u] \in Int /\ f[u] \in Int /\ g[u] <= f[u] /\ g[u] = 0
  OBVIOUS
<1> HIDE DEF g
<1>2. SumOver(g, S) <= SumOver(f, S)
  BY <1>1, SumIsMonotone
<1>3. SumOver(g, S) = SumOver(g, {})
  BY <1>1, SumSkipsZeros
<1>4. SumOver(f, S) \in Int
  BY <1>1, SumIsInt
<1> QED
  BY <1>2, <1>3, <1>4, SumOfNone

LEMMA SumScales ==
  ASSUME NEW S, IsFiniteSet(S), NEW q \in Int, NEW f, NEW g,
         \A u \in S : f[u] \in Int /\ g[u] = q * f[u]
  PROVE  SumOver(g, S) = q * SumOver(f, S)
<1> DEFINE T == {s \in SUBSET S : SumOver(g, s) = q * SumOver(f, s)}
<1>1. ASSUME NEW s \in SUBSET S, \A c \in s : s \ {c} \in T
      PROVE  s \in T
  <2>1. CASE s = {}
    BY <2>1, SumOfNone
  <2>2. CASE s # {}
    <3>1. PICK c : c \in s
      BY <2>2
    <3>2. IsFiniteSet(s) /\ \A u \in s : f[u] \in Int /\ g[u] \in Int
      BY FS_Subset
    <3>3. /\ SumOver(f, s) = f[c] + SumOver(f, s \ {c})
          /\ SumOver(g, s) = g[c] + SumOver(g, s \ {c})
      BY <3>1, <3>2, SumRemoves
    <3>4. SumOver(g, s \ {c}) = q * SumOver(f, s \ {c})
      BY <1>1, <3>1
    <3>5. SumOver(f, s \ {c}) \in Int
      BY <3>2, SumIsInt, FS_Subset
    <3>6. f[c] \in Int /\ g[c] = q * f[c]
      BY <3>1
    <3>7. \A a, b \in Int : q * (a + b) = q * a + q * b
      OBVIOUS
    <3> QED
      BY <3>3, <3>4, <3>5, <3>6, <3>7
  <2> QED
    BY <2>1, <2>2
<1>2. S \in T
  <2> HIDE DEF T
  <2> QED
    BY <1>1, SubsetInduction
<1> QED
  BY <1>2

-----------------------------------------------------------------------------
(* Counting with sums.                                                     *)
(* Every member adds the same.                                             *)
LEMMA SumOfConstant ==
  ASSUME NEW S, IsFiniteSet(S), NEW c \in Int, NEW f, \A u \in S : f[u] = c
  PROVE  SumOver(f, S) = c * Cardinality(S)
<1> DEFINE T == {s \in SUBSET S : SumOver(f, s) = c * Cardinality(s)}
<1>1. ASSUME NEW s \in SUBSET S, \A x \in s : s \ {x} \in T
      PROVE  s \in T
  <2>1. CASE s = {}
    <3>1. SumOver(f, s) = 0 /\ Cardinality(s) = 0
      BY <2>1, SumOfNone, FS_EmptySet
    <3> QED
      BY <3>1
  <2>2. CASE s # {}
    <3>1. PICK x : x \in s
      BY <2>2
    <3>2. IsFiniteSet(s) /\ \A u \in s : f[u] \in Int
      BY FS_Subset
    <3>3. SumOver(f, s) = f[x] + SumOver(f, s \ {x})
      BY <3>1, <3>2, SumRemoves
    <3>4. Cardinality(s) \in Nat /\ Cardinality(s \ {x}) = Cardinality(s) - 1
      BY <3>1, <3>2, FS_CardinalityType, FS_RemoveElement
    <3>5. SumOver(f, s \ {x}) = c * Cardinality(s \ {x})
      BY <1>1, <3>1
    <3>6. \A m \in Nat : c + c * (m - 1) = c * m
      OBVIOUS
    <3> QED
      BY <3>1, <3>3, <3>4, <3>5, <3>6
  <2> QED
    BY <2>1, <2>2
<1>2. S \in T
  <2> HIDE DEF T
  <2> QED
    BY <1>1, SubsetInduction
<1> QED
  BY <1>2

LEMMA SumOfSome ==
  ASSUME NEW S, IsFiniteSet(S), NEW R \in SUBSET S, NEW c \in Int, NEW f,
         \A u \in S : f[u] = IF u \in R THEN c ELSE 0
  PROVE  SumOver(f, S) = c * Cardinality(R)
<1>1. /\ \A u \in R : f[u] \in Int /\ f[u] = f[u]
      /\ \A u \in S \ R : f[u] = 0
      /\ \A u \in R : f[u] = c
      /\ IsFiniteSet(R)
  BY FS_Subset
<1>2. SumOver(f, S) = SumOver(f, R)
  BY <1>1, SumSkipsZeros
<1>3. SumOver(f, R) = c * Cardinality(R)
  BY <1>1, SumOfConstant
<1> QED
  BY <1>2, <1>3

(* A table of numbers adds up to the same by rows and by columns.          *)
Column(F, S, i) == [u \in S |-> F[u][i]]

LEMMA SumsSwap ==
  ASSUME NEW S, IsFiniteSet(S), NEW I, IsFiniteSet(I), NEW F,
         \A u \in S, i \in I : F[u][i] \in Int,
         NEW row, \A u \in S : row[u] = SumOver(F[u], I),
         NEW col, \A i \in I : col[i] = SumOver(Column(F, S, i), S)
  PROVE  SumOver(row, S) = SumOver(col, I)
<1> DEFINE part(J) == [u \in S |-> SumOver(F[u], J)]
           T == {J \in SUBSET I : SumOver(part(J), S) = SumOver(col, J)}
<1>1. \A J \in SUBSET I : IsFiniteSet(J) /\ \A u \in S : part(J)[u] \in Int
  <2>1. SUFFICES ASSUME NEW J \in SUBSET I, NEW u \in S
                 PROVE  IsFiniteSet(J) /\ SumOver(F[u], J) \in Int
    BY FS_Subset
  <2>2. IsFiniteSet(J) /\ \A i \in J : F[u][i] \in Int
    BY FS_Subset
  <2> QED
    BY <2>2, SumIsInt
<1>2. \A i \in I : col[i] \in Int
  <2>1. SUFFICES ASSUME NEW i \in I PROVE col[i] \in Int
    OBVIOUS
  <2> DEFINE h == [u \in S |-> F[u][i]]
  <2>2. \A u \in S : h[u] \in Int
    OBVIOUS
  <2>3. col[i] = SumOver(h, S)
    BY DEF Column
  <2> HIDE DEF h
  <2> QED
    BY <2>2, <2>3, SumIsInt
<1>3. ASSUME NEW J \in SUBSET I, \A x \in J : J \ {x} \in T
      PROVE  J \in T
  <2>1. CASE J = {}
    <3>1. \A u \in S : part(J)[u] = 0
      BY <2>1, SumOfNone
    <3>2. SumOver(part(J), S) = SumOver(part(J), {})
      <4> HIDE DEF part
      <4> QED
        BY <3>1, SumSkipsZeros
    <3> HIDE DEF part
    <3>3. SumOver(part(J), S) = 0 /\ SumOver(col, J) = 0
      BY <2>1, <3>2, SumOfNone
    <3> QED
      BY <3>3
  <2>2. CASE J # {}
    <3>1. PICK x : x \in J
      BY <2>2
    <3> DEFINE K == J \ {x}
               h == [u \in S |-> F[u][x]]
               p == part(J)
               q == part(K)
    <3>2. \A u \in S : h[u] \in Int /\ q[u] \in Int /\ p[u] = h[u] + q[u]
      <4>1. SUFFICES ASSUME NEW u \in S
                     PROVE  SumOver(F[u], J) = F[u][x] + SumOver(F[u], K) /\ F[u][x] \in Int
        BY <1>1
      <4>2. IsFiniteSet(J) /\ \A i \in J : F[u][i] \in Int
        BY <1>1
      <4> QED
        BY <3>1, <4>2, SumRemoves
    <3>3. col[x] = SumOver(h, S) /\ x \in I
      BY <3>1 DEF Column
    <3>4. SumOver(q, S) = SumOver(col, K)
      BY <1>3, <3>1
    <3>5. SumOver(col, J) = col[x] + SumOver(col, K)
      BY <1>1, <1>2, <3>1, SumRemoves
    <3> HIDE DEF h, p, q
    <3>6. SumOver(p, S) = SumOver(h, S) + SumOver(q, S)
      BY <3>2, SumAdds
    <3>7. SumOver(p, S) = SumOver(col, J)
      BY <3>3, <3>4, <3>5, <3>6
    <3> QED
      BY <3>7 DEF p
  <2> QED
    BY <2>1, <2>2
<1>4. I \in T
  <2> HIDE DEF T
  <2> QED
    BY <1>3, SubsetInduction
<1>5. SumOver(row, S) = SumOver(part(I), S)
  <2>1. \A u \in S : row[u] \in Int /\ part(I)[u] = row[u]
    BY <1>1
  <2> HIDE DEF part
  <2> QED
    BY <2>1, SumSkipsZeros
<1> QED
  BY <1>4, <1>5
LEMMA UpToCount ==
  ASSUME NEW n \in Nat
  PROVE  Cardinality(1 .. n) = n
<1>1. Cardinality(1 .. n) = IF 1 > n THEN 0 ELSE n - 1 + 1
  BY FS_Interval
<1> QED
  BY <1>1

LEMMA SumOfZeros ==
  ASSUME NEW S, IsFiniteSet(S), NEW f, \A u \in S : f[u] = 0
  PROVE  SumOver(f, S) = 0
<1>1. SumOver(f, S) = 0 * Cardinality(S)
  BY SumOfConstant
<1> QED
  BY <1>1, FS_CardinalityType

-----------------------------------------------------------------------------
(* The loop over the levels of the bets.                                   *)
(* The recursion of the loop over the levels, and its solution.            *)
NoLayer == [last |-> 0, pots |-> <<>>]
Layering(b, out, S, g) ==
  [s \in SUBSET S |-> IF s = {} THEN NoLayer
                      ELSE AddLayer(b, out, g[s \ {Max(s)}], Max(s))]
Layers(b, out, S, g) == g = Layering(b, out, S, g)
Looped(b, out, S) == CHOOSE g : Layers(b, out, S, g)

LEMMA PotsUnfold == ASSUME NEW b, NEW out
  PROVE SidePotsWithDeadMoney(b, out) = Looped(b, out, Levels(b))[Levels(b)].pots
BY DEF SidePotsWithDeadMoney, MapThenFoldSet, Layering, Layers, Looped, NoLayer

LEMMA SumOnSetIsSum == ASSUME NEW f, NEW R
  PROVE SumFunctionOnSet(f, R) = SumOver(f, R)
BY Zenon DEF SumFunctionOnSet, FoldFunctionOnSet, SumOver, MapThenSumSet

LEMMA SumFunctionIsSum == ASSUME NEW f
  PROVE SumFunction(f) = SumOver(f, DOMAIN f)
BY Zenon DEF SumFunction, SumFunctionOnSet, FoldFunctionOnSet, SumOver, MapThenSumSet

(* A finite set of numbers has a largest member.                           *)
LEMMA MaxIsLargest ==
  ASSUME NEW S, IsFiniteSet(S), NEW s \in SUBSET S, s # {}, S \subseteq Int
  PROVE  Max(s) \in s /\ \A y \in s : Max(s) >= y
<1> DEFINE T == {t \in SUBSET S : t = {} \/ \E x \in t : \A y \in t : x >= y}
<1>1. ASSUME NEW t \in SUBSET S, \A c \in t : t \ {c} \in T
      PROVE  t \in T
  <2>1. CASE t = {}
    BY <2>1
  <2>2. CASE t # {}
    <3>1. PICK c : c \in t
      BY <2>2
    <3>2. CASE t \ {c} = {}
      <4>1. t = {c} /\ c \in Int
        BY <3>1, <3>2
      <4> QED
        BY <4>1
    <3>3. CASE t \ {c} # {}
      <4>1. PICK x \in t \ {c} : \A y \in t \ {c} : x >= y
        BY <1>1, <3>1, <3>3
      <4>2. c \in Int /\ x \in Int /\ \A y \in t : y \in Int
        BY <3>1, <4>1
      <4>3. CASE x >= c
        BY <4>1, <4>3
      <4>4. CASE ~(x >= c)
        <5>1. \A y \in t : c >= y
          BY <4>1, <4>2, <4>4
        <5> QED
          BY <3>1, <5>1
      <4> QED
        BY <4>3, <4>4
    <3> QED
      BY <3>2, <3>3
  <2> QED
    BY <2>1, <2>2
<1>2. s \in T
  <2>1. IsFiniteSet(s)
    BY FS_Subset
  <2>2. \A t \in SUBSET s : (\A c \in t : t \ {c} \in T) => t \in T
    BY <1>1
  <2> HIDE DEF T
  <2> QED
    BY <2>1, <2>2, SubsetInduction
<1>3. \E x \in s : \A y \in s : x >= y
  BY <1>2
<1> QED
  BY <1>3 DEF Max

-----------------------------------------------------------------------------
(* The recursion has one solution, as that of the sums has.                *)
LEMMA LayersUnique ==
  ASSUME NEW b, NEW out, NEW S, IsFiniteSet(S), S \subseteq Int,
         NEW g, Layers(b, out, S, g), NEW h, Layers(b, out, S, h)
  PROVE  g = h
<1> DEFINE T == {s \in SUBSET S : g[s] = h[s]}
<1>1. ASSUME NEW s \in SUBSET S, \A c \in s : s \ {c} \in T
      PROVE  s \in T
  <2>1. CASE s = {}
    BY <2>1 DEF Layers, Layering
  <2>2. CASE s # {}
    <3>1. Max(s) \in s
      BY <2>2, MaxIsLargest
    <3>2. g[s \ {Max(s)}] = h[s \ {Max(s)}]
      BY <1>1, <3>1
    <3>3. /\ g[s] = AddLayer(b, out, g[s \ {Max(s)}], Max(s))
          /\ h[s] = AddLayer(b, out, h[s \ {Max(s)}], Max(s))
      BY <2>2 DEF Layers, Layering
    <3> QED
      BY <3>2, <3>3
  <2> QED
    BY <2>1, <2>2
<1>2. ASSUME NEW s \in SUBSET S PROVE g[s] = h[s]
  <2>1. IsFiniteSet(s) /\ \A t \in SUBSET s : (\A c \in t : t \ {c} \in T) => t \in T
    BY <1>1, FS_Subset
  <2>2. s \in T
    <3> HIDE DEF T
    <3> QED
      BY <2>1, SubsetInduction
  <2> QED
    BY <2>2
<1>3. /\ g = [s \in SUBSET S |-> g[s]]
      /\ h = [s \in SUBSET S |-> h[s]]
  BY DEF Layers, Layering
<1> QED
  BY <1>2, <1>3

LEMMA LayersRestricted ==
  ASSUME NEW b, NEW out, NEW S, IsFiniteSet(S), S \subseteq Int,
         NEW g, Layers(b, out, S, g), NEW T \in SUBSET S
  PROVE  Layers(b, out, T, [s \in SUBSET T |-> g[s]])
<1> DEFINE h == [s \in SUBSET T |-> g[s]]
<1>1. ASSUME NEW s \in SUBSET T
      PROVE  h[s] = Layering(b, out, T, h)[s]
  <2>1. CASE s = {}
    BY <2>1 DEF Layers, Layering
  <2>2. CASE s # {}
    <3>1. g[s] = AddLayer(b, out, g[s \ {Max(s)}], Max(s))
      BY <2>2 DEF Layers, Layering
    <3>2. Layering(b, out, T, h)[s] = AddLayer(b, out, h[s \ {Max(s)}], Max(s))
      BY <2>2 DEF Layering
    <3>3. h[s] = g[s] /\ h[s \ {Max(s)}] = g[s \ {Max(s)}]
      OBVIOUS
    <3> HIDE DEF h
    <3> QED
      BY <3>1, <3>2, <3>3
  <2> QED
    BY <2>1, <2>2
<1>2. /\ h = [s \in SUBSET T |-> h[s]]
      /\ Layering(b, out, T, h) = [s \in SUBSET T |-> Layering(b, out, T, h)[s]]
  BY DEF Layering
<1> HIDE DEF h
<1>3. h = Layering(b, out, T, h)
  BY <1>1, <1>2
<1> QED
  BY <1>3 DEF Layers, h

LEMMA LayersExist ==
  ASSUME NEW b, NEW out, NEW S, IsFiniteSet(S), S \subseteq Int
  PROVE  Layers(b, out, S, Looped(b, out, S))
<1> DEFINE T == {s \in SUBSET S : \A t \in SUBSET s : \E g : Layers(b, out, t, g)}
           Top(t) == Looped(b, out, t)[t]
<1>1. ASSUME NEW s \in SUBSET S, \A c \in s : s \ {c} \in T
      PROVE  s \in T
  <2>1. ASSUME NEW t \in SUBSET s, t # s
        PROVE  Layers(b, out, t, Looped(b, out, t)) /\ IsFiniteSet(t) /\ t \subseteq Int
    <3>1. PICK c \in s : c \notin t
      BY <2>1
    <3>2. s \ {c} \in T /\ t \in SUBSET (s \ {c})
      BY <1>1, <3>1
    <3>3. \E g : Layers(b, out, t, g)
      BY <3>2
    <3> QED
      BY <3>3, FS_Subset DEF Looped
  <2>2. ASSUME NEW t \in SUBSET s, t # s, NEW r \in SUBSET t
        PROVE  Looped(b, out, t)[r] = Top(r)
    <3> DEFINE h == [q \in SUBSET r |-> Looped(b, out, t)[q]]
    <3>1. Layers(b, out, r, h)
      BY <2>1, <2>2, LayersRestricted
    <3>2. r \in SUBSET s /\ r # s
      BY <2>2
    <3>3. Layers(b, out, r, Looped(b, out, r)) /\ IsFiniteSet(r) /\ r \subseteq Int
      BY <2>1, <3>2
    <3>4. h[r] = Looped(b, out, t)[r]
      OBVIOUS
    <3> HIDE DEF h
    <3>5. h = Looped(b, out, r)
      BY <3>1, <3>3, LayersUnique
    <3> QED
      BY <3>4, <3>5
  <2> DEFINE rest(t) == t \ {Max(t)}
             k == [t \in SUBSET s |->
                     IF t = {} THEN NoLayer ELSE AddLayer(b, out, Top(rest(t)), Max(t))]
  <2>3. ASSUME NEW t \in SUBSET s, t # {}
        PROVE  rest(t) \in SUBSET s /\ rest(t) # s
    <3>1. Max(t) \in t
      <4>1. t \in SUBSET S
        BY <2>3
      <4> QED
        BY <2>3, <4>1, MaxIsLargest
    <3> QED
      BY <2>3, <3>1
  <2>4. ASSUME NEW t \in SUBSET s, t # {}
        PROVE  k[rest(t)] = Top(rest(t))
    <3> DEFINE r == rest(t)
    <3>1. r \in SUBSET s /\ r # s
      BY <2>3, <2>4
    <3>2. Layers(b, out, r, Looped(b, out, r))
      BY <2>1, <3>1
    <3> HIDE DEF r
    <3>3. CASE r = {}
      <4>1. Top(r) = NoLayer
        BY <3>2, <3>3 DEF Layers, Layering
      <4>2. k[r] = NoLayer
        BY <3>1, <3>3
      <4> QED
        BY <4>1, <4>2 DEF r
    <3>4. CASE r # {}
      <4>1. Top(r) = AddLayer(b, out, Looped(b, out, r)[rest(r)], Max(r))
        BY <3>2, <3>4 DEF Layers, Layering
      <4>2. Looped(b, out, r)[rest(r)] = Top(rest(r))
        <5>1. rest(r) \in SUBSET r
          OBVIOUS
        <5> HIDE DEF rest, Top
        <5> QED
          BY <2>2, <3>1, <5>1
      <4>3. k[r] = AddLayer(b, out, Top(rest(r)), Max(r))
        BY <3>1, <3>4
      <4> HIDE DEF k, rest, Top
      <4> QED
        BY <4>1, <4>2, <4>3 DEF r
    <3> QED
      BY <3>3, <3>4
  <2>5. ASSUME NEW t \in SUBSET s
        PROVE  k[t] = Layering(b, out, s, k)[t]
    <3>1. CASE t = {}
      BY <3>1 DEF Layering
    <3>2. CASE t # {}
      <4>1. k[t] = AddLayer(b, out, Top(rest(t)), Max(t))
        BY <3>2
      <4>2. Layering(b, out, s, k)[t] = AddLayer(b, out, k[rest(t)], Max(t))
        <5> HIDE DEF k
        <5> QED
          BY <3>2 DEF Layering
      <4>3. k[rest(t)] = Top(rest(t))
        BY <2>4, <3>2
      <4> HIDE DEF k, rest, Top
      <4> QED
        BY <4>1, <4>2, <4>3
    <3> QED
      BY <3>1, <3>2
  <2>6. Layers(b, out, s, k)
    <3>1. /\ k = [t \in SUBSET s |-> k[t]]
          /\ Layering(b, out, s, k) = [t \in SUBSET s |-> Layering(b, out, s, k)[t]]
      BY DEF Layering
    <3> HIDE DEF k
    <3>2. k = Layering(b, out, s, k)
      BY <2>5, <3>1
    <3> QED
      BY <3>2 DEF Layers
  <2>7. ASSUME NEW t \in SUBSET s PROVE \E g : Layers(b, out, t, g)
    <3> HIDE DEF k
    <3> QED
      BY <2>1, <2>6, <2>7
  <2> QED
    BY <2>7
<1>2. S \in T
  <2> HIDE DEF T
  <2> QED
    BY <1>1, SubsetInduction
<1> QED
  BY <1>2 DEF Looped

(* The pots of the levels s: those of all but the largest, and its layer.  *)
Loop(b, out, s) == Looped(b, out, s)[s]

LEMMA LoopUnfolds ==
  ASSUME NEW b, NEW out, NEW S, IsFiniteSet(S), S \subseteq Int
  PROVE  /\ S = {} => Loop(b, out, S) = NoLayer
         /\ S # {} => Loop(b, out, S)
                        = AddLayer(b, out, Loop(b, out, S \ {Max(S)}), Max(S))
<1>1. Layers(b, out, S, Looped(b, out, S))
  BY LayersExist
<1>2. CASE S = {}
  BY <1>1, <1>2 DEF Layers, Layering, Loop
<1>3. CASE S # {}
  <2> DEFINE R == S \ {Max(S)}
             h == [q \in SUBSET R |-> Looped(b, out, S)[q]]
  <2>1. IsFiniteSet(R) /\ R \subseteq Int /\ R \in SUBSET S
    BY FS_Subset
  <2>2. Layers(b, out, R, Looped(b, out, R)) /\ Layers(b, out, R, h)
    BY <1>1, <2>1, LayersExist, LayersRestricted
  <2>3. Looped(b, out, S)[S] = AddLayer(b, out, Looped(b, out, S)[R], Max(S))
    BY <1>1, <1>3 DEF Layers, Layering
  <2>4. h[R] = Looped(b, out, S)[R]
    OBVIOUS
  <2>5. h = Looped(b, out, R)
    <3> HIDE DEF h, R
    <3> QED
      BY <2>1, <2>2, LayersUnique
  <2> QED
    BY <1>3, <2>3, <2>4, <2>5 DEF Loop
<1> QED
  BY <1>2, <1>3

-----------------------------------------------------------------------------
(* The shares of a pot.                                                    *)
(* Of the members of a finite set of numbers, r have fewer than r below.   *)
Earlier(B, s) == Cardinality({t \in B : t < s})

LEMMA FirstOnes ==
  ASSUME NEW B, IsFiniteSet(B), B \subseteq Int, NEW r \in 0 .. Cardinality(B)
  PROVE  Cardinality({s \in B : Earlier(B, s) < r}) = r
<1> DEFINE First(A, k) == {s \in A : Earlier(A, s) < k}
           T == {A \in SUBSET B : \A k \in 0 .. Cardinality(A) : Cardinality(First(A, k)) = k}
<1>1. ASSUME NEW A \in SUBSET B, \A c \in A : A \ {c} \in T
      PROVE  A \in T
  <2>0. IsFiniteSet(A) /\ Cardinality(A) \in Nat
    BY FS_Subset, FS_CardinalityType
  <2>1. CASE A = {}
    <3>1. SUFFICES ASSUME NEW k \in 0 .. Cardinality(A) PROVE Cardinality(First(A, k)) = k
      OBVIOUS
    <3>2. Cardinality(A) = 0 /\ First(A, k) = {}
      BY <2>1, FS_EmptySet
    <3> QED
      BY <3>1, <3>2, FS_EmptySet
  <2>2. CASE A # {}
    <3> DEFINE m == Max(A)
               R == A \ {m}
    <3>1. m \in A /\ m \in Int /\ \A y \in A : m >= y
      BY <2>2, MaxIsLargest
    <3> HIDE DEF m
    <3>2. /\ R \in T /\ IsFiniteSet(R) /\ Cardinality(R) = Cardinality(A) - 1
      BY <1>1, <2>0, <3>1, FS_Subset, FS_RemoveElement
    <3>3. {t \in A : t < m} = R
      <4>1. \A t \in A : t \in Int /\ (t < m <=> t # m)
        BY <3>1
      <4> QED
        BY <4>1
    <3>4. ASSUME NEW s \in R PROVE Earlier(A, s) = Earlier(R, s)
      <4>1. {t \in A : t < s} = {t \in R : t < s}
        BY <3>1
      <4> QED
        BY <4>1 DEF Earlier
    <3>5. Earlier(A, m) = Cardinality(A) - 1
      BY <3>2, <3>3 DEF Earlier
    <3>6. ASSUME NEW k \in 0 .. Cardinality(A) PROVE Cardinality(First(A, k)) = k
      <4>1. CASE k = Cardinality(A)
        <5>1. ASSUME NEW s \in A PROVE Earlier(A, s) < k
          <6>1. CASE s = m
            BY <2>0, <3>5, <4>1, <6>1
          <6>2. CASE s # m
            <7>1. {t \in A : t < s} \subseteq R
              BY <3>1, <6>2
            <7>2. Earlier(A, s) <= Cardinality(R) /\ Earlier(A, s) \in Nat
              BY <3>2, <7>1, FS_Subset, FS_CardinalityType DEF Earlier
            <7> QED
              BY <2>0, <3>2, <4>1, <7>2
          <6> QED
            BY <6>1, <6>2
        <5>2. First(A, k) = A
          BY <5>1
        <5> HIDE DEF First
        <5> QED
          BY <4>1, <5>2
      <4>2. CASE k # Cardinality(A)
        <5>1. k \in 0 .. Cardinality(R)
          BY <2>0, <3>2, <4>2
        <5>2. ~ (Earlier(A, m) < k)
          BY <2>0, <3>2, <3>5, <5>1
        <5>3. First(A, k) = First(R, k)
          BY <3>1, <3>4, <5>2
        <5>4. Cardinality(First(R, k)) = k
          BY <3>2, <5>1
        <5> HIDE DEF First
        <5> QED
          BY <5>3, <5>4
      <4> QED
        BY <4>1, <4>2
    <3> HIDE DEF First
    <3> QED
      BY <3>6
  <2> QED
    BY <2>1, <2>2
<1>2. B \in T
  <2> HIDE DEF T
  <2> QED
    BY <1>1, SubsetInduction
<1> QED
  BY <1>2

(* Division with a rest.                                                   *)
LEMMA Division ==
  ASSUME NEW a \in Nat, NEW n \in Nat, n > 0
  PROVE  /\ a \div n \in Nat /\ a % n \in 0 .. n - 1
         /\ a = ((a \div n) * n) + (a % n)
OBVIOUS

-----------------------------------------------------------------------------
(* The shares of a pot are the pot, whatever the hands are.                *)
Pot(S) == [amount : Nat, eligible : SUBSET S]

LEMMA ImageIsFinite ==
  ASSUME NEW S, IsFiniteSet(S), NEW f
  PROVE  IsFiniteSet({f[u] : u \in S})
<1> DEFINE T == {f[u] : u \in S}
           g == [u \in S |-> f[u]]
<1>1. g \in Surjection(S, T)
  BY DEF Surjection
<1> QED
  BY <1>1, FS_Surjection

LEMMA BestExists ==
  ASSUME NEW S, IsFiniteSet(S), NEW rank \in [S -> Nat], NEW A \in SUBSET S, A # {}
  PROVE  Best(A, rank) # {} /\ Best(A, rank) \subseteq A /\ IsFiniteSet(Best(A, rank))
<1>1. IsFiniteSet(A)
  BY FS_Subset
<1> DEFINE R == {rank[u] : u \in A}
<1>2. IsFiniteSet(R) /\ R # {} /\ R \subseteq Int
  <2>1. IsFiniteSet(R)
    BY <1>1, ImageIsFinite
  <2> QED
    BY <2>1
<1>3. Max(R) \in R /\ \A y \in R : Max(R) >= y
  <2> HIDE DEF R
  <2> QED
    BY <1>2, MaxIsLargest
<1>4. PICK u \in A : rank[u] = Max(R)
  BY <1>3
<1>5. \A t \in A : rank[t] <= rank[u]
  <2>1. \A t \in A : rank[t] \in R /\ rank[t] \in Nat /\ rank[u] \in Nat
    OBVIOUS
  <2> HIDE DEF R
  <2> QED
    BY <1>3, <1>4, <2>1
<1>6. u \in Best(A, rank)
  BY <1>5 DEF Best
<1>7. Best(A, rank) \subseteq A
  BY DEF Best
<1> QED
  BY <1>1, <1>6, <1>7, FS_Subset

LEMMA SharesAreThePot ==
  ASSUME NEW S, IsFiniteSet(S), S \subseteq Int, NEW rank \in [S -> Nat],
         NEW pot \in Pot(S), pot.eligible # {}
  PROVE  /\ \A s \in S : ShareOf(pot, rank, s) \in Nat
         /\ \A s \in S \ Best(pot.eligible, rank) : ShareOf(pot, rank, s) = 0
         /\ SumOver([s \in S |-> ShareOf(pot, rank, s)], S) = pot.amount
<1> DEFINE best == Best(pot.eligible, rank)
           n == Cardinality(best)
           q == pot.amount \div n
           r == pot.amount % n
           more == {s \in best : Earlier(best, s) < r}
           f == [s \in S |-> ShareOf(pot, rank, s)]
           g == [s \in S |-> IF s \in best THEN q ELSE 0]
           h == [s \in S |-> IF s \in more THEN 1 ELSE 0]
<1>1. /\ pot.eligible \in SUBSET S /\ pot.amount \in Nat
      /\ best # {} /\ best \subseteq S /\ IsFiniteSet(best)
  BY BestExists DEF Pot
<1>2. n \in Nat /\ n > 0
  <2> HIDE DEF best
  <2>1. n \in Nat /\ n # 0
    BY <1>1, FS_CardinalityType, FS_EmptySet
  <2> QED
    BY <2>1
<1>3. q \in Nat /\ r \in 0 .. n - 1 /\ pot.amount = (q * n) + r
  <2> HIDE DEF n
  <2> QED
    BY <1>1, <1>2, Division
<1>4. \A s \in S : f[s] = g[s] + h[s] /\ g[s] \in Nat /\ h[s] \in Nat
  <2>1. SUFFICES ASSUME NEW s \in S
                 PROVE  ShareOf(pot, rank, s) = g[s] + h[s] /\ g[s] \in Nat /\ h[s] \in Nat
    OBVIOUS
  <2>2. ShareOf(pot, rank, s)
          = IF s \in best THEN q + (IF Earlier(best, s) < r THEN 1 ELSE 0) ELSE 0
    BY DEF ShareOf, Earlier
  <2>3. s \in more <=> s \in best /\ Earlier(best, s) < r
    OBVIOUS
  <2> HIDE DEF best, q, r, more
  <2> QED
    BY <1>3, <2>2, <2>3
<1>5. Cardinality(more) = r /\ IsFiniteSet(more) /\ more \subseteq best
  <2>1. r \in 0 .. n
    <3> HIDE DEF n, r
    <3> QED
      BY <1>2, <1>3
  <2>2. IsFiniteSet(best) /\ best \subseteq Int
    BY <1>1
  <2> HIDE DEF best, r
  <2>3. Cardinality(more) = r
    BY <2>1, <2>2, FirstOnes
  <2> QED
    BY <2>2, <2>3, FS_Subset
<1>6. SumOver(g, S) = q * n
  <2>1. \A s \in S : g[s] = IF s \in best THEN q ELSE 0
    OBVIOUS
  <2>2. q \in Int /\ best \in SUBSET S
    BY <1>1, <1>3
  <2> HIDE DEF g, q, best
  <2> QED
    BY <2>1, <2>2, SumOfSome
<1>7. SumOver(h, S) = r
  <2>1. \A s \in S : h[s] = IF s \in more THEN 1 ELSE 0
    OBVIOUS
  <2>2. more \in SUBSET S /\ 1 \in Int
    BY <1>1, <1>5
  <2> HIDE DEF h, more
  <2>3. SumOver(h, S) = 1 * Cardinality(more)
    BY <2>1, <2>2, SumOfSome
  <2> HIDE DEF r
  <2> QED
    BY <1>2, <1>3, <1>5, <2>3
<1>8. SumOver(f, S) = SumOver(g, S) + SumOver(h, S)
  <2>1. \A s \in S : g[s] \in Int /\ h[s] \in Int /\ f[s] = g[s] + h[s]
    <3> HIDE DEF f, g, h
    <3> QED
      BY <1>4
  <2> HIDE DEF f, g, h
  <2> QED
    BY <2>1, SumAdds
<1>9. \A s \in S \ best : ShareOf(pot, rank, s) = 0
  BY DEF ShareOf
<1>10. \A s \in S : ShareOf(pot, rank, s) \in Nat
  <2>1. \A s \in S : f[s] \in Nat
    <3> HIDE DEF f, g, h
    <3> QED
      BY <1>4
  <2> QED
    BY <2>1
<1>11. SumOver(f, S) = pot.amount
  <2> HIDE DEF f, g, h, q, r, n
  <2> QED
    BY <1>1, <1>3, <1>6, <1>7, <1>8
<1> QED
  BY <1>9, <1>10, <1>11

-----------------------------------------------------------------------------
(* The pots against the reference.                                         *)
(* The chips of the pots whose claimants are in Q, and the chips up to the *)
(* v-th of every contributor that the reference gives to them.             *)
InPots(p, Q) == [i \in 1 .. Len(p) |-> IF p[i].eligible \in Q THEN p[i].amount ELSE 0]
AmountIn(p, Q) == SumOver(InPots(p, Q), 1 .. Len(p))

InChips(b, out, Q, v) ==
  [u \in 1 .. v |-> IF Claimants(b, out, u) \in Q THEN ChipsAt(b, u) ELSE 0]
ChipsIn(b, out, Q, v) == SumOver(InChips(b, out, Q, v), 1 .. v)

LEMMA UpTo ==
  ASSUME NEW n \in Nat
  PROVE  /\ IsFiniteSet(1 .. n) /\ IsFiniteSet(1 .. n + 1)
         /\ n + 1 \in 1 .. n + 1 /\ (1 .. n + 1) \ {n + 1} = 1 .. n
         /\ 1 .. n \in SUBSET (1 .. n + 1)
<1>1. IsFiniteSet(1 .. n) /\ IsFiniteSet(1 .. n + 1)
  BY FS_Interval
<1>2. n + 1 \in 1 .. n + 1 /\ (1 .. n + 1) \ {n + 1} = 1 .. n
  OBVIOUS
<1> QED
  BY <1>1, <1>2

LEMMA PotAppended ==
  ASSUME NEW S, NEW p \in Seq(Pot(S)), NEW x \in Pot(S), NEW Q
  PROVE  /\ Append(p, x) \in Seq(Pot(S))
         /\ AmountIn(Append(p, x), Q)
              = AmountIn(p, Q) + IF x.eligible \in Q THEN x.amount ELSE 0
<1> DEFINE n == Len(p)
           q == Append(p, x)
           c == IF x.eligible \in Q THEN x.amount ELSE 0
           f == InPots(p, Q)
           g == InPots(q, Q)
<1>1. /\ n \in Nat /\ q \in Seq(Pot(S)) /\ Len(q) = n + 1 /\ q[n + 1] = x
      /\ \A i \in 1 .. n : q[i] = p[i]
  OBVIOUS
<1>2. \A i \in 1 .. n + 1 : q[i] \in Pot(S)
  BY <1>1
<1>3. \A i \in 1 .. n + 1 : g[i] = IF q[i].eligible \in Q THEN q[i].amount ELSE 0
  <2> HIDE DEF q, n
  <2> QED
    BY <1>1 DEF InPots
<1>4. \A i \in 1 .. n : f[i] = IF p[i].eligible \in Q THEN p[i].amount ELSE 0
  BY DEF InPots
<1>5. /\ \A i \in 1 .. n + 1 : g[i] \in Int
      /\ \A i \in 1 .. n : f[i] \in Int /\ g[i] = f[i]
      /\ g[n + 1] = c
  <2>1. \A i \in 1 .. n + 1 : q[i].amount \in Int
    BY <1>2 DEF Pot
  <2> HIDE DEF q, n, f, g
  <2> QED
    BY <1>1, <1>3, <1>4, <2>1
<1> HIDE DEF f, g, q, n, c
<1>6. SumOver(g, 1 .. n + 1) = g[n + 1] + SumOver(g, 1 .. n)
  <2>0. n + 1 \in 1 .. n + 1 /\ IsFiniteSet(1 .. n + 1)
    BY <1>1, UpTo
  <2>1. SumOver(g, 1 .. n + 1) = g[n + 1] + SumOver(g, (1 .. n + 1) \ {n + 1})
    BY <1>5, <2>0, SumRemoves
  <2>2. SumOver(g, (1 .. n + 1) \ {n + 1}) = SumOver(g, 1 .. n)
    BY <1>1, UpTo
  <2> QED
    BY <2>1, <2>2
<1>7. SumOver(g, 1 .. n) = SumOver(f, 1 .. n)
  <2>1. /\ \A i \in 1 .. n : g[i] \in Int /\ f[i] = g[i]
        /\ \A i \in (1 .. n) \ (1 .. n) : g[i] = 0
        /\ IsFiniteSet(1 .. n) /\ 1 .. n \in SUBSET (1 .. n)
    BY <1>1, <1>5, UpTo
  <2> QED
    BY <2>1, SumSkipsZeros
<1>8. SumOver(f, 1 .. n) \in Int
  BY <1>1, <1>5, UpTo, SumIsInt
<1>9. SumOver(g, 1 .. n + 1) = SumOver(f, 1 .. n) + c
  <2>1. c \in Int
    BY <1>1, <1>5, UpTo
  <2> QED
    BY <1>5, <1>6, <1>7, <1>8, <2>1
<1>10. AmountIn(q, Q) = SumOver(g, 1 .. n + 1) /\ AmountIn(p, Q) = SumOver(f, 1 .. n)
  BY <1>1 DEF AmountIn, f, g, n
<1> QED
  BY <1>1, <1>9, <1>10 DEF q, c

Grown(p, k, m) == [p EXCEPT ![k].amount = @ + m]

LEMMA PotGrows ==
  ASSUME NEW S, NEW p \in Seq(Pot(S)), NEW k \in 1 .. Len(p), NEW m \in Nat, NEW Q,
         NEW q, q = Grown(p, k, m)
  PROVE  /\ q \in Seq(Pot(S)) /\ Len(q) = Len(p)
         /\ \A i \in 1 .. Len(p) : q[i].eligible = p[i].eligible
         /\ AmountIn(q, Q) = AmountIn(p, Q) + IF p[k].eligible \in Q THEN m ELSE 0
<1> DEFINE n == Len(p)
           c == IF p[k].eligible \in Q THEN m ELSE 0
           f == InPots(p, Q)
           g == InPots(q, Q)
<1>1. /\ n \in Nat /\ DOMAIN p = 1 .. n /\ \A i \in 1 .. n : p[i] \in Pot(S)
  OBVIOUS
<1>2. \A i \in 1 .. n : p[i].amount \in Nat /\ p[i].eligible \in SUBSET S
  BY <1>1 DEF Pot
<1>3. [p[k] EXCEPT !.amount = @ + m] \in Pot(S)
  <2>1. p[k] \in Pot(S) /\ p[k].amount + m \in Nat
    BY <1>1, <1>2
  <2> QED
    BY <2>1 DEF Pot
<1>4. /\ q \in Seq(Pot(S)) /\ Len(q) = n
      /\ \A i \in 1 .. n : q[i] = IF i = k THEN [p[k] EXCEPT !.amount = @ + m] ELSE p[i]
  <2>1. q = [i \in 1 .. n |-> IF i = k THEN [p[k] EXCEPT !.amount = @ + m] ELSE p[i]]
    BY <1>1 DEF Grown
  <2>2. \A i \in 1 .. n : q[i] \in Pot(S)
    BY <1>1, <1>3, <2>1
  <2>3. q \in Seq(Pot(S)) /\ Len(q) = n
    <3>1. q \in [1 .. n -> Pot(S)]
      BY <2>1, <2>2
    <3>2. n \in Nat
      BY <1>1
    <3> HIDE DEF n
    <3> QED
      BY <3>1, <3>2
  <2> QED
    BY <2>1, <2>3
<1>5. \A i \in 1 .. n : /\ q[i].eligible = p[i].eligible
                        /\ q[i].amount = IF i = k THEN p[k].amount + m ELSE p[i].amount
  <2>1. p[k] \in Pot(S)
    BY <1>1
  <2> QED
    BY <1>4, <2>1 DEF Pot
<1>6. /\ f \in [1 .. n -> Int] /\ c \in Int
      /\ g = [f EXCEPT ![k] = @ + c]
  <2>1. /\ f = [i \in 1 .. n |-> IF p[i].eligible \in Q THEN p[i].amount ELSE 0]
        /\ g = [i \in 1 .. n |-> IF q[i].eligible \in Q THEN q[i].amount ELSE 0]
    BY <1>4 DEF InPots
  <2>2. k \in 1 .. n /\ c \in Int
    OBVIOUS
  <2> HIDE DEF n, f, g
  <2>3. f \in [1 .. n -> Int]
    BY <1>2, <2>1
  <2>4. \A i \in 1 .. n : g[i] = IF i = k THEN f[k] + c ELSE f[i]
    BY <1>2, <1>5, <2>1, <2>2
  <2>5. g = [i \in 1 .. n |-> g[i]]
    BY <2>1
  <2> HIDE DEF c
  <2> QED
    BY <2>2, <2>3, <2>4, <2>5
<1> HIDE DEF f, g, n, c
<1>7. SumOver(g, 1 .. n) = SumOver(f, 1 .. n) + c
  <2>1. k \in 1 .. n /\ IsFiniteSet(1 .. n)
    BY <1>1, UpTo DEF n
  <2> QED
    BY <1>6, <2>1, SumUpdates
<1>8. AmountIn(q, Q) = SumOver(g, 1 .. n) /\ AmountIn(p, Q) = SumOver(f, 1 .. n)
  BY <1>4 DEF AmountIn, f, g, n
<1> QED
  BY <1>4, <1>5, <1>7, <1>8 DEF n, c

(* The chips from one level to the next.                                   *)
LEMMA ChipsGrow ==
  ASSUME NEW b, NEW out, NEW Q, NEW v \in Nat, NEW x \in Nat, v <= x,
         NEW c \in Nat, NEW K,
         \A u \in 1 .. x : ChipsAt(b, u) \in Nat,
         \A u \in v + 1 .. x : ChipsAt(b, u) = c /\ Claimants(b, out, u) = K
  PROVE  ChipsIn(b, out, Q, x)
           = ChipsIn(b, out, Q, v) + IF K \in Q THEN (x - v) * c ELSE 0
<1> DEFINE d == IF K \in Q THEN c ELSE 0
           f == InChips(b, out, Q, x)
           k == InChips(b, out, Q, v)
           g == [u \in 1 .. x |-> IF u \in 1 .. v THEN f[u] ELSE 0]
           h == [u \in 1 .. x |-> IF u \in v + 1 .. x THEN d ELSE 0]
<1>1. /\ IsFiniteSet(1 .. x) /\ IsFiniteSet(v + 1 .. x)
      /\ Cardinality(v + 1 .. x) = x - v
      /\ 1 .. v \in SUBSET (1 .. x) /\ v + 1 .. x \in SUBSET (1 .. x)
  <2>1. IsFiniteSet(1 .. x)
    BY UpTo
  <2>2. /\ IsFiniteSet(v + 1 .. x)
        /\ Cardinality(v + 1 .. x) = IF v + 1 > x THEN 0 ELSE x - (v + 1) + 1
    BY FS_Interval
  <2> QED
    BY <2>1, <2>2
<1>2. \A u \in 1 .. x : f[u] = IF Claimants(b, out, u) \in Q THEN ChipsAt(b, u) ELSE 0
  BY DEF InChips
<1>3. \A u \in 1 .. v : k[u] = f[u]
  BY <1>1, <1>2 DEF InChips
<1>4. \A u \in 1 .. x : /\ f[u] \in Int /\ g[u] \in Int /\ h[u] \in Int
                        /\ f[u] = g[u] + h[u]
  <2>1. SUFFICES ASSUME NEW u \in 1 .. x
                 PROVE  /\ f[u] \in Int /\ g[u] \in Int /\ h[u] \in Int
                        /\ f[u] = g[u] + h[u]
    OBVIOUS
  <2>2. f[u] \in Int /\ d \in Int
    <3> HIDE DEF f
    <3> QED
      BY <1>2
  <2>3. u \in 1 .. v \/ u \in v + 1 .. x
    OBVIOUS
  <2>4. u \in v + 1 .. x => f[u] = d /\ u \notin 1 .. v
    <3> HIDE DEF f
    <3> QED
      BY <1>2
  <2>5. u \in 1 .. v => u \notin v + 1 .. x
    OBVIOUS
  <2>6. /\ g[u] = IF u \in 1 .. v THEN f[u] ELSE 0
        /\ h[u] = IF u \in v + 1 .. x THEN d ELSE 0
    OBVIOUS
  <2> HIDE DEF f, g, h, d
  <2> QED
    BY <2>2, <2>3, <2>4, <2>5, <2>6
<1>5. SumOver(h, 1 .. x) = d * (x - v)
  <2>1. \A u \in 1 .. x : h[u] = IF u \in v + 1 .. x THEN d ELSE 0
    OBVIOUS
  <2>2. d \in Int
    OBVIOUS
  <2> HIDE DEF h, d
  <2>3. SumOver(h, 1 .. x) = d * Cardinality(v + 1 .. x)
    BY <1>1, <2>1, <2>2, SumOfSome
  <2> QED
    BY <1>1, <2>3
<1>6. SumOver(g, 1 .. x) = SumOver(k, 1 .. v)
  <2>1. /\ \A u \in 1 .. v : g[u] \in Int /\ k[u] = g[u]
        /\ \A u \in (1 .. x) \ (1 .. v) : g[u] = 0
    <3>1. \A u \in 1 .. x : g[u] = IF u \in 1 .. v THEN f[u] ELSE 0
      OBVIOUS
    <3> HIDE DEF g, k, f
    <3> QED
      BY <1>1, <1>3, <1>4, <3>1
  <2> HIDE DEF g, k, f
  <2> QED
    BY <1>1, <2>1, SumSkipsZeros
<1>7. SumOver(f, 1 .. x) = SumOver(g, 1 .. x) + SumOver(h, 1 .. x)
  <2> HIDE DEF f, g, h
  <2> QED
    BY <1>1, <1>4, SumAdds
<1>8. d * (x - v) = IF K \in Q THEN (x - v) * c ELSE 0
  OBVIOUS
<1>9. SumOver(f, 1 .. x) = SumOver(k, 1 .. v) + IF K \in Q THEN (x - v) * c ELSE 0
  <2> HIDE DEF f, g, h, k, d
  <2> QED
    BY <1>5, <1>6, <1>7, <1>8
<1> QED
  BY <1>9 DEF ChipsIn

(* The largest number of a set of levels.                                  *)
Reached(s) == IF s = {} THEN 0 ELSE Max(s)

(* The loop has divided the chips up to the last level as the reference.   *)
Claimed(b, out, s, a) ==
  /\ a.last = Reached(s)
  /\ a.pots \in Seq(Pot(DOMAIN b))
  /\ IF s = {} THEN a.pots = <<>>
     ELSE a.pots # <<>> /\ a.pots[Len(a.pots)].eligible = Claimants(b, out, a.last)
  /\ \A i \in 1 .. Len(a.pots) :
       \E v \in Nat \ {0} : a.pots[i].eligible = Claimants(b, out, v)
  /\ \A Q \in SUBSET SUBSET DOMAIN b :
       AmountIn(a.pots, Q) = ChipsIn(b, out, Q, a.last)

LEMMA LevelsAreFinite ==
  ASSUME NEW S, IsFiniteSet(S), NEW b \in [S -> Nat]
  PROVE  /\ IsFiniteSet(Levels(b)) /\ Levels(b) \subseteq Nat \ {0}
         /\ \A u \in S : b[u] > 0 => b[u] \in Levels(b)
<1> DEFINE T == {b[u] : u \in S}
<1>1. IsFiniteSet(T) /\ Levels(b) = T \ {0} /\ T \subseteq Nat
  BY ImageIsFinite DEF Levels
<1>2. \A u \in S : b[u] \in T
  OBVIOUS
<1> HIDE DEF T
<1> QED
  BY <1>1, <1>2, FS_Subset

(* Somebody may win each chip, and with him whoever paid as much and is    *)
(* still in the hand.                                                      *)
LEMMA ClaimantsExist ==
  ASSUME NEW S, IsFiniteSet(S), NEW b \in [S -> Nat], NEW out \in SUBSET S, S \ out # {},
         NEW u \in Nat
  PROVE  /\ Claimants(b, out, u) # {} /\ Claimants(b, out, u) \subseteq S \ out
         /\ \A s \in Claimants(b, out, u), t \in S \ out :
              b[t] >= b[s] => t \in Claimants(b, out, u)
<1> DEFINE live == S \ out
           deep == {s \in live : b[s] >= u}
           deepest == {s \in live : \A t \in live : b[t] <= b[s]}
<1>1. deepest # {}
  <2>1. deepest = Best(live, b)
    BY DEF Best
  <2> QED
    BY <2>1, BestExists
<1>2. Claimants(b, out, u) = IF deep # {} THEN deep ELSE deepest
  BY DEF Claimants
<1>3. \A s, t \in live : b[t] >= b[s] /\ b[s] >= u => b[t] >= u
  OBVIOUS
<1>4. \A s, t \in live : b[t] >= b[s] /\ (\A w \in live : b[w] <= b[s]) => \A w \in live : b[w] <= b[t]
  <2>1. \A s \in live : b[s] \in Nat
    OBVIOUS
  <2> HIDE DEF live
  <2> QED
    BY <2>1
<1>5. /\ \A s \in deep, t \in live : b[t] >= b[s] => t \in deep
      /\ \A s \in deepest, t \in live : b[t] >= b[s] => t \in deepest
  BY <1>3, <1>4
<1> HIDE DEF deep, deepest
<1> QED
  BY <1>1, <1>2, <1>5 DEF deep, deepest

LEMMA ChipsAtIsNat ==
  ASSUME NEW S, IsFiniteSet(S), NEW b \in [S -> Nat], NEW u \in Nat
  PROVE  ChipsAt(b, u) \in Nat
<1>1. IsFiniteSet({s \in S : b[s] >= u})
  BY FS_Subset
<1> QED
  BY <1>1, FS_CardinalityType DEF ChipsAt

(* The chips between two levels belong to the same seats.                  *)
LEMMA BetweenLevels ==
  ASSUME NEW S, NEW b \in [S -> Nat], NEW out \in SUBSET S,
         NEW v \in Nat, NEW x \in Nat, v < x,
         \A s \in S : b[s] > v => b[s] >= x,
         NEW u \in v + 1 .. x
  PROVE  /\ {s \in S : b[s] >= u} = {s \in S : b[s] >= x}
         /\ ChipsAt(b, u) = ChipsAt(b, x)
         /\ Claimants(b, out, u) = Claimants(b, out, x)
<1>1. \A s \in S : b[s] >= u <=> b[s] >= x
  OBVIOUS
<1>2. /\ {s \in S : b[s] >= u} = {s \in S : b[s] >= x}
      /\ {s \in S \ out : b[s] >= u} = {s \in S \ out : b[s] >= x}
  BY <1>1
<1> QED
  BY <1>2 DEF ChipsAt, Claimants

(* Chips that only folded seats paid go to the seats that the chips below  *)
(* them go to.                                                             *)
LEMMA DeadLayer ==
  ASSUME NEW S, IsFiniteSet(S), NEW b \in [S -> Nat], NEW out \in SUBSET S, S \ out # {},
         NEW v \in Nat, NEW x \in Nat, v < x,
         \A s \in S : b[s] > v => b[s] >= x,
         {s \in S \ out : b[s] >= x} = {}
  PROVE  Claimants(b, out, x) = Claimants(b, out, v)
<1> DEFINE live == S \ out
           deep(w) == {s \in live : b[s] >= w}
           deepest == {s \in live : \A t \in live : b[t] <= b[s]}
<1>1. /\ Claimants(b, out, x) = deepest
      /\ Claimants(b, out, v) = IF deep(v) # {} THEN deep(v) ELSE deepest
  BY DEF Claimants
<1>2. \A s \in live : b[s] \in Nat /\ b[s] <= v
  OBVIOUS
<1>3. ASSUME deep(v) # {} PROVE deep(v) = deepest
  <2>1. PICK t \in live : b[t] >= v
    BY <1>3
  <2>2. b[t] = v
    BY <1>2, <2>1
  <2> HIDE DEF live
  <2>3. \A s \in live : b[s] >= v <=> \A w \in live : b[w] <= b[s]
    BY <1>2, <2>1, <2>2
  <2> QED
    BY <2>3
<1> QED
  BY <1>1, <1>3

LEMMA LayerAdded ==
  ASSUME NEW S, IsFiniteSet(S), NEW b \in [S -> Nat], NEW out \in SUBSET S,
         \E w \in S \ out : b[w] > 0,
         NEW s \in SUBSET Levels(b), s # {},
         \A y \in s, z \in Levels(b) : z < y => z \in s,
         NEW a, Claimed(b, out, s \ {Max(s)}, a)
  PROVE  Claimed(b, out, s, AddLayer(b, out, a, Max(s)))
<1> DEFINE x == Max(s)
           r == s \ {x}
           L == Levels(b)
           v == a.last
           in == {w \in S : b[w] >= x}
           c == Cardinality(in)
           K == Claimants(b, out, x)
           n == Len(a.pots)
           amount == (x - v) * c
<1>1. /\ IsFiniteSet(L) /\ L \subseteq Nat \ {0} /\ L \subseteq Int
      /\ \A u \in S : b[u] > 0 => b[u] \in L
  BY LevelsAreFinite
<1>2. /\ x \in s /\ x \in Nat /\ x > 0 /\ \A y \in s : x >= y
  <2> HIDE DEF x, L
  <2>1. Max(s) \in s /\ \A y \in s : Max(s) >= y
    BY <1>1, MaxIsLargest DEF L
  <2> QED
    BY <1>1, <2>1 DEF x, L
<1> HIDE DEF x
<1>3. /\ v = Reached(r) /\ v \in Nat /\ v < x
      /\ \A y \in r : y <= v
      /\ r = {} => v = 0
  <2>1. v = Reached(r)
    BY DEF Claimed, x
  <2>2. CASE r = {}
    BY <1>2, <2>1, <2>2 DEF Reached
  <2>3. CASE r # {}
    <3>1. Max(r) \in r /\ \A y \in r : Max(r) >= y
      <4> HIDE DEF r
      <4>1. r \in SUBSET L
        BY DEF r
      <4> QED
        BY <1>1, <2>3, <4>1, MaxIsLargest
    <3>2. v = Max(r)
      BY <2>1, <2>3 DEF Reached
    <3>3. v \in Nat /\ v # x /\ v \in s
      BY <1>1, <3>1, <3>2
    <3> HIDE DEF v
    <3>4. v < x
      BY <1>2, <3>3
    <3>5. \A y \in r : y \in Nat
      BY <1>1
    <3> HIDE DEF r
    <3> QED
      BY <2>1, <2>3, <3>1, <3>2, <3>3, <3>4, <3>5
  <2> QED
    BY <2>2, <2>3
<1>4. \A w \in S : b[w] > v => b[w] >= x
  <2>1. SUFFICES ASSUME NEW w \in S, b[w] > v, b[w] < x PROVE FALSE
    BY <1>2
  <2>2. b[w] \in Nat /\ b[w] \in L
    BY <1>1, <1>3, <2>1
  <2>3. b[w] \in s
    BY <1>2, <2>1, <2>2
  <2>4. b[w] \in r
    BY <1>2, <2>1, <2>3
  <2> HIDE DEF r, v
  <2> QED
    BY <1>3, <2>1, <2>2, <2>4
<1>5. /\ c \in Nat /\ ChipsAt(b, x) = c
      /\ \A u \in v + 1 .. x : ChipsAt(b, u) = c /\ Claimants(b, out, u) = K
  <2>1. ChipsAt(b, x) = c
    BY DEF ChipsAt
  <2>2. c \in Nat
    BY <1>2, <2>1, ChipsAtIsNat
  <2> HIDE DEF c, v, K
  <2>3. \A u \in v + 1 .. x : ChipsAt(b, u) = ChipsAt(b, x) /\ Claimants(b, out, u) = K
    BY <1>2, <1>3, <1>4, BetweenLevels DEF K
  <2> QED
    BY <2>1, <2>2, <2>3
<1>6. amount \in Nat
  <2> HIDE DEF c, v
  <2>1. x - v \in Nat
    BY <1>2, <1>3
  <2> QED
    BY <1>5, <2>1
<1>7. ASSUME NEW Q
      PROVE  ChipsIn(b, out, Q, x) = ChipsIn(b, out, Q, v) + IF K \in Q THEN amount ELSE 0
  <2>1. \A u \in 1 .. x : ChipsAt(b, u) \in Nat
    BY ChipsAtIsNat
  <2> HIDE DEF c, v, K
  <2>2. c \in Nat /\ v \in Nat /\ x \in Nat /\ v <= x
    BY <1>2, <1>3, <1>5
  <2>3. ChipsIn(b, out, Q, x) = ChipsIn(b, out, Q, v) + IF K \in Q THEN (x - v) * c ELSE 0
    BY <1>5, <2>1, <2>2, ChipsGrow
  <2> QED
    BY <2>3
<1>8. a.pots \in Seq(Pot(S)) /\ n \in Nat
  BY DEF Claimed
<1>9. Reached(s) = x
  BY DEF Reached, x
<1>10. CASE in \ out # {}
  <2> DEFINE p == [amount |-> amount, eligible |-> in \ out]
             q == Append(a.pots, p)
  <2>1. AddLayer(b, out, a, x) = [last |-> x, pots |-> q]
    BY <1>10 DEF AddLayer
  <2>2. K = in \ out
    <3>1. in \ out = {w \in S \ out : b[w] >= x}
      OBVIOUS
    <3> QED
      BY <1>10, <3>1 DEF Claimants
  <2>3. p \in Pot(S) /\ p.eligible = K /\ p.amount = amount
    BY <1>6, <2>2 DEF Pot
  <2> HIDE DEF p, K, amount, in
  <2>4. q \in Seq(Pot(S)) /\ \A Q : AmountIn(q, Q) = AmountIn(a.pots, Q) + IF K \in Q THEN amount ELSE 0
    BY <1>8, <2>3, PotAppended
  <2>5. q # <<>> /\ Len(q) = n + 1 /\ q[n + 1] = p /\ \A i \in 1 .. n : q[i] = a.pots[i]
    BY <1>8
  <2>6. \A Q \in SUBSET SUBSET S : AmountIn(q, Q) = ChipsIn(b, out, Q, x)
    BY <1>7, <2>4 DEF Claimed
  <2>7. \A i \in 1 .. n + 1 : \E w \in Nat \ {0} : q[i].eligible = Claimants(b, out, w)
    <3>1. \A i \in 1 .. n : \E w \in Nat \ {0} : a.pots[i].eligible = Claimants(b, out, w)
      BY DEF Claimed
    <3>2. SUFFICES ASSUME NEW i \in 1 .. n + 1
                   PROVE \E w \in Nat \ {0} : q[i].eligible = Claimants(b, out, w)
      OBVIOUS
    <3> HIDE DEF q, n
    <3>3. CASE i = n + 1
      BY <1>2, <2>3, <2>5, <3>3 DEF K
    <3>4. CASE i # n + 1
      <4>1. i \in 1 .. n
        BY <1>8, <3>4
      <4> QED
        BY <2>5, <3>1, <4>1
    <3> QED
      BY <3>3, <3>4
  <2> HIDE DEF q, n
  <2>8. Claimed(b, out, s, [last |-> x, pots |-> q])
    <3>1. DOMAIN b = S
      OBVIOUS
    <3> QED
      BY <1>9, <2>3, <2>4, <2>5, <2>6, <2>7, <3>1 DEF Claimed, K
  <2> QED
    BY <2>1, <2>8 DEF x
<1>11. CASE in \ out = {}
  <2>1. S \ out # {} /\ {w \in S \ out : b[w] >= x} = {}
    BY <1>11
  <2>2. r # {}
    <3>1. SUFFICES ASSUME r = {} PROVE FALSE
      OBVIOUS
    <3>2. PICK w \in S \ out : b[w] > 0
      OBVIOUS
    <3> HIDE DEF r, v
    <3>3. b[w] >= x
      BY <1>3, <1>4, <3>1, <3>2
    <3> QED
      BY <2>1, <3>3
  <2>3. K = Claimants(b, out, v)
    <3> HIDE DEF v
    <3> QED
      BY <1>2, <1>3, <1>4, <2>1, DeadLayer
  <2>4. a.pots # <<>> /\ a.pots[n].eligible = K /\ n \in 1 .. n
    <3>1. a.pots # <<>> /\ a.pots[n].eligible = Claimants(b, out, v)
      BY <2>2 DEF Claimed, x
    <3> QED
      BY <1>8, <2>3, <3>1
  <2> DEFINE q == [a.pots EXCEPT ![n].amount = @ + amount]
  <2>5. AddLayer(b, out, a, x) = [last |-> x, pots |-> q]
    <3>1. n > 0
      BY <1>8, <2>4
    <3> QED
      BY <1>11, <3>1 DEF AddLayer
  <2> HIDE DEF K, amount, in
  <2>6. /\ q \in Seq(Pot(S)) /\ Len(q) = n
        /\ \A i \in 1 .. n : q[i].eligible = a.pots[i].eligible
        /\ \A Q : AmountIn(q, Q) = AmountIn(a.pots, Q) + IF K \in Q THEN amount ELSE 0
    <3>1. n \in 1 .. Len(a.pots)
      BY <2>4
    <3> HIDE DEF n
    <3>2. ASSUME NEW Q
          PROVE  /\ q \in Seq(Pot(S)) /\ Len(q) = Len(a.pots)
                 /\ \A i \in 1 .. Len(a.pots) : q[i].eligible = a.pots[i].eligible
                 /\ AmountIn(q, Q) = AmountIn(a.pots, Q)
                                       + IF a.pots[n].eligible \in Q THEN amount ELSE 0
      <4>1. a.pots \in Seq(Pot(S)) /\ amount \in Nat
        BY <1>6, <1>8
      <4>2. q = Grown(a.pots, n, amount)
        BY DEF Grown
      <4> HIDE DEF q
      <4> QED
        BY <3>1, <4>1, <4>2, PotGrows
    <3> HIDE DEF q
    <3> QED
      BY <2>4, <3>2 DEF n
  <2> HIDE DEF q
  <2>7. \A Q \in SUBSET SUBSET S : AmountIn(q, Q) = ChipsIn(b, out, Q, x)
    BY <1>7, <2>6 DEF Claimed
  <2>8. \A i \in 1 .. n : \E w \in Nat \ {0} : q[i].eligible = Claimants(b, out, w)
    BY <2>6 DEF Claimed
  <2>9. q # <<>> /\ q[n].eligible = K
    BY <2>4, <2>6
  <2> HIDE DEF n
  <2>10. Claimed(b, out, s, [last |-> x, pots |-> q])
    <3>1. DOMAIN b = S
      OBVIOUS
    <3> QED
      BY <1>9, <2>6, <2>7, <2>8, <2>9, <3>1 DEF Claimed, K
  <2> QED
    BY <2>5, <2>10 DEF x
<1> QED
  BY <1>10, <1>11

(* The loop gives every chip to the seats the reference gives it to.       *)
LEMMA LoopIsClaimed ==
  ASSUME NEW S, IsFiniteSet(S), NEW b \in [S -> Nat], NEW out \in SUBSET S,
         \E w \in S \ out : b[w] > 0
  PROVE  Claimed(b, out, Levels(b), Loop(b, out, Levels(b)))
<1> DEFINE L == Levels(b)
           Initial(s) == \A y \in s, z \in L : z < y => z \in s
           T == {s \in SUBSET L : Initial(s) => Claimed(b, out, s, Loop(b, out, s))}
<1>1. IsFiniteSet(L) /\ L \subseteq Nat \ {0} /\ L \subseteq Int
  BY LevelsAreFinite
<1>2. ASSUME NEW s \in SUBSET L, \A y \in s : s \ {y} \in T
      PROVE  s \in T
  <2>1. SUFFICES ASSUME Initial(s) PROVE Claimed(b, out, s, Loop(b, out, s))
    OBVIOUS
  <2>2. IsFiniteSet(s) /\ s \subseteq Int
    BY <1>1, FS_Subset
  <2>3. CASE s = {}
    <3>1. Loop(b, out, s) = NoLayer
      BY <2>2, <2>3, LoopUnfolds
    <3>2. Len(<<>>) = 0 /\ 1 .. Len(<<>>) = {} /\ 1 .. 0 = {}
      OBVIOUS
    <3>3. \A Q : AmountIn(<<>>, Q) = 0 /\ ChipsIn(b, out, Q, 0) = 0
      BY <3>2, SumOfNone DEF AmountIn, ChipsIn
    <3>4. NoLayer.last = 0 /\ NoLayer.pots = <<>> /\ Reached({}) = 0
      BY DEF NoLayer, Reached
    <3>5. <<>> \in Seq(Pot(DOMAIN b))
      OBVIOUS
    <3>6. Claimed(b, out, {}, NoLayer)
      BY <3>2, <3>3, <3>4, <3>5 DEF Claimed
    <3> QED
      BY <2>3, <3>1, <3>6
  <2>4. CASE s # {}
    <3> DEFINE r == s \ {Max(s)}
    <3>1. Max(s) \in s /\ \A y \in s : Max(s) >= y
      BY <2>2, <2>4, MaxIsLargest
    <3>2. Initial(r)
      <4>1. SUFFICES ASSUME NEW y \in r, NEW z \in L, z < y PROVE z \in r
        OBVIOUS
      <4>2. z \in s /\ z \in Int /\ y \in Int /\ Max(s) \in Int /\ Max(s) >= y
        BY <1>1, <2>1, <3>1, <4>1
      <4> QED
        BY <4>1, <4>2
    <3>3. Claimed(b, out, r, Loop(b, out, r))
      BY <1>2, <3>1, <3>2
    <3>4. Loop(b, out, s) = AddLayer(b, out, Loop(b, out, r), Max(s))
      BY <2>2, <2>4, LoopUnfolds
    <3>5. Claimed(b, out, s, AddLayer(b, out, Loop(b, out, r), Max(s)))
      BY <2>1, <2>4, <3>3, LayerAdded
    <3> QED
      BY <3>4, <3>5
  <2> QED
    BY <2>3, <2>4
<1>3. L \in T
  <2> HIDE DEF T, L
  <2> QED
    BY <1>1, <1>2, SubsetInduction
<1>4. Initial(L)
  OBVIOUS
<1> QED
  BY <1>3, <1>4

(* The seats of a hand, what they put in and who folded.                   *)
Staked(S, b, out) ==
  /\ IsFiniteSet(S) /\ S \subseteq Int
  /\ b \in [S -> Nat] /\ out \in SUBSET S

(* Somebody who is still in has paid.                                      *)
Paying(S, b, out) == Staked(S, b, out) /\ \E w \in S \ out : b[w] > 0

(* Somebody is left, and has paid unless there is nobody else.             *)
Payable(S, b, out) ==
  /\ Staked(S, b, out) /\ S \ out # {}
  /\ Cardinality(S \ out) # 1 => Paying(S, b, out)

(* What the pots of a hand are, whoever folded and whatever was put in, if *)
(* somebody still in it has paid: each has seats that may win it, all      *)
(* still in, and with one of them whoever of these paid as much; and the   *)
(* chips any sets of seats may win are those the reference gives them.     *)
LEMMA PotsAreClaimed ==
  ASSUME NEW S, NEW b, NEW out, Paying(S, b, out),
         NEW p, p = SidePotsWithDeadMoney(b, out), NEW m, m = Reached(Levels(b))
  PROVE  /\ p \in Seq(Pot(S))
         /\ \A i \in 1 .. Len(p) :
              /\ p[i].eligible # {} /\ p[i].eligible \subseteq S \ out
              /\ \A s \in p[i].eligible, t \in S \ out :
                   b[t] >= b[s] => t \in p[i].eligible
         /\ m \in Nat
         /\ \A u \in S : b[u] <= m
         /\ \A Q \in SUBSET SUBSET S :
              AmountIn(p, Q) = ChipsIn(b, out, Q, m)
<1> DEFINE L == Levels(b)
           a == Loop(b, out, L)
<1>0. /\ IsFiniteSet(S) /\ b \in [S -> Nat] /\ out \in SUBSET S
      /\ \E w \in S \ out : b[w] > 0
  BY DEF Paying, Staked
<1> USE <1>0
<1>1. p = a.pots
  BY PotsUnfold DEF Loop
<1>2. Claimed(b, out, L, a)
  BY LoopIsClaimed
<1>3. DOMAIN b = S
  OBVIOUS
<1>4. /\ IsFiniteSet(L) /\ L \subseteq Nat \ {0} /\ L \subseteq Int
      /\ \A u \in S : b[u] > 0 => b[u] \in L
  BY LevelsAreFinite
<1>5. L # {} /\ S \ out # {}
  <2>1. PICK w \in S \ out : b[w] > 0
    OBVIOUS
  <2> QED
    BY <1>4, <2>1
<1>6. Reached(L) \in L /\ \A y \in L : Reached(L) >= y
  <2> HIDE DEF L
  <2> QED
    BY <1>4, <1>5, MaxIsLargest DEF Reached
<1>7. Reached(L) \in Nat /\ \A u \in S : b[u] <= Reached(L)
  <2>1. Reached(L) \in Nat
    BY <1>4, <1>6
  <2>2. ASSUME NEW u \in S PROVE b[u] <= Reached(L)
    <3>1. b[u] \in Nat
      OBVIOUS
    <3>2. b[u] > 0 => Reached(L) >= b[u]
      BY <1>4, <1>6
    <3> HIDE DEF L
    <3> QED
      BY <2>1, <3>1, <3>2
  <2> QED
    BY <2>1, <2>2
<1> HIDE DEF a, L
<1>8. /\ p \in Seq(Pot(S))
      /\ \A i \in 1 .. Len(p) : \E v \in Nat \ {0} : p[i].eligible = Claimants(b, out, v)
      /\ \A Q \in SUBSET SUBSET S : AmountIn(p, Q) = ChipsIn(b, out, Q, Reached(L))
  BY <1>1, <1>2, <1>3 DEF Claimed
<1>9. ASSUME NEW i \in 1 .. Len(p)
      PROVE  /\ p[i].eligible # {} /\ p[i].eligible \subseteq S \ out
             /\ \A s \in p[i].eligible, t \in S \ out :
                  b[t] >= b[s] => t \in p[i].eligible
  <2>1. PICK v \in Nat \ {0} : p[i].eligible = Claimants(b, out, v)
    BY <1>8
  <2>2. v \in Nat
    OBVIOUS
  <2>3. /\ Claimants(b, out, v) # {} /\ Claimants(b, out, v) \subseteq S \ out
        /\ \A s \in Claimants(b, out, v), t \in S \ out :
             b[t] >= b[s] => t \in Claimants(b, out, v)
    BY <1>5, <2>2, ClaimantsExist
  <2> QED
    BY <2>1, <2>3
<1> QED
  BY <1>7, <1>8, <1>9 DEF L

(* Counted level by level, the chips are what the seats put in.            *)
LEMMA ChipsAreTheBets ==
  ASSUME NEW S, IsFiniteSet(S), NEW b \in [S -> Nat], NEW out \in SUBSET S, S \ out # {},
         NEW m \in Nat, \A u \in S : b[u] <= m
  PROVE  ChipsIn(b, out, SUBSET S, m) = SumOver(b, S)
<1> DEFINE F == [s \in S |-> [u \in 1 .. m |-> IF u \in 1 .. b[s] THEN 1 ELSE 0]]
           row == [s \in S |-> SumOver(F[s], 1 .. m)]
           col == [u \in 1 .. m |-> SumOver(Column(F, S, u), S)]
           c == InChips(b, out, SUBSET S, m)
<1>1. IsFiniteSet(1 .. m)
  BY UpTo
<1>2. \A s \in S, u \in 1 .. m : F[s][u] = IF u \in 1 .. b[s] THEN 1 ELSE 0
  OBVIOUS
<1>3. SumOver(row, S) = SumOver(col, 1 .. m)
  <2>1. \A s \in S, u \in 1 .. m : F[s][u] \in Int
    BY <1>2
  <2>2. /\ \A s \in S : row[s] = SumOver(F[s], 1 .. m)
        /\ \A u \in 1 .. m : col[u] = SumOver(Column(F, S, u), S)
    OBVIOUS
  <2> HIDE DEF F, row, col
  <2> DEFINE I == 1 .. m
  <2>3. /\ IsFiniteSet(I) /\ \A s \in S, u \in I : F[s][u] \in Int
        /\ \A s \in S : row[s] = SumOver(F[s], I)
        /\ \A u \in I : col[u] = SumOver(Column(F, S, u), S)
    BY <1>1, <2>1, <2>2
  <2> HIDE DEF I
  <2>4. SumOver(row, S) = SumOver(col, I)
    BY <2>3, SumsSwap
  <2> QED
    BY <2>4 DEF I
<1>4. ASSUME NEW s \in S PROVE row[s] = b[s]
  <2>1. b[s] \in Nat /\ b[s] <= m /\ 1 .. b[s] \in SUBSET (1 .. m)
    OBVIOUS
  <2>2. row[s] = SumOver(F[s], 1 .. m)
    OBVIOUS
  <2>3. SumOver(F[s], 1 .. m) = 1 * Cardinality(1 .. b[s])
    <3>1. \A u \in 1 .. m : F[s][u] = IF u \in 1 .. b[s] THEN 1 ELSE 0
      BY <1>2
    <3> HIDE DEF F
    <3> QED
      BY <1>1, <2>1, <3>1, SumOfSome
  <2>4. Cardinality(1 .. b[s]) = b[s]
    BY <2>1, UpToCount
  <2> HIDE DEF row, F
  <2> QED
    BY <2>1, <2>2, <2>3, <2>4
<1>5. SumOver(row, S) = SumOver(b, S)
  <2>1. /\ \A s \in S : row[s] \in Int /\ b[s] = row[s]
        /\ \A s \in S \ S : row[s] = 0
        /\ S \in SUBSET S
    BY <1>4
  <2> HIDE DEF row
  <2> QED
    BY <2>1, SumSkipsZeros
<1>6. ASSUME NEW u \in 1 .. m PROVE col[u] = ChipsAt(b, u) /\ c[u] = col[u] /\ col[u] \in Int
  <2>1. ChipsAt(b, u) \in Nat
    BY ChipsAtIsNat
  <2>2. Claimants(b, out, u) \in SUBSET S
    BY ClaimantsExist
  <2>3. c[u] = ChipsAt(b, u)
    BY <2>2 DEF InChips
  <2>4. col[u] = ChipsAt(b, u)
    <3> DEFINE f == Column(F, S, u)
               R == {s \in S : b[s] >= u}
    <3>1. \A s \in S : f[s] = IF s \in R THEN 1 ELSE 0
      BY <1>2 DEF Column
    <3>2. ChipsAt(b, u) = Cardinality(R)
      BY DEF ChipsAt
    <3>3. R \in SUBSET S
      OBVIOUS
    <3> HIDE DEF R, F, f
    <3>4. SumOver(f, S) = 1 * Cardinality(R)
      BY <3>1, <3>3, SumOfSome
    <3>5. SumOver(f, S) = Cardinality(R)
      BY <2>1, <3>2, <3>4
    <3> QED
      BY <3>2, <3>5 DEF f
  <2> HIDE DEF col, c
  <2> QED
    BY <2>1, <2>3, <2>4
<1>7. SumOver(col, 1 .. m) = SumOver(c, 1 .. m)
  <2>1. /\ \A u \in 1 .. m : col[u] \in Int /\ c[u] = col[u]
        /\ \A u \in (1 .. m) \ (1 .. m) : col[u] = 0
        /\ 1 .. m \in SUBSET (1 .. m)
    BY <1>6
  <2> HIDE DEF c, col
  <2> QED
    BY <1>1, <2>1, SumSkipsZeros
<1> HIDE DEF row, col
<1> QED
  BY <1>3, <1>5, <1>7 DEF ChipsIn

-----------------------------------------------------------------------------
(* What the seats win.                                                     *)
LEMMA PotsIndexed ==
  ASSUME NEW S, NEW p \in Seq(Pot(S))
  PROVE  /\ IsFiniteSet(1 .. Len(p)) /\ DOMAIN p = 1 .. Len(p)
         /\ \A i \in 1 .. Len(p) : p[i] \in Pot(S) /\ p[i].amount \in Nat
<1>1. Len(p) \in Nat /\ DOMAIN p = 1 .. Len(p) /\ \A i \in 1 .. Len(p) : p[i] \in Pot(S)
  OBVIOUS
<1>2. IsFiniteSet(1 .. Len(p))
  BY <1>1, UpTo
<1> QED
  BY <1>1, <1>2 DEF Pot

(* The shares of the pots: a row for each seat, a column for each pot.     *)
PotShares(p, rank, S) ==
  [s \in S |-> [i \in 1 .. Len(p) |-> ShareOf(p[i], rank, s)]]

(* Two or more seats are left: each wins its shares of the pots.           *)
LEMMA WinnersShare ==
  ASSUME NEW S, NEW b, NEW out, Paying(S, b, out),
         Cardinality(S \ out) # 1, NEW rank,
         NEW p, p \in Seq(Pot(S)), p = SidePotsWithDeadMoney(b, out),
         NEW s \in S
  PROVE  PotWinners(b, out, rank)[s] = SumOver(PotShares(p, rank, S)[s], 1 .. Len(p))
<1> DEFINE f == [i \in DOMAIN p |-> ShareOf(p[i], rank, s)]
<1>1. PotWinners(b, out, rank)[s] = SumFunction(f)
  BY DEF PotWinners, Paying, Staked
<1>2. DOMAIN p = 1 .. Len(p)
  OBVIOUS
<1>3. f = PotShares(p, rank, S)[s] /\ DOMAIN f = 1 .. Len(p)
  BY <1>2 DEF PotShares
<1> HIDE DEF f
<1> QED
  BY <1>1, <1>3, SumFunctionIsSum

(* Pots that somebody may win, and the strength of the hands.              *)
Winning(S, rank, p) ==
  /\ IsFiniteSet(S) /\ S \subseteq Int /\ rank \in [S -> Nat]
  /\ p \in Seq(Pot(S)) /\ \A i \in 1 .. Len(p) : p[i].eligible # {}

(* The pots and what the reference gives, put together: what the seats win *)
(* is what they put in.                                                    *)
LEMMA SharesAddUp ==
  ASSUME NEW S, NEW rank, NEW p, Winning(S, rank, p),
         NEW won, \A s \in S : won[s] = SumOver(PotShares(p, rank, S)[s], 1 .. Len(p))
  PROVE  /\ \A s \in S : won[s] \in Nat
         /\ SumOver(won, S) = AmountIn(p, SUBSET S)
<1> DEFINE I == 1 .. Len(p)
           F == PotShares(p, rank, S)
           col == [i \in I |-> SumOver(Column(F, S, i), S)]
           a == InPots(p, SUBSET S)
<1>0. /\ IsFiniteSet(S) /\ S \subseteq Int /\ rank \in [S -> Nat]
      /\ p \in Seq(Pot(S)) /\ \A i \in 1 .. Len(p) : p[i].eligible # {}
  BY DEF Winning
<1> USE <1>0
<1>1. IsFiniteSet(I) /\ \A i \in I : p[i] \in Pot(S) /\ p[i].eligible # {}
  BY PotsIndexed
<1>2. \A s \in S, i \in I : F[s][i] = ShareOf(p[i], rank, s)
  BY DEF PotShares
<1>3. \A s \in S, i \in I : F[s][i] \in Nat
  <2>1. SUFFICES ASSUME NEW i \in I PROVE \A s \in S : F[s][i] \in Nat
    OBVIOUS
  <2>2. p[i] \in Pot(S) /\ p[i].eligible # {}
    BY <1>1
  <2>3. \A s \in S : ShareOf(p[i], rank, s) \in Nat
    BY <2>2, SharesAreThePot
  <2> QED
    BY <1>2, <2>3
<1>4. \A s \in S : won[s] \in Nat
  <2> HIDE DEF F, I
  <2> QED
    BY <1>1, <1>3, SumIsNat DEF F, I
<1>5. ASSUME NEW i \in I PROVE col[i] = p[i].amount /\ p[i].amount \in Nat /\ a[i] = p[i].amount
  <2>1. p[i] \in Pot(S) /\ p[i].eligible # {}
    BY <1>1
  <2>2. Column(F, S, i) = [s \in S |-> ShareOf(p[i], rank, s)]
    BY <1>2 DEF Column
  <2>3. SumOver([s \in S |-> ShareOf(p[i], rank, s)], S) = p[i].amount
    BY <2>1, SharesAreThePot
  <2>4. p[i].amount \in Nat /\ p[i].eligible \in SUBSET S
    BY <2>1 DEF Pot
  <2>5. a[i] = p[i].amount
    BY <2>4 DEF InPots
  <2> QED
    BY <2>2, <2>3, <2>4, <2>5
<1>6. SumOver(won, S) = SumOver(col, I)
  <2>1. /\ \A s \in S, i \in I : F[s][i] \in Int
        /\ \A s \in S : won[s] = SumOver(F[s], I)
        /\ \A i \in I : col[i] = SumOver(Column(F, S, i), S)
    BY <1>3
  <2>2. IsFiniteSet(I) /\ IsFiniteSet(S)
    BY <1>1
  <2> HIDE DEF I, F, col
  <2> QED
    BY ONLY <2>1, <2>2, SumsSwap, SMT
<1>7. SumOver(col, I) = SumOver(a, I)
  <2>1. /\ \A i \in I : col[i] \in Int /\ a[i] = col[i]
        /\ \A i \in I \ I : col[i] = 0
        /\ I \in SUBSET I
    <3> HIDE DEF I, a, col
    <3> QED
      BY <1>5
  <2> HIDE DEF I, a, col
  <2> QED
    BY <1>1, <2>1, SumSkipsZeros
<1> HIDE DEF col
<1> QED
  BY <1>4, <1>6, <1>7 DEF AmountIn

(* A seat without a best hand of any pot wins nothing.                     *)
LEMMA NoShares ==
  ASSUME NEW S, NEW rank, NEW p, Winning(S, rank, p),
         NEW s \in S, \A i \in 1 .. Len(p) : s \notin Best(p[i].eligible, rank)
  PROVE  SumOver(PotShares(p, rank, S)[s], 1 .. Len(p)) = 0
<1> DEFINE f == PotShares(p, rank, S)[s]
<1>0. /\ IsFiniteSet(S) /\ S \subseteq Int /\ rank \in [S -> Nat]
      /\ p \in Seq(Pot(S)) /\ \A i \in 1 .. Len(p) : p[i].eligible # {}
  BY DEF Winning
<1> USE <1>0
<1>1. \A i \in 1 .. Len(p) : f[i] = ShareOf(p[i], rank, s)
  BY DEF PotShares
<1>2. \A i \in 1 .. Len(p) : p[i] \in Pot(S)
  BY PotsIndexed
<1>3. \A i \in 1 .. Len(p) : f[i] = 0
  <2>1. SUFFICES ASSUME NEW i \in 1 .. Len(p) PROVE f[i] = 0
    OBVIOUS
  <2>2. p[i] \in Pot(S) /\ p[i].eligible # {} /\ s \in S \ Best(p[i].eligible, rank)
    BY <1>2
  <2>3. \A u \in S \ Best(p[i].eligible, rank) : ShareOf(p[i], rank, u) = 0
    BY <2>2, SharesAreThePot, Zenon
  <2> QED
    BY <1>1, <2>2, <2>3
<1>4. IsFiniteSet(1 .. Len(p))
  BY PotsIndexed
<1> HIDE DEF f
<1> QED
  BY <1>3, <1>4, SumOfZeros DEF f

(* A seat wins the pots that nobody else may win.                          *)
LEMMA AloneTakesAll ==
  ASSUME NEW S, NEW rank, NEW p, Winning(S, rank, p),
         NEW s \in S
  PROVE  SumOver(PotShares(p, rank, S)[s], 1 .. Len(p)) >= AmountIn(p, {{s}})
<1> DEFINE I == 1 .. Len(p)
           f == PotShares(p, rank, S)[s]
           a == InPots(p, {{s}})
<1>0. /\ IsFiniteSet(S) /\ S \subseteq Int /\ rank \in [S -> Nat]
      /\ p \in Seq(Pot(S)) /\ \A i \in 1 .. Len(p) : p[i].eligible # {}
  BY DEF Winning
<1> USE <1>0
<1>1. IsFiniteSet(I) /\ \A i \in I : p[i] \in Pot(S) /\ p[i].eligible # {}
  BY PotsIndexed
<1>2. \A i \in I : /\ f[i] = ShareOf(p[i], rank, s)
                   /\ a[i] = IF p[i].eligible = {s} THEN p[i].amount ELSE 0
  BY DEF PotShares, InPots
<1>3. ASSUME NEW i \in I PROVE f[i] \in Int /\ a[i] \in Int /\ a[i] <= f[i]
  <2> DEFINE g == [u \in S |-> ShareOf(p[i], rank, u)]
  <2>1. /\ \A u \in S : g[u] \in Nat
        /\ \A u \in S \ Best(p[i].eligible, rank) : g[u] = 0
        /\ SumOver(g, S) = p[i].amount
    <3>1. p[i] \in Pot(S) /\ p[i].eligible # {}
      BY <1>1
    <3>2. /\ \A u \in S : ShareOf(p[i], rank, u) \in Nat
          /\ \A u \in S \ Best(p[i].eligible, rank) : ShareOf(p[i], rank, u) = 0
          /\ SumOver([u \in S |-> ShareOf(p[i], rank, u)], S) = p[i].amount
      BY <3>1, SharesAreThePot, Zenon
    <3> QED
      BY <3>2
  <2>2. g[s] = f[i] /\ p[i].amount \in Nat
    BY <1>2, PotsIndexed
  <2>3. ASSUME p[i].eligible = {s} PROVE f[i] = p[i].amount
    <3>1. \A u \in S \ {s} : g[u] = 0
      BY <2>1, <2>3 DEF Best
    <3>2. g[s] \in Int
      BY <2>1
    <3> HIDE DEF g
    <3>3. SumOver(g, S) = g[s]
      BY <3>1, <3>2, SumOfOne
    <3> QED
      BY <2>1, <2>2, <3>3
  <2>4. f[i] \in Nat
    BY <2>1, <2>2
  <2> HIDE DEF f, a
  <2> QED
    BY <1>2, <2>2, <2>3, <2>4
<1> HIDE DEF f, a
<1>4. SumOver(a, I) <= SumOver(f, I)
  <2> HIDE DEF I
  <2> QED
    BY <1>1, <1>3, SumIsMonotone
<1>5. SumOver(a, I) \in Int /\ SumOver(f, I) \in Int
  <2> HIDE DEF I
  <2> QED
    BY <1>1, <1>3, SumIsInt
<1> QED
  BY <1>4, <1>5 DEF AmountIn, f, a

(* The reference leaves a seat what it paid and nobody else did.           *)
LEMMA UnmatchedChips ==
  ASSUME NEW S, IsFiniteSet(S), NEW b \in [S -> Nat], NEW out \in SUBSET S,
         NEW s \in S \ out, NEW v \in Nat, v < b[s],
         \A w \in S \ {s} : b[w] <= v,
         NEW m \in Nat, \A u \in S : b[u] <= m
  PROVE  ChipsIn(b, out, {{s}}, m) >= b[s] - v
<1> DEFINE f == InChips(b, out, {{s}}, m)
           R == v + 1 .. b[s]
           g == [u \in 1 .. m |-> IF u \in R THEN 1 ELSE 0]
<1>1. IsFiniteSet(1 .. m) /\ R \in SUBSET (1 .. m) /\ Cardinality(R) = b[s] - v
  <2>1. b[s] \in Nat /\ b[s] <= m
    OBVIOUS
  <2>2. Cardinality(R) = IF v + 1 > b[s] THEN 0 ELSE b[s] - (v + 1) + 1
    <3>1. v + 1 \in Int /\ b[s] \in Int
      BY <2>1
    <3> QED
      BY <3>1, FS_Interval
  <2>3. R \in SUBSET (1 .. m)
    BY <2>1
  <2>4. Cardinality(R) = b[s] - v
    <3> HIDE DEF R
    <3> QED
      BY <2>1, <2>2
  <2> QED
    BY <2>3, <2>4, UpTo
<1>2. \A u \in 1 .. m : f[u] = IF Claimants(b, out, u) = {s} THEN ChipsAt(b, u) ELSE 0
  BY DEF InChips
<1>3. ASSUME NEW u \in R PROVE Claimants(b, out, u) = {s} /\ ChipsAt(b, u) = 1
  <2>1. \A w \in S : b[w] >= u <=> w = s
    <3>1. \A w \in S : b[w] \in Nat
      OBVIOUS
    <3>2. u \in Int /\ u > v /\ u <= b[s]
      BY <3>1
    <3> QED
      BY <3>1, <3>2
  <2>2. {w \in S : b[w] >= u} = {s} /\ {w \in S \ out : b[w] >= u} = {s}
    BY <2>1
  <2>3. ChipsAt(b, u) = Cardinality({s})
    BY <2>2 DEF ChipsAt
  <2>4. Claimants(b, out, u) = {s}
    BY <2>2 DEF Claimants
  <2> QED
    BY <2>3, <2>4, FS_Singleton
<1>4. ASSUME NEW u \in 1 .. m PROVE g[u] \in Int /\ f[u] \in Int /\ g[u] <= f[u]
  <2>1. ChipsAt(b, u) \in Nat
    BY ChipsAtIsNat
  <2>2. g[u] = IF u \in R THEN 1 ELSE 0
    OBVIOUS
  <2> HIDE DEF f, g, R
  <2> QED
    BY <1>2, <1>3, <2>1, <2>2
<1>5. SumOver(g, 1 .. m) = 1 * Cardinality(R)
  <2> DEFINE I == 1 .. m
  <2>1. /\ \A u \in I : g[u] = IF u \in R THEN 1 ELSE 0
        /\ R \in SUBSET I /\ IsFiniteSet(I) /\ 1 \in Int
    BY <1>1
  <2> HIDE DEF g, R, I
  <2>2. SumOver(g, I) = 1 * Cardinality(R)
    BY ONLY <2>1, SumOfSome
  <2> QED
    BY <2>2 DEF I
<1>6. SumOver(g, 1 .. m) <= SumOver(f, 1 .. m) /\ SumOver(f, 1 .. m) \in Int
  <2> HIDE DEF g, f
  <2> QED
    BY <1>1, <1>4, SumIsMonotone, SumIsInt
<1>7. ChipsIn(b, out, {{s}}, m) = SumOver(f, 1 .. m)
  BY DEF ChipsIn
<1> HIDE DEF f, g, R
<1>8. b[s] \in Nat
  OBVIOUS
<1> QED
  BY <1>1, <1>5, <1>6, <1>7, <1>8

(* A member of a finite set with the most of something.                    *)
LEMMA SomebodyHasMost ==
  ASSUME NEW S, IsFiniteSet(S), NEW b \in [S -> Nat], NEW A \in SUBSET S, A # {}
  PROVE  \E t \in A : \A w \in A : b[w] <= b[t]
<1>1. Best(A, b) # {}
  BY BestExists
<1> QED
  BY <1>1 DEF Best

(* One seat is left: it takes the pot.                                     *)
LEMMA LastOneTakesAll ==
  ASSUME NEW S, NEW b, NEW out, Staked(S, b, out),
         NEW x \in S \ out, \A u \in S \ out : u = x, NEW rank,
         NEW won, won = PotWinners(b, out, rank)
  PROVE  /\ \A s \in S : won[s] = IF s = x THEN SumOver(b, S) ELSE 0
         /\ SumOver(won, S) = SumOver(b, S)
<1>0. IsFiniteSet(S) /\ b \in [S -> Nat] /\ out \in SUBSET S
  BY DEF Staked
<1> USE <1>0
<1>1. Cardinality(S \ out) = 1 /\ x \in S /\ S \ out = {x}
  <2>1. S \ out = {x}
    OBVIOUS
  <2> QED
    BY <2>1, FS_Singleton
<1>2. DOMAIN b = S
  OBVIOUS
<1>3. SumFunction(b) = SumOver(b, S)
  BY <1>2, SumFunctionIsSum
<1>4. \A s \in S : won[s] = IF s = x THEN SumOver(b, S) ELSE 0
  <2>1. SUFFICES ASSUME NEW s \in S PROVE won[s] = IF s = x THEN SumOver(b, S) ELSE 0
    OBVIOUS
  <2>2. won[s] = IF s \in S \ out THEN SumFunction(b) ELSE 0
    BY <1>1, <1>2 DEF PotWinners
  <2> QED
    BY <1>1, <1>3, <2>2
<1>5. SumOver(b, S) \in Int
  BY SumIsInt
<1>6. SumOver(won, S) = won[x]
  BY <1>1, <1>4, <1>5, SumOfOne
<1> QED
  BY <1>1, <1>4, <1>6

(* The chips of a hand go to the seats still in it, none are left over,    *)
(* and the rules of table stakes hold: a seat wins nothing against a       *)
(* better hand that paid as much, and the chips that one seat alone paid   *)
(* come back to it.                                                        *)
THEOREM PayoutIsFair ==
  ASSUME NEW S, NEW b, NEW out, Payable(S, b, out), NEW rank, rank \in [S -> Nat],
         NEW won, won = PotWinners(b, out, rank)
  PROVE  /\ \A s \in S : won[s] \in Nat
         /\ SumOver(won, S) = SumOver(b, S)
         /\ \A s \in out : won[s] = 0
         /\ \A s \in S : (\E t \in S \ out : rank[t] > rank[s] /\ b[t] >= b[s])
                           => won[s] = 0
         /\ \A s \in S \ out, v \in Nat :
              (\A w \in S \ {s} : b[w] <= v) => won[s] >= b[s] - v
<1>a. /\ Staked(S, b, out) /\ won = PotWinners(b, out, rank) /\ S \ out # {}
      /\ Cardinality(S \ out) # 1 => Paying(S, b, out)
  BY DEF Payable
<1>0. /\ IsFiniteSet(S) /\ S \subseteq Int /\ b \in [S -> Nat] /\ out \in SUBSET S
      /\ S \ out # {}
  BY <1>a DEF Staked
<1> USE <1>0
<1>1. SumOver(b, S) \in Nat /\ \A s \in S : b[s] \in Nat /\ b[s] <= SumOver(b, S)
  <2>1. SumOver(b, S) \in Nat
    BY SumIsNat
  <2>2. ASSUME NEW s \in S PROVE b[s] <= SumOver(b, S)
    <3>1. IsFiniteSet(S \ {s}) /\ \A u \in S \ {s} : b[u] \in Nat
      BY FS_Subset
    <3>2. SumOver(b, S \ {s}) \in Nat
      BY <3>1, SumIsNat
    <3>3. SumOver(b, S) = b[s] + SumOver(b, S \ {s})
      <4>1. \A u \in S : b[u] \in Int
        OBVIOUS
      <4> QED
        BY <4>1, SumRemoves
    <3>4. b[s] \in Nat
      OBVIOUS
    <3> QED
      BY <3>2, <3>3, <3>4
  <2> QED
    BY <2>1, <2>2
<1>2. CASE Cardinality(S \ out) = 1
  <2>1. IsFiniteSet(S \ out)
    BY FS_Subset
  <2>2. PICK x : S \ out = {x}
    BY <1>2, <2>1, FS_Singleton
  <2>3. /\ \A s \in S : won[s] = IF s = x THEN SumOver(b, S) ELSE 0
        /\ SumOver(won, S) = SumOver(b, S)
    <3>1. x \in S \ out /\ \A u \in S \ out : u = x
      BY <2>2
    <3> QED
      BY ONLY <1>a, <3>1, LastOneTakesAll
  <2>4. \A s \in S : won[s] \in Nat
    BY <1>1, <2>3
  <2>5. \A s \in out : won[s] = 0
    BY <2>2, <2>3
  <2>6. ASSUME NEW s \in S, NEW t \in S \ out, rank[t] > rank[s]
        PROVE  won[s] = 0
    <3>1. t = x
      BY <2>2
    <3>2. rank[t] \in Nat /\ rank[s] \in Nat
      OBVIOUS
    <3>3. s # x
      BY <2>6, <3>1, <3>2
    <3> QED
      BY <2>3, <3>3
  <2>7. ASSUME NEW s \in S \ out, NEW v \in Nat PROVE won[s] >= b[s] - v
    <3>1. s = x /\ s \in S
      BY <2>2
    <3>2. won[s] = SumOver(b, S)
      BY <2>3, <3>1
    <3>3. b[s] \in Nat /\ b[s] <= SumOver(b, S)
      BY <1>1, <3>1
    <3> QED
      BY <1>1, <3>2, <3>3
  <2> QED
    BY <2>3, <2>4, <2>5, <2>6, <2>7
<1>3. CASE Cardinality(S \ out) # 1
  <2>0. Paying(S, b, out)
    BY <1>a, <1>3
  <2> DEFINE p == SidePotsWithDeadMoney(b, out)
             m == Reached(Levels(b))
  <2>1. /\ p \in Seq(Pot(S))
        /\ \A i \in 1 .. Len(p) :
             /\ p[i].eligible # {} /\ p[i].eligible \subseteq S \ out
             /\ \A s \in p[i].eligible, t \in S \ out :
                  b[t] >= b[s] => t \in p[i].eligible
        /\ m \in Nat
        /\ \A u \in S : b[u] <= m
        /\ \A Q \in SUBSET SUBSET S : AmountIn(p, Q) = ChipsIn(b, out, Q, m)
    <3>1. p = SidePotsWithDeadMoney(b, out) /\ m = Reached(Levels(b))
      OBVIOUS
    <3> HIDE DEF p, m
    <3> QED
      BY ONLY <2>0, <3>1, PotsAreClaimed
  <2>2. ASSUME NEW s \in S
        PROVE  won[s] = SumOver(PotShares(p, rank, S)[s], 1 .. Len(p))
    <3>1. p \in Seq(Pot(S)) /\ p = SidePotsWithDeadMoney(b, out)
      BY <2>1
    <3> HIDE DEF p
    <3>2. PotWinners(b, out, rank)[s] = SumOver(PotShares(p, rank, S)[s], 1 .. Len(p))
      BY <1>3, <2>0, <3>1, WinnersShare
    <3> QED
      BY <3>2
  <2> HIDE DEF p, m
  <2>3. (\A s \in S : won[s] \in Nat) /\ SumOver(won, S) = AmountIn(p, SUBSET S)
    <3>1. Winning(S, rank, p)
      BY <2>1 DEF Winning
    <3>2. \A s \in S : won[s] = SumOver(PotShares(p, rank, S)[s], 1 .. Len(p))
      BY <2>2
    <3> QED
      BY ONLY <3>1, <3>2, SharesAddUp
  <2>4. SumOver(won, S) = SumOver(b, S)
    <3>1. SumOver(won, S) = AmountIn(p, SUBSET S)
      BY <2>3
    <3>2. AmountIn(p, SUBSET S) = ChipsIn(b, out, SUBSET S, m)
      BY <2>1
    <3>3. ChipsIn(b, out, SUBSET S, m) = SumOver(b, S)
      <4>1. S \ out # {}
        OBVIOUS
      <4>2. m \in Nat /\ \A u \in S : b[u] <= m
        BY <2>1
      <4> QED
        BY <4>1, <4>2, ChipsAreTheBets
    <3> QED
      BY <3>1, <3>2, <3>3
  <2>5. ASSUME NEW s \in S, \A i \in 1 .. Len(p) : s \notin Best(p[i].eligible, rank)
        PROVE  won[s] = 0
    <3>1. Winning(S, rank, p)
      BY <2>1 DEF Winning
    <3>2. SumOver(PotShares(p, rank, S)[s], 1 .. Len(p)) = 0
      BY <2>1, <2>5, <3>1, NoShares
    <3> QED
      BY <2>2, <3>2
  <2>6. ASSUME NEW s \in out PROVE won[s] = 0
    <3>1. \A i \in 1 .. Len(p) : s \notin Best(p[i].eligible, rank)
      BY <2>1 DEF Best
    <3> QED
      BY <2>5, <3>1
  <2>7. ASSUME NEW s \in S, NEW t \in S \ out, rank[t] > rank[s], b[t] >= b[s]
        PROVE  won[s] = 0
    <3>1. SUFFICES ASSUME NEW i \in 1 .. Len(p), s \in Best(p[i].eligible, rank)
                   PROVE  FALSE
      BY <2>5
    <3>2. s \in p[i].eligible /\ \A w \in p[i].eligible : rank[w] <= rank[s]
      BY <3>1 DEF Best
    <3>3. t \in p[i].eligible
      BY <2>1, <2>7, <3>2
    <3>4. rank[t] \in Nat /\ rank[s] \in Nat /\ rank[t] <= rank[s]
      BY <3>2, <3>3
    <3> QED
      BY <2>7, <3>4
  <2>8. ASSUME NEW s \in S \ out, NEW v \in Nat, \A w \in S \ {s} : b[w] <= v
        PROVE  won[s] >= b[s] - v
    <3>1. b[s] \in Nat /\ won[s] \in Nat
      BY <2>3
    <3>2. CASE b[s] <= v
      BY <3>1, <3>2
    <3>3. CASE ~(b[s] <= v)
      <4>1. v < b[s]
        BY <3>1, <3>3
      <4>2. ChipsIn(b, out, {{s}}, m) >= b[s] - v
        BY <2>1, <2>8, <4>1, UnmatchedChips
      <4>3. AmountIn(p, {{s}}) = ChipsIn(b, out, {{s}}, m)
        BY <2>1
      <4>4. Winning(S, rank, p)
        BY <2>1 DEF Winning
      <4>5. SumOver(PotShares(p, rank, S)[s], 1 .. Len(p)) >= AmountIn(p, {{s}})
        BY <2>1, <4>4, AloneTakesAll
      <4>6. won[s] >= AmountIn(p, {{s}})
        BY <2>2, <4>5
      <4>7. AmountIn(p, {{s}}) \in Int
        <5>1. \A i \in 1 .. Len(p) : InPots(p, {{s}})[i] \in Int
          BY <2>1, PotsIndexed DEF InPots
        <5> QED
          BY <2>1, <5>1, PotsIndexed, SumIsInt DEF AmountIn
      <4> QED
        BY <3>1, <4>2, <4>3, <4>6, <4>7
    <3> QED
      BY <3>2, <3>3
  <2> QED
    BY <2>3, <2>4, <2>6, <2>7, <2>8
<1> QED
  BY <1>2, <1>3

-----------------------------------------------------------------------------
(* Lists in an order.                                                      *)
(* before is a strict and total order on S.                                *)
StrictlyOrders(before, S) ==
  /\ \A x \in S : <<x, x>> \notin before
  /\ \A x, y, z \in S : <<x, y>> \in before /\ <<y, z>> \in before => <<x, z>> \in before
  /\ \A x, y \in S : x = y \/ <<x, y>> \in before \/ <<y, x>> \in before

(* A sorted list has each element of its set once.                         *)
LEMMA SortedIsList ==
  ASSUME NEW S, IsFiniteSet(S), NEW before, StrictlyOrders(before, S)
  PROVE  /\ Sorted(S, before) \in [1 .. Cardinality(S) -> S]
         /\ \A x \in S : \E k \in 1 .. Cardinality(S) : Sorted(S, before)[k] = x
         /\ \A j, k \in 1 .. Cardinality(S) : Sorted(S, before)[j] = Sorted(S, before)[k] => j = k
<1> DEFINE n == Cardinality(S)
           B == [x \in S |-> {y \in S : <<y, x>> \in before}]
           rank == [x \in S |-> Cardinality(B[x])]
           f == Sorted(S, before)
<1>0. n \in Nat
  BY FS_CardinalityType
<1>a. \A x \in S : B[x] \subseteq S \ {x} /\ rank[x] = Cardinality(B[x])
  BY DEF StrictlyOrders
<1>b. \A x, y \in S : <<x, y>> \in before => B[x] \subseteq B[y] /\ x \in B[y] /\ x \notin B[x]
  BY DEF StrictlyOrders
<1>c. DOMAIN rank = S /\ rank = [x \in S |-> rank[x]]
  OBVIOUS
<1>d. \A k \in 1 .. n : f[k] = CHOOSE x \in S : Cardinality(B[x]) = k - 1
  BY DEF Sorted
<1>e. \A T : (\A k \in 1 .. n : f[k] \in T) => f \in [1 .. n -> T]
  <2> TAKE T
  <2> HAVE \A k \in 1 .. n : f[k] \in T
  <2> DEFINE c(k) == CHOOSE x \in S : Cardinality({y \in S : <<y, x>> \in before}) = k - 1
  <2>1. f = [k \in 1 .. n |-> c(k)]
    BY DEF Sorted
  <2> HIDE DEF f, c, n
  <2> QED
    BY <2>1
<1> HIDE DEF B, rank, f
<1>1. \A x \in S : IsFiniteSet(B[x]) /\ rank[x] \in 0 .. n - 1
  <2> TAKE x \in S
  <2>2. IsFiniteSet(S \ {x}) /\ Cardinality(S \ {x}) = n - 1
    BY FS_RemoveElement
  <2>3. IsFiniteSet(B[x]) /\ Cardinality(B[x]) <= Cardinality(S \ {x})
    BY <1>a, <2>2, FS_Subset
  <2>4. Cardinality(B[x]) \in Nat
    BY <2>3, FS_CardinalityType
  <2> QED
    BY <1>0, <1>a, <2>2, <2>3, <2>4
<1>2. \A x, y \in S : <<x, y>> \in before => rank[x] < rank[y]
  <2> SUFFICES ASSUME NEW x \in S, NEW y \in S, <<x, y>> \in before PROVE rank[x] < rank[y]
    OBVIOUS
  <2>1. B[x] \subseteq B[y] /\ B[x] # B[y]
    BY <1>b
  <2>2. Cardinality(B[x]) <= Cardinality(B[y]) /\ Cardinality(B[x]) # Cardinality(B[y])
    BY <1>1, <2>1, FS_Subset
  <2> QED
    BY <1>0, <1>a, <1>1, <2>2
<1> HIDE DEF n
<1>3. \A x, y \in S : rank[x] = rank[y] => x = y
  <2> SUFFICES ASSUME NEW x \in S, NEW y \in S, rank[x] = rank[y], x # y PROVE FALSE
    OBVIOUS
  <2>1. <<x, y>> \in before \/ <<y, x>> \in before
    BY DEF StrictlyOrders
  <2> QED
    BY <1>0, <1>1, <1>2, <2>1
<1>4. rank \in Injection(S, 0 .. n - 1)
  BY <1>1, <1>3, <1>c DEF Injection, IsInjective
<1>5. IsFiniteSet(0 .. n - 1) /\ Cardinality(0 .. n - 1) = n
  <2>1. /\ IsFiniteSet(0 .. n - 1)
        /\ Cardinality(0 .. n - 1) = IF 0 > n - 1 THEN 0 ELSE (n - 1) - 0 + 1
    BY <1>0, FS_Interval
  <2> QED
    BY <1>0, <2>1
<1>6. rank \in Surjection(S, 0 .. n - 1)
  BY <1>4, <1>5, FS_Injection DEF n
<1>7. \A k \in 1 .. n : \E x \in S : Cardinality(B[x]) = k - 1
  <2> TAKE k \in 1 .. n
  <2>1. k - 1 \in 0 .. n - 1
    BY <1>0
  <2>2. PICK x \in S : rank[x] = k - 1
    BY <1>6, <2>1 DEF Surjection
  <2> QED
    BY <1>a, <2>2
<1>8. \A k \in 1 .. n : f[k] \in S /\ Cardinality(B[f[k]]) = k - 1
  BY <1>7, <1>d
<1>9. f \in [1 .. n -> S]
  BY <1>8, <1>e
<1>10. \A j, k \in 1 .. n : f[j] = f[k] => j = k
  <2> TAKE j, k \in 1 .. n
  <2>1. f[j] = f[k] => j - 1 = k - 1
    BY <1>8
  <2> QED
    BY <1>0, <2>1
<1>11. \A x \in S : \E k \in 1 .. n : f[k] = x
  <2> TAKE x \in S
  <2>1. rank[x] + 1 \in 1 .. n /\ (rank[x] + 1) - 1 = rank[x]
    BY <1>0, <1>1
  <2>2. rank[f[rank[x] + 1]] = rank[x]
    BY <1>8, <2>1, <1>a
  <2> QED
    BY <1>3, <1>8, <2>1, <2>2
<1> QED
  BY <1>9, <1>10, <1>11 DEF f, n

(* A selection from a sequence has the selected elements, and each as     *)
(* often as the sequence.                                                  *)
LEMMA KeepingIsPart ==
  ASSUME NEW X, NEW s \in Seq(X), NEW S
  PROVE  /\ Keeping(s, S) \in Seq(X)
         /\ {Keeping(s, S)[k] : k \in DOMAIN Keeping(s, S)} = {s[i] : i \in DOMAIN s} \cap S
         /\ (\A i, j \in DOMAIN s : s[i] = s[j] => i = j) =>
              \A i, j \in DOMAIN Keeping(s, S) : Keeping(s, S)[i] = Keeping(s, S)[j] => i = j
<1> DEFINE P == {i \in DOMAIN s : s[i] \in S}
           R == {ij \in P \X P : ij[1] < ij[2]}
           m == Cardinality(P)
           f == Sorted(P, R)
           g == Keeping(s, S)
<1>1. P \subseteq 1 .. Len(s) /\ DOMAIN s = 1 .. Len(s) /\ Len(s) \in Nat
  OBVIOUS
<1>2. IsFiniteSet(P) /\ m \in Nat
  <2>1. IsFiniteSet(1 .. Len(s))
    BY <1>1, FS_Interval
  <2>2. IsFiniteSet(P)
    BY <1>1, <2>1, FS_Subset
  <2> QED
    BY <2>2, FS_CardinalityType
<1>3. StrictlyOrders(R, P)
  BY <1>1 DEF StrictlyOrders
<1>4. /\ f \in [1 .. m -> P] /\ \A i \in P : \E k \in 1 .. m : f[k] = i
      /\ \A j, k \in 1 .. m : f[j] = f[k] => j = k
  <2> HIDE DEF P, R
  <2> QED
    BY <1>2, <1>3, SortedIsList
<1>5. g = [k \in 1 .. m |-> s[f[k]]]
  BY DEF Keeping
<1> HIDE DEF f, g, R
<1>6. \A k \in 1 .. m : g[k] = s[f[k]] /\ s[f[k]] \in S /\ s[f[k]] \in X /\ f[k] \in DOMAIN s
  BY <1>1, <1>4, <1>5
<1> HIDE DEF m, P
<1>7. g \in Seq(X)
  BY <1>2, <1>5, <1>6
<1>8. DOMAIN g = 1 .. m
  BY <1>5
<1>9. {g[k] : k \in DOMAIN g} = {s[i] : i \in DOMAIN s} \cap S
  BY <1>4, <1>6, <1>8 DEF P
<1> QED
  BY <1>4, <1>6, <1>7, <1>8, <1>9 DEF g
=============================================================================
