---------------------------- MODULE SitGo_proof ----------------------------
(***************************************************************************)
(* Proofs about SitGo, for any players, chips and hands.                   *)
(*                                                                         *)
(* The director learns of a bust from the event of a later hand, and the   *)
(* table knows nothing of survivors, so that what either holds says little *)
(* by itself.  Inductive is Agreement: the survivors are those seated,     *)
(* those removed otherwise and those whose bust is under way, apart; no    *)
(* bust is under way twice (Apart), since whoever is dealt to has chips    *)
(* (DealtHaveChips) and leaves the table with them; and a table without a  *)
(* hand has an event or a command under way, or refused the last.  Of the  *)
(* chips (Accounts) what is needed is that ends of hands and complete      *)
(* hands match as long as nobody is removed during a reveal (EndsOnce).    *)
(***************************************************************************)
EXTENDS SitGo, Chips

-----------------------------------------------------------------------------
(* The busts under way from the table to the director.                     *)
Waiting(e) == UNION {Range(e[i]) : i \in DOMAIN e}

(* Nobody is reported twice.                                               *)
Apart(e, c) ==
  /\ \A i, j \in DOMAIN e : i # j => Range(e[i]) \cap Range(e[j]) = {}
  /\ \A i \in DOMAIN e : Range(e[i]) \cap Range(c) = {}

Types ==
  /\ status \in {"Registering", "Running", "Completed"}
  /\ registered \subseteq Users /\ order \in Seq(Users)
  /\ stack \in [Seated -> Nat] /\ Seated \subseteq Users
  /\ hand \subseteq Seated /\ leaving \subseteq Seated
  /\ cache \in Seq(Users) /\ events \in Seq(Seq(Users)) /\ starts \in Nat

(* Nothing happens at the table of a tournament that has not begun.        *)
NotBegun ==
  status = "Registering" =>
    /\ Seated = {} /\ starts = 0 /\ survivors = {} /\ removed = {}
    /\ order = <<>> /\ cache = <<>> /\ events = <<>>

(* Whoever is dealt to has chips.                                          *)
DealtHaveChips == \A u \in hand : stack[u] > 0

(* No user leaves before the start, and no hand is closed.                 *)
NoChipsYet == status = "Registering" => taken = 0 /\ lost = 0

(* As long as nobody was removed during a reveal, one end of a hand is     *)
(* under way while there is a complete hand, and none otherwise.           *)
EndsOnce == /\ complete => hand # {}
            /\ ~late => lost = 0 /\ reveals = (IF complete THEN 1 ELSE 0)

Accounts == /\ taken \in Nat /\ lost \in Nat /\ reveals \in Nat
            /\ complete \in BOOLEAN /\ late \in BOOLEAN
            /\ NoChipsYet /\ EndsOnce /\ ChipsAccounted

Agreement == /\ Types /\ NotBegun /\ DealtHaveChips /\ Apart(events, cache)
             /\ SurvivorsAccounted /\ SomebodyDeals

-----------------------------------------------------------------------------
(* Reports on their way.                                                   *)
LEMMA ReportSent ==
  ASSUME NEW e \in Seq(Seq(Users)), NEW c \in Seq(Users), NEW b \in Seq(Users),
         Apart(e, c), Range(b) \cap (Range(c) \cup Waiting(e)) = {}
  PROVE  /\ Append(e, c) \in Seq(Seq(Users)) /\ Append(e, c) # <<>>
         /\ Waiting(Append(e, c)) = Waiting(e) \cup Range(c)
         /\ Apart(Append(e, c), b)
<1> DEFINE f == Append(e, c)
<1>0. /\ DOMAIN e = 1 .. Len(e) /\ Len(e) \in Nat
      /\ f \in Seq(Seq(Users)) /\ Len(f) = Len(e) + 1 /\ DOMAIN f = 1 .. Len(f)
      /\ \A i \in 1 .. Len(e) : f[i] = e[i]
      /\ f[Len(e) + 1] = c
  OBVIOUS
<1>1. /\ f \in Seq(Seq(Users)) /\ f # <<>>
      /\ \A i \in DOMAIN e : f[i] = e[i] /\ i \in DOMAIN f
      /\ f[Len(e) + 1] = c /\ Len(e) + 1 \in DOMAIN f
      /\ \A i \in DOMAIN f : i \in DOMAIN e \/ i = Len(e) + 1
  <2> HIDE DEF f
  <2>1. f # <<>>
    BY <1>0
  <2> QED
    BY <1>0, <2>1
<1> HIDE DEF f
<1>2. Waiting(f) = Waiting(e) \cup Range(c)
  <2>1. ASSUME NEW u \in Waiting(f) PROVE u \in Waiting(e) \cup Range(c)
    BY <1>1, <2>1 DEF Waiting
  <2>2. ASSUME NEW u \in Waiting(e) PROVE u \in Waiting(f)
    BY <1>1, <2>2 DEF Waiting
  <2>3. ASSUME NEW u \in Range(c) PROVE u \in Waiting(f)
    BY <1>1, <2>3 DEF Waiting
  <2> QED
    BY <2>1, <2>2, <2>3
<1>3. \A i \in DOMAIN e : Range(e[i]) \subseteq Waiting(e)
  BY DEF Waiting
<1>4. Apart(f, b)
  <2>1. \A i, j \in DOMAIN f : i # j => Range(f[i]) \cap Range(f[j]) = {}
    BY <1>1 DEF Apart
  <2>2. \A i \in DOMAIN f : Range(f[i]) \cap Range(b) = {}
    BY <1>1, <1>3
  <2> QED
    BY <2>1, <2>2 DEF Apart
<1> QED
  BY <1>1, <1>2, <1>4 DEF f

LEMMA ReportRead ==
  ASSUME NEW e \in Seq(Seq(Users)), e # <<>>, NEW c \in Seq(Users), Apart(e, c)
  PROVE  /\ Head(e) \in Seq(Users) /\ Tail(e) \in Seq(Seq(Users))
         /\ Waiting(e) = Waiting(Tail(e)) \cup Range(Head(e))
         /\ Range(Head(e)) \cap (Range(c) \cup Waiting(Tail(e))) = {}
         /\ Apart(Tail(e), c)
<1> DEFINE f == Tail(e)
           h == Head(e)
<1>1. /\ DOMAIN e = 1 .. Len(e) /\ Len(e) \in Nat /\ Len(e) > 0
      /\ DOMAIN f = 1 .. Len(e) - 1 /\ f \in Seq(Seq(Users))
      /\ \A i \in DOMAIN f : f[i] = e[i + 1] /\ i + 1 \in DOMAIN e /\ i + 1 # 1
      /\ h = e[1] /\ 1 \in DOMAIN e /\ h \in Seq(Users)
      /\ \A i \in DOMAIN e : i = 1 \/ (i - 1 \in DOMAIN f /\ (i - 1) + 1 = i)
      /\ \A i, j \in DOMAIN f : i # j => i + 1 # j + 1
  OBVIOUS
<1> HIDE DEF f, h
<1>2. Waiting(e) = Waiting(f) \cup Range(h)
  <2>1. ASSUME NEW u \in Waiting(e) PROVE u \in Waiting(f) \cup Range(h)
    <3>1. PICK i \in DOMAIN e : u \in Range(e[i])
      BY DEF Waiting
    <3>2. i = 1 \/ (f[i - 1] = e[i] /\ i - 1 \in DOMAIN f)
      BY <1>1
    <3> QED
      BY <1>1, <3>1, <3>2 DEF Waiting
  <2>2. ASSUME NEW u \in Waiting(f) PROVE u \in Waiting(e)
    BY <1>1, <2>2 DEF Waiting
  <2>3. ASSUME NEW u \in Range(h) PROVE u \in Waiting(e)
    BY <1>1, <2>3 DEF Waiting
  <2> QED
    BY <2>1, <2>2, <2>3
<1>3. Apart(f, c)
  <2>1. \A i, j \in DOMAIN f : i # j => Range(f[i]) \cap Range(f[j]) = {}
    BY <1>1 DEF Apart
  <2>2. \A i \in DOMAIN f : Range(f[i]) \cap Range(c) = {}
    BY <1>1 DEF Apart
  <2> QED
    BY <2>1, <2>2 DEF Apart
<1>4. Range(h) \cap (Range(c) \cup Waiting(f)) = {}
  <2>1. Range(h) \cap Range(c) = {}
    BY <1>1 DEF Apart
  <2>2. \A i \in DOMAIN f : Range(h) \cap Range(f[i]) = {}
    BY <1>1 DEF Apart
  <2> QED
    BY <2>1, <2>2 DEF Waiting
<1> QED
  BY <1>1, <1>2, <1>3, <1>4 DEF f, h

(* The seated users are finitely many numbers.                             *)
LEMMA UsersAreFinite ==
  ASSUME NEW S \in SUBSET Users
  PROVE  IsFiniteSet(S) /\ S \subseteq Int /\ Cardinality(S) \in Nat
<1>1. IsFiniteSet(Users) /\ Users \subseteq Int
  BY TournamentAssumption, FS_Interval DEF Users
<1>2. IsFiniteSet(S)
  BY <1>1, FS_Subset
<1> QED
  BY <1>1, <1>2, FS_CardinalityType

(* The list of the busts is all of them, once each.                        *)
LEMMA BustedAreBroke ==
  ASSUME hand \subseteq Seated, Seated \subseteq Users, stack \in [Seated -> Nat],
         NEW bet
  PROVE  /\ Busted(bet) \in Seq(Users)
         /\ Range(Busted(bet)) = {u \in hand : bet[u] = stack[u]}
<1> DEFINE broke == {u \in hand : bet[u] = stack[u]}
           first == {uv \in broke \X broke :
                       \/ stack[uv[1]] > stack[uv[2]]
                       \/ stack[uv[1]] = stack[uv[2]] /\ uv[1] < uv[2]}
           s == Sorted(broke, first)
<1>1. s = Busted(bet)
  BY DEF Busted
<1>2. broke \in SUBSET Users
  OBVIOUS
<1>3. IsFiniteSet(broke) /\ broke \subseteq Int /\ Cardinality(broke) \in Nat
  <2> HIDE DEF broke
  <2> QED
    BY <1>2, UsersAreFinite
<1>4. \A u \in broke : stack[u] \in Nat
  OBVIOUS
<1>5. StrictlyOrders(first, broke)
  <2>1. \A u, v \in broke :
          <<u, v>> \in first <=> (stack[u] > stack[v] \/ (stack[u] = stack[v] /\ u < v))
    OBVIOUS
  <2> HIDE DEF broke, first
  <2>2. \A u \in broke : <<u, u>> \notin first
    BY <1>3, <1>4, <2>1
  <2>3. \A u, v, w \in broke : <<u, v>> \in first /\ <<v, w>> \in first => <<u, w>> \in first
    BY <1>3, <1>4, <2>1
  <2>4. \A u, v \in broke : u = v \/ <<u, v>> \in first \/ <<v, u>> \in first
    <3> TAKE u, v \in broke
    <3>1. stack[u] \in Nat /\ stack[v] \in Nat /\ u \in Int /\ v \in Int
      BY <1>3, <1>4
    <3>2. stack[u] > stack[v] \/ stack[v] > stack[u] \/ (stack[u] = stack[v] /\ (u < v \/ v < u \/ u = v))
      BY <3>1
    <3> QED
      BY <2>1, <3>2
  <2> QED
    BY <2>2, <2>3, <2>4 DEF StrictlyOrders
<1> HIDE DEF broke, first
<1>6. /\ s \in [1 .. Cardinality(broke) -> broke]
      /\ \A u \in broke : \E k \in 1 .. Cardinality(broke) : s[k] = u
  BY <1>3, <1>5, SortedIsList
<1> HIDE DEF s
<1>7. Range(s) = broke
  BY <1>6 DEF Range
<1>8. s \in Seq(Users)
  <2> DEFINE n == Cardinality(broke)
  <2>1. s \in [1 .. n -> Users] /\ n \in Nat
    BY <1>2, <1>3, <1>6
  <2> HIDE DEF n
  <2> QED
    BY <2>1
<1> QED
  BY <1>1, <1>7, <1>8 DEF broke
-----------------------------------------------------------------------------
(* The chips of a hand.                                                    *)
LEMMA MinOfTwo ==
  ASSUME NEW a \in Nat, NEW b \in Nat
  PROVE  /\ Min({a, b}) \in Nat /\ Min({a, b}) <= b
         /\ a > 0 /\ b > 0 => Min({a, b}) > 0
<1>1. \E x \in {a, b} : \A y \in {a, b} : x <= y
  <2>1. CASE a <= b
    BY <2>1
  <2>2. CASE b <= a
    BY <2>2
  <2> QED
    BY <2>1, <2>2
<1>2. Min({a, b}) \in {a, b} /\ \A y \in {a, b} : Min({a, b}) <= y
  BY <1>1 DEF Min
<1> QED
  BY <1>2

(* What is put in was there, and somebody who is still in put something in.*)
LEMMA BetsArePayable ==
  ASSUME Types, DealtHaveChips,
         NEW folded \in (SUBSET hand) \ {hand},
         NEW top \in 1 .. Max({stack[u] : u \in hand \ folded}),
         NEW bet \in Bets(top, folded)
  PROVE  Payable(hand, bet, folded) /\ \A u \in hand : bet[u] \in Nat /\ bet[u] <= stack[u]
<1>1. hand \in SUBSET Users /\ folded \subseteq hand /\ hand \ folded # {}
      /\ \A u \in hand : stack[u] \in Nat /\ stack[u] > 0
  BY DEF Types, DealtHaveChips
<1>2. IsFiniteSet(hand) /\ hand \subseteq Int /\ IsFiniteSet(hand \ folded)
  BY <1>1, UsersAreFinite, FS_Subset
<1>3. top \in Nat /\ top > 0
  <2> DEFINE live == hand \ folded
             S == {stack[u] : u \in live}
  <2>1. IsFiniteSet(S)
    <3> HIDE DEF live
    <3> QED
      BY <1>2, ImageIsFinite DEF live
  <2>2. S # {} /\ S \subseteq Int
    BY <1>1
  <2>3. Max(S) \in Int
    <3> HIDE DEF S
    <3>1. S \in SUBSET S
      OBVIOUS
    <3> QED
      BY <2>1, <2>2, <3>1, MaxIsLargest
  <2> QED
    BY <2>3
<1>4. /\ bet \in [hand -> 0 .. top]
      /\ \A u \in folded : bet[u] < stack[u]
      /\ \A u \in hand \ folded : bet[u] = Min({top, stack[u]})
  BY DEF Bets
<1>5. bet \in [hand -> Nat]
  BY <1>3, <1>4
<1>6. \A u \in hand \ folded : bet[u] <= stack[u] /\ bet[u] > 0
  <2> TAKE u \in hand \ folded
  <2>1. stack[u] \in Nat /\ stack[u] > 0
    BY <1>1
  <2>2. Min({top, stack[u]}) <= stack[u] /\ Min({top, stack[u]}) > 0
    BY <1>3, <2>1, MinOfTwo
  <2> QED
    BY <1>4, <2>2
<1>7. \A u \in hand : bet[u] \in Nat /\ bet[u] <= stack[u]
  BY <1>1, <1>4, <1>5, <1>6
<1>8. Staked(hand, bet, folded)
  BY <1>1, <1>2, <1>5 DEF Staked
<1>9. Payable(hand, bet, folded)
  BY <1>1, <1>6, <1>8 DEF Payable, Paying
<1> QED
  BY <1>7, <1>9

(* What the winners take is what was put in.                               *)
Affords(H, b, f) == \A u \in H : b[u] \in Nat /\ b[u] <= f[u]
Settles(S, H, f, b, won, g) ==
  \A u \in S : g[u] = IF u \notin H THEN f[u] ELSE f[u] - b[u] + won[u]
Amounts(S, g) == \A u \in S : g[u] \in Nat

LEMMA HandKeepsChips ==
  ASSUME NEW S, NEW H, NEW f, NEW b, NEW fold, NEW rank, NEW g,
         IsFiniteSet(S), H \subseteq S, f \in [S -> Nat],
         Payable(H, b, fold), Affords(H, b, f), rank \in [H -> Nat],
         Settles(S, H, f, b, PotWinners(b, fold, rank), g)
  PROVE  Amounts(S, g) /\ SumOver(g, S) = SumOver(f, S)
<1> DEFINE won == PotWinners(b, fold, rank)
           w == [u \in S |-> IF u \in H THEN won[u] ELSE 0]
           c == [u \in S |-> IF u \in H THEN b[u] ELSE 0]
           d == [u \in S |-> IF u \in H THEN 0 - b[u] ELSE 0]
           e == [u \in S |-> f[u] + w[u]]
<1>1. (\A u \in H : won[u] \in Nat) /\ SumOver(won, H) = SumOver(b, H)
  <2> HIDE DEF won
  <2> QED
    BY PayoutIsFair DEF won
<1>2. \A u \in S : g[u] = IF u \notin H THEN f[u] ELSE f[u] - b[u] + won[u]
  BY Zenon DEF Settles
<1> HIDE DEF won
<1>3. \A u \in S : f[u] \in Nat /\ (u \in H => won[u] \in Nat /\ b[u] \in Nat /\ b[u] <= f[u])
  BY <1>1 DEF Affords
<1>4. \A u \in S : g[u] \in Nat
  BY <1>2, <1>3
<1>5. \A u \in S : /\ w[u] \in Int /\ c[u] \in Int /\ d[u] \in Int /\ e[u] \in Int /\ f[u] \in Int
                   /\ e[u] = f[u] + w[u] /\ g[u] = e[u] + d[u] /\ 0 = c[u] + d[u]
  BY <1>2, <1>3
<1>6. H \in SUBSET S /\ (\A u \in H : w[u] \in Int /\ won[u] = w[u]) /\ (\A u \in S \ H : w[u] = 0)
      /\ (\A u \in H : c[u] \in Int /\ b[u] = c[u]) /\ (\A u \in S \ H : c[u] = 0)
  BY <1>3
<1> HIDE DEF w, c, d, e
<1>7. SumOver(w, S) = SumOver(won, H)
  BY <1>6, SumSkipsZeros
<1>8. SumOver(c, S) = SumOver(b, H)
  BY <1>6, SumSkipsZeros
<1>9. SumOver(e, S) = SumOver(f, S) + SumOver(w, S)
  BY <1>5, SumAdds
<1>10. SumOver(g, S) = SumOver(e, S) + SumOver(d, S)
  BY <1>5, SumAdds
<1>11. SumOver(c, S) + SumOver(d, S) = 0
  <2> DEFINE z == [u \in S |-> 0]
  <2>1. \A u \in S : z[u] = c[u] + d[u] /\ z[u] = 0
    BY <1>5
  <2> HIDE DEF z
  <2>2. SumOver(z, S) = SumOver(c, S) + SumOver(d, S)
    BY <1>5, <2>1, SumAdds
  <2>3. SumOver(z, S) = 0
    BY <2>1, SumOfZeros
  <2> QED
    BY <2>2, <2>3
<1>12. /\ SumOver(c, S) \in Int /\ SumOver(d, S) \in Int /\ SumOver(e, S) \in Int
       /\ SumOver(w, S) \in Int /\ SumOver(f, S) \in Int /\ SumOver(g, S) \in Int
  <2>1. SumOver(c, S) \in Int
    BY <1>5, SumIsInt
  <2>2. SumOver(d, S) \in Int
    BY <1>5, SumIsInt
  <2>3. SumOver(e, S) \in Int
    BY <1>5, SumIsInt
  <2>4. SumOver(w, S) \in Int
    BY <1>5, SumIsInt
  <2>5. SumOver(f, S) \in Int
    BY <1>5, SumIsInt
  <2>6. SumOver(g, S) \in Int
    BY <1>4, SumIsInt
  <2> QED
    BY <2>1, <2>2, <2>3, <2>4, <2>5, <2>6
<1>13. SumOver(g, S) = SumOver(f, S)
  <2>1. SumOver(w, S) = SumOver(c, S)
    BY <1>1, <1>7, <1>8
  <2>2. SumOver(g, S) = (SumOver(f, S) + SumOver(c, S)) + SumOver(d, S)
    BY <1>9, <1>10, <2>1
  <2> QED
    BY ONLY <2>2, <1>11, <1>12
<1> QED
  BY <1>4, <1>13 DEF Amounts

(* Who stays takes his chips along, and so does who goes.                  *)
LEMMA StacksSplit ==
  ASSUME NEW S, IsFiniteSet(S), NEW f \in [S -> Nat], NEW T \in SUBSET S, NEW U, U = S \ T
  PROVE  /\ [u \in T |-> f[u]] \in [T -> Nat]
         /\ SumFunction([u \in T |-> f[u]]) \in Nat /\ SumFunction([u \in U |-> f[u]]) \in Nat
         /\ SumFunction([u \in T |-> f[u]]) + SumFunction([u \in U |-> f[u]]) = SumOver(f, S)
<1> DEFINE g == [u \in T |-> f[u]]
           k == [u \in U |-> f[u]]
           h == [u \in S |-> IF u \in T THEN f[u] ELSE 0]
           l == [u \in S |-> IF u \in T THEN 0 ELSE f[u]]
<1>1. /\ g \in [T -> Nat] /\ DOMAIN g = T /\ DOMAIN k = U
      /\ \A u \in T : h[u] \in Int /\ g[u] = h[u] /\ g[u] \in Nat
      /\ \A u \in S \ T : h[u] = 0
      /\ \A u \in U : l[u] \in Int /\ k[u] = l[u] /\ k[u] \in Nat
      /\ \A u \in S \ U : l[u] = 0
      /\ \A u \in S : h[u] \in Int /\ l[u] \in Int /\ f[u] = h[u] + l[u]
  OBVIOUS
<1>2. U \in SUBSET S /\ IsFiniteSet(T) /\ IsFiniteSet(U)
  BY FS_Subset
<1> HIDE DEF g, k, h, l
<1>3. SumFunction(g) = SumOver(g, T) /\ SumFunction(k) = SumOver(k, U)
  BY <1>1, SumFunctionIsSum
<1>4. SumOver(h, S) = SumOver(g, T)
  BY <1>1, SumSkipsZeros
<1>5. SumOver(l, S) = SumOver(k, U)
  BY <1>1, <1>2, SumSkipsZeros
<1>6. SumOver(f, S) = SumOver(h, S) + SumOver(l, S)
  BY <1>1, SumAdds
<1>7. SumOver(g, T) \in Nat /\ SumOver(k, U) \in Nat
  BY <1>1, <1>2, SumIsNat
<1> QED
  BY <1>1, <1>3, <1>4, <1>5, <1>6, <1>7 DEF g, k

(* Nobody is paid the bets of a hand that is not complete.                 *)
LEMMA BetsAreGone ==
  ASSUME NEW S, IsFiniteSet(S), NEW H \in SUBSET S, NEW f \in [S -> Nat],
         NEW b, DOMAIN b = H, Affords(H, b, f), NEW g,
         \A u \in S : g[u] = IF u \in H THEN f[u] - b[u] ELSE f[u]
  PROVE  /\ Amounts(S, g) /\ SumFunction(b) \in Nat
         /\ SumOver(g, S) + SumFunction(b) = SumOver(f, S)
<1> DEFINE c == [u \in S |-> IF u \in H THEN b[u] ELSE 0]
<1>1. /\ \A u \in H : b[u] \in Nat /\ b[u] <= f[u] /\ c[u] \in Int /\ b[u] = c[u]
      /\ \A u \in S \ H : c[u] = 0
      /\ \A u \in S : c[u] \in Int /\ f[u] \in Nat
  BY DEF Affords
<1> HIDE DEF c
<1>2. \A u \in S : g[u] \in Nat /\ g[u] \in Int /\ f[u] = g[u] + c[u]
  <2> TAKE u \in S
  <2>1. CASE u \in H
    <3>1. g[u] = f[u] - b[u] /\ c[u] = b[u] /\ b[u] \in Nat /\ b[u] <= f[u] /\ f[u] \in Nat
      BY <1>1, <2>1
    <3> QED
      BY <3>1
  <2>2. CASE u \notin H
    <3>1. g[u] = f[u] /\ c[u] = 0 /\ f[u] \in Nat
      BY <1>1, <2>2
    <3> QED
      BY <3>1
  <2> QED
    BY <2>1, <2>2
<1>3. SumFunction(b) = SumOver(b, H)
  BY SumFunctionIsSum
<1>4. SumOver(c, S) = SumOver(b, H)
  BY <1>1, SumSkipsZeros
<1>5. SumOver(f, S) = SumOver(g, S) + SumOver(c, S)
  BY <1>1, <1>2, SumAdds
<1>6. SumOver(b, H) \in Nat
  BY <1>1, SumIsNat, FS_Subset
<1> QED
  BY <1>2, <1>3, <1>4, <1>5, <1>6 DEF Amounts
-----------------------------------------------------------------------------
(* The end of a hand: B are the busts it finds.                            *)
HandEnds(B) ==
  /\ cache' \in Seq(Users) /\ Range(cache') = B
  /\ events' = Append(events, cache)
  /\ stack' \in [Seated \ (B \cup leaving) -> Nat]
  /\ taken' \in Nat /\ lost' \in Nat /\ (complete => lost' = lost)
  /\ Chips' + taken' + lost' = Chips + taken + lost
  /\ removed' = removed \cup (leaving \ B)
  /\ leaving' = {} /\ hand' = {} /\ complete' = FALSE
  /\ UNCHANGED <<status, registered, survivors, order, starts, refused>>

(* What the users take along, the pot nobody was paid, and what stays make *)
(* up what was there.                                                      *)
LEMMA CloseKeepsChips ==
  ASSUME Types, NEW bet, NEW after \in [Seated -> Nat], NEW more \in Nat,
         taken \in Nat, lost \in Nat, lost' = lost + more, Close(bet, after),
         SumOver(after, Seated) + more = SumOver(stack, Seated)
  PROVE  LET B == Range(Busted(bet))
         IN  /\ B \in SUBSET hand
             /\ cache' \in Seq(Users) /\ Range(cache') = B /\ events' = Append(events, cache)
             /\ stack' \in [Seated \ (B \cup leaving) -> Nat]
             /\ taken' \in Nat /\ lost' \in Nat
             /\ Chips' + taken' + lost' = Chips + taken + lost
             /\ removed' = removed \cup (leaving \ B)
<1> DEFINE B == Range(Busted(bet))
           gone == B \cup leaving
           stay == Seated \ gone
           rest == [u \in gone |-> after[u]]
<1>1. /\ IsFiniteSet(Seated) /\ hand \subseteq Seated /\ leaving \subseteq Seated
      /\ Seated \subseteq Users /\ stack \in [Seated -> Nat]
  BY UsersAreFinite DEF Types
<1>2. Busted(bet) \in Seq(Users) /\ B \in SUBSET hand
  BY <1>1, BustedAreBroke
<1>3. /\ events' = Append(events, cache) /\ cache' = Busted(bet)
      /\ stack' = [u \in stay |-> after[u]]
      /\ removed' = removed \cup (leaving \ B)
      /\ taken' = taken + SumFunction(rest)
  BY Zenon DEF Close, Report
<1>4. stay \in SUBSET Seated /\ gone = Seated \ stay
  BY <1>1, <1>2
<1> HIDE DEF stay, gone
<1>5. /\ stack' \in [stay -> Nat] /\ SumFunction(stack') \in Nat
      /\ SumFunction(rest) \in Nat
      /\ SumFunction(stack') + SumFunction(rest) = SumOver(after, Seated)
  <2> DEFINE kept == [u \in stay |-> after[u]]
  <2>1. /\ kept \in [stay -> Nat] /\ SumFunction(kept) \in Nat /\ SumFunction(rest) \in Nat
        /\ SumFunction(kept) + SumFunction(rest) = SumOver(after, Seated)
    BY <1>1, <1>4, StacksSplit
  <2>2. stack' = kept
    BY <1>3
  <2> HIDE DEF kept, rest
  <2> QED
    BY <2>1, <2>2
<1> HIDE DEF rest
<1>6. Chips = SumOver(stack, Seated) /\ Chips' = SumFunction(stack')
  BY SumFunctionIsSum DEF Chips, Seated
<1>7. SumOver(after, Seated) \in Nat /\ SumOver(stack, Seated) \in Nat
  <2>1. \A u \in Seated : after[u] \in Nat /\ stack[u] \in Nat
    BY <1>1
  <2> QED
    BY <1>1, <2>1, SumIsNat
<1>8. taken' \in Nat /\ lost' \in Nat
  BY <1>3, <1>5
<1>9. Chips' + taken' + lost' = Chips + taken + lost
  <2>1. PICK t \in Nat : t = SumFunction(rest)
    BY <1>5
  <2>2. PICK c \in Nat : c = SumFunction(stack')
    BY <1>5
  <2>3. PICK b \in Nat : b = SumOver(stack, Seated)
    BY <1>7
  <2>4. taken' = taken + t /\ Chips' = c /\ Chips = b /\ (c + t) + more = b
    BY <1>3, <1>5, <1>6, <2>1, <2>2, <2>3
  <2>5. c + (taken + t) + (lost + more) = b + taken + lost
    BY <2>4
  <2> QED
    BY <2>4, <2>5
<1> QED
  BY <1>2, <1>3, <1>5, <1>8, <1>9 DEF stay, gone

LEMMA PayPotsEnds ==
  ASSUME Types, DealtHaveChips, taken \in Nat, lost \in Nat, PayPots
  PROVE  \E bet : /\ lost' = lost
                  /\ \E after \in [Seated -> Nat] :
                       /\ Close(bet, after)
                       /\ SumOver(after, Seated) = SumOver(stack, Seated)
<1>1. PICK folded \in (SUBSET hand) \ {hand} :
        \E top \in 1 .. Max({stack[u] : u \in hand \ folded}) :
        \E bet \in Bets(top, folded), rank \in Ranks(hand \ folded) :
          Close(bet, Paid(bet, folded, rank))
  BY Zenon DEF PayPots
<1>2. PICK top \in 1 .. Max({stack[u] : u \in hand \ folded}) :
        \E bet \in Bets(top, folded), rank \in Ranks(hand \ folded) :
          Close(bet, Paid(bet, folded, rank))
  BY <1>1, Zenon
<1>3. PICK bet \in Bets(top, folded), rank \in Ranks(hand \ folded) :
        Close(bet, Paid(bet, folded, rank))
  BY <1>2, Zenon
<1> DEFINE paid == Paid(bet, folded, rank)
<1>4. /\ IsFiniteSet(Seated) /\ hand \subseteq Seated /\ Seated \subseteq Users
      /\ stack \in [Seated -> Nat]
  BY UsersAreFinite DEF Types
<1>5. Payable(hand, bet, folded) /\ \A u \in hand : bet[u] \in Nat /\ bet[u] <= stack[u]
  BY BetsArePayable
<1>6. rank \in [hand -> Nat]
  <2>1. PICK place \in [hand \ folded -> 1 .. Cardinality(hand \ folded)] :
          rank = [u \in hand |-> IF u \in hand \ folded THEN place[u] ELSE 0]
    BY DEF Ranks
  <2>2. Cardinality(hand \ folded) \in Nat
    BY <1>4, UsersAreFinite
  <2>3. \A u \in hand \ folded : place[u] \in Nat
    BY <2>1, <2>2
  <2> QED
    BY <2>1, <2>3
<1>7. /\ paid \in [Seated -> Nat] /\ SumOver(paid, Seated) = SumOver(stack, Seated)
  <2> DEFINE won == PotWinners(bet, folded, rank)
  <2>1. paid = [u \in Seated |-> IF u \notin hand THEN stack[u] ELSE stack[u] - bet[u] + won[u]]
    BY DEF Paid
  <2> HIDE DEF paid, won
  <2>2. Settles(Seated, hand, stack, bet, won, paid) /\ Affords(hand, bet, stack)
    BY <1>5, <2>1 DEF Settles, Affords
  <2>3. Settles(Seated, hand, stack, bet, PotWinners(bet, folded, rank), paid)
    BY <2>2 DEF won
  <2>4. Amounts(Seated, paid) /\ SumOver(paid, Seated) = SumOver(stack, Seated)
    BY <1>4, <1>5, <1>6, <2>2, <2>3, HandKeepsChips
  <2> QED
    BY <2>1, <2>4 DEF Amounts
<1>8. lost' = lost
  BY DEF PayPots
<1> QED
  BY <1>3, <1>7, <1>8, Zenon

LEMMA LosePotsEnds ==
  ASSUME Types, taken \in Nat, lost \in Nat, LosePots
  PROVE  \E bet : \E more \in Nat :
           /\ lost' = lost + more
           /\ \E after \in [Seated -> Nat] :
                /\ Close(bet, after)
                /\ SumOver(after, Seated) + more = SumOver(stack, Seated)
<1>1. PICK bet \in BetsSoFar : Close(bet, Unpaid(bet)) /\ lost' = lost + SumFunction(bet)
  BY Zenon DEF LosePots
<1> DEFINE after == Unpaid(bet)
<1>2. /\ IsFiniteSet(Seated) /\ hand \in SUBSET Seated /\ Seated \subseteq Users
      /\ stack \in [Seated -> Nat]
  BY UsersAreFinite DEF Types
<1>3. DOMAIN bet = hand /\ \A u \in hand : bet[u] <= stack[u] /\ bet[u] \in Nat
  <2> DEFINE most == Max({stack[u] : u \in hand})
  <2>1. bet \in [hand -> 0 .. most] /\ \A u \in hand : bet[u] <= stack[u]
    BY DEF BetsSoFar
  <2> HIDE DEF most
  <2> QED
    BY <2>1
<1>4. after = [u \in Seated |-> IF u \in hand THEN stack[u] - bet[u] ELSE stack[u]]
  BY DEF Unpaid
<1> HIDE DEF after
<1>5. /\ Affords(hand, bet, stack)
      /\ \A u \in Seated : after[u] = IF u \in hand THEN stack[u] - bet[u] ELSE stack[u]
  BY <1>3, <1>4 DEF Affords
<1>6. /\ Amounts(Seated, after) /\ SumFunction(bet) \in Nat
      /\ SumOver(after, Seated) + SumFunction(bet) = SumOver(stack, Seated)
  BY <1>2, <1>3, <1>5, BetsAreGone
<1>7. after \in [Seated -> Nat]
  BY <1>4, <1>6 DEF Amounts
<1>8. Close(bet, after)
  BY <1>1 DEF after
<1> QED
  BY <1>1, <1>6, <1>7, <1>8

LEMMA FinishHandEnds ==
  ASSUME Types, DealtHaveChips, taken \in Nat, lost \in Nat, FinishHand, hand # {}
  PROVE  \E B \in SUBSET hand : HandEnds(B)
<1>1. /\ PayPots \/ LosePots
      /\ leaving' = {} /\ hand' = {} /\ complete' = FALSE
      /\ UNCHANGED <<status, registered, survivors, order, starts, refused>>
  BY DEF FinishHand, director
<1>2. PICK bet :
        \E more \in Nat :
          /\ lost' = lost + more /\ (complete => lost' = lost)
          /\ \E after \in [Seated -> Nat] :
               /\ Close(bet, after)
               /\ SumOver(after, Seated) + more = SumOver(stack, Seated)
  <2>1. CASE PayPots
    <3>1. PICK b : /\ lost' = lost
                   /\ \E after \in [Seated -> Nat] :
                        /\ Close(b, after)
                        /\ SumOver(after, Seated) = SumOver(stack, Seated)
      BY <2>1, PayPotsEnds
    <3>2. PICK after \in [Seated -> Nat] :
            Close(b, after) /\ SumOver(after, Seated) = SumOver(stack, Seated)
      BY <3>1
    <3>3. SumOver(after, Seated) \in Nat
      <4>1. IsFiniteSet(Seated) /\ \A u \in Seated : after[u] \in Nat
        BY UsersAreFinite DEF Types
      <4> QED
        BY <4>1, SumIsNat
    <3>4. lost' = lost + 0 /\ SumOver(after, Seated) + 0 = SumOver(stack, Seated)
      BY <3>1, <3>2, <3>3
    <3> QED
      BY <3>1, <3>2, <3>4
  <2>2. CASE LosePots
    <3>1. ~complete
      BY <2>2 DEF LosePots
    <3> QED
      BY <2>2, <3>1, LosePotsEnds
  <2> QED
    BY <1>1, <2>1, <2>2
<1>3. PICK more \in Nat :
        /\ lost' = lost + more /\ (complete => lost' = lost)
        /\ \E after \in [Seated -> Nat] :
             /\ Close(bet, after)
             /\ SumOver(after, Seated) + more = SumOver(stack, Seated)
  BY <1>2
<1>a. PICK after \in [Seated -> Nat] :
        Close(bet, after) /\ SumOver(after, Seated) + more = SumOver(stack, Seated)
  BY <1>3
<1> DEFINE B == Range(Busted(bet))
<1>4. /\ B \in SUBSET hand
      /\ cache' \in Seq(Users) /\ Range(cache') = B /\ events' = Append(events, cache)
      /\ stack' \in [Seated \ (B \cup leaving) -> Nat]
      /\ taken' \in Nat /\ lost' \in Nat
      /\ Chips' + taken' + lost' = Chips + taken + lost
      /\ removed' = removed \cup (leaving \ B)
  BY <1>3, <1>a, CloseKeepsChips
<1> HIDE DEF B
<1>5. HandEnds(B)
  BY <1>1, <1>3, <1>4 DEF HandEnds
<1> QED
  BY <1>4, <1>5
-----------------------------------------------------------------------------
(* The agreement of the two actors is kept by every action.                *)
LEMMA UnreportedIs == Unreported = Range(cache) \cup Waiting(events)
BY DEF Unreported, Waiting

LEMMA UnreportedWill == Unreported' = Range(cache') \cup Waiting(events')
BY DEF Unreported, Waiting

LEMMA AgreementAtFirst == Init => Agreement
<1> SUFFICES ASSUME Init PROVE Agreement
  OBVIOUS
<1>1. /\ status = "Registering" /\ registered = {} /\ survivors = {} /\ order = <<>>
      /\ stack = << >> /\ leaving = {} /\ hand = {} /\ removed = {}
      /\ cache = <<>> /\ events = <<>> /\ starts = 0
  BY DEF Init
<1>2. Seated = {}
  BY <1>1 DEF Seated
<1>3. /\ order \in Seq(Users) /\ cache \in Seq(Users) /\ events \in Seq(Seq(Users))
      /\ DOMAIN events = {}
  BY <1>1
<1>4. stack \in [Seated -> Nat]
  BY <1>1, <1>2
<1>5. Types
  BY <1>1, <1>2, <1>3, <1>4 DEF Types
<1>6. NotBegun /\ DealtHaveChips
  BY <1>1, <1>2 DEF NotBegun, DealtHaveChips
<1>7. Apart(events, cache)
  BY <1>3 DEF Apart
<1>8. SurvivorsAccounted /\ SomebodyDeals
  BY <1>1 DEF SurvivorsAccounted, SomebodyDeals
<1> QED
  BY <1>5, <1>6, <1>7, <1>8 DEF Agreement

(* Players come and go before the start.                                   *)
LEMMA RegistrationAgrees ==
  ASSUME Agreement, NEW u \in Users, Register(u) \/ Unregister(u)
  PROVE  Agreement'
<1>1. /\ status = "Registering" /\ status' = status
      /\ registered' \subseteq Users
      /\ UNCHANGED <<survivors, order, stack, hand, leaving, removed, cache, events, starts, refused>>
  BY DEF Register, Unregister, table, seats, play, Agreement, Types
<1>2. Types' /\ NotBegun'
  BY <1>1 DEF Agreement, Types, NotBegun, Seated
<1>3. DealtHaveChips' /\ Apart(events, cache)'
  BY <1>1 DEF Agreement, DealtHaveChips, Apart
<1>4. SurvivorsAccounted' /\ SomebodyDeals'
  BY <1>1 DEF SurvivorsAccounted, SomebodyDeals
<1> QED
  BY <1>2, <1>3, <1>4 DEF Agreement

LEMMA StartAgrees ==
  ASSUME Agreement, StartTournament
  PROVE  Agreement'
<1>1. /\ status = "Registering" /\ status' = "Running"
      /\ stack' = [u \in registered |-> BuyIn] /\ survivors' = registered /\ starts' = 1
      /\ UNCHANGED <<registered, order, leaving, hand, removed, cache, events, refused>>
  BY DEF StartTournament, play
<1>2. /\ Seated = {} /\ removed = {} /\ order = <<>> /\ cache = <<>> /\ events = <<>>
      /\ hand = {} /\ leaving = {} /\ registered \subseteq Users
  BY <1>1 DEF Agreement, NotBegun, Types
<1>3. Seated' = registered /\ stack' \in [Seated' -> Nat]
  BY <1>1, TournamentAssumption DEF Seated
<1>4. Types'
  BY <1>1, <1>2, <1>3 DEF Agreement, Types
<1>5. NotBegun' /\ DealtHaveChips' /\ Apart(events, cache)' /\ SomebodyDeals'
  BY <1>1, <1>2 DEF Agreement, NotBegun, DealtHaveChips, Apart, SomebodyDeals
<1>6. Range(order) = {} /\ Range(cache) = {} /\ Waiting(events) = {}
  BY <1>2 DEF Range, Waiting
<1>7. Unreported' = {}
  BY <1>1, <1>6, UnreportedWill
<1>8. Range(order') = {} /\ removed' = {}
  BY <1>1, <1>2, <1>6
<1>9. SurvivorsAccounted'
  BY <1>1, <1>3, <1>7, <1>8 DEF SurvivorsAccounted
<1> QED
  BY <1>4, <1>5, <1>9 DEF Agreement

(* Dealing asks for two users who have chips.                              *)
LEMMA DealAgrees ==
  ASSUME Agreement, StartNewHand, starts' \in Nat, status # "Registering"
  PROVE  Agreement'
<1>1. /\ hand' = IF CanDeal THEN Eligible ELSE hand
      /\ refused' = (hand = {} /\ ~CanDeal)
      /\ UNCHANGED <<status, registered, survivors, order, stack, leaving, removed, cache, events>>
  BY DEF StartNewHand, director, seats
<1>2. Eligible \subseteq Seated /\ \A u \in Eligible : stack[u] > 0
  BY DEF Eligible
<1>3. ASSUME CanDeal PROVE Eligible # {}
  <2>1. Cardinality(Eligible) >= 2
    BY <1>3 DEF CanDeal
  <2>2. Cardinality({}) = 0
    BY FS_EmptySet
  <2> QED
    BY <2>1, <2>2
<1>4. hand' \subseteq Seated /\ \A u \in hand' : stack[u] > 0
  BY <1>1, <1>2 DEF Agreement, Types, DealtHaveChips
<1>5. Types' /\ NotBegun'
  BY <1>1, <1>4 DEF Agreement, Types, NotBegun, Seated
<1>6. DealtHaveChips' /\ Apart(events, cache)'
  BY <1>1, <1>4 DEF Agreement, DealtHaveChips, Apart
<1>7. SomebodyDeals'
  BY <1>1, <1>3 DEF SomebodyDeals
<1>8. Unreported' = Unreported /\ Seated' = Seated
  BY <1>1, UnreportedIs, UnreportedWill DEF Seated
<1>9. SurvivorsAccounted'
  BY <1>1, <1>8 DEF Agreement, SurvivorsAccounted
<1> QED
  BY <1>5, <1>6, <1>7, <1>9 DEF Agreement

(* Sitting out or coming back, and the end of the betting, concern nobody  *)
(* of this; a leave called off only waits no more.                         *)
LEMMA OthersAgree ==
  ASSUME Agreement, CompleteHand \/ \E u \in Users : SitOut(u) \/ Reconnect(u)
  PROVE  Agreement'
<1>1. /\ leaving' \subseteq leaving
      /\ UNCHANGED <<status, registered, survivors, order, stack, hand, removed,
                     cache, events, starts, refused>>
  BY DEF SitOut, Reconnect, CompleteHand, director, seats, play
<1>2. Unreported' = Unreported /\ Seated' = Seated
  BY <1>1, UnreportedIs, UnreportedWill DEF Seated
<1> QED
  BY <1>1, <1>2 DEF Agreement, Types, NotBegun, DealtHaveChips, Apart, SurvivorsAccounted,
                    SomebodyDeals

(* A user leaves at once, or at the end of the hand.                       *)
LEMMA LeaveAgrees ==
  ASSUME Agreement, NEW u \in Users, Leave(u)
  PROVE  Agreement'
<1>1. /\ u \in Seated
      /\ UNCHANGED <<status, registered, survivors, order, hand, cache, events, starts, refused>>
  BY DEF Leave, director
<1>2. status # "Registering"
  BY <1>1 DEF Agreement, NotBegun
<1>3. Unreported' = Unreported
  BY <1>1, UnreportedIs, UnreportedWill
<1>4. NotBegun' /\ Apart(events, cache)' /\ SomebodyDeals'
  BY <1>1, <1>2 DEF Agreement, NotBegun, Apart, SomebodyDeals
<1>5. CASE hand = {}
  <2>1. /\ stack' = [v \in Seated \ {u} |-> stack[v]]
        /\ removed' = removed \cup {u} /\ leaving' = leaving /\ u \notin leaving
    BY <1>5 DEF Leave
  <2>2. Seated' = Seated \ {u} /\ stack' \in [Seated \ {u} -> Nat]
    BY <2>1 DEF Agreement, Types, Seated
  <2>3. Types'
    BY <1>1, <1>5, <2>1, <2>2 DEF Agreement, Types
  <2>4. DealtHaveChips'
    BY <1>1, <1>5 DEF DealtHaveChips
  <2>5. SurvivorsAccounted'
    BY <1>1, <1>2, <1>3, <2>1, <2>2 DEF Agreement, SurvivorsAccounted
  <2> QED
    BY <1>4, <2>3, <2>4, <2>5 DEF Agreement
<1>6. CASE hand # {}
  <2>1. leaving' = leaving \cup {u} /\ UNCHANGED <<stack, removed>>
    BY <1>6 DEF Leave
  <2>2. Seated' = Seated
    BY <2>1 DEF Seated
  <2>3. Types' /\ DealtHaveChips'
    BY <1>1, <2>1, <2>2 DEF Agreement, Types, DealtHaveChips
  <2>4. SurvivorsAccounted'
    BY <1>1, <1>3, <2>1, <2>2 DEF Agreement, SurvivorsAccounted
  <2> QED
    BY <1>4, <2>3, <2>4 DEF Agreement
<1> QED
  BY <1>5, <1>6

(* There may be no hand to close.                                          *)
LEMMA NoHandAgrees ==
  ASSUME Agreement, FinishHand, hand = {}
  PROVE  Agreement'
<1>1. UNCHANGED <<status, registered, survivors, order, stack, leaving, hand, removed,
                  cache, events, starts, refused>>
  BY DEF FinishHand, director, seats
<1>2. Unreported' = Unreported /\ Seated' = Seated
  BY <1>1, UnreportedIs, UnreportedWill DEF Seated
<1> QED
  BY <1>1, <1>2 DEF Agreement, Types, NotBegun, DealtHaveChips, Apart, SurvivorsAccounted,
                    SomebodyDeals

(* The busts of a hand leave the table for the cache, those of the hand    *)
(* before leave the cache for the channel.                                 *)
LEMMA HandAgrees ==
  ASSUME Agreement, NEW B \in SUBSET hand, HandEnds(B), hand # {}
  PROVE  Agreement'
<1>1. /\ cache' \in Seq(Users) /\ Range(cache') = B
      /\ events' = Append(events, cache)
      /\ stack' \in [Seated \ (B \cup leaving) -> Nat]
      /\ removed' = removed \cup (leaving \ B)
      /\ leaving' = {} /\ hand' = {}
      /\ UNCHANGED <<status, registered, survivors, order, starts, refused>>
  BY DEF HandEnds
<1>2. Seated' = Seated \ (B \cup leaving)
  BY <1>1 DEF Seated
<1>3. /\ status # "Registering" /\ B \subseteq Seated /\ leaving \subseteq Seated
      /\ cache \in Seq(Users) /\ events \in Seq(Seq(Users)) /\ Apart(events, cache)
  BY DEF Agreement, NotBegun, Types
<1>4. Unreported = Range(cache) \cup Waiting(events)
  BY UnreportedIs
<1>5. B \cap (Range(cache) \cup Waiting(events)) = {}
  BY <1>3, <1>4 DEF Agreement, SurvivorsAccounted
<1>6. /\ events' \in Seq(Seq(Users)) /\ events' # <<>>
      /\ Waiting(events') = Waiting(events) \cup Range(cache)
      /\ Apart(events', cache')
  BY <1>1, <1>3, <1>5, ReportSent
<1>7. Unreported' = Unreported \cup B
  BY <1>1, <1>4, <1>6, UnreportedWill
<1>8. Types'
  BY <1>1, <1>2, <1>6 DEF Agreement, Types
<1>9. NotBegun' /\ DealtHaveChips' /\ Apart(events, cache)' /\ SomebodyDeals'
  BY <1>1, <1>3, <1>6 DEF NotBegun, DealtHaveChips, SomebodyDeals
<1>10. SurvivorsAccounted'
  BY <1>1, <1>2, <1>3, <1>7 DEF Agreement, SurvivorsAccounted
<1> QED
  BY <1>8, <1>9, <1>10 DEF Agreement

(* The director strikes the users of the first report.                     *)
LEMMA HandleAgrees ==
  ASSUME Agreement, HandleHandCompleted
  PROVE  Agreement'
<1> DEFINE h == Head(events)
           busted == Keeping(h, survivors)
           left == survivors \ Range(busted)
<1>1. /\ status = "Running" /\ events # <<>> /\ events' = Tail(events)
      /\ survivors' = left /\ order' = order \o busted
      /\ \/ status' = "Completed" /\ starts' = starts
         \/ status' = status /\ starts' = starts + 1
      /\ UNCHANGED <<registered, stack, leaving, hand, cache, refused, removed>>
  BY DEF HandleHandCompleted, GoOn, table, seats, play
<1>2. /\ events \in Seq(Seq(Users)) /\ cache \in Seq(Users) /\ order \in Seq(Users)
      /\ starts \in Nat /\ Apart(events, cache)
  BY DEF Agreement, Types
<1>3. /\ h \in Seq(Users) /\ events' \in Seq(Seq(Users))
      /\ Waiting(events) = Waiting(events') \cup Range(h)
      /\ Range(h) \cap (Range(cache) \cup Waiting(events')) = {}
      /\ Apart(events', cache)
  BY <1>1, <1>2, ReportRead
<1> HIDE DEF h
<1>4. /\ survivors = Seated \cup Unreported \cup removed
      /\ Seated \cap (Unreported \cup removed) = {} /\ Unreported \cap removed = {}
      /\ registered = survivors \cup Range(order) /\ survivors \cap Range(order) = {}
  BY <1>1 DEF Agreement, SurvivorsAccounted
<1>5. Unreported = Range(h) \cup Unreported' /\ Range(h) \cap Unreported' = {}
  BY <1>1, <1>3, UnreportedIs, UnreportedWill
<1>6. busted \in Seq(Users) /\ Range(busted) = Range(h)
  <2>1. busted \in Seq(Users) /\ {busted[k] : k \in DOMAIN busted} = {h[i] : i \in DOMAIN h} \cap survivors
    BY <1>3, KeepingIsPart
  <2> HIDE DEF busted
  <2>2. Range(busted) = Range(h) \cap survivors
    BY <2>1 DEF Range
  <2> QED
    BY <1>4, <1>5, <2>1, <2>2
<1> HIDE DEF busted
<1>7. order' \in Seq(Users) /\ Range(order') = Range(order) \cup Range(h)
  <2> DEFINE f == order \o busted
  <2>1. /\ f \in Seq(Users) /\ Len(order) \in Nat /\ Len(busted) \in Nat
        /\ DOMAIN order = 1 .. Len(order) /\ DOMAIN busted = 1 .. Len(busted)
        /\ DOMAIN f = 1 .. Len(order) + Len(busted)
        /\ \A i \in 1 .. Len(order) : f[i] = order[i]
        /\ \A i \in 1 .. Len(busted) : f[Len(order) + i] = busted[i]
    BY <1>2, <1>6
  <2> HIDE DEF f
  <2>2. ASSUME NEW x \in Range(f) PROVE x \in Range(order) \cup Range(busted)
    <3>1. PICK i \in DOMAIN f : f[i] = x
      BY <2>2 DEF Range
    <3>2. i \in 1 .. Len(order) \/ (i - Len(order) \in 1 .. Len(busted)
                                     /\ Len(order) + (i - Len(order)) = i)
      BY <2>1
    <3> QED
      BY <2>1, <3>1, <3>2 DEF Range
  <2>3. ASSUME NEW x \in Range(order) PROVE x \in Range(f)
    BY <2>1, <2>3 DEF Range
  <2>4. ASSUME NEW x \in Range(busted) PROVE x \in Range(f)
    <3>1. PICK i \in 1 .. Len(busted) : busted[i] = x
      BY <2>1, <2>4 DEF Range
    <3>2. Len(order) + i \in DOMAIN f
      BY <2>1
    <3> QED
      BY <2>1, <3>1, <3>2 DEF Range
  <2>5. Range(f) = Range(order) \cup Range(busted)
    BY <2>2, <2>3, <2>4
  <2> QED
    BY <1>1, <1>6, <2>1, <2>5 DEF f
<1>8. Seated' = Seated /\ starts' \in Nat
  BY <1>1, <1>2 DEF Seated
<1>9. Types'
  BY <1>1, <1>3, <1>7, <1>8 DEF Agreement, Types
<1>10. NotBegun' /\ DealtHaveChips' /\ Apart(events, cache)'
  BY <1>1, <1>3 DEF Agreement, NotBegun, DealtHaveChips
<1>11. SomebodyDeals'
  BY <1>1, <1>2 DEF SomebodyDeals
<1>12. SurvivorsAccounted'
  BY <1>1, <1>4, <1>5, <1>6, <1>7, <1>8 DEF SurvivorsAccounted
<1> QED
  BY <1>9, <1>10, <1>11, <1>12 DEF Agreement
-----------------------------------------------------------------------------
LEMMA AgreementKept == Agreement /\ Accounts /\ [Next]_vars => Agreement'
<1> SUFFICES ASSUME Agreement, Accounts, [Next]_vars PROVE Agreement'
  OBVIOUS
<1>1. CASE UNCHANGED vars
  <2>1. UNCHANGED <<status, registered, survivors, order, stack, leaving, hand, removed,
                    cache, events, starts, refused>>
    BY <1>1 DEF vars, director, table, seats, play
  <2>2. Unreported' = Unreported /\ Seated' = Seated
    BY <2>1, UnreportedIs, UnreportedWill DEF Seated
  <2> QED
    BY <2>1, <2>2 DEF Agreement, Types, NotBegun, DealtHaveChips, Apart, SurvivorsAccounted,
                      SomebodyDeals
<1>2. CASE StartTournament
  BY <1>2, StartAgrees
<1>3. CASE StartHand
  <2>1. StartNewHand /\ starts' \in Nat /\ status # "Registering"
    BY <1>3 DEF StartHand, Agreement, NotBegun, Types
  <2> QED
    BY <2>1, DealAgrees
<1>4. CASE FinishHand
  <2>1. CASE hand = {}
    BY <1>4, <2>1, NoHandAgrees
  <2>2. CASE hand # {}
    <3>1. PICK B \in SUBSET hand : HandEnds(B)
      BY <1>4, <2>2, FinishHandEnds DEF Agreement, Accounts
    <3> QED
      BY <2>2, <3>1, HandAgrees
  <2> QED
    BY <2>1, <2>2
<1>5. CASE HandleHandCompleted
  BY <1>5, HandleAgrees
<1>6. CASE CompleteHand
  BY <1>6, OthersAgree
<1>7. ASSUME NEW u \in Users,
             \/ Register(u) \/ Unregister(u) \/ StartHandOf(u)
             \/ SitOut(u) \/ Reconnect(u) \/ Leave(u)
      PROVE  Agreement'
  <2>1. CASE Register(u) \/ Unregister(u)
    BY <2>1, RegistrationAgrees
  <2>2. CASE StartHandOf(u)
    <3>1. StartNewHand /\ starts' \in Nat /\ status # "Registering"
      BY <2>2 DEF StartHandOf, Agreement, NotBegun, Types
    <3> QED
      BY <3>1, DealAgrees
  <2>3. CASE SitOut(u) \/ Reconnect(u)
    BY <2>3, OthersAgree
  <2>4. CASE Leave(u)
    BY <2>4, LeaveAgrees
  <2> QED
    BY <1>7, <2>1, <2>2, <2>3, <2>4
<1> QED
  BY <1>1, <1>2, <1>3, <1>4, <1>5, <1>6, <1>7 DEF Next
-----------------------------------------------------------------------------
(* Chips leave the stacks at the end of a hand or with a user.             *)
LEMMA AccountsAtFirst == Init => Accounts
<1> SUFFICES ASSUME Init PROVE Accounts
  OBVIOUS
<1>1. /\ status = "Registering" /\ taken = 0 /\ lost = 0 /\ reveals = 0
      /\ complete = FALSE /\ late = FALSE
  BY DEF Init
<1>2. NoChipsYet /\ EndsOnce /\ ChipsAccounted
  BY <1>1 DEF NoChipsYet, EndsOnce, ChipsAccounted
<1> QED
  BY <1>1, <1>2 DEF Accounts

(* Registered is who sits down, and all of the seats are taken.            *)
LEMMA StartAccounts ==
  ASSUME Agreement, Accounts, StartTournament
  PROVE  Accounts'
<1>1. /\ status = "Registering" /\ Full
      /\ stack' = [u \in registered |-> BuyIn]
      /\ UNCHANGED <<hand, complete, reveals, lost, late, taken>>
  BY DEF StartTournament, play
<1>2. IsFiniteSet(registered) /\ Cardinality(registered) = MaxPlayers
  BY <1>1, UsersAreFinite DEF Agreement, Types, Full
<1>3. DOMAIN stack' = registered /\ \A u \in registered : stack'[u] = BuyIn
  BY <1>1
<1>4. BuyIn \in Int /\ MaxPlayers \in Int /\ Pool = MaxPlayers * BuyIn
  BY TournamentAssumption DEF Pool
<1>5. Chips' = SumOver(stack', registered)
  BY <1>3, SumFunctionIsSum DEF Chips
<1>6. SumOver(stack', registered) = BuyIn * Cardinality(registered)
  <2> DEFINE f == [u \in registered |-> BuyIn]
  <2>1. \A u \in registered : f[u] = BuyIn
    OBVIOUS
  <2>2. f = stack'
    BY <1>1
  <2> HIDE DEF f
  <2>3. SumOver(f, registered) = BuyIn * Cardinality(registered)
    BY <1>2, <1>4, <2>1, SumOfConstant
  <2> QED
    BY <2>2, <2>3
<1>7. Chips' = Pool
  BY <1>2, <1>4, <1>5, <1>6
<1>8. taken = 0 /\ lost = 0
  BY <1>1 DEF Accounts, NoChipsYet
<1>9. Chips' + taken' + lost' = Pool
  BY <1>1, <1>4, <1>7, <1>8
<1>10. status' # "Registering"
  BY DEF StartTournament
<1> QED
  BY <1>1, <1>8, <1>9, <1>10 DEF Accounts, EndsOnce, NoChipsYet, ChipsAccounted

(* The user takes his chips along, or waits and completes the hand.        *)
LEMMA LeaveAccounts ==
  ASSUME Agreement, Accounts, NEW u \in Users, Leave(u)
  PROVE  Accounts'
<1>1. u \in Seated /\ status' = status /\ hand' = hand /\ lost' = lost
  BY DEF Leave, director
<1>2. status # "Registering"
  BY <1>1 DEF Agreement, NotBegun
<1>3. CASE hand = {}
  <2>1. /\ stack' = [v \in Seated \ {u} |-> stack[v]] /\ taken' = taken + stack[u]
        /\ UNCHANGED <<complete, reveals, late>>
    BY <1>3 DEF Leave
  <2>2. IsFiniteSet(Seated) /\ stack \in [Seated -> Nat]
    BY UsersAreFinite DEF Agreement, Types
  <2>3. stack[u] \in Nat /\ \A v \in Seated : stack[v] \in Int
    BY <1>1, <2>2
  <2>4. /\ Chips = SumOver(stack, Seated) /\ Chips' = SumFunction(stack')
        /\ DOMAIN stack' = Seated \ {u}
    BY <2>1, SumFunctionIsSum DEF Chips, Seated
  <2> DEFINE T == Seated \ {u}
             g == [v \in T |-> stack[v]]
  <2>5. T \in SUBSET Seated /\ {u} = Seated \ T
    BY <1>1
  <2>6. SumFunction(g) \in Nat /\ SumFunction(g) + stack[u] = SumOver(stack, Seated)
    <3>1. SumOver(stack, Seated) = stack[u] + SumOver(stack, T)
      BY <1>1, <2>2, <2>3, SumRemoves
    <3>2. SumFunction(g) = SumOver(stack, T)
      <4>1. DOMAIN g = T
        OBVIOUS
      <4>2. SumFunction(g) = SumOver(g, T)
        BY <4>1, SumFunctionIsSum
      <4>3. \A v \in T : stack[v] \in Int /\ g[v] = stack[v]
        BY <2>3
      <4>4. IsFiniteSet(T) /\ T \in SUBSET T /\ \A v \in T \ T : stack[v] = 0
        BY <2>2, FS_Subset
      <4> HIDE DEF g, T
      <4>5. SumOver(stack, T) = SumOver(g, T)
        BY <4>3, <4>4, SumSkipsZeros
      <4> QED
        BY <4>2, <4>5
    <3>3. SumFunction(g) \in Nat
      <4>1. IsFiniteSet(T) /\ \A v \in T : stack[v] \in Nat
        BY <2>2, FS_Subset
      <4> HIDE DEF g, T
      <4> QED
        BY <3>2, <4>1, SumIsNat
    <3> HIDE DEF g, T
    <3> QED
      BY <2>3, <3>1, <3>2, <3>3
  <2>7. stack' = g
    BY <2>1
  <2> HIDE DEF g, T
  <2>8. Chips' + taken' + lost' = Chips + taken + lost /\ taken' \in Nat
    <3>1. taken \in Nat /\ lost \in Nat
      BY DEF Accounts
    <3> QED
      BY <1>1, <2>1, <2>3, <2>4, <2>6, <2>7, <3>1
  <2> QED
    BY <1>1, <1>2, <2>1, <2>8 DEF Accounts, EndsOnce, NoChipsYet, ChipsAccounted
<1>4. CASE hand # {}
  <2>1. /\ UNCHANGED <<stack, taken>> /\ late' = (late \/ complete)
        /\ \/ complete' = TRUE /\ reveals' = reveals + 1
           \/ ~complete /\ UNCHANGED <<complete, reveals>>
    BY <1>4 DEF Leave, Reveal
  <2>2. Chips' = Chips
    BY <2>1 DEF Chips
  <2>3. /\ taken \in Nat /\ lost \in Nat /\ reveals \in Nat /\ complete \in BOOLEAN /\ late \in BOOLEAN
        /\ EndsOnce /\ Chips + taken + lost = Pool
    BY <1>2 DEF Accounts, ChipsAccounted
  <2>4. reveals' \in Nat /\ complete' \in BOOLEAN /\ late' \in BOOLEAN
    <3>1. reveals' \in Nat
      BY <2>1, <2>3
    <3>2. complete' \in BOOLEAN /\ late' \in BOOLEAN
      BY Zenon, <2>1, <2>3
    <3> QED
      BY <3>1, <3>2
  <2>5. EndsOnce'
    <3>1. complete' => hand' # {}
      BY <1>1, <1>4
    <3>2. ASSUME ~late' PROVE lost' = 0 /\ reveals' = (IF complete' THEN 1 ELSE 0)
      <4>1. ~late /\ ~complete
        BY <2>1, <3>2
      <4>2. lost = 0 /\ reveals = 0
        BY <2>3, <4>1 DEF EndsOnce
      <4>3. CASE complete' = TRUE /\ reveals' = reveals + 1
        BY <1>1, <4>2, <4>3
      <4>4. CASE UNCHANGED <<complete, reveals>>
        BY <1>1, <4>1, <4>2, <4>4
      <4> QED
        BY <2>1, <4>3, <4>4
    <3> QED
      BY <3>1, <3>2 DEF EndsOnce
  <2>6. ChipsAccounted'
    <3>1. Chips' + taken' + lost' = Pool
      BY <1>1, <2>1, <2>2, <2>3
    <3>2. ~late' => lost' = 0
      BY <2>5 DEF EndsOnce
    <3>3. Pool' = Pool
      BY DEF Pool
    <3> QED
      BY <3>1, <3>2, <3>3 DEF ChipsAccounted
  <2> QED
    BY <1>1, <1>2, <2>1, <2>3, <2>4, <2>5, <2>6 DEF Accounts, NoChipsYet
<1> QED
  BY <1>3, <1>4

(* What a hand closed as it should does not pay is nothing.                *)
LEMMA HandAccounts ==
  ASSUME Agreement, Accounts, FinishHand
  PROVE  Accounts'
<1>1. reveals > 0 /\ reveals' = reveals - 1 /\ late' = late /\ status' = status
  BY DEF FinishHand, director
<1>2. CASE hand = {}
  <2>1. UNCHANGED <<stack, taken, hand, complete, lost>>
    BY <1>2 DEF FinishHand, seats, PayPots, LosePots
  <2>2. Chips' = Chips
    BY <2>1 DEF Chips
  <2> QED
    BY <1>1, <1>2, <2>1, <2>2 DEF Accounts, EndsOnce, NoChipsYet, ChipsAccounted
<1>3. CASE hand # {}
  <2>1. PICK B \in SUBSET hand : HandEnds(B)
    BY <1>3, FinishHandEnds DEF Agreement, Accounts
  <2>2. /\ taken' \in Nat /\ lost' \in Nat /\ (complete => lost' = lost)
        /\ Chips' + taken' + lost' = Chips + taken + lost
        /\ hand' = {} /\ complete' = FALSE
    BY <2>1 DEF HandEnds
  <2>3. status # "Registering"
    BY <1>3 DEF Agreement, NotBegun, Types
  <2>4. reveals \in Nat /\ late \in BOOLEAN /\ EndsOnce /\ Chips + taken + lost = Pool
    BY <2>3 DEF Accounts, ChipsAccounted
  <2>5. reveals' \in Nat
    BY <1>1, <2>4
  <2>6. ASSUME ~late PROVE lost' = 0 /\ reveals' = 0
    <3>1. complete /\ lost = 0 /\ reveals = 1
      BY <1>1, <2>4, <2>6 DEF EndsOnce
    <3> QED
      BY <1>1, <2>2, <3>1
  <2>7. EndsOnce'
    BY <1>1, <2>2, <2>6 DEF EndsOnce
  <2>8. ChipsAccounted' /\ NoChipsYet'
    <3>1. Pool' = Pool
      BY DEF Pool
    <3> QED
      BY <1>1, <2>2, <2>3, <2>4, <2>6, <3>1 DEF ChipsAccounted, NoChipsYet
  <2> QED
    BY <1>1, <2>2, <2>4, <2>5, <2>7, <2>8 DEF Accounts
<1> QED
  BY <1>2, <1>3

LEMMA AccountsKept == Agreement /\ Accounts /\ [Next]_vars => Accounts'
<1> SUFFICES ASSUME Agreement, Accounts, [Next]_vars PROVE Accounts'
  OBVIOUS
<1>1. ASSUME UNCHANGED <<stack, taken, complete, reveals, lost, late>>,
             complete => hand' # {}, status' = "Registering" => status = "Registering",
             status = "Registering" => status' = "Registering"
      PROVE  Accounts'
  <2>1. Chips' = Chips
    BY <1>1 DEF Chips
  <2> QED
    BY <1>1, <2>1 DEF Accounts, EndsOnce, NoChipsYet, ChipsAccounted
<1>2. CASE UNCHANGED vars
  BY <1>1, <1>2 DEF vars, director, table, seats, play, Accounts, EndsOnce
<1>3. CASE StartTournament
  BY <1>3, StartAccounts
<1>4. ASSUME StartNewHand PROVE Accounts'
  <2>1. hand # {} => hand' = hand
    BY <1>4 DEF StartNewHand, CanDeal
  <2> QED
    BY <1>1, <1>4, <2>1 DEF StartNewHand, director, seats, Accounts, EndsOnce
<1>5. CASE StartHand
  BY <1>4, <1>5 DEF StartHand
<1>6. CASE CompleteHand
  <2>1. /\ hand # {} /\ ~complete /\ complete' = TRUE /\ reveals' = reveals + 1
        /\ UNCHANGED <<status, stack, taken, hand, lost, late>>
    BY <1>6 DEF CompleteHand, Reveal, director, seats
  <2>2. Chips' = Chips
    BY <2>1 DEF Chips
  <2> QED
    BY <2>1, <2>2 DEF Accounts, EndsOnce, NoChipsYet, ChipsAccounted
<1>7. CASE FinishHand
  BY <1>7, HandAccounts
<1>8. CASE HandleHandCompleted
  BY <1>1, <1>8 DEF HandleHandCompleted, table, seats, play, Accounts, EndsOnce
<1>9. ASSUME NEW u \in Users,
             \/ Register(u) \/ Unregister(u) \/ StartHandOf(u)
             \/ SitOut(u) \/ Reconnect(u) \/ Leave(u)
      PROVE  Accounts'
  <2>1. CASE Register(u) \/ Unregister(u)
    BY <1>1, <2>1 DEF Register, Unregister, table, seats, play, Accounts, EndsOnce
  <2>2. CASE StartHandOf(u)
    BY <1>4, <2>2 DEF StartHandOf
  <2>3. CASE SitOut(u) \/ Reconnect(u)
    BY <1>1, <2>3 DEF SitOut, Reconnect, director, play, Accounts, EndsOnce
  <2>4. CASE Leave(u)
    BY <2>4, LeaveAccounts
  <2> QED
    BY <1>9, <2>1, <2>2, <2>3, <2>4
<1> QED
  BY <1>2, <1>3, <1>5, <1>6, <1>7, <1>8, <1>9 DEF Next

LEMMA AlwaysAgreement == Spec => [](Agreement /\ Accounts)
BY AgreementAtFirst, AgreementKept, AccountsAtFirst, AccountsKept, PTL DEF Spec

(* A survivor of the director is seated, or his bust is on its way, or he  *)
(* was removed otherwise; nobody eliminated is seated                      *)
(* (handle_hand_completed against clear_board_and_start_next).             *)
THEOREM DirectorKnowsWhoIsIn == Spec => []SurvivorsAccounted
<1>1. Agreement => SurvivorsAccounted
  BY DEF Agreement
<1> QED
  BY <1>1, AlwaysAgreement, PTL

(* Between hands an event the director will answer or a command of his is  *)
(* on its way, unless the table refused the last one: no report of a hand  *)
(* and no answer to one is lost (handle_hand_completed, StartHand).        *)
THEOREM NextHandIsAskedFor == Spec => []SomebodyDeals
<1>1. Agreement => SomebodyDeals
  BY DEF Agreement
<1> QED
  BY <1>1, AlwaysAgreement, PTL

(* The chips on the table, those that left it with users and those of pots *)
(* nobody was paid are the chips of the tournament, whatever was bet and   *)
(* whoever won; and no pot is lost before somebody is removed during a     *)
(* reveal (process_winners, clear_board_and_start_next,                    *)
(* check_hand_completion).                                                 *)
THEOREM TableKeepsItsChips == Spec => []ChipsAccounted
<1>1. Accounts => ChipsAccounted
  BY DEF Accounts
<1> QED
  BY <1>1, AlwaysAgreement, PTL
=============================================================================
