-------------------------- MODULE HandEngine_proof --------------------------
(***************************************************************************)
(* Proofs about HandEngine and the raise panel over it (BetBar), for every *)
(* number of seats, blinds and stacks, of hands without an ante (every     *)
(* cash hand; with one, TurnIsOpen fails in the first state when it takes  *)
(* the stack of the first seat to act).                                    *)
(*                                                                         *)
(* TurnIsOpen is not inductive: that the next seat that can act still has  *)
(* a decision to make depends on the seats beyond it.  The invariant that  *)
(* carries it is PendingFirst: going round the table from the seat on      *)
(* turn, the seats that still have to act come before those that are done. *)
(*                                                                         *)
(* That a hand can be paid out rests on two more facts.  Its pot is what   *)
(* the seats put in (PotInv), and at a showdown everybody left has paid:   *)
(* who is all in with the stack he came with, the others as much as        *)
(* anybody, and the blinds are chips.  The rest is about SidePots (Chips). *)
(*                                                                         *)
(* That the panel's amount stays legal is not only a matter of the panel:  *)
(* while it is open, the hero's own call may give him the turn back with   *)
(* fewer chips.  The panel starts anew then because its minimum is another *)
(* one (CalledAgain), for which the least raise must never be below the    *)
(* big blind (BigRaise).                                                   *)
(*                                                                         *)
(* Last, the pots of a hand and what is paid out of them keep the rules of *)
(* table stakes, for every number of seats, every pattern of bets and      *)
(* folds and every ranking of the hands (MCSidePots).                      *)
(***************************************************************************)
EXTENDS BetBar, MCSidePots, Chips

(* How many places clockwise of c the seat s sits.                         *)
Dist(c, s) == IF s >= c THEN s - c ELSE s - c + N

PendingFirst(h) ==
  \A s, t \in Active(h) \ {h.current} :
    Dist(h.current, s) < Dist(h.current, t) /\ Pending(h, t) => Pending(h, s)

BetsUnderLevel(h) == \A s \in Seats : h.roundBet[s] <= h.smallest
AllInIsBroke(h)   == \A s \in Seats : h.stack[s] = 0 <=> s \in h.allIn
ChipsOf(h)        == \A s \in Seats : h.stack[s] + h.totalBet[s] = start[s]

BoardOf == [Preflop |-> 0, Flop |-> 3, Turn |-> 4, River |-> 5]

(* What holds of the hand at every point of a call, turns aside.           *)
Sound(h) ==
  /\ h \in Hands
  /\ BetsUnderLevel(h)
  /\ AllInIsBroke(h)
  /\ ChipsOf(h)

Running(h) ==
  /\ ~h.complete
  /\ h.street \in DOMAIN BoardOf
  /\ h.board = BoardOf[h.street]

(* What holds between calls.                                               *)
HandInv(h) ==
  /\ Sound(h)
  /\ ~h.complete =>
       /\ Running(h)
       /\ h.current \in Active(h)
       /\ Pending(h, h.current)
       /\ PendingFirst(h)

(* What holds when the seat on turn has acted and the turn has not moved.  *)
Decided(h) ==
  /\ Sound(h)
  /\ Running(h)
  /\ h.current \in Active(h) => ~Pending(h, h.current)
  /\ PendingFirst(h)

IInv == start \in [Seats -> StartStacks] /\ HandInv(hand)

-----------------------------------------------------------------------------
(* A nonempty set of naturals has a least element.                         *)
LEMMA SmallestNat ==
  ASSUME NEW T \in SUBSET Nat, T # {}
  PROVE  \E x \in T : \A y \in T : x <= y
<1>1. IsWellFoundedOn({p \in Nat \X Nat : p[1] < p[2]}, Nat)
  BY NatLessThanWellFounded, Zenon DEF OpToRel
<1>2. PICK x \in T : \A y \in T : <<y, x>> \notin {p \in Nat \X Nat : p[1] < p[2]}
  BY <1>1, WFMin, Zenon
<1>3. ASSUME NEW y \in T PROVE x <= y
  <2>1. <<y, x>> \in Nat \X Nat /\ <<y, x>>[1] = y /\ <<y, x>>[2] = x
    OBVIOUS
  <2>2. ~(<<y, x>>[1] < <<y, x>>[2])
    BY <1>2, <2>1, Zenon
  <2> QED
    BY <2>1, <2>2
<1> QED
  BY <1>3

(* A step clockwise from a seat is a seat.                                 *)
LEMMA AfterIsSeat ==
  ASSUME NEW s \in Seats, NEW d \in 0 .. N
  PROVE  After(s, d) \in Seats
BY SeatsAssumption DEF After, Seats

(* Distances measured from the next seat are one less, except to the seat  *)
(* itself, which becomes the farthest.                                     *)
LEMMA DistFromNext ==
  ASSUME NEW c \in Seats, NEW s \in Seats
  PROVE  Dist(After(c, 1), s) = IF s = c THEN N - 1 ELSE Dist(c, s) - 1
BY SeatsAssumption DEF Dist, After, Seats

(* Going round from c, a seat t at least as far as a is found from a too.  *)
LEMMA DistFromFarther ==
  ASSUME NEW c \in Seats, NEW a \in Seats, NEW t \in Seats,
         Dist(c, a) <= Dist(c, t)
  PROVE  Dist(a, t) = Dist(c, t) - Dist(c, a)
BY SeatsAssumption DEF Dist, Seats

LEMMA DistIsZero ==
  ASSUME NEW c \in Seats, NEW s \in Seats
  PROVE  /\ Dist(c, s) \in Seats
         /\ Dist(c, s) = 0 <=> s = c
BY SeatsAssumption DEF Dist, Seats

(* The seat FirstActive finds can act, and no other that can is nearer.    *)
LEMMA FirstActiveIsNearest ==
  ASSUME NEW h \in Hands, NEW c \in Seats
  PROVE  /\ FirstActive(h, c) \in Seats
         /\ Active(h) # {} =>
              /\ FirstActive(h, c) \in Active(h)
              /\ \A t \in Active(h) : Dist(c, FirstActive(h, c)) <= Dist(c, t)
<1>1. CASE Active(h) = {}
  BY <1>1 DEF FirstActive
<1>2. CASE Active(h) # {}
  <2> DEFINE Nearest(d) == /\ After(c, d) \in Active(h)
                           /\ \A e \in Seats : e < d => After(c, e) \notin Active(h)
             Steps == {d \in Seats : After(c, d) \in Active(h)}
  <2>1. \A t \in Seats : Dist(c, t) \in Seats /\ After(c, Dist(c, t)) = t
    BY SeatsAssumption DEF Dist, After, Seats
  <2>2. \A d \in Seats : Dist(c, After(c, d)) = d
    BY SeatsAssumption DEF Dist, After, Seats
  <2>3. Steps # {} /\ Steps \subseteq Nat
    BY <1>2, <2>1, SeatsAssumption DEF Active, Seats
  <2>4. PICK m \in Steps : \A d \in Steps : m <= d
    BY <2>3, SmallestNat
  <2>5. m \in Seats /\ Nearest(m)
    BY <2>4, SeatsAssumption DEF Seats
  <2> DEFINE d0 == CHOOSE d \in Seats : Nearest(d)
  <2>6. d0 \in Seats /\ Nearest(d0)
    BY <2>5, Zenon
  <2>7. FirstActive(h, c) = After(c, d0)
    BY <1>2 DEF FirstActive
  <2>8. \A u \in Active(h) : d0 <= Dist(c, u)
    BY <2>1, <2>6, SeatsAssumption DEF Active, Seats
  <2>9. Dist(c, After(c, d0)) = d0
    BY <2>2, <2>6
  <2> QED
    BY <1>2, <2>6, <2>7, <2>8, <2>9 DEF Active
<1> QED
  BY <1>1, <1>2

-----------------------------------------------------------------------------
LEMMA ShowdownSound ==
  ASSUME NEW h \in Hands
  PROVE  /\ Showdown(h) \in Hands /\ Showdown(h).complete
         /\ Showdown(h).allIn = h.allIn /\ Showdown(h).stack = h.stack
         /\ Showdown(h).totalBet = h.totalBet /\ Showdown(h).roundBet = h.roundBet
         /\ Showdown(h).smallest = h.smallest
<1>1. h.wentToShowdown \cup InHand(h) \in SUBSET Seats
  BY DEF Hands, InHand
<1> QED
  BY <1>1 DEF Showdown, Hands, Streets

(* end_round leaves a hand that is over or waits for a seat that can act.  *)
LEMMA EndRoundInv ==
  ASSUME NEW h, Sound(h), Running(h)
  PROVE  HandInv(EndRound(h))
<1> USE DEF Sound, Running, BoardOf
<1>1. CASE h.street = "River" \/ Active(h) = {}
  <2> DEFINE b == IF h.street = "River" THEN h ELSE [h EXCEPT !.board = 5]
  <2>1. EndRound(h) = Showdown(b)
    BY <1>1 DEF EndRound
  <2>2. /\ b \in Hands /\ b.allIn = h.allIn /\ b.stack = h.stack /\ b.totalBet = h.totalBet
        /\ b.roundBet = h.roundBet /\ b.smallest = h.smallest
    BY DEF Hands
  <2> HIDE DEF b
  <2> QED
    BY <2>1, <2>2, ShowdownSound DEF HandInv, BetsUnderLevel, AllInIsBroke, ChipsOf
<1>2. CASE h.street # "River" /\ Active(h) # {}
  <2> DEFINE g == [h EXCEPT !.board  = @ + Dealt[h.street],
                            !.street = NextStreet[h.street]]
  <2>1. EndRound(h) = ResetRound(g)
    BY <1>2 DEF EndRound
  <2>2. /\ g \in Hands /\ ~g.complete /\ g.dealer \in Seats
        /\ g.street \in DOMAIN BoardOf /\ g.board = BoardOf[g.street]
        /\ Active(g) = Active(h) /\ g.allIn = h.allIn /\ g.folded = h.folded
        /\ g.stack = h.stack /\ g.totalBet = h.totalBet
    <3>1. h.street \in {"Preflop", "Flop", "Turn"}
      BY <1>2
    <3>2. /\ h.board + Dealt[h.street] = BoardOf[NextStreet[h.street]]
          /\ NextStreet[h.street] \in DOMAIN BoardOf
          /\ NextStreet[h.street] \in Streets
          /\ h.board + Dealt[h.street] \in 0 .. 5
      BY <3>1 DEF Dealt, NextStreet, Streets
    <3> QED
      BY <3>2 DEF Hands, Active
  <2> HIDE DEF g
  <2> DEFINE c == FirstActive(g, After(g.dealer, 1))
             r == ResetRound(g)
  <2>3. c \in Active(g)
    BY <1>2, <2>2, AfterIsSeat, FirstActiveIsNearest, SeatsAssumption
  <2>4. c \in Seats
    BY <2>3 DEF Active
  <2>5. /\ r \in Hands /\ r.current = c /\ r.acted = {} /\ r.smallest = 0
        /\ r.roundBet = [s \in Seats |-> 0] /\ ~r.complete
        /\ r.street = g.street /\ r.board = g.board
        /\ r.allIn = g.allIn /\ r.folded = g.folded
        /\ r.stack = g.stack /\ r.totalBet = g.totalBet
    BY <2>2, <2>4, BlindsAssumption DEF ResetRound, Hands
  <2> HIDE DEF r, c
  <2>6. Active(r) = Active(g)
    BY <2>5 DEF Active
  <2>7. \A s \in Seats : Pending(r, s)
    BY <2>5 DEF Pending
  <2>8. Sound(r)
    BY <2>2, <2>5 DEF BetsUnderLevel, AllInIsBroke, ChipsOf
  <2>9. Running(r) /\ r.current \in Active(r) /\ Pending(r, r.current) /\ PendingFirst(r)
    BY <2>2, <2>3, <2>4, <2>5, <2>6, <2>7 DEF PendingFirst, Active
  <2> QED
    BY <2>1, <2>8, <2>9 DEF HandInv, r
<1> QED
  BY <1>1, <1>2

(* Once the seat on turn has decided, advance_turn restores the invariant: *)
(* the turn goes to a seat that can act and has something to decide, or    *)
(* the round was complete and is closed.                                   *)
LEMMA AdvanceTurnInv ==
  ASSUME NEW h, Decided(h)
  PROVE  HandInv(AdvanceTurn(h))
<1> DEFINE next == FirstActive(h, After(h.current, 1))
           m    == [h EXCEPT !.current = next]
<1>1. h \in Hands /\ h.current \in Seats /\ After(h.current, 1) \in Seats
  BY AfterIsSeat, SeatsAssumption DEF Decided, Sound, Hands
<1>2. /\ next \in Seats
      /\ Active(h) # {} =>
           /\ next \in Active(h)
           /\ \A t \in Active(h) :
                Dist(After(h.current, 1), next) <= Dist(After(h.current, 1), t)
  BY <1>1, FirstActiveIsNearest
<1>3. AdvanceTurn(h) = IF RoundComplete(m) THEN EndRound(m) ELSE m
  BY DEF AdvanceTurn
<1> HIDE DEF next
<1>4. /\ m \in Hands /\ m.current = next
      /\ m.stack = h.stack /\ m.totalBet = h.totalBet /\ m.roundBet = h.roundBet
      /\ m.smallest = h.smallest /\ m.allIn = h.allIn /\ m.folded = h.folded
      /\ m.acted = h.acted /\ m.complete = h.complete
      /\ m.street = h.street /\ m.board = h.board
  BY <1>1, <1>2 DEF Hands
<1> HIDE DEF m
<1>5. Active(m) = Active(h) /\ Active(m) \subseteq Seats
  BY <1>4 DEF Active
<1>6. \A s : Pending(m, s) <=> Pending(h, s)
  BY <1>4 DEF Pending
<1>7. Sound(m) /\ Running(m)
  BY <1>4 DEF Decided, Sound, Running, BetsUnderLevel, AllInIsBroke, ChipsOf
<1>8. CASE RoundComplete(m)
  BY <1>3, <1>7, <1>8, EndRoundInv
<1>9. CASE ~RoundComplete(m)
  <2>1. PICK p \in Active(m) : Pending(m, p)
    <3>1. \A s \in Seats : m.roundBet[s] \in Nat /\ m.smallest \in Nat /\ m.roundBet[s] <= m.smallest
      BY <1>4, <1>7 DEF Hands, Sound, BetsUnderLevel
    <3> QED
      BY <1>5, <1>9, <3>1 DEF RoundComplete, Pending
  <2>2. p # h.current /\ p \in Seats
    BY <1>5, <1>6, <2>1 DEF Decided
  <2>3. next \in Active(h) /\ next \in Seats
    BY <1>2, <1>5, <2>1
  <2>4. \A t \in Active(h) :
          Dist(After(h.current, 1), next) <= Dist(After(h.current, 1), t)
    BY <1>2, <2>3
  <2> DEFINE D(t) == Dist(h.current, t)
  <2>5. \A t \in Seats : D(t) \in Seats /\ (D(t) = 0 <=> t = h.current)
    BY <1>1, DistIsZero
  <2>6. \A t \in Seats :
          Dist(After(h.current, 1), t) = IF t = h.current THEN N - 1 ELSE D(t) - 1
    BY <1>1, DistFromNext
  <2> HIDE DEF D
  <2>7. next # h.current
    <3>1. SUFFICES ASSUME next = h.current PROVE FALSE
      OBVIOUS
    <3>2. Dist(After(h.current, 1), p) = D(p) - 1 /\ Dist(After(h.current, 1), next) = N - 1
      BY <2>2, <2>3, <2>6, <3>1
    <3>3. N - 1 <= D(p) - 1
      BY <1>5, <2>1, <2>4, <3>2
    <3> QED
      BY <2>2, <2>5, <3>3, SeatsAssumption DEF Seats
  <2>8. \A t \in Active(h) \ {h.current} : D(next) <= D(t)
    BY <1>5, <2>3, <2>4, <2>5, <2>6, <2>7, SeatsAssumption DEF Seats
  <2>9. Pending(m, next)
    <3>1. CASE p = next
      BY <2>1, <3>1
    <3>2. CASE p # next
      <4>1. D(next) # D(p)
        BY <1>1, <2>2, <2>3, <3>2, SeatsAssumption DEF D, Dist, Seats
      <4>2. D(next) < D(p)
        BY <1>5, <2>1, <2>2, <2>3, <2>5, <2>8, <4>1, SeatsAssumption DEF Seats
      <4> QED
        BY <1>5, <1>6, <2>1, <2>2, <2>3, <2>7, <4>2 DEF Decided, PendingFirst, D
    <3> QED
      BY <3>1, <3>2
  <2>10. PendingFirst(m)
    <3>1. SUFFICES ASSUME NEW s \in Active(m) \ {next}, NEW t \in Active(m) \ {next},
                          Dist(next, s) < Dist(next, t), Pending(m, t)
                   PROVE  Pending(m, s)
      BY <1>4 DEF PendingFirst
    <3>2. t # h.current
      BY <1>5, <1>6, <3>1 DEF Decided
    <3>3. s \in Seats /\ t \in Seats
      BY <1>5
    <3>4. Dist(next, t) = D(t) - D(next)
      BY <1>1, <1>5, <2>3, <2>8, <3>2, <3>3, DistFromFarther DEF D
    <3>5. s # h.current
      <4>1. SUFFICES ASSUME s = h.current PROVE FALSE
        OBVIOUS
      <4>2. Dist(next, s) = N - D(next)
        BY <1>1, <2>3, <2>7, <4>1, SeatsAssumption DEF D, Dist, Seats
      <4>3. D(t) \in Seats /\ D(next) \in Seats
        BY <2>3, <2>5, <3>3
      <4> QED
        BY <3>1, <3>4, <4>2, <4>3, SeatsAssumption DEF Seats
    <3>6. Dist(next, s) = D(s) - D(next)
      BY <1>1, <1>5, <2>3, <2>8, <3>3, <3>5, DistFromFarther DEF D
    <3>7. D(s) < D(t)
      BY <2>3, <2>5, <3>1, <3>3, <3>4, <3>6, SeatsAssumption DEF Seats
    <3> QED
      BY <1>5, <1>6, <3>1, <3>2, <3>5, <3>7 DEF Decided, PendingFirst, D
  <2> QED
    BY <1>3, <1>4, <1>5, <1>7, <1>9, <2>3, <2>9, <2>10 DEF HandInv
<1> QED
  BY <1>8, <1>9

-----------------------------------------------------------------------------
(* What paying chips out of the stack of s does to a hand.                *)
Paid(h, g, s, chips) ==
  /\ g \in Hands /\ AllInIsBroke(g) /\ ChipsOf(g)
  /\ g.stack = [h.stack EXCEPT ![s] = h.stack[s] - chips]
  /\ g.roundBet = [h.roundBet EXCEPT ![s] = h.roundBet[s] + chips]
  /\ g.allIn = IF h.stack[s] = chips THEN h.allIn \cup {s} ELSE h.allIn
  /\ g.folded = h.folded /\ g.acted = h.acted /\ g.smallest = h.smallest
  /\ g.minRaise = h.minRaise /\ g.current = h.current
  /\ g.street = h.street /\ g.board = h.board /\ g.complete = h.complete

(* Paying chips keeps every seat's account, and marks it all-in exactly    *)
(* when it has nothing left.                                               *)
LEMMA AddBetSound ==
  ASSUME NEW h, Sound(h), NEW s \in Seats, s \notin h.allIn,
         NEW chips \in Nat, chips <= h.stack[s], chips > 0
  PROVE  Paid(h, AddBet(h, s, chips), s, chips)
<1> DEFINE g == AddBet(h, s, chips)
<1>1. /\ h.stack \in [Seats -> Nat] /\ h.totalBet \in [Seats -> Nat]
      /\ h.roundBet \in [Seats -> Nat] /\ h.pot \in Nat
      /\ h.allIn \in SUBSET Seats /\ h.wentAllIn \in SUBSET Seats
  BY DEF Sound, Hands
<1>2. /\ h.stack[s] - chips \in Nat /\ h.roundBet[s] + chips \in Nat
      /\ h.totalBet[s] + chips \in Nat /\ h.pot + chips \in Nat
  BY <1>1
<1>3. /\ g \in Hands
      /\ g.stack = [h.stack EXCEPT ![s] = h.stack[s] - chips]
      /\ g.totalBet = [h.totalBet EXCEPT ![s] = h.totalBet[s] + chips]
      /\ g.roundBet = [h.roundBet EXCEPT ![s] = h.roundBet[s] + chips]
      /\ g.allIn = IF h.stack[s] = chips THEN h.allIn \cup {s} ELSE h.allIn
      /\ g.folded = h.folded /\ g.acted = h.acted /\ g.smallest = h.smallest
      /\ g.minRaise = h.minRaise /\ g.current = h.current
      /\ g.street = h.street /\ g.board = h.board /\ g.complete = h.complete
  BY <1>1, <1>2 DEF AddBet, Sound, Hands
<1> HIDE DEF g
<1>4. AllInIsBroke(g)
  BY <1>1, <1>3 DEF Sound, AllInIsBroke
<1>5. ChipsOf(g)
  <2>1. \A t \in Seats : h.stack[t] + h.totalBet[t] = start[t]
    BY DEF Sound, ChipsOf
  <2> QED
    BY <1>1, <1>3, <2>1 DEF ChipsOf
<1> QED
  BY <1>3, <1>4, <1>5 DEF g, Paid

(* The marks a decision leaves on the hand, in terms of the hand before.   *)
LEMMA DecidedBy ==
  ASSUME NEW h, HandInv(h), ~h.complete,
         NEW g, Sound(g), Running(g), g.current = h.current,
         Active(g) \subseteq Active(h), Active(h) \ {h.current} \subseteq Active(g),
         h.current \in Active(g) => ~Pending(g, h.current),
         \/ \A t \in Active(g) \ {h.current} : Pending(g, t)
         \/ \A t \in Active(g) \ {h.current} : Pending(g, t) <=> Pending(h, t)
  PROVE  HandInv(AdvanceTurn(g))
<1>1. PendingFirst(g)
  BY DEF HandInv, PendingFirst
<1> QED
  BY <1>1, AdvanceTurnInv DEF Decided

LEMMA FoldInv ==
  ASSUME IInv, NEW s \in Seats, Fold(s)
  PROVE  IInv'
<1> DEFINE gone == [Acted(hand, s) EXCEPT !.folded = @ \cup {s}]
<1>1. /\ hand \in Hands /\ ~hand.complete /\ hand.current = s
      /\ Sound(hand) /\ Running(hand) /\ HandInv(hand) /\ start' = start
      /\ s \in Active(hand)
  BY DEF IInv, HandInv, Sound, Fold, MayAct
<1>2. /\ gone \in Hands /\ gone.current = s /\ ~gone.complete
      /\ gone.folded = hand.folded \cup {s} /\ gone.acted = hand.acted \cup {s}
      /\ gone.stack = hand.stack /\ gone.totalBet = hand.totalBet
      /\ gone.roundBet = hand.roundBet /\ gone.smallest = hand.smallest
      /\ gone.allIn = hand.allIn /\ gone.street = hand.street /\ gone.board = hand.board
  BY <1>1 DEF Acted, Hands
<1>3. hand' = IF Cardinality(InHand(gone)) = 1 THEN [gone EXCEPT !.complete = TRUE]
              ELSE AdvanceTurn(gone)
  BY DEF Fold
<1> HIDE DEF gone
<1>4. Sound(gone) /\ Running(gone)
  BY <1>1, <1>2 DEF Sound, Running, BetsUnderLevel, AllInIsBroke, ChipsOf
<1>5. HandInv(AdvanceTurn(gone))
  BY <1>1, <1>2, <1>4, DecidedBy DEF Active, Pending
<1>6. HandInv([gone EXCEPT !.complete = TRUE])
  <2> DEFINE d == [gone EXCEPT !.complete = TRUE]
  <2>1. /\ d \in Hands /\ d.complete
        /\ d.stack = gone.stack /\ d.totalBet = gone.totalBet
        /\ d.roundBet = gone.roundBet /\ d.smallest = gone.smallest /\ d.allIn = gone.allIn
    BY <1>2 DEF Hands
  <2> HIDE DEF d
  <2>2. HandInv(d)
    BY <1>4, <2>1 DEF HandInv, Sound, BetsUnderLevel, AllInIsBroke, ChipsOf
  <2> QED
    BY <2>2 DEF d
<1>7. HandInv(hand')
  BY <1>3, <1>5, <1>6
<1> QED
  BY <1>1, <1>7 DEF IInv, HandInv, Sound, ChipsOf

LEMMA CheckInv ==
  ASSUME IInv, NEW s \in Seats, Check(s)
  PROVE  IInv'
<1> DEFINE g == Acted(hand, s)
<1>1. /\ hand \in Hands /\ ~hand.complete /\ hand.current = s
      /\ Sound(hand) /\ Running(hand) /\ HandInv(hand) /\ start' = start
      /\ s \in Active(hand) /\ hand' = AdvanceTurn(g) /\ hand.roundBet[s] = hand.smallest
  BY DEF IInv, HandInv, Sound, Check, MayAct
<1>2. /\ g \in Hands /\ g.current = s /\ ~g.complete
      /\ g.folded = hand.folded /\ g.acted = hand.acted \cup {s}
      /\ g.stack = hand.stack /\ g.totalBet = hand.totalBet
      /\ g.roundBet = hand.roundBet /\ g.smallest = hand.smallest
      /\ g.allIn = hand.allIn /\ g.street = hand.street /\ g.board = hand.board
  BY <1>1 DEF Acted, Hands
<1> HIDE DEF g
<1>3. Sound(g) /\ Running(g)
  BY <1>1, <1>2 DEF Sound, Running, BetsUnderLevel, AllInIsBroke, ChipsOf
<1>4. hand.smallest \in Nat
  BY <1>1 DEF Hands
<1>5. HandInv(hand')
  BY <1>1, <1>2, <1>3, <1>4, DecidedBy DEF Active, Pending
<1> QED
  BY <1>1, <1>5 DEF IInv, HandInv, Sound, ChipsOf

LEMMA CallInv ==
  ASSUME IInv, NEW s \in Seats, Call(s)
  PROVE  IInv'
<1> DEFINE chips == ToCall(hand, s)
           b      == AddBet(hand, s, chips)
           g      == Acted(b, s)
<1>1. /\ hand \in Hands /\ ~hand.complete /\ hand.current = s
      /\ Sound(hand) /\ Running(hand) /\ HandInv(hand) /\ start' = start
      /\ s \in Active(hand) /\ hand' = AdvanceTurn(g) /\ hand.roundBet[s] < hand.smallest
  BY DEF IInv, HandInv, Sound, Call, MayAct
<1>2. /\ hand.stack[s] \in Nat /\ hand.roundBet[s] \in Nat /\ hand.smallest \in Nat
      /\ hand.stack[s] > 0 /\ s \notin hand.allIn
  BY <1>1 DEF Hands, Sound, AllInIsBroke, Active
<1>3. /\ chips \in Nat /\ chips > 0 /\ chips <= hand.stack[s]
      /\ hand.roundBet[s] + chips <= hand.smallest
      /\ chips = hand.stack[s] \/ hand.roundBet[s] + chips = hand.smallest
  BY <1>1, <1>2 DEF ToCall
<1> HIDE DEF chips
<1>4. /\ b \in Hands /\ AllInIsBroke(b) /\ ChipsOf(b)
      /\ b.roundBet = [hand.roundBet EXCEPT ![s] = @ + chips]
      /\ b.allIn = IF hand.stack[s] = chips THEN hand.allIn \cup {s} ELSE hand.allIn
      /\ b.folded = hand.folded /\ b.acted = hand.acted /\ b.smallest = hand.smallest
      /\ b.current = hand.current
      /\ b.street = hand.street /\ b.board = hand.board /\ b.complete = hand.complete
  <2>1. /\ Sound(hand) /\ s \notin hand.allIn /\ chips \in Nat
        /\ chips <= hand.stack[s] /\ chips > 0
    BY <1>1, <1>2, <1>3
  <2>2. Paid(hand, b, s, chips)
    BY <2>1, AddBetSound
  <2> HIDE DEF b
  <2> QED
    BY <2>2 DEF Paid
<1> HIDE DEF b
<1>5. /\ g \in Hands /\ g.current = s /\ ~g.complete
      /\ g.folded = hand.folded /\ g.acted = hand.acted \cup {s}
      /\ g.stack = b.stack /\ g.totalBet = b.totalBet
      /\ g.roundBet = b.roundBet /\ g.smallest = hand.smallest
      /\ g.allIn = b.allIn /\ g.street = hand.street /\ g.board = hand.board
  BY <1>1, <1>4 DEF Acted, Hands
<1> HIDE DEF g
<1>6. hand.roundBet \in [Seats -> Nat] /\ \A t \in Seats : hand.roundBet[t] <= hand.smallest
  BY <1>1 DEF Hands, Sound, BetsUnderLevel
<1>7. /\ g.roundBet[s] = hand.roundBet[s] + chips
      /\ \A t \in Seats \ {s} : g.roundBet[t] = hand.roundBet[t]
  BY <1>4, <1>5, <1>6
<1>8. Sound(g) /\ Running(g)
  <2>1. BetsUnderLevel(g)
    BY <1>3, <1>5, <1>6, <1>7 DEF BetsUnderLevel
  <2> QED
    BY <1>1, <1>4, <1>5, <2>1 DEF Sound, Running, AllInIsBroke, ChipsOf
<1>9. s \in Active(g) => ~Pending(g, s)
  BY <1>2, <1>3, <1>4, <1>5, <1>7 DEF Active, Pending
<1>10. \A t \in Active(g) \ {s} : Pending(g, t) <=> Pending(hand, t)
  BY <1>5, <1>7 DEF Active, Pending
<1>11. HandInv(hand')
  BY <1>1, <1>4, <1>5, <1>8, <1>9, <1>10, DecidedBy DEF Active
<1> QED
  BY <1>1, <1>11 DEF IInv, HandInv, Sound, ChipsOf

LEMMA RaiseInv ==
  ASSUME IInv, NEW s \in Seats, NEW chips \in 1 .. hand.stack[s], Raise(s, chips)
  PROVE  IInv'
<1> DEFINE total == hand.roundBet[s] + chips
           b     == AddBet(hand, s, chips)
           r     == Raised(hand, s, chips)
           g     == Acted(r, s)
<1>1. /\ hand \in Hands /\ ~hand.complete /\ hand.current = s
      /\ Sound(hand) /\ Running(hand) /\ HandInv(hand) /\ start' = start
      /\ s \in Active(hand) /\ hand' = AdvanceTurn(g) /\ RaiseIsLegal(hand, s, chips)
  BY DEF IInv, HandInv, Sound, Raise, MayAct
<1>2. /\ hand.stack[s] \in Nat /\ hand.roundBet \in [Seats -> Nat] /\ hand.smallest \in Nat
      /\ hand.minRaise \in Nat /\ s \notin hand.allIn
      /\ \A t \in Seats : hand.roundBet[t] <= hand.smallest
  BY <1>1 DEF Hands, Sound, BetsUnderLevel, Active
<1>3. /\ chips \in Nat /\ chips > 0 /\ chips <= hand.stack[s] /\ total \in Nat
      /\ chips = hand.stack[s] \/ total >= hand.smallest + hand.minRaise
  BY <1>1, <1>2 DEF RaiseIsLegal
<1>4. /\ b \in Hands /\ AllInIsBroke(b) /\ ChipsOf(b)
      /\ b.roundBet = [hand.roundBet EXCEPT ![s] = @ + chips]
      /\ b.allIn = IF hand.stack[s] = chips THEN hand.allIn \cup {s} ELSE hand.allIn
      /\ b.folded = hand.folded /\ b.acted = hand.acted /\ b.smallest = hand.smallest
      /\ b.minRaise = hand.minRaise /\ b.current = hand.current
      /\ b.street = hand.street /\ b.board = hand.board /\ b.complete = hand.complete
  <2>1. /\ Sound(hand) /\ s \notin hand.allIn /\ chips \in Nat
        /\ chips <= hand.stack[s] /\ chips > 0
    BY <1>1, <1>2, <1>3
  <2>2. Paid(hand, b, s, chips)
    BY <2>1, AddBetSound
  <2> HIDE DEF b
  <2> QED
    BY <2>2 DEF Paid
<1> DEFINE full == total - hand.smallest >= hand.minRaise
           level == IF total <= hand.smallest THEN b
                    ELSE [b EXCEPT
                            !.smallest = total,
                            !.minRaise = IF full THEN total - hand.smallest ELSE @,
                            !.acted    = IF full THEN @ \ (Active(b) \ {s}) ELSE @]
<1>5. r = [level EXCEPT !.raisedPreflop =
             IF hand.street = "Preflop" THEN @ \cup {s} ELSE @]
  BY DEF Raised
<1> HIDE DEF b, r, total
<1>6. /\ level \in Hands /\ level.stack = b.stack /\ level.totalBet = b.totalBet
      /\ level.roundBet = b.roundBet /\ level.allIn = b.allIn /\ level.folded = b.folded
      /\ level.current = b.current /\ level.street = b.street /\ level.board = b.board
      /\ level.complete = b.complete
      /\ level.smallest = IF total <= hand.smallest THEN hand.smallest ELSE total
      /\ level.acted \subseteq hand.acted
      /\ total <= hand.smallest => level.acted = hand.acted
  <2>1. full => total - hand.smallest \in Nat
    BY <1>2, <1>3
  <2>2. b.acted \ (Active(b) \ {s}) \in SUBSET Seats
    BY <1>4 DEF Hands
  <2> QED
    BY <1>2, <1>3, <1>4, <2>1, <2>2 DEF Hands
<1> HIDE DEF level
<1>7. /\ r \in Hands /\ r.stack = b.stack /\ r.totalBet = b.totalBet
      /\ r.roundBet = b.roundBet /\ r.allIn = b.allIn /\ r.folded = b.folded
      /\ r.current = b.current /\ r.street = b.street /\ r.board = b.board
      /\ r.complete = b.complete /\ r.smallest = level.smallest /\ r.acted = level.acted
  <2>1. level.raisedPreflop \cup {s} \in SUBSET Seats
    BY <1>6 DEF Hands
  <2> QED
    BY <1>5, <1>6, <2>1 DEF Hands
<1>8. /\ g \in Hands /\ g.current = s /\ ~g.complete
      /\ g.folded = hand.folded /\ g.acted = level.acted \cup {s}
      /\ g.stack = b.stack /\ g.totalBet = b.totalBet
      /\ g.roundBet = b.roundBet /\ g.smallest = level.smallest
      /\ g.allIn = b.allIn /\ g.street = hand.street /\ g.board = hand.board
  BY <1>1, <1>4, <1>6, <1>7 DEF Acted, Hands
<1> HIDE DEF g
<1>9. /\ g.roundBet[s] = total
      /\ \A t \in Seats \ {s} : g.roundBet[t] = hand.roundBet[t]
  BY <1>2, <1>4, <1>8 DEF total
<1>10. Sound(g) /\ Running(g)
  <2>1. BetsUnderLevel(g)
    BY <1>2, <1>3, <1>6, <1>8, <1>9 DEF BetsUnderLevel
  <2> QED
    BY <1>1, <1>4, <1>8, <2>1 DEF Sound, Running, AllInIsBroke, ChipsOf
<1>11. s \in Active(g) => ~Pending(g, s)
  <2>1. SUFFICES ASSUME s \in Active(g) PROVE total >= hand.smallest
    BY <1>2, <1>3, <1>6, <1>8, <1>9 DEF Pending
  <2>2. chips # hand.stack[s]
    BY <1>4, <1>8, <2>1 DEF Active
  <2> QED
    BY <1>2, <1>3, <2>2
<1>12. \/ \A t \in Active(g) \ {s} : Pending(g, t)
       \/ \A t \in Active(g) \ {s} : Pending(g, t) <=> Pending(hand, t)
  <2>1. CASE total <= hand.smallest
    BY <1>6, <1>8, <1>9, <2>1 DEF Active, Pending
  <2>2. CASE total > hand.smallest
    <3>1. g.smallest = total
      BY <1>2, <1>3, <1>6, <1>8, <2>2
    <3>2. \A t \in Active(g) \ {s} : g.roundBet[t] < total
      BY <1>2, <1>3, <1>9, <2>2 DEF Active
    <3> QED
      BY <3>1, <3>2 DEF Pending
  <2> QED
    BY <1>2, <1>3, <2>1, <2>2
<1>13. HandInv(hand')
  BY <1>1, <1>4, <1>8, <1>10, <1>11, <1>12, DecidedBy DEF Active
<1> QED
  BY <1>1, <1>13 DEF IInv, HandInv, Sound, ChipsOf

LEMMA ForceFoldInv ==
  ASSUME IInv, NEW s \in Seats, ForceFold(s)
  PROVE  IInv'
<1> DEFINE gone  == [Acted(hand, s) EXCEPT !.folded = @ \cup {s}]
           moved == IF s = hand.current THEN AdvanceTurn(gone)
                    ELSE IF RoundComplete(gone) THEN EndRound(gone)
                    ELSE gone
<1>1. /\ hand \in Hands /\ ~hand.complete
      /\ Sound(hand) /\ Running(hand) /\ HandInv(hand) /\ start' = start
      /\ s \in Active(hand) /\ hand.current \in Active(hand)
      /\ Pending(hand, hand.current) /\ PendingFirst(hand)
  BY DEF IInv, HandInv, Sound, ForceFold
<1>2. /\ gone \in Hands /\ gone.current = hand.current /\ ~gone.complete
      /\ gone.folded = hand.folded \cup {s} /\ gone.acted = hand.acted \cup {s}
      /\ gone.stack = hand.stack /\ gone.totalBet = hand.totalBet
      /\ gone.roundBet = hand.roundBet /\ gone.smallest = hand.smallest
      /\ gone.allIn = hand.allIn /\ gone.street = hand.street /\ gone.board = hand.board
  BY <1>1 DEF Acted, Hands
<1>3. hand' = IF Cardinality(InHand(gone)) <= 1 THEN [moved EXCEPT !.complete = TRUE]
              ELSE moved
  BY DEF ForceFold
<1> HIDE DEF gone
<1>4. Sound(gone) /\ Running(gone)
  BY <1>1, <1>2 DEF Sound, Running, BetsUnderLevel, AllInIsBroke, ChipsOf
<1>5. HandInv(moved)
  <2>1. CASE s = hand.current
    BY <1>1, <1>2, <1>4, <2>1, DecidedBy DEF Active, Pending
  <2>2. CASE s # hand.current /\ RoundComplete(gone)
    BY <1>4, <2>2, EndRoundInv
  <2>3. CASE s # hand.current /\ ~RoundComplete(gone)
    <3>1. /\ Active(gone) \subseteq Active(hand) /\ s \notin Active(gone)
          /\ hand.current \in Active(gone)
      BY <1>1, <1>2, <2>3 DEF Active
    <3>2. \A t \in Active(gone) : Pending(gone, t) <=> Pending(hand, t)
      BY <1>2, <3>1 DEF Pending
    <3>3. PendingFirst(gone)
      BY <1>1, <1>2, <3>1, <3>2 DEF PendingFirst
    <3> QED
      BY <1>1, <1>2, <1>4, <2>3, <3>1, <3>2, <3>3 DEF HandInv
  <2> QED
    BY <2>1, <2>2, <2>3
<1> HIDE DEF moved
<1>6. HandInv([moved EXCEPT !.complete = TRUE])
  <2> DEFINE d == [moved EXCEPT !.complete = TRUE]
  <2>1. /\ d \in Hands /\ d.complete
        /\ d.stack = moved.stack /\ d.totalBet = moved.totalBet
        /\ d.roundBet = moved.roundBet /\ d.smallest = moved.smallest
        /\ d.allIn = moved.allIn
    BY <1>5 DEF Hands, HandInv, Sound
  <2> HIDE DEF d
  <2>2. HandInv(d)
    BY <1>5, <2>1 DEF HandInv, Sound, BetsUnderLevel, AllInIsBroke, ChipsOf
  <2> QED
    BY <2>2 DEF d
<1>7. HandInv(hand')
  BY <1>3, <1>5, <1>6
<1> QED
  BY <1>1, <1>7 DEF IInv, HandInv, Sound, ChipsOf

-----------------------------------------------------------------------------
LEMMA PostBlindSound ==
  ASSUME NEW h, Sound(h), NEW s \in Seats, s \notin h.allIn,
         NEW chips \in Nat, chips <= h.stack[s], chips > 0
  PROVE  Paid(h, PostBlind(h, s, chips), s, chips)
<1> DEFINE b == AddBet(h, s, chips)
           g == PostBlind(h, s, chips)
<1>1. Paid(h, b, s, chips)
  BY AddBetSound
<1>2. g = [b EXCEPT !.wentAllIn = h.wentAllIn]
  BY DEF PostBlind
<1> HIDE DEF b, g
<1>3. h.wentAllIn \in SUBSET Seats
  BY DEF Sound, Hands
<1>4. /\ g \in Hands /\ g.stack = b.stack /\ g.totalBet = b.totalBet
      /\ g.roundBet = b.roundBet /\ g.allIn = b.allIn /\ g.folded = b.folded
      /\ g.acted = b.acted /\ g.smallest = b.smallest /\ g.minRaise = b.minRaise
      /\ g.current = b.current /\ g.street = b.street /\ g.board = b.board
      /\ g.complete = b.complete
  BY <1>1, <1>2, <1>3 DEF Paid, Hands
<1> QED
  BY <1>1, <1>4 DEF Paid, AllInIsBroke, ChipsOf, g

(* The seats the hand opens with: the blinds are two different seats, and  *)
(* the first to act posted neither unless only two seats play.             *)
LEMMA OpeningSeats ==
  ASSUME NEW d \in Seats
  PROVE  /\ SmallBlindSeat(d) \in Seats /\ BigBlindSeat(d) \in Seats
         /\ FirstToAct(d) \in Seats /\ SmallBlindSeat(d) # BigBlindSeat(d)
         /\ FirstToAct(d) # BigBlindSeat(d)
         /\ N # 2 => FirstToAct(d) # SmallBlindSeat(d)
         /\ N = 2 => FirstToAct(d) = SmallBlindSeat(d) /\ After(d, 2) = SmallBlindSeat(d)
BY SeatsAssumption DEF SmallBlindSeat, BigBlindSeat, FirstToAct, After, Seats

LEMMA InitInv ==
  ASSUME Ante = 0, Init
  PROVE  IInv
<1>1. PICK stacks \in [Seats -> StartStacks], d \in Seats :
        CanStart(stacks, d) /\ start = stacks /\ hand = PostAntes(NewHand(stacks, d))
  BY DEF Init
<1> DEFINE sbs   == SmallBlindSeat(d)
           bbs   == BigBlindSeat(d)
           zeros == [s \in Seats |-> 0]
           blank == [stack |-> stacks, totalBet |-> zeros, roundBet |-> zeros,
                     folded |-> {}, allIn |-> {}, acted |-> {},
                     street |-> "Preflop", board |-> 0,
                     dealer |-> d, current |-> FirstToAct(d),
                     pot |-> 0, smallest |-> BigBlind, minRaise |-> BigBlind,
                     complete |-> FALSE,
                     raisedPreflop |-> {}, wentToShowdown |-> {}, wentAllIn |-> {}]
           one   == PostBlind(blank, sbs, SmallBlind)
           two   == PostBlind(one, bbs, BigBlind)
<1>2. hand = two
  BY <1>1 DEF PostAntes, NewHand
<1>3. stacks \in [Seats -> Nat] /\ \A s \in Seats : stacks[s] > 0
  <2>1. \A s \in Seats : stacks[s] \in Nat /\ stacks[s] > 0
    <3>1. \A s \in Seats : stacks[s] \in StartStacks
      BY <1>1
    <3>2. \A s \in Seats : stacks[s] \in Nat \ {0}
      BY <3>1, StacksAssumption, Zenon
    <3> QED
      BY <3>2
  <2> QED
    BY <1>1, <2>1
<1>4. /\ stacks[sbs] >= SmallBlind /\ stacks[bbs] >= BigBlind
      /\ N = 2 => stacks[sbs] >= BigBlind
  BY <1>1, OpeningSeats DEF CanStart
<1>5. sbs \in Seats /\ bbs \in Seats /\ sbs # bbs
  BY OpeningSeats
<1>6. /\ blank \in Hands
      /\ blank.stack = stacks /\ blank.totalBet = zeros /\ blank.roundBet = zeros
      /\ blank.allIn = {} /\ blank.smallest = BigBlind /\ blank.acted = {}
      /\ blank.folded = {} /\ blank.current = FirstToAct(d) /\ ~blank.complete
      /\ blank.street = "Preflop" /\ blank.board = 0
  BY <1>3, BlindsAssumption, OpeningSeats DEF Hands, Streets
<1> HIDE DEF blank, sbs, bbs
<1>7. Sound(blank)
  BY <1>1, <1>3, <1>6, BlindsAssumption DEF Sound, BetsUnderLevel, AllInIsBroke, ChipsOf
<1>8. Paid(blank, one, sbs, SmallBlind)
  BY <1>4, <1>5, <1>6, <1>7, BlindsAssumption, PostBlindSound
<1> HIDE DEF one
<1>9. /\ one.roundBet = [zeros EXCEPT ![sbs] = SmallBlind]
      /\ one.stack = [stacks EXCEPT ![sbs] = stacks[sbs] - SmallBlind]
      /\ one.allIn = IF stacks[sbs] = SmallBlind THEN {sbs} ELSE {}
      /\ one.smallest = BigBlind
  BY <1>5, <1>6, <1>8, BlindsAssumption DEF Paid
<1>10. Sound(one)
  BY <1>5, <1>8, <1>9, BlindsAssumption DEF Sound, Paid, BetsUnderLevel
<1>11. Paid(one, two, bbs, BigBlind)
  <2>1. one.stack[bbs] = stacks[bbs] /\ bbs \notin one.allIn
    BY <1>3, <1>5, <1>9
  <2>2. BigBlind \in Nat /\ BigBlind > 0 /\ BigBlind <= one.stack[bbs]
    BY <1>3, <1>4, <1>5, <2>1, BlindsAssumption
  <2> QED
    BY <1>5, <1>10, <2>1, <2>2, PostBlindSound
<1> HIDE DEF two
<1>12. Sound(two)
  BY <1>5, <1>9, <1>11, BlindsAssumption DEF Sound, Paid, BetsUnderLevel
<1>13. /\ two.acted = {} /\ two.folded = {} /\ two.current = FirstToAct(d)
       /\ ~two.complete /\ two.street = "Preflop" /\ two.board = 0
       /\ two.allIn \subseteq one.allIn \cup {bbs}
  BY <1>6, <1>8, <1>11 DEF Paid
<1>14. FirstToAct(d) \in Active(two)
  <2>1. N = 2 => one.allIn = {}
    BY <1>3, <1>4, <1>5, <1>9, BlindsAssumption
  <2> QED
    BY <1>9, <1>13, <2>1, OpeningSeats DEF Active, sbs, bbs
<1>15. HandInv(two)
  BY <1>12, <1>13, <1>14 DEF HandInv, Running, BoardOf, Pending, PendingFirst
<1> QED
  BY <1>1, <1>2, <1>15 DEF IInv

LEMMA NextInv ==
  ASSUME IInv, [Next]_vars
  PROVE  IInv'
<1>1. CASE UNCHANGED vars
  BY <1>1 DEF vars, IInv, HandInv, Sound, ChipsOf
<1>2. ASSUME NEW s \in Seats, Fold(s) PROVE IInv'
  BY <1>2, FoldInv
<1>3. ASSUME NEW s \in Seats, Check(s) PROVE IInv'
  BY <1>3, CheckInv
<1>4. ASSUME NEW s \in Seats, Call(s) PROVE IInv'
  BY <1>4, CallInv
<1>5. ASSUME NEW s \in Seats, NEW chips \in 1 .. hand.stack[s], Raise(s, chips)
      PROVE  IInv'
  BY <1>5, RaiseInv
<1>6. ASSUME NEW s \in Seats, ForceFold(s) PROVE IInv'
  BY <1>6, ForceFoldInv
<1> QED
  BY <1>1, <1>2, <1>3, <1>4, <1>5, <1>6 DEF Next, Act

(* In a hand without an ante, every state satisfies the invariant.         *)
THEOREM Invariant ==
  ASSUME Ante = 0
  PROVE  Spec => []IInv
<1>1. Init => IInv
  BY InitInv
<1>2. IInv /\ [Next]_vars => IInv'
  BY NextInv
<1> QED
  BY <1>1, <1>2, PTL DEF Spec

(* Every field of the hand keeps its type, whatever is bet: no stack, bet  *)
(* or pot is ever negative, the turn is always at a seat, and the board    *)
(* never holds more than five cards.                                       *)
THEOREM TypeCorrect ==
  ASSUME Ante = 0
  PROVE  Spec => []TypeOK
<1>1. IInv => TypeOK
  BY DEF IInv, HandInv, Sound, TypeOK
<1> QED
  BY <1>1, Invariant, PTL

(* No call of the engine creates or destroys a chip of any seat: what the  *)
(* seat has left and what it put in always add up to what it sat down with.*)
THEOREM ChipsAreKept ==
  ASSUME Ante = 0
  PROVE  Spec => []SeatChipsKept
<1>1. IInv => SeatChipsKept
  BY DEF IInv, HandInv, Sound, ChipsOf, SeatChipsKept
<1> QED
  BY <1>1, Invariant, PTL

(* A running hand always waits for a seat that can act and has something   *)
(* to decide: advance_turn, reset_round and force_fold never leave the     *)
(* turn at a folded or all-in seat, or ask a seat that is already done.    *)
THEOREM TurnAlwaysOpen ==
  ASSUME Ante = 0
  PROVE  Spec => []TurnIsOpen
<1>1. IInv => TurnIsOpen
  BY DEF IInv, HandInv, TurnIsOpen
<1> QED
  BY <1>1, Invariant, PTL

-----------------------------------------------------------------------------
(* The streets: nobody is skipped, the price only rises, and a showdown is *)
(* paid for.                                                               *)
(*                                                                         *)
(* Every call has the same shape.  It enters the decision of one seat      *)
(* (Decision), and then moves the turn or closes the street (Moved), or    *)
(* ends the hand because one seat is left.                                 *)

(* What a seat had put in before the current street.                       *)
Prior(h, s) == h.totalBet[s] - h.roundBet[s]

(* A seat that can act has paid for all earlier streets.                   *)
PriorPaid(h) ==
  \A s \in Active(h), t \in Seats : Prior(h, t) <= Prior(h, s)

StreetInv == IInv /\ (~hand.complete => PriorPaid(hand)) /\ ShowdownIsPaidFor

(* g is h after seat s has decided, and before the turn moves.             *)
Decision(h, g, s) ==
  /\ Sound(g) /\ Running(g)
  /\ g.street = h.street
  /\ Active(g) \subseteq Active(h)
  /\ g.acted \subseteq h.acted \cup {s}
  /\ s \in Active(g) => s = h.current
  /\ g.smallest >= h.smallest /\ g.minRaise >= h.minRaise
  /\ \A t \in Seats : Prior(g, t) = Prior(h, t)

Moved(g, m) ==
  \/ m = AdvanceTurn(g)
  \/ m = g
  \/ RoundComplete(g) /\ m = EndRound(g)

Ended(g, m, h) ==
  \/ h = m
  \/ h = [m EXCEPT !.complete = TRUE] /\ Cardinality(InHand(g)) <= 1

-----------------------------------------------------------------------------
(* end_round moves on to another street, and either deals it with no bets  *)
(* or shows down on five board cards.                                      *)
LEMMA EndRoundMoves ==
  ASSUME NEW h \in Hands, Running(h)
  PROVE  /\ EndRound(h) \in Hands
         /\ EndRound(h).street # h.street
         /\ EndRound(h).folded = h.folded /\ EndRound(h).allIn = h.allIn
         /\ EndRound(h).totalBet = h.totalBet
         /\ EndRound(h).complete => EndRound(h).board = 5
         /\ ~EndRound(h).complete => EndRound(h).roundBet = [s \in Seats |-> 0]
<1> USE DEF Running, BoardOf
<1>1. CASE h.street = "River" \/ Active(h) = {}
  <2> DEFINE b == IF h.street = "River" THEN h ELSE [h EXCEPT !.board = 5]
  <2>1. EndRound(h) = Showdown(b)
    BY <1>1 DEF EndRound
  <2>2. /\ b \in Hands /\ b.allIn = h.allIn /\ b.folded = h.folded
        /\ b.totalBet = h.totalBet /\ b.board = 5
    BY DEF Hands
  <2> HIDE DEF b
  <2>3. Showdown(b).folded = b.folded /\ Showdown(b).board = b.board
        /\ Showdown(b).street = "Showdown"
    BY <2>2 DEF Showdown, Hands
  <2> QED
    BY <2>1, <2>2, <2>3, ShowdownSound
<1>2. CASE h.street # "River" /\ Active(h) # {}
  <2> DEFINE g == [h EXCEPT !.board  = @ + Dealt[h.street],
                            !.street = NextStreet[h.street]]
             r == ResetRound(g)
  <2>1. EndRound(h) = r
    BY <1>2 DEF EndRound
  <2>2. h.street \in {"Preflop", "Flop", "Turn"}
    BY <1>2
  <2>3. /\ g \in Hands /\ ~g.complete /\ g.street # h.street
        /\ g.allIn = h.allIn /\ g.folded = h.folded /\ g.totalBet = h.totalBet
    <3>1. /\ NextStreet[h.street] \in Streets /\ NextStreet[h.street] # h.street
          /\ h.board + Dealt[h.street] \in 0 .. 5
      BY <2>2 DEF Dealt, NextStreet, Streets
    <3> QED
      BY <3>1 DEF Hands
  <2> HIDE DEF g
  <2>4. FirstActive(g, After(g.dealer, 1)) \in Seats
    <3>1. g.dealer \in Seats /\ After(g.dealer, 1) \in Seats
      BY <2>3, AfterIsSeat, SeatsAssumption DEF Hands
    <3> QED
      BY <2>3, <3>1, FirstActiveIsNearest
  <2>5. /\ r \in Hands /\ r.roundBet = [s \in Seats |-> 0] /\ r.complete = g.complete
        /\ r.street = g.street /\ r.allIn = g.allIn /\ r.folded = g.folded
        /\ r.totalBet = g.totalBet
    BY <2>3, <2>4, BlindsAssumption DEF ResetRound, Hands
  <2> HIDE DEF r
  <2> QED
    BY <2>1, <2>3, <2>5
<1> QED
  BY <1>1, <1>2

(* A turn that moves leaves the street and its bets alone, unless all who  *)
(* can act have acted and matched the bet: then the street ends.           *)
LEMMA MovedCloses ==
  ASSUME NEW g \in Hands, Running(g), NEW m, Moved(g, m)
  PROVE  /\ m \in Hands /\ m.folded = g.folded /\ m.allIn = g.allIn
         /\ m.totalBet = g.totalBet
         /\ \/ /\ m.street = g.street /\ ~m.complete /\ m.smallest = g.smallest
               /\ m.minRaise = g.minRaise /\ m.roundBet = g.roundBet
            \/ /\ m.street # g.street /\ RoundComplete(g)
               /\ m.complete => m.board = 5
               /\ ~m.complete => m.roundBet = [s \in Seats |-> 0]
<1> DEFINE next == FirstActive(g, After(g.current, 1))
           n    == [g EXCEPT !.current = next]
<1>1. CASE m = g
  BY <1>1 DEF Running
<1>2. CASE RoundComplete(g) /\ m = EndRound(g)
  BY <1>2, EndRoundMoves
<1>3. CASE m = AdvanceTurn(g)
  <2>1. g.current \in Seats /\ After(g.current, 1) \in Seats
    BY AfterIsSeat, SeatsAssumption DEF Hands
  <2>2. next \in Seats
    BY <2>1, FirstActiveIsNearest
  <2>3. m = IF RoundComplete(n) THEN EndRound(n) ELSE n
    BY <1>3 DEF AdvanceTurn
  <2> HIDE DEF next
  <2>4. /\ n \in Hands /\ n.folded = g.folded /\ n.allIn = g.allIn
        /\ n.totalBet = g.totalBet /\ n.roundBet = g.roundBet
        /\ n.smallest = g.smallest /\ n.minRaise = g.minRaise /\ n.acted = g.acted
        /\ n.street = g.street /\ n.board = g.board /\ n.complete = g.complete
    BY <2>2 DEF Hands
  <2> HIDE DEF n
  <2>5. Running(n) /\ (RoundComplete(n) <=> RoundComplete(g))
    BY <2>4 DEF Running, RoundComplete, Active
  <2>6. CASE RoundComplete(n)
    BY <2>3, <2>4, <2>5, <2>6, EndRoundMoves
  <2>7. CASE ~RoundComplete(n)
    BY <2>3, <2>4, <2>5, <2>7 DEF Running
  <2> QED
    BY <2>6, <2>7
<1> QED
  BY <1>1, <1>2, <1>3 DEF Moved

(* What a call does to the streets and to what seats have paid for.        *)
CallKeeps ==
  /\ hand'.street # hand.street => Active(hand') \subseteq hand.acted \cup {hand.current}
  /\ hand'.street = hand.street =>
       hand'.smallest >= hand.smallest /\ hand'.minRaise >= hand.minRaise
  /\ ~hand'.complete => PriorPaid(hand')
  /\ ShowdownIsPaidFor'

LEMMA SeatsCounted ==
  ASSUME NEW h
  PROVE  Cardinality(InHand(h)) \in Nat
<1>1. IsFiniteSet(Seats)
  BY FS_Interval, SeatsAssumption DEF Seats
<1>2. IsFiniteSet(InHand(h))
  BY <1>1, FS_Subset DEF InHand
<1> QED
  BY <1>2, FS_CardinalityType

LEMMA DecisionKeeps ==
  ASSUME StreetInv, ~hand.complete, NEW s \in Seats, NEW g, Decision(hand, g, s),
         NEW m, Moved(g, m), Ended(g, m, hand')
  PROVE  CallKeeps
<1>1. /\ g \in Hands /\ Running(g) /\ PriorPaid(hand) /\ hand \in Hands
      /\ \A t \in Seats : g.roundBet[t] <= g.smallest
      /\ hand.smallest \in Nat /\ hand.minRaise \in Nat
  BY DEF StreetInv, Decision, Sound, IInv, HandInv, BetsUnderLevel, Hands
<1>2. /\ m \in Hands /\ m.folded = g.folded /\ m.allIn = g.allIn /\ m.totalBet = g.totalBet
      /\ \/ /\ m.street = g.street /\ ~m.complete /\ m.smallest = g.smallest
            /\ m.minRaise = g.minRaise /\ m.roundBet = g.roundBet
         \/ /\ m.street # g.street /\ RoundComplete(g)
            /\ m.complete => m.board = 5
            /\ ~m.complete => m.roundBet = [t \in Seats |-> 0]
  BY <1>1, MovedCloses
<1>3. /\ hand'.folded = m.folded /\ hand'.allIn = m.allIn /\ hand'.totalBet = m.totalBet
      /\ hand'.street = m.street /\ hand'.smallest = m.smallest
      /\ hand'.minRaise = m.minRaise /\ hand'.roundBet = m.roundBet
      /\ hand'.board = m.board
      /\ hand' = m \/ (hand'.complete /\ Cardinality(InHand(g)) <= 1)
  BY <1>2 DEF Ended, Hands
<1>4. Active(hand') = Active(g) /\ InHand(hand') = InHand(g) /\ Active(g) \subseteq Seats
  BY <1>2, <1>3 DEF Active, InHand
<1>5. PriorPaid(g)
  BY <1>1, <1>4 DEF PriorPaid, Decision, Active
<1>6. RoundComplete(g) =>
        \A a \in Active(g), t \in Seats : g.totalBet[t] <= g.totalBet[a]
  <2>1. SUFFICES ASSUME RoundComplete(g), NEW a \in Active(g), NEW t \in Seats
                 PROVE  g.totalBet[t] <= g.totalBet[a]
    OBVIOUS
  <2>2. g.roundBet[a] = g.smallest /\ g.roundBet[t] <= g.smallest /\ a \in Seats
    BY <1>1, <1>4, <2>1 DEF RoundComplete
  <2>3. g.totalBet[t] - g.roundBet[t] <= g.totalBet[a] - g.roundBet[a]
    BY <1>5, <2>1 DEF PriorPaid, Prior
  <2>4. /\ g.totalBet[t] \in Nat /\ g.totalBet[a] \in Nat
        /\ g.roundBet[t] \in Nat /\ g.smallest \in Nat
    BY <1>1, <2>2 DEF Hands
  <2> QED
    BY <2>2, <2>3, <2>4
<1>7. hand'.street # hand.street => Active(hand') \subseteq hand.acted \cup {hand.current}
  BY <1>2, <1>3, <1>4 DEF Decision, RoundComplete
<1>8. hand'.street = hand.street =>
        hand'.smallest >= hand.smallest /\ hand'.minRaise >= hand.minRaise
  BY <1>2, <1>3 DEF Decision
<1>9. ~hand'.complete => PriorPaid(hand')
  <2>1. SUFFICES ASSUME ~hand'.complete, NEW a \in Active(g), NEW t \in Seats
                 PROVE  Prior(hand', t) <= Prior(hand', a)
    BY <1>4 DEF PriorPaid
  <2>2. hand' = m /\ a \in Seats
    BY <1>3, <1>4, <2>1
  <2>3. CASE m.street = g.street
    BY <1>2, <1>5, <2>1, <2>2, <2>3 DEF PriorPaid, Prior
  <2>4. CASE m.street # g.street
    <3>1. m.roundBet = [u \in Seats |-> 0] /\ g.totalBet[t] <= g.totalBet[a]
      BY <1>2, <1>6, <2>1, <2>2, <2>4
    <3>2. g.totalBet[t] \in Nat /\ g.totalBet[a] \in Nat
      BY <1>1, <2>2 DEF Hands
    <3> QED
      BY <1>2, <2>2, <3>1, <3>2 DEF Prior
  <2> QED
    BY <2>3, <2>4
<1>10. ShowdownIsPaidFor'
  <2>1. SUFFICES ASSUME hand'.complete, Cardinality(InHand(hand')) >= 2
                 PROVE  /\ hand'.board = 5
                        /\ \A a \in InHand(hand') :
                             a \in hand'.allIn
                             \/ \A t \in Seats : hand'.totalBet[t] <= hand'.totalBet[a]
    BY DEF ShowdownIsPaidFor
  <2>2. ~(Cardinality(InHand(g)) <= 1)
    BY <1>4, <2>1, SeatsCounted
  <2>3. hand' = m
    BY <1>3, <2>2
  <2>4. RoundComplete(g) /\ m.board = 5
    BY <1>2, <2>1, <2>3
  <2>5. \A a \in InHand(hand') : a \in hand'.allIn \/ a \in Active(g)
    BY <1>3, <1>4 DEF Active, InHand
  <2> QED
    BY <1>2, <1>6, <2>3, <2>4, <2>5
<1> QED
  BY <1>7, <1>8, <1>9, <1>10 DEF CallKeeps

(* What holds of every hand that is not over.                              *)
LEMMA RunningHand ==
  ASSUME StreetInv, ~hand.complete
  PROVE  /\ hand \in Hands /\ Sound(hand) /\ Running(hand) /\ HandInv(hand)
         /\ PriorPaid(hand) /\ hand.current \in Active(hand)
         /\ hand.smallest \in Nat /\ hand.minRaise \in Nat
         /\ hand.totalBet \in [Seats -> Nat] /\ hand.roundBet \in [Seats -> Nat]
         /\ hand.stack \in [Seats -> Nat]
         /\ \A t \in Seats : hand.roundBet[t] <= hand.smallest
BY DEF StreetInv, IInv, HandInv, Sound, Hands, BetsUnderLevel

(* A seat that folds, on turn or not.                                      *)
LEMMA FoldedDecides ==
  ASSUME StreetInv, ~hand.complete, NEW s \in Seats,
         NEW gone, gone = [Acted(hand, s) EXCEPT !.folded = @ \cup {s}]
  PROVE  Decision(hand, gone, s)
<1>1. /\ gone \in Hands /\ gone.current = hand.current /\ gone.complete = hand.complete
      /\ gone.folded = hand.folded \cup {s} /\ gone.acted = hand.acted \cup {s}
      /\ gone.stack = hand.stack /\ gone.totalBet = hand.totalBet
      /\ gone.roundBet = hand.roundBet /\ gone.smallest = hand.smallest
      /\ gone.minRaise = hand.minRaise
      /\ gone.allIn = hand.allIn /\ gone.street = hand.street /\ gone.board = hand.board
  BY RunningHand DEF Acted, Hands
<1>2. Sound(gone) /\ Running(gone)
  BY <1>1, RunningHand DEF Sound, Running, BetsUnderLevel, AllInIsBroke, ChipsOf
<1> QED
  BY <1>1, <1>2, RunningHand DEF Decision, Active, Prior

LEMMA FoldKeeps ==
  ASSUME StreetInv, NEW s \in Seats, Fold(s)
  PROVE  CallKeeps
<1> DEFINE gone == [Acted(hand, s) EXCEPT !.folded = @ \cup {s}]
<1>1. ~hand.complete
  BY DEF Fold, MayAct
<1>2. hand' = IF Cardinality(InHand(gone)) = 1 THEN [gone EXCEPT !.complete = TRUE]
              ELSE AdvanceTurn(gone)
  BY DEF Fold
<1>3. Decision(hand, gone, s)
  BY <1>1, FoldedDecides
<1> HIDE DEF gone
<1>4. CASE Cardinality(InHand(gone)) = 1
  <2>1. Moved(gone, gone) /\ Ended(gone, gone, hand')
    BY <1>2, <1>4 DEF Moved, Ended
  <2> QED
    BY <1>1, <1>3, <2>1, DecisionKeeps
<1>5. CASE Cardinality(InHand(gone)) # 1
  <2> DEFINE m == AdvanceTurn(gone)
  <2>1. Moved(gone, m) /\ Ended(gone, m, hand')
    BY <1>2, <1>5 DEF Moved, Ended
  <2> HIDE DEF m
  <2> QED
    BY <1>1, <1>3, <2>1, DecisionKeeps
<1> QED
  BY <1>4, <1>5

LEMMA ForceFoldKeeps ==
  ASSUME StreetInv, NEW s \in Seats, ForceFold(s)
  PROVE  CallKeeps
<1> DEFINE gone  == [Acted(hand, s) EXCEPT !.folded = @ \cup {s}]
           moved == IF s = hand.current THEN AdvanceTurn(gone)
                    ELSE IF RoundComplete(gone) THEN EndRound(gone)
                    ELSE gone
<1>1. ~hand.complete
  BY DEF ForceFold
<1>2. hand' = IF Cardinality(InHand(gone)) <= 1 THEN [moved EXCEPT !.complete = TRUE]
              ELSE moved
  BY DEF ForceFold
<1>3. Decision(hand, gone, s)
  BY <1>1, FoldedDecides
<1> HIDE DEF gone
<1>4. Moved(gone, moved)
  BY DEF Moved
<1> HIDE DEF moved
<1>5. Ended(gone, moved, hand')
  BY <1>2 DEF Ended
<1> QED
  BY <1>1, <1>3, <1>4, <1>5, DecisionKeeps

(* A seat that answers without folding.                                    *)
LEMMA AnswerKeeps ==
  ASSUME StreetInv, ~hand.complete, NEW s \in Seats, NEW g, Decision(hand, g, s),
         hand' = AdvanceTurn(g)
  PROVE  CallKeeps
<1> DEFINE m == AdvanceTurn(g)
<1>1. Moved(g, m) /\ Ended(g, m, hand')
  BY DEF Moved, Ended
<1> HIDE DEF m
<1> QED
  BY <1>1, DecisionKeeps

LEMMA CheckKeeps ==
  ASSUME StreetInv, NEW s \in Seats, Check(s)
  PROVE  CallKeeps
<1> DEFINE g == Acted(hand, s)
<1>1. ~hand.complete /\ s = hand.current /\ hand' = AdvanceTurn(g)
  BY DEF Check, MayAct
<1>2. /\ g \in Hands /\ g.current = hand.current /\ g.complete = hand.complete
      /\ g.folded = hand.folded /\ g.acted = hand.acted \cup {s}
      /\ g.stack = hand.stack /\ g.totalBet = hand.totalBet
      /\ g.roundBet = hand.roundBet /\ g.smallest = hand.smallest
      /\ g.minRaise = hand.minRaise
      /\ g.allIn = hand.allIn /\ g.street = hand.street /\ g.board = hand.board
  BY <1>1, RunningHand DEF Acted, Hands
<1> HIDE DEF g
<1>3. Sound(g) /\ Running(g)
  BY <1>1, <1>2, RunningHand DEF Sound, Running, BetsUnderLevel, AllInIsBroke, ChipsOf
<1>4. Decision(hand, g, s)
  BY <1>1, <1>2, <1>3, RunningHand DEF Decision, Active, Prior
<1> QED
  BY <1>1, <1>4, AnswerKeeps

(* A bet is paid on this street: what was paid before it stays.            *)
LEMMA PaidKeepsPrior ==
  ASSUME StreetInv, ~hand.complete, NEW s \in Seats,
         NEW chips \in Nat, chips > 0, chips <= hand.stack[s],
         NEW b, Paid(hand, b, s, chips)
  PROVE  \A t \in Seats : Prior(b, t) = Prior(hand, t)
<1>1. SUFFICES ASSUME NEW t \in Seats PROVE Prior(b, t) = Prior(hand, t)
  OBVIOUS
<1>2. /\ b.stack[t] + b.totalBet[t] = start[t]
      /\ hand.stack[t] + hand.totalBet[t] = start[t]
  BY <1>1, RunningHand DEF Paid, Sound, ChipsOf
<1>3. /\ b.stack[t] = IF t = s THEN hand.stack[s] - chips ELSE hand.stack[t]
      /\ b.roundBet[t] = IF t = s THEN hand.roundBet[s] + chips ELSE hand.roundBet[t]
  BY <1>1, RunningHand DEF Paid
<1>4. /\ b.totalBet[t] \in Nat /\ hand.totalBet[t] \in Nat /\ hand.stack[t] \in Nat
      /\ hand.roundBet[t] \in Nat
  BY <1>1, RunningHand DEF Paid, Hands
<1> QED
  BY <1>2, <1>3, <1>4 DEF Prior

LEMMA CallDecides ==
  ASSUME StreetInv, NEW s \in Seats, Call(s)
  PROVE  LET b == AddBet(hand, s, ToCall(hand, s))
             g == Acted(b, s)
         IN  /\ ~hand.complete /\ hand' = AdvanceTurn(g) /\ Decision(hand, g, s)
             /\ ToCall(hand, s) \in Nat
             /\ g.pot = b.pot /\ g.totalBet = b.totalBet /\ g.folded = b.folded
<1> DEFINE chips == ToCall(hand, s)
           b      == AddBet(hand, s, chips)
           g      == Acted(b, s)
<1>1. /\ ~hand.complete /\ s = hand.current /\ hand' = AdvanceTurn(g)
      /\ s \in Active(hand) /\ hand.roundBet[s] < hand.smallest
  BY DEF Call, MayAct
<1>2. /\ hand.stack[s] > 0 /\ s \notin hand.allIn
      /\ hand.stack[s] \in Nat /\ hand.roundBet[s] \in Nat /\ hand.smallest \in Nat
  BY <1>1, RunningHand DEF Sound, AllInIsBroke, Active
<1>3. /\ chips \in Nat /\ chips > 0 /\ chips <= hand.stack[s]
      /\ hand.roundBet[s] + chips <= hand.smallest
  BY <1>1, <1>2 DEF ToCall
<1> HIDE DEF chips
<1>4. Paid(hand, b, s, chips)
  BY <1>1, <1>2, <1>3, RunningHand, AddBetSound
<1> HIDE DEF b
<1>5. \A t \in Seats : Prior(b, t) = Prior(hand, t)
  BY <1>1, <1>3, <1>4, PaidKeepsPrior
<1>6. /\ g \in Hands /\ g.current = b.current /\ g.complete = b.complete
      /\ g.folded = b.folded /\ g.acted = b.acted \cup {s}
      /\ g.stack = b.stack /\ g.totalBet = b.totalBet
      /\ g.roundBet = b.roundBet /\ g.smallest = b.smallest /\ g.minRaise = b.minRaise
      /\ g.allIn = b.allIn /\ g.street = b.street /\ g.board = b.board
      /\ g.pot = b.pot
  BY <1>4 DEF Acted, Hands, Paid
<1> HIDE DEF g
<1>7. /\ b.roundBet[s] <= hand.smallest
      /\ \A t \in Seats \ {s} : b.roundBet[t] = hand.roundBet[t]
  BY <1>1, <1>3, <1>4, RunningHand DEF Paid
<1>8. Sound(g) /\ Running(g)
  BY <1>1, <1>4, <1>6, <1>7, RunningHand
     DEF Paid, Sound, Running, BetsUnderLevel, AllInIsBroke, ChipsOf
<1>9. Decision(hand, g, s)
  BY <1>1, <1>4, <1>5, <1>6, <1>8, RunningHand DEF Decision, Active, Prior, Paid
<1> QED
  BY <1>1, <1>3, <1>6, <1>9 DEF g, b, chips

LEMMA CallActionKeeps ==
  ASSUME StreetInv, NEW s \in Seats, Call(s)
  PROVE  CallKeeps
<1> DEFINE g == Acted(AddBet(hand, s, ToCall(hand, s)), s)
<1>1. ~hand.complete /\ hand' = AdvanceTurn(g) /\ Decision(hand, g, s)
  BY CallDecides
<1> HIDE DEF g
<1> QED
  BY <1>1, AnswerKeeps

LEMMA RaiseDecides ==
  ASSUME StreetInv, NEW s \in Seats, NEW chips \in 1 .. hand.stack[s], Raise(s, chips)
  PROVE  LET b == AddBet(hand, s, chips)
             g == Acted(Raised(hand, s, chips), s)
         IN  /\ ~hand.complete /\ hand' = AdvanceTurn(g) /\ Decision(hand, g, s)
             /\ chips \in Nat
             /\ g.pot = b.pot /\ g.totalBet = b.totalBet /\ g.folded = b.folded
<1> DEFINE total == hand.roundBet[s] + chips
           b     == AddBet(hand, s, chips)
           r     == Raised(hand, s, chips)
           g     == Acted(r, s)
           full  == total - hand.smallest >= hand.minRaise
           level == IF total <= hand.smallest THEN b
                    ELSE [b EXCEPT
                            !.smallest = total,
                            !.minRaise = IF full THEN total - hand.smallest ELSE @,
                            !.acted    = IF full THEN @ \ (Active(b) \ {s}) ELSE @]
<1>1. /\ ~hand.complete /\ s = hand.current /\ hand' = AdvanceTurn(g)
      /\ s \in Active(hand) /\ RaiseIsLegal(hand, s, chips)
  BY DEF Raise, MayAct
<1>2. /\ s \notin hand.allIn /\ hand.stack[s] \in Nat
      /\ hand.roundBet[s] \in Nat /\ hand.smallest \in Nat /\ hand.minRaise \in Nat
  BY <1>1, RunningHand DEF Active
<1>3. chips \in Nat /\ chips > 0 /\ chips <= hand.stack[s] /\ total \in Nat
  BY <1>1, <1>2 DEF RaiseIsLegal
<1>4. r = [level EXCEPT !.raisedPreflop =
             IF hand.street = "Preflop" THEN @ \cup {s} ELSE @]
  BY DEF Raised
<1>5. Paid(hand, b, s, chips)
  BY <1>1, <1>2, <1>3, RunningHand, AddBetSound
<1> HIDE DEF b, r
<1>6. \A t \in Seats : Prior(b, t) = Prior(hand, t)
  BY <1>1, <1>3, <1>5, PaidKeepsPrior
<1>7. b.roundBet[s] = total /\ \A t \in Seats \ {s} : b.roundBet[t] = hand.roundBet[t]
  BY <1>1, <1>3, <1>5, RunningHand DEF Paid
<1> HIDE DEF total
<1>8. /\ level \in Hands /\ level.stack = b.stack /\ level.totalBet = b.totalBet
      /\ level.roundBet = b.roundBet /\ level.allIn = b.allIn /\ level.folded = b.folded
      /\ level.current = b.current /\ level.street = b.street /\ level.board = b.board
      /\ level.complete = b.complete /\ level.pot = b.pot
      /\ level.smallest >= hand.smallest /\ level.smallest >= total
      /\ level.minRaise >= hand.minRaise
      /\ level.acted \subseteq b.acted
  <2>1. full => total - hand.smallest \in Nat
    BY <1>2, <1>3
  <2>2. b \in Hands /\ b.smallest = hand.smallest /\ b.minRaise = hand.minRaise
    BY <1>5 DEF Paid
  <2>3. b.acted \ (Active(b) \ {s}) \in SUBSET Seats
    BY <2>2 DEF Hands
  <2>4. CASE total <= hand.smallest
    BY <1>2, <1>3, <2>2, <2>4
  <2>5. CASE ~(total <= hand.smallest)
    <3> DEFINE raise == IF full THEN total - hand.smallest ELSE b.minRaise
               acted == IF full THEN b.acted \ (Active(b) \ {s}) ELSE b.acted
    <3>1. level = [b EXCEPT !.smallest = total, !.minRaise = raise, !.acted = acted]
      BY <2>5
    <3>2. /\ raise \in Nat /\ raise >= hand.minRaise
          /\ acted \in SUBSET Seats /\ acted \subseteq b.acted
      BY <1>2, <2>1, <2>2, <2>3 DEF Hands
    <3> HIDE DEF raise, acted, level
    <3>3. /\ level \in Hands /\ level.stack = b.stack /\ level.totalBet = b.totalBet
          /\ level.roundBet = b.roundBet /\ level.allIn = b.allIn /\ level.folded = b.folded
          /\ level.current = b.current /\ level.street = b.street /\ level.board = b.board
          /\ level.complete = b.complete /\ level.pot = b.pot /\ level.smallest = total
          /\ level.minRaise = raise /\ level.acted = acted
      BY <1>3, <2>2, <3>1, <3>2 DEF Hands
    <3>4. total >= hand.smallest /\ total >= total
      BY <1>2, <1>3, <2>5
    <3> QED
      BY <3>2, <3>3, <3>4
  <2> QED
    BY <2>4, <2>5
<1> HIDE DEF level
<1>9. /\ r \in Hands /\ r.stack = level.stack /\ r.totalBet = level.totalBet
      /\ r.roundBet = level.roundBet /\ r.allIn = level.allIn /\ r.folded = level.folded
      /\ r.current = level.current /\ r.street = level.street /\ r.board = level.board
      /\ r.complete = level.complete /\ r.smallest = level.smallest
      /\ r.minRaise = level.minRaise /\ r.acted = level.acted /\ r.pot = level.pot
  <2>1. level.raisedPreflop \cup {s} \in SUBSET Seats
    BY <1>8 DEF Hands
  <2> QED
    BY <1>4, <1>8, <2>1 DEF Hands
<1>10. /\ g \in Hands /\ g.current = b.current /\ g.complete = b.complete
       /\ g.folded = b.folded /\ g.acted \subseteq b.acted \cup {s}
       /\ g.stack = b.stack /\ g.totalBet = b.totalBet
       /\ g.roundBet = b.roundBet /\ g.smallest = level.smallest
       /\ g.minRaise = level.minRaise
       /\ g.allIn = b.allIn /\ g.street = b.street /\ g.board = b.board
       /\ g.pot = b.pot
  BY <1>8, <1>9 DEF Acted, Hands
<1> HIDE DEF g
<1>11. BetsUnderLevel(g)
  <2>1. SUFFICES ASSUME NEW t \in Seats PROVE g.roundBet[t] <= g.smallest
    BY DEF BetsUnderLevel
  <2>2. level.smallest \in Nat
    BY <1>8 DEF Hands
  <2>3. hand.roundBet[t] \in Nat /\ hand.roundBet[t] <= hand.smallest
    BY <1>1, <2>1, RunningHand
  <2> QED
    BY <1>2, <1>3, <1>7, <1>8, <1>10, <2>1, <2>2, <2>3
<1>12. Sound(g) /\ Running(g)
  BY <1>1, <1>5, <1>10, <1>11, RunningHand
     DEF Paid, Sound, Running, AllInIsBroke, ChipsOf
<1>13. Decision(hand, g, s)
  BY <1>1, <1>5, <1>6, <1>8, <1>10, <1>12, RunningHand DEF Decision, Active, Prior, Paid
<1> QED
  BY <1>1, <1>3, <1>10, <1>13 DEF g, r, b

LEMMA RaiseKeeps ==
  ASSUME StreetInv, NEW s \in Seats, NEW chips \in 1 .. hand.stack[s], Raise(s, chips)
  PROVE  CallKeeps
<1> DEFINE g == Acted(Raised(hand, s, chips), s)
<1>1. ~hand.complete /\ hand' = AdvanceTurn(g) /\ Decision(hand, g, s)
  BY RaiseDecides
<1> HIDE DEF g
<1> QED
  BY <1>1, AnswerKeeps

-----------------------------------------------------------------------------
LEMMA NextKeeps ==
  ASSUME StreetInv, Next
  PROVE  CallKeeps
<1>1. ASSUME NEW s \in Seats, Fold(s) PROVE CallKeeps
  BY <1>1, FoldKeeps
<1>2. ASSUME NEW s \in Seats, Check(s) PROVE CallKeeps
  BY <1>2, CheckKeeps
<1>3. ASSUME NEW s \in Seats, Call(s) PROVE CallKeeps
  BY <1>3, CallActionKeeps
<1>4. ASSUME NEW s \in Seats, NEW chips \in 1 .. hand.stack[s], Raise(s, chips)
      PROVE  CallKeeps
  BY <1>4, RaiseKeeps
<1>5. ASSUME NEW s \in Seats, ForceFold(s) PROVE CallKeeps
  BY <1>5, ForceFoldKeeps
<1> QED
  BY <1>1, <1>2, <1>3, <1>4, <1>5 DEF Next, Act

(* A new hand has no earlier street: all its bets are of this one.         *)
LEMMA InitPriorPaid ==
  ASSUME Ante = 0, Init
  PROVE  ~hand.complete /\ PriorPaid(hand)
<1>1. PICK stacks \in [Seats -> StartStacks], d \in Seats :
        hand = PostAntes(NewHand(stacks, d))
  BY DEF Init
<1>2. hand = NewHand(stacks, d)
  BY <1>1 DEF PostAntes
<1>3. hand.totalBet = hand.roundBet /\ ~hand.complete
  BY <1>2 DEF NewHand, PostBlind, AddBet
<1>4. hand.roundBet \in [Seats -> Nat]
  BY InitInv DEF IInv, HandInv, Sound, Hands
<1>5. \A s \in Seats : Prior(hand, s) = 0
  BY <1>3, <1>4 DEF Prior
<1> QED
  BY <1>3, <1>5 DEF PriorPaid, Active

(* The invariant behind the theorems on streets: besides IInv, seats that  *)
(* can act have paid for every earlier street.                             *)
THEOREM StreetInvariant ==
  ASSUME Ante = 0
  PROVE  Spec => []StreetInv
<1>1. Init => StreetInv
  BY InitInv, InitPriorPaid DEF StreetInv, ShowdownIsPaidFor
<1>2. StreetInv /\ [Next]_vars => StreetInv'
  <2>1. SUFFICES ASSUME StreetInv, [Next]_vars PROVE StreetInv'
    OBVIOUS
  <2>2. IInv'
    BY <2>1, NextInv DEF StreetInv
  <2>3. CASE UNCHANGED vars
    <3>1. hand' = hand
      BY <2>3 DEF vars
    <3>2. ShowdownIsPaidFor'
      BY <2>1, <3>1 DEF StreetInv, ShowdownIsPaidFor
    <3> QED
      BY <2>1, <2>2, <3>1, <3>2 DEF StreetInv
  <2>4. CASE Next
    BY <2>1, <2>2, <2>4, NextKeeps DEF StreetInv, CallKeeps
  <2> QED
    BY <2>1, <2>3, <2>4
<1> QED
  BY <1>1, <1>2, PTL DEF Spec

(* Nobody sees a showdown cheaply: with two or more seats left at the end  *)
(* all five board cards are out, and each of these seats is all-in or has  *)
(* put in as much as any seat (end_round is only reached on a matched bet).*)
THEOREM ShowdownsArePaidFor ==
  ASSUME Ante = 0
  PROVE  Spec => []ShowdownIsPaidFor
<1>1. StreetInv => ShowdownIsPaidFor
  BY DEF StreetInv
<1> QED
  BY <1>1, StreetInvariant, PTL

(* No street is closed over the head of a seat that could still act on it, *)
(* whatever is raised, called all-in for less, or folded out of turn.      *)
THEOREM NobodyIsSkipped ==
  ASSUME Ante = 0
  PROVE  Spec => NobodySkipped
<1> DEFINE Due == hand'.street # hand.street =>
                      Active(hand') \subseteq hand.acted \cup {hand.current}
<1>1. StreetInv /\ [Next]_vars => [Due]_vars
  BY NextKeeps DEF CallKeeps
<1> QED
  BY <1>1, StreetInvariant, PTL DEF Spec, NobodySkipped

(* Within a street neither the price to stay in nor the least raise goes   *)
(* down, short all-ins included (E-2).                                     *)
THEOREM PriceNeverFalls ==
  ASSUME Ante = 0
  PROVE  Spec => PriceOnlyRises
<1> DEFINE Rises == hand'.street = hand.street =>
                      /\ hand'.smallest >= hand.smallest
                      /\ hand'.minRaise >= hand.minRaise
<1>1. StreetInv /\ [Next]_vars => [Rises]_vars
  BY NextKeeps DEF CallKeeps
<1> QED
  BY <1>1, StreetInvariant, PTL DEF Spec, PriceOnlyRises

-----------------------------------------------------------------------------
(* The pot: it is what the seats put in, and it can always be paid out.    *)

(* A hand that was paid for and has somebody to win it.                    *)
PotInv(h) ==
  /\ h.pot = SumOver(h.totalBet, Seats)
  /\ \E s \in Seats : h.totalBet[s] > 0
  /\ InHand(h) # {}
  /\ ~h.complete => Cardinality(InHand(h)) >= 2

(* Nothing is paid and nobody folds.                                       *)
SamePot(h, g) ==
  /\ g.pot = h.pot /\ g.totalBet = h.totalBet /\ g.folded = h.folded

LEMMA SeatsAreFinite == IsFiniteSet(Seats) /\ Seats \subseteq Int /\ Cardinality(Seats) = N
BY FS_Interval, SeatsAssumption DEF Seats

LEMMA EndRoundPot ==
  ASSUME NEW h \in Hands, Running(h)
  PROVE  SamePot(h, EndRound(h))
<1> USE DEF Running, BoardOf
<1>1. CASE h.street = "River" \/ Active(h) = {}
  <2> DEFINE b == IF h.street = "River" THEN h ELSE [h EXCEPT !.board = 5]
  <2>1. EndRound(h) = Showdown(b)
    BY <1>1 DEF EndRound
  <2>2. b \in Hands /\ SamePot(h, b)
    BY DEF Hands, SamePot
  <2> HIDE DEF b
  <2> QED
    BY <2>1, <2>2 DEF Showdown, Hands, SamePot
<1>2. CASE h.street # "River" /\ Active(h) # {}
  <2> DEFINE g == [h EXCEPT !.board  = @ + Dealt[h.street],
                            !.street = NextStreet[h.street]]
  <2>1. EndRound(h) = ResetRound(g)
    BY <1>2 DEF EndRound
  <2>2. SamePot(h, g)
    BY DEF Hands, SamePot
  <2>3. SamePot(g, ResetRound(g))
    BY DEF Hands, SamePot, ResetRound
  <2> HIDE DEF g
  <2> QED
    BY <2>1, <2>2, <2>3 DEF SamePot
<1> QED
  BY <1>1, <1>2

LEMMA AdvanceTurnPot ==
  ASSUME NEW h \in Hands, Running(h)
  PROVE  SamePot(h, AdvanceTurn(h))
<1> DEFINE next == FirstActive(h, After(h.current, 1))
           m    == [h EXCEPT !.current = next]
<1>1. h.current \in Seats /\ After(h.current, 1) \in Seats
  BY AfterIsSeat, SeatsAssumption DEF Hands
<1>2. next \in Seats
  BY <1>1, FirstActiveIsNearest
<1>3. AdvanceTurn(h) = IF RoundComplete(m) THEN EndRound(m) ELSE m
  BY DEF AdvanceTurn
<1> HIDE DEF next
<1>4. m \in Hands /\ Running(m) /\ SamePot(h, m)
  BY <1>2 DEF Hands, Running, SamePot
<1> HIDE DEF m
<1>5. SamePot(m, EndRound(m))
  BY <1>4, EndRoundPot
<1> QED
  BY <1>3, <1>4, <1>5 DEF SamePot

(* What one seat pays, the pot gets.                                       *)
LEMMA AddBetPot ==
  ASSUME NEW h \in Hands, PotInv(h), NEW s \in Seats, NEW chips \in Nat
  PROVE  LET g == AddBet(h, s, chips)
         IN  /\ g.pot = SumOver(g.totalBet, Seats)
             /\ \E t \in Seats : g.totalBet[t] > 0
             /\ g.folded = h.folded
<1> DEFINE g == AddBet(h, s, chips)
<1>1. h.totalBet \in [Seats -> Nat] /\ h.pot \in Nat
  BY DEF Hands
<1>2. /\ g.pot = h.pot + chips /\ g.folded = h.folded
      /\ g.totalBet = [h.totalBet EXCEPT ![s] = @ + chips]
  BY DEF AddBet, Hands
<1> HIDE DEF g
<1>3. g.pot = SumOver(g.totalBet, Seats)
  <2>1. h.totalBet \in [Seats -> Int] /\ chips \in Int
    BY <1>1
  <2>2. SumOver([h.totalBet EXCEPT ![s] = @ + chips], Seats)
          = SumOver(h.totalBet, Seats) + chips
    BY <2>1, SeatsAreFinite, SumUpdates
  <2> QED
    BY <1>2, <2>2 DEF PotInv
<1>4. \E t \in Seats : g.totalBet[t] > 0
  <2>1. PICK t \in Seats : h.totalBet[t] > 0
    BY DEF PotInv
  <2>2. g.totalBet[t] > 0
    BY <1>1, <1>2, <2>1
  <2> QED
    BY <2>2
<1> QED
  BY <1>2, <1>3, <1>4 DEF g

(* A seat folds: somebody is left, and unless only one is, the hand goes   *)
(* on with two or more.                                                    *)
LEMMA GonePot ==
  ASSUME NEW h \in Hands, PotInv(h), ~h.complete, NEW s \in Seats,
         NEW gone, gone = [Acted(h, s) EXCEPT !.folded = @ \cup {s}]
  PROVE  /\ gone \in Hands /\ gone.pot = h.pot /\ gone.totalBet = h.totalBet
         /\ gone.street = h.street /\ gone.board = h.board /\ gone.complete = h.complete
         /\ InHand(gone) # {} /\ Cardinality(InHand(gone)) \in Nat \ {0}
<1>1. /\ gone \in Hands /\ gone.pot = h.pot /\ gone.totalBet = h.totalBet
      /\ gone.street = h.street /\ gone.board = h.board /\ gone.complete = h.complete
      /\ gone.folded = h.folded \cup {s}
  BY DEF Acted, Hands
<1>2. InHand(gone) = InHand(h) \ {s}
  BY <1>1 DEF InHand
<1>3. IsFiniteSet(InHand(h)) /\ IsFiniteSet(InHand(gone))
  BY SeatsAreFinite, FS_Subset DEF InHand
<1>4. InHand(gone) # {}
  <2>1. SUFFICES ASSUME InHand(gone) = {} PROVE FALSE
    OBVIOUS
  <2>2. InHand(h) \subseteq {s}
    BY <1>2, <2>1
  <2>3. Cardinality(InHand(h)) <= Cardinality({s}) /\ Cardinality({s}) = 1
    BY <2>2, FS_Singleton, FS_Subset
  <2>4. Cardinality(InHand(h)) >= 2 /\ Cardinality(InHand(h)) \in Nat
    BY <1>3, FS_CardinalityType DEF PotInv
  <2> QED
    BY <2>3, <2>4
<1>5. Cardinality(InHand(gone)) \in Nat /\ Cardinality(InHand(gone)) # 0
  BY <1>3, <1>4, FS_CardinalityType, FS_EmptySet
<1> QED
  BY <1>1, <1>4, <1>5

LEMMA PotStays ==
  ASSUME NEW h, PotInv(h), NEW g, SamePot(h, g),
         ~g.complete => Cardinality(InHand(h)) >= 2
  PROVE  PotInv(g)
<1>1. InHand(g) = InHand(h)
  BY DEF InHand, SamePot
<1> QED
  BY <1>1 DEF PotInv, SamePot

LEMMA FoldPot ==
  ASSUME StreetInv, PotInv(hand), NEW s \in Seats, Fold(s)
  PROVE  PotInv(hand')
<1> DEFINE gone == [Acted(hand, s) EXCEPT !.folded = @ \cup {s}]
<1>1. ~hand.complete /\ hand \in Hands /\ Running(hand)
  BY RunningHand DEF Fold, MayAct
<1>2. hand' = IF Cardinality(InHand(gone)) = 1 THEN [gone EXCEPT !.complete = TRUE]
              ELSE AdvanceTurn(gone)
  BY DEF Fold
<1>3. /\ gone \in Hands /\ gone.pot = hand.pot /\ gone.totalBet = hand.totalBet
      /\ gone.street = hand.street /\ gone.board = hand.board
      /\ gone.complete = hand.complete
      /\ InHand(gone) # {} /\ Cardinality(InHand(gone)) \in Nat \ {0}
  BY <1>1, GonePot
<1> HIDE DEF gone
<1>4. SamePot(gone, AdvanceTurn(gone))
  BY <1>1, <1>3, AdvanceTurnPot DEF Running
<1>5. SamePot(gone, [gone EXCEPT !.complete = TRUE]) /\ [gone EXCEPT !.complete = TRUE].complete
  BY <1>3 DEF SamePot, Hands
<1>6. SamePot(gone, hand') /\ (~hand'.complete => Cardinality(InHand(gone)) >= 2)
  BY <1>2, <1>3, <1>4, <1>5
<1>7. InHand(hand') = InHand(gone)
  BY <1>6 DEF SamePot, InHand
<1> QED
  BY <1>3, <1>6, <1>7 DEF PotInv, SamePot

LEMMA ForceFoldPot ==
  ASSUME StreetInv, PotInv(hand), NEW s \in Seats, ForceFold(s)
  PROVE  PotInv(hand')
<1> DEFINE gone  == [Acted(hand, s) EXCEPT !.folded = @ \cup {s}]
           moved == IF s = hand.current THEN AdvanceTurn(gone)
                    ELSE IF RoundComplete(gone) THEN EndRound(gone)
                    ELSE gone
<1>1. ~hand.complete /\ hand \in Hands /\ Running(hand)
  BY RunningHand DEF ForceFold
<1>2. hand' = IF Cardinality(InHand(gone)) <= 1 THEN [moved EXCEPT !.complete = TRUE]
              ELSE moved
  BY DEF ForceFold
<1>3. /\ gone \in Hands /\ gone.pot = hand.pot /\ gone.totalBet = hand.totalBet
      /\ gone.street = hand.street /\ gone.board = hand.board
      /\ gone.complete = hand.complete
      /\ InHand(gone) # {} /\ Cardinality(InHand(gone)) \in Nat \ {0}
  BY <1>1, GonePot
<1>m. moved = IF s = hand.current THEN AdvanceTurn(gone)
              ELSE IF RoundComplete(gone) THEN EndRound(gone) ELSE gone
  OBVIOUS
<1> HIDE DEF gone
<1>4. Running(gone)
  BY <1>1, <1>3 DEF Running
<1>5. /\ SamePot(gone, AdvanceTurn(gone)) /\ SamePot(gone, EndRound(gone))
      /\ SamePot(gone, gone)
  BY <1>3, <1>4, AdvanceTurnPot, EndRoundPot DEF SamePot
<1>6. Moved(gone, moved)
  BY DEF Moved
<1> HIDE DEF moved
<1>7. SamePot(gone, moved) /\ moved \in Hands
  BY <1>m, <1>3, <1>4, <1>5, <1>6, MovedCloses
<1>8. SamePot(gone, [moved EXCEPT !.complete = TRUE]) /\ [moved EXCEPT !.complete = TRUE].complete
  BY <1>7 DEF SamePot, Hands
<1>9. SamePot(gone, hand') /\ (~hand'.complete => Cardinality(InHand(gone)) >= 2)
  BY <1>2, <1>3, <1>7, <1>8
<1>10. InHand(hand') = InHand(gone)
  BY <1>9 DEF SamePot, InHand
<1> QED
  BY <1>3, <1>9, <1>10 DEF PotInv, SamePot

(* A seat answers: what it paid is in the pot.                             *)
LEMMA AnswerPot ==
  ASSUME StreetInv, PotInv(hand), ~hand.complete, NEW s \in Seats,
         NEW chips \in Nat, NEW b, b = AddBet(hand, s, chips),
         NEW g, Decision(hand, g, s), hand' = AdvanceTurn(g),
         g.pot = b.pot, g.totalBet = b.totalBet, g.folded = b.folded
  PROVE  PotInv(hand')
<1>1. hand \in Hands /\ g \in Hands /\ Running(g)
  BY RunningHand DEF Decision, Sound
<1>2. /\ b.pot = SumOver(b.totalBet, Seats)
      /\ \E t \in Seats : b.totalBet[t] > 0
      /\ b.folded = hand.folded
  BY <1>1, AddBetPot
<1>3. SamePot(g, hand')
  BY <1>1, AdvanceTurnPot
<1>4. InHand(hand') = InHand(hand)
  BY <1>2, <1>3 DEF InHand, SamePot
<1>5. InHand(hand) # {} /\ Cardinality(InHand(hand)) >= 2
  BY DEF PotInv
<1> QED
  BY <1>2, <1>3, <1>4, <1>5 DEF PotInv, SamePot

LEMMA CheckPot ==
  ASSUME StreetInv, PotInv(hand), NEW s \in Seats, Check(s)
  PROVE  PotInv(hand')
<1> DEFINE g == Acted(hand, s)
<1>1. ~hand.complete /\ hand \in Hands /\ Running(hand) /\ hand' = AdvanceTurn(g)
  BY RunningHand DEF Check, MayAct
<1>2. g \in Hands /\ Running(g) /\ SamePot(hand, g)
  BY <1>1 DEF Acted, Hands, Running, SamePot
<1> HIDE DEF g
<1>3. SamePot(g, hand')
  BY <1>1, <1>2, AdvanceTurnPot
<1>4. SamePot(hand, hand') /\ Cardinality(InHand(hand)) >= 2
  BY <1>1, <1>2, <1>3 DEF SamePot, PotInv
<1> QED
  BY <1>4, PotStays

LEMMA CallPot ==
  ASSUME StreetInv, PotInv(hand), NEW s \in Seats, Call(s)
  PROVE  PotInv(hand')
<1> DEFINE chips == ToCall(hand, s)
           b == AddBet(hand, s, chips)
           g == Acted(b, s)
<1>1. /\ ~hand.complete /\ hand' = AdvanceTurn(g) /\ Decision(hand, g, s)
      /\ chips \in Nat
      /\ g.pot = b.pot /\ g.totalBet = b.totalBet /\ g.folded = b.folded
  BY CallDecides
<1>2. b = AddBet(hand, s, chips)
  OBVIOUS
<1> HIDE DEF g, b, chips
<1> QED
  BY <1>1, <1>2, AnswerPot

LEMMA RaisePot ==
  ASSUME StreetInv, PotInv(hand), NEW s \in Seats,
         NEW chips \in 1 .. hand.stack[s], Raise(s, chips)
  PROVE  PotInv(hand')
<1> DEFINE b == AddBet(hand, s, chips)
           g == Acted(Raised(hand, s, chips), s)
<1>1. /\ ~hand.complete /\ hand' = AdvanceTurn(g) /\ Decision(hand, g, s)
      /\ chips \in Nat
      /\ g.pot = b.pot /\ g.totalBet = b.totalBet /\ g.folded = b.folded
  BY RaiseDecides
<1>2. b = AddBet(hand, s, chips)
  OBVIOUS
<1> HIDE DEF g, b
<1> QED
  BY <1>1, <1>2, AnswerPot

(* Chips put in by one seat are added to what all have put in.             *)
LEMMA SeatPutsIn ==
  ASSUME NEW f, f \in [Seats -> Nat], NEW x, x \in Seats, NEW d, d \in Nat,
         NEW g, g = [f EXCEPT ![x] = @ + d]
  PROVE  SumOver(g, Seats) = SumOver(f, Seats) + d
<1>1. f \in [Seats -> Int] /\ d \in Int
  OBVIOUS
<1> QED
  BY <1>1, SeatsAreFinite, SumUpdates

(* The blinds are the first chips of the pot.                              *)
LEMMA InitPot ==
  ASSUME Ante = 0, Init
  PROVE  PotInv(hand)
<1>1. PICK stacks \in [Seats -> StartStacks], d \in Seats :
        hand = PostAntes(NewHand(stacks, d))
  BY DEF Init
<1> DEFINE sbs   == SmallBlindSeat(d)
           bbs   == BigBlindSeat(d)
           zeros == [s \in Seats |-> 0]
           one   == [zeros EXCEPT ![sbs] = @ + SmallBlind]
           two   == [one EXCEPT ![bbs] = @ + BigBlind]
<1>2. hand = NewHand(stacks, d)
  BY <1>1 DEF PostAntes
<1>3. /\ hand.totalBet = two /\ hand.folded = {}
      /\ hand.pot = 0 + SmallBlind + BigBlind
  BY <1>2 DEF NewHand, PostBlind, AddBet
<1>4. sbs \in Seats /\ bbs \in Seats
  BY OpeningSeats
<1>5. SmallBlind \in Nat /\ BigBlind \in Nat /\ SmallBlind > 0 /\ BigBlind > 0
  BY BlindsAssumption
<1> HIDE DEF sbs, bbs
<1>6. zeros \in [Seats -> Nat] /\ one \in [Seats -> Nat] /\ two[bbs] > 0
  BY <1>4, <1>5
<1>7. \A s \in Seats : zeros[s] = 0
  OBVIOUS
<1>8. SumOver(zeros, Seats) = 0
  <2> HIDE DEF zeros
  <2> QED
    BY <1>7, SeatsAreFinite, SumOfZeros
<1>9. SumOver(one, Seats) = SumOver(zeros, Seats) + SmallBlind
  <2>1. one = [zeros EXCEPT ![sbs] = @ + SmallBlind]
    OBVIOUS
  <2> HIDE DEF zeros, one
  <2> QED
    BY ONLY <1>4, <1>5, <1>6, <2>1, SeatPutsIn
<1>10. SumOver(two, Seats) = SumOver(one, Seats) + BigBlind
  <2>1. two = [one EXCEPT ![bbs] = @ + BigBlind]
    OBVIOUS
  <2> HIDE DEF one, two
  <2> QED
    BY ONLY <1>4, <1>5, <1>6, <2>1, SeatPutsIn
<1>11. InHand(hand) = Seats
  BY <1>3 DEF InHand
<1>12. hand.pot = SumOver(hand.totalBet, Seats)
  <2> HIDE DEF zeros, one, two
  <2> QED
    BY <1>3, <1>5, <1>8, <1>9, <1>10
<1>13. \E s \in Seats : hand.totalBet[s] > 0
  BY <1>3, <1>4, <1>6
<1>14. InHand(hand) # {} /\ Cardinality(InHand(hand)) >= 2
  BY <1>4, <1>11, SeatsAreFinite, SeatsAssumption
<1> QED
  BY <1>12, <1>13, <1>14 DEF PotInv

(* Every state satisfies it.                                               *)
LEMMA PotInvariant ==
  ASSUME Ante = 0
  PROVE  Spec => [](StreetInv /\ PotInv(hand))
<1>1. Init => PotInv(hand)
  BY InitPot
<1>2. StreetInv /\ PotInv(hand) /\ [Next]_vars => PotInv(hand)'
  <2>1. SUFFICES ASSUME StreetInv, PotInv(hand), [Next]_vars PROVE PotInv(hand')
    OBVIOUS
  <2>2. CASE UNCHANGED vars
    BY <2>1, <2>2 DEF vars
  <2>3. ASSUME NEW s \in Seats, Fold(s) PROVE PotInv(hand')
    BY <2>1, <2>3, FoldPot
  <2>4. ASSUME NEW s \in Seats, Check(s) PROVE PotInv(hand')
    BY <2>1, <2>4, CheckPot
  <2>5. ASSUME NEW s \in Seats, Call(s) PROVE PotInv(hand')
    BY <2>1, <2>5, CallPot
  <2>6. ASSUME NEW s \in Seats, NEW chips \in 1 .. hand.stack[s], Raise(s, chips)
        PROVE  PotInv(hand')
    BY <2>1, <2>6, RaisePot
  <2>7. ASSUME NEW s \in Seats, ForceFold(s) PROVE PotInv(hand')
    BY <2>1, <2>7, ForceFoldPot
  <2> QED
    BY <2>1, <2>2, <2>3, <2>4, <2>5, <2>6, <2>7 DEF Next, Act
<1> QED
  BY <1>1, <1>2, StreetInvariant, PTL DEF Spec

(* Who is left in a complete hand can be paid.                             *)
LEMMA SomebodyPaid ==
  ASSUME StreetInv, PotInv(hand), hand.complete
  PROVE  Payable(Seats, hand.totalBet, hand.folded)
<1>1. /\ hand.totalBet \in [Seats -> Nat] /\ hand.stack \in [Seats -> Nat]
      /\ hand.folded \in SUBSET Seats
      /\ AllInIsBroke(hand) /\ ChipsOf(hand) /\ start \in [Seats -> StartStacks]
  BY DEF StreetInv, IInv, HandInv, Sound, Hands
<1>2. Staked(Seats, hand.totalBet, hand.folded)
  BY <1>1, SeatsAreFinite DEF Staked
<1>3. InHand(hand) = Seats \ hand.folded /\ InHand(hand) # {}
  BY DEF InHand, PotInv
<1>4. ASSUME Cardinality(InHand(hand)) # 1
      PROVE  \E w \in InHand(hand) : hand.totalBet[w] > 0
  <2>1. Cardinality(InHand(hand)) >= 2
    <3>1. IsFiniteSet(InHand(hand))
      BY <1>3, SeatsAreFinite, FS_Subset
    <3>2. Cardinality(InHand(hand)) \in Nat /\ Cardinality(InHand(hand)) # 0
      BY <1>3, <3>1, FS_CardinalityType, FS_EmptySet
    <3> QED
      BY <1>4, <3>2
  <2>2. PICK w : w \in InHand(hand)
    BY <1>3
  <2>3. w \in Seats /\ hand.totalBet[w] \in Nat
    BY <1>1, <1>3, <2>2
  <2>4. CASE w \in hand.allIn
    <3>1. hand.stack[w] = 0 /\ hand.stack[w] + hand.totalBet[w] = start[w]
      BY <1>1, <2>3, <2>4 DEF AllInIsBroke, ChipsOf
    <3>2. start[w] \in StartStacks
      BY <1>1, <2>3
    <3>3. start[w] \in Nat \ {0}
      BY <3>2, StacksAssumption, Zenon
    <3> QED
      BY <2>2, <2>3, <3>1, <3>3
  <2>5. CASE w \notin hand.allIn
    <3>1. \A t \in Seats : hand.totalBet[t] <= hand.totalBet[w]
      BY <2>1, <2>2, <2>5 DEF StreetInv, ShowdownIsPaidFor
    <3>2. PICK t \in Seats : hand.totalBet[t] > 0
      BY DEF PotInv
    <3>3. hand.totalBet[t] \in Nat /\ hand.totalBet[t] <= hand.totalBet[w]
      BY <1>1, <3>1, <3>2
    <3> QED
      BY <2>2, <2>3, <3>2, <3>3
  <2> QED
    BY <2>4, <2>5
<1> QED
  BY <1>2, <1>3, <1>4 DEF Paying, Payable

(* Every complete hand can be paid out to the last chip, whatever was bet, *)
(* whoever folded and whatever the hands are: calculate_pot_winners gives  *)
(* out exactly the pot, to seats that have not folded.                     *)
THEOREM HandsArePayable ==
  ASSUME Ante = 0
  PROVE  Spec => []HandIsPayable
<1>1. ASSUME StreetInv, PotInv(hand) PROVE HandIsPayable
  <2>1. SUFFICES ASSUME hand.complete, NEW rank \in [Seats -> 1 .. 2]
                 PROVE  LET won == PotWinners(hand.totalBet, hand.folded, rank)
                        IN  /\ SumFunction(won) = hand.pot
                            /\ \A s \in hand.folded : won[s] = 0
    BY <1>1 DEF HandIsPayable, PotInv
  <2> DEFINE bet == hand.totalBet
             out == hand.folded
             won == PotWinners(bet, out, rank)
  <2>2. won = PotWinners(bet, out, rank)
    OBVIOUS
  <2>3. rank \in [Seats -> Nat]
    BY <2>1
  <2>4. Payable(Seats, bet, out)
    BY <1>1, <2>1, SomebodyPaid
  <2>5. DOMAIN won = Seats
    BY <2>4 DEF PotWinners, Staked, Payable
  <2> HIDE DEF won, bet, out
  <2>6. SumOver(won, Seats) = SumOver(bet, Seats) /\ \A s \in out : won[s] = 0
    BY ONLY <2>2, <2>3, <2>4, PayoutIsFair
  <2>7. SumFunction(won) = SumOver(won, Seats)
    BY <2>5, SumFunctionIsSum
  <2> QED
    BY <1>1, <2>6, <2>7 DEF PotInv, won, bet, out
<1> QED
  BY <1>1, PotInvariant, PTL

-----------------------------------------------------------------------------
(* The raise panel of BetBar.                                              *)
BigRaise(h) == h.minRaise >= BigBlind

(* What both clients rely on.                                              *)
TableInv == IInv /\ BigRaise(hand) /\ amount \in Nat

(* What the web's panel holds.                                             *)
PanelInv == Shown(hand, raiseOpen) => Least(hand) <= amount /\ amount <= Most(hand)

-----------------------------------------------------------------------------
(* What end_round and advance_turn leave alone: stacks, and the raise, but *)
(* for a new street.                                                       *)
NewStreet(h) == /\ h.smallest = 0 /\ h.roundBet = [s \in Seats |-> 0]
                /\ h.minRaise = BigBlind

LEMMA EndRoundRest ==
  ASSUME NEW h \in Hands
  PROVE  /\ EndRound(h).stack = h.stack
         /\ \/ EndRound(h).complete /\ EndRound(h).minRaise = h.minRaise
            \/ NewStreet(EndRound(h))
<1>1. CASE h.street \in {"River", "Showdown"}
  BY <1>1 DEF EndRound, Showdown, Hands
<1>2. CASE h.street \notin {"River", "Showdown"} /\ Active(h) = {}
  BY <1>2 DEF EndRound, Showdown, Hands
<1>3. CASE h.street \notin {"River", "Showdown"} /\ Active(h) # {}
  BY <1>3 DEF EndRound, ResetRound, NewStreet, Hands
<1> QED
  BY <1>1, <1>2, <1>3

LEMMA AdvanceTurnRest ==
  ASSUME NEW g \in Hands
  PROVE  /\ AdvanceTurn(g).stack = g.stack
         /\ \/ /\ AdvanceTurn(g).minRaise = g.minRaise
               /\ \/ AdvanceTurn(g).complete
                  \/ /\ AdvanceTurn(g).smallest = g.smallest
                     /\ AdvanceTurn(g).roundBet = g.roundBet
                     /\ AdvanceTurn(g).acted = g.acted
            \/ NewStreet(AdvanceTurn(g))
<1> DEFINE next == FirstActive(g, After(g.current, 1))
           m    == [g EXCEPT !.current = next]
<1>1. next \in Seats
  BY AfterIsSeat, FirstActiveIsNearest, SeatsAssumption DEF Hands
<1>2. AdvanceTurn(g) = IF RoundComplete(m) THEN EndRound(m) ELSE m
  BY DEF AdvanceTurn
<1> HIDE DEF next
<1>3. /\ m \in Hands /\ m.stack = g.stack /\ m.minRaise = g.minRaise
      /\ m.smallest = g.smallest /\ m.roundBet = g.roundBet /\ m.acted = g.acted
  BY <1>1 DEF Hands
<1> HIDE DEF m
<1> QED
  BY <1>2, <1>3, EndRoundRest

LEMMA BigRaiseStays ==
  ASSUME NEW g \in Hands, BigRaise(g)
  PROVE  BigRaise(AdvanceTurn(g)) /\ BigRaise([g EXCEPT !.complete = TRUE])
<1>1. [g EXCEPT !.complete = TRUE].minRaise = g.minRaise
  BY DEF Hands
<1> QED
  BY <1>1, AdvanceTurnRest, BlindsAssumption DEF BigRaise, NewStreet

-----------------------------------------------------------------------------
(* Who pays nothing changes no stack.                                      *)
LEMMA UnpaidRest ==
  ASSUME IInv, BigRaise(hand), NEW s \in Seats, Fold(s) \/ Check(s) \/ ForceFold(s)
  PROVE  hand'.stack = hand.stack /\ BigRaise(hand')
<1>1. hand \in Hands
  BY DEF IInv, HandInv, Sound
<1> DEFINE marked == Acted(hand, s)
           gone   == [marked EXCEPT !.folded = @ \cup {s}]
<1>2. /\ marked \in Hands /\ marked.stack = hand.stack /\ marked.minRaise = hand.minRaise
      /\ gone \in Hands /\ gone.stack = hand.stack /\ gone.minRaise = hand.minRaise
  BY <1>1 DEF Acted, Hands
<1>3. BigRaise(marked) /\ BigRaise(gone)
  BY <1>2 DEF BigRaise
<1>4. CASE Check(s)
  <2>1. hand' = AdvanceTurn(marked)
    BY <1>4 DEF Check
  <2> HIDE DEF marked
  <2> QED
    BY <1>2, <1>3, <2>1, AdvanceTurnRest, BigRaiseStays
<1>5. CASE Fold(s)
  <2>1. \/ hand' = [gone EXCEPT !.complete = TRUE]
        \/ hand' = AdvanceTurn(gone)
    BY <1>5 DEF Fold
  <2> HIDE DEF gone
  <2>2. [gone EXCEPT !.complete = TRUE].stack = gone.stack
    BY <1>2 DEF Hands
  <2> QED
    BY <1>2, <1>3, <2>1, <2>2, AdvanceTurnRest, BigRaiseStays
<1>6. CASE ForceFold(s)
  <2> DEFINE moved == IF s = hand.current THEN AdvanceTurn(gone)
                      ELSE IF RoundComplete(gone) THEN EndRound(gone)
                      ELSE gone
  <2>1. \/ hand' = [moved EXCEPT !.complete = TRUE]
        \/ hand' = moved
    BY <1>6 DEF ForceFold
  <2> HIDE DEF gone
  <2>2. moved.stack = hand.stack /\ BigRaise(moved)
    BY <1>2, <1>3, AdvanceTurnRest, BigRaiseStays, EndRoundRest, BlindsAssumption
       DEF BigRaise, NewStreet
  <2> HIDE DEF moved
  <2>3. /\ [moved EXCEPT !.complete = TRUE].stack = moved.stack
        /\ [moved EXCEPT !.complete = TRUE].minRaise = moved.minRaise
    OBVIOUS
  <2> QED
    BY <2>1, <2>2, <2>3 DEF BigRaise
<1> QED
  BY <1>4, <1>5, <1>6

(* Who pays changes no other stack, and a raise never lowers the raise.    *)
LEMMA CallRest ==
  ASSUME IInv, BigRaise(hand), NEW s \in Seats, Call(s)
  PROVE  /\ \A t \in Seats \ {s} : hand'.stack[t] = hand.stack[t]
         /\ BigRaise(hand')
<1> DEFINE cost == ToCall(hand, s)
           b    == AddBet(hand, s, cost)
           g    == Acted(b, s)
<1>1. /\ hand \in Hands /\ Sound(hand) /\ s \in Active(hand)
      /\ hand' = AdvanceTurn(g) /\ hand.roundBet[s] < hand.smallest
  BY DEF IInv, HandInv, Sound, Call, MayAct
<1>2. /\ s \notin hand.allIn /\ hand.stack \in [Seats -> Nat] /\ hand.stack[s] > 0
      /\ hand.roundBet[s] \in Nat /\ hand.smallest \in Nat
  BY <1>1 DEF Hands, Sound, AllInIsBroke, Active
<1>3. cost \in Nat /\ cost > 0 /\ cost <= hand.stack[s]
  BY <1>1, <1>2 DEF ToCall
<1> HIDE DEF cost
<1>4. Paid(hand, b, s, cost)
  BY <1>1, <1>2, <1>3, AddBetSound
<1> HIDE DEF b
<1>5. g \in Hands /\ g.stack = b.stack /\ g.minRaise = hand.minRaise
  BY <1>4 DEF Paid, Acted, Hands
<1> HIDE DEF g
<1>6. BigRaise(g)
  BY <1>5 DEF BigRaise
<1>7. hand'.stack = b.stack
  BY <1>1, <1>5, AdvanceTurnRest
<1> QED
  BY <1>1, <1>2, <1>4, <1>5, <1>6, <1>7, BigRaiseStays DEF Paid

LEMMA RaiseRest ==
  ASSUME IInv, BigRaise(hand), NEW s \in Seats,
         NEW a \in 1 .. hand.stack[s], Raise(s, a)
  PROVE  /\ hand'.stack = [hand.stack EXCEPT ![s] = hand.stack[s] - a]
         /\ hand.stack \in [Seats -> Nat]
         /\ BigRaise(hand')
<1> DEFINE total == hand.roundBet[s] + a
           b     == AddBet(hand, s, a)
           r     == Raised(hand, s, a)
           g     == Acted(r, s)
<1>1. /\ hand \in Hands /\ Sound(hand) /\ s \in Active(hand) /\ hand' = AdvanceTurn(g)
  BY DEF IInv, HandInv, Sound, Raise, MayAct
<1>2. /\ s \notin hand.allIn /\ hand.stack \in [Seats -> Nat] /\ hand.minRaise \in Nat
      /\ hand.roundBet[s] \in Nat /\ hand.smallest \in Nat
  BY <1>1 DEF Hands, Active
<1>3. a \in Nat /\ a > 0 /\ a <= hand.stack[s] /\ total \in Nat
  BY <1>2
<1>4. Paid(hand, b, s, a)
  BY <1>1, <1>2, <1>3, AddBetSound
<1> DEFINE full  == total - hand.smallest >= hand.minRaise
           level == IF total <= hand.smallest THEN b
                    ELSE [b EXCEPT
                            !.smallest = total,
                            !.minRaise = IF full THEN total - hand.smallest ELSE @,
                            !.acted    = IF full THEN @ \ (Active(b) \ {s}) ELSE @]
<1>5. r = [level EXCEPT !.raisedPreflop =
             IF hand.street = "Preflop" THEN @ \cup {s} ELSE @]
  BY DEF Raised
<1> HIDE DEF b, r, total
<1>6. /\ level \in Hands /\ level.stack = b.stack
      /\ level.minRaise >= hand.minRaise
  <2>1. full => total - hand.smallest \in Nat
    BY <1>2, <1>3
  <2>2. b.acted \ (Active(b) \ {s}) \in SUBSET Seats
    BY <1>4 DEF Hands, Paid
  <2>3. b \in Hands /\ b.minRaise = hand.minRaise
    BY <1>4 DEF Paid
  <2>4. CASE total <= hand.smallest
    BY <1>2, <2>3, <2>4
  <2>5. CASE ~(total <= hand.smallest)
    <3> DEFINE raise == IF full THEN total - hand.smallest ELSE b.minRaise
               acted == IF full THEN b.acted \ (Active(b) \ {s}) ELSE b.acted
    <3>1. level = [b EXCEPT !.smallest = total, !.minRaise = raise, !.acted = acted]
      BY <2>5
    <3>2. raise \in Nat /\ raise >= hand.minRaise
      BY <1>2, <2>1, <2>3
    <3>3. acted \in SUBSET Seats
      BY <2>2, <2>3 DEF Hands
    <3> HIDE DEF raise, acted, full, level
    <3>4. level \in Hands /\ level.stack = b.stack /\ level.minRaise = raise
      BY <1>3, <2>3, <3>1, <3>2, <3>3 DEF Hands
    <3> QED
      BY <3>2, <3>4
  <2> QED
    BY <2>4, <2>5
<1> HIDE DEF level
<1>7. r \in Hands /\ r.stack = b.stack /\ r.minRaise = level.minRaise
  <2>1. level.raisedPreflop \cup {s} \in SUBSET Seats
    BY <1>6 DEF Hands
  <2> QED
    BY <1>5, <1>6, <2>1 DEF Hands
<1>8. g \in Hands /\ g.stack = b.stack /\ g.minRaise = level.minRaise
  BY <1>7 DEF Acted, Hands
<1> HIDE DEF g
<1>9. BigRaise(g)
  BY <1>2, <1>6, <1>8, BlindsAssumption DEF BigRaise, Hands
<1>10. hand'.stack = b.stack
  BY <1>1, <1>8, AdvanceTurnRest
<1> QED
  BY <1>1, <1>2, <1>4, <1>8, <1>9, <1>10, BigRaiseStays DEF Paid

-----------------------------------------------------------------------------
(* What a bar in a sound hand computes.                                    *)
LEMMA BarNumbers ==
  ASSUME IInv, BigRaise(hand)
  PROVE  /\ hand \in Hands /\ AllInIsBroke(hand)
         /\ hand.stack \in [Seats -> Nat] /\ Most(hand) \in Nat
         /\ hand.roundBet[Hero] \in Nat /\ hand.smallest \in Nat
         /\ hand.roundBet[Hero] <= hand.smallest /\ hand.minRaise \in Nat
         /\ hand.minRaise > 0
         /\ ToCallOf(hand) = hand.smallest - hand.roundBet[Hero]
         /\ Least(hand) \in Nat /\ Least(hand) > 0
         /\ Asked(hand) => Hero \in Active(hand) /\ Pending(hand, Hero)
<1>1. /\ hand \in Hands /\ Hero \in Seats /\ AllInIsBroke(hand)
      /\ hand.roundBet[Hero] <= hand.smallest
  BY BarAssumption DEF IInv, HandInv, Sound, BetsUnderLevel
<1>2. /\ hand.stack \in [Seats -> Nat] /\ hand.stack[Hero] \in Nat
      /\ hand.roundBet[Hero] \in Nat /\ hand.smallest \in Nat /\ hand.minRaise \in Nat
  BY <1>1 DEF Hands
<1>3. hand.minRaise > 0
  BY <1>2, BlindsAssumption DEF BigRaise
<1>4. ToCallOf(hand) = hand.smallest - hand.roundBet[Hero]
  BY <1>1, <1>2 DEF ToCallOf
<1>5. Asked(hand) => Hero \in Active(hand) /\ Pending(hand, Hero)
  BY DEF IInv, HandInv, Asked
<1> QED
  BY <1>1, <1>2, <1>3, <1>4, <1>5 DEF Least, Most

(* An amount within the panel's bounds is a legal raise.                   *)
LEMMA BoundsAreLegal ==
  ASSUME IInv, BigRaise(hand), NEW a \in Nat, Least(hand) <= a, a <= Most(hand)
  PROVE  Accepted(hand, a)
BY BarNumbers DEF Accepted, RaiseIsLegal, Least, Most

(* When the hero's call gives the turn back to him at once, a street was   *)
(* dealt, and the least raise is no longer what it was.                    *)
LEMMA CalledAgain ==
  ASSUME IInv, BigRaise(hand), Call(Hero), Asked(hand')
  PROVE  Least(hand') # Least(hand)
<1> DEFINE cost == ToCall(hand, Hero)
           b    == AddBet(hand, Hero, cost)
           g    == Acted(b, Hero)
<1>1. /\ hand \in Hands /\ Sound(hand) /\ Hero \in Active(hand) /\ Hero \in Seats
      /\ hand' = AdvanceTurn(g) /\ hand.roundBet[Hero] < hand.smallest
  BY BarAssumption DEF IInv, HandInv, Sound, Call, MayAct
<1>2. /\ Hero \notin hand.allIn /\ hand.stack \in [Seats -> Nat] /\ hand.stack[Hero] > 0
      /\ hand.roundBet \in [Seats -> Nat] /\ hand.smallest \in Nat /\ hand.minRaise \in Nat
  BY <1>1 DEF Hands, Sound, AllInIsBroke, Active
<1>3. /\ cost \in Nat /\ cost > 0 /\ cost <= hand.stack[Hero]
      /\ cost = hand.stack[Hero] \/ hand.roundBet[Hero] + cost = hand.smallest
  BY <1>1, <1>2 DEF ToCall
<1> HIDE DEF cost
<1>4. Paid(hand, b, Hero, cost)
  BY <1>1, <1>2, <1>3, AddBetSound
<1> HIDE DEF b
<1>5. /\ g \in Hands /\ g.stack = b.stack /\ g.minRaise = hand.minRaise
      /\ Hero \in g.acted /\ g.roundBet = b.roundBet /\ g.smallest = hand.smallest
  BY <1>1, <1>4 DEF Paid, Acted, Hands
<1> HIDE DEF g
<1>6. IInv'
  BY <1>1, CallInv, Zenon
<1>7. /\ Hero \in Active(hand') /\ Pending(hand', Hero) /\ AllInIsBroke(hand')
      /\ ~hand'.complete
  BY <1>6 DEF IInv, HandInv, Sound, Asked
<1>8. hand'.stack[Hero] # 0
  BY <1>1, <1>7 DEF AllInIsBroke, Active
<1>9. hand'.stack[Hero] = hand.stack[Hero] - cost
  <2>1. hand'.stack = b.stack
    BY <1>1, <1>5, AdvanceTurnRest
  <2> QED
    BY <1>1, <1>2, <1>4, <2>1 DEF Paid
<1>10. hand.roundBet[Hero] + cost = hand.smallest
  BY <1>2, <1>3, <1>8, <1>9
<1>11. NewStreet(hand')
  <2>1. g.roundBet[Hero] = hand.smallest
    BY <1>1, <1>2, <1>4, <1>5, <1>10 DEF Paid
  <2>2. ~(/\ hand'.smallest = g.smallest /\ hand'.roundBet = g.roundBet
          /\ hand'.acted = g.acted)
    BY <1>2, <1>5, <1>7, <2>1 DEF Pending
  <2> QED
    BY <1>1, <1>5, <1>7, <2>2, AdvanceTurnRest
<1>12. Least(hand') = BigBlind
  BY <1>1, <1>11, BlindsAssumption DEF NewStreet, Least, ToCallOf
<1> QED
  BY <1>1, <1>2, <1>12, BlindsAssumption, BarNumbers DEF Least, BigRaise

-----------------------------------------------------------------------------
(* What either client does is a step of the hand, or none.                 *)
LEMMA BarSteps ==
  ASSUME TableInv, BarNext
  PROVE  [Next]_vars
<1>1. Hero \in Seats /\ IInv /\ amount \in Nat /\ BigRaise(hand)
  BY BarAssumption DEF TableInv
<1>2. CASE OthersAct
  BY <1>2 DEF OthersAct, Next
<1>3. CASE TimedOut
  BY <1>1, <1>3 DEF TimedOut, Next, Act
<1>4. CASE Answer
  <2>1. Asked(hand)
    BY <1>4 DEF Answer
  <2>2. hand.stack[Hero] \in 1 .. hand.stack[Hero]
    BY <1>1, <2>1, BarNumbers DEF AllInIsBroke, Active
  <2> QED
    BY <1>1, <1>4, <2>2 DEF Answer, Next, Act
<1>5. CASE ToggleRaise \/ Adjust \/ Cancel
  BY <1>5 DEF ToggleRaise, Adjust, Cancel
<1>6. CASE Confirm
  <2>1. CASE Accepted(hand, amount)
    <3>1. amount \in 1 .. hand.stack[Hero]
      BY <1>1, <2>1, BarNumbers DEF Accepted, RaiseIsLegal
    <3>2. Raise(Hero, amount)
      BY <1>6, <2>1 DEF Confirm
    <3> QED
      BY <1>1, <3>1, <3>2 DEF Next, Act
  <2>2. CASE ~Accepted(hand, amount)
    BY <1>6, <2>2 DEF Confirm
  <2> QED
    BY <2>1, <2>2
<1> QED
  BY <1>2, <1>3, <1>4, <1>5, <1>6 DEF BarNext

(* No step of the hand lowers the least raise below the big blind.         *)
LEMMA NextRest ==
  ASSUME IInv, BigRaise(hand), [Next]_vars
  PROVE  BigRaise(hand')
<1>1. CASE UNCHANGED vars
  BY <1>1 DEF vars
<1>2. ASSUME NEW s \in Seats, Fold(s) \/ Check(s) \/ ForceFold(s) PROVE BigRaise(hand')
  BY <1>2, UnpaidRest
<1>3. ASSUME NEW s \in Seats, Call(s) PROVE BigRaise(hand')
  BY <1>3, CallRest
<1>4. ASSUME NEW s \in Seats, NEW a \in 1 .. hand.stack[s], Raise(s, a)
      PROVE  BigRaise(hand')
  BY <1>4, RaiseRest
<1> QED
  BY <1>1, <1>2, <1>3, <1>4 DEF Next, Act

(* The same of a primed hand.                                              *)
LEMMA LeastAfter ==
  ASSUME IInv', BigRaise(hand')
  PROVE  Least(hand') \in Nat
<1>1. /\ hand' \in Hands /\ Hero \in Seats
  BY BarAssumption DEF IInv, HandInv, Sound
<1>2. hand'.roundBet[Hero] \in Nat /\ hand'.smallest \in Nat /\ hand'.minRaise \in Nat
  BY <1>1 DEF Hands
<1> QED
  BY <1>2 DEF Least, ToCallOf

LEMMA AmountStays ==
  ASSUME TableInv, BarNext, IInv', BigRaise(hand')
  PROVE  amount' \in Nat
<1>1. IInv /\ BigRaise(hand) /\ amount \in Nat
  BY DEF TableInv
<1>2. Least(hand') \in Nat /\ Least(hand) \in Nat /\ Most(hand) \in Nat
  BY <1>1, BarNumbers, LeastAfter
<1>3. CASE Render
  BY <1>1, <1>2, <1>3 DEF Render, NoAmount
<1>4. CASE ToggleRaise
  BY <1>2, <1>3, <1>4 DEF ToggleRaise
<1>5. CASE Adjust
  BY <1>2, <1>5, BarAssumption DEF Adjust, Clamped
<1> QED
  BY <1>3, <1>4, <1>5 DEF BarNext, OthersAct, TimedOut, Answer, Confirm, Cancel

LEMMA TableInit ==
  ASSUME Ante = 0, BarInit
  PROVE  TableInv
<1>1. Init /\ IInv
  BY InitInv DEF BarInit
<1>2. hand.minRaise = BigBlind
  <2>1. PICK stacks \in [Seats -> StartStacks], d \in Seats :
          hand = PostAntes(NewHand(stacks, d))
    BY <1>1 DEF Init
  <2>2. hand = NewHand(stacks, d)
    BY <2>1 DEF PostAntes
  <2> QED
    BY <2>2 DEF NewHand, PostBlind, AddBet
<1>3. BigRaise(hand)
  BY <1>2, BlindsAssumption DEF BigRaise
<1>4. amount \in Nat
  <2>1. Least(hand) \in Nat
    BY <1>1, <1>3, BarNumbers
  <2> QED
    BY <2>1, BlindsAssumption, BarAssumption DEF BarInit, NoAmount
<1> QED
  BY <1>1, <1>3, <1>4 DEF TableInv

LEMMA TableNext ==
  ASSUME TableInv, [BarNext]_barVars
  PROVE  TableInv'
<1>1. CASE UNCHANGED barVars
  <2>1. UNCHANGED vars /\ amount' = amount
    BY <1>1 DEF barVars
  <2>2. IInv'
    BY <2>1, NextInv DEF TableInv
  <2> QED
    BY <2>1, <2>2 DEF TableInv, vars
<1>2. CASE BarNext
  <2>1. [Next]_vars
    BY <1>2, BarSteps
  <2>2. IInv' /\ BigRaise(hand')
    BY <2>1, NextInv, NextRest DEF TableInv
  <2>3. amount' \in Nat
    BY <1>2, <2>2, AmountStays
  <2> QED
    BY <2>2, <2>3 DEF TableInv
<1> QED
  BY <1>1, <1>2

-----------------------------------------------------------------------------
(* The web's panel, rendered after a step: it starts anew at a legal       *)
(* amount, or nothing it depends on has changed.                           *)
LEMMA RenderInv ==
  ASSUME ~Phone, PanelInv, TableInv', Render,
         Shown(hand, raiseOpen) /\ Asked(hand') /\ CanRaise(hand')
           => Least(hand') # Least(hand) \/ Most(hand') = Most(hand)
  PROVE  PanelInv'
<1> SUFFICES ASSUME Shown(hand', raiseOpen')
             PROVE  Least(hand') <= amount' /\ amount' <= Most(hand')
  BY DEF PanelInv
<1>1. Least(hand') \in Nat /\ Least(hand') <= Most(hand') /\ Asked(hand')
  BY LeastAfter DEF TableInv, Shown, CanRaise
<1>2. CASE Shown(hand, raiseOpen) /\ Least(hand') = Least(hand)
  <2>1. amount' = amount
    BY <1>2 DEF Render
  <2>2. Least(hand) <= amount /\ amount <= Most(hand)
    BY <1>2 DEF PanelInv
  <2>3. Most(hand') = Most(hand)
    BY <1>2 DEF Shown
  <2> QED
    BY <1>2, <2>1, <2>2, <2>3
<1>3. CASE ~(Shown(hand, raiseOpen) /\ Least(hand') = Least(hand))
  <2>1. amount' = Least(hand')
    BY <1>3 DEF Render
  <2> QED
    BY <1>1, <2>1 DEF Most
<1> QED
  BY <1>2, <1>3

(* The hero's turn after an answer of his: the panel starts anew unless he *)
(* paid nothing.                                                           *)
LEMMA AnswerInv ==
  ASSUME ~Phone, TableInv, PanelInv, TableInv', Answer
  PROVE  PanelInv'
<1>1. IInv /\ BigRaise(hand) /\ Hero \in Seats /\ Render /\ Asked(hand)
  BY BarAssumption DEF TableInv, Answer
<1>2. CASE Fold(Hero) \/ Check(Hero)
  <2>1. hand'.stack = hand.stack
    BY <1>1, <1>2, UnpaidRest
  <2> QED
    BY <1>1, <2>1, RenderInv DEF Most
<1>3. CASE Call(Hero)
  <2>1. Asked(hand') => Least(hand') # Least(hand)
    BY <1>1, <1>3, CalledAgain
  <2> QED
    BY <1>1, <2>1, RenderInv
<1>4. CASE Raise(Hero, hand.stack[Hero])
  <2>1. /\ hand.stack \in [Seats -> Nat]
        /\ hand.stack[Hero] \in 1 .. hand.stack[Hero]
    BY <1>1, BarNumbers DEF AllInIsBroke, Active
  <2>2. hand'.stack = [hand.stack EXCEPT ![Hero] = hand.stack[Hero] - hand.stack[Hero]]
    BY <1>1, <1>4, <2>1, RaiseRest
  <2>3. Most(hand') = 0
    BY <1>1, <2>1, <2>2 DEF Most
  <2>4. IInv' /\ BigRaise(hand')
    BY DEF TableInv
  <2>5. hand' \in Hands
    BY <2>4 DEF IInv, HandInv, Sound
  <2>6. Least(hand') > 0
    BY <1>1, <2>4, <2>5, BlindsAssumption DEF Hands, BigRaise, Least, ToCallOf
  <2>7. ~CanRaise(hand')
    BY <2>3, <2>4, <2>6, LeastAfter DEF CanRaise
  <2> QED
    BY <1>1, <2>7, RenderInv
<1> QED
  BY <1>2, <1>3, <1>4 DEF Answer

(* The others cannot touch the hero's stack.                               *)
LEMMA OthersActInv ==
  ASSUME ~Phone, TableInv, PanelInv, TableInv', OthersAct
  PROVE  PanelInv'
<1>1. IInv /\ BigRaise(hand) /\ Hero \in Seats /\ Render
  BY BarAssumption DEF TableInv, OthersAct
<1>2. PICK s \in Seats \ {Hero} : Act(s) \/ ForceFold(s)
  BY DEF OthersAct
<1>3. hand'.stack[Hero] = hand.stack[Hero]
  <2>1. CASE Fold(s) \/ Check(s) \/ ForceFold(s)
    BY <1>1, <1>2, <2>1, UnpaidRest
  <2>2. CASE Call(s)
    BY <1>1, <1>2, <2>2, CallRest
  <2>3. ASSUME NEW a \in 1 .. hand.stack[s], Raise(s, a)
        PROVE  hand'.stack[Hero] = hand.stack[Hero]
    BY <1>1, <1>2, <2>3, RaiseRest
  <2> QED
    BY <1>2, <2>1, <2>2, <2>3 DEF Act
<1> QED
  BY <1>1, <1>3, RenderInv DEF Most

LEMMA PanelNext ==
  ASSUME ~Phone, TableInv, PanelInv, TableInv', [BarNext]_barVars
  PROVE  PanelInv'
<1>1. IInv /\ BigRaise(hand) /\ Hero \in Seats
  BY BarAssumption DEF TableInv
<1>2. CASE UNCHANGED barVars
  BY <1>2 DEF barVars, vars, PanelInv
<1>3. CASE OthersAct
  BY <1>3, OthersActInv
<1>4. CASE Answer
  BY <1>4, AnswerInv
<1>5. CASE TimedOut
  <2>1. hand'.stack = hand.stack /\ Render
    BY <1>1, <1>5, UnpaidRest DEF TimedOut
  <2> QED
    BY <2>1, RenderInv DEF Most
<1>6. CASE ToggleRaise \/ Cancel
  <2>1. hand' = hand /\ Render
    BY <1>6 DEF ToggleRaise, Cancel, vars
  <2> QED
    BY <2>1, RenderInv
<1>7. CASE Adjust
  <2>1. hand' = hand /\ raiseOpen' = raiseOpen /\ CanRaise(hand)
    BY <1>7 DEF Adjust, Shown, vars
  <2>2. Least(hand) \in Nat /\ Most(hand) \in Nat
    BY <1>1, BarNumbers
  <2>3. PICK v \in 0 .. MaxTyped : amount' = Clamped(hand, v)
    BY <1>7 DEF Adjust
  <2>4. Least(hand) <= amount' /\ amount' <= Most(hand)
    BY <2>1, <2>2, <2>3, BarAssumption DEF Clamped, CanRaise
  <2> QED
    BY <2>1, <2>4 DEF PanelInv
<1>8. CASE Confirm
  BY <1>8 DEF Confirm, PanelInv, Shown
<1> QED
  BY <1>2, <1>3, <1>4, <1>5, <1>6, <1>7, <1>8 DEF BarNext

-----------------------------------------------------------------------------
(* The table under either client keeps the hand's invariant.               *)
THEOREM TableStaysSound ==
  ASSUME Ante = 0
  PROVE  BarSpec => []TableInv
<1>1. BarInit => TableInv
  BY TableInit
<1>2. TableInv /\ [BarNext]_barVars => TableInv'
  BY TableNext
<1> QED
  BY <1>1, <1>2, PTL DEF BarSpec

(* The web's panel never holds an amount that the table would refuse.      *)
THEOREM PanelStaysLegal ==
  ASSUME Ante = 0, ~Phone
  PROVE  BarSpec => []PanelIsLegal
<1>1. BarInit => PanelInv
  <2>1. SUFFICES ASSUME BarInit, Shown(hand, raiseOpen)
                 PROVE  Least(hand) <= amount /\ amount <= Most(hand)
    BY DEF PanelInv
  <2>2. amount = Least(hand)
    BY <2>1 DEF BarInit
  <2>3. Least(hand) \in Nat
    BY <2>1, TableInit, BarNumbers DEF TableInv
  <2> QED
    BY <2>1, <2>2, <2>3 DEF Shown, CanRaise
<1>2. TableInv /\ PanelInv /\ TableInv' /\ [BarNext]_barVars => PanelInv'
  BY PanelNext
<1>3. TableInv /\ PanelInv => PanelIsLegal
  BY BoundsAreLegal DEF TableInv, PanelInv, PanelIsLegal
<1> QED
  BY <1>1, <1>2, <1>3, TableStaysSound, PTL DEF BarSpec

(* On both clients the panel's bounds are those of the engine: every raise *)
(* short of all-in is offered.                                             *)
THEOREM RaisesAreOffered ==
  ASSUME Ante = 0
  PROVE  BarSpec => []EveryRaiseIsOffered
<1>1. TableInv => EveryRaiseIsOffered
  <2>1. SUFFICES ASSUME TableInv PROVE EveryRaiseIsOffered
    OBVIOUS
  <2>2. IInv /\ BigRaise(hand)
    BY <2>1 DEF TableInv
  <2>3. Least(hand) \in Nat /\ Least(hand) > 0 /\ Most(hand) \in Nat
    BY <2>2, BarNumbers
  <2>4. ASSUME NEW a \in Nat, a < Most(hand)
        PROVE  Accepted(hand, a) <=> Least(hand) <= a
    BY <2>2, <2>4, BarNumbers DEF Accepted, RaiseIsLegal, Least, Most
  <2>5. \A a \in 1 .. Most(hand) - 1 : Accepted(hand, a) <=> Least(hand) <= a
    BY <2>3, <2>4
  <2> QED
    BY <2>3, <2>5 DEF EveryRaiseIsOffered
<1> QED
  BY <1>1, TableStaysSound, PTL
-----------------------------------------------------------------------------
(* Table stakes.                                                           *)
(* On the part R of S the terms of f are those of g, elsewhere none.        *)
PartOf(f, S, g, R) ==
  /\ IsFiniteSet(S) /\ R \in SUBSET S
  /\ \A u \in R : f[u] \in Int /\ g[u] = f[u]
  /\ \A u \in S \ R : f[u] = 0

LEMMA SumOfPart ==
  ASSUME NEW f, NEW S, NEW g, NEW R, PartOf(f, S, g, R)
  PROVE  SumOver(f, S) = SumOver(g, R)
BY SumSkipsZeros DEF PartOf

(* Chips at a depth: none where nobody reached.                            *)
LEMMA ChipsAtDepth ==
  ASSUME NEW S, IsFiniteSet(S), NEW b \in [S -> Nat], NEW u \in Nat
  PROVE  /\ ChipsAt(b, u) \in Nat
         /\ (\A s \in S : ~(b[s] >= u)) => ChipsAt(b, u) = 0
<1>1. IsFiniteSet({s \in S : b[s] >= u})
  BY FS_Subset
<1>2. Cardinality({s \in S : b[s] >= u}) \in Nat
  BY <1>1, FS_CardinalityType
<1>3. ASSUME \A s \in S : ~(b[s] >= u) PROVE Cardinality({s \in S : b[s] >= u}) = 0
  <2>1. {s \in S : b[s] >= u} = {}
    BY <1>3
  <2> QED
    BY <2>1, FS_EmptySet
<1> QED
  BY <1>2, <1>3 DEF ChipsAt

(* The chips some seats, and only they, may win are counted by the levels  *)
(* up to any that nobody went beyond.                                      *)
LEMMA ClaimedUpTo ==
  ASSUME NEW S, IsFiniteSet(S), NEW b \in [S -> Nat], NEW out,
         NEW C, NEW m \in Nat, \A s \in S : b[s] <= m,
         NEW most \in Nat, \A s \in S : b[s] <= most
  PROVE  ChipsIn(b, out, {C}, m) = ClaimedBy(b, out, C, most)
<1> DEFINE f  == InChips(b, out, {C}, m)
           g  == [u \in 1 .. most |-> ChipsAt(b, u)]
           R  == {u \in 1 .. most : Claimants(b, out, u) = C}
           RM == {u \in R : u <= m}
<1>1. IsFiniteSet(1 .. m) /\ IsFiniteSet(1 .. most)
  BY UpTo
<1>2. IsFiniteSet(R) /\ RM \in SUBSET R /\ RM \in SUBSET (1 .. m)
  BY <1>1, FS_Subset
<1>3. ASSUME NEW u \in Nat, ~(u <= m) \/ ~(u <= most) PROVE ChipsAt(b, u) = 0
  <2>1. \A s \in S : ~(b[s] >= u)
    BY <1>3
  <2> QED
    BY <2>1, ChipsAtDepth
<1>4. SumOver(f, 1 .. m) = SumOver(g, RM)
  <2>1. ASSUME NEW u \in RM PROVE f[u] \in Int /\ g[u] = f[u]
    <3>1. u \in Nat /\ u \in 1 .. m /\ u \in 1 .. most /\ Claimants(b, out, u) = C
      OBVIOUS
    <3>2. ChipsAt(b, u) \in Nat
      BY <3>1, ChipsAtDepth
    <3> QED
      BY <3>1, <3>2 DEF InChips
  <2>2. ASSUME NEW u \in (1 .. m) \ RM PROVE f[u] = 0
    <3>1. u \in Nat /\ u \in 1 .. m
      OBVIOUS
    <3>2. CASE Claimants(b, out, u) = C
      <4>1. ~(u <= most)
        BY <3>1, <3>2, <2>2
      <4>2. ChipsAt(b, u) = 0
        BY <1>3, <3>1, <4>1
      <4> QED
        BY <3>1, <4>2 DEF InChips
    <3>3. CASE Claimants(b, out, u) # C
      BY <3>1, <3>3 DEF InChips
    <3> QED
      BY <3>2, <3>3
  <2>3. PartOf(f, 1 .. m, g, RM)
    <3> HIDE DEF f, g, RM
    <3> QED
      BY <1>1, <1>2, <2>1, <2>2 DEF PartOf
  <2> HIDE DEF f, g, RM
  <2> QED
    BY ONLY <2>3, SumOfPart
<1>5. SumOver(g, R) = SumOver(g, RM)
  <2>1. ASSUME NEW u \in RM PROVE g[u] \in Int /\ g[u] = g[u]
    BY ChipsAtDepth
  <2>2. ASSUME NEW u \in R \ RM PROVE g[u] = 0
    <3>1. u \in Nat /\ ~(u <= m) /\ u \in 1 .. most
      OBVIOUS
    <3> QED
      BY <1>3, <3>1
  <2>3. PartOf(g, R, g, RM)
    <3> HIDE DEF g, R, RM
    <3> QED
      BY <1>2, <2>1, <2>2 DEF PartOf
  <2> HIDE DEF g, R, RM
  <2> QED
    BY ONLY <2>3, SumOfPart
<1>6. ClaimedBy(b, out, C, most) = SumOver(g, R)
  BY SumOnSetIsSum DEF ClaimedBy
<1> QED
  BY <1>4, <1>5, <1>6 DEF ChipsIn

(* The pots only some seats may win hold those chips.                      *)
LEMMA PotsHoldTheClaims ==
  ASSUME NEW S, NEW b, NEW out, Paying(S, b, out), NEW p,
         p = SidePotsWithDeadMoney(b, out), NEW C \in SUBSET S,
         NEW most \in Nat, \A s \in S : b[s] <= most
  PROVE  SumFunctionOnSet([i \in DOMAIN p |-> p[i].amount],
                          {i \in DOMAIN p : p[i].eligible = C})
           = ClaimedBy(b, out, C, most)
<1> DEFINE m == Reached(Levels(b))
           f == InPots(p, {C})
           g == [i \in DOMAIN p |-> p[i].amount]
           R == {i \in DOMAIN p : p[i].eligible = C}
<1>1. /\ p \in Seq(Pot(S)) /\ m \in Nat /\ \A u \in S : b[u] <= m
      /\ \A Q \in SUBSET SUBSET S : AmountIn(p, Q) = ChipsIn(b, out, Q, m)
  <2>1. m = Reached(Levels(b))
    OBVIOUS
  <2> HIDE DEF m
  <2> QED
    BY <2>1, PotsAreClaimed
<1>2. IsFiniteSet(S) /\ b \in [S -> Nat]
  BY DEF Paying, Staked
<1>3. /\ IsFiniteSet(1 .. Len(p)) /\ DOMAIN p = 1 .. Len(p)
      /\ \A i \in 1 .. Len(p) : p[i].amount \in Nat
  BY <1>1, PotsIndexed
<1>4. SumOver(f, 1 .. Len(p)) = SumOver(g, R)
  <2>1. \A i \in R : f[i] \in Int /\ g[i] = f[i]
    BY <1>3 DEF InPots
  <2>2. \A i \in (1 .. Len(p)) \ R : f[i] = 0
    BY <1>3 DEF InPots
  <2>3. R \in SUBSET (1 .. Len(p))
    BY <1>3
  <2>4. PartOf(f, 1 .. Len(p), g, R)
    <3> HIDE DEF f, g, R
    <3> QED
      BY <1>3, <2>1, <2>2, <2>3 DEF PartOf
  <2> HIDE DEF f, g, R
  <2> QED
    BY ONLY <2>4, SumOfPart
<1>5. AmountIn(p, {C}) = ChipsIn(b, out, {C}, m)
  BY <1>1
<1>6. ChipsIn(b, out, {C}, m) = ClaimedBy(b, out, C, most)
  <2> HIDE DEF m
  <2> QED
    BY <1>1, <1>2, ClaimedUpTo
<1>7. SumFunctionOnSet(g, R) = SumOver(g, R)
  BY SumOnSetIsSum
<1> QED
  BY <1>4, <1>5, <1>6, <1>7 DEF AmountIn

-----------------------------------------------------------------------------
(* What the behaviours of MCSidePots build.                                *)
InputsOK ==
  /\ paidIn \in [Contributors -> 0 .. MostBet] /\ gaveUp \in SUBSET Contributors
  /\ StillIn # {}

LEMMA ContributorsOfHand == IsFiniteSet(Contributors) /\ Contributors \subseteq Int /\ Cardinality(Contributors) = HandSize
<1>1. HandSize \in Nat /\ Contributors = 0 .. HandSize - 1
  BY MCSidePotsAssumption DEF Contributors
<1>2. IsFiniteSet(0 .. HandSize - 1) /\ Cardinality(0 .. HandSize - 1) = HandSize
  BY <1>1, FS_Interval
<1> QED
  BY <1>1, <1>2

LEMMA InputsAlwaysOK == SidePotsSpec => []InputsOK
<1>1. SidePotsInit => InputsOK
  <2>1. 0 \in Contributors
    BY MCSidePotsAssumption DEF Contributors
  <2> QED
    BY <2>1, MCSidePotsAssumption DEF SidePotsInit, InputsOK, StillIn
<1>2. InputsOK /\ [SidePotsNext]_inputs => InputsOK'
  <2>1. SUFFICES ASSUME InputsOK, [SidePotsNext]_inputs PROVE InputsOK'
    OBVIOUS
  <2>2. CASE UNCHANGED inputs
    BY <2>1, <2>2 DEF inputs, InputsOK, StillIn, Contributors
  <2>3. ASSUME NEW s \in Contributors, PutIn(s) PROVE InputsOK'
    <3>1. paidIn[s] \in 0 .. MostBet /\ paidIn[s] + 1 \in 0 .. MostBet
      BY <2>1, <2>3, MCSidePotsAssumption DEF InputsOK, PutIn
    <3>2. paidIn' \in [Contributors -> 0 .. MostBet] /\ gaveUp' = gaveUp
      BY <2>1, <2>3, <3>1 DEF InputsOK, PutIn
    <3> QED
      BY <2>1, <3>2 DEF InputsOK, StillIn, Contributors
  <2>4. ASSUME NEW s \in Contributors, GiveUp(s) PROVE InputsOK'
    <3>1. Cardinality(StillIn) >= 2 /\ s \in StillIn /\ paidIn' = paidIn /\ gaveUp' = gaveUp \cup {s}
      BY <2>4 DEF GiveUp, StillIn
    <3>2. StillIn \ {s} # {}
      <4>1. SUFFICES ASSUME StillIn = {s} PROVE FALSE
        BY <3>1
      <4>2. Cardinality(StillIn) = 1
        BY <4>1, FS_Singleton
      <4> QED
        BY <3>1, <4>2
    <3>3. StillIn' = StillIn \ {s}
      BY <3>1 DEF StillIn, Contributors
    <3>4. paidIn' \in [Contributors -> 0 .. MostBet]' /\ gaveUp' \in SUBSET Contributors'
      BY <2>1, <2>4, <3>1 DEF InputsOK, Contributors
    <3> QED
      BY <3>2, <3>3, <3>4 DEF InputsOK
  <2> QED
    BY <2>1, <2>2, <2>3, <2>4 DEF SidePotsNext
<1> QED
  BY <1>1, <1>2, PTL DEF SidePotsSpec

LEMMA SomebodyPaidIn ==
  ASSUME InputsOK, NEW w \in StillIn, paidIn[w] > 0
  PROVE  Paying(Contributors, paidIn, gaveUp) /\ Payable(Contributors, paidIn, gaveUp)
<1>1. paidIn \in [Contributors -> Nat]
  BY MCSidePotsAssumption DEF InputsOK
<1>2. Staked(Contributors, paidIn, gaveUp)
  BY <1>1, ContributorsOfHand DEF Staked, InputsOK
<1> QED
  BY <1>2 DEF Paying, Payable, StillIn

(* The pots of every hand are those of the rules of table stakes.          *)
THEOREM PotsAreTheReference == SidePotsSpec => []PotsMatchReference
<1>1. InputsOK => PotsMatchReference
  <2>1. SUFFICES ASSUME InputsOK, NEW w \in StillIn, paidIn[w] > 0, NEW C \in SUBSET Contributors
                 PROVE  SumFunctionOnSet([i \in DOMAIN Pots |-> Pots[i].amount],
                                         {i \in DOMAIN Pots : Pots[i].eligible = C})
                          = ClaimedBy(paidIn, gaveUp, C, MostBet)
    BY DEF PotsMatchReference
  <2>2. Paying(Contributors, paidIn, gaveUp)
    BY <2>1, SomebodyPaidIn
  <2>3. MostBet \in Nat /\ \A s \in Contributors : paidIn[s] <= MostBet
    BY <2>1, MCSidePotsAssumption DEF InputsOK
  <2>4. Pots = SidePotsWithDeadMoney(paidIn, gaveUp)
    BY DEF Pots
  <2> QED
    BY <2>1, <2>2, <2>3, <2>4, PotsHoldTheClaims
<1> QED
  BY <1>1, InputsAlwaysOK, PTL

(* Nobody wins with a worse hand than one that paid as much, or after      *)
(* folding, and chips nobody matched come back.                            *)
THEOREM StakesAreTheTable == SidePotsSpec => []TableStakes
<1>1. ASSUME InputsOK PROVE TableStakes
  <2>1. SUFFICES ASSUME NEW w \in StillIn, paidIn[w] > 0, NEW rank \in Strengths
                 PROVE  LET won == PotWinners(paidIn, gaveUp, rank)
                        IN  \A s \in Contributors :
            /\ s \in gaveUp => won[s] = 0
            /\ (\E t \in StillIn : rank[t] > rank[s] /\ paidIn[t] >= paidIn[s]) => won[s] = 0
            /\ s \in StillIn =>
                 \E t \in Contributors \ {s} : won[s] >= paidIn[s] - paidIn[t]
    BY DEF TableStakes
  <2> DEFINE won == PotWinners(paidIn, gaveUp, rank)
  <2>2. Payable(Contributors, paidIn, gaveUp)
    BY <1>1, <2>1, SomebodyPaidIn
  <2>3. rank \in [Contributors -> Nat] /\ won = PotWinners(paidIn, gaveUp, rank)
    BY <2>1, MCSidePotsAssumption DEF Strengths
  <2> HIDE DEF won
  <2>4. /\ \A s \in gaveUp : won[s] = 0
        /\ \A s \in Contributors : (\E t \in Contributors \ gaveUp : rank[t] > rank[s] /\ paidIn[t] >= paidIn[s])
                              => won[s] = 0
        /\ \A s \in Contributors \ gaveUp, v \in Nat :
             (\A u \in Contributors \ {s} : paidIn[u] <= v) => won[s] >= paidIn[s] - v
    BY ONLY <2>2, <2>3, PayoutIsFair
  <2>5. ASSUME NEW s \in StillIn PROVE \E t \in Contributors \ {s} : won[s] >= paidIn[s] - paidIn[t]
    <3>1. paidIn \in [Contributors -> Nat] /\ IsFiniteSet(Contributors) /\ Contributors \ {s} \in SUBSET Contributors
      BY <1>1, ContributorsOfHand, MCSidePotsAssumption DEF InputsOK
    <3>2. Contributors \ {s} # {}
      <4>1. 0 \in Contributors /\ 1 \in Contributors /\ 0 # 1
        BY MCSidePotsAssumption DEF Contributors
      <4> QED
        BY <4>1
    <3>3. PICK t \in Contributors \ {s} : \A u \in Contributors \ {s} : paidIn[u] <= paidIn[t]
      BY ONLY <3>1, <3>2, SomebodyHasMost
    <3>4. paidIn[t] \in Nat
      BY <3>1
    <3> QED
      BY <2>4, <3>3, <3>4 DEF StillIn
  <2> QED
    BY <2>4, <2>5 DEF StillIn, won
<1> QED
  BY <1>1, InputsAlwaysOK, PTL
=============================================================================
