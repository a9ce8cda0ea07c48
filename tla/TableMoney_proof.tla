-------------------------- MODULE TableMoney_proof --------------------------
(***************************************************************************)
(* TableMoney implements Ledger, for every finite set of users, every      *)
(* buy-in and every wallet: the only ways in which a room makes or loses   *)
(* chips are the mistakes it counts.                                       *)
(*                                                                         *)
(* What the state must be for that is that everybody the hand knows still  *)
(* has a seat (HandSeated): who leaves during a hand is only marked.       *)
(* Then one lemma per action says what it does to the accounts, and the    *)
(* end of a hand, which touches all of them, is added up with Chips.       *)
(***************************************************************************)
EXTENDS TableMoney, Chips

HandSeated == hand \subseteq Seated
IInv == TypeOK /\ HandSeated

Accounts == [u \in Users |-> Holdings(u)]

LEMMA InitInv == Init => IInv
<1> SUFFICES ASSUME Init PROVE IInv
  OBVIOUS
<1>1. PlayOK
  <2>1. hand = {} /\ DOMAIN engine = {} /\ complete = FALSE /\ reveals = 0
    BY DEF Init, Nobody
  <2>2. reveals \in 0 .. MaxReveals
    BY <2>1, ChipsAssumption
  <2> QED
    BY <2>1, <2>2 DEF PlayOK
<1> QED
  BY <1>1, ChipsAssumption DEF Init, IInv, TypeOK, HandSeated, Seated, Tasks

-----------------------------------------------------------------------------
(* The invariant: one step per action.                                     *)

LEMMA SeatTaken ==
  ASSUME NEW u \in Users, TypeOK, seat[u] # Absent
  PROVE  seat[u] \in Seats /\ seat[u].stack \in Nat
BY DEF TypeOK, Seats

LEMMA SamePlay == ASSUME PlayOK, UNCHANGED play PROVE PlayOK' /\ hand' = hand
BY DEF play, PlayOK

(* The hand goes on with other stacks, or is complete.                     *)
LEMMA RevealKeeps ==
  ASSUME PlayOK, Reveal
  PROVE  complete' \in BOOLEAN /\ reveals' \in 0 .. MaxReveals
<1>1. complete' \in BOOLEAN
  BY DEF Reveal
<1>2. reveals' \in 0 .. MaxReveals
  BY ChipsAssumption DEF PlayOK, Reveal
<1> QED
  BY <1>1, <1>2

LEMMA GoOnKeeps ==
  ASSUME PlayOK, NEW stacks, GoOn(stacks), DOMAIN stacks \subseteq hand,
         \A u \in DOMAIN stacks : stacks[u] \in Nat
  PROVE  PlayOK' /\ hand' = hand
<1>1. complete' \in BOOLEAN /\ reveals' \in 0 .. MaxReveals
  <2>1. CASE Reveal
    BY <2>1, RevealKeeps
  <2>2. CASE UNCHANGED <<complete, reveals>>
    BY <2>2 DEF PlayOK
  <2> QED
    BY <2>1, <2>2 DEF GoOn
<1>2. engine' = stacks /\ hand' = hand
  BY DEF GoOn
<1> QED
  BY <1>1, <1>2 DEF PlayOK

LEMMA FoldedKeeps ==
  ASSUME PlayOK, NEW u \in Users, GoOn(Folded(u))
  PROVE  PlayOK' /\ hand' = hand
<1>1. DOMAIN Folded(u) \subseteq hand /\ \A v \in DOMAIN Folded(u) : Folded(u)[v] \in Nat
  BY DEF PlayOK, Folded
<1> QED
  BY <1>1, GoOnKeeps

LEMMA FoldKeeps ==
  ASSUME PlayOK, NEW u \in Users, Fold(u)
  PROVE  PlayOK' /\ hand' = hand
<1>1. CASE CanAct(u) /\ GoOn(Folded(u))
  BY <1>1, FoldedKeeps
<1>2. CASE Reveal /\ UNCHANGED <<hand, engine>>
  BY <1>2, RevealKeeps DEF PlayOK
<1>3. CASE UNCHANGED play
  BY <1>3, SamePlay
<1> QED
  BY <1>1, <1>2, <1>3 DEF Fold

LEMMA FreshIsASeat == Fresh \in Seats /\ Fresh # Absent /\ Fresh.stack = BuyIn
<1>1. Fresh \in Seats /\ Fresh.stack = BuyIn
  BY ChipsAssumption DEF Fresh, Seats
<1> QED
  BY <1>1, AbsentAssumption

LEMMA JoinKeeps == ASSUME IInv, NEW u \in Users, Join(u) PROVE IInv'
<1>1. seat' \in [Users -> Seats \cup {Absent}] /\ \A v \in Users : seat[v] # Absent => seat'[v] # Absent
  BY FreshIsASeat DEF IInv, TypeOK, Join
<1>2. task' \in [Users -> Tasks] /\ socket' \in [Users -> {"live", "dead"}]
  BY DEF IInv, TypeOK, Join, Tasks
<1>3. leak' \in Int
  <2>1. CASE UNCHANGED leak
    BY <2>1 DEF IInv, TypeOK
  <2>2. CASE leak' = leak + BuyIn - Stack(u) /\ u \in Leaving
    <3>1. Stack(u) \in Nat
      BY <2>2, SeatTaken DEF IInv, Stack, Leaving, Seated
    <3> QED
      BY <2>2, <3>1, ChipsAssumption DEF IInv, TypeOK
  <2> QED
    BY <2>1, <2>2 DEF Join
<1>4. PlayOK' /\ hand' = hand
  BY SamePlay DEF IInv, TypeOK, Join
<1> QED
  BY <1>1, <1>2, <1>3, <1>4 DEF IInv, TypeOK, Join, HandSeated, Seated

LEMMA DebitJoinKeeps == ASSUME IInv, NEW u \in Users, DebitJoin(u) PROVE IInv'
<1>1. wallet' \in [Users -> Nat] /\ leak' \in Int
  BY ChipsAssumption DEF IInv, TypeOK, DebitJoin, Debit
<1>2. PlayOK' /\ hand' = hand
  BY SamePlay DEF IInv, TypeOK, DebitJoin
<1> QED
  BY <1>1, <1>2 DEF IInv, TypeOK, DebitJoin, Tasks, HandSeated, Seated

LEMMA ValidateKeeps == ASSUME IInv, NEW u \in Users, Validate(u) PROVE IInv'
<1>1. PlayOK' /\ hand' = hand
  BY SamePlay DEF IInv, TypeOK, Validate
<1> QED
  BY <1>1 DEF IInv, TypeOK, Validate, Tasks, HandSeated, Seated

LEMMA DebitRebuyKeeps == ASSUME IInv, NEW u \in Users, DebitRebuy(u) PROVE IInv'
<1>1. wallet' \in [Users -> Nat] /\ task' \in [Users -> Tasks]
  BY ChipsAssumption DEF IInv, TypeOK, DebitRebuy, Tasks
<1>2. PlayOK' /\ hand' = hand
  BY SamePlay DEF IInv, TypeOK, DebitRebuy
<1> QED
  BY <1>1, <1>2 DEF IInv, TypeOK, DebitRebuy, HandSeated, Seated

LEMMA RebuyKeeps == ASSUME IInv, NEW u \in Users, Rebuy(u) PROVE IInv'
<1>1. task' \in [Users -> Tasks] /\ leak' \in Int
  BY ChipsAssumption DEF IInv, TypeOK, Rebuy, Tasks
<1>2. seat' \in [Users -> Seats \cup {Absent}] /\ \A v \in Users : seat[v] # Absent => seat'[v] # Absent
  <2>1. CASE MayRebuy(u)
    <3>1. [seat[u] EXCEPT !.stack = BuyIn] \in Seats
      BY <2>1, SeatTaken, ChipsAssumption DEF IInv, MayRebuy, Seats
    <3> QED
      BY <2>1, <3>1, AbsentAssumption DEF IInv, TypeOK, Rebuy
  <2>2. CASE ~ MayRebuy(u)
    BY <2>2 DEF IInv, TypeOK, Rebuy
  <2> QED
    BY <2>1, <2>2
<1>3. PlayOK' /\ hand' = hand
  BY SamePlay DEF IInv, TypeOK, Rebuy
<1> QED
  BY <1>1, <1>2, <1>3 DEF IInv, TypeOK, Rebuy, HandSeated, Seated

LEMMA DropRebuyKeeps == ASSUME IInv, NEW u \in Users, DropRebuy(u) PROVE IInv'
<1>1. wallet' \in [Users -> Nat] /\ task' \in [Users -> Tasks] /\ leak' \in Int
  BY ChipsAssumption DEF IInv, TypeOK, DropRebuy, Tasks
<1>2. PlayOK' /\ hand' = hand
  BY SamePlay DEF IInv, TypeOK, DropRebuy
<1> QED
  BY <1>1, <1>2 DEF IInv, TypeOK, DropRebuy, HandSeated, Seated

LEMMA StartHandKeeps == ASSUME IInv, StartHand PROVE IInv'
<1>1. wallet' \in [Users -> Nat] /\ queued' \in [Users -> Nat]
  BY DEF IInv, TypeOK, StartHand, Flush
<1>2. PlayOK'
  <2>1. PICK dealt \in SUBSET {u \in Seated \ Leaving : seat[u].stack > 0} :
          engine' = [u \in dealt |-> seat[u].stack]
    BY DEF StartHand
  <2>2. \A u \in dealt : u \in Seated /\ seat[u].stack \in Nat
    BY SeatTaken DEF IInv, Seated
  <2>3. hand' = Seated /\ UNCHANGED <<complete, reveals>>
    BY DEF StartHand
  <2>4. Seated \subseteq Users /\ complete \in BOOLEAN /\ reveals \in 0 .. MaxReveals
    BY DEF IInv, TypeOK, PlayOK, Seated
  <2> QED
    BY <2>1, <2>2, <2>3, <2>4 DEF PlayOK
<1> QED
  BY <1>1, <1>2 DEF IInv, TypeOK, StartHand, HandSeated, Seated

(* Who acts has a seat, and its stack becomes what the engine left him.    *)
LEMMA ActSeat ==
  ASSUME IInv, NEW u \in Users, CanAct(u), NEW chips \in 0 .. engine[u],
         seat' = [seat EXCEPT ![u].stack = engine[u] - chips]
  PROVE  /\ engine[u] \in Nat /\ chips \in Nat /\ engine[u] - chips \in Nat
         /\ seat[u] # Absent /\ seat'[u] # Absent /\ seat'[u].stack = engine[u] - chips
         /\ seat' \in [Users -> Seats \cup {Absent}]
         /\ \A v \in Users \ {u} : seat'[v] = seat[v]
<1>1. engine[u] \in Nat /\ u \in hand
  BY DEF IInv, TypeOK, PlayOK, CanAct
<1>2. chips \in Nat /\ engine[u] - chips \in Nat
  BY <1>1
<1>3. seat[u] # Absent
  BY <1>1 DEF IInv, HandSeated, Seated
<1> DEFINE left == engine[u] - chips
<1>4. left \in Nat /\ seat' = [seat EXCEPT ![u].stack = left]
  BY <1>2
<1> HIDE DEF left
<1>5. [seat[u] EXCEPT !.stack = left] \in Seats /\ [seat[u] EXCEPT !.stack = left].stack = left
  BY <1>3, <1>4, SeatTaken DEF IInv, Seats
<1>6. seat' = [seat EXCEPT ![u] = [seat[u] EXCEPT !.stack = left]]
  BY <1>4
<1>7. seat'[u] # Absent /\ seat'[u].stack = left /\ seat' \in [Users -> Seats \cup {Absent}]
  BY <1>5, <1>6, AbsentAssumption DEF IInv, TypeOK
<1> QED
  BY <1>1, <1>2, <1>3, <1>6, <1>7 DEF IInv, TypeOK, left

LEMMA ActKeeps == ASSUME IInv, NEW u \in Users, Act(u) PROVE IInv'
<1>1. PICK chips \in 0 .. engine[u] :
        /\ seat' = [seat EXCEPT ![u].stack = engine[u] - chips]
        /\ pot' = pot + chips
        /\ GoOn([engine EXCEPT ![u] = @ - chips]) \/ GoOn(Folded(u))
  BY DEF Act
<1>2. CanAct(u) /\ UNCHANGED <<wallet, task, credit, queued, socket>>
      /\ leak' = leak + engine[u] - Stack(u)
  BY DEF Act
<1>3. /\ engine[u] \in Nat /\ chips \in Nat /\ engine[u] - chips \in Nat
      /\ seat[u] # Absent /\ seat'[u] # Absent
      /\ seat' \in [Users -> Seats \cup {Absent}]
      /\ \A v \in Users \ {u} : seat'[v] = seat[v]
  BY <1>1, <1>2, ActSeat
<1>4. PlayOK' /\ hand' = hand
  <2> DEFINE stacks == [engine EXCEPT ![u] = @ - chips]
  <2>1. DOMAIN stacks \subseteq hand /\ \A v \in DOMAIN stacks : stacks[v] \in Nat
    BY <1>2, <1>3 DEF IInv, TypeOK, PlayOK
  <2>2. CASE GoOn(stacks)
    <3> HIDE DEF stacks
    <3> QED
      BY <2>1, <2>2, GoOnKeeps DEF IInv, TypeOK
  <2>3. CASE GoOn(Folded(u))
    BY <2>3, FoldedKeeps DEF IInv, TypeOK
  <2> QED
    BY <1>1, <2>2, <2>3
<1>5. leak' \in Int /\ pot' \in Nat
  <2>1. Stack(u) \in Nat
    BY <1>3, SeatTaken DEF IInv, Stack
  <2> QED
    BY <1>1, <1>2, <1>3, <2>1 DEF IInv, TypeOK
<1>6. HandSeated'
  BY <1>3, <1>4 DEF IInv, HandSeated, Seated
<1> QED
  BY <1>2, <1>3, <1>4, <1>5, <1>6 DEF IInv, TypeOK

LEMMA TimeOutKeeps == ASSUME IInv, NEW u \in Users, TimeOut(u) PROVE IInv'
<1>1. PlayOK' /\ hand' = hand
  BY FoldedKeeps DEF IInv, TypeOK, TimeOut
<1> QED
  BY <1>1 DEF IInv, TypeOK, TimeOut, HandSeated, Seated

(* A seat is marked, or emptied when no hand knows its user.               *)
LEMMA MarkKeeps ==
  ASSUME IInv, NEW u \in Users, seat[u] # Absent, NEW l \in BOOLEAN,
         NEW r \in {"none", "task", "nobody"},
         seat' = [seat EXCEPT ![u].leaving = l, ![u].reply = r]
  PROVE  /\ seat' \in [Users -> Seats \cup {Absent}]
         /\ \A v \in Users : seat[v] # Absent => seat'[v] # Absent
         /\ seat'[u].stack = seat[u].stack
<1>1. [[seat[u] EXCEPT !.leaving = l] EXCEPT !.reply = r] \in Seats
  BY SeatTaken DEF IInv, Seats
<1>2. seat' = [seat EXCEPT ![u] = [[seat[u] EXCEPT !.leaving = l] EXCEPT !.reply = r]]
  BY DEF IInv, TypeOK
<1>3. [[seat[u] EXCEPT !.leaving = l] EXCEPT !.reply = r].stack = seat[u].stack
  BY SeatTaken DEF IInv, Seats
<1> QED
  BY <1>1, <1>2, <1>3, AbsentAssumption DEF IInv, TypeOK

LEMMA WaitKeeps ==
  ASSUME IInv, NEW u \in Seated, NEW reply \in {"task", "nobody"}, Wait(u, reply)
  PROVE  /\ seat' \in [Users -> Seats \cup {Absent}]
         /\ \A v \in Users : seat[v] # Absent => seat'[v] # Absent
         /\ PlayOK' /\ hand' = hand
<1>1. u \in Users /\ seat[u] # Absent
  BY DEF Seated
<1>2. PlayOK' /\ hand' = hand
  BY <1>1, SamePlay, FoldKeeps DEF IInv, TypeOK, Wait
<1>3. seat' = [seat EXCEPT ![u].leaving = TRUE, ![u].reply = reply]
  BY DEF Wait
<1> QED
  BY <1>1, <1>2, <1>3, MarkKeeps

LEMMA LeaveKeeps == ASSUME IInv, NEW u \in Users, Leave(u) PROVE IInv'
<1>1. CASE Wait(u, "task") /\ UNCHANGED credit
  <2>1. /\ seat' \in [Users -> Seats \cup {Absent}]
        /\ \A v \in Users : seat[v] # Absent => seat'[v] # Absent
        /\ PlayOK' /\ hand' = hand
    BY <1>1, WaitKeeps DEF Leave
  <2> QED
    BY <1>1, <2>1 DEF IInv, TypeOK, Leave, HandSeated, Seated
<1>2. CASE /\ u \notin hand /\ UNCHANGED play
           /\ seat' = [seat EXCEPT ![u] = Absent]
           /\ credit' = [credit EXCEPT ![u] = @ + seat[u].stack]
  <2>1. seat' \in [Users -> Seats \cup {Absent}] /\ \A v \in Users \ {u} : seat'[v] = seat[v]
    BY <1>2 DEF IInv, TypeOK
  <2>2. credit' \in [Users -> Nat]
    BY <1>2, SeatTaken DEF IInv, TypeOK, Leave, Seated
  <2>3. PlayOK' /\ hand' = hand
    BY <1>2, SamePlay DEF IInv, TypeOK
  <2> QED
    BY <1>2, <2>1, <2>2, <2>3 DEF IInv, TypeOK, Leave, HandSeated, Seated
<1> QED
  BY <1>1, <1>2 DEF Leave

LEMMA LeaveOfDeadChannelKeeps ==
  ASSUME IInv, NEW u \in Users, LeaveOfDeadChannel(u) PROVE IInv'
<1>1. CASE Wait(u, "nobody") /\ UNCHANGED leak
  <2>1. /\ seat' \in [Users -> Seats \cup {Absent}]
        /\ \A v \in Users : seat[v] # Absent => seat'[v] # Absent
        /\ PlayOK' /\ hand' = hand
    BY <1>1, WaitKeeps DEF LeaveOfDeadChannel
  <2> QED
    BY <1>1, <2>1 DEF IInv, TypeOK, LeaveOfDeadChannel, HandSeated, Seated
<1>2. CASE /\ u \notin hand /\ UNCHANGED play
           /\ seat' = [seat EXCEPT ![u] = Absent]
           /\ leak' = leak - seat[u].stack
  <2>1. seat' \in [Users -> Seats \cup {Absent}] /\ \A v \in Users \ {u} : seat'[v] = seat[v]
    BY <1>2 DEF IInv, TypeOK
  <2>2. leak' \in Int
    BY <1>2, SeatTaken DEF IInv, TypeOK, LeaveOfDeadChannel, Seated
  <2>3. PlayOK' /\ hand' = hand
    BY <1>2, SamePlay DEF IInv, TypeOK
  <2> QED
    BY <1>2, <2>1, <2>2, <2>3 DEF IInv, TypeOK, LeaveOfDeadChannel, HandSeated, Seated
<1> QED
  BY <1>1, <1>2 DEF LeaveOfDeadChannel

LEMMA LeaveTimesOutKeeps == ASSUME IInv, NEW u \in Users, LeaveTimesOut(u) PROVE IInv'
<1>1. seat[u] # Absent
  BY DEF LeaveTimesOut, Leaving, Seated
<1>2. [seat[u] EXCEPT !.reply = "nobody"] \in Seats
  BY <1>1, SeatTaken DEF IInv, Seats
<1>3. seat' \in [Users -> Seats \cup {Absent}] /\ \A v \in Users : seat[v] # Absent => seat'[v] # Absent
  BY <1>2, AbsentAssumption DEF IInv, TypeOK, LeaveTimesOut
<1>4. PlayOK' /\ hand' = hand
  BY SamePlay DEF IInv, TypeOK, LeaveTimesOut
<1> QED
  BY <1>3, <1>4 DEF IInv, TypeOK, LeaveTimesOut, HandSeated, Seated

LEMMA ReconnectKeeps == ASSUME IInv, NEW u \in Users, Reconnect(u) PROVE IInv'
<1>1. seat' \in [Users -> Seats \cup {Absent}] /\ \A v \in Users : seat[v] # Absent => seat'[v] # Absent
  BY MarkKeeps DEF Reconnect, Seated
<1>2. PlayOK' /\ hand' = hand
  BY SamePlay DEF IInv, TypeOK, Reconnect
<1> QED
  BY <1>1, <1>2 DEF IInv, TypeOK, Reconnect, HandSeated, Seated

LEMMA DropKeeps == ASSUME IInv, NEW u \in Users, Drop(u) PROVE IInv'
<1>1. PlayOK' /\ hand' = hand
  BY SamePlay DEF IInv, TypeOK, Drop
<1> QED
  BY <1>1 DEF IInv, TypeOK, Drop, HandSeated, Seated

LEMMA CreditKeeps == ASSUME IInv, NEW u \in Users, Credit(u) PROVE IInv'
<1>1. wallet' \in [Users -> Nat] /\ leak' \in Int /\ credit' \in [Users -> Nat]
  BY DEF IInv, TypeOK, Credit
<1>2. PlayOK' /\ hand' = hand
  BY SamePlay DEF IInv, TypeOK, Credit
<1> QED
  BY <1>1, <1>2 DEF IInv, TypeOK, Credit, HandSeated, Seated

-----------------------------------------------------------------------------
(* The end of a hand: after are the stacks the seats get, unpaid is what   *)
(* the winners do not get, written are the leavers whose wallet the actor  *)
(* can write.                                                              *)
Won(w1, w2, chips, u) == (IF u = w1 THEN chips ELSE 0) + (IF u = w2 THEN pot - chips ELSE 0)
After(w1, w2, chips)  == [u \in Seated |-> seat[u].stack + Won(w1, w2, chips, u)]
Unpaid                == [u \in Seated |-> seat[u].stack]
Twice                 == {u \in Leaving : seat[u].reply = "task"}

Ends(after, unpaid, written) ==
  /\ wallet' = [u \in Users |-> IF u \in written THEN wallet[u] + after[u] ELSE wallet[u]]
  /\ queued' = [u \in Users |-> IF u \in Leaving \ written THEN queued[u] + after[u] ELSE queued[u]]
  /\ credit' = [u \in Users |-> IF u \in Twice THEN credit[u] + after[u] ELSE credit[u]]
  /\ seat' = [u \in Users |-> IF u \in Leaving THEN Absent
                              ELSE IF seat[u] = Absent THEN Absent
                              ELSE [seat[u] EXCEPT !.stack = after[u]]]
  /\ leak' = leak + SumOver(after, Twice) - unpaid
  /\ hand' = {} /\ engine' = Nobody /\ complete' = FALSE /\ pot' = 0

LEMMA CloseEnds ==
  ASSUME NEW after, NEW unpaid, Close(after, unpaid)
  PROVE  \E written \in SUBSET Leaving : Ends(after, unpaid, written)
BY Zenon DEF Close, Ends, Twice, SumOver

(* The winners get the pot, or nobody gets it; or there is no hand.        *)
LEMMA HandEnds ==
  ASSUME FinishHand
  PROVE  \/ \E w1, w2 \in DOMAIN engine, chips \in 0 .. pot, written \in SUBSET Leaving :
              Ends(After(w1, w2, chips), 0, written)
         \/ \E written \in SUBSET Leaving : Ends(Unpaid, pot, written)
         \/ UNCHANGED <<wallet, seat, hand, engine, complete, pot, credit, queued, leak>>
<1>1. CASE PayPot
  <2>1. PICK w1 \in DOMAIN engine, w2 \in DOMAIN engine, chips \in 0 .. pot :
          Close(After(w1, w2, chips), 0)
    BY <1>1, Zenon DEF PayPot, After, Won
  <2>2. PICK written \in SUBSET Leaving : Ends(After(w1, w2, chips), 0, written)
    BY <2>1, CloseEnds
  <2> QED
    BY <2>2
<1>2. CASE LosePot
  <2>1. Close(Unpaid, pot)
    BY <1>2, Zenon DEF LosePot, Unpaid
  <2> QED
    BY <2>1, CloseEnds
<1> QED
  BY <1>1, <1>2, Zenon DEF FinishHand

LEMMA WonIsNat ==
  ASSUME IInv, NEW w1 \in DOMAIN engine, NEW w2 \in DOMAIN engine, NEW chips \in 0 .. pot
  PROVE  /\ w1 \in Seated /\ w2 \in Seated /\ chips \in Nat /\ pot - chips \in Nat
         /\ \A u \in Users : Won(w1, w2, chips, u) \in Nat
<1>1. chips \in Nat /\ pot - chips \in Nat
  BY DEF IInv, TypeOK
<1>2. w1 \in Seated /\ w2 \in Seated
  BY DEF IInv, TypeOK, PlayOK, HandSeated
<1> QED
  BY <1>1, <1>2 DEF Won

(* Nobody's stack gets smaller.                                            *)
Grows(after) == /\ after \in [Seated -> Nat]
                /\ \A u \in Seated : after[u] >= Stack(u)

LEMMA AfterGrows ==
  ASSUME IInv, NEW w1 \in DOMAIN engine, NEW w2 \in DOMAIN engine, NEW chips \in 0 .. pot
  PROVE  /\ Grows(After(w1, w2, chips))
         /\ \A u \in Seated : After(w1, w2, chips)[u] - Stack(u) = Won(w1, w2, chips, u)
<1>1. \A u \in Users : Won(w1, w2, chips, u) \in Nat
  BY WonIsNat
<1>2. \A u \in Seated : u \in Users /\ seat[u].stack \in Nat /\ Stack(u) = seat[u].stack
  BY SeatTaken DEF IInv, Seated, Stack
<1> QED
  BY <1>1, <1>2 DEF After, Grows

LEMMA UnpaidGrows ==
  ASSUME IInv
  PROVE  Grows(Unpaid) /\ \A u \in Seated : Unpaid[u] - Stack(u) = 0
<1>1. \A u \in Seated : u \in Users /\ seat[u].stack \in Nat /\ Stack(u) = seat[u].stack
  BY SeatTaken DEF IInv, Seated, Stack
<1> QED
  BY <1>1 DEF Unpaid, Grows

LEMMA TwiceIsNat ==
  ASSUME IInv, NEW after \in [Seated -> Nat]
  PROVE  SumOver(after, Twice) \in Nat
<1>1. IsFiniteSet(Twice)
  BY ChipsAssumption, FS_Subset DEF Twice, Leaving, Seated
<1>2. \A u \in Twice : after[u] \in Nat
  BY DEF Twice, Leaving
<1> QED
  BY <1>1, <1>2, SumIsNat

LEMMA EndsKeeps ==
  ASSUME IInv, NEW after \in [Seated -> Nat], NEW unpaid \in Nat,
         NEW written \in SUBSET Leaving, Ends(after, unpaid, written),
         reveals' \in 0 .. MaxReveals, UNCHANGED <<task, socket>>
  PROVE  IInv'
<1>1. SumOver(after, Twice) \in Nat
  BY TwiceIsNat
<1>2. wallet' \in [Users -> Nat] /\ queued' \in [Users -> Nat] /\ credit' \in [Users -> Nat]
  <2>1. wallet' = [u \in Users |-> IF u \in written THEN wallet[u] + after[u] ELSE wallet[u]]
    BY DEF Ends
  <2>2. queued' = [u \in Users |-> IF u \in Leaving \ written THEN queued[u] + after[u] ELSE queued[u]]
    BY DEF Ends
  <2>3. credit' = [u \in Users |-> IF u \in Twice THEN credit[u] + after[u] ELSE credit[u]]
    BY DEF Ends
  <2>4. /\ \A u \in Leaving : after[u] \in Nat
        /\ Twice \subseteq Leaving
        /\ \A u \in Users : wallet[u] \in Nat /\ queued[u] \in Nat /\ credit[u] \in Nat
    BY DEF IInv, TypeOK, Leaving, Twice
  <2> QED
    BY <2>1, <2>2, <2>3, <2>4
<1>3. seat' \in [Users -> Seats \cup {Absent}]
  <2>1. \A u \in Users : seat[u] # Absent => [seat[u] EXCEPT !.stack = after[u]] \in Seats
    BY SeatTaken DEF IInv, Seats, Seated
  <2>2. seat' = [u \in Users |-> IF u \in Leaving THEN Absent
                                 ELSE IF seat[u] = Absent THEN Absent
                                 ELSE [seat[u] EXCEPT !.stack = after[u]]]
    BY DEF Ends
  <2> QED
    BY <2>1, <2>2
<1>4. leak' \in Int
  BY <1>1 DEF Ends, IInv, TypeOK
<1>5. hand' = {} /\ engine' = Nobody /\ complete' = FALSE /\ pot' = 0
  BY DEF Ends
<1>6. PlayOK' /\ HandSeated'
  BY <1>5 DEF PlayOK, Nobody, HandSeated
<1> QED
  BY <1>2, <1>3, <1>4, <1>5, <1>6 DEF IInv, TypeOK

LEMMA FinishHandKeeps == ASSUME IInv, FinishHand PROVE IInv'
<1>1. reveals' \in 0 .. MaxReveals /\ UNCHANGED <<task, socket>>
  <2>1. reveals \in 0 .. MaxReveals /\ reveals > 0 /\ reveals' = reveals - 1
    BY DEF IInv, TypeOK, PlayOK, FinishHand
  <2>2. UNCHANGED <<task, socket>>
    BY DEF FinishHand
  <2> QED
    BY <2>1, <2>2, ChipsAssumption
<1>2. ASSUME NEW w1 \in DOMAIN engine, NEW w2 \in DOMAIN engine, NEW chips \in 0 .. pot,
             NEW written \in SUBSET Leaving, Ends(After(w1, w2, chips), 0, written)
      PROVE  IInv'
  <2>1. After(w1, w2, chips) \in [Seated -> Nat]
    BY AfterGrows DEF Grows
  <2> QED
    BY <1>1, <1>2, <2>1, EndsKeeps
<1>3. ASSUME NEW written \in SUBSET Leaving, Ends(Unpaid, pot, written)
      PROVE  IInv'
  <2>1. Unpaid \in [Seated -> Nat] /\ pot \in Nat
    BY UnpaidGrows DEF Grows, IInv, TypeOK
  <2> QED
    BY <1>1, <1>3, <2>1, EndsKeeps
<1>4. CASE UNCHANGED <<wallet, seat, hand, engine, complete, pot, credit, queued, leak>>
  <2>1. PlayOK'
    BY <1>1, <1>4 DEF IInv, TypeOK, PlayOK
  <2> QED
    BY <1>1, <1>4, <2>1 DEF IInv, TypeOK, HandSeated, Seated
<1> QED
  BY <1>2, <1>3, <1>4, HandEnds

LEMMA NextInv == IInv /\ [Next]_vars => IInv'
<1> SUFFICES ASSUME IInv, [Next]_vars PROVE IInv'
  OBVIOUS
<1>1. CASE Next
  BY <1>1, JoinKeeps, DebitJoinKeeps, ValidateKeeps, DebitRebuyKeeps, RebuyKeeps, DropRebuyKeeps,
     ActKeeps, TimeOutKeeps, LeaveKeeps, LeaveOfDeadChannelKeeps, LeaveTimesOutKeeps,
     ReconnectKeeps, DropKeeps, CreditKeeps, StartHandKeeps, FinishHandKeeps DEF Next
<1>2. CASE UNCHANGED vars
  <2>1. PlayOK' /\ hand' = hand
    BY <1>2, SamePlay DEF vars, IInv, TypeOK
  <2> QED
    BY <1>2, <2>1 DEF vars, IInv, TypeOK, HandSeated, Seated
<1> QED
  BY <1>1, <1>2

LEMMA Invariant == Spec => []IInv
BY InitInv, NextInv, PTL DEF Spec

(* Every state is well typed: no wallet, stack, refund or credit is ever   *)
(* negative.                                                               *)
THEOREM MoneyTypes == Spec => []TypeOK
<1>1. IInv => TypeOK
  BY DEF IInv
<1> QED
  BY <1>1, Invariant, PTL

-----------------------------------------------------------------------------
(* The accounts.                                                           *)

LEMMA HoldingsType == ASSUME TypeOK, NEW u \in Users PROVE Holdings(u) \in Int
<1>1. Stack(u) \in Nat
  BY SeatTaken DEF Stack
<1>2. UnderWay(u) \in Int
  BY ChipsAssumption DEF UnderWay
<1> QED
  BY <1>1, <1>2 DEF TypeOK, Holdings

(* A user none of whose chips move.                                        *)
Untouched(v) == /\ wallet'[v] = wallet[v] /\ seat'[v] = seat[v] /\ task'[v] = task[v]
                /\ credit'[v] = credit[v] /\ queued'[v] = queued[v]

LEMMA UntouchedHolds == ASSUME NEW v \in Users, Untouched(v) PROVE Holdings(v)' = Holdings(v)
BY DEF Untouched, Holdings, Stack, UnderWay

(* The steps about one user, by what they do to what he holds.             *)
Stutters == UNCHANGED <<Accounts, pot, leak>>

Slips(u) == /\ leak' # leak /\ pot' >= pot
            /\ Accounts' = [Accounts EXCEPT ![u] = @ + (leak' - leak) - (pot' - pot)]

Bets(u) == /\ pot' > pot
           /\ Accounts' = [Accounts EXCEPT ![u] = @ - (pot' - pot)]
           /\ UNCHANGED leak

LEMMA SameHoldings ==
  ASSUME TypeOK, NEW u \in Users, \A v \in Users \ {u} : Untouched(v),
         Holdings(u)' = Holdings(u), UNCHANGED <<pot, leak>>
  PROVE  Stutters
<1>1. \A v \in Users : Holdings(v)' = Holdings(v)
  BY UntouchedHolds
<1> QED
  BY <1>1 DEF Stutters, Accounts

LEMMA ChangedHoldings ==
  ASSUME NEW u \in Users, \A v \in Users \ {u} : Untouched(v), NEW d,
         Holdings(u)' = Holdings(u) + d
  PROVE  Accounts' = [Accounts EXCEPT ![u] = @ + d]
<1>1. \A v \in Users \ {u} : Holdings(v)' = Holdings(v)
  BY UntouchedHolds
<1>2. Accounts' = [v \in Users |-> Holdings(v)']
  BY DEF Accounts
<1>3. [Accounts EXCEPT ![u] = @ + d] = [v \in Users |-> IF v = u THEN Holdings(u) + d ELSE Holdings(v)]
  BY DEF Accounts
<1> QED
  BY <1>1, <1>2, <1>3

(* A mistake made without a bet.                                           *)
LEMMA SlipOf ==
  ASSUME TypeOK, NEW u \in Users, \A v \in Users \ {u} : Untouched(v), leak' \in Int,
         Holdings(u)' = Holdings(u) + (leak' - leak), UNCHANGED pot
  PROVE  Stutters \/ Slips(u)
<1>1. Accounts' = [Accounts EXCEPT ![u] = @ + (leak' - leak)]
  BY ChangedHoldings
<1>2. Holdings(u) \in Int /\ leak \in Int /\ pot \in Nat
  BY HoldingsType DEF TypeOK
<1>3. CASE leak' = leak
  <2>1. Holdings(u)' = Holdings(u)
    BY <1>2, <1>3
  <2> QED
    BY <1>3, <2>1, SameHoldings
<1>4. CASE leak' # leak
  <2>1. Accounts[u] = Holdings(u)
    BY DEF Accounts
  <2>2. Accounts[u] + (leak' - leak) = Accounts[u] + (leak' - leak) - (pot' - pot) /\ pot' >= pot
    BY <1>2, <2>1
  <2> QED
    BY <1>1, <1>4, <2>2 DEF Slips
<1> QED
  BY <1>3, <1>4

LEMMA JoinAccounts == ASSUME IInv, NEW u \in Users, Join(u) PROVE Stutters \/ Slips(u)
<1>1. \A v \in Users \ {u} : Untouched(v)
  BY DEF IInv, TypeOK, Join, Untouched
<1>2. seat'[u] = Fresh /\ task[u] = "idle" /\ UNCHANGED <<wallet, pot, credit, queued>>
  BY DEF IInv, TypeOK, Join
<1>3. Stack(u)' = BuyIn
  BY <1>2, FreshIsASeat DEF Stack
<1>4. UnderWay(u) = 0
  BY <1>2 DEF UnderWay
<1>5. CASE seat[u] = Absent /\ task' = [task EXCEPT ![u] = "joining"] /\ UNCHANGED leak
  <2>1. Stack(u) = 0
    BY <1>5 DEF Stack
  <2>2. UnderWay(u)' = - BuyIn
    BY <1>5 DEF IInv, TypeOK, UnderWay
  <2>3. Holdings(u)' = Holdings(u)
    BY <1>2, <1>3, <1>4, <2>1, <2>2, ChipsAssumption DEF IInv, TypeOK, Holdings
  <2> QED
    BY <1>1, <1>2, <1>5, <2>3, SameHoldings DEF IInv
<1>6. CASE u \in Leaving /\ leak' = leak + BuyIn - Stack(u) /\ UNCHANGED task
  <2>1. Stack(u) \in Nat
    BY <1>6, SeatTaken DEF IInv, Stack, Leaving, Seated
  <2>2. UnderWay(u)' = 0
    BY <1>2, <1>6 DEF UnderWay
  <2>3. leak' \in Int /\ leak' - leak = BuyIn - Stack(u)
    BY <1>6, <2>1, ChipsAssumption DEF IInv, TypeOK
  <2>4. Holdings(u)' = Holdings(u) + (leak' - leak)
    BY <1>2, <1>3, <1>4, <2>1, <2>2, <2>3, ChipsAssumption DEF IInv, TypeOK, Holdings
  <2> QED
    BY <1>1, <1>2, <2>3, <2>4, SlipOf DEF IInv
<1> QED
  BY <1>5, <1>6 DEF Join

LEMMA DebitJoinAccounts == ASSUME IInv, NEW u \in Users, DebitJoin(u) PROVE Stutters \/ Slips(u)
<1>1. \A v \in Users \ {u} : Untouched(v)
  BY DEF IInv, TypeOK, DebitJoin, Debit, Untouched
<1>2. Stack(u)' = Stack(u) /\ Stack(u) \in Nat
  BY SeatTaken DEF IInv, DebitJoin, Stack
<1>3. UnderWay(u) = - BuyIn /\ UnderWay(u)' = 0
  BY DEF IInv, TypeOK, DebitJoin, UnderWay
<1>4. CASE /\ wallet[u] >= BuyIn
           /\ wallet' = [wallet EXCEPT ![u] = @ - BuyIn] /\ leak' = leak
  <2>1. wallet'[u] = wallet[u] - BuyIn
    BY <1>4 DEF IInv, TypeOK
  <2>2. Holdings(u)' = Holdings(u)
    BY <1>2, <1>3, <2>1, ChipsAssumption DEF IInv, TypeOK, DebitJoin, Holdings
  <2> QED
    BY <1>1, <1>4, <2>2, SameHoldings DEF IInv, DebitJoin
<1>5. CASE wallet' = wallet /\ leak' = leak + BuyIn
  <2>1. leak' \in Int /\ leak' - leak = BuyIn
    BY <1>5, ChipsAssumption DEF IInv, TypeOK
  <2>2. Holdings(u)' = Holdings(u) + (leak' - leak)
    BY <1>2, <1>3, <1>5, <2>1, ChipsAssumption DEF IInv, TypeOK, DebitJoin, Holdings
  <2> QED
    BY <1>1, <2>1, <2>2, SlipOf DEF IInv, DebitJoin
<1> QED
  BY <1>4, <1>5 DEF DebitJoin, Debit

LEMMA ValidateAccounts == ASSUME IInv, NEW u \in Users, Validate(u) PROVE Stutters
<1>1. \A v \in Users \ {u} : Untouched(v)
  BY DEF IInv, TypeOK, Validate, Untouched
<1>2. UnderWay(u) = 0 /\ UnderWay(u)' = 0
  BY DEF IInv, TypeOK, Validate, UnderWay
<1>3. Holdings(u)' = Holdings(u)
  BY <1>2 DEF Validate, Holdings, Stack
<1> QED
  BY <1>1, <1>3, SameHoldings DEF IInv, Validate

LEMMA DebitRebuyAccounts == ASSUME IInv, NEW u \in Users, DebitRebuy(u) PROVE Stutters
<1>1. \A v \in Users \ {u} : Untouched(v)
  BY DEF IInv, TypeOK, DebitRebuy, Untouched
<1>2. UnderWay(u) = 0
  BY DEF DebitRebuy, UnderWay
<1>3. Stack(u)' = Stack(u) /\ Stack(u) \in Nat
  BY SeatTaken DEF IInv, DebitRebuy, Stack
<1>4. CASE /\ wallet[u] >= BuyIn
           /\ wallet' = [wallet EXCEPT ![u] = @ - BuyIn]
           /\ task' = [task EXCEPT ![u] = "rebuying"]
  <2>1. wallet'[u] = wallet[u] - BuyIn /\ UnderWay(u)' = BuyIn
    BY <1>4 DEF IInv, TypeOK, UnderWay
  <2>2. Holdings(u)' = Holdings(u)
    BY <1>2, <1>3, <2>1, ChipsAssumption DEF IInv, TypeOK, DebitRebuy, Holdings
  <2> QED
    BY <1>1, <2>2, SameHoldings DEF IInv, DebitRebuy
<1>5. CASE wallet' = wallet /\ task' = [task EXCEPT ![u] = "idle"]
  <2>1. UnderWay(u)' = 0
    BY <1>5 DEF IInv, TypeOK, UnderWay
  <2>2. Holdings(u)' = Holdings(u)
    BY <1>2, <1>3, <1>5, <2>1 DEF DebitRebuy, Holdings
  <2> QED
    BY <1>1, <2>2, SameHoldings DEF IInv, DebitRebuy
<1> QED
  BY <1>4, <1>5 DEF DebitRebuy

LEMMA RebuyAccounts == ASSUME IInv, NEW u \in Users, Rebuy(u) PROVE Stutters \/ Slips(u)
<1>1. \A v \in Users \ {u} : Untouched(v)
  BY DEF IInv, TypeOK, Rebuy, Untouched
<1>2. UnderWay(u) = BuyIn /\ UnderWay(u)' = 0
  BY DEF IInv, TypeOK, Rebuy, UnderWay
<1>3. CASE MayRebuy(u)
  <2>1. Stack(u) = 0
    BY <1>3 DEF MayRebuy, Stack
  <2>2. seat'[u] \in Seats /\ seat'[u].stack = BuyIn /\ leak' = leak
    BY <1>3, SeatTaken, ChipsAssumption DEF IInv, TypeOK, Rebuy, MayRebuy, Seats
  <2>3. Stack(u)' = BuyIn
    BY <2>2, AbsentAssumption DEF Stack
  <2>4. Holdings(u)' = Holdings(u)
    BY <1>2, <2>1, <2>3, ChipsAssumption DEF IInv, TypeOK, Rebuy, Holdings
  <2> QED
    BY <1>1, <2>2, <2>4, SameHoldings DEF IInv, Rebuy
<1>4. CASE ~ MayRebuy(u)
  <2>1. seat' = seat /\ leak' = leak - BuyIn
    BY <1>4 DEF Rebuy
  <2>2. leak' \in Int /\ leak' - leak = - BuyIn
    BY <2>1, ChipsAssumption DEF IInv, TypeOK
  <2>3. Stack(u)' = Stack(u) /\ Stack(u) \in Nat
    BY <2>1, SeatTaken DEF IInv, Stack
  <2>4. Holdings(u)' = Holdings(u) + (leak' - leak)
    BY <1>2, <2>2, <2>3, ChipsAssumption DEF IInv, TypeOK, Rebuy, Holdings
  <2> QED
    BY <1>1, <2>2, <2>4, SlipOf DEF IInv, Rebuy
<1> QED
  BY <1>3, <1>4

LEMMA DropRebuyAccounts == ASSUME IInv, NEW u \in Users, DropRebuy(u) PROVE Stutters \/ Slips(u)
<1>1. \A v \in Users \ {u} : Untouched(v)
  BY DEF IInv, TypeOK, DropRebuy, Untouched
<1>2. UnderWay(u) = BuyIn /\ UnderWay(u)' = 0
  BY DEF IInv, TypeOK, DropRebuy, UnderWay
<1>3. Stack(u)' = Stack(u) /\ Stack(u) \in Nat
  BY SeatTaken DEF IInv, DropRebuy, Stack
<1>4. CASE wallet' = wallet /\ leak' = leak - BuyIn
  <2>1. leak' \in Int /\ leak' - leak = - BuyIn
    BY <1>4, ChipsAssumption DEF IInv, TypeOK
  <2>2. Holdings(u)' = Holdings(u) + (leak' - leak)
    BY <1>2, <1>3, <1>4, <2>1, ChipsAssumption DEF IInv, TypeOK, DropRebuy, Holdings
  <2> QED
    BY <1>1, <2>1, <2>2, SlipOf DEF IInv, DropRebuy
<1>5. CASE wallet' = [wallet EXCEPT ![u] = @ + BuyIn] /\ leak' = leak
  <2>1. wallet'[u] = wallet[u] + BuyIn
    BY <1>5 DEF IInv, TypeOK
  <2>2. Holdings(u)' = Holdings(u)
    BY <1>2, <1>3, <2>1, ChipsAssumption DEF IInv, TypeOK, DropRebuy, Holdings
  <2> QED
    BY <1>1, <1>5, <2>2, SameHoldings DEF IInv, DropRebuy
<1> QED
  BY <1>4, <1>5 DEF DropRebuy

LEMMA StartHandAccounts == ASSUME IInv, StartHand PROVE Stutters
<1>1. PICK paid \in SUBSET {u \in Users : queued[u] > 0} : Flush(paid)
  BY DEF StartHand
<1>2. ASSUME NEW u \in Users
      PROVE  Holdings(u)' = Holdings(u)
  <2>1. Stack(u)' = Stack(u) /\ UnderWay(u)' = UnderWay(u)
    BY DEF StartHand, Stack, UnderWay
  <2>2. Stack(u) \in Nat /\ UnderWay(u) \in Int
    BY SeatTaken, ChipsAssumption DEF IInv, Stack, UnderWay
  <2>3. /\ wallet[u] \in Nat /\ queued[u] \in Nat /\ credit[u] \in Nat /\ credit'[u] = credit[u]
        /\ wallet'[u] + queued'[u] = wallet[u] + queued[u]
        /\ wallet'[u] \in Nat /\ queued'[u] \in Nat
    BY <1>1 DEF IInv, TypeOK, StartHand, Flush
  <2> QED
    BY <2>1, <2>2, <2>3 DEF Holdings
<1> QED
  BY <1>2 DEF StartHand, Stutters, Accounts

LEMMA ActAccounts ==
  ASSUME IInv, NEW u \in Users, Act(u)
  PROVE  Stutters \/ Bets(u) \/ Slips(u)
<1>1. PICK chips \in 0 .. engine[u] : /\ seat' = [seat EXCEPT ![u].stack = engine[u] - chips]
                                      /\ pot' = pot + chips
  BY DEF Act
<1>2. CanAct(u) /\ UNCHANGED <<wallet, task, credit, queued, socket>>
      /\ leak' = leak + engine[u] - Stack(u)
  BY DEF Act
<1>3. /\ engine[u] \in Nat /\ chips \in Nat /\ engine[u] - chips \in Nat
      /\ seat[u] # Absent /\ seat'[u] # Absent /\ seat'[u].stack = engine[u] - chips
      /\ \A v \in Users \ {u} : seat'[v] = seat[v]
  BY <1>1, <1>2, ActSeat
<1>4. \A v \in Users \ {u} : Untouched(v)
  BY <1>2, <1>3 DEF Untouched
<1>5. Stack(u) \in Nat /\ Stack(u)' = engine[u] - chips
  BY <1>3, SeatTaken DEF IInv, Stack
<1>6. UnderWay(u)' = UnderWay(u) /\ UnderWay(u) \in Int
  BY <1>2, ChipsAssumption DEF UnderWay
<1>7. pot \in Nat /\ leak \in Int /\ wallet[u] \in Nat /\ credit[u] \in Nat /\ queued[u] \in Nat
  BY DEF IInv, TypeOK
<1>8. PICK bet \in Nat, slip \in Int : bet = chips /\ slip = engine[u] - Stack(u)
  BY <1>3, <1>5
<1>9. leak' = leak + slip /\ pot' = pot + bet
  BY <1>1, <1>2, <1>3, <1>5, <1>7, <1>8
<1>10. Holdings(u)' = Holdings(u) + (slip - bet)
  <2>1. Stack(u)' = Stack(u) + (slip - bet)
    BY <1>3, <1>5, <1>8
  <2>2. wallet'[u] = wallet[u] /\ credit'[u] = credit[u] /\ queued'[u] = queued[u]
    BY <1>2
  <2> QED
    BY ONLY <1>5, <1>6, <1>7, <1>8, <2>1, <2>2 DEF Holdings
<1>11. Accounts' = [Accounts EXCEPT ![u] = @ + (slip - bet)]
  BY <1>4, <1>10, ChangedHoldings
<1>12. Accounts[u] = Holdings(u) /\ Holdings(u) \in Int
  BY HoldingsType DEF IInv, Accounts
<1>13. CASE slip # 0
  <2>1. /\ leak' # leak /\ pot' >= pot
        /\ Accounts[u] + (slip - bet) = Accounts[u] + (leak' - leak) - (pot' - pot)
    BY ONLY <1>7, <1>8, <1>9, <1>12, <1>13
  <2> QED
    BY <1>11, <2>1 DEF Slips
<1>14. CASE slip = 0 /\ bet = 0
  <2>1. leak' = leak /\ pot' = pot /\ Holdings(u)' = Holdings(u)
    BY ONLY <1>7, <1>8, <1>9, <1>10, <1>12, <1>14
  <2> QED
    BY <1>4, <2>1, SameHoldings DEF IInv
<1>15. CASE slip = 0 /\ bet # 0
  <2>1. /\ leak' = leak /\ pot' > pot
        /\ Accounts[u] + (slip - bet) = Accounts[u] - (pot' - pot)
    BY ONLY <1>7, <1>8, <1>9, <1>12, <1>15
  <2> QED
    BY <1>11, <2>1 DEF Bets
<1> QED
  BY <1>13, <1>14, <1>15

LEMMA TimeOutAccounts == ASSUME IInv, NEW u \in Users, TimeOut(u) PROVE Stutters
BY DEF TimeOut, Stutters, Accounts, Holdings, Stack, UnderWay

(* A step that only marks a seat.                                          *)
LEMMA MarkAccounts ==
  ASSUME IInv, NEW u \in Users, seat[u] # Absent, NEW l \in BOOLEAN,
         NEW r \in {"none", "task", "nobody"},
         seat' = [seat EXCEPT ![u].leaving = l, ![u].reply = r],
         UNCHANGED <<wallet, pot, task, credit, queued, leak>>
  PROVE  Stutters
<1>1. \A v \in Users \ {u} : Untouched(v)
  BY DEF IInv, TypeOK, Untouched
<1>2. seat'[u] # Absent /\ seat'[u].stack = seat[u].stack
  BY MarkKeeps
<1>3. Stack(u)' = Stack(u) /\ UnderWay(u)' = UnderWay(u)
  BY <1>2 DEF Stack, UnderWay
<1>4. Holdings(u)' = Holdings(u)
  BY <1>3 DEF Holdings
<1> QED
  BY <1>1, <1>4, SameHoldings DEF IInv

LEMMA LeaveAccounts == ASSUME IInv, NEW u \in Users, Leave(u) PROVE Stutters
<1>1. CASE Wait(u, "task") /\ UNCHANGED credit
  BY <1>1, MarkAccounts DEF Leave, Wait, Seated
<1>2. CASE /\ seat' = [seat EXCEPT ![u] = Absent]
           /\ credit' = [credit EXCEPT ![u] = @ + seat[u].stack]
  <2>1. \A v \in Users \ {u} : Untouched(v)
    BY <1>2 DEF IInv, TypeOK, Leave, Untouched
  <2>2. seat'[u] = Absent /\ credit'[u] = credit[u] + seat[u].stack
    BY <1>2 DEF IInv, TypeOK
  <2>3. Stack(u)' = 0 /\ Stack(u) = seat[u].stack /\ Stack(u) \in Nat
    BY <2>2, SeatTaken DEF IInv, Leave, Stack, Seated
  <2>4. UnderWay(u)' = UnderWay(u) /\ UnderWay(u) \in Int
    BY ChipsAssumption DEF Leave, UnderWay
  <2>5. Holdings(u)' = Holdings(u)
    BY <2>2, <2>3, <2>4 DEF IInv, TypeOK, Leave, Holdings
  <2> QED
    BY <2>1, <2>5, SameHoldings DEF IInv, Leave
<1> QED
  BY <1>1, <1>2 DEF Leave

LEMMA LeaveOfDeadChannelAccounts ==
  ASSUME IInv, NEW u \in Users, LeaveOfDeadChannel(u)
  PROVE  Stutters \/ Slips(u)
<1>1. CASE Wait(u, "nobody") /\ UNCHANGED leak
  BY <1>1, MarkAccounts DEF LeaveOfDeadChannel, Wait, Seated
<1>2. CASE seat' = [seat EXCEPT ![u] = Absent] /\ leak' = leak - seat[u].stack
  <2>1. \A v \in Users \ {u} : Untouched(v)
    BY <1>2 DEF IInv, TypeOK, LeaveOfDeadChannel, Untouched
  <2>2. seat'[u] = Absent
    BY <1>2 DEF IInv, TypeOK
  <2>3. Stack(u)' = 0 /\ Stack(u) = seat[u].stack /\ Stack(u) \in Nat
    BY <2>2, SeatTaken DEF IInv, LeaveOfDeadChannel, Stack, Seated
  <2>4. UnderWay(u)' = UnderWay(u) /\ UnderWay(u) \in Int
    BY ChipsAssumption DEF LeaveOfDeadChannel, UnderWay
  <2>5. leak' \in Int /\ leak' - leak = - Stack(u)
    BY <1>2, <2>3 DEF IInv, TypeOK
  <2>6. Holdings(u)' = Holdings(u) + (leak' - leak)
    BY <2>3, <2>4, <2>5 DEF IInv, TypeOK, LeaveOfDeadChannel, Holdings
  <2> QED
    BY <2>1, <2>5, <2>6, SlipOf DEF IInv, LeaveOfDeadChannel
<1> QED
  BY <1>1, <1>2 DEF LeaveOfDeadChannel

LEMMA LeaveTimesOutAccounts == ASSUME IInv, NEW u \in Users, LeaveTimesOut(u) PROVE Stutters
<1>1. \A v \in Users \ {u} : Untouched(v)
  BY DEF IInv, TypeOK, LeaveTimesOut, Untouched
<1>2. seat[u] # Absent
  BY DEF LeaveTimesOut, Leaving, Seated
<1>3. seat'[u] \in Seats /\ seat'[u].stack = seat[u].stack
  BY <1>2, SeatTaken DEF IInv, TypeOK, LeaveTimesOut, Seats
<1>4. Stack(u)' = Stack(u) /\ UnderWay(u)' = UnderWay(u)
  BY <1>2, <1>3, AbsentAssumption DEF LeaveTimesOut, Stack, UnderWay
<1>5. Holdings(u)' = Holdings(u)
  BY <1>4 DEF LeaveTimesOut, Holdings
<1> QED
  BY <1>1, <1>5, SameHoldings DEF IInv, LeaveTimesOut

LEMMA ReconnectAccounts == ASSUME IInv, NEW u \in Users, Reconnect(u) PROVE Stutters
BY MarkAccounts DEF Reconnect, Seated

LEMMA DropAccounts == ASSUME IInv, NEW u \in Users, Drop(u) PROVE Stutters
<1>1. \A v \in Users : Untouched(v)
  BY DEF Drop, Untouched
<1>2. Holdings(u)' = Holdings(u)
  BY <1>1, UntouchedHolds
<1> QED
  BY <1>1, <1>2, SameHoldings DEF IInv, Drop

LEMMA CreditAccounts == ASSUME IInv, NEW u \in Users, Credit(u) PROVE Stutters \/ Slips(u)
<1>1. \A v \in Users \ {u} : Untouched(v)
  BY DEF IInv, TypeOK, Credit, Untouched
<1>2. credit'[u] = 0
  BY DEF IInv, TypeOK, Credit
<1>3. Stack(u)' = Stack(u) /\ UnderWay(u)' = UnderWay(u)
  BY DEF Credit, Stack, UnderWay
<1>4. Stack(u) \in Nat /\ UnderWay(u) \in Int
  BY SeatTaken, ChipsAssumption DEF IInv, Stack, UnderWay
<1>5. CASE wallet' = [wallet EXCEPT ![u] = @ + credit[u]] /\ leak' = leak
  <2>1. Holdings(u)' = Holdings(u)
    BY <1>2, <1>3, <1>4, <1>5 DEF IInv, TypeOK, Credit, Holdings
  <2> QED
    BY <1>1, <1>5, <2>1, SameHoldings DEF IInv, Credit
<1>6. CASE wallet' = wallet /\ leak' = leak - credit[u]
  <2>1. leak' \in Int /\ leak' - leak = - credit[u]
    BY <1>6 DEF IInv, TypeOK, Credit
  <2>2. Holdings(u)' = Holdings(u) + (leak' - leak)
    BY <1>2, <1>3, <1>4, <1>6, <2>1 DEF IInv, TypeOK, Credit, Holdings
  <2> QED
    BY <1>1, <2>1, <2>2, SlipOf DEF IInv, Credit
<1> QED
  BY <1>5, <1>6 DEF Credit

-----------------------------------------------------------------------------
(* The end of a hand, for all users at once.                               *)

(* What the stack of u gains at the end of the hand.                       *)
Gain(after, u) == IF u \in Seated THEN after[u] - Stack(u) ELSE 0
Again(after, u) == IF u \in Twice THEN after[u] ELSE 0

LEMMA GainsAreNat ==
  ASSUME IInv, NEW after, Grows(after), NEW u \in Users
  PROVE  Gain(after, u) \in Nat /\ Again(after, u) \in Nat
<1>1. u \in Seated => Stack(u) \in Nat /\ after[u] \in Nat /\ after[u] >= Stack(u)
  BY SeatTaken DEF IInv, Grows, Seated, Stack
<1>2. u \in Twice => u \in Seated
  BY DEF Twice, Leaving
<1> QED
  BY <1>1, <1>2 DEF Gain, Again

LEMMA HandEndsAccounts ==
  ASSUME IInv, NEW after, Grows(after), NEW unpaid \in Nat,
         NEW written \in SUBSET Leaving, Ends(after, unpaid, written),
         IInv', UNCHANGED task, NEW u \in Users
  PROVE  Holdings(u)' = Holdings(u) + (Gain(after, u) + Again(after, u))
<1> DEFINE gain  == Gain(after, u)
           again == Again(after, u)
<1>1. /\ wallet'[u] = IF u \in written THEN wallet[u] + after[u] ELSE wallet[u]
      /\ queued'[u] = IF u \in Leaving \ written THEN queued[u] + after[u] ELSE queued[u]
      /\ credit'[u] = IF u \in Twice THEN credit[u] + after[u] ELSE credit[u]
      /\ seat'[u] = IF u \in Leaving THEN Absent
                    ELSE IF seat[u] = Absent THEN Absent
                    ELSE [seat[u] EXCEPT !.stack = after[u]]
  BY DEF Ends
<1>2. gain \in Nat /\ again \in Nat
  BY GainsAreNat
<1>3. CASE seat[u] = Absent
  <2>1. u \notin Seated /\ u \notin Leaving /\ u \notin written /\ u \notin Twice
    BY <1>3 DEF Leaving, Seated, Twice
  <2>2. gain = 0 /\ again = 0
    BY <2>1 DEF Gain, Again
  <2>3. seat'[u] = Absent
    BY <1>1, <1>3
  <2>4. Stack(u) = 0 /\ Stack(u)' = 0 /\ UnderWay(u)' = UnderWay(u)
    BY <1>3, <2>3 DEF Stack, UnderWay
  <2>5. Holdings(u)' = Holdings(u)
    BY <1>1, <2>1, <2>4 DEF Holdings
  <2> QED
    BY <2>2, <2>5, HoldingsType DEF IInv
<1>4. CASE seat[u] # Absent
  <2>1. u \in Seated /\ Stack(u) = seat[u].stack /\ Stack(u) \in Nat /\ seat[u] \in Seats
    BY <1>4, SeatTaken DEF IInv, Seated, Stack
  <2>2. after[u] = Stack(u) + gain /\ after[u] \in Nat
    BY <2>1 DEF Grows, Gain
  <2>3. credit'[u] = credit[u] + again
    BY <1>1 DEF IInv, TypeOK, Again
  <2>4. wallet'[u] + Stack(u)' + queued'[u] = wallet[u] + Stack(u) + queued[u] + gain
    <3> HIDE DEF gain, again
    <3>1. CASE u \in Leaving
      <4>1. Stack(u)' = 0
        BY <1>1, <3>1 DEF Stack
      <4>2. CASE u \in written
        BY <1>1, <1>2, <2>1, <2>2, <4>1, <4>2 DEF IInv, TypeOK
      <4>3. CASE u \notin written
        BY <1>1, <1>2, <2>1, <2>2, <3>1, <4>1, <4>3 DEF IInv, TypeOK
      <4> QED
        BY <4>2, <4>3
    <3>2. CASE u \notin Leaving
      <4>1. seat'[u] = [seat[u] EXCEPT !.stack = after[u]]
        BY <1>1, <1>4, <3>2
      <4>2. seat'[u] \in Seats /\ seat'[u].stack = after[u]
        BY <2>1, <2>2, <4>1 DEF Seats
      <4>3. Stack(u)' = after[u]
        BY <4>2, AbsentAssumption DEF Stack
      <4>4. wallet'[u] = wallet[u] /\ queued'[u] = queued[u]
        BY <1>1, <3>2
      <4> QED
        BY <1>2, <2>1, <2>2, <4>3, <4>4 DEF IInv, TypeOK
    <3> QED
      BY <3>1, <3>2
  <2>5. Stack(u)' \in Nat /\ wallet'[u] \in Nat /\ queued'[u] \in Nat
    <3>1. seat'[u] # Absent => seat'[u].stack \in Nat
      BY DEF IInv, TypeOK, Seats
    <3> QED
      BY <3>1 DEF IInv, TypeOK, Stack
  <2>6. UnderWay(u)' = UnderWay(u) /\ UnderWay(u) \in Int
    BY ChipsAssumption DEF UnderWay
  <2> HIDE DEF gain, again
  <2>7. Holdings(u)' = Holdings(u) + (gain + again)
    BY <1>2, <2>1, <2>3, <2>4, <2>5, <2>6 DEF IInv, TypeOK, Holdings
  <2> QED
    BY <2>7 DEF gain, again
<1> QED
  BY <1>3, <1>4

(* What all accounts gain is what the winners are paid and the chips the   *)
(* leavers are paid twice.                                                 *)
LEMMA GainsAddUp ==
  ASSUME IInv, NEW after, Grows(after), NEW unpaid \in Nat,
         NEW written \in SUBSET Leaving, Ends(after, unpaid, written),
         IInv', UNCHANGED task
  PROVE  SumOver(Accounts', Users)
           = SumOver(Accounts, Users)
             + (SumOver([u \in Users |-> Gain(after, u)], Users) + SumOver(after, Twice))
<1> DEFINE won   == [u \in Users |-> Gain(after, u)]
           again == [u \in Users |-> Again(after, u)]
           gain  == [u \in Users |-> won[u] + again[u]]
<1>1. IsFiniteSet(Users) /\ Twice \subseteq Seated /\ Twice \subseteq Users
  BY ChipsAssumption DEF Twice, Leaving, Seated
<1>2. \A u \in Users : won[u] \in Int /\ again[u] \in Int /\ gain[u] = won[u] + again[u]
  BY GainsAreNat
<1>3. SumOver(again, Users) = SumOver(after, Twice)
  <2>1. /\ \A u \in Twice : again[u] \in Int /\ after[u] = again[u]
        /\ \A u \in Users \ Twice : again[u] = 0
    BY <1>1, <1>2 DEF Again
  <2> HIDE DEF again
  <2> QED
    BY <1>1, <2>1, SumSkipsZeros
<1>4. SumOver(gain, Users) = SumOver(won, Users) + SumOver(after, Twice)
  <2> HIDE DEF won, again, gain
  <2>1. SumOver(gain, Users) = SumOver(won, Users) + SumOver(again, Users)
    BY <1>1, <1>2, SumAdds
  <2> QED
    BY <1>3, <2>1
<1>5. \A u \in Users : Accounts[u] \in Int /\ gain[u] \in Int /\ Accounts'[u] = Accounts[u] + gain[u]
  <2>1. \A u \in Users : Accounts[u] \in Int
    BY HoldingsType DEF IInv, Accounts
  <2>2. \A u \in Users : gain[u] \in Int
    <3> HIDE DEF won, again
    <3> QED
      BY <1>2
  <2>3. \A u \in Users : Accounts'[u] = Accounts[u] + gain[u]
    BY HandEndsAccounts DEF Accounts
  <2> QED
    BY <2>1, <2>2, <2>3
<1>6. SumOver(Accounts', Users) = SumOver(Accounts, Users) + SumOver(gain, Users)
  <2> HIDE DEF gain
  <2> QED
    BY <1>1, <1>5, SumAdds
<1> QED
  BY <1>4, <1>6

Settles == /\ pot' = 0
           /\ \A u \in Users : Accounts'[u] >= Accounts[u]
           /\ leak' - leak = SumOver(Accounts', Users) - (SumOver(Accounts, Users) + pot)

(* A hand that pays out all of the pot but unpaid.                         *)
LEMMA EndsSettle ==
  ASSUME IInv, NEW after, Grows(after), NEW unpaid \in Nat,
         NEW written \in SUBSET Leaving, Ends(after, unpaid, written),
         IInv', UNCHANGED task, NEW paid \in Nat, paid + unpaid = pot,
         SumOver([u \in Users |-> Gain(after, u)], Users) = paid
  PROVE  Settles
<1>1. ASSUME NEW u \in Users
      PROVE  Accounts'[u] >= Accounts[u]
  <2>1. Holdings(u)' = Holdings(u) + (Gain(after, u) + Again(after, u))
    BY HandEndsAccounts
  <2>2. Gain(after, u) \in Nat /\ Again(after, u) \in Nat
    BY GainsAreNat
  <2>3. Accounts'[u] = Holdings(u)' /\ Accounts[u] = Holdings(u) /\ Holdings(u) \in Int
    BY HoldingsType DEF IInv, Accounts
  <2> QED
    BY <2>1, <2>2, <2>3
<1>2. pot' = 0 /\ leak' = leak + SumOver(after, Twice) - unpaid
  BY DEF Ends
<1>3. SumOver(Accounts', Users) = SumOver(Accounts, Users) + (paid + SumOver(after, Twice))
  BY GainsAddUp
<1>4. SumOver(after, Twice) \in Nat /\ SumOver(Accounts, Users) \in Int /\ leak \in Int /\ pot \in Int
  <2>1. SumOver(after, Twice) \in Nat
    BY TwiceIsNat DEF Grows
  <2>2. \A u \in Users : Accounts[u] \in Int
    BY HoldingsType DEF IInv, Accounts
  <2>3. SumOver(Accounts, Users) \in Int
    BY <2>2, ChipsAssumption, SumIsInt
  <2> QED
    BY <2>1, <2>3 DEF IInv, TypeOK
<1>5. leak' - leak = SumOver(Accounts', Users) - (SumOver(Accounts, Users) + pot)
  <2>1. PICK twice \in Nat, before \in Int : twice = SumOver(after, Twice) /\ before = SumOver(Accounts, Users)
    BY <1>4
  <2> QED
    BY <1>2, <1>3, <1>4, <2>1
<1> QED
  BY <1>1, <1>2, <1>5 DEF Settles

(* The winners' gains are the pot; without winners nobody gains.           *)
LEMMA WinnersGetThePot ==
  ASSUME IInv, NEW w1 \in DOMAIN engine, NEW w2 \in DOMAIN engine, NEW chips \in 0 .. pot
  PROVE  SumOver([u \in Users |-> Gain(After(w1, w2, chips), u)], Users) = pot
<1> DEFINE first  == [u \in Users |-> IF u = w1 THEN chips ELSE 0]
           second == [u \in Users |-> IF u = w2 THEN pot - chips ELSE 0]
           won    == [u \in Users |-> Gain(After(w1, w2, chips), u)]
<1>1. IsFiniteSet(Users) /\ w1 \in Users /\ w2 \in Users
  BY ChipsAssumption, WonIsNat DEF Seated
<1>2. chips \in Int /\ pot - chips \in Int /\ pot \in Int
  BY WonIsNat DEF IInv, TypeOK
<1>3. ASSUME NEW u \in Users
      PROVE  first[u] \in Int /\ second[u] \in Int /\ won[u] = first[u] + second[u]
  <2>1. first[u] \in Int /\ second[u] \in Int /\ first[u] + second[u] = Won(w1, w2, chips, u)
    BY <1>2 DEF Won
  <2>2. CASE u \in Seated
    BY <2>1, <2>2, AfterGrows DEF Gain
  <2>3. CASE u \notin Seated
    <3>1. u # w1 /\ u # w2
      BY <2>3, WonIsNat
    <3> QED
      BY <2>1, <2>3, <3>1 DEF Gain
  <2> QED
    BY <2>2, <2>3, <2>1
<1>4. first[w1] = chips /\ \A u \in Users \ {w1} : first[u] = 0
  BY <1>1
<1>5. second[w2] = pot - chips /\ \A u \in Users \ {w2} : second[u] = 0
  BY <1>1
<1> HIDE DEF first, second, won
<1>6. SumOver(first, Users) = chips
  BY <1>1, <1>2, <1>4, SumOfOne
<1>7. SumOver(second, Users) = pot - chips
  BY <1>1, <1>2, <1>5, SumOfOne
<1>8. SumOver(won, Users) = SumOver(first, Users) + SumOver(second, Users)
  BY <1>1, <1>3, SumAdds
<1>9. SumOver(won, Users) = pot
  BY <1>2, <1>6, <1>7, <1>8
<1> QED
  BY <1>9 DEF won

LEMMA NobodyGains ==
  ASSUME IInv
  PROVE  SumOver([u \in Users |-> Gain(Unpaid, u)], Users) = 0
<1> DEFINE won == [u \in Users |-> Gain(Unpaid, u)]
<1>1. \A u \in Users : won[u] = 0
  BY UnpaidGrows DEF Gain
<1> HIDE DEF won
<1>2. SumOver(won, Users) = 0
  BY <1>1, ChipsAssumption, SumOfZeros
<1> QED
  BY <1>2 DEF won

LEMMA FinishHandAccounts == ASSUME IInv, FinishHand PROVE Settles \/ Stutters
<1>1. IInv' /\ UNCHANGED task
  BY FinishHandKeeps DEF FinishHand
<1>2. pot \in Nat
  BY DEF IInv, TypeOK
<1>3. ASSUME NEW w1 \in DOMAIN engine, NEW w2 \in DOMAIN engine, NEW chips \in 0 .. pot,
             NEW written \in SUBSET Leaving, Ends(After(w1, w2, chips), 0, written)
      PROVE  Settles
  <2>1. Grows(After(w1, w2, chips)) /\ pot + 0 = pot
    BY <1>2, AfterGrows
  <2> QED
    BY <1>1, <1>2, <1>3, <2>1, WinnersGetThePot, EndsSettle
<1>4. ASSUME NEW written \in SUBSET Leaving, Ends(Unpaid, pot, written)
      PROVE  Settles
  <2>1. Grows(Unpaid) /\ 0 + pot = pot
    BY <1>2, UnpaidGrows
  <2> QED
    BY <1>1, <1>2, <1>4, <2>1, NobodyGains, EndsSettle
<1>5. CASE UNCHANGED <<wallet, seat, hand, engine, complete, pot, credit, queued, leak>>
  BY <1>1, <1>5 DEF Stutters, Accounts, Holdings, Stack, UnderWay
<1> QED
  BY <1>3, <1>4, <1>5, HandEnds

-----------------------------------------------------------------------------
(* Each step is one of Ledger, or changes nothing it speaks of.            *)

LEMMA InitRefines == Init => Books!Init
<1> SUFFICES ASSUME Init PROVE Books!Init
  OBVIOUS
<1>1. \A u \in Users : Holdings(u) = Wallets[u]
  BY ChipsAssumption DEF Init, Holdings, Stack, UnderWay
<1> QED
  BY <1>1, ChipsAssumption DEF Init, Books!Init

LEMMA StutterRefines == ASSUME Stutters PROVE UNCHANGED Books!ledger
BY DEF Stutters, Accounts, Books!ledger

LEMMA SlipRefines == ASSUME NEW u \in Users, Slips(u) PROVE Books!Next
BY DEF Slips, Accounts, Books!Next, Books!Slip

LEMMA BetRefines == ASSUME NEW u \in Users, Bets(u) PROVE Books!Next
BY DEF Bets, Accounts, Books!Next, Books!Bet

LEMMA SettleRefines == ASSUME Settles PROVE Books!Next
<1>1. Books!Chips = SumOver(Accounts, Users)
  BY DEF Books!Chips, Books!MapThenSumSet, Books!MapThenFoldSet,
         SumOver, MapThenSumSet, MapThenFoldSet, Accounts
<1>2. Books!Chips' = SumOver(Accounts', Users)
  BY DEF Books!Chips, Books!MapThenSumSet, Books!MapThenFoldSet,
         SumOver, MapThenSumSet, MapThenFoldSet, Accounts
<1>3. Books!Settle
  BY <1>1, <1>2 DEF Settles, Accounts, Books!Settle
<1> QED
  BY <1>3 DEF Books!Next

LEMMA NextRefines == IInv /\ [Next]_vars => [Books!Next]_(Books!ledger)
<1> SUFFICES ASSUME IInv, [Next]_vars
             PROVE  [Books!Next]_(Books!ledger)
  OBVIOUS
<1>1. ASSUME NEW u \in Users, Act(u)
      PROVE  Books!Next \/ UNCHANGED Books!ledger
  <2>1. Stutters \/ Bets(u) \/ Slips(u)
    BY <1>1, ActAccounts
  <2> QED
    BY <2>1, StutterRefines, BetRefines, SlipRefines
<1>2. ASSUME NEW u \in Users, \/ Join(u) \/ DebitJoin(u) \/ Validate(u) \/ DebitRebuy(u)
                             \/ Rebuy(u) \/ DropRebuy(u) \/ TimeOut(u)
                             \/ Leave(u) \/ LeaveOfDeadChannel(u) \/ LeaveTimesOut(u)
                             \/ Reconnect(u) \/ Drop(u) \/ Credit(u)
      PROVE  Books!Next \/ UNCHANGED Books!ledger
  <2>1. Stutters \/ Slips(u)
    BY <1>2, JoinAccounts, DebitJoinAccounts, ValidateAccounts, DebitRebuyAccounts,
       RebuyAccounts, DropRebuyAccounts, TimeOutAccounts, LeaveAccounts,
       LeaveOfDeadChannelAccounts, LeaveTimesOutAccounts, ReconnectAccounts, DropAccounts,
       CreditAccounts
  <2> QED
    BY <2>1, StutterRefines, SlipRefines
<1>3. ASSUME StartHand
      PROVE  UNCHANGED Books!ledger
  BY <1>3, StartHandAccounts, StutterRefines
<1>4. ASSUME FinishHand
      PROVE  Books!Next \/ UNCHANGED Books!ledger
  BY <1>4, FinishHandAccounts, SettleRefines, StutterRefines
<1>5. ASSUME UNCHANGED vars
      PROVE  UNCHANGED Books!ledger
  <2>1. Stutters
    BY <1>5 DEF vars, Stutters, Accounts, Holdings, Stack, UnderWay
  <2> QED
    BY <2>1, StutterRefines
<1> QED
  BY <1>1, <1>2, <1>3, <1>4, <1>5 DEF Next

(* A room keeps the books of Ledger: whatever joins, rebuys, hands, leaves,*)
(* kicks, drops, reconnects and failed writes do in whatever order, chips  *)
(* move between accounts through the pot only, and every chip made or lost *)
(* is in the leak.                                                         *)
THEOREM RoomKeepsTheBooks == Spec => ImplementsLedger
BY InitRefines, NextRefines, Invariant, PTL DEF Spec, ImplementsLedger, Books!Spec
=============================================================================
