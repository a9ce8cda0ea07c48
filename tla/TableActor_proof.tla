-------------------------- MODULE TableActor_proof --------------------------
(***************************************************************************)
(* Proofs about a table and about the page of a player who wants a seat at *)
(* one.                                                                    *)
(*                                                                         *)
(* TableActor, for any users, however many of them join, leave, drop and   *)
(* are kicked: its clocks, the ends of its hands and its seats (RoomInv).  *)
(*                                                                         *)
(* TablePage, for any rooms, messages under way, buy-ins and lost          *)
(* connections, by PageInv.  That a player without a room is asked for a   *)
(* buy-in cannot be seen from what the page shows, since an effect runs    *)
(* only when one of its dependencies changed.  Inductive is Asked: the     *)
(* question is there whenever the effect that asks it has run for what the *)
(* page holds, the joining effect before the player joined and the rebuy   *)
(* effect after, unless an answer Not seated has its own effect due.  An   *)
(* event then keeps it (it changes a dependency, or brings a room, or the  *)
(* answer Not seated, which is news), and so does a pass of the effects    *)
(* (EffectsPass says what the four of them come to).                       *)
(***************************************************************************)
EXTENDS TableActor, TablePage, FiniteSetTheorems, SequenceTheorems, WellFoundedInduction, TLAPS

Rosters == [Users -> Seats \cup {Absent}]

(* The turn and its clock, the hand and its end.                           *)
Clocks == TurnIsTimed /\ ClockIsForTurn /\ EndIsScheduled

(* Who is dealt in is known to the hand and seated: a leave takes off the  *)
(* table only users the hand does not know.                                *)
DealtAreThere == hand # NoHand => hand.dealt \subseteq hand.there
Members == LeaversAreInTheHand /\ WinnersAreSeated /\ DealtAreThere

RoomInv == TypeOK /\ Clocks /\ Members

-----------------------------------------------------------------------------
(* An engine call changes neither who was dealt in nor whom the hand knows.*)
LEMMA EngineKeeps ==
  ASSUME NEW h \in Hands, NEW g \in EngineResults(h)
  PROVE  g \in Hands /\ g.dealt = h.dealt /\ g.there = h.there
<1> DEFINE calls == IF h.left = 0 THEN 0 ELSE h.left - 1
           may   == IF Cardinality(h.live) <= 1 \/ h.left = 0 THEN {}
                    ELSE h.live \ h.allIn
<1>1. h.left \in 0 .. MaxCalls /\ h.live \subseteq Users
  BY DEF Hands
<1>2. calls \in 0 .. MaxCalls
  BY <1>1, BoundsAssumption
<1>3. may \subseteq Users
  BY <1>1
<1>4. PICK t \in may \cup {Nobody} : g = [h EXCEPT !.turn = t, !.left = calls]
  BY Zenon DEF EngineResults
<1> HIDE DEF calls, may
<1> QED
  BY <1>2, <1>3, <1>4 DEF Hands

(* After check_hand_completion the turn has its clock, or the end of the   *)
(* hand is scheduled.                                                      *)
LEMMA ProceedInv ==
  ASSUME NEW h \in Hands, NEW ps, NEW d \in SUBSET Users,
         reveals \in 0 .. MaxReveals, Proceed(h, ps, d)
  PROVE  /\ hand' = h /\ Clocks'
         /\ clock' \in Users \cup {Nobody} /\ due' \subseteq Users
         /\ reveals' \in 0 .. MaxReveals
<1>1. h # NoHand /\ h.turn \in Users \cup {Nobody}
  BY NamesAssumption DEF Hands
<1>2. hand' = h
  BY DEF Proceed
<1>3. /\ reveals' \in 0 .. MaxReveals
      /\ Complete(h) => reveals' > 0
  BY BoundsAssumption DEF Proceed, MoreReveals
<1>4. EndIsScheduled'
  BY <1>2, <1>3 DEF EndIsScheduled, Complete
<1>5. CASE MayBeSet(h, ps)
  <2>1. clock' = h.turn /\ due' = d /\ h.turn # Nobody
    BY <1>5 DEF Proceed, MayBeSet, Complete
  <2> QED
    BY <1>1, <1>2, <1>3, <1>4, <2>1
       DEF Clocks, TurnIsTimed, ClockIsForTurn, Running, Complete
<1>6. CASE ~MayBeSet(h, ps)
  <2>1. clock' = Nobody /\ due' = IF Complete(h) THEN d ELSE d \cup {h.turn}
    BY <1>6 DEF Proceed
  <2> QED
    BY <1>1, <1>2, <1>3, <1>4, <2>1
       DEF Clocks, TurnIsTimed, ClockIsForTurn, Running, Complete
<1> QED
  BY <1>5, <1>6

(* start_new_hand with nobody leaving: a hand that is dealt waits for a    *)
(* user who has a clock, and knows everybody seated.                       *)
LEMMA StartHandInv ==
  ASSUME NEW ps \in Rosters, Leaving(ps) = {}, StartHand(ps)
  PROVE  /\ players' = ps /\ hand' \in Hands \cup {NoHand}
         /\ clock' \in Users \cup {Nobody}
         /\ Clocks' /\ Members'
<1>1. players' = ps
  BY DEF StartHand
<1>2. LeaversAreInTheHand'
  BY <1>1 DEF LeaversAreInTheHand, Leaving, Seated
<1>3. CASE hand' = NoHand /\ clock' = Nobody
  BY <1>1, <1>2, <1>3 DEF Clocks, Members, TurnIsTimed, ClockIsForTurn,
     EndIsScheduled, WinnersAreSeated, DealtAreThere, Running
<1>4. CASE ~(hand' = NoHand /\ clock' = Nobody)
  <2>1. PICK dealt \in SUBSET Eligible(ps), posters \in SUBSET Eligible(ps),
             t \in Users :
          /\ hand' = [dealt |-> dealt, there |-> Seated(ps), live |-> dealt,
                      allIn |-> posters, turn |-> t, left |-> MaxCalls]
          /\ clock' = t
    BY <1>4 DEF StartHand
  <2>2. Eligible(ps) \subseteq Seated(ps) /\ Seated(ps) \subseteq Users
    BY DEF Eligible, Seated
  <2>3. hand' \in Hands /\ hand' # NoHand
    BY <2>1, <2>2, BoundsAssumption, NamesAssumption DEF Hands
  <2>4. hand'.turn = t /\ hand'.dealt = dealt /\ hand'.there = Seated(ps)
    BY <2>1
  <2>5. t # Nobody
    BY MoversAssumption
  <2>6. Clocks'
    BY <2>1, <2>3, <2>4, <2>5
       DEF Clocks, TurnIsTimed, ClockIsForTurn, EndIsScheduled, Running, Complete
  <2>7. WinnersAreSeated' /\ DealtAreThere'
    BY <1>1, <2>2, <2>4 DEF WinnersAreSeated, DealtAreThere, Seated
  <2> QED
    BY <1>1, <1>2, <2>1, <2>3, <2>6, <2>7 DEF Members
<1> QED
  BY <1>3, <1>4

(* Nothing about the hand and its clocks changes.                          *)
LEMMA ClocksKept ==
  ASSUME TypeOK, Clocks, UNCHANGED <<hand, clock, due, reveals>>
  PROVE  /\ Clocks' /\ hand' \in Hands \cup {NoHand}
         /\ clock' \in Users \cup {Nobody} /\ due' \subseteq Users
         /\ reveals' \in 0 .. MaxReveals
BY DEF TypeOK, Clocks, TurnIsTimed, ClockIsForTurn, EndIsScheduled, Running, Complete

-----------------------------------------------------------------------------
(* Without a hand nobody is leaving.                                       *)
LEMMA NobodyLeaves ==
  ASSUME RoomInv, hand = NoHand
  PROVE  Leaving(players) = {}
BY DEF RoomInv, Members, LeaversAreInTheHand, HeldByHand, Leaving, Seated

LEMMA FreshSeatType == FreshSeat \in Seats /\ FreshSeat # Absent /\ ~FreshSeat.leaving
<1>1. FreshSeat \in Seats /\ ~FreshSeat.leaving
  BY DEF FreshSeat, Seats
<1> QED
  BY <1>1, NamesAssumption

LEMMA InitRoom == Init => RoomInv
<1> SUFFICES ASSUME Init PROVE RoomInv
  OBVIOUS
<1>1. TypeOK
  BY FreshSeatType, BoundsAssumption DEF Init, TypeOK, Sockets
<1>2. Clocks
  BY DEF Init, Clocks, TurnIsTimed, ClockIsForTurn, EndIsScheduled, Running
<1>3. Members
  BY FreshSeatType DEF Init, Members, LeaversAreInTheHand, WinnersAreSeated,
     DealtAreThere, Leaving, Seated
<1> QED
  BY <1>1, <1>2, <1>3 DEF RoomInv

-----------------------------------------------------------------------------
(* The commands of a connected player.                                     *)
LEMMA JoinInv ==
  ASSUME RoomInv, NEW u \in Users, Join(u)
  PROVE  RoomInv'
<1> DEFINE ps == [players EXCEPT ![u] = FreshSeat]
<1>1. TypeOK /\ Clocks /\ Members
  BY DEF RoomInv
<1>2. ps \in Rosters /\ ps[u] = FreshSeat /\ \A v \in Users \ {u} : ps[v] = players[v]
  BY <1>1, FreshSeatType DEF TypeOK, Rosters
<1>3. /\ players[u] = Absent /\ asked' = asked /\ reveals' = reveals
      /\ connects' \in 0 .. MaxConnects
      /\ socket' \in [Users -> Sockets]
  BY <1>1, BoundsAssumption DEF Join, TypeOK, Sockets
<1>4. CASE Cardinality(Seated(ps)) >= 2 /\ hand = NoHand
  <2>1. StartHand(ps) /\ due' = due
    BY <1>4 DEF Join
  <2>2. Leaving(ps) = {}
    BY <1>2, <1>4, NobodyLeaves, FreshSeatType DEF Leaving, Seated
  <2> HIDE DEF ps
  <2>3. /\ players' = ps /\ hand' \in Hands \cup {NoHand}
        /\ clock' \in Users \cup {Nobody} /\ Clocks' /\ Members'
    BY <1>2, <2>1, <2>2, StartHandInv
  <2> QED
    BY <1>1, <1>2, <1>3, <2>1, <2>3 DEF RoomInv, TypeOK, Rosters
<1>5. CASE ~(Cardinality(Seated(ps)) >= 2 /\ hand = NoHand)
  <2>1. players' = ps /\ UNCHANGED <<hand, clock, due, reveals>>
    BY <1>3, <1>5 DEF Join
  <2>2. Members'
    BY <1>1, <1>2, <2>1, FreshSeatType DEF Members, LeaversAreInTheHand, WinnersAreSeated,
       DealtAreThere, HeldByHand, Leaving, Seated
  <2> QED
    BY <1>1, <1>2, <1>3, <2>1, <2>2, ClocksKept DEF RoomInv, TypeOK, Rosters
<1> QED
  BY <1>4, <1>5

LEMMA ReconnectInv ==
  ASSUME RoomInv, NEW u \in Users, Reconnect(u)
  PROVE  RoomInv'
<1>1. TypeOK /\ Clocks /\ Members
  BY DEF RoomInv
<1>2. UNCHANGED <<hand, clock, due, reveals, asked>>
  BY DEF Reconnect
<1>3. /\ players' \in Rosters
      /\ \A v \in Users : v # u => players'[v] = players[v]
      /\ players'[u] = IF players[u] = Absent THEN Absent ELSE FreshSeat
  BY <1>1, FreshSeatType DEF Reconnect, TypeOK, Rosters
<1>4. connects' \in 0 .. MaxConnects /\ socket' \in [Users -> Sockets]
  BY <1>1, BoundsAssumption DEF Reconnect, TypeOK, Sockets
<1>5. Members'
  BY <1>1, <1>2, <1>3, FreshSeatType DEF Members, LeaversAreInTheHand, WinnersAreSeated,
     DealtAreThere, HeldByHand, Leaving, Seated
<1> QED
  BY <1>1, <1>2, <1>3, <1>4, <1>5, ClocksKept DEF RoomInv, TypeOK, Rosters

LEMMA SitOutInv ==
  ASSUME RoomInv, NEW u \in Users, SitOut(u)
  PROVE  RoomInv'
<1>1. TypeOK /\ Clocks /\ Members
  BY DEF RoomInv
<1>2. UNCHANGED <<hand, clock, due, reveals, socket, asked, connects>> /\ players[u] # Absent
  BY DEF SitOut
<1>3. players[u] \in Seats /\ players' = [players EXCEPT ![u].out = ~@]
  BY <1>1, <1>2 DEF SitOut, TypeOK
<1>4. [players[u] EXCEPT !.out = ~@] \in Seats /\ [players[u] EXCEPT !.out = ~@].leaving = players[u].leaving
  BY <1>3 DEF Seats
<1>5. /\ players' \in Rosters
      /\ \A v \in Users : v # u => players'[v] = players[v]
      /\ players'[u] \in Seats /\ players'[u].leaving = players[u].leaving
  BY <1>1, <1>3, <1>4 DEF TypeOK, Rosters
<1>6. Members'
  BY <1>1, <1>2, <1>5, NamesAssumption DEF Members, LeaversAreInTheHand, WinnersAreSeated,
     DealtAreThere, HeldByHand, Leaving, Seated
<1> QED
  BY <1>1, <1>2, <1>5, <1>6, ClocksKept DEF RoomInv, TypeOK, Rosters

(* An engine call of the current hand, by an action or a timeout.          *)
LEMMA CallInv ==
  ASSUME RoomInv, hand # NoHand,
         NEW g \in Hands, g.dealt = hand.dealt, g.there = hand.there,
         NEW h \in EngineResults(g), NEW ps \in Rosters, NEW d \in SUBSET Users,
         Proceed(h, ps, d), players' = ps,
         \A u \in Users : /\ (players[u] = Absent) = (ps[u] = Absent)
                          /\ ps[u] # Absent /\ ps[u].leaving
                                => players[u].leaving \/ u \in hand.there,
         UNCHANGED <<socket, asked, connects>>
  PROVE  RoomInv'
<1>1. TypeOK /\ Clocks /\ Members
  BY DEF RoomInv
<1>2. h \in Hands /\ h.dealt = hand.dealt /\ h.there = hand.there
  BY EngineKeeps
<1>3. /\ hand' = h /\ Clocks'
      /\ clock' \in Users \cup {Nobody} /\ due' \subseteq Users
      /\ reveals' \in 0 .. MaxReveals
  BY <1>1, <1>2, ProceedInv DEF TypeOK
<1>4. h # NoHand
  BY <1>2, NamesAssumption
<1>5. Members'
  BY <1>1, <1>2, <1>3, <1>4 DEF Members, LeaversAreInTheHand, WinnersAreSeated,
     DealtAreThere, HeldByHand, Leaving, Seated
<1> QED
  BY <1>1, <1>2, <1>3, <1>5 DEF RoomInv, TypeOK, Rosters

LEMMA ActInv ==
  ASSUME RoomInv, NEW u \in Users, Act(u)
  PROVE  RoomInv'
<1>1. TypeOK /\ hand \in Hands /\ hand # NoHand
  BY DEF RoomInv, TypeOK, Act, Running
<1>2. PICK kind \in {"fold", "stay", "all-in"} :
        \E h \in EngineResults(
                   [hand EXCEPT !.live  = IF kind = "fold" THEN @ \ {u} ELSE @,
                                !.allIn = IF kind = "all-in" THEN @ \cup {u} ELSE @]) :
          Proceed(h, players, due)
  BY DEF Act
<1> DEFINE live  == IF kind = "fold" THEN hand.live \ {u} ELSE hand.live
           allIn == IF kind = "all-in" THEN hand.allIn \cup {u} ELSE hand.allIn
           g     == [hand EXCEPT !.live = live, !.allIn = allIn]
<1>3. live \subseteq Users /\ allIn \subseteq Users
  BY <1>1 DEF Hands
<1>4. PICK h \in EngineResults(g) : Proceed(h, players, due)
  BY <1>2, Zenon
<1> HIDE DEF live, allIn
<1>5. g \in Hands /\ g.dealt = hand.dealt /\ g.there = hand.there
  BY <1>1, <1>3 DEF Hands
<1>6. UNCHANGED <<players, socket, asked, connects>> /\ players \in Rosters /\ due \in SUBSET Users
  BY <1>1 DEF Act, TypeOK, Rosters
<1> HIDE DEF g
<1> QED
  BY <1>1, <1>4, <1>5, <1>6, CallInv

LEMMA StartHandCommandInv ==
  ASSUME RoomInv, NEW u \in Users, StartHandCommand(u)
  PROVE  RoomInv'
<1>1. TypeOK /\ players \in Rosters
  BY DEF RoomInv, TypeOK, Rosters
<1>2. hand = NoHand /\ StartHand(players) /\ UNCHANGED <<due, reveals, socket, asked, connects>>
  BY DEF StartHandCommand
<1>3. /\ players' = players /\ hand' \in Hands \cup {NoHand}
      /\ clock' \in Users \cup {Nobody} /\ Clocks' /\ Members'
  BY <1>1, <1>2, NobodyLeaves, StartHandInv
<1> QED
  BY <1>1, <1>2, <1>3 DEF RoomInv, TypeOK

-----------------------------------------------------------------------------
(* Leaving.  The steps of leave_player_inner change the room at one user.  *)
LEMMA RemovedInv ==
  ASSUME RoomInv, NEW u \in Users, ~HeldByHand(u),
         players' = [players EXCEPT ![u] = Absent],
         socket' = [socket EXCEPT ![u] = "none"],
         UNCHANGED <<hand, clock, due, reveals>>,
         asked' \subseteq Users, UNCHANGED connects
  PROVE  RoomInv'
<1>1. TypeOK /\ Clocks /\ Members
  BY DEF RoomInv
<1>2. /\ players' \in Rosters /\ players'[u] = Absent
      /\ \A v \in Users : v # u => players'[v] = players[v]
  BY <1>1 DEF TypeOK, Rosters
<1>3. socket' \in [Users -> Sockets]
  BY <1>1 DEF TypeOK, Sockets
<1>4. Members'
  BY <1>1, <1>2 DEF Members, LeaversAreInTheHand, WinnersAreSeated,
     DealtAreThere, HeldByHand, Leaving, Seated
<1> QED
  BY <1>1, <1>2, <1>3, <1>4, ClocksKept DEF RoomInv, TypeOK, Rosters

LEMMA DeferredInv ==
  ASSUME RoomInv, NEW u \in Users, NEW force \in BOOLEAN, HeldByHand(u),
         players[u] # Absent, Deferred(u, force),
         asked' \subseteq Users, UNCHANGED connects
  PROVE  RoomInv'
<1> DEFINE ps == [players EXCEPT ![u].leaving = TRUE]
<1>1. /\ TypeOK /\ Clocks /\ Members
      /\ hand \in Hands /\ hand # NoHand /\ u \in hand.there
  BY DEF RoomInv, TypeOK, HeldByHand
<1>2. players[u] \in Seats
  BY <1>1 DEF TypeOK
<1>3. [players[u] EXCEPT !.leaving = TRUE] \in Seats
  BY <1>2 DEF Seats
<1>4. /\ ps \in Rosters /\ ps[u] # Absent
      /\ \A v \in Users : v # u => ps[v] = players[v]
  BY <1>1, <1>2, <1>3, NamesAssumption DEF TypeOK, Rosters
<1>5. players' = ps /\ UNCHANGED socket
  BY DEF Deferred
<1> HIDE DEF ps
<1>7. ASSUME hand' \in Hands, hand'.dealt = hand.dealt, hand'.there = hand.there
      PROVE  Members'
  BY <1>1, <1>4, <1>5, <1>7, NamesAssumption DEF Members, LeaversAreInTheHand,
     WinnersAreSeated, DealtAreThere, HeldByHand, Leaving, Seated
<1>8. CASE ~force
  <2>1. UNCHANGED <<hand, clock, due, reveals>>
    BY <1>8 DEF Deferred
  <2> QED
    BY <1>1, <1>4, <1>5, <1>7, <2>1, ClocksKept DEF RoomInv, TypeOK, Rosters
<1>9. CASE force
  <2> DEFINE g == [hand EXCEPT !.live = @ \ {u}]
  <2>1. g \in Hands /\ g.dealt = hand.dealt /\ g.there = hand.there
    BY <1>1 DEF Hands
  <2>2. PICK h \in IF u \in hand.live \ hand.allIn /\ ~Complete(hand)
                   THEN EngineResults(g) ELSE {hand} : Proceed(h, ps, due)
    BY <1>9, Zenon DEF Deferred, ps
  <2> HIDE DEF g
  <2>3. h \in Hands /\ h.dealt = hand.dealt /\ h.there = hand.there
    BY <1>1, <2>1, <2>2, EngineKeeps
  <2>4. /\ hand' = h /\ Clocks'
        /\ clock' \in Users \cup {Nobody} /\ due' \subseteq Users
        /\ reveals' \in 0 .. MaxReveals
    BY <1>1, <2>2, <2>3, ProceedInv DEF TypeOK
  <2> QED
    BY <1>1, <1>4, <1>5, <1>7, <2>3, <2>4 DEF RoomInv, TypeOK, Rosters
<1> QED
  BY <1>8, <1>9

LEMMA LeaveInv ==
  ASSUME RoomInv, NEW u \in Users, NEW force \in BOOLEAN, NEW bypass \in BOOLEAN,
         Leave(u, force, bypass), asked' \subseteq Users, UNCHANGED connects
  PROVE  RoomInv'
<1>1. TypeOK /\ Clocks /\ Members
  BY DEF RoomInv
<1>2. CASE UNCHANGED <<players, hand, clock, due, reveals>> /\ socket' \in [Users -> Sockets]
  <2>1. Members'
    BY <1>1, <1>2 DEF Members, LeaversAreInTheHand, WinnersAreSeated,
       DealtAreThere, HeldByHand, Leaving, Seated
  <2> QED
    BY <1>1, <1>2, <2>1, ClocksKept DEF RoomInv, TypeOK
<1>3. CASE players[u] # Absent /\ HeldByHand(u) /\ Deferred(u, force)
  BY <1>3, DeferredInv
<1>4. CASE /\ ~HeldByHand(u)
           /\ players' = [players EXCEPT ![u] = Absent]
           /\ socket' = [socket EXCEPT ![u] = "none"]
           /\ UNCHANGED <<hand, clock, due, reveals>>
  BY <1>4, RemovedInv
<1>5. socket \in [Users -> Sockets] /\ [socket EXCEPT ![u] = "none"] \in [Users -> Sockets]
  BY <1>1 DEF TypeOK, Sockets
<1> QED
  BY <1>2, <1>3, <1>4, <1>5 DEF Leave

(* What an action outside the actor's state may touch.                     *)
LEMMA OutsideInv ==
  ASSUME RoomInv, UNCHANGED <<players, hand, clock, due, reveals, connects>>,
         asked' \subseteq Users, socket' \in [Users -> Sockets]
  PROVE  RoomInv'
<1>1. TypeOK /\ Clocks /\ Members
  BY DEF RoomInv
<1>2. Members'
  BY <1>1 DEF Members, LeaversAreInTheHand, WinnersAreSeated,
     DealtAreThere, HeldByHand, Leaving, Seated
<1> QED
  BY <1>1, <1>2, ClocksKept DEF RoomInv, TypeOK

-----------------------------------------------------------------------------
(* Timers and the end of a hand.                                           *)
LEMMA TimerFiresInv ==
  ASSUME RoomInv, TimerFires
  PROVE  RoomInv'
<1>1. TypeOK /\ Clocks /\ Members
  BY DEF RoomInv
<1>2. /\ clock # Nobody /\ due' = due \cup {clock} /\ clock' = Nobody
      /\ UNCHANGED <<players, hand, reveals, socket, asked, connects>>
  BY DEF TimerFires
<1>3. Clocks'
  BY <1>1, <1>2 DEF Clocks, TurnIsTimed, ClockIsForTurn, EndIsScheduled, Running, Complete
<1>4. Members'
  BY <1>1, <1>2 DEF Members, LeaversAreInTheHand, WinnersAreSeated,
     DealtAreThere, HeldByHand, Leaving, Seated
<1> QED
  BY <1>1, <1>2, <1>3, <1>4 DEF RoomInv, TypeOK

LEMMA TimeoutInv ==
  ASSUME RoomInv, NEW u \in Users, Timeout(u)
  PROVE  RoomInv'
<1>1. TypeOK /\ Clocks /\ Members
  BY DEF RoomInv
<1>2. UNCHANGED <<players, socket, asked, connects>> /\ players \in Rosters
  BY <1>1 DEF Timeout, TypeOK, Rosters
<1>3. CASE Running /\ hand.turn = u
  <2> DEFINE g == [hand EXCEPT !.live = @ \ {u}]
  <2>1. hand \in Hands /\ hand # NoHand
    BY <1>1, <1>3 DEF TypeOK, Running
  <2>2. g \in Hands /\ g.dealt = hand.dealt /\ g.there = hand.there
    BY <2>1 DEF Hands
  <2>3. PICK h \in EngineResults(g) : Proceed(h, players, due \ {u})
    BY <1>3, Zenon DEF Timeout
  <2> HIDE DEF g
  <2>4. due \ {u} \in SUBSET Users
    BY <1>1 DEF TypeOK
  <2> QED
    BY <1>2, <2>1, <2>2, <2>3, <2>4, CallInv
<1>4. CASE ~(Running /\ hand.turn = u)
  <2>1. due' = due \ {u} /\ UNCHANGED <<hand, clock, reveals>>
    BY <1>4 DEF Timeout
  <2>2. Clocks'
    BY <1>1, <1>4, <2>1 DEF Clocks, TurnIsTimed, ClockIsForTurn, EndIsScheduled, Running, Complete
  <2>3. Members'
    BY <1>1, <1>2, <2>1 DEF Members, LeaversAreInTheHand, WinnersAreSeated,
       DealtAreThere, HeldByHand, Leaving, Seated
  <2> QED
    BY <1>1, <1>2, <2>1, <2>2, <2>3 DEF RoomInv, TypeOK
<1> QED
  BY <1>3, <1>4

LEMMA FinishHandInv ==
  ASSUME RoomInv, FinishHand
  PROVE  RoomInv'
<1>1. TypeOK /\ Clocks /\ Members
  BY DEF RoomInv
<1>2. /\ UNCHANGED <<asked, connects>> /\ reveals > 0 /\ reveals' = reveals - 1
      /\ reveals' \in 0 .. MaxReveals
  BY <1>1, BoundsAssumption DEF FinishHand, TypeOK
<1>3. CASE hand = NoHand
  <2>1. UNCHANGED <<players, hand, clock, due, socket>>
    BY <1>3 DEF FinishHand
  <2>2. Clocks' /\ Members'
    BY <1>1, <1>3, <2>1 DEF Clocks, TurnIsTimed, ClockIsForTurn, EndIsScheduled, Running,
       Complete, Members, LeaversAreInTheHand, WinnersAreSeated, DealtAreThere, HeldByHand,
       Leaving, Seated
  <2> QED
    BY <1>1, <1>2, <2>1, <2>2 DEF RoomInv, TypeOK
<1>4. CASE hand # NoHand
  <2> DEFINE ps == Cleared(players)
  <2>1. /\ StartHand(ps)
        /\ due' = IF clock = Nobody THEN due ELSE due \cup {clock}
        /\ socket' = [u \in Users |-> IF u \in Leaving(players) THEN "none" ELSE socket[u]]
    BY <1>4 DEF FinishHand
  <2>2. ps \in Rosters /\ Leaving(ps) = {}
    BY <1>1 DEF TypeOK, Rosters, Cleared, Leaving, Seated
  <2> HIDE DEF ps
  <2>3. /\ players' = ps /\ hand' \in Hands \cup {NoHand}
        /\ clock' \in Users \cup {Nobody} /\ Clocks' /\ Members'
    BY <2>1, <2>2, StartHandInv
  <2>4. due' \subseteq Users /\ socket' \in [Users -> Sockets]
    BY <1>1, <2>1 DEF TypeOK, Sockets
  <2> QED
    BY <1>1, <1>2, <2>2, <2>3, <2>4 DEF RoomInv, TypeOK, Rosters
<1> QED
  BY <1>3, <1>4

-----------------------------------------------------------------------------
LEMMA NextRoom == RoomInv /\ [Next]_vars => RoomInv'
<1> SUFFICES ASSUME RoomInv, [Next]_vars PROVE RoomInv'
  OBVIOUS
<1>1. TypeOK /\ asked \subseteq Users /\ socket \in [Users -> Sockets]
  BY DEF RoomInv, TypeOK
<1>2. CASE UNCHANGED vars
  BY <1>1, <1>2, OutsideInv DEF vars
<1>3. CASE TimerFires
  BY <1>3, TimerFiresInv
<1>4. CASE FinishHand
  BY <1>4, FinishHandInv
<1>5. ASSUME NEW u \in Users, Join(u) \/ Reconnect(u) \/ Act(u) \/ SitOut(u)
                             \/ StartHandCommand(u) \/ Timeout(u)
      PROVE  RoomInv'
  BY <1>5, JoinInv, ReconnectInv, ActInv, SitOutInv, StartHandCommandInv, TimeoutInv
<1>6. ASSUME NEW u \in Users, LeaveAsked(u) \/ LeaveUnforced(u) \/ Kick(u)
                             \/ LeaveOfDeadChannel(u)
      PROVE  RoomInv'
  <2>1. /\ asked' \subseteq Users /\ UNCHANGED connects
        /\ \E force, bypass \in BOOLEAN : Leave(u, force, bypass)
    BY <1>1, <1>6 DEF LeaveAsked, LeaveUnforced, Kick, LeaveOfDeadChannel
  <2> QED
    BY <2>1, LeaveInv
<1>7. ASSUME NEW u \in Users, AskToLeave(u) \/ CloseSocket(u) \/ DropReceiver(u)
      PROVE  RoomInv'
  <2>1. /\ UNCHANGED <<players, hand, clock, due, reveals, connects>>
        /\ asked' \subseteq Users /\ socket' \in [Users -> Sockets]
    BY <1>1, <1>7 DEF AskToLeave, CloseSocket, DropReceiver, Sockets
  <2> QED
    BY <2>1, OutsideInv
<1> QED
  BY <1>2, <1>3, <1>4, <1>5, <1>6, <1>7 DEF Next

(* The inductive invariant holds in every state of the room.               *)
THEOREM RoomInvariant == Spec => []RoomInv
BY InitRoom, NextRoom, PTL DEF Spec

(* A hand that waits for a user always has a clock on that turn, for any   *)
(* users and any interleaving of joins, leaves, kicks and timeouts         *)
(* (schedule_timeout, check_hand_completion).                              *)
THEOREM TurnsAreTimed == Spec => []TurnIsTimed
<1>1. RoomInv => TurnIsTimed
  BY DEF RoomInv, Clocks
<1> QED
  BY <1>1, RoomInvariant, PTL

(* No timer of an earlier turn runs on: every call aborts it.              *)
THEOREM ClocksAreForTurns == Spec => []ClockIsForTurn
<1>1. RoomInv => ClockIsForTurn
  BY DEF RoomInv, Clocks
<1> QED
  BY <1>1, RoomInvariant, PTL

(* The end of a complete hand is always under way (ShowdownComplete).      *)
THEOREM EndsAreScheduled == Spec => []EndIsScheduled
<1>1. RoomInv => EndIsScheduled
  BY DEF RoomInv, Clocks
<1> QED
  BY <1>1, RoomInvariant, PTL

(* Nobody is left marked as leaving outside a hand (leave_player_inner).   *)
THEOREM LeaversAreHeld == Spec => []LeaversAreInTheHand
<1>1. RoomInv => LeaversAreInTheHand
  BY DEF RoomInv, Members
<1> QED
  BY <1>1, RoomInvariant, PTL

(* Whoever was dealt in is seated until the hand is over, so that          *)
(* process_winners finds him.                                              *)
THEOREM WinnersStaySeated == Spec => []WinnersAreSeated
<1>1. RoomInv => WinnersAreSeated
  BY DEF RoomInv, Members
<1> QED
  BY <1>1, RoomInvariant, PTL

-----------------------------------------------------------------------------
(* What the page of a player holds.                                        *)
OneEach(rooms) == \A i, k \in DOMAIN rooms : rooms[i].id = rooms[k].id => i = k

WellFormed(p) == p \in Pages /\ OneEach(p.rooms)

Notes ==
  [type : {"TableState"}, room : Rooms, me : {"none", "chips", "broke"}, inHand : BOOLEAN]
    \cup [type : {"Connected", "RoomAssigned"}, room : Rooms]
    \cup [type : {"Not seated"}, room : Rooms \cup {NoRoom}]

(* The answer Not seated has an effect due.                                *)
NotSeatedDue == page.notSeated /\ ~page.isJoining /\ seen[2] # NotSeatedDeps(page)

Alone == page.online /\ page.rooms = << >> /\ ~page.isJoining /\ ~NotSeatedDue

PageTypes ==
  /\ WellFormed(page) /\ down \in Seq(Notes) /\ listed \subseteq Rooms
  /\ seat \in [Rooms -> {"none", "chips", "broke"}] /\ inHand \in [Rooms -> BOOLEAN]

(* The question is there when the effect that asks it ran for what the     *)
(* page holds: the joining effect before the player joined, the rebuy      *)
(* effect after.                                                           *)
Asked ==
  /\ seen # << >> /\ seen[3] = JoinDeps(page) /\ Alone /\ ~page.hasJoined
       => page.dialog \/ excused
  /\ seen # << >> /\ seen[4] = RebuyDeps(page) /\ Alone /\ page.hasJoined
       => page.dialog \/ excused

(* A page that waits for a seat asks for nothing but one more table.       *)
Patient == page.isJoining /\ ~left => page.hasJoined /\ (page.dialog => page.adding)

PageInv ==
  mode = "play" => /\ PageTypes
                   /\ route = "here" => Asked
                   /\ Patient
                   /\ page.adding => page.dialog

-----------------------------------------------------------------------------
LEMMA FirstPlace ==
  ASSUME NEW T \in SUBSET Nat, T # {}
  PROVE  \E x \in T : \A y \in T : x <= y
<1>1. IsWellFoundedOn({p \in Nat \X Nat : p[1] < p[2]}, Nat)
  BY NatLessThanWellFounded, Zenon DEF OpToRel
<1>2. PICK x \in T : \A y \in T : <<y, x>> \notin {p \in Nat \X Nat : p[1] < p[2]}
  BY <1>1, WFMin, Zenon
<1>3. ASSUME NEW y \in T PROVE x <= y
  <2>1. <<y, x>> \in Nat \X Nat /\ <<y, x>>[1] = y /\ <<y, x>>[2] = x
    OBVIOUS
  <2>2. ~(<<y, x>>[1] < <<y, x>>[2])
    BY <1>2, <2>1, Zenon
  <2> QED
    BY <2>1, <2>2
<1> QED
  BY <1>3

(* The store.                                                              *)
LEMMA PlaceOfRoom ==
  ASSUME NEW p, NEW id, Holds(p, id)
  PROVE  Place(p, id) \in DOMAIN p.rooms /\ p.rooms[Place(p, id)].id = id
BY DEF Holds, Place

LEMMA Removed ==
  ASSUME NEW S, NEW s \in Seq(S), NEW k \in 1 .. Len(s)
  PROVE  /\ RemoveAt(s, k) \in Seq(S) /\ Len(RemoveAt(s, k)) = Len(s) - 1
         /\ DOMAIN RemoveAt(s, k) = 1 .. Len(s) - 1
         /\ \A i \in 1 .. Len(s) - 1 :
              \/ i < k /\ RemoveAt(s, k)[i] = s[i]
              \/ ~(i < k) /\ RemoveAt(s, k)[i] = s[i + 1]
<1> DEFINE a == SubSeq(s, 1, k - 1)
           b == SubSeq(s, k + 1, Len(s))
           r == RemoveAt(s, k)
           n == Len(s)
<1>1. n \in Nat /\ k \in Int /\ 1 <= k /\ k <= n /\ \A i \in 1 .. n : s[i] \in S
  OBVIOUS
<1>2. r = a \o b
  BY DEF RemoveAt
<1> HIDE DEF n, r
<1>3. a \in Seq(S) /\ Len(a) = k - 1 /\ \A i \in 1 .. k - 1 : a[i] = s[i]
  <2>1. 1 \in Int /\ k - 1 \in Int /\ \A i \in 1 .. k - 1 : s[i] \in S
    BY <1>1
  <2>2. /\ a \in Seq(S) /\ Len(a) = IF 1 <= k - 1 THEN (k - 1) - 1 + 1 ELSE 0
        /\ \A i \in 1 .. (k - 1) - 1 + 1 : a[i] = s[1 + i - 1]
    BY ONLY <2>1, SubSeqProperties
  <2> HIDE DEF a
  <2>3. \A i \in 1 .. k - 1 : i \in 1 .. (k - 1) - 1 + 1 /\ 1 + i - 1 = i
    BY <1>1
  <2>4. Len(a) = k - 1
    BY <1>1, <2>2
  <2> QED
    BY <2>2, <2>3, <2>4
<1>4. b \in Seq(S) /\ Len(b) = n - k /\ \A i \in 1 .. n - k : b[i] = s[i + k]
  <2>1. k + 1 \in Int /\ Len(s) \in Int /\ \A i \in k + 1 .. Len(s) : s[i] \in S
    BY <1>1 DEF n
  <2>2. /\ b \in Seq(S) /\ Len(b) = IF k + 1 <= Len(s) THEN Len(s) - (k + 1) + 1 ELSE 0
        /\ \A i \in 1 .. Len(s) - (k + 1) + 1 : b[i] = s[(k + 1) + i - 1]
    BY ONLY <2>1, SubSeqProperties
  <2> HIDE DEF b
  <2>3. /\ Len(b) = IF k + 1 <= n THEN n - (k + 1) + 1 ELSE 0
        /\ \A i \in 1 .. n - (k + 1) + 1 : b[i] = s[(k + 1) + i - 1]
    BY <2>2 DEF n
  <2>4. \A i \in 1 .. n - k : i \in 1 .. n - (k + 1) + 1 /\ (k + 1) + i - 1 = i + k
    BY <1>1
  <2>5. Len(b) = n - k
    BY <1>1, <2>3
  <2> QED
    BY <2>2, <2>3, <2>4, <2>5
<1> HIDE DEF a, b
<1>5. /\ r \in Seq(S) /\ Len(r) = Len(a) + Len(b)
      /\ \A i \in 1 .. Len(a) + Len(b) : r[i] = IF i <= Len(a) THEN a[i] ELSE b[i - Len(a)]
  BY <1>2, <1>3, <1>4, ConcatProperties
<1>6. Len(r) = n - 1 /\ DOMAIN r = 1 .. n - 1
  <2>1. Len(r) = n - 1
    BY <1>1, <1>3, <1>4, <1>5
  <2> QED
    BY <1>5, <2>1
<1>7. ASSUME NEW i \in 1 .. n - 1
      PROVE  (i < k /\ r[i] = s[i]) \/ (~(i < k) /\ r[i] = s[i + 1])
  <2>1. CASE i < k
    <3>1. i \in 1 .. Len(a) + Len(b) /\ i <= Len(a) /\ i \in 1 .. k - 1
      BY <1>1, <1>3, <1>4, <2>1
    <3> QED
      BY <1>3, <1>5, <2>1, <3>1
  <2>2. CASE ~(i < k)
    <3>1. /\ i \in 1 .. Len(a) + Len(b) /\ ~(i <= Len(a))
          /\ i - Len(a) \in 1 .. n - k /\ (i - Len(a)) + k = i + 1
      BY <1>1, <1>3, <1>4, <2>2
    <3> QED
      BY <1>4, <1>5, <2>2, <3>1
  <2> QED
    BY <2>1, <2>2
<1> QED
  BY <1>5, <1>6, <1>7 DEF r, n

LEMMA OthersOfRoom ==
  ASSUME NEW p, WellFormed(p), NEW id
  PROVE  /\ Others(p, id) \in Seq(Entries) /\ OneEach(Others(p, id))
         /\ ~Holds(p, id) => Others(p, id) = p.rooms
         /\ Holds(p, id) => Len(Others(p, id)) = Len(p.rooms) - 1
<1> DEFINE s == p.rooms
           k == Place(p, id)
           r == Others(p, id)
<1>1. s \in Seq(Entries) /\ OneEach(s) /\ Len(s) \in Nat /\ DOMAIN s = 1 .. Len(s)
  BY DEF WellFormed, Pages
<1>2. CASE ~Holds(p, id)
  BY <1>1, <1>2 DEF Others
<1>3. CASE Holds(p, id)
  <2>1. k \in 1 .. Len(s) /\ r = RemoveAt(s, k)
    BY <1>1, <1>3, PlaceOfRoom DEF Others
  <2> HIDE DEF s, k, r
  <2>2. /\ r \in Seq(Entries) /\ Len(r) = Len(s) - 1 /\ DOMAIN r = 1 .. Len(s) - 1
        /\ \A i \in 1 .. Len(s) - 1 : (i < k /\ r[i] = s[i]) \/ (~(i < k) /\ r[i] = s[i + 1])
    BY <1>1, <2>1, Removed
  <2>3. OneEach(r)
    <3> SUFFICES ASSUME NEW i \in 1 .. Len(s) - 1, NEW j \in 1 .. Len(s) - 1, r[i].id = r[j].id
                 PROVE  i = j
      BY <2>2 DEF OneEach
    <3>1. PICK m \in 1 .. Len(s) : r[i] = s[m] /\ ((i < k /\ m = i) \/ (~(i < k) /\ m = i + 1))
      BY <1>1, <2>2
    <3>2. PICK l \in 1 .. Len(s) : r[j] = s[l] /\ ((j < k /\ l = j) \/ (~(j < k) /\ l = j + 1))
      BY <1>1, <2>2
    <3>3. m = l
      BY <1>1, <3>1, <3>2 DEF OneEach
    <3>4. i \in Int /\ j \in Int /\ k \in Int
      BY <2>1
    <3> QED
      BY <3>1, <3>2, <3>3, <3>4
  <2> QED
    BY <1>3, <2>2, <2>3 DEF r, s
<1> QED
  BY <1>2, <1>3

(* What an event of the store leaves alone.                                *)
Steady(p, q) ==
  /\ q.online = p.online /\ q.hasJoined = p.hasJoined /\ q.isJoining = p.isJoining
  /\ q.adding = p.adding /\ q.dialog = p.dialog /\ q.up = p.up /\ (q.pending => p.pending)

LEMMA RoomEnsured ==
  ASSUME NEW p, WellFormed(p), NEW id \in Rooms
  PROVE  /\ WellFormed(EnsureRoom(p, id)) /\ Steady(p, EnsureRoom(p, id))
         /\ Holds(EnsureRoom(p, id), id)
<1> DEFINE q == EnsureRoom(p, id)
           s == p.rooms
<1>1. s \in Seq(Entries) /\ OneEach(s) /\ Len(s) \in Nat /\ DOMAIN s = 1 .. Len(s) /\ p \in Pages
  BY DEF WellFormed, Pages
<1>2. CASE Holds(p, id)
  BY <1>1, <1>2 DEF EnsureRoom, Steady
<1>3. CASE ~Holds(p, id)
  <2> DEFINE r == Append(s, Blank(id))
  <2>1. Blank(id) \in Entries /\ Blank(id).id = id
    BY DEF Blank, Entries
  <2>2. /\ r \in Seq(Entries) /\ Len(r) = Len(s) + 1 /\ DOMAIN r = 1 .. Len(s) + 1
        /\ \A i \in 1 .. Len(s) : r[i] = s[i]
        /\ r[Len(s) + 1] = Blank(id)
    BY <1>1, <2>1
  <2>3. q = [p EXCEPT !.rooms = r]
    BY <1>3 DEF EnsureRoom
  <2>4. \A i \in 1 .. Len(s) : s[i].id # id
    BY <1>1, <1>3 DEF Holds
  <2> HIDE DEF r, s
  <2>5. OneEach(r)
    <3> SUFFICES ASSUME NEW i \in 1 .. Len(s) + 1, NEW j \in 1 .. Len(s) + 1, r[i].id = r[j].id
                 PROVE  i = j
      BY <2>2 DEF OneEach
    <3>1. (i \in 1 .. Len(s) \/ i = Len(s) + 1) /\ (j \in 1 .. Len(s) \/ j = Len(s) + 1)
      BY <1>1
    <3> QED
      BY <1>1, <2>1, <2>2, <2>4, <3>1 DEF OneEach
  <2>6. q \in Pages /\ q.rooms = r /\ Steady(p, q)
    BY <1>1, <2>2, <2>3 DEF Pages, Steady
  <2>7. Holds(q, id)
    BY <1>1, <2>1, <2>2, <2>6 DEF Holds
  <2> QED
    BY <2>5, <2>6, <2>7 DEF WellFormed
<1> QED
  BY <1>2, <1>3

LEMMA EntrySet ==
  ASSUME NEW p, WellFormed(p), NEW e \in Entries
  PROVE  /\ WellFormed(SetEntry(p, e)) /\ Steady(p, SetEntry(p, e))
         /\ Len(SetEntry(p, e).rooms) = Len(p.rooms)
<1> DEFINE q == SetEntry(p, e)
           s == p.rooms
           r == [i \in DOMAIN s |-> IF s[i].id = e.id THEN e ELSE s[i]]
<1>1. s \in Seq(Entries) /\ OneEach(s) /\ Len(s) \in Nat /\ DOMAIN s = 1 .. Len(s) /\ p \in Pages
  BY DEF WellFormed, Pages
<1>2. q = [p EXCEPT !.rooms = r]
  BY DEF SetEntry
<1> HIDE DEF s
<1>3. r \in Seq(Entries) /\ Len(r) = Len(s) /\ DOMAIN r = DOMAIN s
      /\ \A i \in DOMAIN r : r[i].id = s[i].id
  <2>1. r \in [1 .. Len(s) -> Entries] /\ \A i \in DOMAIN r : r[i].id = s[i].id
    BY <1>1
  <2> HIDE DEF r
  <2> QED
    BY <1>1, <2>1
<1> HIDE DEF r
<1>4. OneEach(r)
  BY <1>1, <1>3 DEF OneEach
<1>5. q \in Pages /\ q.rooms = r /\ Steady(p, q)
  BY <1>1, <1>2, <1>3 DEF Pages, Steady
<1> QED
  BY <1>3, <1>4, <1>5 DEF WellFormed, s

LEMMA RoomRemoved ==
  ASSUME NEW p, WellFormed(p), NEW id
  PROVE  /\ WellFormed(RemoveRoom(p, id)) /\ Steady(p, RemoveRoom(p, id))
         /\ RemoveRoom(p, id).rooms = Others(p, id)
         /\ RemoveRoom(p, id).notSeated = p.notSeated
<1> DEFINE q == RemoveRoom(p, id)
           r == Others(p, id)
           a == IF p.active = id THEN FirstOf(r) ELSE p.active
<1>1. q = [p EXCEPT !.rooms = r, !.active = a] /\ p \in Pages
  BY DEF RemoveRoom, WellFormed
<1>2. r \in Seq(Entries) /\ OneEach(r)
  BY OthersOfRoom
<1> HIDE DEF r
<1>3. a \in Rooms \cup {NoRoom}
  <2>1. FirstOf(r) \in Rooms \cup {NoRoom}
    <3>1. CASE r = << >>
      BY <3>1 DEF FirstOf
    <3>2. CASE r # << >>
      <4>1. Head(r) \in Entries
        BY <1>2, <3>2, HeadTailProperties
      <4> QED
        BY <3>2, <4>1 DEF FirstOf, Entries
    <3> QED
      BY <3>1, <3>2
  <2>2. p.active \in Rooms \cup {NoRoom}
    BY <1>1 DEF Pages
  <2> QED
    BY <2>1, <2>2
<1> HIDE DEF a
<1>4. q \in Pages /\ q.rooms = r /\ Steady(p, q) /\ q.notSeated = p.notSeated
  BY <1>1, <1>2, <1>3 DEF Pages, Steady
<1> QED
  BY <1>2, <1>4 DEF WellFormed, r

(* The room F-16 drops is the one shown when it was the only one.          *)
LEMMA TargetReset ==
  ASSUME NEW p, WellFormed(p)
  PROVE  /\ WellFormed(ResetTarget(p)) /\ Steady(p, ResetTarget(p))
         /\ ResetTarget(p).notSeated = p.notSeated
         /\ ResetTarget(p).rooms = << >> =>
              p.rooms = << >> \/ (/\ OfAddress(p) # {}
                                  /\ \A i \in DOMAIN p.rooms : p.rooms[i] = Target(p))
<1>1. CASE OfAddress(p) = {}
  BY <1>1 DEF ResetTarget, Steady
<1>2. CASE OfAddress(p) # {}
  <2> DEFINE id == Target(p).id
             q == RemoveRoom(p, id)
             a == IF p.active = id THEN NoRoom ELSE q.active
             s == p.rooms
             t == CHOOSE i \in OfAddress(p) : \A k \in OfAddress(p) : i <= k
  <2>1. /\ s \in Seq(Entries) /\ Len(s) \in Nat /\ DOMAIN s = 1 .. Len(s)
        /\ OfAddress(p) \subseteq DOMAIN s
    BY DEF WellFormed, Pages, OfAddress
  <2>2. t \in DOMAIN s /\ s[t] = Target(p)
    <3>1. \E i \in OfAddress(p) : \A k \in OfAddress(p) : i <= k
      <4>1. OfAddress(p) \in SUBSET Nat
        BY <2>1
      <4> QED
        BY <1>2, <4>1, FirstPlace
    <3>2. t \in OfAddress(p)
      BY <3>1
    <3> QED
      BY <2>1, <3>2 DEF Target
  <2>3. Holds(p, id)
    BY <2>2 DEF Holds
  <2>4. /\ ResetTarget(p) = [q EXCEPT !.active = a]
    BY <1>2 DEF ResetTarget
  <2>5. /\ WellFormed(q) /\ Steady(p, q) /\ q.rooms = Others(p, id) /\ q.notSeated = p.notSeated
        /\ Len(Others(p, id)) = Len(s) - 1
    BY <2>3, RoomRemoved, OthersOfRoom
  <2> HIDE DEF q
  <2>6. a \in Rooms \cup {NoRoom}
    BY <2>5 DEF WellFormed, Pages
  <2> HIDE DEF a, s, id
  <2>7. /\ WellFormed(ResetTarget(p)) /\ Steady(p, ResetTarget(p))
        /\ ResetTarget(p).notSeated = p.notSeated /\ ResetTarget(p).rooms = q.rooms
    BY <2>4, <2>5, <2>6 DEF WellFormed, Pages, Steady
  <2>8. ASSUME ResetTarget(p).rooms = << >> PROVE \A i \in DOMAIN s : s[i] = Target(p)
    <3>1. Len(Others(p, id)) = 0
      BY <2>5, <2>7, <2>8
    <3>2. DOMAIN s = {1}
      <4>a. Len(Others(p, id)) = Len(s) - 1
        BY <2>5
      <4>b. Len(s) \in Nat
        BY <2>1
      <4>1. Len(s) = 1
        BY ONLY <3>1, <4>a, <4>b
      <4> QED
        BY ONLY <2>1, <4>1
    <3>3. t = 1
      BY <2>2, <3>2
    <3> QED
      BY <2>2, <3>2, <3>3
  <2> QED
    BY <1>2, <2>7, <2>8 DEF s
<1> QED
  BY <1>1, <1>2
-----------------------------------------------------------------------------
(* One pass of the effects.                                                *)
Fired == Changed(2) /\ page.notSeated /\ ~page.isJoining
Joining == Changed(3) /\ page.online
Offers == /\ Changed(4) /\ page.hasJoined /\ ~HasChips(page) /\ ~page.isJoining /\ page.online
          /\ ~Shown(page).inHand

(* The pass leaves alone what the player and the socket set.               *)
Passed(p, q) ==
  /\ q.online = p.online /\ q.adding = p.adding /\ q.up = p.up /\ q.notSeated = p.notSeated
  /\ (q.pending => p.pending)

LEMMA SyncPass ==
  ASSUME WellFormed(page), NEW q, q = IF Changed(1) THEN SyncActive(page, page) ELSE page
  PROVE  WellFormed(q) /\ Steady(page, q) /\ Passed(page, q) /\ q.rooms = page.rooms
<1>1. CASE q = page
  BY <1>1 DEF Steady, Passed
<1>2. CASE OfAddress(page) # {} /\ q = [page EXCEPT !.active = Target(page).id]
  <2> DEFINE t == CHOOSE i \in OfAddress(page) : \A k \in OfAddress(page) : i <= k
             s == page.rooms
  <2>1. /\ s \in Seq(Entries) /\ DOMAIN s = 1 .. Len(s)
        /\ OfAddress(page) \in SUBSET Nat /\ OfAddress(page) \subseteq DOMAIN s
    BY DEF WellFormed, Pages, OfAddress
  <2>2. t \in DOMAIN s /\ s[t] = Target(page)
    <3>1. t \in OfAddress(page)
      BY <1>2, <2>1, FirstPlace
    <3> QED
      BY <2>1, <3>1 DEF Target
  <2>3. Target(page).id \in Rooms
    <3> HIDE DEF s, t
    <3>1. s[t] \in Entries
      BY <2>1, <2>2
    <3> QED
      BY <2>2, <3>1 DEF Entries
  <2> QED
    BY <1>2, <2>3 DEF WellFormed, Pages, Steady, Passed
<1> QED
  BY <1>1, <1>2 DEF SyncActive

LEMMA NotSeatedPass ==
  ASSUME WellFormed(page), NEW p, WellFormed(p), Steady(page, p), Passed(page, p),
         p.rooms = page.rooms, NEW q, q = IF Changed(2) THEN NotSeated(page, p) ELSE p
  PROVE  /\ WellFormed(q) /\ Passed(page, q) /\ (q.isJoining <=> page.isJoining)
         /\ Fired /\ q.rooms = << >> =>
              page.rooms = << >> \/ (/\ OfAddress(page) # {}
                                     /\ \A i \in DOMAIN page.rooms : page.rooms[i] = Target(page))
         /\ ~Fired => q.rooms = page.rooms
         /\ q.hasJoined <=> page.hasJoined /\ ~Fired
         /\ q.dialog <=> page.dialog \/ Fired
<1>1. CASE ~Fired
  <2>1. q = p
    BY <1>1 DEF Fired, NotSeated
  <2> QED
    BY <1>1, <2>1 DEF Steady, Passed
<1>2. CASE Fired
  <2> DEFINE r == ResetTarget(p)
  <2>1. q = [r EXCEPT !.hasJoined = FALSE, !.dialog = TRUE]
    BY <1>2 DEF Fired, NotSeated
  <2>2. /\ WellFormed(r) /\ Steady(p, r) /\ r.notSeated = p.notSeated
        /\ r.rooms = << >> =>
              p.rooms = << >> \/ (/\ OfAddress(p) # {}
                                  /\ \A i \in DOMAIN p.rooms : p.rooms[i] = Target(p))
    BY TargetReset
  <2>3. OfAddress(p) = OfAddress(page) /\ Target(p) = Target(page)
    BY DEF OfAddress, Target
  <2> HIDE DEF r
  <2>4. /\ WellFormed(q) /\ q.rooms = r.rooms /\ Passed(r, q) /\ q.isJoining = r.isJoining
        /\ q.hasJoined = FALSE /\ q.dialog = TRUE
    BY <2>1, <2>2 DEF WellFormed, Pages, Passed
  <2>5. Passed(page, q)
    BY <2>2, <2>4 DEF Passed, Steady
  <2>6. q.isJoining = page.isJoining
    BY <2>2, <2>4 DEF Steady
  <2> QED
    BY <1>2, <2>2, <2>3, <2>4, <2>5, <2>6
<1> QED
  BY <1>1, <1>2

LEMMA JoinPass ==
  ASSUME mode = "play", WellFormed(page), NEW p, WellFormed(p),
         NEW q, q = IF Changed(3) THEN JoinOrAsk(page, p) ELSE p
  PROVE  /\ WellFormed(q) /\ Passed(p, q) /\ (q.isJoining <=> p.isJoining) /\ q.rooms = p.rooms
         /\ q.hasJoined <=> (Joining /\ HeroSeated(page)) \/ p.hasJoined
         /\ q.dialog <=> \/ Joining /\ ~HeroSeated(page) /\ ~page.hasJoined
                         \/ p.dialog /\ ~(Joining /\ HeroSeated(page) /\ page.dialog /\ ~page.adding)
<1>1. CASE ~Joining
  <2>1. q = p
    BY <1>1 DEF Joining, JoinOrAsk
  <2> QED
    BY <1>1, <2>1 DEF Passed
<1>2. CASE Joining /\ ~HeroSeated(page) /\ ~page.hasJoined
  <2>1. q = [p EXCEPT !.dialog = TRUE]
    BY <1>2 DEF Joining, JoinOrAsk
  <2> QED
    BY <1>2, <2>1 DEF WellFormed, Pages, Passed
<1>3. CASE Joining /\ (HeroSeated(page) \/ page.hasJoined)
  <2> DEFINE away == HeroSeated(page) /\ page.dialog /\ ~page.adding
  <2>1. q = [p EXCEPT !.hasJoined = IF HeroSeated(page) THEN TRUE ELSE @,
                      !.dialog = IF away THEN FALSE ELSE @]
    BY <1>3 DEF Joining, JoinOrAsk
  <2> HIDE DEF away
  <2>2. /\ WellFormed(q) /\ Passed(p, q) /\ (q.isJoining <=> p.isJoining) /\ q.rooms = p.rooms
        /\ q.hasJoined <=> HeroSeated(page) \/ p.hasJoined
        /\ q.dialog <=> p.dialog /\ ~away
    BY <2>1 DEF WellFormed, Pages, Passed
  <2> QED
    BY <1>3, <2>2 DEF away
<1> QED
  BY <1>1, <1>2, <1>3

LEMMA RebuyPass ==
  ASSUME WellFormed(page), NEW p, WellFormed(p),
         NEW q, q = IF Changed(4) THEN AskRebuy(page, p) ELSE p
  PROVE  /\ WellFormed(q) /\ Passed(p, q) /\ q.rooms = p.rooms
         /\ q.hasJoined <=> p.hasJoined
         /\ q.isJoining <=> p.isJoining /\ ~(Changed(4) /\ page.isJoining /\ HasChips(page))
         /\ q.dialog <=> \/ Offers
                         \/ p.dialog /\ ~(Changed(4) /\ HasChips(page) /\ ~page.adding)
<1>1. CASE ~Changed(4)
  BY <1>1 DEF Passed, Offers
<1>2. CASE Changed(4)
  <2> DEFINE gone == page.isJoining /\ HasChips(page)
             away == HasChips(page) /\ ~page.adding
  <2>1. q = [p EXCEPT !.isJoining = IF gone THEN FALSE ELSE @,
                      !.dialog = IF Offers THEN TRUE ELSE IF away THEN FALSE ELSE @]
    BY <1>2 DEF AskRebuy, Offers
  <2>2. Offers => ~away
    BY DEF Offers
  <2> HIDE DEF gone, away
  <2>3. /\ WellFormed(q) /\ Passed(p, q) /\ q.rooms = p.rooms
        /\ q.hasJoined <=> p.hasJoined
        /\ q.isJoining <=> p.isJoining /\ ~gone
        /\ q.dialog <=> Offers \/ (p.dialog /\ ~away)
    BY <2>1 DEF WellFormed, Pages, Passed
  <2> QED
    BY <1>2, <2>3 DEF gone, away
<1> QED
  BY <1>1, <1>2

LEMMA EffectsPass ==
  ASSUME mode = "play", WellFormed(page), Effects
  PROVE  /\ WellFormed(page') /\ Passed(page, page')
         /\ page'.isJoining => page.isJoining
         /\ ~page'.isJoining /\ page.isJoining => Changed(4) /\ HasChips(page)
         /\ Fired /\ page'.rooms = << >> =>
              page.rooms = << >> \/ (/\ OfAddress(page) # {}
                                     /\ \A i \in DOMAIN page.rooms : page.rooms[i] = Target(page))
         /\ ~Fired => page'.rooms = page.rooms
         /\ page'.hasJoined <=> (Joining /\ HeroSeated(page)) \/ (page.hasJoined /\ ~Fired)
         /\ page'.dialog <=>
              \/ Offers
              \/ /\ \/ Joining /\ ~HeroSeated(page) /\ ~page.hasJoined
                    \/ /\ page.dialog \/ Fired
                       /\ ~(Joining /\ HeroSeated(page) /\ page.dialog /\ ~page.adding)
                 /\ ~(Changed(4) /\ HasChips(page) /\ ~page.adding)
<1> DEFINE p2 == IF Changed(1) THEN SyncActive(page, page) ELSE page
           p3 == IF Changed(2) THEN NotSeated(page, p2) ELSE p2
           p4 == IF Changed(3) THEN JoinOrAsk(page, p3) ELSE p3
           p5 == IF Changed(4) THEN AskRebuy(page, p4) ELSE p4
<1>1. page' = p5
  BY DEF Effects
<1>2. WellFormed(p2) /\ Steady(page, p2) /\ Passed(page, p2) /\ p2.rooms = page.rooms
  BY SyncPass
<1>3. p3 = IF Changed(2) THEN NotSeated(page, p2) ELSE p2
  OBVIOUS
<1>4. p4 = IF Changed(3) THEN JoinOrAsk(page, p3) ELSE p3
  OBVIOUS
<1>5. p5 = IF Changed(4) THEN AskRebuy(page, p4) ELSE p4
  OBVIOUS
<1> HIDE DEF p2, p3, p4, p5
<1>6. /\ WellFormed(p3) /\ Passed(page, p3) /\ (p3.isJoining <=> page.isJoining)
      /\ Fired /\ p3.rooms = << >> =>
              page.rooms = << >> \/ (/\ OfAddress(page) # {}
                                     /\ \A i \in DOMAIN page.rooms : page.rooms[i] = Target(page))
      /\ ~Fired => p3.rooms = page.rooms
      /\ p3.hasJoined <=> page.hasJoined /\ ~Fired
      /\ p3.dialog <=> page.dialog \/ Fired
  BY <1>2, <1>3, NotSeatedPass
<1>7. /\ WellFormed(p4) /\ Passed(p3, p4) /\ (p4.isJoining <=> p3.isJoining) /\ p4.rooms = p3.rooms
      /\ p4.hasJoined <=> (Joining /\ HeroSeated(page)) \/ p3.hasJoined
      /\ p4.dialog <=> \/ Joining /\ ~HeroSeated(page) /\ ~page.hasJoined
                       \/ p3.dialog /\ ~(Joining /\ HeroSeated(page) /\ page.dialog /\ ~page.adding)
  BY <1>4, <1>6, JoinPass
<1>8. /\ WellFormed(p5) /\ Passed(p4, p5) /\ p5.rooms = p4.rooms
      /\ p5.hasJoined <=> p4.hasJoined
      /\ p5.isJoining <=> p4.isJoining /\ ~(Changed(4) /\ page.isJoining /\ HasChips(page))
      /\ p5.dialog <=> \/ Offers
                       \/ p4.dialog /\ ~(Changed(4) /\ HasChips(page) /\ ~page.adding)
  BY <1>5, <1>7, RebuyPass
<1>9. Passed(page, p5)
  BY <1>6, <1>7, <1>8 DEF Passed
<1> QED
  BY <1>1, <1>6, <1>7, <1>8, <1>9
-----------------------------------------------------------------------------
(* What the server says.                                                   *)
LEMMA NotesAre ==
  /\ \A r \in Rooms, me \in {"none", "chips", "broke"}, playing \in BOOLEAN :
       TableState(r, me, playing) \in Notes
  /\ \A r \in Rooms : Says("Connected", r) \in Notes /\ Says("RoomAssigned", r) \in Notes
  /\ \A r \in Rooms \cup {NoRoom} : Says("Not seated", r) \in Notes
BY DEF TableState, Says, Notes

LEMMA GreetingsAre ==
  ASSUME PageTypes, NEW r \in Rooms
  PROVE  Greetings(r) \in Seq(Notes) /\ Greetings(r) # << >>
<1>1. seat[r] \in {"none", "chips", "broke"} /\ inHand[r] \in BOOLEAN
  BY DEF PageTypes
<1>2. /\ TableState(r, seat[r], inHand[r]) \in Notes
      /\ Says("Connected", r) \in Notes /\ Says("Not seated", r) \in Notes
  BY <1>1, NotesAre
<1> DEFINE a == TableState(r, seat[r], inHand[r])
           b == Says("Connected", r)
           c == Says("Not seated", r)
<1>3. Greetings(r) = IF seat[r] = "none" THEN <<c>> ELSE <<b, a>>
  BY DEF Greetings
<1>4. a \in Notes /\ b \in Notes /\ c \in Notes
  BY <1>2
<1> HIDE DEF a, b, c
<1> QED
  BY <1>3, <1>4

LEMMA MergedAre ==
  ASSUME NEW s1 \in Seq(Notes), s1 # << >>, NEW s2 \in Seq(Notes), s2 # << >>
  PROVE  Merged(s1, s2) \subseteq Seq(Notes)
<1>1. Head(s1) \in Notes /\ Tail(s1) \in Seq(Notes) /\ Head(s2) \in Notes /\ Tail(s2) \in Seq(Notes)
  BY HeadTailProperties
<1> DEFINE h1 == Head(s1)
           t1 == Tail(s1)
           h2 == Head(s2)
           t2 == Tail(s2)
<1>2. h1 \in Notes /\ t1 \in Seq(Notes) /\ h2 \in Notes /\ t2 \in Seq(Notes)
  BY <1>1
<1>3. Merged(s1, s2) = {s1 \o s2, <<h1>> \o s2 \o t1, <<h1, h2>> \o t1 \o t2}
  BY DEF Merged
<1> HIDE DEF h1, t1, h2, t2
<1>4. <<h1>> \in Seq(Notes) /\ <<h1, h2>> \in Seq(Notes)
  BY <1>2
<1>5. /\ s1 \o s2 \in Seq(Notes)
      /\ <<h1>> \o s2 \in Seq(Notes) /\ <<h1, h2>> \o t1 \in Seq(Notes)
  BY <1>2, <1>4, ConcatProperties
<1>6. (<<h1>> \o s2) \o t1 \in Seq(Notes) /\ (<<h1, h2>> \o t1) \o t2 \in Seq(Notes)
  BY <1>2, <1>5, ConcatProperties
<1> QED
  BY <1>3, <1>5, <1>6

LEMMA ReconnectedAre ==
  ASSUME PageTypes, NEW said \in Reconnected
  PROVE  said \in Seq(Notes)
<1>1. CASE listed = {}
  <2>1. said = <<Says("Not seated", NoRoom)>> /\ Says("Not seated", NoRoom) \in Notes
    BY <1>1, NotesAre DEF Reconnected
  <2> DEFINE c == Says("Not seated", NoRoom)
  <2>2. said = <<c>> /\ c \in Notes
    BY <2>1
  <2> HIDE DEF c
  <2> QED
    BY <2>2
<1>2. CASE \E r \in Rooms : said = Greetings(r)
  BY <1>2, GreetingsAre
<1>3. CASE \E r, q \in Rooms : said \in Merged(Greetings(r), Greetings(q))
  BY <1>3, GreetingsAre, MergedAre
<1>4. listed # {} => \/ \E r \in Rooms : said = Greetings(r)
                     \/ \E r, q \in Rooms : said \in Merged(Greetings(r), Greetings(q))
  <2> SUFFICES ASSUME listed # {}, ~ \E r \in Rooms : said = Greetings(r)
               PROVE  \E r, q \in Rooms : said \in Merged(Greetings(r), Greetings(q))
    OBVIOUS
  <2> DEFINE both == {p \in Rooms \X Rooms : {p[1], p[2]} = listed /\ p[1] # p[2]}
  <2>1. said \in UNION {Merged(Greetings(rq[1]), Greetings(rq[2])) : rq \in both}
    BY Zenon DEF Reconnected
  <2>2. PICK rq \in both : said \in Merged(Greetings(rq[1]), Greetings(rq[2]))
    BY <2>1, Zenon
  <2>3. rq[1] \in Rooms /\ rq[2] \in Rooms
    BY <2>2
  <2> QED
    BY <2>2, <2>3, Zenon
<1> QED
  BY <1>1, <1>2, <1>3, <1>4

(* A message changes the rooms, and none is gone but by Not seated.        *)
LEMMA ReceivedIs ==
  ASSUME WellFormed(page), NEW m \in Notes, NEW q, q = Received(page, m)
  PROVE  /\ WellFormed(q) /\ Steady(page, q)
         /\ q.rooms = << >> => m.type = "Not seated"
         /\ m.type = "Not seated" => q.notSeated
<1>0. page \in Pages
  BY DEF WellFormed
<1>1. CASE m.type = "Not seated"
  <2>1. m.room \in Rooms \cup {NoRoom}
    BY <1>1 DEF Notes
  <2>2. CASE m.room = NoRoom
    <3>1. q = [page EXCEPT !.rooms = << >>, !.active = NoRoom, !.notSeated = TRUE]
      BY <1>1, <2>2 DEF Received
    <3>2. << >> \in Seq(Entries) /\ OneEach(<< >>)
      BY DEF OneEach
    <3> QED
      BY <1>0, <1>1, <3>1, <3>2 DEF WellFormed, Pages, Steady
  <2>3. CASE m.room # NoRoom
    <3> DEFINE r == RemoveRoom(page, m.room)
    <3>1. q = [r EXCEPT !.notSeated = TRUE]
      BY <1>1, <2>3 DEF Received
    <3>2. WellFormed(r) /\ Steady(page, r)
      BY RoomRemoved
    <3> HIDE DEF r
    <3>3. WellFormed(q) /\ Steady(r, q) /\ q.notSeated
      BY <3>1, <3>2 DEF WellFormed, Pages, Steady
    <3> QED
      BY <1>1, <3>2, <3>3 DEF Steady
  <2> QED
    BY <2>2, <2>3
<1>2. CASE m.type # "Not seated"
  <2> DEFINE r == EnsureRoom(page, m.room)
  <2>1. m.room \in Rooms
    BY <1>2 DEF Notes
  <2>2. WellFormed(r) /\ Steady(page, r) /\ Holds(r, m.room)
    BY <2>1, RoomEnsured
  <2>3. r.rooms \in Seq(Entries) /\ r.rooms # << >> /\ Entry(r, m.room) \in Entries /\ Len(r.rooms) # 0
    <3>1. r.rooms \in Seq(Entries) /\ DOMAIN r.rooms = 1 .. Len(r.rooms)
      BY <2>2 DEF WellFormed, Pages
    <3>2. Place(r, m.room) \in DOMAIN r.rooms
      BY <2>2, PlaceOfRoom
    <3> DEFINE s == r.rooms
               k == Place(r, m.room)
    <3>3. s \in Seq(Entries) /\ DOMAIN s = 1 .. Len(s) /\ k \in DOMAIN s /\ Entry(r, m.room) = s[k]
      BY <3>1, <3>2 DEF Entry
    <3> HIDE DEF s, k
    <3>4. s[k] \in Entries /\ s # << >> /\ Len(s) # 0
      BY <3>3
    <3> QED
      BY <3>3, <3>4 DEF s
  <2> HIDE DEF r
  <2>4. CASE m.type = "RoomAssigned"
    <3> DEFINE e == [Entry(r, m.room) EXCEPT !.table = "url"]
               w == SetEntry(r, e)
    <3>1. q = [w EXCEPT !.active = m.room, !.notSeated = FALSE]
      BY <1>2, <2>4 DEF Received, r
    <3>2. e \in Entries
      BY <2>3 DEF Entries
    <3> HIDE DEF e
    <3>3. WellFormed(w) /\ Steady(r, w) /\ Len(w.rooms) = Len(r.rooms)
      BY <2>2, <3>2, EntrySet
    <3> HIDE DEF w
    <3>4. WellFormed(q) /\ Steady(w, q) /\ q.rooms = w.rooms
      BY <2>1, <3>1, <3>3 DEF WellFormed, Pages, Steady
    <3>5. Steady(page, q)
      BY <2>2, <3>3, <3>4 DEF Steady
    <3>6. Len(q.rooms) # 0
      BY <2>3, <3>3, <3>4
    <3>7. q.rooms # << >>
      BY <3>6
    <3> QED
      BY <1>2, <3>4, <3>5, <3>7
  <2>5. CASE m.type = "Connected"
    <3>1. q = [r EXCEPT !.active = m.room, !.notSeated = FALSE, !.known = TRUE, !.pending = FALSE]
      BY <1>2, <2>5 DEF Received, r
    <3>2. WellFormed(q) /\ Steady(r, q) /\ q.rooms = r.rooms
      BY <2>1, <2>2, <3>1 DEF WellFormed, Pages, Steady
    <3>3. Steady(page, q)
      BY <2>2, <3>2 DEF Steady
    <3> QED
      BY <1>2, <2>3, <3>2, <3>3
  <2>6. CASE m.type = "TableState"
    <3> DEFINE e == [id |-> m.room, table |-> "room", me |-> m.me, inHand |-> m.inHand]
               w == SetEntry(r, e)
    <3>1. q = [w EXCEPT !.active = m.room, !.notSeated = FALSE]
      BY <1>2, <2>6 DEF Received, r
    <3>2. e \in Entries
      <4>1. m.me \in {"none", "chips", "broke"} /\ m.inHand \in BOOLEAN
        BY <2>6 DEF Notes
      <4> QED
        BY <2>1, <4>1 DEF Entries
    <3> HIDE DEF e
    <3>3. WellFormed(w) /\ Steady(r, w) /\ Len(w.rooms) = Len(r.rooms)
      BY <2>2, <3>2, EntrySet
    <3> HIDE DEF w
    <3>4. WellFormed(q) /\ Steady(w, q) /\ q.rooms = w.rooms
      BY <2>1, <3>1, <3>3 DEF WellFormed, Pages, Steady
    <3>5. Steady(page, q)
      BY <2>2, <3>3, <3>4 DEF Steady
    <3>6. Len(q.rooms) # 0
      BY <2>3, <3>3, <3>4
    <3>7. q.rooms # << >>
      BY <3>6
    <3> QED
      BY <1>2, <3>4, <3>5, <3>7
  <2>7. m.type \in {"RoomAssigned", "Connected", "TableState"}
    BY <1>2 DEF Notes
  <2> QED
    BY <2>4, <2>5, <2>6, <2>7
<1> QED
  BY <1>1, <1>2
-----------------------------------------------------------------------------
(* The page at first, and after a pass of its effects.                     *)
LEMMA SingleList ==
  ASSUME NEW S, NEW e \in S
  PROVE  <<e>> \in Seq(S) /\ DOMAIN <<e>> = {1} /\ <<e>>[1] = e /\ <<e>> # << >> /\ Head(<<e>>) = e
OBVIOUS

LEMMA PageAtFirst == PageInit => PageInv
<1> SUFFICES ASSUME PageInit, mode = "play" PROVE PageInv
  BY DEF PageInv
<1>1. PICK stored \in {<< >>} \cup {<<[Blank(r) EXCEPT !.table = "room", !.me = "chips"]>> : r \in Rooms} :
       /\ seat = [r \in Rooms |-> IF r = FirstOf(stored) THEN "chips" ELSE "none"]
       /\ listed = {e.id : e \in Range(stored)}
       /\ page = [rooms |-> stored, active |-> FirstOf(stored), known |-> FALSE, online |-> FALSE,
                  notSeated |-> FALSE, pending |-> FALSE, hasJoined |-> FALSE, isJoining |-> FALSE,
                  adding |-> FALSE, dialog |-> FALSE, up |-> << >>]
  BY DEF PageInit
<1>2. stored \in Seq(Entries) /\ OneEach(stored) /\ FirstOf(stored) \in Rooms \cup {NoRoom}
      /\ listed \subseteq Rooms
  <2>1. CASE stored = << >>
    <3>1. Range(stored) = {}
      BY <2>1 DEF Range
    <3> QED
      BY <1>1, <2>1, <3>1 DEF OneEach, FirstOf
  <2>2. ASSUME NEW r \in Rooms, stored = <<[Blank(r) EXCEPT !.table = "room", !.me = "chips"]>>
        PROVE  /\ stored \in Seq(Entries) /\ OneEach(stored) /\ FirstOf(stored) \in Rooms
               /\ listed \subseteq Rooms
    <3> DEFINE e == [Blank(r) EXCEPT !.table = "room", !.me = "chips"]
    <3>1. e \in Entries /\ e.id = r
      BY DEF Blank, Entries
    <3>2. stored = <<e>>
      BY <2>2
    <3> HIDE DEF e
    <3>3. stored \in Seq(Entries) /\ DOMAIN stored = {1} /\ stored[1] = e /\ stored # << >>
      BY <3>1, <3>2, SingleList
    <3>4. Head(stored) = e
      BY <3>1, <3>2, SingleList
    <3>5. Range(stored) = {e}
      BY <3>3 DEF Range
    <3> QED
      BY <1>1, <3>1, <3>3, <3>4, <3>5 DEF OneEach, FirstOf
  <2> QED
    BY <2>1, <2>2
<1>3. WellFormed(page) /\ ~page.online /\ ~page.isJoining /\ ~page.adding
  <2> DEFINE Wire == {"join", "reconnect", "leave", "rebuy"} \X (Rooms \cup {NoRoom})
  <2> HIDE DEF Wire
  <2>1. << >> \in Seq(Wire)
    BY ONLY EmptySeq
  <2>2. page.up \in Seq(Wire)
    BY <1>1, <2>1
  <2>3. page.up \in Seq({"join", "reconnect", "leave", "rebuy"} \X (Rooms \cup {NoRoom}))
    BY <2>2 DEF Wire
  <2> QED
    BY <1>1, <1>2, <2>3 DEF WellFormed, Pages
<1>4. PageTypes
  <2>a. down = << >> /\ inHand = [r \in Rooms |-> FALSE]
    BY DEF PageInit
  <2>1. down \in Seq(Notes) /\ inHand \in [Rooms -> BOOLEAN]
    BY <2>a, EmptySeq
  <2>2. seat \in [Rooms -> {"none", "chips", "broke"}]
    BY <1>1
  <2> QED
    BY <1>2, <1>3, <2>1, <2>2 DEF PageTypes
<1> QED
  BY <1>3, <1>4 DEF PageInv, Asked, Alone, Patient

(* A page without a room shows no seat.                                    *)
LEMMA Unseen ==
  ASSUME NEW p, p.rooms = << >>
  PROVE  ~HeroSeated(p) /\ ~HasChips(p) /\ Shown(p).inHand = FALSE
<1>1. Shown(p) = Blank(p.active)
  BY DEF Shown, Holds
<1> QED
  BY <1>1 DEF HeroSeated, HasChips, Blank

(* The room shown is one of the rooms.                                     *)
LEMMA ShownIsRoom ==
  ASSUME NEW p, Shown(p).me # "none"
  PROVE  \E i \in DOMAIN p.rooms : Shown(p) = p.rooms[i]
<1>1. Holds(p, p.active)
  BY DEF Shown, Blank
<1> QED
  BY <1>1, PlaceOfRoom DEF Shown, Entry

LEMMA EffectsKeep ==
  ASSUME mode = "play", PageInv, Effects
  PROVE  PageInv'
<1> USE DEF PageInv
<1>1. /\ WellFormed(page) /\ page.isJoining \in BOOLEAN /\ page.hasJoined \in BOOLEAN
      /\ page.dialog \in BOOLEAN /\ page.adding \in BOOLEAN /\ page.known \in BOOLEAN
  BY DEF PageTypes, WellFormed, Pages
<1>2. /\ seen' = Deps(page) /\ excused' = (excused \/ TakesSeat)
      /\ UNCHANGED <<mode, route, seat, inHand, listed, heard, down, left>>
  BY DEF Effects, server
<1>3. /\ WellFormed(page') /\ Passed(page, page')
      /\ page'.isJoining => page.isJoining
      /\ ~page'.isJoining /\ page.isJoining => Changed(4) /\ HasChips(page)
      /\ Fired /\ page'.rooms = << >> =>
              page.rooms = << >> \/ (/\ OfAddress(page) # {}
                                     /\ \A i \in DOMAIN page.rooms : page.rooms[i] = Target(page))
      /\ ~Fired => page'.rooms = page.rooms
      /\ page'.hasJoined <=> (Joining /\ HeroSeated(page)) \/ (page.hasJoined /\ ~Fired)
      /\ page'.dialog <=>
              \/ Offers
              \/ /\ \/ Joining /\ ~HeroSeated(page) /\ ~page.hasJoined
                    \/ /\ page.dialog \/ Fired
                       /\ ~(Joining /\ HeroSeated(page) /\ page.dialog /\ ~page.adding)
                 /\ ~(Changed(4) /\ HasChips(page) /\ ~page.adding)
  BY <1>1, EffectsPass
<1>4. /\ page'.isJoining \in BOOLEAN /\ page'.hasJoined \in BOOLEAN /\ page'.dialog \in BOOLEAN
      /\ page'.online = page.online /\ page'.adding = page.adding
      /\ page'.notSeated = page.notSeated
  BY <1>3 DEF WellFormed, Pages, Passed
<1>5. PageTypes'
  BY <1>2, <1>3 DEF PageTypes
<1>6. Patient'
  <2>1. page.isJoining => ~Fired /\ ~Offers
    BY DEF Fired, Offers
  <2> QED
    BY <1>2, <1>3, <1>4, <2>1 DEF Patient
<1>7. page'.adding => page'.dialog
  BY <1>3, <1>4
<1>8. seen'[3] = JoinDeps(page) /\ seen'[4] = RebuyDeps(page) /\ seen'[2] = NotSeatedDeps(page)
  BY <1>2 DEF Deps
<1>9. ASSUME route' = "here", Alone' PROVE Asked'
  <2>1. page.online /\ page'.rooms = << >> /\ ~page'.isJoining /\ route = "here" /\ Asked
    BY <1>2, <1>4, <1>9 DEF Alone
  <2>2. ~HeroSeated(page') /\ ~HasChips(page') /\ Shown(page').inHand = FALSE
    BY <2>1, Unseen
  (* The room shown was dropped by F-16, or there was none.                *)
  <2>3. Shown(page).me # "none" => excused'
    <3> SUFFICES ASSUME Shown(page).me # "none" PROVE excused'
      OBVIOUS
    <3>1. PICK i \in DOMAIN page.rooms : Shown(page) = page.rooms[i]
      BY ShownIsRoom
    <3>2. page.rooms # << >>
      BY <3>1
    <3>3. Fired
      BY <1>3, <2>1, <3>2
    <3>4. OfAddress(page) # {} /\ Target(page) = Shown(page)
      BY <1>3, <2>1, <3>1, <3>2, <3>3
    <3> QED
      BY <1>2, <3>3, <3>4 DEF TakesSeat, Fired
  <2>4. HeroSeated(page) \/ HasChips(page) => excused'
    BY <2>3 DEF HeroSeated, HasChips
  <2>5. ASSUME ~HeroSeated(page), ~HasChips(page), ~page'.hasJoined, seen'[3] = JoinDeps(page')
        PROVE  page'.dialog \/ excused'
    <3>1. page.dialog = page'.dialog /\ page.hasJoined = page'.hasJoined
      BY <1>8, <2>5 DEF JoinDeps
    <3>2. CASE Fired
      BY <1>3, <2>5, <3>2
    <3>3. CASE ~Fired /\ Changed(3)
      BY <1>3, <2>1, <2>5, <3>1, <3>3 DEF Joining
    <3>4. CASE ~Fired /\ ~Changed(3)
      <4>1. seen # << >> /\ seen[3] = JoinDeps(page)
        BY <3>4 DEF Changed, Deps
      <4>2. page.rooms = << >> /\ ~page.isJoining
        BY <1>3, <2>1, <2>5, <3>4
      <4>3. ~NotSeatedDue
        BY <3>4, <4>1 DEF Fired, Changed, NotSeatedDue, Deps
      <4> QED
        BY <1>2, <2>1, <2>5, <3>1, <4>1, <4>2, <4>3 DEF Asked, Alone
    <3> QED
      BY <3>2, <3>3, <3>4
  <2>6. ASSUME ~HeroSeated(page), ~HasChips(page), page'.hasJoined, seen'[4] = RebuyDeps(page')
        PROVE  page'.dialog \/ excused'
    <3>1. page.hasJoined /\ ~page.isJoining /\ Shown(page).inHand = FALSE
      BY <1>3, <1>8, <2>1, <2>2, <2>6 DEF RebuyDeps
    <3>2. ~Fired /\ page.rooms = << >>
      BY <1>3, <2>1, <2>6
    <3>3. CASE Changed(4)
      BY <1>3, <2>1, <2>6, <3>1, <3>3 DEF Offers
    <3>4. CASE ~Changed(4)
      <4>1. seen # << >> /\ seen[4] = RebuyDeps(page)
        BY <3>4 DEF Changed, Deps
      <4>2. ~NotSeatedDue
        BY <3>2, <4>1 DEF Fired, Changed, NotSeatedDue, Deps
      <4>3. page.dialog \/ excused
        BY <2>1, <3>1, <3>2, <4>1, <4>2 DEF Asked, Alone
      <4> QED
        BY <1>2, <1>3, <2>6, <4>3
    <3> QED
      BY <3>3, <3>4
  <2> QED
    BY <2>4, <2>5, <2>6 DEF Asked
<1>10. route' = "here" => Asked'
  BY <1>9 DEF Asked
<1> QED
  BY <1>5, <1>6, <1>7, <1>10

-----------------------------------------------------------------------------
(* An event meets a page whose effects have run, so what they ask is there.*)
LEMMA Quiet ==
  ASSUME Settled, Asked, page.online, page.rooms = << >>, ~page.isJoining,
         page.hasJoined \in BOOLEAN
  PROVE  page.dialog \/ excused
<1>1. /\ seen # << >> /\ seen[2] = NotSeatedDeps(page)
      /\ seen[3] = JoinDeps(page) /\ seen[4] = RebuyDeps(page)
  BY DEF Settled, Deps
<1>2. Alone
  BY <1>1 DEF Alone, NotSeatedDue
<1> QED
  BY <1>1, <1>2 DEF Asked

LEMMA PageFacts ==
  ASSUME PageTypes
  PROVE  /\ WellFormed(page) /\ page \in Pages /\ page.online \in BOOLEAN
         /\ page.isJoining \in BOOLEAN /\ page.hasJoined \in BOOLEAN
         /\ page.dialog \in BOOLEAN /\ page.adding \in BOOLEAN /\ page.notSeated \in BOOLEAN
BY DEF PageTypes, WellFormed, Pages

(* Wire: what the page sends.                                              *)
LEMMA Sends ==
  ASSUME NEW p, WellFormed(p)
  PROVE  /\ \A type \in {"join", "reconnect", "leave", "rebuy"}, r \in Rooms \cup {NoRoom} :
              WellFormed([p EXCEPT !.up = Append(@, <<type, r>>)])
         /\ p.up # << >> => WellFormed([p EXCEPT !.up = Tail(@)])
         /\ \A type \in {"join", "reconnect", "leave", "rebuy"}, r \in Rooms \cup {NoRoom} :
              WellFormed([p EXCEPT !.up = <<<<type, r>>>>])
         /\ WellFormed([p EXCEPT !.up = << >>])
<1> DEFINE Wire == {"join", "reconnect", "leave", "rebuy"} \X (Rooms \cup {NoRoom})
           u == p.up
<1>1. p \in Pages /\ OneEach(p.rooms) /\ u \in Seq(Wire)
  BY DEF WellFormed, Pages
<1>2. \A w \in Seq(Wire) : WellFormed([p EXCEPT !.up = w])
  BY <1>1 DEF WellFormed, Pages
<1>3. ASSUME NEW type \in {"join", "reconnect", "leave", "rebuy"}, NEW r \in Rooms \cup {NoRoom}
      PROVE  Append(u, <<type, r>>) \in Seq(Wire) /\ <<<<type, r>>>> \in Seq(Wire)
  <2> DEFINE e == <<type, r>>
  <2>1. e \in Wire
    OBVIOUS
  <2> HIDE DEF e, Wire, u
  <2>2. Append(u, e) \in Seq(Wire)
    BY <1>1, <2>1, AppendProperties
  <2>3. <<e>> \in Seq(Wire)
    BY <2>1, SingleList
  <2> QED
    BY <2>2, <2>3 DEF e
<1> HIDE DEF Wire
<1>4. u # << >> => Tail(u) \in Seq(Wire)
  BY <1>1, HeadTailProperties
<1>5. << >> \in Seq(Wire)
  BY EmptySeq
<1> QED
  BY <1>2, <1>3, <1>4, <1>5

LEMMA ClicksKeep ==
  ASSUME mode = "play", PageInv, Settled,
         AddTable \/ CloseDialog \/ (\E r \in Rooms : SwitchTable(r))
  PROVE  PageInv'
<1> USE DEF PageInv
<1>1. PageTypes /\ Patient /\ (page.adding => page.dialog)
  OBVIOUS
<1>2. /\ page \in Pages /\ OneEach(page.rooms) /\ page.hasJoined \in BOOLEAN
      /\ page.dialog \in BOOLEAN /\ page.adding \in BOOLEAN
  BY <1>1, PageFacts DEF WellFormed
<1>3. UNCHANGED <<mode, seen, seat, inHand, listed, down, left>>
  BY DEF AddTable, CloseDialog, SwitchTable, server
<1>4. PageTypes' <=> WellFormed(page')
  BY <1>1, <1>3 DEF PageTypes
<1>5. CASE AddTable
  <2>1. page' = [page EXCEPT !.adding = TRUE, !.dialog = TRUE]
    BY <1>5 DEF AddTable
  <2>2. WellFormed(page') /\ page'.dialog /\ page'.adding
    BY <1>2, <2>1 DEF WellFormed, Pages
  <2>3. page'.isJoining = page.isJoining /\ page'.hasJoined = page.hasJoined
    BY <1>2, <2>1 DEF Pages
  <2> QED
    BY <1>1, <1>3, <1>4, <2>2, <2>3 DEF Asked, Patient
<1>6. CASE CloseDialog
  <2>1. CASE route' = "leaving" /\ UNCHANGED <<page, excused>>
    BY <1>1, <1>3, <1>4, <2>1 DEF Patient, PageTypes
  <2>2. CASE page' = [page EXCEPT !.adding = FALSE, !.dialog = FALSE] /\ excused' = TRUE
    <3>1. /\ WellFormed(page') /\ ~page'.dialog /\ ~page'.adding
          /\ page'.isJoining = page.isJoining /\ page'.hasJoined = page.hasJoined
      BY <1>2, <2>2 DEF WellFormed, Pages
    <3> QED
      BY <1>1, <1>3, <1>4, <2>2, <3>1 DEF Asked, Patient
  <2> QED
    BY <1>6, <2>1, <2>2 DEF CloseDialog
<1>7. ASSUME NEW r \in Rooms, SwitchTable(r) PROVE PageInv'
  <2>1. page' = [page EXCEPT !.active = r] /\ Holds(page, r)
    BY <1>7 DEF SwitchTable
  <2>2. /\ WellFormed(page') /\ page'.rooms = page.rooms /\ page'.dialog = page.dialog
        /\ page'.adding = page.adding /\ page'.isJoining = page.isJoining
        /\ page'.hasJoined = page.hasJoined
    BY <1>2, <2>1 DEF WellFormed, Pages
  <2>3. page'.rooms # << >>
    BY <2>1, <2>2 DEF Holds
  <2> QED
    BY <1>1, <1>3, <1>4, <2>2, <2>3 DEF Asked, Alone, Patient
<1> QED
  BY <1>5, <1>6, <1>7

(* What a confirmed buy-in changes.                                        *)
LEMMA JoinSent ==
  ASSUME NEW p, WellFormed(p)
  PROVE  /\ WellFormed(SendJoin(p)) /\ SendJoin(p).rooms = p.rooms
         /\ SendJoin(p).isJoining = p.isJoining /\ SendJoin(p).hasJoined = p.hasJoined
<1>1. CASE p.online
  <2> DEFINE q == [p EXCEPT !.up = Append(@, <<"join", NoRoom>>)]
  <2>1. WellFormed(q) /\ p \in Pages
    BY Sends DEF WellFormed
  <2>2. q.rooms = p.rooms /\ q.isJoining = p.isJoining /\ q.hasJoined = p.hasJoined
    BY <2>1 DEF Pages
  <2>3. SendJoin(p) = [q EXCEPT !.pending = FALSE]
    BY <1>1 DEF SendJoin
  <2> HIDE DEF q
  <2> QED
    BY <2>1, <2>2, <2>3 DEF WellFormed, Pages
<1>2. CASE ~p.online
  BY <1>2 DEF SendJoin, WellFormed, Pages
<1> QED
  BY <1>1, <1>2

LEMMA ConfirmKeeps ==
  ASSUME mode = "play", PageInv, Settled, ConfirmDialog
  PROVE  PageInv'
<1> USE DEF PageInv
<1>1. PageTypes /\ Patient
  OBVIOUS
<1>2. /\ page \in Pages /\ WellFormed(page) /\ page.hasJoined \in BOOLEAN
      /\ page.dialog \in BOOLEAN /\ page.adding \in BOOLEAN /\ page.isJoining \in BOOLEAN
  BY <1>1, PageFacts
<1>3. /\ UNCHANGED <<mode, seen, seat, inHand, listed, down>>
      /\ page' = Confirmed(page) /\ excused' = page.adding
      /\ left' = (left /\ (page.adding \/ HeroSeated(page)))
  BY DEF ConfirmDialog, server
<1>4. PageTypes' <=> WellFormed(page')
  BY <1>1, <1>3 DEF PageTypes
<1> DEFINE q == SendJoin(page)
<1>5. WellFormed(q) /\ q.rooms = page.rooms /\ q.isJoining = page.isJoining /\ q.hasJoined = page.hasJoined
  BY <1>2, JoinSent
<1>6. CASE page.adding
  <2>1. page' = [q EXCEPT !.adding = FALSE, !.dialog = FALSE]
    BY <1>3, <1>6 DEF Confirmed
  <2> HIDE DEF q
  <2>2. /\ WellFormed(page') /\ ~page'.dialog /\ ~page'.adding
        /\ page'.isJoining = q.isJoining /\ page'.hasJoined = q.hasJoined
    BY <1>5, <2>1 DEF WellFormed, Pages
  <2> QED
    BY <1>1, <1>3, <1>4, <1>5, <1>6, <2>2 DEF Asked, Patient
<1>7. CASE ~page.adding /\ ~HeroSeated(page)
  <2>1. page' = [q EXCEPT !.hasJoined = TRUE, !.isJoining = TRUE, !.dialog = FALSE]
    BY <1>3, <1>7 DEF Confirmed
  <2> HIDE DEF q
  <2>2. /\ WellFormed(page') /\ ~page'.dialog /\ page'.isJoining /\ page'.hasJoined
        /\ page'.adding = q.adding
    BY <1>5, <2>1 DEF WellFormed, Pages
  <2>3. q.adding = page.adding
    BY <1>2 DEF q, SendJoin, Pages
  <2> QED
    BY <1>1, <1>3, <1>4, <1>7, <2>2, <2>3 DEF Asked, Alone, Patient
<1>8. CASE ~page.adding /\ HeroSeated(page)
  <2> DEFINE w == [page EXCEPT !.up = Append(@, <<"rebuy", page.active>>)]
  <2>1. \/ page' = [page EXCEPT !.dialog = FALSE]
        \/ page' = [w EXCEPT !.dialog = FALSE]
    BY <1>2, <1>3, <1>8 DEF Confirmed, Pages
  <2>2. page.active \in Rooms \cup {NoRoom}
    BY <1>2 DEF Pages
  <2>3. WellFormed(w)
    BY <1>2, <2>2, Sends
  <2>4. /\ w.rooms = page.rooms /\ w.isJoining = page.isJoining /\ w.adding = page.adding
        /\ w.hasJoined = page.hasJoined
    BY <1>2 DEF Pages
  <2> HIDE DEF w
  <2>5. /\ WellFormed(page') /\ ~page'.dialog /\ page'.rooms = page.rooms
        /\ page'.isJoining = page.isJoining /\ page'.hasJoined = page.hasJoined
        /\ page'.adding = page.adding
    BY <1>2, <2>1, <2>3, <2>4 DEF WellFormed, Pages
  <2>6. page.rooms # << >>
    BY <1>8, Unseen
  <2> QED
    BY <1>1, <1>3, <1>4, <1>8, <2>5, <2>6 DEF Asked, Alone, Patient
<1> QED
  BY <1>2, <1>6, <1>7, <1>8

LEMMA LeaveKeeps ==
  ASSUME mode = "play", PageInv, Settled, LeaveTable
  PROVE  PageInv'
<1> USE DEF PageInv
<1> DEFINE id == IF page.active = NoRoom THEN FirstOf(page.rooms) ELSE page.active
           p1 == [page EXCEPT !.active = FirstOf(Others(page, id))]
           r1 == RemoveRoom(p1, id)
           s1 == [r1 EXCEPT !.up = Append(@, <<"leave", id>>)]
<1>1. PageTypes /\ Patient
  OBVIOUS
<1>2. /\ page \in Pages /\ WellFormed(page) /\ page.hasJoined \in BOOLEAN
      /\ page.dialog \in BOOLEAN /\ page.adding \in BOOLEAN /\ page.isJoining \in BOOLEAN
  BY <1>1, PageFacts
<1>3. /\ UNCHANGED <<mode, seen, seat, inHand, listed, down>>
      /\ page' = [SendLeave(page, id) EXCEPT !.hasJoined = FALSE]
      /\ route' = IF Len(page.rooms) <= 1 THEN "leaving" ELSE route
      /\ left' = (left \/ page.isJoining)
  BY DEF LeaveTable, server
<1>4. PageTypes' <=> WellFormed(page')
  BY <1>1, <1>3 DEF PageTypes
<1>5. CASE ~page.online
  <2>1. page' = [page EXCEPT !.hasJoined = FALSE]
    BY <1>3, <1>5 DEF SendLeave
  <2> HIDE DEF id
  <2>2. /\ WellFormed(page') /\ ~page'.online /\ page'.isJoining = page.isJoining
        /\ page'.adding = page.adding /\ page'.dialog = page.dialog
    BY <1>2, <1>5, <2>1 DEF WellFormed, Pages
  <2> QED
    BY <1>1, <1>3, <1>4, <2>2 DEF Asked, Alone, Patient
<1>6. CASE page.online
  <2>1. page' = [s1 EXCEPT !.hasJoined = FALSE]
    BY <1>3, <1>6 DEF SendLeave
  <2>2. Others(page, id) \in Seq(Entries) /\ (Len(page.rooms) > 1 => Others(page, id) # << >>)
    <3>1. page.rooms \in Seq(Entries)
      BY <1>2 DEF Pages
    <3>2. /\ Others(page, id) \in Seq(Entries)
          /\ ~Holds(page, id) => Others(page, id) = page.rooms
          /\ Holds(page, id) => Len(Others(page, id)) = Len(page.rooms) - 1
      BY <1>2, OthersOfRoom
    <3>3. Len(page.rooms) \in Nat
      BY <3>1
    <3> HIDE DEF id
    <3> QED
      BY <3>2, <3>3
  <2>3. FirstOf(Others(page, id)) \in Rooms \cup {NoRoom}
    <3>1. CASE Others(page, id) = << >>
      BY <3>1 DEF FirstOf
    <3>2. CASE Others(page, id) # << >>
      <4>1. Head(Others(page, id)) \in Entries
        BY <2>2, <3>2, HeadTailProperties
      <4> QED
        BY <3>2, <4>1 DEF FirstOf, Entries
    <3> QED
      BY <3>1, <3>2
  <2>4. id \in Rooms \cup {NoRoom}
    <3>1. page.active \in Rooms \cup {NoRoom} /\ page.rooms \in Seq(Entries)
      BY <1>2 DEF Pages
    <3>2. FirstOf(page.rooms) \in Rooms \cup {NoRoom}
      <4>1. CASE page.rooms = << >>
        BY <4>1 DEF FirstOf
      <4>2. CASE page.rooms # << >>
        <5>1. Head(page.rooms) \in Entries
          BY <3>1, <4>2, HeadTailProperties
        <5> QED
          BY <4>2, <5>1 DEF FirstOf, Entries
      <4> QED
        BY <4>1, <4>2
    <3> QED
      BY <3>1, <3>2
  <2> HIDE DEF id
  <2>5. WellFormed(p1) /\ Steady(page, p1) /\ p1.rooms = page.rooms
    BY <1>2, <2>3 DEF WellFormed, Pages, Steady
  <2> HIDE DEF p1
  <2>6. WellFormed(r1) /\ Steady(p1, r1) /\ r1.rooms = Others(p1, id)
    BY <2>5, RoomRemoved
  <2>7. Others(p1, id) = Others(page, id)
    BY <2>5 DEF Others, Holds, Place
  <2> HIDE DEF r1
  <2>8. WellFormed(s1)
    BY <2>4, <2>6, Sends
  <2>9. /\ s1.rooms = r1.rooms /\ s1.isJoining = r1.isJoining /\ s1.adding = r1.adding
        /\ s1.dialog = r1.dialog
    BY <2>6 DEF WellFormed, Pages
  <2> HIDE DEF s1
  <2>10. /\ WellFormed(page') /\ page'.rooms = s1.rooms /\ page'.isJoining = s1.isJoining
         /\ page'.adding = s1.adding /\ page'.dialog = s1.dialog
    BY <2>1, <2>8 DEF WellFormed, Pages
  <2>11. /\ page'.rooms = Others(page, id) /\ page'.isJoining = page.isJoining
         /\ page'.adding = page.adding /\ page'.dialog = page.dialog
    BY <2>5, <2>6, <2>7, <2>9, <2>10 DEF Steady
  <2>12. route' = "here" => Len(page.rooms) > 1
    <3>1. Len(page.rooms) \in Nat
      BY <1>2 DEF Pages
    <3> QED
      BY <1>3, <3>1
  <2> QED
    BY <1>1, <1>3, <1>4, <2>2, <2>10, <2>11, <2>12 DEF Asked, Alone, Patient
<1> QED
  BY <1>5, <1>6

-----------------------------------------------------------------------------
(* The socket.                                                             *)
LEMMA DropKeeps ==
  ASSUME mode = "play", PageInv, Settled, Drop
  PROVE  PageInv'
<1> USE DEF PageInv
<1>1. PageTypes /\ Patient
  OBVIOUS
<1>2. page \in Pages /\ WellFormed(page)
  BY <1>1, PageFacts
<1>3. /\ UNCHANGED <<mode, seen, seat, inHand, listed, left>> /\ down' = << >>
      /\ page' = [page EXCEPT !.online = FALSE, !.up = << >>]
  BY DEF Drop
<1> DEFINE w == [page EXCEPT !.up = << >>]
<1>4. WellFormed(w) /\ page' = [w EXCEPT !.online = FALSE]
  BY <1>2, <1>3, Sends DEF Pages
<1>5. /\ w.isJoining = page.isJoining /\ w.hasJoined = page.hasJoined
      /\ w.adding = page.adding /\ w.dialog = page.dialog
  BY <1>2 DEF Pages
<1> HIDE DEF w
<1>6. /\ WellFormed(page') /\ ~page'.online
      /\ page'.isJoining = page.isJoining /\ page'.hasJoined = page.hasJoined
      /\ page'.adding = page.adding /\ page'.dialog = page.dialog
  BY <1>4, <1>5 DEF WellFormed, Pages
<1>7. PageTypes'
  BY <1>1, <1>3, <1>6, EmptySeq DEF PageTypes
<1> QED
  BY <1>1, <1>3, <1>6, <1>7 DEF Asked, Alone, Patient

LEMMA ConnectKeeps ==
  ASSUME mode = "play", PageInv, Settled, Connect
  PROVE  PageInv'
<1> USE DEF PageInv
<1>1. PageTypes /\ Patient
  OBVIOUS
<1>2. page \in Pages /\ WellFormed(page) /\ ~page.online
  BY <1>1, PageFacts DEF Connect
<1> DEFINE type == IF page.pending THEN "join" ELSE "reconnect"
           w == [page EXCEPT !.up = <<<<type, NoRoom>>>>]
<1>3. /\ UNCHANGED <<mode, seen, seat, inHand, listed, down, left>>
      /\ page' = [w EXCEPT !.online = TRUE, !.notSeated = FALSE, !.pending = FALSE]
  <2>1. UNCHANGED <<mode, seen, seat, inHand, listed, down, left>>
    BY DEF Connect, server
  <2>2. page' = [page EXCEPT !.online = TRUE, !.notSeated = FALSE, !.pending = FALSE,
                             !.up = <<IF page.pending THEN <<"join", NoRoom>>
                                                      ELSE <<"reconnect", NoRoom>> >>]
    BY DEF Connect
  <2>3. (IF page.pending THEN <<"join", NoRoom>> ELSE <<"reconnect", NoRoom>>) = <<type, NoRoom>>
    OBVIOUS
  <2> DEFINE e == IF page.pending THEN <<"join", NoRoom>> ELSE <<"reconnect", NoRoom>>
  <2>4. page' = [page EXCEPT !.online = TRUE, !.notSeated = FALSE, !.pending = FALSE, !.up = <<e>>]
    BY <2>2
  <2>5. w = [page EXCEPT !.up = <<e>>]
    BY <2>3
  <2> HIDE DEF e, w
  <2>6. page' = [w EXCEPT !.online = TRUE, !.notSeated = FALSE, !.pending = FALSE]
    BY <1>2, <2>4, <2>5 DEF Pages
  <2> QED
    BY <2>1, <2>6
<1>4. WellFormed(w)
  <2>1. type \in {"join", "reconnect", "leave", "rebuy"}
    OBVIOUS
  <2> HIDE DEF type
  <2> QED
    BY <1>2, <2>1, Sends
<1>5. /\ w.isJoining = page.isJoining /\ w.hasJoined = page.hasJoined
      /\ w.adding = page.adding /\ w.dialog = page.dialog
  BY <1>2 DEF Pages
<1> HIDE DEF w
<1>6. /\ WellFormed(page') /\ page'.online
      /\ page'.isJoining = page.isJoining /\ page'.hasJoined = page.hasJoined
      /\ page'.adding = page.adding /\ page'.dialog = page.dialog
  BY <1>3, <1>4, <1>5 DEF WellFormed, Pages
<1>7. PageTypes'
  BY <1>1, <1>3, <1>6 DEF PageTypes
(* Both effects of the buy-in depend on the connection.                    *)
<1>8. seen'[3] # JoinDeps(page') /\ seen'[4] # RebuyDeps(page')
  <2>1. seen[3] = JoinDeps(page) /\ seen[4] = RebuyDeps(page)
    BY DEF Settled, Deps
  <2>2. JoinDeps(page)[1] = page.online /\ RebuyDeps(page)[2] = page.online
        /\ JoinDeps(page')[1] = page'.online /\ RebuyDeps(page')[2] = page'.online
    BY DEF JoinDeps, RebuyDeps
  <2> QED
    BY <1>2, <1>3, <1>6, <2>1, <2>2
<1> QED
  BY <1>1, <1>3, <1>6, <1>7, <1>8 DEF Asked, Patient

LEMMA ReceiveKeeps ==
  ASSUME mode = "play", PageInv, Settled, Receive
  PROVE  PageInv'
<1> USE DEF PageInv
<1>1. PageTypes /\ Patient /\ down # << >>
  BY DEF Receive
<1>2. /\ page \in Pages /\ WellFormed(page)
      /\ page.notSeated \in BOOLEAN /\ page.hasJoined \in BOOLEAN
  BY <1>1, PageFacts
<1> DEFINE m == Head(down)
<1>3. /\ UNCHANGED <<mode, seen, seat, inHand, listed, route, left>> /\ down' = Tail(down)
      /\ page' = Received(page, m)
      /\ excused' = (excused \/ (m.type = "Not seated" /\ page.notSeated))
  BY DEF Receive, server
<1>4. m \in Notes /\ Tail(down) \in Seq(Notes)
  BY <1>1, HeadTailProperties DEF PageTypes
<1> HIDE DEF m
<1>5. /\ WellFormed(page') /\ Steady(page, page')
      /\ page'.rooms = << >> => m.type = "Not seated"
      /\ m.type = "Not seated" => page'.notSeated
  BY <1>2, <1>3, <1>4, ReceivedIs
<1>6. PageTypes'
  BY <1>1, <1>3, <1>4, <1>5 DEF PageTypes
<1>7. ASSUME Alone' PROVE excused'
  <2>1. m.type = "Not seated" /\ page'.notSeated /\ ~page'.isJoining
    BY <1>5, <1>7 DEF Alone
  <2>2. CASE page.notSeated
    BY <1>3, <2>1, <2>2
  (* The answer is news: its effect is due.                                *)
  <2>3. CASE ~page.notSeated
    <3>1. seen'[2] = NotSeatedDeps(page)
      BY <1>3 DEF Settled, Deps
    <3>2. NotSeatedDeps(page)[1] = page.notSeated /\ NotSeatedDeps(page')[1] = page'.notSeated
      BY DEF NotSeatedDeps
    <3>3. seen'[2] # NotSeatedDeps(page')
      BY <2>1, <2>3, <3>1, <3>2
    <3> QED
      BY <1>7, <2>1, <3>3 DEF Alone, NotSeatedDue
  <2> QED
    BY <2>2, <2>3
<1> QED
  BY <1>1, <1>3, <1>5, <1>6, <1>7 DEF Asked, Patient, Steady

-----------------------------------------------------------------------------
(* The server changes what it sends; the page is as before.                *)
SamePage == /\ page'.online = page.online /\ page'.rooms = page.rooms
            /\ page'.isJoining = page.isJoining /\ page'.hasJoined = page.hasJoined
            /\ page'.adding = page.adding /\ page'.dialog = page.dialog

LEMMA ServerKeeps ==
  ASSUME mode = "play", PageInv, Settled, PageTypes', SamePage,
         UNCHANGED <<mode, seen, route, excused, left>>
  PROVE  PageInv'
<1> USE DEF PageInv, SamePage
<1>1. PageTypes /\ Patient /\ page.hasJoined \in BOOLEAN
  BY PageFacts
<1>2. ASSUME route' = "here", Alone' PROVE page'.dialog \/ excused'
  <2>1. page.online /\ page.rooms = << >> /\ ~page.isJoining /\ Asked
    BY <1>2 DEF Alone
  <2> QED
    BY <1>1, <2>1, Quiet
<1> QED
  BY <1>1, <1>2 DEF Asked, Patient

LEMMA ServeKeeps ==
  ASSUME mode = "play", PageInv, Settled, Serve
  PROVE  PageInv'
<1>1. PageTypes
  BY DEF PageInv
<1>2. page \in Pages /\ WellFormed(page)
  BY <1>1, PageFacts
<1>3. /\ page' = [page EXCEPT !.up = Tail(@)] /\ page.up # << >>
      /\ UNCHANGED <<mode, seen, route, excused, left>>
  BY DEF Serve
<1>4. WellFormed(page')
  BY <1>2, <1>3, Sends
<1>5. SamePage
  BY <1>2, <1>3 DEF Pages, SamePage
<1>6. /\ down' \in Seq(Notes) /\ listed' \subseteq Rooms
      /\ seat' \in [Rooms -> {"none", "chips", "broke"}] /\ inHand' \in [Rooms -> BOOLEAN]
  <2>0. /\ down \in Seq(Notes) /\ listed \subseteq Rooms
        /\ seat \in [Rooms -> {"none", "chips", "broke"}] /\ inHand \in [Rooms -> BOOLEAN]
    BY <1>1 DEF PageTypes
  <2>a. ASSUME NEW said \in Seq(Notes), Answer(said) PROVE down' \in Seq(Notes)
    BY <2>0, <2>a, ConcatProperties DEF Answer
  <2>1. CASE ServeJoin
    <3>1. CASE UNCHANGED <<server, down>>
      BY <2>0, <3>1 DEF server
    <3>2. ASSUME NEW r \in Rooms, Answer(<<Says("RoomAssigned", r)>>), UNCHANGED server
          PROVE  down' \in Seq(Notes) /\ UNCHANGED <<seat, inHand, listed>>
      <4>1. Says("RoomAssigned", r) \in Notes
        BY NotesAre
      <4>2. <<Says("RoomAssigned", r)>> \in Seq(Notes)
        BY <4>1, SingleList
      <4> QED
        BY <2>a, <3>2, <4>2 DEF server
    <3>3. ASSUME NEW r \in Rooms,
                 /\ seat' = [seat EXCEPT ![r] = "chips"]
                 /\ listed' = listed \cup {r} /\ heard' = heard \cup {r}
                 /\ Answer(<<Says("RoomAssigned", r), Says("Connected", r), TableState(r, "chips", FALSE)>>)
                 /\ UNCHANGED inHand
          PROVE  /\ down' \in Seq(Notes) /\ listed' \subseteq Rooms /\ UNCHANGED inHand
                 /\ seat' \in [Rooms -> {"none", "chips", "broke"}]
      <4> DEFINE a == Says("RoomAssigned", r)
                 b == Says("Connected", r)
                 c == TableState(r, "chips", FALSE)
      <4>1. a \in Notes /\ b \in Notes /\ c \in Notes
        BY NotesAre
      <4>2. Answer(<<a, b, c>>)
        BY <3>3
      <4> HIDE DEF a, b, c
      <4>3. <<a, b, c>> \in Seq(Notes)
        BY ONLY <4>1
      <4>4. down' \in Seq(Notes)
        BY <2>a, <4>2, <4>3
      <4> QED
        BY <2>0, <3>3, <4>4
    <3> QED
      BY <2>0, <2>1, <3>1, <3>2, <3>3 DEF ServeJoin
  <2>2. CASE ServeReconnect
    <3>1. PICK said \in Reconnected : Answer(said)
      BY <2>2 DEF ServeReconnect
    <3>2. said \in Seq(Notes)
      BY <1>1, <3>1, ReconnectedAre
    <3>3. down' \in Seq(Notes)
      BY <2>a, <3>1, <3>2
    <3> QED
      BY <2>0, <2>2, <3>3 DEF ServeReconnect
  <2>3. ASSUME NEW r, ServeLeave(r)
        PROVE  /\ down' = down /\ listed' \subseteq Rooms /\ inHand' = inHand
               /\ seat' \in [Rooms -> {"none", "chips", "broke"}]
    BY <2>0, <2>3 DEF ServeLeave, server
  <2> QED
    BY <2>0, <2>1, <2>2, <2>3 DEF Serve
<1>7. PageTypes'
  BY <1>4, <1>6 DEF PageTypes
<1> QED
  BY <1>3, <1>5, <1>7, ServerKeeps

LEMMA TableKeeps ==
  ASSUME mode = "play", PageInv, Settled, NEW r \in Rooms,
         Play(r) \/ OthersPlay(r) \/ VotedOut(r)
  PROVE  PageInv'
<1>1. PageTypes
  BY DEF PageInv
<1>2. UNCHANGED <<mode, page, seen, route, listed, excused, left>>
  BY DEF Play, OthersPlay, VotedOut, server
<1>3. SamePage
  BY <1>2 DEF SamePage
<1>4. /\ seat \in [Rooms -> {"none", "chips", "broke"}] /\ inHand \in [Rooms -> BOOLEAN]
      /\ down \in Seq(Notes)
  BY <1>1 DEF PageTypes
<1>5. /\ seat' \in [Rooms -> {"none", "chips", "broke"}] /\ inHand' \in [Rooms -> BOOLEAN]
  <2>1. CASE VotedOut(r)
    BY <1>4, <2>1 DEF VotedOut
  <2>2. CASE Play(r)
    BY <1>4, <2>2 DEF Play
  <2>3. CASE OthersPlay(r)
    BY <1>4, <2>3 DEF OthersPlay, server
  <2> QED
    BY <2>1, <2>2, <2>3
<1>6. down' \in Seq(Notes)
  <2>1. CASE down' = down
    BY <1>4, <2>1
  <2>2. CASE down' = Append(down, TableState(r, seat'[r], inHand'[r]))
    <3>1. TableState(r, seat'[r], inHand'[r]) \in Notes
      <4>1. seat'[r] \in {"none", "chips", "broke"} /\ inHand'[r] \in BOOLEAN
        BY <1>5
      <4> QED
        BY <4>1, NotesAre
    <3> QED
      BY <1>4, <2>2, <3>1, AppendProperties
  <2>3. CASE down' = Append(down, TableState(r, "none", FALSE))
    <3>1. TableState(r, "none", FALSE) \in Notes
      BY NotesAre
    <3> QED
      BY <1>4, <2>3, <3>1, AppendProperties
  <2> QED
    BY <2>1, <2>2, <2>3 DEF Play, OthersPlay, VotedOut
<1>7. PageTypes'
  BY <1>1, <1>2, <1>5, <1>6 DEF PageTypes
<1> QED
  BY <1>2, <1>3, <1>7, ServerKeeps

LEMMA ModeStays == [PageNext]_pageVars => mode' = mode
BY DEF PageNext, Event, pageVars, AddTable, CloseDialog, ConfirmDialog, LeaveTable, Drop, Connect,
       Receive, Serve, SwitchTable, Play, OthersPlay, VotedOut, Effects, Navigate

LEMMA PageStep == PageInv /\ [PageNext]_pageVars => PageInv'
<1> SUFFICES ASSUME PageInv, [PageNext]_pageVars PROVE PageInv'
  OBVIOUS
<1>1. mode' = mode
  BY ModeStays
<1>2. CASE mode # "play"
  BY <1>1, <1>2 DEF PageInv
<1>3. CASE mode = "play" /\ Settled /\ Event
  BY <1>3, ClicksKeep, ConfirmKeeps, LeaveKeeps, DropKeeps, ConnectKeeps, ReceiveKeeps, ServeKeeps,
     TableKeeps DEF Event
<1>4. CASE mode = "play" /\ ~Settled /\ Effects
  BY <1>4, EffectsKeep
<1>5. CASE Navigate
  BY <1>5 DEF Navigate, PageInv, PageTypes, Patient, server
<1>6. CASE UNCHANGED pageVars
  BY <1>6 DEF pageVars, server, PageInv, PageTypes, Asked, Alone, NotSeatedDue, Patient
<1> QED
  BY <1>2, <1>3, <1>4, <1>5, <1>6 DEF PageNext

LEMMA PageAlways == PageSpec => []PageInv
<1> QED
  BY PageAtFirst, PageStep, PTL DEF PageSpec

(* A connected player who has no table is asked for a buy-in (see          *)
(* AskedWhenUnseated).                                                     *)
THEOREM UnseatedIsAsked == PageSpec => []AskedWhenUnseated
<1>1. PageInv => AskedWhenUnseated
  <2> SUFFICES ASSUME PageInv, Playing, page.online, page.rooms = << >>, ~page.isJoining
               PROVE  page.dialog \/ excused
    BY DEF AskedWhenUnseated
  <2>1. PageTypes /\ Asked /\ Settled
    BY DEF PageInv, Playing
  <2> QED
    BY <2>1, Quiet, PageFacts
<1> QED
  BY <1>1, PageAlways, PTL

(* The question for one more table stays (see AddingIsShown).              *)
THEOREM QuestionStays == PageSpec => []AddingIsShown
<1>1. PageInv => AddingIsShown
  BY DEF PageInv, AddingIsShown, Playing
<1> QED
  BY <1>1, PageAlways, PTL

-----------------------------------------------------------------------------
(* The buy-ins under way.                                                  *)
LEMMA JoinsCounted ==
  ASSUME NEW S, NEW u \in Seq(S)
  PROVE  IsFiniteSet({i \in DOMAIN u : u[i][1] = "join"}) /\ JoinsIn(u) \in Nat
<1> DEFINE T == {i \in DOMAIN u : u[i][1] = "join"}
<1>1. Len(u) \in Nat /\ DOMAIN u = 1 .. Len(u)
  OBVIOUS
<1>2. IsFiniteSet(1 .. Len(u))
  BY <1>1, FS_Interval
<1>3. T \in SUBSET (1 .. Len(u))
  BY <1>1
<1> HIDE DEF T
<1>4. IsFiniteSet(T) /\ Cardinality(T) \in Nat
  BY <1>2, <1>3, FS_Subset, FS_CardinalityType
<1> QED
  BY <1>4 DEF T, JoinsIn

LEMMA OtherAppended ==
  ASSUME NEW S, NEW u \in Seq(S), NEW e \in S, e[1] # "join"
  PROVE  JoinsIn(Append(u, e)) = JoinsIn(u)
<1> DEFINE w == Append(u, e)
<1>1. /\ Len(u) \in Nat /\ DOMAIN u = 1 .. Len(u) /\ DOMAIN w = 1 .. Len(u) + 1
      /\ \A i \in 1 .. Len(u) : w[i] = u[i]
      /\ w[Len(u) + 1] = e
  OBVIOUS
<1> HIDE DEF w
<1>2. \A i \in DOMAIN w : i \in DOMAIN u \/ i = Len(u) + 1
  BY <1>1
<1>3. DOMAIN u \subseteq DOMAIN w
  BY <1>1
<1>4. {i \in DOMAIN w : w[i][1] = "join"} = {i \in DOMAIN u : u[i][1] = "join"}
  BY <1>1, <1>2, <1>3
<1> QED
  BY <1>4 DEF JoinsIn, w

LEMMA FirstTaken ==
  ASSUME NEW S, NEW u \in Seq(S), u # << >>
  PROVE  JoinsIn(Tail(u)) <= JoinsIn(u)
<1> DEFINE w == Tail(u)
           T == {i \in DOMAIN u : u[i][1] = "join"}
           U == {i \in DOMAIN w : w[i][1] = "join"}
           f == [i \in U |-> i + 1]
<1>1. /\ Len(u) \in Nat /\ DOMAIN u = 1 .. Len(u) /\ DOMAIN w = 1 .. Len(u) - 1
      /\ \A i \in 1 .. Len(u) - 1 : w[i] = u[i + 1]
  <2>1. /\ Len(u) \in Nat /\ Len(u) # 0 /\ DOMAIN u = 1 .. Len(u)
        /\ w \in Seq(S) /\ Len(w) = Len(u) - 1 /\ \A i \in 1 .. Len(w) : w[i] = u[i + 1]
    BY HeadTailProperties
  <2> HIDE DEF w
  <2> QED
    BY <2>1
<1> HIDE DEF w
<1>2. IsFiniteSet(T)
  BY JoinsCounted
<1>3. \A i \in U : i \in Int /\ i + 1 \in T
  BY <1>1
<1>4. f \in Injection(U, T)
  <2>1. f \in [U -> T] /\ \A i, k \in U : f[i] = f[k] => i = k
    BY <1>3
  <2> QED
    BY <2>1 DEF Injection, IsInjective
<1> HIDE DEF T, U, f
<1>5. Cardinality(U) <= Cardinality(T)
  BY <1>2, <1>4, FS_Injection
<1> QED
  BY <1>5 DEF JoinsIn, T, U, w

LEMMA NoJoinIn == JoinsIn(<< >>) = 0
<1>1. {i \in DOMAIN << >> : (<< >>)[i][1] = "join"} = {}
  OBVIOUS
<1> QED
  BY <1>1, FS_EmptySet DEF JoinsIn

LEMMA OneIn == ASSUME NEW e PROVE JoinsIn(<<e>>) = IF e[1] = "join" THEN 1 ELSE 0
<1>1. DOMAIN <<e>> = {1} /\ <<e>>[1] = e
  OBVIOUS
<1>2. {i \in DOMAIN <<e>> : <<e>>[i][1] = "join"} = IF e[1] = "join" THEN {1} ELSE {}
  BY <1>1
<1> QED
  BY <1>2, FS_EmptySet, FS_Singleton DEF JoinsIn

Wire == {"join", "reconnect", "leave", "rebuy"} \X (Rooms \cup {NoRoom})

LEMMA WireIs ==
  ASSUME NEW p \in Pages
  PROVE  p.up \in Seq(Wire) /\ JoinsIn(p.up) \in Nat /\ p.pending \in BOOLEAN
<1>1. p.up \in Seq(Wire) /\ p.pending \in BOOLEAN
  BY DEF Pages, Wire
<1> QED
  BY <1>1, JoinsCounted

(* One more buy-in is asked for by a confirmation only, and one that was   *)
(* not sent goes out instead of being counted twice.                       *)
LEMMA NoMoreJoins ==
  ASSUME PageTypes, mode = "play", PageNext, ~ConfirmDialog
  PROVE  Joins(page') <= Joins(page)
<1>1. page \in Pages /\ WellFormed(page)
  BY PageFacts
<1>2. page.up \in Seq(Wire) /\ JoinsIn(page.up) \in Nat /\ page.pending \in BOOLEAN
  BY <1>1, WireIs
<1> HIDE DEF Wire
<1>3. ASSUME page'.up = page.up, page'.pending => page.pending, page'.pending \in BOOLEAN
      PROVE  Joins(page') <= Joins(page)
  BY <1>2, <1>3 DEF Joins
<1>4. ASSUME page' = page PROVE Joins(page') <= Joins(page)
  BY <1>2, <1>4 DEF Joins
<1>5. CASE Effects
  <2>1. Passed(page, page') /\ WellFormed(page')
    BY <1>1, <1>5, EffectsPass
  <2>2. page'.pending \in BOOLEAN
    BY <2>1 DEF WellFormed, Pages
  <2> QED
    BY <1>3, <2>1, <2>2 DEF Passed
<1>6. CASE Navigate \/ (\E r \in Rooms : Play(r) \/ OthersPlay(r) \/ VotedOut(r))
  BY <1>4, <1>6 DEF Navigate, Play, OthersPlay, VotedOut
<1>7. CASE AddTable \/ CloseDialog \/ (\E r \in Rooms : SwitchTable(r))
  <2>1. page'.up = page.up /\ page'.pending = page.pending
    BY <1>1, <1>7 DEF AddTable, CloseDialog, SwitchTable, Pages
  <2> QED
    BY <1>2, <1>3, <2>1
<1>8. CASE LeaveTable
  <2> DEFINE id == IF page.active = NoRoom THEN FirstOf(page.rooms) ELSE page.active
             q == SendLeave(page, id)
  <2>1. page' = [q EXCEPT !.hasJoined = FALSE] /\ id # NoRoom
    BY <1>8 DEF LeaveTable
  <2>2. CASE ~page.online
    <3>1. q = page
      BY <2>2 DEF SendLeave
    <3> HIDE DEF q
    <3>2. page'.up = page.up /\ page'.pending = page.pending
      BY <1>1, <2>1, <3>1 DEF Pages
    <3> QED
      BY <1>2, <1>3, <3>2
  <2>3. CASE page.online
    <3> DEFINE p1 == [page EXCEPT !.active = FirstOf(Others(page, id))]
               r1 == RemoveRoom(p1, id)
               s1 == [r1 EXCEPT !.up = Append(@, <<"leave", id>>)]
               e  == <<"leave", id>>
    <3>1. page' = [s1 EXCEPT !.hasJoined = FALSE]
      BY <2>1, <2>3 DEF SendLeave
    <3>2. r1.up = page.up /\ r1.pending = page.pending /\ DOMAIN r1 = DOMAIN page
      BY <1>1 DEF RemoveRoom, Pages
    <3>3. page'.up = Append(page.up, e) /\ page'.pending = page.pending
      <4> HIDE DEF r1
      <4>1. s1.up = Append(page.up, e) /\ s1.pending = page.pending /\ DOMAIN s1 = DOMAIN page
        BY <1>1, <3>2 DEF Pages
      <4> HIDE DEF s1
      <4> QED
        BY <1>1, <3>1, <4>1 DEF Pages
    <3>4. e \in Wire /\ e[1] # "join"
      <4>1. id \in Rooms \cup {NoRoom}
        <5>1. page.active \in Rooms \cup {NoRoom} /\ page.rooms \in Seq(Entries)
          BY <1>1 DEF Pages
        <5>2. CASE page.active # NoRoom
          BY <5>1, <5>2
        <5>3. CASE page.active = NoRoom
          <6>1. page.rooms # << >>
            BY <2>1, <5>3 DEF FirstOf
          <6>2. Head(page.rooms) \in Entries
            BY <5>1, <6>1, HeadTailProperties
          <6> QED
            BY <5>3, <6>1, <6>2 DEF FirstOf, Entries
        <5> QED
          BY <5>2, <5>3
      <4> HIDE DEF id
      <4> QED
        BY <4>1 DEF Wire
    <3> HIDE DEF e
    <3>5. JoinsIn(page'.up) = JoinsIn(page.up)
      BY <1>2, <3>3, <3>4, OtherAppended
    <3> QED
      BY <1>2, <3>3, <3>5 DEF Joins
  <2> QED
    BY <2>2, <2>3
<1>9. CASE Drop
  <2>1. page'.up = << >> /\ page'.pending = page.pending
    BY <1>1, <1>9 DEF Drop, Pages
  <2>2. JoinsIn(page'.up) = 0
    BY <2>1, NoJoinIn
  <2> QED
    BY <1>2, <2>1, <2>2 DEF Joins
<1>10. CASE Connect
  <2> DEFINE e == IF page.pending THEN <<"join", NoRoom>> ELSE <<"reconnect", NoRoom>>
  <2>1. page' = [page EXCEPT !.online = TRUE, !.notSeated = FALSE, !.pending = FALSE, !.up = <<e>>]
    BY <1>10 DEF Connect
  <2>2. e[1] = "join" <=> page.pending
    OBVIOUS
  <2> HIDE DEF e
  <2>3. page'.up = <<e>> /\ page'.pending = FALSE
    BY <1>1, <2>1 DEF Pages
  <2>4. JoinsIn(page'.up) = IF page.pending THEN 1 ELSE 0
    BY <2>2, <2>3, OneIn
  <2> QED
    BY <1>2, <2>3, <2>4 DEF Joins
<1>11. CASE Receive
  <2>1. down # << >> /\ page' = Received(page, Head(down)) /\ down \in Seq(Notes)
    BY <1>11 DEF Receive, PageTypes
  <2>2. Head(down) \in Notes
    BY <2>1, HeadTailProperties
  <2>3. Steady(page, page') /\ WellFormed(page')
    BY <1>1, <2>1, <2>2, ReceivedIs
  <2>4. page'.pending \in BOOLEAN
    BY <2>3 DEF WellFormed, Pages
  <2> QED
    BY <1>3, <2>3, <2>4 DEF Steady
<1>12. CASE Serve
  <2>1. page'.up = Tail(page.up) /\ page'.pending = page.pending /\ page.up # << >>
    BY <1>1, <1>12 DEF Serve, Pages
  <2>2. JoinsIn(page'.up) <= JoinsIn(page.up) /\ JoinsIn(page'.up) \in Nat
    <3>1. Tail(page.up) \in Seq(Wire)
      BY <1>2, <2>1, HeadTailProperties
    <3> QED
      BY <1>2, <2>1, <3>1, FirstTaken, JoinsCounted
  <2> QED
    BY <1>2, <2>1, <2>2 DEF Joins
<1> QED
  BY <1>5, <1>6, <1>7, <1>8, <1>9, <1>10, <1>11, <1>12 DEF PageNext, Event

(* No second buy-in while the page waits for the seat of a first one (see  *)
(* OneJoinAtATime).                                                        *)
THEOREM OneBuyIn == PageSpec => OneJoinAtATime
<1>1. ASSUME PageInv, [PageNext]_pageVars, mode = "play", Joins(page') > Joins(page)
      PROVE  ~page.isJoining \/ page.adding \/ left
  <2>1. PageTypes /\ Patient
    BY <1>1 DEF PageInv
  <2>2. Joins(page) \in Nat
    <3>1. JoinsIn(page.up) \in Nat /\ page.pending \in BOOLEAN
      BY <2>1, PageFacts, WireIs
    <3> QED
      BY <3>1 DEF Joins
  <2>3. ~UNCHANGED pageVars
    <3>1. ASSUME UNCHANGED pageVars PROVE FALSE
      <4>1. Joins(page') = Joins(page)
        BY <3>1 DEF pageVars
      <4> QED
        BY <1>1, <2>2, <4>1
    <3> QED
      BY <3>1
  <2>4. ConfirmDialog
    <3>1. ASSUME ~ConfirmDialog PROVE FALSE
      <4>1. Joins(page') <= Joins(page)
        BY <1>1, <2>1, <2>3, <3>1, NoMoreJoins
      <4>2. Joins(page') \in Int
        <5>1. PageInv' /\ mode' = "play"
          BY <1>1, PageStep, ModeStays
        <5>2. page' \in Pages
          BY <5>1 DEF PageInv, PageTypes, WellFormed
        <5>3. JoinsIn(page'.up) \in Nat /\ page'.pending \in BOOLEAN
          BY <5>2, WireIs
        <5> QED
          BY <5>3 DEF Joins
      <4> QED
        BY <1>1, <2>2, <4>1, <4>2
    <3> QED
      BY <3>1
  <2>5. page.dialog
    BY <2>4 DEF ConfirmDialog
  <2> QED
    BY <2>1, <2>5 DEF Patient
<1> QED
  BY <1>1, PageAlways, PTL DEF PageSpec, OneJoinAtATime
=============================================================================
