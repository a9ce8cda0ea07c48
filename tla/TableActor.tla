----------------------------- MODULE TableActor -----------------------------
(***************************************************************************)
(* The actor of one cash room: sb-table-registry/src/actor.rs.             *)
(*                                                                         *)
(* The actor takes one command at a time from its channel; an action below *)
(* is the handling of one command, or an event outside the actor that puts *)
(* a command in the channel (a timer fires, a socket closes).  Commands    *)
(* come from many tasks, so any command that may be in the channel may be  *)
(* the next one.                                                           *)
(*                                                                         *)
(* Abstracted: chips, bets and cards.  Whose stack is empty, and whose     *)
(* blind is short, is a choice where the code looks at it.  A call of the  *)
(* engine leads to any hand HandEngine allows: complete as soon as one     *)
(* seat is left, otherwise complete or waiting for an open seat            *)
(* (HandEngine!TurnIsOpen), and complete after finitely many calls         *)
(* (HandEngine!HandEnds).                                                  *)
(***************************************************************************)
EXTENDS FiniteSets, Naturals

CONSTANTS Users,
          Nobody,       \* no user
          Absent,       \* not in the players map
          NoHand,       \* current_hand is None
          Movers,       \* the users that join, drop, leave, sit out or are kicked
          MaxCalls,     \* bound: engine calls that change one hand
          MaxReveals,   \* bound: ShowdownComplete messages under way
          MaxConnects   \* bound: joins and reconnects of one behaviour

ASSUME MoversAssumption == Movers \subseteq Users /\ Nobody \notin Users
ASSUME BoundsAssumption == {MaxCalls, MaxReveals, MaxConnects} \subseteq Nat \ {0}

VARIABLES players,    \* [Users -> Seats]: the players map
          hand,       \* current_hand
          clock,      \* the user whose abortable turn timer runs, or Nobody
          due,        \* users with a Timeout message under way (one each: a bound)
          reveals,    \* ShowdownComplete messages under way
          socket,     \* [Users -> Sockets]: user_senders
          asked,      \* users whose WebSocket task has sent a forced Leave
          connects    \* joins and reconnects so far

vars == <<players, hand, clock, due, reveals, socket, asked, connects>>

(* The receiver of "closing" is about to be dropped, is_closed() is still  *)
(* false.                                                                  *)
Sockets == {"none", "live", "closing", "dead"}
Open(u) == socket[u] \in {"live", "closing"}

(* A Player.  leave_responder is held exactly while is_leaving is set; who *)
(* waits at its other end matters to the money only.                       *)
Seats == [leaving : BOOLEAN, out : BOOLEAN]
FreshSeat == [leaving |-> FALSE, out |-> FALSE]

Hands == [dealt : SUBSET Users,   \* the engine's players
          there : SUBSET Users,   \* keys of player_by_user_id
          live  : SUBSET Users,   \* dealt and not folded
          allIn : SUBSET Users,
          turn  : Users \cup {Nobody},
          left  : 0 .. MaxCalls]

ASSUME NamesAssumption == Absent \notin Seats /\ NoHand \notin Hands

Seated(ps)   == {u \in Users : ps[u] # Absent}
Leaving(ps)  == {u \in Seated(ps) : ps[u].leaving}
Eligible(ps) == {u \in Seated(ps) : ~ps[u].leaving /\ ~ps[u].out}

(* is_hand_complete, and then current_player_id is None.                   *)
Complete(h) == h.turn = Nobody
Running     == hand # NoHand /\ ~Complete(hand)

(* The current hand knows the user: it was dealt while he was seated.      *)
HeldByHand(u) == hand # NoHand /\ u \in hand.there

-----------------------------------------------------------------------------
(* What the engine may answer to one more call on hand h.                  *)
EngineResults(h) ==
  LET calls == IF h.left = 0 THEN 0 ELSE h.left - 1
      may   == IF Cardinality(h.live) <= 1 \/ h.left = 0 THEN {}
               ELSE h.live \ h.allIn
  IN  {[h EXCEPT !.turn = t, !.left = calls] : t \in may \cup {Nobody}}

MoreReveals == IF reveals < MaxReveals THEN reveals + 1 ELSE reveals

MayBeSet(h, ps) == ~Complete(h) /\ ~ps[h.turn].leaving

(* Mistake: nothing is sent for a leaver on turn.                          *)
ProceedForgetsLeaver(h, ps, d) ==
  /\ hand' = h /\ due' = d
  /\ clock' = IF MayBeSet(h, ps) THEN h.turn ELSE Nobody
  /\ reveals' = IF Complete(h) THEN MoreReveals ELSE reveals

(* Mistake: a complete hand is revealed but its end is never scheduled.    *)
ProceedForgetsReveal(h, ps, d) ==
  /\ hand' = h /\ UNCHANGED reveals
  /\ clock' = IF MayBeSet(h, ps) THEN h.turn ELSE Nobody
  /\ due' = IF Complete(h) \/ MayBeSet(h, ps) THEN d ELSE d \cup {h.turn}

(* What follows every engine call, d being the Timeouts still under way: a *)
(* leaver on turn gets a Timeout in 100 ms that nothing aborts, another    *)
(* user a turn timer; a complete hand is revealed and ShowdownComplete     *)
(* follows.                                                                *)
Proceed(h, ps, d) ==
  /\ hand' = h
  /\ clock' = IF MayBeSet(h, ps) THEN h.turn ELSE Nobody
  /\ due' = IF Complete(h) \/ MayBeSet(h, ps) THEN d ELSE d \cup {h.turn}
  /\ reveals' = IF Complete(h) THEN MoreReveals ELSE reveals

(* start_new_hand, no hand being in progress: two or more of the users who *)
(* neither leave nor sit out have chips and are dealt in; it gives up when *)
(* fewer have, or a blind is short.  The blinds may put their two posters  *)
(* all-in.                                                                 *)
StartHand(ps) ==
  /\ players' = ps
  /\ \/ hand' = NoHand /\ clock' = Nobody
     \/ \E dealt \in SUBSET Eligible(ps), posters \in SUBSET Eligible(ps), t \in Users :
          /\ Cardinality(dealt) >= 2
          /\ posters \subseteq dealt /\ Cardinality(posters) <= 2
          /\ t \in dealt \ posters
          /\ hand' = [dealt |-> dealt, there |-> Seated(ps), live |-> dealt,
                      allIn |-> posters, turn |-> t, left |-> MaxCalls]
          /\ clock' = t

(* The others are seated and no hand is in progress: the room after they   *)
(* joined while one of them sat out and sat in again.                      *)
Init == /\ players = [u \in Users |-> IF u \in Movers THEN Absent ELSE FreshSeat]
        /\ hand = NoHand /\ clock = Nobody
        /\ due = {}
        /\ reveals = 0
        /\ socket = [u \in Users |-> IF u \in Movers THEN "none" ELSE "live"]
        /\ asked = {} /\ connects = 0

-----------------------------------------------------------------------------
(* Commands of a connected player.                                         *)

(* join_player, user not seated.  The registry answers the join with the   *)
(* stack to debit; the money is the subject of another module.             *)
Join(u) ==
  /\ players[u] = Absent /\ connects < MaxConnects
  /\ connects' = connects + 1
  /\ socket' = [socket EXCEPT ![u] = "live"]
  /\ LET ps == [players EXCEPT ![u] = FreshSeat] IN
       IF Cardinality(Seated(ps)) >= 2 /\ hand = NoHand
       THEN StartHand(ps) /\ UNCHANGED due
       ELSE players' = ps /\ UNCHANGED <<hand, clock, due>>
  /\ UNCHANGED <<reveals, asked>>

(* handle_reconnect, and join_player for a user already seated: a leave    *)
(* under way is called off and its responder gets Cancelled.               *)
Reconnect(u) ==
  /\ u \in Movers /\ connects < MaxConnects
  /\ connects' = connects + 1
  /\ socket' = [socket EXCEPT ![u] = "live"]
  /\ players' = [players EXCEPT ![u] = IF @ = Absent THEN @ ELSE FreshSeat]
  /\ UNCHANGED <<hand, clock, due, reveals, asked>>

(* process_action, accepted: fold, check, call, bet or raise, the last two *)
(* possibly all-in.                                                        *)
Act(u) ==
  /\ Running /\ hand.turn = u
  /\ \E kind \in {"fold", "stay", "all-in"} :
       \E h \in EngineResults(
                  [hand EXCEPT !.live  = IF kind = "fold" THEN @ \ {u} ELSE @,
                               !.allIn = IF kind = "all-in" THEN @ \cup {u} ELSE @]) :
         Proceed(h, players, due)
  /\ UNCHANGED <<players, socket, asked, connects>>

(* set_sitting_out *)
SitOut(u) ==
  /\ u \in Movers /\ players[u] # Absent
  /\ players' = [players EXCEPT ![u].out = ~@]
  /\ UNCHANGED <<hand, clock, due, reveals, socket, asked, connects>>

(* The StartHand command of a seated user, and process_rebuy, which tries  *)
(* to start a hand for a user who had no chips left.                       *)
StartHandCommand(u) ==
  /\ players[u] # Absent /\ hand = NoHand
  /\ StartHand(players)
  /\ UNCHANGED <<due, reveals, socket, asked, connects>>

-----------------------------------------------------------------------------
(* Leaving.                                                                *)

(* Mistake: a leaver is taken off the table although his hand goes on.     *)
DeferredNot(u, force) ==
  /\ players' = [players EXCEPT ![u] = Absent]
  /\ socket' = [socket EXCEPT ![u] = "none"]
  /\ UNCHANGED <<hand, clock, due, reveals>>

(* A leave in the middle of a hand: the stack is kept until the hand ends. *)
(* A forced leaver who can still fold is folded out of turn, and forced or *)
(* not folded, the timer is cancelled and check_hand_completion runs.      *)
Deferred(u, force) ==
  LET ps == [players EXCEPT ![u].leaving = TRUE] IN
  /\ players' = ps /\ UNCHANGED socket
  /\ IF ~force THEN UNCHANGED <<hand, clock, due, reveals>>
     ELSE \E h \in IF u \in hand.live \ hand.allIn /\ ~Complete(hand)
                   THEN EngineResults([hand EXCEPT !.live = @ \ {u}])
                   ELSE {hand} :
            Proceed(h, ps, due)

(* leave_player_inner.  A forced leave is refused while the user's channel *)
(* is open; one for a user already leaving only replaces the responder.    *)
Leave(u, force, bypass) ==
  \/ /\ force /\ ~bypass /\ Open(u)
     /\ UNCHANGED <<players, hand, clock, due, reveals, socket>>
  \/ /\ ~(force /\ ~bypass /\ Open(u))
     /\ \/ /\ players[u] = Absent
           /\ socket' = [socket EXCEPT ![u] = "none"]
           /\ UNCHANGED <<players, hand, clock, due, reveals>>
        \/ /\ players[u] # Absent /\ players[u].leaving
           /\ UNCHANGED <<players, hand, clock, due, reveals, socket>>
        \/ /\ players[u] # Absent /\ ~players[u].leaving
           /\ HeldByHand(u)
           /\ Deferred(u, force)
        \/ /\ players[u] # Absent /\ ~players[u].leaving
           /\ ~HeldByHand(u)
           /\ players' = [players EXCEPT ![u] = Absent]
           /\ socket' = [socket EXCEPT ![u] = "none"]
           /\ UNCHANGED <<hand, clock, due, reveals>>

(* The forced Leave of the WebSocket task reaches the actor.               *)
LeaveAsked(u) ==
  /\ u \in asked
  /\ asked' = asked \ {u}
  /\ Leave(u, TRUE, FALSE)
  /\ UNCHANGED connects

(* A bot leaves without force (TableClient::leave_table).                  *)
LeaveUnforced(u) ==
  /\ u \in Movers /\ players[u] # Absent
  /\ Leave(u, FALSE, FALSE)
  /\ UNCHANGED <<asked, connects>>

(* finalize_kick_vote; who voted is not modelled.                          *)
Kick(u) ==
  /\ u \in Movers
  /\ Leave(u, TRUE, TRUE)
  /\ UNCHANGED <<asked, connects>>

(* broadcast and send_to_player spawn a forced Leave for a dead channel;   *)
(* nobody waits for its answer.                                            *)
LeaveOfDeadChannel(u) ==
  /\ socket[u] = "dead"
  /\ Leave(u, TRUE, FALSE)
  /\ UNCHANGED <<asked, connects>>

(* leave_table: the WebSocket task asks, its channel stays open.           *)
AskToLeave(u) ==
  /\ u \in Movers /\ players[u] # Absent /\ socket[u] = "live"
  /\ asked' = asked \cup {u}
  /\ UNCHANGED <<players, hand, clock, due, reveals, socket, connects>>

(* The socket closes: a forced Leave is spawned for every room the task    *)
(* still counts as its own, then the handler returns.                      *)
CloseSocket(u) ==
  /\ u \in Movers /\ socket[u] = "live"
  /\ socket' = [socket EXCEPT ![u] = "closing"]
  /\ \/ asked' = asked \cup {u}
     \/ UNCHANGED asked
  /\ UNCHANGED <<players, hand, clock, due, reveals, connects>>

DropReceiver(u) ==
  /\ socket[u] = "closing"
  /\ socket' = [socket EXCEPT ![u] = "dead"]
  /\ UNCHANGED <<players, hand, clock, due, reveals, asked, connects>>

-----------------------------------------------------------------------------
(* Timers and the end of a hand.                                           *)

(* The turn timer sends its Timeout: nothing can abort it any more.        *)
TimerFires ==
  /\ clock # Nobody
  /\ due' = due \cup {clock}
  /\ clock' = Nobody
  /\ UNCHANGED <<players, hand, reveals, socket, asked, connects>>

(* handle_timeout folds the user if he is on turn.  The message names its  *)
(* user, not the turn it was armed for: one that outlived its turn folds   *)
(* the user on a later one.                                                *)
Timeout(u) ==
  /\ u \in due
  /\ IF Running /\ hand.turn = u
     THEN \E h \in EngineResults([hand EXCEPT !.live = @ \ {u}]) :
            Proceed(h, players, due \ {u})
     ELSE due' = due \ {u} /\ UNCHANGED <<hand, clock, reveals>>
  /\ UNCHANGED <<players, socket, asked, connects>>

(* clear_board_and_start_next answers and removes everybody who is leaving *)
Cleared(ps) == [u \in Users |-> IF u \in Leaving(ps) THEN Absent ELSE ps[u]]

(* ShowdownComplete: finalize_hand_after_reveal takes whatever hand is     *)
(* current.  Its turn timer, if one still runs, is not aborted.            *)
FinishHand ==
  /\ reveals > 0
  /\ reveals' = reveals - 1
  /\ \/ /\ hand = NoHand
        /\ UNCHANGED <<players, hand, clock, due, socket>>
     \/ /\ hand # NoHand
        /\ socket' = [u \in Users |->
                        IF u \in Leaving(players) THEN "none" ELSE socket[u]]
        /\ due' = IF clock = Nobody THEN due ELSE due \cup {clock}
        /\ StartHand(Cleared(players))
  /\ UNCHANGED <<asked, connects>>

-----------------------------------------------------------------------------
Next ==
  \/ \E u \in Users : \/ Join(u) \/ Reconnect(u) \/ Act(u)
                      \/ SitOut(u) \/ StartHandCommand(u)
                      \/ LeaveAsked(u) \/ LeaveUnforced(u) \/ Kick(u)
                      \/ LeaveOfDeadChannel(u) \/ AskToLeave(u)
                      \/ CloseSocket(u) \/ DropReceiver(u)
                      \/ Timeout(u)
  \/ TimerFires
  \/ FinishHand

Spec == Init /\ [][Next]_vars

(* What the runtime promises: a timer that is not aborted fires, and a     *)
(* message in the channel is handled.  A reset starts a timer afresh; only *)
(* joins and reconnects make resets possible again, and they are bounded.  *)
(* Players promise nothing.                                                *)
Fairness == /\ WF_vars(TimerFires)
            /\ WF_vars(FinishHand)
            /\ \A u \in Users : WF_vars(Timeout(u))

FairSpec == Spec /\ Fairness

-----------------------------------------------------------------------------
TypeOK ==
  /\ players \in [Users -> Seats \cup {Absent}]
  /\ hand \in Hands \cup {NoHand}
  /\ clock \in Users \cup {Nobody}
  /\ due \subseteq Users
  /\ reveals \in 0 .. MaxReveals
  /\ socket \in [Users -> Sockets]
  /\ asked \subseteq Users
  /\ connects \in 0 .. MaxConnects

(* Whatever joins, leaves, kicks and reconnects do, a hand that waits for  *)
(* a user has a clock on that very turn: a timer that runs, or a Timeout   *)
(* already under way.  (Every path that ends in schedule_timeout or in the *)
(* 100 ms task for a leaver.)                                              *)
TurnIsTimed == Running => hand.turn \in {clock} \cup due

(* No timer runs for anybody but the user on turn.                         *)
ClockIsForTurn == clock # Nobody => Running /\ clock = hand.turn

(* A complete hand never lies on the table for ever: ShowdownComplete is   *)
(* under way.  (check_hand_completion)                                     *)
EndIsScheduled == hand # NoHand /\ Complete(hand) => reveals > 0

(* A user is marked as leaving only while a hand holds his stack: nobody   *)
(* is still leaving at a table without a hand, or was left out of it.      *)
(* (leave_player_inner, clear_board_and_start_next)                        *)
LeaversAreInTheHand ==
  \A u \in Leaving(players) : HeldByHand(u)

(* Every seat of the current hand is still taken by its user: the pots     *)
(* find everybody they may have to pay.  (process_winners pays only users  *)
(* that are in the players map)                                            *)
WinnersAreSeated == hand # NoHand => hand.dealt \subseteq Seated(players)

(* Who asked to leave is answered in the end, whoever drops, reconnects or *)
(* is kicked meanwhile.                                                    *)
LeavesAreAnswered ==
  \A u \in Movers :
    (u \in Leaving(players)) ~> (u \notin Leaving(players))

(* A hand is closed only when it is complete: its pot is then paid to the  *)
(* seats left in it, and calculate_pot_winners pays nobody before.         *)
(* (ShowdownComplete, the message that closes a hand, names no hand.)      *)
Closing == reveals' = reveals - 1 /\ hand # NoHand
OnlyCompleteHandsClose == [][Closing => Complete(hand)]_vars
=============================================================================
