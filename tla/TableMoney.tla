----------------------------- MODULE TableMoney -----------------------------
(***************************************************************************)
(* The chips of one cash room: between the wallets of the database, the    *)
(* stacks and the pot in the actor's memory, and the messages and tasks    *)
(* that carry them (sb-ws-handler/src/lib.rs with                          *)
(* sb-table-registry/src/actor.rs and registry.rs).                        *)
(*                                                                         *)
(* Abstracted: turns, cards and rounds (whoever has chips in the hand may  *)
(* act, any users in it share the pot), seats and buy-ins (one amount).    *)
(* Blinds are bets of their own step, and so is the next hand the actor    *)
(* starts by itself.  A user has one join or rebuy under way at a time.    *)
(* Bots and the shutdown of a room are left out.                           *)
(*                                                                         *)
(* Chips are made or lost by: a seat whose debit fails or is never tried,  *)
(* a second join of a user who is leaving, an answer that reaches nobody,  *)
(* a write that fails, a rebuy refused or dropped after it was paid for, a *)
(* leave paid twice, and the pot of a hand closed before it is complete.   *)
(* leak counts them, and ImplementsLedger says there are no other ways.    *)
(***************************************************************************)
EXTENDS Integers, FiniteSets, FiniteSetsExt

CONSTANTS Users,
          Absent,       \* not seated
          BuyIn,        \* chips of a join or a rebuy
          Wallets,      \* [Users -> Nat]: chip balances at the beginning
          MaxLeak,      \* bound: chips made or lost after which nobody joins
          MaxReveals    \* bound: ShowdownComplete messages under way

ASSUME ChipsAssumption == /\ BuyIn \in Nat \ {0}
                          /\ Wallets \in [Users -> Nat] /\ IsFiniteSet(Users)
                          /\ MaxLeak \in Nat /\ MaxReveals \in Nat \ {0}

VARIABLES wallet,   \* [Users -> Nat]: users.chip_balance
          seat,     \* [Users -> Seats \cup {Absent}]: the players map
          hand,     \* users the current hand knows; {} without a hand
          engine,   \* [users still in the hand -> Nat]: the stacks of GameState
          complete, \* the hand is complete, its reveal runs
          reveals,  \* ShowdownComplete messages under way
          pot,
          task,     \* [Users -> Tasks]: the WebSocket task of the user
          credit,   \* [Users -> Nat]: chips a task is about to put in a wallet
          queued,   \* [Users -> Nat]: pending_refunds
          socket,   \* [Users -> {"live", "dead"}]
          leak      \* chips made (> 0) or lost (< 0) so far

play == <<hand, engine, complete, reveals>>
vars == <<wallet, seat, play, pot, task, credit, queued, socket, leak>>

(* Where the WebSocket task is: a join waits for its debit, a rebuy is     *)
(* validated, then debited and enqueued.                                   *)
Tasks == {"idle", "joining", "validated", "rebuying"}

(* reply: who holds the other end of leave_responder.                      *)
Seats == [stack : Nat, leaving : BOOLEAN, reply : {"none", "task", "nobody"}]

ASSUME AbsentAssumption == Absent \notin Seats

Seated    == {u \in Users : seat[u] # Absent}
Leaving   == {u \in Seated : seat[u].leaving}
Stack(u)  == IF seat[u] = Absent THEN 0 ELSE seat[u].stack

(* A seat taken before its debit is owed; a rebuy debited before it is     *)
(* applied is on its way.                                                  *)
UnderWay(u) == CASE task[u] = "joining"  -> - BuyIn
                 [] task[u] = "rebuying" -> BuyIn
                 [] OTHER -> 0

(* What belongs to user u, wherever it is.                                 *)
Holdings(u) == wallet[u] + Stack(u) + credit[u] + queued[u] + UnderWay(u)

(* The stacks of GameState while there is no hand.                         *)
Nobody == [u \in {} |-> 0]

Bounded == leak \in -MaxLeak .. MaxLeak

Init == /\ wallet = Wallets
        /\ seat = [u \in Users |-> Absent]
        /\ hand = {} /\ engine = Nobody /\ complete = FALSE /\ reveals = 0
        /\ pot = 0
        /\ task = [u \in Users |-> "idle"]
        /\ credit = [u \in Users |-> 0]
        /\ queued = [u \in Users |-> 0]
        /\ socket = [u \in Users |-> "dead"]
        /\ leak = 0

-----------------------------------------------------------------------------
(* join_table: the actor seats the user with the stack he named ...  One   *)
(* who is leaving gets that stack in place of his own, and is answered     *)
(* that he is no new player: he is not debited.                            *)
Fresh == [stack |-> BuyIn, leaving |-> FALSE, reply |-> "none"]

Join(u) ==
  /\ Bounded /\ task[u] = "idle"
  /\ seat' = [seat EXCEPT ![u] = Fresh]
  /\ socket' = [socket EXCEPT ![u] = "live"]
  /\ \/ /\ seat[u] = Absent
        /\ task' = [task EXCEPT ![u] = "joining"] /\ UNCHANGED leak
     \/ /\ u \in Leaving
        /\ leak' = leak + BuyIn - Stack(u) /\ UNCHANGED task
  /\ UNCHANGED <<wallet, play, pot, credit, queued>>

(* ... and the wallet pays for it afterwards, unless it holds too little,  *)
(* the write fails or the answer comes too late.  The forced leave the     *)
(* task then sends is refused while the user's channel is open, it is the  *)
(* very one the task joined with; else it is a LeaveOfDeadChannel.         *)
Debit(u) ==
  \/ /\ wallet[u] >= BuyIn
     /\ wallet' = [wallet EXCEPT ![u] = @ - BuyIn] /\ UNCHANGED leak
  \/ UNCHANGED wallet /\ leak' = leak + BuyIn

DebitJoin(u) ==
  /\ task[u] = "joining"
  /\ Debit(u)
  /\ task' = [task EXCEPT ![u] = "idle"]
  /\ UNCHANGED <<seat, play, pot, credit, queued, socket>>

-----------------------------------------------------------------------------
(* rebuy: validate, debit, enqueue; the actor validates again.             *)
MayRebuy(u) == seat[u] # Absent /\ ~seat[u].leaving /\ seat[u].stack = 0

Validate(u) ==
  /\ task[u] = "idle" /\ MayRebuy(u)
  /\ task' = [task EXCEPT ![u] = "validated"]
  /\ UNCHANGED <<wallet, seat, play, pot, credit, queued, socket, leak>>

DebitRebuy(u) ==
  /\ task[u] = "validated"
  /\ \/ /\ wallet[u] >= BuyIn
        /\ wallet' = [wallet EXCEPT ![u] = @ - BuyIn]
        /\ task' = [task EXCEPT ![u] = "rebuying"]
     \/ UNCHANGED wallet /\ task' = [task EXCEPT ![u] = "idle"]
  /\ UNCHANGED <<seat, play, pot, credit, queued, socket, leak>>

(* process_rebuy.  Refused now, it is not given back: the task was only    *)
(* told that the command is queued.                                        *)
Rebuy(u) ==
  /\ task[u] = "rebuying"
  /\ task' = [task EXCEPT ![u] = "idle"]
  /\ IF MayRebuy(u)
     THEN seat' = [seat EXCEPT ![u].stack = BuyIn] /\ UNCHANGED leak
     ELSE UNCHANGED seat /\ leak' = leak - BuyIn
  /\ UNCHANGED <<wallet, play, pot, credit, queued, socket>>

(* The command is never sent: the client is gone, or the room does not     *)
(* take it and the chips are given back, if they can be written.           *)
DropRebuy(u) ==
  /\ task[u] = "rebuying"
  /\ task' = [task EXCEPT ![u] = "idle"]
  /\ \/ UNCHANGED wallet /\ leak' = leak - BuyIn
     \/ wallet' = [wallet EXCEPT ![u] = @ + BuyIn] /\ UNCHANGED leak
  /\ UNCHANGED <<seat, play, pot, credit, queued, socket>>

-----------------------------------------------------------------------------
(* A hand.                                                                 *)

(* flush_pending_refunds: every queued refund is written, or stays queued. *)
Flush(paid) ==
  /\ wallet' = [u \in Users |-> IF u \in paid THEN wallet[u] + queued[u] ELSE wallet[u]]
  /\ queued' = [u \in Users |-> IF u \in paid THEN 0 ELSE queued[u]]

(* start_new_hand knows everybody seated, and deals to those with chips    *)
(* who are not leaving and do not sit out.                                 *)
StartHand ==
  /\ hand = {}
  /\ \E dealt \in SUBSET {u \in Seated \ Leaving : seat[u].stack > 0} :
       /\ Cardinality(dealt) >= 2
       /\ engine' = [u \in dealt |-> seat[u].stack]
  /\ \E paid \in SUBSET {u \in Users : queued[u] > 0} : Flush(paid)
  /\ hand' = Seated
  /\ UNCHANGED <<seat, complete, reveals, pot, task, credit, socket, leak>>

(* Still in the hand, with chips to bet.                                   *)
CanAct(u) == u \in DOMAIN engine /\ engine[u] > 0 /\ ~complete

(* check_hand_completion of a complete hand: its end is scheduled.         *)
Reveal == /\ reveals < MaxReveals
          /\ complete' = TRUE /\ reveals' = reveals + 1

(* The hand with these stacks is complete, or goes on: with two users in   *)
(* it, one of whom has chips to bet.                                       *)
GoOn(stacks) ==
  /\ engine' = stacks /\ UNCHANGED hand
  /\ \/ Reveal
     \/ /\ Cardinality(DOMAIN stacks) > 1 /\ \E u \in DOMAIN stacks : stacks[u] > 0
        /\ UNCHANGED <<complete, reveals>>

Folded(u) == [v \in DOMAIN engine \ {u} |-> engine[v]]

(* process_action: the stack of the seat follows the engine's, which is    *)
(* another one when the user joined again during the hand.                 *)
Act(u) ==
  /\ CanAct(u)
  /\ \E chips \in 0 .. engine[u] :
       /\ seat' = [seat EXCEPT ![u].stack = engine[u] - chips]
       /\ pot' = pot + chips
       /\ \/ GoOn([engine EXCEPT ![u] = @ - chips])
          \/ chips = 0 /\ GoOn(Folded(u))
  /\ leak' = leak + engine[u] - Stack(u)
  /\ UNCHANGED <<wallet, task, credit, queued, socket>>

(* handle_timeout: he folds, and his seat is left as it is.                *)
TimeOut(u) ==
  /\ CanAct(u) /\ GoOn(Folded(u))
  /\ UNCHANGED <<wallet, seat, pot, task, credit, queued, socket, leak>>

(* clear_board_and_start_next answers who is leaving with his stack, which *)
(* the actor also writes to his wallet itself, or queues if the write      *)
(* fails.  A task that got the answer credits the same stack again.        *)
Close(after, unpaid) ==
  /\ \E written \in SUBSET Leaving :
       LET twice == {u \in Leaving : seat[u].reply = "task"}
       IN  /\ wallet' = [u \in Users |-> IF u \in written THEN wallet[u] + after[u] ELSE wallet[u]]
           /\ queued' = [u \in Users |-> IF u \in Leaving \ written
                                         THEN queued[u] + after[u] ELSE queued[u]]
           /\ credit' = [u \in Users |-> IF u \in twice THEN credit[u] + after[u] ELSE credit[u]]
           /\ seat' = [u \in Users |-> IF u \in Leaving THEN Absent
                                       ELSE IF seat[u] = Absent THEN Absent
                                       ELSE [seat[u] EXCEPT !.stack = after[u]]]
           /\ leak' = leak + MapThenSumSet(LAMBDA u : after[u], twice) - unpaid
  /\ hand' = {} /\ engine' = Nobody /\ complete' = FALSE /\ pot' = 0

(* process_winners pays one user of the hand, or two that share the pot;   *)
(* before the hand is complete it has no winners.                          *)
PayPot ==
  /\ complete
  /\ \E w1, w2 \in DOMAIN engine, chips \in 0 .. pot :
       Close([u \in Seated |-> seat[u].stack + ((IF u = w1 THEN chips ELSE 0)
                                             + (IF u = w2 THEN pot - chips ELSE 0))], 0)

LosePot == ~complete /\ Close([u \in Seated |-> seat[u].stack], pot)

(* ShowdownComplete closes whatever hand is current: also one that follows *)
(* the hand it was scheduled for.                                          *)
FinishHand ==
  /\ reveals > 0 /\ reveals' = reveals - 1
  /\ \/ hand = {} /\ UNCHANGED <<wallet, seat, hand, engine, complete, pot, credit, queued, leak>>
     \/ hand # {} /\ (PayPot \/ LosePot)
  /\ UNCHANGED <<task, socket>>

-----------------------------------------------------------------------------
(* Leaving.  A forced leave reaches the actor when the user's channel is   *)
(* dead, or the leave is a kick; the task, or the kick vote, waits for the *)
(* answer and credits the user.                                            *)

(* leave_player_inner folds the user, unless he is all-in, and looks       *)
(* whether the hand is complete: one that was already is revealed again.   *)
Fold(u) ==
  \/ CanAct(u) /\ GoOn(Folded(u))
  \/ complete /\ Reveal /\ UNCHANGED <<hand, engine>>
  \/ ~CanAct(u) /\ ~complete /\ UNCHANGED play

(* The leave of a user the hand knows waits for its end; one that waits    *)
(* already is answered to the last who asked.                              *)
Wait(u, reply) ==
  /\ seat' = [seat EXCEPT ![u].leaving = TRUE, ![u].reply = reply]
  /\ IF u \in Leaving THEN UNCHANGED play ELSE Fold(u)

Leave(u) ==
  /\ u \in Seated
  /\ \/ (u \in Leaving \/ u \in hand) /\ Wait(u, "task") /\ UNCHANGED credit
     \/ /\ u \notin Leaving /\ u \notin hand /\ UNCHANGED play
        /\ seat' = [seat EXCEPT ![u] = Absent]
        /\ credit' = [credit EXCEPT ![u] = @ + seat[u].stack]
  /\ UNCHANGED <<wallet, pot, task, queued, socket, leak>>

(* The forced leave a broadcast sends for a dead channel: nobody waits for *)
(* its answer, and it takes the place of a task that does.                 *)
LeaveOfDeadChannel(u) ==
  /\ u \in Seated /\ socket[u] = "dead"
  /\ \/ (u \in Leaving \/ u \in hand) /\ Wait(u, "nobody") /\ UNCHANGED leak
     \/ /\ u \notin Leaving /\ u \notin hand /\ UNCHANGED play
        /\ seat' = [seat EXCEPT ![u] = Absent]
        /\ leak' = leak - seat[u].stack
  /\ UNCHANGED <<wallet, pot, task, credit, queued, socket>>

(* send_leave gives up after 600 s.                                        *)
LeaveTimesOut(u) ==
  /\ u \in Leaving /\ seat[u].reply = "task"
  /\ seat' = [seat EXCEPT ![u].reply = "nobody"]
  /\ UNCHANGED <<wallet, play, pot, task, credit, queued, socket, leak>>

(* A reconnect calls the leave off; the answer is Cancelled.               *)
Reconnect(u) ==
  /\ u \in Seated
  /\ socket' = [socket EXCEPT ![u] = "live"]
  /\ seat' = [seat EXCEPT ![u].leaving = FALSE, ![u].reply = "none"]
  /\ UNCHANGED <<wallet, play, pot, task, credit, queued, leak>>

Drop(u) ==
  /\ socket[u] = "live"
  /\ socket' = [socket EXCEPT ![u] = "dead"]
  /\ UNCHANGED <<wallet, seat, play, pot, task, credit, queued, leak>>

(* Mistake: the kick vote credits its initiator (B-1).                     *)
CreditAnother(u) ==
  /\ credit[u] > 0
  /\ \E v \in Users \ {u} : wallet' = [wallet EXCEPT ![v] = @ + credit[u]]
  /\ UNCHANGED leak
  /\ credit' = [credit EXCEPT ![u] = 0]
  /\ UNCHANGED <<seat, play, pot, task, queued, socket>>

(* The task writes the answered stack to the wallet of the user who left;  *)
(* if the write fails, it logs an error and ends.                          *)
Credit(u) ==
  /\ credit[u] > 0
  /\ \/ wallet' = [wallet EXCEPT ![u] = @ + credit[u]] /\ UNCHANGED leak
     \/ UNCHANGED wallet /\ leak' = leak - credit[u]
  /\ credit' = [credit EXCEPT ![u] = 0]
  /\ UNCHANGED <<seat, play, pot, task, queued, socket>>

Next ==
  \/ \E u \in Users : \/ Join(u) \/ DebitJoin(u)
                      \/ Validate(u) \/ DebitRebuy(u) \/ Rebuy(u) \/ DropRebuy(u)
                      \/ Act(u) \/ TimeOut(u)
                      \/ Leave(u) \/ LeaveOfDeadChannel(u) \/ LeaveTimesOut(u)
                      \/ Reconnect(u) \/ Drop(u) \/ Credit(u)
  \/ StartHand
  \/ FinishHand

Spec == Init /\ [][Next]_vars

-----------------------------------------------------------------------------
PlayOK == /\ hand \subseteq Users /\ DOMAIN engine \subseteq hand
          /\ \A u \in DOMAIN engine : engine[u] \in Nat
          /\ complete \in BOOLEAN /\ reveals \in 0 .. MaxReveals

TypeOK ==
  /\ wallet \in [Users -> Nat]
  /\ seat \in [Users -> Seats \cup {Absent}]
  /\ PlayOK
  /\ pot \in Nat
  /\ task \in [Users -> Tasks]
  /\ credit \in [Users -> Nat]
  /\ queued \in [Users -> Nat]
  /\ socket \in [Users -> {"live", "dead"}]
  /\ leak \in Int

(* The room keeps the books of Ledger: it moves a user's chips only into    *)
(* the pot, gives out the pot without taking from anybody, and every other *)
(* step (joins, leaves, kicks, refunds, retries, rebuys, debits, credits)  *)
(* leaves each account as it is or makes one of the counted mistakes with  *)
(* the account it is about.  (B-1, B-5 and B-6 in the code's comments)     *)
Books == INSTANCE Ledger WITH account <- [u \in Users |-> Holdings(u)]
ImplementsLedger == Books!Spec

(* The end of a hand pays every leaver once, whether his task still waits, *)
(* gave up, or the write to the database has to be retried.  The comment   *)
(* of clear_board_and_start_next says so.                                  *)
DeferredLeavesArePaidOnce == [][hand # {} /\ hand' = {} => leak' = leak]_vars
=============================================================================
