-------------------------- MODULE TournamentMoney --------------------------
(***************************************************************************)
(* The buy-ins and prizes of one tournament (sb-tournament/src): requests  *)
(* to register and unregister run as tasks of the service, which moves the *)
(* chips of the wallet, and ask the actor of the tournament, which keeps   *)
(* the players, the pool and (an MTT only) the stored registrations.       *)
(* Every write of the database may fail, the process may crash between any *)
(* two steps, and startup then settles the tournaments it finds running    *)
(* (crash_recovery.rs).                                                    *)
(*                                                                         *)
(* Abstracted: the play (players are out in any order: SitGo and the table *)
(* modules), clubs, notifications, the answers of queries, the prize_pool  *)
(* column (nothing pays from it).                                          *)
(***************************************************************************)
EXTENDS Integers, Sequences, FiniteSets, FiniteSetsExt, SequencesExt

CONSTANTS Users,
          Requests,      \* tasks: at most this many requests at a time
          NoUser,        \* of an idle task
          BuyIn,
          Wallets,       \* [Users -> Nat]: chip balances at the beginning
          Quota,         \* players that start it: max_players of a Sit & Go,
                         \* min_players_to_start of an MTT
          MaxPlayers,
          Percents,      \* sequence: percentage of the pool of each position
          MaxFaults      \* bound: failed writes and crashes

ASSUME MoneyAssumption ==
  /\ BuyIn \in Nat \ {0} /\ Wallets \in [Users -> Nat] /\ MaxFaults \in Nat
  /\ Quota \in Nat /\ MaxPlayers \in Nat /\ 2 <= Quota /\ Quota <= MaxPlayers
  /\ Percents \in Seq(0..100) /\ Percents # <<>>
  /\ NoUser \notin Users /\ IsFiniteSet(Users) /\ IsFiniteSet(Requests)

VARIABLES kind,      \* "SitAndGo" or "Mtt"
          wallet,    \* stored: users.chip_balance
          row,       \* stored: status of the tournament
          regs,      \* stored: users with a registration, chip_committed
          paid,      \* stored: users with a recorded result
          up,        \* the server runs: startup is over
          listed,    \* the service has the actor's sender
          actor,     \* "registering", "starting", "running", "paying",
                     \* "ended", "over"; "none" after a restart
          players,   \* registered players
          pool,      \* prize_pool
          order,     \* elimination_order
          due,       \* the next position to pay, while the actor pays
          inbox,     \* requests the actor has not read
          task,      \* [Requests -> Tasks]
          won,       \* history: [Users -> Nat]: prizes credited
          gone,      \* history: [Users -> Nat]: buy-ins of the user a failure
                     \* has taken: in no wallet, no seat and no request
          free,      \* history: [Users -> Nat]: buy-ins paid back for a seat
                     \* the user keeps, or by startup
          missed,    \* history: prizes of the tournament nobody was credited
          faults

stored == <<wallet, row, regs, paid>>
memory == <<players, pool, order, due>>
vars   == <<kind, stored, up, listed, actor, memory, inbox, task, won, gone, free, missed, faults>>

IdleTask == [user |-> NoUser, op |-> "none", at |-> "idle"]
Places == {"called", "debited", "waiting", "ok", "refused", "dropped"}
Tasks == {IdleTask} \cup [user : Users, op : {"register", "unregister"}, at : Places]

Survivors == players \ Range(order)
StartAt   == IF kind = "SitAndGo" THEN MaxPlayers ELSE Quota

(* A buy-in a request has taken and not yet settled.  Once the actor has   *)
(* said yes the player's seat stands for it, or no longer does.            *)
Carries(t) == \/ t.op = "register" /\ t.at \in {"debited", "waiting", "refused", "dropped"}
              \/ t.op = "unregister" /\ t.at = "ok"
UnderWay(u) == BuyIn * Cardinality({r \in Requests : task[r].user = u /\ Carries(task[r])})
Stake(u) == IF u \in players THEN BuyIn ELSE 0
Spent(u) == Wallets[u] + won[u] - wallet[u]

Init == /\ kind \in {"SitAndGo", "Mtt"}
        /\ wallet = Wallets /\ row = "Registering" /\ regs = {} /\ paid = {}
        /\ up = TRUE /\ listed = TRUE /\ actor = "registering"
        /\ players = {} /\ pool = 0 /\ order = <<>> /\ due = 1
        /\ inbox = <<>> /\ task = [r \in Requests |-> IdleTask]
        /\ won = [u \in Users |-> 0] /\ gone = [u \in Users |-> 0]
        /\ free = [u \in Users |-> 0] /\ missed = 0 /\ faults = 0

(* A write of the database: done, or failed.                               *)
Write(Done, Failed) == \/ Done /\ UNCHANGED faults
                       \/ faults < MaxFaults /\ faults' = faults + 1 /\ Failed

Goto(r, place) == task' = [task EXCEPT ![r].at = place]
End(r)         == task' = [task EXCEPT ![r] = IdleTask]
Lose(u)        == gone' = [gone EXCEPT ![u] = @ + BuyIn]
Credit(u)      == wallet' = [wallet EXCEPT ![u] = @ + BuyIn]

-----------------------------------------------------------------------------
(* The tasks of the service.                                               *)
Call(r, u, op) ==
  /\ up /\ task[r] = IdleTask
  /\ task' = [task EXCEPT ![r] = [user |-> u, op |-> op, at |-> "called"]]
  /\ UNCHANGED <<kind, stored, up, listed, actor, memory, inbox, won, gone, free, missed, faults>>

(* register: the wallet pays before anybody is asked.                      *)
Debit(r) ==
  LET u == task[r].user IN
  /\ task[r].op = "register" /\ task[r].at = "called"
  /\ IF wallet[u] >= BuyIn
     THEN Write(wallet' = [wallet EXCEPT ![u] = @ - BuyIn] /\ Goto(r, "debited"),
                UNCHANGED wallet /\ End(r))
     ELSE UNCHANGED <<wallet, faults>> /\ End(r)
  /\ UNCHANGED <<kind, row, regs, paid, up, listed, actor, memory, inbox, won, gone, free, missed>>

(* get_sender and send.  An unknown tournament is an error before the      *)
(* refund is thought of; an actor that is over refuses the message.        *)
Send(r) ==
  LET t == task[r] IN
  /\ t.at = IF t.op = "register" THEN "debited" ELSE "called"
  /\ \/ /\ ~listed
        /\ End(r) /\ UNCHANGED inbox
        /\ IF t.op = "register" THEN Lose(t.user) ELSE UNCHANGED gone
     \/ /\ listed /\ actor = "over"
        /\ IF t.op = "register" THEN Goto(r, "refused") ELSE End(r)
        /\ UNCHANGED <<inbox, gone>>
     \/ /\ listed /\ actor # "over"
        /\ inbox' = Append(inbox, r) /\ Goto(r, "waiting")
        /\ UNCHANGED gone
  /\ UNCHANGED <<kind, stored, up, listed, actor, memory, won, free, missed, faults>>

(* Mistake: what the actor has answered does not matter.                   *)
SettleAlways(r) ==
  LET t == task[r] IN
  /\ t.at \in {"ok", "refused", "dropped"}
  /\ End(r)
  /\ IF t.op = "unregister" \/ t.at = "refused"
     THEN Write(Credit(t.user) /\ UNCHANGED gone, UNCHANGED wallet /\ Lose(t.user))
     ELSE /\ UNCHANGED <<wallet, faults>>
          /\ IF Carries(t) THEN Lose(t.user) ELSE UNCHANGED gone
  /\ UNCHANGED <<kind, row, regs, paid, up, listed, actor, memory, inbox, won, free, missed>>

(* Mistake: a refused registration asks again, with the chips it holds.    *)
SettleRetries(r) ==
  LET t == task[r] IN
  /\ t.at \in {"ok", "refused", "dropped"}
  /\ IF t.op = "register" /\ t.at = "refused"
     THEN Goto(r, "debited") /\ UNCHANGED <<wallet, gone, faults>>
     ELSE /\ End(r)
          /\ IF t.op = "unregister" /\ t.at = "ok"
             THEN Write(Credit(t.user) /\ UNCHANGED gone, UNCHANGED wallet /\ Lose(t.user))
             ELSE /\ UNCHANGED <<wallet, faults>>
                  /\ IF Carries(t) THEN Lose(t.user) ELSE UNCHANGED gone
  /\ UNCHANGED <<kind, row, regs, paid, up, listed, actor, memory, inbox, won, free, missed>>

(* The answer: a registration refused, or a player taken out, is paid      *)
(* back, unless the write fails; an answer that never came is an error     *)
(* like any other, and nothing is paid back.                               *)
Settle(r) ==
  LET t == task[r]
      back == Carries(t) /\ t.at # "dropped" IN
  /\ t.at \in {"ok", "refused", "dropped"}
  /\ End(r)
  /\ IF back
     THEN Write(Credit(t.user) /\ UNCHANGED gone, UNCHANGED wallet /\ Lose(t.user))
     ELSE /\ UNCHANGED <<wallet, faults>>
          /\ IF Carries(t) THEN Lose(t.user) ELSE UNCHANGED gone
  /\ UNCHANGED <<kind, row, regs, paid, up, listed, actor, memory, inbox, won, free, missed>>

-----------------------------------------------------------------------------
(* The actor: one command at a time.                                       *)
Reads(r, op) == /\ actor \in {"registering", "running"}
                /\ inbox # <<>> /\ r = Head(inbox) /\ task[r].op = op
                /\ inbox' = Tail(inbox)

MayEnter(u) == /\ actor = "registering" /\ u \notin players
               /\ Cardinality(players) < MaxPlayers
MayLeave(u) == actor = "registering" /\ u \in players

Enter(r, u) == /\ Goto(r, "ok")
               /\ actor' = IF Cardinality(players) + 1 < StartAt THEN actor
                           ELSE IF kind = "Mtt" THEN "running" ELSE "starting"

(* register_player.  The player and the pool come before the stored        *)
(* registration, and stay when it fails: the service then pays back the    *)
(* buy-in of a user who plays.  A row left by a failed deletion makes the  *)
(* insertion fail, the index is unique.                                    *)
Register(r) ==
  LET u == task[r].user
      inserted == regs' = regs \cup {u} /\ Enter(r, u) /\ UNCHANGED free
      rejected == /\ Goto(r, "refused") /\ UNCHANGED <<regs, actor>>
                  /\ free' = [free EXCEPT ![u] = @ + BuyIn] IN
  /\ Reads(r, "register")
  /\ IF ~MayEnter(u)
     THEN Goto(r, "refused") /\ UNCHANGED <<regs, actor, players, pool, free, faults>>
     ELSE /\ players' = players \cup {u} /\ pool' = pool + BuyIn
          /\ CASE kind = "SitAndGo" -> Enter(r, u) /\ UNCHANGED <<regs, free, faults>>
               [] kind = "Mtt" /\ u \in regs -> rejected /\ UNCHANGED faults
               [] OTHER -> Write(inserted, rejected)
  /\ UNCHANGED <<kind, wallet, row, paid, up, listed, order, due, won, gone, missed>>

(* Mistake: the pool keeps the buy-in.                                     *)
UnregisterKeepsPool(r) ==
  LET u == task[r].user IN
  /\ Reads(r, "unregister")
  /\ IF ~MayLeave(u) THEN Goto(r, "refused") /\ UNCHANGED <<regs, players, gone, faults>>
     ELSE /\ players' = players \ {u}
          /\ IF kind = "SitAndGo"
             THEN Goto(r, "ok") /\ UNCHANGED <<regs, gone, faults>>
             ELSE Write(regs' = regs \ {u} /\ Goto(r, "ok") /\ UNCHANGED gone,
                        UNCHANGED regs /\ Goto(r, "refused") /\ Lose(u))
  /\ UNCHANGED <<kind, wallet, row, paid, up, listed, actor, pool, order, due, won, free, missed>>

(* unregister_player: the player is out before the row is, and stays out   *)
(* when its deletion fails, an error that pays nothing back.               *)
Unregister(r) ==
  LET u == task[r].user IN
  /\ Reads(r, "unregister")
  /\ IF ~MayLeave(u) THEN Goto(r, "refused") /\ UNCHANGED <<regs, players, pool, gone, faults>>
     ELSE /\ players' = players \ {u} /\ pool' = pool - BuyIn
          /\ IF kind = "SitAndGo"
             THEN Goto(r, "ok") /\ UNCHANGED <<regs, gone, faults>>
             ELSE Write(regs' = regs \ {u} /\ Goto(r, "ok") /\ UNCHANGED gone,
                        UNCHANGED regs /\ Goto(r, "refused") /\ Lose(u))
  /\ UNCHANGED <<kind, wallet, row, paid, up, listed, actor, order, due, won, free, missed>>

(* start_tournament of a Sit & Go, before it reads another command.  That  *)
(* of an MTT is part of the registration, and writes no status.            *)
Start ==
  /\ actor = "starting" /\ actor' = "running"
  /\ Write(row' = "Running", UNCHANGED row)
  /\ UNCHANGED <<kind, wallet, regs, paid, up, listed, memory, inbox, task, won, gone, free, missed>>

(* A hand eliminates a player.                                             *)
Eliminate(u) ==
  /\ actor = "running" /\ u \in Survivors /\ Cardinality(Survivors) > 1
  /\ order' = Append(order, u)
  /\ actor' = IF Cardinality(Survivors) = 2 THEN "paying" ELSE actor
  /\ UNCHANGED <<kind, stored, up, listed, players, pool, due, inbox, task, won, gone, free,
                 missed, faults>>

(* calculate_payouts of a pool q: shares rounded down, the first position  *)
(* has the rest.                                                           *)
Shares(q) == [p \in DOMAIN Percents |-> (q * Percents[p]) \div 100]
Total(q)  == MapThenSumSet(LAMBDA p : Shares(q)[p], DOMAIN Percents)
Payout(p) == Shares(pool)[p]
             + (IF p = 1 /\ pool > Total(pool) THEN pool - Total(pool) ELSE 0)

Holders(p) == IF p = 1 THEN Survivors
              ELSE {u \in players : \E k \in DOMAIN order :
                                       order[k] = u /\ p = Cardinality(players) - k + 1}

(* end_tournament: one position after the other, whatever the writes do.   *)
PayPosition ==
  /\ actor = "paying" /\ due <= Len(Percents) /\ due' = due + 1
  /\ \/ /\ Holders(due) = {}
        /\ missed' = missed + Payout(due)
        /\ UNCHANGED <<wallet, won, paid, faults>>
     \/ \E u \in Holders(due), failed \in SUBSET {"credit", "record"} :
          /\ faults + Cardinality(failed) <= MaxFaults
          /\ faults' = faults + Cardinality(failed)
          /\ paid' = IF "record" \in failed THEN paid ELSE paid \cup {u}
          /\ IF "credit" \in failed
             THEN missed' = missed + Payout(due) /\ UNCHANGED <<wallet, won>>
             ELSE /\ wallet' = [wallet EXCEPT ![u] = @ + Payout(due)]
                  /\ won' = [won EXCEPT ![u] = @ + Payout(due)]
                  /\ UNCHANGED missed
  /\ UNCHANGED <<kind, row, regs, up, listed, actor, players, pool, order, inbox, task, gone, free>>

Complete ==
  /\ actor = "paying" /\ due > Len(Percents) /\ actor' = "ended"
  /\ IF kind = "SitAndGo" THEN Write(row' = "Completed", UNCHANGED row)
     ELSE UNCHANGED <<row, faults>>
  /\ UNCHANGED <<kind, wallet, regs, paid, up, listed, memory, inbox, task, won, gone, free, missed>>

(* The run loop breaks: commands it has not read lose their answer.        *)
Exit ==
  /\ actor = "ended" /\ actor' = "over" /\ inbox' = <<>>
  /\ task' = [r \in Requests |-> IF task[r].at = "waiting" THEN [task[r] EXCEPT !.at = "dropped"]
                                ELSE task[r]]
  /\ UNCHANGED <<kind, stored, up, listed, memory, won, gone, free, missed, faults>>

(* handle_tournament_completion: the service forgets the actor.            *)
Delist ==
  /\ listed /\ actor \in {"ended", "over"} /\ listed' = FALSE
  /\ UNCHANGED <<kind, stored, up, actor, memory, inbox, task, won, gone, free, missed, faults>>

-----------------------------------------------------------------------------
(* A crash loses the memory of the process; no actor is created again.     *)
Crash ==
  /\ up /\ faults < MaxFaults /\ faults' = faults + 1
  /\ up' = FALSE /\ listed' = FALSE /\ actor' = "none"
  /\ players' = {} /\ pool' = 0 /\ order' = <<>> /\ due' = 1
  /\ inbox' = <<>> /\ task' = [r \in Requests |-> IdleTask]
  /\ gone' = [u \in Users |-> gone[u] + Stake(u) + UnderWay(u)]
  /\ UNCHANGED <<kind, stored, won, free, missed>>

(* settle_crashed_tournaments: a running tournament is cancelled first,    *)
(* then its registrations without a result are paid back; a payment (or    *)
(* the query before it) that fails is not tried again.                     *)
Startup ==
  LET owed == regs \ paid
      back(us) == [u \in Users |-> IF u \in us THEN BuyIn ELSE 0]
      refunded(us) == /\ row' = "Cancelled"
                      /\ wallet' = [u \in Users |-> wallet[u] + back(us)[u]]
                      /\ free' = [u \in Users |-> free[u] + back(us)[u]] IN
  /\ ~up /\ up' = TRUE
  /\ IF row = "Running"
     THEN Write(refunded(owed),
                \/ UNCHANGED <<row, wallet, free>>
                \/ \E us \in SUBSET owed : us # owed /\ refunded(us))
     ELSE UNCHANGED <<row, wallet, free, faults>>
  /\ UNCHANGED <<kind, regs, paid, listed, actor, memory, inbox, task, won, gone, missed>>

ServiceStep == \E r \in Requests : Debit(r) \/ Send(r) \/ Settle(r)
ActorStep   == \/ \E r \in Requests : Register(r) \/ Unregister(r)
               \/ Start \/ PayPosition \/ Complete \/ Exit

Next == \/ \E r \in Requests, u \in Users, op \in {"register", "unregister"} : Call(r, u, op)
        \/ ServiceStep \/ ActorStep
        \/ \E u \in Users : Eliminate(u)
        \/ Delist \/ Crash \/ Startup

(* A task runs until it ends, and so does the actor: only players who do   *)
(* not play, and a server nobody starts, wait for ever.                    *)
Spec == Init /\ [][Next]_vars
        /\ \A r \in Requests : WF_vars(Debit(r) \/ Send(r) \/ Settle(r))
        /\ WF_vars(ActorStep)

-----------------------------------------------------------------------------
TypeOK ==
  /\ kind \in {"SitAndGo", "Mtt"} /\ wallet \in [Users -> Nat]
  /\ row \in {"Registering", "Running", "Completed", "Cancelled"}
  /\ regs \subseteq Users /\ paid \subseteq Users /\ up \in BOOLEAN /\ listed \in BOOLEAN
  /\ actor \in {"registering", "starting", "running", "paying", "ended", "over", "none"}
  /\ players \subseteq Users /\ pool \in Nat /\ order \in Seq(players)
  /\ due \in 1 .. Len(Percents) + 1
  /\ inbox \in Seq(Requests) /\ task \in [Requests -> Tasks]
  /\ won \in [Users -> Nat] /\ gone \in [Users -> Nat] /\ free \in [Users -> Nat] /\ missed \in Nat
  /\ faults \in 0..MaxFaults

(* What a user has spent is his seat, the requests under way, and what the *)
(* named failures have taken (or given): nothing is charged twice, paid    *)
(* back twice or forgotten on any other path through the three actors.     *)
Accounted ==
  \A u \in Users : Spent(u) = Stake(u) + UnderWay(u) + gone[u] - free[u]

(* A stored registration belongs to a user who has been charged: whatever  *)
(* fails, what a recovery would pay back for it does not make chips        *)
(* (crash_recovery.rs:58).                                                 *)
CommittedIsCharged == \A u \in regs : Spent(u) + free[u] >= BuyIn

(* The pool is the buy-ins of the players, and at the end prizes and       *)
(* prizes nobody could have add up to it.                                  *)
PoolIsPaidOut ==
  /\ actor \in {"registering", "starting", "running"} => pool = BuyIn * Cardinality(players)
  /\ actor \in {"ended", "over"} => MapThenSumSet(LAMBDA u : won[u], Users) + missed = pool

(* Every request ends, also when the tournament ends under it.             *)
RequestsEnd == \A r \in Requests : task[r] # IdleTask ~> task[r] = IdleTask

(* "Refunds remaining players and marks tournament as Cancelled."          *)
(* (crash_recovery.rs:7)                                                   *)
CancelledIsRefunded ==
  [][row # "Cancelled" /\ row' = "Cancelled" => \A u \in Users : gone'[u] = 0]_vars
=============================================================================
