# StackBluff in TLA+

StackBluff is a poker platform: a Rust backend (tokio actors, one per table and one
per tournament, SQLite through a writer task) and a TypeScript client (a web app and a
phone app that share their hooks and stores). This directory holds specifications of
its own logic, written from the source, TLC configurations that check them on small
instances, and proofs for TLAPS. Paths of Rust files are relative to
`src/backend/crates/`, those of the client to `src/frontend/`.

Run `tlc -config X.cfg M` for a configuration `X.cfg` of module `M` (an `MC` module
where there is one) and `tlapm M_proof.tla` for a module of proofs. `PROJECT.json`
lists components, runs, the mutated definition each property was tried against, the
source lines of every definition, the hazards and the findings. A definition whose
comment begins with "Mistake:" is such a mutation; nothing else uses it.

## 1. The system

| Component | State | Operations | Talks to |
|---|---|---|---|
| Hand engine (`sb-game-engine/game_state.rs`) | one `GameState` per hand: stacks, bets, turn, street, board, flags | `new_hand`, `post_ante`, `apply_action`, `force_fold`, `calculate_pot_winners`, `get_busted_players` | called by the table actor, synchronously |
| Side pots (`sb-game-engine/pot.rs`) | none | `compute_side_pots_with_dead_money` | called by the engine |
| Table actor (`sb-table-registry/actor.rs`) | players, current hand, senders, turn timer, kick vote, pending refunds, bust cache | one `InternalCommand` at a time: join, action, leave, reconnect, sit out, rebuy, kick, timeout, showdown complete, director commands | registry and WebSocket tasks (commands, oneshot answers), timers (spawned tasks), directors (broadcast events), wallet rows |
| WebSocket handler (`sb-ws-handler/lib.rs`) | per connection: rooms joined, rate counters | join, rebuy, action, leave, reconnect, kick vote, cleanup at disconnect | registry, wallets, clients |
| Registry (`sb-table-registry/registry.rs`) | rooms, table configurations, user-to-room map, seat counts | assign, join, leave, remove, reaper | spawns table actors |
| Sit & Go director (`sb-tournament/sit_go_tournament.rs`) | status, players, survivors, elimination order, blind scheduler | register, unregister, start, hand completed, end | its table (commands), broadcast of events, wallets |
| MTT director (`mtt_director.rs`, `rebalancer.rs`) | the same with several tables, stored registrations | also merge, rebalance | several tables |
| Tournament service, crash recovery (`tournament_service.rs`, `crash_recovery.rs`) | directors by id | register with a buy-in, unregister, completion, refunds at startup | wallets, repositories, directors |
| WebSocket hook (`packages/shared/src/hooks/useGameWebSocket.ts`) | socket, reconnect timer and attempts, waiting buy-in, status | connect, onopen, onmessage, onclose, network change, sendJoin, sendAction, sendLeave | the server, the store, the token storage |
| Game store and pre-actions (`gameStore.ts`, `usePreAction.ts`) | rooms, active room; queued action and its timer | one setter per message; toggle, effect, timer | hook, pages |
| Action bar, raise panel (`ActionBar.tsx`, `RaiseSlider.tsx`) | panel open, amount | buttons, keys, slider, confirm | `sendAction` |
| Table page (`TablePage.tsx`; phone: `TableScene.tsx`) | joining, joined, adding, dialogs | effects on the rooms of the store; add, switch, leave | hook, store |
| Payments, database writer, missions, clubs, authentication, anti-cheat, bots, notifications, oracle, viral, REST, the other screens | rows, caches, windows | requests, jobs, pages | mostly the database |

What is hard here, and what correctness means:

* **Betting** (engine). All-ins for less than a call or a raise, folds out of turn and
  re-raises must neither lose a chip, nor close a street over a seat that may still
  act, nor leave the turn at a seat that cannot answer; pots of uneven all-ins must go
  to who paid for them, odd chips included.
* **One actor, many senders** (table). Clocks, reveals, broadcasts to dead channels and
  connection tasks all post commands whose order nobody controls. A hand must never
  wait without a clock, a complete hand must end, a leave deferred to the end of the
  hand must be answered, seats of a hand must stay.
* **Money in several places** (table, tournaments, wallets). A join seats before it
  debits, a rebuy and a registration debit before they apply, a leave is answered to a
  task that may be gone, a write may fail, the process may stop: every chip must be
  somewhere, or its loss must be one of few named ones.
* **Two actors, one tournament.** Director and table only exchange messages and keep
  their own idea of who is in; eliminations, the next hand, blind levels and the end
  all depend on messages arriving in answer to one another.
* **A client that may lose its connection at any time.** What it shows must come back
  in step with the table; a buy-in that waits for a connection must be sent once; an
  action must answer the decision it was meant for, though the message does not name
  it; effects of a page that share flags must not take each other's question away.

## 2. Modules

```
SidePots --- MCSidePots                        pure: division of a hand's chips
  |  \
  |   HandEngine --- BetBar                      one hand; the raise panel over it
  |      |  HandEngine_proof                     (also about MCSidePots and BetBar)
  |      |....  (its promises: TurnIsOpen, HandEnds)
  |      TableActor                              one room: turns, clocks, leaves
  |      |  TableActor_proof                     (also about TablePage)
  |      TableMoney --- MCTableMoney             one room: chips and wallets
  |      |  (implements) Ledger; TableMoney_proof
  |      TableClient --- TableClient_proof       one player's client and his room
  SitGo --- MCSitGo, SitGo_proof                 director and tournament table
  |
Sorting                                        pure: lists in an order, parts of lists
  |
  MttDirector --- MCMttDirector                  director and several tables
TournamentMoney --- MCTournamentMoney          service, director, restart
     |  TournamentMoney_proof                    (also about MttDirector)
Chips                                          sums over finite sets and the pots of
                                                 SidePots, for the proofs about chips
Connection --- Connection_proof                the client's socket
TablePage --- MCTablePage                      the page's effects and the server
```

A module of proofs may be about two components that share nothing but the module: a table
and the page of a player who wants a seat at one, a tournament's money and its director.

**SidePots** translates `compute_side_pots_with_dead_money` as a fold over the
distinct contributions, smallest first (`AddLayer` is one turn of the loop) and `calculate_pot_winners`
(`ShareOf`, `PotWinners`), hand evaluation being any weak order `rank`. The reference
(`Claimants`, `ClaimedBy`) states the rules of table stakes chip by chip, without
layers.

**HandEngine** keeps `GameState` as one record; each method that changes it is an
operator from hands to hands (`AddBet`, `AdvanceTurn`, `EndRound`, `ResetRound`, ...),
composed in the order of the code, and `Fold`, `Check`, `Call`, `Raise`, `ForceFold`
are the entry points. A rejected call changes nothing and is no step. Cards are a count
of board cards.

**TableActor** is the command loop of a cash room. An action handles one command
entirely, or is something outside that leads to one (a timer fires, a socket closes).
Because commands come from many tasks, any one that may be in the channel may be next.
The engine is replaced by what HandEngine establishes of it: a running hand waits for
an open seat and is complete after finitely many calls (`EngineResults`). `due` holds
Timeouts under way, `reveals` the ShowdownComplete messages, `asked` the forced leaves
of connection tasks.

**TableMoney** follows the chips of a room: wallets, the stacks of the seats and those of
the running hand (`engine`, what `GameState` holds), the pot, the connection task of each
user with its pending debit or credit, and `pending_refunds`. Whose turn it is, is left to
TableActor. A hand becomes `complete` by an action or a leave, which puts a ShowdownComplete
under way (`reveals`); a leave during the reveal puts a second one there (actor.rs:1348), and
whichever comes closes the hand that is current then, with its winners (`PayPot`) or, before it
is complete, with none (`LosePot`). The ways in which chips are really made or lost are counted
by `leak`: a seat whose debit fails or is never tried (the answer to the join comes too late),
a second join of a user who is leaving, whose stack is replaced by an unpaid buy-in
(actor.rs:1017), and whose next action writes back the one of the hand; a rebuy refused or
dropped after its debit; an answer that reaches nobody; a deferred leave credited twice; a
credit that is not written; and the pot of a hand closed early.
**Ledger** is what the room promises: one account per user, a pot, and three kinds of
steps (a bet, a pot given out, a counted mistake with one user's chips). TableMoney
implements it with `account[u] = Holdings(u)`, everything that belongs to `u` wherever
it is; so a step that moved chips from one user to another outside a hand, or lost them
uncounted, would be a step of neither kind.

**SitGo** composes the director and its table: `events` are the HandCompleted messages
not read yet, `starts` the StartHand commands not handled, `reveals` the ShowdownComplete
messages of the table to itself. A hand is dealt (`CanDeal`: the actor looks at the two seats
after the dealer, actor.rs:1483, the engine with two players at the dealer and the other,
game_state.rs:187, and both have to agree), completed (`CompleteHand`, or by a `Leave`) and
closed (`FinishHand`) with any bets its stacks allow, divided by SidePots when it is complete
(`PayPots`), paid to nobody when a second message closes it early (`LosePots`). Busts
(`Busted`, `Report`), blind levels, the end and the prizes follow the code. The
end (`Prizes`) is modelled although no behaviour of the code reaches it: that is the
finding of `sit_go_ends`. Loops of the code that build a list (the users who busted, the
prizes, the places from the dealer on) are lists in an order, `Sorted` and `Keeping` of
**Sorting**: the place of an element is the number of elements before it, which needs no
recursion and can be reasoned about.

**MttDirector** composes the director of a running multi-table tournament with its
tables. `HandleHandCompleted` is his handler up to the first command he awaits: it strikes
the busted and plans the moves (`RebalanceMoves`, `FinalMoves`, the two functions of
`rebalancer.rs`). The loop that gives each player of a short table a target is stated by what
each of its turns chooses: `to[k]` is the least full table that has room, counting the targets
chosen before (`LeastFull`, `Load`), and the loop stops where no table has any (`Open`). `TakeOut`, `PutIn` and `GoOn` are the
rest of the handler, cut where it awaits an answer: between any two of them the tables deal,
play, finish and remove, and players start hands and vote. Tables handle the director's
commands in order, so an answer also says that the StartHand before it was handled
(`AllAnswer`). A hand is reduced to who was dealt in and who went all-in.

**TournamentMoney** follows the buy-ins of one tournament of either kind: requests as
tasks of the service (`Debit`, `Send`, `Settle`), the actor's commands (`Register`,
`Unregister`), its start, eliminations in any order, one prize after the other
(`PayPosition`), completion (`Delist`), a crash between any two steps and the settlement
at startup. Rows (`wallet`, `row`, `regs`, `paid`) survive the crash, the rest does not.
Any write may fail (`Write`), as often as `MaxFaults` allows. `gone`, `free` and
`missed` are histories of the chips that failures take, give and leave in the pool.

**Connection** is one mount of the WebSocket hook with the server's answers to its
greeting. An action is one JavaScript task; reading the token splits `connect()` and
`onopen` in two, with nothing in between on the web (`AsyncTokens = FALSE`) and anything
in between on the phone.

**TableClient** composes an actor that deals, asks, applies and reveals with one
player's client: the store's room, the handlers of game messages, buttons, and the
pre-action with its 400 ms timer. Messages of one direction keep their order, a lost
connection loses those under way, and `handle_reconnect` answers with a snapshot. The new
connection may come at once, after a change of network, with a pre-action still waiting: then
the player's next decision can take the place of one his clock took from him meanwhile
(`Overtaken`).

**BetBar** puts the raise panel on top of HandEngine: what the page computes from the
question (`Least`, `Most`, `CanRaise`), what the panel keeps (`Render`, `Adjust`), and
the two checks its amount meets (`Accepted`). A hand begins with the panel open or not, as
an earlier hand left it, so one hand at a time is enough.

**TablePage** is the page as one record of its state and the store's, four effects run
in the order of the source when their dependencies changed (`Effects`, `Settled`), the
player's clicks, and the server's side of joining, reconnecting, leaving and kicking. A
reconnect also reaches rooms where the player has lost his seat, which from then on send him
what others play there (`OthersPlay`).

## 3. Runs

| Run | Instance | What it shows |
|---|---|---|
| `side_pots` | 4 seats, up to 3 chips each, 3 strengths | the loop equals the reference; table stakes hold |
| `hand_engine` | BetBar: 3 seats, blinds 1/2, stacks 1, 2, 4, 7, one seat with the web's panel, amounts up to 7 | chips per seat, open turn, paid-for showdowns, payable ends, no skipped seat, rising price, termination; what the panel sends is legal, its bounds are the engine's |
| `table_actor` | 3 users, one of whom moves; 2 engine calls a hand, 2 reveals, 2 connects | clocks, ends of hands, leaves |
| `table_money` | a user who can pay and one who cannot, buy-in 1 | the room implements the ledger |
| `sit_go` | 3 seats, starting stack 2, blinds 1/2 | director and table agree, the next hand is asked for, every chip is accounted for |
| `mtt_director` | 5 entrants, tables of 4 seats, 1 hand started by a player, 1 kick | nobody is lost between tables; seats and rosters agree; every table is asked to go on |
| `tournament_money` | 2 users, one with chips for two buy-ins, 2 requests, both kinds, 1 fault | where each buy-in is; rows belong to charged users; the pool is paid out; requests end |
| `connection` | 2 tables, 3 sockets, 2 losses, 1 buy-in, 1 change of table, the web | sockets, retries, the waiting buy-in |
| `table_client` | 2 hands, 3 decisions, 1 loss, 3 kinds of pre-action | what is shown; which decision an action answers |
| `table_page` | 2 rooms, 2 buy-ins, 1 loss, 1 message under way each direction | the question for a buy-in is asked, stays, and is sent once |
| `sit_go_ends` (violation) | 3 seats, starting stack 1, two levels | the tournament with one player left never completes |
| `tournament_crash` (violation) | as `tournament_money`, 2 faults | a tournament cancelled at startup is not paid back |

**Bounds, and why they are enough.** Three seats are the least number with a seat that
is neither blind, with a side pot beside a main pot, and with somebody left over when
one leaves; four seats in `side_pots` give three layers and a dead one between live
ones. The stacks 1, 2, 4, 7 with blinds 1/2 make every comparison of `Call` and `Raise`
come out each way (cannot post, posts all-in, calls short, raises short, raises in full
twice), and give the panel a raise with no room, one that is only all-in, and a re-raise. In `table_actor` one user moves and the two others are always there, because
the room's code treats users alike and every hazard of the list is between one user's
leave, socket, clock and hand; `MaxCalls` = 2 lets a hand change turn and then end,
`MaxReveals` = 2 lets a second message outlive its hand, `MaxConnects` = 2 is a join
and a reconnect (or two joins). In `table_money`, `MaxLeak` stops joins once chips were
made or lost, so the totals stay finite, and `MaxReveals` = 2 is one message more than the
hand needs, which closes the next. In `sit_go`, a starting stack of 2 with a big
blind of 2 makes seats short for either blind, also heads-up, where actor and engine look at
different seats; blind levels go up in `sit_go_ends` only (for any levels there are the
theorems), `MaxReveals` is as in `table_money`, and `MaxEvents`
bounds how many hands users (not the director) start while messages wait. In
`mtt_director`, 5 entrants at tables of 4 (the code's 9) make a table of three and a short one
of two with more survivors than one table seats: a rebalancing with room for only one of the
two, and, when somebody is out, the final table; one hand started by a player is enough to
overtake the director's own, one kick to make a roster differ from the seats. The entrants
are interchangeable (the director never compares them). With three tables, which also lets a
rebalancing choose its target, or with six entrants, the states are too many for a run; the
theorems of section 4 are for any number of either. In
`tournament_money` two requests are one of each kind, or two of one user (who can pay
twice), under way at once; one fault is one failed write or one crash at any point, and
the percentages leave a rest and a position nobody holds. With `MaxFaults` = 2 the same
properties hold in a longer run. In `connection`, two losses are what it takes for one to
happen while the other is being repaired, three sockets for one to close while a second
opens and a third is asked for; `MaxAttempts` = 1 reaches the end of the attempts, and
with 2 tables a timer of the old closure can outlive a move. In `table_client`, two hands
let a message of the first arrive in the second, three decisions a player asked twice in
one hand and again. In `table_page`, `Modes` is the page opened to play (the other way to
open it, a link that names its buy-in, is in section 5), two rooms are the table shown
and another one, and rooms are interchangeable. Two buy-ins (`MaxJoins`) are a first and the
one that must not follow it too early; the history `left` excuses one sequence from
`OneJoinAtATime`, leaving a table while the page waits for a seat: handleLeaveTable
(TablePage.tsx:839) resets `hasJoined` and not `isJoining`. The history `excused` names why a
page without a room need not ask, among others `TakesSeat`: the effect for Not seated drops
the room of the address, also one that in the meantime shows a seat. All of them are guards of the model and
named in its CONSTANTS. `CHECK_DEADLOCK FALSE` stands in the runs whose system may stop:
a hand that is over, a room nobody joins any more, a tournament that refused a hand, a
page that was left.

Every module with state but BetBar and TablePage has a type invariant `TypeOK`
(`DirectorTypeOK` of MttDirector). Those of HandEngine, Connection, TableActor, TableMoney,
TableClient, TournamentMoney and MttDirector are proved, and the types of SitGo and TablePage
are part of the invariants proved there; any can be added to its configuration, and holds.

**Fairness.** `hand_engine`: the seat on turn acts in the end, since the actor's turn
timer folds it (`handle_timeout`). `table_actor`: a timer that is not aborted fires, and
posted Timeout and ShowdownComplete messages are handled, because tokio runs the tasks
and the actor keeps reading its channel; players promise nothing. `sit_go_ends`: both actors
keep reading and each hand is completed and closed; users promise nothing, and in particular their StartHand
messages are never relied on. `tournament_money`: a request's task and the actor go on;
nobody has to play, crash, or start the server again. `connection`: timers fire, promises
resolve, an attempt to connect succeeds or fails, and a closed socket says so; neither
the player nor the network promises anything. `table_client`: a browser runs its timers
and handles what arrived.

## 4. Proofs

**One hand.** `HandEngine_proof` proves, for every number of seats
(up to the deck), every blinds and every set of starting stacks, under the assumptions of
HandEngine on its constants and `Ante = 0`: `TypeCorrect`, `ChipsAreKept`
(`SeatChipsKept`), `TurnAlwaysOpen` (`TurnIsOpen`), `ShowdownsArePaidFor`
(`ShowdownIsPaidFor`), `NobodyIsSkipped` (`NobodySkipped`), `PriceNeverFalls`
(`PriceOnlyRises`).

`TypeOK` alone is not inductive (a stack stays a natural number because a call is cut to
the stack and a street's bets are at most the level), and neither is `TurnIsOpen`: after
the turn moves, the new seat has something to decide only if the seats beyond it were in
order. `IInv` adds: bets at most the level of the street (`BetsUnderLevel`), all-in
exactly when the stack is empty (`AllInIsBroke`), the account of each seat (`ChipsOf`),
the board that belongs to the street (`Running`), and `PendingFirst`: going round from
the seat on turn, the seats that still owe a decision come before those that are done. A
full raise makes everybody pending again, a call or check moves the front by one, an
out-of-turn fold removes a seat anywhere. Each action first yields a hand that is
`Decided` (the seat on turn is done, `PendingFirst` holds); `AdvanceTurnInv` turns that
into the invariant, through `FirstActiveIsNearest` (the search for the next seat finds
the nearest one that can act) and `EndRoundInv`. With an ante the theorem is false (section 5).

A paid-for showdown needs the streets before the last: `StreetInv` adds `PriorPaid`, that
a seat which can act has put in, before the current street, at least what anybody has.
Every call has one shape: it enters the decision of one seat (`Decision`), then moves the
turn or closes the street (`Moved`), or ends the hand with one seat left. `PriorPaid` is
renewed where a street closes, because `RoundComplete` says every seat that can act has
matched the level and `BetsUnderLevel` that nobody is above it.

**The pots.** `HandEngine_proof` proves `PotsAreTheReference` (`PotsMatchReference`) and
`StakesAreTheTable` (`TableStakes`) of SidePots for any number of seats, and
`HandsArePayable` (`HandIsPayable`) of HandEngine without an ante. All three rest on what `Chips` says of
SidePots. The loop is a recursive function on sets of levels, so induction on those sets
(below) shows that it builds one layer more for each level, the largest last
(`LoopUnfolds`). The invariant of the loop is `Claimed`: up to the last level, for every
collection of sets of seats, the pots those sets may win hold the chips the reference lets
them win. A layer moves both sides by the same product; a layer that only folded seats
reached goes to the pot before, whose claimants are then those still in who paid deepest,
as in the reference. Counting the reference's chips level by level and seat by seat gives
the bets (`ChipsAreTheBets`). `ShareOf` divides a pot without rest: the first
`pot % n` of its best hands get one more (`FirstOnes`). Together these are `PayoutIsFair`,
whose hypothesis `Payable` says that somebody is left, and has paid unless he is alone. Every
complete hand is of this kind by `PotInv` (the pot is what was put in, somebody put something
in, and two seats are in it until it is complete) and `ShowdownIsPaidFor`: at a showdown who
is not all in has put in as much as anybody, so at least a blind, and who is all in came with
chips and has none left.

**The connection.** `Connection_proof` proves for any tables, any finite set of sockets
and any bounds `TypeCorrect`, `BuyInIsSentOnce` (`BuyInSentOnce`) and
`OneSocketForEachLoss` (`OneSocketPerLoss`), on the web and on the phone, and
`LossIsRetried` (`Retried`) and `BuyInIsNotForgotten` (`BuyInKept`) on the web
(`AsyncTokens = FALSE`; on the phone both are false, section 5). Why a buy-in is not sent twice: `BuyInInv` says that what was sent and what
waits is no more than what was chosen. How many sockets there are: `SocketInv` bounds the
sockets the hook lost sight of, or will (`Lost`: closing, or busy and not `wsRef`), by the
number of losses, and says that a `connect` that waits for its token found `wsRef` not
busy. That it goes on trying: the type invariant includes that a timer the hook remembers
is pending (`TimerIsPending`), and on the web an `onopen` that waits has an open socket
(`GreetingIsOpen`), so the timeout it clears is never that of its own loss. That a buy-in is
forgotten only by sending it, while no orphan is live: `GreetedIsFree` says that an open
`wsRef` past its `onopen` leaves none waiting, so an answer Connected, which clears
`buyInRef` without sending, finds nothing to clear, and the `onopen` that clears it is that
of `wsRef` itself and finds it open.

**The room.** `TableActor_proof` proves for any set of users, of whom any part may come
and go, and any bounds: `TurnsAreTimed` (`TurnIsTimed`), `EndsAreScheduled`
(`EndIsScheduled`), `WinnersStaySeated` (`WinnersAreSeated`), and beside them
`ClocksAreForTurns` (`ClockIsForTurn`) and `LeaversAreHeld` (`LeaversAreInTheHand`), which
no run repeats. The invariant is `RoomInv` = `TypeOK /\ Clocks /\ Members`. `Clocks` is
inductive as it stands: each path of the actor either leaves hand and clock alone or ends in
`Proceed` or `StartHand`, which set both. `Members` needs `DealtAreThere`: seats are emptied
by a leave or a kick at once only if the hand does not know the user, so winners stay seated
because whoever is dealt in is known; and a leave is deferred only to a hand that knows the
user, so that nobody is leaving when the next hand is dealt.

**The raise panel.** `HandEngine_proof` also proves, without an ante, `TableStaysSound`,
`PanelStaysLegal` (`PanelIsLegal`, on the web; on the phone it is false, section 5) and
`RaisesAreOffered` (`EveryRaiseIsOffered`, both clients). The hand moves by the engine's
steps only, so `IInv` carries over; `TableInv` adds that the least raise is never below the
big blind (`BigRaise`) and that the amount is a number. `PanelIsLegal` then is about
staleness: the page resets the amount when the least raise it computes changes, and only
then, so an amount survives any turn after which the least raise is the same. What has to be
shown is that then the most is the same too, that is, that the hero did not pay meanwhile. A
fold or check pays nothing; after a raise the hero is not asked at once; and after his call
he is asked at once only if the call closed the street, in which case the least raise is the
big blind and no longer what it was (`CalledAgain`).

**The buy-ins.** `TournamentMoney_proof` proves, for any users, wallets, payout structures,
requests at a time, and any number of failed writes and crashes, for both kinds of
tournament: `EveryBuyInIsAccounted` (`Accounted`) and `CommitmentsAreCharged`
(`CommittedIsCharged`). `MoneyInv` adds to the types what makes `Accounted` inductive: the
inbox holds requests that wait, each once (`QueueInv`), so an answer settles one buy-in; the
pool is the buy-ins of the players, at most `MaxPlayers` (`PoolInv`), so prizes are numbers;
nobody is out before the start (`PlayInv`); a stored registration is of a player or of a
user whose buy-in was lost (`RegsInv`). `OneRequest` computes what is under way when one
request changes, and every step then has to balance for each user (`Balanced`): a debit
against the request that carries it, a seat against the request that asked for it, a crash
against `gone`.

**The prizes.** The same module proves `PoolIsGivenOut` (`PoolIsPaidOut`): at the end of a
tournament the prizes paid and the chips left over (`missed`: a rest of a division, a
position nobody holds, a write that failed) are the pool, for any number of users and
positions, under one hypothesis, that the percentages are at most 100 in all. The code
checks this nowhere; the structures it seeds add up to 100. Without the hypothesis
`EveryPrizeIsCounted` says what happens: what was won and missed is the larger of the pool
and the sum of the shares. `PrizeInv` relates a sum over users to one over positions: what
was won and missed is the sum of the prizes of the positions before `due`, which is 1 until
the actor pays and one past the last when it has finished. `PayPosition` moves both sums by
the same prize; that whole shares are no more than the pool is `SumScales` and
`SumIsMonotone`.

**The room and its books.** `TableMoney_proof` proves that TableMoney implements Ledger
(`RoomKeepsTheBooks`, `ImplementsLedger`) and its types (`MoneyTypes`), for any finite set of
users, any buy-in and any wallets, with every failure the module has. The invariant is `TypeOK`
and `HandSeated` (whoever a hand knows has a seat). The steps of the tasks and the actor
outside a hand touch one user, and each is shown to leave his `Holdings` as they were or to
change them by what `leak` counts; a bet is the ledger's bet, or a counted slip of it when the
stack of the seat was replaced by a second join. `FinishHand` is the hard one: winnings of
all seats, and leaves that were deferred and credited twice, happen at once, so that the pot
has to equal a sum of differences of holdings, less the sum over those credited twice and the
pot that nobody was paid.

**Sums.** Both rest on `Chips` too, lemmas about `SumOver(f, S)`, the sum of `f[u]` over a
finite set `S` as the community modules define it, by recursion over chosen elements: the
empty sum, one member more or less, equal functions, differences, bounds, multiples, the
order of two sums. The induction the library offers takes a predicate as a parameter, which
the provers cannot instantiate; `SubsetInduction` says the same of a set of subsets (if it has
`s` whenever it has `s` without any one of its members, it has the whole set), which follows
from the well-foundedness of inclusion on finite sets and can be used with any set that is
written out. That such a recursion has a solution at all, and one only, is proved the same way
(`SolutionExists`, `LayersExist`).

**The client.** `TableClient_proof` proves, for any bounds on hands, decisions, losses and
messages: `ClientShowsTheHand` (`ShowsTheHand`), `ClientPutsAwayTheHand`
(`PutsAwayTheHand`), `ActionsAreAppliedAsMeant` (`AppliedAsMeant`),
`PreActionsAreForThisDecision` (`PreActionIsForThisDecision`), `PreActionsAnswerOnce`
(`PreActionAnswersOnce`) and the types. All of them are about two sides with a queue between
them, so the invariant has to speak of every message under way. `Settles` says what a part of
the room comes to once the queue is read: the last message that sets the part decides, or the
room itself if none does; `SettleInv` says that it comes to what the actor shows, for the
state, the question, the hole cards and the reveal. Appending a message and taking one are a
lemma each, whatever the part. For the pre-action, `AskInv` orders the questions under way by
their decisions and says that one not yet seen is newer than all seen, `PendingInv` that a
decision the client may act on is the current one or was acted on, and `GapInv` that between
two questions of different decisions with nothing that takes the buttons away, the first was
answered; so a timer that lives through the change of question is one whose decision was
answered by the player himself, or, on a new connection, taken by his clock before (`Overtaken`).

**The page.** `TableActor_proof` proves of TablePage, for any rooms, messages under way,
buy-ins and lost connections, of a page opened to play: `UnseatedIsAsked`
(`AskedWhenUnseated`), `QuestionStays` (`AddingIsShown`) and `OneBuyIn` (`OneJoinAtATime`).
Nothing the page shows says that the question for a buy-in was asked, since an effect runs
only when one of its dependencies has changed. The invariant `PageInv` therefore speaks of
what the effects last saw: `Asked` says that the question is there whenever the effect that
asks it has run for what the page holds, the joining effect before the player joined, the
rebuy effect after. An event keeps that because it either changes a dependency, or brings a
room, or brings Not seated, which has an effect of its own; a pass of the four effects keeps
it by `EffectsPass`, which says what they come to in the order of the source. `Patient` is the
rest: a page that waits for a seat asks for nothing but one more table.

**A Sit & Go.** `SitGo_proof` proves for any number of players, any stacks, blinds and
percentages: `DirectorKnowsWhoIsIn` (`SurvivorsAccounted`), `NextHandIsAskedFor`
(`SomebodyDeals`) and `TableKeepsItsChips` (`ChipsAccounted`). The director learns of a
bust one hand late and the table knows nothing of survivors. The invariant `Agreement` says
that the survivors are, apart from each other, those seated, those removed by a vote and those
whose bust is under way; that nobody's bust is under way twice (`Apart`), which holds because
whoever is dealt to has chips and leaves the table with them; and what a table without a hand
waits for. That the chips of a hand go to its seats is `PayoutIsFair` again. Of the chips
the run and the theorem say two things: stacks, chips that left with their owners and pots
that nobody was paid add up to the buy-ins, and no pot is lost unless somebody was removed
during a reveal. The second needs `EndsOnce`: until then one end of a hand is under way for a
complete hand, and none otherwise.

**A tournament of several tables.** `TournamentMoney_proof` proves of MttDirector, for any
entrants, any capacity above two, any hands and kicks: `DirectorLosesNobody`
(`RostersAreSurvivors`), `SeatsAndRostersAgree` (`SeatsFollowRosters`), `NoTableIsForgotten`
(`TableIsNotForgotten`) and `DirectorTypesHold` (`DirectorTypeOK`). The invariant is
`DirectorInv`. `Homes`: the rosters are the survivors, each at home. `Seats`: nobody sits at a
closed table, with several tables whoever sits at one is on its roster, and whoever is on a
roster is accounted for. `MovesFit`: the moves that are left go between tables of the director, are of
players who are still where the plan found them, and leave each table within its capacity,
counting everybody who is to come; a rebalancing takes from tables of at most two and brings to
tables of three, and a merge leaves one table. It holds of a plan because each turn of the loop
counts the turns before it (`RebalanceMovesAre`), and it is what makes a transfer find a free
seat (`SeatIsFree`): none is ever refused, so that the branch of the code for a refused one,
which forgets the player, is not taken. `Reports` is the part that is not obvious. The tables
play while players are moved, so a player who is all-in may be moved away, and his bust then
stands in the cache of a table he has left; were it reported, he would be struck off while he
sits elsewhere. It is not, short of the final merge: he was moved away from a table of one or
two, a bust is reported at the end of a later hand, and that hand was dealt to two players
who are not busts (`HandSpares`); a table that still has two of its own reports its own
(`CacheIsOwn`, `HandIsOwn`). In a merge all this stops to matter only once it is over: with one
table left the second half of `SeatsFollowRosters` is not promised (section 5).

Only model-checked: liveness under fairness (`HandEnds`, `LeavesAreAnswered`, `Reconnects`,
`PreActionIsSent`, `RequestsEnd`, `LastPlayerWins`), which is out of the prover's reach, and
the other finding (`CancelledIsRefunded`); every other property of a run is a theorem. Some
theorems are about less than their module: those of HandEngine and BetBar about hands without
an ante, those of TablePage about a page opened to play, `LossIsRetried`, `BuyInIsNotForgotten`
and `PanelStaysLegal` about the web; what fails beyond is in section 5.

## 5. Findings

Each is shown by a run and quoted with its lines in `PROJECT.json`.

1. `sit_go_ends`: busts are reported one hand late; the last one is never reported, the
   tournament does not end and pays no prize.
2. `tournament_crash`: at startup a Sit & Go that was running is cancelled and nobody gets
   his buy-in back, because a Sit & Go stores no registrations; an MTT, which does, never
   has the status Running and is not settled.

Shown by the models, without a run of their own. A property named below is defined beside
the others of its module and can be put into a configuration:

* With an ante that takes the whole stack of the first seat to act, the hand opens waiting
  for a seat that may not act (`TurnIsOpen` of HandEngine with `Ante = 1`;
  game_state.rs:308).
* A seat that has acted may raise again after a short all-in, although the comment
  (game_state.rs:407) says only a full raise re-opens action (`OnlyFullRaiseReopens`).
* A forced leave during the reveal schedules a second ShowdownComplete, which may close the
  next hand while it is played (`OnlyCompleteHandsClose` of TableActor; actor.rs:1348), and
  the pot of that hand is paid to nobody (`LosePot` of TableMoney, `LosePots` of SitGo;
  game_state.rs:860). The runs count such pots rather than forbid them.
* A user who is leaving and joins the room again has his stack replaced by the new buy-in,
  is not debited, and gets the stack of the running hand back with his next action
  (`Join`, `Act` of TableMoney; actor.rs:1017).
* A pre-action that waits through a reconnect may answer the player's next decision instead
  of the one his clock has taken from him (`Overtaken` of TableClient).
* A deferred leave is written to the wallet by the actor and again by the task that waits
  for the answer (`DeferredLeavesArePaidOnce` of TableMoney; actor.rs:2198).
* A client that lost the end of a hand keeps its reveal (`RevealIsCurrent` of TableClient),
  and a seated player who has lost all his chips is not offered new ones, because the
  dialog closes itself (`BustedIsAsked` of TablePage; TablePage.tsx:626, 662).
* On the phone (`AsyncTokens`), a socket lost while `onopen` reads the token leaves a page
  that neither connects nor tries (`Retried`; useGameWebSocket.ts:476), and its `onopen`
  hands a waiting buy-in to the dead socket, which swallows it (`BuyInKept`). With `Phone`, the
  raise panel keeps an amount of an earlier turn (`PanelIsLegal`; the phone's
  ActionBar.tsx:991).
* A player of a multi-table tournament may sit at the final table while the director counts
  him out: he goes all-in in a hand, is moved to another table by a rebalancing and back by the
  final merge, and the first table's late report of his bust then strikes him off. It takes
  six entrants; `SeatsFollowRosters` promises that who sits is on a roster only while there are
  several tables.
* In MttDirector, none of which loses a player for good. A rebalancing moves users who are
  not seated (`MovedAreSeated`): the comment of `do_rebalance` (mtt_director.rs:573) says
  rosters are pruned of them, but GetPlayerStack answers zero for a user without a seat
  (actor.rs:805), so nobody is pruned, and a bust not reported yet, or a user removed by a
  vote, is seated again with an empty stack. Players are moved out of hands they are in
  (`MovedBetweenHands`): PauseHand (actor.rs:819) sets a flag nothing reads; what such a player
  wins is paid to nobody. A bust reported by a table that was closed meanwhile is thrown away
  (mtt_director.rs:462), and the user stays a survivor. As in `sit_go_ends`, the last bust is
  never reported: `completed` is reached by no behaviour. Empty tables are dropped from the
  director's list and never shut down (docs/spec/mtt-sg.md:627 says they are).
* In TablePage: a refused join leaves `isJoining` set; a second "Not seated" in a row
  triggers nothing; a snapshot of another room of the player makes it the active one; a
  TableState that arrives after leaving brings the room back; a page opened by a link
  joins again after leaving (`Modes` with "link"); a kick leaves the room listed for its
  user in the registry.

Noted while reading: `get_busted_players` reads stacks to which the winnings were not
added, so an all-in winner is removed with the pot (SitGo does so too: `Busted`); users
who bust together are placed in the reverse of the order the documentation gives
(`docs/spec/mtt-sg.md:452`); a table whose next blind is short never deals again
(actor.rs:1485); a StartHand message of a user without a seat ends the room's actor
(actor.rs:746); `isDealing` of the client may stay set when the table is changed during
the animation (DealAnimationLayer.tsx:92).

## 6. Not modelled

* Hand evaluation and the deck: pure functions of 52 cards, replaced by every possible
  ranking.
* The registry's life of rooms, payments, the database writer, missions, clubs,
  authentication, bots and the rest: `PROJECT.json` has each with its reason. A wallet
  update is one atomic step that may fail in both money modules.
* In the modelled components: formatting, logging, statistics, chat, spectators, history,
  the ballots of a kick vote (its outcome is an action), the StartHand message that ends an
  actor (no liveness of a room survives it), the creation of tournament tables and seating
  of their players, which is taken not to fail.
* Most of the client by volume. Of its some sixty thousand lines of TypeScript nearly all are
  layout: screens, icons, styles, animations, generated routes and translations, the same
  screen once for the web and once for the phone, and the tests. They keep no state that
  another part reads and no order matters to them. What has state, timers or messages (the
  hook, the store, pre-actions, the bar, the page's effects) is modelled, so the share of
  the client's lines under a definition stays small although its logic is covered.

## 7. What could come next

1. **Rooms**: the registry's counts, assignment, reaper, user-to-room map and senders;
   nobody is seated in a room that was reaped.
2. **Payments** and **WriterLoop**: deliveries in any order and number, awards after the
   flip; batches, savepoints and read-modify-write.
3. **Three tables in a run**, and theorems about hands with an ante that leaves the first seat
   chips (`Ante > 0` with stacks above it).
