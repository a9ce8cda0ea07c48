---------------------------- MODULE MttDirector ----------------------------
(***************************************************************************)
(* A multi-table tournament that is running: the director (MttDirector,    *)
(* mtt_director.rs), who breaks short tables up, merges the last survivors *)
(* into a final table, and has the next hands dealt; and its tables, each  *)
(* an actor of its own (actor.rs in tournament mode).  A hand is in        *)
(* progress at any of them while the director moves players one by one.    *)
(*                                                                         *)
(* Tables read the director's commands in the order he sent them, and he   *)
(* waits for the answer to each PauseHand, ResumeHand and transfer.        *)
(* PauseHand only sets a flag that nothing reads (the timer it aborts is   *)
(* never set; hands have timers of their own), and GetPlayerStack answers  *)
(* zero for a user without a seat, so that no roster is ever pruned: both  *)
(* are just answers to wait for.                                           *)
(*                                                                         *)
(* Abstracted: betting (a stack is empty or not; anybody dealt in may go   *)
(* all-in), turns and clocks (TableActor), blinds (a hand may be refused   *)
(* for them), who sits out (SitGo has it), seat numbers, registration,     *)
(* prizes and positions (TournamentMoney).  Creating the tables and        *)
(* seating the players is taken not to fail.                               *)
(***************************************************************************)
EXTENDS Integers, Sequences, FiniteSets, Functions, Sorting

CONSTANTS Players,    \* the entrants
          Nobody,     \* nobody is between two tables
          Capacity,   \* seats of a table; 9
          MaxStarts,  \* bound: hands the players start
          MaxKicks    \* bound: players removed by a vote

ASSUME MttAssumption ==
  /\ IsFiniteSet(Players) /\ Cardinality(Players) >= 2 /\ Nobody \notin Players
  /\ Capacity \in Nat /\ Capacity > 2 /\ MaxStarts \in Nat /\ MaxKicks \in Nat

NumTables == (Cardinality(Players) + Capacity - 1) \div Capacity
Tables    == 1 .. NumTables

Moves  == [user : Players, from : Tables, to : Tables]
NoJob  == [kind |-> "none", moves |-> <<>>]
NoHand == [known |-> {}, dealt |-> {}, allIn |-> {}]

VARIABLES completed,   \* the tournament has ended
          tables,      \* the director's tables, a sequence
          roster,      \* TableInfo.players of each
          survivors,
          home,        \* user_to_table
          job,         \* what the director does: his answer to an event, moves left
          transit,     \* who is out of one table and not in the next
          events,      \* HandCompleted events not read yet: [from, busted]
          starts,      \* StartHand commands not handled by each table
          seated,      \* the players of each table
          broke,       \* the users with an empty stack at the table they sit at
          hand,        \* whom it knows, whom it dealt in, and who of them is all-in
          leaving,     \* kicked users whose leave waits for the end of the hand
          cache,       \* busted_players_cache of each table
          refused,     \* tables that had nobody to deal to when last asked
          kicked,      \* history: users removed by a vote
          started      \* history: StartHand commands of players

director == <<completed, tables, roster, survivors, home, job, transit>>
atTables == <<seated, broke, hand, leaving, cache, refused, kicked>>
directorVars == <<director, atTables, events, starts, started>>

Listed == Range(tables)

-----------------------------------------------------------------------------
(* start_tournament: the shuffled players are dealt out to the tables, and *)
(* each table is asked for its first hand.                                 *)
Dealt(entry, t) ==
  Keeping(entry, {entry[i] : i \in {j \in DOMAIN entry : (j - 1) % NumTables = t - 1}})

DirectorInit ==
  /\ \E entry \in Bijection(1 .. Cardinality(Players), Players) :
       roster = [t \in Tables |-> Dealt(entry, t)]
  /\ seated = [t \in Tables |-> Range(roster[t])]
  /\ home = [u \in Players |-> CHOOSE t \in Tables : u \in seated[t]]
  /\ completed = FALSE
  /\ tables = [i \in Tables |-> i] /\ survivors = Players
  /\ job = NoJob /\ transit = Nobody
  /\ events = <<>> /\ starts = [t \in Tables |-> 1]
  /\ broke = {} /\ hand = [t \in Tables |-> NoHand]
  /\ leaving = [t \in Tables |-> {}] /\ cache = [t \in Tables |-> {}]
  /\ refused = {} /\ kicked = {} /\ started = 0

-----------------------------------------------------------------------------
(* A table.                                                                *)

Playing(t) == hand[t] # NoHand
Eligible(t) == seated[t] \ (broke \cup leaving[t])

(* start_new_hand: nothing while a hand is played; a hand is refused when  *)
(* there are less than two to deal to, or one of them is short of a blind. *)
Deals(t) ==
  IF Playing(t) THEN {hand[t]}
  ELSE {NoHand} \cup IF Cardinality(Eligible(t)) < 2 THEN {}
                     ELSE {[known |-> seated[t], dealt |-> Eligible(t), allIn |-> {}]}

StartNewHand(t) ==
  /\ \E h \in Deals(t) : hand' = [hand EXCEPT ![t] = h]
  /\ refused' = IF hand'[t] = NoHand THEN refused \cup {t} ELSE refused \ {t}
  /\ UNCHANGED <<director, events, seated, broke, leaving, cache, kicked>>

(* The StartHand command of the director; of a seated user.                *)
StartHand(t) == /\ starts[t] > 0
                /\ starts' = [starts EXCEPT ![t] = @ - 1]
                /\ StartNewHand(t) /\ UNCHANGED started

StartHandOf(t) == /\ seated[t] # {} /\ started < MaxStarts
                  /\ started' = started + 1
                  /\ StartNewHand(t) /\ UNCHANGED starts

(* An action that empties the stack the hand knows.  The player need not   *)
(* be at the table any more; if he is, that is his stack.                  *)
GoAllIn(t, u) ==
  /\ u \in hand[t].dealt \ hand[t].allIn
  /\ hand' = [hand EXCEPT ![t].allIn = @ \cup {u}]
  /\ broke' = IF u \in seated[t] THEN broke \cup {u} ELSE broke
  /\ UNCHANGED <<director, events, starts, started, seated, leaving, cache, refused, kicked>>

(* The event has the busts of the hand before.                             *)
Report(t) == /\ events' = Append(events, [from |-> t, busted |-> cache[t]])
             /\ cache' = [cache EXCEPT ![t] = hand[t].allIn]

(* finalize_hand and clear_board_and_start_next: whoever went all-in is    *)
(* busted, winners too (what they win is not in the engine's stacks), and  *)
(* removed.                                                                *)
FinishHand(t) ==
  /\ Playing(t)
  /\ Report(t)
  /\ seated' = [seated EXCEPT ![t] = @ \ (hand[t].allIn \cup leaving[t])]
  /\ broke' = broke \ (hand[t].allIn \cap seated[t])
  /\ kicked' = kicked \cup (leaving[t] \ hand[t].allIn)
  /\ leaving' = [leaving EXCEPT ![t] = {}]
  /\ hand' = [hand EXCEPT ![t] = NoHand]
  /\ UNCHANGED <<director, starts, started, refused>>

(* finalize_kick_vote: at least two others voted.                          *)
Kick(t, u) ==
  /\ u \in seated[t] \ leaving[t] /\ Cardinality(seated[t] \ {u}) >= 2
  /\ Cardinality(kicked \cup UNION Range(leaving)) < MaxKicks
  /\ IF u \in hand[t].known
     THEN /\ leaving' = [leaving EXCEPT ![t] = @ \cup {u}]
          /\ UNCHANGED <<seated, broke, kicked>>
     ELSE /\ seated' = [seated EXCEPT ![t] = @ \ {u}]
          /\ broke' = broke \ {u} /\ kicked' = kicked \cup {u}
          /\ UNCHANGED leaving
  /\ UNCHANGED <<director, events, starts, started, hand, cache, refused>>

-----------------------------------------------------------------------------
(* The director's plans.                                                   *)

(* The players of some tables, in the order of the director's lists.       *)
PlacesAt(ts, lists) ==
  {p \in (DOMAIN tables) \X (1 .. Cardinality(Players)) :
     tables[p[1]] \in ts /\ p[2] \in DOMAIN lists[tables[p[1]]]}

Before(places) ==
  {pq \in places \X places :
     pq[1][1] < pq[2][1] \/ (pq[1][1] = pq[2][1] /\ pq[1][2] < pq[2][2])}

PlayersAt(ts, lists) ==
  LET order == Sorted(PlacesAt(ts, lists), Before(PlacesAt(ts, lists)))
  IN  [k \in DOMAIN order |-> [user |-> lists[tables[order[k][1]]][order[k][2]],
                               from |-> tables[order[k][1]]]]

(* compute_rebalance_moves_with_capacity: from tables of one or two, each  *)
(* to the least full of the others that has room for him, counting those   *)
(* sent there before him.                                                  *)
Short(list) == Len(list) <= 2
Targets(lists) == {t \in Listed : ~Short(lists[t])}

Load(lists, to, k, t) == Len(lists[t]) + Cardinality({i \in 1 .. k - 1 : to[i] = t})

(* Mistake: the plan does not look at the room there is (T-9).             *)
Overfull(lists, to, k) == Targets(lists)

Open(lists, to, k) == {t \in Targets(lists) : Load(lists, to, k, t) < Capacity}

LeastFull(lists, to, k) ==
  {t \in Open(lists, to, k) : \A o \in Open(lists, to, k) :
     \/ Load(lists, to, k, t) < Load(lists, to, k, o)
     \/ (Load(lists, to, k, t) = Load(lists, to, k, o) /\ t <= o)}

RebalanceMoves(lists) ==
  LET them == PlayersAt(Listed \ Targets(lists), lists)
      To(n) == {to \in [1 .. n -> Targets(lists)] :
                  \A k \in 1 .. n : to[k] \in LeastFull(lists, to, k)}
  IN  UNION {{[k \in 1 .. n |-> [user |-> them[k].user, from |-> them[k].from, to |-> to[k]]] :
                to \in {f \in To(n) : n = Len(them) \/ Open(lists, f, n + 1) = {}}} :
             n \in 0 .. Len(them)}

(* compute_final_table_moves: everybody to the first table with players.   *)
Filled(lists) == Keeping(tables, {t \in Tables : lists[t] # <<>>})

FinalMoves(lists) ==
  LET first == Head(Filled(lists))
      them  == PlayersAt(Listed \ {first}, lists)
  IN  [k \in DOMAIN them |-> [user |-> them[k].user, from |-> them[k].from, to |-> first]]

(* What follows a hand: the final table, a rebalancing, or just the next.  *)
Answers(left, lists) ==
  IF Cardinality(left) <= Capacity /\ Len(tables) > 1
  THEN {[kind |-> "final", moves |-> FinalMoves(lists)]}
  ELSE IF Cardinality(left) > Capacity /\ \E t \in Listed : Short(lists[t])
  THEN {[kind |-> "rebalance", moves |-> moves] : moves \in RebalanceMoves(lists)}
  ELSE {[kind |-> "next", moves |-> <<>>]}

-----------------------------------------------------------------------------
(* handle_hand_completed, up to the first command it sends.                *)
Idle == job = NoJob

Struck(list, busted) == Keeping(list, Players \ busted)

HandleHandCompleted ==
  /\ Idle /\ ~completed /\ events # <<>>
  /\ LET from   == Head(events).from
         busted == Head(events).busted \cap survivors
         left   == survivors \ busted
         lists  == [roster EXCEPT ![from] = Struck(@, busted)]
     IN  IF from \notin Listed
         THEN UNCHANGED <<completed, survivors, roster, job>>
         ELSE /\ survivors' = left /\ roster' = lists
              /\ IF Cardinality(left) <= 1
                 THEN completed' = TRUE /\ UNCHANGED job
                 ELSE job' \in Answers(left, lists) /\ UNCHANGED completed
  /\ events' = Tail(events)
  /\ UNCHANGED <<tables, home, transit, starts, started, atTables>>

(* Every table has answered PauseHand, or ResumeHand: it has handled the   *)
(* StartHand sent to it before.                                            *)
AllAnswer == \A t \in Listed : starts[t] = 0

(* TransferPlayerOut: a player without a seat is answered with no chips.   *)
TakeOut ==
  /\ job.moves # <<>> /\ transit = Nobody /\ AllAnswer
  /\ LET move == Head(job.moves)
     IN  /\ transit' = move.user
         /\ seated' = [seated EXCEPT ![move.from] = @ \ {move.user}]
         /\ leaving' = [leaving EXCEPT ![move.from] = @ \ {move.user}]
         /\ broke' = IF move.user \in seated[move.from] THEN broke ELSE broke \cup {move.user}
  /\ UNCHANGED <<completed, tables, roster, survivors, home, job, events, starts,
                 started, hand, cache, refused, kicked>>

(* Mistake: the move is not entered in the rosters (before T-5).           *)
NotEntered(lists, move) == lists

Entered(lists, move) ==
  [lists EXCEPT ![move.from] = Struck(@, {move.user}), ![move.to] = Append(@, move.user)]

(* TransferPlayerIn, which a table without a free seat refuses; the        *)
(* director then only forgets about the player.                            *)
PutIn ==
  /\ transit # Nobody
  /\ LET move == Head(job.moves)
     IN  IF Cardinality(seated[move.to]) < Capacity
         THEN /\ seated' = [seated EXCEPT ![move.to] = @ \cup {move.user}]
              /\ roster' = Entered(roster, move)
              /\ home' = [home EXCEPT ![move.user] = move.to]
         ELSE UNCHANGED <<seated, roster, home>>
  /\ job' = [job EXCEPT !.moves = Tail(@)]
  /\ transit' = Nobody
  /\ UNCHANGED <<completed, tables, survivors, events, starts, started,
                 broke, hand, leaving, cache, refused, kicked>>

(* The tables the director keeps after his moves.                          *)
Kept == CASE job.kind = "next" -> tables
          [] job.kind = "rebalance" -> Filled(roster)
          [] job.kind = "final" -> SubSeq(Filled(roster), 1, 1)

(* Mistake: the director returns after a merge or a rebalancing.           *)
AskWithoutMoves ==
  IF job.kind # "next" THEN UNCHANGED starts
  ELSE starts' = [t \in Tables |-> IF t \in Range(Kept) THEN 1 ELSE starts[t]]

(* Every table kept is asked for the next hand.                            *)
Ask == starts' = [t \in Tables |-> IF t \in Range(Kept) THEN 1 ELSE starts[t]]

GoOn ==
  /\ ~Idle /\ job.moves = <<>> /\ transit = Nobody /\ AllAnswer
  /\ tables' = Kept
  /\ Ask
  /\ job' = NoJob
  /\ UNCHANGED <<completed, roster, survivors, home, transit, events, started, atTables>>

-----------------------------------------------------------------------------
DirectorNext ==
  \/ HandleHandCompleted \/ TakeOut \/ PutIn \/ GoOn
  \/ \E t \in Tables : \/ StartHand(t) \/ StartHandOf(t) \/ FinishHand(t)
                       \/ \E u \in Players : GoAllIn(t, u) \/ Kick(t, u)

DirectorSpec == DirectorInit /\ [][DirectorNext]_directorVars

-----------------------------------------------------------------------------
DirectorTypeOK ==
  /\ completed \in BOOLEAN
  /\ Listed \subseteq Tables /\ IsInjective(tables)
  /\ \A t \in Tables : Range(roster[t]) \subseteq Players /\ IsInjective(roster[t])
  /\ survivors \subseteq Players /\ home \in [Players -> Tables]
  /\ job.kind \in {"none", "next", "final", "rebalance"} /\ Range(job.moves) \subseteq Moves
  /\ transit \in Players \cup {Nobody}
  /\ \A i \in DOMAIN events : events[i].from \in Tables /\ events[i].busted \subseteq Players
  /\ starts \in [Tables -> 0 .. 1]
  /\ seated \in [Tables -> SUBSET Players] /\ broke \subseteq Players
  /\ \A t \in Tables : /\ hand[t].known \subseteq Players
                       /\ hand[t].dealt \subseteq hand[t].known
                       /\ hand[t].allIn \subseteq hand[t].dealt
                       /\ leaving[t] \subseteq seated[t]
  /\ cache \in [Tables -> SUBSET Players]
  /\ refused \subseteq Tables /\ kicked \subseteq Players /\ started \in 0 .. MaxStarts

(* The director loses nobody: each survivor, and nobody else, is on the    *)
(* roster of exactly one of his tables, the one that get_my_table names,   *)
(* while players are moved, tables closed and events of closed tables      *)
(* thrown away (the T-5 fixes; do_rebalance, do_final_table_merge).        *)
RostersAreSurvivors ==
  ~completed =>
    \A u \in Players :
      LET on == {t \in Listed : u \in Range(roster[t])}
      IN  on = IF u \in survivors THEN {home[u]} ELSE {}

(* Tables and rosters agree: whoever is on a roster sits at that table, is *)
(* between two tables, was removed by a vote, or is a bust that table has  *)
(* still to report; and while there are several tables, whoever sits at    *)
(* one is on its roster.  So nobody the director moves finds the next      *)
(* table full while it goes on playing (T-9; clear_board_and_start_next,   *)
(* TransferPlayerIn and Out).  The final table may seat a player whom the  *)
(* director counts out: he went all-in there, was moved away before the    *)
(* hand was over, and is back when the bust is reported.                   *)
Unreported(t) == cache[t] \cup UNION {events[i].busted : i \in {j \in DOMAIN events : events[j].from = t}}

SeatsFollowRosters ==
  \A t \in Tables :
    IF t \in Listed
    THEN /\ Len(tables) > 1 => seated[t] \subseteq Range(roster[t])
         /\ Range(roster[t]) \subseteq seated[t] \cup Unreported(t) \cup kicked \cup {transit}
    ELSE seated[t] = {}

(* No table waits for the director in vain: one of his tables that plays   *)
(* no hand was asked for one, refused the last, or has its last hand       *)
(* reported to a director who will ask (handle_hand_completed).            *)
TableIsNotForgotten ==
  ~completed =>
    \A t \in Listed : \/ Playing(t) \/ starts[t] > 0 \/ t \in refused
                      \/ ~Idle \/ \E i \in DOMAIN events : events[i].from \in Listed

(* What the comments of do_rebalance promise: rosters are pruned of users  *)
(* who are not seated, so that nobody else is moved.                       *)
MovedAreSeated ==
  job.kind = "rebalance" /\ job.moves # <<>> /\ transit = Nobody /\ AllAnswer =>
    Head(job.moves).user \in seated[Head(job.moves).from]

(* Players are moved between hands (PauseHand).                            *)
MovedBetweenHands ==
  job.moves # <<>> /\ transit = Nobody /\ AllAnswer =>
    Head(job.moves).user \notin hand[Head(job.moves).from].dealt
=============================================================================
