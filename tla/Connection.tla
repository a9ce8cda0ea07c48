----------------------------- MODULE Connection -----------------------------
(***************************************************************************)
(* The connection a client keeps for the table it shows: the hook          *)
(* useGameWebSocket of src/frontend/packages/shared, with as much of the   *)
(* server as answers join_table and reconnect.                             *)
(*                                                                         *)
(* An action is one JavaScript task: an effect, a timer, a socket event, a *)
(* click.  A read of the token splits connect() and onopen in two: on the  *)
(* web it is a resolved promise, so the second half runs before any other  *)
(* task; on the phone it crosses to native code and anything may come      *)
(* between (AsyncTokens).                                                  *)
(*                                                                         *)
(* Abstracted: amounts of chips, tournament registrations, delays, and all *)
(* messages but those that answer a join or a reconnect.                   *)
(***************************************************************************)
EXTENDS Naturals, Sequences, FiniteSets

CONSTANTS Tables,       \* tables the player opens
          NoTable,
          Sockets,      \* slots for WebSocket objects; a closed one is reused
          NoSocket,
          MaxAttempts,  \* MAX_RECONNECT_ATTEMPTS, 8 in the code
          AsyncTokens,  \* a token read is a task of its own (the phone)
          MaxDrops,     \* bound: sockets that fail or close
          MaxJoins,     \* bound: buy-ins the player chooses
          MaxMoves      \* bound: changes of table

ASSUME NamesAssumption == /\ NoTable \notin Tables /\ NoSocket \notin Sockets
                          /\ Tables \cap {"none", "fired"} = {}
ASSUME SlotsAssumption == Sockets \subseteq Nat /\ IsFiniteSet(Sockets)
ASSUME NumbersAssumption ==
    {MaxAttempts, MaxDrops, MaxJoins, MaxMoves} \subseteq Nat
ASSUME AsyncAssumption == AsyncTokens \in BOOLEAN

VARIABLES
  mounted,     \* mountedRef
  table,       \* the tableId the hook was last rendered with
  starting,    \* the 100 ms timer of the mount effect is pending
  inflight,    \* connectInFlightRef: the table of the waiting connect, or NoTable
  state,       \* [Sockets -> SocketStates]: readyState
  forTable,    \* [Sockets -> Tables]: the tableId of the closure
  greeting,    \* sockets whose onopen waits for the token
  cur,         \* wsRef
  timers,      \* [Tables -> Nat]: reconnect timeouts pending, by the closure's table
  timer,       \* reconnectTimeoutRef: "none", "fired", or the table of a pending one
  attempts,    \* reconnectAttempts
  status,      \* connectionStatus
  buyIn,       \* buyInRef: the table its amount was chosen at, or NoTable
  me,          \* myUserIdRef is set
  notSeated,
  up, down,    \* [Sockets -> Seq]: messages to and from the server
  chosen, sent,\* history: buy-ins chosen, join_table messages sent
  drops, moves

hookVars   == <<mounted, table, starting, moves>>
retryVars  == <<timers, timer, attempts, status>>
socketVars == <<state, forTable, cur>>
seatVars   == <<me, notSeated>>
joinVars   == <<buyIn, chosen, sent>>
netVars    == <<up, down>>
vars == <<hookVars, retryVars, socketVars, seatVars, joinVars, netVars,
          inflight, greeting, drops>>

SocketStates == {"connecting", "open", "closing", "closed"}
Is(s, st) == s # NoSocket /\ state[s] = st
Busy(s)   == Is(s, "connecting") \/ Is(s, "open")
Live      == {s \in Sockets : Busy(s)}

(* No resolved promise is waiting: another task may run.                   *)
Idle == AsyncTokens \/ (inflight = NoTable /\ greeting = {})

Requests == {"join", "reconnect"}
Answers  == {"Connected", "Not seated"}

TypeOK ==
  /\ mounted \in BOOLEAN /\ table \in Tables /\ starting \in BOOLEAN
  /\ inflight \in Tables \cup {NoTable}
  /\ state \in [Sockets -> SocketStates] /\ forTable \in [Sockets -> Tables]
  /\ greeting \subseteq Sockets /\ cur \in Sockets \cup {NoSocket}
  /\ timers \in [Tables -> Nat] /\ timer \in Tables \cup {"none", "fired"}
  /\ attempts \in 0 .. MaxAttempts
  /\ status \in {"connected", "reconnecting", "disconnected"}
  /\ buyIn \in Tables \cup {NoTable}
  /\ me \in BOOLEAN /\ notSeated \in BOOLEAN
  /\ up \in [Sockets -> Seq(Requests \X Tables)] /\ down \in [Sockets -> Seq(Answers)]
  /\ {chosen, sent, drops, moves} \subseteq Nat

Init ==
  /\ mounted = TRUE /\ starting = TRUE /\ table \in Tables
  /\ inflight = NoTable /\ greeting = {}
  /\ state = [s \in Sockets |-> "closed"]
  /\ forTable = [s \in Sockets |-> table]
  /\ cur = NoSocket
  /\ timers = [t \in Tables |-> 0] /\ timer = "none" /\ attempts = 0
  /\ status = "disconnected"
  /\ buyIn = NoTable /\ chosen = 0 /\ sent = 0
  /\ me = FALSE /\ notSeated = FALSE
  /\ up = [s \in Sockets |-> << >>] /\ down = [s \in Sockets |-> << >>]
  /\ drops = 0 /\ moves = 0

-----------------------------------------------------------------------------
(* Mistake: readyState is not looked at.                                   *)
ConnectUnguarded(t) ==
  IF mounted /\ inflight = NoTable
  THEN inflight' = t /\ me' = FALSE /\ notSeated' = FALSE
  ELSE UNCHANGED <<inflight, seatVars>>

(* connect() of the hook rendered with t: its guards, and what precedes    *)
(* the read of the token.                                                  *)
Connect(t) ==
  IF mounted /\ ~Busy(cur) /\ inflight = NoTable
  THEN inflight' = t /\ me' = FALSE /\ notSeated' = FALSE
  ELSE UNCHANGED <<inflight, seatVars>>

Free(s) == state[s] = "closed" /\ s \notin greeting

(* The token is read: a new WebSocket, unless the page has gone.           *)
TokenRead ==
  /\ inflight # NoTable
  /\ inflight' = NoTable
  /\ IF mounted
     THEN \E s \in Sockets :
            /\ Free(s) /\ \A r \in Sockets : Free(r) => s <= r
            /\ state' = [state EXCEPT ![s] = "connecting"]
            /\ forTable' = [forTable EXCEPT ![s] = inflight]
            /\ cur' = s
     ELSE UNCHANGED socketVars
  /\ UNCHANGED <<hookVars, retryVars, seatVars, joinVars, netVars, greeting, drops>>

(* The timer of the mount effect.                                          *)
Start ==
  /\ Idle /\ starting
  /\ starting' = FALSE
  /\ Connect(table)
  /\ UNCHANGED <<mounted, table, moves, retryVars, socketVars, joinVars, netVars,
                 greeting, drops>>

(* A reconnect timeout.  Its reference is not cleared when it fires, and   *)
(* one that the reference no longer names may be pending beside it.        *)
Elapsed(t) == [timers EXCEPT ![t] = @ - 1]

TimerFires(t) ==
  /\ Idle /\ timers[t] > 0
  /\ timers' = Elapsed(t)
  /\ \/ timer = t /\ timer' = "fired"
     \/ (timer = t => timers[t] > 1) /\ UNCHANGED timer
  /\ Connect(t)
  /\ UNCHANGED <<hookVars, attempts, status, socketVars, joinVars, netVars,
                 greeting, drops>>

(* The platform reports that the network is back.                          *)
Online ==
  /\ Idle /\ mounted /\ ~Busy(cur)
  /\ Connect(table)
  /\ UNCHANGED <<hookVars, retryVars, socketVars, joinVars, netVars, greeting, drops>>

(* onopen, up to its read of the token.                                    *)
Open(s) ==
  /\ Idle /\ state[s] = "connecting"
  /\ state' = [state EXCEPT ![s] = "open"]
  /\ greeting' = greeting \cup {s}
  /\ UNCHANGED <<hookVars, retryVars, forTable, cur, seatVars, joinVars, netVars,
                 inflight, drops>>

Post(s, m) == IF Is(s, "open") THEN [up EXCEPT ![s] = Append(@, m)] ELSE up

(* Mistakes: buyInRef is not reset, or is reset and a reconnect sent.      *)
GreetKeepsBuyIn(s) ==
  /\ up' = IF buyIn # NoTable THEN Post(cur, <<"join", forTable[s]>>)
           ELSE Post(s, <<"reconnect", forTable[s]>>)
  /\ sent' = IF buyIn # NoTable /\ Is(cur, "open") THEN sent + 1 ELSE sent
  /\ UNCHANGED buyIn
GreetReconnects(s) ==
  buyIn' = NoTable /\ up' = Post(s, <<"reconnect", forTable[s]>>) /\ UNCHANGED sent

(* What onopen sends: the buy-in that waits, through wsRef, or a reconnect *)
(* through its own socket.  A socket that is not open swallows it.         *)
Greet(s) ==
  IF buyIn # NoTable
  THEN /\ buyIn' = NoTable
       /\ up' = Post(cur, <<"join", forTable[s]>>)
       /\ sent' = IF Is(cur, "open") THEN sent + 1 ELSE sent
  ELSE /\ up' = Post(s, <<"reconnect", forTable[s]>>)
       /\ UNCHANGED <<buyIn, sent>>

(* Mistake: the status is set where the reconnect is sent.                 *)
OpenedQuietly(s) ==
  /\ s \in greeting
  /\ greeting' = greeting \ {s}
  /\ IF mounted
     THEN /\ status' = IF buyIn = NoTable THEN "connected" ELSE status
          /\ attempts' = 0
          /\ Greet(s)
          /\ timers' = IF timer \in Tables THEN Elapsed(timer) ELSE timers
          /\ timer' = "none"
     ELSE UNCHANGED <<retryVars, buyIn, sent, up>>
  /\ UNCHANGED <<hookVars, socketVars, seatVars, chosen, down, inflight, drops>>

(* onopen after its read.  send() throws while wsRef is connecting, and    *)
(* the rest of the handler is not run.                                     *)
Opened(s) ==
  /\ s \in greeting
  /\ greeting' = greeting \ {s}
  /\ IF mounted
     THEN /\ status' = "connected" /\ attempts' = 0
          /\ IF buyIn # NoTable /\ Is(cur, "connecting")
             THEN UNCHANGED <<buyIn, sent, up, timers, timer>>
             ELSE /\ Greet(s)
                  /\ timers' = IF timer \in Tables THEN Elapsed(timer) ELSE timers
                  /\ timer' = "none"
     ELSE UNCHANGED <<retryVars, buyIn, sent, up>>
  /\ UNCHANGED <<hookVars, socketVars, seatVars, chosen, down, inflight, drops>>

(* onmessage, for the two answers.                                         *)
Receive(s) ==
  /\ Idle /\ state[s] = "open" /\ down[s] # << >>
  /\ down' = [down EXCEPT ![s] = Tail(@)]
  /\ IF mounted
     THEN IF Head(down[s]) = "Connected"
          THEN buyIn' = NoTable /\ me' = TRUE /\ notSeated' = FALSE
          ELSE notSeated' = TRUE /\ UNCHANGED <<buyIn, me>>
     ELSE UNCHANGED <<buyIn, seatVars>>
  /\ UNCHANGED <<hookVars, retryVars, socketVars, chosen, sent, up, inflight,
                 greeting, drops>>

(* A connection attempt fails, the network dies or the server closes: what *)
(* was not delivered is lost.  (Of what was sent and is lost here the      *)
(* server may have handled any part; its answer is lost all the same.)     *)
Drop(s) ==
  /\ Idle /\ Busy(s) /\ drops < MaxDrops
  /\ drops' = drops + 1
  /\ state' = [state EXCEPT ![s] = "closing"]
  /\ down' = [down EXCEPT ![s] = << >>]
  /\ up' = [up EXCEPT ![s] = << >>]
  /\ UNCHANGED <<hookVars, retryVars, forTable, cur, seatVars, joinVars,
                 inflight, greeting>>

(* Mistake: the status promises a retry and no timeout is set.             *)
RetryUnarmed(t) ==
  status' = "reconnecting" /\ attempts' = attempts + 1 /\ UNCHANGED <<timers, timer>>

(* onclose.  It resets wsRef whichever socket that is.                     *)
Retry(t) ==
  /\ status' = "reconnecting" /\ attempts' = attempts + 1
  /\ timers' = [timers EXCEPT ![t] = @ + 1] /\ timer' = t

GiveUp == status' = "disconnected" /\ UNCHANGED <<timers, timer, attempts>>

Closed(s) ==
  /\ Idle /\ state[s] = "closing"
  /\ state' = [state EXCEPT ![s] = "closed"]
  /\ IF mounted
     THEN /\ cur' = NoSocket
          /\ \/ attempts < MaxAttempts /\ Retry(forTable[s])
             \/ attempts >= MaxAttempts /\ GiveUp
             \/ GiveUp                              \* code 4001 or 4401
     ELSE UNCHANGED <<cur, retryVars>>
  /\ UNCHANGED <<hookVars, forTable, seatVars, joinVars, netVars, inflight, greeting, drops>>

-----------------------------------------------------------------------------
(* sendJoin: the player has chosen a buy-in for the table shown.           *)
SendJoin ==
  /\ Idle /\ mounted /\ chosen < MaxJoins
  /\ chosen' = chosen + 1
  /\ IF Is(cur, "open")
     THEN /\ up' = Post(cur, <<"join", table>>)
          /\ sent' = sent + 1
          /\ buyIn' = NoTable
          /\ UNCHANGED <<inflight, seatVars>>
     ELSE /\ buyIn' = table
          /\ IF cur = NoSocket THEN Connect(table) ELSE UNCHANGED <<inflight, seatVars>>
          /\ UNCHANGED <<up, sent>>
  /\ UNCHANGED <<hookVars, retryVars, socketVars, down, greeting, drops>>

(* The cleanup of the mount effect: timers cleared, the current socket     *)
(* silenced and closed.                                                    *)
Cleanup ==
  /\ timers' = IF timer \in Tables THEN Elapsed(timer) ELSE timers
  /\ timer' = "none"
  /\ state' = IF cur = NoSocket THEN state ELSE [state EXCEPT ![cur] = "closed"]
  /\ down'  = IF cur = NoSocket THEN down  ELSE [down EXCEPT ![cur] = << >>]
  /\ up'    = IF cur = NoSocket THEN up    ELSE [up EXCEPT ![cur] = << >>]
  /\ cur' = NoSocket
  /\ UNCHANGED <<attempts, status, forTable, seatVars, joinVars, inflight, greeting, drops>>

(* The route shows another table: the same hook, its effect run again.     *)
Move(t) ==
  /\ Idle /\ mounted /\ t # table /\ moves < MaxMoves
  /\ table' = t /\ starting' = TRUE /\ moves' = moves + 1
  /\ Cleanup
  /\ UNCHANGED mounted

Unmount ==
  /\ Idle /\ mounted
  /\ mounted' = FALSE /\ starting' = FALSE
  /\ Cleanup
  /\ UNCHANGED <<table, moves>>

-----------------------------------------------------------------------------
(* The server takes a request.  Whether the user has a seat is its own     *)
(* business here: a join may be refused, which is only shown, and a        *)
(* reconnect may find no room of the user.                                 *)
Serve(s) ==
  /\ Idle /\ up[s] # << >>
  /\ up' = [up EXCEPT ![s] = Tail(@)]
  /\ LET request == Head(up[s])[1] IN
       \/ down' = [down EXCEPT ![s] = Append(@, "Connected")]
       \/ request = "join" /\ UNCHANGED down
       \/ request = "reconnect" /\ down' = [down EXCEPT ![s] = Append(@, "Not seated")]
  /\ UNCHANGED <<hookVars, retryVars, socketVars, seatVars, joinVars, inflight,
                 greeting, drops>>

Next ==
  \/ Start \/ TokenRead \/ Online \/ SendJoin \/ Unmount
  \/ \E s \in Sockets : Open(s) \/ Opened(s) \/ Receive(s) \/ Drop(s) \/ Closed(s) \/ Serve(s)
  \/ \E t \in Tables : TimerFires(t) \/ Move(t)

(* Timers fire, promises resolve, an attempt to connect succeeds or fails  *)
(* and a socket that closes says so.  Neither the player nor the network   *)
(* promises anything.                                                      *)
Fairness ==
  /\ WF_vars(Start) /\ WF_vars(TokenRead)
  /\ \A t \in Tables : WF_vars(TimerFires(t))
  /\ \A s \in Sockets : WF_vars(Open(s)) /\ WF_vars(Opened(s)) /\ WF_vars(Closed(s))

Spec == Init /\ [][Next]_vars /\ Fairness

-----------------------------------------------------------------------------
(* A page that lost its connection goes on trying unless it has told the   *)
(* player "disconnected": something is always under way that ends in a     *)
(* socket (onclose, the timers, the mount effect).                         *)
Retried ==
  mounted => \/ status = "disconnected" \/ Busy(cur) \/ Live # {}
             \/ starting \/ (\E t \in Tables : timers[t] > 0) \/ inflight # NoTable
             \/ \E s \in Sockets : state[s] = "closing"

(* Without a lost connection there is never a second one, however mounts,  *)
(* moves, timers and network events follow on each other; each loss        *)
(* accounts for at most one more (the guards of connect).                  *)
OneSocketPerLoss == Cardinality(Live) <= 1 + drops

(* A buy-in the player chose is sent at most once: a second join_table     *)
(* would debit it again (buyInRef in sendJoin and onopen).                 *)
BuyInSentOnce == sent <= chosen

(* While wsRef names the only live socket, a buy-in that waits for it is   *)
(* forgotten only by sending it (onopen, the answer Connected).            *)
BuyInKept ==
  [][buyIn # NoTable /\ buyIn' = NoTable /\ Live \subseteq {cur}
       => sent' = sent + 1]_vars

(* A page that says "reconnecting" does not say so for ever: it connects,  *)
(* or gives up, or is left (the backoff and its cap in onclose).           *)
Reconnects == status = "reconnecting" ~> (status # "reconnecting" \/ ~mounted)
=============================================================================
