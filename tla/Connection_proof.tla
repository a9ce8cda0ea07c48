-------------------------- MODULE Connection_proof --------------------------
(***************************************************************************)
(* Proofs about Connection, for any tables, any number of attempts, losses,*)
(* buy-ins and moves, and (but for Retried and BuyInKept) tokens read at   *)
(* any time.                                                               *)
(*                                                                         *)
(* OneSocketPerLoss is not inductive: a socket becomes an orphan when the  *)
(* onclose of another one resets wsRef, so losses that have happened and   *)
(* whose onclose is still to come count too (Lost).  Retried needs that a  *)
(* socket whose onopen waits for its token is still open, which is so on   *)
(* the web only; so does BuyInKept, and that the greeted socket of wsRef   *)
(* leaves no buy-in waiting.                                               *)
(***************************************************************************)
EXTENDS Connection, FiniteSetTheorems, TLAPS

(* A timer that reconnectTimeoutRef names is pending.                      *)
TimerIsPending == timer \in Tables => timers[timer] > 0

TypeInv == TypeOK /\ TimerIsPending

(* A buy-in that waits has been chosen and not yet been sent.              *)
Waiting == IF buyIn # NoTable THEN 1 ELSE 0
BuyInInv == sent + Waiting <= chosen

(* Sockets that are lost to the hook, or will be.                          *)
Lost == {s \in Sockets : state[s] = "closing" \/ (Busy(s) /\ s # cur)}
SocketInv == /\ Cardinality(Lost) <= drops
             /\ inflight # NoTable => ~Busy(cur)

(* On the web an onopen that waits has an open socket.                     *)
GreetingIsOpen == \A s \in greeting : state[s] = "open"

-----------------------------------------------------------------------------
LEMMA AppendType ==
  ASSUME NEW S, NEW q \in Seq(S), NEW x \in S
  PROVE  Append(q, x) \in Seq(S)
OBVIOUS

LEMMA InitType == Init => TypeInv
<1>1. SUFFICES ASSUME Init PROVE TypeInv
  OBVIOUS
<1>2. /\ up \in [Sockets -> Seq(Requests \X Tables)]
      /\ down \in [Sockets -> Seq(Answers)]
  BY <1>1 DEF Init
<1>3. MaxAttempts \in Nat
  BY NumbersAssumption
<1>4. attempts \in 0 .. MaxAttempts /\ {chosen, sent, drops, moves} \subseteq Nat
  BY <1>1, <1>3 DEF Init
<1>5. TimerIsPending
  BY <1>1, NamesAssumption DEF Init, TimerIsPending
<1> QED
  BY <1>1, <1>2, <1>4, <1>5 DEF Init, TypeInv, TypeOK, SocketStates

(* Clearing or firing a pending timer.                                     *)
LEMMA ElapsedType ==
  ASSUME TypeInv, NEW t \in Tables, timers[t] > 0
  PROVE  Elapsed(t) \in [Tables -> Nat]
BY DEF TypeInv, TypeOK, Elapsed

LEMMA ConnectType ==
  ASSUME TypeInv, NEW t \in Tables, Connect(t)
  PROVE  /\ inflight' \in Tables \cup {NoTable}
         /\ me' \in BOOLEAN /\ notSeated' \in BOOLEAN
BY DEF TypeInv, TypeOK, Connect, seatVars

LEMMA PostType ==
  ASSUME TypeInv, NEW s \in Sockets \cup {NoSocket}, NEW m \in Requests \X Tables
  PROVE  Post(s, m) \in [Sockets -> Seq(Requests \X Tables)]
<1>1. up \in [Sockets -> Seq(Requests \X Tables)]
  BY DEF TypeInv, TypeOK
<1>2. CASE Is(s, "open")
  <2>1. s \in Sockets /\ up[s] \in Seq(Requests \X Tables)
    BY <1>1, <1>2 DEF Is
  <2>2. Append(up[s], m) \in Seq(Requests \X Tables)
    BY <2>1
  <2> QED
    BY <1>1, <1>2, <2>2 DEF Post
<1>3. CASE ~Is(s, "open")
  BY <1>1, <1>3 DEF Post
<1> QED
  BY <1>2, <1>3

LEMMA CleanupType ==
  ASSUME TypeInv, Cleanup
  PROVE  /\ timers' \in [Tables -> Nat] /\ timer' = "none"
         /\ state' \in [Sockets -> SocketStates] /\ cur' = NoSocket
         /\ up' \in [Sockets -> Seq(Requests \X Tables)]
         /\ down' \in [Sockets -> Seq(Answers)]
<1>1. timers' \in [Tables -> Nat]
  BY ElapsedType DEF Cleanup, TypeInv, TypeOK, TimerIsPending
<1>2. /\ state \in [Sockets -> SocketStates] /\ cur \in Sockets \cup {NoSocket}
      /\ up \in [Sockets -> Seq(Requests \X Tables)] /\ down \in [Sockets -> Seq(Answers)]
  BY DEF TypeInv, TypeOK
<1>3. state' \in [Sockets -> SocketStates]
  BY <1>2 DEF Cleanup, SocketStates
<1>4. /\ up' \in [Sockets -> Seq(Requests \X Tables)]
      /\ down' \in [Sockets -> Seq(Answers)]
  BY <1>2 DEF Cleanup
<1> QED
  BY <1>1, <1>3, <1>4 DEF Cleanup

(* Every step keeps the types, and a named timer pending.                  *)
LEMMA NextType ==
  ASSUME TypeInv, [Next]_vars
  PROVE  TypeInv'
<1> USE DEF TypeInv
<1>1. CASE UNCHANGED vars
  BY <1>1 DEF vars, hookVars, retryVars, socketVars, seatVars, joinVars, netVars,
              TypeOK, TimerIsPending
<1>2. CASE Start
  <2>1. Connect(table) /\ table \in Tables
    BY <1>2 DEF Start, TypeOK
  <2>2. /\ inflight' \in Tables \cup {NoTable}
        /\ me' \in BOOLEAN /\ notSeated' \in BOOLEAN
    BY <2>1, ConnectType
  <2> QED
    BY <1>2, <2>2 DEF Start, retryVars, socketVars, joinVars, netVars, TypeOK, TimerIsPending
<1>3. CASE TokenRead
  <2>1. inflight \in Tables
    BY <1>3 DEF TokenRead, TypeOK
  <2>2. /\ state' \in [Sockets -> SocketStates] /\ forTable' \in [Sockets -> Tables]
        /\ cur' \in Sockets \cup {NoSocket}
    BY <1>3, <2>1 DEF TokenRead, socketVars, TypeOK, SocketStates
  <2> QED
    BY <1>3, <2>2 DEF TokenRead, hookVars, retryVars, seatVars, joinVars, netVars,
                      TypeOK, TimerIsPending
<1>4. CASE Online
  <2>1. Connect(table) /\ table \in Tables
    BY <1>4 DEF Online, TypeOK
  <2>2. /\ inflight' \in Tables \cup {NoTable}
        /\ me' \in BOOLEAN /\ notSeated' \in BOOLEAN
    BY <2>1, ConnectType
  <2> QED
    BY <1>4, <2>2 DEF Online, hookVars, retryVars, socketVars, joinVars, netVars,
                      TypeOK, TimerIsPending
<1>5. CASE SendJoin
  <2>1. table \in Tables /\ cur \in Sockets \cup {NoSocket} /\ chosen \in Nat /\ sent \in Nat
    BY DEF TypeOK
  <2>2. Post(cur, <<"join", table>>) \in [Sockets -> Seq(Requests \X Tables)]
    BY <2>1, PostType DEF Requests
  <2>3. up' \in [Sockets -> Seq(Requests \X Tables)]
    BY <1>5, <2>2 DEF SendJoin, TypeOK
  <2>4. /\ inflight' \in Tables \cup {NoTable}
        /\ me' \in BOOLEAN /\ notSeated' \in BOOLEAN
    <3>1. CASE Connect(table)
      BY <2>1, <3>1, ConnectType
    <3>2. CASE UNCHANGED <<inflight, seatVars>>
      BY <3>2 DEF seatVars, TypeOK
    <3> QED
      BY <1>5, <3>1, <3>2 DEF SendJoin
  <2>5. chosen' \in Nat /\ sent' \in Nat /\ buyIn' \in Tables \cup {NoTable}
    BY <1>5, <2>1 DEF SendJoin
  <2> QED
    BY <1>5, <2>3, <2>4, <2>5 DEF SendJoin, hookVars, retryVars, socketVars,
                                  TypeOK, TimerIsPending
<1>6. CASE Unmount
  <2>1. Cleanup
    BY <1>6 DEF Unmount
  <2> QED
    BY <1>6, <2>1, CleanupType, NamesAssumption
       DEF Unmount, Cleanup, seatVars, joinVars, TypeOK, TimerIsPending
<1>7. ASSUME NEW s \in Sockets, Open(s) PROVE TypeInv'
  <2>1. state' \in [Sockets -> SocketStates] /\ greeting' \subseteq Sockets
    BY <1>7 DEF Open, TypeOK, SocketStates
  <2> QED
    BY <1>7, <2>1 DEF Open, hookVars, retryVars, seatVars, joinVars, netVars,
                      TypeOK, TimerIsPending
<1>8. ASSUME NEW s \in Sockets, Opened(s) PROVE TypeInv'
  <2>1. /\ cur \in Sockets \cup {NoSocket} /\ forTable[s] \in Tables
        /\ sent \in Nat /\ buyIn \in Tables \cup {NoTable} /\ 0 \in 0 .. MaxAttempts
        /\ up \in [Sockets -> Seq(Requests \X Tables)]
    BY NumbersAssumption DEF TypeOK
  <2>2. /\ Post(cur, <<"join", forTable[s]>>) \in [Sockets -> Seq(Requests \X Tables)]
        /\ Post(s, <<"reconnect", forTable[s]>>) \in [Sockets -> Seq(Requests \X Tables)]
    BY <2>1, PostType DEF Requests
  <2>3. /\ up' \in [Sockets -> Seq(Requests \X Tables)]
        /\ buyIn' \in Tables \cup {NoTable} /\ sent' \in Nat
    <3>1. CASE Greet(s)
      <4>1. sent' \in Nat /\ buyIn' \in Tables \cup {NoTable}
        BY <2>1, <3>1 DEF Greet
      <4>2. \/ up' = Post(cur, <<"join", forTable[s]>>)
            \/ up' = Post(s, <<"reconnect", forTable[s]>>)
        BY <3>1 DEF Greet
      <4> QED
        BY <2>2, <4>1, <4>2
    <3>2. CASE UNCHANGED <<buyIn, sent, up>>
      BY <2>1, <3>2
    <3> QED
      BY <1>8, <3>1, <3>2 DEF Opened
  <2>4. timer \in Tables => Elapsed(timer) \in [Tables -> Nat]
    BY ElapsedType DEF TimerIsPending
  <2>5. /\ timers' \in [Tables -> Nat] /\ timer' \in Tables \cup {"none", "fired"}
        /\ timer' \in Tables => timers'[timer'] > 0
        /\ attempts' \in 0 .. MaxAttempts
        /\ status' \in {"connected", "reconnecting", "disconnected"}
    BY <1>8, <2>1, <2>4, NamesAssumption DEF Opened, retryVars, TypeOK, TimerIsPending
  <2> QED
    BY <1>8, <2>3, <2>5 DEF Opened, hookVars, socketVars, seatVars, TypeOK, TimerIsPending
<1>9. ASSUME NEW s \in Sockets, Receive(s) PROVE TypeInv'
  <2>1. down' \in [Sockets -> Seq(Answers)]
    <3>1. down[s] \in Seq(Answers) /\ down[s] # << >>
      BY <1>9 DEF Receive, TypeOK
    <3>2. Tail(down[s]) \in Seq(Answers)
      BY <3>1
    <3> QED
      BY <1>9, <3>2 DEF Receive, TypeOK
  <2>2. /\ buyIn' \in Tables \cup {NoTable}
        /\ me' \in BOOLEAN /\ notSeated' \in BOOLEAN
    BY <1>9 DEF Receive, seatVars, TypeOK
  <2> QED
    BY <1>9, <2>1, <2>2 DEF Receive, hookVars, retryVars, socketVars, TypeOK, TimerIsPending
<1>10. ASSUME NEW s \in Sockets, Drop(s) PROVE TypeInv'
  <2>1. state' \in [Sockets -> SocketStates] /\ drops' \in Nat
    BY <1>10 DEF Drop, TypeOK, SocketStates
  <2>2. << >> \in Seq(Answers) /\ << >> \in Seq(Requests \X Tables)
    OBVIOUS
  <2>3. down' \in [Sockets -> Seq(Answers)] /\ up' \in [Sockets -> Seq(Requests \X Tables)]
    BY <1>10, <2>2 DEF Drop, TypeOK
  <2> QED
    BY <1>10, <2>1, <2>3 DEF Drop, hookVars, retryVars, seatVars, joinVars, TypeOK, TimerIsPending
<1>11. ASSUME NEW s \in Sockets, Closed(s) PROVE TypeInv'
  <2>1. /\ state' \in [Sockets -> SocketStates] /\ cur' \in Sockets \cup {NoSocket}
    BY <1>11 DEF Closed, TypeOK, SocketStates
  <2>2. /\ timers' \in [Tables -> Nat] /\ timer' \in Tables \cup {"none", "fired"}
        /\ timer' \in Tables => timers'[timer'] > 0
        /\ attempts' \in 0 .. MaxAttempts
        /\ status' \in {"connected", "reconnecting", "disconnected"}
    <3>1. CASE UNCHANGED retryVars
      BY <3>1 DEF retryVars, TypeOK, TimerIsPending
    <3>2. CASE GiveUp
      BY <3>2 DEF GiveUp, TypeOK, TimerIsPending
    <3>3. CASE attempts < MaxAttempts /\ Retry(forTable[s])
      <4>1. forTable[s] \in Tables /\ MaxAttempts \in Nat
        BY NumbersAssumption DEF TypeOK
      <4>2. timers[forTable[s]] + 1 \in Nat /\ timers[forTable[s]] + 1 > 0
        BY <4>1 DEF TypeOK
      <4> QED
        BY <3>3, <4>1, <4>2 DEF Retry, TypeOK
    <3> QED
      BY <1>11, <3>1, <3>2, <3>3 DEF Closed, retryVars
  <2> QED
    BY <1>11, <2>1, <2>2 DEF Closed, hookVars, seatVars, joinVars, netVars,
                             TypeOK, TimerIsPending
<1>12. ASSUME NEW s \in Sockets, Serve(s) PROVE TypeInv'
  <2>1. up[s] \in Seq(Requests \X Tables) /\ up[s] # << >> /\ down[s] \in Seq(Answers)
    BY <1>12 DEF Serve, TypeOK
  <2>2. Tail(up[s]) \in Seq(Requests \X Tables)
    BY <2>1
  <2>3. "Connected" \in Answers /\ "Not seated" \in Answers
    BY DEF Answers
  <2>4. /\ Append(down[s], "Connected") \in Seq(Answers)
        /\ Append(down[s], "Not seated") \in Seq(Answers)
    BY <2>1, <2>3, AppendType, Zenon
  <2>5. up' \in [Sockets -> Seq(Requests \X Tables)] /\ down' \in [Sockets -> Seq(Answers)]
    <3>1. /\ up \in [Sockets -> Seq(Requests \X Tables)] /\ down \in [Sockets -> Seq(Answers)]
          /\ up' = [up EXCEPT ![s] = Tail(up[s])]
      BY <1>12 DEF Serve, TypeOK
    <3>2. \/ down' = [down EXCEPT ![s] = Append(down[s], "Connected")]
          \/ down' = [down EXCEPT ![s] = Append(down[s], "Not seated")]
          \/ down' = down
      BY <1>12 DEF Serve
    <3> QED
      BY <2>2, <2>4, <3>1, <3>2
  <2> QED
    BY <1>12, <2>5 DEF Serve, hookVars, retryVars, socketVars, seatVars, joinVars,
                       TypeOK, TimerIsPending
<1>13. ASSUME NEW t \in Tables, TimerFires(t) PROVE TypeInv'
  <2>1. /\ inflight' \in Tables \cup {NoTable}
        /\ me' \in BOOLEAN /\ notSeated' \in BOOLEAN
    BY <1>13, ConnectType DEF TimerFires
  <2>2. timers' \in [Tables -> Nat]
    BY <1>13, ElapsedType DEF TimerFires
  <2>3. timer' \in Tables => timers'[timer'] > 0
    <3>1. timers \in [Tables -> Nat] /\ timer \in Tables \cup {"none", "fired"}
      BY DEF TypeOK
    <3>2. timers' = [timers EXCEPT ![t] = timers[t] - 1] /\ timers[t] > 0
      BY <1>13 DEF TimerFires, Elapsed
    <3>3. CASE timer' = "fired"
      BY <3>3, NamesAssumption
    <3>4. CASE timer' = timer /\ (timer = t => timers[t] > 1)
      BY <3>1, <3>2, <3>4 DEF TimerIsPending
    <3> QED
      BY <1>13, <3>3, <3>4 DEF TimerFires
  <2>4. timer' \in Tables \cup {"none", "fired"}
    BY <1>13 DEF TimerFires, TypeOK
  <2> QED
    BY <1>13, <2>1, <2>2, <2>3, <2>4 DEF TimerFires, hookVars, socketVars, joinVars, netVars,
                                         TypeOK, TimerIsPending
<1>14. ASSUME NEW t \in Tables, Move(t) PROVE TypeInv'
  <2>1. Cleanup /\ moves' \in Nat
    BY <1>14 DEF Move, TypeOK
  <2> QED
    BY <1>14, <2>1, CleanupType, NamesAssumption
       DEF Move, Cleanup, seatVars, joinVars, TypeOK, TimerIsPending
<1> QED
  BY <1>1, <1>2, <1>3, <1>4, <1>5, <1>6, <1>7, <1>8, <1>9, <1>10, <1>11, <1>12, <1>13, <1>14
     DEF Next
-----------------------------------------------------------------------------
(* A counter of the model never runs away from its type: no message, timer *)
(* or socket of the hook takes a value outside TypeOK.                     *)
THEOREM TypeCorrect == Spec => []TypeInv
BY InitType, NextType, PTL DEF Spec

LEMMA InitBuyIn == Init => BuyInInv
BY DEF Init, BuyInInv, Waiting

(* Every step keeps the books of the buy-ins.                              *)
LEMMA NextBuyIn ==
  ASSUME TypeInv, BuyInInv, [Next]_vars
  PROVE  BuyInInv'
<1>1. chosen \in Nat /\ sent \in Nat
  BY DEF TypeInv, TypeOK
<1>2. CASE UNCHANGED joinVars
  BY <1>2 DEF joinVars, BuyInInv, Waiting
<1>3. CASE SendJoin
  <2>1. \/ chosen' = chosen + 1 /\ sent' = sent + 1 /\ buyIn' = NoTable
        \/ chosen' = chosen + 1 /\ sent' = sent
    BY <1>3 DEF SendJoin
  <2> QED
    BY <1>1, <2>1 DEF BuyInInv, Waiting
<1>4. ASSUME NEW s \in Sockets, Opened(s) PROVE BuyInInv'
  <2>1. CASE Greet(s)
    <3>1. chosen' = chosen
      BY <1>4 DEF Opened
    <3>2. \/ buyIn # NoTable /\ buyIn' = NoTable /\ sent' = sent + 1
          \/ buyIn' = NoTable /\ sent' = sent
          \/ buyIn' = buyIn /\ sent' = sent
      BY <2>1 DEF Greet
    <3> QED
      BY <1>1, <3>1, <3>2 DEF BuyInInv, Waiting
  <2>2. CASE UNCHANGED <<buyIn, sent>>
    BY <1>4, <2>2 DEF Opened, BuyInInv, Waiting
  <2> QED
    BY <1>4, <2>1, <2>2 DEF Opened
<1>5. ASSUME NEW s \in Sockets, Receive(s) PROVE BuyInInv'
  <2>1. chosen' = chosen /\ sent' = sent /\ (buyIn' = NoTable \/ buyIn' = buyIn)
    BY <1>5 DEF Receive
  <2> QED
    BY <1>1, <2>1 DEF BuyInInv, Waiting
<1> QED
  BY <1>2, <1>3, <1>4, <1>5
     DEF Next, vars, Start, TokenRead, Online, Unmount, Cleanup, Open, Drop, Closed,
         Serve, TimerFires, Move

(* A buy-in the player chose is sent at most once, however often the       *)
(* connection is lost between the choice and the sending (sendJoin and     *)
(* onopen share buyInRef).                                                 *)
THEOREM BuyInIsSentOnce == Spec => []BuyInSentOnce
<1>1. TypeInv /\ BuyInInv => BuyInSentOnce
  BY DEF TypeInv, TypeOK, BuyInInv, Waiting, BuyInSentOnce
<1> QED
  BY <1>1, InitType, NextType, InitBuyIn, NextBuyIn, PTL DEF Spec
-----------------------------------------------------------------------------
LEMMA LostIsFinite == IsFiniteSet(Lost)
BY SlotsAssumption, FS_Subset DEF Lost

(* One element more.                                                       *)
LEMMA AddOne ==
  ASSUME NEW S, IsFiniteSet(S), NEW x
  PROVE  /\ IsFiniteSet(S \cup {x})
         /\ Cardinality(S) \in Nat /\ Cardinality(S \cup {x}) \in Nat
         /\ Cardinality(S \cup {x}) <= Cardinality(S) + 1
<1>1. /\ IsFiniteSet(S \cup {x})
      /\ \/ Cardinality(S \cup {x}) = Cardinality(S)
         \/ Cardinality(S \cup {x}) = Cardinality(S) + 1
  BY FS_AddElement
<1>2. Cardinality(S) \in Nat /\ Cardinality(S \cup {x}) \in Nat
  BY <1>1, FS_CardinalityType
<1> QED
  BY <1>1, <1>2

LEMMA InitSocket == Init => SocketInv
<1>1. SUFFICES ASSUME Init PROVE SocketInv
  OBVIOUS
<1>2. Lost = {}
  BY <1>1 DEF Init, Lost, Busy, Is
<1>3. Cardinality(Lost) = 0
  BY <1>2, FS_EmptySet
<1> QED
  BY <1>1, <1>3 DEF Init, SocketInv

(* Fewer sockets are lost.                                                 *)
LEMMA FewerLost ==
  ASSUME SocketInv, drops \in Nat, Lost' \subseteq Lost, drops' = drops
  PROVE  Cardinality(Lost') <= drops'
<1>1. Cardinality(Lost) \in Nat /\ Cardinality(Lost') \in Nat /\ Cardinality(Lost') <= Cardinality(Lost)
  BY LostIsFinite, FS_Subset, FS_CardinalityType
<1> QED
  BY <1>1 DEF SocketInv

(* connect() leaves inflight alone while wsRef names a socket in use.      *)
LEMMA ConnectSocket ==
  ASSUME SocketInv, NEW t \in Tables, Connect(t), UNCHANGED <<state, cur, drops>>
  PROVE  SocketInv'
<1>1. Lost' = Lost
  BY DEF Lost, Busy, Is
<1>2. inflight' # NoTable => ~Busy(cur)
  BY DEF Connect, SocketInv
<1> QED
  BY <1>1, <1>2 DEF SocketInv, Busy, Is

LEMMA CleanupSocket ==
  ASSUME TypeInv, SocketInv, Cleanup
  PROVE  SocketInv'
<1>1. Lost' \subseteq Lost
  BY DEF Cleanup, Lost, Busy, Is, TypeInv, TypeOK
<1>2. drops \in Nat /\ drops' = drops
  BY DEF Cleanup, TypeInv, TypeOK
<1>3. ~Busy(cur)'
  BY DEF Cleanup, Busy, Is
<1> QED
  BY <1>1, <1>2, <1>3, FewerLost DEF SocketInv

(* Every step keeps the books of the sockets.                              *)
LEMMA NextSocket ==
  ASSUME TypeInv, SocketInv, [Next]_vars
  PROVE  SocketInv'
<1>1. /\ drops \in Nat /\ cur \in Sockets \cup {NoSocket} /\ state \in [Sockets -> SocketStates]
      /\ table \in Tables
  BY DEF TypeInv, TypeOK
<1>2. CASE UNCHANGED <<state, cur, inflight, drops>>
  BY <1>2 DEF SocketInv, Lost, Busy, Is
<1>3. CASE Start \/ Online
  BY <1>1, <1>3, ConnectSocket DEF Start, Online, socketVars
<1>4. CASE TokenRead
  <2>1. ~Busy(cur)
    BY <1>4 DEF TokenRead, SocketInv
  <2>2. Lost' \subseteq Lost
    BY <1>1, <1>4, <2>1 DEF TokenRead, socketVars, Free, Lost, Busy, Is
  <2>3. inflight' = NoTable /\ drops' = drops
    BY <1>4 DEF TokenRead
  <2> QED
    BY <1>1, <2>2, <2>3, FewerLost DEF SocketInv
<1>5. CASE SendJoin
  <2>1. UNCHANGED <<state, cur, drops>>
    BY <1>5 DEF SendJoin, socketVars
  <2> QED
    BY <1>1, <1>2, <1>5, <2>1, ConnectSocket DEF SendJoin
<1>6. CASE Unmount
  BY <1>6, CleanupSocket DEF Unmount
<1>7. ASSUME NEW s \in Sockets, Open(s) PROVE SocketInv'
  <2>1. Lost' \subseteq Lost /\ (Busy(cur)' => Busy(cur))
    BY <1>1, <1>7 DEF Open, Lost, Busy, Is
  <2> QED
    BY <1>1, <1>7, <2>1, FewerLost DEF Open, SocketInv
<1>8. ASSUME NEW s \in Sockets, Drop(s) PROVE SocketInv'
  <2>1. Lost' \subseteq Lost \cup {s} /\ (Busy(cur)' => Busy(cur))
    BY <1>1, <1>8 DEF Drop, Lost, Busy, Is
  <2>2. /\ Cardinality(Lost) \in Nat /\ IsFiniteSet(Lost \cup {s})
        /\ Cardinality(Lost \cup {s}) <= Cardinality(Lost) + 1
    BY LostIsFinite, AddOne
  <2>3. /\ Cardinality(Lost \cup {s}) \in Nat /\ Cardinality(Lost') \in Nat
        /\ Cardinality(Lost') <= Cardinality(Lost \cup {s})
    BY <2>1, <2>2, FS_Subset, FS_CardinalityType
  <2>4. Cardinality(Lost') <= drops'
    BY <1>1, <1>8, <2>2, <2>3 DEF Drop, SocketInv
  <2> QED
    BY <1>8, <2>1, <2>4 DEF Drop, SocketInv
<1>9. ASSUME NEW s \in Sockets, Closed(s) PROVE SocketInv'
  <2>1. s \in Lost
    BY <1>9 DEF Closed, Lost
  <2>2. Lost' \subseteq (Lost \ {s}) \cup {cur}
    BY <1>1, <1>9 DEF Closed, Lost, Busy, Is
  <2>3. /\ Cardinality(Lost) \in Nat /\ IsFiniteSet(Lost \ {s})
        /\ Cardinality(Lost \ {s}) = Cardinality(Lost) - 1
    BY <2>1, LostIsFinite, FS_RemoveElement, FS_CardinalityType
  <2>4. /\ IsFiniteSet((Lost \ {s}) \cup {cur})
        /\ Cardinality((Lost \ {s}) \cup {cur}) <= Cardinality(Lost)
    <3> DEFINE Others == Lost \ {s}
    <3>1. /\ IsFiniteSet(Others \cup {cur}) /\ Cardinality(Others \cup {cur}) \in Nat
          /\ Cardinality(Others) \in Nat
          /\ Cardinality(Others \cup {cur}) <= Cardinality(Others) + 1
      BY <2>3, AddOne
    <3>2. Cardinality(Others) = Cardinality(Lost) - 1
      BY <2>3
    <3> HIDE DEF Others
    <3>3. Cardinality(Others \cup {cur}) <= Cardinality(Lost)
      BY <2>3, <3>1, <3>2
    <3> QED
      BY <3>1, <3>3 DEF Others
  <2>5. /\ Cardinality((Lost \ {s}) \cup {cur}) \in Nat /\ Cardinality(Lost') \in Nat
        /\ Cardinality(Lost') <= Cardinality((Lost \ {s}) \cup {cur})
    BY <2>2, <2>4, FS_Subset, FS_CardinalityType
  <2>6. drops' = drops /\ inflight' = inflight
    BY <1>9 DEF Closed
  <2>7. Busy(cur)' => Busy(cur)
    BY <1>1, <1>9 DEF Closed, Busy, Is
  <2> QED
    BY <1>1, <2>3, <2>4, <2>5, <2>6, <2>7 DEF SocketInv
<1>10. ASSUME NEW t \in Tables, TimerFires(t) PROVE SocketInv'
  BY <1>10, ConnectSocket DEF TimerFires, socketVars
<1>11. ASSUME NEW t \in Tables, Move(t) PROVE SocketInv'
  BY <1>11, CleanupSocket DEF Move
<1>12. ASSUME NEW s \in Sockets, Opened(s) \/ Receive(s) \/ Serve(s) PROVE SocketInv'
  BY <1>2, <1>12 DEF Opened, Receive, Serve, socketVars
<1>13. CASE UNCHANGED vars
  BY <1>2, <1>13 DEF vars, socketVars
<1> QED
  BY <1>3, <1>4, <1>5, <1>6, <1>7, <1>8, <1>9, <1>10, <1>11, <1>12, <1>13 DEF Next

(* However mounts, moves, timers and network events follow on each other,  *)
(* the hook holds one connection and at most one more for every loss.      *)
THEOREM OneSocketForEachLoss == Spec => []OneSocketPerLoss
<1>1. ASSUME TypeInv, SocketInv PROVE OneSocketPerLoss
  <2>1. Live \subseteq Lost \cup {cur}
    BY DEF Live, Lost
  <2>2. /\ Cardinality(Lost) \in Nat /\ IsFiniteSet(Lost \cup {cur})
        /\ Cardinality(Lost \cup {cur}) <= Cardinality(Lost) + 1
    BY LostIsFinite, AddOne
  <2>3. /\ Cardinality(Lost \cup {cur}) \in Nat /\ Cardinality(Live) \in Nat
        /\ Cardinality(Live) <= Cardinality(Lost \cup {cur})
    BY <2>1, <2>2, FS_Subset, FS_CardinalityType
  <2>4. drops \in Nat
    BY <1>1 DEF TypeInv, TypeOK
  <2> QED
    BY <1>1, <2>2, <2>3, <2>4 DEF SocketInv, OneSocketPerLoss
<1> QED
  BY <1>1, InitType, NextType, InitSocket, NextSocket, PTL DEF Spec
-----------------------------------------------------------------------------
LEMMA InitRetry == Init => GreetingIsOpen /\ Retried
BY DEF Init, GreetingIsOpen, Retried

(* A call of connect() from a mounted page leaves something under way.     *)
LEMMA ConnectRetries ==
  ASSUME TypeInv, NEW t \in Tables, Connect(t), UNCHANGED <<state, cur, mounted>>
  PROVE  Retried'
<1>1. cur \in Sockets \cup {NoSocket}
  BY DEF TypeInv, TypeOK
<1>2. CASE mounted /\ ~Busy(cur) /\ inflight = NoTable
  BY <1>2, NamesAssumption DEF Connect, Retried
<1>3. CASE mounted /\ Busy(cur)
  BY <1>3 DEF Retried, Busy, Is
<1>4. CASE mounted /\ ~Busy(cur) /\ inflight # NoTable
  BY <1>4 DEF Connect, Retried
<1> QED
  BY <1>2, <1>3, <1>4 DEF Retried

(* Every step of a page on the web leaves something under way.             *)
LEMMA NextRetry ==
  ASSUME AsyncTokens = FALSE, TypeInv, GreetingIsOpen, Retried, [Next]_vars
  PROVE  GreetingIsOpen' /\ Retried'
<1>1. /\ cur \in Sockets \cup {NoSocket} /\ state \in [Sockets -> SocketStates]
      /\ table \in Tables /\ greeting \subseteq Sockets
      /\ timers \in [Tables -> Nat] /\ forTable \in [Sockets -> Tables]
  BY DEF TypeInv, TypeOK
<1>2. CASE UNCHANGED <<state, cur, mounted, starting, timers, status, inflight, greeting>>
  BY <1>2 DEF GreetingIsOpen, Retried, Live, Busy, Is
<1>3. CASE Start \/ Online
  <2>1. Retried'
    BY <1>1, <1>3, ConnectRetries DEF Start, Online, hookVars, socketVars
  <2>2. GreetingIsOpen'
    BY <1>3 DEF Start, Online, socketVars, GreetingIsOpen
  <2> QED
    BY <2>1, <2>2
<1>4. CASE TokenRead
  <2>1. GreetingIsOpen'
    BY <1>1, <1>4 DEF TokenRead, socketVars, Free, GreetingIsOpen
  <2>2. CASE mounted
    <3>1. PICK s \in Sockets : state' = [state EXCEPT ![s] = "connecting"]
      BY <1>4, <2>2 DEF TokenRead
    <3>2. s \in Live'
      BY <1>1, <3>1, NamesAssumption DEF Live, Busy, Is
    <3> QED
      BY <2>1, <3>2 DEF Retried
  <2>3. CASE ~mounted
    BY <1>4, <2>1, <2>3 DEF TokenRead, hookVars, Retried
  <2> QED
    BY <2>2, <2>3
<1>5. CASE SendJoin
  <2>1. CASE Connect(table)
    <3>1. Retried'
      BY <1>1, <1>5, <2>1, ConnectRetries DEF SendJoin, hookVars, socketVars
    <3> QED
      BY <1>5, <3>1 DEF SendJoin, socketVars, GreetingIsOpen
  <2>2. CASE UNCHANGED inflight
    BY <1>2, <1>5, <2>2 DEF SendJoin, hookVars, retryVars, socketVars
  <2> QED
    BY <1>5, <2>1, <2>2 DEF SendJoin
<1>6. CASE Unmount
  BY <1>6 DEF Unmount, Cleanup, Idle, GreetingIsOpen, Retried
<1>7. ASSUME NEW s \in Sockets, Open(s) PROVE GreetingIsOpen' /\ Retried'
  <2>1. state' = [state EXCEPT ![s] = "open"] /\ greeting' = greeting \cup {s}
    BY <1>7 DEF Open
  <2>2. s \in Live'
    BY <1>1, <2>1, NamesAssumption DEF Live, Busy, Is
  <2> QED
    BY <1>1, <2>1, <2>2 DEF GreetingIsOpen, Retried
<1>8. ASSUME NEW s \in Sockets, Opened(s) PROVE GreetingIsOpen' /\ Retried'
  <2>1. state[s] = "open" /\ state' = state /\ greeting' = greeting \ {s}
    BY <1>8 DEF Opened, socketVars, GreetingIsOpen
  <2>2. s \in Live'
    BY <1>1, <2>1, NamesAssumption DEF Live, Busy, Is
  <2> QED
    BY <2>1, <2>2 DEF GreetingIsOpen, Retried
<1>9. ASSUME NEW s \in Sockets, Receive(s) \/ Serve(s) PROVE GreetingIsOpen' /\ Retried'
  BY <1>2, <1>9 DEF Receive, Serve, hookVars, retryVars, socketVars
<1>10. ASSUME NEW s \in Sockets, Drop(s) PROVE GreetingIsOpen' /\ Retried'
  <2>1. state' = [state EXCEPT ![s] = "closing"] /\ greeting = {} /\ greeting' = {}
    BY <1>10 DEF Drop, Idle
  <2>2. state'[s] = "closing"
    BY <1>1, <2>1
  <2> QED
    BY <2>1, <2>2 DEF GreetingIsOpen, Retried
<1>11. ASSUME NEW s \in Sockets, Closed(s) PROVE GreetingIsOpen' /\ Retried'
  <2>1. greeting' = {}
    BY <1>11 DEF Closed, Idle
  <2>2. CASE ~mounted
    BY <1>11, <2>2 DEF Closed, hookVars, Retried, GreetingIsOpen, Idle
  <2>3. CASE GiveUp
    BY <2>1, <2>3 DEF GiveUp, Retried, GreetingIsOpen
  <2>4. CASE Retry(forTable[s])
    <3>1. forTable[s] \in Tables
      BY <1>1
    <3>2. timers'[forTable[s]] > 0
      BY <1>1, <2>4, <3>1 DEF Retry
    <3> QED
      BY <2>1, <3>1, <3>2 DEF Retried, GreetingIsOpen
  <2> QED
    BY <1>11, <2>2, <2>3, <2>4 DEF Closed
<1>12. ASSUME NEW t \in Tables, TimerFires(t) PROVE GreetingIsOpen' /\ Retried'
  <2>1. Retried'
    BY <1>12, ConnectRetries DEF TimerFires, hookVars, socketVars
  <2> QED
    BY <1>12, <2>1 DEF TimerFires, socketVars, GreetingIsOpen
<1>13. ASSUME NEW t \in Tables, Move(t) PROVE GreetingIsOpen' /\ Retried'
  BY <1>13 DEF Move, Cleanup, Idle, GreetingIsOpen, Retried
<1>14. CASE UNCHANGED vars
  BY <1>2, <1>14 DEF vars, hookVars, retryVars, socketVars
<1> QED
  BY <1>3, <1>4, <1>5, <1>6, <1>7, <1>8, <1>9, <1>10, <1>11, <1>12, <1>13, <1>14 DEF Next

(* On the web a page that lost its connection always has something under   *)
(* way that ends in a socket, unless it has told the player that it gave   *)
(* up (onclose, the timers and the effect of the hook).                    *)
THEOREM LossIsRetried ==
  ASSUME AsyncTokens = FALSE
  PROVE  Spec => []Retried
BY InitType, NextType, InitRetry, NextRetry, PTL DEF Spec
-----------------------------------------------------------------------------
(* On the web no buy-in waits for a socket that has been greeted.          *)
GreetedIsFree ==
  mounted /\ Is(cur, "open") /\ cur \notin greeting => buyIn = NoTable

LEMMA InitGreeted == Init => GreetedIsFree
BY DEF Init, GreetedIsFree, Is

(* Every step of a page on the web keeps this: wsRef names a new socket or *)
(* none, and a socket that opens is to be greeted.                         *)
LEMMA NextGreeted ==
  ASSUME TypeInv, GreetingIsOpen, GreetedIsFree, [Next]_vars
  PROVE  GreetedIsFree'
<1>1. /\ cur \in Sockets \cup {NoSocket} /\ state \in [Sockets -> SocketStates]
      /\ greeting \subseteq Sockets
  BY DEF TypeInv, TypeOK
<1>2. CASE UNCHANGED <<mounted, state, cur, greeting, buyIn>>
  BY <1>2 DEF GreetedIsFree, Is
<1>3. CASE TokenRead
  <2>1. CASE mounted
    <3>1. PICK s \in Sockets : state' = [state EXCEPT ![s] = "connecting"] /\ cur' = s
      BY <1>3, <2>1 DEF TokenRead
    <3> QED
      BY <1>1, <3>1 DEF GreetedIsFree, Is
  <2>2. CASE ~mounted
    BY <1>3, <2>2 DEF TokenRead, hookVars, GreetedIsFree
  <2> QED
    BY <2>1, <2>2
<1>4. CASE SendJoin
  <2>1. UNCHANGED <<mounted, state, cur, greeting>>
    BY <1>4 DEF SendJoin, hookVars, socketVars
  <2>2. Is(cur, "open") => buyIn' = NoTable
    BY <1>4 DEF SendJoin
  <2> QED
    BY <2>1, <2>2 DEF GreetedIsFree, Is
<1>5. ASSUME cur' = NoSocket PROVE GreetedIsFree'
  BY <1>5 DEF GreetedIsFree, Is
<1>6. ASSUME NEW s \in Sockets, Open(s) PROVE GreetedIsFree'
  <2>1. /\ state' = [state EXCEPT ![s] = "open"] /\ greeting' = greeting \cup {s}
        /\ cur' = cur /\ buyIn' = buyIn /\ mounted' = mounted
    BY <1>6 DEF Open, hookVars, joinVars
  <2> QED
    BY <1>1, <2>1 DEF GreetedIsFree, Is
<1>7. ASSUME NEW s \in Sockets, Opened(s) PROVE GreetedIsFree'
  <2>1. /\ state' = state /\ cur' = cur /\ mounted' = mounted
        /\ state[s] = "open" /\ greeting' = greeting \ {s}
    BY <1>7 DEF Opened, hookVars, socketVars, GreetingIsOpen
  <2>2. mounted => buyIn' = buyIn \/ buyIn' = NoTable
    BY <1>7 DEF Opened, Greet
  <2>3. mounted /\ cur = s => buyIn' = NoTable
    BY <1>7, <2>1 DEF Opened, Greet, Is
  <2> QED
    BY <2>1, <2>2, <2>3 DEF GreetedIsFree, Is
<1>8. ASSUME NEW s \in Sockets, Receive(s) PROVE GreetedIsFree'
  <2>1. UNCHANGED <<mounted, state, cur, greeting>>
    BY <1>8 DEF Receive, hookVars, socketVars
  <2>2. buyIn' = buyIn \/ buyIn' = NoTable
    BY <1>8 DEF Receive
  <2> QED
    BY <2>1, <2>2 DEF GreetedIsFree, Is
<1>9. ASSUME NEW s \in Sockets, Drop(s) \/ Closed(s) PROVE GreetedIsFree'
  <2>1. CASE cur' = cur
    <3>1. /\ state' = [state EXCEPT ![s] = "closing"] \/ state' = [state EXCEPT ![s] = "closed"]
          /\ UNCHANGED <<mounted, greeting, buyIn>>
      BY <1>9 DEF Drop, Closed, hookVars, joinVars
    <3> QED
      BY <1>1, <2>1, <3>1 DEF GreetedIsFree, Is
  <2> QED
    BY <1>5, <1>9, <2>1 DEF Drop, Closed
<1> QED
  BY <1>2, <1>3, <1>4, <1>5, <1>6, <1>7, <1>8, <1>9
     DEF Next, vars, hookVars, socketVars, joinVars, Start, Online, Unmount, Cleanup,
         Serve, TimerFires, Move

(* A step that forgets a buy-in while no orphan is live sends it: the      *)
(* answer Connected finds none waiting, and onopen is that of wsRef.       *)
LEMMA ForgottenIsSent ==
  ASSUME AsyncTokens = FALSE, TypeInv, GreetingIsOpen, GreetedIsFree, [Next]_vars,
         buyIn # NoTable, buyIn' = NoTable, Live \subseteq {cur}
  PROVE  sent' = sent + 1
<1>1. ASSUME NEW s \in Sockets, state[s] = "open" PROVE cur = s /\ Is(cur, "open")
  BY <1>1, NamesAssumption DEF Live, Busy, Is
<1>2. CASE SendJoin
  <2>1. table \in Tables
    BY DEF TypeInv, TypeOK
  <2> QED
    BY <1>2, <2>1, NamesAssumption DEF SendJoin
<1>3. ASSUME NEW s \in Sockets, Opened(s) PROVE sent' = sent + 1
  <2>1. state[s] = "open"
    BY <1>3 DEF Opened, GreetingIsOpen
  <2>2. Is(cur, "open") /\ ~Is(cur, "connecting")
    BY <1>1, <2>1 DEF Is
  <2> QED
    BY <1>3, <2>2 DEF Opened, Greet
<1>4. ASSUME NEW s \in Sockets, Receive(s) PROVE FALSE
  <2>1. Is(cur, "open") /\ greeting = {}
    BY <1>1, <1>4 DEF Receive, Idle
  <2> QED
    BY <1>4, <2>1 DEF Receive, GreetedIsFree
<1>5. CASE UNCHANGED buyIn
  BY <1>5
<1> QED
  BY <1>2, <1>3, <1>4, <1>5
     DEF Next, vars, joinVars, Start, TokenRead, Online, Unmount, Cleanup, Open, Drop,
         Closed, Serve, TimerFires, Move

(* On the web, and while no other socket of the page is live, a buy-in     *)
(* that waits for a socket is forgotten only by sending it (buyInRef in    *)
(* sendJoin, onopen and the answer Connected).                             *)
THEOREM BuyInIsNotForgotten ==
  ASSUME AsyncTokens = FALSE
  PROVE  Spec => BuyInKept
<1>1. Init => TypeInv /\ GreetingIsOpen /\ Retried /\ GreetedIsFree
  BY InitType, InitRetry, InitGreeted
<1>2. TypeInv /\ GreetingIsOpen /\ Retried /\ GreetedIsFree /\ [Next]_vars
        => (TypeInv /\ GreetingIsOpen /\ Retried /\ GreetedIsFree)'
  BY NextType, NextRetry, NextGreeted
<1>3. TypeInv /\ GreetingIsOpen /\ Retried /\ GreetedIsFree /\ [Next]_vars
        => [buyIn # NoTable /\ buyIn' = NoTable /\ Live \subseteq {cur}
              => sent' = sent + 1]_vars
  BY ForgottenIsSent
<1> QED
  BY <1>1, <1>2, <1>3, PTL DEF Spec, BuyInKept
=============================================================================
