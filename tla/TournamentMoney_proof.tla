----------------------- MODULE TournamentMoney_proof -----------------------
(***************************************************************************)
(* Proofs about a tournament: its money (TournamentMoney), for any users,  *)
(* wallets, requests at a time, payout structures, and any number of       *)
(* failed writes and crashes; and its director (MttDirector), for any      *)
(* entrants, size of the tables, hands and kicks.                          *)
(*                                                                         *)
(* Accounted is not inductive: that the answer to a request settles the    *)
(* buy-in of that request and of no other needs that the actor's inbox     *)
(* holds requests that wait, each once (QueueInv); and prizes are numbers  *)
(* because the pool is the buy-ins of the players (PoolInv).               *)
(*                                                                         *)
(* Nor is SeatsFollowRosters.  A table that takes a player in needs a free *)
(* seat for him, however many moves are under way: the moves left fit the  *)
(* lists (MovesFit), and while there are several tables nobody sits at one *)
(* without being on its list.  For that, the busts a table has still to    *)
(* report are of its own players, and of nobody who sits there (Reports).  *)
(* A player who is all-in may be moved away before his hand is over; he is *)
(* then a bust of a table he has left.  But short of the final merge, which*)
(* reads no reports, he is moved away only from a table of one or two, and *)
(* a bust is reported at the end of a later hand, which is dealt to two    *)
(* others.                                                                 *)
(***************************************************************************)
EXTENDS TournamentMoney, MttDirector, Chips

(* The inbox holds requests that wait for an answer, each of them once.    *)
QueueInv == /\ \A k \in DOMAIN inbox : task[inbox[k]].at = "waiting"
            /\ \A k, l \in DOMAIN inbox : inbox[k] = inbox[l] => k = l

(* Nobody is out before the tournament starts, nor on a restarted server.  *)
PlayInv == actor \in {"registering", "starting"} => order = <<>>

(* The pool is the buy-ins of the players.                                 *)
PoolInv == /\ IsFiniteSet(players) /\ Cardinality(players) <= MaxPlayers
           /\ pool = BuyIn * Cardinality(players)

(* A stored registration is of a player, or of a user whose buy-in was     *)
(* lost; a Sit & Go stores none.                                           *)
RegsInv == /\ \A u \in regs : u \in players \/ gone[u] >= BuyIn
           /\ kind = "SitAndGo" => regs = {}

MoneyInv == TypeOK /\ QueueInv /\ PlayInv /\ PoolInv /\ RegsInv /\ Accounted

(* What a request holds of the chips of a user.                            *)
Bears(t, u) == t.user = u /\ Carries(t)
Held(t, u)  == IF Bears(t, u) THEN BuyIn ELSE 0

-----------------------------------------------------------------------------
LEMMA OneMore ==
  ASSUME NEW a \in Nat, NEW n \in Nat
  PROVE  a * n \in Nat /\ a * (n + 1) = a * n + a
<1>1. a * n \in Nat
  OBVIOUS
<1>2. a * (n + 1) = a * n + a
  OBVIOUS
<1> QED
  BY <1>1, <1>2

(* A request that is not idle is somebody's.                               *)
LEMMA TaskOf ==
  ASSUME TypeOK, NEW r \in Requests, task[r].at # "idle"
  PROVE  /\ task[r] \in [user : Users, op : {"register", "unregister"}, at : Places]
         /\ task[r].user \in Users
BY DEF TypeOK, Tasks, IdleTask

(* A request moves on, or ends.                                            *)
LEMMA GotoIs ==
  ASSUME TypeOK, NEW r \in Requests, task[r].at # "idle", NEW p \in Places, Goto(r, p)
  PROVE  \E t \in Tasks : /\ task' = [task EXCEPT ![r] = t] /\ t.at = p
                          /\ t.user = task[r].user /\ t.op = task[r].op
<1> DEFINE t == [user |-> task[r].user, op |-> task[r].op, at |-> p]
<1>1. t \in Tasks
  BY TaskOf DEF Tasks
<1>2. [task[r] EXCEPT !.at = p] = t
  BY TaskOf
<1>3. task' = [task EXCEPT ![r] = [task[r] EXCEPT !.at = p]]
  BY DEF Goto
<1> QED
  BY <1>1, <1>2, <1>3

(* The chips under way when one request changes.                           *)
LEMMA OneRequest ==
  ASSUME TypeOK, NEW r \in Requests, NEW t \in Tasks, task' = [task EXCEPT ![r] = t],
         NEW u \in Users
  PROVE  /\ UnderWay(u) \in Nat /\ UnderWay(u)' \in Nat
         /\ UnderWay(u)' = UnderWay(u) + Held(t, u) - Held(task[r], u)
<1> DEFINE B == {q \in Requests : Bears(task[q], u)}
           C == {q \in Requests : Bears(task'[q], u)}
           D == B \ {r}
<1>1. IsFiniteSet(D) /\ r \notin D
  BY FS_Subset, MoneyAssumption
<1>2. B = IF Bears(task[r], u) THEN D \cup {r} ELSE D
  OBVIOUS
<1>3. C = IF Bears(t, u) THEN D \cup {r} ELSE D
  <2>1. task'[r] = t /\ \A q \in Requests \ {r} : task'[q] = task[q]
    BY DEF TypeOK
  <2> QED
    BY <2>1
<1>4. Cardinality(D) \in Nat /\ Cardinality(D \cup {r}) = Cardinality(D) + 1
  BY <1>1, FS_CardinalityType, FS_AddElement
<1>5. UnderWay(u) = BuyIn * Cardinality(B) /\ UnderWay(u)' = BuyIn * Cardinality(C)
  BY DEF UnderWay, Bears
<1> HIDE DEF B, C, D
<1>6. BuyIn \in Nat /\ BuyIn * (Cardinality(D) + 1) = BuyIn * Cardinality(D) + BuyIn
      /\ BuyIn * Cardinality(D) \in Nat
  BY <1>4, OneMore, MoneyAssumption
<1> QED
  BY <1>2, <1>3, <1>4, <1>5, <1>6 DEF Held

LEMMA UnderWayType ==
  ASSUME NEW u \in Users
  PROVE  UnderWay(u) \in Nat
<1>1. IsFiniteSet({r \in Requests : task[r].user = u /\ Carries(task[r])})
  BY FS_Subset, MoneyAssumption
<1> QED
  BY <1>1, FS_CardinalityType, MoneyAssumption DEF UnderWay

(* No request changes what it carries.                                     *)
LEMMA SameUnderWay ==
  ASSUME \A r \in Requests : /\ task'[r].user = task[r].user
                             /\ Carries(task'[r]) <=> Carries(task[r]),
         NEW u \in Users
  PROVE  UnderWay(u)' = UnderWay(u)
<1>1. {r \in Requests : task[r].user = u /\ Carries(task[r])}
        = {r \in Requests : task'[r].user = u /\ Carries(task'[r])}
  OBVIOUS
<1> QED
  BY <1>1 DEF UnderWay

(* The queue when a request changes that is not in it, enters it, or is    *)
(* its head and leaves it.                                                 *)
LEMMA QueueKept ==
  ASSUME TypeOK, QueueInv, NEW r \in Requests, NEW t \in Tasks,
         task' = [task EXCEPT ![r] = t], task[r].at # "waiting", inbox' = inbox
  PROVE  QueueInv'
<1>1. \A k \in DOMAIN inbox : inbox[k] \in Requests /\ inbox[k] # r
  BY DEF TypeOK, QueueInv
<1> QED
  BY <1>1 DEF TypeOK, QueueInv

LEMMA QueueAppended ==
  ASSUME TypeOK, QueueInv, NEW r \in Requests, NEW t \in Tasks,
         task' = [task EXCEPT ![r] = t], task[r].at # "waiting", t.at = "waiting",
         inbox' = Append(inbox, r)
  PROVE  QueueInv' /\ inbox' \in Seq(Requests)
<1>1. inbox \in Seq(Requests) /\ task \in [Requests -> Tasks]
  BY DEF TypeOK
<1>2. \A k \in 1 .. Len(inbox) : /\ inbox[k] \in Requests /\ inbox[k] # r
                                 /\ task[inbox[k]].at = "waiting"
  BY <1>1 DEF QueueInv
<1>3. \A k \in 1 .. Len(inbox) : inbox'[k] = inbox[k] /\ task'[inbox[k]].at = "waiting"
  BY <1>1, <1>2
<1>4. inbox'[Len(inbox) + 1] = r /\ task'[r].at = "waiting"
      /\ DOMAIN inbox' = 1 .. Len(inbox) + 1 /\ inbox' \in Seq(Requests)
  BY <1>1
<1>5. \A k, l \in 1 .. Len(inbox) : inbox[k] = inbox[l] => k = l
  BY <1>1 DEF QueueInv
<1>6. \A k \in DOMAIN inbox' : k \in 1 .. Len(inbox) \/ k = Len(inbox) + 1
  BY <1>1, <1>4
<1> QED
  BY <1>1, <1>2, <1>3, <1>4, <1>5, <1>6 DEF QueueInv

LEMMA QueueRead ==
  ASSUME TypeOK, QueueInv, NEW t \in Tasks, inbox # <<>>,
         task' = [task EXCEPT ![Head(inbox)] = t], inbox' = Tail(inbox)
  PROVE  QueueInv' /\ inbox' \in Seq(Requests)
<1>1. inbox \in Seq(Requests) /\ task \in [Requests -> Tasks] /\ Len(inbox) > 0
  BY DEF TypeOK
<1>2. /\ DOMAIN inbox' = 1 .. Len(inbox) - 1 /\ inbox' \in Seq(Requests)
      /\ \A k \in 1 .. Len(inbox) - 1 : inbox'[k] = inbox[k + 1]
      /\ Head(inbox) = inbox[1]
  BY <1>1
<1>3. \A k, l \in 1 .. Len(inbox) : inbox[k] = inbox[l] => k = l
  BY <1>1 DEF QueueInv
<1>4. \A k \in 1 .. Len(inbox) - 1 : /\ k + 1 \in 1 .. Len(inbox) /\ inbox[k + 1] # inbox[1]
                                     /\ inbox[k + 1] \in Requests
                                     /\ task[inbox[k + 1]].at = "waiting"
  BY <1>1, <1>3 DEF QueueInv
<1>5. \A k \in DOMAIN inbox' : task'[inbox'[k]].at = "waiting"
  BY <1>1, <1>2, <1>4
<1>6. \A k, l \in DOMAIN inbox' : inbox'[k] = inbox'[l] => k = l
  BY <1>1, <1>2, <1>3, <1>4
<1> QED
  BY <1>2, <1>5, <1>6 DEF QueueInv

(* Who reads the inbox reads a request that waits.                         *)
LEMMA ReadsWaiting ==
  ASSUME TypeOK, QueueInv, NEW r \in Requests, NEW op, Reads(r, op)
  PROVE  task[r].at = "waiting" /\ task[r].user \in Users /\ task[r].op = op
<1>1. inbox \in Seq(Requests) /\ inbox # <<>> /\ r = inbox[1] /\ 1 \in DOMAIN inbox
  BY DEF TypeOK, Reads
<1>2. task[r].at = "waiting"
  BY <1>1 DEF QueueInv
<1> QED
  BY <1>2, TaskOf DEF Reads

-----------------------------------------------------------------------------
(* What settles the accounts: the books balance if every user's entries    *)
(* change by amounts that do.                                              *)
LEMMA Balanced ==
  ASSUME TypeOK, Accounted, wallet' \in [Users -> Nat], won' \in [Users -> Nat],
         gone' \in [Users -> Nat], free' \in [Users -> Nat],
         \A u \in Users :
            (won'[u] - won[u]) - (wallet'[u] - wallet[u])
              = (Stake(u)' - Stake(u)) + (UnderWay(u)' - UnderWay(u))
                + (gone'[u] - gone[u]) - (free'[u] - free[u]),
         \A u \in Users : UnderWay(u)' \in Nat
  PROVE  Accounted'
<1>1. SUFFICES ASSUME NEW u \in Users
               PROVE  Spent(u)' = Stake(u)' + UnderWay(u)' + gone'[u] - free'[u]
  BY DEF Accounted
<1>2. /\ UnderWay(u) \in Nat /\ UnderWay(u)' \in Nat
      /\ Stake(u) \in Nat /\ Stake(u)' \in Nat
  BY UnderWayType, MoneyAssumption DEF Stake
<1>3. Spent(u) = Wallets[u] + won[u] - wallet[u] /\ Spent(u)' = Wallets[u] + won'[u] - wallet'[u]
  BY DEF Spent
<1>4. Spent(u) = Stake(u) + UnderWay(u) + gone[u] - free[u]
  BY DEF Accounted
<1>5. /\ {Wallets[u], won[u], wallet[u], gone[u], free[u]} \subseteq Nat
      /\ {won'[u], wallet'[u], gone'[u], free'[u]} \subseteq Nat
  BY MoneyAssumption DEF TypeOK
<1>6. (won'[u] - won[u]) - (wallet'[u] - wallet[u])
              = (Stake(u)' - Stake(u)) + (UnderWay(u)' - UnderWay(u))
                + (gone'[u] - gone[u]) - (free'[u] - free[u])
  OBVIOUS
<1> HIDE DEF UnderWay, Stake, Spent
<1> QED
  BY <1>2, <1>3, <1>4, <1>5, <1>6

(* A step of a request: what it holds more, the wallet or a failure gives. *)
LEMMA RequestBalanced ==
  ASSUME MoneyInv, NEW r \in Requests, NEW t \in Tasks, task' = [task EXCEPT ![r] = t],
         wallet' \in [Users -> Nat], gone' \in [Users -> Nat],
         \A v \in Users : (wallet'[v] - wallet[v]) + (gone'[v] - gone[v])
                            = Held(task[r], v) - Held(t, v),
         UNCHANGED <<won, free, players>>
  PROVE  Accounted'
<1>1. TypeOK /\ Accounted /\ won' \in [Users -> Nat] /\ free' \in [Users -> Nat]
  BY DEF MoneyInv, TypeOK
<1>2. ASSUME NEW v \in Users
      PROVE  /\ (won'[v] - won[v]) - (wallet'[v] - wallet[v])
                  = (Stake(v)' - Stake(v)) + (UnderWay(v)' - UnderWay(v))
                    + (gone'[v] - gone[v]) - (free'[v] - free[v])
             /\ UnderWay(v)' \in Nat
  <2>1. /\ UnderWay(v)' = UnderWay(v) + Held(t, v) - Held(task[r], v)
        /\ UnderWay(v) \in Nat /\ UnderWay(v)' \in Nat
    BY <1>1, OneRequest
  <2>2. Stake(v)' = Stake(v) /\ Stake(v) \in Nat
    BY MoneyAssumption DEF Stake
  <2>3. Held(t, v) \in Nat /\ Held(task[r], v) \in Nat
    BY MoneyAssumption DEF Held
  <2>4. {wallet[v], wallet'[v], won[v], gone[v], gone'[v], free[v]} \subseteq Nat
    BY <1>1 DEF TypeOK
  <2>5. (wallet'[v] - wallet[v]) + (gone'[v] - gone[v]) = Held(task[r], v) - Held(t, v)
    OBVIOUS
  <2> HIDE DEF Stake, UnderWay, Held
  <2> QED
    BY <2>1, <2>2, <2>3, <2>4, <2>5
<1> QED
  BY <1>1, <1>2, Balanced

(* A step of the actor for a request: the seat, the request, what failures *)
(* take or give.                                                           *)
LEMMA SeatBalanced ==
  ASSUME MoneyInv, NEW r \in Requests, NEW t \in Tasks, task' = [task EXCEPT ![r] = t],
         gone' \in [Users -> Nat], free' \in [Users -> Nat],
         \A v \in Users : (Stake(v)' - Stake(v)) + (Held(t, v) - Held(task[r], v))
                            + (gone'[v] - gone[v]) - (free'[v] - free[v]) = 0,
         UNCHANGED <<won, wallet>>
  PROVE  Accounted'
<1>1. TypeOK /\ Accounted /\ won' \in [Users -> Nat] /\ wallet' \in [Users -> Nat]
  BY DEF MoneyInv, TypeOK
<1>2. ASSUME NEW v \in Users
      PROVE  /\ (won'[v] - won[v]) - (wallet'[v] - wallet[v])
                  = (Stake(v)' - Stake(v)) + (UnderWay(v)' - UnderWay(v))
                    + (gone'[v] - gone[v]) - (free'[v] - free[v])
             /\ UnderWay(v)' \in Nat
  <2>1. /\ UnderWay(v)' = UnderWay(v) + Held(t, v) - Held(task[r], v)
        /\ UnderWay(v) \in Nat /\ UnderWay(v)' \in Nat
    BY <1>1, OneRequest
  <2>2. Stake(v)' \in Nat /\ Stake(v) \in Nat
    BY MoneyAssumption DEF Stake
  <2>3. Held(t, v) \in Nat /\ Held(task[r], v) \in Nat
    BY MoneyAssumption DEF Held
  <2>4. {wallet[v], won[v], gone[v], gone'[v], free[v], free'[v]} \subseteq Nat
    BY <1>1 DEF TypeOK
  <2>5. (Stake(v)' - Stake(v)) + (Held(t, v) - Held(task[r], v))
          + (gone'[v] - gone[v]) - (free'[v] - free[v]) = 0
    OBVIOUS
  <2> HIDE DEF Stake, UnderWay, Held
  <2> QED
    BY <2>1, <2>2, <2>3, <2>4, <2>5
<1> QED
  BY <1>1, <1>2, Balanced

(* The pool follows the players, who may be one more or one less.          *)
LEMMA PoolIn ==
  ASSUME PoolInv, pool \in Nat, NEW u \in Users \ players, Cardinality(players) < MaxPlayers,
         players' = players \cup {u}, pool' = pool + BuyIn
  PROVE  PoolInv' /\ pool' \in Nat
<1>1. /\ IsFiniteSet(players') /\ Cardinality(players') = Cardinality(players) + 1
      /\ Cardinality(players) \in Nat
  BY FS_CardinalityType, FS_AddElement DEF PoolInv
<1>2. BuyIn * (Cardinality(players) + 1) = BuyIn * Cardinality(players) + BuyIn
  BY <1>1, OneMore, MoneyAssumption
<1> QED
  BY <1>1, <1>2, MoneyAssumption DEF PoolInv

LEMMA PoolOut ==
  ASSUME PoolInv, pool \in Nat, NEW u \in players,
         players' = players \ {u}, pool' = pool - BuyIn
  PROVE  PoolInv' /\ pool' \in Nat
<1>1. /\ IsFiniteSet(players') /\ Cardinality(players') = Cardinality(players) - 1
      /\ Cardinality(players) \in Nat /\ Cardinality(players') \in Nat
  BY FS_CardinalityType, FS_RemoveElement DEF PoolInv
<1>2. /\ BuyIn * (Cardinality(players') + 1) = BuyIn * Cardinality(players') + BuyIn
      /\ BuyIn * Cardinality(players') \in Nat
  BY <1>1, OneMore, MoneyAssumption
<1>3. Cardinality(players) = Cardinality(players') + 1
  BY <1>1
<1>4. pool' = BuyIn * Cardinality(players')
  <2>1. pool = BuyIn * (Cardinality(players') + 1)
    BY <1>3 DEF PoolInv
  <2> QED
    BY <1>2, <2>1, MoneyAssumption
<1> QED
  BY <1>1, <1>2, <1>4, MoneyAssumption DEF PoolInv

-----------------------------------------------------------------------------
(* The actions of the service.                                             *)
LEMMA CallStep ==
  ASSUME MoneyInv, NEW r \in Requests, NEW u \in Users,
         NEW op \in {"register", "unregister"}, Call(r, u, op)
  PROVE  MoneyInv'
<1> DEFINE t == [user |-> u, op |-> op, at |-> "called"]
<1>1. /\ TypeOK /\ t \in Tasks /\ task' = [task EXCEPT ![r] = t]
      /\ task[r] = IdleTask /\ inbox' = inbox
  BY DEF MoneyInv, Call, Tasks, Places
<1>2. TypeOK'
  BY <1>1 DEF TypeOK, Call, stored, memory
<1>3. QueueInv'
  <2>1. task[r].at # "waiting" /\ QueueInv
    BY <1>1 DEF MoneyInv, IdleTask
  <2> HIDE DEF t
  <2> QED
    BY <1>1, <2>1, QueueKept
<1>4. PlayInv' /\ PoolInv' /\ RegsInv'
  BY DEF MoneyInv, PlayInv, PoolInv, RegsInv, Call, stored, memory
<1>5. Accounted'
  <2>1. \A v \in Users : Held(t, v) = 0 /\ Held(task[r], v) = 0
    BY <1>1 DEF Held, Bears, Carries, IdleTask
  <2>2. ASSUME NEW v \in Users PROVE UnderWay(v)' = UnderWay(v) /\ UnderWay(v)' \in Nat
    <3>1. /\ UnderWay(v)' = UnderWay(v) + Held(t, v) - Held(task[r], v)
          /\ UnderWay(v) \in Nat /\ UnderWay(v)' \in Nat
      BY <1>1, OneRequest
    <3> QED
      BY <2>1, <3>1
  <2>3. \A v \in Users : UnderWay(v)' = UnderWay(v)
    BY <2>2
  <2> QED
    BY <2>3 DEF MoneyInv, Accounted, Spent, Stake, Call, stored, memory
<1> QED
  BY <1>2, <1>3, <1>4, <1>5 DEF MoneyInv

LEMMA DebitStep ==
  ASSUME MoneyInv, NEW r \in Requests, Debit(r)
  PROVE  MoneyInv'
<1> DEFINE u == task[r].user
<1>1. TypeOK /\ u \in Users /\ task[r].at = "called" /\ task[r].op = "register"
  BY TaskOf DEF MoneyInv, Debit
<1>2. UNCHANGED <<kind, row, regs, paid, up, listed, actor, players, pool, order, due, inbox,
                  won, gone, free, missed>>
  BY DEF Debit, memory
<1>3. PICK t \in Tasks :
        /\ task' = [task EXCEPT ![r] = t]
        /\ \/ /\ t.user = u /\ t.op = "register" /\ t.at = "debited"
              /\ wallet[u] >= BuyIn /\ wallet' = [wallet EXCEPT ![u] = @ - BuyIn]
           \/ t = IdleTask /\ wallet' = wallet
        /\ faults' \in 0 .. MaxFaults
  <2>1. CASE wallet[u] >= BuyIn /\ wallet' = [wallet EXCEPT ![u] = @ - BuyIn]
             /\ Goto(r, "debited") /\ faults' = faults
    <3>1. PICK t \in Tasks : /\ task' = [task EXCEPT ![r] = t] /\ t.at = "debited"
                             /\ t.user = u /\ t.op = "register"
      BY <1>1, <2>1, GotoIs DEF Places
    <3> QED
      BY <1>1, <2>1, <3>1 DEF TypeOK
  <2>2. CASE End(r) /\ wallet' = wallet /\ faults' \in 0 .. MaxFaults
    BY <2>2 DEF End, Tasks
  <2>3. \/ faults' = faults
        \/ faults < MaxFaults /\ faults' = faults + 1
    BY DEF Debit, Write
  <2>4. faults' \in 0 .. MaxFaults
    BY <1>1, <2>3, MoneyAssumption DEF TypeOK
  <2> QED
    BY <2>1, <2>2, <2>4 DEF Debit, Write
<1>4. /\ wallet \in [Users -> Nat] /\ wallet' \in [Users -> Nat]
      /\ \A v \in Users \ {u} : wallet'[v] = wallet[v]
      /\ wallet'[u] = wallet[u] - (IF t = IdleTask THEN 0 ELSE BuyIn)
  <2>1. wallet \in [Users -> Nat] /\ wallet[u] \in Nat /\ BuyIn \in Nat
    BY <1>1, MoneyAssumption DEF TypeOK
  <2>2. CASE t = IdleTask /\ wallet' = wallet
    BY <2>1, <2>2
  <2>3. CASE t # IdleTask /\ wallet[u] >= BuyIn /\ wallet' = [wallet EXCEPT ![u] = @ - BuyIn]
    <3>1. wallet[u] - BuyIn \in Nat
      BY <2>1, <2>3
    <3> QED
      BY <1>1, <2>1, <2>3, <3>1
  <2>4. t = IdleTask => t.at = "idle"
    BY DEF IdleTask
  <2> QED
    BY <1>3, <2>2, <2>3, <2>4
<1>5. TypeOK'
  BY <1>1, <1>2, <1>3, <1>4 DEF TypeOK
<1>6. QueueInv'
  BY <1>1, <1>2, <1>3, QueueKept DEF MoneyInv
<1>7. PlayInv' /\ PoolInv' /\ RegsInv'
  BY <1>2 DEF MoneyInv, PlayInv, PoolInv, RegsInv
<1>8. Accounted'
  <2>1. ASSUME NEW v \in Users
        PROVE  (wallet'[v] - wallet[v]) + (gone'[v] - gone[v]) = Held(task[r], v) - Held(t, v)
    <3>1. Held(task[r], v) = 0
      BY <1>1 DEF Held, Bears, Carries
    <3>2. Held(t, v) = wallet[v] - wallet'[v]
      <4>1. CASE t = IdleTask
        BY <1>4, <4>1 DEF Held, Bears, Carries, IdleTask
      <4>2. CASE t # IdleTask
        <5>1. Carries(t) /\ t.user = u
          BY <1>3, <4>2 DEF Carries
        <5>2. Held(t, v) = IF v = u THEN BuyIn ELSE 0
          BY <5>1 DEF Held, Bears
        <5> QED
          BY <1>1, <1>4, <4>2, <5>2, MoneyAssumption
      <4> QED
        BY <4>1, <4>2
    <3>3. {wallet[v], wallet'[v], gone[v]} \subseteq Nat /\ gone'[v] = gone[v]
      BY <1>1, <1>2, <1>4 DEF TypeOK
    <3> QED
      BY <3>1, <3>2, <3>3
  <2>2. gone' \in [Users -> Nat]
    BY <1>1, <1>2 DEF TypeOK
  <2> QED
    BY <1>2, <1>3, <1>4, <2>1, <2>2, RequestBalanced
<1> QED
  BY <1>5, <1>6, <1>7, <1>8 DEF MoneyInv

LEMMA SendStep ==
  ASSUME MoneyInv, NEW r \in Requests, Send(r)
  PROVE  MoneyInv'
<1> DEFINE old == task[r]
           u   == old.user
<1>1. /\ TypeOK /\ u \in Users /\ QueueInv /\ old.op \in {"register", "unregister"}
      /\ old.at = IF old.op = "register" THEN "debited" ELSE "called"
  BY TaskOf DEF MoneyInv, Send
<1>2. UNCHANGED <<kind, wallet, row, regs, paid, up, listed, actor, players, pool, order, due,
                  won, free, missed, faults>>
  BY DEF Send, memory, stored
<1>3. PICK t \in Tasks :
        /\ task' = [task EXCEPT ![r] = t]
        /\ \/ /\ t = IdleTask /\ inbox' = inbox
              /\ gone' = IF old.op = "register" THEN [gone EXCEPT ![u] = @ + BuyIn] ELSE gone
           \/ /\ t.user = u /\ t.op = old.op /\ old.op = "register" /\ t.at = "refused"
              /\ inbox' = inbox /\ gone' = gone
           \/ /\ t.user = u /\ t.op = old.op /\ t.at = "waiting"
              /\ inbox' = Append(inbox, r) /\ gone' = gone
  <2>1. old.at # "idle"
    BY <1>1
  <2>2. CASE End(r) /\ inbox' = inbox
             /\ gone' = IF old.op = "register" THEN [gone EXCEPT ![u] = @ + BuyIn] ELSE gone
    BY <2>2 DEF End, Tasks
  <2>3. CASE Goto(r, "refused") /\ old.op = "register" /\ inbox' = inbox /\ gone' = gone
    BY <1>1, <2>1, <2>3, GotoIs DEF Places
  <2>4. CASE Goto(r, "waiting") /\ inbox' = Append(inbox, r) /\ gone' = gone
    BY <1>1, <2>1, <2>4, GotoIs DEF Places
  <2>5. \/ /\ End(r) /\ inbox' = inbox
           /\ gone' = IF old.op = "register" THEN [gone EXCEPT ![u] = @ + BuyIn] ELSE gone
        \/ old.op = "register" /\ Goto(r, "refused") /\ inbox' = inbox /\ gone' = gone
        \/ old.op # "register" /\ End(r) /\ inbox' = inbox /\ gone' = gone
        \/ Goto(r, "waiting") /\ inbox' = Append(inbox, r) /\ gone' = gone
    BY DEF Send, Lose
  <2>6. CASE old.op # "register" /\ End(r) /\ inbox' = inbox /\ gone' = gone
    BY <2>6 DEF End, Tasks
  <2> QED
    BY <2>2, <2>3, <2>4, <2>5, <2>6
<1>4. /\ gone \in [Users -> Nat] /\ gone' \in [Users -> Nat]
      /\ gone' = [gone EXCEPT ![u] = @ + (IF t = IdleTask /\ old.op = "register" THEN BuyIn ELSE 0)]
  <2>1. gone \in [Users -> Nat] /\ gone[u] \in Nat /\ BuyIn \in Nat
    BY <1>1, MoneyAssumption DEF TypeOK
  <2>2. t.at \in {"waiting", "refused"} => t # IdleTask
    BY DEF IdleTask
  <2> QED
    BY <1>3, <2>1, <2>2
<1>5. QueueInv' /\ inbox' \in Seq(Requests)
  <2>1. old.at # "waiting" /\ inbox \in Seq(Requests)
    BY <1>1 DEF TypeOK
  <2> QED
    BY <1>1, <1>3, <2>1, QueueKept, QueueAppended
<1>6. TypeOK'
  BY <1>1, <1>2, <1>3, <1>4, <1>5 DEF TypeOK
<1>7. PlayInv' /\ PoolInv'
  BY <1>2 DEF MoneyInv, PlayInv, PoolInv
<1>8. \A v \in Users : gone'[v] >= gone[v]
  BY <1>1, <1>4, MoneyAssumption
<1>9. RegsInv'
  BY <1>1, <1>2, <1>4, <1>8, MoneyAssumption DEF MoneyInv, RegsInv, TypeOK
<1>10. Accounted'
  <2>1. ASSUME NEW v \in Users
        PROVE  (wallet'[v] - wallet[v]) + (gone'[v] - gone[v]) = Held(old, v) - Held(t, v)
    <3>1. Carries(old) <=> old.op = "register"
      BY <1>1 DEF Carries
    <3>2. Bears(t, v) <=> t # IdleTask /\ old.op = "register" /\ v = u
      BY <1>1, <1>3 DEF Bears, Carries, IdleTask
    <3>3. wallet'[v] = wallet[v] /\ wallet[v] \in Nat /\ gone[v] \in Nat /\ BuyIn \in Nat
      BY <1>1, <1>2, MoneyAssumption DEF TypeOK
    <3> QED
      BY <1>4, <3>1, <3>2, <3>3 DEF Held, Bears
  <2>2. wallet' \in [Users -> Nat]
    BY <1>1, <1>2 DEF TypeOK
  <2> QED
    BY <1>2, <1>3, <1>4, <2>1, <2>2, RequestBalanced
<1> QED
  BY <1>5, <1>6, <1>7, <1>9, <1>10 DEF MoneyInv

LEMMA SettleStep ==
  ASSUME MoneyInv, NEW r \in Requests, Settle(r)
  PROVE  MoneyInv'
<1> DEFINE old == task[r]
           u   == old.user
<1>1. TypeOK /\ u \in Users /\ QueueInv /\ old.at \in {"ok", "refused", "dropped"}
  BY TaskOf DEF MoneyInv, Settle
<1>2. UNCHANGED <<kind, row, regs, paid, up, listed, actor, players, pool, order, due, inbox,
                  won, free, missed>>
  BY DEF Settle, memory
<1>3. IdleTask \in Tasks /\ task' = [task EXCEPT ![r] = IdleTask]
  BY DEF Settle, End, Tasks
<1>4. faults' \in 0 .. MaxFaults
  BY <1>1, MoneyAssumption DEF Settle, Write, TypeOK
<1>5. \/ Carries(old) /\ wallet' = [wallet EXCEPT ![u] = @ + BuyIn] /\ gone' = gone
      \/ Carries(old) /\ wallet' = wallet /\ gone' = [gone EXCEPT ![u] = @ + BuyIn]
      \/ ~Carries(old) /\ wallet' = wallet /\ gone' = gone
  BY DEF Settle, Write, Credit, Lose
<1>6. /\ wallet \in [Users -> Nat] /\ wallet' \in [Users -> Nat]
      /\ gone \in [Users -> Nat] /\ gone' \in [Users -> Nat] /\ BuyIn \in Nat
      /\ \A v \in Users : gone'[v] >= gone[v]
  <2>1. /\ wallet \in [Users -> Nat] /\ gone \in [Users -> Nat] /\ BuyIn \in Nat
        /\ wallet[u] \in Nat /\ gone[u] \in Nat
    BY <1>1, MoneyAssumption DEF TypeOK
  <2>2. wallet[u] + BuyIn \in Nat /\ gone[u] + BuyIn \in Nat
    BY <2>1
  <2>3. wallet' \in [Users -> Nat] /\ gone' \in [Users -> Nat]
    BY <1>1, <1>5, <2>1, <2>2
  <2>4. \A v \in Users : gone'[v] >= gone[v]
    BY <1>1, <1>5, <2>1, <2>2
  <2> QED
    BY <2>1, <2>3, <2>4
<1>7. TypeOK'
  BY <1>1, <1>2, <1>3, <1>4, <1>6 DEF TypeOK
<1>8. QueueInv'
  BY <1>1, <1>2, <1>3, QueueKept
<1>9. PlayInv' /\ PoolInv' /\ RegsInv'
  BY <1>1, <1>2, <1>6 DEF MoneyInv, PlayInv, PoolInv, RegsInv, TypeOK
<1>10. Accounted'
  <2>1. ASSUME NEW v \in Users
        PROVE  (wallet'[v] - wallet[v]) + (gone'[v] - gone[v]) = Held(old, v) - Held(IdleTask, v)
    <3>1. Held(IdleTask, v) = 0
      BY DEF Held, Bears, Carries, IdleTask
    <3>2. Held(old, v) = IF Carries(old) /\ v = u THEN BuyIn ELSE 0
      BY DEF Held, Bears
    <3> QED
      BY <1>1, <1>5, <1>6, <3>1, <3>2
  <2> QED
    BY <1>2, <1>3, <1>6, <2>1, RequestBalanced
<1> QED
  BY <1>7, <1>8, <1>9, <1>10 DEF MoneyInv

-----------------------------------------------------------------------------
(* The actions of the actor.                                               *)
LEMMA RegisterStep ==
  ASSUME MoneyInv, NEW r \in Requests, Register(r)
  PROVE  MoneyInv'
<1> DEFINE old == task[r]
           u   == old.user
<1>1. /\ TypeOK /\ QueueInv /\ u \in Users /\ old.at = "waiting" /\ old.op = "register"
      /\ inbox # <<>> /\ r = Head(inbox) /\ inbox' = Tail(inbox)
  BY ReadsWaiting DEF MoneyInv, Register, Reads
<1>2. UNCHANGED <<kind, wallet, row, paid, up, listed, order, due, won, gone, missed>>
  BY DEF Register
<1>3. faults' \in 0 .. MaxFaults
  <2>1. kind \in {"SitAndGo", "Mtt"} /\ faults \in 0 .. MaxFaults
    BY <1>1 DEF TypeOK
  <2>2. \/ faults' = faults
        \/ faults < MaxFaults /\ faults' = faults + 1
    BY <2>1 DEF Register, Write
  <2> QED
    BY <2>1, <2>2, MoneyAssumption
<1>4. PICK t \in Tasks :
        /\ task' = [task EXCEPT ![r] = t] /\ t.user = u /\ t.op = "register"
        /\ \/ /\ t.at = "refused"
              /\ UNCHANGED <<regs, actor, players, pool, free>>
           \/ /\ MayEnter(u) /\ players' = players \cup {u} /\ pool' = pool + BuyIn
              /\ \/ /\ t.at = "ok" /\ free' = free
                    /\ \/ regs' = regs
                       \/ kind # "SitAndGo" /\ regs' = regs \cup {u}
                    /\ actor' \in {"registering", "starting", "running"}
                 \/ /\ t.at = "refused" /\ free' = [free EXCEPT ![u] = @ + BuyIn]
                    /\ regs' = regs /\ actor' = actor
  <2>1. CASE Goto(r, "refused") /\ UNCHANGED <<regs, actor, players, pool, free>>
    BY <1>1, <2>1, GotoIs DEF Places
  <2> DEFINE in == MayEnter(u) /\ players' = players \cup {u} /\ pool' = pool + BuyIn
  <2>2. CASE in /\ Enter(r, u) /\ free' = free
             /\ (regs' = regs \/ (kind # "SitAndGo" /\ regs' = regs \cup {u}))
    <3>1. Goto(r, "ok") /\ actor' \in {"registering", "starting", "running"}
      BY <2>2 DEF Enter, MayEnter
    <3> QED
      BY <1>1, <2>2, <3>1, GotoIs DEF Places
  <2>3. CASE in /\ Goto(r, "refused") /\ free' = [free EXCEPT ![u] = @ + BuyIn]
             /\ regs' = regs /\ actor' = actor
    BY <1>1, <2>3, GotoIs DEF Places
  <2>4. ~MayEnter(u) => Goto(r, "refused") /\ UNCHANGED <<regs, actor, players, pool, free>>
    BY DEF Register
  <2>5. MayEnter(u) => in
    BY DEF Register
  <2>6. MayEnter(u) /\ kind = "SitAndGo" => Enter(r, u) /\ free' = free /\ regs' = regs
    BY DEF Register
  <2>7. MayEnter(u) /\ kind = "Mtt" =>
          \/ Enter(r, u) /\ free' = free /\ regs' = regs \cup {u}
          \/ /\ Goto(r, "refused") /\ free' = [free EXCEPT ![u] = @ + BuyIn]
             /\ regs' = regs /\ actor' = actor
    BY DEF Register, Write
  <2>8. kind = "SitAndGo" \/ (kind = "Mtt" /\ kind # "SitAndGo")
    BY <1>1 DEF TypeOK
  <2> HIDE DEF in
  <2> QED
    BY <2>1, <2>2, <2>3, <2>4, <2>5, <2>6, <2>7, <2>8
<1>5. QueueInv' /\ inbox' \in Seq(Requests)
  BY <1>1, <1>4, QueueRead
<1>6. PlayInv' /\ order' \in Seq(players')
  BY <1>1, <1>2, <1>4 DEF MoneyInv, PlayInv, MayEnter, TypeOK
<1>7. PoolInv' /\ pool' \in Nat
  <2>1. CASE UNCHANGED <<players, pool>>
    BY <1>1, <2>1 DEF MoneyInv, PoolInv, TypeOK
  <2>2. CASE MayEnter(u) /\ players' = players \cup {u} /\ pool' = pool + BuyIn
    BY <1>1, <2>2, PoolIn DEF MoneyInv, MayEnter, TypeOK
  <2> QED
    BY <1>4, <2>1, <2>2
<1>8. free \in [Users -> Nat] /\ free' \in [Users -> Nat] /\ BuyIn \in Nat
  <2>1. free \in [Users -> Nat] /\ free[u] \in Nat /\ BuyIn \in Nat
    BY <1>1, MoneyAssumption DEF TypeOK
  <2> QED
    BY <1>4, <2>1
<1>9. TypeOK'
  BY <1>1, <1>2, <1>3, <1>4, <1>5, <1>6, <1>7, <1>8 DEF TypeOK
<1>10. RegsInv'
  BY <1>2, <1>4 DEF MoneyInv, RegsInv
<1>11. Accounted'
  <2>1. ASSUME NEW v \in Users
        PROVE  (Stake(v)' - Stake(v)) + (Held(t, v) - Held(old, v))
                 + (gone'[v] - gone[v]) - (free'[v] - free[v]) = 0
    <3>1. Held(old, v) = IF v = u THEN BuyIn ELSE 0
      BY <1>1 DEF Held, Bears, Carries
    <3>2. Held(t, v) = IF v = u /\ t.at = "refused" THEN BuyIn ELSE 0
      BY <1>4 DEF Held, Bears, Carries
    <3>3. gone'[v] = gone[v] /\ gone[v] \in Nat /\ free[v] \in Nat
      BY <1>1, <1>2, <1>8 DEF TypeOK
    <3>4. CASE UNCHANGED <<players, free>> /\ t.at = "refused"
      BY <1>8, <3>1, <3>2, <3>3, <3>4 DEF Stake
    <3>5. CASE players' = players \cup {u} /\ u \notin players /\ t.at = "ok" /\ free' = free
      BY <1>8, <3>1, <3>2, <3>3, <3>5 DEF Stake
    <3>6. CASE players' = players \cup {u} /\ u \notin players /\ t.at = "refused"
               /\ free' = [free EXCEPT ![u] = @ + BuyIn]
      BY <1>8, <3>1, <3>2, <3>3, <3>6 DEF Stake
    <3> QED
      BY <1>4, <3>4, <3>5, <3>6 DEF MayEnter
  <2>2. gone' \in [Users -> Nat]
    BY <1>1, <1>2 DEF TypeOK
  <2> QED
    BY <1>2, <1>4, <1>8, <2>1, <2>2, SeatBalanced
<1> QED
  BY <1>5, <1>6, <1>7, <1>9, <1>10, <1>11 DEF MoneyInv

LEMMA UnregisterStep ==
  ASSUME MoneyInv, NEW r \in Requests, Unregister(r)
  PROVE  MoneyInv'
<1> DEFINE old == task[r]
           u   == old.user
<1>1. /\ TypeOK /\ QueueInv /\ u \in Users /\ old.at = "waiting" /\ old.op = "unregister"
      /\ inbox # <<>> /\ r = Head(inbox) /\ inbox' = Tail(inbox)
  BY ReadsWaiting DEF MoneyInv, Unregister, Reads
<1>2. UNCHANGED <<kind, wallet, row, paid, up, listed, actor, order, due, won, free, missed>>
  BY DEF Unregister
<1>3. faults' \in 0 .. MaxFaults
  <2>1. \/ faults' = faults
        \/ faults < MaxFaults /\ faults' = faults + 1
    BY DEF Unregister, Write
  <2>2. faults \in 0 .. MaxFaults
    BY <1>1 DEF TypeOK
  <2> QED
    BY <2>1, <2>2, MoneyAssumption
<1>4. PICK t \in Tasks :
        /\ task' = [task EXCEPT ![r] = t] /\ t.user = u /\ t.op = "unregister"
        /\ \/ /\ t.at = "refused"
              /\ UNCHANGED <<regs, players, pool, gone>>
           \/ /\ MayLeave(u) /\ players' = players \ {u} /\ pool' = pool - BuyIn
              /\ \/ /\ t.at = "ok" /\ gone' = gone
                    /\ \/ regs' = regs \ {u}
                       \/ kind = "SitAndGo" /\ regs' = regs
                 \/ /\ t.at = "refused" /\ gone' = [gone EXCEPT ![u] = @ + BuyIn]
                    /\ regs' = regs
  <2>1. CASE Goto(r, "refused") /\ UNCHANGED <<regs, players, pool, gone>>
    BY <1>1, <2>1, GotoIs DEF Places
  <2> DEFINE out == MayLeave(u) /\ players' = players \ {u} /\ pool' = pool - BuyIn
  <2>2. CASE out /\ Goto(r, "ok") /\ gone' = gone
             /\ (regs' = regs \ {u} \/ (kind = "SitAndGo" /\ regs' = regs))
    BY <1>1, <2>2, GotoIs DEF Places
  <2>3. CASE out /\ Goto(r, "refused") /\ gone' = [gone EXCEPT ![u] = @ + BuyIn] /\ regs' = regs
    BY <1>1, <2>3, GotoIs DEF Places
  <2>4. ~MayLeave(u) => Goto(r, "refused") /\ UNCHANGED <<regs, players, pool, gone>>
    BY DEF Unregister
  <2>5. MayLeave(u) => out
    BY DEF Unregister
  <2>6. MayLeave(u) =>
          \/ Goto(r, "ok") /\ gone' = gone
             /\ (regs' = regs \ {u} \/ (kind = "SitAndGo" /\ regs' = regs))
          \/ Goto(r, "refused") /\ gone' = [gone EXCEPT ![u] = @ + BuyIn] /\ regs' = regs
    BY DEF Unregister, Write, Lose
  <2> HIDE DEF out
  <2> QED
    BY <2>1, <2>2, <2>3, <2>4, <2>5, <2>6
<1>5. QueueInv' /\ inbox' \in Seq(Requests)
  BY <1>1, <1>4, QueueRead
<1>6. PlayInv' /\ order' \in Seq(players')
  BY <1>1, <1>2, <1>4 DEF MoneyInv, PlayInv, MayLeave, TypeOK
<1>7. PoolInv' /\ pool' \in Nat
  <2>1. CASE UNCHANGED <<players, pool>>
    BY <1>1, <2>1 DEF MoneyInv, PoolInv, TypeOK
  <2>2. CASE MayLeave(u) /\ players' = players \ {u} /\ pool' = pool - BuyIn
    BY <1>1, <2>2, PoolOut DEF MoneyInv, MayLeave, TypeOK
  <2> QED
    BY <1>4, <2>1, <2>2
<1>8. /\ gone \in [Users -> Nat] /\ gone' \in [Users -> Nat] /\ BuyIn \in Nat
      /\ \A v \in Users : gone'[v] >= gone[v]
  <2>1. gone \in [Users -> Nat] /\ gone[u] \in Nat /\ BuyIn \in Nat
    BY <1>1, MoneyAssumption DEF TypeOK
  <2> QED
    BY <1>4, <2>1
<1>9. TypeOK'
  BY <1>1, <1>2, <1>3, <1>4, <1>5, <1>6, <1>7, <1>8 DEF TypeOK
<1>10. RegsInv'
  <2>1. regs \subseteq Users /\ RegsInv
    BY <1>1 DEF MoneyInv, TypeOK
  <2>2. ASSUME NEW v \in regs' PROVE v \in players' \/ gone'[v] >= BuyIn
    <3>1. v \in regs /\ v \in Users
      BY <1>4, <2>1
    <3>2. CASE v = u /\ gone' = [gone EXCEPT ![u] = @ + BuyIn]
      BY <1>8, <3>1, <3>2
    <3>3. CASE v # u \/ players' = players
      BY <1>4, <1>8, <2>1, <3>1, <3>3 DEF RegsInv
    <3> QED
      BY <1>4, <2>1, <3>1, <3>2, <3>3, <1>2 DEF RegsInv
  <2> QED
    BY <1>2, <1>4, <2>1, <2>2 DEF RegsInv
<1>11. Accounted'
  <2>1. ASSUME NEW v \in Users
        PROVE  (Stake(v)' - Stake(v)) + (Held(t, v) - Held(old, v))
                 + (gone'[v] - gone[v]) - (free'[v] - free[v]) = 0
    <3>1. Held(old, v) = 0
      BY <1>1 DEF Held, Bears, Carries
    <3>2. Held(t, v) = IF v = u /\ t.at = "ok" THEN BuyIn ELSE 0
      BY <1>4 DEF Held, Bears, Carries
    <3>3. free'[v] = free[v] /\ gone[v] \in Nat /\ free[v] \in Nat
      BY <1>1, <1>2, <1>8 DEF TypeOK
    <3>4. CASE UNCHANGED <<players, gone>> /\ t.at = "refused"
      BY <1>8, <3>1, <3>2, <3>3, <3>4 DEF Stake
    <3>5. CASE players' = players \ {u} /\ u \in players /\ t.at = "ok" /\ gone' = gone
      BY <1>8, <3>1, <3>2, <3>3, <3>5 DEF Stake
    <3>6. CASE players' = players \ {u} /\ u \in players /\ t.at = "refused"
               /\ gone' = [gone EXCEPT ![u] = @ + BuyIn]
      BY <1>8, <3>1, <3>2, <3>3, <3>6 DEF Stake
    <3> QED
      BY <1>4, <3>4, <3>5, <3>6 DEF MayLeave
  <2>2. free' \in [Users -> Nat]
    BY <1>1, <1>2 DEF TypeOK
  <2> QED
    BY <1>2, <1>4, <1>8, <2>1, <2>2, SeatBalanced
<1> QED
  BY <1>5, <1>6, <1>7, <1>9, <1>10, <1>11 DEF MoneyInv

(* Steps that move no chips.                                               *)
LEMMA StatusStep ==
  ASSUME MoneyInv, TypeOK', PlayInv',
         UNCHANGED <<kind, wallet, regs, players, pool, inbox, task, won, gone, free>>
  PROVE  MoneyInv'
<1>1. QueueInv' /\ PoolInv' /\ RegsInv'
  BY DEF MoneyInv, QueueInv, PoolInv, RegsInv
<1>2. Accounted'
  BY DEF MoneyInv, Accounted, Spent, Stake, UnderWay
<1> QED
  BY <1>1, <1>2 DEF MoneyInv

LEMMA StartStep == MoneyInv /\ Start => MoneyInv'
<1> SUFFICES ASSUME MoneyInv, Start PROVE MoneyInv'
  OBVIOUS
<1>1. TypeOK /\ order = <<>>
  BY DEF MoneyInv, PlayInv, Start
<1>2. faults' \in 0 .. MaxFaults
  BY <1>1, MoneyAssumption DEF Start, Write, TypeOK
<1>3. TypeOK' /\ PlayInv'
  BY <1>1, <1>2 DEF Start, Write, memory, TypeOK, PlayInv
<1> QED
  BY <1>3, StatusStep DEF Start, memory

LEMMA EliminateStep ==
  ASSUME MoneyInv, NEW u \in Users, Eliminate(u)
  PROVE  MoneyInv'
<1>1. TypeOK /\ u \in players /\ order \in Seq(players)
  BY DEF MoneyInv, Eliminate, Survivors, TypeOK
<1>2. order' \in Seq(players')
  BY <1>1 DEF Eliminate
<1>3. actor' \in {"running", "paying"}
  BY DEF Eliminate
<1>4. TypeOK' /\ PlayInv'
  BY <1>1, <1>2, <1>3 DEF Eliminate, stored, TypeOK, PlayInv
<1> QED
  BY <1>4, StatusStep DEF Eliminate, stored

LEMMA CompleteStep == MoneyInv /\ Complete => MoneyInv'
<1> SUFFICES ASSUME MoneyInv, Complete PROVE MoneyInv'
  OBVIOUS
<1>1. TypeOK
  BY DEF MoneyInv
<1>2. faults' \in 0 .. MaxFaults
  BY <1>1, MoneyAssumption DEF Complete, Write, TypeOK
<1>3. row' \in {row, "Completed"}
  BY DEF Complete, Write
<1>4. TypeOK' /\ PlayInv'
  BY <1>1, <1>2, <1>3 DEF Complete, memory, TypeOK, PlayInv
<1> QED
  BY <1>4, StatusStep DEF Complete, memory

LEMMA DelistStep == MoneyInv /\ Delist => MoneyInv'
<1> SUFFICES ASSUME MoneyInv, Delist PROVE MoneyInv'
  OBVIOUS
<1>1. TypeOK' /\ PlayInv'
  BY DEF MoneyInv, Delist, stored, memory, TypeOK, PlayInv
<1> QED
  BY <1>1, StatusStep DEF Delist, stored, memory

LEMMA ItemType ==
  ASSUME NEW S, NEW q \in Seq(S), NEW i \in 1 .. Len(q)
  PROVE  q[i] \in S
OBVIOUS

(* The positions, and the shares of a pool.                                *)
LEMMA Positions ==
  /\ DOMAIN Percents = 1 .. Len(Percents) /\ Len(Percents) \in Nat
  /\ IsFiniteSet(DOMAIN Percents)
  /\ \A p \in DOMAIN Percents : Percents[p] \in Nat
<1>1. Percents \in Seq(0 .. 100)
  BY MoneyAssumption
<1>2. DOMAIN Percents = 1 .. Len(Percents) /\ Len(Percents) \in Nat
  BY <1>1
<1>3. \A p \in 1 .. Len(Percents) : Percents[p] \in 0 .. 100
  BY <1>1, ItemType
<1>4. 0 .. 100 \subseteq Nat
  OBVIOUS
<1>5. IsFiniteSet(1 .. Len(Percents))
  BY <1>2, FS_Interval
<1> QED
  BY <1>2, <1>3, <1>4, <1>5

LEMMA ShareType ==
  ASSUME NEW q \in Nat, NEW p \in DOMAIN Percents
  PROVE  /\ Shares(q)[p] \in Nat
         /\ 100 * Shares(q)[p] <= q * Percents[p]
<1>1. q * Percents[p] \in Nat
  BY Positions, OneMore
<1>2. Shares(q)[p] = (q * Percents[p]) \div 100
  BY DEF Shares
<1> QED
  BY <1>1, <1>2

LEMMA TotalType ==
  ASSUME NEW q \in Nat
  PROVE  /\ Total(q) = SumOver(Shares(q), DOMAIN Percents)
         /\ Total(q) \in Nat
<1>1. Total(q) = SumOver(Shares(q), DOMAIN Percents)
  BY Zenon DEF Total, SumOver
<1> QED
  BY <1>1, Positions, ShareType, SumIsNat

(* A prize is a number of chips.                                           *)
LEMMA PayoutType ==
  ASSUME TypeOK, NEW p \in 1 .. Len(Percents)
  PROVE  Payout(p) \in Nat
<1>1. pool \in Nat
  BY DEF TypeOK
<1>2. Shares(pool)[p] \in Nat /\ Total(pool) \in Nat
  BY <1>1, Positions, ShareType, TotalType
<1> QED
  BY <1>1, <1>2 DEF Payout

LEMMA PayPositionStep == MoneyInv /\ PayPosition => MoneyInv'
<1> SUFFICES ASSUME MoneyInv, PayPosition PROVE MoneyInv'
  OBVIOUS
<1>1. /\ TypeOK /\ actor = "paying" /\ due \in 1 .. Len(Percents) /\ due' = due + 1
      /\ Len(Percents) \in Nat
  BY MoneyAssumption DEF MoneyInv, PayPosition, TypeOK
<1>2. UNCHANGED <<kind, row, regs, up, listed, actor, players, pool, order, inbox, task,
                  gone, free>>
  BY DEF PayPosition
<1>3. Payout(due) \in Nat
  BY <1>1, PayoutType DEF MoneyInv
<1>4. faults' \in 0 .. MaxFaults /\ paid' \subseteq Users /\ missed' \in {missed, missed + Payout(due)}
      /\ \/ wallet' = wallet /\ won' = won
         \/ \E u \in Users : /\ wallet' = [wallet EXCEPT ![u] = @ + Payout(due)]
                             /\ won' = [won EXCEPT ![u] = @ + Payout(due)]
  <2>1. CASE /\ Holders(due) = {} /\ missed' = missed + Payout(due)
             /\ UNCHANGED <<wallet, won, paid, faults>>
    BY <1>1, <2>1 DEF TypeOK
  <2>2. ASSUME NEW u \in Holders(due), NEW failed \in SUBSET {"credit", "record"},
               faults + Cardinality(failed) <= MaxFaults,
               faults' = faults + Cardinality(failed),
               paid' = IF "record" \in failed THEN paid ELSE paid \cup {u},
               IF "credit" \in failed
               THEN missed' = missed + Payout(due) /\ UNCHANGED <<wallet, won>>
               ELSE /\ wallet' = [wallet EXCEPT ![u] = @ + Payout(due)]
                    /\ won' = [won EXCEPT ![u] = @ + Payout(due)]
                    /\ UNCHANGED missed
        PROVE  <1>4!:
    <3>1. u \in Users
      BY <1>1 DEF Holders, Survivors, TypeOK
    <3>2. IsFiniteSet(failed)
      <4>1. IsFiniteSet({"credit"}) /\ {"credit", "record"} = {"credit"} \cup {"record"}
        BY FS_Singleton
      <4>2. IsFiniteSet({"credit", "record"})
        BY <4>1, FS_AddElement
      <4> QED
        BY <4>2, FS_Subset
    <3>3. Cardinality(failed) \in Nat
      BY <3>2, FS_CardinalityType
    <3>4. faults' \in 0 .. MaxFaults /\ paid' \subseteq Users
      BY <1>1, <2>2, <3>1, <3>3, MoneyAssumption DEF TypeOK
    <3> QED
      BY <2>2, <3>1, <3>4
  <2> QED
    BY <2>1, <2>2 DEF PayPosition
<1> DEFINE prize == Payout(due)
<1> HIDE DEF prize
<1>5. /\ prize \in Nat /\ missed \in Nat
      /\ wallet \in [Users -> Nat] /\ won \in [Users -> Nat]
  BY <1>1, <1>3 DEF TypeOK, prize
<1>6. /\ wallet' \in [Users -> Nat] /\ won' \in [Users -> Nat] /\ missed' \in Nat
      /\ \A v \in Users : won'[v] - won[v] = wallet'[v] - wallet[v]
  <2>1. ASSUME wallet' = wallet, won' = won
        PROVE  /\ wallet' \in [Users -> Nat] /\ won' \in [Users -> Nat]
               /\ \A v \in Users : won'[v] - won[v] = wallet'[v] - wallet[v]
    BY <1>5, <2>1
  <2>2. ASSUME NEW u \in Users, wallet' = [wallet EXCEPT ![u] = @ + prize],
               won' = [won EXCEPT ![u] = @ + prize]
        PROVE  /\ wallet' \in [Users -> Nat] /\ won' \in [Users -> Nat]
               /\ \A v \in Users : won'[v] - won[v] = wallet'[v] - wallet[v]
    <3>1. wallet[u] + prize \in Nat /\ won[u] + prize \in Nat
      BY <1>5
    <3>2. wallet' \in [Users -> Nat] /\ won' \in [Users -> Nat]
      BY <1>5, <2>2, <3>1
    <3> QED
      BY <1>5, <2>2, <3>2
  <2>3. \/ wallet' = wallet /\ won' = won
        \/ \E u \in Users : /\ wallet' = [wallet EXCEPT ![u] = @ + prize]
                            /\ won' = [won EXCEPT ![u] = @ + prize]
    BY <1>4 DEF prize
  <2>4. missed' \in Nat
    BY <1>4, <1>5 DEF prize
  <2>5. /\ wallet' \in [Users -> Nat] /\ won' \in [Users -> Nat]
        /\ \A v \in Users : won'[v] - won[v] = wallet'[v] - wallet[v]
    BY <1>5, <2>1, <2>2, <2>3
  <2> QED
    BY <2>4, <2>5
<1>7. due' \in 1 .. Len(Percents) + 1
  BY <1>1
<1>8. TypeOK'
  BY <1>1, <1>2, <1>4, <1>6, <1>7 DEF TypeOK
<1>9. QueueInv' /\ PlayInv' /\ PoolInv' /\ RegsInv'
  BY <1>2 DEF MoneyInv, QueueInv, PlayInv, PoolInv, RegsInv
<1>10. Accounted'
  <2>1. ASSUME NEW v \in Users
        PROVE  /\ (won'[v] - won[v]) - (wallet'[v] - wallet[v])
                    = (Stake(v)' - Stake(v)) + (UnderWay(v)' - UnderWay(v))
                      + (gone'[v] - gone[v]) - (free'[v] - free[v])
               /\ UnderWay(v)' \in Nat
    <3>1. UnderWay(v)' = UnderWay(v) /\ UnderWay(v) \in Nat
      BY <1>2, UnderWayType DEF UnderWay
    <3>2. Stake(v)' = Stake(v) /\ Stake(v) \in Nat
      BY <1>2, MoneyAssumption DEF Stake
    <3>3. gone'[v] = gone[v] /\ free'[v] = free[v] /\ gone[v] \in Nat /\ free[v] \in Nat
      BY <1>1, <1>2 DEF TypeOK
    <3> HIDE DEF UnderWay, Stake
    <3> QED
      BY <1>5, <1>6, <3>1, <3>2, <3>3
  <2> QED
    BY <1>1, <1>8, <2>1, Balanced DEF MoneyInv, TypeOK
<1> QED
  BY <1>8, <1>9, <1>10 DEF MoneyInv

LEMMA ExitStep == MoneyInv /\ Exit => MoneyInv'
<1> SUFFICES ASSUME MoneyInv, Exit PROVE MoneyInv'
  OBVIOUS
<1>1. TypeOK /\ inbox' = <<>> /\ actor' = "over"
  BY DEF MoneyInv, Exit
<1>2. UNCHANGED <<kind, wallet, row, regs, paid, up, listed, players, pool, order, due,
                  won, gone, free, missed, faults>>
  BY DEF Exit, stored, memory
<1>3. ASSUME NEW r \in Requests
      PROVE  /\ task'[r] \in Tasks /\ task'[r].user = task[r].user
             /\ Carries(task'[r]) <=> Carries(task[r])
  <2>1. task'[r] = IF task[r].at = "waiting" THEN [task[r] EXCEPT !.at = "dropped"] ELSE task[r]
    BY DEF Exit
  <2>2. CASE task[r].at # "waiting"
    BY <1>1, <2>1, <2>2 DEF TypeOK
  <2>3. CASE task[r].at = "waiting"
    <3>1. task[r] \in [user : Users, op : {"register", "unregister"}, at : Places]
      BY <1>1, <2>3, TaskOf
    <3>2. task'[r] = [user |-> task[r].user, op |-> task[r].op, at |-> "dropped"]
      BY <2>1, <2>3, <3>1
    <3> QED
      BY <2>3, <3>1, <3>2 DEF Tasks, Places, Carries
  <2> QED
    BY <2>2, <2>3
<1>4. task' \in [Requests -> Tasks]
  BY <1>3 DEF Exit
<1>5. TypeOK'
  BY <1>1, <1>2, <1>4 DEF TypeOK
<1>6. QueueInv' /\ PlayInv' /\ PoolInv' /\ RegsInv'
  BY <1>1, <1>2 DEF MoneyInv, QueueInv, PlayInv, PoolInv, RegsInv
<1>7. \A u \in Users : UnderWay(u)' = UnderWay(u)
  BY <1>3, SameUnderWay
<1>8. Accounted'
  BY <1>2, <1>7 DEF MoneyInv, Accounted, Spent, Stake
<1> QED
  BY <1>5, <1>6, <1>8 DEF MoneyInv

-----------------------------------------------------------------------------
(* The crash and the startup after it.                                     *)
LEMMA CrashStep == MoneyInv /\ Crash => MoneyInv'
<1> SUFFICES ASSUME MoneyInv, Crash PROVE MoneyInv'
  OBVIOUS
<1>1. TypeOK /\ RegsInv /\ Accounted
  BY DEF MoneyInv
<1>2. UNCHANGED <<kind, wallet, row, regs, paid, won, free, missed>>
  BY DEF Crash, stored
<1>3. /\ players' = {} /\ pool' = 0 /\ order' = <<>> /\ due' = 1 /\ inbox' = <<>>
      /\ up' = FALSE /\ listed' = FALSE /\ actor' = "none"
      /\ task' = [r \in Requests |-> IdleTask]
      /\ gone' = [u \in Users |-> gone[u] + Stake(u) + UnderWay(u)]
  BY DEF Crash
<1>4. \A u \in Users : Stake(u) \in Nat /\ UnderWay(u) \in Nat /\ gone[u] \in Nat
  BY <1>1, UnderWayType, MoneyAssumption DEF Stake, TypeOK
<1>5. gone' \in [Users -> Nat]
  <2> HIDE DEF Stake, UnderWay
  <2> QED
    BY <1>3, <1>4
<1>6. faults' \in 0 .. MaxFaults
  BY <1>1, MoneyAssumption DEF Crash, TypeOK
<1>7. IdleTask \in Tasks /\ 1 \in 1 .. Len(Percents) + 1
  <2>1. Len(Percents) \in Nat
    BY MoneyAssumption
  <2> QED
    BY <2>1 DEF Tasks
<1>8. TypeOK'
  <2>1. task' \in [Requests -> Tasks]
    BY <1>3, <1>7
  <2>2. order' \in Seq(players') /\ inbox' \in Seq(Requests) /\ due' \in 1 .. Len(Percents) + 1
    BY <1>3, <1>7
  <2>3. players' \subseteq Users /\ pool' \in Nat /\ up' \in BOOLEAN /\ listed' \in BOOLEAN
    BY <1>3
  <2> QED
    BY <1>1, <1>2, <1>3, <1>5, <1>6, <2>1, <2>2, <2>3 DEF TypeOK
<1>9. QueueInv' /\ PlayInv'
  BY <1>3 DEF QueueInv, PlayInv
<1>10. PoolInv'
  <2>1. /\ IsFiniteSet(players') /\ Cardinality(players') = 0
        /\ BuyIn * 0 = 0 /\ MaxPlayers \in Nat
    BY <1>3, FS_EmptySet, MoneyAssumption
  <2> QED
    BY <1>3, <2>1 DEF PoolInv
<1>11. RegsInv'
  <2>1. ASSUME NEW u \in regs PROVE gone'[u] >= BuyIn
    <3>1. u \in Users /\ (Stake(u) = BuyIn \/ gone[u] >= BuyIn)
      BY <1>1 DEF RegsInv, Stake, TypeOK
    <3>2. gone'[u] = gone[u] + Stake(u) + UnderWay(u) /\ BuyIn \in Nat
      BY <1>3, <3>1, MoneyAssumption
    <3> HIDE DEF Stake, UnderWay
    <3> QED
      BY <1>4, <3>1, <3>2
  <2> QED
    BY <1>1, <1>2, <2>1 DEF RegsInv
<1>12. Accounted'
  <2>1. ASSUME NEW u \in Users
        PROVE  Spent(u)' = Stake(u)' + UnderWay(u)' + gone'[u] - free'[u]
    <3>1. UnderWay(u)' = 0
      <4>1. {r \in Requests : task'[r].user = u /\ Carries(task'[r])} = {}
        BY <1>3 DEF Carries, IdleTask
      <4>2. UnderWay(u)' = BuyIn * 0
        BY <4>1, FS_EmptySet DEF UnderWay
      <4> QED
        BY <4>2, MoneyAssumption
    <3>2. Stake(u)' = 0
      BY <1>3 DEF Stake
    <3>3. Spent(u)' = Spent(u) /\ free'[u] = free[u] /\ free[u] \in Nat
      BY <1>1, <1>2 DEF Spent, TypeOK
    <3>4. Spent(u) = Stake(u) + UnderWay(u) + gone[u] - free[u]
      BY <1>1 DEF Accounted
    <3>5. gone'[u] = gone[u] + Stake(u) + UnderWay(u)
      BY <1>3
    <3> HIDE DEF Stake, UnderWay, Spent
    <3> QED
      BY <1>4, <3>1, <3>2, <3>3, <3>4, <3>5
  <2> QED
    BY <2>1 DEF Accounted
<1> QED
  BY <1>8, <1>9, <1>10, <1>11, <1>12 DEF MoneyInv

LEMMA StartupStep == MoneyInv /\ Startup => MoneyInv'
<1> SUFFICES ASSUME MoneyInv, Startup PROVE MoneyInv'
  OBVIOUS
<1> DEFINE back(us) == [u \in Users |-> IF u \in us THEN BuyIn ELSE 0]
           refunded(us) == /\ row' = "Cancelled"
                           /\ wallet' = [u \in Users |-> wallet[u] + back(us)[u]]
                           /\ free' = [u \in Users |-> free[u] + back(us)[u]]
<1>1. TypeOK /\ Accounted
  BY DEF MoneyInv
<1>2. UNCHANGED <<kind, regs, paid, listed, actor, players, pool, order, due, inbox, task,
                  won, gone, missed>> /\ up' = TRUE
  BY DEF Startup, memory
<1>3. faults' \in 0 .. MaxFaults
  <2>1. \/ faults' = faults
        \/ faults < MaxFaults /\ faults' = faults + 1
    BY DEF Startup, Write
  <2> QED
    BY <1>1, <2>1, MoneyAssumption DEF TypeOK
<1>4. \/ UNCHANGED <<row, wallet, free>>
      \/ \E us \in SUBSET (regs \ paid) : refunded(us)
  BY DEF Startup, Write
<1>5. /\ row' \in {row, "Cancelled"}
      /\ wallet' \in [Users -> Nat] /\ free' \in [Users -> Nat]
      /\ \A u \in Users : wallet'[u] - wallet[u] = free'[u] - free[u]
  <2>1. wallet \in [Users -> Nat] /\ free \in [Users -> Nat] /\ BuyIn \in Nat
    BY <1>1, MoneyAssumption DEF TypeOK
  <2>2. ASSUME UNCHANGED <<row, wallet, free>>
        PROVE  <1>5!:
    BY <2>1, <2>2
  <2>3. ASSUME NEW us \in SUBSET (regs \ paid), refunded(us)
        PROVE  <1>5!:
    <3>1. \A u \in Users : back(us)[u] \in Nat
      BY <2>1
    <3>2. /\ wallet' = [u \in Users |-> wallet[u] + back(us)[u]]
          /\ free' = [u \in Users |-> free[u] + back(us)[u]]
          /\ row' = "Cancelled"
      BY <2>3
    <3> HIDE DEF back, refunded
    <3> QED
      BY <2>1, <3>1, <3>2
  <2> HIDE DEF refunded
  <2> QED
    BY <1>4, <2>2, <2>3
<1>6. TypeOK'
  BY <1>1, <1>2, <1>3, <1>5 DEF TypeOK
<1>7. QueueInv' /\ PlayInv' /\ PoolInv' /\ RegsInv'
  BY <1>2 DEF MoneyInv, QueueInv, PlayInv, PoolInv, RegsInv
<1>8. Accounted'
  <2>1. ASSUME NEW v \in Users
        PROVE  /\ (won'[v] - won[v]) - (wallet'[v] - wallet[v])
                    = (Stake(v)' - Stake(v)) + (UnderWay(v)' - UnderWay(v))
                      + (gone'[v] - gone[v]) - (free'[v] - free[v])
               /\ UnderWay(v)' \in Nat
    <3>1. UnderWay(v)' = UnderWay(v) /\ UnderWay(v) \in Nat
      BY <1>2, UnderWayType DEF UnderWay
    <3>2. Stake(v)' = Stake(v) /\ Stake(v) \in Nat
      BY <1>2, MoneyAssumption DEF Stake
    <3>3. won'[v] = won[v] /\ gone'[v] = gone[v]
      BY <1>2
    <3>4. {wallet[v], wallet'[v], won[v], gone[v], free[v], free'[v]} \subseteq Nat
      BY <1>1, <1>5 DEF TypeOK
    <3> HIDE DEF UnderWay, Stake
    <3> QED
      BY <1>5, <3>1, <3>2, <3>3, <3>4
  <2> QED
    BY <1>1, <1>6, <2>1, Balanced DEF TypeOK
<1> QED
  BY <1>6, <1>7, <1>8 DEF MoneyInv

-----------------------------------------------------------------------------
LEMMA InitInv == Init => MoneyInv
<1> SUFFICES ASSUME Init PROVE MoneyInv
  OBVIOUS
<1>1. Len(Percents) \in Nat /\ 0 \in 0 .. MaxFaults /\ MaxPlayers \in Nat
  BY MoneyAssumption
<1>2. IdleTask \in Tasks
  BY DEF Tasks
<1>3. TypeOK
  <2>1. task \in [Requests -> Tasks] /\ wallet \in [Users -> Nat]
    BY <1>2, MoneyAssumption DEF Init
  <2>2. order \in Seq(players) /\ inbox \in Seq(Requests) /\ due \in 1 .. Len(Percents) + 1
    BY <1>1 DEF Init
  <2> QED
    BY <1>1, <2>1, <2>2 DEF Init, TypeOK
<1>4. QueueInv /\ PlayInv /\ RegsInv
  BY DEF Init, QueueInv, PlayInv, RegsInv
<1>5. PoolInv
  <2>1. IsFiniteSet(players) /\ Cardinality(players) = 0 /\ BuyIn * 0 = 0
    BY FS_EmptySet, MoneyAssumption DEF Init
  <2> QED
    BY <1>1, <2>1 DEF Init, PoolInv
<1>6. Accounted
  <2>1. ASSUME NEW u \in Users PROVE Spent(u) = Stake(u) + UnderWay(u) + gone[u] - free[u]
    <3>1. {r \in Requests : task[r].user = u /\ Carries(task[r])} = {}
      BY DEF Init, Carries, IdleTask
    <3>2. UnderWay(u) = BuyIn * 0
      BY <3>1, FS_EmptySet DEF UnderWay
    <3>3. Stake(u) = 0 /\ gone[u] = 0 /\ free[u] = 0 /\ won[u] = 0 /\ wallet[u] = Wallets[u]
      BY DEF Init, Stake
    <3> HIDE DEF UnderWay, Stake
    <3> QED
      BY <3>2, <3>3, MoneyAssumption DEF Spent
  <2> QED
    BY <2>1 DEF Accounted
<1> QED
  BY <1>3, <1>4, <1>5, <1>6 DEF MoneyInv

LEMMA NextInv == MoneyInv /\ [Next]_vars => MoneyInv'
<1> SUFFICES ASSUME MoneyInv, [Next]_vars PROVE MoneyInv'
  OBVIOUS
<1>1. CASE UNCHANGED vars
  <2>1. TypeOK' /\ PlayInv'
    BY <1>1 DEF MoneyInv, vars, stored, memory, TypeOK, PlayInv
  <2> QED
    BY <1>1, <2>1, StatusStep DEF vars, stored, memory
<1>2. CASE \E r \in Requests, u \in Users, op \in {"register", "unregister"} : Call(r, u, op)
  BY <1>2, CallStep
<1>3. CASE ServiceStep
  BY <1>3, DebitStep, SendStep, SettleStep DEF ServiceStep
<1>4. CASE ActorStep
  BY <1>4, RegisterStep, UnregisterStep, StartStep, PayPositionStep, CompleteStep, ExitStep
     DEF ActorStep
<1>5. CASE \E u \in Users : Eliminate(u)
  BY <1>5, EliminateStep
<1>6. CASE Delist \/ Crash \/ Startup
  BY <1>6, DelistStep, CrashStep, StartupStep
<1> QED
  BY <1>1, <1>2, <1>3, <1>4, <1>5, <1>6 DEF Next

(* The inductive invariant: with the types, the actor's queue, the pool    *)
(* and the stored registrations.                                           *)
THEOREM MoneyInvariant == Spec => []MoneyInv
<1> QED
  BY InitInv, NextInv, PTL DEF Spec

(* Whatever writes fail and wherever the process stops, what a user has    *)
(* spent is his seat, his requests under way, or a counted failure         *)
(* (TournamentService, the actors, settle_crashed_tournaments).            *)
THEOREM EveryBuyInIsAccounted == Spec => []Accounted
<1>1. MoneyInv => Accounted
  BY DEF MoneyInv
<1> QED
  BY <1>1, MoneyInvariant, PTL

(* A stored registration is of a user who has been charged, whatever has   *)
(* failed: the rows from which startup pays back (crash_recovery.rs:58)    *)
(* name nobody who has not paid.                                           *)
THEOREM CommitmentsAreCharged == Spec => []CommittedIsCharged
<1>1. MoneyInv => CommittedIsCharged
  <2>1. SUFFICES ASSUME MoneyInv, NEW u \in regs PROVE Spent(u) + free[u] >= BuyIn
    BY DEF CommittedIsCharged
  <2>2. u \in Users /\ gone[u] \in Nat /\ free[u] \in Nat /\ BuyIn \in Nat
    BY <2>1, MoneyAssumption DEF MoneyInv, TypeOK
  <2>3. UnderWay(u) \in Nat /\ Stake(u) \in Nat /\ (Stake(u) = BuyIn \/ gone[u] >= BuyIn)
    BY <2>1, <2>2, UnderWayType DEF MoneyInv, RegsInv, Stake
  <2>4. Spent(u) = Stake(u) + UnderWay(u) + gone[u] - free[u]
    BY <2>1, <2>2 DEF MoneyInv, Accounted
  <2> HIDE DEF UnderWay, Stake, Spent
  <2> QED
    BY <2>2, <2>3, <2>4
<1> QED
  BY <1>1, MoneyInvariant, PTL

-----------------------------------------------------------------------------
(* The prizes.                                                             *)
Prizes == [p \in DOMAIN Percents |-> Payout(p)]

(* What has been credited, with what nobody could have, is the prizes of   *)
(* the positions paid so far.                                              *)
PrizeInv ==
  /\ actor \in {"registering", "starting", "running"} => due = 1
  /\ actor \in {"ended", "over"} => due = Len(Percents) + 1
  /\ actor # "none" => SumOver(won, Users) + missed = SumOver(Prizes, 1 .. due - 1)

LEMMA PrizeTypes ==
  ASSUME TypeOK
  PROVE  /\ \A p \in 1 .. Len(Percents) : Prizes[p] \in Int
         /\ SumOver(won, Users) \in Int /\ missed \in Int
<1>1. \A p \in 1 .. Len(Percents) : Prizes[p] \in Int
  BY Positions, PayoutType DEF Prizes
<1>2. \A u \in Users : won[u] \in Int
  BY DEF TypeOK
<1>3. SumOver(won, Users) \in Int
  BY <1>2, MoneyAssumption, SumIsInt
<1> QED
  BY <1>1, <1>3 DEF TypeOK

LEMMA InitPrizes == Init => PrizeInv
<1> SUFFICES ASSUME Init PROVE PrizeInv
  OBVIOUS
<1>1. \A u \in Users : won[u] = 0
  BY DEF Init
<1>2. SumOver(won, Users) = SumOver(won, {})
  BY <1>1, MoneyAssumption, SumSkipsZeros
<1>3. 1 .. due - 1 = {} /\ due = 1 /\ missed = 0 /\ actor = "registering"
  BY DEF Init
<1>4. SumOver(Prizes, 1 .. due - 1) = 0
  BY <1>3, SumOfNone
<1> QED
  BY <1>2, <1>3, <1>4, SumOfNone DEF PrizeInv

(* A step that pays nothing: while the pool can change, none is due yet.   *)
LEMMA NothingPaid ==
  ASSUME PrizeInv, UNCHANGED <<won, missed, due>>,
         actor' # "none" => actor # "none",
         actor' \in {"registering", "starting", "running"} => due = 1,
         actor' \in {"ended", "over"} => due = Len(Percents) + 1,
         pool' = pool \/ due = 1
  PROVE  PrizeInv'
<1>1. CASE pool' = pool
  <2>1. Prizes' = Prizes
    BY <1>1 DEF Prizes, Payout
  <2> QED
    BY <2>1 DEF PrizeInv
<1>2. CASE due = 1
  <2>1. 1 .. due - 1 = {} /\ 1 .. due' - 1 = {}
    BY <1>2
  <2>2. SumOver(Prizes, 1 .. due - 1) = 0 /\ SumOver(Prizes', 1 .. due' - 1) = 0
    BY <2>1, SumOfNone
  <2> QED
    BY <2>2 DEF PrizeInv
<1> QED
  BY <1>1, <1>2

LEMMA PositionPaid ==
  ASSUME MoneyInv, PrizeInv, PayPosition
  PROVE  PrizeInv'
<1>1. /\ TypeOK /\ actor = "paying" /\ actor' = actor /\ pool' = pool
      /\ due \in 1 .. Len(Percents) /\ due' = due + 1 /\ Len(Percents) \in Nat
  BY Positions DEF MoneyInv, PayPosition, TypeOK
<1> DEFINE prize == Payout(due)
<1>2. prize \in Int
  BY <1>1, PayoutType
<1>3. won \in [Users -> Int] /\ missed \in Int /\ SumOver(won, Users) \in Int
  BY <1>1, PrizeTypes DEF TypeOK
<1>4. SumOver(won', Users) + missed' = SumOver(won, Users) + missed + prize
  <2>1. ASSUME missed' = missed + prize, won' = won
        PROVE  SumOver(won', Users) + missed' = SumOver(won, Users) + missed + prize
    <3> HIDE DEF prize
    <3> QED
      BY <1>2, <1>3, <2>1
  <2>2. ASSUME NEW u \in Holders(due), missed' = missed, won' = [won EXCEPT ![u] = @ + prize]
        PROVE  SumOver(won', Users) + missed' = SumOver(won, Users) + missed + prize
    <3>1. u \in Users
      BY <1>1, <2>2 DEF Holders, Survivors, TypeOK
    <3> HIDE DEF prize
    <3>2. SumOver(won', Users) = SumOver(won, Users) + prize
      BY <1>2, <1>3, <2>2, <3>1, MoneyAssumption, SumUpdates
    <3> QED
      BY <1>2, <1>3, <2>2, <3>2
  <2>3. \/ missed' = missed + prize /\ won' = won
        \/ \E u \in Holders(due) : missed' = missed /\ won' = [won EXCEPT ![u] = @ + prize]
    <3>1. CASE /\ Holders(due) = {} /\ missed' = missed + prize
               /\ UNCHANGED <<wallet, won, paid, faults>>
      BY <3>1
    <3>2. ASSUME NEW u \in Holders(due), NEW failed \in SUBSET {"credit", "record"},
                 IF "credit" \in failed
                 THEN missed' = missed + prize /\ UNCHANGED <<wallet, won>>
                 ELSE /\ wallet' = [wallet EXCEPT ![u] = @ + prize]
                      /\ won' = [won EXCEPT ![u] = @ + prize]
                      /\ UNCHANGED missed
          PROVE  \/ missed' = missed + prize /\ won' = won
                 \/ \E v \in Holders(due) : missed' = missed /\ won' = [won EXCEPT ![v] = @ + prize]
      BY <3>2
    <3> QED
      BY <3>1, <3>2 DEF PayPosition
  <2> QED
    BY <2>1, <2>2, <2>3
<1>5. Prizes' = Prizes
  BY <1>1 DEF Prizes, Payout
<1>6. SumOver(Prizes, 1 .. due) = prize + SumOver(Prizes, 1 .. due - 1)
  <2>1. IsFiniteSet(1 .. due) /\ due \in 1 .. due /\ (1 .. due) \ {due} = 1 .. due - 1
    <3>1. due \in Nat /\ due >= 1
      BY <1>1
    <3>2. IsFiniteSet(1 .. due)
      BY <3>1, FS_Interval
    <3> QED
      BY <3>1, <3>2
  <2>2. \A p \in 1 .. due : Prizes[p] \in Int
    BY <1>1, PrizeTypes
  <2>3. Prizes[due] = prize
    BY <1>1, Positions DEF Prizes
  <2>4. SumOver(Prizes, 1 .. due) = Prizes[due] + SumOver(Prizes, (1 .. due) \ {due})
    BY <2>1, <2>2, SumRemoves
  <2> QED
    BY <2>1, <2>3, <2>4
<1>7. SumOver(Prizes, 1 .. due - 1) \in Int
  <2>1. IsFiniteSet(1 .. due - 1)
    BY <1>1, FS_Interval
  <2>2. \A p \in 1 .. due - 1 : Prizes[p] \in Int
    BY <1>1, PrizeTypes
  <2> QED
    BY <2>1, <2>2, SumIsInt
<1>8. 1 .. due' - 1 = 1 .. due
  BY <1>1
<1>9. SumOver(Prizes', 1 .. due' - 1) = prize + SumOver(Prizes, 1 .. due - 1)
  BY <1>5, <1>6, <1>8
<1>10. SumOver(won, Users) + missed = SumOver(Prizes, 1 .. due - 1)
  BY <1>1 DEF PrizeInv
<1> HIDE DEF prize
<1>11. SumOver(won', Users) + missed' = SumOver(Prizes', 1 .. due' - 1)
  BY <1>2, <1>4, <1>7, <1>9, <1>10
<1> QED
  BY <1>1, <1>11 DEF PrizeInv

LEMMA NextPrizes == MoneyInv /\ PrizeInv /\ [Next]_vars => PrizeInv'
<1> SUFFICES ASSUME MoneyInv, PrizeInv, [Next]_vars PROVE PrizeInv'
  OBVIOUS
<1>1. CASE UNCHANGED vars
  BY <1>1, NothingPaid DEF vars, memory, PrizeInv
<1>2. ASSUME NEW r \in Requests, NEW u \in Users, NEW op \in {"register", "unregister"}, Call(r, u, op)
      PROVE  PrizeInv'
  BY <1>2, NothingPaid DEF Call, memory, PrizeInv
<1>3. ASSUME NEW r \in Requests, Debit(r) \/ Send(r) \/ Settle(r)
      PROVE  PrizeInv'
  <2>1. UNCHANGED <<won, missed, due, actor, pool>>
    BY <1>3 DEF Debit, Send, Settle, memory
  <2> QED
    BY <2>1, NothingPaid DEF PrizeInv
<1>4. ASSUME NEW r \in Requests, Register(r)
      PROVE  PrizeInv'
  <2>1. UNCHANGED <<won, missed, due>> /\ actor \in {"registering", "running"}
    BY <1>4 DEF Register, Reads
  <2>2. actor' \in {actor, "running", "starting"}
    BY <1>4 DEF Register, Enter, Write
  <2> QED
    BY <2>1, <2>2, NothingPaid DEF PrizeInv
<1>5. ASSUME NEW r \in Requests, Unregister(r)
      PROVE  PrizeInv'
  <2>1. UNCHANGED <<won, missed, due, actor>> /\ actor \in {"registering", "running"}
    BY <1>5 DEF Unregister, Reads
  <2> QED
    BY <2>1, NothingPaid DEF PrizeInv
<1>6. CASE Start
  BY <1>6, NothingPaid DEF Start, memory, PrizeInv
<1>7. CASE PayPosition
  BY <1>7, PositionPaid
<1>8. CASE Complete
  <2>1. due \in 1 .. Len(Percents) + 1 /\ Len(Percents) \in Nat /\ due > Len(Percents)
    BY <1>8, Positions DEF Complete, MoneyInv, TypeOK
  <2>2. due = Len(Percents) + 1
    BY <2>1
  <2> QED
    BY <1>8, <2>2, NothingPaid DEF Complete, memory
<1>9. CASE Exit
  BY <1>9, NothingPaid DEF Exit, memory, PrizeInv
<1>10. ASSUME NEW u \in Users, Eliminate(u)
       PROVE  PrizeInv'
  BY <1>10, NothingPaid DEF Eliminate, PrizeInv
<1>11. CASE Delist
  BY <1>11, NothingPaid DEF Delist, memory, PrizeInv
<1>12. CASE Crash
  BY <1>12 DEF Crash, PrizeInv
<1>13. CASE Startup
  BY <1>13, NothingPaid DEF Startup, memory, PrizeInv
<1> QED
  BY <1>1, <1>2, <1>3, <1>4, <1>5, <1>6, <1>7, <1>8, <1>9, <1>10, <1>11, <1>12, <1>13
     DEF Next, ServiceStep, ActorStep

LEMMA PrizeInvariant == Spec => [](MoneyInv /\ PrizeInv)
BY InitInv, InitPrizes, NextInv, NextPrizes, PTL DEF Spec

(* What calculate_payouts gives out of a pool: all of it, or the shares if *)
(* they are more.                                                          *)
LEMMA PrizesOfPool ==
  ASSUME TypeOK
  PROVE  SumOver(Prizes, DOMAIN Percents) = IF pool > Total(pool) THEN pool ELSE Total(pool)
<1> DEFINE rest == [p \in DOMAIN Percents |->
                     IF p = 1 /\ pool > Total(pool) THEN pool - Total(pool) ELSE 0]
           left == IF pool > Total(pool) THEN pool - Total(pool) ELSE 0
<1>1. pool \in Nat /\ Total(pool) \in Nat /\ Total(pool) = SumOver(Shares(pool), DOMAIN Percents)
  BY TotalType DEF TypeOK
<1>2. 1 \in DOMAIN Percents
  <2>1. Len(Percents) # 0
    BY MoneyAssumption
  <2> QED
    BY <2>1, Positions
<1>3. \A p \in DOMAIN Percents : /\ Shares(pool)[p] \in Int /\ rest[p] \in Int
                                 /\ Prizes[p] = Shares(pool)[p] + rest[p]
  <2>1. \A p \in DOMAIN Percents : Shares(pool)[p] \in Int
    BY <1>1, ShareType
  <2> QED
    BY <1>1, <2>1 DEF Prizes, Payout
<1>4. rest[1] = left /\ left \in Int /\ \A p \in (DOMAIN Percents) \ {1} : rest[p] = 0
  BY <1>1, <1>2
<1> HIDE DEF rest, left
<1>5. SumOver(rest, DOMAIN Percents) = left
  <2>1. IsFiniteSet(DOMAIN Percents) /\ rest[1] \in Int
    BY <1>4, Positions
  <2> QED
    BY <1>2, <1>4, <2>1, SumOfOne
<1>6. SumOver(Prizes, DOMAIN Percents)
        = SumOver(Shares(pool), DOMAIN Percents) + SumOver(rest, DOMAIN Percents)
  BY <1>3, Positions, SumAdds
<1> QED
  BY <1>1, <1>5, <1>6 DEF left

LEMMA TimesMonotone ==
  ASSUME NEW a \in Nat, NEW b \in Nat, NEW c \in Nat, b <= c
  PROVE  a * b <= a * c /\ a * b \in Nat
<1>1. PICK d \in Nat : c = b + d
  <2>1. c - b \in Nat /\ c = b + (c - b)
    OBVIOUS
  <2> QED
    BY <2>1
<1>2. a * b \in Nat /\ a * d \in Nat
  BY OneMore
<1>3. a * (b + d) = a * b + a * d
  OBVIOUS
<1> QED
  BY <1>1, <1>2, <1>3

(* Percentages of at most the whole give out at most the pool.             *)
LEMMA SharesWithinPool ==
  ASSUME NEW q \in Nat, SumOver(Percents, DOMAIN Percents) <= 100
  PROVE  Total(q) <= q
<1> DEFINE hundred == [p \in DOMAIN Percents |-> 100 * Shares(q)[p]]
           whole   == [p \in DOMAIN Percents |-> q * Percents[p]]
           sum     == SumOver(Percents, DOMAIN Percents)
<1>1. Total(q) = SumOver(Shares(q), DOMAIN Percents) /\ Total(q) \in Nat
  BY TotalType
<1>2. \A p \in DOMAIN Percents : Shares(q)[p] \in Int /\ Percents[p] \in Int
  BY ShareType, Positions
<1>3. \A p \in DOMAIN Percents : hundred[p] = 100 * Shares(q)[p] /\ whole[p] = q * Percents[p]
  OBVIOUS
<1>4. ASSUME NEW p \in DOMAIN Percents
      PROVE  hundred[p] \in Int /\ whole[p] \in Int /\ hundred[p] <= whole[p]
  <2>1. Shares(q)[p] \in Nat /\ 100 * Shares(q)[p] <= q * Percents[p]
    BY ShareType
  <2>2. q * Percents[p] \in Nat
    BY Positions, OneMore
  <2>3. hundred[p] = 100 * Shares(q)[p] /\ whole[p] = q * Percents[p]
    BY <1>3
  <2> HIDE DEF hundred, whole
  <2> QED
    BY <2>1, <2>2, <2>3
<1> HIDE DEF hundred, whole
<1>5. IsFiniteSet(DOMAIN Percents)
  BY Positions
<1>6. SumOver(hundred, DOMAIN Percents) = 100 * Total(q)
  <2>1. SumOver(hundred, DOMAIN Percents) = 100 * SumOver(Shares(q), DOMAIN Percents)
    <3> DEFINE f == Shares(q)
    <3>1. \A p \in DOMAIN Percents : f[p] \in Int /\ hundred[p] = 100 * f[p]
      BY <1>2, <1>3
    <3> HIDE DEF f
    <3>2. 100 \in Int
      OBVIOUS
    <3>3. SumOver(hundred, DOMAIN Percents) = 100 * SumOver(f, DOMAIN Percents)
      BY <1>5, <3>1, <3>2, SumScales
    <3> QED
      BY <3>3 DEF f
  <2> QED
    BY <1>1, <2>1
<1>7. SumOver(whole, DOMAIN Percents) = q * sum
  <2>1. \A p \in DOMAIN Percents : Percents[p] \in Int /\ whole[p] = q * Percents[p]
    BY <1>2, <1>3
  <2>2. q \in Int
    OBVIOUS
  <2> QED
    BY <1>5, <2>1, <2>2, SumScales
<1>8. SumOver(hundred, DOMAIN Percents) <= SumOver(whole, DOMAIN Percents)
  BY <1>4, <1>5, SumIsMonotone
<1>9. sum \in Nat /\ sum <= 100
  BY Positions, SumIsNat
<1> HIDE DEF sum
<1>10. q * sum <= q * 100 /\ q * sum \in Nat
  BY <1>9, TimesMonotone
<1>11. 100 * Total(q) <= q * 100
  BY <1>1, <1>6, <1>7, <1>8, <1>10
<1> QED
  BY <1>1, <1>11

(* At the end what users were credited, with the prizes nobody could have, *)
(* is the pool, or what the shares add up to if the percentages exceed the *)
(* whole, which nothing in the code refuses (calculate_payouts).           *)
PrizesAddUp ==
  actor \in {"ended", "over"} =>
    SumOver(won, Users) + missed = IF pool > Total(pool) THEN pool ELSE Total(pool)

LEMMA PrizesAreGivenOut == MoneyInv /\ PrizeInv => PrizesAddUp
<1> SUFFICES ASSUME MoneyInv, PrizeInv, actor \in {"ended", "over"}
             PROVE  SumOver(won, Users) + missed = IF pool > Total(pool) THEN pool ELSE Total(pool)
  BY DEF PrizesAddUp
<1>1. 1 .. due - 1 = DOMAIN Percents
  BY Positions DEF PrizeInv
<1> QED
  BY <1>1, PrizesOfPool DEF MoneyInv, PrizeInv

THEOREM EveryPrizeIsCounted == Spec => []PrizesAddUp
BY PrizesAreGivenOut, PrizeInvariant, PTL

(* With percentages of at most the whole, as in every structure of the     *)
(* repository, what is given out is the pool, and until the first prize    *)
(* the pool is the buy-ins of the players.                                 *)
THEOREM PoolIsGivenOut ==
  ASSUME SumOver(Percents, DOMAIN Percents) <= 100
  PROVE  Spec => []PoolIsPaidOut
<1>1. MoneyInv /\ PrizesAddUp => PoolIsPaidOut
  <2>1. SUFFICES ASSUME MoneyInv, PrizesAddUp PROVE PoolIsPaidOut
    OBVIOUS
  <2>2. pool = BuyIn * Cardinality(players)
    BY <2>1 DEF MoneyInv, PoolInv
  <2>3. pool \in Nat /\ Total(pool) <= pool /\ Total(pool) \in Nat
    BY <2>1, SharesWithinPool, TotalType DEF MoneyInv, TypeOK
  <2>4. actor \in {"ended", "over"} => SumOver(won, Users) + missed = pool
    BY <2>1, <2>3 DEF PrizesAddUp
  <2> QED
    BY <2>2, <2>4, Zenon DEF PoolIsPaidOut, SumOver
<1> QED
  BY <1>1, PrizesAreGivenOut, PrizeInvariant, PTL

-----------------------------------------------------------------------------
(* The director of a tournament of several tables.                         *)
Two(S)   == \E a, b \in S : a # b
Three(S) == \E a, b, c \in S : a # b /\ a # c /\ b # c

(* The players of a table as the director has it.                          *)
Crowd(t) == {u \in survivors : home[u] = t}

(* Lists of some of the players, none of them twice.                       *)
List(s) == s \in Seq(Players) /\ IsInjective(s)
Lists(lists) == lists \in [Tables -> Seq(Players)] /\ \A t \in Tables : IsInjective(lists[t])

-----------------------------------------------------------------------------
(* Lists of players.                                                       *)
LEMMA PlayersAreFinite ==
  ASSUME NEW S \in SUBSET Players
  PROVE  IsFiniteSet(S) /\ Cardinality(S) \in Nat /\ Cardinality(S) <= Cardinality(Players)
<1>1. IsFiniteSet(Players)
  BY MttAssumption
<1>2. IsFiniteSet(S) /\ Cardinality(S) <= Cardinality(Players)
  BY <1>1, FS_Subset
<1> QED
  BY <1>2, FS_CardinalityType

LEMMA SomeTables == NumTables \in Nat /\ NumTables > 0 /\ Cardinality(Players) \in Nat
<1>1. Cardinality(Players) \in Nat /\ Cardinality(Players) >= 2
  BY PlayersAreFinite, MttAssumption
<1>2. Capacity \in Nat /\ Capacity > 2
  BY MttAssumption
<1> DEFINE a == Cardinality(Players) + Capacity - 1
<1>3. a \in Nat /\ a >= Capacity
  BY <1>1, <1>2
<1> HIDE DEF a
<1>4. a \div Capacity \in Nat /\ a % Capacity \in 0 .. Capacity - 1
      /\ a = ((a \div Capacity) * Capacity) + (a % Capacity)
  BY <1>2, <1>3, Division
<1>5. a \div Capacity # 0
  <2>1. SUFFICES ASSUME a \div Capacity = 0 PROVE FALSE
    OBVIOUS
  <2>2. a = (0 * Capacity) + (a % Capacity)
    BY <1>4, <2>1
  <2> QED
    BY <1>2, <1>3, <1>4, <2>2
<1> QED
  BY <1>1, <1>4, <1>5 DEF a, NumTables

LEMMA ListCounts ==
  ASSUME NEW s, List(s)
  PROVE  /\ Range(s) \in SUBSET Players /\ Len(s) \in Nat /\ DOMAIN s = 1 .. Len(s)
         /\ Cardinality(Range(s)) = Len(s) /\ Len(s) <= Cardinality(Players)
<1>1. s \in Seq(Players) /\ IsInjective(s) /\ Len(s) \in Nat /\ DOMAIN s = 1 .. Len(s)
  BY DEF List
<1>2. s \in [1 .. Len(s) -> Range(s)] /\ Range(s) \in SUBSET Players
  BY <1>1 DEF Range
<1>3. s \in Bijection(1 .. Len(s), Range(s))
  BY <1>1, <1>2 DEF Bijection, Injection, Surjection, Range
<1>4. ExistsBijection(1 .. Len(s), Range(s))
  BY <1>3 DEF ExistsBijection
<1>5. Cardinality(Range(s)) = Len(s)
  BY <1>1, <1>4, FS_CountingElements
<1> QED
  BY <1>1, <1>2, <1>5, PlayersAreFinite

LEMMA ShortLists ==
  ASSUME NEW s, List(s)
  PROVE  (Short(s) <=> ~Three(Range(s))) /\ (s = <<>> <=> Range(s) = {})
<1>1. s \in Seq(Players) /\ \A i, j \in DOMAIN s : s[i] = s[j] => i = j
  BY DEF List, IsInjective
<1>2. Len(s) \in Nat /\ DOMAIN s = 1 .. Len(s)
  BY <1>1
<1>3. ASSUME Len(s) > 2 PROVE Three(Range(s))
  <2>1. 1 \in DOMAIN s /\ 2 \in DOMAIN s /\ 3 \in DOMAIN s
    BY <1>2, <1>3
  <2>2. s[1] # s[2] /\ s[1] # s[3] /\ s[2] # s[3]
    BY <1>1, <2>1
  <2> QED
    BY <2>1, <2>2 DEF Three, Range
<1>4. ASSUME Three(Range(s)) PROVE Len(s) > 2
  <2>1. PICK a, b, c \in Range(s) : a # b /\ a # c /\ b # c
    BY <1>4 DEF Three
  <2>2. PICK i, j, k \in DOMAIN s : s[i] = a /\ s[j] = b /\ s[k] = c
    BY DEF Range
  <2>3. i # j /\ i # k /\ j # k
    BY <2>1, <2>2
  <2> QED
    BY <1>2, <2>3
<1>5. s = <<>> <=> Range(s) = {}
  <2>1. ASSUME s = <<>> PROVE Range(s) = {}
    BY <2>1 DEF Range
  <2>2. ASSUME Range(s) = {} PROVE s = <<>>
    <3>1. DOMAIN s = {}
      BY <2>2 DEF Range
    <3> QED
      BY <1>1, <1>2, <3>1
  <2> QED
    BY <2>1, <2>2
<1> QED
  BY <1>2, <1>3, <1>4, <1>5 DEF Short

(* What is kept of a list is a list.                                       *)
LEMMA KeptIs ==
  ASSUME NEW X, NEW s \in Seq(X), IsInjective(s), NEW S
  PROVE  /\ Keeping(s, S) \in Seq(X) /\ IsInjective(Keeping(s, S))
         /\ Range(Keeping(s, S)) = Range(s) \cap S
<1>1. \A i, j \in DOMAIN s : s[i] = s[j] => i = j
  BY DEF IsInjective
<1> DEFINE g == Keeping(s, S)
<1>a. g \in Seq(X) /\ {g[k] : k \in DOMAIN g} = {s[i] : i \in DOMAIN s} \cap S
  BY KeepingIsPart
<1>b. (\A i, j \in DOMAIN s : s[i] = s[j] => i = j) =>
        \A i, j \in DOMAIN g : g[i] = g[j] => i = j
  BY KeepingIsPart
<1>2. \A i, j \in DOMAIN g : g[i] = g[j] => i = j
  BY <1>1, <1>b
<1> HIDE DEF g
<1>3. IsInjective(g)
  BY <1>2 DEF IsInjective
<1>4. Range(g) = Range(s) \cap S
  BY <1>a, Zenon DEF Range
<1> QED
  BY <1>a, <1>3, <1>4 DEF g

LEMMA StruckIs ==
  ASSUME NEW s, List(s), NEW B
  PROVE  List(Struck(s, B)) /\ Range(Struck(s, B)) = Range(s) \ B
<1>1. s \in Seq(Players) /\ IsInjective(s) /\ Range(s) \subseteq Players
  BY ListCounts DEF List
<1>2. /\ Struck(s, B) \in Seq(Players) /\ IsInjective(Struck(s, B))
      /\ Range(Struck(s, B)) = Range(s) \cap (Players \ B)
  BY <1>1, KeptIs DEF Struck
<1> QED
  BY <1>1, <1>2 DEF List

LEMMA AddedIs ==
  ASSUME NEW s, List(s), NEW u \in Players, u \notin Range(s)
  PROVE  List(Append(s, u)) /\ Range(Append(s, u)) = Range(s) \cup {u}
<1> DEFINE n == Len(s)
           f == Append(s, u)
<1>1. /\ s \in Seq(Players) /\ n \in Nat /\ DOMAIN s = 1 .. n
      /\ \A i, j \in DOMAIN s : s[i] = s[j] => i = j
      /\ \A i \in DOMAIN s : s[i] # u
  BY DEF List, IsInjective, Range
<1>2. /\ f \in Seq(Players) /\ DOMAIN f = 1 .. n + 1 /\ f[n + 1] = u
      /\ \A i \in DOMAIN s : f[i] = s[i]
  BY <1>1
<1> HIDE DEF f, n
<1>3. \A i \in DOMAIN f : i \in DOMAIN s \/ i = n + 1
  BY <1>1, <1>2
<1>3a. n + 1 \in DOMAIN f /\ \A i \in DOMAIN s : i \in DOMAIN f
  BY <1>1, <1>2
<1>4. \A i, j \in DOMAIN f : f[i] = f[j] => i = j
  BY <1>1, <1>2, <1>3
<1>5. Range(f) = Range(s) \cup {u}
  BY <1>2, <1>3, <1>3a DEF Range
<1> QED
  BY <1>2, <1>4, <1>5 DEF List, IsInjective, f
-----------------------------------------------------------------------------
(* The players of some tables, in a list.                                  *)
Disjoint(lists) == \A s, t \in Listed : s # t => Range(lists[s]) \cap Range(lists[t]) = {}

(* Everybody at the tables ts is in the list.                              *)
Covers(them, ts, lists) ==
  \A t \in ts : \A u \in Range(lists[t]) : \E k \in DOMAIN them : them[k].user = u

LEMMA ListsAre ==
  ASSUME NEW lists, Lists(lists), NEW t \in Tables
  PROVE  /\ List(lists[t]) /\ Len(lists[t]) \in Nat /\ DOMAIN lists[t] = 1 .. Len(lists[t])
         /\ Len(lists[t]) <= Cardinality(Players)
         /\ \A i \in DOMAIN lists[t] : lists[t][i] \in Players
         /\ \A i, j \in DOMAIN lists[t] : lists[t][i] = lists[t][j] => i = j
<1>1. lists[t] \in Seq(Players) /\ IsInjective(lists[t])
  BY DEF Lists
<1>2. List(lists[t])
  BY <1>1 DEF List
<1> QED
  BY <1>1, <1>2, ListCounts DEF IsInjective

LEMMA PlayersAtTables ==
  ASSUME tables \in Seq(Tables), IsInjective(tables), NEW lists, Lists(lists), Disjoint(lists),
         NEW ts \in SUBSET Listed, NEW them, them = PlayersAt(ts, lists)
  PROVE  /\ Len(them) \in Nat /\ DOMAIN them = 1 .. Len(them)
         /\ \A k \in DOMAIN them : /\ them[k].from \in ts /\ them[k].user \in Players
                                   /\ them[k].user \in Range(lists[them[k].from])
         /\ \A j, k \in DOMAIN them : them[j].user = them[k].user => j = k
         /\ Covers(them, ts, lists)
<1> DEFINE N == Cardinality(Players)
           P == PlacesAt(ts, lists)
           R == Before(P)
           placing == Sorted(P, R)
           m == Cardinality(P)
<1>9. them = [k \in DOMAIN placing |-> [user |-> lists[tables[placing[k][1]]][placing[k][2]],
                                       from |-> tables[placing[k][1]]]]
  BY DEF PlayersAt
<1>a. \A p : p \in P <=> /\ p \in (DOMAIN tables) \X (1 .. N)
                         /\ tables[p[1]] \in ts /\ p[2] \in DOMAIN lists[tables[p[1]]]
  BY Zenon DEF PlacesAt
<1> HIDE DEF P, placing
<1>b. \A pq : pq \in R <=> /\ pq \in P \X P
                           /\ pq[1][1] < pq[2][1] \/ (pq[1][1] = pq[2][1] /\ pq[1][2] < pq[2][2])
  BY DEF Before
<1> HIDE DEF R
<1>1. /\ N \in Nat /\ Len(tables) \in Nat /\ DOMAIN tables = 1 .. Len(tables)
      /\ \A i \in DOMAIN tables : tables[i] \in Tables
      /\ \A i, j \in DOMAIN tables : tables[i] = tables[j] => i = j
      /\ \A i \in DOMAIN tables : tables[i] \in Listed
      /\ \A t \in Listed : \E i \in DOMAIN tables : tables[i] = t
  BY SomeTables DEF IsInjective, Listed, Range
<1>2. IsFiniteSet(P) /\ m \in Nat
  <2>1. IsFiniteSet(1 .. N) /\ IsFiniteSet(DOMAIN tables)
    BY <1>1, FS_Interval
  <2>2. IsFiniteSet((DOMAIN tables) \X (1 .. N))
    BY <2>1, FS_Product
  <2>3. P \in SUBSET ((DOMAIN tables) \X (1 .. N))
    BY <1>a
  <2>4. IsFiniteSet(P)
    BY <2>2, <2>3, FS_Subset
  <2> QED
    BY <2>4, FS_CardinalityType
<1>3. \A p \in P : /\ p[1] \in 1 .. Len(tables) /\ p[2] \in 1 .. N /\ p = <<p[1], p[2]>>
                   /\ tables[p[1]] \in ts /\ tables[p[1]] \in Tables /\ tables[p[1]] \in Listed
                   /\ p[2] \in DOMAIN lists[tables[p[1]]]
  BY <1>1, <1>a
<1>4. \A i \in DOMAIN tables, j \in 1 .. N :
        tables[i] \in ts /\ j \in DOMAIN lists[tables[i]] => <<i, j>> \in P
  BY <1>a
<1>5. \A p, q \in P : <<p, q>> \in R <=> (p[1] < q[1] \/ (p[1] = q[1] /\ p[2] < q[2]))
  <2> TAKE p, q \in P
  <2>1. <<p, q>> \in P \X P /\ <<p, q>>[1] = p /\ <<p, q>>[2] = q
    OBVIOUS
  <2> DEFINE pq == <<p, q>>
  <2>2. /\ pq \in P \X P /\ pq[1] = p /\ pq[2] = q
    BY <2>1
  <2> HIDE DEF pq
  <2>3. pq \in R <=> (p[1] < q[1] \/ (p[1] = q[1] /\ p[2] < q[2]))
    BY <1>b, <2>2, Zenon
  <2> QED
    BY <2>3 DEF pq
<1>6. \A p, q \in P : p[1] = q[1] /\ p[2] = q[2] => p = q
  BY <1>3
<1>7. StrictlyOrders(R, P)
  <2>1. \A p \in P : p[1] \in Int /\ p[2] \in Int
    BY <1>1, <1>3
  <2>2. \A p \in P : <<p, p>> \notin R
    BY <1>5, <2>1
  <2>3. \A p, q, r \in P : <<p, q>> \in R /\ <<q, r>> \in R => <<p, r>> \in R
    BY <1>5, <2>1
  <2>4. \A p, q \in P : p = q \/ <<p, q>> \in R \/ <<q, p>> \in R
    <3> TAKE p, q \in P
    <3>1. p[1] \in Int /\ p[2] \in Int /\ q[1] \in Int /\ q[2] \in Int
      BY <2>1
    <3>2. \/ p[1] < q[1] \/ (p[1] = q[1] /\ p[2] < q[2])
          \/ q[1] < p[1] \/ (q[1] = p[1] /\ q[2] < p[2])
          \/ (p[1] = q[1] /\ p[2] = q[2])
      BY <3>1
    <3> QED
      BY <1>5, <1>6, <3>2
  <2> QED
    BY <2>2, <2>3, <2>4 DEF StrictlyOrders
<1>8. /\ placing \in [1 .. m -> P] /\ \A p \in P : \E k \in 1 .. m : placing[k] = p
      /\ \A j, k \in 1 .. m : placing[j] = placing[k] => j = k
  BY <1>2, <1>7, SortedIsList DEF placing, m
<1>10. /\ DOMAIN them = 1 .. m /\ Len(them) = m
       /\ \A k \in 1 .. m : /\ placing[k] \in P
                            /\ them[k].user = lists[tables[placing[k][1]]][placing[k][2]]
                            /\ them[k].from = tables[placing[k][1]]
  <2>1. DOMAIN them = 1 .. m
    BY <1>8, <1>9
  <2>2. Len(them) = m
    BY <1>2, <1>8, <1>9
  <2> HIDE DEF m
  <2> QED
    BY <1>8, <1>9, <2>1, <2>2
<1> HIDE DEF m
<1>11. \A k \in 1 .. m : /\ them[k].from \in ts /\ them[k].user \in Players
                         /\ them[k].user \in Range(lists[them[k].from])
  <2> TAKE k \in 1 .. m
  <2> DEFINE t == tables[placing[k][1]]
             i == placing[k][2]
  <2>1. t \in Tables /\ t \in ts /\ i \in DOMAIN lists[t] /\ them[k].user = lists[t][i] /\ them[k].from = t
    BY <1>3, <1>10
  <2> HIDE DEF t, i
  <2>2. lists[t][i] \in Players
    BY <2>1, ListsAre
  <2>3. lists[t][i] \in Range(lists[t])
    BY <2>1 DEF Range
  <2> QED
    BY <2>1, <2>2, <2>3
<1>12. \A j, k \in 1 .. m : them[j].user = them[k].user => j = k
  <2> SUFFICES ASSUME NEW j \in 1 .. m, NEW k \in 1 .. m, them[j].user = them[k].user PROVE j = k
    OBVIOUS
  <2> DEFINE p == placing[j]
             q == placing[k]
             s == tables[p[1]]
             t == tables[q[1]]
  <2>1. /\ p \in P /\ q \in P /\ s \in Tables /\ t \in Tables /\ s \in Listed /\ t \in Listed
        /\ p[2] \in DOMAIN lists[s] /\ q[2] \in DOMAIN lists[t]
        /\ lists[s][p[2]] = lists[t][q[2]]
        /\ p[1] \in DOMAIN tables /\ q[1] \in DOMAIN tables
    BY <1>1, <1>3, <1>10
  <2>2. placing[j] = placing[k] => j = k
    BY <1>8
  <2> HIDE DEF p, q
  <2>3. s = t
    BY <2>1 DEF Disjoint, Range
  <2>4. p[1] = q[1]
    BY <1>1, <2>1, <2>3
  <2> HIDE DEF s, t
  <2>5. p[2] = q[2]
    BY <2>1, <2>3, ListsAre
  <2>6. p = q
    BY <1>6, <2>1, <2>4, <2>5
  <2> QED
    BY <2>2, <2>6 DEF p, q
<1>13. ASSUME NEW t \in ts, NEW u \in Range(lists[t])
       PROVE  \E k \in 1 .. m : them[k].user = u
  <2>1. PICK i \in DOMAIN tables : tables[i] = t
    BY <1>1
  <2>2. PICK j \in DOMAIN lists[t] : lists[t][j] = u
    BY DEF Range
  <2>3. t \in Tables
    BY <1>1, <2>1
  <2>4. j \in 1 .. N
    BY <1>1, <2>2, <2>3, ListsAre
  <2>5. <<i, j>> \in P
    BY <1>4, <2>1, <2>2, <2>4
  <2>6. PICK k \in 1 .. m : placing[k] = <<i, j>>
    BY <1>8, <2>5
  <2>7. placing[k][1] = i /\ placing[k][2] = j
    BY <2>6
  <2> QED
    BY <1>10, <2>1, <2>2, <2>7
<1>14. /\ Len(them) \in Nat /\ DOMAIN them = 1 .. Len(them)
  BY <1>2, <1>10 DEF m
<1> QED
  BY <1>10, <1>11, <1>12, <1>13, <1>14 DEF Covers

(* Tables of the director with players on their lists.                     *)
LEMMA FilledIs ==
  ASSUME tables \in Seq(Tables), IsInjective(tables), NEW lists
  PROVE  /\ Filled(lists) \in Seq(Tables) /\ IsInjective(Filled(lists))
         /\ Range(Filled(lists)) = {t \in Listed : lists[t] # <<>>}
<1>1. /\ Filled(lists) \in Seq(Tables) /\ IsInjective(Filled(lists))
      /\ Range(Filled(lists)) = Range(tables) \cap {t \in Tables : lists[t] # <<>>}
  BY KeptIs DEF Filled
<1>2. Range(tables) \subseteq Tables
  BY DEF Range
<1> QED
  BY <1>1, <1>2 DEF Listed

(* A list of moves between tables, each of another player.                 *)
MovesAre(moves, lists) ==
  /\ moves \in Seq(Moves)
  /\ \A k \in DOMAIN moves : /\ moves[k].from \in Listed /\ moves[k].to \in Listed
                             /\ moves[k].from # moves[k].to
                             /\ moves[k].user \in Range(lists[moves[k].from])
  /\ \A j, k \in DOMAIN moves : moves[j].user = moves[k].user => j = k

LEMMA MovesOf ==
  ASSUME tables \in Seq(Tables), IsInjective(tables), NEW lists, Lists(lists), Disjoint(lists),
         NEW ts \in SUBSET Listed, NEW them, them = PlayersAt(ts, lists),
         NEW n \in Nat, n <= Len(them), NEW to \in [1 .. n -> Listed \ ts], NEW moves,
         moves = [k \in 1 .. n |-> [user |-> them[k].user, from |-> them[k].from, to |-> to[k]]]
  PROVE  /\ MovesAre(moves, lists) /\ Len(moves) = n /\ DOMAIN moves = 1 .. n
         /\ \A k \in 1 .. n : /\ moves[k].to = to[k] /\ moves[k].from \in ts
                              /\ moves[k].user = them[k].user
<1>1. /\ Len(them) \in Nat /\ DOMAIN them = 1 .. Len(them)
      /\ \A k \in DOMAIN them : /\ them[k].from \in ts /\ them[k].user \in Players
                                /\ them[k].user \in Range(lists[them[k].from])
      /\ \A j, k \in DOMAIN them : them[j].user = them[k].user => j = k
  BY PlayersAtTables
<1>2. Listed \subseteq Tables
  BY DEF Listed, Range
<1>3. \A k \in 1 .. n : k \in DOMAIN them
  BY <1>1
<1>4. \A k \in 1 .. n : /\ moves[k].user = them[k].user /\ moves[k].from = them[k].from
                        /\ moves[k].to = to[k]
  OBVIOUS
<1>5. \A k \in 1 .. n : moves[k] \in Moves
  <2> TAKE k \in 1 .. n
  <2>1. moves[k] = [user |-> them[k].user, from |-> them[k].from, to |-> to[k]]
    OBVIOUS
  <2>2. them[k].user \in Players /\ them[k].from \in Tables /\ to[k] \in Tables
    BY <1>1, <1>2, <1>3
  <2> QED
    BY <2>1, <2>2 DEF Moves
<1>6. moves \in [1 .. n -> Moves] /\ DOMAIN moves = 1 .. n
  BY <1>5
<1>7. moves \in Seq(Moves) /\ Len(moves) = n
  BY <1>6
<1>8. \A k \in 1 .. n : /\ moves[k].from \in ts /\ moves[k].from \in Listed /\ moves[k].to \in Listed
                        /\ moves[k].from # moves[k].to
                        /\ moves[k].user \in Range(lists[moves[k].from])
  BY <1>1, <1>3, <1>4
<1>9. \A j, k \in 1 .. n : moves[j].user = moves[k].user => j = k
  BY <1>1, <1>3, <1>4
<1> QED
  BY <1>4, <1>6, <1>7, <1>8, <1>9 DEF MovesAre

(* Everybody is moved to the table first.                                  *)
MergesInto(first, moves, lists) ==
  /\ lists[first] # <<>> /\ \A k \in DOMAIN moves : moves[k].to = first
  /\ Covers(moves, Listed \ {first}, lists)

LEMMA FinalMovesAre ==
  ASSUME tables \in Seq(Tables), IsInjective(tables), NEW lists, Lists(lists), Disjoint(lists),
         NEW filled \in Listed, lists[filled] # <<>>, NEW moves, moves = FinalMoves(lists)
  PROVE  MovesAre(moves, lists) /\ \E first \in Listed : MergesInto(first, moves, lists)
<1>1. PICK first : first = Head(Filled(lists))
  OBVIOUS
<1>2. first \in Listed /\ lists[first] # <<>>
  <2>1. /\ Filled(lists) \in Seq(Tables) /\ filled \in Range(Filled(lists))
        /\ Range(Filled(lists)) = {t \in Listed : lists[t] # <<>>}
    BY FilledIs
  <2>2. Filled(lists) # <<>>
    BY <2>1 DEF Range
  <2>3. first \in Range(Filled(lists))
    BY <1>1, <2>1, <2>2 DEF Range
  <2> QED
    BY <2>1, <2>3
<1>3. PICK ts : ts = Listed \ {first}
  OBVIOUS
<1>4. PICK them : them = PlayersAt(ts, lists)
  OBVIOUS
<1>5. PICK n : n = Len(them)
  OBVIOUS
<1>6. PICK to : to = [k \in 1 .. n |-> first]
  OBVIOUS
<1>7. /\ n \in Nat /\ n <= Len(them) /\ DOMAIN them = 1 .. n /\ ts \in SUBSET Listed
      /\ Covers(them, ts, lists)
  BY <1>3, <1>4, <1>5, PlayersAtTables
<1>8. to \in [1 .. n -> Listed \ ts] /\ \A k \in 1 .. n : to[k] = first
  BY <1>2, <1>3, <1>6
<1>9. moves = [k \in 1 .. n |-> [user |-> them[k].user, from |-> them[k].from, to |-> to[k]]]
  <2>1. moves = [k \in DOMAIN them |-> [user |-> them[k].user, from |-> them[k].from, to |-> first]]
    BY <1>1, <1>3, <1>4 DEF FinalMoves
  <2> QED
    BY <1>7, <1>8, <2>1
<1>10. /\ MovesAre(moves, lists) /\ DOMAIN moves = 1 .. n
       /\ \A k \in 1 .. n : moves[k].to = to[k] /\ moves[k].user = them[k].user
  <2>1. tables \in Seq(Tables) /\ IsInjective(tables) /\ Lists(lists) /\ Disjoint(lists)
    OBVIOUS
  <2> HIDE DEF MovesAre
  <2>2. MovesAre(moves, lists)
    BY ONLY <2>1, <1>4, <1>7, <1>8, <1>9, MovesOf
  <2>3. DOMAIN moves = 1 .. n
    BY ONLY <1>9
  <2>4. \A k \in 1 .. n : moves[k].to = to[k] /\ moves[k].user = them[k].user
    BY ONLY <1>9
  <2> QED
    BY ONLY <2>2, <2>3, <2>4
<1>11. \A k \in DOMAIN moves : moves[k].to = first
  BY <1>8, <1>10
<1>12. Covers(moves, Listed \ {first}, lists)
  BY <1>3, <1>7, <1>10 DEF Covers
<1> QED
  BY <1>2, <1>10, <1>11, <1>12 DEF MergesInto

(* No table gets more players than it has seats.                           *)
HaveRoom(moves, lists) ==
  \A k \in DOMAIN moves :
    Len(lists[moves[k].to])
      + Cardinality({j \in DOMAIN moves : moves[j].to = moves[k].to}) <= Capacity

LEMMA RebalanceMovesAre ==
  ASSUME tables \in Seq(Tables), IsInjective(tables), NEW lists, Lists(lists), Disjoint(lists),
         NEW moves \in RebalanceMoves(lists)
  PROVE  /\ MovesAre(moves, lists)
         /\ \A k \in DOMAIN moves : Short(lists[moves[k].from]) /\ ~Short(lists[moves[k].to])
         /\ HaveRoom(moves, lists)
<1> DEFINE ts == Listed \ Targets(lists)
           them == PlayersAt(ts, lists)
           To(n) == {to \in [1 .. n -> Targets(lists)] :
                       \A k \in 1 .. n : to[k] \in LeastFull(lists, to, k)}
<1>1. PICK n \in 0 .. Len(them) :
        moves \in {[k \in 1 .. n |-> [user |-> them[k].user, from |-> them[k].from, to |-> to[k]]] :
                     to \in {f \in To(n) : n = Len(them) \/ Open(lists, f, n + 1) = {}}}
  BY Zenon DEF RebalanceMoves
<1>2. PICK to \in To(n) :
        moves = [k \in 1 .. n |-> [user |-> them[k].user, from |-> them[k].from, to |-> to[k]]]
  BY <1>1, Zenon
<1>3. /\ to \in [1 .. n -> Targets(lists)]
      /\ \A k \in 1 .. n : to[k] \in LeastFull(lists, to, k)
  BY <1>2
<1>4. Targets(lists) \subseteq Listed /\ Listed \subseteq Tables /\ ts \in SUBSET Listed
      /\ Targets(lists) = Listed \ ts
  BY DEF Targets, Listed, Range
<1>5. Len(them) \in Nat /\ n \in Nat /\ n <= Len(them)
  BY <1>4, PlayersAtTables
<1>6. to \in [1 .. n -> Listed \ ts]
  BY <1>3, <1>4
<1>b. them = PlayersAt(ts, lists)
  OBVIOUS
<1> HIDE DEF To, ts, them
<1>7. /\ MovesAre(moves, lists) /\ DOMAIN moves = 1 .. n
      /\ \A k \in 1 .. n : moves[k].to = to[k] /\ moves[k].from \in ts
  BY <1>2, <1>4, <1>5, <1>6, <1>b, MovesOf
<1>8. \A k \in 1 .. n : Short(lists[moves[k].from]) /\ ~Short(lists[moves[k].to])
  BY <1>3, <1>4, <1>7 DEF Targets, ts
<1>9. ASSUME NEW k \in 1 .. n
      PROVE  Len(lists[moves[k].to])
               + Cardinality({j \in DOMAIN moves : moves[j].to = moves[k].to}) <= Capacity
  <2> DEFINE t == to[k]
             C == {j \in 1 .. n : to[j] = t}
  <2>1. t \in Tables /\ k \in C /\ C \subseteq Int /\ C \in SUBSET (1 .. n) /\ IsFiniteSet(C)
    <3>1. IsFiniteSet(1 .. n)
      BY <1>5, FS_Interval
    <3>2. IsFiniteSet(C)
      BY <3>1, FS_Subset
    <3> QED
      BY <1>3, <1>4, <3>2
  <2>2. PICK i \in C : \A j \in C : j <= i
    <3> HIDE DEF C
    <3> QED
      BY <2>1, MaxIsLargest
  <2>3. {j \in 1 .. i - 1 : to[j] = t} = C \ {i}
    BY <1>5, <2>1, <2>2
  <2>4. i \in 1 .. n /\ to[i] = t
    OBVIOUS
  <2>5. Load(lists, to, i, t) < Capacity
    BY <1>3, <2>4 DEF LeastFull, Open
  <2> HIDE DEF C, t
  <2>6. Cardinality(C \ {i}) = Cardinality(C) - 1 /\ Cardinality(C) \in Nat
    BY <2>1, FS_RemoveElement, FS_CardinalityType
  <2>7. Len(lists[t]) + Cardinality(C \ {i}) < Capacity
    BY <2>3, <2>5 DEF Load
  <2>8. Len(lists[t]) \in Nat /\ Capacity \in Nat
    BY <2>1, ListsAre, MttAssumption
  <2>9. Len(lists[t]) + Cardinality(C) <= Capacity
    BY <2>6, <2>7, <2>8
  <2>10. {j \in DOMAIN moves : moves[j].to = moves[k].to} = C
    BY <1>7 DEF C, t
  <2>11. moves[k].to = t
    BY <1>7 DEF t
  <2> QED
    BY <2>9, <2>10, <2>11
<1> QED
  BY <1>7, <1>8, <1>9 DEF HaveRoom

-----------------------------------------------------------------------------
(* The inductive invariant.                                                *)
DirectorTypes ==
  /\ completed \in BOOLEAN
  /\ tables \in Seq(Tables) /\ IsInjective(tables) /\ Lists(roster)
  /\ survivors \subseteq Players /\ home \in [Players -> Tables]
  /\ job \in [kind : {"none", "next", "final", "rebalance"}, moves : Seq(Moves)]
  /\ job.kind \in {"none", "next"} => job.moves = <<>>
  /\ transit \in Players \cup {Nobody}
  /\ transit # Nobody => job.moves # <<>> /\ transit = Head(job.moves).user
  /\ events \in Seq([from : Tables, busted : SUBSET Players])
  /\ starts \in [Tables -> 0 .. 1]
  /\ seated \in [Tables -> SUBSET Players] /\ broke \subseteq Players
  /\ hand \in [Tables -> [known : SUBSET Players, dealt : SUBSET Players, allIn : SUBSET Players]]
  /\ \A t \in Tables : hand[t].allIn \subseteq hand[t].dealt
  /\ leaving \in [Tables -> SUBSET Players] /\ cache \in [Tables -> SUBSET Players]
  /\ refused \subseteq Tables /\ kicked \subseteq Players

(* The lists are the survivors, each at his own table.                     *)
Homes == /\ \A u \in survivors : home[u] \in Listed
         /\ \A t \in Listed : Range(roster[t]) = Crowd(t)

(* Who sits where.                                                         *)
ClosedAreEmpty  == \A t \in Tables \ Listed : seated[t] = {}
SeatedAreListed == Two(Listed) => \A t \in Listed : seated[t] \subseteq Crowd(t)
ListedAreSeated ==
  \A t \in Listed : Crowd(t) \subseteq seated[t] \cup Unreported(t) \cup kicked \cup {transit}

TransitIsOut == \A t \in Tables : transit \notin seated[t]

Seats == ClosedAreEmpty /\ SeatedAreListed /\ ListedAreSeated /\ TransitIsOut

(* What the director does to the end, if nobody else changes his lists.    *)
Coming(t) == {job.moves[k].user : k \in {j \in DOMAIN job.moves : job.moves[j].to = t}}

MovesMove ==
  /\ \A k \in DOMAIN job.moves :
       /\ job.moves[k].from \in Listed /\ job.moves[k].to \in Listed
       /\ job.moves[k].from # job.moves[k].to
       /\ job.moves[k].user \in Crowd(job.moves[k].from)
  /\ \A j, k \in DOMAIN job.moves : job.moves[j].user = job.moves[k].user => j = k

MovesHaveRoom ==
  \A k \in DOMAIN job.moves :
    Cardinality(Crowd(job.moves[k].to) \cup Coming(job.moves[k].to)) <= Capacity

MovesEvenOut ==
  job.kind = "rebalance" =>
    \A k \in DOMAIN job.moves : ~Three(Crowd(job.moves[k].from)) /\ Three(Crowd(job.moves[k].to))

MovesMerge ==
  job.kind = "final" =>
    \E first \in Listed :
      /\ Crowd(first) # {}
      /\ \A u \in survivors : home[u] = first \/ \E k \in DOMAIN job.moves : job.moves[k].user = u
      /\ \A k \in DOMAIN job.moves : job.moves[k].to = first

MovesFit == /\ MovesMove /\ MovesHaveRoom /\ MovesEvenOut /\ MovesMerge
            /\ job.kind \in {"final", "rebalance"} => Two(Listed)

(* While there are several tables and no merge: a report of a bust is      *)
(* about a player of the table, who is not there any more, and two others  *)
(* are left when it is read; only a table with less than two players may   *)
(* have it about a player moved away, and will not report it.              *)
Several == Two(Listed) /\ job.kind # "final"

Own(t, S) == S \cap survivors \subseteq Crowd(t)

Spared(t, i) ==
  {u \in Crowd(t) : \A j \in DOMAIN events : j <= i /\ events[j].from = t => u \notin events[j].busted}

ReportsAreOwn(t) ==
  \A i \in DOMAIN events :
    events[i].from = t =>
      /\ Own(t, events[i].busted)
      /\ events[i].busted \cap survivors # {} => Two(Spared(t, i))

CacheIsOwn(t)  == Own(t, cache[t]) \/ ~Two(Crowd(t))
HandIsOwn(t)   == Playing(t) => Own(t, hand[t].dealt) \/ ~Two(Crowd(t))
HandSpares(t)  == Playing(t) /\ cache[t] \cap survivors # {} => Two(Crowd(t) \ Unreported(t))
SeatedPlayOn(t) == seated[t] \cap Unreported(t) = {}

OwnBusts(t) == /\ ReportsAreOwn(t) /\ CacheIsOwn(t) /\ HandIsOwn(t)
               /\ HandSpares(t) /\ SeatedPlayOn(t)

Reports == Several => \A t \in Listed : OwnBusts(t)

DirectorInv == DirectorTypes /\ Homes /\ Seats /\ MovesFit /\ Reports

-----------------------------------------------------------------------------
(* Sequences, as the provers need them.                                    *)
LEMMA TailIs ==
  ASSUME NEW X, NEW s \in Seq(X), s # <<>>
  PROVE  /\ Head(s) \in X /\ Tail(s) \in Seq(X) /\ 1 \in DOMAIN s /\ Head(s) = s[1]
         /\ \A i \in DOMAIN Tail(s) : Tail(s)[i] = s[i + 1] /\ i + 1 \in DOMAIN s /\ i \in Nat /\ i > 0
         /\ \A i \in DOMAIN s : i = 1 \/ (/\ i - 1 \in DOMAIN Tail(s) /\ Tail(s)[i - 1] = s[i]
                                          /\ i \in Nat)
<1>1. /\ Head(s) \in X /\ Tail(s) \in Seq(X) /\ DOMAIN s = 1 .. Len(s) /\ Len(s) \in Nat
      /\ Len(s) > 0 /\ Head(s) = s[1] /\ DOMAIN Tail(s) = 1 .. Len(s) - 1
      /\ \A i \in 1 .. Len(s) - 1 : Tail(s)[i] = s[i + 1]
  OBVIOUS
<1>2. \A i \in DOMAIN Tail(s) : Tail(s)[i] = s[i + 1] /\ i + 1 \in DOMAIN s /\ i \in Nat /\ i > 0
  BY <1>1
<1>3. ASSUME NEW i \in DOMAIN s, i # 1
      PROVE  i - 1 \in DOMAIN Tail(s) /\ Tail(s)[i - 1] = s[i] /\ i \in Nat
  <2>1. i - 1 \in 1 .. Len(s) - 1 /\ (i - 1) + 1 = i /\ i \in Nat
    BY <1>1, <1>3
  <2> QED
    BY <1>1, <2>1
<1> QED
  BY <1>1, <1>2, <1>3

LEMMA MembersAre ==
  ASSUME NEW X, NEW s \in Seq(X)
  PROVE  \A i \in DOMAIN s : s[i] \in X
OBVIOUS

LEMMA AppendIs ==
  ASSUME NEW X, NEW s \in Seq(X), NEW x \in X
  PROVE  /\ Append(s, x) \in Seq(X) /\ Len(s) + 1 \in DOMAIN Append(s, x) /\ Append(s, x)[Len(s) + 1] = x
         /\ \A i \in DOMAIN s : i \in DOMAIN Append(s, x) /\ Append(s, x)[i] = s[i] /\ i <= Len(s)
         /\ \A i \in DOMAIN Append(s, x) : i \in DOMAIN s \/ i = Len(s) + 1
         /\ Len(s) \in Nat /\ \A i \in DOMAIN Append(s, x) : i \in Nat
OBVIOUS

LEMMA UnreportedIs ==
  ASSUME NEW t, NEW u
  PROVE  u \in Unreported(t) <=>
           u \in cache[t] \/ \E i \in DOMAIN events : events[i].from = t /\ u \in events[i].busted
BY Zenon DEF Unreported

LEMMA UnreportedWill ==
  ASSUME NEW t, NEW u
  PROVE  u \in Unreported(t)' <=>
           u \in cache'[t] \/ \E i \in DOMAIN events' : events'[i].from = t /\ u \in events'[i].busted
BY Zenon DEF Unreported

LEMMA TwoOfMany ==
  ASSUME NEW S, IsFiniteSet(S), Cardinality(S) >= 2
  PROVE  Two(S)
<1>1. S # {}
  BY FS_EmptySet
<1>2. PICK a \in S : TRUE
  BY <1>1
<1>3. IsFiniteSet(S \ {a}) /\ Cardinality(S \ {a}) = Cardinality(S) - 1 /\ Cardinality(S) \in Nat
  BY FS_RemoveElement, FS_CardinalityType
<1>4. S \ {a} # {}
  BY <1>3, FS_EmptySet
<1> QED
  BY <1>4 DEF Two

-----------------------------------------------------------------------------
(* What a table does leaves the director's lists and moves alone.          *)
LEMMA DirectorWaits ==
  ASSUME DirectorInv, UNCHANGED director
  PROVE  /\ Homes' /\ MovesFit' /\ Listed' = Listed
         /\ \A t : Crowd(t)' = Crowd(t)
<1>1. /\ completed' = completed /\ tables' = tables /\ roster' = roster /\ survivors' = survivors
      /\ home' = home /\ job' = job /\ transit' = transit
  BY DEF director
<1>2. Listed' = Listed /\ \A t : Crowd(t)' = Crowd(t)
  BY <1>1 DEF Listed, Crowd
<1>3. \A t : Coming(t)' = Coming(t)
  BY <1>1 DEF Coming
<1>4. Homes'
  BY <1>1, <1>2 DEF DirectorInv, Homes
<1>5. MovesMove'
  BY <1>1, <1>2 DEF DirectorInv, MovesFit, MovesMove
<1>6. MovesHaveRoom'
  BY <1>1, <1>2, <1>3 DEF DirectorInv, MovesFit, MovesHaveRoom
<1>7. MovesEvenOut'
  BY <1>1, <1>2 DEF DirectorInv, MovesFit, MovesEvenOut
<1>8. MovesMerge'
  BY <1>1, <1>2 DEF DirectorInv, MovesFit, MovesMerge
<1>9. (job.kind \in {"final", "rebalance"} => Two(Listed))'
  BY <1>1, <1>2 DEF DirectorInv, MovesFit
<1> QED
  BY <1>2, <1>4, <1>5, <1>6, <1>7, <1>8, <1>9 DEF MovesFit

(* A hand begins: everybody it deals to sits there.                        *)
LEMMA HandBegins ==
  ASSUME DirectorInv, NEW t \in Tables, StartNewHand(t), starts' \in [Tables -> 0 .. 1]
  PROVE  DirectorInv'
<1>1. /\ DirectorTypes /\ Homes /\ Seats /\ Reports
      /\ UNCHANGED <<director, events, seated, broke, leaving, cache, kicked>>
      /\ \E h \in Deals(t) : hand' = [hand EXCEPT ![t] = h]
      /\ refused' = IF hand'[t] = NoHand THEN refused \cup {t} ELSE refused \ {t}
  BY DEF DirectorInv, StartNewHand
<1>2. /\ completed' = completed /\ tables' = tables /\ roster' = roster /\ survivors' = survivors
      /\ home' = home /\ job' = job /\ transit' = transit
  BY <1>1 DEF director
<1>3. /\ Homes' /\ MovesFit' /\ Listed' = Listed /\ \A s : Crowd(s)' = Crowd(s)
  BY <1>1, DirectorWaits
<1>4. \A s : Unreported(s)' = Unreported(s)
  BY <1>1 DEF Unreported
<1>5. PICK h \in Deals(t) : hand' = [hand EXCEPT ![t] = h]
  BY <1>1
<1>6. \/ h = hand[t] \/ h = NoHand
      \/ /\ ~Playing(t) /\ Cardinality(Eligible(t)) >= 2
         /\ h = [known |-> seated[t], dealt |-> Eligible(t), allIn |-> {}]
  <2>1. Cardinality(Eligible(t)) \in Nat
    <3>1. Eligible(t) \in SUBSET Players
      BY <1>1 DEF Eligible, DirectorTypes
    <3> QED
      BY <3>1, PlayersAreFinite
  <2> QED
    BY <2>1 DEF Deals
<1>7. /\ h \in [known : SUBSET Players, dealt : SUBSET Players, allIn : SUBSET Players]
      /\ h.allIn \subseteq h.dealt
  <2>1. seated[t] \subseteq Players /\ Eligible(t) \subseteq Players
    BY <1>1 DEF DirectorTypes, Eligible
  <2>2. /\ hand[t] \in [known : SUBSET Players, dealt : SUBSET Players, allIn : SUBSET Players]
        /\ hand[t].allIn \subseteq hand[t].dealt
    BY <1>1 DEF DirectorTypes
  <2> QED
    BY <1>6, <2>1, <2>2 DEF NoHand
<1>8. DirectorTypes'
  BY <1>1, <1>2, <1>5, <1>7 DEF DirectorTypes
<1>9. Seats'
  BY <1>1, <1>2, <1>3, <1>4 DEF Seats, ClosedAreEmpty, SeatedAreListed, ListedAreSeated, TransitIsOut
<1>10. Reports'
  <2>1. SUFFICES ASSUME Several, NEW s \in Listed PROVE OwnBusts(s)'
    BY <1>2, <1>3 DEF Reports, Several
  <2>2. OwnBusts(s) /\ s \in Tables
    BY <1>1, <2>1 DEF Reports, Listed, Range, DirectorTypes
  <2>3. ReportsAreOwn(s)' /\ CacheIsOwn(s)' /\ SeatedPlayOn(s)'
    <3>1. \A i : Spared(s, i)' = Spared(s, i)
      BY <1>1, <1>3 DEF Spared
    <3> QED
      BY <1>1, <1>2, <1>3, <1>4, <2>2, <3>1
      DEF OwnBusts, ReportsAreOwn, CacheIsOwn, SeatedPlayOn, Own
  <2>4. CASE s # t \/ h = hand[t]
    <3>1. hand'[s] = hand[s]
      BY <1>1, <1>5, <2>2, <2>4 DEF DirectorTypes
    <3>2. HandIsOwn(s)' /\ HandSpares(s)'
      BY <1>1, <1>2, <1>3, <1>4, <2>2, <3>1 DEF OwnBusts, HandIsOwn, HandSpares, Own, Playing
    <3> QED
      BY <2>3, <3>2 DEF OwnBusts
  <2>5. CASE s = t /\ h = NoHand
    <3>1. hand'[s] = NoHand
      BY <1>1, <1>5, <2>2, <2>5 DEF DirectorTypes
    <3>2. HandIsOwn(s)' /\ HandSpares(s)'
      BY <3>1 DEF HandIsOwn, HandSpares, Playing
    <3> QED
      BY <2>3, <3>2 DEF OwnBusts
  <2>6. CASE s = t /\ Cardinality(Eligible(t)) >= 2 /\ h.dealt = Eligible(t)
    <3>1. hand'[s].dealt = Eligible(t)
      BY <1>1, <1>5, <2>2, <2>6 DEF DirectorTypes
    <3>2. Eligible(t) \subseteq seated[t] /\ seated[t] \subseteq Crowd(t)
      BY <1>1, <2>1, <2>6 DEF Eligible, Seats, SeatedAreListed, Several
    <3>3. HandIsOwn(s)'
      BY <1>2, <1>3, <2>6, <3>1, <3>2 DEF HandIsOwn, Own
    <3>4. Two(Eligible(t))
      <4>1. Eligible(t) \in SUBSET Players
        BY <1>1 DEF Eligible, DirectorTypes
      <4> QED
        BY <2>6, <4>1, PlayersAreFinite, TwoOfMany
    <3>5. Two(Crowd(t) \ Unreported(t))
      BY <2>2, <2>6, <3>2, <3>4 DEF Two, OwnBusts, SeatedPlayOn
    <3>6. HandSpares(s)'
      BY <1>3, <1>4, <2>6, <3>5 DEF HandSpares
    <3> QED
      BY <2>3, <3>3, <3>6 DEF OwnBusts
  <2> QED
    BY <1>6, <2>4, <2>5, <2>6
<1> QED
  BY <1>3, <1>8, <1>9, <1>10 DEF DirectorInv

(* A stack is empty: nobody has noticed.                                   *)
LEMMA AllInKeeps ==
  ASSUME DirectorInv, NEW t \in Tables, NEW u \in Players, GoAllIn(t, u)
  PROVE  DirectorInv'
<1>1. /\ DirectorTypes /\ Homes /\ Seats /\ Reports
      /\ u \in hand[t].dealt \ hand[t].allIn
      /\ hand' = [hand EXCEPT ![t].allIn = @ \cup {u}]
      /\ broke' = IF u \in seated[t] THEN broke \cup {u} ELSE broke
      /\ UNCHANGED <<director, events, starts, started, seated, leaving, cache, refused, kicked>>
  BY DEF DirectorInv, GoAllIn
<1>2. /\ completed' = completed /\ tables' = tables /\ roster' = roster /\ survivors' = survivors
      /\ home' = home /\ job' = job /\ transit' = transit
  BY <1>1 DEF director
<1>3. /\ Homes' /\ MovesFit' /\ Listed' = Listed /\ \A s : Crowd(s)' = Crowd(s)
  BY <1>1, DirectorWaits
<1>4. \A s : Unreported(s)' = Unreported(s)
  BY <1>1 DEF Unreported
<1>5. /\ hand' \in [Tables -> [known : SUBSET Players, dealt : SUBSET Players, allIn : SUBSET Players]]
      /\ \A s \in Tables : /\ hand'[s].dealt = hand[s].dealt /\ hand'[s].allIn \subseteq hand'[s].dealt
                           /\ s # t => hand'[s] = hand[s]
  <2> DEFINE H == [known : SUBSET Players, dealt : SUBSET Players, allIn : SUBSET Players]
             h == [hand[t] EXCEPT !.allIn = @ \cup {u}]
  <2>1. hand' = [hand EXCEPT ![t] = h]
    BY <1>1
  <2>2. hand \in [Tables -> H] /\ hand[t] \in H /\ \A s \in Tables : hand[s].allIn \subseteq hand[s].dealt
    BY <1>1 DEF DirectorTypes
  <2>3. h \in H /\ h.dealt = hand[t].dealt /\ h.allIn \subseteq h.dealt
    BY <1>1, <2>2
  <2> HIDE DEF h, H
  <2>4. hand' \in [Tables -> H]
    BY <2>1, <2>2, <2>3
  <2>5. \A s \in Tables : hand'[s] = IF s = t THEN h ELSE hand[s]
    BY <2>1, <2>2
  <2> QED
    BY <2>2, <2>3, <2>4, <2>5 DEF H
<1>6. \A s \in Tables : Playing(s)' => Playing(s)
  <2> TAKE s \in Tables
  <2>1. s = t => Playing(s)
    BY <1>1 DEF Playing, NoHand
  <2> QED
    BY <1>5, <2>1 DEF Playing
<1>7. DirectorTypes'
  BY <1>1, <1>2, <1>5 DEF DirectorTypes
<1>8. Seats'
  BY <1>1, <1>2, <1>3, <1>4 DEF Seats, ClosedAreEmpty, SeatedAreListed, ListedAreSeated, TransitIsOut
<1>9. Reports'
  <2>1. SUFFICES ASSUME Several, NEW s \in Listed PROVE OwnBusts(s)'
    BY <1>2, <1>3 DEF Reports, Several
  <2>2. OwnBusts(s) /\ s \in Tables
    BY <1>1, <2>1 DEF Reports, Listed, Range, DirectorTypes
  <2>3. ReportsAreOwn(s)' /\ CacheIsOwn(s)' /\ SeatedPlayOn(s)'
    <3>1. \A i : Spared(s, i)' = Spared(s, i)
      BY <1>1, <1>3 DEF Spared
    <3> QED
      BY <1>1, <1>2, <1>3, <1>4, <2>2, <3>1
      DEF OwnBusts, ReportsAreOwn, CacheIsOwn, SeatedPlayOn, Own
  <2>4. HandIsOwn(s)' /\ HandSpares(s)'
    BY <1>1, <1>2, <1>3, <1>4, <1>5, <1>6, <2>2 DEF OwnBusts, HandIsOwn, HandSpares, Own
  <2> QED
    BY <2>3, <2>4 DEF OwnBusts
<1> QED
  BY <1>3, <1>7, <1>8, <1>9 DEF DirectorInv

(* A hand is over: who was all-in leaves, to be reported after the next,   *)
(* and the report of the last hand is sent.                                *)
LEMMA FinishHandKeeps ==
  ASSUME DirectorInv, NEW t \in Tables, FinishHand(t)
  PROVE  DirectorInv'
<1> DEFINE r == [from |-> t, busted |-> cache[t]]
           n == Len(events) + 1
<1>1. /\ DirectorTypes /\ Homes /\ Seats /\ Reports /\ Playing(t)
      /\ events' = Append(events, r)
      /\ cache' = [cache EXCEPT ![t] = hand[t].allIn]
      /\ seated' = [seated EXCEPT ![t] = @ \ (hand[t].allIn \cup leaving[t])]
      /\ broke' = broke \ (hand[t].allIn \cap seated[t])
      /\ kicked' = kicked \cup (leaving[t] \ hand[t].allIn)
      /\ leaving' = [leaving EXCEPT ![t] = {}]
      /\ hand' = [hand EXCEPT ![t] = NoHand]
      /\ UNCHANGED <<director, starts, started, refused>>
  BY DEF DirectorInv, FinishHand, Report
<1>2. /\ completed' = completed /\ tables' = tables /\ roster' = roster /\ survivors' = survivors
      /\ home' = home /\ job' = job /\ transit' = transit
  BY <1>1 DEF director
<1>3. /\ Homes' /\ MovesFit' /\ Listed' = Listed /\ \A s : Crowd(s)' = Crowd(s)
  BY <1>1, DirectorWaits
<1>4. r \in [from : Tables, busted : SUBSET Players] /\ r.from = t /\ r.busted = cache[t]
  BY <1>1 DEF DirectorTypes
<1>5. /\ events' \in Seq([from : Tables, busted : SUBSET Players])
      /\ n \in DOMAIN events' /\ events'[n] = r /\ n \in Nat
      /\ \A i \in DOMAIN events : i \in DOMAIN events' /\ events'[i] = events[i] /\ i < n /\ i \in Nat
      /\ \A i \in DOMAIN events' : i \in DOMAIN events \/ i = n
  <2>1. events \in Seq([from : Tables, busted : SUBSET Players])
    BY <1>1 DEF DirectorTypes
  <2> HIDE DEF r
  <2>2. /\ Append(events, r) \in Seq([from : Tables, busted : SUBSET Players])
        /\ n \in DOMAIN Append(events, r) /\ Append(events, r)[n] = r /\ Len(events) \in Nat
        /\ \A i \in DOMAIN events : i \in DOMAIN Append(events, r) /\ Append(events, r)[i] = events[i] /\ i <= Len(events)
        /\ \A i \in DOMAIN Append(events, r) : i \in DOMAIN events \/ i = n
        /\ \A i \in DOMAIN Append(events, r) : i \in Nat
    BY <1>4, <2>1, AppendIs
  <2> QED
    BY <1>1, <2>2
<1> HIDE DEF r, n
<1>6. \A s \in Tables : /\ cache'[s] = IF s = t THEN hand[t].allIn ELSE cache[s]
                        /\ seated'[s] = IF s = t THEN seated[t] \ (hand[t].allIn \cup leaving[t]) ELSE seated[s]
                        /\ hand'[s] = IF s = t THEN NoHand ELSE hand[s]
                        /\ leaving'[s] = IF s = t THEN {} ELSE leaving[s]
  BY <1>1 DEF DirectorTypes
<1>7. hand[t].allIn \subseteq Players /\ hand[t].allIn \subseteq hand[t].dealt
  BY <1>1 DEF DirectorTypes
<1>8. \A s \in Tables : \A u : u \in Unreported(s)' <=> u \in Unreported(s) \/ (s = t /\ u \in hand[t].allIn)
  <2> TAKE s \in Tables
  <2> TAKE u
  <2>1. u \in Unreported(s) <=>
          u \in cache[s] \/ \E i \in DOMAIN events : events[i].from = s /\ u \in events[i].busted
    BY UnreportedIs
  <2>2. u \in Unreported(s)' <=>
          u \in cache'[s] \/ \E i \in DOMAIN events' : events'[i].from = s /\ u \in events'[i].busted
    BY UnreportedWill
  <2>3. (\E i \in DOMAIN events' : events'[i].from = s /\ u \in events'[i].busted) <=>
          \/ \E i \in DOMAIN events : events[i].from = s /\ u \in events[i].busted
          \/ (s = t /\ u \in cache[t])
    BY <1>4, <1>5
  <2> QED
    BY <1>6, <2>1, <2>2, <2>3
<1>9. DirectorTypes'
  <2>1. NoHand \in [known : SUBSET Players, dealt : SUBSET Players, allIn : SUBSET Players]
        /\ NoHand.allIn \subseteq NoHand.dealt
    BY DEF NoHand
  <2>2. /\ cache' \in [Tables -> SUBSET Players] /\ seated' \in [Tables -> SUBSET Players]
        /\ leaving' \in [Tables -> SUBSET Players] /\ kicked' \subseteq Players /\ broke' \subseteq Players
        /\ hand' \in [Tables -> [known : SUBSET Players, dealt : SUBSET Players, allIn : SUBSET Players]]
    BY <1>1, <1>7, <2>1 DEF DirectorTypes
  <2>3. \A s \in Tables : hand'[s].allIn \subseteq hand'[s].dealt
    BY <1>1, <1>6, <2>1 DEF DirectorTypes
  <2>4. starts' = starts /\ refused' = refused
    BY <1>1
  <2> QED
    BY <1>1, <1>2, <1>5, <2>2, <2>3, <2>4 DEF DirectorTypes
<1>10. Seats'
  <2>1. \A s \in Tables : seated'[s] \subseteq seated[s]
    BY <1>6
  <2>2. Listed \subseteq Tables
    BY <1>1 DEF Listed, Range, DirectorTypes
  <2>3. ClosedAreEmpty' /\ SeatedAreListed' /\ TransitIsOut'
    BY <1>1, <1>2, <1>3, <2>1, <2>2 DEF Seats, ClosedAreEmpty, SeatedAreListed, TransitIsOut
  <2>4. ListedAreSeated'
    <3>1. SUFFICES ASSUME NEW s \in Listed, NEW u \in Crowd(s)
                   PROVE  u \in seated'[s] \/ u \in Unreported(s)' \/ u \in kicked' \/ u = transit
      BY <1>2, <1>3 DEF ListedAreSeated
    <3>2. u \in seated[s] \/ u \in Unreported(s) \/ u \in kicked \/ u = transit
      BY <1>1, <3>1 DEF Seats, ListedAreSeated
    <3> QED
      BY <1>1, <1>6, <1>8, <2>2, <3>2
  <2> QED
    BY <2>3, <2>4 DEF Seats
<1>11. Reports'
  <2>1. SUFFICES ASSUME Several, NEW s \in Listed PROVE OwnBusts(s)'
    BY <1>2, <1>3 DEF Reports, Several
  <2>2. OwnBusts(s) /\ s \in Tables
    BY <1>1, <2>1 DEF Reports, Listed, Range, DirectorTypes
  <2>3. \A i \in DOMAIN events : Spared(s, i)' = Spared(s, i)
    <3> TAKE i \in DOMAIN events
    <3>1. \A j \in DOMAIN events' : j <= i => j \in DOMAIN events
      BY <1>5
    <3> QED
      BY <1>3, <1>5, <3>1 DEF Spared
  <2>4. ReportsAreOwn(s)'
    <3>1. SUFFICES ASSUME NEW i \in DOMAIN events', events'[i].from = s
                   PROVE  /\ Own(s, events'[i].busted)
                          /\ events'[i].busted \cap survivors # {} => Two(Spared(s, i)')
      BY <1>2, <1>3 DEF ReportsAreOwn, Own
    <3>2. CASE i \in DOMAIN events
      BY <1>5, <2>2, <2>3, <3>1, <3>2 DEF OwnBusts, ReportsAreOwn
    <3>3. CASE i = n
      <4>1. s = t /\ events'[i].busted = cache[t]
        BY <1>4, <1>5, <3>1, <3>3
      <4>2. ASSUME cache[t] \cap survivors # {}
            PROVE  Own(t, cache[t]) /\ Two(Spared(t, i)')
        <5>1. PICK a, b \in Crowd(t) \ Unreported(t) : a # b
          BY <1>1, <2>2, <4>1, <4>2 DEF OwnBusts, HandSpares, Two
        <5>2. Own(t, cache[t])
          BY <2>2, <4>1, <5>1 DEF OwnBusts, CacheIsOwn, Two
        <5>3. \A u \in Crowd(t) \ Unreported(t) : u \in Spared(t, i)'
          <6> TAKE u \in Crowd(t) \ Unreported(t)
          <6>1. /\ u \notin cache[t]
                /\ \A j \in DOMAIN events : events[j].from = t => u \notin events[j].busted
            BY UnreportedIs
          <6>2. \A j \in DOMAIN events' : events'[j].from = t => u \notin events'[j].busted
            BY <1>4, <1>5, <6>1
          <6> QED
            BY <1>3, <6>2 DEF Spared
        <5> QED
          BY <5>1, <5>2, <5>3 DEF Two
      <4>3. ASSUME cache[t] \cap survivors = {}
            PROVE  Own(t, cache[t])
        BY <4>3 DEF Own
      <4> QED
        BY <4>1, <4>2, <4>3
    <3> QED
      BY <1>5, <3>1, <3>2, <3>3
  <2>5. CASE s # t
    <3>1. /\ cache'[s] = cache[s] /\ hand'[s] = hand[s] /\ seated'[s] = seated[s]
          /\ \A u : u \in Unreported(s)' <=> u \in Unreported(s)
      BY <1>6, <1>8, <2>2, <2>5
    <3>2. CacheIsOwn(s)' /\ HandIsOwn(s)'
      BY <1>2, <1>3, <2>2, <3>1 DEF OwnBusts, CacheIsOwn, HandIsOwn, Own, Playing
    <3>3. Unreported(s)' = Unreported(s)
      BY <3>1
    <3>4. HandSpares(s)' /\ SeatedPlayOn(s)'
      BY <1>2, <1>3, <2>2, <3>1, <3>3 DEF OwnBusts, HandSpares, SeatedPlayOn, Playing
    <3> QED
      BY <2>4, <3>2, <3>4 DEF OwnBusts
  <2>6. CASE s = t
    <3>1. ~Playing(s)' /\ cache'[s] = hand[t].allIn
      BY <1>6, <2>2, <2>6 DEF Playing
    <3>2. HandIsOwn(s)' /\ HandSpares(s)'
      BY <3>1 DEF HandIsOwn, HandSpares
    <3>3. CacheIsOwn(s)'
      BY <1>1, <1>2, <1>3, <1>7, <2>2, <2>6, <3>1 DEF OwnBusts, HandIsOwn, CacheIsOwn, Own
    <3>4. SeatedPlayOn(s)'
      BY <1>6, <1>8, <2>2, <2>6 DEF OwnBusts, SeatedPlayOn
    <3> QED
      BY <2>4, <3>2, <3>3, <3>4 DEF OwnBusts
  <2> QED
    BY <2>5, <2>6
<1> QED
  BY <1>3, <1>9, <1>10, <1>11 DEF DirectorInv

(* A player is voted out.                                                  *)
LEMMA KickKeeps ==
  ASSUME DirectorInv, NEW t \in Tables, NEW u \in Players, Kick(t, u)
  PROVE  DirectorInv'
<1>1. /\ DirectorTypes /\ Homes /\ Seats /\ Reports
      /\ u \in seated[t] \ leaving[t]
      /\ IF u \in hand[t].known
         THEN /\ leaving' = [leaving EXCEPT ![t] = @ \cup {u}]
              /\ UNCHANGED <<seated, broke, kicked>>
         ELSE /\ seated' = [seated EXCEPT ![t] = @ \ {u}]
              /\ broke' = broke \ {u} /\ kicked' = kicked \cup {u}
              /\ UNCHANGED leaving
      /\ UNCHANGED <<director, events, starts, started, hand, cache, refused>>
  BY DEF DirectorInv, Kick
<1>2. /\ completed' = completed /\ tables' = tables /\ roster' = roster /\ survivors' = survivors
      /\ home' = home /\ job' = job /\ transit' = transit
  BY <1>1 DEF director
<1>3. /\ Homes' /\ MovesFit' /\ Listed' = Listed /\ \A s : Crowd(s)' = Crowd(s)
  BY <1>1, DirectorWaits
<1>4. \A s : Unreported(s)' = Unreported(s)
  BY <1>1 DEF Unreported
<1>5. /\ \A s \in Tables : /\ seated'[s] \subseteq seated[s]
                           /\ \A v \in seated[s] : v \in seated'[s] \/ v \in kicked'
      /\ kicked \subseteq kicked'
  <2>1. CASE u \in hand[t].known
    BY <1>1, <2>1
  <2>2. CASE u \notin hand[t].known
    BY <1>1, <2>2 DEF DirectorTypes
  <2> QED
    BY <2>1, <2>2
<1>6. /\ seated' \in [Tables -> SUBSET Players] /\ leaving' \in [Tables -> SUBSET Players]
      /\ kicked' \subseteq Players /\ broke' \subseteq Players
  <2>1. CASE u \in hand[t].known
    BY <1>1, <2>1 DEF DirectorTypes
  <2>2. CASE u \notin hand[t].known
    BY <1>1, <2>2 DEF DirectorTypes
  <2> QED
    BY <2>1, <2>2
<1>7. DirectorTypes'
  BY <1>1, <1>2, <1>6 DEF DirectorTypes
<1>8. Seats'
  <2>1. Listed \subseteq Tables
    BY <1>1 DEF Listed, Range, DirectorTypes
  <2>2. ClosedAreEmpty' /\ SeatedAreListed' /\ TransitIsOut'
    BY <1>1, <1>2, <1>3, <1>5, <2>1 DEF Seats, ClosedAreEmpty, SeatedAreListed, TransitIsOut
  <2>3. ListedAreSeated'
    <3>1. SUFFICES ASSUME NEW s \in Listed, NEW v \in Crowd(s)
                   PROVE  v \in seated'[s] \/ v \in Unreported(s) \/ v \in kicked' \/ v = transit
      BY <1>2, <1>3, <1>4 DEF ListedAreSeated
    <3>2. v \in seated[s] \/ v \in Unreported(s) \/ v \in kicked \/ v = transit
      BY <1>1, <3>1 DEF Seats, ListedAreSeated
    <3> QED
      BY <1>5, <2>1, <3>2
  <2> QED
    BY <2>2, <2>3 DEF Seats
<1>9. Reports'
  <2>1. SUFFICES ASSUME Several, NEW s \in Listed PROVE OwnBusts(s)'
    BY <1>2, <1>3 DEF Reports, Several
  <2>2. OwnBusts(s) /\ s \in Tables
    BY <1>1, <2>1 DEF Reports, Listed, Range, DirectorTypes
  <2>3. ReportsAreOwn(s)' /\ CacheIsOwn(s)'
    <3>1. \A i : Spared(s, i)' = Spared(s, i)
      BY <1>1, <1>3 DEF Spared
    <3> QED
      BY <1>1, <1>2, <1>3, <1>4, <2>2, <3>1 DEF OwnBusts, ReportsAreOwn, CacheIsOwn, Own
  <2>4. HandIsOwn(s)' /\ HandSpares(s)'
    BY <1>1, <1>2, <1>3, <1>4, <2>2 DEF OwnBusts, HandIsOwn, HandSpares, Own, Playing
  <2>5. SeatedPlayOn(s)'
    BY <1>4, <1>5, <2>2 DEF OwnBusts, SeatedPlayOn
  <2> QED
    BY <2>3, <2>4, <2>5 DEF OwnBusts
<1> QED
  BY <1>3, <1>7, <1>8, <1>9 DEF DirectorInv

(* A player leaves his table, and is between two.                          *)
LEMMA TakeOutKeeps ==
  ASSUME DirectorInv, TakeOut
  PROVE  DirectorInv'
<1> DEFINE move == Head(job.moves)
           u == move.user
           t == move.from
<1>1. /\ DirectorTypes /\ Homes /\ Seats /\ MovesFit /\ Reports
      /\ job.moves # <<>> /\ transit = Nobody /\ transit' = u
      /\ seated' = [seated EXCEPT ![t] = @ \ {u}]
      /\ leaving' = [leaving EXCEPT ![t] = @ \ {u}]
      /\ broke' = IF u \in seated[t] THEN broke ELSE broke \cup {u}
      /\ UNCHANGED <<completed, tables, roster, survivors, home, job, events, starts,
                     started, hand, cache, refused, kicked>>
  BY DEF DirectorInv, TakeOut
<1>2. /\ job.moves \in Seq(Moves) /\ 1 \in DOMAIN job.moves /\ move = job.moves[1] /\ move \in Moves
  BY <1>1, TailIs DEF DirectorTypes
<1>3. /\ u \in Players /\ t \in Tables /\ t \in Listed /\ u \in Crowd(t) /\ home[u] = t
      /\ u \in survivors
  BY <1>1, <1>2 DEF Moves, MovesFit, MovesMove, Crowd
<1>4. Listed' = Listed /\ (\A s : Crowd(s)' = Crowd(s)) /\ \A s : Coming(s)' = Coming(s)
  BY <1>1 DEF Listed, Crowd, Coming
<1>5. \A s : Unreported(s)' = Unreported(s)
  BY <1>1 DEF Unreported
<1>6. Two(Listed)
  BY <1>1 DEF DirectorTypes, MovesFit
<1> HIDE DEF t
<1>7. \A s \in Tables : seated'[s] = IF s = t THEN seated[s] \ {u} ELSE seated[s]
  BY <1>1 DEF DirectorTypes
<1>8. DirectorTypes'
  <2>1. /\ seated' \in [Tables -> SUBSET Players] /\ leaving' \in [Tables -> SUBSET Players]
        /\ broke' \subseteq Players
    BY <1>1, <1>3 DEF DirectorTypes
  <2>2. transit' \in Players \cup {Nobody}
        /\ (transit' # Nobody => job'.moves # <<>> /\ transit' = Head(job'.moves).user)
    BY <1>1, <1>3
  <2> QED
    BY <1>1, <2>1, <2>2 DEF DirectorTypes
<1> HIDE DEF u, move
<1>9. Homes' /\ MovesFit'
  BY <1>1, <1>4 DEF Homes, MovesFit, MovesMove, MovesHaveRoom, MovesEvenOut, MovesMerge
<1>10. Seats'
  <2>1. Listed \subseteq Tables
    BY <1>1 DEF Listed, Range, DirectorTypes
  <2>2. ClosedAreEmpty' /\ SeatedAreListed'
    BY <1>1, <1>4, <1>7, <2>1 DEF Seats, ClosedAreEmpty, SeatedAreListed
  <2>3. ListedAreSeated'
    <3>1. SUFFICES ASSUME NEW s \in Listed, NEW v \in Crowd(s)
                   PROVE  v \in seated'[s] \/ v \in Unreported(s) \/ v \in kicked \/ v = u
      BY <1>1, <1>4, <1>5 DEF ListedAreSeated
    <3>2. v \in seated[s] \/ v \in Unreported(s) \/ v \in kicked \/ v = Nobody
      BY <1>1, <3>1 DEF Seats, ListedAreSeated
    <3>3. v # Nobody
      BY <1>1, <3>1, MttAssumption DEF Crowd, DirectorTypes
    <3> QED
      BY <1>7, <2>1, <3>2, <3>3
  <2>4. TransitIsOut'
    <3>1. ASSUME NEW s \in Tables, s # t, s \in Listed PROVE u \notin seated[s]
      BY <1>1, <1>3, <1>6, <3>1 DEF Seats, SeatedAreListed, Crowd
    <3>2. ASSUME NEW s \in Tables, s \notin Listed PROVE u \notin seated[s]
      BY <1>1, <3>2 DEF Seats, ClosedAreEmpty
    <3>3. \A s \in Tables : u \notin seated'[s]
      BY <1>7, <3>1, <3>2
    <3>4. transit' = u
      BY <1>1
    <3> QED
      BY <3>3, <3>4 DEF TransitIsOut
  <2> QED
    BY <2>2, <2>3, <2>4 DEF Seats
<1>11. Reports'
  <2>1. SUFFICES ASSUME Several, NEW s \in Listed PROVE OwnBusts(s)'
    BY <1>1, <1>4 DEF Reports, Several
  <2>2. OwnBusts(s) /\ s \in Tables
    BY <1>1, <2>1 DEF Reports, Listed, Range, DirectorTypes
  <2>3. ReportsAreOwn(s)' /\ CacheIsOwn(s)'
    <3>1. \A i : Spared(s, i)' = Spared(s, i)
      BY <1>1, <1>4 DEF Spared
    <3> QED
      BY <1>1, <1>4, <1>5, <2>2, <3>1 DEF OwnBusts, ReportsAreOwn, CacheIsOwn, Own
  <2>4. HandIsOwn(s)' /\ HandSpares(s)'
    BY <1>1, <1>4, <1>5, <2>2 DEF OwnBusts, HandIsOwn, HandSpares, Own, Playing
  <2>5. SeatedPlayOn(s)'
    BY <1>5, <1>7, <2>2 DEF OwnBusts, SeatedPlayOn
  <2> QED
    BY <2>3, <2>4, <2>5 DEF OwnBusts
<1> QED
  BY <1>8, <1>9, <1>10, <1>11 DEF DirectorInv

(* A move on the lists.                                                    *)
LEMMA EnteredIs ==
  ASSUME NEW lists, Lists(lists), NEW move, NEW u \in Players, NEW a \in Tables, NEW b \in Tables,
         a # b, move.user = u, move.from = a, move.to = b, u \notin Range(lists[b])
  PROVE  /\ Lists(Entered(lists, move))
         /\ \A t \in Tables : Range(Entered(lists, move)[t]) =
              IF t = a THEN Range(lists[t]) \ {u} ELSE IF t = b THEN Range(lists[t]) \cup {u}
              ELSE Range(lists[t])
<1> DEFINE new == Entered(lists, move)
           x == Struck(lists[a], {u})
           y == Append(lists[b], u)
<1>1. List(lists[a]) /\ List(lists[b])
  BY ListsAre
<1>2. List(x) /\ Range(x) = Range(lists[a]) \ {u}
  BY <1>1, StruckIs
<1>3. List(y) /\ Range(y) = Range(lists[b]) \cup {u}
  BY <1>1, AddedIs
<1>4. new = [[lists EXCEPT ![a] = x] EXCEPT ![b] = y]
  BY DEF Entered, Lists
<1>5. lists \in [Tables -> Seq(Players)] /\ \A t \in Tables : IsInjective(lists[t])
  BY DEF Lists
<1> HIDE DEF new, x, y
<1>6. /\ DOMAIN new = Tables /\ new[a] = x /\ new[b] = y
      /\ \A t \in Tables : t # a /\ t # b => new[t] = lists[t]
  BY <1>4, <1>5
<1>7. new = [t \in Tables |-> new[t]]
  BY <1>4, <1>5, <1>6
<1>8. \A t \in Tables : new[t] \in Seq(Players) /\ IsInjective(new[t])
  BY <1>2, <1>3, <1>5, <1>6 DEF List
<1>9. Lists(new)
  BY <1>7, <1>8 DEF Lists
<1> QED
  BY <1>2, <1>3, <1>6, <1>9 DEF new

(* The next table has a seat for whoever is between two.                   *)
LEMMA SeatIsFree ==
  ASSUME DirectorInv, job.moves # <<>>, NEW u, u = Head(job.moves).user,
         NEW b, b = Head(job.moves).to
  PROVE  Cardinality(seated[b]) < Capacity
<1> DEFINE S == Crowd(b) \cup Coming(b)
<1>1. /\ DirectorTypes /\ Seats /\ MovesFit
      /\ 1 \in DOMAIN job.moves /\ u = job.moves[1].user /\ b = job.moves[1].to
      /\ \A k \in DOMAIN job.moves : job.moves[k] \in Moves
  BY TailIs DEF DirectorInv, DirectorTypes
<1>2. Two(Listed)
  BY <1>1 DEF DirectorTypes, MovesFit
<1>3. /\ b \in Listed /\ u \notin Crowd(b) /\ u \in Coming(b)
  BY <1>1 DEF MovesFit, MovesMove, Crowd, Coming
<1>4. S \in SUBSET Players
  BY <1>1 DEF Crowd, Coming, DirectorTypes, Moves
<1>5. Cardinality(S) <= Capacity
  BY <1>1 DEF MovesFit, MovesHaveRoom
<1>6. seated[b] \subseteq Crowd(b)
  BY <1>1, <1>2, <1>3 DEF Seats, SeatedAreListed
<1>7. seated[b] \subseteq S /\ seated[b] # S
  BY <1>3, <1>6
<1> HIDE DEF S
<1>8. /\ IsFiniteSet(S) /\ Cardinality(S) \in Nat /\ seated[b] \in SUBSET Players
      /\ Cardinality(seated[b]) \in Nat
  BY <1>4, <1>7, PlayersAreFinite
<1>9. Cardinality(seated[b]) <= Cardinality(S) /\ Cardinality(seated[b]) # Cardinality(S)
  BY <1>7, <1>8, FS_Subset
<1> QED
  BY <1>5, <1>8, <1>9, MttAssumption

(* The player sits down at the next table.                                 *)
LEMMA PutInKeeps ==
  ASSUME DirectorInv, PutIn
  PROVE  DirectorInv'
<1>a. PICK move, u, a, b, rest :
        /\ move = Head(job.moves) /\ u = move.user /\ a = move.from /\ b = move.to
        /\ rest = Tail(job.moves)
  OBVIOUS
<1>1. /\ DirectorTypes /\ Homes /\ Seats /\ MovesFit /\ Reports
      /\ job.moves # <<>> /\ transit = u /\ transit' = Nobody
      /\ job' = [job EXCEPT !.moves = Tail(@)]
      /\ UNCHANGED <<completed, tables, survivors, events, starts, started,
                     broke, hand, leaving, cache, refused, kicked>>
  BY <1>a DEF DirectorInv, DirectorTypes, PutIn
<1>2. /\ seated' = [seated EXCEPT ![b] = @ \cup {u}]
      /\ roster' = Entered(roster, move)
      /\ home' = [home EXCEPT ![u] = b]
  BY <1>1, <1>a, SeatIsFree DEF PutIn
<1>3. /\ job.moves \in Seq(Moves) /\ 1 \in DOMAIN job.moves /\ move = job.moves[1] /\ move \in Moves
      /\ rest \in Seq(Moves)
      /\ \A i \in DOMAIN rest :
           /\ rest[i] = job.moves[i + 1] /\ i + 1 \in DOMAIN job.moves /\ i + 1 # 1 /\ i \in Int
      /\ \A i \in DOMAIN job.moves :
           i = 1 \/ (i - 1 \in DOMAIN rest /\ rest[i - 1] = job.moves[i])
  <2>1. job.moves \in Seq(Moves)
    BY <1>1 DEF DirectorTypes
  <2>2. /\ 1 \in DOMAIN job.moves /\ move = job.moves[1] /\ move \in Moves
        /\ rest \in Seq(Moves)
        /\ \A i \in DOMAIN rest :
             /\ rest[i] = job.moves[i + 1] /\ i + 1 \in DOMAIN job.moves /\ i \in Nat /\ i > 0
        /\ \A i \in DOMAIN job.moves :
             i = 1 \/ (i - 1 \in DOMAIN rest /\ rest[i - 1] = job.moves[i])
    BY <1>1, <1>a, <2>1, TailIs
  <2> QED
    BY <2>1, <2>2
<1>4. /\ u \in Players /\ a \in Tables /\ b \in Tables
      /\ u \in survivors /\ home[u] = a /\ u \in Crowd(a) /\ a # b /\ a \in Listed /\ b \in Listed
  BY <1>1, <1>3, <1>a DEF Moves, MovesFit, MovesMove, Crowd
<1>5. /\ job'.kind = job.kind /\ job'.moves = rest
      /\ job' \in [kind : {"none", "next", "final", "rebalance"}, moves : Seq(Moves)]
      /\ job.kind \in {"final", "rebalance"} /\ Two(Listed)
  BY <1>1, <1>3, <1>a DEF DirectorTypes, MovesFit
<1>6. /\ \A i \in DOMAIN rest : \E k \in DOMAIN job.moves : k # 1 /\ rest[i] = job.moves[k]
      /\ \A k \in DOMAIN job.moves : k = 1 \/ \E i \in DOMAIN rest : rest[i] = job.moves[k]
      /\ \A i, j \in DOMAIN rest : rest[i].user = rest[j].user => i = j
      /\ \A i \in DOMAIN rest : rest[i].user # u
  <2>1. \A i \in DOMAIN rest : \E k \in DOMAIN job.moves : k # 1 /\ rest[i] = job.moves[k]
    BY <1>3
  <2>2. \A k \in DOMAIN job.moves : k = 1 \/ \E i \in DOMAIN rest : rest[i] = job.moves[k]
    BY <1>3
  <2>3. \A j, k \in DOMAIN job.moves : job.moves[j].user = job.moves[k].user => j = k
    BY <1>1 DEF MovesFit, MovesMove
  <2>4. ASSUME NEW i \in DOMAIN rest, NEW j \in DOMAIN rest, rest[i].user = rest[j].user
        PROVE  i = j
    <3>0. /\ rest[i] = job.moves[i + 1] /\ i + 1 \in DOMAIN job.moves
          /\ rest[j] = job.moves[j + 1] /\ j + 1 \in DOMAIN job.moves
      BY <1>3
    <3>1. i + 1 = j + 1
      BY <2>3, <2>4, <3>0
    <3>2. i \in Int /\ j \in Int
      BY <1>3
    <3> QED
      BY <3>1, <3>2
  <2>5. \A i \in DOMAIN rest : rest[i].user # u
    BY <1>3, <1>a, <2>1, <2>3
  <2> QED
    BY <2>1, <2>2, <2>4, <2>5
<1>7. Listed' = Listed /\ Listed \subseteq Tables
  BY <1>1 DEF Listed, Range, DirectorTypes
<1>8. /\ \A v \in survivors : home'[v] = IF v = u THEN b ELSE home[v]
      /\ home' \in [Players -> Tables]
      /\ \A s \in Tables : seated'[s] = IF s = b THEN seated[s] \cup {u} ELSE seated[s]
      /\ seated' \in [Tables -> SUBSET Players]
  BY <1>1, <1>2, <1>4 DEF DirectorTypes
<1>9. \A s : Crowd(s)' = IF s = b THEN Crowd(s) \cup {u} ELSE Crowd(s) \ {u}
  BY <1>1, <1>4, <1>8 DEF Crowd
<1>10. \A s : Unreported(s)' = Unreported(s)
  BY <1>1 DEF Unreported
<1>11. Lists(roster') /\ Homes'
  <2>1. Range(roster[b]) = Crowd(b) /\ Lists(roster)
    BY <1>1, <1>4 DEF Homes, DirectorTypes
  <2>2. u \notin Range(roster[b])
    BY <1>4, <2>1 DEF Crowd
  <2>3. move.user = u /\ move.from = a /\ move.to = b
    BY <1>a
  <2>4. /\ Lists(roster')
        /\ \A t \in Tables : Range(roster'[t]) =
             IF t = a THEN Range(roster[t]) \ {u} ELSE IF t = b THEN Range(roster[t]) \cup {u}
             ELSE Range(roster[t])
    <3>1. /\ Lists(Entered(roster, move))
          /\ \A t \in Tables : Range(Entered(roster, move)[t]) =
               IF t = a THEN Range(roster[t]) \ {u} ELSE IF t = b THEN Range(roster[t]) \cup {u}
               ELSE Range(roster[t])
      BY <1>4, <2>1, <2>2, <2>3, EnteredIs
    <3> QED
      BY <1>2, <3>1
  <2>5. \A t \in Listed : Range(roster'[t]) = Crowd(t)'
    <3> TAKE t \in Listed
    <3>1. t \in Tables /\ Range(roster[t]) = Crowd(t)
      BY <1>1, <1>7 DEF Homes
    <3>2. t # a => u \notin Crowd(t)
      BY <1>4 DEF Crowd
    <3> QED
      BY <1>4, <1>9, <2>4, <3>1, <3>2
  <2>6. \A v \in survivors : home'[v] \in Listed
    BY <1>1, <1>4, <1>8 DEF Homes
  <2> QED
    BY <1>1, <1>7, <2>4, <2>5, <2>6 DEF Homes
<1>12. DirectorTypes'
  <2>1. /\ transit' \in Players \cup {Nobody} /\ ~(transit' # Nobody)
        /\ (job'.kind \in {"none", "next"} => job'.moves = <<>>)
    BY <1>1, <1>5
  <2> QED
    BY <1>1, <1>5, <1>8, <1>11, <2>1 DEF DirectorTypes
<1>13. Seats'
  <2>1. ClosedAreEmpty'
    BY <1>1, <1>4, <1>7, <1>8 DEF Seats, ClosedAreEmpty
  <2>2. SeatedAreListed'
    <3>1. ASSUME NEW s \in Listed PROVE seated'[s] \subseteq Crowd(s)'
      <4>1. s \in Tables /\ seated[s] \subseteq Crowd(s) /\ u \notin seated[s]
        BY <1>1, <1>5, <1>7 DEF Seats, SeatedAreListed, TransitIsOut
      <4> QED
        BY <1>8, <1>9, <4>1
    <3> QED
      BY <1>7, <3>1 DEF SeatedAreListed
  <2>3. ListedAreSeated'
    <3>1. SUFFICES ASSUME NEW s \in Listed, NEW v \in Crowd(s)'
                   PROVE  v \in seated'[s] \/ v \in Unreported(s) \/ v \in kicked
      BY <1>1, <1>7, <1>10 DEF ListedAreSeated
    <3>2. CASE v = u
      BY <1>7, <1>8, <1>9, <3>1, <3>2
    <3>3. CASE v # u
      BY <1>1, <1>7, <1>8, <1>9, <3>1, <3>3 DEF Seats, ListedAreSeated
    <3> QED
      BY <3>2, <3>3
  <2>4. TransitIsOut'
    BY <1>1, <1>8, MttAssumption DEF TransitIsOut, DirectorTypes
  <2> QED
    BY <2>1, <2>2, <2>3, <2>4 DEF Seats
<1>14. MovesMove'
  <2>1. ASSUME NEW i \in DOMAIN rest
        PROVE  /\ rest[i].from \in Listed /\ rest[i].to \in Listed /\ rest[i].from # rest[i].to
               /\ rest[i].user \in Crowd(rest[i].from)'
    <3>1. PICK k \in DOMAIN job.moves : rest[i] = job.moves[k]
      BY <1>6
    <3> QED
      BY <1>1, <1>6, <1>9, <3>1 DEF MovesFit, MovesMove
  <2> QED
    BY <1>5, <1>6, <1>7, <2>1, <1>a DEF MovesMove
<1>15. MovesHaveRoom'
  <2>1. ASSUME NEW i \in DOMAIN rest
        PROVE  Cardinality(Crowd(rest[i].to)' \cup Coming(rest[i].to)') <= Capacity
    <3>1. PICK k \in DOMAIN job.moves : rest[i] = job.moves[k]
      BY <1>6
    <3> DEFINE s == rest[i].to
               S == Crowd(s) \cup Coming(s)
               T == Crowd(s)' \cup Coming(s)'
    <3>2. Cardinality(S) <= Capacity
      BY <1>1, <3>1 DEF MovesFit, MovesHaveRoom
    <3>3. Coming(s)' = {rest[j].user : j \in {l \in DOMAIN rest : rest[l].to = s}}
      BY <1>5, <1>a DEF Coming
    <3>4. Coming(s)' \subseteq Coming(s)
      <4>1. ASSUME NEW v \in Coming(s)' PROVE v \in Coming(s)
        <5>1. PICK j \in DOMAIN rest : rest[j].to = s /\ rest[j].user = v
          BY <3>3, <4>1
        <5>2. PICK l \in DOMAIN job.moves : rest[j] = job.moves[l]
          BY <1>6
        <5> QED
          BY <5>1, <5>2 DEF Coming
      <4> QED
        BY <4>1
    <3>5. Crowd(s)' \subseteq S
      <4>1. s = b => u \in Coming(s)
        BY <1>3, <1>a DEF Coming
      <4> QED
        BY <1>9, <4>1
    <3>6. T \subseteq S /\ S \in SUBSET Players
      <4>1. S \in SUBSET Players
        <5>a. job.moves \in Seq(Moves)
          BY <1>3
        <5>b. \A l \in DOMAIN job.moves : job.moves[l] \in Moves
          BY <5>a
        <5>1. \A l \in DOMAIN job.moves : job.moves[l].user \in Players
          BY <5>b DEF Moves
        <5>2. Crowd(s) \subseteq Players
          BY <1>1 DEF Crowd, DirectorTypes
        <5>3. Coming(s) \subseteq Players
          BY <5>1 DEF Coming
        <5> QED
          BY <5>2, <5>3
      <4> QED
        BY <3>4, <3>5, <4>1
    <3> HIDE DEF S, T
    <3>7. IsFiniteSet(S) /\ Cardinality(S) \in Nat /\ Cardinality(T) \in Nat
      BY <3>6, PlayersAreFinite
    <3>8. Cardinality(T) <= Cardinality(S)
      BY <3>6, <3>7, FS_Subset
    <3>9. Cardinality(T) <= Capacity
      BY <3>2, <3>7, <3>8, MttAssumption
    <3> QED
      BY <3>9 DEF T
  <2> QED
    BY <1>5, <2>1, <1>a DEF MovesHaveRoom
<1>16. MovesEvenOut'
  <2>1. ASSUME job.kind = "rebalance", NEW i \in DOMAIN rest
        PROVE  ~Three(Crowd(rest[i].from)') /\ Three(Crowd(rest[i].to)')
    <3>1. PICK k \in DOMAIN job.moves : rest[i] = job.moves[k]
      BY <1>6
    <3>2. /\ ~Three(Crowd(rest[i].from)) /\ Three(Crowd(rest[i].to))
          /\ ~Three(Crowd(a)) /\ Three(Crowd(b))
      BY <1>1, <1>3, <2>1, <3>1, <1>a DEF MovesFit, MovesEvenOut
    <3>3. rest[i].from # b /\ rest[i].to # a
      BY <3>2
    <3>4. Crowd(rest[i].from)' \subseteq Crowd(rest[i].from) /\ Crowd(rest[i].to) \subseteq Crowd(rest[i].to)'
      BY <1>4, <1>9, <3>3 DEF Crowd
    <3> QED
      BY <3>2, <3>4 DEF Three
  <2> QED
    BY <1>5, <2>1, <1>a DEF MovesEvenOut
<1>17. MovesMerge'
  <2>1. ASSUME job.kind = "final"
        PROVE  /\ Crowd(b)' # {}
               /\ \A v \in survivors : home'[v] = b \/ \E i \in DOMAIN rest : rest[i].user = v
               /\ \A i \in DOMAIN rest : rest[i].to = b
    <3>1. PICK first \in Listed :
            /\ \A v \in survivors : home[v] = first \/ \E k \in DOMAIN job.moves : job.moves[k].user = v
            /\ \A k \in DOMAIN job.moves : job.moves[k].to = first
      BY <1>1, <2>1 DEF MovesFit, MovesMerge
    <3>2. first = b
      BY <1>3, <3>1, <1>a
    <3>3. Crowd(b)' # {} /\ \A i \in DOMAIN rest : rest[i].to = b
      BY <1>6, <1>9, <3>1, <3>2
    <3>4. ASSUME NEW v \in survivors, home'[v] # b PROVE \E i \in DOMAIN rest : rest[i].user = v
      <4>1. v # u /\ home[v] # first
        BY <1>8, <3>2, <3>4
      <4>2. PICK k \in DOMAIN job.moves : job.moves[k].user = v
        BY <3>1, <4>1
      <4>3. k # 1
        BY <1>3, <4>1, <4>2, <1>a
      <4> QED
        BY <1>6, <4>2, <4>3
    <3> QED
      BY <3>3, <3>4
  <2>2. job.kind = "final" =>
          \E first \in Listed' :
            /\ Crowd(first)' # {}
            /\ \A v \in survivors : home'[v] = first \/ \E i \in DOMAIN rest : rest[i].user = v
            /\ \A i \in DOMAIN rest : rest[i].to = first
    BY <1>4, <1>7, <2>1
  <2>3. job'.moves = rest /\ job'.kind = job.kind /\ survivors' = survivors
    BY <1>1, <1>5
  <2> QED
    BY <2>2, <2>3 DEF MovesMerge
<1>18. MovesFit'
  BY <1>5, <1>7, <1>14, <1>15, <1>16, <1>17 DEF MovesFit
<1>19. Reports'
  <2>1. SUFFICES ASSUME Several, NEW s \in Listed PROVE OwnBusts(s)'
    BY <1>1, <1>5, <1>7 DEF Reports, Several
  <2>2. OwnBusts(s) /\ s \in Tables
    BY <1>1, <1>7, <2>1 DEF Reports
  <2>3. ~Three(Crowd(a)) /\ Three(Crowd(b))
    BY <1>1, <1>3, <1>5, <2>1, <1>a DEF MovesFit, MovesEvenOut, Several
  <2>4. CASE s = a
    <3>1. ~Two(Crowd(a)')
      BY <1>4, <1>9, <2>3 DEF Two, Three
    <3>2. CacheIsOwn(s)' /\ HandIsOwn(s)'
      BY <2>4, <3>1 DEF CacheIsOwn, HandIsOwn
    <3>3. ASSUME NEW i \in DOMAIN events, events[i].from = a
          PROVE  events[i].busted \cap survivors = {}
      <4>1. SUFFICES ASSUME NEW x \in events[i].busted \cap survivors PROVE FALSE
        OBVIOUS
      <4>2. x \in Crowd(a) /\ Two(Spared(a, i))
        BY <2>2, <2>4, <3>3, <4>1 DEF OwnBusts, ReportsAreOwn, Own
      <4>3. PICK y, z \in Spared(a, i) : y # z
        BY <4>2 DEF Two
      <4>4. i <= i
        BY <1>1 DEF DirectorTypes
      <4>5. /\ y \in Crowd(a) /\ z \in Crowd(a)
            /\ y \notin events[i].busted /\ z \notin events[i].busted
        BY <3>3, <4>3, <4>4 DEF Spared
      <4> QED
        BY <2>3, <4>1, <4>2, <4>3, <4>5 DEF Three
    <3>4. ReportsAreOwn(s)'
      BY <1>1, <2>4, <3>3 DEF ReportsAreOwn, Own
    <3>5. ~Playing(a) \/ cache[a] \cap survivors = {}
      <4>1. SUFFICES ASSUME Playing(a), NEW x \in cache[a] \cap survivors PROVE FALSE
        OBVIOUS
      <4>2. PICK y, z \in Crowd(a) \ Unreported(a) : y # z
        BY <2>2, <2>4, <4>1 DEF OwnBusts, HandSpares, Two
      <4>3. x \in Crowd(a) /\ x \in Unreported(a)
        BY <2>2, <2>4, <4>1, <4>2, UnreportedIs DEF OwnBusts, CacheIsOwn, Own, Two
      <4> QED
        BY <2>3, <4>2, <4>3 DEF Three
    <3>6. HandSpares(s)'
      BY <1>1, <2>4, <3>5 DEF HandSpares, Playing
    <3>7. SeatedPlayOn(s)'
      BY <1>4, <1>8, <1>10, <2>2, <2>4 DEF OwnBusts, SeatedPlayOn
    <3> QED
      BY <3>2, <3>4, <3>6, <3>7 DEF OwnBusts
  <2>5. CASE s = b
    <3>1. Crowd(b) \subseteq Crowd(b)' /\ u \notin Crowd(b) /\ Two(Crowd(b))
      BY <1>4, <1>9, <2>3 DEF Crowd, Two, Three
    <3>2. Own(b, cache[b]) /\ (Playing(b) => Own(b, hand[b].dealt))
      BY <2>2, <2>5, <3>1 DEF OwnBusts, CacheIsOwn, HandIsOwn
    <3>3. CacheIsOwn(s)' /\ HandIsOwn(s)'
      BY <1>1, <2>5, <3>1, <3>2 DEF CacheIsOwn, HandIsOwn, Own, Playing
    <3>4. \A i : Spared(b, i) \subseteq Spared(b, i)'
      BY <1>1, <3>1 DEF Spared
    <3>5. ReportsAreOwn(s)'
      <4>1. SUFFICES ASSUME NEW i \in DOMAIN events, events[i].from = b
                     PROVE  /\ events[i].busted \cap survivors \subseteq Crowd(b)'
                            /\ events[i].busted \cap survivors # {} => Two(Spared(b, i)')
        BY <1>1, <2>5 DEF ReportsAreOwn, Own
      <4>2. /\ Own(b, events[i].busted)
            /\ events[i].busted \cap survivors # {} => Two(Spared(b, i))
        BY <2>2, <2>5, <4>1 DEF OwnBusts, ReportsAreOwn
      <4> QED
        BY <3>1, <3>4, <4>2 DEF Own, Two
    <3>6. HandSpares(s)'
      BY <1>1, <1>10, <2>2, <2>5, <3>1 DEF OwnBusts, HandSpares, Playing, Two
    <3>7. u \notin Unreported(b)
      <4>1. u \notin cache[b]
        BY <1>4, <3>1, <3>2 DEF Own
      <4>2. ASSUME NEW i \in DOMAIN events, events[i].from = b PROVE u \notin events[i].busted
        BY <1>4, <2>2, <2>5, <3>1, <4>2 DEF OwnBusts, ReportsAreOwn, Own
      <4> QED
        BY <4>1, <4>2, UnreportedIs
    <3>8. SeatedPlayOn(s)'
      BY <1>4, <1>8, <1>10, <2>2, <2>5, <3>7 DEF OwnBusts, SeatedPlayOn
    <3> QED
      BY <3>3, <3>5, <3>6, <3>8 DEF OwnBusts
  <2>6. CASE s # a /\ s # b
    <3>1. Crowd(s)' = Crowd(s) /\ seated'[s] = seated[s]
      BY <1>4, <1>8, <1>9, <2>2, <2>6 DEF Crowd
    <3>2. ReportsAreOwn(s)' /\ CacheIsOwn(s)' /\ SeatedPlayOn(s)'
      <4>1. \A i : Spared(s, i)' = Spared(s, i)
        BY <1>1, <3>1 DEF Spared
      <4> QED
        BY <1>1, <1>10, <2>2, <3>1, <4>1 DEF OwnBusts, ReportsAreOwn, CacheIsOwn, SeatedPlayOn, Own
    <3>3. HandIsOwn(s)' /\ HandSpares(s)'
      BY <1>1, <1>10, <2>2, <3>1 DEF OwnBusts, HandIsOwn, HandSpares, Own, Playing
    <3> QED
      BY <3>2, <3>3 DEF OwnBusts
  <2> QED
    BY <2>4, <2>5, <2>6
<1> QED
  BY <1>11, <1>12, <1>13, <1>18, <1>19 DEF DirectorInv

(* The tables kept: the others have no players.                            *)
LEMMA KeptTables ==
  ASSUME DirectorInv, job.kind # "none", job.moves = <<>>
  PROVE  /\ Kept \in Seq(Tables) /\ IsInjective(Kept) /\ Range(Kept) \subseteq Listed
         /\ \A t \in Listed \ Range(Kept) : Crowd(t) = {} /\ Two(Listed)
         /\ job.kind = "final" => ~Two(Range(Kept))
<1> DEFINE F == Filled(roster)
<1>1. /\ DirectorTypes /\ Homes /\ MovesFit
  BY DEF DirectorInv
<1>2. /\ F \in Seq(Tables) /\ IsInjective(F) /\ Range(F) = {t \in Listed : roster[t] # <<>>}
  BY <1>1, FilledIs DEF DirectorTypes
<1>3. \A t \in Listed : t \in Tables /\ (roster[t] # <<>> <=> Crowd(t) # {})
  <2> TAKE t \in Listed
  <2>a. t \in Tables
    BY <1>1 DEF Listed, Range, DirectorTypes
  <2>1. t \in Tables /\ Range(roster[t]) = Crowd(t) /\ Lists(roster)
    BY <1>1, <2>a DEF DirectorTypes, Homes
  <2>2. List(roster[t])
    BY <2>1, ListsAre
  <2> QED
    BY <2>1, <2>2, ShortLists
<1> HIDE DEF F
<1>4. Range(F) \subseteq Listed /\ \A t \in Listed \ Range(F) : Crowd(t) = {}
  BY <1>2, <1>3
<1>5. job.kind \in {"final", "rebalance"} => Two(Listed)
  BY <1>1 DEF MovesFit
<1>6. CASE job.kind = "next"
  <2>1. Kept = tables
    BY <1>6 DEF Kept
  <2> QED
    BY <1>1, <1>6, <2>1 DEF DirectorTypes, Listed
<1>7. CASE job.kind = "rebalance"
  <2>1. Kept = F
    BY <1>7 DEF Kept, F
  <2> QED
    BY <1>2, <1>4, <1>5, <1>7, <2>1
<1>8. CASE job.kind = "final"
  <2>1. PICK first \in Listed : Crowd(first) # {} /\ \A u \in survivors : home[u] = first
    <3>1. DOMAIN job.moves = {}
      OBVIOUS
    <3> QED
      BY <1>1, <1>8, <3>1 DEF MovesFit, MovesMerge
  <2>2. Range(F) = {first}
    BY <1>2, <1>3, <2>1 DEF Crowd
  <2>3. Len(F) \in Nat /\ DOMAIN F = 1 .. Len(F) /\ Len(F) # 0
    <3>1. Len(F) \in Nat /\ DOMAIN F = 1 .. Len(F)
      BY <1>2
    <3>2. DOMAIN F # {}
      BY <2>2 DEF Range
    <3> QED
      BY <3>1, <3>2
  <2>4. F[1] = first
    BY <2>2, <2>3 DEF Range
  <2> DEFINE K == SubSeq(F, 1, 1)
  <2>5. K \in Seq(Tables) /\ DOMAIN K = {1} /\ K[1] = F[1]
    BY <1>2, <2>3
  <2>6. Kept = K
    BY <1>8 DEF Kept, F
  <2> HIDE DEF K
  <2>7. Range(K) = {first} /\ IsInjective(K)
    BY <2>4, <2>5 DEF Range, IsInjective
  <2>8. \A t \in Listed \ {first} : Crowd(t) = {}
    BY <2>1 DEF Crowd
  <2> QED
    BY <1>5, <1>8, <2>1, <2>5, <2>6, <2>7, <2>8 DEF Two
<1> QED
  BY <1>1, <1>6, <1>7, <1>8 DEF DirectorTypes

LEMMA GoOnKeeps ==
  ASSUME DirectorInv, GoOn
  PROVE  DirectorInv'
<1>1. /\ DirectorTypes /\ Homes /\ Seats /\ MovesFit /\ Reports
      /\ job # NoJob /\ job.moves = <<>> /\ transit = Nobody
      /\ tables' = Kept /\ job' = NoJob
      /\ starts' = [t \in Tables |-> IF t \in Range(Kept) THEN 1 ELSE starts[t]]
      /\ UNCHANGED <<completed, roster, survivors, home, transit, events, started, atTables>>
  BY DEF DirectorInv, GoOn, Ask, Idle
<1>2. /\ UNCHANGED <<seated, broke, hand, leaving, cache, refused, kicked>>
  BY <1>1 DEF atTables
<1>3. job.kind # "none"
  BY <1>1 DEF DirectorTypes, NoJob
<1>4. /\ tables' \in Seq(Tables) /\ IsInjective(tables') /\ Listed' \subseteq Listed
      /\ \A t \in Listed \ Listed' : Crowd(t) = {} /\ Two(Listed)
      /\ job.kind = "final" => ~Two(Listed')
  BY <1>1, <1>3, KeptTables DEF Listed
<1>5. (\A s : Crowd(s)' = Crowd(s)) /\ (\A s : Unreported(s)' = Unreported(s))
  BY <1>1, <1>2 DEF Crowd, Unreported
<1>6. Listed \subseteq Tables
  BY <1>1 DEF Listed, Range, DirectorTypes
<1>7. DirectorTypes'
  <2>1. starts' \in [Tables -> 0 .. 1]
    BY <1>1 DEF DirectorTypes
  <2>2. /\ job' \in [kind : {"none", "next", "final", "rebalance"}, moves : Seq(Moves)]
        /\ job'.moves = <<>>
    BY <1>1 DEF NoJob
  <2>3. transit' = Nobody
    BY <1>1
  <2> QED
    BY <1>1, <1>2, <1>4, <2>1, <2>2, <2>3 DEF DirectorTypes
<1>8. Homes'
  <2>1. \A u \in survivors : home[u] \in Listed'
    BY <1>1, <1>4 DEF Homes, Crowd
  <2>2. \A t \in Listed' : Range(roster[t]) = Crowd(t)
    BY <1>1, <1>4 DEF Homes
  <2> QED
    BY <1>1, <1>5, <2>1, <2>2 DEF Homes
<1>9. Seats'
  <2>1. \A t \in Listed \ Listed' : seated[t] = {}
    BY <1>1, <1>4 DEF Seats, SeatedAreListed
  <2>2. ClosedAreEmpty'
    BY <1>1, <1>2, <1>6, <2>1 DEF Seats, ClosedAreEmpty
  <2>3. SeatedAreListed'
    BY <1>1, <1>2, <1>4, <1>5 DEF Seats, SeatedAreListed, Two
  <2>4. ListedAreSeated' /\ TransitIsOut'
    BY <1>1, <1>2, <1>4, <1>5 DEF Seats, ListedAreSeated, TransitIsOut
  <2> QED
    BY <2>2, <2>3, <2>4 DEF Seats
<1>10. MovesFit'
  <2>1. DOMAIN job'.moves = {} /\ job'.kind = "none"
    BY <1>1 DEF NoJob
  <2> QED
    BY <2>1 DEF MovesFit, MovesMove, MovesHaveRoom, MovesEvenOut, MovesMerge
<1>11. Reports'
  <2>1. SUFFICES ASSUME Two(Listed'), NEW s \in Listed' PROVE OwnBusts(s)'
    BY DEF Reports, Several
  <2>2. Several /\ s \in Listed
    BY <1>4, <2>1 DEF Several, Two
  <2>3. OwnBusts(s)
    BY <1>1, <2>2 DEF Reports
  <2>4. \A i : Spared(s, i)' = Spared(s, i)
    BY <1>1, <1>5 DEF Spared
  <2>5. ReportsAreOwn(s)' /\ CacheIsOwn(s)' /\ SeatedPlayOn(s)'
    BY <1>1, <1>2, <1>5, <2>3, <2>4 DEF OwnBusts, ReportsAreOwn, CacheIsOwn, SeatedPlayOn, Own
  <2>6. HandIsOwn(s)' /\ HandSpares(s)'
    BY <1>1, <1>2, <1>5, <2>3 DEF OwnBusts, HandIsOwn, HandSpares, Own, Playing
  <2> QED
    BY <2>5, <2>6 DEF OwnBusts
<1> QED
  BY <1>7, <1>8, <1>9, <1>10, <1>11 DEF DirectorInv

-----------------------------------------------------------------------------
(* What the director decides to do can be done.                            *)
AnswerFits(answer, moves, left, crowd) ==
  /\ answer \in [kind : {"next", "final", "rebalance"}, moves : Seq(Moves)]
  /\ answer.kind = "next" => moves = <<>>
  /\ answer.kind \in {"final", "rebalance"} => Two(Listed)
  /\ \A k \in DOMAIN moves :
       /\ moves[k].from \in Listed /\ moves[k].to \in Listed /\ moves[k].from # moves[k].to
       /\ moves[k].user \in crowd[moves[k].from]
  /\ \A j, k \in DOMAIN moves : moves[j].user = moves[k].user => j = k
  /\ \A k \in DOMAIN moves :
       Cardinality(crowd[moves[k].to]
         \cup {moves[i].user : i \in {j \in DOMAIN moves : moves[j].to = moves[k].to}}) <= Capacity
  /\ answer.kind = "rebalance" =>
       \A k \in DOMAIN moves : ~Three(crowd[moves[k].from]) /\ Three(crowd[moves[k].to])
  /\ answer.kind = "final" =>
       \E first \in Listed :
         /\ crowd[first] # {}
         /\ \A u \in left : home[u] = first \/ \E k \in DOMAIN moves : moves[k].user = u
         /\ \A k \in DOMAIN moves : moves[k].to = first

LEMMA AnswersFit ==
  ASSUME DirectorTypes, NEW left \in SUBSET Players, Cardinality(left) > 1,
         NEW lists, Lists(lists), NEW crowd,
         \A t \in Tables : \A u : u \in crowd[t] <=> u \in left /\ home[u] = t,
         \A u \in left : home[u] \in Listed, \A t \in Listed : Range(lists[t]) = crowd[t],
         NEW answer \in Answers(left, lists), NEW moves, moves = answer.moves
  PROVE  AnswerFits(answer, moves, left, crowd)
<1>1. /\ tables \in Seq(Tables) /\ IsInjective(tables) /\ Len(tables) \in Nat
      /\ DOMAIN tables = 1 .. Len(tables) /\ home \in [Players -> Tables]
  BY DEF DirectorTypes
<1>2. Listed \subseteq Tables
  BY <1>1 DEF Listed, Range
<1>3. \A t \in Tables : crowd[t] = {u \in left : home[u] = t}
  OBVIOUS
<1>4. Disjoint(lists)
  BY <1>2, <1>3 DEF Disjoint
<1>5. /\ Cardinality(left) \in Nat /\ IsFiniteSet(left) /\ Capacity \in Nat /\ Capacity > 2
  BY PlayersAreFinite, MttAssumption
<1>6. Len(tables) > 1 => Two(Listed)
  <2>1. SUFFICES ASSUME Len(tables) > 1 PROVE Two(Listed)
    OBVIOUS
  <2>2. 1 \in DOMAIN tables /\ 2 \in DOMAIN tables
    BY <1>1, <2>1
  <2>3. tables[1] # tables[2]
    BY <1>1, <2>2 DEF IsInjective
  <2> QED
    BY <2>2, <2>3 DEF Two, Listed, Range
<1>7. \A t \in Listed : /\ (lists[t] # <<>> <=> crowd[t] # {})
                        /\ (Short(lists[t]) <=> ~Three(crowd[t]))
                        /\ Len(lists[t]) = Cardinality(crowd[t])
  <2> TAKE t \in Listed
  <2>1. List(lists[t]) /\ Range(lists[t]) = crowd[t]
    BY <1>2, ListsAre
  <2> QED
    BY <2>1, ShortLists, ListCounts
<1>8. left # {}
  BY <1>5, FS_EmptySet
<1>9. CASE answer = [kind |-> "next", moves |-> <<>>]
  <2>1. /\ answer.kind = "next" /\ moves = <<>> /\ DOMAIN moves = {}
        /\ answer \in [kind : {"next", "final", "rebalance"}, moves : Seq(Moves)]
    BY <1>9
  <2> QED
    BY <2>1 DEF AnswerFits
<1>10. CASE /\ Cardinality(left) <= Capacity /\ Len(tables) > 1
            /\ answer = [kind |-> "final", moves |-> FinalMoves(lists)]
  <2>1. PICK someone \in left : TRUE
    BY <1>8
  <2>2. home[someone] \in Listed /\ lists[home[someone]] # <<>>
    BY <1>2, <1>3, <1>7
  <2>3. moves = FinalMoves(lists) /\ answer.kind = "final" /\ answer.moves = moves
    BY <1>10
  <2>4. /\ MovesAre(moves, lists)
        /\ \E first \in Listed : MergesInto(first, moves, lists)
    BY <1>1, <1>4, <2>2, <2>3, FinalMovesAre
  <2>5. answer \in [kind : {"next", "final", "rebalance"}, moves : Seq(Moves)]
    BY <1>10, <2>3, <2>4 DEF MovesAre
  <2>6. /\ \A k \in DOMAIN moves :
             /\ moves[k].from \in Listed /\ moves[k].to \in Listed /\ moves[k].from # moves[k].to
             /\ moves[k].user \in crowd[moves[k].from]
        /\ \A j, k \in DOMAIN moves : moves[j].user = moves[k].user => j = k
    <3>1. MovesAre(moves, lists)
      BY <2>4
    <3>2. ASSUME NEW k \in DOMAIN moves
          PROVE  /\ moves[k].from \in Listed /\ moves[k].to \in Listed /\ moves[k].from # moves[k].to
                 /\ moves[k].user \in crowd[moves[k].from]
      <4>1. /\ moves[k].from \in Listed /\ moves[k].to \in Listed /\ moves[k].from # moves[k].to
            /\ moves[k].user \in Range(lists[moves[k].from])
        BY ONLY <3>1, <3>2 DEF MovesAre
      <4> QED
        BY <4>1
    <3>3. \A j, k \in DOMAIN moves : moves[j].user = moves[k].user => j = k
      BY ONLY <3>1 DEF MovesAre
    <3> QED
      BY <3>2, <3>3
  <2>7. ASSUME NEW k \in DOMAIN moves
        PROVE  Cardinality(crowd[moves[k].to]
                 \cup {moves[i].user : i \in {j \in DOMAIN moves : moves[j].to = moves[k].to}}) <= Capacity
    <3> DEFINE S == crowd[moves[k].to]
                      \cup {moves[i].user : i \in {j \in DOMAIN moves : moves[j].to = moves[k].to}}
    <3>1. S \in SUBSET left
      <4>1. \A i \in DOMAIN moves : moves[i].user \in left
        BY <1>2, <1>3, <2>6
      <4>2. crowd[moves[k].to] \subseteq left
        BY <1>2, <1>3, <2>6
      <4> QED
        BY <4>1, <4>2
    <3> HIDE DEF S
    <3>2. Cardinality(S) <= Cardinality(left) /\ Cardinality(S) \in Nat
      BY <1>5, <3>1, FS_Subset, FS_CardinalityType
    <3>3. Cardinality(S) <= Capacity
      BY <1>5, <1>10, <3>2
    <3> QED
      BY <3>3 DEF S
  <2>8. \E first \in Listed :
          /\ crowd[first] # {}
          /\ \A u \in left : home[u] = first \/ \E k \in DOMAIN moves : moves[k].user = u
          /\ \A k \in DOMAIN moves : moves[k].to = first
    <3>0. PICK first \in Listed : MergesInto(first, moves, lists)
      BY <2>4
    <3>1. lists[first] # <<>> /\ \A k \in DOMAIN moves : moves[k].to = first
      BY <3>0 DEF MergesInto
    <3>2. \A u \in left : home[u] = first \/ \E k \in DOMAIN moves : moves[k].user = u
      <4> TAKE u \in left
      <4>1. home[u] \in Listed /\ u \in Range(lists[home[u]])
        BY <1>2, <1>3
      <4> QED
        BY <3>0, <4>1 DEF MergesInto, Covers
    <3> QED
      BY <1>7, <3>1, <3>2
  <2> QED
    BY <1>6, <1>10, <2>3, <2>5, <2>6, <2>7, <2>8 DEF AnswerFits
<1>11. CASE /\ Cardinality(left) > Capacity /\ \E t \in Listed : Short(lists[t])
            /\ \E m \in RebalanceMoves(lists) : answer = [kind |-> "rebalance", moves |-> m]
  <2>1. answer.kind = "rebalance" /\ moves \in RebalanceMoves(lists)
        /\ answer = [kind |-> "rebalance", moves |-> moves]
    BY <1>11
  <2>2. /\ MovesAre(moves, lists)
        /\ \A k \in DOMAIN moves : Short(lists[moves[k].from]) /\ ~Short(lists[moves[k].to])
        /\ HaveRoom(moves, lists)
    BY <1>1, <1>4, <2>1, RebalanceMovesAre
  <2>3. answer \in [kind : {"next", "final", "rebalance"}, moves : Seq(Moves)]
    BY <2>1, <2>2 DEF MovesAre
  <2>4. /\ \A k \in DOMAIN moves :
             /\ moves[k].from \in Listed /\ moves[k].to \in Listed /\ moves[k].from # moves[k].to
             /\ moves[k].user \in crowd[moves[k].from]
        /\ \A j, k \in DOMAIN moves : moves[j].user = moves[k].user => j = k
    BY <2>2 DEF MovesAre
  <2>5. \A k \in DOMAIN moves : ~Three(crowd[moves[k].from]) /\ Three(crowd[moves[k].to])
    BY <1>7, <2>2, <2>4
  <2>6. ASSUME NEW k \in DOMAIN moves
        PROVE  Cardinality(crowd[moves[k].to]
                 \cup {moves[i].user : i \in {j \in DOMAIN moves : moves[j].to = moves[k].to}}) <= Capacity
    <3> DEFINE b == moves[k].to
               C == {j \in DOMAIN moves : moves[j].to = b}
               M == {moves[i].user : i \in C}
               f == [i \in C |-> moves[i].user]
    <3>1. IsFiniteSet(C)
      <4>1. moves \in Seq(Moves)
        BY <2>2 DEF MovesAre
      <4>2. Len(moves) \in Nat /\ DOMAIN moves = 1 .. Len(moves)
        BY <4>1
      <4>3. IsFiniteSet(1 .. Len(moves)) /\ C \in SUBSET (1 .. Len(moves))
        BY <4>2, FS_Interval
      <4> QED
        BY <4>3, FS_Subset
    <3>2. f \in Surjection(C, M)
      BY DEF Surjection
    <3>3. b \in Listed /\ b \in Tables /\ crowd[b] \in SUBSET left /\ Cardinality(crowd[b]) = Len(lists[b])
      BY <1>2, <1>3, <1>7, <2>4
    <3>4. Len(lists[b]) + Cardinality(C) <= Capacity
      BY <2>2 DEF HaveRoom
    <3> HIDE DEF b, C, M, f
    <3>5. IsFiniteSet(M) /\ Cardinality(M) <= Cardinality(C)
      BY <3>1, <3>2, FS_Surjection
    <3>6. /\ Cardinality(M) \in Nat /\ Cardinality(C) \in Nat
          /\ IsFiniteSet(crowd[b]) /\ Cardinality(crowd[b]) \in Nat
      BY <1>5, <3>1, <3>3, <3>5, FS_CardinalityType, FS_Subset
    <3>7. /\ Cardinality(crowd[b] \cup M)
               = Cardinality(crowd[b]) + Cardinality(M) - Cardinality(crowd[b] \cap M)
          /\ Cardinality(crowd[b] \cap M) \in Nat
      BY <3>5, <3>6, FS_Union, FS_Intersection, FS_CardinalityType
    <3>8. Cardinality(crowd[b] \cup M) <= Capacity
      BY <1>5, <3>3, <3>4, <3>5, <3>6, <3>7
    <3> QED
      BY <3>8 DEF b, C, M
  <2>7. Two(Listed)
    <3>1. SUFFICES ASSUME ~Two(Listed) PROVE FALSE
      OBVIOUS
    <3>2. PICK t \in Listed : Short(lists[t])
      BY <1>11
    <3>3. \A u \in left : home[u] = t
      BY <3>1 DEF Two
    <3>4. crowd[t] = left
      BY <1>2, <1>3, <3>3
    <3>5. Cardinality(left) = Len(lists[t])
      BY <1>7, <3>4
    <3> QED
      BY <1>5, <1>11, <3>2, <3>5 DEF Short
  <2> QED
    BY <2>1, <2>3, <2>4, <2>5, <2>6, <2>7 DEF AnswerFits
<1>12. \/ answer = [kind |-> "next", moves |-> <<>>]
       \/ /\ Cardinality(left) <= Capacity /\ Len(tables) > 1
          /\ answer = [kind |-> "final", moves |-> FinalMoves(lists)]
       \/ /\ Cardinality(left) > Capacity /\ \E t \in Listed : Short(lists[t])
          /\ \E m \in RebalanceMoves(lists) : answer = [kind |-> "rebalance", moves |-> m]
  BY Zenon DEF Answers
<1> QED
  BY <1>9, <1>10, <1>11, <1>12

(* The report of a hand: its busts are struck off, and what follows is     *)
(* decided.                                                                *)
LEMMA HandleHandCompletedKeeps ==
  ASSUME DirectorInv, HandleHandCompleted
  PROVE  DirectorInv'
<1>1. PICK f, busted, left, lists :
        /\ f = Head(events).from /\ busted = Head(events).busted
        /\ left = survivors \ (busted \cap survivors)
        /\ lists = [roster EXCEPT ![f] = Struck(@, busted \cap survivors)]
  OBVIOUS
<1>2. /\ DirectorTypes /\ Homes /\ Seats /\ MovesFit /\ Reports
      /\ Idle /\ events # <<>> /\ events' = Tail(events)
      /\ UNCHANGED <<tables, home, transit, starts, started, atTables>>
  BY DEF DirectorInv, HandleHandCompleted
<1>3. IF f \notin Listed
      THEN UNCHANGED <<completed, survivors, roster, job>>
      ELSE /\ survivors' = left /\ roster' = lists
           /\ IF Cardinality(left) <= 1
              THEN completed' = TRUE /\ UNCHANGED job
              ELSE job' \in Answers(left, lists) /\ UNCHANGED completed
  BY <1>1 DEF HandleHandCompleted
<1>4. UNCHANGED <<seated, broke, hand, leaving, cache, refused, kicked>>
  BY <1>2 DEF atTables
<1>5. /\ job = NoJob /\ job.kind = "none" /\ job.moves = <<>> /\ transit = Nobody
      /\ Listed' = Listed /\ Listed \subseteq Tables
  BY <1>2 DEF Idle, NoJob, Listed, Range, DirectorTypes
<1>6. /\ f \in Tables /\ busted \in SUBSET Players /\ events' \in Seq([from : Tables, busted : SUBSET Players])
      /\ 1 \in DOMAIN events /\ events[1].from = f /\ events[1].busted = busted
      /\ \A i \in DOMAIN events' : events'[i] = events[i + 1] /\ i + 1 \in DOMAIN events /\ i \in Nat /\ i > 0
      /\ \A i \in DOMAIN events : i = 1 \/ (/\ i - 1 \in DOMAIN events' /\ events'[i - 1] = events[i]
                                            /\ i \in Nat)
  <2>1. events \in Seq([from : Tables, busted : SUBSET Players])
    BY <1>2 DEF DirectorTypes
  <2>2. Head(events) \in [from : Tables, busted : SUBSET Players] /\ Head(events) = events[1]
    BY <1>2, <2>1, TailIs
  <2>3. f \in Tables /\ busted \in SUBSET Players /\ events[1].from = f /\ events[1].busted = busted
    BY <1>1, <2>2
  <2> QED
    BY <1>2, <2>1, <2>3, TailIs
<1>7. PICK D : D = IF f \in Listed THEN busted \cap survivors ELSE {}
  OBVIOUS
<1>8. D \subseteq busted /\ D \subseteq survivors /\ (f \in Listed => D = busted \cap survivors)
  BY <1>7
<1>9. D \subseteq Crowd(f)
  <2>1. CASE f \notin Listed
    BY <1>7, <2>1
  <2>2. CASE f \in Listed /\ Two(Listed)
    <3>1. OwnBusts(f)
      BY <1>2, <1>5, <2>2 DEF Reports, Several
    <3>2. Own(f, busted)
      BY <1>6, <3>1 DEF OwnBusts, ReportsAreOwn
    <3> QED
      BY <1>7, <2>2, <3>2 DEF Own
  <2>3. CASE f \in Listed /\ ~Two(Listed)
    BY <1>2, <1>8, <2>3 DEF Homes, Two, Crowd
  <2> QED
    BY <2>1, <2>2, <2>3
<1>10. survivors' = survivors \ D /\ \A t : Crowd(t)' = Crowd(t) \ D
  <2>1. survivors' = survivors \ D
    BY <1>1, <1>3, <1>7
  <2> QED
    BY <1>2, <2>1 DEF Crowd
<1>11. \A t : t # f => Crowd(t) \cap D = {}
  BY <1>9 DEF Crowd
<1>12. Lists(roster') /\ \A t \in Listed : Range(roster'[t]) = Crowd(t) \ D
  <2>1. Lists(roster) /\ \A t \in Listed : Range(roster[t]) = Crowd(t)
    BY <1>2 DEF DirectorTypes, Homes
  <2>2. CASE f \notin Listed
    BY <1>3, <1>7, <2>1, <2>2
  <2>3. CASE f \in Listed
    <3>1. List(roster[f])
      BY <1>6, <2>1, ListsAre
    <3>2. List(Struck(roster[f], D)) /\ Range(Struck(roster[f], D)) = Range(roster[f]) \ D
      BY <3>1, StruckIs
    <3>3. roster' = [roster EXCEPT ![f] = Struck(roster[f], D)]
      BY <1>1, <1>3, <1>8, <2>3
    <3>4. roster'[f] = Struck(roster[f], D) /\ \A t \in Tables : t # f => roster'[t] = roster[t]
      BY <1>6, <2>1, <3>3 DEF Lists
    <3>5. roster' \in [Tables -> Seq(Players)]
      BY <1>6, <2>1, <3>2, <3>3 DEF Lists, List
    <3>6. Lists(roster')
      BY <2>1, <3>2, <3>4, <3>5 DEF Lists, List
    <3>7. ASSUME NEW t \in Listed PROVE Range(roster'[t]) = Crowd(t) \ D
      <4>1. CASE t = f
        BY <2>1, <2>3, <3>2, <3>4, <4>1
      <4>2. CASE t # f
        <5>1. roster'[t] = roster[t] /\ Range(roster[t]) = Crowd(t)
          BY <1>5, <2>1, <3>4, <4>2
        <5> QED
          BY <1>11, <4>2, <5>1
      <4> QED
        BY <4>1, <4>2
    <3> QED
      BY <3>6, <3>7
  <2> QED
    BY <2>2, <2>3
<1>13. /\ \A s, u : u \in Unreported(s)' => u \in Unreported(s)
       /\ \A s, u : u \in Unreported(s) /\ u \notin Unreported(s)' => s = f /\ u \in busted
       /\ busted \subseteq Unreported(f)
  <2>1. ASSUME NEW s, NEW u, u \in Unreported(s)' PROVE u \in Unreported(s)
    <3>1. u \in cache'[s] \/ \E i \in DOMAIN events' : events'[i].from = s /\ u \in events'[i].busted
      BY <2>1, UnreportedWill
    <3>2. u \in cache[s] \/ \E i \in DOMAIN events : events[i].from = s /\ u \in events[i].busted
      BY <1>4, <1>6, <3>1
    <3> QED
      BY <3>2, UnreportedIs
  <2>2. ASSUME NEW s, NEW u, u \in Unreported(s), u \notin Unreported(s)'
        PROVE  s = f /\ u \in busted
    <3>1. u \in cache[s] \/ \E i \in DOMAIN events : events[i].from = s /\ u \in events[i].busted
      BY <2>2, UnreportedIs
    <3>2. /\ u \notin cache'[s]
          /\ \A i \in DOMAIN events' : ~(events'[i].from = s /\ u \in events'[i].busted)
      BY <2>2, UnreportedWill
    <3>3. PICK i \in DOMAIN events : events[i].from = s /\ u \in events[i].busted
      BY <1>4, <3>1, <3>2
    <3>4. i = 1
      BY <1>6, <3>2, <3>3
    <3> QED
      BY <1>6, <3>3, <3>4
  <2>3. ASSUME NEW u \in busted PROVE u \in Unreported(f)
    BY <1>6, <2>3, UnreportedIs
  <2> QED
    BY <2>1, <2>2, <2>3
<1>14. survivors' \in SUBSET Players /\ \A u \in survivors' : home[u] \in Listed
  BY <1>2, <1>10 DEF Homes, DirectorTypes
<1>15. Homes'
  BY <1>2, <1>5, <1>10, <1>12, <1>14 DEF Homes
<1>16. Seats'
  <2>1. ClosedAreEmpty' /\ TransitIsOut'
    BY <1>2, <1>4, <1>5 DEF Seats, ClosedAreEmpty, TransitIsOut
  <2>2. SeatedAreListed'
    <3>1. SUFFICES ASSUME Two(Listed), NEW t \in Listed PROVE seated[t] \subseteq Crowd(t) \ D
      BY <1>4, <1>5, <1>10 DEF SeatedAreListed
    <3>2. seated[t] \subseteq Crowd(t) /\ OwnBusts(t)
      BY <1>2, <1>5, <3>1 DEF Seats, SeatedAreListed, Reports, Several
    <3>3. seated[t] \cap Unreported(t) = {}
      BY <3>2 DEF OwnBusts, SeatedPlayOn
    <3> QED
      BY <1>8, <1>11, <1>13, <3>2, <3>3
  <2>3. ListedAreSeated'
    <3>1. SUFFICES ASSUME NEW t \in Listed, NEW u \in Crowd(t), u \notin D,
                          u \notin seated[t], u \notin kicked, u # transit
                   PROVE  u \in Unreported(t)'
      BY <1>2, <1>4, <1>5, <1>10 DEF ListedAreSeated
    <3>2. u \in Unreported(t)
      BY <1>2, <3>1 DEF Seats, ListedAreSeated
    <3>3. u \in survivors
      BY DEF Crowd
    <3> QED
      BY <1>8, <1>13, <3>1, <3>2, <3>3
  <2> QED
    BY <2>1, <2>2, <2>3 DEF Seats
<1>17. Reports'
  <2>1. SUFFICES ASSUME Two(Listed), NEW s \in Listed PROVE OwnBusts(s)'
    BY <1>5 DEF Reports, Several
  <2>2. OwnBusts(s)
    BY <1>2, <1>5, <2>1 DEF Reports, Several
  <2>3. \A u \in D : u \in Crowd(s) => s = f
    BY <1>11
  <2>4. \A S : Own(s, S) => Own(s, S)'
    BY <1>10 DEF Own
  <2>5. ~Two(Crowd(s)) => ~Two(Crowd(s))'
    BY <1>10 DEF Two
  <2>6. ReportsAreOwn(s)'
    <3>1. SUFFICES ASSUME NEW i \in DOMAIN events', events'[i].from = s
                   PROVE  /\ Own(s, events[i].busted)'
                          /\ events'[i].busted \cap survivors' # {} => Two(Spared(s, i)')
      BY <1>5 DEF ReportsAreOwn
    <3>2. /\ i + 1 \in DOMAIN events /\ events[i + 1].from = s /\ events'[i] = events[i + 1]
          /\ i \in Nat
      BY <1>6, <3>1
    <3>3. /\ Own(s, events[i + 1].busted)
          /\ events[i + 1].busted \cap survivors # {} => Two(Spared(s, i + 1))
      BY <2>2, <3>2 DEF OwnBusts, ReportsAreOwn
    <3>4. Own(s, events[i].busted)'
      BY <1>10, <3>2, <3>3 DEF Own
    <3>5. Spared(s, i + 1) \subseteq Spared(s, i)'
      <4>1. SUFFICES ASSUME NEW u \in Crowd(s),
                            \A j \in DOMAIN events : j <= i + 1 /\ events[j].from = s => u \notin events[j].busted
                     PROVE  /\ u \in Crowd(s) \ D
                            /\ \A j \in DOMAIN events' : j <= i /\ events'[j].from = s => u \notin events'[j].busted
        BY <1>10 DEF Spared
      <4>2. u \notin D
        BY <1>6, <1>8, <2>3, <3>2, <4>1
      <4>3. ASSUME NEW j \in DOMAIN events', j <= i, events'[j].from = s
            PROVE  u \notin events'[j].busted
        <5>1. j + 1 \in DOMAIN events /\ j + 1 <= i + 1 /\ events'[j] = events[j + 1]
          BY <1>6, <3>2, <4>3
        <5> QED
          BY <4>1, <4>3, <5>1
      <4> QED
        BY <4>1, <4>2, <4>3
    <3>6. events'[i].busted \cap survivors' # {} => Two(Spared(s, i)')
      BY <1>10, <3>2, <3>3, <3>5 DEF Two
    <3> QED
      BY <3>4, <3>6
  <2>7. CacheIsOwn(s)' /\ HandIsOwn(s)'
    <3>1. CacheIsOwn(s)'
      <4>1. Own(s, cache[s]) \/ ~Two(Crowd(s))
        BY <2>2 DEF OwnBusts, CacheIsOwn
      <4>2. Own(s, cache[s]) => Own(s, cache[s])'
        BY <1>4, <1>10 DEF Own
      <4> QED
        BY <1>4, <2>5, <4>1, <4>2 DEF CacheIsOwn, Own
    <3>2. HandIsOwn(s)'
      BY <1>4, <1>10, <2>2, <2>5 DEF OwnBusts, HandIsOwn, Own, Playing
    <3> QED
      BY <3>1, <3>2
  <2>8. HandSpares(s)'
    <3>1. SUFFICES ASSUME Playing(s), cache[s] \cap survivors # {}
                   PROVE  Two((Crowd(s) \ Unreported(s))')
      BY <1>4, <1>10 DEF HandSpares, Playing
    <3>2. Two(Crowd(s) \ Unreported(s))
      BY <2>2, <3>1 DEF OwnBusts, HandSpares
    <3>3. Crowd(s) \ Unreported(s) \subseteq (Crowd(s) \ Unreported(s))'
      BY <1>8, <1>10, <1>13, <2>3
    <3> QED
      BY <3>2, <3>3 DEF Two
  <2>9. SeatedPlayOn(s)'
    BY <1>4, <1>13, <2>2 DEF OwnBusts, SeatedPlayOn
  <2> QED
    BY <2>6, <2>7, <2>8, <2>9 DEF OwnBusts
<1>18. CASE job' = NoJob
  <2>1. DirectorTypes'
    <3>1. completed' \in BOOLEAN
      BY <1>2, <1>3 DEF DirectorTypes
    <3>2. /\ job' \in [kind : {"none", "next", "final", "rebalance"}, moves : Seq(Moves)]
          /\ job'.moves = <<>> /\ transit' = Nobody
      BY <1>2, <1>5, <1>18 DEF NoJob
    <3> QED
      BY <1>2, <1>4, <1>6, <1>12, <1>14, <3>1, <3>2 DEF DirectorTypes
  <2>2. MovesFit'
    <3>1. DOMAIN job'.moves = {} /\ job'.kind = "none"
      BY <1>18 DEF NoJob
    <3> QED
      BY <3>1 DEF MovesFit, MovesMove, MovesHaveRoom, MovesEvenOut, MovesMerge
  <2> QED
    BY <1>15, <1>16, <1>17, <2>1, <2>2 DEF DirectorInv
<1>19. CASE /\ f \in Listed /\ survivors' = left /\ roster' = lists /\ Cardinality(left) > 1
            /\ job' \in Answers(left, lists) /\ UNCHANGED completed
  <2> DEFINE crowd == [t \in Tables |-> {u \in left : home[u] = t}]
  <2>1. \A t \in Tables : crowd[t] = Crowd(t)' /\ crowd[t] = Crowd(t) \ D
    BY <1>2, <1>10, <1>19 DEF Crowd
  <2>2. PICK answer, moves : answer = job' /\ moves = answer.moves
    OBVIOUS
  <2>3. PICK places : places = crowd
    OBVIOUS
  <2>a. \A t \in Tables : \A u : u \in places[t] <=> u \in left /\ home[u] = t
    BY <2>3
  <2>b. DirectorTypes /\ Cardinality(left) > 1
    BY <1>2, <1>19
  <2>4. /\ left \in SUBSET Players /\ Lists(lists) /\ \A u \in left : home[u] \in Listed
        /\ \A t \in Listed : Range(lists[t]) = places[t]
        /\ answer \in Answers(left, lists)
    BY <1>5, <1>12, <1>14, <1>19, <2>1, <2>2, <2>3
  <2>5. AnswerFits(answer, moves, left, places)
    BY ONLY <2>a, <2>b, <2>2, <2>4, AnswersFit
  <2>6. \A t \in Listed : places[t] = Crowd(t)'
    BY <1>5, <2>1, <2>3
  <2>7. MovesFit'
    <3>1. MovesMove'
      BY <1>5, <2>2, <2>5, <2>6 DEF AnswerFits, MovesMove
    <3>2. MovesHaveRoom'
      BY <2>2, <2>5, <2>6 DEF AnswerFits, MovesHaveRoom, Coming
    <3>3. MovesEvenOut'
      BY <2>2, <2>5, <2>6 DEF AnswerFits, MovesEvenOut
    <3>4. MovesMerge'
      BY <1>2, <1>5, <1>19, <2>2, <2>5, <2>6 DEF AnswerFits, MovesMerge
    <3> QED
      BY <1>5, <2>2, <2>5, <3>1, <3>2, <3>3, <3>4 DEF AnswerFits, MovesFit
  <2>8. DirectorTypes'
    <3>1. /\ job' \in [kind : {"none", "next", "final", "rebalance"}, moves : Seq(Moves)]
          /\ job'.kind \in {"none", "next"} => job'.moves = <<>>
      BY <2>2, <2>5 DEF AnswerFits
    <3>2. completed' \in BOOLEAN /\ transit' = Nobody
      BY <1>2, <1>5, <1>19 DEF DirectorTypes
    <3> QED
      BY <1>2, <1>4, <1>6, <1>12, <1>14, <3>1, <3>2 DEF DirectorTypes
  <2> QED
    BY <1>15, <1>16, <1>17, <2>7, <2>8 DEF DirectorInv
<1>20. Cardinality(left) \in Nat
  <2>1. left \in SUBSET Players
    BY <1>1, <1>2 DEF DirectorTypes
  <2> QED
    BY <2>1, PlayersAreFinite
<1> QED
  BY <1>3, <1>5, <1>18, <1>19, <1>20

-----------------------------------------------------------------------------
(* The tournament begins with everybody at one table.                      *)
LEMMA DealtAre ==
  ASSUME NEW entry \in Bijection(1 .. Cardinality(Players), Players)
  PROVE  /\ \A t \in Tables : List(Dealt(entry, t))
         /\ \A u \in Players : \E t \in Tables : u \in Range(Dealt(entry, t))
         /\ \A u, s, t : s \in Tables /\ t \in Tables /\ u \in Range(Dealt(entry, s))
                           /\ u \in Range(Dealt(entry, t)) => s = t
<1> DEFINE n == Cardinality(Players)
           Turn(t) == {entry[i] : i \in {j \in DOMAIN entry : (j - 1) % NumTables = t - 1}}
<1>1. n \in Nat /\ NumTables \in Nat /\ NumTables > 0
  BY SomeTables
<1>2. /\ entry \in [1 .. n -> Players] /\ DOMAIN entry = 1 .. n
      /\ \A i, j \in DOMAIN entry : entry[i] = entry[j] => i = j
      /\ \A u \in Players : \E i \in DOMAIN entry : entry[i] = u
  <2>1. entry \in Injection(1 .. n, Players) /\ entry \in Surjection(1 .. n, Players)
    BY DEF Bijection
  <2>2. /\ entry \in [1 .. n -> Players]
        /\ \A i, j \in 1 .. n : entry[i] = entry[j] => i = j
    BY <2>1, Zenon DEF Injection, IsInjective
  <2>3. \A u \in Players : \E i \in 1 .. n : entry[i] = u
    BY <2>1, Zenon DEF Surjection
  <2> QED
    BY <2>2, <2>3
<1> HIDE DEF n
<1>3. entry \in Seq(Players) /\ IsInjective(entry)
  BY <1>1, <1>2 DEF IsInjective
<1>4. \A t \in Tables : /\ List(Dealt(entry, t))
                        /\ Range(Dealt(entry, t)) = Range(entry) \cap Turn(t)
  BY <1>3, KeptIs DEF Dealt, List
<1>5. \A u, t : u \in Range(entry) \cap Turn(t) <=>
                  \E i \in DOMAIN entry : entry[i] = u /\ (i - 1) % NumTables = t - 1
  BY DEF Range
<1> HIDE DEF Turn
<1>6. ASSUME NEW u \in Players
      PROVE  \E t \in Tables : u \in Range(Dealt(entry, t))
  <2>1. PICK i \in DOMAIN entry : entry[i] = u
    BY <1>2
  <2>2. PICK k : k = i - 1
    OBVIOUS
  <2>3. k \in Int
    BY <1>1, <1>2, <2>2
  <2>4. k % NumTables \in 0 .. NumTables - 1
    BY <1>1, <2>3
  <2>5. PICK t : t = (k % NumTables) + 1
    OBVIOUS
  <2>6. t \in Tables /\ k % NumTables = t - 1
    BY <1>1, <2>4, <2>5 DEF Tables
  <2> QED
    BY <1>4, <1>5, <2>1, <2>2, <2>6
<1>7. ASSUME NEW u, NEW s \in Tables, NEW t \in Tables,
             u \in Range(Dealt(entry, s)), u \in Range(Dealt(entry, t))
      PROVE  s = t
  <2>1. PICK i \in DOMAIN entry : entry[i] = u /\ (i - 1) % NumTables = s - 1
    BY <1>4, <1>5, <1>7
  <2>2. PICK j \in DOMAIN entry : entry[j] = u /\ (j - 1) % NumTables = t - 1
    BY <1>4, <1>5, <1>7
  <2>3. i = j
    BY <1>2, <2>1, <2>2
  <2>4. s - 1 = t - 1 /\ s \in Int /\ t \in Int
    BY <1>1, <2>1, <2>2, <2>3 DEF Tables
  <2> QED
    BY <2>4
<1> QED
  BY <1>4, <1>6, <1>7

LEMMA DirectorBegins == DirectorInit => DirectorInv
<1> SUFFICES ASSUME DirectorInit PROVE DirectorInv
  OBVIOUS
<1>1. PICK entry \in Bijection(1 .. Cardinality(Players), Players) :
        roster = [t \in Tables |-> Dealt(entry, t)]
  BY DEF DirectorInit
<1>2. /\ seated = [t \in Tables |-> Range(roster[t])]
      /\ home = [u \in Players |-> CHOOSE t \in Tables : u \in seated[t]]
      /\ completed = FALSE
      /\ tables = [i \in Tables |-> i] /\ survivors = Players
      /\ job = NoJob /\ transit = Nobody
      /\ events = <<>> /\ starts = [t \in Tables |-> 1]
      /\ broke = {} /\ hand = [t \in Tables |-> NoHand]
      /\ leaving = [t \in Tables |-> {}] /\ cache = [t \in Tables |-> {}]
      /\ refused = {} /\ kicked = {}
  BY DEF DirectorInit
<1>3. /\ \A t \in Tables : List(roster[t]) /\ seated[t] = Range(roster[t])
      /\ \A u \in Players : \E t \in Tables : u \in seated[t]
      /\ \A u, s, t : s \in Tables /\ t \in Tables /\ u \in seated[s] /\ u \in seated[t] => s = t
  BY <1>1, <1>2, DealtAre
<1>4. Lists(roster) /\ \A t \in Tables : seated[t] \in SUBSET Players
  <2>1. \A t \in Tables : /\ roster[t] \in Seq(Players) /\ IsInjective(roster[t])
                          /\ Range(roster[t]) \in SUBSET Players
    BY <1>3, ListCounts DEF List
  <2>2. roster \in [Tables -> Seq(Players)]
    BY <1>1, <2>1
  <2> QED
    BY <1>3, <2>1, <2>2 DEF Lists
<1>5. \A u \in Players : home[u] \in Tables /\ u \in seated[home[u]]
  BY <1>2, <1>3
<1>6. home \in [Players -> Tables]
  BY <1>2, <1>5
<1>7. tables \in Seq(Tables) /\ IsInjective(tables) /\ Listed = Tables
  <2>1. NumTables \in Nat /\ tables \in [1 .. NumTables -> Tables]
    BY <1>2, SomeTables DEF Tables
  <2>2. IsInjective(tables) /\ Listed = Tables
    BY <1>2 DEF IsInjective, Listed, Range
  <2> QED
    BY <2>1, <2>2
<1>8. \A t \in Tables : Crowd(t) = seated[t]
  <2> TAKE t \in Tables
  <2>1. ASSUME NEW u \in seated[t] PROVE u \in survivors /\ home[u] = t
    BY <1>2, <1>3, <1>4, <1>5
  <2>2. ASSUME NEW u \in Players, home[u] = t PROVE u \in seated[t]
    BY <1>5, <2>2
  <2> QED
    BY <1>2, <2>1, <2>2 DEF Crowd
<1>9. DOMAIN events = {} /\ DOMAIN job.moves = {} /\ job.kind = "none" /\ job.moves = <<>>
  BY <1>2 DEF NoJob
<1>10. DirectorTypes
  <2>1. seated \in [Tables -> SUBSET Players]
    BY <1>2, <1>4
  <2>2. hand \in [Tables -> [known : SUBSET Players, dealt : SUBSET Players, allIn : SUBSET Players]]
        /\ \A t \in Tables : hand[t].allIn \subseteq hand[t].dealt
    BY <1>2 DEF NoHand
  <2>3. job \in [kind : {"none", "next", "final", "rebalance"}, moves : Seq(Moves)]
    BY <1>2 DEF NoJob
  <2>4. events \in Seq([from : Tables, busted : SUBSET Players])
    BY <1>2
  <2>5. /\ starts \in [Tables -> 0 .. 1] /\ leaving \in [Tables -> SUBSET Players]
        /\ cache \in [Tables -> SUBSET Players]
    BY <1>2
  <2> QED
    BY <1>2, <1>4, <1>6, <1>7, <1>9, <2>1, <2>2, <2>3, <2>4, <2>5 DEF DirectorTypes
<1>11. Homes
  BY <1>2, <1>3, <1>5, <1>7, <1>8 DEF Homes
<1>12. Seats
  <2>1. Nobody \notin Players
    BY MttAssumption
  <2> QED
    BY <1>2, <1>4, <1>7, <1>8, <2>1
    DEF Seats, ClosedAreEmpty, SeatedAreListed, ListedAreSeated, TransitIsOut
<1>13. MovesFit
  BY <1>9 DEF MovesFit, MovesMove, MovesHaveRoom, MovesEvenOut, MovesMerge
<1>14. Reports
  <2> SUFFICES ASSUME NEW t \in Tables PROVE OwnBusts(t)
    BY <1>7 DEF Reports
  <2>1. ~Playing(t) /\ cache[t] = {}
    BY <1>2 DEF Playing
  <2>2. Unreported(t) = {}
    BY <1>9, <2>1, UnreportedIs
  <2> QED
    BY <1>9, <2>1, <2>2
    DEF OwnBusts, ReportsAreOwn, CacheIsOwn, HandIsOwn, HandSpares, SeatedPlayOn, Own
<1> QED
  BY <1>10, <1>11, <1>12, <1>13, <1>14 DEF DirectorInv

-----------------------------------------------------------------------------
LEMMA DirectorStep == DirectorInv /\ [DirectorNext]_directorVars => DirectorInv'
<1> SUFFICES ASSUME DirectorInv, [DirectorNext]_directorVars PROVE DirectorInv'
  OBVIOUS
<1>1. starts \in [Tables -> 0 .. 1] /\ Lists(roster)
  BY DEF DirectorInv, DirectorTypes
<1>2. CASE HandleHandCompleted
  BY <1>2, HandleHandCompletedKeeps
<1>3. CASE TakeOut
  BY <1>3, TakeOutKeeps
<1>4. CASE PutIn
  BY <1>4, PutInKeeps
<1>5. CASE GoOn
  BY <1>5, GoOnKeeps
<1>6. ASSUME NEW t \in Tables, StartHand(t) PROVE DirectorInv'
  <2>1. starts' \in [Tables -> 0 .. 1]
    BY <1>1, <1>6 DEF StartHand
  <2> QED
    BY <1>6, <2>1, HandBegins DEF StartHand
<1>7. ASSUME NEW t \in Tables, StartHandOf(t) PROVE DirectorInv'
  BY <1>1, <1>7, HandBegins DEF StartHandOf
<1>8. ASSUME NEW t \in Tables, FinishHand(t) PROVE DirectorInv'
  BY <1>8, FinishHandKeeps
<1>9. ASSUME NEW t \in Tables, NEW u \in Players, GoAllIn(t, u) PROVE DirectorInv'
  BY <1>9, AllInKeeps
<1>10. ASSUME NEW t \in Tables, NEW u \in Players, Kick(t, u) PROVE DirectorInv'
  BY <1>10, KickKeeps
<1>11. CASE UNCHANGED directorVars
  <2>1. /\ UNCHANGED director /\ UNCHANGED atTables /\ events' = events /\ starts' = starts
        /\ UNCHANGED <<seated, broke, hand, leaving, cache, refused, kicked>>
        /\ completed' = completed /\ tables' = tables /\ roster' = roster /\ survivors' = survivors
        /\ home' = home /\ job' = job /\ transit' = transit
    BY <1>11 DEF directorVars, director, atTables
  <2>2. /\ Homes' /\ MovesFit' /\ Listed' = Listed /\ \A s : Crowd(s)' = Crowd(s)
    BY <2>1, DirectorWaits
  <2>3. \A s : Unreported(s)' = Unreported(s)
    BY <2>1 DEF Unreported
  <2>4. DirectorTypes /\ Seats /\ Reports
    BY DEF DirectorInv
  <2>5. DirectorTypes'
    BY <2>1, <2>4 DEF DirectorTypes
  <2>6. Seats'
    BY <2>1, <2>2, <2>3, <2>4
    DEF Seats, ClosedAreEmpty, SeatedAreListed, ListedAreSeated, TransitIsOut
  <2>7. Reports'
    <3>1. \A s, i : Spared(s, i)' = Spared(s, i)
      BY <2>1, <2>2 DEF Spared
    <3>2. \A s : OwnBusts(s)' <=> OwnBusts(s)
      BY <2>1, <2>2, <2>3, <3>1
      DEF OwnBusts, ReportsAreOwn, CacheIsOwn, HandIsOwn, HandSpares, SeatedPlayOn, Own, Playing
    <3> QED
      BY <2>1, <2>2, <2>4, <3>2 DEF Reports, Several
  <2> QED
    BY <2>2, <2>5, <2>6, <2>7 DEF DirectorInv
<1> QED
  BY <1>2, <1>3, <1>4, <1>5, <1>6, <1>7, <1>8, <1>9, <1>10, <1>11 DEF DirectorNext

THEOREM DirectorInvHolds == DirectorSpec => []DirectorInv
<1> QED
  BY DirectorBegins, DirectorStep, PTL DEF DirectorSpec

(* Types of the director and his tables: whoever is dealt in is known to   *)
(* the hand, and whoever is to leave after it has a seat.                  *)
THEOREM DirectorTypesHold == DirectorSpec => []DirectorTypeOK
<1> DEFINE More == /\ \A t \in Tables : hand[t].dealt \subseteq hand[t].known
                                        /\ leaving[t] \subseteq seated[t]
                   /\ started \in 0 .. MaxStarts
<1>1. DirectorInit => More
  <2> SUFFICES ASSUME DirectorInit PROVE More
    OBVIOUS
  <2>1. /\ hand = [t \in Tables |-> NoHand] /\ leaving = [t \in Tables |-> {}] /\ started = 0
        /\ MaxStarts \in Nat
    BY MttAssumption DEF DirectorInit
  <2> QED
    BY <2>1 DEF NoHand
<1>2. ASSUME DirectorInv, More, [DirectorNext]_directorVars
      PROVE  More'
  <2>1. /\ seated \in [Tables -> SUBSET Players] /\ leaving \in [Tables -> SUBSET Players]
        /\ hand \in [Tables -> [known : SUBSET Players, dealt : SUBSET Players, allIn : SUBSET Players]]
        /\ job.moves \in Seq(Moves) /\ MaxStarts \in Nat
        /\ (transit # Nobody => job.moves # <<>>)
    BY <1>2, MttAssumption DEF DirectorInv, DirectorTypes
  <2>2. ASSUME NEW t \in Tables, StartNewHand(t), started' \in 0 .. MaxStarts PROVE More'
    <3>1. PICK h \in Deals(t) : hand' = [hand EXCEPT ![t] = h]
      BY <2>2 DEF StartNewHand
    <3>2. h.dealt \subseteq h.known
      <4>1. h = hand[t] \/ h = NoHand
            \/ h = [known |-> seated[t], dealt |-> Eligible(t), allIn |-> {}]
        BY <3>1, Zenon DEF Deals
      <4> QED
        BY <1>2, <4>1 DEF NoHand, Eligible
    <3>3. leaving' = leaving /\ seated' = seated
      BY <2>2 DEF StartNewHand
    <3> QED
      BY <1>2, <2>1, <2>2, <3>1, <3>2, <3>3
  <2>3. ASSUME NEW t \in Tables, StartHand(t) \/ StartHandOf(t) PROVE More'
    <3>1. started' \in 0 .. MaxStarts
      <4>1. CASE StartHand(t)
        BY <1>2, <4>1 DEF StartHand
      <4>2. CASE StartHandOf(t)
        <5>1. started < MaxStarts /\ started' = started + 1
          BY <4>2 DEF StartHandOf
        <5> QED
          BY <1>2, <2>1, <5>1
      <4> QED
        BY <2>3, <4>1, <4>2
    <3> QED
      BY <2>2, <2>3, <3>1 DEF StartHand, StartHandOf
  <2>4. ASSUME NEW t \in Tables, FinishHand(t) PROVE More'
    <3>1. /\ hand' = [hand EXCEPT ![t] = NoHand] /\ leaving' = [leaving EXCEPT ![t] = {}]
          /\ seated' = [seated EXCEPT ![t] = @ \ (hand[t].allIn \cup leaving[t])]
          /\ started' = started
      BY <2>4 DEF FinishHand
    <3>2. \A s \in Tables : hand'[s].dealt \subseteq hand'[s].known
      BY <1>2, <2>1, <3>1 DEF NoHand
    <3>3. \A s \in Tables : leaving'[s] \subseteq seated'[s]
      BY <1>2, <2>1, <3>1
    <3> QED
      BY <1>2, <3>1, <3>2, <3>3
  <2>5. ASSUME NEW t \in Tables, NEW u \in Players, GoAllIn(t, u) PROVE More'
    <3>1. \A s \in Tables : hand'[s].dealt = hand[s].dealt /\ hand'[s].known = hand[s].known
      <4> TAKE s \in Tables
      <4>1. CASE s = t
        BY <2>1, <2>5, <4>1 DEF GoAllIn
      <4>2. CASE s # t
        BY <2>1, <2>5, <4>2 DEF GoAllIn
      <4> QED
        BY <4>1, <4>2
    <3>2. leaving' = leaving /\ seated' = seated /\ started' = started
      BY <2>5 DEF GoAllIn
    <3> QED
      BY <1>2, <3>1, <3>2
  <2>6. ASSUME NEW t \in Tables, NEW u \in Players, Kick(t, u) PROVE More'
    BY <1>2, <2>1, <2>6 DEF Kick
  <2>7. CASE TakeOut
    <3>1. Head(job.moves) \in Moves
      BY <2>1, <2>7, TailIs DEF TakeOut
    <3>2. Head(job.moves).from \in Tables
      BY <3>1 DEF Moves
    <3> QED
      BY <1>2, <2>1, <2>7, <3>2 DEF TakeOut
  <2>8. CASE PutIn
    <3>1. Head(job.moves) \in Moves
      BY <2>1, <2>8, TailIs DEF PutIn
    <3>a. Head(job.moves).to \in Tables
      BY <3>1 DEF Moves
    <3>2. \A t \in Tables : seated[t] \subseteq seated'[t]
      BY <2>1, <2>8, <3>a DEF PutIn
    <3>3. leaving' = leaving /\ hand' = hand /\ started' = started
      BY <2>8 DEF PutIn
    <3> QED
      BY <1>2, <3>2, <3>3
  <2>9. CASE HandleHandCompleted \/ GoOn \/ UNCHANGED directorVars
    <3>1. leaving' = leaving /\ hand' = hand /\ started' = started /\ seated' = seated
      BY <2>9 DEF HandleHandCompleted, GoOn, directorVars, atTables
    <3> QED
      BY <1>2, <3>1
  <2> QED
    BY <1>2, <2>3, <2>4, <2>5, <2>6, <2>7, <2>8, <2>9 DEF DirectorNext
<1>3. DirectorInv /\ More => DirectorTypeOK
  <2> SUFFICES ASSUME DirectorInv, More PROVE DirectorTypeOK
    OBVIOUS
  <2>1. DirectorTypes
    BY DEF DirectorInv
  <2>2. /\ Listed \subseteq Tables /\ Range(job.moves) \subseteq Moves
        /\ \A t \in Tables : Range(roster[t]) \subseteq Players /\ IsInjective(roster[t])
    BY <2>1 DEF DirectorTypes, Lists, Listed, Range
  <2>3. \A i \in DOMAIN events : events[i].from \in Tables /\ events[i].busted \subseteq Players
    <3>1. events \in Seq([from : Tables, busted : SUBSET Players])
      BY <2>1 DEF DirectorTypes
    <3>2. \A i \in DOMAIN events : events[i] \in [from : Tables, busted : SUBSET Players]
      BY ONLY <3>1, MembersAre
    <3> QED
      BY ONLY <3>2
  <2>4. \A t \in Tables : /\ hand[t].known \subseteq Players
                          /\ hand[t].dealt \subseteq hand[t].known
                          /\ hand[t].allIn \subseteq hand[t].dealt
                          /\ leaving[t] \subseteq seated[t]
    BY <2>1 DEF DirectorTypes
  <2> QED
    BY <2>1, <2>2, <2>3, <2>4 DEF DirectorTypes, DirectorTypeOK
<1> QED
  BY <1>1, <1>2, <1>3, DirectorInvHolds, PTL DEF DirectorSpec

(* The director loses nobody: each survivor is on the roster of one of his *)
(* tables, the one he is told to be at, and nobody else is on any          *)
(* (handle_hand_completed, do_rebalance, do_final_table_merge).            *)
THEOREM DirectorLosesNobody == DirectorSpec => []RostersAreSurvivors
<1>1. DirectorInv => RostersAreSurvivors
  <2> SUFFICES ASSUME DirectorInv, NEW u \in Players
               PROVE  {t \in Listed : u \in Range(roster[t])}
                        = IF u \in survivors THEN {home[u]} ELSE {}
    BY DEF RostersAreSurvivors
  <2>1. /\ \A s \in survivors : home[s] \in Listed
        /\ \A t \in Listed : Range(roster[t]) = {s \in survivors : home[s] = t}
    BY DEF DirectorInv, Homes, Crowd
  <2> QED
    BY <2>1
<1> QED
  BY DirectorInvHolds, <1>1, PTL

(* Tables and rosters agree: whoever is on a roster sits at that table, is *)
(* between two tables, was removed by a vote, or is a bust that the table  *)
(* has still to report; and while there are several tables, whoever sits   *)
(* at one is on its roster (clear_board_and_start_next, TransferPlayerIn   *)
(* and Out).                                                               *)
THEOREM SeatsAndRostersAgree == DirectorSpec => []SeatsFollowRosters
<1>1. DirectorInv => SeatsFollowRosters
  <2> SUFFICES ASSUME DirectorInv PROVE SeatsFollowRosters
    OBVIOUS
  <2>1. Homes /\ Seats /\ tables \in Seq(Tables) /\ IsInjective(tables)
    BY DEF DirectorInv, DirectorTypes
  <2>2. Len(tables) > 1 => Two(Listed)
    <3>1. SUFFICES ASSUME Len(tables) > 1 PROVE Two(Listed)
      OBVIOUS
    <3>2. Len(tables) \in Nat /\ DOMAIN tables = 1 .. Len(tables)
      BY <2>1
    <3>3. 1 \in DOMAIN tables /\ 2 \in DOMAIN tables
      BY <3>1, <3>2
    <3>4. tables[1] # tables[2]
      BY <2>1, <3>3 DEF IsInjective
    <3> QED
      BY <3>3, <3>4 DEF Two, Listed, Range
  <2>3. ASSUME NEW t \in Listed
        PROVE  /\ Len(tables) > 1 => seated[t] \subseteq Range(roster[t])
               /\ Range(roster[t]) \subseteq seated[t] \cup Unreported(t) \cup kicked \cup {transit}
    BY <2>1, <2>2 DEF Homes, Seats, SeatedAreListed, ListedAreSeated
  <2>4. \A t \in Tables \ Listed : seated[t] = {}
    BY <2>1 DEF Seats, ClosedAreEmpty
  <2> QED
    BY <2>3, <2>4 DEF SeatsFollowRosters
<1> QED
  BY DirectorInvHolds, <1>1, PTL

(* No table waits for the director in vain (handle_hand_completed).        *)
THEOREM NoTableIsForgotten == DirectorSpec => []TableIsNotForgotten
<1>1. DirectorInit => TableIsNotForgotten
  <2> SUFFICES ASSUME DirectorInit, NEW t \in Listed PROVE starts[t] > 0
    BY DEF TableIsNotForgotten
  <2>1. tables = [i \in Tables |-> i] /\ starts = [s \in Tables |-> 1]
    BY DEF DirectorInit
  <2> QED
    BY <2>1 DEF Listed, Range
<1>2. ASSUME DirectorInv, TableIsNotForgotten, [DirectorNext]_directorVars
      PROVE  TableIsNotForgotten'
  <2>1. /\ DirectorTypes /\ tables \in Seq(Tables) /\ hand \in [Tables -> [known : SUBSET Players,
             dealt : SUBSET Players, allIn : SUBSET Players]]
        /\ starts \in [Tables -> 0 .. 1]
        /\ events \in Seq([from : Tables, busted : SUBSET Players])
        /\ Listed \subseteq Tables
    BY <1>2 DEF DirectorInv, DirectorTypes, Listed, Range
  <2>2. CASE UNCHANGED <<completed, tables, job>>
    <3>1. SUFFICES ASSUME ~completed, Idle, NEW s \in Listed,
                          \/ Playing(s) \/ starts[s] > 0 \/ s \in refused
                          \/ \E i \in DOMAIN events : events[i].from \in Listed
                   PROVE  \/ Playing(s)' \/ starts'[s] > 0 \/ s \in refused'
                          \/ \E i \in DOMAIN events' : events'[i].from \in Listed
      BY <1>2, <2>2 DEF TableIsNotForgotten, Listed, Idle
    <3>2. s \in Tables
      BY <2>1
    <3>3. ASSUME NEW t \in Tables, StartNewHand(t), \A r \in Tables \ {t} : starts'[r] = starts[r]
          PROVE  \/ Playing(s)' \/ starts'[s] > 0 \/ s \in refused'
                 \/ \E i \in DOMAIN events' : events'[i].from \in Listed
      <4>1. /\ events' = events /\ \E h \in Deals(t) : hand' = [hand EXCEPT ![t] = h]
            /\ refused' = IF hand'[t] = NoHand THEN refused \cup {t} ELSE refused \ {t}
        BY <3>3 DEF StartNewHand
      <4>2. s = t \/ (hand'[s] = hand[s] /\ (s \in refused' <=> s \in refused))
        BY <2>1, <3>2, <4>1
      <4> QED
        BY <3>1, <3>2, <3>3, <4>1, <4>2 DEF Playing
    <3>4. ASSUME NEW t \in Tables, StartHand(t) \/ StartHandOf(t)
          PROVE  \/ Playing(s)' \/ starts'[s] > 0 \/ s \in refused'
                 \/ \E i \in DOMAIN events' : events'[i].from \in Listed
      BY <2>1, <3>3, <3>4 DEF StartHand, StartHandOf
    <3>5. ASSUME NEW t \in Tables, NEW u \in Players, GoAllIn(t, u) \/ Kick(t, u)
          PROVE  \/ Playing(s)' \/ starts'[s] > 0 \/ s \in refused'
                 \/ \E i \in DOMAIN events' : events'[i].from \in Listed
      <4>1. starts' = starts /\ refused' = refused /\ events' = events
        BY <3>5 DEF GoAllIn, Kick
      <4>2. Playing(s) => Playing(s)'
        <5>1. CASE GoAllIn(t, u)
          <6>1. CASE s = t
            <7>1. u \in hand'[s].dealt
              BY <2>1, <3>2, <5>1, <6>1 DEF GoAllIn
            <7> QED
              BY <7>1 DEF Playing, NoHand
          <6>2. CASE s # t
            BY <2>1, <3>2, <5>1, <6>2 DEF GoAllIn, Playing
          <6> QED
            BY <6>1, <6>2
        <5>2. CASE Kick(t, u)
          BY <5>2 DEF Kick, Playing
        <5> QED
          BY <3>5, <5>1, <5>2
      <4> QED
        BY <3>1, <4>1, <4>2
    <3>6. ASSUME NEW t \in Tables, FinishHand(t)
          PROVE  \/ Playing(s)' \/ starts'[s] > 0 \/ s \in refused'
                 \/ \E i \in DOMAIN events' : events'[i].from \in Listed
      <4>1. /\ starts' = starts /\ refused' = refused
            /\ events' = Append(events, [from |-> t, busted |-> cache[t]])
            /\ hand' = [hand EXCEPT ![t] = NoHand]
        BY <3>6 DEF FinishHand, Report
      <4>2. [from |-> t, busted |-> cache[t]] \in [from : Tables, busted : SUBSET Players]
        BY <2>1 DEF DirectorTypes
      <4>3. CASE s = t
        <5>1. PICK report : report = [from |-> t, busted |-> cache[t]]
          OBVIOUS
        <5>2. /\ Len(events) + 1 \in DOMAIN Append(events, report)
              /\ Append(events, report)[Len(events) + 1] = report
          BY <2>1, <4>2, <5>1, AppendIs
        <5>3. PICK i \in DOMAIN events' : events'[i] = report
          BY <4>1, <5>1, <5>2
        <5> QED
          BY <3>1, <4>3, <5>1, <5>3
      <4>4. CASE s # t
        <5>1. hand'[s] = hand[s]
          BY <2>1, <3>2, <4>1, <4>4
        <5>2. \A i \in DOMAIN events : i \in DOMAIN events' /\ events'[i] = events[i]
          BY <2>1, <4>1, <4>2, AppendIs
        <5> QED
          BY <3>1, <4>1, <5>1, <5>2 DEF Playing
      <4> QED
        BY <4>3, <4>4
    <3>7. ASSUME HandleHandCompleted
          PROVE  \/ Playing(s)' \/ starts'[s] > 0 \/ s \in refused'
                 \/ \E i \in DOMAIN events' : events'[i].from \in Listed
      <4>1. starts' = starts /\ hand' = hand /\ refused' = refused /\ events' = Tail(events) /\ events # <<>>
        BY <3>7 DEF HandleHandCompleted, atTables
      <4>2. Head(events).from \notin Listed
        <5>1. SUFFICES ASSUME Head(events).from \in Listed PROVE FALSE
          OBVIOUS
        <5>2. PICK left, lists : completed' = TRUE \/ job' \in Answers(left, lists)
          BY <3>7, <5>1, Zenon DEF HandleHandCompleted
        <5>3. job' \in Answers(left, lists)
          BY <2>2, <3>1, <5>2
        <5> QED
          BY <2>2, <3>1, <5>3 DEF Answers, Idle, NoJob
      <4>3. ASSUME NEW i \in DOMAIN events, events[i].from \in Listed
            PROVE  \E j \in DOMAIN events' : events'[j].from \in Listed
        <5>1. i # 1
          <6>1. Head(events) = events[1]
            BY <2>1, <4>1, TailIs
          <6> QED
            BY ONLY <4>2, <4>3, <6>1
        <5>2. i - 1 \in DOMAIN Tail(events) /\ Tail(events)[i - 1] = events[i]
          BY <2>1, <4>1, <5>1, TailIs
        <5> QED
          BY <4>1, <4>3, <5>2
      <4> QED
        BY <3>1, <4>1, <4>3 DEF Playing
    <3>8. ~TakeOut /\ ~PutIn /\ ~GoOn
      <4>1. job.moves = <<>> /\ transit = Nobody
        BY <2>1, <3>1 DEF Idle, NoJob, DirectorTypes
      <4> QED
        BY <3>1, <4>1 DEF TakeOut, PutIn, GoOn
    <3>9. CASE UNCHANGED directorVars
      BY <3>1, <3>9 DEF directorVars, atTables, Playing
    <3> QED
      BY <1>2, <3>4, <3>5, <3>6, <3>7, <3>8, <3>9 DEF DirectorNext
  <2>3. CASE HandleHandCompleted
    <3>1. CASE Head(events).from \notin Listed
      BY <2>2, <2>3, <3>1 DEF HandleHandCompleted
    <3>2. CASE Head(events).from \in Listed
      <4>1. PICK left, lists :
              \/ completed' = TRUE
              \/ job' \in Answers(left, lists)
        BY <2>3, <3>2, Zenon DEF HandleHandCompleted
      <4>2. job' \in Answers(left, lists) => job' # NoJob
        BY DEF Answers, NoJob
      <4> QED
        BY <4>1, <4>2 DEF TableIsNotForgotten, Idle
    <3> QED
      BY <3>1, <3>2
  <2>4. CASE PutIn
    <3>1. job.kind # "none"
      BY <2>1, <2>4 DEF PutIn, DirectorTypes
    <3>2. job'.kind = job.kind
      BY <2>1, <2>4 DEF PutIn, DirectorTypes
    <3>3. job' # NoJob
      BY <3>1, <3>2 DEF NoJob
    <3> QED
      BY <3>3 DEF TableIsNotForgotten, Idle
  <2>5. CASE GoOn
    <3>1. /\ tables' = Kept /\ job # NoJob /\ job.moves = <<>>
          /\ starts' = [t \in Tables |-> IF t \in Range(Kept) THEN 1 ELSE starts[t]]
      BY <2>5 DEF GoOn, Ask, Idle
    <3>2. job.kind # "none"
      BY <2>1, <3>1 DEF DirectorTypes, NoJob
    <3>3. Range(Kept) \subseteq Listed
      BY <1>2, <3>1, <3>2, KeptTables
    <3>4. \A t \in Range(Kept) : starts'[t] > 0
      BY <2>1, <3>1, <3>3
    <3>5. Listed' = Range(Kept)
      BY <3>1 DEF Listed
    <3> QED
      BY <3>4, <3>5 DEF TableIsNotForgotten
  <2>6. CASE ~HandleHandCompleted /\ ~PutIn /\ ~GoOn
    <3>1. UNCHANGED <<completed, tables, job>>
      BY <1>2, <2>6 DEF DirectorNext, directorVars, director, TakeOut, StartHand, StartHandOf,
         StartNewHand, GoAllIn, FinishHand, Kick
    <3> QED
      BY <2>2, <3>1
  <2> QED
    BY <2>3, <2>4, <2>5, <2>6
<1> QED
  BY <1>1, <1>2, DirectorInvHolds, PTL DEF DirectorSpec
=============================================================================
