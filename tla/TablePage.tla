------------------------------ MODULE TablePage ------------------------------
(***************************************************************************)
(* How a player gets a seat, chips and rid of them: the page of a table    *)
(* (apps/pwa TablePage.tsx, apps/mobile TableScene.tsx) with the rooms of  *)
(* the game store and as much of the server as answers it.                 *)
(*                                                                         *)
(* The page is one record.  An event (a click, a message, the socket)      *)
(* changes it; then React renders and runs the effects whose dependencies  *)
(* changed, in the order of the source, until none did, before the next    *)
(* event (the store is subscribed to synchronously).  An effect sees the   *)
(* values of its render and queues changes for the next one.  The server   *)
(* waits meanwhile: effects touch nothing of its.                          *)
(*                                                                         *)
(* Abstracted: pages that observe or belong to a tournament, amounts (a    *)
(* stack is there or gone, and an all-in shows at the end of the hand),    *)
(* seats of other players, the ids of tables (the one in the address, or   *)
(* another), retries of the socket (module Connection), hands (module      *)
(* TableClient), and hole cards, which come and go with the hand here.     *)
(***************************************************************************)
EXTENDS Integers, Sequences, FiniteSets, SequencesExt

CONSTANTS Rooms,      \* rooms of the server
          NoRoom,
          Modes,      \* how the page may be opened
          MaxWire,    \* bound: messages under way in one direction
          MaxJoins,   \* bound: buy-ins the player confirms
          MaxDrops    \* bound: sockets lost

ASSUME PageAssumption ==
  /\ NoRoom \notin Rooms
  /\ Modes \subseteq {"play", "link"}
  /\ {MaxWire, MaxJoins, MaxDrops} \subseteq Nat

VARIABLES
  mode,      \* the address names a buy-in ("link") or not ("play")
  page,      \* Pages
  seen,      \* the values whose effects ran last; << >> when mounting
  route,     \* "here", "leaving" (navigate was called), "gone"
  seat,      \* [Rooms -> {"none", "chips", "broke"}]: the server's
  inHand,    \* [Rooms -> BOOLEAN]: the player is in the hand of the room
  listed,    \* the registry's rooms of the player (user_room_map)
  heard,     \* rooms whose actor sends to the player's socket
  down,      \* messages to the client
  confirmed, \* buy-ins confirmed
  excused,   \* history: why no buy-in need be asked for (see AskedWhenUnseated)
  left,      \* history: a table was left while the page waited for a seat
  drops

server == <<seat, inHand, listed, heard>>
pageVars == <<mode, page, seen, route, server, down, confirmed, excused, left, drops>>

(* rooms is in the order the store's object keeps.  table is "url" while   *)
(* the entry bears the id of the address, "room" once a TableState has     *)
(* overwritten it with the id of the room.                                 *)
Entries == [id : Rooms, table : {"url", "room"}, me : {"none", "chips", "broke"},
            inHand : BOOLEAN]
Pages == [rooms : Seq(Entries), active : Rooms \cup {NoRoom},
          known : BOOLEAN,      \* myUserId is set
          online : BOOLEAN,     \* connectionStatus = "connected"
          notSeated : BOOLEAN, pending : BOOLEAN,  \* buyInRef is set
          hasJoined : BOOLEAN, isJoining : BOOLEAN,
          adding : BOOLEAN, dialog : BOOLEAN,
          up : Seq({"join", "reconnect", "leave", "rebuy"} \X (Rooms \cup {NoRoom}))]

-----------------------------------------------------------------------------
(* The game store.                                                         *)
Blank(id) == [id |-> id, table |-> "url", me |-> "none", inHand |-> FALSE]

Holds(p, id) == \E i \in DOMAIN p.rooms : p.rooms[i].id = id
Place(p, id) == CHOOSE i \in DOMAIN p.rooms : p.rooms[i].id = id
Entry(p, id) == p.rooms[Place(p, id)]
Others(p, id) == IF Holds(p, id) THEN RemoveAt(p.rooms, Place(p, id)) ELSE p.rooms
FirstOf(rooms) == IF rooms = << >> THEN NoRoom ELSE Head(rooms).id

Shown(p) == IF Holds(p, p.active) THEN Entry(p, p.active) ELSE Blank(p.active)

EnsureRoom(p, id) ==
  IF Holds(p, id) THEN p ELSE [p EXCEPT !.rooms = Append(@, Blank(id))]

SetEntry(p, e) ==
  [p EXCEPT !.rooms = [i \in DOMAIN @ |-> IF @[i].id = e.id THEN e ELSE @[i]]]

RemoveRoom(p, id) ==
  [p EXCEPT !.rooms = Others(p, id),
            !.active = IF @ = id THEN FirstOf(Others(p, id)) ELSE @]

(* The room of the address: the first that bears its id.                   *)
OfAddress(p) == {i \in DOMAIN p.rooms : p.rooms[i].table = "url"}
Target(p) == p.rooms[CHOOSE i \in OfAddress(p) : \A k \in OfAddress(p) : i <= k]

(* The F-16 code: drops the room of the address, and shows none if it was  *)
(* the one shown, also when others are left.                               *)
ResetTarget(p) ==
  LET id == Target(p).id
  IN  IF OfAddress(p) = {} THEN p
      ELSE [RemoveRoom(p, id) EXCEPT !.active = IF p.active = id THEN NoRoom ELSE @]

-----------------------------------------------------------------------------
(* What a render shows.                                                    *)
HeroSeated(v) == v.known /\ Shown(v).me # "none"    \* isHeroSeated
HasChips(v)   == Shown(v).me = "chips"              \* heroStack > 0

(* The values the effects depend on.                                       *)
RoomsDeps(v)     == <<v.rooms, v.active>>
NotSeatedDeps(v) == <<v.notSeated, v.isJoining>>
JoinDeps(v)  == <<v.online, HeroSeated(v), v.hasJoined, v.dialog, v.adding>>
RebuyDeps(v) == <<HasChips(v), v.online, v.hasJoined, v.isJoining, Shown(v).inHand, v.adding>>
Deps(v) == <<RoomsDeps(v), NotSeatedDeps(v), JoinDeps(v), RebuyDeps(v)>>

Settled == seen = Deps(page)

SendJoin(p) ==
  IF p.online THEN [p EXCEPT !.up = Append(@, <<"join", NoRoom>>), !.pending = FALSE]
              ELSE [p EXCEPT !.pending = TRUE]

(* Each effect: from the render v and the page as changed so far.          *)

SyncActive(v, p) ==
  IF OfAddress(v) # {} /\ v.active # Target(v).id
  THEN [p EXCEPT !.active = Target(v).id] ELSE p

(* Mutant of NotSeated: a join under way does not keep it from asking.     *)
NotSeatedWhileJoining(v, p) ==
  IF v.notSeated
  THEN [ResetTarget(p) EXCEPT !.hasJoined = FALSE, !.dialog = TRUE] ELSE p

NotSeated(v, p) ==
  IF v.notSeated /\ ~v.isJoining
  THEN [ResetTarget(p) EXCEPT !.hasJoined = FALSE, !.dialog = TRUE] ELSE p

(* Mutant of JoinOrAsk: a player who was seated once is not asked again.   *)
JoinOrAskSeated(v, p) ==
  IF v.online /\ HeroSeated(v)
  THEN [p EXCEPT !.hasJoined = TRUE, !.dialog = IF v.adding THEN @ ELSE FALSE] ELSE p

(* Handle joining / seating.                                               *)
JoinOrAsk(v, p) ==
  CASE ~v.online -> p
    [] v.online /\ ~HeroSeated(v) /\ ~v.hasJoined ->
         IF mode = "play" THEN [p EXCEPT !.dialog = TRUE]
         ELSE [SendJoin(p) EXCEPT !.hasJoined = TRUE, !.isJoining = TRUE, !.dialog = FALSE]
    [] OTHER -> [p EXCEPT !.hasJoined = IF HeroSeated(v) THEN TRUE ELSE @,
                          !.dialog = IF HeroSeated(v) /\ v.dialog /\ ~v.adding THEN FALSE ELSE @]

(* Mutant of AskRebuy: chips put away the question for one more table.     *)
AskRebuyOnly(v, p) ==
  LET offer == v.hasJoined /\ ~HasChips(v) /\ ~v.isJoining /\ v.online /\ ~Shown(v).inHand
  IN  [p EXCEPT !.isJoining = IF v.isJoining /\ HasChips(v) THEN FALSE ELSE @,
                !.dialog = offer]

AskRebuy(v, p) ==
  LET offer == v.hasJoined /\ ~HasChips(v) /\ ~v.isJoining /\ v.online /\ ~Shown(v).inHand
  IN  [p EXCEPT !.isJoining = IF v.isJoining /\ HasChips(v) THEN FALSE ELSE @,
                !.dialog = IF offer THEN TRUE
                           ELSE IF HasChips(v) /\ ~v.adding THEN FALSE ELSE @]

(* One pass.                                                               *)
Changed(i) == seen = << >> \/ seen[i] # Deps(page)[i]

(* The F-16 code takes a room away that shows the player seated: one where *)
(* he lost his seat unseen, and that was assigned to him again.            *)
TakesSeat ==
  /\ Changed(2) /\ page.notSeated /\ ~page.isJoining
  /\ OfAddress(page) # {} /\ Target(page).me # "none"

Effects ==
  /\ route # "gone"
  /\ LET p1 == IF seen = << >> /\ mode = "link" THEN ResetTarget(page) ELSE page
         p2 == IF Changed(1) THEN SyncActive(page, p1) ELSE p1
         p3 == IF Changed(2) THEN NotSeated(page, p2) ELSE p2
         p4 == IF Changed(3) THEN JoinOrAsk(page, p3) ELSE p3
         p5 == IF Changed(4) THEN AskRebuy(page, p4) ELSE p4
     IN  page' = p5
  /\ seen' = Deps(page)
  /\ excused' = (excused \/ TakesSeat)
  /\ UNCHANGED <<mode, route, server, down, confirmed, left, drops>>

-----------------------------------------------------------------------------
(* What the player does.                                                   *)
Free == route = "here" /\ Len(page.up) < MaxWire

PageInit ==
  /\ mode \in Modes /\ route = "here" /\ seen = << >>
  /\ inHand = [r \in Rooms |-> FALSE] /\ heard = {}
  /\ \E stored \in {<< >>} \cup {<<[Blank(r) EXCEPT !.table = "room", !.me = "chips"]>> : r \in Rooms} :
       /\ seat = [r \in Rooms |-> IF r = FirstOf(stored) THEN "chips" ELSE "none"]
       /\ listed = {e.id : e \in Range(stored)}
       /\ page = [rooms |-> stored, active |-> FirstOf(stored), known |-> FALSE, online |-> FALSE,
                  notSeated |-> FALSE, pending |-> FALSE, hasJoined |-> FALSE, isJoining |-> FALSE,
                  adding |-> FALSE, dialog |-> FALSE, up |-> << >>]
  /\ down = << >> /\ confirmed = 0 /\ excused = FALSE /\ left = FALSE /\ drops = 0

AddTable ==
  /\ Free /\ ~page.dialog
  /\ page' = [page EXCEPT !.adding = TRUE, !.dialog = TRUE]
  /\ UNCHANGED <<mode, seen, route, server, down, confirmed, excused, left, drops>>

SwitchTable(r) ==
  /\ Free /\ ~page.dialog /\ Holds(page, r) /\ r # page.active
  /\ page' = [page EXCEPT !.active = r]
  /\ UNCHANGED <<mode, seen, route, server, down, confirmed, excused, left, drops>>

CloseDialog ==
  /\ Free /\ page.dialog
  /\ IF ~page.adding /\ ~page.hasJoined /\ ~HeroSeated(page)
     THEN route' = "leaving" /\ UNCHANGED <<page, excused>>
     ELSE /\ page' = [page EXCEPT !.adding = FALSE, !.dialog = FALSE]
          /\ excused' = TRUE
          /\ UNCHANGED route
  /\ UNCHANGED <<mode, seen, server, down, confirmed, left, drops>>

Confirmed(p) ==
  CASE p.adding -> [SendJoin(p) EXCEPT !.adding = FALSE, !.dialog = FALSE]
    [] ~p.adding /\ ~HeroSeated(p) ->
         [SendJoin(p) EXCEPT !.hasJoined = TRUE, !.isJoining = TRUE, !.dialog = FALSE]
    [] OTHER -> [p EXCEPT !.dialog = FALSE,
                          !.up = IF p.active # NoRoom /\ p.online
                                 THEN Append(@, <<"rebuy", p.active>>) ELSE @]

ConfirmDialog ==
  /\ Free /\ page.dialog /\ confirmed < MaxJoins
  /\ page' = Confirmed(page)
  /\ confirmed' = confirmed + 1 /\ excused' = page.adding
  /\ left' = (left /\ (page.adding \/ HeroSeated(page)))
  /\ UNCHANGED <<mode, seen, route, server, down, drops>>

(* sendLeave, for an open socket: the room is gone from the page at once.  *)
SendLeave(p, id) ==
  IF ~p.online THEN p
  ELSE [RemoveRoom([p EXCEPT !.active = FirstOf(Others(p, id))], id)
          EXCEPT !.up = Append(@, <<"leave", id>>)]

LeaveTable ==
  LET id == IF page.active = NoRoom THEN FirstOf(page.rooms) ELSE page.active IN
  /\ Free /\ ~page.dialog /\ id # NoRoom
  /\ page' = [SendLeave(page, id) EXCEPT !.hasJoined = FALSE]
  /\ route' = IF Len(page.rooms) <= 1 THEN "leaving" ELSE route
  /\ left' = (left \/ page.isJoining)
  /\ UNCHANGED <<mode, seen, server, down, confirmed, excused, drops>>

(* navigate() ends in a transition of its own: the page may be rendered    *)
(* and its effects run before it is taken away.                            *)
Navigate ==
  /\ route = "leaving"
  /\ route' = "gone"
  /\ UNCHANGED <<mode, page, seen, server, down, confirmed, excused, left, drops>>

-----------------------------------------------------------------------------
(* Messages.                                                               *)
Drop ==
  /\ route # "gone" /\ page.online /\ drops < MaxDrops
  /\ drops' = drops + 1
  /\ page' = [page EXCEPT !.online = FALSE, !.up = << >>]
  /\ down' = << >> /\ heard' = {}
  /\ UNCHANGED <<mode, seen, route, seat, inHand, listed, confirmed, excused, left>>

Connect ==
  /\ route # "gone" /\ ~page.online
  /\ page' = [page EXCEPT !.online = TRUE, !.notSeated = FALSE, !.pending = FALSE,
                          !.up = <<IF page.pending THEN <<"join", NoRoom>>
                                                   ELSE <<"reconnect", NoRoom>> >>]
  /\ UNCHANGED <<mode, seen, route, server, down, confirmed, excused, left, drops>>

Received(p, m) ==
  CASE m.type = "Not seated" ->
         IF m.room = NoRoom
         THEN [p EXCEPT !.rooms = << >>, !.active = NoRoom, !.notSeated = TRUE]
         ELSE [RemoveRoom(p, m.room) EXCEPT !.notSeated = TRUE]
    [] m.type = "RoomAssigned" ->
         LET q == EnsureRoom(p, m.room) IN
         [SetEntry(q, [Entry(q, m.room) EXCEPT !.table = "url"])
            EXCEPT !.active = m.room, !.notSeated = FALSE]
    [] m.type = "Connected" ->
         [EnsureRoom(p, m.room)
            EXCEPT !.active = m.room, !.notSeated = FALSE, !.known = TRUE, !.pending = FALSE]
    [] m.type = "TableState" ->
         [SetEntry(EnsureRoom(p, m.room),
                   [id |-> m.room, table |-> "room", me |-> m.me, inHand |-> m.inHand])
            EXCEPT !.active = m.room, !.notSeated = FALSE]

Receive ==
  /\ route # "gone" /\ down # << >>
  /\ page' = Received(page, Head(down))
  /\ down' = Tail(down)
  /\ excused' = (excused \/ (Head(down).type = "Not seated" /\ page.notSeated))
  /\ UNCHANGED <<mode, seen, route, server, confirmed, left, drops>>

-----------------------------------------------------------------------------
(* The server: what a room tells the player ...                            *)
TableState(r, me, playing) ==
  [type |-> "TableState", room |-> r, me |-> me, inHand |-> playing]
Says(type, r) == [type |-> type, room |-> r]

Greetings(r) ==
  IF seat[r] = "none" THEN <<Says("Not seated", r)>>
  ELSE <<Says("Connected", r), TableState(r, seat[r], inHand[r])>>

(* ... two rooms in any order, since each is an actor ...                  *)
Merged(s1, s2) ==
  {s1 \o s2, <<Head(s1)>> \o s2 \o Tail(s1), <<Head(s1), Head(s2)>> \o Tail(s1) \o Tail(s2)}

Reconnected ==
  IF listed = {} THEN {<<Says("Not seated", NoRoom)>>}
  ELSE {Greetings(r) : r \in {q \in Rooms : listed = {q}}}
         \cup UNION {Merged(Greetings(rq[1]), Greetings(rq[2])) :
                       rq \in {p \in Rooms \X Rooms : {p[1], p[2]} = listed /\ p[1] # p[2]}}

Answer(said) == down' = down \o said

(* ... and how it answers.  A join may be refused before or after its room *)
(* is assigned, and a room the player is listed at is never assigned.  (No *)
(* rebuy comes: see BustedIsAsked.)                                        *)
ServeJoin ==
  \/ UNCHANGED <<server, down>>
  \/ \E r \in Rooms \ listed :
       \/ Answer(<<Says("RoomAssigned", r)>>) /\ UNCHANGED server
       \/ /\ seat' = [seat EXCEPT ![r] = "chips"]
          /\ listed' = listed \cup {r} /\ heard' = heard \cup {r}
          /\ Answer(<<Says("RoomAssigned", r), Says("Connected", r), TableState(r, "chips", FALSE)>>)
          /\ UNCHANGED inHand

(* A room sends to him from then on, also if he has no seat there.         *)
ServeReconnect ==
  /\ \E said \in Reconnected : Answer(said)
  /\ heard' = listed
  /\ listed' = {r \in listed : seat[r] # "none"}
  /\ UNCHANGED <<seat, inHand>>

(* A leave is refused while the socket of the player is open (module       *)
(* TableActor), so the second case is that of a socket just gone.          *)
ServeLeave(r) ==
  \/ UNCHANGED <<server, down>>
  \/ /\ ~inHand[r]
     /\ seat' = [seat EXCEPT ![r] = "none"]
     /\ listed' = listed \ {r} /\ heard' = heard \ {r}
     /\ UNCHANGED <<inHand, down>>

Serve ==
  /\ page.up # << >> /\ route # "gone"
  /\ LET type == Head(page.up)[1]
         r == Head(page.up)[2]
     IN  \/ type = "join" /\ ServeJoin
         \/ type = "reconnect" /\ ServeReconnect
         \/ type = "leave" /\ ServeLeave(r)
  /\ page' = [page EXCEPT !.up = Tail(@)]
  /\ UNCHANGED <<mode, seen, route, confirmed, excused, left, drops>>

(* A hand of the player starts, or ends with or without his chips.         *)
Play(r) ==
  /\ seat[r] = "chips"
  /\ Len(down) < MaxWire
  /\ \/ ~inHand[r] /\ inHand' = [inHand EXCEPT ![r] = TRUE] /\ UNCHANGED seat
     \/ /\ inHand[r] /\ inHand' = [inHand EXCEPT ![r] = FALSE]
        /\ \E after \in {"chips", "broke"} : seat' = [seat EXCEPT ![r] = after]
  /\ down' = IF r \in heard THEN Append(down, TableState(r, seat'[r], inHand'[r])) ELSE down
  /\ UNCHANGED <<mode, page, seen, route, listed, heard, confirmed, excused, left, drops>>

(* Others play in a room that sends to him although he has no seat in it.  *)
OthersPlay(r) ==
  /\ seat[r] = "none" /\ r \in heard
  /\ Len(down) < MaxWire
  /\ down' = Append(down, TableState(r, "none", FALSE))
  /\ UNCHANGED <<mode, page, seen, route, server, confirmed, excused, left, drops>>

(* A vote removes the player.  His page shows nothing of it, and the       *)
(* registry lists the room on.                                             *)
VotedOut(r) ==
  /\ seat[r] # "none"
  /\ seat' = [seat EXCEPT ![r] = "none"]
  /\ inHand' = [inHand EXCEPT ![r] = FALSE]
  /\ heard' = heard \ {r}
  /\ UNCHANGED <<mode, page, seen, route, listed, down, confirmed, excused, left, drops>>

(* A click or a message meets a page whose effects have run.               *)
Event ==
  \/ AddTable \/ CloseDialog \/ ConfirmDialog \/ LeaveTable
  \/ Drop \/ Connect \/ Receive \/ Serve
  \/ \E r \in Rooms : SwitchTable(r) \/ Play(r) \/ OthersPlay(r) \/ VotedOut(r)

PageNext ==
  \/ Settled /\ Event
  \/ ~Settled /\ Effects
  \/ Navigate

PageSpec == PageInit /\ [][PageNext]_pageVars

-----------------------------------------------------------------------------
Playing == route = "here" /\ Settled /\ mode = "play"

(* A connected player without a room, whose join is not under way, is      *)
(* asked for a buy-in, unless he has put the question away, the page was   *)
(* still showing the answer Not seated when it came again (so that nothing *)
(* changed), or the F-16 code took a room away that showed him seated.     *)
AskedWhenUnseated ==
  Playing /\ page.online /\ page.rooms = << >> /\ ~page.isJoining
    => page.dialog \/ excused

(* The question for one more table stays until it is answered, whatever    *)
(* arrives meanwhile: a confirmation would otherwise be taken for it.      *)
AddingIsShown == Playing /\ page.adding => page.dialog

(* No second buy-in is sent while the page waits for the seat of a first   *)
(* one, but for one more table, or after leaving a table meanwhile: then   *)
(* hasJoined is reset and isJoining is not (handleLeaveTable), so the page *)
(* asks again and takes the answer.                                        *)
JoinsIn(up) == Cardinality({i \in DOMAIN up : up[i][1] = "join"})
Joins(p) == JoinsIn(p.up) + IF p.pending THEN 1 ELSE 0
OneJoinAtATime ==
  [][mode = "play" /\ Joins(page') > Joins(page)
       => ~page.isJoining \/ page.adding \/ left]_pageVars

(* A player who has lost his chips is asked for new ones after the hand.   *)
BustedIsAsked ==
  Playing /\ page.online /\ page.hasJoined /\ HeroSeated(page) /\ Shown(page).me = "broke"
    /\ ~Shown(page).inHand /\ ~page.isJoining
    => page.dialog \/ excused
=============================================================================
