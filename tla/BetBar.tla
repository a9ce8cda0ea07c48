------------------------------- MODULE BetBar -------------------------------
(***************************************************************************)
(* The amount a player raises by, from his client to the engine: what      *)
(* TablePage computes from the ActionRequired it was sent, the raise panel *)
(* of the action bar that holds the amount, and the two checks it meets,   *)
(* process_action's and the engine's.  The bar outlives a hand, so a hand  *)
(* begins with the panel as an earlier one left it.                        *)
(*                                                                         *)
(* Phone chooses between the two clients: the web keeps the amount in the  *)
(* panel, which starts anew when it is mounted; the phone keeps it in the  *)
(* bar.                                                                    *)
(*                                                                         *)
(* Abstracted: the time a message takes (TableClient has it), animations,  *)
(* and which of its controls changes the amount.  The blinds never reach   *)
(* the client, so its steps and presets are multiples of 10: the amounts   *)
(* they lead to are among those typed.                                     *)
(***************************************************************************)
EXTENDS HandEngine

CONSTANTS Hero,      \* the player's seat
          Phone,     \* the mobile app, not the web
          MaxTyped   \* bound: the largest number he types

ASSUME BarAssumption == Hero \in Seats /\ Phone \in BOOLEAN /\ MaxTyped \in Nat

VARIABLES raiseOpen,  \* the raise panel was opened
          amount      \* what it will send

barVars == <<vars, raiseOpen, amount>>

-----------------------------------------------------------------------------
(* What the page makes of the ActionRequired and of the hero's stack.      *)

Asked(h) == ~h.complete /\ h.current = Hero

ToCallOf(h) ==
  IF h.roundBet[Hero] < h.smallest THEN h.smallest - h.roundBet[Hero] ELSE 0

(* Mistake: min_raise is taken for what the raise costs.                   *)
LeastWithoutCall(h) == h.minRaise

Least(h) == ToCallOf(h) + h.minRaise
Most(h)  == h.stack[Hero]
CanRaise(h) == Most(h) >= Least(h)

(* The panel is on the screen.                                             *)
Shown(h, open) == open /\ Asked(h) /\ CanRaise(h)

(* What becomes of raise with this amount: process_action, then the engine.*)
Accepted(h, a) == a >= h.minRaise /\ RaiseIsLegal(h, Hero, a)

-----------------------------------------------------------------------------
(* The amount of the web's panel while it is not mounted: there is none.   *)
NoAmount == 0

(* A hand begins with the panel open or not, as it was in the hand before: *)
(* his clock may have folded the hero while it was open.  The phone still  *)
(* has an amount of then, which was at least a big blind.                  *)
BarInit == /\ Init
           /\ raiseOpen \in BOOLEAN
           /\ amount \in IF Phone THEN BigBlind .. MaxTyped
                        ELSE {IF Shown(hand, raiseOpen) THEN Least(hand) ELSE NoAmount}

(* Mistake: the panel does not look at its new minimum.                    *)
RenderOnMount ==
  amount' = IF ~Shown(hand', raiseOpen') THEN NoAmount
            ELSE IF ~Shown(hand, raiseOpen) THEN Least(hand') ELSE amount

(* After a step the panel is rendered.  The web's starts at the minimum    *)
(* when it is mounted and when the minimum changes.                        *)
Render ==
  amount' = IF Phone THEN amount
            ELSE IF ~Shown(hand', raiseOpen') THEN NoAmount
            ELSE IF Shown(hand, raiseOpen) /\ Least(hand') = Least(hand) THEN amount
            ELSE Least(hand')

(* The other seats act, or leave.                                          *)
OthersAct ==
  /\ \E s \in Seats \ {Hero} : Act(s) \/ ForceFold(s)
  /\ UNCHANGED raiseOpen /\ Render

(* The hero's clock folds him.                                             *)
TimedOut == Fold(Hero) /\ UNCHANGED raiseOpen /\ Render

(* His other buttons and keys: they do not close the panel, which on the   *)
(* phone covers them.                                                      *)
Answer ==
  /\ Asked(hand) /\ ~(Phone /\ Shown(hand, raiseOpen))
  /\ \/ Fold(Hero)
     \/ ToCallOf(hand) = 0 /\ Check(Hero)
     \/ ToCallOf(hand) # 0 /\ Call(Hero)
     \/ Raise(Hero, hand.stack[Hero])
  /\ UNCHANGED raiseOpen /\ Render

(* Raise, the button or its key, which only the web has: the key does not  *)
(* ask whether he can raise.                                               *)
ToggleRaise ==
  /\ Asked(hand) /\ (Phone => CanRaise(hand))
  /\ raiseOpen' = ~raiseOpen
  /\ UNCHANGED vars
  /\ IF Phone THEN amount' = Least(hand) ELSE Render

Clamped(h, v) ==
  IF v < Least(h) THEN Least(h) ELSE IF v > Most(h) THEN Most(h) ELSE v

(* The panel's controls: the track, more, less, the wheel, the presets     *)
(* that are not disabled, or on the web a number typed.                    *)
Adjust ==
  /\ Shown(hand, raiseOpen)
  /\ amount' \in {Clamped(hand, v) : v \in 0 .. MaxTyped}
  /\ UNCHANGED <<vars, raiseOpen>>

(* Confirm Raise.  A refusal is shown and changes nothing.                 *)
Confirm ==
  /\ Shown(hand, raiseOpen)
  /\ raiseOpen' = FALSE
  /\ IF Accepted(hand, amount) THEN Raise(Hero, amount) ELSE UNCHANGED vars
  /\ Render

Cancel == /\ Shown(hand, raiseOpen) /\ raiseOpen' = FALSE
          /\ UNCHANGED vars /\ Render

BarNext == \/ OthersAct \/ TimedOut \/ Answer
           \/ ToggleRaise \/ Adjust \/ Confirm \/ Cancel

BarSpec == BarInit /\ [][BarNext]_barVars

(* The turn timer folds whoever does not answer, so that somebody acts in  *)
(* the end; what the hero does with his panel promises nothing.            *)
BarFairness == WF_barVars(OthersAct \/ TimedOut \/ Answer)

FairBarSpec == BarSpec /\ BarFairness

-----------------------------------------------------------------------------
(* Confirm never sends what the table refuses: the amount on the panel is  *)
(* a legal raise of this decision, whatever the amount of earlier ones and *)
(* however the turn came back while the panel was open (RaiseSlider,       *)
(* TablePage, process_action).                                             *)
PanelIsLegal == Shown(hand, raiseOpen) => Accepted(hand, amount)

(* The bounds of the panel are the engine's: it offers every legal raise   *)
(* short of all-in, and is missing only when there is none (TablePage's    *)
(* finalMinRaise and canRaise against Action::Raise).                      *)
EveryRaiseIsOffered ==
  Asked(hand) =>
    {a \in 1 .. Most(hand) - 1 : Accepted(hand, a)} = Least(hand) .. Most(hand) - 1
=============================================================================
