SPECIFICATION Spec
CONSTANTS
  MaxHands = 2
  MaxDecisions = 3
  MaxSends = 1
  MaxDrops = 1
  Offered = {"none", "fold", "check_or_call_any"}
INVARIANTS ShowsTheHand PutsAwayTheHand AppliedAsMeant PreActionIsForThisDecision PreActionAnswersOnce
PROPERTIES PreActionIsSent
CHECK_DEADLOCK FALSE
