\* Crashes, exits and restarts on two monitors; w2 is a transient of w1, starts
\* floating and takes the input focus.
SPECIFICATION FairSpec
CONSTANTS
  NULL = NULL
  w1 = w1
  w2 = w2
  w3 = w3
  t1 = t1
  t2 = t2
  FirstTag = t1
  Win <- TwoWins
  NMon = 2
  Tag <- OneTag
  TransientFor <- W2ForW1
  NeverFocus <- None
  FloatRule <- SecondWin
  Masks <- AllMasks
  Layouts <- Tiling
  Fullers <- None
  Floaters <- None
  Urgers <- None
  Thieves <- SecondWin
  Unmappers <- None
  Withdrawers <- None
  HidKeys = FALSE
  Strays = FALSE
  Restarts = TRUE
INVARIANTS
  NoWindowLost
  SelectionOnTop
  InputFollowsSelection
PROPERTIES
  StolenFocusReturns
  DestroyedIsForgotten
