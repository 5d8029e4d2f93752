\* Quitting with hidden clients.
SPECIFICATION Spec
CONSTANTS
  NULL = NULL
  w1 = w1
  w2 = w2
  w3 = w3
  t1 = t1
  t2 = t2
  FirstTag = t1
  Win <- TwoWins
  NMon = 1
  Tag <- OneTag
  TransientFor <- NoTransient
  NeverFocus <- None
  FloatRule <- None
  Masks <- AllMasks
  Layouts <- Tiling
  Fullers <- None
  Floaters <- None
  Urgers <- None
  Thieves <- None
  Unmappers <- None
  Withdrawers <- None
  HidKeys = FALSE
  Strays = FALSE
  Restarts = TRUE
INVARIANTS
  QuitRestoresHidden
