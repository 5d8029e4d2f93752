\* One monitor, three windows, one tag: list surgery and the selection against
\* unmaps, withdrawals and destructions, and the keys that reveal hidden windows.
SPECIFICATION Spec
CONSTANTS
  NULL = NULL
  w1 = w1
  w2 = w2
  w3 = w3
  t1 = t1
  t2 = t2
  FirstTag = t1
  Win <- ThreeWins
  NMon = 1
  Tag <- OneTag
  TransientFor <- NoTransient
  NeverFocus <- OneWin
  FloatRule <- None
  Masks <- AllMasks
  Layouts <- Tiling
  Fullers <- None
  Floaters <- None
  Urgers <- None
  Thieves <- None
  Unmappers <- OneWin
  Withdrawers <- OneWin
  HidKeys = TRUE
  Strays = FALSE
  Restarts = FALSE
INVARIANTS
  TypeOK
  ListsConsistent
  FocusNotLost
  ClientListCurrent
  IconicIsUnmapped
SYMMETRY Symmetry
