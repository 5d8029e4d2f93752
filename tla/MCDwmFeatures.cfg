\* One monitor, two windows.  Two tags and every tag mask; or fullscreen, floating,
\* maximized and hidden together, all layouts, one window asking for attention.
SPECIFICATION Spec
CONSTANTS
  NULL = NULL
  w1 = w1
  w2 = w2
  w3 = w3
  t1 = t1
  t2 = t2
  FirstTag = t1
  Win <- TwoWins
  NMon = 1
  Tag <- TwoTags
  TransientFor <- NoTransient
  NeverFocus <- None
  FloatRule <- None
  Masks <- AllMasks
  Layouts <- AnyLayout
  Fullers <- OneWin
  Floaters <- OneWin
  Urgers <- OneWin
  Thieves <- None
  Unmappers <- None
  Withdrawers <- None
  HidKeys = FALSE
  Strays = TRUE
  Restarts = FALSE
INVARIANTS
  TitlebarShown
  SelectionNotUrgent
  TagsNotEmpty
  SelectionOnTop
CONSTRAINTS
  OneFeature
