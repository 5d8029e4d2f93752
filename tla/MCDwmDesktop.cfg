\* Two windows on monitors that come and go, under the layouts, the modes, the
\* pointer and the requests of clients.
SPECIFICATION Spec
CONSTANTS
  NULL = NULL
  w1 = w1
  w2 = w2
  t1 = t1
  FirstTag = t1
  Win <- MCWin
  NMon = 2
  Tag <- MCTag
  TransientFor <- MCTransient
  NeverFocus <- MCNone
  FloatRule <- MCNone
  bh = 1
  borderpx = 1
  Hints <- MCHints
  Screens <- MCScreens
  Frames <- MCFrames
  Requests <- MCRequests
  Spots <- MCSpots
  Masters <- MCMasters
  MFacts <- MCMFacts
  MaxGap = 2
  gappx = 1
  snap = 2
  border0 = 0
  Users <- MCUsers
INVARIANTS
  TypeOK
  MonitorsSound
  TilesApart
PROPERTIES
  HotplugKeepsClients
  HotplugBringsBack
  DropLands
