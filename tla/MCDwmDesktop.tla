----------------------------- MODULE MCDwmDesktop -----------------------------
(* Instances of DwmDesktop for TLC: two monitors side by side, of which the   *)
(* second may be taken away and the first may become smaller.                 *)
EXTENDS DwmDesktop

CONSTANTS w1, w2, t1

MCWin == {w1, w2}
MCTag == {t1}
MCTransient == [w \in Win |-> NULL]
MCNone == {}

Left == Rect(0, 0, 16, 18)
Right == Rect(16, 0, 14, 18)
Small == Rect(0, 0, 12, 15)
MCScreens == {[size |-> <<30, 18>>, heads |-> <<Left, Right>>],
              [size |-> <<12, 15>>, heads |-> <<Small>>]}

\* w2 wants at least six columns and grows in steps of two, w1 has at most
\* seven lines.
MCHints == [w \in Win |->
  [basew |-> 0, baseh |-> 0, minh |-> 0, maxw |-> 0, inch |-> 0,
   minw |-> IF w = w2 THEN 6 ELSE 0, incw |-> IF w = w2 THEN 2 ELSE 0,
   maxh |-> IF w = w1 THEN 7 ELSE 0]]

MCFrames == {Rect(2, 4, 5, 6), Rect(24, 10, 9, 7)}
\* All of a frame, or another place only.
MCRequests == (MCFrames \X {{"x", "y", "w", "h"}}) \cup {<<Rect(24, 10, 9, 7), {"x", "y"}>>}
MCSpots == {<<18, 5>>, <<-3, 13>>}
MCMasters == {0, 1, 2}
MCMFacts == {50, 70}

\* The hazards are in what these do together; all at once is out of reach.
MCUsers == {{"master", "gap", "mons"}, {"bar", "layout", "mfact"},
            {"layout", "hotplug", "mons"}, {"hide", "hotplug", "mons"},
            {"move", "max", "close"}, {"move", "hotplug"}, {"size", "request"},
            {"full", "float", "bar"}, {"full", "request", "hotplug"},
            {"full", "mons", "close"}}
JustMove == {{"move"}}
=============================================================================
