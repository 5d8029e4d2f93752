----------------------------- MODULE DwmGeometry -----------------------------
(***************************************************************************)
(* The geometry of dwm: size hints, the layouts and the monitors, as       *)
(* operators on states like those of DwmState.  The states have more       *)
(* fields:                                                                 *)
(*                                                                         *)
(*   per monitor   head (mx, my, mw, mh), bar (showbar), lay (the layout), *)
(*                 gap, nmaster, mfact (hundredths)                        *)
(*   per client    geo (x, y, w, h: the slot, titlebar included), bw,      *)
(*                 oldbw, old (oldx .., kept while fullscreen, when it is  *)
(*                 read), sm (smx .., kept while maximized)                *)
(*   X server      xbw, the border width of each window                    *)
(*   nmons, screen the length of mons; sw and sh                           *)
(*                                                                         *)
(* A rectangle is a record [x, y, w, h].  Coordinates are scaled down: a   *)
(* unit stands for a titlebar's height.                                    *)
(***************************************************************************)
EXTENDS DwmState, Integers, FiniteSetsExt

CONSTANTS
  bh,        \* height of the bar and of a titlebar
  borderpx,
  Hints      \* WM_NORMAL_HINTS: [basew, baseh, minw, minh, maxw, maxh, incw, inch]

HintRecords ==
  [basew : Int, baseh : Int, minw : Int, minh : Int, maxw : Int, maxh : Int,
   incw : Nat, inch : Nat]

ASSUME GeometryAssumption ==
  bh \in Nat \ {0} /\ borderpx \in Nat /\ Hints \in [Win -> HintRecords]

Rects == [x : Int, y : Int, w : Int, h : Int]
Rect(x, y, w, h) == [x |-> x, y |-> y, w |-> w, h |-> h]
AtLeast(n, min) == IF n < min THEN min ELSE n
AtMost(n, max) == IF max < n THEN max ELSE n
NoRect == Rect(0, 0, 0, 0)

WIDTH(s, c) == s.geo[c].w + 2 * s.bw[c]
HEIGHT(s, c) == s.geo[c].h + 2 * s.bw[c]

\* updatebarpos: the bar is at the bottom (topbar is 0).
WindowArea(s, m) == [s.head[m] EXCEPT !.h = @ - (IF s.bar[m] THEN bh ELSE 0)]

\* What a client covers on the screen, borders included.
Outer(s, c) == Rect(s.geo[c].x, s.geo[c].y, WIDTH(s, c), HEIGHT(s, c))

Overlap(a, b) ==
  AtLeast(AtMost(a.x + a.w, b.x + b.w) - AtLeast(a.x, b.x), 0)
    * AtLeast(AtMost(a.y + a.h, b.y + b.h) - AtLeast(a.y, b.y), 0)
Inside(a, b) == /\ b.x <= a.x /\ a.x + a.w <= b.x + b.w
                /\ b.y <= a.y /\ a.y + a.h <= b.y + b.h

\* The first monitor most of r is on; selmon when r is on none.
recttomon(s, r) ==
  LET area(m) == Overlap(r, WindowArea(s, m))
      best == {m \in 1 .. s.nmons : \A n \in 1 .. s.nmons : area(n) <= area(m)}
      m == Min(best)
  IN  IF area(m) > 0 THEN m ELSE s.selmon

-----------------------------------------------------------------------------
(* applysizehints, one dimension at a time: lo and size are the area of the *)
(* monitor and outer is WIDTH(c) or HEIGHT(c).                              *)

\* x and y when the user moves the window: bounded by the whole screen.
PlacedByUser(x, w, outer, bw, screen) ==
  LET p == IF x > screen THEN screen - outer ELSE x
  IN  IF p + w + 2 * bw < 0 THEN 0 ELSE p

\* Wrong variant: a window beyond the far edge stays there.
Placed_NearOnly(x, w, outer, bw, lo, size) == IF x + w + 2 * bw <= lo THEN lo ELSE x

\* x and y otherwise: the window is brought back to its monitor.
Placed(x, w, outer, bw, lo, size) ==
  LET p == IF x >= lo + size THEN lo + size - outer ELSE x
  IN  IF p + w + 2 * bw <= lo THEN lo ELSE p

\* The remainder of C, with the sign of the dividend.
Rem(a, b) == IF a >= 0 THEN a % b ELSE -((-a) % b)

Stepped(w, base, min, max, inc) ==
  LET free == AtLeast(w, bh) - base
      step == IF inc = 0 THEN free ELSE free - Rem(free, inc)
      low  == AtLeast(step + base, min)
  IN  IF max = 0 THEN low ELSE AtMost(low, max)

\* The aspect ratios are left out.
applysizehints(s, c, r, interact) ==
  LET a == WindowArea(s, s.mon[c])
      w == AtLeast(r.w, 1)
      h == AtLeast(r.h, 1)
      k == Hints[c]
  IN  Rect(IF interact THEN PlacedByUser(r.x, w, WIDTH(s, c), s.bw[c], s.screen[1])
                       ELSE Placed(r.x, w, WIDTH(s, c), s.bw[c], a.x, a.w),
           IF interact THEN PlacedByUser(r.y, h, HEIGHT(s, c), s.bw[c], s.screen[2])
                       ELSE Placed(r.y, h, HEIGHT(s, c), s.bw[c], a.y, a.h),
           Stepped(w, k.basew, k.minw, k.maxw, k.incw),
           Stepped(h, k.baseh, k.minh, k.maxh, k.inch))

Noted(s, c) == IF s.mode[c].full THEN s.geo[c] ELSE NoRect

resizeclient(s, c, r) ==
  [s EXCEPT !.old[c] = Noted(s, c), !.geo[c] = r, !.xbw[c] = s.bw[c]]

\* What the hints leave of a content's size is compared, as it is in the code,
\* with the slot, which is higher by the titlebar and a border.
Sized(s, c, q) ==
  IF q = s.geo[c] THEN s
  ELSE resizeclient(s, c, [q EXCEPT !.h = @ + bh + s.bw[c]])

resize(s, c, r, interact) ==
  Sized(s, c, applysizehints(s, c, [r EXCEPT !.h = @ - bh - s.bw[c]], interact))

-----------------------------------------------------------------------------
(* Layouts.                                                                *)

nexttiled(s, m) ==
  Those(s.clients[m], {c \in ShownOn(s, m) : ~s.mode[c].float})

\* Wrong variant: the borders of a window are not counted.
Below_NoBorder(s, ys, k, c, m) ==
  LET next == ys[k] + s.geo[c].h
  IN  [s |-> s, y |-> IF next < WindowArea(s, m).h THEN [ys EXCEPT ![k] = next] ELSE ys]

\* Where the columns are filled to when c has been placed in the k-th.
Below(s, ys, k, c, m) ==
  LET next == ys[k] + HEIGHT(s, c) + s.gap[m]
  IN  [s |-> s, y |-> IF next < WindowArea(s, m).h THEN [ys EXCEPT ![k] = next] ELSE ys]

\* One window of the k-th column, which n windows are still to share.
Column(acc, k, c, n, x, w, m) ==
  LET a == WindowArea(acc.s, m)
      h == (a.h - acc.y[k]) \div n - acc.s.gap[m]
      b == 2 * acc.s.bw[c]
  IN  Below(resize(acc.s, c, Rect(x, a.y + acc.y[k], w - b, h - b), FALSE),
            acc.y, k, c, m)

\* The unsigned arithmetic of the code does not wrap around: the gap is at
\* most the height of the window area (MaxGap of DwmDesktop).
tile(s, m) ==
  LET a == WindowArea(s, m)
      g == s.gap[m]
      seq == nexttiled(s, m)
      n == Len(seq)
      k == s.nmaster[m]
      mw == IF n > k THEN IF k = 0 THEN 0 ELSE (a.w * s.mfact[m]) \div 100
            ELSE a.w - g
      place(acc, i) ==
        IF i <= k
        THEN Column(acc, 1, seq[i], AtMost(n, k) - i + 1, a.x + g, mw - g, m)
        ELSE Column(acc, 2, seq[i], n - i + 1, a.x + mw + g, a.w - mw - 2 * g, m)
  IN  Walk(place, [s |-> s, y |-> <<g, g>>], [i \in 1 .. n |-> i]).s

monocle(s, m) ==
  LET a == WindowArea(s, m)
      fill(t, c) == resize(t, c, Rect(a.x, a.y, a.w - 2 * t.bw[c], a.h - 2 * t.bw[c]),
                           FALSE)
  IN  Walk(fill, s, nexttiled(s, m))

\* The part of showhide() that changes slots; where X puts the windows that
\* are not in view is left out.
showhide(s, m) ==
  LET loose == {c \in VisibleOn(s, m) :
                  ~s.mode[c].full /\ (s.lay[m] = "float" \/ s.mode[c].float)}
      again(t, c) == resize(t, c, t.geo[c], FALSE)
  IN  Walk(again, s, Those(s.stack[m], loose))

arrangemon(s, m) == CASE s.lay[m] = "tile" -> tile(s, m)
                      [] s.lay[m] = "monocle" -> monocle(s, m)
                      [] s.lay[m] = "float" -> s

\* arrange(m) and arrange(NULL).
Arranged(s, m) == restack(arrangemon(showhide(s, m), m), m)
ArrangedAll(s) ==
  LET mons == [m \in 1 .. s.nmons |-> m]
  IN  Walk(arrangemon, Walk(showhide, s, mons), mons)

-----------------------------------------------------------------------------
(* Modes.                                                                  *)

\* setfullscreen, with what it does to the slot and the border.
Fullscreened(s, c, on) ==
  LET t == setfullscreen(s, c, on)
  IN  IF on = s.mode[c].full THEN s
      ELSE IF on THEN resizeclient([t EXCEPT !.oldbw[c] = s.bw[c], !.bw[c] = 0],
                                   c, s.head[s.mon[c]])
      ELSE Arranged(resizeclient([t EXCEPT !.bw[c] = s.oldbw[c], !.geo[c] = s.old[c]],
                                 c, s.old[c]),
                    s.mon[c])

Maximized(s, c) ==
  LET m == s.mon[c]
      a == WindowArea(s, m)
      d == s.mode[c]
      fill == Rect(a.x, a.y, a.w - 2 * s.bw[c], a.h - 2 * s.bw[c])
      on == [s EXCEPT !.sm[c] = s.geo[c],
                      !.mode[c] = [d EXCEPT !.max = TRUE, !.float = TRUE,
                                            !.smf = d.float]]
      off == [s EXCEPT !.sm[c] = NoRect,
                       !.mode[c] = [d EXCEPT !.max = FALSE, !.float = d.smf,
                                             !.smf = FALSE]]
  IN  IF c = NULL \/ d.full THEN s
      ELSE Arranged(IF d.max THEN resizeclient(off, c, s.sm[c])
                    ELSE resizeclient(on, c, fill), m)

\* togglefloating(NULL) acts on the selected client; no size is fixed here.
Settled(s, c) == IF s.mode[c].float THEN resize(s, c, s.geo[c], FALSE) ELSE s
Floated(s) ==
  LET c == s.sel[s.selmon]
  IN  IF c = NULL \/ s.mode[c].full THEN s
      ELSE Arranged(Settled([s EXCEPT !.mode[c].float = ~@], c), s.selmon)

=============================================================================
