-------------------------- MODULE DwmDesktopProofs --------------------------
(***************************************************************************)
(* What holds on the desktop for every number of windows and monitors,     *)
(* every screen that is plugged in, and every place a drag asks for.       *)
(*                                                                         *)
(* The state of DwmDesktop is one of DwmState with a geometry.  Base takes *)
(* the geometry away; each operator of DwmState, done on the desktop, is   *)
(* shown to be the same operator on the Base (Follows), so that the lemmas *)
(* of DwmStateProofs hold here too.  The layouts only move windows (Laid). *)
(* With them every C function either leaves clients and monitors where     *)
(* they are (Stays), or moves one client (Sent, MovedToFirst), or adds and *)
(* removes monitors (Updated): the result is Sturdy, that is, typed,       *)
(* consistent and with each client on a monitor that is there.             *)
(***************************************************************************)
EXTENDS DwmDesktop, DwmStateProofs

USE DwmAssumption

\* One client of a removed monitor, as DwmState sees it.
LEMMA MovedToFirstBase ==
  ASSUME NEW s, Full(s), NEW c
  PROVE  Follows(s, MovedToFirst(s, c), MovedToFirst(Base(s), c))
<1> DEFINE d(z) == detachstack(detach(z, c), c)
           f(z) == [z EXCEPT !.mon[c] = 1]
           a(z) == attachstack(attach(z, c), c)
<1>1. \A z : MovedToFirst(z, c) = a(f(d(z)))
  BY DEF MovedToFirst
<1>2. ASSUME NEW z, Full(z)
      PROVE  /\ Follows(z, d(z), d(Base(z))) /\ Follows(z, f(z), f(Base(z)))
             /\ Follows(z, a(z), a(Base(z)))
  BY <1>2, PlaceBase, RemoveBase
<1> HIDE DEF d, f, a
<1>3. \A v, y, e : Follows(v, y, e) => Base(y) = e /\ Full(y)
  BY DEF Follows, SameExtent
<1>4. Follows(s, f(d(s)), f(d(Base(s))))
  BY <1>2, <1>3, FollowsTrans
<1>5. Follows(s, a(f(d(s))), a(f(d(Base(s)))))
  BY <1>2, <1>3, <1>4, FollowsTrans
<1> QED BY <1>1, <1>5

-----------------------------------------------------------------------------
(* Geometry.  The layouts change slots and borders as the server has them. *)

USE GeometryAssumption, DesktopAssumption

Extents ==
  [head : [Mon -> Rects], bar : [Mon -> BOOLEAN],
   lay : [Mon -> {"tile", "monocle", "float"}], gap : [Mon -> 0 .. MaxGap],
   nmaster : [Mon -> Nat], mfact : [Mon -> Nat],
   geo : [Win -> Rects], old : [Win -> Rects], sm : [Win -> Rects],
   bw : [Win -> Int], oldbw : [Win -> Int], xbw : [Win -> Int],
   nmons : Mon, screen : Int \X Int]

Ext(s) == [f \in Extent |-> s[f]]

Typed(s) == Full(s) /\ Base(s) \in State /\ Ext(s) \in Extents

\* The states of the desktop, as a set.
Desktop == {[f \in Fields \cup Extent |-> IF f \in Fields THEN b[f] ELSE g[f]] :
              b \in State, g \in Extents}

\* The windows may lie elsewhere in t, and DwmState sees b.
Lies(s, t, b) ==
  /\ Typed(t) /\ Base(t) = b
  /\ \A f \in Extent \ {"geo", "old", "xbw"} : t[f] = s[f]

\* What a layout does.
Laid(s, t) == Lies(s, t, Base(s))

LEMMA TypedDesktop ==
  ASSUME NEW s, Typed(s)
  PROVE  s \in Desktop
<1> DEFINE b == Base(s)
           g == Ext(s)
<1>1. b \in State /\ g \in Extents
  BY DEF Typed
<1>2. \A f \in Fields : b[f] = s[f]
  BY DEF Base
<1>3. \A f \in Extent : g[f] = s[f]
  BY DEF Ext
<1> HIDE DEF b, g
<1>4. s = [f \in Fields \cup Extent |-> s[f]]
  BY DEF Typed, Full
<1>5. s = [f \in Fields \cup Extent |-> IF f \in Fields THEN b[f] ELSE g[f]]
  BY <1>2, <1>3, <1>4
<1> QED BY <1>1, <1>5 DEF Desktop

LEMMA ExtFields ==
  ASSUME NEW s, Typed(s)
  PROVE  /\ s.head \in [Mon -> Rects] /\ s.bar \in [Mon -> BOOLEAN]
         /\ s.lay \in [Mon -> {"tile", "monocle", "float"}]
         /\ s.gap \in [Mon -> 0 .. MaxGap] /\ s.nmaster \in [Mon -> Nat]
         /\ s.mfact \in [Mon -> Nat] /\ s.geo \in [Win -> Rects]
         /\ s.old \in [Win -> Rects] /\ s.sm \in [Win -> Rects]
         /\ s.bw \in [Win -> Int] /\ s.oldbw \in [Win -> Int]
         /\ s.xbw \in [Win -> Int] /\ s.nmons \in Mon /\ s.screen \in Int \X Int
<1>1. /\ Ext(s).head = s.head /\ Ext(s).bar = s.bar /\ Ext(s).lay = s.lay
      /\ Ext(s).gap = s.gap /\ Ext(s).nmaster = s.nmaster /\ Ext(s).mfact = s.mfact
      /\ Ext(s).geo = s.geo /\ Ext(s).old = s.old /\ Ext(s).sm = s.sm
      /\ Ext(s).bw = s.bw /\ Ext(s).oldbw = s.oldbw /\ Ext(s).xbw = s.xbw
      /\ Ext(s).nmons = s.nmons /\ Ext(s).screen = s.screen
  BY DEF Ext, Extent
<1>2. Ext(s) \in Extents
  BY DEF Typed
<1> QED BY <1>1, <1>2 DEF Extents

LEMMA StateFields ==
  ASSUME NEW s, Typed(s)
  PROVE  /\ s.clients \in [Mon -> Seq(Win)] /\ s.stack \in [Mon -> Seq(Win)]
         /\ s.mon \in [Win -> Mon] /\ s.mode \in [Win -> Modes] /\ s.selmon \in Mon
         /\ s.sel \in [Mon -> WinOrNull] /\ s.tiling \in [Mon -> BOOLEAN]
         /\ DOMAIN s = Fields \cup Extent
  BY BaseFields DEF Typed, State, Full

\* A field of the geometry gets a new value.
LEMMA PutExtent ==
  ASSUME NEW s, Typed(s), NEW f \in Extent, NEW v, [Ext(s) EXCEPT ![f] = v] \in Extents
  PROVE  /\ Typed(Put(s, f, v)) /\ Base(Put(s, f, v)) = Base(s)
         /\ \A g \in Extent \ {f} : Put(s, f, v)[g] = s[g]
         /\ Put(s, f, v)[f] = v
<1> DEFINE t == Put(s, f, v)
<1>1. DOMAIN s = Fields \cup Extent
  BY StateFields
<1>2. Full(t) /\ \A g \in (Fields \cup Extent) \ {f} : t[g] = s[g]
  BY <1>1 DEF Full, Put
<1>3. t[f] = v
  BY <1>1 DEF Put
<1>4. \A g \in Fields : g # f
  BY DEF Fields, Extent
<1> HIDE DEF t
<1>5. Base(t) = Base(s)
  BY <1>2, <1>4 DEF Base
<1>6. Ext(t) = [Ext(s) EXCEPT ![f] = v]
  BY <1>2, <1>3 DEF Ext
<1> QED BY <1>2, <1>3, <1>5, <1>6 DEF Typed, t

LEMMA LaidSelf ==
  ASSUME NEW s, Typed(s)
  PROVE  Laid(s, s)
  BY DEF Laid, Lies

LEMMA LaidTrans ==
  ASSUME NEW s, NEW t, NEW u, Laid(s, t), Laid(t, u)
  PROVE  Laid(s, u)
  BY DEF Laid, Lies

LEMMA LiesTrans ==
  ASSUME NEW s, NEW t, NEW u, NEW b, NEW d, Lies(s, t, b), Lies(t, u, d)
  PROVE  Lies(s, u, d)
  BY DEF Lies

LEMMA RectFields ==
  ASSUME NEW r \in Rects
  PROVE  /\ r.x \in Int /\ r.y \in Int /\ r.w \in Int /\ r.h \in Int
         /\ \A v \in Int : [r EXCEPT !.h = v] \in Rects
  BY DEF Rects

LEMMA AreaRect ==
  ASSUME NEW s, Typed(s), NEW m \in Mon
  PROVE  WindowArea(s, m) \in Rects
<1>1. s.head[m] \in Rects
  BY ExtFields
<1> DEFINE v == s.head[m].h - (IF s.bar[m] THEN bh ELSE 0)
<1>2. v \in Int
  BY <1>1, RectFields
<1>3. WindowArea(s, m) = [s.head[m] EXCEPT !.h = v]
  BY DEF WindowArea
<1> HIDE DEF v
<1> QED BY <1>1, <1>2, <1>3, RectFields

LEMMA SizedInt ==
  ASSUME NEW w \in Int, NEW base \in Int, NEW min \in Int, NEW max \in Int, NEW inc \in Nat
  PROVE  Stepped(w, base, min, max, inc) \in Int
<1> DEFINE free == AtLeast(w, bh) - base
           step == IF inc = 0 THEN free ELSE free - Rem(free, inc)
<1>1. free \in Int
  BY DEF AtLeast
<1> HIDE DEF free
<1>2. inc # 0 => Rem(free, inc) \in Int
  BY <1>1 DEF Rem
<1>3. step \in Int
  BY <1>1, <1>2
<1>4. Stepped(w, base, min, max, inc)
        = IF max = 0 THEN AtLeast(step + base, min) ELSE AtMost(AtLeast(step + base, min), max)
  BY DEF Stepped, step, free
<1> HIDE DEF step
<1>5. AtLeast(step + base, min) \in Int
  BY <1>3 DEF AtLeast
<1> QED BY <1>4, <1>5 DEF AtMost

LEMMA HintsRect ==
  ASSUME NEW s, Typed(s), NEW c \in Win, NEW r \in Rects, NEW i \in BOOLEAN
  PROVE  applysizehints(s, c, r, i) \in Rects
<1> DEFINE m == s.mon[c]
           a == WindowArea(s, m)
           w == AtLeast(r.w, 1)
           h == AtLeast(r.h, 1)
           k == Hints[c]
           W == WIDTH(s, c)
           H == HEIGHT(s, c)
           b == s.bw[c]
           px == IF i THEN PlacedByUser(r.x, w, W, b, s.screen[1])
                      ELSE Placed(r.x, w, W, b, a.x, a.w)
           py == IF i THEN PlacedByUser(r.y, h, H, b, s.screen[2])
                      ELSE Placed(r.y, h, H, b, a.y, a.h)
           pw == Stepped(w, k.basew, k.minw, k.maxw, k.incw)
           ph == Stepped(h, k.baseh, k.minh, k.maxh, k.inch)
<1>1. m \in Mon
  BY StateFields
<1>2. a.x \in Int /\ a.y \in Int /\ a.w \in Int /\ a.h \in Int
  BY <1>1, AreaRect DEF Rects
<1>3. r.x \in Int /\ r.y \in Int /\ w \in Int /\ h \in Int
  BY DEF Rects, AtLeast
<1>4. b \in Int /\ s.screen[1] \in Int /\ s.screen[2] \in Int
  BY ExtFields
<1>5. W \in Int /\ H \in Int
  <2>1. s.geo[c] \in Rects
    BY ExtFields
  <2>2. s.geo[c].w \in Int /\ s.geo[c].h \in Int
    BY <2>1, RectFields
  <2> QED BY <1>4, <2>2 DEF WIDTH, HEIGHT
<1>6. /\ k.basew \in Int /\ k.baseh \in Int /\ k.minw \in Int /\ k.minh \in Int
      /\ k.maxw \in Int /\ k.maxh \in Int /\ k.incw \in Nat /\ k.inch \in Nat
  BY DEF HintRecords
<1>7. applysizehints(s, c, r, i) = Rect(px, py, pw, ph)
  BY DEF applysizehints
<1> HIDE DEF a, w, h, k, W, H, b
<1>8. pw \in Int /\ ph \in Int
  BY <1>3, <1>6, SizedInt
<1>9. px \in Int /\ py \in Int
  <2>1. ASSUME NEW x \in Int, NEW y \in Int, NEW z \in Int, NEW e \in Int,
               NEW u \in Int, NEW v \in Int
        PROVE  PlacedByUser(x, y, z, e, u) \in Int /\ Placed(x, y, z, e, u, v) \in Int
    <3>1. PlacedByUser(x, y, z, e, u) \in Int
      BY DEF PlacedByUser
    <3>2. Placed(x, y, z, e, u, v) \in Int
      BY DEF Placed
    <3> QED BY <3>1, <3>2
  <2>2. a.x \in Int /\ a.w \in Int /\ a.y \in Int /\ a.h \in Int
    BY <1>2
  <2>3. /\ PlacedByUser(r.x, w, W, b, s.screen[1]) \in Int
        /\ Placed(r.x, w, W, b, a.x, a.w) \in Int
    BY <1>3, <1>4, <1>5, <2>1, <2>2
  <2>4. /\ PlacedByUser(r.y, h, H, b, s.screen[2]) \in Int
        /\ Placed(r.y, h, H, b, a.y, a.h) \in Int
    BY <1>3, <1>4, <1>5, <2>1, <2>2
  <2> QED BY <2>3, <2>4
<1> HIDE DEF px, py, pw, ph
<1> QED BY <1>7, <1>8, <1>9 DEF Rect, Rects

LEMMA ResizeclientLaid ==
  ASSUME NEW s, Typed(s), NEW c \in Win, NEW r \in Rects
  PROVE  /\ Laid(s, resizeclient(s, c, r))
         /\ resizeclient(s, c, r).geo[c] = r
<1> DEFINE o == [s.old EXCEPT ![c] = Noted(s, c)]
           g == [s.geo EXCEPT ![c] = r]
           x == [s.xbw EXCEPT ![c] = s.bw[c]]
           t == Put(s, "old", o)
           u == Put(t, "geo", g)
           v == Put(u, "xbw", x)
<1>1. resizeclient(s, c, r) = v
  BY DEF resizeclient, Put
<1>2. s.geo \in [Win -> Rects] /\ s.old \in [Win -> Rects] /\ s.bw \in [Win -> Int]
      /\ s.xbw \in [Win -> Int]
  BY ExtFields
<1>3. Noted(s, c) \in Rects
  BY <1>2 DEF Noted, NoRect, Rect, Rects
<1>4. o \in [Win -> Rects] /\ g \in [Win -> Rects] /\ x \in [Win -> Int] /\ g[c] = r
  BY <1>2, <1>3
<1> HIDE DEF o, g, x
<1>5. "old" \in Extent /\ "geo" \in Extent /\ "xbw" \in Extent
  BY DEF Extent
<1>6. ASSUME NEW z, Typed(z)
      PROVE  /\ [Ext(z) EXCEPT !["old"] = o] \in Extents
             /\ [Ext(z) EXCEPT !["geo"] = g] \in Extents
             /\ [Ext(z) EXCEPT !["xbw"] = x] \in Extents
  <2>1. Ext(z) \in Extents
    BY <1>6 DEF Typed
  <2> QED BY <1>4, <2>1 DEF Extents
<1>7. Typed(t) /\ Base(t) = Base(s) /\ \A f \in Extent \ {"old"} : t[f] = s[f]
  <2>1. [Ext(s) EXCEPT !["old"] = o] \in Extents
    BY <1>6
  <2> QED BY <1>5, <2>1, PutExtent
<1> HIDE DEF t
<1>8. Typed(u) /\ Base(u) = Base(t) /\ (\A f \in Extent \ {"geo"} : u[f] = t[f]) /\ u["geo"] = g
  <2>1. [Ext(t) EXCEPT !["geo"] = g] \in Extents
    BY <1>6, <1>7
  <2> QED BY <1>5, <1>7, <2>1, PutExtent
<1> HIDE DEF u
<1>9. Typed(v) /\ Base(v) = Base(u) /\ \A f \in Extent \ {"xbw"} : v[f] = u[f]
  <2>1. [Ext(u) EXCEPT !["xbw"] = x] \in Extents
    BY <1>6, <1>8
  <2> QED BY <1>5, <1>8, <2>1, PutExtent
<1> HIDE DEF v
<1>10. Laid(s, v)
  BY <1>7, <1>8, <1>9 DEF Laid, Lies
<1>11. v.geo = g
  BY <1>5, <1>8, <1>9
<1> QED BY <1>1, <1>4, <1>10, <1>11

LEMMA ResizeLaid ==
  ASSUME NEW s, Typed(s), NEW c \in Win, NEW r \in Rects, NEW i \in BOOLEAN
  PROVE  Laid(s, resize(s, c, r, i))
<1> DEFINE u == r.h - bh - s.bw[c]
           p == [r EXCEPT !.h = u]
           q == applysizehints(s, c, p, i)
           v == q.h + bh + s.bw[c]
           z == [q EXCEPT !.h = v]
<1>1. s.bw[c] \in Int
  BY ExtFields
<1>2. resize(s, c, r, i) = IF q = s.geo[c] THEN s ELSE resizeclient(s, c, z)
  BY DEF resize, Sized
<1>3. u \in Int
  BY <1>1, RectFields
<1> HIDE DEF u
<1>4. p \in Rects
  BY <1>3, RectFields
<1> HIDE DEF p
<1>5. q \in Rects
  BY <1>4, HintsRect
<1> HIDE DEF q
<1>6. v \in Int
  BY <1>1, <1>5, RectFields
<1> HIDE DEF v
<1>7. z \in Rects
  BY <1>5, <1>6, RectFields
<1> HIDE DEF z
<1> QED BY <1>2, <1>7, ResizeclientLaid, LaidSelf

\* Among the states that a layout may lead to.
Layouts(s) == {t \in Desktop : Laid(s, t)}

LEMMA LayoutsLemma ==
  ASSUME NEW s, Typed(s)
  PROVE  /\ s \in Layouts(s)
         /\ \A t \in Layouts(s) : Laid(s, t) /\ Typed(t)
         /\ \A t \in Layouts(s) : \A u : Laid(t, u) => u \in Layouts(s)
<1>1. s \in Layouts(s)
  BY TypedDesktop, LaidSelf DEF Layouts
<1>2. \A t \in Layouts(s) : Laid(s, t) /\ Typed(t)
  BY DEF Layouts, Laid, Lies
<1>3. ASSUME NEW t \in Layouts(s), NEW u, Laid(t, u) PROVE u \in Layouts(s)
  <2>1. Laid(s, u)
    BY <1>2, <1>3, LaidTrans
  <2>2. u \in Desktop
    BY <2>1, TypedDesktop DEF Laid, Lies
  <2> QED BY <2>1, <2>2 DEF Layouts
<1> QED BY <1>1, <1>2, <1>3

LEMMA ShowhideLaid ==
  ASSUME NEW s, Typed(s), NEW m \in Mon
  PROVE  Laid(s, showhide(s, m))
<1> DEFINE loose == {c \in VisibleOn(s, m) :
                       ~s.mode[c].full /\ (s.lay[m] = "float" \/ s.mode[c].float)}
           seq == Those(s.stack[m], loose)
           n == Len(seq)
           X == Layouts(s)
           Op(t, k) == resize(t, seq[k], t.geo[seq[k]], FALSE)
<1>1. seq \in Seq(Win)
  <2>1. s.stack[m] \in Seq(Win)
    BY StateFields
  <2> HIDE DEF loose
  <2>2. Those(s.stack[m], loose) \in Seq(Win \cap loose)
    BY <2>1, ThoseLemma
  <2> QED BY <2>2
<1>2. showhide(s, m) = Walk(LAMBDA t, c : resize(t, c, t.geo[c], FALSE), s, seq)
  BY DEF showhide
<1> HIDE DEF seq
<1>3. n \in Nat /\ s \in X /\ \A k \in 1 .. n, t \in X : Op(t, k) \in X
  <2>1. n \in Nat /\ s \in X
    BY <1>1, LayoutsLemma
  <2>2. ASSUME NEW k \in 1 .. n, NEW t \in X PROVE Op(t, k) \in X
    <3>1. seq[k] \in Win
      BY <1>1
    <3>2. Typed(t)
      BY LayoutsLemma
    <3>3. t.geo[seq[k]] \in Rects
      BY <3>1, <3>2, ExtFields
    <3>4. Laid(t, Op(t, k))
      BY <3>1, <3>2, <3>3, ResizeLaid
    <3> HIDE DEF Op
    <3> QED BY <3>4, LayoutsLemma
  <2> QED BY <2>1, <2>2
<1> DEFINE h == [p \in (1 .. n) \X X |-> Op(p[2], p[1])]
           Loop(e) == [k \in 0 .. n |-> IF k = 0 THEN s ELSE Op(e[k - 1], k)]
           e == CHOOSE e1 : e1 = Loop(e1)
<1>4. showhide(s, m) = e[n]
  BY <1>2 DEF Walk
<1> HIDE DEF n, X, Op
<1>5. h \in [(1 .. n) \X X -> X] /\ \A k \in 1 .. n : \A t \in X : h[<<k, t>>] = Op(t, k)
  BY <1>3
<1> HIDE DEF h
<1>6. PICK f : Rec(n, X, s, h, f)
  BY <1>3, <1>5, Recursion
<1>7. f = Loop(f)
  <2>1. /\ f = [k \in 0 .. n |-> f[k]] /\ f[0] = s
        /\ \A k \in 1 .. n : f[k - 1] \in X /\ f[k] = h[<<k, f[k - 1]>>]
    BY <1>3, <1>6 DEF Rec
  <2>2. ASSUME NEW k \in 0 .. n PROVE f[k] = Loop(f)[k]
    <3>1. CASE k = 0
      BY <2>1, <3>1
    <3>2. CASE k # 0
      <4>1. k \in 1 .. n
        BY <1>3, <3>2
      <4> QED BY <1>5, <2>1, <3>2, <4>1
    <3> QED BY <3>1, <3>2
  <2> QED BY <2>1, <2>2
<1>8. e = Loop(e)
  <2> HIDE DEF Loop
  <2> QED BY <1>7
<1> HIDE DEF e
<1>9. e[0] = s /\ \A k \in 1 .. n : e[k] = Op(e[k - 1], k)
  <2>1. 0 \in 0 .. n /\ \A k \in 1 .. n : k \in 0 .. n /\ k # 0
    BY <1>3
  <2>2. \A k \in 0 .. n : Loop(e)[k] = IF k = 0 THEN s ELSE Op(e[k - 1], k)
    OBVIOUS
  <2> HIDE DEF Loop
  <2>3. \A k \in 0 .. n : e[k] = IF k = 0 THEN s ELSE Op(e[k - 1], k)
    BY <1>8, <2>2
  <2> QED BY <2>1, <2>3
<1>10. \A k \in 0 .. n : e[k] \in X
  <2>1. \A k \in 1 .. n : e[k - 1] \in X => e[k] = h[<<k, e[k - 1]>>]
    BY <1>5, <1>9
  <2> QED BY <1>3, <1>5, <1>9, <2>1, LoopInside
<1>11. e[n] \in X
  BY <1>3, <1>10
<1> QED BY <1>4, <1>11, LayoutsLemma DEF X

LEMMA NexttiledSeq ==
  ASSUME NEW s, Typed(s), NEW m \in Mon
  PROVE  nexttiled(s, m) \in Seq(Win)
<1> DEFINE S == {c \in ShownOn(s, m) : ~s.mode[c].float}
<1>1. s.clients[m] \in Seq(Win)
  BY StateFields
<1>2. nexttiled(s, m) = Those(s.clients[m], S)
  BY DEF nexttiled
<1> HIDE DEF S
<1>3. Those(s.clients[m], S) \in Seq(Win \cap S)
  BY <1>1, ThoseLemma
<1> QED BY <1>2, <1>3

LEMMA RectLemma ==
  ASSUME NEW x \in Int, NEW y \in Int, NEW w \in Int, NEW h \in Int
  PROVE  Rect(x, y, w, h) \in Rects
  BY DEF Rect, Rects

LEMMA MonocleLaid ==
  ASSUME NEW s, Typed(s), NEW m \in Mon
  PROVE  Laid(s, monocle(s, m))
<1> DEFINE a == WindowArea(s, m)
           seq == nexttiled(s, m)
           n == Len(seq)
           X == Layouts(s)
           Op(t, k) == resize(t, seq[k], Rect(a.x, a.y, a.w - 2 * t.bw[seq[k]],
                                              a.h - 2 * t.bw[seq[k]]), FALSE)
<1>1. seq \in Seq(Win)
  BY NexttiledSeq
<1>2. monocle(s, m) = Walk(LAMBDA t, c : resize(t, c, Rect(a.x, a.y, a.w - 2 * t.bw[c],
                                                           a.h - 2 * t.bw[c]), FALSE), s, seq)
  BY DEF monocle
<1> HIDE DEF seq
<1>3. n \in Nat /\ s \in X /\ \A k \in 1 .. n, t \in X : Op(t, k) \in X
  <2>1. n \in Nat /\ s \in X
    BY <1>1, LayoutsLemma
  <2>2. ASSUME NEW k \in 1 .. n, NEW t \in X PROVE Op(t, k) \in X
    <3> DEFINE r == Rect(a.x, a.y, a.w - 2 * t.bw[seq[k]], a.h - 2 * t.bw[seq[k]])
    <3>1. seq[k] \in Win
      BY <1>1
    <3>2. Typed(t)
      BY LayoutsLemma
    <3>3. t.bw[seq[k]] \in Int
      BY <3>1, <3>2, ExtFields
    <3>4. a.x \in Int /\ a.y \in Int /\ a.w \in Int /\ a.h \in Int
      BY AreaRect, RectFields
    <3>5. r \in Rects
      <4> DEFINE b == t.bw[seq[k]]
      <4> HIDE DEF a, b
      <4>1. a.w - 2 * b \in Int /\ a.h - 2 * b \in Int
        BY <3>3, <3>4, SMTT(30) DEF b
      <4>2. Rect(a.x, a.y, a.w - 2 * b, a.h - 2 * b) \in Rects
        BY <3>4, <4>1, RectLemma
      <4> QED BY <4>2 DEF b
    <3> HIDE DEF r
    <3>6. Laid(t, resize(t, seq[k], r, FALSE))
      BY <3>1, <3>2, <3>5, ResizeLaid
    <3>7. Laid(t, Op(t, k))
      BY <3>6 DEF r
    <3> HIDE DEF Op
    <3> QED BY <3>7, LayoutsLemma
  <2> QED BY <2>1, <2>2
<1> DEFINE h == [p \in (1 .. n) \X X |-> Op(p[2], p[1])]
           Loop(e) == [k \in 0 .. n |-> IF k = 0 THEN s ELSE Op(e[k - 1], k)]
           e == CHOOSE e1 : e1 = Loop(e1)
<1>4. monocle(s, m) = e[n]
  BY <1>2 DEF Walk
<1> HIDE DEF n, X, Op
<1>5. h \in [(1 .. n) \X X -> X] /\ \A k \in 1 .. n : \A t \in X : h[<<k, t>>] = Op(t, k)
  BY <1>3
<1> HIDE DEF h
<1>6. PICK f : Rec(n, X, s, h, f)
  BY <1>3, <1>5, Recursion
<1>7. f = Loop(f)
  <2>1. /\ f = [k \in 0 .. n |-> f[k]] /\ f[0] = s
        /\ \A k \in 1 .. n : f[k - 1] \in X /\ f[k] = h[<<k, f[k - 1]>>]
    BY <1>3, <1>6 DEF Rec
  <2>2. ASSUME NEW k \in 0 .. n PROVE f[k] = Loop(f)[k]
    <3>1. CASE k = 0
      BY <2>1, <3>1
    <3>2. CASE k # 0
      <4>1. k \in 1 .. n
        BY <1>3, <3>2
      <4> QED BY <1>5, <2>1, <3>2, <4>1
    <3> QED BY <3>1, <3>2
  <2> QED BY <2>1, <2>2
<1>8. e = Loop(e)
  <2> HIDE DEF Loop
  <2> QED BY <1>7
<1> HIDE DEF e
<1>9. e[0] = s /\ \A k \in 1 .. n : e[k] = Op(e[k - 1], k)
  <2>1. 0 \in 0 .. n /\ \A k \in 1 .. n : k \in 0 .. n /\ k # 0
    BY <1>3
  <2>2. \A k \in 0 .. n : Loop(e)[k] = IF k = 0 THEN s ELSE Op(e[k - 1], k)
    OBVIOUS
  <2> HIDE DEF Loop
  <2>3. \A k \in 0 .. n : e[k] = IF k = 0 THEN s ELSE Op(e[k - 1], k)
    BY <1>8, <2>2
  <2> QED BY <2>1, <2>3
<1>10. \A k \in 0 .. n : e[k] \in X
  <2>1. \A k \in 1 .. n : e[k - 1] \in X => e[k] = h[<<k, e[k - 1]>>]
    BY <1>5, <1>9
  <2> QED BY <1>3, <1>5, <1>9, <2>1, LoopInside
<1>11. e[n] \in X
  BY <1>3, <1>10
<1> QED BY <1>4, <1>11, LayoutsLemma DEF X

\* What tile() carries from window to window: the state, and how far its two
\* columns are filled.
Columns(s) == [s : Layouts(s), y : Int \X Int]

LEMMA ColumnLaid ==
  ASSUME NEW s, Typed(s), NEW acc \in Columns(s), NEW k \in {1, 2}, NEW c \in Win,
         NEW n \in Nat \ {0}, NEW x \in Int, NEW w \in Int, NEW m \in Mon
  PROVE  Column(acc, k, c, n, x, w, m) \in Columns(s)
<1> DEFINE t == acc.s
           ys == acc.y
           a == WindowArea(t, m)
           h == (a.h - ys[k]) \div n - t.gap[m]
           b == 2 * t.bw[c]
           r == Rect(x, a.y + ys[k], w - b, h - b)
           u == resize(t, c, r, FALSE)
           next == ys[k] + HEIGHT(u, c) + u.gap[m]
           zs == IF next < WindowArea(u, m).h THEN [ys EXCEPT ![k] = next] ELSE ys
<1>1. t \in Layouts(s) /\ ys \in Int \X Int /\ Typed(t)
  BY LayoutsLemma DEF Columns
<1>2. Column(acc, k, c, n, x, w, m) = [s |-> u, y |-> zs]
  BY DEF Column, Below
<1>3. ys[k] \in Int
  BY <1>1
<1>4. a.y \in Int /\ a.h \in Int
  BY <1>1, AreaRect, RectFields
<1>5. t.gap[m] \in Int /\ t.bw[c] \in Int
  BY <1>1, ExtFields
<1>6. h \in Int /\ b \in Int
  <2>1. \A i \in Int : i \div n \in Int
    OBVIOUS
  <2> HIDE DEF t, ys, a
  <2>2. a.h - ys[k] \in Int
    BY <1>3, <1>4
  <2>3. (a.h - ys[k]) \div n \in Int
    BY <2>1, <2>2
  <2> QED BY <1>5, <2>3
<1>7. r \in Rects
  <2> HIDE DEF t, ys, a, h, b
  <2> QED BY <1>3, <1>4, <1>6 DEF Rect, Rects
<1> HIDE DEF t, ys, a, h, b, r
<1>8. Laid(t, u)
  BY <1>1, <1>7, ResizeLaid
<1>9. u \in Layouts(s) /\ Typed(u)
  BY <1>1, <1>8, LayoutsLemma
<1> HIDE DEF u
<1>10. next \in Int
  <2>1. u.gap[m] \in Int /\ u.bw[c] \in Int /\ u.geo[c] \in Rects
    BY <1>9, ExtFields
  <2>2. u.geo[c].h \in Int
    BY <2>1, RectFields
  <2>3. HEIGHT(u, c) \in Int
    BY <2>1, <2>2 DEF HEIGHT
  <2> QED BY <1>3, <2>1, <2>3
<1> HIDE DEF next
<1>11. zs \in Int \X Int
  BY <1>1, <1>10
<1> HIDE DEF zs
<1> QED BY <1>2, <1>9, <1>11 DEF Columns

LEMMA TileLaid ==
  ASSUME NEW s, Typed(s), NEW m \in Mon
  PROVE  Laid(s, tile(s, m))
<1> DEFINE a == WindowArea(s, m)
           g == s.gap[m]
           seq == nexttiled(s, m)
           places == [i \in 1 .. Len(seq) |-> i]
           n == Len(places)
           k1 == s.nmaster[m]
           all == Len(seq)
           mw == IF all > k1 THEN IF k1 = 0 THEN 0 ELSE (a.w * s.mfact[m]) \div 100
                 ELSE a.w - g
           place(acc, i) ==
             IF i <= k1
             THEN Column(acc, 1, seq[i], AtMost(all, k1) - i + 1, a.x + g, mw - g, m)
             ELSE Column(acc, 2, seq[i], all - i + 1, a.x + mw + g, a.w - mw - 2 * g, m)
           first == [s |-> s, y |-> <<g, g>>]
           X == Columns(s)
           Op(acc, k) == place(acc, places[k])
<1>1. seq \in Seq(Win)
  BY NexttiledSeq
<1>2. tile(s, m) = Walk(place, first, places).s
  BY DEF tile
<1> HIDE DEF seq
<1>20. g \in Int /\ k1 \in Nat /\ s.mfact[m] \in Nat
  BY ExtFields
<1>21. a.x \in Int /\ a.w \in Int
  BY AreaRect, RectFields
<1>22. all \in Nat
  BY <1>1
<1>23. mw \in Int
  <2> HIDE DEF a, g, all, k1
  <2>1. a.w * s.mfact[m] \in Int
    BY <1>20, <1>21
  <2>2. \A i \in Int : i \div 100 \in Int
    OBVIOUS
  <2> QED BY <1>20, <1>21, <1>22, <2>1, <2>2
<1>24. n = all /\ \A k \in 1 .. all : places[k] = k
  BY <1>22
<1> HIDE DEF all, places
<1>3. n \in Nat /\ first \in X /\ \A k \in 1 .. n, t \in X : Op(t, k) \in X
  <2>1. first \in X
    <3>1. s \in Layouts(s)
      BY LayoutsLemma
    <3> HIDE DEF g
    <3> QED BY <1>20, <3>1 DEF Columns
  <2>2. ASSUME NEW k \in 1 .. n, NEW t \in X PROVE Op(t, k) \in X
    <3>1. k \in 1 .. all /\ places[k] = k
      BY <1>24
    <3>4. seq[k] \in Win
      BY <1>1, <3>1 DEF all
    <3> HIDE DEF a, g, n, k1, mw, X
    <3>2. CASE k <= k1
      <4>1. AtMost(all, k1) - k + 1 \in Nat \ {0}
        BY <1>20, <1>22, <3>1, <3>2 DEF AtMost
      <4>2. a.x + g \in Int /\ mw - g \in Int
        BY <1>20, <1>21, <1>23
      <4>3. Column(t, 1, seq[k], AtMost(all, k1) - k + 1, a.x + g, mw - g, m) \in X
        BY <3>4, <4>1, <4>2, ColumnLaid DEF X
      <4> QED BY <3>1, <3>2, <4>3
    <3>3. CASE ~(k <= k1)
      <4>1. all - k + 1 \in Nat \ {0}
        BY <1>22, <3>1
      <4>2. a.x + mw + g \in Int /\ a.w - mw - 2 * g \in Int
        BY <1>20, <1>21, <1>23
      <4>3. Column(t, 2, seq[k], all - k + 1, a.x + mw + g, a.w - mw - 2 * g, m) \in X
        BY <3>4, <4>1, <4>2, ColumnLaid DEF X
      <4> QED BY <3>1, <3>3, <4>3
    <3> QED BY <3>2, <3>3
  <2> QED BY <1>22, <1>24, <2>1, <2>2
<1> HIDE DEF first
<1> DEFINE h == [p \in (1 .. n) \X X |-> Op(p[2], p[1])]
           Loop(e) == [k \in 0 .. n |-> IF k = 0 THEN first ELSE Op(e[k - 1], k)]
           e == CHOOSE e1 : e1 = Loop(e1)
<1>4. Walk(place, first, places) = e[n]
  BY DEF Walk
<1> HIDE DEF n, X, Op
<1>5. h \in [(1 .. n) \X X -> X] /\ \A k \in 1 .. n : \A t \in X : h[<<k, t>>] = Op(t, k)
  BY <1>3
<1> HIDE DEF h
<1>6. PICK f : Rec(n, X, first, h, f)
  BY <1>3, <1>5, Recursion
<1>7. f = Loop(f)
  <2>1. /\ f = [k \in 0 .. n |-> f[k]] /\ f[0] = first
        /\ \A k \in 1 .. n : f[k - 1] \in X /\ f[k] = h[<<k, f[k - 1]>>]
    BY <1>3, <1>6 DEF Rec
  <2>2. ASSUME NEW k \in 0 .. n PROVE f[k] = Loop(f)[k]
    <3>1. CASE k = 0
      BY <2>1, <3>1
    <3>2. CASE k # 0
      <4>1. k \in 1 .. n
        BY <1>3, <3>2
      <4> QED BY <1>5, <2>1, <3>2, <4>1
    <3> QED BY <3>1, <3>2
  <2> QED BY <2>1, <2>2
<1>8. e = Loop(e)
  <2> HIDE DEF Loop
  <2> QED BY <1>7
<1> HIDE DEF e
<1>9. e[0] = first /\ \A k \in 1 .. n : e[k] = Op(e[k - 1], k)
  <2>1. 0 \in 0 .. n /\ \A k \in 1 .. n : k \in 0 .. n /\ k # 0
    BY <1>3
  <2>2. \A k \in 0 .. n : Loop(e)[k] = IF k = 0 THEN first ELSE Op(e[k - 1], k)
    OBVIOUS
  <2> HIDE DEF Loop
  <2>3. \A k \in 0 .. n : e[k] = IF k = 0 THEN first ELSE Op(e[k - 1], k)
    BY <1>8, <2>2
  <2> QED BY <2>1, <2>3
<1>10. \A k \in 0 .. n : e[k] \in X
  <2>1. \A k \in 1 .. n : e[k - 1] \in X => e[k] = h[<<k, e[k - 1]>>]
    BY <1>5, <1>9
  <2> QED BY <1>3, <1>5, <1>9, <2>1, LoopInside
<1>11. e[n] \in X
  BY <1>3, <1>10
<1>12. e[n].s \in Layouts(s)
  BY <1>11 DEF X, Columns
<1>13. tile(s, m) = e[n].s
  BY <1>2, <1>4
<1>14. Laid(s, e[n].s)
  <2> DEFINE t == e[n].s
  <2>1. t \in Layouts(s)
    BY <1>12
  <2> HIDE DEF t
  <2>2. Laid(s, t)
    BY <2>1, LayoutsLemma
  <2> QED BY <2>2 DEF t
<1> QED BY <1>13, <1>14

LEMMA ArrangemonLaid ==
  ASSUME NEW s, Typed(s), NEW m \in Mon
  PROVE  Laid(s, arrangemon(s, m))
<1>1. s.lay[m] \in {"tile", "monocle", "float"}
  BY ExtFields
<1>2. CASE s.lay[m] = "tile"
  BY <1>2, TileLaid DEF arrangemon
<1>3. CASE s.lay[m] = "monocle"
  BY <1>3, MonocleLaid DEF arrangemon
<1>4. CASE s.lay[m] = "float"
  BY <1>4, LaidSelf DEF arrangemon
<1> QED BY <1>1, <1>2, <1>3, <1>4

LEMMA ArrangedLies ==
  ASSUME NEW s, Typed(s), NEW m \in Mon
  PROVE  Lies(s, Arranged(s, m), restack(Base(s), m))
<1> DEFINE t == showhide(s, m)
           u == arrangemon(t, m)
<1>1. Laid(s, t) /\ Typed(t)
  BY ShowhideLaid DEF Laid, Lies
<1> HIDE DEF t
<1>2. Laid(t, u) /\ Typed(u)
  BY <1>1, ArrangemonLaid DEF Laid, Lies
<1> HIDE DEF u
<1>3. Laid(s, u) /\ Base(u) = Base(s)
  BY <1>1, <1>2, LaidTrans DEF Laid, Lies
<1>4. Follows(u, restack(u, m), restack(Base(s), m))
  BY <1>2, <1>3, MarkBase DEF Typed
<1>5. restack(Base(s), m) \in State
  <2>1. Base(s) \in State
    BY DEF Typed
  <2> HIDE DEF Base
  <2> QED BY <2>1 DEF restack, State, WinOrNull
<1>6. Lies(u, restack(u, m), restack(Base(s), m))
  <2> DEFINE v == restack(u, m)
  <2>1. Full(v) /\ Base(v) = restack(Base(s), m) /\ \A f \in Extent : v[f] = u[f]
    BY <1>4 DEF Follows, SameExtent
  <2> HIDE DEF v
  <2>2. Ext(v) = Ext(u)
    BY <2>1 DEF Ext
  <2> QED BY <1>2, <1>5, <2>1, <2>2 DEF Lies, Typed, v
<1>7. Arranged(s, m) = restack(u, m)
  BY DEF Arranged, u, t
<1> QED BY <1>3, <1>6, <1>7, LiesTrans DEF Laid

LEMMA ShowhideAllLaid ==
  ASSUME NEW s, Typed(s), NEW j \in Mon
  PROVE  Laid(s, Walk(showhide, s, [m \in 1 .. j |-> m]))
<1> DEFINE mons == [m \in 1 .. j |-> m]
           n == Len(mons)
           X == Layouts(s)
           Op(t, k) == showhide(t, mons[k])
<1>1. j \in Nat /\ 1 .. j \subseteq Mon
  BY DEF Mon
<1>2. n = j /\ \A k \in 1 .. j : mons[k] \in Mon
  BY <1>1
<1> HIDE DEF mons
<1>3. n \in Nat /\ s \in X /\ \A k \in 1 .. n, t \in X : Op(t, k) \in X
  <2>1. n \in Nat /\ s \in X
    BY <1>1, <1>2, LayoutsLemma
  <2>2. ASSUME NEW k \in 1 .. n, NEW t \in X PROVE Op(t, k) \in X
    <3>1. mons[k] \in Mon
      BY <1>2
    <3>2. Typed(t)
      BY LayoutsLemma
    <3>3. Laid(t, Op(t, k))
      BY <3>1, <3>2, ShowhideLaid
    <3> HIDE DEF Op
    <3> QED BY <3>3, LayoutsLemma
  <2> QED BY <2>1, <2>2
<1> DEFINE h == [p \in (1 .. n) \X X |-> Op(p[2], p[1])]
           Loop(e) == [k \in 0 .. n |-> IF k = 0 THEN s ELSE Op(e[k - 1], k)]
           e == CHOOSE e1 : e1 = Loop(e1)
<1>4. Walk(showhide, s, mons) = e[n]
  BY DEF Walk
<1> HIDE DEF n, X, Op
<1>5. h \in [(1 .. n) \X X -> X] /\ \A k \in 1 .. n : \A t \in X : h[<<k, t>>] = Op(t, k)
  BY <1>3
<1> HIDE DEF h
<1>6. PICK f : Rec(n, X, s, h, f)
  BY <1>3, <1>5, Recursion
<1>7. f = Loop(f)
  <2>1. /\ f = [k \in 0 .. n |-> f[k]] /\ f[0] = s
        /\ \A k \in 1 .. n : f[k - 1] \in X /\ f[k] = h[<<k, f[k - 1]>>]
    BY <1>3, <1>6 DEF Rec
  <2>2. ASSUME NEW k \in 0 .. n PROVE f[k] = Loop(f)[k]
    <3>1. CASE k = 0
      BY <2>1, <3>1
    <3>2. CASE k # 0
      <4>1. k \in 1 .. n
        BY <1>3, <3>2
      <4> QED BY <1>5, <2>1, <3>2, <4>1
    <3> QED BY <3>1, <3>2
  <2> QED BY <2>1, <2>2
<1>8. e = Loop(e)
  <2> HIDE DEF Loop
  <2> QED BY <1>7
<1> HIDE DEF e
<1>9. e[0] = s /\ \A k \in 1 .. n : e[k] = Op(e[k - 1], k)
  <2>1. 0 \in 0 .. n /\ \A k \in 1 .. n : k \in 0 .. n /\ k # 0
    BY <1>3
  <2>2. \A k \in 0 .. n : Loop(e)[k] = IF k = 0 THEN s ELSE Op(e[k - 1], k)
    OBVIOUS
  <2> HIDE DEF Loop
  <2>3. \A k \in 0 .. n : e[k] = IF k = 0 THEN s ELSE Op(e[k - 1], k)
    BY <1>8, <2>2
  <2> QED BY <2>1, <2>3
<1>10. \A k \in 0 .. n : e[k] \in X
  <2>1. \A k \in 1 .. n : e[k - 1] \in X => e[k] = h[<<k, e[k - 1]>>]
    BY <1>5, <1>9
  <2> QED BY <1>3, <1>5, <1>9, <2>1, LoopInside
<1>11. e[n] \in X
  BY <1>3, <1>10
<1>12. Laid(s, Walk(showhide, s, mons))
  BY <1>4, <1>11, LayoutsLemma DEF X
<1> QED BY <1>12 DEF mons

LEMMA ArrangemonAllLaid ==
  ASSUME NEW s, Typed(s), NEW j \in Mon
  PROVE  Laid(s, Walk(arrangemon, s, [m \in 1 .. j |-> m]))
<1> DEFINE mons == [m \in 1 .. j |-> m]
           n == Len(mons)
           X == Layouts(s)
           Op(t, k) == arrangemon(t, mons[k])
<1>1. j \in Nat /\ 1 .. j \subseteq Mon
  BY DEF Mon
<1>2. n = j /\ \A k \in 1 .. j : mons[k] \in Mon
  BY <1>1
<1> HIDE DEF mons
<1>3. n \in Nat /\ s \in X /\ \A k \in 1 .. n, t \in X : Op(t, k) \in X
  <2>1. n \in Nat /\ s \in X
    BY <1>1, <1>2, LayoutsLemma
  <2>2. ASSUME NEW k \in 1 .. n, NEW t \in X PROVE Op(t, k) \in X
    <3>1. mons[k] \in Mon
      BY <1>2
    <3>2. Typed(t)
      BY LayoutsLemma
    <3>3. Laid(t, Op(t, k))
      BY <3>1, <3>2, ArrangemonLaid
    <3> HIDE DEF Op
    <3> QED BY <3>3, LayoutsLemma
  <2> QED BY <2>1, <2>2
<1> DEFINE h == [p \in (1 .. n) \X X |-> Op(p[2], p[1])]
           Loop(e) == [k \in 0 .. n |-> IF k = 0 THEN s ELSE Op(e[k - 1], k)]
           e == CHOOSE e1 : e1 = Loop(e1)
<1>4. Walk(arrangemon, s, mons) = e[n]
  BY DEF Walk
<1> HIDE DEF n, X, Op
<1>5. h \in [(1 .. n) \X X -> X] /\ \A k \in 1 .. n : \A t \in X : h[<<k, t>>] = Op(t, k)
  BY <1>3
<1> HIDE DEF h
<1>6. PICK f : Rec(n, X, s, h, f)
  BY <1>3, <1>5, Recursion
<1>7. f = Loop(f)
  <2>1. /\ f = [k \in 0 .. n |-> f[k]] /\ f[0] = s
        /\ \A k \in 1 .. n : f[k - 1] \in X /\ f[k] = h[<<k, f[k - 1]>>]
    BY <1>3, <1>6 DEF Rec
  <2>2. ASSUME NEW k \in 0 .. n PROVE f[k] = Loop(f)[k]
    <3>1. CASE k = 0
      BY <2>1, <3>1
    <3>2. CASE k # 0
      <4>1. k \in 1 .. n
        BY <1>3, <3>2
      <4> QED BY <1>5, <2>1, <3>2, <4>1
    <3> QED BY <3>1, <3>2
  <2> QED BY <2>1, <2>2
<1>8. e = Loop(e)
  <2> HIDE DEF Loop
  <2> QED BY <1>7
<1> HIDE DEF e
<1>9. e[0] = s /\ \A k \in 1 .. n : e[k] = Op(e[k - 1], k)
  <2>1. 0 \in 0 .. n /\ \A k \in 1 .. n : k \in 0 .. n /\ k # 0
    BY <1>3
  <2>2. \A k \in 0 .. n : Loop(e)[k] = IF k = 0 THEN s ELSE Op(e[k - 1], k)
    OBVIOUS
  <2> HIDE DEF Loop
  <2>3. \A k \in 0 .. n : e[k] = IF k = 0 THEN s ELSE Op(e[k - 1], k)
    BY <1>8, <2>2
  <2> QED BY <2>1, <2>3
<1>10. \A k \in 0 .. n : e[k] \in X
  <2>1. \A k \in 1 .. n : e[k - 1] \in X => e[k] = h[<<k, e[k - 1]>>]
    BY <1>5, <1>9
  <2> QED BY <1>3, <1>5, <1>9, <2>1, LoopInside
<1>11. e[n] \in X
  BY <1>3, <1>10
<1>12. Laid(s, Walk(arrangemon, s, mons))
  BY <1>4, <1>11, LayoutsLemma DEF X
<1> QED BY <1>12 DEF mons

LEMMA ArrangedAllLaid ==
  ASSUME NEW s, Typed(s)
  PROVE  Laid(s, ArrangedAll(s))
<1> DEFINE mons == [m \in 1 .. s.nmons |-> m]
           t == Walk(showhide, s, mons)
           u == Walk(arrangemon, t, mons)
<1>1. s.nmons \in Mon
  BY ExtFields
<1>2. ArrangedAll(s) = u
  BY DEF ArrangedAll
<1>3. Laid(s, t) /\ Typed(t)
  BY <1>1, ShowhideAllLaid DEF Laid, Lies
<1> HIDE DEF t
<1>4. Laid(t, u)
  BY <1>1, <1>3, ArrangemonAllLaid
<1> HIDE DEF u
<1> QED BY <1>2, <1>3, <1>4, LaidTrans

LEMMA FollowsLies ==
  ASSUME NEW s, Typed(s), NEW t, NEW b \in State, Follows(s, t, b)
  PROVE  Lies(s, t, b) /\ \A f \in Extent : t[f] = s[f]
<1>1. Full(t) /\ Base(t) = b /\ \A f \in Extent : t[f] = s[f]
  BY DEF Follows, SameExtent
<1>2. Ext(t) = Ext(s)
  BY <1>1 DEF Ext
<1> QED BY <1>1, <1>2 DEF Lies, Typed

-----------------------------------------------------------------------------
(* The invariant of the desktop.  Clients and the selected monitor are on   *)
(* monitors that exist, the lists are good in the sense of DwmState.        *)

Housed(s) == s.selmon \in Mons(s) /\ \A c \in Managed(s) : s.mon[c] \in Mons(s)

Sturdy(s) == Typed(s) /\ Good(Base(s)) /\ Housed(s)

\* What most of the functions do: clients stay on their monitors, in their
\* order, and no monitor comes or goes.
Stays(s, t) == Sturdy(t) /\ Keeps(Base(s), Base(t)) /\ t.nmons = s.nmons

LEMMA SturdyFields ==
  ASSUME NEW s, Sturdy(s)
  PROVE  /\ Typed(s) /\ Full(s) /\ Good(Base(s)) /\ Base(s) \in State
         /\ s.selmon \in Mon /\ s.nmons \in Mon /\ Mons(s) \subseteq Mon
         /\ s.selmon \in Mons(s) /\ Consistent(s)
         /\ \A c \in Managed(s) : /\ c \in Win /\ c # NULL /\ s.mon[c] \in Mons(s)
                                  /\ c \in Range(s.clients[s.mon[c]])
<1>1. Typed(s) /\ Full(s) /\ Good(Base(s)) /\ Base(s) \in State
  BY DEF Sturdy, Typed
<1>2. s.selmon \in Mon /\ s.nmons \in Mon
  BY <1>1, StateFields, ExtFields
<1>3. Mons(s) \subseteq Mon
  BY <1>2 DEF Mons, Mon
<1>4. Consistent(s)
  BY <1>1, BaseReads DEF Good
<1>5. \A c \in Managed(s) : c \in Win /\ c # NULL /\ c \in Range(s.clients[s.mon[c]])
  BY <1>1, BaseReads, BaseFields, ManagedLemma
<1> QED BY <1>1, <1>2, <1>3, <1>4, <1>5 DEF Sturdy, Housed

LEMMA StaysSelf ==
  ASSUME NEW s, Sturdy(s)
  PROVE  Stays(s, s)
  BY SturdyFields, KeepsSelf DEF Stays

LEMMA StaysTrans ==
  ASSUME NEW s, NEW t, NEW u, Stays(s, t), Stays(t, u)
  PROVE  Stays(s, u)
  BY KeepsTrans DEF Stays

LEMMA StaysFields ==
  ASSUME NEW s, NEW t, Stays(s, t)
  PROVE  /\ Sturdy(t) /\ Typed(t) /\ Managed(t) = Managed(s) /\ Mons(t) = Mons(s)
         /\ t.clients = s.clients /\ t.mon = s.mon
         /\ t.list = s.list /\ t.alive = s.alive
<1>1. Keeps(Base(s), Base(t)) /\ Sturdy(t) /\ t.nmons = s.nmons
  BY DEF Stays
<1>2. t.clients = s.clients /\ t.mon = s.mon /\ t.list = s.list /\ t.alive = s.alive
  BY <1>1, BaseFields DEF Keeps
<1> QED BY <1>1, <1>2 DEF Managed, Mons, Sturdy

\* From what an operator does to the part that DwmState sees.
LEMMA LiesStays ==
  ASSUME NEW s, Sturdy(s), NEW t, NEW b, Lies(s, t, b), Keeps(Base(s), b),
         b.selmon \in Mons(s)
  PROVE  Stays(s, t) /\ t.selmon = b.selmon
<1>1. Typed(t) /\ Base(t) = b /\ t.nmons = s.nmons
  BY DEF Lies, Extent
<1>2. t.selmon = b.selmon /\ t.mon = s.mon /\ t.clients = s.clients
  BY <1>1, BaseFields DEF Keeps
<1>3. Good(b)
  BY DEF Keeps
<1>4. Housed(t)
  BY <1>1, <1>2 DEF Sturdy, Housed, Mons, Managed
<1> QED BY <1>1, <1>2, <1>3, <1>4 DEF Stays, Sturdy

LEMMA FollowsStays ==
  ASSUME NEW s, Sturdy(s), NEW t, NEW b, Follows(s, t, b), Keeps(Base(s), b),
         b.selmon \in Mons(s)
  PROVE  Stays(s, t) /\ t.selmon = b.selmon
<1>1. b \in State
  BY DEF Keeps, Good, Well
<1>2. Lies(s, t, b)
  BY <1>1, FollowsLies DEF Sturdy
<1> QED BY <1>2, LiesStays

LEMMA LaidStays ==
  ASSUME NEW s, Sturdy(s), NEW t, Laid(s, t)
  PROVE  Stays(s, t) /\ t.selmon = s.selmon
<1>1. Keeps(Base(s), Base(s)) /\ Base(s).selmon = s.selmon /\ s.selmon \in Mons(s)
  BY SturdyFields, KeepsSelf, BaseFields
<1> QED BY <1>1, LiesStays DEF Laid

LEMMA ArrangedStays ==
  ASSUME NEW s, Sturdy(s), NEW m \in Mon
  PROVE  Stays(s, Arranged(s, m)) /\ Arranged(s, m).selmon = s.selmon
<1> DEFINE b == restack(Base(s), m)
<1>1. Typed(s) /\ Good(Base(s)) /\ s.selmon \in Mons(s) /\ Full(s)
  BY SturdyFields
<1>2. Lies(s, Arranged(s, m), b)
  BY <1>1, ArrangedLies
<1>3. Keeps(Base(s), b)
  BY <1>1, RestackLemma
<1>4. b.selmon = s.selmon
  BY <1>1, BaseFields DEF restack, Good, Well, State
<1> HIDE DEF b
<1> QED BY <1>1, <1>2, <1>3, <1>4, LiesStays

LEMMA RestackStays ==
  ASSUME NEW s, Sturdy(s), NEW m
  PROVE  Stays(s, restack(s, m)) /\ restack(s, m).selmon = s.selmon
<1> DEFINE b == restack(Base(s), m)
<1>1. Typed(s) /\ Good(Base(s)) /\ s.selmon \in Mons(s) /\ Full(s)
  BY SturdyFields
<1>2. Follows(s, restack(s, m), b)
  BY <1>1, MarkBase
<1>3. Keeps(Base(s), b)
  BY <1>1, RestackLemma
<1>4. b.selmon = s.selmon
  BY <1>1, BaseFields DEF restack, Good, Well, State
<1> HIDE DEF b
<1> QED BY <1>1, <1>2, <1>3, <1>4, FollowsStays

\* focus(c) selects the monitor of c, or stays on the selected one.
LEMMA FocusSelmon ==
  ASSUME NEW s, Good(s), NEW c \in Managed(s) \cup {NULL}
  PROVE  LET t == focus(s, c)
         IN  /\ t.selmon \in {s.selmon} \cup {s.mon[d] : d \in Managed(s)}
             /\ c = NULL => t.selmon = s.selmon
<1> DEFINE g == FocusTarget(s, c)
           l == LeaveSelected(s, g)
           t == Select(l, g)
<1>1. focus(s, c) = t
  BY DEF focus
<1>2. g \in Managed(s) \cup {NULL}
  BY FocusTargetLemma
<1>3. c = NULL /\ g # NULL => s.mon[g] = s.selmon
  <2> DEFINE S == ShownOn(s, s.selmon)
             seq == s.stack[s.selmon]
  <2>1. s.selmon \in Mon /\ seq \in Seq(Win)
    BY DEF Good, Well, State
  <2>2. c = NULL => g = FirstIn(seq, S)
    BY DEF FocusTarget
  <2>3. S \subseteq Range(s.clients[s.selmon])
    BY DEF ShownOn, VisibleOn
  <2>4. Len(seq) \in Nat /\ DOMAIN seq = 1 .. Len(seq)
    BY <2>1
  <2> HIDE DEF S, seq, g
  <2>5. FirstIn(seq, S) \in S \cup {NULL}
    BY <2>4, FirstFromLemma DEF FirstIn
  <2>6. c = NULL /\ g # NULL => g \in Range(s.clients[s.selmon])
    BY <2>2, <2>3, <2>5
  <2> QED BY <2>1, <2>6 DEF Good, Consistent
<1> HIDE DEF g
<1>4. Steps(s, l) /\ Unmoved(s, l)
  BY <1>2, LeaveSelectedSteps
<1>5. Good(l) /\ g \in Managed(l) \cup {NULL} /\ l.selmon = s.selmon /\ l.mon = s.mon
  BY <1>2, <1>4, StepsGood DEF Unmoved, SameViews
<1> HIDE DEF l
<1>6. (g = NULL => t.selmon = l.selmon) /\ (g # NULL => t.selmon = l.mon[g])
  BY <1>5, SelectChoice
<1> HIDE DEF t
<1> QED BY <1>1, <1>2, <1>3, <1>5, <1>6

LEMMA FocusStays ==
  ASSUME NEW s, Sturdy(s), NEW c \in Managed(s) \cup {NULL}
  PROVE  Stays(s, focus(s, c)) /\ (c = NULL => focus(s, c).selmon = s.selmon)
<1> DEFINE b == focus(Base(s), c)
<1>1. Good(Base(s)) /\ Full(s) /\ Managed(Base(s)) = Managed(s)
      /\ Base(s).selmon = s.selmon /\ Base(s).mon = s.mon
  BY SturdyFields, BaseReads, BaseFields
<1>2. Follows(s, focus(s, c), b)
  BY <1>1, FocusBase
<1>3. Keeps(Base(s), b)
  BY <1>1, FocusLemma
<1>4. /\ b.selmon \in {s.selmon} \cup {s.mon[d] : d \in Managed(s)}
      /\ c = NULL => b.selmon = s.selmon
  BY <1>1, FocusSelmon
<1> HIDE DEF b
<1>5. b.selmon \in Mons(s)
  BY <1>4, SturdyFields
<1> QED BY <1>2, <1>3, <1>4, <1>5, FollowsStays

LEMMA SelmonStays ==
  ASSUME NEW s, Sturdy(s), NEW m \in Mons(s)
  PROVE  Stays(s, [s EXCEPT !.selmon = m]) /\ [s EXCEPT !.selmon = m].selmon = m
<1> DEFINE b == [Base(s) EXCEPT !.selmon = m]
<1>1. Good(Base(s)) /\ Full(s) /\ m \in Mon
  BY SturdyFields
<1>2. Follows(s, [s EXCEPT !.selmon = m], b)
  BY <1>1, SetBase
<1>3. Keeps(Base(s), b)
  BY <1>1, SelmonLemma
<1>4. b.selmon = m
  BY <1>1, GoodRecord DEF Fields
<1> HIDE DEF b
<1> QED BY <1>2, <1>3, <1>4, FollowsStays

LEMMA ArrangedAllStays ==
  ASSUME NEW s, Sturdy(s)
  PROVE  Stays(s, ArrangedAll(s)) /\ ArrangedAll(s).selmon = s.selmon
  BY SturdyFields, ArrangedAllLaid, LaidStays

LEMMA UnfocusStays ==
  ASSUME NEW s, Sturdy(s), NEW c
  PROVE  Stays(s, unfocus(s, c, TRUE))
<1> DEFINE b == unfocus(Base(s), c, TRUE)
<1>1. Good(Base(s)) /\ Full(s) /\ s.selmon \in Mons(s)
  BY SturdyFields
<1>2. Follows(s, unfocus(s, c, TRUE), b)
  BY <1>1, MarkBase
<1>3. Keeps(Base(s), b)
  BY <1>1, UnfocusLemma
<1>4. b.selmon = s.selmon
  BY <1>1, BaseFields, GoodRecord DEF unfocus, FocusRoot, Fields
<1> HIDE DEF b
<1> QED BY <1>1, <1>2, <1>3, <1>4, FollowsStays

LEMMA SwitchMonStays ==
  ASSUME NEW s, Sturdy(s), NEW m \in Mons(s)
  PROVE  Stays(s, SwitchMon(s, m))
<1> DEFINE k == s.sel[s.selmon]
           u == unfocus(s, k, TRUE)
           v == [u EXCEPT !.selmon = m]
<1>1. SwitchMon(s, m) = focus(v, NULL)
  BY DEF SwitchMon
<1> HIDE DEF k
<1>2. Stays(s, u)
  BY UnfocusStays
<1> HIDE DEF u
<1>3. Sturdy(u) /\ m \in Mons(u)
  BY <1>2, StaysFields
<1>4. Stays(u, v)
  BY <1>3, SelmonStays
<1> HIDE DEF v
<1>5. Stays(v, focus(v, NULL))
  BY <1>4, StaysFields, FocusStays
<1> QED BY <1>1, <1>2, <1>4, <1>5, StaysTrans

LEMMA HideStays ==
  ASSUME NEW s, Sturdy(s), NEW c \in Managed(s)
  PROVE  Stays(s, hidewin(s, c)) /\ Stays(s, showwin(s, c))
<1>1. Good(Base(s)) /\ Full(s) /\ c \in WinOrNull /\ c \in Win /\ s.selmon \in Mons(s)
      /\ Base(s).selmon = s.selmon /\ DOMAIN Base(s) = Fields
  BY SturdyFields, BaseFields, GoodRecord DEF WinOrNull
<1>2. Follows(s, hidewin(s, c), hidewin(Base(s), c)) /\ Follows(s, showwin(s, c), showwin(Base(s), c))
  BY <1>1, HideBase
<1>3. Keeps(Base(s), hidewin(Base(s), c)) /\ Keeps(Base(s), showwin(Base(s), c))
  BY <1>1, HidewinLemma, ShowwinLemma
<1>4. hidewin(Base(s), c).selmon = s.selmon /\ showwin(Base(s), c).selmon = s.selmon
  <2>1. Unmoved(Base(s), hidewin(Base(s), c)) /\ Unmoved(Base(s), showwin(Base(s), c))
    BY <1>1, HidewinUnmoved
  <2> QED BY <1>1, <2>1 DEF Unmoved
<1> DEFINE h == hidewin(Base(s), c)
           w == showwin(Base(s), c)
<1>5. Follows(s, hidewin(s, c), h) /\ Follows(s, showwin(s, c), w) /\ Keeps(Base(s), h)
      /\ Keeps(Base(s), w) /\ h.selmon \in Mons(s) /\ w.selmon \in Mons(s)
  BY <1>1, <1>2, <1>3, <1>4
<1> HIDE DEF h, w
<1> QED BY <1>5, FollowsStays

\* Fields of the geometry, one by one.
Tuned(s, t) == Typed(t) /\ Base(t) = Base(s) /\ t.nmons = s.nmons

LEMMA TunedTrans ==
  ASSUME NEW s, NEW t, NEW u, Tuned(s, t), Tuned(t, u)
  PROVE  Tuned(s, u)
  BY DEF Tuned

LEMMA TunedPut ==
  ASSUME NEW s, Typed(s)
  PROVE  /\ \A v \in [Mon -> Rects] : Tuned(s, [s EXCEPT !.head = v])
         /\ \A v \in [Mon -> BOOLEAN] : Tuned(s, [s EXCEPT !.bar = v])
         /\ \A v \in [Mon -> {"tile", "monocle", "float"}] : Tuned(s, [s EXCEPT !.lay = v])
         /\ \A v \in [Mon -> 0 .. MaxGap] : Tuned(s, [s EXCEPT !.gap = v])
         /\ \A v \in [Mon -> Nat] : Tuned(s, [s EXCEPT !.nmaster = v])
         /\ \A v \in [Mon -> Nat] : Tuned(s, [s EXCEPT !.mfact = v])
         /\ \A v \in [Win -> Rects] : Tuned(s, [s EXCEPT !.geo = v])
         /\ \A v \in [Win -> Rects] : Tuned(s, [s EXCEPT !.old = v])
         /\ \A v \in [Win -> Rects] : Tuned(s, [s EXCEPT !.sm = v])
         /\ \A v \in [Win -> Int] : Tuned(s, [s EXCEPT !.bw = v])
         /\ \A v \in [Win -> Int] : Tuned(s, [s EXCEPT !.oldbw = v])
         /\ \A v \in [Win -> Int] : Tuned(s, [s EXCEPT !.xbw = v])
         /\ \A v \in Int \X Int : Tuned(s, [s EXCEPT !.screen = v])
<1> DEFINE E == Ext(s)
<1>1. E \in Extents
  BY DEF Typed
<1> HIDE DEF E
<1>2. ASSUME NEW f \in Extent \ {"nmons"}, NEW v, [E EXCEPT ![f] = v] \in Extents
      PROVE  Tuned(s, Put(s, f, v))
  BY <1>2, PutExtent, SMTT(30) DEF Tuned, E, Extent
<1>3. /\ "head" \in Extent \ {"nmons"} /\ "bar" \in Extent \ {"nmons"}
      /\ "lay" \in Extent \ {"nmons"} /\ "gap" \in Extent \ {"nmons"}
      /\ "nmaster" \in Extent \ {"nmons"} /\ "mfact" \in Extent \ {"nmons"}
      /\ "geo" \in Extent \ {"nmons"} /\ "old" \in Extent \ {"nmons"}
      /\ "sm" \in Extent \ {"nmons"} /\ "bw" \in Extent \ {"nmons"}
      /\ "oldbw" \in Extent \ {"nmons"} /\ "xbw" \in Extent \ {"nmons"}
      /\ "screen" \in Extent \ {"nmons"}
  BY DEF Extent
<1>4. ASSUME NEW v \in [Mon -> Rects] PROVE Tuned(s, [s EXCEPT !.head = v])
  <2>1. [E EXCEPT !["head"] = v] \in Extents
    BY <1>1 DEF Extents
  <2>2. Tuned(s, Put(s, "head", v))
    BY <1>2, <1>3, <2>1
  <2> QED BY <2>2 DEF Put
<1>5. ASSUME NEW v \in [Mon -> BOOLEAN] PROVE Tuned(s, [s EXCEPT !.bar = v])
  <2>1. [E EXCEPT !["bar"] = v] \in Extents
    BY <1>1 DEF Extents
  <2>2. Tuned(s, Put(s, "bar", v))
    BY <1>2, <1>3, <2>1
  <2> QED BY <2>2 DEF Put
<1>6. ASSUME NEW v \in [Mon -> {"tile", "monocle", "float"}] PROVE Tuned(s, [s EXCEPT !.lay = v])
  <2>1. [E EXCEPT !["lay"] = v] \in Extents
    BY <1>1 DEF Extents
  <2>2. Tuned(s, Put(s, "lay", v))
    BY <1>2, <1>3, <2>1
  <2> QED BY <2>2 DEF Put
<1>7. ASSUME NEW v \in [Mon -> 0 .. MaxGap] PROVE Tuned(s, [s EXCEPT !.gap = v])
  <2>1. [E EXCEPT !["gap"] = v] \in Extents
    BY <1>1 DEF Extents
  <2>2. Tuned(s, Put(s, "gap", v))
    BY <1>2, <1>3, <2>1
  <2> QED BY <2>2 DEF Put
<1>8. ASSUME NEW v \in [Mon -> Nat] PROVE Tuned(s, [s EXCEPT !.nmaster = v])
  <2>1. [E EXCEPT !["nmaster"] = v] \in Extents
    BY <1>1 DEF Extents
  <2>2. Tuned(s, Put(s, "nmaster", v))
    BY <1>2, <1>3, <2>1
  <2> QED BY <2>2 DEF Put
<1>9. ASSUME NEW v \in [Mon -> Nat] PROVE Tuned(s, [s EXCEPT !.mfact = v])
  <2>1. [E EXCEPT !["mfact"] = v] \in Extents
    BY <1>1 DEF Extents
  <2>2. Tuned(s, Put(s, "mfact", v))
    BY <1>2, <1>3, <2>1
  <2> QED BY <2>2 DEF Put
<1>10. ASSUME NEW v \in [Win -> Rects] PROVE Tuned(s, [s EXCEPT !.geo = v])
  <2>1. [E EXCEPT !["geo"] = v] \in Extents
    BY <1>1 DEF Extents
  <2>2. Tuned(s, Put(s, "geo", v))
    BY <1>2, <1>3, <2>1
  <2> QED BY <2>2 DEF Put
<1>11. ASSUME NEW v \in [Win -> Rects] PROVE Tuned(s, [s EXCEPT !.old = v])
  <2>1. [E EXCEPT !["old"] = v] \in Extents
    BY <1>1 DEF Extents
  <2>2. Tuned(s, Put(s, "old", v))
    BY <1>2, <1>3, <2>1
  <2> QED BY <2>2 DEF Put
<1>12. ASSUME NEW v \in [Win -> Rects] PROVE Tuned(s, [s EXCEPT !.sm = v])
  <2>1. [E EXCEPT !["sm"] = v] \in Extents
    BY <1>1 DEF Extents
  <2>2. Tuned(s, Put(s, "sm", v))
    BY <1>2, <1>3, <2>1
  <2> QED BY <2>2 DEF Put
<1>13. ASSUME NEW v \in [Win -> Int] PROVE Tuned(s, [s EXCEPT !.bw = v])
  <2>1. [E EXCEPT !["bw"] = v] \in Extents
    BY <1>1 DEF Extents
  <2>2. Tuned(s, Put(s, "bw", v))
    BY <1>2, <1>3, <2>1
  <2> QED BY <2>2 DEF Put
<1>14. ASSUME NEW v \in [Win -> Int] PROVE Tuned(s, [s EXCEPT !.oldbw = v])
  <2>1. [E EXCEPT !["oldbw"] = v] \in Extents
    BY <1>1 DEF Extents
  <2>2. Tuned(s, Put(s, "oldbw", v))
    BY <1>2, <1>3, <2>1
  <2> QED BY <2>2 DEF Put
<1>15. ASSUME NEW v \in [Win -> Int] PROVE Tuned(s, [s EXCEPT !.xbw = v])
  <2>1. [E EXCEPT !["xbw"] = v] \in Extents
    BY <1>1 DEF Extents
  <2>2. Tuned(s, Put(s, "xbw", v))
    BY <1>2, <1>3, <2>1
  <2> QED BY <2>2 DEF Put
<1>16. ASSUME NEW v \in Int \X Int PROVE Tuned(s, [s EXCEPT !.screen = v])
  <2>1. [E EXCEPT !["screen"] = v] \in Extents
    BY <1>1 DEF Extents
  <2>2. Tuned(s, Put(s, "screen", v))
    BY <1>2, <1>3, <2>1
  <2> QED BY <2>2 DEF Put
<1> QED BY <1>4, <1>5, <1>6, <1>7, <1>8, <1>9, <1>10, <1>11, <1>12, <1>13, <1>14, <1>15, <1>16

LEMMA TunedStays ==
  ASSUME NEW s, Sturdy(s), NEW t, Tuned(s, t)
  PROVE  Stays(s, t) /\ t.selmon = s.selmon
<1>1. Typed(t) /\ Base(t) = Base(s) /\ t.nmons = s.nmons
  BY DEF Tuned
<1>2. t.selmon = s.selmon /\ t.mon = s.mon /\ t.clients = s.clients
  BY <1>1, BaseFields
<1>3. Good(Base(s)) /\ Keeps(Base(s), Base(t))
  BY <1>1, SturdyFields, KeepsSelf
<1>4. Housed(t)
  BY <1>1, <1>2 DEF Sturdy, Housed, Mons, Managed
<1> QED BY <1>1, <1>2, <1>3, <1>4 DEF Stays, Sturdy

LEMMA ModeStays ==
  ASSUME NEW s, Sturdy(s), NEW c \in Win, NEW x \in Modes
  PROVE  /\ Stays(s, [s EXCEPT !.mode[c] = x])
         /\ [s EXCEPT !.mode[c] = x].selmon = s.selmon
<1> DEFINE b == [Base(s) EXCEPT !.mode[c] = x]
<1>1. Good(Base(s)) /\ Full(s) /\ s.selmon \in Mons(s)
  BY SturdyFields
<1>2. Follows(s, [s EXCEPT !.mode[c] = x], b)
  BY <1>1, SetBase
<1>3. Keeps(Base(s), b)
  BY <1>1, ModeLemma
<1>4. b.selmon = s.selmon
  BY <1>1, GoodRecord, BaseFields DEF Fields
<1> HIDE DEF b
<1> QED BY <1>1, <1>2, <1>3, <1>4, FollowsStays

LEMMA TilingStays ==
  ASSUME NEW s, Sturdy(s), NEW m \in Mon, NEW x \in BOOLEAN
  PROVE  Stays(s, [s EXCEPT !.tiling[m] = x])
<1> DEFINE v == [s.tiling EXCEPT ![m] = x]
           b == Put(Base(s), "tiling", v)
<1>1. Good(Base(s)) /\ Full(s) /\ s.selmon \in Mons(s)
  BY SturdyFields
<1>2. [s EXCEPT !.tiling[m] = x] = Put(s, "tiling", v)
  BY DEF Put
<1>3. v \in [Mon -> BOOLEAN]
  BY SturdyFields, StateFields
<1> HIDE DEF v
<1>4. Follows(s, Put(s, "tiling", v), b)
  BY <1>1, PutBase DEF Fields
<1>5. Well(b) /\ SameLists(Base(s), b)
  BY <1>1, <1>3, ZenonT(60) DEF Good, Well, State, SameLists, Put
<1>6. Keeps(Base(s), b)
  BY <1>1, <1>5, SameListsKeep
<1>7. b.selmon = s.selmon
  BY <1>1, GoodRecord, BaseFields DEF Put, Fields
<1> HIDE DEF b
<1> QED BY <1>1, <1>2, <1>4, <1>6, <1>7, FollowsStays

-----------------------------------------------------------------------------
(* Modes and requests.                                                     *)

\* The selected client of a monitor is on it.
LEMMA SelManaged ==
  ASSUME NEW s, Sturdy(s), NEW c, c = s.sel[s.selmon], c # NULL
  PROVE  c \in Managed(s) /\ s.mon[c] = s.selmon /\ c \in Win
<1>1. s.selmon \in Mon /\ Consistent(s)
  BY SturdyFields
<1>2. c \in Range(s.clients[s.selmon])
  BY <1>1 DEF Consistent
<1>3. c \in Managed(s) /\ s.mon[c] = s.selmon
  BY <1>1, <1>2 DEF Managed, Consistent
<1> QED BY <1>3, SturdyFields

LEMMA ResizeclientStays ==
  ASSUME NEW s, Sturdy(s), NEW c \in Win, NEW r \in Rects
  PROVE  Stays(s, resizeclient(s, c, r)) /\ resizeclient(s, c, r).selmon = s.selmon
  BY SturdyFields, ResizeclientLaid, LaidStays

LEMMA ResizeStays ==
  ASSUME NEW s, Sturdy(s), NEW c \in Win, NEW r \in Rects, NEW i \in BOOLEAN
  PROVE  Stays(s, resize(s, c, r, i)) /\ resize(s, c, r, i).selmon = s.selmon
  BY SturdyFields, ResizeLaid, LaidStays

LEMMA SetfullscreenStays ==
  ASSUME NEW s, Sturdy(s), NEW c \in Managed(s), NEW on \in BOOLEAN
  PROVE  Stays(s, setfullscreen(s, c, on))
<1> DEFINE b == setfullscreen(Base(s), c, on)
<1>1. Good(Base(s)) /\ Full(s) /\ s.selmon \in Mons(s) /\ c \in Win
  BY SturdyFields
<1>2. Follows(s, setfullscreen(s, c, on), b)
  BY <1>1, SetfullscreenBase
<1>3. Keeps(Base(s), b)
  BY <1>1, SetfullscreenLemma
<1>4. b.selmon = s.selmon
  BY <1>1, GoodRecord, BaseFields DEF setfullscreen, arrange, restack, Fields
<1> HIDE DEF b
<1> QED BY <1>1, <1>2, <1>3, <1>4, FollowsStays

LEMMA FullscreenedStays ==
  ASSUME NEW s, Sturdy(s), NEW c \in Managed(s), NEW on \in BOOLEAN
  PROVE  Stays(s, Fullscreened(s, c, on))
<1> DEFINE t == setfullscreen(s, c, on)
           m == s.mon[c]
           u(v) == [t EXCEPT !.oldbw = v]
           a(v, w) == [u(v) EXCEPT !.bw = w]
           x(v) == [t EXCEPT !.bw = v]
           y(v, w) == [x(v) EXCEPT !.geo = w]
<1>1. c \in Win /\ m \in Mon
  BY SturdyFields
<1>2. Stays(s, t) /\ Sturdy(t) /\ Typed(t)
  BY SetfullscreenStays, StaysFields
<1>3. /\ s.head[m] \in Rects /\ s.old[c] \in Rects /\ s.bw[c] \in Int /\ s.oldbw[c] \in Int
      /\ t.bw \in [Win -> Int] /\ t.oldbw \in [Win -> Int] /\ t.geo \in [Win -> Rects]
  BY <1>1, <1>2, SturdyFields, ExtFields
<1>4. Fullscreened(s, c, on) =
        IF on = s.mode[c].full THEN s
        ELSE IF on
        THEN resizeclient([t EXCEPT !.oldbw[c] = s.bw[c], !.bw[c] = 0], c, s.head[m])
        ELSE Arranged(resizeclient([t EXCEPT !.bw[c] = s.oldbw[c], !.geo[c] = s.old[c]],
                                   c, s.old[c]), m)
  BY DEF Fullscreened
<1> HIDE DEF t, m
<1>5. Stays(s, resizeclient([t EXCEPT !.oldbw[c] = s.bw[c], !.bw[c] = 0], c, s.head[m]))
  <2> DEFINE v == [t.oldbw EXCEPT ![c] = s.bw[c]]
             w == [t.bw EXCEPT ![c] = 0]
  <2>1. v \in [Win -> Int] /\ w \in [Win -> Int]
    <3>1. \A f \in [Win -> Int], i \in Int : [f EXCEPT ![c] = i] \in [Win -> Int]
      OBVIOUS
    <3> QED BY <1>3, <3>1
  <2>2. [t EXCEPT !.oldbw[c] = s.bw[c], !.bw[c] = 0] = a(v, w)
    BY <1>2, StateFields DEF Extent
  <2> HIDE DEF v, w
  <2>3. Tuned(t, u(v)) /\ Typed(u(v))
    BY <1>2, <2>1, TunedPut DEF Tuned
  <2> HIDE DEF u
  <2>4. Tuned(u(v), a(v, w))
    BY <2>1, <2>3, TunedPut
  <2> HIDE DEF a
  <2>5. Stays(t, a(v, w)) /\ Sturdy(a(v, w))
    BY <1>2, <2>3, <2>4, TunedTrans, TunedStays DEF Stays
  <2>6. Stays(a(v, w), resizeclient(a(v, w), c, s.head[m]))
    BY <1>1, <1>3, <2>5, ResizeclientStays
  <2> QED BY <1>2, <2>2, <2>5, <2>6, StaysTrans
<1>6. Stays(s, Arranged(resizeclient([t EXCEPT !.bw[c] = s.oldbw[c], !.geo[c] = s.old[c]],
                                     c, s.old[c]), m))
  <2> DEFINE v == [t.bw EXCEPT ![c] = s.oldbw[c]]
             w == [t.geo EXCEPT ![c] = s.old[c]]
  <2>1. v \in [Win -> Int] /\ w \in [Win -> Rects]
    BY <1>3
  <2>2. [t EXCEPT !.bw[c] = s.oldbw[c], !.geo[c] = s.old[c]] = y(v, w)
    BY <1>2, StateFields DEF Extent
  <2> HIDE DEF v, w
  <2>3. Tuned(t, x(v)) /\ Typed(x(v))
    BY <1>2, <2>1, TunedPut DEF Tuned
  <2> HIDE DEF x
  <2>4. Tuned(x(v), y(v, w))
    BY <2>1, <2>3, TunedPut
  <2> HIDE DEF y
  <2>5. Stays(t, y(v, w)) /\ Sturdy(y(v, w))
    BY <1>2, <2>3, <2>4, TunedTrans, TunedStays DEF Stays
  <2> DEFINE z == resizeclient(y(v, w), c, s.old[c])
  <2>6. Stays(y(v, w), z) /\ Sturdy(z)
    BY <1>1, <1>3, <2>5, ResizeclientStays, StaysFields
  <2> HIDE DEF z
  <2>7. Stays(z, Arranged(z, m))
    BY <1>1, <2>6, ArrangedStays
  <2>8. Stays(s, Arranged(z, m))
    BY <1>2, <2>5, <2>6, <2>7, StaysTrans
  <2> QED BY <2>2, <2>8 DEF z
<1> QED BY <1>4, <1>5, <1>6, StaysSelf

LEMMA MaximizedStays ==
  ASSUME NEW s, Sturdy(s), NEW c \in Managed(s)
  PROVE  Stays(s, Maximized(s, c))
<1> DEFINE m == s.mon[c]
           a == WindowArea(s, m)
           d == s.mode[c]
           fill == Rect(a.x, a.y, a.w - 2 * s.bw[c], a.h - 2 * s.bw[c])
           p == [d EXCEPT !.max = TRUE, !.float = TRUE, !.smf = d.float]
           q == [d EXCEPT !.max = FALSE, !.float = d.smf, !.smf = FALSE]
           on == [s EXCEPT !.sm[c] = s.geo[c], !.mode[c] = p]
           off == [s EXCEPT !.sm[c] = NoRect, !.mode[c] = q]
<1>1. c \in Win /\ c # NULL /\ m \in Mon /\ Typed(s)
  BY SturdyFields
<1>2. d \in Modes /\ s.geo[c] \in Rects /\ s.sm[c] \in Rects /\ s.bw[c] \in Int
      /\ NoRect \in Rects /\ s.sm \in [Win -> Rects]
  BY <1>1, StateFields, ExtFields, RectLemma DEF NoRect
<1>3. p \in Modes /\ q \in Modes
  BY <1>2 DEF Modes
<1>4. fill \in Rects
  <2>1. a.x \in Int /\ a.y \in Int /\ a.w \in Int /\ a.h \in Int
    BY <1>1, AreaRect, RectFields
  <2> HIDE DEF a
  <2>2. a.w - 2 * s.bw[c] \in Int /\ a.h - 2 * s.bw[c] \in Int
    BY <1>2, <2>1
  <2> QED BY <2>1, <2>2, RectLemma
<1>5. Maximized(s, c) =
        IF c = NULL \/ d.full THEN s
        ELSE Arranged(IF d.max THEN resizeclient(off, c, s.sm[c]) ELSE resizeclient(on, c, fill), m)
  BY DEF Maximized
<1> HIDE DEF fill, p, q, d, m, a
<1>6. ASSUME NEW r \in Rects, NEW x \in Modes
      PROVE  Stays(s, [s EXCEPT !.sm[c] = r, !.mode[c] = x])
  <2> DEFINE v == [s.sm EXCEPT ![c] = r]
             u == [s EXCEPT !.sm = v]
  <2>1. v \in [Win -> Rects]
    BY <1>1, <1>2
  <2>2. [s EXCEPT !.sm[c] = r, !.mode[c] = x] = [u EXCEPT !.mode[c] = x]
    OBVIOUS
  <2> HIDE DEF v
  <2>3. Tuned(s, u)
    BY <1>1, <2>1, TunedPut
  <2> HIDE DEF u
  <2>4. Stays(s, u) /\ Sturdy(u)
    BY <2>3, TunedStays DEF Stays
  <2>5. Stays(u, [u EXCEPT !.mode[c] = x])
    BY <1>1, <2>4, ModeStays
  <2> QED BY <2>2, <2>4, <2>5, StaysTrans
<1>7. Stays(s, on) /\ Sturdy(on) /\ Stays(s, off) /\ Sturdy(off)
  BY <1>2, <1>3, <1>6, StaysFields
<1> HIDE DEF on, off
<1> DEFINE t == IF d.max THEN resizeclient(off, c, s.sm[c]) ELSE resizeclient(on, c, fill)
<1>8. Stays(s, t)
  <2>1. Stays(off, resizeclient(off, c, s.sm[c])) /\ Stays(on, resizeclient(on, c, fill))
    BY <1>1, <1>2, <1>4, <1>7, ResizeclientStays
  <2>2. Stays(s, resizeclient(off, c, s.sm[c])) /\ Stays(s, resizeclient(on, c, fill))
    BY <1>7, <2>1, StaysTrans
  <2> QED BY <2>2
<1> HIDE DEF t
<1>9. Stays(s, Arranged(t, m))
  BY <1>1, <1>8, StaysFields, ArrangedStays, StaysTrans
<1>10. Maximized(s, c) = IF c = NULL \/ d.full THEN s ELSE Arranged(t, m)
  BY <1>5 DEF t
<1> QED BY <1>9, <1>10, StaysSelf

LEMMA FloatedStays ==
  ASSUME NEW s, Sturdy(s)
  PROVE  Stays(s, Floated(s)) /\ Floated(s).selmon = s.selmon
<1> DEFINE c == s.sel[s.selmon]
           x == [s.mode[c] EXCEPT !.float = ~@]
           u == [s EXCEPT !.mode[c] = x]
           v == Settled(u, c)
<1>1. Floated(s) = IF c = NULL \/ s.mode[c].full THEN s
                   ELSE Arranged(Settled([s EXCEPT !.mode[c].float = ~@], c), s.selmon)
  BY DEF Floated
<1> HIDE DEF c
<1>2. [s EXCEPT !.mode[c].float = ~@] = u
  OBVIOUS
<1>3. CASE c = NULL
  BY <1>1, <1>3, StaysSelf
<1>4. CASE c # NULL
  <2>1. c \in Win /\ s.selmon \in Mon /\ s.mode[c] \in Modes
    BY <1>4, SelManaged, SturdyFields, StateFields DEF c
  <2>2. x \in Modes
    BY <2>1 DEF Modes
  <2> HIDE DEF x
  <2>3. Stays(s, u) /\ u.selmon = s.selmon /\ Sturdy(u) /\ Typed(u)
    BY <2>1, <2>2, ModeStays, StaysFields
  <2> HIDE DEF u
  <2>4. Stays(u, v) /\ v.selmon = u.selmon
    <3>1. u.geo[c] \in Rects
      BY <2>1, <2>3, ExtFields
    <3>2. Stays(u, resize(u, c, u.geo[c], FALSE)) /\ resize(u, c, u.geo[c], FALSE).selmon = u.selmon
      BY <2>1, <2>3, <3>1, ResizeStays
    <3> QED BY <2>3, <3>2, StaysSelf DEF Settled
  <2> HIDE DEF v
  <2>5. Stays(v, Arranged(v, s.selmon)) /\ Arranged(v, s.selmon).selmon = v.selmon
    BY <2>1, <2>4, StaysFields, ArrangedStays
  <2>6. Stays(s, Arranged(v, s.selmon)) /\ Arranged(v, s.selmon).selmon = s.selmon
    BY <2>3, <2>4, <2>5, StaysTrans
  <2> QED BY <1>1, <1>2, <2>6, StaysSelf DEF v
<1> QED BY <1>3, <1>4

\* A request that leaves out fields of a rectangle asks for one all the same.
LEMMA MaskedRect ==
  ASSUME NEW p \in Rects, NEW q \in Rects, NEW mask
  PROVE  Masked(mask, p, q) \in Rects
<1>1. /\ p.x \in Int /\ p.y \in Int /\ p.w \in Int /\ p.h \in Int
      /\ q.x \in Int /\ q.y \in Int /\ q.w \in Int /\ q.h \in Int
  BY RectFields
<1> QED BY <1>1, RectLemma DEF Masked

LEMMA RequestedStays ==
  ASSUME NEW s, Sturdy(s), NEW c \in Managed(s), NEW r \in Rects, NEW mask
  PROVE  /\ Stays(s, Requested(s, c, r, mask))
         /\ Requested(s, c, r, mask).selmon = s.selmon
<1> DEFINE a == s.head[s.mon[c]]
           p == Rect(a.x + r.x, a.y + r.y - bh - s.bw[c], r.w, r.h + bh + s.bw[c])
           q == Masked(mask, p, s.geo[c])
           x == IF q.x + q.w > a.x + a.w /\ s.mode[c].float
                THEN a.x + (a.w \div 2 - (q.w + 2 * s.bw[c]) \div 2) ELSE q.x
           y == IF q.y + q.h > a.y + a.h /\ s.mode[c].float
                THEN a.y + (a.h \div 2 - (q.h + 2 * s.bw[c]) \div 2) ELSE q.y
           z == [q EXCEPT !.x = x, !.y = y]
           v == [s.old EXCEPT ![c] = Masked(mask, Noted(s, c), s.old[c])]
           w == [s.geo EXCEPT ![c] = z]
           u == [s EXCEPT !.old = v]
           t == [u EXCEPT !.geo = w]
<1>1. Requested(s, c, r, mask) = IF s.mode[c].float \/ s.lay[s.selmon] = "float" THEN t ELSE s
  BY DEF Requested
<1>2. c \in Win /\ s.mon[c] \in Mon /\ Typed(s)
  BY SturdyFields
<1>3. a \in Rects /\ s.bw[c] \in Int /\ s.old \in [Win -> Rects] /\ s.geo \in [Win -> Rects]
  BY <1>2, ExtFields
<1>4. q \in Rects
  <2> HIDE DEF a, q
  <2> SUFFICES p \in Rects
    BY <1>2, <1>3, MaskedRect DEF q
  <2>1. /\ a.x \in Int /\ a.y \in Int
        /\ r.x \in Int /\ r.y \in Int /\ r.w \in Int /\ r.h \in Int /\ bh \in Int
    BY <1>3, RectFields
  <2>a. a.x + r.x \in Int /\ r.h + bh + s.bw[c] \in Int
    BY <1>3, <2>1
  <2>b. a.y + r.y - bh - s.bw[c] \in Int
    BY <1>3, <2>1
  <2> QED BY <2>1, <2>a, <2>b, RectLemma
<1> HIDE DEF p, q, a
<1>5. x \in Int /\ y \in Int
  <2>1. /\ a.x \in Int /\ a.y \in Int /\ a.w \in Int /\ a.h \in Int
        /\ q.x \in Int /\ q.y \in Int /\ q.w \in Int /\ q.h \in Int
    BY <1>3, <1>4, RectFields
  <2>2. \A i \in Int : i \div 2 \in Int
    OBVIOUS
  <2>3. q.w + 2 * s.bw[c] \in Int /\ q.h + 2 * s.bw[c] \in Int
    BY <1>3, <2>1, SMTT(30)
  <2> DEFINE k == a.w \div 2  l == (q.w + 2 * s.bw[c]) \div 2
             i == a.h \div 2  j == (q.h + 2 * s.bw[c]) \div 2
  <2>4. k \in Int /\ l \in Int /\ i \in Int /\ j \in Int
    BY <2>1, <2>2, <2>3
  <2>5. x \in {q.x, a.x + (k - l)} /\ y \in {q.y, a.y + (i - j)}
    OBVIOUS
  <2> HIDE DEF k, l, i, j
  <2>6. a.x + (k - l) \in Int /\ a.y + (i - j) \in Int
    BY <2>1, <2>4
  <2> HIDE DEF x, y
  <2> QED BY <2>1, <2>5, <2>6
<1> HIDE DEF x, y
<1>6. z \in Rects
  BY <1>4, <1>5 DEF Rects
<1>7. Masked(mask, Noted(s, c), s.old[c]) \in Rects
  <2>1. Noted(s, c) \in Rects
    BY <1>2, <1>3, RectLemma DEF Noted, NoRect
  <2> QED BY <1>2, <1>3, <2>1, MaskedRect
<1> HIDE DEF z
<1>8. v \in [Win -> Rects] /\ w \in [Win -> Rects]
  BY <1>3, <1>6, <1>7
<1> HIDE DEF v, w
<1>9. Tuned(s, u) /\ Typed(u)
  BY <1>2, <1>8, TunedPut DEF Tuned
<1> HIDE DEF u
<1>10. Tuned(u, t)
  BY <1>8, <1>9, TunedPut
<1> HIDE DEF t
<1>11. Stays(s, t) /\ t.selmon = s.selmon
  BY <1>9, <1>10, TunedTrans, TunedStays
<1> QED BY <1>1, <1>11, StaysSelf

-----------------------------------------------------------------------------
(* Clients that come, go and change monitors.                              *)

\* Where the clients are does not change, nor which monitor is selected.
Rests(s, t) == DOMAIN t = Fields /\ t.mon = s.mon /\ t.selmon = s.selmon

LEMMA RestsTrans ==
  ASSUME NEW s, NEW t, NEW u, Rests(s, t), Rests(t, u)
  PROVE  Rests(s, u)
  BY DEF Rests

LEMMA RestsLemma ==
  ASSUME NEW s, DOMAIN s = Fields, NEW c
  PROVE  /\ \A b : Rests(s, unfocus(s, c, b))
         /\ \A m : Rests(s, arrange(s, m))
         /\ Rests(s, attachstack(attach(s, c), c))
         /\ Rests(s, detachstack(detach(s, c), c))
         /\ \A x : Rests(s, setclientstate(s, c, x))
         /\ \A m : Rests(s, [s EXCEPT !.sel[m] = c])
         /\ \A x, y : Rests(s, [s EXCEPT !.mapped = x, !.strip = y])
<1> USE DEF Fields
<1>1. ASSUME NEW b PROVE Rests(s, unfocus(s, c, b))
  BY DEF Rests, unfocus, FocusRoot
<1>2. ASSUME NEW m PROVE Rests(s, arrange(s, m)) /\ Rests(s, [s EXCEPT !.sel[m] = c])
  BY DEF Rests, arrange, restack
<1>3. Rests(s, attachstack(attach(s, c), c))
  BY DEF Rests, attachstack, attach
<1>4. Rests(s, detachstack(detach(s, c), c))
  BY DEF Rests, detachstack, detach
<1>5. ASSUME NEW x PROVE Rests(s, setclientstate(s, c, x))
  BY DEF Rests, setclientstate
<1>6. ASSUME NEW x, NEW y PROVE Rests(s, [s EXCEPT !.mapped = x, !.strip = y])
  BY DEF Rests
<1> QED BY <1>1, <1>2, <1>3, <1>4, <1>5, <1>6

\* manage, unmanage and sendmon put their client on one monitor, and leave
\* the others where they are, up to the call of focus(NULL).
LEMMA JoinedMon ==
  ASSUME NEW s, Good(s), NEW w
  PROVE  LET t == TransientFor[w]
             m == IF t \in Managed(s) THEN s.mon[t] ELSE s.selmon
         IN  /\ Joined(s, w).mon = [s.mon EXCEPT ![w] = m]
             /\ Joined(s, w).selmon = s.selmon
<1> DEFINE k == TransientFor[w]
           m == IF k \in Managed(s) THEN s.mon[k] ELSE s.selmon
           g == IF k \in Managed(s) THEN s.tags[k] ELSE View(s, s.selmon)
           i == [s EXCEPT !.mon[w] = m, !.tags[w] = g,
                          !.mode[w] = ManagedMode(s, w),
                          !.urgent = IF w \in s.hint THEN @ \cup {w} ELSE @ \ {w},
                          !.list = @ \cup {w}]
           a == attachstack(attach(i, w), w)
           n == IF HIDDEN(a, w) THEN a ELSE setclientstate(a, w, "Normal")
           b == [n EXCEPT !.sel[m] = w]
           r == arrange(b, m)
           q == IF HIDDEN(r, w) THEN r
                ELSE [r EXCEPT !.mapped = @ \cup {w}, !.strip = @ \cup {w}]
<1>1. Joined(s, w) = q
  BY DEF Joined
<1>2. DOMAIN s = Fields
  BY GoodRecord
<1> HIDE DEF m, g
<1>3. i.mon = [s.mon EXCEPT ![w] = m] /\ i.selmon = s.selmon /\ DOMAIN i = Fields
  BY <1>2 DEF Fields
<1> HIDE DEF i
<1>4. Rests(i, a)
  BY <1>3, RestsLemma
<1> HIDE DEF a
<1>5. Rests(a, n)
  <2>1. DOMAIN a = Fields
    BY <1>4 DEF Rests
  <2>2. Rests(a, a)
    BY <2>1 DEF Rests
  <2>3. Rests(a, setclientstate(a, w, "Normal"))
    BY <2>1, RestsLemma
  <2> QED BY <2>2, <2>3
<1> HIDE DEF n
<1>6. Rests(n, b)
  BY <1>5, RestsLemma DEF Rests
<1> HIDE DEF b
<1>7. Rests(b, r)
  BY <1>6, RestsLemma DEF Rests
<1> HIDE DEF r
<1>8. Rests(r, q)
  BY <1>7, RestsLemma DEF Rests
<1> HIDE DEF q
<1>9. Rests(i, q)
  BY <1>4, <1>5, <1>6, <1>7, <1>8, RestsTrans
<1> QED BY <1>1, <1>3, <1>9 DEF Rests, m

LEMMA PartedMon ==
  ASSUME NEW s, Good(s), NEW c, NEW b
  PROVE  /\ Parted(s, c, b).mon = [s.mon EXCEPT ![c] = 1]
         /\ Parted(s, c, b).selmon = s.selmon
<1> DEFINE d == detachstack(detach(s, c), c)
           x == IF b THEN d ELSE setclientstate(d, c, "Withdrawn")
<1>1. Parted(s, c, b) = [x EXCEPT !.mon[c] = 1, !.tags[c] = {}, !.urgent = @ \ {c},
                                  !.mode[c] = NoMode, !.strip = @ \ {c}]
  BY DEF Parted
<1>2. Rests(s, d)
  BY GoodRecord, RestsLemma
<1> HIDE DEF d
<1>3. Rests(s, x)
  <2>1. DOMAIN d = Fields
    BY <1>2 DEF Rests
  <2>2. Rests(d, setclientstate(d, c, "Withdrawn"))
    BY <2>1, RestsLemma
  <2> QED BY <1>2, <2>2, RestsTrans
<1> HIDE DEF x
<1> QED BY <1>1, <1>3 DEF Rests, Fields

LEMMA ShiftedMon ==
  ASSUME NEW s, Good(s), NEW c, NEW m
  PROVE  /\ Shifted(s, c, m).mon = [s.mon EXCEPT ![c] = m]
         /\ Shifted(s, c, m).selmon = s.selmon
<1> DEFINE u == unfocus(s, c, TRUE)
           d == detachstack(detach(u, c), c)
           e == [d EXCEPT !.mon[c] = m, !.tags[c] = View(d, m)]
           a == attachstack(attach(e, c), c)
<1>1. Shifted(s, c, m) = a
  BY DEF Shifted
<1>2. Rests(s, u)
  BY GoodRecord, RestsLemma
<1> HIDE DEF u
<1>3. Rests(u, d)
  BY <1>2, RestsLemma DEF Rests
<1> HIDE DEF d
<1>4. e.mon = [s.mon EXCEPT ![c] = m] /\ e.selmon = s.selmon /\ DOMAIN e = Fields
  BY <1>2, <1>3 DEF Rests, Fields
<1> HIDE DEF e
<1>5. Rests(e, a)
  BY <1>4, RestsLemma
<1> HIDE DEF a
<1> QED BY <1>1, <1>4, <1>5 DEF Rests

\* The calls of focus(NULL) after them keep the lists and the selected monitor.
LEMMA ManageMon ==
  ASSUME NEW s, Good(s), NEW w \in s.alive \ Managed(s)
  PROVE  LET t == manage(s, w)
             m == IF TransientFor[w] \in Managed(s) THEN s.mon[TransientFor[w]]
                  ELSE s.selmon
         IN  t.mon = [s.mon EXCEPT ![w] = m] /\ t.selmon = s.selmon
<1> DEFINE j == Joined(s, w)
<1>1. Good(j)
  BY JoinedLemma
<1>2. manage(s, w) = focus(j, NULL)
  BY ManageJoined
<1>3. j.selmon = s.selmon
      /\ j.mon = [s.mon EXCEPT ![w] = IF TransientFor[w] \in Managed(s)
                                      THEN s.mon[TransientFor[w]] ELSE s.selmon]
  BY JoinedMon
<1> HIDE DEF j
<1>4. focus(j, NULL).mon = j.mon /\ focus(j, NULL).selmon = j.selmon
  BY <1>1, FocusLemma, FocusSelmon DEF Keeps
<1> QED BY <1>2, <1>3, <1>4

LEMMA UnmanageMon ==
  ASSUME NEW s, Good(s), NEW c \in Managed(s), NEW b
  PROVE  LET t == unmanage(s, c, b)
         IN  t.mon = [s.mon EXCEPT ![c] = 1] /\ t.selmon = s.selmon
<1> DEFINE p == Parted(s, c, b)
           f == focus(p, NULL)
           l == updateclientlist(f)
<1>1. unmanage(s, c, b) = arrange(l, s.mon[c])
  BY UnmanageParted
<1>2. p.mon = [s.mon EXCEPT ![c] = 1] /\ p.selmon = s.selmon /\ Good(p)
  BY PartedMon, PartedLemma
<1> HIDE DEF p
<1>3. f.mon = p.mon /\ f.selmon = p.selmon /\ Good(f)
  BY <1>2, FocusLemma, FocusSelmon DEF Keeps
<1> HIDE DEF f
<1>4. DOMAIN l = Fields /\ l.mon = f.mon /\ l.selmon = f.selmon
  BY <1>3, GoodRecord DEF updateclientlist, Fields
<1> HIDE DEF l
<1>5. Rests(l, arrange(l, s.mon[c]))
  BY <1>4, RestsLemma
<1> QED BY <1>1, <1>2, <1>3, <1>4, <1>5 DEF Rests

LEMMA SendmonMon ==
  ASSUME NEW s, Good(s), NEW c \in Managed(s), NEW m \in Mon
  PROVE  /\ sendmon(s, c, m).mon = [s.mon EXCEPT ![c] = m]
         /\ sendmon(s, c, m).selmon = s.selmon
<1> DEFINE h == Shifted(s, c, m)
<1>1. CASE s.mon[c] = m
  <2>1. s.mon \in [Win -> Mon] /\ c \in Win
    BY ManagedLemma DEF Good, Well, State
  <2> QED BY <1>1, <2>1 DEF sendmon
<1>2. CASE s.mon[c] # m
  <2>1. sendmon(s, c, m) = focus(h, NULL)
    BY <1>2, SendmonShifted
  <2>2. Good(h) /\ h.mon = [s.mon EXCEPT ![c] = m] /\ h.selmon = s.selmon
    <3>1. Moves(s, h)
      BY ShiftedLemma
    <3>2. h.mon = [s.mon EXCEPT ![c] = m] /\ h.selmon = s.selmon
      BY ShiftedMon
    <3> HIDE DEF h
    <3> QED BY <3>1, <3>2 DEF Moves
  <2> HIDE DEF h
  <2>3. focus(h, NULL).mon = h.mon /\ focus(h, NULL).selmon = h.selmon
    BY <2>2, FocusLemma, FocusSelmon DEF Keeps
  <2> QED BY <2>1, <2>2, <2>3
<1> QED BY <1>1, <1>2

\* The slot a new client starts from is a rectangle.
LEMMA FirstSlotRect ==
  ASSUME NEW s, Typed(s), NEW m \in Mon, NEW r \in Rects
  PROVE  FirstSlot(s, m, r) \in Rects
<1> DEFINE a == WindowArea(s, m)
           q == Rect(r.x, r.y - bh - borderpx, r.w, r.h + bh + borderpx)
           x == IF q.x + q.w > a.x + a.w THEN a.x + a.w - q.w ELSE q.x
           y == IF q.y + q.h > a.y + a.h THEN a.y + a.h - q.h ELSE q.y
           u == AtLeast(x, a.x)
           v == AtLeast(y, a.y)
<1>1. FirstSlot(s, m, r) = [q EXCEPT !.x = u, !.y = v]
  BY DEF FirstSlot
<1>2. /\ a.x \in Int /\ a.y \in Int /\ a.w \in Int /\ a.h \in Int
      /\ r.x \in Int /\ r.y \in Int /\ r.w \in Int /\ r.h \in Int
      /\ bh \in Int /\ borderpx \in Int
  BY AreaRect, RectFields
<1> HIDE DEF a
<1>3. q \in Rects
  <2>1. r.y - bh - borderpx \in Int
    BY <1>2
  <2>2. r.h + bh + borderpx \in Int
    BY <1>2
  <2> QED BY <1>2, <2>1, <2>2, RectLemma
<1> HIDE DEF q
<1>4. q.x \in Int /\ q.y \in Int /\ q.w \in Int /\ q.h \in Int
  BY <1>3, RectFields
<1>5. x \in Int /\ y \in Int
  <2>1. a.x + a.w - q.w \in Int /\ a.y + a.h - q.h \in Int
    BY <1>2, <1>4, SMTT(30)
  <2>2. x \in {q.x, a.x + a.w - q.w} /\ y \in {q.y, a.y + a.h - q.h}
    OBVIOUS
  <2> HIDE DEF x, y
  <2> QED BY <1>4, <2>1, <2>2
<1> HIDE DEF x, y
<1>6. u \in Int /\ v \in Int
  BY <1>2, <1>5 DEF AtLeast
<1> HIDE DEF u, v
<1> QED BY <1>1, <1>3, <1>6 DEF Rects

\* What the lists are judged by.
LEMMA SameConsistent ==
  ASSUME NEW s, NEW t, t.clients = s.clients, t.stack = s.stack, t.sel = s.sel,
         t.mon = s.mon, t.tags = s.tags, Consistent(s), AllTagged(s)
  PROVE  Consistent(t) /\ AllTagged(t) /\ Managed(t) = Managed(s)
<1>1. Consistent(t)
  BY DEF Consistent
<1>2. AllTagged(t)
  BY DEF AllTagged
<1>3. Managed(t) = Managed(s)
  BY DEF Managed
<1> QED BY <1>1, <1>2, <1>3

\* The window exists; for the lists nothing has changed.
Lives(s, t, w) == t = [s EXCEPT !.alive = s.alive \cup {w}]

LEMMA AliveGood ==
  ASSUME NEW s, Good(s), NEW w \in Win, NEW t, Lives(s, t, w)
  PROVE  /\ Good(t) /\ Managed(t) = Managed(s) /\ w \in t.alive
         /\ t.mon = s.mon /\ t.selmon = s.selmon /\ t.clients = s.clients
<1>1. DOMAIN s = Fields
  BY GoodRecord
<1>2. /\ t.clients = s.clients /\ t.stack = s.stack /\ t.sel = s.sel
      /\ t.mon = s.mon /\ t.tags = s.tags /\ t.mapped = s.mapped
      /\ t.wmstate = s.wmstate /\ t.tagset = s.tagset /\ t.selmon = s.selmon
      /\ t.alive = s.alive \cup {w}
  BY <1>1 DEF Fields, Lives
<1>3. t \in State
  <2>1. s \in State /\ s.alive \cup {w} \subseteq Win
    BY DEF Good, Well, State
  <2> QED BY <2>1, ZenonT(60) DEF State, Lives
<1>4. Well(t)
  BY <1>2, <1>3 DEF Good, Well
<1>5. Consistent(t) /\ AllTagged(t) /\ Managed(t) = Managed(s)
  BY <1>2, SameConsistent DEF Good
<1>6. Good(t)
  BY <1>4, <1>5 DEF Good
<1>7. w \in t.alive
  BY <1>2
<1> QED BY <1>2, <1>5, <1>6, <1>7

\* A client joins its monitor and nobody else moves.
LEMMA ManagingSturdy ==
  ASSUME NEW s, Sturdy(s), NEW w \in Win \ Managed(s), NEW r \in Rects
  PROVE  LET t == Managing(s, w, r)
         IN  /\ Sturdy(t) /\ Managed(t) = Managed(s) \cup {w}
             /\ t.nmons = s.nmons /\ t.selmon = s.selmon
             /\ \A c \in Managed(s) : t.mon[c] = s.mon[c]
<1> DEFINE k == TransientFor[w]
           m == IF k \in Managed(s) THEN s.mon[k] ELSE s.selmon
           slot == FirstSlot(s, m, r)
           b0 == [Base(s) EXCEPT !.alive = Base(s).alive \cup {w}]
           s0 == [s EXCEPT !.alive = s.alive \cup {w}]
           v1 == [s.oldbw EXCEPT ![w] = s.xbw[w]]
           v2 == [s.bw EXCEPT ![w] = borderpx]
           v3 == [s.xbw EXCEPT ![w] = borderpx]
           v4 == [s.geo EXCEPT ![w] = slot]
           s1 == [s0 EXCEPT !.oldbw = v1]
           s2 == [s1 EXCEPT !.bw = v2]
           s3 == [s2 EXCEPT !.xbw = v3]
           s4 == [s3 EXCEPT !.geo = v4]
           t == manage(s4, w)
           w1 == [t.oldbw EXCEPT ![w] = borderpx]
           w2 == [t.bw EXCEPT ![w] = 0]
           t1 == [t EXCEPT !.oldbw = w1]
           t2 == [t1 EXCEPT !.bw = w2]
           f == IF w \in s.fsprop THEN resizeclient(t2, w, t.head[m]) ELSE t
<1>1. /\ Typed(s) /\ Full(s) /\ Good(Base(s)) /\ s.selmon \in Mons(s)
      /\ Mons(s) \subseteq Mon /\ \A c \in Managed(s) : c \in Win /\ s.mon[c] \in Mons(s)
      /\ DOMAIN s = Fields \cup Extent
  BY SturdyFields, StateFields
<1>2. m \in Mons(s) /\ m \in Mon
  BY <1>1
<1>3. slot \in Rects
  BY <1>1, <1>2, FirstSlotRect
<1>4. Managing(s, w, r) = Arranged(f, m)
  <2>1. [s EXCEPT !.alive = @ \cup {w}, !.oldbw[w] = s.xbw[w], !.bw[w] = borderpx,
                  !.xbw[w] = borderpx, !.geo[w] = slot] = s4
    BY <1>1 DEF Fields, Extent
  <2>2. ASSUME NEW z, z = t
        PROVE  [z EXCEPT !.oldbw[w] = borderpx, !.bw[w] = 0] = t2
    BY <2>2
  <2> HIDE DEF slot
  <2>3. Managing(s, w, r) =
          LET y == manage([s EXCEPT !.alive = @ \cup {w}, !.oldbw[w] = s.xbw[w],
                                    !.bw[w] = borderpx, !.xbw[w] = borderpx,
                                    !.geo[w] = slot], w)
          IN  Arranged(IF w \in s.fsprop
                       THEN resizeclient([y EXCEPT !.oldbw[w] = borderpx, !.bw[w] = 0],
                                         w, y.head[m])
                       ELSE y, m)
    BY DEF Managing, slot
  <2> HIDE DEF s4, m
  <2>4. Managing(s, w, r) =
          Arranged(IF w \in s.fsprop
                   THEN resizeclient([t EXCEPT !.oldbw[w] = borderpx, !.bw[w] = 0],
                                     w, t.head[m])
                   ELSE t, m)
    BY <2>1, <2>3
  <2> HIDE DEF t
  <2>5. [t EXCEPT !.oldbw[w] = borderpx, !.bw[w] = 0] = t2
    BY <2>2
  <2> QED BY <2>4, <2>5
<1>5. /\ Good(b0) /\ Managed(b0) = Managed(s) /\ w \in b0.alive
      /\ b0.mon = s.mon /\ b0.selmon = s.selmon
  <2>1. Managed(Base(s)) = Managed(s) /\ Base(s).mon = s.mon /\ Base(s).selmon = s.selmon
    BY BaseReads, BaseFields
  <2>2. Good(Base(s))
    BY <1>1
  <2> DEFINE B == Base(s)
  <2>3. /\ Good(b0) /\ Managed(b0) = Managed(B) /\ w \in b0.alive
        /\ b0.mon = B.mon /\ b0.selmon = B.selmon
    <3> HIDE DEF B
    <3>1. Good(B) /\ w \in Win
      BY <2>2 DEF B
    <3>2. Lives(B, b0, w)
      BY DEF B, Lives
    <3> HIDE DEF b0
    <3> QED BY <3>1, <3>2, AliveGood
  <2> QED BY <2>1, <2>3
<1>6. Typed(s0) /\ Base(s0) = b0 /\ s0.nmons = s.nmons
  <2>1. s0 = Put(s, "alive", s.alive \cup {w}) /\ b0 = Put(Base(s), "alive", s.alive \cup {w})
    BY BaseFields DEF Put
  <2>2. Follows(s, s0, b0)
    BY <1>1, <2>1, PutBase DEF Fields
  <2>3. b0 \in State
    BY <1>5 DEF Good, Well
  <2> HIDE DEF s0, b0
  <2>4. Lies(s, s0, b0)
    BY <1>1, <2>2, <2>3, FollowsLies
  <2> QED BY <2>4 DEF Lies, Extent
<1> HIDE DEF s0, b0, slot
<1>7. /\ v1 \in [Win -> Int] /\ v2 \in [Win -> Int] /\ v3 \in [Win -> Int]
      /\ v4 \in [Win -> Rects]
  <2>1. /\ s.oldbw \in [Win -> Int] /\ s.bw \in [Win -> Int] /\ s.xbw \in [Win -> Int]
        /\ s.geo \in [Win -> Rects] /\ borderpx \in Int /\ w \in Win
    BY <1>1, ExtFields
  <2>2. s.xbw[w] \in Int
    BY <2>1
  <2> QED BY <1>3, <2>1, <2>2
<1> HIDE DEF v1, v2, v3, v4
<1>8. Tuned(s0, s1) /\ Typed(s1)
  BY <1>6, <1>7, TunedPut DEF Tuned
<1> HIDE DEF s1
<1>9. Tuned(s1, s2) /\ Typed(s2)
  BY <1>7, <1>8, TunedPut DEF Tuned
<1> HIDE DEF s2
<1>10. Tuned(s2, s3) /\ Typed(s3)
  BY <1>7, <1>9, TunedPut DEF Tuned
<1> HIDE DEF s3
<1>11. Tuned(s3, s4)
  BY <1>7, <1>10, TunedPut
<1> HIDE DEF s4
<1>12. Typed(s4) /\ Base(s4) = b0 /\ s4.nmons = s.nmons
  BY <1>6, <1>8, <1>9, <1>10, <1>11 DEF Tuned
<1>13. /\ Typed(t) /\ Good(Base(t)) /\ t.nmons = s.nmons
       /\ Managed(t) = Managed(s) \cup {w}
       /\ t.mon = [s.mon EXCEPT ![w] = m] /\ t.selmon = s.selmon
  <2> DEFINE b == manage(b0, w)
  <2>1. Follows(s4, t, b)
    BY <1>12, ManageBase DEF Typed
  <2>2. Good(b) /\ Managed(b) = Managed(s) \cup {w}
    BY <1>5, ManageLemma
  <2>3. b.mon = [s.mon EXCEPT ![w] = m] /\ b.selmon = s.selmon
    BY <1>5, ManageMon
  <2> HIDE DEF b, t
  <2>4. b \in State
    BY <2>2 DEF Good, Well
  <2>5. Lies(s4, t, b)
    BY <1>12, <2>1, <2>4, FollowsLies
  <2>6. Typed(t) /\ Base(t) = b /\ t.nmons = s.nmons
    BY <1>12, <2>5 DEF Lies, Extent
  <2>7. t.mon = b.mon /\ t.selmon = b.selmon /\ Managed(t) = Managed(b)
    BY <2>6, BaseFields, BaseReads
  <2> QED BY <2>2, <2>3, <2>6, <2>7
<1> HIDE DEF t
<1>14. s.mon \in [Win -> Mon] /\ w \in Win /\ \A c \in Managed(s) : c # w
  BY <1>1, StateFields
<1>15. \A c \in Managed(s) : t.mon[c] = s.mon[c]
  BY <1>1, <1>13, <1>14
<1>16. Sturdy(t)
  <2>1. t.mon[w] = m
    BY <1>13, <1>14
  <2>2. Mons(t) = Mons(s)
    BY <1>13 DEF Mons
  <2> HIDE DEF m
  <2>3. Housed(t)
    BY <1>1, <1>2, <1>13, <1>15, <2>1, <2>2 DEF Housed
  <2> QED BY <1>13, <2>3 DEF Sturdy
<1>17. w1 \in [Win -> Int] /\ w2 \in [Win -> Int] /\ t.head[m] \in Rects
  <2>1. t.oldbw \in [Win -> Int] /\ t.bw \in [Win -> Int] /\ t.head \in [Mon -> Rects]
        /\ borderpx \in Int
    BY <1>13, ExtFields
  <2> HIDE DEF m
  <2> QED BY <1>2, <2>1
<1> HIDE DEF w1, w2, m
<1>18. Tuned(t, t1) /\ Typed(t1)
  BY <1>13, <1>17, TunedPut DEF Tuned
<1> HIDE DEF t1
<1>19. Tuned(t1, t2)
  BY <1>17, <1>18, TunedPut
<1> HIDE DEF t2
<1>20. Stays(t, t2) /\ t2.selmon = t.selmon /\ Sturdy(t2)
  BY <1>16, <1>18, <1>19, TunedTrans, TunedStays DEF Stays
<1>21. Stays(t2, resizeclient(t2, w, t.head[m]))
       /\ resizeclient(t2, w, t.head[m]).selmon = t2.selmon
  BY <1>14, <1>17, <1>20, ResizeclientStays
<1>22. Stays(t, resizeclient(t2, w, t.head[m]))
  BY <1>20, <1>21, StaysTrans
<1>23. Stays(t, f) /\ f.selmon = t.selmon
  BY <1>16, <1>20, <1>21, <1>22, StaysSelf
<1> HIDE DEF f
<1>24. Stays(f, Arranged(f, m)) /\ Arranged(f, m).selmon = f.selmon
  BY <1>2, <1>23, StaysFields, ArrangedStays
<1> DEFINE a == Arranged(f, m)
<1> HIDE DEF a
<1>25. Stays(t, a) /\ a.selmon = s.selmon
  BY <1>13, <1>23, <1>24, StaysTrans DEF a
<1>26. Sturdy(a) /\ Managed(a) = Managed(t) /\ a.mon = t.mon /\ a.nmons = t.nmons
  BY <1>25, StaysFields DEF Stays
<1> QED BY <1>4, <1>13, <1>15, <1>25, <1>26 DEF a

\* A client that withdraws leaves the others where they are.
LEMMA ForgottenSturdy ==
  ASSUME NEW s, Sturdy(s), NEW w \in Managed(s)
  PROVE  LET t == Forgotten(s, w)
         IN  /\ Sturdy(t) /\ Managed(t) = Managed(s) \ {w}
             /\ t.nmons = s.nmons /\ t.selmon = s.selmon
             /\ \A c \in Managed(s) \ {w} : t.mon[c] = s.mon[c]
<1> DEFINE m == s.mon[w]
           b0 == XUnmapWindow(Base(s), w)
           s0 == XUnmapWindow(s, w)
           v1 == [s.xbw EXCEPT ![w] = s.oldbw[w]]
           s1 == [s0 EXCEPT !.xbw = v1]
           t == unmanage(s1, w, FALSE)
           w1 == [t.geo EXCEPT ![w] = NoRect]
           w2 == [t.old EXCEPT ![w] = NoRect]
           w3 == [t.sm EXCEPT ![w] = NoRect]
           w4 == [t.bw EXCEPT ![w] = 0]
           w5 == [t.oldbw EXCEPT ![w] = 0]
           t1 == [t EXCEPT !.geo = w1]
           t2 == [t1 EXCEPT !.old = w2]
           t3 == [t2 EXCEPT !.sm = w3]
           t4 == [t3 EXCEPT !.bw = w4]
           t5 == [t4 EXCEPT !.oldbw = w5]
<1>1. /\ Typed(s) /\ Full(s) /\ Good(Base(s)) /\ s.selmon \in Mons(s)
      /\ Mons(s) \subseteq Mon /\ \A c \in Managed(s) : c \in Win /\ s.mon[c] \in Mons(s)
      /\ DOMAIN s = Fields \cup Extent /\ w \in Win /\ m \in Mon
  BY SturdyFields, StateFields
<1>2. Forgotten(s, w) = Arranged(t5, m)
  <2>1. [s EXCEPT !.mapped = @ \ {w}, !.focus = IF @ = w THEN NULL ELSE @,
                  !.xbw[w] = s.oldbw[w]] = s1
    BY <1>1 DEF Fields, Extent, XUnmapWindow
  <2>2. ASSUME NEW z
        PROVE  [z EXCEPT !.geo[w] = NoRect, !.old[w] = NoRect, !.sm[w] = NoRect,
                         !.bw[w] = 0, !.oldbw[w] = 0]
                 = [[[[[z EXCEPT !.geo[w] = NoRect] EXCEPT !.old[w] = NoRect]
                         EXCEPT !.sm[w] = NoRect] EXCEPT !.bw[w] = 0] EXCEPT !.oldbw[w] = 0]
    OBVIOUS
  <2> HIDE DEF s1, m
  <2>3. Forgotten(s, w) =
          Arranged([t EXCEPT !.geo[w] = NoRect, !.old[w] = NoRect, !.sm[w] = NoRect,
                             !.bw[w] = 0, !.oldbw[w] = 0], m)
    BY <2>1 DEF Forgotten, m
  <2> HIDE DEF t
  <2>4. [t EXCEPT !.geo[w] = NoRect, !.old[w] = NoRect, !.sm[w] = NoRect,
                  !.bw[w] = 0, !.oldbw[w] = 0] = t5
    OBVIOUS
  <2> QED BY <2>3, <2>4
<1>3. Keeps(Base(s), b0)
  BY <1>1, XUnmapWindowLemma
<1>4. /\ Good(b0) /\ Managed(b0) = Managed(s) /\ b0.mon = s.mon /\ b0.selmon = s.selmon
  <2>1. Good(b0) /\ Managed(b0) = Managed(Base(s)) /\ b0.mon = Base(s).mon
    BY <1>3, KeepsManaged DEF Keeps
  <2>2. b0.selmon = Base(s).selmon
    BY <1>1, GoodRecord DEF XUnmapWindow, Fields
  <2> QED BY <2>1, <2>2, BaseReads, BaseFields
<1>5. Typed(s0) /\ Base(s0) = b0 /\ s0.nmons = s.nmons
  <2>1. Follows(s, s0, b0)
    BY <1>1, RequestBase
  <2>2. b0 \in State
    BY <1>4 DEF Good, Well
  <2> HIDE DEF s0, b0
  <2>3. Lies(s, s0, b0)
    BY <1>1, <2>1, <2>2, FollowsLies
  <2> QED BY <2>3 DEF Lies, Extent
<1> HIDE DEF s0, b0
<1>6. v1 \in [Win -> Int]
  <2>1. s.xbw \in [Win -> Int] /\ s.oldbw \in [Win -> Int]
    BY <1>1, ExtFields
  <2>2. s.oldbw[w] \in Int
    BY <1>1, <2>1
  <2> QED BY <1>1, <2>1, <2>2
<1> HIDE DEF v1
<1>7. Typed(s1) /\ Base(s1) = b0 /\ s1.nmons = s.nmons
  BY <1>5, <1>6, TunedPut DEF Tuned
<1> HIDE DEF s1
<1>8. /\ Typed(t) /\ Good(Base(t)) /\ t.nmons = s.nmons
      /\ Managed(t) = Managed(s) \ {w}
      /\ t.mon = [s.mon EXCEPT ![w] = 1] /\ t.selmon = s.selmon
  <2> DEFINE b == unmanage(b0, w, FALSE)
  <2>1. Follows(s1, t, b)
    BY <1>7, UnmanageBase DEF Typed
  <2>a. Good(b0) /\ w \in Managed(b0)
    BY <1>4
  <2>b. Good(b) /\ Managed(b) = Managed(b0) \ {w}
    BY <2>a, UnmanageLemma
  <2>c. b.mon = [b0.mon EXCEPT ![w] = 1] /\ b.selmon = b0.selmon
    BY <2>a, UnmanageMon
  <2> HIDE DEF b
  <2>2. Good(b) /\ Managed(b) = Managed(s) \ {w}
    BY <1>4, <2>b
  <2>3. b.mon = [s.mon EXCEPT ![w] = 1] /\ b.selmon = s.selmon
    BY <1>4, <2>c
  <2> HIDE DEF b, t
  <2>4. b \in State
    BY <2>2 DEF Good, Well
  <2>5. Lies(s1, t, b)
    BY <1>7, <2>1, <2>4, FollowsLies
  <2>6. Typed(t) /\ Base(t) = b /\ t.nmons = s.nmons
    BY <1>7, <2>5 DEF Lies, Extent
  <2>7. t.mon = b.mon /\ t.selmon = b.selmon /\ Managed(t) = Managed(b)
    BY <2>6, BaseFields, BaseReads
  <2> QED BY <2>2, <2>3, <2>6, <2>7
<1> HIDE DEF t
<1>9. \A c \in Managed(s) \ {w} : t.mon[c] = s.mon[c]
  <2>1. s.mon \in [Win -> Mon]
    BY <1>1, StateFields
  <2> QED BY <1>1, <1>8, <2>1
<1>10. Sturdy(t)
  <2>1. Mons(t) = Mons(s)
    BY <1>8 DEF Mons
  <2>2. Housed(t)
    BY <1>1, <1>8, <1>9, <2>1 DEF Housed
  <2> QED BY <1>8, <2>2 DEF Sturdy
<1>11. /\ w1 \in [Win -> Rects] /\ w2 \in [Win -> Rects] /\ w3 \in [Win -> Rects]
       /\ w4 \in [Win -> Int] /\ w5 \in [Win -> Int]
  <2>1. /\ t.geo \in [Win -> Rects] /\ t.old \in [Win -> Rects] /\ t.sm \in [Win -> Rects]
        /\ t.bw \in [Win -> Int] /\ t.oldbw \in [Win -> Int]
    BY <1>8, ExtFields
  <2>2. NoRect \in Rects /\ 0 \in Int
    BY RectLemma DEF NoRect
  <2>3. \A S : \A x \in S, z \in [Win -> S] : [z EXCEPT ![w] = x] \in [Win -> S]
    OBVIOUS
  <2> QED BY <2>1, <2>2, <2>3
<1> HIDE DEF w1, w2, w3, w4, w5
<1>12. Tuned(t, t1) /\ Typed(t1)
  BY <1>8, <1>11, TunedPut DEF Tuned
<1> HIDE DEF t1
<1>13. Tuned(t1, t2) /\ Typed(t2)
  BY <1>11, <1>12, TunedPut DEF Tuned
<1> HIDE DEF t2
<1>14. Tuned(t2, t3) /\ Typed(t3)
  BY <1>11, <1>13, TunedPut DEF Tuned
<1> HIDE DEF t3
<1>15. Tuned(t3, t4) /\ Typed(t4)
  BY <1>11, <1>14, TunedPut DEF Tuned
<1> HIDE DEF t4
<1>16. Tuned(t4, t5)
  BY <1>11, <1>15, TunedPut
<1> HIDE DEF t5
<1>17. Stays(t, t5) /\ t5.selmon = t.selmon
  <2>1. Tuned(t, t5)
    BY <1>12, <1>13, <1>14, <1>15, <1>16, TunedTrans
  <2> QED BY <1>10, <2>1, TunedStays
<1> DEFINE a == Arranged(t5, m)
<1>18. Stays(t5, a) /\ a.selmon = t5.selmon
  BY <1>1, <1>17, StaysFields, ArrangedStays
<1> HIDE DEF a, m
<1>19. Stays(t, a) /\ a.selmon = s.selmon
  BY <1>8, <1>17, <1>18, StaysTrans
<1>20. Sturdy(a) /\ Managed(a) = Managed(t) /\ a.mon = t.mon /\ a.nmons = t.nmons
  BY <1>19, StaysFields DEF Stays
<1>21. Forgotten(s, w) = a
  BY <1>2 DEF a
<1> QED BY <1>8, <1>9, <1>19, <1>20, <1>21

\* A client is sent to a monitor that exists.
LEMMA SentSturdy ==
  ASSUME NEW s, Sturdy(s), NEW c \in Managed(s), NEW m \in Mons(s)
  PROVE  LET t == Sent(s, c, m)
         IN  /\ Sturdy(t) /\ Managed(t) = Managed(s)
             /\ t.nmons = s.nmons /\ t.selmon = s.selmon
             /\ t.mon = [s.mon EXCEPT ![c] = m]
<1> DEFINE t == sendmon(s, c, m)
           b == sendmon(Base(s), c, m)
           a == ArrangedAll(t)
<1>1. /\ Typed(s) /\ Full(s) /\ Good(Base(s)) /\ s.selmon \in Mons(s) /\ m \in Mon
      /\ c \in Win /\ s.mon \in [Win -> Mon]
      /\ \A d \in Managed(s) : d \in Win /\ s.mon[d] \in Mons(s)
  BY SturdyFields, StateFields
<1>2. Base(s).mon = s.mon /\ Base(s).selmon = s.selmon /\ Managed(Base(s)) = Managed(s)
  BY BaseFields, BaseReads
<1>3. Follows(s, t, b)
  BY <1>1, SendmonBase
<1>4. Good(b) /\ Managed(b) = Managed(s)
  BY <1>1, <1>2, SendmonLemma DEF Moves
<1>5. b.mon = [s.mon EXCEPT ![c] = m] /\ b.selmon = s.selmon
  BY <1>1, <1>2, SendmonMon
<1> HIDE DEF b, t
<1>6. Typed(t) /\ Base(t) = b /\ t.nmons = s.nmons
  <2>1. b \in State
    BY <1>4 DEF Good, Well
  <2>2. Lies(s, t, b)
    BY <1>1, <1>3, <2>1, FollowsLies
  <2> QED BY <2>2 DEF Lies, Extent
<1>7. t.mon = [s.mon EXCEPT ![c] = m] /\ t.selmon = s.selmon /\ Managed(t) = Managed(s)
  BY <1>4, <1>5, <1>6, BaseFields, BaseReads
<1>8. Sturdy(t)
  <2>1. Mons(t) = Mons(s)
    BY <1>6 DEF Mons
  <2>2. \A d \in Managed(s) : t.mon[d] \in {m, s.mon[d]}
    BY <1>1, <1>7
  <2>3. Housed(t)
    BY <1>1, <1>7, <2>1, <2>2 DEF Housed
  <2> QED BY <1>4, <1>6, <2>3 DEF Sturdy
<1>9. Stays(t, a) /\ a.selmon = t.selmon
  BY <1>8, ArrangedAllStays
<1> HIDE DEF a
<1>10. /\ Sturdy(a) /\ Managed(a) = Managed(s) /\ a.nmons = s.nmons
       /\ a.selmon = s.selmon /\ a.mon = [s.mon EXCEPT ![c] = m]
  BY <1>6, <1>7, <1>9, StaysFields DEF Stays
<1>11. Sent(s, c, m) = IF s.mon[c] = m THEN s ELSE a
  BY DEF Sent, a, t
<1>12. s.mon[c] = m => s.mon = [s.mon EXCEPT ![c] = m]
  BY <1>1
<1> QED BY <1>10, <1>11, <1>12

-----------------------------------------------------------------------------
(* Drags.                                                                  *)

LEMMA LoosenedStays ==
  ASSUME NEW s, Sturdy(s), NEW c, NEW far
  PROVE  Stays(s, Loosened(s, c, far)) /\ Loosened(s, c, far).selmon = s.selmon
  BY FloatedStays, StaysSelf DEF Loosened

LEMMA DraggedStays ==
  ASSUME NEW s, Sturdy(s), NEW c \in Managed(s), NEW r \in Rects
  PROVE  Stays(s, Dragged(s, c, r)) /\ Dragged(s, c, r).selmon = s.selmon
<1>1. c \in Win
  BY SturdyFields
<1>2. Dragged(s, c, r) = IF s.lay[s.selmon] = "float" \/ s.mode[c].float
                         THEN resize(s, c, r, TRUE) ELSE s
  BY DEF Dragged
<1>3. Stays(s, resize(s, c, r, TRUE)) /\ resize(s, c, r, TRUE).selmon = s.selmon
  BY <1>1, ResizeStays
<1> QED BY <1>2, <1>3, StaysSelf

\* A rectangle is moved, or gets another size.
LEMMA ChangedRect ==
  ASSUME NEW g \in Rects, NEW i \in Int, NEW j \in Int
  PROVE  /\ [g EXCEPT !.x = i, !.y = j] \in Rects
         /\ [g EXCEPT !.w = i, !.h = j] \in Rects
  BY DEF Rects

LEMMA MovedByStays ==
  ASSUME NEW s, Sturdy(s), NEW c \in Managed(s), NEW q \in Int \X Int
  PROVE  Stays(s, MovedBy(s, c, q)) /\ MovedBy(s, c, q).selmon = s.selmon
<1> DEFINE far == Far(q[1], s.geo[c].x) \/ Far(q[2], s.geo[c].y)
           t == Loosened(s, c, far)
           r == [t.geo[c] EXCEPT !.x = q[1], !.y = q[2]]
<1>1. MovedBy(s, c, q) = Dragged(t, c, r)
  BY DEF MovedBy
<1>2. Stays(s, t) /\ t.selmon = s.selmon
  BY LoosenedStays
<1> HIDE DEF t
<1>a. Sturdy(t) /\ c \in Managed(t)
  BY <1>2, StaysFields
<1>3. Sturdy(t) /\ c \in Managed(t) /\ c \in Win /\ t.geo \in [Win -> Rects]
  BY <1>a, SturdyFields, ExtFields
<1>4. r \in Rects
  BY <1>3, ChangedRect
<1> HIDE DEF r
<1>5. Stays(t, Dragged(t, c, r)) /\ Dragged(t, c, r).selmon = t.selmon
  BY <1>3, <1>4, DraggedStays
<1> QED BY <1>1, <1>2, <1>5, StaysTrans

LEMMA ResizedByStays ==
  ASSUME NEW s, Sturdy(s), NEW c \in Managed(s), NEW w \in Int, NEW h \in Int
  PROVE  Stays(s, ResizedBy(s, c, w, h)) /\ ResizedBy(s, c, w, h).selmon = s.selmon
<1> DEFINE b == WindowArea(s, s.mon[c])
           within == Inside(Rect(b.x + w, b.y + h, 0, 0), WindowArea(s, s.selmon))
           far == within /\ (Far(w, s.geo[c].w) \/ Far(h, s.geo[c].h))
           t == Loosened(s, c, far)
           r == [t.geo[c] EXCEPT !.w = w, !.h = h]
<1>1. ResizedBy(s, c, w, h) = Dragged(t, c, r)
  BY DEF ResizedBy
<1>2. Stays(s, t) /\ t.selmon = s.selmon
  BY LoosenedStays
<1> HIDE DEF t
<1>a. Sturdy(t) /\ c \in Managed(t)
  BY <1>2, StaysFields
<1>3. Sturdy(t) /\ c \in Managed(t) /\ c \in Win /\ t.geo \in [Win -> Rects]
  BY <1>a, SturdyFields, ExtFields
<1>4. r \in Rects
  BY <1>3, ChangedRect
<1> HIDE DEF r
<1>5. Stays(t, Dragged(t, c, r)) /\ Dragged(t, c, r).selmon = t.selmon
  BY <1>3, <1>4, DraggedStays
<1> QED BY <1>1, <1>2, <1>5, StaysTrans

LEMMA SnappedInt ==
  ASSUME NEW s, Sturdy(s), NEW c \in Managed(s), NEW p \in Int \X Int
  PROVE  Snapped(s, c, p) \in Int \X Int
<1> DEFINE a == WindowArea(s, s.selmon)
           along(x, size, lo, ext) == IF Near(lo, x) THEN lo
                                      ELSE IF Near(lo + ext, x + size) THEN lo + ext - size
                                      ELSE x
<1>1. c \in Win /\ s.selmon \in Mon /\ Typed(s)
  BY SturdyFields
<1>2. /\ a.x \in Int /\ a.y \in Int /\ a.w \in Int /\ a.h \in Int
      /\ s.geo[c].w \in Int /\ s.geo[c].h \in Int /\ s.bw[c] \in Int
  BY <1>1, AreaRect, RectFields, ExtFields
<1>3. WIDTH(s, c) \in Int /\ HEIGHT(s, c) \in Int
  <2>1. \A i, j \in Int : i + 2 * j \in Int
    OBVIOUS
  <2> QED BY <1>2, <2>1 DEF WIDTH, HEIGHT
<1> HIDE DEF a
<1>4. \A x, size, lo, ext \in Int : along(x, size, lo, ext) \in Int
  <2>1. \A size, lo, ext \in Int : lo + ext - size \in Int
    OBVIOUS
  <2> QED BY <2>1
<1>5. Snapped(s, c, p) = <<along(p[1], WIDTH(s, c), a.x, a.w), along(p[2], HEIGHT(s, c), a.y, a.h)>>
  BY DEF Snapped, a
<1> HIDE DEF along
<1>6. p[1] \in Int /\ p[2] \in Int
  OBVIOUS
<1>7. /\ along(p[1], WIDTH(s, c), a.x, a.w) \in Int
      /\ along(p[2], HEIGHT(s, c), a.y, a.h) \in Int
  BY <1>2, <1>3, <1>4, <1>6
<1> QED BY <1>5, <1>7

LEMMA HiddenAwayStays ==
  ASSUME NEW s, Sturdy(s), NEW c \in Managed(s)
  PROVE  Stays(s, HiddenAway(s, c))
<1> DEFINE h == hidewin(s, c)
           f == focus(h, NULL)
<1>1. s.mon[c] \in Mon /\ Stays(s, h) /\ Sturdy(h)
  BY SturdyFields, HideStays DEF Stays
<1>2. HiddenAway(s, c) = Arranged(f, s.mon[c])
  BY DEF HiddenAway
<1> HIDE DEF h
<1>3. Stays(h, f) /\ Sturdy(f)
  BY <1>1, FocusStays DEF Stays
<1> HIDE DEF f
<1>4. Stays(f, Arranged(f, s.mon[c]))
  BY <1>1, <1>3, ArrangedStays
<1> QED BY <1>1, <1>2, <1>3, <1>4, StaysTrans

LEMMA ShownAndSelectedStays ==
  ASSUME NEW s, Sturdy(s), NEW c \in Managed(s)
  PROVE  Stays(s, ShownAndSelected(s, c))
<1> DEFINE w == showwin(s, c)
           a == Revealed(s, c)
           f == focus(a, c)
           r == restack(f, f.selmon)
<1>1. s.mon[c] \in Mon /\ Stays(s, s) /\ Stays(s, w) /\ Sturdy(w)
  BY SturdyFields, StaysSelf, HideStays DEF Stays
<1>2. ShownAndSelected(s, c) = r
  BY DEF ShownAndSelected
<1>3. Stays(s, a)
  <2> HIDE DEF w
  <2>1. Stays(w, Arranged(w, s.mon[c]))
    BY <1>1, ArrangedStays
  <2>2. Stays(s, Arranged(w, s.mon[c]))
    BY <1>1, <2>1, StaysTrans
  <2> QED BY <1>1, <2>2 DEF Revealed, w
<1> HIDE DEF w, a
<1>4. c \in Managed(a) \cup {NULL} /\ Sturdy(a)
  BY <1>3, StaysFields
<1>5. Stays(a, f)
  BY <1>4, FocusStays
<1> HIDE DEF f
<1>6. Stays(f, r)
  BY <1>5, StaysFields, RestackStays
<1> QED BY <1>2, <1>3, <1>5, <1>6, StaysTrans

LEMMA MinimizeclientStays ==
  ASSUME NEW s, Sturdy(s), NEW c \in Managed(s)
  PROVE  Stays(s, minimizeclient(s, c))
  BY HiddenAwayStays, ShownAndSelectedStays DEF minimizeclient

-----------------------------------------------------------------------------
(* Where a window that is dropped goes.                                    *)

\* Among finitely many numbers one is greatest.
LEMMA ArgMax ==
  ASSUME NEW n \in Nat \ {0}, NEW a \in [1 .. n -> Int]
  PROVE  \E m \in 1 .. n : \A j \in 1 .. n : a[j] <= a[m]
<1> DEFINE Has(k) == \E m \in 1 .. k : \A j \in 1 .. k : a[j] <= a[m]
           S == {k \in 0 .. n : k = 0 \/ Has(k)}
<1>1. 0 \in S
  OBVIOUS
<1>2. ASSUME NEW k \in 0 .. (n - 1), k \in S PROVE k + 1 \in S
  <2>1. k + 1 \in 1 .. n /\ k + 1 \in 0 .. n /\ \A j \in 1 .. k : j \in 1 .. n /\ j \in 1 .. k + 1
    OBVIOUS
  <2>2. \A j \in 1 .. k + 1 : j = k + 1 \/ j \in 1 .. k
    OBVIOUS
  <2>3. CASE k = 0
    <3>1. Has(1)
      OBVIOUS
    <3> QED BY <2>1, <2>3, <3>1
  <2>4. CASE Has(k)
    <3>1. PICK m \in 1 .. k : \A j \in 1 .. k : a[j] <= a[m]
      BY <2>4
    <3>2. a[m] \in Int /\ a[k + 1] \in Int /\ \A j \in 1 .. k : a[j] \in Int
      BY <2>1
    <3>3. CASE a[k + 1] <= a[m]
      <4>1. \A j \in 1 .. k + 1 : a[j] <= a[m]
        BY <2>2, <3>1, <3>3
      <4>2. m \in 1 .. k + 1
        BY <2>1
      <4> QED BY <2>1, <4>1, <4>2
    <3>4. CASE a[m] < a[k + 1]
      <4>1. \A j \in 1 .. k : a[j] <= a[k + 1]
        BY <3>1, <3>2, <3>4
      <4>2. \A j \in 1 .. k + 1 : a[j] <= a[k + 1]
        BY <2>2, <3>2, <4>1
      <4>3. k + 1 \in 1 .. k + 1
        OBVIOUS
      <4> QED BY <2>1, <4>2, <4>3
    <3> QED BY <3>2, <3>3, <3>4
  <2> QED BY <1>2, <2>3, <2>4
<1> HIDE DEF S
<1>3. n \in Nat /\ n \in 0 .. n
  OBVIOUS
<1>4. \A k \in 0 .. n : k \in S
  BY <1>1, <1>2, <1>3, UpTo
<1> QED BY <1>3, <1>4 DEF S

LEMMA OverlapNat ==
  ASSUME NEW a \in Rects, NEW b \in Rects
  PROVE  Overlap(a, b) \in Nat
<1> DEFINE u == AtMost(a.x + a.w, b.x + b.w) - AtLeast(a.x, b.x)
           v == AtMost(a.y + a.h, b.y + b.h) - AtLeast(a.y, b.y)
           p == AtLeast(u, 0)
           q == AtLeast(v, 0)
<1>1. /\ a.x \in Int /\ a.y \in Int /\ a.w \in Int /\ a.h \in Int
      /\ b.x \in Int /\ b.y \in Int /\ b.w \in Int /\ b.h \in Int
  BY RectFields
<1>2. \A i, j \in Int : AtMost(i, j) \in Int /\ AtLeast(i, j) \in Int /\ i + j \in Int /\ i - j \in Int
  BY DEF AtMost, AtLeast
<1>3. u \in Int /\ v \in Int
  BY <1>1, <1>2
<1>4. Overlap(a, b) = p * q
  BY DEF Overlap
<1> HIDE DEF u, v
<1>5. p \in Nat /\ q \in Nat
  BY <1>3 DEF AtLeast
<1> HIDE DEF p, q
<1>6. p * q \in Nat
  BY <1>5
<1> QED BY <1>4, <1>6

\* recttomon returns a monitor that exists, and most of the rectangle is there.
LEMMA RecttomonLemma ==
  ASSUME NEW s, Sturdy(s), NEW r \in Rects
  PROVE  LET m == recttomon(s, r)
         IN  /\ m \in Mons(s)
             /\ \A n \in Mons(s) :
                  Overlap(r, WindowArea(s, n)) <= Overlap(r, WindowArea(s, m))
<1> DEFINE area(n) == Overlap(r, WindowArea(s, n))
           N == s.nmons
           best == {m \in 1 .. N : \A n \in 1 .. N : area(n) <= area(m)}
           k == Min(best)
           a == [n \in 1 .. N |-> area(n)]
<1>1. N \in Nat \ {0} /\ 1 .. N \subseteq Mon /\ s.selmon \in 1 .. N /\ Typed(s)
  BY SturdyFields DEF Mons, Mon
<1>2. \A n \in 1 .. N : area(n) \in Nat
  BY <1>1, AreaRect, OverlapNat
<1> HIDE DEF area
<1>3. best # {}
  <2>1. a \in [1 .. N -> Int] /\ \A n \in 1 .. N : a[n] = area(n)
    BY <1>2
  <2> HIDE DEF a, N
  <2>2. \E m \in 1 .. N : \A n \in 1 .. N : a[n] <= a[m]
    BY <1>1, <2>1, ArgMax
  <2> QED BY <2>1, <2>2
<1>4. best \in SUBSET Nat
  BY <1>1
<1>5. k \in best
  <2> HIDE DEF best
  <2>1. \E x \in best : \A y \in best : x <= y
    BY <1>3, <1>4, LeastLemma
  <2> QED BY <2>1 DEF Min
<1>6. k \in 1 .. N /\ \A n \in 1 .. N : area(n) <= area(k)
  BY <1>5
<1>7. recttomon(s, r) = IF area(k) > 0 THEN k ELSE s.selmon
  BY DEF recttomon, area
<1> HIDE DEF k
<1>8. CASE area(k) > 0
  BY <1>6, <1>7, <1>8 DEF Mons, area
<1>9. CASE ~(area(k) > 0)
  <2>1. \A n \in 1 .. N : area(n) <= area(s.selmon)
    <3> SUFFICES ASSUME NEW n \in 1 .. N PROVE area(n) <= area(s.selmon)
      OBVIOUS
    <3>1. area(n) <= area(k) /\ area(n) \in Nat /\ area(k) \in Nat /\ area(s.selmon) \in Nat
      BY <1>1, <1>2, <1>6
    <3> QED BY <1>9, <3>1
  <2> QED BY <1>1, <1>7, <1>9, <2>1 DEF Mons, area
<1> QED BY <1>8, <1>9

\* The second half of focus(c) leaves the other monitors' stacks alone.
LEMMA SelectStack ==
  ASSUME NEW s, Good(s), NEW c \in Managed(s) \cup {NULL}, NEW m,
         c # NULL => s.mon[c] # m
  PROVE  Select(s, c).stack[m] = s.stack[m]
<1>1. DOMAIN s = Fields
  BY GoodRecord
<1>2. CASE c = NULL
  BY <1>1, <1>2 DEF Select, FocusRoot, Fields
<1>3. CASE c # NULL
  <2> DEFINE k == s.mon[c]
             u == IF c \in s.urgent THEN seturgent(s, c, FALSE) ELSE s
             v == [u EXCEPT !.selmon = k]
             d == detachstack(v, c)
             t == attachstack(d, c)
             f == setfocus(t, c)
  <2>1. Select(s, c) = [f EXCEPT !.sel[k] = c]
    BY <1>3 DEF Select
  <2>2. DOMAIN u = Fields /\ u.stack = s.stack /\ u.mon = s.mon
    BY <1>1 DEF seturgent, Fields
  <2> HIDE DEF u
  <2>3. DOMAIN v = Fields /\ v.stack = s.stack /\ v.mon = s.mon
    BY <2>2 DEF Fields
  <2> HIDE DEF v
  <2>4. DOMAIN d = Fields /\ d.mon = s.mon /\ d.stack[m] = s.stack[m]
    BY <1>3, <2>3 DEF detachstack, Fields
  <2> HIDE DEF d
  <2>5. DOMAIN t = Fields /\ t.stack[m] = s.stack[m]
    BY <1>3, <2>4 DEF attachstack, Fields
  <2> HIDE DEF t
  <2>6. DOMAIN f = Fields /\ f.stack[m] = s.stack[m]
    BY <2>5 DEF setfocus, XSetInputFocus, Fields
  <2> HIDE DEF f
  <2> QED BY <2>1, <2>6 DEF Fields
<1> QED BY <1>2, <1>3

\* focus(NULL) is about the selected monitor: a client of another one stays
\* as it is.
LEMMA FocusElsewhere ==
  ASSUME NEW s, Good(s), NEW c \in Managed(s), s.mon[c] # s.selmon
  PROVE  LET t == focus(s, NULL)
         IN  /\ t.stack[s.mon[c]] = s.stack[s.mon[c]]
             /\ AsBefore(s, t, c) /\ SameViews(s, t)
<1> DEFINE g == FocusTarget(s, NULL)
           l == LeaveSelected(s, g)
           t == Select(l, g)
           x == s.sel[s.selmon]
<1>1. focus(s, NULL) = t
  BY DEF focus
<1>2. g \in Managed(s) \cup {NULL}
  BY FocusTargetLemma
<1>3. g # NULL => s.mon[g] = s.selmon
  <2> DEFINE S == ShownOn(s, s.selmon)
             seq == s.stack[s.selmon]
  <2>1. s.selmon \in Mon /\ seq \in Seq(Win)
    BY DEF Good, Well, State
  <2>2. g = FirstIn(seq, S)
    BY DEF FocusTarget
  <2>3. S \subseteq Range(s.clients[s.selmon])
    BY DEF ShownOn, VisibleOn
  <2>4. Len(seq) \in Nat /\ DOMAIN seq = 1 .. Len(seq)
    BY <2>1
  <2> HIDE DEF S, seq, g
  <2>5. FirstIn(seq, S) \in S \cup {NULL}
    BY <2>4, FirstFromLemma DEF FirstIn
  <2>6. g # NULL => g \in Range(s.clients[s.selmon])
    BY <2>2, <2>3, <2>5
  <2> QED BY <2>1, <2>6 DEF Good, Consistent
<1> HIDE DEF g
<1>4. Steps(s, l) /\ Unmoved(s, l)
  BY <1>2, LeaveSelectedSteps
<1>5. AsBefore(s, l, c)
  <2>1. s.selmon \in Mon /\ c \in Win /\ x \in Managed(s) \cup {NULL} /\ c # x
    <3>1. s.selmon \in Mon /\ c \in Win /\ c # NULL
      BY ManagedLemma DEF Good, Well, State
    <3>2. x \in Range(s.clients[s.selmon]) \cup {NULL}
      BY <3>1 DEF Good, Consistent
    <3>3. x # NULL => x \in Managed(s) /\ s.mon[x] = s.selmon
      BY <3>1, <3>2 DEF Good, Consistent, Managed
    <3> QED BY <3>1, <3>3
  <2> DEFINE h == hidewin(s, x)
             p == IF g = NULL THEN h ELSE arrange(h, h.mon[g])
  <2>2. l = IF x \in {NULL, g} \/ ~s.hidsel[s.selmon] THEN s
            ELSE [p EXCEPT !.hidsel[s.selmon] = FALSE]
    BY DEF LeaveSelected
  <2>3. Tidy({x}, s, h) /\ DOMAIN h = Fields
    BY <2>1, HidewinSteps, StepsGood, GoodRecord
  <2>4. AsBefore(s, h, c)
    BY <2>1, <2>3 DEF Tidy
  <2> HIDE DEF h
  <2>5. Aside(h, arrange(h, h.mon[g]))
    BY <2>3, AsideLemma
  <2>6. /\ p.mapped = h.mapped /\ p.strip = h.strip /\ p.wmstate = h.wmstate
        /\ DOMAIN p = Fields
    BY <2>3, <2>5 DEF Aside
  <2> HIDE DEF p, l, x
  <2>7. AsBefore(s, [p EXCEPT !.hidsel[s.selmon] = FALSE], c)
    BY <2>4, <2>6 DEF AsBefore, Fields
  <2>8. AsBefore(s, s, c)
    BY DEF AsBefore
  <2> QED BY <2>2, <2>7, <2>8
<1>6. Good(l) /\ g \in Managed(l) \cup {NULL}
  BY <1>2, <1>4, StepsGood
<1>7. l.stack = s.stack /\ l.mon = s.mon /\ SameViews(s, l)
  BY <1>4 DEF Unmoved, SameViews
<1> HIDE DEF l
<1>8. SameViews(l, t) /\ Aside(l, t)
  BY <1>6, SelectChoice
<1>9. t.stack[s.mon[c]] = l.stack[s.mon[c]]
  BY <1>3, <1>6, <1>7, SelectStack
<1> HIDE DEF t
<1>10. AsBefore(s, t, c)
  BY <1>5, <1>8 DEF AsBefore, Aside
<1>11. SameViews(s, t)
  BY <1>7, <1>8 DEF SameViews
<1> QED BY <1>1, <1>7, <1>9, <1>10, <1>11

\* sendmon puts its client on top of the stack of its new monitor, in view.
LEMMA ShiftedOnTop ==
  ASSUME NEW s, Good(s), NEW c \in Managed(s), NEW m \in Mon
  PROVE  LET t == Shifted(s, c, m)
         IN  /\ t.stack[m][1] = c /\ t.wmstate = s.wmstate
             /\ ISVISIBLE(t, c)
<1> DEFINE u == unfocus(s, c, TRUE)
           d == detachstack(detach(u, c), c)
           e == [d EXCEPT !.mon[c] = m, !.tags[c] = View(d, m)]
           a == attach(e, c)
           t == attachstack(a, c)
<1>1. Shifted(s, c, m) = t
  BY DEF Shifted
<1>2. c \in Win /\ c # NULL
  BY ManagedLemma
<1>3. Good(u) /\ Managed(u) = Managed(s) /\ u.wmstate = s.wmstate
  <2>1. Good(u) /\ Managed(u) = Managed(s)
    BY UnfocusLemma, KeepsManaged
  <2>2. Aside(s, u)
    BY GoodRecord, AsideLemma
  <2> QED BY <2>1, <2>2 DEF Aside
<1> HIDE DEF u
<1>4. Good(d) /\ d.wmstate = s.wmstate
  <2> DEFINE v == detach(u, c)
  <2>1. DOMAIN u = Fields
    BY <1>3, GoodRecord
  <2>2. Aside(u, v)
    BY <2>1, AsideLemma
  <2> HIDE DEF v
  <2>a. DOMAIN v = Fields
    BY <2>2 DEF Aside
  <2>3. Aside(v, detachstack(v, c))
    BY <2>a, AsideLemma
  <2>4. d.wmstate = s.wmstate
    BY <1>3, <2>2, <2>3 DEF Aside, v
  <2> QED BY <1>3, <2>4, RemoveLemma
<1> HIDE DEF d
<1>5. /\ DOMAIN d = Fields /\ View(d, m) # {} /\ View(d, m) \subseteq Tag
      /\ d.mon \in [Win -> Mon] /\ d.tags \in [Win -> SUBSET Tag]
      /\ d.stack \in [Mon -> Seq(Win)]
  <2>1. d \in State /\ DOMAIN d = Fields /\ \A k \in Mon, i \in {0, 1} : d.tagset[k][i] # {}
    BY <1>4, GoodRecord DEF Good, Well
  <2>2. /\ d.mon \in [Win -> Mon] /\ d.tags \in [Win -> SUBSET Tag]
        /\ d.stack \in [Mon -> Seq(Win)] /\ d.seltags[m] \in {0, 1}
        /\ d.tagset[m] \in [{0, 1} -> SUBSET Tag]
    BY <2>1 DEF State
  <2>3. View(d, m) # {} /\ View(d, m) \subseteq Tag
    BY <2>1, <2>2 DEF View
  <2> QED BY <2>1, <2>2, <2>3
<1>6. /\ DOMAIN e = Fields /\ e.mon[c] = m /\ e.tags[c] = View(d, m)
      /\ e.stack = d.stack /\ e.wmstate = d.wmstate
      /\ e.tagset = d.tagset /\ e.seltags = d.seltags
  BY <1>2, <1>5 DEF Fields
<1> HIDE DEF e
<1>7. /\ DOMAIN a = Fields /\ a.mon = e.mon /\ a.tags = e.tags
      /\ a.stack = e.stack /\ a.wmstate = e.wmstate
      /\ a.tagset = e.tagset /\ a.seltags = e.seltags
  BY <1>6 DEF attach, Fields
<1> HIDE DEF a
<1>8. /\ t.stack = [a.stack EXCEPT ![a.mon[c]] = Push(c, a.stack[a.mon[c]])]
      /\ t.mon = a.mon /\ t.tags = a.tags /\ t.wmstate = a.wmstate
      /\ t.tagset = a.tagset /\ t.seltags = a.seltags
  BY <1>7 DEF attachstack, Fields
<1> HIDE DEF t
<1>9. t.stack[m] = Push(c, d.stack[m])
  BY <1>5, <1>6, <1>7, <1>8
<1>10. t.stack[m][1] = c
  <2>1. Len(d.stack[m]) \in Nat
    BY <1>5
  <2> QED BY <1>9, <2>1 DEF Push
<1>11. ISVISIBLE(t, c)
  <2>1. t.mon[c] = m /\ t.tags[c] = View(d, m)
    BY <1>6, <1>7, <1>8
  <2>2. View(t, m) = View(d, m)
    BY <1>6, <1>7, <1>8 DEF View
  <2> QED BY <1>5, <2>1, <2>2 DEF ISVISIBLE
<1> QED BY <1>1, <1>4, <1>6, <1>7, <1>8, <1>10, <1>11

\* A search finds the head of the list if it may stop there.
LEMMA FirstInHead ==
  ASSUME NEW seq \in Seq(Win), NEW S, NEW c \in Range(seq), seq[1] = c, c \in S
  PROVE  FirstIn(seq, S) = c
<1> DEFINE I == {i \in 1 .. Len(seq) : i >= 1 /\ seq[i] \in S}
<1>1. Len(seq) \in Nat /\ Len(seq) >= 1
  BY DEF Range
<1>2. 1 \in I /\ \A j \in I : 1 <= j
  BY <1>1
<1>3. \A i \in I : (\A j \in I : i <= j) => i = 1
  BY <1>1, <1>2
<1>4. FirstIn(seq, S) = IF I = {} THEN NULL ELSE seq[CHOOSE i \in I : \A j \in I : i <= j]
  BY DEF FirstIn, FirstFrom
<1> HIDE DEF I
<1>5. (CHOOSE i \in I : \A j \in I : i <= j) = 1
  BY <1>2, <1>3
<1> QED BY <1>2, <1>4, <1>5

\* When the monitor that a client was sent to is selected, and focus(NULL)
\* called, the client is selected, unless it is hidden.
LEMMA DropChoice ==
  ASSUME NEW s, Good(s), NEW c \in Managed(s), s.mon[c] = s.selmon,
         NEW m \in Mon, m # s.selmon, ~HIDDEN(s, c),
         NEW u, u = [sendmon(s, c, m) EXCEPT !.selmon = m]
  PROVE  focus(u, NULL).sel[m] = c
<1> DEFINE h == Shifted(s, c, m)
           d == focus(h, NULL)
           l == LeaveSelected(u, c)
<1>1. sendmon(s, c, m) = d
  BY SendmonShifted
<1>2. Good(h) /\ Managed(h) = Managed(s)
  <2>1. Moves(s, h)
    BY ShiftedLemma
  <2> HIDE DEF h
  <2> QED BY <2>1 DEF Moves
<1>3. h.mon[c] = m /\ h.selmon = s.selmon /\ c \in Win /\ c # NULL
  <2>1. h.mon = [s.mon EXCEPT ![c] = m] /\ h.selmon = s.selmon
    BY ShiftedMon
  <2>2. s.mon \in [Win -> Mon] /\ c \in Win /\ c # NULL
    BY ManagedLemma DEF Good, Well, State
  <2> QED BY <2>1, <2>2
<1>4. h.stack[m][1] = c /\ h.wmstate = s.wmstate /\ ISVISIBLE(h, c)
  BY ShiftedOnTop
<1> HIDE DEF h
<1>5. d.stack[m] = h.stack[m] /\ AsBefore(h, d, c) /\ SameViews(h, d)
  BY <1>2, <1>3, FocusElsewhere
<1>6. Good(d) /\ Managed(d) = Managed(h)
  BY <1>2, FocusLemma, KeepsManaged
<1> HIDE DEF d
<1>7. /\ Good(u) /\ Managed(u) = Managed(d) /\ u.selmon = m
      /\ u.stack = d.stack /\ u.wmstate = d.wmstate /\ SameViews(d, u)
  <2>1. u = [d EXCEPT !.selmon = m] /\ DOMAIN d = Fields
    BY <1>1, <1>6, GoodRecord
  <2>2. Keeps(d, [d EXCEPT !.selmon = m])
    BY <1>6, SelmonLemma
  <2>3. Good(u) /\ Managed(u) = Managed(d)
    BY <2>1, <2>2, KeepsManaged
  <2> QED BY <2>1, <2>3 DEF SameViews, Fields
<1>8. SameViews(h, u)
  BY <1>5, <1>7 DEF SameViews
<1>9. c \in ShownOn(u, m)
  <2>1. ISVISIBLE(u, c) /\ u.mon[c] = m
    BY <1>3, <1>4, <1>8, SameViewsVisible DEF SameViews
  <2>2. u.wmstate[c] = s.wmstate[c]
    BY <1>4, <1>5, <1>7 DEF AsBefore
  <2>3. c \in Managed(u)
    BY <1>2, <1>6, <1>7
  <2>4. c \in Range(u.clients[m])
    BY <1>7, <2>1, <2>3, ManagedLemma
  <2> QED BY <2>1, <2>2, <2>4 DEF ShownOn, VisibleOn, HIDDEN
<1>10. FocusTarget(u, NULL) = c
  <2>1. u.stack[m] \in Seq(Win) /\ c \in Range(u.stack[m]) /\ u.stack[m][1] = c
    <3>1. c \in Range(u.clients[m])
      BY <1>9 DEF ShownOn, VisibleOn
    <3>2. Range(u.clients[m]) = Range(u.stack[m]) /\ u.stack \in [Mon -> Seq(Win)]
      BY <1>7 DEF Good, Consistent, Well, State
    <3> QED BY <1>4, <1>5, <1>7, <3>1, <3>2
  <2> DEFINE q == u.stack[m]
             S == ShownOn(u, m)
  <2>2. q \in Seq(Win) /\ c \in Range(q) /\ q[1] = c /\ c \in S
    BY <1>9, <2>1
  <2>3. FocusTarget(u, NULL) = FirstIn(q, S)
    BY <1>7 DEF FocusTarget
  <2> HIDE DEF q, S
  <2>4. FirstIn(q, S) = c
    BY <2>2, FirstInHead
  <2> QED BY <2>3, <2>4
<1>11. focus(u, NULL) = Select(l, c)
  BY <1>10 DEF focus
<1>12. c \in Managed(u) /\ u.mon[c] = m
  BY <1>2, <1>3, <1>6, <1>7, <1>8 DEF SameViews
<1>13. Steps(u, l) /\ Unmoved(u, l)
  BY <1>7, <1>12, LeaveSelectedSteps
<1>14. Good(l) /\ c \in Managed(l) /\ l.mon[c] = m
  BY <1>12, <1>13, StepsGood DEF Unmoved, SameViews
<1> HIDE DEF l
<1>15. Select(l, c).selmon = m /\ Select(l, c).sel[Select(l, c).selmon] = c
  BY <1>3, <1>14, SelectChoice
<1> QED BY <1>11, <1>15

\* The end of a drag.
LEMMA DroppedSturdy ==
  ASSUME NEW s, Sturdy(s), NEW c \in Managed(s), s.mon[c] = s.selmon
  PROVE  LET t == Dropped(s, c)
             on(n) == Overlap(s.geo[c], WindowArea(s, n))
         IN  /\ Sturdy(t) /\ t.nmons = s.nmons
             /\ t.selmon = t.mon[c]
             /\ \A n \in Mons(s) : on(n) <= on(t.mon[c])
             /\ t.mon[c] # s.mon[c] /\ ~HIDDEN(s, c) => t.sel[t.selmon] = c
<1> DEFINE m == recttomon(s, s.geo[c])
           on(n) == Overlap(s.geo[c], WindowArea(s, n))
           d == Sent(s, c, m)
           u == [d EXCEPT !.selmon = m]
           t == focus(u, NULL)
           bs == Base(s)
           bu == [sendmon(bs, c, m) EXCEPT !.selmon = m]
<1>1. /\ Typed(s) /\ Full(s) /\ Good(bs) /\ c \in Win /\ s.mon \in [Win -> Mon]
      /\ s.geo[c] \in Rects
  BY SturdyFields, StateFields, ExtFields
<1>2. m \in Mons(s) /\ m \in Mon /\ \A n \in Mons(s) : on(n) <= on(m)
  BY <1>1, RecttomonLemma, SturdyFields
<1>3. Dropped(s, c) = IF m = s.selmon THEN s ELSE t
  BY DEF Dropped
<1> HIDE DEF m, on
<1>4. CASE m = s.selmon
  BY <1>2, <1>3, <1>4 DEF on
<1>5. CASE m # s.selmon
  <2>1. /\ Sturdy(d) /\ Managed(d) = Managed(s) /\ d.nmons = s.nmons
        /\ d.mon = [s.mon EXCEPT ![c] = m]
    BY <1>2, SentSturdy
  <2>2. Base(d) = sendmon(bs, c, m) /\ Full(d)
    <3> DEFINE a == sendmon(s, c, m)
    <3>1. d = ArrangedAll(a)
      BY <1>5 DEF Sent
    <3>2. Follows(s, a, sendmon(bs, c, m))
      BY <1>1, SendmonBase
    <3>3. Typed(a)
      <4>1. sendmon(bs, c, m) \in State
        <5>1. c \in Managed(bs)
          BY BaseReads
        <5> HIDE DEF bs
        <5>2. Moves(bs, sendmon(bs, c, m))
          BY <1>1, <1>2, <5>1, SendmonLemma
        <5> QED BY <5>2 DEF Moves, Good, Well
      <4> QED BY <1>1, <3>2, <4>1, FollowsLies DEF Lies
    <3> HIDE DEF a
    <3>4. Laid(a, ArrangedAll(a))
      BY <3>3, ArrangedAllLaid
    <3> HIDE DEF d
    <3> QED BY <2>1, <3>1, <3>2, <3>4, SturdyFields DEF Laid, Lies, Follows
  <2> HIDE DEF d
  <2>3. m \in Mons(d)
    BY <1>2, <2>1 DEF Mons
  <2>4. Stays(d, u) /\ u.selmon = m /\ Sturdy(u)
    BY <2>1, <2>3, SelmonStays DEF Stays
  <2>5. Base(u) = bu /\ Full(u)
    <3>1. Follows(d, u, [Base(d) EXCEPT !.selmon = m])
      BY <2>2, SetBase
    <3> QED BY <2>2, <3>1 DEF Follows, SameExtent
  <2> HIDE DEF u
  <2>6. Stays(u, t) /\ t.selmon = m
    BY <2>4, FocusStays
  <2>7. Base(t) = focus(bu, NULL)
    BY <2>5, FocusBase DEF Follows
  <2> HIDE DEF t
  <2>8. Sturdy(t) /\ t.nmons = s.nmons /\ t.mon = [s.mon EXCEPT ![c] = m]
    BY <2>1, <2>4, <2>6, StaysFields DEF Stays
  <2>9. t.mon[c] = m
    BY <1>1, <2>8
  <2>10. ~HIDDEN(s, c) => t.sel[m] = c
    <3>1. /\ c \in Managed(bs) /\ bs.mon[c] = bs.selmon /\ m # bs.selmon
          /\ HIDDEN(bs, c) = HIDDEN(s, c)
      BY <1>5, BaseReads, BaseFields
    <3> HIDE DEF bs
    <3>2. ~HIDDEN(bs, c) => focus(bu, NULL).sel[m] = c
      BY <1>1, <1>2, <3>1, DropChoice
    <3> HIDE DEF bu
    <3>3. t.sel = focus(bu, NULL).sel
      BY <2>7, BaseFields
    <3> QED BY <3>1, <3>2, <3>3
  <2> QED BY <1>2, <1>3, <1>5, <2>6, <2>8, <2>9, <2>10 DEF on
<1> QED BY <1>4, <1>5

-----------------------------------------------------------------------------
(* Monitors that come and go.                                               *)

\* From the types of the fields to the type of the state.
LEMMA TypedBuild ==
  ASSUME NEW t, Full(t),
         t.clients \in [Mon -> Seq(Win)], t.stack \in [Mon -> Seq(Win)],
         t.sel \in [Mon -> WinOrNull], t.hidsel \in [Mon -> BOOLEAN],
         t.tagset \in [Mon -> [{0, 1} -> SUBSET Tag]],
         t.seltags \in [Mon -> {0, 1}], t.tiling \in [Mon -> BOOLEAN],
         t.mon \in [Win -> Mon], t.tags \in [Win -> SUBSET Tag],
         t.urgent \in SUBSET Win, t.mode \in [Win -> Modes], t.selmon \in Mon,
         t.alive \in SUBSET Win, t.mapped \in SUBSET Win,
         t.wmstate \in [Win -> {"Withdrawn", "Normal", "Iconic"}],
         t.strip \in SUBSET Win, t.hint \in SUBSET Win, t.fsprop \in SUBSET Win,
         t.focus \in WinOrNull, t.active \in WinOrNull, t.list \in SUBSET Win,
         t.enterq \in WinOrNull,
         t.head \in [Mon -> Rects], t.bar \in [Mon -> BOOLEAN],
         t.lay \in [Mon -> {"tile", "monocle", "float"}],
         t.gap \in [Mon -> 0 .. MaxGap], t.nmaster \in [Mon -> Nat],
         t.mfact \in [Mon -> Nat], t.geo \in [Win -> Rects],
         t.old \in [Win -> Rects], t.sm \in [Win -> Rects],
         t.bw \in [Win -> Int], t.oldbw \in [Win -> Int], t.xbw \in [Win -> Int],
         t.nmons \in Mon, t.screen \in Int \X Int
  PROVE  Typed(t)
<1> DEFINE b == Base(t)
           g == Ext(t)
<1>1. b \in State
  <2> DEFINE r == [clients |-> t.clients, stack |-> t.stack, sel |-> t.sel,
             hidsel |-> t.hidsel, tagset |-> t.tagset, seltags |-> t.seltags,
             tiling |-> t.tiling, mon |-> t.mon, tags |-> t.tags,
             urgent |-> t.urgent, mode |-> t.mode, selmon |-> t.selmon,
             alive |-> t.alive, mapped |-> t.mapped, wmstate |-> t.wmstate,
             strip |-> t.strip, hint |-> t.hint, fsprop |-> t.fsprop,
             focus |-> t.focus, active |-> t.active, list |-> t.list,
             enterq |-> t.enterq]
  <2>1. r \in State
    BY DEF State
  <2>2. r = [f \in Fields |-> r[f]]
    BY DEF Fields
  <2>a. /\ r.clients = t.clients /\ r.stack = t.stack /\ r.sel = t.sel
        /\ r.hidsel = t.hidsel /\ r.tagset = t.tagset /\ r.seltags = t.seltags
        /\ r.tiling = t.tiling /\ r.mon = t.mon /\ r.tags = t.tags
        /\ r.urgent = t.urgent /\ r.mode = t.mode /\ r.selmon = t.selmon
        /\ r.alive = t.alive /\ r.mapped = t.mapped /\ r.wmstate = t.wmstate
        /\ r.strip = t.strip /\ r.hint = t.hint /\ r.fsprop = t.fsprop
        /\ r.focus = t.focus /\ r.active = t.active /\ r.list = t.list
        /\ r.enterq = t.enterq
    OBVIOUS
  <2> HIDE DEF r
  <2>3. \A f \in Fields : r[f] = t[f]
    BY <2>a DEF Fields
  <2>4. r = b
    BY <2>2, <2>3 DEF Base
  <2> QED BY <2>1, <2>4
<1>2. g \in Extents
  <2> DEFINE r == [head |-> t.head, bar |-> t.bar, lay |-> t.lay, gap |-> t.gap,
             nmaster |-> t.nmaster, mfact |-> t.mfact, geo |-> t.geo,
             old |-> t.old, sm |-> t.sm, bw |-> t.bw, oldbw |-> t.oldbw,
             xbw |-> t.xbw, nmons |-> t.nmons, screen |-> t.screen]
  <2>1. r \in Extents
    BY DEF Extents
  <2>2. r = [f \in Extent |-> r[f]]
    BY DEF Extent
  <2>a. /\ r.head = t.head /\ r.bar = t.bar /\ r.lay = t.lay
        /\ r.gap = t.gap /\ r.nmaster = t.nmaster /\ r.mfact = t.mfact
        /\ r.geo = t.geo /\ r.old = t.old /\ r.sm = t.sm
        /\ r.bw = t.bw /\ r.oldbw = t.oldbw /\ r.xbw = t.xbw
        /\ r.nmons = t.nmons /\ r.screen = t.screen
    OBVIOUS
  <2> HIDE DEF r
  <2>3. \A f \in Extent : r[f] = t[f]
    BY <2>a DEF Extent
  <2>4. r = g
    BY <2>2, <2>3 DEF Ext
  <2> QED BY <2>1, <2>4
<1> QED BY <1>1, <1>2 DEF Typed

LEMMA AllFields ==
  ASSUME NEW s, Typed(s)
  PROVE  /\ s.hidsel \in [Mon -> BOOLEAN] /\ s.seltags \in [Mon -> {0, 1}]
         /\ s.tagset \in [Mon -> [{0, 1} -> SUBSET Tag]]
         /\ s.tags \in [Win -> SUBSET Tag] /\ s.urgent \in SUBSET Win
         /\ s.alive \in SUBSET Win /\ s.mapped \in SUBSET Win
         /\ s.wmstate \in [Win -> {"Withdrawn", "Normal", "Iconic"}]
         /\ s.strip \in SUBSET Win /\ s.hint \in SUBSET Win /\ s.fsprop \in SUBSET Win
         /\ s.focus \in WinOrNull /\ s.active \in WinOrNull /\ s.list \in SUBSET Win
         /\ s.enterq \in WinOrNull
  BY BaseFields DEF Typed, State

\* createmon resets monitors that have no clients.
LEMMA CreatedKeeps ==
  ASSUME NEW s, Typed(s), Good(Base(s)), NEW k, k \in Nat \ {0},
         \A c \in Managed(s) : s.mon[c] < k
  PROVE  LET t == Created(s, k)
         IN  /\ Typed(t) /\ Keeps(Base(s), Base(t))
             /\ t.selmon = s.selmon /\ t.nmons = s.nmons /\ t.head = s.head
<1> DEFINE new(f, v) == [m \in Mon |-> IF m < k THEN f[m] ELSE v]
           z == InitialState
           v1 == new(s.clients, <<>>)   v2 == new(s.stack, <<>>)
           v3 == new(s.sel, NULL)       v4 == new(s.hidsel, FALSE)
           v5 == new(s.tagset, z.tagset[1]) v6 == new(s.seltags, 0)
           v7 == new(s.tiling, TRUE)    v8 == new(s.lay, "tile")
           v9 == new(s.bar, TRUE)       v10 == new(s.gap, gappx)
           v11 == new(s.nmaster, 1)     v12 == new(s.mfact, 50)
           t == Created(s, k)
<1>1. t = [s EXCEPT !.clients = v1, !.stack = v2, !.sel = v3, !.hidsel = v4,
                    !.tagset = v5, !.seltags = v6, !.tiling = v7, !.lay = v8,
                    !.bar = v9, !.gap = v10, !.nmaster = v11, !.mfact = v12]
  BY DEF Created
<1>2. /\ s.clients \in [Mon -> Seq(Win)] /\ s.stack \in [Mon -> Seq(Win)]
      /\ s.mon \in [Win -> Mon] /\ s.mode \in [Win -> Modes] /\ s.selmon \in Mon
      /\ s.sel \in [Mon -> WinOrNull] /\ s.tiling \in [Mon -> BOOLEAN]
      /\ DOMAIN s = Fields \cup Extent
  BY StateFields
<1>3. Consistent(s)
  BY BaseReads DEF Good
<1>4. \A m \in Mon : m < k \/ (s.clients[m] = <<>> /\ s.stack[m] = <<>> /\ s.sel[m] = NULL)
  <2> SUFFICES ASSUME NEW m \in Mon, ~(m < k)
               PROVE  s.clients[m] = <<>> /\ s.stack[m] = <<>> /\ s.sel[m] = NULL
    OBVIOUS
  <2>1. Range(s.clients[m]) = {}
    <3>1. \A c \in Range(s.clients[m]) : c \in Managed(s) /\ s.mon[c] = m
      BY <1>3 DEF Managed, Consistent
    <3> QED BY <3>1
  <2>2. Range(s.stack[m]) = {} /\ s.sel[m] = NULL
    BY <1>3, <2>1 DEF Consistent
  <2>3. ASSUME NEW q \in Seq(Win), Range(q) = {} PROVE q = <<>>
    <3>1. Len(q) \in Nat /\ DOMAIN q = 1 .. Len(q)
      OBVIOUS
    <3>2. \A i \in DOMAIN q : FALSE
      BY <2>3 DEF Range
    <3>3. Len(q) # 0 => 1 \in DOMAIN q
      BY <3>1
    <3>4. Len(q) = 0
      BY <3>2, <3>3
    <3> QED BY <3>4
  <2> QED BY <1>2, <2>1, <2>2, <2>3
<1>5. v1 = s.clients /\ v2 = s.stack /\ v3 = s.sel
  <2>1. v1 = s.clients
    <3>1. \A m \in Mon : v1[m] = s.clients[m]
      BY <1>4
    <3>2. v1 = [m \in Mon |-> v1[m]] /\ s.clients = [m \in Mon |-> s.clients[m]]
      BY <1>2
    <3> HIDE DEF v1
    <3> QED BY <3>1, <3>2
  <2>2. v2 = s.stack
    <3>1. \A m \in Mon : v2[m] = s.stack[m]
      BY <1>4
    <3>2. v2 = [m \in Mon |-> v2[m]] /\ s.stack = [m \in Mon |-> s.stack[m]]
      BY <1>2
    <3> HIDE DEF v2
    <3> QED BY <3>1, <3>2
  <2>3. v3 = s.sel
    <3>1. \A m \in Mon : v3[m] = s.sel[m]
      BY <1>4
    <3>2. v3 = [m \in Mon |-> v3[m]] /\ s.sel = [m \in Mon |-> s.sel[m]]
      BY <1>2
    <3> HIDE DEF v3
    <3> QED BY <3>1, <3>2
  <2> QED BY <2>1, <2>2, <2>3
<1>6. /\ \A T : \A f \in [Mon -> T], v \in T : new(f, v) \in [Mon -> T]
  OBVIOUS
<1>7. /\ z.tagset[1] = [i \in {0, 1} |-> {FirstTag}]
      /\ z.tagset[1] \in [{0, 1} -> SUBSET Tag]
  BY DEF InitialState, Mon
<1> HIDE DEF new, z
<1>8. /\ v4 \in [Mon -> BOOLEAN] /\ v5 \in [Mon -> [{0, 1} -> SUBSET Tag]]
      /\ v6 \in [Mon -> {0, 1}] /\ v7 \in [Mon -> BOOLEAN]
      /\ v8 \in [Mon -> {"tile", "monocle", "float"}] /\ v9 \in [Mon -> BOOLEAN]
      /\ v10 \in [Mon -> 0 .. MaxGap] /\ v11 \in [Mon -> Nat] /\ v12 \in [Mon -> Nat]
  <2>1. gappx \in 0 .. MaxGap /\ 1 \in Nat /\ 50 \in Nat /\ 0 \in {0, 1}
    OBVIOUS
  <2> QED BY <1>2, <1>6, <1>7, <2>1, AllFields, ExtFields
<1>9. \A m \in Mon, i \in {0, 1} : v5[m][i] # {}
  <2>1. \A m \in Mon, i \in {0, 1} : s.tagset[m][i] # {}
    BY BaseFields DEF Good, Well
  <2>2. \A m \in Mon : v5[m] \in {s.tagset[m], z.tagset[1]}
    BY DEF new
  <2> HIDE DEF v5
  <2>3. \A i \in {0, 1} : z.tagset[1][i] # {}
    BY <1>7
  <2> QED BY <2>1, <2>2, <2>3, SMTT(30)
<1> HIDE DEF v1, v2, v3, v4, v5, v6, v7, v8, v9, v10, v11, v12, t
<1>10. /\ t.clients = s.clients /\ t.stack = s.stack /\ t.sel = s.sel
       /\ t.hidsel = v4 /\ t.tagset = v5 /\ t.seltags = v6 /\ t.tiling = v7
       /\ t.lay = v8 /\ t.bar = v9 /\ t.gap = v10 /\ t.nmaster = v11 /\ t.mfact = v12
  BY <1>1, <1>2, <1>5 DEF Fields, Extent
<1>11. /\ t.mon = s.mon /\ t.tags = s.tags /\ t.urgent = s.urgent /\ t.mode = s.mode
       /\ t.selmon = s.selmon /\ t.alive = s.alive /\ t.mapped = s.mapped
       /\ t.wmstate = s.wmstate /\ t.strip = s.strip /\ t.hint = s.hint
       /\ t.fsprop = s.fsprop /\ t.focus = s.focus /\ t.active = s.active
       /\ t.list = s.list /\ t.enterq = s.enterq
  BY <1>1, <1>2 DEF Fields, Extent
<1>12. /\ t.head = s.head /\ t.geo = s.geo /\ t.old = s.old /\ t.sm = s.sm
       /\ t.bw = s.bw /\ t.oldbw = s.oldbw /\ t.xbw = s.xbw
       /\ t.nmons = s.nmons /\ t.screen = s.screen
  BY <1>1, <1>2 DEF Fields, Extent
<1>13. Full(t)
  BY <1>1, <1>2 DEF Full
<1>14. Typed(t)
  BY <1>2, <1>8, <1>10, <1>11, <1>12, <1>13, AllFields, ExtFields, TypedBuild,
     ZenonT(60)
<1>15. Well(Base(t)) /\ SameLists(Base(s), Base(t))
  <2>1. Base(t) \in State /\ Well(Base(s))
    BY <1>14 DEF Typed, Good
  <2>2. Well(Base(t))
    BY <1>9, <1>10, <1>11, <2>1, BaseFields DEF Well
  <2>3. SameLists(Base(s), Base(t))
    BY <1>10, <1>11, BaseFields DEF SameLists
  <2> QED BY <2>2, <2>3
<1>16. Keeps(Base(s), Base(t))
  BY <1>15, SameListsKeep
<1> QED BY <1>11, <1>12, <1>14, <1>16 DEF t

\* One client of a monitor that is removed goes to the first one, to the head of
\* its lists.
LEMMA MovedFirst ==
  ASSUME NEW s, Good(s), NEW c \in Managed(s), s.mon[c] # 1
  PROVE  LET t == MovedToFirst(s, c)
         IN  /\ Good(t) /\ Managed(t) = Managed(s) /\ t.selmon = s.selmon
             /\ t.mon = [s.mon EXCEPT ![c] = 1]
             /\ t.clients[1] = Push(c, s.clients[1])
<1> DEFINE d == detachstack(detach(s, c), c)
           i == [d EXCEPT !.mon[c] = 1]
           j == attach(i, c)
           t == attachstack(j, c)
           m == s.mon[c]
<1>1. c \in Win /\ m \in Mon /\ c \in Range(s.clients[m]) /\ 1 \in Mon
  BY ManagedLemma DEF Mon
<1>2. Good(d) /\ Managed(d) = Managed(s) \ {c} /\ d.mon = s.mon
  BY RemoveLemma
<1>3. d.tags = s.tags /\ d.selmon = s.selmon /\ d.clients[1] = s.clients[1]
  <2>1. DOMAIN s = Fields /\ s.clients \in [Mon -> Seq(Win)]
    BY GoodRecord DEF Good, Well, State
  <2>2. /\ detach(s, c).tags = s.tags /\ detach(s, c).selmon = s.selmon
        /\ detach(s, c).clients[1] = s.clients[1] /\ DOMAIN detach(s, c) = Fields
    BY <1>1, <2>1 DEF detach, Fields
  <2>3. \A z : DOMAIN z = Fields =>
              LET x == detachstack(z, c)
              IN  x.tags = z.tags /\ x.selmon = z.selmon /\ x.clients = z.clients
    BY DEF detachstack, Fields
  <2> QED BY <2>2, <2>3
<1>4. s.tags[c] # {} /\ s.tags \in [Win -> SUBSET Tag]
  BY <1>1 DEF Good, AllTagged, Well, State
<1>5. DOMAIN d = Fields /\ d.mon \in [Win -> Mon]
  BY <1>2, GoodRecord DEF Good, Well, State
<1> HIDE DEF d
<1>6. /\ i.clients = d.clients /\ i.stack = d.stack /\ i.sel = d.sel
      /\ i.mon = [d.mon EXCEPT ![c] = 1] /\ i.tags = d.tags /\ i.selmon = d.selmon
      /\ i.alive = d.alive /\ i.mapped = d.mapped /\ i.wmstate = d.wmstate
      /\ i.tagset = d.tagset /\ i.mon[c] = 1 /\ DOMAIN i = Fields
  BY <1>1, <1>5 DEF Fields
<1>7. Well(i)
  <2>1. i \in State
    BY <1>1, <1>2, ZenonT(60) DEF Good, Well, State
  <2> QED BY <1>2, <1>6, <2>1 DEF Good, Well
<1> HIDE DEF i
<1>8. Good(i) /\ Managed(i) = Managed(s) \ {c}
  <2>1. c \in Win \ Managed(d)
    BY <1>1, <1>2
  <2> DEFINE g == d.tags[c]
  <2>2. i.tags = [d.tags EXCEPT ![c] = g]
    BY <1>3, <1>4, <1>6
  <2> HIDE DEF g
  <2>a. /\ Good(d) /\ Well(i) /\ i.clients = d.clients /\ i.stack = d.stack
        /\ i.sel = d.sel /\ i.mon = [d.mon EXCEPT ![c] = 1]
    BY <1>2, <1>6, <1>7
  <2>3. Good(i) /\ Managed(i) = Managed(d)
    <3>1. \A e \in Managed(d) : i.mon[e] = d.mon[e] /\ i.tags[e] = d.tags[e]
      BY <1>5, <1>6, <2>1, ManagedLemma
    <3> QED BY <2>a, <3>1, UnseenLemma
  <2> QED BY <1>2, <2>3
<1>9. Good(t) /\ Managed(t) = Managed(s) /\ t.mon = i.mon
  <2>1. c \in Win \ Managed(i) /\ i.tags[c] # {}
    BY <1>1, <1>3, <1>4, <1>6, <1>8
  <2>2. Good(t) /\ Managed(t) = Managed(i) \cup {c} /\ t.mon = i.mon
    BY <1>8, <2>1, AddLemma, ZenonT(60)
  <2> HIDE DEF t
  <2> QED BY <1>8, <2>2
<1>10. t.selmon = i.selmon /\ t.clients[1] = Push(c, i.clients[1])
  <2>1. i.clients \in [Mon -> Seq(Win)]
    BY <1>8 DEF Good, Well, State
  <2>2. j.selmon = i.selmon /\ j.clients[1] = Push(c, i.clients[1]) /\ DOMAIN j = Fields
    BY <1>1, <1>6, <2>1 DEF attach, Fields
  <2> HIDE DEF j
  <2> QED BY <2>2 DEF attachstack, Fields
<1>11. MovedToFirst(s, c) = t
  BY DEF MovedToFirst, t, j, i, d
<1> HIDE DEF t
<1> QED BY <1>2, <1>3, <1>6, <1>9, <1>10, <1>11

\* What removing a monitor leaves alone; S are clients it is not about.
Vacates(S, s, t) ==
  /\ Typed(t) /\ Good(Base(t)) /\ Managed(t) = Managed(s) /\ t.selmon = s.selmon
  /\ \A f \in Extent : t[f] = s[f]
  /\ Those(t.clients[1], S) = Those(s.clients[1], S)

LEMMA VacatesSelf ==
  ASSUME NEW S, NEW s, Typed(s), Good(Base(s))
  PROVE  Vacates(S, s, s)
  BY DEF Vacates

LEMMA VacatesTrans ==
  ASSUME NEW S, NEW s, NEW t, NEW u, Vacates(S, s, t), Vacates(S, t, u)
  PROVE  Vacates(S, s, u)
  BY DEF Vacates

LEMMA MovedVacates ==
  ASSUME NEW s, Typed(s), Good(Base(s)), NEW c \in Managed(s), s.mon[c] # 1,
         NEW S, c \notin S
  PROVE  LET t == MovedToFirst(s, c)
         IN  Vacates(S, s, t) /\ t.mon = [s.mon EXCEPT ![c] = 1]
<1> DEFINE t == MovedToFirst(s, c)
           b == MovedToFirst(Base(s), c)
<1>1. Full(s)
  BY DEF Typed
<1>2. Follows(s, t, b)
  BY <1>1, MovedToFirstBase
<1>3. /\ Managed(Base(s)) = Managed(s) /\ Base(s).mon = s.mon
      /\ Base(s).selmon = s.selmon /\ Base(s).clients = s.clients
  BY BaseReads, BaseFields
<1>4. c \in Managed(Base(s)) /\ Base(s).mon[c] # 1
  BY <1>3
<1>5. /\ Good(b) /\ Managed(b) = Managed(s) /\ b.selmon = s.selmon
      /\ b.mon = [s.mon EXCEPT ![c] = 1] /\ b.clients[1] = Push(c, s.clients[1])
  BY <1>3, <1>4, MovedFirst, SMTT(30)
<1>6. c \in Win
  BY <1>4, ManagedLemma
<1> HIDE DEF b, t
<1>7. b \in State
  BY <1>5 DEF Good, Well
<1>8. Typed(t) /\ Base(t) = b /\ \A f \in Extent : t[f] = s[f]
  BY <1>2, <1>7, FollowsLies DEF Lies
<1>9. /\ Managed(t) = Managed(s) /\ t.selmon = s.selmon
      /\ t.mon = [s.mon EXCEPT ![c] = 1] /\ t.clients[1] = Push(c, s.clients[1])
  BY <1>5, <1>8, BaseReads, BaseFields
<1>10. s.clients[1] \in Seq(Win)
  <2>1. s.clients \in [Mon -> Seq(Win)] /\ 1 \in Mon
    BY StateFields DEF Mon
  <2> QED BY <2>1
<1>11. Those(t.clients[1], S) = Those(s.clients[1], S)
  BY <1>6, <1>9, <1>10, ThosePush
<1>12. Vacates(S, s, t)
  BY <1>5, <1>8, <1>9, <1>11 DEF Vacates
<1> QED BY <1>9, <1>12 DEF t

\* t is s with the clients of monitor m on the first one.
Gathered(m, s, t) ==
  \A c \in Managed(s) : t.mon[c] = IF s.mon[c] = m THEN 1 ELSE s.mon[c]

\* A monitor that is removed gives all its clients to the first one.
LEMMA EmptiedVacates ==
  ASSUME NEW s, Typed(s), Good(Base(s)), NEW m \in Mon \ {1},
         NEW S, \A c \in Range(s.clients[m]) : c \notin S
  PROVE  Vacates(S, s, Emptied(s, m)) /\ Gathered(m, s, Emptied(s, m))
<1> DEFINE seq == s.clients[m]
           n == Len(seq)
           X == Desktop
           Done(t, k) ==
             /\ Vacates(S, s, t)
             /\ \A c \in Win : t.mon[c] = IF \E i \in 1 .. k : seq[i] = c THEN 1 ELSE s.mon[c]
           D == [k \in 0 .. n |-> {t \in Desktop : Done(t, k)}]
           Op(t, k) == MovedToFirst(t, seq[k])
<1>1. seq \in Seq(Win) /\ s.mon \in [Win -> Mon]
  BY StateFields
<1>2. IsInjective(seq) /\ \A c \in Range(seq) : s.mon[c] = m /\ c \in Managed(s)
  BY BaseReads DEF Good, Consistent, Managed
<1>3. n \in Nat /\ DOMAIN seq = 1 .. n /\ \A k \in 1 .. n : seq[k] \in Win
  BY <1>1
<1>4. /\ \A k \in 1 .. n : seq[k] \in Range(seq)
      /\ \A i, k \in 1 .. n : seq[i] = seq[k] => i = k
  BY <1>2, <1>3 DEF Range, IsInjective
<1>5. Emptied(s, m) = Walk(MovedToFirst, s, seq)
  BY DEF Emptied
<1> HIDE DEF n
<1>6. ASSUME NEW k \in 1 .. n, NEW t, Done(t, k - 1) PROVE Op(t, k) \in Desktop /\ Done(Op(t, k), k)
  <2> DEFINE c == seq[k]
             u == MovedToFirst(t, c)
  <2>1. Vacates(S, s, t) /\ Typed(t) /\ Good(Base(t)) /\ c \in Managed(t) /\ c \notin S /\ c \in Win
    BY <1>2, <1>3, <1>4, <1>6 DEF Vacates
  <2>2. t.mon[c] = m
    <3>1. ~\E i \in 1 .. k - 1 : seq[i] = seq[k]
      BY <1>3, <1>4
    <3> QED BY <1>2, <1>4, <1>6, <2>1, <3>1
  <2> HIDE DEF c
  <2>3. Vacates(S, t, u) /\ u.mon = [t.mon EXCEPT ![c] = 1]
    BY <2>1, <2>2, MovedVacates
  <2> HIDE DEF u
  <2>4. Vacates(S, s, u) /\ Typed(u) /\ t.mon \in [Win -> Mon]
    BY <2>1, <2>3, VacatesTrans, StateFields DEF Vacates
  <2>5. ASSUME NEW d \in Win
        PROVE  u.mon[d] = IF \E i \in 1 .. k : seq[i] = d THEN 1 ELSE s.mon[d]
    <3>1. t.mon[d] = IF \E i \in 1 .. k - 1 : seq[i] = d THEN 1 ELSE s.mon[d]
      BY <1>6
    <3>2. (\E i \in 1 .. k : seq[i] = d) <=> d = c \/ \E i \in 1 .. k - 1 : seq[i] = d
      <4>1. \A i \in Nat : i \in 1 .. k <=> i = k \/ i \in 1 .. k - 1
        BY <1>3
      <4>2. k \in 1 .. k /\ \A i \in 1 .. k : i \in Nat
        BY <1>3
      <4>3. \A i \in 1 .. k - 1 : i \in 1 .. k
        BY <1>3
      <4> QED BY <4>1, <4>2, <4>3 DEF c
    <3>3. u.mon[d] = IF d = c THEN 1 ELSE t.mon[d]
      BY <2>1, <2>3, <2>4
    <3> QED BY <3>1, <3>2, <3>3
  <2>6. u \in Desktop
    BY <2>4, TypedDesktop
  <2> QED BY <2>4, <2>5, <2>6 DEF u, c
<1>7. Done(s, 0) /\ s \in Desktop
  <2>1. Vacates(S, s, s) /\ s \in Desktop
    BY VacatesSelf, TypedDesktop
  <2> QED BY <2>1
<1> HIDE DEF Done
<1>8. /\ n \in Nat /\ s \in D[0] /\ D \in [0 .. n -> SUBSET X]
      /\ \A k \in 1 .. n : \A t \in D[k - 1] : Op(t, k) \in D[k]
  <2>1. n \in Nat /\ 0 \in 0 .. n /\ \A k \in 1 .. n : k - 1 \in 0 .. n /\ k \in 0 .. n
    BY <1>3
  <2>2. D \in [0 .. n -> SUBSET X] /\ \A k \in 0 .. n : D[k] = {t \in Desktop : Done(t, k)}
    OBVIOUS
  <2>3. s \in D[0]
    BY <1>7, <2>1, <2>2
  <2>4. ASSUME NEW k \in 1 .. n, NEW t \in D[k - 1] PROVE Op(t, k) \in D[k]
    <3>1. Done(t, k - 1)
      BY <2>1, <2>2
    <3>2. Op(t, k) \in Desktop /\ Done(Op(t, k), k)
      BY <1>6, <3>1
    <3> HIDE DEF D, Op
    <3> QED BY <2>1, <2>2, <3>2
  <2> QED BY <2>1, <2>2, <2>3, <2>4
<1>a. \A t : t \in D[n] => Done(t, n)
  <2>1. n \in 0 .. n
    BY <1>3
  <2> QED BY <2>1
<1> DEFINE h == [p \in (1 .. n) \X X |-> IF p[2] \in D[p[1] - 1] THEN Op(p[2], p[1])
                                          ELSE s]
           Loop(e) == [k \in 0 .. n |-> IF k = 0 THEN s ELSE Op(e[k - 1], k)]
           e == CHOOSE e1 : e1 = Loop(e1)
<1>9. Walk(MovedToFirst, s, seq) = e[n]
  BY DEF Walk, n
<1> HIDE DEF n, X, D, Op
<1>10. Leads(n, X, D, h) /\ \A k \in 1 .. n : \A t \in D[k - 1] : h[<<k, t>>] = Op(t, k)
  <2>1. 0 \in 0 .. n /\ \A k \in 1 .. n : k - 1 \in 0 .. n /\ k \in 0 .. n
    BY <1>8
  <2>2. s \in X /\ \A k \in 1 .. n : \A t \in D[k - 1] : t \in X /\ Op(t, k) \in X
    BY <1>8, <2>1
  <2>3. h \in [(1 .. n) \X X -> X]
    BY <1>8, <2>2
  <2>4. \A k \in 1 .. n : \A t \in D[k - 1] : h[<<k, t>>] = Op(t, k)
    BY <2>2
  <2> HIDE DEF h
  <2> QED BY <1>8, <2>3, <2>4 DEF Leads
<1> HIDE DEF h
<1>11. PICK f : Rec(n, X, s, h, f) /\ \A k \in 0 .. n : f[k] \in D[k]
  BY <1>8, <1>10, LoopExists
<1>12. f = Loop(f)
  <2>1. /\ f = [k \in 0 .. n |-> f[k]] /\ f[0] = s
        /\ \A k \in 1 .. n : f[k - 1] \in D[k - 1] /\ f[k] = h[<<k, f[k - 1]>>]
    <3>1. \A k \in 1 .. n : k - 1 \in 0 .. n
      BY <1>8
    <3> QED BY <1>11, <3>1 DEF Rec
  <2>2. ASSUME NEW k \in 0 .. n PROVE f[k] = Loop(f)[k]
    <3>1. CASE k = 0
      BY <2>1, <3>1
    <3>2. CASE k # 0
      <4>1. k \in 1 .. n
        BY <1>8, <3>2
      <4> QED BY <1>10, <2>1, <3>2, <4>1
    <3> QED BY <3>1, <3>2
  <2> QED BY <2>1, <2>2
<1>13. e = Loop(e)
  <2> HIDE DEF Loop
  <2> QED BY <1>12
<1> HIDE DEF e
<1>14. e[0] = s /\ \A k \in 1 .. n : e[k] = Op(e[k - 1], k)
  <2>1. 0 \in 0 .. n /\ \A k \in 1 .. n : k \in 0 .. n /\ k # 0
    BY <1>8
  <2>2. \A k \in 0 .. n : Loop(e)[k] = IF k = 0 THEN s ELSE Op(e[k - 1], k)
    OBVIOUS
  <2> HIDE DEF Loop
  <2>3. \A k \in 0 .. n : e[k] = IF k = 0 THEN s ELSE Op(e[k - 1], k)
    BY <1>13, <2>2
  <2> QED BY <2>1, <2>3
<1>15. e[n] \in D[n]
  <2>1. e[0] \in D[0] /\ \A k \in 1 .. n : e[k - 1] \in D[k - 1] => e[k] = h[<<k, e[k - 1]>>]
    BY <1>8, <1>10, <1>14
  <2>2. \A k \in 0 .. n : e[k] \in D[k]
    BY <1>10, <2>1, LoopStays
  <2> QED BY <1>8, <2>2
<1> DEFINE z == Walk(MovedToFirst, s, seq)
<1>16. Done(z, n)
  BY <1>9, <1>15, <1>a
<1>17. z = Emptied(s, m)
  BY <1>5
<1> HIDE DEF z
<1>18. Vacates(S, s, z)
  BY <1>16 DEF Done
<1>19. ASSUME NEW c \in Managed(s)
       PROVE  z.mon[c] = IF s.mon[c] = m THEN 1 ELSE s.mon[c]
  <2>1. c \in Win /\ c \in Range(s.clients[s.mon[c]])
    <3>1. c \in Managed(Base(s)) /\ Base(s).clients = s.clients /\ Base(s).mon = s.mon
      BY BaseReads, BaseFields
    <3> QED BY <3>1, ManagedLemma
  <2>2. z.mon[c] = IF \E i \in 1 .. n : seq[i] = c THEN 1 ELSE s.mon[c]
    BY <1>16, <2>1 DEF Done
  <2>3. (\E i \in 1 .. n : seq[i] = c) <=> c \in Range(seq)
    BY <1>3 DEF Range
  <2>4. c \in Range(seq) <=> s.mon[c] = m
    BY <1>2, <2>1
  <2> QED BY <2>2, <2>3, <2>4
<1> QED BY <1>17, <1>18, <1>19 DEF Gathered

\* updategeom: no client is lost, every one is on a monitor that exists, and
\* those of the first monitor stay there in their order.
LEMMA UpdatedSturdy ==
  ASSUME NEW s, Sturdy(s), NEW heads \in Seq(Rects), Len(heads) \in Mon
  PROVE  LET t == Updated(s, heads).s
         IN  /\ Sturdy(t) /\ Managed(t) = Managed(s) /\ t.nmons = Len(heads)
             /\ Those(t.clients[1], {c \in Managed(s) : s.mon[c] = 1}) = s.clients[1]
<1> DEFINE K == {c \in Managed(s) : s.mon[c] = 1}
           p == s.nmons
           nn == Len(heads)
           a == IF nn > p THEN Created(s, p + 1) ELSE s
           hd == [m \in Mon |-> IF m <= nn THEN heads[m] ELSE NoRect]
           b1 == [a EXCEPT !.head = hd]
           b == [b1 EXCEPT !.nmons = nn]
           gone == [i \in 1 .. AtLeast(p - nn, 0) |-> p - i + 1]
           z == Walk(Emptied, b, gone)
           y == Created(z, nn + 1)
           x == IF y.selmon > nn THEN 1 ELSE y.selmon
           d == [y EXCEPT !.selmon = x]
<1>1. Updated(s, heads).s = d
  BY DEF Updated
<1>2. /\ Typed(s) /\ Full(s) /\ Good(Base(s)) /\ p \in Mon /\ p \in Nat /\ nn \in Nat
      /\ p > 0 /\ nn > 0 /\ nn \in Mon /\ 1 \in Mon
      /\ s.clients \in [Mon -> Seq(Win)] /\ s.clients[1] \in Seq(Win)
      /\ \A c \in Managed(s) : s.mon[c] \in 1 .. p
  <2>1. Typed(s) /\ Full(s) /\ Good(Base(s)) /\ p \in Mon /\ 1 \in Mon
    BY SturdyFields DEF Mon
  <2>2. s.clients \in [Mon -> Seq(Win)]
    BY <2>1, StateFields
  <2> QED BY <2>1, <2>2, SturdyFields DEF Mons, Mon
<1> HIDE DEF p, nn
<1>3. Typed(a) /\ Keeps(Base(s), Base(a)) /\ a.selmon = s.selmon
  <2>1. CASE nn > p
    <3>1. p + 1 \in Nat \ {0} /\ \A c \in Managed(s) : s.mon[c] < p + 1
      BY <1>2
    <3> QED BY <1>2, <2>1, <3>1, CreatedKeeps
  <2>2. CASE ~(nn > p)
    BY <1>2, <2>2, KeepsSelf
  <2> QED BY <2>1, <2>2
<1> HIDE DEF a
<1>4. hd \in [Mon -> Rects]
  <2>1. NoRect \in Rects
    BY RectLemma DEF NoRect
  <2>2. \A m \in Mon : m <= nn => m \in 1 .. nn
    BY <1>2 DEF Mon
  <2>3. \A m \in 1 .. nn : heads[m] \in Rects
    BY DEF nn
  <2> QED BY <2>1, <2>2, <2>3
<1> HIDE DEF hd
<1>5. Tuned(a, b1) /\ Typed(b1)
  BY <1>3, <1>4, TunedPut DEF Tuned
<1> HIDE DEF b1
<1>6. Typed(b) /\ Base(b) = Base(b1) /\ b.nmons = nn
  <2> DEFINE E == Ext(b1)
  <2>1. E \in Extents
    BY <1>5 DEF Typed
  <2>2. [E EXCEPT !["nmons"] = nn] \in Extents
    <3> HIDE DEF E
    <3> QED BY <1>2, <2>1 DEF Extents
  <2>3. "nmons" \in Extent
    BY DEF Extent
  <2>4. b = Put(b1, "nmons", nn)
    BY DEF Put
  <2> QED BY <1>5, <2>2, <2>3, <2>4, PutExtent, SMTT(30)
<1> HIDE DEF b
<1>7. /\ Good(Base(b)) /\ b.clients = s.clients /\ b.mon = s.mon
      /\ b.selmon = s.selmon /\ Managed(b) = Managed(s)
  <2>1. Base(b) = Base(a)
    BY <1>5, <1>6 DEF Tuned
  <2>2. b.clients = s.clients /\ b.mon = s.mon /\ b.selmon = s.selmon /\ Good(Base(b))
    BY <1>3, <2>1, BaseFields DEF Keeps
  <2> QED BY <2>2 DEF Managed
<1> DEFINE n == Len(gone)
           X == Desktop
           hi == AtLeast(p, nn)
           Done(t, i) ==
             /\ Vacates(K, b, t)
             /\ \A c \in Managed(b) : /\ t.mon[c] \in 1 .. (hi - i)
                                      /\ s.mon[c] = 1 => t.mon[c] = 1
           D == [i \in 0 .. n |-> {t \in Desktop : Done(t, i)}]
           Op(t, i) == Emptied(t, gone[i])
<1>8. /\ n \in Nat /\ hi \in Nat /\ hi - n = nn /\ p <= hi
      /\ \A i \in 1 .. n : /\ gone[i] = hi - i + 1 /\ gone[i] \in Mon \ {1}
                           /\ hi - (i - 1) = gone[i] /\ hi - i = gone[i] - 1
  <2> DEFINE N == AtLeast(p - nn, 0)
  <2>1. N \in Nat /\ (p >= nn => N = p - nn) /\ (p < nn => N = 0)
    BY <1>2 DEF AtLeast
  <2>2. (p >= nn => hi = p) /\ (p < nn => hi = nn)
    BY <1>2 DEF AtLeast
  <2> HIDE DEF N, hi
  <2>3. gone = [i \in 1 .. N |-> p - i + 1]
    BY DEF N
  <2> HIDE DEF gone
  <2>4. n = N /\ \A i \in 1 .. N : gone[i] = p - i + 1
    BY <2>1, <2>3
  <2> HIDE DEF n
  <2>5. ASSUME NEW i \in 1 .. N
        PROVE  hi = p /\ p - i + 1 \in Mon \ {1}
    <3>1. p >= nn /\ N = p - nn
      BY <1>2, <2>1
    <3>2. hi = p
      BY <2>2, <3>1
    <3>3. i \in Nat /\ i >= 1 /\ i <= p - nn
      BY <2>1, <3>1
    <3>4. p - i + 1 \in Nat /\ p - i + 1 >= 2 /\ p - i + 1 <= p /\ p <= NMon
      BY <1>2, <3>3 DEF Mon
    <3>5. p - i + 1 \in Mon \ {1}
      <4> DEFINE j == p - i + 1
      <4>1. j \in Nat /\ j >= 2 /\ j <= p /\ p <= NMon /\ p \in Nat /\ NMon \in Nat
        BY <1>2, <3>4
      <4> HIDE DEF j
      <4>2. j \in 1 .. NMon /\ j # 1
        BY <4>1
      <4>3. j \in Mon \ {1}
        BY <4>2 DEF Mon
      <4> QED BY <4>3 DEF j
    <3> QED BY <3>2, <3>5
  <2>6. n \in Nat /\ hi \in Nat /\ hi - n = nn /\ p <= hi
    BY <1>2, <2>1, <2>2, <2>4
  <2>7. ASSUME NEW i \in 1 .. n
        PROVE  /\ gone[i] = hi - i + 1 /\ gone[i] \in Mon \ {1}
               /\ hi - (i - 1) = gone[i] /\ hi - i = gone[i] - 1
    <3>1. hi = p /\ p - i + 1 \in Mon \ {1} /\ gone[i] = p - i + 1
      BY <2>4, <2>5
    <3> QED BY <1>2, <2>6, <3>1
  <2> QED BY <2>6, <2>7
<1> HIDE DEF n, gone, hi
<1>9. Done(b, 0) /\ b \in Desktop
  <2>1. Vacates(K, b, b) /\ b \in Desktop
    BY <1>6, <1>7, VacatesSelf, TypedDesktop
  <2>2. ASSUME NEW c \in Managed(b)
        PROVE  b.mon[c] \in 1 .. (hi - 0) /\ (s.mon[c] = 1 => b.mon[c] = 1)
    BY <1>2, <1>7, <1>8
  <2> QED BY <2>1, <2>2
<1>10. ASSUME NEW i \in 1 .. n, NEW t, Done(t, i - 1)
       PROVE  Op(t, i) \in Desktop /\ Done(Op(t, i), i)
  <2> DEFINE m == gone[i]
             u == Emptied(t, m)
  <2>1. Vacates(K, b, t) /\ Typed(t) /\ Good(Base(t)) /\ Managed(t) = Managed(b)
    BY <1>10 DEF Vacates
  <2>2. /\ m \in Mon \ {1} /\ hi - (i - 1) = m /\ hi - i = m - 1 /\ m \in Nat /\ m > 1
    BY <1>8 DEF Mon
  <2>3. \A c \in Managed(b) : t.mon[c] \in 1 .. m /\ (s.mon[c] = 1 => t.mon[c] = 1)
    BY <1>10, <2>2
  <2> HIDE DEF m
  <2>4. \A c \in Range(t.clients[m]) : c \notin K
    <3>1. \A c \in Range(t.clients[m]) : t.mon[c] = m /\ c \in Managed(t)
      <4>1. Consistent(t)
        BY <2>1, BaseReads DEF Good
      <4> QED BY <2>2, <4>1 DEF Consistent, Managed
    <3> QED BY <1>7, <2>1, <2>2, <2>3, <3>1
  <2> HIDE DEF K
  <2>5. Vacates(K, t, u) /\ Gathered(m, t, u)
    BY <2>1, <2>2, <2>4, EmptiedVacates
  <2> HIDE DEF u
  <2>6. Vacates(K, b, u) /\ u \in Desktop
    BY <2>1, <2>5, VacatesTrans, TypedDesktop DEF Vacates
  <2>7. ASSUME NEW c \in Managed(b)
        PROVE  u.mon[c] \in 1 .. (hi - i) /\ (s.mon[c] = 1 => u.mon[c] = 1)
    <3>1. u.mon[c] = IF t.mon[c] = m THEN 1 ELSE t.mon[c]
      BY <2>1, <2>5 DEF Gathered
    <3>2. t.mon[c] \in 1 .. m /\ (s.mon[c] = 1 => t.mon[c] = 1)
      BY <2>3
    <3>3. u.mon[c] \in 1 .. (m - 1)
      BY <2>2, <3>1, <3>2
    <3> QED BY <2>2, <3>1, <3>2, <3>3
  <2>8. Done(u, i)
    BY <2>6, <2>7
  <2> HIDE DEF Done
  <2> QED BY <2>6, <2>8 DEF u, m
<1> HIDE DEF Done
<1>11. /\ n \in Nat /\ b \in D[0] /\ D \in [0 .. n -> SUBSET X]
       /\ \A i \in 1 .. n : \A t \in D[i - 1] : Op(t, i) \in D[i]
  <2>1. n \in Nat /\ 0 \in 0 .. n /\ \A i \in 1 .. n : i - 1 \in 0 .. n /\ i \in 0 .. n
    BY <1>8
  <2>2. D \in [0 .. n -> SUBSET X] /\ \A i \in 0 .. n : D[i] = {t \in Desktop : Done(t, i)}
    OBVIOUS
  <2>3. b \in D[0]
    BY <1>9, <2>1, <2>2
  <2>4. ASSUME NEW i \in 1 .. n, NEW t \in D[i - 1] PROVE Op(t, i) \in D[i]
    <3>1. Done(t, i - 1)
      BY <2>1, <2>2
    <3>2. Op(t, i) \in Desktop /\ Done(Op(t, i), i)
      BY <1>10, <3>1
    <3> HIDE DEF D, Op
    <3> QED BY <2>1, <2>2, <3>2
  <2> QED BY <2>1, <2>2, <2>3, <2>4
<1>a. \A t : t \in D[n] => Done(t, n)
  <2>1. n \in 0 .. n
    BY <1>8
  <2> QED BY <2>1
<1> DEFINE h == [v \in (1 .. n) \X X |-> IF v[2] \in D[v[1] - 1] THEN Op(v[2], v[1])
                                          ELSE b]
           Loop(e) == [k \in 0 .. n |-> IF k = 0 THEN b ELSE Op(e[k - 1], k)]
           e == CHOOSE e1 : e1 = Loop(e1)
<1>12. z = e[n]
  BY DEF Walk, n
<1> HIDE DEF n, X, D, Op
<1>13. Leads(n, X, D, h) /\ \A k \in 1 .. n : \A t \in D[k - 1] : h[<<k, t>>] = Op(t, k)
  <2>1. 0 \in 0 .. n /\ \A k \in 1 .. n : k - 1 \in 0 .. n /\ k \in 0 .. n
    BY <1>11
  <2>2. b \in X /\ \A k \in 1 .. n : \A t \in D[k - 1] : t \in X /\ Op(t, k) \in X
    BY <1>11, <2>1
  <2>3. h \in [(1 .. n) \X X -> X]
    BY <1>11, <2>2
  <2>4. \A k \in 1 .. n : \A t \in D[k - 1] : h[<<k, t>>] = Op(t, k)
    BY <2>2
  <2> HIDE DEF h
  <2> QED BY <1>11, <2>3, <2>4 DEF Leads
<1> HIDE DEF h
<1>14. PICK f : Rec(n, X, b, h, f) /\ \A k \in 0 .. n : f[k] \in D[k]
  BY <1>11, <1>13, LoopExists
<1>15. f = Loop(f)
  <2>1. /\ f = [k \in 0 .. n |-> f[k]] /\ f[0] = b
        /\ \A k \in 1 .. n : f[k - 1] \in D[k - 1] /\ f[k] = h[<<k, f[k - 1]>>]
    <3>1. \A k \in 1 .. n : k - 1 \in 0 .. n
      BY <1>11
    <3> QED BY <1>14, <3>1 DEF Rec
  <2>2. ASSUME NEW k \in 0 .. n PROVE f[k] = Loop(f)[k]
    <3>1. CASE k = 0
      BY <2>1, <3>1
    <3>2. CASE k # 0
      <4>1. k \in 1 .. n
        BY <1>11, <3>2
      <4> QED BY <1>13, <2>1, <3>2, <4>1
    <3> QED BY <3>1, <3>2
  <2> QED BY <2>1, <2>2
<1>16. e = Loop(e)
  <2> HIDE DEF Loop
  <2> QED BY <1>15
<1> HIDE DEF e
<1>17. e[0] = b /\ \A k \in 1 .. n : e[k] = Op(e[k - 1], k)
  <2>1. 0 \in 0 .. n /\ \A k \in 1 .. n : k \in 0 .. n /\ k # 0
    BY <1>11
  <2>2. \A k \in 0 .. n : Loop(e)[k] = IF k = 0 THEN b ELSE Op(e[k - 1], k)
    OBVIOUS
  <2> HIDE DEF Loop
  <2>3. \A k \in 0 .. n : e[k] = IF k = 0 THEN b ELSE Op(e[k - 1], k)
    BY <1>16, <2>2
  <2> QED BY <2>1, <2>3
<1>18. e[n] \in D[n]
  <2>1. e[0] \in D[0] /\ \A k \in 1 .. n : e[k - 1] \in D[k - 1] => e[k] = h[<<k, e[k - 1]>>]
    BY <1>11, <1>13, <1>17
  <2>2. \A k \in 0 .. n : e[k] \in D[k]
    BY <1>13, <2>1, LoopStays
  <2> QED BY <1>11, <2>2
<1> HIDE DEF z
<1>19. Done(z, n)
  BY <1>12, <1>18, <1>a
<1>20. /\ Typed(z) /\ Good(Base(z)) /\ Managed(z) = Managed(s) /\ z.selmon = s.selmon
       /\ z.nmons = nn /\ Those(z.clients[1], K) = Those(s.clients[1], K)
  BY <1>6, <1>7, <1>19 DEF Done, Vacates, Extent
<1>21. \A c \in Managed(s) : z.mon[c] \in 1 .. nn
  BY <1>7, <1>8, <1>19 DEF Done
<1>22. Those(s.clients[1], K) = s.clients[1]
  <2>1. Range(s.clients[1]) \subseteq K
    BY <1>2, SturdyFields DEF Consistent, Managed
  <2> HIDE DEF K
  <2> QED BY <1>2, <2>1, ThoseAll
<1>23. Typed(y) /\ Keeps(Base(z), Base(y)) /\ y.nmons = nn
  <2>1. nn + 1 \in Nat \ {0} /\ \A c \in Managed(z) : z.mon[c] < nn + 1
    BY <1>2, <1>20, <1>21
  <2> QED BY <1>20, <2>1, CreatedKeeps
<1> HIDE DEF y
<1>24. y.clients = z.clients /\ y.mon = z.mon /\ Good(Base(y)) /\ Full(y) /\ y.selmon \in Mon
  BY <1>23, BaseFields, StateFields DEF Keeps, Typed
<1>25. x \in 1 .. nn /\ x \in Mon
  <2>1. y.selmon \in Nat /\ y.selmon > 0 /\ y.selmon \in Mon
    BY <1>24 DEF Mon
  <2>2. x \in Mon
    BY <1>2, <2>1
  <2>3. x \in 1 .. nn
    BY <1>2, <2>1
  <2> QED BY <2>2, <2>3
<1> HIDE DEF x
<1>26. Typed(d) /\ Keeps(Base(y), Base(d)) /\ d.nmons = nn /\ d.selmon = x
  <2> DEFINE q == [Base(y) EXCEPT !.selmon = x]
  <2>1. Follows(y, d, q)
    BY <1>24, SetBase
  <2>2. Keeps(Base(y), q)
    BY <1>24, <1>25, SelmonLemma
  <2>3. q.selmon = x
    BY <1>24, GoodRecord DEF Fields
  <2> HIDE DEF q, d
  <2>4. Lies(y, d, q)
    BY <1>23, <2>1, <2>2, FollowsLies DEF Keeps, Good, Well
  <2>5. Typed(d) /\ Base(d) = q /\ d.nmons = y.nmons
    BY <2>4 DEF Lies, Extent
  <2> QED BY <1>23, <2>2, <2>3, <2>5, BaseFields
<1> HIDE DEF d
<1>27. d.clients = z.clients /\ d.mon = z.mon /\ Good(Base(d)) /\ Managed(d) = Managed(s)
  <2>1. d.clients = y.clients /\ d.mon = y.mon /\ Good(Base(d))
    BY <1>26, BaseFields DEF Keeps
  <2>2. d.clients = z.clients /\ d.mon = z.mon
    BY <1>24, <2>1
  <2>3. Managed(d) = Managed(z)
    BY <2>2 DEF Managed
  <2> QED BY <1>20, <2>1, <2>2, <2>3
<1>28. Sturdy(d)
  BY <1>21, <1>25, <1>26, <1>27 DEF Sturdy, Housed, Mons
<1>29. Those(d.clients[1], K) = s.clients[1]
  BY <1>20, <1>22, <1>27
<1> QED BY <1>1, <1>26, <1>27, <1>28, <1>29 DEF K, nn

\* A fullscreen client takes the size of its monitor (configurenotify).
Fit(t, c) == IF t.mode[c].full THEN resizeclient(t, c, t.head[t.mon[c]]) ELSE t
FitMon(t, m) == Walk(Fit, t, t.clients[m])

LEMMA FitMonLaid ==
  ASSUME NEW s, Typed(s), NEW m \in Mon
  PROVE  Laid(s, FitMon(s, m))
<1> DEFINE seq == s.clients[m]
           n == Len(seq)
           X == Layouts(s)
           Op(t, k) == Fit(t, seq[k])
<1>1. seq \in Seq(Win)
  BY StateFields
<1>2. FitMon(s, m) = Walk(Fit, s, seq)
  BY DEF FitMon
<1> HIDE DEF seq
<1>3. n \in Nat /\ s \in X /\ \A k \in 1 .. n, t \in X : Op(t, k) \in X
  <2>1. n \in Nat /\ s \in X
    BY <1>1, LayoutsLemma
  <2>2. ASSUME NEW k \in 1 .. n, NEW t \in X PROVE Op(t, k) \in X
    <3> DEFINE c == seq[k]
    <3>1. c \in Win
      BY <1>1
    <3>2. Typed(t)
      BY LayoutsLemma
    <3> HIDE DEF c
    <3>3. t.head[t.mon[c]] \in Rects
      BY <3>1, <3>2, ExtFields, StateFields
    <3>4. Laid(t, Fit(t, c))
      BY <3>1, <3>2, <3>3, ResizeclientLaid, LaidSelf DEF Fit
    <3>5. Laid(t, Op(t, k))
      BY <3>4 DEF c
    <3> HIDE DEF Op
    <3> QED BY <3>5, LayoutsLemma
  <2> QED BY <2>1, <2>2
<1> DEFINE h == [p \in (1 .. n) \X X |-> Op(p[2], p[1])]
           Loop(e) == [k \in 0 .. n |-> IF k = 0 THEN s ELSE Op(e[k - 1], k)]
           e == CHOOSE e1 : e1 = Loop(e1)
<1>4. Walk(Fit, s, seq) = e[n]
  BY DEF Walk
<1> HIDE DEF n, X, Op
<1>5. h \in [(1 .. n) \X X -> X] /\ \A k \in 1 .. n : \A t \in X : h[<<k, t>>] = Op(t, k)
  BY <1>3
<1> HIDE DEF h
<1>6. PICK f : Rec(n, X, s, h, f)
  BY <1>3, <1>5, Recursion
<1>7. f = Loop(f)
  <2>1. /\ f = [k \in 0 .. n |-> f[k]] /\ f[0] = s
        /\ \A k \in 1 .. n : f[k - 1] \in X /\ f[k] = h[<<k, f[k - 1]>>]
    BY <1>3, <1>6 DEF Rec
  <2>2. ASSUME NEW k \in 0 .. n PROVE f[k] = Loop(f)[k]
    <3>1. CASE k = 0
      BY <2>1, <3>1
    <3>2. CASE k # 0
      <4>1. k \in 1 .. n
        BY <1>3, <3>2
      <4> QED BY <1>5, <2>1, <3>2, <4>1
    <3> QED BY <3>1, <3>2
  <2> QED BY <2>1, <2>2
<1>8. e = Loop(e)
  <2> HIDE DEF Loop
  <2> QED BY <1>7
<1> HIDE DEF e
<1>9. e[0] = s /\ \A k \in 1 .. n : e[k] = Op(e[k - 1], k)
  <2>1. 0 \in 0 .. n /\ \A k \in 1 .. n : k \in 0 .. n /\ k # 0
    BY <1>3
  <2>2. \A k \in 0 .. n : Loop(e)[k] = IF k = 0 THEN s ELSE Op(e[k - 1], k)
    OBVIOUS
  <2> HIDE DEF Loop
  <2>3. \A k \in 0 .. n : e[k] = IF k = 0 THEN s ELSE Op(e[k - 1], k)
    BY <1>8, <2>2
  <2> QED BY <2>1, <2>3
<1>10. \A k \in 0 .. n : e[k] \in X
  <2>1. \A k \in 1 .. n : e[k - 1] \in X => e[k] = h[<<k, e[k - 1]>>]
    BY <1>5, <1>9
  <2> QED BY <1>3, <1>5, <1>9, <2>1, LoopInside
<1>11. e[n] \in X
  BY <1>3, <1>10
<1>12. Laid(s, Walk(Fit, s, seq))
  BY <1>4, <1>11, LayoutsLemma DEF X
<1> QED BY <1>2, <1>12

LEMMA FitAllLaid ==
  ASSUME NEW s, Typed(s), NEW j \in Mon
  PROVE  Laid(s, Walk(FitMon, s, [m \in 1 .. j |-> m]))
<1> DEFINE mons == [m \in 1 .. j |-> m]
           n == Len(mons)
           X == Layouts(s)
           Op(t, k) == FitMon(t, mons[k])
<1>1. j \in Nat /\ 1 .. j \subseteq Mon
  BY DEF Mon
<1>2. n = j /\ \A k \in 1 .. j : mons[k] \in Mon
  BY <1>1
<1> HIDE DEF mons
<1>3. n \in Nat /\ s \in X /\ \A k \in 1 .. n, t \in X : Op(t, k) \in X
  <2>1. n \in Nat /\ s \in X
    BY <1>1, <1>2, LayoutsLemma
  <2>2. ASSUME NEW k \in 1 .. n, NEW t \in X PROVE Op(t, k) \in X
    <3>1. mons[k] \in Mon
      BY <1>2
    <3>2. Typed(t)
      BY LayoutsLemma
    <3>3. Laid(t, Op(t, k))
      BY <3>1, <3>2, FitMonLaid
    <3> HIDE DEF Op
    <3> QED BY <3>3, LayoutsLemma
  <2> QED BY <2>1, <2>2
<1> DEFINE h == [p \in (1 .. n) \X X |-> Op(p[2], p[1])]
           Loop(e) == [k \in 0 .. n |-> IF k = 0 THEN s ELSE Op(e[k - 1], k)]
           e == CHOOSE e1 : e1 = Loop(e1)
<1>4. Walk(FitMon, s, mons) = e[n]
  BY DEF Walk
<1> HIDE DEF n, X, Op
<1>5. h \in [(1 .. n) \X X -> X] /\ \A k \in 1 .. n : \A t \in X : h[<<k, t>>] = Op(t, k)
  BY <1>3
<1> HIDE DEF h
<1>6. PICK f : Rec(n, X, s, h, f)
  BY <1>3, <1>5, Recursion
<1>7. f = Loop(f)
  <2>1. /\ f = [k \in 0 .. n |-> f[k]] /\ f[0] = s
        /\ \A k \in 1 .. n : f[k - 1] \in X /\ f[k] = h[<<k, f[k - 1]>>]
    BY <1>3, <1>6 DEF Rec
  <2>2. ASSUME NEW k \in 0 .. n PROVE f[k] = Loop(f)[k]
    <3>1. CASE k = 0
      BY <2>1, <3>1
    <3>2. CASE k # 0
      <4>1. k \in 1 .. n
        BY <1>3, <3>2
      <4> QED BY <1>5, <2>1, <3>2, <4>1
    <3> QED BY <3>1, <3>2
  <2> QED BY <2>1, <2>2
<1>8. e = Loop(e)
  <2> HIDE DEF Loop
  <2> QED BY <1>7
<1> HIDE DEF e
<1>9. e[0] = s /\ \A k \in 1 .. n : e[k] = Op(e[k - 1], k)
  <2>1. 0 \in 0 .. n /\ \A k \in 1 .. n : k \in 0 .. n /\ k # 0
    BY <1>3
  <2>2. \A k \in 0 .. n : Loop(e)[k] = IF k = 0 THEN s ELSE Op(e[k - 1], k)
    OBVIOUS
  <2> HIDE DEF Loop
  <2>3. \A k \in 0 .. n : e[k] = IF k = 0 THEN s ELSE Op(e[k - 1], k)
    BY <1>8, <2>2
  <2> QED BY <2>1, <2>3
<1>10. \A k \in 0 .. n : e[k] \in X
  <2>1. \A k \in 1 .. n : e[k - 1] \in X => e[k] = h[<<k, e[k - 1]>>]
    BY <1>5, <1>9
  <2> QED BY <1>3, <1>5, <1>9, <2>1, LoopInside
<1>11. e[n] \in X
  BY <1>3, <1>10
<1>12. Laid(s, Walk(FitMon, s, mons))
  BY <1>4, <1>11, LayoutsLemma DEF X
<1> QED BY <1>12 DEF mons

\* configurenotify: the monitors are those that were found, and what
\* updategeom leaves of the lists is not touched again.
LEMMA ResizedSturdy ==
  ASSUME NEW s, Sturdy(s), NEW sc \in Screens, NEW at \in 1 .. Len(sc.heads)
  PROVE  LET t == Resized(s, sc, at)
         IN  /\ Sturdy(t) /\ Managed(t) = Managed(s)
             /\ Those(t.clients[1], {c \in Managed(s) : s.mon[c] = 1}) = s.clients[1]
<1> DEFINE v == Updated(s, sc.heads)
           a == v.s
           d == v.dirty
           x == [a EXCEPT !.screen = sc.size]
           m == IF d THEN at ELSE x.selmon
           b == [x EXCEPT !.selmon = m]
           w == Walk(FitMon, b, [i \in 1 .. b.nmons |-> i])
           f == focus(w, NULL)
           t == ArrangedAll(f)
           K == {c \in Managed(s) : s.mon[c] = 1}
<1>1. Resized(s, sc, at) = IF d \/ sc.size # s.screen THEN t ELSE b
  BY DEF Resized, FitMon, Fit
<1>2. sc.heads \in Seq(Rects) /\ Len(sc.heads) \in Mon /\ sc.size \in Int \X Int
  BY DEF Mon
<1>3. /\ Sturdy(a) /\ Managed(a) = Managed(s) /\ a.nmons = Len(sc.heads)
      /\ Those(a.clients[1], K) = s.clients[1]
  BY <1>2, UpdatedSturdy
<1> HIDE DEF v, a, d, K
<1>4. Stays(a, x)
  <2>1. Tuned(a, x)
    BY <1>2, <1>3, TunedPut, SturdyFields
  <2> HIDE DEF x
  <2> QED BY <1>3, <2>1, TunedStays
<1> HIDE DEF x
<1>5. Stays(x, b)
  <2>1. Sturdy(x) /\ x.nmons = Len(sc.heads)
    BY <1>3, <1>4, StaysFields DEF Stays
  <2>2. m \in Mons(x)
    BY <2>1, SturdyFields DEF Mons
  <2> HIDE DEF m
  <2> QED BY <2>1, <2>2, SelmonStays
<1> HIDE DEF b
<1>6. Sturdy(b) /\ Typed(b) /\ b.nmons \in Mon
  BY <1>5, StaysFields, SturdyFields
<1>7. Laid(b, w)
  BY <1>6, FitAllLaid
<1> HIDE DEF w
<1>8. Stays(b, w)
  BY <1>6, <1>7, LaidStays
<1>9. Stays(w, f)
  BY <1>8, StaysFields, FocusStays
<1> HIDE DEF f
<1>10. Stays(f, t)
  BY <1>9, StaysFields, ArrangedAllStays
<1> HIDE DEF t
<1>11. Stays(a, b) /\ Stays(a, t)
  BY <1>4, <1>5, <1>8, <1>9, <1>10, StaysTrans
<1> DEFINE r == Resized(s, sc, at)
<1>12. Stays(a, r)
  BY <1>1, <1>11
<1> HIDE DEF r
<1>13. Sturdy(r) /\ Managed(r) = Managed(a) /\ r.clients = a.clients
  BY <1>12, StaysFields
<1> QED BY <1>3, <1>13 DEF K, r

-----------------------------------------------------------------------------
(* The inductive invariant.  While a drag has its own event loop, clients   *)
(* may be mapped and ask for frames: none of that moves the client that is  *)
(* dragged or the selected monitor.                                         *)

Pointing ==
  /\ pressed \in WinOrNull /\ can \in Users
  /\ drag \in {Idle} \cup [how : {"move", "size"}, c : Win]
  /\ drag # Idle => drag.c \in Managed(st) /\ st.mon[drag.c] = st.selmon

DesktopInv == Sturdy(st) /\ Pointing

\* A handler of the main loop, and anything else after which nothing is dragged.
LEMMA IdleStep ==
  ASSUME DesktopInv, Sturdy(st'), drag' = Idle, pressed' \in WinOrNull, can' = can
  PROVE  DesktopInv'
<1>1. Sturdy(st)'
  OBVIOUS
<1>2. Pointing'
  BY DEF DesktopInv, Pointing
<1> QED BY <1>1, <1>2 DEF DesktopInv

LEMMA StaysStep ==
  ASSUME DesktopInv, Stays(st, st'), drag' = Idle, pressed' \in WinOrNull, can' = can
  PROVE  DesktopInv' /\ st'.nmons = st.nmons
  BY IdleStep DEF Stays

LEMMA HandlerStep ==
  ASSUME DesktopInv, Stays(st, st'), drag = Idle, UNCHANGED <<pressed, drag, can>>
  PROVE  DesktopInv' /\ st'.nmons = st.nmons
  BY StaysStep DEF DesktopInv, Pointing

\* Something that happens during a drag as well.
LEMMA DuringStep ==
  ASSUME DesktopInv, Stays(st, st'), st'.selmon = st.selmon, UNCHANGED <<pressed, drag, can>>
  PROVE  DesktopInv' /\ st'.nmons = st.nmons
<1>1. Sturdy(st') /\ Managed(st') = Managed(st) /\ st'.mon = st.mon
  BY StaysFields
<1>2. Sturdy(st)'
  BY <1>1
<1>3. Pointing'
  BY <1>1 DEF DesktopInv, Pointing
<1> QED BY <1>2, <1>3 DEF DesktopInv, Stays

\* A setting of the selected monitor, or of a client.
LEMMA TunedArranged ==
  ASSUME NEW s, Sturdy(s), NEW t, Tuned(s, t)
  PROVE  Stays(s, Arranged(t, t.selmon))
<1>1. Stays(s, t) /\ Sturdy(t) /\ t.selmon \in Mon
  BY TunedStays, StaysFields, SturdyFields
<1>2. Stays(t, Arranged(t, t.selmon))
  BY <1>1, ArrangedStays
<1> QED BY <1>1, <1>2, StaysTrans

LEMMA LayoutStep ==
  ASSUME DesktopInv, Layout
  PROVE  DesktopInv' /\ st'.nmons = st.nmons
<1> DEFINE m == st.selmon
<1>1. /\ Sturdy(st) /\ Typed(st) /\ m \in Mon
      /\ st.bar \in [Mon -> BOOLEAN] /\ st.gap \in [Mon -> 0 .. MaxGap]
      /\ st.nmaster \in [Mon -> Nat] /\ st.mfact \in [Mon -> Nat]
      /\ st.lay \in [Mon -> {"tile", "monocle", "float"}]
  BY SturdyFields, ExtFields DEF DesktopInv
<1> HIDE DEF m
<1>2. ASSUME NEW STATE s, Tuned(st, s), NEW f, LayoutKey(f, s)
      PROVE  DesktopInv' /\ st'.nmons = st.nmons
  <2>1. st' = Arranged(s, s.selmon) /\ drag = Idle /\ UNCHANGED <<pressed, drag, can>>
    BY <1>2 DEF LayoutKey, Handler
  <2>2. Stays(st, st')
    BY <1>1, <1>2, <2>1, TunedArranged
  <2> QED BY <2>1, <2>2, HandlerStep
<1>3. CASE togglebar
  <2> DEFINE v == [st.bar EXCEPT ![m] = ~@]
             s == [st EXCEPT !.bar = v]
  <2>1. v \in [Mon -> BOOLEAN]
    BY <1>1
  <2>2. LayoutKey("bar", s)
    BY <1>3 DEF togglebar, m
  <2> HIDE DEF v
  <2>3. Tuned(st, s)
    BY <1>1, <2>1, TunedPut
  <2> HIDE DEF s
  <2> QED BY <1>2, <2>2, <2>3
<1>4. ASSUME NEW i \in {-1, 0, 1}, setgaps(i) PROVE DesktopInv' /\ st'.nmons = st.nmons
  <2> DEFINE g == IF i = 0 \/ st.gap[m] + i < 0 THEN 0 ELSE st.gap[m] + i
             v == [st.gap EXCEPT ![m] = g]
             s == [st EXCEPT !.gap = v]
  <2>1. g <= MaxGap /\ LayoutKey("gap", s)
    BY <1>4 DEF setgaps, m
  <2>2. g \in 0 .. MaxGap
    BY <1>1, <2>1
  <2> HIDE DEF g
  <2>3. v \in [Mon -> 0 .. MaxGap]
    BY <1>1, <2>2
  <2> HIDE DEF v
  <2>4. Tuned(st, s)
    BY <1>1, <2>3, TunedPut
  <2> HIDE DEF s
  <2> QED BY <1>2, <2>1, <2>4
<1>5. ASSUME NEW i \in {-1, 1}, incnmaster(i) PROVE DesktopInv' /\ st'.nmons = st.nmons
  <2> DEFINE n == AtLeast(st.nmaster[m] + i, 0)
             v == [st.nmaster EXCEPT ![m] = n]
             s == [st EXCEPT !.nmaster = v]
  <2>1. n \in Masters /\ LayoutKey("master", s)
    BY <1>5 DEF incnmaster, m
  <2>2. n \in Nat
    BY <2>1
  <2> HIDE DEF n
  <2>3. v \in [Mon -> Nat]
    BY <1>1, <2>2
  <2> HIDE DEF v
  <2>4. Tuned(st, s)
    BY <1>1, <2>3, TunedPut
  <2> HIDE DEF s
  <2> QED BY <1>2, <2>1, <2>4
<1>6. ASSUME NEW f \in MFacts, setmfact(f) PROVE DesktopInv' /\ st'.nmons = st.nmons
  <2> DEFINE v == [st.mfact EXCEPT ![m] = f]
             s == [st EXCEPT !.mfact = v]
  <2>1. LayoutKey("mfact", s)
    BY <1>6 DEF setmfact, m
  <2>2. f \in Nat
    OBVIOUS
  <2>3. v \in [Mon -> Nat]
    BY <1>1, <2>2
  <2> HIDE DEF v
  <2>4. Tuned(st, s)
    BY <1>1, <2>3, TunedPut
  <2> HIDE DEF s
  <2> QED BY <1>2, <2>1, <2>4
<1>7. ASSUME NEW l \in {"tile", "monocle", "float"}, setlayout(l)
      PROVE  DesktopInv' /\ st'.nmons = st.nmons
  <2> DEFINE v == [st.lay EXCEPT ![m] = l]
             a == [st EXCEPT !.lay = v]
             s == [a EXCEPT !.tiling[m] = l # "float"]
  <2>1. /\ st' = (IF Sel = NULL THEN s ELSE Arranged(s, m))
        /\ drag = Idle /\ UNCHANGED <<pressed, drag, can>>
    BY <1>7 DEF setlayout, Handler, m
  <2>2. v \in [Mon -> {"tile", "monocle", "float"}]
    BY <1>1
  <2> HIDE DEF v
  <2>3. Stays(st, a) /\ Sturdy(a)
    <3>1. Tuned(st, a)
      BY <1>1, <2>2, TunedPut
    <3> HIDE DEF a
    <3> QED BY <1>1, <3>1, TunedStays, StaysFields
  <2> HIDE DEF a
  <2>4. Stays(st, s) /\ Sturdy(s)
    <3>1. (l # "float") \in BOOLEAN
      OBVIOUS
    <3>2. Stays(a, s)
      BY <1>1, <2>3, <3>1, TilingStays
    <3> HIDE DEF s
    <3> QED BY <2>3, <3>2, StaysTrans, StaysFields
  <2> HIDE DEF s
  <2>5. Stays(st, Arranged(s, m))
    BY <1>1, <2>4, ArrangedStays, StaysTrans
  <2>6. Stays(st, st')
    BY <2>1, <2>4, <2>5
  <2> QED BY <2>1, <2>6, HandlerStep
<1> QED BY <1>3, <1>4, <1>5, <1>6, <1>7 DEF Layout

LEMMA ModeStep ==
  ASSUME DesktopInv, Mode
  PROVE  DesktopInv' /\ st'.nmons = st.nmons
<1>1. Sturdy(st)
  BY DEF DesktopInv
<1>2. CASE togglefloating
  <2>1. st' = Floated(st) /\ drag = Idle /\ UNCHANGED <<pressed, drag, can>>
    BY <1>2 DEF togglefloating, Handler
  <2>2. Stays(st, st')
    BY <1>1, <2>1, FloatedStays
  <2> QED BY <2>1, <2>2, HandlerStep
<1>3. ASSUME NEW c \in Win, togglewin(c) PROVE DesktopInv' /\ st'.nmons = st.nmons
  <2> DEFINE s == IF st.mon[c] = st.selmon THEN st ELSE SwitchMon(st, st.mon[c])
  <2>1. /\ c \in Managed(st) /\ st' \in {HiddenAway(s, c), ShownAndSelected(s, c)}
        /\ drag = Idle /\ UNCHANGED <<pressed, drag, can>>
    BY <1>3 DEF togglewin, Handler
  <2>2. st.mon[c] \in Mons(st) /\ st.mon[c] \in Mon
    BY <1>1, <2>1, SturdyFields
  <2>3. Stays(st, s)
    BY <1>1, <2>2, StaysSelf, SwitchMonStays
  <2> HIDE DEF s
  <2>4. Sturdy(s) /\ c \in Managed(s)
    BY <2>1, <2>3, StaysFields
  <2>5. Stays(s, st')
    BY <2>1, <2>4, HiddenAwayStays, ShownAndSelectedStays
  <2>6. Stays(st, st')
    BY <2>3, <2>5, StaysTrans
  <2> QED BY <2>1, <2>6, HandlerStep
<1>4. ASSUME NEW c \in Win, NEW on \in BOOLEAN, FullscreenMessage(c, on)
      PROVE  DesktopInv' /\ st'.nmons = st.nmons
  <2>1. /\ c \in Managed(st) /\ st' = Fullscreened(st, c, on)
        /\ drag = Idle /\ UNCHANGED <<pressed, drag, can>>
    BY <1>4 DEF FullscreenMessage, Handler
  <2>2. Stays(st, st')
    BY <1>1, <2>1, FullscreenedStays
  <2> QED BY <2>1, <2>2, HandlerStep
<1> QED BY <1>2, <1>3, <1>4 DEF Mode

LEMMA MonStep ==
  ASSUME DesktopInv, NEW m \in Mons(st), focusmon(m) \/ tagmon(m)
  PROVE  DesktopInv' /\ st'.nmons = st.nmons
<1>1. Sturdy(st)
  BY DEF DesktopInv
<1>2. CASE focusmon(m)
  <2> DEFINE s == [st EXCEPT !.selmon = m]
  <2>1. st' = focus(s, NULL) /\ drag = Idle /\ UNCHANGED <<pressed, drag, can>>
    BY <1>2 DEF focusmon, Handler
  <2>2. Stays(st, s)
    BY <1>1, SelmonStays
  <2> HIDE DEF s
  <2>3. Stays(s, focus(s, NULL))
    BY <2>2, StaysFields, FocusStays
  <2>4. Stays(st, st')
    BY <2>1, <2>2, <2>3, StaysTrans
  <2> QED BY <2>1, <2>4, HandlerStep
<1>3. CASE tagmon(m)
  <2> DEFINE c == Sel
  <2>1. /\ c # NULL /\ st' = Sent(st, c, m)
        /\ drag = Idle /\ UNCHANGED <<pressed, drag, can>>
    BY <1>3 DEF tagmon, Handler
  <2>2. c \in Managed(st)
    BY <1>1, <2>1, SelManaged DEF Sel
  <2> HIDE DEF c
  <2>3. Sturdy(st') /\ st'.nmons = st.nmons
    <3> DEFINE t == Sent(st, c, m)
    <3>1. /\ Sturdy(t) /\ Managed(t) = Managed(st)
          /\ t.nmons = st.nmons /\ t.selmon = st.selmon
          /\ t.mon = [st.mon EXCEPT ![c] = m]
      BY <1>1, <2>2, SentSturdy
    <3>2. st' = t
      BY <2>1
    <3> HIDE DEF t
    <3> QED BY <3>1, <3>2
  <2>4. drag' = Idle /\ pressed' \in WinOrNull /\ can' = can
    BY <2>1 DEF DesktopInv, Pointing
  <2> QED BY <2>3, <2>4, IdleStep
<1> QED BY <1>2, <1>3

LEMMA WindowsStep ==
  ASSUME DesktopInv, Windows
  PROVE  DesktopInv' /\ st'.nmons = st.nmons
<1>1. Sturdy(st) /\ Typed(st)
  BY SturdyFields DEF DesktopInv
<1>2. ASSUME NEW w \in Win, NEW r \in Frames, maprequest(w, r)
      PROVE  DesktopInv' /\ st'.nmons = st.nmons
  <2> DEFINE t == Managing(st, w, r)
  <2>1. w \in Win \ Managed(st) /\ st' = t /\ UNCHANGED <<pressed, drag, can>>
    BY <1>2 DEF maprequest
  <2>2. r \in Rects
    OBVIOUS
  <2>3. /\ Sturdy(t) /\ Managed(t) = Managed(st) \cup {w}
        /\ t.nmons = st.nmons /\ t.selmon = st.selmon
        /\ \A c \in Managed(st) : t.mon[c] = st.mon[c]
    BY <1>1, <2>1, <2>2, ManagingSturdy
  <2> HIDE DEF t
  <2>4. Sturdy(st)' /\ st'.nmons = st.nmons
    BY <2>1, <2>3
  <2>5. Pointing'
    BY <2>1, <2>3 DEF DesktopInv, Pointing
  <2> QED BY <2>4, <2>5 DEF DesktopInv
<1>3. ASSUME NEW c \in Win, NEW q \in Requests, configurerequest(c, q[1], q[2])
      PROVE  DesktopInv' /\ st'.nmons = st.nmons
  <2>1. /\ c \in Managed(st) /\ st' = Requested(st, c, q[1], q[2])
        /\ UNCHANGED <<pressed, drag, can>>
    BY <1>3 DEF configurerequest
  <2>2. q[1] \in Rects
    BY RequestAssumption
  <2>3. Stays(st, st') /\ st'.selmon = st.selmon
    BY <1>1, <2>1, <2>2, RequestedStays
  <2> QED BY <2>1, <2>3, DuringStep
<1>4. ASSUME NEW w \in Win, unmapnotify(w) PROVE DesktopInv' /\ st'.nmons = st.nmons
  <2> DEFINE t == Forgotten(st, w)
  <2>1. /\ w \in Managed(st) /\ st' = t
        /\ drag = Idle /\ UNCHANGED <<pressed, drag, can>>
    BY <1>4 DEF unmapnotify, Handler
  <2>2. Sturdy(t) /\ t.nmons = st.nmons
    BY <1>1, <2>1, ForgottenSturdy
  <2> HIDE DEF t
  <2>3. Sturdy(st') /\ st'.nmons = st.nmons
    BY <2>1, <2>2
  <2>4. drag' = Idle /\ pressed' \in WinOrNull /\ can' = can
    BY <2>1 DEF DesktopInv, Pointing
  <2> QED BY <2>3, <2>4, IdleStep
<1>5. ASSUME NEW c \in Win, BorderRequest(c) PROVE DesktopInv' /\ st'.nmons = st.nmons
  <2> DEFINE v == [st.bw EXCEPT ![c] = border0]
             t == [st EXCEPT !.bw = v]
  <2>1. st' = t /\ UNCHANGED <<pressed, drag, can>>
    BY <1>5 DEF BorderRequest
  <2>2. v \in [Win -> Int]
    BY <1>1, ExtFields
  <2> HIDE DEF v
  <2>3. Tuned(st, t)
    BY <1>1, <2>2, TunedPut
  <2> HIDE DEF t
  <2>4. Stays(st, st') /\ st'.selmon = st.selmon
    BY <1>1, <2>1, <2>3, TunedStays
  <2> QED BY <2>1, <2>4, DuringStep
<1> QED BY <1>2, <1>3, <1>4, <1>5 DEF Windows

\* A drag takes the selected client, which is on the selected monitor.
LEMMA BeginStep ==
  ASSUME DesktopInv, NEW STATE s, Stays(st, s), NEW how \in {"move", "size"}, Begin(s, how),
         pressed' \in WinOrNull, can' = can
  PROVE  DesktopInv' /\ st'.nmons = st.nmons
<1> DEFINE c == s.sel[s.selmon]
           r == restack(s, s.selmon)
<1>1. Sturdy(s)
  BY StaysFields
<1>2. CASE st' \in {s, r} /\ drag' = Idle
  <2>1. Stays(s, r)
    BY <1>1, RestackStays
  <2> HIDE DEF r
  <2>2. Stays(st, st')
    BY <1>2, <2>1, StaysTrans
  <2> QED BY <1>2, <2>2, StaysStep
<1>3. CASE c # NULL /\ st' = r /\ drag' = [how |-> how, c |-> c]
  <2>1. c \in Managed(s) /\ s.mon[c] = s.selmon /\ c \in Win
    BY <1>1, <1>3, SelManaged
  <2> HIDE DEF c
  <2>2. Stays(s, r) /\ r.selmon = s.selmon
    BY <1>1, RestackStays
  <2> HIDE DEF r
  <2>3. /\ Sturdy(r) /\ c \in Managed(r) /\ r.mon[c] = r.selmon /\ r.nmons = st.nmons
    <3>1. r.nmons = s.nmons /\ s.nmons = st.nmons
      BY <2>2 DEF Stays
    <3> QED BY <2>1, <2>2, <3>1, StaysFields
  <2>4. Sturdy(st)' /\ st'.nmons = st.nmons
    BY <1>3, <2>3
  <2>5. drag'.c = c /\ drag' \in [how : {"move", "size"}, c : Win]
    BY <1>3, <2>1
  <2>6. Pointing'
    BY <1>3, <2>3, <2>5 DEF DesktopInv, Pointing
  <2> QED BY <2>4, <2>6 DEF DesktopInv
<1> QED BY <1>2, <1>3 DEF Begin

LEMMA DragStep ==
  ASSUME DesktopInv, NEW p \in Spots, DragMotion(p)
  PROVE  DesktopInv' /\ st'.nmons = st.nmons
<1> DEFINE c == drag.c
           q == Snapped(st, c, p)
           w == AtLeast(p[1], 1)
           h == AtLeast(p[2], 1)
<1>1. /\ Sturdy(st) /\ c \in Managed(st) /\ p \in Int \X Int
      /\ UNCHANGED <<pressed, drag, can>>
      /\ st' = (IF drag.how = "move" THEN MovedBy(st, c, q) ELSE ResizedBy(st, c, w, h))
  BY DEF DragMotion, DesktopInv, Pointing
<1> HIDE DEF c
<1>2. q \in Int \X Int
  BY <1>1, SnappedInt
<1>3. w \in Int /\ h \in Int
  BY <1>1 DEF AtLeast
<1> HIDE DEF q, w, h
<1>4. Stays(st, MovedBy(st, c, q)) /\ MovedBy(st, c, q).selmon = st.selmon
  BY <1>1, <1>2, MovedByStays
<1>5. Stays(st, ResizedBy(st, c, w, h)) /\ ResizedBy(st, c, w, h).selmon = st.selmon
  BY <1>1, <1>3, ResizedByStays
<1>6. Stays(st, st') /\ st'.selmon = st.selmon
  BY <1>1, <1>4, <1>5
<1> QED BY <1>1, <1>6, DuringStep

LEMMA ReleaseStep ==
  ASSUME DesktopInv, DragRelease
  PROVE  /\ DesktopInv' /\ st'.nmons = st.nmons
         /\ LET c == drag.c
                on(m) == Overlap(st.geo[c], WindowArea(st, m))
            IN  /\ st'.selmon = st'.mon[c]
                /\ \A m \in Mons(st) : on(m) <= on(st'.mon[c])
                /\ st'.mon[c] # st.mon[c] /\ ~HIDDEN(st, c) => st'.sel[st'.selmon] = c
<1> DEFINE c == drag.c
           on(m) == Overlap(st.geo[c], WindowArea(st, m))
           t == Dropped(st, c)
<1>1. /\ Sturdy(st) /\ c \in Managed(st) /\ st.mon[c] = st.selmon
      /\ st' = t /\ drag' = Idle /\ pressed' \in WinOrNull /\ can' = can
  BY DEF DragRelease, DesktopInv, Pointing
<1> HIDE DEF c
<1>2. /\ Sturdy(t) /\ t.nmons = st.nmons /\ t.selmon = t.mon[c]
      /\ \A m \in Mons(st) : on(m) <= on(t.mon[c])
      /\ t.mon[c] # st.mon[c] /\ ~HIDDEN(st, c) => t.sel[t.selmon] = c
  BY <1>1, DroppedSturdy
<1> HIDE DEF t, on
<1>3. DesktopInv' /\ st'.nmons = st.nmons
  <2>1. Sturdy(st') /\ st'.nmons = st.nmons
    BY <1>1, <1>2
  <2> QED BY <1>1, <2>1, IdleStep
<1>4. /\ st'.selmon = st'.mon[c]
      /\ \A m \in Mons(st) : on(m) <= on(st'.mon[c])
      /\ st'.mon[c] # st.mon[c] /\ ~HIDDEN(st, c) => st'.sel[st'.selmon] = c
  BY <1>1, <1>2
<1> QED BY <1>3, <1>4 DEF c, on

LEMMA PointerStep ==
  ASSUME DesktopInv, Pointer
  PROVE  DesktopInv' /\ st'.nmons = st.nmons
<1>1. Sturdy(st) /\ pressed \in WinOrNull /\ NULL \in WinOrNull
  BY DEF DesktopInv, Pointing, WinOrNull
<1>2. CASE btnrelease
  <2>1. drag' = Idle /\ pressed' \in WinOrNull /\ can' = can
    BY <1>1, <1>2 DEF btnrelease
  <2>2. \/ st' = st
        \/ pressed \in Managed(st)
           /\ (st' = minimizeclient(st, pressed) \/ st' = Maximized(st, pressed))
    BY <1>2 DEF btnrelease
  <2>3. Stays(st, st')
    BY <1>1, <2>2, StaysSelf, MinimizeclientStays, MaximizedStays
  <2> QED BY <2>1, <2>3, StaysStep
<1>3. CASE motionnotify
  <2> DEFINE s == IF pressed \in Managed(st) /\ st.mode[pressed].max
                  THEN Maximized(st, pressed) ELSE st
  <2>1. Begin(s, "move") /\ pressed' \in WinOrNull /\ can' = can
    BY <1>1, <1>3 DEF motionnotify
  <2>2. Stays(st, s)
    BY <1>1, StaysSelf, MaximizedStays
  <2> HIDE DEF s
  <2> QED BY <2>1, <2>2, BeginStep
<1>4. CASE DragRelease
  BY <1>4, ReleaseStep
<1>5. ASSUME NEW c \in Win, PressStrip(c) PROVE DesktopInv' /\ st'.nmons = st.nmons
  <2> DEFINE f == focus(st, c)
             r == restack(f, f.selmon)
  <2>1. /\ c \in Managed(st) /\ st' = r /\ drag' = Idle
        /\ pressed' \in WinOrNull /\ can' = can
    BY <1>5 DEF PressStrip, WinOrNull
  <2>2. Stays(st, f)
    BY <1>1, <2>1, FocusStays
  <2> HIDE DEF f
  <2>3. Stays(f, r)
    BY <2>2, StaysFields, RestackStays
  <2> HIDE DEF r
  <2>4. Stays(st, st')
    BY <2>1, <2>2, <2>3, StaysTrans
  <2> QED BY <2>1, <2>4, StaysStep
<1>6. ASSUME NEW c \in Win, NEW how \in {"move", "size"}, ClickClient(c, how)
      PROVE  DesktopInv' /\ st'.nmons = st.nmons
  <2> DEFINE s == IF st.mon[c] = st.selmon THEN st ELSE SwitchMon(st, st.mon[c])
             f == focus(s, c)
             r == restack(f, f.selmon)
  <2>1. /\ c \in Managed(st) /\ Begin(r, how) /\ pressed' \in WinOrNull /\ can' = can
    BY <1>1, <1>6 DEF ClickClient
  <2>2. st.mon[c] \in Mons(st)
    BY <1>1, <2>1, SturdyFields
  <2>3. Stays(st, s)
    BY <1>1, <2>2, StaysSelf, SwitchMonStays
  <2> HIDE DEF s
  <2>4. Sturdy(s) /\ c \in Managed(s) \cup {NULL}
    BY <2>1, <2>3, StaysFields
  <2>5. Stays(s, f)
    BY <2>4, FocusStays
  <2> HIDE DEF f
  <2>6. Stays(f, r)
    BY <2>5, StaysFields, RestackStays
  <2> HIDE DEF r
  <2>7. Stays(st, r)
    BY <2>3, <2>5, <2>6, StaysTrans
  <2> QED BY <2>1, <2>7, BeginStep
<1>7. ASSUME NEW p \in Spots, DragMotion(p) PROVE DesktopInv' /\ st'.nmons = st.nmons
  BY <1>7, DragStep
<1> QED BY <1>2, <1>3, <1>4, <1>5, <1>6, <1>7 DEF Pointer

LEMMA HotplugStep ==
  ASSUME DesktopInv, configurenotify
  PROVE  /\ DesktopInv' /\ Managed(st') = Managed(st)
         /\ Those(st'.clients[1], {c \in Managed(st) : st.mon[c] = 1}) = st.clients[1]
<1>0. PICK sc \in Screens : \E at \in 1 .. Len(sc.heads) : Handler(Resized(st, sc, at))
  BY DEF configurenotify
<1>1. PICK at \in 1 .. Len(sc.heads) :
        st' = Resized(st, sc, at) /\ drag = Idle /\ UNCHANGED <<pressed, drag, can>>
  BY <1>0 DEF Handler
<1> DEFINE t == Resized(st, sc, at)
<1>2. /\ Sturdy(t) /\ Managed(t) = Managed(st)
      /\ Those(t.clients[1], {c \in Managed(st) : st.mon[c] = 1}) = st.clients[1]
  BY ResizedSturdy DEF DesktopInv
<1>3. st' = t
  BY <1>1
<1> HIDE DEF t
<1>4. /\ Sturdy(st') /\ Managed(st') = Managed(st)
      /\ Those(st'.clients[1], {c \in Managed(st) : st.mon[c] = 1}) = st.clients[1]
  BY <1>2, <1>3
<1>5. drag' = Idle /\ pressed' \in WinOrNull /\ can' = can
  BY <1>1 DEF DesktopInv, Pointing
<1> QED BY <1>4, <1>5, IdleStep

\* main() starts on one of the screens, with the monitors that are there.
LEMMA InitStep ==
  ASSUME Init
  PROVE  DesktopInv
<1>1. PICK sc \in Screens : st = DesktopState(sc)
  BY DEF Init
<1> DEFINE i == InitialState
           g == Geometry(sc)
           h == [m \in Mon |-> IF m <= Len(sc.heads) THEN sc.heads[m] ELSE NoRect]
<1>2. /\ sc.size \in Nat \X Nat /\ sc.heads \in Seq(Rects)
      /\ Len(sc.heads) \in 1 .. NMon /\ gappx \in 0 .. MaxGap /\ border0 \in Int
  BY DesktopAssumption
<1>3. NoRect \in Rects
  BY RectLemma DEF NoRect
<1>4. h \in [Mon -> Rects]
  <2>1. \A m \in Mon : h[m] \in Rects
    <3> TAKE m \in Mon
    <3>1. CASE m <= Len(sc.heads)
      BY <1>2, <3>1 DEF Mon
    <3>2. CASE ~(m <= Len(sc.heads))
      BY <1>3, <3>2
    <3> QED BY <3>1, <3>2
  <2>2. h = [m \in Mon |-> h[m]]
    OBVIOUS
  <2> HIDE DEF h
  <2> QED BY <2>1, <2>2
<1>5. g = [head |-> h, bar |-> [m \in Mon |-> TRUE], lay |-> [m \in Mon |-> "tile"],
           gap |-> [m \in Mon |-> gappx], nmaster |-> [m \in Mon |-> 1],
           mfact |-> [m \in Mon |-> 50],
           geo |-> [w \in Win |-> NoRect], old |-> [w \in Win |-> NoRect],
           sm |-> [w \in Win |-> NoRect],
           bw |-> [w \in Win |-> 0], oldbw |-> [w \in Win |-> 0],
           xbw |-> [w \in Win |-> border0],
           nmons |-> Len(sc.heads), screen |-> sc.size]
  BY DEF Geometry
<1> HIDE DEF h
<1>6. DOMAIN g = Extent /\ DOMAIN i = Fields
  BY <1>5 DEF Extent, InitialState, Fields
<1>7. /\ g.head = h /\ g.bar = [m \in Mon |-> TRUE] /\ g.lay = [m \in Mon |-> "tile"]
      /\ g.gap = [m \in Mon |-> gappx] /\ g.nmaster = [m \in Mon |-> 1]
      /\ g.mfact = [m \in Mon |-> 50]
      /\ g.geo = [w \in Win |-> NoRect] /\ g.old = [w \in Win |-> NoRect]
      /\ g.sm = [w \in Win |-> NoRect]
      /\ g.bw = [w \in Win |-> 0] /\ g.oldbw = [w \in Win |-> 0]
      /\ g.xbw = [w \in Win |-> border0]
      /\ g.nmons = Len(sc.heads) /\ g.screen = sc.size
  BY <1>5
<1>8. g \in Extents
  <2>1. /\ g.bar \in [Mon -> BOOLEAN] /\ g.lay \in [Mon -> {"tile", "monocle", "float"}]
        /\ g.gap \in [Mon -> 0 .. MaxGap] /\ g.nmaster \in [Mon -> Nat]
        /\ g.mfact \in [Mon -> Nat] /\ g.bw \in [Win -> Int]
        /\ g.oldbw \in [Win -> Int] /\ g.xbw \in [Win -> Int]
        /\ g.nmons \in Mon /\ g.screen \in Int \X Int
    BY <1>2, <1>7 DEF Mon
  <2>2. g.head \in [Mon -> Rects] /\ g.geo \in [Win -> Rects]
        /\ g.old \in [Win -> Rects] /\ g.sm \in [Win -> Rects]
    BY <1>3, <1>4, <1>7
  <2>3. g = [head |-> g.head, bar |-> g.bar, lay |-> g.lay, gap |-> g.gap,
             nmaster |-> g.nmaster, mfact |-> g.mfact, geo |-> g.geo,
             old |-> g.old, sm |-> g.sm, bw |-> g.bw, oldbw |-> g.oldbw,
             xbw |-> g.xbw, nmons |-> g.nmons, screen |-> g.screen]
    BY <1>5, <1>7
  <2> HIDE DEF g
  <2> QED BY <2>1, <2>2, <2>3 DEF Extents
<1>9. st = [f \in Fields \cup Extent |-> IF f \in Extent THEN g[f] ELSE i[f]]
  BY <1>1, <1>6 DEF DesktopState
<1>10. i = [f \in Fields |-> i[f]] /\ g = [f \in Extent |-> g[f]]
  BY <1>5 DEF InitialState, Fields, Extent
<1>11. Good(i) /\ Managed(i) = {} /\ i.selmon = 1 /\ i \in State
  BY InitialStateLemma DEF InitialState, Good, Well
<1> HIDE DEF i, g
<1>12. Fields \cap Extent = {}
  BY DEF Fields, Extent
<1>13. Base(st) = i /\ Ext(st) = g /\ Full(st)
  <2>1. \A f \in Fields : st[f] = i[f]
    BY <1>9, <1>12
  <2>2. \A f \in Extent : st[f] = g[f]
    BY <1>9
  <2>3. Base(st) = i
    BY <1>10, <2>1 DEF Base
  <2>4. Ext(st) = g
    BY <1>10, <2>2 DEF Ext
  <2>5. Full(st)
    BY <1>9 DEF Full
  <2> QED BY <2>3, <2>4, <2>5
<1>14. Typed(st)
  BY <1>8, <1>11, <1>13 DEF Typed
<1>15. st.selmon = 1 /\ st.clients = i.clients /\ st.nmons = Len(sc.heads)
  <2>1. st.nmons = g.nmons
    BY <1>13 DEF Ext, Extent
  <2> QED BY <1>7, <1>11, <1>13, <2>1, BaseFields
<1>16. Housed(st)
  <2>0. \A m \in Mon : i.clients[m] = <<>>
    BY DEF i, InitialState
  <2>1. \A m \in Mon : Range(st.clients[m]) = {}
    BY <1>15, <2>0 DEF Range
  <2>2. Managed(st) = {}
    BY <2>1 DEF Managed
  <2> QED BY <1>2, <1>15, <2>2 DEF Housed, Mons
<1>17. Pointing
  BY DEF Init, Pointing, WinOrNull
<1> QED BY <1>11, <1>13, <1>14, <1>16, <1>17 DEF DesktopInv, Sturdy

\* Monitors come and go with the hotplug events only.
LEMMA NextStep ==
  ASSUME DesktopInv, Next
  PROVE  DesktopInv' /\ (st'.nmons = st.nmons \/ configurenotify)
<1>1. CASE Monitors
  BY <1>1, MonStep, HotplugStep DEF Monitors
<1> QED BY <1>1, LayoutStep, ModeStep, PointerStep, WindowsStep DEF Next

LEMMA DesktopInvariant == Spec => []DesktopInv
<1>1. Init => DesktopInv
  BY InitStep
<1>2. DesktopInv /\ [Next]_vars => DesktopInv'
  <2> SUFFICES ASSUME DesktopInv, [Next]_vars PROVE DesktopInv'
    OBVIOUS
  <2>1. CASE Next
    BY <2>1, NextStep
  <2>2. CASE UNCHANGED vars
    BY <2>2 DEF vars, DesktopInv, Pointing
  <2> QED BY <2>1, <2>2
<1> QED BY <1>1, <1>2, PTL DEF Spec

\* No handler but the release of the button ends a drag: the others run in the
\* main loop, when there is none, or leave it as it is.
LEMMA OnlyRelease ==
  ASSUME [Next]_vars, drag # Idle, drag' = Idle
  PROVE  DragRelease
<1>1. drag' # drag
  OBVIOUS
<1>2. ASSUME NEW s, Handler(s) PROVE FALSE
  BY <1>2 DEF Handler
<1>3. ~Layout
  BY <1>2 DEF Layout, togglebar, setgaps, incnmaster, setmfact, setlayout, LayoutKey
<1>4. ~Mode
  BY <1>2 DEF Mode, togglefloating, togglewin, FullscreenMessage
<1>5. ~Monitors
  BY <1>2 DEF Monitors, configurenotify, focusmon, tagmon
<1>6. ~Windows
  BY <1>1, <1>2 DEF Windows, maprequest, configurerequest, unmapnotify, BorderRequest
<1>7. Pointer => DragRelease
  BY <1>1 DEF Pointer, btnrelease, motionnotify, PressStrip, ClickClient, DragMotion
<1>8. Next
  BY <1>1 DEF vars
<1> QED BY <1>3, <1>4, <1>5, <1>6, <1>7, <1>8 DEF Next

-----------------------------------------------------------------------------
(* Theorems.                                                                *)

\* After any sequence of keys, messages, drags and hotplug events, for every
\* number of windows and monitors, each field holds a value of its type; in
\* particular the gap stays between 0 and its bound (setgaps), and the monitor
\* count between 1 and NMon (updategeom).
THEOREM TypeCorrect == Spec => []TypeOK
<1>1. DesktopInv => TypeOK
  <2> SUFFICES ASSUME DesktopInv PROVE TypeOK
    OBVIOUS
  <2>1. Typed(st) /\ Base(st) \in State
    BY DEF DesktopInv, Sturdy, Typed
  <2>2. DOMAIN InitialState = Fields
    BY DEF InitialState, Fields
  <2>3. [f \in DOMAIN InitialState |-> st[f]] \in State
    BY <2>1, <2>2 DEF Base
  <2>4. /\ st.nmons \in Mon /\ st.lay \in [Mon -> {"tile", "monocle", "float"}]
        /\ st.gap \in [Mon -> 0 .. MaxGap] /\ st.geo \in [Win -> Rects]
        /\ st.old \in [Win -> Rects] /\ st.sm \in [Win -> Rects]
    BY <2>1, ExtFields
  <2> QED BY <2>3, <2>4 DEF DesktopInv, Pointing, TypeOK
<1> QED BY <1>1, DesktopInvariant, PTL

\* Whatever monitors appear and disappear between keys, drags and map requests,
\* both lists of each monitor hold the clients whose mon it is, the selected
\* monitor is one of those that are left, and none of the removed ones keeps a
\* client (updategeom, sendmon, movemouse).
THEOREM MonitorsAlwaysSound == Spec => []MonitorsSound
<1>1. DesktopInv => MonitorsSound
  <2> SUFFICES ASSUME DesktopInv PROVE MonitorsSound
    OBVIOUS
  <2>1. /\ Consistent(st) /\ st.selmon \in Mons(st) /\ Typed(st)
        /\ \A c \in Managed(st) : st.mon[c] \in Mons(st)
    BY SturdyFields DEF DesktopInv
  <2>2. ASSUME NEW m \in Mon \ Mons(st) PROVE st.clients[m] = <<>> /\ st.sel[m] = NULL
    <3>1. st.clients[m] \in Seq(Win)
      BY <2>1, BaseFields DEF Typed, State
    <3>2. \A c \in Range(st.clients[m]) : st.mon[c] = m
      BY <2>1 DEF Consistent
    <3>3. Range(st.clients[m]) = {}
      BY <2>1, <3>2 DEF Managed
    <3>4. st.sel[m] = NULL
      BY <2>1, <3>3 DEF Consistent
    <3>5. st.clients[m] = <<>>
      <4> DEFINE q == st.clients[m]
      <4>1. q \in Seq(Win) /\ Range(q) = {}
        BY <3>1, <3>3
      <4> HIDE DEF q
      <4>2. Len(q) \in Nat /\ DOMAIN q = 1 .. Len(q)
        BY <4>1
      <4>3. \A i \in DOMAIN q : FALSE
        BY <4>1 DEF Range
      <4>4. Len(q) = 0
        <5>1. Len(q) # 0 => 1 \in DOMAIN q
          BY <4>2
        <5> QED BY <4>3, <5>1
      <4>5. q = <<>>
        BY <4>1, <4>4
      <4> QED BY <4>5 DEF q
    <3> QED BY <3>4, <3>5
  <2> QED BY <2>1, <2>2 DEF MonitorsSound
<1> QED BY <1>1, DesktopInvariant, PTL

\* A change of the number of monitors manages the same clients as before, and
\* the clients of the first monitor keep their order among those that are moved
\* to it from the removed ones (updategeom).
THEOREM HotplugAlwaysKeeps == Spec => HotplugKeepsClients
<1> DEFINE A == st'.nmons # st.nmons =>
                  /\ Managed(st') = Managed(st)
                  /\ Those(st'.clients[1], {c \in Managed(st) : st.mon[c] = 1})
                       = st.clients[1]
<1>1. DesktopInv /\ [Next]_vars => [A]_vars
  <2> SUFFICES ASSUME DesktopInv, [Next]_vars, st'.nmons # st.nmons PROVE A
    OBVIOUS
  <2>1. Next
    BY DEF vars
  <2>2. configurenotify
    BY <2>1, NextStep
  <2> QED BY <2>2, HotplugStep
<1> QED BY <1>1, DesktopInvariant, PTL DEF Spec, HotplugKeepsClients

\* Wherever the pointer went and whatever was mapped, moved or resized during the
\* drag, the window that is dropped is on the selected monitor, no monitor has
\* more of it, and one that changed monitors is the selected client there unless
\* it is hidden (movemouse, resizemouse, sendmon, focus).
THEOREM DropAlwaysLands == Spec => DropLands
<1> DEFINE A == drag # Idle /\ drag' = Idle =>
                  LET c == drag.c
                      on(m) == Overlap(st.geo[c], WindowArea(st, m))
                  IN  /\ st'.selmon = st'.mon[c]
                      /\ \A m \in Mons(st) : on(m) <= on(st'.mon[c])
                      /\ st'.mon[c] # st.mon[c] /\ ~HIDDEN(st, c)
                           => st'.sel[st'.selmon] = c
<1>1. DesktopInv /\ [Next]_vars => [A]_vars
  <2> SUFFICES ASSUME DesktopInv, [Next]_vars, drag # Idle, drag' = Idle PROVE A
    OBVIOUS
  <2>1. DragRelease
    BY OnlyRelease
  <2> QED BY <2>1, ReleaseStep
<1> QED BY <1>1, DesktopInvariant, PTL DEF Spec, DropLands

=============================================================================
