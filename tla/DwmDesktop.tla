------------------------------ MODULE DwmDesktop -----------------------------
(***************************************************************************)
(* The windows of dwm on the desktop: where the layouts and the user put   *)
(* them, the monitors that come and go (updategeom), and the pointer: the  *)
(* press on a titlebar that becomes a drag, and the nested event loops of  *)
(* movemouse() and resizemouse().  Lists, selection and modes are those of *)
(* DwmState; geometry is that of DwmGeometry.  The clients' side of the    *)
(* queues, tags and hints are the matter of module Dwm.                    *)
(***************************************************************************)
EXTENDS DwmGeometry

CONSTANTS
  Screens,    \* what updategeom() may find: [size |-> <<sw, sh>>, heads |-> rects]
  Frames,     \* the rectangles windows are created with
  Requests,   \* what clients ask for: a rectangle, and the fields of it that count
  Spots,      \* what a drag can ask for: pairs of coordinates, or of sizes
  Masters,    \* bound: the values of nmaster
  MFacts,     \* bound: the values of mfact, in hundredths
  MaxGap,     \* bound: the gap stays below the height of a window area
  gappx, snap, \* of config.h
  border0,    \* the border width of windows before they are managed
  Users       \* what is done in one run: a set of sets of the names in Feats

Feats == {"bar", "gap", "master", "mfact", "layout", "float", "max",
          "hide", "full", "move", "size", "mons", "hotplug", "request", "close"}

ASSUME DesktopAssumption ==
  /\ Users \subseteq SUBSET Feats
  /\ Frames \subseteq Rects
  /\ Spots \subseteq Int \X Int
  /\ Masters \subseteq Nat /\ MFacts \subseteq 5 .. 95
  /\ MaxGap \in Nat /\ gappx \in 0 .. MaxGap /\ snap \in Nat /\ border0 \in Nat
  /\ \A sc \in Screens :
       /\ sc.size \in Nat \X Nat /\ sc.heads \in Seq(Rects)
       /\ Len(sc.heads) \in 1 .. NMon
       /\ \A m \in 1 .. Len(sc.heads) : MaxGap + bh < sc.heads[m].h
ASSUME RequestAssumption ==
  Requests \subseteq Rects \X SUBSET {"x", "y", "w", "h"}

VARIABLES
  st,       \* the state, as in DwmGeometry
  pressed,  \* btnpressed: the client whose titlebar is held down
  drag,     \* the locals of movemouse() or resizemouse(), or Idle
  can       \* which of Feats happens in this run

vars == <<st, pressed, drag, can>>

Idle == [how |-> "none", c |-> NULL]

Geometry(sc) ==
  [head  |-> [m \in Mon |-> IF m <= Len(sc.heads) THEN sc.heads[m] ELSE NoRect],
   bar   |-> [m \in Mon |-> TRUE],    lay     |-> [m \in Mon |-> "tile"],
   gap   |-> [m \in Mon |-> gappx],   nmaster |-> [m \in Mon |-> 1],
   mfact |-> [m \in Mon |-> 50],
   geo   |-> [w \in Win |-> NoRect],  old     |-> [w \in Win |-> NoRect],
   sm    |-> [w \in Win |-> NoRect],
   bw    |-> [w \in Win |-> 0],       oldbw   |-> [w \in Win |-> 0],
   xbw   |-> [w \in Win |-> border0],
   nmons |-> Len(sc.heads),           screen  |-> sc.size]

DesktopState(sc) ==
  LET g == Geometry(sc)
  IN  [f \in DOMAIN InitialState \cup DOMAIN g |->
         IF f \in DOMAIN g THEN g[f] ELSE InitialState[f]]

Init ==
  /\ \E sc \in Screens : st = DesktopState(sc)
  /\ pressed = NULL /\ drag = Idle
  /\ can \in Users

Sel == st.sel[st.selmon]
Mons(s) == 1 .. s.nmons

\* A handler of the main loop, which does not run while a drag has its own.
Handler(s) == /\ drag = Idle
              /\ st' = s
              /\ UNCHANGED <<pressed, drag, can>>

-----------------------------------------------------------------------------
(* Windows.                                                                *)

\* The slot manage() starts from: the frame asked for and the titlebar, moved
\* into the window area of the monitor.  The border width is still 0 here.
FirstSlot(s, m, r) ==
  LET a == WindowArea(s, m)
      q == Rect(r.x, r.y - bh - borderpx, r.w, r.h + bh + borderpx)
      x == IF q.x + q.w > a.x + a.w THEN a.x + a.w - q.w ELSE q.x
      y == IF q.y + q.h > a.y + a.h THEN a.y + a.h - q.h ELSE q.y
  IN  [q EXCEPT !.x = AtLeast(x, a.x), !.y = AtLeast(y, a.y)]

\* manage: the slot, and then fullscreen if the window has asked for it.
Managing(s, w, r) ==
  LET m == IF TransientFor[w] \in Managed(s) THEN s.mon[TransientFor[w]] ELSE s.selmon
      slot == FirstSlot(s, m, r)
      t == manage([s EXCEPT !.alive = @ \cup {w}, !.oldbw[w] = s.xbw[w],
                            !.bw[w] = borderpx, !.xbw[w] = borderpx,
                            !.geo[w] = slot], w)
      f == IF w \in s.fsprop
           THEN resizeclient([t EXCEPT !.oldbw[w] = borderpx, !.bw[w] = 0], w, t.head[m])
           ELSE t
  IN  Arranged(f, m)

maprequest(w, r) ==
  /\ w \notin Managed(st)
  /\ drag' = drag /\ UNCHANGED <<pressed, can>>
  /\ st' = Managing(st, w, r)

\* unmanage(c, 0), and free(c).
Forgotten(s, w) ==
  LET m == s.mon[w]
      t == unmanage([s EXCEPT !.mapped = @ \ {w},
                              !.focus = IF @ = w THEN NULL ELSE @,
                              !.xbw[w] = s.oldbw[w]], w, FALSE)
  IN  Arranged([t EXCEPT !.geo[w] = NoRect, !.old[w] = NoRect, !.sm[w] = NoRect,
                         !.bw[w] = 0, !.oldbw[w] = 0], m)

\* The client withdraws its window.  btnpressed keeps pointing to it.
unmapnotify(w) ==
  /\ "close" \in can /\ w \in Managed(st) \cap st.mapped
  /\ Handler(Forgotten(st, w))

\* The value_mask of a request says which of the fields of p count.
Masked(mask, p, q) ==
  Rect(IF "x" \in mask THEN p.x ELSE q.x, IF "y" \in mask THEN p.y ELSE q.y,
       IF "w" \in mask THEN p.w ELSE q.w, IF "h" \in mask THEN p.h ELSE q.h)

\* A client asks for a frame, or for parts of it; its slot is set without
\* resize().
Requested(s, c, r, mask) ==
  LET a == s.head[s.mon[c]]
      q == Masked(mask, Rect(a.x + r.x, a.y + r.y - bh - s.bw[c], r.w, r.h + bh + s.bw[c]),
                  s.geo[c])
      x == IF q.x + q.w > a.x + a.w /\ s.mode[c].float
           THEN a.x + (a.w \div 2 - (q.w + 2 * s.bw[c]) \div 2) ELSE q.x
      y == IF q.y + q.h > a.y + a.h /\ s.mode[c].float
           THEN a.y + (a.h \div 2 - (q.h + 2 * s.bw[c]) \div 2) ELSE q.y
  IN  IF s.mode[c].float \/ s.lay[s.selmon] = "float"
      THEN [s EXCEPT !.old[c] = Masked(mask, Noted(s, c), @), !.geo[c] = [q EXCEPT !.x = x, !.y = y]]
      ELSE s

configurerequest(c, r, mask) ==
  /\ "request" \in can /\ c \in Managed(st)
  /\ drag' = drag /\ UNCHANGED <<pressed, can>>
  /\ st' = Requested(st, c, r, mask)

\* A client asks for a border width: it is noted, and not set before the next
\* resizeclient().
BorderRequest(c) ==
  /\ "request" \in can /\ c \in Managed(st)
  /\ drag' = drag /\ UNCHANGED <<pressed, can>>
  /\ st' = [st EXCEPT !.bw[c] = border0]

-----------------------------------------------------------------------------
(* Keys and messages.                                                      *)

LayoutKey(feat, s) == feat \in can /\ Handler(Arranged(s, s.selmon))

togglebar == LayoutKey("bar", [st EXCEPT !.bar[st.selmon] = ~@])

\* Wrong variant: the gap may become negative.
setgaps_NoFloor(i) ==
  LET g == IF i = 0 THEN 0 ELSE st.gap[st.selmon] + i
  IN  g <= MaxGap /\ LayoutKey("gap", [st EXCEPT !.gap[st.selmon] = g])

setgaps(i) ==
  LET g == IF i = 0 \/ st.gap[st.selmon] + i < 0 THEN 0 ELSE st.gap[st.selmon] + i
  IN  g <= MaxGap /\ LayoutKey("gap", [st EXCEPT !.gap[st.selmon] = g])

incnmaster(i) ==
  LET n == AtLeast(st.nmaster[st.selmon] + i, 0)
  IN  n \in Masters /\ LayoutKey("master", [st EXCEPT !.nmaster[st.selmon] = n])

setmfact(f) == /\ st.lay[st.selmon] # "float"
               /\ LayoutKey("mfact", [st EXCEPT !.mfact[st.selmon] = f])

\* setlayout arranges only when a client is selected.
setlayout(l) ==
  LET m == st.selmon
      s == [st EXCEPT !.lay[m] = l, !.tiling[m] = l # "float"]
  IN  /\ "layout" \in can
      /\ Handler(IF Sel = NULL THEN s ELSE Arranged(s, m))

togglefloating == "float" \in can /\ Handler(Floated(st))

\* showwin arranges the monitor of the client, if it shows it.
Revealed(s, c) == IF HIDDEN(s, c) THEN Arranged(showwin(s, c), s.mon[c]) ELSE s

\* A hidden client is shown and selected; another one is hidden.
ShownAndSelected(s, c) == LET f == focus(Revealed(s, c), c) IN restack(f, f.selmon)
HiddenAway(s, c) == Arranged(focus(hidewin(s, c), NULL), s.mon[c])

\* togglewin, for a tab of any monitor.
togglewin(c) ==
  /\ "hide" \in can /\ c \in Managed(st) /\ ISVISIBLE(st, c)
  /\ LET s == IF st.mon[c] = st.selmon THEN st ELSE SwitchMon(st, st.mon[c])
     IN  Handler(IF c = s.sel[s.selmon] THEN HiddenAway(s, c) ELSE ShownAndSelected(s, c))

FullscreenMessage(c, on) ==
  /\ "full" \in can /\ c \in Managed(st) /\ st.mode[c].full # on
  /\ Handler(Fullscreened(st, c, on))

focusmon(m) == /\ "mons" \in can /\ st.nmons > 1 /\ m # st.selmon
               /\ Handler(focus([st EXCEPT !.selmon = m], NULL))

\* sendmon arranges every monitor.
Sent(s, c, m) == IF s.mon[c] = m THEN s ELSE ArrangedAll(sendmon(s, c, m))

tagmon(m) == /\ "mons" \in can /\ Sel # NULL /\ st.nmons > 1 /\ m # st.selmon
             /\ Handler(Sent(st, Sel, m))

-----------------------------------------------------------------------------
(* Monitors.                                                               *)

\* createmon, for the monitors from the n-th on.
Created(s, n) ==
  LET new(f, v) == [m \in Mon |-> IF m < n THEN f[m] ELSE v]
      z == InitialState
  IN  [s EXCEPT !.clients = new(@, <<>>), !.stack = new(@, <<>>),
                !.sel = new(@, NULL), !.hidsel = new(@, FALSE),
                !.tagset = new(@, z.tagset[1]), !.seltags = new(@, 0),
                !.tiling = new(@, TRUE), !.lay = new(@, "tile"),
                !.bar = new(@, TRUE), !.gap = new(@, gappx),
                !.nmaster = new(@, 1), !.mfact = new(@, 50)]

\* Wrong variant: the client stays on the stack of its old monitor.
MovedToFirst_NoStack(s, c) == attach([detach(s, c) EXCEPT !.mon[c] = 1], c)

\* Wrong variant: the client is only put on the stack of the first monitor.
MovedToFirst_Lost(s, c) ==
  attachstack([detachstack(detach(s, c), c) EXCEPT !.mon[c] = 1], c)

\* One client of a removed monitor.
MovedToFirst(s, c) ==
  attachstack(attach([detachstack(detach(s, c), c) EXCEPT !.mon[c] = 1], c), c)

\* The clients of a removed monitor, from the head of its list.
Emptied(s, m) == Walk(MovedToFirst, s, s.clients[m])

\* updategeom: monitors are added at the end of the list, take their place
\* again, or are removed from the end, their clients going to the first one.
Updated(s, heads) ==
  LET n == s.nmons
      nn == Len(heads)
      a == IF nn > n THEN Created(s, n + 1) ELSE s
      b == [a EXCEPT !.head = [m \in Mon |-> IF m <= nn THEN heads[m] ELSE NoRect],
                     !.nmons = nn]
      gone == [i \in 1 .. AtLeast(n - nn, 0) |-> n - i + 1]
      c == Walk(Emptied, b, gone)
      d == [Created(c, nn + 1) EXCEPT !.selmon = IF @ > nn THEN 1 ELSE @]
  IN  [s |-> d,
       dirty |-> nn > n \/ (\E m \in nn + 1 .. n : s.clients[m] # <<>>)
                   \/ \E m \in 1 .. AtMost(n, nn) : heads[m] # s.head[m]]

\* configurenotify of the root window.  wintomon(root) is the monitor the
\* pointer is on: any.
Resized(s, sc, at) ==
  LET u == Updated(s, sc.heads)
      b == [u.s EXCEPT !.screen = sc.size, !.selmon = IF u.dirty THEN at ELSE @]
      fit(t, c) == IF t.mode[c].full THEN resizeclient(t, c, t.head[t.mon[c]]) ELSE t
      fitmon(t, m) == Walk(fit, t, t.clients[m])
  IN  IF u.dirty \/ sc.size # s.screen
      THEN ArrangedAll(focus(Walk(fitmon, b, [m \in 1 .. b.nmons |-> m]), NULL))
      ELSE b

configurenotify ==
  /\ "hotplug" \in can
  /\ \E sc \in Screens : \E at \in 1 .. Len(sc.heads) : Handler(Resized(st, sc, at))

-----------------------------------------------------------------------------
(* The pointer.                                                            *)

\* Press of the first button on a titlebar.
PressStrip(c) ==
  /\ {"max", "hide", "move"} \cap can # {} /\ drag = Idle /\ c \in st.strip \cap Managed(st)
  /\ LET f == focus(st, c) IN st' = restack(f, f.selmon)
  /\ pressed' = c /\ UNCHANGED <<drag, can>>

minimizeclient(s, c) ==
  IF HIDDEN(s, c) THEN ShownAndSelected(s, c) ELSE HiddenAway(s, c)

\* The release: on the button that was pressed, or elsewhere.  (The button
\* that closes the window is left to unmapnotify.)
btnrelease ==
  /\ drag = Idle /\ pressed # NULL
  /\ \/ st' = st
     \/ /\ pressed \in st.strip \cap Managed(st)
        /\ \/ "hide" \in can /\ st' = minimizeclient(st, pressed)
           \/ "max" \in can /\ st' = Maximized(st, pressed)
  /\ pressed' = NULL /\ UNCHANGED <<drag, can>>

\* A drag begins: movemouse(NULL) and resizemouse(NULL) take the selected
\* client, which is neither fullscreen nor maximized.  XGrabPointer() or
\* getrootptr() may fail.
Begin(s, how) ==
  LET c == s.sel[s.selmon]
  IN  IF c = NULL \/ s.mode[c].full \/ s.mode[c].max
      THEN st' = s /\ drag' = Idle
      ELSE /\ st' = restack(s, s.selmon)
           /\ drag' \in {Idle, [how |-> how, c |-> c]}

\* The pointer moves more than 4 pixels while a titlebar is held down.  A
\* client that is gone is still pointed to, and read.
motionnotify ==
  /\ "move" \in can /\ drag = Idle /\ pressed # NULL
  /\ Begin(IF pressed \in Managed(st) /\ st.mode[pressed].max
           THEN Maximized(st, pressed) ELSE st, "move")
  /\ pressed' = NULL /\ UNCHANGED can

\* Alt and a button on a client window.
ClickClient(c, how) ==
  /\ how \in can /\ drag = Idle /\ c \in Managed(st) \cap st.mapped
  /\ LET s == IF st.mon[c] = st.selmon THEN st ELSE SwitchMon(st, st.mon[c])
         f == focus(s, c)
     IN  Begin(restack(f, f.selmon), how)
  /\ UNCHANGED <<pressed, can>>

Near(a, b) == a - b < snap /\ b - a < snap
Far(a, b) == a - b > snap \/ b - a > snap

\* Where movemouse puts the window for the pointer position p.
Snapped(s, c, p) ==
  LET a == WindowArea(s, s.selmon)
      along(x, size, lo, ext) == IF Near(lo, x) THEN lo
                                 ELSE IF Near(lo + ext, x + size) THEN lo + ext - size
                                 ELSE x
  IN  <<along(p[1], WIDTH(s, c), a.x, a.w), along(p[2], HEIGHT(s, c), a.y, a.h)>>

\* A drag that is far enough makes the selected client floating, and then
\* moves or resizes the dragged one if it floats.
Loosened(s, c, far) ==
  IF far /\ ~s.mode[c].float /\ s.lay[s.selmon] # "float" THEN Floated(s) ELSE s

Dragged(s, c, r) ==
  IF s.lay[s.selmon] = "float" \/ s.mode[c].float THEN resize(s, c, r, TRUE) ELSE s

MovedBy(s, c, q) ==
  LET t == Loosened(s, c, Far(q[1], s.geo[c].x) \/ Far(q[2], s.geo[c].y))
  IN  Dragged(t, c, [t.geo[c] EXCEPT !.x = q[1], !.y = q[2]])

\* resizemouse makes the slot as large as the pointer position says.
ResizedBy(s, c, w, h) ==
  LET b == WindowArea(s, s.mon[c])
      within == Inside(Rect(b.x + w, b.y + h, 0, 0), WindowArea(s, s.selmon))
      t == Loosened(s, c, within /\ (Far(w, s.geo[c].w) \/ Far(h, s.geo[c].h)))
  IN  Dragged(t, c, [t.geo[c] EXCEPT !.w = w, !.h = h])

DragMotion(p) ==
  /\ drag # Idle
  /\ LET c == drag.c
     IN  st' = IF drag.how = "move" THEN MovedBy(st, c, Snapped(st, c, p))
               ELSE ResizedBy(st, c, AtLeast(p[1], 1), AtLeast(p[2], 1))
  /\ UNCHANGED <<pressed, drag, can>>

\* Wrong variant: selmon stays where the drag began.
Dropped_KeepsMon(s, c) ==
  LET m == recttomon(s, s.geo[c]) IN IF m = s.selmon THEN s ELSE Sent(s, c, m)

Dropped(s, c) ==
  LET m == recttomon(s, s.geo[c])
  IN  IF m = s.selmon THEN s ELSE focus([Sent(s, c, m) EXCEPT !.selmon = m], NULL)

DragRelease ==
  /\ drag # Idle
  /\ st' = Dropped(st, drag.c) /\ drag' = Idle
  /\ UNCHANGED <<pressed, can>>

-----------------------------------------------------------------------------
Layout == \/ togglebar
          \/ \E i \in {-1, 0, 1} : setgaps(i)
          \/ \E i \in {-1, 1} : incnmaster(i)
          \/ \E f \in MFacts : setmfact(f)
          \/ \E l \in {"tile", "monocle", "float"} : setlayout(l)

Mode == \/ togglefloating
        \/ \E c \in Win : togglewin(c)
        \/ \E c \in Win, on \in BOOLEAN : FullscreenMessage(c, on)

Monitors == configurenotify \/ \E m \in Mons(st) : focusmon(m) \/ tagmon(m)

Pointer == \/ btnrelease \/ motionnotify \/ DragRelease
           \/ \E c \in Win : PressStrip(c)
           \/ \E c \in Win, how \in {"move", "size"} : ClickClient(c, how)
           \/ \E p \in Spots : DragMotion(p)

Windows == \/ \E w \in Win, r \in Frames : maprequest(w, r)
           \/ \E w \in Win, q \in Requests : configurerequest(w, q[1], q[2])
           \/ \E w \in Win : unmapnotify(w) \/ BorderRequest(w)

Next == Layout \/ Mode \/ Monitors \/ Pointer \/ Windows

Spec == Init /\ [][Next]_vars

-----------------------------------------------------------------------------
(* Correctness.                                                            *)

\* The type of the state: what DwmState says, and the geometry.
TypeOK ==
  /\ [f \in DOMAIN InitialState |-> st[f]] \in State
  /\ st.nmons \in Mon /\ st.lay \in [Mon -> {"tile", "monocle", "float"}]
  /\ st.gap \in [Mon -> 0 .. MaxGap]
  /\ \A w \in Win : {st.geo[w], st.old[w], st.sm[w]} \subseteq Rects
  /\ pressed \in WinOrNull /\ can \in Users
  /\ drag \in {Idle} \cup [how : {"move", "size"}, c : Win]

\* Whatever monitors come and go between the calls of keys, drags and map
\* requests, both lists of each monitor hold the clients whose mon it is, the
\* selected monitor exists, and no client is left on one that was removed
\* (updategeom, sendmon, the end of movemouse).
MonitorsSound ==
  /\ Consistent(st)
  /\ st.selmon \in Mons(st)
  /\ \A m \in Mon \ Mons(st) : st.clients[m] = <<>> /\ st.sel[m] = NULL

\* A monitor that is removed takes no client with it, and those that move to
\* the first monitor leave the order of its clients as it was (updategeom).
HotplugKeepsClients ==
  [][st'.nmons # st.nmons =>
       /\ Managed(st') = Managed(st)
       /\ Those(st'.clients[1], {c \in Managed(st) : st.mon[c] = 1}) = st.clients[1]]_vars

\* What a client's window and titlebar cover on the screen.
Covered(s, c) == [Outer(s, c) EXCEPT !.w = s.geo[c].w + 2 * s.xbw[c],
                                     !.h = s.geo[c].h + 2 * s.xbw[c]]

\* When the screen has changed, no window in view is left where there is no
\* monitor any more, and a fullscreen window fills the monitor it is now on,
\* also after moves, requests and layouts that were made for the old screen
\* (configurenotify, applysizehints).
HotplugBringsBack ==
  [][st'.screen # st.screen \/ st'.head # st.head =>
       \A m \in Mons(st') : \A c \in ShownOn(st', m) :
         IF st'.mode[c].full THEN st'.geo[c] = st'.head[m]
         ELSE Overlap(Covered(st', c), WindowArea(st', m)) > 0]_vars

\* There is room for the tiled windows in two columns and for all of them in
\* one, each with its titlebar and the smallest content it accepts.  A window
\* that is fullscreen counts: the others keep their places when it becomes so.
Room(s, m) ==
  LET a == WindowArea(s, m)
      g == s.gap[m]
      tiles == Those(s.clients[m], {c \in ShownOn(s, m) : s.mode[c].float => s.mode[c].full})
      left == (a.w * s.mfact[m]) \div 100
      wide == Max({bh} \cup {Hints[c].minw : c \in Range(tiles)}) + 2 * borderpx
      high == Max({bh} \cup {Hints[c].minh : c \in Range(tiles)}) + bh + 3 * borderpx
  IN  /\ Len(tiles) * (high + g) + g <= a.h
      /\ wide <= AtMost(left - g, a.w - left - 2 * g)

\* Where there is room, the tiled windows of a monitor lie inside of its
\* window area and do not cover each other (tile).  A client may ask for
\* another place while another monitor is selected; that is not excluded.
TilesApart ==
  "request" \notin can =>
    \A m \in Mons(st) :
      st.lay[m] = "tile" /\ Room(st, m) =>
        LET tiles == Range(nexttiled(st, m))
        IN  /\ \A c \in tiles : Inside(Covered(st, c), WindowArea(st, m))
            /\ \A c, d \in tiles : c # d => Overlap(Covered(st, c), Covered(st, d)) = 0

\* A window that is dropped belongs to the monitor most of it is on, that
\* monitor is the selected one, and if the window came from another one it is
\* the selected client there, whatever was mapped or moved during the drag
\* (movemouse, resizemouse).  A hidden window can be dragged, by a titlebar
\* that setfullscreen() mapped; focus() does not select it where it lands.
DropLands ==
  [][drag # Idle /\ drag' = Idle =>
       LET c == drag.c
           on(m) == Overlap(st.geo[c], WindowArea(st, m))
       IN  /\ st'.selmon = st'.mon[c]
           /\ \A m \in Mons(st) : on(m) <= on(st'.mon[c])
           /\ st'.mon[c] # st.mon[c] /\ ~HIDDEN(st, c) => st'.sel[st'.selmon] = c]_vars

\* "dragging the window buttons moves the window (4px threshold)" (dwm.c:1435).
DragMovesPressed ==
  [][pressed # NULL /\ pressed' = NULL /\ drag' # Idle => drag'.c = pressed]_vars
=============================================================================
