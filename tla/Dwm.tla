--------------------------------- MODULE Dwm ---------------------------------
(***************************************************************************)
(* The window manager: the event loop of dwm.c, one action per X event,    *)
(* key or button function, interleaved with the client programs, which     *)
(* create, unmap and destroy windows and move the input focus while events *)
(* about earlier changes are still queued for dwm, and with crashes and    *)
(* restarts of dwm on a server that keeps windows and properties.          *)
(***************************************************************************)
EXTENDS DwmState

CONSTANTS
  Masks,     \* the tag masks bound to keys and to the bar
  Layouts,   \* the kinds of layout the user switches to: TRUE is a tiling one
  Fullers,   \* windows that ask for fullscreen
  Floaters,  \* windows the user makes floating or maximizes
  Urgers,    \* windows that set the urgency hint or ask to be activated
  Thieves,   \* windows that take the input focus without asking
  Unmappers, \* windows that unmap themselves
  Withdrawers, \* windows that withdraw while iconic
  HidKeys,   \* the user uses focusstackhid
  Strays,    \* EnterNotify events are queued
  Restarts   \* dwm crashes or quits, and is started again

ASSUME DwmInputs ==
  /\ Masks \subseteq SUBSET Tag
  /\ Layouts \subseteq BOOLEAN
  /\ Fullers \cup Floaters \cup Urgers \cup Thieves
       \cup Unmappers \cup Withdrawers \subseteq Win
  /\ HidKeys \in BOOLEAN /\ Strays \in BOOLEAN /\ Restarts \in BOOLEAN

VARIABLES
  st,      \* the memory of dwm and the X server (module DwmState)
  phase,   \* where main() is: "down", "scan", "run", "quit" or "cleanup"
  toscan,  \* the windows of XQueryTree that scan() has not looked at
  unmapq,  \* windows with an UnmapNotify queued for dwm
  destroyq, \* windows with a DestroyNotify, but no UnmapNotify, queued
  finq     \* windows with a FocusIn queued

queues == <<unmapq, destroyq, finq>>

vars == <<st, phase, toscan, unmapq, destroyq, finq>>

Init ==
  /\ st = InitialState
  /\ phase = "down"
  /\ toscan = {}
  /\ unmapq = {} /\ destroyq = {} /\ finq = {}

\* A handler that main's loop runs: dwm goes from st to s.
Handler(s) == /\ phase = "run"
              /\ st' = s
              /\ UNCHANGED <<phase, toscan, queues>>

Sel == st.sel[st.selmon]

-----------------------------------------------------------------------------
(* Keys.                                                                   *)

\* The next (or previous) client on selmon->clients from the selected one,
\* cyclically; with hid, clients that are hidden count too.
NextInStack(forward, hid) ==
  LET seq  == st.clients[st.selmon]
      cand == IF hid THEN VisibleOn(st, st.selmon) ELSE ShownOn(st, st.selmon)
      here == IF Sel = NULL THEN 0 ELSE IndexOf(seq, Sel)
      next == FirstFrom(seq, here + 1, cand)
      prev == LastUpTo(seq, here - 1, cand)
  IN  IF forward THEN IF Sel # NULL /\ next # NULL THEN next ELSE FirstIn(seq, cand)
      ELSE IF Sel = NULL THEN seq[1]
      ELSE IF prev # NULL THEN prev
      ELSE LastUpTo(seq, Len(seq), cand)

FocusStack(forward, hid) ==
  /\ IF Sel = NULL THEN hid ELSE ~st.mode[Sel].full
  /\ st.clients[st.selmon] # <<>>
  /\ LET c == NextInStack(forward, hid)
         f == focus(st, c)
         r == restack(f, f.selmon)
     IN  /\ c # NULL
         /\ Handler(IF HIDDEN(r, c)
                    THEN [showwin(r, c) EXCEPT !.hidsel[r.mon[c]] = TRUE]
                    ELSE r)

focusstackvis(forward) == FocusStack(forward, FALSE)

focusstackhid(forward) == HidKeys /\ FocusStack(forward, TRUE)

dirtomon(forward) ==
  IF forward THEN IF st.selmon = NMon THEN 1 ELSE st.selmon + 1
  ELSE IF st.selmon = 1 THEN NMon ELSE st.selmon - 1

focusmon(forward) ==
  /\ NMon > 1
  /\ Handler(focus([st EXCEPT !.selmon = dirtomon(forward)], NULL))

tagmon(forward) ==
  /\ Sel # NULL /\ NMon > 1
  /\ Handler(sendmon(st, Sel, dirtomon(forward)))

\* Wrong variant: the client stays selected when its new tags are not in view.
Tagged_NoFocus(s, mask) ==
  LET c == s.sel[s.selmon]
  IN  IF c = NULL \/ mask = {} THEN s ELSE arrange([s EXCEPT !.tags[c] = mask], s.selmon)

Tagged(s, mask) ==
  LET c == s.sel[s.selmon]
  IN  IF c = NULL \/ mask = {} THEN s ELSE Refocus([s EXCEPT !.tags[c] = mask])

SymDiff(A, B) == (A \ B) \cup (B \ A)

\* Wrong variant: the last tag of a client can be removed.
TagToggled_NoGuard(s, mask) ==
  LET c == s.sel[s.selmon]
  IN  IF c = NULL THEN s ELSE Refocus([s EXCEPT !.tags[c] = SymDiff(@, mask)])

TagToggled(s, mask) ==
  LET c == s.sel[s.selmon]
  IN  IF c = NULL \/ SymDiff(s.tags[c], mask) = {} THEN s
      ELSE Refocus([s EXCEPT !.tags[c] = SymDiff(@, mask)])

Viewed(s, mask) ==
  LET m == s.selmon
      i == 1 - s.seltags[m]
  IN  IF mask = View(s, m) THEN s
      ELSE Refocus([s EXCEPT !.seltags[m] = i,
                             !.tagset[m][i] = IF mask = {} THEN @ ELSE mask])

ViewToggled(s, mask) ==
  LET m == s.selmon
      v == SymDiff(View(s, m), mask)
  IN  IF v = {} THEN s ELSE Refocus([s EXCEPT !.tagset[m][s.seltags[m]] = v])

tag(mask)        == Handler(Tagged(st, mask))
toggletag(mask)  == Handler(TagToggled(st, mask))
view(mask)       == Handler(Viewed(st, mask))
toggleview(mask) == Handler(ViewToggled(st, mask))

\* What nexttiled() stops at.
Tiled(s, m) == {c \in ShownOn(s, m) : ~s.mode[c].float}

\* Wrong variant: the client is not taken from its old place.
Popped_NoDetach(s, c) ==
  LET f == focus(attach(s, c), c) IN arrange(f, f.mon[c])

Popped(s, c) ==
  LET f == focus(attach(detach(s, c), c), c) IN arrange(f, f.mon[c])

Zoomed(s) ==
  LET m   == s.selmon
      seq == s.clients[m]
      c   == s.sel[m]
  IN  IF ~s.tiling[m] \/ c = NULL \/ s.mode[c].float THEN s
      ELSE IF c # FirstIn(seq, Tiled(s, m)) THEN Popped(s, c)
      ELSE LET n == FirstFrom(seq, IndexOf(seq, c) + 1, Tiled(s, m))
           IN  IF n = NULL THEN s ELSE Popped(s, n)

zoom == Handler(Zoomed(st))

setlayout(tiling) ==
  Handler(LET s == [st EXCEPT !.tiling[st.selmon] = tiling]
          IN  IF Sel = NULL THEN s ELSE arrange(s, s.selmon))

togglefloating ==
  /\ Sel \in Floaters /\ ~st.mode[Sel].full
  /\ Handler(arrange([st EXCEPT !.mode[Sel].float = ~@], st.selmon))

show == Handler(showwin([st EXCEPT !.hidsel[st.selmon] = FALSE], Sel))

showall ==
  Handler(
    LET m   == st.selmon
        hid == {c \in VisibleOn(st, m) : HIDDEN(st, c)}
        s   == [st EXCEPT !.hidsel[m] = FALSE,
                          !.mapped = @ \cup hid, !.strip = @ \cup hid,
                          !.wmstate = [w \in Win |->
                             IF w \in hid THEN "Normal" ELSE @[w]]]
        c   == FirstIn(s.clients[m], VisibleOn(s, m))
        f   == IF s.sel[m] = NULL /\ c # NULL THEN focus(s, c) ELSE s
    IN  restack(f, m))

-----------------------------------------------------------------------------
(* Buttons.                                                                *)

\* buttonpress: the monitor of the window that was clicked is selected first.
ClickMon(m) == IF m = st.selmon THEN st ELSE SwitchMon(st, m)

ClickTag(m, mask) ==
  /\ mask # {}
  /\ \E Op \in {"view", "toggleview", "tag", "toggletag"} :
       Handler(CASE Op = "view"       -> Viewed(ClickMon(m), mask)
                 [] Op = "toggleview" -> ViewToggled(ClickMon(m), mask)
                 [] Op = "tag"        -> Tagged(ClickMon(m), mask)
                 [] Op = "toggletag"  -> TagToggled(ClickMon(m), mask))

\* togglewin(c), c being the client of the tab that was clicked.
Toggled(s, c) ==
  IF c = s.sel[s.selmon]
  THEN LET h == hidewin(s, c) IN arrange(focus(h, NULL), s.mon[c])
  ELSE LET f == focus(showwin(s, c), c) IN restack(f, f.selmon)

\* The tabs of a bar: the visible clients; a client that is not visible is
\* hit only at the head of the list, by a click on the pixel where tabs start.
Tabs(s, m) ==
  VisibleOn(s, m) \cup (IF s.clients[m] = <<>> THEN {} ELSE {s.clients[m][1]})

ClickTab(m) ==
  LET s == ClickMon(m)
  IN  \E c \in Tabs(s, m) : Handler(Toggled(s, c))

\* A click on the rest of a bar.
ClickBar(m) == m # st.selmon /\ Handler(ClickMon(m))

ClickTabZoom(m) == m # st.selmon /\ Handler(Zoomed(ClickMon(m)))

\* A press on a client window selects its monitor and then the client.
ClickClient(c) ==
  /\ c \in Managed(st) \cap st.mapped
  /\ LET f == focus(ClickMon(st.mon[c]), c) IN Handler(restack(f, f.selmon))

\* A press on a titlebar does not select the monitor first.
ClickStrip(c) ==
  /\ c \in st.strip \cap Managed(st)
  /\ LET f == focus(st, c) IN Handler(restack(f, f.selmon))

\* The release over the minimize button of the titlebar that was pressed.
minimizeclient(c) ==
  /\ c \in st.strip \cap Managed(st)
  /\ Handler(IF HIDDEN(st, c)
             THEN LET f == focus(showwin(st, c), c) IN restack(f, f.mon[c])
             ELSE arrange(focus(hidewin(st, c), NULL), st.mon[c]))

\* The release over the maximize button.
togglemaximize(c) ==
  /\ c \in st.strip \cap Managed(st) \cap Floaters /\ ~st.mode[c].full
  /\ LET d == st.mode[c]
     IN  Handler(arrange(
           [st EXCEPT !.mode[c] =
              IF d.max THEN [d EXCEPT !.max = FALSE, !.float = d.smf]
              ELSE [d EXCEPT !.max = TRUE, !.float = TRUE, !.smf = d.float]],
           st.mon[c]))

\* The end of movemouse and resizemouse: the client was dropped on monitor m.
DropOnMon(m) ==
  /\ Sel # NULL /\ m # st.selmon
  /\ ~st.mode[Sel].full /\ ~st.mode[Sel].max
  /\ Handler(LET s == restack(st, st.selmon)
             IN  focus([sendmon(s, Sel, m) EXCEPT !.selmon = m], NULL))

-----------------------------------------------------------------------------
(* X events.                                                               *)

\* The client maps a window: a new one, or again one that it withdrew.
maprequest(w) ==
  /\ w \notin Managed(st) \cup st.mapped \cup unmapq \cup destroyq
  /\ \E full \in IF w \in Fullers THEN BOOLEAN ELSE {FALSE} :
       Handler(manage([st EXCEPT !.alive = @ \cup {w},
                                 !.fsprop = IF full THEN @ \cup {w} ELSE @ \ {w}],
                      w))

\* The UnmapNotify of a client's own unmap, or of its destruction.
unmapnotify(w) ==
  /\ phase = "run" /\ w \in unmapq
  /\ unmapq' = unmapq \ {w}
  /\ st' = IF w \in Managed(st) THEN unmanage(st, w, FALSE) ELSE st
  /\ UNCHANGED <<phase, toscan, destroyq, finq>>

\* The synthetic UnmapNotify of a client that withdraws while it is iconic.
unmapnotifySent(w) ==
  /\ w \in Withdrawers \cap Managed(st) /\ HIDDEN(st, w)
  /\ Handler(setclientstate(st, w, "Withdrawn"))

\* Wrong variant: only the selected client is unmanaged.
destroynotify_OnlySel(w) ==
  /\ phase = "run" /\ w \in destroyq
  /\ destroyq' = destroyq \ {w}
  /\ st' = IF w = Sel THEN unmanage(st, w, TRUE) ELSE st
  /\ UNCHANGED <<phase, toscan, unmapq, finq>>

destroynotify(w) ==
  /\ phase = "run" /\ w \in destroyq
  /\ destroyq' = destroyq \ {w}
  /\ st' = IF w \in Managed(st) THEN unmanage(st, w, TRUE) ELSE st
  /\ UNCHANGED <<phase, toscan, unmapq, finq>>

enternotify ==
  LET w == st.enterq
      s == [st EXCEPT !.enterq = NULL]
  IN  /\ w # NULL
      /\ Handler(IF w \notin Managed(s) \/ w = Sel THEN s
                 ELSE IF s.mon[w] = s.selmon THEN focus(s, w)
                 ELSE focus([unfocus(s, Sel, TRUE) EXCEPT !.selmon = s.mon[w]], w))

\* motionnotify, or EnterNotify of the root, on another monitor.
PointerOnMon(m) == NMon > 1 /\ Handler(SwitchMon(st, m))

\* Wrong variant: a client of dwm keeps the focus it took.
focusin_Trusting(w) ==
  /\ phase = "run" /\ w \in finq
  /\ finq' = finq \ {w}
  /\ st' = IF Sel # NULL /\ w \notin Managed(st) THEN setfocus(st, Sel) ELSE st
  /\ UNCHANGED <<phase, toscan, unmapq, destroyq>>

focusin(w) ==
  /\ phase = "run" /\ w \in finq
  /\ finq' = finq \ {w}
  /\ st' = IF Sel # NULL /\ w # Sel THEN setfocus(st, Sel) ELSE st
  /\ UNCHANGED <<phase, toscan, unmapq, destroyq>>

\* clientmessage: _NET_ACTIVE_WINDOW, and _NET_WM_STATE of fullscreen.
ActivateMessage(c) ==
  /\ c \in Urgers \cap Managed(st)
  /\ c # Sel /\ c \notin st.urgent
  /\ Handler(seturgent(st, c, TRUE))

FullscreenMessage(c, on) ==
  c \in Fullers \cap Managed(st) /\ Handler(setfullscreen(st, c, on))

\* Wrong variant: the selected client becomes urgent like any other.
updatewmhints_Selected(c) ==
  /\ c \in Urgers \cap Managed(st)
  /\ Handler([st EXCEPT !.urgent = IF c \in st.hint THEN @ \cup {c} ELSE @ \ {c}])

\* propertynotify of WM_HINTS: updatewmhints.
updatewmhints(c) ==
  /\ c \in Urgers \cap Managed(st)
  /\ Handler(IF c = Sel /\ c \in st.hint THEN [st EXCEPT !.hint = @ \ {c}]
             ELSE IF c \in st.hint THEN [st EXCEPT !.urgent = @ \cup {c}]
             ELSE [st EXCEPT !.urgent = @ \ {c}])

-----------------------------------------------------------------------------
(* The life of the process.                                                *)

\* quit shows the hidden clients it meets from the top of the stack along
\* Client.next, the link of the other list, and leaves the event loop.
QuitWalk(s, m) ==
  LET seq == s.clients[m]
      top == FirstIn(s.stack[m], Win)
  IN  IF top = NULL THEN {} ELSE {seq[i] : i \in IndexOf(seq, top) .. Len(seq)}

quit ==
  /\ Restarts /\ phase = "run"
  /\ phase' = "quit"
  /\ LET hid == {c \in UNION {QuitWalk(st, m) : m \in Mon} : HIDDEN(st, c)}
     IN  st' = [st EXCEPT !.mapped = @ \cup hid, !.strip = @ \cup hid,
                          !.wmstate = [w \in Win |->
                             IF w \in hid THEN "Normal" ELSE @[w]]]
  /\ UNCHANGED <<toscan, queues>>

\* cleanup(): view(~0), then unmanage the tops of the stacks, one per step.
CleanupView ==
  /\ phase = "quit"
  /\ phase' = "cleanup"
  /\ st' = Viewed(st, Tag)
  /\ UNCHANGED <<toscan, queues>>

CleanupUnmanage(m) ==
  /\ phase = "cleanup"
  /\ st.stack[m] # <<>> /\ \A k \in 1 .. m - 1 : st.stack[k] = <<>>
  /\ st' = unmanage(st, st.stack[m][1], FALSE)
  /\ UNCHANGED <<phase, toscan, queues>>

Exit(s) ==
  /\ phase' = "down"
  /\ st' = ServerOf(s)
  /\ toscan' = {} /\ unmapq' = {} /\ destroyq' = {} /\ finq' = {}

CleanupEnd ==
  /\ phase = "cleanup"
  /\ \A m \in Mon : st.stack[m] = <<>>
  /\ Exit(FocusRoot(st))

\* dwm dies anywhere: its memory is lost, the X server keeps its state.
Crash == Restarts /\ phase # "down" /\ Exit(st)

\* setup(), and XQueryTree at the start of scan().
Start ==
  /\ phase = "down"
  /\ phase' = "scan"
  /\ st' = focus([st EXCEPT !.list = {}], NULL)
  /\ toscan' = st.alive
  /\ UNCHANGED queues

\* Wrong variant: iconic windows are not adopted.
Scan_MappedOnly(w) ==
  /\ phase = "scan" /\ w \in toscan
  /\ TransientFor[w] # NULL => \A v \in toscan : TransientFor[v] # NULL
  /\ toscan' = toscan \ {w}
  /\ st' = IF w \in st.alive \cap st.mapped THEN manage(st, w) ELSE st
  /\ UNCHANGED <<phase, queues>>

\* One iteration of the loops of scan(): transients come second.
Scan(w) ==
  /\ phase = "scan" /\ w \in toscan
  /\ TransientFor[w] # NULL => \A v \in toscan : TransientFor[v] # NULL
  /\ toscan' = toscan \ {w}
  /\ st' = IF w \in st.alive /\ (w \in st.mapped \/ HIDDEN(st, w))
           THEN manage(st, w) ELSE st
  /\ UNCHANGED <<phase, queues>>

ScanEnd ==
  /\ phase = "scan" /\ toscan = {}
  /\ phase' = "run"
  /\ UNCHANGED <<st, toscan, queues>>

-----------------------------------------------------------------------------
(* Client programs and the pointer.                                        *)

\* X reports to dwm, if it runs; a report that dwm would ignore is left out.
Reported(q, w) == IF phase = "down" THEN q ELSE q \cup {w}

ClientUnmap(w) ==
  /\ w \in Unmappers \cap st.mapped
  /\ st' = XUnmapWindow(st, w)
  /\ unmapq' = Reported(unmapq, w)
  /\ UNCHANGED <<phase, toscan, destroyq, finq>>

\* Also what XKillClient in killthis() does to the window.  A mapped window
\* is unmapped first, and unmapnotify leaves nothing for destroynotify.
ClientDestroy(w) ==
  /\ w \in st.alive
  /\ st' = [XUnmapWindow(st, w) EXCEPT
              !.alive = @ \ {w}, !.wmstate[w] = "Withdrawn",
              !.hint = @ \ {w}, !.fsprop = @ \ {w}]
  /\ unmapq' = IF w \in st.mapped THEN Reported(unmapq, w) ELSE unmapq
  /\ destroyq' = IF w \in Managed(st) \ unmapq' THEN Reported(destroyq, w)
                 ELSE destroyq
  /\ UNCHANGED <<phase, toscan, finq>>

\* Without a window manager a map request takes effect at once.
ClientMap(w) ==
  /\ phase = "down" /\ w \notin st.mapped
  /\ st' = [st EXCEPT !.alive = @ \cup {w}, !.mapped = @ \cup {w}]
  /\ UNCHANGED <<phase, toscan, queues>>

ClientHint(w) ==
  /\ w \in Urgers \cap st.alive
  /\ st' = [st EXCEPT !.hint = SymDiff(@, {w})]
  /\ UNCHANGED <<phase, toscan, queues>>

StealFocus(w) ==
  /\ w \in Thieves \cap st.mapped /\ finq = {} /\ st.focus # w
  /\ st' = [st EXCEPT !.focus = w]
  /\ finq' = Reported(finq, w)
  /\ UNCHANGED <<phase, toscan, unmapq, destroyq>>

\* The pointer moves, or windows move under it.
PointerEnters(w) ==
  /\ Strays /\ phase # "down" /\ st.enterq = NULL
  /\ w \in Managed(st) \cap st.mapped /\ ISVISIBLE(st, w)
  /\ st' = [st EXCEPT !.enterq = w]
  /\ UNCHANGED <<phase, toscan, queues>>

-----------------------------------------------------------------------------
Keys ==
  \/ \E forward \in BOOLEAN :
       \/ focusstackvis(forward)
       \/ focusstackhid(forward)
       \/ focusmon(forward)
       \/ tagmon(forward)
  \/ \E mask \in Masks : tag(mask) \/ toggletag(mask) \/ view(mask) \/ toggleview(mask)
  \/ zoom
  \/ \E tiling \in Layouts : setlayout(tiling)
  \/ togglefloating
  \/ show
  \/ showall

Buttons ==
  \/ \E m \in Mon :
       \/ \E mask \in Masks : ClickTag(m, mask)
       \/ ClickTab(m)
       \/ ClickBar(m)
       \/ ClickTabZoom(m)
       \/ DropOnMon(m)
  \/ \E c \in Win :
       \/ ClickClient(c)
       \/ ClickStrip(c)
       \/ minimizeclient(c)
       \/ togglemaximize(c)

Events ==
  \/ \E w \in Win :
       \/ maprequest(w)
       \/ unmapnotify(w)
       \/ unmapnotifySent(w)
       \/ destroynotify(w)
       \/ focusin(w)
       \/ ActivateMessage(w)
       \/ \E on \in BOOLEAN : FullscreenMessage(w, on)
       \/ updatewmhints(w)
  \/ enternotify
  \/ \E m \in Mon : PointerOnMon(m)

Process ==
  \/ quit
  \/ CleanupView
  \/ \E m \in Mon : CleanupUnmanage(m)
  \/ CleanupEnd
  \/ Crash
  \/ Start
  \/ \E w \in Win : Scan(w)
  \/ ScanEnd

Clients ==
  \E w \in Win :
    \/ ClientUnmap(w)
    \/ ClientDestroy(w)
    \/ ClientMap(w)
    \/ ClientHint(w)
    \/ StealFocus(w)
    \/ PointerEnters(w)

Next == Keys \/ Buttons \/ Events \/ Process \/ Clients

Spec == Init /\ [][Next]_vars

\* The event queue is served in order, so every queued event is handled, and
\* scan() is a loop that runs to its end.  Each step is named by what it does
\* to the queues, which only its handler (or the exit of dwm) does.
Serves(q, w) == phase = "run" /\ w \in q /\ q' = q \ {w}

FairSpec ==
  /\ Spec
  /\ \A w \in Win : /\ WF_unmapq(Serves(unmapq, w))
                    /\ WF_destroyq(Serves(destroyq, w))
                    /\ WF_finq(Serves(finq, w))
  /\ WF_toscan(phase = "scan" /\ \E w \in toscan : toscan' = toscan \ {w})
  /\ WF_phase(phase = "scan" /\ toscan = {} /\ phase' = "run")

-----------------------------------------------------------------------------
(* Correctness.                                                            *)

\* The type of the state and of the process variables; X maps no window that
\* does not exist.
TypeOK ==
  /\ st \in State
  /\ st.mapped \subseteq st.alive
  /\ phase \in {"down", "scan", "run", "quit", "cleanup"}
  /\ toscan \subseteq Win /\ unmapq \subseteq Win
  /\ destroyq \subseteq Win /\ finq \subseteq Win

\* The lists never lose, repeat or share a client, both lists of a monitor
\* hold the same clients, each client's mon is the monitor that lists it, and
\* no monitor's sel dangles (attach, detach, sendmon, unmanage, pop).
ListsConsistent == Consistent(st)

\* A managed client carries a tag and every tag set has one, so no client
\* and no view can become unreachable (tag, toggletag, toggleview, sendmon).
TagsNotEmpty ==
  /\ \A c \in Managed(st) : st.tags[c] # {}
  /\ \A m \in Mon, i \in {0, 1} : st.tagset[m][i] # {}

\* Between events the selected client is in view and on top of the focus
\* stack, which is what focus(NULL) and the drawing code rely on.
SelectionOnTop ==
  phase = "run" /\ Sel # NULL => ISVISIBLE(st, Sel) /\ st.stack[st.selmon][1] = Sel

\* Nothing is selected only when the selected monitor shows no window, however
\* windows came and went, were hidden, revealed, tagged or moved.
FocusNotLost ==
  phase = "run" /\ Sel = NULL => VisibleOn(st, st.selmon) \cap st.mapped = {}

\* The input focus of X is on the selected client as soon as no FocusIn is
\* queued, so that what is typed goes to the window dwm highlights (setfocus,
\* focusin).
InputFollowsSelection ==
  phase = "run" /\ finq = {} /\ Sel \in st.mapped \ NeverFocus => st.focus = Sel

\* An iconic client is unmapped and a normal one is mapped, unless its own
\* UnmapNotify is still queued (hidewin and showwin against client unmaps).
IconicIsUnmapped ==
  \A c \in Managed(st) :
    /\ HIDDEN(st, c) => c \notin st.mapped
    /\ st.wmstate[c] = "Normal" => c \in st.mapped \cup unmapq

\* _NET_CLIENT_LIST names exactly the managed clients (manage appends to it,
\* unmanage rebuilds it).
ClientListCurrent == phase # "down" => st.list = Managed(st)

\* A window that is looked at does not ask for attention.
SelectionNotUrgent == phase = "run" => Sel \notin st.urgent

\* After start-up, every window that is mapped or iconic is managed again,
\* whatever dwm was doing when it died.
NoWindowLost ==
  phase = "run" =>
    \A w \in st.alive : w \in st.mapped \/ HIDDEN(st, w) => w \in Managed(st)

\* A client that is on screen and not fullscreen has its titlebar mapped.
TitlebarShown ==
  phase = "run" =>
    \A c \in Managed(st) \cap st.mapped :
      st.wmstate[c] = "Normal" /\ ~st.mode[c].full => c \in st.strip

\* "Fullscreen windows hide the titlebar" (docs/suckless-patches.md:45).
FullscreenHidesTitlebar ==
  \A c \in Managed(st) : st.mode[c].full => c \notin st.strip

\* "Restores hidden clients on quit so they do not remain hidden after
\* restarting dwm" (docs/suckless-patches.md:19).
QuitRestoresHidden ==
  phase = "quit" => \A c \in Managed(st) : ~HIDDEN(st, c)

\* The input focus that a client takes returns to the selected client.
StolenFocusReturns ==
  []<>(phase # "run" \/ Sel \notin st.mapped \ NeverFocus \/ st.focus = Sel)

\* A window that is destroyed does not stay on the lists of dwm.
DestroyedIsForgotten ==
  \A w \in Win : (w \in Managed(st) \ st.alive)
                   ~> (w \notin Managed(st) \ st.alive \/ phase \in {"quit", "cleanup"})
=============================================================================
