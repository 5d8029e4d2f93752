------------------------------ MODULE DwmState ------------------------------
(***************************************************************************)
(* The state of dwm and of the X server as its handlers see them, and the  *)
(* functions of dwm.c that the handlers call.  dwm is one thread: a handler *)
(* is a sequential composition of calls, so each C function is an operator *)
(* from states to states (its first argument is the state it is called in) *)
(* and a handler is their composition.  A state is one record:             *)
(*                                                                         *)
(*   memory of dwm, per monitor                                            *)
(*     clients, stack   the lists Monitor.clients and Monitor.stack        *)
(*     sel, hidsel      the selected client; it was revealed from hidden   *)
(*     tagset, seltags  the two tag sets and which of them is in view      *)
(*     tiling           the current layout has an arrange function         *)
(*   memory of dwm, per client                                             *)
(*     mon, tags        Client.mon, Client.tags                            *)
(*     urgent           the clients with isurgent                          *)
(*     mode             isfloating, isfullscreen, oldstate, ismax, smf     *)
(*   selmon             the selected monitor                               *)
(*   X server                                                              *)
(*     alive, mapped    the client windows that exist, that are mapped     *)
(*     wmstate          WM_STATE of each window (none is "Withdrawn")      *)
(*     strip            the clients whose titlebar window is mapped        *)
(*     hint, fsprop     WM_HINTS urgency, _NET_WM_STATE fullscreen         *)
(*     focus            the input focus (NULL: the root window)            *)
(*     active, list     _NET_ACTIVE_WINDOW and _NET_CLIENT_LIST            *)
(*     enterq           the EnterNotify queued for dwm (at most one), which *)
(*                      restack() can discard                              *)
(*                                                                         *)
(* Geometry, drawing and the stacking order of X are left out.             *)
(***************************************************************************)
EXTENDS DwmLists

CONSTANTS
  Win,          \* the windows clients create
  NMon,         \* number of monitors; the list mons is 1, 2, ..., NMon
  Tag,          \* the tags
  FirstTag,     \* the tag every monitor starts with
  TransientFor, \* WM_TRANSIENT_FOR of each window, or NULL
  NeverFocus,   \* windows whose WM_HINTS say input = False
  FloatRule     \* windows that a rule of config.h makes floating

ASSUME DwmAssumption ==
  /\ NULL \notin Win
  /\ NMon \in Nat \ {0}
  /\ FirstTag \in Tag
  /\ TransientFor \in [Win -> Win \cup {NULL}]
  /\ NeverFocus \subseteq Win
  /\ FloatRule \subseteq Win

Mon == 1 .. NMon
WinOrNull == Win \cup {NULL}

NoMode == [float |-> FALSE, full |-> FALSE, old |-> FALSE,
           max |-> FALSE, smf |-> FALSE]

Modes == [float : BOOLEAN, full : BOOLEAN, old : BOOLEAN,
          max : BOOLEAN, smf : BOOLEAN]

\* The states.
State ==
  [clients : [Mon -> Seq(Win)],    stack   : [Mon -> Seq(Win)],
   sel     : [Mon -> WinOrNull],   hidsel  : [Mon -> BOOLEAN],
   tagset  : [Mon -> [{0, 1} -> SUBSET Tag]],
   seltags : [Mon -> {0, 1}],      tiling  : [Mon -> BOOLEAN],
   mon     : [Win -> Mon],         tags    : [Win -> SUBSET Tag],
   urgent  : SUBSET Win,           mode    : [Win -> Modes],
   selmon  : Mon,
   alive   : SUBSET Win,           mapped  : SUBSET Win,
   wmstate : [Win -> {"Withdrawn", "Normal", "Iconic"}],
   strip   : SUBSET Win,           hint    : SUBSET Win,
   fsprop  : SUBSET Win,           focus   : WinOrNull,
   active  : WinOrNull,            list    : SUBSET Win,
   enterq  : WinOrNull]

\* dwm after main() has allocated its monitors, on a server without windows.
InitialState ==
  [clients |-> [m \in Mon |-> <<>>], stack   |-> [m \in Mon |-> <<>>],
   sel     |-> [m \in Mon |-> NULL], hidsel  |-> [m \in Mon |-> FALSE],
   tagset  |-> [m \in Mon |-> [i \in {0, 1} |-> {FirstTag}]],
   seltags |-> [m \in Mon |-> 0],    tiling  |-> [m \in Mon |-> TRUE],
   mon     |-> [w \in Win |-> 1],    tags    |-> [w \in Win |-> {}],
   urgent  |-> {},                   mode    |-> [w \in Win |-> NoMode],
   selmon  |-> 1,
   alive   |-> {}, mapped |-> {}, wmstate |-> [w \in Win |-> "Withdrawn"],
   strip   |-> {}, hint   |-> {}, fsprop  |-> {},
   focus   |-> NULL, active |-> NULL, list |-> {},
   enterq  |-> NULL]

\* The same on the X server of s: what is left when the process of s is gone.
ServerOf(s) ==
  [InitialState EXCEPT !.alive = s.alive, !.mapped = s.mapped,
                       !.wmstate = s.wmstate, !.hint = s.hint,
                       !.fsprop = s.fsprop, !.focus = s.focus,
                       !.active = s.active, !.list = s.list]

Managed(s) == UNION {Range(s.clients[m]) : m \in Mon}

\* Both lists of a monitor hold the same clients once, those whose mon it is,
\* and its selected client is one of them.
Consistent(s) ==
  \A m \in Mon :
    /\ IsInjective(s.clients[m]) /\ IsInjective(s.stack[m])
    /\ Range(s.clients[m]) = Range(s.stack[m])
    /\ \A c \in Range(s.clients[m]) : s.mon[c] = m
    /\ s.sel[m] \in Range(s.clients[m]) \cup {NULL}

View(s, m) == s.tagset[m][s.seltags[m]]

ISVISIBLE(s, c) == s.tags[c] \cap View(s, s.mon[c]) # {}

HIDDEN(s, c) == s.wmstate[c] = "Iconic"

VisibleOn(s, m) == {c \in Range(s.clients[m]) : ISVISIBLE(s, c)}

ShownOn(s, m) == {c \in VisibleOn(s, m) : ~HIDDEN(s, c)}

-----------------------------------------------------------------------------
(* Requests to the X server.                                               *)

\* XUnmapWindow: a focus on the window reverts to the root (PointerRoot).
XUnmapWindow(s, w) ==
  [s EXCEPT !.mapped = @ \ {w}, !.focus = IF @ = w THEN NULL ELSE @]

\* XSetInputFocus: BadMatch, which xerror ignores, unless w is viewable.
XSetInputFocus(s, w) == IF w \in s.mapped THEN [s EXCEPT !.focus = w] ELSE s

\* XSetInputFocus(root) and XDeleteProperty(NetActiveWindow).
FocusRoot(s) == [s EXCEPT !.focus = NULL, !.active = NULL]

\* Wrong variant: a window that is gone gets a state.
setclientstate_Gone(s, c, state) == [s EXCEPT !.wmstate[c] = state]

\* XChangeProperty on a destroyed window is an error that xerror ignores.
setclientstate(s, c, state) ==
  IF c \in s.alive THEN [s EXCEPT !.wmstate[c] = state] ELSE s

-----------------------------------------------------------------------------
(* Functions of dwm.c.                                                     *)

unfocus(s, c, setfocusroot) == IF c # NULL /\ setfocusroot THEN FocusRoot(s) ELSE s

setfocus(s, c) ==
  IF c \in NeverFocus THEN s ELSE [XSetInputFocus(s, c) EXCEPT !.active = c]

\* restack discards the queued EnterNotify events, unless nothing is selected.
restack(s, m) == IF s.sel[m] = NULL THEN s ELSE [s EXCEPT !.enterq = NULL]

\* arrange(m) moves windows, which is left out, and restacks the monitor;
\* arrange(NULL) only moves windows.
arrange(s, m) == restack(s, m)

hidewin(s, c) ==
  IF c = NULL \/ HIDDEN(s, c) THEN s
  ELSE setclientstate([XUnmapWindow(s, c) EXCEPT !.strip = @ \ {c}], c, "Iconic")

\* Wrong variant: WM_STATE stays iconic.
showwin_StillIconic(s, c) ==
  IF c = NULL \/ ~HIDDEN(s, c) THEN s
  ELSE arrange([s EXCEPT !.mapped = @ \cup {c}, !.strip = @ \cup {c}], s.mon[c])

showwin(s, c) ==
  IF c = NULL \/ ~HIDDEN(s, c) THEN s
  ELSE arrange([s EXCEPT !.mapped = @ \cup {c}, !.strip = @ \cup {c},
                         !.wmstate[c] = "Normal"], s.mon[c])

attach(s, c) == [s EXCEPT !.clients[s.mon[c]] = Push(c, @)]

detach(s, c) == [s EXCEPT !.clients[s.mon[c]] = Unlink(@, c)]

\* Wrong variant: the client goes to the bottom of the stack.
attachstack_Bottom(s, c) == [s EXCEPT !.stack[s.mon[c]] = Append(@, c)]

attachstack(s, c) == [s EXCEPT !.stack[s.mon[c]] = Push(c, @)]

detachstack(s, c) ==
  LET m    == s.mon[c]
      rest == Unlink(s.stack[m], c)
  IN  [s EXCEPT !.stack[m] = rest,
                !.sel[m] = IF @ = c THEN FirstIn(rest, VisibleOn(s, m)) ELSE @]

seturgent(s, c, urg) ==
  IF urg THEN [s EXCEPT !.urgent = @ \cup {c}, !.hint = @ \cup {c}]
         ELSE [s EXCEPT !.urgent = @ \ {c}, !.hint = @ \ {c}]

\* Wrong variant: only the top of the stack is considered.
FocusTarget_TopOnly(s, c) ==
  IF c # NULL /\ ISVISIBLE(s, c) THEN c
  ELSE FirstIn(s.stack[s.selmon], {d \in ShownOn(s, s.selmon) : d = s.stack[s.selmon][1]})

\* The client focus(c) selects: c, or the topmost shown one of selmon.
FocusTarget(s, c) ==
  IF c # NULL /\ ISVISIBLE(s, c) THEN c
  ELSE FirstIn(s.stack[s.selmon], ShownOn(s, s.selmon))

\* First half of focus(c): the client that loses the selection is hidden
\* again if it was only revealed by focusstackhid.
LeaveSelected(s, c) ==
  LET m == s.selmon
  IN  IF s.sel[m] \in {NULL, c} \/ ~s.hidsel[m] THEN s
      ELSE LET h == hidewin(s, s.sel[m])
           IN  [(IF c = NULL THEN h ELSE arrange(h, h.mon[c]))
                   EXCEPT !.hidsel[m] = FALSE]

\* Second half of focus(c).
Select(s, c) ==
  IF c = NULL THEN [FocusRoot(s) EXCEPT !.sel[s.selmon] = NULL]
  ELSE LET m == s.mon[c]
           u == IF c \in s.urgent THEN seturgent(s, c, FALSE) ELSE s
           t == attachstack(detachstack([u EXCEPT !.selmon = m], c), c)
       IN  [setfocus(t, c) EXCEPT !.sel[m] = c]

focus(s, c) ==
  LET target == FocusTarget(s, c)
  IN  Select(LeaveSelected(s, target), target)

\* unfocus(selmon->sel, 1); selmon = m; focus(NULL);
SwitchMon(s, m) ==
  focus([unfocus(s, s.sel[s.selmon], TRUE) EXCEPT !.selmon = m], NULL)

\* Wrong variant: the titlebar does not come back.
setfullscreen_NoTitlebar(s, c, on) ==
  IF on = s.mode[c].full THEN s
  ELSE [s EXCEPT !.strip = @ \ {c},
                 !.fsprop = IF on THEN @ \cup {c} ELSE @ \ {c},
                 !.mode[c] = [@ EXCEPT !.full = on, !.float = on \/ s.mode[c].old,
                                       !.old = s.mode[c].float]]

setfullscreen(s, c, on) ==
  IF on /\ ~s.mode[c].full
  THEN [s EXCEPT !.fsprop = @ \cup {c}, !.strip = @ \ {c},
                 !.mode[c] = [@ EXCEPT !.full = TRUE, !.float = TRUE,
                                       !.old = s.mode[c].float]]
  ELSE IF ~on /\ s.mode[c].full
  THEN arrange([s EXCEPT !.fsprop = @ \ {c}, !.strip = @ \cup {c},
                         !.mode[c] = [@ EXCEPT !.full = FALSE,
                                               !.float = s.mode[c].old]],
               s.mon[c])
  ELSE s

\* The mode manage() gives a client: the rules, unless it is a transient of a
\* client, _NET_WM_STATE at that moment, then transience (dialogs and fixed
\* sizes are not modelled).
ManagedMode(s, w) ==
  LET rule  == w \in FloatRule /\ TransientFor[w] \notin Managed(s)
      full  == w \in s.fsprop
      trans == TransientFor[w] # NULL
  IN  [NoMode EXCEPT !.full  = full,
                     !.float = rule \/ full \/ trans,
                     !.old   = IF full THEN rule ELSE ~rule /\ trans]

\* manage(): the window is attached to its transient's monitor and tags, or
\* to the view of the selected monitor (the rules name no tag in TAGMASK and
\* no monitor), selected there, mapped unless hidden, and focus(NULL) runs.
manage(s, w) ==
  LET t == TransientFor[w]
      m == IF t \in Managed(s) THEN s.mon[t] ELSE s.selmon
      g == IF t \in Managed(s) THEN s.tags[t] ELSE View(s, s.selmon)
      a == attachstack(attach(
             [s EXCEPT !.mon[w] = m, !.tags[w] = g,
                       !.mode[w] = ManagedMode(s, w),
                       !.urgent = IF w \in s.hint THEN @ \cup {w} ELSE @ \ {w},
                       !.list = @ \cup {w}], w), w)
      n == IF HIDDEN(a, w) THEN a ELSE setclientstate(a, w, "Normal")
      b == arrange([n EXCEPT !.sel[m] = w], m)
      p == IF HIDDEN(b, w) THEN b
           ELSE [b EXCEPT !.mapped = @ \cup {w}, !.strip = @ \cup {w}]
  IN  focus(p, NULL)

\* Wrong variant: appends to the property without deleting it first.
updateclientlist_Appends(s) == [s EXCEPT !.list = @ \cup Managed(s)]

updateclientlist(s) == [s EXCEPT !.list = Managed(s)]

\* unmanage(): free(c) is the reset of the fields of c.  The titlebar goes with
\* them: the one that is not destroyed when the window was (destroyed) is on
\* the X server still, but no client knows it any more.
unmanage(s, c, destroyed) ==
  LET m == s.mon[c]
      d == detachstack(detach(s, c), c)
      x == IF destroyed THEN d ELSE setclientstate(d, c, "Withdrawn")
      f == [x EXCEPT !.mon[c] = 1, !.tags[c] = {}, !.urgent = @ \ {c},
                     !.mode[c] = NoMode, !.strip = @ \ {c}]
  IN  arrange(updateclientlist(focus(f, NULL)), m)

sendmon(s, c, m) ==
  IF s.mon[c] = m THEN s
  ELSE LET d == detachstack(detach(unfocus(s, c, TRUE), c), c)
           a == attachstack(attach([d EXCEPT !.mon[c] = m,
                                             !.tags[c] = View(d, m)], c), c)
       IN  focus(a, NULL)

\* Focus the first client again and arrange: the tail of tag(), view(), ...
Refocus(s) == LET f == focus(s, NULL) IN arrange(f, f.selmon)

=============================================================================
