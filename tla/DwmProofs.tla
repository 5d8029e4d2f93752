------------------------------ MODULE DwmProofs ------------------------------
(***************************************************************************)
(* Every reachable state of dwm is well typed, its lists are consistent    *)
(* and no tag set in it is empty, for any windows, monitors, tags and any  *)
(* interleaving of events, clients, crashes and restarts.                  *)
(*                                                                         *)
(* ListsConsistent is not inductive alone.  showwin() maps a window whose  *)
(* WM_STATE is iconic, so such windows must exist; manage() pushes a       *)
(* window on two lists without looking whether it is on them, so the       *)
(* windows that scan() has still to look at must not be managed, and a     *)
(* process that starts must manage nothing.  A client gets its tags from   *)
(* the tag set in view and a monitor that set from the keys, so the tags   *)
(* of the clients and both tag sets of the monitors go together.           *)
(***************************************************************************)
EXTENDS Dwm, DwmStateProofs

USE DwmInputs

Inv ==
  /\ TypeOK
  /\ Good(st)
  /\ phase = "down" => Managed(st) = {}
  /\ phase = "scan" => toscan \cap Managed(st) = {}
  /\ ClientListCurrent

\* A handler that manages the windows it found managed keeps the invariant.
LEMMA HandlerLemma ==
  ASSUME Inv, NEW s, Moves(st, s), Handler(s)
  PROVE  Inv'
<1>1. st' = s /\ UNCHANGED <<phase, toscan, unmapq, destroyq, finq>>
  BY DEF Handler, queues
<1>2. Good(s) /\ Managed(s) = Managed(st) /\ s.list = st.list
  BY DEF Moves
<1> QED BY <1>1, <1>2 DEF Inv, TypeOK, ClientListCurrent, Good, Well

LEMMA HandlerKeeps ==
  ASSUME Inv, NEW s, Keeps(st, s), Handler(s)
  PROVE  Inv'
  BY HandlerLemma, KeepsMoves

-----------------------------------------------------------------------------
(* The operators of Dwm that build handlers.                               *)

Retag(s, c, g) == [s EXCEPT !.tags[c] = g]

LEMMA TagsKeep ==
  ASSUME NEW s, Good(s), NEW c \in Win, NEW g \in SUBSET Tag, g # {}
  PROVE  Keeps(s, Retag(s, c, g))
<1> DEFINE t == Retag(s, c, g)
<1>1. /\ Well(t) /\ t.clients = s.clients /\ t.stack = s.stack
      /\ t.sel = s.sel /\ t.mon = s.mon /\ t.list = s.list
      /\ t.alive = s.alive /\ t.tags = [s.tags EXCEPT ![c] = g]
  BY DEF Retag, Good, Well, State
<1> HIDE DEF t
<1>2. Consistent(t)
  BY <1>1 DEF Good, Consistent
<1>3. s.clients \in [Mon -> Seq(Win)] /\ s.tags \in [Win -> SUBSET Tag]
  BY DEF Good, Well, State
<1>4. \A w \in Win : s.tags[w] # {} => t.tags[w] # {}
  BY <1>1, <1>3
<1>5. \A m \in Mon : Range(s.clients[m]) \subseteq Win
  BY <1>3 DEF Range
<1>6. AllTagged(t)
  BY <1>1, <1>4, <1>5 DEF Good, AllTagged
<1>7. Keeps(s, t)
  BY <1>1, <1>2, <1>6 DEF Keeps, Good
<1> QED BY <1>7 DEF t

\* tag and toggletag do nothing, or give a client tags and focus again.
LEMMA TaggedShape ==
  ASSUME NEW s, Good(s), NEW mask \in Masks,
         NEW t \in {Tagged(s, mask), TagToggled(s, mask)}
  PROVE  \/ t = s
         \/ \E c \in Win, g \in (SUBSET Tag) \ {{}} :
              t = Refocus(Retag(s, c, g))
<1> DEFINE c == s.sel[s.selmon]
           g == SymDiff(s.tags[c], mask)
<1>1. mask \in SUBSET Tag
  OBVIOUS
<1>2. c \in WinOrNull
  BY DEF Good, Well, State
<1>3. CASE t = Tagged(s, mask)
  <2>1. CASE c = NULL \/ mask = {}
    BY <1>3, <2>1 DEF Tagged
  <2>2. CASE c # NULL /\ mask # {}
    <3>1. c \in Win /\ mask \in (SUBSET Tag) \ {{}}
      BY <1>1, <1>2, <2>2 DEF WinOrNull
    <3>2. t = Refocus(Retag(s, c, mask))
      BY <1>3, <2>2 DEF Tagged, Retag
    <3> HIDE DEF c
    <3> QED BY <3>1, <3>2
  <2> QED BY <2>1, <2>2
<1>4. CASE t = TagToggled(s, mask)
  <2>1. CASE c = NULL \/ g = {}
    BY <1>4, <2>1 DEF TagToggled
  <2>2. CASE c # NULL /\ g # {}
    <3>1. c \in Win /\ s.tags[c] \in SUBSET Tag
      BY <1>2, <2>2 DEF Good, Well, State, WinOrNull
    <3>2. g \in SUBSET Tag
      BY <1>1, <3>1 DEF SymDiff
    <3>3. t = Refocus(Retag(s, c, g))
      BY <1>2, <1>4, <2>2 DEF TagToggled, Retag, Good, Well, State, WinOrNull
    <3> HIDE DEF c, g
    <3> QED BY <2>2, <3>1, <3>2, <3>3
  <2> QED BY <2>1, <2>2
<1> QED BY <1>3, <1>4

LEMMA TaggedLemma ==
  ASSUME NEW s, Good(s), NEW mask \in Masks
  PROVE  Keeps(s, Tagged(s, mask)) /\ Keeps(s, TagToggled(s, mask))
<1>1. ASSUME NEW t \in {Tagged(s, mask), TagToggled(s, mask)}
      PROVE  Keeps(s, t)
  <2>1. CASE t = s
    BY <2>1, KeepsSelf
  <2>2. ASSUME NEW c \in Win, NEW g \in (SUBSET Tag) \ {{}},
               t = Refocus(Retag(s, c, g))
        PROVE  Keeps(s, t)
    <3> DEFINE x == Retag(s, c, g)
    <3>1. Keeps(s, x) /\ Good(x)
      BY TagsKeep DEF Keeps
    <3> HIDE DEF x
    <3> QED BY <2>2, <3>1, RefocusLemma, KeepsTrans DEF x
  <2> QED BY <2>1, <2>2, TaggedShape
<1> QED BY <1>1

Review(s, m, i, j, g) == [s EXCEPT !.seltags[m] = i, !.tagset[m][j] = g]

LEMMA TagsetKeeps ==
  ASSUME NEW s, Good(s), NEW m \in Mon, NEW i \in {0, 1}, NEW j \in {0, 1},
         NEW g \in SUBSET Tag, g # {}
  PROVE  Keeps(s, Review(s, m, i, j, g))
<1> DEFINE t == Review(s, m, i, j, g)
<1>1. Well(t) /\ SameLists(s, t)
  BY ZenonT(60) DEF Review, Good, Well, State, SameLists
<1> QED BY <1>1, SameListsKeep

\* view and toggleview do nothing, or change the view and focus again.
LEMMA ViewedShape ==
  ASSUME NEW s, Good(s), NEW mask \in SUBSET Tag,
         NEW t \in {Viewed(s, mask), ViewToggled(s, mask)}
  PROVE  \/ t = s
         \/ \E m \in Mon, i, j \in {0, 1}, g \in (SUBSET Tag) \ {{}} :
              t = Refocus(Review(s, m, i, j, g))
<1> DEFINE m == s.selmon
           i == s.seltags[m]
<1>1. /\ m \in Mon /\ i \in {0, 1} /\ 1 - i \in {0, 1}
      /\ s.tagset \in [Mon -> [{0, 1} -> SUBSET Tag]]
      /\ s.seltags \in [Mon -> {0, 1}]
  BY DEF Good, Well, State
<1>2. CASE t = Viewed(s, mask)
  <2> DEFINE g == IF mask = {} THEN s.tagset[m][1 - i] ELSE mask
             r == Refocus(Review(s, m, 1 - i, 1 - i, g))
  <2>1. g \in (SUBSET Tag) \ {{}}
    BY <1>1 DEF Good, Well
  <2>2. t \in {s, r}
    BY <1>1, <1>2 DEF Viewed, Review
  <2> HIDE DEF m, i, g
  <2> QED BY <1>1, <2>1, <2>2
<1>3. CASE t = ViewToggled(s, mask)
  <2> DEFINE g == SymDiff(View(s, m), mask)
             r == Refocus(Review(s, m, i, i, g))
  <2>1. g \in SUBSET Tag
    BY <1>1 DEF View, SymDiff
  <2>2. s = [s EXCEPT !.seltags[m] = i]
    BY <1>1 DEF Good, Well, State
  <2>3. [s EXCEPT !.tagset[m][i] = g] = Review(s, m, i, i, g)
    BY <1>1, <2>2 DEF Review, Good, Well, State
  <2>4. t = s \/ (t = r /\ g # {})
    BY <1>3, <2>3 DEF ViewToggled
  <2> HIDE DEF m, i, g
  <2> QED BY <1>1, <2>1, <2>4
<1> QED BY <1>2, <1>3

LEMMA ViewedLemma ==
  ASSUME NEW s, Good(s), NEW mask \in SUBSET Tag
  PROVE  Keeps(s, Viewed(s, mask)) /\ Keeps(s, ViewToggled(s, mask))
<1>1. ASSUME NEW t \in {Viewed(s, mask), ViewToggled(s, mask)}
      PROVE  Keeps(s, t)
  <2>1. CASE t = s
    BY <2>1, KeepsSelf
  <2>2. ASSUME NEW m \in Mon, NEW i \in {0, 1}, NEW j \in {0, 1},
               NEW g \in (SUBSET Tag) \ {{}},
               t = Refocus(Review(s, m, i, j, g))
        PROVE  Keeps(s, t)
    <3> DEFINE x == Review(s, m, i, j, g)
    <3>1. Keeps(s, x) /\ Good(x)
      BY TagsetKeeps DEF Keeps
    <3> HIDE DEF x
    <3> QED BY <2>2, <3>1, RefocusLemma, KeepsTrans DEF x
  <2> QED BY <2>1, <2>2, ViewedShape
<1> QED BY <1>1

\* pop() moves a client to the head of the list of clients.
LEMMA PulledLemma ==
  ASSUME NEW s, Good(s), NEW c \in Managed(s)
  PROVE  Moves(s, attach(detach(s, c), c))
<1> DEFINE m == s.mon[c]
           u == Unlink(s.clients[m], c)
           p == Push(c, u)
           a == attach(detach(s, c), c)
<1>1. m \in Mon /\ c \in Win /\ c # NULL /\ c \in Range(s.clients[m])
  BY ManagedLemma
<1>2. s.clients \in [Mon -> Seq(Win)] /\ s.clients[m] \in Seq(Win)
  BY <1>1 DEF Good, Well, State
<1>3. u \in Seq(Win) /\ IsInjective(u) /\ Range(u) = Range(s.clients[m]) \ {c}
  BY <1>1, <1>2, UnlinkLemma DEF Good, Consistent
<1>4. c \notin Range(u)
  BY <1>3
<1>5. a = [s EXCEPT !.clients[m] = p]
  BY <1>1, <1>2 DEF attach, detach, Good, Well, State
<1> HIDE DEF u
<1>6. p \in Seq(Win) /\ IsInjective(p) /\ Range(p) = Range(u) \cup {c}
  BY <1>1, <1>3, <1>4, PushLemma
<1> HIDE DEF p, a
<1>7. Range(p) = Range(s.clients[m])
  BY <1>1, <1>3, <1>6
<1>8. /\ Well(a) /\ a.stack = s.stack /\ a.sel = s.sel /\ a.mon = s.mon
      /\ a.list = s.list /\ a.alive = s.alive
      /\ a.clients = [s.clients EXCEPT ![m] = p] /\ a.tags = s.tags
  BY <1>1, <1>5, <1>6 DEF Good, Well, State
<1>9. \A k \in Mon : /\ IsInjective(a.clients[k])
                     /\ Range(a.clients[k]) = Range(s.clients[k])
  <2> SUFFICES ASSUME NEW k \in Mon
               PROVE  /\ IsInjective(a.clients[k])
                      /\ Range(a.clients[k]) = Range(s.clients[k])
    OBVIOUS
  <2>1. CASE k = m
    <3>1. a.clients[k] = p
      BY <1>2, <1>8, <2>1
    <3> QED BY <1>6, <1>7, <2>1, <3>1
  <2>2. CASE k # m
    <3>1. a.clients[k] = s.clients[k]
      BY <1>2, <1>8, <2>2
    <3> QED BY <3>1 DEF Good, Consistent
  <2> QED BY <2>1, <2>2
<1>10. Consistent(a) /\ Managed(a) = Managed(s)
  BY <1>8, <1>9 DEF Good, Consistent, Managed
<1>11. AllTagged(a)
  BY <1>8, <1>9 DEF Good, AllTagged
<1> QED BY <1>8, <1>10, <1>11 DEF Moves, Good, a

LEMMA PoppedLemma ==
  ASSUME NEW s, Good(s), NEW c \in Managed(s)
  PROVE  Moves(s, Popped(s, c))
<1> DEFINE a == attach(detach(s, c), c)
           f == focus(a, c)
<1>1. Moves(s, a) /\ Good(a) /\ c \in Managed(a)
  BY PulledLemma DEF Moves
<1> HIDE DEF a
<1>2. Keeps(a, f)
  BY <1>1, FocusLemma
<1>3. Good(f)
  BY <1>2 DEF Keeps
<1> HIDE DEF f
<1>4. Keeps(f, arrange(f, f.mon[c]))
  BY <1>3, RestackLemma
<1>5. Moves(s, arrange(f, f.mon[c]))
  BY <1>1, <1>2, <1>4, KeepsMoves, MovesTrans
<1> QED BY <1>5 DEF Popped, a, f

\* A search on the list of a monitor finds a managed client.
LEMMA SearchLemma ==
  ASSUME NEW s, Good(s), NEW m \in Mon, NEW k, NEW S
  PROVE  /\ FirstFrom(s.clients[m], k, S) \in Managed(s) \cup {NULL}
         /\ LastUpTo(s.clients[m], k, S) \in Managed(s) \cup {NULL}
<1> DEFINE seq == s.clients[m]
<1>1. seq \in Seq(Win)
  BY DEF Good, Well, State
<1>2. Len(seq) \in Nat /\ DOMAIN seq = 1 .. Len(seq)
  BY <1>1
<1>3. Range(seq) \subseteq Managed(s)
  BY DEF Managed
<1> HIDE DEF seq
<1>4. /\ FirstFrom(seq, k, S) \in Range(seq) \cup {NULL}
      /\ LastUpTo(seq, k, S) \in Range(seq) \cup {NULL}
  BY <1>2, FirstFromLemma, LastUpToLemma
<1> QED BY <1>3, <1>4 DEF seq

\* The selected client is managed.
LEMMA SelManaged ==
  ASSUME NEW s, Good(s), NEW m \in Mon
  PROVE  s.sel[m] \in Managed(s) \cup {NULL}
  BY DEF Good, Consistent, Managed

LEMMA ZoomedLemma ==
  ASSUME NEW s, Good(s)
  PROVE  Moves(s, Zoomed(s))
<1> DEFINE m   == s.selmon
           seq == s.clients[m]
           c   == s.sel[m]
           n   == FirstFrom(seq, IndexOf(seq, c) + 1, Tiled(s, m))
<1>1. m \in Mon
  BY DEF Good, Well, State
<1>2. n \in Managed(s) \cup {NULL} /\ c \in Managed(s) \cup {NULL}
  BY <1>1, SearchLemma, SelManaged
<1>3. \/ Zoomed(s) = s
      \/ c # NULL /\ Zoomed(s) = Popped(s, c)
      \/ n # NULL /\ Zoomed(s) = Popped(s, n)
  BY DEF Zoomed
<1> HIDE DEF n, c
<1> QED BY <1>2, <1>3, PoppedLemma, KeepsSelf, KeepsMoves

LEMMA FocusRestack ==
  ASSUME NEW s, Good(s), NEW c \in Managed(s) \cup {NULL}
  PROVE  /\ Keeps(s, LET f == focus(s, c) IN restack(f, f.selmon))
         /\ \A m : /\ Keeps(s, restack(focus(s, c), m))
                   /\ Keeps(s, arrange(focus(s, c), m))
<1> DEFINE f == focus(s, c)
<1>1. Keeps(s, f)
  BY FocusLemma
<1>2. Good(f)
  BY <1>1 DEF Keeps
<1> HIDE DEF f
<1>3. \A m : Keeps(f, restack(f, m)) /\ Keeps(f, arrange(f, m))
  BY <1>2, RestackLemma
<1>4. \A m : Keeps(s, restack(f, m)) /\ Keeps(s, arrange(f, m))
  BY <1>1, <1>3, KeepsTrans
<1> QED BY <1>4 DEF f

LEMMA ToggledLemma ==
  ASSUME NEW s, Good(s), NEW c \in Managed(s)
  PROVE  Keeps(s, Toggled(s, c))
<1>1. c \in WinOrNull
  BY ManagedLemma DEF WinOrNull
<1>2. CASE c = s.sel[s.selmon]
  <2> DEFINE h == hidewin(s, c)
  <2>1. Keeps(s, h)
    BY <1>1, HidewinLemma
  <2>2. Good(h)
    BY <2>1 DEF Keeps
  <2> HIDE DEF h
  <2>3. Keeps(h, arrange(focus(h, NULL), s.mon[c]))
    BY <2>2, FocusRestack
  <2> QED BY <1>2, <2>1, <2>3, KeepsTrans DEF Toggled, h
<1>3. CASE c # s.sel[s.selmon]
  <2> DEFINE h == showwin(s, c)
  <2>1. Keeps(s, h)
    BY <1>1, ShowwinLemma
  <2>2. Good(h) /\ c \in Managed(h)
    BY <2>1, KeepsManaged
  <2> HIDE DEF h
  <2>3. Keeps(h, LET f == focus(h, c) IN restack(f, f.selmon))
    BY <2>2, FocusRestack
  <2> QED BY <1>3, <2>1, <2>3, KeepsTrans DEF Toggled, h
<1> QED BY <1>2, <1>3

LEMMA ClickMonLemma ==
  ASSUME Good(st), NEW m \in Mon
  PROVE  Keeps(st, ClickMon(m))
  BY SwitchMonLemma, KeepsSelf DEF ClickMon

-----------------------------------------------------------------------------
(* Keys.                                                                   *)

\* The target of either key is a client of the selected monitor.
LEMMA NextManaged ==
  ASSUME Good(st), NEW forward, NEW hid, FocusStack(forward, hid)
  PROVE  NextInStack(forward, hid) \in Managed(st)
<1> DEFINE seq == st.clients[st.selmon]
           c == NextInStack(forward, hid)
<1>1. c # NULL /\ seq # <<>> /\ st.selmon \in Mon /\ seq \in Seq(Win)
  BY DEF FocusStack, Good, Well, State
<1>2. seq[1] \in Managed(st)
  <2>1. 1 \in DOMAIN seq
    BY <1>1
  <2> QED BY <1>1, <2>1 DEF Managed, Range
<1>3. \A S, k : /\ FirstFrom(seq, k, S) \in Managed(st) \cup {NULL}
                /\ LastUpTo(seq, k, S) \in Managed(st) \cup {NULL}
  BY <1>1, SearchLemma
<1>4. c \in Managed(st) \cup {NULL}
  BY <1>2, <1>3 DEF NextInStack, FirstIn
<1> QED BY <1>1, <1>4

LEMMA FocusStackInv ==
  ASSUME Inv, NEW forward \in BOOLEAN, NEW hid \in BOOLEAN,
         FocusStack(forward, hid)
  PROVE  Inv'
<1> DEFINE c == NextInStack(forward, hid)
           r == LET f == focus(st, c) IN restack(f, f.selmon)
           x == showwin(r, c)
           y == [x EXCEPT !.hidsel[r.mon[c]] = TRUE]
           s == IF HIDDEN(r, c) THEN y ELSE r
<1>1. Good(st) /\ st.selmon \in Mon
  BY DEF Inv, Good, Well, State
<1>2. c \in Managed(st)
  BY <1>1, NextManaged
<1>3. Handler(s)
  BY DEF FocusStack
<1> HIDE DEF c
<1>4. Keeps(st, r)
  BY <1>1, <1>2, FocusRestack
<1>5. Good(r) /\ c \in WinOrNull /\ c \in Win /\ r.mon[c] \in Mon
  BY <1>1, <1>2, <1>4, ManagedLemma DEF Keeps, WinOrNull
<1> HIDE DEF r
<1>6. Keeps(r, x)
  BY <1>5, ShowwinLemma
<1>7. Good(x)
  BY <1>6 DEF Keeps
<1> HIDE DEF x
<1>8. Keeps(x, y)
  BY <1>5, <1>7, HidselLemma
<1> HIDE DEF y
<1>9. Keeps(st, s)
  BY <1>4, <1>6, <1>8, KeepsTrans
<1> HIDE DEF s
<1> QED BY <1>3, <1>9, HandlerKeeps

LEMMA DirtomonType ==
  ASSUME NEW forward, st.selmon \in Mon
  PROVE  dirtomon(forward) \in Mon
  BY DwmAssumption DEF dirtomon, Mon

LEMMA FocusmonInv ==
  ASSUME Inv, NEW forward \in BOOLEAN, focusmon(forward)
  PROVE  Inv'
<1> DEFINE m == dirtomon(forward)
           v == [st EXCEPT !.selmon = m]
<1>1. Good(st) /\ m \in Mon
  BY DirtomonType DEF Inv, Good, Well, State
<1> HIDE DEF m
<1>2. Keeps(st, v)
  BY <1>1, SelmonLemma
<1>3. Good(v)
  BY <1>2 DEF Keeps
<1>4. Handler(focus(v, NULL))
  BY DEF focusmon, m
<1> HIDE DEF v
<1>5. Keeps(st, focus(v, NULL))
  BY <1>2, <1>3, FocusLemma, KeepsTrans
<1> QED BY <1>4, <1>5, HandlerKeeps

LEMMA TagmonInv ==
  ASSUME Inv, NEW forward \in BOOLEAN, tagmon(forward)
  PROVE  Inv'
<1>1. Good(st) /\ st.selmon \in Mon
  BY DEF Inv, Good, Well, State
<1>2. dirtomon(forward) \in Mon /\ Sel \in Managed(st)
  BY <1>1, DirtomonType, SelManaged DEF tagmon, Sel
<1>3. Moves(st, sendmon(st, Sel, dirtomon(forward)))
  BY <1>1, <1>2, SendmonLemma
<1> QED BY <1>3, HandlerLemma DEF tagmon

LEMMA SetlayoutInv ==
  ASSUME Inv, NEW tiling \in BOOLEAN, setlayout(tiling)
  PROVE  Inv'
<1> DEFINE v == [st EXCEPT !.tiling[st.selmon] = tiling]
           s == IF Sel = NULL THEN v ELSE arrange(v, v.selmon)
<1>1. Good(st)
  BY DEF Inv
<1>2. Well(v) /\ SameLists(st, v)
  BY <1>1 DEF Good, Well, State, SameLists
<1>3. Keeps(st, v) /\ Good(v)
  BY <1>1, <1>2, SameListsKeep DEF Keeps
<1>4. Handler(s)
  BY DEF setlayout
<1> HIDE DEF v
<1>5. Keeps(st, s)
  BY <1>3, RestackLemma, KeepsTrans
<1> HIDE DEF s
<1> QED BY <1>4, <1>5, HandlerKeeps

\* The mode of a client changes and its monitor is arranged.
LEMMA ModeInv ==
  ASSUME Inv, NEW c \in Win, NEW x \in Modes, NEW m,
         Handler(arrange([st EXCEPT !.mode[c] = x], m))
  PROVE  Inv'
<1> DEFINE v == [st EXCEPT !.mode[c] = x]
<1>1. Good(st)
  BY DEF Inv
<1>2. Keeps(st, v)
  BY <1>1, ModeLemma
<1>3. Good(v)
  BY <1>2 DEF Keeps
<1> HIDE DEF v
<1>4. Keeps(st, arrange(v, m))
  BY <1>2, <1>3, RestackLemma, KeepsTrans
<1> QED BY <1>4, HandlerKeeps DEF v

LEMMA TogglefloatingInv ==
  ASSUME Inv, togglefloating
  PROVE  Inv'
<1> DEFINE d == st.mode[Sel]
           x == [d EXCEPT !.float = ~@]
<1>1. Sel \in Win
  BY DEF togglefloating
<1>2. st.mode \in [Win -> Modes] /\ d \in Modes
  BY <1>1 DEF Inv, Good, Well, State
<1>3. x \in Modes
  BY <1>2 DEF Modes
<1>4. [st EXCEPT !.mode[Sel].float = ~@] = [st EXCEPT !.mode[Sel] = x]
  BY <1>1, <1>2
<1> HIDE DEF x
<1>5. Handler(arrange([st EXCEPT !.mode[Sel] = x], st.selmon))
  BY <1>4 DEF togglefloating
<1> QED BY <1>1, <1>3, <1>5, ModeInv

LEMMA ShowInv ==
  ASSUME Inv, show
  PROVE  Inv'
<1> DEFINE v == [st EXCEPT !.hidsel[st.selmon] = FALSE]
<1>1. Good(st) /\ st.selmon \in Mon /\ Sel \in WinOrNull
  BY DEF Inv, Good, Well, State, Sel
<1>2. Keeps(st, v)
  BY <1>1, HidselLemma
<1>3. Good(v)
  BY <1>2 DEF Keeps
<1>4. Handler(showwin(v, Sel))
  BY DEF show
<1> HIDE DEF v
<1>5. Keeps(st, showwin(v, Sel))
  BY <1>1, <1>2, <1>3, ShowwinLemma, KeepsTrans
<1> QED BY <1>4, <1>5, HandlerKeeps

\* Windows that are iconic are mapped, some of them at once (showall, quit).
Reveal(s, hid) ==
  [s EXCEPT !.mapped = @ \cup hid, !.strip = @ \cup hid,
            !.wmstate = [w \in Win |-> IF w \in hid THEN "Normal" ELSE @[w]]]

LEMMA ShowSetLemma ==
  ASSUME NEW s, Good(s), NEW hid \in SUBSET Win, \A c \in hid : HIDDEN(s, c)
  PROVE  Keeps(s, Reveal(s, hid))
<1> DEFINE f == [w \in Win |-> IF w \in hid THEN "Normal" ELSE s.wmstate[w]]
           t == [s EXCEPT !.mapped = @ \cup hid, !.strip = @ \cup hid, !.wmstate = f]
<1>1. hid \subseteq s.alive
  BY DEF HIDDEN, Good, Well
<1>2. f \in [Win -> {"Withdrawn", "Normal", "Iconic"}]
  BY DEF Good, Well, State
<1>3. \A w \in Win : f[w] # "Withdrawn" => w \in s.alive
  BY <1>1 DEF Good, Well
<1> HIDE DEF f
<1>4. Well(t) /\ SameLists(s, t)
  BY <1>1, <1>2, <1>3 DEF Good, Well, State, SameLists
<1>5. Keeps(s, t)
  BY <1>4, SameListsKeep
<1> QED BY <1>5 DEF f, Reveal

LEMMA ShowallInv ==
  ASSUME Inv, showall
  PROVE  Inv'
<1> DEFINE m   == st.selmon
           hid == {c \in VisibleOn(st, m) : HIDDEN(st, c)}
           v   == [st EXCEPT !.hidsel[m] = FALSE]
           u   == Reveal(v, hid)
           s   == [st EXCEPT !.hidsel[m] = FALSE,
                             !.mapped = @ \cup hid, !.strip = @ \cup hid,
                             !.wmstate = [w \in Win |->
                                IF w \in hid THEN "Normal" ELSE @[w]]]
           c   == FirstIn(s.clients[m], VisibleOn(s, m))
           f   == IF s.sel[m] = NULL /\ c # NULL THEN focus(s, c) ELSE s
<1>1. Good(st) /\ m \in Mon
  BY DEF Inv, Good, Well, State
<1>2. Keeps(st, v)
  BY <1>1, HidselLemma
<1>3. Good(v) /\ v.wmstate = st.wmstate
  BY <1>1, <1>2 DEF Keeps, Good, Well, State
<1>4. hid \in SUBSET Win /\ \A e \in hid : HIDDEN(v, e)
  <2>1. Range(st.clients[m]) \subseteq Win
    BY <1>1, ManagedLemma DEF Managed
  <2> QED BY <1>3, <2>1 DEF VisibleOn, HIDDEN
<1>5. s = u
  BY <1>1 DEF Reveal, Good, Well, State
<1>6. Handler(restack(f, m))
  BY DEF showall
<1> HIDE DEF v, hid
<1>7. Keeps(v, u)
  BY <1>3, <1>4, ShowSetLemma
<1>8. Keeps(st, s)
  BY <1>2, <1>5, <1>7, KeepsTrans
<1>9. Good(s)
  BY <1>8 DEF Keeps
<1> HIDE DEF s
<1>10. c \in Managed(s) \cup {NULL}
  BY <1>1, <1>9, SearchLemma DEF FirstIn
<1> HIDE DEF c
<1>11. Keeps(s, f)
  BY <1>9, <1>10, FocusLemma, KeepsSelf
<1>12. Good(f)
  BY <1>11 DEF Keeps
<1> HIDE DEF f, m
<1>13. Keeps(f, restack(f, m))
  BY <1>12, RestackLemma
<1>14. Keeps(st, restack(f, m))
  BY <1>8, <1>11, <1>13, KeepsTrans
<1> QED BY <1>6, <1>14, HandlerKeeps

LEMMA KeysInv ==
  ASSUME Inv, Keys
  PROVE  Inv'
<1>1. Good(st) /\ Masks \subseteq SUBSET Tag /\ Layouts \subseteq BOOLEAN
  BY DEF Inv
<1>2. ASSUME NEW forward \in BOOLEAN, focusstackvis(forward)
      PROVE  Inv'
  BY <1>2, FocusStackInv DEF focusstackvis
<1>3. ASSUME NEW forward \in BOOLEAN, focusstackhid(forward)
      PROVE  Inv'
  BY <1>3, FocusStackInv DEF focusstackhid
<1>4. ASSUME NEW mask \in Masks, tag(mask) \/ toggletag(mask)
      PROVE  Inv'
  BY <1>1, <1>4, TaggedLemma, HandlerKeeps DEF tag, toggletag
<1>5. ASSUME NEW mask \in Masks, view(mask) \/ toggleview(mask)
      PROVE  Inv'
  BY <1>1, <1>5, ViewedLemma, HandlerKeeps DEF view, toggleview
<1>6. ASSUME zoom
      PROVE  Inv'
  BY <1>1, <1>6, ZoomedLemma, HandlerLemma DEF zoom
<1>7. ASSUME NEW tiling \in Layouts, setlayout(tiling)
      PROVE  Inv'
  BY <1>1, <1>7, SetlayoutInv
<1> QED BY <1>2, <1>3, <1>4, <1>5, <1>6, <1>7, FocusmonInv, TagmonInv,
           TogglefloatingInv, ShowInv, ShowallInv DEF Keys

-----------------------------------------------------------------------------
(* Buttons.                                                                *)

\* A button handler runs in the state that ClickMon leaves.
LEMMA ClickMonMoves ==
  ASSUME Inv, NEW m \in Mon, NEW s, Handler(s),
         Good(ClickMon(m)) => Moves(ClickMon(m), s)
  PROVE  Inv'
<1>1. Keeps(st, ClickMon(m))
  BY ClickMonLemma DEF Inv
<1>2. Moves(st, ClickMon(m)) /\ Good(ClickMon(m))
  BY <1>1, KeepsMoves DEF Keeps
<1> QED BY <1>2, MovesTrans, HandlerLemma

LEMMA ClickTagInv ==
  ASSUME Inv, NEW m \in Mon, NEW mask \in Masks, ClickTag(m, mask)
  PROVE  Inv'
<1> DEFINE s == ClickMon(m)
<1>1. \/ Handler(Viewed(s, mask)) \/ Handler(ViewToggled(s, mask))
      \/ Handler(Tagged(s, mask)) \/ Handler(TagToggled(s, mask))
  BY DEF ClickTag
<1>2. mask \in SUBSET Tag
  OBVIOUS
<1> HIDE DEF s
<1>3. Good(s) => /\ Moves(s, Viewed(s, mask)) /\ Moves(s, ViewToggled(s, mask))
                 /\ Moves(s, Tagged(s, mask)) /\ Moves(s, TagToggled(s, mask))
  BY <1>2, ViewedLemma, TaggedLemma, KeepsMoves
<1> QED BY <1>1, <1>3, ClickMonMoves DEF s

\* The client of a tab is managed.
LEMMA TabsManaged ==
  ASSUME NEW s, Good(s), NEW m \in Mon, NEW c \in Tabs(s, m)
  PROVE  c \in Managed(s)
<1>1. s.clients[m] \in Seq(Win)
  BY DEF Good, Well, State
<1>2. s.clients[m] # <<>> => s.clients[m][1] \in Range(s.clients[m])
  BY <1>1 DEF Range
<1> QED BY <1>2 DEF Tabs, VisibleOn, Managed

LEMMA ClickTabInv ==
  ASSUME Inv, NEW m \in Mon, ClickTab(m)
  PROVE  Inv'
<1> DEFINE s == ClickMon(m)
<1>1. PICK c \in Tabs(s, m) : Handler(Toggled(s, c))
  BY DEF ClickTab
<1> HIDE DEF s
<1>2. Good(s) => c \in Managed(s)
  BY <1>1, TabsManaged
<1>3. Good(s) => Moves(s, Toggled(s, c))
  BY <1>2, ToggledLemma, KeepsMoves
<1> QED BY <1>1, <1>3, ClickMonMoves DEF s

LEMMA DropOnMonInv ==
  ASSUME Inv, NEW m \in Mon, DropOnMon(m)
  PROVE  Inv'
<1> DEFINE r == restack(st, st.selmon)
           d == sendmon(r, Sel, m)
           v == [d EXCEPT !.selmon = m]
<1>1. Good(st) /\ Sel \in Managed(st)
  <2>1. Good(st) /\ st.selmon \in Mon /\ Sel # NULL
    BY DEF Inv, Good, Well, State, DropOnMon
  <2> QED BY <2>1, SelManaged DEF Sel
<1>2. Handler(focus(v, NULL))
  BY DEF DropOnMon
<1>3. Keeps(st, r)
  BY <1>1, RestackLemma
<1>4. Good(r) /\ Sel \in Managed(r) /\ Moves(st, r)
  BY <1>1, <1>3, KeepsManaged, KeepsMoves
<1> HIDE DEF r
<1>5. Moves(r, d)
  BY <1>4, SendmonLemma
<1>6. Good(d)
  BY <1>5 DEF Moves
<1> HIDE DEF d
<1>7. Keeps(d, v)
  BY <1>6, SelmonLemma
<1>8. Good(v) /\ Moves(d, v)
  BY <1>7, KeepsMoves DEF Keeps
<1> HIDE DEF v
<1>9. Moves(v, focus(v, NULL))
  BY <1>8, FocusLemma, KeepsMoves
<1>10. Moves(st, focus(v, NULL))
  BY <1>4, <1>5, <1>8, <1>9, MovesTrans
<1> QED BY <1>2, <1>10, HandlerLemma

LEMMA ClickClientInv ==
  ASSUME Inv, NEW c \in Win, ClickClient(c)
  PROVE  Inv'
<1> DEFINE m == st.mon[c]
           s == ClickMon(m)
           r == LET f == focus(s, c) IN restack(f, f.selmon)
<1>1. m \in Mon /\ c \in Managed(st) /\ Good(st)
  BY ManagedLemma DEF ClickClient, Inv
<1>2. Handler(r)
  BY DEF ClickClient
<1> HIDE DEF m
<1>3. Managed(s) = Managed(st) /\ Good(s)
  BY <1>1, ClickMonLemma, KeepsManaged
<1> HIDE DEF s
<1>4. Moves(s, r)
  BY <1>1, <1>3, FocusRestack, KeepsMoves
<1> HIDE DEF r
<1> QED BY <1>1, <1>2, <1>4, ClickMonMoves DEF s

LEMMA ClickStripInv ==
  ASSUME Inv, NEW c \in Win, ClickStrip(c)
  PROVE  Inv'
<1>1. c \in Managed(st) /\ Good(st)
  BY DEF ClickStrip, Inv
<1>2. Keeps(st, LET f == focus(st, c) IN restack(f, f.selmon))
  BY <1>1, FocusRestack
<1> QED BY <1>2, HandlerKeeps DEF ClickStrip

LEMMA MinimizeclientInv ==
  ASSUME Inv, NEW c \in Win, minimizeclient(c)
  PROVE  Inv'
<1> DEFINE h == hidewin(st, c)
           s == showwin(st, c)
           f == focus(s, c)
<1>1. c \in Managed(st) /\ Good(st) /\ c \in WinOrNull
  BY DEF minimizeclient, Inv, WinOrNull
<1>2. Handler(restack(f, f.mon[c])) \/ Handler(arrange(focus(h, NULL), st.mon[c]))
  BY DEF minimizeclient
<1>3. Keeps(st, h) /\ Keeps(st, s)
  BY <1>1, HidewinLemma, ShowwinLemma
<1>4. Good(h) /\ Good(s) /\ c \in Managed(s)
  BY <1>1, <1>3, KeepsManaged
<1> HIDE DEF h, s
<1>5. Keeps(h, arrange(focus(h, NULL), st.mon[c])) /\ Keeps(s, restack(f, f.mon[c]))
  BY <1>4, FocusRestack
<1>6. Keeps(st, arrange(focus(h, NULL), st.mon[c])) /\ Keeps(st, restack(f, f.mon[c]))
  BY <1>3, <1>5, KeepsTrans
<1> QED BY <1>2, <1>6, HandlerKeeps

LEMMA TogglemaximizeInv ==
  ASSUME Inv, NEW c \in Win, togglemaximize(c)
  PROVE  Inv'
<1> DEFINE d == st.mode[c]
           x == IF d.max THEN [d EXCEPT !.max = FALSE, !.float = d.smf]
                ELSE [d EXCEPT !.max = TRUE, !.float = TRUE, !.smf = d.float]
<1>1. d \in Modes
  BY DEF Inv, Good, Well, State
<1>2. x \in Modes
  BY <1>1 DEF Modes
<1>3. Handler(arrange([st EXCEPT !.mode[c] = x], st.mon[c]))
  BY DEF togglemaximize
<1> HIDE DEF x
<1> QED BY <1>2, <1>3, ModeInv

LEMMA ButtonsInv ==
  ASSUME Inv, Buttons
  PROVE  Inv'
<1>1. ASSUME NEW m \in Mon, ClickBar(m)
      PROVE  Inv'
  BY <1>1, ClickMonLemma, HandlerKeeps DEF ClickBar, Inv
<1>2. ASSUME NEW m \in Mon, ClickTabZoom(m)
      PROVE  Inv'
  BY <1>2, ZoomedLemma, ClickMonMoves DEF ClickTabZoom
<1> QED BY <1>1, <1>2, ClickTagInv, ClickTabInv, DropOnMonInv, ClickClientInv,
           ClickStripInv, MinimizeclientInv, TogglemaximizeInv DEF Buttons

-----------------------------------------------------------------------------
(* X events.                                                               *)

\* Steps of a process that is past scan() need only rebuild the client list.
LEMMA RunLemma ==
  ASSUME Inv, phase' \in {"run", "quit", "cleanup"}, Good(st'),
         st'.list = Managed(st'), UNCHANGED toscan,
         unmapq' \subseteq Win, destroyq' \subseteq Win, finq' \subseteq Win
  PROVE  Inv'
  BY DEF Inv, TypeOK, ClientListCurrent, Good, Well

\* The X server after a client has created the window it asks dwm to map.
Created(s, w, p) == [s EXCEPT !.alive = @ \cup {w}, !.fsprop = p]

LEMMA CreatedLemma ==
  ASSUME NEW s, Good(s), NEW w \in Win \ Managed(s), NEW p \in SUBSET Win
  PROVE  LET t == Created(s, w, p)
         IN  /\ Good(t) /\ Managed(t) = Managed(s) /\ t.list = s.list
             /\ w \in t.alive \ Managed(t)
<1> DEFINE t == Created(s, w, p)
<1>1. /\ Well(t) /\ t.clients = s.clients /\ t.stack = s.stack
      /\ t.sel = s.sel /\ t.mon = s.mon /\ t.list = s.list /\ w \in t.alive
      /\ t.tags = s.tags
  BY ZenonT(60) DEF Created, Good, Well, State
<1> HIDE DEF t
<1>2. Consistent(t) /\ AllTagged(t) /\ Managed(t) = Managed(s)
  BY <1>1 DEF Good, Consistent, Managed, AllTagged
<1> QED BY <1>1, <1>2 DEF Good, t

LEMMA MaprequestManages ==
  ASSUME Inv, NEW w \in Win, maprequest(w)
  PROVE  /\ w \notin Managed(st)
         /\ \E p \in SUBSET Win : Handler(manage(Created(st, w, p), w))
<1>1. PICK full \in BOOLEAN :
        Handler(manage([st EXCEPT !.alive = @ \cup {w},
                                  !.fsprop = IF full THEN @ \cup {w} ELSE @ \ {w}],
                       w))
  BY DEF maprequest
<1> DEFINE p == IF full THEN st.fsprop \cup {w} ELSE st.fsprop \ {w}
<1>2. p \in SUBSET Win
  BY DEF Inv, Good, Well, State
<1>3. Handler(manage(Created(st, w, p), w))
  BY <1>1 DEF Created
<1> HIDE DEF p
<1> QED BY <1>2, <1>3 DEF maprequest

LEMMA MaprequestInv ==
  ASSUME Inv, NEW w \in Win, maprequest(w)
  PROVE  Inv'
<1>1. PICK p \in SUBSET Win : Handler(manage(Created(st, w, p), w))
  BY MaprequestManages
<1> DEFINE s == Created(st, w, p)
           t == manage(s, w)
<1>2. st' = t /\ phase = "run" /\ UNCHANGED <<phase, toscan, unmapq, destroyq, finq>>
  BY <1>1 DEF Handler, queues
<1>3. Good(s) /\ s.list = Managed(s) /\ w \in s.alive \ Managed(s)
  BY <1>2, MaprequestManages, CreatedLemma DEF Inv, ClientListCurrent
<1> HIDE DEF s
<1>4. Good(t) /\ Managed(t) = Managed(s) \cup {w} /\ t.list = s.list \cup {w}
  BY <1>3, ManageLemma
<1> HIDE DEF t
<1>5. t.list = Managed(t)
  BY <1>3, <1>4
<1> QED BY <1>2, <1>4, <1>5, RunLemma DEF Inv, TypeOK

LEMMA UnmapInv ==
  ASSUME Inv, NEW w \in Win, unmapnotify(w) \/ destroynotify(w)
  PROVE  Inv'
<1>1. PICK b \in BOOLEAN :
        st' = IF w \in Managed(st) THEN unmanage(st, w, b) ELSE st
  BY DEF unmapnotify, destroynotify
<1>2. /\ phase = "run" /\ UNCHANGED <<phase, toscan>>
      /\ unmapq' \subseteq Win /\ destroyq' \subseteq Win /\ finq' \subseteq Win
  BY DEF unmapnotify, destroynotify, Inv, TypeOK
<1>3. Good(st) /\ st.list = Managed(st)
  BY <1>2 DEF Inv, ClientListCurrent
<1>4. Good(st') /\ st'.list = Managed(st')
  <2>1. CASE w \in Managed(st)
    BY <1>1, <1>3, <2>1, UnmanageLemma
  <2>2. CASE w \notin Managed(st)
    BY <1>1, <1>3, <2>2
  <2> QED BY <2>1, <2>2
<1> QED BY <1>2, <1>4, RunLemma

LEMMA EnternotifyInv ==
  ASSUME Inv, enternotify
  PROVE  Inv'
<1> DEFINE w == st.enterq
           s == [st EXCEPT !.enterq = NULL]
           u == unfocus(s, Sel, TRUE)
           v == [u EXCEPT !.selmon = s.mon[w]]
<1>1. Well(s) /\ SameLists(st, s)
  BY DEF Inv, Good, Well, State, SameLists, WinOrNull
<1>2. Keeps(st, s)
  BY <1>1, SameListsKeep DEF Inv
<1>3. Good(s)
  BY <1>2 DEF Keeps
<1>4. \/ Handler(s)
      \/ w \in Managed(s) /\ Handler(focus(s, w))
      \/ w \in Managed(s) /\ Handler(focus(v, w))
  <2>1. Handler(IF w \notin Managed(s) \/ w = Sel THEN s
                ELSE IF s.mon[w] = s.selmon THEN focus(s, w) ELSE focus(v, w))
    BY DEF enternotify
  <2> HIDE DEF s, v, w
  <2> QED BY <2>1
<1> HIDE DEF s, w
<1>5. Keeps(s, u)
  BY <1>3, UnfocusLemma
<1>6. Good(u) /\ Managed(u) = Managed(s)
  BY <1>5, KeepsManaged
<1> HIDE DEF u
<1>7. ASSUME w \in Managed(s)
      PROVE  Keeps(st, focus(s, w)) /\ Keeps(st, focus(v, w))
  <2>1. Keeps(st, focus(s, w))
    BY <1>2, <1>3, <1>7, FocusLemma, KeepsTrans
  <2>2. s.mon[w] \in Mon
    BY <1>3, <1>7, ManagedLemma
  <2>3. Keeps(u, v)
    BY <1>6, <2>2, SelmonLemma
  <2>4. Good(v) /\ w \in Managed(v)
    BY <1>6, <1>7, <2>3, KeepsManaged
  <2> HIDE DEF v
  <2>5. Keeps(v, focus(v, w))
    BY <2>4, FocusLemma
  <2>6. Keeps(st, focus(v, w))
    BY <1>2, <1>5, <2>3, <2>5, KeepsTrans
  <2> QED BY <2>1, <2>6
<1> QED BY <1>2, <1>4, <1>7, HandlerKeeps

LEMMA FocusinInv ==
  ASSUME Inv, NEW w \in Win, focusin(w)
  PROVE  Inv'
<1>1. /\ phase = "run" /\ UNCHANGED <<phase, toscan, unmapq, destroyq>>
      /\ finq' \subseteq Win
  BY DEF focusin, Inv, TypeOK
<1>2. Good(st) /\ st.list = Managed(st) /\ Sel \in WinOrNull
  BY <1>1 DEF Inv, ClientListCurrent, Good, Well, State, Sel
<1>3. Keeps(st, st')
  <2>1. CASE Sel # NULL /\ w # Sel
    BY <1>2, <2>1, SetfocusLemma DEF focusin, WinOrNull
  <2>2. CASE ~(Sel # NULL /\ w # Sel)
    BY <1>2, <2>2, KeepsSelf DEF focusin
  <2> QED BY <2>1, <2>2
<1>4. Good(st') /\ st'.list = Managed(st')
  BY <1>2, <1>3, KeepsManaged DEF Keeps
<1> QED BY <1>1, <1>4, RunLemma DEF Inv, TypeOK

LEMMA UpdatewmhintsInv ==
  ASSUME Inv, NEW c \in Win, updatewmhints(c)
  PROVE  Inv'
<1> DEFINE x == [st EXCEPT !.hint = @ \ {c}]
           y == [st EXCEPT !.urgent = @ \cup {c}]
           z == [st EXCEPT !.urgent = @ \ {c}]
<1>1. /\ Well(x) /\ Well(y) /\ Well(z)
      /\ SameLists(st, x) /\ SameLists(st, y) /\ SameLists(st, z)
  BY ZenonT(60) DEF Inv, Good, Well, State, SameLists
<1>2. Keeps(st, x) /\ Keeps(st, y) /\ Keeps(st, z)
  BY <1>1, SameListsKeep DEF Inv
<1>3. Handler(x) \/ Handler(y) \/ Handler(z)
  BY DEF updatewmhints
<1> HIDE DEF x, y, z
<1> QED BY <1>2, <1>3, HandlerKeeps

LEMMA EventsInv ==
  ASSUME Inv, Events
  PROVE  Inv'
<1>1. Good(st)
  BY DEF Inv
<1>2. ASSUME NEW w \in Win, unmapnotifySent(w)
      PROVE  Inv'
  BY <1>1, <1>2, SetclientstateLemma, HandlerKeeps DEF unmapnotifySent
<1>3. ASSUME NEW w \in Win, ActivateMessage(w)
      PROVE  Inv'
  BY <1>1, <1>3, SeturgentLemma, HandlerKeeps DEF ActivateMessage
<1>4. ASSUME NEW w \in Win, NEW on \in BOOLEAN, FullscreenMessage(w, on)
      PROVE  Inv'
  BY <1>1, <1>4, SetfullscreenLemma, HandlerKeeps DEF FullscreenMessage
<1>5. ASSUME NEW m \in Mon, PointerOnMon(m)
      PROVE  Inv'
  BY <1>1, <1>5, SwitchMonLemma, HandlerKeeps DEF PointerOnMon
<1> QED BY <1>2, <1>3, <1>4, <1>5, MaprequestInv, UnmapInv, EnternotifyInv,
           FocusinInv, UpdatewmhintsInv DEF Events

-----------------------------------------------------------------------------
(* The life of the process, and the clients.                               *)

LEMMA QuitWalkManaged ==
  ASSUME Good(st), NEW m \in Mon
  PROVE  QuitWalk(st, m) \subseteq Managed(st)
<1> SUFFICES ASSUME FirstIn(st.stack[m], Win) # NULL
             PROVE  QuitWalk(st, m) \subseteq Managed(st)
  BY DEF QuitWalk
<1> DEFINE seq == st.clients[m]
           top == FirstIn(st.stack[m], Win)
<1>1. seq \in Seq(Win) /\ st.stack[m] \in Seq(Win)
  BY DEF Good, Well, State
<1>2. Len(st.stack[m]) \in Nat /\ DOMAIN st.stack[m] = 1 .. Len(st.stack[m])
  BY <1>1
<1>3. top \in Range(st.stack[m])
  BY <1>2, FirstFromLemma DEF FirstIn
<1>4. top \in Range(seq)
  BY <1>3 DEF Good, Consistent
<1>5. IndexOf(seq, top) \in 1 .. Len(seq)
  BY <1>1, <1>4 DEF IndexOf, Range
<1>6. QuitWalk(st, m) \subseteq Range(seq)
  BY <1>1, <1>5 DEF QuitWalk, Range
<1> QED BY <1>6 DEF Managed

LEMMA QuitInv ==
  ASSUME Inv, quit
  PROVE  Inv'
<1> DEFINE hid == {c \in UNION {QuitWalk(st, m) : m \in Mon} : HIDDEN(st, c)}
<1>1. Good(st) /\ st.list = Managed(st)
  BY DEF Inv, ClientListCurrent, quit
<1>2. hid \in SUBSET Win /\ \A c \in hid : HIDDEN(st, c)
  BY <1>1, QuitWalkManaged, ManagedLemma
<1>3. Keeps(st, st')
  BY <1>1, <1>2, ShowSetLemma DEF quit, Reveal
<1>4. Good(st') /\ st'.list = Managed(st')
  BY <1>1, <1>3, KeepsManaged DEF Keeps
<1> QED BY <1>4, RunLemma DEF quit, queues, Inv, TypeOK

\* The client on top of a stack is managed.
LEMMA TopManaged ==
  ASSUME NEW s, Good(s), NEW m \in Mon, s.stack[m] # <<>>
  PROVE  s.stack[m][1] \in Managed(s)
<1>1. s.stack[m] \in Seq(Win)
  BY DEF Good, Well, State
<1>2. s.stack[m][1] \in Range(s.stack[m])
  BY <1>1 DEF Range
<1> QED BY <1>2 DEF Good, Consistent, Managed

LEMMA CleanupInv ==
  ASSUME Inv, CleanupView \/ \E m \in Mon : CleanupUnmanage(m)
  PROVE  Inv'
<1>1. Good(st) /\ st.list = Managed(st)
  BY DEF Inv, ClientListCurrent, CleanupView, CleanupUnmanage
<1>2. CASE CleanupView
  <2>1. Keeps(st, st')
    BY <1>1, <1>2, ViewedLemma DEF CleanupView
  <2>2. Good(st') /\ st'.list = Managed(st')
    BY <1>1, <2>1, KeepsManaged DEF Keeps
  <2> QED BY <1>2, <2>2, RunLemma DEF CleanupView, queues, Inv, TypeOK
<1>3. ASSUME NEW m \in Mon, CleanupUnmanage(m)
      PROVE  Inv'
  <2>3. st.stack[m][1] \in Managed(st)
    BY <1>1, <1>3, TopManaged DEF CleanupUnmanage
  <2> DEFINE c == st.stack[m][1]
             t == unmanage(st, c, FALSE)
  <2>4. st' = t
    BY <1>3 DEF CleanupUnmanage
  <2> HIDE DEF c
  <2>5. Good(t) /\ t.list = Managed(t)
    BY <1>1, <2>3, UnmanageLemma DEF c
  <2> HIDE DEF t
  <2>6. Good(st') /\ st'.list = Managed(st')
    BY <2>4, <2>5
  <2> QED BY <1>3, <2>6, RunLemma DEF CleanupUnmanage, queues, Inv, TypeOK
<1> QED BY <1>2, <1>3

\* What a process leaves on the server is a good state to start from.
LEMMA ServerLemma ==
  ASSUME NEW s, Good(s)
  PROVE  Good(ServerOf(s)) /\ Managed(ServerOf(s)) = {}
<1> DEFINE i == InitialState
           t == ServerOf(s)
<1>1. Good(i) /\ Managed(i) = {}
  BY InitialStateLemma
<1>2. t = [i EXCEPT !.alive = s.alive, !.mapped = s.mapped,
                    !.wmstate = s.wmstate, !.hint = s.hint,
                    !.fsprop = s.fsprop, !.focus = s.focus,
                    !.active = s.active, !.list = s.list]
  BY DEF ServerOf
<1> HIDE DEF i, t
<1>3. /\ Well(t) /\ t.clients = i.clients /\ t.stack = i.stack
      /\ t.sel = i.sel /\ t.mon = i.mon /\ t.tags = i.tags
  BY <1>1, <1>2, ZenonT(60) DEF Good, Well, State
<1> QED BY <1>1, <1>3 DEF Good, Consistent, AllTagged, Managed, t

LEMMA ExitInv ==
  ASSUME Inv, NEW s, Good(s), Exit(s)
  PROVE  Inv'
<1>1. Good(st') /\ Managed(st') = {}
  BY ServerLemma DEF Exit
<1> QED BY <1>1 DEF Exit, Inv, TypeOK, ClientListCurrent, Good, Well

\* setup() deletes _NET_CLIENT_LIST.
LEMMA UnlistedLemma ==
  ASSUME NEW s, Good(s)
  PROVE  LET t == [s EXCEPT !.list = {}]
         IN  Good(t) /\ Managed(t) = Managed(s) /\ t.list = {}
<1> DEFINE t == [s EXCEPT !.list = {}]
<1>1. /\ Well(t) /\ t.clients = s.clients /\ t.stack = s.stack
      /\ t.sel = s.sel /\ t.mon = s.mon /\ t.list = {} /\ t.tags = s.tags
  BY DEF Good, Well, State
<1> QED BY <1>1 DEF Good, Consistent, AllTagged, Managed

LEMMA StartInv ==
  ASSUME Inv, Start
  PROVE  Inv'
<1> DEFINE v == [st EXCEPT !.list = {}]
<1>1. Good(st) /\ Managed(st) = {} /\ st.alive \subseteq Win
  BY DEF Inv, Start, Good, Well, State
<1>3. Good(v) /\ Managed(v) = {} /\ v.list = {}
  BY <1>1, UnlistedLemma
<1>4. st' = focus(v, NULL)
  BY DEF Start
<1> HIDE DEF v
<1>5. Good(st') /\ Managed(st') = {} /\ st'.list = {}
  BY <1>3, <1>4, FocusLemma, KeepsManaged DEF Keeps
<1> QED BY <1>1, <1>5 DEF Start, queues, Inv, TypeOK, ClientListCurrent, Good, Well

LEMMA ScanInv ==
  ASSUME Inv, NEW w \in Win, Scan(w)
  PROVE  Inv'
<1>1. Good(st) /\ st.list = Managed(st) /\ w \notin Managed(st)
      /\ phase = "scan" /\ toscan \cap Managed(st) = {}
  BY DEF Inv, ClientListCurrent, Scan
<1>2. /\ Good(st') /\ st'.list = Managed(st')
      /\ Managed(st') \subseteq Managed(st) \cup {w}
  <2>1. CASE w \in st.alive /\ (w \in st.mapped \/ HIDDEN(st, w))
    <3> DEFINE t == manage(st, w)
    <3>1. st' = t
      BY <2>1 DEF Scan
    <3>2. w \in st.alive \ Managed(st)
      BY <1>1, <2>1
    <3>3. /\ Good(t) /\ Managed(t) = Managed(st) \cup {w}
          /\ t.list = st.list \cup {w}
      BY <1>1, <3>2, ManageLemma
    <3> HIDE DEF t
    <3> QED BY <1>1, <3>1, <3>3
  <2>2. CASE ~(w \in st.alive /\ (w \in st.mapped \/ HIDDEN(st, w)))
    BY <1>1, <2>2 DEF Scan
  <2> QED BY <2>1, <2>2
<1>3. toscan' = toscan \ {w} /\ UNCHANGED <<phase, unmapq, destroyq, finq>>
  BY DEF Scan, queues
<1> QED BY <1>1, <1>2, <1>3 DEF Inv, TypeOK, ClientListCurrent, Good, Well

LEMMA ProcessInv ==
  ASSUME Inv, Process
  PROVE  Inv'
<1>1. ASSUME CleanupEnd
      PROVE  Inv'
  BY <1>1, FocusRootLemma, ExitInv DEF CleanupEnd, Inv, Keeps
<1>2. ASSUME Crash
      PROVE  Inv'
  BY <1>2, ExitInv DEF Crash, Inv
<1>3. ASSUME ScanEnd
      PROVE  Inv'
  BY <1>3, RunLemma DEF ScanEnd, queues, Inv, TypeOK, ClientListCurrent
<1> QED BY <1>1, <1>2, <1>3, QuitInv, CleanupInv, StartInv, ScanInv DEF Process

\* Client programs change nothing that the memory of dwm holds.
LEMMA ClientLemma ==
  ASSUME Inv, Well(st'), st'.clients = st.clients, st'.stack = st.stack,
         st'.sel = st.sel, st'.mon = st.mon, st'.list = st.list,
         st'.tags = st.tags,
         UNCHANGED <<phase, toscan>>,
         unmapq' \subseteq Win, destroyq' \subseteq Win, finq' \subseteq Win
  PROVE  Inv'
<1>1. Good(st') /\ Managed(st') = Managed(st)
  BY DEF Inv, Good, Consistent, AllTagged, Managed
<1> QED BY <1>1 DEF Inv, TypeOK, ClientListCurrent, Good, Well

LEMMA ClientsInv ==
  ASSUME Inv, Clients
  PROVE  Inv'
<1> USE DEF queues, Reported
<1>1. PICK w \in Win : \/ ClientUnmap(w) \/ ClientDestroy(w) \/ ClientMap(w)
                       \/ ClientHint(w) \/ StealFocus(w) \/ PointerEnters(w)
  BY DEF Clients
<1>2. /\ st \in State /\ Well(st)
      /\ unmapq \subseteq Win /\ destroyq \subseteq Win /\ finq \subseteq Win
  BY DEF Inv, TypeOK, Good
<1>3. CASE ClientUnmap(w)
  <2> DEFINE t == XUnmapWindow(st, w)
  <2>1. /\ Well(t) /\ t.clients = st.clients /\ t.stack = st.stack
        /\ t.sel = st.sel /\ t.mon = st.mon /\ t.list = st.list
        /\ t.tags = st.tags
    BY <1>2, <1>3, ZenonT(60) DEF Well, State, XUnmapWindow, WinOrNull
  <2>2. /\ st' = t /\ UNCHANGED <<phase, toscan>>
        /\ unmapq' \subseteq Win /\ destroyq' \subseteq Win /\ finq' \subseteq Win
    BY <1>2, <1>3 DEF ClientUnmap
  <2> HIDE DEF t
  <2> QED BY <2>1, <2>2, ClientLemma
<1>4. CASE ClientDestroy(w)
  <2> DEFINE x == XUnmapWindow(st, w)
             t == [x EXCEPT !.alive = @ \ {w}, !.wmstate[w] = "Withdrawn",
                            !.hint = @ \ {w}, !.fsprop = @ \ {w}]
  <2>1. st' = t /\ UNCHANGED <<phase, toscan>>
        /\ unmapq' \subseteq Win /\ destroyq' \subseteq Win /\ finq' \subseteq Win
    BY <1>2, <1>4 DEF ClientDestroy
  <2>2. x \in State /\ x.mapped = st.mapped \ {w} /\ x.alive = st.alive
        /\ x.wmstate = st.wmstate /\ x.clients = st.clients
        /\ x.stack = st.stack /\ x.sel = st.sel /\ x.mon = st.mon
        /\ x.list = st.list /\ x.tags = st.tags /\ x.tagset = st.tagset
    BY <1>2, ZenonT(60) DEF State, XUnmapWindow, WinOrNull
  <2> HIDE DEF x
  <2>3. t \in State
    BY <2>2 DEF State
  <2>4. /\ t.mapped = st.mapped \ {w} /\ t.alive = st.alive \ {w}
        /\ t.wmstate = [st.wmstate EXCEPT ![w] = "Withdrawn"]
        /\ t.clients = st.clients /\ t.stack = st.stack
        /\ t.sel = st.sel /\ t.mon = st.mon /\ t.list = st.list
        /\ t.tags = st.tags /\ t.tagset = st.tagset
    BY <2>2 DEF State
  <2> HIDE DEF t
  <2>5. Well(t)
    BY <1>2, <2>3, <2>4, SMTT(30) DEF Well, State
  <2> QED BY <2>1, <2>4, <2>5, ClientLemma
<1>5. CASE ClientMap(w)
  <2> DEFINE t == [st EXCEPT !.alive = @ \cup {w}, !.mapped = @ \cup {w}]
  <2>1. /\ Well(t) /\ t.clients = st.clients /\ t.stack = st.stack
        /\ t.sel = st.sel /\ t.mon = st.mon /\ t.list = st.list
        /\ t.tags = st.tags
    BY <1>2, <1>5, ZenonT(60) DEF Well, State
  <2>2. /\ st' = t /\ UNCHANGED <<phase, toscan>>
        /\ unmapq' \subseteq Win /\ destroyq' \subseteq Win /\ finq' \subseteq Win
    BY <1>2, <1>5 DEF ClientMap
  <2> HIDE DEF t
  <2> QED BY <2>1, <2>2, ClientLemma
<1>6. CASE ClientHint(w)
  <2> DEFINE t == [st EXCEPT !.hint = SymDiff(@, {w})]
  <2>1. /\ Well(t) /\ t.clients = st.clients /\ t.stack = st.stack
        /\ t.sel = st.sel /\ t.mon = st.mon /\ t.list = st.list
        /\ t.tags = st.tags
    BY <1>2, <1>6, ZenonT(60) DEF Well, State, SymDiff, ClientHint
  <2>2. /\ st' = t /\ UNCHANGED <<phase, toscan>>
        /\ unmapq' \subseteq Win /\ destroyq' \subseteq Win /\ finq' \subseteq Win
    BY <1>2, <1>6 DEF ClientHint
  <2> HIDE DEF t
  <2> QED BY <2>1, <2>2, ClientLemma
<1>7. CASE StealFocus(w)
  <2> DEFINE t == [st EXCEPT !.focus = w]
  <2>1. /\ Well(t) /\ t.clients = st.clients /\ t.stack = st.stack
        /\ t.sel = st.sel /\ t.mon = st.mon /\ t.list = st.list
        /\ t.tags = st.tags
    BY <1>2, <1>7 DEF Well, State, WinOrNull
  <2>2. /\ st' = t /\ UNCHANGED <<phase, toscan>>
        /\ unmapq' \subseteq Win /\ destroyq' \subseteq Win /\ finq' \subseteq Win
    BY <1>2, <1>7 DEF StealFocus
  <2> HIDE DEF t
  <2> QED BY <2>1, <2>2, ClientLemma
<1>8. CASE PointerEnters(w)
  <2> DEFINE t == [st EXCEPT !.enterq = w]
  <2>1. /\ Well(t) /\ t.clients = st.clients /\ t.stack = st.stack
        /\ t.sel = st.sel /\ t.mon = st.mon /\ t.list = st.list
        /\ t.tags = st.tags
    BY <1>2 DEF Well, State, WinOrNull
  <2>2. st' = t /\ UNCHANGED <<phase, toscan, unmapq, destroyq, finq>>
    BY <1>8 DEF PointerEnters
  <2> HIDE DEF t
  <2> QED BY <1>2, <2>1, <2>2, ClientLemma
<1> QED BY <1>1, <1>3, <1>4, <1>5, <1>6, <1>7, <1>8

-----------------------------------------------------------------------------
LEMMA InvInit ==
  Init => Inv
  BY InitialStateLemma DEF Init, Inv, TypeOK, ClientListCurrent, Good, Well

LEMMA InvNext ==
  Inv /\ [Next]_vars => Inv'
<1> SUFFICES ASSUME Inv, [Next]_vars
             PROVE  Inv'
  OBVIOUS
<1>1. CASE UNCHANGED vars
  BY <1>1 DEF vars, Inv, TypeOK, ClientListCurrent
<1> QED BY <1>1, KeysInv, ButtonsInv, EventsInv, ProcessInv, ClientsInv DEF Next

LEMMA InvAlways ==
  Spec => []Inv
  BY InvInit, InvNext, PTL DEF Spec

\* The state always has its type, and no window is mapped that does not
\* exist: showwin and showall only map windows whose WM_STATE is iconic, and
\* X drops that property with the window.
THEOREM TypeCorrect ==
  Spec => []TypeOK
<1>1. Inv => TypeOK
  BY DEF Inv
<1> QED BY <1>1, InvAlways, PTL

\* No client is ever lost from a list, listed twice, or listed by a monitor
\* that is not its own, and no monitor's sel dangles: what attach, detach,
\* attachstack, detachstack, sendmon, pop, manage and unmanage do together.
THEOREM ListsAlwaysConsistent ==
  Spec => []ListsConsistent
<1>1. Inv => ListsConsistent
  BY DEF Inv, Good, ListsConsistent
<1> QED BY <1>1, InvAlways, PTL

\* _NET_CLIENT_LIST always names exactly the managed clients.
THEOREM ClientListAlwaysCurrent ==
  Spec => []ClientListCurrent
<1>1. Inv => ClientListCurrent
  BY DEF Inv
<1> QED BY <1>1, InvAlways, PTL

\* No managed client ever loses its last tag and no monitor its last viewed
\* one, either of which would put windows out of reach of the keys: tag,
\* toggletag, view and toggleview refuse an empty mask, view(0) goes back to
\* the tag set viewed before, and a client that applyrules or sendmon gives
\* the tags in view gets a set that is not empty.
THEOREM TagsNeverEmpty ==
  Spec => []TagsNotEmpty
<1>1. Inv => TagsNotEmpty
  BY DEF Inv, Good, Well, AllTagged, TagsNotEmpty, Managed
<1> QED BY <1>1, InvAlways, PTL

-----------------------------------------------------------------------------
(***************************************************************************)
(* What the user sees of dwm in every reachable state: which windows are   *)
(* mapped, which have titlebars, which client is selected and where the    *)
(* input focus is.                                                         *)
(*                                                                         *)
(* The seven theorems at the end share one inductive invariant, AllInv.    *)
(* None of the properties is inductive alone, because a handler finds      *)
(* windows in states that other handlers, clients and earlier processes    *)
(* of dwm left:                                                            *)
(*                                                                         *)
(*  - WinInv is about windows.  A handler either leaves a window as it     *)
(*    was, or takes it and its titlebar off the screen and marks it        *)
(*    iconic, or puts both on the screen and marks it normal.  That there  *)
(*    is no fourth way (Changed) is proved of every C function in          *)
(*    DwmStateProofs; TitlebarShown, IconicIsUnmapped and NoWindowLost     *)
(*    follow.                                                              *)
(*  - SelInv is about the selection.  focus() chooses it well (Picked);    *)
(*    a handler that does not call focus() must leave everything that      *)
(*    choice rests on alone (Stays).                                       *)
(*                                                                         *)
(* Lemmas named ...All say that an action keeps AllInv, and lemmas named   *)
(* ...Works that an operator of Dwm does what HandlerAll asks for.         *)
(*                                                                         *)
(* Four of the properties do not hold of dwm under all circumstances.      *)
(* Their parts of the invariant, and their theorems, name what they need;  *)
(* without any one of these conditions TLC finds a counterexample.         *)
(***************************************************************************)

USE DwmAssumption

\* A normal client that is not fullscreen has its titlebar.
Titled ==
  \A c \in Managed(st) :
    st.wmstate[c] = "Normal" /\ ~st.mode[c].full => c \in st.strip

\* A normal client is mapped, unless its own UnmapNotify is still queued.
Drawn ==
  \A c \in Managed(st) : st.wmstate[c] = "Normal" => c \in st.mapped \cup unmapq

\* On a server that only one process of dwm has run on, an iconic window is
\* unmapped, and there is none when dwm starts.  An earlier process leaves
\* iconic windows, which their clients may map while no dwm runs.
Fresh ==
  ~Restarts =>
    /\ phase \in {"down", "scan", "run"}
    /\ \A w \in Win : HIDDEN(st, w) => w \notin st.mapped
    /\ phase = "down" => \A w \in Win : ~HIDDEN(st, w)

\* Every window that scan() should have looked at by now is managed.  The
\* queues matter because an UnmapNotify unmanages a client: unless a client
\* unmaps a window that it keeps, they name dead windows only.
Adopted ==
  Unmappers = {} =>
    /\ (unmapq \cup destroyq) \cap st.alive = {}
    /\ phase = "down" => unmapq \cup destroyq = {}
    /\ phase \in {"scan", "run"} =>
         \A w \in st.alive \ toscan :
           w \in st.mapped \/ HIDDEN(st, w) => w \in Managed(st)
    /\ phase = "run" => toscan = {}

\* Without fullscreen an iconic client has no titlebar to click on; leaving
\* fullscreen maps the titlebar of an iconic client too.
Bare ==
  Fullers = {} => \A c \in st.strip : ~HIDDEN(st, c)

WinInv == Titled /\ Drawn /\ Fresh /\ Adopted /\ Bare

\* The inputs under which dwm selects no client that is hidden: every way in
\* which it does loses the input focus, since X refuses to set it there.
PlainInputs ==
  /\ ~HidKeys /\ ~Strays /\ Fullers = {}
  /\ ~Restarts \/ Unmappers = {}

\* The selected client is in view, on top of its stack and not urgent.
Settled ==
  Sel # NULL => /\ ISVISIBLE(st, Sel)
                /\ st.stack[st.selmon][1] = Sel
                /\ Sel \notin st.urgent

\* Nothing is selected only when no window of the selected monitor is mapped.
NotLost ==
  ~Restarts /\ Sel = NULL => VisibleOn(st, st.selmon) \cap st.mapped = {}

\* The selected client has the input focus, or a FocusIn is queued for another
\* window; the rest says that no queued event, no revealed client and no
\* iconic selection can move the focus elsewhere.
Followed ==
  PlainInputs =>
    /\ \A m \in Mon : ~st.hidsel[m]
    /\ st.enterq = NULL
    /\ Plain(st)
    /\ Sel \in st.mapped \ NeverFocus =>
         st.focus = Sel \/ (finq # {} /\ Sel \notin finq)

SelInv == Settled /\ NotLost /\ Followed

\* The inductive invariant.
AllInv == Inv /\ WinInv /\ SelInv

-----------------------------------------------------------------------------
(* What a step must do to keep the two invariants.                         *)

\* The windows that a step changes.
Changed(s, t) ==
  \A w \in Win :
    \/ /\ AsBefore(s, t, w)
       /\ w \in Managed(t) => \/ HIDDEN(s, w)
                              \/ w \in Managed(s) /\ t.mode[w].full = s.mode[w].full
    \/ Away(t, w) \/ Shown(t, w)
    \/ /\ w \in Managed(t) => t.wmstate[w] # "Normal"
       /\ w \in t.strip => w \in s.strip
       /\ w \in t.mapped => w \in s.mapped
       /\ t.wmstate[w] \in {s.wmstate[w], "Withdrawn"}

LEMMA TidyChanged ==
  ASSUME NEW s, NEW t, Tidy(Managed(s), s, t), Managed(t) = Managed(s)
  PROVE  Changed(s, t)
  BY DEF Tidy, Changed

\* A step that changes windows in these ways keeps WinInv.
LEMMA ChangedWindows ==
  ASSUME WinInv, NEW t, Good(t), st' = t, Changed(st, t),
         unmapq \cap Managed(t) \subseteq unmapq',
         phase' \in {"scan", "run"} \/ (Restarts /\ phase' # "down"),
         Adopted'
  PROVE  WinInv'
<1>1. Managed(t) \subseteq Win /\ t.strip \subseteq Win
  BY ManagedLemma DEF Good, Well, State
<1>2. \A w \in Win : HIDDEN(t, w) => HIDDEN(st, w) \/ Away(t, w)
  BY DEF Changed, AsBefore, HIDDEN, Shown
<1>3. ASSUME NEW c \in Managed(t), t.wmstate[c] = "Normal"
      PROVE  /\ ~t.mode[c].full => c \in t.strip
             /\ c \in t.mapped \cup unmapq'
  <2>1. CASE AsBefore(st, t, c) /\ c \in Managed(st) /\ t.mode[c].full = st.mode[c].full
    BY <1>3, <2>1 DEF WinInv, Titled, Drawn, AsBefore
  <2>2. CASE Shown(t, c)
    BY <2>2 DEF Shown
  <2> QED BY <1>1, <1>3, <2>1, <2>2 DEF Changed, Away, AsBefore, HIDDEN
<1>4. Titled' /\ Drawn'
  BY <1>3 DEF Titled, Drawn
<1>5. ASSUME NEW w \in Win, HIDDEN(t, w), w \in t.mapped \/ w \in t.strip
      PROVE  /\ HIDDEN(st, w)
             /\ w \in t.mapped => w \in st.mapped
             /\ w \in t.strip => w \in st.strip
  BY <1>5 DEF Changed, AsBefore, Away, Shown, HIDDEN
<1>6. Fresh'
  BY <1>5 DEF WinInv, Fresh
<1>7. Bare'
  BY <1>1, <1>5 DEF WinInv, Bare
<1> QED BY <1>4, <1>6, <1>7 DEF WinInv

\* Chosen of DwmStateProofs without the input focus, and the rest of it.
Picked(s) ==
  IF Selected(s) = NULL THEN ShownOn(s, s.selmon) = {}
  ELSE /\ ISVISIBLE(s, Selected(s))
       /\ s.stack[s.selmon][1] = Selected(s)
       /\ Selected(s) \notin s.urgent

Focused(s) == Selected(s) \in s.mapped \ NeverFocus => s.focus = Selected(s)

\* The choice of the selected client stands, and what it rests on.
Stays(s, t) ==
  /\ SameViews(s, t)
  /\ t.stack = s.stack /\ t.sel = s.sel /\ t.selmon = s.selmon
  /\ Selected(s) \notin s.urgent => Selected(s) \notin t.urgent
  /\ ~Restarts /\ Selected(s) = NULL => t.mapped \subseteq s.mapped

\* The selected client keeps the input focus, if it had it and is mapped.
SameFocus(s, t) ==
  /\ Selected(t) = Selected(s)
  /\ Selected(t) \in t.mapped =>
       Selected(t) \in s.mapped /\ (s.focus = Selected(s) => t.focus = s.focus)

LEMMA ChosenPicked ==
  ASSUME NEW s
  PROVE  Chosen(s) <=> Picked(s) /\ Focused(s)
  BY DEF Chosen, Picked, Focused

LEMMA SameChoiceStays ==
  ASSUME NEW s, NEW t, SameChoice(s, t)
  PROVE  Stays(s, t) /\ SameFocus(s, t)
  BY DEF SameChoice, Unmoved, Stays, SameFocus, Selected

\* A step that selects anew, or leaves the selection alone, keeps SelInv.
LEMMA ChangedSelection ==
  ASSUME SelInv, NEW t, Good(t), st' = t, Fresh',
         Picked(t) \/ Stays(st, t),
         PlainInputs => /\ Calm(st, t) /\ Plain(t)
                        /\ Focused(t) \/ (SameFocus(st, t) /\ finq' = finq)
  PROVE  SelInv'
<1>1. Sel' = Selected(t) /\ Sel = Selected(st)
  BY DEF Sel, Selected
<1>2. Settled'
  <2>1. CASE Picked(t)
    BY <1>1, <2>1 DEF Picked, Settled
  <2>2. CASE Stays(st, t)
    <3>1. Selected(t) = Selected(st) /\ t.stack = st.stack /\ t.selmon = st.selmon
      BY <2>2 DEF Stays, Selected
    <3>2. ISVISIBLE(st, Sel) => ISVISIBLE(t, Sel)
      BY <2>2, SameViewsVisible DEF Stays
    <3> QED BY <1>1, <2>2, <3>1, <3>2 DEF Settled, SelInv, Stays
  <2> QED BY <2>1, <2>2
<1>3. NotLost'
  <2> SUFFICES ASSUME ~Restarts, Selected(t) = NULL
               PROVE  VisibleOn(t, t.selmon) \cap t.mapped = {}
    BY <1>1 DEF NotLost
  <2>1. VisibleOn(t, t.selmon) \subseteq Win
    <3>1. t.selmon \in Mon
      BY DEF Good, Well, State
    <3>2. VisibleOn(t, t.selmon) \subseteq Managed(t)
      BY <3>1 DEF VisibleOn, Managed
    <3> QED BY <3>2, ManagedLemma
  <2>2. CASE Picked(t)
    <3>1. \A c \in VisibleOn(t, t.selmon) : HIDDEN(t, c)
      BY <2>2 DEF Picked, ShownOn
    <3> QED BY <2>1, <3>1 DEF Fresh
  <2>3. CASE Stays(st, t)
    <3>1. Selected(st) = NULL /\ t.mapped \subseteq st.mapped
      BY <2>3 DEF Stays, Selected
    <3>2. VisibleOn(t, t.selmon) = VisibleOn(st, st.selmon)
      BY <2>3, SameViewsVisible DEF Stays
    <3> QED BY <1>1, <3>1, <3>2 DEF SelInv, NotLost
  <2> QED BY <2>2, <2>3
<1>4. Followed'
  <2> SUFFICES ASSUME PlainInputs
               PROVE  Followed'
    BY DEF Followed
  <2>1. /\ Followed /\ Plain(t)
        /\ Focused(t) \/ (SameFocus(st, t) /\ finq' = finq)
        /\ \A m \in Mon : ~t.hidsel[m]
        /\ t.enterq = NULL
    BY DEF SelInv, Followed, Calm
  <2>2. Selected(t) \in t.mapped \ NeverFocus =>
          t.focus = Selected(t) \/ (finq' # {} /\ Selected(t) \notin finq')
    BY <1>1, <2>1 DEF Followed, Focused, SameFocus
  <2> QED BY <1>1, <2>1, <2>2 DEF Followed
<1> QED BY <1>2, <1>3, <1>4 DEF SelInv

-----------------------------------------------------------------------------
(* Handlers.                                                               *)

\* What a handler must do to keep the whole invariant.
LEMMA HandlerAll ==
  ASSUME AllInv, NEW s, Handler(s), Moves(st, s), Tidy(Managed(st), st, s),
         Picked(s) \/ Stays(st, s),
         PlainInputs => /\ Calm(st, s) /\ Plain(s)
                        /\ Focused(s) \/ SameFocus(st, s)
  PROVE  AllInv'
<1>1. Inv'
  BY HandlerLemma DEF AllInv
<1>2. /\ st' = s /\ phase = "run" /\ phase' = phase /\ toscan' = toscan
      /\ unmapq' = unmapq /\ destroyq' = destroyq /\ finq' = finq
  BY DEF Handler, queues
<1>3. Good(s) /\ Managed(s) = Managed(st) /\ s.alive = st.alive
  BY DEF Moves
<1>4. Changed(st, s)
  BY <1>3, TidyChanged
<1>5. Adopted'
  <2>1. st.alive \subseteq Win
    BY DEF AllInv, Inv, Good, Well, State
  <2>2. \A w \in st.alive : w \notin Managed(st) => AsBefore(st, s, w)
    BY <2>1 DEF Tidy
  <2>3. \A w \in st.alive \ toscan :
          s.alive = st.alive /\ w \notin Managed(st) /\ (w \in s.mapped \/ HIDDEN(s, w))
            => w \in st.mapped \/ HIDDEN(st, w)
    BY <2>2 DEF AsBefore, HIDDEN
  <2> QED BY <1>2, <1>3, <2>3 DEF AllInv, WinInv, Adopted
<1>6. WinInv'
  BY <1>2, <1>3, <1>4, <1>5, ChangedWindows DEF AllInv
<1>7. SelInv'
  BY <1>2, <1>3, <1>6, ChangedSelection DEF AllInv, WinInv
<1> QED BY <1>1, <1>6, <1>7 DEF AllInv

LEMMA WorksAll ==
  ASSUME AllInv, NEW s, Handler(s), Works(st, s)
  PROVE  AllInv'
<1>1. PlainInputs => Plain(st)
  BY DEF AllInv, SelInv, Followed
<1>2. \/ Picked(s) /\ Focused(s)
      \/ Stays(st, s) /\ SameFocus(st, s)
  BY ChosenPicked, SameChoiceStays DEF Works
<1> QED BY <1>1, <1>2, HandlerAll DEF Works, Steps

-----------------------------------------------------------------------------
(* The operators of Dwm that build handlers.                               *)

LEMMA TaggedWorks ==
  ASSUME NEW s, Good(s), NEW mask \in Masks
  PROVE  Works(s, Tagged(s, mask)) /\ Works(s, TagToggled(s, mask))
<1>1. ASSUME NEW t \in {Tagged(s, mask), TagToggled(s, mask)}
      PROVE  Works(s, t)
  <2>1. CASE t = s
    BY <2>1, WorksSelf
  <2>2. ASSUME NEW c \in Win, NEW g \in (SUBSET Tag) \ {{}},
               t = Refocus(Retag(s, c, g))
        PROVE  Works(s, t)
    <3>1. Moves(s, Retag(s, c, g))
      BY TagsKeep, KeepsMoves
    <3>2. Aside(s, Retag(s, c, g))
      BY GoodRecord DEF Aside, Retag, Fields
    <3>3. Steps(s, Retag(s, c, g))
      BY <3>1, <3>2, StepsAside
    <3> QED BY <2>2, <3>3, RefocusWorks
  <2> QED BY <2>1, <2>2, TaggedShape
<1> QED BY <1>1

LEMMA ViewedWorks ==
  ASSUME NEW s, Good(s), NEW mask \in SUBSET Tag
  PROVE  Works(s, Viewed(s, mask)) /\ Works(s, ViewToggled(s, mask))
<1>1. ASSUME NEW t \in {Viewed(s, mask), ViewToggled(s, mask)}
      PROVE  Works(s, t)
  <2>1. CASE t = s
    BY <2>1, WorksSelf
  <2>2. ASSUME NEW m \in Mon, NEW i \in {0, 1}, NEW j \in {0, 1},
               NEW g \in (SUBSET Tag) \ {{}},
               t = Refocus(Review(s, m, i, j, g))
        PROVE  Works(s, t)
    <3>1. Moves(s, Review(s, m, i, j, g))
      BY TagsetKeeps, KeepsMoves
    <3>2. Aside(s, Review(s, m, i, j, g))
      BY GoodRecord DEF Aside, Review, Fields
    <3>3. Steps(s, Review(s, m, i, j, g))
      BY <3>1, <3>2, StepsAside
    <3> QED BY <2>2, <3>3, RefocusWorks
  <2> QED BY <2>1, <2>2, ViewedShape
<1> QED BY <1>1

LEMMA PoppedWorks ==
  ASSUME NEW s, Good(s), NEW c \in Managed(s),
         Plain(s) /\ HIDDEN(s, c) => c \in s.mapped
  PROVE  Works(s, Popped(s, c))
<1> DEFINE d == detach(s, c)
           a == attach(d, c)
<1>1. Aside(s, d)
  BY GoodRecord, AsideLemma
<1>2. Moves(s, a)
  BY PulledLemma
<1> HIDE DEF d
<1>3. Aside(d, a)
  BY <1>1, AsideLemma DEF Aside
<1> HIDE DEF a
<1>4. Aside(s, a) /\ Steps(s, a)
  BY <1>1, <1>2, <1>3, AsideTrans, StepsAside
<1>5. Plain(s) /\ HIDDEN(a, c) => c \in a.mapped
  BY <1>4 DEF Aside, HIDDEN
<1>6. Popped(s, c) = arrange(focus(a, c), focus(a, c).mon[c])
  BY DEF Popped, a, d
<1>7. \A m : Works(s, arrange(focus(a, c), m))
  BY <1>4, <1>5, StepsFocus
<1> QED BY <1>6, <1>7

\* What zoom moves to the head of the list is the selected client or a shown
\* one.
LEMMA ZoomedWorks ==
  ASSUME NEW s, Good(s)
  PROVE  Works(s, Zoomed(s))
<1> DEFINE m   == s.selmon
           seq == s.clients[m]
           c   == s.sel[m]
           n   == FirstFrom(seq, IndexOf(seq, c) + 1, Tiled(s, m))
<1>1. m \in Mon /\ seq \in Seq(Win)
  BY DEF Good, Well, State
<1>2. n \in Managed(s) \cup {NULL} /\ c \in Managed(s) \cup {NULL}
  BY <1>1, SearchLemma, SelManaged
<1>3. n # NULL => ~HIDDEN(s, n)
  <2>1. Len(seq) \in Nat /\ DOMAIN seq = 1 .. Len(seq)
    BY <1>1
  <2>2. n \in Tiled(s, m) \cup {NULL}
    BY <2>1, FirstFromLemma
  <2> QED BY <2>2 DEF Tiled, ShownOn
<1>4. c # NULL => (Plain(s) /\ HIDDEN(s, c) => c \in s.mapped)
  BY DEF Plain, Selected
<1>5. \/ Zoomed(s) = s
      \/ c # NULL /\ Zoomed(s) = Popped(s, c)
      \/ n # NULL /\ Zoomed(s) = Popped(s, n)
  BY DEF Zoomed
<1> HIDE DEF n, c
<1> QED BY <1>2, <1>3, <1>4, <1>5, PoppedWorks, WorksSelf

LEMMA ToggledWorks ==
  ASSUME NEW s, Good(s), NEW c \in Managed(s)
  PROVE  Works(s, Toggled(s, c))
<1>1. c \in Managed(s) \cup {NULL} /\ c # NULL
  BY ManagedLemma
<1>2. CASE c = s.sel[s.selmon]
  <2>1. Steps(s, hidewin(s, c))
    BY <1>1, HidewinSteps
  <2>2. \A m : Works(s, arrange(focus(hidewin(s, c), NULL), m))
    BY <2>1, StepsFocus
  <2> QED BY <1>2, <2>2 DEF Toggled
<1>3. CASE c # s.sel[s.selmon]
  <2>1. Steps(s, showwin(s, c)) /\ ~HIDDEN(showwin(s, c), c)
    BY <1>1, ShowwinSteps
  <2>2. LET f == focus(showwin(s, c), c) IN Works(s, restack(f, f.selmon))
    BY <1>1, <2>1, StepsFocus
  <2> QED BY <1>3, <2>2 DEF Toggled
<1> QED BY <1>2, <1>3

LEMMA ClickMonWorks ==
  ASSUME Good(st), NEW m \in Mon
  PROVE  Works(st, ClickMon(m))
  BY SwitchMonWorks, WorksSelf DEF ClickMon

\* Steps that end in focus(), when more is known of the client than Works says.
LEMMA FocusSteps ==
  ASSUME NEW s, NEW t, Steps(s, t), NEW c \in Managed(s) \cup {NULL}
  PROVE  LET f == focus(t, c)
         IN  \A r : r = f \/ (\E m : r = restack(f, m) \/ r = arrange(f, m)) =>
               /\ Steps(s, r) /\ Picked(r) /\ Focused(r)
               /\ (c # NULL /\ HIDDEN(t, c) => c \in t.mapped) => Plain(r)
<1> DEFINE f == focus(t, c)
<1>1. Good(t) /\ c \in Managed(t) \cup {NULL}
  BY StepsGood
<1>2. /\ Steps(t, f) /\ Chosen(f)
      /\ (c # NULL /\ HIDDEN(t, c) => c \in t.mapped) => Plain(f)
  BY <1>1, FocusChoice
<1> HIDE DEF f
<1>3. Steps(s, f) /\ Good(f)
  BY <1>2, StepsTrans, StepsGood
<1> SUFFICES ASSUME NEW r, r = f \/ \E m : r = restack(f, m) \/ r = arrange(f, m)
             PROVE  /\ Steps(s, r) /\ Picked(r) /\ Focused(r)
                    /\ (c # NULL /\ HIDDEN(t, c) => c \in t.mapped) => Plain(r)
  BY DEF f
<1>4. Works(f, r)
  BY <1>3, RestackWorks, WorksSelf
<1>5. Steps(s, r) /\ Chosen(r) /\ (Plain(f) => Plain(r))
  BY <1>2, <1>3, <1>4, StepsTrans, SameChoiceLemma DEF Works
<1> QED BY <1>2, <1>5, ChosenPicked

-----------------------------------------------------------------------------
(* Keys.                                                                   *)

\* focusstackvis only goes to clients that are shown.
LEMMA NextShown ==
  ASSUME Good(st), NEW forward, FocusStack(forward, FALSE)
  PROVE  NextInStack(forward, FALSE) \in ShownOn(st, st.selmon)
<1> DEFINE seq == st.clients[st.selmon]
           cand == ShownOn(st, st.selmon)
<1>1. Len(seq) \in Nat /\ DOMAIN seq = 1 .. Len(seq)
  <2>1. st.selmon \in Mon /\ seq \in Seq(Win)
    BY DEF Good, Well, State
  <2> QED BY <2>1
<1>2. \A k : /\ FirstFrom(seq, k, cand) \in cand \cup {NULL}
             /\ LastUpTo(seq, k, cand) \in cand \cup {NULL}
  <2> HIDE DEF seq, cand
  <2> QED BY <1>1, FirstFromLemma, LastUpToLemma
<1>3. Sel # NULL /\ NextInStack(forward, FALSE) # NULL
  BY DEF FocusStack
<1>4. \E k : \/ NextInStack(forward, FALSE) = FirstFrom(seq, k, cand)
             \/ NextInStack(forward, FALSE) = LastUpTo(seq, k, cand)
  BY <1>3 DEF NextInStack, FirstIn
<1> QED BY <1>2, <1>3, <1>4

\* A client that focusstackhid reveals is selected, or not in view.
LEMMA FocusStackAll ==
  ASSUME AllInv, NEW forward \in BOOLEAN, NEW hid \in BOOLEAN,
         FocusStack(forward, hid), hid => HidKeys
  PROVE  AllInv'
<1> DEFINE c == NextInStack(forward, hid)
           f == focus(st, c)
           r == restack(f, f.selmon)
           x == showwin(r, c)
           y == [x EXCEPT !.hidsel[r.mon[c]] = TRUE]
           s == IF HIDDEN(r, c) THEN y ELSE r
<1>1. Good(st) /\ Steps(st, st)
  BY StepsSelf DEF AllInv, Inv
<1>2. c \in Managed(st) /\ c \in Managed(st) \cup {NULL} /\ c \in Win /\ c # NULL
  BY <1>1, NextManaged, ManagedLemma
<1>3. Handler(s)
  BY DEF FocusStack
<1>4. ~hid => ~HIDDEN(st, c) /\ ISVISIBLE(st, c)
  BY <1>1, NextShown DEF ShownOn, VisibleOn
<1>5. PlainInputs => ~hid
  BY DEF PlainInputs
<1> HIDE DEF c
<1>6. /\ Steps(st, r) /\ Picked(r) /\ Focused(r)
      /\ ~HIDDEN(st, c) => Plain(r)
  BY <1>1, <1>2, FocusSteps
<1>7. ISVISIBLE(st, c) => Selected(r) = c /\ AsBefore(st, r, c)
  <2>1. ISVISIBLE(st, c) => Selected(f) = c /\ AsBefore(st, f, c)
    BY <1>1, <1>2, FocusChoice
  <2>2. Good(f)
    BY <1>1, <1>2, FocusChoice, StepsGood
  <2> HIDE DEF f
  <2>3. Aside(f, r) /\ Selected(r) = Selected(f)
    BY <2>2, GoodRecord, AsideLemma DEF restack, Selected, Fields
  <2> QED BY <2>1, <2>3 DEF Aside, AsBefore
<1>8. ISVISIBLE(r, c) <=> ISVISIBLE(st, c)
  <2>1. SameViews(st, f) /\ Good(f)
    BY <1>1, <1>2, FocusChoice, StepsGood
  <2> HIDE DEF f
  <2>2. SameViews(f, r)
    BY <2>1, GoodRecord DEF restack, SameViews, Fields
  <2> HIDE DEF r
  <2> QED BY <2>1, <2>2, SameViewsVisible
<1>9. Good(r) /\ Managed(r) = Managed(st)
  BY <1>6, StepsGood
<1> HIDE DEF r, f
<1>10. CASE ~HIDDEN(r, c)
  <2>1. PlainInputs => Plain(r)
    BY <1>4, <1>5, <1>6
  <2>2. Handler(r)
    BY <1>3, <1>10
  <2> QED BY <1>6, <2>1, <2>2, HandlerAll DEF Steps
<1>11. CASE HIDDEN(r, c)
  <2>1. Steps(r, x) /\ Unmoved(r, x)
    BY <1>2, <1>9, ShowwinSteps, HidewinUnmoved, GoodRecord
  <2>2. Good(x) /\ r.mon[c] \in Mon
    BY <1>2, <1>9, <2>1, StepsGood, ManagedLemma
  <2>4. \A w \in Win \ {c} : AsBefore(r, x, w)
    BY <1>2, <1>9, ShowwinSteps DEF Tidy
  <2> HIDE DEF x
  <2>5. Keeps(x, y)
    BY <2>2, HidselLemma
  <2>6. /\ y.mapped = x.mapped /\ y.wmstate = x.wmstate /\ y.strip = x.strip
        /\ y.mode = x.mode /\ Unmoved(x, y)
    BY <2>2, GoodRecord DEF Unmoved, SameViews, Fields
  <2>7. Handler(y)
    BY <1>3, <1>11
  <2> HIDE DEF y
  <2>8. Moves(st, y)
    BY <1>6, <2>1, <2>5, KeepsMoves, MovesTrans DEF Steps
  <2>9. Tidy(Managed(st), st, y)
    <3>1. Tidy(Managed(st), st, x)
      BY <1>6, <2>1, StepsTrans DEF Steps
    <3> QED BY <2>6, <3>1 DEF Tidy, AsBefore, Away, Shown
  <2>10. ~PlainInputs
    BY <1>4, <1>5, <1>7, <1>11 DEF AsBefore, HIDDEN
  <2>11. Picked(y)
    <3>1. Unmoved(r, y)
      BY <2>1, <2>6 DEF Unmoved, SameViews
    <3>2. /\ Selected(y) = Selected(r) /\ y.selmon = r.selmon
          /\ y.stack = r.stack /\ y.urgent = r.urgent
      BY <3>1 DEF Unmoved, Selected
    <3>3. /\ \A w : ISVISIBLE(y, w) <=> ISVISIBLE(r, w)
          /\ VisibleOn(y, y.selmon) = VisibleOn(r, r.selmon)
      BY <3>1, <3>2, SameViewsVisible DEF Unmoved
    <3>4. CASE Selected(r) = NULL
      <4>1. ~ISVISIBLE(r, c)
        BY <1>2, <1>7, <1>8, <3>4
      <4>2. VisibleOn(r, r.selmon) \subseteq Win \ {c}
        <5>1. r.selmon \in Mon
          BY <1>9 DEF Good, Well, State
        <5>2. VisibleOn(r, r.selmon) \subseteq Managed(r)
          BY <5>1 DEF VisibleOn, Managed
        <5>3. Managed(r) \subseteq Win
          BY <1>9, ManagedLemma
        <5> QED BY <4>1, <5>2, <5>3 DEF VisibleOn
      <4>3. \A w \in VisibleOn(r, r.selmon) : HIDDEN(r, w) => HIDDEN(y, w)
        BY <2>4, <2>6, <4>2 DEF AsBefore, HIDDEN
      <4> QED BY <1>6, <3>2, <3>3, <3>4, <4>3 DEF Picked, ShownOn
    <3>5. CASE Selected(r) # NULL
      BY <1>6, <3>2, <3>3, <3>5 DEF Picked
    <3> QED BY <3>4, <3>5
  <2> QED BY <2>7, <2>8, <2>9, <2>10, <2>11, HandlerAll
<1> QED BY <1>10, <1>11

LEMMA FocusmonAll ==
  ASSUME AllInv, NEW forward \in BOOLEAN, focusmon(forward)
  PROVE  AllInv'
<1> DEFINE m == dirtomon(forward)
           v == [st EXCEPT !.selmon = m]
<1>1. Good(st) /\ m \in Mon
  BY DirtomonType DEF AllInv, Inv, Good, Well, State
<1>2. Handler(focus(v, NULL))
  BY DEF focusmon
<1> HIDE DEF m
<1>3. Steps(st, v)
  BY <1>1, SelmonSteps
<1> HIDE DEF v
<1>4. Works(st, focus(v, NULL))
  BY <1>3, StepsFocus
<1> QED BY <1>2, <1>4, WorksAll

LEMMA TagmonAll ==
  ASSUME AllInv, NEW forward \in BOOLEAN, tagmon(forward)
  PROVE  AllInv'
<1>1. Good(st) /\ st.selmon \in Mon
  BY DEF AllInv, Inv, Good, Well, State
<1>2. dirtomon(forward) \in Mon /\ Sel \in Managed(st)
  BY <1>1, DirtomonType, SelManaged DEF tagmon, Sel
<1>3. Works(st, sendmon(st, Sel, dirtomon(forward)))
  BY <1>1, <1>2, SendmonWorks
<1> QED BY <1>3, WorksAll DEF tagmon

\* Steps that change nothing that windows or the selection rest on.
LEMMA QuietWorks ==
  ASSUME NEW s, Good(s), NEW t, Moves(s, t), Unmoved(s, t), t.focus = s.focus,
         t.mapped = s.mapped, t.wmstate = s.wmstate, t.strip = s.strip,
         \A w \in Win : t.mode[w].full = s.mode[w].full, Calm(s, t)
  PROVE  Works(s, t)
<1>1. Steps(s, t)
  BY DEF Steps, Tidy, AsBefore
<1>2. SameChoice(s, t)
  BY DEF SameChoice
<1> QED BY <1>1, <1>2, SameChoiceLemma DEF Works

LEMMA SetlayoutAll ==
  ASSUME AllInv, NEW tiling \in BOOLEAN, setlayout(tiling)
  PROVE  AllInv'
<1> DEFINE v == [st EXCEPT !.tiling[st.selmon] = tiling]
           s == IF Sel = NULL THEN v ELSE arrange(v, v.selmon)
<1>1. Good(st)
  BY DEF AllInv, Inv
<1>2. Well(v) /\ SameLists(st, v)
  BY <1>1 DEF Good, Well, State, SameLists
<1>3. Moves(st, v) /\ Good(v)
  BY <1>1, <1>2, SameListsKeep, KeepsMoves DEF Keeps
<1>4. Works(st, v)
  <2>1. /\ Unmoved(st, v) /\ v.focus = st.focus /\ v.mapped = st.mapped
        /\ v.wmstate = st.wmstate /\ v.strip = st.strip
        /\ v.mode = st.mode /\ v.hidsel = st.hidsel /\ v.enterq = st.enterq
    BY <1>1, GoodRecord DEF Unmoved, SameViews, Fields
  <2> HIDE DEF v
  <2> QED BY <1>1, <1>3, <2>1, QuietWorks DEF Calm
<1>5. Handler(s)
  BY DEF setlayout
<1> HIDE DEF v
<1>6. Works(st, s)
  BY <1>3, <1>4, RestackWorks, WorksTrans
<1> QED BY <1>5, <1>6, WorksAll

\* The mode of a client changes, but not to or from fullscreen.
LEMMA ModeAll ==
  ASSUME AllInv, NEW c \in Win, NEW x \in Modes, x.full = st.mode[c].full, NEW m,
         Handler(arrange([st EXCEPT !.mode[c] = x], m))
  PROVE  AllInv'
<1> DEFINE v == [st EXCEPT !.mode[c] = x]
<1>1. Good(st) /\ st.mode \in [Win -> Modes]
  BY DEF AllInv, Inv, Good, Well, State
<1>2. Moves(st, v) /\ Good(v)
  BY <1>1, ModeLemma, KeepsMoves DEF Keeps
<1>3. Works(st, v)
  <2>1. /\ Unmoved(st, v) /\ v.focus = st.focus /\ v.mapped = st.mapped
        /\ v.wmstate = st.wmstate /\ v.strip = st.strip
        /\ v.mode = [st.mode EXCEPT ![c] = x]
        /\ v.hidsel = st.hidsel /\ v.enterq = st.enterq
    BY <1>1, GoodRecord DEF Unmoved, SameViews, Fields
  <2> HIDE DEF v
  <2>2. \A w \in Win : v.mode[w].full = st.mode[w].full
    BY <1>1, <2>1
  <2> QED BY <1>1, <1>2, <2>1, <2>2, QuietWorks DEF Calm
<1> HIDE DEF v
<1>4. Works(st, arrange(v, m))
  BY <1>2, <1>3, RestackWorks, WorksTrans
<1> QED BY <1>4, WorksAll DEF v

LEMMA TogglefloatingAll ==
  ASSUME AllInv, togglefloating
  PROVE  AllInv'
<1> DEFINE d == st.mode[Sel]
           x == [d EXCEPT !.float = ~@]
<1>1. Sel \in Win
  BY DEF togglefloating
<1>2. st.mode \in [Win -> Modes] /\ d \in Modes
  BY <1>1 DEF AllInv, Inv, Good, Well, State
<1>3. x \in Modes /\ x.full = d.full
  BY <1>2 DEF Modes
<1>4. [st EXCEPT !.mode[Sel].float = ~@] = [st EXCEPT !.mode[Sel] = x]
  BY <1>1, <1>2
<1> HIDE DEF x
<1>5. Handler(arrange([st EXCEPT !.mode[Sel] = x], st.selmon))
  BY <1>4 DEF togglefloating
<1> QED BY <1>1, <1>3, <1>5, ModeAll

\* show may show the selected client; the choice of it stands.
LEMMA ShowAll ==
  ASSUME AllInv, show
  PROVE  AllInv'
<1> DEFINE v == [st EXCEPT !.hidsel[st.selmon] = FALSE]
           s == showwin(v, Sel)
<1>1. Good(st) /\ st.selmon \in Mon /\ Sel \in Managed(st) \cup {NULL}
      /\ st.hidsel \in [Mon -> BOOLEAN] /\ Sel = Selected(st)
  BY SelManaged DEF AllInv, Inv, Good, Well, State, Sel, Selected
<1>2. Keeps(st, v)
  BY <1>1, HidselLemma
<1>3. Moves(st, v) /\ Good(v)
  BY <1>2, KeepsMoves DEF Keeps
<1>4. /\ Unmoved(st, v) /\ v.focus = st.focus /\ v.mapped = st.mapped
      /\ v.wmstate = st.wmstate /\ v.strip = st.strip
      /\ v.mode = st.mode /\ v.hidsel = [st.hidsel EXCEPT ![st.selmon] = FALSE]
      /\ v.enterq = st.enterq
  BY <1>1, GoodRecord DEF Unmoved, SameViews, Fields
<1>5. Handler(s)
  BY DEF show
<1> HIDE DEF v
<1>6. Works(st, v)
  BY <1>1, <1>3, <1>4, QuietWorks DEF Calm
<1>7. Steps(v, s) /\ Unmoved(v, s) /\ (Sel # NULL => ~HIDDEN(s, Sel))
  BY <1>1, <1>3, ShowwinSteps, HidewinUnmoved, GoodRecord DEF Moves
<1>8. Sel = NULL => s = v
  BY DEF showwin
<1>9. v.selmon = st.selmon /\ Selected(v) = Sel /\ Selected(s) = Sel
      /\ SameViews(st, s) /\ s.stack = st.stack /\ s.sel = st.sel
      /\ s.selmon = st.selmon /\ s.urgent = st.urgent
  BY <1>1, <1>4, <1>7 DEF Unmoved, Selected, SameViews
<1>10. HIDDEN(st, Sel) /\ Plain(st) => Sel = NULL \/ Sel \in st.mapped
  BY <1>1 DEF Plain
<1>11. Sel # NULL /\ ~HIDDEN(v, Sel) => s = v
  BY DEF showwin
<1>12. s.focus = v.focus
  BY <1>3, GoodRecord DEF showwin, arrange, restack, Fields
<1>13. Steps(st, s)
  BY <1>6, <1>7, StepsTrans DEF Works
<1> HIDE DEF s
<1>14. Stays(st, s)
  BY <1>1, <1>4, <1>8, <1>9 DEF Stays
<1>15. Plain(s)
  BY <1>7, <1>9 DEF Plain
<1>16. Plain(st) => SameFocus(st, s)
  <2>1. Plain(st) => s.mapped = st.mapped \/ Sel \in st.mapped
    BY <1>4, <1>8, <1>10, <1>11 DEF HIDDEN
  <2> QED BY <1>1, <1>4, <1>9, <1>12, <2>1 DEF SameFocus
<1>17. PlainInputs => Plain(st)
  BY DEF AllInv, SelInv, Followed
<1> QED BY <1>5, <1>13, <1>14, <1>15, <1>16, <1>17, HandlerAll DEF Steps

LEMMA ShowSetSteps ==
  ASSUME NEW s, Good(s), NEW hid \in SUBSET Managed(s),
         \A c \in hid : HIDDEN(s, c)
  PROVE  LET t == Reveal(s, hid)
         IN  /\ Steps(s, t) /\ Unmoved(s, t)
             /\ t.focus = s.focus /\ t.mapped = s.mapped \cup hid
             /\ \A w \in Win : HIDDEN(t, w) <=> HIDDEN(s, w) /\ w \notin hid
<1> DEFINE f == [w \in Win |-> IF w \in hid THEN "Normal" ELSE s.wmstate[w]]
           t == Reveal(s, hid)
<1>1. hid \in SUBSET Win
  BY ManagedLemma
<1>2. Moves(s, t)
  BY <1>1, ShowSetLemma, KeepsMoves
<1>3. \A w \in Win : f[w] = IF w \in hid THEN "Normal" ELSE s.wmstate[w]
  OBVIOUS
<1> HIDE DEF f
<1>4. /\ Unmoved(s, t) /\ t.focus = s.focus /\ t.mapped = s.mapped \cup hid
      /\ t.strip = s.strip \cup hid /\ t.wmstate = f
      /\ t.mode = s.mode /\ t.hidsel = s.hidsel /\ t.enterq = s.enterq
  BY GoodRecord DEF Unmoved, SameViews, Fields, Reveal, f
<1> HIDE DEF t
<1>5. Tidy(Managed(s), s, t) /\ Calm(s, t)
  BY <1>1, <1>3, <1>4 DEF Tidy, Calm, AsBefore, Shown
<1>6. \A w \in Win : HIDDEN(t, w) <=> HIDDEN(s, w) /\ w \notin hid
  BY <1>1, <1>3, <1>4 DEF HIDDEN
<1> QED BY <1>2, <1>4, <1>5, <1>6 DEF Steps, t

\* showall leaves nothing hidden in view.
LEMMA ShowallAll ==
  ASSUME AllInv, showall
  PROVE  AllInv'
<1> DEFINE m   == st.selmon
           hid == {c \in VisibleOn(st, m) : HIDDEN(st, c)}
           v   == [st EXCEPT !.hidsel[m] = FALSE]
           u   == Reveal(v, hid)
           s   == [st EXCEPT !.hidsel[m] = FALSE,
                             !.mapped = @ \cup hid, !.strip = @ \cup hid,
                             !.wmstate = [w \in Win |->
                                IF w \in hid THEN "Normal" ELSE @[w]]]
           c   == FirstIn(s.clients[m], VisibleOn(s, m))
           f   == IF s.sel[m] = NULL /\ c # NULL THEN focus(s, c) ELSE s
           r   == restack(f, m)
<1>1. /\ Good(st) /\ m \in Mon /\ st.hidsel \in [Mon -> BOOLEAN]
      /\ Sel = Selected(st) /\ Sel \in Managed(st) \cup {NULL}
      /\ Selected(st) # NULL => Selected(st) \in Range(st.clients[m])
  BY SelManaged DEF AllInv, Inv, Good, Well, State, Sel, Selected, Consistent
<1>2. VisibleOn(st, m) \subseteq Managed(st) /\ Managed(st) \subseteq Win
  BY <1>1, ManagedLemma DEF VisibleOn, Managed
<1>3. Keeps(st, v)
  BY <1>1, HidselLemma
<1>4. Moves(st, v) /\ Good(v) /\ Managed(v) = Managed(st)
  BY <1>3, KeepsMoves DEF Moves
<1>5. /\ Unmoved(st, v) /\ v.focus = st.focus /\ v.mapped = st.mapped
      /\ v.wmstate = st.wmstate /\ v.strip = st.strip
      /\ v.mode = st.mode /\ v.hidsel = [st.hidsel EXCEPT ![m] = FALSE]
      /\ v.enterq = st.enterq
  BY <1>1, GoodRecord DEF Unmoved, SameViews, Fields
<1>6. s = u
  BY <1>1 DEF Reveal, Good, Well, State
<1>7. Handler(r)
  BY DEF showall
<1>8. hid \in SUBSET Managed(v) /\ \A e \in hid : HIDDEN(v, e)
  BY <1>2, <1>4, <1>5 DEF HIDDEN
<1> HIDE DEF v
<1>9. Works(st, v)
  BY <1>1, <1>4, <1>5, QuietWorks DEF Calm
<1>10. /\ Steps(v, u) /\ Unmoved(v, u) /\ u.focus = v.focus
       /\ u.mapped = v.mapped \cup hid
       /\ \A w \in Win : HIDDEN(u, w) <=> HIDDEN(v, w) /\ w \notin hid
  BY <1>4, <1>8, ShowSetSteps
<1> HIDE DEF u, s
<1>11. /\ Steps(st, s) /\ Unmoved(st, s) /\ s.focus = st.focus
       /\ s.mapped = st.mapped \cup hid
       /\ \A w \in VisibleOn(st, m) : ~HIDDEN(s, w)
  BY <1>2, <1>5, <1>6, <1>9, <1>10, StepsTrans DEF Works, Unmoved, SameViews, HIDDEN
<1>12. /\ s.selmon = m /\ Selected(s) = Selected(st) /\ s.sel[m] = Selected(st)
       /\ s.clients = st.clients /\ SameViews(st, s) /\ s.stack = st.stack
       /\ s.sel = st.sel /\ s.urgent = st.urgent
       /\ VisibleOn(s, m) = VisibleOn(st, m)
       /\ ISVISIBLE(s, Selected(st)) <=> ISVISIBLE(st, Selected(st))
  BY <1>11, SameViewsVisible DEF Unmoved, SameViews, Selected
<1>13. Good(s) /\ Managed(s) = Managed(st) /\ s.clients[m] \in Seq(Win)
  <2>1. Good(s) /\ Managed(s) = Managed(st)
    BY <1>11, StepsGood
  <2>2. s.clients \in [Mon -> Seq(Win)]
    BY <2>1 DEF Good, Well, State
  <2> HIDE DEF m
  <2> QED BY <1>1, <2>1, <2>2
<1> HIDE DEF s, hid
<1>14. c \in VisibleOn(s, m) \cup {NULL} /\ (c = NULL => VisibleOn(s, m) = {})
  <2>1. Len(s.clients[m]) \in Nat /\ DOMAIN s.clients[m] = 1 .. Len(s.clients[m])
    BY <1>13
  <2>2. c \in VisibleOn(s, m) \cup {NULL}
    BY <2>1, FirstFromLemma DEF FirstIn
  <2>3. c = NULL => VisibleOn(s, m) = {}
    BY <1>13, FirstInNull DEF VisibleOn
  <2> QED BY <2>2, <2>3
<1>15. c # NULL => c \in Managed(st) \cup {NULL} /\ ~HIDDEN(s, c)
  BY <1>2, <1>11, <1>12, <1>14
<1>16. CASE Selected(st) = NULL /\ c # NULL
  <2>1. f = focus(s, c)
    BY <1>12, <1>16
  <2> HIDE DEF c, m
  <2>2. Works(st, restack(focus(s, c), m))
    BY <1>11, <1>15, <1>16, StepsFocus
  <2> QED BY <1>7, <2>1, <2>2, WorksAll
<1>17. CASE ~(Selected(st) = NULL /\ c # NULL)
  <2>1. f = s
    BY <1>12, <1>17
  <2> HIDE DEF f
  <2>2. Works(s, r)
    BY <1>13, <2>1, RestackWorks
  <2>3. Steps(st, r)
    BY <1>11, <2>2, StepsTrans DEF Works
  <2>4. Picked(s) \/ Stays(st, s)
    <3>1. CASE Selected(st) = NULL
      BY <1>12, <1>14, <1>17, <3>1 DEF Picked, ShownOn
    <3>2. CASE Selected(st) # NULL
      BY <1>12, <3>2 DEF Stays
    <3> QED BY <3>1, <3>2
  <2>5. Plain(s)
    <3>1. Selected(st) # NULL => Selected(st) \in VisibleOn(st, m)
      BY <1>1 DEF AllInv, SelInv, Settled, VisibleOn
    <3> QED BY <1>11, <1>12, <3>1 DEF Plain
  <2>6. Plain(st) => SameFocus(st, s)
    <3>1. Selected(st) = NULL => hid = {}
      BY <1>12, <1>14, <1>17 DEF hid
    <3>2. Selected(st) \in hid => HIDDEN(st, Selected(st))
      BY DEF hid
    <3>3. Plain(st) /\ Selected(st) \in hid => Selected(st) \in st.mapped
      BY <3>1, <3>2 DEF Plain
    <3> QED BY <1>11, <1>12, <3>3 DEF SameFocus
  <2>7. PlainInputs => Plain(st)
    BY DEF AllInv, SelInv, Followed
  <2>8. r = s \/ r = [s EXCEPT !.enterq = NULL]
    BY <2>1 DEF restack
  <2>9. /\ Unmoved(s, r) /\ r.focus = s.focus /\ r.mapped = s.mapped
        /\ r.wmstate = s.wmstate
    BY <1>13, <2>8, GoodRecord DEF Unmoved, SameViews, Fields
  <2> HIDE DEF r
  <2>10. SameChoice(s, r)
    BY <2>9 DEF SameChoice
  <2>11. /\ Selected(r) = Selected(s) /\ r.selmon = s.selmon
         /\ r.stack = s.stack /\ r.urgent = s.urgent /\ r.sel = s.sel
         /\ SameViews(s, r)
    BY <2>9 DEF Unmoved, Selected
  <2>12. /\ ISVISIBLE(r, Selected(s)) <=> ISVISIBLE(s, Selected(s))
         /\ VisibleOn(r, r.selmon) = VisibleOn(s, s.selmon)
    BY <2>11, SameViewsVisible
  <2>13. Picked(s) => Picked(r)
    BY <2>9, <2>11, <2>12 DEF Picked, ShownOn, HIDDEN
  <2>14. Stays(st, s) => Stays(st, r)
    BY <2>9, <2>11 DEF Stays, SameViews, Selected
  <2>15. Plain(r)
    BY <2>5, <2>10, SameChoiceLemma
  <2>16. SameFocus(st, s) => SameFocus(st, r)
    BY <2>9, <2>11 DEF SameFocus
  <2> QED BY <1>7, <2>3, <2>4, <2>6, <2>7, <2>13, <2>14, <2>15, <2>16, HandlerAll
          DEF Steps
<1> QED BY <1>16, <1>17

LEMMA KeysAll ==
  ASSUME AllInv, Keys
  PROVE  AllInv'
<1>1. Good(st)
  BY DEF AllInv, Inv
<1>2. ASSUME NEW forward \in BOOLEAN, focusstackvis(forward)
      PROVE  AllInv'
  BY <1>2, FocusStackAll DEF focusstackvis
<1>3. ASSUME NEW forward \in BOOLEAN, focusstackhid(forward)
      PROVE  AllInv'
  BY <1>3, FocusStackAll DEF focusstackhid
<1>4. ASSUME NEW mask \in Masks, tag(mask) \/ toggletag(mask)
      PROVE  AllInv'
  BY <1>1, <1>4, TaggedWorks, WorksAll DEF tag, toggletag
<1>5. ASSUME NEW mask \in Masks, view(mask) \/ toggleview(mask)
      PROVE  AllInv'
  BY <1>1, <1>5, ViewedWorks, WorksAll DEF view, toggleview
<1>6. ASSUME zoom
      PROVE  AllInv'
  BY <1>1, <1>6, ZoomedWorks, WorksAll DEF zoom
<1>7. ASSUME NEW tiling \in Layouts, setlayout(tiling)
      PROVE  AllInv'
  BY <1>7, SetlayoutAll
<1> QED BY <1>2, <1>3, <1>4, <1>5, <1>6, <1>7, FocusmonAll, TagmonAll,
           TogglefloatingAll, ShowAll, ShowallAll DEF Keys

-----------------------------------------------------------------------------
(* Buttons.                                                                *)

\* A button handler runs in the state that ClickMon leaves.
LEMMA ClickMonAll ==
  ASSUME AllInv, NEW m \in Mon, NEW s, Handler(s),
         Good(ClickMon(m)) => Works(ClickMon(m), s)
  PROVE  AllInv'
<1>1. Works(st, ClickMon(m))
  BY ClickMonWorks DEF AllInv, Inv
<1>2. Works(st, s)
  BY <1>1, WorksGood, WorksTrans
<1> QED BY <1>2, WorksAll

LEMMA ClickTagAll ==
  ASSUME AllInv, NEW m \in Mon, NEW mask \in Masks, ClickTag(m, mask)
  PROVE  AllInv'
<1> DEFINE s == ClickMon(m)
<1>1. \/ Handler(Viewed(s, mask)) \/ Handler(ViewToggled(s, mask))
      \/ Handler(Tagged(s, mask)) \/ Handler(TagToggled(s, mask))
  BY DEF ClickTag
<1>2. mask \in SUBSET Tag
  OBVIOUS
<1> HIDE DEF s
<1>3. Good(s) => /\ Works(s, Viewed(s, mask)) /\ Works(s, ViewToggled(s, mask))
                 /\ Works(s, Tagged(s, mask)) /\ Works(s, TagToggled(s, mask))
  BY <1>2, ViewedWorks, TaggedWorks
<1> QED BY <1>1, <1>3, ClickMonAll DEF s

LEMMA ClickTabAll ==
  ASSUME AllInv, NEW m \in Mon, ClickTab(m)
  PROVE  AllInv'
<1> DEFINE s == ClickMon(m)
<1>1. PICK c \in Tabs(s, m) : Handler(Toggled(s, c))
  BY DEF ClickTab
<1> HIDE DEF s
<1>2. Good(s) => c \in Managed(s)
  BY <1>1, TabsManaged
<1>3. Good(s) => Works(s, Toggled(s, c))
  BY <1>2, ToggledWorks
<1> QED BY <1>1, <1>3, ClickMonAll DEF s

LEMMA DropOnMonAll ==
  ASSUME AllInv, NEW m \in Mon, DropOnMon(m)
  PROVE  AllInv'
<1> DEFINE r == restack(st, st.selmon)
           d == sendmon(r, Sel, m)
           v == [d EXCEPT !.selmon = m]
<1>1. Good(st) /\ Sel \in Managed(st)
  <2>1. Good(st) /\ st.selmon \in Mon /\ Sel # NULL
    BY DEF AllInv, Inv, Good, Well, State, DropOnMon
  <2> QED BY <2>1, SelManaged DEF Sel
<1>2. Handler(focus(v, NULL))
  BY DEF DropOnMon
<1>3. Works(st, r)
  BY <1>1, RestackWorks
<1>4. Good(r) /\ Sel \in Managed(r)
  BY <1>1, <1>3, WorksGood
<1> HIDE DEF r
<1>5. Works(r, d) /\ Good(d)
  BY <1>4, SendmonWorks, WorksGood
<1> HIDE DEF d
<1>6. Steps(d, v)
  BY <1>5, SelmonSteps
<1>7. Steps(st, v)
  BY <1>3, <1>5, <1>6, StepsTrans DEF Works
<1> HIDE DEF v
<1>8. Works(st, focus(v, NULL))
  BY <1>7, StepsFocus
<1> QED BY <1>2, <1>8, WorksAll

\* A press on a client that is hidden, but mapped all the same, finds it
\* mapped still when the monitor has been switched, if nothing is only revealed.
LEMMA ClickClientAll ==
  ASSUME AllInv, NEW c \in Win, ClickClient(c)
  PROVE  AllInv'
<1> DEFINE m == st.mon[c]
           s == ClickMon(m)
           f == focus(s, c)
           r == restack(f, f.selmon)
<1>1. m \in Mon /\ c \in Managed(st) /\ Good(st) /\ c \in st.mapped /\ c # NULL
  BY ManagedLemma DEF ClickClient, AllInv, Inv
<1>2. Handler(r)
  BY DEF ClickClient
<1>3. PlainInputs => c \in s.mapped
  <2> SUFFICES ASSUME PlainInputs, m # st.selmon
               PROVE  c \in SwitchMon(st, m).mapped
    BY <1>1 DEF ClickMon
  <2> DEFINE u == unfocus(st, st.sel[st.selmon], TRUE)
             v == [u EXCEPT !.selmon = m]
  <2>1. Aside(st, u)
    BY <1>1, GoodRecord, AsideLemma
  <2> HIDE DEF u
  <2>2. Aside(u, v) /\ v.selmon = m
    BY <2>1 DEF Aside, Fields
  <2> HIDE DEF v
  <2>3. ~v.hidsel[v.selmon] /\ DOMAIN v = Fields /\ v.mapped = st.mapped
    BY <1>1, <2>1, <2>2 DEF Aside, AllInv, SelInv, Followed
  <2>4. Aside(v, focus(v, NULL))
    BY <2>3, FocusAside
  <2> QED BY <1>1, <2>3, <2>4 DEF SwitchMon, u, v, Aside
<1> HIDE DEF m
<1>4. Works(st, s)
  BY <1>1, ClickMonWorks
<1>5. Steps(st, s) /\ c \in Managed(st) \cup {NULL}
  BY <1>1, <1>4 DEF Works
<1> HIDE DEF s
<1>6. /\ Steps(st, r) /\ Picked(r) /\ Focused(r)
      /\ (HIDDEN(s, c) => c \in s.mapped) => Plain(r)
  BY <1>5, FocusSteps
<1> HIDE DEF r
<1> QED BY <1>2, <1>3, <1>6, HandlerAll DEF Steps

\* A titlebar that is mapped belongs to a client that is shown, unless
\* fullscreen windows bring theirs back.
LEMMA ClickStripAll ==
  ASSUME AllInv, NEW c \in Win, ClickStrip(c)
  PROVE  AllInv'
<1> DEFINE f == focus(st, c)
           r == restack(f, f.selmon)
<1>1. c \in Managed(st) /\ Good(st) /\ c \in st.strip /\ c \in Managed(st) \cup {NULL}
  BY DEF ClickStrip, AllInv, Inv
<1>2. Handler(r)
  BY DEF ClickStrip
<1>3. PlainInputs => ~HIDDEN(st, c)
  BY <1>1 DEF PlainInputs, AllInv, WinInv, Bare
<1>4. Steps(st, st)
  BY <1>1, StepsSelf
<1>5. Steps(st, r) /\ Picked(r) /\ Focused(r) /\ (~HIDDEN(st, c) => Plain(r))
  BY <1>1, <1>4, FocusSteps
<1> HIDE DEF r
<1> QED BY <1>2, <1>3, <1>5, HandlerAll DEF Steps

LEMMA MinimizeclientAll ==
  ASSUME AllInv, NEW c \in Win, minimizeclient(c)
  PROVE  AllInv'
<1> DEFINE h == hidewin(st, c)
           s == showwin(st, c)
           f == focus(s, c)
<1>1. Good(st) /\ c \in Managed(st) \cup {NULL} /\ c # NULL
  BY DEF minimizeclient, AllInv, Inv
<1>2. Handler(restack(f, f.mon[c])) \/ Handler(arrange(focus(h, NULL), st.mon[c]))
  BY DEF minimizeclient
<1>3. Steps(st, h) /\ Steps(st, s) /\ ~HIDDEN(s, c)
  BY <1>1, HidewinSteps, ShowwinSteps
<1> HIDE DEF h, s
<1>4. \A m : Works(st, restack(f, m)) /\ Works(st, arrange(focus(h, NULL), m))
  BY <1>1, <1>3, StepsFocus
<1> QED BY <1>2, <1>4, WorksAll

LEMMA TogglemaximizeAll ==
  ASSUME AllInv, NEW c \in Win, togglemaximize(c)
  PROVE  AllInv'
<1> DEFINE d == st.mode[c]
           x == IF d.max THEN [d EXCEPT !.max = FALSE, !.float = d.smf]
                ELSE [d EXCEPT !.max = TRUE, !.float = TRUE, !.smf = d.float]
<1>1. d \in Modes
  BY DEF AllInv, Inv, Good, Well, State
<1>2. x \in Modes /\ x.full = d.full
  BY <1>1 DEF Modes
<1>3. Handler(arrange([st EXCEPT !.mode[c] = x], st.mon[c]))
  BY DEF togglemaximize
<1> HIDE DEF x
<1> QED BY <1>2, <1>3, ModeAll

LEMMA ButtonsAll ==
  ASSUME AllInv, Buttons
  PROVE  AllInv'
<1>1. ASSUME NEW m \in Mon, ClickBar(m)
      PROVE  AllInv'
  BY <1>1, ClickMonWorks, WorksAll DEF ClickBar, AllInv, Inv
<1>2. ASSUME NEW m \in Mon, ClickTabZoom(m)
      PROVE  AllInv'
  BY <1>2, ZoomedWorks, ClickMonAll DEF ClickTabZoom
<1> QED BY <1>1, <1>2, ClickTagAll, ClickTabAll, DropOnMonAll, ClickClientAll,
           ClickStripAll, MinimizeclientAll, TogglemaximizeAll DEF Buttons

-----------------------------------------------------------------------------
(* X events.                                                               *)

LEMMA ManageChanged ==
  ASSUME NEW s, Good(s), NEW w \in s.alive \ Managed(s)
  PROVE  LET t == manage(s, w)
         IN  /\ Changed(s, t)
             /\ \A v \in Win \ Managed(t) : AsBefore(s, t, v)
             /\ Calm(s, t) /\ Picked(t) /\ Focused(t) /\ Plain(t)
<1> DEFINE t == manage(s, w)
<1>1. Managed(t) = Managed(s) \cup {w}
  BY ManageLemma
<1>2. /\ \A v \in Win \ {w} :
           /\ AsBefore(s, t, v) \/ (v \in Managed(s) /\ (Away(t, v) \/ Shown(t, v)))
           /\ t.mode[v].full = s.mode[v].full
      /\ (HIDDEN(s, w) /\ AsBefore(s, t, w)) \/ Away(t, w) \/ Shown(t, w)
      /\ Calm(s, t) /\ Picked(t) /\ Focused(t) /\ Plain(t)
  BY ManageWindows, ChosenPicked
<1> HIDE DEF t
<1>3. Changed(s, t)
  BY <1>1, <1>2 DEF Changed
<1> QED BY <1>1, <1>2, <1>3 DEF t

LEMMA UnmanageChanged ==
  ASSUME NEW s, Good(s), NEW c \in Managed(s), NEW destroyed
  PROVE  LET t == unmanage(s, c, destroyed)
         IN  /\ Changed(s, t)
             /\ \A v \in Win \ Managed(s) : AsBefore(s, t, v)
             /\ Calm(s, t) /\ Picked(t) /\ Focused(t) /\ Plain(t)
<1> DEFINE t == unmanage(s, c, destroyed)
<1>1. Managed(t) = Managed(s) \ {c}
  BY UnmanageLemma
<1>2. /\ \A v \in Win \ {c} :
           /\ AsBefore(s, t, v) \/ (v \in Managed(s) /\ (Away(t, v) \/ Shown(t, v)))
           /\ t.mode[v].full = s.mode[v].full
      /\ c \in t.mapped <=> c \in s.mapped
      /\ t.wmstate[c] \in {s.wmstate[c], "Withdrawn"}
      /\ c \notin t.strip
      /\ Calm(s, t) /\ Picked(t) /\ Focused(t) /\ Plain(t)
  BY UnmanageWindows, ChosenPicked
<1> HIDE DEF t
<1>3. Changed(s, t)
  BY <1>1, <1>2 DEF Changed
<1> QED BY <1>1, <1>2, <1>3 DEF t

LEMMA MaprequestAll ==
  ASSUME AllInv, NEW w \in Win, maprequest(w)
  PROVE  AllInv'
<1>1. PICK p \in SUBSET Win : Handler(manage(Created(st, w, p), w))
  BY MaprequestManages DEF AllInv
<1> DEFINE s == Created(st, w, p)
           t == manage(s, w)
<1>2. st' = t /\ phase = "run" /\ UNCHANGED <<phase, toscan, unmapq, destroyq, finq>>
  BY <1>1 DEF Handler, queues
<1>3. Inv' /\ Good(st)
  BY MaprequestInv DEF AllInv, Inv
<1>4. Good(s) /\ Managed(s) = Managed(st) /\ w \in s.alive \ Managed(s)
  BY <1>3, MaprequestManages, CreatedLemma DEF AllInv
<1>5. /\ s.mapped = st.mapped /\ s.strip = st.strip /\ s.wmstate = st.wmstate
      /\ s.mode = st.mode /\ s.hidsel = st.hidsel /\ s.enterq = st.enterq
      /\ s.alive = st.alive \cup {w}
  BY <1>3, GoodRecord DEF Created, Fields
<1> HIDE DEF s
<1>6. /\ Changed(s, t) /\ \A v \in Win \ Managed(t) : AsBefore(s, t, v)
      /\ Calm(s, t) /\ Picked(t) /\ Focused(t) /\ Plain(t)
      /\ Good(t) /\ Managed(t) = Managed(s) \cup {w} /\ t.alive = s.alive
  BY <1>4, ManageChanged, ManageLemma
<1> HIDE DEF t
<1>7. Changed(st, t) /\ Calm(st, t)
  BY <1>4, <1>5, <1>6 DEF Changed, Calm, AsBefore, HIDDEN
<1>8. Adopted'
  <2>1. \A v \in t.alive : v \notin Managed(t) => v \in st.alive /\ AsBefore(st, t, v)
    <3>1. t.alive \subseteq Win
      BY <1>6 DEF Good, Well, State
    <3> QED BY <1>5, <1>6, <3>1 DEF AsBefore
  <2>2. w \notin unmapq \cup destroyq
    BY DEF maprequest
  <2>3. \A v \in t.alive : v \notin Managed(t) /\ (v \in t.mapped \/ HIDDEN(t, v)) =>
          v \in st.alive /\ v \notin Managed(st) /\ (v \in st.mapped \/ HIDDEN(st, v))
    BY <1>4, <1>6, <2>1 DEF AsBefore, HIDDEN
  <2> QED BY <1>2, <1>4, <1>5, <1>6, <2>2, <2>3 DEF AllInv, WinInv, Adopted
<1>9. WinInv'
  BY <1>2, <1>6, <1>7, <1>8, ChangedWindows DEF AllInv
<1>10. SelInv'
  BY <1>2, <1>6, <1>7, <1>9, ChangedSelection DEF AllInv, WinInv
<1> QED BY <1>3, <1>9, <1>10 DEF AllInv

\* The window that unmapnotify or destroynotify is about does not exist, if
\* no client unmaps a window of its own.
LEMMA UnmapAll ==
  ASSUME AllInv, NEW w \in Win, unmapnotify(w) \/ destroynotify(w)
  PROVE  AllInv'
<1> DEFINE M == Managed(st)
<1>1. PICK b \in BOOLEAN : st' = IF w \in M THEN unmanage(st, w, b) ELSE st
  BY DEF unmapnotify, destroynotify
<1>2. /\ phase = "run" /\ UNCHANGED <<phase, toscan, finq>>
      /\ unmapq' \subseteq unmapq /\ destroyq' \subseteq destroyq
      /\ unmapq \subseteq unmapq' \cup {w}
      /\ w \in unmapq \cup destroyq
  BY DEF unmapnotify, destroynotify
<1>3. Good(st) /\ Inv'
  BY UnmapInv DEF AllInv, Inv
<1>4. CASE w \in M
  <2> DEFINE t == unmanage(st, w, b)
  <2>1. /\ Changed(st, t) /\ \A v \in Win \ M : AsBefore(st, t, v)
        /\ Calm(st, t) /\ Picked(t) /\ Focused(t) /\ Plain(t)
        /\ Good(t) /\ Managed(t) = M \ {w} /\ t.alive = st.alive
    BY <1>3, <1>4, UnmanageChanged, UnmanageLemma
  <2>2. st' = t
    BY <1>1, <1>4
  <2> HIDE DEF t
  <2>3. Adopted'
    <3>1. st.alive \subseteq Win
      BY <1>3 DEF Good, Well, State
    <3>2. \A v \in st.alive \ M : v \in t.mapped \/ HIDDEN(t, v) =>
             v \in st.mapped \/ HIDDEN(st, v)
      BY <2>1, <3>1 DEF AsBefore, HIDDEN
    <3> QED BY <1>2, <2>1, <2>2, <3>2 DEF AllInv, WinInv, Adopted
  <2>4. unmapq \cap Managed(t) \subseteq unmapq'
    BY <1>2, <2>1
  <2>5. WinInv'
    BY <1>2, <2>1, <2>2, <2>3, <2>4, ChangedWindows DEF AllInv
  <2>6. SelInv'
    BY <1>2, <2>1, <2>2, <2>5, ChangedSelection DEF AllInv, WinInv
  <2> QED BY <1>3, <2>5, <2>6 DEF AllInv
<1>5. CASE w \notin M
  <2>1. st' = st /\ \A c \in M : c \in unmapq => c \in unmapq'
    BY <1>1, <1>2, <1>5
  <2>2. WinInv'
    BY <1>2, <2>1 DEF AllInv, WinInv, Titled, Drawn, Fresh, Adopted, Bare
  <2>3. SelInv'
    BY <1>2, <2>1 DEF AllInv, SelInv, Settled, NotLost, Followed, Sel
  <2> QED BY <1>3, <2>2, <2>3 DEF AllInv
<1> QED BY <1>4, <1>5

\* A step that leaves alone where the process is and what is queued.
LEMMA StepAll ==
  ASSUME AllInv, Inv', NEW t, st' = t, phase # "down",
         phase' = phase, toscan' = toscan, unmapq' = unmapq, destroyq' = destroyq,
         t.alive = st.alive, Managed(t) = Managed(st), Changed(st, t),
         \A w \in Win \ Managed(t) : AsBefore(st, t, w),
         Picked(t) \/ Stays(st, t),
         PlainInputs => /\ Calm(st, t) /\ Plain(t)
                        /\ Focused(t) \/ (SameFocus(st, t) /\ finq' = finq)
  PROVE  AllInv'
<1>1. Good(t)
  BY DEF Inv
<1>2. Adopted'
  <2>1. st.alive \subseteq Win
    BY <1>1 DEF Good, Well, State
  <2>2. \A w \in st.alive \ Managed(t) :
           w \in t.mapped \/ HIDDEN(t, w) => w \in st.mapped \/ HIDDEN(st, w)
    BY <2>1 DEF AsBefore, HIDDEN
  <2> QED BY <2>2 DEF AllInv, WinInv, Adopted
<1>3. phase \in {"scan", "run"} \/ Restarts
  BY DEF AllInv, WinInv, Fresh
<1>4. phase \in {"down", "scan", "run", "quit", "cleanup"}
  BY DEF AllInv, Inv, TypeOK
<1>5. WinInv'
  BY <1>1, <1>2, <1>3, <1>4, ChangedWindows DEF AllInv
<1>6. SelInv'
  BY <1>1, <1>5, ChangedSelection DEF AllInv, WinInv
<1> QED BY <1>5, <1>6 DEF AllInv

LEMMA UnmapnotifySentAll ==
  ASSUME AllInv, NEW w \in Win, unmapnotifySent(w)
  PROVE  AllInv'
<1> DEFINE t == setclientstate(st, w, "Withdrawn")
<1>1. Good(st) /\ HIDDEN(st, w) /\ w \in Managed(st) /\ Inv'
  BY EventsInv DEF AllInv, Inv, unmapnotifySent, Events
<1>2. /\ st' = t /\ phase = "run" /\ phase' = phase /\ toscan' = toscan
      /\ unmapq' = unmapq /\ destroyq' = destroyq /\ finq' = finq
  BY DEF unmapnotifySent, Handler, queues
<1>3. Moves(st, t)
  BY <1>1, SetclientstateLemma, KeepsMoves
<1>4. w \in st.alive /\ st.wmstate \in [Win -> {"Withdrawn", "Normal", "Iconic"}]
  BY <1>1 DEF HIDDEN, Good, Well, State
<1>5. /\ t.mapped = st.mapped /\ t.strip = st.strip /\ t.mode = st.mode
      /\ t.hidsel = st.hidsel /\ t.enterq = st.enterq /\ t.focus = st.focus
      /\ Unmoved(st, t)
      /\ t.wmstate = [st.wmstate EXCEPT ![w] = "Withdrawn"]
  BY <1>1, <1>4, GoodRecord DEF setclientstate, Unmoved, SameViews, Fields
<1> HIDE DEF t
<1>6. Changed(st, t)
  BY <1>3, <1>4, <1>5 DEF Changed, AsBefore, Moves
<1>7. \A v \in Win \ Managed(t) : AsBefore(st, t, v)
  BY <1>1, <1>3, <1>4, <1>5 DEF AsBefore, Moves
<1>8. Stays(st, t) /\ SameFocus(st, t) /\ Calm(st, t)
  BY <1>5 DEF Stays, SameFocus, Calm, Unmoved, Selected
<1>9. \A v : HIDDEN(t, v) /\ v \in Win => HIDDEN(st, v)
  BY <1>4, <1>5 DEF HIDDEN
<1>10. Selected(t) = Selected(st) /\ Selected(st) \in WinOrNull
  BY <1>1, <1>5 DEF Unmoved, Selected, Good, Well, State
<1>11. PlainInputs => Plain(t)
  BY <1>5, <1>9, <1>10 DEF AllInv, SelInv, Followed, Plain, WinOrNull
<1> QED BY <1>1, <1>2, <1>3, <1>6, <1>7, <1>8, <1>11, StepAll DEF Moves

\* No EnterNotify is queued with plain inputs.
LEMMA EnternotifyAll ==
  ASSUME AllInv, enternotify
  PROVE  AllInv'
<1> DEFINE w == st.enterq
           s == [st EXCEPT !.enterq = NULL]
           u == unfocus(s, Sel, TRUE)
           v == [u EXCEPT !.selmon = s.mon[w]]
<1>1. Good(st) /\ ~PlainInputs
  BY DEF AllInv, Inv, SelInv, Followed, enternotify
<1>2. Well(s) /\ SameLists(st, s)
  BY <1>1 DEF Good, Well, State, SameLists, WinOrNull
<1>3. Moves(st, s) /\ Good(s)
  BY <1>1, <1>2, SameListsKeep, KeepsMoves DEF Keeps
<1>4. \/ Handler(s)
      \/ w \in Managed(s) /\ Handler(focus(s, w))
      \/ w \in Managed(s) /\ Handler(focus(v, w))
  <2>1. Handler(IF w \notin Managed(s) \/ w = Sel THEN s
                ELSE IF s.mon[w] = s.selmon THEN focus(s, w) ELSE focus(v, w))
    BY DEF enternotify
  <2> HIDE DEF s, v, w
  <2> QED BY <2>1
<1>5. Works(st, s)
  <2>1. /\ Unmoved(st, s) /\ s.focus = st.focus /\ s.mapped = st.mapped
        /\ s.wmstate = st.wmstate /\ s.strip = st.strip
        /\ s.mode = st.mode /\ s.hidsel = st.hidsel /\ s.enterq = NULL
    BY <1>1, GoodRecord DEF Unmoved, SameViews, Fields
  <2> HIDE DEF s
  <2> QED BY <1>1, <1>3, <2>1, QuietWorks DEF Calm
<1> HIDE DEF s, w
<1>6. CASE Handler(s)
  BY <1>5, <1>6, WorksAll
<1>7. ASSUME w \in Managed(s)
      PROVE  /\ Steps(st, focus(s, w)) /\ Picked(focus(s, w))
             /\ Steps(st, focus(v, w)) /\ Picked(focus(v, w))
  <2>1. w \in Managed(st) \cup {NULL} /\ s.mon[w] \in Mon /\ Steps(st, s)
    BY <1>3, <1>5, <1>7, StepsGood, ManagedLemma DEF Works
  <2>2. Steps(s, u) /\ Good(u)
    BY <1>3, UnfocusSteps, StepsGood
  <2> HIDE DEF u
  <2>3. Steps(u, v)
    BY <2>1, <2>2, SelmonSteps
  <2> HIDE DEF v
  <2>4. Steps(st, v)
    BY <2>1, <2>2, <2>3, StepsTrans
  <2> QED BY <2>1, <2>4, FocusSteps
<1> QED BY <1>1, <1>4, <1>6, <1>7, HandlerAll DEF Steps

LEMMA FocusinAll ==
  ASSUME AllInv, NEW w \in Win, focusin(w)
  PROVE  AllInv'
<1>1. /\ phase = "run" /\ UNCHANGED <<phase, toscan, unmapq, destroyq>>
      /\ w \in finq /\ finq' = finq \ {w}
  BY DEF focusin
<1>2. Good(st) /\ Sel = Selected(st) /\ Inv' /\ Sel \in WinOrNull
  BY FocusinInv DEF AllInv, Inv, Good, Well, State, Sel, Selected
<1>3. CASE Sel # NULL /\ w # Sel
  <2> DEFINE t == setfocus(st, Sel)
  <2>1. st' = t
    BY <1>3 DEF focusin
  <2>2. Moves(st, t)
    BY <1>2, <1>3, SetfocusLemma, KeepsMoves DEF WinOrNull
  <2>3. /\ Unmoved(st, t) /\ t.mapped = st.mapped
        /\ t.wmstate = st.wmstate /\ t.strip = st.strip
        /\ t.mode = st.mode /\ t.hidsel = st.hidsel /\ t.enterq = st.enterq
        /\ Sel \in st.mapped \ NeverFocus => t.focus = Sel
    BY <1>2, GoodRecord DEF setfocus, XSetInputFocus, Unmoved, SameViews, Fields
  <2> HIDE DEF t
  <2>4. Selected(t) = Sel
    BY <1>2, <2>3 DEF Unmoved, Selected
  <2>5. Stays(st, t) /\ Calm(st, t) /\ Focused(t)
    BY <1>2, <2>3, <2>4 DEF Stays, Calm, Focused, Unmoved
  <2>6. Plain(st) => Plain(t)
    BY <1>2, <2>3, <2>4 DEF Plain, HIDDEN
  <2>7. Changed(st, t) /\ \A v \in Win : AsBefore(st, t, v)
    BY <2>2, <2>3 DEF Changed, AsBefore, Moves
  <2>8. PlainInputs => Plain(st)
    BY DEF AllInv, SelInv, Followed
  <2> QED BY <1>1, <1>2, <2>1, <2>2, <2>5, <2>6, <2>7, <2>8, StepAll DEF Moves
<1>4. CASE ~(Sel # NULL /\ w # Sel)
  <2>1. st' = st
    BY <1>4 DEF focusin
  <2>2. WinInv' /\ Settled' /\ NotLost'
    BY <1>1, <2>1 DEF AllInv, WinInv, Titled, Drawn, Fresh, Adopted, Bare,
                      SelInv, Settled, NotLost, Sel
  <2>3. Sel \in st.mapped => Sel = w
    BY <1>2, <1>4 DEF Good, Well, State
  <2>4. Followed'
    BY <1>1, <2>1, <2>3 DEF AllInv, SelInv, Followed, Sel
  <2> QED BY <1>2, <2>2, <2>4 DEF AllInv, SelInv
<1> QED BY <1>3, <1>4

\* Steps that change urgency only, and not that of the selected client.
LEMMA UrgentAll ==
  ASSUME AllInv, NEW t, Handler(t), Moves(st, t), SameViews(st, t),
         t.stack = st.stack, t.sel = st.sel, t.selmon = st.selmon,
         Sel \notin st.urgent => Sel \notin t.urgent,
         t.mapped = st.mapped, t.wmstate = st.wmstate, t.strip = st.strip,
         t.mode = st.mode, t.hidsel = st.hidsel, t.enterq = st.enterq,
         t.focus = st.focus
  PROVE  AllInv'
<1>1. Selected(t) = Sel /\ Selected(st) = Sel
  BY DEF Selected, Sel
<1>2. Stays(st, t) /\ SameFocus(st, t) /\ Calm(st, t) /\ Tidy(Managed(st), st, t)
  BY <1>1 DEF Stays, SameFocus, Calm, Tidy, AsBefore
<1>3. Plain(st) => Plain(t)
  BY <1>1 DEF Plain, HIDDEN
<1>4. PlainInputs => Plain(st)
  BY DEF AllInv, SelInv, Followed
<1> QED BY <1>2, <1>3, <1>4, HandlerAll

LEMMA ActivateMessageAll ==
  ASSUME AllInv, NEW c \in Win, ActivateMessage(c)
  PROVE  AllInv'
<1> DEFINE t == seturgent(st, c, TRUE)
<1>1. Good(st) /\ c # Sel /\ Handler(t)
  BY DEF AllInv, Inv, ActivateMessage
<1>2. Moves(st, t)
  BY <1>1, SeturgentLemma, KeepsMoves
<1>3. /\ SameViews(st, t) /\ t.stack = st.stack /\ t.sel = st.sel
      /\ t.selmon = st.selmon /\ t.urgent = st.urgent \cup {c}
      /\ t.mapped = st.mapped /\ t.wmstate = st.wmstate /\ t.strip = st.strip
      /\ t.mode = st.mode /\ t.hidsel = st.hidsel /\ t.enterq = st.enterq
      /\ t.focus = st.focus
  BY <1>1, GoodRecord DEF seturgent, SameViews, Fields
<1> HIDE DEF t
<1> QED BY <1>1, <1>2, <1>3, UrgentAll

LEMMA UpdatewmhintsAll ==
  ASSUME AllInv, NEW c \in Win, updatewmhints(c)
  PROVE  AllInv'
<1>1. Good(st)
  BY DEF AllInv, Inv
<1>2. PICK h \in SUBSET Win, g \in SUBSET Win :
        /\ Handler([st EXCEPT !.hint = h, !.urgent = g])
        /\ Sel \notin st.urgent => Sel \notin g
  <2>1. /\ st.hint \in SUBSET Win /\ st.urgent \in SUBSET Win
        /\ DOMAIN st = Fields
    BY <1>1, GoodRecord DEF Good, Well, State
  <2>2. /\ [st EXCEPT !.hint = @ \ {c}]
             = [st EXCEPT !.hint = st.hint \ {c}, !.urgent = st.urgent]
        /\ [st EXCEPT !.urgent = @ \cup {c}]
             = [st EXCEPT !.hint = st.hint, !.urgent = st.urgent \cup {c}]
        /\ [st EXCEPT !.urgent = @ \ {c}]
             = [st EXCEPT !.hint = st.hint, !.urgent = st.urgent \ {c}]
    BY <1>1 DEF Good, Well, State
  <2>3. \/ Handler([st EXCEPT !.hint = @ \ {c}])
        \/ Handler([st EXCEPT !.urgent = @ \cup {c}]) /\ c # Sel
        \/ Handler([st EXCEPT !.urgent = @ \ {c}])
    BY DEF updatewmhints
  <2>4. \/ Handler([st EXCEPT !.hint = st.hint \ {c}, !.urgent = st.urgent])
        \/ Handler([st EXCEPT !.hint = st.hint, !.urgent = st.urgent \cup {c}]) /\ c # Sel
        \/ Handler([st EXCEPT !.hint = st.hint, !.urgent = st.urgent \ {c}])
    BY <2>2, <2>3
  <2>5. /\ st.hint \ {c} \in SUBSET Win /\ st.urgent \cup {c} \in SUBSET Win
        /\ st.urgent \ {c} \in SUBSET Win
        /\ c # Sel /\ Sel \notin st.urgent => Sel \notin st.urgent \cup {c}
        /\ Sel \notin st.urgent => Sel \notin st.urgent \ {c}
    BY <2>1
  <2> QED BY <2>1, <2>4, <2>5
<1> DEFINE t == [st EXCEPT !.hint = h, !.urgent = g]
<1>3. Well(t) /\ SameLists(st, t)
  BY <1>1 DEF Good, Well, State, SameLists
<1>4. Moves(st, t)
  BY <1>1, <1>3, SameListsKeep, KeepsMoves
<1>5. /\ SameViews(st, t) /\ t.stack = st.stack /\ t.sel = st.sel
      /\ t.selmon = st.selmon /\ t.urgent = g
      /\ t.mapped = st.mapped /\ t.wmstate = st.wmstate /\ t.strip = st.strip
      /\ t.mode = st.mode /\ t.hidsel = st.hidsel /\ t.enterq = st.enterq
      /\ t.focus = st.focus
  BY <1>1, GoodRecord DEF SameViews, Fields
<1> HIDE DEF t
<1> QED BY <1>2, <1>4, <1>5, UrgentAll DEF t

LEMMA FullscreenMessageAll ==
  ASSUME AllInv, NEW c \in Win, NEW on \in BOOLEAN, FullscreenMessage(c, on)
  PROVE  AllInv'
<1> DEFINE t == setfullscreen(st, c, on)
<1>1. Good(st) /\ Handler(t) /\ ~PlainInputs /\ Fullers # {}
  BY DEF AllInv, Inv, FullscreenMessage, PlainInputs
<1>2. /\ st' = t /\ phase = "run" /\ phase' = phase /\ toscan' = toscan
      /\ unmapq' = unmapq /\ destroyq' = destroyq /\ finq' = finq
  BY <1>1 DEF Handler, queues
<1>3. Moves(st, t)
  BY <1>1, SetfullscreenLemma, KeepsMoves
<1>4. /\ SameViews(st, t) /\ t.stack = st.stack /\ t.sel = st.sel
      /\ t.selmon = st.selmon /\ t.urgent = st.urgent
      /\ t.mapped = st.mapped /\ t.wmstate = st.wmstate
  BY <1>1, GoodRecord DEF setfullscreen, arrange, restack, SameViews, Fields
<1>5. /\ t.mode[c].full \/ t = st \/ c \in t.strip
      /\ \A w \in Win \ {c} : /\ t.mode[w].full = st.mode[w].full
                              /\ w \in t.strip <=> w \in st.strip
  <2>1. st.mode \in [Win -> Modes] /\ st.mode[c] \in Modes /\ DOMAIN st = Fields
    BY <1>1, GoodRecord DEF Good, Well, State
  <2>2. CASE on /\ ~st.mode[c].full
    <3> DEFINE x == [st.mode[c] EXCEPT !.full = TRUE, !.float = TRUE,
                                       !.old = st.mode[c].float]
    <3>1. t.strip = st.strip \ {c} /\ t.mode = [st.mode EXCEPT ![c] = x]
      BY <2>1, <2>2 DEF setfullscreen, Fields
    <3>2. x.full
      BY <2>1 DEF Modes
    <3> HIDE DEF x, t
    <3> QED BY <2>1, <3>1, <3>2
  <2>3. CASE ~on /\ st.mode[c].full
    <3> DEFINE x == [st.mode[c] EXCEPT !.full = FALSE, !.float = st.mode[c].old]
    <3>1. t.strip = st.strip \cup {c} /\ t.mode = [st.mode EXCEPT ![c] = x]
      BY <2>1, <2>3 DEF setfullscreen, arrange, restack, Fields
    <3> HIDE DEF x, t
    <3> QED BY <2>1, <3>1
  <2>4. CASE ~(on /\ ~st.mode[c].full) /\ ~(~on /\ st.mode[c].full)
    <3>1. t = st
      BY <2>4 DEF setfullscreen
    <3> QED BY <3>1
  <2> QED BY <2>2, <2>3, <2>4
<1>6. Inv'
  BY <1>1, <1>3, HandlerLemma DEF AllInv
<1> HIDE DEF t
<1>7. Managed(t) = Managed(st) /\ Managed(t) \subseteq Win /\ t.alive = st.alive
  BY <1>1, <1>3, ManagedLemma DEF Moves
<1>8. Titled'
  <2> SUFFICES ASSUME NEW w \in Managed(t), t.wmstate[w] = "Normal", ~t.mode[w].full
               PROVE  w \in t.strip
    BY <1>2 DEF Titled
  <2> QED BY <1>4, <1>5, <1>7 DEF AllInv, WinInv, Titled
<1>9. Drawn' /\ Fresh' /\ Adopted' /\ Bare'
  BY <1>1, <1>2, <1>4, <1>7 DEF AllInv, WinInv, Drawn, Fresh, Adopted, Bare, HIDDEN
<1>10. Stays(st, t)
  BY <1>4 DEF Stays
<1>11. SelInv'
  BY <1>1, <1>2, <1>3, <1>9, <1>10, ChangedSelection DEF AllInv, Moves
<1> QED BY <1>6, <1>8, <1>9, <1>11 DEF AllInv, WinInv

LEMMA EventsAll ==
  ASSUME AllInv, Events
  PROVE  AllInv'
<1>1. ASSUME NEW m \in Mon, PointerOnMon(m)
      PROVE  AllInv'
  BY <1>1, SwitchMonWorks, WorksAll DEF PointerOnMon, AllInv, Inv
<1> QED BY <1>1, MaprequestAll, UnmapAll, UnmapnotifySentAll, FocusinAll,
           ActivateMessageAll, FullscreenMessageAll, UpdatewmhintsAll,
           EnternotifyAll DEF Events

-----------------------------------------------------------------------------
(* The life of the process.                                                *)

\* Steps of a process that is leaving, which happens with Restarts only.
LEMMA LeavingAll ==
  ASSUME AllInv, Inv', NEW t, st' = t, Restarts, phase' \in {"quit", "cleanup"},
         UNCHANGED queues, t.alive = st.alive, Changed(st, t),
         Picked(t) \/ Stays(st, t),
         PlainInputs => /\ Calm(st, t) /\ Plain(t)
                        /\ Focused(t) \/ SameFocus(st, t)
  PROVE  AllInv'
<1>1. Good(t) /\ unmapq' = unmapq /\ destroyq' = destroyq /\ finq' = finq
  BY DEF Inv, queues
<1>2. Adopted'
  BY <1>1 DEF AllInv, WinInv, Adopted
<1>3. WinInv'
  BY <1>1, <1>2, ChangedWindows DEF AllInv
<1>4. SelInv'
  BY <1>1, <1>3, ChangedSelection DEF AllInv, WinInv
<1> QED BY <1>3, <1>4 DEF AllInv

LEMMA QuitAll ==
  ASSUME AllInv, quit
  PROVE  AllInv'
<1> DEFINE hid == {c \in UNION {QuitWalk(st, m) : m \in Mon} : HIDDEN(st, c)}
           t == Reveal(st, hid)
<1>1. Good(st) /\ Inv' /\ Managed(st) \subseteq Win /\ Selected(st) \in WinOrNull
  BY QuitInv, ManagedLemma DEF AllInv, Inv, Selected, Good, Well, State
<1>2. hid \in SUBSET Managed(st) /\ \A c \in hid : HIDDEN(st, c)
  BY <1>1, QuitWalkManaged
<1>3. st' = t /\ phase' = "quit" /\ Restarts /\ UNCHANGED queues
  BY DEF quit, Reveal
<1> HIDE DEF hid
<1>4. /\ Steps(st, t) /\ Unmoved(st, t)
      /\ t.focus = st.focus /\ t.mapped = st.mapped \cup hid
      /\ \A w \in Win : HIDDEN(t, w) <=> HIDDEN(st, w) /\ w \notin hid
  BY <1>1, <1>2, ShowSetSteps
<1> HIDE DEF t
<1>5. Stays(st, t) /\ Selected(t) = Selected(st)
  BY <1>3, <1>4 DEF Stays, Unmoved, Selected
<1>6. Plain(st) => Plain(t)
  BY <1>1, <1>4, <1>5 DEF Plain, WinOrNull
<1>7. Plain(st) => SameFocus(st, t)
  <2>1. Plain(st) /\ Selected(st) \in hid => Selected(st) \in st.mapped
    BY <1>1, <1>2, DwmAssumption DEF Plain
  <2> QED BY <1>4, <1>5, <2>1 DEF SameFocus
<1>8. PlainInputs => Plain(st)
  BY DEF AllInv, SelInv, Followed
<1>9. Changed(st, t) /\ t.alive = st.alive /\ Calm(st, t)
  BY <1>4, TidyChanged, StepsGood DEF Steps
<1> QED BY <1>1, <1>3, <1>5, <1>6, <1>7, <1>8, <1>9, LeavingAll

LEMMA CleanupAll ==
  ASSUME AllInv, CleanupView \/ \E m \in Mon : CleanupUnmanage(m)
  PROVE  AllInv'
<1>1. Good(st) /\ Inv' /\ Restarts /\ phase' = "cleanup" /\ UNCHANGED queues
  <2>1. Inv' /\ phase \in {"quit", "cleanup"} /\ phase' = "cleanup" /\ UNCHANGED queues
    BY CleanupInv DEF AllInv, CleanupView, CleanupUnmanage, queues
  <2> QED BY <2>1 DEF AllInv, Inv, WinInv, Fresh
<1>2. CASE CleanupView
  <2> DEFINE t == Viewed(st, Tag)
  <2>1. Works(st, t)
    BY <1>1, ViewedWorks
  <2>2. st' = t
    BY <1>2 DEF CleanupView
  <2> HIDE DEF t
  <2>3. /\ Changed(st, t) /\ t.alive = st.alive /\ Calm(st, t)
        /\ Plain(st) => Plain(t)
    BY <2>1, TidyChanged, StepsGood DEF Works, Steps
  <2>4. \/ Picked(t) /\ Focused(t)
        \/ Stays(st, t) /\ SameFocus(st, t)
    BY <2>1, ChosenPicked, SameChoiceStays DEF Works
  <2>5. PlainInputs => Plain(st)
    BY DEF AllInv, SelInv, Followed
  <2> QED BY <1>1, <2>2, <2>3, <2>4, <2>5, LeavingAll
<1>3. ASSUME NEW m \in Mon, CleanupUnmanage(m)
      PROVE  AllInv'
  <2> DEFINE c == st.stack[m][1]
             t == unmanage(st, c, FALSE)
  <2>1. c \in Managed(st)
    BY <1>1, <1>3, TopManaged DEF CleanupUnmanage
  <2>2. st' = t
    BY <1>3 DEF CleanupUnmanage
  <2> HIDE DEF c
  <2>3. /\ Changed(st, t) /\ Calm(st, t) /\ Picked(t) /\ Focused(t) /\ Plain(t)
        /\ t.alive = st.alive
    BY <1>1, <2>1, UnmanageChanged, UnmanageLemma
  <2> HIDE DEF t
  <2> QED BY <1>1, <2>2, <2>3, LeavingAll
<1> QED BY <1>2, <1>3

\* When the process is gone no client is managed and none is selected.
LEMMA ExitAll ==
  ASSUME AllInv, Restarts, NEW s, Good(s), Exit(s)
  PROVE  AllInv'
<1>1. Inv'
  BY ExitInv DEF AllInv
<1>2. /\ phase' = "down" /\ toscan' = {} /\ unmapq' = {} /\ destroyq' = {}
      /\ st' = ServerOf(s)
  BY DEF Exit
<1>3. Good(st') /\ Managed(st') = {}
  BY <1>2, ServerLemma
<1>4. /\ st'.strip = {} /\ st'.enterq = NULL /\ st'.selmon = 1
      /\ \A m \in Mon : st'.hidsel[m] = FALSE /\ st'.sel[m] = NULL
  BY <1>2 DEF ServerOf, InitialState
<1>5. Selected(st') = NULL /\ NULL \notin st'.mapped
  BY <1>3, <1>4, DwmAssumption DEF Selected, Mon, Good, Well, State
<1>6. WinInv'
  BY <1>2, <1>3, <1>4 DEF WinInv, Titled, Drawn, Fresh, Adopted, Bare
<1>7. SelInv'
  BY <1>4, <1>5 DEF SelInv, Settled, NotLost, Followed, Sel, Selected, Plain
<1> QED BY <1>1, <1>6, <1>7 DEF AllInv

LEMMA StartAll ==
  ASSUME AllInv, Start
  PROVE  AllInv'
<1> DEFINE v == [st EXCEPT !.list = {}]
           t == focus(v, NULL)
<1>1. Good(st) /\ Inv' /\ Managed(st) = {} /\ st.alive \subseteq Win
  BY StartInv DEF AllInv, Inv, Start, Good, Well, State
<1>2. /\ st' = t /\ phase = "down" /\ phase' = "scan" /\ toscan' = st.alive
      /\ unmapq' = unmapq /\ destroyq' = destroyq /\ finq' = finq
  BY DEF Start, queues
<1>3. Good(v) /\ Managed(v) = {}
  BY <1>1, UnlistedLemma
<1>4. /\ v.mapped = st.mapped /\ v.wmstate = st.wmstate /\ v.strip = st.strip
      /\ v.hidsel = st.hidsel /\ v.enterq = st.enterq /\ v.alive = st.alive
  BY <1>1, GoodRecord DEF Fields
<1> HIDE DEF v
<1>5. Steps(v, t) /\ Chosen(t) /\ Plain(t) /\ Good(t) /\ Managed(t) = {}
      /\ t.alive = st.alive
  BY <1>3, <1>4, FocusChoice, StepsGood
<1> HIDE DEF t
<1>6. \A w \in Win : AsBefore(st, t, w)
  BY <1>3, <1>4, <1>5 DEF Steps, Tidy, AsBefore
<1>7. Changed(st, t) /\ Calm(st, t)
  BY <1>4, <1>5, <1>6 DEF Changed, Steps, Calm
<1>8. Adopted'
  BY <1>2, <1>5 DEF AllInv, WinInv, Adopted
<1>9. WinInv'
  BY <1>2, <1>5, <1>7, <1>8, ChangedWindows DEF AllInv
<1>10. SelInv'
  BY <1>2, <1>5, <1>7, <1>9, ChosenPicked, ChangedSelection DEF AllInv, WinInv
<1> QED BY <1>1, <1>9, <1>10 DEF AllInv

\* scan() manages every window that is mapped or iconic.
LEMMA ScanAll ==
  ASSUME AllInv, NEW w \in Win, Scan(w)
  PROVE  AllInv'
<1>1. /\ Good(st) /\ Inv' /\ w \notin Managed(st) /\ phase = "scan"
      /\ w \in toscan /\ toscan' = toscan \ {w}
      /\ phase' = phase /\ unmapq' = unmapq /\ destroyq' = destroyq /\ finq' = finq
  BY ScanInv DEF AllInv, Inv, Scan, queues
<1>2. CASE w \in st.alive /\ (w \in st.mapped \/ HIDDEN(st, w))
  <2> DEFINE t == manage(st, w)
  <2>1. st' = t
    BY <1>2 DEF Scan
  <2>2. /\ Changed(st, t) /\ \A v \in Win \ Managed(t) : AsBefore(st, t, v)
        /\ Calm(st, t) /\ Picked(t) /\ Focused(t) /\ Plain(t)
        /\ Good(t) /\ Managed(t) = Managed(st) \cup {w} /\ t.alive = st.alive
    BY <1>1, <1>2, ManageChanged, ManageLemma
  <2> HIDE DEF t
  <2>3. Adopted'
    <3>1. st.alive \subseteq Win
      BY <1>1 DEF Good, Well, State
    <3>2. \A v \in st.alive \ Managed(t) : v \in t.mapped \/ HIDDEN(t, v) =>
             v \in st.mapped \/ HIDDEN(st, v)
      BY <2>2, <3>1 DEF AsBefore, HIDDEN
    <3> QED BY <1>1, <2>1, <2>2, <3>2 DEF AllInv, WinInv, Adopted
  <2>4. WinInv'
    BY <1>1, <2>1, <2>2, <2>3, ChangedWindows DEF AllInv
  <2>5. SelInv'
    BY <1>1, <2>1, <2>2, <2>4, ChangedSelection DEF AllInv, WinInv
  <2> QED BY <1>1, <2>4, <2>5 DEF AllInv
<1>3. CASE ~(w \in st.alive /\ (w \in st.mapped \/ HIDDEN(st, w)))
  <2>1. st' = st
    BY <1>3 DEF Scan
  <2>2. WinInv'
    BY <1>1, <1>3, <2>1 DEF AllInv, WinInv, Titled, Drawn, Fresh, Adopted, Bare
  <2>3. SelInv'
    BY <1>1, <2>1 DEF AllInv, SelInv, Settled, NotLost, Followed, Sel
  <2> QED BY <1>1, <2>2, <2>3 DEF AllInv
<1> QED BY <1>2, <1>3

LEMMA ProcessAll ==
  ASSUME AllInv, Process
  PROVE  AllInv'
<1>1. ASSUME CleanupEnd
      PROVE  AllInv'
  <2>1. Good(FocusRoot(st)) /\ Exit(FocusRoot(st)) /\ Restarts
    BY <1>1, FocusRootLemma DEF CleanupEnd, AllInv, Inv, Keeps, WinInv, Fresh
  <2> QED BY <2>1, ExitAll
<1>2. ASSUME Crash
      PROVE  AllInv'
  BY <1>2, ExitAll DEF Crash, AllInv, Inv
<1>3. ASSUME ScanEnd
      PROVE  AllInv'
  <2>1. /\ st' = st /\ phase = "scan" /\ phase' = "run" /\ toscan = {}
        /\ toscan' = toscan /\ unmapq' = unmapq /\ destroyq' = destroyq
        /\ finq' = finq /\ Inv'
    BY <1>3, ProcessInv DEF ScanEnd, queues, AllInv, Process
  <2>2. WinInv'
    BY <2>1 DEF AllInv, WinInv, Titled, Drawn, Fresh, Adopted, Bare
  <2>3. SelInv'
    BY <2>1 DEF AllInv, SelInv, Settled, NotLost, Followed, Sel
  <2> QED BY <2>1, <2>2, <2>3 DEF AllInv
<1> QED BY <1>1, <1>2, <1>3, QuitAll, CleanupAll, StartAll, ScanAll DEF Process

-----------------------------------------------------------------------------
(* Client programs and the pointer.                                        *)

\* While dwm does not run, it manages nothing and selects nothing.
LEMMA DownLemma ==
  ASSUME Inv, phase = "down"
  PROVE  /\ Managed(st) = {} /\ Selected(st) = NULL
         /\ \A m \in Mon : VisibleOn(st, m) = {}
<1>1. Managed(st) = {} /\ Good(st)
  BY DEF Inv
<1>2. \A m \in Mon : Range(st.clients[m]) = {}
  BY <1>1 DEF Managed
<1>3. st.selmon \in Mon /\ \A m \in Mon : st.sel[m] \in Range(st.clients[m]) \cup {NULL}
  BY <1>1 DEF Good, Well, State, Consistent
<1> QED BY <1>1, <1>2, <1>3 DEF Selected, VisibleOn

\* What a client does to its window or the focus leaves the lists, the views
\* and the selection of dwm alone.
OwnMemory(s, t) ==
  /\ SameViews(s, t)
  /\ t.stack = s.stack /\ t.sel = s.sel /\ t.selmon = s.selmon
  /\ t.urgent = s.urgent /\ t.hidsel = s.hidsel /\ t.enterq = s.enterq
  /\ t.strip = s.strip /\ t.mode = s.mode

LEMMA ClientAll ==
  ASSUME AllInv, Inv', NEW t, st' = t, UNCHANGED phase, OwnMemory(st, t), WinInv',
         t.mapped \subseteq st.mapped \/ phase = "down",
         PlainInputs => /\ Plain(t)
                        /\ SameFocus(st, t) /\ finq' = finq
  PROVE  AllInv'
<1>1. Good(t) /\ Selected(t) = Selected(st)
  BY DEF Inv, OwnMemory, Selected
<1>2. CASE phase = "down"
  <2>1. Selected(st) = NULL /\ t.selmon = st.selmon /\ t.selmon \in Mon
    BY <1>1, <1>2, DownLemma DEF AllInv, OwnMemory, Good, Well, State
  <2>2. VisibleOn(t, t.selmon) = {}
    BY <1>2, <2>1, DownLemma, SameViewsVisible DEF AllInv, OwnMemory
  <2>3. Picked(t)
    BY <1>1, <2>1, <2>2 DEF Picked, ShownOn
  <2> QED BY <1>1, <2>3, ChangedSelection DEF AllInv, WinInv, Calm, OwnMemory
<1>3. CASE t.mapped \subseteq st.mapped
  <2>1. Stays(st, t)
    BY <1>3 DEF Stays, OwnMemory
  <2> QED BY <1>1, <2>1, ChangedSelection DEF AllInv, WinInv, Calm, OwnMemory
<1> QED BY <1>2, <1>3

LEMMA ClientUnmapAll ==
  ASSUME AllInv, Inv', NEW w \in Win, ClientUnmap(w)
  PROVE  AllInv'
<1> DEFINE t == XUnmapWindow(st, w)
<1>1. /\ Good(st) /\ DOMAIN st = Fields /\ Managed(st) \subseteq Win
      /\ w \in Unmappers /\ w \in st.mapped
      /\ unmapq' = Reported(unmapq, w) /\ destroyq' = destroyq /\ finq' = finq
      /\ phase' = phase /\ toscan' = toscan
  BY GoodRecord, ManagedLemma DEF AllInv, Inv, ClientUnmap
<1>2. st' = t
  BY DEF ClientUnmap
<1>3. /\ OwnMemory(st, t) /\ t.wmstate = st.wmstate /\ t.alive = st.alive
      /\ t.mapped = st.mapped \ {w}
      /\ t.focus = IF st.focus = w THEN NULL ELSE st.focus
  BY <1>1 DEF OwnMemory, SameViews, XUnmapWindow, Fields
<1> HIDE DEF t
<1>4. Managed(t) = Managed(st) /\ Selected(t) = Selected(st)
  BY <1>3 DEF OwnMemory, SameViews, Managed, Selected
<1>5. unmapq \subseteq unmapq' /\ (phase # "down" => w \in unmapq')
  BY <1>1 DEF Reported
<1>6. phase = "down" => Managed(st) = {}
  BY DEF AllInv, Inv
<1>7. WinInv'
  <2>1. Titled' /\ Bare'
    BY <1>2, <1>3, <1>4 DEF AllInv, WinInv, Titled, Bare, OwnMemory, HIDDEN
  <2>2. Drawn'
    BY <1>2, <1>3, <1>4, <1>5, <1>6 DEF AllInv, WinInv, Drawn
  <2>3. Fresh' /\ Adopted'
    BY <1>1, <1>2, <1>3 DEF AllInv, WinInv, Fresh, Adopted, HIDDEN
  <2> QED BY <2>1, <2>2, <2>3 DEF WinInv
<1>8. ASSUME PlainInputs
      PROVE  Plain(t) /\ SameFocus(st, t)
  <2>1. ~Restarts /\ Plain(st)
    BY <1>1, <1>8 DEF PlainInputs, AllInv, SelInv, Followed
  <2>2. HIDDEN(st, w) => w \notin st.mapped
    BY <2>1 DEF AllInv, WinInv, Fresh
  <2>3. Plain(t)
    BY <1>1, <1>3, <1>4, <2>1, <2>2 DEF Plain, HIDDEN
  <2>4. SameFocus(st, t)
    BY <1>3, <1>4 DEF SameFocus
  <2> QED BY <2>3, <2>4
<1> QED BY <1>1, <1>2, <1>3, <1>7, <1>8, ClientAll

LEMMA ClientDestroyAll ==
  ASSUME AllInv, Inv', NEW w \in Win, ClientDestroy(w)
  PROVE  AllInv'
<1> DEFINE x == XUnmapWindow(st, w)
           t == [x EXCEPT !.alive = @ \ {w}, !.wmstate[w] = "Withdrawn",
                          !.hint = @ \ {w}, !.fsprop = @ \ {w}]
<1>1. /\ Good(st) /\ DOMAIN st = Fields /\ Managed(st) \subseteq Win
      /\ st.wmstate \in [Win -> {"Withdrawn", "Normal", "Iconic"}]
      /\ finq' = finq /\ phase' = phase /\ toscan' = toscan
  BY GoodRecord, ManagedLemma, ZenonT(60) DEF AllInv, Inv, ClientDestroy, Good, Well, State
<1>2. /\ unmapq' \in {unmapq, Reported(unmapq, w)}
      /\ destroyq' \in {destroyq, Reported(destroyq, w)}
  BY DEF ClientDestroy
<1>3. st' = t
  BY DEF ClientDestroy
<1>4. /\ OwnMemory(st, x) /\ x.wmstate = st.wmstate /\ x.alive = st.alive
      /\ x.mapped = st.mapped \ {w} /\ DOMAIN x = Fields
      /\ x.focus = IF st.focus = w THEN NULL ELSE st.focus
  BY <1>1 DEF OwnMemory, SameViews, XUnmapWindow, Fields
<1> HIDE DEF x
<1>5. /\ OwnMemory(st, t) /\ t.mapped = st.mapped \ {w}
      /\ t.alive = st.alive \ {w}
      /\ t.focus = IF st.focus = w THEN NULL ELSE st.focus
      /\ t.wmstate = [st.wmstate EXCEPT ![w] = "Withdrawn"]
  BY <1>4 DEF OwnMemory, SameViews, Fields
<1> HIDE DEF t
<1>6. /\ t.wmstate[w] = "Withdrawn"
      /\ \A v \in Win \ {w} : t.wmstate[v] = st.wmstate[v]
  BY <1>1, <1>5
<1>7. /\ Managed(t) = Managed(st) /\ Selected(t) = Selected(st)
      /\ Selected(t) \in WinOrNull
  BY <1>1, <1>5 DEF OwnMemory, SameViews, Managed, Selected, Good, Well, State
<1>8. /\ unmapq \subseteq unmapq'
      /\ unmapq' \cup destroyq' \subseteq unmapq \cup destroyq \cup {w}
      /\ phase = "down" => unmapq' = unmapq /\ destroyq' = destroyq
  BY <1>2 DEF Reported
<1>9. WinInv'
  <2>1. Titled'
    BY <1>1, <1>3, <1>5, <1>6, <1>7 DEF AllInv, WinInv, Titled, OwnMemory
  <2>2. Drawn'
    BY <1>1, <1>3, <1>5, <1>6, <1>7, <1>8 DEF AllInv, WinInv, Drawn
  <2>3. Fresh'
    BY <1>1, <1>3, <1>5, <1>6 DEF AllInv, WinInv, Fresh, HIDDEN
  <2>4. Adopted'
    <3>1. st.alive \subseteq Win
      BY <1>1 DEF Good, Well, State
    <3> QED BY <1>1, <1>3, <1>5, <1>6, <1>7, <1>8, <3>1
            DEF AllInv, WinInv, Adopted, HIDDEN
  <2>5. Bare'
    <3>1. st.strip \subseteq Win
      BY <1>1 DEF Good, Well, State
    <3> QED BY <1>3, <1>5, <1>6, <3>1 DEF AllInv, WinInv, Bare, HIDDEN, OwnMemory
  <2> QED BY <2>1, <2>2, <2>3, <2>4, <2>5 DEF WinInv
<1>10. ASSUME PlainInputs
       PROVE  Plain(t) /\ SameFocus(st, t)
  <2>1. Plain(st)
    BY <1>10 DEF AllInv, SelInv, Followed
  <2>2. Plain(t)
    BY <1>5, <1>6, <1>7, <2>1 DEF Plain, HIDDEN, WinOrNull
  <2>3. SameFocus(st, t)
    BY <1>5, <1>7 DEF SameFocus
  <2> QED BY <2>2, <2>3
<1> QED BY <1>1, <1>3, <1>5, <1>9, <1>10, ClientAll

LEMMA ClientMapAll ==
  ASSUME AllInv, Inv', NEW w \in Win, ClientMap(w)
  PROVE  AllInv'
<1> DEFINE t == [st EXCEPT !.alive = @ \cup {w}, !.mapped = @ \cup {w}]
<1>1. /\ DOMAIN st = Fields /\ phase = "down" /\ phase' = phase /\ toscan' = toscan
      /\ unmapq' = unmapq /\ destroyq' = destroyq /\ finq' = finq
      /\ Managed(st) = {} /\ Selected(st) = NULL
  BY GoodRecord, DownLemma DEF AllInv, Inv, ClientMap, queues
<1>2. st' = t
  BY DEF ClientMap
<1>3. /\ OwnMemory(st, t) /\ t.wmstate = st.wmstate /\ t.focus = st.focus
      /\ t.mapped = st.mapped \cup {w}
  BY <1>1 DEF OwnMemory, SameViews, Fields
<1> HIDE DEF t
<1>4. Managed(t) = {} /\ Selected(t) = NULL /\ NULL \notin t.mapped
  <2>1. Managed(t) = Managed(st) /\ Selected(t) = Selected(st)
    BY <1>3 DEF OwnMemory, SameViews, Managed, Selected
  <2>2. st.mapped \subseteq Win
    BY DEF AllInv, Inv, Good, Well, State
  <2> QED BY <1>1, <1>3, <2>1, <2>2
<1>5. WinInv'
  BY <1>1, <1>2, <1>3, <1>4
     DEF AllInv, WinInv, Titled, Drawn, Fresh, Adopted, Bare, HIDDEN, OwnMemory
<1>6. Plain(t) /\ SameFocus(st, t)
  BY <1>1, <1>4 DEF Plain, SameFocus
<1> QED BY <1>1, <1>2, <1>3, <1>5, <1>6, ClientAll

LEMMA ClientHintAll ==
  ASSUME AllInv, Inv', NEW w \in Win, ClientHint(w)
  PROVE  AllInv'
<1> DEFINE t == [st EXCEPT !.hint = SymDiff(@, {w})]
<1>1. /\ DOMAIN st = Fields /\ phase' = phase /\ toscan' = toscan
      /\ unmapq' = unmapq /\ destroyq' = destroyq /\ finq' = finq
  BY GoodRecord DEF AllInv, Inv, ClientHint, queues
<1>2. st' = t
  BY DEF ClientHint
<1>3. /\ OwnMemory(st, t) /\ t.wmstate = st.wmstate /\ t.focus = st.focus
      /\ t.mapped = st.mapped /\ t.alive = st.alive
  BY <1>1 DEF OwnMemory, SameViews, Fields
<1> HIDE DEF t
<1>4. Managed(t) = Managed(st) /\ Selected(t) = Selected(st)
  BY <1>3 DEF OwnMemory, SameViews, Managed, Selected
<1>5. WinInv'
  BY <1>1, <1>2, <1>3, <1>4
     DEF AllInv, WinInv, Titled, Drawn, Fresh, Adopted, Bare, HIDDEN, OwnMemory
<1>6. SameFocus(st, t) /\ (PlainInputs => Plain(t))
  BY <1>3, <1>4 DEF Plain, SameFocus, HIDDEN, AllInv, SelInv, Followed
<1> QED BY <1>1, <1>2, <1>3, <1>5, <1>6, ClientAll

\* A client takes the focus: the FocusIn that X queues is not for the selected
\* client unless the focus went there.
LEMMA StealFocusAll ==
  ASSUME AllInv, Inv', NEW w \in Win, StealFocus(w)
  PROVE  AllInv'
<1> DEFINE t == [st EXCEPT !.focus = w]
<1>1. /\ DOMAIN st = Fields /\ phase' = phase /\ toscan' = toscan
      /\ unmapq' = unmapq /\ destroyq' = destroyq
      /\ finq = {} /\ finq' = Reported(finq, w)
  BY GoodRecord DEF AllInv, Inv, StealFocus
<1>2. st' = t
  BY DEF StealFocus
<1>3. /\ OwnMemory(st, t) /\ t.wmstate = st.wmstate /\ t.focus = w
      /\ t.mapped = st.mapped /\ t.alive = st.alive
  BY <1>1 DEF OwnMemory, SameViews, Fields
<1> HIDE DEF t
<1>4. /\ Managed(t) = Managed(st) /\ Selected(t) = Selected(st) /\ Sel = Selected(st)
      /\ Sel' = Selected(t) /\ NULL \notin st.mapped
  BY <1>2, <1>3 DEF OwnMemory, SameViews, Managed, Selected, Sel, AllInv, Inv, Good,
                    Well, State
<1>5. WinInv'
  BY <1>1, <1>2, <1>3, <1>4
     DEF AllInv, WinInv, Titled, Drawn, Fresh, Adopted, Bare, HIDDEN, OwnMemory
<1>6. Settled' /\ NotLost'
  BY <1>2, <1>3, <1>4, SameViewsVisible
     DEF AllInv, SelInv, Settled, NotLost, OwnMemory
<1>7. Followed'
  <2>1. phase = "down" => Selected(st) = NULL
    BY DownLemma DEF AllInv
  <2>2. Selected(t) \in t.mapped =>
          t.focus = Selected(t) \/ (finq' # {} /\ Selected(t) \notin finq')
    BY <1>1, <1>3, <1>4, <2>1 DEF Reported
  <2>3. Plain(st) => Plain(t)
    BY <1>3, <1>4 DEF Plain, HIDDEN
  <2> QED BY <1>2, <1>3, <1>4, <2>2, <2>3 DEF AllInv, SelInv, Followed, OwnMemory
<1> QED BY <1>5, <1>6, <1>7 DEF AllInv, SelInv

LEMMA PointerEntersAll ==
  ASSUME AllInv, Inv', NEW w \in Win, PointerEnters(w)
  PROVE  AllInv'
<1> DEFINE t == [st EXCEPT !.enterq = w]
<1>1. /\ DOMAIN st = Fields /\ phase' = phase /\ toscan' = toscan
      /\ unmapq' = unmapq /\ destroyq' = destroyq /\ finq' = finq
      /\ ~PlainInputs
  BY GoodRecord DEF AllInv, Inv, PointerEnters, queues, PlainInputs
<1>2. st' = t
  BY DEF PointerEnters
<1>3. /\ SameViews(st, t) /\ t.wmstate = st.wmstate /\ t.mode = st.mode
      /\ t.mapped = st.mapped /\ t.alive = st.alive /\ t.strip = st.strip
      /\ t.stack = st.stack /\ t.sel = st.sel /\ t.selmon = st.selmon
      /\ t.urgent = st.urgent
  BY <1>1 DEF SameViews, Fields
<1> HIDE DEF t
<1>4. /\ Managed(t) = Managed(st) /\ Selected(t) = Selected(st) /\ Sel = Selected(st)
      /\ Sel' = Selected(t)
  BY <1>2, <1>3 DEF SameViews, Managed, Selected, Sel
<1>5. WinInv'
  BY <1>1, <1>2, <1>3, <1>4
     DEF AllInv, WinInv, Titled, Drawn, Fresh, Adopted, Bare, HIDDEN
<1>6. Settled' /\ NotLost' /\ Followed'
  BY <1>1, <1>2, <1>3, <1>4, SameViewsVisible
     DEF AllInv, SelInv, Settled, NotLost, Followed
<1> QED BY <1>5, <1>6 DEF AllInv, SelInv

LEMMA ClientsAll ==
  ASSUME AllInv, Clients
  PROVE  AllInv'
<1>1. Inv'
  BY ClientsInv DEF AllInv
<1> QED BY <1>1, ClientUnmapAll, ClientDestroyAll, ClientMapAll, ClientHintAll,
           StealFocusAll, PointerEntersAll DEF Clients

-----------------------------------------------------------------------------
(* The invariant and what follows from it.                                 *)

LEMMA AllInvInit ==
  Init => AllInv
<1> SUFFICES ASSUME Init
             PROVE  AllInv
  OBVIOUS
<1>1. Inv /\ Managed(st) = {} /\ Selected(st) = NULL
  BY InvInit, DownLemma DEF Init, Inv
<1>2. /\ st.mapped = {} /\ st.strip = {} /\ st.enterq = NULL /\ st.alive = {}
      /\ \A w \in Win : st.wmstate[w] = "Withdrawn"
      /\ \A m \in Mon : st.hidsel[m] = FALSE
      /\ phase = "down" /\ unmapq = {} /\ destroyq = {}
  BY DEF Init, InitialState
<1>3. WinInv
  BY <1>1, <1>2 DEF WinInv, Titled, Drawn, Fresh, Adopted, Bare, HIDDEN
<1>4. SelInv
  BY <1>1, <1>2 DEF SelInv, Settled, NotLost, Followed, Plain, Sel, Selected
<1> QED BY <1>1, <1>3, <1>4 DEF AllInv

LEMMA AllInvNext ==
  AllInv /\ [Next]_vars => AllInv'
<1> SUFFICES ASSUME AllInv, [Next]_vars
             PROVE  AllInv'
  OBVIOUS
<1>1. CASE UNCHANGED vars
  <2>1. Inv'
    BY <1>1, InvNext DEF AllInv
  <2>2. WinInv'
    BY <1>1 DEF vars, AllInv, WinInv, Titled, Drawn, Fresh, Adopted, Bare
  <2>3. SelInv'
    BY <1>1 DEF vars, AllInv, SelInv, Settled, NotLost, Followed, Sel
  <2> QED BY <2>1, <2>2, <2>3 DEF AllInv
<1> QED BY <1>1, KeysAll, ButtonsAll, EventsAll, ProcessAll, ClientsAll DEF Next

LEMMA AllInvAlways ==
  Spec => []AllInv
  BY AllInvInit, AllInvNext, PTL DEF Spec

\* Whatever dwm and the clients do, a client that is on screen and not
\* fullscreen has its titlebar mapped: the handlers that map a client's window
\* map its titlebar with it, and leaving fullscreen maps it again.
THEOREM TitlebarsAlwaysShown ==
  Spec => []TitlebarShown
<1>1. AllInv => TitlebarShown
  BY DEF AllInv, WinInv, Titled, TitlebarShown
<1> QED BY <1>1, AllInvAlways, PTL

\* Between events the selected client is in view and on top of its stack.
THEOREM SelectionAlwaysOnTop ==
  Spec => []SelectionOnTop
<1>1. AllInv => SelectionOnTop
  BY DEF AllInv, SelInv, Settled, SelectionOnTop
<1> QED BY <1>1, AllInvAlways, PTL

\* The selected client never asks for attention: focus() clears its urgency,
\* and updatewmhints and clientmessage do not set it while it is selected.
THEOREM SelectionNeverUrgent ==
  Spec => []SelectionNotUrgent
<1>1. AllInv => SelectionNotUrgent
  <2>1. AllInv => st.urgent \subseteq Win
    BY DEF AllInv, Inv, Good, Well, State
  <2> QED BY <2>1 DEF AllInv, SelInv, Settled, SelectionNotUrgent
<1> QED BY <1>1, AllInvAlways, PTL

\* As long as dwm is not restarted on a server that holds iconic windows, an
\* iconic client is unmapped.  With restarts it is false: scan() adopts a
\* window whose WM_STATE is iconic and that was mapped while dwm was down.
THEOREM IconicAlwaysUnmapped ==
  ASSUME ~Restarts
  PROVE  Spec => []IconicIsUnmapped
<1>1. AllInv => IconicIsUnmapped
  <2>1. AllInv => Managed(st) \subseteq Win
    BY ManagedLemma DEF AllInv, Inv
  <2> QED BY <2>1 DEF AllInv, WinInv, Fresh, Drawn, IconicIsUnmapped
<1> QED BY <1>1, AllInvAlways, PTL

\* As long as dwm is not restarted, nothing is selected only if no window of
\* the selected monitor is on screen.  A restart can leave a mapped client
\* iconic, which focus(NULL) passes over.
THEOREM FocusNeverLost ==
  ASSUME ~Restarts
  PROVE  Spec => []FocusNotLost
<1>1. AllInv => FocusNotLost
  BY DEF AllInv, SelInv, NotLost, FocusNotLost
<1> QED BY <1>1, AllInvAlways, PTL

\* Through any number of crashes and restarts, every window that is mapped or
\* iconic is managed once scan() has ended, if no client unmaps a window that
\* it keeps: the UnmapNotify of an unmap that dwm answers late unmanages a
\* window that was shown again in between.
THEOREM NoWindowEverLost ==
  ASSUME Unmappers = {}
  PROVE  Spec => []NoWindowLost
<1>1. AllInv => NoWindowLost
  BY DEF AllInv, WinInv, Adopted, NoWindowLost
<1> QED BY <1>1, AllInvAlways, PTL

\* The input focus is on the selected client as soon as no FocusIn is queued,
\* if a hidden client is selected by no key, no EnterNotify is queued and no
\* window goes fullscreen while it is hidden.
THEOREM InputAlwaysFollows ==
  ASSUME PlainInputs
  PROVE  Spec => []InputFollowsSelection
<1>1. AllInv => InputFollowsSelection
  BY DEF AllInv, SelInv, Followed, InputFollowsSelection
<1> QED BY <1>1, AllInvAlways, PTL
=============================================================================
