--------------------------- MODULE DwmStateProofs ---------------------------
(***************************************************************************)
(* What the list operators of DwmLists return, for every list; and the     *)
(* functions of dwm.c keep the state well formed: for each operator of     *)
(* DwmState, in the order of that module, a lemma that says what it keeps, *)
(* and then one that says what it does to windows and to the selection.    *)
(***************************************************************************)
EXTENDS DwmState, WellFoundedInduction, TLAPS

\* Unlink removes its client from a list and nothing else, and the list stays
\* free of repetitions (detach and detachstack).
LEMMA UnlinkLemma ==
  ASSUME NEW S, NEW seq \in Seq(S), IsInjective(seq), NEW c
  PROVE  /\ Unlink(seq, c) \in Seq(S)
         /\ IsInjective(Unlink(seq, c))
         /\ Range(Unlink(seq, c)) = Range(seq) \ {c}
<1>1. CASE c \in Range(seq)
  <2> DEFINE k == IndexOf(seq, c)
             u == Unlink(seq, c)
  <2>1. k \in 1 .. Len(seq) /\ seq[k] = c /\ Len(seq) \in Nat /\ Len(seq) # 0
    BY <1>1 DEF Range, IndexOf
  <2>2. u = [i \in 1 .. Len(seq) - 1 |-> IF i < k THEN seq[i] ELSE seq[i + 1]]
    BY <1>1 DEF Unlink
  <2>3. \A i, j \in 1 .. Len(seq) : seq[i] = seq[j] => i = j
    BY DEF IsInjective
  <2> HIDE DEF k, u
  <2>4. u \in Seq(S)
    <3>1. \A i \in 1 .. Len(seq) - 1 : seq[i] \in S /\ seq[i + 1] \in S
      BY <2>1
    <3>2. u \in [1 .. Len(seq) - 1 -> S]
      BY <2>1, <2>2, <3>1
    <3> QED BY <2>1, <3>2
  <2>5. IsInjective(u)
    BY <2>1, <2>2, <2>3 DEF IsInjective
  <2>6. Range(u) \subseteq Range(seq) \ {c}
    BY <2>1, <2>2, <2>3 DEF Range
  <2>7. ASSUME NEW x \in Range(seq) \ {c}
        PROVE  x \in Range(u)
    <3>1. PICK i \in 1 .. Len(seq) : seq[i] = x
      BY DEF Range
    <3>2. i # k
      BY <2>1, <3>1
    <3>3. CASE i < k
      <4>1. i \in 1 .. Len(seq) - 1 /\ u[i] = x
        BY <2>1, <2>2, <3>1, <3>3
      <4> QED BY <2>2, <4>1 DEF Range
    <3>4. CASE i > k
      <4>1. i - 1 \in 1 .. Len(seq) - 1 /\ u[i - 1] = x
        BY <2>1, <2>2, <3>1, <3>4
      <4> QED BY <2>2, <4>1 DEF Range
    <3> QED BY <2>1, <3>2, <3>3, <3>4
  <2> QED BY <2>4, <2>5, <2>6, <2>7 DEF u
<1>2. CASE c \notin Range(seq)
  BY <1>2 DEF Unlink
<1> QED BY <1>1, <1>2

\* Push puts a new client at the head of a list (attach and attachstack).
LEMMA PushLemma ==
  ASSUME NEW S, NEW seq \in Seq(S), IsInjective(seq), NEW c \in S,
         c \notin Range(seq)
  PROVE  /\ Push(c, seq) \in Seq(S)
         /\ IsInjective(Push(c, seq))
         /\ Range(Push(c, seq)) = Range(seq) \cup {c}
<1> DEFINE p == Push(c, seq)
<1>1. Len(seq) \in Nat /\ \A i \in 1 .. Len(seq) : seq[i] \in S
  OBVIOUS
<1>2. p = [i \in 1 .. Len(seq) + 1 |-> IF i = 1 THEN c ELSE seq[i - 1]]
  BY DEF Push
<1>3. \A i \in 1 .. Len(seq) : seq[i] # c
  BY DEF Range
<1>4. \A i, j \in 1 .. Len(seq) : seq[i] = seq[j] => i = j
  BY DEF IsInjective
<1> HIDE DEF p
<1>5. p \in Seq(S)
  <2>1. p \in [1 .. Len(seq) + 1 -> S]
    BY <1>1, <1>2
  <2> QED BY <1>1, <2>1
<1>6. IsInjective(p)
  <2> SUFFICES ASSUME NEW i \in 1 .. Len(seq) + 1, NEW j \in 1 .. Len(seq) + 1,
                      p[i] = p[j]
               PROVE  i = j
    BY <1>1, <1>2 DEF IsInjective
  <2>1. CASE i = 1
    BY <1>1, <1>2, <1>3, <2>1
  <2>2. CASE j = 1
    BY <1>1, <1>2, <1>3, <2>2
  <2>3. CASE i # 1 /\ j # 1
    <3>1. i - 1 \in 1 .. Len(seq) /\ j - 1 \in 1 .. Len(seq)
      BY <1>1, <2>3
    <3>2. seq[i - 1] = seq[j - 1]
      BY <1>2, <2>3
    <3> QED BY <1>4, <3>1, <3>2
  <2> QED BY <2>1, <2>2, <2>3
<1>7. Range(p) \subseteq Range(seq) \cup {c}
  BY <1>1, <1>2 DEF Range
<1>8. c \in Range(p)
  <2>1. 1 \in 1 .. Len(seq) + 1 /\ p[1] = c
    BY <1>1, <1>2
  <2> QED BY <1>2, <2>1 DEF Range
<1>9. ASSUME NEW x \in Range(seq)
      PROVE  x \in Range(p)
  <2>1. PICK i \in 1 .. Len(seq) : seq[i] = x
    BY DEF Range
  <2>2. i + 1 \in 1 .. Len(seq) + 1 /\ p[i + 1] = x
    BY <1>1, <1>2, <2>1
  <2> QED BY <1>2, <2>2 DEF Range
<1> QED BY <1>5, <1>6, <1>7, <1>8, <1>9 DEF p

\* Every set of natural numbers has a least member, and every set of places
\* of a list a last one: the searches below return what they look for.
LEMMA LeastLemma ==
  ASSUME NEW T \in SUBSET Nat, T # {}
  PROVE  \E x \in T : \A y \in T : x <= y
<1> DEFINE R == OpToRel(<, Nat)
<1>1. IsWellFoundedOn(R, Nat)
  BY NatLessThanWellFounded
<1>2. \A x, y \in Nat : y < x => <<y, x>> \in R
  BY DEF OpToRel
<1> HIDE DEF R
<1>3. PICK x \in T : \A y \in T : ~ (<<y, x>> \in R)
  BY <1>1, WFMin
<1>4. \A y \in T : y \in Nat /\ x \in Nat /\ ~ (y < x)
  BY <1>2, <1>3
<1>5. \A y \in T : x <= y
  BY <1>4
<1> QED BY <1>5

LEMMA GreatestLemma ==
  ASSUME NEW n \in Nat, NEW T \in SUBSET (1 .. n), T # {}
  PROVE  \E x \in T : \A y \in T : y <= x
<1> DEFINE D == {n - t : t \in T}
<1>1. D \in SUBSET Nat /\ D # {}
  <2>1. \A t \in T : t \in 1 .. n /\ n - t \in Nat
    OBVIOUS
  <2> QED BY <2>1
<1>2. PICK d \in D : \A e \in D : d <= e
  BY <1>1, LeastLemma
<1>3. PICK x \in T : d = n - x
  BY <1>2
<1>4. \A y \in T : n - x <= n - y
  BY <1>2, <1>3
<1>5. \A y \in T : y <= x
  BY <1>4
<1> QED BY <1>5

\* A search stops at a client of the list that satisfies its condition, or
\* returns the null pointer when there is none (focus, detachstack, zoom).
LEMMA FirstFromLemma ==
  ASSUME NEW seq, Len(seq) \in Nat, DOMAIN seq = 1 .. Len(seq), NEW k, NEW S
  PROVE  FirstFrom(seq, k, S) \in (Range(seq) \cap S) \cup {NULL}
<1> DEFINE I == {i \in 1 .. Len(seq) : i >= k /\ seq[i] \in S}
<1>1. CASE I = {}
  BY <1>1 DEF FirstFrom
<1>2. CASE I # {}
  <2> DEFINE i == CHOOSE i \in I : \A j \in I : i <= j
  <2>1. i \in I
    <3>1. I \in SUBSET Nat
      OBVIOUS
    <3>2. \E x \in I : \A j \in I : x <= j
      BY <1>2, <3>1, LeastLemma
    <3> QED BY <3>2
  <2>2. FirstFrom(seq, k, S) = seq[i]
    BY <1>2 DEF FirstFrom
  <2> QED BY <2>1, <2>2 DEF Range
<1> QED BY <1>1, <1>2

LEMMA LastUpToLemma ==
  ASSUME NEW seq, Len(seq) \in Nat, DOMAIN seq = 1 .. Len(seq), NEW k, NEW S
  PROVE  LastUpTo(seq, k, S) \in (Range(seq) \cap S) \cup {NULL}
<1> DEFINE I == {i \in 1 .. Len(seq) : i <= k /\ seq[i] \in S}
<1>1. CASE I = {}
  BY <1>1 DEF LastUpTo
<1>2. CASE I # {}
  <2> DEFINE i == CHOOSE i \in I : \A j \in I : j <= i
  <2>1. i \in I
    <3>1. I \in SUBSET (1 .. Len(seq))
      OBVIOUS
    <3>2. \E x \in I : \A j \in I : j <= x
      BY <1>2, <3>1, GreatestLemma
    <3> QED BY <3>2
  <2>2. LastUpTo(seq, k, S) = seq[i]
    BY <1>2 DEF LastUpTo
  <2> QED BY <2>1, <2>2 DEF Range
<1> QED BY <1>1, <1>2

-----------------------------------------------------------------------------
USE DwmAssumption

\* The state has its type, windows that are mapped or that carry a WM_STATE
\* exist, and no tag set is empty.
Well(s) ==
  /\ s \in State
  /\ s.mapped \subseteq s.alive
  /\ \A w \in Win : s.wmstate[w] # "Withdrawn" => w \in s.alive
  /\ \A m \in Mon, i \in {0, 1} : s.tagset[m][i] # {}

\* The clients on the lists have tags.
AllTagged(s) == \A m \in Mon : \A c \in Range(s.clients[m]) : s.tags[c] # {}

Good(s) == Well(s) /\ Consistent(s) /\ AllTagged(s)

\* What nearly every function does: it manages the same clients on the same
\* monitors, in the same order, and stays in a good state.
Keeps(s, t) ==
  /\ Good(t)
  /\ t.clients = s.clients /\ t.mon = s.mon
  /\ t.list = s.list /\ t.alive = s.alive

SameLists(s, t) ==
  /\ t.clients = s.clients /\ t.stack = s.stack
  /\ t.sel = s.sel /\ t.mon = s.mon /\ t.tags = s.tags
  /\ t.list = s.list /\ t.alive = s.alive

LEMMA KeepsSelf ==
  ASSUME NEW s, Good(s)
  PROVE  Keeps(s, s)
  BY DEF Keeps

LEMMA KeepsTrans ==
  ASSUME NEW s, NEW t, NEW u, Keeps(s, t), Keeps(t, u)
  PROVE  Keeps(s, u)
  BY DEF Keeps

LEMMA KeepsManaged ==
  ASSUME NEW s, NEW t, Keeps(s, t)
  PROVE  Good(t) /\ Managed(t) = Managed(s)
  BY DEF Keeps, Managed

LEMMA SameListsKeep ==
  ASSUME NEW s, Good(s), NEW t, Well(t), SameLists(s, t)
  PROVE  Keeps(s, t)
  BY DEF Good, Keeps, SameLists, Consistent, AllTagged

\* A managed client is a window on the list of its own monitor.
LEMMA ManagedLemma ==
  ASSUME NEW s, Good(s), NEW c \in Managed(s)
  PROVE  /\ c \in Win /\ c # NULL /\ s.mon[c] \in Mon
         /\ c \in Range(s.clients[s.mon[c]])
         /\ c \in Range(s.stack[s.mon[c]])
<1>1. PICK m \in Mon : c \in Range(s.clients[m])
  BY DEF Managed
<1>2. s.clients[m] \in Seq(Win)
  BY DEF Good, Well, State
<1>3. c \in Win
  BY <1>1, <1>2 DEF Range
<1>4. s.mon[c] = m
  BY <1>1 DEF Good, Consistent
<1> QED BY <1>1, <1>3, <1>4 DEF Good, Consistent

-----------------------------------------------------------------------------
(* Requests, and fields that the lists do not depend on.                   *)

LEMMA XUnmapWindowLemma ==
  ASSUME NEW s, Good(s), NEW c \in Win
  PROVE  Keeps(s, XUnmapWindow(s, c))
<1>1. Well(XUnmapWindow(s, c)) /\ SameLists(s, XUnmapWindow(s, c))
  BY ZenonT(60) DEF Good, Well, State, XUnmapWindow, SameLists, WinOrNull
<1> QED BY <1>1, SameListsKeep

LEMMA FocusRootLemma ==
  ASSUME NEW s, Good(s)
  PROVE  Keeps(s, FocusRoot(s))
<1>1. Well(FocusRoot(s)) /\ SameLists(s, FocusRoot(s))
  BY DEF Good, Well, State, FocusRoot, SameLists, WinOrNull
<1> QED BY <1>1, SameListsKeep

LEMMA SetclientstateLemma ==
  ASSUME NEW s, Good(s), NEW c \in Win,
         NEW state \in {"Withdrawn", "Normal", "Iconic"}
  PROVE  Keeps(s, setclientstate(s, c, state))
<1>1. Well(setclientstate(s, c, state)) /\ SameLists(s, setclientstate(s, c, state))
  BY DEF Good, Well, State, setclientstate, SameLists
<1> QED BY <1>1, SameListsKeep

LEMMA UnfocusLemma ==
  ASSUME NEW s, Good(s), NEW c, NEW b
  PROVE  Keeps(s, unfocus(s, c, b))
  BY FocusRootLemma, KeepsSelf DEF unfocus

LEMMA SetfocusLemma ==
  ASSUME NEW s, Good(s), NEW c \in Win
  PROVE  Keeps(s, setfocus(s, c))
<1>1. Well(XSetInputFocus(s, c)) /\ SameLists(s, XSetInputFocus(s, c))
  BY DEF Good, Well, State, XSetInputFocus, SameLists, WinOrNull
<1>2. Keeps(s, XSetInputFocus(s, c))
  BY <1>1, SameListsKeep
<1> DEFINE x == XSetInputFocus(s, c)
           t == [x EXCEPT !.active = c]
<1>3. Good(x)
  BY <1>2 DEF Keeps
<1> HIDE DEF x
<1>4. Well(t) /\ SameLists(x, t)
  BY <1>3 DEF Good, Well, State, SameLists, WinOrNull
<1>5. Keeps(x, t)
  BY <1>3, <1>4, SameListsKeep
<1>6. Keeps(s, t)
  BY <1>2, <1>5, KeepsTrans DEF x
<1> QED BY <1>6, KeepsSelf DEF setfocus, x

LEMMA RestackLemma ==
  ASSUME NEW s, Good(s), NEW m
  PROVE  Keeps(s, restack(s, m)) /\ Keeps(s, arrange(s, m))
<1> DEFINE t == [s EXCEPT !.enterq = NULL]
<1>1. Well(t) /\ SameLists(s, t)
  BY DEF Good, Well, State, SameLists, WinOrNull
<1> QED BY <1>1, SameListsKeep, KeepsSelf DEF restack, arrange

LEMMA StripLemma ==
  ASSUME NEW s, Good(s), NEW x \in SUBSET Win
  PROVE  Keeps(s, [s EXCEPT !.strip = x])
<1>1. Well([s EXCEPT !.strip = x]) /\ SameLists(s, [s EXCEPT !.strip = x])
  BY DEF Good, Well, State, SameLists
<1> QED BY <1>1, SameListsKeep

LEMMA HidselLemma ==
  ASSUME NEW s, Good(s), NEW m \in Mon, NEW b \in BOOLEAN
  PROVE  Keeps(s, [s EXCEPT !.hidsel[m] = b])
<1>1. Well([s EXCEPT !.hidsel[m] = b]) /\ SameLists(s, [s EXCEPT !.hidsel[m] = b])
  BY DEF Good, Well, State, SameLists
<1> QED BY <1>1, SameListsKeep

LEMMA SelmonLemma ==
  ASSUME NEW s, Good(s), NEW m \in Mon
  PROVE  Keeps(s, [s EXCEPT !.selmon = m])
<1>1. Well([s EXCEPT !.selmon = m]) /\ SameLists(s, [s EXCEPT !.selmon = m])
  BY DEF Good, Well, State, SameLists
<1> QED BY <1>1, SameListsKeep

LEMMA ModeLemma ==
  ASSUME NEW s, Good(s), NEW c \in Win, NEW x \in Modes
  PROVE  Keeps(s, [s EXCEPT !.mode[c] = x])
<1>1. Well([s EXCEPT !.mode[c] = x]) /\ SameLists(s, [s EXCEPT !.mode[c] = x])
  BY DEF Good, Well, State, SameLists
<1> QED BY <1>1, SameListsKeep

LEMMA SeturgentLemma ==
  ASSUME NEW s, Good(s), NEW c \in Win, NEW b
  PROVE  Keeps(s, seturgent(s, c, b))
<1>1. Well(seturgent(s, c, b)) /\ SameLists(s, seturgent(s, c, b))
  BY ZenonT(60) DEF Good, Well, State, SameLists, seturgent
<1> QED BY <1>1, SameListsKeep

-----------------------------------------------------------------------------
(* Hiding and showing.                                                     *)

LEMMA HidewinLemma ==
  ASSUME NEW s, Good(s), NEW c \in WinOrNull
  PROVE  Keeps(s, hidewin(s, c))
<1>1. CASE c = NULL \/ HIDDEN(s, c)
  BY <1>1, KeepsSelf DEF hidewin
<1>2. CASE c # NULL /\ ~HIDDEN(s, c)
  <2> DEFINE x == XUnmapWindow(s, c)
             y == [x EXCEPT !.strip = x.strip \ {c}]
  <2>1. c \in Win
    BY <1>2 DEF WinOrNull
  <2>2. Keeps(s, x)
    BY <2>1, XUnmapWindowLemma
  <2>3. Good(x) /\ x.strip \ {c} \in SUBSET Win
    BY <2>2 DEF Keeps, Good, Well, State
  <2> HIDE DEF x
  <2>4. Keeps(x, y)
    BY <2>3, StripLemma
  <2>5. Good(y)
    BY <2>4 DEF Keeps
  <2>6. y = [x EXCEPT !.strip = @ \ {c}]
    OBVIOUS
  <2> HIDE DEF y
  <2>7. Keeps(y, setclientstate(y, c, "Iconic"))
    BY <2>1, <2>5, SetclientstateLemma
  <2>8. hidewin(s, c) = setclientstate(y, c, "Iconic")
    BY <1>2, <2>6 DEF hidewin, x
  <2> QED BY <2>2, <2>4, <2>7, <2>8, KeepsTrans
<1> QED BY <1>1, <1>2

\* XMapWindow on a window that is iconic, and the WM_STATE that goes with it.
LEMMA ShowwinLemma ==
  ASSUME NEW s, Good(s), NEW c \in WinOrNull
  PROVE  Keeps(s, showwin(s, c))
<1>1. CASE c = NULL \/ ~HIDDEN(s, c)
  BY <1>1, KeepsSelf DEF showwin
<1>2. CASE c # NULL /\ HIDDEN(s, c)
  <2> DEFINE t == [s EXCEPT !.mapped = @ \cup {c}, !.strip = @ \cup {c},
                            !.wmstate[c] = "Normal"]
  <2>1. c \in Win /\ c \in s.alive
    BY <1>2 DEF WinOrNull, HIDDEN, Good, Well
  <2>2. Well(t) /\ SameLists(s, t)
    BY <2>1, ZenonT(60) DEF Good, Well, State, SameLists
  <2>3. Keeps(s, t)
    BY <2>2, SameListsKeep
  <2>4. Good(t)
    BY <2>3 DEF Keeps
  <2> HIDE DEF t
  <2>5. Keeps(t, arrange(t, s.mon[c]))
    BY <2>4, RestackLemma
  <2>6. showwin(s, c) = arrange(t, s.mon[c])
    BY <1>2 DEF showwin, t
  <2> QED BY <2>3, <2>5, <2>6, KeepsTrans
<1> QED BY <1>1, <1>2

-----------------------------------------------------------------------------
(* Lists.                                                                  *)

\* Selecting a client of the monitor, or nothing.
LEMMA SelLemma ==
  ASSUME NEW s, Good(s), NEW m \in Mon, NEW c \in Range(s.clients[m]) \cup {NULL}
  PROVE  Keeps(s, [s EXCEPT !.sel[m] = c])
<1> DEFINE t == [s EXCEPT !.sel[m] = c]
<1>1. c \in WinOrNull
  <2>1. s.clients[m] \in Seq(Win)
    BY DEF Good, Well, State
  <2> QED BY <2>1 DEF Range, WinOrNull
<1>2. Well(t)
  BY <1>1 DEF Good, Well, State
<1>3. Consistent(t)
  <2>1. /\ t.clients = s.clients /\ t.stack = s.stack /\ t.mon = s.mon
        /\ t.sel = [s.sel EXCEPT ![m] = c]
    BY DEF Good, Well, State
  <2>2. s.sel \in [Mon -> WinOrNull]
    BY DEF Good, Well, State
  <2> HIDE DEF t
  <2> QED BY <2>1, <2>2 DEF Good, Consistent
<1>4. /\ t.clients = s.clients /\ t.mon = s.mon /\ t.list = s.list
      /\ t.alive = s.alive /\ t.tags = s.tags
  BY DEF Good, Well, State
<1> HIDE DEF t
<1>5. AllTagged(t)
  BY <1>4 DEF Good, AllTagged
<1>6. Keeps(s, t)
  BY <1>2, <1>3, <1>4, <1>5 DEF Keeps, Good
<1> QED BY <1>6 DEF t

\* detachstack leaves a client of the stack, or nothing, selected.
LEMMA DetachstackLemma ==
  ASSUME NEW s, Well(s), NEW c \in Win, IsInjective(s.stack[s.mon[c]]),
         s.sel[s.mon[c]] \in Range(s.stack[s.mon[c]]) \cup {NULL}
  PROVE  LET t == detachstack(s, c)
             m == s.mon[c]
         IN  /\ Well(t)
             /\ t.clients = s.clients /\ t.mon = s.mon /\ t.tags = s.tags
             /\ t.list = s.list /\ t.alive = s.alive /\ t.selmon = s.selmon
             /\ t.stack = [s.stack EXCEPT ![m] = Unlink(s.stack[m], c)]
             /\ t.sel \in [Mon -> WinOrNull]
             /\ t.sel[m] \in (Range(s.stack[m]) \ {c}) \cup {NULL}
             /\ \A k \in Mon \ {m} : t.sel[k] = s.sel[k]
<1> DEFINE t    == detachstack(s, c)
           m    == s.mon[c]
           rest == Unlink(s.stack[m], c)
           x    == FirstIn(rest, VisibleOn(s, m))
           y    == IF s.sel[m] = c THEN x ELSE s.sel[m]
<1>1. m \in Mon /\ c # NULL
  BY DEF Well, State
<1>2. s.stack[m] \in Seq(Win) /\ s.stack \in [Mon -> Seq(Win)]
      /\ s.sel \in [Mon -> WinOrNull]
  BY <1>1 DEF Well, State
<1>3. /\ rest \in Seq(Win)
      /\ Range(rest) = Range(s.stack[m]) \ {c}
  BY <1>1, <1>2, UnlinkLemma
<1>4. x \in Range(rest) \cup {NULL}
  <2>1. Len(rest) \in Nat /\ DOMAIN rest = 1 .. Len(rest)
    BY <1>3
  <2> QED BY <2>1, FirstFromLemma DEF FirstIn
<1>5. y \in (Range(s.stack[m]) \ {c}) \cup {NULL}
  BY <1>1, <1>3, <1>4
<1>6. y \in WinOrNull
  BY <1>2, <1>5, SMTT(30) DEF WinOrNull, Range
<1>7. t = [s EXCEPT !.stack[m] = rest, !.sel[m] = y]
  BY <1>1 DEF detachstack, Well, State
<1> HIDE DEF rest, x, y, t
<1>8. /\ Well(t)
      /\ t.clients = s.clients /\ t.mon = s.mon /\ t.list = s.list
      /\ t.tags = s.tags /\ t.alive = s.alive /\ t.selmon = s.selmon
      /\ t.stack = [s.stack EXCEPT ![m] = rest]
      /\ t.sel = [s.sel EXCEPT ![m] = y]
  BY <1>1, <1>3, <1>6, <1>7 DEF Well, State
<1> QED BY <1>1, <1>2, <1>5, <1>6, <1>8 DEF t, rest

\* The client goes to the top of the focus stack (second half of focus).
LEMMA RaiseLemma ==
  ASSUME NEW s, Good(s), NEW c \in Managed(s)
  PROVE  LET t == attachstack(detachstack(s, c), c)
         IN  Keeps(s, t) /\ t.selmon = s.selmon
<1> DEFINE d == detachstack(s, c)
           t == attachstack(d, c)
           m == s.mon[c]
<1>1. m \in Mon /\ c \in Win /\ c # NULL /\ c \in Range(s.stack[m])
  BY ManagedLemma
<1>2. /\ Well(d)
      /\ d.clients = s.clients /\ d.mon = s.mon /\ d.tags = s.tags
      /\ d.list = s.list /\ d.alive = s.alive
      /\ d.stack = [s.stack EXCEPT ![m] = Unlink(s.stack[m], c)]
      /\ d.sel \in [Mon -> WinOrNull]
      /\ d.sel[m] \in (Range(s.stack[m]) \ {c}) \cup {NULL}
      /\ \A k \in Mon \ {m} : d.sel[k] = s.sel[k]
      /\ d.selmon = s.selmon
  BY <1>1, DetachstackLemma DEF Good, Consistent
<1>3. d.selmon = s.selmon
  BY <1>2
<1> HIDE DEF d
<1>4. s.stack \in [Mon -> Seq(Win)] /\ s.stack[m] \in Seq(Win)
  BY <1>1 DEF Good, Well, State
<1>5. /\ d.stack[m] \in Seq(Win) /\ IsInjective(d.stack[m])
      /\ Range(d.stack[m]) = Range(s.stack[m]) \ {c}
  BY <1>1, <1>2, <1>4, UnlinkLemma DEF Good, Consistent
<1> DEFINE p == Push(c, d.stack[m])
<1>6. /\ p \in Seq(Win) /\ IsInjective(p)
      /\ Range(p) = Range(s.stack[m])
  <2>1. c \notin Range(d.stack[m])
    BY <1>5
  <2>2. /\ p \in Seq(Win) /\ IsInjective(p)
        /\ Range(p) = Range(d.stack[m]) \cup {c}
    BY <1>1, <1>5, <2>1, PushLemma
  <2> HIDE DEF p
  <2> QED BY <1>1, <1>5, <2>2
<1>7. t = [d EXCEPT !.stack[m] = p]
  BY <1>1, <1>2 DEF attachstack, Well, State
<1> HIDE DEF p, t
<1>8. /\ Well(t) /\ t.clients = s.clients /\ t.mon = s.mon /\ t.tags = s.tags
      /\ t.list = s.list /\ t.alive = s.alive /\ t.sel = d.sel
      /\ t.stack = [d.stack EXCEPT ![m] = p] /\ t.selmon = s.selmon
  BY <1>1, <1>2, <1>3, <1>6, <1>7 DEF Well, State
<1>9. Consistent(t)
  <2> SUFFICES ASSUME NEW k \in Mon
               PROVE  /\ IsInjective(t.clients[k]) /\ IsInjective(t.stack[k])
                      /\ Range(t.clients[k]) = Range(t.stack[k])
                      /\ \A e \in Range(t.clients[k]) : t.mon[e] = k
                      /\ t.sel[k] \in Range(t.clients[k]) \cup {NULL}
    BY DEF Consistent
  <2>1. CASE k = m
    <3>1. t.stack[k] = p
      BY <1>1, <1>2, <1>4, <1>8, <2>1
    <3> QED BY <1>2, <1>6, <1>8, <2>1, <3>1 DEF Good, Consistent
  <2>2. CASE k # m
    <3>1. t.stack[k] = s.stack[k] /\ t.sel[k] = s.sel[k]
      BY <1>1, <1>2, <1>4, <1>8, <2>2
    <3> QED BY <1>8, <3>1 DEF Good, Consistent
  <2> QED BY <2>1, <2>2
<1> QED BY <1>8, <1>9 DEF Keeps, Good, AllTagged, t, d

LEMMA FocusTargetLemma ==
  ASSUME NEW s, Good(s), NEW c \in Managed(s) \cup {NULL}
  PROVE  FocusTarget(s, c) \in Managed(s) \cup {NULL}
<1>1. CASE c # NULL /\ ISVISIBLE(s, c)
  BY <1>1 DEF FocusTarget
<1>2. CASE ~(c # NULL /\ ISVISIBLE(s, c))
  <2> DEFINE seq == s.stack[s.selmon]
  <2>1. s.selmon \in Mon /\ seq \in Seq(Win)
    BY DEF Good, Well, State
  <2>2. Len(seq) \in Nat /\ DOMAIN seq = 1 .. Len(seq)
    BY <2>1
  <2>3. FirstIn(seq, ShownOn(s, s.selmon)) \in Range(seq) \cup {NULL}
    BY <2>2, FirstFromLemma DEF FirstIn
  <2>4. Range(seq) \subseteq Managed(s)
    BY <2>1 DEF Good, Consistent, Managed
  <2> QED BY <1>2, <2>3, <2>4 DEF FocusTarget
<1> QED BY <1>1, <1>2

LEMMA LeaveSelectedLemma ==
  ASSUME NEW s, Good(s), NEW c \in Managed(s) \cup {NULL}
  PROVE  Keeps(s, LeaveSelected(s, c))
<1> DEFINE m == s.selmon
           h == hidewin(s, s.sel[m])
           a == IF c = NULL THEN h ELSE arrange(h, h.mon[c])
<1>1. m \in Mon /\ s.sel[m] \in WinOrNull
  BY DEF Good, Well, State
<1>2. Keeps(s, h)
  BY <1>1, HidewinLemma
<1>3. Good(h)
  BY <1>2 DEF Keeps
<1> HIDE DEF h
<1>4. Keeps(h, a)
  BY <1>3, RestackLemma, KeepsSelf
<1>5. Good(a)
  BY <1>4 DEF Keeps
<1>6. LeaveSelected(s, c) \in {s, [a EXCEPT !.hidsel[m] = FALSE]}
  BY DEF LeaveSelected, h
<1> HIDE DEF a, m
<1>7. Keeps(a, [a EXCEPT !.hidsel[m] = FALSE])
  BY <1>1, <1>5, HidselLemma
<1>8. Keeps(s, [a EXCEPT !.hidsel[m] = FALSE])
  BY <1>2, <1>4, <1>7, KeepsTrans
<1> QED BY <1>6, <1>8, KeepsSelf

LEMMA SelectLemma ==
  ASSUME NEW s, Good(s), NEW c \in Managed(s) \cup {NULL}
  PROVE  Keeps(s, Select(s, c))
<1>1. CASE c = NULL
  <2> DEFINE r == FocusRoot(s)
  <2>1. Keeps(s, r)
    BY FocusRootLemma
  <2>2. Good(r)
    BY <2>1 DEF Keeps
  <2>3. s.selmon \in Mon
    BY DEF Good, Well, State
  <2> HIDE DEF r
  <2>4. Keeps(r, [r EXCEPT !.sel[s.selmon] = NULL])
    BY <2>2, <2>3, SelLemma
  <2> QED BY <1>1, <2>1, <2>4, KeepsTrans DEF Select, r
<1>2. CASE c # NULL
  <2> DEFINE m == s.mon[c]
             u == IF c \in s.urgent THEN seturgent(s, c, FALSE) ELSE s
             v == [u EXCEPT !.selmon = m]
             t == attachstack(detachstack(v, c), c)
             f == setfocus(t, c)
  <2>1. c \in Win /\ m \in Mon /\ c \in Range(s.clients[m]) /\ c \in Managed(s)
    BY <1>2, ManagedLemma
  <2>2. Keeps(s, u)
    BY <2>1, SeturgentLemma, KeepsSelf
  <2>3. Good(u)
    BY <2>2 DEF Keeps
  <2> HIDE DEF u
  <2>4. Keeps(u, v)
    BY <2>1, <2>3, SelmonLemma
  <2>5. Keeps(s, v)
    BY <2>2, <2>4, KeepsTrans
  <2>6. Good(v) /\ c \in Managed(v)
    BY <2>1, <2>5, KeepsManaged
  <2> HIDE DEF v
  <2>7. Keeps(v, t)
    BY <2>6, RaiseLemma
  <2>8. Good(t)
    BY <2>7 DEF Keeps
  <2> HIDE DEF t
  <2>9. Keeps(t, f)
    BY <2>1, <2>8, SetfocusLemma
  <2>10. Keeps(s, f)
    BY <2>5, <2>7, <2>9, KeepsTrans
  <2>11. Good(f) /\ c \in Range(f.clients[m]) \cup {NULL}
    BY <2>1, <2>10 DEF Keeps
  <2> HIDE DEF f
  <2>12. Keeps(f, [f EXCEPT !.sel[m] = c])
    BY <2>1, <2>11, SelLemma
  <2>13. Select(s, c) = [f EXCEPT !.sel[m] = c]
    BY <1>2 DEF Select, u, v, t, f
  <2> HIDE DEF m
  <2> QED BY <2>10, <2>12, <2>13, KeepsTrans
<1> QED BY <1>1, <1>2

\* focus() keeps every list but the order of the focus stacks.
LEMMA FocusLemma ==
  ASSUME NEW s, Good(s), NEW c \in Managed(s) \cup {NULL}
  PROVE  Keeps(s, focus(s, c))
<1> DEFINE g == FocusTarget(s, c)
           l == LeaveSelected(s, g)
<1>1. g \in Managed(s) \cup {NULL}
  BY FocusTargetLemma
<1> HIDE DEF g
<1>2. Keeps(s, l)
  BY <1>1, LeaveSelectedLemma
<1>3. Good(l) /\ g \in Managed(l) \cup {NULL}
  BY <1>1, <1>2, KeepsManaged
<1> HIDE DEF l
<1>4. Keeps(l, Select(l, g))
  BY <1>3, SelectLemma
<1> QED BY <1>2, <1>4, KeepsTrans DEF focus, g, l

\* A client leaves both lists of its monitor (unmanage, sendmon).
LEMMA RemoveLemma ==
  ASSUME NEW s, Good(s), NEW c \in Managed(s)
  PROVE  LET t == detachstack(detach(s, c), c)
         IN  /\ Good(t) /\ Managed(t) = Managed(s) \ {c}
             /\ t.list = s.list /\ t.alive = s.alive /\ t.mon = s.mon
<1> DEFINE d == detach(s, c)
           t == detachstack(d, c)
           m == s.mon[c]
           u == Unlink(s.clients[m], c)
<1>1. /\ m \in Mon /\ c \in Win /\ c # NULL
      /\ c \in Range(s.stack[m]) /\ c \in Range(s.clients[m])
  BY ManagedLemma
<1>2. s.clients[m] \in Seq(Win) /\ s.clients \in [Mon -> Seq(Win)]
      /\ s.stack[m] \in Seq(Win) /\ s.stack \in [Mon -> Seq(Win)]
  BY <1>1 DEF Good, Well, State
<1>3. u \in Seq(Win) /\ IsInjective(u) /\ Range(u) = Range(s.clients[m]) \ {c}
  BY <1>1, <1>2, UnlinkLemma DEF Good, Consistent
<1>4. d = [s EXCEPT !.clients[m] = u]
  BY <1>1 DEF detach, Good, Well, State
<1> HIDE DEF u, d
<1>5. /\ Well(d) /\ d.stack = s.stack /\ d.sel = s.sel /\ d.mon = s.mon
      /\ d.tags = s.tags /\ d.list = s.list /\ d.alive = s.alive
      /\ d.clients = [s.clients EXCEPT ![m] = u]
  BY <1>1, <1>3, <1>4 DEF Good, Well, State
<1>6. /\ Well(t)
      /\ t.clients = d.clients /\ t.mon = s.mon /\ t.tags = s.tags
      /\ t.list = s.list /\ t.alive = s.alive
      /\ t.stack = [s.stack EXCEPT ![m] = Unlink(s.stack[m], c)]
      /\ t.sel \in [Mon -> WinOrNull]
      /\ t.sel[m] \in (Range(s.stack[m]) \ {c}) \cup {NULL}
      /\ \A k \in Mon \ {m} : t.sel[k] = s.sel[k]
  <2>1. /\ IsInjective(s.stack[m]) /\ s.sel[m] \in Range(s.stack[m]) \cup {NULL}
    BY <1>1 DEF Good, Consistent
  <2>2. IsInjective(d.stack[d.mon[c]])
    BY <1>5, <2>1
  <2>3. d.sel[d.mon[c]] \in Range(d.stack[d.mon[c]]) \cup {NULL}
    BY <1>5, <2>1
  <2> HIDE DEF t, m
  <2>4. /\ Well(detachstack(d, c))
        /\ detachstack(d, c).clients = d.clients /\ detachstack(d, c).mon = d.mon
        /\ detachstack(d, c).tags = d.tags
        /\ detachstack(d, c).list = d.list /\ detachstack(d, c).alive = d.alive
        /\ detachstack(d, c).stack
             = [d.stack EXCEPT ![d.mon[c]] = Unlink(d.stack[d.mon[c]], c)]
        /\ detachstack(d, c).sel \in [Mon -> WinOrNull]
        /\ detachstack(d, c).sel[d.mon[c]] \in (Range(d.stack[d.mon[c]]) \ {c}) \cup {NULL}
        /\ \A k \in Mon \ {d.mon[c]} : detachstack(d, c).sel[k] = d.sel[k]
    BY <1>1, <1>5, <2>2, <2>3, DetachstackLemma
  <2> QED BY <1>5, <2>4 DEF t, m
<1> HIDE DEF t
<1>7. /\ t.stack[m] = Unlink(s.stack[m], c) /\ t.clients[m] = u
      /\ \A k \in Mon \ {m} : t.stack[k] = s.stack[k] /\ t.clients[k] = s.clients[k]
  BY <1>1, <1>2, <1>5, <1>6
<1>8. IsInjective(t.stack[m]) /\ Range(t.stack[m]) = Range(s.stack[m]) \ {c}
  BY <1>1, <1>2, <1>7, UnlinkLemma DEF Good, Consistent
<1>9. Consistent(t)
  <2> SUFFICES ASSUME NEW k \in Mon
               PROVE  /\ IsInjective(t.clients[k]) /\ IsInjective(t.stack[k])
                      /\ Range(t.clients[k]) = Range(t.stack[k])
                      /\ \A e \in Range(t.clients[k]) : t.mon[e] = k
                      /\ t.sel[k] \in Range(t.clients[k]) \cup {NULL}
    BY DEF Consistent
  <2>1. CASE k = m
    <3>1. Range(s.clients[m]) = Range(s.stack[m])
      BY <1>1 DEF Good, Consistent
    <3>2. \A e \in Range(t.clients[m]) : t.mon[e] = m
      BY <1>1, <1>3, <1>6, <1>7 DEF Good, Consistent
    <3> QED BY <1>3, <1>6, <1>7, <1>8, <2>1, <3>1, <3>2
  <2>2. CASE k # m
    BY <1>6, <1>7, <2>2 DEF Good, Consistent
  <2> QED BY <2>1, <2>2
<1>10. Managed(t) = Managed(s) \ {c} /\ AllTagged(t)
  <2>1. \A k \in Mon : c \in Range(s.clients[k]) => k = m
    BY DEF Good, Consistent
  <2>2. \A k \in Mon : Range(t.clients[k]) = Range(s.clients[k]) \ {c}
    BY <1>3, <1>7, <2>1
  <2>3. AllTagged(t)
    BY <1>6, <2>2 DEF Good, AllTagged
  <2> QED BY <2>2, <2>3 DEF Managed
<1> QED BY <1>6, <1>9, <1>10 DEF Good, d, t

\* A new client joins both lists of its monitor (manage, sendmon).
LEMMA AddLemma ==
  ASSUME NEW s, Good(s), NEW c \in Win \ Managed(s), s.tags[c] # {}
  PROVE  LET t == attachstack(attach(s, c), c)
         IN  /\ Good(t) /\ Managed(t) = Managed(s) \cup {c}
             /\ c \in Range(t.clients[t.mon[c]])
             /\ t.list = s.list /\ t.alive = s.alive /\ t.mon = s.mon
<1> DEFINE m == s.mon[c]
           p == Push(c, s.clients[m])
           q == Push(c, s.stack[m])
           t == attachstack(attach(s, c), c)
<1>1. m \in Mon
  BY DEF Good, Well, State
<1>2. c \notin Range(s.clients[m]) /\ c \notin Range(s.stack[m])
  BY <1>1 DEF Managed, Good, Consistent
<1>3. /\ s.clients \in [Mon -> Seq(Win)] /\ s.stack \in [Mon -> Seq(Win)]
      /\ s.clients[m] \in Seq(Win) /\ s.stack[m] \in Seq(Win)
  BY <1>1 DEF Good, Well, State
<1>4. /\ p \in Seq(Win) /\ IsInjective(p)
      /\ Range(p) = Range(s.clients[m]) \cup {c}
  BY <1>1, <1>2, <1>3, PushLemma DEF Good, Consistent
<1>5. /\ q \in Seq(Win) /\ IsInjective(q)
      /\ Range(q) = Range(s.stack[m]) \cup {c}
  BY <1>1, <1>2, <1>3, PushLemma DEF Good, Consistent
<1>6. t = [s EXCEPT !.clients[m] = p, !.stack[m] = q]
  BY <1>1 DEF attach, attachstack, Good, Well, State
<1> HIDE DEF p, q, t
<1>7. /\ Well(t) /\ t.mon = s.mon /\ t.sel = s.sel /\ t.tags = s.tags
      /\ t.list = s.list /\ t.alive = s.alive
      /\ t.clients = [s.clients EXCEPT ![m] = p]
      /\ t.stack = [s.stack EXCEPT ![m] = q]
  BY <1>1, <1>4, <1>5, <1>6 DEF Good, Well, State
<1>8. /\ t.clients[m] = p /\ t.stack[m] = q
      /\ \A k \in Mon \ {m} : t.stack[k] = s.stack[k] /\ t.clients[k] = s.clients[k]
  BY <1>1, <1>3, <1>7
<1>9. Consistent(t)
  <2> SUFFICES ASSUME NEW k \in Mon
               PROVE  /\ IsInjective(t.clients[k]) /\ IsInjective(t.stack[k])
                      /\ Range(t.clients[k]) = Range(t.stack[k])
                      /\ \A e \in Range(t.clients[k]) : t.mon[e] = k
                      /\ t.sel[k] \in Range(t.clients[k]) \cup {NULL}
    BY DEF Consistent
  <2>1. CASE k = m
    <3>1. Range(s.clients[m]) = Range(s.stack[m])
          /\ s.sel[m] \in Range(s.clients[m]) \cup {NULL}
      BY <1>1 DEF Good, Consistent
    <3>2. \A e \in Range(t.clients[m]) : t.mon[e] = m
      BY <1>1, <1>4, <1>7, <1>8 DEF Good, Consistent
    <3> QED BY <1>4, <1>5, <1>7, <1>8, <2>1, <3>1, <3>2
  <2>2. CASE k # m
    BY <1>7, <1>8, <2>2 DEF Good, Consistent
  <2> QED BY <2>1, <2>2
<1>10. Managed(t) = Managed(s) \cup {c}
  BY <1>1, <1>4, <1>8 DEF Managed
<1>11. AllTagged(t)
  <2> SUFFICES ASSUME NEW k \in Mon, NEW e \in Range(t.clients[k])
               PROVE  t.tags[e] # {}
    BY DEF AllTagged
  <2>1. e = c \/ e \in Range(s.clients[k])
    BY <1>4, <1>8
  <2> QED BY <1>7, <2>1 DEF Good, AllTagged
<1> QED BY <1>4, <1>7, <1>8, <1>9, <1>10, <1>11 DEF Good, t

\* The lists stay, and so does what is read of the clients on them.
LEMMA UnseenLemma ==
  ASSUME NEW s, Good(s), NEW t, Well(t), t.clients = s.clients, t.stack = s.stack,
         t.sel = s.sel,
         \A e \in Managed(s) : t.mon[e] = s.mon[e] /\ t.tags[e] = s.tags[e]
  PROVE  Good(t) /\ Managed(t) = Managed(s)
<1>1. \A k \in Mon : \A e \in Range(s.clients[k]) :
        t.mon[e] = s.mon[e] /\ t.tags[e] = s.tags[e]
  BY DEF Managed
<1>2. Consistent(t)
  BY <1>1 DEF Good, Consistent
<1>3. AllTagged(t)
  BY <1>1 DEF Good, AllTagged
<1> QED BY <1>2, <1>3 DEF Good, Managed

\* The monitor and the tags of a window that is not managed may change.
LEMMA MonLemma ==
  ASSUME NEW s, Good(s), NEW c \in Win \ Managed(s), NEW m, NEW g,
         NEW t, Well(t), t.clients = s.clients, t.stack = s.stack,
         t.sel = s.sel, t.mon = [s.mon EXCEPT ![c] = m],
         t.tags = [s.tags EXCEPT ![c] = g]
  PROVE  Good(t) /\ Managed(t) = Managed(s)
<1>1. s.mon \in [Win -> Mon] /\ s.tags \in [Win -> SUBSET Tag]
  BY DEF Good, Well, State
<1>2. \A e \in Managed(s) : t.mon[e] = s.mon[e] /\ t.tags[e] = s.tags[e]
  BY <1>1, ManagedLemma
<1> QED BY <1>2, UnseenLemma

-----------------------------------------------------------------------------
(* Managing, unmanaging and moving clients.                                *)

\* What moving a client does: the same windows are managed.
Moves(s, t) ==
  /\ Good(t) /\ Managed(t) = Managed(s)
  /\ t.list = s.list /\ t.alive = s.alive

LEMMA KeepsMoves ==
  ASSUME NEW s, NEW t, Keeps(s, t)
  PROVE  Moves(s, t)
  BY KeepsManaged DEF Keeps, Moves

LEMMA MovesTrans ==
  ASSUME NEW s, NEW t, NEW u, Moves(s, t), Moves(t, u)
  PROVE  Moves(s, u)
  BY DEF Moves

LEMMA ModesType ==
  ASSUME NEW w, NEW s
  PROVE  ManagedMode(s, w) \in Modes
<1> DEFINE rule  == w \in FloatRule /\ TransientFor[w] \notin Managed(s)
           full  == w \in s.fsprop
           float == rule \/ full \/ TransientFor[w] # NULL
           old   == IF full THEN rule ELSE ~rule /\ TransientFor[w] # NULL
<1>1. ManagedMode(s, w) = [NoMode EXCEPT !.full = full, !.float = float, !.old = old]
  BY DEF ManagedMode
<1>2. full \in BOOLEAN
  OBVIOUS
<1>3. float \in BOOLEAN
  OBVIOUS
<1>4. old \in BOOLEAN
  <2>1. CASE w \in s.fsprop
    <3>1. old = rule
      BY <2>1
    <3> HIDE DEF old
    <3> QED BY <3>1
  <2>2. CASE w \notin s.fsprop
    <3>1. old = (~rule /\ TransientFor[w] # NULL)
      BY <2>2
    <3> HIDE DEF old
    <3> QED BY <3>1
  <2> QED BY <2>1, <2>2
<1> HIDE DEF full, float, old
<1> QED BY <1>1, <1>2, <1>3, <1>4 DEF NoMode, Modes

\* manage() up to its call of focus(NULL).
Joined(s, w) ==
  LET t == TransientFor[w]
      m == IF t \in Managed(s) THEN s.mon[t] ELSE s.selmon
      g == IF t \in Managed(s) THEN s.tags[t] ELSE View(s, s.selmon)
      i == [s EXCEPT !.mon[w] = m, !.tags[w] = g,
                     !.mode[w] = ManagedMode(s, w),
                     !.urgent = IF w \in s.hint THEN @ \cup {w} ELSE @ \ {w},
                     !.list = @ \cup {w}]
      a == attachstack(attach(i, w), w)
      n == IF HIDDEN(a, w) THEN a ELSE setclientstate(a, w, "Normal")
      b == arrange([n EXCEPT !.sel[m] = w], m)
  IN  IF HIDDEN(b, w) THEN b
      ELSE [b EXCEPT !.mapped = @ \cup {w}, !.strip = @ \cup {w}]

LEMMA ManageJoined ==
  ASSUME NEW s, NEW w
  PROVE  manage(s, w) = focus(Joined(s, w), NULL)
  BY DEF manage, Joined

LEMMA JoinedLemma ==
  ASSUME NEW s, Good(s), NEW w \in s.alive \ Managed(s)
  PROVE  LET t == Joined(s, w)
         IN  /\ Good(t) /\ Managed(t) = Managed(s) \cup {w}
             /\ t.list = s.list \cup {w} /\ t.alive = s.alive
<1> DEFINE tr == TransientFor[w]
           m == IF tr \in Managed(s) THEN s.mon[tr] ELSE s.selmon
           g == IF tr \in Managed(s) THEN s.tags[tr] ELSE View(s, s.selmon)
           i == [s EXCEPT !.mon[w] = m, !.tags[w] = g,
                          !.mode[w] = ManagedMode(s, w),
                          !.urgent = IF w \in s.hint THEN @ \cup {w} ELSE @ \ {w},
                          !.list = @ \cup {w}]
           a == attachstack(attach(i, w), w)
           n == IF HIDDEN(a, w) THEN a ELSE setclientstate(a, w, "Normal")
           e == [n EXCEPT !.sel[m] = w]
           b == arrange(e, m)
           x == [b EXCEPT !.mapped = @ \cup {w}, !.strip = @ \cup {w}]
           p == IF HIDDEN(b, w) THEN b ELSE x
<1>1. w \in Win /\ w \notin Managed(s)
  BY DEF Good, Well, State
<1>2. m \in Mon /\ g \in SUBSET Tag /\ g # {}
  <2>1. CASE tr \in Managed(s)
    <3>1. tr \in Win
      BY <2>1, ManagedLemma
    <3>2. s.tags[tr] # {}
      BY <2>1 DEF Managed, Good, AllTagged
    <3> QED BY <2>1, <3>1, <3>2 DEF Good, Well, State
  <2>2. CASE tr \notin Managed(s)
    <3>1. s.selmon \in Mon /\ s.seltags[s.selmon] \in {0, 1}
      BY DEF Good, Well, State
    <3>2. View(s, s.selmon) \in SUBSET Tag /\ View(s, s.selmon) # {}
      BY <3>1 DEF View, Good, Well, State
    <3> QED BY <2>2, <3>1, <3>2
  <2> QED BY <2>1, <2>2
<1>3. ManagedMode(s, w) \in Modes
  BY <1>1, ModesType DEF Good, Well
<1> HIDE DEF m, g
<1>4. /\ Well(i) /\ i.clients = s.clients /\ i.stack = s.stack
      /\ i.sel = s.sel /\ i.mon = [s.mon EXCEPT ![w] = m]
      /\ i.tags = [s.tags EXCEPT ![w] = g]
      /\ i.list = s.list \cup {w} /\ i.alive = s.alive
  BY <1>1, <1>2, <1>3, ZenonT(60) DEF Good, Well, State
<1>5. i.mon[w] = m /\ i.tags[w] # {}
  BY <1>1, <1>2, <1>4, SMTT(30) DEF Good, Well, State
<1> HIDE DEF i
<1>6. Good(i) /\ Managed(i) = Managed(s)
  BY <1>1, <1>4, MonLemma
<1>7. /\ Good(a) /\ Managed(a) = Managed(s) \cup {w}
      /\ w \in Range(a.clients[m])
      /\ a.list = s.list \cup {w} /\ a.alive = s.alive
  <2>1. w \in Win \ Managed(i)
    BY <1>1, <1>6
  <2>2. /\ Good(a) /\ Managed(a) = Managed(i) \cup {w}
        /\ w \in Range(a.clients[a.mon[w]])
        /\ a.list = i.list /\ a.alive = i.alive /\ a.mon = i.mon
    BY <1>5, <1>6, <2>1, AddLemma
  <2> HIDE DEF a
  <2> QED BY <1>4, <1>5, <1>6, <2>2
<1> HIDE DEF a
<1>8. Keeps(a, n)
  BY <1>1, <1>7, SetclientstateLemma, KeepsSelf
<1>9. Good(n) /\ w \in Range(n.clients[m])
  BY <1>7, <1>8 DEF Keeps
<1> HIDE DEF n
<1>10. Keeps(n, e)
  BY <1>2, <1>9, SelLemma
<1>11. Good(e)
  BY <1>10 DEF Keeps
<1> HIDE DEF e
<1>12. Keeps(e, b)
  BY <1>11, RestackLemma
<1>13. Keeps(a, b)
  BY <1>8, <1>10, <1>12, KeepsTrans
<1>14. Good(b) /\ b.alive = s.alive
  BY <1>7, <1>13 DEF Keeps
<1> HIDE DEF b
<1>15. Well(x) /\ SameLists(b, x)
  BY <1>1, <1>14, ZenonT(60) DEF Good, Well, State, SameLists
<1>16. Keeps(b, p)
  BY <1>14, <1>15, SameListsKeep, KeepsSelf
<1>17. Keeps(a, p) /\ Joined(s, w) = p
  BY <1>13, <1>16, KeepsTrans DEF Joined, m, g, i, a, n, e, b
<1> HIDE DEF p
<1> QED BY <1>7, <1>17, KeepsManaged DEF Keeps

LEMMA ManageLemma ==
  ASSUME NEW s, Good(s), NEW w \in s.alive \ Managed(s)
  PROVE  LET t == manage(s, w)
         IN  /\ Good(t) /\ Managed(t) = Managed(s) \cup {w}
             /\ t.list = s.list \cup {w} /\ t.alive = s.alive
<1> DEFINE p == Joined(s, w)
<1>1. /\ Good(p) /\ Managed(p) = Managed(s) \cup {w}
      /\ p.list = s.list \cup {w} /\ p.alive = s.alive
  BY JoinedLemma
<1> HIDE DEF p
<1>2. Keeps(p, focus(p, NULL))
  BY <1>1, FocusLemma
<1>3. manage(s, w) = focus(p, NULL)
  BY ManageJoined DEF p
<1> QED BY <1>1, <1>2, <1>3, KeepsManaged DEF Keeps

LEMMA UpdateclientlistLemma ==
  ASSUME NEW s, Good(s)
  PROVE  LET t == updateclientlist(s)
         IN  /\ Good(t) /\ Managed(t) = Managed(s)
             /\ t.list = Managed(t) /\ t.alive = s.alive
<1> DEFINE t == updateclientlist(s)
           M == Managed(s)
<1>1. M \in SUBSET Win
  BY ManagedLemma
<1>2. t = [s EXCEPT !.list = M]
  BY DEF updateclientlist
<1> HIDE DEF M, t
<1>3. /\ Well(t) /\ t.clients = s.clients /\ t.stack = s.stack
      /\ t.sel = s.sel /\ t.mon = s.mon /\ t.tags = s.tags
      /\ t.list = M /\ t.alive = s.alive
  BY <1>1, <1>2 DEF Good, Well, State
<1>4. Consistent(t) /\ AllTagged(t)
  BY <1>3 DEF Good, Consistent, AllTagged
<1> QED BY <1>3, <1>4 DEF Good, Managed, M, t

\* unmanage() up to its call of focus(NULL).
Parted(s, c, destroyed) ==
  LET d == detachstack(detach(s, c), c)
      x == IF destroyed THEN d ELSE setclientstate(d, c, "Withdrawn")
  IN  [x EXCEPT !.mon[c] = 1, !.tags[c] = {}, !.urgent = @ \ {c},
                !.mode[c] = NoMode, !.strip = @ \ {c}]

LEMMA UnmanageParted ==
  ASSUME NEW s, NEW c, NEW destroyed
  PROVE  unmanage(s, c, destroyed)
           = arrange(updateclientlist(focus(Parted(s, c, destroyed), NULL)), s.mon[c])
  BY DEF unmanage, Parted

LEMMA PartedLemma ==
  ASSUME NEW s, Good(s), NEW c \in Managed(s), NEW destroyed
  PROVE  LET t == Parted(s, c, destroyed)
         IN  /\ Good(t) /\ Managed(t) = Managed(s) \ {c} /\ t.alive = s.alive
<1> DEFINE d == detachstack(detach(s, c), c)
           x == IF destroyed THEN d ELSE setclientstate(d, c, "Withdrawn")
           f == [x EXCEPT !.mon[c] = 1, !.tags[c] = {}, !.urgent = @ \ {c},
                          !.mode[c] = NoMode, !.strip = @ \ {c}]
<1>1. c \in Win
  BY ManagedLemma
<1>2. /\ Good(d) /\ Managed(d) = Managed(s) \ {c} /\ d.alive = s.alive
  BY RemoveLemma
<1> HIDE DEF d
<1>3. Keeps(d, x)
  BY <1>1, <1>2, SetclientstateLemma, KeepsSelf
<1>4. Good(x) /\ Managed(x) = Managed(s) \ {c} /\ x.alive = s.alive
  BY <1>2, <1>3, KeepsManaged DEF Keeps
<1> HIDE DEF x
<1>5. /\ Well(f) /\ f.clients = x.clients /\ f.stack = x.stack
      /\ f.sel = x.sel /\ f.mon = [x.mon EXCEPT ![c] = 1]
      /\ f.tags = [x.tags EXCEPT ![c] = {}] /\ f.alive = x.alive
  <2>1. 1 \in Mon /\ NoMode \in Modes
    BY DEF Mon, NoMode, Modes
  <2> QED BY <1>1, <1>4, <2>1, ZenonT(60) DEF Good, Well, State
<1> HIDE DEF f
<1>6. Good(f) /\ Managed(f) = Managed(s) \ {c} /\ f.alive = s.alive
  BY <1>1, <1>4, <1>5, MonLemma
<1>7. Parted(s, c, destroyed) = f
  BY DEF Parted, d, x, f
<1> QED BY <1>6, <1>7

LEMMA UnmanageLemma ==
  ASSUME NEW s, Good(s), NEW c \in Managed(s), NEW destroyed
  PROVE  LET t == unmanage(s, c, destroyed)
         IN  /\ Good(t) /\ Managed(t) = Managed(s) \ {c}
             /\ t.list = Managed(t) /\ t.alive = s.alive
<1> DEFINE f == Parted(s, c, destroyed)
           u == updateclientlist(focus(f, NULL))
<1>1. Good(f) /\ Managed(f) = Managed(s) \ {c} /\ f.alive = s.alive
  BY PartedLemma
<1> HIDE DEF f
<1>2. Keeps(f, focus(f, NULL))
  BY <1>1, FocusLemma
<1>3. /\ Good(u) /\ Managed(u) = Managed(s) \ {c}
      /\ u.list = Managed(u) /\ u.alive = s.alive
  BY <1>1, <1>2, KeepsManaged, UpdateclientlistLemma DEF Keeps
<1> HIDE DEF u
<1>4. Keeps(u, arrange(u, s.mon[c]))
  BY <1>3, RestackLemma
<1>5. unmanage(s, c, destroyed) = arrange(u, s.mon[c])
  BY UnmanageParted DEF f, u
<1> QED BY <1>3, <1>4, <1>5, KeepsManaged DEF Keeps

\* sendmon() up to its call of focus(NULL).
Shifted(s, c, m) ==
  LET d == detachstack(detach(unfocus(s, c, TRUE), c), c)
  IN  attachstack(attach([d EXCEPT !.mon[c] = m, !.tags[c] = View(d, m)], c), c)

LEMMA SendmonShifted ==
  ASSUME NEW s, NEW c, NEW m
  PROVE  sendmon(s, c, m) = IF s.mon[c] = m THEN s ELSE focus(Shifted(s, c, m), NULL)
  BY DEF sendmon, Shifted

LEMMA ShiftedLemma ==
  ASSUME NEW s, Good(s), NEW c \in Managed(s), NEW m \in Mon
  PROVE  Moves(s, Shifted(s, c, m))
<1> DEFINE v == unfocus(s, c, TRUE)
           d == detachstack(detach(v, c), c)
           i == [d EXCEPT !.mon[c] = m, !.tags[c] = View(d, m)]
           a == attachstack(attach(i, c), c)
<1>1. c \in Win
  BY ManagedLemma
<1>2. Keeps(s, v)
  BY UnfocusLemma
<1>3. /\ Good(v) /\ Managed(v) = Managed(s)
      /\ v.list = s.list /\ v.alive = s.alive
  BY <1>2, KeepsManaged DEF Keeps
<1> HIDE DEF v
<1>4. /\ Good(d) /\ Managed(d) = Managed(s) \ {c}
      /\ d.list = s.list /\ d.alive = s.alive
  BY <1>3, RemoveLemma
<1> HIDE DEF d
<1>5. View(d, m) \in SUBSET Tag /\ View(d, m) # {}
  <2>1. d.seltags[m] \in {0, 1}
    BY <1>4 DEF Good, Well, State
  <2> QED BY <1>4, <2>1 DEF View, Good, Well, State
<1>6. /\ Well(i) /\ i.clients = d.clients /\ i.stack = d.stack
      /\ i.sel = d.sel /\ i.mon = [d.mon EXCEPT ![c] = m]
      /\ i.tags = [d.tags EXCEPT ![c] = View(d, m)] /\ i.tags[c] # {}
      /\ i.list = s.list /\ i.alive = s.alive
  BY <1>1, <1>4, <1>5 DEF Good, Well, State
<1> HIDE DEF i
<1>7. Good(i) /\ Managed(i) = Managed(s) \ {c}
  BY <1>1, <1>4, <1>6, MonLemma
<1>8. /\ Good(a) /\ Managed(a) = Managed(s)
      /\ a.list = s.list /\ a.alive = s.alive
  <2>1. c \in Win \ Managed(i)
    BY <1>1, <1>7
  <2>2. /\ Good(a) /\ Managed(a) = Managed(i) \cup {c}
        /\ a.list = i.list /\ a.alive = i.alive
    BY <1>6, <1>7, <2>1, AddLemma, ZenonT(60)
  <2> HIDE DEF a
  <2> QED BY <1>6, <1>7, <2>2
<1> HIDE DEF a
<1>9. Shifted(s, c, m) = a
  BY DEF Shifted, v, d, i, a
<1> QED BY <1>8, <1>9 DEF Moves

LEMMA SendmonLemma ==
  ASSUME NEW s, Good(s), NEW c \in Managed(s), NEW m \in Mon
  PROVE  Moves(s, sendmon(s, c, m))
<1> DEFINE a == Shifted(s, c, m)
<1>1. Moves(s, a) /\ Good(a)
  BY ShiftedLemma DEF Moves
<1>2. sendmon(s, c, m) = IF s.mon[c] = m THEN s ELSE focus(a, NULL)
  BY SendmonShifted
<1> HIDE DEF a
<1>3. Moves(a, focus(a, NULL)) /\ Moves(s, s)
  BY <1>1, FocusLemma, KeepsSelf, KeepsMoves
<1> QED BY <1>1, <1>2, <1>3, MovesTrans

-----------------------------------------------------------------------------
(* The rest.                                                               *)

LEMMA SwitchMonLemma ==
  ASSUME NEW s, Good(s), NEW m \in Mon
  PROVE  Keeps(s, SwitchMon(s, m))
<1> DEFINE u == unfocus(s, s.sel[s.selmon], TRUE)
           v == [u EXCEPT !.selmon = m]
<1>1. Keeps(s, u)
  BY UnfocusLemma
<1>2. Good(u)
  BY <1>1 DEF Keeps
<1> HIDE DEF u
<1>3. Keeps(u, v)
  BY <1>2, SelmonLemma
<1>4. Good(v)
  BY <1>3 DEF Keeps
<1> HIDE DEF v
<1>5. Keeps(v, focus(v, NULL))
  BY <1>4, FocusLemma
<1> QED BY <1>1, <1>3, <1>5, KeepsTrans DEF SwitchMon, u, v

LEMMA RefocusLemma ==
  ASSUME NEW s, Good(s)
  PROVE  Keeps(s, Refocus(s))
<1> DEFINE f == focus(s, NULL)
<1>1. Keeps(s, f)
  BY FocusLemma
<1>2. Good(f)
  BY <1>1 DEF Keeps
<1> HIDE DEF f
<1>3. Keeps(f, arrange(f, f.selmon))
  BY <1>2, RestackLemma
<1> QED BY <1>1, <1>3, KeepsTrans DEF Refocus, f

LEMMA SetfullscreenLemma ==
  ASSUME NEW s, Good(s), NEW c \in Win, NEW on \in BOOLEAN
  PROVE  Keeps(s, setfullscreen(s, c, on))
<1> DEFINE d == s.mode[c]
           x == [d EXCEPT !.full = TRUE, !.float = TRUE, !.old = d.float]
           y == [d EXCEPT !.full = FALSE, !.float = d.old]
           t == [s EXCEPT !.fsprop = @ \cup {c}, !.strip = @ \ {c}, !.mode[c] = x]
           u == [s EXCEPT !.fsprop = @ \ {c}, !.strip = @ \cup {c}, !.mode[c] = y]
<1>1. d \in Modes /\ s.mode \in [Win -> Modes]
  BY DEF Good, Well, State
<1>2. x \in Modes /\ y \in Modes
  BY <1>1 DEF Modes
<1>3. setfullscreen(s, c, on) \in {s, t, arrange(u, s.mon[c])}
  BY <1>1 DEF setfullscreen
<1> HIDE DEF x, y
<1>4. Well(t) /\ SameLists(s, t) /\ Well(u) /\ SameLists(s, u)
  BY <1>2, ZenonT(60) DEF Good, Well, State, SameLists
<1>5. Keeps(s, t) /\ Keeps(s, u)
  BY <1>4, SameListsKeep
<1>6. Good(u)
  BY <1>5 DEF Keeps
<1> HIDE DEF t, u
<1>7. Keeps(u, arrange(u, s.mon[c]))
  BY <1>6, RestackLemma
<1> QED BY <1>3, <1>5, <1>7, KeepsSelf, KeepsTrans

LEMMA InitialStateLemma ==
  Good(InitialState) /\ Managed(InitialState) = {}
<1> DEFINE i == InitialState
<1>1. 1 \in Mon /\ NoMode \in Modes /\ <<>> \in Seq(Win)
  BY DEF Mon, NoMode, Modes
<1>2. Well(i)
  BY <1>1 DEF InitialState, State, Well, WinOrNull
<1>3. \A m \in Mon : i.clients[m] = <<>> /\ i.stack[m] = <<>> /\ i.sel[m] = NULL
  BY DEF InitialState
<1>4. IsInjective(<<>>) /\ Range(<<>>) = {}
  BY DEF IsInjective, Range
<1>5. Consistent(i) /\ AllTagged(i) /\ Managed(i) = {}
  BY <1>3, <1>4 DEF Consistent, AllTagged, Managed
<1> QED BY <1>2, <1>5 DEF Good

-----------------------------------------------------------------------------
(* What the operators of DwmState do to windows and to the selection.      *)
(*                                                                         *)
(* Every one of them is Tidy: a window stays as it was on the screen, or   *)
(* is hidden with its titlebar or shown with it.  Every one that ends in   *)
(* focus() makes the state Chosen.  Works puts both together and composes, *)
(* so that the proof about a handler follows the calls of its C function.  *)

\* The fields of the state, which a record made by EXCEPT keeps.
Fields == {"clients", "stack", "sel", "hidsel", "tagset", "seltags", "tiling",
           "mon", "tags", "urgent", "mode", "selmon", "alive", "mapped",
           "wmstate", "strip", "hint", "fsprop", "focus", "active", "list",
           "enterq"}

\* What a window looks like to the user, and the marks that are kept of it.
AsBefore(s, t, w) ==
  /\ w \in t.mapped <=> w \in s.mapped
  /\ w \in t.strip <=> w \in s.strip
  /\ t.wmstate[w] = s.wmstate[w]

Away(t, w)  == w \notin t.mapped /\ w \notin t.strip /\ t.wmstate[w] # "Normal"
Shown(t, w) == w \in t.mapped /\ w \in t.strip /\ t.wmstate[w] = "Normal"

\* Only windows of C change, and those that do are hidden or shown altogether.
Tidy(C, s, t) ==
  \A w \in Win :
    /\ AsBefore(s, t, w) \/ (w \in C /\ (Away(t, w) \/ Shown(t, w)))
    /\ t.mode[w].full = s.mode[w].full

\* No client is newly marked as revealed and no EnterNotify is queued.
Calm(s, t) ==
  /\ \A m \in Mon : t.hidsel[m] => s.hidsel[m]
  /\ t.enterq \in {s.enterq, NULL}

\* Windows, modes and marks are left alone.
Aside(s, t) ==
  /\ DOMAIN t = Fields
  /\ t.mapped = s.mapped /\ t.wmstate = s.wmstate /\ t.strip = s.strip
  /\ t.mode = s.mode /\ t.hidsel = s.hidsel /\ t.enterq \in {s.enterq, NULL}

LEMMA StateRecord ==
  ASSUME NEW s \in State
  PROVE  DOMAIN s = Fields
  BY DEF State, Fields

LEMMA AsideTrans ==
  ASSUME NEW s, NEW t, NEW u, Aside(s, t), Aside(t, u)
  PROVE  Aside(s, u)
  BY DEF Aside

LEMMA AsideTidy ==
  ASSUME NEW s, NEW t, Aside(s, t), NEW C
  PROVE  Tidy(C, s, t) /\ Calm(s, t)
  BY DEF Aside, Tidy, Calm, AsBefore

LEMMA AsideLemma ==
  ASSUME NEW s, DOMAIN s = Fields, NEW c
  PROVE  /\ Aside(s, FocusRoot(s))
         /\ Aside(s, setfocus(s, c))
         /\ \A b : Aside(s, unfocus(s, c, b)) /\ Aside(s, seturgent(s, c, b))
         /\ \A m : Aside(s, restack(s, m)) /\ Aside(s, arrange(s, m))
         /\ Aside(s, attach(s, c)) /\ Aside(s, detach(s, c))
         /\ Aside(s, attachstack(s, c)) /\ Aside(s, detachstack(s, c))
         /\ \A m : Aside(s, [s EXCEPT !.selmon = m])
         /\ \A m : Aside(s, [s EXCEPT !.sel[m] = c])
<1> USE DEF Fields
<1>1. Aside(s, FocusRoot(s))
  BY DEF Aside, FocusRoot
<1>2. Aside(s, setfocus(s, c))
  BY DEF Aside, setfocus, XSetInputFocus
<1>3. ASSUME NEW b PROVE Aside(s, unfocus(s, c, b)) /\ Aside(s, seturgent(s, c, b))
  BY DEF Aside, unfocus, seturgent, FocusRoot
<1>4. ASSUME NEW m PROVE Aside(s, restack(s, m)) /\ Aside(s, arrange(s, m))
  BY DEF Aside, restack, arrange
<1>5. Aside(s, attach(s, c)) /\ Aside(s, detach(s, c))
  BY DEF Aside, attach, detach
<1>6. Aside(s, attachstack(s, c)) /\ Aside(s, detachstack(s, c))
  BY DEF Aside, attachstack, detachstack
<1>7. ASSUME NEW m PROVE Aside(s, [s EXCEPT !.selmon = m]) /\ Aside(s, [s EXCEPT !.sel[m] = c])
  BY DEF Aside
<1> QED BY <1>1, <1>2, <1>3, <1>4, <1>5, <1>6, <1>7

LEMMA TidyTrans ==
  ASSUME NEW C, NEW s, NEW t, NEW u, Tidy(C, s, t), Tidy(C, t, u)
  PROVE  Tidy(C, s, u)
  BY DEF Tidy, AsBefore, Away, Shown

LEMMA TidyMore ==
  ASSUME NEW C, NEW D, C \subseteq D, NEW s, NEW t, Tidy(C, s, t)
  PROVE  Tidy(D, s, t)
  BY DEF Tidy

LEMMA CalmTrans ==
  ASSUME NEW s, NEW t, NEW u, Calm(s, t), Calm(t, u)
  PROVE  Calm(s, u)
  BY DEF Calm

\* What every function of dwm.c does but those that manage or unmanage.
Steps(s, t) == Moves(s, t) /\ Tidy(Managed(s), s, t) /\ Calm(s, t)

LEMMA StepsTrans ==
  ASSUME NEW s, NEW t, NEW u, Steps(s, t), Steps(t, u)
  PROVE  Steps(s, u)
<1>1. Moves(s, u) /\ Managed(t) = Managed(s)
  BY MovesTrans DEF Steps, Moves
<1> QED BY <1>1, TidyTrans, CalmTrans DEF Steps

LEMMA StepsSelf ==
  ASSUME NEW s, Good(s)
  PROVE  Steps(s, s)
  BY KeepsSelf, KeepsMoves DEF Steps, Tidy, AsBefore, Calm

LEMMA StepsAside ==
  ASSUME NEW s, NEW t, Moves(s, t), Aside(s, t)
  PROVE  Steps(s, t)
  BY AsideTidy DEF Steps

LEMMA StepsGood ==
  ASSUME NEW s, NEW t, Steps(s, t)
  PROVE  Good(t) /\ Managed(t) = Managed(s) /\ t.alive = s.alive
  BY DEF Steps, Moves

LEMMA GoodRecord ==
  ASSUME NEW s, Good(s)
  PROVE  DOMAIN s = Fields
  BY StateRecord DEF Good, Well

LEMMA HidewinSteps ==
  ASSUME NEW s, Good(s), NEW c \in Managed(s) \cup {NULL}
  PROVE  LET t == hidewin(s, c)
         IN  /\ Steps(s, t) /\ Tidy({c}, s, t)
             /\ HIDDEN(s, c) => t = s
             /\ c # NULL => Away(t, c) \/ t = s
             /\ t.hidsel = s.hidsel
<1> DEFINE x == XUnmapWindow(s, c)
           y == [x EXCEPT !.strip = @ \ {c}]
           t == hidewin(s, c)
<1>1. c \in WinOrNull /\ (c # NULL => c \in Win)
  BY ManagedLemma DEF WinOrNull
<1>2. Moves(s, t)
  BY <1>1, HidewinLemma, KeepsMoves
<1>3. CASE c = NULL \/ HIDDEN(s, c)
  <2>1. t = s
    BY <1>3 DEF hidewin
  <2>2. Tidy({c}, s, s)
    BY DEF Tidy, AsBefore
  <2> QED BY <2>1, <2>2, StepsSelf
<1>4. CASE c # NULL /\ ~HIDDEN(s, c)
  <2>1. /\ y.mapped = s.mapped \ {c} /\ y.strip = s.strip \ {c}
        /\ y.wmstate = s.wmstate /\ y.mode = s.mode /\ y.hidsel = s.hidsel
        /\ y.enterq = s.enterq /\ y.alive = s.alive /\ DOMAIN y = Fields
    BY GoodRecord DEF XUnmapWindow, Fields
  <2>2. t = setclientstate(y, c, "Iconic")
    BY <1>4 DEF hidewin
  <2> HIDE DEF y
  <2>3. s.wmstate \in [Win -> {"Withdrawn", "Normal", "Iconic"}]
    BY DEF Good, Well, State
  <2>4. /\ t.mapped = s.mapped \ {c} /\ t.strip = s.strip \ {c}
        /\ t.mode = s.mode /\ t.hidsel = s.hidsel /\ t.enterq = s.enterq
        /\ t.wmstate = IF c \in s.alive THEN [s.wmstate EXCEPT ![c] = "Iconic"]
                       ELSE s.wmstate
    BY <2>1, <2>2 DEF setclientstate, Fields
  <2> HIDE DEF t
  <2>5. c \notin s.alive => s.wmstate[c] = "Withdrawn"
    BY <1>1, <1>4 DEF Good, Well
  <2>6. Away(t, c)
    BY <1>1, <1>4, <2>3, <2>4, <2>5 DEF Away
  <2>7. \A w \in Win \ {c} : AsBefore(s, t, w)
    BY <1>4, <2>3, <2>4 DEF AsBefore
  <2>8. Tidy({c}, s, t)
    BY <2>4, <2>6, <2>7 DEF Tidy
  <2>9. Calm(s, t)
    BY <2>4 DEF Calm
  <2>10. Tidy(Managed(s), s, t)
    BY <1>4, <2>8, TidyMore
  <2> QED BY <1>2, <1>4, <2>4, <2>6, <2>8, <2>9, <2>10 DEF Steps, t
<1> QED BY <1>3, <1>4

LEMMA ShowwinSteps ==
  ASSUME NEW s, Good(s), NEW c \in Managed(s) \cup {NULL}
  PROVE  LET t == showwin(s, c)
         IN  /\ Steps(s, t) /\ Tidy({c}, s, t) /\ (c # NULL => ~HIDDEN(t, c))
<1> DEFINE x == [s EXCEPT !.mapped = @ \cup {c}, !.strip = @ \cup {c},
                          !.wmstate[c] = "Normal"]
           t == showwin(s, c)
<1>1. c \in WinOrNull /\ (c # NULL => c \in Win)
  BY ManagedLemma DEF WinOrNull
<1>2. Moves(s, t)
  BY <1>1, ShowwinLemma, KeepsMoves
<1>3. CASE c = NULL \/ ~HIDDEN(s, c)
  <2>1. t = s
    BY <1>3 DEF showwin
  <2>2. Tidy({c}, s, s)
    BY DEF Tidy, AsBefore
  <2> QED BY <1>3, <2>1, <2>2, StepsSelf
<1>4. CASE c # NULL /\ HIDDEN(s, c)
  <2>1. /\ x.mapped = s.mapped \cup {c} /\ x.strip = s.strip \cup {c}
        /\ x.wmstate = [s.wmstate EXCEPT ![c] = "Normal"]
        /\ x.mode = s.mode /\ x.hidsel = s.hidsel
        /\ x.enterq = s.enterq /\ DOMAIN x = Fields
    BY GoodRecord DEF Fields
  <2>2. t = arrange(x, s.mon[c])
    BY <1>4 DEF showwin
  <2> HIDE DEF x
  <2>3. Aside(x, t)
    BY <2>1, <2>2, AsideLemma
  <2>4. s.wmstate \in [Win -> {"Withdrawn", "Normal", "Iconic"}]
    BY DEF Good, Well, State
  <2> HIDE DEF t
  <2>5. Shown(t, c)
    BY <1>1, <1>4, <2>1, <2>3, <2>4 DEF Shown, Aside
  <2>6. \A w \in Win \ {c} : AsBefore(s, t, w)
    BY <2>1, <2>3, <2>4 DEF AsBefore, Aside
  <2>7. Tidy({c}, s, t) /\ Calm(s, t)
    BY <2>1, <2>3, <2>5, <2>6 DEF Tidy, Calm, Aside
  <2>8. Tidy(Managed(s), s, t)
    BY <1>4, <2>7, TidyMore
  <2>9. ~HIDDEN(t, c)
    BY <2>5 DEF Shown, HIDDEN
  <2> QED BY <1>2, <2>7, <2>8, <2>9 DEF Steps, t
<1> QED BY <1>3, <1>4

\* The views and the clients in them.
SameViews(s, t) ==
  /\ t.clients = s.clients /\ t.mon = s.mon /\ t.tags = s.tags
  /\ t.tagset = s.tagset /\ t.seltags = s.seltags

LEMMA SameViewsVisible ==
  ASSUME NEW s, NEW t, SameViews(s, t)
  PROVE  /\ \A c : ISVISIBLE(t, c) <=> ISVISIBLE(s, c)
         /\ \A m : VisibleOn(t, m) = VisibleOn(s, m)
  BY DEF SameViews, ISVISIBLE, VisibleOn, View

\* What hiding a client does not touch.
Unmoved(s, t) ==
  /\ SameViews(s, t)
  /\ t.stack = s.stack /\ t.sel = s.sel /\ t.selmon = s.selmon
  /\ t.urgent = s.urgent

LEMMA HidewinUnmoved ==
  ASSUME NEW s, DOMAIN s = Fields, NEW c
  PROVE  Unmoved(s, hidewin(s, c)) /\ Unmoved(s, showwin(s, c))
  BY DEF Unmoved, SameViews, hidewin, showwin, setclientstate, XUnmapWindow,
         arrange, restack, Fields

\* The first half of focus(c) hides at most the client that was selected.
LEMMA LeaveSelectedSteps ==
  ASSUME NEW s, Good(s), NEW c \in Managed(s) \cup {NULL}
  PROVE  LET t == LeaveSelected(s, c)
         IN  /\ Steps(s, t) /\ Unmoved(s, t)
             /\ \A w \in Win : HIDDEN(s, w) => HIDDEN(t, w)
             /\ c # NULL => AsBefore(s, t, c)
<1> DEFINE m == s.selmon
           e == s.sel[m]
           h == hidewin(s, e)
           a == IF c = NULL THEN h ELSE arrange(h, h.mon[c])
           r == [a EXCEPT !.hidsel[m] = FALSE]
           t == LeaveSelected(s, c)
<1>1. m \in Mon /\ e \in Managed(s) \cup {NULL}
  BY DEF Good, Well, State, Consistent, Managed
<1>2. CASE e \in {NULL, c} \/ ~s.hidsel[m]
  <2>1. t = s
    BY <1>2 DEF LeaveSelected
  <2> QED BY <2>1, StepsSelf DEF Unmoved, SameViews, AsBefore
<1>3. CASE ~(e \in {NULL, c} \/ ~s.hidsel[m])
  <2>1. t = r
    BY <1>3 DEF LeaveSelected
  <2>2. /\ Tidy({e}, s, h) /\ Calm(s, h) /\ h.hidsel = s.hidsel
        /\ Good(h)
        /\ HIDDEN(s, e) => h = s
    BY <1>1, <1>3, HidewinSteps, StepsGood DEF Steps
  <2>3. Unmoved(s, h)
    BY GoodRecord, HidewinUnmoved
  <2>4. h.wmstate \in [Win -> {"Withdrawn", "Normal", "Iconic"}]
        /\ s.wmstate \in [Win -> {"Withdrawn", "Normal", "Iconic"}]
        /\ h.hidsel \in [Mon -> BOOLEAN]
    BY <2>2 DEF Good, Well, State
  <2>5. DOMAIN h = Fields
    BY <2>2, GoodRecord
  <2> HIDE DEF h, e
  <2>6. Aside(h, a) /\ Unmoved(h, a)
    <3>1. Unmoved(h, arrange(h, h.mon[c])) /\ Unmoved(h, h)
      BY <2>5 DEF Unmoved, SameViews, arrange, restack, Fields
    <3>2. Aside(h, arrange(h, h.mon[c])) /\ Aside(h, h)
      BY <2>5, AsideLemma DEF Aside
    <3> QED BY <3>1, <3>2
  <2> HIDE DEF a
  <2>7. /\ r.mapped = a.mapped /\ r.wmstate = a.wmstate /\ r.strip = a.strip
        /\ r.mode = a.mode /\ r.hidsel = [a.hidsel EXCEPT ![m] = FALSE]
        /\ r.enterq = a.enterq /\ Unmoved(a, r)
    BY <2>6 DEF Unmoved, SameViews, Aside, Fields
  <2> HIDE DEF r, m
  <2>8. /\ r.mapped = h.mapped /\ r.wmstate = h.wmstate /\ r.strip = h.strip
        /\ r.mode = h.mode /\ r.hidsel = [h.hidsel EXCEPT ![m] = FALSE]
        /\ r.enterq \in {h.enterq, NULL} /\ Unmoved(s, r)
    BY <2>3, <2>6, <2>7 DEF Unmoved, SameViews, Aside
  <2>9. Tidy({e}, s, r)
    BY <2>2, <2>8 DEF Tidy, AsBefore, Away, Shown
  <2>10. Calm(s, r)
    BY <2>2, <2>4, <2>8 DEF Calm
  <2>11. Tidy(Managed(s), s, r)
    BY <1>1, <1>3, <2>9, TidyMore
  <2>12. c # NULL => AsBefore(s, r, c)
    <3>1. c # NULL => c \in Win \ {e}
      BY <1>3, ManagedLemma
    <3> QED BY <2>9, <3>1 DEF Tidy
  <2>13. \A w \in Win : HIDDEN(s, w) => HIDDEN(r, w)
    <3> SUFFICES ASSUME NEW w \in Win, HIDDEN(s, w)
                 PROVE  HIDDEN(r, w)
      OBVIOUS
    <3>1. CASE w = e
      BY <2>2, <2>8, <3>1 DEF HIDDEN
    <3>2. CASE w # e
      BY <2>9, <3>2 DEF HIDDEN, Tidy, AsBefore
    <3> QED BY <3>1, <3>2
  <2>14. Moves(s, t)
    BY LeaveSelectedLemma, KeepsMoves
  <2> QED BY <2>1, <2>8, <2>10, <2>11, <2>12, <2>13, <2>14 DEF Steps
<1> QED BY <1>2, <1>3

LEMMA SelectAside ==
  ASSUME NEW s, DOMAIN s = Fields, NEW c
  PROVE  Aside(s, Select(s, c))
<1> DEFINE r == FocusRoot(s)
           m == s.mon[c]
           u == IF c \in s.urgent THEN seturgent(s, c, FALSE) ELSE s
           v == [u EXCEPT !.selmon = m]
           d == detachstack(v, c)
           t == attachstack(d, c)
           f == setfocus(t, c)
<1>1. CASE c = NULL
  <2>1. Aside(s, r)
    BY AsideLemma
  <2> HIDE DEF r
  <2>2. Aside(r, [r EXCEPT !.sel[s.selmon] = NULL])
    BY <2>1, AsideLemma DEF Aside
  <2>3. Select(s, c) = [r EXCEPT !.sel[s.selmon] = NULL]
    BY <1>1 DEF Select, r
  <2> QED BY <2>1, <2>2, <2>3, AsideTrans
<1>2. CASE c # NULL
  <2>1. Aside(s, u)
    <3>1. Aside(s, seturgent(s, c, FALSE))
      BY AsideLemma
    <3> QED BY <3>1 DEF Aside
  <2> HIDE DEF u
  <2>2. Aside(u, v)
    BY <2>1, AsideLemma DEF Aside
  <2> HIDE DEF v
  <2>3. Aside(v, d)
    BY <2>2, AsideLemma DEF Aside
  <2> HIDE DEF d
  <2>4. Aside(d, t)
    BY <2>3, AsideLemma DEF Aside
  <2> HIDE DEF t
  <2>5. Aside(t, f)
    BY <2>4, AsideLemma DEF Aside
  <2> HIDE DEF f
  <2>6. Aside(f, [f EXCEPT !.sel[m] = c])
    BY <2>5, AsideLemma DEF Aside
  <2>7. Select(s, c) = [f EXCEPT !.sel[m] = c]
    BY <1>2 DEF Select, f, t, d, v, u
  <2> QED BY <2>1, <2>2, <2>3, <2>4, <2>5, <2>6, <2>7, AsideTrans
<1> QED BY <1>1, <1>2

\* The second half of focus(c) puts c on top of the stack of its monitor,
\* which becomes the selected one, and gives it the input focus.
LEMMA SelectChoice ==
  ASSUME NEW s, Good(s), NEW c \in Managed(s) \cup {NULL}
  PROVE  LET t == Select(s, c)
         IN  /\ Steps(s, t) /\ SameViews(s, t) /\ Aside(s, t)
             /\ c = NULL => t.selmon = s.selmon /\ t.sel[t.selmon] = NULL
             /\ c # NULL => /\ t.selmon = s.mon[c] /\ t.sel[t.selmon] = c
                            /\ t.stack[t.selmon][1] = c /\ c \notin t.urgent
                            /\ c \in t.mapped \ NeverFocus => t.focus = c
<1> DEFINE m == s.mon[c]
           u == IF c \in s.urgent THEN seturgent(s, c, FALSE) ELSE s
           v == [u EXCEPT !.selmon = m]
           d == detachstack(v, c)
           a == attachstack(d, c)
           f == setfocus(a, c)
           t == Select(s, c)
<1>1. Moves(s, t)
  BY SelectLemma, KeepsMoves
<1>2. Aside(s, t)
  BY GoodRecord, SelectAside
<1>3. Steps(s, t)
  BY <1>1, <1>2, StepsAside
<1>4. DOMAIN s = Fields /\ s.selmon \in Mon /\ s.sel \in [Mon -> WinOrNull]
  BY GoodRecord DEF Good, Well, State
<1>5. CASE c = NULL
  <2>1. t = [FocusRoot(s) EXCEPT !.sel[s.selmon] = NULL]
    BY <1>5 DEF Select
  <2>2. /\ SameViews(s, t) /\ t.selmon = s.selmon
        /\ t.sel = [s.sel EXCEPT ![s.selmon] = NULL]
    BY <1>4, <2>1 DEF SameViews, FocusRoot, Fields
  <2> QED BY <1>2, <1>3, <1>4, <1>5, <2>2
<1>6. CASE c # NULL
  <2>1. c \in Win /\ m \in Mon /\ c \in Range(s.clients[m]) /\ c \in Managed(s)
    BY <1>6, ManagedLemma
  <2>2. t = [f EXCEPT !.sel[m] = c]
    BY <1>6 DEF Select
  <2>3. Keeps(s, u) /\ DOMAIN u = Fields
    BY <1>4, <2>1, SeturgentLemma, KeepsSelf, AsideLemma DEF Aside
  <2>4. SameViews(s, u) /\ c \notin u.urgent
    BY <1>4 DEF SameViews, seturgent, Fields
  <2> HIDE DEF u
  <2>5. Keeps(u, v)
    BY <2>1, <2>3, SelmonLemma DEF Keeps
  <2>6. SameViews(u, v) /\ c \notin v.urgent /\ v.selmon = m /\ v.mon = s.mon
        /\ DOMAIN v = Fields
    BY <2>3, <2>4 DEF SameViews, Fields
  <2> HIDE DEF v
  <2>7. /\ Good(v) /\ IsInjective(v.stack[v.mon[c]])
        /\ v.sel[v.mon[c]] \in Range(v.stack[v.mon[c]]) \cup {NULL}
    BY <2>1, <2>5, <2>6 DEF Keeps, Good, Consistent
  <2>8. /\ Well(d) /\ d.clients = v.clients /\ d.mon = v.mon
        /\ d.tags = v.tags /\ d.selmon = v.selmon
    BY <2>1, <2>7, DetachstackLemma DEF Good
  <2>9. SameViews(v, d) /\ c \notin d.urgent /\ DOMAIN d = Fields
    BY <2>6, <2>8 DEF detachstack, SameViews, Fields
  <2> HIDE DEF d
  <2>10. d.stack[m] \in Seq(Win) /\ d.stack \in [Mon -> Seq(Win)] /\ d.mon[c] = m
         /\ d.sel \in [Mon -> WinOrNull]
    BY <2>1, <2>6, <2>8 DEF Well, State
  <2> DEFINE p == Push(c, d.stack[m])
  <2>11. p[1] = c
    BY <2>10 DEF Push
  <2>12. /\ SameViews(d, a) /\ c \notin a.urgent /\ a.selmon = m
         /\ a.stack = [d.stack EXCEPT ![m] = p] /\ DOMAIN a = Fields
         /\ a.sel = d.sel
    BY <2>6, <2>8, <2>9, <2>10 DEF attachstack, SameViews, Fields
  <2> HIDE DEF a, p
  <2>13. a.stack[m][1] = c
    BY <2>1, <2>10, <2>11, <2>12
  <2>14. /\ SameViews(a, f) /\ f.urgent = a.urgent /\ f.selmon = m
         /\ f.stack = a.stack /\ DOMAIN f = Fields /\ f.sel = d.sel
         /\ f.mapped = a.mapped
         /\ c \in a.mapped \ NeverFocus => f.focus = c
    BY <2>12 DEF setfocus, XSetInputFocus, SameViews, Fields
  <2> HIDE DEF f, t
  <2>15. /\ SameViews(f, t) /\ t.urgent = f.urgent /\ t.selmon = m
         /\ t.stack = f.stack /\ t.sel = [d.sel EXCEPT ![m] = c]
         /\ t.mapped = f.mapped /\ t.focus = f.focus
    BY <2>2, <2>14 DEF SameViews, Fields
  <2>16. t.sel[m] = c
    BY <2>1, <2>10, <2>15
  <2>17. SameViews(s, t)
    BY <2>4, <2>6, <2>9, <2>12, <2>14, <2>15 DEF SameViews
  <2> QED BY <1>2, <1>3, <1>6, <2>12, <2>13, <2>14, <2>15, <2>16, <2>17 DEF t
<1> QED BY <1>5, <1>6

\* A loop that finds nothing has looked at everything.
LEMMA FirstInNull ==
  ASSUME NEW seq \in Seq(Win), NEW S, FirstIn(seq, S) = NULL
  PROVE  Range(seq) \cap S = {}
<1> DEFINE I == {i \in 1 .. Len(seq) : i >= 1 /\ seq[i] \in S}
           k == CHOOSE i \in I : \A j \in I : i <= j
<1>1. CASE I = {}
  BY <1>1 DEF Range
<1>2. CASE I # {}
  <2>1. \E i \in I : \A j \in I : i <= j
    <3>1. I \in SUBSET Nat
      OBVIOUS
    <3> HIDE DEF I
    <3> QED BY <1>2, <3>1, LeastLemma
  <2>2. k \in I
    BY <2>1
  <2>3. seq[k] \in Win
    BY <2>2
  <2>4. FirstIn(seq, S) = seq[k]
    BY <1>2 DEF FirstIn, FirstFrom
  <2> QED BY <2>3, <2>4
<1> QED BY <1>1, <1>2

Selected(s) == s.sel[s.selmon]

\* What focus(c) establishes: the selected client is in view, on top of its
\* stack, not urgent and has the input focus; none is selected only if none of
\* the selected monitor is shown.
Chosen(s) ==
  /\ Selected(s) # NULL => /\ ISVISIBLE(s, Selected(s))
                           /\ s.stack[s.selmon][1] = Selected(s)
                           /\ Selected(s) \notin s.urgent
  /\ Selected(s) = NULL => ShownOn(s, s.selmon) = {}
  /\ Selected(s) \in s.mapped \ NeverFocus => s.focus = Selected(s)

\* A client that is hidden is selected only if its window is mapped all the
\* same, which happens to windows that dwm finds when it starts.
Plain(s) ==
  Selected(s) # NULL /\ HIDDEN(s, Selected(s)) => Selected(s) \in s.mapped

LEMMA FocusTargetShown ==
  ASSUME NEW s, Good(s), NEW c \in Managed(s) \cup {NULL}
  PROVE  LET t == FocusTarget(s, c)
         IN  /\ t \in Managed(s) \cup {NULL}
             /\ t # NULL => ISVISIBLE(s, t)
             /\ t # NULL /\ HIDDEN(s, t) => t = c
             /\ t = NULL => ShownOn(s, s.selmon) = {}
<1> DEFINE seq == s.stack[s.selmon]
           n   == FirstIn(seq, ShownOn(s, s.selmon))
<1>1. /\ s.selmon \in Mon /\ seq \in Seq(Win)
      /\ Range(seq) = Range(s.clients[s.selmon])
  BY DEF Good, Well, State, Consistent
<1>2. Len(seq) \in Nat /\ DOMAIN seq = 1 .. Len(seq)
  BY <1>1
<1>3. n \in ShownOn(s, s.selmon) \cup {NULL}
  BY <1>2, FirstFromLemma DEF FirstIn
<1>4. n = NULL => ShownOn(s, s.selmon) = {}
  BY <1>1, FirstInNull DEF ShownOn, VisibleOn
<1>5. (FocusTarget(s, c) = c /\ ISVISIBLE(s, c) /\ c # NULL) \/ FocusTarget(s, c) = n
  BY DEF FocusTarget
<1>6. n # NULL => ISVISIBLE(s, n) /\ ~HIDDEN(s, n)
  BY <1>3 DEF ShownOn, VisibleOn
<1> QED BY <1>4, <1>5, <1>6, FocusTargetLemma

LEMMA FocusChoice ==
  ASSUME NEW s, Good(s), NEW c \in Managed(s) \cup {NULL}
  PROVE  LET t == focus(s, c)
         IN  /\ Steps(s, t) /\ SameViews(s, t) /\ Chosen(t)
             /\ (c # NULL /\ HIDDEN(s, c) => c \in s.mapped) => Plain(t)
             /\ c # NULL /\ ISVISIBLE(s, c) =>
                  Selected(t) = c /\ AsBefore(s, t, c)
<1> DEFINE g == FocusTarget(s, c)
           l == LeaveSelected(s, g)
           t == Select(l, g)
<1>1. /\ g \in Managed(s) \cup {NULL}
      /\ g # NULL => ISVISIBLE(s, g)
      /\ g # NULL /\ HIDDEN(s, g) => g = c
      /\ g = NULL => ShownOn(s, s.selmon) = {}
  BY FocusTargetShown
<1>10. c # NULL /\ ISVISIBLE(s, c) => g = c
  BY DEF FocusTarget
<1> HIDE DEF g
<1>2. /\ Steps(s, l) /\ Unmoved(s, l)
      /\ \A w \in Win : HIDDEN(s, w) => HIDDEN(l, w)
      /\ g # NULL => AsBefore(s, l, g)
  BY <1>1, LeaveSelectedSteps
<1>3. Good(l) /\ g \in Managed(l) \cup {NULL}
  BY <1>1, <1>2, StepsGood
<1> HIDE DEF l
<1>4. /\ Steps(l, t) /\ SameViews(l, t) /\ Aside(l, t)
      /\ g = NULL => t.selmon = l.selmon /\ Selected(t) = NULL
      /\ g # NULL => /\ t.selmon = l.mon[g] /\ Selected(t) = g
                     /\ t.stack[t.selmon][1] = g /\ g \notin t.urgent
                     /\ g \in t.mapped \ NeverFocus => t.focus = g
  BY <1>3, SelectChoice DEF Selected
<1> HIDE DEF t
<1>5. focus(s, c) = t
  BY DEF focus, t, l, g
<1>6. Steps(s, t)
  BY <1>2, <1>4, StepsTrans
<1>7. SameViews(s, t)
  BY <1>2, <1>4 DEF SameViews, Unmoved
<1>8. CASE g = NULL
  <2>1. ShownOn(t, t.selmon) = {}
    <3>1. t.selmon = s.selmon /\ VisibleOn(t, t.selmon) = VisibleOn(s, s.selmon)
      BY <1>2, <1>4, <1>7, <1>8, SameViewsVisible DEF Unmoved
    <3>2. VisibleOn(s, s.selmon) \subseteq Win
      <4>1. s.selmon \in Mon
        BY DEF Good, Well, State
      <4>2. VisibleOn(s, s.selmon) \subseteq Managed(s)
        BY <4>1 DEF VisibleOn, Managed
      <4> QED BY <4>2, ManagedLemma
    <3>3. \A w \in VisibleOn(s, s.selmon) : HIDDEN(s, w)
      BY <1>1, <1>8 DEF ShownOn
    <3>4. \A w \in VisibleOn(s, s.selmon) : HIDDEN(t, w)
      BY <1>2, <1>4, <3>2, <3>3 DEF HIDDEN, Aside
    <3> QED BY <3>1, <3>4 DEF ShownOn
  <2>2. NULL \notin t.mapped
    BY <1>6, StepsGood DEF Good, Well, State
  <2> QED BY <1>4, <1>5, <1>6, <1>7, <1>8, <1>10, <2>1, <2>2 DEF Chosen, Plain
<1>9. CASE g # NULL
  <2>1. ISVISIBLE(t, g)
    BY <1>1, <1>7, <1>9, SameViewsVisible
  <2>2. Chosen(t)
    BY <1>4, <1>9, <2>1 DEF Chosen
  <2>3. AsBefore(s, t, g)
    BY <1>2, <1>4, <1>9 DEF AsBefore, Aside
  <2>4. (c # NULL /\ HIDDEN(s, c) => c \in s.mapped) => Plain(t)
    BY <1>1, <1>4, <1>9, <2>3 DEF Plain, AsBefore, HIDDEN
  <2> QED BY <1>4, <1>5, <1>6, <1>7, <1>9, <1>10, <2>2, <2>3, <2>4
<1> QED BY <1>8, <1>9

\* Nothing is hidden if nothing was only revealed.
LEMMA FocusAside ==
  ASSUME NEW s, DOMAIN s = Fields, ~s.hidsel[s.selmon], NEW c
  PROVE  Aside(s, focus(s, c))
  BY SelectAside DEF focus, LeaveSelected

-----------------------------------------------------------------------------
(* Functions that end in focus().                                          *)

\* Nothing that the choice of the selected client rests on has changed.
SameChoice(s, t) ==
  /\ Unmoved(s, t)
  /\ t.focus = s.focus /\ t.mapped = s.mapped /\ t.wmstate = s.wmstate

LEMMA SameChoiceLemma ==
  ASSUME NEW s, NEW t, SameChoice(s, t)
  PROVE  (Chosen(s) => Chosen(t)) /\ (Plain(s) => Plain(t))
<1>1. Selected(t) = Selected(s) /\ t.selmon = s.selmon
  BY DEF SameChoice, Unmoved, Selected
<1>2. /\ ISVISIBLE(t, Selected(t)) <=> ISVISIBLE(s, Selected(s))
      /\ VisibleOn(t, t.selmon) = VisibleOn(s, s.selmon)
  BY <1>1, SameViewsVisible DEF SameChoice, Unmoved
<1>3. ShownOn(t, t.selmon) = ShownOn(s, s.selmon)
  BY <1>2 DEF ShownOn, HIDDEN, SameChoice
<1>4. /\ t.stack = s.stack /\ t.urgent = s.urgent /\ t.focus = s.focus
      /\ t.mapped = s.mapped /\ t.wmstate = s.wmstate
  BY DEF SameChoice, Unmoved
<1> QED BY <1>1, <1>2, <1>3, <1>4 DEF Chosen, Plain, HIDDEN

\* What a handler does: it selects by focus(), or leaves the selection alone.
Works(s, t) ==
  /\ Steps(s, t)
  /\ Chosen(t) \/ SameChoice(s, t)
  /\ Plain(s) => Plain(t)

LEMMA WorksSelf ==
  ASSUME NEW s, Good(s)
  PROVE  Works(s, s)
  BY StepsSelf DEF Works, SameChoice, Unmoved, SameViews

LEMMA WorksGood ==
  ASSUME NEW s, NEW t, Works(s, t)
  PROVE  Good(t) /\ Managed(t) = Managed(s) /\ Steps(s, t)
  BY StepsGood DEF Works

LEMMA WorksTrans ==
  ASSUME NEW s, NEW t, NEW u, Works(s, t), Works(t, u)
  PROVE  Works(s, u)
<1>1. Steps(s, u) /\ (Plain(s) => Plain(u))
  BY StepsTrans DEF Works
<1>2. Chosen(t) => Chosen(u)
  BY SameChoiceLemma DEF Works
<1>3. SameChoice(s, t) /\ SameChoice(t, u) => SameChoice(s, u)
  BY DEF SameChoice, Unmoved, SameViews
<1> QED BY <1>1, <1>2, <1>3 DEF Works

LEMMA RestackWorks ==
  ASSUME NEW s, Good(s), NEW m
  PROVE  Works(s, restack(s, m)) /\ Works(s, arrange(s, m))
<1>1. DOMAIN s = Fields
  BY GoodRecord
<1> DEFINE t == restack(s, m)
<1>2. Steps(s, t)
  BY <1>1, RestackLemma, KeepsMoves, AsideLemma, StepsAside
<1>3. SameChoice(s, t)
  BY <1>1 DEF SameChoice, Unmoved, SameViews, restack, Fields
<1> HIDE DEF t
<1>4. Works(s, t)
  BY <1>2, <1>3, SameChoiceLemma DEF Works
<1> QED BY <1>4 DEF arrange, t

\* Steps that end in focus(c), c being shown if it is a client, and may be
\* followed by restack() or arrange().
LEMMA StepsFocus ==
  ASSUME NEW s, NEW t, Steps(s, t), NEW c \in Managed(s) \cup {NULL},
         Plain(s) /\ c # NULL /\ HIDDEN(t, c) => c \in t.mapped
  PROVE  LET f == focus(t, c)
         IN  /\ Works(s, f) /\ Chosen(f) /\ (c = NULL => Plain(f))
             /\ Works(s, restack(f, f.selmon))
             /\ \A m : Works(s, restack(f, m)) /\ Works(s, arrange(f, m))
<1> DEFINE f == focus(t, c)
<1>1. Good(t) /\ c \in Managed(t) \cup {NULL}
  BY StepsGood
<1>2. Steps(t, f) /\ Chosen(f) /\ (Plain(s) \/ c = NULL => Plain(f))
  BY <1>1, FocusChoice
<1> HIDE DEF f
<1>3. Works(s, f)
  BY <1>2, StepsTrans DEF Works
<1>4. \A m : Works(f, restack(f, m)) /\ Works(f, arrange(f, m))
  BY <1>2, StepsGood, RestackWorks
<1>5. \A m : Works(s, restack(f, m)) /\ Works(s, arrange(f, m))
  BY <1>3, <1>4, WorksTrans
<1> QED BY <1>2, <1>3, <1>5 DEF f

LEMMA SelmonSteps ==
  ASSUME NEW s, Good(s), NEW m \in Mon
  PROVE  Steps(s, [s EXCEPT !.selmon = m])
  BY SelmonLemma, KeepsMoves, GoodRecord, AsideLemma, StepsAside

LEMMA UnfocusSteps ==
  ASSUME NEW s, Good(s), NEW c, NEW b
  PROVE  Steps(s, unfocus(s, c, b))
  BY UnfocusLemma, KeepsMoves, GoodRecord, AsideLemma, StepsAside

LEMMA SwitchMonWorks ==
  ASSUME NEW s, Good(s), NEW m \in Mon
  PROVE  Works(s, SwitchMon(s, m))
<1> DEFINE u == unfocus(s, s.sel[s.selmon], TRUE)
           v == [u EXCEPT !.selmon = m]
<1>1. Steps(s, u) /\ Good(u)
  BY UnfocusSteps, StepsGood
<1> HIDE DEF u
<1>2. Steps(u, v)
  BY <1>1, SelmonSteps
<1> HIDE DEF v
<1>3. Steps(s, v)
  BY <1>1, <1>2, StepsTrans
<1>4. Works(s, focus(v, NULL))
  BY <1>3, StepsFocus
<1> QED BY <1>4 DEF SwitchMon, u, v

LEMMA RefocusWorks ==
  ASSUME NEW s, NEW t, Steps(s, t)
  PROVE  Works(s, Refocus(t))
<1> DEFINE f == focus(t, NULL)
<1>1. \A m : Works(s, arrange(f, m))
  BY StepsFocus
<1> HIDE DEF f
<1> QED BY <1>1 DEF Refocus, f

LEMMA SendmonWorks ==
  ASSUME NEW s, Good(s), NEW c \in Managed(s), NEW m \in Mon
  PROVE  Works(s, sendmon(s, c, m))
<1> DEFINE v == unfocus(s, c, TRUE)
           x == detach(v, c)
           d == detachstack(x, c)
           i == [d EXCEPT !.mon[c] = m, !.tags[c] = View(d, m)]
           y == attach(i, c)
           a == attachstack(y, c)
<1>1. Aside(s, v)
  BY GoodRecord, AsideLemma
<1> HIDE DEF v
<1>2. Aside(v, x)
  BY <1>1, AsideLemma DEF Aside
<1> HIDE DEF x
<1>3. Aside(x, d)
  BY <1>2, AsideLemma DEF Aside
<1> HIDE DEF d
<1>4. Aside(d, i)
  BY <1>3 DEF Aside, Fields
<1> HIDE DEF i
<1>5. Aside(i, y)
  BY <1>4, AsideLemma DEF Aside
<1> HIDE DEF y
<1>6. Aside(y, a)
  BY <1>5, AsideLemma DEF Aside
<1> HIDE DEF a
<1>7. Aside(s, a)
  BY <1>1, <1>2, <1>3, <1>4, <1>5, <1>6, AsideTrans
<1>8. Shifted(s, c, m) = a
  BY DEF Shifted, a, y, i, d, x, v
<1>9. Steps(s, Shifted(s, c, m))
  BY <1>7, <1>8, ShiftedLemma, StepsAside
<1>10. Works(s, focus(Shifted(s, c, m), NULL))
  BY <1>9, StepsFocus
<1> QED BY <1>10, WorksSelf, SendmonShifted

-----------------------------------------------------------------------------
(* manage() and unmanage().                                                *)

\* A new client that was not iconic is mapped with its titlebar.
LEMMA JoinedWindows ==
  ASSUME NEW s, Good(s), NEW w \in s.alive \ Managed(s)
  PROVE  LET t == Joined(s, w)
         IN  /\ \A v \in Win \ {w} : /\ AsBefore(s, t, v)
                                     /\ t.mode[v].full = s.mode[v].full
             /\ IF HIDDEN(s, w) THEN AsBefore(s, t, w) ELSE Shown(t, w)
             /\ Calm(s, t)
<1> DEFINE tr == TransientFor[w]
           m == IF tr \in Managed(s) THEN s.mon[tr] ELSE s.selmon
           g == IF tr \in Managed(s) THEN s.tags[tr] ELSE View(s, s.selmon)
           i == [s EXCEPT !.mon[w] = m, !.tags[w] = g,
                          !.mode[w] = ManagedMode(s, w),
                          !.urgent = IF w \in s.hint THEN @ \cup {w} ELSE @ \ {w},
                          !.list = @ \cup {w}]
           h == attach(i, w)
           a == attachstack(h, w)
           n == IF HIDDEN(a, w) THEN a ELSE setclientstate(a, w, "Normal")
           e == [n EXCEPT !.sel[m] = w]
           b == arrange(e, m)
           p == IF HIDDEN(b, w) THEN b
                ELSE [b EXCEPT !.mapped = @ \cup {w}, !.strip = @ \cup {w}]
<1>1. /\ w \in Win /\ DOMAIN s = Fields
      /\ s.wmstate \in [Win -> {"Withdrawn", "Normal", "Iconic"}]
      /\ s.mode \in [Win -> Modes]
  BY GoodRecord DEF Good, Well, State
<1> HIDE DEF m, g
<1>2. /\ DOMAIN i = Fields /\ i.mapped = s.mapped /\ i.wmstate = s.wmstate
      /\ i.strip = s.strip /\ i.hidsel = s.hidsel /\ i.enterq = s.enterq
      /\ i.alive = s.alive
      /\ \A v \in Win \ {w} : i.mode[v] = s.mode[v]
  BY <1>1 DEF Fields
<1> HIDE DEF i
<1>3. Aside(i, h) /\ h.alive = i.alive
  BY <1>2, AsideLemma DEF Aside, attach, Fields
<1> HIDE DEF h
<1>4. Aside(h, a) /\ a.alive = h.alive
  BY <1>3, AsideLemma DEF Aside, attachstack, Fields
<1> HIDE DEF a
<1>5. /\ DOMAIN n = Fields /\ n.mapped = s.mapped /\ n.strip = s.strip
      /\ n.mode = i.mode /\ n.hidsel = s.hidsel /\ n.enterq \in {s.enterq, NULL}
      /\ n.wmstate = IF HIDDEN(s, w) THEN s.wmstate
                     ELSE [s.wmstate EXCEPT ![w] = "Normal"]
  BY <1>1, <1>2, <1>3, <1>4 DEF Aside, setclientstate, HIDDEN, Fields
<1> HIDE DEF n
<1>6. Aside(n, e)
  BY <1>5, AsideLemma
<1> HIDE DEF e
<1>7. Aside(e, b)
  BY <1>6, AsideLemma DEF Aside
<1> HIDE DEF b
<1>8. /\ DOMAIN b = Fields /\ b.mapped = s.mapped /\ b.strip = s.strip
      /\ b.mode = i.mode /\ b.hidsel = s.hidsel /\ b.enterq \in {s.enterq, NULL}
      /\ b.wmstate = n.wmstate
  BY <1>5, <1>6, <1>7 DEF Aside
<1>9. HIDDEN(b, w) <=> HIDDEN(s, w)
  BY <1>1, <1>5, <1>8 DEF HIDDEN
<1>10. /\ p.mode = i.mode /\ p.hidsel = s.hidsel /\ p.enterq \in {s.enterq, NULL}
       /\ p.wmstate = n.wmstate
       /\ p.mapped = IF HIDDEN(s, w) THEN s.mapped ELSE s.mapped \cup {w}
       /\ p.strip = IF HIDDEN(s, w) THEN s.strip ELSE s.strip \cup {w}
  BY <1>8, <1>9 DEF Fields
<1> HIDE DEF p
<1>11. Joined(s, w) = p
  BY DEF Joined, p, b, e, n, a, h, i, m, g
<1> QED BY <1>1, <1>2, <1>5, <1>10, <1>11 DEF AsBefore, Shown, Calm

\* The window that unmanage() lets go keeps its place on the screen, but not
\* its titlebar, and is not iconic unless it is gone.
LEMMA PartedWindows ==
  ASSUME NEW s, Good(s), NEW c \in Managed(s), NEW destroyed
  PROVE  LET t == Parted(s, c, destroyed)
         IN  /\ \A v \in Win \ {c} : /\ AsBefore(s, t, v)
                                     /\ t.mode[v].full = s.mode[v].full
             /\ c \in t.mapped <=> c \in s.mapped
             /\ t.wmstate[c] \in {s.wmstate[c], "Withdrawn"}
             /\ c \notin t.strip
             /\ Calm(s, t)
<1> DEFINE h == detach(s, c)
           d == detachstack(h, c)
           x == IF destroyed THEN d ELSE setclientstate(d, c, "Withdrawn")
           f == [x EXCEPT !.mon[c] = 1, !.tags[c] = {}, !.urgent = @ \ {c},
                          !.mode[c] = NoMode, !.strip = @ \ {c}]
<1>1. /\ c \in Win /\ DOMAIN s = Fields
      /\ s.wmstate \in [Win -> {"Withdrawn", "Normal", "Iconic"}]
      /\ s.mode \in [Win -> Modes]
  BY GoodRecord, ManagedLemma DEF Good, Well, State
<1>2. Aside(s, h)
  BY <1>1, AsideLemma
<1> HIDE DEF h
<1>3. Aside(h, d)
  BY <1>2, AsideLemma DEF Aside
<1> HIDE DEF d
<1>4. /\ DOMAIN x = Fields /\ x.mapped = s.mapped /\ x.strip = s.strip
      /\ x.mode = s.mode /\ x.hidsel = s.hidsel /\ x.enterq \in {s.enterq, NULL}
      /\ x.wmstate \in {s.wmstate, [s.wmstate EXCEPT ![c] = "Withdrawn"]}
  BY <1>1, <1>2, <1>3 DEF Aside, setclientstate, Fields
<1> HIDE DEF x
<1>5. /\ f.mapped = s.mapped /\ f.strip = s.strip \ {c}
      /\ f.mode = [s.mode EXCEPT ![c] = NoMode]
      /\ f.hidsel = s.hidsel /\ f.enterq \in {s.enterq, NULL}
      /\ f.wmstate \in {s.wmstate, [s.wmstate EXCEPT ![c] = "Withdrawn"]}
  BY <1>4 DEF Fields
<1> HIDE DEF f
<1>6. Parted(s, c, destroyed) = f
  BY DEF Parted, f, x, d, h
<1> QED BY <1>1, <1>5, <1>6 DEF AsBefore, Calm

\* manage() as a whole.
LEMMA ManageWindows ==
  ASSUME NEW s, Good(s), NEW w \in s.alive \ Managed(s)
  PROVE  LET t == manage(s, w)
         IN  /\ \A v \in Win \ {w} :
                  /\ AsBefore(s, t, v) \/ (v \in Managed(s) /\ (Away(t, v) \/ Shown(t, v)))
                  /\ t.mode[v].full = s.mode[v].full
             /\ (HIDDEN(s, w) /\ AsBefore(s, t, w)) \/ Away(t, w) \/ Shown(t, w)
             /\ Calm(s, t) /\ Chosen(t) /\ Plain(t)
<1> DEFINE p == Joined(s, w)
           t == focus(p, NULL)
<1>1. w \in Win
  BY DEF Good, Well, State
<1>2. Good(p) /\ Managed(p) = Managed(s) \cup {w}
  BY JoinedLemma
<1>3. /\ \A v \in Win \ {w} : /\ AsBefore(s, p, v)
                              /\ p.mode[v].full = s.mode[v].full
      /\ IF HIDDEN(s, w) THEN AsBefore(s, p, w) ELSE Shown(p, w)
      /\ Calm(s, p)
  BY JoinedWindows
<1>4. manage(s, w) = t
  BY ManageJoined
<1> HIDE DEF p
<1>5. Works(p, t) /\ Chosen(t) /\ Plain(t)
  BY <1>2, StepsSelf, StepsFocus
<1> HIDE DEF t
<1>6. Tidy(Managed(p), p, t) /\ Calm(p, t)
  BY <1>5 DEF Works, Steps
<1>7. Calm(s, t)
  BY <1>3, <1>6, CalmTrans
<1>8. \A v \in Win \ {w} :
        /\ AsBefore(s, t, v) \/ (v \in Managed(s) /\ (Away(t, v) \/ Shown(t, v)))
        /\ t.mode[v].full = s.mode[v].full
  BY <1>2, <1>3, <1>6 DEF Tidy, AsBefore
<1>9. (HIDDEN(s, w) /\ AsBefore(s, t, w)) \/ Away(t, w) \/ Shown(t, w)
  <2>1. AsBefore(p, t, w) \/ Away(t, w) \/ Shown(t, w)
    BY <1>1, <1>6 DEF Tidy
  <2>2. CASE HIDDEN(s, w)
    BY <1>3, <2>1, <2>2 DEF AsBefore
  <2>3. CASE ~HIDDEN(s, w)
    BY <1>3, <2>1, <2>3 DEF AsBefore, Shown
  <2> QED BY <2>2, <2>3
<1> QED BY <1>4, <1>5, <1>7, <1>8, <1>9

\* unmanage() as a whole.
LEMMA UnmanageWindows ==
  ASSUME NEW s, Good(s), NEW c \in Managed(s), NEW destroyed
  PROVE  LET t == unmanage(s, c, destroyed)
         IN  /\ \A v \in Win \ {c} :
                  /\ AsBefore(s, t, v) \/ (v \in Managed(s) /\ (Away(t, v) \/ Shown(t, v)))
                  /\ t.mode[v].full = s.mode[v].full
             /\ c \in t.mapped <=> c \in s.mapped
             /\ t.wmstate[c] \in {s.wmstate[c], "Withdrawn"}
             /\ c \notin t.strip
             /\ Calm(s, t) /\ Chosen(t) /\ Plain(t)
<1> DEFINE p == Parted(s, c, destroyed)
           f == focus(p, NULL)
           u == updateclientlist(f)
           t == arrange(u, s.mon[c])
<1>1. c \in Win
  BY ManagedLemma
<1>2. Good(p) /\ Managed(p) = Managed(s) \ {c}
  BY PartedLemma
<1>3. /\ \A v \in Win \ {c} : /\ AsBefore(s, p, v)
                              /\ p.mode[v].full = s.mode[v].full
      /\ c \in p.mapped <=> c \in s.mapped
      /\ p.wmstate[c] \in {s.wmstate[c], "Withdrawn"}
      /\ c \notin p.strip
      /\ Calm(s, p)
  BY PartedWindows
<1>4. unmanage(s, c, destroyed) = t
  BY UnmanageParted
<1> HIDE DEF p
<1>5. Works(p, f) /\ Chosen(f) /\ Plain(f)
  BY <1>2, StepsSelf, StepsFocus
<1>6. Good(f)
  BY <1>5, WorksGood
<1> HIDE DEF f
<1>7. SameChoice(f, u) /\ Aside(f, u)
  BY <1>6, GoodRecord DEF SameChoice, Unmoved, SameViews, Aside, updateclientlist, Fields
<1> HIDE DEF u
<1>8. SameChoice(u, t) /\ Aside(u, t)
  <2>1. DOMAIN u = Fields
    BY <1>7 DEF Aside
  <2> QED BY <2>1, AsideLemma DEF SameChoice, Unmoved, SameViews, arrange, restack, Fields
<1> HIDE DEF t
<1>9. Chosen(t) /\ Plain(t)
  BY <1>5, <1>7, <1>8, SameChoiceLemma
<1>10. Tidy(Managed(p), p, t) /\ Calm(p, t)
  <2>1. Tidy(Managed(p), p, f) /\ Calm(p, f)
    BY <1>5 DEF Works, Steps
  <2>2. Tidy(Managed(p), f, t) /\ Calm(f, t)
    BY <1>7, <1>8, AsideTrans, AsideTidy
  <2> QED BY <2>1, <2>2, TidyTrans, CalmTrans
<1>11. Calm(s, t)
  BY <1>3, <1>10, CalmTrans
<1>12. \A v \in Win \ {c} :
        /\ AsBefore(s, t, v) \/ (v \in Managed(s) /\ (Away(t, v) \/ Shown(t, v)))
        /\ t.mode[v].full = s.mode[v].full
  BY <1>2, <1>3, <1>10 DEF Tidy, AsBefore
<1>13. AsBefore(p, t, c)
  BY <1>1, <1>2, <1>10 DEF Tidy
<1> QED BY <1>3, <1>4, <1>9, <1>11, <1>12, <1>13 DEF AsBefore

-----------------------------------------------------------------------------
(* States with a geometry.  What an operator of this module does to a state *)
(* with more fields is what it does to its Base, and it leaves the others. *)

\* The part of a state that DwmState is about.
Base(s) == [f \in Fields |-> s[f]]

\* The fields of DwmGeometry, which the operators of DwmState leave alone.
Extent == {"head", "bar", "lay", "gap", "nmaster", "mfact", "geo", "old", "sm",
           "bw", "oldbw", "xbw", "nmons", "screen"}

Full(s) == s = [f \in Fields \cup Extent |-> s[f]]

SameExtent(s, t) == Full(t) /\ \A f \in Extent : t[f] = s[f]

\* t is what op makes of s, seen from DwmState: b is what it makes of Base(s).
Follows(s, t, b) == Base(t) = b /\ SameExtent(s, t)

LEMMA BaseFields ==
  ASSUME NEW s
  PROVE  /\ Base(s).clients = s.clients /\ Base(s).stack = s.stack
         /\ Base(s).sel = s.sel /\ Base(s).hidsel = s.hidsel
         /\ Base(s).tagset = s.tagset /\ Base(s).seltags = s.seltags
         /\ Base(s).tiling = s.tiling /\ Base(s).mon = s.mon
         /\ Base(s).tags = s.tags /\ Base(s).urgent = s.urgent
         /\ Base(s).mode = s.mode /\ Base(s).selmon = s.selmon
         /\ Base(s).alive = s.alive /\ Base(s).mapped = s.mapped
         /\ Base(s).wmstate = s.wmstate /\ Base(s).strip = s.strip
         /\ Base(s).hint = s.hint /\ Base(s).fsprop = s.fsprop
         /\ Base(s).focus = s.focus /\ Base(s).active = s.active
         /\ Base(s).list = s.list /\ Base(s).enterq = s.enterq
  BY DEF Base, Fields


\* What is read of a state is read of its base.
LEMMA BaseReads ==
  ASSUME NEW s
  PROVE  /\ \A m : View(Base(s), m) = View(s, m)
         /\ \A c : ISVISIBLE(Base(s), c) = ISVISIBLE(s, c)
         /\ \A c : HIDDEN(Base(s), c) = HIDDEN(s, c)
         /\ \A m : VisibleOn(Base(s), m) = VisibleOn(s, m)
         /\ \A m : ShownOn(Base(s), m) = ShownOn(s, m)
         /\ \A c : FocusTarget(Base(s), c) = FocusTarget(s, c)
         /\ Managed(Base(s)) = Managed(s)
         /\ Consistent(Base(s)) <=> Consistent(s)
         /\ Selected(Base(s)) = Selected(s)
<1> USE BaseFields
<1>1. \A m : View(Base(s), m) = View(s, m)
  BY DEF View
<1>2. \A c : ISVISIBLE(Base(s), c) = ISVISIBLE(s, c)
  BY <1>1 DEF ISVISIBLE
<1>3. \A c : HIDDEN(Base(s), c) = HIDDEN(s, c)
  BY DEF HIDDEN
<1>4. \A m : VisibleOn(Base(s), m) = VisibleOn(s, m)
  BY <1>2 DEF VisibleOn
<1>5. \A m : ShownOn(Base(s), m) = ShownOn(s, m)
  BY <1>3, <1>4 DEF ShownOn
<1>6. \A c : FocusTarget(Base(s), c) = FocusTarget(s, c)
  BY <1>2, <1>5 DEF FocusTarget
<1>7. Managed(Base(s)) = Managed(s) /\ (Consistent(Base(s)) <=> Consistent(s))
  BY DEF Managed, Consistent
<1>8. Selected(Base(s)) = Selected(s)
  BY DEF Selected
<1> QED BY <1>1, <1>2, <1>3, <1>4, <1>5, <1>6, <1>7, <1>8

LEMMA FollowsSelf ==
  ASSUME NEW s, Full(s)
  PROVE  Follows(s, s, Base(s))
  BY DEF Follows, SameExtent

LEMMA FollowsTrans ==
  ASSUME NEW s, NEW t, NEW u, NEW b, NEW d, Follows(s, t, b), Follows(t, u, d)
  PROVE  Follows(s, u, d)
  BY DEF Follows, SameExtent

\* A field that DwmState knows gets a new value.
Put(s, f, v) == [s EXCEPT ![f] = v]

LEMMA PutBase ==
  ASSUME NEW s, Full(s), NEW f \in Fields, NEW v
  PROVE  Follows(s, Put(s, f, v), Put(Base(s), f, v)) /\ Full(Put(s, f, v))
<1>1. DOMAIN s = Fields \cup Extent
  BY DEF Full
<1>2. Full(Put(s, f, v))
  BY <1>1 DEF Full, Put
<1>3. \A g \in Extent : g # f
  BY DEF Fields, Extent
<1>4. \A g \in Extent : Put(s, f, v)[g] = s[g]
  BY <1>1, <1>3 DEF Put
<1>5. Base(Put(s, f, v)) = Put(Base(s), f, v)
  BY <1>1 DEF Base, Put
<1> QED BY <1>2, <1>4, <1>5 DEF Follows, SameExtent

LEMMA PutTwo ==
  ASSUME NEW s, Full(s), NEW f \in Fields, NEW v, NEW g \in Fields, NEW w
  PROVE  Follows(s, Put(Put(s, f, v), g, w), Put(Put(Base(s), f, v), g, w))
<1>1. Follows(s, Put(s, f, v), Put(Base(s), f, v)) /\ Full(Put(s, f, v))
  BY PutBase
<1>2. Follows(Put(s, f, v), Put(Put(s, f, v), g, w), Put(Base(Put(s, f, v)), g, w))
  BY <1>1, PutBase
<1> QED BY <1>1, <1>2, FollowsTrans DEF Follows

LEMMA PutThree ==
  ASSUME NEW s, Full(s), NEW f \in Fields, NEW v, NEW g \in Fields, NEW w,
         NEW h \in Fields, NEW x
  PROVE  Follows(s, Put(Put(Put(s, f, v), g, w), h, x),
                 Put(Put(Put(Base(s), f, v), g, w), h, x))
<1> DEFINE t == Put(Put(s, f, v), g, w)
<1>1. Follows(s, t, Put(Put(Base(s), f, v), g, w)) /\ Full(t)
  BY PutTwo DEF Follows, SameExtent
<1> HIDE DEF t
<1>2. Follows(t, Put(t, h, x), Put(Base(t), h, x))
  BY <1>1, PutBase
<1>3. Follows(s, Put(t, h, x), Put(Put(Put(Base(s), f, v), g, w), h, x))
  BY <1>1, <1>2, FollowsTrans DEF Follows
<1> QED BY <1>3 DEF t

\* The operators that change fields, one by one.
LEMMA SetBase ==
  ASSUME NEW s, Full(s)
  PROVE  /\ \A m : Follows(s, [s EXCEPT !.selmon = m], [Base(s) EXCEPT !.selmon = m])
         /\ \A m, x : Follows(s, [s EXCEPT !.sel[m] = x], [Base(s) EXCEPT !.sel[m] = x])
         /\ \A m, x : Follows(s, [s EXCEPT !.hidsel[m] = x], [Base(s) EXCEPT !.hidsel[m] = x])
         /\ \A c, x : Follows(s, [s EXCEPT !.mode[c] = x], [Base(s) EXCEPT !.mode[c] = x])
<1>1. {"selmon", "sel", "hidsel", "mode"} \subseteq Fields
  BY DEF Fields
<1>2. ASSUME NEW m PROVE Follows(s, [s EXCEPT !.selmon = m], [Base(s) EXCEPT !.selmon = m])
  BY <1>1, PutBase DEF Put
<1>3. ASSUME NEW m, NEW x
      PROVE  Follows(s, [s EXCEPT !.sel[m] = x], [Base(s) EXCEPT !.sel[m] = x])
  BY <1>1, PutBase, BaseFields DEF Put
<1>4. ASSUME NEW m, NEW x
      PROVE  Follows(s, [s EXCEPT !.hidsel[m] = x], [Base(s) EXCEPT !.hidsel[m] = x])
  BY <1>1, PutBase, BaseFields DEF Put
<1>5. ASSUME NEW c, NEW x
      PROVE  Follows(s, [s EXCEPT !.mode[c] = x], [Base(s) EXCEPT !.mode[c] = x])
  BY <1>1, PutBase, BaseFields DEF Put
<1> QED BY <1>2, <1>3, <1>4, <1>5

LEMMA RequestBase ==
  ASSUME NEW s, Full(s), NEW c
  PROVE  /\ Follows(s, XUnmapWindow(s, c), XUnmapWindow(Base(s), c))
         /\ Follows(s, XSetInputFocus(s, c), XSetInputFocus(Base(s), c))
         /\ Follows(s, FocusRoot(s), FocusRoot(Base(s)))
         /\ \A x : Follows(s, setclientstate(s, c, x), setclientstate(Base(s), c, x))
<1>1. {"mapped", "focus", "active", "wmstate"} \subseteq Fields
  BY DEF Fields
<1> USE <1>1, BaseFields
<1>2. Follows(s, XUnmapWindow(s, c), XUnmapWindow(Base(s), c))
  BY PutTwo DEF XUnmapWindow, Put
<1>3. Follows(s, XSetInputFocus(s, c), XSetInputFocus(Base(s), c))
  BY PutBase, FollowsSelf DEF XSetInputFocus, Put
<1>4. Follows(s, FocusRoot(s), FocusRoot(Base(s)))
  BY PutTwo DEF FocusRoot, Put
<1>5. ASSUME NEW x PROVE Follows(s, setclientstate(s, c, x), setclientstate(Base(s), c, x))
  BY PutBase, FollowsSelf DEF setclientstate, Put
<1> QED BY <1>2, <1>3, <1>4, <1>5

LEMMA ListBase ==
  ASSUME NEW s, Full(s), NEW c
  PROVE  /\ Follows(s, attach(s, c), attach(Base(s), c))
         /\ Follows(s, detach(s, c), detach(Base(s), c))
         /\ Follows(s, attachstack(s, c), attachstack(Base(s), c))
         /\ Follows(s, detachstack(s, c), detachstack(Base(s), c))
<1>1. {"clients", "stack", "sel"} \subseteq Fields
  BY DEF Fields
<1> DEFINE m == s.mon[c]
           rest == Unlink(s.stack[m], c)
           next == FirstIn(rest, VisibleOn(s, m))
           sel == [s.sel EXCEPT ![m] = IF @ = c THEN next ELSE @]
<1>2. Follows(s, attach(s, c), attach(Base(s), c))
  BY <1>1, BaseFields, PutBase DEF attach, Put
<1>3. Follows(s, detach(s, c), detach(Base(s), c))
  <2> DEFINE v == [s.clients EXCEPT ![m] = Unlink(@, c)]
  <2>1. detach(s, c) = Put(s, "clients", v) /\ detach(Base(s), c) = Put(Base(s), "clients", v)
    BY BaseFields DEF detach, Put
  <2> HIDE DEF v
  <2> QED BY <1>1, <2>1, PutBase
<1>4. Follows(s, attachstack(s, c), attachstack(Base(s), c))
  BY <1>1, BaseFields, PutBase DEF attachstack, Put
<1>5. Follows(s, detachstack(s, c), detachstack(Base(s), c))
  <2> DEFINE v == [s.stack EXCEPT ![m] = rest]
             D(z, n, r, k) == [z EXCEPT !.stack[n] = r, !.sel[n] = IF @ = c THEN k ELSE @]
  <2>1. \A z : detachstack(z, c) =
                 D(z, z.mon[c], Unlink(z.stack[z.mon[c]], c),
                   FirstIn(Unlink(z.stack[z.mon[c]], c), VisibleOn(z, z.mon[c])))
    BY DEF detachstack
  <2>2. Base(s).mon = s.mon /\ Base(s).stack = s.stack /\ Base(s).sel = s.sel
    BY BaseFields
  <2>3. VisibleOn(Base(s), m) = VisibleOn(s, m)
    BY BaseReads
  <2> HIDE DEF D
  <2>4. detachstack(s, c) = D(s, m, rest, next)
    BY <2>1
  <2>5. detachstack(Base(s), c) = D(Base(s), m, rest, next)
    BY <2>1, <2>2, <2>3
  <2> HIDE DEF m, rest, next
  <2>6. detachstack(s, c) = Put(Put(s, "stack", v), "sel", sel)
    BY <2>4 DEF Put, D
  <2>7. detachstack(Base(s), c) = Put(Put(Base(s), "stack", v), "sel", sel)
    BY <2>2, <2>5 DEF Put, D
  <2> HIDE DEF v, sel
  <2> QED BY <1>1, <2>6, <2>7, PutTwo
<1> QED BY <1>2, <1>3, <1>4, <1>5

LEMMA MarkBase ==
  ASSUME NEW s, Full(s), NEW c, NEW b
  PROVE  /\ Follows(s, unfocus(s, c, b), unfocus(Base(s), c, b))
         /\ Follows(s, setfocus(s, c), setfocus(Base(s), c))
         /\ Follows(s, seturgent(s, c, b), seturgent(Base(s), c, b))
         /\ Follows(s, restack(s, c), restack(Base(s), c))
         /\ Follows(s, arrange(s, c), arrange(Base(s), c))
<1>1. {"focus", "active", "urgent", "hint", "enterq"} \subseteq Fields
  BY DEF Fields
<1>2. Follows(s, unfocus(s, c, b), unfocus(Base(s), c, b))
  BY FollowsSelf, RequestBase DEF unfocus
<1>3. Follows(s, setfocus(s, c), setfocus(Base(s), c))
  <2> DEFINE x(z) == XSetInputFocus(z, c)
  <2>1. Follows(s, x(s), x(Base(s))) /\ Full(x(s)) /\ Base(x(s)) = x(Base(s))
    BY RequestBase DEF Follows, SameExtent
  <2> HIDE DEF x
  <2>2. Follows(x(s), Put(x(s), "active", c), Put(x(Base(s)), "active", c))
    BY <1>1, <2>1, PutBase
  <2>3. Follows(s, Put(x(s), "active", c), Put(x(Base(s)), "active", c))
    BY <2>1, <2>2, FollowsTrans
  <2>4. \A z : setfocus(z, c) = IF c \in NeverFocus THEN z ELSE Put(x(z), "active", c)
    BY DEF setfocus, Put, x
  <2> QED BY <2>3, <2>4, FollowsSelf
<1>4. Follows(s, seturgent(s, c, b), seturgent(Base(s), c, b))
  <2> DEFINE u == IF b THEN s.urgent \cup {c} ELSE s.urgent \ {c}
             h == IF b THEN s.hint \cup {c} ELSE s.hint \ {c}
  <2>1. /\ seturgent(s, c, b) = Put(Put(s, "urgent", u), "hint", h)
        /\ seturgent(Base(s), c, b) = Put(Put(Base(s), "urgent", u), "hint", h)
    BY BaseFields DEF seturgent, Put
  <2> HIDE DEF u, h
  <2> QED BY <1>1, <2>1, PutTwo
<1>5. Follows(s, restack(s, c), restack(Base(s), c))
  BY <1>1, BaseFields, PutBase, FollowsSelf DEF restack, Put
<1> QED BY <1>2, <1>3, <1>4, <1>5 DEF arrange

LEMMA HideBase ==
  ASSUME NEW s, Full(s), NEW c
  PROVE  /\ Follows(s, hidewin(s, c), hidewin(Base(s), c))
         /\ Follows(s, showwin(s, c), showwin(Base(s), c))
<1>1. {"strip", "mapped", "wmstate"} \subseteq Fields
  BY DEF Fields
<1> DEFINE x(z) == XUnmapWindow(z, c)
           y(z) == [z EXCEPT !.strip = @ \ {c}]
           v(z) == [z EXCEPT !.mapped = @ \cup {c}, !.strip = @ \cup {c},
                             !.wmstate[c] = "Normal"]
<1>2. Follows(s, x(s), x(Base(s))) /\ Full(x(s)) /\ Base(x(s)) = x(Base(s))
  BY RequestBase DEF Follows, SameExtent
<1> HIDE DEF x
<1>3. ASSUME NEW z, Full(z) PROVE Follows(z, y(z), y(Base(z))) /\ Follows(z, v(z), v(Base(z)))
  <2> DEFINE p == z.strip \ {c}
             q == z.mapped \cup {c}
             r == z.strip \cup {c}
             w == [z.wmstate EXCEPT ![c] = "Normal"]
  <2>1. y(z) = Put(z, "strip", p) /\ y(Base(z)) = Put(Base(z), "strip", p)
    BY BaseFields DEF Put
  <2>2. /\ v(z) = Put(Put(Put(z, "mapped", q), "strip", r), "wmstate", w)
        /\ v(Base(z)) = Put(Put(Put(Base(z), "mapped", q), "strip", r), "wmstate", w)
    BY BaseFields DEF Put
  <2> HIDE DEF p, q, r, w, y, v
  <2> QED BY <1>1, <1>3, <2>1, <2>2, PutBase, PutThree
<1> HIDE DEF y, v
<1>4. Follows(s, y(x(s)), y(x(Base(s))))
  BY <1>2, <1>3, FollowsTrans
<1> DEFINE h(z) == setclientstate(y(x(z)), c, "Iconic")
<1>5. Follows(s, h(s), h(Base(s)))
  <2> DEFINE u == y(x(s))
  <2>1. Full(u) /\ Base(u) = y(x(Base(s))) /\ Follows(s, u, Base(u))
    BY <1>4 DEF Follows, SameExtent
  <2> HIDE DEF u
  <2>2. Follows(s, setclientstate(u, c, "Iconic"), setclientstate(Base(u), c, "Iconic"))
    BY <2>1, RequestBase, FollowsTrans
  <2> QED BY <2>1, <2>2 DEF u
<1>6. Follows(s, arrange(v(s), s.mon[c]), arrange(v(Base(s)), s.mon[c]))
  <2> DEFINE u == v(s)
             m == s.mon[c]
  <2>1. Full(u) /\ Base(u) = v(Base(s)) /\ Follows(s, u, Base(u))
    BY <1>3 DEF Follows, SameExtent
  <2> HIDE DEF u, m
  <2>2. Follows(s, arrange(u, m), arrange(Base(u), m))
    BY <2>1, MarkBase, FollowsTrans
  <2> QED BY <2>1, <2>2 DEF u, m
<1>7. \A z : hidewin(z, c) = IF c = NULL \/ HIDDEN(z, c) THEN z ELSE h(z)
  BY DEF hidewin, h, y, x
<1>8. \A z : showwin(z, c) = IF c = NULL \/ ~HIDDEN(z, c) THEN z ELSE arrange(v(z), z.mon[c])
  BY DEF showwin, v
<1> HIDE DEF h
<1> QED BY <1>5, <1>6, <1>7, <1>8, BaseReads, BaseFields, FollowsSelf

LEMMA PutFive ==
  ASSUME NEW s, Full(s), NEW f \in Fields, NEW v, NEW g \in Fields, NEW w,
         NEW h \in Fields, NEW x, NEW i \in Fields, NEW y, NEW j \in Fields, NEW z
  PROVE  Follows(s, Put(Put(Put(Put(Put(s, f, v), g, w), h, x), i, y), j, z),
                 Put(Put(Put(Put(Put(Base(s), f, v), g, w), h, x), i, y), j, z))
<1> DEFINE t == Put(Put(Put(s, f, v), g, w), h, x)
<1>1. Follows(s, t, Put(Put(Put(Base(s), f, v), g, w), h, x)) /\ Full(t)
  BY PutThree DEF Follows, SameExtent
<1> HIDE DEF t
<1>2. Follows(t, Put(Put(t, i, y), j, z), Put(Put(Base(t), i, y), j, z))
  BY <1>1, PutTwo
<1>3. Follows(s, Put(Put(t, i, y), j, z),
              Put(Put(Put(Put(Put(Base(s), f, v), g, w), h, x), i, y), j, z))
  BY <1>1, <1>2, FollowsTrans DEF Follows
<1> QED BY <1>3 DEF t

\* focus().
LEMMA LeaveSelectedBase ==
  ASSUME NEW s, Full(s), NEW c
  PROVE  Follows(s, LeaveSelected(s, c), LeaveSelected(Base(s), c))
<1> DEFINE m == s.selmon
           h(z) == hidewin(z, s.sel[m])
           k(z) == IF c = NULL THEN z ELSE arrange(z, z.mon[c])
           o(z) == [z EXCEPT !.hidsel[m] = FALSE]
<1>1. Follows(s, h(s), h(Base(s))) /\ Full(h(s)) /\ Base(h(s)) = h(Base(s))
  BY HideBase DEF Follows, SameExtent
<1>2. ASSUME NEW z, Full(z) PROVE Follows(z, k(z), k(Base(z))) /\ Follows(z, o(z), o(Base(z)))
  BY <1>2, MarkBase, BaseFields, FollowsSelf, SetBase
<1>3. \A z : z.selmon = m /\ z.sel = s.sel =>
        LeaveSelected(z, c) = IF z.sel[m] \in {NULL, c} \/ ~z.hidsel[m] THEN z ELSE o(k(h(z)))
  BY DEF LeaveSelected
<1> HIDE DEF h, k, o
<1>4. Follows(s, k(h(s)), k(h(Base(s)))) /\ Full(k(h(s))) /\ Base(k(h(s))) = k(h(Base(s)))
  BY <1>1, <1>2, FollowsTrans DEF Follows, SameExtent
<1>5. Follows(s, o(k(h(s))), o(k(h(Base(s)))))
  BY <1>2, <1>4, FollowsTrans
<1>6. Base(s).selmon = m /\ Base(s).sel = s.sel /\ Base(s).hidsel = s.hidsel
  BY BaseFields
<1> QED BY <1>3, <1>5, <1>6, FollowsSelf

LEMMA SelectBase ==
  ASSUME NEW s, Full(s), NEW c
  PROVE  Follows(s, Select(s, c), Select(Base(s), c))
<1> DEFINE m == s.mon[c]
           r(z) == FocusRoot(z)
           q(z) == [z EXCEPT !.sel[s.selmon] = NULL]
           u(z) == IF c \in s.urgent THEN seturgent(z, c, FALSE) ELSE z
           v(z) == [z EXCEPT !.selmon = m]
           d(z) == detachstack(z, c)
           a(z) == attachstack(z, c)
           g(z) == setfocus(z, c)
           e(z) == [z EXCEPT !.sel[m] = c]
<1>1. \A z : z.selmon = s.selmon /\ z.mon = s.mon /\ z.urgent = s.urgent =>
        Select(z, c) = IF c = NULL THEN q(r(z)) ELSE e(g(a(d(v(u(z))))))
  BY DEF Select
<1>2. ASSUME NEW z, Full(z)
      PROVE  /\ Follows(z, r(z), r(Base(z))) /\ Follows(z, q(z), q(Base(z)))
             /\ Follows(z, u(z), u(Base(z))) /\ Follows(z, v(z), v(Base(z)))
             /\ Follows(z, d(z), d(Base(z))) /\ Follows(z, a(z), a(Base(z)))
             /\ Follows(z, g(z), g(Base(z))) /\ Follows(z, e(z), e(Base(z)))
  BY <1>2, RequestBase, SetBase, MarkBase, ListBase, FollowsSelf
<1> HIDE DEF r, q, u, v, d, a, g, e
<1>3. Base(s).selmon = s.selmon /\ Base(s).mon = s.mon /\ Base(s).urgent = s.urgent
  BY BaseFields
<1>4. \A x, y, b : Follows(x, y, b) => Base(y) = b /\ Full(y)
  BY DEF Follows, SameExtent
<1>5. Follows(s, q(r(s)), q(r(Base(s))))
  BY <1>2, <1>4, FollowsTrans
<1>6. Follows(s, d(v(u(s))), d(v(u(Base(s)))))
  <2>1. Follows(s, u(s), u(Base(s))) /\ Full(u(s)) /\ Base(u(s)) = u(Base(s))
    BY <1>2, <1>4
  <2>2. Follows(s, v(u(s)), v(u(Base(s)))) /\ Full(v(u(s))) /\ Base(v(u(s))) = v(u(Base(s)))
    BY <2>1, <1>2, <1>4, FollowsTrans
  <2> QED BY <2>2, <1>2, FollowsTrans
<1> DEFINE t == d(v(u(s)))
           b == d(v(u(Base(s))))
<1>7. Follows(s, t, b) /\ Full(t) /\ Base(t) = b
  BY <1>4, <1>6
<1> HIDE DEF t, b
<1>8. Follows(s, a(t), a(b)) /\ Full(a(t)) /\ Base(a(t)) = a(b)
  BY <1>2, <1>4, <1>7, FollowsTrans
<1>9. Follows(s, g(a(t)), g(a(b))) /\ Full(g(a(t))) /\ Base(g(a(t))) = g(a(b))
  BY <1>2, <1>4, <1>8, FollowsTrans
<1>10. Follows(s, e(g(a(t))), e(g(a(b))))
  BY <1>2, <1>9, FollowsTrans
<1>11. /\ Select(s, c) = IF c = NULL THEN q(r(s)) ELSE e(g(a(t)))
       /\ Select(Base(s), c) = IF c = NULL THEN q(r(Base(s))) ELSE e(g(a(b)))
  BY <1>1, <1>3 DEF t, b
<1> QED BY <1>5, <1>10, <1>11

LEMMA FocusBase ==
  ASSUME NEW s, Full(s), NEW c
  PROVE  Follows(s, focus(s, c), focus(Base(s), c))
<1> DEFINE g == FocusTarget(s, c)
           l == LeaveSelected(s, g)
<1>1. FocusTarget(Base(s), c) = g
  BY BaseReads
<1> HIDE DEF g
<1>2. Follows(s, l, LeaveSelected(Base(s), g))
  BY LeaveSelectedBase
<1>3. Full(l) /\ Base(l) = LeaveSelected(Base(s), g)
  BY <1>2 DEF Follows, SameExtent
<1> HIDE DEF l
<1>4. Follows(s, Select(l, g), Select(Base(l), g))
  BY <1>2, <1>3, SelectBase, FollowsTrans
<1>5. focus(s, c) = Select(l, g) /\ focus(Base(s), c) = Select(LeaveSelected(Base(s), g), g)
  BY <1>1 DEF focus, g, l
<1> QED BY <1>3, <1>4, <1>5

LEMMA SwitchMonBase ==
  ASSUME NEW s, Full(s), NEW m
  PROVE  Follows(s, SwitchMon(s, m), SwitchMon(Base(s), m))
<1> DEFINE k == s.sel[s.selmon]
           u(z) == unfocus(z, k, TRUE)
           v(z) == [z EXCEPT !.selmon = m]
           f(z) == focus(z, NULL)
<1> HIDE DEF k
<1>1. Follows(s, u(s), u(Base(s))) /\ Full(u(s)) /\ Base(u(s)) = u(Base(s))
  <2>1. Follows(s, u(s), u(Base(s)))
    BY MarkBase
  <2> QED BY <2>1 DEF Follows, SameExtent
<1>2. ASSUME NEW z, Full(z) PROVE Follows(z, v(z), v(Base(z))) /\ Follows(z, f(z), f(Base(z)))
  BY <1>2, SetBase, FocusBase
<1>3. SwitchMon(s, m) = f(v(u(s))) /\ SwitchMon(Base(s), m) = f(v(u(Base(s))))
  BY BaseFields DEF SwitchMon, k
<1> HIDE DEF u, v, f
<1>4. Follows(s, v(u(s)), v(u(Base(s)))) /\ Full(v(u(s))) /\ Base(v(u(s))) = v(u(Base(s)))
  BY <1>1, <1>2, FollowsTrans DEF Follows, SameExtent
<1>5. Follows(s, f(v(u(s))), f(v(u(Base(s)))))
  BY <1>2, <1>4, FollowsTrans
<1> QED BY <1>3, <1>5

\* What the other functions of DwmState are made of.
LEMMA PlaceBase ==
  ASSUME NEW s, Full(s), NEW c, NEW m, NEW g
  PROVE  /\ Follows(s, [s EXCEPT !.mon[c] = m], [Base(s) EXCEPT !.mon[c] = m])
         /\ Follows(s, [s EXCEPT !.mon[c] = m, !.tags[c] = g],
                       [Base(s) EXCEPT !.mon[c] = m, !.tags[c] = g])
<1>1. {"mon", "tags"} \subseteq Fields
  BY DEF Fields
<1> DEFINE u == [s.mon EXCEPT ![c] = m]
           v == [s.tags EXCEPT ![c] = g]
<1>2. /\ [s EXCEPT !.mon[c] = m] = Put(s, "mon", u)
      /\ [Base(s) EXCEPT !.mon[c] = m] = Put(Base(s), "mon", u)
  BY BaseFields DEF Put
<1>3. /\ [s EXCEPT !.mon[c] = m, !.tags[c] = g] = Put(Put(s, "mon", u), "tags", v)
      /\ [Base(s) EXCEPT !.mon[c] = m, !.tags[c] = g] = Put(Put(Base(s), "mon", u), "tags", v)
  BY BaseFields DEF Put
<1> HIDE DEF u, v
<1> QED BY <1>1, <1>2, <1>3, PutBase, PutTwo

LEMMA FieldBase ==
  ASSUME NEW s, Full(s)
  PROVE  /\ \A x : Follows(s, [s EXCEPT !.list = x], [Base(s) EXCEPT !.list = x])
         /\ \A x, y : Follows(s, [s EXCEPT !.mapped = x, !.strip = y],
                                 [Base(s) EXCEPT !.mapped = x, !.strip = y])
         /\ \A x, y : Follows(s, [s EXCEPT !.mapped = x, !.focus = y],
                                 [Base(s) EXCEPT !.mapped = x, !.focus = y])
         /\ \A x, y, z : Follows(s, [s EXCEPT !.fsprop = x, !.strip = y, !.mode = z],
                                    [Base(s) EXCEPT !.fsprop = x, !.strip = y, !.mode = z])
<1> USE DEF Put
<1>1. {"list", "mapped", "strip", "focus", "fsprop", "mode"} \subseteq Fields
  BY DEF Fields
<1>2. ASSUME NEW x PROVE Follows(s, [s EXCEPT !.list = x], [Base(s) EXCEPT !.list = x])
  BY <1>1, PutBase
<1>3. ASSUME NEW x, NEW y
      PROVE  /\ Follows(s, [s EXCEPT !.mapped = x, !.strip = y],
                           [Base(s) EXCEPT !.mapped = x, !.strip = y])
             /\ Follows(s, [s EXCEPT !.mapped = x, !.focus = y],
                           [Base(s) EXCEPT !.mapped = x, !.focus = y])
  BY <1>1, PutTwo
<1>4. ASSUME NEW x, NEW y, NEW z
      PROVE  Follows(s, [s EXCEPT !.fsprop = x, !.strip = y, !.mode = z],
                        [Base(s) EXCEPT !.fsprop = x, !.strip = y, !.mode = z])
  BY <1>1, PutThree
<1> QED BY <1>2, <1>3, <1>4

LEMMA SetfullscreenBase ==
  ASSUME NEW s, Full(s), NEW c, NEW on
  PROVE  Follows(s, setfullscreen(s, c, on), setfullscreen(Base(s), c, on))
<1> DEFINE x(d) == [d EXCEPT ![c] = [@ EXCEPT !.full = TRUE, !.float = TRUE, !.old = d[c].float]]
           y(d) == [d EXCEPT ![c] = [@ EXCEPT !.full = FALSE, !.float = d[c].old]]
           u(z) == [z EXCEPT !.fsprop = z.fsprop \cup {c}, !.strip = z.strip \ {c}, !.mode = x(z.mode)]
           v(z) == [z EXCEPT !.fsprop = z.fsprop \ {c}, !.strip = z.strip \cup {c}, !.mode = y(z.mode)]
           a(z) == arrange(z, s.mon[c])
<1>1. ASSUME NEW z
      PROVE  setfullscreen(z, c, on) =
               IF on /\ ~z.mode[c].full THEN u(z)
               ELSE IF ~on /\ z.mode[c].full THEN arrange(v(z), z.mon[c]) ELSE z
  BY DEF setfullscreen
<1>2. Base(s).mode = s.mode /\ Base(s).fsprop = s.fsprop /\ Base(s).strip = s.strip
      /\ Base(s).mon = s.mon
  BY BaseFields
<1> HIDE DEF x, y
<1>3. Follows(s, u(s), u(Base(s))) /\ Follows(s, v(s), v(Base(s)))
  <2> DEFINE p(z, f, g, h) == [z EXCEPT !.fsprop = f, !.strip = g, !.mode = h]
  <2>1. \A f, g, h : Follows(s, p(s, f, g, h), p(Base(s), f, g, h))
    BY FieldBase
  <2>2. \A z : /\ u(z) = p(z, z.fsprop \cup {c}, z.strip \ {c}, x(z.mode))
               /\ v(z) = p(z, z.fsprop \ {c}, z.strip \cup {c}, y(z.mode))
    OBVIOUS
  <2> HIDE DEF p, u, v
  <2>3. /\ u(Base(s)) = p(Base(s), s.fsprop \cup {c}, s.strip \ {c}, x(s.mode))
        /\ v(Base(s)) = p(Base(s), s.fsprop \ {c}, s.strip \cup {c}, y(s.mode))
    BY <1>2, <2>2
  <2>4. /\ u(s) = p(s, s.fsprop \cup {c}, s.strip \ {c}, x(s.mode))
        /\ v(s) = p(s, s.fsprop \ {c}, s.strip \cup {c}, y(s.mode))
    BY <2>2
  <2>5. Follows(s, u(s), u(Base(s)))
    BY <2>1, <2>3, <2>4
  <2>6. Follows(s, v(s), v(Base(s)))
    BY <2>1, <2>3, <2>4
  <2> QED BY <2>5, <2>6
<1> HIDE DEF u, v
<1>4. Follows(s, a(v(s)), a(v(Base(s))))
  <2>1. Full(v(s)) /\ Base(v(s)) = v(Base(s))
    BY <1>3 DEF Follows, SameExtent
  <2>2. Follows(v(s), a(v(s)), a(Base(v(s))))
    BY <2>1, MarkBase
  <2> QED BY <1>3, <2>1, <2>2, FollowsTrans
<1> QED BY <1>1, <1>2, <1>3, <1>4, FollowsSelf

LEMMA JoinedBase ==
  ASSUME NEW s, Full(s), NEW w
  PROVE  Follows(s, Joined(s, w), Joined(Base(s), w))
<1> DEFINE k == TransientFor[w]
           M(z) == IF k \in Managed(z) THEN z.mon[k] ELSE z.selmon
           G(z) == IF k \in Managed(z) THEN z.tags[k] ELSE View(z, z.selmon)
           I(z) == [z EXCEPT !.mon[w] = M(z), !.tags[w] = G(z),
                             !.mode[w] = ManagedMode(z, w),
                             !.urgent = IF w \in z.hint THEN @ \cup {w} ELSE @ \ {w},
                             !.list = @ \cup {w}]
           a(z) == attachstack(attach(z, w), w)
           n(z) == IF HIDDEN(z, w) THEN z ELSE setclientstate(z, w, "Normal")
           B(z, m) == [z EXCEPT !.sel[m] = w]
           R(z, m) == arrange(z, m)
           q(z) == IF HIDDEN(z, w) THEN z
                   ELSE [z EXCEPT !.mapped = @ \cup {w}, !.strip = @ \cup {w}]
<1>1. \A z : Joined(z, w) = q(R(B(n(a(I(z))), M(z)), M(z)))
  BY DEF Joined
<1>2. M(Base(s)) = M(s) /\ G(Base(s)) = G(s) /\ ManagedMode(Base(s), w) = ManagedMode(s, w)
  <2>1. Base(s).mon = s.mon /\ Base(s).tags = s.tags /\ Base(s).fsprop = s.fsprop
        /\ Base(s).selmon = s.selmon
    BY BaseFields
  <2>2. Managed(Base(s)) = Managed(s) /\ View(Base(s), s.selmon) = View(s, s.selmon)
    BY BaseReads
  <2>3. ManagedMode(Base(s), w) = ManagedMode(s, w)
    BY <2>1, <2>2 DEF ManagedMode
  <2> QED BY <2>1, <2>2, <2>3
<1> HIDE DEF M, G
<1>3. Follows(s, I(s), I(Base(s)))
  <2> DEFINE F1(d, m) == [d EXCEPT ![w] = m]
             F4(h, d) == IF w \in h THEN d \cup {w} ELSE d \ {w}
             P(z, f1, f2, f3, f4, f5) ==
               Put(Put(Put(Put(Put(z, "mon", f1), "tags", f2), "mode", f3),
                       "urgent", f4), "list", f5)
  <2>1. \A z : I(z) = P(z, F1(z.mon, M(z)), F1(z.tags, G(z)), F1(z.mode, ManagedMode(z, w)),
                        F4(z.hint, z.urgent), z.list \cup {w})
    BY DEF Put
  <2>2. \A f1, f2, f3, f4, f5 : Follows(s, P(s, f1, f2, f3, f4, f5), P(Base(s), f1, f2, f3, f4, f5))
    <3>1. {"mon", "tags", "mode", "urgent", "list"} \subseteq Fields
      BY DEF Fields
    <3> QED BY <3>1, PutFive
  <2> HIDE DEF P, F1, F4, I
  <2>3. Base(s).mon = s.mon /\ Base(s).tags = s.tags /\ Base(s).mode = s.mode
        /\ Base(s).hint = s.hint /\ Base(s).urgent = s.urgent /\ Base(s).list = s.list
    BY BaseFields
  <2>4. I(Base(s)) = P(Base(s), F1(s.mon, M(s)), F1(s.tags, G(s)),
                       F1(s.mode, ManagedMode(s, w)), F4(s.hint, s.urgent), s.list \cup {w})
    BY <1>2, <2>1, <2>3
  <2> QED BY <2>1, <2>2, <2>4
<1> DEFINE m == M(s)
           i(z) == I(z)
           b(z) == B(z, m)
           r(z) == R(z, m)
<1> HIDE DEF m, I, i
<1>4. ASSUME NEW z, Full(z)
      PROVE  /\ Follows(z, a(z), a(Base(z))) /\ Follows(z, n(z), n(Base(z)))
             /\ Follows(z, b(z), b(Base(z))) /\ Follows(z, r(z), r(Base(z)))
             /\ Follows(z, q(z), q(Base(z)))
  <2>1. Follows(z, a(z), a(Base(z)))
    <3>1. Follows(z, attach(z, w), attach(Base(z), w))
      BY <1>4, ListBase
    <3>2. Full(attach(z, w)) /\ Base(attach(z, w)) = attach(Base(z), w)
      BY <3>1 DEF Follows, SameExtent
    <3>3. Follows(attach(z, w), attachstack(attach(z, w), w),
                  attachstack(Base(attach(z, w)), w))
      BY <3>2, ListBase
    <3> QED BY <3>1, <3>2, <3>3, FollowsTrans
  <2>2. Follows(z, n(z), n(Base(z)))
    BY <1>4, BaseReads, RequestBase, FollowsSelf
  <2>3. Follows(z, b(z), b(Base(z))) /\ Follows(z, r(z), r(Base(z)))
    <3>1. Follows(z, b(z), b(Base(z)))
      BY <1>4, SetBase, MarkBase
    <3>2. Follows(z, r(z), r(Base(z)))
      BY <1>4, SetBase, MarkBase
    <3> QED BY <3>1, <3>2
  <2>4. Follows(z, q(z), q(Base(z)))
    BY <1>4, BaseReads, BaseFields, FieldBase, FollowsSelf
  <2> QED BY <2>1, <2>2, <2>3, <2>4
<1> HIDE DEF a, n, B, R, b, r, q
<1>5. \A x, y, d : Follows(x, y, d) => Base(y) = d /\ Full(y)
  BY DEF Follows, SameExtent
<1> DEFINE x1 == a(i(s))
           y1 == a(i(Base(s)))
           x2 == n(x1)
           y2 == n(y1)
           x3 == b(x2)
           y3 == b(y2)
           x4 == r(x3)
           y4 == r(y3)
<1>6. Follows(s, x1, y1)
  BY <1>3, <1>4, <1>5, FollowsTrans DEF i
<1> HIDE DEF x1, y1
<1>7. Follows(s, x2, y2)
  BY <1>6, <1>4, <1>5, FollowsTrans
<1> HIDE DEF x2, y2
<1>8. Follows(s, x3, y3)
  BY <1>7, <1>4, <1>5, FollowsTrans
<1> HIDE DEF x3, y3
<1>9. Follows(s, x4, y4)
  BY <1>8, <1>4, <1>5, FollowsTrans
<1> HIDE DEF x4, y4
<1>10. Follows(s, q(x4), q(y4))
  BY <1>9, <1>4, <1>5, FollowsTrans
<1>11. Joined(s, w) = q(x4) /\ Joined(Base(s), w) = q(y4)
  BY <1>1, <1>2 DEF x1, x2, x3, x4, y1, y2, y3, y4, i, b, r, m
<1> QED BY <1>10, <1>11

LEMMA ManageBase ==
  ASSUME NEW s, Full(s), NEW w
  PROVE  Follows(s, manage(s, w), manage(Base(s), w))
<1> DEFINE j == Joined(s, w)
<1>1. Follows(s, j, Joined(Base(s), w)) /\ Full(j) /\ Base(j) = Joined(Base(s), w)
  BY JoinedBase DEF Follows, SameExtent
<1> HIDE DEF j
<1>2. Follows(s, focus(j, NULL), focus(Base(j), NULL))
  BY <1>1, FocusBase, FollowsTrans
<1> QED BY <1>1, <1>2, ManageJoined DEF j

LEMMA RemoveBase ==
  ASSUME NEW s, Full(s), NEW c
  PROVE  /\ Follows(s, detachstack(detach(s, c), c), detachstack(detach(Base(s), c), c))
         /\ Follows(s, attachstack(attach(s, c), c), attachstack(attach(Base(s), c), c))
<1> DEFINE d(z) == detach(z, c)
           e(z) == detachstack(z, c)
           f(z) == attach(z, c)
           g(z) == attachstack(z, c)
<1>1. ASSUME NEW z, Full(z)
      PROVE  /\ Follows(z, d(z), d(Base(z))) /\ Follows(z, e(z), e(Base(z)))
             /\ Follows(z, f(z), f(Base(z))) /\ Follows(z, g(z), g(Base(z)))
  BY <1>1, ListBase
<1> HIDE DEF d, e, f, g
<1>2. \A x, y, b : Follows(x, y, b) => Base(y) = b /\ Full(y)
  BY DEF Follows, SameExtent
<1>3. Follows(s, e(d(s)), e(d(Base(s))))
  BY <1>1, <1>2, FollowsTrans
<1>4. Follows(s, g(f(s)), g(f(Base(s))))
  BY <1>1, <1>2, FollowsTrans
<1> QED BY <1>3, <1>4 DEF d, e, f, g

LEMMA PartedBase ==
  ASSUME NEW s, Full(s), NEW c, NEW b
  PROVE  Follows(s, Parted(s, c, b), Parted(Base(s), c, b))
<1> DEFINE d(z) == detachstack(detach(z, c), c)
           x(z) == IF b THEN z ELSE setclientstate(z, c, "Withdrawn")
           f(z) == [z EXCEPT !.mon[c] = 1, !.tags[c] = {}, !.urgent = @ \ {c},
                             !.mode[c] = NoMode, !.strip = @ \ {c}]
<1>1. \A z : Parted(z, c, b) = f(x(d(z)))
  BY DEF Parted
<1>2. Follows(s, d(s), d(Base(s)))
  BY RemoveBase
<1>3. ASSUME NEW z, Full(z) PROVE Follows(z, x(z), x(Base(z)))
  BY <1>3, RequestBase, FollowsSelf
<1>4. ASSUME NEW z, Full(z) PROVE Follows(z, f(z), f(Base(z)))
  <2> DEFINE F1(g, v) == [g EXCEPT ![c] = v]
             P(y, f1, f2, f3, f4, f5) ==
               Put(Put(Put(Put(Put(y, "mon", f1), "tags", f2), "urgent", f3),
                       "mode", f4), "strip", f5)
  <2>1. \A y : f(y) = P(y, F1(y.mon, 1), F1(y.tags, {}), y.urgent \ {c},
                        F1(y.mode, NoMode), y.strip \ {c})
    BY DEF Put
  <2>2. \A f1, f2, f3, f4, f5 : Follows(z, P(z, f1, f2, f3, f4, f5), P(Base(z), f1, f2, f3, f4, f5))
    <3>1. {"mon", "tags", "mode", "urgent", "strip"} \subseteq Fields
      BY DEF Fields
    <3> QED BY <1>4, <3>1, PutFive
  <2> HIDE DEF P, F1, f
  <2>3. Base(z).mon = z.mon /\ Base(z).tags = z.tags /\ Base(z).mode = z.mode
        /\ Base(z).strip = z.strip /\ Base(z).urgent = z.urgent
    BY BaseFields
  <2>4. f(Base(z)) = P(Base(z), F1(z.mon, 1), F1(z.tags, {}), z.urgent \ {c},
                       F1(z.mode, NoMode), z.strip \ {c})
    BY <2>1, <2>3
  <2> QED BY <2>1, <2>2, <2>4
<1> HIDE DEF d, x, f
<1>5. \A v, y, e : Follows(v, y, e) => Base(y) = e /\ Full(y)
  BY DEF Follows, SameExtent
<1>6. Follows(s, x(d(s)), x(d(Base(s))))
  BY <1>2, <1>3, <1>5, FollowsTrans
<1>7. Follows(s, f(x(d(s))), f(x(d(Base(s)))))
  BY <1>4, <1>5, <1>6, FollowsTrans
<1> QED BY <1>1, <1>7

LEMMA UnmanageBase ==
  ASSUME NEW s, Full(s), NEW c, NEW b
  PROVE  Follows(s, unmanage(s, c, b), unmanage(Base(s), c, b))
<1> DEFINE p(z) == Parted(z, c, b)
           f(z) == focus(z, NULL)
           u(z) == updateclientlist(z)
           a(z) == arrange(z, s.mon[c])
<1>1. \A z : z.mon = s.mon => unmanage(z, c, b) = a(u(f(p(z))))
  BY UnmanageParted
<1>2. Follows(s, p(s), p(Base(s)))
  BY PartedBase
<1>3. ASSUME NEW z, Full(z)
      PROVE  Follows(z, f(z), f(Base(z))) /\ Follows(z, a(z), a(Base(z)))
  BY <1>3, FocusBase, MarkBase
<1>4. ASSUME NEW z, Full(z) PROVE Follows(z, u(z), u(Base(z)))
  <2>1. Managed(Base(z)) = Managed(z)
    BY BaseReads
  <2>2. \A x : Follows(z, [z EXCEPT !.list = x], [Base(z) EXCEPT !.list = x])
    BY <1>4, FieldBase
  <2>3. u(z) = [z EXCEPT !.list = Managed(z)] /\ u(Base(z)) = [Base(z) EXCEPT !.list = Managed(z)]
    BY <2>1 DEF updateclientlist
  <2>4. Follows(z, [z EXCEPT !.list = Managed(z)], [Base(z) EXCEPT !.list = Managed(z)])
    BY <2>2
  <2> HIDE DEF u
  <2> QED BY <2>3, <2>4, ZenonT(30)
<1> HIDE DEF p, f, u, a
<1>5. \A v, y, e : Follows(v, y, e) => Base(y) = e /\ Full(y)
  BY DEF Follows, SameExtent
<1>6. Follows(s, f(p(s)), f(p(Base(s))))
  BY <1>2, <1>3, <1>5, FollowsTrans
<1>7. Follows(s, u(f(p(s))), u(f(p(Base(s)))))
  BY <1>4, <1>5, <1>6, FollowsTrans
<1>8. Follows(s, a(u(f(p(s)))), a(u(f(p(Base(s))))))
  BY <1>3, <1>5, <1>7, FollowsTrans
<1> QED BY <1>1, <1>8, BaseFields

LEMMA ShiftedBase ==
  ASSUME NEW s, Full(s), NEW c, NEW m
  PROVE  Follows(s, Shifted(s, c, m), Shifted(Base(s), c, m))
<1> DEFINE u(z) == unfocus(z, c, TRUE)
           d(z) == detachstack(detach(z, c), c)
           f(z) == [z EXCEPT !.mon[c] = m, !.tags[c] = View(z, m)]
           a(z) == attachstack(attach(z, c), c)
<1>1. \A z : Shifted(z, c, m) = a(f(d(u(z))))
  BY DEF Shifted
<1>2. ASSUME NEW z, Full(z)
      PROVE  /\ Follows(z, u(z), u(Base(z))) /\ Follows(z, d(z), d(Base(z)))
             /\ Follows(z, a(z), a(Base(z)))
  BY <1>2, MarkBase, RemoveBase
<1>3. ASSUME NEW z, Full(z) PROVE Follows(z, f(z), f(Base(z)))
  <2> DEFINE P(y, g) == [y EXCEPT !.mon[c] = m, !.tags[c] = g]
  <2>1. \A g : Follows(z, P(z, g), P(Base(z), g))
    BY <1>3, PlaceBase
  <2>2. \A y : f(y) = P(y, View(y, m))
    OBVIOUS
  <2> HIDE DEF P, f
  <2>3. View(Base(z), m) = View(z, m)
    BY BaseReads
  <2> QED BY <2>1, <2>2, <2>3
<1> HIDE DEF u, d, f, a
<1>4. \A v, y, e : Follows(v, y, e) => Base(y) = e /\ Full(y)
  BY DEF Follows, SameExtent
<1>5. Follows(s, d(u(s)), d(u(Base(s))))
  BY <1>2, <1>4, FollowsTrans
<1>6. Follows(s, f(d(u(s))), f(d(u(Base(s)))))
  BY <1>3, <1>4, <1>5, FollowsTrans
<1>7. Follows(s, a(f(d(u(s)))), a(f(d(u(Base(s))))))
  BY <1>2, <1>4, <1>6, FollowsTrans
<1> QED BY <1>1, <1>7

LEMMA SendmonBase ==
  ASSUME NEW s, Full(s), NEW c, NEW m
  PROVE  Follows(s, sendmon(s, c, m), sendmon(Base(s), c, m))
<1> DEFINE h == Shifted(s, c, m)
<1>1. Follows(s, h, Shifted(Base(s), c, m)) /\ Full(h) /\ Base(h) = Shifted(Base(s), c, m)
  BY ShiftedBase DEF Follows, SameExtent
<1> HIDE DEF h
<1>2. Follows(s, focus(h, NULL), focus(Base(h), NULL))
  BY <1>1, FocusBase, FollowsTrans
<1>3. Base(s).mon = s.mon
  BY BaseFields
<1>4. /\ sendmon(s, c, m) = IF s.mon[c] = m THEN s ELSE focus(h, NULL)
      /\ sendmon(Base(s), c, m) = IF s.mon[c] = m THEN Base(s) ELSE focus(Base(h), NULL)
  BY <1>1, <1>3, SendmonShifted DEF h
<1> QED BY <1>2, <1>4, FollowsSelf

-----------------------------------------------------------------------------
(* Loops.  Walk and Those are recursive functions over the places of a     *)
(* list.  A loop whose body leads from D[k - 1] to D[k] ends in D[n].      *)

\* Induction on the numbers up to n.
LEMMA UpTo ==
  ASSUME NEW n \in Nat, NEW S, 0 \in S, \A k \in 0 .. (n - 1) : k \in S => k + 1 \in S
  PROVE  \A k \in 0 .. n : k \in S
<1> DEFINE Bad == (0 .. n) \ S
<1>1. SUFFICES ASSUME Bad # {} PROVE FALSE
  OBVIOUS
<1>2. Bad \in SUBSET Nat
  OBVIOUS
<1>3. PICK x \in Bad : \A y \in Bad : x <= y
  BY <1>1, <1>2, LeastLemma
<1>4. x # 0 /\ x \in 0 .. n
  BY <1>3
<1>5. x - 1 \in 0 .. (n - 1) /\ x - 1 \in 0 .. n
  BY <1>4
<1>6. x - 1 \in S
  BY <1>3, <1>5
<1>7. x - 1 + 1 \in S
  BY <1>5, <1>6
<1> QED BY <1>3, <1>4, <1>7

\* f is the function on the numbers up to n that starts at a and whose value
\* at k is h of k and its value before k.
Rec(n, S, a, h, f) ==
  /\ f \in [0 .. n -> S] /\ f[0] = a
  /\ \A k \in 1 .. n : f[k] = h[<<k, f[k - 1]>>]

\* Such a function exists.
LEMMA Recursion ==
  ASSUME NEW n \in Nat, NEW S, NEW a \in S, NEW h \in [(1 .. n) \X S -> S]
  PROVE  \E f : Rec(n, S, a, h, f)
<1> DEFINE Is(m, f) == /\ f \in [0 .. m -> S] /\ f[0] = a
                       /\ \A k \in 1 .. m : f[k] = h[<<k, f[k - 1]>>]
           Built == {m \in 0 .. n : \E f : Is(m, f)}
<1>1. 0 \in Built
  <2> DEFINE f == [k \in 0 .. 0 |-> a]
  <2>1. Is(0, f)
    OBVIOUS
  <2> HIDE DEF f
  <2>2. \E f1 : Is(0, f1)
    BY <2>1
  <2> QED BY <2>2
<1>2. ASSUME NEW m \in 0 .. (n - 1), m \in Built
      PROVE  m + 1 \in Built
  <2>1. PICK f : Is(m, f)
    BY <1>2
  <2> DEFINE g == [k \in 0 .. (m + 1) |-> IF k = m + 1 THEN h[<<m + 1, f[m]>>] ELSE f[k]]
  <2>2. m + 1 \in 1 .. n /\ m \in Nat /\ m + 1 \in 0 .. n /\ m \in 0 .. m
    OBVIOUS
  <2>3. f[m] \in S /\ h[<<m + 1, f[m]>>] \in S /\ \A k \in 0 .. m : f[k] \in S
    BY <2>1, <2>2
  <2>4. g \in [0 .. (m + 1) -> S] /\ g[0] = a
    BY <2>1, <2>2, <2>3
  <2>5. ASSUME NEW k \in 1 .. (m + 1)
        PROVE  g[k] = h[<<k, g[k - 1]>>]
    <3>1. CASE k = m + 1
      <4>1. k - 1 = m /\ k \in 0 .. (m + 1) /\ m \in 0 .. (m + 1) /\ m # m + 1
        BY <2>2, <3>1
      <4>2. g[k] = h[<<m + 1, f[m]>>] /\ g[k - 1] = f[m]
        BY <3>1, <4>1
      <4> HIDE DEF g
      <4> QED BY <3>1, <4>2
    <3>2. CASE k # m + 1
      <4>1. k \in 1 .. m /\ k - 1 \in 0 .. m /\ k - 1 # m + 1 /\ k \in 0 .. (m + 1)
            /\ k - 1 \in 0 .. (m + 1)
        BY <2>2, <3>2
      <4>2. g[k] = f[k] /\ g[k - 1] = f[k - 1]
        BY <3>2, <4>1
      <4> HIDE DEF g
      <4> QED BY <2>1, <4>1, <4>2
    <3> QED BY <3>1, <3>2
  <2>6. Is(m + 1, g)
    <3> HIDE DEF g
    <3> QED BY <2>4, <2>5
  <2> QED BY <2>2, <2>6
<1>3. n \in Built
  <2> HIDE DEF Built
  <2>1. \A m \in 0 .. n : m \in Built
    BY <1>1, <1>2, UpTo
  <2> QED BY <2>1
<1> QED BY <1>3 DEF Rec

\* h leads from each D[k - 1] to D[k].
Leads(n, X, D, h) ==
  /\ n \in Nat /\ D \in [0 .. n -> SUBSET X] /\ h \in [(1 .. n) \X X -> X]
  /\ \A k \in 1 .. n : \A t \in D[k - 1] : h[<<k, t>>] \in D[k]

\* A function that follows h as long as it stays in D does stay in D.
LEMMA LoopStays ==
  ASSUME NEW n, NEW X, NEW D, NEW h, Leads(n, X, D, h), NEW e, e[0] \in D[0],
         \A k \in 1 .. n : e[k - 1] \in D[k - 1] => e[k] = h[<<k, e[k - 1]>>]
  PROVE  \A k \in 0 .. n : e[k] \in D[k]
<1> DEFINE T == {k \in 0 .. n : e[k] \in D[k]}
<1>1. n \in Nat /\ 0 \in T
  BY DEF Leads
<1>2. ASSUME NEW k \in 0 .. (n - 1), k \in T PROVE k + 1 \in T
  <2>1. k + 1 \in 1 .. n /\ k + 1 - 1 = k /\ k + 1 \in 0 .. n
    BY <1>1
  <2>2. e[k] \in D[k]
    BY <1>2
  <2>3. e[k + 1] = h[<<k + 1, e[k]>>]
    BY <2>1, <2>2
  <2>4. h[<<k + 1, e[k]>>] \in D[k + 1]
    BY <2>1, <2>2 DEF Leads
  <2> QED BY <2>1, <2>3, <2>4
<1> HIDE DEF T
<1>3. \A k \in 0 .. n : k \in T
  BY <1>1, <1>2, UpTo
<1> QED BY <1>3 DEF T

\* The same where every D[k] is X.
LEMMA LoopInside ==
  ASSUME NEW n \in Nat, NEW X, NEW h \in [(1 .. n) \X X -> X], NEW e, e[0] \in X,
         \A k \in 1 .. n : e[k - 1] \in X => e[k] = h[<<k, e[k - 1]>>]
  PROVE  \A k \in 0 .. n : e[k] \in X
<1> DEFINE D == [k \in 0 .. n |-> X]
<1>1. /\ D \in [0 .. n -> SUBSET X] /\ \A k \in 0 .. n : D[k] = X
      /\ 0 \in 0 .. n /\ \A k \in 1 .. n : k - 1 \in 0 .. n /\ k \in 0 .. n
  OBVIOUS
<1> HIDE DEF D
<1>2. Leads(n, X, D, h)
  BY <1>1 DEF Leads
<1>3. e[0] \in D[0] /\ \A k \in 1 .. n : e[k - 1] \in D[k - 1] => e[k] = h[<<k, e[k - 1]>>]
  BY <1>1
<1>4. \A k \in 0 .. n : e[k] \in D[k]
  BY <1>2, <1>3, LoopStays
<1> QED BY <1>1, <1>4

\* There is such a function.
LEMMA LoopExists ==
  ASSUME NEW n, NEW X, NEW D, NEW h, Leads(n, X, D, h), NEW s \in D[0]
  PROVE  \E f : Rec(n, X, s, h, f) /\ \A k \in 0 .. n : f[k] \in D[k]
<1>1. n \in Nat /\ h \in [(1 .. n) \X X -> X] /\ s \in X
  BY DEF Leads
<1>2. PICK f : Rec(n, X, s, h, f)
  BY <1>1, Recursion
<1>3. f[0] \in D[0] /\ \A k \in 1 .. n : f[k] = h[<<k, f[k - 1]>>]
  BY <1>2 DEF Rec
<1>4. \A k \in 0 .. n : f[k] \in D[k]
  BY <1>3, LoopStays
<1> QED BY <1>2, <1>4

\* e is what the loop of Those has collected after each element.
Collects(seq, S, e) ==
  /\ e[0] = <<>>
  /\ \A k \in 1 .. Len(seq) :
       e[k] = IF seq[k] \in S THEN Append(e[k - 1], seq[k]) ELSE e[k - 1]

LEMMA ThoseCollects ==
  ASSUME NEW E, NEW seq \in Seq(E), NEW S
  PROVE  \E e : /\ Collects(seq, S, e) /\ Those(seq, S) = e[Len(seq)]
                /\ \A k \in 0 .. Len(seq) : e[k] \in Seq(E \cap S)
<1> DEFINE n == Len(seq)
           X == Seq(E \cap S)
           D == [k \in 0 .. n |-> X]
           next(k, q) == IF seq[k] \in S THEN Append(q, seq[k]) ELSE q
           h == [p \in (1 .. n) \X X |-> next(p[1], p[2])]
           Loop(e) == [k \in 0 .. n |-> IF k = 0 THEN <<>>
                        ELSE IF seq[k] \in S THEN Append(e[k - 1], seq[k]) ELSE e[k - 1]]
<1>1. n \in Nat /\ <<>> \in X /\ \A k \in 1 .. n : seq[k] \in E
  OBVIOUS
<1>2. \A k \in 1 .. n : \A q \in X : next(k, q) \in X
  BY <1>1
<1> HIDE DEF X
<1>3. h \in [(1 .. n) \X X -> X] /\ \A k \in 1 .. n : \A q \in X : h[<<k, q>>] = next(k, q)
  BY <1>2
<1> HIDE DEF n, h, next
<1>4. /\ D \in [0 .. n -> SUBSET X] /\ \A k \in 0 .. n : D[k] = X
      /\ \A k \in 1 .. n : k - 1 \in 0 .. n /\ k \in 0 .. n /\ k # 0
      /\ 0 \in 0 .. n /\ n \in 0 .. n
  BY <1>1
<1> HIDE DEF D
<1>5. Leads(n, X, D, h)
  BY <1>1, <1>2, <1>3, <1>4 DEF Leads
<1>6. PICK f : Rec(n, X, <<>>, h, f) /\ \A k \in 0 .. n : f[k] \in D[k]
  BY <1>1, <1>4, <1>5, LoopExists
<1>7. f = Loop(f)
  <2>1. /\ f = [k \in 0 .. n |-> f[k]] /\ f[0] = <<>>
        /\ \A k \in 1 .. n : f[k] = next(k, f[k - 1])
    BY <1>3, <1>4, <1>6 DEF Rec
  <2>2. ASSUME NEW k \in 0 .. n PROVE f[k] = Loop(f)[k]
    <3>1. CASE k = 0
      BY <2>1, <3>1
    <3>2. CASE k # 0
      <4>1. k \in 1 .. n
        BY <1>1, <3>2
      <4> QED BY <2>1, <3>2, <4>1 DEF next
    <3> QED BY <3>1, <3>2
  <2>3. Loop(f) = [k \in 0 .. n |-> Loop(f)[k]]
    OBVIOUS
  <2> HIDE DEF Loop
  <2> QED BY <2>1, <2>2, <2>3
<1> DEFINE e == CHOOSE f1 : f1 = Loop(f1)
<1>8. e = Loop(e)
  <2> HIDE DEF Loop
  <2> QED BY <1>7
<1>9. Those(seq, S) = e[n]
  BY DEF Those, n
<1> HIDE DEF e
<1>10. e[0] = <<>> /\ \A k \in 1 .. n : e[k] = next(k, e[k - 1])
  BY <1>1, <1>4, <1>8 DEF next
<1>11. \A k \in 0 .. n : e[k] \in D[k]
  <2>1. e[0] \in D[0]
    BY <1>1, <1>4, <1>10
  <2>2. \A k \in 1 .. n : e[k - 1] \in D[k - 1] => e[k] = h[<<k, e[k - 1]>>]
    BY <1>3, <1>4, <1>10
  <2> QED BY <1>5, <2>1, <2>2, LoopStays
<1>12. Collects(seq, S, e)
  BY <1>10 DEF Collects, next, n
<1> QED BY <1>4, <1>9, <1>11, <1>12 DEF X, n

\* The clients that are not skipped are on the list, and in the set.
LEMMA ThoseLemma ==
  ASSUME NEW E, NEW seq \in Seq(E), NEW S
  PROVE  Those(seq, S) \in Seq(E \cap S)
<1>1. PICK e : /\ Those(seq, S) = e[Len(seq)]
               /\ \A k \in 0 .. Len(seq) : e[k] \in Seq(E \cap S)
  BY ThoseCollects
<1> QED BY <1>1

\* A client that is skipped may be put in front of the list.
LEMMA ThosePush ==
  ASSUME NEW E, NEW seq \in Seq(E), NEW S, NEW c \in E, c \notin S
  PROVE  Those(Push(c, seq), S) = Those(seq, S)
<1> DEFINE p == Push(c, seq)
           n == Len(seq)
<1>1. n \in Nat /\ \A k \in 1 .. n : seq[k] \in E
  OBVIOUS
<1>2. p \in [1 .. n + 1 -> E] /\ p[1] = c /\ \A k \in 1 .. n : p[k + 1] = seq[k]
  <2>1. p = [i \in 1 .. n + 1 |-> IF i = 1 THEN c ELSE seq[i - 1]]
    BY DEF Push
  <2>2. \A i \in 1 .. n + 1 : i # 1 => i - 1 \in 1 .. n
    BY <1>1
  <2>3. \A k \in 1 .. n : k + 1 \in 1 .. n + 1 /\ k + 1 # 1 /\ k + 1 - 1 = k
    BY <1>1
  <2>4. 1 \in 1 .. n + 1
    BY <1>1
  <2> HIDE DEF p, n
  <2> QED BY <1>1, <2>1, <2>2, <2>3, <2>4
<1> HIDE DEF p
<1>3. p \in Seq(E) /\ Len(p) = n + 1
  BY <1>1, <1>2
<1>4. PICK e : Collects(p, S, e) /\ Those(p, S) = e[n + 1]
  BY <1>3, ThoseCollects
<1>5. PICK f : Collects(seq, S, f) /\ Those(seq, S) = f[n]
  BY ThoseCollects
<1> HIDE DEF n
<1> DEFINE Q == {k \in 0 .. n : e[k + 1] = f[k]}
<1>6. 0 \in Q
  <2>1. e[1] = e[0] /\ e[0] = f[0]
    <3>1. 1 \in 1 .. Len(p) /\ 1 - 1 = 0
      BY <1>1, <1>3
    <3>2. p[1] \notin S
      BY <1>2
    <3> QED BY <1>4, <1>5, <3>1, <3>2 DEF Collects
  <2> QED BY <1>1, <2>1
<1>7. ASSUME NEW k \in 0 .. (n - 1), k \in Q PROVE k + 1 \in Q
  <2>1. /\ k + 1 \in 1 .. n /\ k + 1 \in 0 .. n /\ k + 1 + 1 \in 1 .. n + 1
        /\ k + 1 + 1 - 1 = k + 1 /\ k + 1 - 1 = k
    BY <1>1
  <2>2. e[k + 1] = f[k]
    BY <1>7
  <2>3. p[k + 1 + 1] = seq[k + 1]
    BY <1>2, <2>1
  <2>4. e[k + 1 + 1] = IF p[k + 1 + 1] \in S THEN Append(e[k + 1], p[k + 1 + 1]) ELSE e[k + 1]
    BY <1>3, <1>4, <2>1 DEF Collects
  <2>5. f[k + 1] = IF seq[k + 1] \in S THEN Append(f[k], seq[k + 1]) ELSE f[k]
    BY <1>5, <2>1 DEF Collects, n
  <2>6. e[k + 1 + 1] = f[k + 1]
    BY <2>2, <2>3, <2>4, <2>5
  <2> QED BY <2>1, <2>6
<1> HIDE DEF Q
<1>8. \A k \in 0 .. n : k \in Q
  BY <1>1, <1>6, <1>7, UpTo
<1>9. e[n + 1] = f[n]
  BY <1>1, <1>8 DEF Q
<1> QED BY <1>4, <1>5, <1>9 DEF p

\* A loop that skips nothing.
LEMMA ThoseAll ==
  ASSUME NEW E, NEW seq \in Seq(E), NEW S, Range(seq) \subseteq S
  PROVE  Those(seq, S) = seq
<1> DEFINE n == Len(seq)
           Same(q, k) == q \in Seq(E) /\ Len(q) = k /\ \A i \in 1 .. k : q[i] = seq[i]
<1>1. n \in Nat /\ \A k \in 1 .. n : seq[k] \in E /\ seq[k] \in S
  BY DEF Range
<1>2. PICK e : Collects(seq, S, e) /\ Those(seq, S) = e[n]
  BY ThoseCollects
<1>a. /\ e[0] = <<>>
      /\ \A k \in 1 .. n : e[k] = IF seq[k] \in S THEN Append(e[k - 1], seq[k]) ELSE e[k - 1]
  BY <1>2 DEF Collects
<1> HIDE DEF n
<1> DEFINE Q == {k \in 0 .. n : Same(e[k], k)}
<1>3. 0 \in Q
  <2>1. Same(<<>>, 0)
    OBVIOUS
  <2>2. 0 \in 0 .. n
    BY <1>1
  <2> HIDE DEF Same
  <2> QED BY <1>a, <2>1, <2>2
<1>4. ASSUME NEW k \in 0 .. (n - 1), k \in Q PROVE k + 1 \in Q
  <2>1. k + 1 \in 1 .. n /\ k + 1 \in 0 .. n /\ k + 1 - 1 = k /\ k \in Nat
    BY <1>1
  <2>2. Same(e[k], k)
    BY <1>4
  <2>3. e[k + 1] = Append(e[k], seq[k + 1])
    <3>1. e[k + 1] = IF seq[k + 1] \in S THEN Append(e[k + 1 - 1], seq[k + 1])
                     ELSE e[k + 1 - 1]
      BY <1>a, <2>1
    <3>2. seq[k + 1] \in S
      BY <1>1, <2>1
    <3> QED BY <2>1, <3>1, <3>2
  <2>4. Same(e[k + 1], k + 1)
    <3> DEFINE q == e[k]
               x == seq[k + 1]
    <3>1. q \in Seq(E) /\ Len(q) = k /\ \A i \in 1 .. k : q[i] = seq[i]
      BY <2>2
    <3>2. x \in E
      BY <1>1, <2>1
    <3>3. e[k + 1] = Append(q, x)
      BY <2>3
    <3> HIDE DEF q, x
    <3>4. Append(q, x) \in Seq(E) /\ Len(Append(q, x)) = k + 1
      BY <3>1, <3>2
    <3>5. ASSUME NEW i \in 1 .. k + 1 PROVE Append(q, x)[i] = seq[i]
      <4>1. CASE i = k + 1
        BY <3>1, <3>2, <4>1 DEF x
      <4>2. CASE i # k + 1
        <5>1. i \in 1 .. k
          BY <2>1, <4>2
        <5> QED BY <3>1, <3>2, <5>1
      <4> QED BY <4>1, <4>2
    <3> QED BY <3>3, <3>4, <3>5
  <2> QED BY <2>1, <2>4
<1> HIDE DEF Q
<1>5. \A k \in 0 .. n : k \in Q
  BY <1>1, <1>3, <1>4, UpTo
<1>6. Same(e[n], n)
  BY <1>1, <1>5 DEF Q
<1>7. e[n] = seq
  <2> DEFINE q == e[n]
  <2>1. q \in Seq(E) /\ Len(q) = n /\ \A i \in 1 .. n : q[i] = seq[i]
    BY <1>6
  <2> HIDE DEF q
  <2>2. DOMAIN q = 1 .. n /\ DOMAIN seq = 1 .. n
    BY <2>1 DEF n
  <2>3. q = [i \in 1 .. n |-> q[i]] /\ seq = [i \in 1 .. n |-> seq[i]]
    BY <2>1, <2>2
  <2>4. q = seq
    BY <2>1, <2>3
  <2> QED BY <2>4 DEF q
<1> QED BY <1>2, <1>7

=============================================================================
