-------------------------------- MODULE Dmenu --------------------------------
(***************************************************************************)
(* dmenu (src/install/dmenu/dmenu.c): reads items from standard input,     *)
(* grabs the keyboard, and then narrows, pages through and selects items   *)
(* while the user edits a line of text.  One action per key (after the     *)
(* Control and Mod1 tables of keypress() have renamed it), per mouse       *)
(* button and per X event.                                                 *)
(*                                                                         *)
(* The list of matches is a sequence of item numbers; the pointers curr,   *)
(* sel, prev and next into it are positions, 0 for NULL.  item->left and   *)
(* item->right are the neighbouring positions.  item->out, which colours   *)
(* what has been printed, and drawmenu() are left out.                     *)
(***************************************************************************)
EXTENDS DmenuMatch

CONSTANTS
    Options,    \* command lines: [lines, fuzzy, fast, embed, centered, prompt]
    Inputs,     \* what standard input may hold: sequences of texts
    Typed,      \* the strings a key press can produce
    Selections, \* the texts other programs may answer a paste with
    screenw,    \* info[i].width, in characters, like all widths here
    min_width, promptw, arrow, lrpad,
    MaxTries    \* attempts of grabkeyboard(): 1000 in the code

ASSUME InputAssumption ==
    /\ Inputs \subseteq Seq(Texts)
    /\ Typed \subseteq Texts /\ Selections \subseteq Texts
    /\ Options \subseteq [lines : Nat, fuzzy : BOOLEAN, fast : BOOLEAN, embed : BOOLEAN,
                          centered : BOOLEAN, prompt : BOOLEAN]
    /\ {screenw, min_width, promptw, arrow, lrpad} \subseteq Nat
    /\ MaxTries \in Nat \ {0}

VARIABLES
    opt, items, lines,
    proc,       \* "start", "run", or how it exited
    todo,       \* the steps of main() still to be done before run()
    tries,      \* attempts to grab the keyboard so far
    text, cursor,
    matches, curr, sel, prev, next,
    printed     \* lines written to standard output by the last step

started == <<opt, items, lines, todo, tries>>
field == <<text, cursor>>
view == <<matches, curr, sel, prev, next>>
vars == <<started, proc, field, view, printed>>

NULL == 0
Newline == "\n"
first == IF matches = <<>> THEN NULL ELSE 1
matchend == Len(matches)
right(i) == IF i < matchend THEN i + 1 ELSE NULL
----------------------------------------------------------------------------
(* Geometry: setup(), textw_clamp() and calcoffsets() *)

TEXTW(s) == Cardinality(RuneStarts(s) \ {Len(s)}) + lrpad
max_textw == Max({TEXTW(items[i]) : i \in 1..Len(items)} \cup {0})
prompt == IF opt.prompt THEN promptw ELSE 0
mw == IF opt.centered
      THEN Min({Max({max_textw + prompt, min_width}), screenw})
      ELSE screenw
inputw == mw \div 3
room == IF lines > 0 THEN lines ELSE mw - (prompt + inputw + 2 * arrow)

\* A prompt this long leaves no room for an item, and no page would hold one.
ASSUME RoomAssumption ==
    \A w \in {min_width, screenw} : promptw + (w \div 3) + 2 * arrow < w

ItemW(i) == IF lines > 0 THEN 1 ELSE Min({TEXTW(items[i]), room})

\* Where each match ends if all of them are put side by side, and the room
\* that those from i to j take.
Ends(ms) ==
    LET end[k \in 0..Len(ms)] == IF k = 0 THEN 0 ELSE end[k - 1] + ItemW(ms[k])
    IN  end
Extent(ms, i, j) == Ends(ms)[j] - Ends(ms)[i - 1]

\* Wrong variant: an item that just fits goes to the next page.
NextOf_NotFull(ms, c) ==
    IF c = NULL THEN NULL
    ELSE LET over == {k \in c..Len(ms) : Extent(ms, c, k) >= room}
         IN  IF over = {} THEN NULL ELSE Min(over)

NextOf(ms, c) ==
    IF c = NULL THEN NULL
    ELSE LET over == {k \in c..Len(ms) : Extent(ms, c, k) > room}
         IN  IF over = {} THEN NULL ELSE Min(over)
PrevOf(ms, c) ==
    IF c = NULL THEN NULL ELSE Min({k \in 1..c : Extent(ms, k, c - 1) <= room})

Page(ms, c) == curr' = c /\ next' = NextOf(ms, c) /\ prev' = PrevOf(ms, c)
OpenPage(c) == Page(matches, c) /\ UNCHANGED matches
----------------------------------------------------------------------------
(* match(), and the edits that end in it *)

DoMatch(t) ==
    \E ms \in Match(opt.fuzzy, items, t) :
        LET c == IF ms = <<>> THEN NULL ELSE 1
        IN  matches' = ms /\ sel' = c /\ Page(ms, c)

Edit(t, c) == text' = t /\ cursor' = c /\ DoMatch(t)

Insert(s) ==                                          \* insert(s, n), n >= 0
    IF Fits(text, s) THEN Edit(Inserted(text, cursor, s), cursor + Len(s))
                     ELSE UNCHANGED <<field, view>>
DeleteTo(from) == Edit(Deleted(text, from, cursor), from)   \* insert(NULL, n), n <= 0

MoveCursor(c) == cursor' = c /\ UNCHANGED <<text, view>>
Select(i) == sel' = i /\ UNCHANGED field
Quiet == printed' = <<>> /\ UNCHANGED <<started, proc>>
Ignored == Quiet /\ UNCHANGED <<field, view>>
----------------------------------------------------------------------------
(* main() up to run() *)

Exit(how) == proc' = how /\ UNCHANGED <<started, field, view>>

Init ==
    /\ opt \in Options /\ items = <<>> /\ lines = opt.lines
    /\ proc = "start" /\ tries = 0
    /\ todo = IF opt.fast THEN <<"grab", "read", "setup">>
                          ELSE <<"read", "grab", "setup">>
    /\ text = <<>> /\ cursor = 0
    /\ matches = <<>> /\ curr = NULL /\ sel = NULL /\ prev = NULL /\ next = NULL
    /\ printed = <<>>

Doing(step) == proc = "start" /\ todo # <<>> /\ Head(todo) = step
Done == todo' = Tail(todo) /\ printed' = <<>>

readstdin ==
    /\ Doing("read") /\ Done
    /\ items' \in Inputs
    /\ lines' = Min({lines, Len(items')})
    /\ UNCHANGED <<opt, tries, proc, field, view>>

\* Wrong variant: it never gives up.
grabkeyboard_Forever ==
    /\ Doing("grab")
    /\ \/ Done /\ UNCHANGED tries
       \/ /\ ~opt.embed
          /\ tries' = (tries + 1) % MaxTries /\ printed' = <<>>
          /\ UNCHANGED todo
    /\ UNCHANGED <<opt, items, lines, proc, field, view>>

\* One attempt of grabkeyboard(); an embedded menu needs no grab.
grabkeyboard ==
    /\ Doing("grab")
    /\ \/ Done /\ UNCHANGED <<tries, proc>>
       \/ /\ ~opt.embed /\ tries + 1 < MaxTries
          /\ tries' = tries + 1 /\ printed' = <<>>
          /\ UNCHANGED <<todo, proc>>
       \/ /\ ~opt.embed /\ tries + 1 = MaxTries
          /\ proc' = "failure" /\ printed' = <<>> /\ UNCHANGED <<todo, tries>>
    /\ UNCHANGED <<opt, items, lines, field, view>>

\* XOpenIM(), and grabfocus() for an embedded menu, may fail.
setup ==
    /\ Doing("setup") /\ Done
    /\ proc' \in {"run", "failure"} /\ DoMatch(text)
    /\ UNCHANGED <<opt, items, lines, tries, field>>
----------------------------------------------------------------------------
(* keypress() *)

KeyText == \E s \in Typed : Insert(s) /\ Quiet

\* A key with neither text nor a binding reaches insert(buf, 0) or not,
\* depending on what the uninitialised buf[0] holds.
KeyUnbound == Quiet /\ (UNCHANGED <<field, view>> \/ Edit(text, cursor))

\* Wrong variant: the items are not matched again.
KeyKillRight_NoMatch == text' = SubSeq(text, 1, cursor) /\ UNCHANGED <<cursor, view>> /\ Quiet

KeyKillRight == Edit(SubSeq(text, 1, cursor), cursor) /\ Quiet  \* C-k
KeyKillLeft == DeleteTo(0) /\ Quiet                             \* C-u
KeyKillWord ==                                                  \* C-w
    IF cursor > 0 THEN DeleteTo(WordLeft(text, cursor)) /\ Quiet ELSE Ignored

KeyWordLeft == MoveCursor(WordLeft(text, cursor)) /\ Quiet    \* C-Left, M-b
KeyWordRight == MoveCursor(WordRight(text, cursor)) /\ Quiet  \* C-Right, M-f

KeyDelete ==
    IF cursor = Len(text) THEN Ignored
    ELSE /\ LET c == NextRune(text, cursor)
            IN  Edit(Deleted(text, PrevRune(text, c), c), PrevRune(text, c))
         /\ Quiet
KeyBackSpace ==
    IF cursor = 0 THEN Ignored ELSE DeleteTo(PrevRune(text, cursor)) /\ Quiet

\* The last page starts at the first item from which the rest fits.
LastPage == LET back == PrevOf(matches, matchend)
            IN  Min({c \in back..matchend : NextOf(matches, c) = NULL})
KeyEnd ==
    /\ IF cursor < Len(text) THEN MoveCursor(Len(text))
       ELSE /\ Select(matchend)
            /\ IF next # NULL THEN OpenPage(LastPage)
                              ELSE UNCHANGED <<matches, curr, prev, next>>
    /\ Quiet
KeyHome ==
    /\ IF sel = first THEN MoveCursor(0) ELSE Select(first) /\ OpenPage(first)
    /\ Quiet

Up == IF sel <= 1 THEN UNCHANGED <<field, view>>
      ELSE /\ Select(sel - 1)
           /\ IF sel = curr THEN OpenPage(prev)
                            ELSE UNCHANGED <<matches, curr, prev, next>>
\* Wrong variant: the page is not turned.
Down_SamePage == IF sel = NULL \/ right(sel) = NULL THEN UNCHANGED <<field, view>>
                 ELSE Select(right(sel)) /\ UNCHANGED <<matches, curr, prev, next>>

Down == IF sel = NULL \/ right(sel) = NULL THEN UNCHANGED <<field, view>>
        ELSE /\ Select(right(sel))
             /\ IF right(sel) = next THEN OpenPage(next)
                                     ELSE UNCHANGED <<matches, curr, prev, next>>
KeyUp == Up /\ Quiet
KeyDown == Down /\ Quiet
KeyLeft ==
    /\ IF cursor > 0 /\ (sel <= 1 \/ lines > 0) THEN MoveCursor(PrevRune(text, cursor))
       ELSE IF lines > 0 THEN UNCHANGED <<field, view>> ELSE Up
    /\ Quiet
KeyRight ==
    /\ IF cursor < Len(text) THEN MoveCursor(NextRune(text, cursor))
       ELSE IF lines > 0 THEN UNCHANGED <<field, view>> ELSE Down
    /\ Quiet

\* Page Down, wheel down, the right arrow; Page Up, wheel up, the left arrow.
ScrollDown == next # NULL /\ Select(next) /\ OpenPage(next) /\ Quiet
ScrollUp == prev # NULL /\ Select(prev) /\ OpenPage(prev) /\ Quiet

ToMaxText(s) == SubSeq(s, 1, Min({Len(s), MaxText}))
KeyTab ==
    IF sel = NULL THEN Ignored
    ELSE \E i \in 1..Len(items) :
            /\ i = matches[sel]
            /\ LET t == ToMaxText(items[i]) IN Edit(t, Len(t))
            /\ Quiet

KeyReturn(shift, ctrl) ==
    /\ printed' = <<IF sel # NULL /\ ~shift THEN items[matches[sel]] ELSE text>>
    /\ \/ ~ctrl /\ Exit("success")
       \/ ctrl /\ UNCHANGED <<started, proc, field, view>>
KeyEscape == Exit("failure") /\ printed' = <<>>

keypress ==
    \/ KeyText \/ KeyUnbound \/ KeyTab \/ KeyEscape
    \/ KeyKillRight \/ KeyKillLeft \/ KeyKillWord \/ KeyDelete \/ KeyBackSpace
    \/ KeyWordLeft \/ KeyWordRight \/ KeyEnd \/ KeyHome \/ KeyUp \/ KeyDown
    \/ KeyLeft \/ KeyRight \/ ScrollDown \/ ScrollUp
    \/ \E shift, ctrl \in BOOLEAN : KeyReturn(shift, ctrl)
----------------------------------------------------------------------------
(* buttonpress() and the other events of run() *)

page == IF curr = NULL THEN {} ELSE curr..(IF next = NULL THEN matchend ELSE next - 1)

\* z is the coordinate of the pointer that counts: y in a vertical menu, in
\* rows, and x in a horizontal one.  Without a left arrow, its place belongs
\* to the input field.
Positions == 0..(IF lines > 0 THEN lines + 1 ELSE mw)
InputEnd == IF lines > 0 THEN 1
            ELSE IF matches = <<>> THEN mw
            ELSE prompt + inputw + (IF curr > 1 THEN 0 ELSE arrow)

\* insert(NULL, -cursor), as for C-u: what is right of the cursor stays, although
\* the comment on this click says "clear input" (ClickClearsInput, MCDmenuClick).
ClickInput(z) == z <= InputEnd /\ DeleteTo(0) /\ Quiet

OnLeftArrow(z) == /\ lines = 0 /\ curr > 1
                  /\ z \in (prompt + inputw)..(prompt + inputw + arrow)
OnRightArrow(z) == lines = 0 /\ next # NULL /\ z >= mw - arrow

\* An item covers both its borders; the first item hit is taken.
NearEdge(i) == IF lines > 0 THEN 1 + i - curr
               ELSE prompt + inputw + arrow + Extent(matches, curr, i - 1)
Covers(z) == {i \in page : z \in NearEdge(i)..(NearEdge(i) + ItemW(matches[i]))}
ClickItem(z, ctrl) ==
    /\ z > InputEnd /\ ~OnLeftArrow(z) /\ Covers(z) # {}
    /\ LET i == Min(Covers(z))
       IN  /\ printed' = <<items[matches[i]]>>
           /\ \/ ~ctrl /\ Exit("success")
              \/ /\ ctrl /\ Select(i)
                 /\ UNCHANGED <<started, proc, matches, curr, prev, next>>
ClickArrow(z) ==
    /\ z > InputEnd
    /\ \/ OnLeftArrow(z) /\ ScrollUp
       \/ OnRightArrow(z) /\ ~OnLeftArrow(z) /\ Covers(z) = {} /\ ScrollDown

buttonpress ==
    \/ KeyEscape                                      \* the right button
    \/ \E z \in Positions : ClickInput(z) \/ ClickArrow(z)
    \/ \E z \in Positions, ctrl \in BOOLEAN : ClickItem(z, ctrl)

FirstLine(s) == LET ends == {i \in 1..Len(s) : s[i] = Newline}
                IN  IF ends = {} THEN s ELSE SubSeq(s, 1, Min(ends) - 1)

\* C-y and the middle button ask for the selection; the answer may come at any
\* later time, or from a program that was not asked, and is inserted then.
paste == \E s \in Selections : Insert(FirstLine(s)) /\ Quiet

\* FocusIn of another window: grabfocus() wins the focus back, or dies.
focusin == /\ opt.embed
           /\ proc' \in {"run", "failure"}
           /\ printed' = <<>> /\ UNCHANGED <<started, field, view>>

\* The window is destroyed with the one it is embedded in.
destroynotify == opt.embed /\ KeyEscape

run == /\ proc = "run"
       /\ \/ keypress \/ buttonpress \/ paste \/ focusin \/ destroynotify

Next == readstdin \/ grabkeyboard \/ setup \/ run

Spec == Init /\ [][Next]_vars /\ WF_vars(grabkeyboard)
----------------------------------------------------------------------------
(* Properties *)

ItemTexts == UNION {{stdin[i] : i \in 1..Len(stdin)} : stdin \in Inputs}

\* The variables hold what their C counterparts can.
TypeOK ==
    /\ opt \in Options /\ items \in Inputs \cup {<<>>} /\ lines \in 0..opt.lines
    /\ proc \in {"start", "run", "success", "failure"}
    /\ tries \in 0..(MaxTries - 1)
    /\ Len(text) <= MaxText /\ cursor \in 0..Len(text)
    /\ {curr, sel, prev, next} \subseteq 0..matchend
    /\ Len(printed) <= 1

\* However the line was edited, the cursor never stands inside a character:
\* nextrune() works on bytes, and so do insert() and the copy made by Tab.
CursorOnRune == cursor \in RuneStarts(text)

\* The selected item is drawn: it lies on the page [curr, next), which is
\* moved separately from it by the keys, the wheel and the clicks.
SelectionOnPage == IF matches = <<>> THEN curr = NULL /\ sel = NULL ELSE sel \in page

\* next and prev are cached by calcoffsets(): the page they describe fills
\* the room there is, and paging back from it would end right before it.
PageIsFull ==
    matches # <<>> =>
        /\ Extent(matches, curr, curr + Cardinality(page) - 1) <= room
        /\ next # NULL => Extent(matches, curr, next) > room
        /\ Extent(matches, prev, curr - 1) <= room
        /\ prev > 1 => Extent(matches, prev - 1, curr - 1) > room

Scattered(t, s) ==
    \E D \in SUBSET (1..Len(s)) :
        /\ Cardinality(D) = Len(t)
        /\ \A i \in D : s[i] = t[Cardinality({j \in D : j <= i})]

\* The items on offer are those the text calls for, whatever path changed the
\* text: all with its bytes in order (fuzzy), or with each of its tokens.
OffersFollowText ==
    proc = "run" =>
        ToSet(matches) =
            {i \in 1..Len(items) :
                IF opt.fuzzy THEN Scattered(text, items[i])
                ELSE \A tok \in Tokens(text) : tok \in SubSeqs(items[i])}

\* "exact matches go first, then prefixes, then substrings": without fuzzy
\* matching, typing an item in full puts it before all longer ones.
ExactFirst ==
    proc = "run" /\ ~opt.fuzzy /\ (\E i \in 1..Len(items) : items[i] = text) =>
        matches # <<>> /\ (Tokens(text) # {} => items[matches[1]] = text)

\* "Entering text will narrow the items": text typed at the end of the line,
\* or anywhere in it when matching is fuzzy, never brings an item back.
EnteringNarrows ==
    [][ (/\ proc = "run" /\ text' # text
         /\ IF opt.fuzzy THEN Scattered(text, text') ELSE IsPrefix(text, text'))
        => ToSet(matches') \subseteq ToSet(matches) ]_vars

\* In characters, the line behaves as DmenuEditor says.
Insertions == {Runes(s) : s \in Typed \cup {FirstLine(s) : s \in Selections}}
Completions == {Runes(ToMaxText(s)) : s \in ItemTexts}
ItemRunes == {Runes(s) : s \in ItemTexts}
BlankRunes == {r \in BoundedSeq(Byte, MaxText) : r # <<>> /\ r[1] \in worddelimiters}
RunesOf == [t \in BoundedSeq(Byte, MaxText) |-> Runes(t)]
Editor == INSTANCE DmenuEditor WITH
    line <- RunesOf[text], pos <- Len(RunesOf[SubSeq(text, 1, cursor)]),
    written <- [k \in DOMAIN printed |-> Runes(printed[k])],
    Strings <- Insertions, Copies <- Completions, Answers <- ItemRunes,
    Blanks <- BlankRunes
EditsCharacters == Editor!Spec

\* The grab of the keyboard does not wait for ever: it is held, or dmenu dies.
GrabEnds == Doing("grab") ~> ~Doing("grab")
=============================================================================
