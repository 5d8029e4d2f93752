# A verification of the DevelOS desktop

DevelOS is an Arch-based distribution. Its own programs are a customised window
manager (`install/dwm`), a status bar (`install/dwmblocks-async`), a menu
(`install/dmenu`), an installer (`packages/develos-installer`) and the scripts
that start, configure and build all of it. This directory holds TLA+ models of
the programs that keep state and react to events, TLC configurations that check
them on small instances, and TLAPS proofs for every instance. Paths below are
relative to `src/`.

## The system

| part | state | operations | what is hard |
|---|---|---|---|
| dwm (`install/dwm/dwm.c`) | per monitor: the lists `clients` and `stack`, `sel`, `hidsel`, two tag sets, layout; per client: `mon`, tags, flags, geometry; on the X server: map state, `WM_STATE`, titlebars, input focus, properties | one handler per X event, one function per key and button, `scan`, `quit`, `cleanup` | clients act between the events that dwm has queued; events are stale when handled; hidden, fullscreen, maximized, floating and tag state combine; dwm may die and be restarted on the same X server; monitors come and go; a drag is an event loop inside of a handler |
| dwmblocks (`install/dwmblocks-async`) | per block: `fork_pid`, `output`, a pipe; the timer; the status text | the event loop: poll, read one signal, update the readable blocks, write the status | children, three kinds of signals and a one-shot alarm race with every step of the loop |
| dmenu (`install/dmenu`) | input text, cursor, the list of matches, four pointers into it | key press, click, paste, match | bytes against characters; a page that is cached in two pointers while others move; a keyboard that somebody else holds |
| installer (`packages/develos-installer`, `develos-calamares-config`) | disk, mounts, the target's files | a fixed sequence of external commands | failing in the middle and starting again; two steps that write one file |
| session and hooks (`packages/develos-config`, `develos-live-config`) | none, one edited file each | `start-dwm` starts feh, xsettingsd, dunst and dwmblocks, then becomes dwm | order against the installer |
| build (`scripts`, `archiso`) | none | makepkg, repo-add, mkarchiso | external tools |

They interact through the X server and the process table: dwmblocks writes its
status to `WM_NAME` of the root window, which dwm draws on `PropertyNotify`;
dwm starts dmenu on a key; signals refresh single blocks; the installer calls the
hooks of the other packages in a chroot.

What makes them correct:

- *dwm*: the lists lose, repeat and share no client; nothing is selected only
  when nothing is in view; what is selected is in view, on top of the stack and
  has the input focus; a hidden window is unmapped and can be got back; no window
  is lost over a crash, exit or restart; `_NET_CLIENT_LIST` is current;
  titlebars follow fullscreen, maximize and hide; tiles stay apart, and no window is left
  where there is no monitor.
- *dwmblocks*: at most one child per block; the loop never blocks on a command;
  the clock does not stop; no block is late; the name on the root window is what
  the blocks printed; termination works.
- *dmenu*: the line is edited in whole characters; the items on offer are those the
  text calls for, the selected one is on the page that is drawn, and the page is full.
- *installer*: starting again after a failure installs the same system.

## Modules

    DwmLists ── DwmState ── Dwm ── MCDwm ── MCDwmFeatures     dwm
                    │        │
                    │        └───────┐
                    ├── DwmStateProofs ── DwmProofs     its proofs
                    │        └───────────────────── DwmDesktopProofs
                    │                                     │
                DwmGeometry ───────────────────────── DwmDesktop ── MCDwmDesktop
                                                   geometry, monitors, drags

    DmenuText ── DmenuMatch ── Dmenu ── MCDmenu ── MCDmenuClick    dmenu
                                │ └─ DmenuProofs ── DmenuEditorProofs
                            DmenuEditor            what Dmenu implements

    DwmblocksTimer ── DwmblocksClock ── MCDwmblocksClock    the timer alone
       │      │              └─────── DwmblocksClockProofs ─┐
       │      └────────────────────── DwmblocksTimerProofs ─┤
       └───────────── Dwmblocks ─── MCDwmblocks             │ the event loop
                          └───────────────── DwmblocksProofs

**DwmLists** has the linked lists of dwm as sequences, and its list loops
(`detach`, `attach`, "the first client from here that ...", `Walk` for a loop that
calls a function on each client) as operators.

**DwmState** has the state of dwm and of the X server as one record, and one
operator from states to states per C function: `focus`, `hidewin`, `manage`,
`unmanage`, `sendmon`, `setfullscreen` and so on keep their names. dwm has one
thread and a handler runs to its end, so a handler is a composition of these
operators, in the order of the calls in C. Requests that X refuses (input focus
to an unmapped window, a property of a destroyed one) have no effect, which is
what `xerror` makes of them.

**Dwm** has one action per event handler, key and button function, with the
guards of the code. Between any two handlers clients create, unmap and destroy
windows, set hints and take the input focus; dwm hears of it through queues
(`unmapq`, `destroyq`, `finq`, and `st.enterq` for the one `EnterNotify` that
`restack` may discard). `phase` follows `main`: down, scan, run, quit, cleanup.
A crash may come in any phase; it loses the memory of dwm and keeps the X server.

**DwmGeometry** adds to the record of DwmState what places windows: the areas of
the monitors, bars, layouts, gaps, and the slot, border widths and saved slots of each
client. Its operators are the C functions that compute them (`applysizehints`,
`resize`, `tile`, `arrange`, ...), and `Fullscreened`, `Maximized` and `Floated` do to
the geometry what `setfullscreen`, `togglemaximize` and `togglefloating` do.

**DwmDesktop** composes DwmState and DwmGeometry into a second specification of dwm:
windows are mapped, withdrawn and ask for frames, keys change layouts and modes,
`configurenotify` finds other monitors (`updategeom`), and the pointer presses
titlebars and drags windows. `drag` is the frame of `movemouse` or `resizemouse` on the
stack: while it is there, only motion, release, `maprequest` and `configurerequest` are
handled, as in their nested loops. What Dwm checks (events in queues, tags, hints,
restarts) is left to it.

**DmenuText** is the input field as a sequence of bytes with a byte offset, and what
`nextrune`, `movewordedge` and `insert` do to it. **DmenuMatch** says what `match` and
`fuzzymatch` leave in the list of matches; `qsort` may leave equal distances in any
order, so that is a set of lists. **Dmenu** has one action per key, button and event,
and `main` up to `run`. **DmenuEditor** is the abstract specification: a line of
characters with a cursor between two of them, on which each key removes, inserts
or skips whole characters and words. `EditsCharacters` is the refinement
(`INSTANCE DmenuEditor WITH`): the bytes map to the characters they encode, the offset to
the number of characters before it, and the items, the pages and the limit of the buffer
to steps that leave the line alone.

**DwmblocksTimer** and **DwmblocksClock** are `timer.c` and `gcd`, and a clock that
counts how long each block has been waiting.

**Dwmblocks** cuts `event_loop` where the outside world can get in between: after
`poll`, after the signal is read, after each block is updated, after the status is
written. Children (running, about to exit after writing, not waited for yet),
pipes, pending signals and the alarm are the kernel's side. Standard signals are
pending at most once, realtime signals queue, and the lowest number is read first.

Definitions whose comment begins with "Wrong variant" are plausible mistakes in
the definition they precede; no specification uses them. `PROJECT.json` names for
every checked property the one that must break it.

### Abstractions

In Dwm geometry, drawing, the X stacking order and texts are left out. Rules match no
tag that exists and no monitor, as in `config.def.h`. A window's transience,
focus model and rule are constants. The queue of `EnterNotify` holds one event,
and a new `MapRequest` of a window comes after the events about its earlier life:
order between the different queues is otherwise free, which only adds behaviours.
`ClickTab` may hit any tab of a bar, and also the head of the list when that client
is not in view, which the arithmetic of `buttonpress` allows. `unmanage` leaves the titlebar
of a destroyed window on the X server (`dwm.c:2219`), where no client refers to it any more; in
the model it is gone with its window, since titlebars are told apart by their client.

In DwmDesktop lengths are scaled down: a unit stands for the height of a titlebar,
the bar is one unit high too, and a border is one unit wide. `mfact` is
in hundredths and the product is cut off as C does. Gaps stay below the height of the
window area (`MaxGap`), so the unsigned arithmetic of `tile` does not wrap; in the code
`setgaps` has no bound, and it can. A drag asks for any of a few positions instead of
following the pointer; if X refuses to grab the pointer, or to say where it is, there is no
drag (in the second case the code also keeps the pointer grabbed, which is left out). A
`ConfigureRequest` asks for one of `Requests`, a rectangle and the fields of it that
count. `wintomon(root)` is whatever monitor the pointer is on. A client
that is freed while its titlebar is pressed stays in `pressed`, as `btnpressed` does;
`motionnotify` reads the freed memory, which may look like a client that is not
maximized (the drag begins) or like one without that titlebar (nothing happens). Aspect ratios, `isfixed`, screens
without Xinerama and what `configure` tells clients are left out.

In Dmenu widths are in characters. The case-insensitive option, drawing and `item->out`
are left out, and so is a prompt that leaves no room for an item (`RoomAssumption`):
`calcoffsets` would then compare widths with a negative number. The texts that reach
the field are UTF-8, or at least do not start inside a character (`InputAssumption`). A
key without text or binding reaches `insert` or not, depending on a byte of an
uninitialised buffer (`keypress`, `dmenu.c:421` and `512`): both are possible. The
answer to a paste may come at any time.

In Dwmblocks an alarm expires only while the loop is in `poll` with no standard
signal pending: a turn of the loop takes far less than the second that is the
shortest tick. Without that, SIGALRM, which is read before SIGTERM, could
starve it. A flood of SIGUSR1 really can: `TerminationEnds` promises an end only where there is
none, and in a flood `BlockRunsAgain` is met by the refreshes themselves, so no property holds
the starvation against the code. The errors of
`poll` and `read` are left out: all the signals that are handled are blocked, so `poll`
is not interrupted.

## Runs

Each finishes in a few minutes.

| run | instance | what it shows |
|---|---|---|
| `dwm_lists` | 3 windows, one of which refuses the input focus, is withdrawn and unmaps itself, 1 monitor, 1 tag, the keys that reveal hidden windows | `ListsConsistent`, `FocusNotLost`, `IconicIsUnmapped`, `ClientListCurrent`, `TypeOK` while windows die, unmap and are withdrawn behind dwm's back |
| `dwm_features` | 2 windows; 2 tags, every mask and stale `EnterNotify`s, or else all layouts, fullscreen, float, maximize, hide and hints | `TagsNotEmpty`, `SelectionOnTop`, `TitlebarShown`, `SelectionNotUrgent` |
| `dwm_restart` | 2 windows (one transient, floating and a focus thief), 2 monitors, crashes, exits, restarts | `NoWindowLost`, `SelectionOnTop`, `InputFollowsSelection`; `StolenFocusReturns` and `DestroyedIsForgotten` under fairness |
| `dwm_desktop` | 2 windows with size hints, 1 or 2 monitors of changing size, three layouts, gaps, modes, requests, drags | `MonitorsSound`, `TilesApart`, `TypeOK`; of steps: `HotplugKeepsClients`, `HotplugBringsBack`, `DropLands` |
| `dmenu` | 5 items or none, some with a character of two bytes, one longer than the field; a vertical fuzzy menu and a horizontal, embedded one with a prompt | `CursorOnRune`, `SelectionOnPage`, `PageIsFull`, `OffersFollowText`, `ExactFirst`, `TypeOK`; of steps: `EnteringNarrows` and the refinement `EditsCharacters`; `GrabEnds` under fairness |
| `dwmblocks_clock` | 3 blocks, all intervals 0 to 6 | `TickIsGreatest`, `NeverLate`, `OnTime` |
| `dwmblocks_loop` | 2 blocks, one with an interval and one with a signal, SIGTERM, SIGUSR1 and a realtime signal, killed children, failing forks and X requests | `OneChild`, `UpdateHasChild`, `AlarmNeverLost`, `NameCurrent`, `TypeOK`; `TerminationEnds`, `BlockRunsAgain`, `ChildrenReaped` under fairness |

Bounds. Two windows are enough for every property that relates a client to the
selection; three are needed where one client must lie between two others on a
list, which `dwm_lists` has (with symmetry between the two that have no features of their
own). Two monitors and two tags give a place that is not in
view. Each feature is a constant that a run turns on, so that a run holds the
features its properties are about. `dwm_features` holds two groups of them, tags and modes.
The constraint `OneFeature` leaves out the states that have both, which are too many: a tag
changes only while no mode or hint is set, and the other way round. `InputFollowsSelection` and `StolenFocusReturns` are
checked without stale `EnterNotify`s, which can select a hidden client (`dwm.c:979`) and
then fail as in `dwm_hidden_focus`; `FocusNotLost` and `IconicIsUnmapped` without
restarts, because a window that was left iconic and is mapped while no window manager
runs is adopted as hidden although it is on the screen.

In `dwm_desktop` the constant `Users` lists which features come together in one behaviour
(gaps, masters and monitors; hiding, hotplug and monitors; fullscreen, requests and
hotplug; and so on): each pair whose functions share state is in one of the sets, and all
of them at once have too many states. The second monitor is narrower than the first, and
the only one left after hotplug is smaller than both, so slots, saved slots and tiles fall
off the screen; the hints of one window make it wider than what a column offers and those
of the other one lower.

In `dmenu` the field holds three bytes: a character of two bytes is at its limit or does
not fit, and the longest item is cut by it. Five items are three pages of a menu of two
lines, so there is a page with both neighbours.

Six is the least bound on intervals with a pair that neither divides nor is coprime (4
and 6); with two blocks one is run by the clock while the other one waits for its signal.

Five runs show disagreements between the code and what its documents or
comments say:

- `dwm_quit`: `quit` walks `stack` with `next` instead of `snext`
  (`dwm.c:1577`), so some hidden clients stay hidden; `cleanup` marks them withdrawn
  and the next dwm does not adopt them, so a clean exit loses windows that a
  crash would keep (`docs/suckless-patches.md:19`).
- `dwm_hidden_focus`: `focusstack` gives the input focus to a hidden client
  before it maps it (`dwm.c:1096`), which X refuses (`docs/suckless-patches.md:67`).
  `dwm_restart` therefore does without these keys.
- `dwm_fullscreen`: a client that is fullscreen when it is managed, or restored
  from hidden, gets a titlebar (`dwm.c:767`, `2008`; `docs/suckless-patches.md:45`).
- `dwm_drag`: dragging a titlebar moves the selected client (`dwm.c:1443`), which is another
  one than the pressed one if a window was mapped since the press; the comment at
  `dwm.c:1435` says that it moves the window.
- `dmenu_click`: a left click on the input field erases only what is left of the cursor
  (`dmenu.c:652`, as C-u does); the comment at `dmenu.c:645` says that it clears the input.
  `ClickInput`, and with it `EditsCharacters`, has the click as the code does it. MCDmenuClick
  adds a history variable that tells a click from C-u.

Smaller ones have no run. The comment at `timer.c:56` says that the time wraps
to [1, reset_value], and it wraps to [0, reset_value - 1], which harms no block.
`InputFollowsSelection` also fails when a hidden client is taken out of fullscreen, which
maps its titlebar, and that is clicked; dragged to another monitor by it, the client is not
selected there. A click on the tab of a hidden client that is the
selected one hides it again (`dwm.c:2186`; both specifications have it). `setfullscreen` overwrites the border width
that `unmanage` restores (`dwm.c:1823`, `2220`); a fullscreen client keeps its size when it is
sent to another monitor; and a `ConfigureRequest` moves a fullscreen client and overwrites
the slot it returns to (`dwm.c:707`). Removing a monitor without clients does not count as a
change (`dwm.c:2346`), so `selmon` moves without `focus`.

### Fairness

`FairSpec` of Dwm says that dwm, while it runs, gets to every queued event, and
that `scan` runs to its end: the event loop serves the queue of Xlib in order. It
says nothing about users, clients or restarts. Each fair step is named by what it
does to its queue, which only its handler does. `FairSpec` of Dwmblocks says that
the loop runs, that commands end (a command that hangs freezes its block, and
nothing else, by `UpdateHasChild`), and, strongly, that the alarm fires: real time
passes however often the loop is kept busy. The specification of Dmenu is fair to
`grabkeyboard` only, which is a loop that sleeps for a millisecond; keys may never be
pressed. DwmDesktop states no fairness.

## Proofs

For every number of windows, monitors, tags and blocks TLAPS proves

- `TypeCorrect`, `ListsAlwaysConsistent`, `ClientListAlwaysCurrent`,
  `TagsNeverEmpty` (DwmProofs),
- `TitlebarsAlwaysShown`, `SelectionAlwaysOnTop`, `SelectionNeverUrgent`, and, under
  conditions explained below, `IconicAlwaysUnmapped`, `FocusNeverLost`,
  `NoWindowEverLost`, `InputAlwaysFollows` (also DwmProofs),
- with geometry, drags and hotplug, `TypeCorrect`, `MonitorsAlwaysSound` and, of steps,
  `HotplugAlwaysKeeps` and `DropAlwaysLands` (DwmDesktopProofs), for any screens, frames,
  size hints, gaps and places a drag may ask for,
- `AtMostOneChild`, `UpdatesFindTheirChild`, `ClockKeepsRunning`, `NameAlwaysCurrent`,
  `TypeCorrect` (DwmblocksProofs),
- `TickAlwaysGreatest`, `NeverAnyLate`, `AlwaysOnTime` (DwmblocksClockProofs), for any
  finite number of blocks and any intervals,
- `LineInOrder`, `TypeCorrect`, `SelectionAlwaysOnPage`, `PagesAlwaysFull`,
  `OffersAlwaysFollow`, `ExactAlwaysFirst`, `EnteringAlwaysNarrows` (DmenuProofs), and
  `LineImplementsEditor`, the refinement of DmenuEditor (DmenuEditorProofs), for
  any items, keys, pasted texts, options and widths.

They assume what the modules assume of their constants: `DwmAssumption` and `DwmInputs`
(`NULL` is no window, there is a monitor and a first tag), `GeometryAssumption` and
`DesktopAssumption` (lengths, hints and screens have their types, at least one monitor and at
most `NMon` are plugged in), `RequestAssumption` (clients ask for rectangles),
`DwmblocksAssumption` and
`ClockAssumption` (there are blocks, finitely many, and nobody else sends SIGALRM), and for
dmenu `TextAssumption`, `InputAssumption` (options, widths and bounds have their types, and
no text that reaches dmenu starts with a continuation byte) and `RoomAssumption` (the prompt
leaves room for an item).

*dwm.* `ListsConsistent` alone is not inductive: a client leaves the lists of the
monitor its `mon` names and `focus` pushes it there, so `mon`, `sel` and the values
of both sequences go into the invariant, and `_NET_CLIENT_LIST` depends on
cleanup having emptied the lists before dwm goes down, and on scan meeting no
window twice. `Inv` of DwmProofs adds these two facts. `TagsNotEmpty` is carried along
by the same lemmas (`AllTagged` and the last part of `Well`): a client takes its tags
from the view and `view(0)` takes the view from the other tag set, so both sets of
every monitor have to be in the invariant. The argument has three
levels: DwmStateProofs first proves what `Unlink` and `Push` do to the range and the
injectivity of a sequence and that the searches return an element of the list
(by induction on its length), then, operator by operator in the
order of DwmState, that a consistent state stays consistent and which clients it
holds afterwards (`Keeps`, `SameLists`, `Moves`); DwmProofs has a lemma per group
of actions, each a composition of operators.

*dwm, windows and focus.* The other seven theorems of DwmProofs share the invariant
`AllInv`, which adds two parts to `Inv`. `WinInv` is about windows: a normal client is
mapped unless its own UnmapNotify is queued (`Drawn`), and has its titlebar unless it is
fullscreen (`Titled`); `Fresh`, `Adopted` and `Bare` say what iconic windows are while no
dwm has run before, while no client unmaps itself, and while there is no fullscreen.
`TitlebarShown` alone is not inductive: a step that maps a window or ends `scan` finds
the titlebar as earlier steps left it, so `Titled` speaks of every managed client, mapped
or not, in every phase. `SelInv` is about the selection: where it is
on its stack (`Settled`), when there is none (`NotLost`), and where the input
focus is or will be put back to by a queued FocusIn (`Followed`). The second half of DwmStateProofs proves
what each C function does to these: no function does to a window other than leave it, take
it off the screen as iconic, or put it on the screen as normal; and `focus` picks a client
that is in view, on top, not urgent and, if it can be, not hidden. DwmProofs
composes that into handlers: one that ends in `focus` has picked well (`Tidy`,
`Chosen`), one that does not call it must leave alone what the choice rests on.

Four of the seven properties fail of dwm in some circumstances, so the theorems assume
that these do not occur; nothing weaker would do, as TLC finds each property violated once
any one of the conditions is dropped:

| theorem | assumes | without it |
|---|---|---|
| `IconicAlwaysUnmapped` | `~Restarts` | a window left iconic is mapped while no dwm runs, and `scan` adopts it as iconic |
| `FocusNeverLost` | `~Restarts` | the same window is on the screen and passed over by `focus` |
| `NoWindowEverLost` | `Unmappers = {}` | `unmapnotify` comes late and unmanages a window that was shown again |
| `InputAlwaysFollows` | `PlainInputs` | a hidden client is selected: by `focusstackhid` (`HidKeys`), by a stale `EnterNotify` (`Strays`), by the titlebar that leaving fullscreen maps (`Fullers`), or by `unmanage` after a restart (`Restarts` with `Unmappers`); X refuses it the focus |

*dwm, the desktop.* The state of DwmDesktop is that of DwmState with more fields, so none of
the lemmas above is about it as it stands. `Base` takes the geometry away, and the last part
of DwmStateProofs shows for each operator of DwmState that doing it on the desktop and
taking the geometry away is taking the geometry away and doing it (`Follows`); then what is
known of the operator holds on the desktop. The layouts are loops over a list of places,
written as recursive functions; `UpTo` and `Recursion` give a function that solves the
recursion, by induction on the place, and a loop keeps what each of its turns keeps
(`LoopStays`). With that the layouts only move windows (`Laid`). On top of it each C
function is put in one of three classes: it leaves clients and monitors where they are
(`Stays`, nearly all), it moves one client to another monitor (`SentSturdy`,
`DroppedSturdy`), or it changes the monitors (`UpdatedSturdy`, `ResizedSturdy`). The last is
two nested loops, over the monitors that go, from the end, and over the clients of each;
`Vacates` is what both keep: everything managed stays managed, and the clients of the first
monitor stay in their order, however many are pushed in front of them.

`DesktopInv` is the invariant: `Sturdy`, which is the type, the good lists of DwmStateProofs
and that every client is on a monitor that is there (`Housed`), and `Pointing`.
`MonitorsSound` alone does not know the types, the tag sets and the window states on which
the work of the functions rests. `Pointing` says of a drag that its client is managed and
on the selected monitor: that is so when it begins, and mapping a window or asking for a
frame, which the nested loops of `movemouse` and `resizemouse` handle, changes neither. So
`DropLands` follows from the one step in which the drag ends (`OnlyRelease`, `ReleaseStep`).

The proof of `DropLands` failed first, and TLC confirmed why: a hidden window can have its
titlebar mapped, by leaving fullscreen while hidden, and be dragged by it; where it lands,
`focus(NULL)` prefers a client that is not hidden. The property now excepts hidden windows.

*dwmblocks.* `Inv` of DwmblocksProofs joins `OneChild`, `UpdateHasChild` and
`AlarmNeverLost`, which need each other: a pipe gets one message because a
block has one child, and `fork_pid` is cleared together with the message and
the exit status. `AliveInPoll` adds that the loop polls only while `is_alive`.
`NameCurrent` rests on `StatusInv`: whenever the loop
waits, `current` is what the outputs give, and the root window shows `current` until an
update fails, which ends the loop. `TypeOK` adds `Ranges` to the invariant, which also says
that the loop goes to read a signal only if one is pending, so that `Min` has something to
return.

*The clock.* `gcd` and the folds over the blocks are recursive, and a recursive function is
defined by `CHOOSE`: nothing is known of it before a function is shown that solves the
recursion. DwmblocksTimerProofs does that by saying first what the result is: the number
whose divisors are the common divisors of the arguments (`IsGcd`). There is only one
(`Determined`) and there is one for any two numbers (`GcdExists`, by Euclid's algorithm and
strong induction), so the function that returns it solves the recursion of `gcd`, and
so `gcd` returns it (`GcdLemma`). `TickLemma` says the same of the fold, for the intervals
of all blocks; `ResetLemma` is about the maximum. `NeverLate` is not inductive, because
`time` says how long a block has waited only up to whole intervals: `ClockInv` says that
`time`, with 0 read as a full turn, is a multiple of the interval plus what the
block has waited, and that the tick divides `time`. The tick divides the intervals too, so
no multiple of an interval is jumped over (`NextMultiple`), and as it divides the
largest interval, a turn of the clock ends on 0. Where the interval does not divide the
largest one, the block runs early at the wrap and `Waited` holds with a quotient of 0.

*dmenu.* `LineInOrder` says that `text` has room for its NUL and that the cursor stands
between two characters. It is proved from the invariant `LineInv`, which adds that the
text itself does not start inside a character and that the items do not either: a
continuation byte at the very front would make `nextrune(-1)` and `nextrune(+1)` disagree
about the front. This is where the assumption on the inputs comes from; an item or a
pasted text that is not UTF-8 can put the cursor inside a character, by an insertion in
front of it. There is a lemma for each way to move the cursor (`NextRune`, `PrevRune`, the
word moves, whose minimum and maximum over rune starts exist because the sets
are finite and not empty) and for each way to edit (`Inserted`, `Deleted`, the cut at the
first newline or at the limit), and one step per key.

The pages rest on prefix sums of the item widths (`Ends`), which never shrink along the
list: `NextLemma` and `PrevLemma` say what the two loops of `calcoffsets` find, and the
invariant `PagesInv` says that the four pointers are always those of a page that
`calcoffsets` would compute. A page that is full has a page before it that ends right where
it starts, which is what turning pages needs.

For the matches the invariant `MatchedInv` is plain: the list is the one that `match` leaves
for the line as it now is. The work is in the two functions. The scan of `fuzzymatch` takes the
first byte that fits and never goes back; `GreedyLemma` shows that it finds the bytes of the
line whenever they can be picked in that order at all, which is the abstract meaning
(`ScatteredLemma`). `EnteringNarrows`, which without fuzzy matching speaks only of text added at
the end of the line, holds because every token of the line is part of a
token of a line with more text in it (`GrownLemma`), be it that a token grows or that the
text after the cursor moves to the right.

The refinement of DmenuEditor maps a text to its characters by counting: character k
is what lies between the rune start with k - 1 others before it and the next one. Each number
belongs to one rune start (`RankOnto`, `RankOrder`), and the characters of two texts
put together are those of the first and then those of the second (`RunesConcat`). So cutting
a text at a rune start cuts the line between two characters (`CutLemma`), and what
`insert` does with bytes is what the editor does with characters (`InsertedRunes`,
`DeletedRunes`). This is used with `LineInv`, without which the cursor might
have no place in the line. `movewordedge` ends where a word does because `WordLeftLemma` and
`WordRightLemma` say not only what its loops pass but also what stops them. Then
`EditorStep` goes through the keys, clicks and pastes; a step that is refused,
ignored or about the menu leaves the line alone, and one that prints writes the line or an
item.

Only model-checked: the liveness properties, which need ENABLED, and two properties of
DwmDesktop. `TilesApart` rests on products and quotients of variables (`tile` divides what
is left of a column by how many windows remain), which the provers do not decide. It says
something only where there is room; a fullscreen client counts as one that needs room,
because `setfullscreen` takes it out of the tiles without arranging the others, and where
there was no room before they still lie on each other. `HotplugBringsBack` depends on the
hints: `applysizehints` brings a window back by the size it had, and hints that then cut it
may leave it beside the monitor. With the hints of the run this does not happen; with a
greatest width of two TLC finds the property violated.

## Not modelled, and the plan

Worth proving next: what `tile` does where there is room, as a lemma about one arrangement. The
columns divide what is left by how many remain, so it needs products and quotients of
variables.

Not modelled:

- *dwm*: the rounding of tab positions in `buttonpress` against `drawbar`; aspect
  ratios and fixed sizes; `spawn`, `killclient`, `grabkeys`; gaps that make unsigned
  heights wrap; drawing (`drw.c`), which is output only.
- *dwmblocks*: `truncate_utf8_string`, a byte loop without state; the command line; the
  creation of pipes and `BLOCK_BUTTON`.
- *dmenu*: case-insensitive matching, the place of the window, drawing; `stest` and the
  scripts, which keep no state.
- *installer*: its state is that of disks and mounts, and each of its steps is an
  external command. Failing in the middle and starting again (partitions stay
  mounted, fstab is appended to) is the behaviour worth a model.
- session scripts, hooks, build scripts and the archiso profile only run external tools,
  and the rest is configuration data.
