----------------------------- MODULE DmenuEditor -----------------------------
(***************************************************************************)
(* What dmenu promises about its input line, said in characters: the line  *)
(* is a sequence of characters, the cursor stands between two of them, and *)
(* a key changes whole characters next to the cursor.  Bytes, their limit  *)
(* and the list of items are details of Dmenu, which implements this.  A   *)
(* click on the line does what the code does, not what the comment in the  *)
(* code says (MCDmenuClick).                                               *)
(***************************************************************************)
EXTENDS Integers, Sequences

CONSTANTS Strings,    \* what one key press or paste may insert
          Copies,    \* what Tab may copy into the line
          Blanks,     \* the characters between words
          Answers     \* the items that may be written instead of the line

VARIABLES line, pos, written
vars == <<line, pos, written>>

Init == line = <<>> /\ pos = 0 /\ written = <<>>

Before(n) == SubSeq(line, 1, n)
After(n) == SubSeq(line, n + 1, Len(line))

Change(l, p) == line' = l /\ pos' = p /\ written' = <<>>
Move(p) == p \in 0..Len(line) /\ Change(line, p)

Type(s) == Change(Before(pos) \o s \o After(pos), pos + Len(s))
Copy(s) == Change(s, Len(s))
Erase(from, to) == Change(Before(from) \o After(to), from)

(* b is where the word that ends at or before pos begins. *)
WordBegin(b) ==
    \E e \in b..pos :
        /\ \A k \in (e + 1)..pos : line[k] \in Blanks
        /\ \A k \in (b + 1)..e : line[k] \notin Blanks
        /\ e = 0 \/ line[e] \notin Blanks
        /\ b = 0 \/ line[b] \in Blanks
(* e is where the word that starts at or after pos ends. *)
WordEnd(e) ==
    \E b \in pos..e :
        /\ \A k \in (pos + 1)..b : line[k] \in Blanks
        /\ \A k \in (b + 1)..e : line[k] \notin Blanks
        /\ b = Len(line) \/ line[b + 1] \notin Blanks
        /\ e = Len(line) \/ line[e + 1] \in Blanks

Next ==
    \/ Change(line, pos)                                  \* refused or ignored
    \/ \E s \in Answers \cup {line} : written' = <<s>> /\ UNCHANGED <<line, pos>>
    \/ Move(0) \/ Move(Len(line)) \/ Move(pos - 1) \/ Move(pos + 1)
    \/ \E s \in Strings : Type(s)
    \/ \E s \in Copies : Copy(s)
    \/ pos > 0 /\ Erase(pos - 1, pos)                     \* Backspace
    \/ pos < Len(line) /\ Erase(pos, pos + 1)             \* Delete
    \/ Erase(0, pos)                                      \* C-u, or a click
    \/ Erase(pos, Len(line))                              \* C-k
    \/ \E b \in 0..pos : WordBegin(b) /\ (Erase(b, pos) \/ Move(b))
    \/ \E e \in pos..Len(line) : WordEnd(e) /\ Move(e)

Spec == Init /\ [][Next]_vars
=============================================================================
