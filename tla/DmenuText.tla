------------------------------ MODULE DmenuText ------------------------------
(***************************************************************************)
(* The input field of dmenu (src/install/dmenu/dmenu.c): the bytes of      *)
(* text[] up to its terminating NUL and the byte offset cursor.  A text is *)
(* a sequence of bytes; offset n of the C code is position n + 1 here.     *)
(* What tells bytes apart is whether they continue a UTF-8 rune            *)
(* ((c & 0xc0) == 0x80) and whether they delimit words.                    *)
(***************************************************************************)
EXTENDS Integers, Sequences, FiniteSetsExt

CONSTANTS
    Byte,
    Continuation,   \* the bytes 10xxxxxx
    worddelimiters, \* the bytes of worddelimiters[]
    MaxText         \* sizeof text - 1

ASSUME TextAssumption == /\ MaxText \in Nat
                         /\ Continuation \cup worddelimiters \subseteq Byte
                         /\ worddelimiters \cap Continuation = {}

(* What reaches the field is UTF-8: no text starts in the middle of a rune. *)
Texts == {s \in Seq(Byte) : s # <<>> => s[1] \notin Continuation}

(* The offsets nextrune() can stop at: it steps over continuation bytes and
   never past either end of the text. *)
RuneStarts(t) == {n \in 0..Len(t) : \/ n \in {0, Len(t)}
                                    \/ t[n + 1] \notin Continuation}

(* Wrong variant: one byte to the left. *)
PrevRune_Byte(t, c) == c - 1

NextRune(t, c) == Min({n \in RuneStarts(t) : n > c})  \* nextrune(+1), c < Len(t)
PrevRune(t, c) == Max({n \in RuneStarts(t) : n < c})  \* nextrune(-1), c > 0

IsDelimiter(t, n) == t[n + 1] \in worddelimiters

(* The furthest rune start left of c that a loop "while (cursor > 0 &&
   Test(text[nextrune(-1)])) cursor = nextrune(-1)" reaches, and its mirror
   image to the right. *)
SkipLeft(t, c, Test(_)) ==
    Min({n \in (RuneStarts(t) \cap (0..c)) \cup {c} :
            \A m \in RuneStarts(t) : n <= m /\ m < c => Test(m)})
SkipRight(t, c, Test(_)) ==
    Max({n \in (RuneStarts(t) \cap (c..Len(t))) \cup {c} :
            \A m \in RuneStarts(t) \cup {c} : c <= m /\ m < n => Test(m)})

(* Wrong variant: the word is skipped before the delimiters. *)
WordLeft_Swapped(t, c) ==
    LET Delim(n) == IsDelimiter(t, n)
        Word(n) == ~IsDelimiter(t, n)
    IN  SkipLeft(t, SkipLeft(t, c, Word), Delim)

WordLeft(t, c) ==                                     \* movewordedge(-1)
    LET Delim(n) == IsDelimiter(t, n)
        Word(n) == ~IsDelimiter(t, n)
    IN  SkipLeft(t, SkipLeft(t, c, Delim), Word)
WordRight(t, c) ==                                    \* movewordedge(+1)
    LET Delim(n) == IsDelimiter(t, n)
        Word(n) == ~IsDelimiter(t, n)
    IN  SkipRight(t, SkipRight(t, c, Delim), Word)

(* Wrong variant: no byte is left for the terminating NUL. *)
Fits_NoNUL(t, s) == Len(t) + Len(s) <= MaxText + 1

Fits(t, s) == Len(t) + Len(s) <= MaxText
Inserted(t, c, s) == SubSeq(t, 1, c) \o s \o SubSeq(t, c + 1, Len(t))
Deleted(t, from, c) == SubSeq(t, 1, from) \o SubSeq(t, c + 1, Len(t))

(* The runes of t, each the sequence of its bytes: what the user sees. *)
Runes(t) ==
    LET starts == RuneStarts(t) \ {Len(t)}
        nth(k) == CHOOSE n \in starts : Cardinality({m \in starts : m < n}) = k - 1
    IN  [k \in 1..Cardinality(starts) |->
            SubSeq(t, nth(k) + 1, NextRune(t, nth(k)))]
=============================================================================
