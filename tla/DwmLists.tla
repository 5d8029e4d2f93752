------------------------------ MODULE DwmLists ------------------------------
(***************************************************************************)
(* The linked lists of dwm.  A monitor keeps its clients on two singly     *)
(* linked lists, Monitor.clients (through Client.next) and Monitor.stack   *)
(* (through Client.snext).  Both are sequences here, head first, and the   *)
(* loops of dwm.c that walk them with a condition are the operators below. *)
(* The condition is given as the set of clients that satisfy it, so that   *)
(* every operator is first order and lemmas can be stated about it.        *)
(***************************************************************************)
EXTENDS Naturals, Sequences, Functions

CONSTANT NULL      \* the null pointer; also the root window and None

\* The place of c on a list that holds it.
IndexOf(seq, c) == CHOOSE i \in 1 .. Len(seq) : seq[i] = c

\* for (c = <element k>; c && !(c in S); c = c->next);
FirstFrom(seq, k, S) ==
  LET I == {i \in 1 .. Len(seq) : i >= k /\ seq[i] \in S}
  IN  IF I = {} THEN NULL ELSE seq[CHOOSE i \in I : \A j \in I : i <= j]

\* The same loop from the head of the list.
FirstIn(seq, S) == FirstFrom(seq, 1, S)

\* for (c = <head>; c; c = c->next) s = op(s, c);
Walk(op(_, _), s, seq) ==
  LET after[i \in 0 .. Len(seq)] ==
        IF i = 0 THEN s ELSE op(after[i - 1], seq[i])
  IN  after[Len(seq)]

\* The clients that a loop does not skip: for (...) if (c in S) ...
Those(seq, S) ==
  LET upto[i \in 0 .. Len(seq)] ==
        IF i = 0 THEN <<>>
        ELSE IF seq[i] \in S THEN Append(upto[i - 1], seq[i]) ELSE upto[i - 1]
  IN  upto[Len(seq)]

\* for (i = <head>; i != <element k + 1>; i = i->next) if (i in S) c = i;
LastUpTo(seq, k, S) ==
  LET I == {i \in 1 .. Len(seq) : i <= k /\ seq[i] \in S}
  IN  IF I = {} THEN NULL ELSE seq[CHOOSE i \in I : \A j \in I : j <= i]

\* for (tc = &head; *tc && *tc != c; tc = &(*tc)->next); *tc = c->next;
Unlink(seq, c) ==
  IF c \in Range(seq)
  THEN [i \in 1 .. Len(seq) - 1 |->
          IF i < IndexOf(seq, c) THEN seq[i] ELSE seq[i + 1]]
  ELSE seq

\* c->next = head; head = c;
Push(c, seq) ==
  [i \in 1 .. Len(seq) + 1 |-> IF i = 1 THEN c ELSE seq[i - 1]]

=============================================================================
