------------------------------ MODULE DmenuMatch -----------------------------
(***************************************************************************)
(* Which items dmenu offers for a text, and in which order: match() and    *)
(* fuzzymatch() of src/install/dmenu/dmenu.c.  Items are given as a        *)
(* sequence of texts and matches are sequences of positions in it.         *)
(***************************************************************************)
EXTENDS DmenuText, SequencesExt

(* Thousandths of log(n): what it->distance adds for a match that starts at
   n - 2.  The rest of the distance is a whole number, so this is precise
   enough to order distances. *)
Log == <<0, 693, 1099, 1386, 1609, 1792, 1946, 2079>>

(* Wrong variant: the scan starts over for every byte of the text. *)
Scan_StartsOver(t, item) ==
    [k \in 0..Len(t) |->
        IF k = 0 THEN 0
        ELSE Min({i \in 1..Len(item) : item[i] = t[k]} \cup {Len(item) + 1})]

(* Where the greedy scan of an item finds the k-th byte of the text; past
   the end when it does not. *)
Scan(t, item) ==
    LET Found[k \in 0..Len(t)] ==
            IF k = 0 THEN 0
            ELSE LET last == Found[k - 1]
                 IN  Min({i \in (last + 1)..Len(item) : item[i] = t[k]}
                            \cup {Len(item) + 1})
    IN  Found

Distance(t, item) ==
    LET found == Scan(t, item)
        sidx == found[1] - 1
        eidx == found[Len(t)] - 1
    IN  Log[sidx + 2] + 1000 * (eidx - sidx - Len(t))

(* Every order in which fuzzymatch() can leave the matches: qsort() sorts
   them by distance and says nothing about equal ones. *)
FuzzyMatches(items, t) ==
    LET found == {i \in 1..Len(items) :
                    Scan(t, items[i])[Len(t)] <= Len(items[i])}
        distance == [i \in found |-> Distance(t, items[i])]
        sorted(s) == \A i \in 2..Len(s) : distance[s[i - 1]] <= distance[s[i]]
    IN  IF t = <<>> THEN {[i \in 1..Len(items) |-> i]}
        ELSE {s \in SetToSeqs(found) : sorted(s)}

(* strtok(buf, " "): the maximal runs of bytes other than the separator. *)
Separator == " "
TokenEnds(t) ==
    {ij \in (1..Len(t)) \X (1..Len(t)) :
        /\ ij[1] <= ij[2]
        /\ \A k \in ij[1]..ij[2] : t[k] # Separator
        /\ ij[1] = 1 \/ t[ij[1] - 1] = Separator
        /\ ij[2] = Len(t) \/ t[ij[2] + 1] = Separator}
Tokens(t) == {SubSeq(t, ij[1], ij[2]) : ij \in TokenEnds(t)}
FirstToken(t) ==
    LET ij == CHOOSE ij \in TokenEnds(t) : \A kl \in TokenEnds(t) : ij[1] <= kl[1]
    IN  SubSeq(t, ij[1], ij[2])

(* The items that contain every token of the text. *)
Hits(items, t) == {i \in 1..Len(items) : Tokens(t) \subseteq SubSeqs(items[i])}

(* Wrong variant: the matches stay in the order of the items. *)
TokenMatches_AsRead(items, t) ==
    {s \in SetToSeqs(Hits(items, t)) : \A i, j \in DOMAIN s : i < j => s[i] < s[j]}

(* match() without -f(uzzy): the list of exact matches, then that of items that
   start with the first token, then the rest, each in the order of the items. *)
TokenMatches(items, t) ==
    LET list(i) == IF items[i] = t THEN 1
                   ELSE IF IsPrefix(FirstToken(t), items[i]) THEN 2 ELSE 3
        before(i, j) == list(i) < list(j) \/ (list(i) = list(j) /\ i < j)
    IN  IF Tokens(t) = {} THEN {[i \in 1..Len(items) |-> i]}
        ELSE {s \in SetToSeqs(Hits(items, t)) :
                \A i, j \in DOMAIN s : i < j => before(s[i], s[j])}

Match(fuzzy, items, t) ==
    IF fuzzy THEN FuzzyMatches(items, t) ELSE TokenMatches(items, t)
=============================================================================
