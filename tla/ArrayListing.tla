---------------------------- MODULE ArrayListing ----------------------------
(***************************************************************************)
(* execution/array_processor.go: how the answer of the model that lists    *)
(* the items of an array becomes a size and one line per item.             *)
(*                                                                         *)
(* A response is a sequence of non-blank lines.  A line has a kind ("list" *)
(* or "count" when it starts with the marker, else "text"), says whether   *)
(* it is indented, the number before its first dot (0: none), whether it   *)
(* starts with a digit, and what follows (0: nothing).  A list is the part *)
(* of a response that was kept: a function from positions to lines.        *)
(***************************************************************************)
EXTENDS Integers, Sequences, FiniteSets

CONSTANTS
    DefaultSize,   \* size when nothing is found or the call fails (3 in the code)
    MaxItems       \* no array is larger (100 in the code)

ASSUME ListingAssumption == DefaultSize \in Nat /\ MaxItems \in Nat

Lines == [kind : {"list", "count", "text"}, indented : BOOLEAN, number : Nat,
          digit : BOOLEAN, rest : Int]

NotFound == -1
Junk == 999     \* what the slice of an indented marker line leaves

\* What follows LIST: on its line is a line of the list.  The marker is searched in the
\* trimmed line and cut off the untrimmed one.
AfterMarker(line) ==
    IF line.indented
    THEN [line EXCEPT !.kind = "text", !.number = 0, !.digit = FALSE, !.rest = Junk]
    ELSE [line EXCEPT !.kind = "text"]

Marked(r, i) == {j \in 1 .. i : r[j].kind # "text"}
Latest(S) == CHOOSE i \in S : \A j \in S : j <= i

\* The loop over the lines keeps what is on the line of a LIST: marker, and the lines after
\* it up to the next COUNT:.
InList(r, i) ==
    IF r[i].kind = "text"
    THEN Marked(r, i) # {} /\ r[Latest(Marked(r, i))].kind = "list"
    ELSE r[i].kind = "list" /\ (r[i].indented \/ r[i].number # 0 \/ r[i].rest # 0)

ListLines(r) ==
    [i \in {j \in DOMAIN r : InList(r, j)} |-> IF r[i].kind = "list" THEN AfterMarker(r[i]) ELSE r[i]]

\* The number after the last COUNT:, which is cut off the untrimmed line too.
Count(r) ==
    LET counts == {i \in DOMAIN r : r[i].kind = "count"}
    IN  IF counts = {} \/ r[Latest(counts)].indented THEN NotFound ELSE r[Latest(counts)].rest

NumberedLines(r) == Cardinality({i \in DOMAIN r : r[i].kind = "text" /\ r[i].digit})

Clamp(n) == IF n < 0 THEN 0 ELSE IF n > MaxItems THEN MaxItems ELSE n

\* executeLLMRequest: without a count, or with a count and no list, the numbered lines
\* of the whole response are counted and the whole response is the list.
ExecuteLLMRequest(r) ==
    LET kept == ListLines(r)
        fallback == Count(r) = NotFound \/ (Count(r) > 0 /\ DOMAIN kept = {})
        manual == NumberedLines(r)
        num == IF fallback /\ manual > 0 THEN manual
               ELSE IF fallback /\ Count(r) = NotFound THEN DefaultSize ELSE Count(r)
        list == IF fallback /\ DOMAIN kept = {} THEN r ELSE kept
    IN  [num |-> Clamp(num), list |-> list]

\* extractItemFromList: the first line numbered index + 1 that has content; 0 for none.
ExtractItemFromList(list, index) ==
    LET hits == {i \in DOMAIN list : /\ list[i].kind = "text"
                                     /\ list[i].number = index + 1
                                     /\ list[i].rest # 0}
        first == CHOOSE i \in hits : \A j \in hits : i <= j
    IN  IF hits = {} THEN 0 ELSE list[first].rest
=============================================================================
