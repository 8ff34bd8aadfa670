--------------------------- MODULE SlidingWindow ---------------------------
(***************************************************************************)
(* The sliding window of connection/controller/window.rs (ReliableWindow)  *)
(* as pure operators.  A window is a record:                               *)
(*   lo   the lowest index not yet passed (window.0);                      *)
(*   got  the indices above lo that have already been inserted (queue's    *)
(*        keys; the timestamps stored beside them are never read).         *)
(* window.1 is not a field: every operation of the code leaves it at       *)
(* window.0 + size, so it is the operator High.  The wrapping additions    *)
(* never wrap here: indices are 24-bit on the wire and 32-bit in memory.   *)
(***************************************************************************)
EXTENDS Naturals, FiniteSets

NewWindow == [lo |-> 0, got |-> {}]

SeedStart(start) == [lo |-> start, got |-> {}]

High(w, size) == w.lo + size

\* Mutant: the lookup in the queue is missing.
AcceptsAgain(w, size, i) == i \in w.lo .. High(w, size)

\* insert() answers FALSE exactly when this is FALSE.  The upper end is
\* inclusive: the window admits size + 1 indices.
Accepts(w, size, i) == i \in w.lo .. High(w, size) /\ i \notin w.got

\* The first index from start on that is missing from got: where the loop of
\* adjust(), and the loop of OrderedQueue::flush, stop.
FirstGap(got, start) ==
    CHOOSE k \in start .. (start + Cardinality(got)) :
        /\ k \notin got
        /\ \A j \in start .. (k - 1) : j \in got

Adjust(w) ==
    LET gap == FirstGap(w.got, w.lo)
    IN  [lo |-> gap, got |-> w.got \ (w.lo .. (gap - 1))]

\* The effect of insert() on an index it accepts.
InsertIndex(w, i) ==
    LET added == [w EXCEPT !.got = @ \cup {i}]
    IN  IF i = w.lo THEN Adjust(added) ELSE added

\* skip_through(): jump past an index that is given up, forget what the new
\* window no longer covers, and slide over what was already inserted.
SkipThrough(w, size, i) ==
    IF w.lo <= i
    THEN Adjust([lo  |-> i + 1,
                 got |-> {k \in w.got : i + 1 <= k /\ k <= i + 1 + size}])
    ELSE w
=============================================================================
