---------------------------- MODULE EventStreams ----------------------------
(***************************************************************************)
(* The events that a streaming call sends to its client: lines of output,  *)
(* each with its stream and its number in that stream, and the exit event. *)
(***************************************************************************)
EXTENDS Integers, Sequences

IsExit(e) == "exit" \in DOMAIN e

\* Where the lines of stream s are among the events es.
LinesOf(es, s) == {n \in DOMAIN es : ~IsExit(es[n]) /\ es[n].stream = s}

\* Line k of stream s is among the events es.
HasLine(es, s, k) == \E n \in LinesOf(es, s) : es[n].line = k

\* The lines of stream s among es ascend, and are after line lo and up to line hi.
Ordered(es, s, lo, hi) ==
  /\ \A m, n \in LinesOf(es, s) : m < n => es[m].line < es[n].line
  /\ \A n \in LinesOf(es, s) : lo < es[n].line /\ es[n].line <= hi

\* Every line of stream s after line lo and up to line hi is among es.
Complete(es, s, lo, hi) == \A k \in (lo + 1)..hi : HasLine(es, s, k)
=============================================================================
