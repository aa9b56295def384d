--------------------------- MODULE MCStreamRelay ---------------------------
(***************************************************************************)
(* A bound on the exploration of StreamRelay.                              *)
(***************************************************************************)
EXTENDS StreamRelay

\* Two tasks of one request are explored up to their first chunk: the
\* properties about order, completeness and progress except retried requests,
\* so the behaviours this cuts off satisfy them.
Bounded == "retried" \in marks => \A t \in Tasks : host[t].next = 1
=============================================================================
