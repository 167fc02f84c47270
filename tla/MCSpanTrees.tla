---------------------------- MODULE MCSpanTrees ----------------------------
(* SpanTrees over every parent function and every choice of event spans of *)
(* four spans: chains, forks, forests, orphans and cycles of all lengths.  *)
EXTENDS SpanTrees
=============================================================================
