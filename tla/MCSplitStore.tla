---------------------------- MODULE MCSplitStore ----------------------------
(* Model checking SplitStore: two injections of a directory with two of    *)
(* the three splits, of different sessions in the second.                  *)
EXTENDS SplitStore

MCOrder == <<"clean", "single">>
MCFiles == [first  |-> [clean |-> {"a"}, single |-> {"b", "c"}],
            second |-> [clean |-> {"a"}, single |-> {"b"}]]
=============================================================================
