----------------------------- MODULE MCInjector -----------------------------
(* Model checking Injector on a mixed and a clean split of two sessions    *)
(* with the whole catalogue: every compatible pair of faults across the    *)
(* two, and two or three faults in either one beside a session that may    *)
(* lend its decision; and on a single split of four sessions and two       *)
(* classes, one of which only a deny session is eligible for.              *)
EXTENDS Injector

MCRetrievalOrder == <<"credit_bureau", Demographics>>
MCRequired       == {"credit_bureau"}

Class(proposed, granted) == [proposed |-> proposed, granted |-> granted]
MCApplying == {Class("grant", TRUE), Class("deny", TRUE), Class("refer", TRUE), Class("grant", FALSE)}

Instance(split, size, catalogue, budget) ==
    [split |-> split, size |-> size, catalogue |-> catalogue, budget |-> budget]

MCInstances ==
    {Instance("clean", 2, FaultClasses, <<0, 0>>),
     Instance("single", 4, {2, 6}, <<0, 0, 0, 0>>)}
    \cup {Instance("mixed", 2, FaultClasses, budget) :
              budget \in {<<1, 1>>, <<2, 0>>, <<3, 0>>, <<0, 2>>, <<0, 3>>}}

MCDecisionOutcomes == {"grant", "deny"}
MCAdverseForRule   == {"deny", "refer"}
=============================================================================
