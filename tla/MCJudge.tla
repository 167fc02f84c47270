------------------------------- MODULE MCJudge -------------------------------
EXTENDS JudgeScores, SequencesExt

CONSTANTS p1, p2, S1, S2, e1, e2, C1, c1, P, Q

Swept(prompt, sessions, conditions, samples) ==
    [prompt |-> prompt, sessions |-> sessions, conditions |-> conditions,
     models |-> <<"sonnet">>, samples |-> samples]

MCSweeps ==
    {Swept(p1, <<S1>>, <<"ocel">>, 2), Swept(p1, <<S1>>, <<"ocel">>, 1),
     Swept(p2, <<S1>>, <<"spans", "ocel">>, 1)}

Claim(label, events) == [label |-> label, events |-> events]

Repeats == <<Claim(c1, <<e2>>), Claim(C1, <<e2>>)>>
Rambles == <<Claim(C1, <<e2, e1>>), Claim(c1, <<e1>>), Claim(C1, <<e1>>)>>

MCAnswers ==
    [prompt \in {p1, p2} |->
        IF prompt = p1 THEN {Failure, Repeats, Rambles} ELSE {Repeats}]

MCConstraint == [label \in {C1, c1} |-> C1]

Label(events, session) == [constraint |-> C1, events |-> events, session |-> session]

MCLabels ==
    BoundedSeq({Label({e1}, S1), Label({e2}, S1), Label({e1, e2}, S2)}, 2)

Symmetric == Permutations(Sweepers)
=============================================================================
