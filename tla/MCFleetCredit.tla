--------------------------- MODULE MCFleetCredit ---------------------------
(* Model checking FleetRun with the credit scenario plugged in, two runs   *)
(* of different length over one directory, and beside it with small        *)
(* scripts that another scenario could bring: one that declares an object  *)
(* twice, one that never declares what it names, one that overruns the     *)
(* stride, and a run that outlives its policy.                             *)
(*                                                                         *)
(* Of an applicant the emission shows no more than whether the approver    *)
(* grants, so the classes of the two credit runs stand for all.            *)
EXTENDS FleetRun, CreditFleet

MCRetrievalOrder == <<"credit_bureau", Demographics>>

Class(proposed, granted) == [proposed |-> proposed, granted |-> granted]
CreditClass == [denied   |-> Class("deny", TRUE),
                declined |-> Class("grant", FALSE),
                referred |-> Class("refer", TRUE)]

CreditRuns == {"run_a", "run_b"}
MCRuns     == CreditRuns \cup {"twice", "dangling", "late", "slow"}
MCDraw     == [run_a    |-> <<"denied", "declined">>,
               run_b    |-> <<"referred">>,
               twice    |-> <<"brief", "redeclares">>,
               dangling |-> <<"undeclared">>,
               late     |-> <<"brief", "brief", "brief">>,
               slow     |-> <<"overruns", "brief">>]
MCCount    == [r \in MCRuns |-> Len(MCDraw[r])]

MCEventTypes == DOMAIN CreditDuration
MCCalls      == {"call_llm", "call_tool"}
MCLaden      == {"make_decision"}

(* The part of an event that emission looks at.                            *)
Emission(e) == [type |-> e.type,
                refs |-> {<<r.obj, r.mode>> : r \in e.refs},
                o2o  |-> UNION {{edge[1], edge[2]} : edge \in e.o2o}]
CreditEmission(a) == [k \in DOMAIN CreditScript(a) |-> Emission(CreditScript(a)[k])]

Start   == Emission(Event("session_start", NoActor, {Declare("within", Session, {})}))
Work    == Emission(CallTool("intake", "any"))
Cite    == Emission(Event("request_approval", NoActor, {Concerns(Decision)}))
Verdict == Emission(Event("deny_approval", NoActor, {Within}))

Close   == Emission(Event("make_decision", NoActor, {Declare("produces", Decision, {})}))

Foreign == [brief      |-> <<Start, Cite, Close>>,
            redeclares |-> <<Start, Start>>,
            undeclared |-> <<Start, Work>>,
            overruns   |-> <<Start>> \o [k \in 1 .. 8 |-> Verdict]]

MCClasses == DOMAIN CreditClass \cup DOMAIN Foreign
MCScript  == [c \in MCClasses |->
                 IF c \in DOMAIN CreditClass THEN CreditEmission(CreditClass[c]) ELSE Foreign[c]]
MCObjects ==
    UNION {UNION {{r[1] : r \in MCScript[c][k].refs} : k \in DOMAIN MCScript[c]} : c \in MCClasses}

MCStride     == 900
MCPolicyFrom == -86400
MCPolicyTo   == 2 * MCStride - 1    \* no credit run gets there, theirs is Open

(* No check of the emission ever fires for the credit scenario: its agents *)
(* declare everything they name, once, and its sessions keep to their      *)
(* slots.                                                                  *)
CreditFits == run \in CreditRuns => ScenarioFits
=============================================================================
