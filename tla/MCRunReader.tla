---------------------------- MODULE MCRunReader ----------------------------
(* RunReader over small scripts that another scenario could bring: sound   *)
(* ones, one that declares an object twice, one that never declares what   *)
(* it names, and one that overruns the stride; under a policy whose window *)
(* closes after the second session.  The two runs that can be published    *)
(* are of different length.                                                *)
EXTENDS RunReader

MCRuns    == {"sound", "short", "twice", "dangling", "late", "slow"}
MCCount   == [sound |-> 2, short |-> 1, twice |-> 2, dangling |-> 1, late |-> 3, slow |-> 2]
MCClasses == {"good", "brief", "redeclares", "undeclared", "overruns"}
MCDraw    == [sound    |-> <<"good", "brief">>,
              short    |-> <<"brief">>,
              twice    |-> <<"brief", "redeclares">>,
              dangling |-> <<"undeclared">>,
              late     |-> <<"brief", "brief", "brief">>,
              slow     |-> <<"overruns", "good">>]

MCEventTypes == {"start", "work", "wait"}
MCCalls      == {"work"}
MCLaden      == {"work", "wait"}
MCObjects    == {"session", "agent", "decision"}
MCDuration   == [start |-> 1, work |-> 2, wait |-> 4]

Step(type, refs, o2o) == [type |-> type, refs |-> refs, o2o |-> o2o]

Start == Step("start", {<<"session", "declare">>}, {})
Work  == Step("work", {<<"agent", "maybe">>, <<"session", "ref">>}, {})
Cite  == Step("wait", {<<"decision", "ref">>}, {})
Close == Step("start", {<<"decision", "declare">>}, {"session"})

MCScript ==
    [good       |-> <<Start, Work, Cite, Close>>,
     brief      |-> <<Start, Work>>,
     redeclares |-> <<Start, Start>>,
     undeclared |-> <<Start, Cite>>,
     overruns   |-> <<Start, Cite, Work, Close, Work>>]

MCStride     == 9
MCPolicyFrom == -3
MCPolicyTo   == 10
=============================================================================
