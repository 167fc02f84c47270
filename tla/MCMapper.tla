------------------------------ MODULE MCMapper ------------------------------
(* Mapper over three traces, each with one of the contents below: sessions *)
(* that declare an agent (in two ways at odds with each other), name one,  *)
(* declare it purely, or relate it; that reuse a session or an event id;   *)
(* that leave a gap in their numbering; with edges that fit or not; and    *)
(* what the span contract lets through and the log does not: an event that *)
(* relates to nothing, an id out of the charset, a time in fractions of a  *)
(* second, an attribute the registry does not know.                        *)
EXTENDS Mapper

MCObjects     == {"agent", "app", "app2", "app 3"}
MCObjectTypes == {"Agent", "Application"}
MCAttributes  == {"v1", "v2"}
MCEventTypes  == {"invoke", "decide"}
MCEventIds    == {"e1", "e2", "e3", "e4", "e5", "6.0"}
MCSafeIds     == (MCEventIds \ {"6.0"}) \cup (MCObjects \ {"app 3"})
MCRegistered  == {<<"Agent", "v1">>, <<"Agent", "v2">>, <<"Application", "v1">>}
MCSessions    == {"S1", "S2", "S3"}
MCQualifiers  == {"performed_by", "concerns"}
MCO2O         == {"assigned"}
MCPermitted   == [x \in MCEventTypes \X MCObjectTypes |->
                    IF x[2] = "Agent" THEN {"performed_by"} ELSE {"concerns"}]
MCEndpoints   == [q \in MCO2O |-> <<"Application", "Agent">>]

Ref(object, otype, qualifier, attributes) ==
    [object |-> object, otype |-> otype, qualifier |-> qualifier, attributes |-> attributes]

Event(id, seq, scope, refs, edges) ==
    [id |-> id, type |-> "invoke", seq |-> seq, scope |-> scope, refs |-> refs,
     o2o |-> edges, sound |-> TRUE, canonical |-> TRUE]

Subsecond(e) == [e EXCEPT !.canonical = FALSE]

Trace(session, holds) == [session |-> session, events |-> holds]

Edge   == [source |-> "app", target |-> "agent", qualifier |-> "assigned"]
Astray == [source |-> "agent", target |-> "app", qualifier |-> "assigned"]

Purely == Ref("agent", "Agent", None, "v1")
Other  == Ref("agent", "Agent", "performed_by", "v2")
Named  == Ref("agent", "Agent", "performed_by", None)
Wrong  == Ref("agent", "Agent", "concerns", None)
App    == Ref("app", "Application", "concerns", "v1")
Spaced == Ref("app 3", "Application", "concerns", "v1")
Extra  == Ref("app2", "Application", "concerns", "v2")

MCContents ==
    {Trace("S1", {Event("e1", 1, "S1", {Purely, App}, {})}),
     Trace("S2", {Event("e2", 1, "S2", {Named}, {Edge}), Event("e3", 2, "S2", {App}, {})}),
     Trace("S2", {Event("e3", 1, "S2", {Other}, {})}),
     Trace("S3", {Event("e4", 1, "S3", {Purely}, {}), Event("e5", 2, "S3", {Named}, {})}),
     Trace("S3", {Event("e5", 1, "S3", {Named, App}, {Astray})}),
     Trace("S3", {Event("e1", 1, "S3", {App}, {})}),
     Trace("S1", {Event("e4", 2, "S1", {App}, {})}),
     Trace("S1", {Event("e4", 1, "S1", {Wrong}, {}), Event("e4", 2, "S1", {App}, {})}),
     Trace("S3", {Event("e4", 1, "S3", {Wrong}, {Edge})}),
     Trace("S1", {Event("e1", 1, "S1", {App}, {})}),
     Trace("S2", {Event("e3", 1, "S2", {}, {}), Event("e2", 2, "S2", {App}, {})}),
     Trace("S3", {Subsecond(Event("e4", 1, "S3", {Purely}, {})), Event("e5", 2, "S3", {App}, {})}),
     Trace("S1", {Event("e1", 1, "S1", {App}, {}), Event("6.0", 2, "S1", {App}, {})}),
     Trace("S2", {Event("e2", 1, "S2", {Spaced}, {}), Event("e2", 2, "S2", {App}, {})}),
     Trace("S1", {Event("e1", 1, "S1", {Purely, Extra}, {})}),
     Trace("S1", {Event("e1", 1, "S2", {App}, {})})}
=============================================================================
