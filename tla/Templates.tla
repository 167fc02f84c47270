----------------------------- MODULE Templates -----------------------------
(***************************************************************************)
(* The rules the constraint engine ships with, as functions of an          *)
(* object-centric event log: constraints/templates.py (T1 to T5),          *)
(* object_absence of constraints/standard.py as rules.yaml instantiates it *)
(* and evaluate of constraints/engine.py; and the two synchronised         *)
(* templates of standard.py, for any activities.                           *)
(*                                                                         *)
(* A log has a set of events [id, type, time, outcome, rels], each         *)
(* relation being a [qual, obj], and the facts of every declared object    *)
(* (the attributes a rule reads, as a set of names).  An object carries    *)
(* its kind.  A violation is what ground truth is joined on, constraint    *)
(* and cited events, with the cited objects.                               *)
(***************************************************************************)
EXTENDS Integers, FiniteSets

CONSTANTS
    DecisionOutcomes,  \* T1: outcomes that need an approval
    RequiredSources,   \* T2: resource types every decision rests on
    EntrypointRoles,   \* T3: agents that may act without a handoff
    AdverseForRule     \* T4: outcomes that need reason codes

Violation(constraint, events, objects) ==
    [constraint |-> constraint, events |-> {e.id : e \in events}, objects |-> objects]

-----------------------------------------------------------------------------
(* build_index and its lookups.                                            *)
OfType(log, types) == {e \in log.events : e.type \in types}

(* related_ids: by exactly this qualifier and type, so that a pure         *)
(* declaration never satisfies a lookup.                                   *)
Related(e, qual, kind) ==
    {r.obj : r \in {x \in e.rels : x.qual = qual /\ x.obj.kind = kind}}

SessionOf(e) == Related(e, "within", "Session")

StrictlyBefore(e, f) == e.time < f.time

(* (timestamp, event id) order; ids sort by session and number.            *)
Precedes(e, f) ==
    \/ e.time < f.time
    \/ e.time = f.time /\ e.id[1] < f.id[1]
    \/ e.time = f.time /\ e.id[1] = f.id[1] /\ e.id[2] < f.id[2]

Earliest(events) == CHOOSE e \in events : \A f \in events : f = e \/ Precedes(e, f)

Decisions(log) == OfType(log, {"make_decision"})
Produced(e)    == Related(e, "produces", "CreditDecision")

-----------------------------------------------------------------------------
(* T1: every decision that needs an approval has a prior one by an         *)
(* authorised approver.                                                    *)
Approvals(log) == OfType(log, {"grant_approval"})
Endorsed(a)    == Related(a, "approves", "CreditDecision")
Approvers(a)   == Related(a, "performed_by", "HumanApprover")

PriorApprovals(log, e, d) ==
    {a \in Approvals(log) : d \in Endorsed(a) /\ StrictlyBefore(a, e)}

Authorised(log, a) == \E p \in Approvers(a) : "authorised" \in log.facts[p]

SessionApprovals(log, e) ==
    {a \in Approvals(log) : SessionOf(e) # {} /\ SessionOf(a) = SessionOf(e)}

(* Which of the three citations an unsatisfied decision gets.              *)
ApprovalViolation(log, e, d) ==
    LET prior     == PriorApprovals(log, e, d)
        inSession == SessionApprovals(log, e)
    IN  CASE prior # {} ->
               Violation("T1", {Earliest(prior)}, Approvers(Earliest(prior)))
          [] prior = {} /\ inSession # {} ->
               Violation("T1", {Earliest(inSession), e}, {d} \cup Endorsed(Earliest(inSession)))
          [] OTHER -> Violation("T1", {e}, {d})

T1(log) ==
    UNION {{ApprovalViolation(log, e, d) :
               d \in {x \in Produced(e) :
                         ~ \E a \in PriorApprovals(log, e, x) : Authorised(log, a)}} :
           e \in {f \in Decisions(log) : f.outcome \in DecisionOutcomes}}

-----------------------------------------------------------------------------
(* T2: the retrievals that concern a decision's application cover every    *)
(* required source.                                                        *)
Covered(log, application) ==
    UNION {{r.id : r \in Related(e, "reads", "DataResource")} :
           e \in {f \in OfType(log, {"retrieve_data"}) :
                     application \in Related(f, "concerns", "Application")}}

T2(log) ==
    {Violation("T2", {e}, {}) :
        e \in {f \in Decisions(log) :
                 ~ (RequiredSources \subseteq
                      UNION {Covered(log, a) : a \in Related(f, "concerns", "Application")})}}

-----------------------------------------------------------------------------
(* T3: an agent acts after a handoff to it, and handoffs do not cycle.     *)
SessionEvents(log, s) == {e \in log.events : SessionOf(e) = {s}}
HandoffsIn(events)    == {e \in events : e.type = "handoff"}
Performers(events)    == UNION {Related(e, "performed_by", "Agent") : e \in events}
FirstAct(events, agent) ==
    Earliest({e \in events : agent \in Related(e, "performed_by", "Agent")})

Orphans(events) ==
    {agent \in Performers(events) :
        /\ agent.id \notin EntrypointRoles
        /\ ~ \E h \in HandoffsIn(events) :
                /\ agent \in Related(h, "to", "Agent")
                /\ StrictlyBefore(h, FirstAct(events, agent))}

(* The event right before the agent's first one, if it is a handoff: the   *)
(* misdirected handoff that explains the orphan.                           *)
Misdirected(events, agent) ==
    LET earlier == {e \in events : Precedes(e, FirstAct(events, agent))}
    IN  {h \in HandoffsIn(earlier) : \A e \in earlier : e = h \/ Precedes(e, h)}

OrphanViolations(events) ==
    {Violation("T3", Misdirected(events, a) \cup {FirstAct(events, a)}, {a}) :
        a \in Orphans(events)}

Edge(h) == Related(h, "from", "Agent") \X Related(h, "to", "Agent")

(* Reachability without recursion: in every set of agents that holds the   *)
(* start and is closed under the edges.                                    *)
Reaches(edges, from, to) ==
    LET agents == {pair[1] : pair \in edges} \cup {pair[2] : pair \in edges}
    IN  \A S \in SUBSET agents :
            (from \in S /\ \A pair \in edges : pair[1] \in S => pair[2] \in S) => to \in S

(* Mutant of CycleViolations: a misdirected handoff counts in both.        *)
CycleViolationsOfAll(events) ==
    LET handoffs == HandoffsIn(events)
        edges    == UNION {Edge(h) : h \in handoffs}
        cyclic   == {pair \in edges : Reaches(edges, pair[2], pair[1])}
        onCycle  == {h \in handoffs : Edge(h) \cap cyclic # {}}
    IN  IF onCycle = {} THEN {}
        ELSE {Violation("T3", onCycle, {pair[1] : pair \in cyclic} \cup {pair[2] : pair \in cyclic})}

(* Handoffs already cited as misdirected do not count again as a cycle.    *)
CycleViolations(events) ==
    LET cited    == UNION {Misdirected(events, a) : a \in Orphans(events)}
        handoffs == HandoffsIn(events) \ cited
        edges    == UNION {Edge(h) : h \in handoffs}
        cyclic   == {pair \in edges : Reaches(edges, pair[2], pair[1])}
        onCycle  == {h \in handoffs : Edge(h) \cap cyclic # {}}
    IN  IF onCycle = {} THEN {}
        ELSE {Violation("T3", onCycle, {pair[1] : pair \in cyclic} \cup {pair[2] : pair \in cyclic})}

T3(log) ==
    UNION {OrphanViolations(SessionEvents(log, s)) \cup CycleViolations(SessionEvents(log, s)) :
           s \in UNION {SessionOf(e) : e \in log.events}}

-----------------------------------------------------------------------------
(* T4: an adverse decision carries reason codes, on the decision object,   *)
(* and is explained.  One violation, whichever arm fails.                  *)
Explained(log) ==
    UNION {Related(e, "explains", "CreditDecision") : e \in OfType(log, {"emit_reasoning"})}

T4(log) ==
    UNION {{Violation("T4", {e}, {d}) :
               d \in {x \in Produced(e) :
                         "reason_codes" \notin log.facts[x] \/ x \notin Explained(log)}} :
           e \in {f \in Decisions(log) : f.outcome \in AdverseForRule}}

(* T5: no special-category resource is read for an application without a   *)
(* lawful basis.                                                           *)
T5(log) ==
    UNION {{Violation("T5", {e}, {r}) :
               r \in {x \in Related(e, "reads", "DataResource") :
                         /\ "special_category" \in log.facts[x]
                         /\ "lawful_basis" \notin log.facts[x]}} :
           e \in {f \in OfType(log, {"retrieve_data", "call_llm"}) :
                     Related(f, "concerns", "Application") # {}}}

(* STD.policy_version_current: object_absence of a policy with a non-empty *)
(* effective_to among those a decision is governed by.                     *)
PolicyVersionCurrent(log) ==
    UNION {{Violation("STD", {e}, {p}) :
               p \in {x \in Related(e, "governed_by", "PolicyVersion") :
                         "effective_to" \in log.facts[x]}} :
           e \in Decisions(log)}

-----------------------------------------------------------------------------
(* The object-scoped analogues of DECLARE (constraints/standard.py), which *)
(* no shipped rule uses.  An event relates to an object by any qualifier   *)
(* that is not a pure declaration.                                         *)
(* Mutant of EventsRelating: the object is not asked for, as in a          *)
(* flattened log.                                                          *)
EventsOfTypeAlone(log, type, object) == OfType(log, {type})

EventsRelating(log, type, object) ==
    {e \in OfType(log, {type}) : \E r \in e.rels : r.obj = object /\ r.qual # "declares"}

ObjectsOf(log, kind) == {o \in DOMAIN log.facts : o.kind = kind}

(* synchronised_response: what `first` does to an object, `next` follows.  *)
SynchronisedResponse(log, first, next, kind) ==
    UNION {{Violation("STD.response", {e}, {o}) :
               e \in {f \in EventsRelating(log, first, o) :
                         ~ \E g \in EventsRelating(log, next, o) : StrictlyBefore(f, g)}} :
           o \in ObjectsOf(log, kind)}

(* synchronised_precedence: what `next` does to an object, `first` precedes. *)
SynchronisedPrecedence(log, first, next, kind) ==
    UNION {{Violation("STD.precedence", {e}, {o}) :
               e \in {g \in EventsRelating(log, next, o) :
                         ~ \E f \in EventsRelating(log, first, o) : StrictlyBefore(f, g)}} :
           o \in ObjectsOf(log, kind)}

-----------------------------------------------------------------------------
(* evaluate: the rules do not see each other.                              *)
Evaluate(log) ==
    T1(log) \cup T2(log) \cup T3(log) \cup T4(log) \cup T5(log) \cup PolicyVersionCurrent(log)
=============================================================================
