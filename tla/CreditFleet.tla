----------------------------- MODULE CreditFleet -----------------------------
(***************************************************************************)
(* What the four agents of the credit-scoring fleet emit for one           *)
(* application: scenario/agents.py, with the scenario data of              *)
(* data/catalogue/scenario_credit.yaml and the decisions of                *)
(* scenario/policy.py.                                                     *)
(*                                                                         *)
(* CreditScript(a) is the event sequence of a session whose applicant is   *)
(* of class a.  Object attributes are reduced to the facts some rule or    *)
(* check reads, texts and amounts are left out.                            *)
(***************************************************************************)
EXTENDS Integers, Sequences, SequencesExt

CONSTANT RetrievalOrder     \* _RETRIEVAL_ORDER, as resource types

Demographics == "applicant_demographics"

ASSUME RetrievalAssumption ==
    /\ RetrievalOrder \in Seq(STRING)
    /\ Demographics \in {RetrievalOrder[i] : i \in DOMAIN RetrievalOrder}
    /\ \A i, j \in DOMAIN RetrievalOrder : RetrievalOrder[i] = RetrievalOrder[j] => i = j
    /\ \A i \in DOMAIN RetrievalOrder : RetrievalOrder[i] # "risk_scorecard"

-----------------------------------------------------------------------------
(* An applicant class: what the scorecard proposes, and whether the human  *)
(* approver grants it.                                                     *)
Outcomes   == {"grant", "refer", "deny"}
Applicants == [proposed : Outcomes, granted : BOOLEAN]

AdverseOutcomes == {"deny", "refer"}

(* final_outcome: a declined approval escalates to refer.                  *)
FinalOutcome(a) == IF a.granted THEN a.proposed ELSE "refer"

Adverse(a) == FinalOutcome(a) \in AdverseOutcomes

(* The objects of a session are told apart from those of another by their  *)
(* owner; the owner of roster and catalogue objects is 0, and so is the    *)
(* owner of every object in a script (its session is not yet known).       *)
Obj(kind, id)  == [kind |-> kind, id |-> id, owner |-> 0]
SessionKinds   == {"Session", "Application", "Applicant", "Approval", "CreditDecision"}
OwnedBy(o, s)  == IF o.kind \in SessionKinds THEN [o EXCEPT !.owner = s] ELSE o

Session     == Obj("Session", "")
Application == Obj("Application", "")
Applicant   == Obj("Applicant", "")
Approval    == Obj("Approval", "")
Decision    == Obj("CreditDecision", "")
Agent(role) == Obj("Agent", role)
Tool(name)  == Obj("Tool", name)
Resource(t) == Obj("DataResource", t)
Model       == Obj("Model", "scripted")
Prompt(role) == Obj("Prompt", role)
Approver    == Obj("HumanApprover", "roster")
CurrentPolicy    == Obj("PolicyVersion", "current")
SupersededPolicy == Obj("PolicyVersion", "superseded")

(* References: by qualifier only, with attributes, and with attributes if  *)
(* the object is not yet declared (_maybe_declare).                        *)
Ref(q, o)          == [obj |-> o, qual |-> q, mode |-> "ref", facts |-> {}]
Declare(q, o, fs)  == [obj |-> o, qual |-> q, mode |-> "declare", facts |-> fs]
MaybeDeclare(q, o, fs) == [obj |-> o, qual |-> q, mode |-> "maybe", facts |-> fs]

PerformedBy(role) == Ref("performed_by", Agent(role))
Within            == Ref("within", Session)
Concerns(o)       == Ref("concerns", o)

NoActor == Obj("", "")

Event(type, actor, refs) ==
    [type |-> type, actor |-> actor, refs |-> refs, o2o |-> {}, outcome |-> ""]

-----------------------------------------------------------------------------
SessionStartEvent ==
    [Event("session_start", NoActor,
           {Declare("within", Session, {}), Declare("concerns", Application, {}),
            Declare("concerns", Applicant, {}), Declare("governed_by", CurrentPolicy, {}),
            Declare("", SupersededPolicy, {"effective_to"})})
     EXCEPT !.o2o = {<<Application, Applicant>>}]

InvokeAgent(role) ==
    Event("invoke_agent", Agent(role),
          {MaybeDeclare("performed_by", Agent(role), {}), Within, Concerns(Application)})

CallLLM(role) ==
    Event("call_llm", Agent(role),
          {MaybeDeclare("uses", Model, {}), MaybeDeclare("uses", Prompt(role), {}),
           PerformedBy(role), Concerns(Application), Within})

CallTool(role, name) ==
    Event("call_tool", Agent(role),
          {MaybeDeclare("uses", Tool(name), {}), PerformedBy(role),
           Concerns(Application), Within})

ResourceFacts(t) ==
    IF t = Demographics THEN {"special_category", "lawful_basis"} ELSE {"lawful_basis"}

RetrieveData(role, t) ==
    Event("retrieve_data", Agent(role),
          {MaybeDeclare("reads", Resource(t), ResourceFacts(t)), Concerns(Application),
           PerformedBy(role), Within}
          \cup (IF t = Demographics THEN {Concerns(Applicant)} ELSE {}))

Reasoning(role) ==
    Event("emit_reasoning", Agent(role), {PerformedBy(role), Concerns(Application), Within})

FinalReasoning(role) ==
    [Reasoning(role) EXCEPT !.refs = @ \cup {Ref("explains", Decision)}]

Handoff(source, target) ==
    [Event("handoff", Agent(source),
           {Ref("from", Agent(source)), Ref("to", Agent(target)), Within, Concerns(Application)})
     EXCEPT !.o2o = {<<Agent(source), Agent(target)>>}]

(* Mutant of RequestApproval: the decision is declared where it is first   *)
(* cited.                                                                  *)
RequestApprovalOfNew(role) ==
    Event("request_approval", Agent(role),
          {Ref("requests", Approval), Declare("concerns", Approver, {"authorised"}),
           Declare("concerns", Decision, {}), Concerns(Application), PerformedBy(role), Within})

(* The decision is cited here before make_decision declares it.            *)
RequestApproval(role) ==
    Event("request_approval", Agent(role),
          {Ref("requests", Approval), Declare("concerns", Approver, {"authorised"}),
           Concerns(Decision), Concerns(Application), PerformedBy(role), Within})

(* A denial only concerns the decision: `approves` is for a grant.         *)
ApprovalVerdict(a) ==
    Event(IF a.granted THEN "grant_approval" ELSE "deny_approval", Approver,
          {Declare("produces", Approval, {}), Ref("performed_by", Approver),
           Ref(IF a.granted THEN "approves" ELSE "concerns", Decision),
           Concerns(Application), Within})

MakeDecision(role, a) ==
    [Event("make_decision", Agent(role),
           {Declare("produces", Decision, IF Adverse(a) THEN {"reason_codes"} ELSE {}),
            Concerns(Application), Concerns(Applicant), Ref("governed_by", CurrentPolicy),
            PerformedBy(role), Concerns(Approval), Within})
     EXCEPT !.o2o = {<<Decision, Application>>}, !.outcome = FinalOutcome(a)]

NotifyApplicant(role) ==
    Event("notify_applicant", Agent(role),
          {Concerns(Applicant), Concerns(Decision), Concerns(Application),
           PerformedBy(role), Within})

SessionEndEvent ==
    Event("session_end", NoActor, {Within, Concerns(Application), Concerns(Decision)})

-----------------------------------------------------------------------------
(* The nodes of the graph, in the order the Command(goto=...) edges chain  *)
(* them.                                                                   *)
IntakeNode ==
    <<InvokeAgent("intake"), CallLLM("intake"), Reasoning("intake"),
      Handoff("intake", "data_retrieval")>>

DataRetrievalNode ==
    <<InvokeAgent("data_retrieval")>>
    \o FlattenSeq([i \in DOMAIN RetrievalOrder |->
                     <<CallTool("data_retrieval", RetrievalOrder[i]),
                       RetrieveData("data_retrieval", RetrievalOrder[i])>>])
    \o <<Handoff("data_retrieval", "scoring")>>

ScoringNode ==
    <<InvokeAgent("scoring"), CallTool("scoring", "risk_scorecard"), CallLLM("scoring"),
      Reasoning("scoring"), Handoff("scoring", "adjudication")>>

AdjudicationNode(a) ==
    <<InvokeAgent("adjudication"), CallLLM("adjudication"), RequestApproval("adjudication"),
      ApprovalVerdict(a), MakeDecision("adjudication", a), FinalReasoning("adjudication"),
      NotifyApplicant("adjudication")>>

(* run_session                                                             *)
CreditScript(a) ==
    <<SessionStartEvent>> \o IntakeNode \o DataRetrievalNode \o ScoringNode
    \o AdjudicationNode(a) \o <<SessionEndEvent>>

(* EVENT_DURATION_SECONDS                                                  *)
CreditDuration ==
    [session_start |-> 1, invoke_agent |-> 1, handoff |-> 1, call_llm |-> 3, call_tool |-> 2,
     retrieve_data |-> 2, emit_reasoning |-> 1, request_approval |-> 5, grant_approval |-> 120,
     deny_approval |-> 120, make_decision |-> 2, notify_applicant |-> 1, session_end |-> 1]

=============================================================================
