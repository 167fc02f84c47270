--------------------------- MODULE DetectionProofs ---------------------------
(***************************************************************************)
(* Theorems about the labels Injector writes and what the rules of         *)
(* Templates find: on an injected split the six rules report exactly what  *)
(* is labelled (LabelsAreWhatIsFound), and the two synchronised templates, *)
(* which read control flow alone, exactly the labels that show in it       *)
(* (ControlFlowSeesItsShare).                                              *)
(*                                                                         *)
(* Both follow from TellOK, inductive beside the invariants of             *)
(* InjectorProofs: at every moment of the injection, the trace of a session *)
(* tells the faults done to it and no others.                              *)
(***************************************************************************)
EXTENDS InjectorProofs

(* A bound on the positions of a trace, faults and distractors included.   *)
Positions == 1 .. 2 * Retrievals + 20

(* The kinds of objects the rules look up.                                 *)
LinkKinds == {"Session", "Application", "Agent", "CreditDecision", "HumanApprover", "DataResource",
              "PolicyVersion"}

(* What an event says of the objects of a kind.                            *)
Links(e, kind) == {<<r.qual, r.obj>> : r \in {x \in e.refs : x.obj.kind = kind}}

(* The facts an event gives the decision it declares.                      *)
Codes(e) == UNION {r.facts : r \in {x \in e.refs : x.declares /\ x.obj.kind = "CreditDecision"}}

(* The same event up to its links to objects of some kinds.                *)
Alike(e, b, kinds) ==
    /\ e.type = b.type /\ e.time = b.time /\ e.outcome = b.outcome
    /\ \A kind \in LinkKinds \ kinds : Links(e, kind) = Links(b, kind)

HandoffAt == {5, 2 * Retrievals + 7, 2 * Retrievals + 12}

(* The positions a fault class may delete, and the links it may change;    *)
(* 9 stands for distractor D1.                                             *)
GoneOf(c) ==
    CASE c = 1 -> {2 * Retrievals + 15, 2 * Retrievals + 16}
      [] c = 4 -> {2 * i + 5 : i \in 1 .. Retrievals}
                  \cup {2 * i + 6 : i \in {j \in 1 .. Retrievals : RetrievalOrder[j] # Demographics}}
      [] c = 7 -> HandoffAt
      [] OTHER -> {}

SpotsOf(c) ==
    CASE c = 2 -> {<<2 * Retrievals + 16, "CreditDecision">>}
      [] c \in {3, 9} -> {<<2 * Retrievals + 15, "HumanApprover">>, <<2 * Retrievals + 16, "HumanApprover">>}
      [] c = 5 -> {<<2 * i + 6, "DataResource">> : i \in {j \in 1 .. Retrievals : RetrievalOrder[j] = Demographics}}
      [] c = 6 -> {<<2 * Retrievals + 18, "CreditDecision">>}
      [] c = 7 -> {<<h, "Agent">> : h \in HandoffAt}
      [] c = 8 -> {<<2 * Retrievals + 17, "PolicyVersion">>}
      [] OTHER -> {}

SoftAt(p, done) == {kind \in LinkKinds : \E c \in done : <<p, kind>> \in SpotsOf(c)}

Lacks(tr, s, p) == \A k \in DOMAIN tr : tr[k].id # <<s, p>>
Shows(tr, s, p, kind, links) == \A k \in DOMAIN tr : tr[k].id = <<s, p>> => Links(tr[k], kind) = links

(* All but what the faults done may have changed is as the fleet wrote it. *)
Keeps(tr, base, s, done) ==
    /\ \A k \in DOMAIN tr : \A p \in Positions :
          tr[k].id = <<s, p>> => /\ Alike(tr[k], base[p], SoftAt(p, done))
                                 /\ 6 \notin done => Codes(tr[k]) = Codes(base[p])
    /\ \A p \in Positions : (\A c \in done : p \notin GoneOf(c)) => ~ Lacks(tr, s, p)

SenderAt(h)   == Agent(IF h = 5 THEN "intake" ELSE IF h = 2 * Retrievals + 7 THEN "data_retrieval" ELSE "scoring")
ReceiverAt(h) == Agent(IF h = 5 THEN "data_retrieval" ELSE IF h = 2 * Retrievals + 7 THEN "scoring" ELSE "adjudication")

Cites(l, constraint, events, objects) ==
    l.constraint = constraint /\ l.events = events /\ l.objects = objects

Decided(s) == <<s, 2 * Retrievals + 17>>
Granted(s) == <<s, 2 * Retrievals + 16>>

HandoffLinks(h, to) == {<<"from", SenderAt(h)>>, <<"to", to>>}

(* What each fault class leaves in the trace of session s, and what its    *)
(* label cites.                                                            *)
MarkOfV1(l, tr, s) ==
    Lacks(tr, s, 2 * Retrievals + 16) /\ Cites(l, "T1", {Decided(s)}, {DecisionOf(s)})

MarkOfV2(l, tr, s, donors) ==
    \E donor \in donors :
        /\ Shows(tr, s, 2 * Retrievals + 16, "CreditDecision", {<<"approves", donor>>})
        /\ Cites(l, "T1", {Granted(s), Decided(s)}, {DecisionOf(s), donor})

MarkOfV3(l, tr, s) ==
    /\ Shows(tr, s, 2 * Retrievals + 16, "HumanApprover", {<<"performed_by", Rogue(s)>>})
    /\ Cites(l, "T1", {Granted(s)}, {Rogue(s)})

MarkOfV4(l, tr, s) ==
    /\ \E i \in 1 .. Retrievals : RetrievalOrder[i] # Demographics /\ Lacks(tr, s, 2 * i + 6)
    /\ Cites(l, "T2", {Decided(s)}, {})

MarkOfV5(l, tr, s) ==
    \E i \in 1 .. Retrievals :
        /\ RetrievalOrder[i] = Demographics
        /\ Shows(tr, s, 2 * i + 6, "DataResource", {<<"reads", Local(s)>>})
        /\ Cites(l, "T5", {<<s, 2 * i + 6>>}, {Local(s)})

Uncoded(tr, s) == \A k \in DOMAIN tr : tr[k].id = Decided(s) => "reason_codes" \notin Codes(tr[k])

MarkOfV6(l, tr, s) ==
    /\ \/ Shows(tr, s, 2 * Retrievals + 18, "CreditDecision", {})
       \/ /\ Uncoded(tr, s)
          /\ Shows(tr, s, 2 * Retrievals + 18, "CreditDecision", {<<"explains", DecisionOf(s)>>})
    /\ Cites(l, "T4", {Decided(s)}, {DecisionOf(s)})

HandoffStands(tr, s, h) ==
    ~ Lacks(tr, s, h) /\ Shows(tr, s, h, "Agent", HandoffLinks(h, ReceiverAt(h)))

Misled(tr, s, h) ==
    /\ ~ Lacks(tr, s, h)
    /\ \A k \in DOMAIN tr : tr[k].id = <<s, h>> => <<"to", ReceiverAt(h)>> \notin Links(tr[k], "Agent")

MarkOfV7(l, tr, s) ==
    \E h \in HandoffAt :
        /\ \A o \in HandoffAt \ {h} : HandoffStands(tr, s, o)
        /\ \/ Lacks(tr, s, h) /\ Cites(l, "T3", {<<s, h + 1>>}, {ReceiverAt(h)})
           \/ Misled(tr, s, h) /\ Cites(l, "T3", {<<s, h>>, <<s, h + 1>>}, {ReceiverAt(h)})

MarkOfV8(l, tr, s) ==
    /\ Shows(tr, s, 2 * Retrievals + 17, "PolicyVersion", {<<"governed_by", SupersededPolicy>>})
    /\ Cites(l, "STD", {Decided(s)}, {SupersededPolicy})

Marked(c, l, tr, s, donors) ==
    /\ c = 1 => MarkOfV1(l, tr, s)
    /\ c = 2 => MarkOfV2(l, tr, s, donors)
    /\ c = 3 => MarkOfV3(l, tr, s)
    /\ c = 4 => MarkOfV4(l, tr, s)
    /\ c = 5 => MarkOfV5(l, tr, s)
    /\ c = 6 => MarkOfV6(l, tr, s)
    /\ c = 7 => MarkOfV7(l, tr, s)
    /\ c = 8 => MarkOfV8(l, tr, s)

MarkedBy(ls, c, tr, s, donors) ==
    IF c = 9
    THEN Shows(tr, s, 2 * Retrievals + 16, "HumanApprover", {<<"performed_by", BoundaryApprover>>})
    ELSE \E l \in ls : l.session = s /\ l.class = c /\ Marked(c, l, tr, s, donors)

(* The trace of a session tells the faults done to it and nothing else.    *)
Tells(tr, base, s, done, ls, donors) ==
    Keeps(tr, base, s, done) /\ \A c \in done : MarkedBy(ls, c, tr, s, donors)

(* The faults done to a session so far.                                    *)
WrittenAlready(s) == phase = "done" \/ (phase = "inject" /\ s < at)

DoneTo(s) == IF WrittenAlready(s) THEN plan[s] ELSE IF phase = "inject" /\ s = at THEN applied ELSE {}
MarksOn(s) == DoneTo(s) \cup (IF WrittenAlready(s) /\ s \in d1 THEN {9} ELSE {})

LabelsFit(ls) ==
    /\ IsFiniteSet(ls)
    /\ \A l, m \in ls : l.session = m.session /\ l.class = m.class => l = m

TellOK ==
    /\ instance.split # "mixed" /\ phase \in {"allocate", "validate"} => at = 1
    /\ phase = "validate" => at = 1
    /\ LabelsFit(labels)
    /\ \A l \in labels : l.session \in Sessions /\ l.class \in DoneTo(l.session)
    /\ \A s \in Sessions : Tells(rows[s], Base(s), s, MarksOn(s), labels, DonorsFor(s))

(* What a step says of an object.                                          *)
Names(e, qual, o) == \E q \in e.refs : q.qual = qual /\ q.obj = o

(* What the steps of the script say of the objects the rules look up, ...  *)
LEMMA StepsName ==
    ASSUME NEW role, NEW x, NEW a
    PROVE  /\ Names(SessionStartEvent, "within", Session) /\ Names(SessionEndEvent, "within", Session)
           /\ \A e \in {InvokeAgent(role), CallLLM(role), CallTool(role, x), RetrieveData(role, x),
                        Reasoning(role), FinalReasoning(role), RequestApproval(role),
                        MakeDecision(role, a), NotifyApplicant(role)} :
                  Names(e, "within", Session) /\ Names(e, "performed_by", Agent(role))
           /\ Names(ApprovalVerdict(a), "within", Session)
           /\ Names(Handoff(role, x), "within", Session)
           /\ Names(RetrieveData(role, x), "concerns", Application)
           /\ Names(RetrieveData(role, x), "reads", Resource(x))
           /\ Names(FinalReasoning(role), "explains", Decision)
           /\ Names(ApprovalVerdict(a), "performed_by", Approver)
           /\ a.granted => Names(ApprovalVerdict(a), "approves", Decision)
           /\ Names(MakeDecision(role, a), "produces", Decision)
           /\ Names(MakeDecision(role, a), "concerns", Application)
           /\ Names(MakeDecision(role, a), "governed_by", CurrentPolicy)
<1>1. /\ Within.qual = "within" /\ Within.obj = Session
      /\ PerformedBy(role).qual = "performed_by" /\ PerformedBy(role).obj = Agent(role)
      /\ Concerns(Application).qual = "concerns" /\ Concerns(Application).obj = Application
  BY DEF Within, PerformedBy, Concerns, Ref
<1>2. /\ Names(SessionStartEvent, "within", Session) /\ Names(SessionEndEvent, "within", Session)
      /\ Names(Handoff(role, x), "within", Session) /\ Names(ApprovalVerdict(a), "within", Session)
  <2>1. Declare("within", Session, {}) \in SessionStartEvent.refs
    BY DEF SessionStartEvent, Event
  <2>2. Declare("within", Session, {}).qual = "within" /\ Declare("within", Session, {}).obj = Session
    BY DEF Declare
  <2>3. Within \in SessionEndEvent.refs /\ Within \in Handoff(role, x).refs /\ Within \in ApprovalVerdict(a).refs
    BY DEF SessionEndEvent, Handoff, ApprovalVerdict, Event
  <2> QED
    BY <1>1, <2>1, <2>2, <2>3 DEF Names
<1>3. /\ Names(InvokeAgent(role), "within", Session) /\ Names(InvokeAgent(role), "performed_by", Agent(role))
  <2> DEFINE q == MaybeDeclare("performed_by", Agent(role), {})
  <2>1. q \in InvokeAgent(role).refs /\ Within \in InvokeAgent(role).refs
    BY DEF InvokeAgent, Event
  <2>2. q.qual = "performed_by" /\ q.obj = Agent(role)
    BY DEF MaybeDeclare
  <2> QED
    BY <1>1, <2>1, <2>2 DEF Names
<1>4. \A e \in {CallLLM(role), CallTool(role, x), RetrieveData(role, x), Reasoning(role),
                FinalReasoning(role), RequestApproval(role), MakeDecision(role, a), NotifyApplicant(role)} :
          Within \in e.refs /\ PerformedBy(role) \in e.refs
  <2>1. /\ {Within, PerformedBy(role)} \subseteq CallLLM(role).refs
        /\ {Within, PerformedBy(role)} \subseteq CallTool(role, x).refs
        /\ {Within, PerformedBy(role)} \subseteq RetrieveData(role, x).refs
        /\ {Within, PerformedBy(role)} \subseteq Reasoning(role).refs
    BY DEF CallLLM, CallTool, RetrieveData, Reasoning, Event
  <2>2. FinalReasoning(role).refs = Reasoning(role).refs \cup {Ref("explains", Decision)}
    BY DEF FinalReasoning, Reasoning, Event
  <2>3. /\ {Within, PerformedBy(role)} \subseteq RequestApproval(role).refs
        /\ {Within, PerformedBy(role)} \subseteq MakeDecision(role, a).refs
        /\ {Within, PerformedBy(role)} \subseteq NotifyApplicant(role).refs
    BY DEF RequestApproval, MakeDecision, NotifyApplicant, Event
  <2> QED
    BY <2>1, <2>2, <2>3
<1>5. /\ Names(RetrieveData(role, x), "concerns", Application)
      /\ Names(RetrieveData(role, x), "reads", Resource(x))
  <2>1. Concerns(Application) \in RetrieveData(role, x).refs
    BY DEF RetrieveData, Event
  <2> QED
    BY <1>1, <2>1, RetrieveDataRefs DEF Names
<1>6. Names(FinalReasoning(role), "explains", Decision)
  BY FinalReasoningRefs DEF Names
<1>7. /\ Names(ApprovalVerdict(a), "performed_by", Approver)
      /\ a.granted => Names(ApprovalVerdict(a), "approves", Decision)
  <2> DEFINE p == Ref("performed_by", Approver)
             q == Ref(IF a.granted THEN "approves" ELSE "concerns", Decision)
  <2>1. p \in ApprovalVerdict(a).refs /\ q \in ApprovalVerdict(a).refs
    BY DEF ApprovalVerdict, Event
  <2>2. /\ p.qual = "performed_by" /\ p.obj = Approver
        /\ q.qual = (IF a.granted THEN "approves" ELSE "concerns") /\ q.obj = Decision
    BY DEF Ref
  <2> HIDE DEF p, q
  <2> QED
    BY <2>1, <2>2 DEF Names
<1>8. /\ Names(MakeDecision(role, a), "produces", Decision)
      /\ Names(MakeDecision(role, a), "concerns", Application)
      /\ Names(MakeDecision(role, a), "governed_by", CurrentPolicy)
  <2> DEFINE p == Declare("produces", Decision, IF Adverse(a) THEN {"reason_codes"} ELSE {})
             q == Ref("governed_by", CurrentPolicy)
  <2>1. p \in MakeDecision(role, a).refs /\ q \in MakeDecision(role, a).refs
        /\ Concerns(Application) \in MakeDecision(role, a).refs
    BY DEF MakeDecision, Event
  <2>2. p.qual = "produces" /\ p.obj = Decision /\ q.qual = "governed_by" /\ q.obj = CurrentPolicy
    BY DEF Ref, Declare
  <2> HIDE DEF p, q
  <2> QED
    BY <1>1, <2>1, <2>2 DEF Names
<1> QED
  BY <1>1, <1>2, <1>3, <1>4, <1>5, <1>6, <1>7, <1>8 DEF Names

(* ... and what they do not.                                               *)
LEMMA StepsOmit ==
    ASSUME NEW role, NEW other, NEW a
    PROVE  /\ \A q \in SessionStartEvent.refs : q.obj.kind # "Agent"
           /\ \A q \in SessionStartEvent.refs : q.obj.kind = "Session" => q.qual = "within" /\ q.obj = Session
           /\ \A q \in SessionEndEvent.refs : q.obj.kind # "Agent"
           /\ \A q \in ApprovalVerdict(a).refs : q.obj.kind # "Agent"
           /\ \A q \in Reasoning(role).refs : q.obj.kind # "CreditDecision"
           /\ \A q \in Handoff(role, other).refs :
                  /\ q.obj.kind = "Agent" => \/ q.qual = "from" /\ q.obj = Agent(role)
                                             \/ q.qual = "to" /\ q.obj = Agent(other)
                  /\ q.obj.kind = "Session" => q.qual = "within" /\ q.obj = Session
           /\ Names(Handoff(role, other), "from", Agent(role)) /\ Names(Handoff(role, other), "to", Agent(other))
<1>1. \A q \in SessionStartEvent.refs :
          /\ q.obj.kind # "Agent"
          /\ q.obj.kind = "Session" => q.qual = "within" /\ q.obj = Session
  <2> DEFINE q1 == Declare("within", Session, {})
             q2 == Declare("concerns", Application, {})
             q3 == Declare("concerns", Applicant, {})
             q4 == Declare("governed_by", CurrentPolicy, {})
             q5 == Declare("", SupersededPolicy, {"effective_to"})
  <2>1. SessionStartEvent.refs = {q1, q2, q3, q4, q5}
    BY DEF SessionStartEvent, Event
  <2>2. /\ q1.obj = Session /\ q1.qual = "within" /\ q1.obj.kind = "Session"
        /\ q2.obj.kind = "Application" /\ q3.obj.kind = "Applicant"
        /\ q4.obj.kind = "PolicyVersion" /\ q5.obj.kind = "PolicyVersion"
    BY DEF Declare, Session, Application, Applicant, CurrentPolicy, SupersededPolicy, Obj
  <2> HIDE DEF q1, q2, q3, q4, q5
  <2> QED
    BY <2>1, <2>2
<1>2. \A q \in SessionEndEvent.refs : q.obj.kind # "Agent"
  <2>1. SessionEndEvent.refs = {Within, Concerns(Application), Concerns(Decision)}
    BY DEF SessionEndEvent, Event
  <2> QED
    BY <2>1, RefKinds
<1>3. \A q \in ApprovalVerdict(a).refs : q.obj.kind # "Agent"
  <2> DEFINE q1 == Declare("produces", Approval, {})
             q2 == Ref("performed_by", Approver)
             q3 == Ref(IF a.granted THEN "approves" ELSE "concerns", Decision)
  <2>1. ApprovalVerdict(a).refs = {q1, q2, q3, Concerns(Application), Within}
    BY DEF ApprovalVerdict, Event
  <2>2. q1.obj.kind = "Approval" /\ q2.obj.kind = "HumanApprover" /\ q3.obj.kind = "CreditDecision"
    BY DEF Declare, Ref, Approval, Approver, Decision, Obj
  <2> HIDE DEF q1, q2, q3
  <2> QED
    BY <2>1, <2>2, RefKinds
<1>4. \A q \in Reasoning(role).refs : q.obj.kind # "CreditDecision"
  <2>1. Reasoning(role).refs = {PerformedBy(role), Concerns(Application), Within}
    BY DEF Reasoning, Event
  <2> QED
    BY <2>1, RefKinds
<1> DEFINE p == Ref("from", Agent(role))
           r == Ref("to", Agent(other))
<1>5. Handoff(role, other).refs = {p, r, Within, Concerns(Application)}
  BY DEF Handoff, Event
<1>6. /\ p.qual = "from" /\ p.obj = Agent(role) /\ r.qual = "to" /\ r.obj = Agent(other)
      /\ Within.qual = "within" /\ Within.obj = Session /\ Session.kind # "Agent"
      /\ Concerns(Application).obj.kind # "Agent" /\ Concerns(Application).obj.kind # "Session"
      /\ p.obj.kind # "Session" /\ r.obj.kind # "Session"
  BY RefKinds DEF Ref, Within, Concerns, Agent, Obj
<1> HIDE DEF p, r
<1> QED
  BY <1>1, <1>2, <1>3, <1>4, <1>5, <1>6 DEF Names

SessionObj(s) == OwnedBy(Session, s)
AppObj(s)     == OwnedBy(Application, s)

(* Who performs the event at a position; nobody does at the silent ones.   *)
SilentAt == HandoffAt \cup {1, 2 * Retrievals + 16, 2 * Retrievals + 20}

PerformerAt(k) ==
    Agent(IF k \in 2 .. 4 THEN "intake" ELSE IF k \in 6 .. 2 * Retrievals + 6 THEN "data_retrieval"
          ELSE IF k \in 2 * Retrievals + 8 .. 2 * Retrievals + 11 THEN "scoring" ELSE "adjudication")

(* A kind is named once in an event, but in handoffs and session_start.    *)
LEMMA NamedAlone ==
    ASSUME NEW e, RefsFit(e), e.type \notin {"session_start", "handoff"}, NEW r \in e.refs,
           NEW kind, r.obj.kind = kind
    PROVE  Links(e, kind) = {<<r.qual, r.obj>>}
<1>1. {x \in e.refs : x.obj.kind = kind} = {r}
  BY DEF RefsFit
<1> QED
  BY <1>1 DEF Links

(* A link of an event is a reference it carries to an object of the kind.  *)
LEMMA LinksIs ==
    ASSUME NEW e, NEW kind, NEW q, NEW o
    PROVE  <<q, o>> \in Links(e, kind) <=> \E r \in e.refs : r.qual = q /\ r.obj = o /\ r.obj.kind = kind
<1>1. ASSUME <<q, o>> \in Links(e, kind)
      PROVE  \E r \in e.refs : r.qual = q /\ r.obj = o /\ r.obj.kind = kind
  <2>1. PICK r \in e.refs : r.obj.kind = kind /\ <<q, o>> = <<r.qual, r.obj>>
    BY <1>1 DEF Links
  <2> QED
    BY <2>1
<1>2. ASSUME NEW r \in e.refs, r.qual = q, r.obj = o, r.obj.kind = kind
      PROVE  <<q, o>> \in Links(e, kind)
  BY <1>2 DEF Links
<1> QED
  BY <1>1, <1>2

(* A link is a pair of a qualifier and an object.                          *)
LEMMA ArePairs ==
    ASSUME NEW e, NEW kind, NEW x \in Links(e, kind)
    PROVE  x = <<x[1], x[2]>>
  BY DEF Links

(* A base event says of an object what its step says, of the session's own *)
(* object.                                                                 *)
LEMMA BaseNames ==
    ASSUME NEW s, NEW a \in Applicants, NEW t, t = BaseTrace(s, a), NEW k \in Positions
    PROVE  /\ RefsFit(t[k]) /\ t[k].type = CreditScript(a)[k].type
           /\ \A r \in t[k].refs : \E q \in CreditScript(a)[k].refs :
                  r.obj = OwnedBy(q.obj, s) /\ r.qual = q.qual /\ r.obj.kind = q.obj.kind
           /\ \A q \in CreditScript(a)[k].refs : \E r \in t[k].refs :
                  r.obj = OwnedBy(q.obj, s) /\ r.qual = q.qual /\ r.obj.kind = q.obj.kind
<1>1. /\ k \in DOMAIN t /\ t[k].type = CreditScript(a)[k].type /\ RefsOf(t[k], CreditScript(a)[k], s)
  BY BaseIsScript DEF Positions
<1>2. RefsFit(t[k])
  BY <1>1, BaseRefsFit
<1>3. IsScript(CreditScript(a), a) /\ k \in DOMAIN CreditScript(a)
  BY ScriptIs DEF IsScript, Positions
<1>4. \A q \in CreditScript(a)[k].refs : q.obj = Obj(q.obj.kind, q.obj.id)
  BY <1>3, PositionsFit DEF PositionFits, StepFits, RoughRef
<1>5. \A q \in CreditScript(a)[k].refs : OwnedBy(q.obj, s).kind = q.obj.kind
  BY <1>4, OwnersKeep
<1> QED
  BY <1>1, <1>2, <1>5 DEF RefsOf

(* A kind referenced once by a script step gives that one link.            *)
LEMMA BaseLinked ==
    ASSUME NEW s, NEW a \in Applicants, NEW t, t = BaseTrace(s, a), NEW k \in Positions,
           CreditScript(a)[k].type \notin {"session_start", "handoff"}, NEW qual, NEW o,
           Names(CreditScript(a)[k], qual, o)
    PROVE  Links(t[k], o.kind) = {<<qual, OwnedBy(o, s)>>}
<1>1. /\ RefsFit(t[k]) /\ t[k].type = CreditScript(a)[k].type
  BY BaseNames
<1>2. PICK q \in CreditScript(a)[k].refs : q.qual = qual /\ q.obj = o
  BY DEF Names
<1>3. PICK r \in t[k].refs : r.qual = qual /\ r.obj = OwnedBy(o, s) /\ r.obj.kind = o.kind
  BY <1>2, BaseNames
<1> QED
  BY <1>1, <1>3, NamedAlone

(* A kind the script step does not mention gives no link.                  *)
LEMMA BaseUnlinked ==
    ASSUME NEW s, NEW a \in Applicants, NEW t, t = BaseTrace(s, a), NEW k \in Positions,
           NEW kind, \A q \in CreditScript(a)[k].refs : q.obj.kind # kind
    PROVE  Links(t[k], kind) = {}
<1>1. \A r \in t[k].refs : r.obj.kind # kind
  BY BaseNames
<1> QED
  BY <1>1 DEF Links

(* The step at every position, by who performs it.                         *)
LEMMA StepPerformers ==
    ASSUME NEW a \in Applicants, NEW c, IsScript(c, a), NEW k \in Positions \ SilentAt
    PROVE  /\ c[k].type \notin {"session_start", "handoff"}
           /\ Names(c[k], "within", Session) /\ Names(c[k], "performed_by", PerformerAt(k))
<1> DEFINE n == Retrievals
<1>1. n \in Nat \ {0} /\ \A i \in 1 .. n : i \in Nat
  BY RetrievalFacts
<1>2. CASE k \in 1 .. 6
  <2>1. k = 2 \/ k = 3 \/ k = 4 \/ k = 6
    BY <1>1, <1>2 DEF SilentAt, HandoffAt
  <2>2. PerformerAt(k) = IF k = 6 THEN Agent("data_retrieval") ELSE Agent("intake")
    BY <1>1, <2>1 DEF PerformerAt
  <2>3. /\ c[2] = InvokeAgent("intake") /\ c[3] = CallLLM("intake") /\ c[4] = Reasoning("intake")
        /\ c[6] = InvokeAgent("data_retrieval")
    BY DEF IsScript
  <2> QED
    BY <2>1, <2>2, <2>3, StepsName, EventTypes
<1>3. CASE \E i \in 1 .. n : k = 2 * i + 5 \/ k = 2 * i + 6
  <2>1. PICK i \in 1 .. n : k = 2 * i + 5 \/ k = 2 * i + 6
    BY <1>3
  <2>2. PerformerAt(k) = Agent("data_retrieval")
    BY <1>1, <2>1 DEF PerformerAt
  <2>3. /\ c[2 * i + 5] = CallTool("data_retrieval", RetrievalOrder[i])
        /\ c[2 * i + 6] = RetrieveData("data_retrieval", RetrievalOrder[i])
    BY DEF IsScript
  <2> QED
    BY <2>1, <2>2, <2>3, StepsName, EventTypes
<1>4. CASE \E j \in 7 .. 20 : k = 2 * n + j
  <2>1. PICK j \in 7 .. 20 : k = 2 * n + j
    BY <1>4
  <2>2. j # 7 /\ j # 12 /\ j # 16 /\ j # 20
    BY <2>1 DEF SilentAt, HandoffAt
  <2>3. PerformerAt(k) = IF j <= 11 THEN Agent("scoring") ELSE Agent("adjudication")
    BY <1>1, <2>1, <2>2 DEF PerformerAt
  <2>4. /\ c[2 * n + 8] = InvokeAgent("scoring") /\ c[2 * n + 9] = CallTool("scoring", "risk_scorecard")
        /\ c[2 * n + 10] = CallLLM("scoring") /\ c[2 * n + 11] = Reasoning("scoring")
        /\ c[2 * n + 13] = InvokeAgent("adjudication") /\ c[2 * n + 14] = CallLLM("adjudication")
        /\ c[2 * n + 15] = RequestApproval("adjudication")
        /\ c[2 * n + 17] = MakeDecision("adjudication", a)
        /\ c[2 * n + 18] = FinalReasoning("adjudication")
        /\ c[2 * n + 19] = NotifyApplicant("adjudication")
    BY DEF IsScript
  <2>5. \/ j = 8 \/ j = 9 \/ j = 10 \/ j = 11 \/ j = 13 \/ j = 14 \/ j = 15 \/ j = 17 \/ j = 18 \/ j = 19
    BY <2>1, <2>2
  <2>6. CASE j <= 11
    BY <2>1, <2>3, <2>4, <2>5, <2>6, StepsName, EventTypes
  <2>7. CASE j > 11
    BY <2>1, <2>3, <2>4, <2>5, <2>7, StepsName, EventTypes
  <2> QED
    BY <2>1, <2>6, <2>7
<1> QED
  BY <1>2, <1>3, <1>4, ScriptPositions DEF Positions

(* What the telemetry of a session says before any fault.                  *)
BaseLinksAre(t, s, a) ==
    LET n == Retrievals
    IN  /\ \A k \in Positions : Links(t[k], "Session") = {<<"within", SessionObj(s)>>}
        /\ \A k \in Positions \ SilentAt : Links(t[k], "Agent") = {<<"performed_by", PerformerAt(k)>>}
        /\ \A k \in {1, 2 * n + 16, 2 * n + 20} : Links(t[k], "Agent") = {}
        /\ \A h \in HandoffAt : Links(t[h], "Agent") = HandoffLinks(h, ReceiverAt(h))
        /\ \A i \in 1 .. n :
              /\ Links(t[2 * i + 6], "Application") = {<<"concerns", AppObj(s)>>}
              /\ Links(t[2 * i + 6], "DataResource") = {<<"reads", Resource(RetrievalOrder[i])>>}
        /\ Links(t[4], "CreditDecision") = {} /\ Links(t[2 * n + 11], "CreditDecision") = {}
        /\ a.granted => Links(t[2 * n + 16], "CreditDecision") = {<<"approves", DecisionOf(s)>>}
        /\ Links(t[2 * n + 16], "HumanApprover") = {<<"performed_by", Approver>>}
        /\ Links(t[2 * n + 17], "CreditDecision") = {<<"produces", DecisionOf(s)>>}
        /\ Links(t[2 * n + 17], "Application") = {<<"concerns", AppObj(s)>>}
        /\ Links(t[2 * n + 17], "PolicyVersion") = {<<"governed_by", CurrentPolicy>>}
        /\ Links(t[2 * n + 18], "CreditDecision") = {<<"explains", DecisionOf(s)>>}

(* The kinds of the objects of a session; the approver is nobody's own.    *)
LEMMA OwnersAre ==
    ASSUME NEW s
    PROVE  /\ Session.kind = "Session" /\ Application.kind = "Application" /\ Decision.kind = "CreditDecision"
           /\ Approver.kind = "HumanApprover" /\ OwnedBy(Approver, s) = Approver
  BY DEF Session, Application, Decision, Approver, Obj, OwnedBy, SessionKinds

(* What every event of a session says of its objects as the fleet wrote    *)
(* it, whatever the applicant.                                             *)
LEMMA BaseLinks ==
    ASSUME NEW s, NEW a \in Applicants, NEW t, t = BaseTrace(s, a)
    PROVE  BaseLinksAre(t, s, a)
<1> DEFINE n == Retrievals
<1>1. /\ n \in Nat \ {0} /\ \A i \in 1 .. n : i \in Nat /\ 2 * i + 6 \in Positions
      /\ \A j \in 1 .. 20 : 2 * n + j \in Positions /\ j \in Positions
  BY RetrievalFacts DEF Positions
<1>2. IsScript(CreditScript(a), a)
  BY ScriptIs
<1>3. /\ \A k \in {2, 3, 4, 6} : k \in Positions \ SilentAt
      /\ \A i \in 1 .. n : 2 * i + 6 \in Positions \ SilentAt
      /\ \A j \in {8, 9, 10, 11, 13, 14, 15, 17, 18, 19} : 2 * n + j \in Positions \ SilentAt
  BY <1>1 DEF SilentAt, HandoffAt
<1>4. ASSUME NEW k \in Positions \ SilentAt, NEW qual, NEW o, Names(CreditScript(a)[k], qual, o)
      PROVE  Links(t[k], o.kind) = {<<qual, OwnedBy(o, s)>>}
  <2>1. CreditScript(a)[k].type \notin {"session_start", "handoff"} /\ k \in Positions
    BY <1>2, StepPerformers
  <2> QED
    BY <1>2, <1>4, <2>1, BaseLinked DEF Names
<1>5. \A k \in Positions \ SilentAt : /\ Links(t[k], "Agent") = {<<"performed_by", PerformerAt(k)>>}
                                      /\ Links(t[k], "Session") = {<<"within", SessionObj(s)>>}
  <2> TAKE k \in Positions \ SilentAt
  <2>1. Names(CreditScript(a)[k], "within", Session) /\ Names(CreditScript(a)[k], "performed_by", PerformerAt(k))
    BY <1>2, StepPerformers
  <2>2. PerformerAt(k).kind = "Agent" /\ OwnedBy(PerformerAt(k), s) = PerformerAt(k) /\ Session.kind = "Session"
    <3>1. \E role : PerformerAt(k) = Agent(role)
      BY DEF PerformerAt
    <3> QED
      BY <3>1, Owned, OwnersAre
  <2>3. /\ Links(t[k], Session.kind) = {<<"within", OwnedBy(Session, s)>>}
        /\ Links(t[k], PerformerAt(k).kind) = {<<"performed_by", OwnedBy(PerformerAt(k), s)>>}
    BY <1>4, <2>1
  <2> QED
    BY <2>2, <2>3 DEF SessionObj
<1>6. ASSUME NEW i \in 1 .. n
      PROVE  /\ Links(t[2 * i + 6], "Application") = {<<"concerns", AppObj(s)>>}
             /\ Links(t[2 * i + 6], "DataResource") = {<<"reads", Resource(RetrievalOrder[i])>>}
  <2>1. CreditScript(a)[2 * i + 6] = RetrieveData("data_retrieval", RetrievalOrder[i])
    BY <1>2 DEF IsScript
  <2>2. /\ Names(CreditScript(a)[2 * i + 6], "concerns", Application)
        /\ Names(CreditScript(a)[2 * i + 6], "reads", Resource(RetrievalOrder[i]))
    BY <2>1, StepsName
  <2>3. /\ Links(t[2 * i + 6], Application.kind) = {<<"concerns", OwnedBy(Application, s)>>}
        /\ Links(t[2 * i + 6], Resource(RetrievalOrder[i]).kind) =
               {<<"reads", OwnedBy(Resource(RetrievalOrder[i]), s)>>}
    BY <1>3, <1>4, <2>2
  <2> QED
    BY <2>3, Owned, OwnersAre DEF AppObj
<1>7. /\ Links(t[2 * n + 17], "CreditDecision") = {<<"produces", DecisionOf(s)>>}
      /\ Links(t[2 * n + 17], "Application") = {<<"concerns", AppObj(s)>>}
      /\ Links(t[2 * n + 17], "PolicyVersion") = {<<"governed_by", CurrentPolicy>>}
  <2> DEFINE k == 2 * n + 17
  <2>1. CreditScript(a)[k] = MakeDecision("adjudication", a)
    BY <1>2 DEF IsScript
  <2>2. /\ Names(CreditScript(a)[k], "produces", Decision) /\ Names(CreditScript(a)[k], "concerns", Application)
        /\ Names(CreditScript(a)[k], "governed_by", CurrentPolicy)
    BY <2>1, StepsName
  <2>3. k \in Positions \ SilentAt
    BY <1>3
  <2> HIDE DEF k
  <2>4. /\ Links(t[k], Decision.kind) = {<<"produces", OwnedBy(Decision, s)>>}
        /\ Links(t[k], Application.kind) = {<<"concerns", OwnedBy(Application, s)>>}
        /\ Links(t[k], CurrentPolicy.kind) = {<<"governed_by", OwnedBy(CurrentPolicy, s)>>}
    BY <1>4, <2>2, <2>3
  <2>5. k = 2 * n + 17
    BY DEF k
  <2> QED
    BY <2>4, <2>5, Owned, OwnersAre DEF AppObj, DecisionOf
<1>8. Links(t[2 * n + 18], "CreditDecision") = {<<"explains", DecisionOf(s)>>}
  <2> DEFINE k == 2 * n + 18
  <2>1. CreditScript(a)[k] = FinalReasoning("adjudication")
    BY <1>2 DEF IsScript
  <2>2. Names(CreditScript(a)[k], "explains", Decision)
    BY <2>1, StepsName
  <2>3. k \in Positions \ SilentAt
    BY <1>3
  <2> HIDE DEF k
  <2>4. Links(t[k], Decision.kind) = {<<"explains", OwnedBy(Decision, s)>>}
    BY <1>4, <2>2, <2>3
  <2>5. k = 2 * n + 18
    BY DEF k
  <2> QED
    BY <2>4, <2>5, OwnersAre DEF DecisionOf
<1>9. /\ a.granted => Links(t[2 * n + 16], "CreditDecision") = {<<"approves", DecisionOf(s)>>}
      /\ Links(t[2 * n + 16], "HumanApprover") = {<<"performed_by", Approver>>}
      /\ Links(t[2 * n + 16], "Agent") = {}
      /\ Links(t[2 * n + 16], "Session") = {<<"within", SessionObj(s)>>}
  <2> DEFINE k == 2 * n + 16
  <2>1. CreditScript(a)[k] = ApprovalVerdict(a)
    BY <1>2 DEF IsScript
  <2>2. k \in Positions
    BY <1>1
  <2>3. CreditScript(a)[k].type \notin {"session_start", "handoff"}
    BY <2>1, EventTypes
  <2>4. k = 2 * n + 16
    BY DEF k
  <2> HIDE DEF k
  <2>5. ASSUME NEW qual, NEW o, Names(CreditScript(a)[k], qual, o)
        PROVE  Links(t[k], o.kind) = {<<qual, OwnedBy(o, s)>>}
    BY <1>2, <2>2, <2>3, <2>5, BaseLinked DEF Names
  <2>6. \A q \in CreditScript(a)[k].refs : q.obj.kind # "Agent"
    BY <2>1, StepsOmit
  <2>7. Links(t[k], "Agent") = {}
    BY <2>2, <2>6, <1>2, BaseUnlinked
  <2>8. /\ Names(CreditScript(a)[k], "within", Session) /\ Names(CreditScript(a)[k], "performed_by", Approver)
        /\ a.granted => Names(CreditScript(a)[k], "approves", Decision)
    BY <2>1, StepsName
  <2>9. /\ Links(t[k], Session.kind) = {<<"within", OwnedBy(Session, s)>>}
        /\ Links(t[k], Approver.kind) = {<<"performed_by", OwnedBy(Approver, s)>>}
        /\ a.granted => Links(t[k], Decision.kind) = {<<"approves", OwnedBy(Decision, s)>>}
    BY <2>5, <2>8
  <2> QED
    BY <2>4, <2>7, <2>9, OwnersAre DEF SessionObj, DecisionOf
<1>10. Links(t[4], "CreditDecision") = {} /\ Links(t[2 * n + 11], "CreditDecision") = {}
  <2>1. CreditScript(a)[4] = Reasoning("intake") /\ CreditScript(a)[2 * n + 11] = Reasoning("scoring")
    BY <1>2 DEF IsScript
  <2>2. \A k \in {4, 2 * n + 11} : \A q \in CreditScript(a)[k].refs : q.obj.kind # "CreditDecision"
    BY <2>1, StepsOmit
  <2>3. 4 \in Positions /\ 2 * n + 11 \in Positions
    BY <1>1
  <2> QED
    BY <2>2, <2>3, <1>2, BaseUnlinked
<1>11. /\ Links(t[1], "Agent") = {} /\ Links(t[1], "Session") = {<<"within", SessionObj(s)>>}
       /\ Links(t[2 * n + 20], "Agent") = {} /\ Links(t[2 * n + 20], "Session") = {<<"within", SessionObj(s)>>}
  <2>1. CreditScript(a)[1] = SessionStartEvent /\ CreditScript(a)[2 * n + 20] = SessionEndEvent
    BY <1>2 DEF IsScript
  <2>2. 1 \in Positions /\ 2 * n + 20 \in Positions
    BY <1>1
  <2>3. Links(t[1], "Agent") = {} /\ Links(t[2 * n + 20], "Agent") = {}
    BY <2>1, <2>2, StepsOmit, <1>2, BaseUnlinked
  <2>4. Links(t[2 * n + 20], "Session") = {<<"within", SessionObj(s)>>}
    <3>1. CreditScript(a)[2 * n + 20].type \notin {"session_start", "handoff"} /\ Names(CreditScript(a)[2 * n + 20], "within", Session)
      BY <2>1, StepsName, EventTypes
    <3>2. Links(t[2 * n + 20], Session.kind) = {<<"within", OwnedBy(Session, s)>>}
      BY <1>2, <2>2, <3>1, BaseLinked DEF Names
    <3> QED
      BY <3>2, OwnersAre DEF SessionObj
  <2>5. Links(t[1], "Session") = {<<"within", SessionObj(s)>>}
    <3>1. \A q \in CreditScript(a)[1].refs : q.obj.kind = "Session" => q.qual = "within" /\ q.obj = Session
      BY <2>1, StepsOmit
    <3>2. \A r \in t[1].refs : r.obj.kind = "Session" => r.qual = "within" /\ r.obj = SessionObj(s)
      BY <2>2, <3>1, <1>2, BaseNames DEF SessionObj
    <3>3. \A q \in CreditScript(a)[1].refs : \E r \in t[1].refs :
              r.obj = OwnedBy(q.obj, s) /\ r.qual = q.qual /\ r.obj.kind = q.obj.kind
      BY <2>2, <1>2, BaseNames
    <3>4. \E r \in t[1].refs : r.qual = "within" /\ r.obj = SessionObj(s) /\ r.obj.kind = "Session"
      BY <2>1, <3>3, StepsName, OwnersAre DEF SessionObj, Names
    <3> QED
      BY <3>2, <3>4 DEF Links
  <2> QED
    BY <2>3, <2>4, <2>5
<1>12. ASSUME NEW h \in HandoffAt
       PROVE  /\ Links(t[h], "Agent") = HandoffLinks(h, ReceiverAt(h))
              /\ Links(t[h], "Session") = {<<"within", SessionObj(s)>>}
  <2>1. PICK x, y : CreditScript(a)[h] = Handoff(x, y) /\ SenderAt(h) = Agent(x) /\ ReceiverAt(h) = Agent(y)
    <3>1. /\ CreditScript(a)[5] = Handoff("intake", "data_retrieval") /\ CreditScript(a)[2 * n + 7] = Handoff("data_retrieval", "scoring")
          /\ CreditScript(a)[2 * n + 12] = Handoff("scoring", "adjudication")
      BY <1>2 DEF IsScript
    <3>2. h = 5 \/ h = 2 * n + 7 \/ h = 2 * n + 12
      BY DEF HandoffAt
    <3>3. 2 * n + 7 # 5 /\ 2 * n + 12 # 5 /\ 2 * n + 12 # 2 * n + 7
      BY <1>1
    <3> QED
      BY <3>1, <3>2, <3>3 DEF SenderAt, ReceiverAt
  <2>2. h \in Positions
    BY <1>1 DEF HandoffAt
  <2>3. \A r \in t[h].refs : \E q \in CreditScript(a)[h].refs :
            r.obj = OwnedBy(q.obj, s) /\ r.qual = q.qual /\ r.obj.kind = q.obj.kind
    BY <2>2, <1>2, BaseNames
  <2>4. \A q \in CreditScript(a)[h].refs : \E r \in t[h].refs :
            r.obj = OwnedBy(q.obj, s) /\ r.qual = q.qual /\ r.obj.kind = q.obj.kind
    BY <2>2, <1>2, BaseNames
  <2>5. \A r \in t[h].refs :
            /\ r.obj.kind = "Agent" => \/ r.qual = "from" /\ r.obj = Agent(x)
                                       \/ r.qual = "to" /\ r.obj = Agent(y)
            /\ r.obj.kind = "Session" => r.qual = "within" /\ r.obj = SessionObj(s)
    <3>1. \A q \in CreditScript(a)[h].refs :
              /\ q.obj.kind = "Agent" => \/ q.qual = "from" /\ q.obj = Agent(x)
                                         \/ q.qual = "to" /\ q.obj = Agent(y)
              /\ q.obj.kind = "Session" => q.qual = "within" /\ q.obj = Session
      BY <2>1, StepsOmit
    <3> TAKE r \in t[h].refs
    <3>2. PICK q \in CreditScript(a)[h].refs : r.obj = OwnedBy(q.obj, s) /\ r.qual = q.qual /\ r.obj.kind = q.obj.kind
      BY <2>3
    <3>3. OwnedBy(Agent(x), s) = Agent(x) /\ OwnedBy(Agent(y), s) = Agent(y)
      BY Owned
    <3> QED
      BY <3>1, <3>2, <3>3 DEF SessionObj
  <2>6. /\ \E r \in t[h].refs : r.qual = "from" /\ r.obj = Agent(x) /\ r.obj.kind = "Agent"
        /\ \E r \in t[h].refs : r.qual = "to" /\ r.obj = Agent(y) /\ r.obj.kind = "Agent"
        /\ \E r \in t[h].refs : r.qual = "within" /\ r.obj = SessionObj(s) /\ r.obj.kind = "Session"
    <3>1. /\ Names(CreditScript(a)[h], "from", Agent(x)) /\ Names(CreditScript(a)[h], "to", Agent(y)) /\ Names(CreditScript(a)[h], "within", Session)
      BY <2>1, StepsOmit, StepsName
    <3> QED
      BY <2>4, <3>1, Owned, OwnersAre DEF SessionObj, Names
  <2>7. Links(t[h], "Agent") = {<<"from", Agent(x)>>, <<"to", Agent(y)>>}
    BY <2>5, <2>6 DEF Links
  <2>8. Links(t[h], "Session") = {<<"within", SessionObj(s)>>}
    BY <2>5, <2>6 DEF Links
  <2> QED
    BY <2>1, <2>7, <2>8 DEF HandoffLinks
<1>13. \A k \in Positions : Links(t[k], "Session") = {<<"within", SessionObj(s)>>}
  BY <1>5, <1>9, <1>11, <1>12 DEF SilentAt
<1> QED
  BY <1>5, <1>6, <1>7, <1>8, <1>9, <1>10, <1>11, <1>12, <1>13 DEF BaseLinksAre

(* A running sum is what its recursive definition says.                    *)
LEMMA RunningSum ==
    ASSUME NEW script, Len(script) \in Nat,
           \A k \in 1 .. Len(script) : CreditDuration[script[k].type] \in Nat
    PROVE  LET elapsed[k \in 0 .. Len(script)] ==
                   IF k = 0 THEN 0 ELSE elapsed[k - 1] + CreditDuration[script[k].type]
           IN  /\ elapsed \in [0 .. Len(script) -> Nat]
               /\ \A k \in 1 .. Len(script) :
                     elapsed[k] = elapsed[k - 1] + CreditDuration[script[k].type]
<1> DEFINE m == Len(script)
           d == [k \in 1 .. m |-> CreditDuration[script[k].type]]
<1> DEFINE Sums(f, l) == /\ f \in [0 .. l -> Nat] /\ f[0] = 0
                         /\ \A k \in 1 .. l : f[k] = f[k - 1] + d[k]
           T == {l \in 0 .. m : ~ \E f : Sums(f, l)}
           elapsed[k \in 0 .. Len(script)] ==
               IF k = 0 THEN 0 ELSE elapsed[k - 1] + CreditDuration[script[k].type]
<1>0. m \in Nat /\ \A k \in 1 .. m : d[k] \in Nat /\ d[k] = CreditDuration[script[k].type]
  OBVIOUS
<1> HIDE DEF m, d
<1>1. T = {}
  <2> SUFFICES ASSUME T # {} PROVE FALSE
    OBVIOUS
  <2>1. T \in SUBSET Nat
    BY <1>0
  <2>2. PICK l \in T : \A j \in T : l <= j
    BY <2>1, LeastOf
  <2>3. l \in 0 .. m /\ ~ \E f : Sums(f, l)
    OBVIOUS
  <2>4. CASE l = 0
    <3>1. Sums([k \in 0 .. 0 |-> 0], 0)
      OBVIOUS
    <3> QED
      BY <2>3, <2>4, <3>1
  <2>5. CASE l # 0
    <3> HIDE DEF T
    <3>0. l \in Nat /\ l - 1 \in 0 .. m /\ ~ (l <= l - 1)
      BY <1>0, <2>3, <2>5
    <3>1. l - 1 \in 0 .. m /\ l - 1 \notin T
      BY <2>2, <3>0
    <3> USE DEF T
    <3>2. PICK f : Sums(f, l - 1)
      BY <3>1
    <3> DEFINE g == [k \in 0 .. l |-> IF k = l THEN f[l - 1] + d[l] ELSE f[k]]
    <3>3. l \in 1 .. m /\ l - 1 \in 0 .. l - 1 /\ f[l - 1] \in Nat /\ d[l] \in Nat
      BY <1>0, <2>3, <2>5, <3>2
    <3>4. g \in [0 .. l -> Nat]
      <4>1. \A k \in 0 .. l : k # l => k \in 0 .. l - 1
        BY <3>3
      <4> QED
        BY <3>2, <3>3, <4>1
    <3>5. g[0] = 0
      BY <2>5, <3>2, <3>3
    <3>6. \A k \in 1 .. l : g[k] = g[k - 1] + d[k]
      <4> TAKE k \in 1 .. l
      <4>1. k \in 0 .. l /\ k - 1 \in 0 .. l /\ k - 1 # l
        BY <3>3
      <4>2. CASE k = l
        BY <4>1, <4>2
      <4>3. CASE k # l
        <5>1. k \in 1 .. l - 1
          BY <3>3, <4>3
        <5>2. g[k] = f[k] /\ g[k - 1] = f[k - 1]
          BY <4>1, <4>3
        <5> QED
          BY <3>2, <5>1, <5>2
      <4> QED
        BY <4>2, <4>3
    <3>7. Sums(g, l)
      BY <3>4, <3>5, <3>6
    <3> QED
      BY <2>3, <3>7
  <2> QED
    BY <2>4, <2>5
<1>2. PICK f : Sums(f, m)
  <2>1. m \in 0 .. m
    BY <1>0
  <2> QED
    BY <1>1, <2>1
<1>3. f = [k \in 0 .. m |-> IF k = 0 THEN 0 ELSE f[k - 1] + CreditDuration[script[k].type]]
  <2>1. \A k \in 0 .. m : f[k] = IF k = 0 THEN 0 ELSE f[k - 1] + CreditDuration[script[k].type]
    BY <1>0, <1>2
  <2> QED
    BY <1>2, <2>1
<1>4. elapsed = [k \in 0 .. m |-> IF k = 0 THEN 0 ELSE elapsed[k - 1] + CreditDuration[script[k].type]]
  BY <1>3 DEF m
<1> HIDE DEF elapsed
<1>5. elapsed[0] = 0 /\ \A k \in 1 .. m : elapsed[k] = elapsed[k - 1] + d[k]
  <2>1. 0 \in 0 .. m /\ \A k \in 1 .. m : k \in 0 .. m /\ k # 0
    BY <1>0
  <2> QED
    BY <1>0, <1>4, <2>1
<1> DEFINE U == {k \in 0 .. m : elapsed[k] # f[k]}
<1>6. U = {}
  <2> SUFFICES ASSUME U # {} PROVE FALSE
    OBVIOUS
  <2>1. U \in SUBSET Nat
    BY <1>0
  <2>2. PICK l \in U : \A j \in U : l <= j
    BY <2>1, LeastOf
  <2>3. l # 0
    BY <1>2, <1>5
  <2>4. l \in 1 .. m /\ l - 1 \in 0 .. m /\ l - 1 \notin U
    <3>1. l \in 0 .. m
      OBVIOUS
    <3> HIDE DEF U
    <3>2. l \in Nat /\ l - 1 \in 0 .. m /\ ~ (l <= l - 1) /\ l \in 1 .. m
      BY <1>0, <2>3, <3>1
    <3> QED
      BY <2>2, <3>2
  <2> QED
    BY <1>2, <1>5, <2>2, <2>4
<1>7. elapsed \in [0 .. m -> Nat]
  BY <1>2, <1>4, <1>6
<1> QED
  BY <1>0, <1>5, <1>7 DEF elapsed, m

(* Every step of the script takes time, so that times strictly increase.   *)
LEMMA Durations ==
    ASSUME NEW a \in Applicants, NEW k \in Positions
    PROVE  CreditDuration[CreditScript(a)[k].type] \in Nat \ {0}
<1> DEFINE n == Retrievals
           c == CreditScript(a)
<1>1. IsScript(c, a)
  BY ScriptIs
<1> DEFINE known == {"session_start", "invoke_agent", "handoff", "call_llm", "call_tool", "retrieve_data",
                     "emit_reasoning", "request_approval", "grant_approval", "deny_approval",
                     "make_decision", "notify_applicant", "session_end"}
<1>2. ASSUME NEW role, NEW name
      PROVE  /\ SessionStartEvent.type \in known /\ SessionEndEvent.type \in known
             /\ InvokeAgent(role).type \in known /\ CallLLM(role).type \in known
             /\ CallTool(role, name).type \in known /\ RetrieveData(role, name).type \in known
             /\ Reasoning(role).type \in known /\ FinalReasoning(role).type \in known
             /\ Handoff(role, name).type \in known /\ RequestApproval(role).type \in known
             /\ ApprovalVerdict(a).type \in known /\ MakeDecision(role, a).type \in known
             /\ NotifyApplicant(role).type \in known
  BY EventTypes
<1>3. \A type \in known : CreditDuration[type] \in Nat \ {0}
  BY DEF CreditDuration
<1> HIDE DEF known, c
<1>4. CASE k \in 1 .. 6
  <2>1. k = 1 \/ k = 2 \/ k = 3 \/ k = 4 \/ k = 5 \/ k = 6
    BY <1>4
  <2>2. c[k].type \in known
    BY <1>1, <1>2, <2>1 DEF IsScript
  <2> QED
    BY <1>3, <2>2 DEF c
<1>5. CASE \E i \in 1 .. n : k = 2 * i + 5 \/ k = 2 * i + 6
  <2>1. c[k].type \in known
    BY <1>1, <1>2, <1>5 DEF IsScript
  <2> QED
    BY <1>3, <2>1 DEF c
<1>6. CASE \E j \in 7 .. 20 : k = 2 * n + j
  <2>1. PICK j \in 7 .. 20 : k = 2 * n + j
    BY <1>6
  <2>2. \/ j = 7 \/ j = 8 \/ j = 9 \/ j = 10 \/ j = 11 \/ j = 12 \/ j = 13
        \/ j = 14 \/ j = 15 \/ j = 16 \/ j = 17 \/ j = 18 \/ j = 19 \/ j = 20
    OBVIOUS
  <2>3. c[k].type \in known
    BY <1>1, <1>2, <2>1, <2>2 DEF IsScript
  <2> QED
    BY <1>3, <2>3 DEF c
<1> QED
  BY <1>4, <1>5, <1>6, ScriptPositions DEF Positions

(* The events of a session are in the order of their times.                *)
LEMMA BaseTimes ==
    ASSUME NEW s \in Nat, NEW a \in Applicants, NEW t, t = BaseTrace(s, a)
    PROVE  /\ \A k \in Positions : t[k].time \in Int
           /\ \A j, k \in Positions : j < k => t[j].time < t[k].time
<1> DEFINE script == CreditScript(a)
           elapsed[k \in 0 .. Len(script)] ==
               IF k = 0 THEN 0 ELSE elapsed[k - 1] + CreditDuration[script[k].type]
           m == Len(script)
<1>1. m \in Nat /\ Positions = 1 .. m /\ DOMAIN script = Positions
  <2>1. IsScript(script, a)
    BY ScriptIs
  <2> QED
    BY <2>1, RetrievalFacts DEF IsScript, Positions
<1>2. \A k \in 1 .. m : CreditDuration[script[k].type] \in Nat \ {0}
  BY <1>1, Durations
<1>3. elapsed \in [0 .. m -> Nat] /\ \A k \in 1 .. m : elapsed[k] = elapsed[k - 1] + CreditDuration[script[k].type]
  <2> HIDE DEF script
  <2> QED
    BY <1>1, <1>2, RunningSum
<1> DEFINE x == (s - 1) * SessionStride
<1>4. \A k \in 1 .. m : t[k].time = x + elapsed[k]
  BY <1>1 DEF BaseTrace
<1>5. x \in Int
  BY StrideAssumption
<1> HIDE DEF x, elapsed, script, m
<1>6. \A k \in 1 .. m : elapsed[k - 1] \in Nat /\ elapsed[k] \in Nat /\ elapsed[k - 1] < elapsed[k]
  <2> TAKE k \in 1 .. m
  <2>1. k \in 0 .. m /\ k - 1 \in 0 .. m
    BY <1>1
  <2>2. elapsed[k] \in Nat /\ elapsed[k - 1] \in Nat
    BY <1>3, <2>1
  <2> QED
    BY <1>2, <1>3, <2>2
<1>7. \A j, k \in 1 .. m : j < k => elapsed[j] < elapsed[k]
  <2> SUFFICES ASSUME NEW j \in 1 .. m PROVE \A k \in 1 .. m : j < k => elapsed[j] < elapsed[k]
    OBVIOUS
  <2> DEFINE T == {k \in 1 .. m : j < k /\ ~ (elapsed[j] < elapsed[k])}
  <2> SUFFICES ASSUME T # {} PROVE FALSE
    OBVIOUS
  <2>1. T \in SUBSET Nat
    BY <1>1
  <2>2. PICK k \in T : \A i \in T : k <= i
    BY <2>1, LeastOf
  <2>3. k \in 1 .. m /\ j < k /\ ~ (elapsed[j] < elapsed[k])
    OBVIOUS
  <2>4. k - 1 \in 1 .. m /\ j <= k - 1 /\ ~ (k <= k - 1)
    BY <1>1, <2>3
  <2>5. k - 1 \notin T
    <3> HIDE DEF T
    <3> QED
      BY <2>2, <2>4
  <2>6. j = k - 1 \/ elapsed[j] < elapsed[k - 1]
    BY <1>1, <2>3, <2>4, <2>5
  <2> QED
    BY <1>6, <2>3, <2>6
<1>8. \A k \in Positions : k \in 1 .. m /\ t[k].time = x + elapsed[k] /\ elapsed[k] \in Nat
  BY <1>1, <1>4, <1>6
<1>9. \A j, k \in Positions : j < k => t[j].time < t[k].time
  BY <1>5, <1>7, <1>8
<1> QED
  BY <1>5, <1>8, <1>9

(* The decision as the fleet writes it: its outcome and its reason codes.  *)
LEMMA BaseDecision ==
    ASSUME NEW s, NEW a \in Applicants, NEW t, t = BaseTrace(s, a)
    PROVE  /\ t[2 * Retrievals + 17].outcome = FinalOutcome(a)
           /\ Codes(t[2 * Retrievals + 17]) = IF Adverse(a) THEN {"reason_codes"} ELSE {}
<1> DEFINE k == 2 * Retrievals + 17
           facts == IF Adverse(a) THEN {"reason_codes"} ELSE {}
           q == Declare("produces", Decision, facts)
           fresh == q.obj \notin OfferedBefore(CreditScript(a), k)
           r == SpanRef(q, fresh, s)
<1>1. k \in 1 .. 2 * Retrievals + 20 /\ k \in Positions
  BY RetrievalFacts DEF Positions
<1>2. CreditScript(a)[k] = MakeDecision("adjudication", a) /\ k \in DOMAIN CreditScript(a)
  BY <1>1, ScriptIs DEF IsScript
<1>3. t[k].outcome = FinalOutcome(a)
  <2>1. t[k].outcome = CreditScript(a)[k].outcome
    BY <1>2 DEF BaseTrace
  <2>2. MakeDecision("adjudication", a).outcome = FinalOutcome(a)
    BY DEF MakeDecision, Event
  <2> QED
    BY <1>2, <2>1, <2>2
<1>4. q \in CreditScript(a)[k].refs
  BY <1>2 DEF MakeDecision, Event
<1>5. r \in t[k].refs
  BY <1>1, <1>4, BaseRefs
<1>6. q.mode = "declare" /\ q.facts = facts /\ q.obj = Decision /\ fresh \in BOOLEAN
  BY DEF Declare
<1> HIDE DEF q, fresh
<1>7. r.declares /\ r.facts = facts /\ r.obj = OwnedBy(Decision, s)
  BY <1>6, SpanRefIs
<1>8. r.obj.kind = "CreditDecision"
  BY <1>7, DecisionIs DEF DecisionOf
<1>9. RefsFit(t[k]) /\ t[k].type = "make_decision"
  <2>1. RefsFit(t[k]) /\ t[k].type = CreditScript(a)[k].type
    BY <1>1, BaseNames
  <2> QED
    BY <1>2, <2>1, EventTypes
<1> HIDE DEF r, k, facts
<1>10. {x \in t[k].refs : x.declares /\ x.obj.kind = "CreditDecision"} = {r}
  BY <1>5, <1>7, <1>8, <1>9 DEF RefsFit
<1>11. Codes(t[k]) = facts
  BY <1>7, <1>10 DEF Codes
<1> QED
  BY <1>3, <1>11 DEF k, facts

-----------------------------------------------------------------------------
(* The trace u of a session is the trace tr after a fault of class c; 10   *)
(* stands for no fault.                                                    *)
Alters(u, tr, c, s) ==
    /\ \A k \in DOMAIN u : \E j \in DOMAIN tr : \E p \in Positions :
          /\ u[k].id = <<s, p>> /\ tr[j].id = <<s, p>>
          /\ Alike(u[k], tr[j], SoftAt(p, {c}))
          /\ c # 6 => Codes(u[k]) = Codes(tr[j])
    /\ \A p \in Positions : p \notin GoneOf(c) /\ ~ Lacks(tr, s, p) => ~ Lacks(u, s, p)

(* Two rewrites of one fault class, or one followed by the renumbering,    *)
(* make one of that class.                                                 *)
LEMMA AltersTwice ==
    ASSUME NEW s, NEW c, NEW d, d = c \/ d = 10, NEW tr, NEW u, Alters(u, tr, c, s), NEW v, Alters(v, u, d, s)
    PROVE  Alters(v, tr, c, s)
<1>1. \A p : SoftAt(p, {d}) \subseteq SoftAt(p, {c})
  BY DEF SoftAt, SpotsOf
<1>2. GoneOf(d) \subseteq GoneOf(c) /\ (c # 6 => d # 6)
  BY DEF GoneOf
<1>3. ASSUME NEW k \in DOMAIN v
      PROVE  \E j \in DOMAIN tr : \E p \in Positions :
                 /\ v[k].id = <<s, p>> /\ tr[j].id = <<s, p>>
                 /\ Alike(v[k], tr[j], SoftAt(p, {c}))
                 /\ c # 6 => Codes(v[k]) = Codes(tr[j])
  <2>1. PICK i \in DOMAIN u, p \in Positions :
            /\ v[k].id = <<s, p>> /\ u[i].id = <<s, p>>
            /\ Alike(v[k], u[i], SoftAt(p, {d}))
            /\ d # 6 => Codes(v[k]) = Codes(u[i])
    BY DEF Alters
  <2>2. PICK j \in DOMAIN tr, q \in Positions :
            /\ u[i].id = <<s, q>> /\ tr[j].id = <<s, q>>
            /\ Alike(u[i], tr[j], SoftAt(q, {c}))
            /\ c # 6 => Codes(u[i]) = Codes(tr[j])
    BY DEF Alters
  <2>3. p = q
    BY <2>1, <2>2
  <2>4. Alike(v[k], tr[j], SoftAt(p, {c}))
    BY <1>1, <2>1, <2>2, <2>3 DEF Alike
  <2> QED
    BY <1>2, <2>1, <2>2, <2>3, <2>4
<1>4. \A p \in Positions : p \notin GoneOf(c) /\ ~ Lacks(tr, s, p) => ~ Lacks(v, s, p)
  BY <1>2 DEF Alters
<1> QED
  BY <1>3, <1>4 DEF Alters

(* An event that is gone stays gone under a later fault.                   *)
LEMMA LacksStill ==
    ASSUME NEW s, NEW c, NEW tr, NEW u, Alters(u, tr, c, s), NEW p, Lacks(tr, s, p)
    PROVE  Lacks(u, s, p)
  BY DEF Lacks, Alters

(* A later fault leaves alone the links it has no business with.           *)
LEMMA LinksStill ==
    ASSUME NEW s, NEW c, NEW tr, NEW u, Alters(u, tr, c, s), NEW p \in Positions,
           NEW kind \in LinkKinds, <<p, kind>> \notin SpotsOf(c), NEW k \in DOMAIN u, u[k].id = <<s, p>>
    PROVE  \E j \in DOMAIN tr : tr[j].id = <<s, p>> /\ Links(u[k], kind) = Links(tr[j], kind)
<1>1. PICK j \in DOMAIN tr, q \in Positions :
          u[k].id = <<s, q>> /\ tr[j].id = <<s, q>> /\ Alike(u[k], tr[j], SoftAt(q, {c}))
  BY DEF Alters
<1>2. q = p
  BY <1>1
<1>3. kind \notin SoftAt(p, {c})
  BY DEF SoftAt
<1> QED
  BY <1>1, <1>2, <1>3 DEF Alike

(* What an earlier fault made an event say is still said after a later one *)
(* that touches other links.                                               *)
LEMMA ShowsStill ==
    ASSUME NEW s, NEW c, NEW tr, NEW u, Alters(u, tr, c, s), NEW p \in Positions,
           NEW kind \in LinkKinds, <<p, kind>> \notin SpotsOf(c), NEW links, Shows(tr, s, p, kind, links)
    PROVE  Shows(u, s, p, kind, links)
<1> SUFFICES ASSUME NEW k \in DOMAIN u, u[k].id = <<s, p>> PROVE Links(u[k], kind) = links
  BY DEF Shows
<1>1. PICK j \in DOMAIN tr : tr[j].id = <<s, p>> /\ Links(u[k], kind) = Links(tr[j], kind)
  BY LinksStill
<1> QED
  BY <1>1 DEF Shows

(* Keeps survives a rewrite confined to one more fault class.              *)
LEMMA KeepsOn ==
    ASSUME NEW s, NEW c, NEW tr, NEW u, Alters(u, tr, c, s), NEW base, NEW done, Keeps(tr, base, s, done)
    PROVE  Keeps(u, base, s, done \cup {c})
<1> DEFINE more == done \cup {c}
<1>1. ASSUME NEW k \in DOMAIN u, NEW p \in Positions, u[k].id = <<s, p>>
      PROVE  /\ Alike(u[k], base[p], SoftAt(p, more))
             /\ 6 \notin more => Codes(u[k]) = Codes(base[p])
  <2>1. PICK j \in DOMAIN tr, q \in Positions :
            /\ u[k].id = <<s, q>> /\ tr[j].id = <<s, q>>
            /\ Alike(u[k], tr[j], SoftAt(q, {c}))
            /\ c # 6 => Codes(u[k]) = Codes(tr[j])
    BY DEF Alters
  <2>2. q = p
    BY <1>1, <2>1
  <2>3. /\ Alike(tr[j], base[p], SoftAt(p, done))
        /\ 6 \notin done => Codes(tr[j]) = Codes(base[p])
    BY <2>1, <2>2 DEF Keeps
  <2>4. SoftAt(p, done) \subseteq SoftAt(p, more) /\ SoftAt(p, {c}) \subseteq SoftAt(p, more)
    BY DEF SoftAt
  <2> QED
    BY <2>1, <2>2, <2>3, <2>4 DEF Alike
<1>2. ASSUME NEW p \in Positions, \A b \in more : p \notin GoneOf(b)
      PROVE  ~ Lacks(u, s, p)
  BY <1>2 DEF Keeps, Alters
<1> QED
  BY <1>1, <1>2 DEF Keeps

(* Two faults of one session touch nothing in common, unless both are of   *)
(* T1 or one of them is the distractor.                                    *)
Apart(b, c) == b # c /\ ~ (b \in {1, 2, 3, 9} /\ c \in {1, 2, 3, 9})

(* The mark of an earlier fault survives a fault of a class that may share *)
(* its session.                                                            *)
LEMMA MarkedOn ==
    ASSUME NEW s, NEW c \in 1 .. 10, NEW b \in FaultClasses, Apart(b, c), NEW tr, NEW u, Alters(u, tr, c, s),
           NEW l, NEW donors, Marked(b, l, tr, s, donors)
    PROVE  Marked(b, l, u, s, donors)
<1> DEFINE n == Retrievals
<1>1. n \in Nat \ {0} /\ \A i \in 1 .. n : 2 * i + 6 \in Positions
      /\ \A j \in 1 .. 20 : 2 * n + j \in Positions /\ j \in Positions
  BY RetrievalFacts DEF Positions
<1>2. ASSUME b = 1, MarkOfV1(l, tr, s) PROVE MarkOfV1(l, u, s)
  BY <1>2, LacksStill DEF MarkOfV1
<1>3. ASSUME b = 2, MarkOfV2(l, tr, s, donors) PROVE MarkOfV2(l, u, s, donors)
  <2>1. <<2 * n + 16, "CreditDecision">> \notin SpotsOf(c) /\ "CreditDecision" \in LinkKinds
    BY <1>1, <1>3 DEF SpotsOf, LinkKinds, Apart
  <2>2. 2 * n + 16 \in Positions
    BY <1>1
  <2>3. PICK donor \in donors :
            /\ Shows(tr, s, 2 * n + 16, "CreditDecision", {<<"approves", donor>>})
            /\ Cites(l, "T1", {Granted(s), Decided(s)}, {DecisionOf(s), donor})
    BY <1>3 DEF MarkOfV2
  <2>4. Shows(u, s, 2 * n + 16, "CreditDecision", {<<"approves", donor>>})
    BY <2>1, <2>2, <2>3, ShowsStill
  <2> QED
    BY <2>3, <2>4 DEF MarkOfV2
<1>4. ASSUME b = 3, MarkOfV3(l, tr, s) PROVE MarkOfV3(l, u, s)
  <2>1. <<2 * n + 16, "HumanApprover">> \notin SpotsOf(c) /\ "HumanApprover" \in LinkKinds
    BY <1>1, <1>4 DEF SpotsOf, LinkKinds, Apart
  <2>2. 2 * n + 16 \in Positions
    BY <1>1
  <2> QED
    BY <1>4, <2>1, <2>2, ShowsStill DEF MarkOfV3
<1>5. ASSUME b = 4, MarkOfV4(l, tr, s) PROVE MarkOfV4(l, u, s)
  BY <1>5, LacksStill DEF MarkOfV4
<1>6. ASSUME b = 5, MarkOfV5(l, tr, s) PROVE MarkOfV5(l, u, s)
  <2>1. PICK i \in 1 .. n : /\ RetrievalOrder[i] = Demographics
                            /\ Shows(tr, s, 2 * i + 6, "DataResource", {<<"reads", Local(s)>>})
                            /\ Cites(l, "T5", {<<s, 2 * i + 6>>}, {Local(s)})
    BY <1>6 DEF MarkOfV5
  <2>2. <<2 * i + 6, "DataResource">> \notin SpotsOf(c) /\ "DataResource" \in LinkKinds
    BY <1>1, <1>6 DEF SpotsOf, LinkKinds, Apart
  <2>3. 2 * i + 6 \in Positions
    BY <1>1
  <2>4. Shows(u, s, 2 * i + 6, "DataResource", {<<"reads", Local(s)>>})
    BY <2>1, <2>2, <2>3, ShowsStill
  <2> QED
    BY <2>1, <2>4 DEF MarkOfV5
<1>7. ASSUME b = 6, MarkOfV6(l, tr, s) PROVE MarkOfV6(l, u, s)
  <2>1. <<2 * n + 18, "CreditDecision">> \notin SpotsOf(c) /\ "CreditDecision" \in LinkKinds /\ c # 6
    BY <1>1, <1>7 DEF SpotsOf, LinkKinds, Apart
  <2>2. 2 * n + 18 \in Positions
    BY <1>1
  <2>3. \A links : Shows(tr, s, 2 * n + 18, "CreditDecision", links) => Shows(u, s, 2 * n + 18, "CreditDecision", links)
    BY <2>1, <2>2, ShowsStill
  <2>4. ASSUME Uncoded(tr, s) PROVE Uncoded(u, s)
    <3> SUFFICES ASSUME NEW k \in DOMAIN u, u[k].id = Decided(s) PROVE "reason_codes" \notin Codes(u[k])
      BY DEF Uncoded
    <3>1. PICK j \in DOMAIN tr, p \in Positions :
              u[k].id = <<s, p>> /\ tr[j].id = <<s, p>> /\ Codes(u[k]) = Codes(tr[j])
      BY <2>1 DEF Alters
    <3> QED
      BY <2>4, <3>1 DEF Uncoded
  <2> QED
    BY <1>7, <2>3, <2>4 DEF MarkOfV6
<1>8. ASSUME b = 7, MarkOfV7(l, tr, s) PROVE MarkOfV7(l, u, s)
  <2>1. /\ \A h \in HandoffAt : h \in Positions /\ <<h, "Agent">> \notin SpotsOf(c) /\ h \notin GoneOf(c)
        /\ "Agent" \in LinkKinds
    <3>1. c # 7
      BY <1>8 DEF Apart
    <3>2. \A h \in HandoffAt : h \in Positions
      BY <1>1 DEF HandoffAt
    <3>3. \A h \in HandoffAt : <<h, "Agent">> \notin SpotsOf(c)
      BY <3>1 DEF SpotsOf
    <3>4. \A h \in HandoffAt : h \notin GoneOf(c)
      <4>1. CASE c = 1
        BY <1>1, <4>1 DEF GoneOf, HandoffAt
      <4>2. CASE c = 4
        <5>1. \A i \in 1 .. n : 2 * i + 5 \notin HandoffAt /\ 2 * i + 6 \notin HandoffAt
          BY <1>1 DEF HandoffAt
        <5> QED
          BY <4>2, <5>1 DEF GoneOf
      <4>3. CASE c \notin {1, 4, 7}
        BY <4>3 DEF GoneOf
      <4> QED
        BY <3>1, <4>1, <4>2, <4>3
    <3> QED
      BY <3>2, <3>3, <3>4 DEF LinkKinds
  <2>2. PICK h \in HandoffAt :
            /\ \A o \in HandoffAt \ {h} : HandoffStands(tr, s, o)
            /\ \/ Lacks(tr, s, h) /\ Cites(l, "T3", {<<s, h + 1>>}, {ReceiverAt(h)})
               \/ Misled(tr, s, h) /\ Cites(l, "T3", {<<s, h>>, <<s, h + 1>>}, {ReceiverAt(h)})
    BY <1>8 DEF MarkOfV7
  <2>3. \A o \in HandoffAt : ~ Lacks(tr, s, o) => ~ Lacks(u, s, o)
    BY <2>1 DEF Alters
  <2>4. ASSUME NEW o \in HandoffAt, HandoffStands(tr, s, o) PROVE HandoffStands(u, s, o)
    BY <2>1, <2>3, <2>4, ShowsStill DEF HandoffStands
  <2>5. Lacks(tr, s, h) => Lacks(u, s, h)
    BY LacksStill
  <2>6. ASSUME Misled(tr, s, h) PROVE Misled(u, s, h)
    <3>1. ASSUME NEW k \in DOMAIN u, u[k].id = <<s, h>>
          PROVE  \E j \in DOMAIN tr : tr[j].id = <<s, h>> /\ Links(u[k], "Agent") = Links(tr[j], "Agent")
      <4>1. h \in Positions /\ <<h, "Agent">> \notin SpotsOf(c) /\ "Agent" \in LinkKinds
        BY <2>1
      <4> QED
        BY <3>1, <4>1, LinksStill
    <3> QED
      BY <2>3, <2>6, <3>1 DEF Misled
  <2> QED
    BY <2>2, <2>4, <2>5, <2>6 DEF MarkOfV7
<1>9. ASSUME b = 8, MarkOfV8(l, tr, s) PROVE MarkOfV8(l, u, s)
  <2>1. <<2 * n + 17, "PolicyVersion">> \notin SpotsOf(c) /\ "PolicyVersion" \in LinkKinds
    BY <1>1, <1>9 DEF SpotsOf, LinkKinds, Apart
  <2>2. 2 * n + 17 \in Positions
    BY <1>1
  <2> QED
    BY <1>9, <2>1, <2>2, ShowsStill DEF MarkOfV8
<1> QED
  BY <1>2, <1>3, <1>4, <1>5, <1>6, <1>7, <1>8, <1>9 DEF Marked

(* The trace goes on telling the faults done to it after one more fault    *)
(* with its own mark.                                                      *)
LEMMA TellsOn ==
    ASSUME NEW s, NEW c \in 1 .. 9, NEW done \in SUBSET FaultClasses, \A b \in done : Apart(b, c),
           NEW tr, NEW u, Alters(u, tr, c, s), NEW base, NEW ls, NEW more, ls \subseteq more, NEW donors,
           Tells(tr, base, s, done, ls, donors), MarkedBy(more, c, u, s, donors)
    PROVE  Tells(u, base, s, done \cup {c}, more, donors)
<1>1. Keeps(u, base, s, done \cup {c})
  BY KeepsOn DEF Tells
<1>2. ASSUME NEW b \in done PROVE MarkedBy(more, b, u, s, donors)
  <2>1. b \in FaultClasses /\ b # 9 /\ Apart(b, c)
    BY DEF FaultClasses
  <2>2. PICK l \in ls : l.session = s /\ l.class = b /\ Marked(b, l, tr, s, donors)
    BY <2>1 DEF Tells, MarkedBy
  <2>3. c \in 1 .. 10
    OBVIOUS
  <2>4. Marked(b, l, u, s, donors)
    BY <2>1, <2>2, <2>3, MarkedOn
  <2> QED
    BY <2>1, <2>2, <2>4 DEF MarkedBy
<1> QED
  BY <1>1, <1>2 DEF Tells

(* The trace u is tr with another event in the place of one.               *)
Edited(u, tr, k) ==
    /\ DOMAIN u = DOMAIN tr /\ \A j \in DOMAIN tr \ {k} : u[j] = tr[j]
    /\ DOMAIN u[k] = Fields /\ u[k].id = tr[k].id /\ u[k].type = tr[k].type
    /\ u[k].time = tr[k].time /\ u[k].outcome = tr[k].outcome

(* New references for a span leave everything else as it was.              *)
LEMMA RefsEdited ==
    ASSUME NEW tr, NEW k \in DOMAIN tr, DOMAIN tr[k] = Fields, NEW refs
    PROVE  LET u == [tr EXCEPT ![k].refs = refs]
           IN  Edited(u, tr, k) /\ u[k].refs = refs
<1> DEFINE u == [tr EXCEPT ![k].refs = refs]
           e == [tr[k] EXCEPT !.refs = refs]
<1>1. e.refs = refs /\ e.id = tr[k].id /\ e.type = tr[k].type /\ DOMAIN e = Fields
      /\ e.time = tr[k].time /\ e.outcome = tr[k].outcome
  BY DEF Fields
<1>2. u[k] = e /\ DOMAIN u = DOMAIN tr /\ \A j \in DOMAIN tr \ {k} : u[j] = tr[j]
  OBVIOUS
<1> HIDE DEF u, e
<1>3. Edited(u, tr, k) /\ u[k].refs = refs
  BY <1>1, <1>2 DEF Edited
<1> QED
  BY <1>3 DEF u

(* A new actor for a span leaves everything else as it was.                *)
LEMMA ActorEdited ==
    ASSUME NEW tr, NEW k \in DOMAIN tr, DOMAIN tr[k] = Fields, NEW actor
    PROVE  LET u == [tr EXCEPT ![k].actor = actor]
           IN  Edited(u, tr, k) /\ u[k].refs = tr[k].refs
<1> DEFINE u == [tr EXCEPT ![k].actor = actor]
           e == [tr[k] EXCEPT !.actor = actor]
<1>1. e.refs = tr[k].refs /\ e.id = tr[k].id /\ e.type = tr[k].type /\ DOMAIN e = Fields
      /\ e.time = tr[k].time /\ e.outcome = tr[k].outcome
  BY DEF Fields
<1>2. u[k] = e /\ DOMAIN u = DOMAIN tr /\ \A j \in DOMAIN tr \ {k} : u[j] = tr[j]
  OBVIOUS
<1> HIDE DEF u, e
<1>3. Edited(u, tr, k) /\ u[k].refs = tr[k].refs
  BY <1>1, <1>2 DEF Edited
<1> QED
  BY <1>3 DEF u

(* An edit is a fault of class c if the links it changes are those c may.  *)
StaysOff(u, tr, k, p, c) ==
    /\ \A kind \in LinkKinds : <<p, kind>> \notin SpotsOf(c) => Links(u[k], kind) = Links(tr[k], kind)
    /\ c # 6 => Codes(u[k]) = Codes(tr[k])

(* An edit in place that stays off what a class may not touch is a rewrite *)
(* of that class.                                                          *)
LEMMA EditAlters ==
    ASSUME NEW tr, NEW s, IdsFit(tr, s), NEW k \in DOMAIN tr, NEW p \in Positions, tr[k].id = <<s, p>>,
           NEW u, Edited(u, tr, k), NEW c, StaysOff(u, tr, k, p, c)
    PROVE  Alters(u, tr, c, s)
<1>1. ASSUME NEW x \in DOMAIN u
      PROVE  \E j \in DOMAIN tr : \E q \in Positions :
                 /\ u[x].id = <<s, q>> /\ tr[j].id = <<s, q>>
                 /\ Alike(u[x], tr[j], SoftAt(q, {c}))
                 /\ c # 6 => Codes(u[x]) = Codes(tr[j])
  <2>1. x \in DOMAIN tr
    BY DEF Edited
  <2>2. CASE x = k
    <3>1. Alike(u[k], tr[k], SoftAt(p, {c}))
      BY DEF Alike, Edited, StaysOff, SoftAt
    <3>2. u[k].id = <<s, p>>
      BY DEF Edited
    <3>3. c # 6 => Codes(u[k]) = Codes(tr[k])
      BY DEF StaysOff
    <3> QED
      BY <2>2, <3>1, <3>2, <3>3
  <2>3. CASE x # k
    <3>1. u[x] = tr[x]
      BY <2>1, <2>3 DEF Edited
    <3>2. PICK q \in Positions : tr[x].id = <<s, q>>
      BY <2>1 DEF IdsFit, Positions
    <3>3. Alike(u[x], tr[x], SoftAt(q, {c}))
      BY <3>1 DEF Alike
    <3> QED
      BY <2>1, <3>1, <3>2, <3>3
  <2> QED
    BY <2>2, <2>3
<1>2. ASSUME NEW q \in Positions, ~ Lacks(tr, s, q) PROVE ~ Lacks(u, s, q)
  <2>1. PICK j \in DOMAIN tr : tr[j].id = <<s, q>>
    BY <1>2 DEF Lacks
  <2>2. u[j].id = <<s, q>> /\ j \in DOMAIN u
    BY <2>1 DEF Edited
  <2> QED
    BY <2>2 DEF Lacks
<1> QED
  BY <1>1, <1>2 DEF Alters

(* Deleting spans leaves exactly the others.                               *)
LEMMA WithoutIs ==
    ASSUME NEW tr, NEW m \in Nat, DOMAIN tr = 1 .. m, NEW ks
    PROVE  EventsOf(Without(tr, ks)) = {tr[k] : k \in DOMAIN tr \ ks}
<1>1. /\ \E l \in 0 .. m : DOMAIN Without(tr, ks) = 1 .. l
      /\ EventsOf(Without(tr, ks)) = {tr[k] : k \in DOMAIN tr \ ks}
      /\ TakenOnce(Without(tr, ks), tr, DOMAIN tr \ ks)
  BY WithoutKeeps
<1> QED
  BY <1>1

(* Deleting events is a fault of class c if c may delete them.             *)
LEMMA WithoutAlters ==
    ASSUME NEW tr, NEW m \in Nat, DOMAIN tr = 1 .. m, NEW s, IdsFit(tr, s), NEW ks, NEW c,
           \A k \in ks : \E p \in GoneOf(c) : tr[k].id = <<s, p>>
    PROVE  Alters(Without(tr, ks), tr, c, s)
<1> DEFINE u    == Without(tr, ks)
           kept == DOMAIN tr \ ks
<1>1. EventsOf(u) = {tr[k] : k \in kept}
  BY WithoutIs
<1> HIDE DEF u
<1>2. ASSUME NEW x \in DOMAIN u
      PROVE  \E j \in DOMAIN tr : \E q \in Positions :
                 /\ u[x].id = <<s, q>> /\ tr[j].id = <<s, q>>
                 /\ Alike(u[x], tr[j], SoftAt(q, {c}))
                 /\ c # 6 => Codes(u[x]) = Codes(tr[j])
  <2>1. u[x] \in EventsOf(u)
    BY DEF EventsOf
  <2>2. PICK j \in DOMAIN tr : u[x] = tr[j]
    BY <1>1, <2>1
  <2>3. PICK q \in Positions : tr[j].id = <<s, q>>
    BY DEF IdsFit, Positions
  <2>4. Alike(u[x], tr[j], SoftAt(q, {c}))
    BY <2>2 DEF Alike
  <2> QED
    BY <2>2, <2>3, <2>4
<1>3. ASSUME NEW q \in Positions, q \notin GoneOf(c), ~ Lacks(tr, s, q) PROVE ~ Lacks(u, s, q)
  <2>1. PICK j \in DOMAIN tr : tr[j].id = <<s, q>>
    BY <1>3 DEF Lacks
  <2>2. j \notin ks
    BY <1>3, <2>1
  <2>3. tr[j] \in EventsOf(u)
    BY <1>1, <2>2
  <2> QED
    BY <2>1, <2>3 DEF EventsOf, Lacks
<1>4. Alters(u, tr, c, s)
  BY <1>2, <1>3 DEF Alters
<1> QED
  BY <1>4 DEF u

(* What was deleted is lacking afterwards.                                 *)
LEMMA WithoutLacks ==
    ASSUME NEW tr, NEW m \in Nat, DOMAIN tr = 1 .. m, NEW s, NEW ks, NEW p,
           \A k \in DOMAIN tr : tr[k].id = <<s, p>> => k \in ks
    PROVE  Lacks(Without(tr, ks), s, p)
<1> DEFINE u    == Without(tr, ks)
           kept == DOMAIN tr \ ks
<1>1. EventsOf(u) = {tr[k] : k \in kept}
  BY WithoutIs
<1> HIDE DEF u
<1>2. Lacks(u, s, p)
  <2> SUFFICES ASSUME NEW x \in DOMAIN u, u[x].id = <<s, p>> PROVE FALSE
    BY DEF Lacks
  <2>1. u[x] \in EventsOf(u)
    BY DEF EventsOf
  <2> QED
    BY <1>1, <2>1
<1> QED
  BY <1>2 DEF u

(* Renumbering changes nothing a rule reads.                               *)
LEMMA RenumberAlters ==
    ASSUME NEW tr, \A k \in DOMAIN tr : DOMAIN tr[k] = Fields, NEW s, IdsFit(tr, s)
    PROVE  Alters(RecomputeEnd(Renumber(tr)), tr, 10, s)
<1> DEFINE v == Renumber(tr)
           u == RecomputeEnd(v)
<1>1. DOMAIN u = DOMAIN tr /\ DOMAIN v = DOMAIN tr
  BY DEF RecomputeEnd, Renumber
<1>2. ASSUME NEW k \in DOMAIN tr
      PROVE  /\ u[k].id = tr[k].id /\ u[k].type = tr[k].type /\ u[k].time = tr[k].time
             /\ u[k].outcome = tr[k].outcome /\ u[k].refs = tr[k].refs
  <2>1. v[k] = [tr[k] EXCEPT !.seq = k]
    BY DEF Renumber
  <2>2. DOMAIN tr[k] = Fields
    OBVIOUS
  <2>3. /\ v[k].id = tr[k].id /\ v[k].type = tr[k].type /\ v[k].time = tr[k].time
        /\ v[k].outcome = tr[k].outcome /\ v[k].refs = tr[k].refs /\ DOMAIN v[k] = Fields
    BY <2>1, <2>2 DEF Fields
  <2>4. \/ u[k] = v[k]
        \/ u[k] = [v[k] EXCEPT !.count = Len(v)]
    BY <1>1 DEF RecomputeEnd
  <2> HIDE DEF u, v
  <2> QED
    BY <2>3, <2>4 DEF Fields
<1> HIDE DEF u, v
<1>3. ASSUME NEW k \in DOMAIN u
      PROVE  \E j \in DOMAIN tr : \E q \in Positions :
                 /\ u[k].id = <<s, q>> /\ tr[j].id = <<s, q>>
                 /\ Alike(u[k], tr[j], SoftAt(q, {10}))
                 /\ 10 # 6 => Codes(u[k]) = Codes(tr[j])
  <2>1. PICK q \in Positions : tr[k].id = <<s, q>>
    BY <1>1 DEF IdsFit, Positions
  <2>2. Alike(u[k], tr[k], SoftAt(q, {10})) /\ Codes(u[k]) = Codes(tr[k])
    BY <1>1, <1>2 DEF Alike, Links, Codes
  <2> QED
    BY <1>1, <1>2, <2>1, <2>2
<1>4. ASSUME NEW q \in Positions, ~ Lacks(tr, s, q) PROVE ~ Lacks(u, s, q)
  BY <1>1, <1>2, <1>4 DEF Lacks
<1>5. Alters(u, tr, 10, s)
  BY <1>3, <1>4 DEF Alters
<1> QED
  BY <1>5 DEF u, v

(* f is the event e with each of its references replaced.                  *)
Replaced(f, e, g) ==
    /\ f.refs = {g[r] : r \in e.refs}
    /\ \A r \in e.refs : g[r].qual = r.qual /\ g[r].obj.kind = r.obj.kind

(* References replaced by references to the same objects of a kind give    *)
(* the same links of that kind.                                            *)
LEMMA LinksSame ==
    ASSUME NEW e, NEW f, NEW g, Replaced(f, e, g), NEW kind,
           \A r \in e.refs : r.obj.kind = kind => g[r].obj = r.obj
    PROVE  Links(f, kind) = Links(e, kind)
<1>1. Links(f, kind) \subseteq Links(e, kind)
  <2> SUFFICES ASSUME NEW x \in Links(f, kind) PROVE x \in Links(e, kind)
    OBVIOUS
  <2>1. PICK y \in f.refs : y.obj.kind = kind /\ x = <<y.qual, y.obj>>
    BY DEF Links
  <2>2. PICK r \in e.refs : y = g[r]
    BY DEF Replaced
  <2>3. r.obj.kind = kind /\ x = <<r.qual, r.obj>>
    BY <2>1, <2>2 DEF Replaced
  <2> QED
    BY <2>3 DEF Links
<1>2. Links(e, kind) \subseteq Links(f, kind)
  <2> SUFFICES ASSUME NEW x \in Links(e, kind) PROVE x \in Links(f, kind)
    OBVIOUS
  <2>1. PICK r \in e.refs : r.obj.kind = kind /\ x = <<r.qual, r.obj>>
    BY DEF Links
  <2>2. g[r] \in f.refs /\ g[r].obj.kind = kind /\ x = <<g[r].qual, g[r].obj>>
    BY <2>1 DEF Replaced
  <2> QED
    BY <2>2 DEF Links
<1> QED
  BY <1>1, <1>2

Moved(e, g, kind, new) == \A r \in e.refs : r.obj.kind = kind => g[r].obj = new
Only(e, kind, q, o)    == Links(e, kind) = {<<q, o>>}

(* Repointing the only reference of a kind gives the only link to the new  *)
(* object.                                                                 *)
LEMMA LinksMoved ==
    ASSUME NEW e, NEW f, NEW g, Replaced(f, e, g), NEW kind, NEW new, Moved(e, g, kind, new),
           NEW q, NEW old, Only(e, kind, q, old)
    PROVE  Only(f, kind, q, new)
<1> USE DEF Moved, Only
<1>1. \A r \in e.refs : r.obj.kind = kind => r.qual = q
  <2> SUFFICES ASSUME NEW r \in e.refs, r.obj.kind = kind PROVE r.qual = q
    OBVIOUS
  <2>1. <<r.qual, r.obj>> \in Links(e, kind)
    BY DEF Links
  <2> QED
    BY <2>1
<1>2. ASSUME NEW x \in Links(f, kind) PROVE x = <<q, new>>
  <2>1. PICK y \in f.refs : y.obj.kind = kind /\ x = <<y.qual, y.obj>>
    BY DEF Links
  <2>2. PICK r \in e.refs : y = g[r]
    BY DEF Replaced
  <2> QED
    BY <1>1, <2>1, <2>2 DEF Replaced
<1>3. <<q, new>> \in Links(f, kind)
  <2>1. PICK r \in e.refs : r.obj.kind = kind
    BY DEF Links
  <2>2. g[r] \in f.refs /\ g[r].obj.kind = kind /\ g[r].qual = q /\ g[r].obj = new
    BY <1>1, <2>1 DEF Replaced
  <2> QED
    BY <2>2 DEF Links
<1> QED
  BY <1>2, <1>3

(* A replacement that leaves the declarations of decisions alone leaves    *)
(* their facts alone.                                                      *)
LEMMA CodesSame ==
    ASSUME NEW e, NEW f, NEW g, f.refs = {g[r] : r \in e.refs},
           \A r \in e.refs : /\ g[r].declares = r.declares /\ g[r].obj.kind = r.obj.kind
                             /\ r.declares /\ r.obj.kind = "CreditDecision" => g[r].facts = r.facts
    PROVE  Codes(f) = Codes(e)
<1>1. \A x : x \in Codes(f) => x \in Codes(e)
  <2> SUFFICES ASSUME NEW x \in Codes(f) PROVE x \in Codes(e)
    OBVIOUS
  <2>1. PICK y \in f.refs : y.declares /\ y.obj.kind = "CreditDecision" /\ x \in y.facts
    BY DEF Codes
  <2>2. PICK r \in e.refs : y = g[r]
    OBVIOUS
  <2> QED
    BY <2>1, <2>2 DEF Codes
<1>2. \A x : x \in Codes(e) => x \in Codes(f)
  <2> SUFFICES ASSUME NEW x \in Codes(e) PROVE x \in Codes(f)
    OBVIOUS
  <2>1. PICK r \in e.refs : r.declares /\ r.obj.kind = "CreditDecision" /\ x \in r.facts
    BY DEF Codes
  <2>2. g[r] \in f.refs /\ g[r].declares /\ g[r].obj.kind = "CreditDecision" /\ x \in g[r].facts
    BY <2>1
  <2> QED
    BY <2>2 DEF Codes
<1> QED
  BY <1>1, <1>2

(* f is the event e without some of its references, all to one kind of     *)
(* object and none of them a declaration of a decision.                    *)
LEMMA LinksStripped ==
    ASSUME NEW e, NEW f, f.refs \subseteq e.refs, NEW kind,
           \A r \in e.refs : r.obj.kind = kind => r \in f.refs
    PROVE  Links(f, kind) = Links(e, kind)
  BY DEF Links

(* Dropping references that declare nothing leaves the facts alone.        *)
LEMMA CodesStripped ==
    ASSUME NEW e, NEW f, f.refs \subseteq e.refs,
           \A r \in e.refs : r.declares => r \in f.refs
    PROVE  Codes(f) = Codes(e)
  BY DEF Codes

(* Where no fault done so far reaches, a span says what the fleet wrote.   *)
LEMMA LinksKept ==
    ASSUME NEW tr, NEW t, NEW s, NEW done, Keeps(tr, t, s, done), NEW p \in Positions,
           NEW k \in DOMAIN tr, tr[k].id = <<s, p>>,
           NEW kind \in LinkKinds, \A c \in done : <<p, kind>> \notin SpotsOf(c)
    PROVE  Links(tr[k], kind) = Links(t[p], kind)
<1>1. kind \notin SoftAt(p, done)
  BY DEF SoftAt
<1> QED
  BY <1>1 DEF Keeps, Alike

-----------------------------------------------------------------------------
(* What is known of the session at hand when a fault takes its turn.       *)
LEMMA TellTurn ==
    ASSUME TellOK, LogOK, InjectOK, DrawOK, NEW c, Turn(c)
    PROVE  /\ MarksOn(at) = applied /\ applied \subseteq FaultClasses
           /\ c \in FaultClasses /\ \A b \in applied : b < c /\ Apart(b, c)
           /\ Tells(Current, Base(at), at, applied, labels, DonorsFor(at))
<1>1. /\ at \in Sessions /\ c \in FaultClasses /\ \A b \in applied : b \in FaultClasses /\ b < c
      /\ c \in T1Classes => applied = {}
  BY AtTurn
<1>2. phase = "inject"
  BY DEF Turn
<1>3. ~ WrittenAlready(at)
  BY <1>1, <1>2, InstanceFacts DEF WrittenAlready, Sessions, DrawOK
<1>4. MarksOn(at) = applied
  BY <1>2, <1>3 DEF MarksOn, DoneTo
<1>5. \A b \in applied : Apart(b, c)
  BY <1>1 DEF Apart, FaultClasses, T1Classes
<1> QED
  BY <1>1, <1>4, <1>5 DEF TellOK, Current

(* Where an event of the current trace stands in the script.               *)
LEMMA PlaceIs ==
    ASSUME InjectOK, DrawOK, phase = "inject", NEW k \in DOMAIN Current
    PROVE  /\ Current[k].seq \in Positions /\ Current[k].id = <<at, Current[k].seq>>
           /\ TypeFits(Current[k].type, Current[k].seq)
<1>1. /\ at \in Sessions /\ Survives(Current, Base(at), applied)
  BY DEF InjectOK, Current
<1>2. applicant[at] \in Applicants
  BY <1>1, ApplyingAssumption DEF DrawOK
<1> QED
  BY <1>1, <1>2, SurvivorIs DEF Base, Positions

(* The decision span is found at its place in the script whatever was      *)
(* deleted before it.                                                      *)
LEMMA DecisionPlace ==
    ASSUME InjectOK, DrawOK, NEW c, Turn(c)
    PROVE  /\ DecisionSpan \in DOMAIN Current /\ Current[DecisionSpan].id = Decided(at)
           /\ Ids(Current, {DecisionSpan}) = {Decided(at)}
<1>1. DecisionSpan \in DOMAIN Current /\ Current[DecisionSpan].type = "make_decision"
  BY TurnOf
<1>2. phase = "inject"
  BY DEF Turn
<1>3. Current[DecisionSpan].seq = 2 * Retrievals + 17 /\ Current[DecisionSpan].id = <<at, Current[DecisionSpan].seq>>
  BY <1>1, <1>2, PlaceIs DEF TypeFits
<1> QED
  BY <1>1, <1>3 DEF Decided, Ids

(* A fault, its label and what the two say of each other.                  *)
FaultTold(c, l) ==
    /\ Turn(c) /\ l.session = at /\ l.class = c
    /\ labels' = labels \cup {l}
    /\ applied' = applied \cup {c}
    /\ UNCHANGED <<given, phase, plan, settled, d1, at>>
    /\ rows' = [rows EXCEPT ![at] = rows'[at]]
    /\ Alters(rows'[at], Current, c, at)
    /\ Marked(c, l, rows'[at], at, DonorsFor(at))

(* FaultTold from its parts: the new trace, the mark and the label.        *)
LEMMA ToldIs ==
    ASSUME InjectOK, DrawOK, NEW c, Turn(c), NEW u, NEW constraint, NEW events, NEW objects,
           Apply(c, u, constraint, events, objects), Alters(u, Current, c, at), NEW l,
           l = Label(c, constraint, events, objects), Marked(c, l, u, at, DonorsFor(at))
    PROVE  \E x \in labels' : FaultTold(c, x)
<1>1. rows' = [rows EXCEPT ![at] = u]
  BY DEF Apply
<1>2. rows'[at] = u
  BY <1>1, RowIs
<1>3. l.session = at /\ l.class = c /\ labels' = labels \cup {l}
  BY DEF Label, Apply
<1>4. FaultTold(c, l)
  BY <1>1, <1>2, <1>3 DEF FaultTold, Apply
<1> QED
  BY <1>3, <1>4

(* A new label cites what it is given.                                     *)
LEMMA LabelCites ==
    ASSUME NEW c, NEW constraint, NEW events, NEW objects
    PROVE  Cites(Label(c, constraint, events, objects), constraint, events, objects)
  BY DEF Cites, Label

(* V1: the verdict is gone and the label cites the decision alone.         *)
LEMMA V1Told == ASSUME TellOK, LogOK, InjectOK, DrawOK, FaultV1 PROVE \E l \in labels' : FaultTold(1, l)
<1> DEFINE approvals == {r \in UNION {Current[k].refs : k \in ApprovalSpans} : r.obj.kind = "Approval"}
           named     == {r \in Current[DecisionSpan].refs : r.obj \in {x.obj : x \in approvals}}
           refs      == Current[DecisionSpan].refs \ named
           stripped  == [Current EXCEPT ![DecisionSpan].refs = refs]
           u         == Without(stripped, ApprovalSpans)
           l         == Label(1, "T1", Ids(Current, {DecisionSpan}), {DecisionOf(at)})
<1>1. Turn(1) /\ Apply(1, u, "T1", Ids(Current, {DecisionSpan}), {DecisionOf(at)})
  BY DEF FaultV1, Strip
<1>2. /\ TraceFits(Current, at) /\ IdsFit(Current, at)
      /\ \A k \in DOMAIN Current : DOMAIN Current[k] = Fields
      /\ DecisionSpan \in DOMAIN Current /\ Current[DecisionSpan].type = "make_decision"
  BY <1>1, TurnFits DEF TraceFits
<1>3. PICK m \in Nat : DOMAIN Current = 1 .. m
  BY <1>1, TurnOf
<1>4. Current[DecisionSpan].id = Decided(at) /\ Ids(Current, {DecisionSpan}) = {Decided(at)}
  BY <1>1, DecisionPlace
<1>5. phase = "inject" /\ \A r \in named : r.obj.kind = "Approval"
  BY <1>1 DEF Turn
<1>6. ASSUME NEW r \in Current[DecisionSpan].refs, r.obj.kind # "Approval" PROVE r \in refs
  BY <1>5, <1>6
<1>7. refs \subseteq Current[DecisionSpan].refs
  OBVIOUS
<1>8. ASSUME NEW r \in Current[DecisionSpan].refs, r.declares PROVE r \in refs
  <2>1. RefFits(r, "make_decision")
    BY <1>2, FitsParts
  <2>2. r.obj.kind # "Approval"
    BY <1>8, <2>1, KindsAre DEF RefFits
  <2> QED
    BY <1>6, <2>2
<1> HIDE DEF approvals, named, refs
<1>9. Edited(stripped, Current, DecisionSpan) /\ stripped[DecisionSpan].refs = refs
  BY <1>2, RefsEdited
<1> HIDE DEF stripped
<1>10. Alters(stripped, Current, 1, at)
  <2>1. \A kind \in LinkKinds : Links(stripped[DecisionSpan], kind) = Links(Current[DecisionSpan], kind)
    <3> TAKE kind \in LinkKinds
    <3>1. kind # "Approval"
      BY DEF LinkKinds
    <3> QED
      BY <1>6, <1>7, <1>9, <3>1, LinksStripped
  <2>2. Codes(stripped[DecisionSpan]) = Codes(Current[DecisionSpan])
    BY <1>7, <1>8, <1>9, CodesStripped
  <2>3. 2 * Retrievals + 17 \in Positions /\ Current[DecisionSpan].id = <<at, 2 * Retrievals + 17>>
    BY <1>4, RetrievalFacts DEF Positions, Decided
  <2>4. StaysOff(stripped, Current, DecisionSpan, 2 * Retrievals + 17, 1)
    BY <2>1, <2>2 DEF StaysOff
  <2> QED
    BY <1>2, <1>9, <2>3, <2>4, EditAlters
<1>11. \A k \in DOMAIN stripped : stripped[k].id = Current[k].id /\ stripped[k].type = Current[k].type
  BY <1>9 DEF Edited
<1>12. IdsFit(stripped, at) /\ DOMAIN stripped = 1 .. m
  BY <1>2, <1>3, <1>9, <1>11 DEF IdsFit, Edited
<1>13. \A k \in DOMAIN stripped : k \in ApprovalSpans <=> Current[k].type \in {"request_approval"} \cup VerdictTypes
  BY <1>9 DEF ApprovalSpans, SpansOf, Edited
<1>14. ApprovalSpans \subseteq DOMAIN stripped
  BY <1>9 DEF ApprovalSpans, SpansOf, Edited
<1>15. Alters(u, stripped, 1, at)
  <2>1. \A k \in ApprovalSpans : \E p \in GoneOf(1) : stripped[k].id = <<at, p>>
    <3> TAKE k \in ApprovalSpans
    <3>1. k \in DOMAIN Current /\ k \in DOMAIN stripped
      BY <1>9, <1>14 DEF Edited
    <3>2. Current[k].id = <<at, Current[k].seq>> /\ TypeFits(Current[k].type, Current[k].seq)
      BY <1>5, <3>1, PlaceIs
    <3>3. Current[k].seq \in {2 * Retrievals + 15, 2 * Retrievals + 16}
      BY <1>13, <3>1, <3>2 DEF TypeFits
    <3> QED
      BY <1>11, <3>1, <3>2, <3>3 DEF GoneOf
  <2> QED
    BY <1>12, <2>1, WithoutAlters
<1>16. Lacks(u, at, 2 * Retrievals + 16)
  <2>1. \A k \in DOMAIN stripped : stripped[k].id = <<at, 2 * Retrievals + 16>> => k \in ApprovalSpans
    <3> SUFFICES ASSUME NEW k \in DOMAIN stripped, stripped[k].id = <<at, 2 * Retrievals + 16>>
                 PROVE  k \in ApprovalSpans
      OBVIOUS
    <3>1. k \in DOMAIN Current
      BY <1>9 DEF Edited
    <3>2. Current[k].id = <<at, Current[k].seq>> /\ TypeFits(Current[k].type, Current[k].seq)
      BY <1>5, <3>1, PlaceIs
    <3>3. Current[k].seq = 2 * Retrievals + 16
      BY <1>11, <3>2
    <3>4. Current[k].type \in VerdictTypes
      BY <3>2, <3>3 DEF TypeFits
    <3> QED
      BY <1>13, <3>4
  <2> QED
    BY <1>12, <2>1, WithoutLacks
<1> HIDE DEF u
<1>17. Alters(u, Current, 1, at)
  BY <1>10, <1>15, AltersTwice
<1>18. Marked(1, l, u, at, DonorsFor(at))
  BY <1>4, <1>16, LabelCites DEF Marked, MarkOfV1
<1> HIDE DEF l
<1>19. l = Label(1, "T1", Ids(Current, {DecisionSpan}), {DecisionOf(at)})
  BY DEF l
<1> QED
  BY <1>1, <1>17, <1>18, <1>19, ToldIs

(* V2: the approval endorses the donor's decision and the label cites both *)
(* events and both decisions.                                              *)
LEMMA V2Told == ASSUME TellOK, LogOK, InjectOK, DrawOK, FaultV2 PROVE \E l \in labels' : FaultTold(2, l)
<1> DEFINE n == Retrievals
           approval == SpanOf(Current, "grant_approval")
           repoint(r, donor) == IF r.qual = "approves" THEN [r EXCEPT !.obj = donor] ELSE r
           refs(donor) == {repoint(r, donor) : r \in Current[approval].refs}
           u(donor) == [Current EXCEPT ![approval].refs = refs(donor)]
<1>1. PICK donor \in DonorsFor(at) :
          /\ Turn(2) /\ Ready(2)
          /\ Apply(2, u(donor), "T1", Ids(Current, {approval, DecisionSpan}), {DecisionOf(at), donor})
  BY DEF FaultV2, Rewrite
<1> DEFINE e == Current[approval]
           all == refs(donor)
           v == [Current EXCEPT ![approval].refs = all]
           g == [r \in e.refs |-> repoint(r, donor)]
           l == Label(2, "T1", Ids(Current, {approval, DecisionSpan}), {DecisionOf(at), donor})
<1>2. /\ TraceFits(Current, at) /\ IdsFit(Current, at) /\ \A k \in DOMAIN Current : DOMAIN Current[k] = Fields
      /\ Survives(Current, Base(at), applied) /\ Len(Base(at)) \in Nat /\ applicant[at] \in Applicants
  BY <1>1, TurnFits DEF TraceFits
<1>3. approval \in DOMAIN Current /\ e.type = "grant_approval"
  BY <1>1, <1>2, SpanIs DEF Ready, Finds, DonorAtHand
<1>4. applied = {} /\ Current = Base(at) /\ applicant[at].granted /\ phase = "inject"
  <2>1. 2 \in T1Classes
    BY DEF T1Classes
  <2>2. applied = {} /\ Current = Base(at) /\ Eligible(2, at)
    BY <1>1, <2>1, AtTurn
  <2> QED
    BY <1>1, <2>2 DEF Eligible, HasGrantApproval, Turn
<1> HIDE DEF approval
<1>5. e.seq = 2 * n + 16 /\ e.id = Granted(at) /\ approval = 2 * n + 16
  <2>1. e.id = <<at, e.seq>> /\ TypeFits(e.type, e.seq)
    BY <1>3, <1>4, PlaceIs
  <2>2. e.seq = 2 * n + 16
    BY <1>3, <2>1 DEF TypeFits, VerdictTypes
  <2>3. approval = e.seq
    BY <1>2, <1>3, <1>4, BaseEvents DEF Base
  <2> QED
    BY <2>1, <2>2, <2>3 DEF Granted
<1>6. Links(e, "CreditDecision") = {<<"approves", DecisionOf(at)>>}
  <2>1. BaseLinksAre(Base(at), at, applicant[at])
    BY <1>2, BaseLinks DEF Base
  <2> QED
    BY <1>4, <1>5, <2>1 DEF BaseLinksAre
<1>7. Ids(Current, {approval, DecisionSpan}) = {Granted(at), Decided(at)}
  <2>1. Current[DecisionSpan].id = Decided(at)
    BY <1>1, DecisionPlace
  <2> QED
    BY <1>5, <2>1 DEF Ids
<1>8. donor.kind = "CreditDecision"
  BY DecisionIs DEF DonorsFor, Donors
<1>9. ASSUME NEW r \in e.refs
      PROVE  /\ g[r].qual = r.qual /\ g[r].obj.kind = r.obj.kind /\ g[r].declares = r.declares
             /\ g[r].facts = r.facts
             /\ r.obj.kind = "CreditDecision" => g[r].obj = donor
             /\ r.obj.kind # "CreditDecision" => g[r].obj = r.obj
  <2>1. RefFits(r, "grant_approval")
    BY <1>2, <1>3, FitsParts
  <2>2. r.obj.kind = "CreditDecision" => r.qual = "approves"
    <3> SUFFICES ASSUME r.obj.kind = "CreditDecision" PROVE r.qual = "approves"
      OBVIOUS
    <3>1. <<r.qual, r.obj>> \in Links(e, "CreditDecision")
      BY DEF Links
    <3> QED
      BY <1>6, <3>1
  <2>3. r.qual = "approves" => r.obj.kind = "CreditDecision"
    BY <2>1 DEF RefFits, NamedFits
  <2>4. CASE r.qual = "approves"
    <3> DEFINE x == [r EXCEPT !.obj = donor]
    <3>1. x.obj = donor /\ x.qual = r.qual /\ x.declares = r.declares /\ x.facts = r.facts
      BY <2>1 DEF RefFits
    <3>2. g[r] = x
      BY <2>4
    <3> HIDE DEF x, g
    <3> QED
      BY <1>8, <2>3, <2>4, <3>1, <3>2
  <2>5. CASE r.qual # "approves"
    <3>1. g[r] = r
      BY <2>5
    <3> HIDE DEF g
    <3> QED
      BY <2>2, <2>5, <3>1
  <2> QED
    BY <2>4, <2>5
<1> HIDE DEF repoint
<1>10. all = {g[r] : r \in e.refs} /\ v = u(donor)
  OBVIOUS
<1> HIDE DEF all, g, u, refs
<1>11. Edited(v, Current, approval) /\ v[approval].refs = all
  BY <1>2, <1>3, RefsEdited
<1> HIDE DEF v
<1>12. Replaced(v[approval], e, g)
  BY <1>9, <1>10, <1>11 DEF Replaced
<1>13. Links(v[approval], "CreditDecision") = {<<"approves", donor>>}
  <2>1. Moved(e, g, "CreditDecision", donor) /\ Only(e, "CreditDecision", "approves", DecisionOf(at))
    BY <1>6, <1>9 DEF Moved, Only
  <2>2. Only(v[approval], "CreditDecision", "approves", donor)
    BY <1>12, <2>1, LinksMoved
  <2> QED
    BY <2>2 DEF Only
<1>14. Codes(v[approval]) = Codes(e)
  BY <1>9, <1>10, <1>11, CodesSame
<1>15. \A kind \in LinkKinds : kind # "CreditDecision" => Links(v[approval], kind) = Links(e, kind)
  BY <1>9, <1>12, LinksSame
<1>16. 2 * n + 16 \in Positions /\ e.id = <<at, 2 * n + 16>>
  BY <1>5, RetrievalFacts DEF Positions, Granted
<1>17. Alters(v, Current, 2, at)
  <2>1. StaysOff(v, Current, approval, 2 * n + 16, 2)
    BY <1>14, <1>15 DEF StaysOff, SpotsOf
  <2> QED
    BY <1>2, <1>3, <1>11, <1>16, <2>1, EditAlters
<1>18. Shows(v, at, 2 * n + 16, "CreditDecision", {<<"approves", donor>>})
  <2> SUFFICES ASSUME NEW k \in DOMAIN v, v[k].id = <<at, 2 * n + 16>>
               PROVE  Links(v[k], "CreditDecision") = {<<"approves", donor>>}
    BY DEF Shows
  <2>1. k \in DOMAIN Current /\ v[k].id = Current[k].id
    BY <1>11 DEF Edited
  <2>2. k = approval
    BY <1>2, <1>3, <1>16, <2>1 DEF IdsFit
  <2> QED
    BY <1>13, <2>2
<1>19. Marked(2, l, v, at, DonorsFor(at))
  <2>1. Cites(l, "T1", {Granted(at), Decided(at)}, {DecisionOf(at), donor})
    BY <1>7, LabelCites
  <2> HIDE DEF l
  <2>2. MarkOfV2(l, v, at, DonorsFor(at))
    BY <1>18, <2>1 DEF MarkOfV2
  <2> QED
    BY <2>2 DEF Marked
<1> HIDE DEF l
<1>20. l = Label(2, "T1", Ids(Current, {approval, DecisionSpan}), {DecisionOf(at), donor})
  BY DEF l
<1>21. Apply(2, v, "T1", Ids(Current, {approval, DecisionSpan}), {DecisionOf(at), donor})
  BY <1>1, <1>10
<1> QED
  BY <1>1, <1>17, <1>19, <1>20, <1>21, ToldIs

(* V4: the retrieval of a required source is gone and the label cites the  *)
(* decision.                                                               *)
LEMMA V4Told == ASSUME TellOK, LogOK, InjectOK, DrawOK, FaultV4 PROVE \E l \in labels' : FaultTold(4, l)
<1> DEFINE n == Retrievals
           retrieval(source) == Max(RetrievalsOf(source))
           gone(source, mode) ==
               {retrieval(source)} \cup
               (IF mode = "leaf" THEN {} ELSE {AtSeq(Current, Current[retrieval(source)].seq - 1)})
<1>1. PICK source \in SourcesRead \ {Demographics}, mode \in {"leaf", "tool_call"} :
          /\ Turn(4) /\ Ready(4)
          /\ Apply(4, Without(Current, gone(source, mode)), "T2", Ids(Current, {DecisionSpan}), {})
  BY DEF FaultV4
<1> DEFINE i0      == Max(RetrievalsOf(source))
           call    == AtSeq(Current, Current[i0].seq - 1)
           removed == {i0} \cup (IF mode = "leaf" THEN {} ELSE {call})
           u       == Without(Current, removed)
           t       == BaseTrace(at, applicant[at])
           l       == Label(4, "T2", Ids(Current, {DecisionSpan}), {})
<1>2. removed = gone(source, mode)
  OBVIOUS
<1>3. /\ TraceFits(Current, at) /\ IdsFit(Current, at) /\ applicant[at] \in Applicants
      /\ Survives(Current, t, applied) /\ phase = "inject"
  BY <1>1, TurnFits DEF TraceFits, Turn, Base
<1>4. PICK m \in Nat : DOMAIN Current = 1 .. m
  BY <1>1, TurnOf
<1>5. i0 \in RetrievalsOf(source)
  <2>1. RetrievalsOf(source) # {}
    BY DEF RetrievalsOf, SourcesRead
  <2>2. RetrievalsOf(source) \in SUBSET (1 .. m)
    BY <1>4 DEF RetrievalsOf, SpansOf
  <2> QED
    BY <2>1, <2>2, GreatestOf
<1>6. i0 \in DOMAIN Current /\ Current[i0].type = "retrieve_data"
  BY <1>5 DEF RetrievalsOf, SpansOf
<1>7. IsAt(Current[i0].seq - 1, "call_tool")
  BY <1>1, <1>5 DEF Ready, Finds, SourceAtHand
<1> HIDE DEF i0, t, gone
<1>8. PICK i \in 1 .. n : Current[i0].seq = 2 * i + 6 /\ ReadBy(i0) = {Resource(RetrievalOrder[i])}
  <2>1. \A b \in applied : b \in FaultClasses /\ b < 4
    BY <1>1, AtTurn
  <2>2. "retrieve_data" \notin Touched(applied)
    BY <2>1, TouchedBefore DEF FaultClasses
  <2> QED
    BY <1>3, <1>6, <2>2, RetrievalsStand DEF t
<1>9. RetrievalOrder[i] # Demographics
  <2>1. \E o \in ReadBy(i0) : o.id = source
    BY <1>5 DEF RetrievalsOf
  <2>2. Resource(RetrievalOrder[i]).id = RetrievalOrder[i]
    BY Owned
  <2> QED
    BY <1>8, <2>1, <2>2
<1>10. call \in DOMAIN Current /\ Current[call].seq = Current[i0].seq - 1
  BY <1>7 DEF IsAt, AtSeq
<1> HIDE DEF call
<1>11. Current[i0].id = <<at, 2 * i + 6>> /\ Current[call].id = <<at, 2 * i + 5>>
  <2>1. Current[i0].id = <<at, Current[i0].seq>> /\ Current[call].id = <<at, Current[call].seq>>
    BY <1>3, <1>6, <1>10, PlaceIs
  <2>2. 2 * i + 6 - 1 = 2 * i + 5
    BY RetrievalFacts
  <2> QED
    BY <1>8, <1>10, <2>1, <2>2
<1>12. Alters(u, Current, 4, at)
  <2>1. 2 * i + 5 \in GoneOf(4) /\ 2 * i + 6 \in GoneOf(4)
    BY <1>9 DEF GoneOf
  <2>2. \A k \in removed : \E p \in GoneOf(4) : Current[k].id = <<at, p>>
    BY <1>11, <2>1
  <2> HIDE DEF removed
  <2> QED
    BY <1>3, <1>4, <2>2, WithoutAlters
<1>13. Lacks(u, at, 2 * i + 6)
  <2>1. \A k \in DOMAIN Current : Current[k].id = <<at, 2 * i + 6>> => k \in removed
    BY <1>3, <1>6, <1>11 DEF IdsFit
  <2> HIDE DEF removed
  <2> QED
    BY <1>4, <2>1, WithoutLacks
<1> HIDE DEF u
<1>14. Marked(4, l, u, at, DonorsFor(at))
  <2>1. Cites(l, "T2", {Decided(at)}, {})
    BY <1>1, DecisionPlace, LabelCites
  <2> HIDE DEF l
  <2>2. MarkOfV4(l, u, at)
    BY <1>9, <1>13, <2>1 DEF MarkOfV4
  <2> QED
    BY <2>2 DEF Marked
<1>15. Apply(4, u, "T2", Ids(Current, {DecisionSpan}), {})
  BY <1>1, <1>2 DEF u
<1>16. l = Label(4, "T2", Ids(Current, {DecisionSpan}), {})
  OBVIOUS
<1> HIDE DEF l
<1> QED
  BY <1>1, <1>12, <1>14, <1>15, <1>16, ToldIs

(* V5: the demographics retrieval reads the session's own resource and the *)
(* label cites both.                                                       *)
LEMMA V5Told == ASSUME TellOK, LogOK, InjectOK, DrawOK, FaultV5 PROVE \E l \in labels' : FaultTold(5, l)
<1> DEFINE n         == Retrievals
           local     == Local(at)
           retrieval == Min(RetrievalsOf(Demographics))
           localise(r) == IF r.obj.kind = "DataResource"
                          THEN [r EXCEPT !.obj = local, !.facts = @ \ {"lawful_basis"}]
                          ELSE r
           e         == Current[retrieval]
           refs      == {localise(r) : r \in Current[retrieval].refs}
           g         == [r \in e.refs |-> localise(r)]
           u         == [Current EXCEPT ![retrieval].refs = refs]
           l         == Label(5, "T5", Ids(Current, {retrieval}), {local})
           t         == BaseTrace(at, applicant[at])
<1>1. Turn(5) /\ Ready(5) /\ Apply(5, u, "T5", Ids(Current, {retrieval}), {local})
  BY DEF FaultV5, Rewrite
<1>2. /\ TraceFits(Current, at) /\ IdsFit(Current, at) /\ at \in Sessions /\ applicant[at] \in Applicants
      /\ \A k \in DOMAIN Current : DOMAIN Current[k] = Fields
      /\ Survives(Current, t, applied) /\ Len(t) \in Nat /\ phase = "inject"
  BY <1>1, TurnFits DEF TraceFits, Turn, Base
<1>3. retrieval \in RetrievalsOf(Demographics)
  <2>1. RetrievalsOf(Demographics) # {}
    BY <1>1 DEF Ready, Finds, DemographicsAtHand
  <2>2. SpansOf(Current, {"retrieve_data"}) \in SUBSET Nat
    BY <1>2, TraceDomain
  <2>3. RetrievalsOf(Demographics) \in SUBSET Nat
    BY <2>2 DEF RetrievalsOf
  <2> QED
    BY <2>1, <2>3, SmallestOf
<1>4. retrieval \in DOMAIN Current /\ e.type = "retrieve_data"
  BY <1>3 DEF RetrievalsOf, SpansOf
<1>5. PICK p \in e.refs : p.qual = "reads" /\ p.obj.id = Demographics
  BY <1>3 DEF RetrievalsOf, ReadBy
<1> HIDE DEF retrieval, t
<1>6. PICK i \in 1 .. n : e.seq = 2 * i + 6
  <2>1. TypeFits(e.type, e.seq)
    BY <1>2, <1>4, PlaceIs
  <2> QED
    BY <1>4, <2>1 DEF TypeFits
<1>7. e.id = <<at, 2 * i + 6>> /\ 2 * i + 6 \in Positions
  BY <1>2, <1>4, <1>6, PlaceIs
<1>8. Links(e, "DataResource") = {<<"reads", Resource(RetrievalOrder[i])>>}
  <2>1. \A c \in applied : <<2 * i + 6, "DataResource">> \notin SpotsOf(c)
    <3>1. \A b \in applied : b \in FaultClasses /\ b < 5
      BY <1>1, AtTurn
    <3>2. \A b \in applied : b \in {1, 2, 3, 4}
      BY <3>1 DEF FaultClasses
    <3> QED
      BY <3>2 DEF SpotsOf
  <2>2. Keeps(Current, t, at, applied)
    BY <1>1, TellTurn DEF Tells, Base, t
  <2>3. Links(e, "DataResource") = Links(t[2 * i + 6], "DataResource")
    <3>1. "DataResource" \in LinkKinds
      BY DEF LinkKinds
    <3> QED
      BY <1>4, <1>7, <2>1, <2>2, <3>1, LinksKept
  <2>4. BaseLinksAre(t, at, applicant[at])
    BY <1>2, BaseLinks DEF t
  <2> QED
    BY <2>3, <2>4 DEF BaseLinksAre
<1>9. \A r \in e.refs : RefFits(r, "retrieve_data")
  BY <1>2, <1>4, FitsParts
<1>10. RetrievalOrder[i] = Demographics
  <2>1. p.obj.kind = "DataResource"
    BY <1>5, <1>9 DEF RefFits, NamedFits
  <2>2. <<p.qual, p.obj>> \in Links(e, "DataResource")
    BY <2>1 DEF Links
  <2>3. p.obj = Resource(RetrievalOrder[i])
    BY <1>8, <2>2
  <2> QED
    BY <1>5, <2>3, Owned
<1>11. local.kind = "DataResource" /\ local = Local(at)
  BY DEF Resource, Obj, Local
<1> HIDE DEF local
<1>12. ASSUME NEW r \in e.refs
       PROVE  /\ g[r].qual = r.qual /\ g[r].obj.kind = r.obj.kind /\ g[r].declares = r.declares
              /\ r.obj.kind = "DataResource" => g[r].obj = local
              /\ r.obj.kind # "DataResource" => g[r] = r
  <2>1. RefFits(r, "retrieve_data")
    BY <1>9
  <2>2. CASE r.obj.kind = "DataResource"
    <3> DEFINE x == [r EXCEPT !.obj = local, !.facts = @ \ {"lawful_basis"}]
    <3>1. x.obj = local /\ x.qual = r.qual /\ x.declares = r.declares
      BY <2>1 DEF RefFits
    <3>2. g[r] = x
      BY <2>2
    <3> HIDE DEF x, g
    <3> QED
      BY <1>11, <2>2, <3>1, <3>2
  <2>3. CASE r.obj.kind # "DataResource"
    BY <2>3
  <2> QED
    BY <2>2, <2>3
<1> HIDE DEF localise
<1>13. refs = {g[r] : r \in e.refs}
  OBVIOUS
<1> HIDE DEF refs, g
<1>14. Edited(u, Current, retrieval) /\ u[retrieval].refs = refs
  BY <1>2, <1>4, RefsEdited
<1> HIDE DEF u
<1>15. Replaced(u[retrieval], e, g)
  BY <1>12, <1>13, <1>14 DEF Replaced
<1>16. Links(u[retrieval], "DataResource") = {<<"reads", local>>}
  <2>1. Moved(e, g, "DataResource", local) /\ Only(e, "DataResource", "reads", Resource(RetrievalOrder[i]))
    BY <1>8, <1>12 DEF Moved, Only
  <2>2. Only(u[retrieval], "DataResource", "reads", local)
    BY <1>15, <2>1, LinksMoved
  <2> QED
    BY <2>2 DEF Only
<1>17. Codes(u[retrieval]) = Codes(e)
  BY <1>12, <1>13, <1>14, CodesSame
<1>18. \A kind \in LinkKinds : kind # "DataResource" => Links(u[retrieval], kind) = Links(e, kind)
  BY <1>12, <1>15, LinksSame
<1>19. Alters(u, Current, 5, at)
  <2>1. <<2 * i + 6, "DataResource">> \in SpotsOf(5)
    BY <1>10 DEF SpotsOf
  <2>2. StaysOff(u, Current, retrieval, 2 * i + 6, 5)
    BY <1>17, <1>18, <2>1 DEF StaysOff
  <2> QED
    BY <1>2, <1>4, <1>7, <1>14, <2>2, EditAlters
<1>20. Shows(u, at, 2 * i + 6, "DataResource", {<<"reads", Local(at)>>})
  <2> SUFFICES ASSUME NEW k \in DOMAIN u, u[k].id = <<at, 2 * i + 6>>
               PROVE  Links(u[k], "DataResource") = {<<"reads", Local(at)>>}
    BY DEF Shows
  <2>1. k \in DOMAIN Current /\ u[k].id = Current[k].id
    BY <1>14 DEF Edited
  <2>2. k = retrieval
    BY <1>2, <1>4, <1>7, <2>1 DEF IdsFit
  <2> QED
    BY <1>11, <1>16, <2>2
<1>21. Marked(5, l, u, at, DonorsFor(at))
  <2>1. Ids(Current, {retrieval}) = {<<at, 2 * i + 6>>}
    BY <1>7 DEF Ids
  <2>2. Cites(l, "T5", {<<at, 2 * i + 6>>}, {Local(at)})
    BY <1>11, <2>1, LabelCites
  <2> HIDE DEF l
  <2>3. MarkOfV5(l, u, at)
    BY <1>10, <1>20, <2>2 DEF MarkOfV5
  <2> QED
    BY <2>3 DEF Marked
<1>22. l = Label(5, "T5", Ids(Current, {retrieval}), {local})
  OBVIOUS
<1> HIDE DEF l
<1> QED
  BY <1>1, <1>19, <1>21, <1>22, ToldIs

(* V6: the decision has lost its reason codes or its explanation, and the  *)
(* label cites it.                                                         *)
LEMMA V6Told == ASSUME TellOK, LogOK, InjectOK, DrawOK, FaultV6 PROVE \E l \in labels' : FaultTold(6, l)
<1> DEFINE n == Retrievals
           blank(r)  == IF r.obj.kind = "CreditDecision" /\ r.declares
                        THEN [r EXCEPT !.facts = @ \ {"reason_codes"}] ELSE r
           explainer == Min(Explainers)
           edge      == {r \in Current[explainer].refs : r.qual = "explains" /\ r.obj = DecisionOf(at)}
           refs1     == {blank(r) : r \in Current[DecisionSpan].refs}
           refs2     == Current[explainer].refs \ edge
           u1        == [Current EXCEPT ![DecisionSpan].refs = refs1]
           u2        == [Current EXCEPT ![explainer].refs = refs2]
           g         == [r \in Current[DecisionSpan].refs |-> blank(r)]
           l         == Label(6, "T4", Ids(Current, {DecisionSpan}), {DecisionOf(at)})
           t         == BaseTrace(at, applicant[at])
<1>1. PICK u \in {u1, u2} : /\ Turn(6) /\ Ready(6)
                            /\ Apply(6, u, "T4", Ids(Current, {DecisionSpan}), {DecisionOf(at)})
  BY DEF FaultV6, Rewrite, Strip
<1>2. /\ TraceFits(Current, at) /\ IdsFit(Current, at) /\ at \in Sessions /\ applicant[at] \in Applicants
      /\ \A k \in DOMAIN Current : DOMAIN Current[k] = Fields
      /\ Survives(Current, t, applied) /\ Len(t) \in Nat /\ phase = "inject"
      /\ DecisionSpan \in DOMAIN Current /\ Current[DecisionSpan].type = "make_decision"
  BY <1>1, TurnFits DEF TraceFits, Turn, Base
<1>3. Current[DecisionSpan].id = Decided(at) /\ Ids(Current, {DecisionSpan}) = {Decided(at)}
  BY <1>1, DecisionPlace
<1>4. Cites(l, "T4", {Decided(at)}, {DecisionOf(at)})
  BY <1>3, LabelCites
<1>5. l = Label(6, "T4", Ids(Current, {DecisionSpan}), {DecisionOf(at)})
  OBVIOUS
<1>6. ASSUME NEW k \in DOMAIN Current, Current[k].id = <<at, 2 * n + 18>>
      PROVE  Links(Current[k], "CreditDecision") = {<<"explains", DecisionOf(at)>>}
  <2>1. 2 * n + 18 \in Positions
    BY RetrievalFacts DEF Positions
  <2>2. \A c \in applied : <<2 * n + 18, "CreditDecision">> \notin SpotsOf(c)
    <3>1. \A b \in applied : b \in FaultClasses /\ b < 6
      BY <1>1, AtTurn
    <3>2. \A b \in applied : b \in {1, 2, 3, 4, 5}
      BY <3>1 DEF FaultClasses
    <3> QED
      BY <3>2, RetrievalFacts DEF SpotsOf
  <2>3. Keeps(Current, t, at, applied)
    BY <1>1, TellTurn DEF Tells, Base
  <2>4. "CreditDecision" \in LinkKinds
    BY DEF LinkKinds
  <2>5. Links(Current[k], "CreditDecision") = Links(t[2 * n + 18], "CreditDecision")
    BY <1>6, <2>1, <2>2, <2>3, <2>4, LinksKept
  <2>6. BaseLinksAre(t, at, applicant[at])
    BY <1>2, BaseLinks
  <2> QED
    BY <2>5, <2>6 DEF BaseLinksAre
<1> HIDE DEF l, t
<1>7. Alters(u1, Current, 6, at) /\ Marked(6, l, u1, at, DonorsFor(at))
  <2> DEFINE e == Current[DecisionSpan]
  <2>1. ASSUME NEW r \in e.refs
        PROVE  /\ g[r].qual = r.qual /\ g[r].obj = r.obj /\ g[r].declares = r.declares
               /\ r.declares /\ r.obj.kind = "CreditDecision" => "reason_codes" \notin g[r].facts
    <3>1. RefFits(r, "make_decision")
      BY <1>2, FitsParts
    <3>2. CASE r.obj.kind = "CreditDecision" /\ r.declares
      <4> DEFINE x == [r EXCEPT !.facts = @ \ {"reason_codes"}]
      <4>1. x.obj = r.obj /\ x.qual = r.qual /\ x.declares = r.declares /\ "reason_codes" \notin x.facts
        BY <3>1 DEF RefFits
      <4>2. g[r] = x
        BY <3>2
      <4> HIDE DEF x, g
      <4> QED
        BY <4>1, <4>2
    <3>3. CASE ~ (r.obj.kind = "CreditDecision" /\ r.declares)
      BY <3>3
    <3> QED
      BY <3>2, <3>3
  <2> HIDE DEF blank
  <2>2. refs1 = {g[r] : r \in e.refs}
    OBVIOUS
  <2> HIDE DEF refs1, g
  <2>3. Edited(u1, Current, DecisionSpan) /\ u1[DecisionSpan].refs = refs1
    BY <1>2, RefsEdited
  <2> HIDE DEF u1
  <2>4. Replaced(u1[DecisionSpan], e, g)
    BY <2>1, <2>2, <2>3 DEF Replaced
  <2>5. \A kind \in LinkKinds : Links(u1[DecisionSpan], kind) = Links(e, kind)
    BY <2>1, <2>4, LinksSame
  <2>6. 2 * n + 17 \in Positions /\ e.id = <<at, 2 * n + 17>>
    BY <1>3, RetrievalFacts DEF Positions, Decided
  <2>7. Alters(u1, Current, 6, at)
    <3>1. StaysOff(u1, Current, DecisionSpan, 2 * n + 17, 6)
      BY <2>5 DEF StaysOff
    <3> QED
      BY <1>2, <2>3, <2>6, <3>1, EditAlters
  <2>8. "reason_codes" \notin Codes(u1[DecisionSpan])
    <3> SUFFICES ASSUME "reason_codes" \in Codes(u1[DecisionSpan]) PROVE FALSE
      OBVIOUS
    <3>1. PICK y \in u1[DecisionSpan].refs : y.declares /\ y.obj.kind = "CreditDecision" /\ "reason_codes" \in y.facts
      BY DEF Codes
    <3>2. PICK r \in e.refs : y = g[r]
      BY <2>2, <2>3
    <3> QED
      BY <2>1, <3>1, <3>2
  <2>9. Uncoded(u1, at)
    <3> SUFFICES ASSUME NEW k \in DOMAIN u1, u1[k].id = Decided(at) PROVE "reason_codes" \notin Codes(u1[k])
      BY DEF Uncoded
    <3>1. k \in DOMAIN Current /\ u1[k].id = Current[k].id
      BY <2>3 DEF Edited
    <3>2. k = DecisionSpan
      BY <1>2, <1>3, <3>1 DEF IdsFit
    <3> QED
      BY <2>8, <3>2
  <2>10. Shows(u1, at, 2 * n + 18, "CreditDecision", {<<"explains", DecisionOf(at)>>})
    <3> SUFFICES ASSUME NEW k \in DOMAIN u1, u1[k].id = <<at, 2 * n + 18>>
                 PROVE  Links(u1[k], "CreditDecision") = {<<"explains", DecisionOf(at)>>}
      BY DEF Shows
    <3>1. k \in DOMAIN Current /\ u1[k].id = Current[k].id /\ Current[k].id = <<at, 2 * n + 18>>
      BY <2>3 DEF Edited
    <3>2. k # DecisionSpan
      BY <2>6, <3>1, RetrievalFacts
    <3>3. u1[k] = Current[k]
      BY <2>3, <3>1, <3>2 DEF Edited
    <3> QED
      BY <1>6, <3>1, <3>3
  <2> QED
    BY <1>4, <2>7, <2>9, <2>10 DEF Marked, MarkOfV6
<1>8. Alters(u2, Current, 6, at) /\ Marked(6, l, u2, at, DonorsFor(at))
  <2> DEFINE e == Current[explainer]
  <2>1. explainer \in DOMAIN Current /\ e.type = "emit_reasoning" /\ explainer \in Explainers
    <3>1. Explainers # {} /\ Explainers \in SUBSET SpansOf(Current, {"emit_reasoning"})
      BY <1>1 DEF Ready, Finds, ExplanationAtHand, Explainers
    <3>2. SpansOf(Current, {"emit_reasoning"}) \in SUBSET Nat
      BY <1>2, TraceDomain
    <3>3. explainer \in SpansOf(Current, {"emit_reasoning"}) /\ explainer \in Explainers
      BY <3>1, <3>2, SmallestOf
    <3> QED
      BY <3>3 DEF SpansOf
  <2> HIDE DEF explainer
  <2>2. ASSUME NEW r \in e.refs PROVE ~ r.declares
    <3>1. RefFits(r, "emit_reasoning")
      BY <1>2, <2>1, FitsParts
    <3>2. DeclaredBy("emit_reasoning") = {}
      BY KindsAre
    <3> QED
      BY <3>1, <3>2 DEF RefFits
  <2>3. e.seq = 2 * n + 18 /\ e.id = <<at, 2 * n + 18>> /\ 2 * n + 18 \in Positions
    <3>1. e.id = <<at, e.seq>> /\ TypeFits(e.type, e.seq)
      BY <1>2, <2>1, PlaceIs
    <3>2. TypeFits("make_decision", Current[DecisionSpan].seq)
      BY <1>2, PlaceIs
    <3>3. e.seq > Current[DecisionSpan].seq
      BY <2>1 DEF Explainers
    <3>4. e.seq \in {4, 2 * n + 11, 2 * n + 18} /\ Current[DecisionSpan].seq = 2 * n + 17
      BY <2>1, <3>1, <3>2 DEF TypeFits
    <3>5. e.seq = 2 * n + 18
      BY <3>3, <3>4, RetrievalFacts
    <3> QED
      BY <3>1, <3>5, RetrievalFacts DEF Positions
  <2>4. Links(e, "CreditDecision") = {<<"explains", DecisionOf(at)>>}
    BY <1>6, <2>1, <2>3
  <2>5. \A r \in e.refs : r \notin refs2 <=> r.obj.kind = "CreditDecision"
    <3> SUFFICES ASSUME NEW r \in e.refs PROVE r \in edge <=> r.obj.kind = "CreditDecision"
      OBVIOUS
    <3>1. r.obj.kind = "CreditDecision" => <<r.qual, r.obj>> \in Links(e, "CreditDecision")
      BY DEF Links
    <3>2. r.obj.kind = "CreditDecision" => r.qual = "explains" /\ r.obj = DecisionOf(at)
      BY <2>4, <3>1
    <3>3. r.obj = DecisionOf(at) => r.obj.kind = "CreditDecision"
      BY DecisionIs
    <3> QED
      BY <3>2, <3>3
  <2>6. refs2 \subseteq e.refs
    OBVIOUS
  <2> HIDE DEF refs2
  <2>7. Edited(u2, Current, explainer) /\ u2[explainer].refs = refs2
    BY <1>2, <2>1, RefsEdited
  <2> HIDE DEF u2
  <2>8. \A kind \in LinkKinds : kind # "CreditDecision" => Links(u2[explainer], kind) = Links(e, kind)
    BY <2>5, <2>6, <2>7, LinksStripped
  <2>9. Links(u2[explainer], "CreditDecision") = {}
    BY <2>5, <2>6, <2>7 DEF Links
  <2>10. Alters(u2, Current, 6, at)
    <3>1. <<2 * n + 18, "CreditDecision">> \in SpotsOf(6)
      BY DEF SpotsOf
    <3>2. StaysOff(u2, Current, explainer, 2 * n + 18, 6)
      BY <2>8, <3>1 DEF StaysOff
    <3> QED
      BY <1>2, <2>1, <2>3, <2>7, <3>2, EditAlters
  <2>11. Shows(u2, at, 2 * n + 18, "CreditDecision", {})
    <3> SUFFICES ASSUME NEW k \in DOMAIN u2, u2[k].id = <<at, 2 * n + 18>>
                 PROVE  Links(u2[k], "CreditDecision") = {}
      BY DEF Shows
    <3>1. k \in DOMAIN Current /\ u2[k].id = Current[k].id
      BY <2>7 DEF Edited
    <3>2. k = explainer
      BY <1>2, <2>1, <2>3, <3>1 DEF IdsFit
    <3> QED
      BY <2>9, <3>2
  <2> QED
    BY <1>4, <2>10, <2>11 DEF Marked, MarkOfV6
<1> HIDE DEF u1, u2
<1>9. Alters(u, Current, 6, at) /\ Marked(6, l, u, at, DonorsFor(at))
  BY <1>7, <1>8
<1> QED
  BY <1>1, <1>5, <1>9, ToldIs

(* session_start names no policy but the current and the superseded one.   *)
LEMMA StartPolicies ==
    ASSUME NEW s, NEW a \in Applicants, NEW t, t = BaseTrace(s, a), NEW r \in t[1].refs, r.obj.kind = "PolicyVersion"
    PROVE  r.obj \in {CurrentPolicy, SupersededPolicy}
<1> DEFINE q1 == Declare("within", Session, {})
           q2 == Declare("concerns", Application, {})
           q3 == Declare("concerns", Applicant, {})
           q4 == Declare("governed_by", CurrentPolicy, {})
           q5 == Declare("", SupersededPolicy, {"effective_to"})
<1>1. SessionStartEvent.refs = {q1, q2, q3, q4, q5}
  BY DEF SessionStartEvent, Event
<1>2. /\ q1.obj.kind = "Session" /\ q2.obj.kind = "Application" /\ q3.obj.kind = "Applicant"
      /\ q4.obj = CurrentPolicy /\ q5.obj = SupersededPolicy
  BY DEF Declare, Session, Application, Applicant, Obj
<1> HIDE DEF q1, q2, q3, q4, q5
<1>3. CreditScript(a)[1] = SessionStartEvent /\ 1 \in Positions
  BY ScriptIs, RetrievalFacts DEF IsScript, Positions
<1>4. PICK q \in CreditScript(a)[1].refs : r.obj = OwnedBy(q.obj, s) /\ r.obj.kind = q.obj.kind
  BY <1>3, BaseNames
<1>5. q.obj \in {CurrentPolicy, SupersededPolicy}
  BY <1>1, <1>2, <1>3, <1>4
<1> QED
  BY <1>4, <1>5, Owned

(* V8: the decision is governed by the superseded policy and the label     *)
(* cites it.                                                               *)
LEMMA V8Told == ASSUME TellOK, LogOK, InjectOK, DrawOK, FaultV8 PROVE \E l \in labels' : FaultTold(8, l)
<1> DEFINE n == Retrievals
           repoint(r, target) == IF r.obj.kind = "PolicyVersion" THEN [r EXCEPT !.obj = target] ELSE r
           refs(target) == {repoint(r, target) : r \in Current[DecisionSpan].refs}
           u(target)    == [Current EXCEPT ![DecisionSpan].refs = refs(target)]
<1>1. PICK target \in OtherPolicies :
          /\ Turn(8) /\ Ready(8)
          /\ Apply(8, u(target), "STD", Ids(Current, {DecisionSpan}), {target})
  BY DEF FaultV8, Rewrite
<1> DEFINE e   == Current[DecisionSpan]
           all == refs(target)
           v   == [Current EXCEPT ![DecisionSpan].refs = all]
           g   == [r \in e.refs |-> repoint(r, target)]
           l   == Label(8, "STD", Ids(Current, {DecisionSpan}), {target})
           t   == BaseTrace(at, applicant[at])
<1>2. /\ TraceFits(Current, at) /\ IdsFit(Current, at) /\ applicant[at] \in Applicants
      /\ \A k \in DOMAIN Current : DOMAIN Current[k] = Fields
      /\ Survives(Current, t, applied) /\ Len(t) \in Nat /\ phase = "inject"
      /\ DecisionSpan \in DOMAIN Current /\ e.type = "make_decision"
  BY <1>1, TurnFits DEF TraceFits, Turn, Base
<1>3. e.id = Decided(at) /\ Ids(Current, {DecisionSpan}) = {Decided(at)}
  BY <1>1, DecisionPlace
<1> HIDE DEF t
<1>4. 2 * n + 17 \in Positions /\ e.id = <<at, 2 * n + 17>>
  BY <1>3, RetrievalFacts DEF Positions, Decided
<1>5. Links(e, "PolicyVersion") = {<<"governed_by", CurrentPolicy>>}
  <2>1. \A c \in applied : <<2 * n + 17, "PolicyVersion">> \notin SpotsOf(c)
    <3>1. \A b \in applied : b \in FaultClasses /\ b < 8
      BY <1>1, AtTurn
    <3>2. \A b \in applied : b \in {1, 2, 3, 4, 5, 6, 7}
      BY <3>1 DEF FaultClasses
    <3> QED
      BY <3>2 DEF SpotsOf
  <2>2. Keeps(Current, t, at, applied)
    BY <1>1, TellTurn DEF Tells, Base, t
  <2>3. "PolicyVersion" \in LinkKinds
    BY DEF LinkKinds
  <2>4. Links(e, "PolicyVersion") = Links(t[2 * n + 17], "PolicyVersion")
    BY <1>2, <1>4, <2>1, <2>2, <2>3, LinksKept
  <2>5. BaseLinksAre(t, at, applicant[at])
    BY <1>2, BaseLinks DEF t
  <2> QED
    BY <2>4, <2>5 DEF BaseLinksAre
<1>6. target = SupersededPolicy
  <2> DEFINE start == SpanOf(Current, "session_start")
  <2>1. \A b \in applied : b \in FaultClasses /\ b < 8
    BY <1>1, AtTurn
  <2>2. "session_start" \notin Touched(applied)
    BY <2>1, TouchedBefore DEF FaultClasses
  <2>3. SpansOf(Current, {"session_start"}) # {}
    <3>1. 1 \in 1 .. 2 * Retrievals + 20 /\ 1 \in DOMAIN t
      BY <1>2, RetrievalFacts, BaseEvents DEF t
    <3>2. t[1].type = "session_start"
      BY <1>2, <3>1, BaseEvents DEF TypeFits, t
    <3>3. \E k \in DOMAIN Current : Current[k] = t[1]
      BY <1>2, <2>1, <2>2, <3>1, <3>2, Remains DEF t
    <3> QED
      BY <3>2, <3>3 DEF SpansOf
  <2>4. start \in DOMAIN Current /\ Current[start].type = "session_start"
    BY <1>2, <2>3, SpanIs
  <2>5. PICK r \in Current[start].refs : r.obj = target /\ r.obj.kind = "PolicyVersion"
    BY DEF OtherPolicies, PoliciesNamed
  <2> HIDE DEF start
  <2>6. Current[start] = t[1]
    <3>1. TypeFits(Current[start].type, Current[start].seq)
      BY <1>2, <2>4, PlaceIs
    <3>2. Current[start].seq = 1
      BY <2>4, <3>1 DEF TypeFits
    <3> QED
      BY <1>2, <2>2, <2>4, <3>2, SurvivorIs DEF t
  <2>7. target \in {CurrentPolicy, SupersededPolicy}
    BY <1>2, <2>5, <2>6, StartPolicies DEF t
  <2>8. CurrentPolicy \in PoliciesNamed(DecisionSpan)
    <3>1. <<"governed_by", CurrentPolicy>> \in Links(e, "PolicyVersion")
      BY <1>5
    <3>2. PICK x \in e.refs : x.obj.kind = "PolicyVersion" /\ <<"governed_by", CurrentPolicy>> = <<x.qual, x.obj>>
      BY <3>1 DEF Links
    <3> QED
      BY <3>2 DEF PoliciesNamed
  <2> QED
    BY <2>7, <2>8 DEF OtherPolicies
<1>7. target.kind = "PolicyVersion"
  BY <1>6, Owned
<1>8. ASSUME NEW r \in e.refs
      PROVE  /\ g[r].qual = r.qual /\ g[r].obj.kind = r.obj.kind /\ g[r].declares = r.declares
             /\ g[r].facts = r.facts
             /\ r.obj.kind = "PolicyVersion" => g[r].obj = target
             /\ r.obj.kind # "PolicyVersion" => g[r].obj = r.obj
  <2>1. RefFits(r, "make_decision")
    BY <1>2, FitsParts
  <2>2. CASE r.obj.kind = "PolicyVersion"
    <3> DEFINE x == [r EXCEPT !.obj = target]
    <3>1. x.obj = target /\ x.qual = r.qual /\ x.declares = r.declares /\ x.facts = r.facts
      BY <2>1 DEF RefFits
    <3>2. g[r] = x
      BY <2>2
    <3> HIDE DEF x, g
    <3> QED
      BY <1>7, <2>2, <3>1, <3>2
  <2>3. CASE r.obj.kind # "PolicyVersion"
    BY <2>3
  <2> QED
    BY <2>2, <2>3
<1> HIDE DEF repoint
<1>9. all = {g[r] : r \in e.refs} /\ v = u(target)
  OBVIOUS
<1> HIDE DEF all, g, u, refs
<1>10. Edited(v, Current, DecisionSpan) /\ v[DecisionSpan].refs = all
  BY <1>2, RefsEdited
<1> HIDE DEF v
<1>11. Replaced(v[DecisionSpan], e, g)
  BY <1>8, <1>9, <1>10 DEF Replaced
<1>12. Links(v[DecisionSpan], "PolicyVersion") = {<<"governed_by", target>>}
  <2>1. Moved(e, g, "PolicyVersion", target) /\ Only(e, "PolicyVersion", "governed_by", CurrentPolicy)
    BY <1>5, <1>8 DEF Moved, Only
  <2>2. Only(v[DecisionSpan], "PolicyVersion", "governed_by", target)
    BY <1>11, <2>1, LinksMoved
  <2> QED
    BY <2>2 DEF Only
<1>13. Codes(v[DecisionSpan]) = Codes(e)
  BY <1>8, <1>9, <1>10, CodesSame
<1>14. \A kind \in LinkKinds : kind # "PolicyVersion" => Links(v[DecisionSpan], kind) = Links(e, kind)
  BY <1>8, <1>11, LinksSame
<1>15. Alters(v, Current, 8, at)
  <2>1. StaysOff(v, Current, DecisionSpan, 2 * n + 17, 8)
    BY <1>13, <1>14 DEF StaysOff, SpotsOf
  <2> QED
    BY <1>2, <1>4, <1>10, <2>1, EditAlters
<1>16. Shows(v, at, 2 * n + 17, "PolicyVersion", {<<"governed_by", SupersededPolicy>>})
  <2> SUFFICES ASSUME NEW k \in DOMAIN v, v[k].id = <<at, 2 * n + 17>>
               PROVE  Links(v[k], "PolicyVersion") = {<<"governed_by", SupersededPolicy>>}
    BY DEF Shows
  <2>1. k \in DOMAIN Current /\ v[k].id = Current[k].id
    BY <1>10 DEF Edited
  <2>2. k = DecisionSpan
    BY <1>2, <1>4, <2>1 DEF IdsFit
  <2> QED
    BY <1>6, <1>12, <2>2
<1>17. Marked(8, l, v, at, DonorsFor(at))
  <2>1. Cites(l, "STD", {Decided(at)}, {SupersededPolicy})
    BY <1>3, <1>6, LabelCites
  <2> HIDE DEF l
  <2>2. MarkOfV8(l, v, at)
    BY <1>16, <2>1 DEF MarkOfV8
  <2> QED
    BY <2>2 DEF Marked
<1>18. l = Label(8, "STD", Ids(Current, {DecisionSpan}), {target})
  OBVIOUS
<1> HIDE DEF l
<1>19. Apply(8, v, "STD", Ids(Current, {DecisionSpan}), {target})
  BY <1>1, <1>9
<1> QED
  BY <1>1, <1>15, <1>17, <1>18, <1>19, ToldIs

(* A handoff that stands is not disturbed by what happens to other spans.  *)
LEMMA StandsStill ==
    ASSUME NEW s, NEW h, NEW tr, HandoffStands(tr, s, h), NEW u,
           \A x \in DOMAIN u : u[x].id = <<s, h>> => u[x] \in EventsOf(tr),
           \A k \in DOMAIN tr : tr[k].id = <<s, h>> => tr[k] \in EventsOf(u)
    PROVE  HandoffStands(u, s, h)
<1>1. ~ Lacks(u, s, h)
  <2>1. PICK k \in DOMAIN tr : tr[k].id = <<s, h>>
    BY DEF HandoffStands, Lacks
  <2>2. tr[k] \in EventsOf(u)
    BY <2>1
  <2> QED
    BY <2>1, <2>2 DEF EventsOf, Lacks
<1>2. Shows(u, s, h, "Agent", HandoffLinks(h, ReceiverAt(h)))
  <2> SUFFICES ASSUME NEW x \in DOMAIN u, u[x].id = <<s, h>>
               PROVE  Links(u[x], "Agent") = HandoffLinks(h, ReceiverAt(h))
    BY DEF Shows
  <2>1. PICK k \in DOMAIN tr : u[x] = tr[k]
    BY DEF EventsOf
  <2> QED
    BY <2>1 DEF HandoffStands, Shows
<1> QED
  BY <1>1, <1>2 DEF HandoffStands

(* When V7 takes its turn every handoff still stands.                      *)
LEMMA HandoffsStand ==
    ASSUME TellOK, LogOK, InjectOK, DrawOK, Turn(7), NEW h \in HandoffAt
    PROVE  HandoffStands(Current, at, h)
<1> DEFINE t == BaseTrace(at, applicant[at])
<1>1. /\ applicant[at] \in Applicants
      /\ \A b \in applied : b \in FaultClasses /\ b < 7
  BY AtTurn
<1>2. applied \subseteq {1, 2, 3, 4, 5, 6}
  BY <1>1 DEF FaultClasses
<1>3. Keeps(Current, t, at, applied)
  BY TellTurn DEF Tells, Base
<1>4. h \in Positions
  BY RetrievalFacts DEF Positions, HandoffAt
<1>5. \A c \in applied : <<h, "Agent">> \notin SpotsOf(c)
  BY <1>2 DEF SpotsOf
<1>6. \A c \in applied : h \notin GoneOf(c)
  <2> SUFFICES ASSUME NEW c \in applied PROVE h \notin GoneOf(c)
    OBVIOUS
  <2>1. CASE c = 1
    BY <2>1, RetrievalFacts DEF GoneOf, HandoffAt
  <2>2. CASE c = 4
    <3>1. \A i \in 1 .. Retrievals : 2 * i + 5 \notin HandoffAt /\ 2 * i + 6 \notin HandoffAt
      BY RetrievalFacts DEF HandoffAt
    <3> QED
      BY <2>2, <3>1 DEF GoneOf
  <2>3. CASE c \in {2, 3, 5, 6}
    BY <2>3 DEF GoneOf
  <2> QED
    BY <1>2, <2>1, <2>2, <2>3
<1>7. BaseLinksAre(t, at, applicant[at])
  BY <1>1, BaseLinks
<1> HIDE DEF t
<1>8. Shows(Current, at, h, "Agent", HandoffLinks(h, ReceiverAt(h)))
  <2> SUFFICES ASSUME NEW k \in DOMAIN Current, Current[k].id = <<at, h>>
               PROVE  Links(Current[k], "Agent") = HandoffLinks(h, ReceiverAt(h))
    BY DEF Shows
  <2>1. "Agent" \in LinkKinds
    BY DEF LinkKinds
  <2>2. Links(Current[k], "Agent") = Links(t[h], "Agent")
    BY <1>3, <1>4, <1>5, <2>1, LinksKept
  <2> QED
    BY <1>7, <2>2 DEF BaseLinksAre
<1>9. ~ Lacks(Current, at, h)
  BY <1>3, <1>4, <1>6 DEF Keeps
<1> QED
  BY <1>8, <1>9 DEF HandoffStands

(* V7: one handoff is gone or misled, the others stand, and the label      *)
(* cites the orphan.                                                       *)
LEMMA V7Told == ASSUME TellOK, LogOK, InjectOK, DrawOK, FaultV7 PROVE \E l \in labels' : FaultTold(7, l)
<1> DEFINE repoint(r, wrong) == IF r.qual = "to" THEN [r EXCEPT !.obj = wrong] ELSE r
           refs(k, wrong)    == {repoint(r, wrong) : r \in Current[k].refs}
           after(k)          == AtSeq(Current, Current[k].seq + 1)
<1>1. PICK k0 \in SpansOf(Current, {"handoff"}) :
          /\ Turn(7) /\ Ready(7)
          /\ \/ Apply(7, Without(Current, {k0}), "T3", Ids(Current, {after(k0)}), Named(k0, "to"))
             \/ \E wrong \in Bystanders(k0) :
                    Apply(7, [Current EXCEPT ![k0].refs = refs(k0, wrong)],
                          "T3", Ids(Current, {k0, after(k0)}), Named(k0, "to"))
  BY DEF FaultV7, Rewrite
<1> DEFINE e      == Current[k0]
           h      == Current[k0].seq
           orphan == AtSeq(Current, Current[k0].seq + 1)
<1>2. /\ TraceFits(Current, at) /\ IdsFit(Current, at) /\ \A k \in DOMAIN Current : DOMAIN Current[k] = Fields
      /\ phase = "inject"
  BY <1>1, TurnFits DEF TraceFits, Turn
<1>3. k0 \in DOMAIN Current /\ e.type = "handoff"
  BY DEF SpansOf
<1>4. h \in HandoffAt /\ h \in Positions /\ e.id = <<at, h>>
  <2>1. e.id = <<at, h>> /\ TypeFits(e.type, h) /\ h \in Positions
    BY <1>2, <1>3, PlaceIs
  <2> QED
    BY <1>3, <2>1 DEF TypeFits, HandoffAt
<1>5. orphan \in DOMAIN Current /\ Current[orphan].id = <<at, h + 1>>
  <2>1. IsAt(h + 1, "invoke_agent")
    BY <1>1 DEF Ready, Finds, HandoffsAtHand
  <2>2. orphan \in DOMAIN Current /\ Current[orphan].seq = h + 1
    BY <2>1 DEF IsAt, AtSeq
  <2> HIDE DEF orphan
  <2>3. Current[orphan].id = <<at, Current[orphan].seq>>
    BY <1>2, <2>2, PlaceIs
  <2> QED
    BY <2>2, <2>3
<1>6. orphan = after(k0)
  OBVIOUS
<1> HIDE DEF orphan, after
<1>7. \A o \in HandoffAt : HandoffStands(Current, at, o)
  BY <1>1, HandoffsStand
<1>8. Links(e, "Agent") = HandoffLinks(h, ReceiverAt(h))
  BY <1>3, <1>4, <1>7 DEF HandoffStands, Shows
<1>9. \A r \in e.refs : RefFits(r, "handoff")
  BY <1>2, <1>3, FitsParts
<1>10. Named(k0, "to") = {ReceiverAt(h)}
  <2>1. \A r \in e.refs : r.qual = "to" => r.obj.kind = "Agent"
    BY <1>9 DEF RefFits, NamedFits
  <2>2. ASSUME NEW r \in e.refs, r.qual = "to" PROVE r.obj = ReceiverAt(h)
    <3>1. <<r.qual, r.obj>> \in Links(e, "Agent")
      BY <2>1, <2>2 DEF Links
    <3> QED
      BY <1>8, <2>2, <3>1 DEF HandoffLinks
  <2>3. \E r \in e.refs : r.qual = "to"
    <3>1. <<"to", ReceiverAt(h)>> \in Links(e, "Agent")
      BY <1>8 DEF HandoffLinks
    <3> QED
      BY <3>1 DEF Links
  <2> QED
    BY <2>2, <2>3 DEF Named
<1>11. CASE Apply(7, Without(Current, {k0}), "T3", Ids(Current, {after(k0)}), Named(k0, "to"))
  <2> DEFINE u == Without(Current, {k0})
             l == Label(7, "T3", Ids(Current, {orphan}), Named(k0, "to"))
  <2>1. PICK m \in Nat : DOMAIN Current = 1 .. m
    BY <1>1, TurnOf
  <2>2. Alters(u, Current, 7, at)
    <3>1. \A k \in {k0} : \E p \in GoneOf(7) : Current[k].id = <<at, p>>
      BY <1>4 DEF GoneOf
    <3> QED
      BY <1>2, <2>1, <3>1, WithoutAlters
  <2>3. Lacks(u, at, h)
    <3>1. \A k \in DOMAIN Current : Current[k].id = <<at, h>> => k \in {k0}
      BY <1>2, <1>3, <1>4 DEF IdsFit
    <3> QED
      BY <2>1, <3>1, WithoutLacks
  <2>4. EventsOf(u) = {Current[k] : k \in DOMAIN Current \ {k0}}
    BY <2>1, WithoutIs
  <2> HIDE DEF u
  <2>5. \A o \in HandoffAt \ {h} : HandoffStands(u, at, o)
    <3> SUFFICES ASSUME NEW o \in HandoffAt \ {h} PROVE HandoffStands(u, at, o)
      OBVIOUS
    <3>1. \A x \in DOMAIN u : u[x].id = <<at, o>> => u[x] \in EventsOf(Current)
      <4> SUFFICES ASSUME NEW x \in DOMAIN u PROVE u[x] \in EventsOf(Current)
        OBVIOUS
      <4>1. u[x] \in EventsOf(u)
        BY DEF EventsOf
      <4> QED
        BY <2>4, <4>1 DEF EventsOf
    <3>2. \A k \in DOMAIN Current : Current[k].id = <<at, o>> => Current[k] \in EventsOf(u)
      BY <1>4, <2>4
    <3> QED
      BY <1>7, <3>1, <3>2, StandsStill
  <2>6. Cites(l, "T3", {<<at, h + 1>>}, {ReceiverAt(h)})
    <3>1. Ids(Current, {orphan}) = {<<at, h + 1>>}
      BY <1>5 DEF Ids
    <3> QED
      BY <1>10, <3>1, LabelCites
  <2>7. l = Label(7, "T3", Ids(Current, {orphan}), Named(k0, "to"))
    OBVIOUS
  <2> HIDE DEF l
  <2>8. Marked(7, l, u, at, DonorsFor(at))
    <3>1. MarkOfV7(l, u, at)
      BY <1>4, <2>3, <2>5, <2>6 DEF MarkOfV7
    <3> QED
      BY <3>1 DEF Marked
  <2>9. Apply(7, u, "T3", Ids(Current, {orphan}), Named(k0, "to"))
    BY <1>6, <1>11 DEF u
  <2> QED
    BY <1>1, <2>2, <2>7, <2>8, <2>9, ToldIs
<1>12. ASSUME NEW wrong \in Bystanders(k0),
              Apply(7, [Current EXCEPT ![k0].refs = refs(k0, wrong)],
                    "T3", Ids(Current, {k0, after(k0)}), Named(k0, "to"))
       PROVE  \E l \in labels' : FaultTold(7, l)
  <2> DEFINE all == refs(k0, wrong)
             u   == [Current EXCEPT ![k0].refs = all]
             g   == [r \in e.refs |-> repoint(r, wrong)]
             l   == Label(7, "T3", Ids(Current, {k0, orphan}), Named(k0, "to"))
  <2>1. wrong # ReceiverAt(h) /\ wrong.kind = "Agent"
    <3>1. wrong \in Invoked /\ wrong \notin Named(k0, "to")
      BY DEF Bystanders
    <3> QED
      BY <1>1, <1>10, <3>1, InvokedStand
  <2>2. ASSUME NEW r \in e.refs
        PROVE  /\ g[r].qual = r.qual /\ g[r].obj.kind = r.obj.kind /\ g[r].declares = r.declares
               /\ g[r].facts = r.facts
               /\ r.qual = "to" => g[r].obj = wrong
               /\ r.obj.kind # "Agent" => g[r].obj = r.obj
    <3>1. RefFits(r, "handoff")
      BY <1>9
    <3>2. r.qual = "to" => r.obj.kind = "Agent"
      BY <3>1 DEF RefFits, NamedFits
    <3>3. CASE r.qual = "to"
      <4> DEFINE x == [r EXCEPT !.obj = wrong]
      <4>1. x.obj = wrong /\ x.qual = r.qual /\ x.declares = r.declares /\ x.facts = r.facts
        BY <3>1 DEF RefFits
      <4>2. g[r] = x
        BY <3>3
      <4> HIDE DEF x, g
      <4> QED
        BY <2>1, <3>2, <3>3, <4>1, <4>2
    <3>4. CASE r.qual # "to"
      BY <3>4
    <3> QED
      BY <3>3, <3>4
  <2> HIDE DEF repoint
  <2>3. all = {g[r] : r \in e.refs}
    OBVIOUS
  <2>4. Apply(7, u, "T3", Ids(Current, {k0, orphan}), Named(k0, "to"))
    BY <1>6, <1>12
  <2> HIDE DEF all, g, refs
  <2>5. Edited(u, Current, k0) /\ u[k0].refs = all
    BY <1>2, <1>3, RefsEdited
  <2> HIDE DEF u
  <2>6. Replaced(u[k0], e, g)
    BY <2>2, <2>3, <2>5 DEF Replaced
  <2>7. Codes(u[k0]) = Codes(e)
    BY <2>2, <2>3, <2>5, CodesSame
  <2>8. \A kind \in LinkKinds : kind # "Agent" => Links(u[k0], kind) = Links(e, kind)
    BY <2>2, <2>6, LinksSame
  <2>9. <<"to", ReceiverAt(h)>> \notin Links(u[k0], "Agent")
    <3> SUFFICES ASSUME <<"to", ReceiverAt(h)>> \in Links(u[k0], "Agent") PROVE FALSE
      OBVIOUS
    <3>1. PICK y \in u[k0].refs : y.qual = "to" /\ y.obj = ReceiverAt(h)
      BY DEF Links
    <3>2. PICK r \in e.refs : y = g[r]
      BY <2>3, <2>5
    <3> QED
      BY <2>1, <2>2, <3>1, <3>2
  <2>10. Alters(u, Current, 7, at)
    <3>1. <<h, "Agent">> \in SpotsOf(7)
      BY <1>4 DEF SpotsOf
    <3>2. StaysOff(u, Current, k0, h, 7)
      BY <2>7, <2>8, <3>1 DEF StaysOff
    <3> QED
      BY <1>2, <1>3, <1>4, <2>5, <3>2, EditAlters
  <2>11. Misled(u, at, h)
    <3>1. k0 \in DOMAIN u /\ u[k0].id = <<at, h>>
      BY <1>3, <1>4, <2>5 DEF Edited
    <3>2. ASSUME NEW k \in DOMAIN u, u[k].id = <<at, h>> PROVE k = k0
      BY <1>2, <1>3, <1>4, <2>5, <3>2 DEF Edited, IdsFit
    <3> QED
      BY <2>9, <3>1, <3>2 DEF Misled, Lacks
  <2>12. \A o \in HandoffAt \ {h} : HandoffStands(u, at, o)
    <3> SUFFICES ASSUME NEW o \in HandoffAt \ {h} PROVE HandoffStands(u, at, o)
      OBVIOUS
    <3>1. \A x \in DOMAIN u : u[x].id = <<at, o>> => u[x] \in EventsOf(Current)
      BY <1>4, <2>5 DEF Edited, EventsOf
    <3>2. \A k \in DOMAIN Current : Current[k].id = <<at, o>> => Current[k] \in EventsOf(u)
      BY <1>4, <2>5 DEF Edited, EventsOf
    <3> QED
      BY <1>7, <3>1, <3>2, StandsStill
  <2>13. Cites(l, "T3", {<<at, h>>, <<at, h + 1>>}, {ReceiverAt(h)})
    <3>1. Ids(Current, {k0, orphan}) = {<<at, h>>, <<at, h + 1>>}
      BY <1>4, <1>5 DEF Ids
    <3> QED
      BY <1>10, <3>1, LabelCites
  <2>14. l = Label(7, "T3", Ids(Current, {k0, orphan}), Named(k0, "to"))
    OBVIOUS
  <2> HIDE DEF l
  <2>15. Marked(7, l, u, at, DonorsFor(at))
    <3>1. MarkOfV7(l, u, at)
      BY <1>4, <2>11, <2>12, <2>13 DEF MarkOfV7
    <3> QED
      BY <3>1 DEF Marked
  <2> QED
    BY <1>1, <2>4, <2>10, <2>14, <2>15, ToldIs
<1> QED
  BY <1>1, <1>11, <1>12

(* The references of an approval event after another approver is named.    *)
Swapped(f, e, approver, facts) == f.refs = {SwapRef(r, approver, facts) : r \in e.refs}

(* Swapping the approver changes no link but to human approvers, and no    *)
(* fact of the decision.                                                   *)
LEMMA SwapStaysOff ==
    ASSUME NEW e, NEW type, \A r \in e.refs : RefFits(r, type), NEW approver, approver.kind = "HumanApprover",
           NEW facts, NEW f, Swapped(f, e, approver, facts)
    PROVE  /\ \A kind \in LinkKinds : kind # "HumanApprover" => Links(f, kind) = Links(e, kind)
           /\ Codes(f) = Codes(e)
           /\ \A q, old : Only(e, "HumanApprover", q, old) => Only(f, "HumanApprover", q, approver)
<1> DEFINE g == [r \in e.refs |-> SwapRef(r, approver, facts)]
<1>1. ASSUME NEW r \in e.refs
      PROVE  /\ g[r].qual = r.qual /\ g[r].obj.kind = r.obj.kind /\ g[r].declares = r.declares
             /\ r.obj.kind = "HumanApprover" => g[r].obj = approver
             /\ r.obj.kind # "HumanApprover" => g[r] = r
  <2>1. RefFits(r, type)
    OBVIOUS
  <2>2. CASE r.obj.kind = "HumanApprover"
    <3> DEFINE x == [r EXCEPT !.obj = approver, !.facts = IF r.declares THEN facts ELSE {}]
    <3>1. x.obj = approver /\ x.qual = r.qual /\ x.declares = r.declares
      BY <2>1 DEF RefFits
    <3>2. g[r] = x
      BY <2>2 DEF SwapRef
    <3> HIDE DEF x, g
    <3> QED
      BY <2>2, <3>1, <3>2
  <2>3. CASE r.obj.kind # "HumanApprover"
    BY <2>3 DEF SwapRef
  <2> QED
    BY <2>2, <2>3
<1>2. f.refs = {g[r] : r \in e.refs}
  BY DEF Swapped
<1> HIDE DEF g
<1>3. Replaced(f, e, g)
  BY <1>1, <1>2 DEF Replaced
<1>4. \A kind \in LinkKinds : kind # "HumanApprover" => Links(f, kind) = Links(e, kind)
  BY <1>1, <1>3, LinksSame
<1>5. Codes(f) = Codes(e)
  BY <1>1, <1>2, CodesSame
<1>6. Moved(e, g, "HumanApprover", approver)
  BY <1>1 DEF Moved
<1>7. \A q, old : Only(e, "HumanApprover", q, old) => Only(f, "HumanApprover", q, approver)
  BY <1>3, <1>6, LinksMoved
<1> QED
  BY <1>4, <1>5, <1>7

(* An edit in place keeps the ids of a trace in order.                     *)
LEMMA IdsFitEdited ==
    ASSUME NEW tr, NEW s, IdsFit(tr, s), NEW k \in DOMAIN tr, NEW u, Edited(u, tr, k)
    PROVE  IdsFit(u, s)
<1>1. DOMAIN u = DOMAIN tr /\ \A j \in DOMAIN tr : u[j].id = tr[j].id /\ u[j].type = tr[j].type
  BY DEF Edited
<1> QED
  BY <1>1 DEF IdsFit

(* _swap_approver is confined to the approver links of the request and the *)
(* verdict, and the verdict names the new approver.                        *)
LEMMA SwapAlters ==
    ASSUME NEW s, NEW a \in Applicants, NEW t, t = BaseTrace(s, a), NEW tr, NEW done,
           Survives(tr, t, done), TraceFits(tr, s), Keeps(tr, t, s, done),
           \A b \in done : <<2 * Retrievals + 16, "HumanApprover">> \notin SpotsOf(b),
           SpansOf(tr, {"request_approval"}) # {}, SpansOf(tr, VerdictTypes) # {},
           NEW approver, approver.kind = "HumanApprover", NEW facts, NEW c \in {3, 9}
    PROVE  /\ Alters(SwapApprover(tr, approver, facts), tr, c, s)
           /\ Shows(SwapApprover(tr, approver, facts), s, 2 * Retrievals + 16, "HumanApprover",
                    {<<"performed_by", approver>>})
           /\ Verdict(tr) \in DOMAIN tr /\ tr[Verdict(tr)].id = Granted(s)
<1> DEFINE n == Retrievals
           i == SpanOf(tr, "request_approval")
           j == Verdict(tr)
           swap(r)   == IF r.obj.kind = "HumanApprover"
                        THEN [r EXCEPT !.obj = approver, !.facts = IF r.declares THEN facts ELSE {}]
                        ELSE r
           refs1     == {swap(r) : r \in tr[i].refs}
           requested == [tr EXCEPT ![i].refs = refs1]
           refs2     == {swap(r) : r \in requested[j].refs}
           ruled     == [requested EXCEPT ![j].refs = refs2]
           u         == [ruled EXCEPT ![j].actor = approver]
<1>1. SwapApprover(tr, approver, facts) = u
  BY DEF SwapApprover, Rewrite
<1>2. i \in DOMAIN tr /\ tr[i].type = "request_approval"
  <2>1. Len(t) \in Nat
    BY BaseEvents
  <2> QED
    BY <2>1, SpanIs
<1>3. j \in DOMAIN tr /\ tr[j].type \in VerdictTypes
  <2>1. SpansOf(tr, VerdictTypes) \in SUBSET Nat
    BY BaseEvents, TraceDomain
  <2>2. j \in SpansOf(tr, VerdictTypes)
    BY <2>1, SmallestOf DEF Verdict
  <2> QED
    BY <2>2 DEF SpansOf
<1>4. refs1 = {SwapRef(r, approver, facts) : r \in tr[i].refs}
      /\ refs2 = {SwapRef(r, approver, facts) : r \in requested[j].refs}
  BY DEF SwapRef
<1> HIDE DEF i, j, swap, refs1, refs2
<1>5. tr[i].id = <<s, 2 * n + 15>> /\ tr[j].id = <<s, 2 * n + 16>> /\ i # j
  <2>1. /\ tr[i].id = <<s, tr[i].seq>> /\ TypeFits(tr[i].type, tr[i].seq)
        /\ tr[j].id = <<s, tr[j].seq>> /\ TypeFits(tr[j].type, tr[j].seq)
    BY <1>2, <1>3, SurvivorIs
  <2>2. tr[i].seq = 2 * n + 15 /\ tr[j].seq = 2 * n + 16
    BY <1>2, <1>3, <2>1 DEF TypeFits
  <2>3. tr[i].type \notin VerdictTypes
    BY <1>2 DEF VerdictTypes
  <2> QED
    BY <1>3, <2>1, <2>2, <2>3
<1>6. 2 * n + 15 \in Positions /\ 2 * n + 16 \in Positions
  BY RetrievalFacts DEF Positions
<1>7. IdsFit(tr, s) /\ \A k \in DOMAIN tr : DOMAIN tr[k] = Fields
  BY DEF TraceFits, Survives, EventsOf
<1>8. /\ \A r \in tr[i].refs : RefFits(r, tr[i].type)
      /\ \A r \in tr[j].refs : RefFits(r, tr[j].type)
  BY <1>2, <1>3, FitsParts
<1>9. Edited(requested, tr, i) /\ requested[i].refs = refs1
  BY <1>2, <1>7, RefsEdited
<1>10. requested[j] = tr[j]
  BY <1>3, <1>5, <1>9 DEF Edited
<1> HIDE DEF requested
<1>11. DOMAIN requested[j] = Fields /\ j \in DOMAIN requested
  BY <1>3, <1>7, <1>9, <1>10 DEF Edited
<1>12. Edited(ruled, requested, j) /\ ruled[j].refs = refs2
  BY <1>11, RefsEdited
<1> HIDE DEF ruled
<1>13. DOMAIN ruled[j] = Fields /\ j \in DOMAIN ruled
  BY <1>11, <1>12 DEF Edited
<1>14. Edited(u, ruled, j) /\ u[j].refs = ruled[j].refs
  BY <1>13, ActorEdited
<1> HIDE DEF u
<1>15. IdsFit(requested, s) /\ IdsFit(ruled, s) /\ IdsFit(u, s)
  BY <1>2, <1>7, <1>9, <1>11, <1>12, <1>13, <1>14, IdsFitEdited
<1>16. <<2 * n + 15, "HumanApprover">> \in SpotsOf(c) /\ <<2 * n + 16, "HumanApprover">> \in SpotsOf(c)
  BY DEF SpotsOf
<1>17. Alters(requested, tr, c, s)
  <2>1. Swapped(requested[i], tr[i], approver, facts)
    BY <1>4, <1>9 DEF Swapped
  <2>2. /\ \A kind \in LinkKinds : kind # "HumanApprover" => Links(requested[i], kind) = Links(tr[i], kind)
        /\ Codes(requested[i]) = Codes(tr[i])
    <3> DEFINE e == tr[i]
               f == requested[i]
    <3>1. /\ \A r \in e.refs : RefFits(r, tr[i].type)
          /\ Swapped(f, e, approver, facts)
      BY <1>8, <2>1
    <3> HIDE DEF e, f
    <3>2. /\ \A kind \in LinkKinds : kind # "HumanApprover" => Links(f, kind) = Links(e, kind)
          /\ Codes(f) = Codes(e)
      BY <3>1, SwapStaysOff
    <3> QED
      BY <3>2 DEF e, f
  <2>3. StaysOff(requested, tr, i, 2 * n + 15, c)
    BY <1>16, <2>2 DEF StaysOff
  <2> QED
    BY <1>2, <1>5, <1>6, <1>7, <1>9, <2>3, EditAlters
<1>18. Only(tr[j], "HumanApprover", "performed_by", Approver)
  <2>1. "HumanApprover" \in LinkKinds
    BY DEF LinkKinds
  <2>2. Links(tr[j], "HumanApprover") = Links(t[2 * n + 16], "HumanApprover")
    BY <1>3, <1>5, <1>6, <2>1, LinksKept
  <2>3. BaseLinksAre(t, s, a)
    BY BaseLinks
  <2> QED
    BY <2>2, <2>3 DEF BaseLinksAre, Only
<1>19. /\ \A kind \in LinkKinds : kind # "HumanApprover" => Links(ruled[j], kind) = Links(requested[j], kind)
       /\ Codes(ruled[j]) = Codes(requested[j])
       /\ Only(ruled[j], "HumanApprover", "performed_by", approver)
  <2>1. Swapped(ruled[j], requested[j], approver, facts)
    BY <1>4, <1>12 DEF Swapped
  <2>2. \A r \in requested[j].refs : RefFits(r, tr[j].type)
    BY <1>8, <1>10
  <2>3. Only(requested[j], "HumanApprover", "performed_by", Approver)
    BY <1>10, <1>18
  <2>4. /\ \A kind \in LinkKinds : kind # "HumanApprover" => Links(ruled[j], kind) = Links(requested[j], kind)
        /\ Codes(ruled[j]) = Codes(requested[j])
        /\ \A q, old : Only(requested[j], "HumanApprover", q, old) => Only(ruled[j], "HumanApprover", q, approver)
    BY <2>1, <2>2, SwapStaysOff
  <2> QED
    BY <2>3, <2>4
<1>20. Alters(ruled, requested, c, s)
  <2>1. StaysOff(ruled, requested, j, 2 * n + 16, c)
    BY <1>16, <1>19 DEF StaysOff
  <2>2. requested[j].id = <<s, 2 * n + 16>>
    BY <1>5, <1>10
  <2> QED
    BY <1>6, <1>11, <1>12, <1>15, <2>1, <2>2, EditAlters
<1>21. Links(u[j], "HumanApprover") = {<<"performed_by", approver>>}
  BY <1>14, <1>19 DEF Only, Links
<1>22. u[j].id = <<s, 2 * n + 16>> /\ ruled[j].id = <<s, 2 * n + 16>> /\ j \in DOMAIN u
  BY <1>5, <1>10, <1>12, <1>13, <1>14 DEF Edited
<1>23. Alters(u, ruled, c, s)
  <2>1. StaysOff(u, ruled, j, 2 * n + 16, c)
    BY <1>14 DEF StaysOff, Links, Codes
  <2> QED
    BY <1>6, <1>13, <1>14, <1>15, <1>22, <2>1, EditAlters
<1>24. Alters(u, tr, c, s)
  <2>1. Alters(ruled, tr, c, s)
    BY <1>17, <1>20, AltersTwice
  <2> QED
    BY <1>23, <2>1, AltersTwice
<1>25. Shows(u, s, 2 * n + 16, "HumanApprover", {<<"performed_by", approver>>})
  <2> SUFFICES ASSUME NEW k \in DOMAIN u, u[k].id = <<s, 2 * n + 16>>
               PROVE  Links(u[k], "HumanApprover") = {<<"performed_by", approver>>}
    BY DEF Shows
  <2>1. k = j
    BY <1>15, <1>22 DEF IdsFit
  <2> QED
    BY <1>21, <2>1
<1> QED
  BY <1>1, <1>3, <1>5, <1>24, <1>25 DEF j, Granted

(* V3: the verdict names the rogue approver and the label cites it.        *)
LEMMA V3Told == ASSUME TellOK, LogOK, InjectOK, DrawOK, FaultV3 PROVE \E l \in labels' : FaultTold(3, l)
<1> DEFINE u == SwapApprover(Current, Rogue(at), {})
           l == Label(3, "T1", Ids(Current, {Verdict(Current)}), {Rogue(at)})
           t == BaseTrace(at, applicant[at])
<1>1. Turn(3) /\ Ready(3) /\ Apply(3, u, "T1", Ids(Current, {Verdict(Current)}), {Rogue(at)})
  BY DEF FaultV3
<1>2. /\ TraceFits(Current, at) /\ at \in Sessions /\ applicant[at] \in Applicants
      /\ Survives(Current, t, applied)
  BY <1>1, TurnFits DEF Base
<1>3. SpansOf(Current, {"request_approval"}) # {} /\ SpansOf(Current, VerdictTypes) # {}
  BY <1>1 DEF Ready, Finds, ApprovalAtHand
<1>4. Rogue(at).kind = "HumanApprover"
  BY DEF Rogue, Obj
<1>5. Keeps(Current, t, at, applied)
  BY <1>1, TellTurn DEF Tells, Base
<1>6. applied = {}
  <2>1. 3 \in T1Classes
    BY DEF T1Classes
  <2> QED
    BY <1>1, <2>1, AtTurn
<1>7. \A b \in applied : <<2 * Retrievals + 16, "HumanApprover">> \notin SpotsOf(b)
  BY <1>6
<1>8. 3 \in {3, 9}
  OBVIOUS
<1>9. /\ Alters(u, Current, 3, at)
      /\ Shows(u, at, 2 * Retrievals + 16, "HumanApprover", {<<"performed_by", Rogue(at)>>})
      /\ Current[Verdict(Current)].id = Granted(at)
  BY <1>2, <1>3, <1>4, <1>5, <1>7, <1>8, SwapAlters
<1> HIDE DEF u
<1>10. Marked(3, l, u, at, DonorsFor(at))
  <2>1. Ids(Current, {Verdict(Current)}) = {Granted(at)}
    BY <1>9 DEF Ids
  <2>2. Cites(l, "T1", {Granted(at)}, {Rogue(at)})
    BY <2>1, LabelCites
  <2> HIDE DEF l
  <2>3. MarkOfV3(l, u, at)
    BY <1>9, <2>2 DEF MarkOfV3
  <2> QED
    BY <2>3 DEF Marked
<1>11. l = Label(3, "T1", Ids(Current, {Verdict(Current)}), {Rogue(at)})
  OBVIOUS
<1> HIDE DEF l
<1> QED
  BY <1>1, <1>9, <1>10, <1>11, ToldIs

(* Every fault action leaves its mark and its label.                       *)
LEMMA FaultIsTold ==
    ASSUME TellOK, LogOK, InjectOK, DrawOK, ApplyFault
    PROVE  \E c \in FaultClasses : \E l \in labels' : FaultTold(c, l)
<1>1. \A c \in 1 .. 8 : c \in FaultClasses
  BY DEF FaultClasses
<1> QED
  BY <1>1, V1Told, V2Told, V3Told, V4Told, V5Told, V6Told, V7Told, V8Told DEF ApplyFault

(* More labels do not unmake what the earlier ones say.                    *)
LEMMA TellsMore ==
    ASSUME NEW tr, NEW base, NEW s, NEW done, NEW ls, NEW more, ls \subseteq more, NEW donors,
           Tells(tr, base, s, done, ls, donors)
    PROVE  Tells(tr, base, s, done, more, donors)
<1>1. ASSUME NEW c \in done PROVE MarkedBy(more, c, tr, s, donors)
  <2>1. MarkedBy(ls, c, tr, s, donors)
    BY DEF Tells
  <2> QED
    BY <2>1 DEF MarkedBy
<1> QED
  BY <1>1 DEF Tells

(* What is to be shown of a step.                                          *)
LEMMA TellKeeps ==
    ASSUME UNCHANGED given,
           instance.split # "mixed" /\ phase' \in {"allocate", "validate"} => at' = 1,
           phase' = "validate" => at' = 1, LabelsFit(labels'),
           \A l \in labels' : l.session \in Sessions /\ l.class \in DoneTo(l.session)',
           \A s \in Sessions : Tells(rows'[s], Base(s), s, MarksOn(s)', labels', DonorsFor(s)')
    PROVE  TellOK'
<1>1. UNCHANGED <<applicant, instance>>
  BY DEF given
<1>2. Sessions' = Sessions
  BY <1>1 DEF Sessions, N
<1>3. \A s : Base(s)' = Base(s)
  BY <1>1 DEF Base
<1> QED
  BY <1>1, <1>2, <1>3 DEF TellOK

(* The donors are settled with the plan.                                   *)
LEMMA DonorsKept == ASSUME UNCHANGED <<given, plan>> PROVE \A s : DonorsFor(s)' = DonorsFor(s)
<1>1. Sessions' = Sessions /\ plan' = plan
  BY DEF given, Sessions, N
<1> QED
  BY <1>1 DEF DonorsFor, Donors, DecisionOf

(* A fault action preserves TellOK.                                        *)
LEMMA FaultTells ==
    ASSUME TellOK, LogOK, InjectOK, DrawOK, NEW c, NEW l, FaultTold(c, l)
    PROVE  TellOK'
<1>1. /\ Turn(c) /\ l.session = at /\ l.class = c /\ labels' = labels \cup {l} /\ applied' = applied \cup {c}
      /\ UNCHANGED <<given, phase, plan, d1, at>> /\ UNCHANGED <<given, plan>>
      /\ rows' = [rows EXCEPT ![at] = rows'[at]]
      /\ Alters(rows'[at], Current, c, at)
      /\ Marked(c, l, rows'[at], at, DonorsFor(at))
  BY DEF FaultTold
<1>2. /\ MarksOn(at) = applied /\ applied \subseteq FaultClasses
      /\ c \in FaultClasses /\ \A b \in applied : b < c /\ Apart(b, c)
      /\ Tells(Current, Base(at), at, applied, labels, DonorsFor(at))
  BY <1>1, TellTurn
<1>3. phase = "inject" /\ at \in Sessions /\ phase' = "inject"
  BY <1>1 DEF Turn, InjectOK
<1>4. ~ WrittenAlready(at) /\ \A s : WrittenAlready(s)' = WrittenAlready(s)
  BY <1>1, <1>3, InstanceFacts DEF WrittenAlready, Sessions, DrawOK
<1>5. /\ DoneTo(at) = applied
      /\ \A s : s = at => DoneTo(s)' = applied \cup {c} /\ MarksOn(s)' = applied \cup {c}
  BY <1>1, <1>3, <1>4 DEF DoneTo, MarksOn
<1>6. \A s : s # at => DoneTo(s)' = DoneTo(s) /\ MarksOn(s)' = MarksOn(s)
  BY <1>1, <1>3, <1>4 DEF DoneTo, MarksOn
<1>7. \A s \in Sessions : s # at => rows'[s] = rows[s]
  BY <1>1, RowIs
<1>8. \A m \in labels : ~ (m.session = at /\ m.class = c)
  BY <1>2, <1>5 DEF TellOK, FaultClasses
<1>9. LabelsFit(labels')
  <2>1. LabelsFit(labels)
    BY DEF TellOK
  <2>2. IsFiniteSet(labels')
    BY <1>1, <2>1, FS_AddElement DEF LabelsFit
  <2> QED
    BY <1>1, <1>8, <2>1, <2>2 DEF LabelsFit
<1>10. \A m \in labels' : m.session \in Sessions /\ m.class \in DoneTo(m.session)'
  <2>1. \A m \in labels : m.session \in Sessions /\ m.class \in DoneTo(m.session)
    BY DEF TellOK
  <2> QED
    BY <1>1, <1>3, <1>5, <1>6, <2>1
<1>11. \A s : DonorsFor(s)' = DonorsFor(s)
  BY <1>1, DonorsKept
<1>12. ASSUME NEW s \in Sessions PROVE Tells(rows'[s], Base(s), s, MarksOn(s)', labels', DonorsFor(s))
  <2>1. labels \subseteq labels'
    BY <1>1
  <2>2. CASE s = at
    <3>1. MarkedBy(labels', c, rows'[at], at, DonorsFor(at))
      BY <1>1, <1>2 DEF MarkedBy, FaultClasses
    <3>2. c \in 1 .. 9 /\ applied \in SUBSET FaultClasses /\ \A b \in applied : Apart(b, c)
      BY <1>2 DEF FaultClasses
    <3>3. Tells(rows'[at], Base(at), at, applied \cup {c}, labels', DonorsFor(at))
      BY <1>1, <1>2, <2>1, <3>1, <3>2, TellsOn
    <3> QED
      BY <1>5, <2>2, <3>3
  <2>3. CASE s # at
    <3>1. Tells(rows[s], Base(s), s, MarksOn(s), labels, DonorsFor(s))
      BY DEF TellOK
    <3>2. Tells(rows[s], Base(s), s, MarksOn(s), labels', DonorsFor(s))
      BY <2>1, <3>1, TellsMore
    <3> QED
      BY <1>6, <1>7, <2>3, <3>2
  <2> QED
    BY <2>2, <2>3
<1>13. (instance.split # "mixed" /\ phase' \in {"allocate", "validate"} => at' = 1) /\ (phase' = "validate" => at' = 1)
  BY <1>3
<1> QED
  BY <1>1, <1>9, <1>10, <1>11, <1>12, <1>13, TellKeeps

(* A base trace tells that nothing was done to it.                         *)
LEMMA FreshTells ==
    ASSUME NEW s, NEW a \in Applicants, NEW t, t = BaseTrace(s, a), NEW ls, NEW donors
    PROVE  Tells(t, t, s, {}, ls, donors)
<1>1. /\ DOMAIN t = Positions /\ \A k \in Positions : t[k].id = <<s, k>>
  BY BaseIsScript DEF Positions
<1>2. \A k \in DOMAIN t : \A p \in Positions : t[k].id = <<s, p>> => k = p
  BY <1>1
<1>3. \A p \in Positions : Alike(t[p], t[p], SoftAt(p, {}))
  BY DEF Alike
<1>4. \A p \in Positions : ~ Lacks(t, s, p)
  BY <1>1 DEF Lacks
<1>5. Keeps(t, t, s, {})
  BY <1>2, <1>3, <1>4 DEF Keeps
<1> QED
  BY <1>5 DEF Tells

(* Before injection begins every trace is as the fleet wrote it.           *)
LEMMA FreshRows ==
    ASSUME InjectOK, DrawOK, phase \notin {"inject", "done"}, NEW s \in Sessions, NEW ls, NEW donors
    PROVE  /\ Tells(rows[s], Base(s), s, {}, ls, donors)
           /\ DoneTo(s) = {} /\ MarksOn(s) = {}
<1>1. rows[s] = Base(s)
  BY DEF InjectOK
<1>2. applicant[s] \in Applicants
  BY ApplyingAssumption DEF DrawOK
<1>3. DoneTo(s) = {} /\ MarksOn(s) = {}
  BY DEF DoneTo, MarksOn, WrittenAlready
<1>4. Tells(Base(s), Base(s), s, {}, ls, donors)
  BY <1>2, FreshTells DEF Base
<1> QED
  BY <1>1, <1>3, <1>4

(* TellOK holds initially.                                                 *)
LEMMA TellInit == Init /\ DrawOK => TellOK
<1> SUFFICES ASSUME Init, DrawOK PROVE TellOK
  OBVIOUS
<1>1. InjectOK /\ phase = "allocate" /\ at = 1 /\ labels = {}
  BY InjectInit DEF Init
<1>2. \A s \in Sessions : Tells(rows[s], Base(s), s, MarksOn(s), labels, DonorsFor(s))
  <2> SUFFICES ASSUME NEW s \in Sessions PROVE Tells(rows[s], Base(s), s, MarksOn(s), labels, DonorsFor(s))
    OBVIOUS
  <2>1. Tells(rows[s], Base(s), s, {}, labels, DonorsFor(s)) /\ MarksOn(s) = {}
    BY <1>1, FreshRows
  <2> QED
    BY <2>1
<1>3. LabelsFit(labels)
  BY <1>1, FS_EmptySet DEF LabelsFit
<1> QED
  BY <1>1, <1>2, <1>3 DEF TellOK

(* Nothing has been done to a session before the first is at hand.         *)
LEMMA QuietTells ==
    ASSUME TellOK, InjectOK, DrawOK, phase \notin {"inject", "done"},
           UNCHANGED <<given, rows, labels, applied>>,
           phase' \notin {"inject", "done"} \/ (phase' = "inject" /\ at' = 1),
           instance.split # "mixed" /\ phase' \in {"allocate", "validate"} => at' = 1,
           phase' = "validate" => at' = 1
    PROVE  TellOK'
<1>1. labels = {} /\ labels' = {}
  <2>1. \A l \in labels : l.session \in Sessions /\ l.class \in DoneTo(l.session)
    BY DEF TellOK
  <2>2. \A s \in Sessions : DoneTo(s) = {}
    BY FreshRows
  <2> QED
    BY <2>1, <2>2
<1>2. applied' = {}
  BY DEF InjectOK
<1>3. \A s \in Sessions : MarksOn(s)' = {}
  <2>1. N \in Nat \ {0}
    BY InstanceFacts DEF DrawOK
  <2>2. \A s \in Sessions : ~ (s < 1)
    BY <2>1 DEF Sessions
  <2>3. \A s \in Sessions : ~ WrittenAlready(s)'
    BY <2>2 DEF WrittenAlready
  <2> QED
    BY <1>2, <2>3 DEF MarksOn, DoneTo
<1>4. \A s \in Sessions : Tells(rows'[s], Base(s), s, MarksOn(s)', labels', DonorsFor(s)')
  <2> SUFFICES ASSUME NEW s \in Sessions
               PROVE  Tells(rows'[s], Base(s), s, MarksOn(s)', labels', DonorsFor(s)')
    OBVIOUS
  <2>1. Tells(rows[s], Base(s), s, {}, labels', DonorsFor(s)')
    BY FreshRows
  <2> QED
    BY <1>3, <2>1
<1>5. LabelsFit(labels')
  BY <1>1, FS_EmptySet DEF LabelsFit
<1> QED
  BY <1>1, <1>4, <1>5, TellKeeps

-----------------------------------------------------------------------------
(* Renumbering a session leaves all that is told of it.                    *)
LEMMA RenumberTells ==
    ASSUME NEW s, NEW done \in SUBSET FaultClasses, NEW tr, NEW u, Alters(u, tr, 10, s), NEW base,
           NEW ls, NEW donors, Tells(tr, base, s, done, ls, donors)
    PROVE  Tells(u, base, s, done, ls, donors)
<1>1. GoneOf(10) = {} /\ SpotsOf(10) = {}
  BY DEF GoneOf, SpotsOf
<1>2. Keeps(u, base, s, done \cup {10})
  BY KeepsOn DEF Tells
<1>3. \A p : SoftAt(p, done \cup {10}) = SoftAt(p, done)
  BY <1>1 DEF SoftAt
<1>4. Keeps(u, base, s, done)
  <2>1. 6 \notin done => 6 \notin done \cup {10}
    OBVIOUS
  <2>2. ASSUME NEW p \in Positions, \A c \in done : p \notin GoneOf(c) PROVE ~ Lacks(u, s, p)
    <3>1. \A c \in done \cup {10} : p \notin GoneOf(c)
      BY <1>1, <2>2
    <3> QED
      BY <1>2, <3>1 DEF Keeps
  <2>3. ASSUME NEW k \in DOMAIN u, NEW p \in Positions, u[k].id = <<s, p>>
        PROVE  /\ Alike(u[k], base[p], SoftAt(p, done))
               /\ 6 \notin done => Codes(u[k]) = Codes(base[p])
    <3>1. /\ Alike(u[k], base[p], SoftAt(p, done \cup {10}))
          /\ 6 \notin done \cup {10} => Codes(u[k]) = Codes(base[p])
      BY <1>2, <2>3 DEF Keeps
    <3> QED
      BY <1>3, <2>1, <3>1
  <2> QED
    BY <2>2, <2>3 DEF Keeps
<1>5. ASSUME NEW b \in done PROVE MarkedBy(ls, b, u, s, donors)
  <2>1. b \in FaultClasses /\ b # 9 /\ Apart(b, 10) /\ 10 \in 1 .. 10
    BY DEF FaultClasses, Apart
  <2>2. PICK l \in ls : l.session = s /\ l.class = b /\ Marked(b, l, tr, s, donors)
    BY <2>1 DEF Tells, MarkedBy
  <2>3. Marked(b, l, u, s, donors)
    BY <2>1, <2>2, MarkedOn
  <2> QED
    BY <2>1, <2>2, <2>3 DEF MarkedBy
<1> QED
  BY <1>4, <1>5 DEF Tells

(* Renumbering and recomputing session_end change no link, time or type.   *)
LEMMA WriteAlters ==
    ASSUME NEW tr, NEW m \in Nat, DOMAIN tr = 1 .. m, \A k \in DOMAIN tr : DOMAIN tr[k] = Fields, NEW s, TraceFits(tr, s)
    PROVE  Alters(RecomputeEnd(Renumber(tr)), tr, 10, s)
  BY RenumberAlters DEF TraceFits

(* The session as it is written tells its faults and its distractor.       *)
LEMMA WriteTold ==
    ASSUME TellOK, LogOK, InjectOK, DrawOK, WriteSession
    PROVE  Tells(rows'[at], Base(at), at, plan[at] \cup (IF at \in d1 THEN {9} ELSE {}), labels, DonorsFor(at))
<1> DEFINE swapped == IF at \in d1 THEN ApplyD1(Current) ELSE Current
           u == IF plan[at] = {} /\ at \notin d1 THEN Current ELSE RecomputeEnd(Renumber(swapped))
<1>1. rows' = [rows EXCEPT ![at] = u] /\ phase = "inject" /\ Todo = {}
  BY DEF WriteSession, Current
<1>2. /\ at \in Sessions /\ applied \subseteq plan[at] /\ Survives(Current, Base(at), applied)
  BY <1>1 DEF InjectOK, Current
<1>3. applicant[at] \in Applicants
  BY <1>2, ApplyingAssumption DEF DrawOK
<1>4. TraceFits(Current, at)
  BY <1>2 DEF LogOK, Current
<1>5. applied = plan[at] /\ applied \in SUBSET FaultClasses
  BY <1>1, <1>2, InstanceFacts DEF Todo, DrawOK
<1>6. ~ WrittenAlready(at)
  BY <1>1, <1>2, InstanceFacts DEF WrittenAlready, Sessions, DrawOK
<1>7. MarksOn(at) = applied
  BY <1>1, <1>6 DEF MarksOn, DoneTo
<1>8. Tells(Current, Base(at), at, applied, labels, DonorsFor(at))
  BY <1>2, <1>7 DEF TellOK, Current
<1>9. rows'[at] = u
  BY <1>1, RowIs
<1>10. Len(Base(at)) \in Nat
  BY <1>3, BaseEvents DEF Base
<1>11. CASE plan[at] = {} /\ at \notin d1
  BY <1>5, <1>8, <1>9, <1>11
<1>12. CASE ~ (plan[at] = {}) /\ at \notin d1
  <2>1. u = RecomputeEnd(Renumber(Current))
    BY <1>12
  <2> HIDE DEF swapped, u
  <2>2. PICK m \in Nat : DOMAIN Current = 1 .. m
    BY <1>2, <1>10 DEF Survives
  <2>3. \A k \in DOMAIN Current : DOMAIN Current[k] = Fields
    BY <1>2 DEF Survives, EventsOf
  <2>4. Alters(u, Current, 10, at)
    BY <1>4, <2>1, <2>2, <2>3, WriteAlters
  <2>5. Tells(u, Base(at), at, applied, labels, DonorsFor(at))
    BY <1>5, <1>8, <2>4, RenumberTells
  <2> QED
    BY <1>5, <1>9, <1>12, <2>5
<1>13. CASE at \in d1
  <2> DEFINE v == SwapApprover(Current, BoundaryApprover, {"authorised"})
  <2>1. u = RecomputeEnd(Renumber(v))
    BY <1>13 DEF ApplyD1
  <2>2. SpansOf(Current, {"request_approval"}) # {} /\ SpansOf(Current, VerdictTypes) # {}
    BY <1>1, <1>13, ApprovalStands
  <2>3. BoundaryApprover.kind = "HumanApprover" /\ {"authorised"} = FactsOf(BoundaryApprover)
    BY DEF BoundaryApprover, Obj, FactsOf
  <2>4. Survives(v, Base(at), applied \cup {3})
    BY <1>2, <1>10, <2>2, SwapSurvives
  <2>5. applied \cap T1Classes = {}
    BY <1>2, <1>5, <1>13 DEF LogOK, DistractorsOK
  <2>6. \A b \in applied : b \in 4 .. 8
    BY <1>5, <2>5 DEF FaultClasses, T1Classes
  <2>7. \A b \in applied : <<2 * Retrievals + 16, "HumanApprover">> \notin SpotsOf(b) /\ Apart(b, 9)
    <3> SUFFICES ASSUME NEW b \in 4 .. 8
                 PROVE  <<2 * Retrievals + 16, "HumanApprover">> \notin SpotsOf(b) /\ Apart(b, 9)
      BY <2>6
    <3>1. b = 4 \/ b = 5 \/ b = 6 \/ b = 7 \/ b = 8
      OBVIOUS
    <3> QED
      BY <3>1 DEF SpotsOf, Apart
  <2> HIDE DEF v, swapped, u
  <2>8. TraceFits(v, at)
    BY <1>2, <1>3, <1>4, <2>2, <2>3, ApprovalSwaps DEF Base, v
  <2>9. PICK m \in Nat : DOMAIN v = 1 .. m
    BY <1>10, <2>4 DEF Survives
  <2>10. \A k \in DOMAIN v : DOMAIN v[k] = Fields
    BY <2>4 DEF Survives, EventsOf
  <2>11. Alters(u, v, 10, at)
    BY <2>1, <2>8, <2>9, <2>10, WriteAlters
  <2>12. /\ Alters(v, Current, 9, at)
         /\ Shows(v, at, 2 * Retrievals + 16, "HumanApprover", {<<"performed_by", BoundaryApprover>>})
    <3>1. Keeps(Current, Base(at), at, applied)
      BY <1>8 DEF Tells
    <3>2. 9 \in {3, 9}
      OBVIOUS
    <3> QED
      BY <1>2, <1>3, <1>4, <2>2, <2>3, <2>7, <3>1, <3>2, SwapAlters DEF Base, v
  <2>13. Alters(u, Current, 9, at)
    BY <2>11, <2>12, AltersTwice
  <2>14. Shows(u, at, 2 * Retrievals + 16, "HumanApprover", {<<"performed_by", BoundaryApprover>>})
    <3>1. "HumanApprover" \in LinkKinds
      BY DEF LinkKinds
    <3>2. 2 * Retrievals + 16 \in Positions
      BY RetrievalFacts DEF Positions
    <3>3. <<2 * Retrievals + 16, "HumanApprover">> \notin SpotsOf(10)
      BY DEF SpotsOf
    <3> QED
      BY <2>11, <2>12, <3>1, <3>2, <3>3, ShowsStill
  <2>15. MarkedBy(labels, 9, u, at, DonorsFor(at)) /\ 9 \in 1 .. 9 /\ labels \subseteq labels
    BY <2>14 DEF MarkedBy
  <2>16. Tells(u, Base(at), at, applied \cup {9}, labels, DonorsFor(at))
    BY <1>5, <1>8, <2>7, <2>13, <2>15, TellsOn
  <2> QED
    BY <1>5, <1>9, <1>13, <2>16
<1> QED
  BY <1>11, <1>12, <1>13

(* Writing a session preserves TellOK.                                     *)
LEMMA WriteTells == ASSUME TellOK, LogOK, InjectOK, DrawOK, WriteSession PROVE TellOK'
<1>1. /\ UNCHANGED <<given, plan, d1, labels>> /\ UNCHANGED <<given, plan>> /\ phase = "inject" /\ applied' = {}
      /\ Todo = {}
      /\ \E u : rows' = [rows EXCEPT ![at] = u]
      /\ IF at < N THEN at' = at + 1 /\ UNCHANGED phase ELSE phase' = "done" /\ UNCHANGED at
  BY DEF WriteSession
<1>2. /\ at \in Sessions /\ applied \subseteq plan[at]
      /\ \A s \in Sessions : s # at => rows'[s] = rows[s]
  BY <1>1, RowIs DEF InjectOK
<1>3. N \in Nat \ {0}
  BY InstanceFacts DEF DrawOK
<1>4. \A s \in Sessions : WrittenAlready(s)' <=> WrittenAlready(s) \/ s = at
  <2>1. \A s \in Sessions : (s < at + 1 <=> s < at \/ s = at) /\ (~ (at < N) => s < at \/ s = at)
    BY <1>2, <1>3 DEF Sessions
  <2> QED
    BY <1>1, <2>1 DEF WrittenAlready
<1>5. applied = plan[at]
  BY <1>1, <1>2 DEF Todo
<1>6. ~ WrittenAlready(at)
  BY <1>1, <1>2, <1>3 DEF WrittenAlready, Sessions
<1>7. \A s \in Sessions : /\ s = at => /\ DoneTo(s) = plan[s] /\ DoneTo(s)' = plan[s]
                                       /\ MarksOn(s)' = plan[s] \cup (IF s \in d1 THEN {9} ELSE {})
                          /\ s # at => DoneTo(s)' = DoneTo(s) /\ MarksOn(s)' = MarksOn(s)
  BY <1>1, <1>4, <1>5, <1>6 DEF DoneTo, MarksOn
<1>8. \A s : DonorsFor(s)' = DonorsFor(s)
  BY <1>1, DonorsKept
<1>9. ASSUME NEW s \in Sessions PROVE Tells(rows'[s], Base(s), s, MarksOn(s)', labels', DonorsFor(s)')
  <2>1. CASE s = at
    <3>1. Tells(rows'[at], Base(at), at, plan[at] \cup (IF at \in d1 THEN {9} ELSE {}), labels, DonorsFor(at))
      BY WriteTold
    <3> QED
      BY <1>1, <1>7, <1>8, <2>1, <3>1
  <2>2. CASE s # at
    <3>1. Tells(rows[s], Base(s), s, MarksOn(s), labels, DonorsFor(s))
      BY DEF TellOK
    <3> QED
      BY <1>1, <1>2, <1>7, <1>8, <2>2, <3>1
  <2> QED
    BY <2>1, <2>2
<1>10. \A l \in labels' : l.session \in Sessions /\ l.class \in DoneTo(l.session)'
  <2>1. ASSUME NEW l \in labels PROVE l.session \in Sessions /\ l.class \in DoneTo(l.session)'
    <3>1. l.session \in Sessions /\ l.class \in DoneTo(l.session)
      BY DEF TellOK
    <3>2. DoneTo(l.session)' = DoneTo(l.session)
      BY <1>7, <3>1
    <3> QED
      BY <3>1, <3>2
  <2> QED
    BY <1>1, <2>1
<1>11. LabelsFit(labels')
  BY <1>1 DEF TellOK
<1>12. phase' \notin {"allocate", "validate"}
  BY <1>1
<1> QED
  BY <1>1, <1>9, <1>10, <1>11, <1>12, TellKeeps

(* A stuttering step preserves TellOK.                                     *)
LEMMA TellKept == ASSUME TellOK, UNCHANGED vars PROVE TellOK'
<1>1. /\ UNCHANGED <<given, phase, plan, d1, at, applied, rows, labels>> /\ UNCHANGED <<given, plan>>
  BY DEF vars
<1>2. \A s : DoneTo(s)' = DoneTo(s) /\ MarksOn(s)' = MarksOn(s)
  BY <1>1 DEF DoneTo, MarksOn, WrittenAlready
<1>3. \A s : DonorsFor(s)' = DonorsFor(s)
  BY <1>1, DonorsKept
<1>4. \A s \in Sessions : Tells(rows'[s], Base(s), s, MarksOn(s)', labels', DonorsFor(s)')
  BY <1>1, <1>2, <1>3 DEF TellOK
<1>5. \A l \in labels' : l.session \in Sessions /\ l.class \in DoneTo(l.session)'
  <2> SUFFICES ASSUME NEW l \in labels PROVE l.session \in Sessions /\ l.class \in DoneTo(l.session)'
    BY <1>1
  <2>1. DoneTo(l.session)' = DoneTo(l.session)
    BY <1>1, <1>2
  <2> QED
    BY <2>1 DEF TellOK
<1>6. LabelsFit(labels')
  BY <1>1 DEF TellOK
<1>7. (instance.split # "mixed" /\ phase' \in {"allocate", "validate"} => at' = 1) /\ (phase' = "validate" => at' = 1)
  BY <1>1 DEF TellOK
<1> QED
  BY <1>1, <1>4, <1>5, <1>6, <1>7, TellKeeps

(* Every step preserves TellOK, given the other invariants.                *)
LEMMA TellStep == TellOK /\ LogOK /\ InjectOK /\ AllocationOK /\ [Next]_vars => TellOK'
<1> SUFFICES ASSUME TellOK, LogOK, InjectOK, AllocationOK, [Next]_vars PROVE TellOK'
  OBVIOUS
<1>1. DrawOK
  BY DEF AllocationOK
<1>2. /\ instance.split # "mixed" /\ phase \in {"allocate", "validate"} => at = 1
      /\ phase = "validate" => at = 1
  BY DEF TellOK
<1>3. CASE AllocateClean \/ AllocateSingle \/ SingleAllocated
  <2>1. /\ UNCHANGED <<given, rows, labels, applied, at>> /\ phase = "allocate" /\ instance.split # "mixed"
        /\ phase' \in {"allocate", "short", "validate"}
    BY <1>3 DEF AllocateClean, AllocateSingle, SingleAllocated
  <2> QED
    BY <1>1, <1>2, <2>1, QuietTells
<1>4. CASE AllocateMixed
  <2>1. /\ UNCHANGED <<given, rows, labels, applied>> /\ phase = "allocate" /\ instance.split = "mixed"
        /\ IF at < N THEN phase' = phase ELSE at' = 1 /\ phase' = "validate"
    BY <1>4 DEF AllocateMixed
  <2> QED
    BY <1>1, <2>1, QuietTells
<1>5. CASE Validate
  <2>1. /\ UNCHANGED <<given, rows, labels, applied, at>> /\ phase = "validate"
        /\ phase' \in {"refused", "inject"}
    BY <1>5 DEF Validate
  <2> QED
    BY <1>1, <1>2, <2>1, QuietTells
<1>6. CASE ApplyFault
  BY <1>1, <1>6, FaultIsTold, FaultTells
<1>7. CASE WriteSession
  BY <1>1, <1>7, WriteTells
<1>8. CASE UNCHANGED vars
  BY <1>8, TellKept
<1> QED
  BY <1>3, <1>4, <1>5, <1>6, <1>7, <1>8 DEF Next

(* TellOK is an invariant: at every moment each trace and the labels tell  *)
(* the same faults.                                                        *)
LEMMA TellHolds == Spec => []TellOK
<1>1. Init => TellOK
  BY AllocationInit, TellInit DEF AllocationOK
<1> QED
  BY <1>1, TellStep, AllocationHolds, InjectHolds, LogHolds, PTL DEF Spec

(* A split that has been written, and all that is known of it.             *)
Finished == phase = "done" /\ TellOK /\ LogOK /\ InjectOK /\ DrawOK

LogEvent(e) == [id |-> e.id, type |-> e.type, time |-> e.time, outcome |-> e.outcome, rels |-> Relations(e)]

(* The event of the log from position p of session s.                      *)
IsEvent(f, s, p) == \E k \in DOMAIN rows[s] : rows[s][k].id = <<s, p>> /\ f = LogEvent(rows[s][k])

Plain(q) == q \notin {"", "declares"}

(* What a rule reads of an event's links to objects of a kind.             *)
Says(f, kind, links) ==
    \A q, o : Plain(q) => (o \in Related(f, q, kind) <=> <<q, o>> \in links)

(* The events of the mapped log are the spans of the split.                *)
LEMMA SplitEvents == SplitLog.events = {LogEvent(e) : e \in AllSpans}
  BY DEF SplitLog, LogEvent

(* An event of the log says what the links of its span say.                *)
LEMMA LogEventSays ==
    ASSUME NEW e, NEW kind
    PROVE  Says(LogEvent(e), kind, Links(e, kind))
<1>6. \A q, o : <<q, o>> \in Links(e, kind) <=> \E r \in e.refs : r.qual = q /\ r.obj = o /\ r.obj.kind = kind
  BY LinksIs
<1> SUFFICES ASSUME NEW q, Plain(q), NEW o
             PROVE  o \in Related(LogEvent(e), q, kind) <=> <<q, o>> \in Links(e, kind)
  BY DEF Says
<1> DEFINE rel(r) == [qual |-> IF r.qual = "" THEN "declares" ELSE r.qual, obj |-> r.obj]
<1>1. LogEvent(e).rels = {rel(r) : r \in e.refs}
  BY DEF LogEvent, Relations
<1>2. o \in Related(LogEvent(e), q, kind) <=> \E x \in LogEvent(e).rels : x.qual = q /\ x.obj.kind = kind /\ x.obj = o
  BY DEF Related
<1>3. \A r : rel(r).obj = r.obj /\ (rel(r).qual = q <=> r.qual = q)
  BY DEF Plain
<1> HIDE DEF rel
<1>4. o \in Related(LogEvent(e), q, kind) <=> \E r \in e.refs : r.qual = q /\ r.obj = o /\ r.obj.kind = kind
  BY <1>1, <1>2, <1>3
<1>5. <<q, o>> \in Links(e, kind) <=> \E r \in e.refs : r.qual = q /\ r.obj = o /\ r.obj.kind = kind
  BY <1>6
<1> QED
  BY <1>4, <1>5

(* An event with a single link of a kind answers one lookup with one       *)
(* object.                                                                 *)
LEMMA SaysOne ==
    ASSUME NEW f, NEW kind, NEW q, Plain(q), NEW o, Says(f, kind, {<<q, o>>})
    PROVE  /\ Related(f, q, kind) = {o}
           /\ \A x : Plain(x) /\ x # q => Related(f, x, kind) = {}
  BY DEF Says

(* An event with no link of a kind answers every lookup with none.         *)
LEMMA SaysNone ==
    ASSUME NEW f, NEW kind, Says(f, kind, {})
    PROVE  \A x : Plain(x) => Related(f, x, kind) = {}
  BY DEF Says

(* Every event of the log has its session and its position in the script.  *)
LEMMA EventsAre ==
    ASSUME Finished, NEW f \in SplitLog.events
    PROVE  \E s \in Sessions : \E p \in Positions : IsEvent(f, s, p)
<1>1. PICK e \in AllSpans : f = LogEvent(e)
  BY SplitEvents
<1>2. PICK s \in Sessions : \E k \in DOMAIN rows[s] : e = rows[s][k]
  BY SpansAre
<1>3. PICK k \in DOMAIN rows[s] : e = rows[s][k]
  BY <1>2
<1>4. IdsFit(rows[s], s)
  BY DEF Finished, LogOK, TraceFits
<1>5. PICK p \in 1 .. 2 * Retrievals + 20 : rows[s][k].id = <<s, p>>
  BY <1>4 DEF IdsFit
<1> QED
  BY <1>1, <1>3, <1>5 DEF IsEvent, Positions

(* A session has one event at a position.                                  *)
LEMMA SameEvent ==
    ASSUME Finished, NEW s \in Sessions, NEW p, NEW f, NEW g, IsEvent(f, s, p), IsEvent(g, s, p)
    PROVE  f = g
<1>1. IdsFit(rows[s], s)
  BY DEF Finished, LogOK, TraceFits
<1> QED
  BY <1>1 DEF IsEvent, IdsFit

(* What TellOK says of a session that has been written.                    *)
LEMMA ToldOf ==
    ASSUME Finished, NEW s \in Sessions
    PROVE  /\ Tells(rows[s], Base(s), s, MarksOn(s), labels, DonorsFor(s))
           /\ DoneTo(s) = plan[s] /\ MarksOn(s) = plan[s] \cup (IF s \in d1 THEN {9} ELSE {})
           /\ plan[s] \subseteq FaultClasses /\ applicant[s] \in Applicants
           /\ s \in Nat \ {0}
<1>1. DoneTo(s) = plan[s] /\ MarksOn(s) = plan[s] \cup (IF s \in d1 THEN {9} ELSE {})
  BY DEF Finished, DoneTo, MarksOn, WrittenAlready
<1>2. plan[s] \subseteq FaultClasses /\ applicant[s] \in Applicants /\ s \in Nat \ {0}
  BY ApplyingAssumption, InstanceFacts DEF Finished, DrawOK, Sessions
<1> QED
  BY <1>1, <1>2 DEF Finished, TellOK

(* An event keeps the id, type, time and outcome of its position.          *)
LEMMA EventIs ==
    ASSUME Finished, NEW s \in Sessions, NEW p \in Positions, NEW f, IsEvent(f, s, p)
    PROVE  /\ f \in SplitLog.events /\ f.id = <<s, p>> /\ f.type = Base(s)[p].type
           /\ f.time = Base(s)[p].time /\ f.outcome = Base(s)[p].outcome
           /\ TypeFits(f.type, p)
<1>1. PICK k \in DOMAIN rows[s] : rows[s][k].id = <<s, p>> /\ f = LogEvent(rows[s][k])
  BY DEF IsEvent
<1>2. rows[s][k] \in AllSpans
  BY SpansAre
<1>3. Keeps(rows[s], Base(s), s, MarksOn(s))
  BY ToldOf DEF Tells
<1>4. Alike(rows[s][k], Base(s)[p], SoftAt(p, MarksOn(s)))
  BY <1>1, <1>3 DEF Keeps
<1>5. f.id = <<s, p>> /\ f.type = Base(s)[p].type /\ f.time = Base(s)[p].time /\ f.outcome = Base(s)[p].outcome
  BY <1>1, <1>4 DEF Alike, LogEvent
<1>6. TypeFits(Base(s)[p].type, p)
  <2>1. applicant[s] \in Applicants
    BY ToldOf
  <2> QED
    BY <2>1, BaseEvents DEF Base, Positions
<1> QED
  BY <1>1, <1>2, <1>5, <1>6, SplitEvents

(* Where no fault of the session reaches, an event says what the fleet     *)
(* wrote.                                                                  *)
LEMMA SaysHard ==
    ASSUME Finished, NEW s \in Sessions, NEW p \in Positions, NEW f, IsEvent(f, s, p),
           NEW kind \in LinkKinds, \A c \in MarksOn(s) : <<p, kind>> \notin SpotsOf(c)
    PROVE  Says(f, kind, Links(Base(s)[p], kind))
<1>1. PICK k \in DOMAIN rows[s] : rows[s][k].id = <<s, p>> /\ f = LogEvent(rows[s][k])
  BY DEF IsEvent
<1>2. Keeps(rows[s], Base(s), s, MarksOn(s))
  BY ToldOf DEF Tells
<1>3. Links(rows[s][k], kind) = Links(Base(s)[p], kind)
  BY <1>1, <1>2, LinksKept
<1> QED
  BY <1>1, <1>3, LogEventSays

(* Where a fault left its mark, the event says so in the log.              *)
LEMMA SaysShown ==
    ASSUME NEW s, NEW p, NEW f, IsEvent(f, s, p), NEW kind, NEW links, Shows(rows[s], s, p, kind, links)
    PROVE  Says(f, kind, links)
<1>1. PICK k \in DOMAIN rows[s] : rows[s][k].id = <<s, p>> /\ f = LogEvent(rows[s][k])
  BY DEF IsEvent
<1>2. Links(rows[s][k], kind) = links
  BY <1>1 DEF Shows
<1> QED
  BY <1>1, <1>2, LogEventSays

(* An event is in the log unless a fault of its session deleted it.        *)
LEMMA EventThere ==
    ASSUME Finished, NEW s \in Sessions, NEW p \in Positions
    PROVE  /\ (\A c \in MarksOn(s) : p \notin GoneOf(c)) => \E f : IsEvent(f, s, p)
           /\ Lacks(rows[s], s, p) => ~ \E f : IsEvent(f, s, p)
           /\ ~ Lacks(rows[s], s, p) => \E f : IsEvent(f, s, p)
<1>1. Keeps(rows[s], Base(s), s, MarksOn(s))
  BY ToldOf DEF Tells
<1>2. ~ Lacks(rows[s], s, p) => \E f : IsEvent(f, s, p)
  BY DEF Lacks, IsEvent
<1>3. Lacks(rows[s], s, p) => ~ \E f : IsEvent(f, s, p)
  BY DEF Lacks, IsEvent
<1> QED
  BY <1>1, <1>2, <1>3 DEF Keeps

(* An event is found by its id.                                            *)
LEMMA EventOf ==
    ASSUME Finished, NEW f \in SplitLog.events, NEW s, NEW p, f.id = <<s, p>>
    PROVE  s \in Sessions /\ p \in Positions /\ IsEvent(f, s, p)
<1>1. PICK x \in Sessions, y \in Positions : IsEvent(f, x, y)
  BY EventsAre
<1>2. f.id = <<x, y>>
  BY <1>1, EventIs
<1> QED
  BY <1>1, <1>2

(* Violations found for a label.                                           *)
FoundOf(l) == [constraint |-> l.constraint, events |-> l.events, objects |-> l.objects]

(* The log has the facts of every declared object.                         *)
LEMMA FactsDomain == DOMAIN SplitLog.facts = {r.obj : r \in Declarations}
  BY DEF SplitLog

(* The objects an event relates to are those its span references.          *)
LEMMA RelationObjects ==
    ASSUME NEW e
    PROVE  \A x \in LogEvent(e).rels : \E r \in e.refs : x.obj = r.obj
<1> DEFINE rel(r) == [qual |-> IF r.qual = "" THEN "declares" ELSE r.qual, obj |-> r.obj]
<1>1. LogEvent(e).rels = {rel(r) : r \in e.refs}
  BY DEF LogEvent, Relations
<1>2. \A r : rel(r).obj = r.obj
  OBVIOUS
<1> HIDE DEF rel
<1> QED
  BY <1>1, <1>2

(* What an event is related to is declared, so its facts are defined.      *)
LEMMA NamedIsDeclared ==
    ASSUME Finished, NEW s \in Sessions, NEW p, NEW f, IsEvent(f, s, p), NEW kind, NEW q, NEW o \in Related(f, q, kind)
    PROVE  o \in DOMAIN SplitLog.facts /\ o.kind = kind
<1>1. PICK k \in DOMAIN rows[s] : rows[s][k].id = <<s, p>> /\ f = LogEvent(rows[s][k])
  BY DEF IsEvent
<1>2. PICK x \in f.rels : x.obj = o /\ x.obj.kind = kind
  BY DEF Related
<1>3. \E r \in rows[s][k].refs : r.obj = x.obj
  BY <1>1, <1>2, RelationObjects
<1>4. PICK r \in rows[s][k].refs : r.obj = x.obj
  BY <1>3
<1>5. PICK z \in Sessions : r.obj \in DeclaredIn(rows[z])
  BY LogCloses DEF Finished
<1> QED
  BY <1>2, <1>4, <1>5, SpansAre, FactsDomain

(* The facts of an object are those of some declaration of it.             *)
LEMMA DeclaredWhere ==
    ASSUME Finished, NEW o, o \in DOMAIN SplitLog.facts
    PROVE  \E s \in Sessions : \E k \in DOMAIN rows[s] : \E r \in rows[s][k].refs :
               r.obj = o /\ r.declares /\ SplitLog.facts[o] = r.facts
<1> DEFINE r == CHOOSE x \in Declarations : x.obj = o
<1>1. o \in {x.obj : x \in Declarations}
  BY FactsDomain
<1>2. r \in Declarations /\ r.obj = o
  BY <1>1
<1>3. SplitLog.facts[o] = r.facts
  BY <1>1 DEF SplitLog
<1> HIDE DEF r
<1>4. r.declares /\ \E e \in AllSpans : r \in e.refs
  BY <1>2 DEF Declarations
<1>5. PICK e \in AllSpans : r \in e.refs
  BY <1>4
<1>6. PICK s \in Sessions : \E k \in DOMAIN rows[s] : e = rows[s][k]
  BY SpansAre
<1> QED
  BY <1>2, <1>3, <1>4, <1>5, <1>6

(* But for decisions, the facts of an object are those of its kind and     *)
(* owner.                                                                  *)
LEMMA FactsAre ==
    ASSUME Finished, NEW o, o \in DOMAIN SplitLog.facts, o.kind # "CreditDecision"
    PROVE  SplitLog.facts[o] = FactsOf(o)
<1>1. PICK s \in Sessions : \E k \in DOMAIN rows[s] : \E r \in rows[s][k].refs :
          r.obj = o /\ r.declares /\ SplitLog.facts[o] = r.facts
  BY DeclaredWhere
<1>2. PICK k \in DOMAIN rows[s] : \E r \in rows[s][k].refs :
          r.obj = o /\ r.declares /\ SplitLog.facts[o] = r.facts
  BY <1>1
<1>3. PICK r \in rows[s][k].refs : r.obj = o /\ r.declares /\ SplitLog.facts[o] = r.facts
  BY <1>2
<1>4. TraceFits(rows[s], s)
  BY DEF Finished, LogOK
<1>5. RefFits(r, rows[s][k].type)
  BY <1>4, FitsParts
<1> QED
  BY <1>3, <1>5 DEF RefFits

(* The facts of a decision are those its own event declares.               *)
LEMMA DecisionFacts ==
    ASSUME Finished, NEW s \in Sessions, NEW k \in DOMAIN rows[s], rows[s][k].id = Decided(s)
    PROVE  DecisionOf(s) \in DOMAIN SplitLog.facts /\ SplitLog.facts[DecisionOf(s)] = Codes(rows[s][k])
<1>1. ASSUME NEW x \in Sessions PROVE TraceFits(rows[x], x)
  BY DEF Finished, LogOK
<1>2. DecisionOf(s) \in DOMAIN SplitLog.facts
  BY <1>1, FitsParts, SpansAre, FactsDomain
<1>3. PICK x \in Sessions : \E j \in DOMAIN rows[x] : \E r \in rows[x][j].refs :
          r.obj = DecisionOf(s) /\ r.declares /\ SplitLog.facts[DecisionOf(s)] = r.facts
  BY <1>2, DeclaredWhere
<1>4. PICK j \in DOMAIN rows[x] : \E r \in rows[x][j].refs :
          r.obj = DecisionOf(s) /\ r.declares /\ SplitLog.facts[DecisionOf(s)] = r.facts
  BY <1>3
<1>5. PICK r \in rows[x][j].refs : r.obj = DecisionOf(s) /\ r.declares /\ SplitLog.facts[DecisionOf(s)] = r.facts
  BY <1>4
<1>6. RefFits(r, rows[x][j].type) /\ EventFits(rows[x][j], x) /\ RefsFit(rows[x][j])
  BY <1>1, FitsParts
<1>7. r.obj.kind = "CreditDecision"
  BY <1>5, DecisionIs
<1>8. r.obj = DecisionOf(x) /\ rows[x][j].type = "make_decision"
  BY <1>5, <1>6, <1>7, DeclarersAre DEF EventFits, RefFits
<1>9. x = s
  BY <1>5, <1>8, DecisionIs
<1>10. rows[s][k].type = "make_decision"
  <2>1. IsEvent(LogEvent(rows[s][k]), s, 2 * Retrievals + 17)
    BY DEF IsEvent, Decided
  <2>2. 2 * Retrievals + 17 \in Positions
    BY RetrievalFacts DEF Positions
  <2>3. TypeFits(LogEvent(rows[s][k]).type, 2 * Retrievals + 17)
    BY <2>1, <2>2, EventIs
  <2> QED
    BY <2>3 DEF TypeFits, LogEvent
<1>11. j = k
  BY <1>1, <1>8, <1>9, <1>10 DEF TraceFits, IdsFit
<1>12. \A y \in rows[s][k].refs : y.obj.kind = "CreditDecision" => y = r
  BY <1>5, <1>6, <1>7, <1>8, <1>9, <1>11 DEF RefsFit
<1>13. {x1 \in rows[s][k].refs : x1.declares /\ x1.obj.kind = "CreditDecision"} = {r}
  BY <1>5, <1>7, <1>9, <1>11, <1>12
<1>14. Codes(rows[s][k]) = r.facts
  BY <1>13 DEF Codes
<1> QED
  BY <1>2, <1>5, <1>14

-----------------------------------------------------------------------------
(* A label belongs to a fault of its session and carries its mark.         *)
LEMMA LabelIs ==
    ASSUME Finished, NEW l \in labels
    PROVE  /\ l.session \in Sessions /\ l.class \in plan[l.session] /\ l.class \in FaultClasses
           /\ Marked(l.class, l, rows[l.session], l.session, DonorsFor(l.session))
<1> DEFINE s == l.session
<1>1. s \in Sessions /\ l.class \in DoneTo(s)
  BY DEF Finished, TellOK
<1> HIDE DEF s
<1>2. /\ Tells(rows[s], Base(s), s, MarksOn(s), labels, DonorsFor(s))
      /\ DoneTo(s) = plan[s] /\ plan[s] \subseteq MarksOn(s) /\ plan[s] \subseteq FaultClasses
  BY <1>1, ToldOf
<1>3. l.class # 9
  BY <1>1, <1>2 DEF FaultClasses
<1>4. MarkedBy(labels, l.class, rows[s], s, DonorsFor(s))
  BY <1>1, <1>2 DEF Tells
<1>5. PICK m \in labels : m.session = s /\ m.class = l.class /\ Marked(l.class, m, rows[s], s, DonorsFor(s))
  BY <1>3, <1>4 DEF MarkedBy
<1>6. m = l
  BY <1>5 DEF Finished, TellOK, LabelsFit, s
<1> QED
  BY <1>1, <1>2, <1>5, <1>6 DEF s

(* Every fault of a session has a label with its mark.                     *)
LEMMA LabelOf ==
    ASSUME Finished, NEW s \in Sessions, NEW c \in plan[s]
    PROVE  \E l \in labels : l.session = s /\ l.class = c /\ Marked(c, l, rows[s], s, DonorsFor(s))
<1>1. /\ Tells(rows[s], Base(s), s, MarksOn(s), labels, DonorsFor(s))
      /\ c \in MarksOn(s) /\ c \in FaultClasses
  BY ToldOf
<1>2. MarkedBy(labels, c, rows[s], s, DonorsFor(s)) /\ c # 9
  BY <1>1 DEF Tells, FaultClasses
<1> QED
  BY <1>2 DEF MarkedBy

(* The violation a label stands for, from what it cites.                   *)
LEMMA FoundIs ==
    ASSUME NEW l, NEW constraint, NEW events, NEW objects, Cites(l, constraint, events, objects)
    PROVE  FoundOf(l) = [constraint |-> constraint, events |-> events, objects |-> objects]
  BY DEF Cites, FoundOf

(* At most one of V1, V2, V3 and the distractor is done to a session, and  *)
(* only where it is eligible.                                              *)
LEMMA MarksFit ==
    ASSUME Finished, NEW s \in Sessions
    PROVE  /\ MarksOn(s) \subseteq 1 .. 9
           /\ \A c \in FaultClasses : c \in MarksOn(s) <=> c \in plan[s]
           /\ \A b, c \in MarksOn(s) \cap {1, 2, 3, 9} : b = c
           /\ \A c \in plan[s] \cap {1, 2, 3} : NeedsApproval(s)
           /\ 6 \in plan[s] => Outcome(s) = "deny"
           /\ 9 \in MarksOn(s) => Shows(rows[s], s, 2 * Retrievals + 16, "HumanApprover",
                                        {<<"performed_by", BoundaryApprover>>})
<1>1. /\ MarksOn(s) = plan[s] \cup (IF s \in d1 THEN {9} ELSE {}) /\ plan[s] \subseteq FaultClasses
      /\ Tells(rows[s], Base(s), s, MarksOn(s), labels, DonorsFor(s))
  BY ToldOf
<1>2. MarksOn(s) \subseteq 1 .. 9 /\ \A c \in FaultClasses : c \in MarksOn(s) <=> c \in plan[s]
  BY <1>1 DEF FaultClasses
<1>3. s \in d1 => plan[s] \cap T1Classes = {}
  BY DEF Finished, LogOK, DistractorsOK
<1>4. \A b, c \in plan[s] \cap T1Classes : b = c
  BY DEF Finished, InjectOK, PlanOK
<1>5. \A c \in plan[s] : Eligible(c, s)
  BY DEF Finished, InjectOK, PlanOK
<1>6. \A b, c \in MarksOn(s) \cap {1, 2, 3, 9} : b = c
  BY <1>1, <1>3, <1>4 DEF T1Classes, FaultClasses
<1>7. 9 \in MarksOn(s) => MarkedBy(labels, 9, rows[s], s, DonorsFor(s))
  BY <1>1 DEF Tells
<1> QED
  BY <1>2, <1>5, <1>6, <1>7 DEF Eligible, MarkedBy

IsDecision(f, s) ==
    /\ IsEvent(f, s, 2 * Retrievals + 17) /\ f \in Decisions(SplitLog) /\ f.id = Decided(s)
    /\ f.outcome = Outcome(s) /\ f.time = Base(s)[2 * Retrievals + 17].time
    /\ Says(f, "CreditDecision", {<<"produces", DecisionOf(s)>>})
    /\ Says(f, "Application", {<<"concerns", AppObj(s)>>})
    /\ Says(f, "Session", {<<"within", SessionObj(s)>>})

IsGrant(f, s) ==
    /\ IsEvent(f, s, 2 * Retrievals + 16) /\ f \in Approvals(SplitLog) /\ f.id = Granted(s)
    /\ f.time = Base(s)[2 * Retrievals + 16].time /\ applicant[s].granted
    /\ Says(f, "Session", {<<"within", SessionObj(s)>>})

(* Every event names the session it belongs to and no other.               *)
LEMMA SessionSaid ==
    ASSUME Finished, NEW s \in Sessions, NEW p \in Positions, NEW f, IsEvent(f, s, p)
    PROVE  Says(f, "Session", {<<"within", SessionObj(s)>>}) /\ SessionOf(f) = {SessionObj(s)}
<1>1. \A c \in MarksOn(s) : <<p, "Session">> \notin SpotsOf(c)
  <2> SUFFICES ASSUME NEW c PROVE <<p, "Session">> \notin SpotsOf(c)
    OBVIOUS
  <2>1. CASE c = 2
    BY <2>1 DEF SpotsOf
  <2>2. CASE c \in {3, 9}
    BY <2>2 DEF SpotsOf
  <2>3. CASE c = 5
    BY <2>3 DEF SpotsOf
  <2>4. CASE c = 6
    BY <2>4 DEF SpotsOf
  <2>5. CASE c = 7
    BY <2>5 DEF SpotsOf
  <2>6. CASE c = 8
    BY <2>6 DEF SpotsOf
  <2>7. CASE c \notin {2, 3, 5, 6, 7, 8, 9}
    BY <2>7 DEF SpotsOf
  <2> QED
    BY <2>1, <2>2, <2>3, <2>4, <2>5, <2>6, <2>7
<1>2. "Session" \in LinkKinds
  BY DEF LinkKinds
<1>3. Says(f, "Session", Links(Base(s)[p], "Session"))
  BY <1>1, <1>2, SaysHard
<1>4. applicant[s] \in Applicants
  BY ToldOf
<1>5. Links(Base(s)[p], "Session") = {<<"within", SessionObj(s)>>}
  BY <1>4, BaseLinks DEF BaseLinksAre, Base
<1>6. Says(f, "Session", {<<"within", SessionObj(s)>>}) /\ Plain("within")
  BY <1>3, <1>5 DEF Plain
<1>7. SessionOf(f) = {SessionObj(s)}
  BY <1>6, SaysOne DEF SessionOf
<1> QED
  BY <1>6, <1>7

(* No fault changes the application of an event, nor what the decision and *)
(* the early reasonings say of the decision.                               *)
LEMMA NotSpots ==
    ASSUME NEW p, NEW kind \in {"Application", "CreditDecision"}, NEW c, NEW n, n = Retrievals,
           kind = "Application" \/ p = 2 * n + 17 \/ p = 4 \/ p = 2 * n + 11
    PROVE  <<p, kind>> \notin SpotsOf(c)
<1>0. n \in Nat \ {0}
  BY RetrievalFacts
<1>1. CASE c = 2
  BY <1>0, <1>1 DEF SpotsOf
<1>2. CASE c \in {3, 9}
  BY <1>2 DEF SpotsOf
<1>3. CASE c = 5
  BY <1>3 DEF SpotsOf
<1>4. CASE c = 6
  BY <1>0, <1>4 DEF SpotsOf
<1>5. CASE c = 7
  BY <1>5 DEF SpotsOf
<1>6. CASE c = 8
  BY <1>6 DEF SpotsOf
<1>7. CASE c \notin {2, 3, 5, 6, 7, 8, 9}
  BY <1>7 DEF SpotsOf
<1> QED
  BY <1>1, <1>2, <1>3, <1>4, <1>5, <1>6, <1>7

(* The positions no fault deletes.                                         *)
LEMMA NotGone ==
    ASSUME NEW p \in {2, 3, 4, 6, 2 * Retrievals + 8, 2 * Retrievals + 11, 2 * Retrievals + 13, 2 * Retrievals + 17,
                      2 * Retrievals + 18}, NEW c
    PROVE  p \in Positions /\ p \notin GoneOf(c)
<1> DEFINE n == Retrievals
<1>0. n \in Nat \ {0} /\ p \in Positions
  BY RetrievalFacts DEF Positions
<1>1. CASE c = 1
  BY <1>0, <1>1 DEF GoneOf
<1>2. CASE c = 4
  <2>1. \A i \in 1 .. n : p # 2 * i + 5 /\ p # 2 * i + 6
    BY <1>0
  <2> QED
    BY <1>0, <1>2, <2>1 DEF GoneOf
<1>3. CASE c = 7
  BY <1>0, <1>3 DEF GoneOf, HandoffAt
<1>4. CASE c \notin {1, 4, 7}
  BY <1>0, <1>4 DEF GoneOf
<1> QED
  BY <1>1, <1>2, <1>3, <1>4

(* The event at the place of the decision is the decision, as the fleet    *)
(* wrote it.                                                               *)
LEMMA DecisionIsThere ==
    ASSUME Finished, NEW s \in Sessions, NEW f, IsEvent(f, s, 2 * Retrievals + 17)
    PROVE  IsDecision(f, s)
<1> DEFINE n == Retrievals
<1>1. 2 * n + 17 \in Positions /\ applicant[s] \in Applicants
  BY ToldOf, RetrievalFacts DEF Positions
<1>2. /\ f \in SplitLog.events /\ f.id = Decided(s) /\ f.time = Base(s)[2 * n + 17].time
      /\ f.outcome = Base(s)[2 * n + 17].outcome /\ TypeFits(f.type, 2 * n + 17)
  BY <1>1, EventIs DEF Decided
<1>3. f \in Decisions(SplitLog)
  BY <1>2 DEF TypeFits, Decisions, OfType
<1>4. f.outcome = Outcome(s)
  BY <1>1, <1>2, BaseDecision DEF Base, Outcome
<1>5. \A kind \in {"CreditDecision", "Application"} :
          kind \in LinkKinds /\ \A c \in MarksOn(s) : <<2 * n + 17, kind>> \notin SpotsOf(c)
  BY NotSpots DEF LinkKinds
<1>6. \A kind \in {"CreditDecision", "Application"} : Says(f, kind, Links(Base(s)[2 * n + 17], kind))
  BY <1>1, <1>5, SaysHard
<1>7. /\ Links(Base(s)[2 * n + 17], "CreditDecision") = {<<"produces", DecisionOf(s)>>}
      /\ Links(Base(s)[2 * n + 17], "Application") = {<<"concerns", AppObj(s)>>}
  BY <1>1, BaseLinks DEF BaseLinksAre, Base
<1>8. Says(f, "Session", {<<"within", SessionObj(s)>>})
  BY <1>1, SessionSaid
<1> QED
  BY <1>2, <1>3, <1>4, <1>6, <1>7, <1>8 DEF IsDecision

(* The decisions of the log: exactly one per session.                      *)
LEMMA DecisionsAre ==
    ASSUME Finished
    PROVE  /\ \A f \in Decisions(SplitLog) : \E s \in Sessions : IsDecision(f, s)
           /\ \A s \in Sessions : \E f \in Decisions(SplitLog) : IsDecision(f, s)
           /\ \A s \in Sessions : \A f, g : IsDecision(f, s) /\ IsDecision(g, s) => f = g
<1>1. ASSUME NEW f \in Decisions(SplitLog) PROVE \E s \in Sessions : IsDecision(f, s)
  <2>1. f \in SplitLog.events /\ f.type = "make_decision"
    BY DEF Decisions, OfType
  <2>2. PICK s \in Sessions, p \in Positions : IsEvent(f, s, p)
    BY <2>1, EventsAre
  <2>3. p = 2 * Retrievals + 17
    BY <2>1, <2>2, EventIs DEF TypeFits
  <2> QED
    BY <2>2, <2>3, DecisionIsThere
<1>2. ASSUME NEW s \in Sessions PROVE \E f \in Decisions(SplitLog) : IsDecision(f, s)
  <2>1. 2 * Retrievals + 17 \in Positions /\ \A c \in MarksOn(s) : 2 * Retrievals + 17 \notin GoneOf(c)
    BY NotGone, RetrievalFacts DEF Positions
  <2>2. PICK f : IsEvent(f, s, 2 * Retrievals + 17)
    BY <2>1, EventThere
  <2> QED
    BY <2>2, DecisionIsThere DEF IsDecision
<1> QED
  BY <1>1, <1>2, SameEvent DEF IsDecision

(* The event at the place of the verdict is a grant where the approver     *)
(* granted.                                                                *)
LEMMA GrantIsThere ==
    ASSUME Finished, NEW s \in Sessions, NEW f, IsEvent(f, s, 2 * Retrievals + 16)
    PROVE  /\ applicant[s].granted => IsGrant(f, s)
           /\ f.type = "grant_approval" => IsGrant(f, s)
<1> DEFINE n == Retrievals
<1>1. 2 * n + 16 \in Positions /\ applicant[s] \in Applicants
  BY ToldOf, RetrievalFacts DEF Positions
<1>2. /\ f \in SplitLog.events /\ f.id = Granted(s) /\ f.time = Base(s)[2 * n + 16].time
      /\ f.type = Base(s)[2 * n + 16].type
  BY <1>1, EventIs DEF Granted
<1>3. Base(s)[2 * n + 16].type = IF applicant[s].granted THEN "grant_approval" ELSE "deny_approval"
  <2>1. Base(s)[2 * n + 16].type = CreditScript(applicant[s])[2 * n + 16].type
    BY <1>1, BaseNames DEF Base
  <2>2. CreditScript(applicant[s])[2 * n + 16] = ApprovalVerdict(applicant[s])
    BY ScriptIs DEF IsScript
  <2> QED
    BY <2>1, <2>2, EventTypes
<1>4. applicant[s].granted \in BOOLEAN
  BY <1>1 DEF Applicants
<1>5. f.type = "grant_approval" <=> applicant[s].granted
  BY <1>2, <1>3, <1>4
<1>6. Says(f, "Session", {<<"within", SessionObj(s)>>})
  BY <1>1, SessionSaid
<1>7. f.type = "grant_approval" => f \in Approvals(SplitLog)
  BY <1>2 DEF Approvals, OfType
<1> QED
  BY <1>2, <1>5, <1>6, <1>7 DEF IsGrant

(* The grants of the log: at most one per session, and one wherever V1 did *)
(* not delete it.                                                          *)
LEMMA GrantsAre ==
    ASSUME Finished
    PROVE  /\ \A f \in Approvals(SplitLog) : \E s \in Sessions : IsGrant(f, s)
           /\ \A s \in Sessions : applicant[s].granted /\ 1 \notin plan[s] => \E f : IsGrant(f, s)
           /\ \A s \in Sessions : \A f, g : IsGrant(f, s) /\ IsGrant(g, s) => f = g
<1>1. ASSUME NEW f \in Approvals(SplitLog) PROVE \E s \in Sessions : IsGrant(f, s)
  <2>1. f \in SplitLog.events /\ f.type = "grant_approval"
    BY DEF Approvals, OfType
  <2>2. PICK s \in Sessions, p \in Positions : IsEvent(f, s, p)
    BY <2>1, EventsAre
  <2>3. p = 2 * Retrievals + 16
    BY <2>1, <2>2, EventIs DEF TypeFits, VerdictTypes
  <2> QED
    BY <2>1, <2>2, <2>3, GrantIsThere
<1>2. ASSUME NEW s \in Sessions, applicant[s].granted, 1 \notin plan[s] PROVE \E f : IsGrant(f, s)
  <2>1. 2 * Retrievals + 16 \in Positions
    BY RetrievalFacts DEF Positions
  <2>2. 1 \notin MarksOn(s)
    BY <1>2, MarksFit DEF FaultClasses
  <2>3. ASSUME NEW c \in MarksOn(s) PROVE 2 * Retrievals + 16 \notin GoneOf(c)
    <3>1. c # 1
      BY <2>2, <2>3
    <3>2. CASE c = 4
      BY <3>2, RetrievalFacts DEF GoneOf
    <3>3. CASE c = 7
      BY <3>3, RetrievalFacts DEF GoneOf, HandoffAt
    <3>4. CASE c \notin {1, 4, 7}
      BY <3>4 DEF GoneOf
    <3> QED
      BY <3>1, <3>2, <3>3, <3>4
  <2>4. PICK f : IsEvent(f, s, 2 * Retrievals + 16)
    BY <2>1, <2>3, EventThere
  <2> QED
    BY <1>2, <2>4, GrantIsThere
<1> QED
  BY <1>1, <1>2, SameEvent DEF IsGrant

Endorses(f, d) == Says(f, "CreditDecision", {<<"approves", d>>})

(* A grant endorses its own decision, unless V2 pointed it at a donor's.   *)
LEMMA EndorseIs ==
    ASSUME Finished, NEW s \in Sessions, NEW f, IsGrant(f, s)
    PROVE  /\ 2 \notin plan[s] => Endorses(f, DecisionOf(s))
           /\ 2 \in plan[s] => \E d \in DonorsFor(s) : Endorses(f, d)
<1> DEFINE n == Retrievals
<1>1. 2 * n + 16 \in Positions /\ applicant[s] \in Applicants /\ applicant[s].granted /\ IsEvent(f, s, 2 * n + 16)
  BY ToldOf, RetrievalFacts DEF Positions, IsGrant
<1>2. CASE 2 \notin plan[s]
  <2>1. \A c \in MarksOn(s) : c # 2
    BY <1>2, MarksFit DEF FaultClasses
  <2>2. "CreditDecision" \in LinkKinds
    BY DEF LinkKinds
  <2>3. ASSUME NEW c \in MarksOn(s) PROVE <<2 * n + 16, "CreditDecision">> \notin SpotsOf(c)
    <3>1. c \in 1 .. 9 /\ c # 2
      BY <2>1, MarksFit
    <3>2. c = 1 \/ c = 3 \/ c = 4 \/ c = 5 \/ c = 6 \/ c = 7 \/ c = 8 \/ c = 9
      BY <3>1
    <3> QED
      BY <3>2, RetrievalFacts DEF SpotsOf
  <2>4. Says(f, "CreditDecision", Links(Base(s)[2 * n + 16], "CreditDecision"))
    BY <1>1, <2>2, <2>3, SaysHard
  <2>5. Links(Base(s)[2 * n + 16], "CreditDecision") = {<<"approves", DecisionOf(s)>>}
    BY <1>1, BaseLinks DEF BaseLinksAre, Base
  <2> QED
    BY <1>2, <2>4, <2>5 DEF Endorses
<1>3. CASE 2 \in plan[s]
  <2>1. PICK l \in labels : Marked(2, l, rows[s], s, DonorsFor(s))
    BY <1>3, LabelOf
  <2>2. MarkOfV2(l, rows[s], s, DonorsFor(s))
    BY <2>1 DEF Marked
  <2>3. PICK d \in DonorsFor(s) : Shows(rows[s], s, 2 * n + 16, "CreditDecision", {<<"approves", d>>})
    BY <2>2 DEF MarkOfV2
  <2>4. Endorses(f, d)
    BY <1>1, <2>3, SaysShown DEF Endorses
  <2> QED
    BY <1>3, <2>4
<1> QED
  BY <1>2, <1>3

(* What an approval endorses, as T1 looks it up.                           *)
LEMMA EndorsedIs ==
    ASSUME NEW f, NEW d, Endorses(f, d)
    PROVE  Endorsed(f) = {d}
<1>1. Plain("approves")
  BY DEF Plain
<1> QED
  BY <1>1, SaysOne DEF Endorsed, Endorses

(* A donor's decision is another session's, and that session carries no    *)
(* fault of T1.                                                            *)
LEMMA DonorsAre ==
    ASSUME NEW s \in Sessions, NEW d \in DonorsFor(s)
    PROVE  d # DecisionOf(s) /\ \E y \in Sessions : d = DecisionOf(y) /\ plan[y] \cap T1Classes = {}
  BY DEF DonorsFor, Donors

(* Whose approval endorses a decision.                                     *)
LEMMA EndorserIs ==
    ASSUME Finished, NEW s \in Sessions, plan[s] \cap T1Classes # {}, NEW x \in Sessions, NEW f, IsGrant(f, x),
           DecisionOf(s) \in Endorsed(f)
    PROVE  x = s /\ 2 \notin plan[s]
<1>1. CASE 2 \notin plan[x]
  <2>1. Endorsed(f) = {DecisionOf(x)}
    BY <1>1, EndorseIs, EndorsedIs
  <2>2. x = s
    BY <2>1, DecisionIs
  <2> QED
    BY <1>1, <2>2
<1>2. CASE 2 \in plan[x]
  <2>1. PICK d \in DonorsFor(x) : Endorses(f, d)
    BY <1>2, EndorseIs
  <2>2. d = DecisionOf(s)
    BY <2>1, EndorsedIs
  <2>3. PICK y \in Sessions : d = DecisionOf(y) /\ plan[y] \cap T1Classes = {}
    BY DonorsAre
  <2>4. y = s
    BY <2>2, <2>3, DecisionIs
  <2> QED
    BY <2>3, <2>4
<1> QED
  BY <1>1, <1>2

(* The grant of a session comes strictly before its decision.              *)
LEMMA GrantPrecedes ==
    ASSUME Finished, NEW s \in Sessions, NEW a, IsGrant(a, s), NEW e, IsDecision(e, s)
    PROVE  StrictlyBefore(a, e)
<1>1. applicant[s] \in Applicants /\ s \in Nat
  BY ToldOf
<1>2. 2 * Retrievals + 16 \in Positions /\ 2 * Retrievals + 17 \in Positions
      /\ 2 * Retrievals + 16 < 2 * Retrievals + 17
  BY RetrievalFacts DEF Positions
<1>3. Base(s)[2 * Retrievals + 16].time < Base(s)[2 * Retrievals + 17].time
  BY <1>1, <1>2, BaseTimes DEF Base
<1> QED
  BY <1>3 DEF IsGrant, IsDecision, StrictlyBefore

(* A grant is authorised unless V3 replaced its approver; the boundary     *)
(* approver of D1 is authorised too.                                       *)
LEMMA AuthorisedIs ==
    ASSUME Finished, NEW s \in Sessions, NEW a, IsGrant(a, s), 3 \notin plan[s]
    PROVE  Authorised(SplitLog, a)
<1> DEFINE n == Retrievals
<1>1. 2 * n + 16 \in Positions /\ applicant[s] \in Applicants /\ IsEvent(a, s, 2 * n + 16)
  BY ToldOf, RetrievalFacts DEF Positions, IsGrant
<1>2. \E o \in {Approver, BoundaryApprover} : Says(a, "HumanApprover", {<<"performed_by", o>>})
  <2>1. CASE 9 \in MarksOn(s)
    <3>1. Shows(rows[s], s, 2 * n + 16, "HumanApprover", {<<"performed_by", BoundaryApprover>>})
      BY <2>1, MarksFit
    <3> QED
      BY <1>1, <3>1, SaysShown
  <2>2. CASE 9 \notin MarksOn(s)
    <3>1. "HumanApprover" \in LinkKinds
      BY DEF LinkKinds
    <3>2. ASSUME NEW c \in MarksOn(s) PROVE <<2 * n + 16, "HumanApprover">> \notin SpotsOf(c)
      <4>1. c \in 1 .. 9 /\ c # 3 /\ c # 9
        BY <2>2, MarksFit DEF FaultClasses
      <4>2. c = 1 \/ c = 2 \/ c = 4 \/ c = 5 \/ c = 6 \/ c = 7 \/ c = 8
        BY <4>1
      <4> QED
        BY <4>2 DEF SpotsOf
    <3>3. Says(a, "HumanApprover", Links(Base(s)[2 * n + 16], "HumanApprover"))
      BY <1>1, <3>1, <3>2, SaysHard
    <3>4. Links(Base(s)[2 * n + 16], "HumanApprover") = {<<"performed_by", Approver>>}
      BY <1>1, BaseLinks DEF BaseLinksAre, Base
    <3> QED
      BY <3>3, <3>4
  <2> QED
    BY <2>1, <2>2
<1>3. PICK o \in {Approver, BoundaryApprover} : Says(a, "HumanApprover", {<<"performed_by", o>>})
  BY <1>2
<1>4. Plain("performed_by")
  BY DEF Plain
<1>5. Related(a, "performed_by", "HumanApprover") = {o}
  BY <1>3, <1>4, SaysOne
<1>6. o.kind = "HumanApprover" /\ o.id # "rogue"
  BY DEF Approver, BoundaryApprover, Obj
<1>7. o \in DOMAIN SplitLog.facts
  BY <1>1, <1>5, NamedIsDeclared
<1>8. SplitLog.facts[o] = {"authorised"}
  BY <1>6, <1>7, FactsAre DEF FactsOf
<1> QED
  BY <1>5, <1>8 DEF Authorised, Approvers

(* The rogue approver is not authorised.                                   *)
LEMMA RogueIs ==
    ASSUME Finished, NEW s \in Sessions, NEW a, IsGrant(a, s),
           Shows(rows[s], s, 2 * Retrievals + 16, "HumanApprover", {<<"performed_by", Rogue(s)>>})
    PROVE  ~ Authorised(SplitLog, a) /\ Approvers(a) = {Rogue(s)}
<1>1. IsEvent(a, s, 2 * Retrievals + 16)
  BY DEF IsGrant
<1>2. Says(a, "HumanApprover", {<<"performed_by", Rogue(s)>>}) /\ Plain("performed_by")
  BY <1>1, SaysShown DEF Plain
<1>3. Approvers(a) = {Rogue(s)}
  BY <1>2, SaysOne DEF Approvers
<1>4. Rogue(s).kind = "HumanApprover" /\ Rogue(s).id = "rogue"
  BY DEF Rogue, Obj
<1>5. Rogue(s) \in DOMAIN SplitLog.facts
  BY <1>1, <1>3, NamedIsDeclared DEF Approvers
<1>6. SplitLog.facts[Rogue(s)] = {}
  BY <1>4, <1>5, FactsAre DEF FactsOf
<1> QED
  BY <1>3, <1>6 DEF Authorised

(* The decisions T1 asks an approval for are those the fleet asked one     *)
(* for, and got.                                                           *)
LEMMA OutcomeIs ==
    ASSUME Finished, NEW s \in Sessions
    PROVE  /\ Outcome(s) \in Outcomes
           /\ NeedsApproval(s) => applicant[s].granted
           /\ Outcome(s) \in DecisionOutcomes <=> NeedsApproval(s)
<1>1. applicant[s] \in Applicants
  BY ToldOf
<1>2. Outcome(s) \in Outcomes /\ (Outcome(s) # "refer" => applicant[s].granted)
  BY <1>1 DEF Outcome, FinalOutcome, Applicants, Outcomes
<1> QED
  BY <1>2, RulesAssumption DEF NeedsApproval, Outcomes

(* The earliest of a single event.                                         *)
LEMMA EarliestOne == ASSUME NEW e PROVE Earliest({e}) = e
  BY DEF Earliest

(* Different sessions have different session objects.                      *)
LEMMA SessionsDiffer == \A s, x : SessionObj(s) = SessionObj(x) => s = x
  BY DEF SessionObj, OwnedBy, Session, Obj, SessionKinds

(* A decision event produces the decision of its session.                  *)
LEMMA ProducedIs ==
    ASSUME NEW e, NEW s, IsDecision(e, s)
    PROVE  Produced(e) = {DecisionOf(s)} /\ Plain("produces")
<1>1. Plain("produces")
  BY DEF Plain
<1> QED
  BY <1>1, SaysOne DEF IsDecision, Produced

(* Grants and decisions name their session.                                *)
LEMMA GrantSession ==
    ASSUME NEW a, NEW s, IsGrant(a, s) \/ IsDecision(a, s)
    PROVE  SessionOf(a) = {SessionObj(s)}
<1>1. Plain("within")
  BY DEF Plain
<1> QED
  BY <1>1, SaysOne DEF IsGrant, IsDecision, SessionOf

(* The approvals T1 finds for a decision whose session has a fault of T1.  *)
LEMMA PriorIs ==
    ASSUME Finished, NEW s \in Sessions, plan[s] \cap T1Classes # {}, NEW e, IsDecision(e, s)
    PROVE  /\ \A a : a \in PriorApprovals(SplitLog, e, DecisionOf(s)) <=> IsGrant(a, s) /\ 2 \notin plan[s]
           /\ \A a : a \in SessionApprovals(SplitLog, e) <=> IsGrant(a, s)
<1>1. ASSUME NEW a, a \in PriorApprovals(SplitLog, e, DecisionOf(s)) PROVE IsGrant(a, s) /\ 2 \notin plan[s]
  <2>1. a \in Approvals(SplitLog) /\ DecisionOf(s) \in Endorsed(a)
    BY <1>1 DEF PriorApprovals
  <2>2. PICK x \in Sessions : IsGrant(a, x)
    BY <2>1, GrantsAre
  <2> QED
    BY <2>1, <2>2, EndorserIs
<1>2. ASSUME NEW a, IsGrant(a, s), 2 \notin plan[s] PROVE a \in PriorApprovals(SplitLog, e, DecisionOf(s))
  <2>1. Endorsed(a) = {DecisionOf(s)}
    BY <1>2, EndorseIs, EndorsedIs
  <2>2. StrictlyBefore(a, e)
    BY <1>2, GrantPrecedes
  <2> QED
    BY <1>2, <2>1, <2>2 DEF PriorApprovals, IsGrant
<1>3. ASSUME NEW a, a \in SessionApprovals(SplitLog, e) PROVE IsGrant(a, s)
  <2>1. a \in Approvals(SplitLog) /\ SessionOf(a) = SessionOf(e)
    BY <1>3 DEF SessionApprovals
  <2>2. PICK x \in Sessions : IsGrant(a, x)
    BY <2>1, GrantsAre
  <2>3. SessionObj(x) = SessionObj(s)
    BY <2>1, <2>2, GrantSession
  <2> QED
    BY <2>2, <2>3, SessionsDiffer
<1>4. ASSUME NEW a, IsGrant(a, s) PROVE a \in SessionApprovals(SplitLog, e)
  BY <1>4, GrantSession DEF SessionApprovals, IsGrant
<1> QED
  BY <1>1, <1>2, <1>3, <1>4

(* Where no fault of T1 was done the decision has a prior authorised       *)
(* approval.                                                               *)
LEMMA NoPrior ==
    ASSUME Finished, NEW s \in Sessions, plan[s] \cap T1Classes = {}, NeedsApproval(s), NEW e, IsDecision(e, s)
    PROVE  \E a \in PriorApprovals(SplitLog, e, DecisionOf(s)) : Authorised(SplitLog, a)
<1>1. 1 \notin plan[s] /\ 2 \notin plan[s] /\ 3 \notin plan[s] /\ applicant[s].granted
  BY OutcomeIs DEF T1Classes
<1>2. PICK a : IsGrant(a, s)
  BY <1>1, GrantsAre
<1>3. Endorsed(a) = {DecisionOf(s)}
  BY <1>1, <1>2, EndorseIs, EndorsedIs
<1>4. StrictlyBefore(a, e)
  BY <1>2, GrantPrecedes
<1>5. a \in PriorApprovals(SplitLog, e, DecisionOf(s))
  BY <1>2, <1>3, <1>4 DEF PriorApprovals, IsGrant
<1> QED
  BY <1>1, <1>2, <1>5, AuthorisedIs

(* What T1 says of a session whose approval is missing, another's, or a    *)
(* rogue's.                                                                *)
Unapproved(e, s, l) ==
    /\ ~ \E a \in PriorApprovals(SplitLog, e, DecisionOf(s)) : Authorised(SplitLog, a)
    /\ ApprovalViolation(SplitLog, e, DecisionOf(s)) = FoundOf(l)

(* T1 reports V1 as its label says: the decision, nobody having approved   *)
(* it.                                                                     *)
LEMMA V1Found ==
    ASSUME Finished, NEW l \in labels, NEW s, s = l.session, l.class = 1, NEW e, IsDecision(e, s)
    PROVE  Unapproved(e, s, l)
<1>1. s \in Sessions /\ 1 \in plan[s] /\ Marked(1, l, rows[s], s, DonorsFor(s))
  BY LabelIs
<1>2. Lacks(rows[s], s, 2 * Retrievals + 16) /\ Cites(l, "T1", {Decided(s)}, {DecisionOf(s)})
  BY <1>1 DEF Marked, MarkOfV1
<1>3. 2 * Retrievals + 16 \in Positions
  BY RetrievalFacts DEF Positions
<1>4. ~ \E a : IsGrant(a, s)
  BY <1>1, <1>2, <1>3, EventThere DEF IsGrant
<1>5. PriorApprovals(SplitLog, e, DecisionOf(s)) = {} /\ SessionApprovals(SplitLog, e) = {}
  BY <1>1, <1>4, PriorIs DEF T1Classes
<1>6. ApprovalViolation(SplitLog, e, DecisionOf(s)) = Violation("T1", {e}, {DecisionOf(s)})
  BY <1>5 DEF ApprovalViolation
<1>7. {x.id : x \in {e}} = {Decided(s)}
  BY DEF IsDecision
<1>8. FoundOf(l) = [constraint |-> "T1", events |-> {Decided(s)}, objects |-> {DecisionOf(s)}]
  BY <1>2, FoundIs
<1> QED
  BY <1>5, <1>6, <1>7, <1>8 DEF Unapproved, Violation

(* T1 reports V2 as its label says: the session's own approval and the     *)
(* decision it missed.                                                     *)
LEMMA V2Found ==
    ASSUME Finished, NEW l \in labels, NEW s, s = l.session, l.class = 2, NEW e, IsDecision(e, s)
    PROVE  Unapproved(e, s, l)
<1>1. /\ s \in Sessions /\ 2 \in plan[s] /\ Marked(2, l, rows[s], s, DonorsFor(s))
      /\ NeedsApproval(s) /\ applicant[s].granted /\ 1 \notin plan[s]
  <2>1. s \in Sessions /\ 2 \in plan[s] /\ Marked(2, l, rows[s], s, DonorsFor(s))
    BY LabelIs
  <2>2. NeedsApproval(s) /\ 1 \notin plan[s]
    BY <2>1, MarksFit DEF FaultClasses
  <2> QED
    BY <2>1, <2>2, OutcomeIs
<1>2. MarkOfV2(l, rows[s], s, DonorsFor(s))
  BY <1>1 DEF Marked
<1>3. PICK donor \in DonorsFor(s) :
          /\ Shows(rows[s], s, 2 * Retrievals + 16, "CreditDecision", {<<"approves", donor>>})
          /\ Cites(l, "T1", {Granted(s), Decided(s)}, {DecisionOf(s), donor})
  BY <1>2 DEF MarkOfV2
<1>4. PICK a : IsGrant(a, s)
  BY <1>1, GrantsAre
<1>5. \A x : IsGrant(x, s) => x = a
  BY <1>1, <1>4, GrantsAre
<1>6. PriorApprovals(SplitLog, e, DecisionOf(s)) = {} /\ SessionApprovals(SplitLog, e) = {a}
  BY <1>1, <1>4, <1>5, PriorIs DEF T1Classes
<1>7. Endorsed(a) = {donor}
  <2>1. IsEvent(a, s, 2 * Retrievals + 16)
    BY <1>4 DEF IsGrant
  <2>2. Endorses(a, donor)
    BY <1>3, <2>1, SaysShown DEF Endorses
  <2> QED
    BY <2>2, EndorsedIs
<1>8. ApprovalViolation(SplitLog, e, DecisionOf(s)) = Violation("T1", {a, e}, {DecisionOf(s)} \cup {donor})
  BY <1>6, <1>7, EarliestOne DEF ApprovalViolation
<1>9. {x.id : x \in {a, e}} = {Granted(s), Decided(s)}
  BY <1>4 DEF IsDecision, IsGrant
<1>10. FoundOf(l) = [constraint |-> "T1", events |-> {Granted(s), Decided(s)}, objects |-> {DecisionOf(s), donor}]
  BY <1>3, FoundIs
<1>11. {DecisionOf(s)} \cup {donor} = {DecisionOf(s), donor}
  OBVIOUS
<1> QED
  BY <1>6, <1>8, <1>9, <1>10, <1>11 DEF Unapproved, Violation

(* T1 reports V3 as its label says: the approval by the unauthorised       *)
(* approver.                                                               *)
LEMMA V3Found ==
    ASSUME Finished, NEW l \in labels, NEW s, s = l.session, l.class = 3, NEW e, IsDecision(e, s)
    PROVE  Unapproved(e, s, l)
<1>1. /\ s \in Sessions /\ 3 \in plan[s] /\ Marked(3, l, rows[s], s, DonorsFor(s))
      /\ NeedsApproval(s) /\ applicant[s].granted /\ 1 \notin plan[s] /\ 2 \notin plan[s]
  <2>1. s \in Sessions /\ 3 \in plan[s] /\ Marked(3, l, rows[s], s, DonorsFor(s))
    BY LabelIs
  <2>2. NeedsApproval(s) /\ 1 \notin plan[s] /\ 2 \notin plan[s]
    BY <2>1, MarksFit DEF FaultClasses
  <2> QED
    BY <2>1, <2>2, OutcomeIs
<1>2. /\ Shows(rows[s], s, 2 * Retrievals + 16, "HumanApprover", {<<"performed_by", Rogue(s)>>})
      /\ Cites(l, "T1", {Granted(s)}, {Rogue(s)})
  BY <1>1 DEF Marked, MarkOfV3
<1>4. PICK a : IsGrant(a, s)
  BY <1>1, GrantsAre
<1>5. \A x : IsGrant(x, s) => x = a
  BY <1>1, <1>4, GrantsAre
<1>6. PriorApprovals(SplitLog, e, DecisionOf(s)) = {a}
  BY <1>1, <1>4, <1>5, PriorIs DEF T1Classes
<1>7. ~ Authorised(SplitLog, a) /\ Approvers(a) = {Rogue(s)}
  BY <1>1, <1>2, <1>4, RogueIs
<1>8. ApprovalViolation(SplitLog, e, DecisionOf(s)) = Violation("T1", {a}, {Rogue(s)})
  BY <1>6, <1>7, EarliestOne DEF ApprovalViolation
<1>9. {x.id : x \in {a}} = {Granted(s)}
  BY <1>4 DEF IsGrant
<1>10. FoundOf(l) = [constraint |-> "T1", events |-> {Granted(s)}, objects |-> {Rogue(s)}]
  BY <1>2, FoundIs
<1> QED
  BY <1>6, <1>7, <1>8, <1>9, <1>10 DEF Unapproved, Violation

(* T1 finds exactly the labels of V1, V2 and V3.                           *)
LEMMA T1Found ==
    ASSUME Finished, NEW v
    PROVE  v \in T1(SplitLog) <=> \E l \in labels : l.class \in T1Classes /\ v = FoundOf(l)
<1>1. ASSUME NEW l \in labels, l.class \in T1Classes
      PROVE  FoundOf(l) \in T1(SplitLog)
  <2> DEFINE s == l.session
  <2>1. s \in Sessions /\ l.class \in plan[s]
    BY LabelIs
  <2>2. PICK e \in Decisions(SplitLog) : IsDecision(e, s)
    BY <2>1, DecisionsAre
  <2>3. Unapproved(e, s, l)
    BY <1>1, <2>2, V1Found, V2Found, V3Found DEF T1Classes
  <2>4. NeedsApproval(s)
    BY <1>1, <2>1, MarksFit DEF T1Classes
  <2>5. e.outcome \in DecisionOutcomes
    BY <2>1, <2>2, <2>4, OutcomeIs DEF IsDecision
  <2>6. DecisionOf(s) \in Produced(e)
    BY <2>2, ProducedIs
  <2> QED
    BY <2>2, <2>3, <2>5, <2>6 DEF Unapproved, T1
<1>2. ASSUME v \in T1(SplitLog) PROVE \E l \in labels : l.class \in T1Classes /\ v = FoundOf(l)
  <2>1. PICK e \in Decisions(SplitLog) : e.outcome \in DecisionOutcomes /\
            v \in {ApprovalViolation(SplitLog, e, d) :
               d \in {x \in Produced(e) : ~ \E a \in PriorApprovals(SplitLog, e, x) : Authorised(SplitLog, a)}}
    BY <1>2 DEF T1
  <2>2. PICK d \in Produced(e) : /\ ~ \E a \in PriorApprovals(SplitLog, e, d) : Authorised(SplitLog, a)
                                 /\ v = ApprovalViolation(SplitLog, e, d)
    BY <2>1
  <2>3. PICK s \in Sessions : IsDecision(e, s)
    BY DecisionsAre
  <2>4. d = DecisionOf(s)
    BY <2>3, ProducedIs
  <2>5. NeedsApproval(s)
    BY <2>1, <2>3, OutcomeIs DEF IsDecision
  <2>6. plan[s] \cap T1Classes # {}
    BY <2>2, <2>3, <2>4, <2>5, NoPrior
  <2>7. PICK c \in plan[s] : c \in T1Classes
    BY <2>6
  <2>8. PICK l \in labels : l.session = s /\ l.class = c
    BY LabelOf
  <2>9. Unapproved(e, s, l)
    BY <2>3, <2>7, <2>8, V1Found, V2Found, V3Found DEF T1Classes
  <2> QED
    BY <2>2, <2>4, <2>7, <2>8, <2>9 DEF Unapproved
<1> QED
  BY <1>1, <1>2

Reasonings == OfType(SplitLog, {"emit_reasoning"})

Explains(f, s) ==
    /\ f \in Reasonings /\ IsEvent(f, s, 2 * Retrievals + 18)
    /\ Says(f, "CreditDecision", {<<"explains", DecisionOf(s)>>})

Coded(s) == "reason_codes" \in SplitLog.facts[DecisionOf(s)]

(* No fault but V6 touches what a reasoning says of decisions.             *)
LEMMA ReasoningSpots ==
    ASSUME Finished, NEW s \in Sessions, NEW p \in {4, 2 * Retrievals + 11, 2 * Retrievals + 18},
           p = 2 * Retrievals + 18 => 6 \notin plan[s]
    PROVE  \A c \in MarksOn(s) : <<p, "CreditDecision">> \notin SpotsOf(c)
<1> DEFINE n == Retrievals
<1>1. CASE p # 2 * n + 18
  BY <1>1, NotSpots
<1>2. CASE p = 2 * n + 18
  <2>1. ASSUME NEW c \in MarksOn(s) PROVE <<2 * n + 18, "CreditDecision">> \notin SpotsOf(c)
    <3>1. c \in 1 .. 9 /\ c # 6
      BY <1>2, MarksFit DEF FaultClasses
    <3>2. c = 1 \/ c = 2 \/ c = 3 \/ c = 4 \/ c = 5 \/ c = 7 \/ c = 8 \/ c = 9
      BY <3>1
    <3> QED
      BY <3>2, RetrievalFacts DEF SpotsOf
  <2> QED
    BY <1>2, <2>1
<1> QED
  BY <1>1, <1>2

(* Of a session's reasonings only the last explains the decision, unless   *)
(* V6 cut the edge.                                                        *)
LEMMA ReasoningSays ==
    ASSUME Finished, NEW s \in Sessions, NEW p \in {4, 2 * Retrievals + 11, 2 * Retrievals + 18}, NEW f, IsEvent(f, s, p)
    PROVE  /\ f \in Reasonings
           /\ p # 2 * Retrievals + 18 => Says(f, "CreditDecision", {})
           /\ p = 2 * Retrievals + 18 /\ 6 \notin plan[s] => Explains(f, s)
<1> DEFINE n == Retrievals
<1>1. p \in Positions /\ applicant[s] \in Applicants
  BY ToldOf, RetrievalFacts DEF Positions
<1>2. f \in Reasonings
  BY <1>1, EventIs DEF TypeFits, Reasonings, OfType
<1>3. "CreditDecision" \in LinkKinds
  BY DEF LinkKinds
<1>4. p = 2 * n + 18 /\ 6 \notin plan[s] => Says(f, "CreditDecision", Links(Base(s)[p], "CreditDecision"))
  BY <1>1, <1>3, ReasoningSpots, SaysHard
<1>5. p # 2 * n + 18 => Says(f, "CreditDecision", Links(Base(s)[p], "CreditDecision"))
  BY <1>1, <1>3, ReasoningSpots, SaysHard
<1>6. /\ Links(Base(s)[4], "CreditDecision") = {} /\ Links(Base(s)[2 * n + 11], "CreditDecision") = {}
      /\ Links(Base(s)[2 * n + 18], "CreditDecision") = {<<"explains", DecisionOf(s)>>}
  BY <1>1, BaseLinks DEF BaseLinksAre, Base
<1> QED
  BY <1>2, <1>4, <1>5, <1>6 DEF Explains

(* An event that emits reasoning explains the decision of its session, or  *)
(* names none.                                                             *)
LEMMA ReasoningsAre ==
    ASSUME Finished, NEW f \in Reasonings
    PROVE  \E s \in Sessions : Explains(f, s) \/ Says(f, "CreditDecision", {})
<1> DEFINE n == Retrievals
<1>1. f \in SplitLog.events /\ f.type = "emit_reasoning"
  BY DEF Reasonings, OfType
<1>2. PICK s \in Sessions, p \in Positions : IsEvent(f, s, p)
  BY <1>1, EventsAre
<1>3. p \in {4, 2 * n + 11, 2 * n + 18}
  BY <1>1, <1>2, EventIs DEF TypeFits
<1>4. CASE p # 2 * n + 18 \/ 6 \notin plan[s]
  BY <1>2, <1>3, <1>4, ReasoningSays
<1>5. CASE p = 2 * n + 18 /\ 6 \in plan[s]
  <2>1. PICK l \in labels : l.session = s /\ Marked(6, l, rows[s], s, DonorsFor(s))
    BY <1>5, LabelOf
  <2>2. \/ Shows(rows[s], s, 2 * n + 18, "CreditDecision", {})
        \/ Shows(rows[s], s, 2 * n + 18, "CreditDecision", {<<"explains", DecisionOf(s)>>})
    BY <2>1 DEF Marked, MarkOfV6
  <2> QED
    BY <1>2, <1>5, <2>2, SaysShown DEF Explains
<1> QED
  BY <1>4, <1>5

(* The last reasoning is never deleted, and explains the decision unless   *)
(* V6 cut the edge.                                                        *)
LEMMA ExplanationIsThere ==
    ASSUME Finished, NEW s \in Sessions
    PROVE  /\ \E f : IsEvent(f, s, 2 * Retrievals + 18)
           /\ 6 \notin plan[s] => \E f : Explains(f, s)
<1>1. 2 * Retrievals + 18 \in Positions /\ \A c \in MarksOn(s) : 2 * Retrievals + 18 \notin GoneOf(c)
  BY NotGone, RetrievalFacts DEF Positions
<1>2. PICK f : IsEvent(f, s, 2 * Retrievals + 18)
  BY <1>1, EventThere
<1> QED
  BY <1>2, ReasoningSays

(* The explanation comes strictly after the decision.                      *)
LEMMA ExplainsLater ==
    ASSUME Finished, NEW s \in Sessions, NEW f, Explains(f, s), NEW e, IsDecision(e, s)
    PROVE  StrictlyBefore(e, f)
<1>1. applicant[s] \in Applicants /\ s \in Nat
  BY ToldOf
<1>2. 2 * Retrievals + 18 \in Positions /\ 2 * Retrievals + 17 \in Positions
      /\ 2 * Retrievals + 17 < 2 * Retrievals + 18
  BY RetrievalFacts DEF Positions
<1>3. Base(s)[2 * Retrievals + 17].time < Base(s)[2 * Retrievals + 18].time
  BY <1>1, <1>2, BaseTimes DEF Base
<1>4. f.time = Base(s)[2 * Retrievals + 18].time
  BY <1>2, EventIs DEF Explains
<1> QED
  BY <1>3, <1>4 DEF IsDecision, StrictlyBefore

(* A reasoning that explains names that decision alone.                    *)
LEMMA ExplainsOne ==
    ASSUME NEW f, NEW s, Explains(f, s)
    PROVE  Related(f, "explains", "CreditDecision") = {DecisionOf(s)}
<1>1. Plain("explains")
  BY DEF Plain
<1> QED
  BY <1>1, SaysOne DEF Explains

(* A decision is explained exactly when its own session explains it.       *)
LEMMA ExplainedIs ==
    ASSUME Finished, NEW s \in Sessions
    PROVE  DecisionOf(s) \in Explained(SplitLog) <=> \E f : Explains(f, s)
<1>1. ASSUME DecisionOf(s) \in Explained(SplitLog) PROVE \E f : Explains(f, s)
  <2>1. PICK f \in Reasonings : DecisionOf(s) \in Related(f, "explains", "CreditDecision")
    BY <1>1 DEF Explained, Reasonings
  <2>2. PICK x \in Sessions : Explains(f, x) \/ Says(f, "CreditDecision", {})
    BY ReasoningsAre
  <2>3. Plain("explains")
    BY DEF Plain
  <2>4. Explains(f, x)
    BY <2>1, <2>2, <2>3, SaysNone
  <2>5. DecisionOf(s) = DecisionOf(x)
    BY <2>1, <2>4, ExplainsOne
  <2>6. s = x
    BY <2>5, DecisionIs
  <2> QED
    BY <2>4, <2>6
<1>2. ASSUME NEW f, Explains(f, s) PROVE DecisionOf(s) \in Explained(SplitLog)
  BY <1>2, ExplainsOne DEF Explained, Reasonings, Explains
<1> QED
  BY <1>1, <1>2

(* The reasons of a decision: fault V6 takes either the codes or the edge. *)
LEMMA CodesOf ==
    ASSUME Finished, NEW s \in Sessions, 6 \notin plan[s], Outcome(s) # "grant"
    PROVE  Coded(s)
<1>1. PICK f : IsEvent(f, s, 2 * Retrievals + 17)
  BY DecisionsAre DEF IsDecision
<1>2. PICK k \in DOMAIN rows[s] : rows[s][k].id = Decided(s)
  BY <1>1 DEF IsEvent, Decided
<1>3. Keeps(rows[s], Base(s), s, MarksOn(s)) /\ 6 \notin MarksOn(s) /\ applicant[s] \in Applicants
  BY ToldOf, MarksFit DEF Tells, FaultClasses
<1>4. 2 * Retrievals + 17 \in Positions
  BY RetrievalFacts DEF Positions
<1>5. Codes(rows[s][k]) = Codes(Base(s)[2 * Retrievals + 17])
  BY <1>2, <1>3, <1>4 DEF Keeps, Decided
<1>6. Adverse(applicant[s])
  BY OutcomeIs DEF Adverse, Outcome, Outcomes, AdverseOutcomes
<1>7. Codes(Base(s)[2 * Retrievals + 17]) = {"reason_codes"}
  BY <1>3, <1>6, BaseDecision DEF Base
<1> QED
  BY <1>2, <1>5, <1>7, DecisionFacts DEF Coded

(* The violation V6 stands for, and that either the explanation or the     *)
(* codes are missing.                                                      *)
LEMMA V6Found ==
    ASSUME Finished, NEW l \in labels, NEW s, s = l.session, l.class = 6
    PROVE  /\ FoundOf(l) = [constraint |-> "T4", events |-> {Decided(s)}, objects |-> {DecisionOf(s)}]
           /\ s \in Sessions /\ Outcome(s) = "deny"
           /\ Cites(l, "T4", {Decided(s)}, {DecisionOf(s)})
           /\ \/ ~ \E f : Explains(f, s)
              \/ ~ Coded(s) /\ \E f : Explains(f, s)
<1>1. s \in Sessions /\ 6 \in plan[s] /\ Marked(6, l, rows[s], s, DonorsFor(s))
  BY LabelIs
<1>2. MarkOfV6(l, rows[s], s) /\ Outcome(s) = "deny"
  BY <1>1, MarksFit DEF Marked
<1>3. Cites(l, "T4", {Decided(s)}, {DecisionOf(s)})
  BY <1>2 DEF MarkOfV6
<1>4. CASE Shows(rows[s], s, 2 * Retrievals + 18, "CreditDecision", {})
  <2>1. ASSUME NEW f, Explains(f, s) PROVE FALSE
    <3>1. Says(f, "CreditDecision", {})
      BY <1>4, <2>1, SaysShown DEF Explains
    <3>2. Plain("explains")
      BY DEF Plain
    <3> QED
      BY <2>1, <3>1, <3>2, ExplainsOne, SaysNone
  <2> QED
    BY <1>1, <1>2, <1>3, <2>1, FoundIs
<1>5. CASE Uncoded(rows[s], s) /\ Shows(rows[s], s, 2 * Retrievals + 18, "CreditDecision", {<<"explains", DecisionOf(s)>>})
  <2>1. PICK f : IsEvent(f, s, 2 * Retrievals + 17)
    BY <1>1, DecisionsAre DEF IsDecision
  <2>2. PICK k \in DOMAIN rows[s] : rows[s][k].id = Decided(s)
    BY <2>1 DEF IsEvent, Decided
  <2>3. ~ Coded(s)
    BY <1>1, <1>5, <2>2, DecisionFacts DEF Coded, Uncoded
  <2>4. PICK g : IsEvent(g, s, 2 * Retrievals + 18)
    BY <1>1, ExplanationIsThere
  <2>5. g \in Reasonings
    BY <1>1, <2>4, ReasoningSays
  <2>6. Explains(g, s)
    BY <1>5, <2>4, <2>5, SaysShown DEF Explains
  <2> QED
    BY <1>1, <1>2, <1>3, <2>3, <2>6, FoundIs
<1> QED
  BY <1>2, <1>4, <1>5 DEF MarkOfV6

(* T4 finds exactly the labels of V6.                                      *)
LEMMA T4Found ==
    ASSUME Finished, NEW v
    PROVE  v \in T4(SplitLog) <=> \E l \in labels : l.class = 6 /\ v = FoundOf(l)
<1>1. ASSUME NEW l \in labels, l.class = 6
      PROVE  FoundOf(l) \in T4(SplitLog)
  <2> DEFINE s == l.session
  <2>1. /\ FoundOf(l) = [constraint |-> "T4", events |-> {Decided(s)}, objects |-> {DecisionOf(s)}]
        /\ s \in Sessions /\ Outcome(s) = "deny" /\ (~ Coded(s) \/ ~ \E f : Explains(f, s))
    BY <1>1, V6Found
  <2>2. PICK e \in Decisions(SplitLog) : IsDecision(e, s)
    BY <2>1, DecisionsAre
  <2>3. e.outcome \in AdverseForRule
    BY <2>1, <2>2, RulesAssumption DEF IsDecision
  <2>4. DecisionOf(s) \in Produced(e)
    BY <2>2, ProducedIs
  <2>5. "reason_codes" \notin SplitLog.facts[DecisionOf(s)] \/ DecisionOf(s) \notin Explained(SplitLog)
    BY <2>1, ExplainedIs DEF Coded
  <2>6. Violation("T4", {e}, {DecisionOf(s)}) = FoundOf(l)
    <3>1. {x.id : x \in {e}} = {Decided(s)}
      BY <2>2 DEF IsDecision
    <3> QED
      BY <2>1, <3>1 DEF Violation
  <2>7. FoundOf(l) \in {Violation("T4", {e}, {d}) :
               d \in {x \in Produced(e) : "reason_codes" \notin SplitLog.facts[x] \/ x \notin Explained(SplitLog)}}
    BY <2>4, <2>5, <2>6
  <2> QED
    BY <2>2, <2>3, <2>7 DEF T4
<1>2. ASSUME v \in T4(SplitLog) PROVE \E l \in labels : l.class = 6 /\ v = FoundOf(l)
  <2>1. PICK e \in Decisions(SplitLog) : e.outcome \in AdverseForRule /\
            v \in {Violation("T4", {e}, {d}) :
               d \in {x \in Produced(e) : "reason_codes" \notin SplitLog.facts[x] \/ x \notin Explained(SplitLog)}}
    BY <1>2 DEF T4
  <2>2. PICK d \in Produced(e) : /\ "reason_codes" \notin SplitLog.facts[d] \/ d \notin Explained(SplitLog)
                                 /\ v = Violation("T4", {e}, {d})
    BY <2>1
  <2>3. PICK s \in Sessions : IsDecision(e, s)
    BY DecisionsAre
  <2>4. d = DecisionOf(s)
    BY <2>3, ProducedIs
  <2>5. Outcome(s) # "grant"
    BY <2>1, <2>3, RulesAssumption DEF IsDecision
  <2>6. 6 \in plan[s]
    BY <2>2, <2>4, <2>5, CodesOf, ExplanationIsThere, ExplainedIs DEF Coded
  <2>8. PICK l \in labels : l.session = s /\ l.class = 6
    BY <2>6, LabelOf
  <2>9. FoundOf(l) = [constraint |-> "T4", events |-> {Decided(s)}, objects |-> {DecisionOf(s)}]
    BY <2>8, V6Found
  <2>10. {x.id : x \in {e}} = {Decided(s)}
    BY <2>3 DEF IsDecision
  <2> QED
    BY <2>2, <2>4, <2>8, <2>9, <2>10 DEF Violation
<1> QED
  BY <1>1, <1>2

(* An event relates to an object, by more than declaring it.               *)
Touches(f, o) == \E r \in f.rels : r.obj = o /\ r.qual # "declares"

Logged(f) == \E s \in Sessions : \E p \in Positions : IsEvent(f, s, p)

HasKind(o, kind) == o.kind = kind

(* events_relating: the events of a type that touch the object.            *)
LEMMA RelatingIs ==
    ASSUME NEW type, NEW o
    PROVE  \A f : f \in EventsRelating(SplitLog, type, o) <=> f \in OfType(SplitLog, {type}) /\ Touches(f, o)
  BY DEF EventsRelating, Touches

(* No relation of the log has an empty qualifier.                          *)
LEMMA RelationsNamed ==
    ASSUME NEW e, NEW x \in LogEvent(e).rels
    PROVE  x.qual # ""
<1> DEFINE rel(r) == [qual |-> IF r.qual = "" THEN "declares" ELSE r.qual, obj |-> r.obj]
<1>1. LogEvent(e).rels = {rel(r) : r \in e.refs}
  BY DEF LogEvent, Relations
<1>2. \A r : rel(r).qual # ""
  OBVIOUS
<1> HIDE DEF rel
<1> QED
  BY <1>1, <1>2

(* Touching an object is being related to it by some qualifier that is no  *)
(* declaration.                                                            *)
LEMMA TouchesBy ==
    ASSUME NEW f, Logged(f), NEW o
    PROVE  Touches(f, o) <=> \E q : Plain(q) /\ o \in Related(f, q, o.kind)
<1>0. PICK s \in Sessions, p \in Positions : IsEvent(f, s, p)
  BY DEF Logged
<1>1. PICK k \in DOMAIN rows[s] : f = LogEvent(rows[s][k])
  BY <1>0 DEF IsEvent
<1>2. \A x \in f.rels : x.qual # "declares" <=> Plain(x.qual)
  BY <1>1, RelationsNamed DEF Plain
<1> QED
  BY <1>2 DEF Touches, Related, Plain

(* An event with a single link of a kind touches that object of the kind   *)
(* and no other.                                                           *)
LEMMA TouchesOne ==
    ASSUME NEW f, Logged(f), NEW kind, NEW q, NEW o, Says(f, kind, {<<q, o>>}), Plain(q),
           NEW d, HasKind(d, kind)
    PROVE  Touches(f, d) <=> d = o
  BY TouchesBy DEF Says, HasKind

(* An event with no link of a kind touches none.                           *)
LEMMA TouchesNone ==
    ASSUME NEW f, Logged(f), NEW kind, Says(f, kind, {}), NEW d, HasKind(d, kind)
    PROVE  ~ Touches(f, d)
  BY TouchesBy DEF Says, HasKind

(* The qualifiers by which decisions are related are no declarations.      *)
LEMMA QualsPlain == Plain("produces") /\ Plain("approves") /\ Plain("explains")
  BY DEF Plain

(* Which events relate to the decision of a session.                       *)
LEMMA DecisionTouches ==
    ASSUME Finished, NEW e, NEW s \in Sessions, IsDecision(e, s), NEW o, HasKind(o, "CreditDecision")
    PROVE  Touches(e, o) <=> o = DecisionOf(s)
<1>1. Logged(e) /\ Says(e, "CreditDecision", {<<"produces", DecisionOf(s)>>})
  BY EventsAre DEF IsDecision, Logged, Decisions, OfType
<1>2. Plain("produces")
  BY QualsPlain
<1> QED
  BY <1>1, <1>2, TouchesOne

(* A grant touches the decisions it endorses.                              *)
LEMMA GrantTouches ==
    ASSUME Finished, NEW a, NEW s \in Sessions, IsGrant(a, s), NEW o, HasKind(o, "CreditDecision")
    PROVE  Touches(a, o) <=> o \in Endorsed(a)
<1>1. PICK d : Endorses(a, d)
  BY EndorseIs
<1>2. Endorsed(a) = {d}
  BY <1>1, EndorsedIs
<1>3. Logged(a) /\ Says(a, "CreditDecision", {<<"approves", d>>})
  BY <1>1, EventsAre DEF Endorses, IsGrant, Logged, Approvals, OfType
<1>5. Plain("approves")
  BY QualsPlain
<1>4. Touches(a, o) <=> o = d
  BY <1>3, <1>5, TouchesOne
<1> QED
  BY <1>2, <1>4

(* A reasoning touches the decisions it explains.                          *)
LEMMA ReasoningTouches ==
    ASSUME Finished, NEW g \in Reasonings, NEW s \in Sessions
    PROVE  Touches(g, DecisionOf(s)) <=> Explains(g, s)
<1>0. HasKind(DecisionOf(s), "CreditDecision")
  BY DecisionIs DEF HasKind
<1>1. PICK x \in Sessions : Explains(g, x) \/ Says(g, "CreditDecision", {})
  BY ReasoningsAre
<1>2. g \in SplitLog.events
  BY DEF Reasonings, OfType
<1>4. Logged(g)
  BY <1>2, EventsAre DEF Logged
<1>5. CASE Says(g, "CreditDecision", {})
  <2>1. ~ Touches(g, DecisionOf(s))
    BY <1>0, <1>4, <1>5, TouchesNone
  <2>2. ~ Explains(g, s)
    BY <1>5, ExplainsOne, SaysNone, QualsPlain
  <2> QED
    BY <2>1, <2>2
<1>6. CASE Explains(g, x)
  <2>1. Says(g, "CreditDecision", {<<"explains", DecisionOf(x)>>})
    BY <1>6 DEF Explains
  <2>2. Touches(g, DecisionOf(s)) <=> DecisionOf(s) = DecisionOf(x)
    BY <1>0, <1>4, <2>1, TouchesOne, QualsPlain
  <2>3. Explains(g, s) => DecisionOf(s) = DecisionOf(x)
    BY <1>6, ExplainsOne
  <2> QED
    BY <1>6, <2>2, <2>3, DecisionIs
<1> QED
  BY <1>1, <1>5, <1>6

(* Every decision is an object of the log.                                 *)
LEMMA DecisionObjects ==
    ASSUME Finished, NEW s \in Sessions
    PROVE  DecisionOf(s) \in ObjectsOf(SplitLog, "CreditDecision")
<1>1. PICK e : IsDecision(e, s)
  BY DecisionsAre
<1>2. DecisionOf(s) \in Related(e, "produces", "CreditDecision")
  BY <1>1, ProducedIs DEF Produced
<1>3. IsEvent(e, s, 2 * Retrievals + 17)
  BY <1>1 DEF IsDecision
<1> QED
  BY <1>2, <1>3, NamedIsDeclared DEF ObjectsOf

-----------------------------------------------------------------------------
Ungranted(e, s) == ~ \E a \in Approvals(SplitLog) : Touches(a, DecisionOf(s)) /\ StrictlyBefore(a, e)

(* The decisions without a prior grant of theirs.                          *)
LEMMA PrecedenceIs ==
    ASSUME Finished, NEW v,
           v \in SynchronisedPrecedence(SplitLog, "grant_approval", "make_decision", "CreditDecision")
    PROVE  \E s \in Sessions : \E e : IsDecision(e, s) /\ Ungranted(e, s) /\ v.events = {Decided(s)}
<1>1. PICK o \in ObjectsOf(SplitLog, "CreditDecision") :
          v \in {Violation("STD.precedence", {e}, {o}) :
               e \in {g \in EventsRelating(SplitLog, "make_decision", o) :
                         ~ \E f \in EventsRelating(SplitLog, "grant_approval", o) : StrictlyBefore(f, g)}}
  BY DEF SynchronisedPrecedence
<1>2. PICK e \in EventsRelating(SplitLog, "make_decision", o) :
          /\ ~ \E f \in EventsRelating(SplitLog, "grant_approval", o) : StrictlyBefore(f, e)
          /\ v = Violation("STD.precedence", {e}, {o})
  BY <1>1
<1>3. HasKind(o, "CreditDecision")
  BY DEF ObjectsOf, HasKind
<1>4. e \in Decisions(SplitLog) /\ Touches(e, o)
  BY RelatingIs DEF Decisions
<1>5. PICK s \in Sessions : IsDecision(e, s)
  BY <1>4, DecisionsAre
<1>6. o = DecisionOf(s)
  BY <1>3, <1>4, <1>5, DecisionTouches
<1>7. {x.id : x \in {e}} = {Decided(s)}
  BY <1>5 DEF IsDecision
<1>8. v.events = {Decided(s)}
  BY <1>2, <1>7 DEF Violation
<1>9. Ungranted(e, s)
  BY <1>2, <1>6, RelatingIs DEF Approvals, Ungranted
<1> QED
  BY <1>5, <1>8, <1>9

(* A decision without a grant before it is in the precedence template's    *)
(* report.                                                                 *)
LEMMA PrecedenceHas ==
    ASSUME Finished, NEW s \in Sessions, NEW e, IsDecision(e, s),
           Ungranted(e, s)
    PROVE  \E v \in SynchronisedPrecedence(SplitLog, "grant_approval", "make_decision", "CreditDecision") :
               v.events = {Decided(s)}
<1> DEFINE o == DecisionOf(s)
           v == Violation("STD.precedence", {e}, {o})
<1>1. o \in ObjectsOf(SplitLog, "CreditDecision") /\ HasKind(o, "CreditDecision")
  BY DecisionObjects, DecisionIs DEF HasKind
<1>2. e \in EventsRelating(SplitLog, "make_decision", o)
  BY <1>1, RelatingIs, DecisionTouches DEF IsDecision, Decisions
<1>3. ~ \E f \in EventsRelating(SplitLog, "grant_approval", o) : StrictlyBefore(f, e)
  BY RelatingIs DEF Approvals, Ungranted
<1>4. v \in {Violation("STD.precedence", {x}, {o}) :
               x \in {g \in EventsRelating(SplitLog, "make_decision", o) :
                         ~ \E f \in EventsRelating(SplitLog, "grant_approval", o) : StrictlyBefore(f, g)}}
  BY <1>2, <1>3
<1>5. v \in SynchronisedPrecedence(SplitLog, "grant_approval", "make_decision", "CreditDecision")
  BY <1>1, <1>4 DEF SynchronisedPrecedence
<1>6. {x.id : x \in {e}} = {Decided(s)}
  BY DEF IsDecision
<1>7. v.events = {Decided(s)}
  BY <1>6 DEF Violation
<1> QED
  BY <1>5, <1>7

(* The decisions without a later explanation of theirs.                    *)
LEMMA ResponseIs ==
    ASSUME Finished, NEW v,
           v \in SynchronisedResponse(SplitLog, "make_decision", "emit_reasoning", "CreditDecision")
    PROVE  \E s \in Sessions : v.events = {Decided(s)} /\ ~ \E g : Explains(g, s)
<1>1. PICK o \in ObjectsOf(SplitLog, "CreditDecision") :
          v \in {Violation("STD.response", {e}, {o}) :
               e \in {f \in EventsRelating(SplitLog, "make_decision", o) :
                         ~ \E g \in EventsRelating(SplitLog, "emit_reasoning", o) : StrictlyBefore(f, g)}}
  BY DEF SynchronisedResponse
<1>2. PICK e \in EventsRelating(SplitLog, "make_decision", o) :
          /\ ~ \E g \in EventsRelating(SplitLog, "emit_reasoning", o) : StrictlyBefore(e, g)
          /\ v = Violation("STD.response", {e}, {o})
  BY <1>1
<1>3. HasKind(o, "CreditDecision")
  BY DEF ObjectsOf, HasKind
<1>4. e \in Decisions(SplitLog) /\ Touches(e, o)
  BY RelatingIs DEF Decisions
<1>5. PICK s \in Sessions : IsDecision(e, s)
  BY <1>4, DecisionsAre
<1>6. o = DecisionOf(s)
  BY <1>3, <1>4, <1>5, DecisionTouches
<1>7. {x.id : x \in {e}} = {Decided(s)}
  BY <1>5 DEF IsDecision
<1>8. v.events = {Decided(s)}
  BY <1>2, <1>7 DEF Violation
<1>9. ASSUME NEW g, Explains(g, s) PROVE FALSE
  <2>1. g \in Reasonings
    BY <1>9 DEF Explains
  <2>2. g \in EventsRelating(SplitLog, "emit_reasoning", o)
    BY <1>6, <1>9, <2>1, RelatingIs, ReasoningTouches DEF Reasonings
  <2> QED
    BY <1>2, <1>5, <1>9, <2>2, ExplainsLater
<1> QED
  BY <1>8, <1>9

(* A decision without an explanation is in the response template's report. *)
LEMMA ResponseHas ==
    ASSUME Finished, NEW s \in Sessions, ~ \E g : Explains(g, s)
    PROVE  \E v \in SynchronisedResponse(SplitLog, "make_decision", "emit_reasoning", "CreditDecision") :
               v.events = {Decided(s)}
<1>0. PICK e : IsDecision(e, s)
  BY DecisionsAre
<1> DEFINE o == DecisionOf(s)
           v == Violation("STD.response", {e}, {o})
<1>1. o \in ObjectsOf(SplitLog, "CreditDecision") /\ HasKind(o, "CreditDecision")
  BY DecisionObjects, DecisionIs DEF HasKind
<1>2. e \in EventsRelating(SplitLog, "make_decision", o)
  BY <1>0, <1>1, RelatingIs, DecisionTouches DEF IsDecision, Decisions
<1>3. \A g : g \notin EventsRelating(SplitLog, "emit_reasoning", o)
  BY RelatingIs, ReasoningTouches DEF Reasonings
<1>4. v \in {Violation("STD.response", {x}, {o}) :
               x \in {f \in EventsRelating(SplitLog, "make_decision", o) :
                         ~ \E g \in EventsRelating(SplitLog, "emit_reasoning", o) : StrictlyBefore(f, g)}}
  BY <1>2, <1>3
<1>5. v \in SynchronisedResponse(SplitLog, "make_decision", "emit_reasoning", "CreditDecision")
  BY <1>1, <1>4 DEF SynchronisedResponse
<1>6. {x.id : x \in {e}} = {Decided(s)}
  BY <1>0 DEF IsDecision
<1>7. v.events = {Decided(s)}
  BY <1>6 DEF Violation
<1> QED
  BY <1>5, <1>7

(* A decision is without a prior grant of its own for V1 and V2 alone.     *)
LEMMA UngrantedIs ==
    ASSUME Finished, NEW s \in Sessions, NeedsApproval(s), NEW e, IsDecision(e, s)
    PROVE  Ungranted(e, s) <=> (1 \in plan[s] \/ 2 \in plan[s])
<1>0. HasKind(DecisionOf(s), "CreditDecision")
  BY DecisionIs DEF HasKind
<1>1. ASSUME 1 \notin plan[s], 2 \notin plan[s]
      PROVE  \E a \in Approvals(SplitLog) : Touches(a, DecisionOf(s)) /\ StrictlyBefore(a, e)
  <2>1. PICK a : IsGrant(a, s)
    BY <1>1, OutcomeIs, GrantsAre
  <2>2. Endorsed(a) = {DecisionOf(s)}
    BY <1>1, <2>1, EndorseIs, EndorsedIs
  <2>3. Touches(a, DecisionOf(s))
    BY <1>0, <2>1, <2>2, GrantTouches
  <2> QED
    BY <2>1, <2>3, GrantPrecedes DEF IsGrant
<1>2. ASSUME 1 \in plan[s] \/ 2 \in plan[s], NEW a \in Approvals(SplitLog), Touches(a, DecisionOf(s))
      PROVE  FALSE
  <2>1. PICK x \in Sessions : IsGrant(a, x)
    BY GrantsAre
  <2>2. DecisionOf(s) \in Endorsed(a)
    BY <1>0, <1>2, <2>1, GrantTouches
  <2>3. plan[s] \cap T1Classes # {}
    BY <1>2 DEF T1Classes
  <2>4. x = s /\ 2 \notin plan[s]
    BY <2>1, <2>2, <2>3, EndorserIs
  <2>5. 1 \in plan[s]
    BY <1>2, <2>4
  <2>6. PICK l \in labels : Marked(1, l, rows[s], s, DonorsFor(s))
    BY <2>5, LabelOf
  <2>7. Lacks(rows[s], s, 2 * Retrievals + 16)
    BY <2>6 DEF Marked, MarkOfV1
  <2>8. 2 * Retrievals + 16 \in Positions
    BY RetrievalFacts DEF Positions
  <2>9. IsEvent(a, s, 2 * Retrievals + 16)
    BY <2>1, <2>4 DEF IsGrant
  <2> QED
    BY <2>7, <2>8, <2>9, EventThere
<1> QED
  BY <1>1, <1>2 DEF Ungranted

Binding == {e.id : e \in {d \in Decisions(SplitLog) : d.outcome \in DecisionOutcomes}}

(* The decisions that bind are those of the sessions that needed an        *)
(* approval.                                                               *)
LEMMA BindingIs ==
    ASSUME Finished
    PROVE  \A i : i \in Binding <=> \E s \in Sessions : NeedsApproval(s) /\ i = Decided(s)
<1>1. ASSUME NEW i \in Binding PROVE \E s \in Sessions : NeedsApproval(s) /\ i = Decided(s)
  <2>1. PICK e \in Decisions(SplitLog) : e.outcome \in DecisionOutcomes /\ i = e.id
    BY DEF Binding
  <2>2. PICK s \in Sessions : IsDecision(e, s)
    BY DecisionsAre
  <2> QED
    BY <2>1, <2>2, OutcomeIs DEF IsDecision
<1>2. ASSUME NEW s \in Sessions, NeedsApproval(s) PROVE Decided(s) \in Binding
  <2>1. PICK e : IsDecision(e, s)
    BY DecisionsAre
  <2>2. e.outcome \in DecisionOutcomes /\ e \in Decisions(SplitLog) /\ e.id = Decided(s)
    BY <1>2, <2>1, OutcomeIs DEF IsDecision
  <2> QED
    BY <2>2 DEF Binding
<1> QED
  BY <1>1, <1>2

(* Decision and verdict ids tell the sessions, and each other, apart.      *)
LEMMA PlacesDiffer ==
    /\ \A s, x : Decided(s) = Decided(x) => s = x
    /\ \A s, x : Decided(s) # Granted(x)
  BY RetrievalFacts DEF Decided, Granted

(* What the labels of V1 and V2 cite of the decisions that need approval.  *)
LEMMA CitedIs ==
    ASSUME Finished, NEW l \in labels, l.class \in {1, 2}
    PROVE  /\ l.session \in Sessions /\ NeedsApproval(l.session)
           /\ \A i \in Binding : i \in l.events <=> i = Decided(l.session)
<1> DEFINE s == l.session
<1>1. s \in Sessions /\ l.class \in plan[s] /\ Marked(l.class, l, rows[s], s, DonorsFor(s))
  BY LabelIs
<1>2. NeedsApproval(s)
  BY <1>1, MarksFit
<1>3. l.events = {Decided(s)} \/ l.events = {Granted(s), Decided(s)}
  <2>1. CASE l.class = 1
    BY <1>1, <2>1 DEF Marked, MarkOfV1, Cites
  <2>2. CASE l.class = 2
    <3>1. MarkOfV2(l, rows[s], s, DonorsFor(s))
      BY <1>1, <2>2 DEF Marked
    <3> QED
      BY <3>1 DEF MarkOfV2, Cites
  <2> QED
    BY <2>1, <2>2
<1>4. \A i \in Binding : i # Granted(s)
  BY BindingIs, PlacesDiffer
<1> QED
  BY <1>1, <1>2, <1>3, <1>4

(* The binding decisions the precedence template reports are those the     *)
(* labels of V1 and V2 cite.                                               *)
LEMMA UnapprovedAreCited ==
    ASSUME Finished
    PROVE  LET unapproved == UNION {v.events : v \in SynchronisedPrecedence(SplitLog, "grant_approval",
                                                            "make_decision", "CreditDecision")}
           IN  unapproved \cap Binding = UNION {l.events \cap Binding : l \in {m \in labels : m.class \in {1, 2}}}
<1> DEFINE found == SynchronisedPrecedence(SplitLog, "grant_approval", "make_decision", "CreditDecision")
           cited == {m \in labels : m.class \in {1, 2}}
<1>1. ASSUME NEW i \in Binding, NEW v \in found, i \in v.events
      PROVE  \E l \in cited : i \in l.events
  <2>1. PICK s \in Sessions : \E e : IsDecision(e, s) /\ Ungranted(e, s) /\ v.events = {Decided(s)}
    BY PrecedenceIs
  <2>2. PICK e : IsDecision(e, s) /\ Ungranted(e, s) /\ v.events = {Decided(s)}
    BY <2>1
  <2>3. i = Decided(s)
    BY <1>1, <2>2
  <2>4. NeedsApproval(s)
    BY <2>3, BindingIs, PlacesDiffer
  <2>5. PICK c \in {1, 2} : c \in plan[s]
    BY <2>2, <2>4, UngrantedIs
  <2>6. PICK l \in labels : l.session = s /\ l.class = c
    BY <2>5, LabelOf
  <2>7. i \in l.events
    BY <2>3, <2>6, CitedIs
  <2> QED
    BY <2>6, <2>7
<1>2. ASSUME NEW i \in Binding, NEW l \in cited, i \in l.events
      PROVE  \E v \in found : i \in v.events
  <2> DEFINE s == l.session
  <2>1. l \in labels /\ l.class \in {1, 2}
    OBVIOUS
  <2>2. s \in Sessions /\ NeedsApproval(s) /\ i = Decided(s)
    BY <1>2, <2>1, CitedIs
  <2>3. l.class \in plan[s]
    BY <2>1, LabelIs
  <2>4. PICK e : IsDecision(e, s)
    BY <2>2, DecisionsAre
  <2>5. Ungranted(e, s)
    BY <2>1, <2>2, <2>3, <2>4, UngrantedIs
  <2>6. PICK v \in found : v.events = {Decided(s)}
    BY <2>2, <2>4, <2>5, PrecedenceHas
  <2> QED
    BY <2>2, <2>6
<1> HIDE DEF found, cited
<1>3. \A i : i \in (UNION {v.events : v \in found}) \cap Binding <=> i \in Binding /\ \E v \in found : i \in v.events
  OBVIOUS
<1>4. \A i : i \in UNION {l.events \cap Binding : l \in cited} <=> i \in Binding /\ \E l \in cited : i \in l.events
  OBVIOUS
<1>5. (UNION {v.events : v \in found}) \cap Binding = UNION {l.events \cap Binding : l \in cited}
  BY <1>1, <1>2, <1>3, <1>4
<1> QED
  BY <1>5 DEF found, cited

(* What the response template reports is cited by V6, and a V6 it misses   *)
(* took the reason codes.                                                  *)
LEMMA UnexplainedAreCited ==
    ASSUME Finished
    PROVE  LET unexplained == SynchronisedResponse(SplitLog, "make_decision", "emit_reasoning", "CreditDecision")
           IN  /\ {v.events : v \in unexplained} \subseteq {l.events : l \in {m \in labels : m.class = 6}}
               /\ \A l \in labels : l.class = 6 /\ (\A v \in unexplained : v.events # l.events) =>
                      \A d \in l.objects : "reason_codes" \notin SplitLog.facts[d]
<1> DEFINE unexplained == SynchronisedResponse(SplitLog, "make_decision", "emit_reasoning", "CreditDecision")
<1>1. ASSUME NEW v \in unexplained PROVE \E l \in labels : l.class = 6 /\ l.events = v.events
  <2>1. PICK s \in Sessions : v.events = {Decided(s)} /\ ~ \E g : Explains(g, s)
    BY ResponseIs
  <2>2. 6 \in plan[s]
    BY <2>1, ExplanationIsThere
  <2>3. PICK l \in labels : l.session = s /\ l.class = 6
    BY <2>2, LabelOf
  <2>4. l.events = {Decided(s)}
    BY <2>3, V6Found DEF Cites
  <2> QED
    BY <2>1, <2>3, <2>4
<1>2. ASSUME NEW l \in labels, l.class = 6, \A v \in unexplained : v.events # l.events, NEW d \in l.objects
      PROVE  "reason_codes" \notin SplitLog.facts[d]
  <2>1. /\ l.session \in Sessions
        /\ Cites(l, "T4", {Decided(l.session)}, {DecisionOf(l.session)})
        /\ \/ ~ \E f : Explains(f, l.session)
           \/ ~ Coded(l.session)
    BY <1>2, V6Found
  <2>2. l.events = {Decided(l.session)} /\ d = DecisionOf(l.session)
    BY <2>1 DEF Cites
  <2>3. \E f : Explains(f, l.session)
    BY <1>2, <2>1, <2>2, ResponseHas
  <2> QED
    BY <2>1, <2>2, <2>3 DEF Coded
<1> HIDE DEF unexplained
<1>3. {v.events : v \in unexplained} \subseteq {l.events : l \in {m \in labels : m.class = 6}}
  BY <1>1
<1> QED
  BY <1>2, <1>3 DEF unexplained

(* On a finished split the control-flow rules see of V1, V2 and V6 just    *)
(* what the labels say.                                                    *)
THEOREM ControlFlowSeesItsShare == Spec => []ControlFlowConcurs
<1>1. TellOK /\ LogOK /\ InjectOK /\ AllocationOK => ControlFlowConcurs
  <2> SUFFICES ASSUME TellOK, LogOK, InjectOK, AllocationOK, phase = "done" PROVE ControlFlowConcurs
    BY DEF ControlFlowConcurs, Done
  <2>1. Finished
    BY DEF Finished, AllocationOK
  <2> QED
    BY <2>1, UnapprovedAreCited, UnexplainedAreCited DEF ControlFlowConcurs, Binding
<1> QED
  BY <1>1, TellHolds, LogHolds, InjectHolds, AllocationHolds, PTL

(* None of the qualifiers the templates look up is a declaration.          *)
LEMMA QualsPlainToo ==
    /\ Plain("governed_by") /\ Plain("reads") /\ Plain("concerns") /\ Plain("performed_by")
    /\ Plain("from") /\ Plain("to") /\ Plain("within")
  BY DEF Plain

(* The policy a decision is governed by.                                   *)
LEMMA PolicyIs ==
    ASSUME Finished, NEW s \in Sessions, NEW e, IsDecision(e, s)
    PROVE  Related(e, "governed_by", "PolicyVersion") = {IF 8 \in plan[s] THEN SupersededPolicy ELSE CurrentPolicy}
<1> DEFINE n == Retrievals
<1>1. 2 * n + 17 \in Positions /\ applicant[s] \in Applicants /\ IsEvent(e, s, 2 * n + 17)
  BY ToldOf, RetrievalFacts DEF Positions, IsDecision
<1>2. CASE 8 \in plan[s]
  <2>1. PICK l \in labels : Marked(8, l, rows[s], s, DonorsFor(s))
    BY <1>2, LabelOf
  <2>2. Shows(rows[s], s, 2 * n + 17, "PolicyVersion", {<<"governed_by", SupersededPolicy>>})
    BY <2>1 DEF Marked, MarkOfV8
  <2>3. Says(e, "PolicyVersion", {<<"governed_by", SupersededPolicy>>})
    BY <1>1, <2>2, SaysShown
  <2> QED
    BY <1>2, <2>3, SaysOne, QualsPlainToo
<1>3. CASE 8 \notin plan[s]
  <2>1. "PolicyVersion" \in LinkKinds
    BY DEF LinkKinds
  <2>2. ASSUME NEW c \in MarksOn(s) PROVE <<2 * n + 17, "PolicyVersion">> \notin SpotsOf(c)
    <3>1. c \in 1 .. 9 /\ c # 8
      BY <1>3, MarksFit DEF FaultClasses
    <3>2. c = 1 \/ c = 2 \/ c = 3 \/ c = 4 \/ c = 5 \/ c = 6 \/ c = 7 \/ c = 9
      BY <3>1
    <3> QED
      BY <3>2 DEF SpotsOf
  <2>3. Says(e, "PolicyVersion", Links(Base(s)[2 * n + 17], "PolicyVersion"))
    BY <1>1, <2>1, <2>2, SaysHard
  <2>4. Links(Base(s)[2 * n + 17], "PolicyVersion") = {<<"governed_by", CurrentPolicy>>}
    BY <1>1, BaseLinks DEF BaseLinksAre, Base
  <2>5. Says(e, "PolicyVersion", {<<"governed_by", CurrentPolicy>>})
    BY <2>3, <2>4
  <2> QED
    BY <1>3, <2>5, SaysOne, QualsPlainToo
<1> QED
  BY <1>2, <1>3

(* The policy a decision is governed by is out of date exactly where V8    *)
(* was done.                                                               *)
LEMMA PolicyFacts ==
    ASSUME Finished, NEW s \in Sessions, NEW e, IsDecision(e, s), NEW p \in Related(e, "governed_by", "PolicyVersion")
    PROVE  "effective_to" \in SplitLog.facts[p] <=> 8 \in plan[s] /\ p = SupersededPolicy
<1>1. p = IF 8 \in plan[s] THEN SupersededPolicy ELSE CurrentPolicy
  BY PolicyIs
<1>2. IsEvent(e, s, 2 * Retrievals + 17)
  BY DEF IsDecision
<1>3. p \in DOMAIN SplitLog.facts /\ p.kind = "PolicyVersion"
  BY <1>2, NamedIsDeclared
<1>4. SplitLog.facts[p] = FactsOf(p)
  BY <1>3, FactsAre
<1>5. FactsOf(CurrentPolicy) = {} /\ FactsOf(SupersededPolicy) = {"effective_to"}
  BY DEF FactsOf, CurrentPolicy, SupersededPolicy, Obj
<1>6. CurrentPolicy # SupersededPolicy
  BY DEF CurrentPolicy, SupersededPolicy, Obj
<1> QED
  BY <1>1, <1>4, <1>5, <1>6

(* The violation V8 stands for.                                            *)
LEMMA V8Found ==
    ASSUME Finished, NEW l \in labels, NEW s, s = l.session, l.class = 8
    PROVE  /\ s \in Sessions /\ 8 \in plan[s]
           /\ FoundOf(l) = [constraint |-> "STD", events |-> {Decided(s)}, objects |-> {SupersededPolicy}]
<1>1. s \in Sessions /\ 8 \in plan[s] /\ Marked(8, l, rows[s], s, DonorsFor(s))
  BY LabelIs
<1>2. Cites(l, "STD", {Decided(s)}, {SupersededPolicy})
  BY <1>1 DEF Marked, MarkOfV8
<1> QED
  BY <1>1, <1>2, FoundIs

(* STD.policy_version_current finds exactly the labels of V8.              *)
LEMMA PolicyFound ==
    ASSUME Finished, NEW v
    PROVE  v \in PolicyVersionCurrent(SplitLog) <=> \E l \in labels : l.class = 8 /\ v = FoundOf(l)
<1>1. ASSUME NEW l \in labels, l.class = 8
      PROVE  FoundOf(l) \in PolicyVersionCurrent(SplitLog)
  <2> DEFINE s == l.session
  <2>1. /\ s \in Sessions /\ 8 \in plan[s]
        /\ FoundOf(l) = [constraint |-> "STD", events |-> {Decided(s)}, objects |-> {SupersededPolicy}]
    BY <1>1, V8Found
  <2>2. PICK e \in Decisions(SplitLog) : IsDecision(e, s)
    BY <2>1, DecisionsAre
  <2>3. SupersededPolicy \in Related(e, "governed_by", "PolicyVersion")
    BY <2>1, <2>2, PolicyIs
  <2>4. "effective_to" \in SplitLog.facts[SupersededPolicy]
    BY <2>1, <2>2, <2>3, PolicyFacts
  <2>5. Violation("STD", {e}, {SupersededPolicy}) = FoundOf(l)
    <3>1. {x.id : x \in {e}} = {Decided(s)}
      BY <2>2 DEF IsDecision
    <3> QED
      BY <2>1, <3>1 DEF Violation
  <2>6. FoundOf(l) \in {Violation("STD", {e}, {p}) :
               p \in {x \in Related(e, "governed_by", "PolicyVersion") : "effective_to" \in SplitLog.facts[x]}}
    BY <2>3, <2>4, <2>5
  <2> QED
    BY <2>2, <2>6 DEF PolicyVersionCurrent
<1>2. ASSUME v \in PolicyVersionCurrent(SplitLog) PROVE \E l \in labels : l.class = 8 /\ v = FoundOf(l)
  <2>1. PICK e \in Decisions(SplitLog) : v \in {Violation("STD", {e}, {p}) :
               p \in {x \in Related(e, "governed_by", "PolicyVersion") : "effective_to" \in SplitLog.facts[x]}}
    BY <1>2 DEF PolicyVersionCurrent
  <2>2. PICK p \in Related(e, "governed_by", "PolicyVersion") :
            "effective_to" \in SplitLog.facts[p] /\ v = Violation("STD", {e}, {p})
    BY <2>1
  <2>3. PICK s \in Sessions : IsDecision(e, s)
    BY DecisionsAre
  <2>4. 8 \in plan[s] /\ p = SupersededPolicy
    BY <2>2, <2>3, PolicyFacts
  <2>5. PICK l \in labels : l.session = s /\ l.class = 8
    BY <2>4, LabelOf
  <2>6. FoundOf(l) = [constraint |-> "STD", events |-> {Decided(s)}, objects |-> {SupersededPolicy}]
    BY <2>5, V8Found
  <2>7. {x.id : x \in {e}} = {Decided(s)}
    BY <2>3 DEF IsDecision
  <2> QED
    BY <2>2, <2>4, <2>5, <2>6, <2>7 DEF Violation
<1> QED
  BY <1>1, <1>2

-----------------------------------------------------------------------------
(* The retrievals of a session, and what each reads.                       *)
Steps == 1 .. Retrievals

ReadAt(s, i) ==
    IF 5 \in plan[s] /\ RetrievalOrder[i] = Demographics THEN Local(s) ELSE Resource(RetrievalOrder[i])

IsRetrieval(f, s, i) ==
    /\ IsEvent(f, s, 2 * i + 6) /\ f \in OfType(SplitLog, {"retrieve_data"}) /\ f.id = <<s, 2 * i + 6>>
    /\ Related(f, "concerns", "Application") = {AppObj(s)}
    /\ Related(f, "reads", "DataResource") = {ReadAt(s, i)}

(* The retrievals have their positions, and each source is retrieved once. *)
LEMMA StepFacts ==
    /\ \A i \in Steps : 2 * i + 6 \in Positions
    /\ \A i, j \in Steps : RetrievalOrder[i] = RetrievalOrder[j] => i = j
<1>1. \A i \in Steps : 2 * i + 6 \in Positions
  BY RetrievalFacts DEF Steps, Positions
<1>2. DOMAIN RetrievalOrder = Steps
  BY RetrievalFacts DEF Steps
<1> QED
  BY <1>1, <1>2, RetrievalAssumption

(* No fault but V5 touches what a retrieval reads.                         *)
LEMMA ReadSpots ==
    ASSUME Finished, NEW s \in Sessions, NEW i \in Steps, ~ (5 \in plan[s] /\ RetrievalOrder[i] = Demographics)
    PROVE  \A c \in MarksOn(s) : <<2 * i + 6, "DataResource">> \notin SpotsOf(c)
<1> SUFFICES ASSUME NEW c \in MarksOn(s) PROVE <<2 * i + 6, "DataResource">> \notin SpotsOf(c)
  OBVIOUS
<1>1. c \in 1 .. 9 /\ (c = 5 => 5 \in plan[s])
  BY MarksFit DEF FaultClasses
<1>2. CASE c = 5
  <2>1. \A j \in 1 .. Retrievals : 2 * i + 6 = 2 * j + 6 => j = i
    BY RetrievalFacts DEF Steps
  <2> QED
    BY <1>1, <1>2, <2>1 DEF SpotsOf
<1>3. CASE c # 5
  <2>1. c = 1 \/ c = 2 \/ c = 3 \/ c = 4 \/ c = 6 \/ c = 7 \/ c = 8 \/ c = 9
    BY <1>1, <1>3
  <2> QED
    BY <2>1 DEF SpotsOf
<1> QED
  BY <1>2, <1>3

(* The event at the place of a retrieval is that retrieval.                *)
LEMMA RetrievalIsThere ==
    ASSUME Finished, NEW s \in Sessions, NEW i \in Steps, NEW f, IsEvent(f, s, 2 * i + 6)
    PROVE  IsRetrieval(f, s, i)
<1>1. 2 * i + 6 \in Positions /\ applicant[s] \in Applicants
  BY ToldOf, StepFacts
<1>2. f \in SplitLog.events /\ f.id = <<s, 2 * i + 6>> /\ f.type = "retrieve_data"
  BY <1>1, EventIs DEF TypeFits, Steps
<1>3. Related(f, "concerns", "Application") = {AppObj(s)}
  <2>1. "Application" \in LinkKinds
    BY DEF LinkKinds
  <2>2. \A c \in MarksOn(s) : <<2 * i + 6, "Application">> \notin SpotsOf(c)
    BY NotSpots
  <2>3. Says(f, "Application", Links(Base(s)[2 * i + 6], "Application"))
    BY <1>1, <2>1, <2>2, SaysHard
  <2>4. Links(Base(s)[2 * i + 6], "Application") = {<<"concerns", AppObj(s)>>}
    BY <1>1, BaseLinks DEF BaseLinksAre, Base, Steps
  <2>5. Says(f, "Application", {<<"concerns", AppObj(s)>>})
    BY <2>3, <2>4
  <2> QED
    BY <2>5, SaysOne, QualsPlainToo
<1>4. Says(f, "DataResource", {<<"reads", ReadAt(s, i)>>})
  <2>1. CASE 5 \in plan[s] /\ RetrievalOrder[i] = Demographics
    <3>1. PICK l \in labels : Marked(5, l, rows[s], s, DonorsFor(s))
      BY <2>1, LabelOf
    <3>2. MarkOfV5(l, rows[s], s)
      BY <3>1 DEF Marked
    <3>3. PICK j \in Steps : RetrievalOrder[j] = Demographics /\ Shows(rows[s], s, 2 * j + 6, "DataResource", {<<"reads", Local(s)>>})
      BY <3>2 DEF MarkOfV5, Steps
    <3>4. j = i
      BY <2>1, <3>3, StepFacts
    <3>5. Says(f, "DataResource", {<<"reads", Local(s)>>})
      BY <3>3, <3>4, SaysShown
    <3> QED
      BY <2>1, <3>5 DEF ReadAt
  <2>2. CASE ~ (5 \in plan[s] /\ RetrievalOrder[i] = Demographics)
    <3>1. "DataResource" \in LinkKinds
      BY DEF LinkKinds
    <3>2. Says(f, "DataResource", Links(Base(s)[2 * i + 6], "DataResource"))
      BY <1>1, <2>2, <3>1, ReadSpots, SaysHard
    <3>3. Links(Base(s)[2 * i + 6], "DataResource") = {<<"reads", Resource(RetrievalOrder[i])>>}
      BY <1>1, BaseLinks DEF BaseLinksAre, Base, Steps
    <3> QED
      BY <2>2, <3>2, <3>3 DEF ReadAt
  <2> QED
    BY <2>1, <2>2
<1>5. Related(f, "reads", "DataResource") = {ReadAt(s, i)}
  BY <1>4, SaysOne, QualsPlainToo
<1> QED
  BY <1>2, <1>3, <1>5 DEF IsRetrieval, OfType

(* The retrievals of the log, by session and source.                       *)
LEMMA RetrievalsAre ==
    ASSUME Finished, NEW f \in OfType(SplitLog, {"retrieve_data"})
    PROVE  \E s \in Sessions : \E i \in Steps : IsRetrieval(f, s, i)
<1>1. f \in SplitLog.events /\ f.type = "retrieve_data"
  BY DEF OfType
<1>2. PICK s \in Sessions, p \in Positions : IsEvent(f, s, p)
  BY <1>1, EventsAre
<1>3. PICK i \in Steps : p = 2 * i + 6
  BY <1>1, <1>2, EventIs DEF TypeFits, Steps
<1> QED
  BY <1>2, <1>3, RetrievalIsThere

(* Only V4 deletes retrievals, and never that of the demographics.         *)
LEMMA RetrievalStays ==
    ASSUME Finished, NEW s \in Sessions, NEW i \in Steps, 4 \notin plan[s] \/ RetrievalOrder[i] = Demographics
    PROVE  \E f : IsRetrieval(f, s, i)
<1> DEFINE n == Retrievals
<1>0. n \in Nat \ {0} /\ i \in 1 .. n
  BY RetrievalFacts DEF Steps
<1>1. ASSUME NEW c \in MarksOn(s) PROVE 2 * i + 6 \notin GoneOf(c)
  <2>1. CASE c = 4
    <3>1. RetrievalOrder[i] = Demographics
      BY <2>1, MarksFit DEF FaultClasses
    <3>2. \A j \in 1 .. n : 2 * i + 6 # 2 * j + 5 /\ (2 * i + 6 = 2 * j + 6 => j = i)
      BY <1>0
    <3> QED
      BY <2>1, <3>1, <3>2 DEF GoneOf
  <2>2. CASE c = 1
    BY <1>0, <2>2 DEF GoneOf
  <2>3. CASE c = 7
    BY <1>0, <2>3 DEF GoneOf, HandoffAt
  <2>4. CASE c \notin {1, 4, 7}
    BY <2>4 DEF GoneOf
  <2> QED
    BY <2>1, <2>2, <2>3, <2>4
<1>2. 2 * i + 6 \in Positions
  BY StepFacts
<1>3. PICK f : IsEvent(f, s, 2 * i + 6)
  BY <1>1, <1>2, EventThere
<1> QED
  BY <1>3, RetrievalIsThere

(* What is read bears the name of its source, V5 or not.                   *)
LEMMA ReadObject ==
    ASSUME NEW s, NEW i
    PROVE  ReadAt(s, i).id = RetrievalOrder[i] /\ ReadAt(s, i).kind = "DataResource"
  BY DEF ReadAt, Local, Resource, Obj

(* Different sessions have different applications.                         *)
LEMMA ApplicationsDiffer == \A s, x : AppObj(s) = AppObj(x) => s = x
  BY DEF AppObj, OwnedBy, Application, Obj, SessionKinds

(* A decision concerns the application of its session.                     *)
LEMMA ConcernsIs ==
    ASSUME NEW e, NEW s, IsDecision(e, s)
    PROVE  Related(e, "concerns", "Application") = {AppObj(s)}
  BY SaysOne, QualsPlainToo DEF IsDecision

(* The sources read for a session are those of the retrievals that stand.  *)
LEMMA CoveredIs ==
    ASSUME Finished, NEW s \in Sessions
    PROVE  \A t : t \in Covered(SplitLog, AppObj(s)) <=>
                      \E i \in Steps : t = RetrievalOrder[i] /\ \E f : IsRetrieval(f, s, i)
<1>1. ASSUME NEW t \in Covered(SplitLog, AppObj(s))
      PROVE  \E i \in Steps : t = RetrievalOrder[i] /\ \E f : IsRetrieval(f, s, i)
  <2>1. PICK f \in OfType(SplitLog, {"retrieve_data"}) :
            /\ AppObj(s) \in Related(f, "concerns", "Application")
            /\ t \in {r.id : r \in Related(f, "reads", "DataResource")}
    BY DEF Covered
  <2>2. PICK x \in Sessions : \E i \in Steps : IsRetrieval(f, x, i)
    BY RetrievalsAre
  <2>3. PICK i \in Steps : IsRetrieval(f, x, i)
    BY <2>2
  <2>4. x = s
    BY <2>1, <2>3, ApplicationsDiffer DEF IsRetrieval
  <2>5. Related(f, "reads", "DataResource") = {ReadAt(x, i)}
    BY <2>3 DEF IsRetrieval
  <2>6. t = RetrievalOrder[i]
    BY <2>1, <2>5, ReadObject
  <2> QED
    BY <2>3, <2>4, <2>6
<1>2. ASSUME NEW i \in Steps, NEW f, IsRetrieval(f, s, i)
      PROVE  RetrievalOrder[i] \in Covered(SplitLog, AppObj(s))
  <2>1. f \in OfType(SplitLog, {"retrieve_data"}) /\ AppObj(s) \in Related(f, "concerns", "Application")
    BY <1>2 DEF IsRetrieval
  <2>2. Related(f, "reads", "DataResource") = {ReadAt(s, i)}
    BY <1>2 DEF IsRetrieval
  <2>3. RetrievalOrder[i] \in {r.id : r \in Related(f, "reads", "DataResource")}
    BY <2>2, ReadObject
  <2> QED
    BY <2>1, <2>3 DEF Covered
<1> QED
  BY <1>1, <1>2

(* The required sources are covered exactly where V4 was not done.         *)
LEMMA CoverageIs ==
    ASSUME Finished, NEW s \in Sessions
    PROVE  RequiredSources \subseteq Covered(SplitLog, AppObj(s)) <=> 4 \notin plan[s]
<1>0. DOMAIN RetrievalOrder = Steps
  BY RetrievalFacts DEF Steps
<1>1. ASSUME 4 \notin plan[s], NEW t \in RequiredSources PROVE t \in Covered(SplitLog, AppObj(s))
  <2>1. PICK i \in Steps : t = RetrievalOrder[i]
    BY <1>0, RulesAssumption
  <2> QED
    BY <1>1, <2>1, RetrievalStays, CoveredIs
<1>2. ASSUME 4 \in plan[s] PROVE ~ (RequiredSources \subseteq Covered(SplitLog, AppObj(s)))
  <2>1. PICK l \in labels : Marked(4, l, rows[s], s, DonorsFor(s))
    BY <1>2, LabelOf
  <2>2. MarkOfV4(l, rows[s], s)
    BY <2>1 DEF Marked
  <2>3. PICK i \in Steps : RetrievalOrder[i] # Demographics /\ Lacks(rows[s], s, 2 * i + 6)
    BY <2>2 DEF MarkOfV4, Steps
  <2>4. RetrievalOrder[i] \in RequiredSources
    BY <1>0, <2>3, RulesAssumption
  <2>5. 2 * i + 6 \in Positions
    BY StepFacts
  <2>6. ASSUME NEW j \in Steps, RetrievalOrder[i] = RetrievalOrder[j], NEW f, IsRetrieval(f, s, j) PROVE FALSE
    <3>1. j = i
      BY <2>6, StepFacts
    <3>2. IsEvent(f, s, 2 * i + 6)
      BY <2>6, <3>1 DEF IsRetrieval
    <3> QED
      BY <2>3, <2>5, <3>2, EventThere
  <2>7. RetrievalOrder[i] \notin Covered(SplitLog, AppObj(s))
    BY <2>6, CoveredIs
  <2> QED
    BY <2>4, <2>7
<1> QED
  BY <1>1, <1>2

(* The violation V4 stands for.                                            *)
LEMMA V4Found ==
    ASSUME Finished, NEW l \in labels, NEW s, s = l.session, l.class = 4
    PROVE  /\ s \in Sessions /\ 4 \in plan[s]
           /\ FoundOf(l) = [constraint |-> "T2", events |-> {Decided(s)}, objects |-> {}]
<1>1. s \in Sessions /\ 4 \in plan[s] /\ Marked(4, l, rows[s], s, DonorsFor(s))
  BY LabelIs
<1>2. Cites(l, "T2", {Decided(s)}, {})
  BY <1>1 DEF Marked, MarkOfV4
<1> QED
  BY <1>1, <1>2, FoundIs

(* The condition of T2, at a decision of the split.                        *)
LEMMA UncoveredIs ==
    ASSUME Finished, NEW s \in Sessions, NEW e, IsDecision(e, s)
    PROVE  (~ (RequiredSources \subseteq
                  UNION {Covered(SplitLog, a) : a \in Related(e, "concerns", "Application")})) <=> 4 \in plan[s]
<1>1. Related(e, "concerns", "Application") = {AppObj(s)}
  BY ConcernsIs
<1>2. UNION {Covered(SplitLog, a) : a \in {AppObj(s)}} = Covered(SplitLog, AppObj(s))
  OBVIOUS
<1> QED
  BY <1>1, <1>2, CoverageIs

(* T2 finds exactly the labels of V4.                                      *)
LEMMA T2Found ==
    ASSUME Finished, NEW v
    PROVE  v \in T2(SplitLog) <=> \E l \in labels : l.class = 4 /\ v = FoundOf(l)
<1>1. ASSUME NEW l \in labels, l.class = 4 PROVE FoundOf(l) \in T2(SplitLog)
  <2> DEFINE s == l.session
  <2>1. /\ s \in Sessions /\ 4 \in plan[s]
        /\ FoundOf(l) = [constraint |-> "T2", events |-> {Decided(s)}, objects |-> {}]
    BY <1>1, V4Found
  <2>2. PICK e \in Decisions(SplitLog) : IsDecision(e, s)
    BY <2>1, DecisionsAre
  <2>3. ~ (RequiredSources \subseteq UNION {Covered(SplitLog, a) : a \in Related(e, "concerns", "Application")})
    BY <2>1, <2>2, UncoveredIs
  <2>4. Violation("T2", {e}, {}) = FoundOf(l)
    <3>1. {x.id : x \in {e}} = {Decided(s)}
      BY <2>2 DEF IsDecision
    <3> QED
      BY <2>1, <3>1 DEF Violation
  <2> QED
    BY <2>2, <2>3, <2>4 DEF T2
<1>2. ASSUME v \in T2(SplitLog) PROVE \E l \in labels : l.class = 4 /\ v = FoundOf(l)
  <2>1. PICK e \in Decisions(SplitLog) :
            /\ ~ (RequiredSources \subseteq UNION {Covered(SplitLog, a) : a \in Related(e, "concerns", "Application")})
            /\ v = Violation("T2", {e}, {})
    BY <1>2 DEF T2
  <2>3. PICK s \in Sessions : IsDecision(e, s)
    BY DecisionsAre
  <2>4. 4 \in plan[s]
    BY <2>1, <2>3, UncoveredIs
  <2>5. PICK l \in labels : l.session = s /\ l.class = 4
    BY <2>4, LabelOf
  <2>6. FoundOf(l) = [constraint |-> "T2", events |-> {Decided(s)}, objects |-> {}]
    BY <2>5, V4Found
  <2>7. {x.id : x \in {e}} = {Decided(s)}
    BY <2>3 DEF IsDecision
  <2> QED
    BY <2>1, <2>5, <2>6, <2>7 DEF Violation
<1> QED
  BY <1>1, <1>2

-----------------------------------------------------------------------------
(* A special-category resource without a lawful basis is one of V5.        *)
Unlawful(o) == "special_category" \in SplitLog.facts[o] /\ "lawful_basis" \notin SplitLog.facts[o]

(* Only the resource V5 put in is special-category without a lawful basis. *)
LEMMA UnlawfulIs ==
    ASSUME Finished, NEW s \in Sessions, NEW i \in Steps, NEW f, IsRetrieval(f, s, i)
    PROVE  Unlawful(ReadAt(s, i)) <=> 5 \in plan[s] /\ RetrievalOrder[i] = Demographics
<1> DEFINE o == ReadAt(s, i)
<1>1. IsEvent(f, s, 2 * i + 6) /\ o \in Related(f, "reads", "DataResource")
  BY DEF IsRetrieval
<1>2. o \in DOMAIN SplitLog.facts /\ o.kind = "DataResource"
  BY <1>1, NamedIsDeclared
<1>3. SplitLog.facts[o] = FactsOf(o)
  BY <1>2, FactsAre
<1>4. FactsOf(o) = IF o.owner = 0 THEN ResourceFacts(o.id) ELSE ResourceFacts(o.id) \ {"lawful_basis"}
  BY <1>2 DEF FactsOf
<1>5. s # 0
  BY ToldOf
<1>6. \A t : /\ "lawful_basis" \in ResourceFacts(t)
             /\ "special_category" \in ResourceFacts(t) <=> t = Demographics
  BY DEF ResourceFacts
<1>7. CASE 5 \in plan[s] /\ RetrievalOrder[i] = Demographics
  <2>1. o.owner = s /\ o.id = Demographics
    BY <1>7 DEF ReadAt, Local, Resource, Obj
  <2> QED
    BY <1>3, <1>4, <1>5, <1>6, <1>7, <2>1 DEF Unlawful
<1>8. CASE ~ (5 \in plan[s] /\ RetrievalOrder[i] = Demographics)
  <2>1. o.owner = 0
    BY <1>8 DEF ReadAt, Resource, Obj
  <2> QED
    BY <1>3, <1>4, <1>6, <1>8, <2>1 DEF Unlawful
<1> QED
  BY <1>7, <1>8

(* No model call reads a data resource.                                    *)
LEMMA CallsReadNothing ==
    ASSUME Finished, NEW f \in SplitLog.events, f.type = "call_llm"
    PROVE  Related(f, "reads", "DataResource") = {}
<1>1. SUFFICES ASSUME NEW o \in Related(f, "reads", "DataResource") PROVE FALSE
  OBVIOUS
<1>2. PICK e \in AllSpans : f = LogEvent(e)
  BY SplitEvents
<1>3. PICK s \in Sessions : \E k \in DOMAIN rows[s] : e = rows[s][k]
  BY SpansAre
<1>4. PICK k \in DOMAIN rows[s] : e = rows[s][k]
  BY <1>3
<1>5. Says(f, "DataResource", Links(e, "DataResource"))
  BY <1>2, LogEventSays
<1>6. <<"reads", o>> \in Links(e, "DataResource")
  BY <1>1, <1>5, QualsPlainToo DEF Says
<1>7. PICK r \in e.refs : r.qual = "reads" /\ r.obj = o /\ r.obj.kind = "DataResource"
  BY <1>6, LinksIs
<1>8. TraceFits(rows[s], s)
  BY DEF Finished, LogOK
<1>9. RefFits(r, e.type)
  BY <1>4, <1>8, FitsParts
<1>10. e.type = "call_llm"
  BY <1>2 DEF LogEvent
<1>11. "DataResource" \in OwnKinds /\ DeclaredBy("call_llm") = {"Model", "Prompt"}
  BY KindsAre
<1> QED
  BY <1>7, <1>9, <1>10, <1>11 DEF RefFits

(* What T5 finds.                                                          *)
LEMMA T5Is ==
    ASSUME NEW v
    PROVE  v \in T5(SplitLog) <=>
               \E e \in OfType(SplitLog, {"retrieve_data", "call_llm"}) :
                   \E r \in Related(e, "reads", "DataResource") :
                       Related(e, "concerns", "Application") # {} /\ Unlawful(r) /\ v = Violation("T5", {e}, {r})
<1> DEFINE Reported(e) ==
             {Violation("T5", {e}, {r}) :
               r \in {x \in Related(e, "reads", "DataResource") :
                         /\ "special_category" \in SplitLog.facts[x]
                         /\ "lawful_basis" \notin SplitLog.facts[x]}}
<1>1. \A e : v \in Reported(e) <=>
             \E r \in Related(e, "reads", "DataResource") : Unlawful(r) /\ v = Violation("T5", {e}, {r})
  BY DEF Unlawful
<1>2. T5(SplitLog) = UNION {Reported(e) : e \in {f \in OfType(SplitLog, {"retrieve_data", "call_llm"}) :
                                                  Related(f, "concerns", "Application") # {}}}
  BY DEF T5
<1> HIDE DEF Reported
<1>3. v \in T5(SplitLog) <=> \E e \in OfType(SplitLog, {"retrieve_data", "call_llm"}) :
                                 Related(e, "concerns", "Application") # {} /\ v \in Reported(e)
  BY <1>2
<1> QED
  BY <1>1, <1>3

(* The violation V5 stands for.                                            *)
LEMMA V5Found ==
    ASSUME Finished, NEW l \in labels, NEW s, s = l.session, l.class = 5
    PROVE  /\ s \in Sessions /\ 5 \in plan[s]
           /\ \E i \in Steps : /\ RetrievalOrder[i] = Demographics
                               /\ FoundOf(l) = [constraint |-> "T5", events |-> {<<s, 2 * i + 6>>}, objects |-> {Local(s)}]
<1>1. s \in Sessions /\ 5 \in plan[s] /\ Marked(5, l, rows[s], s, DonorsFor(s))
  BY LabelIs
<1>2. MarkOfV5(l, rows[s], s)
  BY <1>1 DEF Marked
<1>3. PICK i \in Steps : RetrievalOrder[i] = Demographics /\ Cites(l, "T5", {<<s, 2 * i + 6>>}, {Local(s)})
  BY <1>2 DEF MarkOfV5, Steps
<1> QED
  BY <1>1, <1>3, FoundIs

(* T5 finds exactly the labels of V5.                                      *)
LEMMA T5Found ==
    ASSUME Finished, NEW v
    PROVE  v \in T5(SplitLog) <=> \E l \in labels : l.class = 5 /\ v = FoundOf(l)
<1>1. ASSUME NEW l \in labels, l.class = 5 PROVE FoundOf(l) \in T5(SplitLog)
  <2> DEFINE s == l.session
  <2>1. PICK i \in Steps : /\ s \in Sessions /\ 5 \in plan[s] /\ RetrievalOrder[i] = Demographics
             /\ FoundOf(l) = [constraint |-> "T5", events |-> {<<s, 2 * i + 6>>}, objects |-> {Local(s)}]
    BY <1>1, V5Found
  <2>2. PICK f : IsRetrieval(f, s, i)
    BY <2>1, RetrievalStays
  <2>3. ReadAt(s, i) = Local(s)
    BY <2>1 DEF ReadAt
  <2>4. /\ f \in OfType(SplitLog, {"retrieve_data", "call_llm"}) /\ f.id = <<s, 2 * i + 6>>
        /\ Related(f, "concerns", "Application") # {} /\ Local(s) \in Related(f, "reads", "DataResource")
    BY <2>2, <2>3 DEF IsRetrieval, OfType
  <2>5. Unlawful(Local(s))
    BY <2>1, <2>2, <2>3, UnlawfulIs
  <2>6. Violation("T5", {f}, {Local(s)}) = FoundOf(l)
    <3>1. {x.id : x \in {f}} = {<<s, 2 * i + 6>>}
      BY <2>4
    <3> QED
      BY <2>1, <3>1 DEF Violation
  <2> QED
    BY <2>4, <2>5, <2>6, T5Is
<1>2. ASSUME v \in T5(SplitLog) PROVE \E l \in labels : l.class = 5 /\ v = FoundOf(l)
  <2>1. PICK e \in OfType(SplitLog, {"retrieve_data", "call_llm"}) :
                   \E r \in Related(e, "reads", "DataResource") :
                       Related(e, "concerns", "Application") # {} /\ Unlawful(r) /\ v = Violation("T5", {e}, {r})
    BY <1>2, T5Is
  <2>2. PICK r \in Related(e, "reads", "DataResource") : Unlawful(r) /\ v = Violation("T5", {e}, {r})
    BY <2>1
  <2>3. e \in OfType(SplitLog, {"retrieve_data"})
    BY <2>2, CallsReadNothing DEF OfType
  <2>4. PICK s \in Sessions : \E i \in Steps : IsRetrieval(e, s, i)
    BY <2>3, RetrievalsAre
  <2>5. PICK i \in Steps : IsRetrieval(e, s, i)
    BY <2>4
  <2>6. r = ReadAt(s, i)
    BY <2>5 DEF IsRetrieval
  <2>7. 5 \in plan[s] /\ RetrievalOrder[i] = Demographics
    BY <2>2, <2>5, <2>6, UnlawfulIs
  <2>8. r = Local(s)
    BY <2>6, <2>7 DEF ReadAt
  <2>9. PICK l \in labels : l.session = s /\ l.class = 5
    BY <2>7, LabelOf
  <2>10. PICK j \in Steps : /\ RetrievalOrder[j] = Demographics
               /\ FoundOf(l) = [constraint |-> "T5", events |-> {<<s, 2 * j + 6>>}, objects |-> {Local(s)}]
    BY <2>9, V5Found
  <2>11. j = i
    BY <2>7, <2>10, StepFacts
  <2>12. {x.id : x \in {e}} = {<<s, 2 * i + 6>>}
    BY <2>5 DEF IsRetrieval
  <2> QED
    BY <2>2, <2>8, <2>9, <2>10, <2>11, <2>12 DEF Violation
<1> QED
  BY <1>1, <1>2

(* The events of a session, as T3 takes them.                              *)
EventsIn(s) == SessionEvents(SplitLog, SessionObj(s))

(* The events T3 takes for a session are those at its positions.           *)
LEMMA InSession ==
    ASSUME Finished, NEW s \in Sessions
    PROVE  \A f : f \in EventsIn(s) <=> \E p \in Positions : IsEvent(f, s, p)
<1>1. ASSUME NEW f \in EventsIn(s) PROVE \E p \in Positions : IsEvent(f, s, p)
  <2>1. f \in SplitLog.events /\ SessionOf(f) = {SessionObj(s)}
    BY DEF EventsIn, SessionEvents
  <2>2. PICK x \in Sessions, p \in Positions : IsEvent(f, x, p)
    BY <2>1, EventsAre
  <2>3. SessionOf(f) = {SessionObj(x)}
    BY <2>2, SessionSaid
  <2>4. x = s
    BY <2>1, <2>3, SessionsDiffer
  <2> QED
    BY <2>2, <2>4
<1>2. ASSUME NEW p \in Positions, NEW f, IsEvent(f, s, p) PROVE f \in EventsIn(s)
  BY <1>2, EventIs, SessionSaid DEF EventsIn, SessionEvents
<1> QED
  BY <1>1, <1>2

(* Within a session both orders of the engine are that of the positions.   *)
LEMMA OrderIs ==
    ASSUME Finished, NEW s \in Sessions, NEW p \in Positions, NEW q \in Positions,
           NEW f, IsEvent(f, s, p), NEW g, IsEvent(g, s, q)
    PROVE  /\ Precedes(f, g) <=> p < q
           /\ StrictlyBefore(f, g) <=> p < q
           /\ f = g <=> p = q
<1>1. applicant[s] \in Applicants /\ s \in Nat /\ p \in Nat /\ q \in Nat
  BY ToldOf, RetrievalFacts DEF Positions
<1>2. /\ f.id = <<s, p>> /\ f.time = Base(s)[p].time
      /\ g.id = <<s, q>> /\ g.time = Base(s)[q].time
  BY EventIs
<1>3. /\ Base(s)[p].time \in Int /\ Base(s)[q].time \in Int
      /\ p < q => Base(s)[p].time < Base(s)[q].time
      /\ q < p => Base(s)[q].time < Base(s)[p].time
  BY <1>1, BaseTimes DEF Base
<1>4. f.id[1] = s /\ f.id[2] = p /\ g.id[1] = s /\ g.id[2] = q
  BY <1>2
<1>5. p = q => f = g
  BY SameEvent
<1>6. f = g => p = q
  BY <1>4
<1>7. Precedes(f, g) <=> f.time < g.time \/ (f.time = g.time /\ p < q)
  BY <1>1, <1>4 DEF Precedes
<1> QED
  BY <1>1, <1>2, <1>3, <1>5, <1>6, <1>7 DEF StrictlyBefore

(* No fault but V7, and that at the handoffs, touches the agents of an     *)
(* event.                                                                  *)
LEMMA AgentSpots ==
    ASSUME NEW p, NEW c, c = 7 => p \notin HandoffAt
    PROVE  <<p, "Agent">> \notin SpotsOf(c)
<1>1. CASE c = 2
  BY <1>1 DEF SpotsOf
<1>2. CASE c \in {3, 9}
  BY <1>2 DEF SpotsOf
<1>3. CASE c = 5
  BY <1>3 DEF SpotsOf
<1>4. CASE c = 6
  BY <1>4 DEF SpotsOf
<1>5. CASE c = 7
  BY <1>5 DEF SpotsOf
<1>6. CASE c = 8
  BY <1>6 DEF SpotsOf
<1>7. CASE c \notin {2, 3, 5, 6, 7, 8, 9}
  BY <1>7 DEF SpotsOf
<1> QED
  BY <1>1, <1>2, <1>3, <1>4, <1>5, <1>6, <1>7

(* A handoff is performed by nobody: its agents are sender and receiver.   *)
LEMMA HandoffUnperformed ==
    ASSUME Finished, NEW f \in SplitLog.events, f.type = "handoff"
    PROVE  Related(f, "performed_by", "Agent") = {}
<1>1. SUFFICES ASSUME NEW o \in Related(f, "performed_by", "Agent") PROVE FALSE
  OBVIOUS
<1>2. PICK e \in AllSpans : f = LogEvent(e)
  BY SplitEvents
<1>3. PICK s \in Sessions : \E k \in DOMAIN rows[s] : e = rows[s][k]
  BY SpansAre
<1>4. PICK k \in DOMAIN rows[s] : e = rows[s][k]
  BY <1>3
<1>5. Says(f, "Agent", Links(e, "Agent"))
  BY <1>2, LogEventSays
<1>6. <<"performed_by", o>> \in Links(e, "Agent")
  BY <1>1, <1>5, QualsPlainToo DEF Says
<1>7. PICK r \in e.refs : r.qual = "performed_by" /\ r.obj = o /\ r.obj.kind = "Agent"
  BY <1>6, LinksIs
<1>8. TraceFits(rows[s], s)
  BY DEF Finished, LogOK
<1>9. RefFits(r, e.type)
  BY <1>4, <1>8, FitsParts
<1>10. e.type = "handoff"
  BY <1>2 DEF LogEvent
<1> QED
  BY <1>7, <1>9, <1>10 DEF RefFits, NamedFits

(* Who performs the event at a position, whatever was done to the session. *)
LEMMA PerformersAre ==
    ASSUME Finished, NEW s \in Sessions, NEW p \in Positions, NEW f, IsEvent(f, s, p)
    PROVE  /\ p \in SilentAt => Related(f, "performed_by", "Agent") = {}
           /\ p \notin SilentAt => Related(f, "performed_by", "Agent") = {PerformerAt(p)}
<1>1. applicant[s] \in Applicants /\ "Agent" \in LinkKinds
  BY ToldOf DEF LinkKinds
<1>2. CASE p \in HandoffAt
  <2>1. f \in SplitLog.events /\ f.type = "handoff"
    <3>1. f \in SplitLog.events /\ TypeFits(f.type, p)
      BY EventIs
    <3> QED
      BY <1>2, <3>1 DEF TypeFits, HandoffAt
  <2>2. p \in SilentAt
    BY <1>2 DEF SilentAt
  <2> QED
    BY <2>1, <2>2, HandoffUnperformed
<1>3. CASE p \notin HandoffAt
  <2>1. \A c \in MarksOn(s) : <<p, "Agent">> \notin SpotsOf(c)
    BY <1>3, AgentSpots
  <2>2. Says(f, "Agent", Links(Base(s)[p], "Agent"))
    BY <1>1, <2>1, SaysHard
  <2>3. CASE p \in SilentAt
    <3>1. p \in {1, 2 * Retrievals + 16, 2 * Retrievals + 20}
      BY <1>3, <2>3 DEF SilentAt
    <3>2. Links(Base(s)[p], "Agent") = {}
      BY <1>1, <3>1, BaseLinks DEF BaseLinksAre, Base
    <3>3. Says(f, "Agent", {})
      BY <2>2, <3>2
    <3> QED
      BY <2>3, <3>3, SaysNone, QualsPlainToo
  <2>4. CASE p \notin SilentAt
    <3>1. p \in Positions \ SilentAt
      BY <2>4
    <3>2. Links(Base(s)[p], "Agent") = {<<"performed_by", PerformerAt(p)>>}
      BY <1>1, <3>1, BaseLinks DEF BaseLinksAre, Base
    <3>3. Says(f, "Agent", {<<"performed_by", PerformerAt(p)>>})
      BY <2>2, <3>2
    <3> QED
      BY <2>4, <3>3, SaysOne, QualsPlainToo
  <2> QED
    BY <2>3, <2>4
<1> QED
  BY <1>2, <1>3

(* Agents are told apart by role.                                          *)
LEMMA AgentsDiffer ==
    \A x, y : Agent(x) = Agent(y) => x = y
  BY DEF Agent, Obj

(* The receiver of a handoff acts right after it and never before.         *)
LEMMA HandoffFacts ==
    ASSUME NEW h \in HandoffAt
    PROVE  /\ h \in Positions /\ h + 1 \in Positions /\ h + 1 \notin SilentAt
           /\ h + 1 \in {6, 2 * Retrievals + 8, 2 * Retrievals + 13}
           /\ PerformerAt(h + 1) = ReceiverAt(h)
           /\ \A p \in Positions \ SilentAt : PerformerAt(p) = ReceiverAt(h) => h + 1 <= p
           /\ \A o \in HandoffAt : ReceiverAt(o) = ReceiverAt(h) => o = h
           /\ \A o \in HandoffAt : o < h => o + 1 < h
<1> DEFINE n == Retrievals
<1>1. n \in Nat \ {0} /\ (h = 5 \/ h = 2 * n + 7 \/ h = 2 * n + 12)
  BY RetrievalFacts DEF HandoffAt
<1>2. /\ h \in Positions /\ h + 1 \in Positions /\ h + 1 \notin SilentAt
      /\ h + 1 \in {6, 2 * n + 8, 2 * n + 13}
  BY <1>1 DEF Positions, SilentAt, HandoffAt
<1>3. PerformerAt(h + 1) = ReceiverAt(h)
  BY <1>1 DEF PerformerAt, ReceiverAt
<1>4. ASSUME NEW p \in Positions \ SilentAt, PerformerAt(p) = ReceiverAt(h), ~ (h + 1 <= p) PROVE FALSE
  <2>1. p \in Nat /\ p >= 1 /\ p <= h /\ p # 1 /\ p # 5 /\ p # 2 * n + 7 /\ p # 2 * n + 12
    BY <1>1, <1>4 DEF Positions, SilentAt, HandoffAt
  <2>2. CASE p \in 2 .. 4
    <3>1. PerformerAt(p) = Agent("intake")
      BY <2>2 DEF PerformerAt
    <3> QED
      BY <1>4, <3>1, AgentsDiffer DEF ReceiverAt
  <2>3. CASE p \in 6 .. 2 * n + 6
    <3>1. PerformerAt(p) = Agent("data_retrieval") /\ h # 5
      BY <1>1, <2>1, <2>3 DEF PerformerAt
    <3> QED
      BY <1>4, <3>1, AgentsDiffer DEF ReceiverAt
  <2>4. CASE p \in 2 * n + 8 .. 2 * n + 11
    <3>1. PerformerAt(p) = Agent("scoring") /\ h = 2 * n + 12 /\ h # 5 /\ h # 2 * n + 7
      BY <1>1, <2>1, <2>4 DEF PerformerAt
    <3>2. ReceiverAt(h) = Agent("adjudication")
      BY <3>1 DEF ReceiverAt
    <3> QED
      BY <1>4, <3>1, <3>2, AgentsDiffer
  <2> QED
    BY <1>1, <2>1, <2>2, <2>3, <2>4
<1>5. ASSUME NEW o \in HandoffAt, ReceiverAt(o) = ReceiverAt(h) PROVE o = h
  <2>1. o = 5 \/ o = 2 * n + 7 \/ o = 2 * n + 12
    BY DEF HandoffAt
  <2>2. 5 # 2 * n + 7 /\ 5 # 2 * n + 12 /\ 2 * n + 7 # 2 * n + 12
    BY <1>1
  <2> QED
    BY <1>1, <1>5, <2>1, <2>2, AgentsDiffer DEF ReceiverAt
<1>6. \A o \in HandoffAt : o < h => o + 1 < h
  BY <1>1 DEF HandoffAt
<1> QED
  BY <1>2, <1>3, <1>4, <1>5, <1>6

(* A handoff as the fleet wrote it, and one that reaches its receiver no   *)
(* more.                                                                   *)
Stand(s, h) ==
    \E f : /\ IsEvent(f, s, h)
           /\ Related(f, "from", "Agent") = {SenderAt(h)} /\ Related(f, "to", "Agent") = {ReceiverAt(h)}

Astray(s, h) == \A f : IsEvent(f, s, h) => ReceiverAt(h) \notin Related(f, "to", "Agent")

(* The handoffs of a session that are in the log.                          *)
LEMMA HandoffsAre ==
    ASSUME Finished, NEW s \in Sessions
    PROVE  \A g : g \in HandoffsIn(EventsIn(s)) <=> \E h \in HandoffAt : IsEvent(g, s, h)
<1>1. ASSUME NEW g \in HandoffsIn(EventsIn(s)) PROVE \E h \in HandoffAt : IsEvent(g, s, h)
  <2>1. g \in EventsIn(s) /\ g.type = "handoff"
    BY DEF HandoffsIn
  <2>2. PICK p \in Positions : IsEvent(g, s, p)
    BY <2>1, InSession
  <2>3. TypeFits(g.type, p)
    BY <2>2, EventIs
  <2>4. p \in HandoffAt
    BY <2>1, <2>3 DEF TypeFits, HandoffAt
  <2> QED
    BY <2>2, <2>4
<1>2. ASSUME NEW h \in HandoffAt, NEW g, IsEvent(g, s, h) PROVE g \in HandoffsIn(EventsIn(s))
  <2>1. h \in Positions
    BY HandoffFacts
  <2>2. TypeFits(g.type, h)
    BY <1>2, <2>1, EventIs
  <2>3. g.type = "handoff"
    BY <2>2 DEF TypeFits, HandoffAt
  <2> QED
    BY <1>2, <2>1, <2>3, InSession DEF HandoffsIn
<1> QED
  BY <1>1, <1>2

(* A handoff that stands names its sender and its receiver alone.          *)
LEMMA StandsOnly ==
    ASSUME Finished, NEW s \in Sessions, NEW h \in HandoffAt, Stand(s, h), NEW f, IsEvent(f, s, h)
    PROVE  Related(f, "from", "Agent") = {SenderAt(h)} /\ Related(f, "to", "Agent") = {ReceiverAt(h)}
<1>1. PICK g : /\ IsEvent(g, s, h)
               /\ Related(g, "from", "Agent") = {SenderAt(h)} /\ Related(g, "to", "Agent") = {ReceiverAt(h)}
  BY DEF Stand
<1>2. f = g
  BY <1>1, SameEvent
<1> QED
  BY <1>1, <1>2

(* Each agent but the first acts first right after the handoff to it.      *)
LEMMA FirstIs ==
    ASSUME Finished, NEW s \in Sessions, NEW h \in HandoffAt
    PROVE  /\ IsEvent(FirstAct(EventsIn(s), ReceiverAt(h)), s, h + 1)
           /\ ReceiverAt(h) \in Performers(EventsIn(s))
<1> DEFINE S == {e \in EventsIn(s) : ReceiverAt(h) \in Related(e, "performed_by", "Agent")}
           First(e) == e \in S /\ \A g \in S : g = e \/ Precedes(e, g)
           q == h + 1
<1>1. /\ q \in Positions /\ q \notin SilentAt /\ PerformerAt(q) = ReceiverAt(h)
      /\ \A p \in Positions \ SilentAt : PerformerAt(p) = ReceiverAt(h) => q <= p
      /\ q \in {6, 2 * Retrievals + 8, 2 * Retrievals + 13}
  BY HandoffFacts
<1>2. q \in {2, 3, 4, 6, 2 * Retrievals + 8, 2 * Retrievals + 11, 2 * Retrievals + 13, 2 * Retrievals + 17,
                      2 * Retrievals + 18}
  BY <1>1
<1> HIDE DEF q
<1>3. \A c \in MarksOn(s) : q \notin GoneOf(c)
  BY <1>2, NotGone
<1>4. PICK f : IsEvent(f, s, q)
  BY <1>1, <1>3, EventThere
<1>5. f \in S
  BY <1>1, <1>4, InSession, PerformersAre
<1>6. ASSUME NEW g \in S PROVE \E p \in Positions : IsEvent(g, s, p) /\ q <= p
  <2>1. PICK p \in Positions : IsEvent(g, s, p)
    BY InSession
  <2>2. ReceiverAt(h) \in Related(g, "performed_by", "Agent")
    OBVIOUS
  <2>3. p \notin SilentAt
    BY <2>1, <2>2, PerformersAre
  <2>4. PerformerAt(p) = ReceiverAt(h)
    BY <2>1, <2>2, <2>3, PerformersAre
  <2> QED
    BY <1>1, <2>1, <2>3, <2>4
<1>7. \A p \in Positions : q <= p => p = q \/ q < p
  BY <1>1 DEF Positions
<1>8. ASSUME NEW g \in S PROVE g = f \/ Precedes(f, g)
  <2>1. PICK p \in Positions : IsEvent(g, s, p) /\ q <= p
    BY <1>6
  <2> QED
    BY <1>1, <1>4, <1>7, <2>1, OrderIs
<1>9. First(f)
  BY <1>5, <1>8
<1>10. ASSUME NEW e, First(e) PROVE e = f
  <2>1. e \in S /\ (f = e \/ Precedes(e, f)) /\ (e = f \/ Precedes(f, e))
    BY <1>5, <1>8, <1>10
  <2>2. PICK p \in Positions : IsEvent(e, s, p)
    BY <2>1, InSession
  <2>3. Precedes(e, f) => p < q
    BY <1>1, <1>4, <2>2, OrderIs
  <2>4. Precedes(f, e) => q < p
    BY <1>1, <1>4, <2>2, OrderIs
  <2>5. ~ (p < q /\ q < p)
    BY <1>1 DEF Positions
  <2> QED
    BY <2>1, <2>3, <2>4, <2>5
<1>11. FirstAct(EventsIn(s), ReceiverAt(h)) = CHOOSE e : First(e)
  BY DEF FirstAct, Earliest
<1>12. FirstAct(EventsIn(s), ReceiverAt(h)) = f
  <2> HIDE DEF First
  <2> QED
    BY <1>9, <1>10, <1>11
<1>13. ReceiverAt(h) \in Performers(EventsIn(s))
  BY <1>5 DEF Performers
<1> QED
  BY <1>4, <1>12, <1>13 DEF q

(* intake is an entrypoint, no receiver is.                                *)
LEMMA RolesAre ==
    ASSUME NEW h \in HandoffAt
    PROVE  ReceiverAt(h).id \notin EntrypointRoles /\ Agent("intake").id \in EntrypointRoles
<1>1. ReceiverAt(h).id \in {"data_retrieval", "scoring", "adjudication"} /\ Agent("intake").id = "intake"
  BY DEF ReceiverAt, Agent, Obj
<1> QED
  BY <1>1, RulesAssumption

(* Whoever performs an event is intake or the receiver of a handoff.       *)
LEMMA PerformerIs ==
    ASSUME NEW p \in Positions
    PROVE  PerformerAt(p) = Agent("intake") \/ \E h \in HandoffAt : PerformerAt(p) = ReceiverAt(h)
<1> DEFINE n == Retrievals
<1>1. n \in Nat \ {0} /\ 5 \in HandoffAt /\ 2 * n + 7 \in HandoffAt /\ 2 * n + 12 \in HandoffAt
  BY RetrievalFacts DEF HandoffAt
<1>2. /\ ReceiverAt(5) = Agent("data_retrieval") /\ ReceiverAt(2 * n + 7) = Agent("scoring")
      /\ ReceiverAt(2 * n + 12) = Agent("adjudication")
  BY <1>1 DEF ReceiverAt
<1>3. PerformerAt(p) \in {Agent("intake"), Agent("data_retrieval"), Agent("scoring"), Agent("adjudication")}
  BY DEF PerformerAt
<1> QED
  BY <1>1, <1>2, <1>3

(* Only receivers of handoffs can be orphans.                              *)
LEMMA OrphansNamed ==
    ASSUME Finished, NEW s \in Sessions, NEW a \in Orphans(EventsIn(s))
    PROVE  \E h \in HandoffAt : a = ReceiverAt(h)
<1>1. a \in Performers(EventsIn(s)) /\ a.id \notin EntrypointRoles
  BY DEF Orphans
<1>2. PICK e \in EventsIn(s) : a \in Related(e, "performed_by", "Agent")
  BY <1>1 DEF Performers
<1>3. PICK p \in Positions : IsEvent(e, s, p)
  BY InSession
<1>4. a = PerformerAt(p)
  BY <1>2, <1>3, PerformersAre
<1>5. 5 \in HandoffAt
  BY DEF HandoffAt
<1> QED
  BY <1>1, <1>4, <1>5, PerformerIs, RolesAre

(* The receiver of a handoff that stands is no orphan.                     *)
LEMMA StandingIsNoOrphan ==
    ASSUME Finished, NEW s \in Sessions, NEW h \in HandoffAt, Stand(s, h)
    PROVE  ReceiverAt(h) \notin Orphans(EventsIn(s))
<1> DEFINE first == FirstAct(EventsIn(s), ReceiverAt(h))
           q == h + 1
<1>1. PICK g : IsEvent(g, s, h) /\ Related(g, "to", "Agent") = {ReceiverAt(h)}
  BY DEF Stand
<1>2. g \in HandoffsIn(EventsIn(s))
  BY <1>1, HandoffsAre
<1>3. IsEvent(first, s, q) /\ h \in Positions /\ q \in Positions /\ h < q
  <2>1. h \in Positions /\ q \in Positions
    BY HandoffFacts
  <2>2. h < q
    BY <2>1 DEF Positions
  <2> QED
    BY <2>1, <2>2, FirstIs
<1> HIDE DEF first, q
<1>4. StrictlyBefore(g, first)
  BY <1>1, <1>3, OrderIs
<1> QED
  BY <1>1, <1>2, <1>4 DEF Orphans, first

(* Of one handoff gone astray the receiver is an orphan, and the only one. *)
LEMMA AstrayIsOrphan ==
    ASSUME Finished, NEW s \in Sessions, NEW h \in HandoffAt, Astray(s, h), \A o \in HandoffAt \ {h} : Stand(s, o)
    PROVE  Orphans(EventsIn(s)) = {ReceiverAt(h)}
<1>1. ASSUME NEW g \in HandoffsIn(EventsIn(s)), ReceiverAt(h) \in Related(g, "to", "Agent") PROVE FALSE
  <2>1. PICK o \in HandoffAt : IsEvent(g, s, o)
    BY HandoffsAre
  <2>2. o # h
    BY <1>1, <2>1 DEF Astray
  <2>3. Related(g, "to", "Agent") = {ReceiverAt(o)}
    BY <2>1, <2>2, StandsOnly
  <2> QED
    BY <1>1, <2>2, <2>3, HandoffFacts
<1>2. ReceiverAt(h) \in Performers(EventsIn(s)) /\ ReceiverAt(h).id \notin EntrypointRoles
  BY FirstIs, RolesAre
<1>3. ReceiverAt(h) \in Orphans(EventsIn(s))
  BY <1>1, <1>2 DEF Orphans
<1>4. ASSUME NEW a \in Orphans(EventsIn(s)) PROVE a = ReceiverAt(h)
  <2>1. PICK o \in HandoffAt : a = ReceiverAt(o)
    BY OrphansNamed
  <2> QED
    BY <2>1, StandingIsNoOrphan
<1> QED
  BY <1>3, <1>4

(* A session whose handoffs all stand has no orphan.                       *)
LEMMA NoOrphans ==
    ASSUME Finished, NEW s \in Sessions, \A o \in HandoffAt : Stand(s, o)
    PROVE  Orphans(EventsIn(s)) = {}
  BY OrphansNamed, StandingIsNoOrphan

(* The misdirected handoff, if any, that explains an orphan.               *)
LEMMA MisdirectedIs ==
    ASSUME Finished, NEW s \in Sessions, NEW h \in HandoffAt
    PROVE  \A g : g \in Misdirected(EventsIn(s), ReceiverAt(h)) <=> IsEvent(g, s, h)
<1> DEFINE first == FirstAct(EventsIn(s), ReceiverAt(h))
           q == h + 1
           earlier == {e \in EventsIn(s) : Precedes(e, first)}
<1>1. IsEvent(first, s, q) /\ h \in Positions /\ q \in Positions
  BY FirstIs, HandoffFacts
<1>2. /\ \A p \in Positions : p < q <=> p < h \/ p = h
      /\ \A o \in HandoffAt : o \in Positions /\ (o < h => o + 1 < h)
  <2>1. \A o \in HandoffAt : o \in Positions /\ (o < h => o + 1 < h)
    BY HandoffFacts
  <2> QED
    BY <1>1, <2>1 DEF Positions
<1>0. \A p \in Positions : IsEvent(first, s, q) /\ p < q <=> IsEvent(first, s, q) /\ (p < h \/ p = h)
  BY <1>2
<1> HIDE DEF first
<1>3. \A e : e \in earlier <=> \E p \in Positions : IsEvent(e, s, p) /\ (p < h \/ p = h)
  <2>1. ASSUME NEW e \in earlier PROVE \E p \in Positions : IsEvent(e, s, p) /\ (p < h \/ p = h)
    <3>1. PICK p \in Positions : IsEvent(e, s, p)
      BY InSession
    <3>2. p < q
      BY <1>1, <3>1, OrderIs
    <3> QED
      BY <1>2, <3>1, <3>2
  <2>2. ASSUME NEW e, NEW p \in Positions, IsEvent(e, s, p), p < h \/ p = h PROVE e \in earlier
    <3>1. p < q
      BY <1>2, <2>2
    <3>2. Precedes(e, first)
      BY <1>1, <2>2, <3>1, OrderIs
    <3> QED
      BY <2>2, <3>2, InSession
  <2> QED
    BY <2>1, <2>2
<1>4. \A g : g \in HandoffsIn(earlier) <=> g \in earlier /\ g \in HandoffsIn(EventsIn(s))
  BY DEF HandoffsIn
<1>5. Misdirected(EventsIn(s), ReceiverAt(h)) = {g \in HandoffsIn(earlier) : \A e \in earlier : e = g \/ Precedes(e, g)}
  BY DEF Misdirected, first
<1> HIDE DEF earlier, q
<1>6. ASSUME NEW g \in Misdirected(EventsIn(s), ReceiverAt(h)) PROVE IsEvent(g, s, h)
  <2>1. g \in earlier /\ g \in HandoffsIn(EventsIn(s)) /\ \A e \in earlier : e = g \/ Precedes(e, g)
    BY <1>4, <1>5
  <2>2. PICK o \in HandoffAt : IsEvent(g, s, o)
    BY <2>1, HandoffsAre
  <2>3. PICK p \in Positions : IsEvent(g, s, p) /\ (p < h \/ p = h)
    BY <1>3, <2>1
  <2>4. o = p
    BY <1>2, <2>2, <2>3, OrderIs
  <2>5. CASE o < h
    <3> DEFINE r == o + 1
    <3>1. r \in Positions /\ r < h /\ o < r /\ o \in Positions
      <4>1. r \in Positions /\ o \in Positions
        BY HandoffFacts
      <4> QED
        BY <1>2, <2>5, <4>1 DEF Positions
    <3> DEFINE after == FirstAct(EventsIn(s), ReceiverAt(o))
    <3>2. IsEvent(after, s, r)
      BY FirstIs
    <3> HIDE DEF after, r
    <3>3. after \in earlier
      BY <1>3, <3>1, <3>2
    <3>4. after = g \/ Precedes(after, g)
      BY <2>1, <3>3
    <3>5. after = g <=> r = o
      BY <2>2, <3>1, <3>2, OrderIs
    <3>6. Precedes(after, g) <=> r < o
      BY <2>2, <3>1, <3>2, OrderIs
    <3>7. ~ (r = o) /\ ~ (r < o)
      BY <3>1 DEF Positions
    <3> QED
      BY <3>4, <3>5, <3>6, <3>7
  <2> QED
    BY <2>2, <2>3, <2>4, <2>5
<1>7. ASSUME NEW g, IsEvent(g, s, h) PROVE g \in Misdirected(EventsIn(s), ReceiverAt(h))
  <2>1. g \in earlier /\ g \in HandoffsIn(EventsIn(s))
    BY <1>1, <1>3, <1>7, HandoffsAre
  <2>2. ASSUME NEW e \in earlier PROVE e = g \/ Precedes(e, g)
    <3>1. PICK p \in Positions : IsEvent(e, s, p) /\ (p < h \/ p = h)
      BY <1>3
    <3> QED
      BY <1>1, <1>7, <3>1, OrderIs
  <2> QED
    BY <1>4, <1>5, <2>1, <2>2
<1> QED
  BY <1>6, <1>7

(* A handoff that says what the fleet wrote stands.                        *)
LEMMA HandoffLinked ==
    ASSUME NEW s, NEW h, NEW f, IsEvent(f, s, h), Says(f, "Agent", HandoffLinks(h, ReceiverAt(h)))
    PROVE  Stand(s, h)
<1>1. \A o : o \in Related(f, "from", "Agent") <=> <<"from", o>> \in HandoffLinks(h, ReceiverAt(h))
  BY QualsPlainToo DEF Says
<1>2. \A o : o \in Related(f, "to", "Agent") <=> <<"to", o>> \in HandoffLinks(h, ReceiverAt(h))
  BY QualsPlainToo DEF Says
<1>3. "from" # "to"
  OBVIOUS
<1>4. \A o : <<"from", o>> \in HandoffLinks(h, ReceiverAt(h)) <=> o = SenderAt(h)
  BY <1>3 DEF HandoffLinks
<1>5. \A o : <<"to", o>> \in HandoffLinks(h, ReceiverAt(h)) <=> o = ReceiverAt(h)
  BY <1>3 DEF HandoffLinks
<1>6. Related(f, "from", "Agent") = {SenderAt(h)}
  BY <1>1, <1>4
<1>7. Related(f, "to", "Agent") = {ReceiverAt(h)}
  BY <1>2, <1>5
<1> QED
  BY <1>6, <1>7 DEF Stand

(* Only V7 touches the handoffs.                                           *)
LEMMA GoneHandoffs ==
    ASSUME NEW h \in HandoffAt, NEW c, c # 7
    PROVE  h \notin GoneOf(c)
<1>1. CASE c = 1
  <2>1. 2 * Retrievals + 15 \notin HandoffAt /\ 2 * Retrievals + 16 \notin HandoffAt
    BY RetrievalFacts DEF HandoffAt
  <2> QED
    BY <1>1, <2>1 DEF GoneOf
<1>2. CASE c = 4
  <2>1. \A i \in 1 .. Retrievals : 2 * i + 5 \notin HandoffAt /\ 2 * i + 6 \notin HandoffAt
    BY RetrievalFacts DEF HandoffAt
  <2> QED
    BY <1>2, <2>1 DEF GoneOf
<1>3. CASE c \notin {1, 4, 7}
  BY <1>3 DEF GoneOf
<1> QED
  BY <1>1, <1>2, <1>3

(* Without V7 every handoff of the session stands.                         *)
LEMMA UntouchedStands ==
    ASSUME Finished, NEW s \in Sessions, 7 \notin plan[s], NEW h \in HandoffAt
    PROVE  Stand(s, h)
<1>1. h \in Positions /\ "Agent" \in LinkKinds /\ applicant[s] \in Applicants
  BY HandoffFacts, ToldOf DEF LinkKinds
<1>2. 7 \notin MarksOn(s)
  BY MarksFit DEF FaultClasses
<1>3. \A c \in MarksOn(s) : h \notin GoneOf(c)
  BY <1>2, GoneHandoffs
<1>4. PICK f : IsEvent(f, s, h)
  BY <1>1, <1>3, EventThere
<1>5. \A c \in MarksOn(s) : <<h, "Agent">> \notin SpotsOf(c)
  BY <1>2, AgentSpots
<1>6. Says(f, "Agent", Links(Base(s)[h], "Agent"))
  BY <1>1, <1>4, <1>5, SaysHard
<1>7. Links(Base(s)[h], "Agent") = HandoffLinks(h, ReceiverAt(h))
  BY <1>1, BaseLinks DEF BaseLinksAre, Base
<1> QED
  BY <1>4, <1>6, <1>7, HandoffLinked

(* A handoff that stands in the trace stands in the log.                   *)
LEMMA StandsStand ==
    ASSUME Finished, NEW s \in Sessions, NEW h \in HandoffAt, HandoffStands(rows[s], s, h)
    PROVE  Stand(s, h)
<1>1. ~ Lacks(rows[s], s, h) /\ Shows(rows[s], s, h, "Agent", HandoffLinks(h, ReceiverAt(h))) /\ h \in Positions
  BY HandoffFacts DEF HandoffStands
<1>2. PICK f : IsEvent(f, s, h)
  BY <1>1, EventThere
<1>3. Says(f, "Agent", HandoffLinks(h, ReceiverAt(h)))
  BY <1>1, <1>2, SaysShown
<1> QED
  BY <1>2, <1>3, HandoffLinked

(* The events T3 cites for a handoff that goes astray.                     *)
AstrayCites(s, h) == {i \in {<<s, h>>, <<s, h + 1>>} : i = <<s, h>> => \E f : IsEvent(f, s, h)}

(* V7 left one handoff astray and the others standing; the violation it    *)
(* stands for.                                                             *)
LEMMA V7Found ==
    ASSUME Finished, NEW l \in labels, NEW s, s = l.session, l.class = 7
    PROVE  /\ s \in Sessions /\ 7 \in plan[s]
           /\ \E h \in HandoffAt :
                 /\ Astray(s, h) /\ \A o \in HandoffAt \ {h} : Stand(s, o)
                 /\ FoundOf(l) = [constraint |-> "T3", events |-> AstrayCites(s, h), objects |-> {ReceiverAt(h)}]
<1>1. s \in Sessions /\ 7 \in plan[s] /\ Marked(7, l, rows[s], s, DonorsFor(s))
  BY LabelIs
<1>2. MarkOfV7(l, rows[s], s)
  BY <1>1 DEF Marked
<1>3. PICK h \in HandoffAt :
          /\ \A o \in HandoffAt \ {h} : HandoffStands(rows[s], s, o)
          /\ \/ Lacks(rows[s], s, h) /\ Cites(l, "T3", {<<s, h + 1>>}, {ReceiverAt(h)})
             \/ Misled(rows[s], s, h) /\ Cites(l, "T3", {<<s, h>>, <<s, h + 1>>}, {ReceiverAt(h)})
  BY <1>2 DEF MarkOfV7
<1>4. h \in Positions /\ h \in Nat
  BY HandoffFacts DEF Positions
<1>5. \A o \in HandoffAt \ {h} : Stand(s, o)
  BY <1>1, <1>3, StandsStand
<1>6. CASE Lacks(rows[s], s, h) /\ Cites(l, "T3", {<<s, h + 1>>}, {ReceiverAt(h)})
  <2>1. ~ \E f : IsEvent(f, s, h)
    BY <1>1, <1>4, <1>6, EventThere
  <2>2. <<s, h>> # <<s, h + 1>>
    BY <1>4
  <2>3. AstrayCites(s, h) = {<<s, h + 1>>}
    BY <2>1, <2>2 DEF AstrayCites
  <2>4. FoundOf(l) = [constraint |-> "T3", events |-> AstrayCites(s, h), objects |-> {ReceiverAt(h)}]
    BY <1>6, <2>3, FoundIs
  <2> QED
    BY <1>1, <1>5, <2>1, <2>4 DEF Astray
<1>7. CASE Misled(rows[s], s, h) /\ Cites(l, "T3", {<<s, h>>, <<s, h + 1>>}, {ReceiverAt(h)})
  <2>1. \E f : IsEvent(f, s, h)
    BY <1>1, <1>4, <1>7, EventThere DEF Misled
  <2>2. AstrayCites(s, h) = {<<s, h>>, <<s, h + 1>>}
    BY <2>1 DEF AstrayCites
  <2>3. FoundOf(l) = [constraint |-> "T3", events |-> AstrayCites(s, h), objects |-> {ReceiverAt(h)}]
    BY <1>7, <2>2, FoundIs
  <2>4. ASSUME NEW f, IsEvent(f, s, h) PROVE ReceiverAt(h) \notin Related(f, "to", "Agent")
    <3>1. PICK k \in DOMAIN rows[s] : rows[s][k].id = <<s, h>> /\ f = LogEvent(rows[s][k])
      BY <2>4 DEF IsEvent
    <3>2. <<"to", ReceiverAt(h)>> \notin Links(rows[s][k], "Agent")
      BY <1>7, <3>1 DEF Misled
    <3>3. Says(f, "Agent", Links(rows[s][k], "Agent"))
      BY <3>1, LogEventSays
    <3> QED
      BY <3>2, <3>3, QualsPlainToo DEF Says
  <2> QED
    BY <1>1, <1>5, <2>3, <2>4 DEF Astray
<1> QED
  BY <1>3, <1>6, <1>7

(* The one orphan is reported with the events and the agent the label      *)
(* cites: the misdirected handoff too, where it is still there.            *)
LEMMA AstrayReported ==
    ASSUME Finished, NEW s \in Sessions, NEW h \in HandoffAt, Astray(s, h), \A o \in HandoffAt \ {h} : Stand(s, o)
    PROVE  OrphanViolations(EventsIn(s)) =
               {[constraint |-> "T3", events |-> AstrayCites(s, h), objects |-> {ReceiverAt(h)}]}
<1> DEFINE ev == EventsIn(s)
           a == ReceiverAt(h)
           cited == Misdirected(ev, a) \cup {FirstAct(ev, a)}
           q == h + 1
<1>1. Orphans(ev) = {a}
  BY AstrayIsOrphan
<1>2. OrphanViolations(ev) = {Violation("T3", cited, {a})}
  BY <1>1 DEF OrphanViolations
<1>3. h \in Positions /\ q \in Positions /\ IsEvent(FirstAct(ev, a), s, q)
  BY HandoffFacts, FirstIs
<1>4. FirstAct(ev, a).id = <<s, q>>
  BY <1>3, EventIs
<1>5. \A g : g \in Misdirected(ev, a) <=> IsEvent(g, s, h)
  BY MisdirectedIs
<1>6. \A g : IsEvent(g, s, h) => g.id = <<s, h>>
  BY <1>3, EventIs
<1>7. <<s, h>> # <<s, q>>
  <2>1. h # q
    BY <1>3 DEF Positions
  <2> QED
    BY <2>1
<1> DEFINE ids == {e.id : e \in cited}
<1>8. ids = AstrayCites(s, h)
  <2>1. AstrayCites(s, h) = {i \in {<<s, h>>, <<s, q>>} : i = <<s, h>> => \E f : IsEvent(f, s, h)}
    BY DEF AstrayCites
  <2> HIDE DEF ev, a, q
  <2>2. ASSUME NEW i \in ids PROVE i \in AstrayCites(s, h)
    <3>1. PICK e \in cited : i = e.id
      OBVIOUS
    <3>2. CASE e \in Misdirected(ev, a)
      BY <1>5, <1>6, <2>1, <3>1, <3>2
    <3>3. CASE e = FirstAct(ev, a)
      BY <1>4, <1>7, <2>1, <3>1, <3>3
    <3> QED
      BY <3>1, <3>2, <3>3
  <2>3. ASSUME NEW i \in AstrayCites(s, h) PROVE i \in ids
    <3>1. CASE i = <<s, q>>
      BY <1>4, <3>1
    <3>2. CASE i = <<s, h>>
      <4>1. PICK f : IsEvent(f, s, h)
        BY <2>1, <3>2
      <4> QED
        BY <1>5, <1>6, <3>2, <4>1
    <3> QED
      BY <2>1, <3>1, <3>2
  <2> QED
    BY <2>2, <2>3
<1> QED
  BY <1>2, <1>8 DEF Violation

-----------------------------------------------------------------------------
(* The chain of handoffs only runs forward.                                *)
LEMMA Forward ==
    /\ \A o, p \in HandoffAt : ReceiverAt(o) = SenderAt(p) => o < p
    /\ \A o, p \in HandoffAt : SenderAt(o) = SenderAt(p) => o = p
    /\ \A o \in HandoffAt : o \in Nat
<1> DEFINE n == Retrievals
<1>1. /\ n \in Nat \ {0} /\ 5 < 2 * n + 7 /\ 5 < 2 * n + 12 /\ 2 * n + 7 < 2 * n + 12
      /\ 5 # 2 * n + 7 /\ 5 # 2 * n + 12 /\ 2 * n + 7 # 2 * n + 12
  BY RetrievalFacts
<1>2. \A o \in HandoffAt : o = 5 \/ o = 2 * n + 7 \/ o = 2 * n + 12
  BY DEF HandoffAt
<1>3. /\ SenderAt(5) = Agent("intake") /\ SenderAt(2 * n + 7) = Agent("data_retrieval")
      /\ SenderAt(2 * n + 12) = Agent("scoring")
      /\ ReceiverAt(5) = Agent("data_retrieval") /\ ReceiverAt(2 * n + 7) = Agent("scoring")
      /\ ReceiverAt(2 * n + 12) = Agent("adjudication")
  BY <1>1 DEF SenderAt, ReceiverAt
<1>4. /\ Agent("intake") # Agent("data_retrieval") /\ Agent("intake") # Agent("scoring")
      /\ Agent("intake") # Agent("adjudication") /\ Agent("data_retrieval") # Agent("scoring")
      /\ Agent("data_retrieval") # Agent("adjudication") /\ Agent("scoring") # Agent("adjudication")
  BY AgentsDiffer
<1>5. \A o, p \in HandoffAt : ReceiverAt(o) = SenderAt(p) => o < p
  BY <1>1, <1>2, <1>3, <1>4
<1>6. \A o, p \in HandoffAt : SenderAt(o) = SenderAt(p) => o = p
  BY <1>1, <1>2, <1>3, <1>4
<1>7. \A o \in HandoffAt : o \in Nat
  BY <1>1, <1>2
<1> QED
  BY <1>5, <1>6, <1>7

EdgeAt(h) == <<SenderAt(h), ReceiverAt(h)>>

(* Handoffs of the fleet's chain make no cycle, whichever of them are      *)
(* there.                                                                  *)
LEMMA NoCycle ==
    ASSUME NEW edges, \A pair \in edges : \E h \in HandoffAt : pair = EdgeAt(h), NEW pair \in edges
    PROVE  ~ Reaches(edges, pair[2], pair[1])
<1> DEFINE agents == {p[1] : p \in edges} \cup {p[2] : p \in edges}
<1>1. PICK h \in HandoffAt : pair = EdgeAt(h)
  OBVIOUS
<1> DEFINE past == {SenderAt(o) : o \in {p \in HandoffAt : p <= h}}
           S == agents \ past
<1>2. pair[1] = SenderAt(h) /\ pair[2] = ReceiverAt(h)
  BY <1>1 DEF EdgeAt
<1>3. \A o \in HandoffAt : o \in Nat
  BY Forward
<1>4. pair[1] \in past
  BY <1>2, <1>3
<1>5. pair[2] \notin past
  <2>1. ASSUME NEW o \in HandoffAt, o <= h, ReceiverAt(h) = SenderAt(o) PROVE FALSE
    <3>1. h < o
      BY <2>1, Forward
    <3> QED
      BY <1>3, <2>1, <3>1
  <2> QED
    BY <1>2, <2>1
<1>6. ASSUME NEW p \in edges, p[1] \in S PROVE p[2] \in S
  <2>1. PICK o \in HandoffAt : p = EdgeAt(o)
    OBVIOUS
  <2>2. p[1] = SenderAt(o) /\ p[2] = ReceiverAt(o)
    BY <2>1 DEF EdgeAt
  <2>3. ~ (o <= h)
    BY <1>6, <2>2
  <2>4. ASSUME NEW x \in HandoffAt, x <= h, ReceiverAt(o) = SenderAt(x) PROVE FALSE
    <3>1. o < x
      BY <2>4, Forward
    <3> QED
      BY <1>3, <2>3, <2>4, <3>1
  <2>5. p[2] \in agents
    OBVIOUS
  <2>6. p[2] \notin past
    BY <2>2, <2>4
  <2> QED
    BY <2>5, <2>6
<1>7. S \in SUBSET agents /\ pair[2] \in S /\ pair[1] \notin S
  BY <1>4, <1>5
<1> HIDE DEF S
<1> QED
  BY <1>6, <1>7 DEF Reaches

(* A session whose uncited handoffs all stand reports no cycle.            *)
LEMMA StandingMakesNoCycle ==
    ASSUME Finished, NEW s \in Sessions,
           \A g \in HandoffsIn(EventsIn(s)) \ UNION {Misdirected(EventsIn(s), a) : a \in Orphans(EventsIn(s))} :
               \E h \in HandoffAt : IsEvent(g, s, h) /\ Stand(s, h)
    PROVE  CycleViolations(EventsIn(s)) = {}
<1> DEFINE cited    == UNION {Misdirected(EventsIn(s), a) : a \in Orphans(EventsIn(s))}
           handoffs == HandoffsIn(EventsIn(s)) \ cited
           edges    == UNION {Edge(h) : h \in handoffs}
           cyclic   == {pair \in edges : Reaches(edges, pair[2], pair[1])}
           onCycle  == {h \in handoffs : Edge(h) \cap cyclic # {}}
<1>1. ASSUME NEW g \in handoffs, NEW pair \in Edge(g) PROVE \E h \in HandoffAt : pair = EdgeAt(h)
  <2>1. PICK h \in HandoffAt : IsEvent(g, s, h) /\ Stand(s, h)
    OBVIOUS
  <2>2. Related(g, "from", "Agent") = {SenderAt(h)} /\ Related(g, "to", "Agent") = {ReceiverAt(h)}
    BY <2>1, StandsOnly
  <2>3. pair = EdgeAt(h)
    BY <2>2 DEF Edge, EdgeAt
  <2> QED
    BY <2>3
<1>2. CycleViolations(EventsIn(s)) =
          IF onCycle = {} THEN {}
          ELSE {Violation("T3", onCycle, {pair[1] : pair \in cyclic} \cup {pair[2] : pair \in cyclic})}
  BY DEF CycleViolations
<1> HIDE DEF handoffs
<1>3. \A pair \in edges : \E h \in HandoffAt : pair = EdgeAt(h)
  BY <1>1
<1> HIDE DEF edges
<1>4. cyclic = {}
  BY <1>3, NoCycle
<1>5. onCycle = {}
  BY <1>4
<1> QED
  BY <1>2, <1>5

(* No session of an injected split reports a cycle: a misdirected handoff  *)
(* is already cited.                                                       *)
LEMMA CycleNone ==
    ASSUME Finished, NEW s \in Sessions
    PROVE  CycleViolations(EventsIn(s)) = {}
<1>1. CASE \A o \in HandoffAt : Stand(s, o)
  <2>1. ASSUME NEW g \in HandoffsIn(EventsIn(s)) PROVE \E h \in HandoffAt : IsEvent(g, s, h) /\ Stand(s, h)
    BY <1>1, HandoffsAre
  <2> QED
    BY <2>1, StandingMakesNoCycle
<1>2. CASE ~ \A o \in HandoffAt : Stand(s, o)
  <2>1. 7 \in plan[s]
    BY <1>2, UntouchedStands
  <2>2. PICK l \in labels : l.session = s /\ l.class = 7
    BY <2>1, LabelOf
  <2>3. PICK h \in HandoffAt : Astray(s, h) /\ \A o \in HandoffAt \ {h} : Stand(s, o)
    BY <2>2, V7Found
  <2>4. Orphans(EventsIn(s)) = {ReceiverAt(h)}
    BY <2>3, AstrayIsOrphan
  <2>5. \A g : g \in Misdirected(EventsIn(s), ReceiverAt(h)) <=> IsEvent(g, s, h)
    BY MisdirectedIs
  <2> DEFINE cited == UNION {Misdirected(EventsIn(s), a) : a \in Orphans(EventsIn(s))}
  <2>6. \A g : g \in cited <=> IsEvent(g, s, h)
    BY <2>4, <2>5
  <2> HIDE DEF cited
  <2>7. ASSUME NEW g \in HandoffsIn(EventsIn(s)) \ cited PROVE \E o \in HandoffAt : IsEvent(g, s, o) /\ Stand(s, o)
    <3>1. PICK o \in HandoffAt : IsEvent(g, s, o)
      BY HandoffsAre
    <3>2. o # h
      BY <2>6, <3>1
    <3> QED
      BY <2>3, <3>1, <3>2
  <2> QED
    BY <2>7, StandingMakesNoCycle DEF cited
<1> QED
  BY <1>1, <1>2

(* What T3 finds is what it finds session by session among the orphans.    *)
LEMMA T3Is ==
    ASSUME Finished, NEW v
    PROVE  v \in T3(SplitLog) <=> \E s \in Sessions : v \in OrphanViolations(EventsIn(s))
<1> DEFINE Found(o) == OrphanViolations(SessionEvents(SplitLog, o)) \cup CycleViolations(SessionEvents(SplitLog, o))
           named == UNION {SessionOf(e) : e \in SplitLog.events}
<1>1. \A s \in Sessions : Found(SessionObj(s)) = OrphanViolations(EventsIn(s))
  <2> TAKE s \in Sessions
  <2>1. CycleViolations(SessionEvents(SplitLog, SessionObj(s))) = {}
    BY CycleNone DEF EventsIn
  <2> QED
    BY <2>1 DEF EventsIn
<1>2. T3(SplitLog) = UNION {Found(o) : o \in named}
  BY DEF T3
<1>3. ASSUME NEW o \in named PROVE \E s \in Sessions : o = SessionObj(s)
  <2>1. PICK e \in SplitLog.events : o \in SessionOf(e)
    OBVIOUS
  <2>2. PICK s \in Sessions, p \in Positions : IsEvent(e, s, p)
    BY EventsAre
  <2>3. SessionOf(e) = {SessionObj(s)}
    BY <2>2, SessionSaid
  <2> QED
    BY <2>1, <2>3
<1>4. ASSUME NEW s \in Sessions PROVE SessionObj(s) \in named
  <2>1. PICK e \in Decisions(SplitLog) : IsDecision(e, s)
    BY DecisionsAre
  <2>2. SessionOf(e) = {SessionObj(s)}
    BY <2>1, GrantSession
  <2>3. e \in SplitLog.events
    BY DEF Decisions, OfType
  <2> QED
    BY <2>2, <2>3
<1> HIDE DEF Found, named
<1> QED
  BY <1>1, <1>2, <1>3, <1>4

(* T3 finds exactly the labels of V7.                                      *)
LEMMA T3Found ==
    ASSUME Finished, NEW v
    PROVE  v \in T3(SplitLog) <=> \E l \in labels : l.class = 7 /\ v = FoundOf(l)
<1>1. ASSUME NEW l \in labels, l.class = 7
      PROVE  l.session \in Sessions /\ OrphanViolations(EventsIn(l.session)) = {FoundOf(l)}
  <2> DEFINE s == l.session
  <2>1. /\ s \in Sessions
        /\ \E h \in HandoffAt :
             /\ Astray(s, h) /\ \A o \in HandoffAt \ {h} : Stand(s, o)
             /\ FoundOf(l) = [constraint |-> "T3", events |-> AstrayCites(s, h), objects |-> {ReceiverAt(h)}]
    BY <1>1, V7Found
  <2> HIDE DEF s
  <2>2. OrphanViolations(EventsIn(s)) = {FoundOf(l)}
    BY <2>1, AstrayReported
  <2> QED
    BY <2>1, <2>2 DEF s
<1>2. ASSUME NEW s \in Sessions, v \in OrphanViolations(EventsIn(s)) PROVE \E l \in labels : l.class = 7 /\ v = FoundOf(l)
  <2>1. CASE 7 \notin plan[s]
    <3>1. \A o \in HandoffAt : Stand(s, o)
      BY <2>1, UntouchedStands
    <3>2. Orphans(EventsIn(s)) = {}
      BY <3>1, NoOrphans
    <3> QED
      BY <1>2, <3>2 DEF OrphanViolations
  <2>2. CASE 7 \in plan[s]
    <3>1. PICK l \in labels : l.session = s /\ l.class = 7
      BY <2>2, LabelOf
    <3> QED
      BY <1>1, <1>2, <3>1
  <2> QED
    BY <2>1, <2>2
<1> QED
  BY <1>1, <1>2, T3Is

-----------------------------------------------------------------------------
(* The rules together find exactly the labels.                             *)
LEMMA EvaluateFinds ==
    ASSUME Finished, NEW v
    PROVE  v \in Evaluate(SplitLog) <=> \E l \in labels : v = FoundOf(l)
<1>1. v \in Evaluate(SplitLog) <=>
          \/ v \in T1(SplitLog) \/ v \in T2(SplitLog) \/ v \in T3(SplitLog) \/ v \in T4(SplitLog)
          \/ v \in T5(SplitLog) \/ v \in PolicyVersionCurrent(SplitLog)
  BY DEF Evaluate
<1>2. ASSUME NEW l \in labels
      PROVE  \/ l.class \in T1Classes \/ l.class = 4 \/ l.class = 7 \/ l.class = 6 \/ l.class = 5 \/ l.class = 8
  <2>1. l.class \in FaultClasses
    BY LabelIs
  <2> QED
    BY <2>1 DEF FaultClasses, T1Classes
<1> QED
  BY <1>1, <1>2, T1Found, T2Found, T3Found, T4Found, T5Found, PolicyFound

(* A violation names its label: rule and session.                          *)
Rule(c) == IF c \in {1, 2, 3} THEN "T1" ELSE IF c = 4 THEN "T2" ELSE IF c = 5 THEN "T5"
           ELSE IF c = 6 THEN "T4" ELSE IF c = 7 THEN "T3" ELSE "STD"

NamesSession(events, s) == events # {} /\ \A i \in events : i[1] = s

(* A violation found names the rule of its label's class, and every event  *)
(* it cites is of the label's session.                                     *)
LEMMA LabelNames ==
    ASSUME Finished, NEW l \in labels
    PROVE  /\ FoundOf(l).constraint = Rule(l.class)
           /\ NamesSession(FoundOf(l).events, l.session)
<1> DEFINE s == l.session
           c == l.class
<1>1. /\ s \in Sessions /\ c \in plan[s] /\ c \in FaultClasses
      /\ Marked(c, l, rows[s], s, DonorsFor(s))
  BY LabelIs
<1>2. FoundOf(l).constraint = l.constraint /\ FoundOf(l).events = l.events
  BY DEF FoundOf
<1>3. Decided(s)[1] = s /\ Granted(s)[1] = s /\ \A p : <<s, p>>[1] = s
  BY DEF Decided, Granted
<1> SUFFICES l.constraint = Rule(c) /\ NamesSession(l.events, s)
  BY <1>2
<1> HIDE DEF s, c
<1>4. CASE c = 1
  BY <1>1, <1>3, <1>4 DEF Marked, MarkOfV1, Cites, Rule, NamesSession
<1>5. CASE c = 2
  BY <1>1, <1>3, <1>5 DEF Marked, MarkOfV2, Cites, Rule, NamesSession
<1>6. CASE c = 3
  BY <1>1, <1>3, <1>6 DEF Marked, MarkOfV3, Cites, Rule, NamesSession
<1>7. CASE c = 4
  BY <1>1, <1>3, <1>7 DEF Marked, MarkOfV4, Cites, Rule, NamesSession
<1>8. CASE c = 5
  <2>1. PICK i \in 1 .. Retrievals : Cites(l, "T5", {<<s, 2 * i + 6>>}, {Local(s)})
    BY <1>1, <1>8 DEF Marked, MarkOfV5
  <2> DEFINE p == 2 * i + 6
  <2>2. Cites(l, "T5", {<<s, p>>}, {Local(s)})
    BY <2>1
  <2> HIDE DEF p
  <2>3. l.constraint = "T5" /\ l.events = {<<s, p>>}
    BY <2>2 DEF Cites
  <2>4. NamesSession(l.events, s)
    BY <2>3 DEF NamesSession
  <2>5. Rule(c) = "T5"
    BY <1>8 DEF Rule
  <2> QED
    BY <2>3, <2>4, <2>5
<1>9. CASE c = 6
  BY <1>1, <1>3, <1>9 DEF Marked, MarkOfV6, Cites, Rule, NamesSession
<1>10. CASE c = 7
  <2>1. PICK h \in HandoffAt :
            \/ Cites(l, "T3", {<<s, h + 1>>}, {ReceiverAt(h)})
            \/ Cites(l, "T3", {<<s, h>>, <<s, h + 1>>}, {ReceiverAt(h)})
    BY <1>1, <1>10 DEF Marked, MarkOfV7
  <2> DEFINE q == h + 1
  <2>2. l.constraint = "T3" /\ (l.events = {<<s, q>>} \/ l.events = {<<s, h>>, <<s, q>>})
    BY <2>1 DEF Cites
  <2> HIDE DEF q
  <2>3. NamesSession(l.events, s)
    <3>1. l.events # {} /\ \A i \in l.events : i = <<s, h>> \/ i = <<s, q>>
      BY <2>2
    <3>2. <<s, h>>[1] = s /\ <<s, q>>[1] = s
      OBVIOUS
    <3> QED
      BY <3>1, <3>2 DEF NamesSession
  <2>4. Rule(c) = "T3"
    BY <1>10 DEF Rule
  <2> QED
    BY <2>2, <2>3, <2>4
<1>11. CASE c = 8
  BY <1>1, <1>3, <1>11 DEF Marked, MarkOfV8, Cites, Rule, NamesSession
<1> QED
  BY <1>1, <1>4, <1>5, <1>6, <1>7, <1>8, <1>9, <1>10, <1>11 DEF FaultClasses

(* Two labels never stand for the same violation.                          *)
LEMMA FoundDiffer ==
    ASSUME Finished, NEW l \in labels, NEW m \in labels, FoundOf(l) = FoundOf(m)
    PROVE  l = m
<1>1. /\ l.session \in Sessions /\ l.class \in plan[l.session] /\ l.class \in FaultClasses
      /\ m.session \in Sessions /\ m.class \in plan[m.session] /\ m.class \in FaultClasses
  BY LabelIs
<1>2. Rule(l.class) = Rule(m.class)
  BY LabelNames
<1>3. l.session = m.session
  <2>1. NamesSession(FoundOf(l).events, l.session) /\ NamesSession(FoundOf(l).events, m.session)
    BY LabelNames
  <2> QED
    BY <2>1 DEF NamesSession
<1>4. l.class = m.class \/ (l.class \in {1, 2, 3} /\ m.class \in {1, 2, 3})
  BY <1>1, <1>2 DEF Rule, FaultClasses
<1>5. l.class \in MarksOn(l.session) /\ m.class \in MarksOn(l.session)
  BY <1>1, <1>3, MarksFit
<1>6. l.class = m.class
  BY <1>1, <1>4, <1>5, MarksFit
<1>7. LabelsFit(labels)
  BY DEF Finished, TellOK
<1> QED
  BY <1>3, <1>6, <1>7 DEF LabelsFit

(* There are as many violations as labels.                                 *)
LEMMA AsManyFound ==
    ASSUME Finished
    PROVE  Cardinality({FoundOf(l) : l \in labels}) = Cardinality(labels)
<1> DEFINE f == [l \in labels |-> FoundOf(l)]
           found == {FoundOf(l) : l \in labels}
<1>1. IsFiniteSet(labels)
  BY DEF Finished, TellOK, LabelsFit
<1>2. f \in Injection(labels, found)
  BY FoundDiffer DEF Injection, IsInjective
<1>3. f \in Surjection(labels, found)
  BY DEF Surjection
<1>4. f \in Bijection(labels, found)
  BY <1>2, <1>3 DEF Bijection
<1>5. ExistsBijection(labels, found)
  BY <1>4 DEF ExistsBijection
<1>6. Cardinality(found) = Cardinality(labels)
  BY <1>1, <1>5, FS_Bijection
<1> QED
  BY <1>6

(* On an injected split the rules find exactly what the labels say, one    *)
(* violation per label: every fault whatever its variant and whatever      *)
(* shares its session, with the cited events and objects, and nothing in   *)
(* the sessions left alone, lending a decision to V2 or carrying a         *)
(* distractor.                                                             *)
THEOREM LabelsAreWhatIsFound == Spec => []DetectedExactly
<1>1. TellOK /\ LogOK /\ InjectOK /\ AllocationOK => DetectedExactly
  <2> SUFFICES ASSUME TellOK, LogOK, InjectOK, AllocationOK, phase = "done" PROVE DetectedExactly
    BY DEF DetectedExactly, Done
  <2>1. Finished
    BY DEF Finished, AllocationOK
  <2>2. Evaluate(SplitLog) = {FoundOf(l) : l \in labels}
    BY <2>1, EvaluateFinds
  <2>3. {FoundOf(l) : l \in labels} =
            {[constraint |-> l.constraint, events |-> l.events, objects |-> l.objects] : l \in labels}
    BY DEF FoundOf
  <2>4. Cardinality(Evaluate(SplitLog)) = Cardinality(labels)
    BY <2>1, <2>2, AsManyFound
  <2> QED
    BY <2>2, <2>3, <2>4 DEF DetectedExactly
<1> QED
  BY <1>1, TellHolds, LogHolds, InjectHolds, AllocationHolds, PTL
=============================================================================
