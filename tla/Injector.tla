------------------------------ MODULE Injector ------------------------------
(***************************************************************************)
(* The ground-truth injector: scenario/injector.py, for one split of a     *)
(* base run of the credit fleet.                                           *)
(*                                                                         *)
(* Fault classes are allocated to the sessions of the split, the donors of *)
(* fault V2 are validated, then every session is rewritten: its faults in  *)
(* class order, the D1 distractor, and a dense renumbering.  The labels    *)
(* are what the engine is later measured against, so the question is       *)
(* whether the rewritten telemetry still is a log, and whether the rules   *)
(* find in it what the labels say, and nothing else.                       *)
(*                                                                         *)
(* Class n is fault class Vn.  What ranks by digest in the code (_rank,    *)
(* _pick) is a free choice.  A trace is the sequence of a session's event  *)
(* spans; object-to-object relations, layer-B spans and free text are left *)
(* out, no rule reads them.                                                *)
(***************************************************************************)
EXTENDS CreditFleet, Templates, FiniteSetsExt

CONSTANTS
    Applying,        \* the applicant classes a session may draw
    Instances,       \* the splits to consider, see InstanceAssumption
    DistractorCount,
    SessionStride    \* SESSION_STRIDE_SECONDS

FaultClasses == 1 .. 8

(* A split of so many sessions, drawing on the classes of a catalogue; the *)
(* faults per session of a mixed split are drawn from the digest.          *)
InstanceOK(i) ==
    /\ i.split \in {"clean", "single", "mixed"}
    /\ i.size \in Nat \ {0}
    /\ i.catalogue \subseteq FaultClasses /\ i.catalogue # {}
    /\ i.budget \in [1 .. i.size -> 0 .. 3]

ASSUME InstanceAssumption == \A i \in Instances : InstanceOK(i)
ASSUME CountAssumption == DistractorCount \in Nat
ASSUME ApplyingAssumption == Applying \subseteq Applicants
(* V4 leaves the demographics source alone and needs another to delete.    *)
ASSUME SourcesAssumption ==
    \E i \in DOMAIN RetrievalOrder : RetrievalOrder[i] # Demographics

(* rules.yaml asks for what the catalogue promises: an approval for what is *)
(* not referred, reasons for a denial at least, every source but the        *)
(* demographics; and intake is an entrypoint no other agent is.             *)
ASSUME RulesAssumption ==
    /\ DecisionOutcomes \cap Outcomes = {"grant", "deny"}
    /\ "deny" \in AdverseForRule /\ "grant" \notin AdverseForRule
    /\ RequiredSources \subseteq {RetrievalOrder[i] : i \in DOMAIN RetrievalOrder}
    /\ \A i \in DOMAIN RetrievalOrder :
           RetrievalOrder[i] \in RequiredSources \cup {Demographics}
    /\ "intake" \in EntrypointRoles
    /\ EntrypointRoles \cap {"data_retrieval", "scoring", "adjudication"} = {}
ASSUME StrideAssumption == SessionStride \in Nat

T1Classes == {1, 2, 3}     \* _t1_classes

(* co_injectable_with: two classes of T1 never share a session.            *)
Compatible(classes) == Cardinality(classes \cap T1Classes) <= 1

VARIABLES
    applicant, \* the applicant of every session
    instance,  \* the split at hand
    phase,     \* "allocate", "validate", "inject", "done", "short", "refused"
    plan,      \* split_assignment: the classes of every session
    settled,   \* single: the classes that have been given out
    d1,        \* d1_sessions
    at,        \* the session at hand
    applied,   \* the classes already applied to it
    rows,      \* rows_by_session
    labels     \* the ground truth so far

given == <<applicant, instance>>
vars  == <<given, phase, plan, settled, d1, at, applied, rows, labels>>

N         == instance.size
Sessions  == 1 .. N
Catalogue == instance.catalogue

-----------------------------------------------------------------------------
(* The telemetry of a session as the fleet has written it.                 *)
Offers(step) == {r.obj : r \in {x \in step.refs : x.mode # "ref"}}

SpanRef(r, fresh, s) ==
    LET declares == r.mode = "declare" \/ (r.mode = "maybe" /\ fresh)
    IN  [obj |-> OwnedBy(r.obj, s), qual |-> r.qual, declares |-> declares,
         facts |-> IF declares THEN r.facts ELSE {}]

BaseTrace(s, a) ==
    LET script     == CreditScript(a)
        elapsed[k \in 0 .. Len(script)] ==
            IF k = 0 THEN 0 ELSE elapsed[k - 1] + CreditDuration[script[k].type]
        Earlier(k) == UNION {Offers(script[j]) : j \in 1 .. k - 1}
    IN  [k \in DOMAIN script |->
            [id      |-> <<s, k>>,
             seq     |-> k,
             type    |-> script[k].type,
             time    |-> (s - 1) * SessionStride + elapsed[k],
             actor   |-> script[k].actor,
             outcome |-> script[k].outcome,
             count   |-> IF script[k].type = "session_end" THEN k ELSE 0,
             refs    |-> {SpanRef(r, r.obj \notin Earlier(k), s) : r \in script[k].refs}]]

DecisionOf(s) == OwnedBy(Decision, s)

(* Every fault function finds its spans by type or by seq.                 *)
SpansOf(trace, types) == {k \in DOMAIN trace : trace[k].type \in types}
SpanOf(trace, type)   == Min(SpansOf(trace, {type}))
AtSeq(trace, n)       == CHOOSE k \in DOMAIN trace : trace[k].seq = n

VerdictTypes == {"grant_approval", "deny_approval"}
Verdict(trace) == Min(SpansOf(trace, VerdictTypes))

(* The spans that stay, in their order.                                    *)
Without(trace, ks) ==
    LET kept   == DOMAIN trace \ ks
        Nth(n) == CHOOSE k \in kept : Cardinality({j \in kept : j <= k}) = n
    IN  [n \in 1 .. Cardinality(kept) |-> trace[Nth(n)]]

(* _mutate_event: only the references of a span change.                    *)
Rewrite(trace, k, New(_)) == [trace EXCEPT ![k].refs = {New(r) : r \in @}]
Strip(trace, k, refs)     == [trace EXCEPT ![k].refs = @ \ refs]

Ids(trace, ks) == {trace[k].id : k \in ks}

Label(c, constraint, events, objects) ==
    [session |-> at, class |-> c, constraint |-> constraint,
     events |-> events, objects |-> objects]

-----------------------------------------------------------------------------
Outcome(s)          == FinalOutcome(applicant[s])
NeedsApproval(s)    == Outcome(s) \in {"grant", "deny"}
HasGrantApproval(s) == applicant[s].granted

(* The eligibility a fault class registers with.                           *)
Eligible(c, s) ==
    /\ c \in {1, 2, 3} => NeedsApproval(s)
    /\ c = 2 => HasGrantApproval(s)
    /\ c = 6 => Outcome(s) = "deny"

EligibleFor(c) == {s \in Sessions : Eligible(c, s)}

Init ==
    /\ instance \in Instances
    /\ applicant \in [Sessions -> Applying]
    /\ phase = "allocate"
    /\ plan = [s \in Sessions |-> {}]
    /\ settled = {}
    /\ d1 = {}
    /\ at = 1
    /\ applied = {}
    /\ rows = [s \in Sessions |-> BaseTrace(s, applicant[s])]
    /\ labels = {}

AllocateClean ==
    /\ phase = "allocate"
    /\ instance.split = "clean"
    /\ phase' = "validate"
    /\ UNCHANGED <<given, plan, settled, d1, at, applied, rows, labels>>

(* Mutant of Scarcer: classes in catalogue order.                          *)
ScarcerByNumber(b, c) == b < c

(* _scarcity_order: the smallest pool first, ties by class.                *)
Scarcer(b, c) ==
    LET pool(x) == Cardinality(EligibleFor(x))
    IN  pool(b) < pool(c) \/ (pool(b) = pool(c) /\ b < c)

Scarcest(classes) == CHOOSE c \in classes : \A b \in classes : b = c \/ Scarcer(c, b)

Quota     == N \div Cardinality(Catalogue)
Divisible == N % Cardinality(Catalogue) = 0

(* Mutant of AllocateSingle: the pool still holds the sessions already     *)
(* assigned.                                                               *)
AllocateSingleAgain ==
    /\ phase = "allocate"
    /\ instance.split = "single"
    /\ settled # Catalogue
    /\ LET c    == Scarcest(Catalogue \ settled)
           pool == EligibleFor(c)
       IN  IF ~ Divisible \/ Cardinality(pool) < Quota
           THEN phase' = "short" /\ UNCHANGED <<plan, settled>>
           ELSE /\ \E chosen \in kSubset(Quota, pool) :
                      plan' = [s \in Sessions |-> IF s \in chosen THEN {c} ELSE plan[s]]
                /\ settled' = settled \cup {c}
                /\ UNCHANGED phase
    /\ UNCHANGED <<given, d1, at, applied, rows, labels>>

(* _allocate_single, one class: a quota of the sessions still unassigned.  *)
AllocateSingle ==
    /\ phase = "allocate"
    /\ instance.split = "single"
    /\ settled # Catalogue
    /\ LET c    == Scarcest(Catalogue \ settled)
           pool == {s \in EligibleFor(c) : plan[s] = {}}
       IN  IF ~ Divisible \/ Cardinality(pool) < Quota
           THEN phase' = "short" /\ UNCHANGED <<plan, settled>>
           ELSE /\ \E chosen \in kSubset(Quota, pool) :
                      plan' = [s \in Sessions |-> IF s \in chosen THEN {c} ELSE plan[s]]
                /\ settled' = settled \cup {c}
                /\ UNCHANGED phase
    /\ UNCHANGED <<given, d1, at, applied, rows, labels>>

SingleAllocated ==
    /\ phase = "allocate"
    /\ instance.split = "single"
    /\ settled = Catalogue
    /\ phase' = "validate"
    /\ UNCHANGED <<given, plan, settled, d1, at, applied, rows, labels>>

(* _allocate_mixed, one session: candidates in any order, skipping what is *)
(* ineligible or incompatible with those chosen, until k are chosen.       *)
MixedChoices(s, k) ==
    LET fits(classes) == Compatible(classes) /\ \A c \in classes : Eligible(c, s)
        sets == {classes \in UNION {kSubset(n, Catalogue) : n \in 0 .. k} : fits(classes)}
    IN  {classes \in sets :
            \/ Cardinality(classes) = k
            \/ \A c \in Catalogue \ classes : ~ fits(classes \cup {c})}

AllocateMixed ==
    /\ phase = "allocate"
    /\ instance.split = "mixed"
    /\ \E classes \in MixedChoices(at, instance.budget[at]) : plan' = [plan EXCEPT ![at] = classes]
    /\ IF at < N THEN at' = at + 1 /\ UNCHANGED phase
                 ELSE at' = 1 /\ phase' = "validate"
    /\ UNCHANGED <<given, settled, d1, applied, rows, labels>>

-----------------------------------------------------------------------------
(* Mutant of Donors: any session of the split may lend its decision.       *)
AnyDonor == {DecisionOf(s) : s \in Sessions}

(* donor_ids_by_split: a session with a fault of T1 lends no decision.     *)
Donors    == {DecisionOf(s) : s \in {x \in Sessions : plan[x] \cap T1Classes = {}}}
DonorsFor(s) == Donors \ {DecisionOf(s)}

D1Pool == {s \in Sessions : NeedsApproval(s) /\ plan[s] \cap T1Classes = {}}
D1Take ==
    IF instance.split = "clean" \/ DistractorCount = 0 THEN 0
    ELSE IF instance.split = "single" THEN DistractorCount
    ELSE Max({1, DistractorCount \div 4})

(* Donor availability is settled before anything is written.               *)
Validate ==
    /\ phase = "validate"
    /\ IF \E s \in Sessions : 2 \in plan[s] /\ DonorsFor(s) = {}
       THEN phase' = "refused" /\ UNCHANGED d1
       ELSE /\ d1' \in kSubset(Min({D1Take, Cardinality(D1Pool)}), D1Pool)
            /\ phase' = "inject"
    /\ UNCHANGED <<given, plan, settled, at, applied, rows, labels>>

-----------------------------------------------------------------------------
Current == rows[at]
Todo    == plan[at] \ applied

(* Faults are applied in class order.                                      *)
Turn(c) == phase = "inject" /\ c \in Todo /\ \A b \in Todo : c <= b

DecisionSpan     == SpanOf(Current, "make_decision")
ApprovalSpans    == SpansOf(Current, {"request_approval"} \cup VerdictTypes)
ReadBy(k)        == {r.obj : r \in {x \in Current[k].refs : x.qual = "reads"}}
RetrievalsOf(t)  == {k \in SpansOf(Current, {"retrieve_data"}) : \E o \in ReadBy(k) : o.id = t}
SourcesRead      == {o.id : o \in UNION {ReadBy(k) : k \in SpansOf(Current, {"retrieve_data"})}}
Named(k, qual)   == {r.obj : r \in {x \in Current[k].refs : x.qual = qual}}
Explainers       == {k \in SpansOf(Current, {"emit_reasoning"}) :
                       /\ DecisionOf(at) \in Named(k, "explains")
                       /\ Current[k].seq > Current[DecisionSpan].seq}
Invoked          == {Current[k].actor : k \in SpansOf(Current, {"invoke_agent"})}

(* Mutant of Bystanders: the sender may be the wrong recipient too.        *)
BystandersOrSender(h) == Invoked \ Named(h, "to")

Bystanders(h)    == Invoked \ (Named(h, "from") \cup Named(h, "to"))
PoliciesNamed(k) == {r.obj : r \in {x \in Current[k].refs : x.obj.kind = "PolicyVersion"}}
OtherPolicies    == PoliciesNamed(SpanOf(Current, "session_start")) \ PoliciesNamed(DecisionSpan)

(* A span of the type at the given seq: deleting a span moves no other,    *)
(* since seq is renumbered only after the last fault.                      *)
IsAt(n, type) == \E k \in DOMAIN Current : Current[k].seq = n /\ Current[k].type = type

(* _session_view is taken once, of the base session.                       *)
InView(type) ==
    LET view == BaseTrace(at, applicant[at]) IN Ids(view, SpansOf(view, {type}))

StillThere(type) == InView(type) \subseteq Ids(Current, SpansOf(Current, {type}))

(* What the fault functions look for in the trace: a donor and a grant to  *)
(* repoint; a request and a verdict; a source that may go, its retrieval   *)
(* and the tool call before it; the demographics retrieval; an explanation *)
(* after the decision; the handoff, its orphan and a third agent; and      *)
(* another policy.                                                         *)
DonorAtHand    == DonorsFor(at) # {} /\ SpansOf(Current, {"grant_approval"}) # {}
ApprovalAtHand ==
    SpansOf(Current, {"request_approval"}) # {} /\ SpansOf(Current, VerdictTypes) # {}
SourceAtHand ==
    /\ StillThere("retrieve_data")
    /\ SourcesRead \ {Demographics} # {}
    /\ \A t \in SourcesRead \ {Demographics} : \A k \in RetrievalsOf(t) :
           IsAt(Current[k].seq - 1, "call_tool")
DemographicsAtHand == RetrievalsOf(Demographics) # {}
ExplanationAtHand  == Explainers # {}
HandoffsAtHand ==
    /\ StillThere("handoff")
    /\ \A h \in SpansOf(Current, {"handoff"}) :
           IsAt(Current[h].seq + 1, "invoke_agent") /\ Bystanders(h) # {}
PolicyAtHand == OtherPolicies # {}

Finds(c) ==
    /\ c = 2 => DonorAtHand
    /\ c = 3 => ApprovalAtHand
    /\ c = 4 => SourceAtHand
    /\ c = 5 => DemographicsAtHand
    /\ c = 6 => ExplanationAtHand
    /\ c = 7 => HandoffsAtHand
    /\ c = 8 => PolicyAtHand

(* What validate_event asks of a span when the chosen references, a list   *)
(* in the code, are pointed at another object: an object appears in an     *)
(* event once.  A rewrite changes nothing else that it checks.             *)
Takes(k, chosen, object) ==
    \A q \in chosen : \A r \in Current[k].refs \ {q} : r \notin chosen /\ r.obj # object

OfKind(k, kind) == {r \in Current[k].refs : r.obj.kind = kind}
ByQual(k, qual) == {r \in Current[k].refs : r.qual = qual}

Rogue(s) == [Obj("HumanApprover", "rogue") EXCEPT !.owner = s]
Local(s) == [Resource(Demographics) EXCEPT !.owner = s]

TakesApprover(approver) ==
    \A k \in {SpanOf(Current, "request_approval"), Verdict(Current)} :
        Takes(k, OfKind(k, "HumanApprover"), approver)

Accepts(c) ==
    /\ c = 2 => LET k == SpanOf(Current, "grant_approval")
                IN  \A donor \in DonorsFor(at) : Takes(k, ByQual(k, "approves"), donor)
    /\ c = 3 => TakesApprover(Rogue(at))
    /\ c = 5 => LET k == Min(RetrievalsOf(Demographics))
                IN  Takes(k, OfKind(k, "DataResource"), Local(at))
    /\ c = 7 => \A h \in SpansOf(Current, {"handoff"}) : \A wrong \in Bystanders(h) :
                    Takes(h, ByQual(h, "to"), wrong)
    /\ c = 8 => \A target \in OtherPolicies :
                    Takes(DecisionSpan, OfKind(DecisionSpan, "PolicyVersion"), target)

(* Fault function c runs through; anything missing, or a span rewritten    *)
(* against the contract, raises in the middle of writing the split.        *)
Ready(c) == Finds(c) /\ Accepts(c)

(* The rewritten trace and its label, the frame of every fault action.     *)
Apply(c, newTrace, constraint, events, objects) ==
    /\ rows' = [rows EXCEPT ![at] = newTrace]
    /\ labels' = labels \cup {Label(c, constraint, events, objects)}
    /\ applied' = applied \cup {c}
    /\ UNCHANGED <<given, phase, plan, settled, d1, at>>

(* Delete the approval events; the decision no longer names an approval.   *)
FaultV1 ==
    /\ Turn(1) /\ Ready(1)
    /\ LET approvals == {r \in UNION {Current[k].refs : k \in ApprovalSpans} : r.obj.kind = "Approval"}
           named     == {r \in Current[DecisionSpan].refs : r.obj \in {x.obj : x \in approvals}}
       IN  Apply(1, Without(Strip(Current, DecisionSpan, named), ApprovalSpans),
                 "T1", Ids(Current, {DecisionSpan}), {DecisionOf(at)})

(* The approval endorses the decision of another session of the split.     *)
FaultV2 ==
    /\ Turn(2) /\ Ready(2)
    /\ \E donor \in DonorsFor(at) :
           LET repoint(r) == IF r.qual = "approves" THEN [r EXCEPT !.obj = donor] ELSE r
               approval   == SpanOf(Current, "grant_approval")
           IN  Apply(2, Rewrite(Current, approval, repoint),
                     "T1", Ids(Current, {approval, DecisionSpan}), {DecisionOf(at), donor})

(* Another approver, on the request and on the verdict.                    *)
SwapApprover(tr, approver, facts) ==
    LET request   == SpanOf(tr, "request_approval")
        verdict   == Verdict(tr)
        swap(r)   == IF r.obj.kind = "HumanApprover"
                     THEN [r EXCEPT !.obj = approver, !.facts = IF r.declares THEN facts ELSE {}]
                     ELSE r
        requested == Rewrite(tr, request, swap)
    IN  [Rewrite(requested, verdict, swap) EXCEPT ![verdict].actor = approver]

FaultV3 ==
    /\ Turn(3) /\ Ready(3)
    /\ Apply(3, SwapApprover(Current, Rogue(at), {}),
             "T1", Ids(Current, {Verdict(Current)}), {Rogue(at)})

(* Delete the retrieval of one required source, alone or with its tool     *)
(* call.                                                                   *)
FaultV4 ==
    /\ Turn(4) /\ Ready(4)
    /\ \E source \in SourcesRead \ {Demographics}, mode \in {"leaf", "tool_call"} :
           LET retrieval == Max(RetrievalsOf(source))
               removed   == {retrieval} \cup
                            (IF mode = "leaf" THEN {} ELSE {AtSeq(Current, Current[retrieval].seq - 1)})
           IN  Apply(4, Without(Current, removed), "T2", Ids(Current, {DecisionSpan}), {})

(* A demographics resource of the session's own, without a lawful basis.   *)
FaultV5 ==
    /\ Turn(5) /\ Ready(5)
    /\ LET retrieval == Min(RetrievalsOf(Demographics))
           localise(r) == IF r.obj.kind = "DataResource"
                          THEN [r EXCEPT !.obj = Local(at), !.facts = @ \ {"lawful_basis"}]
                          ELSE r
       IN  Apply(5, Rewrite(Current, retrieval, localise), "T5", Ids(Current, {retrieval}), {Local(at)})

(* Blank the reason codes of the decision object, or strip the edge that   *)
(* explains the decision.                                                  *)
FaultV6 ==
    /\ Turn(6) /\ Ready(6)
    /\ LET blank(r)  == IF r.obj.kind = "CreditDecision" /\ r.declares
                        THEN [r EXCEPT !.facts = @ \ {"reason_codes"}] ELSE r
           explainer == Min(Explainers)
           edge      == {r \in Current[explainer].refs : r.qual = "explains" /\ r.obj = DecisionOf(at)}
       IN  \E newTrace \in {Rewrite(Current, DecisionSpan, blank), Strip(Current, explainer, edge)} :
               Apply(6, newTrace, "T4", Ids(Current, {DecisionSpan}), {DecisionOf(at)})

(* Delete a handoff, or point it at an agent that is neither its sender    *)
(* nor its intended recipient.                                             *)
FaultV7 ==
    /\ Turn(7) /\ Ready(7)
    /\ \E handoff \in SpansOf(Current, {"handoff"}) :
           LET recipient == Named(handoff, "to")
               orphan    == AtSeq(Current, Current[handoff].seq + 1)
           IN  \/ Apply(7, Without(Current, {handoff}), "T3", Ids(Current, {orphan}), recipient)
               \/ \E wrong \in Bystanders(handoff) :
                      LET repoint(r) == IF r.qual = "to" THEN [r EXCEPT !.obj = wrong] ELSE r
                      IN  Apply(7, Rewrite(Current, handoff, repoint),
                                "T3", Ids(Current, {handoff, orphan}), recipient)

(* The decision is governed by a superseded policy.                        *)
FaultV8 ==
    /\ Turn(8) /\ Ready(8)
    /\ \E target \in OtherPolicies :
           LET repoint(r) == IF r.obj.kind = "PolicyVersion" THEN [r EXCEPT !.obj = target] ELSE r
           IN  Apply(8, Rewrite(Current, DecisionSpan, repoint),
                     "STD", Ids(Current, {DecisionSpan}), {target})

ApplyFault ==
    FaultV1 \/ FaultV2 \/ FaultV3 \/ FaultV4 \/ FaultV5 \/ FaultV6 \/ FaultV7 \/ FaultV8

-----------------------------------------------------------------------------
(* _apply_d1: a legal approver nobody is ever routed to.                   *)
BoundaryApprover == Obj("HumanApprover", "boundary")
ApplyD1(tr)      == SwapApprover(tr, BoundaryApprover, {"authorised"})

(* Like the fault functions, _apply_d1 raises where it finds no approval.  *)
ReadyForD1 == ApprovalAtHand /\ TakesApprover(BoundaryApprover)

(* Mutant of Renumber: the gaps of deleted events stay.                    *)
KeepSeq(tr) == tr

(* _renumber_seq and _recompute_session_end; event ids stay as they are.   *)
Renumber(tr) == [k \in DOMAIN tr |-> [tr[k] EXCEPT !.seq = k]]
RecomputeEnd(tr) ==
    [k \in DOMAIN tr |->
        IF tr[k].type = "session_end" THEN [tr[k] EXCEPT !.count = Len(tr)] ELSE tr[k]]

(* Mutant of WriteSession: the faults applied are not forgotten.           *)
WriteSessionStale ==
    /\ phase = "inject"
    /\ Todo = {}
    /\ at \in d1 => ReadyForD1
    /\ LET swapped == IF at \in d1 THEN ApplyD1(Current) ELSE Current
       IN  rows' = [rows EXCEPT ![at] =
                       IF plan[at] = {} /\ at \notin d1 THEN @ ELSE RecomputeEnd(Renumber(swapped))]
    /\ IF at < N THEN at' = at + 1 /\ UNCHANGED phase
                 ELSE phase' = "done" /\ UNCHANGED at
    /\ UNCHANGED <<given, plan, settled, d1, applied, labels>>

(* The session is written once its faults are in; a session that was left  *)
(* alone is copied byte for byte.                                          *)
WriteSession ==
    /\ phase = "inject"
    /\ Todo = {}
    /\ at \in d1 => ReadyForD1
    /\ LET swapped == IF at \in d1 THEN ApplyD1(Current) ELSE Current
       IN  rows' = [rows EXCEPT ![at] =
                       IF plan[at] = {} /\ at \notin d1 THEN @ ELSE RecomputeEnd(Renumber(swapped))]
    /\ applied' = {}
    /\ IF at < N THEN at' = at + 1 /\ UNCHANGED phase
                 ELSE phase' = "done" /\ UNCHANGED at
    /\ UNCHANGED <<given, plan, settled, d1, labels>>

Next ==
    \/ AllocateClean \/ AllocateSingle \/ SingleAllocated \/ AllocateMixed
    \/ Validate \/ ApplyFault \/ WriteSession

Spec == Init /\ [][Next]_vars

-----------------------------------------------------------------------------
(* The log the mapper makes of the split: ingest/mapper.map_span_trees.    *)
AllSpans == UNION {{rows[s][k] : k \in DOMAIN rows[s]} : s \in Sessions}

Declarations == {r \in UNION {e.refs : e \in AllSpans} : r.declares}

Relations(e) ==
    {[qual |-> IF r.qual = "" THEN "declares" ELSE r.qual, obj |-> r.obj] : r \in e.refs}

SplitLog ==
    [events |-> {[id |-> e.id, type |-> e.type, time |-> e.time, outcome |-> e.outcome,
                  rels |-> Relations(e)] : e \in AllSpans},
     facts  |-> [o \in {r.obj : r \in Declarations} |->
                    (CHOOSE r \in Declarations : r.obj = o).facts]]

(* The natural near misses recorded beside the labels: D2.                 *)
D2Sessions == IF instance.split = "clean" THEN {} ELSE {s \in Sessions : Outcome(s) = "refer"}

(* What the reader and the mapper refuse a split for: validate_event on    *)
(* every event, dense numbering, one meaning per object id, and nothing    *)
(* referenced that no event declares.                                      *)
SplitMaps ==
    /\ \A s \in Sessions : {rows[s][k].seq : k \in DOMAIN rows[s]} = 1 .. Len(rows[s])
    /\ \A e, f \in AllSpans : e.id = f.id => e = f
    /\ \A e \in AllSpans : \A q, r \in e.refs : q.obj = r.obj => q = r
    /\ \A q, r \in Declarations : q.obj = r.obj => q.facts = r.facts
    /\ \A e \in AllSpans : {r.obj : r \in e.refs} \subseteq {r.obj : r \in Declarations}

Done == phase = "done"

-----------------------------------------------------------------------------
TypeOK ==
    /\ applicant \in [Sessions -> Applicants]
    /\ phase \in {"allocate", "validate", "inject", "done", "short", "refused"}
    /\ plan \in [Sessions -> SUBSET Catalogue]
    /\ d1 \subseteq Sessions
    /\ at \in Sessions
    /\ applied \subseteq plan[at]
    /\ \A s \in Sessions : DOMAIN rows[s] \subseteq 1 .. Len(BaseTrace(s, applicant[s]))

(* On an injected split the rules find exactly what the labels say, one    *)
(* violation per label: every fault, whatever other faults share its       *)
(* session and whatever its variant, cited by the pre-registered events    *)
(* and objects, and nothing in the sessions that were left alone, lent a   *)
(* decision to V2 or carry a distractor.                                   *)
DetectedExactly ==
    Done =>
        LET found == Evaluate(SplitLog)
        IN  /\ Cardinality(found) = Cardinality(labels)
            /\ found = {[constraint |-> l.constraint, events |-> l.events, objects |-> l.objects] :
                          l \in labels}

(* What is left of T1 and T4 when they are reduced to control flow on a    *)
(* shared object (standard.py: "needed for the E1 expressiveness           *)
(* comparison").  A decision not preceded by a grant of it is one of V1 or *)
(* V2: an unauthorised grant (V3) passes, the template reads no attribute. *)
(* A decision not followed by its explanation is one of V6, and V6 goes    *)
(* unseen only where it took the reason codes instead.                     *)
ControlFlowConcurs ==
    Done =>
        LET log        == SplitLog
            binding    == {e.id : e \in {d \in Decisions(log) : d.outcome \in DecisionOutcomes}}
            unapproved == UNION {v.events : v \in SynchronisedPrecedence(log, "grant_approval",
                                                     "make_decision", "CreditDecision")}
            unexplained == SynchronisedResponse(log, "make_decision", "emit_reasoning",
                                                "CreditDecision")
            missed     == {l \in labels : /\ l.class = 6
                                          /\ \A v \in unexplained : v.events # l.events}
        IN  /\ unapproved \cap binding =
                   UNION {l.events \cap binding : l \in {m \in labels : m.class \in {1, 2}}}
            /\ {v.events : v \in unexplained} \subseteq {l.events : l \in {m \in labels : m.class = 6}}
            /\ \A l \in missed : \A d \in l.objects : "reason_codes" \notin log.facts[d]

(* An injected split is still a run that the mapper accepts, and deletions *)
(* look native: the count session_end carries is the number of events.     *)
SplitIsALog ==
    Done => /\ SplitMaps
            /\ \A s \in Sessions : \A k \in DOMAIN rows[s] :
                   rows[s][k].type = "session_end" => rows[s][k].count = Len(rows[s])

(* Once the first session is being written nothing raises: what allocation *)
(* checked is enough for every fault and for the distractor, also after    *)
(* the faults applied before have taken spans away, pointed them elsewhere *)
(* or left gaps between them; and every event they rewrite is still one    *)
(* that validate_event lets through.                                       *)
NeverTorn ==
    phase = "inject" =>
        /\ \A c \in Todo : Turn(c) => Ready(c)
        /\ Todo = {} /\ at \in d1 => ReadyForD1

(* The single split gives every class its quota of sessions, ...           *)
Balanced ==
    Done /\ instance.split = "single" =>
        \A c \in Catalogue : Cardinality({s \in Sessions : plan[s] = {c}}) = Quota

(* ... and the greedy allocation by scarcity refuses a split only if no    *)
(* allocation of it exists at all.                                         *)
ShortOnlyIfInfeasible ==
    phase = "short" /\ Divisible =>
        ~ \E f \in [Sessions -> Catalogue] :
              \A c \in Catalogue : /\ {s \in Sessions : f[s] = c} \subseteq EligibleFor(c)
                                   /\ Cardinality({s \in Sessions : f[s] = c}) = Quota

(* Every session recorded as a D2 distractor is one in which the human     *)
(* approver declined: what the recorded description says.                  *)
D2WasDeclined ==
    Done => \A s \in D2Sessions : SpansOf(rows[s], {"deny_approval"}) # {}
=============================================================================
