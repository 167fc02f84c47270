----------------------------- MODULE JudgeScores -----------------------------
(***************************************************************************)
(* What is made of the answers of a sweep (baselines/llm_judge.py and      *)
(* eval/metrics.py): the verdicts of the samples of one question are       *)
(* aggregated, by whole verdict or claim by claim, and claims are matched  *)
(* with the labels of the injector, each with at most one.                 *)
(***************************************************************************)
EXTENDS JudgeCache

F == INSTANCE Functions
S == INSTANCE FiniteSetsExt

CONSTANTS
    Constraint, \* of a label a model may use: the constraint it stands for
    Threshold,  \* JudgeMatching.overlap_threshold
    Labels      \* what may have been injected: sequences of [constraint, events, session]

(* _claims_to_violations; a failed answer makes no claim.                  *)
Violations(run) ==
    IF run.given.verdict = Failure THEN << >>
    ELSE [i \in DOMAIN run.given.verdict |->
             [label   |-> run.given.verdict[i].label,
              events  |-> run.given.verdict[i].events,
              session |-> run.asked.session]]

Claims(run) == F!Range(Violations(run))

Times(list) == [x \in F!Range(list) |-> Cardinality({i \in DOMAIN list : list[i] = x})]

(* verdict_set_key: the claims, as often as made and in no order, and so   *)
(* the events of each.                                                     *)
VerdictSetKey(violations) ==
    Times([i \in DOMAIN violations |->
              [label |-> violations[i].label, events |-> Times(violations[i].events)]])

(* _run_key.                                                               *)
RunKey(run) ==
    IF run.given.verdict = Failure THEN Failure ELSE VerdictSetKey(Violations(run))

(* Verdicts that parse, and labels, are lists; ...                         *)
ASSUME Lists ==
    /\ \A labels \in Labels : Len(labels) \in Nat /\ DOMAIN labels = 1 .. Len(labels)
    /\ \A asked \in Asked : \A verdict \in Answers[asked.prompt] \ {Failure} :
           Len(verdict) \in Nat /\ DOMAIN verdict = 1 .. Len(verdict)

(* ... the key of a verdict is a list too, that of a failure a word.       *)
ASSUME KeysAreNoFailure ==
    \A asked \in Asked : \A verdict \in Answers[asked.prompt] \ {Failure} :
        VerdictSetKey(Violations([asked |-> asked, given |-> [verdict |-> verdict]])) # Failure

Support(group, key) == Cardinality({run \in group : RunKey(run) = key})

(* modal_verdict: of the keys most runs have, one that sorts first; that   *)
(* of a failure, a quoted word, sorts before any list. The order of the    *)
(* others is left open.                                                    *)
ModalKeys(group) ==
    LET keys == {RunKey(run) : run \in group}
        most == {key \in keys : \A other \in keys : Support(group, key) >= Support(group, other)}
    IN  IF Failure \in most THEN {Failure} ELSE most

(* majority_vote: the claims at least k runs make, in whatever words.      *)
Item(violation) == [constraint |-> Constraint[violation.label], events |-> F!Range(violation.events)]

Items(run) == {Item(violation) : violation \in Claims(run)}

(* Mutant of Majority: a run that repeats a claim is counted as often.     *)
MajorityOfClaims(group, k) ==
    {item \in UNION {Items(run) : run \in group} :
        Cardinality(UNION {{<<run, i>> : i \in {j \in DOMAIN Violations(run) :
                                Item(Violations(run)[j]) = item}} : run \in group}) >= k}

Majority(group, k) ==
    {item \in UNION {Items(run) : run \in group} :
        Cardinality({run \in group : item \in Items(run)}) >= k}

-----------------------------------------------------------------------------
(* exact_match, judge_matcher and session_match, as the pairs of positions *)
(* of claims and labels that match.                                        *)
Pairs(violations, labels) == (1..Len(violations)) \X (1..Len(labels))

Exact(violations, labels) ==
    {pair \in Pairs(violations, labels) :
        /\ violations[pair[1]].label = labels[pair[2]].constraint
        /\ F!Range(violations[pair[1]].events) = labels[pair[2]].events}

Overlapping(violations, labels) ==
    {pair \in Pairs(violations, labels) :
        /\ Constraint[violations[pair[1]].label] = labels[pair[2]].constraint
        /\ Cardinality(F!Range(violations[pair[1]].events) \cap labels[pair[2]].events)
               >= Threshold}

NoSession == ""

SameSession(violations, labels) ==
    {pair \in Pairs(violations, labels) :
        /\ violations[pair[1]].session # NoSession
        /\ violations[pair[1]].session = labels[pair[2]].session}

(* Mutant of Remaining: a claim is not used up by the label it matches.    *)
RemainingAll(violations, taken) == DOMAIN violations

(* confusion: each label in turn takes the first remaining claim.          *)
Remaining(violations, taken) == DOMAIN violations \ F!Range(taken)

Taken(violations, labels, matching) ==
    LET taken[n \in 0..Len(labels)] ==
            IF n = 0 THEN << >>
            ELSE LET candidates ==
                         {i \in Remaining(violations, taken[n - 1]) : <<i, n>> \in matching}
                 IN  Append(taken[n - 1], IF candidates = {} THEN 0 ELSE S!Min(candidates))
    IN  taken[Len(labels)]

Confusion(violations, labels, matching) ==
    LET taken == Taken(violations, labels, matching)
        hits  == Cardinality({n \in DOMAIN taken : taken[n] # 0})
    IN  [true_positives  |-> hits,
         false_positives |-> Len(violations) - hits,
         false_negatives |-> Len(labels) - hits]

(* adjudication_queue.                                                     *)
Queue(violations, labels) ==
    {i \in DOMAIN violations :
        \A n \in DOMAIN labels : <<i, n>> \notin Overlapping(violations, labels)}

-----------------------------------------------------------------------------
(* The runs of a report on one question, one for each sample.              *)
Groups(report) ==
    {{r \in report : [r.asked EXCEPT !.sample = 0] = [run.asked EXCEPT !.sample = 0]} :
        run \in report}

(* The two aggregates of a report fit together: every claim of a modal     *)
(* verdict with the support of k runs is also one of the k-majority,       *)
(* whatever words the runs use and however often they repeat themselves;   *)
(* and when k runs are more than half, any two claims of the majority were *)
(* made together by one run.                                               *)
Agree(group, k) ==
    /\ \A run \in group :
           RunKey(run) \in ModalKeys(group) /\ Support(group, RunKey(run)) >= k
               => Items(run) \subseteq Majority(group, k)
    /\ 2 * k > Cardinality(group) =>
           \A one, other \in Majority(group, k) :
               \E run \in group : {one, other} \subseteq Items(run)

AggregatesAgree ==
    [][\A report \in reports' \ reports : \A group \in Groups(report) :
           \A k \in 1..Cardinality(group) : Agree(group, k)]_vars

(* The most pairs one could match, each claim and each label once.         *)
OneToOne(pairs) ==
    \A one, other \in pairs : one # other => one[1] # other[1] /\ one[2] # other[2]

Most(matching) == S!Max({Cardinality(pairs) : pairs \in {s \in SUBSET matching : OneToOne(s)}})

(* Taking the first claim that fits is as good as any matching for the     *)
(* exact and the session matcher, so no order of labels or claims changes  *)
(* the score; for the matcher of overlaps, which is not transitive, it     *)
(* finds at least half of what could be matched, never more than all, and  *)
(* what is queued for adjudication is among the false positives.           *)
Fair(claims, labels) ==
    LET exact   == Exact(claims, labels)
        session == SameSession(claims, labels)
        overlap == Overlapping(claims, labels)
        matrix  == Confusion(claims, labels, overlap)
    IN  /\ Confusion(claims, labels, exact).true_positives = Most(exact)
        /\ Confusion(claims, labels, session).true_positives = Most(session)
        /\ matrix.true_positives <= Most(overlap)
        /\ 2 * matrix.true_positives >= Most(overlap)
        /\ matrix.false_positives >= Cardinality(Queue(claims, labels))

ScoresAreFair ==
    [][\A report \in reports' \ reports : \A run \in report : \A labels \in Labels :
           Fair(Violations(run), labels)]_vars
=============================================================================
