---------------------------- MODULE PublishedRun ----------------------------
(***************************************************************************)
(* What a span directory promises its readers, whatever happens to the     *)
(* processes that write it: it offers nothing, or the whole log of one     *)
(* run, and that log is a function of the run's inputs.  Runs whose log    *)
(* would break the span contract are never offered.                        *)
(***************************************************************************)
EXTENDS Integers, Sequences

CONSTANTS Runs, Count, Draw, Script, Duration, Stride, PolicyFrom, PolicyTo, Open, Nothing

VARIABLE published

Steps(r, i) == Script[Draw[r][i]]
Start(i)    == (i - 1) * Stride

(* Simulated seconds from the start of a session to its k-th event.        *)
Elapsed(steps) ==
    LET elapsed[k \in 0 .. Len(steps)] ==
            IF k = 0 THEN 0 ELSE elapsed[k - 1] + Duration[steps[k].type]
    IN  elapsed

Offered(step) == {ref[1] : ref \in {x \in step.refs : x[2] # "ref"}}
Forced(step)  == {ref[1] : ref \in {x \in step.refs : x[2] = "declare"}}
Names(step)   == {ref[1] : ref \in step.refs} \cup step.o2o

Earlier(steps, k) == UNION {Offered(steps[j]) : j \in 1 .. k - 1}

DeclaredAt(steps, k) == Forced(steps[k]) \cup (Offered(steps[k]) \ Earlier(steps, k))

SessionLog(r, i) ==
    LET steps == Steps(r, i)
    IN  [k \in DOMAIN steps |->
            [type     |-> steps[k].type,
             seq      |-> k,
             time     |-> Start(i) + Elapsed(steps)[k],
             declares |-> DeclaredAt(steps, k),
             refs     |-> Names(steps[k]),
             whole    |-> TRUE]]

SoundSession(r, i) ==
    LET steps == Steps(r, i)
    IN  /\ Start(i) >= PolicyFrom
        /\ PolicyTo # Open => Start(i) <= PolicyTo
        /\ \A k \in DOMAIN steps : Forced(steps[k]) \cap Earlier(steps, k) = {}
        /\ \A k \in DOMAIN steps : Names(steps[k]) \subseteq Earlier(steps, Len(steps) + 1)
        /\ Elapsed(steps)[Len(steps)] < Stride

Sound(r) == \A i \in 1 .. Count[r] : SoundSession(r, i)

Log(r) == [run |-> r, sessions |-> [i \in 1 .. Count[r] |-> SessionLog(r, i)]]

Init == published = Nothing

Withdraw == published # Nothing /\ published' = Nothing

Publish(r) == published = Nothing /\ Sound(r) /\ published' = Log(r)

Next == Withdraw \/ \E r \in Runs : Publish(r)

Spec == Init /\ [][Next]_published
=============================================================================
