------------------------------ MODULE SpanTrees ------------------------------
(***************************************************************************)
(* One trace on its way to the span index: build_span_trees                *)
(* (ingest/otel_reader.py) checks that the spans of a trace form one tree, *)
(* and the enrichment loop of map_span_trees (ingest/mapper.py) attributes *)
(* every span that is not an event to the nearest event above it, or to    *)
(* the session.                                                            *)
(*                                                                         *)
(* Any parent function and any choice of event spans is a possible input:  *)
(* the reader has only checked that span ids are unique.                   *)
(***************************************************************************)
EXTENDS Integers, FiniteSets

CONSTANTS Spans,    \* the spans of the trace
          Outside,  \* a parent id that no span of the trace has
          None

ASSUME SpansAssumption ==
    /\ IsFiniteSet(Spans) /\ Spans # {}
    /\ Outside \notin Spans /\ None \notin Spans /\ Outside # None

Parents == Spans \cup {Outside, None}

VARIABLES
    parent,    \* parent_span_id of every span
    event,     \* the spans that carry at.event.type
    pc,
    reachable, \* the spans the walk from the root has reached
    frontier,  \* ... of which the children have still to be visited
    todo,      \* the enrichment spans not yet attributed
    current,   \* the span being attributed
    cursor,    \* where the walk up from it stands
    anchor     \* the event, or the root, a span is attributed to

input == <<parent, event>>
walk  == <<reachable, frontier>>
vars  == <<input, pc, walk, todo, current, cursor, anchor>>

TypeOK ==
    /\ parent \in [Spans -> Parents]
    /\ event \subseteq Spans
    /\ pc \in {"build", "reach", "scope", "attribute", "climb", "done", "refused"}
    /\ reachable \subseteq Spans
    /\ frontier \subseteq Spans
    /\ todo \subseteq Spans
    /\ current \in Spans \cup {None}
    /\ cursor \in Parents
    /\ anchor \in [Spans -> Spans \cup {None}]

Init ==
    /\ parent \in [Spans -> Parents]
    /\ event \in SUBSET Spans
    /\ pc = "build"
    /\ reachable = {}
    /\ frontier = {}
    /\ todo = {}
    /\ current = None
    /\ cursor = None
    /\ anchor = [s \in Spans |-> None]

Roots       == {s \in Spans : parent[s] = None}
Root        == CHOOSE s \in Spans : parent[s] = None
Children(p) == {s \in Spans : parent[s] = p}

(* Exactly one root, and no span whose parent is not in the trace.         *)
Rooted == Cardinality(Roots) = 1 /\ \A s \in Spans : parent[s] # Outside

BuildTree ==
    /\ pc = "build"
    /\ Rooted
    /\ pc' = "reach"
    /\ reachable' = {Root}
    /\ frontier' = {Root}
    /\ UNCHANGED <<input, todo, current, cursor, anchor>>

(* One turn of the walk down.  Nothing stops it from visiting a span       *)
(* twice: it is the shape of the input that does.                          *)
Visit(p) ==
    /\ pc = "reach"
    /\ p \in frontier
    /\ reachable' = reachable \cup Children(p)
    /\ frontier' = (frontier \ {p}) \cup Children(p)
    /\ UNCHANGED <<input, pc, todo, current, cursor, anchor>>

(* Mutant of AllReached: the reached spans are not compared.               *)
NothingLeft == frontier = {}

AllReached == frontier = {} /\ reachable = Spans

LeaveWalk ==
    /\ pc = "reach"
    /\ AllReached
    /\ pc' = "scope"
    /\ UNCHANGED <<input, walk, todo, current, cursor, anchor>>

(* _session_scope and _events_of: the root is no event, some span is one.  *)
Scoped == Root \notin event /\ event # {}

ReadScope ==
    /\ pc = "scope"
    /\ Scoped
    /\ pc' = "attribute"
    /\ todo' = Spans \ (event \cup {Root})
    /\ UNCHANGED <<input, walk, current, cursor, anchor>>

Unfit ==
    \/ pc = "build" /\ ~ Rooted
    \/ pc = "reach" /\ frontier = {} /\ ~ AllReached
    \/ pc = "scope" /\ ~ Scoped

Refuse ==
    /\ Unfit
    /\ pc' = "refused"
    /\ UNCHANGED <<input, walk, todo, current, cursor, anchor>>

-----------------------------------------------------------------------------
(* _nearest_event_ancestor starts at the parent of the span ...            *)
StartClimb(s) ==
    /\ pc = "attribute"
    /\ s \in todo
    /\ pc' = "climb"
    /\ todo' = todo \ {s}
    /\ current' = s
    /\ cursor' = parent[s]
    /\ UNCHANGED <<input, walk, anchor>>

(* Mutants of Anchors: one of the two ways to stop is left out.            *)
RootAnchors(s)  == s = Root
EventAnchors(s) == s \in event

Anchors(s) == s \in event \/ s = Root

(* ... climbs as long as it meets enrichment spans ...                     *)
Climb ==
    /\ pc = "climb"
    /\ cursor \in Spans
    /\ ~ Anchors(cursor)
    /\ cursor' = parent[cursor]
    /\ UNCHANGED <<input, pc, walk, todo, current, anchor>>

(* ... and attributes the span to the first event, or to the session.      *)
Attribute ==
    /\ pc = "climb"
    /\ cursor \in Spans
    /\ Anchors(cursor)
    /\ anchor' = [anchor EXCEPT ![current] = cursor]
    /\ pc' = "attribute"
    /\ current' = None
    /\ cursor' = None
    /\ UNCHANGED <<input, walk, todo>>

FinishIndex ==
    /\ pc = "attribute"
    /\ todo = {}
    /\ pc' = "done"
    /\ UNCHANGED <<input, walk, todo, current, cursor, anchor>>

Next ==
    \/ BuildTree \/ LeaveWalk \/ ReadScope \/ Refuse
    \/ (\E p \in Spans : Visit(p))
    \/ (\E s \in Spans : StartClimb(s))
    \/ Climb \/ Attribute \/ FinishIndex

Spec == Init /\ [][Next]_vars

(* One thread, which waits for nobody.                                     *)
FairSpec == Spec /\ WF_vars(Next)

-----------------------------------------------------------------------------
(* A parent function is a tree: one root, nothing hangs outside, and no    *)
(* set of spans has all its parents within itself.                         *)
IsTree ==
    /\ Cardinality(Roots) = 1
    /\ \A s \in Spans : parent[s] # Outside
    /\ \A S \in (SUBSET Spans) \ {{}} : \E s \in S : parent[s] \notin S

(* The spans above s under the parent function p: in every set that holds  *)
(* its parent and is closed under taking parents.                          *)
AboveIn(p, s) ==
    {a \in Spans : \A S \in SUBSET Parents :
        (p[s] \in S /\ \A x \in S \cap Spans : p[x] \in S) => a \in S}

Above(s) == AboveIn(parent, s)

Enrichments == Spans \ (event \cup {Root})

(* No event stands between s and b.                                        *)
NoneBetween(s, b) == \A a \in Above(s) \cap event : a = b \/ a \in Above(b)

(* The anchor of s is an event or the root, above it and the nearest.      *)
Attributed(s) ==
    /\ anchor[s] \in Above(s)
    /\ anchor[s] \in event \cup {Root}
    /\ NoneBetween(s, anchor[s])

(* build_span_trees accepts a trace exactly if its spans form a tree: no   *)
(* orphan and no parent cycle gets through, and no tree is turned away     *)
(* (but for one whose root is an event, or without any event).             *)
AcceptsTrees ==
    /\ pc \in {"scope", "attribute", "climb", "done"} => IsTree
    /\ pc = "refused" => ~ (IsTree /\ Scoped)

(* Every enrichment span is attributed to the nearest of the spans above   *)
(* it that are events or the root, so an event's evidence holds neither    *)
(* another event's spans nor the session's.                                *)
NearestAnchor ==
    pc = "done" => \A s \in Enrichments : Attributed(s)

(* The branch of _nearest_event_ancestor that the code marks `no cover`:   *)
(* the walk up never leaves the trace.                                     *)
NeverLost == pc = "climb" => cursor \in Spans

(* The walks down and up end although neither remembers where it has been. *)
Terminates == <>(pc \in {"done", "refused"})

-----------------------------------------------------------------------------
(* The inductive strengthening.  A set closed under taking parents is      *)
(* never entered by the walk from the root, and what the walk has left     *)
(* behind it has all its children reached.                                 *)
Closed(S) == \A s \in S : parent[s] \in S

ReachOK ==
    pc \notin {"build", "refused"} =>
        /\ Rooted
        /\ Root \in reachable
        /\ frontier \subseteq reachable
        /\ \A s \in Spans : parent[s] \in reachable \ frontier => s \in reachable
        /\ \A S \in SUBSET Spans : Closed(S) => reachable \cap S = {}

ScopeOK ==
    /\ pc \in {"scope", "attribute", "climb", "done"} => reachable = Spans
    /\ pc \in {"attribute", "climb", "done"} => Scoped

(* The cursor is above the span it started from, and has passed no event.  *)
ClimbOK ==
    pc = "climb" =>
        /\ current \in Enrichments
        /\ cursor \in Above(current)
        /\ NoneBetween(current, cursor)

(* Every span that is no longer on the list has its anchor.                *)
IndexOK ==
    /\ pc \in {"attribute", "climb", "done"} =>
           \A s \in Enrichments : s \in todo \/ s = current \/ Attributed(s)
    /\ pc \in {"attribute", "climb"} => todo \subseteq Enrichments
    /\ pc # "climb" => current = None
    /\ pc = "done" => todo = {}

TreeInv == TypeOK /\ ReachOK /\ ScopeOK /\ ClimbOK /\ IndexOK /\ AcceptsTrees

=============================================================================
