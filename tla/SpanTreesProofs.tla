--------------------------- MODULE SpanTreesProofs ---------------------------
(***************************************************************************)
(* Theorems about SpanTrees, for any finite set of spans and any parents:  *)
(* the reader accepts trees and nothing else, the walk up from a span      *)
(* never leaves the trace, and it ends at the nearest event or the root.   *)
(***************************************************************************)
EXTENDS SpanTrees, FiniteSetTheorems, TLAPS

(* The parent of a span is above it.                                       *)
LEMMA AboveParent ==
    ASSUME NEW p \in [Spans -> Parents], NEW s \in Spans, p[s] \in Spans
    PROVE  p[s] \in AboveIn(p, s)
  BY DEF AboveIn

(* Whatever is above s has its parent above s.                             *)
LEMMA AboveStep ==
    ASSUME NEW p \in [Spans -> Parents], NEW s \in Spans,
           NEW a \in AboveIn(p, s), p[a] \in Spans
    PROVE  p[a] \in AboveIn(p, s)
  BY DEF AboveIn

(* What is above s is its parent, or above its parent.                     *)
LEMMA AboveSplit ==
    ASSUME NEW p \in [Spans -> Parents], NEW s \in Spans, p[s] \in Spans,
           NEW a \in AboveIn(p, s)
    PROVE  a = p[s] \/ a \in AboveIn(p, p[s])
<1> DEFINE T == {p[s]} \cup AboveIn(p, p[s]) \cup (Parents \ Spans)
<1>1. T \in SUBSET Parents
  BY DEF AboveIn, Parents
<1>2. ASSUME NEW x \in T \cap Spans PROVE p[x] \in T
  <2>1. CASE p[x] \notin Spans
    BY <1>2, <2>1
  <2>2. CASE p[x] \in Spans /\ x = p[s]
    BY <2>2, AboveParent
  <2>3. CASE p[x] \in Spans /\ x \in AboveIn(p, p[s])
    BY <2>3, AboveStep
  <2> QED
    BY <1>2, <2>1, <2>2, <2>3
<1>3. a \in T
  BY <1>1, <1>2 DEF AboveIn
<1>4. a \in Spans
  BY DEF AboveIn
<1> QED
  BY <1>3, <1>4

-----------------------------------------------------------------------------
(* A trace with one root has its Root.                                     *)
LEMMA RootIsOne ==
    ASSUME TypeOK, Cardinality(Roots) = 1
    PROVE  /\ Root \in Spans /\ parent[Root] = None
           /\ \A s \in Spans : parent[s] = None => s = Root
<1>1. IsFiniteSet(Roots)
  <2>1. Roots \subseteq Spans
    BY DEF Roots
  <2> QED
    BY <2>1, FS_Subset, SpansAssumption
<1>2. PICK r : Roots = {r}
  BY <1>1, FS_Singleton
<1>3. r \in Spans /\ parent[r] = None
  BY <1>2 DEF Roots
<1>4. Root \in Spans /\ parent[Root] = None
  BY <1>3 DEF Root
<1>5. \A s \in Spans : parent[s] = None => s = r
  BY <1>2 DEF Roots
<1> QED
  BY <1>4, <1>5

(* Below the root every span of a rooted trace has its parent in the trace.*)
LEMMA ParentInside ==
    ASSUME TypeOK, Rooted, NEW s \in Spans, s # Root
    PROVE  parent[s] \in Spans
  BY RootIsOne DEF TypeOK, Rooted, Parents

(* The input is never written.                                             *)
LEMMA InputKept ==
    ASSUME UNCHANGED input
    PROVE  /\ Roots' = Roots /\ Root' = Root
           /\ Rooted' <=> Rooted
           /\ Scoped' <=> Scoped
           /\ IsTree' <=> IsTree
           /\ Enrichments' = Enrichments
           /\ \A s : Children(s)' = Children(s)
           /\ \A S : Closed(S)' <=> Closed(S)
           /\ \A s : Above(s)' = Above(s)
  BY DEF input, Roots, Root, Rooted, Scoped, IsTree, Enrichments, Children, Closed, Above

(* A rooted trace is a tree exactly if no set of spans is closed under     *)
(* taking parents.                                                         *)
LEMMA TreeIsRootedOpen ==
    ASSUME TypeOK
    PROVE  IsTree <=> Rooted /\ \A S \in SUBSET Spans : Closed(S) => S = {}
  BY DEF IsTree, Rooted, Closed

-----------------------------------------------------------------------------
LEMMA TreeInit == Init => TreeInv
  BY DEF Init, TreeInv, TypeOK, ReachOK, ScopeOK, ClimbOK, IndexOK, AcceptsTrees, Parents

LEMMA TypeStep == TypeOK /\ [Next]_vars => TypeOK'
<1> SUFFICES ASSUME TypeOK, [Next]_vars PROVE TypeOK'
  OBVIOUS
<1> USE DEF TypeOK
<1>1. CASE BuildTree
  BY <1>1, RootIsOne DEF BuildTree, Rooted, input
<1>2. ASSUME NEW p \in Spans, Visit(p) PROVE TypeOK'
  BY <1>2 DEF Visit, Children, input
<1>3. CASE LeaveWalk \/ Refuse \/ FinishIndex
  BY <1>3 DEF LeaveWalk, Refuse, FinishIndex, input, walk
<1>4. CASE ReadScope
  BY <1>4 DEF ReadScope, input, walk
<1>5. ASSUME NEW s \in Spans, StartClimb(s) PROVE TypeOK'
  BY <1>5 DEF StartClimb, input, walk
<1>6. CASE Climb
  BY <1>6 DEF Climb, input, walk
<1>7. CASE Attribute
  BY <1>7 DEF Attribute, input, walk, Parents
<1>8. CASE UNCHANGED vars
  BY <1>8 DEF vars, input, walk
<1> QED
  BY <1>1, <1>2, <1>3, <1>4, <1>5, <1>6, <1>7, <1>8 DEF Next

-----------------------------------------------------------------------------
(* The walk down: it never enters a set that is closed under taking        *)
(* parents, and leaves no child of a visited span behind.                  *)
LEMMA BuildReaches ==
    ASSUME TypeOK, BuildTree
    PROVE  ReachOK'
<1>1. Root \in Spans /\ parent[Root] = None /\ UNCHANGED input /\ Rooted
  BY RootIsOne DEF BuildTree, Rooted
<1>2. Rooted' /\ Root' = Root
  BY <1>1, InputKept
<1>3. reachable' = {Root} /\ frontier' = {Root} /\ parent' = parent
  BY DEF BuildTree, input
<1>4. \A S \in SUBSET Spans : Closed(S)' => reachable' \cap S = {}
  BY <1>1, <1>3, SpansAssumption DEF Closed
<1> QED
  BY <1>2, <1>3, <1>4 DEF ReachOK

LEMMA VisitReaches ==
    ASSUME TypeOK, ReachOK, NEW p \in Spans, Visit(p)
    PROVE  ReachOK'
<1>1. /\ UNCHANGED input /\ parent' = parent /\ pc' = "reach" /\ pc = "reach"
      /\ p \in frontier
      /\ reachable' = reachable \cup Children(p)
      /\ frontier' = (frontier \ {p}) \cup Children(p)
  BY DEF Visit, input
<1>2. Rooted' /\ Root' \in reachable' /\ frontier' \subseteq reachable'
  BY <1>1, InputKept DEF ReachOK
<1>3. \A s \in Spans : parent'[s] \in reachable' \ frontier' => s \in reachable'
  BY <1>1 DEF ReachOK, Children
<1>4. ASSUME NEW S \in SUBSET Spans, Closed(S)'
      PROVE  reachable' \cap S = {}
  <2>1. Closed(S)
    BY <1>1, <1>4, InputKept
  <2>2. p \in reachable /\ reachable \cap S = {}
    BY <1>1, <2>1 DEF ReachOK
  <2>3. \A c \in Children(p) : c \notin S
    BY <2>1, <2>2 DEF Children, Closed
  <2> QED
    BY <1>1, <2>2, <2>3
<1> QED
  BY <1>2, <1>3, <1>4 DEF ReachOK

(* A walk that reached every span has shown that the trace is a tree, and  *)
(* one that left spans out that it is not: they are closed under taking    *)
(* parents.                                                                *)
LEMMA ReachedIsTree ==
    ASSUME TypeOK, ReachOK, pc = "reach", AllReached
    PROVE  IsTree
<1>1. Rooted /\ \A S \in SUBSET Spans : Closed(S) => S = {}
  BY DEF ReachOK, AllReached
<1> QED
  BY <1>1, TreeIsRootedOpen

LEMMA UnreachedIsNoTree ==
    ASSUME TypeOK, ReachOK, pc = "reach", frontier = {}, ~ AllReached
    PROVE  ~ IsTree
<1> DEFINE S == Spans \ reachable
<1>1. S \in SUBSET Spans /\ S # {}
  BY DEF TypeOK, AllReached
<1>2. Closed(S)
  <2>1. SUFFICES ASSUME NEW s \in S PROVE parent[s] \in S
    BY DEF Closed
  <2>2. s # Root /\ Rooted
    BY DEF ReachOK
  <2>3. parent[s] \in Spans
    BY <2>2, ParentInside
  <2> QED
    BY <2>3 DEF ReachOK
<1> QED
  BY <1>1, <1>2, TreeIsRootedOpen

-----------------------------------------------------------------------------
(* Steps that neither walk down nor change what is attributed.             *)
LEMMA ReachKept ==
    ASSUME ReachOK, UNCHANGED <<input, walk>>, pc \notin {"build", "refused"}
    PROVE  ReachOK'
  BY InputKept DEF ReachOK, walk, input

(* The span a climb starts from is an enrichment, so its parent is inside. *)
LEMMA StartClimbs ==
    ASSUME TypeOK, ReachOK, IndexOK, NEW s \in Spans, StartClimb(s)
    PROVE  ClimbOK'
<1>1. /\ s \in Enrichments /\ Rooted /\ s # Root /\ UNCHANGED input
      /\ pc' = "climb" /\ current' = s /\ cursor' = parent[s]
  BY DEF StartClimb, IndexOK, ReachOK, Enrichments
<1>2. parent \in [Spans -> Parents] /\ parent[s] \in Spans
  BY <1>1, ParentInside DEF TypeOK
<1>3. parent[s] \in Above(s)
  BY <1>2, AboveParent DEF Above
<1>4. \A a \in Above(s) \cap event : a = parent[s] \/ a \in Above(parent[s])
  BY <1>2, AboveSplit DEF Above
<1>5. Enrichments' = Enrichments /\ parent' = parent /\ event' = event
  BY <1>1, InputKept DEF input
<1> QED
  BY <1>1, <1>3, <1>4, <1>5 DEF ClimbOK, NoneBetween, Above

(* A climb passes enrichment spans only, and the root is not one of them.  *)
LEMMA ClimbClimbs ==
    ASSUME TypeOK, ReachOK, ClimbOK, Climb
    PROVE  ClimbOK'
<1>1. /\ Rooted /\ UNCHANGED input /\ cursor \in Spans /\ ~ Anchors(cursor)
      /\ pc = "climb" /\ pc' = "climb" /\ current' = current /\ cursor' = parent[cursor]
  BY DEF Climb, ReachOK
<1>2. /\ current \in Enrichments /\ current \in Spans
      /\ cursor \in Above(current)
      /\ \A a \in Above(current) \cap event : a = cursor \/ a \in Above(cursor)
  BY <1>1 DEF ClimbOK, NoneBetween, Enrichments
<1>3. parent \in [Spans -> Parents] /\ parent[cursor] \in Spans
  BY <1>1, ParentInside DEF TypeOK, Anchors
<1>4. parent[cursor] \in Above(current)
  BY <1>2, <1>3, AboveStep DEF Above
<1>5. \A a \in Above(current) \cap event : a = parent[cursor] \/ a \in Above(parent[cursor])
  <2>1. SUFFICES ASSUME NEW a \in Above(current) \cap event
                 PROVE  a = parent[cursor] \/ a \in Above(parent[cursor])
    OBVIOUS
  <2>2. a # cursor
    BY <1>1 DEF Anchors
  <2>3. a \in AboveIn(parent, cursor)
    BY <1>2, <2>2 DEF Above
  <2> QED
    BY <1>1, <1>3, <2>3, AboveSplit DEF Above
<1>6. Enrichments' = Enrichments /\ parent' = parent /\ event' = event
  BY <1>1, InputKept DEF input
<1> QED
  BY <1>1, <1>2, <1>4, <1>5, <1>6 DEF ClimbOK, NoneBetween, Above

(* A climb that has ended at an anchor has attributed its span.            *)
LEMMA AttributeAttributes ==
    ASSUME TypeOK, ClimbOK, IndexOK, Attribute
    PROVE  IndexOK'
<1>1. /\ UNCHANGED input /\ cursor \in Spans /\ Anchors(cursor)
      /\ pc = "climb" /\ pc' = "attribute" /\ current' = None /\ todo' = todo
      /\ anchor' = [anchor EXCEPT ![current] = cursor]
  BY DEF Attribute
<1>2. current \in Enrichments /\ cursor \in Above(current) /\ NoneBetween(current, cursor)
  BY <1>1 DEF ClimbOK
<1>3. Enrichments' = Enrichments /\ parent' = parent /\ event' = event /\ Root' = Root
  BY <1>1, InputKept DEF input
<1>4. anchor'[current] = cursor /\ \A s \in Spans : s # current => anchor'[s] = anchor[s]
  BY <1>1, <1>2 DEF TypeOK, Enrichments
<1>5. ASSUME NEW s \in Enrichments, s \notin todo PROVE Attributed(s)'
  <2>1. CASE s = current
    BY <1>1, <1>2, <1>3, <1>4, <2>1 DEF Attributed, NoneBetween, Above, Anchors
  <2>2. CASE s # current
    <3>1. Attributed(s) /\ s \in Spans
      BY <1>1, <1>5, <2>2 DEF IndexOK, Enrichments
    <3> QED
      BY <1>3, <1>4, <2>2, <3>1 DEF Attributed, NoneBetween, Above
  <2> QED
    BY <2>1, <2>2
<1> QED
  BY <1>1, <1>3, <1>5 DEF IndexOK

(* Whatever is attributed stays so while anchors and input stand still.    *)
LEMMA IndexKept ==
    ASSUME UNCHANGED <<input, anchor>>
    PROVE  \A s : Attributed(s)' <=> Attributed(s)
  BY DEF input, Attributed, NoneBetween, Above, Root

-----------------------------------------------------------------------------
LEMMA TreeStep == TreeInv /\ [Next]_vars => TreeInv'
<1> SUFFICES ASSUME TreeInv, [Next]_vars
             PROVE  ReachOK' /\ ScopeOK' /\ ClimbOK' /\ IndexOK' /\ AcceptsTrees'
  BY TypeStep DEF TreeInv
<1> USE DEF TreeInv
<1>1. CASE BuildTree
  <2>1. ReachOK'
    BY <1>1, BuildReaches
  <2> QED
    BY <1>1, <2>1 DEF BuildTree, ScopeOK, ClimbOK, IndexOK, AcceptsTrees
<1>2. ASSUME NEW p \in Spans, Visit(p)
      PROVE  ReachOK' /\ ScopeOK' /\ ClimbOK' /\ IndexOK' /\ AcceptsTrees'
  <2>1. ReachOK'
    BY <1>2, VisitReaches
  <2> QED
    BY <1>2, <2>1 DEF Visit, ScopeOK, ClimbOK, IndexOK, AcceptsTrees
<1>3. CASE LeaveWalk
  <2>1. ReachOK'
    BY <1>3, ReachKept DEF LeaveWalk
  <2>2. AcceptsTrees'
    BY <1>3, ReachedIsTree, InputKept DEF LeaveWalk, AcceptsTrees
  <2> QED
    BY <1>3, <2>1, <2>2 DEF LeaveWalk, AllReached, walk, ScopeOK, ClimbOK, IndexOK
<1>4. CASE ReadScope
  <2>1. ReachOK' /\ AcceptsTrees'
    BY <1>4, ReachKept, InputKept DEF ReadScope, AcceptsTrees
  <2>2. ScopeOK' /\ ClimbOK'
    BY <1>4, InputKept DEF ReadScope, ScopeOK, ClimbOK, walk
  <2>3. Enrichments' = Enrichments /\ todo' = Enrichments
    BY <1>4, InputKept DEF ReadScope, Enrichments
  <2>4. current' = None
    BY <1>4 DEF ReadScope, IndexOK
  <2> QED
    BY <1>4, <2>1, <2>2, <2>3, <2>4 DEF ReadScope, IndexOK
<1>5. CASE Refuse
  <2>1. ~ (IsTree /\ Scoped)
    <3>1. CASE pc = "build" /\ ~ Rooted
      BY <3>1, TreeIsRootedOpen
    <3>2. CASE pc = "reach" /\ frontier = {} /\ ~ AllReached
      BY <3>2, UnreachedIsNoTree
    <3>3. CASE pc = "scope" /\ ~ Scoped
      BY <3>3
    <3> QED
      BY <1>5, <3>1, <3>2, <3>3 DEF Refuse, Unfit
  <2>2. AcceptsTrees'
    BY <1>5, <2>1, InputKept DEF Refuse, AcceptsTrees
  <2> QED
    BY <1>5, <2>2 DEF Refuse, Unfit, ReachOK, ScopeOK, ClimbOK, IndexOK
<1>6. ASSUME NEW s \in Spans, StartClimb(s)
      PROVE  ReachOK' /\ ScopeOK' /\ ClimbOK' /\ IndexOK' /\ AcceptsTrees'
  <2>1. ReachOK' /\ ScopeOK' /\ AcceptsTrees'
    BY <1>6, ReachKept, InputKept DEF StartClimb, walk, ScopeOK, AcceptsTrees
  <2>2. ClimbOK'
    BY <1>6, StartClimbs
  <2>3. IndexOK'
    <3>1. \A x \in Enrichments : x # None
      BY SpansAssumption DEF Enrichments
    <3> QED
      BY <1>6, <3>1, InputKept, IndexKept DEF StartClimb, IndexOK
  <2> QED
    BY <2>1, <2>2, <2>3
<1>7. CASE Climb
  <2>1. ReachOK' /\ ScopeOK' /\ AcceptsTrees'
    BY <1>7, ReachKept, InputKept DEF Climb, walk, ScopeOK, AcceptsTrees
  <2>2. ClimbOK'
    BY <1>7, ClimbClimbs
  <2>3. IndexOK'
    BY <1>7, InputKept, IndexKept DEF Climb, IndexOK
  <2> QED
    BY <2>1, <2>2, <2>3
<1>8. CASE Attribute
  <2>1. ReachOK' /\ ScopeOK' /\ AcceptsTrees'
    BY <1>8, ReachKept, InputKept DEF Attribute, walk, ScopeOK, AcceptsTrees
  <2>2. ClimbOK'
    BY <1>8 DEF Attribute, ClimbOK
  <2>3. IndexOK'
    BY <1>8, AttributeAttributes
  <2> QED
    BY <2>1, <2>2, <2>3
<1>9. CASE FinishIndex
  <2>1. ReachOK' /\ ScopeOK' /\ AcceptsTrees'
    BY <1>9, ReachKept, InputKept DEF FinishIndex, walk, ScopeOK, AcceptsTrees
  <2>2. ClimbOK' /\ IndexOK'
    BY <1>9, InputKept, IndexKept DEF FinishIndex, ClimbOK, IndexOK
  <2> QED
    BY <2>1, <2>2
<1>10. CASE UNCHANGED vars
  <2>1. ReachOK' /\ ScopeOK' /\ AcceptsTrees'
    BY <1>10, InputKept DEF vars, walk, input, ReachOK, ScopeOK, AcceptsTrees
  <2>2. ClimbOK'
    BY <1>10 DEF vars, input, ClimbOK, Enrichments, Root, NoneBetween, Above
  <2>3. IndexOK'
    BY <1>10, InputKept, IndexKept DEF vars, IndexOK
  <2> QED
    BY <2>1, <2>2, <2>3
<1> QED
  BY <1>1, <1>2, <1>3, <1>4, <1>5, <1>6, <1>7, <1>8, <1>9, <1>10 DEF Next

(* The reader builds a tree out of exactly the traces that are one,        *)
(* whatever the number of spans.                                           *)
THEOREM TreesOnly == Spec => []AcceptsTrees
<1>1. TreeInv => AcceptsTrees
  BY DEF TreeInv
<1> QED
  BY TreeInit, TreeStep, <1>1, PTL DEF Spec

(* Every enrichment span ends up with the nearest event above it, or with  *)
(* the session.                                                            *)
THEOREM Nearest == Spec => []NearestAnchor
<1>1. TreeInv => NearestAnchor
  BY SpansAssumption DEF TreeInv, IndexOK, NearestAnchor, Enrichments
<1> QED
  BY TreeInit, TreeStep, <1>1, PTL DEF Spec

(* The walk up meets an event or the root before it runs out of parents.   *)
THEOREM WalkStaysInside == Spec => []NeverLost
<1>1. TreeInv => NeverLost
  BY DEF TreeInv, ClimbOK, NeverLost, Above, AboveIn
<1> QED
  BY TreeInit, TreeStep, <1>1, PTL DEF Spec

=============================================================================
