----------------------------- MODULE MapperProofs -----------------------------
(***************************************************************************)
(* Theorems about Mapper, for any run and any order of its traces: what is *)
(* accepted, and as which log, depends on the run alone, and the log's     *)
(* constructors, which reject a part by itself or the schema's tables,     *)
(* never have to reject how the parts hang together.                       *)
(***************************************************************************)
EXTENDS Mapper, TLAPS

(* The events of a trace are typed.                                        *)
LEMMA ContentTyped ==
    ASSUME content \in [Traces -> Contents], NEW t \in Traces
    PROVE  content[t].events \subseteq Events
<1>1. content[t] \in [session : Sessions, events : SUBSET Events]
  BY TraceAssumption
<1> QED
  BY <1>1

LEMMA EventTyped ==
    ASSUME NEW e \in Events
    PROVE  e.seq \in Nat /\ e.refs \subseteq Refs
  BY DEF Events

(* The input is never written.                                             *)
LEMMA ContentKept ==
    ASSUME UNCHANGED content
    PROVE  /\ \A t : DeclaredIn(t)' = DeclaredIn(t)
           /\ \A t : NamedIn(t)' = NamedIn(t)
           /\ \A t : Readable(t)' <=> Readable(t)
           /\ \A t : DistinctIds(t)' <=> DistinctIds(t)
           /\ \A t : Unfit(t)' = Unfit(t)
           /\ \A s, t : Apart(s, t)' <=> Apart(s, t)
           /\ RunLog' = RunLog
           /\ Acceptable' <=> Acceptable
  BY DEF DeclaredIn, NamedIn, RefsOf, Readable, DistinctIds, Unfit, Fit, Apart, RunLog, RunEvents,
         RunDeclares, Acceptable, PartsFit, ObjectsFit, Coherent, Complete

-----------------------------------------------------------------------------
LEMMA MapperInit == Init => MapperInv
  BY DEF Init, MapperInv, GatheredOK, CoherentSoFar, OrderFree, StructureHolds, Mapped, Agree

(* A trace without clashing events has distinct ids, and shares none with  *)
(* the traces mapped before.                                               *)
LEMMA Fresh ==
    ASSUME MapperInv, NEW t \in Traces, Clashing(t) = {}
    PROVE  /\ DistinctIds(t)
           /\ \A e \in content[t].events : e.id \notin eventIds
<1>1. content[t].events \subseteq Events
  BY ContentTyped DEF MapperInv
<1>2. \A e \in content[t].events : e.id \notin eventIds
  BY DEF Clashing
<1>3. ASSUME NEW e \in content[t].events, NEW f \in content[t].events, e.id = f.id, e # f
      PROVE  FALSE
  <2>1. e.seq \in Nat /\ f.seq \in Nat
    BY <1>1, EventTyped
  <2>2. f.seq <= e.seq \/ e.seq <= f.seq
    BY <2>1
  <2> QED
    BY <1>3, <2>2 DEF Clashing
<1> QED
  BY <1>2, <1>3 DEF DistinctIds

(* Mapping one more trace keeps the account of what has been gathered, ... *)
LEMMA MapGathers ==
    ASSUME MapperInv, NEW t \in Traces, MapTrace(t)
    PROVE  GatheredOK'
<1>1. /\ UNCHANGED content /\ t \in todo /\ todo' = todo \ {t} /\ todo \subseteq Traces
  BY DEF MapTrace, MapperInv
<1>2. Mapped' = Mapped \cup {t}
  BY <1>1 DEF Mapped
<1>3. declarations' = UNION {DeclaredIn(u) : u \in Mapped'}
  BY <1>2 DEF MapTrace, MapperInv, GatheredOK
<1>4. referenced' = UNION {NamedIn(u) : u \in Mapped'}
  BY <1>2 DEF MapTrace, MapperInv, GatheredOK
<1>5. sessions' = {content[u].session : u \in Mapped'}
  BY <1>2 DEF MapTrace, MapperInv, GatheredOK
<1>6. eventIds' = {e.id : e \in UNION {content[u].events : u \in Mapped'}}
  BY <1>2 DEF MapTrace, MapperInv, GatheredOK
<1>7. events' = {LogEvent(e) : e \in UNION {content[u].events : u \in Mapped'}}
  BY <1>2 DEF MapTrace, MapperInv, GatheredOK
<1>8. o2o' = UNION {e.o2o : e \in UNION {content[u].events : u \in Mapped'}}
  BY <1>2 DEF MapTrace, MapperInv, GatheredOK
<1>9. content' = content /\ \A u : DeclaredIn(u)' = DeclaredIn(u) /\ NamedIn(u)' = NamedIn(u)
  BY <1>1, ContentKept
<1> QED
  BY <1>3, <1>4, <1>5, <1>6, <1>7, <1>8, <1>9 DEF GatheredOK

(* ... and leaves the traces mapped coherent.                              *)
LEMMA MapCoheres ==
    ASSUME MapperInv, NEW t \in Traces, MapTrace(t)
    PROVE  CoherentSoFar'
<1>1. /\ UNCHANGED content /\ t \in todo /\ todo' = todo \ {t} /\ todo \subseteq Traces
      /\ Clashing(t) = {} /\ Unfit(t) = {} /\ Mergeable(t)
      /\ declarations' = declarations \cup DeclaredIn(t)
  BY DEF MapTrace, MapperInv
<1>2. Mapped' = Mapped \cup {t}
  BY <1>1 DEF Mapped
<1>3. Readable(t) /\ DistinctIds(t) /\ \A e \in content[t].events : e.id \notin eventIds
  BY <1>1, Fresh DEF Mergeable
<1>4. ASSUME NEW s \in Mapped PROVE Apart(s, t) /\ Apart(t, s)
  <2>1. content[s].session \in sessions
    BY DEF MapperInv, GatheredOK
  <2>2. \A e \in content[s].events : e.id \in eventIds
    BY DEF MapperInv, GatheredOK
  <2> QED
    BY <1>1, <1>3, <2>1, <2>2 DEF Mergeable, Apart
<1>5. Agree(declarations)'
  BY <1>1 DEF Mergeable, Agree
<1>6. \A u \in Mapped' : Readable(u) /\ DistinctIds(u) /\ Unfit(u) = {}
  BY <1>1, <1>2, <1>3 DEF MapperInv, CoherentSoFar
<1>7. \A s, u \in Mapped' : s # u => Apart(s, u)
  BY <1>2, <1>4 DEF MapperInv, CoherentSoFar
<1> QED
  BY <1>1, <1>5, <1>6, <1>7, ContentKept DEF CoherentSoFar

-----------------------------------------------------------------------------
(* What has been declared so far is part of what the run declares.         *)
LEMMA DeclaredInRun ==
    ASSUME MapperInv
    PROVE  declarations \subseteq RunDeclares
  BY DEF MapperInv, GatheredOK, Mapped, RunDeclares

(* A trace that cannot be merged, or reuses an event id, is part of no     *)
(* coherent run.                                                           *)
LEMMA RefusedIncoherent ==
    ASSUME MapperInv, NEW t \in todo, ~ Mergeable(t) \/ Clashing(t) # {}
    PROVE  ~ Coherent
<1>0. t \in Traces /\ t \notin Mapped
  BY DEF MapperInv, Mapped
<1>1. CASE content[t].session \in sessions
  <2>1. PICK s \in Mapped : content[s].session = content[t].session
    BY <1>1 DEF MapperInv, GatheredOK
  <2> QED
    BY <1>0, <2>1 DEF Coherent, Apart, Mapped
<1>2. CASE ~ Readable(t)
  BY <1>0, <1>2 DEF Coherent
<1>3. CASE ~ Agree(declarations \cup DeclaredIn(t))
  <2>1. declarations \cup DeclaredIn(t) \subseteq RunDeclares
    BY <1>0, DeclaredInRun DEF RunDeclares
  <2> QED
    BY <1>3, <2>1 DEF Agree, Coherent
<1>4. CASE Clashing(t) # {}
  <2>1. PICK e \in content[t].events :
            \/ e.id \in eventIds
            \/ \E f \in content[t].events : f # e /\ f.id = e.id
    BY <1>4 DEF Clashing
  <2>2. CASE e.id \in eventIds
    <3>1. PICK s \in Mapped : \E f \in content[s].events : f.id = e.id
      BY <2>2 DEF MapperInv, GatheredOK
    <3> QED
      BY <1>0, <3>1 DEF Coherent, Apart, Mapped
  <2>3. CASE \E f \in content[t].events : f # e /\ f.id = e.id
    BY <1>0, <2>3 DEF Coherent, DistinctIds
  <2> QED
    BY <2>1, <2>2, <2>3
<1> QED
  BY <1>1, <1>2, <1>3, <1>4 DEF Mergeable

(* Once all traces are mapped, what has been gathered is the run.          *)
LEMMA AllGathered ==
    ASSUME MapperInv, todo = {}
    PROVE  /\ Mapped = Traces
           /\ Coherent
           /\ PartsFit <=> ObjectsFit(declarations)
           /\ MergedLog = RunLog
           /\ referenced \subseteq DeclaredObjects <=> Complete
<1>1. Mapped = Traces
  BY DEF Mapped
<1>2. declarations = RunDeclares
  BY <1>1 DEF MapperInv, GatheredOK, RunDeclares
<1>3. Coherent /\ (PartsFit <=> ObjectsFit(declarations))
  BY <1>1, <1>2 DEF MapperInv, CoherentSoFar, Coherent, PartsFit
<1>4. MergedLog = RunLog
  BY <1>1, <1>2 DEF MapperInv, GatheredOK, MergedLog, RunLog, RunEvents
<1>5. referenced \subseteq DeclaredObjects <=> Complete
  BY <1>1, <1>2 DEF MapperInv, GatheredOK, DeclaredObjects, Complete
<1> QED
  BY <1>1, <1>3, <1>4, <1>5

(* Every event of the log comes from an event of a mapped trace.           *)
LEMMA EventSource ==
    ASSUME MapperInv, NEW e \in events
    PROVE  \E t \in Mapped : \E g \in content[t].events :
               /\ e = LogEvent(g) /\ g.id = e.id /\ e.relations = Relation(g)
               /\ ValidEvent(g) /\ g.refs # {}
<1>1. PICK t \in Mapped : \E g \in content[t].events : e = LogEvent(g)
  BY DEF MapperInv, GatheredOK
<1>2. PICK g \in content[t].events : e = LogEvent(g)
  BY <1>1
<1>3. ValidEvent(g) /\ g.refs # {}
  BY <1>1, <1>2 DEF MapperInv, CoherentSoFar, Readable, Unfit, Fit
<1> QED
  BY <1>1, <1>2, <1>3 DEF LogEvent

(* A run whose names are all declared makes a well-formed log.             *)
LEMMA MergedWellFormed ==
    ASSUME MapperInv, todo = {}, referenced \subseteq DeclaredObjects
    PROVE  WellFormed(MergedLog)
<1> DEFINE L == MergedLog
<1>0. L.events = events /\ L.objects = declarations
  BY DEF MergedLog
<1>1. ASSUME NEW e \in events, NEW f \in events, e.id = f.id
      PROVE  e = f
  <2>1. PICK s \in Mapped : \E g \in content[s].events : e = LogEvent(g) /\ g.id = e.id
    BY <1>1, EventSource
  <2>2. PICK u \in Mapped : \E h \in content[u].events : f = LogEvent(h) /\ h.id = f.id
    BY <1>1, EventSource
  <2>3. CASE s = u
    BY <1>1, <2>1, <2>2, <2>3 DEF MapperInv, CoherentSoFar, DistinctIds
  <2>4. CASE s # u
    BY <1>1, <2>1, <2>2, <2>4 DEF MapperInv, CoherentSoFar, Apart
  <2> QED
    BY <2>3, <2>4
<1>2. ASSUME NEW e \in events
      PROVE  /\ e.relations # {}
             /\ \A q, r \in e.relations : q.object = r.object => q = r
             /\ \A r \in e.relations : TypesOf(L, r.object) # {}
  <2>0. PICK t \in Mapped : \E g \in content[t].events :
            e.relations = Relation(g) /\ ValidEvent(g) /\ g.refs # {}
    BY EventSource
  <2>1. PICK g \in content[t].events :
            e.relations = Relation(g) /\ ValidEvent(g) /\ g.refs # {}
    BY <2>0
  <2>2. e.relations # {}
    BY <2>1 DEF Relation
  <2>3. \A q, r \in e.relations : q.object = r.object => q = r
    BY <2>1 DEF Relation, ValidEvent
  <2>4. ASSUME NEW r \in e.relations PROVE TypesOf(L, r.object) # {}
    <3>1. r.object \in NamedIn(t)
      BY <2>1, <2>4 DEF Relation, NamedIn, RefsOf
    <3>2. r.object \in DeclaredObjects
      BY <3>1 DEF MapperInv, GatheredOK
    <3>3. PICK d \in declarations : d.object = r.object
      BY <3>2 DEF DeclaredObjects
    <3>4. d.otype \in TypesOf(L, r.object)
      BY <1>0, <3>3 DEF TypesOf
    <3> QED
      BY <3>4
  <2> QED
    BY <2>2, <2>3, <2>4
<1>3. ASSUME NEW d \in declarations
      PROVE  \E e \in events : \E r \in e.relations : r.object = d.object
  <2>1. PICK t \in Mapped : d \in DeclaredIn(t)
    BY <1>3 DEF MapperInv, GatheredOK
  <2>2. PICK g \in content[t].events : \E ref \in g.refs : d.object = ref.object
    BY <2>1 DEF DeclaredIn, RefsOf, Meaning
  <2>3. LogEvent(g) \in events
    BY <2>2 DEF MapperInv, GatheredOK
  <2>4. \E r \in LogEvent(g).relations : r.object = d.object
    <3>1. PICK ref \in g.refs : d.object = ref.object
      BY <2>2
    <3> DEFINE r == [object    |-> ref.object,
                     qualifier |-> IF ref.qualifier = None THEN "declares" ELSE ref.qualifier]
    <3>2. r \in Relation(g)
      BY <3>1 DEF Relation
    <3>3. r.object = ref.object
      OBVIOUS
    <3>4. LogEvent(g).relations = Relation(g)
      BY DEF LogEvent
    <3> HIDE DEF r
    <3> QED
      BY <3>1, <3>2, <3>3, <3>4
  <2> QED
    BY <2>3, <2>4
<1>4. Agree(declarations)
  BY DEF MapperInv, CoherentSoFar
<1> QED
  BY <1>0, <1>1, <1>2, <1>3, <1>4 DEF WellFormed

-----------------------------------------------------------------------------
LEMMA MapperStep == MapperInv /\ [Next]_vars => MapperInv'
<1> SUFFICES ASSUME MapperInv, [Next]_vars PROVE MapperInv'
  OBVIOUS
<1>1. ASSUME NEW t \in Traces, MapTrace(t) PROVE MapperInv'
  <2>1. GatheredOK' /\ CoherentSoFar'
    BY <1>1, MapGathers, MapCoheres
  <2>2. phase' = "map" /\ UNCHANGED content /\ todo' \subseteq Traces
    BY <1>1 DEF MapTrace, MapperInv
  <2>3. (OrderFree /\ StructureHolds)'
    BY <2>2 DEF OrderFree, StructureHolds
  <2> QED
    BY <2>1, <2>2, <2>3 DEF MapperInv
<1>2. ASSUME UNCHANGED <<content, todo, merged>>,
             (phase' = "mapped" => Acceptable /\ log' = RunLog),
             (phase' \in {"refused", "rejected"} => ~ Acceptable),
             (phase' = "rejected" =>
                  \/ \E t \in todo : Unfit(t) # {}
                  \/ /\ todo = {} /\ WellFormed(MergedLog)
                     /\ ~ (ObjectsFit(declarations) /\ FitsSchema(MergedLog)))
      PROVE  MapperInv'
  <2>1. Mapped' = Mapped /\ MergedLog' = MergedLog
    BY <1>2 DEF Mapped, MergedLog, merged
  <2>2. GatheredOK' /\ CoherentSoFar'
    BY <1>2, <2>1, ContentKept DEF MapperInv, GatheredOK, CoherentSoFar, merged
  <2>3. OrderFree'
    BY <1>2, ContentKept DEF OrderFree
  <2>4. StructureHolds'
    <3>1. /\ WellFormed(MergedLog)' <=> WellFormed(MergedLog)
          /\ FitsSchema(MergedLog)' <=> FitsSchema(MergedLog)
      BY <2>1 DEF WellFormed, FitsSchema, TypesOf
    <3>2. /\ todo' = todo
          /\ ObjectsFit(declarations)' <=> ObjectsFit(declarations)
          /\ \A t : Unfit(t)' = Unfit(t)
      BY <1>2, ContentKept DEF merged, ObjectsFit
    <3> QED
      BY <1>2, <3>1, <3>2 DEF StructureHolds
  <2> QED
    BY <1>2, <2>2, <2>3, <2>4 DEF MapperInv
<1>3. ASSUME NEW t \in Traces, RefuseTrace(t) PROVE MapperInv'
  <2>1. ~ Acceptable
    BY <1>3, RefusedIncoherent DEF RefuseTrace, Acceptable
  <2> QED
    BY <1>2, <1>3, <2>1 DEF RefuseTrace
<1>4. ASSUME NEW t \in Traces, RejectTrace(t) PROVE MapperInv'
  <2>1. t \in todo /\ Unfit(t) # {}
    BY <1>4 DEF RejectTrace
  <2> QED
    BY <1>2, <1>4, <2>1 DEF RejectTrace, Acceptable, PartsFit
<1>5. CASE RefuseUndeclared
  BY <1>2, <1>5, AllGathered DEF RefuseUndeclared, Acceptable
<1>6. CASE MakeLog
  BY <1>2, <1>6, AllGathered DEF MakeLog, Acceptable
<1>7. CASE RejectLog
  BY <1>2, <1>7, AllGathered, MergedWellFormed DEF RejectLog, Acceptable
<1>8. CASE UNCHANGED vars
  BY <1>2, <1>8 DEF vars, MapperInv, OrderFree, StructureHolds
<1> QED
  BY <1>1, <1>3, <1>4, <1>5, <1>6, <1>7, <1>8 DEF Next

(* Acceptance and result of a mapping depend on the run and not on the     *)
(* order of its traces, for any number of traces with any contents.        *)
THEOREM OrderIndependent == Spec => []OrderFree
<1>1. MapperInv => OrderFree
  BY DEF MapperInv
<1> QED
  BY MapperInit, MapperStep, <1>1, PTL DEF Spec

(* A run is never rejected for a repeated event id, a dangling relation,   *)
(* an object without a relation or an event with two relations to one      *)
(* object, for any contents and any tables, charset and registry.          *)
THEOREM StructureIsSound == Spec => []StructureHolds
<1>1. MapperInv => StructureHolds
  BY DEF MapperInv
<1> QED
  BY MapperInit, MapperStep, <1>1, PTL DEF Spec

=============================================================================
