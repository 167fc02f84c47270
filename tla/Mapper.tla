------------------------------- MODULE Mapper -------------------------------
(***************************************************************************)
(* map_span_trees (ingest/mapper.py): the traces of a run are merged, one  *)
(* after another, into one object-centric log, which OCELLog.__post_init__ *)
(* (model/log.py) then checks.  Objects may be declared by several traces  *)
(* and named by others; the first declaration met is kept.                 *)
(*                                                                         *)
(* The code goes through the traces in the order of their ids, which mean  *)
(* nothing.  Here the order is any, so that what holds at the end cannot   *)
(* depend on it.                                                           *)
(***************************************************************************)
EXTENDS Integers, FiniteSets

CONSTANTS Traces,     \* the traces of the run
          Contents,   \* what a trace may hold, see TraceAssumption
          Objects, ObjectTypes, Attributes, EventTypes, EventIds, Sessions,
          Qualifiers, \* the event-to-object qualifiers a span may carry
          O2OQualifiers,
          Permitted,  \* allowed_qualifiers: <<event type, object type>> -> qualifiers
          Endpoints,  \* o2o_endpoints: qualifier -> <<object type, object type>>
          SafeIds,    \* the ids _validate_id lets through, of events and of objects
          Registered, \* <<object type, attributes>> that _validate_attrs lets through
          None

(* A reference with attributes declares its object; without a qualifier it *)
(* is a pure declaration.                                                  *)
Refs == [object : Objects, otype : ObjectTypes,
         qualifier : Qualifiers \cup {None}, attributes : Attributes \cup {None}]

O2Os == [source : Objects, target : Objects, qualifier : O2OQualifiers]

(* scope is the session an event span names; sound stands for the checks   *)
(* validate_event makes of an event's own time, actor and attributes, and  *)
(* canonical for the narrower ones OCELEvent makes of time and attributes: *)
(* one spelling, in whole seconds of UTC, and no attribute the registry of *)
(* the event's type does not know.                                         *)
Events == [id : EventIds, type : EventTypes, seq : Nat, scope : Sessions,
           refs : SUBSET Refs, o2o : SUBSET O2Os, sound : BOOLEAN, canonical : BOOLEAN]

ASSUME TraceAssumption ==
    Contents \subseteq [session : Sessions, events : SUBSET Events]
ASSUME NoneAssumption == None \notin Qualifiers \cup Attributes

VARIABLES
    content,      \* the trace trees
    todo,         \* the traces not yet mapped
    phase,
    declarations, \* what the objects declared so far are
    eventIds,     \* seen_event_ids
    sessions,     \* seen_sessions
    referenced,   \* referenced_by_trace
    events, o2o,  \* the parts of the log
    log

merged == <<declarations, eventIds, sessions, referenced, events, o2o>>
vars   == <<content, todo, phase, merged, log>>

Init ==
    /\ content \in [Traces -> Contents]
    /\ todo = Traces
    /\ phase = "map"
    /\ declarations = {}
    /\ eventIds = {}
    /\ sessions = {}
    /\ referenced = {}
    /\ events = {}
    /\ o2o = {}
    /\ log = None

-----------------------------------------------------------------------------
Declares(ref) == ref.attributes # None

Meaning(ref) == [object |-> ref.object, otype |-> ref.otype, attributes |-> ref.attributes]

(* The refs of a trace, its declarations and the objects it names.         *)
RefsOf(t)     == UNION {e.refs : e \in content[t].events}
DeclaredIn(t) == {Meaning(ref) : ref \in {r \in RefsOf(t) : Declares(r)}}
NamedIn(t)    == {ref.object : ref \in RefsOf(t)}

(* validate_event: an object appears once in an event, and is related to   *)
(* it or declared by it.                                                   *)
ValidEvent(e) ==
    /\ e.sound
    /\ \A q, r \in e.refs : q.object = r.object => q = r
    /\ \A r \in e.refs : r.qualifier # None \/ Declares(r)

(* _session_scope and _events_of: a trace holds the events of one session, *)
(* numbered 1..N.                                                          *)
Readable(t) ==
    LET es == content[t].events
    IN  /\ es # {}
        /\ \A e \in es : ValidEvent(e) /\ e.scope = content[t].session
        /\ {e.seq : e \in es} = 1 .. Cardinality(es)

(* One object id means one object: type and attributes.                    *)
Agree(D) == \A d, e \in D : d.object = e.object => d = e

(* The events whose id was seen before, in another trace or earlier in     *)
(* this one.                                                               *)
Clashing(t) ==
    {e \in content[t].events :
        \/ e.id \in eventIds
        \/ \E f \in content[t].events : f # e /\ f.id = e.id /\ f.seq <= e.seq}

(* What the log's OCELEvent and its OCELRelations ask of an event alone.   *)
(* The span contract asks none of it.  That no two relations of an event   *)
(* are to one object, which OCELEvent asks too, is a part of WellFormed.   *)
Fit(e) ==
    /\ e.canonical
    /\ e.id \in SafeIds
    /\ e.refs # {}
    /\ \A ref \in e.refs : ref.object \in SafeIds

Unfit(t) == {e \in content[t].events : ~ Fit(e)}

(* Mutant of Relation: only qualified references become relations.         *)
QualifiedOnly(e) ==
    {[object |-> r.object, qualifier |-> r.qualifier] : r \in {x \in e.refs : x.qualifier # None}}

(* The relations of an event: a pure declaration becomes a "declares".     *)
Relation(e) ==
    {[object    |-> r.object,
      qualifier |-> IF r.qualifier = None THEN "declares" ELSE r.qualifier] : r \in e.refs}

LogEvent(e) == [id |-> e.id, type |-> e.type, relations |-> Relation(e)]

(* Mutant of Mergeable: an object has to be declared by the time the trace *)
(* that names it is mapped.                                                *)
MergeableInOrder(t) ==
    /\ content[t].session \notin sessions
    /\ Readable(t)
    /\ Agree(declarations \cup DeclaredIn(t))
    /\ NamedIn(t) \subseteq {d.object : d \in declarations \cup DeclaredIn(t)}

(* What the loop body raises for before it builds events: a session seen   *)
(* before, events at odds with the contract, another meaning of an object. *)
Mergeable(t) ==
    /\ content[t].session \notin sessions
    /\ Readable(t)
    /\ Agree(declarations \cup DeclaredIn(t))

MapTrace(t) ==
    /\ phase = "map"
    /\ t \in todo
    /\ Mergeable(t)
    /\ Clashing(t) = {} /\ Unfit(t) = {}
    /\ todo' = todo \ {t}
    /\ declarations' = declarations \cup DeclaredIn(t)
    /\ eventIds' = eventIds \cup {e.id : e \in content[t].events}
    /\ sessions' = sessions \cup {content[t].session}
    /\ referenced' = referenced \cup NamedIn(t)
    /\ events' = events \cup {LogEvent(e) : e \in content[t].events}
    /\ o2o' = o2o \cup UNION {e.o2o : e \in content[t].events}
    /\ UNCHANGED <<content, phase, log>>

(* The first event that clashes or is unfit ends the run.                  *)
FirstBad(t, e) == \A f \in Clashing(t) \cup Unfit(t) : e.seq <= f.seq

(* IngestError, or a contract violation.                                   *)
RefuseTrace(t) ==
    /\ phase = "map"
    /\ t \in todo
    /\ ~ Mergeable(t) \/ \E e \in Clashing(t) : FirstBad(t, e)
    /\ phase' = "refused"
    /\ UNCHANGED <<content, todo, merged, log>>

(* OCELModelError, out of the constructor of a relation or an event.       *)
RejectTrace(t) ==
    /\ phase = "map"
    /\ t \in todo
    /\ Mergeable(t)
    /\ \E e \in Unfit(t) \ Clashing(t) : FirstBad(t, e)
    /\ phase' = "rejected"
    /\ UNCHANGED <<content, todo, merged, log>>

-----------------------------------------------------------------------------
DeclaredObjects == {d.object : d \in declarations}

(* An object that some trace names and no trace declares.                  *)
RefuseUndeclared ==
    /\ phase = "map"
    /\ todo = {}
    /\ ~ (referenced \subseteq DeclaredObjects)
    /\ phase' = "refused"
    /\ UNCHANGED <<content, todo, merged, log>>

(* What OCELObject asks of an object alone.                                *)
ObjectsFit(D) == \A d \in D : d.object \in SafeIds /\ <<d.otype, d.attributes>> \in Registered

TypesOf(L, x) == {d.otype : d \in {c \in L.objects : c.object = x}}

(* What OCELLog.__post_init__ demands of a log: how its events, relations  *)
(* and objects hang together, and what the tables of the schema permit.    *)
WellFormed(L) ==
    /\ \A e, f \in L.events : e.id = f.id => e = f
    /\ Agree(L.objects)
    /\ \A e \in L.events :
           /\ e.relations # {}
           /\ \A q, r \in e.relations : q.object = r.object => q = r
           /\ \A r \in e.relations : TypesOf(L, r.object) # {}
    /\ \A d \in L.objects : \E e \in L.events : \E r \in e.relations : r.object = d.object

FitsSchema(L) ==
    /\ \A e \in L.events : \A r \in e.relations : \A type \in TypesOf(L, r.object) :
           r.qualifier \in Permitted[e.type, type] \cup {"declares"}
    /\ \A edge \in L.o2o :
           /\ TypesOf(L, edge.source) = {Endpoints[edge.qualifier][1]}
           /\ TypesOf(L, edge.target) = {Endpoints[edge.qualifier][2]}

MergedLog == [events |-> events, objects |-> declarations, o2o |-> o2o]

MakeLog ==
    /\ phase = "map"
    /\ todo = {}
    /\ referenced \subseteq DeclaredObjects
    /\ ObjectsFit(declarations) /\ WellFormed(MergedLog) /\ FitsSchema(MergedLog)
    /\ phase' = "mapped"
    /\ log' = MergedLog
    /\ UNCHANGED <<content, todo, merged>>

(* OCELModelError.                                                         *)
RejectLog ==
    /\ phase = "map"
    /\ todo = {}
    /\ referenced \subseteq DeclaredObjects
    /\ ~ (ObjectsFit(declarations) /\ WellFormed(MergedLog) /\ FitsSchema(MergedLog))
    /\ phase' = "rejected"
    /\ UNCHANGED <<content, todo, merged, log>>

Next ==
    \/ \E t \in Traces : MapTrace(t)
    \/ \E t \in Traces : RefuseTrace(t)
    \/ \E t \in Traces : RejectTrace(t)
    \/ RefuseUndeclared \/ MakeLog \/ RejectLog

Spec == Init /\ [][Next]_vars

-----------------------------------------------------------------------------
(* A run as a whole, without an order: every trace readable, and no two    *)
(* traces at odds about sessions, event ids or objects.                    *)
RunEvents   == UNION {content[t].events : t \in Traces}
RunDeclares == UNION {DeclaredIn(t) : t \in Traces}

RunLog == [events  |-> {LogEvent(e) : e \in RunEvents},
           objects |-> RunDeclares,
           o2o     |-> UNION {e.o2o : e \in RunEvents}]

DistinctIds(t) == \A e, f \in content[t].events : e.id = f.id => e = f

Apart(s, t) ==
    /\ content[s].session # content[t].session
    /\ \A e \in content[s].events, f \in content[t].events : e.id # f.id

Coherent ==
    /\ \A t \in Traces : Readable(t) /\ DistinctIds(t)
    /\ \A s, t \in Traces : s # t => Apart(s, t)
    /\ Agree(RunDeclares)

Complete == UNION {NamedIn(t) : t \in Traces} \subseteq {d.object : d \in RunDeclares}

(* Every part fit for the log by itself.                                   *)
PartsFit == (\A t \in Traces : Unfit(t) = {}) /\ ObjectsFit(RunDeclares)

Acceptable == Coherent /\ Complete /\ PartsFit /\ FitsSchema(RunLog)

(* Whether a run is accepted, and the log it becomes, do not depend on the *)
(* order of its traces: not on which of two declarations comes first, nor  *)
(* on whether an object is named before or after the trace declaring it.   *)
OrderFree ==
    /\ phase = "mapped" => Acceptable /\ log = RunLog
    /\ phase \in {"refused", "rejected"} => ~ Acceptable

(* When the constructors of the log reject what the mapper let through, it *)
(* is for a part by itself (an id, a time, attributes, an event without    *)
(* relations) or for the tables of the schema, which also find an          *)
(* object-to-object edge that dangles; never for how events, relations and *)
(* objects hang together.  However declarations and references are spread  *)
(* over the traces, no event id is repeated, no relation dangles, no       *)
(* object is left without a relation (pm4py would delete it), and none has *)
(* two relations to one event (pm4py would keep the last).                 *)
StructureHolds ==
    phase = "rejected" =>
        \/ \E t \in todo : Unfit(t) # {}
        \/ /\ todo = {}
           /\ WellFormed(MergedLog)
           /\ ~ (ObjectsFit(declarations) /\ FitsSchema(MergedLog))

-----------------------------------------------------------------------------
(* The inductive strengthening: what the loop has gathered is what the     *)
(* traces done so far hold, and they are coherent among themselves.        *)
Mapped == Traces \ todo

GatheredOK ==
    /\ declarations = UNION {DeclaredIn(t) : t \in Mapped}
    /\ eventIds = {e.id : e \in UNION {content[t].events : t \in Mapped}}
    /\ sessions = {content[t].session : t \in Mapped}
    /\ referenced = UNION {NamedIn(t) : t \in Mapped}
    /\ events = {LogEvent(e) : e \in UNION {content[t].events : t \in Mapped}}
    /\ o2o = UNION {e.o2o : e \in UNION {content[t].events : t \in Mapped}}

CoherentSoFar ==
    /\ \A t \in Mapped : Readable(t) /\ DistinctIds(t) /\ Unfit(t) = {}
    /\ \A s, t \in Mapped : s # t => Apart(s, t)
    /\ Agree(declarations)

MapperInv ==
    /\ content \in [Traces -> Contents]
    /\ todo \subseteq Traces
    /\ GatheredOK
    /\ CoherentSoFar
    /\ OrderFree
    /\ StructureHolds

=============================================================================
