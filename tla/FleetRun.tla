------------------------------ MODULE FleetRun ------------------------------
(***************************************************************************)
(* One run of the agent fleet into an output directory: scenario/agents.py *)
(* (run_fleet, run_session), scenario/emit.py, scenario/clock.py and the   *)
(* buffering exporter and manifest writer of scenario/telemetry.py.        *)
(*                                                                         *)
(* A process emits the events of one session after another into memory,    *)
(* stamps them from a simulated clock, writes one span file per session    *)
(* when the telemetry context closes (also when it closes on an exception) *)
(* and writes manifest.json last.  The process may die at any point, and   *)
(* another run, with other inputs and another number of sessions, may then *)
(* be started over the same directory.                                     *)
(*                                                                         *)
(* What the agents emit is a parameter: FleetConfig is the code's          *)
(* re-skinning seam, and the guarantees of this module must not depend on  *)
(* the scenario plugged into it.                                           *)
(***************************************************************************)
EXTENDS Integers, Sequences

CONSTANTS
    Runs,          \* the runs that may be started (run ids: seed, count, digests)
    Count,         \* [Runs -> Nat]: how many sessions each run has
    Classes,       \* the classes of applicant, each with its own event script
    Draw,          \* Draw[r][i]: the class of the i-th applicant of run r
    EventTypes,
    Objects,
    Calls,         \* the events whose body calls a model or a tool, and so may raise
    Laden,         \* the events of which a span may lose attributes to the SDK's limits
    Script,        \* Script[c]: what the agents emit for an applicant of class c
    Duration,      \* EVENT_DURATION_SECONDS
    Stride,        \* SESSION_STRIDE_SECONDS
    PolicyFrom,    \* effective_from of the current policy, in seconds from EPOCH
    PolicyTo,      \* its effective_to, or Open
    Open,          \* an empty effective_to
    NoRun, NoFile, NoManifest

(* The numbers a span file of the directory can carry.                     *)
Slots == UNION {1 .. Count[r] : r \in Runs}

(* A reference of an event to an object: "declare" carries the attributes, *)
(* "maybe" goes through _maybe_declare, "ref" only names the object.       *)
Modes == {"declare", "maybe", "ref"}
Steps == [type : EventTypes, refs : SUBSET (Objects \X Modes), o2o : SUBSET Objects]

ASSUME RunsAssumption ==
    /\ Count \in [Runs -> Nat \ {0}]
    /\ \A r \in Runs : Draw[r] \in [1 .. Count[r] -> Classes]
ASSUME ScriptAssumption == Script \in [Classes -> Seq(Steps)]
ASSUME ClockAssumption ==
    /\ Duration \in [EventTypes -> Nat \ {0}]
    /\ Stride \in Nat \ {0}
    /\ PolicyFrom \in Int
    /\ PolicyTo \in Int \cup {Open}
    /\ Open \notin Int
ASSUME NullAssumption == NoRun \notin Runs

Spans == [type : EventTypes, seq : Nat, time : Int,
          declares : SUBSET Objects, refs : SUBSET Objects, whole : BOOLEAN]

Manifests == [run : Runs, session_count : Nat, files : Seq(Seq(Spans))]

VARIABLES
    pc,         \* where run_fleet is; "idle" when no process is running
    run,        \* the run in progress
    index,      \* sessions begun so far; the last one is the current session
    seq,        \* SessionContext.seq
    cursor,     \* SimClock.cursor
    declared,   \* SessionContext.declared
    referenced, \* SessionContext.referenced
    spans,      \* the exporter's buffer, grouped by session
    truncated,  \* the exporter saw a span with dropped attributes
    failed,     \* an exception is leaving the telemetry context
    written,    \* exporter.written: how many session files have been written
    files,      \* the span files in the output directory
    manifest    \* manifest.json

vars == <<pc, run, index, seq, cursor, declared, referenced, spans,
          truncated, failed, written, files, manifest>>

session == <<seq, cursor, declared, referenced>>
disk    == <<files, manifest>>

FlagsOK == truncated \in BOOLEAN /\ failed \in BOOLEAN

TypeOK ==
    /\ pc \in {"idle", "next", "emit", "flush", "publish"}
    /\ run \in Runs \cup {NoRun}
    /\ index \in Nat
    /\ seq \in Nat
    /\ cursor \in Int
    /\ declared \subseteq Objects
    /\ referenced \subseteq Objects
    /\ spans \in Seq(Seq(Spans))
    /\ FlagsOK
    /\ written \in Nat
    /\ files \in [Slots -> Seq(Spans) \cup {NoFile}]
    /\ manifest \in Manifests \cup {NoManifest}

Init ==
    /\ pc = "idle"
    /\ run = NoRun
    /\ index = 0
    /\ seq = 0
    /\ cursor = 0
    /\ declared = {}
    /\ referenced = {}
    /\ spans = <<>>
    /\ truncated = FALSE
    /\ failed = FALSE
    /\ written = 0
    /\ files = [i \in Slots |-> NoFile]
    /\ manifest = NoManifest

-----------------------------------------------------------------------------
(* Mutant of StartRun: the stale manifest stays until the new one replaces *)
(* it.                                                                     *)
StartRunOverManifest(r) ==
    /\ pc = "idle"
    /\ pc' = "next"
    /\ run' = r
    /\ UNCHANGED <<index, session, spans, truncated, failed, written, disk>>

(* run_fleet up to the session loop: any stale manifest is unlinked before *)
(* the first span is emitted, the files of the earlier run stay.           *)
StartRun(r) ==
    /\ pc = "idle"
    /\ pc' = "next"
    /\ run' = r
    /\ manifest' = NoManifest
    /\ UNCHANGED <<index, session, spans, truncated, failed, written, files>>

(* session_clock(i).  The code numbers sessions from 0, the model from 1.  *)
SessionStart(i) == (i - 1) * Stride

(* Mutant of WithinPolicy: an effective_to is ignored.                     *)
SincePolicy(i) == SessionStart(i) >= PolicyFrom

(* assert_within_policy *)
WithinPolicy(i) ==
    /\ SessionStart(i) >= PolicyFrom
    /\ PolicyTo # Open => SessionStart(i) <= PolicyTo

(* run_session opens the session's root span with a fresh context.         *)
BeginSession ==
    /\ pc = "next"
    /\ index < Count[run]
    /\ WithinPolicy(index + 1)
    /\ pc' = "emit"
    /\ index' = index + 1
    /\ seq' = 0
    /\ cursor' = SessionStart(index + 1)
    /\ declared' = {}
    /\ referenced' = {}
    /\ spans' = Append(spans, <<>>)
    /\ UNCHANGED <<run, truncated, failed, written, disk>>

(* assert_within_policy raises before the session has a span.              *)
RefuseSession ==
    /\ pc = "next"
    /\ index < Count[run]
    /\ ~ WithinPolicy(index + 1)
    /\ pc' = "flush"
    /\ failed' = TRUE
    /\ UNCHANGED <<run, index, session, spans, truncated, written, disk>>

LeaveTelemetry ==
    /\ pc = "next"
    /\ index = Count[run]
    /\ pc' = "flush"
    /\ UNCHANGED <<run, index, session, spans, truncated, failed, written, disk>>

-----------------------------------------------------------------------------
CurrentScript == Script[Draw[run][index]]
NextStep      == CurrentScript[seq + 1]

RefObjects(step) == {ref[1] : ref \in step.refs}

(* The objects the event declares: those it declares outright, and those   *)
(* _maybe_declare finds not yet declared in this trace.                    *)
Declares(step) ==
    {ref[1] : ref \in {x \in step.refs : \/ x[2] = "declare"
                                         \/ x[2] = "maybe" /\ x[1] \notin declared}}

(* declare_once refuses an object declared before in the session.          *)
DeclaresTwice(step) == Declares(step) \cap declared # {}

(* A span is whole when neither it nor a span below it lost an attribute.  *)
SpanOf(step, whole) ==
    [type     |-> step.type,
     seq      |-> seq + 1,
     time     |-> cursor + Duration[step.type],
     declares |-> Declares(step),
     refs     |-> RefObjects(step) \cup step.o2o,
     whole    |-> whole]

(* event_span: number, stamp, declare, validate, then open the span.  The  *)
(* span is exported when the body ends, whether it returns or raises; the  *)
(* exporter can only note that something was dropped from it, for the SDK  *)
(* swallows what an exporter raises.                                       *)
EmitEvent ==
    /\ pc = "emit"
    /\ seq < Len(CurrentScript)
    /\ ~ DeclaresTwice(NextStep)
    /\ seq' = seq + 1
    /\ cursor' = cursor + Duration[NextStep.type]
    /\ declared' = declared \cup Declares(NextStep)
    /\ referenced' = referenced \cup RefObjects(NextStep) \cup NextStep.o2o
    /\ \E dropped \in (IF NextStep.type \in Laden THEN BOOLEAN ELSE {FALSE}) :
          /\ spans' = [spans EXCEPT ![index] = Append(@, SpanOf(NextStep, ~ dropped))]
          /\ truncated' = (truncated \/ dropped)
    /\ \E raises \in (IF NextStep.type \in Calls THEN BOOLEAN ELSE {FALSE}) :
          /\ failed' = raises
          /\ pc' = IF raises THEN "flush" ELSE "emit"
    /\ UNCHANGED <<run, index, written, disk>>

(* A contract violation raises after numbering and stamping but before the *)
(* span is started: no half-written span, but the session is cut short.    *)
(* Which of the event's objects declare_once had recorded by then is of no *)
(* use to anybody, the context is dropped.                                 *)
RejectEvent ==
    /\ pc = "emit"
    /\ seq < Len(CurrentScript)
    /\ DeclaresTwice(NextStep)
    /\ seq' = seq + 1
    /\ cursor' = cursor + Duration[NextStep.type]
    /\ pc' = "flush"
    /\ failed' = TRUE
    /\ UNCHANGED <<run, index, declared, referenced, spans, truncated, written, disk>>

Footprint == cursor - SessionStart(index)

(* Mutants of SessionIsSound: one of the two checks is left out.           *)
FitsTheStride    == Footprint < Stride
DeclaresAllNamed == referenced \subseteq declared

(* check_declarations and the stride check, both after session_end.        *)
SessionIsSound ==
    /\ referenced \subseteq declared
    /\ Footprint < Stride

EndSession ==
    /\ pc = "emit"
    /\ seq = Len(CurrentScript)
    /\ IF SessionIsSound
       THEN pc' = "next" /\ UNCHANGED failed
       ELSE pc' = "flush" /\ failed' = TRUE
    /\ UNCHANGED <<run, index, session, spans, truncated, written, disk>>

-----------------------------------------------------------------------------
(* JSONLSpanExporter.shutdown: one atomic replace per session, in session  *)
(* order, also for the sessions of a run that is failing.                  *)
WriteSpanFile ==
    /\ pc = "flush"
    /\ written < index
    /\ files' = [files EXCEPT ![written + 1] = spans[written + 1]]
    /\ written' = written + 1
    /\ UNCHANGED <<pc, run, index, session, spans, truncated, failed, manifest>>

(* The process is gone, and its memory with it.                            *)
ProcessEnds ==
    /\ pc' = "idle"
    /\ run' = NoRun
    /\ index' = 0
    /\ seq' = 0
    /\ cursor' = 0
    /\ declared' = {}
    /\ referenced' = {}
    /\ spans' = <<>>
    /\ truncated' = FALSE
    /\ failed' = FALSE
    /\ written' = 0

(* The exception in flight leaves run_fleet, or SpanTruncationError does   *)
(* when the exporter met a span with dropped attributes.                   *)
RaiseFromRun ==
    /\ pc = "flush"
    /\ written = index
    /\ failed \/ truncated
    /\ ProcessEnds
    /\ UNCHANGED disk

(* Mutant of LeaveFlush: the manifest is written in a finally clause.      *)
LeaveFlushFinally ==
    /\ pc = "flush"
    /\ written = index
    /\ pc' = "publish"
    /\ UNCHANGED <<run, index, session, spans, truncated, failed, written, disk>>

(* Mutant of LeaveFlush: the spans noted as truncated are not looked at    *)
(* once everything has been written.                                       *)
LeaveFlushTruncated ==
    /\ pc = "flush"
    /\ written = index
    /\ ~ failed
    /\ pc' = "publish"
    /\ UNCHANGED <<run, index, session, spans, truncated, failed, written, disk>>

LeaveFlush ==
    /\ pc = "flush"
    /\ written = index
    /\ ~ failed
    /\ ~ truncated
    /\ pc' = "publish"
    /\ UNCHANGED <<run, index, session, spans, truncated, failed, written, disk>>

(* Mutant of WriteManifest: the run is asked for after it has ended.       *)
WriteManifestOfNoRun ==
    /\ pc = "publish"
    /\ ProcessEnds
    /\ manifest' = [run |-> run', session_count |-> Count[run], files |-> spans]
    /\ UNCHANGED files

(* write_manifest, again one atomic replace; a digest stands for the       *)
(* content it was computed from.                                           *)
WriteManifest ==
    /\ pc = "publish"
    /\ manifest' = [run |-> run, session_count |-> Count[run], files |-> spans]
    /\ ProcessEnds
    /\ UNCHANGED files

(* The process dies: the directory stays as it is.                         *)
Crash ==
    /\ pc # "idle"
    /\ ProcessEnds
    /\ UNCHANGED disk

Progress ==
    \/ BeginSession \/ RefuseSession \/ LeaveTelemetry
    \/ EmitEvent \/ RejectEvent \/ EndSession
    \/ WriteSpanFile \/ RaiseFromRun \/ LeaveFlush \/ WriteManifest

Next == (\E r \in Runs : StartRun(r)) \/ Progress \/ Crash

Spec == Init /\ [][Next]_vars

-----------------------------------------------------------------------------
(* The sessions the manifest lists.                                        *)
Listed == DOMAIN manifest.files

(* A manifest on disk lists exactly the sessions of its run, and the file  *)
(* of each is on disk with the listed digest: no crash and no sequence of  *)
(* runs over the directory leaves a manifest beside another run's files.   *)
ManifestIntact ==
    manifest # NoManifest =>
        /\ Listed = 1 .. manifest.session_count
        /\ \A i \in Listed : files[i] = manifest.files[i]

(* Every published session ran its whole script, and none of its spans has *)
(* lost anything: a session cut short by an exception, a policy window or  *)
(* a crash is never published, nor is one that the SDK truncated silently. *)
PublishedComplete ==
    manifest # NoManifest =>
        \A i \in Listed :
            /\ Len(manifest.files[i]) = Len(Script[Draw[manifest.run][i]])
            /\ \A k \in DOMAIN manifest.files[i] : manifest.files[i][k].whole

(* Every object a published session names is declared by an event of that  *)
(* session, and by one only, wherever in the session the reference stands. *)
PublishedDeclared ==
    manifest # NoManifest =>
        \A i \in Listed :
            LET s == manifest.files[i]
            IN  /\ \A k \in DOMAIN s : \A x \in s[k].refs :
                       \E j \in DOMAIN s : x \in s[j].declares
                /\ \A j, k \in DOMAIN s : s[j].declares \cap s[k].declares # {} => j = k

(* In a published run simulated time strictly increases: within a session  *)
(* from event to event, and from any event of a session to any event of a  *)
(* later one, so no two sessions overlap whatever the scenario emits.      *)
PublishedOrdered ==
    manifest # NoManifest =>
        \A i, j \in Listed :
            \A k \in DOMAIN manifest.files[i], l \in DOMAIN manifest.files[j] :
                (i < j \/ (i = j /\ k < l)) =>
                    manifest.files[i][k].time < manifest.files[j][l].time

(* The scenario plugged in never trips the checks of its own emission: no  *)
(* agent declares what an earlier one has declared, none names what nobody *)
(* declares, and no session overruns its slot or leaves the policy window. *)
(* So a run whose calls all return publishes.                              *)
ScenarioFits ==
    /\ pc = "next" /\ index < Count[run] => WithinPolicy(index + 1)
    /\ pc = "emit" /\ seq < Len(CurrentScript) => ~ DeclaresTwice(NextStep)
    /\ pc = "emit" /\ seq = Len(CurrentScript) => SessionIsSound

(* A manifest is never replaced by another one in place: it is withdrawn   *)
(* when a run starts and published at the very end, so no step of a run    *)
(* touches a span file while a manifest is on disk.                        *)
WithdrawnBeforeChange ==
    [][ /\ (manifest # NoManifest /\ manifest' # manifest) => manifest' = NoManifest
        /\ files' # files => manifest = NoManifest ]_disk

-----------------------------------------------------------------------------
(* The inductive strengthening of the invariants above: what holds of the  *)
(* process while it runs, and why its last step may publish.               *)

(* A running process has withdrawn the manifest before anything else, and  *)
(* its buffer holds one sequence per session begun; it starts with none.   *)
ProcessOK ==
    /\ Len(spans) = index
    /\ pc = "idle" => index = 0
    /\ pc # "idle" =>
           /\ run \in Runs
           /\ manifest = NoManifest
           /\ index <= Count[run]

(* While a session is being emitted its buffer follows its script.         *)
EmissionOK ==
    pc = "emit" =>
        /\ index > 0
        /\ seq = Len(spans[index])
        /\ seq <= Len(CurrentScript)

(* Only a run that was not cut short reaches the end of the flush.         *)
FlushOK ==
    /\ failed => pc = "flush"
    /\ pc \in {"idle", "next", "emit"} => written = 0
    /\ pc = "flush" => written <= index /\ (failed \/ index = Count[run])
    /\ pc = "publish" => written = index /\ index = Count[run] /\ ~ truncated
    /\ pc \in {"flush", "publish"} => \A i \in 1 .. written : files[i] = spans[i]

IntactInv == TypeOK /\ ProcessOK /\ EmissionOK /\ FlushOK /\ ManifestIntact

(* Every buffered session starts after its slot does, and runs forward.    *)
BufferOrdered ==
    \A i \in DOMAIN spans :
        /\ \A k \in DOMAIN spans[i] : SessionStart(i) < spans[i][k].time
        /\ \A k, l \in DOMAIN spans[i] : k < l => spans[i][k].time < spans[i][l].time

(* The clock has not fallen behind the events it has stamped.              *)
CursorAhead ==
    pc = "emit" =>
        /\ SessionStart(index) <= cursor
        /\ \A k \in DOMAIN spans[index] : spans[index][k].time <= cursor

(* A session that passed the stride check fits its slot.                   *)
Checked == IF pc = "emit" THEN index - 1 ELSE index

SlotsFit ==
    ~ failed =>
        \A i \in 1 .. Checked : \A k \in DOMAIN spans[i] :
            spans[i][k].time < SessionStart(i) + Stride

OrderInv == BufferOrdered /\ CursorAhead /\ SlotsFit /\ PublishedOrdered

-----------------------------------------------------------------------------
(* What the directory is worth to a reader that goes through the manifest. *)
Published ==
    IF manifest = NoManifest
    THEN NoManifest
    ELSE [run |-> manifest.run, sessions |-> [i \in Listed |-> files[i]]]

Abstract == INSTANCE PublishedRun WITH published <- Published, Nothing <- NoManifest

(* The directory implements an atomic register that holds nothing or the   *)
(* log that a sound run's inputs determine.                                *)
ImplementsPublishedRun == Abstract!Spec

=============================================================================
