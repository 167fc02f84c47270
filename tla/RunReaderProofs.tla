--------------------------- MODULE RunReaderProofs ---------------------------
(***************************************************************************)
(* Theorems about the directory of runs: first about FleetRun, the program *)
(* that fills it, then about RunReader, the program that reads it.         *)
(*                                                                         *)
(* The first part is about any scenario, any clock constants, any policy   *)
(* window and any set of runs over the directory, and cites none of what   *)
(* RunReader adds.  Everything in it follows from the inductive invariant  *)
(* IntactInv, preserved action by action, and from OrderInv and LogInv,    *)
(* which are inductive relative to it; LogInv gives the refinement of      *)
(* PublishedRun.                                                           *)
(***************************************************************************)
EXTENDS RunReader, WellFoundedInduction, TLAPS

(* Every run has at least one session.                                     *)
LEMMA CountTyped == \A r \in Runs : Count[r] \in Nat \ {0}
  BY RunsAssumption

(* Every session of every run has a script.                                *)
LEMMA ScriptTyped ==
    ASSUME NEW r \in Runs, NEW i \in 1 .. Count[r]
    PROVE  Script[Draw[r][i]] \in Seq(Steps)
<1>1. Draw[r] \in [1 .. Count[r] -> Classes]
  BY RunsAssumption
<1>2. Draw[r][i] \in Classes
  BY <1>1
<1> QED
  BY <1>2, ScriptAssumption

(* The event a session emits next is an event of its script, and is typed. *)
LEMMA NextStepTyped ==
    ASSUME IntactInv, pc = "emit", seq < Len(CurrentScript)
    PROVE  /\ NextStep.type \in EventTypes
           /\ NextStep.refs \in SUBSET (Objects \X Modes)
           /\ NextStep.o2o \in SUBSET Objects
<1>1. run \in Runs /\ index \in 1 .. Count[run]
  BY CountTyped DEF IntactInv, TypeOK, ProcessOK, EmissionOK
<1>2. CurrentScript \in Seq(Steps)
  BY <1>1, ScriptTyped DEF CurrentScript
<1>3. seq + 1 \in 1 .. Len(CurrentScript)
  BY <1>2 DEF IntactInv, TypeOK
<1>4. NextStep \in Steps
  BY <1>2, <1>3 DEF NextStep
<1> QED
  BY <1>4 DEF Steps

(* The span an event opens is typed, and so is what it declares and names. *)
LEMMA SpanTyped ==
    ASSUME IntactInv, pc = "emit", seq < Len(CurrentScript)
    PROVE  /\ Declares(NextStep) \subseteq Objects
           /\ RefObjects(NextStep) \subseteq Objects
           /\ Duration[NextStep.type] \in Nat \ {0}
           /\ \A whole \in BOOLEAN : SpanOf(NextStep, whole) \in Spans
<1>1. /\ NextStep.type \in EventTypes
      /\ NextStep.refs \in SUBSET (Objects \X Modes)
      /\ NextStep.o2o \in SUBSET Objects
  BY NextStepTyped
<1>2. Declares(NextStep) \subseteq Objects
  BY <1>1 DEF Declares
<1>3. RefObjects(NextStep) \subseteq Objects
  BY <1>1 DEF RefObjects
<1>4. Duration[NextStep.type] \in Nat \ {0}
  BY <1>1, ClockAssumption
<1>5. seq + 1 \in Nat /\ cursor + Duration[NextStep.type] \in Int
  BY <1>4 DEF IntactInv, TypeOK
<1>6. RefObjects(NextStep) \cup NextStep.o2o \in SUBSET Objects
  BY <1>1, <1>3
<1> QED
  BY <1>1, <1>2, <1>3, <1>4, <1>5, <1>6 DEF SpanOf, Spans

(* An event adds one span to its session; whether that span is whole is    *)
(* what the exporter notes of it.                                          *)
LEMMA EmitBuffers ==
    ASSUME EmitEvent
    PROVE  \E dropped \in BOOLEAN :
               /\ spans' = [spans EXCEPT ![index] = Append(@, SpanOf(NextStep, ~ dropped))]
               /\ truncated' = (truncated \/ dropped)
<1>1. \E dropped \in (IF NextStep.type \in Laden THEN BOOLEAN ELSE {FALSE}) :
          /\ spans' = [spans EXCEPT ![index] = Append(@, SpanOf(NextStep, ~ dropped))]
          /\ truncated' = (truncated \/ dropped)
  BY DEF EmitEvent
<1> QED
  BY <1>1, Zenon

-----------------------------------------------------------------------------
(* The initial states are intact.                                          *)
LEMMA InitIntact == Init => IntactInv
<1> SUFFICES ASSUME Init PROVE IntactInv
  OBVIOUS
<1>1. FlagsOK
  BY Zenon DEF Init, FlagsOK
<1>2. TypeOK
  BY <1>1 DEF Init, TypeOK
<1>3. ProcessOK /\ EmissionOK /\ FlushOK /\ ManifestIntact
  BY DEF Init, ProcessOK, EmissionOK, FlushOK, ManifestIntact
<1> QED
  BY <1>2, <1>3 DEF IntactInv

(* A process that ends, by whatever way, leaves a state in which only the  *)
(* directory matters.                                                      *)
LEMMA EndingKeepsIntact ==
    ASSUME IntactInv, ProcessEnds,
           files' \in [Slots -> Seq(Spans) \cup {NoFile}],
           manifest' \in Manifests \cup {NoManifest},
           ManifestIntact'
    PROVE  IntactInv'
<1>1. FlagsOK'
  BY Zenon DEF ProcessEnds, FlagsOK
<1>2. TypeOK'
  BY <1>1 DEF ProcessEnds, TypeOK
<1>3. ProcessOK' /\ EmissionOK' /\ FlushOK'
  BY DEF ProcessEnds, ProcessOK, EmissionOK, FlushOK
<1> QED
  BY <1>2, <1>3 DEF IntactInv

(* Slots start at whole seconds.                                           *)
LEMMA SessionStartInt == \A i \in Int : SessionStart(i) \in Int
  BY ClockAssumption DEF SessionStart

(* No step of a run, no crash and no further run disturbs the invariant.   *)
LEMMA StepIntact == IntactInv /\ [Next]_vars => IntactInv'
<1> SUFFICES ASSUME IntactInv, [Next]_vars PROVE IntactInv'
  OBVIOUS
<1> USE DEF IntactInv
<1>1. ASSUME NEW r \in Runs, StartRun(r) PROVE IntactInv'
  <2>1. FlagsOK'
    BY <1>1, Zenon DEF StartRun, FlagsOK, TypeOK
  <2>2. TypeOK'
    BY <1>1, <2>1, RunsAssumption DEF StartRun, session, TypeOK
  <2>3. ProcessOK'
    BY <1>1, RunsAssumption DEF StartRun, session, TypeOK, ProcessOK
  <2>4. EmissionOK'
    BY <1>1, RunsAssumption DEF StartRun, session, TypeOK, ProcessOK, EmissionOK, CurrentScript
  <2>5. FlushOK'
    BY <1>1, RunsAssumption DEF StartRun, session, TypeOK, ProcessOK, FlushOK
  <2>6. ManifestIntact'
    BY <1>1, RunsAssumption DEF StartRun, session, TypeOK, ProcessOK, ManifestIntact, Listed
  <2> QED
    BY <2>2, <2>3, <2>4, <2>5, <2>6
<1>2. CASE BeginSession
  <2>1. FlagsOK'
    BY <1>2, Zenon DEF BeginSession, FlagsOK, TypeOK
  <2>2. TypeOK'
    BY <1>2, <2>1, SessionStartInt DEF BeginSession, disk, TypeOK
  <2>3. ProcessOK'
    BY <1>2, CountTyped DEF BeginSession, disk, TypeOK, ProcessOK
  <2>4. EmissionOK'
    <3>1. run' \in Runs /\ index' \in 1 .. Count[run'] /\ seq' = 0
      BY <1>2, CountTyped DEF BeginSession, TypeOK, ProcessOK
    <3>2. CurrentScript' \in Seq(Steps)
      BY <3>1, ScriptTyped DEF CurrentScript
    <3>3. spans'[index'] = <<>>
      BY <1>2 DEF BeginSession, TypeOK, ProcessOK
    <3> QED
      BY <3>1, <3>2, <3>3 DEF EmissionOK
  <2>5. FlushOK'
    BY <1>2, SessionStartInt DEF BeginSession, disk, TypeOK, ProcessOK, FlushOK
  <2>6. ManifestIntact'
    BY <1>2, SessionStartInt DEF BeginSession, disk, TypeOK, ProcessOK, ManifestIntact, Listed
  <2> QED
    BY <2>2, <2>3, <2>4, <2>5, <2>6
<1>3. CASE RefuseSession
  <2>1. FlagsOK'
    BY <1>3, Zenon DEF RefuseSession, FlagsOK, TypeOK
  <2>2. TypeOK'
    BY <1>3, <2>1 DEF RefuseSession, session, disk, TypeOK
  <2>3. ProcessOK'
    BY <1>3 DEF RefuseSession, session, disk, TypeOK, ProcessOK
  <2>4. EmissionOK'
    BY <1>3 DEF RefuseSession, session, disk, TypeOK, ProcessOK, EmissionOK, CurrentScript
  <2>5. FlushOK'
    BY <1>3 DEF RefuseSession, session, disk, TypeOK, ProcessOK, FlushOK
  <2>6. ManifestIntact'
    BY <1>3 DEF RefuseSession, session, disk, TypeOK, ProcessOK, ManifestIntact, Listed
  <2> QED
    BY <2>2, <2>3, <2>4, <2>5, <2>6
<1>4. CASE LeaveTelemetry
  <2>1. FlagsOK'
    BY <1>4, Zenon DEF LeaveTelemetry, FlagsOK, TypeOK
  <2>2. TypeOK'
    BY <1>4, <2>1 DEF LeaveTelemetry, session, disk, TypeOK
  <2>3. ProcessOK'
    BY <1>4 DEF LeaveTelemetry, session, disk, TypeOK, ProcessOK
  <2>4. EmissionOK'
    BY <1>4 DEF LeaveTelemetry, session, disk, TypeOK, ProcessOK, EmissionOK, CurrentScript
  <2>5. FlushOK'
    BY <1>4 DEF LeaveTelemetry, session, disk, TypeOK, ProcessOK, FlushOK
  <2>6. ManifestIntact'
    BY <1>4 DEF LeaveTelemetry, session, disk, TypeOK, ProcessOK, ManifestIntact, Listed
  <2> QED
    BY <2>2, <2>3, <2>4, <2>5, <2>6
<1>5. CASE EmitEvent
  <2>1. FlagsOK'
    BY <1>5, Zenon DEF EmitEvent, FlagsOK, TypeOK
  <2>2. TypeOK'
    <3>1. PICK dropped \in BOOLEAN :
              spans' = [spans EXCEPT ![index] = Append(@, SpanOf(NextStep, ~ dropped))]
      BY <1>5, EmitBuffers
    <3>2. SpanOf(NextStep, ~ dropped) \in Spans
      BY <1>5, SpanTyped DEF EmitEvent
    <3>3. index \in DOMAIN spans /\ spans[index] \in Seq(Spans)
      BY <1>5 DEF EmitEvent, TypeOK, ProcessOK, EmissionOK
    <3>4. spans' \in Seq(Seq(Spans))
      BY <3>1, <3>2, <3>3 DEF TypeOK
    <3> QED
      BY <1>5, <2>1, <3>4, SpanTyped, NextStepTyped DEF EmitEvent, disk, TypeOK
  <2>3. ProcessOK'
    BY <1>5, SpanTyped DEF EmitEvent, disk, TypeOK, ProcessOK
  <2>4. EmissionOK'
    BY <1>5, SpanTyped DEF EmitEvent, disk, TypeOK, ProcessOK, EmissionOK, CurrentScript
  <2>5. FlushOK'
    BY <1>5, SpanTyped DEF EmitEvent, disk, TypeOK, ProcessOK, FlushOK
  <2>6. ManifestIntact'
    BY <1>5, SpanTyped DEF EmitEvent, disk, TypeOK, ProcessOK, ManifestIntact, Listed
  <2> QED
    BY <2>2, <2>3, <2>4, <2>5, <2>6
<1>6. CASE RejectEvent
  <2>1. FlagsOK'
    BY <1>6, Zenon DEF RejectEvent, FlagsOK, TypeOK
  <2>2. TypeOK'
    BY <1>6, <2>1, SpanTyped, NextStepTyped DEF RejectEvent, disk, TypeOK
  <2>3. ProcessOK'
    BY <1>6 DEF RejectEvent, session, disk, TypeOK, ProcessOK
  <2>4. EmissionOK'
    BY <1>6 DEF RejectEvent, session, disk, TypeOK, ProcessOK, EmissionOK, CurrentScript
  <2>5. FlushOK'
    BY <1>6 DEF RejectEvent, session, disk, TypeOK, ProcessOK, FlushOK
  <2>6. ManifestIntact'
    BY <1>6 DEF RejectEvent, session, disk, TypeOK, ProcessOK, ManifestIntact, Listed
  <2> QED
    BY <2>2, <2>3, <2>4, <2>5, <2>6
<1>7. CASE EndSession
  <2>1. FlagsOK'
    BY <1>7, Zenon DEF EndSession, FlagsOK, TypeOK
  <2>2. TypeOK'
    BY <1>7, <2>1 DEF EndSession, session, disk, TypeOK
  <2>3. ProcessOK'
    BY <1>7 DEF EndSession, session, disk, TypeOK, ProcessOK
  <2>4. EmissionOK'
    BY <1>7 DEF EndSession, session, disk, TypeOK, ProcessOK, EmissionOK, CurrentScript
  <2>5. FlushOK'
    BY <1>7 DEF EndSession, session, disk, TypeOK, ProcessOK, FlushOK
  <2>6. ManifestIntact'
    BY <1>7 DEF EndSession, session, disk, TypeOK, ProcessOK, ManifestIntact, Listed
  <2> QED
    BY <2>2, <2>3, <2>4, <2>5, <2>6
<1>8. CASE WriteSpanFile
  <2>1. FlagsOK'
    BY <1>8, Zenon DEF WriteSpanFile, FlagsOK, TypeOK
  <2>2. /\ written + 1 \in Slots
        /\ written + 1 \in DOMAIN spans
        /\ spans[written + 1] \in Seq(Spans)
    <3>1. run \in Runs /\ written + 1 \in 1 .. Count[run]
      BY <1>8, CountTyped DEF WriteSpanFile, TypeOK, ProcessOK
    <3> QED
      BY <1>8, <3>1 DEF WriteSpanFile, TypeOK, ProcessOK, Slots
  <2>3. TypeOK'
    BY <1>8, <2>1, <2>2 DEF WriteSpanFile, session, TypeOK
  <2>4. ProcessOK'
    BY <1>8 DEF WriteSpanFile, session, TypeOK, ProcessOK
  <2>5. EmissionOK'
    BY <1>8 DEF WriteSpanFile, EmissionOK
  <2>6. FlushOK'
    BY <1>8, <2>2 DEF WriteSpanFile, session, TypeOK, ProcessOK, FlushOK
  <2>7. ManifestIntact'
    BY <1>8 DEF WriteSpanFile, ProcessOK, ManifestIntact
  <2> QED
    BY <2>3, <2>4, <2>5, <2>6, <2>7
<1>9. CASE LeaveFlush
  <2>1. FlagsOK'
    BY <1>9, Zenon DEF LeaveFlush, FlagsOK, TypeOK
  <2>2. TypeOK'
    BY <1>9, <2>1 DEF LeaveFlush, session, disk, TypeOK
  <2>3. ProcessOK'
    BY <1>9 DEF LeaveFlush, session, disk, TypeOK, ProcessOK
  <2>4. EmissionOK'
    BY <1>9 DEF LeaveFlush, session, disk, TypeOK, ProcessOK, EmissionOK, CurrentScript
  <2>5. FlushOK'
    BY <1>9 DEF LeaveFlush, session, disk, TypeOK, ProcessOK, FlushOK
  <2>6. ManifestIntact'
    BY <1>9 DEF LeaveFlush, session, disk, TypeOK, ProcessOK, ManifestIntact, Listed
  <2> QED
    BY <2>2, <2>3, <2>4, <2>5, <2>6
<1>10. CASE RaiseFromRun
  BY <1>10, EndingKeepsIntact DEF RaiseFromRun, disk, TypeOK, ManifestIntact, Listed
<1>11. CASE WriteManifest
  <2>1. manifest' \in Manifests
    BY <1>11, CountTyped DEF WriteManifest, TypeOK, ProcessOK, Manifests
  <2>2. ManifestIntact'
    BY <1>11 DEF WriteManifest, TypeOK, ProcessOK, FlushOK, ManifestIntact, Listed
  <2> QED
    BY <1>11, <2>1, <2>2, EndingKeepsIntact DEF WriteManifest, TypeOK
<1>12. CASE Crash
  BY <1>12, EndingKeepsIntact DEF Crash, disk, TypeOK, ManifestIntact, Listed
<1>13. CASE UNCHANGED vars
  BY <1>13 DEF vars, TypeOK, FlagsOK, ProcessOK, EmissionOK, FlushOK, ManifestIntact, Listed,
               CurrentScript
<1> QED
  BY <1>1, <1>2, <1>3, <1>4, <1>5, <1>6, <1>7, <1>8, <1>9, <1>10, <1>11, <1>12, <1>13
     DEF Next, Progress

(* The variables keep their types, for any scenario.                       *)
THEOREM TypeCorrect == Spec => []TypeOK
<1>1. IntactInv => TypeOK
  BY DEF IntactInv
<1> QED
  BY InitIntact, StepIntact, <1>1, PTL DEF Spec

(* A manifest on disk always describes the files on disk: over any number  *)
(* of runs of any length into one directory, crashed anywhere.             *)
THEOREM Intact == Spec => []ManifestIntact
<1>1. IntactInv => ManifestIntact
  BY DEF IntactInv
<1> QED
  BY InitIntact, StepIntact, <1>1, PTL DEF Spec

-----------------------------------------------------------------------------
(* A step touches a span file, or replaces the manifest, only while there  *)
(* is no manifest: run_fleet unlinks it first and writes it last.          *)
LEMMA StepWithdraws ==
    ASSUME IntactInv, [Next]_vars
    PROVE  /\ (manifest # NoManifest /\ manifest' # manifest) => manifest' = NoManifest
           /\ files' # files => manifest = NoManifest
<1>1. ASSUME NEW r \in Runs, StartRun(r)
      PROVE  manifest' = NoManifest /\ files' = files
  BY <1>1 DEF StartRun
<1>2. CASE BeginSession \/ RefuseSession \/ LeaveTelemetry \/ EmitEvent
           \/ RejectEvent \/ EndSession \/ RaiseFromRun \/ LeaveFlush \/ Crash
  BY <1>2 DEF BeginSession, RefuseSession, LeaveTelemetry, EmitEvent, RejectEvent,
              EndSession, RaiseFromRun, LeaveFlush, Crash, disk
<1>3. CASE WriteSpanFile \/ WriteManifest
  BY <1>3 DEF WriteSpanFile, WriteManifest, IntactInv, ProcessOK
<1>4. CASE UNCHANGED vars
  BY <1>4 DEF vars
<1> QED
  BY <1>1, <1>2, <1>3, <1>4 DEF Next, Progress

(* No run changes the files under a manifest, or a manifest in place.      *)
THEOREM Withdrawn == Spec => WithdrawnBeforeChange
  BY InitIntact, StepIntact, StepWithdraws, PTL DEF Spec, WithdrawnBeforeChange

-----------------------------------------------------------------------------
(* A slot ends before any later one begins.                                *)
LEMMA SlotsDisjoint ==
    ASSUME NEW i \in Nat, NEW j \in Nat, i < j
    PROVE  SessionStart(i) + Stride <= SessionStart(j)
<1> DEFINE d == j - 1 - i
<1>1. Stride \in Nat /\ d \in Nat
  BY ClockAssumption
<1>2. d * Stride \in Nat
  BY <1>1
<1>3. (j - 1) * Stride = (i - 1) * Stride + Stride + d * Stride
  BY <1>1
<1> QED
  BY <1>1, <1>2, <1>3 DEF SessionStart

(* Buffered spans carry a time.                                            *)
LEMMA TimeTyped ==
    ASSUME IntactInv, NEW i \in DOMAIN spans, NEW k \in DOMAIN spans[i]
    PROVE  spans[i][k].time \in Int
<1>1. spans[i] \in Seq(Spans)
  BY DEF IntactInv, TypeOK
<1>2. spans[i][k] \in Spans
  BY <1>1
<1> QED
  BY <1>2 DEF Spans

(* An empty buffer and no manifest are in order.                           *)
LEMMA InitOrdered == Init => OrderInv
  BY DEF Init, OrderInv, BufferOrdered, CursorAhead, SlotsFit, PublishedOrdered, Checked

(* Of the parts of the invariant, an action that leaves the buffer alone   *)
(* can only disturb the last.                                              *)
LEMMA SameBuffer ==
    ASSUME BufferOrdered, spans' = spans
    PROVE  BufferOrdered'
  BY DEF BufferOrdered, SessionStart

(* The event just emitted is the latest of its session.                    *)
LEMMA EmitOrdered ==
    ASSUME IntactInv, OrderInv, EmitEvent
    PROVE  BufferOrdered' /\ CursorAhead' /\ SlotsFit'
<1>0. PICK dropped \in BOOLEAN :
          spans' = [spans EXCEPT ![index] = Append(@, SpanOf(NextStep, ~ dropped))]
  BY EmitBuffers
<1> DEFINE span == SpanOf(NextStep, ~ dropped)
<1>1. /\ index \in DOMAIN spans
      /\ spans[index] \in Seq(Spans)
      /\ spans' = [spans EXCEPT ![index] = Append(spans[index], span)]
      /\ index' = index
  <2>1. index \in DOMAIN spans /\ spans[index] \in Seq(Spans)
    BY DEF EmitEvent, IntactInv, TypeOK, ProcessOK, EmissionOK
  <2>2. spans' = [spans EXCEPT ![index] = Append(spans[index], span)]
    BY <1>0
  <2>3. index' = index
    BY DEF EmitEvent
  <2> QED
    BY <2>1, <2>2, <2>3
<1>2. /\ span.time = cursor + Duration[NextStep.type]
      /\ cursor' = span.time
      /\ span.time \in Int
      /\ cursor < span.time
  BY SpanTyped DEF EmitEvent, SpanOf, IntactInv, TypeOK
<1>3. DOMAIN spans' = DOMAIN spans /\ \A i \in DOMAIN spans : i # index => spans'[i] = spans[i]
  BY <1>1 DEF IntactInv, TypeOK
<1>4. /\ DOMAIN spans'[index] = 1 .. Len(spans[index]) + 1
      /\ \A k \in 1 .. Len(spans[index]) : spans'[index][k] = spans[index][k]
      /\ spans'[index][Len(spans[index]) + 1] = span
  BY <1>1, <1>2 DEF IntactInv, TypeOK
<1>5. \A k \in DOMAIN spans[index] : spans[index][k].time <= cursor
  BY DEF EmitEvent, OrderInv, CursorAhead
<1>6. SessionStart(index) <= cursor /\ SessionStart(index) \in Int /\ cursor \in Int
  BY SessionStartInt DEF EmitEvent, OrderInv, CursorAhead, IntactInv, TypeOK
<1>7. \A k \in DOMAIN spans[index] : spans[index][k].time \in Int
  BY <1>1, TimeTyped
<1>8. ASSUME NEW i \in DOMAIN spans'
      PROVE  /\ \A k \in DOMAIN spans'[i] : SessionStart(i) < spans'[i][k].time
             /\ \A k, l \in DOMAIN spans'[i] : k < l => spans'[i][k].time < spans'[i][l].time
  <2>1. CASE i # index
    BY <2>1, <1>3, <1>8 DEF OrderInv, BufferOrdered
  <2>2. CASE i = index
    <3>1. \A k \in DOMAIN spans'[index] : SessionStart(index) < spans'[index][k].time
      BY <1>1, <1>2, <1>4, <1>6 DEF OrderInv, BufferOrdered
    <3>2. ASSUME NEW k \in DOMAIN spans'[index], NEW l \in DOMAIN spans'[index], k < l
          PROVE  spans'[index][k].time < spans'[index][l].time
      <4>1. CASE l = Len(spans[index]) + 1
        BY <3>2, <4>1, <1>1, <1>2, <1>4, <1>5, <1>6, <1>7
      <4>2. CASE l # Len(spans[index]) + 1
        BY <3>2, <4>2, <1>1, <1>4 DEF OrderInv, BufferOrdered
      <4> QED
        BY <4>1, <4>2
    <3> QED
      BY <2>2, <3>1, <3>2
  <2> QED
    BY <2>1, <2>2
<1>9. BufferOrdered'
  BY <1>8 DEF BufferOrdered, SessionStart
<1>10. CursorAhead'
  <2>1. SessionStart(index) <= cursor'
    BY <1>2, <1>6
  <2>2. \A k \in DOMAIN spans'[index] : spans'[index][k].time <= cursor'
    BY <1>1, <1>2, <1>4, <1>5, <1>6, <1>7
  <2> QED
    BY <1>1, <2>1, <2>2 DEF CursorAhead, SessionStart
<1>11. SlotsFit'
  <2>1. ~ failed
    BY DEF EmitEvent, IntactInv, FlushOK
  <2>2. ~ failed' => Checked' = index - 1
    BY <1>1 DEF EmitEvent, Checked
  <2>3. Checked = index - 1
    BY DEF EmitEvent, Checked
  <2>4. \A i \in 1 .. index - 1 : i \in DOMAIN spans /\ i # index
    BY <1>1 DEF IntactInv, TypeOK
  <2> QED
    BY <2>1, <2>2, <2>3, <2>4, <1>3 DEF OrderInv, SlotsFit, SessionStart
<1> QED
  BY <1>9, <1>10, <1>11

(* A session that passed the stride check fits its slot, one that did not  *)
(* takes the run down with it.                                             *)
LEMMA EndOrdered ==
    ASSUME IntactInv, OrderInv, EndSession
    PROVE  BufferOrdered' /\ CursorAhead' /\ SlotsFit'
<1>1. BufferOrdered' /\ CursorAhead'
  BY SameBuffer DEF EndSession, OrderInv, CursorAhead
<1>2. CASE ~ SessionIsSound
  BY <1>1, <1>2 DEF EndSession, SlotsFit
<1>3. CASE SessionIsSound
  <2>1. /\ Checked = index - 1
        /\ Checked' = index
        /\ spans' = spans
        /\ ~ failed
        /\ index \in DOMAIN spans
    BY <1>3 DEF EndSession, Checked, IntactInv, TypeOK, ProcessOK, EmissionOK, FlushOK
  <2>2. \A k \in DOMAIN spans[index] : spans[index][k].time < SessionStart(index) + Stride
    <3>1. cursor < SessionStart(index) + Stride
      BY <1>3, SessionStartInt, ClockAssumption
         DEF SessionIsSound, Footprint, IntactInv, TypeOK
    <3>2. \A k \in DOMAIN spans[index] : spans[index][k].time <= cursor
      BY DEF EndSession, OrderInv, CursorAhead
    <3>3. \A k \in DOMAIN spans[index] : spans[index][k].time \in Int
      BY <2>1, TimeTyped
    <3>4. cursor \in Int /\ SessionStart(index) + Stride \in Int
      BY SessionStartInt, ClockAssumption DEF IntactInv, TypeOK
    <3> QED
      BY <3>1, <3>2, <3>3, <3>4
  <2>3. \A i \in 1 .. index - 1 : \A k \in DOMAIN spans[i] :
            spans[i][k].time < SessionStart(i) + Stride
    BY <2>1 DEF OrderInv, SlotsFit
  <2>4. \A i \in 1 .. index : i \in 1 .. index - 1 \/ i = index
    BY DEF IntactInv, TypeOK
  <2>5. SlotsFit'
    BY <2>1, <2>2, <2>3, <2>4 DEF SlotsFit, SessionStart
  <2> QED
    BY <1>1, <2>5
<1> QED
  BY <1>2, <1>3

(* The session just begun has nothing in the buffer yet.                   *)
LEMMA BeginOrdered ==
    ASSUME IntactInv, OrderInv, BeginSession
    PROVE  BufferOrdered' /\ CursorAhead' /\ SlotsFit'
<1>1. /\ index' = index + 1
      /\ Len(spans) = index
      /\ DOMAIN spans' = 1 .. index + 1
      /\ spans'[index + 1] = <<>>
      /\ \A i \in 1 .. index : spans'[i] = spans[i] /\ i \in DOMAIN spans
  BY DEF BeginSession, IntactInv, TypeOK, ProcessOK
<1>2. BufferOrdered'
  <2>1. \A i \in 1 .. index + 1 : i \in 1 .. index \/ i = index + 1
    BY DEF IntactInv, TypeOK
  <2> QED
    BY <1>1, <2>1 DEF OrderInv, BufferOrdered, SessionStart
<1>3. CursorAhead'
  <2>1. cursor' = SessionStart(index') /\ SessionStart(index') \in Int
    BY SessionStartInt, <1>1 DEF BeginSession, IntactInv, TypeOK
  <2>2. spans'[index'] = <<>>
    BY <1>1
  <2> QED
    BY <2>1, <2>2 DEF CursorAhead, SessionStart
<1>4. SlotsFit'
  <2>1. Checked' = index /\ Checked = index /\ ~ failed /\ ~ failed'
    BY <1>1 DEF BeginSession, Checked, IntactInv, TypeOK, FlushOK
  <2> QED
    BY <1>1, <2>1 DEF OrderInv, SlotsFit, SessionStart
<1> QED
  BY <1>2, <1>3, <1>4

(* The buffer a run publishes is in order across its sessions.             *)
LEMMA PublishOrdered ==
    ASSUME IntactInv, OrderInv, WriteManifest
    PROVE  PublishedOrdered'
<1>1. /\ manifest'.files = spans
      /\ Listed' = DOMAIN spans
      /\ DOMAIN spans = 1 .. index
      /\ Checked = index
      /\ ~ failed
  BY DEF WriteManifest, Listed, Checked, IntactInv, TypeOK, ProcessOK, FlushOK
<1>2. \A i \in DOMAIN spans : \A k \in DOMAIN spans[i] : spans[i][k].time \in Int
  BY TimeTyped
<1>3. ASSUME NEW i \in DOMAIN spans, NEW j \in DOMAIN spans,
             NEW k \in DOMAIN spans[i], NEW l \in DOMAIN spans[j],
             i < j \/ (i = j /\ k < l)
      PROVE  spans[i][k].time < spans[j][l].time
  <2>1. CASE i = j /\ k < l
    BY <2>1 DEF OrderInv, BufferOrdered
  <2>2. CASE i < j
    <3>1. spans[i][k].time < SessionStart(i) + Stride
      BY <1>1 DEF OrderInv, SlotsFit
    <3>2. SessionStart(i) + Stride <= SessionStart(j)
      BY <2>2, <1>1, SlotsDisjoint DEF IntactInv, TypeOK
    <3>3. SessionStart(j) < spans[j][l].time
      BY DEF OrderInv, BufferOrdered
    <3>4. /\ SessionStart(i) + Stride \in Int /\ SessionStart(j) \in Int
          /\ spans[i][k].time \in Int /\ spans[j][l].time \in Int
      BY <1>1, <1>2, SessionStartInt, ClockAssumption DEF IntactInv, TypeOK
    <3> QED
      BY <3>1, <3>2, <3>3, <3>4
  <2> QED
    BY <1>3, <2>1, <2>2
<1> QED
  BY <1>1, <1>3 DEF PublishedOrdered

(* Together the two invariants are inductive.                              *)
LEMMA StepOrdered == IntactInv /\ OrderInv /\ [Next]_vars => OrderInv'
<1> SUFFICES ASSUME IntactInv, OrderInv, [Next]_vars PROVE OrderInv'
  OBVIOUS
<1>1. ASSUME NEW r \in Runs, StartRun(r) PROVE OrderInv'
  <2>1. BufferOrdered' /\ CursorAhead'
    BY <1>1, SameBuffer DEF StartRun, OrderInv, CursorAhead
  <2>2. SlotsFit' /\ PublishedOrdered'
    BY <1>1 DEF StartRun, OrderInv, SlotsFit, Checked, SessionStart, PublishedOrdered
  <2> QED
    BY <2>1, <2>2 DEF OrderInv
<1>2. CASE BeginSession
  <2>1. PublishedOrdered'
    BY <1>2 DEF BeginSession, disk, OrderInv, PublishedOrdered, Listed
  <2> QED
    BY <1>2, <2>1, BeginOrdered DEF OrderInv
<1>3. CASE RefuseSession \/ RejectEvent
  BY <1>3, SameBuffer
     DEF RefuseSession, RejectEvent, disk, OrderInv, CursorAhead, SlotsFit, PublishedOrdered, Listed
<1>4. CASE LeaveTelemetry \/ WriteSpanFile \/ LeaveFlush
  <2>1. BufferOrdered' /\ CursorAhead'
    BY <1>4, SameBuffer DEF LeaveTelemetry, WriteSpanFile, LeaveFlush, OrderInv, CursorAhead
  <2>2. SlotsFit'
    BY <1>4
       DEF LeaveTelemetry, WriteSpanFile, LeaveFlush, OrderInv, SlotsFit, Checked, SessionStart
  <2>3. PublishedOrdered'
    BY <1>4
       DEF LeaveTelemetry, WriteSpanFile, LeaveFlush, disk, OrderInv, PublishedOrdered, Listed
  <2> QED
    BY <2>1, <2>2, <2>3 DEF OrderInv
<1>5. CASE EmitEvent
  <2>1. PublishedOrdered'
    BY <1>5 DEF EmitEvent, disk, OrderInv, PublishedOrdered, Listed
  <2> QED
    BY <1>5, <2>1, EmitOrdered DEF OrderInv
<1>6. CASE EndSession
  <2>1. PublishedOrdered'
    BY <1>6 DEF EndSession, disk, OrderInv, PublishedOrdered, Listed
  <2> QED
    BY <1>6, <2>1, EndOrdered DEF OrderInv
<1>7. CASE RaiseFromRun \/ Crash \/ WriteManifest
  <2>1. ProcessEnds
    BY <1>7 DEF RaiseFromRun, Crash, WriteManifest
  <2>2. BufferOrdered' /\ CursorAhead' /\ SlotsFit'
    BY <2>1 DEF ProcessEnds, BufferOrdered, CursorAhead, SlotsFit, Checked
  <2>3. CASE WriteManifest
    BY <2>2, <2>3, PublishOrdered DEF OrderInv
  <2>4. CASE RaiseFromRun \/ Crash
    BY <2>2, <2>4 DEF RaiseFromRun, Crash, disk, OrderInv, PublishedOrdered, Listed
  <2> QED
    BY <1>7, <2>3, <2>4
<1>8. CASE UNCHANGED vars
  BY <1>8 DEF vars, OrderInv, BufferOrdered, CursorAhead, SlotsFit, PublishedOrdered,
              Checked, SessionStart, Listed
<1> QED
  BY <1>1, <1>2, <1>3, <1>4, <1>5, <1>6, <1>7, <1>8 DEF Next, Progress

(* In a published run time strictly increases, within sessions and across  *)
(* them: whatever the scenario emits, the stride check and the refusal to  *)
(* publish a failed run keep every session inside its own slot.            *)
THEOREM Ordered == Spec => []PublishedOrdered
<1>1. Init => IntactInv /\ OrderInv
  BY InitIntact, InitOrdered
<1>2. IntactInv /\ OrderInv /\ [Next]_vars => IntactInv' /\ OrderInv'
  BY StepIntact, StepOrdered
<1>3. OrderInv => PublishedOrdered
  BY DEF OrderInv
<1> QED
  BY <1>1, <1>2, <1>3, PTL DEF Spec

-----------------------------------------------------------------------------
(* The directory implements the register of PublishedRun: what is offered  *)
(* is the log that the run's inputs determine, and the run was sound. That *)
(* published sessions are complete and declare what they name follows.     *)

(* A set of positions in a sequence has a first one.                       *)
LEMMA FirstPosition ==
    ASSUME NEW n \in Nat, NEW T \in SUBSET (1 .. n), T # {}
    PROVE  \E x \in T : \A y \in T : x <= y
<1> DEFINE Below == {pair \in Nat \X Nat : pair[1] < pair[2]}
<1>1. IsWellFoundedOn(Below, Nat)
  BY NatLessThanWellFounded DEF OpToRel
<1>2. \A x, y \in T : y < x => <<y, x>> \in Below
  OBVIOUS
<1>3. T \subseteq Nat
  OBVIOUS
<1> HIDE DEF Below
<1>4. PICK x \in T : \A y \in T : <<y, x>> \notin Below
  BY <1>1, <1>3, WFMin
<1>5. ASSUME NEW y \in T PROVE x <= y
  <2>1. ~ (y < x)
    BY <1>2, <1>4
  <2> QED
    BY <1>3, <2>1
<1> QED
  BY <1>5

(* The sum that Elapsed defines by recursion is the only one that grows by *)
(* the duration of every event.                                            *)
Grows(steps, f) ==
    f = [k \in 0 .. Len(steps) |->
            IF k = 0 THEN 0 ELSE f[k - 1] + Duration[steps[k].type]]

LEMMA ElapsedGrows ==
    ASSUME NEW steps, NEW f, Grows(steps, f)
    PROVE  Grows(steps, Abstract!Elapsed(steps))
  BY DEF Grows, Abstract!Elapsed

LEMMA GrowsBy ==
    ASSUME NEW steps, Len(steps) \in Nat, NEW f, Grows(steps, f)
    PROVE  f[0] = 0 /\ \A k \in 1 .. Len(steps) : f[k] = f[k - 1] + Duration[steps[k].type]
<1> DEFINE Body(k) == IF k = 0 THEN 0 ELSE f[k - 1] + Duration[steps[k].type]
<1>1. f = [k \in 0 .. Len(steps) |-> Body(k)]
  BY DEF Grows
<1> HIDE DEF Body
<1>2. \A k \in 0 .. Len(steps) : f[k] = Body(k)
  BY <1>1
<1>3. 0 \in 0 .. Len(steps) /\ \A k \in 1 .. Len(steps) : k \in 0 .. Len(steps) /\ k # 0
  OBVIOUS
<1> QED
  BY <1>2, <1>3 DEF Body

LEMMA OneGrows ==
    ASSUME NEW steps, Len(steps) \in Nat, NEW f, NEW g, Grows(steps, f), Grows(steps, g)
    PROVE  f = g
<1> DEFINE T == {k \in 1 .. Len(steps) : f[k] # g[k]}
<1>1. /\ f[0] = 0 /\ g[0] = 0
      /\ \A k \in 1 .. Len(steps) :
            /\ f[k] = f[k - 1] + Duration[steps[k].type]
            /\ g[k] = g[k - 1] + Duration[steps[k].type]
  BY GrowsBy
<1>2. CASE T = {}
  <2>1. \A k \in 0 .. Len(steps) : f[k] = g[k]
    BY <1>1, <1>2
  <2> QED
    BY <2>1 DEF Grows
<1>3. CASE T # {}
  <2>1. PICK x \in T : \A y \in T : x <= y
    BY <1>3, FirstPosition
  <2>2. f[x - 1] = g[x - 1]
    BY <1>1, <2>1
  <2> QED
    BY <1>1, <2>1, <2>2
<1> QED
  BY <1>2, <1>3

-----------------------------------------------------------------------------
(* What has been emitted of the current session is the beginning of its    *)
(* log, and its context and clock are what that log says.                  *)
Clock(k) == IF k = 0 THEN SessionStart(index) ELSE spans[index][k].time

EmittedAt(k) ==
    LET span  == spans[index][k]
        steps == CurrentScript
    IN  /\ span.type = steps[k].type
        /\ span.seq = k
        /\ span.time = Clock(k - 1) + Duration[steps[k].type]
        /\ span.declares = Abstract!DeclaredAt(steps, k)
        /\ span.refs = Abstract!Names(steps[k])
        /\ ~ truncated => span.whole = TRUE
        /\ Abstract!Forced(steps[k]) \cap Abstract!Earlier(steps, k) = {}

EmittedOK ==
    pc = "emit" =>
        /\ WithinPolicy(index)
        /\ \A k \in 1 .. seq : EmittedAt(k)
        /\ declared = Abstract!Earlier(CurrentScript, seq + 1)
        /\ referenced = UNION {Abstract!Names(CurrentScript[k]) : k \in 1 .. seq}
        /\ cursor = Clock(seq)

(* The sessions that have ended are those of a sound run, unless something *)
(* was dropped from them.                                                  *)
BufferIsLog ==
    ~ failed /\ ~ truncated =>
        \A i \in 1 .. Checked :
            spans[i] = Abstract!SessionLog(run, i) /\ Abstract!SoundSession(run, i)

PublishedIsLog ==
    manifest # NoManifest =>
        /\ manifest.run \in Runs
        /\ Abstract!Sound(manifest.run)
        /\ manifest.files = Abstract!Log(manifest.run).sessions

LogInv == EmittedOK /\ BufferIsLog /\ PublishedIsLog

LEMMA InitLog == Init => LogInv
  BY DEF Init, LogInv, EmittedOK, BufferIsLog, PublishedIsLog, Checked

(* What SpanOf makes of a step is what the log of the session says of it,  *)
(* as long as the context is that of the steps before.                     *)
LEMMA DeclaresAsLogged ==
    ASSUME NEW emission, emission.refs \subseteq Objects \X Modes, NEW steps, NEW k,
           steps[k] = emission, declared = Abstract!Earlier(steps, k)
    PROVE  /\ Declares(emission) = Abstract!DeclaredAt(steps, k)
           /\ Abstract!Forced(emission) \subseteq Declares(emission)
           /\ declared \cup Declares(emission) = declared \cup Abstract!Offered(emission)
<1>1. \A ref \in emission.refs : ref[2] = "declare" \/ ref[2] = "maybe" \/ ref[2] = "ref"
  BY DEF Modes
<1> QED
  BY <1>1 DEF Declares, Abstract!DeclaredAt, Abstract!Forced, Abstract!Offered

LEMMA EarlierGrows ==
    ASSUME NEW steps, NEW k \in Nat \ {0}
    PROVE  Abstract!Earlier(steps, k + 1) = Abstract!Earlier(steps, k) \cup Abstract!Offered(steps[k])
<1>1. (k + 1) - 1 = k /\ \A j : j \in 1 .. k <=> j \in 1 .. k - 1 \/ j = k
  OBVIOUS
<1> QED
  BY <1>1 DEF Abstract!Earlier

LEMMA EmitLogged ==
    ASSUME IntactInv, EmittedOK, EmitEvent
    PROVE  EmittedOK'
<1> DEFINE emission == NextStep
<1>0. PICK dropped \in BOOLEAN :
          /\ spans' = [spans EXCEPT ![index] = Append(@, SpanOf(NextStep, ~ dropped))]
          /\ truncated' = (truncated \/ dropped)
  BY EmitBuffers
<1> DEFINE span == SpanOf(emission, ~ dropped)
<1>t. ~ truncated' => ~ truncated /\ ~ dropped
  BY <1>0, Zenon
<1>1. PICK n \in Nat : n = seq
  BY DEF IntactInv, TypeOK
<1>2. /\ index \in DOMAIN spans /\ spans[index] \in Seq(Spans)
      /\ n = Len(spans[index])
      /\ spans' = [spans EXCEPT ![index] = Append(spans[index], span)]
      /\ index' = index /\ run' = run /\ seq' = n + 1
  <2>1. /\ index \in DOMAIN spans /\ spans[index] \in Seq(Spans)
        /\ n = Len(spans[index])
    BY <1>1 DEF EmitEvent, IntactInv, TypeOK, ProcessOK, EmissionOK
  <2>2. spans' = [spans EXCEPT ![index] = Append(spans[index], span)]
    BY <1>0
  <2>3. index' = index /\ run' = run /\ seq' = n + 1
    BY <1>1 DEF EmitEvent
  <2> QED
    BY <2>1, <2>2, <2>3
<1>3. /\ spans'[index] = Append(spans[index], span)
      /\ \A k \in 1 .. n : spans'[index][k] = spans[index][k]
      /\ spans'[index][n + 1] = span
  BY <1>2, SpanTyped DEF EmitEvent
<1>4. CurrentScript' = CurrentScript /\ emission = CurrentScript[n + 1]
  BY <1>1, <1>2 DEF CurrentScript, NextStep
<1>5. /\ WithinPolicy(index)
      /\ \A k \in 1 .. n : EmittedAt(k)
      /\ declared = Abstract!Earlier(CurrentScript, n + 1)
      /\ referenced = UNION {Abstract!Names(CurrentScript[k]) : k \in 1 .. n}
      /\ cursor = Clock(n)
  BY <1>1 DEF EmittedOK, EmitEvent
<1>6. /\ Declares(emission) = Abstract!DeclaredAt(CurrentScript, n + 1)
      /\ Abstract!Forced(emission) \subseteq Declares(emission)
      /\ declared \cup Declares(emission) = declared \cup Abstract!Offered(emission)
  BY <1>4, <1>5, DeclaresAsLogged, NextStepTyped DEF EmitEvent
<1>7. \A k \in 0 .. n : Clock(k)' = Clock(k)
  BY <1>2, <1>3 DEF Clock, SessionStart
<1>8. Clock(n + 1)' = span.time
  BY <1>2, <1>3 DEF Clock
<1>9. ASSUME NEW k \in 1 .. n PROVE EmittedAt(k)'
  <2>1. EmittedAt(k) /\ k - 1 \in 0 .. n
    BY <1>5
  <2>2. Clock(k - 1)' = Clock(k - 1) /\ spans'[index'][k] = spans[index][k]
    BY <1>2, <1>3, <1>7, <2>1
  <2> QED
    BY <2>1, <2>2, <1>4, <1>t DEF EmittedAt
<1>10. EmittedAt(n + 1)'
  <2>1. span.time = Clock(n)' + Duration[emission.type]
    BY <1>5, <1>7 DEF SpanOf
  <2>2. Abstract!Forced(emission) \cap Abstract!Earlier(CurrentScript, n + 1) = {}
    BY <1>5, <1>6 DEF EmitEvent, DeclaresTwice
  <2>3. span.refs = Abstract!Names(emission)
    BY DEF SpanOf, RefObjects, Abstract!Names
  <2>4. span.type = emission.type /\ span.seq = n + 1 /\ span.declares = Declares(emission)
    BY <1>1 DEF SpanOf
  <2>5. (n + 1) - 1 = n /\ spans'[index'][n + 1] = span
    BY <1>2, <1>3
  <2>6. ~ truncated' => span.whole = TRUE
    BY <1>t DEF SpanOf
  <2> HIDE DEF span, emission
  <2> QED
    BY <1>4, <1>6, <2>1, <2>2, <2>3, <2>4, <2>5, <2>6 DEF EmittedAt
<1>11. declared' = Abstract!Earlier(CurrentScript, (n + 1) + 1)
  <2>1. declared' = declared \cup Declares(emission)
    BY DEF EmitEvent
  <2>2. n + 1 \in Nat \ {0}
    OBVIOUS
  <2> HIDE DEF emission
  <2> QED
    BY <2>1, <2>2, <1>4, <1>5, <1>6, EarlierGrows
<1>12. referenced' = UNION {Abstract!Names(CurrentScript[k]) : k \in 1 .. n + 1}
  <2>1. referenced' = referenced \cup Abstract!Names(emission)
    BY DEF EmitEvent, RefObjects, Abstract!Names
  <2>2. \A k : k \in 1 .. n + 1 <=> k \in 1 .. n \/ k = n + 1
    OBVIOUS
  <2> HIDE DEF emission
  <2> QED
    BY <2>1, <2>2, <1>4, <1>5
<1>13. cursor' = span.time
  BY DEF EmitEvent, SpanOf
<1>14. WithinPolicy(index)'
  BY <1>2, <1>5 DEF WithinPolicy, SessionStart
<1>15. \A k \in 1 .. n + 1 : EmittedAt(k)'
  <2>1. \A k \in 1 .. n + 1 : k \in 1 .. n \/ k = n + 1
    OBVIOUS
  <2> QED
    BY <1>9, <1>10, <2>1
<1> HIDE DEF span
<1>16. cursor' = Clock(n + 1)'
  BY <1>8, <1>13
<1> QED
  BY <1>2, <1>4, <1>11, <1>12, <1>14, <1>15, <1>16 DEF EmittedOK

(* A session that passes the checks at its end has emitted its log.        *)
LEMMA SessionLogged ==
    ASSUME IntactInv, EmittedOK, pc = "emit", seq = Len(CurrentScript), SessionIsSound,
           ~ truncated
    PROVE  /\ spans[index] = Abstract!SessionLog(run, index)
           /\ Abstract!SoundSession(run, index)
<1> DEFINE steps == CurrentScript
<1> DEFINE start == SessionStart(index)
<1>1. PICK n \in Nat : n = seq
  BY DEF IntactInv, TypeOK
<1>2. run \in Runs /\ index \in 1 .. Count[run] /\ index \in DOMAIN spans
  BY CountTyped DEF IntactInv, TypeOK, ProcessOK, EmissionOK
<1>3. steps \in Seq(Steps) /\ Len(steps) = n /\ DOMAIN steps = 1 .. n
  BY <1>1, <1>2, ScriptTyped DEF CurrentScript
<1>4. spans[index] \in Seq(Spans) /\ DOMAIN spans[index] = 1 .. n
  BY <1>1, <1>2 DEF IntactInv, TypeOK, EmissionOK
<1>5. Abstract!Steps(run, index) = steps /\ Abstract!Start(index) = start /\ start \in Int
  BY <1>2, SessionStartInt, CountTyped DEF Abstract!Steps, Abstract!Start, CurrentScript, SessionStart
<1>6. /\ WithinPolicy(index)
      /\ \A k \in 1 .. n : EmittedAt(k)
      /\ declared = Abstract!Earlier(steps, n + 1)
      /\ referenced = UNION {Abstract!Names(steps[k]) : k \in 1 .. n}
      /\ cursor = Clock(n)
  BY <1>1 DEF EmittedOK
<1>7. \A k \in 0 .. n : Clock(k) \in Int
  BY <1>2, <1>4, <1>5, TimeTyped DEF Clock
<1>8. \A k \in 1 .. n : Duration[steps[k].type] \in Nat
  <2> HIDE DEF steps
  <2>1. \A k \in 1 .. n : steps[k] \in Steps
    BY <1>3
  <2> QED
    BY <2>1, ClockAssumption DEF Steps
<1> HIDE DEF steps, start
<1> DEFINE f == [k \in 0 .. n |-> Clock(k) - start]
<1>9. f[0] = 0 /\ \A k \in 1 .. n : f[k] = f[k - 1] + Duration[steps[k].type]
  <2>1. f[0] = 0
    BY <1>5, <1>7 DEF Clock, start
  <2>2. ASSUME NEW k \in 1 .. n PROVE f[k] = f[k - 1] + Duration[steps[k].type]
    <3>1. Clock(k) = Clock(k - 1) + Duration[steps[k].type]
      BY <1>6 DEF EmittedAt, Clock, steps
    <3>2. k \in 0 .. n /\ k - 1 \in 0 .. n
      OBVIOUS
    <3> QED
      BY <3>1, <3>2, <1>5, <1>7, <1>8
  <2> QED
    BY <2>1, <2>2
<1>10. Grows(steps, f)
  <2> DEFINE body(k) == IF k = 0 THEN 0 ELSE f[k - 1] + Duration[steps[k].type]
  <2>1. \A k \in 0 .. n : k = 0 \/ (k # 0 /\ k \in 1 .. n)
    OBVIOUS
  <2>2. \A k \in 0 .. n : f[k] = body(k)
    <3> HIDE DEF f
    <3> QED
      BY <2>1, <1>9
  <2>3. DOMAIN f = 0 .. n /\ f = [k \in 0 .. n |-> f[k]]
    OBVIOUS
  <2> HIDE DEF f, body
  <2>4. f = [k \in 0 .. n |-> body(k)]
    BY <2>2, <2>3
  <2> QED
    BY <2>4, <1>3 DEF Grows, body
<1>11. Abstract!Elapsed(steps) = f
  BY <1>3, <1>10, ElapsedGrows, OneGrows
<1>12. ASSUME NEW k \in 1 .. n
       PROVE  spans[index][k] =
                [type     |-> steps[k].type,
                 seq      |-> k,
                 time     |-> start + f[k],
                 declares |-> Abstract!DeclaredAt(steps, k),
                 refs     |-> Abstract!Names(steps[k]),
                 whole    |-> TRUE]
  <2>1. spans[index][k].time = start + f[k]
    <3>1. f[k] = Clock(k) - start /\ Clock(k) = spans[index][k].time /\ k \in 0 .. n
      BY DEF Clock
    <3> QED
      BY <3>1, <1>5, <1>7
  <2>2. spans[index][k] \in Spans
    BY <1>4
  <2> HIDE DEF f
  <2> QED
    BY <2>1, <2>2, <1>6 DEF Spans, EmittedAt, steps
<1> HIDE DEF f
<1>13. spans[index] = Abstract!SessionLog(run, index)
  <2>1. spans[index] = [k \in 1 .. n |-> spans[index][k]]
    BY <1>4
  <2>2. spans[index] = [k \in 1 .. n |->
                [type     |-> steps[k].type,
                 seq      |-> k,
                 time     |-> start + f[k],
                 declares |-> Abstract!DeclaredAt(steps, k),
                 refs     |-> Abstract!Names(steps[k]),
                 whole    |-> TRUE]]
    BY <2>1, <1>12
  <2> QED
    BY <2>2, <1>3, <1>5, <1>11 DEF Abstract!SessionLog
<1>14. Abstract!SoundSession(run, index)
  <2>1. start >= PolicyFrom /\ (PolicyTo # Open => start <= PolicyTo)
    BY <1>6 DEF WithinPolicy, start
  <2>2. \A k \in 1 .. n : Abstract!Forced(steps[k]) \cap Abstract!Earlier(steps, k) = {}
    BY <1>6 DEF EmittedAt, steps
  <2>3. \A k \in 1 .. n : Abstract!Names(steps[k]) \subseteq Abstract!Earlier(steps, n + 1)
    BY <1>6 DEF SessionIsSound
  <2>4. f[n] < Stride
    <3>1. f[n] = cursor - start
      BY <1>6 DEF f
    <3> QED
      BY <3>1 DEF SessionIsSound, Footprint, start
  <2> QED
    BY <2>1, <2>2, <2>3, <2>4, <1>3, <1>5, <1>11 DEF Abstract!SoundSession
<1> QED
  BY <1>13, <1>14

-----------------------------------------------------------------------------
(* The log of a session does not depend on the state.                      *)
LEMMA EndLogged ==
    ASSUME IntactInv, LogInv, EndSession
    PROVE  EmittedOK' /\ BufferIsLog'
<1>1. EmittedOK'
  BY DEF EndSession, EmittedOK
<1>2. CASE ~ SessionIsSound \/ truncated
  BY <1>1, <1>2 DEF EndSession, BufferIsLog
<1>3. CASE SessionIsSound /\ ~ truncated
  <2>1. /\ Checked = index - 1 /\ Checked' = index /\ index \in Nat
        /\ spans' = spans /\ run' = run /\ ~ failed /\ ~ truncated
    BY <1>3 DEF EndSession, Checked, IntactInv, TypeOK, FlushOK
  <2>2. \A i \in 1 .. index : i \in 1 .. index - 1 \/ i = index
    BY <2>1
  <2>3. spans[index] = Abstract!SessionLog(run, index) /\ Abstract!SoundSession(run, index)
    BY <1>3, SessionLogged DEF EndSession, LogInv
  <2> QED
    BY <1>1, <2>1, <2>2, <2>3 DEF LogInv, BufferIsLog
<1> QED
  BY <1>2, <1>3

LEMMA BeginLogged ==
    ASSUME IntactInv, LogInv, BeginSession
    PROVE  EmittedOK' /\ BufferIsLog'
<1>1. /\ index' = index + 1 /\ index \in Nat /\ run' = run
      /\ \A i \in 1 .. index : spans'[i] = spans[i]
      /\ Checked' = index /\ Checked = index /\ ~ failed /\ truncated' = truncated
  BY DEF BeginSession, IntactInv, TypeOK, ProcessOK, Checked, FlushOK
<1>2. EmittedOK'
  <2>1. /\ WithinPolicy(index') /\ seq' = 0 /\ declared' = {} /\ referenced' = {}
        /\ cursor' = SessionStart(index')
    BY <1>1 DEF BeginSession
  <2>2. Abstract!Earlier(CurrentScript', 0 + 1) = {}
    BY DEF Abstract!Earlier
  <2> QED
    BY <2>1, <2>2 DEF EmittedOK, WithinPolicy, SessionStart, Clock, Abstract!Earlier
<1>3. BufferIsLog'
  BY <1>1 DEF LogInv, BufferIsLog
<1> QED
  BY <1>2, <1>3

(* What a run publishes is its log.                                        *)
LEMMA PublishLogged ==
    ASSUME IntactInv, LogInv, WriteManifest
    PROVE  PublishedIsLog'
<1>1. /\ run \in Runs /\ ~ failed /\ ~ truncated /\ Checked = index /\ index = Count[run]
      /\ spans \in Seq(Seq(Spans)) /\ Len(spans) = index
      /\ manifest'.run = run /\ manifest'.files = spans
  BY DEF WriteManifest, IntactInv, TypeOK, ProcessOK, FlushOK, Checked
<1>2. \A i \in 1 .. Count[run] :
          spans[i] = Abstract!SessionLog(run, i) /\ Abstract!SoundSession(run, i)
  BY <1>1 DEF LogInv, BufferIsLog
<1>3. spans = [i \in 1 .. Count[run] |-> Abstract!SessionLog(run, i)]
  <2>1. spans = [i \in 1 .. Count[run] |-> spans[i]]
    BY <1>1
  <2> QED
    BY <2>1, <1>2
<1> QED
  BY <1>1, <1>2, <1>3 DEF PublishedIsLog, Abstract!Sound, Abstract!Log

LEMMA StepLog == IntactInv /\ LogInv /\ [Next]_vars => LogInv'
<1> SUFFICES ASSUME IntactInv, LogInv, [Next]_vars PROVE LogInv'
  OBVIOUS
<1>1. ASSUME NEW r \in Runs, StartRun(r) PROVE LogInv'
  <2>1. /\ EmittedOK' /\ PublishedIsLog'
    BY <1>1 DEF StartRun, EmittedOK, PublishedIsLog
  <2>2. Checked' = 0 /\ Checked = 0
    BY <1>1 DEF StartRun, Checked, IntactInv, ProcessOK
  <2> QED
    BY <2>1, <2>2 DEF LogInv, BufferIsLog
<1>2. CASE BeginSession
  BY <1>2, BeginLogged DEF BeginSession, disk, LogInv, PublishedIsLog
<1>3. CASE RefuseSession \/ RejectEvent
  BY <1>3 DEF RefuseSession, RejectEvent, disk, LogInv, EmittedOK, BufferIsLog, PublishedIsLog
<1>4. CASE LeaveTelemetry \/ WriteSpanFile \/ LeaveFlush
  BY <1>4 DEF LeaveTelemetry, WriteSpanFile, LeaveFlush, disk, LogInv, EmittedOK,
              BufferIsLog, Checked, PublishedIsLog
<1>5. CASE EmitEvent
  <2>1. EmittedOK'
    BY <1>5, EmitLogged DEF LogInv
  <2>2. /\ ~ failed' => Checked' = Checked
        /\ ~ truncated' => ~ truncated
    <3>1. ~ truncated' => ~ truncated
      BY <1>5, EmitBuffers, Zenon
    <3> QED
      BY <1>5, <3>1 DEF EmitEvent, Checked
  <2>3. \A i \in 1 .. Checked : spans'[i] = spans[i]
    BY <1>5, EmitBuffers DEF EmitEvent, Checked, IntactInv, TypeOK, ProcessOK
  <2>4. BufferIsLog'
    BY <1>5, <2>2, <2>3 DEF EmitEvent, LogInv, BufferIsLog, IntactInv, FlushOK
  <2> QED
    BY <1>5, <2>1, <2>4 DEF EmitEvent, disk, LogInv, PublishedIsLog
<1>6. CASE EndSession
  BY <1>6, EndLogged DEF EndSession, disk, LogInv, PublishedIsLog
<1>7. CASE RaiseFromRun \/ Crash \/ WriteManifest
  <2>1. EmittedOK' /\ BufferIsLog'
    BY <1>7 DEF RaiseFromRun, Crash, WriteManifest, ProcessEnds, EmittedOK, BufferIsLog, Checked
  <2>2. CASE WriteManifest
    BY <2>1, <2>2, PublishLogged DEF LogInv
  <2>3. CASE RaiseFromRun \/ Crash
    BY <2>1, <2>3 DEF RaiseFromRun, Crash, disk, LogInv, PublishedIsLog
  <2> QED
    BY <1>7, <2>2, <2>3
<1>8. CASE UNCHANGED vars
  BY <1>8 DEF vars, session, disk, LogInv, EmittedOK, BufferIsLog, PublishedIsLog, Checked,
              Clock, EmittedAt, CurrentScript, WithinPolicy, SessionStart
<1> QED
  BY <1>1, <1>2, <1>3, <1>4, <1>5, <1>6, <1>7, <1>8 DEF Next, Progress

-----------------------------------------------------------------------------
(* Nothing is offered at first, ...                                        *)
LEMMA OffersNothing == Init => Abstract!Init
  BY DEF Init, Published, Abstract!Init

(* ... a step that leaves the manifest alone leaves what it offers alone,  *)
(* ...                                                                     *)
LEMMA OfferKept ==
    ASSUME IntactInv, [Next]_vars, manifest' = manifest
    PROVE  UNCHANGED Published
<1>1. CASE manifest = NoManifest
  BY <1>1 DEF Published
<1>2. CASE manifest # NoManifest
  <2>1. files' = files
    BY <1>2, StepWithdraws DEF disk
  <2> QED
    BY <2>1 DEF Published, Listed
<1> QED
  BY <1>1, <1>2

(* ... and a manifest only comes with the log of a sound run.              *)
LEMMA OfferIsLog ==
    ASSUME IntactInv, LogInv, WriteManifest, manifest' # NoManifest
    PROVE  Abstract!Next
<1>1. /\ manifest = NoManifest /\ run \in Runs /\ index = Count[run] /\ written = index
      /\ \A i \in 1 .. index : files[i] = spans[i]
      /\ spans \in Seq(Seq(Spans)) /\ Len(spans) = index
      /\ files' = files /\ manifest'.files = spans /\ manifest'.run = run
  BY DEF WriteManifest, IntactInv, TypeOK, ProcessOK, FlushOK
<1>2. Abstract!Sound(run) /\ spans = Abstract!Log(run).sessions
  BY <1>1, PublishLogged DEF PublishedIsLog
<1>3. Published = NoManifest
  BY <1>1 DEF Published
<1>4. Published' = Abstract!Log(run)
  <2>1. Published' = [run |-> run, sessions |-> [i \in 1 .. index |-> files[i]]]
    <3>1. Listed' = 1 .. index
      BY <1>1 DEF Listed
    <3> QED
      BY <3>1, <1>1 DEF Published
  <2>2. [i \in 1 .. index |-> files[i]] = spans
    BY <1>1
  <2> QED
    BY <2>1, <2>2, <1>2 DEF Abstract!Log
<1> QED
  BY <1>1, <1>2, <1>3, <1>4 DEF Abstract!Next, Abstract!Publish

LEMMA OfferSteps ==
    ASSUME IntactInv, LogInv, [Next]_vars
    PROVE  Abstract!Next \/ UNCHANGED Published
<1>1. CASE manifest' = manifest
  BY <1>1, OfferKept
<1>2. CASE manifest' # manifest /\ manifest' = NoManifest
  <2>1. Published' = NoManifest
    BY <1>2 DEF Published
  <2>2. CASE Published = NoManifest
    BY <2>1, <2>2
  <2>3. CASE Published # NoManifest
    BY <2>1, <2>3 DEF Abstract!Next, Abstract!Withdraw
  <2> QED
    BY <2>2, <2>3
<1>3. CASE manifest' # manifest /\ manifest' # NoManifest
  <2>1. ASSUME NEW r \in Runs, StartRun(r) PROVE FALSE
    BY <1>3, <2>1 DEF StartRun
  <2>2. WriteManifest
    BY <1>3, <2>1 DEF Next, Progress, BeginSession, RefuseSession, LeaveTelemetry, EmitEvent,
       RejectEvent, EndSession, WriteSpanFile, RaiseFromRun, LeaveFlush, Crash, disk, vars
  <2> QED
    BY <1>3, <2>2, OfferIsLog
<1> QED
  BY <1>1, <1>2, <1>3

(* The directory of span files implements the register: whatever crashes,  *)
(* raises or is run again, it offers nothing or the whole log of a sound   *)
(* run, as the run's inputs determine it.                                  *)
THEOREM Implements == Spec => ImplementsPublishedRun
<1>1. Init => IntactInv /\ LogInv
  BY InitIntact, InitLog
<1>2. IntactInv /\ LogInv /\ [Next]_vars => IntactInv' /\ LogInv'
  BY StepIntact, StepLog
<1>3. IntactInv /\ LogInv /\ [Next]_vars => Abstract!Next \/ UNCHANGED Published
  BY OfferSteps
<1> QED
  BY <1>1, <1>2, <1>3, OffersNothing, PTL DEF Spec, ImplementsPublishedRun, Abstract!Spec

-----------------------------------------------------------------------------
(* A session is published only if it ran its whole script and lost nothing *)
(* of it.                                                                  *)
LEMMA LogIsComplete == IntactInv /\ PublishedIsLog => PublishedComplete
<1> SUFFICES ASSUME IntactInv, PublishedIsLog, manifest # NoManifest, NEW i \in Listed
             PROVE  /\ Len(manifest.files[i]) = Len(Script[Draw[manifest.run][i]])
                    /\ \A k \in DOMAIN manifest.files[i] : manifest.files[i][k].whole
  BY DEF PublishedComplete
<1> DEFINE r == manifest.run
<1>1. /\ r \in Runs /\ i \in 1 .. Count[r]
      /\ manifest.files[i] = Abstract!SessionLog(r, i)
  BY DEF PublishedIsLog, Listed, Abstract!Log
<1>2. Script[Draw[r][i]] \in Seq(Steps)
  BY <1>1, ScriptTyped
<1>3. DOMAIN manifest.files[i] = DOMAIN Script[Draw[r][i]]
  BY <1>1 DEF Abstract!SessionLog, Abstract!Steps
<1>4. manifest.files[i] \in Seq(Spans)
  BY DEF IntactInv, TypeOK, Manifests, Listed
<1>5. \A k \in DOMAIN manifest.files[i] : manifest.files[i][k].whole = TRUE
  BY <1>1 DEF Abstract!SessionLog
<1> QED
  BY <1>2, <1>3, <1>4, <1>5

(* What a sound session names it declares, the first time it is offered;   *)
(* and nothing after that offers to declare it outright.                   *)
LEMMA LogIsDeclared == PublishedIsLog => PublishedDeclared
<1> SUFFICES ASSUME PublishedIsLog, manifest # NoManifest, NEW i \in Listed
             PROVE  LET s == manifest.files[i]
                    IN  /\ \A k \in DOMAIN s : \A x \in s[k].refs :
                               \E j \in DOMAIN s : x \in s[j].declares
                        /\ \A j, k \in DOMAIN s : s[j].declares \cap s[k].declares # {} => j = k
  BY DEF PublishedDeclared
<1> DEFINE r == manifest.run
<1> DEFINE s == manifest.files[i]
<1> DEFINE steps == Abstract!Steps(r, i)
<1>1. /\ r \in Runs /\ i \in 1 .. Count[r]
      /\ s = Abstract!SessionLog(r, i) /\ Abstract!SoundSession(r, i)
  BY DEF PublishedIsLog, Listed, Abstract!Log, Abstract!Sound
<1>2. steps \in Seq(Steps)
  BY <1>1, ScriptTyped DEF Abstract!Steps
<1>3. PICK n \in Nat : n = Len(steps) /\ DOMAIN steps = 1 .. n
  BY <1>2
<1>4. /\ DOMAIN s = 1 .. n
      /\ \A k \in 1 .. n : /\ s[k].declares = Abstract!DeclaredAt(steps, k)
                           /\ s[k].refs = Abstract!Names(steps[k])
  BY <1>1, <1>3 DEF Abstract!SessionLog
<1>5. /\ \A k \in 1 .. n : Abstract!Forced(steps[k]) \cap Abstract!Earlier(steps, k) = {}
      /\ \A k \in 1 .. n : Abstract!Names(steps[k]) \subseteq Abstract!Earlier(steps, n + 1)
  BY <1>1, <1>3 DEF Abstract!SoundSession
<1> HIDE DEF s, steps
<1>6. ASSUME NEW k \in 1 .. n, NEW x \in s[k].refs
      PROVE  \E j \in 1 .. n : x \in s[j].declares
  <2> DEFINE T == {j \in 1 .. n : x \in Abstract!Offered(steps[j])}
  <2>1. T # {}
    <3>1. x \in Abstract!Earlier(steps, n + 1)
      BY <1>4, <1>5, <1>6
    <3>2. (n + 1) - 1 = n
      OBVIOUS
    <3> QED
      BY <3>1, <3>2 DEF Abstract!Earlier
  <2>2. PICK j \in T : \A l \in T : j <= l
    BY <2>1, FirstPosition
  <2>3. x \notin Abstract!Earlier(steps, j)
    BY <2>2 DEF Abstract!Earlier
  <2>4. x \in Abstract!DeclaredAt(steps, j)
    BY <2>2, <2>3 DEF Abstract!DeclaredAt
  <2> QED
    BY <1>4, <2>2, <2>4
<1>7. ASSUME NEW j \in 1 .. n, NEW k \in 1 .. n, j < k, NEW x,
             x \in s[j].declares, x \in s[k].declares
      PROVE  FALSE
  <2>1. Abstract!Forced(steps[j]) \subseteq Abstract!Offered(steps[j])
    BY DEF Abstract!Forced, Abstract!Offered
  <2>2. x \in Abstract!Offered(steps[j])
    BY <1>4, <1>7, <2>1 DEF Abstract!DeclaredAt
  <2>3. x \in Abstract!Earlier(steps, k)
    BY <1>7, <2>2 DEF Abstract!Earlier
  <2> QED
    BY <1>4, <1>5, <1>7, <2>3 DEF Abstract!DeclaredAt
<1>8. \A j, k \in 1 .. n : j = k \/ j < k \/ k < j
  OBVIOUS
<1> QED
  BY <1>4, <1>6, <1>7, <1>8 DEF s

(* No published session was cut short, by whatever way.                    *)
THEOREM Complete == Spec => []PublishedComplete
<1>1. Init => IntactInv /\ LogInv
  BY InitIntact, InitLog
<1>2. IntactInv /\ LogInv /\ [Next]_vars => IntactInv' /\ LogInv'
  BY StepIntact, StepLog
<1>3. IntactInv /\ LogInv => PublishedComplete
  BY LogIsComplete DEF LogInv
<1> QED
  BY <1>1, <1>2, <1>3, PTL DEF Spec

(* Every object a published session names is declared in it, once.         *)
THEOREM SelfContained == Spec => []PublishedDeclared
<1>1. Init => IntactInv /\ LogInv
  BY InitIntact, InitLog
<1>2. IntactInv /\ LogInv /\ [Next]_vars => IntactInv' /\ LogInv'
  BY StepIntact, StepLog
<1>3. LogInv => PublishedDeclared
  BY LogIsDeclared DEF LogInv
<1> QED
  BY <1>1, <1>2, <1>3, PTL DEF Spec

(***************************************************************************)
(* RunReader: what `ingest run` leaves on disk.  That the artefacts of one *)
(* ingest appear in order holds whatever the fleet does meanwhile          *)
(* (ArtefactsOK); that they are those of one intact run needs the two      *)
(* programs to take turns, and IntactInv; and that this run was sound,     *)
(* LogInv.                                                                 *)
(***************************************************************************)

(* Nothing has been written at first, and what is written is what was      *)
(* parsed, overlap or not.                                                 *)
LEMMA ArtefactsInit == ReaderInit => ArtefactsOK
  BY DEF ReaderInit, ArtefactsOK

LEMMA ArtefactsStep == ArtefactsOK /\ [ReaderNext]_rvars => ArtefactsOK'
<1> SUFFICES ASSUME ArtefactsOK, [ReaderNext]_rvars PROVE ArtefactsOK'
  OBVIOUS
<1> USE DEF ArtefactsOK
<1>1. CASE StartIngest \/ ReadProvenance \/ ReadListing \/ HashFile \/ ParseFile
           \/ Refuse \/ Interrupted
  BY <1>1 DEF StartIngest, ReadProvenance, ReadListing, HashFile, ParseFile, Refuse,
              Interrupted, ReaderEnds
<1>2. CASE MapAndWrite
  BY <1>2 DEF MapAndWrite, reading
<1>3. CASE ReplaceCoverage
  BY <1>3 DEF ReplaceCoverage, reading
<1>4. CASE ReplaceIndex
  BY <1>4 DEF ReplaceIndex, reading
<1>5. CASE ReplaceLog
  BY <1>5 DEF ReplaceLog, ReaderEnds
<1>6. CASE FleetStep \/ UNCHANGED rvars
  BY <1>6 DEF FleetStep, rvars, ingest, reading, artefacts
<1> QED
  BY <1>1, <1>2, <1>3, <1>4, <1>5, <1>6 DEF ReaderNext, IngestStep

(* Only the last rename touches the log.                                   *)
LEMMA StepFresh ==
    ASSUME ArtefactsOK, [ReaderNext]_rvars
    PROVE  log' # log => spanIndex' = log' /\ coverage'.sessions = log'
<1>1. CASE ReplaceLog
  BY <1>1 DEF ReplaceLog, ArtefactsOK
<1>2. CASE StartIngest \/ ReadProvenance \/ ReadListing \/ HashFile \/ ParseFile
           \/ MapAndWrite \/ ReplaceCoverage \/ ReplaceIndex \/ Refuse \/ Interrupted
  BY <1>2 DEF StartIngest, ReadProvenance, ReadListing, HashFile, ParseFile, MapAndWrite,
              ReplaceCoverage, ReplaceIndex, Refuse, Interrupted, artefacts
<1>3. CASE FleetStep \/ UNCHANGED rvars
  BY <1>3 DEF FleetStep, rvars, ingest, artefacts
<1> QED
  BY <1>1, <1>2, <1>3 DEF ReaderNext, IngestStep

(* A log appears only beside the coverage report and the span index of the *)
(* same spans, wherever ingests are interrupted and whatever the fleet     *)
(* does to the directory meanwhile.                                        *)
THEOREM Fresh == ReaderSpec => FreshLogFreshSidecars
  BY ArtefactsInit, ArtefactsStep, StepFresh, PTL DEF ReaderSpec, FreshLogFreshSidecars

-----------------------------------------------------------------------------
LEMMA ManifestsTyped ==
    ASSUME NEW m \in Manifests
    PROVE  m.files \in Logs /\ Len(m.files) \in Nat
  BY DEF Manifests, Logs

(* Neither program's steps disturb the fleet's own invariants.             *)
LEMMA ReaderKeepsFleet ==
    IntactInv /\ LogInv /\ [ReaderNext]_rvars => IntactInv' /\ LogInv'
<1> SUFFICES ASSUME IntactInv, LogInv, [ReaderNext]_rvars PROVE IntactInv' /\ LogInv'
  OBVIOUS
<1>1. [Next]_vars
  BY DEF ReaderNext, IngestStep, FleetStep, rvars, StartIngest, ReadProvenance, ReadListing,
         HashFile, ParseFile, MapAndWrite, ReplaceCoverage, ReplaceIndex, ReplaceLog,
         Refuse, Interrupted
<1> QED
  BY <1>1, StepIntact, StepLog

(* What an ingest holds is of its type even when the fleet runs under it:  *)
(* the manifest it lists files by has been a manifest of the directory.    *)
HoldsOK ==
    /\ step \notin {"idle", "provenance"} => provenance \in Manifests
    /\ step \in {"hash", "parse"} =>
           listing \in Manifests /\ DOMAIN listing.files \subseteq Slots
    /\ step = "parse" => At \in DOMAIN listing.files
    /\ step \in {"coverage", "index", "log"} => tmpLog \in Logs

LEMMA SlotsListed ==
    ASSUME IntactInv, LogInv, manifest # NoManifest
    PROVE  /\ manifest \in Manifests /\ manifest.files \in Logs
           /\ Len(manifest.files) \in Nat
           /\ DOMAIN manifest.files \subseteq Slots
<1>1. manifest \in Manifests /\ manifest.files \in Logs /\ Len(manifest.files) \in Nat
  BY ManifestsTyped DEF IntactInv, TypeOK
<1>2. manifest.run \in Runs /\ manifest.files = Abstract!Log(manifest.run).sessions
  BY DEF LogInv, PublishedIsLog
<1>3. DOMAIN manifest.files = 1 .. Count[manifest.run]
  BY <1>2 DEF Abstract!Log
<1> QED
  BY <1>1, <1>2, <1>3 DEF Slots

LEMMA HoldsStep ==
    ASSUME IntactInv, LogInv, ReaderTypeOK, HoldsOK, [ReaderNext]_rvars
    PROVE  ReaderTypeOK' /\ HoldsOK'
<1> USE DEF ReaderTypeOK, HoldsOK
<1>1. CASE StartIngest
  BY <1>1 DEF StartIngest, reading, artefacts
<1>2. CASE ReadProvenance
  BY <1>2, SlotsListed DEF ReadProvenance, artefacts
<1>3. CASE ReadListing
  BY <1>3, SlotsListed DEF ReadListing, artefacts
<1>4. CASE HashFile
  <2>1. Len(parsed) \in Nat /\ listing \in Manifests
    BY <1>4 DEF HashFile, Logs
  <2>2. At \in DOMAIN listing.files
    BY <1>4, <2>1, ManifestsTyped DEF HashFile, At, Logs
  <2>3. At' = At
    BY <1>4 DEF HashFile, reading, At
  <2> QED
    BY <1>4, <2>2, <2>3 DEF HashFile, reading, artefacts
<1>5. CASE ParseFile
  <2>1. At \in Slots
    BY <1>5 DEF ParseFile
  <2>2. files[At] \in Seq(Spans)
    BY <1>5, <2>1 DEF ParseFile, IntactInv, TypeOK
  <2>3. parsed' \in Logs
    BY <1>5, <2>2 DEF ParseFile, Logs
  <2> QED
    BY <1>5, <2>3 DEF ParseFile, artefacts
<1>6. CASE MapAndWrite
  BY <1>6 DEF MapAndWrite, reading
<1>7. CASE ReplaceCoverage
  <2>1. provenance \in Manifests /\ parsed \in Logs
    BY <1>7 DEF ReplaceCoverage
  <2>2. coverage' \in Coverages
    BY <1>7, <2>1 DEF ReplaceCoverage, Coverages
  <2> QED
    BY <1>7, <2>2 DEF ReplaceCoverage, reading
<1>8. CASE ReplaceIndex
  BY <1>8 DEF ReplaceIndex, reading
<1>9. CASE ReplaceLog \/ Refuse \/ Interrupted
  <2>1. parsed' = << >> /\ step' = "idle" /\ provenance' = Nothing /\ listing' = Nothing
    BY <1>9 DEF ReplaceLog, Refuse, Interrupted, ReaderEnds
  <2>2. << >> \in Logs
    BY DEF Logs
  <2> QED
    BY <1>9, <2>1, <2>2 DEF ReplaceLog, Refuse, Interrupted, artefacts
<1>10. CASE FleetStep \/ UNCHANGED rvars
  <2>1. UNCHANGED ingest
    BY <1>10 DEF FleetStep, rvars
  <2>2. UNCHANGED <<step, provenance, listing, parsed, tmpLog, coverage, spanIndex, log>>
    BY <2>1 DEF ingest, reading, artefacts
  <2>3. At' = At
    BY <2>2 DEF At
  <2> QED
    BY <2>2, <2>3
<1> QED
  BY <1>1, <1>2, <1>3, <1>4, <1>5, <1>6, <1>7, <1>8, <1>9, <1>10 DEF ReaderNext, IngestStep

(* An ingest only ever holds and leaves values of their type, also when a  *)
(* run of the fleet rewrites the directory between its reads.              *)
THEOREM ReaderTypeCorrect == ReaderSpec => []ReaderTypeOK
<1> DEFINE Inv == IntactInv /\ LogInv /\ ReaderTypeOK /\ HoldsOK
<1>1. ReaderInit => Inv
  BY InitIntact, InitLog DEF ReaderInit, ReaderTypeOK, HoldsOK, Logs
<1>2. Inv /\ [ReaderNext]_rvars => Inv'
  BY ReaderKeepsFleet, HoldsStep
<1>3. Inv => ReaderTypeOK
  OBVIOUS
<1> HIDE DEF Inv
<1> QED
  BY <1>1, <1>2, <1>3, PTL DEF ReaderSpec

-----------------------------------------------------------------------------
(* Nothing is read and nothing written at first.                           *)
LEMMA ReaderInitOK == ReaderInit => ReaderInv
<1> SUFFICES ASSUME ReaderInit PROVE ReaderInv
  OBVIOUS
<1>1. IntactInv
  BY InitIntact DEF ReaderInit
<1>2. ReaderTypeOK
  BY DEF ReaderInit, ReaderTypeOK, Logs
<1>3. ReadingOK /\ CoverageOfItsManifest
  BY DEF ReaderInit, Init, ReadingOK, CoverageOfItsManifest
<1> QED
  BY <1>1, <1>2, <1>3 DEF ReaderInv

(* An ingest that gives up leaves the artefacts as they are.               *)
LEMMA EndingKeepsReading ==
    ASSUME ReaderInv, ReaderEnds, UNCHANGED vars, UNCHANGED artefacts
    PROVE  ReaderTypeOK' /\ ReadingOK' /\ CoverageOfItsManifest'
  BY DEF ReaderInv, ReaderEnds, artefacts, ReaderTypeOK, ReadingOK, CoverageOfItsManifest,
         Logs, vars

(* What an ingest has read by the time it maps is the manifest's files.    *)
LEMMA ParsedAll ==
    ASSUME ReaderInv, step \in {"coverage", "index", "log"}
    PROVE  /\ provenance \in Manifests /\ parsed \in Logs
           /\ parsed = provenance.files
<1>1. manifest \in Manifests /\ provenance = manifest /\ parsed \in Logs
  BY DEF ReaderInv, ReaderTypeOK, ReadingOK, IntactInv, TypeOK
<1>2. /\ Len(parsed) = Len(manifest.files)
      /\ \A i \in DOMAIN parsed : parsed[i] = manifest.files[i]
  BY DEF ReaderInv, ReadingOK
<1>3. manifest.files \in Logs
  BY <1>1, ManifestsTyped
<1> QED
  BY <1>1, <1>2, <1>3 DEF Logs

LEMMA ReaderStepOK ==
    Exclusive /\ ReaderInv /\ LogInv /\ [ReaderNext]_rvars => ReaderInv' /\ LogInv'
<1> SUFFICES ASSUME Exclusive, ReaderInv, LogInv, [ReaderNext]_rvars
             PROVE  ReaderTypeOK' /\ ReadingOK' /\ CoverageOfItsManifest'
  BY ReaderKeepsFleet DEF ReaderInv
<1> USE DEF ReaderInv
<1>m. manifest # NoManifest => /\ manifest \in Manifests
                               /\ manifest.files \in Logs /\ Len(manifest.files) \in Nat
                               /\ \A i \in DOMAIN manifest.files : files[i] = manifest.files[i]
  BY ManifestsTyped DEF IntactInv, TypeOK, ManifestIntact, Listed
<1>1. CASE StartIngest
  BY <1>1 DEF StartIngest, reading, artefacts, vars, ReaderTypeOK, ReadingOK, CoverageOfItsManifest
<1>2. CASE ReadProvenance
  BY <1>2, <1>m DEF ReadProvenance, artefacts, vars, ReaderTypeOK, ReadingOK, CoverageOfItsManifest
<1>3. CASE ReadListing
  <2>1. Len(parsed') = 0 /\ DOMAIN parsed' = {}
    BY <1>3 DEF ReadListing, ReadingOK
  <2> QED
    BY <1>3, <1>m, <2>1 DEF ReadListing, artefacts, vars, ReaderTypeOK, ReadingOK,
                            CoverageOfItsManifest
<1>4. CASE HashFile
  <2>1. Len(parsed) \in Nat
    BY DEF ReaderTypeOK, Logs
  <2> QED
    BY <1>4, <1>m, <2>1 DEF HashFile, DigestMatches, At, reading, artefacts, vars, ReaderTypeOK,
                            ReadingOK, CoverageOfItsManifest
<1>5. CASE ParseFile
  <2>1. /\ parsed \in Logs /\ Len(parsed) \in Nat
        /\ files[At] = manifest.files[At] /\ At \in DOMAIN manifest.files
    BY <1>5, <1>m DEF ParseFile, ReaderTypeOK, ReadingOK, Logs, At
  <2>2. files[At] \in Seq(Spans)
    BY <1>5, <1>m, <2>1 DEF ParseFile, ReadingOK, Logs
  <2>3. /\ parsed' \in Logs /\ Len(parsed') = Len(parsed) + 1
        /\ \A i \in DOMAIN parsed' : parsed'[i] = manifest.files[i]
    BY <1>5, <2>1, <2>2 DEF ParseFile, ReadingOK, Logs, At
  <2>4. ReaderTypeOK' /\ CoverageOfItsManifest'
    BY <1>5, <2>3 DEF ParseFile, artefacts, ReaderTypeOK, CoverageOfItsManifest
  <2>5. ReadingOK'
    BY <1>5, <1>m, <2>1, <2>3 DEF ParseFile, vars, ReadingOK
  <2> QED
    BY <2>4, <2>5
<1>6. CASE MapAndWrite
  <2>1. ReaderTypeOK' /\ CoverageOfItsManifest'
    BY <1>6 DEF MapAndWrite, reading, ReaderTypeOK, CoverageOfItsManifest
  <2>2. Len(parsed) = Len(manifest.files)
    BY <1>6, <1>m DEF MapAndWrite, At, ReaderTypeOK, ReadingOK, Logs
  <2>3. ReadingOK'
    BY <1>6, <2>2 DEF MapAndWrite, reading, vars, ReadingOK
  <2> QED
    BY <2>1, <2>3
<1>7. CASE ReplaceCoverage
  <2>1. provenance \in Manifests /\ parsed \in Logs /\ parsed = provenance.files
    BY <1>7, ParsedAll DEF ReplaceCoverage
  <2>2. ReaderTypeOK' /\ CoverageOfItsManifest'
    BY <1>7, <2>1 DEF ReplaceCoverage, reading, ReaderTypeOK, CoverageOfItsManifest, Coverages
  <2>3. ReadingOK'
    BY <1>7 DEF ReplaceCoverage, reading, vars, ReadingOK
  <2> QED
    BY <2>2, <2>3
<1>8. CASE ReplaceIndex
  BY <1>8 DEF ReplaceIndex, reading, vars, ReaderTypeOK, ReadingOK, CoverageOfItsManifest
<1>9. CASE ReplaceLog
  BY <1>9 DEF ReplaceLog, ReaderEnds, vars, ReaderTypeOK, ReadingOK, CoverageOfItsManifest, Logs
<1>10. CASE Refuse \/ Interrupted
  BY <1>10, EndingKeepsReading DEF Refuse, Interrupted
<1>11. CASE FleetStep
  BY <1>11 DEF FleetStep, ingest, reading, artefacts, ReaderTypeOK, ReadingOK,
               CoverageOfItsManifest
<1>12. CASE UNCHANGED rvars
  BY <1>12 DEF rvars, vars, ingest, reading, artefacts, ReaderTypeOK, ReadingOK,
               CoverageOfItsManifest, At
<1> QED
  BY <1>1, <1>2, <1>3, <1>4, <1>5, <1>6, <1>7, <1>8, <1>9, <1>10, <1>11, <1>12
     DEF ReaderNext, IngestStep

(* When the fleet and the ingest take turns, the coverage report counts    *)
(* exactly the files of the manifest whose provenance it echoes, for any   *)
(* scenario, any runs over the directory and any crashes of either.        *)
THEOREM CoverageFaithful ==
    ASSUME Exclusive
    PROVE  ReaderSpec => []CoverageOfItsManifest
<1>1. ReaderInit => ReaderInv /\ LogInv
  BY ReaderInitOK, InitLog DEF ReaderInit
<1>2. ReaderInv /\ LogInv /\ [ReaderNext]_rvars => ReaderInv' /\ LogInv'
  BY ReaderStepOK
<1>3. ReaderInv => CoverageOfItsManifest
  BY DEF ReaderInv
<1> QED
  BY <1>1, <1>2, <1>3, PTL DEF ReaderSpec

-----------------------------------------------------------------------------
(* Only the last rename touches the log, and it installs what was parsed:  *)
(* the files of the manifest, which are the log of its run.                *)
LEMMA StepSound ==
    ASSUME ReaderInv, LogInv, ArtefactsOK, LogIsASoundRun, [ReaderNext]_rvars
    PROVE  LogIsASoundRun'
<1>1. CASE ReplaceLog
  <2>1. log' = parsed /\ parsed = provenance.files /\ provenance = manifest
    BY <1>1, ParsedAll DEF ReplaceLog, ArtefactsOK, ReaderInv, ReadingOK
  <2>2. manifest # NoManifest
    BY <1>1 DEF ReplaceLog, ReaderInv, ReadingOK
  <2>3. /\ manifest.run \in Runs /\ Abstract!Sound(manifest.run)
        /\ log' = Abstract!Log(manifest.run).sessions
    BY <2>1, <2>2 DEF LogInv, PublishedIsLog
  <2> QED
    BY <2>3 DEF LogIsASoundRun
<1>2. CASE log' = log
  BY <1>2 DEF LogIsASoundRun
<1> QED
  BY <1>1, <1>2 DEF ReaderNext, IngestStep, FleetStep, rvars, ingest, artefacts,
     StartIngest, ReadProvenance, ReadListing, HashFile, ParseFile, MapAndWrite,
     ReplaceCoverage, ReplaceIndex, Refuse, Interrupted

(* When the fleet and the ingest take turns, the log on disk is the whole  *)
(* log of one run whose inputs are sound, wherever either was cut short.   *)
THEOREM SoundLog ==
    ASSUME Exclusive
    PROVE  ReaderSpec => []LogIsASoundRun
<1> DEFINE Inv == ReaderInv /\ LogInv /\ ArtefactsOK /\ LogIsASoundRun
<1>1. ReaderInit => Inv
  BY ReaderInitOK, ArtefactsInit, InitLog DEF ReaderInit, LogIsASoundRun
<1>2. Inv /\ [ReaderNext]_rvars => Inv'
  <2> SUFFICES ASSUME Inv, [ReaderNext]_rvars PROVE Inv'
    OBVIOUS
  <2>1. ReaderInv' /\ LogInv' /\ ArtefactsOK'
    BY ReaderStepOK, ArtefactsStep
  <2>2. LogIsASoundRun'
    BY StepSound
  <2> QED
    BY <2>1, <2>2
<1>3. Inv => LogIsASoundRun
  OBVIOUS
<1> HIDE DEF Inv
<1> QED
  BY <1>1, <1>2, <1>3, PTL DEF ReaderSpec

=============================================================================
