------------------------------ MODULE RunReader ------------------------------
(***************************************************************************)
(* `ingest run` over a directory that run_fleet writes: read_manifest,     *)
(* read_spans and read_run of ingest/otel_reader.py, and _cmd_run of       *)
(* ingest/__main__.py, composed with FleetRun.                             *)
(*                                                                         *)
(* The command reads the manifest twice (once for the provenance the       *)
(* coverage report echoes, once to iterate it), hashes one read of every   *)
(* span file, parses another, maps the spans to a log and leaves three     *)
(* artefacts: coverage report, span index and, last, the log.  It may be   *)
(* interrupted anywhere.                                                   *)
(*                                                                         *)
(* The Makefile runs `scenario run` and `ingest run` one after the other.  *)
(* Exclusive says whether they are: when it is FALSE a run of the fleet    *)
(* may start while an ingest is reading, and the other way round.          *)
(***************************************************************************)
EXTENDS FleetRun

CONSTANTS Exclusive,  \* no run of the fleet and no ingest overlap
          Nothing     \* no artefact, and nothing read yet

ASSUME ExclusiveAssumption == Exclusive \in BOOLEAN
ASSUME NothingAssumption == Nothing \notin Manifests

(* What an ingest parsed, file by file, stands for what it maps.           *)
Logs == Seq(Seq(Spans))
Coverages == [manifest : Manifests, sessions : Logs]

VARIABLES
    step,       \* where _cmd_run is; "idle" when no ingest is running
    provenance, \* the manifest _cmd_run read
    listing,    \* the manifest read_run read
    parsed,     \* the sessions parsed so far
    tmpLog,     \* the log under its temporary name
    coverage,   \* the coverage report, which echoes the manifest
    spanIndex,  \* the span index
    log         \* the OCEL log

reading   == <<provenance, listing, parsed>>
artefacts == <<tmpLog, coverage, spanIndex, log>>
ingest    == <<step, reading, artefacts>>
rvars     == <<vars, ingest>>

ReaderTypeOK ==
    /\ step \in {"idle", "provenance", "manifest", "hash", "parse", "coverage", "index", "log"}
    /\ provenance \in Manifests \cup {Nothing}
    /\ listing \in Manifests \cup {Nothing}
    /\ parsed \in Logs
    /\ tmpLog \in Logs \cup {Nothing}
    /\ coverage \in Coverages \cup {Nothing}
    /\ spanIndex \in Logs \cup {Nothing}
    /\ log \in Logs \cup {Nothing}

ReaderInit ==
    /\ Init
    /\ step = "idle"
    /\ provenance = Nothing
    /\ listing = Nothing
    /\ parsed = <<>>
    /\ tmpLog = Nothing
    /\ coverage = Nothing
    /\ spanIndex = Nothing
    /\ log = Nothing

-----------------------------------------------------------------------------
(* The command starts; with Exclusive, not while the fleet is running.     *)
StartIngest ==
    /\ step = "idle"
    /\ Exclusive => pc = "idle"
    /\ step' = "provenance"
    /\ UNCHANGED <<vars, reading, artefacts>>

(* Mutant of ReadProvenance: the manifest is remembered from the ingest    *)
(* before.                                                                 *)
ReadProvenanceOnce ==
    /\ step = "provenance"
    /\ manifest # NoManifest
    /\ provenance' = IF coverage = Nothing THEN manifest ELSE coverage.manifest
    /\ step' = "manifest"
    /\ UNCHANGED <<vars, listing, parsed, artefacts>>

(* Mutant of ReadProvenance: nothing looks whether there is a manifest.    *)
ReadProvenanceAnyway ==
    /\ step = "provenance"
    /\ provenance' = manifest
    /\ step' = "manifest"
    /\ UNCHANGED <<vars, listing, parsed, artefacts>>

(* read_manifest, called by _cmd_run.                                      *)
ReadProvenance ==
    /\ step = "provenance"
    /\ manifest # NoManifest
    /\ provenance' = manifest
    /\ step' = "manifest"
    /\ UNCHANGED <<vars, listing, parsed, artefacts>>

(* read_manifest again, called by read_run.                                *)
ReadListing ==
    /\ step = "manifest"
    /\ manifest # NoManifest
    /\ listing' = manifest
    /\ step' = "hash"
    /\ UNCHANGED <<vars, provenance, parsed, artefacts>>

(* The number of the file read_run is at.                                  *)
At == Len(parsed) + 1

DigestMatches(i) == files[i] # NoFile /\ files[i] = listing.files[i]

(* The file exists and the digest of its bytes is the listed one.          *)
HashFile ==
    /\ step = "hash"
    /\ At <= Len(listing.files)
    /\ DigestMatches(At)
    /\ step' = "parse"
    /\ UNCHANGED <<vars, reading, artefacts>>

(* read_spans opens the file once more and parses what it holds now.       *)
ParseFile ==
    /\ step = "parse"
    /\ files[At] # NoFile
    /\ parsed' = Append(parsed, files[At])
    /\ step' = "hash"
    /\ UNCHANGED <<vars, provenance, listing, artefacts>>

(* A file holds one trace and files of different sessions share no span,   *)
(* so the number of traces is the number of files.                         *)
CountAgrees == Len(parsed) = listing.session_count

(* All files are read and the traces counted; the spans are mapped and the *)
(* log is written under its temporary name.                                *)
MapAndWrite ==
    /\ step = "hash"
    /\ At > Len(listing.files)
    /\ CountAgrees
    /\ tmpLog' = parsed
    /\ step' = "coverage"
    /\ UNCHANGED <<vars, reading, coverage, spanIndex, log>>

(* Mutant of ReplaceCoverage: the log is renamed before its sidecars.      *)
ReplaceLogFirst ==
    /\ step = "coverage"
    /\ log' = tmpLog
    /\ coverage' = [manifest |-> provenance, sessions |-> parsed]
    /\ step' = "index"
    /\ UNCHANGED <<vars, reading, tmpLog, spanIndex>>

ReplaceCoverage ==
    /\ step = "coverage"
    /\ coverage' = [manifest |-> provenance, sessions |-> parsed]
    /\ step' = "index"
    /\ UNCHANGED <<vars, reading, tmpLog, spanIndex, log>>

ReplaceIndex ==
    /\ step = "index"
    /\ spanIndex' = parsed
    /\ step' = "log"
    /\ UNCHANGED <<vars, reading, tmpLog, coverage, log>>

ReaderEnds ==
    /\ step' = "idle"
    /\ provenance' = Nothing
    /\ listing' = Nothing
    /\ parsed' = <<>>

(* os.replace of the temporary log: the artefacts are complete.            *)
ReplaceLog ==
    /\ step = "log"
    /\ log' = tmpLog
    /\ tmpLog' = Nothing
    /\ ReaderEnds
    /\ UNCHANGED <<vars, coverage, spanIndex>>

(* No manifest (exit 3), a missing file, a wrong digest or a wrong number  *)
(* of traces (exit 6; not after run_fleet, which counts what it lists).    *)
Unreadable ==
    \/ step \in {"provenance", "manifest"} /\ manifest = NoManifest
    \/ step = "hash" /\ At <= Len(listing.files) /\ ~ DigestMatches(At)
    \/ step = "hash" /\ At > Len(listing.files) /\ ~ CountAgrees

Refuse ==
    /\ Unreadable
    /\ ReaderEnds
    /\ UNCHANGED <<vars, artefacts>>

(* The mapper or the model refuses the spans, or the process dies.         *)
Interrupted ==
    /\ step # "idle"
    /\ ReaderEnds
    /\ UNCHANGED <<vars, artefacts>>

IngestStep ==
    \/ StartIngest \/ ReadProvenance \/ ReadListing \/ HashFile \/ ParseFile
    \/ MapAndWrite \/ ReplaceCoverage \/ ReplaceIndex \/ ReplaceLog
    \/ Refuse \/ Interrupted

FleetStep ==
    /\ Exclusive => step = "idle"
    /\ Next
    /\ UNCHANGED ingest

ReaderNext == IngestStep \/ FleetStep

ReaderSpec == ReaderInit /\ [][ReaderNext]_rvars

-----------------------------------------------------------------------------
(* When the fleet and the ingest do not overlap, the coverage report       *)
(* counts exactly the sessions of the manifest it names as provenance,     *)
(* although the manifest and the span files are each read twice.           *)
CoverageOfItsManifest ==
    coverage # Nothing => coverage.sessions = coverage.manifest.files

(* ... and the log is the whole log of one run whose inputs are sound:     *)
(* no crash of either program and no rerun gives a log that mixes two runs *)
(* or misses a session.                                                    *)
LogIsASoundRun ==
    log # Nothing =>
        \E r \in Runs : Abstract!Sound(r) /\ log = Abstract!Log(r).sessions

(* "a failure part-way never leaves a fresh log paired with stale          *)
(* sidecars" (ingest/__main__.py:124): a log appears only when the         *)
(* sidecars on disk are those of the same spans.                           *)
FreshLogFreshSidecars ==
    [][log' # log => /\ spanIndex' = log'
                     /\ coverage'.sessions = log']_artefacts

-----------------------------------------------------------------------------
(* The strengthening under which the artefacts are sound.  What the later  *)
(* steps write is what was parsed, overlap or not.                         *)
ArtefactsOK ==
    /\ step \in {"coverage", "index", "log"} => tmpLog = parsed
    /\ step \in {"index", "log"} => coverage.sessions = parsed
    /\ step = "log" => spanIndex = parsed

(* While an ingest runs alone the directory stands still under it.         *)
ReadingOK ==
    /\ step # "idle" => pc = "idle"
    /\ step \notin {"idle", "provenance"} => provenance = manifest /\ manifest # NoManifest
    /\ step \notin {"idle", "provenance", "manifest"} =>
           /\ listing = manifest
           /\ Len(parsed) <= Len(manifest.files)
           /\ \A i \in DOMAIN parsed : parsed[i] = manifest.files[i]
    /\ step \in {"idle", "provenance", "manifest"} => parsed = <<>>
    /\ step = "parse" => /\ Len(parsed) < Len(manifest.files)
                         /\ files[At] = manifest.files[At]
    /\ step \in {"coverage", "index", "log"} => Len(parsed) = Len(manifest.files)

ReaderInv == IntactInv /\ ReaderTypeOK /\ ReadingOK /\ CoverageOfItsManifest

=============================================================================
