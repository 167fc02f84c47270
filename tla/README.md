# Verification of The Auditor's Trace

TLA+ models of the pipeline in `src/`, their model checking with TLC, and
proofs with TLAPS. The pipeline turns the telemetry of a fleet of LLM agents
into article-level audit evidence: a scenario run writes span files, an injector
makes labelled splits of it, a reader and mapper turn spans into an OCEL log, a
constraint engine finds violations in the log, a renderer chains evidence
records, and an evaluation compares engine and LLM judge with the labels.

Paths below are relative to `src/src/auditors_trace/` unless they start with
`src/`.

## 1. The system

| Component | Source | State it keeps | Operations |
|---|---|---|---|
| Agent fleet run | `scenario/agents.py`, `emit.py`, `clock.py` | per session: sequence number, simulated clock, declared and referenced objects; per run: the session counter | `run_fleet`, `run_session`, `event_span`, `declare_once`, `check_declarations`, the four agent nodes |
| Exporter and manifest | `scenario/telemetry.py` | buffer of spans, truncation record, the files written; on disk span files and `manifest.json` | `export`, `shutdown`, `telemetry`, `write_manifest` |
| Decision policy | `scenario/policy.py` | none | `assess`, `approval_decision`, `final_outcome` |
| Scenario data and back ends | `scenario/catalogue.py`, `tools.py`, `models.py`, `seed.py` | none | loaders, tool and model calls |
| Fault injector | `scenario/injector.py` | session rows as rewritten so far, labels, the split directories | allocation, `fault_v1` to `fault_v8`, `_apply_d1`, renumbering, the directory swap |
| Constraint engine | `constraints/templates.py`, `standard.py`, `engine.py` | none | one function per template, `evaluate` |
| Rule set and crosswalk loaders | `constraints/ruleset.py`, `evidence/crosswalk.py` | none | validation of YAML documents |
| Span reader | `ingest/otel_reader.py` | none | `read_run`, `build_span_trees` |
| Mapper | `ingest/mapper.py`, `model/span_contract.py` | declarations, events and span index while a run is mapped | `map_span_trees`, `validate_event` |
| Attribute coverage | `ingest/attribute_map.py` | none | `normalise_attributes`, `build_coverage` |
| OCEL model and files | `model/log.py`, `model/io.py`, `model/ocel_schema.py` | none | validation, serialisation, `log_hash` |
| Evidence | `evidence/record.py`, `renderer.py`, `chain.py`, `pack.py` | the chained list of records | `render_all`, `chain`, `verify_chain` |
| Command line | `cli.py`, `scenario/__main__.py`, `ingest/__main__.py` | output files | `check`, `pack`, `judge`, `run`, `inject`, `map` |
| LLM judge baseline | `baselines/llm_judge.py` | the response cache | `judge`, `judge_all`, `modal_verdict`, `majority_vote` |
| Other baselines | `baselines/declare_flat.py`, `ocdfg.py` | none | adapters to pm4py |
| Metrics | `eval/metrics.py` | none | `confusion`, `determinism_score`, `adjudication_queue` |

**How they interact.** Everything is passed through directories and files. The
fleet run writes a span directory whose only entry point is its manifest. The
injector reads such a directory and writes three of the same kind, with a
`labels.json` in each. The reader goes through a manifest and checks digests,
the mapper makes a log of what it read, the engine is a pure function of the log
and a rule set, and the renderer is a pure function of the violations and a few
pinned inputs. The command line runs single-threaded processes; two of them may
run at the same time, or one after another over the same directory, and each may
die at any point.

**What is hard.** The processes themselves are sequential, so the hazards are
not threads but *directories shared in time* (crash in the middle of a rewrite,
a rerun with other inputs, files of an earlier run), *partial failure* (an
exception through a `finally` that still writes, one split of three), *long
sequences of rewrites* whose later steps use what earlier ones computed or
removed (up to three faults in a session, plus a decision borrowed from another
session), *forward references* between objects declared by different agents,
*simulated time* laid out at a fixed stride, *reading a file twice*, *objects
shared by traces that are mapped in no meaningful order*, *provenance that must
cover every input*, and *a cache of paid answers shared by sweeps*. They are
listed one by one, each at its line, under `hazards` in `PROJECT.json`.

**What makes each part correct.**

- Fleet run and exporter: a manifest on disk always describes the files beside
  it; what it lists is complete, self-contained (every object named is declared
  once) and strictly ordered in simulated time.
- Injector: the engine finds in an injected split exactly what the labels say;
  the split still is a run the mapper accepts; nothing raises once writing has
  begun; quotas are met whenever they can be.
- Split directories: never the files of two injections in one split; a split
  appears only whole; an injection that returned left its own splits.
- Engine: each template computes what its statement says, independently of the
  others (checked through the injector: every rule against every fault).
- Reader: what is parsed is what was hashed; exactly the trees are accepted, and
  a span that is not an event belongs to the nearest event above it.
- Mapper: what a run is accepted as does not depend on the order of its traces,
  and nothing half-checked reaches the log.
- Evidence: a rerun command gives its bundle back, but for the inputs that no pin
  covers, or is refused for a cause;
  every copy that verifies is the beginning of a bundle; outputs are whole.
- Judge cache: nothing is paid for twice, and sweeps, resumed ones and replays
  report the same answers to the same questions.
- Metrics: greedy matching scores what a best matching would, or is bounded by
  it where it does not.

## 2. Modules

| Module | What it models |
|---|---|
| `FleetRun` | a fleet run over an output directory, for any scenario |
| `PublishedRun` | the abstract specification: a register that holds nothing or the log of one sound run |
| `CreditFleet` | the event scripts of the credit scenario, per class of applicant |
| `Injector` | allocation, faults, distractor, renumbering and labels of one split; composes `CreditFleet` (its input) and `Templates` (its oracle) |
| `Templates` | the rules T1 to T5 and STD.policy_version_current, and the two synchronised templates, as operators on a log |
| `SplitStore` | the file system steps of the injector's write loop |
| `RunReader` | `ingest run` over the directory of `FleetRun`, which it extends |
| `SpanTrees` | the two walks over the spans of one trace: down to accept it, up to attribute its spans |
| `Mapper` | the merging of traces into one log, and what the log's constructor checks |
| `EvidenceChain` | the hash chain of a bundle, and copies of bundles that were tampered with |
| `CheckRerun` | `check` and `pack` over artefacts that change; extends `EvidenceChain` |
| `JudgeCache` | sweeps of the LLM judge over one response cache |
| `JudgeScores` | the aggregates and scores of a sweep; extends `JudgeCache` |
| `InjectorProofs`, `SplitStoreProofs`, `SpanTreesProofs`, `MapperProofs`, `CheckRerunProofs`, `JudgeProofs` | theorems, each about the module it extends |
| `RunReaderProofs` | theorems about `FleetRun`, and about `RunReader` |
| `DetectionProofs` | theorems about `Injector` and `Templates` together; extends `InjectorProofs` |
| `MCFleetCredit`, `MCInjector`, `MCSplitStore`, `MCRunReader`, `MCSpanTrees`, `MCMapper`, `MCCheckRerun`, `MCJudge` | constants for TLC |

Three modules are compositions. `RunReader` lets the steps of `FleetRun` and of
the ingest alternate over one directory. `Injector` feeds on the scripts of
`CreditFleet` and is judged by `Templates`. `CheckRerun` makes the bundles that
`EvidenceChain` hands to an auditor.

### FleetRun

`pc` follows `run_fleet`: `next` is the head of the session loop, `emit` the
inside of a session, `flush` the `finally` of `telemetry()` (the exporter's
`shutdown`), `publish` the code after the `with`. One action is one step another
process or a crash can fall before or after:

| Action | Code |
|---|---|
| `StartRun` | `run_fleet` up to the loop, with the unlink of a stale manifest |
| `BeginSession`, `RefuseSession` | head of `run_session`, with `assert_within_policy` |
| `EmitEvent`, `RejectEvent` | `event_span`: number, stamp, declare, validate, run the body, export |
| `EndSession` | `check_declarations` and the stride check |
| `LeaveTelemetry`, `WriteSpanFile`, `RaiseFromRun`, `LeaveFlush` | `telemetry()`'s exit |
| `WriteManifest` | `write_manifest` |
| `Crash` | the process dies |

`FleetConfig` is the code's own seam for other scenarios, so the script of a
session is a constant and nothing in the module depends on the credit scenario.
A digest stands for the content it was computed of: the manifest of the model
holds the spans themselves. Span files are numbered rather than named, since
`SESS-0000.jsonl` is the same file for every run over a directory; that is the
point of several properties. Sessions count from 1 instead of 0. Session root
spans, enrichment (layer B) spans and texts are left out; that the exporter may
find a span truncated is a free choice at each event that has attributes to lose
(`Laden`), and the span is then not `whole`; that a call to a tool or a model may
raise is a free choice at each such call.

### PublishedRun

What a reader that goes through the manifest may rely on. `Log(r)` computes a
run's log from its inputs alone, by recursion on the script instead of by
execution, and `Sound(r)` says in the same terms which runs may be offered.
`FleetRun` implements it under the mapping `Published`: the sessions a reader
finds by following the manifest's list *to the files*, so the refinement fails as
soon as a manifest stands beside other files than its own.

### CreditFleet

One operator for each `_emit_*` helper and each node of the graph. An object is
its kind and an identity; attributes are reduced to the facts a rule reads (is
there a lawful basis, are there reason codes, ...). An applicant is its class:
what the scorecard proposes, and whether the approver grants it.

### Templates

One operator for each template, returning a set of violations (constraint, cited
events, cited objects). Session id, severity and wording are left out, the
matching of predictions to labels does not look at them. Reachability in the
handoff graph is defined without recursion, as membership in every closed set.
`SynchronisedResponse` and `SynchronisedPrecedence` are those of `standard.py`, for
any two activities and any kind of object.

### Injector

A session is a sequence of event spans. `rows[s]` starts as the telemetry
`CreditFleet` writes and is rewritten in place by `FaultV1` to `FaultV8`,
`ApplyD1` and `Renumber`, in the order of `inject_run`. Everything the code ranks
by a digest (`_rank`, `_pick`: who gets which fault, which variant, which donor)
is a free choice: the properties hold for every seed. `Ready(c)` is what fault
function `c` needs in order not to raise: `Finds(c)`, the spans and references it
looks for, and `Accepts(c)`, that each event it writes back passes `validate_event`
again (`_mutate_event`), for every choice it might make. A rewrite changes nothing
`validate_event` looks at but the objects of an event, so what is asked is that no
object comes to be named twice. `ReadyForD1` is the same for the distractor. A fault
that is not ready raises in the middle of writing a split, which `NeverTorn` excludes. Every layer-B span is a child of an
event span and is deleted with it, so none appears here. The catalogue's
compatibility lists are what `src/data/catalogue/violations.yaml` has: two of V1,
V2, V3 never meet, everything else may.

`SplitLog` is the log the mapper makes of the rewritten rows and `SplitMaps` its
conditions of acceptance for rows of this scenario. `Mapper` models the same
function for arbitrary traces.

### SplitStore

A directory is a set of `[name, by]`: which file, written by which injection.
`rmtree` removes one entry at a time in any order, `os.replace` is one step, and
`Fail` (a fault function raises, the process dies) may come between any two
steps. Directories `<split>.tmp` survive a failure, and so do they here.
Different injections put different sessions into a split, so that what one left
behind and another does not overwrite is visible.

### RunReader

`step` follows `_cmd_run` of `ingest/__main__.py`: `provenance` and `manifest`
are its two reads of the manifest, `hash` and `parse` the two reads of each span
file, `coverage`, `index` and `log` the three renames at the end. What was parsed
stands for what is mapped from it. `Exclusive` says whether fleet and ingest take
turns, as the Makefile makes them. `Refuse` is what `read_run` itself finds
wrong; `Interrupted` is every other end, a rejection by the mapper or the model
included. Where they do not take turns, a span file may change between its two
reads. The field-by-field validation of a row is left out, and so is `--spans`, which
has no manifest.

### SpanTrees

The input is any parent function over the spans of a trace and any choice of
event spans: `read_spans` has only seen to it that ids are unique. `BuildTree`,
`Visit` and `LeaveWalk` are `build_span_trees`; the order in which the code's
list is popped does not matter to what is reached, so `frontier` is a set.
`ReadScope` is `_scope_facts`, and `StartClimb`, `Climb` and `Attribute` are the
enrichment loop with `_nearest_event_ancestor`. Being above is defined without
recursion, by closed sets.

### Mapper

One step maps one trace (`MapTrace`), or stops at it: `RefuseTrace` for what the
mapper refuses, `RejectTrace` for what only the constructors of `model/log.py`
refuse of an event by itself (`Fit`): an id outside of the safe characters or that
reads as a number, a time that is not the one spelling in whole seconds, an
attribute the registry does not know, no relation at all. The first event that is
wrong in either way decides which of the two it is (`FirstBad`). The code takes the
traces in the order of their ids; the model takes them in any order. Then come the
check for undeclared objects, `OCELObject` (`ObjectsFit`) and
`OCELLog.__post_init__` (`MakeLog`, `RejectLog`). Values are classes: `SafeIds` and
`Registered` are those the constructors accept, `canonical` says it of an event's
time and attributes, and `sound` stands for what `validate_event` asks of them,
which is less.

### EvidenceChain

A digest is modelled by what it is a digest of. It leaves out the integrity
block, so a record's link to its predecessor is checked but is not itself hashed;
`Link` and `Verify` say exactly that. A copy loses records, has them swapped,
repeated, replanted from another bundle, or has one field of one record changed.
Moves and an alteration are not combined: with both, a link can be rewritten to
suit a new order, which a chain without a signature does not claim to prevent.

### CheckRerun

Each process reads log, rules, index and crosswalk in the order of
`_load_and_render`, the crosswalk twice (`hashed`, `crosswalk`), holds log and
rules against their pins on reading them and the other two after rendering, and
writes through a temporary file of its own. Meanwhile artefacts are replaced,
damaged or removed (`Edit`), also between the two reads of the crosswalk. The
version of a rule set is what its author wrote into it, and two rule sets may have
the same. `load_crosswalk` wants an entry for every rule (`Unmapped`), before
`build_render_index` looks at the sidecar. A record says which of the things read it takes
each of its parts from (`Record`), and `Rerun` is the command line it carries.
Exit codes are those of `cli.py`. `HandOver` ends the part played on the machine
and starts the one played with a copy of a bundle.

### JudgeCache and JudgeScores

A sweep is a record of the loops of `judge_all`: `Question(sweep, n)` is the
n-th question it asks. A live sweep asks the provider where the cache has
nothing, a replay gives up there. `paid` and `lost` count what was paid for and
what died with a process; `raced` remembers that a live sweep has begun beside
another. `Key` has the components of `cache_key`; the session is in it only
through the input shown of it.

`JudgeScores` has no variables of its own. `VerdictSetKey`, `ModalKeys` and
`Majority` are the aggregates, `Taken` is the loop of `confusion`, and `Exact`,
`Overlapping` and `SameSession` are the three matchers as sets of pairs of
positions. Its properties are about the reports a step adds.

## 3. What is checked

| Run | Question | Size |
|---|---|---|
| `fleet_credit` | Does the credit scenario respect its own contract, is nothing published that breaks it, and is the directory consistent whatever crashes? | 2 runs of the credit scenario and 4 that break the contract, 1 to 3 sessions, about 31,500 states |
| `injector` | Do the rules find exactly the labelled faults, and are quotas met whenever they can be? | splits of 2 sessions with all 8 classes and of 4 sessions with 2, about 43,300 states |
| `injector_d2` | (violated) Was a D2 near miss declined by a human? | as `injector` |
| `split_store` | Does a split ever mix injections or appear half written? | 2 injections, 2 splits, about 665,000 states |
| `split_store_stale` | (violated) Does a failed injection leave no stale split? | the same |
| `run_reader` | Is the register of sound logs implemented, and is what `ingest run` leaves always that of one whole run? | 6 runs of 1 to 3 sessions with 5 scripts, about 326,000 states |
| `span_trees` | Are exactly the trees accepted, is attribution right, do the walks end? | all parent functions on 4 spans, about 59,500 states |
| `mapper` | Does the order of the traces matter? | 3 traces with 16 contents, about 26,600 states |
| `check_rerun` | How far does a rerun give its bundle back, and what copies verify? | 2 processes, 2 commands, 2 edits, 2 moves, about 3.45 million states |
| `check_commit` | (violated) Is a bundle with an engine commit given back? | the same without edits |
| `check_version` | (violated) Is a bundle given back when rules were edited under their version? | one edit, one crosswalk |
| `judge` | Do sweeps agree, is nothing paid twice, are scores fair? | 2 processes, 3 sweeps, about 373,500 states |

### Properties

- `ManifestIntact`, `WithdrawnBeforeChange`: the manifest and the files it lists.
- `PublishedComplete`, `PublishedDeclared`, `PublishedOrdered`: what a published
  session is. The foreign scripts of `MCFleetCredit`, and those of
  `MCRunReader`, break each in turn: `redeclares` declares an object twice,
  `undeclared` names one nobody declares, `overruns` is longer than the stride,
  and run `late` outlives its policy. Each is caught by another check of the code.
- `CreditFits`: the converse for the scenario that ships, `ScenarioFits` of its own
  runs. None of the checks ever fires for it, whatever the applicants, so a run
  whose calls return publishes.
- `ImplementsPublishedRun`: refinement of `PublishedRun`. A run that lost part of a
  span to truncation is among what it must not offer.
- `DetectedExactly`: the violations found are the labels, constraint, events and
  objects, one each, so no fault masks, doubles or re-cites another and no
  untouched session is accused. It is stronger than the matcher of the
  evaluation (`exact_match` in `eval/metrics.py`), which ignores objects.
- `ControlFlowConcurs`: T1 and T4 reduced to control flow on a shared object, the
  comparison for which `standard.py` was written. Precedence of a grant finds
  exactly the decisions of V1 and V2 and cannot see V3; response by a reasoning
  event finds only V6, and misses it only where reason codes were blanked.
- `SplitIsALog`, `NeverTorn`: the rewriting itself. Whatever earlier faults deleted
  or rewrote, a later one finds what it needs, and what it writes back passes the
  contract, so that nothing raises once writing has begun.
- `Balanced`, `ShortOnlyIfInfeasible`: the greedy allocation by scarcity, the
  latter against the existence of any allocation at all.
- `NeverMixed`, `CompleteIsCurrent`, `OnlyRemovalTears`: the split directories.
- `CoverageOfItsManifest`, `LogIsASoundRun`: although manifest and span files are
  read twice each, what the ingest leaves is what one manifest describes, and the
  log is that of one sound run, no two runs mixed and no session missed. Both
  hold only while fleet and ingest take turns.
- `FreshLogFreshSidecars`: the sentence of `ingest/__main__.py:124`. This one
  holds with overlap too.
- `AcceptsTrees`, `NearestAnchor`, `NeverLost`, `Terminates`: a parent cycle
  beside a proper root passes every local check and is only found by counting
  what was reached; once it is excluded the walk up, which keeps no set of
  visited spans, ends, and never takes the branch marked `no cover`.
- `OrderFree`: a run is accepted, and becomes the same log, in every order of its
  traces. `StructureHolds`: the constructors of the log do reject runs the mapper
  let through, for a part by itself or by the schema's tables, but never because of
  how events, relations and objects hang together, however declarations and
  references are spread over the traces.
- `Reproduces`: the claim at the head of `cli.py`, which is violated in three ways;
  two have a run of their own, the third is note 5 of section 5.
  `RerunDiffersOnlyUnpinned` says that there is no fourth: a rerun that comes as far
  as writing has read the log, the index and the crosswalk digest of its bundle and
  rules of the same version, and writes other bytes only if the rules are others
  under that version, the crosswalk changed between its two reads, now or when the
  bundle was made, or a commit was recorded. `NoFalseAlarm`
  is the converse: a rerun is refused as a mismatch, a crosswalk error or a rejection
  only over an artefact that was another when it was read.
- `VerifiedIsPrefix`: exactly the beginnings of bundles verify, so the chain is
  evidence of order and content and not of completeness. `OutIsWhole`: two
  commands that write the same output, each dying anywhere.
- `SweepsAgree`, `OwnAnswers`, `PaidOnce`, `CacheIsWhole`: the response cache.
  The first and the third hold until two live sweeps overlap; what happens then
  is note 8 below.
- `AggregatesAgree`: whole-verdict keys and claim-by-claim majorities are two
  codes over the same runs; a claim of a modal verdict with support k is a
  k-majority claim, however the runs word or repeat it, and any two majority
  claims have a run in common.
- `ScoresAreFair`: the greedy confusion matrix against a largest matching. For
  the exact and the session matcher they are equal, so the order of labels
  changes nothing. The overlap matcher of the judge is not transitive: there
  greedy is between half of the best and the best.

### Bounds, and why they are enough

- *Fleet*: two sessions are what it takes for order between sessions and for a
  second session to fail after the first is complete; one run longer than the
  other leaves files behind that the shorter run's manifest must not list. The
  credit scripts run with two of the four data sources: the retrievals are copies
  of one another. Emission sees of an applicant only whether the approver grants,
  so three classes stand for all. The foreign runs are of a few events each. The
  policy window closes after the second session, for run `late`; that of the credit
  scenario is open and its runs do not reach the end of this one. The clock needs no
  bound, every run is finite.
- *Injector, mixed*: faults interact within a session, where at most three
  meet, or through a borrowed decision, which takes two sessions.
  `MCInstances` therefore gives two or three faults to one session and none to
  the other, or one to each. Two data sources remain, one required and one
  demographic. With `MCApplying` all the outcomes occur, refer both as the
  scorecard's proposal and as an escalation.
- *Injector, single*: two classes of which one (V6) is eligible only for deny
  sessions and the other (V2) for deny and grant sessions, so the pools overlap
  and one is contained in the other: the smallest case in which the order of
  allocation matters. Quota two lets two sessions of one split lend each other
  decisions.
- *Split store*: two splits, one before and one after the point of failure; two
  injections with different files in the second split.
- *Run reader*: a run of two sessions over one of one and the other way round, and
  four runs that must not be published. Crashes, reruns and repeated ingests are not
  bounded.
- *Span trees*: four spans hold a root, an event, and a cycle or a chain of two
  below it. All 6^4 parent functions are inputs.
- *Mapper*: three traces, since a third may declare what two others name or
  declare differently. The contents of `MCMapper` put each condition of the mapper
  and of the log's constructors to the test at least once, two of them in one trace
  where the earlier one decides.
- *Check*: `MaxEdits`, `MaxCommands` and `MaxMoves` are two. One command makes a
  bundle and another, at the same time or later, reruns it; two edits change an
  artefact and put it back, or replace the crosswalk between its reads and again
  later. Of three rule sets two share a version. The detections are such that equal violations arise
  from different logs and one pair finds nothing.
- *Judge*: `MaxSweeps` is three, for one sweep interrupted, one that resumes it
  and one replay. Two samples of a question, a shorter sweep whose questions are
  among those of a longer one, and two conditions under another prompt. One
  prompt has three answers, a failure among them. `Labels` has up to two labels,
  of which one may lie in another session. The processes are symmetric.

Deadlock is checked in the fleet, split store and run reader runs. `injector`,
`injector_d2`, `span_trees` and `mapper` end when their one job is done, and the
check and judge runs end when the commands or sweeps they are allowed are used
up; there `CHECK_DEADLOCK FALSE` is set.

### Fairness

Only `SpanTrees` states fairness, for `Terminates`: `FairSpec` is weak fairness of
its next-state relation, since both walks are loops in one function call that waits
for nobody.

## 4. What is proved

For all values of the constants, under the named assumptions of the modules.
There is any number of runs, sessions, scripts, durations, catalogues, plans,
injections, splits, spans, traces, artefacts, processes and sweeps.

`RunReaderProofs`, first part, about `FleetRun` (`RunsAssumption`,
`ScriptAssumption`, `ClockAssumption`, `NullAssumption`):

- `TypeCorrect`, `Intact` and `Withdrawn`, from the inductive invariant
  `IntactInv`. `ManifestIntact` alone is not inductive: that `WriteManifest` may
  publish rests on `FlushOK` (every buffered session has been written, and the
  files on disk are the buffer), which rests on `ProcessOK` (a running process has
  withdrawn the manifest, and the buffer has one sequence per session begun) and
  on `EmissionOK` (while a session is emitted, its buffer follows its script).
- `Ordered`, from `OrderInv` on top of `IntactInv`: events of a buffered session
  lie after the start of its slot and increase (`BufferOrdered`), the clock has
  not fallen behind what it stamped (`CursorAhead`), and a session that passed
  the stride check ends before the next slot starts (`SlotsFit`). Two sessions
  are compared through the slot boundary between them.
- `Implements`, the refinement of `PublishedRun`; `Complete` and `SelfContained`
  follow from the same invariant, `LogInv` beside `IntactInv`. While a session is
  emitted, its spans, its context and its clock are those of the beginning of its
  log (`EmittedOK`); the sessions that passed their checks are their whole logs,
  and sound (`BufferIsLog`); and so is what a manifest lists (`PublishedIsLog`).
  `PublishedRun` sums the durations by recursion, the code by adding to a cursor.
  That both give the same needs no induction: if two functions grow by the same
  steps and differ, they differ at a first position (`FirstPosition`, by
  counting), and there they do not (`OneGrows`).

`InjectorProofs` (`InstanceAssumption`, `ApplyingAssumption`,
`RetrievalAssumption`, `SourcesAssumption`):

- `SingleIsBalanced` and `GreedyIsComplete`, from `AllocationOK`. Its hard part,
  in `SingleOK`, is that every allocation of the split, by whatever means it was
  found, gives as many sessions to the classes settled so far as the greedy one
  has assigned. This rests on the pools of the eight classes lying in one another
  (`PoolsNest`: deny sessions are among those with a verdict that stands, and
  these among all), so that "scarcer" means "within" (`ScarcerIsWithin`). If the
  pool of the scarcest class left is short of a quota, it is because any other
  allocation would have filled it with the same classes (`ShortIsInfeasible`).
- `InjectorTypeCorrect` and `InjectionIsNeverTorn`, from `InjectOK` beside
  `AllocationOK`; the latter also from `LogOK`, below. `Survives` says what a session still is when some classes have
  been applied to it: each of its events is one the fleet wrote, under the same id
  and `seq`, unchanged unless its type is one these classes touch (`TouchedBy`);
  no event of an untouched type is gone; the demographics are still retrieved
  until V5 has been applied, although V4 deletes retrievals; the decision is there,
  and names the policy in force until V8. A change in place and a deletion keep it
  by two lemmas that do not know the fault (`RevisedSurvives`, `WithoutSurvives`).
  That the fault whose turn it is finds its spans (`AlwaysFinds`) then follows
  from the script alone: classes are applied in order, no class touches what a
  later one looks for, and two classes of T1 never share a session. The script is
  a concatenation of sequences one of which is as long as `RetrievalOrder`;
  `ScriptIs` gives the event at each of its positions, and `ScriptTypes` the
  positions of each type. That what it writes back is accepted (`AlwaysAccepts`,
  `DistractorAccepted`) is shown per fault: an event names one object of the kind
  that is exchanged, and the new one is none of those it names otherwise.
- `InjectedSplitIsALog`, from `LogOK` beside both. `TraceFits` says what a trace of
  a session is at any moment, whatever has been applied to it: an object that a
  fault may take the declaration of (`OwnKinds`: a tool, a data resource) is
  declared wherever it is named; what an approval declares (`ApprovalKinds`) is
  named only while it stands; everything else the session starts with
  (`StandingKinds`) no fault touches; a decision is that of a session, declared
  once. What a declaration says depends on the object alone (`FactsOf`), so two
  declarations agree across sessions; the exception is the decision, which V6
  blanks and which only one event declares. Lemmas that do not know the fault
  treat references rewritten (`RewrittenFits`), stripped (`StrippedFits`) and spans
  deleted (`WithoutFits`); V7 alone needs more, since a handoff names two agents
  and must not come to name one twice (`RepointedFits`). That a distractor finds an
  approval to swap rests on its being drawn from sessions without a class of T1
  (`DistractorsOK`). Numbers are dense, and the count right, in `Written` sessions:
  those rewritten are renumbered, the others are as the fleet wrote them.
`DetectionProofs` (those of `InjectorProofs`, `RulesAssumption` and
`StrideAssumption`):

- `LabelsAreWhatIsFound` and `ControlFlowSeesItsShare`, from `TellOK` beside the
  three. The properties speak of the finished split only; `TellOK` says, for every
  moment of the injection, that the trace of a session *tells* the faults done to
  it and no others (`Tells`): what an event says of the objects the rules look up
  is what the fleet wrote, but at the places a class done so far may change
  (`SpotsOf`) and for the events it may delete (`GoneOf`), and for each class done
  there is a label whose citation fits the mark it left (`Marked`, one `MarkOfVn`
  per class). It is inductive because a rewrite confined to the places of its own
  class (`Alters`) keeps the marks of every class that may share the session
  (`MarkedOn`): no class touches another's places, but V1, V2, V3 and the
  distractor, of which a session has at most one (`MarksFit`).
  From there a finished split is evaluated template by template, each once for all
  combinations of faults: `T1Found` to `T5Found` and `PolicyFound` say that it
  finds the labels of its classes and nothing else. T1 needs that a donor's
  session carries no fault of T1, so the approval V2 sends there can neither mask
  nor cause a violation (`EndorserIs`, `NoPrior`); T3 that times strictly increase
  (`BaseTimes`, by adding up the durations), so the receiver of a handoff acts
  first right after it (`FirstIs`), and that the handoffs left standing cannot make
  a cycle (`NoCycle`: the agents not yet left behind are closed under them).
  Rule and session tell the label of a violation (`FoundDiffer`), so there are as
  many violations as labels.

`SplitStoreProofs` (`OrderAssumption`, `FilesAssumption`, `NoneAssumption`):

- `TypeCorrect`, `Unmixed`, `Current` and `AppearsWhole`, from `StoreInv`:
  `Prepared` says what the temporary directory holds at each step of the write
  loop (part of the injection's output, all but the labels, all of it), and
  `InOrder` that the splits before the current one are done. A removal is a
  lemma of its own (`UnlinkShrinks`), as are the four steps that fill the
  temporary directory (`FillKeeps`).

`RunReaderProofs`, second part, about `RunReader` (those of `FleetRun`, and
`NothingAssumption`):

- `Fresh`, from `ArtefactsOK` alone and so with overlap: what each rename puts in
  place is what was parsed.
- `ReaderTypeCorrect`, also where ingest and fleet run side by side.
- `CoverageFaithful`, where `Exclusive` is TRUE, from `ReaderInv`: an ingest
  that runs while the fleet is idle reads one directory that stands still
  (`ReadingOK`), and `IntactInv` of the fleet says that its manifest describes
  its files.
- `SoundLog`, likewise, with `LogInv` of the fleet: what the last rename
  installs is what was parsed, the files of a manifest, which are the log of a
  sound run.

`SpanTreesProofs` (`SpansAssumption`):

- `TreesOnly`, `Nearest` and `WalkStaysInside`, from `TreeInv`. `ReachOK` says
  that the walk from the root never enters a set closed under taking parents, and
  leaves no child of what it has finished behind: when nothing is left to visit,
  what was not reached is such a set. `ClimbOK` says that the cursor is above its
  start and has passed no event.

`MapperProofs` (`TraceAssumption`, `NoneAssumption`):

- `OrderIndependent` and `StructureIsSound`, from `MapperInv`: what has been gathered
  is a function of the *set* of traces mapped (`GatheredOK`), and these are
  coherent among themselves (`CoherentSoFar`); a trace that is refused is at odds
  with one of them, so the whole run is at odds with itself.

`CheckRerunProofs` (`DetectedOnce`, `CommitsType`, `Markers`):

- `OnlyUnpinnedDiffers`, with any commits, any versions and any edits. `CliInv` says
  what a process knows at each step, and that every published bundle is sealed, made
  from one reading; then one record tells the reading of its whole bundle
  (`OneRecordTells`). `AlarmInv` adds that a rerun was asked for by a record of its
  bundle. The pins leave open only what they do not cover (`PinsTell`), and a bundle
  made of the same things without a commit is the same (`SameInputsSameBundle`).
- `NoneIsFalse`: what a bundle was made of passed every
  check but the pins (`AlarmInv`), and a rerun pins what its bundle was made of
  (`MadeOfTells`); so a refusal has met something else.
- `VerifiedCopyIsPrefix`: the first position at which a copy leaves the bundle
  its first record is from would have to be linked to both.
- `OutputsAreWhole`: a temporary file belongs to the process in its name.

`DetectedOnce` says that the engine
returns no violation twice: every template visits each event and object once, and
a loaded rule set has no two rules of one id.

`JudgeProofs` (`SweepsType`, `Markers` of `JudgeCache`; `Lists` and
`KeysAreNoFailure` of `JudgeScores`):

- `AnswersAreOwn` and `CacheStaysWhole`, from `CacheOK`: a record lies under the
  key of the question it answers (`KeysFit`), which rests on the key determining
  the question (`KeyIsInjective`).
- `SweepsDoAgree`, with `AloneOK`: until two live sweeps overlap, a question is
  only asked while nothing is under its key, so records never change, and all
  runs reported are the record under their key.
- `NothingPaidTwice`, with `BooksOK`: every payment is a record in the cache, an
  answer still held or one lost with its process.
- `AggregatesDoAgree`: each claim of an aggregate is traced to the runs it was
  counted in; a claim of all runs is one of most of them, since there is a run.
- `ScoresStayFair`: the greedy matching is one (no claim and no label twice), it
  is maximal, and a maximal matching is at least half of any other; where no
  claim fits two labels it is the best.

`SourcesAssumption` (there is a source besides demographics) is what V4 needs to
find something to delete. `RetrievalAssumption` says that each source is read once
and that none of their tools is the scoring agent's (`_RETRIEVAL_ORDER`,
agents.py:429, and agents.py:466): otherwise a second use of a tool or a resource
would name an object that only the first declares, and V4 might delete that one.
`RulesAssumption` says that the shipped rule set asks for what the fault catalogue
promises (`rules.yaml` lines 38, 66, 95 and 123, held to the catalogue by
`tests/unit/test_rules_content.py:58`): approvals for grants and denials, reasons
for denials but not for grants, every source the fleet reads except the
demographics, and intake as an entrypoint that no other role of the chain is. With
a rule set that asks for less, a fault would go unseen; with one that asks for
more, sessions nobody touched would be reported. `StrideAssumption` says that
`SESSION_STRIDE_SECONDS` is no negative number. `Lists` and `KeysAreNoFailure` say
that an answer is a failure or a finite list of claims, and that no claim is the
marker of a failure.

Only model-checked:

- `Terminates`: liveness, and so beyond the prover.
- `CreditFits`: it is a fact about the scripts of the scenario, not about
  `run_fleet`, and false of other scripts.

## 5. Where code and comments differ

Found by a run:

1. `scenario/injector.py:1558` says that a mid-run failure "can never leave a
   stale-but-self-consistent split behind". Each split is swapped in whole, but
   the three are swapped one after another: after a failure in the second, the
   second and third of an earlier injection are still there, intact, beside the
   first of the new one. `NoStaleSplit` in run `split_store_stale`. What does hold
   is proved: no split is ever mixed.
2. `scenario/injector.py:1612` and the description recorded at line 1626 say that
   a D2 near miss is a session in which the human approver declined. It is
   recorded for every session with outcome refer, also where the scorecard
   proposed refer and the approver granted it. `D2WasDeclined` in run
   `injector_d2`.
3. `cli.py:9` says that the rerun command in a record gives the byte-identical
   bundle back, its four pins "covering EVERY input the record bytes depend on".
   `--engine-commit` is written into every record (`evidence/renderer.py:229`)
   and is neither pinned nor part of the command (line 233). `Reproduces` in run
   `check_commit`.
4. The same claim. The rules are pinned by a version string somebody wrote into the
   file (`constraints/ruleset.py:385`), not by a digest, so rules edited under the
   same version pass. `Reproduces` in run `check_version`.

That the engine commit, rules edited under their version and note 5 are all that
comes between a record and its rerun is checked and proved
(`RerunDiffersOnlyUnpinned`).

Met while modelling, and part of the models as they are:

5. The claim of note 3 once more. `cli.py` hashes the crosswalk from one read (line
   221) and loads it from another (222). A replacement in between, by the rerun or
   when the bundle was made, gives a bundle that cites the digest of one crosswalk
   and the entries of another. `Edit` may come there; with `CrosswalkMoved` taken out
   of `RerunDiffersOnlyUnpinned`, run `check_rerun` shows it.
6. `ingest/otel_reader.py:347` says that every span file is read "hash-verified".
   The digest is that of one read (line 372), the spans are parsed from another, so
   a fleet run that overlaps may slip in what was not verified; `Exclusive` excludes
   it. `inject_run` reads the base files in the same way.
7. `pack` on a log without violations is refused (exit 7); the rendering of the
   study pack (`cli.py:367`) stands outside of the code that maps errors to exit
   codes.
8. Two live sweeps over one cache both pay, and the later record replaces the one
   the other sweep has already reported, so a replay does not give its report
   back. The evaluation lock looks at the split directory's manifest only, while
   the sessions come from `--ocel`.
9. The provider is not part of the cache key. An answer counts as paid when it
   arrives: a sweep that dies before the record is renamed pays again.
10. `determinism_score` takes a failed run as an empty verdict, `modal_verdict`
    gives failures a class of their own, which also wins every tie because a
    quote sorts before a bracket.
11. `majority_vote` merges spellings of a label; `exact_match` tells them apart.
    Which spelling represents a claim then decides whether it is a hit.
12. With the overlap matcher the claims {e1, e2} and {e1} against the labels {e1}
    and {e2} score one hit where two were possible.
13. An event without object references passes the span contract and the mapper
    and is refused by `OCELEvent`; the endpoints of an edge between objects are
    checked by `OCELLog` only. Both ends are a rejection, but the order of the
    traces may decide which exit code is seen.

## 6. What is not modelled

- The scorecard's arithmetic, texts, hashes' collision resistance, identifiers'
  spelling, and the contents of layer-B spans.
- Loaders that validate a document field by field (`ruleset.py`,
  `catalogue.py`, `crosswalk.py`, the rows of a span file): their results are the
  constants here.
- `scenario/tools.py` and `models.py`: a download with a pinned digest and a thin
  client. That a call may raise is part of `FleetRun`.
- The renaming of attribute keys (`ingest/attribute_map.py`): a table without
  state. The coverage report counts as an artefact of `RunReader`.
- `model/io.py` and the two pm4py baselines: the substance is in the library.
- The template `object_existence`, which reads edges between objects; no shipped
  rule uses it.
- `--record-index`, output on stdout, the parsing of arguments; the judge's
  prompts, payloads and provider client.
- Ratios such as precision and recall, which are arithmetic on floats.
  `eval/runner.py` and `eval/figures.py` are stubs.

## 7. What is left

1. `object_existence`, with the edges between objects in `Injector`'s spans.
2. `inject_run` over a base directory that changes while it is read.
