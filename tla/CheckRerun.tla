----------------------------- MODULE CheckRerun ------------------------------
(***************************************************************************)
(* `check` and `pack` (cli.py) over artefacts that change while they run,  *)
(* and the claim every evidence record makes of itself: that its rerun     *)
(* command gives the whole bundle back.  How far that claim holds is       *)
(* RerunDiffersOnlyUnpinned; where it does not, Reproduces is violated.    *)
(*                                                                         *)
(* A command reads the log, the rules, the span index and the crosswalk    *)
(* one after the other, the crosswalk twice: once for its digest and once  *)
(* for its entries.  A digest is the content it names; the version of a    *)
(* rule set is a string its author wrote into it, and names what it likes. *)
(* What a record says is modelled by where it takes it from.               *)
(***************************************************************************)
EXTENDS EvidenceChain

CONSTANTS
    Logs, RuleSets, Indexes, Crosswalks, \* contents the artefacts may have
    Gone, Broken,  \* no such file; a file that does not load
    Violations,
    Version,       \* of a rule set: the version it calls itself
    Detected,      \* of a log and a rule set: the violations, in canonical order
    Belongs,       \* the <<index, log>> with the same events and sessions
    Maps,          \* the <<crosswalk, rule set>> with an entry for every rule
    Agrees,        \* the <<crosswalk, rule set>> that validate against each other
    Scattered,     \* the <<index, violation>> whose events lie in several traces
    Commits,       \* what --engine-commit is given, NoCommit for nothing
    NoCommit, NoPin, NotRead, NoBundle, Absent, Torn,
    Processes,
    MaxEdits, MaxCommands

ASSUME DetectedOnce ==
    \A log \in Logs, rules \in RuleSets :
        LET found == Detected[log][rules]
        IN  /\ found \in Seq(Violations)
            /\ \A i, j \in 1 .. Len(found) : found[i] = found[j] => i = j
ASSUME CommitsType == NoCommit \in Commits

Kinds == {"check", "pack"}
Files == {"log", "rules", "index", "crosswalk"}
Contents == [log |-> Logs, rules |-> RuleSets, index |-> Indexes, crosswalk |-> Crosswalks]

VARIABLES
    disk,     \* the artefacts
    pc,       \* of a process: the next thing it reads or does
    args,     \* its command line
    of,       \* the bundle whose rerun command it was given, or NoBundle
    seen,     \* what it has read
    exit,     \* how its last command ended
    tmp, out, \* temporary files and outputs
    edits, commands

cliVars == <<disk, pc, args, of, seen, exit, tmp, out, edits, commands>>
vars    == <<chainVars, cliVars>>

Unread == [log |-> NotRead, rules |-> NotRead, index |-> NotRead,
           hashed |-> NotRead, crosswalk |-> NotRead]
NoArgs == [kind |-> "check", log |-> NoPin, rules |-> NoPin, index |-> NoPin,
           crosswalk |-> NoPin, commit |-> NoCommit]

CliInit ==
    /\ disk \in [Files -> UNION {Logs, RuleSets, Indexes, Crosswalks}]
    /\ \A f \in Files : disk[f] \in Contents[f]
    /\ pc = [p \in Processes |-> "idle"]
    /\ args = [p \in Processes |-> NoArgs]
    /\ of = [p \in Processes |-> NoBundle]
    /\ seen = [p \in Processes |-> Unread]
    /\ exit = [p \in Processes |-> 0]
    /\ tmp = [name \in Kinds \X Processes |-> Absent]
    /\ out = [kind \in Kinds |-> Absent]
    /\ edits = 0
    /\ commands = 0

Init == ChainInit /\ CliInit

-----------------------------------------------------------------------------
(* render and render_all: the records, each citing the digests it was made *)
(* with.                                                                   *)
Pins    == [log : Logs, rules : {Version[rules] : rules \in RuleSets},
            index : Indexes, crosswalk : Crosswalks \cup {Broken}]
Records == [violation : Violations, formal : RuleSets, spans : Indexes,
            entry : Crosswalks, commit : Commits, rerun : Pins]

Record(violation, read, commit) ==
    [violation |-> violation, formal |-> read.rules, spans |-> read.index,
     entry |-> read.crosswalk, commit |-> commit,
     rerun |-> [log |-> read.log, rules |-> Version[read.rules],
                index |-> read.index, crosswalk |-> read.hashed]]

Bundle(read, commit) ==
    LET found == Detected[read.log][read.rules]
    IN  Link([i \in 1 .. Len(found) |-> Record(found[i], read, commit)])

Payload(p) == Bundle(seen[p], args[p].commit)

(* The markers of this model are none of the values they stand beside.     *)
ASSUME Markers ==
    /\ NoPin \notin Logs \cup Indexes \cup Crosswalks \cup {Broken}
    /\ \A rules \in RuleSets : Version[rules] # NoPin
    /\ Forged \notin Records \cup {Genesis}
    /\ Torn \notin Records \cup {Absent}
    /\ Unchained \notin [chain_index : Nat, record_sha256 : Records,
                         prev_record_sha256 : Records \cup {Genesis}]
    /\ NotRead # Broken
    /\ {Gone, Broken, NotRead} \cap UNION {Logs, RuleSets, Indexes, Crosswalks} = {}

-----------------------------------------------------------------------------
(* A command begins.  `check` is told a log and a version by its user, or  *)
(* all four pins by the rerun command of a record; `pack` has no pins.     *)
Rerun(record) ==
    LET pins == record.content.rerun
    IN  [kind |-> "check", log |-> pins.log, rules |-> pins.rules, index |-> pins.index,
         crosswalk |-> pins.crosswalk, commit |-> NoCommit]

Begins(p, line, bundle) ==
    /\ copy = NoCopy
    /\ pc[p] = "idle"
    /\ commands < MaxCommands
    /\ pc' = [pc EXCEPT ![p] = "log"]
    /\ args' = [args EXCEPT ![p] = line]
    /\ of' = [of EXCEPT ![p] = bundle]
    /\ commands' = commands + 1
    /\ UNCHANGED <<chainVars, disk, seen, exit, tmp, out, edits>>

Check(p) ==
    \E log \in Logs, rules \in RuleSets, commit \in Commits :
        Begins(p, [NoArgs EXCEPT !.log = log, !.rules = Version[rules], !.commit = commit],
               NoBundle)

CheckAgain(p) ==
    \E bundle \in published : \E i \in 1 .. Len(bundle) :
        Begins(p, Rerun(bundle[i]), bundle)

Pack(p) == Begins(p, [NoArgs EXCEPT !.kind = "pack"], NoBundle)

(* ... and ends: what it had read is gone.                                 *)
Ends(p, code) ==
    /\ pc' = [pc EXCEPT ![p] = "idle"]
    /\ exit' = [exit EXCEPT ![p] = code]
    /\ args' = [args EXCEPT ![p] = NoArgs]
    /\ of' = [of EXCEPT ![p] = NoBundle]
    /\ seen' = [seen EXCEPT ![p] = Unread]

Refuses(p, code) ==
    /\ Ends(p, code)
    /\ UNCHANGED <<chainVars, disk, tmp, out, edits, commands>>

-----------------------------------------------------------------------------
(* The reads, in the order of _cmd_check and _load_and_render.             *)
After == [log |-> "rules", rules |-> "index", index |-> "hashed",
          hashed |-> "crosswalk", crosswalk |-> "render"]

FileOf(step) == IF step = "hashed" THEN "crosswalk" ELSE step

(* What a step finds: its bytes are enough to hash a file.                 *)
Found(p)  == disk[FileOf(pc[p])]

(* load_crosswalk wants an entry for every rule of the rule set.           *)
Unmapped(p) == pc[p] = "crosswalk" /\ <<Found(p), seen[p].rules>> \notin Maps

Parses(p) == pc[p] = "hashed" \/ (Found(p) # Broken /\ ~ Unmapped(p))
Loads(p)  == Found(p) # Gone /\ Parses(p)

(* The log and the rules are held against their pins as they are read.     *)
PinHolds(p) ==
    CASE pc[p] = "log"   -> args[p].log \in {NoPin, Found(p)}
      [] pc[p] = "rules" -> args[p].rules \in {NoPin, Version[Found(p)]}
      [] OTHER           -> TRUE

Read(p) ==
    /\ pc[p] \in DOMAIN After
    /\ Loads(p) /\ PinHolds(p)
    /\ seen' = [seen EXCEPT ![p][pc[p]] = Found(p)]
    /\ pc' = [pc EXCEPT ![p] = After[pc[p]]]
    /\ UNCHANGED <<chainVars, disk, args, of, exit, tmp, out, edits, commands>>

Missing(p) ==
    /\ pc[p] \in DOMAIN After
    /\ Found(p) = Gone
    /\ Refuses(p, 3)

Malformed(p) ==
    /\ pc[p] \in DOMAIN After
    /\ Found(p) # Gone /\ ~ Parses(p)
    /\ Refuses(p, IF pc[p] = "crosswalk" THEN 6 ELSE 7)

Mismatch(p) ==
    /\ pc[p] \in DOMAIN After
    /\ Loads(p) /\ ~ PinHolds(p)
    /\ Refuses(p, 4)

-----------------------------------------------------------------------------
(* build_render_index, validate_against_ruleset and render, in that order. *)
IsSidecar(p) == <<seen[p].index, seen[p].log>> \in Belongs
Validates(p) == <<seen[p].crosswalk, seen[p].rules>> \in Agrees
OneTrace(p)  == LET found == Detected[seen[p].log][seen[p].rules]
                IN  \A i \in 1 .. Len(found) : <<seen[p].index, found[i]>> \notin Scattered

RefuseToRender(p) ==
    /\ pc[p] = "render"
    /\ \/ ~ IsSidecar(p) /\ Refuses(p, IF args[p].kind = "check" THEN 4 ELSE 7)
       \/ IsSidecar(p) /\ ~ Validates(p) /\ Refuses(p, 6)
       \/ IsSidecar(p) /\ Validates(p) /\ ~ OneTrace(p) /\ Refuses(p, 7)

(* Mutants of PinsHold: the crosswalk's digest is not asked for; the pin   *)
(* of the index is held against what lies on the disk by now.              *)
PinsHoldButOne(p) == args[p].index \in {NoPin, seen[p].index}

PinsHoldNow(p) ==
    /\ args[p].index \in {NoPin, disk["index"]}
    /\ args[p].crosswalk \in {NoPin, seen[p].hashed}

PinsHold(p) ==
    /\ args[p].index \in {NoPin, seen[p].index}
    /\ args[p].crosswalk \in {NoPin, seen[p].hashed}

NothingToPack(p) == args[p].kind = "pack" /\ Payload(p) = << >>

RefuseResult(p) ==
    /\ pc[p] = "render"
    /\ IsSidecar(p) /\ Validates(p) /\ OneTrace(p)
    /\ \/ ~ PinsHold(p) /\ Refuses(p, 4)
       \/ PinsHold(p) /\ NothingToPack(p) /\ Refuses(p, 7)

Render(p) ==
    /\ pc[p] = "render"
    /\ IsSidecar(p) /\ Validates(p) /\ OneTrace(p)
    /\ PinsHold(p) /\ ~ NothingToPack(p)
    /\ pc' = [pc EXCEPT ![p] = "open"]
    /\ UNCHANGED <<chainVars, disk, args, of, seen, exit, tmp, out, edits, commands>>

-----------------------------------------------------------------------------
(* _atomic_write_bytes: a temporary file of this process, filled and then  *)
(* renamed.                                                                *)
(* Mutant of TmpName: the same name in every process.                      *)
TmpNameOfAll(p) == <<args[p].kind, CHOOSE q \in Processes : TRUE>>

TmpName(p) == <<args[p].kind, p>>

Output(p) == IF args[p].kind = "check" THEN Payload(p) ELSE Payload(p)[1].content

Open(p) ==
    /\ pc[p] = "open"
    /\ tmp' = [tmp EXCEPT ![TmpName(p)] = Torn]
    /\ pc' = [pc EXCEPT ![p] = "fill"]
    /\ UNCHANGED <<chainVars, disk, args, of, seen, exit, out, edits, commands>>

Fill(p) ==
    /\ pc[p] = "fill"
    /\ tmp' = [tmp EXCEPT ![TmpName(p)] = Output(p)]
    /\ pc' = [pc EXCEPT ![p] = "replace"]
    /\ UNCHANGED <<chainVars, disk, args, of, seen, exit, out, edits, commands>>

Replace(p) ==
    /\ pc[p] = "replace"
    /\ tmp[TmpName(p)] # Absent
    /\ out' = [out EXCEPT ![args[p].kind] = tmp[TmpName(p)]]
    /\ tmp' = [tmp EXCEPT ![TmpName(p)] = Absent]
    /\ published' = IF args[p].kind = "check" THEN published \cup {Payload(p)} ELSE published
    /\ Ends(p, 0)
    /\ UNCHANGED <<copy, moves, altered, disk, edits, commands>>

(* _write_output: the file system refuses.                                 *)
CannotWrite(p) == pc[p] \in {"open", "fill", "replace"} /\ Refuses(p, 3)

Die(p) == pc[p] # "idle" /\ Refuses(p, 137)

-----------------------------------------------------------------------------
(* Meanwhile the artefacts are edited, replaced, damaged or removed.       *)
Edit ==
    /\ copy = NoCopy
    /\ edits < MaxEdits
    /\ \E file \in Files : \E content \in (Contents[file] \cup {Gone, Broken}) \ {disk[file]} :
           disk' = [disk EXCEPT ![file] = content]
    /\ edits' = edits + 1
    /\ UNCHANGED <<chainVars, pc, args, of, seen, exit, tmp, out, commands>>

(* An auditor is handed a bundle; from here on only that copy is followed, *)
(* and the machine it was made on may as well be gone.                     *)
HandOver ==
    /\ copy = NoCopy
    /\ \A p \in Processes : pc[p] = "idle"
    /\ \E bundle \in published : copy' = bundle
    /\ disk' = [file \in Files |-> Gone]
    /\ exit' = [p \in Processes |-> 0]
    /\ tmp' = [name \in DOMAIN tmp |-> Absent]
    /\ out' = [kind \in Kinds |-> Absent]
    /\ moves' = 0
    /\ altered' = FALSE
    /\ UNCHANGED <<published, pc, args, of, seen, edits, commands>>

Process(p) ==
    \/ Check(p) \/ CheckAgain(p) \/ Pack(p)
    \/ Read(p) \/ Missing(p) \/ Malformed(p) \/ Mismatch(p)
    \/ RefuseToRender(p) \/ RefuseResult(p) \/ Render(p)
    \/ Open(p) \/ Fill(p) \/ Replace(p)
    \/ CannotWrite(p) \/ Die(p)

Copying == CopyStep /\ UNCHANGED cliVars

Next == (\E p \in Processes : Process(p)) \/ Edit \/ HandOver \/ Copying

Spec == Init /\ [][Next]_vars

-----------------------------------------------------------------------------
(* "the four values are verification pins covering EVERY input the record  *)
(* bytes depend on" (cli.py:10): a rerun command that comes as far as      *)
(* writing writes the very bundle its record is in.                        *)
Rewrites(p) == pc[p] \in {"open", "fill", "replace"} /\ of[p] # NoBundle

Reproduces == \A p \in Processes : Rewrites(p) => Payload(p) = of[p]

(* What a bundle was made of.                                              *)
MadeOf(bundle) ==
    LET content == bundle[1].content
    IN  [log |-> content.rerun.log, rules |-> content.formal, index |-> content.spans,
         hashed |-> content.rerun.crosswalk, crosswalk |-> content.entry]

(* Three things reach the bytes of a record past the four pins: rules that *)
(* were edited under the same version, a crosswalk that changed between    *)
(* its two reads, by the rerun or when the bundle was made, and the engine *)
(* commit.                                                                 *)
OtherRules(p)      == seen[p].rules # MadeOf(of[p]).rules
CrosswalkMoved(p)  == \/ seen[p].crosswalk # seen[p].hashed
                      \/ MadeOf(of[p]).crosswalk # MadeOf(of[p]).hashed
CommitRecorded(p)  == of[p][1].content.commit # NoCommit

(* There is no fourth: whatever was edited before or meanwhile, a rerun    *)
(* that comes as far as writing has read the log, the index and the        *)
(* crosswalk digest of its bundle and rules of the same version, and       *)
(* writes that bundle, unless one of the three differs.                    *)
RerunDiffersOnlyUnpinned ==
    \A p \in Processes :
        Rewrites(p) =>
            LET made == MadeOf(of[p])
            IN  /\ \A step \in {"log", "index", "hashed"} : seen[p][step] = made[step]
                /\ Version[seen[p].rules] = Version[made.rules]
                /\ Payload(p) # of[p] =>
                       OtherRules(p) \/ CrosswalkMoved(p) \/ CommitRecorded(p)

(* It raises no false alarm: a rerun is refused as a mismatch, a crosswalk *)
(* error or a rejection only over an artefact that differs, at the time it *)
(* is read, from the one the bundle was made of.                           *)
HasCause(p) ==
    LET made == MadeOf(of[p])
    IN  \/ \E step \in DOMAIN After : seen[p][step] \notin {NotRead, made[step]}
        \/ pc[p] \in DOMAIN After /\ Found(p) # made[pc[p]]

NoFalseAlarm ==
    [][\A p \in Processes :
          /\ of[p] # NoBundle
          /\ pc[p] # "idle" /\ pc'[p] = "idle"
          /\ exit'[p] \in {4, 6, 7}
          => HasCause(p)]_vars

(* The output file is never a part of a bundle, whichever commands write   *)
(* it at once and wherever they die (cli.py, _atomic_write_bytes).         *)
OutIsWhole ==
    /\ out["check"] \in published \cup {Absent}
    /\ out["pack"] # Torn
=============================================================================
