----------------------------- MODULE SplitStore -----------------------------
(***************************************************************************)
(* How inject_run puts its splits on disk: the writing half of             *)
(* scenario/injector.py.                                                   *)
(*                                                                         *)
(* Split by split, in a fixed order, an injection clears its temporary     *)
(* directory, writes the session files, the manifest and the labels there, *)
(* removes the split an earlier injection has left and renames the         *)
(* temporary directory into its place.  A fault function may raise and the *)
(* process may die in between; another injection, of other sessions or     *)
(* another seed, may be started over the same output directory.            *)
(*                                                                         *)
(* A directory is a set of files [name, by], by being the injection that   *)
(* wrote it, or Absent.  rmtree removes one entry at a time in an order    *)
(* nobody promises; rename is atomic.                                      *)
(***************************************************************************)
EXTENDS Integers, Sequences

CONSTANTS
    Injections,   \* base run, seed and catalogue of the injections started
    Order,        \* SPLITS, in the order they are written
    Files,        \* Files[j][s]: the span files injection j puts in split s
    Manifest,     \* manifest.json, which lists the span files and their digests
    Labels,       \* labels.json
    Absent, None

Splits == {Order[i] : i \in DOMAIN Order}

ASSUME OrderAssumption ==
    /\ Order \in Seq(Splits) \ {<<>>}
    /\ \A i, j \in DOMAIN Order : Order[i] = Order[j] => i = j
ASSUME NoneAssumption == None \notin Injections
ASSUME FilesAssumption ==
    \A j \in Injections : \A s \in Splits : Files[j][s] \cap {Manifest, Labels} = {}

VARIABLES
    injection,  \* the injection in progress, or None
    position,   \* the split it is at, an index into Order
    step,       \* "clear", "write", "publish", "swap": where it is in that split
    tmp,        \* <split>.tmp
    final,      \* the split directories
    last,       \* the injection started last
    complete    \* the injection that last went through all splits, or None

vars == <<injection, position, step, tmp, final, last, complete>>

Here == Order[position]

NameOf(j, s) == Files[j][s] \cup {Manifest, Labels}
Names  == UNION {NameOf(j, s) : j \in Injections, s \in Splits}
IsDirectory(dir) == dir # Absent => dir \subseteq [name : Names, by : Injections]

(* The directory injection j makes of split s.                             *)
Output(j, s) == [name : NameOf(j, s), by : {j}]

TypeOK ==
    /\ injection \in Injections \cup {None}
    /\ position \in DOMAIN Order
    /\ step \in {"clear", "write", "publish", "swap"}
    /\ DOMAIN tmp = Splits /\ \A s \in Splits : IsDirectory(tmp[s])
    /\ DOMAIN final = Splits /\ \A s \in Splits : IsDirectory(final[s])
    /\ last \in Injections \cup {None}
    /\ complete \in Injections \cup {None}

Init ==
    /\ injection = None
    /\ position = 1
    /\ step = "clear"
    /\ tmp = [s \in Splits |-> Absent]
    /\ final = [s \in Splits |-> Absent]
    /\ last = None
    /\ complete = None

-----------------------------------------------------------------------------
(* Allocation and donor validation come before the first write.            *)
Start(j) ==
    /\ injection = None
    /\ injection' = j
    /\ position' = 1
    /\ step' = "clear"
    /\ last' = j
    /\ complete' = None
    /\ UNCHANGED <<tmp, final>>

(* One unlink of a shutil.rmtree, the last removes the directory itself.   *)
Unlink(dirs, s) ==
    IF dirs[s] = {} THEN {[dirs EXCEPT ![s] = Absent]}
    ELSE {[dirs EXCEPT ![s] = @ \ {f}] : f \in dirs[s]}

ClearTmp ==
    /\ injection # None
    /\ step = "clear"
    /\ tmp[Here] # Absent
    /\ tmp' \in Unlink(tmp, Here)
    /\ UNCHANGED <<injection, position, step, final, last, complete>>

(* Mutant of MakeTmp: what an earlier injection left behind is not         *)
(* cleared.                                                                *)
MakeTmpOverOld ==
    /\ injection # None
    /\ step = "clear"
    /\ tmp' = [tmp EXCEPT ![Here] = IF @ = Absent THEN {} ELSE @]
    /\ step' = "write"
    /\ UNCHANGED <<injection, position, final, last, complete>>

MakeTmp ==
    /\ injection # None
    /\ step = "clear"
    /\ tmp[Here] = Absent
    /\ tmp' = [tmp EXCEPT ![Here] = {}]
    /\ step' = "write"
    /\ UNCHANGED <<injection, position, final, last, complete>>

Written(name) == [name |-> name, by |-> injection]
Unwritten     == {name \in Files[injection][Here] : Written(name) \notin tmp[Here]}

WriteSpanFile ==
    /\ injection # None
    /\ step = "write"
    /\ \E name \in Unwritten : tmp' = [tmp EXCEPT ![Here] = @ \cup {Written(name)}]
    /\ UNCHANGED <<injection, position, step, final, last, complete>>

(* Mutant of WriteManifest: the manifest is written as the files go.       *)
WriteManifestEarly ==
    /\ injection # None
    /\ step = "write"
    /\ tmp' = [tmp EXCEPT ![Here] = @ \cup {Written(Manifest)}]
    /\ step' = "publish"
    /\ UNCHANGED <<injection, position, final, last, complete>>

WriteManifest ==
    /\ injection # None
    /\ step = "write"
    /\ Unwritten = {}
    /\ tmp' = [tmp EXCEPT ![Here] = @ \cup {Written(Manifest)}]
    /\ step' = "publish"
    /\ UNCHANGED <<injection, position, final, last, complete>>

WriteLabels ==
    /\ injection # None
    /\ step = "publish"
    /\ tmp' = [tmp EXCEPT ![Here] = @ \cup {Written(Labels)}]
    /\ step' = "swap"
    /\ UNCHANGED <<injection, position, final, last, complete>>

RemoveOld ==
    /\ injection # None
    /\ step = "swap"
    /\ final[Here] # Absent
    /\ final' \in Unlink(final, Here)
    /\ UNCHANGED <<injection, position, step, tmp, last, complete>>

(* Mutants of Swap: the old split is written over, and the loop runs once  *)
(* too often.                                                              *)
SwapMerging ==
    /\ injection # None
    /\ step = "swap"
    /\ final' = [final EXCEPT ![Here] = tmp[Here] \cup (IF @ = Absent THEN {} ELSE @)]
    /\ tmp' = [tmp EXCEPT ![Here] = Absent]
    /\ step' = "clear"
    /\ IF position < Len(Order)
       THEN position' = position + 1 /\ UNCHANGED <<injection, complete>>
       ELSE position' = 1 /\ injection' = None /\ complete' = injection
    /\ UNCHANGED last

SwapPastTheEnd ==
    /\ injection # None
    /\ step = "swap"
    /\ final[Here] = Absent
    /\ final' = [final EXCEPT ![Here] = tmp[Here]]
    /\ tmp' = [tmp EXCEPT ![Here] = Absent]
    /\ step' = "clear"
    /\ position' = position + 1
    /\ UNCHANGED <<injection, last, complete>>

(* os.replace, then on to the next split or out of inject_run.             *)
Swap ==
    /\ injection # None
    /\ step = "swap"
    /\ final[Here] = Absent
    /\ final' = [final EXCEPT ![Here] = tmp[Here]]
    /\ tmp' = [tmp EXCEPT ![Here] = Absent]
    /\ step' = "clear"
    /\ IF position < Len(Order)
       THEN position' = position + 1 /\ UNCHANGED <<injection, complete>>
       ELSE position' = 1 /\ injection' = None /\ complete' = injection
    /\ UNCHANGED last

(* A fault function raises, or the process dies: the directories stay.     *)
Fail ==
    /\ injection # None
    /\ injection' = None
    /\ position' = 1
    /\ step' = "clear"
    /\ UNCHANGED <<tmp, final, last, complete>>

Advance ==
    ClearTmp \/ MakeTmp \/ WriteSpanFile \/ WriteManifest \/ WriteLabels \/ RemoveOld \/ Swap

Next == (\E j \in Injections : Start(j)) \/ Advance \/ Fail

Spec == Init /\ [][Next]_vars

-----------------------------------------------------------------------------
Authors(dir) == {f.by : f \in dir}

(* What a reader of the split accepts: a manifest and every file it lists. *)
SelfConsistent(s) ==
    /\ final[s] # Absent
    /\ \E f \in final[s] : f.name = Manifest /\ Files[f.by][s] \subseteq {g.name : g \in final[s]}

(* Whatever fails wherever, the files of a split come from one injection,  *)
(* so its labels never describe another injection's telemetry.             *)
NeverMixed ==
    \A s \in Splits : final[s] # Absent =>
        \E j \in Injections : final[s] \subseteq Output(j, s)

(* A split nobody is removing is whole or absent: nothing half written is  *)
(* ever renamed into place.                                                *)
OnlyRemovalTears ==
    [][\A s \in Splits :
          (final'[s] # final[s] /\ final'[s] # Absent) =>
              \/ final[s] # Absent /\ final'[s] \subseteq final[s]
              \/ injection # None /\ final'[s] = Output(injection, s)]_final

(* An injection that went through leaves its own splits, all of them, and  *)
(* no temporary directory.                                                 *)
CompleteIsCurrent ==
    complete # None =>
        \A s \in Splits : final[s] = Output(complete, s) /\ tmp[s] = Absent

-----------------------------------------------------------------------------
(* The inductive strengthening: what an injection has prepared so far for  *)
(* the split it is at, ...                                                 *)
Prepared ==
    step # "clear" =>
        /\ injection # None
        /\ tmp[Here] \subseteq Output(injection, Here)
        /\ step \in {"publish", "swap"} =>
               Output(injection, Here) \ {Written(Labels)} \subseteq tmp[Here]
        /\ step = "swap" => Written(Labels) \in tmp[Here]

(* ... and what it has left behind in those before.                        *)
InOrder ==
    injection # None =>
        /\ complete = None
        /\ \A i \in 1 .. position - 1 :
               final[Order[i]] = Output(injection, Order[i]) /\ tmp[Order[i]] = Absent

StoreInv == TypeOK /\ Prepared /\ InOrder /\ NeverMixed /\ CompleteIsCurrent

-----------------------------------------------------------------------------
(* A mid-run failure never leaves a split of an earlier injection behind   *)
(* that is still self-consistent.                                          *)
NoStaleSplit ==
    injection = None =>
        \A s \in Splits : SelfConsistent(s) => Authors(final[s]) = {last}
=============================================================================
