-------------------------- MODULE CheckRerunProofs ---------------------------
(* Theorems about CheckRerun and the chain it writes, with their proofs.   *)
EXTENDS CheckRerun, WellFoundedInduction, TLAPS

(* What a process knows once it has read everything.                       *)
Whole == [log : Logs, rules : RuleSets, index : Indexes,
          hashed : Crosswalks \cup {Broken}, crosswalk : Crosswalks]

(* A set of positions in a sequence has a first one.                       *)
LEMMA First ==
    ASSUME NEW n \in Nat, NEW T \in SUBSET (1 .. n), T # {}
    PROVE  \E x \in T : \A y \in T : x <= y
<1> DEFINE Below == {pair \in Nat \X Nat : pair[1] < pair[2]}
<1>1. IsWellFoundedOn(Below, Nat)
  BY NatLessThanWellFounded DEF OpToRel
<1>2. \A x, y \in T : y < x => <<y, x>> \in Below
  OBVIOUS
<1>3. T \subseteq Nat
  OBVIOUS
<1> HIDE DEF Below
<1>4. PICK x \in T : \A y \in T : <<y, x>> \notin Below
  BY <1>1, <1>3, WFMin
<1>5. ASSUME NEW y \in T PROVE x <= y
  <2>1. ~ (y < x)
    BY <1>2, <1>4
  <2> QED
    BY <1>3, <2>1
<1> QED
  BY <1>5

-----------------------------------------------------------------------------
(* The bundles a command can write, and what is in them.                   *)
Shaped(bundle) ==
    /\ Len(bundle) \in Nat
    /\ bundle = [i \in 1 .. Len(bundle) |-> bundle[i]]
    /\ \A i \in 1 .. Len(bundle) :
          /\ bundle[i].content \in Records
          /\ bundle[i].integrity =
                [chain_index |-> i - 1,
                 record_sha256 |-> bundle[i].content,
                 prev_record_sha256 |->
                    IF i = 1 THEN Genesis ELSE bundle[i - 1].content]
          /\ bundle[i] = [content |-> bundle[i].content, integrity |-> bundle[i].integrity]

LEMMA BundleShape ==
    ASSUME NEW read \in Whole, NEW commit \in Commits,
           NEW bundle, bundle = Bundle(read, commit)
    PROVE  /\ Shaped(bundle)
           /\ \E found : \A i \in 1 .. Len(bundle) :
                 bundle[i].content = Record(found[i], read, commit)
<1> DEFINE found == Detected[read.log][read.rules]
<1> DEFINE n        == Len(found)
           contents == [i \in 1 .. n |-> Record(found[i], read, commit)]
<1>1. found \in Seq(Violations) /\ n \in Nat
  BY DetectedOnce DEF Whole
<1>2. \A i \in 1 .. n : found[i] \in Violations
  BY <1>1
<1>3. \A i \in 1 .. n : contents[i] = Record(found[i], read, commit)
  OBVIOUS
<1>4. \A i \in 1 .. n : contents[i] \in Records
  BY <1>2, <1>3 DEF Record, Records, Pins, Whole
<1>5. contents \in Seq(Records) /\ Len(contents) = n
  <2>1. contents \in [1 .. n -> Records]
    BY <1>4
  <2> HIDE DEF contents, n, found
  <2> QED BY <1>1, <2>1
<1>6. bundle = Link(contents)
  BY DEF Bundle
<1> HIDE DEF contents, n, found
<1> DEFINE blocks == [i \in 1 .. n |->
                        [chain_index |-> i - 1,
                         record_sha256 |-> contents[i],
                         prev_record_sha256 |-> IF i = 1 THEN Genesis ELSE contents[i - 1]]]
<1>7. bundle = [i \in 1 .. n |-> [content |-> contents[i], integrity |-> blocks[i]]]
  BY <1>5, <1>6 DEF Link
<1> HIDE DEF blocks
<1>8. Len(bundle) = n
  <2> DEFINE R == {bundle[i] : i \in 1 .. n}
  <2>1. bundle \in [1 .. n -> R]
    BY <1>7
  <2> HIDE DEF R
  <2> QED BY <1>1, <2>1
<1>9. \A i \in 1 .. n : bundle[i] = [content |-> contents[i], integrity |-> blocks[i]]
  BY <1>7
<1>10. \A i \in 1 .. n : bundle[i].content = contents[i] /\ bundle[i].integrity = blocks[i]
  <2> SUFFICES ASSUME NEW i \in 1 .. n
               PROVE  bundle[i].content = contents[i] /\ bundle[i].integrity = blocks[i]
    OBVIOUS
  <2>1. bundle[i] = [content |-> contents[i], integrity |-> blocks[i]]
    BY <1>9
  <2> QED BY <2>1
<1>11. \A i \in 1 .. n : i # 1 => bundle[i - 1].content = contents[i - 1]
  <2> SUFFICES ASSUME NEW i \in 1 .. n, i # 1 PROVE bundle[i - 1].content = contents[i - 1]
    OBVIOUS
  <2>1. i - 1 \in 1 .. n
    BY <1>1
  <2> QED BY <1>10, <2>1
<1>12. \A i \in 1 .. n : blocks[i] =
          [chain_index |-> i - 1,
           record_sha256 |-> bundle[i].content,
           prev_record_sha256 |-> IF i = 1 THEN Genesis ELSE bundle[i - 1].content]
  <2> SUFFICES ASSUME NEW i \in 1 .. n
               PROVE  blocks[i] =
                  [chain_index |-> i - 1,
                   record_sha256 |-> bundle[i].content,
                   prev_record_sha256 |-> IF i = 1 THEN Genesis ELSE bundle[i - 1].content]
    OBVIOUS
  <2>1. contents[i] = bundle[i].content
    BY <1>10
  <2>2. CASE i = 1
    BY <2>1, <2>2 DEF blocks
  <2>3. CASE i # 1
    <3>1. contents[i - 1] = bundle[i - 1].content
      BY <1>11, <2>3
    <3> QED BY <2>1, <2>3, <3>1 DEF blocks
  <2> QED BY <2>2, <2>3
<1>13. \A i \in 1 .. n : /\ bundle[i].content = Record(found[i], read, commit)
                         /\ bundle[i].content \in Records
  BY <1>3, <1>4, <1>10
<1>14. bundle = [i \in 1 .. Len(bundle) |-> bundle[i]]
  BY <1>7, <1>8
<1>15. \A i \in 1 .. n : /\ bundle[i].integrity =
                               [chain_index |-> i - 1,
                                record_sha256 |-> bundle[i].content,
                                prev_record_sha256 |->
                                   IF i = 1 THEN Genesis ELSE bundle[i - 1].content]
                         /\ bundle[i] = [content |-> bundle[i].content,
                                         integrity |-> bundle[i].integrity]
  <2>1. \A i \in 1 .. n : bundle[i].integrity = blocks[i]
    BY <1>10
  <2>2. \A i \in 1 .. n : bundle[i] = [content |-> bundle[i].content,
                                       integrity |-> bundle[i].integrity]
    BY <1>9, <1>10, Zenon
  <2> QED BY <1>12, <2>1, <2>2, Zenon
<1>16. Shaped(bundle)
  BY <1>1, <1>8, <1>13, <1>14, <1>15, Zenon DEF Shaped
<1> QED BY <1>8, <1>13, <1>16, Zenon

(* What `check` writes is sealed: whole, from one reading, and chained.    *)
Sealed(bundle) == \E read \in Whole, commit \in Commits : bundle = Bundle(read, commit)

LEMMA SealedShape ==
    ASSUME NEW bundle, Sealed(bundle)
    PROVE  Shaped(bundle)
BY BundleShape DEF Sealed

(* One record tells its whole bundle: what it was made of is in it.        *)
LEMMA OneRecordTells ==
    ASSUME NEW one, Sealed(one), NEW other, Sealed(other),
           NEW i \in 1 .. Len(one), NEW j \in 1 .. Len(other),
           one[i].content = other[j].content
    PROVE  one = other
<1>1. PICK r1 \in Whole, c1 \in Commits : one = Bundle(r1, c1)
  BY DEF Sealed
<1>2. PICK r2 \in Whole, c2 \in Commits : other = Bundle(r2, c2)
  BY DEF Sealed
<1>3. PICK f1 : one[i].content = Record(f1[i], r1, c1)
  BY <1>1, BundleShape
<1>4. PICK f2 : other[j].content = Record(f2[j], r2, c2)
  BY <1>2, BundleShape
<1>5. Record(f1[i], r1, c1) = Record(f2[j], r2, c2)
  BY <1>3, <1>4
<1>6. /\ r1.rules = r2.rules /\ r1.index = r2.index /\ r1.crosswalk = r2.crosswalk
      /\ c1 = c2
      /\ r1.log = r2.log /\ r1.hashed = r2.hashed
  BY <1>5 DEF Record
<1>7. r1 = r2
  BY <1>6 DEF Whole
<1> QED BY <1>1, <1>2, <1>6, <1>7

LEMMA SealedVerifies ==
    ASSUME NEW bundle, Sealed(bundle)
    PROVE  Verify(bundle)
<1> SUFFICES ASSUME NEW i \in 1 .. Len(bundle) PROVE Holds(bundle, i)
  BY DEF Verify
<1> DEFINE block == bundle[i].integrity
<1>0. Len(bundle) \in Nat
  BY SealedShape DEF Shaped
<1>1. block = [chain_index |-> i - 1,
               record_sha256 |-> bundle[i].content,
               prev_record_sha256 |->
                  IF i = 1 THEN Genesis ELSE bundle[i - 1].content]
  BY SealedShape, Zenon DEF Shaped
<1>2. bundle[i].content \in Records
  BY SealedShape, Zenon DEF Shaped
<1>3. i # 1 => /\ i - 1 \in 1 .. Len(bundle)
               /\ bundle[i - 1].content \in Records
               /\ bundle[i - 1].integrity.record_sha256 = bundle[i - 1].content
  <2> SUFFICES ASSUME i # 1
               PROVE  /\ i - 1 \in 1 .. Len(bundle)
                      /\ bundle[i - 1].content \in Records
                      /\ bundle[i - 1].integrity.record_sha256 = bundle[i - 1].content
    OBVIOUS
  <2>1. i - 1 \in 1 .. Len(bundle)
    BY <1>0
  <2>2. bundle[i - 1].integrity =
           [chain_index |-> i - 1 - 1,
            record_sha256 |-> bundle[i - 1].content,
            prev_record_sha256 |->
               IF i - 1 = 1 THEN Genesis ELSE bundle[i - 1 - 1].content]
    BY <2>1, SealedShape, Zenon DEF Shaped
  <2>3. bundle[i - 1].content \in Records
    BY <2>1, SealedShape, Zenon DEF Shaped
  <2>4. bundle[i - 1].integrity.record_sha256 = bundle[i - 1].content
    BY <2>2
  <2> QED BY <2>1, <2>3, <2>4
<1>4. block # Unchained
  <2>1. block \in [chain_index : Nat, record_sha256 : Records,
                   prev_record_sha256 : Records \cup {Genesis}]
    <3>1. i - 1 \in Nat
      BY <1>0
    <3>2. (IF i = 1 THEN Genesis ELSE bundle[i - 1].content) \in Records \cup {Genesis}
      BY <1>3
    <3> HIDE DEF block
    <3> QED BY <1>1, <1>2, <3>1, <3>2
  <2> QED BY <2>1, Markers
<1>5. /\ block.chain_index = i - 1
      /\ block.record_sha256 = bundle[i].content
      /\ block.prev_record_sha256 = IF i = 1 THEN Genesis ELSE bundle[i - 1].content
  BY <1>1
<1> QED BY <1>3, <1>4, <1>5 DEF Holds

-----------------------------------------------------------------------------
(* Records of sealed bundles that verify in their new order are the        *)
(* beginning of one of them: the first position where the copy leaves the  *)
(* bundle its first record is from would have to be linked to both.        *)
LEMMA VerifiedCopy ==
    ASSUME NEW shelf, \A bundle \in shelf : Sealed(bundle),
           NEW scroll, Len(scroll) \in Nat, Len(scroll) # 0,
           \A i \in 1 .. Len(scroll) :
               \E bundle \in shelf : \E j \in 1 .. Len(bundle) : scroll[i] = bundle[j],
           Verify(scroll)
    PROVE  \E bundle \in shelf : IsPrefixOf(scroll, bundle)
<1> DEFINE n == Len(scroll)
<1>1. \A i \in 1 .. n : \E bundle \in shelf : i \in 1 .. Len(bundle) /\ scroll[i] = bundle[i]
  <2> SUFFICES ASSUME NEW i \in 1 .. n
               PROVE  \E bundle \in shelf : i \in 1 .. Len(bundle) /\ scroll[i] = bundle[i]
    OBVIOUS
  <2>1. PICK bundle \in shelf : \E j \in 1 .. Len(bundle) : scroll[i] = bundle[j]
    OBVIOUS
  <2>2. PICK j \in 1 .. Len(bundle) : scroll[i] = bundle[j]
    BY <2>1
  <2>3. scroll[i].integrity.chain_index = i - 1
    BY DEF Verify, Holds
  <2>4. bundle[j].integrity =
           [chain_index |-> j - 1,
            record_sha256 |-> bundle[j].content,
            prev_record_sha256 |-> IF j = 1 THEN Genesis ELSE bundle[j - 1].content]
    BY SealedShape, Zenon DEF Shaped
  <2>5. bundle[j].integrity.chain_index = j - 1
    BY <2>4
  <2>6. i = j
    <3>1. Len(bundle) \in Nat
      BY SealedShape DEF Shaped
    <3> QED BY <2>2, <2>3, <2>5, <3>1
  <2> QED BY <2>2, <2>6
<1>2. PICK bundle \in shelf : 1 \in 1 .. Len(bundle) /\ scroll[1] = bundle[1]
  BY <1>1
<1>3. Len(bundle) \in Nat
  BY SealedShape DEF Shaped
<1> DEFINE Stray == {i \in 1 .. n : ~ (i \in 1 .. Len(bundle) /\ scroll[i] = bundle[i])}
<1>4. Stray = {}
  <2> SUFFICES ASSUME Stray # {} PROVE FALSE
    OBVIOUS
  <2>1. PICK x \in Stray : \A y \in Stray : x <= y
    BY First
  <2>2. x # 1 /\ x \in 1 .. n /\ x - 1 \in 1 .. n
    BY <1>2
  <2>3. x - 1 \in 1 .. Len(bundle) /\ scroll[x - 1] = bundle[x - 1]
    <3>1. ~ (x <= x - 1)
      BY <2>2
    <3>2. x - 1 \notin Stray
      BY <2>1, <3>1
    <3> QED BY <2>2, <3>2
  <2>4. PICK other \in shelf : x \in 1 .. Len(other) /\ scroll[x] = other[x]
    BY <1>1, <2>2
  <2>5. scroll[x].integrity.prev_record_sha256 = scroll[x - 1].integrity.record_sha256
    BY <2>2 DEF Verify, Holds
  <2>6. scroll[x - 1].integrity.record_sha256 = scroll[x - 1].content
    BY <2>2 DEF Verify, Holds
  <2>7. other[x].integrity.prev_record_sha256 = other[x - 1].content
    <3>1. other[x].integrity =
             [chain_index |-> x - 1,
              record_sha256 |-> other[x].content,
              prev_record_sha256 |-> IF x = 1 THEN Genesis ELSE other[x - 1].content]
      BY <2>4, SealedShape, Zenon DEF Shaped
    <3> QED BY <2>2, <3>1
  <2>8. x - 1 \in 1 .. Len(other)
    <3>1. Len(other) \in Nat
      BY SealedShape DEF Shaped
    <3> QED BY <2>2, <2>4, <3>1
  <2>9. bundle[x - 1].content = other[x - 1].content
    BY <2>3, <2>4, <2>5, <2>6, <2>7
  <2>10. bundle = other
    BY <2>3, <2>8, <2>9, OneRecordTells
  <2> QED BY <2>4, <2>10
<1>5. \A i \in 1 .. n : i \in 1 .. Len(bundle) /\ scroll[i] = bundle[i]
  BY <1>4
<1>6. n <= Len(bundle)
  <2>1. n \in 1 .. n
    OBVIOUS
  <2> QED BY <1>3, <1>5, <2>1
<1> QED BY <1>5, <1>6 DEF IsPrefixOf

-----------------------------------------------------------------------------
(* The inductive invariant of the commands: what a process has read by     *)
(* each step, what it was asked for, and what is on the shelf.             *)
Steps      == {"idle", "log", "rules", "index", "hashed", "crosswalk", "render",
               "open", "fill", "replace"}
Writing    == {"open", "fill", "replace"}
AfterCross == {"render"} \cup Writing
AfterHash  == {"crosswalk"} \cup AfterCross
AfterIndex == {"hashed"} \cup AfterHash
AfterRules == {"index"} \cup AfterIndex
AfterLog   == {"rules"} \cup AfterRules

Readings == [log : Logs \cup {NotRead}, rules : RuleSets \cup {NotRead},
             index : Indexes \cup {NotRead},
             hashed : Crosswalks \cup {Broken, NotRead},
             crosswalk : Crosswalks \cup {NotRead}]
Versions == {Version[rules] : rules \in RuleSets}
Lines    == [kind : Kinds, log : Logs \cup {NoPin}, rules : Versions \cup {NoPin},
             index : Indexes \cup {NoPin}, crosswalk : Crosswalks \cup {Broken, NoPin},
             commit : Commits]

DiskOK ==
    /\ disk = [file \in Files |-> disk[file]]
    /\ disk["log"] \in Logs \cup {Gone, Broken}
    /\ disk["rules"] \in RuleSets \cup {Gone, Broken}
    /\ disk["index"] \in Indexes \cup {Gone, Broken}
    /\ disk["crosswalk"] \in Crosswalks \cup {Gone, Broken}

Typed ==
    /\ DiskOK
    /\ pc \in [Processes -> Steps]
    /\ args \in [Processes -> Lines]
    /\ of \in [Processes -> published \cup {NoBundle}]
    /\ seen \in [Processes -> Readings]

Knows(p) ==
    /\ pc[p] \in AfterLog   => seen[p].log \in Logs /\ args[p].log \in {NoPin, seen[p].log}
    /\ pc[p] \in AfterRules => /\ seen[p].rules \in RuleSets
                               /\ args[p].rules \in {NoPin, Version[seen[p].rules]}
    /\ pc[p] \in AfterIndex => seen[p].index \in Indexes
    /\ pc[p] \in AfterHash  => seen[p].hashed \in Crosswalks \cup {Broken}
    /\ pc[p] \in AfterCross => /\ seen[p].crosswalk \in Crosswalks
                               /\ <<seen[p].crosswalk, seen[p].rules>> \in Maps
    /\ pc[p] \in Writing    => PinsHold(p)

CliInv ==
    /\ Typed
    /\ \A p \in Processes : Knows(p)
    /\ \A bundle \in published : Sealed(bundle)

(* A process that writes has a whole reading.                              *)
LEMMA WholeReading ==
    ASSUME CliInv, NEW p \in Processes, pc[p] \in AfterCross
    PROVE  seen[p] \in Whole /\ args[p].commit \in Commits
<1>1. seen[p] \in Readings /\ args[p] \in Lines
  BY DEF CliInv, Typed
<1>2. /\ seen[p].log \in Logs /\ seen[p].rules \in RuleSets /\ seen[p].index \in Indexes
      /\ seen[p].hashed \in Crosswalks \cup {Broken} /\ seen[p].crosswalk \in Crosswalks
  BY DEF CliInv, Knows, AfterLog, AfterRules, AfterIndex, AfterHash, AfterCross, Writing
<1> QED BY <1>1, <1>2 DEF Readings, Whole, Lines

LEMMA PayloadSealed ==
    ASSUME CliInv, NEW p \in Processes, pc[p] \in AfterCross
    PROVE  Sealed(Payload(p))
BY WholeReading DEF Sealed, Payload

LEMMA CliInvInit == Init => CliInv
<1> SUFFICES ASSUME Init PROVE CliInv
  OBVIOUS
<1> USE DEF Init, CliInit, ChainInit
<1>1. DiskOK
  BY DEF DiskOK, Files, Contents
<1>2. Unread \in Readings
  BY DEF Unread, Readings
<1>3. NoArgs \in Lines
  BY CommitsType DEF NoArgs, Lines, Kinds
<1>4. Typed
  BY <1>1, <1>2, <1>3 DEF Typed, Steps
<1>5. \A p \in Processes : Knows(p)
  BY DEF Knows, AfterLog, AfterRules, AfterIndex, AfterHash, AfterCross, Writing
<1> QED BY <1>4, <1>5 DEF CliInv

LEMMA BeginsKeeps ==
    ASSUME CliInv, NEW p \in Processes, NEW line \in Lines,
           NEW bundle \in published \cup {NoBundle}, Begins(p, line, bundle)
    PROVE  CliInv'
<1> USE DEF Begins, chainVars
<1>1. Typed'
  BY DEF CliInv, Typed, DiskOK, Steps
<1>2. ASSUME NEW q \in Processes PROVE Knows(q)'
  <2>1. CASE q = p
    <3>1. pc'[q] = "log"
      BY <2>1 DEF CliInv, Typed
    <3> QED BY <3>1 DEF Knows, AfterLog, AfterRules, AfterIndex, AfterHash, AfterCross, Writing
  <2>2. CASE q # p
    <3>1. pc'[q] = pc[q] /\ args'[q] = args[q] /\ seen'[q] = seen[q]
      BY <2>2 DEF CliInv, Typed
    <3>2. Knows(q)
      BY DEF CliInv
    <3> QED BY <3>1, <3>2 DEF Knows, PinsHold
  <2> QED BY <2>1, <2>2
<1> QED BY <1>1, <1>2 DEF CliInv

LEMMA StartKeeps ==
    ASSUME CliInv, NEW p \in Processes, Check(p) \/ CheckAgain(p) \/ Pack(p)
    PROVE  CliInv'
<1>1. CASE Check(p)
  <2> PICK log \in Logs, rules \in RuleSets, commit \in Commits :
         Begins(p, [NoArgs EXCEPT !.log = log, !.rules = Version[rules], !.commit = commit],
                NoBundle)
    BY <1>1 DEF Check
  <2>1. [NoArgs EXCEPT !.log = log, !.rules = Version[rules], !.commit = commit] \in Lines
    BY DEF NoArgs, Lines, Kinds, Versions
  <2> QED BY <2>1, BeginsKeeps
<1>2. CASE CheckAgain(p)
  <2> PICK bundle \in published : \E i \in 1 .. Len(bundle) : Begins(p, Rerun(bundle[i]), bundle)
    BY <1>2 DEF CheckAgain
  <2> PICK i \in 1 .. Len(bundle) : Begins(p, Rerun(bundle[i]), bundle)
    OBVIOUS
  <2>1. bundle[i].content \in Records
    BY SealedShape, Zenon DEF CliInv, Shaped
  <2>2. bundle[i].content.rerun \in Pins
    BY <2>1 DEF Records
  <2>3. Rerun(bundle[i]) \in Lines
    BY <2>2, CommitsType DEF Rerun, Pins, Lines, Kinds, Versions
  <2> QED BY <2>3, BeginsKeeps
<1>3. CASE Pack(p)
  <2>1. [NoArgs EXCEPT !.kind = "pack"] \in Lines
    BY CommitsType DEF NoArgs, Lines, Kinds
  <2> QED BY <1>3, <2>1, BeginsKeeps DEF Pack
<1> QED BY <1>1, <1>2, <1>3

(* However a command ends.                                                 *)
LEMMA EndsKeeps ==
    ASSUME CliInv, NEW p \in Processes, NEW code, Ends(p, code),
           disk' = disk, published \subseteq published',
           \A bundle \in published' : Sealed(bundle)
    PROVE  CliInv'
<1> USE DEF Ends
<1>1. Unread \in Readings /\ NoArgs \in Lines
  BY CommitsType DEF Unread, Readings, NoArgs, Lines, Kinds
<1>2. Typed'
  BY <1>1 DEF CliInv, Typed, DiskOK, Steps
<1>3. ASSUME NEW q \in Processes PROVE Knows(q)'
  <2>1. CASE q = p
    <3>1. pc'[q] = "idle"
      BY <2>1 DEF CliInv, Typed
    <3> QED BY <3>1 DEF Knows, AfterLog, AfterRules, AfterIndex, AfterHash, AfterCross, Writing
  <2>2. CASE q # p
    <3>1. pc'[q] = pc[q] /\ args'[q] = args[q] /\ seen'[q] = seen[q]
      BY <2>2 DEF CliInv, Typed
    <3>2. Knows(q)
      BY DEF CliInv
    <3> QED BY <3>1, <3>2 DEF Knows, PinsHold
  <2> QED BY <2>1, <2>2
<1> QED BY <1>2, <1>3 DEF CliInv

LEMMA RefusesKeeps ==
    ASSUME CliInv, NEW p \in Processes, NEW code, Refuses(p, code)
    PROVE  CliInv'
BY EndsKeeps DEF Refuses, CliInv, chainVars

(* One file read: what is known of it afterwards.                          *)
LEMMA ReadKeeps ==
    ASSUME CliInv, NEW p \in Processes, Read(p)
    PROVE  CliInv'
<1> USE DEF Read, chainVars
<1> DEFINE step == pc[p]
<1>1. step \in {"log", "rules", "index", "hashed", "crosswalk"}
  BY DEF After
<1>2. /\ step = "log"       => Found(p) \in Logs /\ args[p].log \in {NoPin, Found(p)}
      /\ step = "rules"     => /\ Found(p) \in RuleSets
                               /\ args[p].rules \in {NoPin, Version[Found(p)]}
      /\ step = "index"     => Found(p) \in Indexes
      /\ step = "hashed"    => Found(p) \in Crosswalks \cup {Broken}
      /\ step = "crosswalk" => /\ Found(p) \in Crosswalks
                               /\ <<Found(p), seen[p].rules>> \in Maps
  BY DEF CliInv, Typed, DiskOK, Found, FileOf, Loads, Parses, Unmapped, PinHolds
<1>3. /\ pc' = [pc EXCEPT ![p] = After[step]]
      /\ seen' = [seen EXCEPT ![p] = [seen[p] EXCEPT ![step] = Found(p)]]
  OBVIOUS
<1>4. [seen[p] EXCEPT ![step] = Found(p)] \in Readings
  <2>1. seen[p] \in Readings
    BY DEF CliInv, Typed
  <2> HIDE DEF Found
  <2>2. CASE step = "log"
    BY <1>2, <2>1, <2>2 DEF Readings
  <2>3. CASE step = "rules"
    BY <1>2, <2>1, <2>3 DEF Readings
  <2>4. CASE step = "index"
    BY <1>2, <2>1, <2>4 DEF Readings
  <2>5. CASE step = "hashed"
    BY <1>2, <2>1, <2>5 DEF Readings
  <2>6. CASE step = "crosswalk"
    BY <1>2, <2>1, <2>6 DEF Readings
  <2> QED BY <1>1, <2>2, <2>3, <2>4, <2>5, <2>6
<1>5. After[step] \in Steps
  BY <1>1 DEF After, Steps
<1>6. Typed'
  BY <1>3, <1>4, <1>5 DEF CliInv, Typed, DiskOK
<1>7. ASSUME NEW q \in Processes PROVE Knows(q)'
  <2>0. Knows(q)
    BY DEF CliInv
  <2>1. CASE q # p
    <3>1. pc'[q] = pc[q] /\ args'[q] = args[q] /\ seen'[q] = seen[q]
      BY <2>1 DEF CliInv, Typed
    <3> QED BY <2>0, <3>1 DEF Knows, PinsHold
  <2>2. CASE q = p
    <3>1. seen[p] \in Readings
      BY DEF CliInv, Typed
    <3>2. /\ pc'[p] = After[step]
          /\ seen'[p] = [seen[p] EXCEPT ![step] = Found(p)]
          /\ args'[p] = args[p]
      BY DEF CliInv, Typed
    <3> USE DEF After, Knows, AfterLog, AfterRules, AfterIndex, AfterHash, AfterCross, Writing
    <3>3. CASE step = "log"
      BY <1>2, <2>0, <2>2, <3>1, <3>2, <3>3 DEF Readings
    <3>4. CASE step = "rules"
      BY <1>2, <2>0, <2>2, <3>1, <3>2, <3>4 DEF Readings
    <3>5. CASE step = "index"
      BY <1>2, <2>0, <2>2, <3>1, <3>2, <3>5 DEF Readings
    <3>6. CASE step = "hashed"
      BY <1>2, <2>0, <2>2, <3>1, <3>2, <3>6 DEF Readings
    <3>7. CASE step = "crosswalk"
      BY <1>2, <2>0, <2>2, <3>1, <3>2, <3>7 DEF Readings
    <3> QED BY <1>1, <3>3, <3>4, <3>5, <3>6, <3>7
  <2> QED BY <2>1, <2>2
<1> QED BY <1>6, <1>7 DEF CliInv

(* The steps that only move a process on, once everything is read.         *)
LEMMA OnwardKeeps ==
    ASSUME CliInv, NEW p \in Processes, Render(p) \/ Open(p) \/ Fill(p)
    PROVE  CliInv'
<1> USE DEF Render, Open, Fill, chainVars
<1>1. Typed'
  BY DEF CliInv, Typed, DiskOK, Steps
<1>2. ASSUME NEW q \in Processes PROVE Knows(q)'
  <2>0. Knows(q)
    BY DEF CliInv
  <2>1. args'[q] = args[q] /\ seen'[q] = seen[q]
    OBVIOUS
  <2>2. pc'[q] = pc[q] \/ (q = p /\ pc'[p] \in Writing /\ pc[p] \in AfterCross /\ PinsHold(p))
    <3>1. q # p => pc'[q] = pc[q]
      BY DEF CliInv, Typed
    <3>2. pc'[p] \in Writing /\ pc[p] \in AfterCross
      BY DEF CliInv, Typed, Writing, AfterCross
    <3>3. PinsHold(p)
      BY DEF CliInv, Knows, Writing
    <3> QED BY <3>1, <3>2, <3>3
  <2>3. PinsHold(q)' <=> PinsHold(q)
    BY <2>1 DEF PinsHold
  <2> QED BY <2>0, <2>1, <2>2, <2>3
          DEF Knows, AfterLog, AfterRules, AfterIndex, AfterHash, AfterCross, Writing
<1> QED BY <1>1, <1>2 DEF CliInv

LEMMA ReplaceKeeps ==
    ASSUME CliInv, NEW p \in Processes, Replace(p)
    PROVE  CliInv'
<1>1. pc[p] \in AfterCross
  BY DEF Replace, AfterCross, Writing
<1>2. Sealed(Payload(p))
  BY <1>1, PayloadSealed
<1>3. /\ published' \subseteq published \cup {Payload(p)}
      /\ published \subseteq published'
  BY DEF Replace
<1>4. \A bundle \in published' : Sealed(bundle)
  BY <1>2, <1>3 DEF CliInv
<1>5. Ends(p, 0) /\ disk' = disk
  BY DEF Replace
<1> QED BY <1>3, <1>4, <1>5, EndsKeeps

LEMMA SurroundingsKeep ==
    ASSUME CliInv, Edit \/ HandOver \/ Copying \/ UNCHANGED vars
    PROVE  CliInv'
<1>1. /\ pc' = pc /\ args' = args /\ of' = of /\ seen' = seen
      /\ published' = published
  BY DEF Edit, HandOver, Copying, CopyStep, Drop, Swap, Insert, Replant, Move, Alter, vars,
         chainVars, cliVars
<1>2. DiskOK'
  <2>1. CASE Edit
    <3> PICK file \in Files : \E content \in (Contents[file] \cup {Gone, Broken}) :
           disk' = [disk EXCEPT ![file] = content]
      BY <2>1 DEF Edit
    <3> PICK content \in Contents[file] \cup {Gone, Broken} :
           disk' = [disk EXCEPT ![file] = content]
      OBVIOUS
    <3> USE DEF CliInv, Typed, DiskOK, Files, Contents
    <3>1. CASE file = "log"
      BY <3>1
    <3>2. CASE file = "rules"
      BY <3>2
    <3>3. CASE file = "index"
      BY <3>3
    <3>4. CASE file = "crosswalk"
      BY <3>4
    <3> QED BY <3>1, <3>2, <3>3, <3>4
  <2>2. CASE HandOver
    BY <2>2 DEF HandOver, DiskOK, Files
  <2>3. CASE Copying \/ UNCHANGED vars
    BY <2>3 DEF Copying, vars, cliVars, CliInv, Typed, DiskOK
  <2> QED BY <2>1, <2>2, <2>3
<1>3. Typed'
  BY <1>1, <1>2 DEF CliInv, Typed
<1>4. \A p \in Processes : Knows(p)'
  BY <1>1 DEF CliInv, Knows, PinsHold
<1> QED BY <1>1, <1>3, <1>4 DEF CliInv

LEMMA CliInvNext == CliInv /\ [Next]_vars => CliInv'
<1> SUFFICES ASSUME CliInv, [Next]_vars PROVE CliInv'
  OBVIOUS
<1>1. ASSUME NEW p \in Processes, Process(p) PROVE CliInv'
  <2>1. CASE Check(p) \/ CheckAgain(p) \/ Pack(p)
    BY <2>1, StartKeeps
  <2>2. CASE Read(p)
    BY <2>2, ReadKeeps
  <2>3. CASE \E code : Refuses(p, code)
    BY <2>3, RefusesKeeps
  <2>4. CASE Render(p) \/ Open(p) \/ Fill(p)
    BY <2>4, OnwardKeeps
  <2>5. CASE Replace(p)
    BY <2>5, ReplaceKeeps
  <2>6. Missing(p) \/ Malformed(p) \/ Mismatch(p) \/ RefuseToRender(p) \/ RefuseResult(p)
        \/ CannotWrite(p) \/ Die(p) => \E code : Refuses(p, code)
    BY Zenon DEF Missing, Malformed, Mismatch, RefuseToRender, RefuseResult, CannotWrite, Die
  <2> QED BY <1>1, <2>1, <2>2, <2>3, <2>4, <2>5, <2>6 DEF Process
<1> QED BY <1>1, SurroundingsKeep DEF Next

THEOREM CliInvariant == Spec => []CliInv
BY CliInvInit, CliInvNext, PTL DEF Spec

-----------------------------------------------------------------------------
(* A process that reruns was asked for by a record of its bundle.          *)
Asked(p) ==
    of[p] # NoBundle => \E i \in 1 .. Len(of[p]) : args[p] = Rerun(of[p][i])

(* No false alarm.  What a bundle was made of passed every check but the   *)
(* pins, and the pins of a rerun are those of what it was made of.         *)
Renders(read) ==
    LET found == Detected[read.log][read.rules]
    IN  /\ <<read.index, read.log>> \in Belongs
        /\ <<read.crosswalk, read.rules>> \in Maps
        /\ <<read.crosswalk, read.rules>> \in Agrees
        /\ \A i \in 1 .. Len(found) : <<read.index, found[i]>> \notin Scattered

Rendered(bundle) ==
    \E read \in Whole, commit \in Commits : bundle = Bundle(read, commit) /\ Renders(read)

AlarmInv ==
    /\ CliInv
    /\ DOMAIN exit = Processes
    /\ \A p \in Processes : Asked(p) /\ (pc[p] \in Writing => Renders(seen[p]))
    /\ \A bundle \in published : Rendered(bundle)

LEMMA AlarmInvInit == Init => AlarmInv
<1> SUFFICES ASSUME Init PROVE AlarmInv
  OBVIOUS
<1>1. CliInv
  BY CliInvInit
<1>2. \A p \in Processes : Asked(p) /\ pc[p] \notin Writing
  BY DEF Init, CliInit, Asked, Writing
<1>3. published = {} /\ DOMAIN exit = Processes
  BY DEF Init, ChainInit, CliInit
<1> QED BY <1>1, <1>2, <1>3 DEF AlarmInv

LEMMA ProcessKeepsAlarm ==
    ASSUME AlarmInv, CliInv', NEW p \in Processes, Process(p)
    PROVE  AlarmInv'
<1>1. /\ pc \in [Processes -> Steps] /\ args \in [Processes -> Lines]
      /\ seen \in [Processes -> Readings] /\ DOMAIN of = Processes
  BY DEF AlarmInv, CliInv, Typed
<1> DEFINE Quiet(q) == Asked(q) /\ (pc[q] \in Writing => Renders(seen[q]))
<1>2. \A q \in Processes \ {p} : /\ pc'[q] = pc[q] /\ args'[q] = args[q]
                                 /\ of'[q] = of[q] /\ seen'[q] = seen[q]
  BY <1>1, Zenon DEF Process, Check, CheckAgain, Pack, Begins, Read, Missing, Malformed, Mismatch,
     RefuseToRender, RefuseResult, Render, Open, Fill, Replace, CannotWrite, Die, Refuses, Ends
<1>3. \A q \in Processes : Quiet(q)
  BY DEF AlarmInv
<1>4. \A q \in Processes \ {p} : Quiet(q)'
  BY <1>2, <1>3 DEF Asked
<1>5. Quiet(p)'
  <2>1. ASSUME NEW line, NEW bundle, Begins(p, line, bundle),
               bundle # NoBundle => \E i \in 1 .. Len(bundle) : line = Rerun(bundle[i])
        PROVE  Quiet(p)'
    <3>1. pc'[p] = "log" /\ args'[p] = line /\ of'[p] = bundle
      BY <1>1, <2>1 DEF Begins
    <3> QED BY <2>1, <3>1 DEF Asked, Writing
  <2>2. CASE Check(p) \/ Pack(p)
    BY <2>1, <2>2 DEF Check, Pack
  <2>3. CASE CheckAgain(p)
    BY <2>1, <2>3 DEF CheckAgain
  <2>4. ASSUME NEW code, Ends(p, code)
        PROVE  Quiet(p)'
    <3>1. pc'[p] = "idle" /\ of'[p] = NoBundle
      BY <1>1, <2>4 DEF Ends
    <3> QED BY <3>1 DEF Asked, Writing
  <2>5. CASE Read(p)
    <3>1. args'[p] = args[p] /\ of'[p] = of[p] /\ pc'[p] \notin Writing
      BY <1>1, <2>5 DEF Read, After, Writing
    <3> QED BY <1>3, <3>1 DEF Asked
  <2>6. CASE Render(p)
    <3>1. args'[p] = args[p] /\ of'[p] = of[p] /\ seen'[p] = seen[p]
      BY <2>6 DEF Render
    <3>2. Renders(seen[p])
      <4>1. <<seen[p].crosswalk, seen[p].rules>> \in Maps
        BY <2>6 DEF Render, AlarmInv, CliInv, Knows, AfterCross
      <4> QED BY <2>6, <4>1 DEF Render, IsSidecar, Validates, OneTrace, Renders
    <3> QED BY <1>3, <3>1, <3>2 DEF Asked
  <2>7. CASE Open(p) \/ Fill(p)
    <3>1. args'[p] = args[p] /\ of'[p] = of[p] /\ seen'[p] = seen[p] /\ pc[p] \in Writing
      BY <2>7 DEF Open, Fill, Writing
    <3> QED BY <1>3, <3>1 DEF Asked
  <2>8. CASE Replace(p)
    BY <2>4, <2>8 DEF Replace
  <2>9. CASE \E code : Refuses(p, code)
    BY <2>4, <2>9 DEF Refuses
  <2>10. Missing(p) \/ Malformed(p) \/ Mismatch(p) \/ RefuseToRender(p) \/ RefuseResult(p)
         \/ CannotWrite(p) \/ Die(p) => \E code : Refuses(p, code)
    BY Zenon DEF Missing, Malformed, Mismatch, RefuseToRender, RefuseResult, CannotWrite, Die
  <2> HIDE DEF Quiet
  <2> QED BY <2>2, <2>3, <2>5, <2>6, <2>7, <2>8, <2>9, <2>10 DEF Process
<1>6. \A bundle \in published' : Rendered(bundle)
  <2>1. CASE Replace(p)
    <3>1. pc[p] \in AfterCross /\ pc[p] \in Writing
      BY <2>1 DEF Replace, AfterCross, Writing
    <3>2. seen[p] \in Whole /\ args[p].commit \in Commits
      BY <3>1, WholeReading DEF AlarmInv
    <3>3. Rendered(Payload(p))
      BY <1>3, <3>1, <3>2 DEF Payload, Rendered
    <3>4. published' \subseteq published \cup {Payload(p)}
      BY <2>1 DEF Replace
    <3> QED BY <3>3, <3>4 DEF AlarmInv
  <2>2. CASE ~ Replace(p)
    <3>1. published' = published
      BY <2>2, Zenon DEF Process, Check, CheckAgain, Pack, Begins, Read, Missing, Malformed,
         Mismatch, RefuseToRender, RefuseResult, Render, Open, Fill, CannotWrite, Die,
         Refuses, chainVars
    <3> QED BY <3>1 DEF AlarmInv
  <2> QED BY <2>1, <2>2
<1>7. DOMAIN exit' = Processes
  <2>1. exit' = exit \/ \E code : exit' = [exit EXCEPT ![p] = code]
    BY Zenon DEF Process, Check, CheckAgain, Pack, Begins, Read, Missing, Malformed, Mismatch,
       RefuseToRender, RefuseResult, Render, Open, Fill, Replace, CannotWrite, Die, Refuses, Ends
  <2> QED BY <2>1 DEF AlarmInv
<1> QED BY <1>4, <1>5, <1>6, <1>7 DEF AlarmInv

LEMMA AlarmInvNext == AlarmInv /\ [Next]_vars => AlarmInv'
<1> SUFFICES ASSUME AlarmInv, [Next]_vars PROVE AlarmInv'
  OBVIOUS
<1>1. CliInv'
  BY CliInvNext DEF AlarmInv
<1>2. CASE Edit \/ HandOver \/ Copying \/ UNCHANGED vars
  <2>1. /\ pc' = pc /\ args' = args /\ of' = of /\ seen' = seen
        /\ published' = published
    BY <1>2 DEF Edit, HandOver, Copying, CopyStep, Drop, Swap, Insert, Replant, Move, Alter, vars,
           chainVars, cliVars
  <2>2. DOMAIN exit' = Processes
    BY <1>2 DEF Edit, HandOver, Copying, vars, cliVars, AlarmInv
  <2> QED BY <1>1, <2>1, <2>2 DEF AlarmInv, Asked
<1> QED BY <1>1, <1>2, ProcessKeepsAlarm DEF Next

(* What the records of a rerun's bundle were made of, and what it pins.    *)
LEMMA MadeOfTells ==
    ASSUME AlarmInv, NEW p \in Processes, of[p] # NoBundle
    PROVE  /\ MadeOf(of[p]) \in Whole /\ Renders(MadeOf(of[p]))
           /\ of[p] = Bundle(MadeOf(of[p]), of[p][1].content.commit)
           /\ args[p].kind = "check" /\ args[p].commit = NoCommit
           /\ args[p].log = MadeOf(of[p]).log
           /\ args[p].rules = Version[MadeOf(of[p]).rules]
           /\ args[p].index = MadeOf(of[p]).index
           /\ args[p].crosswalk = MadeOf(of[p]).hashed
<1> DEFINE bundle == of[p]
<1>1. Rendered(bundle)
  BY DEF AlarmInv, CliInv, Typed
<1>2. PICK i \in 1 .. Len(bundle) : args[p] = Rerun(bundle[i])
  BY DEF AlarmInv, Asked
<1>3. PICK read \in Whole, commit \in Commits : bundle = Bundle(read, commit) /\ Renders(read)
  BY <1>1 DEF Rendered
<1>4. PICK found : \A j \in 1 .. Len(bundle) :
                      bundle[j].content = Record(found[j], read, commit)
  BY <1>3, BundleShape
<1>5. Len(bundle) \in Nat
  BY <1>3, BundleShape DEF Shaped
<1>6. 1 \in 1 .. Len(bundle)
  BY <1>2, <1>5
<1>7. bundle[1].content = Record(found[1], read, commit)
  BY <1>4, <1>6
<1>8. MadeOf(bundle) = read
  BY <1>7 DEF MadeOf, Record, Whole
<1>9. bundle[i].content = Record(found[i], read, commit)
  BY <1>2, <1>4
<1>10. /\ args[p].kind = "check" /\ args[p].commit = NoCommit
       /\ args[p].log = read.log /\ args[p].rules = Version[read.rules]
       /\ args[p].index = read.index /\ args[p].crosswalk = read.hashed
  BY <1>2, <1>9 DEF Rerun, Record
<1>11. bundle[1].content.commit = commit
  BY <1>7 DEF Record
<1> QED BY <1>3, <1>8, <1>10, <1>11

-----------------------------------------------------------------------------
(* What a rerun that writes has read is what its pins say.                 *)
LEMMA PinsTell ==
    ASSUME AlarmInv, NEW p \in Processes, Rewrites(p)
    PROVE  /\ seen[p] \in Whole /\ MadeOf(of[p]) \in Whole
           /\ seen[p].log = MadeOf(of[p]).log
           /\ Version[seen[p].rules] = Version[MadeOf(of[p]).rules]
           /\ seen[p].index = MadeOf(of[p]).index
           /\ seen[p].hashed = MadeOf(of[p]).hashed
<1> DEFINE made == MadeOf(of[p])
<1>1. /\ made \in Whole
      /\ args[p].log = made.log /\ args[p].rules = Version[made.rules]
      /\ args[p].index = made.index /\ args[p].crosswalk = made.hashed
  BY MadeOfTells DEF Rewrites
<1> HIDE DEF made
<1>2. pc[p] \in Writing
  BY DEF Rewrites, Writing
<1>3. seen[p] \in Whole
  BY <1>2, WholeReading DEF AlarmInv, AfterCross
<1>4. /\ args[p].log \in {NoPin, seen[p].log}
      /\ args[p].rules \in {NoPin, Version[seen[p].rules]}
      /\ args[p].index \in {NoPin, seen[p].index}
      /\ args[p].crosswalk \in {NoPin, seen[p].hashed}
  BY <1>2 DEF AlarmInv, CliInv, Knows, PinsHold, AfterLog, AfterRules, AfterIndex, AfterHash,
              AfterCross
<1>5. /\ made.log # NoPin /\ Version[made.rules] # NoPin
      /\ made.index # NoPin /\ made.hashed # NoPin
  BY <1>1, Markers DEF Whole
<1> QED BY <1>1, <1>3, <1>4, <1>5 DEF made

(* A rerun that reads the same rules, and a crosswalk that is the one      *)
(* hashed, now and when the bundle was made, has read what the bundle was  *)
(* made of.                                                                *)
LEMMA SameInputsSameBundle ==
    ASSUME AlarmInv, NEW p \in Processes, Rewrites(p),
           ~ OtherRules(p), ~ CrosswalkMoved(p), ~ CommitRecorded(p)
    PROVE  Payload(p) = of[p]
<1> DEFINE made == MadeOf(of[p])
<1>1. /\ of[p] = Bundle(made, of[p][1].content.commit)
      /\ args[p].commit = NoCommit
  BY MadeOfTells DEF Rewrites
<1>2. /\ seen[p] \in Whole /\ made \in Whole
      /\ seen[p].log = made.log /\ seen[p].index = made.index /\ seen[p].hashed = made.hashed
  BY PinsTell
<1>3. seen[p].rules = made.rules /\ seen[p].crosswalk = made.crosswalk
  BY <1>2 DEF OtherRules, CrosswalkMoved
<1>4. of[p][1].content.commit = NoCommit
  BY DEF CommitRecorded
<1> HIDE DEF made
<1>5. seen[p] = made
  BY <1>2, <1>3 DEF Whole
<1> QED BY <1>1, <1>4, <1>5 DEF Payload

(* For any artefacts, any versions rule sets give themselves, any commits, *)
(* any number of processes and any edits at any time: a rerun that comes   *)
(* as far as writing has read what the four pins name, and writes the      *)
(* bundle back unless rules were edited under their version, a crosswalk   *)
(* changed between its two reads, or a commit was recorded.                *)
THEOREM OnlyUnpinnedDiffers == Spec => []RerunDiffersOnlyUnpinned
<1>1. AlarmInv => RerunDiffersOnlyUnpinned
  <2> SUFFICES ASSUME AlarmInv, NEW p \in Processes, Rewrites(p)
               PROVE  LET made == MadeOf(of[p])
                      IN  /\ \A step \in {"log", "index", "hashed"} :
                                seen[p][step] = made[step]
                          /\ Version[seen[p].rules] = Version[made.rules]
                          /\ Payload(p) # of[p] =>
                                OtherRules(p) \/ CrosswalkMoved(p) \/ CommitRecorded(p)
    BY DEF RerunDiffersOnlyUnpinned
  <2>1. Payload(p) # of[p] => OtherRules(p) \/ CrosswalkMoved(p) \/ CommitRecorded(p)
    BY SameInputsSameBundle
  <2>2. /\ seen[p].log = MadeOf(of[p]).log /\ seen[p].index = MadeOf(of[p]).index
        /\ seen[p].hashed = MadeOf(of[p]).hashed
        /\ Version[seen[p].rules] = Version[MadeOf(of[p]).rules]
    BY PinsTell
  <2> QED BY <2>1, <2>2
<1> QED BY AlarmInvInit, AlarmInvNext, <1>1, PTL DEF Spec

-----------------------------------------------------------------------------

(* A rerun that ends with one of these codes has met another artefact.     *)
LEMMA AlarmHasCause ==
    ASSUME AlarmInv, NEW p \in Processes, of[p] # NoBundle,
           Malformed(p) \/ Mismatch(p) \/ RefuseToRender(p) \/ RefuseResult(p)
    PROVE  HasCause(p)
<1> DEFINE made == MadeOf(of[p])
<1>1. /\ made \in Whole /\ Renders(made) /\ args[p].kind = "check"
      /\ args[p].log = made.log /\ args[p].rules = Version[made.rules]
      /\ args[p].index = made.index /\ args[p].crosswalk = made.hashed
  BY MadeOfTells
<1> HIDE DEF made
<1>2. CASE Malformed(p)
  <2>1. /\ pc[p] \in {"log", "rules", "index", "crosswalk"}
        /\ Found(p) = Broken \/ Unmapped(p)
    BY <1>2 DEF Malformed, Parses, After
  <2>2. made[pc[p]] # Broken
    BY <1>1, <2>1, Markers DEF Whole
  <2>3. pc[p] \in DOMAIN After
    BY <2>1 DEF After
  <2>4. CASE Found(p) = Broken
    BY <2>2, <2>3, <2>4 DEF HasCause, made
  <2>5. CASE Unmapped(p)
    <3>1. pc[p] = "crosswalk" /\ <<Found(p), seen[p].rules>> \notin Maps
      BY <2>5 DEF Unmapped
    <3>2. <<made.crosswalk, made.rules>> \in Maps
      BY <1>1 DEF Renders
    <3>3. Found(p) # made.crosswalk \/ seen[p].rules # made.rules
      BY <3>1, <3>2
    <3>4. seen[p].rules # NotRead
      <4>1. seen[p].rules \in RuleSets
        BY <3>1 DEF AlarmInv, CliInv, Knows, AfterRules, AfterIndex, AfterHash
      <4> QED BY <4>1, Markers
    <3>5. "rules" \in DOMAIN After
      BY DEF After
    <3> QED BY <2>3, <3>1, <3>3, <3>4, <3>5 DEF HasCause, made
  <2> QED BY <2>1, <2>4, <2>5
<1>3. CASE Mismatch(p)
  <2>1. pc[p] \in DOMAIN After /\ ~ PinHolds(p)
    BY <1>3 DEF Mismatch
  <2>2. Found(p) # made[pc[p]]
    BY <1>1, <2>1 DEF PinHolds
  <2> QED BY <2>1, <2>2 DEF HasCause, made
<1>4. CASE RefuseToRender(p) \/ RefuseResult(p)
  <2>1. pc[p] = "render"
    BY <1>4 DEF RefuseToRender, RefuseResult
  <2>2. seen[p] \in Whole
    BY <2>1, WholeReading DEF AlarmInv, AfterCross
  <2>3. seen[p] # made
    <3> SUFFICES ASSUME seen[p] = made PROVE FALSE
      OBVIOUS
    <3>1. IsSidecar(p) /\ Validates(p) /\ OneTrace(p)
      BY <1>1 DEF Renders, IsSidecar, Validates, OneTrace
    <3>2. PinsHold(p) /\ ~ NothingToPack(p)
      BY <1>1 DEF PinsHold, NothingToPack
    <3> QED BY <1>4, <3>1, <3>2 DEF RefuseToRender, RefuseResult
  <2>0. DOMAIN After = {"log", "rules", "index", "hashed", "crosswalk"}
    BY DEF After
  <2>4. \E step \in DOMAIN After : seen[p][step] # made[step]
    <3>1. \/ seen[p].log # made.log \/ seen[p].rules # made.rules
          \/ seen[p].index # made.index \/ seen[p].hashed # made.hashed
          \/ seen[p].crosswalk # made.crosswalk
      BY <1>1, <2>2, <2>3 DEF Whole
    <3> QED BY <2>0, <3>1
  <2>5. \A step \in DOMAIN After : seen[p][step] # NotRead
    <3>1. /\ seen[p].log # NotRead /\ seen[p].rules # NotRead /\ seen[p].index # NotRead
          /\ seen[p].hashed # NotRead /\ seen[p].crosswalk # NotRead
      BY <2>2, Markers DEF Whole
    <3> QED BY <2>0, <3>1
  <2> QED BY <2>4, <2>5 DEF HasCause, made
<1> QED BY <1>2, <1>3, <1>4

LEMMA AlarmStep ==
    ASSUME AlarmInv, [Next]_vars, NEW p \in Processes, of[p] # NoBundle,
           pc[p] # "idle", pc'[p] = "idle", exit'[p] \in {4, 6, 7}
    PROVE  HasCause(p)
<1>1. pc \in [Processes -> Steps] /\ DOMAIN exit = Processes
  BY DEF AlarmInv, CliInv, Typed
<1>2. ASSUME NEW q \in Processes, Process(q), q # p PROVE FALSE
  <2>1. pc'[p] = pc[p]
    BY <1>1, <1>2, Zenon DEF Process, Check, CheckAgain, Pack, Begins, Read, Missing, Malformed,
       Mismatch, RefuseToRender, RefuseResult, Render, Open, Fill, Replace, CannotWrite, Die,
       Refuses, Ends
  <2> QED BY <2>1
<1>3. Process(p)
  <2>1. CASE Edit \/ HandOver \/ Copying \/ UNCHANGED vars
    <3>1. pc' = pc
      BY <2>1 DEF Edit, HandOver, Copying, vars, cliVars
    <3> QED BY <3>1
  <2> QED BY <1>2, <2>1 DEF Next
<1>4. ~ (Check(p) \/ CheckAgain(p) \/ Pack(p))
  BY DEF Check, CheckAgain, Pack, Begins
<1>5. ~ (Read(p) \/ Render(p) \/ Open(p) \/ Fill(p))
  BY <1>1 DEF Read, Render, Open, Fill, After
<1>6. ~ (Missing(p) \/ CannotWrite(p) \/ Die(p) \/ Replace(p))
  <2>1. ASSUME NEW code, Ends(p, code) PROVE code \in {4, 6, 7}
    BY <1>1, <2>1 DEF Ends
  <2>2. ~ Ends(p, 3) /\ ~ Ends(p, 137) /\ ~ Ends(p, 0)
    BY <2>1
  <2> QED BY <2>2 DEF Missing, CannotWrite, Die, Replace, Refuses
<1> QED BY <1>3, <1>4, <1>5, <1>6, AlarmHasCause DEF Process

(* A rerun is refused as a mismatch, a crosswalk error or a rejection only *)
(* over an artefact that is another when it is read: for any artefacts,    *)
(* commits and edits, also of the crosswalk between its two reads.         *)
THEOREM NoneIsFalse == Spec => NoFalseAlarm
<1>1. AlarmInv /\ [Next]_vars =>
        \A p \in Processes :
           /\ of[p] # NoBundle
           /\ pc[p] # "idle" /\ pc'[p] = "idle"
           /\ exit'[p] \in {4, 6, 7}
           => HasCause(p)
  BY AlarmStep
<1> QED BY AlarmInvInit, AlarmInvNext, <1>1, PTL DEF Spec, NoFalseAlarm

-----------------------------------------------------------------------------
(* The output files.  Only the process whose name a temporary file bears   *)
(* writes it, so what is renamed is what this process put there.           *)
Filled ==
    /\ tmp = [name \in Kinds \X Processes |-> tmp[name]]
    /\ out = [kind \in Kinds |-> out[kind]]
    /\ \A p \in Processes : pc[p] = "replace" => tmp[TmpName(p)] = Output(p)
    /\ \A p \in Processes : pc[p] \in Writing => ~ NothingToPack(p)

OutInv == CliInv /\ Filled /\ OutIsWhole

LEMMA OutInvInit == Init => OutInv
BY CliInvInit, Markers DEF OutInv, Filled, OutIsWhole, Init, CliInit, Kinds, Writing

(* What `pack` writes is a record.                                         *)
LEMMA PackIsARecord ==
    ASSUME CliInv, NEW p \in Processes, pc[p] \in AfterCross, Payload(p) # << >>
    PROVE  Payload(p)[1].content \in Records
<1> DEFINE bundle == Payload(p)
<1>1. Shaped(bundle)
  BY PayloadSealed, SealedShape
<1> HIDE DEF bundle
<1>2. Len(bundle) \in Nat
  BY <1>1 DEF Shaped
<1>3. bundle \in Seq({bundle[i] : i \in 1 .. Len(bundle)})
  <2> DEFINE R == {bundle[i] : i \in 1 .. Len(bundle)}
  <2>1. bundle \in [1 .. Len(bundle) -> R]
    BY <1>1 DEF Shaped
  <2> HIDE DEF R
  <2>2. bundle \in Seq(R)
    BY <1>2, <2>1
  <2> QED BY <2>2 DEF R
<1>4. bundle # << >>
  BY DEF bundle
<1>5. 1 \in 1 .. Len(bundle)
  BY <1>2, <1>3, <1>4
<1>6. bundle[1].content \in Records
  BY <1>1, <1>5, Zenon DEF Shaped
<1> QED BY <1>6 DEF bundle

LEMMA ProcessKeepsOut ==
    ASSUME OutInv, CliInv', NEW p \in Processes, Process(p)
    PROVE  OutInv'
<1>1. /\ pc \in [Processes -> Steps] /\ args \in [Processes -> Lines]
      /\ seen \in [Processes -> Readings]
      /\ tmp = [name \in Kinds \X Processes |-> tmp[name]]
      /\ out = [kind \in Kinds |-> out[kind]]
  BY DEF OutInv, CliInv, Typed, Filled
<1>2. \A q \in Processes \ {p} : /\ pc'[q] = pc[q] /\ args'[q] = args[q]
                                 /\ seen'[q] = seen[q]
  BY <1>1, Zenon DEF Process, Check, CheckAgain, Pack, Begins, Read, Missing, Malformed, Mismatch,
     RefuseToRender, RefuseResult, Render, Open, Fill, Replace, CannotWrite, Die, Refuses, Ends
<1>3. \A q \in Processes : TmpName(q) \in Kinds \X Processes
  BY <1>1 DEF TmpName, Lines
<1>4. ASSUME NEW q \in Processes \ {p}
      PROVE  /\ TmpName(q)' = TmpName(q) /\ TmpName(q) # TmpName(p)
             /\ Output(q)' = Output(q) /\ NothingToPack(q)' = NothingToPack(q)
  BY <1>2 DEF TmpName, Output, NothingToPack, Payload
<1>5. tmp' = tmp \/ \E value : tmp' = [tmp EXCEPT ![TmpName(p)] = value]
  BY Zenon DEF Process, Check, CheckAgain, Pack, Begins, Read, Missing, Malformed, Mismatch,
     RefuseToRender, RefuseResult, Render, Open, Fill, Replace, CannotWrite, Die, Refuses
<1>6. tmp' = [name \in Kinds \X Processes |-> tmp'[name]]
  BY <1>1, <1>5
<1>7. \A q \in Processes \ {p} : tmp'[TmpName(q)] = tmp[TmpName(q)]
  BY <1>1, <1>3, <1>4, <1>5
<1>8. \A q \in Processes \ {p} : /\ pc'[q] = "replace" => tmp'[TmpName(q)'] = Output(q)'
                                 /\ pc'[q] \in Writing => ~ NothingToPack(q)'
  <2> SUFFICES ASSUME NEW q \in Processes \ {p}
               PROVE  /\ pc'[q] = "replace" => tmp'[TmpName(q)'] = Output(q)'
                      /\ pc'[q] \in Writing => ~ NothingToPack(q)'
    OBVIOUS
  <2>1. pc'[q] = pc[q] /\ tmp'[TmpName(q)] = tmp[TmpName(q)]
    BY <1>2, <1>7
  <2>2. /\ TmpName(q)' = TmpName(q) /\ Output(q)' = Output(q)
        /\ NothingToPack(q)' = NothingToPack(q)
    BY <1>4
  <2>3. /\ pc[q] = "replace" => tmp[TmpName(q)] = Output(q)
        /\ pc[q] \in Writing => ~ NothingToPack(q)
    BY DEF OutInv, Filled
  <2> QED BY <2>1, <2>2, <2>3
<1>9. /\ pc'[p] = "replace" => tmp'[TmpName(p)'] = Output(p)'
      /\ pc'[p] \in Writing => ~ NothingToPack(p)'
  <2>1. CASE Check(p) \/ CheckAgain(p) \/ Pack(p)
    <3>1. pc'[p] = "log"
      BY <1>1, <2>1, Zenon DEF Check, CheckAgain, Pack, Begins
    <3> QED BY <3>1 DEF Writing
  <2>2. CASE Read(p)
    <3>1. pc'[p] \in {"rules", "index", "hashed", "crosswalk", "render"}
      BY <1>1, <2>2 DEF Read, After
    <3> QED BY <3>1 DEF Writing
  <2>3. ASSUME NEW code, Ends(p, code) PROVE pc'[p] = "idle"
    BY <1>1, <2>3 DEF Ends
  <2>4. Missing(p) \/ Malformed(p) \/ Mismatch(p) \/ RefuseToRender(p) \/ RefuseResult(p)
        \/ CannotWrite(p) \/ Die(p) \/ Replace(p) => \E code : Ends(p, code)
    BY Zenon DEF Missing, Malformed, Mismatch, RefuseToRender, RefuseResult, CannotWrite, Die,
       Replace, Refuses
  <2>5. CASE \E code : Ends(p, code)
    BY <2>3, <2>5 DEF Writing
  <2>6. CASE Render(p)
    <3>1. pc'[p] = "open" /\ args' = args /\ seen' = seen /\ ~ NothingToPack(p)
      BY <1>1, <2>6 DEF Render
    <3> QED BY <3>1 DEF NothingToPack, Payload
  <2>7. CASE Open(p)
    <3>1. pc'[p] = "fill" /\ args' = args /\ seen' = seen /\ pc[p] \in Writing
      BY <1>1, <2>7 DEF Open, Writing
    <3> QED BY <3>1 DEF NothingToPack, Payload, OutInv, Filled
  <2>8. CASE Fill(p)
    <3>1. /\ args' = args /\ seen' = seen /\ pc[p] \in Writing
          /\ tmp' = [tmp EXCEPT ![TmpName(p)] = Output(p)]
      BY <2>8 DEF Fill, Writing
    <3>2. tmp'[TmpName(p)] = Output(p)
      BY <1>1, <1>3, <3>1
    <3>3. TmpName(p)' = TmpName(p) /\ Output(p)' = Output(p)
      BY <3>1 DEF TmpName, Output, Payload
    <3>4. NothingToPack(p)' = NothingToPack(p)
      BY <3>1 DEF NothingToPack, Payload
    <3> QED BY <3>1, <3>2, <3>3, <3>4 DEF OutInv, Filled
  <2> QED BY <2>1, <2>2, <2>4, <2>5, <2>6, <2>7, <2>8 DEF Process
<1>10. OutIsWhole' /\ out' = [kind \in Kinds |-> out'[kind]]
  <2>1. CASE Replace(p)
    <3>1. out' = [out EXCEPT ![args[p].kind] = Output(p)]
      BY <2>1 DEF Replace, OutInv, Filled
    <3>2. args[p].kind \in {"check", "pack"}
      BY <1>1 DEF Lines, Kinds
    <3>3. CASE args[p].kind = "check"
      <4>1. out'["check"] = Payload(p) /\ out'["pack"] = out["pack"]
        BY <1>1, <3>1, <3>3 DEF Output, Kinds
      <4>2. Payload(p) \in published'
        BY <2>1, <3>3 DEF Replace
      <4> QED BY <1>1, <3>1, <4>1, <4>2 DEF OutIsWhole, OutInv
    <3>4. CASE args[p].kind = "pack"
      <4>1. out'["pack"] = Payload(p)[1].content /\ out'["check"] = out["check"]
        BY <1>1, <3>1, <3>4 DEF Output, Kinds
      <4>2. Payload(p) # << >> /\ pc[p] \in AfterCross
        BY <2>1, <3>4 DEF Replace, OutInv, Filled, NothingToPack, AfterCross, Writing
      <4>3. Payload(p)[1].content \in Records
        BY <4>2, PackIsARecord DEF OutInv
      <4>4. published' = published
        BY <2>1, <3>4 DEF Replace
      <4> QED BY <1>1, <3>1, <4>1, <4>3, <4>4, Markers DEF OutIsWhole, OutInv
    <3> QED BY <3>2, <3>3, <3>4
  <2>2. CASE ~ Replace(p)
    <3>1. published' = published /\ out' = out
      BY <2>2, Zenon DEF Process, Check, CheckAgain, Pack, Begins, Read, Missing, Malformed,
         Mismatch, RefuseToRender, RefuseResult, Render, Open, Fill, CannotWrite, Die,
         Refuses, chainVars
    <3> QED BY <1>1, <3>1 DEF OutIsWhole, OutInv
  <2> QED BY <2>1, <2>2
<1>11. \A q \in Processes : /\ pc'[q] = "replace" => tmp'[TmpName(q)'] = Output(q)'
                            /\ pc'[q] \in Writing => ~ NothingToPack(q)'
  BY <1>8, <1>9
<1>12. Filled'
  BY <1>6, <1>10, <1>11 DEF Filled
<1> QED BY <1>10, <1>12 DEF OutInv

LEMMA SurroundingsKeepOut ==
    ASSUME OutInv, CliInv', Edit \/ HandOver \/ Copying \/ UNCHANGED vars
    PROVE  OutInv'
<1>1. /\ pc' = pc /\ args' = args /\ seen' = seen /\ published' = published
  BY DEF Edit, HandOver, Copying, CopyStep, Drop, Swap, Insert, Replant, Move, Alter, vars,
         chainVars, cliVars
<1>2. CASE HandOver
  <2>1. \A p \in Processes : pc'[p] = "idle"
    BY <1>1, <1>2 DEF HandOver
  <2>2. DOMAIN tmp = Kinds \X Processes
    BY DEF OutInv, Filled
  <2>3. /\ tmp' = [name \in Kinds \X Processes |-> Absent]
        /\ out' = [kind \in Kinds |-> Absent]
    BY <1>2, <2>2 DEF HandOver
  <2>4. Filled'
    BY <2>1, <2>3 DEF Filled, Writing
  <2>5. OutIsWhole'
    BY <2>3, Markers DEF OutIsWhole, Kinds
  <2> QED BY <2>4, <2>5 DEF OutInv
<1>3. CASE ~ HandOver
  <2>1. tmp' = tmp /\ out' = out
    BY <1>3 DEF Edit, Copying, vars, cliVars
  <2>2. Filled'
    BY <1>1, <2>1 DEF OutInv, Filled, TmpName, Output, NothingToPack, Payload
  <2> QED BY <1>1, <2>1, <2>2 DEF OutInv, OutIsWhole
<1> QED BY <1>2, <1>3

(* An output file is absent or whole, whatever writes to it at once and    *)
(* wherever it dies, for any number of processes.                          *)
THEOREM OutputsAreWhole == Spec => []OutIsWhole
<1>1. Init => OutInv
  BY OutInvInit
<1>2. OutInv /\ [Next]_vars => OutInv'
  <2> SUFFICES ASSUME OutInv, [Next]_vars PROVE OutInv'
    OBVIOUS
  <2>1. CliInv'
    BY CliInvNext DEF OutInv
  <2> QED BY <2>1, ProcessKeepsOut, SurroundingsKeepOut DEF Next
<1>3. OutInv => OutIsWhole
  BY DEF OutInv
<1> QED BY <1>1, <1>2, <1>3, PTL DEF Spec

-----------------------------------------------------------------------------
(* The copy.  As long as its records are only moved about, each is one of  *)
(* a published bundle; a record that was changed is caught at once.        *)
LEMMA LengthOf ==
    ASSUME NEW n \in Nat, NEW s, s = [k \in 1 .. n |-> s[k]]
    PROVE  Len(s) = n
<1> DEFINE R == {s[k] : k \in 1 .. n}
<1>1. s \in [1 .. n -> R]
  OBVIOUS
<1> HIDE DEF R
<1> QED BY <1>1

Drawn(s) == \A i \in 1 .. Len(s) :
                \E bundle \in published : \E j \in 1 .. Len(bundle) : s[i] = bundle[j]

CopyInv ==
    /\ moves \in Nat
    /\ copy # NoCopy =>
          /\ published # {}
          /\ Len(copy) \in Nat
          /\ copy = [i \in 1 .. Len(copy) |-> copy[i]]
          /\ ~ altered => Drawn(copy)
          /\ ~ altered /\ moves = 0 => copy \in published
          /\ altered => ~ Verify(copy)

LEMMA SealedDrawn ==
    ASSUME NEW bundle \in published
    PROVE  Drawn(bundle)
BY DEF Drawn

LEMMA MovedIsDrawn ==
    ASSUME CopyInv, copy # NoCopy, NEW n \in Nat, NEW s, Move(s),
           s = [k \in 1 .. n |-> s[k]],
           \A k \in 1 .. n :
              \/ \E i \in 1 .. Len(copy) : s[k] = copy[i]
              \/ \E bundle \in published : \E j \in 1 .. Len(bundle) : s[k] = bundle[j]
    PROVE  CopyInv'
<1>1. Len(s) = n
  BY LengthOf
<1>2. published' = published /\ copy' = s /\ moves' = moves + 1
  BY DEF Move
<1>3. ~ altered /\ ~ altered'
  BY Zenon DEF Move
<1>4. moves' \in Nat /\ moves' # 0
  BY <1>2 DEF CopyInv
<1>5. Drawn(copy)
  BY <1>3, Zenon DEF CopyInv
<1>6. Drawn(s)
  <2> SUFFICES ASSUME NEW k \in 1 .. n
               PROVE  \E bundle \in published : \E j \in 1 .. Len(bundle) : s[k] = bundle[j]
    BY <1>1 DEF Drawn
  <2>1. CASE \E i \in 1 .. Len(copy) : s[k] = copy[i]
    <3> PICK i \in 1 .. Len(copy) : s[k] = copy[i]
      BY <2>1
    <3> QED BY <1>5 DEF Drawn
  <2> QED BY <2>1
<1>7. Drawn(copy)'
  BY <1>2, <1>6 DEF Drawn
<1>8. published' # {} /\ Len(copy') \in Nat /\ copy' = [i \in 1 .. Len(copy') |-> copy'[i]]
  BY <1>1, <1>2 DEF CopyInv
<1> QED BY <1>3, <1>4, <1>7, <1>8, Zenon DEF CopyInv

LEMMA MovesKeep ==
    ASSUME CopyInv, Drop \/ Swap \/ Insert \/ Replant
    PROVE  CopyInv'
<1>0. copy # NoCopy
  BY DEF Drop, Swap, Insert, Replant
<1> DEFINE n == Len(copy)
<1>1. n \in Nat
  BY <1>0 DEF CopyInv
<1>2. CASE Drop
  <2> PICK i \in 1 .. n :
         Move([j \in 1 .. n - 1 |-> IF j < i THEN copy[j] ELSE copy[j + 1]])
    BY <1>2 DEF Drop
  <2> DEFINE s == [j \in 1 .. n - 1 |-> IF j < i THEN copy[j] ELSE copy[j + 1]]
  <2>1. s = [k \in 1 .. n - 1 |-> s[k]] /\ n - 1 \in Nat
    BY <1>1
  <2>2. \A k \in 1 .. n - 1 : \E j \in 1 .. n : s[k] = copy[j]
    <3> SUFFICES ASSUME NEW k \in 1 .. n - 1 PROVE \E j \in 1 .. n : s[k] = copy[j]
      OBVIOUS
    <3>1. k \in 1 .. n /\ k + 1 \in 1 .. n
      BY <1>1
    <3> QED BY <3>1
  <2>3. Move(s)
    OBVIOUS
  <2> HIDE DEF s
  <2> QED BY <1>0, <2>1, <2>2, <2>3, MovedIsDrawn
<1>3. CASE Swap
  <2> PICK i \in 1 .. n, j \in 1 .. n :
         Move([k \in 1 .. n |-> IF k = i THEN copy[j] ELSE IF k = j THEN copy[i] ELSE copy[k]])
    BY <1>3 DEF Swap
  <2> DEFINE s == [k \in 1 .. n |->
                      IF k = i THEN copy[j] ELSE IF k = j THEN copy[i] ELSE copy[k]]
  <2>1. s = [k \in 1 .. n |-> s[k]]
    OBVIOUS
  <2>2. \A k \in 1 .. n : \E l \in 1 .. n : s[k] = copy[l]
    OBVIOUS
  <2>3. Move(s)
    OBVIOUS
  <2> HIDE DEF s
  <2> QED BY <1>0, <1>1, <2>1, <2>2, <2>3, MovedIsDrawn
<1>4. CASE Insert
  <2> PICK bundle \in published : \E i \in 1 .. Len(bundle), j \in 1 .. n + 1 :
         Move([k \in 1 .. n + 1 |->
                  IF k < j THEN copy[k] ELSE IF k = j THEN bundle[i] ELSE copy[k - 1]])
    BY <1>4 DEF Insert
  <2> PICK i \in 1 .. Len(bundle), j \in 1 .. n + 1 :
         Move([k \in 1 .. n + 1 |->
                  IF k < j THEN copy[k] ELSE IF k = j THEN bundle[i] ELSE copy[k - 1]])
    OBVIOUS
  <2> DEFINE s == [k \in 1 .. n + 1 |->
                      IF k < j THEN copy[k] ELSE IF k = j THEN bundle[i] ELSE copy[k - 1]]
  <2>1. s = [k \in 1 .. n + 1 |-> s[k]] /\ n + 1 \in Nat
    BY <1>1
  <2>2. \A k \in 1 .. n + 1 : s[k] = bundle[i] \/ \E l \in 1 .. n : s[k] = copy[l]
    <3> SUFFICES ASSUME NEW k \in 1 .. n + 1, k # j PROVE \E l \in 1 .. n : s[k] = copy[l]
      BY <1>1
    <3>1. CASE k < j
      <4>1. k \in 1 .. n
        BY <1>1, <3>1
      <4> QED BY <3>1, <4>1
    <3>2. CASE ~ (k < j)
      <4>1. k - 1 \in 1 .. n
        BY <1>1, <3>2
      <4> QED BY <3>2, <4>1
    <3> QED BY <3>1, <3>2
  <2>3. Move(s)
    OBVIOUS
  <2> HIDE DEF s
  <2>4. \A k \in 1 .. n + 1 :
           \/ \E l \in 1 .. n : s[k] = copy[l]
           \/ \E b \in published : \E l \in 1 .. Len(b) : s[k] = b[l]
    BY <2>2
  <2> DEFINE m == n + 1
  <2>5. m \in Nat /\ s = [k \in 1 .. m |-> s[k]]
    BY <2>1
  <2>6. \A k \in 1 .. m :
           \/ \E l \in 1 .. Len(copy) : s[k] = copy[l]
           \/ \E b \in published : \E l \in 1 .. Len(b) : s[k] = b[l]
    BY <2>4
  <2> HIDE DEF m
  <2>7. CopyInv'
    BY <1>0, <2>3, <2>5, <2>6, MovedIsDrawn
  <2> QED BY <2>7
<1>5. CASE Replant
  <2> PICK bundle \in published : \E i \in 1 .. Len(bundle), j \in 1 .. n :
         Move([k \in 1 .. n |-> IF k = j THEN bundle[i] ELSE copy[k]])
    BY <1>5 DEF Replant
  <2> PICK i \in 1 .. Len(bundle), j \in 1 .. n :
         Move([k \in 1 .. n |-> IF k = j THEN bundle[i] ELSE copy[k]])
    OBVIOUS
  <2> DEFINE s == [k \in 1 .. n |-> IF k = j THEN bundle[i] ELSE copy[k]]
  <2>1. s = [k \in 1 .. n |-> s[k]]
    OBVIOUS
  <2>2. \A k \in 1 .. n : s[k] = bundle[i] \/ \E l \in 1 .. n : s[k] = copy[l]
    OBVIOUS
  <2>3. Move(s)
    OBVIOUS
  <2> HIDE DEF s
  <2>4. \A k \in 1 .. n :
           \/ \E l \in 1 .. n : s[k] = copy[l]
           \/ \E b \in published : \E l \in 1 .. Len(b) : s[k] = b[l]
    BY <2>2
  <2> HIDE DEF n
  <2>5. CopyInv'
    BY <1>0, <1>1, <2>1, <2>3, <2>4, MovedIsDrawn DEF n
  <2> QED BY <2>5
<1> QED BY <1>2, <1>3, <1>4, <1>5

(* Whatever field of whichever record was changed, the copy fails.         *)
LEMMA AlteredFails ==
    ASSUME CliInv, CopyInv, Alter
    PROVE  /\ published # {} /\ published' = published /\ moves' = moves
           /\ Len(copy') \in Nat
           /\ copy' = [i \in 1 .. Len(copy') |-> copy'[i]]
           /\ ~ Verify(copy')
<1>1. copy # NoCopy /\ published' = published /\ moves' = moves
  BY DEF Alter
<1>2. copy \in published /\ published # {} /\ Len(copy) \in Nat
  <2>1. moves = 0 /\ ~ altered
    BY Zenon DEF Alter
  <2> QED BY <1>1, <2>1, Zenon DEF CopyInv
<1> DEFINE n == Len(copy)
<1>3. PICK i \in 1 .. n : \E record \in Changed(copy[i]) :
         copy' = [k \in 1 .. n |-> IF k = i THEN record ELSE copy[k]]
  BY DEF Alter
<1>4. PICK record \in Changed(copy[i]) :
         copy' = [k \in 1 .. n |-> IF k = i THEN record ELSE copy[k]]
  BY <1>3
<1>5. copy' = [k \in 1 .. n |-> copy'[k]]
  BY <1>4
<1>6. Len(copy') = n
  BY <1>2, <1>5, LengthOf
<1>7. copy'[i] = record
  BY <1>4
<1>8. Shaped(copy)
  BY <1>2, SealedShape DEF CliInv
<1> DEFINE c == copy[i].content
<1>9. c \in Records /\ c # Forged
  BY <1>8, Markers, Zenon DEF Shaped
<1>10. /\ copy[i].integrity =
             [chain_index |-> i - 1, record_sha256 |-> c,
              prev_record_sha256 |-> IF i = 1 THEN Genesis ELSE copy[i - 1].content]
       /\ copy[i] = [content |-> c, integrity |-> copy[i].integrity]
  BY <1>8, Zenon DEF Shaped
<1>11. (IF i = 1 THEN Genesis ELSE copy[i - 1].content) # Forged
  <2>1. CASE i = 1
    BY <2>1, Markers
  <2>2. CASE i # 1
    <3>1. i - 1 \in 1 .. n
      BY <1>2, <2>2
    <3>2. copy[i - 1].content \in Records
      BY <1>8, <3>1, Zenon DEF Shaped
    <3> QED BY <2>2, <3>2, Markers
  <2> QED BY <2>1, <2>2
<1>12. ~ Holds(copy', i)
  <2> DEFINE block == copy[i].integrity
  <2>1. CASE record = [copy[i] EXCEPT !.content = Forged]
    <3>1. record.content = Forged /\ record.integrity.record_sha256 = c
      BY <1>10, <2>1
    <3> QED BY <1>7, <1>9, <3>1 DEF Holds
  <2>2. CASE record = [copy[i] EXCEPT !.integrity = Unchained]
    <3>1. record.integrity = Unchained
      BY <1>10, <2>2
    <3> QED BY <1>7, <3>1 DEF Holds
  <2>3. CASE record = [copy[i] EXCEPT !.integrity.record_sha256 = Forged]
    <3>1. record.content = c /\ record.integrity.record_sha256 = Forged
      BY <1>10, <2>3
    <3> QED BY <1>7, <1>9, <3>1 DEF Holds
  <2>4. CASE record = [copy[i] EXCEPT !.integrity.prev_record_sha256 = Forged]
    <3>1. record.integrity.prev_record_sha256 = Forged
      BY <1>10, <2>4
    <3>2. i # 1 => copy'[i - 1].integrity.record_sha256 # Forged
      <4> SUFFICES ASSUME i # 1 PROVE copy'[i - 1].integrity.record_sha256 # Forged
        OBVIOUS
      <4>1. i - 1 \in 1 .. n
        BY <1>2
      <4>2. copy'[i - 1] = copy[i - 1]
        BY <1>4, <4>1
      <4>3. /\ copy[i - 1].content \in Records
            /\ copy[i - 1].integrity =
                  [chain_index |-> i - 1 - 1, record_sha256 |-> copy[i - 1].content,
                   prev_record_sha256 |-> IF i - 1 = 1 THEN Genesis ELSE copy[i - 1 - 1].content]
        BY <1>8, <4>1, Zenon DEF Shaped
      <4> QED BY <4>2, <4>3, Markers
    <3> QED BY <1>7, <3>1, <3>2, Markers DEF Holds
  <2>5. CASE record = [copy[i] EXCEPT !.integrity.chain_index = block.chain_index + 1]
    <3>1. record.integrity.chain_index = i - 1 + 1
      BY <1>10, <2>5
    <3> QED BY <1>2, <1>7, <3>1 DEF Holds
  <2> QED BY <1>4, <2>1, <2>2, <2>3, <2>4, <2>5 DEF Changed
<1>13. ~ Verify(copy')
  BY <1>6, <1>12 DEF Verify
<1> QED BY <1>1, <1>2, <1>5, <1>6, <1>13

LEMMA CopyInvNext ==
    ASSUME CliInv, CliInv', CopyInv, [Next]_vars
    PROVE  CopyInv'
<1>1. CASE Drop \/ Swap \/ Insert \/ Replant
  BY <1>1, MovesKeep
<1>2. CASE Alter
  <2>1. altered'
    BY <1>2, Zenon DEF Alter
  <2>2. /\ published' # {} /\ moves' \in Nat /\ Len(copy') \in Nat
        /\ copy' = [i \in 1 .. Len(copy') |-> copy'[i]]
        /\ ~ Verify(copy)'
    <3>1. ~ Verify(copy') /\ moves' = moves
      BY <1>2, AlteredFails
    <3>2. Verify(copy)' <=> Verify(copy')
      BY DEF Verify, Holds
    <3> QED BY <1>2, <3>1, <3>2, AlteredFails DEF CopyInv
  <2> QED BY <2>1, <2>2, Zenon DEF CopyInv
<1>3. CASE HandOver
  <2>1. copy' \in published /\ published' = published /\ moves' = 0
    BY <1>3 DEF HandOver
  <2>2. ~ altered'
    BY <1>3, Zenon DEF HandOver
  <2>3. Shaped(copy')
    BY <2>1, SealedShape DEF CliInv
  <2>4. Drawn(copy)'
    BY <2>1 DEF Drawn
  <2>5. /\ published' # {} /\ moves' \in Nat /\ Len(copy') \in Nat
        /\ copy' = [i \in 1 .. Len(copy') |-> copy'[i]]
        /\ copy' \in published'
    BY <2>1, <2>3 DEF Shaped
  <2> QED BY <2>2, <2>4, <2>5, Zenon DEF CopyInv
<1>4. CASE ~ (CopyStep \/ HandOver)
  <2>1. copy' = copy /\ moves' = moves /\ published \subseteq published'
    BY <1>4 DEF Next, Process, Check, CheckAgain, Pack, Begins, Read, Missing, Malformed, Mismatch,
       RefuseToRender, RefuseResult, Render, Open, Fill, Replace, CannotWrite, Die, Refuses,
       Edit, Copying, vars, chainVars
  <2>2. altered' = altered
    BY <1>4, Zenon DEF Next, Process, Check, CheckAgain, Pack, Begins, Read, Missing, Malformed,
       Mismatch, RefuseToRender, RefuseResult, Render, Open, Fill, Replace, CannotWrite, Die,
       Refuses, Edit, Copying, vars, chainVars
  <2>3. Drawn(copy) => Drawn(copy)'
    BY <2>1 DEF Drawn
  <2>4. Verify(copy)' <=> Verify(copy)
    BY <2>1 DEF Verify, Holds
  <2>5. copy \in published => copy' \in published'
    BY <2>1
  <2>6. published # {} => published' # {}
    BY <2>1
  <2> QED BY <2>1, <2>2, <2>3, <2>4, <2>5, <2>6, Zenon DEF CopyInv
<1> QED BY <1>1, <1>2, <1>3, <1>4 DEF CopyStep

LEMMA PrefixVerifies ==
    ASSUME NEW s, Len(s) \in Nat, NEW bundle, Sealed(bundle), IsPrefixOf(s, bundle)
    PROVE  Verify(s)
<1> SUFFICES ASSUME NEW i \in 1 .. Len(s) PROVE Holds(s, i)
  BY DEF Verify
<1>1. Len(bundle) \in Nat
  BY SealedShape DEF Shaped
<1>2. Holds(bundle, i)
  BY <1>1, SealedVerifies DEF Verify, IsPrefixOf
<1>3. s[i] = bundle[i] /\ (i # 1 => s[i - 1] = bundle[i - 1])
  BY DEF IsPrefixOf
<1> QED BY <1>2, <1>3 DEF Holds

(* A copy verifies exactly if it is the beginning of one published bundle, *)
(* for bundles of any length and any number of records moved.              *)
THEOREM VerifiedCopyIsPrefix == Spec => []VerifiedIsPrefix
<1>1. Init => CliInv /\ CopyInv
  BY CliInvInit DEF Init, ChainInit, CopyInv
<1>2. CliInv /\ CopyInv /\ [Next]_vars => (CliInv /\ CopyInv)'
  BY CliInvNext, CopyInvNext
<1>3. CliInv /\ CopyInv => VerifiedIsPrefix
  <2> SUFFICES ASSUME CliInv, CopyInv, copy # NoCopy
               PROVE  Verify(copy) <=> \E bundle \in published : IsPrefixOf(copy, bundle)
    BY DEF VerifiedIsPrefix
  <2>1. \A bundle \in published : Sealed(bundle)
    BY DEF CliInv
  <2>2. Len(copy) \in Nat /\ published # {}
    BY DEF CopyInv
  <2>3. ASSUME Verify(copy) PROVE \E bundle \in published : IsPrefixOf(copy, bundle)
    <3>1. Drawn(copy)
      BY <2>3, Zenon DEF CopyInv
    <3>2. CASE Len(copy) = 0
      <4> PICK bundle \in published : TRUE
        BY <2>2
      <4>1. Len(bundle) \in Nat
        BY <2>1, SealedShape DEF Shaped
      <4> QED BY <3>2, <4>1 DEF IsPrefixOf
    <3>3. CASE Len(copy) # 0
      BY <2>1, <2>2, <2>3, <3>1, <3>3, VerifiedCopy DEF Drawn
    <3> QED BY <3>2, <3>3
  <2>4. ASSUME NEW bundle \in published, IsPrefixOf(copy, bundle) PROVE Verify(copy)
    BY <2>1, <2>2, <2>4, PrefixVerifies
  <2> QED BY <2>3, <2>4
<1> QED BY <1>1, <1>2, <1>3, PTL DEF Spec
=============================================================================
