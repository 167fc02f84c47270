----------------------------- MODULE JudgeProofs -----------------------------
(***************************************************************************)
(* Theorems about JudgeCache and JudgeScores, for any sweeps, answers,     *)
(* labels and processes.                                                   *)
(*                                                                         *)
(* CacheOK says what every part of the state holds and holds whatever runs *)
(* at once. AloneOK is about the time before two live sweeps have met:     *)
(* then a question is only asked while its record is absent, so a record   *)
(* that is there is never written over, and every run seen is of it.  The  *)
(* scores of a report are a matter of finite sets: two majorities of its   *)
(* runs meet, and what confusion takes is a first fit.                     *)
(***************************************************************************)
EXTENDS JudgeScores, FiniteSetTheorems, TLAPS

Writing == {"open", "fill", "replace"}
Asking  == {"ask"} \cup Writing

Records ==
    UNION {{[asked |-> asked, verdict |-> verdict] : verdict \in Answers[asked.prompt]} :
           asked \in Asked}

Runs == [asked : Asked, given : Records, from_cache : BOOLEAN]

TypeOK ==
    /\ cache \in [Keys -> Records \cup {Absent}]
    /\ tmp \in [Sweepers -> Records \cup {Absent, Torn}]
    /\ sweep \in [Sweepers -> Sweeps \cup {NoSweep}]
    /\ live \subseteq Sweepers
    /\ runs \in [Sweepers -> Seq(Runs)]
    /\ answer \in [Sweepers -> Records \cup {NoAnswer}]
    /\ pc \in [Sweepers -> {"idle", "lookup"} \cup Asking]

Active(p) ==
    /\ pc[p] # "idle" => sweep[p] \in Sweeps
    /\ pc[p] = "idle" => p \notin live
    /\ pc[p] \in Asking => p \in live /\ ~ AllDone(p)
    /\ pc[p] \in Writing => answer[p] # NoAnswer /\ answer[p].asked = Current(p)
    /\ pc[p] \notin Writing => answer[p] = NoAnswer
    /\ pc[p] = "replace" => tmp[p] = answer[p]

KeysFit == \A key \in Keys : cache[key] # Absent => Key(cache[key].asked) = key

RunsFit ==
    \A p \in Sweepers : \A i \in DOMAIN runs[p] :
        /\ runs[p][i].given.asked = runs[p][i].asked
        /\ cache[Key(runs[p][i].asked)] # Absent

ReportsFit ==
    \A report \in reports : \A run \in report :
        run.asked \in Asked /\ run.given \in Records /\ run.given.asked = run.asked

CacheOK ==
    TypeOK /\ (\A p \in Sweepers : Active(p)) /\ KeysFit /\ RunsFit /\ ReportsFit

-----------------------------------------------------------------------------
(* A question is the record of its parts, so the key determines it.        *)
LEMMA AskedIsRecord ==
    ASSUME NEW asked \in Asked
    PROVE  asked = [prompt |-> asked.prompt, session |-> asked.session,
                    condition |-> asked.condition, model |-> asked.model,
                    sample |-> asked.sample]
<1>1. PICK swept \in Sweeps : asked \in {Question(swept, n) : n \in 1..Count(swept)}
  BY DEF Asked
<1>2. PICK n \in 1..Count(swept) : asked = Question(swept, n)
  BY <1>1
<1> QED
  BY <1>2 DEF Question

LEMMA KeyIsInjective ==
    ASSUME NEW one \in Asked, NEW other \in Asked, Key(one) = Key(other)
    PROVE  one = other
<1>1. /\ one.prompt = other.prompt /\ one.condition = other.condition
      /\ one.model = other.model /\ one.sample = other.sample
  BY DEF Key
<1>2. one.session = other.session
  BY DEF Key
<1> QED
  BY <1>1, <1>2, AskedIsRecord

LEMMA RecordsAreRecords ==
    ASSUME NEW record \in Records
    PROVE  /\ record.asked \in Asked
           /\ record \notin {Absent, Torn, NoAnswer}
<1>1. PICK asked \in Asked : \E verdict \in Answers[asked.prompt] :
          record = [asked |-> asked, verdict |-> verdict]
  BY DEF Records
<1> QED
  BY <1>1, Markers

LEMMA CurrentIsAsked ==
    ASSUME NEW p \in Sweepers, sweep[p] \in Sweeps, runs[p] \in Seq(Runs), ~ AllDone(p)
    PROVE  /\ Current(p) \in Asked
           /\ Key(Current(p)) \in Keys
           /\ Current(p).prompt = sweep[p].prompt
<1> DEFINE n == Len(runs[p]) + 1
<1>1. n \in 1..Count(sweep[p])
  BY SweepsType DEF AllDone
<1>2. Current(p) = Question(sweep[p], n)
  BY DEF Current
<1>3. Current(p) \in Asked
  BY <1>1, <1>2 DEF Asked
<1>4. Current(p).prompt = sweep[p].prompt
  BY <1>2 DEF Question
<1> QED
  BY <1>3, <1>4 DEF Keys

-----------------------------------------------------------------------------
LEMMA CacheInit == Init => CacheOK
<1> SUFFICES ASSUME Init PROVE CacheOK
  OBVIOUS
<1>1. TypeOK
  BY DEF Init, TypeOK, Asking, Writing
<1>2. \A p \in Sweepers : Active(p)
  BY DEF Init, Active, Asking, Writing
<1> QED
  BY <1>1, <1>2 DEF Init, CacheOK, KeysFit, RunsFit, ReportsFit

LEMMA BeginKeeps ==
    ASSUME CacheOK, NEW p \in Sweepers, Begin(p)
    PROVE  CacheOK'
<1> USE DEF CacheOK, Begin
<1>1. TypeOK'
  BY DEF TypeOK, Asking, Writing
<1>2. ASSUME NEW q \in Sweepers PROVE Active(q)'
  BY DEF TypeOK, Active, Asking, Writing, AllDone, Current
<1> QED
  BY <1>1, <1>2 DEF KeysFit, RunsFit, ReportsFit

(* A run is added to those of p, of the question that was current.         *)
LEMMA JudgedKeeps ==
    ASSUME CacheOK, NEW p \in Sweepers, NEW given \in Records, NEW cached \in BOOLEAN,
           Judged(p, given, cached), Current(p) \in Asked, given.asked = Current(p),
           cache' \in [Keys -> Records \cup {Absent}],
           \A key \in Keys : cache[key] # Absent => cache'[key] # Absent,
           cache'[Key(Current(p))] # Absent
    PROVE  /\ runs' \in [Sweepers -> Seq(Runs)]
           /\ RunsFit'
<1> DEFINE run == [asked |-> Current(p), given |-> given, from_cache |-> cached]
<1>1. run \in Runs
  BY DEF Runs
<1>2. runs \in [Sweepers -> Seq(Runs)]
  BY DEF CacheOK, TypeOK
<1>3. runs' = [runs EXCEPT ![p] = Append(runs[p], run)]
  BY DEF Judged
<1>4. runs' \in [Sweepers -> Seq(Runs)]
  BY <1>1, <1>2, <1>3
<1>5. ASSUME NEW q \in Sweepers, NEW i \in DOMAIN runs'[q]
      PROVE  /\ runs'[q][i].given.asked = runs'[q][i].asked
             /\ cache'[Key(runs'[q][i].asked)] # Absent
  <2>1. CASE q # p \/ i # Len(runs[p]) + 1
    <3>1. i \in DOMAIN runs[q] /\ runs'[q][i] = runs[q][i]
      BY <1>2, <1>3, <1>1, <2>1, <1>5
    <3>2. runs[q][i] \in Runs
      BY <3>1, <1>2
    <3>3. runs[q][i].asked \in Asked
      BY <3>2 DEF Runs
    <3> QED
      BY <3>1, <3>3 DEF CacheOK, RunsFit, Keys
  <2>2. CASE q = p /\ i = Len(runs[p]) + 1
    <3>1. runs'[q][i] = run
      BY <1>2, <1>3, <1>1, <2>2
    <3> QED
      BY <3>1
  <2> QED
    BY <2>1, <2>2
<1> QED
  BY <1>4, <1>5 DEF RunsFit

LEMMA HitKeeps ==
    ASSUME CacheOK, NEW p \in Sweepers, Hit(p)
    PROVE  CacheOK'
<1> DEFINE given == cache[Key(Current(p))]
<1>1. sweep[p] \in Sweeps /\ runs[p] \in Seq(Runs) /\ ~ AllDone(p)
  BY DEF CacheOK, TypeOK, Active, Hit
<1>2. Current(p) \in Asked /\ Key(Current(p)) \in Keys
  BY <1>1, CurrentIsAsked
<1>3. given \in Records /\ given # Absent
  BY <1>2 DEF CacheOK, TypeOK, Hit
<1>4. given.asked = Current(p)
  BY <1>2, <1>3, RecordsAreRecords, KeyIsInjective DEF CacheOK, KeysFit
<1>5. runs' \in [Sweepers -> Seq(Runs)] /\ RunsFit'
  <2>1. Judged(p, given, TRUE) /\ cache' = cache
    BY DEF Hit
  <2>2. cache' \in [Keys -> Records \cup {Absent}]
    BY <2>1 DEF CacheOK, TypeOK
  <2> QED
    BY <1>2, <1>3, <1>4, <2>1, <2>2, JudgedKeeps
<1>6. TypeOK'
  BY <1>5 DEF CacheOK, TypeOK, Hit
<1>7. ASSUME NEW q \in Sweepers PROVE Active(q)'
  <2>1. CASE q = p
    BY <2>1 DEF CacheOK, Active, Hit, Asking, Writing
  <2>2. CASE q # p
    BY <2>2 DEF CacheOK, TypeOK, Active, Hit, Judged, AllDone, Current
  <2> QED
    BY <2>1, <2>2
<1> QED
  BY <1>5, <1>6, <1>7 DEF CacheOK, KeysFit, ReportsFit, Hit

LEMMA MissKeeps ==
    ASSUME CacheOK, NEW p \in Sweepers, Miss(p)
    PROVE  CacheOK'
<1> USE DEF CacheOK, Miss
<1>1. TypeOK'
  BY DEF TypeOK, Asking, Writing
<1>2. ASSUME NEW q \in Sweepers PROVE Active(q)'
  BY DEF TypeOK, Active, Asking, Writing, AllDone, Current
<1> QED
  BY <1>1, <1>2 DEF KeysFit, RunsFit, ReportsFit

LEMMA CompleteKeeps ==
    ASSUME CacheOK, NEW p \in Sweepers, Complete(p)
    PROVE  CacheOK'
<1>1. sweep[p] \in Sweeps /\ runs[p] \in Seq(Runs) /\ ~ AllDone(p)
  BY DEF CacheOK, TypeOK, Active, Complete, Asking
<1>2. Current(p) \in Asked /\ Current(p).prompt = sweep[p].prompt
  BY <1>1, CurrentIsAsked
<1>3. PICK verdict \in Answers[sweep[p].prompt] :
          answer' = [answer EXCEPT ![p] = [asked |-> Current(p), verdict |-> verdict]]
  BY DEF Complete
<1> DEFINE record == [asked |-> Current(p), verdict |-> verdict]
<1>4. record \in Records
  BY <1>2 DEF Records
<1>5. record # NoAnswer
  BY <1>4, RecordsAreRecords
<1>6. TypeOK'
  BY <1>3, <1>4 DEF CacheOK, TypeOK, Complete, Asking, Writing
<1>7. ASSUME NEW q \in Sweepers PROVE Active(q)'
  <2>1. CASE q = p
    <3>1. answer'[p] = record /\ pc'[p] = "open"
      BY <1>3 DEF CacheOK, TypeOK, Complete
    <3>2. Current(p)' = Current(p) /\ (AllDone(p)' <=> AllDone(p))
      BY DEF Complete, Current, AllDone
    <3> QED
      BY <1>1, <1>5, <2>1, <3>1, <3>2 DEF CacheOK, Active, Complete, Asking, Writing
  <2>2. CASE q # p
    BY <1>3, <2>2 DEF CacheOK, TypeOK, Active, Complete, AllDone, Current
  <2> QED
    BY <2>1, <2>2
<1> QED
  BY <1>6, <1>7 DEF CacheOK, KeysFit, RunsFit, ReportsFit, Complete

LEMMA WriteKeeps ==
    ASSUME CacheOK, NEW p \in Sweepers, Open(p) \/ Fill(p)
    PROVE  CacheOK'
<1> USE DEF CacheOK, Open, Fill, TmpName
<1>1. answer[p] \in Records \cup {NoAnswer} /\ (pc[p] = "fill" => answer[p] # NoAnswer)
  BY DEF TypeOK, Active, Writing
<1>2. TypeOK'
  BY <1>1 DEF TypeOK, Asking, Writing
<1>3. ASSUME NEW q \in Sweepers PROVE Active(q)'
  BY DEF TypeOK, Active, Asking, Writing, AllDone, Current
<1> QED
  BY <1>2, <1>3 DEF KeysFit, RunsFit, ReportsFit

(* What is renamed into place is the answer to the current question.       *)
LEMMA Replaced ==
    ASSUME CacheOK, NEW p \in Sweepers, Replace(p)
    PROVE  /\ Current(p) \in Asked /\ Key(Current(p)) \in Keys
           /\ answer[p] \in Records /\ answer[p].asked = Current(p)
           /\ cache' = [cache EXCEPT ![Key(Current(p))] = answer[p]]
<1>1. sweep[p] \in Sweeps /\ runs[p] \in Seq(Runs) /\ ~ AllDone(p)
  BY DEF CacheOK, TypeOK, Active, Replace, Asking, Writing
<1>2. Current(p) \in Asked /\ Key(Current(p)) \in Keys
  BY <1>1, CurrentIsAsked
<1>3. answer[p] \in Records /\ answer[p].asked = Current(p) /\ tmp[p] = answer[p]
  BY DEF CacheOK, TypeOK, Active, Replace, Writing
<1> QED
  BY <1>2, <1>3 DEF Replace, Stored, TmpName

LEMMA ReplaceKeeps ==
    ASSUME CacheOK, NEW p \in Sweepers, Replace(p)
    PROVE  CacheOK'
<1>1. /\ Current(p) \in Asked /\ Key(Current(p)) \in Keys
      /\ answer[p] \in Records /\ answer[p].asked = Current(p)
      /\ cache' = [cache EXCEPT ![Key(Current(p))] = answer[p]]
  BY Replaced
<1>2. answer[p] # Absent
  BY <1>1, RecordsAreRecords
<1>3. /\ cache' \in [Keys -> Records \cup {Absent}]
      /\ \A key \in Keys : cache[key] # Absent => cache'[key] # Absent
      /\ cache'[Key(Current(p))] # Absent
  BY <1>1, <1>2 DEF CacheOK, TypeOK
<1>4. runs' \in [Sweepers -> Seq(Runs)] /\ RunsFit'
  <2>1. Judged(p, answer[p], FALSE)
    BY DEF Replace
  <2> QED
    BY <1>1, <1>3, <2>1, JudgedKeeps
<1>5. TypeOK'
  BY <1>3, <1>4 DEF CacheOK, TypeOK, Replace, TmpName, Asking, Writing
<1>6. KeysFit'
  BY <1>1 DEF CacheOK, TypeOK, KeysFit
<1>7. ASSUME NEW q \in Sweepers PROVE Active(q)'
  <2>1. CASE q = p
    BY <2>1 DEF CacheOK, TypeOK, Active, Replace, Asking, Writing
  <2>2. CASE q # p
    BY <2>2 DEF CacheOK, TypeOK, Active, Replace, TmpName, Judged, AllDone, Current
  <2> QED
    BY <2>1, <2>2
<1> QED
  BY <1>4, <1>5, <1>6, <1>7 DEF CacheOK, ReportsFit, Replace

LEMMA EndsKeeps ==
    ASSUME CacheOK, NEW p \in Sweepers, Ends(p), UNCHANGED <<cache, tmp>>, ReportsFit'
    PROVE  CacheOK'
<1> USE DEF CacheOK, Ends
<1>1. TypeOK'
  BY DEF TypeOK, Asking, Writing
<1>2. ASSUME NEW q \in Sweepers PROVE Active(q)'
  <2>1. CASE q = p
    BY <2>1 DEF TypeOK, Active, Asking, Writing
  <2>2. CASE q # p
    BY <2>2 DEF TypeOK, Active, AllDone, Current
  <2> QED
    BY <2>1, <2>2
<1>3. RunsFit'
  BY DEF TypeOK, RunsFit
<1> QED
  BY <1>1, <1>2, <1>3 DEF KeysFit

LEMMA ReportKeeps ==
    ASSUME CacheOK, NEW p \in Sweepers, Report(p)
    PROVE  ReportsFit'
<1>1. ASSUME NEW run \in Verdicts(p)
      PROVE  run.asked \in Asked /\ run.given \in Records /\ run.given.asked = run.asked
  <2>1. PICK i \in DOMAIN runs[p] :
            run = [asked |-> runs[p][i].asked, given |-> runs[p][i].given]
    BY DEF Verdicts
  <2>2. runs[p][i] \in Runs
    BY DEF CacheOK, TypeOK
  <2> QED
    BY <2>1, <2>2 DEF CacheOK, RunsFit, Runs
<1> QED
  BY <1>1 DEF CacheOK, ReportsFit, Report

LEMMA CacheStep == CacheOK /\ [Next]_vars => CacheOK'
<1> SUFFICES ASSUME CacheOK, [Next]_vars PROVE CacheOK'
  OBVIOUS
<1>1. ASSUME NEW p \in Sweepers, Report(p) PROVE CacheOK'
  BY <1>1, ReportKeeps, EndsKeeps DEF Report
<1>2. ASSUME NEW p \in Sweepers, GivesUp(p) \/ Die(p) PROVE CacheOK'
  <2>1. ReportsFit'
    BY <1>2 DEF CacheOK, ReportsFit, GivesUp, Die
  <2> QED
    BY <1>2, <2>1, EndsKeeps DEF GivesUp, Die
<1>3. CASE UNCHANGED vars
  BY <1>3 DEF CacheOK, TypeOK, Active, KeysFit, RunsFit, ReportsFit, vars, AllDone, Current
<1> QED
  BY <1>1, <1>2, <1>3, BeginKeeps, HitKeeps, MissKeeps, CompleteKeeps, WriteKeeps,
     ReplaceKeeps DEF Next

(* Every answer a sweep reports is the one given to that very question.    *)
THEOREM AnswersAreOwn == Spec => []OwnAnswers
<1>1. CacheOK => OwnAnswers
  BY DEF CacheOK, ReportsFit, OwnAnswers
<1> QED
  BY <1>1, CacheInit, CacheStep, PTL DEF Spec

(* Every record in the cache is whole, and each fresh run has one.         *)
THEOREM CacheStaysWhole == Spec => []CacheIsWhole
<1>1. CacheOK => CacheIsWhole
  BY RecordsAreRecords, Markers DEF CacheOK, TypeOK, RunsFit, CacheIsWhole
<1> QED
  BY <1>1, CacheInit, CacheStep, PTL DEF Spec

-----------------------------------------------------------------------------
AloneOK ==
    raced = "no" =>
        /\ \A p, q \in live : p = q
        /\ \A p \in Sweepers : pc[p] \in Asking => cache[Key(Current(p))] = Absent
        /\ \A p \in Sweepers : \A i \in DOMAIN runs[p] :
               cache[Key(runs[p][i].asked)] = runs[p][i].given
        /\ \A report \in reports : \A run \in report : cache[Key(run.asked)] = run.given

LEMMA AloneInit == Init => AloneOK
  BY DEF Init, AloneOK, Asking, Writing

(* Only a live sweep writes, and when there is but one, it writes where    *)
(* nothing was.                                                            *)
LEMMA AloneReplace ==
    ASSUME CacheOK, AloneOK, NEW p \in Sweepers, Replace(p)
    PROVE  AloneOK'
<1> SUFFICES ASSUME raced = "no" PROVE AloneOK'
  BY DEF AloneOK, Replace
<1> DEFINE key == Key(Current(p))
           run == [asked |-> Current(p), given |-> answer[p], from_cache |-> FALSE]
<1>1. /\ Current(p) \in Asked /\ key \in Keys
      /\ answer[p] \in Records /\ answer[p].asked = Current(p)
      /\ cache' = [cache EXCEPT ![key] = answer[p]]
  BY Replaced
<1>2. cache[key] = Absent /\ p \in live
  BY DEF AloneOK, CacheOK, Active, Replace, Asking, Writing
<1>3. cache \in [Keys -> Records \cup {Absent}] /\ runs \in [Sweepers -> Seq(Runs)]
  BY DEF CacheOK, TypeOK
<1>4. ASSUME NEW other, cache[other] # Absent, other \in Keys
      PROVE  cache'[other] = cache[other]
  BY <1>1, <1>2, <1>3, <1>4
<1>5. \A q \in Sweepers : pc'[q] \in Asking => cache'[Key(Current(q))'] = Absent
  <2> SUFFICES ASSUME NEW q \in Sweepers, pc'[q] \in Asking PROVE FALSE
    OBVIOUS
  <2>1. q # p
    BY DEF CacheOK, TypeOK, Replace, Asking, Writing
  <2>2. pc[q] \in Asking
    BY <2>1 DEF CacheOK, TypeOK, Replace
  <2>3. q \in live
    BY <2>2 DEF CacheOK, Active
  <2> QED
    BY <1>2, <2>1, <2>3 DEF AloneOK
<1>6. \A q \in Sweepers : \A i \in DOMAIN runs'[q] :
          cache'[Key(runs'[q][i].asked)] = runs'[q][i].given
  <2> SUFFICES ASSUME NEW q \in Sweepers, NEW i \in DOMAIN runs'[q]
               PROVE  cache'[Key(runs'[q][i].asked)] = runs'[q][i].given
    OBVIOUS
  <2>1. runs' = [runs EXCEPT ![p] = Append(runs[p], run)]
    BY DEF Replace, Judged
  <2>2. CASE q # p \/ i # Len(runs[p]) + 1
    <3>1. i \in DOMAIN runs[q] /\ runs'[q][i] = runs[q][i]
      BY <1>3, <2>1, <2>2
    <3>2. runs[q][i] \in Runs
      BY <3>1, <1>3
    <3>3. runs[q][i].asked \in Asked /\ runs[q][i].given \in Records
      BY <3>2 DEF Runs
    <3>4. Key(runs[q][i].asked) \in Keys /\ cache[Key(runs[q][i].asked)] # Absent
      BY <3>1, <3>3 DEF CacheOK, RunsFit, Keys
    <3>5. cache[Key(runs[q][i].asked)] = runs[q][i].given
      BY <3>1 DEF AloneOK
    <3> QED
      BY <1>4, <3>1, <3>4, <3>5
  <2>3. CASE q = p /\ i = Len(runs[p]) + 1
    <3>1. runs'[q][i] = run
      BY <1>3, <2>1, <2>3
    <3> QED
      BY <1>1, <1>3, <3>1
  <2> QED
    BY <2>2, <2>3
<1>7. \A report \in reports : \A seen \in report : cache'[Key(seen.asked)] = seen.given
  <2> SUFFICES ASSUME NEW report \in reports, NEW seen \in report
               PROVE  cache'[Key(seen.asked)] = seen.given
    OBVIOUS
  <2>1. seen.asked \in Asked /\ seen.given \in Records
    BY DEF CacheOK, ReportsFit
  <2>2. cache[Key(seen.asked)] = seen.given
    BY DEF AloneOK
  <2>3. seen.given # Absent
    BY <2>1, RecordsAreRecords
  <2> QED
    BY <1>4, <2>1, <2>2, <2>3 DEF Keys
<1>8. live' = live /\ reports' = reports
  BY DEF Replace
<1> QED
  BY <1>5, <1>6, <1>7, <1>8 DEF AloneOK

LEMMA AloneHit ==
    ASSUME CacheOK, AloneOK, NEW p \in Sweepers, Hit(p)
    PROVE  AloneOK'
<1> SUFFICES ASSUME raced = "no" PROVE AloneOK'
  BY DEF AloneOK, Hit
<1> DEFINE run == [asked |-> Current(p), given |-> cache[Key(Current(p))], from_cache |-> TRUE]
<1>1. runs \in [Sweepers -> Seq(Runs)]
  BY DEF CacheOK, TypeOK
<1>2. runs' = [runs EXCEPT ![p] = Append(runs[p], run)]
  BY DEF Hit, Judged
<1>3. ASSUME NEW q \in Sweepers, NEW i \in DOMAIN runs'[q]
      PROVE  cache[Key(runs'[q][i].asked)] = runs'[q][i].given
  <2>1. CASE q # p \/ i # Len(runs[p]) + 1
    <3>1. i \in DOMAIN runs[q] /\ runs'[q][i] = runs[q][i]
      BY <1>1, <1>2, <2>1, <1>3
    <3> QED
      BY <3>1 DEF AloneOK
  <2>2. CASE q = p /\ i = Len(runs[p]) + 1
    <3>1. runs'[q][i] = run
      BY <1>1, <1>2, <2>2
    <3> QED
      BY <3>1
  <2> QED
    BY <2>1, <2>2
<1>4. \A q \in Sweepers : pc'[q] \in Asking => cache[Key(Current(q))'] = Absent
  <2> SUFFICES ASSUME NEW q \in Sweepers, pc'[q] \in Asking
               PROVE  cache[Key(Current(q))'] = Absent
    OBVIOUS
  <2>1. q # p /\ pc[q] \in Asking
    BY DEF Hit, Asking, Writing
  <2>2. Current(q)' = Current(q)
    BY <1>1, <1>2, <2>1 DEF Hit, Current
  <2>3. Key(Current(q))' = Key(Current(q))
    BY <2>2 DEF Key
  <2> QED
    BY <2>1, <2>3 DEF AloneOK
<1> QED
  BY <1>3, <1>4 DEF AloneOK, Hit

LEMMA AloneBegin ==
    ASSUME CacheOK, AloneOK, NEW p \in Sweepers, Begin(p)
    PROVE  AloneOK'
<1> SUFFICES ASSUME raced' = "no" PROVE AloneOK'
  BY DEF AloneOK
<1>1. raced = "no" /\ \A q, r \in live' : q = r
  BY DEF AloneOK, Begin
<1>2. \A q \in Sweepers : pc'[q] \in Asking => cache[Key(Current(q))'] = Absent
  <2> SUFFICES ASSUME NEW q \in Sweepers, pc'[q] \in Asking
               PROVE  cache[Key(Current(q))'] = Absent
    OBVIOUS
  <2>1. q # p /\ pc[q] \in Asking
    BY DEF CacheOK, TypeOK, Begin, Asking, Writing
  <2>2. Current(q)' = Current(q)
    BY <2>1 DEF CacheOK, TypeOK, Begin, Current
  <2>3. Key(Current(q))' = Key(Current(q))
    BY <2>2 DEF Key
  <2> QED
    BY <1>1, <2>1, <2>3 DEF AloneOK
<1> QED
  BY <1>1, <1>2 DEF AloneOK, Begin

LEMMA AloneAsk ==
    ASSUME CacheOK, AloneOK, NEW p \in Sweepers,
           Miss(p) \/ Complete(p) \/ Open(p) \/ Fill(p)
    PROVE  AloneOK'
<1>1. UNCHANGED <<cache, sweep, live, runs, reports, raced>>
  BY DEF Miss, Complete, Open, Fill
<1>2. ASSUME NEW q \in Sweepers PROVE Key(Current(q))' = Key(Current(q))
  BY <1>1 DEF Key, Current
<1>3. ASSUME NEW q \in Sweepers, pc'[q] \in Asking
      PROVE  pc[q] \in Asking \/ cache[Key(Current(q))] = Absent
  BY <1>3 DEF CacheOK, TypeOK, Miss, Complete, Open, Fill, Asking, Writing
<1> QED
  BY <1>1, <1>2, <1>3 DEF AloneOK

LEMMA AloneEnds ==
    ASSUME CacheOK, AloneOK, NEW p \in Sweepers, Ends(p), UNCHANGED <<cache, raced>>,
           raced = "no" =>
               \A report \in reports' : \A run \in report : cache[Key(run.asked)] = run.given
    PROVE  AloneOK'
<1> SUFFICES ASSUME raced = "no" PROVE AloneOK'
  BY DEF AloneOK
<1>1. ASSUME NEW q \in Sweepers, NEW i \in DOMAIN runs'[q]
      PROVE  cache[Key(runs'[q][i].asked)] = runs'[q][i].given
  BY <1>1 DEF CacheOK, TypeOK, AloneOK, Ends
<1>2. \A q \in Sweepers : pc'[q] \in Asking => cache[Key(Current(q))'] = Absent
  <2> SUFFICES ASSUME NEW q \in Sweepers, pc'[q] \in Asking
               PROVE  cache[Key(Current(q))'] = Absent
    OBVIOUS
  <2>1. q # p /\ pc[q] \in Asking
    BY DEF CacheOK, TypeOK, Ends, Asking, Writing
  <2>2. Current(q)' = Current(q)
    BY <2>1 DEF CacheOK, TypeOK, Ends, Current
  <2>3. Key(Current(q))' = Key(Current(q))
    BY <2>2 DEF Key
  <2> QED
    BY <2>1, <2>3 DEF AloneOK
<1> QED
  BY <1>1, <1>2 DEF AloneOK, Ends

LEMMA AloneStep == CacheOK /\ AloneOK /\ [Next]_vars => AloneOK'
<1> SUFFICES ASSUME CacheOK, AloneOK, [Next]_vars PROVE AloneOK'
  OBVIOUS
<1>1. ASSUME NEW p \in Sweepers, Report(p) PROVE AloneOK'
  <2>1. ASSUME raced = "no", NEW run \in Verdicts(p)
        PROVE  cache[Key(run.asked)] = run.given
    BY <2>1 DEF Verdicts, AloneOK
  <2> QED
    BY <1>1, <2>1, AloneEnds DEF Report, AloneOK
<1>2. ASSUME NEW p \in Sweepers, GivesUp(p) \/ Die(p) PROVE AloneOK'
  BY <1>2, AloneEnds DEF GivesUp, Die, AloneOK
<1>3. CASE UNCHANGED vars
  BY <1>3 DEF AloneOK, vars, Key, Current
<1> QED
  BY <1>1, <1>2, <1>3, AloneBegin, AloneHit, AloneAsk, AloneReplace DEF Next

(* As long as no two live sweeps have run at once, the sweeps that end     *)
(* agree on every answer, whatever was interrupted before and between.     *)
THEOREM SweepsDoAgree == Spec => []SweepsAgree
<1>1. CacheOK /\ AloneOK => SweepsAgree
  BY DEF AloneOK, SweepsAgree
<1> QED
  BY <1>1, CacheInit, CacheStep, AloneInit, AloneStep, PTL DEF Spec

-----------------------------------------------------------------------------
(* The books: before two live sweeps have met, what was paid for under a   *)
(* key is stored, lost or held, and at most one sweep holds an answer.     *)
BooksOK ==
    /\ paid \in [Keys -> Nat] /\ lost \in [Keys -> Nat]
    /\ PaidOnce

LEMMA BooksInit == Init => BooksOK
<1> SUFFICES ASSUME Init PROVE BooksOK
  OBVIOUS
<1>1. \A key \in Keys : Held(key) = {}
  BY DEF Init, Held
<1> QED
  BY <1>1, FS_EmptySet DEF Init, BooksOK, PaidOnce

LEMMA HeldByOne ==
    ASSUME CacheOK, AloneOK, raced = "no", NEW p \in live, NEW key
    PROVE  Held(key) = IF answer[p] # NoAnswer /\ Key(answer[p].asked) = key THEN {p} ELSE {}
<1>1. ASSUME NEW q \in Held(key) PROVE q = p
  <2>1. q \in Sweepers /\ answer[q] # NoAnswer
    BY <1>1 DEF Held
  <2>2. q \in live
    BY <2>1 DEF CacheOK, Active, Asking
  <2> QED
    BY <2>2 DEF AloneOK
<1>2. p \in Sweepers
  BY DEF CacheOK, TypeOK
<1> QED
  BY <1>1, <1>2 DEF Held

LEMMA BooksComplete ==
    ASSUME CacheOK, AloneOK, BooksOK, NEW p \in Sweepers, Complete(p)
    PROVE  BooksOK'
<1> DEFINE now == Key(Current(p))
<1>1. sweep[p] \in Sweeps /\ runs[p] \in Seq(Runs) /\ ~ AllDone(p) /\ p \in live
      /\ answer[p] = NoAnswer
  BY DEF CacheOK, TypeOK, Active, Complete, Asking, Writing
<1>2. now \in Keys /\ Current(p) \in Asked /\ Current(p).prompt = sweep[p].prompt
  BY <1>1, CurrentIsAsked
<1>3. paid' = [paid EXCEPT ![now] = paid[now] + 1] /\ lost' = lost /\ cache' = cache
      /\ raced' = raced
  BY DEF Complete
<1>4. paid' \in [Keys -> Nat] /\ lost' \in [Keys -> Nat]
  BY <1>2, <1>3 DEF BooksOK
<1>5. ASSUME raced = "no", NEW key \in Keys
      PROVE  paid'[key] = (IF cache'[key] = Absent THEN 0 ELSE 1) + lost'[key]
                          + Cardinality(Held(key)')
  <2>1. CacheOK' /\ AloneOK'
    BY CompleteKeeps, AloneAsk
  <2>2. Held(key) = {}
    BY <1>1, <1>5, HeldByOne
  <2>3. PICK verdict \in Answers[sweep[p].prompt] :
            answer' = [answer EXCEPT ![p] = [asked |-> Current(p), verdict |-> verdict]]
    BY DEF Complete
  <2>4. answer'[p].asked = Current(p) /\ answer'[p] # NoAnswer
    BY <1>2, <2>3, Markers DEF CacheOK, TypeOK
  <2>5. Held(key)' = IF key = now THEN {p} ELSE {}
    <3>1. \A q \in Sweepers : q # p => answer'[q] = answer[q]
      BY <2>3 DEF CacheOK, TypeOK
    <3> QED
      BY <2>2, <2>4, <3>1 DEF Held
  <2>6. paid[key] = (IF cache[key] = Absent THEN 0 ELSE 1) + lost[key] + 0
    BY <1>5, <2>2, FS_EmptySet DEF BooksOK, PaidOnce
  <2>7. Cardinality(Held(key)') = IF key = now THEN 1 ELSE 0
    BY <2>5, FS_EmptySet, FS_Singleton
  <2> QED
    BY <1>2, <1>3, <2>6, <2>7 DEF BooksOK
<1> QED
  BY <1>3, <1>4, <1>5 DEF BooksOK, PaidOnce

LEMMA BooksReplace ==
    ASSUME CacheOK, AloneOK, BooksOK, NEW p \in Sweepers, Replace(p)
    PROVE  BooksOK'
<1> DEFINE now == Key(Current(p))
<1>1. /\ Current(p) \in Asked /\ now \in Keys
      /\ answer[p] \in Records /\ answer[p].asked = Current(p)
      /\ cache' = [cache EXCEPT ![now] = answer[p]]
  BY Replaced
<1>2. answer[p] # Absent /\ answer[p] # NoAnswer
  BY <1>1, RecordsAreRecords
<1>3. p \in live /\ pc[p] \in Asking
  BY DEF CacheOK, Active, Replace, Asking, Writing
<1>4. paid' = paid /\ lost' = lost /\ raced' = raced /\ answer' = [answer EXCEPT ![p] = NoAnswer]
  BY DEF Replace
<1>5. ASSUME raced = "no", NEW key \in Keys
      PROVE  paid[key] = (IF cache'[key] = Absent THEN 0 ELSE 1) + lost[key]
                         + Cardinality(Held(key)')
  <2>1. cache[now] = Absent
    BY <1>3, <1>5 DEF AloneOK
  <2>2. Held(key) = IF key = now THEN {p} ELSE {}
    BY <1>1, <1>2, <1>3, <1>5, HeldByOne
  <2>3. Held(key)' = {}
    BY <1>4, <2>2 DEF Held, CacheOK, TypeOK
  <2>4. Cardinality(Held(key)) = (IF key = now THEN 1 ELSE 0) /\ Cardinality(Held(key)') = 0
    BY <2>2, <2>3, FS_EmptySet, FS_Singleton
  <2>5. paid[key] = (IF cache[key] = Absent THEN 0 ELSE 1) + lost[key] + Cardinality(Held(key))
    BY <1>5 DEF BooksOK, PaidOnce
  <2>6. cache'[key] = IF key = now THEN answer[p] ELSE cache[key]
    BY <1>1 DEF CacheOK, TypeOK
  <2> QED
    BY <1>2, <2>1, <2>4, <2>5, <2>6 DEF BooksOK
<1> QED
  BY <1>4, <1>5 DEF BooksOK, PaidOnce

LEMMA BooksDie ==
    ASSUME CacheOK, AloneOK, BooksOK, NEW p \in Sweepers, Die(p)
    PROVE  BooksOK'
<1>1. UNCHANGED <<cache, paid, raced>> /\ answer' = [answer EXCEPT ![p] = NoAnswer]
  BY DEF Die, Ends
<1>2. CASE answer[p] = NoAnswer
  <2>1. lost' = lost /\ answer' = answer
    BY <1>1, <1>2 DEF Die, CacheOK, TypeOK
  <2> QED
    BY <1>1, <2>1 DEF BooksOK, PaidOnce, Held
<1>3. CASE answer[p] # NoAnswer
  <2> DEFINE now == Key(answer[p].asked)
  <2>1. answer[p] \in Records
    BY <1>3 DEF CacheOK, TypeOK
  <2>2. now \in Keys
    BY <2>1, RecordsAreRecords DEF Keys
  <2>3. lost' = [lost EXCEPT ![now] = lost[now] + 1]
    BY <1>3 DEF Die
  <2>4. lost' \in [Keys -> Nat] /\ paid' \in [Keys -> Nat]
    BY <1>1, <2>2, <2>3 DEF BooksOK
  <2>5. p \in live
    BY <1>3 DEF CacheOK, Active, Asking
  <2>6. ASSUME raced = "no", NEW key \in Keys
        PROVE  paid[key] = (IF cache[key] = Absent THEN 0 ELSE 1) + lost'[key]
                           + Cardinality(Held(key)')
    <3>1. Held(key) = IF key = now THEN {p} ELSE {}
      BY <1>3, <2>5, <2>6, HeldByOne
    <3>2. Held(key)' = {}
      BY <1>1, <3>1 DEF Held, CacheOK, TypeOK
    <3>3. Cardinality(Held(key)) = (IF key = now THEN 1 ELSE 0) /\ Cardinality(Held(key)') = 0
      BY <3>1, <3>2, FS_EmptySet, FS_Singleton
    <3>4. paid[key] = (IF cache[key] = Absent THEN 0 ELSE 1) + lost[key] + Cardinality(Held(key))
      BY <2>6 DEF BooksOK, PaidOnce
    <3> QED
      BY <2>2, <2>3, <3>3, <3>4 DEF BooksOK
  <2> QED
    BY <1>1, <2>4, <2>6 DEF BooksOK, PaidOnce
<1> QED
  BY <1>2, <1>3

LEMMA BooksStep == CacheOK /\ AloneOK /\ BooksOK /\ [Next]_vars => BooksOK'
<1> SUFFICES ASSUME CacheOK, AloneOK, BooksOK, [Next]_vars PROVE BooksOK'
  OBVIOUS
<1>1. ASSUME NEW p \in Sweepers,
             Begin(p) \/ Hit(p) \/ Miss(p) \/ Open(p) \/ Fill(p)
      PROVE  BooksOK'
  <2>1. UNCHANGED <<cache, answer, paid, lost>>
    BY <1>1 DEF Begin, Hit, Miss, Open, Fill
  <2>2. raced' = "no" => raced = "no"
    BY <1>1 DEF Begin, Hit, Miss, Open, Fill
  <2> QED
    BY <2>1, <2>2 DEF BooksOK, PaidOnce, Held
<1>2. ASSUME NEW p \in Sweepers, Report(p) \/ GivesUp(p) PROVE BooksOK'
  <2>1. UNCHANGED <<cache, answer, paid, lost, raced>>
    BY <1>2 DEF Report, GivesUp, Ends, CacheOK, TypeOK, Active, Writing
  <2> QED
    BY <2>1 DEF BooksOK, PaidOnce, Held
<1>3. CASE UNCHANGED vars
  BY <1>3 DEF BooksOK, PaidOnce, Held, vars
<1> QED
  BY <1>1, <1>2, <1>3, BooksComplete, BooksReplace, BooksDie DEF Next

(* As long as no two live sweeps have run at once, no answer is paid for a *)
(* second time unless the first one was lost with the process that had it. *)
THEOREM NothingPaidTwice == Spec => []PaidOnce
<1>1. BooksOK => PaidOnce
  BY DEF BooksOK
<1> QED
  BY <1>1, CacheInit, CacheStep, AloneInit, AloneStep, BooksInit, BooksStep, PTL DEF Spec

-----------------------------------------------------------------------------
(* A set of numbers has a least one.                                       *)
LEMMA LeastOf ==
    ASSUME NEW T \in SUBSET Nat, T # {}
    PROVE  \E x \in T : \A y \in T : x <= y
<1> DEFINE Below == {pair \in Nat \X Nat : pair[1] < pair[2]}
<1>1. IsWellFoundedOn(Below, Nat)
  BY NatLessThanWellFounded DEF OpToRel
<1>2. \A x, y \in T : y < x => <<y, x>> \in Below
  OBVIOUS
<1> HIDE DEF Below
<1>3. PICK x \in T : \A y \in T : <<y, x>> \notin Below
  BY <1>1, WFMin
<1>4. ASSUME NEW y \in T PROVE x <= y
  <2>1. ~ (y < x)
    BY <1>2, <1>3
  <2>2. x \in Nat /\ y \in Nat
    OBVIOUS
  <2> QED
    BY <2>1, <2>2
<1> QED
  BY <1>4

LEMMA UpTo ==
    ASSUME NEW n \in Nat
    PROVE  IsFiniteSet(1 .. n) /\ Cardinality(1 .. n) = n
  BY FS_Interval

(* A bounded set of numbers has a greatest one, which Max chooses.         *)
LEMMA GreatestOf ==
    ASSUME NEW T \in SUBSET Nat, T # {}, NEW b \in Nat, \A y \in T : y <= b
    PROVE  S!Max(T) \in T /\ \A y \in T : y <= S!Max(T)
<1> DEFINE Bounds == {x \in Nat : \A y \in T : y <= x}
<1>1. PICK x \in Bounds : \A y \in Bounds : x <= y
  <2>1. b \in Bounds
    OBVIOUS
  <2>2. Bounds \subseteq Nat
    OBVIOUS
  <2> HIDE DEF Bounds
  <2> QED
    BY <2>1, <2>2, LeastOf
<1>2. x \in T
  <2>1. PICK y \in T : TRUE
    OBVIOUS
  <2>2. CASE x = 0
    BY <2>1, <2>2
  <2>3. CASE x # 0
    <3>1. x - 1 \in Nat /\ x - 1 \notin Bounds
      BY <1>1, <2>3
    <3> QED
      BY <3>1
  <2> QED
    BY <2>2, <2>3
<1>3. \E t \in T : \A y \in T : t >= y
  BY <1>1, <1>2
<1> QED
  BY <1>3 DEF S!Max

-----------------------------------------------------------------------------
(* Equal keys stand for the same claims.                                   *)
LEMMA TimesDetermines ==
    ASSUME NEW one, NEW other, Times(one) = Times(other)
    PROVE  F!Range(one) = F!Range(other)
<1>1. DOMAIN Times(one) = F!Range(one) /\ DOMAIN Times(other) = F!Range(other)
  BY DEF Times
<1> QED
  BY <1>1

Shapes(violations) ==
    [i \in DOMAIN violations |->
        [label |-> violations[i].label, events |-> Times(violations[i].events)]]

LEMMA SetKeyDetermines ==
    ASSUME NEW one, NEW other, VerdictSetKey(one) = VerdictSetKey(other),
           NEW i \in DOMAIN one
    PROVE  \E j \in DOMAIN other : Item(other[j]) = Item(one[i])
<1>1. Times(Shapes(one)) = Times(Shapes(other))
  BY DEF VerdictSetKey, Shapes
<1>2. F!Range(Shapes(one)) = F!Range(Shapes(other))
  BY <1>1, TimesDetermines
<1>3. Shapes(one)[i] \in F!Range(Shapes(one))
  BY DEF F!Range, Shapes
<1>4. PICK j \in DOMAIN other : Shapes(other)[j] = Shapes(one)[i]
  BY <1>2, <1>3 DEF F!Range, Shapes
<1>5. /\ other[j].label = one[i].label
      /\ Times(other[j].events) = Times(one[i].events)
  BY <1>4 DEF Shapes
<1> QED
  BY <1>5, TimesDetermines DEF Item

(* A run of a report, as far as the scores read it.                        *)
Judgement(run) ==
    /\ run.asked \in Asked
    /\ run.given.verdict \in Answers[run.asked.prompt]

LEMMA RunKeyDetermines ==
    ASSUME NEW one, NEW other, Judgement(one), Judgement(other), RunKey(one) = RunKey(other)
    PROVE  Items(one) \subseteq Items(other)
<1>1. CASE one.given.verdict = Failure
  BY <1>1 DEF Items, Claims, Violations, F!Range
<1>2. CASE one.given.verdict # Failure
  <2>1. RunKey(one) = VerdictSetKey(Violations(one)) /\ RunKey(one) # Failure
    <3>1. Violations([asked |-> one.asked, given |-> [verdict |-> one.given.verdict]])
              = Violations(one)
      BY DEF Violations
    <3> QED
      BY <1>2, <3>1, KeysAreNoFailure DEF RunKey, Judgement
  <2>2. VerdictSetKey(Violations(one)) = VerdictSetKey(Violations(other))
    BY <2>1 DEF RunKey
  <2>3. ASSUME NEW i \in DOMAIN Violations(one)
        PROVE  Item(Violations(one)[i]) \in Items(other)
    <3>1. PICK j \in DOMAIN Violations(other) :
              Item(Violations(other)[j]) = Item(Violations(one)[i])
      BY <2>2, SetKeyDetermines
    <3> QED
      BY <3>1 DEF Items, Claims, F!Range
  <2> QED
    BY <2>3 DEF Items, Claims, F!Range
<1> QED
  BY <1>1, <1>2

LEMMA MajoritiesMeet ==
    ASSUME NEW group, IsFiniteSet(group), NEW k \in Nat, 2 * k > Cardinality(group),
           NEW one \in Majority(group, k), NEW other \in Majority(group, k)
    PROVE  \E run \in group : {one, other} \subseteq Items(run)
<1> DEFINE Say(item) == {run \in group : item \in Items(run)}
<1>1. Cardinality(Say(one)) >= k /\ Cardinality(Say(other)) >= k
  BY DEF Majority
<1>2. Say(one) \subseteq group /\ Say(other) \subseteq group
  OBVIOUS
<1>3. /\ Cardinality(Say(one)) \in Nat /\ Cardinality(Say(other)) \in Nat
      /\ Cardinality(group) \in Nat
  BY <1>2, FS_Subset, FS_CardinalityType
<1>4. Cardinality(Say(one)) + Cardinality(Say(other)) > Cardinality(group)
  BY <1>1, <1>3
<1>5. Say(one) \cap Say(other) # {}
  <2> HIDE DEF Say
  <2> QED
    BY <1>2, <1>4, FS_MajoritiesIntersect
<1> QED
  BY <1>5

LEMMA GroupAgrees ==
    ASSUME NEW group, IsFiniteSet(group), \A run \in group : Judgement(run), NEW k \in Nat
    PROVE  Agree(group, k)
<1>1. ASSUME NEW run \in group, Support(group, RunKey(run)) >= k, NEW item \in Items(run)
      PROVE  item \in Majority(group, k)
  <2> DEFINE Like == {other \in group : RunKey(other) = RunKey(run)}
             Say  == {other \in group : item \in Items(other)}
  <2>1. Like \subseteq Say
    BY <1>1, RunKeyDetermines
  <2>2. IsFiniteSet(Say)
    <3>1. Say \subseteq group
      OBVIOUS
    <3> HIDE DEF Say
    <3> QED
      BY <3>1, FS_Subset
  <2>3. /\ Cardinality(Like) <= Cardinality(Say)
        /\ Cardinality(Like) \in Nat /\ Cardinality(Say) \in Nat
    <3> HIDE DEF Like, Say
    <3> QED
      BY <2>1, <2>2, FS_Subset, FS_CardinalityType
  <2>4. Cardinality(Like) >= k
    BY <1>1 DEF Support
  <2>5. Cardinality(Say) >= k
    <3> HIDE DEF Like, Say
    <3> QED
      BY <2>3, <2>4
  <2> QED
    BY <1>1, <2>5 DEF Majority
<1>2. ASSUME 2 * k > Cardinality(group), NEW one \in Majority(group, k),
             NEW other \in Majority(group, k)
      PROVE  \E run \in group : {one, other} \subseteq Items(run)
  BY <1>2, MajoritiesMeet
<1> QED
  BY <1>1, <1>2 DEF Agree

-----------------------------------------------------------------------------
(* What confusion makes of a matching when it has gone through the labels: *)
(* a list of claims, 0 for a label that took none.                         *)
Fits(list, n, claims, matching) ==
    IF list[n] = 0
    THEN \A i \in claims : <<i, n>> \in matching => \E m \in 1 .. n - 1 : list[m] = i
    ELSE /\ list[n] \in claims
         /\ <<list[n], n>> \in matching
         /\ \A m \in 1 .. n - 1 : list[m] # list[n]

FirstFit(list, claims, matching) ==
    /\ list \in Seq(Nat)
    /\ \A n \in 1 .. Len(list) : Fits(list, n, claims, matching)

Pick(violations, matching, before, n) ==
    LET candidates == {i \in Remaining(violations, before) : <<i, n>> \in matching}
    IN  IF candidates = {} THEN 0 ELSE S!Min(candidates)

LEMMA PickFits ==
    ASSUME NEW violations, NEW c \in Nat, DOMAIN violations = 1 .. c, NEW matching,
           NEW list, FirstFit(list, 1 .. c, matching)
    PROVE  LET x == Pick(violations, matching, list, Len(list) + 1)
           IN  FirstFit(Append(list, x), 1 .. c, matching)
<1> DEFINE n == Len(list) + 1
           candidates == {i \in Remaining(violations, list) : <<i, n>> \in matching}
           x == Pick(violations, matching, list, n)
           longer == Append(list, x)
<1>1. /\ list \in Seq(Nat) /\ Len(list) \in Nat /\ DOMAIN list = 1 .. Len(list)
      /\ candidates \subseteq 1 .. c
  BY DEF FirstFit, Remaining
<1>2. x = IF candidates = {} THEN 0 ELSE S!Min(candidates)
  BY DEF Pick
<1>3. candidates # {} => x \in candidates
  <2> SUFFICES ASSUME candidates # {} PROVE x \in candidates
    OBVIOUS
  <2>1. candidates \in SUBSET Nat
    BY <1>1
  <2> HIDE DEF candidates
  <2>2. \E y \in candidates : \A z \in candidates : y <= z
    BY <2>1, LeastOf
  <2> QED
    BY <1>2, <2>2 DEF S!Min
<1>4. x \in Nat
  BY <1>1, <1>2, <1>3
<1> HIDE DEF x
<1>5. /\ longer \in Seq(Nat) /\ Len(longer) = n /\ longer[n] = x
      /\ \A m \in 1 .. Len(list) : longer[m] = list[m]
  BY <1>1, <1>4
<1> HIDE DEF longer
<1>6. ASSUME candidates = {} PROVE Fits(longer, n, 1 .. c, matching)
  <2>1. x = 0
    BY <1>2, <1>6
  <2>2. ASSUME NEW i \in 1 .. c, <<i, n>> \in matching
        PROVE  \E m \in 1 .. n - 1 : longer[m] = i
    <3>1. i \in F!Range(list)
      BY <1>6, <2>2 DEF Remaining
    <3> QED
      BY <1>1, <1>5, <3>1 DEF F!Range
  <2> QED
    BY <1>5, <2>1, <2>2 DEF Fits
<1>7. ASSUME candidates # {} PROVE Fits(longer, n, 1 .. c, matching)
  <2>1. x \in 1 .. c /\ <<x, n>> \in matching /\ x \notin F!Range(list)
    BY <1>3, <1>7 DEF Remaining
  <2>2. ASSUME NEW m \in 1 .. n - 1 PROVE longer[m] # x
    <3>1. m \in 1 .. Len(list) /\ list[m] \in F!Range(list)
      BY <1>1 DEF F!Range
    <3> QED
      BY <1>5, <2>1, <3>1
  <2>3. x # 0
    BY <2>1
  <2> QED
    BY <1>5, <2>1, <2>2, <2>3 DEF Fits
<1>8. ASSUME NEW m \in 1 .. n PROVE Fits(longer, m, 1 .. c, matching)
  <2>1. CASE m = n
    BY <1>6, <1>7, <2>1
  <2>2. CASE m # n
    <3>1. m \in 1 .. Len(list) /\ \A j \in 1 .. m : longer[j] = list[j]
      BY <1>1, <1>5, <2>2
    <3>2. Fits(list, m, 1 .. c, matching)
      BY <3>1 DEF FirstFit
    <3>3. longer[m] = list[m] /\ \A j \in 1 .. m - 1 : longer[j] = list[j]
      BY <1>1, <3>1
    <3> QED
      BY <3>2, <3>3 DEF Fits
  <2> QED
    BY <2>1, <2>2
<1> QED
  BY <1>5, <1>8 DEF FirstFit, x, longer

(* The recursion that defines Taken has a solution, ...                    *)
Takes(violations, matching, f, n) ==
    f = [k \in 0 .. n |-> IF k = 0 THEN << >>
                          ELSE Append(f[k - 1], Pick(violations, matching, f[k - 1], k))]

LEMMA TakesSomething ==
    ASSUME NEW violations, NEW matching, NEW n \in Nat
    PROVE  \E f : Takes(violations, matching, f, n)
<1> DEFINE Fails == {k \in Nat : ~ \E f : Takes(violations, matching, f, k)}
<1> SUFFICES ASSUME Fails # {} PROVE FALSE
  OBVIOUS
<1>1. PICK k \in Fails : \A j \in Fails : k <= j
  <2>1. Fails \in SUBSET Nat
    OBVIOUS
  <2> HIDE DEF Fails
  <2> QED
    BY <2>1, LeastOf
<1>2. CASE k = 0
  <2> DEFINE f == [j \in 0 .. 0 |-> << >>]
  <2>1. Takes(violations, matching, f, 0)
    BY DEF Takes
  <2> QED
    BY <1>2, <2>1
<1>3. CASE k # 0
  <2>1. k - 1 \in Nat /\ k - 1 \notin Fails
    BY <1>1, <1>3
  <2>2. PICK f : Takes(violations, matching, f, k - 1)
    BY <2>1
  <2> DEFINE Body(g, j) == IF j = 0 THEN << >>
                           ELSE Append(g[j - 1], Pick(violations, matching, g[j - 1], j))
             last == Body(f, k)
             g == [j \in 0 .. k |-> IF j = k THEN last ELSE f[j]]
  <2>3. f = [j \in 0 .. k - 1 |-> Body(f, j)]
    BY <2>2 DEF Takes
  <2>4. ASSUME NEW j \in 0 .. k PROVE g[j] = Body(g, j)
    <3>1. CASE j = k
      <4>1. g[k - 1] = f[k - 1] /\ g[k] = last
        BY <1>3, <2>1
      <4> QED
        BY <1>3, <3>1, <4>1
    <3>2. CASE j # k
      <4>1. g[j] = f[j] /\ (j # 0 => g[j - 1] = f[j - 1])
        BY <2>1, <3>2
      <4>2. j \in 0 .. k - 1
        BY <2>1, <3>2
      <4>3. f[j] = Body(f, j)
        <5> HIDE DEF Body
        <5> QED
          BY <2>3, <4>2
      <4> QED
        BY <4>1, <4>3
    <3> QED
      BY <3>1, <3>2
  <2>5. g = [j \in 0 .. k |-> Body(g, j)]
    <3>1. g = [j \in 0 .. k |-> g[j]]
      OBVIOUS
    <3> HIDE DEF g, Body
    <3> QED
      BY <2>4, <3>1
  <2>6. Takes(violations, matching, g, k)
    <3> HIDE DEF g
    <3> QED
      BY <2>5 DEF Takes
  <2> QED
    BY <1>1, <2>6
<1> QED
  BY <1>2, <1>3

LEMMA TakenTakes ==
    ASSUME NEW violations, NEW labels, Len(labels) \in Nat, NEW matching
    PROVE  \E f : /\ Takes(violations, matching, f, Len(labels))
                  /\ Taken(violations, labels, matching) = f[Len(labels)]
<1> DEFINE f == CHOOSE g : Takes(violations, matching, g, Len(labels))
<1>1. Takes(violations, matching, f, Len(labels))
  BY TakesSomething
<1>2. Taken(violations, labels, matching) = f[Len(labels)]
  BY DEF Taken, Takes, Pick
<1> QED
  BY <1>1, <1>2

(* ... and so what is taken is taken first fit.                            *)
LEMMA TakenFits ==
    ASSUME NEW violations, NEW c \in Nat, DOMAIN violations = 1 .. c,
           NEW labels, Len(labels) \in Nat, NEW matching
    PROVE  /\ FirstFit(Taken(violations, labels, matching), 1 .. c, matching)
           /\ Len(Taken(violations, labels, matching)) = Len(labels)
<1> DEFINE l == Len(labels)
<1>1. PICK f : /\ Takes(violations, matching, f, l)
               /\ Taken(violations, labels, matching) = f[l]
  BY TakenTakes
<1>2. /\ f[0] = << >>
      /\ \A k \in 1 .. l : f[k] = Append(f[k - 1], Pick(violations, matching, f[k - 1], k))
  <2> DEFINE Body(k) == IF k = 0 THEN << >>
                        ELSE Append(f[k - 1], Pick(violations, matching, f[k - 1], k))
  <2>1. f = [k \in 0 .. l |-> Body(k)]
    BY <1>1 DEF Takes
  <2>2. \A k \in 0 .. l : f[k] = Body(k)
    <3> HIDE DEF Body
    <3> QED
      BY <2>1
  <2>3. f[0] = Body(0)
    BY <2>2
  <2>4. ASSUME NEW k \in 1 .. l PROVE f[k] = Body(k) /\ k # 0
    <3>1. k \in 0 .. l /\ k # 0
      OBVIOUS
    <3> HIDE DEF Body
    <3> QED
      BY <2>2, <3>1
  <2> QED
    BY <2>3, <2>4
<1> DEFINE Good(k) == FirstFit(f[k], 1 .. c, matching) /\ Len(f[k]) = k
           Bad == {k \in 0 .. l : ~ Good(k)}
<1>3. Good(0)
  BY <1>2 DEF FirstFit
<1>4. ASSUME NEW k \in 1 .. l, Good(k - 1) PROVE Good(k)
  <2>1. f[k] = Append(f[k - 1], Pick(violations, matching, f[k - 1], Len(f[k - 1]) + 1))
    BY <1>2, <1>4
  <2>2. FirstFit(f[k], 1 .. c, matching)
    BY <1>4, <2>1, PickFits
  <2>3. Len(f[k]) = Len(f[k - 1]) + 1
    BY <1>4, <2>1 DEF FirstFit
  <2> QED
    BY <1>4, <2>2, <2>3
<1>5. Bad = {}
  <2> SUFFICES ASSUME Bad # {} PROVE FALSE
    OBVIOUS
  <2>1. PICK k \in Bad : \A j \in Bad : k <= j
    <3>1. Bad \in SUBSET Nat
      OBVIOUS
    <3> HIDE DEF Bad
    <3> QED
      BY <3>1, LeastOf
  <2>2. k \in 1 .. l /\ k - 1 \in 0 .. l /\ k - 1 \notin Bad
    BY <1>3, <2>1
  <2> QED
    BY <1>4, <2>1, <2>2
<1>6. Good(l)
  BY <1>5
<1> QED
  BY <1>1, <1>6

LEMMA MostIs ==
    ASSUME NEW matching, IsFiniteSet(matching)
    PROVE  /\ \E pairs \in SUBSET matching :
                  OneToOne(pairs) /\ Most(matching) = Cardinality(pairs)
           /\ \A pairs \in SUBSET matching :
                  OneToOne(pairs) => Cardinality(pairs) <= Most(matching)
<1> DEFINE sizes == {Cardinality(pairs) : pairs \in {s \in SUBSET matching : OneToOne(s)}}
<1>1. ASSUME NEW pairs \in SUBSET matching
      PROVE  Cardinality(pairs) \in Nat /\ Cardinality(pairs) <= Cardinality(matching)
  BY FS_Subset, FS_CardinalityType
<1>2. sizes \in SUBSET Nat /\ \A size \in sizes : size <= Cardinality(matching)
  BY <1>1
<1>3. Cardinality({}) \in sizes
  BY DEF OneToOne
<1>4. Cardinality(matching) \in Nat
  BY FS_CardinalityType
<1>5. Most(matching) \in sizes /\ \A size \in sizes : size <= Most(matching)
  <2>1. Most(matching) = S!Max(sizes)
    BY DEF Most
  <2> HIDE DEF sizes
  <2> QED
    BY <1>2, <1>3, <1>4, <2>1, GreatestOf
<1> QED
  BY <1>5

Hits(list) == {n \in 1 .. Len(list) : list[n] # 0}

Picked(list) == {list[n] : n \in Hits(list)}

(* No claim is taken twice.                                                *)
LEMMA HitsAreClaims ==
    ASSUME NEW list, NEW claims, NEW matching, FirstFit(list, claims, matching)
    PROVE  /\ IsFiniteSet(Hits(list)) /\ Cardinality(Hits(list)) \in Nat
           /\ \A n, m \in Hits(list) : list[n] = list[m] => n = m
           /\ \A n \in Hits(list) : list[n] \in claims /\ <<list[n], n>> \in matching
           /\ IsFiniteSet(Picked(list)) /\ Picked(list) \subseteq claims
           /\ Cardinality(Picked(list)) = Cardinality(Hits(list))
<1>1. Len(list) \in Nat
  BY DEF FirstFit
<1>2. IsFiniteSet(Hits(list)) /\ Cardinality(Hits(list)) \in Nat
  <2>1. Hits(list) \subseteq 1 .. Len(list)
    BY DEF Hits
  <2>2. IsFiniteSet(1 .. Len(list))
    BY <1>1, FS_Interval
  <2> QED
    BY <2>1, <2>2, FS_Subset, FS_CardinalityType
<1>3. \A n \in Hits(list) : list[n] \in claims /\ <<list[n], n>> \in matching
  BY DEF Hits, FirstFit, Fits
<1>4. ASSUME NEW n \in Hits(list), NEW m \in Hits(list), m < n PROVE list[m] # list[n]
  <2>1. m \in 1 .. n - 1 /\ n \in 1 .. Len(list) /\ list[n] # 0
    BY <1>1, <1>4 DEF Hits
  <2> QED
    BY <2>1 DEF FirstFit, Fits
<1>5. \A n, m \in Hits(list) : list[n] = list[m] => n = m
  <2>1. \A n, m \in Hits(list) : n < m \/ m < n \/ n = m
    BY <1>1 DEF Hits
  <2> QED
    BY <1>4, <2>1
<1> DEFINE pick == [n \in Hits(list) |-> list[n]]
<1>6. pick \in Bijection(Hits(list), Picked(list))
  BY <1>5 DEF Picked, Bijection, Injection, IsInjective, Surjection
<1>7. IsFiniteSet(Picked(list)) /\ Cardinality(Picked(list)) = Cardinality(Hits(list))
  BY <1>2, <1>6, FS_Bijection DEF ExistsBijection
<1> QED
  BY <1>2, <1>3, <1>5, <1>7 DEF Picked

LEMMA FirstFitIsOneToOne ==
    ASSUME NEW list, NEW claims, NEW matching, IsFiniteSet(matching),
           FirstFit(list, claims, matching)
    PROVE  Cardinality(Hits(list)) <= Most(matching)
<1> DEFINE made == {<<list[n], n>> : n \in Hits(list)}
           pair == [n \in Hits(list) |-> <<list[n], n>>]
<1>1. made \in SUBSET matching /\ OneToOne(made)
  BY HitsAreClaims DEF OneToOne
<1>2. pair \in Bijection(Hits(list), made)
  BY DEF Bijection, Injection, IsInjective, Surjection
<1>3. Cardinality(made) = Cardinality(Hits(list))
  <2> HIDE DEF made, pair
  <2> QED
    BY <1>2, HitsAreClaims, FS_Bijection DEF ExistsBijection
<1> HIDE DEF made
<1> QED
  BY <1>1, <1>3, MostIs

(* A label passed over wanted only claims that others have.                *)
LEMMA PassedOver ==
    ASSUME NEW list, NEW claims, NEW matching, FirstFit(list, claims, matching),
           NEW n \in 1 .. Len(list), list[n] = 0, NEW i \in claims, <<i, n>> \in matching, i # 0
    PROVE  \E m \in Hits(list) : list[m] = i
<1>1. PICK m \in 1 .. n - 1 : list[m] = i
  BY DEF FirstFit, Fits
<1>2. Len(list) \in Nat
  BY DEF FirstFit
<1> QED
  BY <1>1, <1>2 DEF Hits

LEMMA FirstFitIsHalf ==
    ASSUME NEW list, NEW c \in Nat, NEW matching \in SUBSET ((1 .. c) \X (1 .. Len(list))),
           IsFiniteSet(matching), FirstFit(list, 1 .. c, matching)
    PROVE  Most(matching) <= 2 * Cardinality(Hits(list))
<1>1. PICK best \in SUBSET matching : OneToOne(best) /\ Most(matching) = Cardinality(best)
  BY MostIs
<1> DEFINE byLabel == {pair \in best : pair[2] \in Hits(list)}
           byClaim == {pair \in best : pair[1] \in Picked(list)}
<1>2. byLabel \cup byClaim = best
  <2> SUFFICES ASSUME NEW pair \in best, pair[2] \notin Hits(list)
               PROVE  pair[1] \in Picked(list)
    OBVIOUS
  <2>1. pair = <<pair[1], pair[2]>> /\ pair[1] \in 1 .. c /\ pair[2] \in 1 .. Len(list)
    OBVIOUS
  <2>2. list[pair[2]] = 0
    BY <2>1 DEF Hits
  <2> QED
    BY <2>1, <2>2, PassedOver DEF Picked
<1>3. /\ IsFiniteSet(byLabel) /\ IsFiniteSet(byClaim)
      /\ Cardinality(byLabel) \in Nat /\ Cardinality(byClaim) \in Nat
      /\ Cardinality(best) \in Nat
  <2>1. byLabel \subseteq matching /\ byClaim \subseteq matching /\ best \subseteq matching
    OBVIOUS
  <2> HIDE DEF byLabel, byClaim
  <2> QED
    BY <2>1, FS_Subset, FS_CardinalityType
<1>4. Cardinality(byLabel) <= Cardinality(Hits(list))
  <2> DEFINE f == [pair \in byLabel |-> pair[2]]
  <2>1. f \in Injection(byLabel, Hits(list))
    BY <1>1 DEF Injection, IsInjective, OneToOne
  <2> HIDE DEF f, byLabel
  <2> QED
    BY <2>1, HitsAreClaims, FS_Injection
<1>5. Cardinality(byClaim) <= Cardinality(Picked(list))
  <2> DEFINE f == [pair \in byClaim |-> pair[1]]
  <2>1. f \in Injection(byClaim, Picked(list))
    BY <1>1 DEF Injection, IsInjective, OneToOne
  <2> HIDE DEF f, byClaim
  <2> QED
    BY <2>1, HitsAreClaims, FS_Injection
<1>6. Cardinality(best) <= Cardinality(byLabel) + Cardinality(byClaim)
  <2> HIDE DEF byLabel, byClaim
  <2>1. IsFiniteSet(byLabel \cap byClaim) /\ Cardinality(byLabel \cap byClaim) \in Nat
    BY <1>3, FS_Intersection, FS_CardinalityType
  <2>2. Cardinality(byLabel \cup byClaim)
            = Cardinality(byLabel) + Cardinality(byClaim) - Cardinality(byLabel \cap byClaim)
    BY <1>3, FS_Union
  <2>3. Cardinality(best)
            = Cardinality(byLabel) + Cardinality(byClaim) - Cardinality(byLabel \cap byClaim)
    BY <1>2, <2>2
  <2> QED
    BY <1>3, <2>1, <2>3
<1>7. Cardinality(Picked(list)) = Cardinality(Hits(list)) /\ Cardinality(Hits(list)) \in Nat
  BY HitsAreClaims
<1> HIDE DEF byLabel, byClaim
<1> QED
  BY <1>1, <1>3, <1>4, <1>5, <1>6, <1>7

(* When two labels that share a claim match the same claims, first fit is  *)
(* best: among the labels of a kind either every label has a claim or      *)
(* every claim a label.                                                    *)
Fitting(matching, n) == {i \in Nat : <<i, n>> \in matching}

Kinds(matching) ==
    \A n, m : Fitting(matching, n) \cap Fitting(matching, m) # {}
                  => Fitting(matching, n) = Fitting(matching, m)

LEMMA FirstFitIsBest ==
    ASSUME NEW list, NEW c \in Nat, NEW matching \in SUBSET ((1 .. c) \X (1 .. Len(list))),
           IsFiniteSet(matching), FirstFit(list, 1 .. c, matching), Kinds(matching)
    PROVE  Cardinality(Hits(list)) = Most(matching)
<1>1. PICK best \in SUBSET matching : OneToOne(best) /\ Most(matching) = Cardinality(best)
  BY MostIs
<1> DEFINE Kind(n) == Fitting(matching, n)
           Served(kind) == \A m \in 1 .. Len(list) : Kind(m) = kind => list[m] # 0
           Right(pair, n) == /\ Kind(n) = Kind(pair[2])
                             /\ IF Served(Kind(pair[2])) THEN n = pair[2] ELSE list[n] = pair[1]
           to == [pair \in best |-> CHOOSE n \in Hits(list) : Right(pair, n)]
<1>2. ASSUME NEW pair \in best
      PROVE  to[pair] \in Hits(list) /\ Right(pair, to[pair])
  <2>1. /\ pair = <<pair[1], pair[2]>> /\ pair \in matching
        /\ pair[1] \in 1 .. c /\ pair[2] \in 1 .. Len(list)
    OBVIOUS
  <2>2. pair[1] \in Kind(pair[2])
    BY <2>1 DEF Fitting
  <2>3. \E n \in Hits(list) : Right(pair, n)
    <3>1. CASE Served(Kind(pair[2]))
      <4>1. pair[2] \in Hits(list)
        BY <2>1, <3>1 DEF Hits
      <4> QED
        BY <3>1, <4>1
    <3>2. CASE ~ Served(Kind(pair[2]))
      <4>1. PICK m \in 1 .. Len(list) : Kind(m) = Kind(pair[2]) /\ list[m] = 0
        BY <3>2
      <4>2. <<pair[1], m>> \in matching
        BY <2>2, <4>1 DEF Fitting
      <4>3. PICK n \in Hits(list) : list[n] = pair[1]
        BY <2>1, <4>1, <4>2, PassedOver
      <4>4. <<pair[1], n>> \in matching
        BY <4>3, HitsAreClaims
      <4>5. pair[1] \in Kind(n)
        BY <2>1, <4>4 DEF Fitting
      <4>6. Kind(n) = Kind(pair[2])
        BY <2>2, <4>5 DEF Kinds
      <4> QED
        BY <3>2, <4>3, <4>6
    <3> QED
      BY <3>1, <3>2
  <2> HIDE DEF Right
  <2>4. to[pair] = CHOOSE n \in Hits(list) : Right(pair, n)
    OBVIOUS
  <2> QED
    BY <2>3, <2>4
<1>3. ASSUME NEW one \in best, NEW other \in best, to[one] = to[other]
      PROVE  one = other
  <2> HIDE DEF to
  <2>1. Right(one, to[one]) /\ Right(other, to[one])
    BY <1>2, <1>3
  <2>2. one[1] = other[1] \/ one[2] = other[2]
    BY <2>1
  <2> QED
    BY <1>1, <2>2 DEF OneToOne
<1>4. to \in Injection(best, Hits(list))
  <2>1. \A pair \in best : to[pair] \in Hits(list)
    BY <1>2
  <2>2. to \in [best -> Hits(list)]
    <3>1. to = [pair \in best |-> to[pair]]
      OBVIOUS
    <3> HIDE DEF to
    <3> QED
      BY <2>1, <3>1
  <2> HIDE DEF to
  <2> QED
    BY <1>3, <2>2 DEF Injection, IsInjective
<1>5. Cardinality(best) <= Cardinality(Hits(list))
  <2> HIDE DEF to
  <2> QED
    BY <1>4, HitsAreClaims, FS_Injection
<1>6. Cardinality(Hits(list)) <= Most(matching)
  BY FirstFitIsOneToOne
<1>7. Cardinality(Hits(list)) \in Nat /\ Cardinality(best) \in Nat
  BY HitsAreClaims, FS_Subset, FS_CardinalityType
<1> QED
  BY <1>1, <1>5, <1>6, <1>7

-----------------------------------------------------------------------------
LEMMA ClaimsAreList ==
    ASSUME NEW run, Judgement(run)
    PROVE  /\ Len(Violations(run)) \in Nat
           /\ DOMAIN Violations(run) = 1 .. Len(Violations(run))
<1>1. CASE run.given.verdict = Failure
  <2>1. Violations(run) = << >>
    BY <1>1 DEF Violations
  <2> QED
    BY <2>1
<1>2. CASE run.given.verdict # Failure
  <2> DEFINE n == Len(run.given.verdict)
             Claim(i) == [label   |-> run.given.verdict[i].label,
                          events  |-> run.given.verdict[i].events,
                          session |-> run.asked.session]
  <2>1. n \in Nat /\ DOMAIN run.given.verdict = 1 .. n
    BY <1>2, Lists DEF Judgement
  <2>2. Violations(run) = [i \in 1 .. n |-> Claim(i)]
    BY <1>2, <2>1 DEF Violations
  <2>3. Violations(run) \in [1 .. n -> {Claim(i) : i \in 1 .. n}]
    BY <2>2
  <2>4. Violations(run) \in Seq({Claim(i) : i \in 1 .. n}) /\ DOMAIN Violations(run) = 1 .. n
    <3> HIDE DEF Claim
    <3> QED
      BY <2>1, <2>3
  <2>5. /\ Len(Violations(run)) \in Nat
        /\ DOMAIN Violations(run) = 1 .. Len(Violations(run))
    <3> HIDE DEF Claim
    <3> QED
      BY <2>4
  <2> QED
    BY <2>5
<1> QED
  BY <1>1, <1>2

LEMMA MatchersAreOfPairs ==
    ASSUME NEW claims, NEW labels, Len(claims) \in Nat, Len(labels) \in Nat
    PROVE  \A matching \in {Exact(claims, labels), SameSession(claims, labels),
                            Overlapping(claims, labels)} :
               /\ matching \in SUBSET ((1 .. Len(claims)) \X (1 .. Len(labels)))
               /\ IsFiniteSet(matching)
<1>1. IsFiniteSet(Pairs(claims, labels))
  <2>1. IsFiniteSet(1 .. Len(claims)) /\ IsFiniteSet(1 .. Len(labels))
    BY FS_Interval
  <2> QED
    BY <2>1, FS_Product DEF Pairs
<1>2. \A matching \in {Exact(claims, labels), SameSession(claims, labels),
                       Overlapping(claims, labels)} : matching \subseteq Pairs(claims, labels)
  BY DEF Exact, SameSession, Overlapping
<1> QED
  BY <1>1, <1>2, FS_Subset DEF Pairs

LEMMA HitsAreCounted ==
    ASSUME NEW claims, NEW labels, Len(claims) \in Nat, Len(labels) \in Nat,
           DOMAIN claims = 1 .. Len(claims), NEW matching
    PROVE  LET taken == Taken(claims, labels, matching)
           IN  /\ Confusion(claims, labels, matching).true_positives = Cardinality(Hits(taken))
               /\ Confusion(claims, labels, matching).false_positives
                      = Len(claims) - Cardinality(Hits(taken))
<1> DEFINE taken == Taken(claims, labels, matching)
<1>1. DOMAIN taken = 1 .. Len(taken)
  BY TakenFits DEF FirstFit
<1>2. Hits(taken) = {n \in DOMAIN taken : taken[n] # 0}
  BY <1>1 DEF Hits
<1> QED
  BY <1>2 DEF Confusion

LEMMA ExactHasKinds ==
    ASSUME NEW claims, NEW labels, Len(claims) \in Nat, Len(labels) \in Nat
    PROVE  Kinds(Exact(claims, labels)) /\ Kinds(SameSession(claims, labels))
<1>1. ASSUME NEW n, NEW m, NEW matching \in {Exact(claims, labels), SameSession(claims, labels)},
             NEW i \in Fitting(matching, n) \cap Fitting(matching, m)
      PROVE  Fitting(matching, n) = Fitting(matching, m)
  <2>1. n \in 1 .. Len(labels) /\ m \in 1 .. Len(labels) /\ i \in 1 .. Len(claims)
    BY <1>1 DEF Fitting, Exact, SameSession, Pairs
  <2>2. CASE matching = Exact(claims, labels)
    <3>1. \A j : \A l \in 1 .. Len(labels) : j \in Fitting(matching, l) <=>
              /\ j \in 1 .. Len(claims)
              /\ claims[j].label = labels[l].constraint
              /\ F!Range(claims[j].events) = labels[l].events
      BY <2>2 DEF Fitting, Exact, Pairs
    <3>2. labels[n].constraint = labels[m].constraint /\ labels[n].events = labels[m].events
      BY <1>1, <2>1, <3>1
    <3> QED
      BY <2>1, <3>1, <3>2
  <2>3. CASE matching = SameSession(claims, labels)
    <3>1. \A j : \A l \in 1 .. Len(labels) : j \in Fitting(matching, l) <=>
              /\ j \in 1 .. Len(claims)
              /\ claims[j].session # NoSession
              /\ claims[j].session = labels[l].session
      BY <2>3 DEF Fitting, SameSession, Pairs
    <3>2. labels[n].session = labels[m].session
      BY <1>1, <2>1, <3>1
    <3> QED
      BY <2>1, <3>1, <3>2
  <2> QED
    BY <2>2, <2>3
<1> QED
  BY <1>1 DEF Kinds

LEMMA QueuedIsNotPicked ==
    ASSUME NEW claims, NEW labels, Len(claims) \in Nat, Len(labels) \in Nat,
           DOMAIN claims = 1 .. Len(claims), DOMAIN labels = 1 .. Len(labels)
    PROVE  Confusion(claims, labels, Overlapping(claims, labels)).false_positives
               >= Cardinality(Queue(claims, labels))
<1> DEFINE overlap == Overlapping(claims, labels)
           list == Taken(claims, labels, overlap)
           all == 1 .. Len(claims)
<1>1. FirstFit(list, all, overlap) /\ Len(list) = Len(labels)
  BY TakenFits
<1>2. IsFiniteSet(all) /\ Cardinality(all) = Len(claims)
  BY UpTo
<1>3. /\ IsFiniteSet(Picked(list)) /\ Picked(list) \subseteq all
      /\ Cardinality(Picked(list)) = Cardinality(Hits(list)) /\ Cardinality(Hits(list)) \in Nat
  <2> HIDE DEF list, all, overlap
  <2> QED
    BY <1>1, HitsAreClaims
<1>4. Queue(claims, labels) \subseteq all \ Picked(list)
  <2> SUFFICES ASSUME NEW n \in Hits(list), list[n] \in Queue(claims, labels) PROVE FALSE
    BY DEF Queue, Picked
  <2>1. <<list[n], n>> \in overlap
    <3> HIDE DEF list, all, overlap
    <3> QED
      BY <1>1, HitsAreClaims
  <2>2. n \in 1 .. Len(labels)
    BY <1>1 DEF Hits
  <2>3. n \in DOMAIN labels
    BY <2>2
  <2> HIDE DEF list, all
  <2> QED
    BY <2>1, <2>3 DEF Queue
<1>5. /\ IsFiniteSet(all \ Picked(list))
      /\ Cardinality(all \ Picked(list)) = Len(claims) - Cardinality(Hits(list))
  <2>1. Picked(list) \cap all = Picked(list) /\ all \cap Picked(list) = Picked(list)
    BY <1>3
  <2>2. /\ IsFiniteSet(all \ Picked(list))
        /\ Cardinality(all \ Picked(list)) = Cardinality(all) - Cardinality(all \cap Picked(list))
    <3> HIDE DEF list, all
    <3> QED
      BY <1>2, FS_Difference
  <2> HIDE DEF list, all
  <2> QED
    BY <1>2, <1>3, <2>1, <2>2
<1>6. /\ Cardinality(Queue(claims, labels)) <= Cardinality(all \ Picked(list))
      /\ Cardinality(Queue(claims, labels)) \in Nat
  <2> HIDE DEF list, all
  <2> QED
    BY <1>4, <1>5, FS_Subset, FS_CardinalityType
<1>7. Confusion(claims, labels, overlap).false_positives = Len(claims) - Cardinality(Hits(list))
  BY HitsAreCounted
<1> HIDE DEF list, all, overlap
<1>8. Cardinality(Queue(claims, labels)) <= Len(claims) - Cardinality(Hits(list))
  BY <1>5, <1>6
<1> QED
  BY <1>3, <1>6, <1>7, <1>8 DEF overlap

LEMMA RunIsFair ==
    ASSUME NEW run, Judgement(run), NEW labels \in Labels
    PROVE  Fair(Violations(run), labels)
<1> DEFINE claims == Violations(run)
           Taking(matching) == Taken(claims, labels, matching)
<1>1. /\ Len(claims) \in Nat /\ DOMAIN claims = 1 .. Len(claims)
      /\ Len(labels) \in Nat /\ DOMAIN labels = 1 .. Len(labels)
  BY ClaimsAreList, Lists
<1> HIDE DEF claims
<1>2. ASSUME NEW matching
      PROVE  /\ FirstFit(Taking(matching), 1 .. Len(claims), matching)
             /\ Len(Taking(matching)) = Len(labels)
             /\ Cardinality(Hits(Taking(matching))) \in Nat
             /\ Confusion(claims, labels, matching).true_positives
                    = Cardinality(Hits(Taking(matching)))
  <2>1. /\ FirstFit(Taking(matching), 1 .. Len(claims), matching)
        /\ Len(Taking(matching)) = Len(labels)
    BY <1>1, TakenFits
  <2>2. Cardinality(Hits(Taking(matching))) \in Nat
    BY <2>1, HitsAreClaims
  <2> QED
    BY <1>1, <2>1, <2>2, HitsAreCounted
<1> HIDE DEF Taking
<1>3. ASSUME NEW matching \in {Exact(claims, labels), SameSession(claims, labels)}
      PROVE  Confusion(claims, labels, matching).true_positives = Most(matching)
  <2>1. /\ matching \in SUBSET ((1 .. Len(claims)) \X (1 .. Len(Taking(matching))))
        /\ IsFiniteSet(matching)
    BY <1>1, <1>2, MatchersAreOfPairs
  <2>2. Kinds(matching)
    BY <1>1, ExactHasKinds
  <2>3. Cardinality(Hits(Taking(matching))) = Most(matching)
    BY <1>1, <1>2, <2>1, <2>2, FirstFitIsBest
  <2> QED
    BY <1>2, <2>3
<1>4. LET overlap == Overlapping(claims, labels)
          found   == Confusion(claims, labels, overlap).true_positives
      IN  found <= Most(overlap) /\ 2 * found >= Most(overlap)
  <2> DEFINE overlap == Overlapping(claims, labels)
  <2>1. /\ overlap \in SUBSET ((1 .. Len(claims)) \X (1 .. Len(Taking(overlap))))
        /\ IsFiniteSet(overlap)
    BY <1>1, <1>2, MatchersAreOfPairs
  <2> HIDE DEF overlap
  <2>2. Cardinality(Hits(Taking(overlap))) <= Most(overlap)
    BY <1>2, <2>1, FirstFitIsOneToOne
  <2>3. Most(overlap) <= 2 * Cardinality(Hits(Taking(overlap)))
    BY <1>1, <1>2, <2>1, FirstFitIsHalf
  <2>4. Confusion(claims, labels, overlap).true_positives = Cardinality(Hits(Taking(overlap)))
    BY <1>2
  <2>5. Most(overlap) \in Nat /\ Cardinality(Hits(Taking(overlap))) \in Nat
    BY <1>2, <2>1, MostIs, FS_Subset, FS_CardinalityType
  <2> QED
    BY <2>2, <2>3, <2>4, <2>5 DEF overlap
<1>5. Confusion(claims, labels, Overlapping(claims, labels)).false_positives
          >= Cardinality(Queue(claims, labels))
  BY <1>1, QueuedIsNotPicked
<1>6. Fair(claims, labels)
  BY <1>3, <1>4, <1>5 DEF Fair
<1> QED
  BY <1>6 DEF claims

-----------------------------------------------------------------------------
(* What is added to the reports is the runs of the sweep that ends.        *)
LEMMA ReportsGain ==
    ASSUME CacheOK, [Next]_vars, NEW report \in reports' \ reports
    PROVE  IsFiniteSet(report) /\ \A run \in report : Judgement(run)
<1>1. PICK p \in Sweepers : Report(p)
  BY DEF Next, Begin, Hit, Miss, Complete, Open, Fill, Replace, GivesUp, Die, vars
<1>2. report = Verdicts(p)
  BY <1>1 DEF Report
<1>3. IsFiniteSet(report)
  <2> DEFINE run(i) == [asked |-> runs[p][i].asked, given |-> runs[p][i].given]
             n == Len(runs[p])
             list == [i \in 1 .. n |-> run(i)]
  <2>1. n \in Nat /\ DOMAIN runs[p] = 1 .. n
    BY DEF CacheOK, TypeOK
  <2>2. report = {run(i) : i \in 1 .. n}
    BY <1>2, <2>1 DEF Verdicts
  <2>3. list \in Surjection(1 .. n, report)
    BY <2>2 DEF Surjection
  <2> HIDE DEF list, n
  <2> QED
    BY <2>1, <2>3, UpTo, FS_Surjection
<1>4. ReportsFit'
  BY <1>1, ReportKeeps
<1>5. ASSUME NEW run \in report PROVE Judgement(run)
  <2>1. run.asked \in Asked /\ run.given \in Records /\ run.given.asked = run.asked
    BY <1>4 DEF ReportsFit
  <2>2. PICK asked \in Asked : \E verdict \in Answers[asked.prompt] :
            run.given = [asked |-> asked, verdict |-> verdict]
    BY <2>1 DEF Records
  <2> QED
    BY <2>1, <2>2 DEF Judgement
<1> QED
  BY <1>3, <1>5

LEMMA StepAgrees ==
    ASSUME CacheOK, [Next]_vars
    PROVE  \A report \in reports' \ reports : \A group \in Groups(report) :
               \A k \in 1 .. Cardinality(group) : Agree(group, k)
<1> SUFFICES ASSUME NEW report \in reports' \ reports, NEW group \in Groups(report),
                    NEW k \in 1 .. Cardinality(group)
             PROVE  Agree(group, k)
  OBVIOUS
<1>1. IsFiniteSet(report) /\ \A run \in report : Judgement(run)
  BY ReportsGain
<1>2. group \in SUBSET report
  BY DEF Groups
<1>3. IsFiniteSet(group)
  BY <1>1, <1>2, FS_Subset
<1>4. k \in Nat
  BY <1>3, FS_CardinalityType
<1> QED
  BY <1>1, <1>2, <1>3, <1>4, GroupAgrees

(* In every report a sweep ends with, the two aggregates of the samples of *)
(* a question fit together: what the whole verdict of k samples claims,    *)
(* the vote of k samples claims too, and claims that more than half of the *)
(* samples make were made together by one of them.                         *)
THEOREM AggregatesDoAgree == Spec => AggregatesAgree
<1>1. Init => CacheOK
  BY CacheInit
<1>2. CacheOK /\ [Next]_vars => CacheOK'
  BY CacheStep
<1>3. CacheOK /\ [Next]_vars =>
          \A report \in reports' \ reports : \A group \in Groups(report) :
              \A k \in 1 .. Cardinality(group) : Agree(group, k)
  BY StepAgrees
<1> QED
  BY <1>1, <1>2, <1>3, PTL DEF Spec, AggregatesAgree

LEMMA StepIsFair ==
    ASSUME CacheOK, [Next]_vars
    PROVE  \A report \in reports' \ reports : \A run \in report : \A labels \in Labels :
               Fair(Violations(run), labels)
  BY ReportsGain, RunIsFair

(* Whatever a sweep reports and was injected, in whatever order: taking    *)
(* the first claim that fits scores as many exact matches and session      *)
(* matches as can be, at least half of the overlaps, and what is queued    *)
(* for adjudication is among the false positives.                          *)
THEOREM ScoresStayFair == Spec => ScoresAreFair
<1>1. Init => CacheOK
  BY CacheInit
<1>2. CacheOK /\ [Next]_vars => CacheOK'
  BY CacheStep
<1>3. CacheOK /\ [Next]_vars =>
          \A report \in reports' \ reports : \A run \in report : \A labels \in Labels :
              Fair(Violations(run), labels)
  BY StepIsFair
<1> QED
  BY <1>1, <1>2, <1>3, PTL DEF Spec, ScoresAreFair
=============================================================================
