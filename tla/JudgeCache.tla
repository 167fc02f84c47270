----------------------------- MODULE JudgeCache ------------------------------
(***************************************************************************)
(* Sweeps of the language-model judge (baselines/llm_judge.py): every      *)
(* session, condition, model and sample of a split is judged once, each    *)
(* answer of the provider is paid for and put into a cache, and a later    *)
(* sweep, or one that resumes an interrupted one, or a replay without a    *)
(* provider, takes it from there.                                          *)
(*                                                                         *)
(* The prompt stands for prompt and rules, which have one digest, and the  *)
(* input of a question for what is shown of the session under a condition: *)
(* digests are what they are of. A split the evaluation lock refuses is    *)
(* not swept at all.                                                       *)
(***************************************************************************)
EXTENDS Integers, Sequences, FiniteSets

CONSTANTS
    Sweeps,    \* what may be swept: [prompt, sessions, conditions, models, samples]
    Answers,   \* of a prompt: what the provider may answer, Failure included
    Failure,   \* an answer that is not of the schema
    Absent, Torn, NoAnswer, NoSweep,
    Sweepers,  \* processes
    MaxSweeps  \* bound: sweeps begun

Prompts == {swept.prompt : swept \in Sweeps}

(* judge_all: sessions, conditions, models and samples, nested in this     *)
(* order; the n-th question a sweep asks.                                  *)
Count(swept) ==
    Len(swept.sessions) * Len(swept.conditions) * Len(swept.models) * swept.samples

Nth(list, n) == list[(n % Len(list)) + 1]

Question(swept, n) ==
    LET perModel     == swept.samples
        perCondition == perModel * Len(swept.models)
        perSession   == perCondition * Len(swept.conditions)
    IN  [prompt    |-> swept.prompt,
         session   |-> Nth(swept.sessions, (n - 1) \div perSession),
         condition |-> Nth(swept.conditions, (n - 1) \div perCondition),
         model     |-> Nth(swept.models, (n - 1) \div perModel),
         sample    |-> (n - 1) % swept.samples]

Asked == UNION {{Question(swept, n) : n \in 1..Count(swept)} : swept \in Sweeps}

ASSUME SweepsType ==
    /\ NoSweep \notin Sweeps
    /\ \A swept \in Sweeps : Count(swept) \in Nat

ASSUME Markers ==
    /\ NoAnswer # Absent /\ NoAnswer # Torn /\ Absent # Torn
    /\ \A asked \in Asked : \A verdict \in Answers[asked.prompt] :
          [asked |-> asked, verdict |-> verdict] \notin {Absent, Torn, NoAnswer}

VARIABLES
    cache,   \* of a key: the record under it, or Absent
    tmp,     \* of a process: its temporary file
    sweep,   \* of a process: what it sweeps
    live,    \* the processes that have a client and may ask; the others replay
    runs,    \* of a process: the runs so far
    answer,  \* of a process: the answer it has been given and not yet stored
    pc,
    reports, \* of the sweeps that have ended: their runs, as questions and answers
    begun,   \* how many have begun
    paid,    \* of a key: how often the provider was paid for it
    lost,    \* of a key: how often the answer was lost before it was stored
    raced    \* "yes" once a live sweep has begun beside another one

vars == <<cache, tmp, sweep, live, runs, answer, pc, reports, begun, paid, lost, raced>>

(* Mutant of Key: the sample is left out, so all samples share an answer.  *)
KeyOfAnySample(asked) ==
    [condition |-> asked.condition, input |-> <<asked.session, asked.condition>>,
     model |-> asked.model, prompt |-> asked.prompt]

(* cache_key.                                                              *)
Key(asked) ==
    [condition |-> asked.condition, input |-> <<asked.session, asked.condition>>,
     model |-> asked.model, prompt |-> asked.prompt, sample |-> asked.sample]

Keys == {Key(asked) : asked \in Asked}

Init ==
    /\ cache = [key \in Keys |-> Absent]
    /\ tmp = [p \in Sweepers |-> Absent]
    /\ sweep = [p \in Sweepers |-> NoSweep]
    /\ live = {}
    /\ runs = [p \in Sweepers |-> << >>]
    /\ answer = [p \in Sweepers |-> NoAnswer]
    /\ pc = [p \in Sweepers |-> "idle"]
    /\ reports = {}
    /\ begun = 0
    /\ paid = [key \in Keys |-> 0]
    /\ lost = [key \in Keys |-> 0]
    /\ raced = "no"

-----------------------------------------------------------------------------
(* judge_all begins: live, or a replay.                                    *)
Begin(p) ==
    /\ pc[p] = "idle"
    /\ begun < MaxSweeps
    /\ \E chosen \in Sweeps : sweep' = [sweep EXCEPT ![p] = chosen]
    /\ \/ /\ live' = live \cup {p}
          /\ raced' = IF live = {} THEN raced ELSE "yes"
       \/ UNCHANGED <<live, raced>>
    /\ pc' = [pc EXCEPT ![p] = "lookup"]
    /\ begun' = begun + 1
    /\ UNCHANGED <<cache, tmp, runs, answer, reports, paid, lost>>

Current(p) == Question(sweep[p], Len(runs[p]) + 1)

AllDone(p) == Len(runs[p]) >= Count(sweep[p])

Judged(p, given, cached) ==
    runs' = [runs EXCEPT ![p] =
                Append(@, [asked |-> Current(p), given |-> given, from_cache |-> cached])]

(* judge: the record under the key, if there is one, ...                   *)
Hit(p) ==
    /\ pc[p] = "lookup" /\ ~ AllDone(p)
    /\ cache[Key(Current(p))] \notin {Absent, Torn}
    /\ Judged(p, cache[Key(Current(p))], TRUE)
    /\ UNCHANGED <<cache, tmp, sweep, live, answer, pc, reports, begun, paid, lost, raced>>

(* ... or else the provider, which is asked and paid.                      *)
Miss(p) ==
    /\ pc[p] = "lookup" /\ ~ AllDone(p)
    /\ cache[Key(Current(p))] = Absent
    /\ p \in live
    /\ pc' = [pc EXCEPT ![p] = "ask"]
    /\ UNCHANGED <<cache, tmp, sweep, live, runs, answer, reports, begun, paid, lost, raced>>

Complete(p) ==
    /\ pc[p] = "ask"
    /\ \E verdict \in Answers[sweep[p].prompt] :
          answer' = [answer EXCEPT ![p] = [asked |-> Current(p), verdict |-> verdict]]
    /\ paid' = [paid EXCEPT ![Key(Current(p))] = @ + 1]
    /\ pc' = [pc EXCEPT ![p] = "open"]
    /\ UNCHANGED <<cache, tmp, sweep, live, runs, reports, begun, lost, raced>>

(* Mutant of TmpName: the same name in every process.                      *)
TmpNameOfAll(p) == CHOOSE q \in Sweepers : TRUE

(* _write_cache_record.                                                    *)
TmpName(p) == p

Open(p) ==
    /\ pc[p] = "open"
    /\ tmp' = [tmp EXCEPT ![TmpName(p)] = Torn]
    /\ pc' = [pc EXCEPT ![p] = "fill"]
    /\ UNCHANGED <<cache, sweep, live, runs, answer, reports, begun, paid, lost, raced>>

Fill(p) ==
    /\ pc[p] = "fill"
    /\ tmp' = [tmp EXCEPT ![TmpName(p)] = answer[p]]
    /\ pc' = [pc EXCEPT ![p] = "replace"]
    /\ UNCHANGED <<cache, sweep, live, runs, answer, reports, begun, paid, lost, raced>>

(* Mutant of Stored: only what could be parsed is kept.                    *)
StoredIfParsed(p) ==
    IF answer[p].verdict = Failure THEN cache
    ELSE [cache EXCEPT ![Key(Current(p))] = tmp[TmpName(p)]]

Stored(p) == [cache EXCEPT ![Key(Current(p))] = tmp[TmpName(p)]]

Replace(p) ==
    /\ pc[p] = "replace"
    /\ tmp[TmpName(p)] # Absent
    /\ cache' = Stored(p)
    /\ tmp' = [tmp EXCEPT ![TmpName(p)] = Absent]
    /\ Judged(p, answer[p], FALSE)
    /\ answer' = [answer EXCEPT ![p] = NoAnswer]
    /\ pc' = [pc EXCEPT ![p] = "lookup"]
    /\ UNCHANGED <<sweep, live, reports, begun, paid, lost, raced>>

-----------------------------------------------------------------------------
(* A sweep ends with all its runs, whose costs _cmd_judge reads back from  *)
(* the records of the answers that were fresh, ...                         *)
Ends(p) ==
    /\ pc' = [pc EXCEPT ![p] = "idle"]
    /\ sweep' = [sweep EXCEPT ![p] = NoSweep]
    /\ live' = live \ {p}
    /\ runs' = [runs EXCEPT ![p] = << >>]
    /\ answer' = [answer EXCEPT ![p] = NoAnswer]

Verdicts(p) ==
    {[asked |-> runs[p][i].asked, given |-> runs[p][i].given] : i \in DOMAIN runs[p]}

Report(p) ==
    /\ pc[p] = "lookup" /\ AllDone(p)
    /\ reports' = reports \cup {Verdicts(p)}
    /\ Ends(p)
    /\ UNCHANGED <<cache, tmp, begun, paid, lost, raced>>

(* ... or with none of them: a replay misses, a record does not load, the  *)
(* provider is not to be had, ...                                          *)
GivesUp(p) ==
    /\ \/ /\ pc[p] = "lookup" /\ ~ AllDone(p)
          /\ \/ cache[Key(Current(p))] = Absent /\ p \notin live
             \/ cache[Key(Current(p))] = Torn
       \/ pc[p] = "ask"
    /\ Ends(p)
    /\ UNCHANGED <<cache, tmp, reports, begun, paid, lost, raced>>

(* ... or it dies, the file system refusing to write included.             *)
Die(p) ==
    /\ pc[p] # "idle"
    /\ lost' = IF answer[p] # NoAnswer THEN [lost EXCEPT ![Key(answer[p].asked)] = @ + 1]
               ELSE lost
    /\ Ends(p)
    /\ UNCHANGED <<cache, tmp, reports, begun, paid, raced>>

Next ==
    \E p \in Sweepers :
        \/ Begin(p) \/ Hit(p) \/ Miss(p) \/ Complete(p) \/ Open(p) \/ Fill(p) \/ Replace(p)
        \/ Report(p) \/ GivesUp(p) \/ Die(p)

Spec == Init /\ [][Next]_vars

-----------------------------------------------------------------------------
(* What a sweep reports can be replayed: unless two live sweeps have run   *)
(* at once, any two sweeps under the same prompt that come to their end    *)
(* report the same answer to the same question, however many sweeps were   *)
(* interrupted in between.                                                 *)
SweepsAgree ==
    raced = "no" =>
        \A one, other \in reports : \A r \in one, s \in other :
            r.asked = s.asked => r.given = s.given

(* Every run is of an answer that the provider gave to this question under *)
(* this prompt, with this model and for this sample.                       *)
OwnAnswers ==
    \A report \in reports : \A run \in report : run.given.asked = run.asked

(* Nothing is paid for twice: what was paid for is in the cache, on its    *)
(* way there, or was lost by a process that died with it.                  *)
Held(key) == {p \in Sweepers : answer[p] # NoAnswer /\ Key(answer[p].asked) = key}

PaidOnce ==
    raced = "no" =>
        \A key \in Keys :
            paid[key] = (IF cache[key] = Absent THEN 0 ELSE 1) + lost[key] + Cardinality(Held(key))

(* Whoever writes at once and wherever they die, every record in the cache *)
(* is whole, and that of every fresh run is there for its cost to be read. *)
CacheIsWhole ==
    /\ \A key \in Keys : cache[key] # Torn
    /\ \A p \in Sweepers : \A run \in {runs[p][i] : i \in DOMAIN runs[p]} :
           ~ run.from_cache => cache[Key(run.asked)] # Absent
=============================================================================
