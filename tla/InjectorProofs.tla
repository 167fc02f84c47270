----------------------------- MODULE InjectorProofs -----------------------------
(***************************************************************************)
(* Theorems about Injector, for any splits, catalogues and applicants: what *)
(* the allocation promises (SingleIsBalanced, GreedyIsComplete), that a    *)
(* fault always finds what it looks for and rewrites it within the         *)
(* contract (InjectionIsNeverTorn), and that an injected split is still a  *)
(* log (InjectedSplitIsALog).                                              *)
(***************************************************************************)
EXTENDS Injector, FiniteSetTheorems, SequenceTheorems, TLAPS

Given(c) == {s \in Sessions : plan[s] = {c}}
Assigned == {s \in Sessions : plan[s] # {}}

(* An allocation of the single split, by whatever means it was found.      *)
Allocation(f) ==
    /\ f \in [Sessions -> Catalogue]
    /\ \A c \in Catalogue : /\ {s \in Sessions : f[s] = c} \subseteq EligibleFor(c)
                            /\ Cardinality({s \in Sessions : f[s] = c}) = Quota

DrawOK ==
    /\ instance \in Instances
    /\ applicant \in [Sessions -> Applying]
    /\ phase \in {"allocate", "validate", "inject", "done", "short", "refused"}
    /\ plan \in [Sessions -> SUBSET Catalogue]

(* What has been given out so far went to sessions eligible for it, the    *)
(* scarcest classes first, and every allocation gives as much of these     *)
(* classes.                                                                *)
SingleOK ==
    instance.split = "single" =>
        /\ settled \subseteq Catalogue
        /\ \A s \in Sessions : plan[s] = {} \/ \E c \in settled : plan[s] = {c} /\ Eligible(c, s)
        /\ \A c \in settled : Cardinality(Given(c)) = Quota
        /\ \A c \in settled : \A b \in Catalogue \ settled : Scarcer(c, b)
        /\ \A f : Allocation(f) =>
               Cardinality({s \in Sessions : f[s] \in settled}) = Cardinality(Assigned)
        /\ phase \notin {"allocate", "short"} => settled = Catalogue

AllocationOK ==
    /\ DrawOK
    /\ SingleOK
    /\ phase = "short" /\ Divisible => ~ \E f : Allocation(f)

-----------------------------------------------------------------------------
(* A set of numbers has a least one.                                       *)
LEMMA LeastOf ==
    ASSUME NEW T \in SUBSET Nat, T # {}
    PROVE  \E x \in T : \A y \in T : x <= y
<1> DEFINE Below == {pair \in Nat \X Nat : pair[1] < pair[2]}
<1>1. IsWellFoundedOn(Below, Nat)
  BY NatLessThanWellFounded DEF OpToRel
<1>2. \A x, y \in T : y < x => <<y, x>> \in Below
  OBVIOUS
<1> HIDE DEF Below
<1>3. PICK x \in T : \A y \in T : <<y, x>> \notin Below
  BY <1>1, WFMin
<1>4. ASSUME NEW y \in T PROVE x <= y
  <2>1. ~ (y < x)
    BY <1>2, <1>3
  <2>2. x \in Nat /\ y \in Nat
    OBVIOUS
  <2> QED
    BY <2>1, <2>2
<1> QED
  BY <1>4

(* An initial segment of the naturals is finite and has as many members as *)
(* its bound says.                                                         *)
LEMMA UpTo ==
    ASSUME NEW n \in Nat
    PROVE  IsFiniteSet(1 .. n) /\ Cardinality(1 .. n) = n
  BY FS_Interval

(* The cardinality of a finite set is a natural number.                    *)
LEMMA Counted ==
    ASSUME NEW T, IsFiniteSet(T)
    PROVE  Cardinality(T) \in Nat
  BY FS_CardinalityType

(* Two parts of a set that share nothing.                                  *)
LEMMA PartsAdd ==
    ASSUME NEW T, IsFiniteSet(T), NEW A \in SUBSET T, NEW B \in SUBSET T, A \cap B = {}
    PROVE  /\ IsFiniteSet(A) /\ IsFiniteSet(B) /\ IsFiniteSet(A \cup B)
           /\ Cardinality(A) \in Nat /\ Cardinality(B) \in Nat
           /\ Cardinality(A \cup B) = Cardinality(A) + Cardinality(B)
           /\ Cardinality(A \cup B) <= Cardinality(T)
<1>1. IsFiniteSet(A) /\ IsFiniteSet(B)
  BY FS_Subset
<1>2. Cardinality(A) \in Nat /\ Cardinality(B) \in Nat
  BY <1>1, Counted
<1>3. Cardinality(A \cap B) = 0
  BY FS_EmptySet
<1>4. IsFiniteSet(A \cup B)
  BY <1>1, FS_Union
<1>5. Cardinality(A \cup B) = Cardinality(A) + Cardinality(B) - Cardinality(A \cap B)
  BY <1>1, FS_Union
<1>6. Cardinality(A \cup B) = Cardinality(A) + Cardinality(B)
  BY <1>2, <1>3, <1>5
<1>7. A \cup B \in SUBSET T
  OBVIOUS
<1>8. Cardinality(A \cup B) <= Cardinality(T)
  BY <1>7, FS_Subset
<1> QED
  BY <1>1, <1>2, <1>4, <1>6, <1>8

-----------------------------------------------------------------------------
(* What InstanceAssumption says of the split at hand.                      *)
LEMMA InstanceFacts ==
    ASSUME instance \in Instances
    PROVE  /\ N \in Nat \ {0} /\ IsFiniteSet(Sessions)
           /\ Catalogue \subseteq FaultClasses /\ Catalogue # {} /\ Catalogue \subseteq Nat
           /\ instance.split \in {"clean", "single", "mixed"}
           /\ instance.budget \in [Sessions -> 0 .. 3]
<1>1. InstanceOK(instance)
  BY InstanceAssumption
<1>2. N \in Nat \ {0}
  BY <1>1 DEF InstanceOK, N
<1>3. IsFiniteSet(Sessions)
  BY <1>2, UpTo DEF Sessions
<1> QED
  BY <1>1, <1>2, <1>3 DEF InstanceOK, N, Sessions, Catalogue, FaultClasses

(* A verdict that stands was granted, so the pools lie in one another.     *)
LEMMA PoolsNest ==
    ASSUME instance \in Instances, applicant \in [Sessions -> Applying],
           NEW b \in FaultClasses, NEW c \in FaultClasses
    PROVE  EligibleFor(b) \subseteq EligibleFor(c) \/ EligibleFor(c) \subseteq EligibleFor(b)
<1>1. ASSUME NEW s \in Sessions
      PROVE  /\ Outcome(s) = "deny" => NeedsApproval(s)
             /\ NeedsApproval(s) => HasGrantApproval(s)
  <2>1. applicant[s] \in Applicants
    BY ApplyingAssumption
  <2> QED
    BY <2>1 DEF Outcome, NeedsApproval, HasGrantApproval, FinalOutcome, Applicants, Outcomes
<1> DEFINE Level(x) == IF x = 6 THEN 0 ELSE IF x \in {1, 2, 3} THEN 1 ELSE 2
<1>2. ASSUME NEW x \in FaultClasses, NEW y \in FaultClasses, Level(x) <= Level(y)
      PROVE  EligibleFor(x) \subseteq EligibleFor(y)
  BY <1>1, <1>2 DEF EligibleFor, Eligible, FaultClasses
<1>3. Level(b) <= Level(c) \/ Level(c) <= Level(b)
  OBVIOUS
<1> QED
  BY <1>2, <1>3

(* The pool of a fault class is a finite set of sessions.                  *)
LEMMA PoolsCounted ==
    ASSUME instance \in Instances, NEW c
    PROVE  /\ EligibleFor(c) \subseteq Sessions
           /\ IsFiniteSet(EligibleFor(c)) /\ Cardinality(EligibleFor(c)) \in Nat
<1>1. EligibleFor(c) \subseteq Sessions
  BY DEF EligibleFor
<1>2. IsFiniteSet(EligibleFor(c))
  BY <1>1, InstanceFacts, FS_Subset
<1> QED
  BY <1>1, <1>2, Counted

(* The pool of a class is part of that of every class less scarce.         *)
LEMMA ScarcerIsWithin ==
    ASSUME instance \in Instances, applicant \in [Sessions -> Applying],
           NEW b \in FaultClasses, NEW c \in FaultClasses, Scarcer(b, c)
    PROVE  EligibleFor(b) \subseteq EligibleFor(c)
<1>1. Cardinality(EligibleFor(b)) <= Cardinality(EligibleFor(c))
  BY PoolsCounted DEF Scarcer
<1>2. CASE EligibleFor(c) \subseteq EligibleFor(b)
  <2>1. /\ Cardinality(EligibleFor(c)) <= Cardinality(EligibleFor(b))
        /\ Cardinality(EligibleFor(b)) = Cardinality(EligibleFor(c)) => EligibleFor(b) = EligibleFor(c)
    BY <1>2, PoolsCounted, FS_Subset
  <2> QED
    BY <1>1, <2>1, PoolsCounted
<1> QED
  BY <1>2, PoolsNest

(* There is one scarcest class.                                            *)
LEMMA ScarcestIs ==
    ASSUME instance \in Instances, NEW classes \in SUBSET FaultClasses, classes # {}
    PROVE  /\ Scarcest(classes) \in classes
           /\ \A b \in classes : b = Scarcest(classes) \/ Scarcer(Scarcest(classes), b)
<1> DEFINE pool(x) == Cardinality(EligibleFor(x))
           Sizes   == {pool(x) : x \in classes}
<1>1. \A x : pool(x) \in Nat
  BY PoolsCounted
<1> HIDE DEF pool
<1>2. PICK least \in Sizes : \A n \in Sizes : least <= n
  <2>1. Sizes \in SUBSET Nat /\ Sizes # {}
    BY <1>1
  <2> HIDE DEF Sizes
  <2> QED
    BY <2>1, LeastOf
<1> DEFINE Fewest == {x \in classes : pool(x) = least}
<1>3. PICK c \in Fewest : \A x \in Fewest : c <= x
  <2>1. Fewest \in SUBSET Nat /\ Fewest # {}
    BY DEF FaultClasses
  <2> HIDE DEF Fewest
  <2> QED
    BY <2>1, LeastOf
<1>4. ASSUME NEW b \in classes, b # c PROVE Scarcer(c, b)
  <2>1. pool(c) = least /\ least <= pool(b)
    BY <1>2, <1>3
  <2>2. pool(b) = least => c <= b
    BY <1>3
  <2>3. pool(c) < pool(b) \/ (pool(c) = pool(b) /\ c < b)
    BY <1>1, <1>4, <2>1, <2>2 DEF FaultClasses
  <2> QED
    BY <2>3 DEF Scarcer, pool
<1>5. c \in classes /\ \A b \in classes : b = c \/ Scarcer(c, b)
  BY <1>3, <1>4
<1> HIDE DEF pool, Sizes, Fewest
<1> QED
  BY <1>5 DEF Scarcest
-----------------------------------------------------------------------------
(* The class taken next has the smallest pool of those that are left.      *)
LEMMA ScarcestOfRest ==
    ASSUME DrawOK, settled \subseteq Catalogue, settled # Catalogue
    PROVE  LET c == Scarcest(Catalogue \ settled)
           IN  /\ c \in Catalogue \ settled /\ c \in FaultClasses
               /\ \A b \in Catalogue \ (settled \cup {c}) : Scarcer(c, b)
<1> DEFINE rest == Catalogue \ settled
<1>1. rest \in SUBSET FaultClasses /\ rest # {}
  BY InstanceFacts DEF DrawOK
<1>2. /\ Scarcest(rest) \in rest
      /\ \A b \in rest : b = Scarcest(rest) \/ Scarcer(Scarcest(rest), b)
  <2> HIDE DEF rest
  <2> QED
    BY <1>1, ScarcestIs DEF DrawOK
<1> QED
  BY <1>1, <1>2

(* AllocationOK holds initially.                                           *)
LEMMA AllocationInit == Init => AllocationOK
<1> SUFFICES ASSUME Init PROVE AllocationOK
  OBVIOUS
<1>1. DrawOK
  BY DEF Init, DrawOK
<1>2. settled = {} /\ \A s \in Sessions : plan[s] = {}
  BY DEF Init
<1>3. \A f : {s \in Sessions : f[s] \in settled} = Assigned
  BY <1>2 DEF Assigned
<1>4. SingleOK
  BY <1>2, <1>3 DEF SingleOK, Init
<1> QED
  BY <1>1, <1>4 DEF AllocationOK, Init

(* The state the allocation is about does not change after it.             *)
LEMMA GivenKeeps ==
    ASSUME UNCHANGED given
    PROVE  /\ N' = N /\ Sessions' = Sessions /\ Catalogue' = Catalogue
           /\ Quota' = Quota /\ Divisible' = Divisible
           /\ \A c : EligibleFor(c)' = EligibleFor(c)
           /\ \A c, s : Eligible(c, s)' = Eligible(c, s)
           /\ \A b, c : Scarcer(b, c)' = Scarcer(b, c)
           /\ \A f : Allocation(f)' = Allocation(f)
<1>1. instance' = instance /\ applicant' = applicant
  BY DEF given
<1>2. N' = N /\ Sessions' = Sessions /\ Catalogue' = Catalogue
  BY <1>1 DEF N, Sessions, Catalogue
<1>3. Quota' = Quota /\ Divisible' = Divisible
  BY <1>2 DEF Quota, Divisible
<1>4. \A c, s : Eligible(c, s)' = Eligible(c, s)
  BY <1>1 DEF Eligible, NeedsApproval, HasGrantApproval, Outcome
<1>5. \A c : EligibleFor(c)' = EligibleFor(c)
  BY <1>2, <1>4 DEF EligibleFor
<1>6. \A b, c : Scarcer(b, c)' = Scarcer(b, c)
  BY <1>5 DEF Scarcer
<1>7. \A f : Allocation(f)' = Allocation(f)
  BY <1>2, <1>3, <1>5 DEF Allocation
<1> QED
  BY <1>2, <1>3, <1>4, <1>5, <1>6, <1>7

(* AllocationOK survives a step that leaves plan and settled alone.        *)
LEMMA AllocationKept ==
    ASSUME AllocationOK, UNCHANGED <<given, plan, settled>>,
           phase' \in {"allocate", "validate", "inject", "done", "short", "refused"},
           instance.split = "single" /\ phase' \notin {"allocate", "short"} => settled = Catalogue,
           phase' = "short" /\ Divisible => ~ \E f : Allocation(f)
    PROVE  AllocationOK'
<1>1. /\ Sessions' = Sessions /\ Catalogue' = Catalogue /\ Quota' = Quota
      /\ Divisible' = Divisible
      /\ \A c, s : Eligible(c, s)' = Eligible(c, s)
      /\ \A b, c : Scarcer(b, c)' = Scarcer(b, c)
      /\ \A f : Allocation(f)' = Allocation(f)
  BY GivenKeeps
<1>2. DrawOK'
  BY <1>1 DEF AllocationOK, DrawOK, given
<1>3. (\A c : Given(c)' = Given(c)) /\ Assigned' = Assigned
  BY <1>1 DEF Given, Assigned
<1>4. SingleOK'
  BY <1>1, <1>3 DEF AllocationOK, SingleOK, given
<1> QED
  BY <1>1, <1>2, <1>4 DEF AllocationOK
-----------------------------------------------------------------------------
(* What another allocation would give to the classes given out and to the  *)
(* next one comes from the pool of the next one.                           *)
LEMMA NextOfAllocation ==
    ASSUME AllocationOK, instance.split = "single", settled # Catalogue,
           NEW c, c = Scarcest(Catalogue \ settled), NEW f, Allocation(f)
    PROVE  /\ {s \in Sessions : f[s] \in settled \cup {c}} \subseteq EligibleFor(c)
           /\ Cardinality({s \in Sessions : f[s] \in settled \cup {c}}) = Cardinality(Assigned) + Quota
           /\ Cardinality(Assigned) \in Nat /\ Quota \in Nat
<1> DEFINE T == {s \in Sessions : f[s] \in settled}
           F == {s \in Sessions : f[s] = c}
<1>1. DrawOK /\ SingleOK
  BY DEF AllocationOK
<1>2. settled \subseteq Catalogue
  BY <1>1 DEF SingleOK
<1>3. c \in Catalogue \ settled /\ c \in FaultClasses
  BY <1>1, <1>2, ScarcestOfRest
<1>4. \A b \in settled : EligibleFor(b) \subseteq EligibleFor(c)
  <2> TAKE b \in settled
  <2>1. Scarcer(b, c) /\ b \in FaultClasses
    BY <1>1, <1>2, <1>3, InstanceFacts DEF SingleOK, DrawOK
  <2> QED
    BY <1>1, <1>3, <2>1, ScarcerIsWithin DEF DrawOK
<1>5. \A b \in Catalogue : {s \in Sessions : f[s] = b} \subseteq EligibleFor(b)
  BY DEF Allocation
<1>6. F \subseteq EligibleFor(c) /\ Cardinality(F) = Quota
  BY <1>3 DEF Allocation
<1>7. T \subseteq EligibleFor(c)
  BY <1>2, <1>4, <1>5
<1>8. Cardinality(T) = Cardinality(Assigned)
  BY <1>1 DEF SingleOK
<1>9. {s \in Sessions : f[s] \in settled \cup {c}} = T \cup F
  OBVIOUS
<1>10. T \in SUBSET Sessions /\ F \in SUBSET Sessions /\ T \cap F = {}
  BY <1>3
<1>11. IsFiniteSet(Sessions)
  BY <1>1, InstanceFacts DEF DrawOK
<1> HIDE DEF T, F
<1>12. /\ Cardinality(T) \in Nat /\ Cardinality(F) \in Nat
       /\ Cardinality(T \cup F) = Cardinality(T) + Cardinality(F)
  BY <1>10, <1>11, PartsAdd
<1> QED
  BY <1>6, <1>7, <1>8, <1>9, <1>12

(* A class that finds too few sessions left is not in any allocation.      *)
LEMMA ShortIsInfeasible ==
    ASSUME AllocationOK, instance.split = "single", settled # Catalogue,
           NEW c, c = Scarcest(Catalogue \ settled),
           Cardinality({s \in EligibleFor(c) : plan[s] = {}}) < Quota
    PROVE  ~ \E f : Allocation(f)
<1> SUFFICES ASSUME NEW f, Allocation(f) PROVE FALSE
  OBVIOUS
<1> DEFINE given_out == {s \in Sessions : f[s] \in settled \cup {c}}
           pool      == {s \in EligibleFor(c) : plan[s] = {}}
<1>1. DrawOK /\ SingleOK
  BY DEF AllocationOK
<1>2. /\ given_out \subseteq EligibleFor(c)
      /\ Cardinality(given_out) = Cardinality(Assigned) + Quota
      /\ Cardinality(Assigned) \in Nat /\ Quota \in Nat
  BY NextOfAllocation
<1>3. IsFiniteSet(EligibleFor(c)) /\ Cardinality(EligibleFor(c)) \in Nat
  BY <1>1, PoolsCounted DEF DrawOK
<1>4. c \in Catalogue \ settled /\ c \in FaultClasses
  BY <1>1, ScarcestOfRest DEF SingleOK
<1>5. Assigned \in SUBSET EligibleFor(c)
  <2> SUFFICES ASSUME NEW s \in Assigned PROVE s \in EligibleFor(c)
    OBVIOUS
  <2>1. PICK b \in settled : Eligible(b, s) /\ s \in Sessions
    BY <1>1 DEF Assigned, SingleOK
  <2>2. Scarcer(b, c) /\ b \in FaultClasses
    BY <1>1, <1>4, InstanceFacts DEF SingleOK, DrawOK
  <2>3. EligibleFor(b) \subseteq EligibleFor(c)
    BY <1>1, <1>4, <2>2, ScarcerIsWithin DEF DrawOK
  <2> QED
    BY <2>1, <2>3 DEF EligibleFor
<1>6. EligibleFor(c) = Assigned \cup pool
  BY <1>5 DEF Assigned, EligibleFor
<1>11. Assigned \cap pool = {} /\ pool \in SUBSET EligibleFor(c)
  BY DEF Assigned
<1>7. Cardinality(given_out) <= Cardinality(EligibleFor(c))
  <2> HIDE DEF given_out
  <2> QED
    BY <1>2, <1>3, FS_Subset
<1>8. Cardinality(pool) < Quota
  OBVIOUS
<1> HIDE DEF pool, given_out
<1>9. /\ Cardinality(pool) \in Nat
      /\ Cardinality(Assigned \cup pool) = Cardinality(Assigned) + Cardinality(pool)
  BY <1>3, <1>5, <1>11, PartsAdd
<1>10. Cardinality(EligibleFor(c)) = Cardinality(Assigned) + Cardinality(pool)
  BY <1>6, <1>9
<1> QED
  BY <1>2, <1>7, <1>8, <1>9, <1>10

(* Giving one class its quota preserves AllocationOK.                      *)
LEMMA AllocateSingleKeeps ==
    ASSUME AllocationOK, AllocateSingle
    PROVE  AllocationOK'
<1> PICK c : c = Scarcest(Catalogue \ settled)
  OBVIOUS
<1> DEFINE pool == {s \in EligibleFor(c) : plan[s] = {}}
<1>1. /\ instance.split = "single" /\ phase = "allocate" /\ settled # Catalogue
      /\ UNCHANGED given
  BY DEF AllocateSingle
<1>2. CASE phase' = "short" /\ UNCHANGED <<plan, settled>> /\ (~ Divisible \/ Cardinality(pool) < Quota)
  <2>1. Divisible => ~ \E f : Allocation(f)
    BY <1>1, <1>2, ShortIsInfeasible
  <2> QED
    BY <1>1, <1>2, <2>1, AllocationKept
<1>3. ASSUME NEW chosen \in kSubset(Quota, pool),
             plan' = [s \in Sessions |-> IF s \in chosen THEN {c} ELSE plan[s]],
             settled' = settled \cup {c}, UNCHANGED phase
      PROVE  AllocationOK'
  <2>1. DrawOK /\ SingleOK
    BY DEF AllocationOK
  <2>2. /\ c \in Catalogue \ settled
        /\ \A b \in Catalogue \ (settled \cup {c}) : Scarcer(c, b)
    BY <1>1, <2>1, ScarcestOfRest DEF SingleOK
  <2>3. /\ Sessions' = Sessions /\ Catalogue' = Catalogue /\ Quota' = Quota
        /\ \A x, s : Eligible(x, s)' = Eligible(x, s)
        /\ \A b, x : Scarcer(b, x)' = Scarcer(b, x)
        /\ \A f : Allocation(f)' = Allocation(f)
    BY <1>1, GivenKeeps
  <2>4. chosen \subseteq Sessions /\ Cardinality(chosen) = Quota
        /\ \A s \in chosen : plan[s] = {} /\ Eligible(c, s)
    BY DEF kSubset, EligibleFor
  <2> HIDE DEF pool
  <2>5. DrawOK'
    <3>1. plan' \in [Sessions -> SUBSET Catalogue]
      BY <1>3, <2>1, <2>2 DEF DrawOK
    <3> QED
      BY <1>1, <1>3, <2>1, <2>3, <3>1 DEF DrawOK, given
  <2>6. settled' \subseteq Catalogue
    BY <1>1, <1>3, <2>1, <2>2 DEF SingleOK
  <2>7. ASSUME NEW s \in Sessions
        PROVE  plan'[s] = {} \/ \E b \in settled' : plan'[s] = {b} /\ Eligible(b, s)
    <3>1. CASE s \in chosen
      BY <1>3, <2>4, <3>1
    <3>2. CASE s \notin chosen
      BY <1>1, <1>3, <2>1, <3>2 DEF SingleOK
    <3> QED
      BY <3>1, <3>2
  <2>8. Given(c)' = chosen
    <3>1. \A s \in Sessions : plan[s] # {c}
      BY <1>1, <2>1, <2>2 DEF SingleOK
    <3> QED
      BY <1>3, <2>3, <2>4, <3>1 DEF Given
  <2>9. ASSUME NEW b \in settled PROVE Given(b)' = Given(b)
    <3>1. b # c
      BY <2>2
    <3>2. \A s \in Sessions : plan'[s] = {b} <=> plan[s] = {b}
      BY <1>3, <2>4, <3>1
    <3> QED
      BY <2>3, <3>2 DEF Given
  <2>10. ASSUME NEW b \in settled' PROVE Cardinality(Given(b)') = Quota
    BY <1>1, <1>3, <2>1, <2>4, <2>8, <2>9 DEF SingleOK
  <2>11. ASSUME NEW b \in settled', NEW x \in Catalogue \ settled' PROVE Scarcer(b, x)
    BY <1>1, <1>3, <2>1, <2>2 DEF SingleOK
  <2>12. ASSUME NEW f, Allocation(f)
         PROVE  Cardinality({s \in Sessions : f[s] \in settled'}) = Cardinality(Assigned')
    <3>1. /\ Cardinality({s \in Sessions : f[s] \in settled \cup {c}}) = Cardinality(Assigned) + Quota
          /\ Cardinality(Assigned) \in Nat
      BY <1>1, <2>12, NextOfAllocation
    <3>2. Assigned' = Assigned \cup chosen /\ Assigned \cap chosen = {} /\ Assigned \in SUBSET Sessions
      BY <1>3, <2>3, <2>4 DEF Assigned
    <3>3. IsFiniteSet(Sessions)
      BY <2>1, InstanceFacts DEF DrawOK
    <3>4. Cardinality(Assigned \cup chosen) = Cardinality(Assigned) + Cardinality(chosen)
      BY <2>4, <3>2, <3>3, PartsAdd
    <3> QED
      BY <1>3, <2>4, <3>1, <3>2, <3>4
  <2>13. SingleOK'
    BY <1>1, <1>3, <2>3, <2>6, <2>7, <2>10, <2>11, <2>12 DEF SingleOK
  <2> QED
    BY <1>1, <1>3, <2>5, <2>13 DEF AllocationOK
<1> QED
  BY <1>2, <1>3 DEF AllocateSingle

(* Drawing the classes of one session preserves AllocationOK.              *)
LEMMA AllocateMixedKeeps ==
    ASSUME AllocationOK, AllocateMixed
    PROVE  AllocationOK'
<1>1. instance.split = "mixed" /\ UNCHANGED given /\ phase' \in {phase, "validate"} /\ phase = "allocate"
  BY DEF AllocateMixed
<1>2. PICK classes \in MixedChoices(at, instance.budget[at]) : plan' = [plan EXCEPT ![at] = classes]
  BY DEF AllocateMixed
<1>3. classes \in SUBSET Catalogue
  BY <1>2 DEF MixedChoices, kSubset
<1>4. Sessions' = Sessions /\ Catalogue' = Catalogue
  BY <1>1, GivenKeeps
<1>5. DrawOK'
  BY <1>1, <1>2, <1>3, <1>4 DEF AllocationOK, DrawOK, given
<1> QED
  BY <1>1, <1>5 DEF AllocationOK, SingleOK, given

(* Every step preserves AllocationOK.                                      *)
LEMMA AllocationStep == AllocationOK /\ [Next]_vars => AllocationOK'
<1> SUFFICES ASSUME AllocationOK, [Next]_vars PROVE AllocationOK'
  OBVIOUS
<1>1. DrawOK /\ SingleOK /\ (phase = "short" /\ Divisible => ~ \E f : Allocation(f))
  BY DEF AllocationOK
<1>2. CASE AllocateClean
  BY <1>2, AllocationKept DEF AllocateClean
<1>3. CASE AllocateSingle
  BY <1>3, AllocateSingleKeeps
<1>4. CASE SingleAllocated
  BY <1>4, AllocationKept DEF SingleAllocated
<1>5. CASE AllocateMixed
  BY <1>5, AllocateMixedKeeps
<1>6. CASE Validate
  <2>1. /\ UNCHANGED <<given, plan, settled>> /\ phase = "validate"
        /\ phase' \in {"refused", "inject"}
    BY <1>6 DEF Validate
  <2> QED
    BY <1>1, <2>1, AllocationKept DEF SingleOK
<1>7. CASE ApplyFault
  <2>1. UNCHANGED <<given, phase, plan, settled>>
    BY <1>7 DEF ApplyFault, Apply, FaultV1, FaultV2, FaultV3, FaultV4, FaultV5, FaultV6, FaultV7, FaultV8
  <2> QED
    BY <1>1, <2>1, AllocationKept DEF SingleOK, DrawOK
<1>8. CASE WriteSession
  <2>1. UNCHANGED <<given, plan, settled>> /\ phase = "inject" /\ phase' \in {"inject", "done"}
    BY <1>8 DEF WriteSession
  <2> QED
    BY <1>1, <2>1, AllocationKept DEF SingleOK
<1>9. CASE UNCHANGED vars
  BY <1>1, <1>9, AllocationKept DEF vars, SingleOK, DrawOK
<1> QED
  BY <1>2, <1>3, <1>4, <1>5, <1>6, <1>7, <1>8, <1>9 DEF Next

(* AllocationOK is an invariant.                                           *)
LEMMA AllocationHolds == Spec => []AllocationOK
  BY AllocationInit, AllocationStep, PTL DEF Spec

(* The single split gives every class of its catalogue exactly its quota   *)
(* of sessions.                                                            *)
THEOREM SingleIsBalanced == Spec => []Balanced
<1>1. AllocationOK => Balanced
  BY DEF AllocationOK, SingleOK, Balanced, Done, Given
<1> QED
  BY <1>1, AllocationHolds, PTL

(* _allocate_single is greedy and never takes back a session, yet it gives *)
(* up only where no allocation whatsoever exists: the classes' pools lie   *)
(* in one another, and the scarcest class chooses first.                   *)
THEOREM GreedyIsComplete == Spec => []ShortOnlyIfInfeasible
<1>1. AllocationOK => ShortOnlyIfInfeasible
  BY DEF AllocationOK, ShortOnlyIfInfeasible, Allocation
<1> QED
  BY <1>1, AllocationHolds, PTL

-----------------------------------------------------------------------------
(* A pair is a sequence of length two.                                     *)
LEMMA PairIsList ==
    ASSUME NEW T, NEW x \in T, NEW y \in T
    PROVE  /\ <<x, y>> \in Seq(T) /\ Len(<<x, y>>) = 2
           /\ <<x, y>>[1] = x /\ <<x, y>>[2] = y
  OBVIOUS

PairsUp(pairs, n, a, b) ==
    Len(pairs) = n /\ \A i \in 1 .. n : pairs[i] = <<a[i], b[i]>>

Alternates(s, n, a, b) ==
    Len(s) = 2 * n /\ \A j \in 1 .. n : s[2 * j - 1] = a[j] /\ s[2 * j] = b[j]

(* Flattening a sequence of pairs alternates their members.                *)
LEMMA FlattenPairs ==
    ASSUME NEW T, NEW n \in Nat \ {0}, NEW a \in [1 .. n -> T], NEW b \in [1 .. n -> T],
           NEW pairs, PairsUp(pairs, n, a, b)
    PROVE  /\ FlattenSeq(pairs) \in Seq(T)
           /\ Alternates(FlattenSeq(pairs), n, a, b)
<1> DEFINE step(g) == [i \in 1 .. Len(pairs) |-> IF i = 1 THEN pairs[i] ELSE g[i - 1] \o pairs[i]]
           flat  == CHOOSE g : g = step(g)
           upto(i) == [j \in 1 .. 2 * i |-> IF j % 2 = 1 THEN a[(j + 1) \div 2] ELSE b[j \div 2]]
           merged == [i \in 1 .. n |-> upto(i)]
<1>1. ASSUME NEW i \in 1 .. n
      PROVE  /\ pairs[i] \in Seq(T) /\ Len(pairs[i]) = 2
             /\ pairs[i][1] = a[i] /\ pairs[i][2] = b[i]
  <2>1. a[i] \in T /\ b[i] \in T /\ pairs[i] = <<a[i], b[i]>>
    BY DEF PairsUp
  <2> QED
    BY <2>1, PairIsList
<1>2. Len(pairs) = n
  BY DEF PairsUp
<1>3. ASSUME NEW i \in 1 .. n
      PROVE  /\ upto(i) \in Seq(T) /\ Len(upto(i)) = 2 * i
             /\ \A j \in 1 .. 2 * i : upto(i)[j] = IF j % 2 = 1 THEN a[(j + 1) \div 2] ELSE b[j \div 2]
  <2>1. \A j \in 1 .. 2 * i : (j % 2 = 1 => (j + 1) \div 2 \in 1 .. n) /\ (j % 2 # 1 => j \div 2 \in 1 .. n)
    OBVIOUS
  <2>2. upto(i) \in [1 .. 2 * i -> T]
    BY <2>1
  <2>3. 2 * i \in Nat
    OBVIOUS
  <2> QED
    BY <2>2, <2>3
<1>4. \A i \in 2 .. n : merged[i - 1] = upto(i - 1)
  OBVIOUS
<1>5. \A i \in 1 .. n : merged[i] = upto(i)
  OBVIOUS
<1> HIDE DEF upto
<1>6. upto(1) = pairs[1]
  <2>1. 1 \in 1 .. n
    OBVIOUS
  <2>2. upto(1)[1] = a[1] /\ upto(1)[2] = b[1]
    BY <1>3, <2>1
  <2>3. upto(1) \in Seq(T) /\ Len(upto(1)) = 2
    <3>1. upto(1) \in Seq(T) /\ Len(upto(1)) = 2 * 1
      BY <1>3, <2>1
    <3> QED
      BY <3>1
  <2>4. pairs[1] \in Seq(T) /\ Len(pairs[1]) = 2 /\ pairs[1][1] = a[1] /\ pairs[1][2] = b[1]
    BY <1>1, <2>1
  <2>5. \A i \in 1 .. 2 : upto(1)[i] = pairs[1][i]
    BY <2>2, <2>4
  <2> QED
    BY <2>3, <2>4, <2>5, SeqEqual
<1>7. ASSUME NEW i \in 2 .. n PROVE upto(i) = upto(i - 1) \o pairs[i]
  <2>1. i \in 1 .. n /\ i - 1 \in 1 .. n
    OBVIOUS
  <2>2. /\ upto(i) \in Seq(T) /\ Len(upto(i)) = 2 * i
        /\ upto(i - 1) \in Seq(T) /\ Len(upto(i - 1)) = 2 * i - 2
    <3>1. 2 * (i - 1) = 2 * i - 2
      OBVIOUS
    <3> QED
      BY <1>3, <2>1, <3>1
  <2>3. pairs[i] \in Seq(T) /\ Len(pairs[i]) = 2 /\ pairs[i][1] = a[i] /\ pairs[i][2] = b[i]
    BY <1>1, <2>1
  <2>4. /\ upto(i - 1) \o pairs[i] \in Seq(T) /\ Len(upto(i - 1) \o pairs[i]) = 2 * i
        /\ \A j \in 1 .. 2 * i :
              (upto(i - 1) \o pairs[i])[j] =
                  IF j <= 2 * i - 2 THEN upto(i - 1)[j] ELSE pairs[i][j - (2 * i - 2)]
    <3>1. PICK u, v : u = upto(i - 1) /\ v = pairs[i]
      OBVIOUS
    <3>2. u \in Seq(T) /\ v \in Seq(T) /\ Len(u) = 2 * i - 2 /\ Len(v) = 2
      BY <2>2, <2>3, <3>1
    <3>3. Len(u) + Len(v) = 2 * i
      BY <3>2
    <3>4. /\ u \o v \in Seq(T) /\ Len(u \o v) = Len(u) + Len(v)
          /\ \A j \in 1 .. Len(u) + Len(v) : (u \o v)[j] = IF j <= Len(u) THEN u[j] ELSE v[j - Len(u)]
      BY <3>2, ConcatProperties
    <3> QED
      BY <3>1, <3>2, <3>3, <3>4
  <2>5. ASSUME NEW j \in 1 .. 2 * i PROVE upto(i)[j] = (upto(i - 1) \o pairs[i])[j]
    <3>1. upto(i)[j] = IF j % 2 = 1 THEN a[(j + 1) \div 2] ELSE b[j \div 2]
      BY <1>3, <2>1
    <3>2. CASE j <= 2 * i - 2
      <4>1. j \in 1 .. 2 * (i - 1)
        BY <3>2
      <4> QED
        BY <1>3, <2>1, <2>4, <3>1, <3>2, <4>1
    <3>3. CASE j = 2 * i - 1
      <4>1. j % 2 = 1 /\ (j + 1) \div 2 = i /\ j - (2 * i - 2) = 1 /\ ~ (j <= 2 * i - 2)
        BY <3>3
      <4> QED
        BY <2>3, <2>4, <3>1, <3>3, <4>1
    <3>4. CASE j = 2 * i
      <4>1. j % 2 # 1 /\ j \div 2 = i /\ j - (2 * i - 2) = 2 /\ ~ (j <= 2 * i - 2)
        BY <3>4
      <4> QED
        BY <2>3, <2>4, <3>1, <3>4, <4>1
    <3>5. j <= 2 * i - 2 \/ j = 2 * i - 1 \/ j = 2 * i
      OBVIOUS
    <3> QED
      BY <3>2, <3>3, <3>4, <3>5
  <2> QED
    BY <2>2, <2>4, <2>5, SeqEqual
<1>8. merged = step(merged)
  <2>1. ASSUME NEW i \in 1 .. n PROVE merged[i] = IF i = 1 THEN pairs[i] ELSE merged[i - 1] \o pairs[i]
    <3>1. CASE i = 1
      BY <1>5, <1>6, <3>1
    <3>2. CASE i # 1
      <4>1. i \in 2 .. n
        BY <3>2
      <4> HIDE DEF merged
      <4> QED
        BY <1>4, <1>5, <1>7, <3>2, <4>1
    <3> QED
      BY <3>1, <3>2
  <2>2. merged = [i \in 1 .. n |-> merged[i]]
    OBVIOUS
  <2> HIDE DEF merged
  <2> QED
    BY <1>2, <2>1, <2>2
<1>9. flat = step(flat)
  <2> HIDE DEF merged, step
  <2> QED
    BY <1>8
<1> HIDE DEF flat
<1>10. \A i \in 1 .. n : flat[i] = IF i = 1 THEN pairs[i] ELSE flat[i - 1] \o pairs[i]
  BY <1>2, <1>9
<1>11. flat[n] = upto(n)
  <2> DEFINE Wrong == {i \in 1 .. n : flat[i] # upto(i)}
  <2>1. Wrong \in SUBSET Nat
    OBVIOUS
  <2>2. ASSUME Wrong # {} PROVE FALSE
    <3>1. PICK i \in Wrong : \A j \in Wrong : i <= j
      <4> HIDE DEF Wrong
      <4> QED
        BY <2>1, <2>2, LeastOf
    <3>2. i = 1 \/ (i \in 2 .. n /\ flat[i - 1] = upto(i - 1))
      BY <3>1
    <3> QED
      BY <1>6, <1>7, <1>10, <3>1, <3>2
  <2> QED
    BY <2>2
<1>12. FlattenSeq(pairs) = flat[n]
  BY <1>2 DEF FlattenSeq, flat
<1>13. \A j \in 1 .. n : upto(n)[2 * j - 1] = a[j] /\ upto(n)[2 * j] = b[j]
  <2> TAKE j \in 1 .. n
  <2>1. /\ 2 * j - 1 \in 1 .. 2 * n /\ (2 * j - 1) % 2 = 1 /\ (2 * j - 1 + 1) \div 2 = j
        /\ 2 * j \in 1 .. 2 * n /\ (2 * j) % 2 # 1 /\ (2 * j) \div 2 = j
    OBVIOUS
  <2> QED
    BY <1>3, <2>1
<1>14. upto(n) \in Seq(T) /\ Len(upto(n)) = 2 * n
  BY <1>3
<1> QED
  BY <1>11, <1>12, <1>13, <1>14 DEF Alternates

Joins(w, u, v) ==
    /\ Len(w) = Len(u) + Len(v)
    /\ \A i \in 1 .. Len(u) : w[i] = u[i]
    /\ \A i \in 1 .. Len(v) : w[Len(u) + i] = v[i]

(* A concatenation has its parts in their order.                           *)
LEMMA Joined ==
    ASSUME NEW T, NEW u \in Seq(T), NEW v \in Seq(T)
    PROVE  u \o v \in Seq(T) /\ Joins(u \o v, u, v)
<1>1. Len(u) \in Nat /\ Len(v) \in Nat
  OBVIOUS
<1>2. /\ u \o v \in Seq(T) /\ Len(u \o v) = Len(u) + Len(v)
      /\ \A j \in 1 .. Len(u) + Len(v) : (u \o v)[j] = IF j <= Len(u) THEN u[j] ELSE v[j - Len(u)]
  BY ConcatProperties
<1>3. ASSUME NEW i \in 1 .. Len(v) PROVE (u \o v)[Len(u) + i] = v[i]
  <2>1. Len(u) + i \in 1 .. Len(u) + Len(v) /\ ~ (Len(u) + i <= Len(u)) /\ (Len(u) + i) - Len(u) = i
    BY <1>1
  <2> QED
    BY <1>2, <2>1
<1> QED
  BY <1>1, <1>2, <1>3 DEF Joins

Retrievals == Len(RetrievalOrder)

(* There are retrievals, their sources are names, one of them the          *)
(* demographics.                                                           *)
LEMMA RetrievalFacts ==
    /\ Retrievals \in Nat \ {0} /\ DOMAIN RetrievalOrder = 1 .. Retrievals
    /\ \A i \in 1 .. Retrievals : RetrievalOrder[i] \in STRING
    /\ \E i \in 1 .. Retrievals : RetrievalOrder[i] = Demographics
<1>1. Retrievals \in Nat /\ DOMAIN RetrievalOrder = 1 .. Retrievals
  BY RetrievalAssumption DEF Retrievals
<1> QED
  BY <1>1, RetrievalAssumption DEF Retrievals

(* The data_retrieval node, position by position.                          *)
LEMMA DataRetrievalNodeIs ==
    LET n == Retrievals
        T == {CallTool("data_retrieval", RetrievalOrder[i]) : i \in 1 .. n}
             \cup {RetrieveData("data_retrieval", RetrievalOrder[i]) : i \in 1 .. n}
             \cup {InvokeAgent("data_retrieval"), Handoff("data_retrieval", "scoring")}
        d == DataRetrievalNode
    IN  /\ d \in Seq(T) /\ Len(d) = 2 * n + 2
        /\ d[1] = InvokeAgent("data_retrieval")
        /\ \A i \in 1 .. n : /\ d[2 * i] = CallTool("data_retrieval", RetrievalOrder[i])
                             /\ d[2 * i + 1] = RetrieveData("data_retrieval", RetrievalOrder[i])
        /\ d[2 * n + 2] = Handoff("data_retrieval", "scoring")
<1> DEFINE n == Retrievals
           A == {CallTool("data_retrieval", RetrievalOrder[i]) : i \in 1 .. n}
           B == {RetrieveData("data_retrieval", RetrievalOrder[i]) : i \in 1 .. n}
           T == A \cup B \cup {InvokeAgent("data_retrieval"), Handoff("data_retrieval", "scoring")}
           a == [i \in 1 .. n |-> CallTool("data_retrieval", RetrievalOrder[i])]
           b == [i \in 1 .. n |-> RetrieveData("data_retrieval", RetrievalOrder[i])]
           first == <<InvokeAgent("data_retrieval")>>
           last  == <<Handoff("data_retrieval", "scoring")>>
           pairs == [i \in 1 .. n |-> <<a[i], b[i]>>]
           middle == FlattenSeq(pairs)
<1>1. n \in Nat \ {0}
  BY RetrievalFacts
<1>2. a \in [1 .. n -> T] /\ b \in [1 .. n -> T]
  OBVIOUS
<1>3. DataRetrievalNode = first \o middle \o last
  BY RetrievalFacts DEF DataRetrievalNode
<1>4. first \in Seq(T) /\ Len(first) = 1 /\ first[1] = InvokeAgent("data_retrieval")
  OBVIOUS
<1>5. last \in Seq(T) /\ Len(last) = 1 /\ last[1] = Handoff("data_retrieval", "scoring")
  OBVIOUS
<1>6. \A i \in 1 .. n : /\ a[i] = CallTool("data_retrieval", RetrievalOrder[i])
                        /\ b[i] = RetrieveData("data_retrieval", RetrievalOrder[i])
  OBVIOUS
<1> HIDE DEF a, b, T, first, last, n
<1>7. middle \in Seq(T) /\ Alternates(middle, n, a, b)
  <2>1. PairsUp(pairs, n, a, b)
    BY <1>1 DEF PairsUp
  <2> HIDE DEF pairs
  <2> QED
    BY <1>1, <1>2, <2>1, FlattenPairs
<1> HIDE DEF middle
<1>8. PICK w \in Seq(T) : w = first \o middle /\ Joins(w, first, middle)
  BY <1>4, <1>7, Joined
<1>9. w \o last \in Seq(T) /\ Joins(w \o last, w, last)
  BY <1>5, Joined
<1>10. /\ Len(w) = 1 + 2 * n /\ w[1] = first[1]
       /\ \A i \in 1 .. 2 * n : w[1 + i] = middle[i]
       /\ Len(w \o last) = (1 + 2 * n) + 1
       /\ \A i \in 1 .. 1 + 2 * n : (w \o last)[i] = w[i]
       /\ (w \o last)[(1 + 2 * n) + 1] = last[1]
  BY <1>1, <1>4, <1>5, <1>7, <1>8, <1>9 DEF Joins, Alternates
<1>11. DataRetrievalNode = w \o last
  BY <1>3, <1>8
<1>12. (1 + 2 * n) + 1 = 2 * n + 2 /\ 1 \in 1 .. 1 + 2 * n
  BY <1>1
<1>13. ASSUME NEW i \in 1 .. n
       PROVE  /\ DataRetrievalNode[2 * i] = CallTool("data_retrieval", RetrievalOrder[i])
              /\ DataRetrievalNode[2 * i + 1] = RetrieveData("data_retrieval", RetrievalOrder[i])
  <2>1. /\ 2 * i \in 1 .. 1 + 2 * n /\ 2 * i + 1 \in 1 .. 1 + 2 * n
        /\ 2 * i - 1 \in 1 .. 2 * n /\ 2 * i \in 1 .. 2 * n
        /\ 1 + (2 * i - 1) = 2 * i /\ 1 + 2 * i = 2 * i + 1
    BY <1>1
  <2>2. w[2 * i] = middle[2 * i - 1] /\ w[2 * i + 1] = middle[2 * i]
    BY <1>10, <2>1
  <2>3. (w \o last)[2 * i] = w[2 * i] /\ (w \o last)[2 * i + 1] = w[2 * i + 1]
    BY <1>10, <2>1
  <2> QED
    BY <1>6, <1>7, <1>11, <2>2, <2>3 DEF Alternates
<1>14. DataRetrievalNode[1] = InvokeAgent("data_retrieval")
  BY <1>4, <1>10, <1>11, <1>12
<1>15. DataRetrievalNode[2 * n + 2] = Handoff("data_retrieval", "scoring")
  BY <1>5, <1>10, <1>11, <1>12
<1> QED
  BY <1>9, <1>10, <1>11, <1>12, <1>13, <1>14, <1>15 DEF T, n

IsScript(s, a) ==
    LET n == Retrievals
        R(i) == RetrievalOrder[i]
    IN  /\ DOMAIN s = 1 .. 2 * n + 20 /\ Len(s) = 2 * n + 20
        /\ s[1] = SessionStartEvent
        /\ s[2] = InvokeAgent("intake") /\ s[3] = CallLLM("intake") /\ s[4] = Reasoning("intake")
        /\ s[5] = Handoff("intake", "data_retrieval")
        /\ s[6] = InvokeAgent("data_retrieval")
        /\ \A i \in 1 .. n : /\ s[2 * i + 5] = CallTool("data_retrieval", R(i))
                             /\ s[2 * i + 6] = RetrieveData("data_retrieval", R(i))
        /\ s[2 * n + 7] = Handoff("data_retrieval", "scoring")
        /\ s[2 * n + 8] = InvokeAgent("scoring") /\ s[2 * n + 9] = CallTool("scoring", "risk_scorecard")
        /\ s[2 * n + 10] = CallLLM("scoring") /\ s[2 * n + 11] = Reasoning("scoring")
        /\ s[2 * n + 12] = Handoff("scoring", "adjudication")
        /\ s[2 * n + 13] = InvokeAgent("adjudication") /\ s[2 * n + 14] = CallLLM("adjudication")
        /\ s[2 * n + 15] = RequestApproval("adjudication") /\ s[2 * n + 16] = ApprovalVerdict(a)
        /\ s[2 * n + 17] = MakeDecision("adjudication", a)
        /\ s[2 * n + 18] = FinalReasoning("adjudication")
        /\ s[2 * n + 19] = NotifyApplicant("adjudication")
        /\ s[2 * n + 20] = SessionEndEvent

(* The script of a session, position by position.                          *)
LEMMA ScriptIs == ASSUME NEW a PROVE IsScript(CreditScript(a), a)
<1> DEFINE n  == Retrievals
           TD == {CallTool("data_retrieval", RetrievalOrder[i]) : i \in 1 .. n}
                 \cup {RetrieveData("data_retrieval", RetrievalOrder[i]) : i \in 1 .. n}
                 \cup {InvokeAgent("data_retrieval"), Handoff("data_retrieval", "scoring")}
           T  == TD \cup {SessionStartEvent, SessionEndEvent,
                    InvokeAgent("intake"), CallLLM("intake"), Reasoning("intake"),
                    Handoff("intake", "data_retrieval"),
                    InvokeAgent("scoring"), CallTool("scoring", "risk_scorecard"), CallLLM("scoring"),
                    Reasoning("scoring"), Handoff("scoring", "adjudication"),
                    InvokeAgent("adjudication"), CallLLM("adjudication"),
                    RequestApproval("adjudication"), ApprovalVerdict(a),
                    MakeDecision("adjudication", a), FinalReasoning("adjudication"),
                    NotifyApplicant("adjudication")}
           first == <<SessionStartEvent>>
           last  == <<SessionEndEvent>>
<1>1. n \in Nat \ {0}
  BY RetrievalFacts
<1>2. first \in Seq(T) /\ Len(first) = 1 /\ first[1] = SessionStartEvent
  <2>1. SessionStartEvent \in T
    OBVIOUS
  <2> HIDE DEF T
  <2> QED
    BY <2>1
<1>3. last \in Seq(T) /\ Len(last) = 1 /\ last[1] = SessionEndEvent
  <2>1. SessionEndEvent \in T
    OBVIOUS
  <2> HIDE DEF T
  <2> QED
    BY <2>1
<1>4. /\ IntakeNode \in Seq(T) /\ Len(IntakeNode) = 4
      /\ IntakeNode[1] = InvokeAgent("intake") /\ IntakeNode[2] = CallLLM("intake")
      /\ IntakeNode[3] = Reasoning("intake") /\ IntakeNode[4] = Handoff("intake", "data_retrieval")
  <2>1. /\ InvokeAgent("intake") \in T /\ CallLLM("intake") \in T /\ Reasoning("intake") \in T
        /\ Handoff("intake", "data_retrieval") \in T
    OBVIOUS
  <2> HIDE DEF T
  <2> QED
    BY <2>1 DEF IntakeNode
<1>5. /\ ScoringNode \in Seq(T) /\ Len(ScoringNode) = 5
      /\ ScoringNode[1] = InvokeAgent("scoring") /\ ScoringNode[2] = CallTool("scoring", "risk_scorecard")
      /\ ScoringNode[3] = CallLLM("scoring") /\ ScoringNode[4] = Reasoning("scoring")
      /\ ScoringNode[5] = Handoff("scoring", "adjudication")
  <2>1. /\ InvokeAgent("scoring") \in T /\ CallTool("scoring", "risk_scorecard") \in T
        /\ CallLLM("scoring") \in T /\ Reasoning("scoring") \in T /\ Handoff("scoring", "adjudication") \in T
    OBVIOUS
  <2> HIDE DEF T
  <2> QED
    BY <2>1 DEF ScoringNode
<1>6. /\ AdjudicationNode(a) \in Seq(T) /\ Len(AdjudicationNode(a)) = 7
      /\ AdjudicationNode(a)[1] = InvokeAgent("adjudication")
      /\ AdjudicationNode(a)[2] = CallLLM("adjudication")
      /\ AdjudicationNode(a)[3] = RequestApproval("adjudication")
      /\ AdjudicationNode(a)[4] = ApprovalVerdict(a)
      /\ AdjudicationNode(a)[5] = MakeDecision("adjudication", a)
      /\ AdjudicationNode(a)[6] = FinalReasoning("adjudication")
      /\ AdjudicationNode(a)[7] = NotifyApplicant("adjudication")
  <2>1. /\ InvokeAgent("adjudication") \in T /\ CallLLM("adjudication") \in T
        /\ RequestApproval("adjudication") \in T /\ ApprovalVerdict(a) \in T
        /\ MakeDecision("adjudication", a) \in T /\ FinalReasoning("adjudication") \in T
        /\ NotifyApplicant("adjudication") \in T
    OBVIOUS
  <2> HIDE DEF T
  <2> QED
    BY <2>1 DEF AdjudicationNode
<1>7. DataRetrievalNode \in Seq(T)
  <2>1. DataRetrievalNode \in Seq(TD) /\ TD \subseteq T
    BY DataRetrievalNodeIs
  <2> HIDE DEF TD, T
  <2> QED
    BY <2>1, SeqMonotonic
<1>8. CreditScript(a) = first \o IntakeNode \o DataRetrievalNode \o ScoringNode \o AdjudicationNode(a) \o last
  BY DEF CreditScript
<1> HIDE DEF T, TD, first, last
<1>9. PICK u \in Seq(T) : u = first \o IntakeNode /\ Joins(u, first, IntakeNode)
  BY <1>2, <1>4, Joined
<1>10. PICK v \in Seq(T) : v = u \o DataRetrievalNode /\ Joins(v, u, DataRetrievalNode)
  BY <1>7, Joined
<1>11. PICK w \in Seq(T) : w = v \o ScoringNode /\ Joins(w, v, ScoringNode)
  BY <1>5, Joined
<1>12. PICK x \in Seq(T) : x = w \o AdjudicationNode(a) /\ Joins(x, w, AdjudicationNode(a))
  BY <1>6, Joined
<1>13. PICK s \in Seq(T) : s = x \o last /\ Joins(s, x, last)
  BY <1>3, Joined
<1>14. CreditScript(a) = s
  BY <1>8, <1>9, <1>10, <1>11, <1>12, <1>13
<1>15. Len(u) = 5 /\ Len(v) = 2 * n + 7 /\ Len(w) = 2 * n + 12 /\ Len(x) = 2 * n + 19 /\ Len(s) = 2 * n + 20
  <2>1. Len(u) = 5
    BY <1>2, <1>4, <1>9 DEF Joins
  <2>2. Len(v) = 2 * n + 7
    BY <1>1, <1>10, <2>1, DataRetrievalNodeIs DEF Joins
  <2>3. Len(w) = 2 * n + 12
    BY <1>1, <1>5, <1>11, <2>2 DEF Joins
  <2>4. Len(x) = 2 * n + 19
    BY <1>1, <1>6, <1>12, <2>3 DEF Joins
  <2>5. Len(s) = 2 * n + 20
    BY <1>1, <1>3, <1>13, <2>4 DEF Joins
  <2> QED
    BY <2>1, <2>2, <2>3, <2>4, <2>5
<1>16. /\ \A i \in 1 .. 2 * n + 19 : s[i] = x[i]
       /\ \A i \in 1 .. 2 * n + 12 : s[i] = w[i]
       /\ \A i \in 1 .. 2 * n + 7 : s[i] = v[i]
       /\ \A i \in 1 .. 5 : s[i] = u[i]
  <2>1. \A i \in 1 .. 2 * n + 19 : s[i] = x[i]
    BY <1>13, <1>15 DEF Joins
  <2>2. \A i \in 1 .. 2 * n + 12 : s[i] = w[i]
    BY <1>1, <1>12, <1>15, <2>1 DEF Joins
  <2>3. \A i \in 1 .. 2 * n + 7 : s[i] = v[i]
    BY <1>1, <1>11, <1>15, <2>2 DEF Joins
  <2>4. \A i \in 1 .. 5 : s[i] = u[i]
    BY <1>1, <1>10, <1>15, <2>3 DEF Joins
  <2> QED
    BY <2>1, <2>2, <2>3, <2>4
<1>17. /\ s[1] = SessionStartEvent /\ s[2] = IntakeNode[1] /\ s[3] = IntakeNode[2]
       /\ s[4] = IntakeNode[3] /\ s[5] = IntakeNode[4]
  <2>1. u[1] = first[1] /\ \A i \in 1 .. 4 : u[1 + i] = IntakeNode[i]
    BY <1>2, <1>4, <1>9 DEF Joins
  <2>2. u[1 + 1] = IntakeNode[1] /\ u[1 + 2] = IntakeNode[2] /\ u[1 + 3] = IntakeNode[3] /\ u[1 + 4] = IntakeNode[4]
    BY <2>1
  <2> QED
    BY <1>2, <1>16, <2>1, <2>2
<1>18. \A i \in 1 .. 2 * n + 2 : s[5 + i] = DataRetrievalNode[i]
  <2> TAKE i \in 1 .. 2 * n + 2
  <2>1. Len(DataRetrievalNode) = 2 * n + 2
    BY DataRetrievalNodeIs
  <2>2. v[5 + i] = DataRetrievalNode[i]
    BY <1>10, <1>15, <2>1 DEF Joins
  <2>3. 5 + i \in 1 .. 2 * n + 7
    BY <1>1
  <2> QED
    BY <1>16, <2>2, <2>3
<1>19. \A i \in 1 .. 5 : s[2 * n + 7 + i] = ScoringNode[i]
  <2> TAKE i \in 1 .. 5
  <2>1. w[2 * n + 7 + i] = ScoringNode[i]
    BY <1>5, <1>11, <1>15 DEF Joins
  <2>2. 2 * n + 7 + i \in 1 .. 2 * n + 12
    BY <1>1
  <2> QED
    BY <1>16, <2>1, <2>2
<1>20. \A i \in 1 .. 7 : s[2 * n + 12 + i] = AdjudicationNode(a)[i]
  <2> TAKE i \in 1 .. 7
  <2>1. x[2 * n + 12 + i] = AdjudicationNode(a)[i]
    BY <1>6, <1>12, <1>15 DEF Joins
  <2>2. 2 * n + 12 + i \in 1 .. 2 * n + 19
    BY <1>1
  <2> QED
    BY <1>16, <2>1, <2>2
<1>21. s[2 * n + 20] = SessionEndEvent
  <2>1. s[(2 * n + 19) + 1] = last[1]
    BY <1>3, <1>13, <1>15 DEF Joins
  <2>2. (2 * n + 19) + 1 = 2 * n + 20
    BY <1>1
  <2> QED
    BY <1>3, <2>1, <2>2
<1>22. /\ DOMAIN s = 1 .. 2 * n + 20
       /\ s[6] = InvokeAgent("data_retrieval") /\ s[2 * n + 7] = Handoff("data_retrieval", "scoring")
  <2>1. 5 + 1 = 6 /\ 5 + (2 * n + 2) = 2 * n + 7 /\ 1 \in 1 .. 2 * n + 2 /\ 2 * n + 2 \in 1 .. 2 * n + 2
    BY <1>1
  <2>2. s[5 + 1] = DataRetrievalNode[1] /\ s[5 + (2 * n + 2)] = DataRetrievalNode[2 * n + 2]
    BY <1>18, <2>1
  <2> QED
    BY <1>15, <2>1, <2>2, DataRetrievalNodeIs
<1>23. ASSUME NEW i \in 1 .. n
       PROVE  /\ s[2 * i + 5] = CallTool("data_retrieval", RetrievalOrder[i])
              /\ s[2 * i + 6] = RetrieveData("data_retrieval", RetrievalOrder[i])
  <2>1. /\ 2 * i \in 1 .. 2 * n + 2 /\ 2 * i + 1 \in 1 .. 2 * n + 2
        /\ 5 + 2 * i = 2 * i + 5 /\ 5 + (2 * i + 1) = 2 * i + 6
    BY <1>1
  <2>2. s[5 + 2 * i] = DataRetrievalNode[2 * i] /\ s[5 + (2 * i + 1)] = DataRetrievalNode[2 * i + 1]
    BY <1>18, <2>1
  <2>3. /\ DataRetrievalNode[2 * i] = CallTool("data_retrieval", RetrievalOrder[i])
        /\ DataRetrievalNode[2 * i + 1] = RetrieveData("data_retrieval", RetrievalOrder[i])
    BY DataRetrievalNodeIs
  <2> QED
    BY <2>1, <2>2, <2>3
<1>24. /\ s[2 * n + 8] = ScoringNode[1] /\ s[2 * n + 9] = ScoringNode[2]
       /\ s[2 * n + 10] = ScoringNode[3] /\ s[2 * n + 11] = ScoringNode[4]
       /\ s[2 * n + 12] = ScoringNode[5]
  <2>1. /\ s[2 * n + 7 + 1] = ScoringNode[1] /\ s[2 * n + 7 + 2] = ScoringNode[2]
        /\ s[2 * n + 7 + 3] = ScoringNode[3] /\ s[2 * n + 7 + 4] = ScoringNode[4]
        /\ s[2 * n + 7 + 5] = ScoringNode[5]
    BY <1>19
  <2>2. /\ 2 * n + 7 + 1 = 2 * n + 8 /\ 2 * n + 7 + 2 = 2 * n + 9 /\ 2 * n + 7 + 3 = 2 * n + 10
        /\ 2 * n + 7 + 4 = 2 * n + 11 /\ 2 * n + 7 + 5 = 2 * n + 12
    BY <1>1
  <2> QED
    BY <2>1, <2>2
<1>25. /\ s[2 * n + 13] = AdjudicationNode(a)[1] /\ s[2 * n + 14] = AdjudicationNode(a)[2]
       /\ s[2 * n + 15] = AdjudicationNode(a)[3] /\ s[2 * n + 16] = AdjudicationNode(a)[4]
       /\ s[2 * n + 17] = AdjudicationNode(a)[5] /\ s[2 * n + 18] = AdjudicationNode(a)[6]
       /\ s[2 * n + 19] = AdjudicationNode(a)[7]
  <2>1. /\ s[2 * n + 12 + 1] = AdjudicationNode(a)[1] /\ s[2 * n + 12 + 2] = AdjudicationNode(a)[2]
        /\ s[2 * n + 12 + 3] = AdjudicationNode(a)[3] /\ s[2 * n + 12 + 4] = AdjudicationNode(a)[4]
        /\ s[2 * n + 12 + 5] = AdjudicationNode(a)[5] /\ s[2 * n + 12 + 6] = AdjudicationNode(a)[6]
        /\ s[2 * n + 12 + 7] = AdjudicationNode(a)[7]
    BY <1>20
  <2>2. /\ 2 * n + 12 + 1 = 2 * n + 13 /\ 2 * n + 12 + 2 = 2 * n + 14 /\ 2 * n + 12 + 3 = 2 * n + 15
        /\ 2 * n + 12 + 4 = 2 * n + 16 /\ 2 * n + 12 + 5 = 2 * n + 17 /\ 2 * n + 12 + 6 = 2 * n + 18
        /\ 2 * n + 12 + 7 = 2 * n + 19
    BY <1>1
  <2> QED
    BY <2>1, <2>2
<1> QED
  BY <1>4, <1>5, <1>6, <1>14, <1>15, <1>17, <1>21, <1>22, <1>23, <1>24, <1>25 DEF IsScript

-----------------------------------------------------------------------------
(* The types of the events of a script, by position.                       *)
LEMMA EventTypes ==
    ASSUME NEW role, NEW name, NEW a
    PROVE  /\ SessionStartEvent.type = "session_start" /\ SessionEndEvent.type = "session_end"
           /\ InvokeAgent(role).type = "invoke_agent" /\ InvokeAgent(role).actor = Agent(role)
           /\ CallLLM(role).type = "call_llm" /\ CallTool(role, name).type = "call_tool"
           /\ RetrieveData(role, name).type = "retrieve_data"
           /\ Reasoning(role).type = "emit_reasoning" /\ FinalReasoning(role).type = "emit_reasoning"
           /\ Handoff(role, name).type = "handoff"
           /\ RequestApproval(role).type = "request_approval"
           /\ ApprovalVerdict(a).type = IF a.granted THEN "grant_approval" ELSE "deny_approval"
           /\ MakeDecision(role, a).type = "make_decision"
           /\ NotifyApplicant(role).type = "notify_applicant"
<1>1. SessionStartEvent.type = "session_start" /\ SessionEndEvent.type = "session_end"
  BY DEF SessionStartEvent, SessionEndEvent, Event
<1>2. InvokeAgent(role).type = "invoke_agent" /\ InvokeAgent(role).actor = Agent(role)
  BY DEF InvokeAgent, Event
<1>3. CallLLM(role).type = "call_llm" /\ CallTool(role, name).type = "call_tool"
  BY DEF CallLLM, CallTool, Event
<1>4. RetrieveData(role, name).type = "retrieve_data"
  BY DEF RetrieveData, Event
<1>5. Reasoning(role).type = "emit_reasoning" /\ FinalReasoning(role).type = "emit_reasoning"
  BY DEF Reasoning, FinalReasoning, Event
<1>6. Handoff(role, name).type = "handoff"
  BY DEF Handoff, Event
<1>7. RequestApproval(role).type = "request_approval"
  BY DEF RequestApproval, Event
<1>8. ApprovalVerdict(a).type = IF a.granted THEN "grant_approval" ELSE "deny_approval"
  BY DEF ApprovalVerdict, Event
<1>9. MakeDecision(role, a).type = "make_decision"
  BY DEF MakeDecision, Event
<1>10. NotifyApplicant(role).type = "notify_applicant"
  BY DEF NotifyApplicant, Event
<1> QED
  BY <1>1, <1>2, <1>3, <1>4, <1>5, <1>6, <1>7, <1>8, <1>9, <1>10

(* The type an event at position k of a script has, and the others.        *)
TypeFits(type, k) ==
    LET n == Retrievals
    IN  /\ type = "session_start" <=> k = 1
        /\ type = "invoke_agent" <=> k \in {2, 6, 2 * n + 8, 2 * n + 13}
        /\ type = "handoff" <=> k \in {5, 2 * n + 7, 2 * n + 12}
        /\ type = "call_tool" <=> k = 2 * n + 9 \/ \E i \in 1 .. n : k = 2 * i + 5
        /\ type = "retrieve_data" <=> \E i \in 1 .. n : k = 2 * i + 6
        /\ type = "emit_reasoning" <=> k \in {4, 2 * n + 11, 2 * n + 18}
        /\ type = "request_approval" <=> k = 2 * n + 15
        /\ type = "make_decision" <=> k = 2 * n + 17
        /\ type \in VerdictTypes <=> k = 2 * n + 16

(* The positions of a script: before, in and after the retrievals.         *)
LEMMA ScriptPositions ==
    ASSUME NEW k \in 1 .. 2 * Retrievals + 20
    PROVE  \/ k \in 1 .. 6
           \/ \E i \in 1 .. Retrievals : k = 2 * i + 5 \/ k = 2 * i + 6
           \/ \E j \in 7 .. 20 : k = 2 * Retrievals + j
<1>1. Retrievals \in Nat \ {0}
  BY RetrievalFacts
<1>2. CASE k \in 7 .. 2 * Retrievals + 6
  <2> DEFINE i == (k - 5) \div 2
  <2>1. i \in 1 .. Retrievals /\ (k = 2 * i + 5 \/ k = 2 * i + 6)
    BY <1>1, <1>2
  <2> QED
    BY <2>1
<1>3. CASE k \in 2 * Retrievals + 7 .. 2 * Retrievals + 20
  <2> DEFINE j == k - 2 * Retrievals
  <2>1. j \in 7 .. 20 /\ k = 2 * Retrievals + j
    BY <1>1, <1>3
  <2> QED
    BY <2>1
<1> QED
  BY <1>1, <1>2, <1>3

(* The event types of a script, by position.                               *)
LEMMA ScriptTypes ==
    ASSUME NEW a \in Applicants, NEW s, IsScript(s, a)
    PROVE  /\ \A k \in DOMAIN s : TypeFits(s[k].type, k)
           /\ a.granted => s[2 * Retrievals + 16].type = "grant_approval"
<1> DEFINE n == Retrievals
<1>1. n \in Nat \ {0} /\ \A i \in 1 .. n : RetrievalOrder[i] \in STRING
  BY RetrievalFacts
<1>2. /\ s[1].type = "session_start" /\ s[2].type = "invoke_agent" /\ s[3].type = "call_llm"
      /\ s[4].type = "emit_reasoning" /\ s[5].type = "handoff" /\ s[6].type = "invoke_agent"
  <2>1. /\ s[1] = SessionStartEvent
        /\ s[2] = InvokeAgent("intake") /\ s[3] = CallLLM("intake") /\ s[4] = Reasoning("intake")
        /\ s[5] = Handoff("intake", "data_retrieval") /\ s[6] = InvokeAgent("data_retrieval")
    BY DEF IsScript
  <2> QED
    BY <2>1, EventTypes
<1>3. ASSUME NEW i \in 1 .. n
      PROVE  s[2 * i + 5].type = "call_tool" /\ s[2 * i + 6].type = "retrieve_data"
  <2>1. /\ s[2 * i + 5] = CallTool("data_retrieval", RetrievalOrder[i])
        /\ s[2 * i + 6] = RetrieveData("data_retrieval", RetrievalOrder[i])
    BY DEF IsScript
  <2> QED
    BY <1>1, <2>1, EventTypes
<1>4. /\ s[2 * n + 7].type = "handoff" /\ s[2 * n + 8].type = "invoke_agent"
      /\ s[2 * n + 9].type = "call_tool" /\ s[2 * n + 10].type = "call_llm"
      /\ s[2 * n + 11].type = "emit_reasoning" /\ s[2 * n + 12].type = "handoff"
      /\ s[2 * n + 13].type = "invoke_agent"
  <2>1. /\ s[2 * n + 7] = Handoff("data_retrieval", "scoring")
        /\ s[2 * n + 8] = InvokeAgent("scoring") /\ s[2 * n + 9] = CallTool("scoring", "risk_scorecard")
        /\ s[2 * n + 10] = CallLLM("scoring") /\ s[2 * n + 11] = Reasoning("scoring")
        /\ s[2 * n + 12] = Handoff("scoring", "adjudication")
        /\ s[2 * n + 13] = InvokeAgent("adjudication")
    BY DEF IsScript
  <2> QED
    BY <2>1, EventTypes
<1>5. /\ s[2 * n + 14].type = "call_llm"
      /\ s[2 * n + 15].type = "request_approval"
      /\ s[2 * n + 16].type = IF a.granted THEN "grant_approval" ELSE "deny_approval"
      /\ s[2 * n + 17].type = "make_decision" /\ s[2 * n + 18].type = "emit_reasoning"
      /\ s[2 * n + 19].type = "notify_applicant" /\ s[2 * n + 20].type = "session_end"
  <2>1. /\ s[2 * n + 14] = CallLLM("adjudication")
        /\ s[2 * n + 15] = RequestApproval("adjudication") /\ s[2 * n + 16] = ApprovalVerdict(a)
        /\ s[2 * n + 17] = MakeDecision("adjudication", a)
        /\ s[2 * n + 18] = FinalReasoning("adjudication")
        /\ s[2 * n + 19] = NotifyApplicant("adjudication")
        /\ s[2 * n + 20] = SessionEndEvent
    BY DEF IsScript
  <2> QED
    BY <2>1, EventTypes
<1>6. DOMAIN s = 1 .. 2 * n + 20
  BY DEF IsScript
<1>7. a.granted \in BOOLEAN
  BY DEF Applicants
<1> HIDE DEF n
<1>8. ASSUME NEW k \in 1 .. 2 * n + 20
      PROVE  \/ k \in 1 .. 6
             \/ \E i \in 1 .. n : k = 2 * i + 5 \/ k = 2 * i + 6
             \/ \E j \in 7 .. 20 : k = 2 * n + j
  BY ScriptPositions DEF n
<1>9. ASSUME NEW k \in DOMAIN s PROVE TypeFits(s[k].type, k)
  <2>1. CASE k \in 1 .. 6
    <3>1. \A i \in 1 .. n : k # 2 * i + 5 /\ k # 2 * i + 6
      BY <1>1, <2>1
    <3>2. \A j \in 7 .. 20 : k # 2 * n + j
      BY <1>1, <2>1
    <3> QED
      BY <1>2, <2>1, <3>1, <3>2 DEF VerdictTypes, TypeFits, n
  <2>2. ASSUME NEW h \in 1 .. n, k = 2 * h + 5 PROVE TypeFits(s[k].type, k)
    <3>1. k \notin 1 .. 6 /\ (\A i \in 1 .. n : k # 2 * i + 6) /\ (\A j \in 7 .. 20 : k # 2 * n + j)
      BY <1>1, <2>2
    <3> QED
      BY <1>3, <2>2, <3>1 DEF VerdictTypes, TypeFits, n
  <2>3. ASSUME NEW h \in 1 .. n, k = 2 * h + 6 PROVE TypeFits(s[k].type, k)
    <3>1. k \notin 1 .. 6 /\ (\A i \in 1 .. n : k # 2 * i + 5) /\ (\A j \in 7 .. 20 : k # 2 * n + j)
      BY <1>1, <2>3
    <3> QED
      BY <1>3, <2>3, <3>1 DEF VerdictTypes, TypeFits, n
  <2>4. ASSUME NEW h \in 7 .. 20, k = 2 * n + h PROVE TypeFits(s[k].type, k)
    <3>1. k \notin 1 .. 6 /\ (\A i \in 1 .. n : k # 2 * i + 5 /\ k # 2 * i + 6)
      BY <1>1, <2>4
    <3>2. \A j \in 7 .. 20 : k = 2 * n + j <=> h = j
      BY <1>1, <2>4
    <3> QED
      BY <1>4, <1>5, <1>7, <2>4, <3>1, <3>2 DEF VerdictTypes, TypeFits, n
  <2> QED
    BY <1>6, <1>8, <2>1, <2>2, <2>3, <2>4
<1> QED
  BY <1>5, <1>9 DEF n

-----------------------------------------------------------------------------
Fields == {"id", "seq", "type", "time", "actor", "outcome", "count", "refs"}

(* What a reference of a script becomes in a session.                      *)
RefsOf(e, script, s) ==
    /\ \A r \in e.refs : /\ "obj" \in DOMAIN r
                         /\ \E q \in script.refs : r.obj = OwnedBy(q.obj, s) /\ r.qual = q.qual
    /\ \A q \in script.refs : \E r \in e.refs : r.obj = OwnedBy(q.obj, s) /\ r.qual = q.qual

(* A base trace follows the script of its applicant.                       *)
LEMMA BaseIsScript ==
    ASSUME NEW s, NEW a \in Applicants
    PROVE  LET t == BaseTrace(s, a)
           IN  /\ DOMAIN t = 1 .. 2 * Retrievals + 20 /\ Len(t) = 2 * Retrievals + 20
               /\ \A k \in DOMAIN t :
                     /\ DOMAIN t[k] = Fields /\ t[k].id = <<s, k>> /\ t[k].seq = k
                     /\ t[k].type = CreditScript(a)[k].type /\ t[k].actor = CreditScript(a)[k].actor
                     /\ RefsOf(t[k], CreditScript(a)[k], s)
<1> DEFINE script == CreditScript(a)
           Earlier(k) == UNION {Offers(script[j]) : j \in 1 .. k - 1}
           refs(k) == {SpanRef(r, r.obj \notin Earlier(k), s) : r \in script[k].refs}
           t == BaseTrace(s, a)
<1>1. DOMAIN script = 1 .. 2 * Retrievals + 20
  BY ScriptIs DEF IsScript
<1>2. DOMAIN t = DOMAIN script
  BY DEF BaseTrace
<1>3. 2 * Retrievals + 20 \in Nat
  BY RetrievalFacts
<1>4. Len(t) = 2 * Retrievals + 20
  <2>1. t = [k \in 1 .. 2 * Retrievals + 20 |-> t[k]]
    BY <1>1, <1>2 DEF BaseTrace
  <2> QED
    BY <1>3, <2>1
<1>5. ASSUME NEW k \in DOMAIN t
      PROVE  /\ DOMAIN t[k] = Fields /\ t[k].id = <<s, k>> /\ t[k].seq = k
             /\ t[k].type = script[k].type /\ t[k].actor = script[k].actor
             /\ t[k].refs = refs(k)
  BY <1>2, <1>5 DEF BaseTrace, Fields
<1>6. ASSUME NEW q, NEW fresh
      PROVE  /\ SpanRef(q, fresh, s).obj = OwnedBy(q.obj, s) /\ SpanRef(q, fresh, s).qual = q.qual
             /\ "obj" \in DOMAIN SpanRef(q, fresh, s)
  BY DEF SpanRef
<1>7. ASSUME NEW k \in DOMAIN t PROVE RefsOf(t[k], script[k], s)
  <2> HIDE DEF script, t, Earlier
  <2>1. t[k].refs = refs(k)
    BY <1>5
  <2> QED
    BY <1>6, <2>1 DEF RefsOf
<1> QED
  BY <1>1, <1>2, <1>4, <1>5, <1>7

(* Agents, resources and policies are shared by the sessions and told      *)
(* apart by their names.                                                   *)
LEMMA Owned ==
    ASSUME NEW s
    PROVE  /\ \A x : /\ OwnedBy(Agent(x), s) = Agent(x) /\ OwnedBy(Resource(x), s) = Resource(x)
                     /\ Agent(x).kind = "Agent" /\ Resource(x).kind = "DataResource" /\ Resource(x).id = x
           /\ OwnedBy(CurrentPolicy, s) = CurrentPolicy /\ OwnedBy(SupersededPolicy, s) = SupersededPolicy
           /\ CurrentPolicy.kind = "PolicyVersion" /\ SupersededPolicy.kind = "PolicyVersion"
           /\ CurrentPolicy # SupersededPolicy
           /\ \A x, y : Agent(x) = Agent(y) => x = y
<1>1. \A x : /\ OwnedBy(Agent(x), s) = Agent(x) /\ OwnedBy(Resource(x), s) = Resource(x)
             /\ Agent(x).kind = "Agent" /\ Resource(x).kind = "DataResource" /\ Resource(x).id = x
  BY DEF Agent, Resource, Obj, OwnedBy, SessionKinds
<1>2. /\ OwnedBy(CurrentPolicy, s) = CurrentPolicy /\ OwnedBy(SupersededPolicy, s) = SupersededPolicy
      /\ CurrentPolicy.kind = "PolicyVersion" /\ SupersededPolicy.kind = "PolicyVersion"
      /\ CurrentPolicy # SupersededPolicy
  BY DEF CurrentPolicy, SupersededPolicy, Obj, OwnedBy, SessionKinds
<1>3. \A x, y : Agent(x) = Agent(y) => x = y
  BY DEF Agent, Obj
<1> QED
  BY <1>1, <1>2, <1>3

(* A retrieval reads its resource and no other.                            *)
LEMMA RetrieveDataRefs ==
    ASSUME NEW role, NEW x
    PROVE  /\ \A q \in RetrieveData(role, x).refs : q.qual = "reads" => q.obj = Resource(x)
           /\ \E q \in RetrieveData(role, x).refs : q.qual = "reads" /\ q.obj = Resource(x)
<1>1. \A q \in RetrieveData(role, x).refs : q.qual = "reads" => q.obj = Resource(x)
  BY DEF RetrieveData, Event, MaybeDeclare, Concerns, Ref, PerformedBy, Within
<1> DEFINE q == MaybeDeclare("reads", Resource(x), ResourceFacts(x))
<1>2. q \in RetrieveData(role, x).refs
  BY DEF RetrieveData, Event
<1>3. q.qual = "reads" /\ q.obj = Resource(x)
  BY DEF MaybeDeclare
<1> QED
  BY <1>1, <1>2, <1>3

(* A handoff goes from its agent to the other.                             *)
LEMMA HandoffRefs ==
    ASSUME NEW role, NEW x
    PROVE  \A q \in Handoff(role, x).refs : /\ q.qual = "from" => q.obj = Agent(role)
                                            /\ q.qual = "to" => q.obj = Agent(x)
  BY DEF Handoff, Event, Concerns, Ref, Within

(* The final reasoning explains the decision.                              *)
LEMMA FinalReasoningRefs ==
    ASSUME NEW role
    PROVE  \E q \in FinalReasoning(role).refs : q.qual = "explains" /\ q.obj = Decision
<1> DEFINE q == Ref("explains", Decision)
<1>1. q \in FinalReasoning(role).refs
  BY DEF FinalReasoning, Reasoning, Event
<1>2. q.qual = "explains" /\ q.obj = Decision
  BY DEF Ref
<1> QED
  BY <1>1, <1>2

(* session_start references the superseded policy.                         *)
LEMMA SessionStartRefs == \E q \in SessionStartEvent.refs : q.obj = SupersededPolicy
<1> DEFINE q == Declare("", SupersededPolicy, {"effective_to"})
<1>1. q \in SessionStartEvent.refs
  BY DEF SessionStartEvent, Event
<1>2. q.obj = SupersededPolicy
  BY DEF Declare
<1> QED
  BY <1>1, <1>2

(* The only policy of a decision is the current one.                       *)
LEMMA MakeDecisionRefs ==
    ASSUME NEW role, NEW a, NEW s, NEW q \in MakeDecision(role, a).refs,
           OwnedBy(q.obj, s).kind = "PolicyVersion"
    PROVE  q.obj = CurrentPolicy
<1>1. MakeDecision(role, a).refs =
          {Declare("produces", Decision, IF Adverse(a) THEN {"reason_codes"} ELSE {}),
           Concerns(Application), Concerns(Applicant), Ref("governed_by", CurrentPolicy),
           PerformedBy(role), Concerns(Approval), Within}
  BY DEF MakeDecision, Event
<1>2. \A kind, id : OwnedBy(Obj(kind, id), s).kind = kind
  BY DEF Obj, OwnedBy
<1>3. /\ OwnedBy(Decision, s).kind = "CreditDecision" /\ OwnedBy(Application, s).kind = "Application"
      /\ OwnedBy(Applicant, s).kind = "Applicant" /\ OwnedBy(Agent(role), s).kind = "Agent"
      /\ OwnedBy(Approval, s).kind = "Approval" /\ OwnedBy(Session, s).kind = "Session"
  BY <1>2 DEF Decision, Application, Applicant, Agent, Approval, Session
<1>4. \/ q.obj = Decision \/ q.obj = Application \/ q.obj = Applicant \/ q.obj = Agent(role)
      \/ q.obj = Approval \/ q.obj = Session \/ q.obj = CurrentPolicy
  BY <1>1 DEF Declare, Concerns, Ref, PerformedBy, Within
<1> QED
  BY <1>3, <1>4

(* What the faults look for in the telemetry of a session.                 *)
LEMMA BaseHolds ==
    ASSUME NEW s, NEW a \in Applicants, NEW t, t = BaseTrace(s, a), NEW n, n = Retrievals
    PROVE  /\ \A i \in 1 .. n : \A r \in t[2 * i + 6].refs : r.qual = "reads" => r.obj = Resource(RetrievalOrder[i])
           /\ \A i \in 1 .. n : \E r \in t[2 * i + 6].refs : r.qual = "reads" /\ r.obj = Resource(RetrievalOrder[i])
           /\ \E r \in t[2 * n + 18].refs : r.qual = "explains" /\ r.obj = DecisionOf(s)
           /\ \E r \in t[1].refs : r.obj = SupersededPolicy
           /\ \A r \in t[2 * n + 17].refs :
                 "obj" \in DOMAIN r /\ (r.obj.kind = "PolicyVersion" => r.obj = CurrentPolicy)
           /\ t[2].actor = Agent("intake") /\ t[6].actor = Agent("data_retrieval")
           /\ t[2 * n + 8].actor = Agent("scoring") /\ t[2 * n + 13].actor = Agent("adjudication")
<1> DEFINE c == CreditScript(a)
<1>1. n \in Nat \ {0} /\ \A i \in 1 .. n : 2 * i + 6 \in 1 .. 2 * n + 20
  BY RetrievalFacts
<1>2. \A k \in 1 .. 2 * n + 20 : RefsOf(t[k], c[k], s) /\ t[k].actor = c[k].actor
  BY BaseIsScript
<1>3. /\ \A i \in 1 .. n : c[2 * i + 6] = RetrieveData("data_retrieval", RetrievalOrder[i])
      /\ c[1] = SessionStartEvent /\ c[2] = InvokeAgent("intake") /\ c[6] = InvokeAgent("data_retrieval")
      /\ c[2 * n + 8] = InvokeAgent("scoring") /\ c[2 * n + 13] = InvokeAgent("adjudication")
      /\ c[2 * n + 17] = MakeDecision("adjudication", a)
      /\ c[2 * n + 18] = FinalReasoning("adjudication")
  <2>1. IsScript(c, a)
    BY ScriptIs
  <2> HIDE DEF c
  <2> QED
    BY <2>1 DEF IsScript
<1> HIDE DEF c
<1>4. ASSUME NEW i \in 1 .. n
      PROVE  /\ \A r \in t[2 * i + 6].refs : r.qual = "reads" => r.obj = Resource(RetrievalOrder[i])
             /\ \E r \in t[2 * i + 6].refs : r.qual = "reads" /\ r.obj = Resource(RetrievalOrder[i])
  <2>1. RefsOf(t[2 * i + 6], RetrieveData("data_retrieval", RetrievalOrder[i]), s)
    BY <1>1, <1>2, <1>3
  <2> DEFINE script == RetrieveData("data_retrieval", RetrievalOrder[i])
             o      == Resource(RetrievalOrder[i])
  <2>2. /\ \A q \in script.refs : q.qual = "reads" => q.obj = o
        /\ \E q \in script.refs : q.qual = "reads" /\ q.obj = o
    BY RetrieveDataRefs
  <2>3. OwnedBy(o, s) = o
    BY Owned
  <2> HIDE DEF script, o
  <2>4. ASSUME NEW r \in t[2 * i + 6].refs, r.qual = "reads" PROVE r.obj = o
    <3>1. PICK q \in script.refs : r.obj = OwnedBy(q.obj, s) /\ r.qual = q.qual
      BY <2>1 DEF RefsOf, script
    <3> QED
      BY <2>2, <2>3, <2>4, <3>1
  <2>5. \E r \in t[2 * i + 6].refs : r.qual = "reads" /\ r.obj = o
    <3>1. PICK q \in script.refs : q.qual = "reads" /\ q.obj = o
      BY <2>2
    <3>2. PICK r \in t[2 * i + 6].refs : r.obj = OwnedBy(q.obj, s) /\ r.qual = q.qual
      BY <2>1 DEF RefsOf, script
    <3> QED
      BY <2>3, <3>1, <3>2
  <2> QED
    BY <2>4, <2>5 DEF o
<1>5. \E r \in t[2 * n + 18].refs : r.qual = "explains" /\ r.obj = DecisionOf(s)
  <2>1. RefsOf(t[2 * n + 18], FinalReasoning("adjudication"), s)
    BY <1>1, <1>2, <1>3
  <2>2. PICK q \in FinalReasoning("adjudication").refs : q.qual = "explains" /\ q.obj = Decision
    BY FinalReasoningRefs
  <2>3. PICK r \in t[2 * n + 18].refs : r.obj = OwnedBy(q.obj, s) /\ r.qual = q.qual
    BY <2>1 DEF RefsOf
  <2> QED
    BY <2>2, <2>3 DEF DecisionOf
<1>6. \E r \in t[1].refs : r.obj = SupersededPolicy
  <2>1. RefsOf(t[1], SessionStartEvent, s)
    BY <1>1, <1>2, <1>3
  <2> QED
    BY <2>1, SessionStartRefs, Owned DEF RefsOf
<1>7. \A r \in t[2 * n + 17].refs :
          "obj" \in DOMAIN r /\ (r.obj.kind = "PolicyVersion" => r.obj = CurrentPolicy)
  <2>1. RefsOf(t[2 * n + 17], MakeDecision("adjudication", a), s)
    BY <1>1, <1>2, <1>3
  <2>2. \A r \in t[2 * n + 17].refs : "obj" \in DOMAIN r
    BY <2>1 DEF RefsOf
  <2>3. ASSUME NEW r \in t[2 * n + 17].refs, r.obj.kind = "PolicyVersion" PROVE r.obj = CurrentPolicy
    <3>1. PICK q \in MakeDecision("adjudication", a).refs : r.obj = OwnedBy(q.obj, s)
      BY <2>1 DEF RefsOf
    <3>2. OwnedBy(q.obj, s).kind = "PolicyVersion"
      BY <2>3, <3>1
    <3>3. q.obj = CurrentPolicy
      BY <3>2, MakeDecisionRefs
    <3> QED
      BY <3>1, <3>3, Owned
  <2> QED
    BY <2>2, <2>3
<1>8. /\ t[2].actor = Agent("intake") /\ t[6].actor = Agent("data_retrieval")
      /\ t[2 * n + 8].actor = Agent("scoring") /\ t[2 * n + 13].actor = Agent("adjudication")
  <2>1. /\ 2 \in 1 .. 2 * n + 20 /\ 6 \in 1 .. 2 * n + 20 /\ 2 * n + 8 \in 1 .. 2 * n + 20
        /\ 2 * n + 13 \in 1 .. 2 * n + 20
    BY <1>1
  <2>2. \A role : InvokeAgent(role).actor = Agent(role)
    BY EventTypes
  <2>3. /\ c[2].actor = Agent("intake") /\ c[6].actor = Agent("data_retrieval")
        /\ c[2 * n + 8].actor = Agent("scoring") /\ c[2 * n + 13].actor = Agent("adjudication")
    BY <1>3, <2>2
  <2> HIDE DEF c
  <2> QED
    BY <1>2, <2>1, <2>3
<1> QED
  BY <1>4, <1>5, <1>6, <1>7, <1>8

(* For every handoff there is an invoked agent it does not name.           *)
LEMMA HandoffSpares ==
    ASSUME NEW s, NEW a \in Applicants, NEW t, t = BaseTrace(s, a),
           NEW k \in {5, 2 * Retrievals + 7, 2 * Retrievals + 12}
    PROVE  \E j \in {2, 6, 2 * Retrievals + 8, 2 * Retrievals + 13} :
               \A r \in t[k].refs : r.qual \in {"from", "to"} => r.obj # t[j].actor
<1> DEFINE n == Retrievals
           c == CreditScript(a)
<1>1. n \in Nat \ {0}
  BY RetrievalFacts
<1>2. RefsOf(t[k], c[k], s)
  <2>1. k \in 1 .. 2 * n + 20
    BY <1>1
  <2> QED
    BY <2>1, BaseIsScript
<1>3. PICK x \in {"intake", "data_retrieval", "scoring"},
           y \in {"data_retrieval", "scoring", "adjudication"} : c[k] = Handoff(x, y)
  BY ScriptIs DEF IsScript
<1>4. \A r \in t[k].refs : r.qual \in {"from", "to"} => r.obj \in {Agent(x), Agent(y)}
  <2>1. ASSUME NEW r \in t[k].refs, r.qual \in {"from", "to"} PROVE r.obj \in {Agent(x), Agent(y)}
    <3>1. PICK q \in Handoff(x, y).refs : r.obj = OwnedBy(q.obj, s) /\ r.qual = q.qual
      BY <1>2, <1>3 DEF RefsOf
    <3>2. q.obj \in {Agent(x), Agent(y)}
      BY <2>1, <3>1, HandoffRefs
    <3> QED
      BY <3>1, <3>2, Owned
  <2> QED
    BY <2>1
<1>5. /\ t[2].actor = Agent("intake") /\ t[6].actor = Agent("data_retrieval")
      /\ t[2 * n + 8].actor = Agent("scoring") /\ t[2 * n + 13].actor = Agent("adjudication")
  BY BaseHolds
<1>6. PICK z \in {"intake", "data_retrieval", "scoring", "adjudication"} : z # x /\ z # y
  OBVIOUS
<1>7. Agent(z) \notin {Agent(x), Agent(y)}
  BY <1>6, Owned
<1>8. \E j \in {2, 6, 2 * n + 8, 2 * n + 13} : t[j].actor = Agent(z)
  BY <1>5
<1> QED
  BY <1>4, <1>7, <1>8

-----------------------------------------------------------------------------
EventsOf(tr) == {tr[k] : k \in DOMAIN tr}

(* Every span of u is one of these spans of tr, and none is there twice.   *)
TakenOnce(u, tr, kept) ==
    \A i, j \in DOMAIN u : \E k, n \in kept : u[i] = tr[k] /\ u[j] = tr[n] /\ (k = n => i = j)

(* Without keeps the other spans, all of them.                             *)
LEMMA WithoutKeeps ==
    ASSUME NEW tr, NEW m \in Nat, DOMAIN tr = 1 .. m, NEW ks
    PROVE  LET u == Without(tr, ks)
           IN  /\ \E l \in 0 .. m : DOMAIN u = 1 .. l
               /\ EventsOf(u) = {tr[k] : k \in DOMAIN tr \ ks}
               /\ TakenOnce(u, tr, DOMAIN tr \ ks)
<1> DEFINE kept    == DOMAIN tr \ ks
           upto(k) == {j \in kept : j <= k}
           rank(k) == Cardinality(upto(k))
           Nth(n)  == CHOOSE k \in kept : rank(k) = n
           l       == Cardinality(kept)
           u       == Without(tr, ks)
<1>1. IsFiniteSet(1 .. m) /\ Cardinality(1 .. m) = m /\ kept \in SUBSET (1 .. m) /\ kept \in SUBSET Nat
  BY UpTo
<1>2. IsFiniteSet(kept) /\ l \in Nat /\ l <= m
  <2> HIDE DEF kept
  <2>1. IsFiniteSet(kept) /\ Cardinality(kept) <= Cardinality(1 .. m)
    BY <1>1, FS_Subset
  <2> QED
    BY <1>1, <2>1, Counted
<1>3. u = [n \in 1 .. l |-> tr[Nth(n)]]
  BY DEF Without
<1> HIDE DEF kept, u
<1>4. ASSUME NEW k \in kept
      PROVE  IsFiniteSet(upto(k)) /\ rank(k) \in 1 .. l
  <2>1. upto(k) \in SUBSET kept /\ k \in upto(k)
    BY <1>1
  <2> HIDE DEF upto
  <2>2. IsFiniteSet(upto(k)) /\ Cardinality(upto(k)) <= l /\ Cardinality(upto(k)) \in Nat
    BY <1>2, <2>1, FS_Subset, Counted
  <2>3. Cardinality(upto(k)) # 0
    BY <2>1, <2>2, FS_EmptySet
  <2> QED
    BY <1>2, <2>2, <2>3
<1>5. ASSUME NEW j \in kept, NEW k \in kept, j < k PROVE rank(j) # rank(k)
  <2>1. upto(j) \in SUBSET upto(k) /\ k \in upto(k) /\ k \notin upto(j)
    <3>1. j \in Nat /\ k \in Nat /\ \A i \in kept : i \in Nat
      BY <1>1
    <3>2. \A i \in kept : i <= j => i <= k
      BY <1>5, <3>1
    <3>3. upto(j) \in SUBSET upto(k)
      BY <3>2
    <3>4. k <= k /\ ~ (k <= j)
      BY <1>5, <3>1
    <3>5. k \in upto(k) /\ k \notin upto(j)
      BY <3>4
    <3> QED
      BY <3>3, <3>5
  <2>2. IsFiniteSet(upto(k))
    BY <1>4
  <2> HIDE DEF upto
  <2> QED
    BY <2>1, <2>2, FS_Subset
<1>6. ASSUME NEW j \in kept, NEW k \in kept, rank(j) = rank(k) PROVE j = k
  <2>1. j \in Nat /\ k \in Nat
    BY <1>1
  <2>2. j < k \/ k < j \/ j = k
    BY <2>1
  <2> HIDE DEF rank
  <2> QED
    BY <1>5, <1>6, <2>2
<1>7. \A n \in 1 .. l : \E k \in kept : rank(k) = n
  <2> DEFINE f == [k \in kept |-> rank(k)]
  <2>1. f \in [kept -> 1 .. l] /\ \A j, k \in kept : f[j] = f[k] => j = k
    <3> HIDE DEF rank
    <3> QED
      BY <1>4, <1>6
  <2>2. \A k \in kept : f[k] = rank(k)
    OBVIOUS
  <2> HIDE DEF f, rank, upto
  <2>3. f \in Injection(kept, 1 .. l)
    BY <2>1 DEF Injection, IsInjective
  <2>4. IsFiniteSet(1 .. l) /\ Cardinality(1 .. l) = l
    BY <1>2, UpTo
  <2>5. f \in Surjection(kept, 1 .. l)
    BY <2>3, <2>4, FS_Injection
  <2>6. \A n \in 1 .. l : \E k \in kept : f[k] = n
    BY <2>5 DEF Surjection
  <2> QED
    BY <2>2, <2>6
<1>8. ASSUME NEW n \in 1 .. l PROVE Nth(n) \in kept /\ rank(Nth(n)) = n
  <2> HIDE DEF rank
  <2> QED
    BY <1>7
<1>9. ASSUME NEW k \in kept PROVE Nth(rank(k)) = k
  <2>1. Nth(rank(k)) \in kept /\ rank(Nth(rank(k))) = rank(k)
    BY <1>4, <1>8
  <2> HIDE DEF Nth, rank
  <2> QED
    BY <1>6, <2>1
<1>10. DOMAIN u = 1 .. l /\ \A n \in 1 .. l : u[n] = tr[Nth(n)]
  <2> HIDE DEF Nth, l
  <2> QED
    BY <1>3
<1>11. EventsOf(u) = {tr[k] : k \in kept}
  <2> HIDE DEF Nth, rank, l
  <2>1. ASSUME NEW n \in 1 .. l PROVE u[n] \in {tr[k] : k \in kept}
    BY <1>8, <1>10
  <2>2. ASSUME NEW k \in kept PROVE tr[k] \in EventsOf(u)
    <3>1. rank(k) \in DOMAIN u /\ u[rank(k)] = tr[k]
      BY <1>4, <1>9, <1>10
    <3> QED
      BY <3>1 DEF EventsOf
  <2> QED
    BY <1>10, <2>1, <2>2 DEF EventsOf
<1>12. l \in 0 .. m
  BY <1>2
<1>13. ASSUME NEW i \in 1 .. l, NEW j \in 1 .. l
       PROVE  \E k, n \in kept : u[i] = tr[k] /\ u[j] = tr[n] /\ (k = n => i = j)
  <2>1. /\ Nth(i) \in kept /\ Nth(j) \in kept /\ rank(Nth(i)) = i /\ rank(Nth(j)) = j
        /\ u[i] = tr[Nth(i)] /\ u[j] = tr[Nth(j)]
    BY <1>8, <1>10
  <2>2. Nth(i) = Nth(j) => i = j
    BY <2>1
  <2> HIDE DEF Nth, rank, l
  <2> QED
    BY <2>1, <2>2
<1> HIDE DEF l
<1>14. TakenOnce(u, tr, DOMAIN tr \ ks)
  BY <1>10, <1>13 DEF kept, TakenOnce
<1>15. (\E h \in 0 .. m : DOMAIN u = 1 .. h) /\ EventsOf(u) = {tr[k] : k \in DOMAIN tr \ ks}
  BY <1>10, <1>11, <1>12 DEF kept
<1> QED
  BY <1>14, <1>15 DEF u

-----------------------------------------------------------------------------
(* The types of the events a fault changes or deletes.                     *)
TouchedBy(c) ==
    CASE c = 1 -> {"request_approval", "grant_approval", "deny_approval", "make_decision"}
      [] c = 2 -> {"grant_approval"}
      [] c = 3 -> {"request_approval", "grant_approval", "deny_approval"}
      [] c = 4 -> {"retrieve_data", "call_tool"}
      [] c = 5 -> {"retrieve_data"}
      [] c = 6 -> {"make_decision", "emit_reasoning"}
      [] c = 7 -> {"handoff"}
      [] c = 8 -> {"make_decision"}

Touched(done) == UNION {TouchedBy(c) : c \in done}

IsOfDemographics(e) ==
    e.type = "retrieve_data" /\ \E r \in e.refs : r.qual = "reads" /\ r.obj = Resource(Demographics)

PolicyStands(e) ==
    \A r \in e.refs : "obj" \in DOMAIN r /\ (r.obj.kind = "PolicyVersion" => r.obj = CurrentPolicy)

(* What is left of a trace when these faults have been applied: no fault   *)
(* takes what a later one needs.                                           *)
Survives(tr, base, done) ==
    /\ \E m \in 0 .. Len(base) : DOMAIN tr = 1 .. m
    /\ \A e \in EventsOf(tr) :
          /\ DOMAIN e = Fields
          /\ \E b \in EventsOf(base) : /\ e.id = b.id /\ e.seq = b.seq /\ e.type = b.type
                                       /\ e.type \notin Touched(done) => e = b
    /\ \A b \in EventsOf(base) : b.type \notin Touched(done) => b \in EventsOf(tr)
    /\ 5 \notin done => \A b \in EventsOf(base) : IsOfDemographics(b) => b \in EventsOf(tr)
    /\ \E e \in EventsOf(tr) : e.type = "make_decision"
    /\ 8 \notin done => \A e \in EventsOf(tr) : e.type = "make_decision" => PolicyStands(e)

Base(s) == BaseTrace(s, applicant[s])

PlanOK ==
    \A s \in Sessions : /\ \A c \in plan[s] : Eligible(c, s)
                        /\ \A b, c \in plan[s] \cap T1Classes : b = c

RowsOK ==
    /\ rows = [s \in Sessions |-> rows[s]]
    /\ \A s \in Sessions : \E m \in 0 .. Len(Base(s)) : DOMAIN rows[s] = 1 .. m

InjectOK ==
    /\ d1 \subseteq Sessions /\ at \in Sessions /\ applied \subseteq plan[at]
    /\ PlanOK /\ RowsOK
    /\ phase \notin {"inject", "done"} => applied = {} /\ \A s \in Sessions : rows[s] = Base(s)
    /\ phase = "inject" =>
          /\ \A s \in Sessions : s > at => rows[s] = Base(s)
          /\ applied = {} => rows[at] = Base(at)
          /\ Survives(rows[at], Base(at), applied)
          /\ \A b \in applied : \A c \in Todo : b < c
          /\ \A s \in Sessions : 2 \in plan[s] => DonorsFor(s) # {}

-----------------------------------------------------------------------------
(* The event types touched grow with the faults done.                      *)
LEMMA TouchedGrows ==
    ASSUME NEW done, NEW c
    PROVE  /\ Touched(done) \subseteq Touched(done \cup {c})
           /\ TouchedBy(c) \subseteq Touched(done \cup {c})
  BY DEF Touched

(* One span rewritten in place.                                            *)
Revised(u, tr, k) ==
    /\ DOMAIN u = DOMAIN tr /\ \A j \in DOMAIN tr \ {k} : u[j] = tr[j]
    /\ DOMAIN u[k] = Fields /\ u[k].id = tr[k].id /\ u[k].seq = tr[k].seq /\ u[k].type = tr[k].type

(* Rewriting a span of a type the class touches keeps the rest of the      *)
(* trace.                                                                  *)
LEMMA RevisedSurvives ==
    ASSUME NEW tr, NEW base, NEW done, Survives(tr, base, done),
           NEW c, NEW k \in DOMAIN tr, NEW u, Revised(u, tr, k),
           tr[k].type \in TouchedBy(c), tr[k].type = "retrieve_data" => c = 5,
           tr[k].type = "make_decision" /\ c # 8 /\ PolicyStands(tr[k]) => PolicyStands(u[k])
    PROVE  Survives(u, base, done \cup {c})
<1> DEFINE more == done \cup {c}
<1>1. Touched(done) \subseteq Touched(more) /\ TouchedBy(c) \subseteq Touched(more)
  BY TouchedGrows
<1>2. /\ DOMAIN u = DOMAIN tr /\ \A j \in DOMAIN tr : j # k => u[j] = tr[j]
      /\ DOMAIN u[k] = Fields /\ u[k].id = tr[k].id /\ u[k].seq = tr[k].seq /\ u[k].type = tr[k].type
  BY DEF Revised
<1>3. \A e : e \in EventsOf(tr) <=> \E j \in DOMAIN tr : e = tr[j]
  BY DEF EventsOf
<1>4. \A e : e \in EventsOf(u) <=> \E j \in DOMAIN tr : e = u[j]
  BY <1>2 DEF EventsOf
<1>5. \E m \in 0 .. Len(base) : DOMAIN u = 1 .. m
  BY <1>2 DEF Survives
<1>6. ASSUME NEW e \in EventsOf(u)
      PROVE  /\ DOMAIN e = Fields
             /\ \E b \in EventsOf(base) : /\ e.id = b.id /\ e.seq = b.seq /\ e.type = b.type
                                          /\ e.type \notin Touched(more) => e = b
  <2>1. PICK j \in DOMAIN tr : e = u[j]
    BY <1>4
  <2>2. tr[j] \in EventsOf(tr)
    BY <1>3
  <2>3. PICK b \in EventsOf(base) :
            /\ tr[j].id = b.id /\ tr[j].seq = b.seq /\ tr[j].type = b.type
            /\ tr[j].type \notin Touched(done) => tr[j] = b
    BY <2>2 DEF Survives
  <2>4. DOMAIN tr[j] = Fields
    BY <2>2 DEF Survives
  <2>5. CASE j = k
    BY <1>1, <1>2, <2>1, <2>3, <2>5
  <2>6. CASE j # k
    BY <1>1, <1>2, <2>1, <2>3, <2>4, <2>6
  <2> QED
    BY <2>5, <2>6
<1>7. ASSUME NEW b \in EventsOf(base), b.type \notin Touched(more) PROVE b \in EventsOf(u)
  <2>1. b \in EventsOf(tr)
    BY <1>1, <1>7 DEF Survives
  <2>2. PICK j \in DOMAIN tr : b = tr[j]
    BY <1>3, <2>1
  <2>3. j # k
    BY <1>1, <1>7, <2>2
  <2> QED
    BY <1>2, <1>4, <2>2, <2>3
<1>8. ASSUME 5 \notin more, NEW b \in EventsOf(base), IsOfDemographics(b) PROVE b \in EventsOf(u)
  <2>1. b \in EventsOf(tr) /\ c # 5
    BY <1>8 DEF Survives
  <2>2. PICK j \in DOMAIN tr : b = tr[j]
    BY <1>3, <2>1
  <2>3. j # k
    BY <1>8, <2>1, <2>2 DEF IsOfDemographics
  <2> QED
    BY <1>2, <1>4, <2>2, <2>3
<1>9. \E e \in EventsOf(u) : e.type = "make_decision"
  <2>1. PICK e \in EventsOf(tr) : e.type = "make_decision"
    BY DEF Survives
  <2>2. PICK j \in DOMAIN tr : e = tr[j]
    BY <1>3
  <2>3. u[j] \in EventsOf(u) /\ u[j].type = "make_decision"
    BY <1>2, <1>4, <2>1, <2>2
  <2> QED
    BY <2>3
<1>10. ASSUME 8 \notin more, NEW e \in EventsOf(u), e.type = "make_decision" PROVE PolicyStands(e)
  <2>1. PICK j \in DOMAIN tr : e = u[j]
    BY <1>4
  <2>2. tr[j] \in EventsOf(tr) /\ tr[j].type = "make_decision"
    BY <1>2, <1>3, <1>10, <2>1
  <2>3. PolicyStands(tr[j]) /\ c # 8
    BY <1>10, <2>2 DEF Survives
  <2>4. CASE j = k
    BY <2>1, <2>2, <2>3, <2>4
  <2>5. CASE j # k
    BY <1>2, <2>1, <2>3, <2>5
  <2> QED
    BY <2>4, <2>5
<1> HIDE DEF more
<1>11. Survives(u, base, more)
  BY <1>5, <1>6, <1>7, <1>8, <1>9, <1>10 DEF Survives
<1> QED
  BY <1>11 DEF more

(* Deleting spans of types the class touches keeps the rest of the trace.  *)
LEMMA WithoutSurvives ==
    ASSUME NEW tr, NEW base, Len(base) \in Nat, NEW done, Survives(tr, base, done),
           NEW c, NEW ks \in SUBSET (DOMAIN tr),
           \A k \in ks : /\ tr[k].type \in TouchedBy(c) /\ tr[k].type # "make_decision"
                         /\ ~ IsOfDemographics(tr[k])
    PROVE  Survives(Without(tr, ks), base, done \cup {c})
<1> DEFINE more == done \cup {c}
           u    == Without(tr, ks)
<1>1. Touched(done) \subseteq Touched(more) /\ TouchedBy(c) \subseteq Touched(more)
  BY TouchedGrows
<1>2. PICK m \in 0 .. Len(base) : DOMAIN tr = 1 .. m
  BY DEF Survives
<1>3. /\ \E l \in 0 .. m : DOMAIN u = 1 .. l
      /\ EventsOf(u) = {tr[k] : k \in DOMAIN tr \ ks}
  <2>1. m \in Nat
    BY <1>2
  <2> HIDE DEF u
  <2>2. /\ \E l \in 0 .. m : DOMAIN Without(tr, ks) = 1 .. l
        /\ EventsOf(Without(tr, ks)) = {tr[k] : k \in DOMAIN tr \ ks}
        /\ TakenOnce(Without(tr, ks), tr, DOMAIN tr \ ks)
    BY <1>2, <2>1, WithoutKeeps
  <2> QED
    BY <2>2 DEF u
<1> HIDE DEF u
<1>4. \A e : e \in EventsOf(tr) <=> \E j \in DOMAIN tr : e = tr[j]
  BY DEF EventsOf
<1>5. \A e : e \in EventsOf(u) <=> \E j \in DOMAIN tr : j \notin ks /\ e = tr[j]
  BY <1>3
<1>6. EventsOf(u) \subseteq EventsOf(tr)
  BY <1>4, <1>5
<1>7. \E l \in 0 .. Len(base) : DOMAIN u = 1 .. l
  BY <1>2, <1>3
<1>8. ASSUME NEW e \in EventsOf(u)
      PROVE  /\ DOMAIN e = Fields
             /\ \E b \in EventsOf(base) : /\ e.id = b.id /\ e.seq = b.seq /\ e.type = b.type
                                          /\ e.type \notin Touched(more) => e = b
  <2>1. PICK b \in EventsOf(base) : /\ e.id = b.id /\ e.seq = b.seq /\ e.type = b.type
                                    /\ e.type \notin Touched(done) => e = b
    BY <1>6 DEF Survives
  <2>2. DOMAIN e = Fields
    BY <1>6 DEF Survives
  <2> QED
    BY <1>1, <2>1, <2>2
<1>9. ASSUME NEW b \in EventsOf(tr), b.type \notin TouchedBy(c) \/ b.type = "make_decision" \/ IsOfDemographics(b)
      PROVE  b \in EventsOf(u)
  <2>1. PICK j \in DOMAIN tr : b = tr[j]
    BY <1>4
  <2>2. j \notin ks
    BY <1>9, <2>1
  <2> QED
    BY <1>5, <2>1, <2>2
<1>10. ASSUME NEW b \in EventsOf(base), b.type \notin Touched(more) PROVE b \in EventsOf(u)
  BY <1>1, <1>9, <1>10 DEF Survives
<1>11. ASSUME 5 \notin more, NEW b \in EventsOf(base), IsOfDemographics(b) PROVE b \in EventsOf(u)
  BY <1>9, <1>11 DEF Survives
<1>12. \E e \in EventsOf(u) : e.type = "make_decision"
  BY <1>9 DEF Survives
<1>13. ASSUME 8 \notin more, NEW e \in EventsOf(u), e.type = "make_decision" PROVE PolicyStands(e)
  BY <1>6, <1>13 DEF Survives
<1> HIDE DEF more
<1>14. Survives(u, base, more)
  BY <1>7, <1>8, <1>10, <1>11, <1>12, <1>13 DEF Survives
<1> QED
  BY <1>14 DEF more, u

(* Min is the smallest member.                                             *)
LEMMA SmallestOf == ASSUME NEW T \in SUBSET Nat, T # {} PROVE Min(T) \in T /\ \A y \in T : Min(T) <= y
<1>1. \E x \in T : \A y \in T : x <= y
  BY LeastOf
<1> QED
  BY <1>1 DEF Min

(* Max is a member.                                                        *)
LEMMA GreatestOf == ASSUME NEW m \in Nat, NEW T \in SUBSET (1 .. m), T # {} PROVE Max(T) \in T
<1> DEFINE U == {m - x : x \in T}
<1>1. U \in SUBSET Nat /\ U # {}
  <2>1. \A x \in T : x \in 1 .. m
    OBVIOUS
  <2>2. \A x \in T : m - x \in Nat
    BY <2>1
  <2> QED
    BY <2>2
<1>2. PICK y \in U : \A z \in U : y <= z
  BY <1>1, LeastOf
<1>3. PICK x \in T : y = m - x
  BY <1>2
<1>4. ASSUME NEW w \in T PROVE x >= w
  <2>1. m - x <= m - w
    BY <1>2, <1>3
  <2>2. x \in 1 .. m /\ w \in 1 .. m
    OBVIOUS
  <2> QED
    BY <2>1, <2>2
<1>5. \E g \in T : \A w \in T : g >= w
  BY <1>4
<1> QED
  BY <1>5 DEF Max

-----------------------------------------------------------------------------
(* An event of a session, as the fleet wrote it.                           *)
LEMMA BaseEvents ==
    ASSUME NEW s, NEW a \in Applicants, NEW t, t = BaseTrace(s, a)
    PROVE  /\ DOMAIN t = 1 .. 2 * Retrievals + 20 /\ Len(t) = 2 * Retrievals + 20
           /\ Len(t) \in Nat
           /\ \A k \in DOMAIN t : /\ DOMAIN t[k] = Fields /\ t[k].id = <<s, k>> /\ t[k].seq = k
                                  /\ TypeFits(t[k].type, k)
<1>1. ASSUME NEW k \in 1 .. 2 * Retrievals + 20 PROVE TypeFits(CreditScript(a)[k].type, k)
  <2>1. DOMAIN CreditScript(a) = 1 .. 2 * Retrievals + 20
    BY ScriptIs DEF IsScript
  <2> QED
    BY <2>1, ScriptIs, ScriptTypes
<1>2. 2 * Retrievals + 20 \in Nat
  BY RetrievalFacts
<1> QED
  BY <1>1, <1>2, BaseIsScript

(* A base trace survives no fault at all.                                  *)
LEMMA BaseSurvives ==
    ASSUME NEW s, NEW a \in Applicants, NEW t, t = BaseTrace(s, a)
    PROVE  Survives(t, t, {})
<1> DEFINE n == Retrievals
<1>1. n \in Nat /\ 2 * n + 17 \in 1 .. 2 * n + 20
  BY RetrievalFacts
<1>2. /\ DOMAIN t = 1 .. 2 * n + 20 /\ Len(t) = 2 * n + 20 /\ Len(t) \in Nat
      /\ \A k \in DOMAIN t : DOMAIN t[k] = Fields /\ TypeFits(t[k].type, k)
  BY BaseEvents
<1>3. \E m \in 0 .. Len(t) : DOMAIN t = 1 .. m
  BY <1>2
<1>4. \A e \in EventsOf(t) : DOMAIN e = Fields
  BY <1>2 DEF EventsOf
<1>5. t[2 * n + 17].type = "make_decision" /\ t[2 * n + 17] \in EventsOf(t)
  BY <1>1, <1>2 DEF TypeFits, EventsOf
<1>6. ASSUME NEW e \in EventsOf(t), e.type = "make_decision" PROVE PolicyStands(e)
  <2>1. PICK k \in DOMAIN t : e = t[k]
    BY DEF EventsOf
  <2>2. k = 2 * n + 17
    BY <1>2, <1>6, <2>1 DEF TypeFits
  <2>3. \A r \in t[2 * n + 17].refs : "obj" \in DOMAIN r /\ (r.obj.kind = "PolicyVersion" => r.obj = CurrentPolicy)
    BY BaseHolds
  <2> QED
    BY <2>1, <2>2, <2>3 DEF PolicyStands
<1> QED
  BY <1>3, <1>4, <1>5, <1>6 DEF Survives

(* Every event of a trace is still where the fleet put it.                 *)
LEMMA SurvivorIs ==
    ASSUME NEW s, NEW a \in Applicants, NEW t, t = BaseTrace(s, a), NEW tr, NEW done,
           Survives(tr, t, done), NEW k \in DOMAIN tr
    PROVE  /\ tr[k].seq \in 1 .. 2 * Retrievals + 20 /\ tr[k].id = <<s, tr[k].seq>>
           /\ TypeFits(tr[k].type, tr[k].seq) /\ tr[k].type = t[tr[k].seq].type
           /\ DOMAIN tr[k] = Fields
           /\ tr[k].type \notin Touched(done) => tr[k] = t[tr[k].seq]
<1>1. tr[k] \in EventsOf(tr)
  BY DEF EventsOf
<1>2. PICK b \in EventsOf(t) : /\ tr[k].id = b.id /\ tr[k].seq = b.seq /\ tr[k].type = b.type
                               /\ tr[k].type \notin Touched(done) => tr[k] = b
  BY <1>1 DEF Survives
<1>3. DOMAIN tr[k] = Fields
  BY <1>1 DEF Survives
<1>4. PICK j \in DOMAIN t : b = t[j]
  BY <1>2 DEF EventsOf
<1>5. /\ DOMAIN t = 1 .. 2 * Retrievals + 20
      /\ t[j].id = <<s, j>> /\ t[j].seq = j /\ TypeFits(t[j].type, j)
  BY BaseEvents
<1> QED
  BY <1>2, <1>3, <1>4, <1>5

(* A span of a type no fault done has touched is still there, with its     *)
(* seq.                                                                    *)
LEMMA Remains ==
    ASSUME NEW s, NEW a \in Applicants, NEW t, t = BaseTrace(s, a), NEW tr, NEW done,
           Survives(tr, t, done), NEW j \in 1 .. 2 * Retrievals + 20,
           t[j].type \notin Touched(done) \/ (5 \notin done /\ IsOfDemographics(t[j]))
    PROVE  \E k \in DOMAIN tr : tr[k] = t[j] /\ tr[k].seq = j
<1>1. j \in DOMAIN t /\ t[j].seq = j
  BY BaseEvents
<1>2. t[j] \in EventsOf(t)
  BY <1>1 DEF EventsOf
<1>3. t[j] \in EventsOf(tr)
  BY <1>2 DEF Survives
<1> QED
  BY <1>1, <1>3 DEF EventsOf

(* A trace that survives is a sequence no longer than the base.            *)
LEMMA TraceDomain ==
    ASSUME NEW base, Len(base) \in Nat, NEW tr, NEW done, Survives(tr, base, done)
    PROVE  /\ \E m \in 0 .. Len(base) : DOMAIN tr = 1 .. m
           /\ \A types : SpansOf(tr, types) \in SUBSET Nat /\ SpansOf(tr, types) \in SUBSET (DOMAIN tr)
<1>1. PICK m \in 0 .. Len(base) : DOMAIN tr = 1 .. m
  BY DEF Survives
<1>2. DOMAIN tr \in SUBSET Nat
  BY <1>1
<1> QED
  BY <1>1, <1>2 DEF SpansOf

(* span_of finds a span of the type, where there is one.                   *)
LEMMA SpanIs ==
    ASSUME NEW base, Len(base) \in Nat, NEW tr, NEW done, Survives(tr, base, done),
           NEW type, SpansOf(tr, {type}) # {}
    PROVE  SpanOf(tr, type) \in DOMAIN tr /\ tr[SpanOf(tr, type)].type = type
<1>1. SpansOf(tr, {type}) \in SUBSET Nat
  BY TraceDomain
<1>2. SpanOf(tr, type) \in SpansOf(tr, {type})
  BY <1>1, SmallestOf DEF SpanOf
<1> QED
  BY <1>2 DEF SpansOf

(* The decision is never deleted.                                          *)
LEMMA DecisionStands ==
    ASSUME NEW base, Len(base) \in Nat, NEW tr, NEW done, Survives(tr, base, done)
    PROVE  /\ SpanOf(tr, "make_decision") \in DOMAIN tr
           /\ tr[SpanOf(tr, "make_decision")].type = "make_decision"
<1>1. SpansOf(tr, {"make_decision"}) # {}
  BY DEF Survives, EventsOf, SpansOf
<1> QED
  BY <1>1, SpanIs

(* What holds when it is the turn of a class.                              *)
LEMMA AtTurn ==
    ASSUME InjectOK, DrawOK, NEW c, Turn(c)
    PROVE  /\ at \in Sessions /\ applicant[at] \in Applicants
           /\ c \in plan[at] /\ c \in FaultClasses /\ Eligible(c, at)
           /\ Survives(Current, Base(at), applied)
           /\ \A b \in applied : b \in FaultClasses /\ b < c
           /\ applied = {} => Current = Base(at)
           /\ c \in T1Classes => applied = {}
           /\ \A s \in Sessions : 2 \in plan[s] => DonorsFor(s) # {}
<1>1. at \in Sessions /\ applied \subseteq plan[at] /\ PlanOK /\ phase = "inject" /\ c \in Todo
  BY DEF InjectOK, Turn
<1>2. applicant[at] \in Applicants
  BY <1>1, ApplyingAssumption DEF DrawOK
<1>3. plan[at] \subseteq FaultClasses
  BY <1>1, InstanceFacts DEF DrawOK
<1>4. c \in plan[at] /\ c \in FaultClasses /\ Eligible(c, at)
  BY <1>1, <1>3 DEF Todo, PlanOK
<1>5. /\ Survives(Current, Base(at), applied)
      /\ applied = {} => Current = Base(at)
      /\ \A b \in applied : \A e \in Todo : b < e
      /\ \A s \in Sessions : 2 \in plan[s] => DonorsFor(s) # {}
  BY <1>1 DEF InjectOK, Current
<1>6. \A b \in applied : b \in FaultClasses /\ b < c
  BY <1>1, <1>3, <1>5
<1>7. ASSUME c \in T1Classes PROVE applied = {}
  <2>1. ASSUME NEW b \in applied PROVE FALSE
    <3>1. b \in T1Classes
      BY <1>6, <1>7, <2>1 DEF T1Classes, FaultClasses
    <3>2. b = c
      BY <1>1, <1>4, <1>7, <3>1 DEF PlanOK
    <3> QED
      BY <1>4, <1>6, <3>2 DEF FaultClasses
  <2> QED
    BY <2>1
<1> QED
  BY <1>1, <1>2, <1>4, <1>5, <1>6, <1>7

(* V1, V2 and V3 find what they need.                                      *)
LEMMA FindsForT1 ==
    ASSUME InjectOK, DrawOK, NEW c \in T1Classes, Turn(c)
    PROVE  Finds(c)
<1> DEFINE n == Retrievals
           t == BaseTrace(at, applicant[at])
<1>1. /\ at \in Sessions /\ applicant[at] \in Applicants /\ c \in plan[at]
      /\ Eligible(c, at) /\ Current = t
      /\ \A s \in Sessions : 2 \in plan[s] => DonorsFor(s) # {}
  BY AtTurn DEF Base
<1>2. n \in Nat /\ 2 * n + 15 \in DOMAIN t /\ 2 * n + 16 \in DOMAIN t
  BY <1>1, RetrievalFacts, BaseEvents
<1>3. t[2 * n + 15].type = "request_approval" /\ t[2 * n + 16].type \in VerdictTypes
  BY <1>1, <1>2, BaseEvents DEF TypeFits
<1>4. ASSUME c = 2 PROVE t[2 * n + 16].type = "grant_approval"
  <2>1. applicant[at].granted
    BY <1>1, <1>4 DEF Eligible, HasGrantApproval
  <2>2. t[2 * n + 16].type = CreditScript(applicant[at])[2 * n + 16].type
    BY <1>1, <1>2, BaseIsScript
  <2> QED
    BY <1>1, <2>1, <2>2, ScriptIs, ScriptTypes
<1>5. c \in {1, 2, 3}
  BY DEF T1Classes
<1>6. ASSUME c = 2 PROVE DonorsFor(at) # {} /\ SpansOf(Current, {"grant_approval"}) # {}
  BY <1>1, <1>2, <1>4, <1>6 DEF SpansOf
<1>7. ASSUME c = 3 PROVE SpansOf(Current, {"request_approval"}) # {} /\ SpansOf(Current, VerdictTypes) # {}
  BY <1>1, <1>2, <1>3 DEF SpansOf
<1> QED
  BY <1>5, <1>6, <1>7 DEF Finds, DonorAtHand, ApprovalAtHand

(* The retrievals and the tool calls before them, until class 4 applies.   *)
LEMMA RetrievalsStand ==
    ASSUME NEW a \in Applicants, NEW t, t = BaseTrace(at, a), Survives(Current, t, applied),
           NEW k \in DOMAIN Current, Current[k].type = "retrieve_data",
           "retrieve_data" \notin Touched(applied)
    PROVE  \E i \in 1 .. Retrievals : /\ Current[k].seq = 2 * i + 6
                                      /\ ReadBy(k) = {Resource(RetrievalOrder[i])}
<1>1. Current[k] = t[Current[k].seq] /\ TypeFits(Current[k].type, Current[k].seq)
  BY SurvivorIs
<1>2. PICK i \in 1 .. Retrievals : Current[k].seq = 2 * i + 6
  BY <1>1 DEF TypeFits
<1>3. Current[k] = t[2 * i + 6]
  BY <1>1, <1>2
<1>4. /\ \A r \in t[2 * i + 6].refs : r.qual = "reads" => r.obj = Resource(RetrievalOrder[i])
      /\ \E r \in t[2 * i + 6].refs : r.qual = "reads" /\ r.obj = Resource(RetrievalOrder[i])
  BY BaseHolds
<1>5. ReadBy(k) = {Resource(RetrievalOrder[i])}
  BY <1>3, <1>4 DEF ReadBy
<1> QED
  BY <1>2, <1>5

(* What the faults before a class, in class order, have not touched.       *)
LEMMA TouchedBefore ==
    ASSUME NEW done, NEW c \in FaultClasses, \A b \in done : b \in FaultClasses /\ b < c
    PROVE  /\ \A type \in {"retrieve_data", "call_tool"} : c <= 4 => type \notin Touched(done)
           /\ c <= 6 => "emit_reasoning" \notin Touched(done)
           /\ c <= 7 => "handoff" \notin Touched(done)
           /\ \A type \in {"session_start", "invoke_agent"} : type \notin Touched(done)
           /\ c <= 5 => 5 \notin done
           /\ c <= 8 => 8 \notin done
  BY DEF Touched, TouchedBy, FaultClasses

(* The spans of an untouched type that the session view lists are all      *)
(* there.                                                                  *)
LEMMA AllStillThere ==
    ASSUME at \in Sessions, applicant[at] \in Applicants, Survives(Current, Base(at), applied),
           NEW type, type \notin Touched(applied)
    PROVE  StillThere(type)
<1> DEFINE t == BaseTrace(at, applicant[at])
<1>1. InView(type) = {t[k].id : k \in {j \in DOMAIN t : t[j].type \in {type}}}
  BY DEF InView, Ids, SpansOf
<1>2. ASSUME NEW k \in DOMAIN t, t[k].type = type
      PROVE  \E j \in DOMAIN Current : Current[j].id = t[k].id /\ Current[j].type = type
  <2>1. k \in 1 .. 2 * Retrievals + 20
    BY BaseEvents
  <2>2. \E j \in DOMAIN Current : Current[j] = t[k]
    BY <1>2, <2>1, Remains DEF Base
  <2> QED
    BY <1>2, <2>2
<1> HIDE DEF t
<1>3. \A i \in InView(type) : \E j \in DOMAIN Current : Current[j].id = i /\ Current[j].type = type
  BY <1>1, <1>2
<1> QED
  BY <1>3 DEF StillThere, Ids, SpansOf

(* V4 finds every retrieval and its tool call.                             *)
LEMMA FindsForV4 ==
    ASSUME InjectOK, DrawOK, Turn(4)
    PROVE  Finds(4)
<1> DEFINE t == BaseTrace(at, applicant[at])
<1>1. /\ at \in Sessions /\ applicant[at] \in Applicants
      /\ Survives(Current, t, applied) /\ Survives(Current, Base(at), applied)
      /\ \A b \in applied : b \in FaultClasses /\ b < 4
  BY AtTurn DEF Base
<1>2. \A type \in {"retrieve_data", "call_tool"} : type \notin Touched(applied)
  BY <1>1, TouchedBefore DEF FaultClasses
<1>3. StillThere("retrieve_data")
  BY <1>1, <1>2, AllStillThere
<1>4. SourcesRead \ {Demographics} # {}
  <2>1. PICK i \in 1 .. Retrievals : RetrievalOrder[i] # Demographics
    BY SourcesAssumption, RetrievalFacts
  <2>2. 2 * i + 6 \in 1 .. 2 * Retrievals + 20 /\ 2 * i + 6 \in DOMAIN t
    BY <1>1, RetrievalFacts, BaseEvents
  <2>3. t[2 * i + 6].type = "retrieve_data"
    BY <1>1, <2>2, BaseEvents DEF TypeFits
  <2>4. PICK k \in DOMAIN Current : Current[k] = t[2 * i + 6]
    BY <1>1, <1>2, <2>2, <2>3, Remains
  <2>5. PICK r \in t[2 * i + 6].refs : r.qual = "reads" /\ r.obj = Resource(RetrievalOrder[i])
    BY <1>1, BaseHolds
  <2>6. k \in SpansOf(Current, {"retrieve_data"}) /\ Resource(RetrievalOrder[i]) \in ReadBy(k)
    BY <2>3, <2>4, <2>5 DEF SpansOf, ReadBy
  <2>7. Resource(RetrievalOrder[i]).id = RetrievalOrder[i]
    BY Owned
  <2>8. RetrievalOrder[i] \in SourcesRead
    BY <2>6, <2>7 DEF SourcesRead
  <2> QED
    BY <2>1, <2>8
<1>5. ASSUME NEW k \in SpansOf(Current, {"retrieve_data"}) PROVE IsAt(Current[k].seq - 1, "call_tool")
  <2>1. k \in DOMAIN Current /\ Current[k].type = "retrieve_data"
    BY DEF SpansOf
  <2>2. PICK i \in 1 .. Retrievals : Current[k].seq = 2 * i + 6
    BY <1>1, <1>2, <2>1, RetrievalsStand
  <2>3. 2 * i + 5 \in 1 .. 2 * Retrievals + 20 /\ 2 * i + 5 \in DOMAIN t /\ (2 * i + 6) - 1 = 2 * i + 5
    BY <1>1, RetrievalFacts, BaseEvents
  <2>4. t[2 * i + 5].type = "call_tool"
    BY <1>1, <2>3, BaseEvents DEF TypeFits
  <2>5. \E j \in DOMAIN Current : Current[j] = t[2 * i + 5] /\ Current[j].seq = 2 * i + 5
    BY <1>1, <1>2, <2>3, <2>4, Remains
  <2> QED
    BY <2>2, <2>3, <2>4, <2>5 DEF IsAt
<1>6. \A x : RetrievalsOf(x) \subseteq SpansOf(Current, {"retrieve_data"})
  BY DEF RetrievalsOf
<1> QED
  BY <1>3, <1>4, <1>5, <1>6 DEF Finds, SourceAtHand

(* V5 finds the demographics retrieval.                                    *)
LEMMA FindsForV5 ==
    ASSUME InjectOK, DrawOK, Turn(5)
    PROVE  Finds(5)
<1> DEFINE t == BaseTrace(at, applicant[at])
<1>1. /\ at \in Sessions /\ applicant[at] \in Applicants /\ Survives(Current, t, applied)
      /\ \A b \in applied : b \in FaultClasses /\ b < 5
  BY AtTurn DEF Base
<1>2. 5 \notin applied
  BY <1>1, TouchedBefore DEF FaultClasses
<1>3. PICK i \in 1 .. Retrievals : RetrievalOrder[i] = Demographics
  BY RetrievalFacts
<1>4. 2 * i + 6 \in 1 .. 2 * Retrievals + 20 /\ 2 * i + 6 \in DOMAIN t
  BY <1>1, RetrievalFacts, BaseEvents
<1>5. t[2 * i + 6].type = "retrieve_data"
  BY <1>1, <1>4, BaseEvents DEF TypeFits
<1>6. PICK r \in t[2 * i + 6].refs : r.qual = "reads" /\ r.obj = Resource(Demographics)
  BY <1>1, <1>3, BaseHolds
<1>7. IsOfDemographics(t[2 * i + 6])
  BY <1>5, <1>6 DEF IsOfDemographics
<1>8. PICK k \in DOMAIN Current : Current[k] = t[2 * i + 6]
  BY <1>1, <1>2, <1>4, <1>7, Remains
<1>9. Resource(Demographics) \in ReadBy(k) /\ k \in SpansOf(Current, {"retrieve_data"})
  BY <1>5, <1>6, <1>8 DEF ReadBy, SpansOf
<1>10. k \in RetrievalsOf(Demographics)
  BY <1>9, Owned DEF RetrievalsOf
<1> QED
  BY <1>10 DEF Finds, DemographicsAtHand

(* V6 finds the explanation.                                               *)
LEMMA FindsForV6 ==
    ASSUME InjectOK, DrawOK, Turn(6)
    PROVE  Finds(6)
<1> DEFINE n == Retrievals
           t == BaseTrace(at, applicant[at])
<1>1. /\ at \in Sessions /\ applicant[at] \in Applicants /\ Survives(Current, t, applied)
      /\ \A b \in applied : b \in FaultClasses /\ b < 6
  BY AtTurn DEF Base
<1>2. "emit_reasoning" \notin Touched(applied)
  BY <1>1, TouchedBefore DEF FaultClasses
<1>3. n \in Nat /\ 2 * n + 18 \in 1 .. 2 * n + 20 /\ 2 * n + 18 \in DOMAIN t /\ Len(t) \in Nat
  BY <1>1, RetrievalFacts, BaseEvents
<1>4. t[2 * n + 18].type = "emit_reasoning"
  BY <1>1, <1>3, BaseEvents DEF TypeFits
<1>5. PICK k \in DOMAIN Current : Current[k] = t[2 * n + 18] /\ Current[k].seq = 2 * n + 18
  BY <1>1, <1>2, <1>3, <1>4, Remains
<1>6. PICK r \in t[2 * n + 18].refs : r.qual = "explains" /\ r.obj = DecisionOf(at)
  BY <1>1, BaseHolds
<1>7. DecisionSpan \in DOMAIN Current /\ Current[DecisionSpan].type = "make_decision"
  BY <1>1, <1>3, DecisionStands DEF DecisionSpan
<1>8. Current[DecisionSpan].seq = 2 * n + 17
  BY <1>1, <1>7, SurvivorIs DEF TypeFits
<1>9. Current[k].seq > Current[DecisionSpan].seq
  BY <1>3, <1>5, <1>8
<1>10. DecisionOf(at) \in Named(k, "explains") /\ k \in SpansOf(Current, {"emit_reasoning"})
  BY <1>4, <1>5, <1>6 DEF Named, SpansOf
<1>11. Explainers # {}
  BY <1>9, <1>10 DEF Explainers
<1> QED
  BY <1>11 DEF Finds, ExplanationAtHand

(* V7 finds every handoff, the orphan after it and a bystander.            *)
LEMMA FindsForV7 ==
    ASSUME InjectOK, DrawOK, Turn(7)
    PROVE  Finds(7)
<1> DEFINE n == Retrievals
           t == BaseTrace(at, applicant[at])
<1>1. /\ at \in Sessions /\ applicant[at] \in Applicants
      /\ Survives(Current, t, applied) /\ Survives(Current, Base(at), applied)
      /\ \A b \in applied : b \in FaultClasses /\ b < 7
  BY AtTurn DEF Base
<1>2. "handoff" \notin Touched(applied) /\ "invoke_agent" \notin Touched(applied)
  BY <1>1, TouchedBefore DEF FaultClasses
<1>3. StillThere("handoff")
  BY <1>1, <1>2, AllStillThere
<1>4. n \in Nat /\ DOMAIN t = 1 .. 2 * n + 20
  BY <1>1, RetrievalFacts, BaseEvents
<1>5. ASSUME NEW j \in {2, 6, 2 * n + 8, 2 * n + 13}
      PROVE  \E k \in DOMAIN Current : Current[k] = t[j] /\ Current[k].seq = j /\ t[j].type = "invoke_agent"
  <2>1. j \in 1 .. 2 * n + 20 /\ j \in DOMAIN t
    BY <1>4
  <2>2. t[j].type = "invoke_agent"
    BY <1>1, <2>1, BaseEvents DEF TypeFits
  <2> QED
    BY <1>1, <1>2, <2>1, <2>2, Remains
<1>6. ASSUME NEW h \in SpansOf(Current, {"handoff"})
      PROVE  IsAt(Current[h].seq + 1, "invoke_agent") /\ Bystanders(h) # {}
  <2>1. h \in DOMAIN Current /\ Current[h].type = "handoff"
    BY DEF SpansOf
  <2>2. Current[h] = t[Current[h].seq] /\ TypeFits(Current[h].type, Current[h].seq)
    BY <1>1, <1>2, <2>1, SurvivorIs
  <2>3. Current[h].seq \in {5, 2 * n + 7, 2 * n + 12}
    BY <2>1, <2>2 DEF TypeFits
  <2>4. Current[h].seq + 1 \in {2, 6, 2 * n + 8, 2 * n + 13}
    BY <1>4, <2>3
  <2>5. IsAt(Current[h].seq + 1, "invoke_agent")
    BY <1>5, <2>4 DEF IsAt
  <2>6. PICK j \in {2, 6, 2 * n + 8, 2 * n + 13} :
            \A r \in Current[h].refs : r.qual \in {"from", "to"} => r.obj # t[j].actor
    BY <1>1, <2>2, <2>3, HandoffSpares
  <2>7. t[j].actor \in Invoked
    BY <1>5 DEF Invoked, SpansOf
  <2>8. t[j].actor \notin Named(h, "from") \cup Named(h, "to")
    BY <2>6 DEF Named
  <2> QED
    BY <2>5, <2>7, <2>8 DEF Bystanders
<1> QED
  BY <1>3, <1>6 DEF Finds, HandoffsAtHand

(* V8 finds another policy.                                                *)
LEMMA FindsForV8 ==
    ASSUME InjectOK, DrawOK, Turn(8)
    PROVE  Finds(8)
<1> DEFINE t == BaseTrace(at, applicant[at])
<1>1. /\ at \in Sessions /\ applicant[at] \in Applicants /\ Survives(Current, t, applied)
      /\ \A b \in applied : b \in FaultClasses /\ b < 8
  BY AtTurn DEF Base
<1>2. "session_start" \notin Touched(applied) /\ 8 \notin applied
  BY <1>1, TouchedBefore DEF FaultClasses
<1>3. 1 \in 1 .. 2 * Retrievals + 20 /\ 1 \in DOMAIN t /\ Len(t) \in Nat
  BY <1>1, RetrievalFacts, BaseEvents
<1>4. t[1].type = "session_start"
  BY <1>1, <1>3, BaseEvents DEF TypeFits
<1>5. SpansOf(Current, {"session_start"}) # {}
  <2>1. \E k \in DOMAIN Current : Current[k] = t[1]
    BY <1>1, <1>2, <1>3, <1>4, Remains
  <2> QED
    BY <1>4, <2>1 DEF SpansOf
<1> DEFINE k == SpanOf(Current, "session_start")
<1>6. k \in DOMAIN Current /\ Current[k].type = "session_start"
  BY <1>1, <1>3, <1>5, SpanIs
<1>7. Current[k] = t[1]
  BY <1>1, <1>2, <1>6, SurvivorIs DEF TypeFits
<1>8. SupersededPolicy \in PoliciesNamed(k)
  <2>1. PICK r \in t[1].refs : r.obj = SupersededPolicy
    BY <1>1, BaseHolds
  <2> QED
    BY <1>7, <2>1, Owned DEF PoliciesNamed
<1>9. DecisionSpan \in DOMAIN Current /\ Current[DecisionSpan].type = "make_decision"
  BY <1>1, <1>3, DecisionStands DEF DecisionSpan
<1>10. PolicyStands(Current[DecisionSpan])
  BY <1>1, <1>2, <1>9 DEF Survives, EventsOf
<1>11. SupersededPolicy \notin PoliciesNamed(DecisionSpan)
  BY <1>10, Owned DEF PoliciesNamed, PolicyStands
<1> HIDE DEF k
<1>12. OtherPolicies # {}
  BY <1>8, <1>11 DEF OtherPolicies, k
<1> QED
  BY <1>12 DEF Finds, PolicyAtHand

(* Every fault finds what it needs when it takes its turn.                 *)
LEMMA AlwaysFinds ==
    ASSUME InjectOK, DrawOK, NEW c, Turn(c)
    PROVE  Finds(c)
<1>1. c \in T1Classes \/ c \in {4, 5, 6, 7, 8}
  BY AtTurn DEF FaultClasses, T1Classes
<1> QED
  BY <1>1, FindsForT1, FindsForV4, FindsForV5, FindsForV6, FindsForV7, FindsForV8

-----------------------------------------------------------------------------
(* New references for a span revise it alone.                              *)
LEMMA RefsRevised ==
    ASSUME NEW tr, NEW k \in DOMAIN tr, DOMAIN tr[k] = Fields, NEW refs
    PROVE  LET u == [tr EXCEPT ![k].refs = refs]
           IN  Revised(u, tr, k) /\ u[k].refs = refs
<1> DEFINE u == [tr EXCEPT ![k].refs = refs]
<1>1. DOMAIN u = DOMAIN tr /\ \A j \in DOMAIN tr : u[j] = IF j = k THEN [tr[k] EXCEPT !.refs = refs] ELSE tr[j]
  OBVIOUS
<1> DEFINE e == [tr[k] EXCEPT !.refs = refs]
<1>2. /\ DOMAIN e = Fields /\ e.id = tr[k].id /\ e.seq = tr[k].seq /\ e.type = tr[k].type
      /\ e.refs = refs
  BY DEF Fields
<1>3. u[k] = e /\ \A j \in DOMAIN tr \ {k} : u[j] = tr[j]
  BY <1>1
<1> HIDE DEF u, e
<1>4. Revised(u, tr, k) /\ u[k].refs = refs
  BY <1>1, <1>2, <1>3 DEF Revised
<1> QED
  BY <1>4 DEF u

(* A new actor for a span revises it alone.                                *)
LEMMA ActorRevised ==
    ASSUME NEW tr, NEW k \in DOMAIN tr, DOMAIN tr[k] = Fields, NEW actor
    PROVE  Revised([tr EXCEPT ![k].actor = actor], tr, k)
<1> DEFINE u == [tr EXCEPT ![k].actor = actor]
           e == [tr[k] EXCEPT !.actor = actor]
<1>1. DOMAIN u = DOMAIN tr /\ \A j \in DOMAIN tr : u[j] = IF j = k THEN e ELSE tr[j]
  OBVIOUS
<1>2. DOMAIN e = Fields /\ e.id = tr[k].id /\ e.seq = tr[k].seq /\ e.type = tr[k].type
  BY DEF Fields
<1>3. u[k] = e /\ \A j \in DOMAIN tr \ {k} : u[j] = tr[j]
  BY <1>1
<1> HIDE DEF u, e
<1>4. Revised(u, tr, k)
  BY <1>1, <1>2, <1>3 DEF Revised
<1> QED
  BY <1>4 DEF u

(* New references for one span.                                            *)
LEMMA RefsSurvive ==
    ASSUME NEW tr, NEW base, NEW done, Survives(tr, base, done),
           NEW c, NEW k \in DOMAIN tr, NEW refs,
           tr[k].type \in TouchedBy(c), tr[k].type = "retrieve_data" => c = 5,
           tr[k].type = "make_decision" /\ c # 8 /\ PolicyStands(tr[k]) =>
               \A r \in refs : "obj" \in DOMAIN r /\ (r.obj.kind = "PolicyVersion" => r.obj = CurrentPolicy)
    PROVE  Survives([tr EXCEPT ![k].refs = refs], base, done \cup {c})
<1> DEFINE u == [tr EXCEPT ![k].refs = refs]
<1>1. DOMAIN tr[k] = Fields
  BY DEF Survives, EventsOf
<1>2. Revised(u, tr, k) /\ u[k].refs = refs
  BY <1>1, RefsRevised
<1> HIDE DEF u
<1>3. tr[k].type = "make_decision" /\ c # 8 /\ PolicyStands(tr[k]) => PolicyStands(u[k])
  BY <1>2 DEF PolicyStands
<1>4. Survives(u, base, done \cup {c})
  BY <1>2, <1>3, RevisedSurvives
<1> QED
  BY <1>4 DEF u

(* Swapping the approver keeps the rest of the trace.                      *)
LEMMA SwapSurvives ==
    ASSUME NEW tr, NEW base, Len(base) \in Nat, NEW done, Survives(tr, base, done), NEW approver, NEW facts,
           SpansOf(tr, {"request_approval"}) # {}, SpansOf(tr, VerdictTypes) # {}
    PROVE  Survives(SwapApprover(tr, approver, facts), base, done \cup {3})
<1> DEFINE request   == SpanOf(tr, "request_approval")
           verdict   == Verdict(tr)
           swap(r)   == IF r.obj.kind = "HumanApprover"
                        THEN [r EXCEPT !.obj = approver, !.facts = IF r.declares THEN facts ELSE {}]
                        ELSE r
           refs1     == {swap(r) : r \in tr[request].refs}
           requested == [tr EXCEPT ![request].refs = refs1]
           refs2     == {swap(r) : r \in requested[verdict].refs}
           ruled     == [requested EXCEPT ![verdict].refs = refs2]
           more      == done \cup {3}
<1>1. request \in DOMAIN tr /\ tr[request].type = "request_approval"
  BY SpanIs
<1>2. verdict \in DOMAIN tr /\ tr[verdict].type \in VerdictTypes
  <2>1. SpansOf(tr, VerdictTypes) \in SUBSET Nat
    BY TraceDomain
  <2>2. verdict \in SpansOf(tr, VerdictTypes)
    BY <2>1, SmallestOf DEF Verdict
  <2> QED
    BY <2>2 DEF SpansOf
<1>3. DOMAIN tr[request] = Fields
  BY <1>1 DEF Survives, EventsOf
<1>4. SwapApprover(tr, approver, facts) = [ruled EXCEPT ![verdict].actor = approver]
  BY DEF SwapApprover, Rewrite
<1> HIDE DEF refs1, request, verdict
<1>5. Survives(requested, base, more) /\ Revised(requested, tr, request)
  <2>1. Survives(requested, base, more)
    <3>1. /\ tr[request].type \in TouchedBy(3)
          /\ tr[request].type # "retrieve_data" /\ tr[request].type # "make_decision"
      BY <1>1 DEF TouchedBy
    <3> QED
      BY <1>1, <3>1, RefsSurvive
  <2>2. Revised(requested, tr, request)
    BY <1>1, <1>3, RefsRevised
  <2> QED
    BY <2>1, <2>2
<1> HIDE DEF requested, refs2, more
<1>6. verdict \in DOMAIN requested /\ requested[verdict].type \in VerdictTypes
  BY <1>1, <1>2, <1>5 DEF Revised
<1>7. DOMAIN requested[verdict] = Fields
  BY <1>5, <1>6 DEF Survives, EventsOf
<1>8. Survives(ruled, base, more \cup {3}) /\ Revised(ruled, requested, verdict)
  <2>1. Survives(ruled, base, more \cup {3})
    <3>1. /\ requested[verdict].type \in TouchedBy(3)
          /\ requested[verdict].type # "retrieve_data" /\ requested[verdict].type # "make_decision"
      BY <1>6 DEF TouchedBy, VerdictTypes
    <3> QED
      BY <1>5, <1>6, <3>1, RefsSurvive DEF ruled
  <2>2. Revised(ruled, requested, verdict)
    BY <1>6, <1>7, RefsRevised
  <2> QED
    BY <2>1, <2>2
<1>9. more \cup {3} = more /\ more = done \cup {3}
  BY DEF more
<1> HIDE DEF ruled
<1> DEFINE swapped == [ruled EXCEPT ![verdict].actor = approver]
<1>10. verdict \in DOMAIN ruled /\ ruled[verdict].type \in VerdictTypes
  BY <1>6, <1>8 DEF Revised
<1>11. DOMAIN ruled[verdict] = Fields
  BY <1>8, <1>10 DEF Survives, EventsOf
<1>12. Revised(swapped, ruled, verdict)
  BY <1>10, <1>11, ActorRevised
<1> HIDE DEF swapped
<1>13. Survives(swapped, base, more \cup {3})
  <2>1. /\ ruled[verdict].type \in TouchedBy(3)
        /\ ruled[verdict].type # "retrieve_data" /\ ruled[verdict].type # "make_decision"
    BY <1>10 DEF TouchedBy, VerdictTypes
  <2>2. Survives(ruled, base, more)
    BY <1>8, <1>9
  <2> QED
    BY <1>10, <1>12, <2>1, <2>2, RevisedSurvives
<1> QED
  BY <1>4, <1>9, <1>13 DEF swapped

(* Swapping the approver neither adds nor deletes a span.                  *)
LEMMA SwapDomain ==
    ASSUME NEW tr, NEW approver, NEW facts
    PROVE  DOMAIN SwapApprover(tr, approver, facts) = DOMAIN tr
  BY DEF SwapApprover, Rewrite

-----------------------------------------------------------------------------
(* A fault done, the session is still as the remaining faults need it.     *)
LEMMA ApplyKeeps ==
    ASSUME InjectOK, DrawOK, NEW c, Turn(c), NEW u, Survives(u, Base(at), applied \cup {c}),
           rows' = [rows EXCEPT ![at] = u], applied' = applied \cup {c},
           UNCHANGED <<given, phase, plan, settled, d1, at>>
    PROVE  InjectOK'
<1>1. UNCHANGED <<applicant, instance>> /\ UNCHANGED <<phase, plan, d1, at>>
  BY DEF given
<1>2. Sessions' = Sessions
  BY <1>1 DEF Sessions, N
<1>3. \A s : Base(s)' = Base(s)
  BY <1>1 DEF Base
<1>4. PlanOK'
  <2>1. PlanOK
    BY DEF InjectOK
  <2>2. \A e, s : Eligible(e, s)' = Eligible(e, s)
    BY <1>1 DEF Eligible, NeedsApproval, HasGrantApproval, Outcome
  <2> QED
    BY <1>1, <1>2, <2>1, <2>2 DEF PlanOK
<1>5. /\ at \in Sessions /\ phase = "inject" /\ c \in plan[at]
      /\ \A b \in Todo : c <= b
      /\ plan[at] \subseteq FaultClasses
  <2>1. plan[at] \subseteq FaultClasses
    BY InstanceFacts DEF DrawOK, InjectOK
  <2> QED
    BY <2>1, AtTurn DEF Turn
<1>6. d1 \subseteq Sessions /\ applied \subseteq plan[at] /\ RowsOK
  BY DEF InjectOK
<1>7. /\ \A s \in Sessions : s > at => rows[s] = Base(s)
      /\ \A b \in applied : \A e \in Todo : b < e
      /\ \A s \in Sessions : 2 \in plan[s] => DonorsFor(s) # {}
  BY <1>5 DEF InjectOK
<1>8. DOMAIN rows = Sessions
  BY <1>6 DEF RowsOK
<1>9. rows'[at] = u /\ \A s \in Sessions : s # at => rows'[s] = rows[s]
  BY <1>5, <1>8
<1>10. RowsOK'
  <2>1. rows' = [s \in Sessions |-> rows'[s]]
    BY <1>8
  <2>2. ASSUME NEW s \in Sessions PROVE \E m \in 0 .. Len(Base(s)) : DOMAIN rows'[s] = 1 .. m
    <3>1. CASE s = at
      BY <1>9, <3>1 DEF Survives
    <3>2. CASE s # at
      BY <1>6, <1>9, <3>2 DEF RowsOK
    <3> QED
      BY <3>1, <3>2
  <2> QED
    BY <1>2, <1>3, <2>1, <2>2 DEF RowsOK
<1>11. Todo' = Todo \ {c}
  BY <1>1, <1>5 DEF Todo
<1>12. ASSUME NEW b \in applied', NEW e \in Todo' PROVE b < e
  <2>1. e \in Todo /\ e # c
    BY <1>11, <1>12
  <2>2. CASE b = c
    <3>1. c \in 1 .. 8 /\ e \in 1 .. 8 /\ c <= e
      BY <1>5, <2>1 DEF Todo, FaultClasses
    <3> QED
      BY <2>1, <2>2, <3>1
  <2>3. CASE b \in applied
    BY <1>7, <2>1, <2>3
  <2> QED
    BY <1>12, <2>2, <2>3
<1>13. \A s : DonorsFor(s)' = DonorsFor(s)
  BY <1>1, <1>2 DEF DonorsFor, Donors
<1>14. \A s \in Sessions : s > at => rows'[s] = Base(s)
  <2>1. \A s \in Sessions : s > at => s # at
    BY <1>5, InstanceFacts DEF Sessions, DrawOK
  <2> QED
    BY <1>7, <1>9, <2>1
<1>15. applied' # {} /\ applied' \subseteq plan[at]
  BY <1>5, <1>6
<1>16. Survives(rows'[at], Base(at), applied')
  BY <1>9
<1> QED
  BY <1>1, <1>2, <1>3, <1>4, <1>5, <1>6, <1>7, <1>10, <1>12, <1>13, <1>14, <1>15, <1>16 DEF InjectOK

(* What is known of the session at hand when a fault takes its turn.       *)
LEMMA TurnOf ==
    ASSUME InjectOK, DrawOK, NEW c, Turn(c)
    PROVE  /\ Survives(Current, Base(at), applied) /\ Len(Base(at)) \in Nat
           /\ \E m \in Nat : DOMAIN Current = 1 .. m
           /\ \A k \in DOMAIN Current : DOMAIN Current[k] = Fields
           /\ DecisionSpan \in DOMAIN Current /\ Current[DecisionSpan].type = "make_decision"
<1>1. Survives(Current, Base(at), applied) /\ applicant[at] \in Applicants
  BY AtTurn
<1>2. Len(Base(at)) \in Nat
  BY <1>1, BaseEvents DEF Base
<1>3. \E m \in Nat : DOMAIN Current = 1 .. m
  <2>1. PICK m \in 0 .. Len(Base(at)) : DOMAIN Current = 1 .. m
    BY <1>1 DEF Survives
  <2>2. m \in Nat
    BY <1>2
  <2> QED
    BY <2>1, <2>2
<1>4. \A k \in DOMAIN Current : DOMAIN Current[k] = Fields
  BY <1>1 DEF Survives, EventsOf
<1>5. DecisionSpan \in DOMAIN Current /\ Current[DecisionSpan].type = "make_decision"
  BY <1>1, <1>2, DecisionStands DEF DecisionSpan
<1> QED
  BY <1>1, <1>2, <1>3, <1>4, <1>5

(* V1 preserves InjectOK.                                                  *)
LEMMA V1Keeps == ASSUME InjectOK, DrawOK, FaultV1 PROVE InjectOK'
<1> DEFINE approvals == {r \in UNION {Current[k].refs : k \in ApprovalSpans} : r.obj.kind = "Approval"}
           named     == {r \in Current[DecisionSpan].refs : r.obj \in {x.obj : x \in approvals}}
           refs      == Current[DecisionSpan].refs \ named
           stripped  == [Current EXCEPT ![DecisionSpan].refs = refs]
           u         == Without(stripped, ApprovalSpans)
           base      == Base(at)
           more      == applied \cup {1}
<1>1. Turn(1) /\ rows' = [rows EXCEPT ![at] = u] /\ applied' = applied \cup {1}
      /\ UNCHANGED <<given, phase, plan, settled, d1, at>>
  BY DEF FaultV1, Apply, Strip
<1>2. /\ Survives(Current, base, applied) /\ Len(base) \in Nat
      /\ \A k \in DOMAIN Current : DOMAIN Current[k] = Fields
      /\ DecisionSpan \in DOMAIN Current /\ Current[DecisionSpan].type = "make_decision"
  BY <1>1, TurnOf
<1>3. refs \subseteq Current[DecisionSpan].refs
  OBVIOUS
<1> HIDE DEF refs, named
<1>4. Survives(stripped, base, more) /\ Revised(stripped, Current, DecisionSpan)
  <2>1. /\ Current[DecisionSpan].type \in TouchedBy(1)
        /\ Current[DecisionSpan].type # "retrieve_data"
    BY <1>2 DEF TouchedBy
  <2>2. PolicyStands(Current[DecisionSpan]) =>
            \A r \in refs : "obj" \in DOMAIN r /\ (r.obj.kind = "PolicyVersion" => r.obj = CurrentPolicy)
    BY <1>3 DEF PolicyStands
  <2>3. Survives([Current EXCEPT ![DecisionSpan].refs = refs], base, applied \cup {1})
    BY <1>2, <2>1, <2>2, RefsSurvive
  <2>4. Revised([Current EXCEPT ![DecisionSpan].refs = refs], Current, DecisionSpan)
    BY <1>2, RefsRevised
  <2> QED
    BY <2>3, <2>4
<1> HIDE DEF stripped, base, more
<1>5. ASSUME NEW k \in ApprovalSpans
      PROVE  /\ k \in DOMAIN stripped /\ stripped[k].type \in TouchedBy(1)
             /\ stripped[k].type # "make_decision" /\ ~ IsOfDemographics(stripped[k])
  <2>1. k \in DOMAIN Current /\ Current[k].type \in {"request_approval", "grant_approval", "deny_approval"}
    BY DEF ApprovalSpans, SpansOf, VerdictTypes
  <2>2. k # DecisionSpan
    BY <1>2, <2>1
  <2>3. k \in DOMAIN stripped /\ stripped[k] = Current[k]
    BY <1>4, <2>1, <2>2 DEF Revised
  <2> QED
    BY <2>1, <2>3 DEF TouchedBy, IsOfDemographics
<1>6. Survives(u, base, more \cup {1})
  BY <1>2, <1>4, <1>5, WithoutSurvives
<1>7. more \cup {1} = applied \cup {1}
  BY DEF more
<1> HIDE DEF u
<1> QED
  BY <1>1, <1>6, <1>7, ApplyKeeps DEF base

(* V2 preserves InjectOK.                                                  *)
LEMMA V2Keeps == ASSUME InjectOK, DrawOK, FaultV2 PROVE InjectOK'
<1> DEFINE approval == SpanOf(Current, "grant_approval")
           repoint(r, donor) == IF r.qual = "approves" THEN [r EXCEPT !.obj = donor] ELSE r
<1>1. PICK donor \in DonorsFor(at) :
          LET refs == {repoint(r, donor) : r \in Current[approval].refs}
          IN  /\ Turn(2) /\ Ready(2)
              /\ rows' = [rows EXCEPT ![at] = [Current EXCEPT ![approval].refs = refs]]
              /\ applied' = applied \cup {2}
              /\ UNCHANGED <<given, phase, plan, settled, d1, at>>
  BY DEF FaultV2, Apply, Rewrite
<1> DEFINE refs == {repoint(r, donor) : r \in Current[approval].refs}
<1> HIDE DEF refs
<1>2. Survives(Current, Base(at), applied) /\ Len(Base(at)) \in Nat
  BY <1>1, TurnOf
<1>3. approval \in DOMAIN Current /\ Current[approval].type = "grant_approval"
  BY <1>1, <1>2, SpanIs DEF Ready, Finds, DonorAtHand
<1> DEFINE u == [Current EXCEPT ![approval].refs = refs]
<1>4. rows' = [rows EXCEPT ![at] = u]
  BY <1>1 DEF refs
<1> HIDE DEF approval
<1>5. /\ Current[approval].type \in TouchedBy(2)
      /\ Current[approval].type # "retrieve_data" /\ Current[approval].type # "make_decision"
  BY <1>3 DEF TouchedBy
<1>6. Survives(u, Base(at), applied \cup {2})
  BY <1>2, <1>3, <1>5, RefsSurvive
<1> HIDE DEF u
<1> QED
  BY <1>1, <1>6, <1>4, ApplyKeeps

(* V3 preserves InjectOK.                                                  *)
LEMMA V3Keeps == ASSUME InjectOK, DrawOK, FaultV3 PROVE InjectOK'
<1> DEFINE u == SwapApprover(Current, Rogue(at), {})
<1>1. /\ Turn(3) /\ Ready(3) /\ rows' = [rows EXCEPT ![at] = u] /\ applied' = applied \cup {3}
      /\ UNCHANGED <<given, phase, plan, settled, d1, at>>
  BY DEF FaultV3, Apply
<1>2. Survives(Current, Base(at), applied) /\ Len(Base(at)) \in Nat
  BY <1>1, TurnOf
<1>3. SpansOf(Current, {"request_approval"}) # {} /\ SpansOf(Current, VerdictTypes) # {}
  BY <1>1 DEF Ready, Finds, ApprovalAtHand
<1>4. Survives(u, Base(at), applied \cup {3})
  BY <1>2, <1>3, SwapSurvives
<1> HIDE DEF u
<1> QED
  BY <1>1, <1>4, ApplyKeeps

(* V4 preserves InjectOK.                                                  *)
LEMMA V4Keeps == ASSUME InjectOK, DrawOK, FaultV4 PROVE InjectOK'
<1>1. PICK source \in SourcesRead \ {Demographics}, mode \in {"leaf", "tool_call"} :
          LET retrieval == Max(RetrievalsOf(source))
              removed   == {retrieval} \cup
                           (IF mode = "leaf" THEN {} ELSE {AtSeq(Current, Current[retrieval].seq - 1)})
          IN  /\ Turn(4) /\ Ready(4)
              /\ rows' = [rows EXCEPT ![at] = Without(Current, removed)]
              /\ applied' = applied \cup {4}
              /\ UNCHANGED <<given, phase, plan, settled, d1, at>>
  BY DEF FaultV4, Apply
<1> DEFINE retrieval == Max(RetrievalsOf(source))
           call      == AtSeq(Current, Current[retrieval].seq - 1)
           removed   == {retrieval} \cup (IF mode = "leaf" THEN {} ELSE {call})
           u         == Without(Current, removed)
           t         == BaseTrace(at, applicant[at])
<1>2. /\ Turn(4) /\ Ready(4) /\ rows' = [rows EXCEPT ![at] = u] /\ applied' = applied \cup {4}
      /\ UNCHANGED <<given, phase, plan, settled, d1, at>>
  BY <1>1
<1>3. /\ Survives(Current, t, applied) /\ Len(t) \in Nat /\ applicant[at] \in Applicants
      /\ \A b \in applied : b \in FaultClasses /\ b < 4
  BY <1>2, TurnOf, AtTurn DEF Base
<1>4. "retrieve_data" \notin Touched(applied)
  BY <1>3, TouchedBefore DEF FaultClasses
<1>5. retrieval \in RetrievalsOf(source)
  <2>1. PICK m \in Nat : DOMAIN Current = 1 .. m
    BY <1>2, TurnOf
  <2>2. RetrievalsOf(source) # {}
    BY DEF RetrievalsOf, SourcesRead
  <2>3. RetrievalsOf(source) \in SUBSET (1 .. m)
    BY <2>1 DEF RetrievalsOf, SpansOf
  <2> QED
    BY <2>2, <2>3, GreatestOf
<1>6. /\ retrieval \in DOMAIN Current /\ Current[retrieval].type = "retrieve_data"
      /\ \E o \in ReadBy(retrieval) : o.id = source
  BY <1>5 DEF RetrievalsOf, SpansOf
<1>7. IsAt(Current[retrieval].seq - 1, "call_tool")
  BY <1>2, <1>5 DEF Ready, Finds, SourceAtHand
<1> HIDE DEF retrieval, t
<1>8. ~ IsOfDemographics(Current[retrieval])
  <2>1. PICK i \in 1 .. Retrievals : ReadBy(retrieval) = {Resource(RetrievalOrder[i])}
    BY <1>3, <1>4, <1>6, RetrievalsStand DEF t
  <2>2. RetrievalOrder[i] = source
    BY <1>6, <2>1, Owned
  <2>3. Resource(Demographics).id = Demographics /\ Resource(source).id = source
    BY Owned
  <2>4. Resource(Demographics) \notin ReadBy(retrieval)
    BY <2>1, <2>2, <2>3
  <2> QED
    BY <2>4 DEF IsOfDemographics, ReadBy
<1>9. call \in DOMAIN Current /\ Current[call].type = "call_tool"
  <2>1. PICK k \in DOMAIN Current : Current[k].seq = Current[retrieval].seq - 1 /\ Current[k].type = "call_tool"
    BY <1>7 DEF IsAt
  <2>2. call \in DOMAIN Current /\ Current[call].seq = Current[retrieval].seq - 1
    BY <2>1 DEF AtSeq
  <2>3. Current[call].type = t[Current[call].seq].type /\ Current[k].type = t[Current[k].seq].type
    BY <1>3, <2>2, SurvivorIs DEF t
  <2> QED
    BY <2>1, <2>2, <2>3
<1> HIDE DEF call
<1>10. ASSUME NEW k \in removed
       PROVE  /\ k \in DOMAIN Current /\ Current[k].type \in TouchedBy(4)
              /\ Current[k].type # "make_decision" /\ ~ IsOfDemographics(Current[k])
  <2>1. k = retrieval \/ k = call
    OBVIOUS
  <2>2. CASE k = retrieval
    BY <1>6, <1>8, <2>2 DEF TouchedBy
  <2>3. CASE k = call
    BY <1>9, <2>3 DEF TouchedBy, IsOfDemographics
  <2> QED
    BY <2>1, <2>2, <2>3
<1> HIDE DEF removed
<1>11. Survives(u, t, applied \cup {4})
  BY <1>3, <1>10, WithoutSurvives
<1> HIDE DEF u
<1> QED
  BY <1>2, <1>11, ApplyKeeps DEF t, Base

(* V5 preserves InjectOK.                                                  *)
LEMMA V5Keeps == ASSUME InjectOK, DrawOK, FaultV5 PROVE InjectOK'
<1> DEFINE local     == Local(at)
           retrieval == Min(RetrievalsOf(Demographics))
           localise(r) == IF r.obj.kind = "DataResource"
                          THEN [r EXCEPT !.obj = local, !.facts = @ \ {"lawful_basis"}]
                          ELSE r
           refs      == {localise(r) : r \in Current[retrieval].refs}
<1>1. /\ Turn(5) /\ Ready(5)
      /\ rows' = [rows EXCEPT ![at] = [Current EXCEPT ![retrieval].refs = refs]]
      /\ applied' = applied \cup {5}
      /\ UNCHANGED <<given, phase, plan, settled, d1, at>>
  BY DEF FaultV5, Apply, Rewrite
<1> HIDE DEF refs
<1>2. Survives(Current, Base(at), applied) /\ Len(Base(at)) \in Nat
  BY <1>1, TurnOf
<1>3. retrieval \in RetrievalsOf(Demographics)
  <2>1. RetrievalsOf(Demographics) # {}
    BY <1>1 DEF Ready, Finds, DemographicsAtHand
  <2>2. SpansOf(Current, {"retrieve_data"}) \in SUBSET Nat
    BY <1>2, TraceDomain
  <2>3. RetrievalsOf(Demographics) \in SUBSET Nat
    BY <2>2 DEF RetrievalsOf
  <2> QED
    BY <2>1, <2>3, SmallestOf
<1>4. retrieval \in DOMAIN Current /\ Current[retrieval].type = "retrieve_data"
  BY <1>3 DEF RetrievalsOf, SpansOf
<1> HIDE DEF retrieval
<1> DEFINE u == [Current EXCEPT ![retrieval].refs = refs]
<1>5. Current[retrieval].type \in TouchedBy(5) /\ Current[retrieval].type # "make_decision"
  BY <1>4 DEF TouchedBy
<1>6. Survives(u, Base(at), applied \cup {5})
  BY <1>2, <1>4, <1>5, RefsSurvive
<1> HIDE DEF u
<1> QED
  BY <1>1, <1>6, ApplyKeeps DEF u

(* V6 preserves InjectOK.                                                  *)
LEMMA V6Keeps == ASSUME InjectOK, DrawOK, FaultV6 PROVE InjectOK'
<1> DEFINE blank(r)  == IF r.obj.kind = "CreditDecision" /\ r.declares
                        THEN [r EXCEPT !.facts = @ \ {"reason_codes"}] ELSE r
           explainer == Min(Explainers)
           edge      == {r \in Current[explainer].refs : r.qual = "explains" /\ r.obj = DecisionOf(at)}
           refs1     == {blank(r) : r \in Current[DecisionSpan].refs}
           refs2     == Current[explainer].refs \ edge
           u1        == [Current EXCEPT ![DecisionSpan].refs = refs1]
           u2        == [Current EXCEPT ![explainer].refs = refs2]
<1>1. PICK u \in {u1, u2} : /\ Turn(6) /\ Ready(6)
                            /\ rows' = [rows EXCEPT ![at] = u]
                            /\ applied' = applied \cup {6}
                            /\ UNCHANGED <<given, phase, plan, settled, d1, at>>
  BY DEF FaultV6, Apply, Rewrite, Strip
<1>2. /\ Survives(Current, Base(at), applied) /\ Len(Base(at)) \in Nat
      /\ DecisionSpan \in DOMAIN Current /\ Current[DecisionSpan].type = "make_decision"
  BY <1>1, TurnOf
<1>3. Survives(u1, Base(at), applied \cup {6})
  <2>1. \A r : "obj" \in DOMAIN r => "obj" \in DOMAIN blank(r) /\ blank(r).obj = r.obj
    OBVIOUS
  <2>2. PolicyStands(Current[DecisionSpan]) =>
            \A r \in refs1 : "obj" \in DOMAIN r /\ (r.obj.kind = "PolicyVersion" => r.obj = CurrentPolicy)
    <3> HIDE DEF blank
    <3> QED
      BY <2>1 DEF PolicyStands
  <2>3. Current[DecisionSpan].type \in TouchedBy(6) /\ Current[DecisionSpan].type # "retrieve_data"
    BY <1>2 DEF TouchedBy
  <2> HIDE DEF refs1
  <2> QED
    BY <1>2, <2>2, <2>3, RefsSurvive
<1>4. Survives(u2, Base(at), applied \cup {6})
  <2>1. Explainers # {} /\ Explainers \in SUBSET SpansOf(Current, {"emit_reasoning"})
    BY <1>1 DEF Ready, Finds, ExplanationAtHand, Explainers
  <2>2. SpansOf(Current, {"emit_reasoning"}) \in SUBSET Nat
    BY <1>2, TraceDomain
  <2>3. explainer \in SpansOf(Current, {"emit_reasoning"})
    BY <2>1, <2>2, SmallestOf
  <2>4. explainer \in DOMAIN Current /\ Current[explainer].type = "emit_reasoning"
    BY <2>3 DEF SpansOf
  <2>5. /\ Current[explainer].type \in TouchedBy(6) /\ Current[explainer].type # "retrieve_data"
        /\ Current[explainer].type # "make_decision"
    BY <2>4 DEF TouchedBy
  <2> HIDE DEF refs2, explainer
  <2> QED
    BY <1>2, <2>4, <2>5, RefsSurvive
<1> HIDE DEF u1, u2
<1> QED
  BY <1>1, <1>3, <1>4, ApplyKeeps

(* V7 preserves InjectOK.                                                  *)
LEMMA V7Keeps == ASSUME InjectOK, DrawOK, FaultV7 PROVE InjectOK'
<1> DEFINE repoint(r, wrong) == IF r.qual = "to" THEN [r EXCEPT !.obj = wrong] ELSE r
           refs(h, wrong)    == {repoint(r, wrong) : r \in Current[h].refs}
<1>1. PICK handoff \in SpansOf(Current, {"handoff"}) :
          /\ Turn(7)
          /\ \/ rows' = [rows EXCEPT ![at] = Without(Current, {handoff})]
             \/ \E wrong \in Bystanders(handoff) :
                    rows' = [rows EXCEPT ![at] = [Current EXCEPT ![handoff].refs = refs(handoff, wrong)]]
          /\ applied' = applied \cup {7}
          /\ UNCHANGED <<given, phase, plan, settled, d1, at>>
  BY DEF FaultV7, Apply, Rewrite
<1> HIDE DEF refs
<1>2. Survives(Current, Base(at), applied) /\ Len(Base(at)) \in Nat
  BY <1>1, TurnOf
<1>3. handoff \in DOMAIN Current /\ Current[handoff].type = "handoff"
  BY DEF SpansOf
<1>4. /\ Current[handoff].type \in TouchedBy(7) /\ Current[handoff].type # "retrieve_data"
      /\ Current[handoff].type # "make_decision" /\ ~ IsOfDemographics(Current[handoff])
  BY <1>3 DEF TouchedBy, IsOfDemographics
<1> DEFINE u1 == Without(Current, {handoff})
           u2(wrong) == [Current EXCEPT ![handoff].refs = refs(handoff, wrong)]
<1>5. Survives(u1, Base(at), applied \cup {7})
  <2>1. \A k \in {handoff} : /\ k \in DOMAIN Current /\ Current[k].type \in TouchedBy(7)
                             /\ Current[k].type # "make_decision" /\ ~ IsOfDemographics(Current[k])
    BY <1>3, <1>4
  <2> QED
    BY <1>2, <2>1, WithoutSurvives
<1>6. ASSUME NEW wrong PROVE Survives(u2(wrong), Base(at), applied \cup {7})
  BY <1>2, <1>3, <1>4, RefsSurvive
<1>7. rows' = [rows EXCEPT ![at] = u1] \/ \E wrong : rows' = [rows EXCEPT ![at] = u2(wrong)]
  BY <1>1
<1> HIDE DEF u1, u2
<1> QED
  BY <1>1, <1>5, <1>6, <1>7, ApplyKeeps

(* V8 preserves InjectOK.                                                  *)
LEMMA V8Keeps == ASSUME InjectOK, DrawOK, FaultV8 PROVE InjectOK'
<1> DEFINE repoint(r, target) == IF r.obj.kind = "PolicyVersion" THEN [r EXCEPT !.obj = target] ELSE r
<1>1. PICK target \in OtherPolicies :
          LET refs == {repoint(r, target) : r \in Current[DecisionSpan].refs}
          IN  /\ Turn(8)
              /\ rows' = [rows EXCEPT ![at] = [Current EXCEPT ![DecisionSpan].refs = refs]]
              /\ applied' = applied \cup {8}
              /\ UNCHANGED <<given, phase, plan, settled, d1, at>>
  BY DEF FaultV8, Apply, Rewrite
<1> DEFINE refs == {repoint(r, target) : r \in Current[DecisionSpan].refs}
<1> HIDE DEF refs
<1>2. /\ Survives(Current, Base(at), applied)
      /\ DecisionSpan \in DOMAIN Current /\ Current[DecisionSpan].type = "make_decision"
  BY <1>1, TurnOf
<1> DEFINE u == [Current EXCEPT ![DecisionSpan].refs = refs]
<1>3. rows' = [rows EXCEPT ![at] = u]
  BY <1>1 DEF refs
<1>4. Current[DecisionSpan].type \in TouchedBy(8) /\ Current[DecisionSpan].type # "retrieve_data"
  BY <1>2 DEF TouchedBy
<1>5. Survives(u, Base(at), applied \cup {8})
  BY <1>2, <1>4, RefsSurvive
<1> HIDE DEF u
<1> QED
  BY <1>1, <1>5, <1>3, ApplyKeeps

-----------------------------------------------------------------------------
(* InjectOK holds initially.                                               *)
LEMMA InjectInit == Init /\ DrawOK => InjectOK
<1> SUFFICES ASSUME Init, DrawOK PROVE InjectOK
  OBVIOUS
<1>1. /\ phase = "allocate" /\ plan = [s \in Sessions |-> {}] /\ d1 = {} /\ at = 1 /\ applied = {}
      /\ rows = [s \in Sessions |-> BaseTrace(s, applicant[s])]
  BY DEF Init
<1>2. N \in Nat \ {0} /\ at \in Sessions
  BY <1>1, InstanceFacts DEF DrawOK, Sessions
<1>3. \A s \in Sessions : applicant[s] \in Applicants
  BY ApplyingAssumption DEF DrawOK
<1>4. PlanOK
  <2>1. \A s \in Sessions : plan[s] = {}
    BY <1>1
  <2> QED
    BY <2>1 DEF PlanOK
<1>5. \A s \in Sessions : rows[s] = Base(s)
  BY <1>1 DEF Base
<1>6. RowsOK
  <2>1. rows = [s \in Sessions |-> rows[s]]
    BY <1>1
  <2>2. ASSUME NEW s \in Sessions PROVE \E m \in 0 .. Len(Base(s)) : DOMAIN rows[s] = 1 .. m
    BY <1>3, <1>5, BaseEvents DEF Base
  <2> QED
    BY <2>1, <2>2 DEF RowsOK
<1> QED
  BY <1>1, <1>2, <1>4, <1>5, <1>6 DEF InjectOK

(* Eligibility is settled with the split.                                  *)
LEMMA EligibleKeeps == ASSUME UNCHANGED given PROVE \A c, s : Eligible(c, s)' = Eligible(c, s)
  BY DEF given, Eligible, NeedsApproval, HasGrantApproval, Outcome

(* Nothing has been written yet.                                           *)
LEMMA QuietKeeps ==
    ASSUME InjectOK, phase \notin {"inject", "done"}, phase' \notin {"inject", "done"},
           UNCHANGED <<given, applied, rows>>, d1' \subseteq Sessions, at' \in Sessions, PlanOK'
    PROVE  InjectOK'
<1>1. UNCHANGED <<applicant, instance>>
  BY DEF given
<1>2. Sessions' = Sessions
  BY <1>1 DEF Sessions, N
<1>3. \A s : Base(s)' = Base(s)
  BY <1>1 DEF Base
<1>4. applied = {} /\ \A s \in Sessions : rows[s] = Base(s)
  BY DEF InjectOK
<1>5. RowsOK'
  <2>1. RowsOK
    BY DEF InjectOK
  <2> QED
    BY <1>2, <1>3, <2>1 DEF RowsOK
<1> QED
  BY <1>2, <1>3, <1>4, <1>5 DEF InjectOK

(* PlanOK survives a step that leaves the plan alone.                      *)
LEMMA PlanKept == ASSUME PlanOK, UNCHANGED <<given, plan>> PROVE PlanOK'
<1>1. UNCHANGED <<applicant, instance>> /\ plan' = plan
  BY DEF given
<1>2. Sessions' = Sessions
  BY <1>1 DEF Sessions, N
<1> QED
  BY <1>1, <1>2, EligibleKeeps DEF PlanOK

(* Drawing the classes of one session preserves PlanOK.                    *)
LEMMA MixedPlan ==
    ASSUME PlanOK, DrawOK, AllocateMixed
    PROVE  PlanOK'
<1>1. PICK classes \in MixedChoices(at, instance.budget[at]) : plan' = [plan EXCEPT ![at] = classes]
  BY DEF AllocateMixed
<1>2. UNCHANGED <<applicant, instance>> /\ UNCHANGED given
  BY DEF AllocateMixed, given
<1>3. Sessions' = Sessions
  BY <1>2 DEF Sessions, N
<1>4. Compatible(classes) /\ \A c \in classes : Eligible(c, at)
  BY <1>1 DEF MixedChoices
<1>5. ASSUME NEW b \in classes \cap T1Classes, NEW c \in classes \cap T1Classes PROVE b = c
  <2>1. IsFiniteSet(classes \cap T1Classes)
    <3>1. IsFiniteSet(1 .. 3)
      BY UpTo
    <3>2. T1Classes = 1 .. 3
      BY DEF T1Classes
    <3> QED
      BY <3>1, <3>2, FS_Subset
  <2>2. SUFFICES ASSUME b # c PROVE FALSE
    OBVIOUS
  <2>3. Cardinality({b, c}) = 2 /\ {b, c} \in SUBSET (classes \cap T1Classes)
    <3>1. Cardinality({b}) = 1 /\ IsFiniteSet({b})
      BY FS_Singleton
    <3>2. {b, c} = {b} \cup {c}
      OBVIOUS
    <3>3. Cardinality({b} \cup {c}) = Cardinality({b}) + 1
      BY <2>2, <3>1, FS_AddElement
    <3> QED
      BY <3>1, <3>2, <3>3
  <2>4. 2 <= Cardinality(classes \cap T1Classes)
    BY <2>1, <2>3, FS_Subset
  <2>5. Cardinality(classes \cap T1Classes) \in Nat
    BY <2>1, Counted
  <2> QED
    BY <1>4, <2>4, <2>5 DEF Compatible
<1>6. ASSUME NEW s \in Sessions
      PROVE  (\A c \in plan'[s] : Eligible(c, s)) /\ (\A b, c \in plan'[s] \cap T1Classes : b = c)
  <2>1. plan'[s] = IF s = at THEN classes ELSE plan[s]
    BY <1>1 DEF DrawOK
  <2> QED
    BY <1>4, <1>5, <2>1 DEF PlanOK
<1> QED
  BY <1>2, <1>3, <1>6, EligibleKeeps DEF PlanOK

(* A session about to be written.                                          *)
LEMMA FreshSession ==
    ASSUME DrawOK, NEW s \in Sessions
    PROVE  Survives(Base(s), Base(s), {}) /\ Len(Base(s)) \in Nat
<1>1. applicant[s] \in Applicants
  BY ApplyingAssumption DEF DrawOK
<1> QED
  BY <1>1, BaseSurvives, BaseEvents DEF Base

(* Validating the donors and choosing distractors preserves InjectOK.      *)
LEMMA ValidateKeeps == ASSUME InjectOK, DrawOK, Validate PROVE InjectOK'
<1>1. /\ UNCHANGED <<applicant, instance, plan, at, applied, rows>> /\ phase = "validate"
      /\ UNCHANGED given
  BY DEF Validate, given
<1>2. PlanOK /\ PlanOK' /\ RowsOK
  BY <1>1, PlanKept DEF InjectOK
<1>3. Sessions' = Sessions
  BY <1>1 DEF Sessions, N
<1>4. \A s : Base(s)' = Base(s) /\ DonorsFor(s)' = DonorsFor(s)
  BY <1>1, <1>3 DEF Base, DonorsFor, Donors, DecisionOf
<1>5. applied = {} /\ (\A s \in Sessions : rows[s] = Base(s)) /\ at \in Sessions /\ d1 \subseteq Sessions
  BY <1>1 DEF InjectOK
<1>6. CASE phase' = "refused" /\ UNCHANGED d1
  BY <1>1, <1>2, <1>5, <1>6, QuietKeeps
<1>7. CASE /\ ~ \E s \in Sessions : 2 \in plan[s] /\ DonorsFor(s) = {}
           /\ d1' \in kSubset(Min({D1Take, Cardinality(D1Pool)}), D1Pool)
           /\ phase' = "inject"
  <2>1. d1' \subseteq Sessions
    BY <1>7 DEF kSubset, D1Pool
  <2>2. Survives(Base(at), Base(at), {})
    BY <1>5, FreshSession
  <2>3. RowsOK'
    BY <1>1, <1>2, <1>3, <1>4 DEF RowsOK
  <2> QED
    BY <1>1, <1>2, <1>3, <1>4, <1>5, <1>7, <2>1, <2>2, <2>3 DEF InjectOK
<1> QED
  BY <1>6, <1>7 DEF Validate

(* Writing a session preserves InjectOK.                                   *)
LEMMA WriteKeeps == ASSUME InjectOK, DrawOK, WriteSession PROVE InjectOK'
<1>1. /\ UNCHANGED <<applicant, instance, plan, d1>> /\ phase = "inject" /\ applied' = {}
      /\ UNCHANGED given
  BY DEF WriteSession, given
<1> DEFINE swapped == IF at \in d1 THEN ApplyD1(Current) ELSE Current
           u == IF plan[at] = {} /\ at \notin d1 THEN Current ELSE RecomputeEnd(Renumber(swapped))
<1>2. rows' = [rows EXCEPT ![at] = u]
  BY DEF WriteSession, Current
<1>3. DOMAIN u = DOMAIN Current
  BY SwapDomain DEF RecomputeEnd, Renumber, ApplyD1
<1> HIDE DEF u
<1>4. PlanOK /\ PlanOK' /\ RowsOK
  BY <1>1, PlanKept DEF InjectOK
<1>5. Sessions' = Sessions
  BY <1>1 DEF Sessions, N
<1>6. \A s : Base(s)' = Base(s) /\ DonorsFor(s)' = DonorsFor(s)
  BY <1>1, <1>5 DEF Base, DonorsFor, Donors, DecisionOf
<1>7. /\ d1 \subseteq Sessions /\ at \in Sessions
      /\ \A s \in Sessions : s > at => rows[s] = Base(s)
      /\ \A s \in Sessions : 2 \in plan[s] => DonorsFor(s) # {}
  BY <1>1 DEF InjectOK
<1>8. DOMAIN rows = Sessions
  BY <1>4 DEF RowsOK
<1>9. rows'[at] = u /\ \A s \in Sessions : s # at => rows'[s] = rows[s]
  BY <1>2, <1>7, <1>8
<1>10. RowsOK'
  <2>1. rows' = [s \in Sessions |-> rows'[s]]
    BY <1>2, <1>8
  <2>2. ASSUME NEW s \in Sessions PROVE \E m \in 0 .. Len(Base(s)) : DOMAIN rows'[s] = 1 .. m
    <3>1. PICK m \in 0 .. Len(Base(s)) : DOMAIN rows[s] = 1 .. m
      BY <1>4 DEF RowsOK
    <3>2. DOMAIN rows'[s] = DOMAIN rows[s]
      BY <1>3, <1>9 DEF Current
    <3> QED
      BY <3>1, <3>2
  <2> QED
    BY <1>5, <1>6, <2>1, <2>2 DEF RowsOK
<1>11. N \in Nat \ {0}
  BY InstanceFacts DEF DrawOK
<1>12. CASE at < N /\ at' = at + 1 /\ UNCHANGED phase
  <2>1. at' \in Sessions /\ at' > at /\ \A s \in Sessions : s > at' => s > at
    BY <1>7, <1>11, <1>12 DEF Sessions
  <2>2. \A s \in Sessions : s > at => s # at /\ rows'[s] = Base(s)
    BY <1>7, <1>9, <1>11 DEF Sessions
  <2>3. Survives(Base(at'), Base(at'), {})
    <3>1. ASSUME NEW s \in Sessions PROVE Survives(Base(s), Base(s), {})
      BY FreshSession
    <3> QED
      BY <2>1, <3>1
  <2>4. rows'[at'] = Base(at') /\ \A s \in Sessions : s > at' => rows'[s] = Base(s)
    BY <2>1, <2>2
  <2> QED
    BY <1>1, <1>4, <1>5, <1>6, <1>7, <1>10, <1>12, <2>1, <2>3, <2>4 DEF InjectOK
<1>13. CASE phase' = "done" /\ UNCHANGED at
  BY <1>1, <1>4, <1>5, <1>6, <1>7, <1>10, <1>13 DEF InjectOK
<1> QED
  BY <1>12, <1>13 DEF WriteSession

(* A stuttering step preserves InjectOK.                                   *)
LEMMA InjectKept == ASSUME InjectOK, UNCHANGED vars PROVE InjectOK'
<1>1. UNCHANGED <<applicant, instance, phase, plan, d1, at, applied, rows>> /\ UNCHANGED given
  BY DEF vars, given
<1>2. Sessions' = Sessions /\ Todo' = Todo
  BY <1>1 DEF Sessions, N, Todo
<1>3. \A s : Base(s)' = Base(s) /\ DonorsFor(s)' = DonorsFor(s)
  BY <1>1, <1>2 DEF Base, DonorsFor, Donors, DecisionOf
<1>4. PlanOK' /\ RowsOK'
  BY <1>1, <1>2, <1>3, PlanKept DEF InjectOK, RowsOK
<1> QED
  BY <1>1, <1>2, <1>3, <1>4 DEF InjectOK

(* Every step preserves InjectOK, given AllocationOK.                      *)
LEMMA InjectStep == InjectOK /\ AllocationOK /\ AllocationOK' /\ [Next]_vars => InjectOK'
<1> SUFFICES ASSUME InjectOK, AllocationOK, AllocationOK', [Next]_vars PROVE InjectOK'
  OBVIOUS
<1>1. DrawOK /\ SingleOK' /\ PlanOK /\ at \in Sessions /\ d1 \subseteq Sessions
  BY DEF AllocationOK, InjectOK
<1>2. CASE AllocateClean
  <2>1. UNCHANGED <<given, plan, applied, rows, d1, at>> /\ phase = "allocate" /\ phase' = "validate"
    BY <1>2 DEF AllocateClean
  <2> QED
    BY <1>1, <2>1, PlanKept, QuietKeeps
<1>3. CASE AllocateSingle
  <2>1. /\ UNCHANGED <<given, applied, rows, d1, at>> /\ phase = "allocate"
        /\ phase' \in {"allocate", "short"} /\ instance.split = "single"
    BY <1>3 DEF AllocateSingle
  <2>2. instance' = instance
    BY <2>1 DEF given
  <2>3. PlanOK'
    <3>1. \A s \in Sessions' :
              plan'[s] = {} \/ \E c \in settled' : plan'[s] = {c} /\ Eligible(c, s)'
      BY <1>1, <2>1, <2>2 DEF SingleOK
    <3> QED
      BY <3>1 DEF PlanOK
  <2> QED
    BY <1>1, <2>1, <2>3, QuietKeeps
<1>4. CASE SingleAllocated
  <2>1. UNCHANGED <<given, plan, applied, rows, d1, at>> /\ phase = "allocate" /\ phase' = "validate"
    BY <1>4 DEF SingleAllocated
  <2> QED
    BY <1>1, <2>1, PlanKept, QuietKeeps
<1>5. CASE AllocateMixed
  <2>1. /\ UNCHANGED <<given, applied, rows, d1>> /\ phase = "allocate" /\ phase' \in {"allocate", "validate"}
        /\ IF at < N THEN at' = at + 1 ELSE at' = 1
    BY <1>5 DEF AllocateMixed
  <2>2. at' \in Sessions
    BY <1>1, <2>1, InstanceFacts DEF DrawOK, Sessions
  <2>3. PlanOK'
    BY <1>1, <1>5, MixedPlan
  <2> QED
    BY <1>1, <2>1, <2>2, <2>3, QuietKeeps
<1>6. CASE Validate
  BY <1>1, <1>6, ValidateKeeps
<1>7. CASE ApplyFault
  BY <1>1, <1>7, V1Keeps, V2Keeps, V3Keeps, V4Keeps, V5Keeps, V6Keeps, V7Keeps, V8Keeps DEF ApplyFault
<1>8. CASE WriteSession
  BY <1>1, <1>8, WriteKeeps
<1>9. CASE UNCHANGED vars
  BY <1>9, InjectKept
<1> QED
  BY <1>2, <1>3, <1>4, <1>5, <1>6, <1>7, <1>8, <1>9 DEF Next

(* InjectOK is an invariant.                                               *)
LEMMA InjectHolds == Spec => []InjectOK
<1>1. Init => InjectOK
  BY AllocationInit, InjectInit DEF AllocationOK
<1> QED
  BY <1>1, InjectStep, AllocationHolds, PTL DEF Spec

(* Every session is an applicant, a plan out of the catalogue and a trace  *)
(* no longer than the fleet wrote it; what has been applied was planned.   *)
THEOREM InjectorTypeCorrect == Spec => []TypeOK
<1>1. AllocationOK /\ InjectOK => TypeOK
  <2> SUFFICES ASSUME AllocationOK, InjectOK PROVE TypeOK
    OBVIOUS
  <2>1. DrawOK /\ applicant \in [Sessions -> Applicants]
    BY ApplyingAssumption DEF AllocationOK, DrawOK
  <2>2. ASSUME NEW s \in Sessions PROVE DOMAIN rows[s] \subseteq 1 .. Len(BaseTrace(s, applicant[s]))
    <3>1. PICK m \in 0 .. Len(Base(s)) : DOMAIN rows[s] = 1 .. m
      BY DEF InjectOK, RowsOK
    <3>2. Len(Base(s)) \in Nat
      BY <2>1, FreshSession
    <3> QED
      BY <3>1, <3>2 DEF Base
  <2> QED
    BY <2>1, <2>2 DEF DrawOK, InjectOK, TypeOK
<1> QED
  BY <1>1, AllocationHolds, InjectHolds, PTL

-----------------------------------------------------------------------------
(* The kinds of objects that an event of a type may declare.               *)
DeclaredBy(type) ==
    CASE type = "session_start"    -> {"Session", "Application", "Applicant", "PolicyVersion"}
      [] type = "invoke_agent"     -> {"Agent"}
      [] type = "call_llm"         -> {"Model", "Prompt"}
      [] type = "call_tool"        -> {"Tool"}
      [] type = "retrieve_data"    -> {"DataResource"}
      [] type = "request_approval" -> {"HumanApprover"}
      [] type \in VerdictTypes     -> {"Approval"}
      [] type = "make_decision"    -> {"CreditDecision"}
      [] OTHER                     -> {}

ApprovalTypes == {"request_approval"} \cup VerdictTypes

(* Objects that no fault takes the declaration of; those that an event     *)
(* declares for itself alone; and those of an approval.                    *)
StandingKinds == DeclaredBy("session_start") \cup DeclaredBy("invoke_agent") \cup DeclaredBy("call_llm")
OwnKinds      == {"Tool", "DataResource"}
ApprovalKinds == {"HumanApprover", "Approval"}

FactsOf(o) ==
    IF o.kind = "DataResource"
    THEN IF o.owner = 0 THEN ResourceFacts(o.id) ELSE ResourceFacts(o.id) \ {"lawful_basis"}
    ELSE IF o.kind = "HumanApprover" THEN IF o.id = "rogue" THEN {} ELSE {"authorised"}
    ELSE IF o = SupersededPolicy THEN {"effective_to"}
    ELSE {}

(* Which objects an event of a type names, under which qualifiers.         *)
NamedFits(o, qual, type) ==
    /\ o.kind \in StandingKinds \cup OwnKinds \cup ApprovalKinds \cup {"CreditDecision"}
    /\ o.kind = "HumanApprover" => type \in ApprovalTypes
    /\ o.kind = "Approval" => type \in ApprovalTypes \cup {"make_decision"}
    /\ qual = "approves" => o.kind = "CreditDecision"
    /\ qual = "reads" => o.kind = "DataResource"
    /\ qual = "to" => o.kind = "Agent"
    /\ type = "handoff" /\ o.kind = "Agent" => qual \in {"from", "to"}

(* A reference of an event; the facts of a decision are not fixed.         *)
RefFits(r, type) ==
    /\ DOMAIN r = {"obj", "qual", "declares", "facts"}
    /\ r.declares \in BOOLEAN
    /\ NamedFits(r.obj, r.qual, type)
    /\ r.declares => r.obj.kind \in DeclaredBy(type)
    /\ r.declares /\ r.obj.kind # "CreditDecision" => r.facts = FactsOf(r.obj)
    /\ r.obj.kind \in OwnKinds => r.declares

(* One reference to an object.  Only session_start, which names two        *)
(* policies, and a handoff have two references to objects of a kind.       *)
RefsFit(e) ==
    /\ \A r \in e.refs : RefFits(r, e.type)
    /\ e.type \notin {"session_start", "handoff"} =>
          \A q, r \in e.refs : q.obj.kind = r.obj.kind => q = r
    /\ \A q, r \in e.refs : q.obj = r.obj => q = r
    /\ e.type = "handoff" => \A q, r \in e.refs : q.qual = r.qual => q = r

DeclaredIn(tr) == {r.obj : r \in {q \in UNION {e.refs : e \in EventsOf(tr)} : q.declares}}

Standing(s) == {o \in DeclaredIn(Base(s)) : o.kind \in StandingKinds}

(* An event of session s, but for the objects of an approval.              *)
EventFits(e, s) ==
    /\ RefsFit(e)
    /\ \A r \in e.refs :
          /\ r.obj.kind \in StandingKinds => r.obj \in Standing(s)
          /\ r.obj.kind = "CreditDecision" =>
                IF r.declares THEN r.obj = DecisionOf(s) ELSE r.obj \in {DecisionOf(x) : x \in Sessions}

ApprovalsFit(tr) ==
    \A e \in EventsOf(tr) : \A r \in e.refs : r.obj.kind \in ApprovalKinds => r.obj \in DeclaredIn(tr)

IdsFit(tr, s) ==
    /\ \A j, k \in DOMAIN tr : tr[j].id = tr[k].id => j = k
    /\ \A k \in DOMAIN tr : \E j \in 1 .. 2 * Retrievals + 20 : tr[k].id = <<s, j>>
    /\ \A j, k \in DOMAIN tr : tr[j].type = "make_decision" /\ tr[k].type = "make_decision" => j = k

(* What a trace of session s is, whatever faults have been applied to it:  *)
(* the references of its events are proper, and what it refers to it       *)
(* declares, or is the decision of a session.                              *)
TraceFits(tr, s) ==
    /\ \A e \in EventsOf(tr) : EventFits(e, s)
    /\ ApprovalsFit(tr)
    /\ Standing(s) \cup {DecisionOf(s)} \subseteq DeclaredIn(tr)
    /\ IdsFit(tr, s)

(* A session that has been written.                                        *)
Written(tr) ==
    /\ tr = [k \in DOMAIN tr |-> tr[k]]
    /\ \A k \in DOMAIN tr : /\ tr[k].seq = k
                            /\ tr[k].type = "session_end" => tr[k].count = Len(tr)

(* No distractor is drawn before the donors are settled, and none for a    *)
(* session whose approval a fault has touched.                             *)
DistractorsOK ==
    /\ phase \notin {"inject", "done"} => d1 = {}
    /\ \A s \in d1 : plan[s] \cap T1Classes = {}

LogOK ==
    /\ DistractorsOK
    /\ \A s \in Sessions : TraceFits(rows[s], s)
    /\ phase = "inject" => \A s \in Sessions : s < at => Written(rows[s])
    /\ phase = "done" => \A s \in Sessions : Written(rows[s])

-----------------------------------------------------------------------------
(* What a reference of a script is.                                        *)
RoughRef(q, type) ==
    /\ q.obj = Obj(q.obj.kind, q.obj.id)
    /\ q.mode \in {"ref", "declare", "maybe"}
    /\ NamedFits(q.obj, q.qual, type)
    /\ q.mode # "ref" => q.obj.kind \in DeclaredBy(type)
    /\ q.mode # "ref" /\ q.obj.kind # "CreditDecision" => q.facts = FactsOf(q.obj)
    /\ q.obj.kind \in OwnKinds => q.mode = "maybe"
    /\ q.obj.kind = "CreditDecision" => q.obj = Decision

StepFits(e) ==
    /\ \A q \in e.refs : RoughRef(q, e.type)
    /\ e.type \notin {"session_start", "handoff"} =>
          \A p, q \in e.refs : p.obj.kind = q.obj.kind => p = q
    /\ \A p, q \in e.refs : p.obj = q.obj => p = q
    /\ e.type = "handoff" => \A p, q \in e.refs : p.qual = q.qual => p = q

(* The sets of kinds and types, written out.                               *)
LEMMA KindsAre ==
    /\ StandingKinds = {"Session", "Application", "Applicant", "PolicyVersion", "Agent", "Model", "Prompt"}
    /\ OwnKinds = {"Tool", "DataResource"} /\ ApprovalKinds = {"HumanApprover", "Approval"}
    /\ ApprovalTypes = {"request_approval", "grant_approval", "deny_approval"}
    /\ DeclaredBy("session_start") = {"Session", "Application", "Applicant", "PolicyVersion"}
    /\ DeclaredBy("invoke_agent") = {"Agent"} /\ DeclaredBy("call_llm") = {"Model", "Prompt"}
    /\ DeclaredBy("call_tool") = {"Tool"} /\ DeclaredBy("retrieve_data") = {"DataResource"}
    /\ DeclaredBy("request_approval") = {"HumanApprover"}
    /\ DeclaredBy("grant_approval") = {"Approval"} /\ DeclaredBy("deny_approval") = {"Approval"}
    /\ DeclaredBy("make_decision") = {"CreditDecision"}
    /\ \A type \in {"handoff", "emit_reasoning", "notify_applicant", "session_end"} : DeclaredBy(type) = {}
<1>1. /\ DeclaredBy("session_start") = {"Session", "Application", "Applicant", "PolicyVersion"}
      /\ DeclaredBy("invoke_agent") = {"Agent"} /\ DeclaredBy("call_llm") = {"Model", "Prompt"}
      /\ DeclaredBy("call_tool") = {"Tool"} /\ DeclaredBy("retrieve_data") = {"DataResource"}
      /\ DeclaredBy("request_approval") = {"HumanApprover"}
  BY DEF DeclaredBy, VerdictTypes
<1>2. /\ DeclaredBy("grant_approval") = {"Approval"} /\ DeclaredBy("deny_approval") = {"Approval"}
      /\ DeclaredBy("make_decision") = {"CreditDecision"}
  BY DEF DeclaredBy, VerdictTypes
<1>3. \A type \in {"handoff", "emit_reasoning", "notify_applicant", "session_end"} : DeclaredBy(type) = {}
  BY DEF DeclaredBy, VerdictTypes
<1>4. StandingKinds = {"Session", "Application", "Applicant", "PolicyVersion", "Agent", "Model", "Prompt"}
  BY <1>1 DEF StandingKinds
<1> QED
  BY <1>1, <1>2, <1>3, <1>4 DEF OwnKinds, ApprovalKinds, ApprovalTypes, VerdictTypes

(* The references every node makes are of a kind its events may have.      *)
LEMMA RefsRough ==
    ASSUME NEW role, NEW type, type # "handoff"
    PROVE  /\ RoughRef(Within, type) /\ RoughRef(Concerns(Application), type)
           /\ RoughRef(Concerns(Applicant), type) /\ RoughRef(PerformedBy(role), type)
           /\ RoughRef(Concerns(Decision), type)
<1>1. ASSUME NEW kind \in {"Session", "Application", "Applicant", "Agent"}, NEW id,
             NEW qual \in {"within", "concerns", "performed_by"}
      PROVE  RoughRef(Ref(qual, Obj(kind, id)), type)
  BY KindsAre DEF RoughRef, NamedFits, Ref, Obj
<1>2. RoughRef(Ref("concerns", Decision), type)
  BY KindsAre DEF RoughRef, NamedFits, Ref, Obj, Decision
<1> QED
  BY <1>1, <1>2 DEF Within, Concerns, PerformedBy, Application, Applicant, Session, Agent

(* The kinds of the objects every node references.                         *)
LEMMA RefKinds ==
    ASSUME NEW role
    PROVE  /\ Within.obj.kind = "Session" /\ Concerns(Application).obj.kind = "Application"
           /\ Concerns(Applicant).obj.kind = "Applicant" /\ PerformedBy(role).obj.kind = "Agent"
           /\ Concerns(Decision).obj.kind = "CreditDecision"
  BY DEF Within, Concerns, PerformedBy, Ref, Agent, Session, Application, Applicant, Decision, Obj

(* An agent invocation fits.                                               *)
LEMMA InvokeAgentFits == ASSUME NEW role PROVE StepFits(InvokeAgent(role))
<1> DEFINE e == InvokeAgent(role)
           q1 == MaybeDeclare("performed_by", Agent(role), {})
<1>1. e.type = "invoke_agent" /\ e.refs = {q1, Within, Concerns(Application)}
  BY DEF InvokeAgent, Event
<1>2. RoughRef(q1, "invoke_agent") /\ q1.obj.kind = "Agent"
  BY KindsAre DEF RoughRef, NamedFits, MaybeDeclare, Agent, Obj, FactsOf, SupersededPolicy
<1> HIDE DEF e, q1
<1> QED
  BY <1>1, <1>2, RefsRough, RefKinds DEF StepFits, e

(* A model call fits.                                                      *)
LEMMA CallLLMFits == ASSUME NEW role PROVE StepFits(CallLLM(role))
<1> DEFINE e == CallLLM(role)
           q1 == MaybeDeclare("uses", Model, {})
           q2 == MaybeDeclare("uses", Prompt(role), {})
<1>1. e.type = "call_llm" /\ e.refs = {q1, q2, PerformedBy(role), Concerns(Application), Within}
  BY DEF CallLLM, Event
<1>2. RoughRef(q1, "call_llm") /\ q1.obj.kind = "Model"
  BY KindsAre DEF RoughRef, NamedFits, MaybeDeclare, Model, Obj, FactsOf, SupersededPolicy
<1>3. RoughRef(q2, "call_llm") /\ q2.obj.kind = "Prompt"
  BY KindsAre DEF RoughRef, NamedFits, MaybeDeclare, Prompt, Obj, FactsOf, SupersededPolicy
<1> HIDE DEF e, q1, q2
<1> QED
  BY <1>1, <1>2, <1>3, RefsRough, RefKinds DEF StepFits, e

(* A tool call fits.                                                       *)
LEMMA CallToolFits == ASSUME NEW role, NEW name PROVE StepFits(CallTool(role, name))
<1> DEFINE e == CallTool(role, name)
           q1 == MaybeDeclare("uses", Tool(name), {})
<1>1. e.type = "call_tool" /\ e.refs = {q1, PerformedBy(role), Concerns(Application), Within}
  BY DEF CallTool, Event
<1>2. RoughRef(q1, "call_tool") /\ q1.obj.kind = "Tool"
  BY KindsAre DEF RoughRef, NamedFits, MaybeDeclare, Tool, Obj, FactsOf, SupersededPolicy
<1> HIDE DEF e, q1
<1> QED
  BY <1>1, <1>2, RefsRough, RefKinds DEF StepFits, e

(* A retrieval fits.                                                       *)
LEMMA RetrieveDataFits == ASSUME NEW role, NEW x PROVE StepFits(RetrieveData(role, x))
<1> DEFINE e == RetrieveData(role, x)
           q1 == MaybeDeclare("reads", Resource(x), ResourceFacts(x))
<1>1. /\ e.type = "retrieve_data"
      /\ e.refs \in SUBSET {q1, Concerns(Application), PerformedBy(role), Within, Concerns(Applicant)}
  BY DEF RetrieveData, Event
<1>2. RoughRef(q1, "retrieve_data") /\ q1.obj.kind = "DataResource"
  BY KindsAre DEF RoughRef, NamedFits, MaybeDeclare, Resource, Obj, FactsOf
<1> HIDE DEF e, q1
<1> QED
  BY <1>1, <1>2, RefsRough, RefKinds DEF StepFits, e

(* A reasoning fits.                                                       *)
LEMMA ReasoningFits == ASSUME NEW role PROVE StepFits(Reasoning(role))
<1> DEFINE e == Reasoning(role)
<1>1. e.type = "emit_reasoning" /\ e.refs = {PerformedBy(role), Concerns(Application), Within}
  BY DEF Reasoning, Event
<1> HIDE DEF e
<1> QED
  BY <1>1, RefsRough, RefKinds DEF StepFits, e

(* The final reasoning fits.                                               *)
LEMMA FinalReasoningFits == ASSUME NEW role PROVE StepFits(FinalReasoning(role))
<1> DEFINE e == FinalReasoning(role)
           q1 == Ref("explains", Decision)
<1>1. /\ e.type = "emit_reasoning"
      /\ e.refs = {PerformedBy(role), Concerns(Application), Within, q1}
  BY DEF FinalReasoning, Reasoning, Event
<1>2. RoughRef(q1, "emit_reasoning") /\ q1.obj.kind = "CreditDecision"
  BY KindsAre DEF RoughRef, NamedFits, Ref, Decision, Obj
<1> HIDE DEF e, q1
<1> QED
  BY <1>1, <1>2, RefsRough, RefKinds DEF StepFits, e

(* A handoff fits.                                                         *)
LEMMA HandoffFits == ASSUME NEW x, NEW y, x # y PROVE StepFits(Handoff(x, y))
<1> DEFINE e == Handoff(x, y)
           q1 == Ref("from", Agent(x))
           q2 == Ref("to", Agent(y))
<1>1. e.type = "handoff" /\ e.refs = {q1, q2, Within, Concerns(Application)}
  BY DEF Handoff, Event
<1>2. /\ RoughRef(q1, "handoff") /\ RoughRef(q2, "handoff")
      /\ RoughRef(Within, "handoff") /\ RoughRef(Concerns(Application), "handoff")
  BY KindsAre DEF RoughRef, NamedFits, Ref, Agent, Obj, Within, Concerns, Session, Application
<1>3. /\ q1.obj = Agent(x) /\ q2.obj = Agent(y) /\ Agent(x) # Agent(y)
      /\ Agent(x).kind = "Agent" /\ Agent(y).kind = "Agent"
      /\ q1.qual = "from" /\ q2.qual = "to" /\ Within.qual = "within"
      /\ Concerns(Application).qual = "concerns"
  BY Owned DEF Ref, Within, Concerns
<1> HIDE DEF e, q1, q2
<1> QED
  BY <1>1, <1>2, <1>3, RefsRough, RefKinds DEF StepFits, e

(* The request for an approval fits.                                       *)
LEMMA RequestApprovalFits == ASSUME NEW role PROVE StepFits(RequestApproval(role))
<1> DEFINE e == RequestApproval(role)
           q1 == Ref("requests", Approval)
           q2 == Declare("concerns", Approver, {"authorised"})
<1>1. /\ e.type = "request_approval"
      /\ e.refs = {q1, q2, Concerns(Decision), Concerns(Application), PerformedBy(role), Within}
  BY DEF RequestApproval, Event
<1>2. RoughRef(q1, "request_approval") /\ q1.obj.kind = "Approval"
  BY KindsAre DEF RoughRef, NamedFits, Declare, Ref, Approval, Approver, Decision, Obj, FactsOf,
                       SupersededPolicy, CurrentPolicy
<1>3. RoughRef(q2, "request_approval") /\ q2.obj.kind = "HumanApprover"
  BY KindsAre DEF RoughRef, NamedFits, Declare, Ref, Approval, Approver, Decision, Obj, FactsOf,
                       SupersededPolicy, CurrentPolicy
<1> HIDE DEF e, q1, q2
<1> QED
  BY <1>1, <1>2, <1>3, RefsRough, RefKinds DEF StepFits, e

(* The verdict fits.                                                       *)
LEMMA ApprovalVerdictFits == ASSUME NEW a PROVE StepFits(ApprovalVerdict(a))
<1> DEFINE e == ApprovalVerdict(a)
           q1 == Declare("produces", Approval, {})
           q2 == Ref("performed_by", Approver)
           q3 == Ref(IF a.granted THEN "approves" ELSE "concerns", Decision)
<1>1. e.type \in VerdictTypes /\ e.refs = {q1, q2, q3, Concerns(Application), Within}
  BY DEF ApprovalVerdict, Event, VerdictTypes
<1>2. ASSUME NEW type \in VerdictTypes
      PROVE  /\ RoughRef(q1, type) /\ q1.obj.kind = "Approval"
             /\ RoughRef(q2, type) /\ q2.obj.kind = "HumanApprover"
             /\ RoughRef(q3, type) /\ q3.obj.kind = "CreditDecision"
  <2>1. RoughRef(q1, type) /\ q1.obj.kind = "Approval"
    BY KindsAre DEF RoughRef, NamedFits, Declare, Approval, Obj, FactsOf, SupersededPolicy, VerdictTypes
  <2>2. RoughRef(q2, type) /\ q2.obj.kind = "HumanApprover"
    BY KindsAre DEF RoughRef, NamedFits, Ref, Approver, Obj, VerdictTypes
  <2>3. RoughRef(q3, type) /\ q3.obj.kind = "CreditDecision"
    BY KindsAre DEF RoughRef, NamedFits, Ref, Decision, Obj
  <2> QED
    BY <2>1, <2>2, <2>3
<1> HIDE DEF e, q1, q2, q3
<1> QED
  BY <1>1, <1>2, RefsRough, RefKinds DEF StepFits, VerdictTypes, e

(* The decision fits.                                                      *)
LEMMA MakeDecisionFits == ASSUME NEW role, NEW a PROVE StepFits(MakeDecision(role, a))
<1> DEFINE e == MakeDecision(role, a)
           q1 == Declare("produces", Decision, IF Adverse(a) THEN {"reason_codes"} ELSE {})
           q2 == Ref("governed_by", CurrentPolicy)
           q3 == Concerns(Approval)
<1>1. /\ e.type = "make_decision"
      /\ e.refs = {q1, Concerns(Application), Concerns(Applicant), q2, PerformedBy(role), q3, Within}
  BY DEF MakeDecision, Event
<1>2. RoughRef(q1, "make_decision") /\ q1.obj.kind = "CreditDecision"
  BY KindsAre DEF RoughRef, NamedFits, Declare, Decision, Obj
<1>3. RoughRef(q2, "make_decision") /\ q2.obj.kind = "PolicyVersion"
  BY KindsAre DEF RoughRef, NamedFits, Ref, CurrentPolicy, Obj
<1>4. RoughRef(q3, "make_decision") /\ q3.obj.kind = "Approval"
  BY KindsAre DEF RoughRef, NamedFits, Ref, Concerns, Approval, Obj
<1> HIDE DEF e, q1, q2, q3
<1> QED
  BY <1>1, <1>2, <1>3, <1>4, RefsRough, RefKinds DEF StepFits, e

(* The notification fits.                                                  *)
LEMMA NotifyApplicantFits == ASSUME NEW role PROVE StepFits(NotifyApplicant(role))
<1> DEFINE e == NotifyApplicant(role)
<1>1. /\ e.type = "notify_applicant"
      /\ e.refs = {Concerns(Applicant), Concerns(Decision), Concerns(Application), PerformedBy(role), Within}
  BY DEF NotifyApplicant, Event
<1> HIDE DEF e
<1> QED
  BY <1>1, RefsRough, RefKinds DEF StepFits, e

(* session_end fits.                                                       *)
LEMMA SessionEndFits == StepFits(SessionEndEvent)
<1> DEFINE e == SessionEndEvent
<1>1. e.type = "session_end" /\ e.refs = {Within, Concerns(Application), Concerns(Decision)}
  BY DEF SessionEndEvent, Event
<1> HIDE DEF e
<1> QED
  BY <1>1, RefsRough, RefKinds DEF StepFits, e

(* session_start fits.                                                     *)
LEMMA SessionStartFits == StepFits(SessionStartEvent)
<1> DEFINE e == SessionStartEvent
           q1 == Declare("within", Session, {})
           q2 == Declare("concerns", Application, {})
           q3 == Declare("concerns", Applicant, {})
           q4 == Declare("governed_by", CurrentPolicy, {})
           q5 == Declare("", SupersededPolicy, {"effective_to"})
<1>1. e.type = "session_start" /\ e.refs = {q1, q2, q3, q4, q5}
  BY DEF SessionStartEvent, Event
<1>2. RoughRef(q1, "session_start") /\ RoughRef(q2, "session_start") /\ RoughRef(q3, "session_start")
  BY KindsAre DEF RoughRef, NamedFits, Declare, Session, Application, Applicant, Obj, FactsOf, SupersededPolicy
<1>3. RoughRef(q4, "session_start") /\ RoughRef(q5, "session_start")
  BY KindsAre DEF RoughRef, NamedFits, Declare, CurrentPolicy, Obj, FactsOf, SupersededPolicy
<1>4. /\ q1.obj.kind = "Session" /\ q2.obj.kind = "Application" /\ q3.obj.kind = "Applicant"
      /\ q4.obj = CurrentPolicy /\ q5.obj = SupersededPolicy
      /\ CurrentPolicy # SupersededPolicy
      /\ CurrentPolicy.kind = "PolicyVersion" /\ SupersededPolicy.kind = "PolicyVersion"
  BY Owned DEF Declare, Session, Application, Applicant, Obj
<1> HIDE DEF e, q1, q2, q3, q4, q5
<1> QED
  BY <1>1, <1>2, <1>3, <1>4 DEF StepFits, e

Prompters == {"intake", "scoring", "adjudication"}
Roles     == Prompters \cup {"data_retrieval"}

(* What the scripts name besides tools and resources.                      *)
Cast ==
    {Session, Application, Applicant, CurrentPolicy, SupersededPolicy, Model, Approver, Approval, Decision}
    \cup {Agent(role) : role \in Roles} \cup {Prompt(role) : role \in Prompters}

(* Every object a step references is of the cast, but for tools and        *)
(* resources.                                                              *)
LEMMA CastIs ==
    ASSUME NEW role \in Roles, NEW other \in Roles, NEW p \in Prompters, NEW name, NEW x, NEW a
    PROVE  /\ \A e \in {InvokeAgent(role), CallLLM(p), Reasoning(role), FinalReasoning(role),
                         Handoff(role, other), RequestApproval(role), ApprovalVerdict(a),
                         MakeDecision(role, a), NotifyApplicant(role), SessionStartEvent, SessionEndEvent} :
                  \A q \in e.refs : q.obj \in Cast
           /\ \A q \in CallTool(role, name).refs : q.obj \in Cast \cup {Tool(name)}
           /\ \A q \in RetrieveData(role, x).refs : q.obj \in Cast \cup {Resource(x)}
<1>1. /\ \A q \in InvokeAgent(role).refs : q.obj \in Cast
      /\ \A q \in CallLLM(p).refs : q.obj \in Cast
  <2>1. \A q \in InvokeAgent(role).refs : q.obj \in {Agent(role), Application, Session}
    BY DEF InvokeAgent, Event, MaybeDeclare, Within, Concerns, PerformedBy, Ref
  <2>2. \A q \in CallLLM(p).refs : q.obj \in {Agent(p), Application, Session, Model, Prompt(p)}
    BY DEF CallLLM, Event, MaybeDeclare, Within, Concerns, PerformedBy, Ref
  <2> QED
    BY <2>1, <2>2 DEF Cast, Roles
<1>2. /\ \A q \in Reasoning(role).refs : q.obj \in Cast
      /\ \A q \in FinalReasoning(role).refs : q.obj \in Cast
      /\ \A q \in Handoff(role, other).refs : q.obj \in Cast
  <2>1. \A q \in Reasoning(role).refs : q.obj \in {Agent(role), Application, Session}
    BY DEF Reasoning, Event, Within, Concerns, PerformedBy, Ref
  <2>2. \A q \in FinalReasoning(role).refs : q.obj \in {Agent(role), Application, Session, Decision}
    BY DEF FinalReasoning, Reasoning, Event, Within, Concerns, PerformedBy, Ref
  <2>3. \A q \in Handoff(role, other).refs : q.obj \in {Agent(role), Agent(other), Application, Session}
    BY DEF Handoff, Event, Within, Concerns, Ref
  <2> QED
    BY <2>1, <2>2, <2>3 DEF Cast
<1>3. /\ \A q \in RequestApproval(role).refs : q.obj \in Cast
      /\ \A q \in ApprovalVerdict(a).refs : q.obj \in Cast
      /\ \A q \in MakeDecision(role, a).refs : q.obj \in Cast
  <2>1. \A q \in RequestApproval(role).refs :
            q.obj \in {Agent(role), Application, Session, Approval, Approver, Decision}
    BY DEF RequestApproval, Event, Declare, Within, Concerns, PerformedBy, Ref
  <2>2. \A q \in ApprovalVerdict(a).refs : q.obj \in {Application, Session, Approval, Approver, Decision}
    BY DEF ApprovalVerdict, Event, Declare, Within, Concerns, Ref
  <2>3. \A q \in MakeDecision(role, a).refs :
            q.obj \in {Agent(role), Application, Applicant, Session, Approval, Decision, CurrentPolicy}
    BY DEF MakeDecision, Event, Declare, Within, Concerns, PerformedBy, Ref
  <2> QED
    BY <2>1, <2>2, <2>3 DEF Cast
<1>4. /\ \A q \in NotifyApplicant(role).refs : q.obj \in Cast
      /\ \A q \in SessionStartEvent.refs : q.obj \in Cast
      /\ \A q \in SessionEndEvent.refs : q.obj \in Cast
  <2>1. \A q \in NotifyApplicant(role).refs : q.obj \in {Agent(role), Application, Applicant, Session, Decision}
    BY DEF NotifyApplicant, Event, Within, Concerns, PerformedBy, Ref
  <2>2. \A q \in SessionStartEvent.refs :
            q.obj \in {Session, Application, Applicant, CurrentPolicy, SupersededPolicy}
    <3>1. SessionStartEvent.refs =
              {Declare("within", Session, {}), Declare("concerns", Application, {}),
               Declare("concerns", Applicant, {}), Declare("governed_by", CurrentPolicy, {}),
               Declare("", SupersededPolicy, {"effective_to"})}
      BY DEF SessionStartEvent, Event
    <3>2. /\ Declare("within", Session, {}).obj = Session
          /\ Declare("concerns", Application, {}).obj = Application
          /\ Declare("concerns", Applicant, {}).obj = Applicant
          /\ Declare("governed_by", CurrentPolicy, {}).obj = CurrentPolicy
          /\ Declare("", SupersededPolicy, {"effective_to"}).obj = SupersededPolicy
      BY DEF Declare
    <3> QED
      BY <3>1, <3>2
  <2>3. \A q \in SessionEndEvent.refs : q.obj \in {Application, Session, Decision}
    BY DEF SessionEndEvent, Event, Within, Concerns, Ref
  <2> QED
    BY <2>1, <2>2, <2>3 DEF Cast
<1>5. \A q \in CallTool(role, name).refs : q.obj \in Cast \cup {Tool(name)}
  <2>1. \A q \in CallTool(role, name).refs : q.obj \in {Agent(role), Application, Session, Tool(name)}
    BY DEF CallTool, Event, MaybeDeclare, Within, Concerns, PerformedBy, Ref
  <2> QED
    BY <2>1 DEF Cast
<1>6. \A q \in RetrieveData(role, x).refs : q.obj \in Cast \cup {Resource(x)}
  <2>1. \A q \in RetrieveData(role, x).refs :
            q.obj \in {Agent(role), Application, Applicant, Session, Resource(x)}
    BY DEF RetrieveData, Event, MaybeDeclare, Within, Concerns, PerformedBy, Ref
  <2> QED
    BY <2>1 DEF Cast
<1> QED
  BY <1>1, <1>2, <1>3, <1>4, <1>5, <1>6

(* The tool or resource that the event at position k may name.             *)
OwnAt(o, k) ==
    \/ \E i \in 1 .. Retrievals : k = 2 * i + 5 /\ o = Tool(RetrievalOrder[i])
    \/ \E i \in 1 .. Retrievals : k = 2 * i + 6 /\ o = Resource(RetrievalOrder[i])
    \/ k = 2 * Retrievals + 9 /\ o = Tool("risk_scorecard")

PositionFits(e, k) ==
    /\ StepFits(e)
    /\ \A q \in e.refs : q.obj \in Cast \/ OwnAt(q.obj, k)
    /\ e.type = "session_end" => k = 2 * Retrievals + 20

(* Every event of a script fits at its position.                           *)
LEMMA PositionsFit ==
    ASSUME NEW a, NEW c, IsScript(c, a), NEW k \in DOMAIN c
    PROVE  PositionFits(c[k], k)
<1> DEFINE n == Retrievals
<1>1. n \in Nat \ {0} /\ k \in 1 .. 2 * n + 20
  BY RetrievalFacts DEF IsScript
<1>2. /\ "intake" \in Roles /\ "data_retrieval" \in Roles /\ "scoring" \in Roles /\ "adjudication" \in Roles
      /\ "intake" \in Prompters /\ "scoring" \in Prompters /\ "adjudication" \in Prompters
  BY DEF Roles, Prompters
<1>3. CASE k \in 1 .. 6
  <2>1. /\ c[1] = SessionStartEvent /\ c[2] = InvokeAgent("intake") /\ c[3] = CallLLM("intake")
        /\ c[4] = Reasoning("intake") /\ c[5] = Handoff("intake", "data_retrieval")
        /\ c[6] = InvokeAgent("data_retrieval")
    BY DEF IsScript
  <2>2. StepFits(c[k]) /\ c[k].type # "session_end"
    BY <1>3, <2>1, EventTypes, SessionStartFits, InvokeAgentFits, CallLLMFits, ReasoningFits, HandoffFits
  <2>3. \A q \in c[k].refs : q.obj \in Cast
    BY <1>2, <1>3, <2>1, CastIs
  <2> QED
    BY <2>2, <2>3 DEF PositionFits
<1>4. ASSUME NEW i \in 1 .. n, k = 2 * i + 5 PROVE PositionFits(c[k], k)
  <2>1. c[k] = CallTool("data_retrieval", RetrievalOrder[i])
    BY <1>4 DEF IsScript
  <2>2. StepFits(c[k]) /\ c[k].type # "session_end"
    BY <2>1, EventTypes, CallToolFits
  <2>3. \A q \in c[k].refs : q.obj \in Cast \cup {Tool(RetrievalOrder[i])}
    BY <1>2, <2>1, CastIs
  <2>4. OwnAt(Tool(RetrievalOrder[i]), k)
    BY <1>4 DEF OwnAt
  <2> QED
    BY <2>2, <2>3, <2>4 DEF PositionFits
<1>5. ASSUME NEW i \in 1 .. n, k = 2 * i + 6 PROVE PositionFits(c[k], k)
  <2>1. c[k] = RetrieveData("data_retrieval", RetrievalOrder[i])
    BY <1>5 DEF IsScript
  <2>2. StepFits(c[k]) /\ c[k].type # "session_end"
    BY <2>1, EventTypes, RetrieveDataFits
  <2>3. \A q \in c[k].refs : q.obj \in Cast \cup {Resource(RetrievalOrder[i])}
    BY <1>2, <2>1, CastIs
  <2>4. OwnAt(Resource(RetrievalOrder[i]), k)
    BY <1>5 DEF OwnAt
  <2> QED
    BY <2>2, <2>3, <2>4 DEF PositionFits
<1>6. ASSUME NEW j \in 7 .. 20, k = 2 * n + j PROVE PositionFits(c[k], k)
  <2>1. CASE j = 9
    <3>1. c[k] = CallTool("scoring", "risk_scorecard") /\ k = 2 * n + 9
      BY <1>6, <2>1 DEF IsScript
    <3>2. StepFits(c[k]) /\ c[k].type # "session_end"
      BY <3>1, EventTypes, CallToolFits
    <3>3. \A q \in c[k].refs : q.obj \in Cast \cup {Tool("risk_scorecard")}
      BY <1>2, <3>1, CastIs
    <3>4. OwnAt(Tool("risk_scorecard"), k)
      BY <3>1 DEF OwnAt
    <3> QED
      BY <3>2, <3>3, <3>4 DEF PositionFits
  <2>2. CASE j \in {7, 8, 10, 11, 12, 13, 14}
    <3>1. /\ j = 7 => c[k] = Handoff("data_retrieval", "scoring")
          /\ j = 8 => c[k] = InvokeAgent("scoring")
          /\ j = 10 => c[k] = CallLLM("scoring")
          /\ j = 11 => c[k] = Reasoning("scoring")
          /\ j = 12 => c[k] = Handoff("scoring", "adjudication")
          /\ j = 13 => c[k] = InvokeAgent("adjudication")
          /\ j = 14 => c[k] = CallLLM("adjudication")
      BY <1>6 DEF IsScript
    <3>2. StepFits(c[k]) /\ c[k].type # "session_end"
      BY <2>2, <3>1, EventTypes, InvokeAgentFits, CallLLMFits, ReasoningFits, HandoffFits
    <3>3. \A q \in c[k].refs : q.obj \in Cast
      BY <1>2, <2>2, <3>1, CastIs
    <3> QED
      BY <3>2, <3>3 DEF PositionFits
  <2>3. CASE j \in 15 .. 20
    <3>1. /\ j = 15 => c[k] = RequestApproval("adjudication")
          /\ j = 16 => c[k] = ApprovalVerdict(a)
          /\ j = 17 => c[k] = MakeDecision("adjudication", a)
          /\ j = 18 => c[k] = FinalReasoning("adjudication")
          /\ j = 19 => c[k] = NotifyApplicant("adjudication")
          /\ j = 20 => c[k] = SessionEndEvent
      BY <1>6 DEF IsScript
    <3>2. StepFits(c[k])
      BY <2>3, <3>1, RequestApprovalFits, ApprovalVerdictFits, MakeDecisionFits, FinalReasoningFits,
         NotifyApplicantFits, SessionEndFits
    <3>3. c[k].type # "session_end" \/ j = 20
      BY <2>3, <3>1, EventTypes
    <3>4. \A q \in c[k].refs : q.obj \in Cast
      <4>1. \A e \in {RequestApproval("adjudication"), ApprovalVerdict(a), MakeDecision("adjudication", a),
                      FinalReasoning("adjudication"), NotifyApplicant("adjudication"), SessionEndEvent} :
                \A q \in e.refs : q.obj \in Cast
        BY <1>2, CastIs
      <4> QED
        BY <2>3, <3>1, <4>1
    <3> QED
      BY <1>6, <3>2, <3>3, <3>4 DEF PositionFits
  <2> QED
    BY <2>1, <2>2, <2>3
<1> QED
  BY <1>1, <1>3, <1>4, <1>5, <1>6, ScriptPositions

OfferedBefore(c, k) == UNION {Offers(c[j]) : j \in 1 .. k - 1}

(* The references of a base trace, from the script.                        *)
LEMMA BaseRefs ==
    ASSUME NEW s, NEW a \in Applicants, NEW k \in 1 .. 2 * Retrievals + 20, NEW c, c = CreditScript(a)
    PROVE  LET t == BaseTrace(s, a)
           IN  /\ t[k].refs = {SpanRef(q, q.obj \notin OfferedBefore(c, k), s) : q \in c[k].refs}
               /\ t[k].count = IF c[k].type = "session_end" THEN k ELSE 0
               /\ t = [j \in 1 .. 2 * Retrievals + 20 |-> t[j]]
<1>1. DOMAIN c = 1 .. 2 * Retrievals + 20
  BY ScriptIs DEF IsScript
<1> QED
  BY <1>1 DEF BaseTrace, OfferedBefore

(* Owning an object keeps its kind and its name.                           *)
LEMMA OwnersKeep ==
    ASSUME NEW o, o = Obj(o.kind, o.id), NEW s
    PROVE  /\ OwnedBy(o, s).kind = o.kind /\ OwnedBy(o, s).id = o.id
           /\ OwnedBy(o, s).owner = IF o.kind \in SessionKinds THEN s ELSE 0
           /\ o.kind # "CreditDecision" => FactsOf(OwnedBy(o, s)) = FactsOf(o)
<1>1. /\ OwnedBy(o, s).kind = o.kind /\ OwnedBy(o, s).id = o.id
      /\ OwnedBy(o, s).owner = IF o.kind \in SessionKinds THEN s ELSE 0
  BY DEF OwnedBy, Obj
<1>2. CASE o.kind \in SessionKinds
  <2>1. /\ o.kind \notin {"DataResource", "HumanApprover"} /\ o # SupersededPolicy
        /\ OwnedBy(o, s) # SupersededPolicy
    BY <1>1, <1>2, Owned DEF SessionKinds
  <2> QED
    BY <1>1, <2>1 DEF FactsOf
<1>3. CASE o.kind \notin SessionKinds
  BY <1>1, <1>3 DEF OwnedBy
<1> QED
  BY <1>1, <1>2, <1>3

(* Owned objects are told apart as the objects of the script are.          *)
LEMMA OwnersDiffer ==
    ASSUME NEW o, o = Obj(o.kind, o.id), NEW s,
           NEW p, p = Obj(p.kind, p.id), OwnedBy(o, s) = OwnedBy(p, s)
    PROVE  o = p
<1>1. o.kind = p.kind /\ o.id = p.id
  BY OwnersKeep
<1> QED
  BY <1>1

(* What a span reference keeps of the script's.                            *)
LEMMA SpanRefIs ==
    ASSUME NEW q, NEW fresh \in BOOLEAN, NEW s
    PROVE  LET r == SpanRef(q, fresh, s)
           IN  /\ DOMAIN r = {"obj", "qual", "declares", "facts"}
               /\ r.obj = OwnedBy(q.obj, s) /\ r.qual = q.qual
               /\ r.declares \in BOOLEAN
               /\ r.declares <=> q.mode = "declare" \/ (q.mode = "maybe" /\ fresh)
               /\ r.declares => r.facts = q.facts
  BY DEF SpanRef

(* A reference of the script becomes a proper one, a tool or resource of   *)
(* its own provided nobody has offered it before.                          *)
LEMMA RefLifts ==
    ASSUME NEW q, NEW type, RoughRef(q, type), NEW fresh \in BOOLEAN, NEW s,
           q.obj.kind \in OwnKinds => fresh
    PROVE  RefFits(SpanRef(q, fresh, s), type)
<1> DEFINE r == SpanRef(q, fresh, s)
<1>1. /\ DOMAIN r = {"obj", "qual", "declares", "facts"}
      /\ r.obj = OwnedBy(q.obj, s) /\ r.qual = q.qual
      /\ r.declares \in BOOLEAN
      /\ r.declares <=> q.mode = "declare" \/ (q.mode = "maybe" /\ fresh)
      /\ r.declares => r.facts = q.facts
  BY SpanRefIs
<1>2. q.obj = Obj(q.obj.kind, q.obj.id)
  BY DEF RoughRef
<1>3. r.obj.kind = q.obj.kind /\ (q.obj.kind # "CreditDecision" => FactsOf(r.obj) = FactsOf(q.obj))
  BY <1>1, <1>2, OwnersKeep
<1> HIDE DEF r
<1>4. NamedFits(r.obj, r.qual, type)
  BY <1>1, <1>3 DEF RoughRef, NamedFits
<1>5. r.declares => q.mode # "ref"
  BY <1>1
<1>6. /\ r.declares => r.obj.kind \in DeclaredBy(type)
      /\ r.declares /\ r.obj.kind # "CreditDecision" => r.facts = FactsOf(r.obj)
  BY <1>1, <1>3, <1>5 DEF RoughRef
<1>7. r.obj.kind \in OwnKinds => r.declares
  BY <1>1, <1>3 DEF RoughRef
<1>8. RefFits(r, type)
  BY <1>1, <1>4, <1>6, <1>7 DEF RefFits
<1> QED
  BY <1>8 DEF r

(* No two events of a script offer the same tool or resource.              *)
LEMMA OwnOnce ==
    ASSUME NEW o, NEW j \in 1 .. 2 * Retrievals + 20, NEW k \in 1 .. 2 * Retrievals + 20,
           OwnAt(o, j), OwnAt(o, k)
    PROVE  j = k
<1>1. /\ \A x, y : Tool(x) = Tool(y) => x = y
      /\ \A x, y : Resource(x) = Resource(y) => x = y
      /\ \A x, y : Tool(x) # Resource(y)
  BY DEF Tool, Resource, Obj
<1>2. /\ \A i, l \in 1 .. Retrievals : RetrievalOrder[i] = RetrievalOrder[l] => i = l
      /\ \A i \in 1 .. Retrievals : RetrievalOrder[i] # "risk_scorecard"
  BY RetrievalAssumption, RetrievalFacts
<1> QED
  BY <1>1, <1>2 DEF OwnAt

(* Tools and resources are not of the cast.                                *)
LEMMA CastKinds == \A o \in Cast : o.kind \notin OwnKinds
<1>1. /\ \A o \in {Session, Application, Applicant, CurrentPolicy, SupersededPolicy} : o.kind \notin OwnKinds
      /\ \A o \in {Model, Approver, Approval, Decision} : o.kind \notin OwnKinds
  BY DEF Session, Application, Applicant, CurrentPolicy, SupersededPolicy, Model, Approver, Approval,
         Decision, Obj, OwnKinds
<1>2. \A role : Agent(role).kind \notin OwnKinds /\ Prompt(role).kind \notin OwnKinds
  BY DEF Agent, Prompt, Obj, OwnKinds
<1> QED
  BY <1>1, <1>2 DEF Cast

(* A tool or resource is referenced where it is first offered.             *)
LEMMA OwnIsFresh ==
    ASSUME NEW a, NEW c, IsScript(c, a), NEW k \in DOMAIN c, NEW q \in c[k].refs, q.obj.kind \in OwnKinds
    PROVE  q.obj \notin OfferedBefore(c, k)
<1>1. DOMAIN c = 1 .. 2 * Retrievals + 20
  BY DEF IsScript
<1>2. ASSUME NEW j \in 1 .. k - 1, q.obj \in Offers(c[j]) PROVE FALSE
  <2>1. j \in DOMAIN c /\ j # k
    BY <1>1, RetrievalFacts
  <2>2. PICK p \in c[j].refs : p.obj = q.obj
    BY <1>2 DEF Offers
  <2>3. PositionFits(c[j], j) /\ PositionFits(c[k], k)
    BY <2>1, PositionsFit
  <2>4. OwnAt(q.obj, j) /\ OwnAt(q.obj, k)
    BY <2>2, <2>3, CastKinds DEF PositionFits
  <2> QED
    BY <1>1, <2>1, <2>4, OwnOnce
<1> QED
  BY <1>2 DEF OfferedBefore

(* An event of a base trace names an object once.                          *)
LEMMA BaseRefsFit ==
    ASSUME NEW s, NEW a \in Applicants, NEW t, t = BaseTrace(s, a), NEW k \in DOMAIN t
    PROVE  RefsFit(t[k])
<1> DEFINE c == CreditScript(a)
           fresh(q) == q.obj \notin OfferedBefore(c, k)
<1>1. IsScript(c, a) /\ DOMAIN c = 1 .. 2 * Retrievals + 20 /\ k \in DOMAIN c
  BY ScriptIs, BaseIsScript DEF IsScript
<1>2. t[k].refs = {SpanRef(q, fresh(q), s) : q \in c[k].refs} /\ t[k].type = c[k].type
  BY <1>1, BaseRefs, BaseIsScript
<1>3. StepFits(c[k])
  BY <1>1, PositionsFit DEF PositionFits
<1>4. \A q \in c[k].refs : q.obj.kind \in OwnKinds => fresh(q)
  BY <1>1, OwnIsFresh
<1> HIDE DEF c
<1>5. ASSUME NEW q \in c[k].refs
      PROVE  /\ RefFits(SpanRef(q, fresh(q), s), c[k].type)
             /\ SpanRef(q, fresh(q), s).obj = OwnedBy(q.obj, s)
             /\ SpanRef(q, fresh(q), s).qual = q.qual
             /\ q.obj = Obj(q.obj.kind, q.obj.id)
             /\ OwnedBy(q.obj, s).kind = q.obj.kind
  <2>1. RoughRef(q, c[k].type)
    BY <1>3 DEF StepFits
  <2>2. q.obj = Obj(q.obj.kind, q.obj.id)
    BY <2>1 DEF RoughRef
  <2> QED
    BY <1>4, <2>1, <2>2, RefLifts, SpanRefIs, OwnersKeep
<1> HIDE DEF fresh
<1>6. \A r \in t[k].refs : RefFits(r, t[k].type)
  BY <1>2, <1>5
<1>7. ASSUME NEW x \in t[k].refs, NEW y \in t[k].refs
      PROVE  \E p, q \in c[k].refs :
                 /\ x = SpanRef(p, fresh(p), s) /\ y = SpanRef(q, fresh(q), s)
                 /\ x.obj.kind = p.obj.kind /\ y.obj.kind = q.obj.kind
                 /\ x.qual = p.qual /\ y.qual = q.qual
                 /\ x.obj = y.obj => p.obj = q.obj
  <2>1. PICK p \in c[k].refs : x = SpanRef(p, fresh(p), s)
    BY <1>2
  <2>2. PICK q \in c[k].refs : y = SpanRef(q, fresh(q), s)
    BY <1>2
  <2>3. x.obj = y.obj => p.obj = q.obj
    <3>1. /\ x.obj = OwnedBy(p.obj, s) /\ y.obj = OwnedBy(q.obj, s)
          /\ p.obj = Obj(p.obj.kind, p.obj.id) /\ q.obj = Obj(q.obj.kind, q.obj.id)
      BY <1>5, <2>1, <2>2
    <3> QED
      BY <3>1, OwnersDiffer
  <2> QED
    BY <1>5, <2>1, <2>2, <2>3
<1>8. t[k].type \notin {"session_start", "handoff"} =>
          \A x, y \in t[k].refs : x.obj.kind = y.obj.kind => x = y
  BY <1>2, <1>3, <1>7 DEF StepFits
<1>9. \A x, y \in t[k].refs : x.obj = y.obj => x = y
  BY <1>3, <1>7 DEF StepFits
<1>10. t[k].type = "handoff" => \A x, y \in t[k].refs : x.qual = y.qual => x = y
  BY <1>2, <1>3, <1>7 DEF StepFits
<1> QED
  BY <1>6, <1>8, <1>9, <1>10 DEF RefsFit

(* What the script offers is declared in the trace.                        *)
LEMMA OfferedIsDeclared ==
    ASSUME NEW s, NEW a \in Applicants, NEW t, t = BaseTrace(s, a), NEW c, c = CreditScript(a),
           NEW o, \E j \in DOMAIN c : o \in Offers(c[j])
    PROVE  OwnedBy(o, s) \in DeclaredIn(t)
<1> DEFINE J == {j \in DOMAIN c : o \in Offers(c[j])}
<1>1. IsScript(c, a) /\ DOMAIN c = 1 .. 2 * Retrievals + 20 /\ DOMAIN t = DOMAIN c
  BY ScriptIs, BaseIsScript DEF IsScript
<1>2. J \in SUBSET Nat /\ J # {}
  BY <1>1, RetrievalFacts
<1>3. PICK j \in J : \A i \in J : j <= i
  BY <1>2, LeastOf
<1>4. o \notin OfferedBefore(c, j)
  <2>1. ASSUME NEW i \in 1 .. j - 1, o \in Offers(c[i]) PROVE FALSE
    <3>1. i \in J /\ ~ (j <= i)
      BY <1>1, <2>1, RetrievalFacts
    <3> QED
      BY <1>3, <3>1
  <2> QED
    BY <2>1 DEF OfferedBefore
<1>5. PICK q \in c[j].refs : q.mode # "ref" /\ q.obj = o
  BY DEF Offers
<1> DEFINE r == SpanRef(q, q.obj \notin OfferedBefore(c, j), s)
<1>6. r \in t[j].refs
  <2>1. t[j].refs = {SpanRef(p, p.obj \notin OfferedBefore(c, j), s) : p \in c[j].refs}
    <3>1. j \in 1 .. 2 * Retrievals + 20
      BY <1>1
    <3> HIDE DEF J
    <3> QED
      BY <3>1, BaseRefs
  <2> QED
    BY <2>1
<1>7. q.mode \in {"declare", "maybe"}
  <2>1. RoughRef(q, c[j].type)
    BY <1>1, PositionsFit DEF PositionFits, StepFits
  <2> QED
    BY <1>5, <2>1 DEF RoughRef
<1>8. r.declares /\ r.obj = OwnedBy(o, s)
  BY <1>4, <1>5, <1>7, SpanRefIs
<1>9. t[j] \in EventsOf(t)
  BY <1>1 DEF EventsOf
<1> HIDE DEF r
<1> QED
  BY <1>6, <1>8, <1>9 DEF DeclaredIn

(* Every object of the cast is offered by some step.                       *)
LEMMA CastOffered ==
    ASSUME NEW a, NEW c, IsScript(c, a), NEW o \in Cast
    PROVE  \E j \in DOMAIN c : o \in Offers(c[j])
<1> DEFINE n == Retrievals
<1>1. n \in Nat /\ DOMAIN c = 1 .. 2 * n + 20
  BY RetrievalFacts DEF IsScript
<1>2. ASSUME NEW e, NEW q \in e.refs, q.mode # "ref" PROVE q.obj \in Offers(e)
  BY <1>2 DEF Offers
<1>3. \A x \in {Session, Application, Applicant, CurrentPolicy, SupersededPolicy} : x \in Offers(c[1])
  <2>1. /\ \A x \in {Session, Application, Applicant, CurrentPolicy, SupersededPolicy} :
               \E q \in SessionStartEvent.refs : q.obj = x /\ q.mode = "declare"
    <3>1. SessionStartEvent.refs =
              {Declare("within", Session, {}), Declare("concerns", Application, {}),
               Declare("concerns", Applicant, {}), Declare("governed_by", CurrentPolicy, {}),
               Declare("", SupersededPolicy, {"effective_to"})}
      BY DEF SessionStartEvent, Event
    <3>2. /\ Declare("within", Session, {}).obj = Session
          /\ Declare("concerns", Application, {}).obj = Application
          /\ Declare("concerns", Applicant, {}).obj = Applicant
          /\ Declare("governed_by", CurrentPolicy, {}).obj = CurrentPolicy
          /\ Declare("", SupersededPolicy, {"effective_to"}).obj = SupersededPolicy
      BY DEF Declare
    <3>3. \A q \in SessionStartEvent.refs : q.mode = "declare"
      <4>1. /\ Declare("within", Session, {}).mode = "declare"
            /\ Declare("concerns", Application, {}).mode = "declare"
            /\ Declare("concerns", Applicant, {}).mode = "declare"
            /\ Declare("governed_by", CurrentPolicy, {}).mode = "declare"
            /\ Declare("", SupersededPolicy, {"effective_to"}).mode = "declare"
        BY DEF Declare
      <4> QED
        BY <3>1, <4>1
    <3> QED
      BY <3>1, <3>2, <3>3
  <2>2. c[1] = SessionStartEvent
    BY DEF IsScript
  <2> QED
    BY <1>2, <2>1, <2>2
<1>4. ASSUME NEW role PROVE Agent(role) \in Offers(InvokeAgent(role))
  <2> DEFINE q == MaybeDeclare("performed_by", Agent(role), {})
  <2>1. q \in InvokeAgent(role).refs /\ q.mode # "ref" /\ q.obj = Agent(role)
    BY DEF InvokeAgent, Event, MaybeDeclare
  <2> QED
    BY <1>2, <2>1
<1>5. ASSUME NEW role PROVE Prompt(role) \in Offers(CallLLM(role)) /\ Model \in Offers(CallLLM(role))
  <2> DEFINE q == MaybeDeclare("uses", Prompt(role), {})
             p == MaybeDeclare("uses", Model, {})
  <2>1. q \in CallLLM(role).refs /\ p \in CallLLM(role).refs
    BY DEF CallLLM, Event
  <2>2. q.mode # "ref" /\ q.obj = Prompt(role) /\ p.mode # "ref" /\ p.obj = Model
    BY DEF MaybeDeclare
  <2> HIDE DEF p, q
  <2> QED
    BY <1>2, <2>1, <2>2
<1>6. /\ Approver \in Offers(RequestApproval("adjudication")) /\ Approval \in Offers(ApprovalVerdict(a))
      /\ Decision \in Offers(MakeDecision("adjudication", a))
  <2> DEFINE p == Declare("concerns", Approver, {"authorised"})
             q == Declare("produces", Approval, {})
             r == Declare("produces", Decision, IF Adverse(a) THEN {"reason_codes"} ELSE {})
  <2>1. /\ p \in RequestApproval("adjudication").refs /\ q \in ApprovalVerdict(a).refs
        /\ r \in MakeDecision("adjudication", a).refs
    BY DEF RequestApproval, ApprovalVerdict, MakeDecision, Event
  <2>2. /\ p.mode # "ref" /\ p.obj = Approver /\ q.mode # "ref" /\ q.obj = Approval
        /\ r.mode # "ref" /\ r.obj = Decision
    BY DEF Declare
  <2> HIDE DEF p, q, r
  <2> QED
    BY <1>2, <2>1, <2>2
<1>7. \A role \in Roles : \E j \in DOMAIN c : c[j] = InvokeAgent(role)
  <2>1. /\ c[2] = InvokeAgent("intake") /\ c[6] = InvokeAgent("data_retrieval")
        /\ c[2 * n + 8] = InvokeAgent("scoring") /\ c[2 * n + 13] = InvokeAgent("adjudication")
    BY DEF IsScript
  <2>2. 2 \in DOMAIN c /\ 6 \in DOMAIN c /\ 2 * n + 8 \in DOMAIN c /\ 2 * n + 13 \in DOMAIN c
    BY <1>1
  <2> QED
    BY <2>1, <2>2 DEF Roles, Prompters
<1>8. \A role \in Prompters : \E j \in DOMAIN c : c[j] = CallLLM(role)
  <2>1. /\ c[3] = CallLLM("intake") /\ c[2 * n + 10] = CallLLM("scoring")
        /\ c[2 * n + 14] = CallLLM("adjudication")
    BY DEF IsScript
  <2>2. 3 \in DOMAIN c /\ 2 * n + 10 \in DOMAIN c /\ 2 * n + 14 \in DOMAIN c
    BY <1>1
  <2> QED
    BY <2>1, <2>2 DEF Prompters
<1>9. /\ 1 \in DOMAIN c /\ 2 * n + 15 \in DOMAIN c /\ 2 * n + 16 \in DOMAIN c /\ 2 * n + 17 \in DOMAIN c
      /\ c[2 * n + 15] = RequestApproval("adjudication") /\ c[2 * n + 16] = ApprovalVerdict(a)
      /\ c[2 * n + 17] = MakeDecision("adjudication", a)
  BY <1>1 DEF IsScript
<1>10. "intake" \in Prompters
  BY DEF Prompters
<1>11. CASE o \in {Session, Application, Applicant, CurrentPolicy, SupersededPolicy}
  BY <1>3, <1>9, <1>11
<1>12. CASE o \in {Approver, Approval, Decision}
  BY <1>6, <1>9, <1>12
<1>13. CASE o = Model
  BY <1>5, <1>8, <1>10, <1>13
<1>14. CASE \E role \in Roles : o = Agent(role)
  BY <1>4, <1>7, <1>14
<1>15. CASE \E role \in Prompters : o = Prompt(role)
  BY <1>5, <1>8, <1>15
<1> QED
  BY <1>11, <1>12, <1>13, <1>14, <1>15 DEF Cast

(* All that the telemetry of a session names it declares.                  *)
LEMMA BaseCloses ==
    ASSUME NEW s, NEW a \in Applicants, NEW t, t = BaseTrace(s, a), NEW k \in DOMAIN t, NEW r \in t[k].refs
    PROVE  /\ r.obj.kind \notin OwnKinds => r.obj \in DeclaredIn(t)
           /\ r.obj.kind = "CreditDecision" => r.obj = DecisionOf(s)
<1> DEFINE c == CreditScript(a)
<1>1. IsScript(c, a) /\ DOMAIN c = 1 .. 2 * Retrievals + 20 /\ k \in DOMAIN c
  BY ScriptIs, BaseIsScript DEF IsScript
<1>2. PICK q \in c[k].refs : r = SpanRef(q, q.obj \notin OfferedBefore(c, k), s)
  BY <1>1, BaseRefs
<1>3. r.obj = OwnedBy(q.obj, s)
  BY <1>2, SpanRefIs
<1>4. PositionFits(c[k], k)
  BY <1>1, PositionsFit
<1>5. RoughRef(q, c[k].type)
  BY <1>4 DEF PositionFits, StepFits
<1>6. r.obj.kind = q.obj.kind
  BY <1>3, <1>5, OwnersKeep DEF RoughRef
<1>7. ASSUME r.obj.kind \notin OwnKinds PROVE r.obj \in DeclaredIn(t)
  <2>1. ~ OwnAt(q.obj, k)
    <3>1. \A x : Tool(x).kind \in OwnKinds /\ Resource(x).kind \in OwnKinds
      BY DEF Tool, Resource, Obj, OwnKinds
    <3> QED
      BY <1>6, <1>7, <3>1 DEF OwnAt
  <2>2. q.obj \in Cast
    BY <1>4, <2>1 DEF PositionFits
  <2> QED
    BY <1>1, <1>3, <2>2, CastOffered, OfferedIsDeclared
<1>8. ASSUME r.obj.kind = "CreditDecision" PROVE r.obj = DecisionOf(s)
  BY <1>3, <1>5, <1>6, <1>8 DEF RoughRef, DecisionOf
<1> QED
  BY <1>7, <1>8

(* A base trace is as a written one must be.                               *)
LEMMA BaseWritten ==
    ASSUME NEW s, NEW a \in Applicants
    PROVE  Written(BaseTrace(s, a))
<1> DEFINE t == BaseTrace(s, a)
           c == CreditScript(a)
<1>1. /\ DOMAIN t = 1 .. 2 * Retrievals + 20 /\ Len(t) = 2 * Retrievals + 20
      /\ \A k \in DOMAIN t : t[k].seq = k /\ t[k].type = c[k].type
  BY BaseIsScript
<1>2. t = [k \in DOMAIN t |-> t[k]]
  <2>1. 1 \in 1 .. 2 * Retrievals + 20
    BY RetrievalFacts
  <2> HIDE DEF t
  <2> QED
    BY <1>1, <2>1, BaseRefs DEF t
<1>3. ASSUME NEW k \in DOMAIN t, t[k].type = "session_end" PROVE t[k].count = Len(t)
  <2>1. IsScript(c, a) /\ DOMAIN c = 1 .. 2 * Retrievals + 20
    BY ScriptIs DEF IsScript
  <2>2. k = 2 * Retrievals + 20
    BY <1>1, <1>3, <2>1, PositionsFit DEF PositionFits
  <2>3. t[k].count = k
    BY <1>1, <1>3, BaseRefs
  <2> QED
    BY <1>1, <2>2, <2>3
<1> QED
  BY <1>1, <1>2, <1>3 DEF Written

(* A base trace fits and is as written.                                    *)
LEMMA BaseFits ==
    ASSUME NEW s \in Sessions, applicant[s] \in Applicants
    PROVE  TraceFits(Base(s), s) /\ Written(Base(s))
<1> DEFINE a == applicant[s]
           t == BaseTrace(s, a)
           n == Retrievals
<1>1. Base(s) = t
  BY DEF Base
<1>2. /\ DOMAIN t = 1 .. 2 * n + 20
      /\ \A k \in DOMAIN t : t[k].id = <<s, k>> /\ TypeFits(t[k].type, k)
  BY BaseEvents
<1> HIDE DEF t
<1>3. ASSUME NEW k \in DOMAIN t PROVE RefsFit(t[k])
  BY BaseRefsFit DEF t
<1>4. ASSUME NEW k \in DOMAIN t, NEW r \in t[k].refs
      PROVE  /\ r.obj.kind \notin OwnKinds => r.obj \in DeclaredIn(t)
             /\ r.obj.kind = "CreditDecision" => r.obj = DecisionOf(s)
  BY BaseCloses DEF t
<1>5. /\ \A kind \in StandingKinds : kind \notin OwnKinds
      /\ \A kind \in ApprovalKinds : kind \notin OwnKinds
  BY KindsAre
<1>6. \A e \in EventsOf(t) : EventFits(e, s)
  <2> SUFFICES ASSUME NEW k \in DOMAIN t PROVE EventFits(t[k], s)
    BY DEF EventsOf
  <2>1. \A r \in t[k].refs : r.obj.kind \in StandingKinds => r.obj \in Standing(s)
    BY <1>1, <1>4, <1>5 DEF Standing
  <2>2. \A r \in t[k].refs : r.obj.kind = "CreditDecision" =>
            IF r.declares THEN r.obj = DecisionOf(s) ELSE r.obj \in {DecisionOf(x) : x \in Sessions}
    BY <1>4
  <2> QED
    BY <1>3, <2>1, <2>2 DEF EventFits
<1>7. ApprovalsFit(t)
  BY <1>4, <1>5 DEF ApprovalsFit, EventsOf
<1>8. DecisionOf(s) \in DeclaredIn(t)
  <2>1. IsScript(CreditScript(a), a)
    BY ScriptIs
  <2>2. Decision \in Cast
    BY DEF Cast
  <2>3. \E j \in DOMAIN CreditScript(a) : Decision \in Offers(CreditScript(a)[j])
    BY <2>1, <2>2, CastOffered
  <2> QED
    BY <2>3, OfferedIsDeclared DEF t, DecisionOf
<1>9. Standing(s) \subseteq DeclaredIn(t)
  BY <1>1 DEF Standing
<1>10. IdsFit(t, s)
  <2>1. \A j, k \in DOMAIN t : t[j].type = "make_decision" /\ t[k].type = "make_decision" => j = k
    BY <1>2 DEF TypeFits
  <2>2. \A j, k \in DOMAIN t : t[j].id = t[k].id => j = k
    BY <1>2
  <2> QED
    BY <1>2, <2>1, <2>2 DEF IdsFit
<1>11. TraceFits(t, s)
  BY <1>6, <1>7, <1>8, <1>9, <1>10 DEF TraceFits
<1>12. Written(t)
  BY BaseWritten DEF t
<1> QED
  BY <1>1, <1>11, <1>12

-----------------------------------------------------------------------------
(* Every session has a decision of its own.                                *)
LEMMA DecisionIs ==
    /\ \A s : DecisionOf(s).kind = "CreditDecision" /\ DecisionOf(s).owner = s
    /\ \A s, x : DecisionOf(s) = DecisionOf(x) => s = x
<1>1. \A s : DecisionOf(s).kind = "CreditDecision" /\ DecisionOf(s).owner = s
  BY DEF DecisionOf, Decision, Obj, OwnedBy, SessionKinds
<1>2. ASSUME NEW s, NEW x, DecisionOf(s) = DecisionOf(x) PROVE s = x
  BY <1>1, <1>2
<1> QED
  BY <1>1, <1>2

(* What a trace declares, reference by reference.                          *)
LEMMA DeclaredInIs ==
    ASSUME NEW tr, NEW o
    PROVE  o \in DeclaredIn(tr) <=> \E k \in DOMAIN tr : \E r \in tr[k].refs : r.declares /\ r.obj = o
  BY DEF DeclaredIn, EventsOf

(* A trace whose events fit, fits.                                         *)
LEMMA FitsAgain ==
    ASSUME NEW tr, NEW s, TraceFits(tr, s), NEW u,
           \A k \in DOMAIN u : \E j \in DOMAIN tr : u[k].id = tr[j].id /\ u[k].type = tr[j].type,
           \A j, k \in DOMAIN u : u[j].id = u[k].id => j = k,
           \A k \in DOMAIN u : EventFits(u[k], s),
           ApprovalsFit(u), Standing(s) \cup {DecisionOf(s)} \subseteq DeclaredIn(u)
    PROVE  TraceFits(u, s)
<1>1. IdsFit(tr, s)
  BY DEF TraceFits
<1>2. \A k \in DOMAIN u : \E j \in 1 .. 2 * Retrievals + 20 : u[k].id = <<s, j>>
  BY <1>1 DEF IdsFit
<1>3. ASSUME NEW j \in DOMAIN u, NEW k \in DOMAIN u, u[j].type = "make_decision", u[k].type = "make_decision"
      PROVE  j = k
  <2>1. PICK i \in DOMAIN tr : u[j].id = tr[i].id /\ u[j].type = tr[i].type
    OBVIOUS
  <2>2. PICK l \in DOMAIN tr : u[k].id = tr[l].id /\ u[k].type = tr[l].type
    OBVIOUS
  <2>3. i = l
    BY <1>1, <1>3, <2>1, <2>2 DEF IdsFit
  <2> QED
    BY <2>1, <2>2, <2>3
<1>4. IdsFit(u, s)
  BY <1>2, <1>3 DEF IdsFit
<1>5. \A e \in EventsOf(u) : EventFits(e, s)
  BY DEF EventsOf
<1> QED
  BY <1>4, <1>5 DEF TraceFits

(* The parts of TraceFits.                                                 *)
LEMMA FitsParts ==
    ASSUME NEW tr, NEW s, TraceFits(tr, s)
    PROVE  /\ \A k \in DOMAIN tr : EventFits(tr[k], s) /\ RefsFit(tr[k])
           /\ \A k \in DOMAIN tr : \A r \in tr[k].refs : RefFits(r, tr[k].type)
           /\ \A k \in DOMAIN tr : \A r \in tr[k].refs :
                  r.obj.kind \in ApprovalKinds => r.obj \in DeclaredIn(tr)
           /\ Standing(s) \cup {DecisionOf(s)} \subseteq DeclaredIn(tr)
           /\ \A j, k \in DOMAIN tr : tr[j].id = tr[k].id => j = k
<1>1. \A k \in DOMAIN tr : tr[k] \in EventsOf(tr)
  BY DEF EventsOf
<1>2. \A k \in DOMAIN tr : EventFits(tr[k], s)
  BY <1>1 DEF TraceFits
<1>3. \A k \in DOMAIN tr : RefsFit(tr[k])
  BY <1>2 DEF EventFits
<1>4. \A k \in DOMAIN tr : \A r \in tr[k].refs : RefFits(r, tr[k].type)
  BY <1>3 DEF RefsFit
<1>5. \A k \in DOMAIN tr : \A r \in tr[k].refs : r.obj.kind \in ApprovalKinds => r.obj \in DeclaredIn(tr)
  BY <1>1 DEF TraceFits, ApprovalsFit
<1> QED
  BY <1>2, <1>3, <1>4, <1>5 DEF TraceFits, IdsFit

(* What the session and its decision rest on is of neither kind.           *)
LEMMA LastingKinds ==
    ASSUME NEW s, NEW o \in Standing(s) \cup {DecisionOf(s)}
    PROVE  o.kind \notin OwnKinds /\ o.kind \notin ApprovalKinds
<1>1. o.kind \in StandingKinds \cup {"CreditDecision"}
  BY DecisionIs DEF Standing
<1> QED
  BY <1>1, KindsAre

(* One span rewritten: what it declared it still declares, and it names no *)
(* other approval or approver.                                             *)
LEMMA RevisedFits ==
    ASSUME NEW tr, NEW s, TraceFits(tr, s), NEW k \in DOMAIN tr, NEW u, Revised(u, tr, k),
           EventFits(u[k], s),
           \A r \in tr[k].refs : r.declares =>
               \/ r.obj.kind \in OwnKinds
               \/ \E x \in u[k].refs : x.declares /\ x.obj = r.obj,
           \A x \in u[k].refs : x.obj.kind \in ApprovalKinds => \E r \in tr[k].refs : r.obj = x.obj
    PROVE  TraceFits(u, s)
<1>1. /\ DOMAIN u = DOMAIN tr
      /\ \A j \in DOMAIN tr : /\ j # k => u[j] = tr[j]
                              /\ u[j].id = tr[j].id /\ u[j].type = tr[j].type
  BY DEF Revised
<1>2. ASSUME NEW o \in DeclaredIn(tr), o.kind \notin OwnKinds PROVE o \in DeclaredIn(u)
  <2>1. PICK j \in DOMAIN tr : \E r \in tr[j].refs : r.declares /\ r.obj = o
    BY DeclaredInIs
  <2>2. \E x \in u[j].refs : x.declares /\ x.obj = o
    BY <1>1, <1>2, <2>1
  <2> QED
    BY <1>1, <2>2, DeclaredInIs
<1>3. \A j \in DOMAIN u : EventFits(u[j], s)
  BY <1>1, FitsParts
<1>4. ApprovalsFit(u)
  <2> SUFFICES ASSUME NEW j \in DOMAIN u, NEW x \in u[j].refs, x.obj.kind \in ApprovalKinds
               PROVE  x.obj \in DeclaredIn(u)
    BY DEF ApprovalsFit, EventsOf
  <2>1. \E r \in tr[j].refs : r.obj = x.obj
    BY <1>1
  <2>2. x.obj \in DeclaredIn(tr)
    BY <1>1, <2>1, FitsParts
  <2>3. x.obj.kind \notin OwnKinds
    BY KindsAre
  <2> QED
    BY <1>2, <2>2, <2>3
<1>5. Standing(s) \cup {DecisionOf(s)} \subseteq DeclaredIn(u)
  BY <1>2, FitsParts, LastingKinds
<1>6. \A i, j \in DOMAIN u : u[i].id = u[j].id => i = j
  BY <1>1, FitsParts
<1> QED
  BY <1>1, <1>3, <1>4, <1>5, <1>6, FitsAgain

(* Spans deleted that declare nothing another span needs.                  *)
LEMMA WithoutFits ==
    ASSUME NEW tr, NEW m \in Nat, DOMAIN tr = 1 .. m, NEW s, TraceFits(tr, s), NEW ks \in SUBSET DOMAIN tr,
           \/ \A k \in ks : DeclaredBy(tr[k].type) \subseteq OwnKinds
           \/ /\ \A k \in ks : DeclaredBy(tr[k].type) \subseteq ApprovalKinds
              /\ \A k \in DOMAIN tr \ ks : \A r \in tr[k].refs : r.obj.kind \notin ApprovalKinds
    PROVE  TraceFits(Without(tr, ks), s)
<1> DEFINE u == Without(tr, ks)
           kept == DOMAIN tr \ ks
<1>1. EventsOf(u) = {tr[k] : k \in kept} /\ TakenOnce(u, tr, kept)
  BY WithoutKeeps
<1> HIDE DEF u
<1>2. \A k \in kept : \E j \in DOMAIN u : u[j] = tr[k]
  BY <1>1 DEF EventsOf
<1>3. \A j \in DOMAIN u : \E k \in kept : u[j] = tr[k]
  BY <1>1 DEF EventsOf
<1>4. ASSUME NEW o \in DeclaredIn(tr), NEW kinds, o.kind \notin kinds,
             \A k \in ks : DeclaredBy(tr[k].type) \subseteq kinds
      PROVE  o \in DeclaredIn(u)
  <2>1. PICK k \in DOMAIN tr : \E r \in tr[k].refs : r.declares /\ r.obj = o
    BY DeclaredInIs
  <2>2. PICK r \in tr[k].refs : r.declares /\ r.obj = o
    BY <2>1
  <2>3. RefFits(r, tr[k].type)
    BY FitsParts
  <2>4. o.kind \in DeclaredBy(tr[k].type)
    BY <2>2, <2>3 DEF RefFits
  <2>5. k \in kept
    BY <1>4, <2>4
  <2> QED
    BY <1>2, <2>2, <2>5, DeclaredInIs
<1>5. Standing(s) \cup {DecisionOf(s)} \subseteq DeclaredIn(u)
  <2>1. Standing(s) \cup {DecisionOf(s)} \subseteq DeclaredIn(tr)
    BY FitsParts
  <2> QED
    BY <1>4, <2>1, LastingKinds
<1>6. ApprovalsFit(u)
  <2> SUFFICES ASSUME NEW j \in DOMAIN u, NEW x \in u[j].refs, x.obj.kind \in ApprovalKinds
               PROVE  x.obj \in DeclaredIn(u)
    BY DEF ApprovalsFit, EventsOf
  <2>1. PICK k \in kept : u[j] = tr[k]
    BY <1>3
  <2>2. x.obj \in DeclaredIn(tr)
    BY <2>1, FitsParts
  <2>3. \A k2 \in ks : DeclaredBy(tr[k2].type) \subseteq OwnKinds
    BY <2>1
  <2>4. x.obj.kind \notin OwnKinds
    BY KindsAre
  <2> QED
    BY <1>4, <2>2, <2>3, <2>4
<1>7. \A j \in DOMAIN u : EventFits(u[j], s)
  BY <1>3, FitsParts
<1>8. ASSUME NEW i \in DOMAIN u, NEW j \in DOMAIN u, u[i].id = u[j].id PROVE i = j
  <2>1. PICK k \in kept, n \in kept : u[i] = tr[k] /\ u[j] = tr[n] /\ (k = n => i = j)
    BY <1>1 DEF TakenOnce
  <2>2. k = n
    BY <1>8, <2>1, FitsParts
  <2> QED
    BY <2>1, <2>2
<1>9. \A k \in DOMAIN u : \E j \in DOMAIN tr : u[k].id = tr[j].id /\ u[k].type = tr[j].type
  BY <1>3
<1>10. TraceFits(u, s)
  BY <1>5, <1>6, <1>7, <1>8, <1>9, FitsAgain
<1> QED
  BY <1>10 DEF u

(* References rewritten one by one, each to an object of the same kind.    *)
LEMMA KindsKept ==
    ASSUME NEW e, RefsFit(e), e.type \notin {"session_start", "handoff"}, NEW f, f.type = e.type,
           \A x \in f.refs : RefFits(x, e.type),
           \A x, y \in f.refs : \E q, r \in e.refs :
               q.obj.kind = x.obj.kind /\ r.obj.kind = y.obj.kind /\ (q = r => x = y)
    PROVE  RefsFit(f)
<1>1. ASSUME NEW x \in f.refs, NEW y \in f.refs, x.obj.kind = y.obj.kind PROVE x = y
  <2>1. PICK q \in e.refs, r \in e.refs :
            q.obj.kind = x.obj.kind /\ r.obj.kind = y.obj.kind /\ (q = r => x = y)
    OBVIOUS
  <2>2. q = r
    BY <1>1, <2>1 DEF RefsFit
  <2> QED
    BY <2>1, <2>2
<1>2. \A x, y \in f.refs : x.obj = y.obj => x = y
  BY <1>1
<1> QED
  BY <1>1, <1>2 DEF RefsFit

(* An event fits with fewer references.                                    *)
LEMMA FewerRefs ==
    ASSUME NEW e, NEW s, EventFits(e, s), NEW f, f.type = e.type, f.refs \subseteq e.refs
    PROVE  EventFits(f, s)
<1>1. RefsFit(e) /\ \A r \in f.refs : r \in e.refs
  BY DEF EventFits
<1>2. RefsFit(f)
  BY <1>1 DEF RefsFit
<1> QED
  BY <1>1, <1>2 DEF EventFits

SwapRef(r, approver, facts) ==
    IF r.obj.kind = "HumanApprover"
    THEN [r EXCEPT !.obj = approver, !.facts = IF r.declares THEN facts ELSE {}]
    ELSE r

(* A reference fits with another approver.                                 *)
LEMMA SwapRefFits ==
    ASSUME NEW r, NEW type, RefFits(r, type), NEW approver, approver.kind = "HumanApprover",
           NEW facts, facts = FactsOf(approver)
    PROVE  LET x == SwapRef(r, approver, facts)
           IN  /\ RefFits(x, type) /\ x.obj.kind = r.obj.kind
               /\ x.declares = r.declares
               /\ x.obj = IF r.obj.kind = "HumanApprover" THEN approver ELSE r.obj
<1> DEFINE x == SwapRef(r, approver, facts)
<1>1. CASE r.obj.kind = "HumanApprover"
  <2>1. /\ DOMAIN x = {"obj", "qual", "declares", "facts"} /\ x.obj = approver
        /\ x.qual = r.qual /\ x.declares = r.declares
        /\ x.facts = IF r.declares THEN facts ELSE {}
    BY <1>1 DEF SwapRef, RefFits
  <2> HIDE DEF x
  <2>2. NamedFits(x.obj, x.qual, type)
    BY <1>1, <2>1 DEF RefFits, NamedFits
  <2>3. x.obj.kind \notin OwnKinds
    BY <2>1 DEF OwnKinds
  <2>4. RefFits(x, type)
    BY <1>1, <2>1, <2>2, <2>3 DEF RefFits
  <2> QED
    BY <1>1, <2>1, <2>4 DEF x
<1>2. CASE r.obj.kind # "HumanApprover"
  BY <1>2 DEF SwapRef
<1> QED
  BY <1>1, <1>2

(* The two spans of an approval, and how a swap rewrites them.             *)
LEMMA SwapIs ==
    ASSUME NEW tr, NEW approver, NEW facts, \A k \in DOMAIN tr : DOMAIN tr[k] = Fields,
           NEW i \in DOMAIN tr, i = SpanOf(tr, "request_approval"), NEW j \in DOMAIN tr, j = Verdict(tr), i # j
    PROVE  LET u == SwapApprover(tr, approver, facts)
           IN  /\ DOMAIN u = DOMAIN tr
               /\ \A k \in DOMAIN tr : /\ u[k].id = tr[k].id /\ u[k].type = tr[k].type
                                       /\ k \notin {i, j} => u[k] = tr[k]
               /\ \A k \in {i, j} : u[k].refs = {SwapRef(r, approver, facts) : r \in tr[k].refs}
<1> DEFINE swap(r)   == IF r.obj.kind = "HumanApprover"
                        THEN [r EXCEPT !.obj = approver, !.facts = IF r.declares THEN facts ELSE {}]
                        ELSE r
           refs(k)   == {swap(r) : r \in tr[k].refs}
           requested == [tr EXCEPT ![i].refs = refs(i)]
           refs2     == {swap(r) : r \in requested[j].refs}
           ruled     == [requested EXCEPT ![j].refs = refs2]
           swapped   == [ruled EXCEPT ![j].actor = approver]
<1>1. SwapApprover(tr, approver, facts) = swapped
  BY DEF SwapApprover, Rewrite
<1>2. /\ refs(i) = {SwapRef(r, approver, facts) : r \in tr[i].refs}
      /\ refs(j) = {SwapRef(r, approver, facts) : r \in tr[j].refs}
  BY DEF SwapRef
<1>3. requested[j] = tr[j] /\ refs2 = refs(j)
  OBVIOUS
<1> HIDE DEF swap, refs, refs2
<1>4. /\ DOMAIN requested = DOMAIN tr
      /\ \A k \in DOMAIN tr \ {i} : requested[k] = tr[k]
      /\ requested[i] = [tr[i] EXCEPT !.refs = refs(i)]
  OBVIOUS
<1>5. requested[i].refs = refs(i) /\ requested[i].id = tr[i].id /\ requested[i].type = tr[i].type
  BY <1>4 DEF Fields
<1> HIDE DEF requested
<1>6. /\ DOMAIN ruled = DOMAIN tr
      /\ \A k \in DOMAIN tr \ {j} : ruled[k] = requested[k]
      /\ ruled[j] = [tr[j] EXCEPT !.refs = refs2]
  BY <1>3, <1>4
<1>7. ruled[j].refs = refs2 /\ ruled[j].id = tr[j].id /\ ruled[j].type = tr[j].type /\ DOMAIN ruled[j] = Fields
  BY <1>6 DEF Fields
<1> HIDE DEF ruled
<1>8. /\ DOMAIN swapped = DOMAIN tr
      /\ \A k \in DOMAIN tr \ {j} : swapped[k] = ruled[k]
      /\ swapped[j] = [ruled[j] EXCEPT !.actor = approver]
  BY <1>6
<1>9. swapped[j].refs = refs2 /\ swapped[j].id = tr[j].id /\ swapped[j].type = tr[j].type
  BY <1>7, <1>8 DEF Fields
<1> HIDE DEF swapped
<1>10. \A k \in DOMAIN tr : /\ swapped[k].id = tr[k].id /\ swapped[k].type = tr[k].type
                            /\ k \notin {i, j} => swapped[k] = tr[k]
  <2> TAKE k \in DOMAIN tr
  <2>1. k # j => swapped[k] = requested[k]
    BY <1>6, <1>8
  <2>2. CASE k = j
    BY <1>9, <2>2
  <2>3. CASE k = i
    BY <1>5, <2>1, <2>3
  <2>4. CASE k \notin {i, j}
    <3>1. requested[k] = tr[k]
      BY <1>4, <2>4
    <3> QED
      BY <2>1, <2>4, <3>1
  <2> QED
    BY <2>2, <2>3, <2>4
<1>11. swapped[i].refs = refs(i) /\ swapped[j].refs = refs(j)
  BY <1>3, <1>5, <1>6, <1>8, <1>9
<1> QED
  BY <1>1, <1>2, <1>8, <1>10, <1>11

(* Another approver, on both spans of the approval.                        *)
LEMMA SwapFits ==
    ASSUME NEW tr, NEW s, TraceFits(tr, s), \A k \in DOMAIN tr : DOMAIN tr[k] = Fields,
           NEW approver, approver.kind = "HumanApprover", NEW facts, facts = FactsOf(approver),
           NEW i \in DOMAIN tr, i = SpanOf(tr, "request_approval"), NEW j \in DOMAIN tr, j = Verdict(tr),
           tr[i].type = "request_approval", tr[j].type \in VerdictTypes,
           \A k \in DOMAIN tr : tr[k].type \in ApprovalTypes => k \in {i, j}
    PROVE  TraceFits(SwapApprover(tr, approver, facts), s)
<1> DEFINE u == SwapApprover(tr, approver, facts)
<1>1. i # j
  BY DEF VerdictTypes
<1>2. /\ DOMAIN u = DOMAIN tr
      /\ \A k \in DOMAIN tr : /\ u[k].id = tr[k].id /\ u[k].type = tr[k].type
                              /\ k \notin {i, j} => u[k] = tr[k]
      /\ \A k \in {i, j} : u[k].refs = {SwapRef(r, approver, facts) : r \in tr[k].refs}
  BY <1>1, SwapIs
<1> HIDE DEF u
<1>3. ASSUME NEW k \in DOMAIN tr, NEW r \in tr[k].refs
      PROVE  LET x == SwapRef(r, approver, facts)
             IN  /\ RefFits(x, tr[k].type) /\ x.obj.kind = r.obj.kind /\ x.declares = r.declares
                 /\ x.obj = IF r.obj.kind = "HumanApprover" THEN approver ELSE r.obj
  <2>1. RefFits(r, tr[k].type)
    BY FitsParts
  <2> QED
    BY <2>1, SwapRefFits
<1>4. ASSUME NEW k \in {i, j} PROVE EventFits(u[k], s)
  <2>1. tr[k].type \notin {"session_start", "handoff"} /\ u[k].type = tr[k].type
    BY <1>2 DEF VerdictTypes
  <2>2. RefsFit(tr[k]) /\ EventFits(tr[k], s)
    BY FitsParts
  <2>3. ASSUME NEW x \in u[k].refs
        PROVE  \E r \in tr[k].refs : x = SwapRef(r, approver, facts)
    BY <1>2
  <2>4. \A x \in u[k].refs : RefFits(x, tr[k].type)
    BY <1>3, <2>3
  <2>5. ASSUME NEW x \in u[k].refs, NEW y \in u[k].refs
        PROVE  \E q, r \in tr[k].refs : q.obj.kind = x.obj.kind /\ r.obj.kind = y.obj.kind /\ (q = r => x = y)
    BY <1>3, <2>3
  <2>6. RefsFit(u[k])
    BY <2>1, <2>2, <2>4, <2>5, KindsKept
  <2>7. ASSUME NEW x \in u[k].refs
        PROVE  /\ x.obj.kind \in StandingKinds => x.obj \in Standing(s)
               /\ x.obj.kind = "CreditDecision" =>
                    IF x.declares THEN x.obj = DecisionOf(s) ELSE x.obj \in {DecisionOf(z) : z \in Sessions}
    <3>1. PICK r \in tr[k].refs : x = SwapRef(r, approver, facts)
      BY <2>3
    <3>2. /\ x.obj.kind = r.obj.kind /\ x.declares = r.declares
          /\ x.obj = IF r.obj.kind = "HumanApprover" THEN approver ELSE r.obj
      BY <1>3, <3>1
    <3>3. "HumanApprover" \notin StandingKinds
      BY KindsAre
    <3>4. x.obj.kind \in StandingKinds \cup {"CreditDecision"} => x.obj = r.obj
      BY <3>2, <3>3
    <3> QED
      BY <2>2, <3>2, <3>4 DEF EventFits
  <2> QED
    BY <2>6, <2>7 DEF EventFits
<1>5. \A k \in DOMAIN u : EventFits(u[k], s)
  BY <1>2, <1>4, FitsParts
<1>6. ASSUME NEW o \in DeclaredIn(tr)
      PROVE  IF o.kind = "HumanApprover" THEN approver \in DeclaredIn(u) ELSE o \in DeclaredIn(u)
  <2>1. PICK k \in DOMAIN tr : \E r \in tr[k].refs : r.declares /\ r.obj = o
    BY DeclaredInIs
  <2>2. PICK r \in tr[k].refs : r.declares /\ r.obj = o
    BY <2>1
  <2>3. CASE k \in {i, j}
    <3> DEFINE x == SwapRef(r, approver, facts)
    <3>1. x \in u[k].refs
      BY <1>2, <2>3
    <3>2. x.declares /\ x.obj = IF o.kind = "HumanApprover" THEN approver ELSE o
      BY <1>3, <2>2
    <3>3. x.obj \in DeclaredIn(u)
      BY <1>2, <3>1, <3>2, DeclaredInIs
    <3> QED
      BY <3>2, <3>3
  <2>4. CASE k \notin {i, j}
    <3>1. o \in DeclaredIn(u)
      BY <1>2, <2>2, <2>4, DeclaredInIs
    <3>2. o.kind # "HumanApprover"
      <4>1. RefFits(r, tr[k].type)
        BY FitsParts
      <4> QED
        BY <2>2, <2>4, <4>1 DEF RefFits, NamedFits
    <3> QED
      BY <3>1, <3>2
  <2> QED
    BY <2>3, <2>4
<1>7. Standing(s) \cup {DecisionOf(s)} \subseteq DeclaredIn(u)
  <2>1. Standing(s) \cup {DecisionOf(s)} \subseteq DeclaredIn(tr)
    BY FitsParts
  <2>2. \A o \in Standing(s) \cup {DecisionOf(s)} : o.kind # "HumanApprover"
    BY LastingKinds, KindsAre
  <2> QED
    BY <1>6, <2>1, <2>2
<1>8. ApprovalsFit(u)
  <2> SUFFICES ASSUME NEW k \in DOMAIN u, NEW x \in u[k].refs, x.obj.kind \in ApprovalKinds
               PROVE  x.obj \in DeclaredIn(u)
    BY DEF ApprovalsFit, EventsOf
  <2>1. CASE k \in {i, j}
    <3>1. PICK r \in tr[k].refs : x = SwapRef(r, approver, facts)
      BY <1>2, <2>1
    <3>2. x.obj.kind = r.obj.kind /\ x.obj = IF r.obj.kind = "HumanApprover" THEN approver ELSE r.obj
      BY <1>2, <1>3, <3>1
    <3>3. r.obj \in DeclaredIn(tr)
      BY <1>2, <3>2, FitsParts
    <3> QED
      BY <1>6, <3>2, <3>3
  <2>2. CASE k \notin {i, j}
    <3>1. u[k] = tr[k] /\ k \in DOMAIN tr
      BY <1>2, <2>2
    <3>2. x.obj \in DeclaredIn(tr)
      BY <3>1, FitsParts
    <3>3. x.obj.kind # "HumanApprover"
      <4>1. RefFits(x, tr[k].type)
        BY <3>1, FitsParts
      <4> QED
        BY <2>2, <3>1, <4>1 DEF RefFits, NamedFits
    <3> QED
      BY <1>6, <3>2, <3>3
  <2> QED
    BY <2>1, <2>2
<1>9. /\ \A k \in DOMAIN u : \E l \in DOMAIN tr : u[k].id = tr[l].id /\ u[k].type = tr[l].type
      /\ \A k, l \in DOMAIN u : u[k].id = u[l].id => k = l
  BY <1>2, FitsParts
<1>10. TraceFits(u, s)
  BY <1>5, <1>7, <1>8, <1>9, FitsAgain
<1> QED
  BY <1>10 DEF u

(* The references of a span rewritten one by one: to objects of the same   *)
(* kind, and those of an approval not at all.                              *)
RefRewritten(x, r, type, s) ==
    /\ RefFits(x, type) /\ x.obj.kind = r.obj.kind /\ x.declares = r.declares
    /\ r.declares => r.obj.kind \in OwnKinds \/ x.obj = r.obj
    /\ r.obj.kind \in ApprovalKinds => x.obj = r.obj
    /\ r.obj.kind \in StandingKinds => x.obj \in Standing(s)
    /\ r.obj.kind = "CreditDecision" /\ ~ r.declares => x.obj \in {DecisionOf(z) : z \in Sessions}

RefsRewritten(refs, g, e, s) ==
    /\ refs = {g[r] : r \in e.refs}
    /\ \A r \in e.refs : RefRewritten(g[r], r, e.type, s)

(* A trace fits after the references of one span are rewritten.            *)
LEMMA RewrittenFits ==
    ASSUME NEW tr, NEW s, TraceFits(tr, s), NEW k \in DOMAIN tr, DOMAIN tr[k] = Fields,
           tr[k].type \notin {"session_start", "handoff"},
           NEW g, NEW refs, RefsRewritten(refs, g, tr[k], s)
    PROVE  TraceFits([tr EXCEPT ![k].refs = refs], s)
<1> DEFINE u == [tr EXCEPT ![k].refs = refs]
<1>1. Revised(u, tr, k) /\ u[k].refs = refs
  BY RefsRevised
<1> HIDE DEF u
<1>9. /\ \A x \in u[k].refs : \E r \in tr[k].refs : x = g[r]
      /\ \A r \in tr[k].refs : g[r] \in u[k].refs
  BY <1>1 DEF RefsRewritten
<1>10. ASSUME NEW r \in tr[k].refs PROVE RefRewritten(g[r], r, tr[k].type, s)
  BY DEF RefsRewritten
<1>2. k \in DOMAIN u /\ u[k].type = tr[k].type
  BY <1>1 DEF Revised
<1>3. RefsFit(tr[k]) /\ EventFits(tr[k], s)
  BY FitsParts
<1>4. RefsFit(u[k])
  <2>1. \A x \in u[k].refs : RefFits(x, tr[k].type)
    BY <1>9, <1>10 DEF RefRewritten
  <2>2. \A x, y \in u[k].refs : \E q, r \in tr[k].refs :
            q.obj.kind = x.obj.kind /\ r.obj.kind = y.obj.kind /\ (q = r => x = y)
    <3> TAKE x \in u[k].refs, y \in u[k].refs
    <3>1. PICK q \in tr[k].refs : x = g[q]
      BY <1>9
    <3>2. PICK r \in tr[k].refs : y = g[r]
      BY <1>9
    <3>3. q.obj.kind = x.obj.kind /\ r.obj.kind = y.obj.kind
      BY <1>10, <3>1, <3>2 DEF RefRewritten
    <3> QED
      BY <3>1, <3>2, <3>3
  <2> QED
    BY <1>2, <1>3, <2>1, <2>2, KindsKept
<1>5. EventFits(u[k], s)
  <2>1. ASSUME NEW x \in u[k].refs
        PROVE  /\ x.obj.kind \in StandingKinds => x.obj \in Standing(s)
               /\ x.obj.kind = "CreditDecision" =>
                    IF x.declares THEN x.obj = DecisionOf(s) ELSE x.obj \in {DecisionOf(z) : z \in Sessions}
    <3>1. PICK r \in tr[k].refs : x = g[r]
      BY <1>9
    <3>2. RefRewritten(x, r, tr[k].type, s)
      BY <1>10, <3>1
    <3>3. ASSUME x.obj.kind = "CreditDecision", x.declares PROVE x.obj = DecisionOf(s)
      <4>1. r.declares /\ r.obj.kind = "CreditDecision"
        BY <3>2, <3>3 DEF RefRewritten
      <4>2. x.obj = r.obj
        BY <3>2, <4>1 DEF RefRewritten, OwnKinds
      <4> QED
        BY <1>3, <4>1, <4>2 DEF EventFits
    <3> QED
      BY <3>2, <3>3 DEF RefRewritten
  <2> QED
    BY <1>4, <2>1 DEF EventFits
<1>6. \A r \in tr[k].refs : r.declares =>
          r.obj.kind \in OwnKinds \/ \E x \in u[k].refs : x.declares /\ x.obj = r.obj
  BY <1>9, <1>10 DEF RefRewritten
<1>7. \A x \in u[k].refs : x.obj.kind \in ApprovalKinds => \E r \in tr[k].refs : r.obj = x.obj
  BY <1>9, <1>10 DEF RefRewritten
<1>8. TraceFits(u, s)
  BY <1>1, <1>5, <1>6, <1>7, RevisedFits
<1> QED
  BY <1>8 DEF u

(* References stripped from a span, none of which declares anything.       *)
LEMMA StrippedFits ==
    ASSUME NEW tr, NEW s, TraceFits(tr, s), NEW k \in DOMAIN tr, DOMAIN tr[k] = Fields,
           NEW refs \in SUBSET tr[k].refs,
           \A r \in tr[k].refs : r.declares => r \in refs
    PROVE  TraceFits([tr EXCEPT ![k].refs = refs], s)
<1> DEFINE u == [tr EXCEPT ![k].refs = refs]
<1>1. Revised(u, tr, k) /\ u[k].refs = refs
  BY RefsRevised
<1> HIDE DEF u
<1>2. EventFits(tr[k], s) /\ u[k].type = tr[k].type
  BY <1>1, FitsParts DEF Revised
<1>3. EventFits(u[k], s)
  BY <1>1, <1>2, FewerRefs
<1>4. \A r \in tr[k].refs : r.declares =>
          r.obj.kind \in OwnKinds \/ \E x \in u[k].refs : x.declares /\ x.obj = r.obj
  BY <1>1
<1>5. \A x \in u[k].refs : x.obj.kind \in ApprovalKinds => \E r \in tr[k].refs : r.obj = x.obj
  BY <1>1
<1>6. TraceFits(u, s)
  BY <1>1, <1>3, <1>4, <1>5, RevisedFits
<1> QED
  BY <1>6 DEF u

(* One request and one verdict.                                            *)
LEMMA OneApproval ==
    ASSUME NEW s, NEW a \in Applicants, NEW t, t = BaseTrace(s, a), NEW tr, NEW done,
           Survives(tr, t, done), TraceFits(tr, s), NEW j \in DOMAIN tr, NEW k \in DOMAIN tr,
           \/ tr[j].type = "request_approval" /\ tr[k].type = "request_approval"
           \/ tr[j].type \in VerdictTypes /\ tr[k].type \in VerdictTypes
    PROVE  j = k
<1>1. /\ tr[j].id = <<s, tr[j].seq>> /\ tr[k].id = <<s, tr[k].seq>>
      /\ TypeFits(tr[j].type, tr[j].seq) /\ TypeFits(tr[k].type, tr[k].seq)
  BY SurvivorIs
<1>2. tr[j].seq = tr[k].seq
  BY <1>1 DEF TypeFits
<1> QED
  BY <1>1, <1>2, FitsParts

(* What holds when a fault is applied.                                     *)
LEMMA TurnFits ==
    ASSUME LogOK, InjectOK, DrawOK, NEW c, Turn(c)
    PROVE  /\ TraceFits(Current, at) /\ at \in Sessions /\ applicant[at] \in Applicants
           /\ Survives(Current, Base(at), applied) /\ Len(Base(at)) \in Nat
           /\ \A k \in DOMAIN Current : DOMAIN Current[k] = Fields
           /\ DecisionSpan \in DOMAIN Current /\ Current[DecisionSpan].type = "make_decision"
<1>1. at \in Sessions /\ applicant[at] \in Applicants
  BY AtTurn
<1>2. TraceFits(Current, at)
  BY <1>1 DEF LogOK, Current
<1> QED
  BY <1>1, <1>2, TurnOf

(* Who declares approvals, approvers and decisions.                        *)
LEMMA DeclarersAre ==
    ASSUME NEW type
    PROVE  /\ "Approval" \in DeclaredBy(type) => type \in VerdictTypes
           /\ "HumanApprover" \in DeclaredBy(type) => type = "request_approval"
           /\ "CreditDecision" \in DeclaredBy(type) => type = "make_decision"
<1>1. CASE type \in {"session_start", "invoke_agent", "call_llm", "call_tool", "retrieve_data"}
  BY <1>1, KindsAre
<1>2. CASE type \in {"request_approval", "grant_approval", "deny_approval", "make_decision"}
  BY <1>2, KindsAre DEF VerdictTypes
<1>3. CASE type \notin {"session_start", "invoke_agent", "call_llm", "call_tool", "retrieve_data",
                        "request_approval", "grant_approval", "deny_approval", "make_decision"}
  BY <1>3 DEF DeclaredBy, VerdictTypes
<1> QED
  BY <1>1, <1>2, <1>3

(* The request and the verdict of a session whose approval stands.         *)
LEMMA ApprovalSwaps ==
    ASSUME NEW s \in Sessions, NEW a \in Applicants, NEW t, t = BaseTrace(s, a), NEW tr, NEW done,
           Survives(tr, t, done), TraceFits(tr, s),
           SpansOf(tr, {"request_approval"}) # {}, SpansOf(tr, VerdictTypes) # {},
           NEW approver, approver.kind = "HumanApprover", NEW facts, facts = FactsOf(approver)
    PROVE  TraceFits(SwapApprover(tr, approver, facts), s)
<1> DEFINE i == SpanOf(tr, "request_approval")
           j == Verdict(tr)
<1>1. Len(t) \in Nat /\ \A k \in DOMAIN tr : DOMAIN tr[k] = Fields
  BY BaseEvents, SurvivorIs
<1>2. i \in DOMAIN tr /\ tr[i].type = "request_approval"
  BY <1>1, SpanIs
<1>3. j \in DOMAIN tr /\ tr[j].type \in VerdictTypes
  <2>1. SpansOf(tr, VerdictTypes) \in SUBSET Nat
    BY <1>1, TraceDomain
  <2>2. j \in SpansOf(tr, VerdictTypes)
    BY <2>1, SmallestOf DEF Verdict
  <2> QED
    BY <2>2 DEF SpansOf
<1> HIDE DEF i, j
<1>4. ASSUME NEW k \in DOMAIN tr, tr[k].type \in ApprovalTypes PROVE k \in {i, j}
  <2>1. tr[k].type = "request_approval" \/ tr[k].type \in VerdictTypes
    BY <1>4 DEF ApprovalTypes
  <2>2. CASE tr[k].type = "request_approval"
    BY <1>2, <2>2, OneApproval
  <2>3. CASE tr[k].type \in VerdictTypes
    BY <1>3, <2>3, OneApproval
  <2> QED
    BY <2>1, <2>2, <2>3
<1> QED
  BY <1>1, <1>2, <1>3, <1>4, SwapFits DEF i, j

-----------------------------------------------------------------------------
(* A fault changes the trace of the session at hand only.                  *)
LEMMA RowIs ==
    ASSUME InjectOK, NEW u, rows' = [rows EXCEPT ![at] = u]
    PROVE  rows'[at] = u /\ \A s \in Sessions : s # at => rows'[s] = rows[s]
<1>1. DOMAIN rows = Sessions /\ at \in Sessions
  BY DEF InjectOK, RowsOK
<1> QED
  BY <1>1

(* V1 leaves a trace that fits.                                            *)
LEMMA V1Fits == ASSUME LogOK, InjectOK, DrawOK, FaultV1 PROVE TraceFits(rows'[at], at)
<1> DEFINE approvals == {r \in UNION {Current[k].refs : k \in ApprovalSpans} : r.obj.kind = "Approval"}
           named     == {r \in Current[DecisionSpan].refs : r.obj \in {x.obj : x \in approvals}}
           refs      == Current[DecisionSpan].refs \ named
           stripped  == [Current EXCEPT ![DecisionSpan].refs = refs]
           u         == Without(stripped, ApprovalSpans)
<1>1. Turn(1) /\ rows' = [rows EXCEPT ![at] = u]
  BY DEF FaultV1, Apply, Strip
<1>2. /\ TraceFits(Current, at) /\ at \in Sessions
      /\ \A k \in DOMAIN Current : DOMAIN Current[k] = Fields
      /\ DecisionSpan \in DOMAIN Current /\ Current[DecisionSpan].type = "make_decision"
  BY <1>1, TurnFits
<1>3. PICK m \in Nat : DOMAIN Current = 1 .. m
  BY <1>1, TurnOf
<1>4. \A r \in named : r.obj.kind = "Approval"
  OBVIOUS
<1>5. \A k \in DOMAIN Current : k \in ApprovalSpans <=> Current[k].type \in ApprovalTypes
  BY DEF ApprovalSpans, SpansOf, ApprovalTypes
<1>6. \A r \in Current[DecisionSpan].refs : r.obj.kind = "Approval" => r \in named
  <2> SUFFICES ASSUME NEW r \in Current[DecisionSpan].refs, r.obj.kind = "Approval" PROVE r \in named
    OBVIOUS
  <2>1. r.obj \in DeclaredIn(Current)
    BY <1>2, FitsParts DEF ApprovalKinds
  <2>2. PICK k \in DOMAIN Current : \E x \in Current[k].refs : x.declares /\ x.obj = r.obj
    BY <2>1, DeclaredInIs
  <2>3. PICK x \in Current[k].refs : x.declares /\ x.obj = r.obj
    BY <2>2
  <2>4. RefFits(x, Current[k].type)
    BY <1>2, FitsParts
  <2>5. Current[k].type \in VerdictTypes
    BY <2>3, <2>4, DeclarersAre DEF RefFits
  <2>6. k \in ApprovalSpans
    BY <1>5, <2>5 DEF ApprovalTypes
  <2>7. x \in approvals
    BY <2>3, <2>6
  <2> QED
    BY <2>3, <2>7
<1> HIDE DEF approvals, named
<1>7. TraceFits(stripped, at) /\ Revised(stripped, Current, DecisionSpan) /\ stripped[DecisionSpan].refs = refs
  <2>1. \A r \in Current[DecisionSpan].refs : r.declares => r \in refs
    <3> SUFFICES ASSUME NEW r \in Current[DecisionSpan].refs, r.declares PROVE r \notin named
      OBVIOUS
    <3>1. RefFits(r, "make_decision")
      BY <1>2, FitsParts
    <3>2. r.obj.kind # "Approval"
      BY <3>1, KindsAre DEF RefFits
    <3> QED
      BY <1>4, <3>2
  <2>2. refs \in SUBSET Current[DecisionSpan].refs
    OBVIOUS
  <2>3. DOMAIN Current[DecisionSpan] = Fields
    BY <1>2
  <2> HIDE DEF refs
  <2> QED
    BY <1>2, <2>1, <2>2, <2>3, StrippedFits, RefsRevised
<1> HIDE DEF stripped
<1>8. /\ DOMAIN stripped = DOMAIN Current
      /\ \A k \in DOMAIN Current : /\ stripped[k].type = Current[k].type /\ stripped[k].id = Current[k].id
                                   /\ k # DecisionSpan => stripped[k] = Current[k]
  BY <1>7 DEF Revised
<1>9. \A k \in ApprovalSpans : k \in DOMAIN stripped /\ stripped[k].type \in ApprovalTypes
  BY <1>8 DEF ApprovalSpans, SpansOf, ApprovalTypes
<1>10. \A k \in ApprovalSpans : DeclaredBy(stripped[k].type) \subseteq ApprovalKinds
  BY <1>9, KindsAre
<1>11. \A k \in DOMAIN stripped \ ApprovalSpans : \A r \in stripped[k].refs : r.obj.kind \notin ApprovalKinds
  <2> SUFFICES ASSUME NEW k \in DOMAIN stripped, k \notin ApprovalSpans,
                      NEW r \in stripped[k].refs, r.obj.kind \in ApprovalKinds
               PROVE  FALSE
    OBVIOUS
  <2>1. stripped[k].type \notin ApprovalTypes
    BY <1>5, <1>8
  <2>2. RefFits(r, stripped[k].type)
    BY <1>7, FitsParts
  <2>3. r.obj.kind = "Approval" /\ stripped[k].type = "make_decision"
    BY <2>1, <2>2 DEF RefFits, NamedFits, ApprovalKinds
  <2>4. k = DecisionSpan
    BY <1>2, <1>8, <2>3 DEF TraceFits, IdsFit
  <2> QED
    BY <1>6, <1>7, <2>3, <2>4
<1>12. TraceFits(u, at)
  <2>1. ApprovalSpans \in SUBSET DOMAIN stripped
    BY <1>9
  <2> QED
    BY <1>3, <1>7, <1>8, <1>10, <1>11, <2>1, WithoutFits
<1> HIDE DEF u
<1> QED
  BY <1>1, <1>12, RowIs

(* V2 leaves a trace that fits.                                            *)
LEMMA V2Fits == ASSUME LogOK, InjectOK, DrawOK, FaultV2 PROVE TraceFits(rows'[at], at)
<1> DEFINE approval == SpanOf(Current, "grant_approval")
           repoint(r, donor) == IF r.qual = "approves" THEN [r EXCEPT !.obj = donor] ELSE r
<1>1. PICK donor \in DonorsFor(at) :
          LET refs == {repoint(r, donor) : r \in Current[approval].refs}
          IN  /\ Turn(2) /\ Ready(2)
              /\ rows' = [rows EXCEPT ![at] = [Current EXCEPT ![approval].refs = refs]]
  BY DEF FaultV2, Apply, Rewrite
<1> DEFINE refs == {repoint(r, donor) : r \in Current[approval].refs}
           g    == [r \in Current[approval].refs |-> repoint(r, donor)]
           u    == [Current EXCEPT ![approval].refs = refs]
<1>2. /\ TraceFits(Current, at) /\ \A k \in DOMAIN Current : DOMAIN Current[k] = Fields
      /\ Survives(Current, Base(at), applied) /\ Len(Base(at)) \in Nat
  BY <1>1, TurnFits
<1>3. approval \in DOMAIN Current /\ Current[approval].type = "grant_approval"
  BY <1>1, <1>2, SpanIs DEF Ready, Finds, DonorAtHand
<1>4. rows'[at] = u
  BY <1>1, RowIs
<1> HIDE DEF approval
<1>5. donor \in {DecisionOf(z) : z \in Sessions} /\ donor.kind = "CreditDecision"
  BY DecisionIs DEF DonorsFor, Donors
<1>6. ASSUME NEW r \in Current[approval].refs
      PROVE  LET x == repoint(r, donor)
             IN  /\ RefFits(x, "grant_approval") /\ x.obj.kind = r.obj.kind /\ x.declares = r.declares
                 /\ r.obj.kind # "CreditDecision" => x.obj = r.obj
                 /\ r.obj.kind = "CreditDecision" => ~ r.declares
                 /\ x.obj \in {r.obj, donor}
  <2>1. RefFits(r, "grant_approval")
    BY <1>2, <1>3, FitsParts
  <2>2. r.obj.kind = "CreditDecision" => ~ r.declares
    BY <2>1, DeclarersAre DEF RefFits, VerdictTypes
  <2>3. CASE r.qual = "approves"
    <3> DEFINE x == [r EXCEPT !.obj = donor]
    <3>1. /\ DOMAIN x = {"obj", "qual", "declares", "facts"} /\ x.obj = donor
          /\ x.qual = r.qual /\ x.declares = r.declares /\ x.facts = r.facts
      BY <2>1 DEF RefFits
    <3> HIDE DEF x
    <3>2. r.obj.kind = "CreditDecision" /\ ~ r.declares
      BY <2>1, <2>2, <2>3 DEF RefFits, NamedFits
    <3>3. NamedFits(x.obj, x.qual, "grant_approval")
      BY <1>5, <2>1, <2>3, <3>1, <3>2 DEF RefFits, NamedFits
    <3>4. RefFits(x, "grant_approval")
      BY <1>5, <2>1, <3>1, <3>2, <3>3 DEF RefFits, OwnKinds
    <3> QED
      BY <1>5, <2>3, <3>1, <3>2, <3>4 DEF x
  <2>4. CASE r.qual # "approves"
    BY <2>1, <2>2, <2>4
  <2> QED
    BY <2>3, <2>4
<1> HIDE DEF repoint
<1>7. refs = {g[r] : r \in Current[approval].refs}
  OBVIOUS
<1>8. ASSUME NEW r \in Current[approval].refs
      PROVE  RefRewritten(g[r], r, Current[approval].type, at)
  <2>1. /\ RefFits(g[r], "grant_approval") /\ g[r].obj.kind = r.obj.kind /\ g[r].declares = r.declares
        /\ r.obj.kind # "CreditDecision" => g[r].obj = r.obj
        /\ r.obj.kind = "CreditDecision" => ~ r.declares
        /\ g[r].obj \in {r.obj, donor}
    BY <1>6
  <2> HIDE DEF g
  <2>2. "CreditDecision" \notin ApprovalKinds \cup StandingKinds
    BY KindsAre
  <2>3. EventFits(Current[approval], at)
    BY <1>2, <1>3, FitsParts
  <2>4. r.obj.kind = "CreditDecision" => r.obj \in {DecisionOf(z) : z \in Sessions}
    BY <2>1, <2>3 DEF EventFits
  <2>5. r.obj.kind \in StandingKinds => r.obj \in Standing(at)
    BY <2>3 DEF EventFits
  <2> QED
    BY <1>3, <1>5, <2>1, <2>2, <2>4, <2>5 DEF RefRewritten
<1>11. RefsRewritten(refs, g, Current[approval], at)
  BY <1>7, <1>8 DEF RefsRewritten
<1> HIDE DEF refs, g
<1>9. /\ DOMAIN Current[approval] = Fields
      /\ Current[approval].type \notin {"session_start", "handoff"}
  BY <1>2, <1>3
<1>10. TraceFits(u, at)
  BY <1>2, <1>3, <1>9, <1>11, RewrittenFits
<1> QED
  BY <1>4, <1>10

(* V3 leaves a trace that fits.                                            *)
LEMMA V3Fits == ASSUME LogOK, InjectOK, DrawOK, FaultV3 PROVE TraceFits(rows'[at], at)
<1> DEFINE u == SwapApprover(Current, Rogue(at), {})
<1>1. Turn(3) /\ Ready(3) /\ rows' = [rows EXCEPT ![at] = u]
  BY DEF FaultV3, Apply
<1>2. /\ TraceFits(Current, at) /\ at \in Sessions /\ applicant[at] \in Applicants
      /\ Survives(Current, Base(at), applied)
  BY <1>1, TurnFits
<1>3. SpansOf(Current, {"request_approval"}) # {} /\ SpansOf(Current, VerdictTypes) # {}
  BY <1>1 DEF Ready, Finds, ApprovalAtHand
<1>4. Rogue(at).kind = "HumanApprover" /\ Rogue(at).id = "rogue"
  BY DEF Rogue, Obj
<1>5. FactsOf(Rogue(at)) = {}
  BY <1>4 DEF FactsOf
<1>6. TraceFits(u, at)
  <2> HIDE DEF u
  <2> QED
    BY <1>2, <1>3, <1>4, <1>5, ApprovalSwaps DEF Base, u
<1> QED
  BY <1>1, <1>6, RowIs

(* V4 leaves a trace that fits.                                            *)
LEMMA V4Fits == ASSUME LogOK, InjectOK, DrawOK, FaultV4 PROVE TraceFits(rows'[at], at)
<1>1. PICK source \in SourcesRead \ {Demographics}, mode \in {"leaf", "tool_call"} :
          LET retrieval == Max(RetrievalsOf(source))
              removed   == {retrieval} \cup
                           (IF mode = "leaf" THEN {} ELSE {AtSeq(Current, Current[retrieval].seq - 1)})
          IN  /\ Turn(4) /\ Ready(4)
              /\ rows' = [rows EXCEPT ![at] = Without(Current, removed)]
  BY DEF FaultV4, Apply
<1> DEFINE retrieval == Max(RetrievalsOf(source))
           call      == AtSeq(Current, Current[retrieval].seq - 1)
           removed   == {retrieval} \cup (IF mode = "leaf" THEN {} ELSE {call})
           u         == Without(Current, removed)
           t         == BaseTrace(at, applicant[at])
<1>2. Turn(4) /\ Ready(4) /\ rows' = [rows EXCEPT ![at] = u]
  BY <1>1
<1>3. Survives(Current, t, applied) /\ applicant[at] \in Applicants /\ TraceFits(Current, at)
  BY <1>2, TurnFits DEF Base
<1>4. PICK m \in Nat : DOMAIN Current = 1 .. m
  BY <1>2, TurnOf
<1>5. retrieval \in RetrievalsOf(source)
  <2>1. RetrievalsOf(source) # {}
    BY DEF RetrievalsOf, SourcesRead
  <2>2. RetrievalsOf(source) \in SUBSET (1 .. m)
    BY <1>4 DEF RetrievalsOf, SpansOf
  <2> QED
    BY <2>1, <2>2, GreatestOf
<1>6. retrieval \in DOMAIN Current /\ Current[retrieval].type = "retrieve_data"
  BY <1>5 DEF RetrievalsOf, SpansOf
<1>7. IsAt(Current[retrieval].seq - 1, "call_tool")
  BY <1>2, <1>5 DEF Ready, Finds, SourceAtHand
<1> HIDE DEF retrieval, t
<1>8. call \in DOMAIN Current /\ Current[call].type = "call_tool"
  <2>1. PICK k \in DOMAIN Current : Current[k].seq = Current[retrieval].seq - 1 /\ Current[k].type = "call_tool"
    BY <1>7 DEF IsAt
  <2>2. call \in DOMAIN Current /\ Current[call].seq = Current[retrieval].seq - 1
    BY <2>1 DEF AtSeq
  <2>3. Current[call].type = t[Current[call].seq].type /\ Current[k].type = t[Current[k].seq].type
    BY <1>3, <2>2, SurvivorIs DEF t
  <2> QED
    BY <2>1, <2>2, <2>3
<1> HIDE DEF call
<1>9. ASSUME NEW k \in removed PROVE k \in DOMAIN Current /\ DeclaredBy(Current[k].type) \subseteq OwnKinds
  <2>1. k = retrieval \/ k = call
    OBVIOUS
  <2> QED
    BY <1>6, <1>8, <2>1, KindsAre
<1> HIDE DEF removed
<1>10. removed \in SUBSET DOMAIN Current
  BY <1>9
<1>11. TraceFits(u, at)
  BY <1>3, <1>4, <1>9, <1>10, WithoutFits
<1> HIDE DEF u
<1> QED
  BY <1>2, <1>11, RowIs

(* V5 leaves a trace that fits.                                            *)
LEMMA V5Fits == ASSUME LogOK, InjectOK, DrawOK, FaultV5 PROVE TraceFits(rows'[at], at)
<1> DEFINE local     == Local(at)
           retrieval == Min(RetrievalsOf(Demographics))
           localise(r) == IF r.obj.kind = "DataResource"
                          THEN [r EXCEPT !.obj = local, !.facts = @ \ {"lawful_basis"}]
                          ELSE r
           refs      == {localise(r) : r \in Current[retrieval].refs}
           g         == [r \in Current[retrieval].refs |-> localise(r)]
           u         == [Current EXCEPT ![retrieval].refs = refs]
<1>1. Turn(5) /\ Ready(5) /\ rows' = [rows EXCEPT ![at] = u]
  BY DEF FaultV5, Apply, Rewrite
<1>2. /\ TraceFits(Current, at) /\ at \in Sessions
      /\ \A k \in DOMAIN Current : DOMAIN Current[k] = Fields
      /\ Survives(Current, Base(at), applied) /\ Len(Base(at)) \in Nat
  BY <1>1, TurnFits
<1>3. retrieval \in RetrievalsOf(Demographics)
  <2>1. RetrievalsOf(Demographics) # {}
    BY <1>1 DEF Ready, Finds, DemographicsAtHand
  <2>2. SpansOf(Current, {"retrieve_data"}) \in SUBSET Nat
    BY <1>2, TraceDomain
  <2>3. RetrievalsOf(Demographics) \in SUBSET Nat
    BY <2>2 DEF RetrievalsOf
  <2> QED
    BY <2>1, <2>3, SmallestOf
<1>4. rows'[at] = u
  BY <1>1, RowIs
<1>5. retrieval \in DOMAIN Current /\ Current[retrieval].type = "retrieve_data"
  BY <1>3 DEF RetrievalsOf, SpansOf
<1>6. PICK p \in Current[retrieval].refs : p.qual = "reads" /\ p.obj.id = Demographics
  BY <1>3 DEF RetrievalsOf, ReadBy
<1> HIDE DEF retrieval
<1>7. /\ RefsFit(Current[retrieval]) /\ EventFits(Current[retrieval], at)
      /\ \A r \in Current[retrieval].refs : RefFits(r, "retrieve_data")
  BY <1>2, <1>5, FitsParts
<1>8. p.obj.kind = "DataResource"
  BY <1>6, <1>7 DEF RefFits, NamedFits
<1>9. /\ local.kind = "DataResource" /\ local.id = Demographics /\ local.owner = at /\ at # 0
      /\ \A x : x \in {"lawful_basis"} => x \notin FactsOf(local)
      /\ FactsOf(local) = ResourceFacts(Demographics) \ {"lawful_basis"}
  <2>1. local.kind = "DataResource" /\ local.id = Demographics /\ local.owner = at
    BY DEF Local, Resource, Obj
  <2>2. at # 0
    BY <1>2, InstanceFacts DEF Sessions, DrawOK
  <2> HIDE DEF local
  <2>3. FactsOf(local) = ResourceFacts(Demographics) \ {"lawful_basis"}
    BY <2>1, <2>2 DEF FactsOf
  <2> QED
    BY <2>1, <2>2, <2>3
<1> HIDE DEF local
<1>10. ASSUME NEW r \in Current[retrieval].refs
       PROVE  LET x == localise(r)
              IN  /\ RefFits(x, "retrieve_data") /\ x.obj.kind = r.obj.kind /\ x.declares = r.declares
                  /\ r.obj.kind # "DataResource" => x = r
  <2>1. RefFits(r, "retrieve_data")
    BY <1>7
  <2>2. CASE r.obj.kind = "DataResource"
    <3> DEFINE x == [r EXCEPT !.obj = local, !.facts = @ \ {"lawful_basis"}]
    <3>1. /\ DOMAIN x = {"obj", "qual", "declares", "facts"} /\ x.obj = local
          /\ x.qual = r.qual /\ x.declares = r.declares /\ x.facts = r.facts \ {"lawful_basis"}
      BY <2>1 DEF RefFits
    <3> HIDE DEF x
    <3>2. r = p
      BY <1>5, <1>7, <1>8, <2>2 DEF RefsFit
    <3>3. r.declares
      BY <2>1, <2>2, KindsAre DEF RefFits
    <3>4. r.facts = FactsOf(r.obj)
      BY <2>1, <2>2, <3>3 DEF RefFits
    <3>5. FactsOf(r.obj) \in {ResourceFacts(Demographics), ResourceFacts(Demographics) \ {"lawful_basis"}}
      BY <1>6, <2>2, <3>2 DEF FactsOf
    <3>6. x.facts = FactsOf(local)
      BY <1>9, <3>1, <3>4, <3>5
    <3>7. NamedFits(x.obj, x.qual, "retrieve_data")
      BY <1>9, <2>1, <2>2, <3>1 DEF RefFits, NamedFits
    <3>8. RefFits(x, "retrieve_data")
      BY <1>9, <2>1, <2>2, <3>1, <3>3, <3>6, <3>7 DEF RefFits
    <3> QED
      BY <1>9, <2>2, <3>1, <3>8 DEF x
  <2>3. CASE r.obj.kind # "DataResource"
    BY <2>1, <2>3
  <2> QED
    BY <2>2, <2>3
<1> HIDE DEF localise
<1>11. refs = {g[r] : r \in Current[retrieval].refs}
  OBVIOUS
<1>12. ASSUME NEW r \in Current[retrieval].refs
       PROVE  RefRewritten(g[r], r, Current[retrieval].type, at)
  <2>1. /\ RefFits(g[r], "retrieve_data") /\ g[r].obj.kind = r.obj.kind /\ g[r].declares = r.declares
        /\ r.obj.kind # "DataResource" => g[r] = r
    BY <1>10
  <2> HIDE DEF g
  <2>2. "DataResource" \notin ApprovalKinds \cup StandingKinds /\ "DataResource" \in OwnKinds
    BY KindsAre
  <2>3. r.obj.kind = "CreditDecision" /\ ~ r.declares => r.obj \in {DecisionOf(z) : z \in Sessions}
    BY <1>7 DEF EventFits
  <2>4. r.obj.kind \in StandingKinds => r.obj \in Standing(at)
    BY <1>7 DEF EventFits
  <2> QED
    BY <1>5, <2>1, <2>2, <2>3, <2>4 DEF RefRewritten
<1>13. RefsRewritten(refs, g, Current[retrieval], at)
  BY <1>11, <1>12 DEF RefsRewritten
<1> HIDE DEF refs, g
<1>14. /\ DOMAIN Current[retrieval] = Fields
       /\ Current[retrieval].type \notin {"session_start", "handoff"}
  BY <1>2, <1>5
<1>15. TraceFits(u, at)
  BY <1>2, <1>5, <1>13, <1>14, RewrittenFits
<1> QED
  BY <1>4, <1>15

(* V6 leaves a trace that fits.                                            *)
LEMMA V6Fits == ASSUME LogOK, InjectOK, DrawOK, FaultV6 PROVE TraceFits(rows'[at], at)
<1> DEFINE blank(r)  == IF r.obj.kind = "CreditDecision" /\ r.declares
                        THEN [r EXCEPT !.facts = @ \ {"reason_codes"}] ELSE r
           explainer == Min(Explainers)
           edge      == {r \in Current[explainer].refs : r.qual = "explains" /\ r.obj = DecisionOf(at)}
           refs1     == {blank(r) : r \in Current[DecisionSpan].refs}
           refs2     == Current[explainer].refs \ edge
           u1        == [Current EXCEPT ![DecisionSpan].refs = refs1]
           u2        == [Current EXCEPT ![explainer].refs = refs2]
           g         == [r \in Current[DecisionSpan].refs |-> blank(r)]
<1>1. PICK u \in {u1, u2} : Turn(6) /\ Ready(6) /\ rows' = [rows EXCEPT ![at] = u]
  BY DEF FaultV6, Apply, Rewrite, Strip
<1>2. /\ TraceFits(Current, at) /\ \A k \in DOMAIN Current : DOMAIN Current[k] = Fields
      /\ Survives(Current, Base(at), applied) /\ Len(Base(at)) \in Nat
      /\ DecisionSpan \in DOMAIN Current /\ Current[DecisionSpan].type = "make_decision"
  BY <1>1, TurnFits
<1>3. rows'[at] = u
  BY <1>1, RowIs
<1>4. TraceFits(u1, at)
  <2>1. /\ EventFits(Current[DecisionSpan], at)
        /\ \A r \in Current[DecisionSpan].refs : RefFits(r, "make_decision")
    BY <1>2, FitsParts
  <2>2. ASSUME NEW r \in Current[DecisionSpan].refs
        PROVE  LET x == blank(r)
               IN  RefFits(x, "make_decision") /\ x.obj = r.obj /\ x.declares = r.declares
    <3>1. RefFits(r, "make_decision")
      BY <2>1
    <3>2. CASE r.obj.kind = "CreditDecision" /\ r.declares
      <4> DEFINE x == [r EXCEPT !.facts = @ \ {"reason_codes"}]
      <4>1. /\ DOMAIN x = {"obj", "qual", "declares", "facts"} /\ x.obj = r.obj
            /\ x.qual = r.qual /\ x.declares = r.declares
        BY <3>1 DEF RefFits
      <4> HIDE DEF x
      <4>2. RefFits(x, "make_decision")
        BY <3>1, <3>2, <4>1 DEF RefFits
      <4> QED
        BY <3>2, <4>1, <4>2 DEF x
    <3>3. CASE ~ (r.obj.kind = "CreditDecision" /\ r.declares)
      BY <3>1, <3>3
    <3> QED
      BY <3>2, <3>3
  <2> HIDE DEF blank
  <2>3. refs1 = {g[r] : r \in Current[DecisionSpan].refs}
    OBVIOUS
  <2>4. ASSUME NEW r \in Current[DecisionSpan].refs
        PROVE  RefRewritten(g[r], r, Current[DecisionSpan].type, at)
    <3>1. RefFits(g[r], "make_decision") /\ g[r].obj = r.obj /\ g[r].declares = r.declares
      BY <2>2
    <3> HIDE DEF g
    <3>2. r.obj.kind = "CreditDecision" /\ ~ r.declares => r.obj \in {DecisionOf(z) : z \in Sessions}
      BY <2>1 DEF EventFits
    <3>3. r.obj.kind \in StandingKinds => r.obj \in Standing(at)
      BY <2>1 DEF EventFits
    <3> QED
      BY <1>2, <3>1, <3>2, <3>3 DEF RefRewritten
  <2>5. RefsRewritten(refs1, g, Current[DecisionSpan], at)
    BY <2>3, <2>4 DEF RefsRewritten
  <2> HIDE DEF refs1, g
  <2>6. /\ DOMAIN Current[DecisionSpan] = Fields
        /\ Current[DecisionSpan].type \notin {"session_start", "handoff"}
    BY <1>2
  <2> QED
    BY <1>2, <2>5, <2>6, RewrittenFits
<1>5. TraceFits(u2, at)
  <2>1. Explainers # {} /\ Explainers \in SUBSET SpansOf(Current, {"emit_reasoning"})
    BY <1>1 DEF Ready, Finds, ExplanationAtHand, Explainers
  <2>2. SpansOf(Current, {"emit_reasoning"}) \in SUBSET Nat
    BY <1>2, TraceDomain
  <2>3. explainer \in SpansOf(Current, {"emit_reasoning"})
    BY <2>1, <2>2, SmallestOf
  <2>4. explainer \in DOMAIN Current /\ Current[explainer].type = "emit_reasoning"
    BY <2>3 DEF SpansOf
  <2> HIDE DEF explainer
  <2>5. ASSUME NEW r \in Current[explainer].refs PROVE ~ r.declares
    <3>1. RefFits(r, "emit_reasoning")
      BY <1>2, <2>4, FitsParts
    <3>2. DeclaredBy("emit_reasoning") = {}
      BY KindsAre
    <3> QED
      BY <3>1, <3>2 DEF RefFits
  <2>6. refs2 \in SUBSET Current[explainer].refs /\ DOMAIN Current[explainer] = Fields
    BY <1>2, <2>4
  <2> HIDE DEF refs2
  <2> QED
    BY <1>2, <2>4, <2>5, <2>6, StrippedFits
<1> HIDE DEF u1, u2
<1> QED
  BY <1>1, <1>3, <1>4, <1>5

(* V8 leaves a trace that fits.                                            *)
LEMMA V8Fits == ASSUME LogOK, InjectOK, DrawOK, FaultV8 PROVE TraceFits(rows'[at], at)
<1> DEFINE repoint(r, target) == IF r.obj.kind = "PolicyVersion" THEN [r EXCEPT !.obj = target] ELSE r
<1>1. PICK target \in OtherPolicies :
          LET refs == {repoint(r, target) : r \in Current[DecisionSpan].refs}
          IN  /\ Turn(8) /\ Ready(8)
              /\ rows' = [rows EXCEPT ![at] = [Current EXCEPT ![DecisionSpan].refs = refs]]
  BY DEF FaultV8, Apply, Rewrite
<1> DEFINE refs == {repoint(r, target) : r \in Current[DecisionSpan].refs}
           g    == [r \in Current[DecisionSpan].refs |-> repoint(r, target)]
           u    == [Current EXCEPT ![DecisionSpan].refs = refs]
<1>2. /\ TraceFits(Current, at) /\ \A k \in DOMAIN Current : DOMAIN Current[k] = Fields
      /\ Survives(Current, Base(at), applied) /\ Len(Base(at)) \in Nat
      /\ applicant[at] \in Applicants
      /\ DecisionSpan \in DOMAIN Current /\ Current[DecisionSpan].type = "make_decision"
  BY <1>1, TurnFits
<1>3. rows'[at] = u
  BY <1>1, RowIs
<1>4. target.kind = "PolicyVersion" /\ target \in Standing(at)
  <2> DEFINE start == SpanOf(Current, "session_start")
             t     == BaseTrace(at, applicant[at])
  <2>1. /\ \A b \in applied : b \in FaultClasses /\ b < 8
        /\ Survives(Current, t, applied)
    BY <1>1, AtTurn DEF Base
  <2>2. "session_start" \notin Touched(applied)
    BY <2>1, TouchedBefore DEF FaultClasses
  <2>3. SpansOf(Current, {"session_start"}) # {}
    <3>1. 1 \in 1 .. 2 * Retrievals + 20 /\ 1 \in DOMAIN t
      BY <1>2, RetrievalFacts, BaseEvents
    <3>2. t[1].type = "session_start"
      BY <1>2, <3>1, BaseEvents DEF TypeFits
    <3>3. \E k \in DOMAIN Current : Current[k] = t[1]
      BY <1>2, <2>1, <2>2, <3>1, <3>2, Remains
    <3> QED
      BY <3>2, <3>3 DEF SpansOf
  <2>4. start \in DOMAIN Current
    BY <1>2, <2>3, SpanIs
  <2>5. PICK r \in Current[start].refs : r.obj = target /\ r.obj.kind = "PolicyVersion"
    BY DEF OtherPolicies, PoliciesNamed
  <2> HIDE DEF start
  <2>6. EventFits(Current[start], at)
    BY <1>2, <2>4, FitsParts
  <2> QED
    BY <2>5, <2>6, KindsAre DEF EventFits
<1>5. /\ EventFits(Current[DecisionSpan], at)
      /\ \A r \in Current[DecisionSpan].refs : RefFits(r, "make_decision")
  BY <1>2, FitsParts
<1>6. ASSUME NEW r \in Current[DecisionSpan].refs
      PROVE  LET x == repoint(r, target)
             IN  /\ RefFits(x, "make_decision") /\ x.obj.kind = r.obj.kind /\ x.declares = r.declares
                 /\ r.obj.kind # "PolicyVersion" => x.obj = r.obj
                 /\ r.obj.kind = "PolicyVersion" => ~ r.declares /\ x.obj = target
  <2>1. RefFits(r, "make_decision")
    BY <1>5
  <2>2. CASE r.obj.kind = "PolicyVersion"
    <3> DEFINE x == [r EXCEPT !.obj = target]
    <3>1. /\ DOMAIN x = {"obj", "qual", "declares", "facts"} /\ x.obj = target
          /\ x.qual = r.qual /\ x.declares = r.declares /\ x.facts = r.facts
      BY <2>1 DEF RefFits
    <3> HIDE DEF x
    <3>2. ~ r.declares
      BY <2>1, <2>2, KindsAre DEF RefFits
    <3>3. NamedFits(x.obj, x.qual, "make_decision")
      BY <1>4, <2>1, <2>2, <3>1 DEF RefFits, NamedFits
    <3>4. RefFits(x, "make_decision")
      BY <1>4, <2>1, <3>1, <3>2, <3>3 DEF RefFits, OwnKinds
    <3> QED
      BY <1>4, <2>2, <3>1, <3>2, <3>4 DEF x
  <2>3. CASE r.obj.kind # "PolicyVersion"
    BY <2>1, <2>3
  <2> QED
    BY <2>2, <2>3
<1> HIDE DEF repoint
<1>7. refs = {g[r] : r \in Current[DecisionSpan].refs}
  OBVIOUS
<1>8. ASSUME NEW r \in Current[DecisionSpan].refs
      PROVE  RefRewritten(g[r], r, Current[DecisionSpan].type, at)
  <2>1. /\ RefFits(g[r], "make_decision") /\ g[r].obj.kind = r.obj.kind /\ g[r].declares = r.declares
        /\ r.obj.kind # "PolicyVersion" => g[r].obj = r.obj
        /\ r.obj.kind = "PolicyVersion" => ~ r.declares /\ g[r].obj = target
    BY <1>6
  <2> HIDE DEF g
  <2>2. "PolicyVersion" \notin ApprovalKinds \cup OwnKinds /\ "PolicyVersion" \in StandingKinds
    BY KindsAre
  <2>3. r.obj.kind = "CreditDecision" /\ ~ r.declares => r.obj \in {DecisionOf(z) : z \in Sessions}
    BY <1>5 DEF EventFits
  <2>4. r.obj.kind \in StandingKinds => r.obj \in Standing(at)
    BY <1>5 DEF EventFits
  <2> QED
    BY <1>2, <1>4, <2>1, <2>2, <2>3, <2>4 DEF RefRewritten
<1>9. RefsRewritten(refs, g, Current[DecisionSpan], at)
  BY <1>7, <1>8 DEF RefsRewritten
<1> HIDE DEF refs, g
<1>10. /\ DOMAIN Current[DecisionSpan] = Fields
       /\ Current[DecisionSpan].type \notin {"session_start", "handoff"}
  BY <1>2
<1>11. TraceFits(u, at)
  BY <1>2, <1>9, <1>10, RewrittenFits
<1> QED
  BY <1>3, <1>11

(* An agent that has been invoked is one the session declares.             *)
LEMMA InvokedStand ==
    ASSUME LogOK, InjectOK, DrawOK, Turn(7), NEW wrong \in Invoked
    PROVE  wrong.kind = "Agent" /\ wrong \in Standing(at)
<1> DEFINE n == Retrievals
           t == BaseTrace(at, applicant[at])
           c == CreditScript(applicant[at])
<1>1. PICK k \in DOMAIN Current : Current[k].type = "invoke_agent" /\ wrong = Current[k].actor
  BY DEF Invoked, SpansOf
<1>2. /\ at \in Sessions /\ applicant[at] \in Applicants /\ Survives(Current, t, applied)
      /\ \A b \in applied : b \in FaultClasses /\ b < 7
  BY AtTurn DEF Base
<1>3. "invoke_agent" \notin Touched(applied)
  BY <1>2, TouchedBefore DEF FaultClasses
<1> DEFINE j == Current[k].seq
<1>4. /\ j \in 1 .. 2 * n + 20 /\ TypeFits(Current[k].type, j) /\ Current[k] = t[j]
  BY <1>1, <1>2, <1>3, SurvivorIs
<1>5. j \in {2, 6, 2 * n + 8, 2 * n + 13}
  BY <1>1, <1>4 DEF TypeFits
<1>6. j \in DOMAIN t /\ RefsOf(t[j], c[j], at) /\ t[j].actor = c[j].actor
  BY <1>2, <1>4, BaseIsScript
<1>7. PICK role \in {"intake", "data_retrieval", "scoring", "adjudication"} : c[j] = InvokeAgent(role)
  BY <1>5, ScriptIs DEF IsScript
<1>8. \E q \in c[j].refs : q.obj = Agent(role)
  <2>1. MaybeDeclare("performed_by", Agent(role), {}) \in InvokeAgent(role).refs
    BY DEF InvokeAgent, Event
  <2>2. MaybeDeclare("performed_by", Agent(role), {}).obj = Agent(role)
    BY DEF MaybeDeclare
  <2> QED
    BY <1>7, <2>1, <2>2
<1>9. InvokeAgent(role).actor = Agent(role)
  BY DEF InvokeAgent, Event
<1>10. wrong = Agent(role)
  BY <1>1, <1>4, <1>6, <1>7, <1>9
<1>11. PICK r \in Current[k].refs : r.obj = Agent(role)
  <2> HIDE DEF c, t
  <2>1. PICK q \in c[j].refs : q.obj = Agent(role)
    BY <1>8
  <2>2. \E r \in t[j].refs : r.obj = OwnedBy(q.obj, at)
    BY <1>6, <2>1 DEF RefsOf
  <2>3. OwnedBy(Agent(role), at) = Agent(role)
    BY Owned
  <2> QED
    BY <1>4, <2>1, <2>2, <2>3
<1>12. EventFits(Current[k], at)
  <2>1. TraceFits(Current, at)
    BY TurnFits
  <2> QED
    BY <2>1, FitsParts
<1>13. Agent(role).kind = "Agent"
  BY Owned
<1> QED
  BY <1>10, <1>11, <1>12, <1>13, KindsAre DEF EventFits

(* A handoff that names another recipient, whom it did not name before.    *)
Repointed(f, e, g, wrong) ==
    /\ \A r \in e.refs : r.qual \in {"from", "to"} => r.obj # wrong
    /\ f.type = e.type /\ f.refs = {g[r] : r \in e.refs}
    /\ \A r \in e.refs : g[r] = IF r.qual = "to" THEN [r EXCEPT !.obj = wrong] ELSE r

(* A handoff fits when it is pointed at another agent.                     *)
LEMMA RepointedFits ==
    ASSUME NEW e, NEW s, EventFits(e, s), e.type = "handoff", NEW wrong \in Standing(s), wrong.kind = "Agent",
           NEW f, NEW g, Repointed(f, e, g, wrong)
    PROVE  EventFits(f, s) /\ \A r \in e.refs : g[r].obj.kind = r.obj.kind /\ ~ r.declares
<1>0. /\ \A r \in e.refs : r.qual \in {"from", "to"} => r.obj # wrong
      /\ f.type = "handoff" /\ f.refs = {g[r] : r \in e.refs}
      /\ \A r \in e.refs : g[r] = IF r.qual = "to" THEN [r EXCEPT !.obj = wrong] ELSE r
  BY DEF Repointed
<1>1. RefsFit(e) /\ \A r \in e.refs : RefFits(r, "handoff")
  BY DEF EventFits, RefsFit
<1>2. ASSUME NEW r \in e.refs
      PROVE  LET x == g[r]
             IN  /\ RefFits(x, "handoff") /\ x.obj.kind = r.obj.kind /\ x.qual = r.qual
                 /\ ~ r.declares /\ ~ x.declares
                 /\ x.obj = IF r.qual = "to" THEN wrong ELSE r.obj
  <2>1. RefFits(r, "handoff") /\ ~ r.declares
    BY <1>1, KindsAre DEF RefFits
  <2>2. CASE r.qual = "to"
    <3> DEFINE x == [r EXCEPT !.obj = wrong]
    <3>1. /\ DOMAIN x = {"obj", "qual", "declares", "facts"} /\ x.obj = wrong
          /\ x.qual = r.qual /\ x.declares = r.declares /\ x.facts = r.facts
      BY <2>1 DEF RefFits
    <3>2. g[r] = x
      BY <1>0, <2>2
    <3> HIDE DEF x
    <3>3. r.obj.kind = "Agent"
      BY <2>1, <2>2 DEF RefFits, NamedFits
    <3>4. NamedFits(x.obj, x.qual, "handoff")
      BY <2>1, <2>2, <3>1, <3>3 DEF RefFits, NamedFits
    <3>5. RefFits(x, "handoff")
      BY <2>1, <3>1, <3>4 DEF RefFits, OwnKinds
    <3> QED
      BY <2>1, <2>2, <3>1, <3>2, <3>3, <3>5
  <2>3. CASE r.qual # "to"
    BY <1>0, <2>1, <2>3
  <2> QED
    BY <2>2, <2>3
<1>3. \A x \in f.refs : \E r \in e.refs : x = g[r]
  BY <1>0
<1>4. RefsFit(f)
  <2>1. \A x \in f.refs : RefFits(x, f.type)
    BY <1>0, <1>2, <1>3
  <2>2. ASSUME NEW x \in f.refs, NEW y \in f.refs, x.qual = y.qual PROVE x = y
    <3>1. PICK q \in e.refs, r \in e.refs : x = g[q] /\ y = g[r]
      BY <1>3
    <3>2. q = r
      BY <1>1, <1>2, <2>2, <3>1 DEF RefsFit
    <3> QED
      BY <3>1, <3>2
  <2>3. ASSUME NEW x \in f.refs, NEW y \in f.refs, x.obj = y.obj PROVE x = y
    <3>1. PICK q \in e.refs, r \in e.refs : x = g[q] /\ y = g[r]
      BY <1>3
    <3>2. ASSUME NEW p \in e.refs, p.qual # "to", g[p].obj = wrong PROVE FALSE
      <4>1. p.obj = wrong
        BY <1>2, <3>2
      <4>2. NamedFits(p.obj, p.qual, "handoff")
        BY <1>1 DEF RefFits
      <4>3. p.qual \in {"from", "to"}
        BY <4>1, <4>2 DEF NamedFits
      <4> QED
        BY <1>0, <4>1, <4>3
    <3>3. CASE q.qual = "to" /\ r.qual = "to"
      <4>1. x.qual = y.qual
        BY <1>2, <3>1, <3>3
      <4> QED
        BY <2>2, <4>1
    <3>4. CASE q.qual = "to" /\ r.qual # "to"
      BY <1>2, <2>3, <3>1, <3>2, <3>4
    <3>5. CASE q.qual # "to" /\ r.qual = "to"
      BY <1>2, <2>3, <3>1, <3>2, <3>5
    <3>6. CASE q.qual # "to" /\ r.qual # "to"
      <4>1. q.obj = r.obj
        BY <1>2, <2>3, <3>1, <3>6
      <4>2. q = r
        BY <1>1, <4>1 DEF RefsFit
      <4> QED
        BY <3>1, <4>2
    <3> QED
      BY <3>3, <3>4, <3>5, <3>6
  <2> QED
    BY <1>0, <2>1, <2>2, <2>3 DEF RefsFit
<1>5. ASSUME NEW x \in f.refs
      PROVE  /\ x.obj.kind \in StandingKinds => x.obj \in Standing(s)
             /\ x.obj.kind = "CreditDecision" =>
                  IF x.declares THEN x.obj = DecisionOf(s) ELSE x.obj \in {DecisionOf(z) : z \in Sessions}
  <2>1. PICK r \in e.refs : x = g[r]
    BY <1>3
  <2>2. /\ r.obj.kind \in StandingKinds => r.obj \in Standing(s)
        /\ r.obj.kind = "CreditDecision" =>
             IF r.declares THEN r.obj = DecisionOf(s) ELSE r.obj \in {DecisionOf(z) : z \in Sessions}
    BY DEF EventFits
  <2> QED
    BY <1>2, <2>1, <2>2
<1> QED
  BY <1>2, <1>4, <1>5 DEF EventFits

(* V7 leaves a trace that fits.                                            *)
LEMMA V7Fits == ASSUME LogOK, InjectOK, DrawOK, FaultV7 PROVE TraceFits(rows'[at], at)
<1> DEFINE repoint(r, wrong) == IF r.qual = "to" THEN [r EXCEPT !.obj = wrong] ELSE r
           refs(h, wrong)    == {repoint(r, wrong) : r \in Current[h].refs}
<1>1. PICK handoff \in SpansOf(Current, {"handoff"}) :
          /\ Turn(7)
          /\ \/ rows' = [rows EXCEPT ![at] = Without(Current, {handoff})]
             \/ \E wrong \in Bystanders(handoff) :
                    rows' = [rows EXCEPT ![at] = [Current EXCEPT ![handoff].refs = refs(handoff, wrong)]]
  BY DEF FaultV7, Apply, Rewrite
<1>2. TraceFits(Current, at) /\ \A k \in DOMAIN Current : DOMAIN Current[k] = Fields
  BY <1>1, TurnFits
<1>3. handoff \in DOMAIN Current /\ Current[handoff].type = "handoff"
  BY DEF SpansOf
<1>4. DeclaredBy("handoff") = {}
  BY KindsAre
<1>5. TraceFits(Without(Current, {handoff}), at)
  <2>1. PICK m \in Nat : DOMAIN Current = 1 .. m
    BY <1>1, TurnOf
  <2>2. \A k \in {handoff} : DeclaredBy(Current[k].type) \subseteq OwnKinds
    BY <1>3, <1>4
  <2>3. {handoff} \in SUBSET DOMAIN Current
    BY <1>3
  <2> QED
    BY <1>2, <2>1, <2>2, <2>3, WithoutFits
<1>6. ASSUME NEW wrong \in Bystanders(handoff)
      PROVE  TraceFits([Current EXCEPT ![handoff].refs = refs(handoff, wrong)], at)
  <2> DEFINE e == Current[handoff]
             g == [r \in e.refs |-> repoint(r, wrong)]
             all == refs(handoff, wrong)
             u == [Current EXCEPT ![handoff].refs = all]
  <2>1. wrong.kind = "Agent" /\ wrong \in Standing(at)
    <3>1. wrong \in Invoked
      BY DEF Bystanders
    <3> QED
      BY <1>1, <3>1, InvokedStand
  <2>2. \A r \in e.refs : r.qual \in {"from", "to"} => r.obj # wrong
    BY DEF Bystanders, Named
  <2>3. EventFits(e, at)
    BY <1>2, <1>3, FitsParts
  <2>4. all = {g[r] : r \in e.refs} /\ \A r \in e.refs : g[r] = repoint(r, wrong)
    OBVIOUS
  <2> HIDE DEF all, g
  <2>5. Revised(u, Current, handoff) /\ u[handoff].refs = all
    BY <1>2, <1>3, RefsRevised
  <2> HIDE DEF u
  <2>6. u[handoff].type = e.type /\ u[handoff].refs = {g[r] : r \in e.refs}
    BY <2>4, <2>5 DEF Revised
  <2>7. e.type = "handoff"
    BY <1>3
  <2>8. EventFits(u[handoff], at) /\ \A r \in e.refs : g[r].obj.kind = r.obj.kind /\ ~ r.declares
    <3>1. Repointed(u[handoff], e, g, wrong)
      BY <2>2, <2>4, <2>6 DEF Repointed
    <3> QED
      BY <2>1, <2>3, <2>7, <3>1, RepointedFits
  <2> HIDE DEF e
  <2>9. \A x \in u[handoff].refs : x.obj.kind \in ApprovalKinds => \E r \in e.refs : r.obj = x.obj
    <3>1. \A r \in e.refs : r.qual = "to" => r.obj.kind = "Agent"
      BY <2>3, <2>7 DEF EventFits, RefsFit, RefFits, NamedFits
    <3>2. "Agent" \notin ApprovalKinds
      BY KindsAre
    <3>3. \A r \in e.refs : g[r].obj.kind \in ApprovalKinds => g[r].obj = r.obj
      BY <2>4, <2>8, <3>1, <3>2
    <3> QED
      BY <2>6, <3>3
  <2>10. TraceFits(u, at)
    BY <1>2, <1>3, <2>5, <2>8, <2>9, RevisedFits DEF e
  <2> QED
    BY <2>10 DEF u, all
<1> HIDE DEF refs
<1> QED
  BY <1>1, <1>5, <1>6, RowIs

-----------------------------------------------------------------------------
(* Every fault action leaves a trace that fits.                            *)
LEMMA FaultFits == ASSUME LogOK, InjectOK, DrawOK, ApplyFault PROVE TraceFits(rows'[at], at)
  BY V1Fits, V2Fits, V3Fits, V4Fits, V5Fits, V6Fits, V7Fits, V8Fits DEF ApplyFault

(* The last touches: dense numbers, and the count of the last event.       *)
LEMMA RenumberedFits ==
    ASSUME NEW tr, NEW m \in Nat, DOMAIN tr = 1 .. m, \A k \in DOMAIN tr : DOMAIN tr[k] = Fields,
           NEW s, TraceFits(tr, s)
    PROVE  LET u == RecomputeEnd(Renumber(tr)) IN TraceFits(u, s) /\ Written(u)
<1> DEFINE v == Renumber(tr)
           u == RecomputeEnd(v)
<1>1. DOMAIN v = 1 .. m /\ v = [k \in 1 .. m |-> [tr[k] EXCEPT !.seq = k]]
  BY DEF Renumber
<1>2. ASSUME NEW k \in 1 .. m
      PROVE  /\ DOMAIN v[k] = Fields /\ v[k].seq = k
             /\ v[k].id = tr[k].id /\ v[k].type = tr[k].type /\ v[k].refs = tr[k].refs
  <2> DEFINE e == [tr[k] EXCEPT !.seq = k]
  <2>1. DOMAIN tr[k] = Fields
    OBVIOUS
  <2>2. /\ DOMAIN e = Fields /\ e.seq = k
        /\ e.id = tr[k].id /\ e.type = tr[k].type /\ e.refs = tr[k].refs
    BY <2>1 DEF Fields
  <2>3. v[k] = e
    BY <1>1
  <2> HIDE DEF e, v
  <2> QED
    BY <2>2, <2>3
<1>3. Len(v) = m
  BY <1>1
<1> HIDE DEF v
<1>4. u = [k \in 1 .. m |-> IF v[k].type = "session_end" THEN [v[k] EXCEPT !.count = m] ELSE v[k]]
  BY <1>1, <1>3 DEF RecomputeEnd
<1>5. DOMAIN u = 1 .. m /\ u = [k \in DOMAIN u |-> u[k]] /\ Len(u) = m
  BY <1>4
<1>6. ASSUME NEW k \in 1 .. m
      PROVE  /\ u[k].seq = k /\ u[k].id = tr[k].id /\ u[k].type = tr[k].type /\ u[k].refs = tr[k].refs
             /\ u[k].type = "session_end" => u[k].count = m
  <2> DEFINE e == [v[k] EXCEPT !.count = m]
  <2>1. DOMAIN v[k] = Fields
    BY <1>2
  <2>2. /\ e.seq = v[k].seq /\ e.id = v[k].id /\ e.type = v[k].type /\ e.refs = v[k].refs
        /\ e.count = m
    BY <2>1 DEF Fields
  <2>3. u[k] = IF v[k].type = "session_end" THEN e ELSE v[k]
    BY <1>4
  <2> HIDE DEF e, u
  <2> QED
    BY <1>2, <2>2, <2>3
<1> HIDE DEF u
<1>7. Written(u)
  BY <1>5, <1>6 DEF Written
<1>8. \A k \in DOMAIN u : EventFits(u[k], s)
  <2> SUFFICES ASSUME NEW k \in DOMAIN u PROVE EventFits(u[k], s)
    OBVIOUS
  <2>1. EventFits(tr[k], s) /\ u[k].type = tr[k].type /\ u[k].refs = tr[k].refs
    BY <1>5, <1>6, FitsParts
  <2> QED
    BY <2>1, FewerRefs
<1>9. DeclaredIn(u) = DeclaredIn(tr)
  <2>1. \A o : o \in DeclaredIn(u) <=> o \in DeclaredIn(tr)
    BY <1>5, <1>6, DeclaredInIs
  <2>2. DeclaredIn(u) \subseteq DeclaredIn(tr) /\ DeclaredIn(tr) \subseteq DeclaredIn(u)
    BY <2>1
  <2> QED
    BY <2>2
<1>10. ApprovalsFit(u)
  BY <1>5, <1>6, <1>9, FitsParts DEF ApprovalsFit, EventsOf
<1>11. Standing(s) \cup {DecisionOf(s)} \subseteq DeclaredIn(u)
  BY <1>9, FitsParts
<1>12. /\ \A k \in DOMAIN u : \E j \in DOMAIN tr : u[k].id = tr[j].id /\ u[k].type = tr[j].type
       /\ \A j, k \in DOMAIN u : u[j].id = u[k].id => j = k
  BY <1>5, <1>6, FitsParts
<1>13. TraceFits(u, s)
  BY <1>8, <1>10, <1>11, <1>12, FitsAgain
<1> QED
  BY <1>7, <1>13 DEF u, v

(* A distractor finds the approval it swaps.                               *)
LEMMA ApprovalStands ==
    ASSUME LogOK, InjectOK, DrawOK, phase = "inject", at \in d1
    PROVE  SpansOf(Current, {"request_approval"}) # {} /\ SpansOf(Current, VerdictTypes) # {}
<1> DEFINE n == Retrievals
           t == BaseTrace(at, applicant[at])
<1>1. /\ at \in Sessions /\ applied \subseteq plan[at] /\ Survives(Current, t, applied)
  BY DEF InjectOK, Base, Current
<1>2. applicant[at] \in Applicants
  BY <1>1, ApplyingAssumption DEF DrawOK
<1>3. applied \subseteq FaultClasses /\ applied \cap T1Classes = {}
  BY <1>1, InstanceFacts DEF DrawOK, LogOK, DistractorsOK
<1>4. applied \subseteq {4, 5, 6, 7, 8}
  BY <1>3 DEF FaultClasses, T1Classes
<1>5. \A type \in {"request_approval"} \cup VerdictTypes : type \notin Touched(applied)
  BY <1>4 DEF Touched, TouchedBy, VerdictTypes
<1>6. ASSUME NEW j \in {2 * n + 15, 2 * n + 16}
      PROVE  /\ j \in 1 .. 2 * n + 20 /\ TypeFits(t[j].type, j)
  BY <1>2, RetrievalFacts, BaseEvents
<1>7. t[2 * n + 15].type = "request_approval" /\ t[2 * n + 16].type \in VerdictTypes
  BY <1>6 DEF TypeFits
<1>8. \A j \in {2 * n + 15, 2 * n + 16} : \E k \in DOMAIN Current : Current[k] = t[j]
  <2> SUFFICES ASSUME NEW j \in {2 * n + 15, 2 * n + 16} PROVE \E k \in DOMAIN Current : Current[k] = t[j]
    OBVIOUS
  <2>1. j \in 1 .. 2 * n + 20 /\ t[j].type \notin Touched(applied)
    BY <1>5, <1>6, <1>7
  <2> QED
    BY <1>1, <1>2, <2>1, Remains
<1> QED
  BY <1>7, <1>8 DEF SpansOf

(* Writing a session leaves a trace that fits and is as written.           *)
LEMMA WriteFits ==
    ASSUME LogOK, InjectOK, DrawOK, WriteSession
    PROVE  TraceFits(rows'[at], at) /\ Written(rows'[at])
<1> DEFINE swapped == IF at \in d1 THEN ApplyD1(Current) ELSE Current
           u == IF plan[at] = {} /\ at \notin d1 THEN Current ELSE RecomputeEnd(Renumber(swapped))
<1>1. rows' = [rows EXCEPT ![at] = u] /\ phase = "inject"
  BY DEF WriteSession, Current
<1>2. /\ at \in Sessions /\ applied \subseteq plan[at] /\ Survives(Current, Base(at), applied)
      /\ applied = {} => Current = Base(at)
  BY <1>1 DEF InjectOK, Current
<1>3. applicant[at] \in Applicants
  BY <1>2, ApplyingAssumption DEF DrawOK
<1>4. TraceFits(Current, at)
  BY <1>2 DEF LogOK, Current
<1>5. CASE plan[at] = {} /\ at \notin d1
  <2>1. u = Base(at)
    BY <1>2, <1>5
  <2> HIDE DEF u
  <2> QED
    BY <1>1, <1>2, <1>3, <2>1, BaseFits, RowIs
<1>6. CASE plan[at] # {} \/ at \in d1
  <2>1. Len(Base(at)) \in Nat
    BY <1>3, BaseEvents DEF Base
  <2>2. TraceFits(swapped, at) /\ \E done : Survives(swapped, Base(at), done)
    <3>1. CASE at \in d1
      <4> DEFINE v == SwapApprover(Current, BoundaryApprover, {"authorised"})
      <4>1. swapped = v
        BY <3>1 DEF ApplyD1
      <4>2. SpansOf(Current, {"request_approval"}) # {} /\ SpansOf(Current, VerdictTypes) # {}
        BY <1>1, <3>1, ApprovalStands
      <4>3. BoundaryApprover.kind = "HumanApprover" /\ {"authorised"} = FactsOf(BoundaryApprover)
        BY DEF BoundaryApprover, Obj, FactsOf
      <4>4. Survives(v, Base(at), applied \cup {3})
        BY <1>2, <2>1, <4>2, SwapSurvives
      <4> HIDE DEF v, swapped
      <4>5. TraceFits(v, at)
        BY <1>2, <1>3, <1>4, <4>2, <4>3, ApprovalSwaps DEF Base, v
      <4> QED
        BY <4>1, <4>4, <4>5
    <3>2. CASE at \notin d1
      BY <1>2, <1>4, <3>2
    <3> QED
      BY <3>1, <3>2
  <2>3. u = RecomputeEnd(Renumber(swapped))
    BY <1>6
  <2> HIDE DEF swapped, u
  <2>4. PICK m \in Nat : DOMAIN swapped = 1 .. m
    BY <2>1, <2>2 DEF Survives
  <2>5. \A k \in DOMAIN swapped : DOMAIN swapped[k] = Fields
    BY <2>2 DEF Survives, EventsOf
  <2>6. TraceFits(u, at) /\ Written(u)
    BY <2>2, <2>3, <2>4, <2>5, RenumberedFits
  <2> QED
    BY <1>1, <2>6, RowIs
<1> QED
  BY <1>5, <1>6

-----------------------------------------------------------------------------
(* TraceFits reads nothing but the trace and the split.                    *)
LEMMA FitsPrimed ==
    ASSUME UNCHANGED given, NEW s, TraceFits(rows'[s], s)
    PROVE  TraceFits(rows[s], s)'
<1>1. UNCHANGED <<applicant, instance>>
  BY DEF given
<1>2. Sessions' = Sessions
  BY <1>1 DEF Sessions, N
<1>3. Standing(s)' = Standing(s)
  BY <1>1 DEF Standing, Base
<1>4. /\ \A e \in EventsOf(rows'[s]) : EventFits(e, s)
      /\ ApprovalsFit(rows'[s]) /\ Standing(s) \cup {DecisionOf(s)} \subseteq DeclaredIn(rows'[s])
      /\ IdsFit(rows'[s], s)
  BY DEF TraceFits
<1>5. ASSUME NEW e, EventFits(e, s) PROVE EventFits(e, s)'
  BY <1>2, <1>3, <1>5 DEF EventFits
<1> QED
  BY <1>3, <1>4, <1>5 DEF TraceFits

(* LogOK from what it says of every trace.                                 *)
LEMMA LogKeeps ==
    ASSUME UNCHANGED given, DistractorsOK', \A s \in Sessions : TraceFits(rows'[s], s),
           phase' = "inject" => \A s \in Sessions : s < at' => Written(rows'[s]),
           phase' = "done" => \A s \in Sessions : Written(rows'[s])
    PROVE  LogOK'
<1>1. Sessions' = Sessions
  BY DEF given, Sessions, N
<1>2. \A s \in Sessions : TraceFits(rows[s], s)'
  BY FitsPrimed
<1> QED
  BY <1>1, <1>2 DEF LogOK

(* Before injection begins every trace fits.                               *)
LEMMA BaseRows ==
    ASSUME InjectOK, DrawOK, phase \notin {"inject", "done"}
    PROVE  \A s \in Sessions : TraceFits(rows[s], s) /\ Written(rows[s])
<1> SUFFICES ASSUME NEW s \in Sessions PROVE TraceFits(rows[s], s) /\ Written(rows[s])
  OBVIOUS
<1>1. rows[s] = Base(s)
  BY DEF InjectOK
<1>2. applicant[s] \in Applicants
  BY ApplyingAssumption DEF DrawOK
<1> QED
  BY <1>1, <1>2, BaseFits

(* LogOK holds initially.                                                  *)
LEMMA LogInit == Init /\ DrawOK => LogOK
<1> SUFFICES ASSUME Init, DrawOK PROVE LogOK
  OBVIOUS
<1>1. InjectOK /\ phase = "allocate" /\ d1 = {}
  BY InjectInit DEF Init
<1>2. \A s \in Sessions : TraceFits(rows[s], s)
  BY <1>1, BaseRows
<1> QED
  BY <1>1, <1>2 DEF LogOK, DistractorsOK

(* Steps before injection preserve LogOK.                                  *)
LEMMA QuietFits ==
    ASSUME LogOK, InjectOK, DrawOK, phase \notin {"inject", "done"}, phase' \notin {"inject", "done"},
           UNCHANGED <<given, d1, rows>>
    PROVE  LogOK'
<1>1. d1' = {}
  BY DEF LogOK, DistractorsOK
<1>2. \A s \in Sessions : TraceFits(rows'[s], s)
  BY BaseRows
<1>3. DistractorsOK'
  BY <1>1 DEF DistractorsOK
<1> QED
  BY <1>2, <1>3, LogKeeps

(* Validating the donors preserves LogOK.                                  *)
LEMMA ValidateFits == ASSUME LogOK, InjectOK, DrawOK, Validate PROVE LogOK'
<1>1. UNCHANGED <<given, plan, at, rows>> /\ phase = "validate"
  BY DEF Validate
<1>2. CASE phase' = "refused" /\ UNCHANGED d1
  BY <1>1, <1>2, QuietFits
<1>3. CASE d1' \in kSubset(Min({D1Take, Cardinality(D1Pool)}), D1Pool) /\ phase' = "inject"
  <2>1. \A s \in d1' : plan'[s] \cap T1Classes = {}
    BY <1>1, <1>3 DEF kSubset, D1Pool
  <2>2. DistractorsOK'
    BY <1>3, <2>1 DEF DistractorsOK
  <2>3. \A s \in Sessions : TraceFits(rows'[s], s) /\ Written(rows'[s])
    BY <1>1, BaseRows
  <2> QED
    BY <1>1, <1>3, <2>2, <2>3, LogKeeps
<1> QED
  BY <1>2, <1>3 DEF Validate

(* A fault action preserves LogOK.                                         *)
LEMMA ApplyFits == ASSUME LogOK, InjectOK, DrawOK, ApplyFault PROVE LogOK'
<1>1. /\ UNCHANGED <<given, phase, plan, d1, at>> /\ phase = "inject"
      /\ \E u : rows' = [rows EXCEPT ![at] = u]
  BY DEF ApplyFault, FaultV1, FaultV2, FaultV3, FaultV4, FaultV5, FaultV6, FaultV7, FaultV8, Apply, Turn
<1>2. at \in Sessions /\ \A s \in Sessions : s # at => rows'[s] = rows[s]
  BY <1>1, RowIs DEF InjectOK
<1>3. \A s \in Sessions : TraceFits(rows'[s], s)
  BY <1>2, FaultFits DEF LogOK
<1>4. \A s \in Sessions : s < at => Written(rows'[s])
  <2>1. \A s \in Sessions : s < at => s # at /\ Written(rows[s])
    BY <1>1, <1>2, InstanceFacts DEF LogOK, DrawOK, Sessions
  <2> QED
    BY <1>2, <2>1
<1>5. DistractorsOK'
  BY <1>1 DEF LogOK, DistractorsOK
<1> QED
  BY <1>1, <1>3, <1>4, <1>5, LogKeeps

(* Writing a session preserves LogOK.                                      *)
LEMMA WriteLog == ASSUME LogOK, InjectOK, DrawOK, WriteSession PROVE LogOK'
<1>1. /\ UNCHANGED <<given, plan, d1>> /\ phase = "inject"
      /\ \E u : rows' = [rows EXCEPT ![at] = u]
      /\ IF at < N THEN at' = at + 1 /\ UNCHANGED phase ELSE phase' = "done" /\ UNCHANGED at
  BY DEF WriteSession
<1>2. at \in Sessions /\ \A s \in Sessions : s # at => rows'[s] = rows[s]
  BY <1>1, RowIs DEF InjectOK
<1>3. TraceFits(rows'[at], at) /\ Written(rows'[at])
  BY WriteFits
<1>4. \A s \in Sessions : TraceFits(rows'[s], s)
  BY <1>2, <1>3 DEF LogOK
<1>5. \A s \in Sessions : s <= at => Written(rows'[s])
  <2>1. \A s \in Sessions : s <= at => s = at \/ s < at
    BY <1>2, InstanceFacts DEF DrawOK, Sessions
  <2>2. \A s \in Sessions : s < at => Written(rows[s])
    BY <1>1 DEF LogOK
  <2> QED
    BY <1>2, <1>3, <2>1, <2>2
<1>6. N \in Nat \ {0}
  BY InstanceFacts DEF DrawOK
<1>7. CASE at < N /\ at' = at + 1 /\ UNCHANGED phase
  <2>1. \A s \in Sessions : s < at' => s <= at
    BY <1>2, <1>6, <1>7 DEF Sessions
  <2>2. DistractorsOK'
    BY <1>1, <1>7 DEF LogOK, DistractorsOK
  <2> QED
    BY <1>1, <1>4, <1>5, <1>7, <2>1, <2>2, LogKeeps
<1>8. CASE ~ (at < N) /\ phase' = "done" /\ UNCHANGED at
  <2>1. \A s \in Sessions : s <= at
    BY <1>2, <1>6, <1>8 DEF Sessions
  <2>2. DistractorsOK'
    BY <1>1, <1>8 DEF LogOK, DistractorsOK
  <2> QED
    BY <1>1, <1>4, <1>5, <1>8, <2>1, <2>2, LogKeeps
<1> QED
  BY <1>1, <1>7, <1>8

(* A stuttering step preserves LogOK.                                      *)
LEMMA LogKept == ASSUME LogOK, UNCHANGED vars PROVE LogOK'
<1>1. UNCHANGED <<given, phase, plan, d1, at, rows>>
  BY DEF vars
<1>2. DistractorsOK'
  BY <1>1 DEF LogOK, DistractorsOK
<1> QED
  BY <1>1, <1>2, LogKeeps DEF LogOK

(* Every step preserves LogOK, given the other invariants.                 *)
LEMMA LogStep == LogOK /\ InjectOK /\ AllocationOK /\ [Next]_vars => LogOK'
<1> SUFFICES ASSUME LogOK, InjectOK, AllocationOK, [Next]_vars PROVE LogOK'
  OBVIOUS
<1>1. DrawOK
  BY DEF AllocationOK
<1>2. CASE AllocateClean \/ AllocateSingle \/ SingleAllocated \/ AllocateMixed
  <2>1. /\ UNCHANGED <<given, d1, rows>> /\ phase = "allocate"
        /\ phase' \in {"allocate", "short", "validate"}
    BY <1>2 DEF AllocateClean, AllocateSingle, SingleAllocated, AllocateMixed
  <2> QED
    BY <1>1, <2>1, QuietFits
<1>3. CASE Validate
  BY <1>1, <1>3, ValidateFits
<1>4. CASE ApplyFault
  BY <1>1, <1>4, ApplyFits
<1>5. CASE WriteSession
  BY <1>1, <1>5, WriteLog
<1>6. CASE UNCHANGED vars
  BY <1>6, LogKept
<1> QED
  BY <1>2, <1>3, <1>4, <1>5, <1>6 DEF Next

(* LogOK is an invariant: every trace fits at every moment.                *)
LEMMA LogHolds == Spec => []LogOK
<1>1. Init => LogOK
  BY AllocationInit, LogInit DEF AllocationOK
<1> QED
  BY <1>1, LogStep, AllocationHolds, InjectHolds, PTL DEF Spec

-----------------------------------------------------------------------------
(* An event that has one reference to an object of a kind takes another    *)
(* object of that kind in its place.                                       *)
LEMMA TakesOfAKind ==
    ASSUME TraceFits(Current, at), NEW k \in DOMAIN Current,
           Current[k].type \notin {"session_start", "handoff"},
           NEW chosen \in SUBSET Current[k].refs, NEW object,
           \A q \in chosen : q.obj.kind = object.kind
    PROVE  Takes(k, chosen, object)
<1>1. \A q, r \in Current[k].refs : q.obj.kind = r.obj.kind => q = r
  BY FitsParts DEF RefsFit
<1>2. ASSUME NEW q \in chosen, NEW r \in Current[k].refs \ {q}
      PROVE  r \notin chosen /\ r.obj # object
  <2>1. r.obj.kind # object.kind
    BY <1>1
  <2> QED
    BY <2>1
<1> QED
  BY <1>2 DEF Takes

(* The request and the verdict, while there are both, take any approver.   *)
LEMMA TakesAnyApprover ==
    ASSUME TraceFits(Current, at), Survives(Current, Base(at), applied), Len(Base(at)) \in Nat,
           ApprovalAtHand, NEW approver, approver.kind = "HumanApprover"
    PROVE  TakesApprover(approver)
<1> DEFINE i == SpanOf(Current, "request_approval")
           j == Verdict(Current)
<1>1. i \in DOMAIN Current /\ Current[i].type = "request_approval"
  BY SpanIs DEF ApprovalAtHand
<1>2. j \in DOMAIN Current /\ Current[j].type \in VerdictTypes
  <2>1. SpansOf(Current, VerdictTypes) \in SUBSET Nat
    BY TraceDomain
  <2>2. j \in SpansOf(Current, VerdictTypes)
    BY <2>1, SmallestOf DEF ApprovalAtHand, Verdict
  <2> QED
    BY <2>2 DEF SpansOf
<1> HIDE DEF i, j
<1>3. ASSUME NEW k \in {i, j} PROVE Takes(k, OfKind(k, "HumanApprover"), approver)
  <2>1. k \in DOMAIN Current /\ Current[k].type \notin {"session_start", "handoff"}
    BY <1>1, <1>2 DEF VerdictTypes
  <2>2. /\ OfKind(k, "HumanApprover") \in SUBSET Current[k].refs
        /\ \A q \in OfKind(k, "HumanApprover") : q.obj.kind = approver.kind
    BY DEF OfKind
  <2> QED
    BY <2>1, <2>2, TakesOfAKind
<1> QED
  BY <1>3 DEF TakesApprover, i, j

(* The references a fault repoints: of V2, ...                             *)
LEMMA TakesForV2 ==
    ASSUME LogOK, InjectOK, DrawOK, Turn(2), DonorAtHand, NEW donor \in DonorsFor(at)
    PROVE  LET k == SpanOf(Current, "grant_approval") IN Takes(k, ByQual(k, "approves"), donor)
<1> DEFINE k == SpanOf(Current, "grant_approval")
<1>1. /\ TraceFits(Current, at) /\ Survives(Current, Base(at), applied) /\ Len(Base(at)) \in Nat
  BY TurnFits
<1>2. k \in DOMAIN Current /\ Current[k].type = "grant_approval"
  BY <1>1, SpanIs DEF DonorAtHand
<1>3. donor.kind = "CreditDecision"
  BY DecisionIs DEF DonorsFor, Donors
<1> HIDE DEF k
<1>4. \A r \in Current[k].refs : RefFits(r, Current[k].type)
  BY <1>1, <1>2, FitsParts
<1>5. /\ ByQual(k, "approves") \in SUBSET Current[k].refs
      /\ \A q \in ByQual(k, "approves") : q.obj.kind = donor.kind
  BY <1>3, <1>4 DEF ByQual, RefFits, NamedFits
<1>6. Takes(k, ByQual(k, "approves"), donor)
  BY <1>1, <1>2, <1>5, TakesOfAKind
<1> QED
  BY <1>6 DEF k

(* ... of V5, ...                                                          *)
LEMMA TakesForV5 ==
    ASSUME LogOK, InjectOK, DrawOK, Turn(5), DemographicsAtHand
    PROVE  LET k == Min(RetrievalsOf(Demographics)) IN Takes(k, OfKind(k, "DataResource"), Local(at))
<1> DEFINE k == Min(RetrievalsOf(Demographics))
<1>1. /\ TraceFits(Current, at) /\ Survives(Current, Base(at), applied) /\ Len(Base(at)) \in Nat
  BY TurnFits
<1>2. k \in RetrievalsOf(Demographics)
  <2>1. SpansOf(Current, {"retrieve_data"}) \in SUBSET Nat
    BY <1>1, TraceDomain
  <2>2. RetrievalsOf(Demographics) \in SUBSET Nat
    BY <2>1 DEF RetrievalsOf
  <2> QED
    BY <2>2, SmallestOf DEF DemographicsAtHand
<1>3. k \in DOMAIN Current /\ Current[k].type = "retrieve_data"
  BY <1>2 DEF RetrievalsOf, SpansOf
<1>4. Local(at).kind = "DataResource"
  BY DEF Local, Resource, Obj
<1> HIDE DEF k
<1>5. /\ OfKind(k, "DataResource") \in SUBSET Current[k].refs
      /\ \A q \in OfKind(k, "DataResource") : q.obj.kind = Local(at).kind
  BY <1>4 DEF OfKind
<1>6. Takes(k, OfKind(k, "DataResource"), Local(at))
  BY <1>1, <1>3, <1>5, TakesOfAKind
<1> QED
  BY <1>6 DEF k

(* ... of V7, whose handoff names no agent but its two ends, ...           *)
LEMMA TakesForV7 ==
    ASSUME LogOK, InjectOK, DrawOK, Turn(7),
           NEW h \in SpansOf(Current, {"handoff"}), NEW wrong \in Bystanders(h)
    PROVE  Takes(h, ByQual(h, "to"), wrong)
<1>1. TraceFits(Current, at)
  BY TurnFits
<1>2. h \in DOMAIN Current /\ Current[h].type = "handoff"
  BY DEF SpansOf
<1>3. /\ \A q, r \in Current[h].refs : q.qual = r.qual => q = r
      /\ \A r \in Current[h].refs : RefFits(r, "handoff")
  BY <1>1, <1>2, FitsParts DEF RefsFit
<1>4. wrong.kind = "Agent"
  <2>1. wrong \in Invoked
    BY DEF Bystanders
  <2> QED
    BY <2>1, InvokedStand
<1>5. ASSUME NEW r \in Current[h].refs, r.obj = wrong PROVE FALSE
  <2>1. r.qual \in {"from", "to"}
    BY <1>3, <1>4, <1>5 DEF RefFits, NamedFits
  <2>2. r.obj \in Named(h, "from") \cup Named(h, "to")
    BY <2>1 DEF Named
  <2> QED
    BY <1>5, <2>2 DEF Bystanders
<1>6. \A q, r \in ByQual(h, "to") : q = r
  BY <1>3 DEF ByQual
<1>7. ByQual(h, "to") \in SUBSET Current[h].refs
  BY DEF ByQual
<1> QED
  BY <1>5, <1>6, <1>7 DEF Takes

(* ... and of V8.                                                          *)
LEMMA TakesForV8 ==
    ASSUME LogOK, InjectOK, DrawOK, Turn(8), NEW target \in OtherPolicies
    PROVE  Takes(DecisionSpan, OfKind(DecisionSpan, "PolicyVersion"), target)
<1>1. /\ TraceFits(Current, at)
      /\ DecisionSpan \in DOMAIN Current /\ Current[DecisionSpan].type = "make_decision"
  BY TurnFits
<1>2. target.kind = "PolicyVersion"
  BY DEF OtherPolicies, PoliciesNamed
<1>3. /\ OfKind(DecisionSpan, "PolicyVersion") \in SUBSET Current[DecisionSpan].refs
      /\ \A q \in OfKind(DecisionSpan, "PolicyVersion") : q.obj.kind = target.kind
  BY <1>2 DEF OfKind
<1> QED
  BY <1>1, <1>3, TakesOfAKind

(* Every event a fault rewrites, validate_event lets through.              *)
LEMMA AlwaysAccepts ==
    ASSUME LogOK, InjectOK, DrawOK, NEW c, Turn(c)
    PROVE  Accepts(c)
<1>1. Finds(c)
  BY AlwaysFinds
<1>2. /\ TraceFits(Current, at) /\ Survives(Current, Base(at), applied) /\ Len(Base(at)) \in Nat
  BY TurnFits
<1>3. ASSUME c = 2, NEW donor \in DonorsFor(at)
      PROVE  Takes(SpanOf(Current, "grant_approval"), ByQual(SpanOf(Current, "grant_approval"), "approves"), donor)
  BY <1>1, <1>3, TakesForV2 DEF Finds
<1>4. ASSUME c = 3 PROVE TakesApprover(Rogue(at))
  <2>1. Rogue(at).kind = "HumanApprover"
    BY DEF Rogue, Obj
  <2> QED
    BY <1>1, <1>2, <1>4, <2>1, TakesAnyApprover DEF Finds
<1>5. ASSUME c = 5
      PROVE  Takes(Min(RetrievalsOf(Demographics)),
                   OfKind(Min(RetrievalsOf(Demographics)), "DataResource"), Local(at))
  BY <1>1, <1>5, TakesForV5 DEF Finds
<1>6. ASSUME c = 7, NEW h \in SpansOf(Current, {"handoff"}), NEW wrong \in Bystanders(h)
      PROVE  Takes(h, ByQual(h, "to"), wrong)
  BY <1>6, TakesForV7
<1>7. ASSUME c = 8, NEW target \in OtherPolicies
      PROVE  Takes(DecisionSpan, OfKind(DecisionSpan, "PolicyVersion"), target)
  BY <1>7, TakesForV8
<1> QED
  BY <1>3, <1>4, <1>5, <1>6, <1>7 DEF Accepts

(* So for the distractor.                                                  *)
LEMMA DistractorAccepted ==
    ASSUME LogOK, InjectOK, DrawOK, phase = "inject", at \in d1
    PROVE  ReadyForD1
<1>1. ApprovalAtHand
  BY ApprovalStands DEF ApprovalAtHand
<1>2. at \in Sessions /\ Survives(Current, Base(at), applied)
  BY DEF InjectOK, Current
<1>3. TraceFits(Current, at) /\ Len(Base(at)) \in Nat
  <2>1. applicant[at] \in Applicants
    BY <1>2, ApplyingAssumption DEF DrawOK
  <2> QED
    BY <1>2, <2>1, BaseEvents DEF Base, LogOK, Current
<1>4. BoundaryApprover.kind = "HumanApprover"
  BY DEF BoundaryApprover, Obj
<1> QED
  BY <1>1, <1>2, <1>3, <1>4, TakesAnyApprover DEF ReadyForD1

(* Once the first session is being written nothing raises: no class takes  *)
(* away what a later class of the session or its distractor looks for,     *)
(* donors were settled for every session before, and every event that is   *)
(* rewritten still passes validate_event, since it has one reference of    *)
(* the kind or the qualifier that is pointed elsewhere.                    *)
THEOREM InjectionIsNeverTorn == Spec => []NeverTorn
<1>1. LogOK /\ InjectOK /\ AllocationOK => NeverTorn
  BY AlwaysFinds, AlwaysAccepts, DistractorAccepted DEF AllocationOK, NeverTorn, Ready
<1> QED
  BY <1>1, LogHolds, InjectHolds, AllocationHolds, PTL

-----------------------------------------------------------------------------
(* The spans of a split, and what its sessions declare.                    *)
LEMMA SpansAre ==
    /\ \A e : e \in AllSpans <=> \E s \in Sessions : \E k \in DOMAIN rows[s] : e = rows[s][k]
    /\ \A s \in Sessions : DeclaredIn(rows[s]) \subseteq {r.obj : r \in Declarations}
<1>1. \A e : e \in AllSpans <=> \E s \in Sessions : \E k \in DOMAIN rows[s] : e = rows[s][k]
  BY DEF AllSpans
<1>2. ASSUME NEW s \in Sessions, NEW o \in DeclaredIn(rows[s]) PROVE o \in {r.obj : r \in Declarations}
  <2>1. PICK k \in DOMAIN rows[s] : \E r \in rows[s][k].refs : r.declares /\ r.obj = o
    BY <1>2, DeclaredInIs
  <2>2. PICK r \in rows[s][k].refs : r.declares /\ r.obj = o
    BY <2>1
  <2>3. r \in Declarations
    BY <1>1, <2>2 DEF Declarations
  <2> QED
    BY <2>2, <2>3
<1> QED
  BY <1>1, <1>2

(* Two declarations of an object give it the same facts.                   *)
LEMMA FactsAgree ==
    ASSUME LogOK, NEW q \in Declarations, NEW r \in Declarations, q.obj = r.obj
    PROVE  q.facts = r.facts
<1>a. PICK s \in Sessions : \E k \in DOMAIN rows[s] : q \in rows[s][k].refs /\ q.declares
  BY SpansAre DEF Declarations
<1>b. PICK x \in Sessions : \E j \in DOMAIN rows[x] : r \in rows[x][j].refs /\ r.declares
  BY SpansAre DEF Declarations
<1>1. PICK k \in DOMAIN rows[s] : q \in rows[s][k].refs /\ q.declares
  BY <1>a
<1>2. PICK j \in DOMAIN rows[x] : r \in rows[x][j].refs /\ r.declares
  BY <1>b
<1>3. TraceFits(rows[s], s) /\ TraceFits(rows[x], x)
  BY DEF LogOK
<1>4. RefFits(q, rows[s][k].type) /\ RefFits(r, rows[x][j].type)
  BY <1>1, <1>2, <1>3, FitsParts
<1>5. CASE q.obj.kind # "CreditDecision"
  BY <1>1, <1>2, <1>4, <1>5 DEF RefFits
<1>6. CASE q.obj.kind = "CreditDecision"
  <2>1. EventFits(rows[s][k], s) /\ EventFits(rows[x][j], x) /\ RefsFit(rows[s][k])
    BY <1>3, FitsParts
  <2>2. q.obj = DecisionOf(s) /\ r.obj = DecisionOf(x)
    BY <1>1, <1>2, <1>6, <2>1 DEF EventFits
  <2>3. s = x
    BY <2>2, DecisionIs
  <2>4. rows[s][k].type = "make_decision" /\ rows[x][j].type = "make_decision"
    BY <1>1, <1>2, <1>4, <1>6, DeclarersAre DEF RefFits
  <2>5. k = j
    BY <1>3, <2>3, <2>4 DEF TraceFits, IdsFit
  <2>6. q = r
    BY <1>1, <1>2, <2>1, <2>3, <2>5 DEF RefsFit
  <2> QED
    BY <2>6
<1> QED
  BY <1>5, <1>6

(* What an event references is declared somewhere in the split.            *)
LEMMA LogCloses ==
    ASSUME LogOK, NEW s \in Sessions, NEW k \in DOMAIN rows[s], NEW r \in rows[s][k].refs
    PROVE  \E x \in Sessions : r.obj \in DeclaredIn(rows[x])
<1>1. TraceFits(rows[s], s)
  BY DEF LogOK
<1>2. /\ RefFits(r, rows[s][k].type) /\ EventFits(rows[s][k], s)
      /\ Standing(s) \cup {DecisionOf(s)} \subseteq DeclaredIn(rows[s])
      /\ r.obj.kind \in ApprovalKinds => r.obj \in DeclaredIn(rows[s])
  BY <1>1, FitsParts
<1>3. CASE r.declares
  BY <1>3, DeclaredInIs
<1>4. CASE r.obj.kind \in StandingKinds
  BY <1>2, <1>4 DEF EventFits
<1>5. CASE r.obj.kind = "CreditDecision" /\ ~ r.declares
  <2>1. PICK x \in Sessions : r.obj = DecisionOf(x)
    BY <1>2, <1>5 DEF EventFits
  <2>2. TraceFits(rows[x], x)
    BY DEF LogOK
  <2>3. DecisionOf(x) \in DeclaredIn(rows[x])
    BY <2>2, FitsParts
  <2> QED
    BY <2>1, <2>3
<1>6. r.obj.kind \in StandingKinds \cup OwnKinds \cup ApprovalKinds \cup {"CreditDecision"}
  BY <1>2 DEF RefFits, NamedFits
<1>7. r.obj.kind \in OwnKinds => r.declares
  BY <1>2 DEF RefFits
<1> QED
  BY <1>2, <1>3, <1>4, <1>5, <1>6, <1>7

(* An injected split is still a run that the mapper accepts, whatever      *)
(* faults its sessions carry: numbered densely, every event id once, one   *)
(* meaning per object id, and nothing referred to that a deleted event was *)
(* the only one to declare; session_end counts the events that are left.   *)
THEOREM InjectedSplitIsALog == Spec => []SplitIsALog
<1>1. LogOK /\ InjectOK /\ AllocationOK => SplitIsALog
  <2> SUFFICES ASSUME LogOK, InjectOK, AllocationOK, phase = "done" PROVE SplitIsALog
    BY DEF SplitIsALog, Done
  <2>1. \A s \in Sessions : TraceFits(rows[s], s) /\ Written(rows[s])
    BY DEF LogOK
  <2>2. ASSUME NEW s \in Sessions PROVE {rows[s][k].seq : k \in DOMAIN rows[s]} = 1 .. Len(rows[s])
    <3>1. PICK m \in 0 .. Len(Base(s)) : DOMAIN rows[s] = 1 .. m
      BY DEF InjectOK, RowsOK
    <3>2. rows[s] = [k \in 1 .. m |-> rows[s][k]] /\ \A k \in 1 .. m : rows[s][k].seq = k
      BY <2>1, <3>1 DEF Written
    <3>3. m \in Nat
      <4>1. Len(Base(s)) \in Nat
        BY FreshSession DEF AllocationOK
      <4> QED
        BY <3>1, <4>1
    <3>4. Len(rows[s]) = m
      BY <3>2, <3>3
    <3>5. {rows[s][k].seq : k \in 1 .. m} = 1 .. m
      BY <3>2
    <3> QED
      BY <3>1, <3>4, <3>5
  <2>3. ASSUME NEW e \in AllSpans, NEW f \in AllSpans, e.id = f.id PROVE e = f
    <3>a. PICK s \in Sessions : \E k \in DOMAIN rows[s] : e = rows[s][k]
      BY SpansAre
    <3>b. PICK x \in Sessions : \E j \in DOMAIN rows[x] : f = rows[x][j]
      BY SpansAre
    <3>1. PICK k \in DOMAIN rows[s] : e = rows[s][k]
      BY <3>a
    <3>2. PICK j \in DOMAIN rows[x] : f = rows[x][j]
      BY <3>b
    <3>3. TraceFits(rows[s], s) /\ TraceFits(rows[x], x)
      BY <2>1
    <3>4. /\ \E i \in 1 .. 2 * Retrievals + 20 : e.id = <<s, i>>
          /\ \E i \in 1 .. 2 * Retrievals + 20 : f.id = <<x, i>>
      BY <3>1, <3>2, <3>3 DEF TraceFits, IdsFit
    <3>5. s = x
      <4>1. e.id[1] = s /\ f.id[1] = x
        BY <3>4
      <4> QED
        BY <2>3, <4>1
    <3> QED
      BY <2>3, <3>1, <3>2, <3>3, <3>5, FitsParts
  <2>4. ASSUME NEW e \in AllSpans, NEW q \in e.refs, NEW r \in e.refs, q.obj = r.obj PROVE q = r
    <3>0. PICK s \in Sessions : \E k \in DOMAIN rows[s] : e = rows[s][k]
      BY SpansAre
    <3>1. PICK k \in DOMAIN rows[s] : e = rows[s][k]
      BY <3>0
    <3>2. RefsFit(e)
      BY <2>1, <3>1, FitsParts
    <3> QED
      BY <2>4, <3>2 DEF RefsFit
  <2>5. \A q, r \in Declarations : q.obj = r.obj => q.facts = r.facts
    BY FactsAgree
  <2>6. ASSUME NEW e \in AllSpans, NEW r \in e.refs PROVE r.obj \in {x.obj : x \in Declarations}
    <3>0. PICK s \in Sessions : \E k \in DOMAIN rows[s] : e = rows[s][k]
      BY SpansAre
    <3>1. PICK k \in DOMAIN rows[s] : e = rows[s][k]
      BY <3>0
    <3>2. PICK x \in Sessions : r.obj \in DeclaredIn(rows[x])
      BY <3>1, LogCloses
    <3> QED
      BY <3>2, SpansAre
  <2>7. \A e \in AllSpans : {r.obj : r \in e.refs} \subseteq {r.obj : r \in Declarations}
    BY <2>6
  <2>8. SplitMaps
    BY <2>2, <2>3, <2>4, <2>5, <2>7 DEF SplitMaps
  <2>9. \A s \in Sessions : \A k \in DOMAIN rows[s] :
            rows[s][k].type = "session_end" => rows[s][k].count = Len(rows[s])
    BY <2>1 DEF Written
  <2> QED
    BY <2>8, <2>9 DEF SplitIsALog
<1> QED
  BY <1>1, LogHolds, InjectHolds, AllocationHolds, PTL
=============================================================================
