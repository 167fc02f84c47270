-------------------------- MODULE SplitStoreProofs --------------------------
(***************************************************************************)
(* Proofs about SplitStore, for any number of injections and splits.       *)
(***************************************************************************)
EXTENDS SplitStore, TLAPS

LEMMA OrderFacts ==
    /\ Len(Order) \in Nat
    /\ Len(Order) > 0
    /\ DOMAIN Order = 1 .. Len(Order)
    /\ \A i \in DOMAIN Order : Order[i] \in Splits
    /\ \A i, j \in DOMAIN Order : Order[i] = Order[j] => i = j
  BY OrderAssumption DEF Splits

LEMMA HereIsASplit == TypeOK => Here \in Splits
  BY DEF TypeOK, Here, Splits

(* One removed entry turns a directory into a part of itself, or removes   *)
(* it; the other directories stay.                                         *)
LEMMA UnlinkShrinks ==
    ASSUME NEW dirs, DOMAIN dirs = Splits, NEW s \in Splits, NEW new \in Unlink(dirs, s)
    PROVE  /\ DOMAIN new = Splits
           /\ new[s] = Absent \/ new[s] \subseteq dirs[s]
           /\ \A r \in Splits \ {s} : new[r] = dirs[r]
<1>1. CASE dirs[s] = {}
  <2>1. new = [dirs EXCEPT ![s] = Absent]
    BY <1>1 DEF Unlink
  <2>2. QED BY <2>1
<1>2. CASE dirs[s] # {}
  <2>1. PICK f \in dirs[s] : new = [dirs EXCEPT ![s] = dirs[s] \ {f}]
    BY <1>2 DEF Unlink
  <2>2. QED BY <2>1
<1>3. QED BY <1>1, <1>2

(* A file an injection writes in a split is part of its output for it.     *)
LEMMA WrittenIsOutput ==
    ASSUME NEW j \in Injections, NEW s \in Splits, NEW name \in NameOf(j, s)
    PROVE  [name |-> name, by |-> j] \in Output(j, s)
  BY DEF Output

-----------------------------------------------------------------------------
LEMMA StartsRight == Init => StoreInv
<1> SUFFICES ASSUME Init PROVE StoreInv
  OBVIOUS
<1>1. TypeOK
  BY OrderFacts DEF Init, TypeOK, IsDirectory
<1>2. Prepared /\ InOrder /\ NeverMixed /\ CompleteIsCurrent
  BY DEF Init, Prepared, InOrder, NeverMixed, CompleteIsCurrent
<1>3. QED BY <1>1, <1>2 DEF StoreInv

LEMMA StartKeeps ==
    ASSUME StoreInv, NEW j \in Injections, Start(j) PROVE StoreInv'
<1>1. TypeOK'
  BY OrderFacts DEF StoreInv, TypeOK, Start, IsDirectory
<1>2. Prepared' /\ InOrder' /\ NeverMixed' /\ CompleteIsCurrent'
  BY NoneAssumption
  DEF StoreInv, Prepared, InOrder, NeverMixed, CompleteIsCurrent, Start
<1>3. QED BY <1>1, <1>2 DEF StoreInv

LEMMA ClearTmpKeeps == ASSUME StoreInv, ClearTmp PROVE StoreInv'
<1>1. DOMAIN tmp = Splits /\ Here \in Splits /\ tmp' \in Unlink(tmp, Here)
  BY HereIsASplit DEF StoreInv, TypeOK, ClearTmp
<1>2. /\ DOMAIN tmp' = Splits
      /\ tmp'[Here] = Absent \/ tmp'[Here] \subseteq tmp[Here]
      /\ \A r \in Splits \ {Here} : tmp'[r] = tmp[r]
  BY <1>1, UnlinkShrinks
<1>3. TypeOK'
  BY <1>1, <1>2 DEF StoreInv, TypeOK, ClearTmp, IsDirectory
<1>4. Prepared' /\ NeverMixed'
  BY DEF StoreInv, Prepared, NeverMixed, ClearTmp
<1>5. InOrder'
  BY <1>2, OrderFacts DEF StoreInv, TypeOK, InOrder, ClearTmp, Here
<1>6. CompleteIsCurrent'
  BY DEF StoreInv, InOrder, CompleteIsCurrent, ClearTmp
<1>7. QED BY <1>3, <1>4, <1>5, <1>6 DEF StoreInv

(* The steps that write into the temporary directory of the split at hand. *)
LEMMA FillKeeps ==
    ASSUME StoreInv, injection # None, NEW dir,
           tmp' = [tmp EXCEPT ![Here] = dir], dir \subseteq Output(injection, Here),
           step' \in {"write", "publish", "swap"},
           step' \in {"publish", "swap"} =>
               Output(injection, Here) \ {Written(Labels)} \subseteq dir,
           step' = "swap" => Written(Labels) \in dir,
           UNCHANGED <<injection, position, final, last, complete>>
    PROVE  StoreInv'
<1>1. injection \in Injections /\ Here \in Splits /\ DOMAIN tmp = Splits
  BY HereIsASplit DEF StoreInv, TypeOK
<1>2. /\ DOMAIN tmp' = Splits
      /\ tmp'[Here] = dir
      /\ \A r \in Splits \ {Here} : tmp'[r] = tmp[r]
  BY <1>1
<1>3. Output(injection, Here) \subseteq [name : Names, by : Injections]
  BY <1>1 DEF Output, Names
<1>4. TypeOK'
  BY <1>1, <1>2, <1>3 DEF StoreInv, TypeOK, IsDirectory
<1>5. Prepared'
  BY <1>2 DEF Prepared, Here, Written, Output
<1>6. InOrder'
  BY <1>2, OrderFacts DEF StoreInv, TypeOK, InOrder, Here
<1>7. NeverMixed' /\ CompleteIsCurrent'
  BY DEF StoreInv, InOrder, NeverMixed, CompleteIsCurrent
<1>8. QED BY <1>4, <1>5, <1>6, <1>7 DEF StoreInv

LEMMA MakeTmpKeeps == ASSUME StoreInv, MakeTmp PROVE StoreInv'
<1>1. {} \subseteq Output(injection, Here)
  OBVIOUS
<1>2. step' = "write" /\ tmp' = [tmp EXCEPT ![Here] = {}]
  BY DEF MakeTmp
<1>3. QED BY <1>1, <1>2, FillKeeps DEF MakeTmp

LEMMA WriteSpanFileKeeps == ASSUME StoreInv, WriteSpanFile PROVE StoreInv'
<1>1. PICK name \in Unwritten : tmp' = [tmp EXCEPT ![Here] = @ \cup {Written(name)}]
  BY DEF WriteSpanFile
<1>2. injection \in Injections /\ Here \in Splits
  BY HereIsASplit DEF StoreInv, TypeOK, WriteSpanFile
<1>3. Written(name) \in Output(injection, Here)
  BY <1>1, <1>2, WrittenIsOutput DEF Unwritten, Written, NameOf
<1>4. tmp[Here] \cup {Written(name)} \subseteq Output(injection, Here)
  BY <1>3 DEF StoreInv, Prepared, WriteSpanFile
<1>5. step' = "write"
  BY DEF WriteSpanFile
<1>6. QED BY <1>1, <1>4, <1>5, FillKeeps DEF WriteSpanFile

LEMMA WriteManifestKeeps == ASSUME StoreInv, WriteManifest PROVE StoreInv'
<1> DEFINE dir == tmp[Here] \cup {Written(Manifest)}
<1>1. injection \in Injections /\ Here \in Splits
  BY HereIsASplit DEF StoreInv, TypeOK, WriteManifest
<1>2. Written(Manifest) \in Output(injection, Here)
  BY <1>1, WrittenIsOutput DEF Written, NameOf
<1>3. dir \subseteq Output(injection, Here)
  BY <1>2 DEF StoreInv, Prepared, WriteManifest
<1>4. ASSUME NEW f \in Output(injection, Here), f # Written(Labels)
      PROVE  f \in dir
  <2>1. PICK name \in NameOf(injection, Here) : f = Written(name)
    BY DEF Output, Written
  <2>2. CASE name \in Files[injection][Here]
    BY <2>1, <2>2 DEF WriteManifest, Unwritten
  <2>3. CASE name = Manifest
    BY <2>1, <2>3
  <2>4. QED BY <1>4, <2>1, <2>2, <2>3 DEF NameOf
<1>5. QED BY <1>3, <1>4, FillKeeps DEF WriteManifest

LEMMA WriteLabelsKeeps == ASSUME StoreInv, WriteLabels PROVE StoreInv'
<1>1. injection \in Injections /\ Here \in Splits
  BY HereIsASplit DEF StoreInv, TypeOK, WriteLabels
<1>2. Written(Labels) \in Output(injection, Here)
  BY <1>1, WrittenIsOutput DEF Written, NameOf
<1>3. QED BY <1>2, FillKeeps DEF StoreInv, Prepared, WriteLabels

LEMMA RemoveOldKeeps == ASSUME StoreInv, RemoveOld PROVE StoreInv'
<1>1. DOMAIN final = Splits /\ Here \in Splits /\ final' \in Unlink(final, Here)
  BY HereIsASplit DEF StoreInv, TypeOK, RemoveOld
<1>2. /\ DOMAIN final' = Splits
      /\ final'[Here] = Absent \/ final'[Here] \subseteq final[Here]
      /\ \A r \in Splits \ {Here} : final'[r] = final[r]
  BY <1>1, UnlinkShrinks
<1>3. TypeOK'
  BY <1>1, <1>2 DEF StoreInv, TypeOK, RemoveOld, IsDirectory
<1>4. Prepared'
  BY DEF StoreInv, Prepared, RemoveOld, Here, Written, Output
<1>5. NeverMixed'
  BY <1>1, <1>2 DEF StoreInv, NeverMixed, RemoveOld
<1>6. InOrder'
  BY <1>2, OrderFacts DEF StoreInv, TypeOK, InOrder, RemoveOld, Here
<1>7. CompleteIsCurrent'
  BY DEF StoreInv, InOrder, CompleteIsCurrent, RemoveOld
<1>8. QED BY <1>3, <1>4, <1>5, <1>6, <1>7 DEF StoreInv

(* What is renamed into place is the whole output for the split.           *)
LEMMA SwapPublishesAll ==
    ASSUME StoreInv, Swap
    PROVE  /\ injection \in Injections /\ Here \in Splits
           /\ tmp[Here] = Output(injection, Here)
<1>1. injection \in Injections /\ Here \in Splits
  BY HereIsASplit DEF StoreInv, TypeOK, Swap
<1>2. tmp[Here] = Output(injection, Here)
  BY DEF StoreInv, Prepared, Swap
<1>3. QED BY <1>1, <1>2

LEMMA SwapKeeps == ASSUME StoreInv, Swap PROVE StoreInv'
<1>1. /\ injection \in Injections /\ Here \in Splits
      /\ tmp[Here] = Output(injection, Here)
  BY SwapPublishesAll
<1>2. /\ DOMAIN final' = Splits
      /\ final'[Here] = Output(injection, Here)
      /\ \A r \in Splits \ {Here} : final'[r] = final[r]
  BY <1>1 DEF StoreInv, TypeOK, Swap
<1>3. /\ DOMAIN tmp' = Splits
      /\ tmp'[Here] = Absent
      /\ \A r \in Splits \ {Here} : tmp'[r] = tmp[r]
  BY <1>1 DEF StoreInv, TypeOK, Swap
<1>4. /\ position \in 1 .. Len(Order) /\ Len(Order) \in Nat
      /\ \A i \in 1 .. position :
             final'[Order[i]] = Output(injection, Order[i]) /\ tmp'[Order[i]] = Absent
  BY <1>2, <1>3, OrderFacts DEF StoreInv, TypeOK, InOrder, Swap, Here
<1>5. TypeOK'
  <2>1. Output(injection, Here) \subseteq [name : Names, by : Injections]
    BY <1>1 DEF Output, Names
  <2>2. /\ \A s \in Splits : IsDirectory(tmp[s])'
        /\ \A s \in Splits : IsDirectory(final[s])'
    BY <1>2, <1>3, <2>1 DEF StoreInv, TypeOK, IsDirectory
  <2>3. /\ injection' \in Injections \cup {None}
        /\ complete' \in Injections \cup {None}
        /\ position' \in DOMAIN Order
    BY <1>1, <1>4, OrderFacts DEF StoreInv, TypeOK, Swap
  <2>4. QED BY <1>2, <1>3, <2>2, <2>3 DEF StoreInv, TypeOK, Swap
<1>6. Prepared'
  BY DEF Prepared, Swap
<1>7. NeverMixed'
  BY <1>1, <1>2 DEF StoreInv, NeverMixed
<1>8. CASE position < Len(Order)
  <2>1. position' = position + 1 /\ UNCHANGED <<injection, complete>>
    BY <1>8 DEF Swap
  <2>2. InOrder' /\ CompleteIsCurrent'
    BY <1>1, <1>4, <2>1, NoneAssumption DEF StoreInv, InOrder, CompleteIsCurrent
  <2>3. QED BY <1>5, <1>6, <1>7, <2>2 DEF StoreInv
<1>9. CASE position = Len(Order)
  <2>1. injection' = None /\ complete' = injection
    BY <1>4, <1>9 DEF Swap
  <2>2. \A s \in Splits : \E i \in 1 .. position : s = Order[i]
    BY <1>9, OrderFacts DEF Splits
  <2>3. CompleteIsCurrent'
    BY <1>4, <2>1, <2>2 DEF CompleteIsCurrent
  <2>4. QED BY <1>5, <1>6, <1>7, <2>1, <2>3 DEF StoreInv, InOrder
<1>10. QED BY <1>4, <1>8, <1>9

LEMMA FailKeeps == ASSUME StoreInv, Fail PROVE StoreInv'
<1>1. TypeOK'
  BY OrderFacts DEF StoreInv, TypeOK, Fail, IsDirectory
<1>2. Prepared' /\ InOrder' /\ NeverMixed' /\ CompleteIsCurrent'
  BY DEF StoreInv, Prepared, InOrder, NeverMixed, CompleteIsCurrent, Fail
<1>3. QED BY <1>1, <1>2 DEF StoreInv

LEMMA StutterKeeps == ASSUME StoreInv, UNCHANGED vars PROVE StoreInv'
<1>1. TypeOK'
  BY DEF StoreInv, TypeOK, vars, IsDirectory
<1>2. Prepared' /\ InOrder'
  BY DEF StoreInv, Prepared, InOrder, vars, Here, Written, Output
<1>3. NeverMixed' /\ CompleteIsCurrent'
  BY DEF StoreInv, NeverMixed, CompleteIsCurrent, vars
<1>4. QED BY <1>1, <1>2, <1>3 DEF StoreInv

LEMMA StoreInvariant == Spec => []StoreInv
<1>1. Init => StoreInv
  BY StartsRight
<1>2. StoreInv /\ [Next]_vars => StoreInv'
  BY StartKeeps, ClearTmpKeeps, MakeTmpKeeps, WriteSpanFileKeeps, WriteManifestKeeps,
     WriteLabelsKeeps, RemoveOldKeeps, SwapKeeps, FailKeeps, StutterKeeps
  DEF Next, Advance
<1>3. QED BY <1>1, <1>2, PTL DEF Spec

-----------------------------------------------------------------------------
(* inject_run's variables have their types, and every directory holds only *)
(* files that some injection writes.                                       *)
THEOREM TypeCorrect == Spec => []TypeOK
<1>1. StoreInv => TypeOK
  BY DEF StoreInv
<1>2. QED BY <1>1, StoreInvariant, PTL

(* Whatever fails in inject_run and whenever, no split holds files of two  *)
(* injections: labels.json never stands beside other telemetry than its    *)
(* own.                                                                    *)
THEOREM Unmixed == Spec => []NeverMixed
<1>1. StoreInv => NeverMixed
  BY DEF StoreInv
<1>2. QED BY <1>1, StoreInvariant, PTL

(* An injection that returned has left exactly its own splits.             *)
THEOREM Current == Spec => []CompleteIsCurrent
<1>1. StoreInv => CompleteIsCurrent
  BY DEF StoreInv
<1>2. QED BY <1>1, StoreInvariant, PTL

(* A split only ever appears whole, by the rename at the end; every other  *)
(* step of inject_run leaves it alone or takes files away.                 *)
THEOREM AppearsWhole == Spec => OnlyRemovalTears
<1> DEFINE Whole ==
      \A s \in Splits :
          (final'[s] # final[s] /\ final'[s] # Absent) =>
              \/ final[s] # Absent /\ final'[s] \subseteq final[s]
              \/ injection # None /\ final'[s] = Output(injection, s)
<1>1. StoreInv /\ [Next]_vars => [Whole]_final
  <2> SUFFICES ASSUME StoreInv, Next, final' # final PROVE Whole
    BY DEF vars
  <2>1. CASE RemoveOld
    <3>1. DOMAIN final = Splits /\ Here \in Splits /\ final' \in Unlink(final, Here)
      BY <2>1, HereIsASplit DEF StoreInv, TypeOK, RemoveOld
    <3>2. /\ final'[Here] = Absent \/ final'[Here] \subseteq final[Here]
          /\ \A r \in Splits \ {Here} : final'[r] = final[r]
      BY <3>1, UnlinkShrinks
    <3>3. QED BY <2>1, <3>1, <3>2 DEF RemoveOld
  <2>2. CASE Swap
    <3>1. injection # None /\ final' = [final EXCEPT ![Here] = tmp[Here]]
      BY <2>2 DEF Swap
    <3>2. Here \in Splits /\ tmp[Here] = Output(injection, Here) /\ DOMAIN final = Splits
      BY <2>2, SwapPublishesAll DEF StoreInv, TypeOK
    <3>3. QED BY <3>1, <3>2
  <2>3. QED
    BY <2>1, <2>2 DEF Next, Advance, Start, ClearTmp, MakeTmp, WriteSpanFile,
                      WriteManifest, WriteLabels, Fail
<1>2. QED BY <1>1, StoreInvariant, PTL DEF Spec, OnlyRemovalTears
=============================================================================
