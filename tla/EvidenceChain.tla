---------------------------- MODULE EvidenceChain ----------------------------
(***************************************************************************)
(* The hash chain of an evidence bundle (evidence/chain.py), and what      *)
(* verify_chain tells the reader of a copy whose records have been lost,   *)
(* repeated, reordered or mixed with those of another bundle on the way,   *)
(* or one of whose records was changed.                                    *)
(*                                                                         *)
(* A record is its content and its integrity block.  A digest is modelled  *)
(* by what it is a digest of, since sha256 does not collide here; it       *)
(* leaves out the integrity block, so the link to the record before is     *)
(* checked but not itself hashed.                                          *)
(***************************************************************************)
EXTENDS Integers, Sequences

CONSTANTS Genesis,   \* the 64 zeros before the first record
          Unchained, \* the integrity of a record that chain() has not seen
          Forged,    \* a content, or a digest, of no record of any bundle
          NoCopy,
          MaxMoves   \* bound: how often the records of a copy are moved about

VARIABLES
    published, \* the bundles that `check` has written
    copy,      \* the copy an auditor has been handed, or NoCopy
    moves,     \* how often its records were moved
    altered    \* one of its records was changed

chainVars == <<published, copy, moves, altered>>

ASSUME MaxMovesType == MaxMoves \in Nat

(* chain: every record of the ordered list linked to its predecessor.      *)
Link(contents) ==
    [i \in 1 .. Len(contents) |->
        [content   |-> contents[i],
         integrity |-> [chain_index |-> i - 1,
                        record_sha256 |-> contents[i],
                        prev_record_sha256 |-> IF i = 1 THEN Genesis ELSE contents[i - 1]]]]

(* Mutant of Holds: the link to the record before is not looked at.        *)
HoldsAlone(bundle, i) ==
    LET integrity == bundle[i].integrity
    IN  /\ integrity # Unchained
        /\ integrity.chain_index = i - 1
        /\ integrity.record_sha256 = bundle[i].content

(* verify_chain, at one position.                                          *)
Holds(bundle, i) ==
    LET integrity == bundle[i].integrity
    IN  /\ integrity # Unchained
        /\ integrity.chain_index = i - 1
        /\ integrity.record_sha256 = bundle[i].content
        /\ integrity.prev_record_sha256 =
               IF i = 1 THEN Genesis ELSE bundle[i - 1].integrity.record_sha256

Verify(bundle) == \A i \in 1 .. Len(bundle) : Holds(bundle, i)

ChainInit ==
    /\ published = {}
    /\ copy = NoCopy
    /\ moves = 0
    /\ altered = FALSE

-----------------------------------------------------------------------------
(* What may happen to a copy.  Its records are moved about as they are ... *)
Move(newCopy) ==
    /\ ~ altered
    /\ moves < MaxMoves
    /\ copy' = newCopy
    /\ moves' = moves + 1
    /\ UNCHANGED <<published, altered>>

Drop ==
    /\ copy # NoCopy
    /\ \E i \in 1 .. Len(copy) :
           Move([j \in 1 .. Len(copy) - 1 |-> IF j < i THEN copy[j] ELSE copy[j + 1]])

Swap ==
    /\ copy # NoCopy
    /\ \E i, j \in 1 .. Len(copy) :
           Move([k \in 1 .. Len(copy) |->
                    IF k = i THEN copy[j] ELSE IF k = j THEN copy[i] ELSE copy[k]])

(* ... also between bundles: a record is put behind the copy or in the     *)
(* place of one of its own, ...                                            *)
Insert ==
    /\ copy # NoCopy
    /\ \E bundle \in published : \E i \in 1 .. Len(bundle), j \in 1 .. Len(copy) + 1 :
           Move([k \in 1 .. Len(copy) + 1 |->
                    IF k < j THEN copy[k] ELSE IF k = j THEN bundle[i] ELSE copy[k - 1]])

Replant ==
    /\ copy # NoCopy
    /\ \E bundle \in published : \E i \in 1 .. Len(bundle), j \in 1 .. Len(copy) :
           Move([k \in 1 .. Len(copy) |-> IF k = j THEN bundle[i] ELSE copy[k]])

(* ... or one field of one record is changed: its content, its place, or   *)
(* a digest in its integrity block.                                        *)
Changed(record) ==
    LET integrity == record.integrity
    IN  {[record EXCEPT !.content = Forged],
         [record EXCEPT !.integrity = Unchained],
         [record EXCEPT !.integrity.record_sha256 = Forged],
         [record EXCEPT !.integrity.prev_record_sha256 = Forged],
         [record EXCEPT !.integrity.chain_index = integrity.chain_index + 1]}

Alter ==
    /\ copy # NoCopy
    /\ moves = 0 /\ ~ altered
    /\ \E i \in 1 .. Len(copy) : \E record \in Changed(copy[i]) :
           copy' = [k \in 1 .. Len(copy) |-> IF k = i THEN record ELSE copy[k]]
    /\ altered' = TRUE
    /\ UNCHANGED <<published, moves>>

CopyStep == Drop \/ Swap \/ Insert \/ Replant \/ Alter

-----------------------------------------------------------------------------
IsPrefixOf(short, long) ==
    /\ Len(short) <= Len(long)
    /\ \A i \in 1 .. Len(short) : short[i] = long[i]

(* A copy verifies exactly if it is the beginning of one bundle that was   *)
(* published: no record lost before the last one kept, none repeated, out  *)
(* of place, altered or from another bundle.  (chain.py says both halves:  *)
(* any change is caught, and any prefix passes.)                           *)
VerifiedIsPrefix ==
    copy # NoCopy =>
        (Verify(copy) <=> \E bundle \in published : IsPrefixOf(copy, bundle))
=============================================================================
