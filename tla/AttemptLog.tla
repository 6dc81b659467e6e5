----------------------------- MODULE AttemptLog -----------------------------
(***************************************************************************)
(* What a casebook promises whoever records attempts: attempts are read in *)
(* the order they were recorded, each once; one that was promised (its     *)
(* append was fsynced, and record_attempt returns it) keeps its place; the *)
(* last one may be withdrawn as long as it was not promised.               *)
(***************************************************************************)
EXTENDS Naturals, Sequences

CONSTANT Entry   \* whatever can be recorded

VARIABLES records,   \* the attempts a reader finds, in their order
          promised   \* those their callers were told of

LogInit == records = <<>> /\ promised = {}

Record ==
  /\ \E i \in Entry : /\ \A k \in 1..Len(records) : records[k] # i
                        /\ records' = Append(records, i)
  /\ UNCHANGED promised

Promise ==
  /\ records # <<>>
  /\ promised' = promised \cup {records[Len(records)]}
  /\ UNCHANGED records

Withdraw ==
  /\ \E i \in Entry \ promised : records = Append(records', i)
  /\ UNCHANGED promised

LogNext == Record \/ Promise \/ Withdraw

LogSpec == LogInit /\ [][LogNext]_<<records, promised>>
=============================================================================
