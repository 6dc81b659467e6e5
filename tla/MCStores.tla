------------------------------- MODULE MCStores -------------------------------
(***************************************************************************)
(* The three stores that are files appended to or rewritten in place, for  *)
(* TLC: the orchestration history, the casebook (one process with every    *)
(* kind of fault; two processes that are killed) and the Codex inventory   *)
(* beside the knowledge store.  They share nothing, so a behaviour is one  *)
(* of one store, chosen at the start, and the states of the parts add up.  *)
(***************************************************************************)
EXTENDS Orchestration, TLC

CONSTANTS long, short,
          OneProc,      \* the process of a casebook without company
          TwoProcs,     \* the processes of a casebook that several record in
          Content, NoContent,
          SoloStages, PairStages,     \* the ladders of the two casebooks
          SoloFaults, PairFaults,     \* what may go wrong in them
          MaxAttempts,                \* bound: attempts of a casebook
          MaxTampers,                 \* bound: archived files altered (several)
          Session, Job, NoJob,
          ParseWorkers,
          MaxVersion                  \* bound: versions of a session

VARIABLES part,
          log, archive, packet, book, call, committed, undone, tampered,
          file, store, inventory, mem, disk, queued, main, parse, other

\* One run long enough for a block and a second execution, beside a short one.
LongAndShort == [r \in Run |-> IF r = long THEN 10 ELSE 1]

bookVars  == <<log, archive, packet, book, call, committed, undone, tampered>>
codexVars == <<file, store, inventory, mem, disk, queued, main, parse, other>>
allVars   == <<part, vars, bookVars, codexVars>>

\* One process and every kind of fault.
Solo == INSTANCE Casebook WITH
           Proc <- OneProc, NStages <- SoloStages, Faults <- SoloFaults, MaxTampers <- 0

\* Several processes that are killed, and altered files.  Their appends do not
\* fail: a rollback beside another process truncates that one's attempts.
Pair == INSTANCE Casebook WITH
           Proc <- TwoProcs, NStages <- PairStages, Faults <- PairFaults

\* Imports whose writes may fail, and no importer but this one.
Codex == INSTANCE CodexImport WITH WritesMayFail <- TRUE, OtherImporter <- FALSE

ASSUME PartsAssumption == /\ Solo!CasebookAssumption /\ Pair!CasebookAssumption
                          /\ Codex!CodexImportAssumption
                          /\ \A p, q \in OneProc : p = q
                          /\ PairFaults \cap {"write", "sync"} = {}

Symmetry == Permutations(TwoProcs) \cup Permutations(Session) \cup Permutations(Job)

StoresInit == /\ part \in {"orchestration", "solo", "pair", "codex"}
              /\ Init /\ Codex!Init
              /\ IF part = "pair" THEN Pair!Init ELSE Solo!Init
              /\ part # "codex" => file = [s \in Session |-> 0]
              /\ part # "orchestration" => status = [t \in Task |-> "NEW"]

StoresNext ==
    /\ UNCHANGED part
    /\ \/ part = "orchestration" /\ Next /\ UNCHANGED <<bookVars, codexVars>>
       \/ part = "solo" /\ Solo!Next /\ UNCHANGED <<vars, codexVars>>
       \/ part = "pair" /\ Pair!Next /\ UNCHANGED <<vars, codexVars>>
       \/ part = "codex" /\ Codex!Next /\ UNCHANGED <<vars, bookVars>>

StoresSpec == StoresInit /\ [][StoresNext]_allVars

------------------------------------------------------------------------------
(* Properties, beside those of the orchestration history *)

\* The types of the stores.
StoresTypeOK == /\ part = "orchestration" => TypeOK
                /\ part = "solo" => Solo!TypeOK
                /\ part = "pair" => Pair!TypeOK
                /\ part = "codex" => Codex!TypeOK

\* The attempts of a casebook with one process, whatever writes fail or are cut
\* short: committed ones stay in the log, the gates were passed one after the
\* other, the packet is rendered from a prefix of the log, and an append that
\* was rolled back leaves no trace.
AttemptsStand ==
    part = "solo" => /\ Solo!CommittedStay /\ Solo!GatesSequential
                     /\ Solo!PacketIsAPrefix /\ Solo!UndoneLeaveNoTrace

\* Every committed attempt has its archived receipt, whoever else records,
\* is killed or alters a file (two processes, whose appends may be cut short by
\* a kill but do not fail).
CommittedBacked == part = "pair" => Pair!CommittedBacked

\* The inventory of an import never claims what the store does not have, and the
\* counts of a job add up, in memory and in its file.
ImportTells == part = "codex" => Codex!InventoryBacked /\ Codex!CountsAddUp
===============================================================================
