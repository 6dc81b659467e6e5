------------------------------- MODULE Casebook -------------------------------
(***************************************************************************)
(* Practice attempts of one published Casebook case (casebook_store.py):   *)
(* the append-only log attempts.jsonl, the archive of practice receipts    *)
(* and the interview packet derived from the log.                          *)
(*                                                                         *)
(* record_attempt takes no lock, and the command line and the local UI are *)
(* two processes on the same directory: each system call that reads or     *)
(* changes a shared file is a step, and the disk may fail or the process   *)
(* be killed between any two.                                              *)
(***************************************************************************)
EXTENDS Integers, Sequences, FiniteSets

CONSTANTS Proc,         \* processes that record attempts
          Content,      \* what a receipt can contain; a digest stands for it
          NoContent,    \* an attempt without a receipt
          NStages,      \* stages of the practice ladder (five in the code)
          Faults,       \* what may go wrong: see FaultKind
          MaxAttempts,  \* bound: calls of record_attempt
          MaxTampers    \* bound: archived files altered from outside

FaultKind == {"short", "write", "sync", "truncate", "packet", "crash"}

CasebookAssumption ==
  /\ NoContent \notin Content
  /\ NStages \in Nat \ {0} /\ MaxAttempts \in Nat /\ MaxTampers \in Nat
  /\ Faults \subseteq FaultKind

VARIABLES log,        \* attempts.jsonl: its writes, in file order
          archive,    \* archive[c][n]: the file of digest c, numbered n
          packet,     \* the attempts interview-packet.md was rendered from
          book,       \* book[i]: attempt i as it is (or will be) serialised
          call,       \* call[p]: the call process p is in
          committed,  \* ghost: attempts whose append was fsynced
          undone,     \* ghost: attempts whose append failed and was rolled back
          tampered    \* ghost: attempts that held or named a file when it was
                      \* altered from outside, and how many times that happened

vars == <<log, archive, packet, book, call, committed, undone, tampered>>

-----------------------------------------------------------------------------
Stage     == 1..NStages
Outcome   == {"PASS", "NEEDS_WORK"}
AttemptId == 1..MaxAttempts

\* Names are digest, digest-2, ...: one per attempt is more than enough.
FileNo == 1..(MaxAttempts + 1)

\* file is 0 until the receipt has a name.
Attempt == [stage : Stage, outcome : Outcome, content : Content \cup {NoContent},
            file : FileNo \cup {0}]

\* One write of a line is two halves.  A short write leaves the first: a head
\* that is no JSON, or a bare record that only lacks its newline.  A hole is
\* what ftruncate adds when it lengthens the file.
Chunk == [id : AttemptId, part : {"head", "rest", "bare", "newline"}]
           \cup [part : {"hole"}]

Half(i, part) == [id |-> i, part |-> part]

Second(part) == IF part = "head" THEN "rest" ELSE "newline"
Hole == [part |-> "hole"]

Pc == {"idle", "look", "name", "rename", "open", "write", "more", "sync",
       "cut", "drop", "packet"}

\* read: the attempts it read; fresh: it archived the receipt itself;
\* length: the size of the log when it opened it.
Call == [pc : Pc, id : AttemptId \cup {0}, read : Seq(AttemptId),
         fresh : BOOLEAN, length : Nat]

NoCall == [pc |-> "idle", id |-> 0, read |-> <<>>, fresh |-> FALSE, length |-> 0]

-----------------------------------------------------------------------------
\* read_attempts parses line by line, and the last line needs no newline.
Readable(f) ==
  \A k \in 1..Len(f) :
    /\ f[k].part # "hole"
    /\ f[k].part = "head" => k < Len(f) /\ f[k + 1] = Half(f[k].id, "rest")
    /\ f[k].part = "rest" => k > 1 /\ f[k - 1] = Half(f[k].id, "head")
    /\ f[k].part = "bare" /\ k < Len(f) => f[k + 1].part = "newline"

\* The attempts of a log, in file order: a record is there from its closing
\* brace on, newline or not.  The n-th is the one with n of them up to it.
Ends(f)     == {k \in 1..Len(f) : f[k].part \in {"rest", "bare"}}
Place(f, n) == {k \in Ends(f) : Cardinality({m \in Ends(f) : m <= k}) = n}
TheOne(S)   == CHOOSE x \in S : TRUE
Recorded(f) == [n \in 1..Cardinality(Ends(f)) |-> TheOne({f[k].id : k \in Place(f, n)})]

\* derive_mastery: the latest outcome of each stage counts.
Passed(seq, s) ==
  \E k \in 1..Len(seq) :
    /\ book[seq[k]].stage = s /\ book[seq[k]].outcome = "PASS"
    /\ \A j \in (k + 1)..Len(seq) : book[seq[j]].stage # s

GateOpen(seq, s) == \A q \in 1..(s - 1) : Passed(seq, q)

\* Mutant of Reusable: a file of that name is taken without hashing it.
ReusableUnread(c) == archive[c][1] # "absent"

Reusable(c) == archive[c][1] = "good"

FreeName(c, n) ==
  /\ archive[c][n] = "absent"
  /\ \A k \in 1..(n - 1) : archive[c][k] # "absent"

\* Mutant of Truncated: the file is emptied.
TruncatedToNothing(f, n) == IF n < 0 THEN f ELSE <<>>

Truncated(f, n) == [k \in 1..n |-> IF k <= Len(f) THEN f[k] ELSE Hole]

\* Where a failure of the append finds bytes in the file (total_written > 0).
RolledBackFrom == {"more", "sync"}

\* prospective_attempts: what this call read, plus its own attempt.
Rendered(p) == Append(call[p].read, call[p].id)

Goto(p, pc) == call' = [call EXCEPT ![p].pc = pc]
Leave(p)    == call' = [call EXCEPT ![p] = NoCall]

-----------------------------------------------------------------------------
Init ==
  /\ log = <<>>
  /\ archive = [c \in Content |-> [n \in FileNo |-> "absent"]]
  /\ packet = <<>>
  /\ book = <<>>
  /\ call = [p \in Proc |-> NoCall]
  /\ committed = {} /\ undone = {}
  /\ tampered = [ids |-> {}, times |-> 0]

\* record_attempt up to its last check.  A log that cannot be read, a closed
\* gate or a pass without a receipt raises and changes nothing.
Begin(p, s, o, c) ==
  LET i == Len(book) + 1
      seq == Recorded(log)
  IN  /\ call[p].pc = "idle" /\ i \in AttemptId
      /\ Readable(log)
      /\ o = "PASS" => c # NoContent /\ GateOpen(seq, s)
      /\ book' = Append(book, [stage |-> s, outcome |-> o, content |-> c, file |-> 0])
      /\ call' = [call EXCEPT ![p] =
                    [NoCall EXCEPT !.pc = IF c = NoContent THEN "open" ELSE "look",
                                   !.id = i, !.read = seq]]
      /\ UNCHANGED <<log, archive, packet, committed, undone, tampered>>

\* The source is copied to a private staging file, then compared with the file
\* its digest names.
Look(p) ==
  LET i == call[p].id IN
  /\ call[p].pc = "look"
  /\ \/ /\ Reusable(book[i].content)
        /\ book' = [book EXCEPT ![i].file = 1]
        /\ Goto(p, "open")
     \/ /\ ~Reusable(book[i].content)
        /\ Goto(p, "name") /\ UNCHANGED book
  /\ UNCHANGED <<log, archive, packet, committed, undone, tampered>>

ChooseName(p) ==
  LET i == call[p].id IN
  /\ call[p].pc = "name"
  /\ \E n \in FileNo : /\ FreeName(book[i].content, n)
                      /\ book' = [book EXCEPT ![i].file = n]
  /\ Goto(p, "rename")
  /\ UNCHANGED <<log, archive, packet, committed, undone, tampered>>

\* rename() replaces whatever has got that name in the meantime.
Rename(p) ==
  LET r == book[call[p].id] IN
  /\ call[p].pc = "rename"
  /\ archive' = [archive EXCEPT ![r.content][r.file] = "good"]
  /\ call' = [call EXCEPT ![p].pc = "open", ![p].fresh = TRUE]
  /\ UNCHANGED <<log, packet, book, committed, undone, tampered>>

OpenLog(p) ==
  /\ call[p].pc = "open"
  /\ call' = [call EXCEPT ![p].pc = "write", ![p].length = Len(log)]
  /\ UNCHANGED <<log, archive, packet, book, committed, undone, tampered>>

\* The log is opened with O_APPEND: each write goes to its end at that time.
WriteLine(p) ==
  LET i == call[p].id IN
  /\ call[p].pc = "write"
  /\ log' = log \o <<Half(i, "head"), Half(i, "rest")>>
  /\ Goto(p, "sync")
  /\ UNCHANGED <<archive, packet, book, committed, undone, tampered>>

WriteShort(p) ==
  /\ "short" \in Faults /\ call[p].pc = "write"
  /\ \E part \in {"head", "bare"} : log' = Append(log, Half(call[p].id, part))
  /\ Goto(p, "more")
  /\ UNCHANGED <<archive, packet, book, committed, undone, tampered>>

\* The loop writes the bytes that are missing, wherever the file ends by now.
WriteMore(p) ==
  LET i == call[p].id IN
  /\ call[p].pc = "more"
  /\ \E part \in {"head", "bare"} :
       /\ \E k \in 1..Len(log) : log[k] = Half(i, part)
       /\ log' = Append(log, Half(i, Second(part)))
  /\ Goto(p, "sync")
  /\ UNCHANGED <<archive, packet, book, committed, undone, tampered>>

\* write or fsync raises.
AppendFails(p) ==
  LET pc == call[p].pc IN
  /\ \/ "write" \in Faults /\ pc \in {"write", "more"}
     \/ "sync" \in Faults /\ pc = "sync"
  /\ Goto(p, IF pc \in RolledBackFrom THEN "cut" ELSE "drop")
  /\ undone' = IF pc \in RolledBackFrom THEN undone ELSE undone \cup {call[p].id}
  /\ UNCHANGED <<log, archive, packet, book, committed, tampered>>

\* ftruncate to the length the file had when this call opened it.
Truncate(p) ==
  /\ call[p].pc = "cut"
  /\ log' = Truncated(log, call[p].length)
  /\ undone' = undone \cup {call[p].id}
  /\ Goto(p, "drop")
  /\ UNCHANGED <<archive, packet, book, committed, tampered>>

TruncateFails(p) ==
  /\ "truncate" \in Faults /\ call[p].pc = "cut"
  /\ Goto(p, "drop")
  /\ UNCHANGED <<log, archive, packet, book, committed, undone, tampered>>

\* The except clause of record_attempt, then the exception.
DropReceipt(p) ==
  LET r == book[call[p].id] IN
  /\ call[p].pc = "drop"
  /\ archive' = IF call[p].fresh
                THEN [archive EXCEPT ![r.content][r.file] = "absent"] ELSE archive
  /\ Leave(p)
  /\ UNCHANGED <<log, packet, book, committed, undone, tampered>>

Commit(p) ==
  /\ call[p].pc = "sync"
  /\ committed' = committed \cup {call[p].id}
  /\ Goto(p, "packet")
  /\ UNCHANGED <<log, archive, packet, book, undone, tampered>>

\* The packet is replaced as a whole, or stays as it is.
WritePacket(p) ==
  /\ call[p].pc = "packet"
  /\ \/ packet' = Rendered(p)
     \/ "packet" \in Faults /\ UNCHANGED packet
  /\ Leave(p)
  /\ UNCHANGED <<log, archive, book, committed, undone, tampered>>

\* The process is killed: the files stay as they are.
Crash(p) ==
  /\ "crash" \in Faults /\ call[p].pc # "idle"
  /\ Leave(p)
  /\ UNCHANGED <<log, archive, packet, book, committed, undone, tampered>>

\* Somebody alters or removes an archived file: verify_integrity is for that.
Tamper(c, n, how) ==
  /\ tampered.times < MaxTampers /\ archive[c][n] \notin {"absent", how}
  /\ archive' = [archive EXCEPT ![c][n] = how]
  /\ tampered' = [ids |-> tampered.ids \cup
                            {i \in 1..Len(book) : book[i].content = c /\ book[i].file = n},
                  times |-> tampered.times + 1]
  /\ UNCHANGED <<log, packet, book, call, committed, undone>>

Next ==
  \/ \E p \in Proc :
       \/ \E s \in Stage, o \in Outcome, c \in Content \cup {NoContent} : Begin(p, s, o, c)
       \/ Look(p) \/ ChooseName(p) \/ Rename(p) \/ OpenLog(p)
       \/ WriteLine(p) \/ WriteShort(p) \/ WriteMore(p) \/ AppendFails(p)
       \/ Truncate(p) \/ TruncateFails(p) \/ DropReceipt(p)
       \/ Commit(p) \/ WritePacket(p) \/ Crash(p)
  \/ \E c \in Content, n \in FileNo, how \in {"bad", "absent"} : Tamper(c, n, how)

Spec == Init /\ [][Next]_vars

-----------------------------------------------------------------------------
\* The log, the archive and the calls under way have the shapes the code gives
\* them.
TypeOK ==
  /\ log \in Seq(Chunk)
  /\ archive \in [Content -> [FileNo -> {"absent", "good", "bad"}]]
  /\ packet \in Seq(AttemptId)
  /\ book \in Seq(Attempt) /\ Len(book) <= MaxAttempts
  /\ call \in [Proc -> Call]
  /\ committed \subseteq AttemptId /\ undone \subseteq AttemptId
  /\ tampered \in [ids : SUBSET AttemptId, times : 0..MaxTampers]

\* No attempt is lost: once its append was fsynced (record_attempt goes on to
\* return it) its line stays in the log, whatever the calls after it suffer.
CommittedStay ==
  LET seq == Recorded(log) IN
  \A i \in committed : \E k \in 1..Len(seq) : seq[k] = i

\* The ladder is climbed in order: in a log that can be read, every pass was
\* recorded when the latest outcome of every earlier stage was a pass
\* (SequentialPracticeError otherwise), failed and interrupted calls included.
GatesSequential ==
  Readable(log) =>
    LET seq == Recorded(log) IN
    \A k \in 1..Len(seq) :
      book[seq[k]].outcome = "PASS" =>
        \A q \in 1..(book[seq[k]].stage - 1) :
          \E j \in 1..(k - 1) :
            /\ book[seq[j]].stage = q /\ book[seq[j]].outcome = "PASS"
            /\ \A m \in (j + 1)..(k - 1) : book[seq[m]].stage # q

\* The packet is a projection: it may lag behind the log but shows no history
\* the log does not begin with.
PacketIsAPrefix ==
  LET seq == Recorded(log) IN
  Len(packet) <= Len(seq) /\ \A k \in 1..Len(packet) : packet[k] = seq[k]

\* An append that failed and was rolled back left no byte in the log, whether
\* the write was cut short or only its fsync failed.
UndoneLeaveNoTrace ==
  \A k \in 1..Len(log) : log[k].part # "hole" => log[k].id \notin undone

\* Every committed attempt with a receipt has an archived file of exactly that
\* content, unless somebody altered the archive after the name was given: a
\* file that was altered before is not taken for the receipt.
CommittedBacked ==
  \A i \in committed \ tampered.ids :
    LET r == book[i] IN
    r.content # NoContent => r.file # 0 /\ archive[r.content][r.file] = "good"

=============================================================================
