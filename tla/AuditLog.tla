------------------------------ MODULE AuditLog ------------------------------
(***************************************************************************)
(* AuditLogger of src/audit.py: log() appends a signed line to the file of *)
(* the day, verify_integrity() reads a file back line by line.  Several    *)
(* processes (a server for every client) share the directory.              *)
(*                                                                         *)
(* An entry goes out in a single write() when the file is closed.  A full  *)
(* disk lets a part of it through and raises; a power failure keeps what   *)
(* the system had written back of each file, and perhaps a part of the     *)
(* next entry, since the code never asks for a sync.  Nobody else writes   *)
(* to the files, so every signature that can be read is there and right.   *)
(***************************************************************************)
EXTENDS Integers, Sequences, FiniteSets

CONSTANTS
  Writers,     \* processes that log
  MaxDay,      \* bound of the clock, in days
  MaxEntries,  \* bound on the entries logged
  MaxFaults    \* bound on the failures of disk and power

ASSUME AuditAssumption ==
  MaxDay \in Nat \ {0} /\ MaxEntries \in Nat /\ MaxFaults \in Nat

VARIABLES
  today,     \* datetime.now(UTC), as a day
  files,     \* the file of each day, as the sequence of its pieces
  synced,    \* how many of them the system has written back
  doing,     \* what each writer is in the middle of
  made,      \* entries made so far
  faults,    \* failures of disk and power so far
  torn,      \* history: pieces of each file that were cut
  logged,    \* history: what log() returned from, unless lost
  verifier   \* a call of verify_integrity

auditVars == <<today, files, synced, doing, made, faults, torn, logged,
               verifier>>

Days == 1 .. MaxDay

\* An append leaves a line, an entry without its newline ("bare"), or less,
\* which is no JSON ("head").
Piece == [entry: 1 .. MaxEntries, part: {"line", "bare", "head"}]

Idle == [step |-> "idle", entry |-> 0, stamp |-> 0, file |-> 0]

NotVerifying == [file |-> 1, read |-> 0, expected |-> {}, result |-> "none"]

Init ==
  /\ today = 1
  /\ files = [d \in Days |-> <<>>]
  /\ synced = [d \in Days |-> 0]
  /\ doing = [w \in Writers |-> Idle]
  /\ made = 0
  /\ faults = 0
  /\ torn = [d \in Days |-> 0]
  /\ logged = {}
  /\ verifier = NotVerifying

-----------------------------------------------------------------------------
(* log *)

\* The entry, with its timestamp.
MakeEntry(w) ==
  /\ doing[w].step = "idle"
  /\ made < MaxEntries
  /\ made' = made + 1
  /\ doing' = [doing EXCEPT ![w] = [step |-> "made", entry |-> made + 1,
                                    stamp |-> today, file |-> 0]]
  /\ UNCHANGED <<today, files, synced, faults, torn, logged, verifier>>

\* The name of the file is the local day, which may lag behind.
OpenFileLocal(w) ==
  /\ doing[w].step = "made"
  /\ \E day \in {today - 1, today} \cap Days :
       doing' = [doing EXCEPT ![w].step = "open", ![w].file = day]
  /\ UNCHANGED <<today, files, synced, made, faults, torn, logged, verifier>>

\* The name of the file is another reading of the clock.
OpenFile(w) ==
  /\ doing[w].step = "made"
  /\ doing' = [doing EXCEPT ![w].step = "open", ![w].file = today]
  /\ UNCHANGED <<today, files, synced, made, faults, torn, logged, verifier>>

Appended(w, part) ==
  /\ doing[w].step = "open"
  /\ files' = [files EXCEPT ![doing[w].file] =
                 Append(@, [entry |-> doing[w].entry, part |-> part])]
  /\ doing' = [doing EXCEPT ![w] = Idle]

\* What log() returns from.
Record(w) == [entry |-> doing[w].entry, stamp |-> doing[w].stamp,
              file |-> doing[w].file, returned |-> today]

\* The newline is forgotten.
WriteNoNewline(w) ==
  /\ Appended(w, "bare")
  /\ logged' = logged \cup {Record(w)}
  /\ UNCHANGED <<today, synced, made, faults, torn, verifier>>

\* f.write and close; log() returns.
Write(w) ==
  /\ Appended(w, "line")
  /\ logged' = logged \cup {Record(w)}
  /\ UNCHANGED <<today, synced, made, faults, torn, verifier>>

\* The disk is full in the middle of the write: log() raises, and the next
\* append goes on where this one stopped.
WriteFails(w) ==
  /\ faults < MaxFaults
  /\ faults' = faults + 1
  /\ torn' = [torn EXCEPT ![doing[w].file] = @ + 1]
  /\ \E part \in {"bare", "head"} : Appended(w, part)
  /\ UNCHANGED <<today, synced, made, logged, verifier>>

\* log() raises before anything is written, or the process is killed.
GiveUp(w) ==
  /\ doing[w].step # "idle"
  /\ doing' = [doing EXCEPT ![w] = Idle]
  /\ UNCHANGED <<today, files, synced, made, faults, torn, logged, verifier>>

-----------------------------------------------------------------------------
(* verify_integrity *)

Entries(file) == {file[i].entry : i \in DOMAIN file}

\* The file is opened.  What is expected of a later answer True is that it
\* has read everything logged by now.
Open(d) ==
  /\ verifier.result # "reading"
  /\ verifier' = [file |-> d, read |-> 0, result |-> "reading",
                  expected |-> {x \in logged : x.file = d}]
  /\ UNCHANGED <<today, files, synced, doing, made, faults, torn, logged>>

\* The line that starts at piece i is one entry: it ends with its newline,
\* or where the file ends.
Parses(file, i) ==
  \/ file[i].part = "line"
  \/ file[i].part = "bare" /\ i = Len(file)

\* Lines that cannot be parsed are skipped.
ReadLineOrSkip ==
  LET file == files[verifier.file]
      next == verifier.read + 1
  IN  /\ verifier.result = "reading"
      /\ verifier' = IF next \in DOMAIN file
                     THEN [verifier EXCEPT !.read = next]
                     ELSE [verifier EXCEPT !.result = "true"]
      /\ UNCHANGED <<today, files, synced, doing, made, faults, torn, logged>>

\* The end of the file counts as a line.
ReadLineAndEnd ==
  LET file == files[verifier.file]
      next == verifier.read + 1
  IN  /\ verifier.result = "reading"
      /\ verifier' = IF next \notin DOMAIN file
                     THEN [verifier EXCEPT !.result = "true", !.read = next]
                     ELSE IF Parses(file, next)
                     THEN [verifier EXCEPT !.read = next]
                     ELSE [verifier EXCEPT !.result = "raised"]
      /\ UNCHANGED <<today, files, synced, doing, made, faults, torn, logged>>

\* The next line, which json.loads accepts or not; at the end, True.
ReadLine ==
  LET file == files[verifier.file]
      next == verifier.read + 1
  IN  /\ verifier.result = "reading"
      /\ verifier' = IF next \notin DOMAIN file
                     THEN [verifier EXCEPT !.result = "true"]
                     ELSE IF Parses(file, next)
                     THEN [verifier EXCEPT !.read = next]
                     ELSE [verifier EXCEPT !.result = "raised"]
      /\ UNCHANGED <<today, files, synced, doing, made, faults, torn, logged>>

-----------------------------------------------------------------------------
(* The system below *)

NextDay ==
  /\ today < MaxDay
  /\ today' = today + 1
  /\ UNCHANGED <<files, synced, doing, made, faults, torn, logged, verifier>>

WriteBack(d) ==
  /\ synced[d] < Len(files[d])
  /\ synced' = [synced EXCEPT ![d] = Len(files[d])]
  /\ UNCHANGED <<today, files, doing, made, faults, torn, logged, verifier>>

\* The first k pieces, and a part of the next.
CutAfter(file, k, part) ==
  Append(SubSeq(file, 1, k), [file[k + 1] EXCEPT !.part = part])

\* What the disk may hold of a file of which the first n pieces were synced.
Remains(file, n) ==
  {SubSeq(file, 1, k) : k \in n .. Len(file)} \cup
  {CutAfter(file, k, part) :
     k \in {j \in n .. Len(file) - 1 : file[j + 1].part = "line"},
     part \in {"bare", "head"}}

Cut(file) == {i \in DOMAIN file : file[i].part # "line"}

\* The power fails: of every file that part remains which the disk happened to
\* hold, and nobody is doing anything any more.
PowerFails ==
  /\ faults < MaxFaults
  /\ faults' = faults + 1
  /\ \E rest \in [Days -> UNION {Remains(files[d], synced[d]) : d \in Days}] :
       /\ \A d \in Days : rest[d] \in Remains(files[d], synced[d])
       /\ files' = rest
       /\ synced' = [d \in Days |-> Len(rest[d])]
       /\ torn' = [d \in Days |->
                     torn[d] + Cardinality(Cut(rest[d]) \ Cut(files[d]))]
       /\ logged' = {x \in logged : x.entry \in Entries(rest[x.file])}
  /\ doing' = [w \in Writers |-> Idle]
  /\ verifier' = NotVerifying
  /\ UNCHANGED <<today, made>>

Next ==
  \/ \E w \in Writers : \/ MakeEntry(w) \/ OpenFile(w) \/ Write(w)
                        \/ WriteFails(w) \/ GiveUp(w)
  \/ \E d \in Days : Open(d) \/ WriteBack(d)
  \/ ReadLine \/ NextDay \/ PowerFails

Spec == Init /\ [][Next]_auditVars

-----------------------------------------------------------------------------
(* Properties *)

\* Types; nothing beyond the end of a file is synced or read.
TypeOK ==
  /\ today \in Days
  /\ files \in [Days -> Seq(Piece)]
  /\ synced \in [Days -> Nat]
  /\ \A d \in Days : synced[d] <= Len(files[d])
  /\ doing \in [Writers -> [step: {"idle", "made", "open"}, entry: 0 .. made,
                            stamp: 0 .. today, file: 0 .. today]]
  /\ made \in 0 .. MaxEntries
  /\ faults \in 0 .. MaxFaults
  /\ torn \in [Days -> Nat]
  /\ logged \subseteq [entry: 1 .. made, stamp: Days, file: Days, returned: Days]
  /\ verifier.result # "none" => verifier.read <= Len(files[verifier.file])

\* An entry a reader who starts at the beginning of the file can parse.
Readable(x) ==
  \E i \in DOMAIN files[x.file] :
    /\ files[x.file][i].entry = x.entry
    /\ i > 1 => files[x.file][i - 1].part = "line"
    /\ Parses(files[x.file], i)

\* A cut costs the entry that was cut and the one appended to its line, and
\* no more: whoever writes in whatever order, no other entry of that file that
\* log() returned from becomes unreadable, and none of another file.
DamageIsLocal ==
  \A d \in Days :
    Cardinality({x \in logged : x.file = d /\ ~Readable(x)}) <= 2 * torn[d]

\* When verify_integrity answers True, it has read everything logged to the
\* file before it was called, each entry whole and on a line it began, though
\* others append meanwhile.  (An entry without its newline is accepted at the
\* end of a file; the next append makes it unreadable after all.)
TrueMeansRead ==
  verifier.result = "true" =>
    \A x \in verifier.expected : \E i \in 1 .. verifier.read :
      LET file == files[verifier.file]
      IN  /\ file[i].entry = x.entry
          /\ file[i].part # "head"
          /\ i > 1 => file[i - 1].part = "line"

\* verify_integrity raises only over a file in which a write was cut: however
\* many processes append while it reads, and wherever it finds the end of the
\* file, concurrency alone raises no alarm.
NoFalseAlarm == verifier.result = "raised" => torn[verifier.file] > 0

\* An entry is in the file of the day it was made, or, if midnight came in
\* the middle of log(), in that of a day up to the one log() returned.
FiledByDay ==
  \A x \in logged : x.stamp <= x.file /\ x.file <= x.returned

=============================================================================
