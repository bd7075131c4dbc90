---------------------------- MODULE AuditProofs ----------------------------
(***************************************************************************)
(* Proofs, for any number of writers, days, entries and failures, of the   *)
(* safety of AuditLog.                                                     *)
(***************************************************************************)
EXTENDS AuditLog, FiniteSetTheorems, TLAPS

Verifying == {"none", "reading", "true", "raised"}

\* What a verification expects was logged, and the file has what it has read.
VerifierTyped ==
  /\ verifier \in [file: Days, read: Nat, expected: SUBSET logged,
                   result: Verifying]
  /\ verifier.read <= Len(files[verifier.file])

\* An entry in the making has a number and a stamp, and once its file is open,
\* that is of no earlier day.
Busy(w) == doing[w].step # "idle"

WritersTimely ==
  \A w \in Writers :
    /\ Busy(w) => doing[w].entry >= 1 /\ doing[w].stamp >= 1
    /\ doing[w].step = "open" => doing[w].stamp <= doing[w].file

\* No two records, no two writers and no record and a writer have an entry in
\* common.
EntriesApart ==
  /\ \A x, y \in logged : x.entry = y.entry => x = y
  /\ \A v, w \in Writers :
       Busy(v) /\ Busy(w) /\ doing[v].entry = doing[w].entry => v = w
  /\ \A x \in logged, w \in Writers : Busy(w) => doing[w].entry # x.entry

\* What log() returned from is in its file, whole or cut.
LoggedPresent ==
  \A x \in logged : \E i \in DOMAIN files[x.file] :
    files[x.file][i].entry = x.entry

\* An entry that is expected lies behind the reader, whole and on a line of
\* its own, or before it, and then the reader is at the beginning of a line.
ExpectedAt(x, i) ==
  LET file == files[verifier.file]
  IN  /\ file[i].entry = x.entry
      /\ i <= verifier.read => /\ file[i].part # "head"
                               /\ i > 1 => file[i - 1].part = "line"
      /\ i > verifier.read /\ verifier.read >= 1 =>
           file[verifier.read].part = "line"

ReaderOnLine ==
  verifier.result = "reading" =>
    \A x \in verifier.expected : \E i \in DOMAIN files[verifier.file] :
      ExpectedAt(x, i)

\* What a verification raised over is in its file.
AlarmFounded == verifier.result = "raised" => Cut(files[verifier.file]) # {}

CutsCounted == \A d \in Days : Cardinality(Cut(files[d])) <= torn[d]

AuditInv ==
  /\ TypeOK
  /\ VerifierTyped
  /\ WritersTimely
  /\ EntriesApart
  /\ LoggedPresent
  /\ FiledByDay
  /\ ReaderOnLine
  /\ TrueMeansRead
  /\ AlarmFounded
  /\ CutsCounted

-----------------------------------------------------------------------------
(* Lemmas on files *)

\* Appending a piece leaves the others where they are.
LEMMA AppendedFile ==
  ASSUME NEW file \in Seq(Piece), NEW piece \in Piece
  PROVE  LET longer == Append(file, piece)
         IN  /\ longer \in Seq(Piece)
             /\ Len(longer) = Len(file) + 1
             /\ DOMAIN file \subseteq DOMAIN longer
             /\ \A i \in DOMAIN file : longer[i] = file[i]
             /\ longer[Len(file) + 1] = piece
OBVIOUS

\* The cuts of a longer file are those of the file, and the piece if it is cut.
LEMMA AppendedCut ==
  ASSUME NEW file \in Seq(Piece), NEW piece \in Piece
  PROVE  Cut(Append(file, piece)) =
           IF piece.part = "line" THEN Cut(file)
                                  ELSE Cut(file) \cup {Len(file) + 1}
BY DEF Cut

\* What remains of a file is a beginning of it, of which the last piece may
\* have been cut.
LEMMA RemainsPrefix ==
  ASSUME NEW file \in Seq(Piece), NEW n \in Nat, n <= Len(file),
         NEW rest \in Remains(file, n)
  PROVE  /\ rest \in Seq(Piece)
         /\ Len(rest) <= Len(file)
         /\ \A i \in DOMAIN rest : rest[i].entry = file[i].entry
<1>1. ASSUME NEW k \in n .. Len(file), rest = SubSeq(file, 1, k)
      PROVE  /\ rest \in Seq(Piece)
             /\ Len(rest) <= Len(file)
             /\ \A i \in DOMAIN rest : rest[i].entry = file[i].entry
  BY <1>1
<1>2. ASSUME NEW k \in n .. Len(file) - 1, NEW part \in {"bare", "head"},
             rest = CutAfter(file, k, part)
      PROVE  /\ rest \in Seq(Piece)
             /\ Len(rest) <= Len(file)
             /\ \A i \in DOMAIN rest : rest[i].entry = file[i].entry
  <2> DEFINE front == SubSeq(file, 1, k)
             last  == [file[k + 1] EXCEPT !.part = part]
  <2>1. /\ front \in Seq(Piece)
        /\ Len(front) = k
        /\ \A i \in 1 .. k : front[i] = file[i]
    OBVIOUS
  <2>2. file[k + 1] \in Piece
    OBVIOUS
  <2>3. last \in Piece /\ last.entry = file[k + 1].entry
    BY <2>2 DEF Piece
  <2>4. rest = Append(front, last)
    BY <1>2 DEF CutAfter
  <2> HIDE DEF front, last
  <2>5. /\ Append(front, last) \in Seq(Piece)
        /\ Len(Append(front, last)) = k + 1
        /\ \A i \in 1 .. k : Append(front, last)[i] = front[i]
        /\ Append(front, last)[k + 1] = last
    BY <2>1, <2>3
  <2> QED
    BY <2>1, <2>3, <2>4, <2>5
<1> QED
  <2>1. \/ \E k \in n .. Len(file) : rest = SubSeq(file, 1, k)
        \/ \E k \in n .. Len(file) - 1, part \in {"bare", "head"} :
             rest = CutAfter(file, k, part)
    BY DEF Remains
  <2> QED
    BY <2>1, <1>1, <1>2

\* The cuts of a file are finitely many.
LEMMA CutsFinite ==
  ASSUME NEW file \in Seq(Piece)
  PROVE  /\ IsFiniteSet(Cut(file))
         /\ Cardinality(Cut(file)) \in Nat
         /\ Cut(file) \in SUBSET Nat
<1>1. Cut(file) \in SUBSET (1 .. Len(file)) /\ Len(file) \in Nat
  BY DEF Cut
<1>2. IsFiniteSet(1 .. Len(file))
  BY <1>1, FS_Interval
<1> QED
  BY <1>1, <1>2, FS_Subset, FS_CardinalityType

\* A count that grows with the cuts that are new covers the cuts of what
\* becomes of a file.
LEMMA CutsGrow ==
  ASSUME NEW file \in Seq(Piece), NEW rest \in Seq(Piece), NEW count \in Nat,
         Cardinality(Cut(file)) <= count
  PROVE  /\ Cardinality(Cut(rest) \ Cut(file)) \in Nat
         /\ Cardinality(Cut(rest)) <= count + Cardinality(Cut(rest) \ Cut(file))
<1> DEFINE N == Cut(rest) \ Cut(file)
<1>1. /\ IsFiniteSet(Cut(file)) /\ IsFiniteSet(Cut(rest))
      /\ Cardinality(Cut(file)) \in Nat /\ Cardinality(Cut(rest)) \in Nat
  BY CutsFinite
<1>2. IsFiniteSet(N) /\ Cardinality(N) \in Nat
  BY <1>1, FS_Difference, FS_CardinalityType
<1>3. /\ IsFiniteSet(Cut(file) \cup N)
      /\ Cardinality(Cut(file) \cup N) =
           Cardinality(Cut(file)) + Cardinality(N)
             - Cardinality(Cut(file) \cap N)
  BY <1>1, <1>2, FS_Union
<1>4. Cardinality(Cut(file) \cap N) = 0
  <2>1. Cut(file) \cap N = {}
    OBVIOUS
  <2> QED
    BY <2>1, FS_EmptySet
<1>5. Cardinality(Cut(rest)) <= Cardinality(Cut(file) \cup N)
  <2>1. Cut(rest) \in SUBSET (Cut(file) \cup N)
    OBVIOUS
  <2> QED
    BY <1>3, <2>1, FS_Subset
<1> HIDE DEF N
<1>6. Cardinality(Cut(file) \cup N) = Cardinality(Cut(file)) + Cardinality(N)
  BY <1>1, <1>2, <1>3, <1>4
<1> QED
  BY <1>1, <1>2, <1>5, <1>6 DEF N

-----------------------------------------------------------------------------
(* Steps *)

\* Nothing that ReaderOnLine and TrueMeansRead speak of changes when files
\* only grow behind their ends.
LEMMA ReaderUndisturbed ==
  ASSUME TypeOK, VerifierTyped, ReaderOnLine, TrueMeansRead,
         UNCHANGED verifier,
         \A d \in Days : /\ DOMAIN files[d] \subseteq DOMAIN files'[d]
                         /\ \A i \in DOMAIN files[d] : files'[d][i] = files[d][i]
  PROVE  ReaderOnLine' /\ TrueMeansRead'
<1> DEFINE d == verifier.file
<1>1. /\ d \in Days
      /\ verifier.read \in Nat
      /\ verifier.read <= Len(files[d])
      /\ files[d] \in Seq(Piece)
  BY DEF VerifierTyped, TypeOK
<1>2. 1 .. verifier.read \subseteq DOMAIN files[d]
  BY <1>1
<1>3. ReaderOnLine'
  <2> SUFFICES ASSUME verifier.result = "reading", NEW x \in verifier.expected
               PROVE  \E i \in DOMAIN files'[d] : ExpectedAt(x, i)'
    BY DEF ReaderOnLine
  <2>1. PICK i \in DOMAIN files[d] : ExpectedAt(x, i)
    BY DEF ReaderOnLine
  <2>2. i \in DOMAIN files'[d] /\ i \in Nat
    BY <1>1, <2>1
  <2>3. i > 1 => i - 1 \in DOMAIN files[d]
    BY <1>1, <2>1
  <2> QED
    BY <1>1, <1>2, <2>1, <2>2, <2>3 DEF ExpectedAt
<1>4. TrueMeansRead'
  <2> SUFFICES ASSUME verifier.result = "true", NEW x \in verifier.expected
               PROVE  \E i \in 1 .. verifier.read :
                        /\ files'[d][i].entry = x.entry
                        /\ files'[d][i].part # "head"
                        /\ i > 1 => files'[d][i - 1].part = "line"
    BY DEF TrueMeansRead
  <2>1. PICK i \in 1 .. verifier.read :
          /\ files[d][i].entry = x.entry
          /\ files[d][i].part # "head"
          /\ i > 1 => files[d][i - 1].part = "line"
    BY DEF TrueMeansRead
  <2>2. i \in DOMAIN files[d] /\ (i > 1 => i - 1 \in DOMAIN files[d])
    BY <1>1, <1>2, <2>1
  <2> QED
    BY <1>1, <2>1, <2>2
<1> QED
  BY <1>3, <1>4

\* The parts of AuditInv that only the files, the verifier and the history
\* decide.
FileInv ==
  /\ VerifierTyped
  /\ LoggedPresent
  /\ ReaderOnLine
  /\ TrueMeansRead
  /\ AlarmFounded
  /\ CutsCounted

\* A step that leaves files, verifier, history and the count of cuts alone.
LEMMA FilesUndisturbed ==
  ASSUME AuditInv, UNCHANGED <<files, torn, logged, verifier>>
  PROVE  FileInv'
<1>1. ReaderOnLine' /\ TrueMeansRead'
  BY ReaderUndisturbed DEF AuditInv
<1> QED
  BY <1>1 DEF AuditInv, FileInv, VerifierTyped, LoggedPresent, AlarmFounded,
              CutsCounted

\* Making an entry gives it a number of its own.
LEMMA MakeEntryStep ==
  ASSUME AuditInv, NEW w \in Writers, MakeEntry(w)
  PROVE  AuditInv'
<1>1. FileInv'
  BY FilesUndisturbed DEF MakeEntry
<1>2. /\ made' = made + 1 /\ made \in Nat /\ today \in Days
      /\ UNCHANGED <<today, files, synced, faults, torn, logged, verifier>>
      /\ doing'[w].step = "made" /\ doing'[w].entry = made + 1
      /\ doing'[w].stamp = today
      /\ \A v \in Writers \ {w} : doing'[v] = doing[v]
      /\ doing[w].step = "idle"
  BY DEF MakeEntry, AuditInv, TypeOK
<1>3. TypeOK'
  <2> DEFINE State(m) == [step: {"idle", "made", "open"}, entry: 0 .. m,
                          stamp: 0 .. today, file: 0 .. today]
  <2>1. doing \in [Writers -> State(made)]
    BY DEF AuditInv, TypeOK
  <2>2. doing' = [doing EXCEPT ![w] = [step |-> "made", entry |-> made + 1,
                                       stamp |-> today, file |-> 0]]
    BY <2>1 DEF MakeEntry
  <2>3. doing' \in [Writers -> State(made + 1)]
    BY <1>2, <2>1, <2>2 DEF Days
  <2>4. made + 1 \in 0 .. MaxEntries
    BY <1>2, AuditAssumption DEF MakeEntry, AuditInv, TypeOK
  <2> QED
    BY <1>2, <2>3, <2>4 DEF AuditInv, TypeOK
<1>4. WritersTimely'
  BY <1>2 DEF AuditInv, WritersTimely, Busy, Days
<1>5. EntriesApart'
  <2>1. \A v \in Writers : doing[v].entry <= made
    BY <1>2 DEF AuditInv, TypeOK
  <2>2. \A x \in logged : x.entry <= made
    BY <1>2 DEF AuditInv, TypeOK
  <2> QED
    BY <1>2, <2>1, <2>2 DEF AuditInv, EntriesApart, Busy
<1>6. FiledByDay'
  BY <1>2 DEF AuditInv, FiledByDay
<1> QED
  BY <1>1, <1>3, <1>4, <1>5, <1>6 DEF AuditInv, FileInv

\* Opening the file gives it the name of a day not before the stamp.
LEMMA OpenFileStep ==
  ASSUME AuditInv, NEW w \in Writers, OpenFile(w)
  PROVE  AuditInv'
<1>1. FileInv'
  BY FilesUndisturbed DEF OpenFile
<1>2. /\ UNCHANGED <<today, files, synced, made, faults, torn, logged, verifier>>
      /\ doing'[w].step = "open" /\ doing'[w].entry = doing[w].entry
      /\ doing'[w].stamp = doing[w].stamp /\ doing'[w].file = today
      /\ \A v \in Writers \ {w} : doing'[v] = doing[v]
      /\ doing[w].step = "made" /\ doing[w].stamp <= today
  BY DEF OpenFile, AuditInv, TypeOK, Days
<1>3. TypeOK'
  <2> DEFINE State == [step: {"idle", "made", "open"}, entry: 0 .. made,
                       stamp: 0 .. today, file: 0 .. today]
  <2>1. doing \in [Writers -> State]
    BY DEF AuditInv, TypeOK
  <2>2. [doing[w] EXCEPT !.step = "open", !.file = today] \in State
    <3>1. doing[w] \in State /\ today \in 0 .. today
      BY <2>1 DEF AuditInv, TypeOK, Days
    <3> QED
      BY <3>1
  <2>3. doing' \in [Writers -> State]
    BY <2>1, <2>2 DEF OpenFile
  <2> QED
    BY <1>2, <2>3 DEF AuditInv, TypeOK
<1>4. WritersTimely'
  BY <1>2 DEF AuditInv, WritersTimely, Busy
<1>5. EntriesApart'
  BY <1>2 DEF AuditInv, EntriesApart, Busy
<1>6. FiledByDay'
  BY <1>2 DEF AuditInv, FiledByDay
<1> QED
  BY <1>1, <1>3, <1>4, <1>5, <1>6 DEF AuditInv, FileInv

\* A writer that gives up leaves no trace.
LEMMA GiveUpStep ==
  ASSUME AuditInv, NEW w \in Writers, GiveUp(w)
  PROVE  AuditInv'
<1>1. FileInv'
  BY FilesUndisturbed DEF GiveUp
<1>2. /\ UNCHANGED <<today, files, synced, made, faults, torn, logged, verifier>>
      /\ doing'[w].step = "idle"
      /\ \A v \in Writers \ {w} : doing'[v] = doing[v]
  BY DEF GiveUp, Idle, AuditInv, TypeOK
<1>3. TypeOK'
  <2> DEFINE State == [step: {"idle", "made", "open"}, entry: 0 .. made,
                       stamp: 0 .. today, file: 0 .. today]
  <2>1. doing \in [Writers -> State]
    BY DEF AuditInv, TypeOK
  <2>2. Idle \in State
    BY DEF Idle, AuditInv, TypeOK, Days
  <2>3. doing' \in [Writers -> State]
    BY <2>1, <2>2 DEF GiveUp
  <2> QED
    BY <1>2, <2>3 DEF AuditInv, TypeOK
<1>4. WritersTimely'
  BY <1>2 DEF AuditInv, WritersTimely, Busy
<1>5. EntriesApart'
  BY <1>2 DEF AuditInv, EntriesApart, Busy
<1>6. FiledByDay'
  BY <1>2 DEF AuditInv, FiledByDay
<1> QED
  BY <1>1, <1>3, <1>4, <1>5, <1>6 DEF AuditInv, FileInv

\* Midnight, and a file written back.
LEMMA SystemStep ==
  ASSUME AuditInv, NextDay \/ \E d \in Days : WriteBack(d)
  PROVE  AuditInv'
<1>1. FileInv'
  BY FilesUndisturbed DEF NextDay, WriteBack
<1>2. UNCHANGED <<files, doing, made, faults, torn, logged, verifier>>
  BY DEF NextDay, WriteBack
<1>3. TypeOK'
  <2>1. CASE NextDay
    <3>1. today' \in Days /\ today \in Nat /\ today' = today + 1
      BY <2>1, AuditAssumption DEF AuditInv, TypeOK, NextDay, Days
    <3>2. doing' \in [Writers -> [step: {"idle", "made", "open"},
                                 entry: 0 .. made, stamp: 0 .. today',
                                 file: 0 .. today']]
      BY <2>1, <3>1 DEF AuditInv, TypeOK, NextDay
    <3>3. UNCHANGED <<files, synced, made, faults, torn, logged, verifier>>
      BY <2>1 DEF NextDay
    <3> QED
      BY <3>1, <3>2, <3>3 DEF AuditInv, TypeOK
  <2>2. CASE \E d \in Days : WriteBack(d)
    BY <2>2 DEF AuditInv, TypeOK, WriteBack
  <2> QED
    BY <2>1, <2>2
<1>4. WritersTimely' /\ EntriesApart' /\ FiledByDay'
  BY <1>2 DEF AuditInv, WritersTimely, EntriesApart, FiledByDay, Busy
<1> QED
  BY <1>1, <1>3, <1>4 DEF AuditInv, FileInv

\* A whole entry or a part of one is appended, and log() returns or not.
LEMMA AppendStep ==
  ASSUME AuditInv, NEW w \in Writers, NEW part \in {"line", "bare", "head"},
         Appended(w, part),
         logged' = logged \/ logged' = logged \cup {Record(w)},
         torn' = IF part = "line" THEN torn
                 ELSE [torn EXCEPT ![doing[w].file] = @ + 1],
         faults' \in 0 .. MaxFaults,
         UNCHANGED <<today, synced, made, verifier>>
  PROVE  AuditInv'
<1> DEFINE d == doing[w].file
           piece == [entry |-> doing[w].entry, part |-> part]
<1>1. /\ doing[w].step = "open"
      /\ d \in Days /\ d <= today /\ today \in Days
      /\ doing[w].stamp \in Days /\ doing[w].stamp <= d
      /\ doing[w].entry \in 1 .. made /\ made \in 0 .. MaxEntries
  <2>1. doing[w] \in [step: {"idle", "made", "open"}, entry: 0 .. made,
                      stamp: 0 .. today, file: 0 .. today]
    BY DEF AuditInv, TypeOK
  <2>2. doing[w].step = "open" /\ today \in Days /\ made \in 0 .. MaxEntries
    BY DEF Appended, AuditInv, TypeOK
  <2>3. doing[w].entry >= 1 /\ doing[w].stamp >= 1
        /\ doing[w].stamp <= doing[w].file
    BY <2>2 DEF AuditInv, WritersTimely, Busy
  <2> QED
    BY <2>1, <2>2, <2>3, AuditAssumption DEF Days
<1>2. piece \in Piece /\ files \in [Days -> Seq(Piece)]
  <2>1. doing[w].entry \in 1 .. MaxEntries
    BY <1>1, AuditAssumption
  <2> QED
    BY <2>1 DEF Piece, AuditInv, TypeOK
<1> HIDE DEF piece
<1>3. /\ files'[d] = Append(files[d], piece)
      /\ \A e \in Days \ {d} : files'[e] = files[e]
      /\ files' = [files EXCEPT ![d] = Append(files[d], piece)]
  BY <1>1, <1>2 DEF Appended, piece
<1>4. /\ files'[d] \in Seq(Piece)
      /\ Len(files'[d]) = Len(files[d]) + 1
      /\ DOMAIN files[d] \subseteq DOMAIN files'[d]
      /\ \A i \in DOMAIN files[d] : files'[d][i] = files[d][i]
      /\ files'[d][Len(files[d]) + 1] = piece
      /\ Len(files[d]) \in Nat
  BY <1>1, <1>2, <1>3, AppendedFile
<1>5. \A e \in Days : /\ Len(files'[e]) >= Len(files[e])
                      /\ DOMAIN files[e] \subseteq DOMAIN files'[e]
                      /\ \A i \in DOMAIN files[e] : files'[e][i] = files[e][i]
  BY <1>1, <1>2, <1>3, <1>4
<1>6. /\ doing'[w].step = "idle"
      /\ \A v \in Writers \ {w} : doing'[v] = doing[v]
  BY DEF Appended, Idle, AuditInv, TypeOK
<1>7. Record(w) \in [entry: 1 .. made, stamp: Days, file: Days, returned: Days]
  BY <1>1 DEF Record
<1>8. TypeOK'
  <2>1. files' \in [Days -> Seq(Piece)]
    BY <1>1, <1>2, <1>3, <1>4
  <2>2. \A e \in Days : synced[e] <= Len(files'[e])
    BY <1>2, <1>4, <1>5, <2>1 DEF AuditInv, TypeOK
  <2>3. doing' \in [Writers -> [step: {"idle", "made", "open"}, entry: 0 .. made,
                                stamp: 0 .. today, file: 0 .. today]]
    BY <1>1 DEF Appended, Idle, AuditInv, TypeOK, Days
  <2>4. verifier'.result # "none" => verifier'.read <= Len(files'[verifier'.file])
    BY <1>2, <1>5, <2>1 DEF AuditInv, VerifierTyped
  <2>5. torn' \in [Days -> Nat]
    BY <1>1 DEF AuditInv, TypeOK
  <2> QED
    BY <1>7, <2>1, <2>2, <2>3, <2>4, <2>5 DEF AuditInv, TypeOK
<1>9. VerifierTyped'
  BY <1>2, <1>4, <1>5, <1>3 DEF AuditInv, VerifierTyped
<1>10. WritersTimely'
  BY <1>6 DEF AuditInv, WritersTimely, Busy
<1>11. EntriesApart'
  <2>1. Busy(w) /\ Record(w).entry = doing[w].entry
    BY <1>1 DEF Busy, Record
  <2> QED
    BY <1>6, <2>1 DEF AuditInv, EntriesApart, Busy
<1>12. LoggedPresent'
  <2> SUFFICES ASSUME NEW x \in logged'
               PROVE  \E i \in DOMAIN files'[x.file] :
                        files'[x.file][i].entry = x.entry
    BY DEF LoggedPresent
  <2>1. CASE x \in logged
    <3>1. x.file \in Days
      BY <2>1 DEF AuditInv, TypeOK
    <3>2. PICK i \in DOMAIN files[x.file] : files[x.file][i].entry = x.entry
      BY <2>1 DEF AuditInv, LoggedPresent
    <3> QED
      BY <1>5, <3>1, <3>2
  <2>2. CASE x = Record(w)
    <3>1. x.file = d /\ x.entry = piece.entry
      BY <2>2 DEF Record, piece
    <3>2. Len(files[d]) + 1 \in DOMAIN files'[d]
      BY <1>4
    <3> QED
      BY <1>4, <3>1, <3>2
  <2> QED
    BY <2>1, <2>2
<1>13. FiledByDay'
  BY <1>1 DEF AuditInv, FiledByDay, Record
<1>14. ReaderOnLine' /\ TrueMeansRead'
  BY <1>5, ReaderUndisturbed DEF AuditInv
<1>15. CutsCounted'
  <2> SUFFICES ASSUME NEW e \in Days
               PROVE  Cardinality(Cut(files'[e])) <= torn'[e]
    BY DEF CutsCounted
  <2>1. /\ Cardinality(Cut(files[e])) <= torn[e]
        /\ torn \in [Days -> Nat] /\ torn[e] \in Nat
    BY DEF AuditInv, CutsCounted, TypeOK
  <2>2. CASE e # d
    <3>1. torn'[e] = torn[e]
      BY <2>1, <2>2
    <3> QED
      BY <1>3, <2>1, <2>2, <3>1
  <2>3. CASE e = d /\ part = "line"
    <3>1. Cut(files'[d]) = Cut(files[d])
      BY <1>1, <1>2, <1>3, <2>3, AppendedCut DEF piece
    <3> QED
      BY <2>1, <2>3, <3>1
  <2>4. CASE e = d /\ part # "line"
    <3>1. Cut(files'[d]) = Cut(files[d]) \cup {Len(files[d]) + 1}
      BY <1>1, <1>2, <1>3, <2>4, AppendedCut DEF piece
    <3>2. /\ IsFiniteSet(Cut(files[d]))
          /\ Cardinality(Cut(files[d])) \in Nat
          /\ Len(files[d]) + 1 \notin Cut(files[d])
      <4>1. files[d] \in Seq(Piece)
        BY <1>1, <1>2
      <4>2. Len(files[d]) + 1 \notin Cut(files[d])
        BY <4>1 DEF Cut
      <4> QED
        BY <4>1, <4>2, CutsFinite
    <3>3. Cardinality(Cut(files'[d])) = Cardinality(Cut(files[d])) + 1
      BY <3>1, <3>2, FS_AddElement
    <3>4. torn'[d] = torn[d] + 1
      BY <1>1, <2>1, <2>4
    <3> QED
      BY <2>1, <2>4, <3>2, <3>3, <3>4
  <2> QED
    BY <2>2, <2>3, <2>4
<1>16. AlarmFounded'
  <2> SUFFICES ASSUME verifier.result = "raised"
               PROVE  Cut(files'[verifier.file]) # {}
    BY DEF AlarmFounded
  <2>1. verifier.file \in Days
    BY DEF AuditInv, VerifierTyped
  <2>2. PICK i \in DOMAIN files[verifier.file] :
          files[verifier.file][i].part # "line"
    BY DEF AuditInv, AlarmFounded, Cut
  <2> QED
    BY <1>5, <2>1, <2>2 DEF Cut
<1> QED
  BY <1>8, <1>9, <1>10, <1>11, <1>12, <1>13, <1>14, <1>15, <1>16 DEF AuditInv

\* A verification begins: what it expects was logged, so it is in the file,
\* all of it before the reader.
LEMMA OpenStep ==
  ASSUME AuditInv, NEW d \in Days, Open(d)
  PROVE  AuditInv'
<1>1. /\ UNCHANGED <<today, files, synced, doing, made, faults, torn, logged>>
      /\ verifier' = [file |-> d, read |-> 0, result |-> "reading",
                      expected |-> {x \in logged : x.file = d}]
      /\ files[d] \in Seq(Piece)
  BY DEF Open, AuditInv, TypeOK
<1>2. VerifierTyped' /\ TypeOK'
  <2>1. verifier'.file = d /\ verifier'.read = 0 /\ 0 <= Len(files'[d])
    BY <1>1
  <2>2. VerifierTyped'
    BY <1>1, <2>1 DEF VerifierTyped, Verifying
  <2> QED
    BY <1>1, <2>1, <2>2 DEF AuditInv, TypeOK
<1>3. ReaderOnLine'
  <2> SUFFICES ASSUME NEW x \in logged, x.file = d
               PROVE  \E i \in DOMAIN files[d] : ExpectedAt(x, i)'
    BY <1>1 DEF ReaderOnLine
  <2>1. PICK i \in DOMAIN files[d] : files[d][i].entry = x.entry
    BY DEF AuditInv, LoggedPresent
  <2> QED
    BY <1>1, <2>1 DEF ExpectedAt
<1>4. TrueMeansRead' /\ AlarmFounded'
  BY <1>1 DEF TrueMeansRead, AlarmFounded
<1>5. /\ WritersTimely' /\ EntriesApart' /\ LoggedPresent' /\ FiledByDay'
      /\ CutsCounted'
  BY <1>1 DEF AuditInv, WritersTimely, EntriesApart, LoggedPresent, FiledByDay,
              CutsCounted, Busy
<1> QED
  BY <1>2, <1>3, <1>4, <1>5 DEF AuditInv

\* The reader goes on by a line, stops at one it cannot parse, or has reached
\* the end, and then every entry it expected lies behind it.
LEMMA ReadLineStep ==
  ASSUME AuditInv, ReadLine
  PROVE  AuditInv'
<1> DEFINE d == verifier.file
           file == files[d]
           next == verifier.read + 1
<1>1. /\ UNCHANGED <<today, files, synced, doing, made, faults, torn, logged>>
      /\ verifier.result = "reading"
      /\ d \in Days /\ verifier.read \in Nat /\ verifier.read <= Len(file)
      /\ file \in Seq(Piece)
      /\ verifier.expected \subseteq logged
      /\ verifier \in [file: Days, read: Nat, expected: SUBSET logged,
                       result: Verifying]
  BY DEF ReadLine, AuditInv, TypeOK, VerifierTyped
<1>2. \/ next \notin DOMAIN file /\ verifier' = [verifier EXCEPT !.result = "true"]
      \/ /\ next \in DOMAIN file /\ Parses(file, next)
         /\ verifier' = [verifier EXCEPT !.read = next]
      \/ /\ next \in DOMAIN file /\ ~Parses(file, next)
         /\ verifier' = [verifier EXCEPT !.result = "raised"]
  BY DEF ReadLine
<1>3. VerifierTyped'
  BY <1>1, <1>2 DEF VerifierTyped, Verifying
<1>4. TypeOK'
  BY <1>1, <1>3 DEF AuditInv, TypeOK, VerifierTyped
<1>5. ReaderOnLine'
  <2> SUFFICES ASSUME verifier'.result = "reading", NEW x \in verifier'.expected
               PROVE  \E i \in DOMAIN files'[verifier'.file] : ExpectedAt(x, i)'
    BY DEF ReaderOnLine
  <2>1. /\ next \in DOMAIN file /\ Parses(file, next)
        /\ verifier' = [verifier EXCEPT !.read = next]
    BY <1>1, <1>2
  <2>2. PICK i \in DOMAIN file : ExpectedAt(x, i)
    BY <1>1, <2>1 DEF AuditInv, ReaderOnLine
  <2>3. verifier'.file = d /\ verifier'.read = next /\ files' = files
    BY <1>1, <2>1
  <2>4. i \in 1 .. Len(file)
    BY <1>1, <2>2
  <2>5. CASE i = next
    <3>1. file[i].part # "head"
      BY <2>1, <2>5 DEF Parses
    <3>2. i > 1 => file[i - 1].part = "line"
      BY <1>1, <2>2, <2>5 DEF ExpectedAt
    <3> QED
      BY <1>1, <2>2, <2>3, <2>4, <2>5, <3>1, <3>2 DEF ExpectedAt
  <2>6. CASE i < next
    BY <1>1, <2>2, <2>3, <2>4, <2>6 DEF ExpectedAt
  <2>7. CASE i > next
    <3>1. file[next].part = "line"
      BY <1>1, <2>1, <2>4, <2>7 DEF Parses
    <3> QED
      BY <1>1, <2>2, <2>3, <2>4, <2>7, <3>1 DEF ExpectedAt
  <2> QED
    BY <1>1, <2>4, <2>5, <2>6, <2>7
<1>6. TrueMeansRead'
  <2> SUFFICES ASSUME verifier'.result = "true", NEW x \in verifier'.expected
               PROVE  \E i \in 1 .. verifier'.read :
                        /\ files'[verifier'.file][i].entry = x.entry
                        /\ files'[verifier'.file][i].part # "head"
                        /\ i > 1 => files'[verifier'.file][i - 1].part = "line"
    BY DEF TrueMeansRead
  <2>1. next \notin DOMAIN file /\ verifier' = [verifier EXCEPT !.result = "true"]
    BY <1>1, <1>2
  <2>2. PICK i \in DOMAIN file : ExpectedAt(x, i)
    BY <1>1, <2>1 DEF AuditInv, ReaderOnLine
  <2>3. i \in 1 .. verifier.read
    BY <1>1, <2>1, <2>2
  <2> QED
    BY <1>1, <2>1, <2>2, <2>3 DEF ExpectedAt
<1>7. /\ WritersTimely' /\ EntriesApart' /\ LoggedPresent' /\ FiledByDay'
      /\ CutsCounted'
  BY <1>1 DEF AuditInv, WritersTimely, EntriesApart, LoggedPresent, FiledByDay,
              CutsCounted, Busy
<1>8. AlarmFounded'
  <2> SUFFICES ASSUME verifier'.result = "raised" PROVE Cut(file) # {}
    BY <1>1, <1>2 DEF AlarmFounded
  <2>1. next \in DOMAIN file /\ ~Parses(file, next)
    BY <1>1, <1>2
  <2> QED
    BY <2>1 DEF Parses, Cut
<1> QED
  BY <1>3, <1>4, <1>5, <1>6, <1>7, <1>8 DEF AuditInv

\* After a power failure nobody writes or verifies, and what is still counted
\* as logged is still there.
LEMMA PowerStep ==
  ASSUME AuditInv, PowerFails
  PROVE  AuditInv'
<1>1. PICK rest \in [Days -> UNION {Remains(files[d], synced[d]) : d \in Days}] :
        /\ \A d \in Days : rest[d] \in Remains(files[d], synced[d])
        /\ files' = rest
        /\ synced' = [d \in Days |-> Len(rest[d])]
        /\ torn' = [d \in Days |->
                      torn[d] + Cardinality(Cut(rest[d]) \ Cut(files[d]))]
        /\ logged' = {x \in logged : x.entry \in Entries(rest[x.file])}
  BY DEF PowerFails
<1>2. \A d \in Days : rest[d] \in Seq(Piece) /\ files[d] \in Seq(Piece)
  BY <1>1, RemainsPrefix DEF AuditInv, TypeOK
<1>3. files' \in [Days -> Seq(Piece)]
  BY <1>1, <1>2
<1>4. /\ doing' = [w \in Writers |-> Idle]
      /\ verifier' = NotVerifying
      /\ faults' = faults + 1 /\ faults < MaxFaults
      /\ UNCHANGED <<today, made>>
  BY DEF PowerFails
<1>5. \A w \in Writers : doing'[w].step = "idle"
  BY <1>4 DEF Idle
<1>6. \A d \in Days :
        /\ torn[d] \in Nat
        /\ Cardinality(Cut(rest[d]) \ Cut(files[d])) \in Nat
        /\ Cardinality(Cut(rest[d])) <=
             torn[d] + Cardinality(Cut(rest[d]) \ Cut(files[d]))
  BY <1>2, CutsGrow DEF AuditInv, CutsCounted, TypeOK
<1>7. TypeOK'
  <2>1. doing' \in [Writers -> [step: {"idle", "made", "open"}, entry: 0 .. made,
                                stamp: 0 .. today, file: 0 .. today]]
    BY <1>4 DEF Idle, AuditInv, TypeOK, Days
  <2>2. synced' \in [Days -> Nat] /\ \A e \in Days : synced'[e] <= Len(files'[e])
    BY <1>1, <1>2
  <2>3. /\ torn' \in [Days -> Nat]
        /\ faults' \in 0 .. MaxFaults
        /\ logged' \subseteq logged
    <3>1. faults \in Nat /\ MaxFaults \in Nat
      BY AuditAssumption DEF AuditInv, TypeOK
    <3>2. torn' \in [Days -> Nat]
      <4>1. \A d \in Days :
              torn[d] + Cardinality(Cut(rest[d]) \ Cut(files[d])) \in Nat
        BY <1>6
      <4> QED
        BY <1>1, <4>1
    <3>3. faults' \in 0 .. MaxFaults
      <4>1. faults' = faults + 1 /\ faults < MaxFaults
        BY DEF PowerFails
      <4> QED
        BY <3>1, <4>1
    <3>4. logged' \subseteq logged
      BY <1>1
    <3> QED
      BY <3>2, <3>3, <3>4
  <2>4. verifier'.result = "none"
    BY <1>4 DEF NotVerifying
  <2> QED
    BY <1>3, <1>4, <2>1, <2>2, <2>3, <2>4 DEF AuditInv, TypeOK
<1>8. VerifierTyped' /\ ReaderOnLine' /\ TrueMeansRead' /\ AlarmFounded'
  <2>1. 1 \in Days /\ files'[1] \in Seq(Piece)
    BY <1>3, AuditAssumption DEF Days
  <2>2. verifier' = [file |-> 1, read |-> 0, expected |-> {}, result |-> "none"]
    BY <1>4 DEF NotVerifying
  <2>3. VerifierTyped'
    <3>1. verifier' \in [file: Days, read: Nat, expected: SUBSET logged',
                         result: Verifying]
      BY <2>1, <2>2 DEF Verifying
    <3>2. verifier'.read <= Len(files'[verifier'.file])
      BY <2>1, <2>2
    <3> QED
      BY <3>1, <3>2 DEF VerifierTyped
  <2> QED
    BY <2>2, <2>3 DEF ReaderOnLine, TrueMeansRead, AlarmFounded
<1>9. WritersTimely' /\ EntriesApart' /\ FiledByDay'
  BY <1>1, <1>5 DEF AuditInv, WritersTimely, EntriesApart, FiledByDay, Busy
<1>10. LoggedPresent'
  <2> SUFFICES ASSUME NEW x \in logged'
               PROVE  \E i \in DOMAIN files'[x.file] :
                        files'[x.file][i].entry = x.entry
    BY DEF LoggedPresent
  <2>1. x \in logged /\ x.file \in Days /\ x.entry \in Entries(rest[x.file])
    BY <1>1 DEF AuditInv, TypeOK
  <2> QED
    BY <1>1, <2>1 DEF Entries
<1>11. CutsCounted'
  BY <1>1, <1>6 DEF CutsCounted
<1> QED
  BY <1>7, <1>8, <1>9, <1>10, <1>11 DEF AuditInv

-----------------------------------------------------------------------------
(* What damage costs *)

\* An entry that cannot be read was cut, or stands behind a piece that was.
LEMMA UnreadableIsCut ==
  ASSUME AuditInv, NEW x \in logged, ~Readable(x),
         NEW i \in DOMAIN files[x.file], files[x.file][i].entry = x.entry
  PROVE  i \in Cut(files[x.file]) \/ i - 1 \in Cut(files[x.file])
<1> DEFINE file == files[x.file]
<1>1. x.file \in Days /\ file \in Seq(Piece)
  BY DEF AuditInv, TypeOK
<1>2. i \in 1 .. Len(file)
  BY <1>1
<1>3. \/ ~Parses(file, i)
      \/ i > 1 /\ file[i - 1].part # "line"
  BY DEF Readable
<1>4. CASE ~Parses(file, i)
  BY <1>4 DEF Parses, Cut
<1>5. CASE i > 1 /\ file[i - 1].part # "line"
  BY <1>1, <1>2, <1>5 DEF Cut
<1> QED
  BY <1>3, <1>4, <1>5

\* Different unreadable entries of a file lie in different places, each a cut
\* piece or the one behind it: there are at most twice as many as cuts.
LEMMA DamageBound == AuditInv => DamageIsLocal
<1> SUFFICES ASSUME AuditInv, NEW d \in Days
             PROVE  Cardinality({x \in logged : x.file = d /\ ~Readable(x)})
                      <= 2 * torn[d]
  BY DEF DamageIsLocal
<1> DEFINE Unreadable == {x \in logged : x.file = d /\ ~Readable(x)}
           cuts == Cut(files[d])
           Behind == {i + 1 : i \in cuts}
           At(x) == CHOOSE i \in DOMAIN files[d] : files[d][i].entry = x.entry
           place == [x \in Unreadable |-> At(x)]
<1>1. /\ IsFiniteSet(cuts) /\ cuts \in SUBSET Nat
      /\ Cardinality(cuts) <= torn[d] /\ torn[d] \in Nat
  BY CutsFinite DEF AuditInv, CutsCounted, TypeOK
<1>2. IsFiniteSet(Behind) /\ Cardinality(Behind) <= Cardinality(cuts)
  <2> DEFINE f == [i \in cuts |-> i + 1]
  <2>1. f \in Surjection(cuts, Behind)
    BY DEF Surjection
  <2> QED
    BY <1>1, <2>1, FS_Surjection
<1>3. \A x \in Unreadable :
        At(x) \in DOMAIN files[d] /\ At(x) \in Nat
        /\ files[d][At(x)].entry = x.entry
  <2> SUFFICES ASSUME NEW x \in Unreadable
               PROVE  At(x) \in DOMAIN files[d] /\ At(x) \in Nat
                      /\ files[d][At(x)].entry = x.entry
    OBVIOUS
  <2>1. files[d] \in Seq(Piece)
    BY DEF AuditInv, TypeOK
  <2>2. \E i \in DOMAIN files[d] : files[d][i].entry = x.entry
    BY DEF AuditInv, LoggedPresent
  <2>3. At(x) \in DOMAIN files[d] /\ files[d][At(x)].entry = x.entry
    BY <2>2
  <2> QED
    BY <2>1, <2>3
<1> HIDE DEF At
<1>4. \A x \in Unreadable : place[x] \in cuts \cup Behind
  <2> SUFFICES ASSUME NEW x \in Unreadable PROVE place[x] \in cuts \cup Behind
    OBVIOUS
  <2>1. At(x) \in cuts \/ At(x) - 1 \in cuts
    BY <1>3, UnreadableIsCut
  <2> QED
    BY <1>3, <2>1
<1>5. \A x, y \in Unreadable : place[x] = place[y] => x = y
  <2> SUFFICES ASSUME NEW x \in Unreadable, NEW y \in Unreadable,
                      place[x] = place[y]
               PROVE  x = y
    OBVIOUS
  <2>1. x.entry = y.entry
    BY <1>3
  <2> QED
    BY <2>1 DEF AuditInv, EntriesApart
<1>6. place \in Injection(Unreadable, cuts \cup Behind)
  BY <1>4, <1>5 DEF Injection, IsInjective
<1> HIDE DEF Unreadable, cuts, Behind, place
<1>7. /\ IsFiniteSet(cuts \cup Behind)
      /\ Cardinality(cuts \cup Behind) =
           Cardinality(cuts) + Cardinality(Behind) - Cardinality(cuts \cap Behind)
  BY <1>1, <1>2, FS_Union
<1>8. IsFiniteSet(cuts \cap Behind)
  BY <1>1, FS_Intersection
<1>9. Cardinality(Unreadable) <= Cardinality(cuts \cup Behind)
      /\ IsFiniteSet(Unreadable)
  BY <1>6, <1>7, FS_Injection
<1>10. /\ Cardinality(cuts) \in Nat
       /\ Cardinality(Behind) \in Nat
       /\ Cardinality(cuts \cap Behind) \in Nat
       /\ Cardinality(Unreadable) \in Nat
       /\ Cardinality(cuts \cup Behind) \in Nat
  BY <1>1, <1>2, <1>7, <1>8, <1>9, FS_CardinalityType
<1>11. Cardinality(Unreadable) <= 2 * torn[d]
  BY <1>1, <1>2, <1>7, <1>9, <1>10
<1> QED
  BY <1>11 DEF Unreadable

-----------------------------------------------------------------------------
(* Theorems *)

\* The invariant of the audit log holds in every reachable state.
THEOREM AuditInvariant == Spec => []AuditInv
<1>1. Init => AuditInv
  <2> SUFFICES ASSUME Init PROVE AuditInv
    OBVIOUS
  <2>1. 1 \in Days
    BY AuditAssumption DEF Days
  <2>2. /\ files \in [Days -> Seq(Piece)]
        /\ \A d \in Days : files[d] = <<>>
    BY DEF Init
  <2>3. TypeOK
    BY <2>1, <2>2, AuditAssumption DEF Init, TypeOK, NotVerifying, Idle
  <2>4. VerifierTyped /\ ReaderOnLine /\ TrueMeansRead /\ AlarmFounded
    BY <2>1, <2>2
       DEF Init, NotVerifying, VerifierTyped, Verifying, ReaderOnLine,
           TrueMeansRead, AlarmFounded
  <2>5. WritersTimely /\ EntriesApart /\ LoggedPresent /\ FiledByDay
    BY DEF Init, Idle, WritersTimely, EntriesApart, LoggedPresent, FiledByDay,
           Busy
  <2>6. \A d \in Days : Cut(files[d]) = {} /\ torn[d] = 0
    BY <2>2 DEF Init, Cut
  <2>7. CutsCounted
    <3>1. Cardinality({}) = 0
      BY FS_EmptySet
    <3>2. \A d \in Days : Cardinality(Cut(files[d])) = torn[d]
      BY <2>6, <3>1
    <3>3. \A d \in Days : torn[d] <= torn[d]
      BY <2>6
    <3> QED
      BY <3>2, <3>3 DEF CutsCounted
  <2> QED
    BY <2>3, <2>4, <2>5, <2>7 DEF AuditInv
<1>2. AuditInv /\ [Next]_auditVars => AuditInv'
  <2> SUFFICES ASSUME AuditInv, [Next]_auditVars PROVE AuditInv'
    OBVIOUS
  <2>1. CASE UNCHANGED auditVars
    <3>1. UNCHANGED <<today, files, synced, doing, made, faults, torn, logged,
                      verifier>>
      BY <2>1 DEF auditVars
    <3>2. FileInv'
      BY <3>1, FilesUndisturbed
    <3>3. TypeOK'
      BY <3>1 DEF AuditInv, TypeOK
    <3>4. WritersTimely' /\ EntriesApart' /\ FiledByDay'
      BY <3>1 DEF AuditInv, WritersTimely, EntriesApart, FiledByDay, Busy
    <3> QED
      BY <3>2, <3>3, <3>4 DEF AuditInv, FileInv
  <2>2. ASSUME NEW w \in Writers, Write(w) PROVE AuditInv'
    BY <2>2, AppendStep DEF Write, AuditInv, TypeOK
  <2>3. ASSUME NEW w \in Writers, WriteFails(w) PROVE AuditInv'
    <3>1. PICK part \in {"bare", "head"} : Appended(w, part)
      BY <2>3 DEF WriteFails
    <3>2. faults' \in 0 .. MaxFaults
      BY <2>3, AuditAssumption DEF WriteFails, AuditInv, TypeOK
    <3> QED
      BY <2>3, <3>1, <3>2, AppendStep DEF WriteFails
  <2> QED
    BY <2>1, <2>2, <2>3, MakeEntryStep, OpenFileStep, GiveUpStep, SystemStep,
       OpenStep, ReadLineStep, PowerStep
       DEF Next
<1> QED
  BY <1>1, <1>2, PTL DEF Spec

\* Every variable has its type, and nothing beyond a file's end is read.
THEOREM AuditTyped == Spec => []TypeOK
<1>1. AuditInv => TypeOK
  BY DEF AuditInv
<1> QED
  BY <1>1, AuditInvariant, PTL

\* However many processes append and however often disk and power fail, a cut
\* costs at most the entry that was cut and the one written behind it in the
\* same file, and nothing in another.
THEOREM DamageStaysLocal == Spec => []DamageIsLocal
BY AuditInvariant, DamageBound, PTL

\* An answer True means that everything logged before the question was read,
\* whole and on lines of its own.
THEOREM TrueIsRead == Spec => []TrueMeansRead
<1>1. AuditInv => TrueMeansRead
  BY DEF AuditInv
<1> QED
  BY <1>1, AuditInvariant, PTL

\* An alarm means damage to the very file that was read: a write to it was
\* cut.
THEOREM AlarmsAreReal == Spec => []NoFalseAlarm
<1>1. AuditInv => NoFalseAlarm
  <2> SUFFICES ASSUME AuditInv, verifier.result = "raised"
               PROVE  torn[verifier.file] > 0
    BY DEF NoFalseAlarm
  <2> DEFINE cuts == Cut(files[verifier.file])
  <2>1. /\ verifier.file \in Days
        /\ files[verifier.file] \in Seq(Piece)
        /\ torn[verifier.file] \in Nat
    BY DEF AuditInv, VerifierTyped, TypeOK
  <2>2. cuts # {} /\ Cardinality(cuts) <= torn[verifier.file]
    BY <2>1 DEF AuditInv, AlarmFounded, CutsCounted
  <2>3. Cardinality(cuts) # 0 /\ Cardinality(cuts) \in Nat
    BY <2>1, <2>2, CutsFinite, FS_EmptySet
  <2> QED
    BY <2>1, <2>2, <2>3
<1> QED
  BY <1>1, AuditInvariant, PTL

\* An entry is in the file of a day between its stamp and the return of log().
THEOREM FiledInTime == Spec => []FiledByDay
<1>1. AuditInv => FiledByDay
  BY DEF AuditInv
<1> QED
  BY <1>1, AuditInvariant, PTL

=============================================================================
