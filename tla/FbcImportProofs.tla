-------------------------- MODULE FbcImportProofs --------------------------
(***************************************************************************)
(* Proofs about FbcImport, for any files, any capacity of the channel and  *)
(* any size of the batches.  That every row is staged rests on where the   *)
(* rows are between the walkers and the tables (Staging): a row that was   *)
(* sent is in the channel, in the batch or in the tables, and two rows     *)
(* with one key are never both in the tables.  That nothing is left of a   *)
(* package that is refused rests on what the writes that Normalize has     *)
(* before it may make (RefusalInv), that the right errors are reported on  *)
(* which of them succeed and which are bound to fail (FaultInv), and that  *)
(* the other packages are there whole on the bundles that each write needs *)
(* and on what later writes leave as it is (WholeInv).                     *)
(***************************************************************************)
EXTENDS FbcImport, ContentProofs, SequenceTheorems, TLAPS

-----------------------------------------------------------------------------
(***************************************************************************)
(* The inductive invariant.                                                *)
(***************************************************************************)

\* How the goroutines of Ingest have ended, when the next phase begins.
Joining ==
  /\ phase \in {"ingest", "closed", "normalize", "finalize", "returned"}
  /\ writer.status \in {"reading", "flushing", "ok", "failed"}
  /\ phase # "ingest" => Walked
  /\ phase \notin {"ingest", "closed"} => writer.status \in {"ok", "failed"}
  /\ writer.status = "ok" => phase # "ingest" /\ rowCh = <<>> /\ writer.batch = <<>>
  /\ phase \in {"normalize", "finalize"} =>
       writer.status = "ok" /\ \A f \in Files : walker[f].status = "done"

Reading ==
  /\ files \in Inputs
  /\ walker \in [Files -> [read : Nat, status : {"ready", "walking", "done", "failed"}]]
  /\ \A f \in Files : /\ walker[f].read <= Len(files[f])
                      /\ walker[f].status = "done" => walker[f].read = Len(files[f])
  /\ writer = [batch |-> writer.batch, status |-> writer.status]
  /\ writer.batch \in Seq(AllRows) /\ rowCh \in Seq(AllRows) /\ staged \subseteq AllRows

\* The rows that are on their way to the tables, in the order in which they get there.
Pending == writer.batch \o rowCh

Sent(f, i) == i <= walker[f].read /\ HasRow(files[f][i])

SameKey(r, blob) ==
  /\ blob.kind \in {"package", "channel", "bundle"}
  /\ r.kind = blob.kind /\ r.pkg = blob.pkg /\ r.name = blob.name

\* Two rows, of which one is to come, or both are.
Apart(r, blob) ==
  \/ r \in staged /\ \E j \in DOMAIN Pending : Pending[j] = blob
  \/ blob \in staged /\ \E i \in DOMAIN Pending : Pending[i] = r
  \/ \E i, j \in DOMAIN Pending : i # j /\ Pending[i] = r /\ Pending[j] = blob

\* As long as the writer has not failed, a row that was sent is staged or on its way, and
\* of two with the same key one at most is staged.
Staging ==
  writer.status # "failed" =>
    /\ \A f \in Files : \A i \in DOMAIN files[f] :
         Sent(f, i) =>
           files[f][i] \in staged \/ \E k \in DOMAIN Pending : Pending[k] = files[f][i]
    /\ \A f, g \in Files : \A i \in DOMAIN files[f], j \in DOMAIN files[g] :
         /\ Sent(f, i) /\ Sent(g, j) /\ <<f, i>> # <<g, j>>
         /\ SameKey(files[f][i], files[g][j])
         => Apart(files[f][i], files[g][j])

StagedFit == \A r \in staged : ~RowFails({}, r)

ImportInv == Joining /\ Reading /\ Staging /\ StagedFit

-----------------------------------------------------------------------------
(***************************************************************************)
(* Rows and sequences of rows.                                             *)
(***************************************************************************)

\* The elements of two sequences, one after the other.
LEMMA Joined ==
  ASSUME NEW S, NEW b \in Seq(S), NEW c \in Seq(S)
  PROVE  /\ b \o c \in Seq(S) /\ Len(b) \in Nat /\ Len(c) \in Nat
         /\ DOMAIN (b \o c) = 1 .. (Len(b) + Len(c))
         /\ \A i \in 1 .. Len(b) : (b \o c)[i] = b[i]
         /\ \A i \in 1 .. Len(c) : (b \o c)[Len(b) + i] = c[i]
  <1>1. /\ b \o c \in Seq(S) /\ Len(b \o c) = Len(b) + Len(c)
        /\ \A i \in 1 .. Len(b) + Len(c) :
             (b \o c)[i] = IF i <= Len(b) THEN b[i] ELSE c[i - Len(b)]
    BY ConcatProperties
  <1>2. Len(b) \in Nat /\ Len(c) \in Nat /\ DOMAIN (b \o c) = 1 .. Len(b \o c)
    BY <1>1, LenProperties
  <1>3. \A i \in 1 .. Len(c) : (b \o c)[Len(b) + i] = c[i]
    <2>1. ASSUME NEW i \in 1 .. Len(c)
          PROVE  (b \o c)[Len(b) + i] = c[i]
      <3>1. /\ Len(b) + i \in 1 .. Len(b) + Len(c) /\ ~(Len(b) + i <= Len(b))
            /\ (Len(b) + i) - Len(b) = i
        BY <1>2
      <3> QED
        BY <1>1, <3>1
    <2> QED
      BY <2>1
  <1> QED
    BY <1>1, <1>2, <1>3

\* A row is sent: one more at the end.
LEMMA JoinedAppend ==
  ASSUME NEW S, NEW b \in Seq(S), NEW c \in Seq(S), NEW x \in S
  PROVE  /\ DOMAIN (b \o Append(c, x)) = 1 .. (Len(b) + Len(c) + 1)
         /\ \A i \in 1 .. (Len(b) + Len(c)) : (b \o Append(c, x))[i] = (b \o c)[i]
         /\ (b \o Append(c, x))[Len(b) + Len(c) + 1] = x
  <1>1. /\ Append(c, x) \in Seq(S) /\ Len(Append(c, x)) = Len(c) + 1
        /\ \A i \in 1 .. Len(c) : Append(c, x)[i] = c[i]
        /\ Append(c, x)[Len(c) + 1] = x
    BY AppendProperties
  <1>2. /\ DOMAIN (b \o Append(c, x)) = 1 .. (Len(b) + Len(Append(c, x)))
        /\ \A i \in 1 .. Len(b) : (b \o Append(c, x))[i] = b[i]
        /\ \A i \in 1 .. Len(Append(c, x)) : (b \o Append(c, x))[Len(b) + i] = Append(c, x)[i]
    BY <1>1, Joined
  <1>3. /\ Len(b) \in Nat /\ Len(c) \in Nat
        /\ \A i \in 1 .. Len(b) : (b \o c)[i] = b[i]
        /\ \A i \in 1 .. Len(c) : (b \o c)[Len(b) + i] = c[i]
    BY Joined
  <1> DEFINE d == Append(c, x)
             p == b \o d
             q == b \o c
  <1> HIDE DEF d, p, q
  <1>4. /\ Len(d) = Len(c) + 1
        /\ \A i \in 1 .. Len(c) : d[i] = c[i]
        /\ d[Len(c) + 1] = x
        /\ DOMAIN p = 1 .. (Len(b) + Len(d))
        /\ \A i \in 1 .. Len(b) : p[i] = b[i]
        /\ \A i \in 1 .. Len(d) : p[Len(b) + i] = d[i]
        /\ \A i \in 1 .. Len(b) : q[i] = b[i]
        /\ \A i \in 1 .. Len(c) : q[Len(b) + i] = c[i]
    BY <1>1, <1>2, <1>3 DEF d, p, q
  <1>5. DOMAIN p = 1 .. (Len(b) + Len(c) + 1)
    BY <1>3, <1>4
  <1>6. p[Len(b) + Len(c) + 1] = x
    <2>1. Len(c) + 1 \in 1 .. Len(d) /\ Len(b) + Len(c) + 1 = Len(b) + (Len(c) + 1)
      BY <1>3, <1>4
    <2> QED
      BY <1>4, <2>1
  <1>7. ASSUME NEW i \in 1 .. (Len(b) + Len(c))
        PROVE  p[i] = q[i]
    <2>1. CASE i <= Len(b)
      BY <1>3, <1>4, <2>1
    <2>2. CASE ~(i <= Len(b))
      <3>1. PICK k \in 1 .. Len(c) : i = Len(b) + k
        <4>1. i - Len(b) \in 1 .. Len(c) /\ i = Len(b) + (i - Len(b))
          BY <1>3, <2>2
        <4> QED
          BY <4>1
      <3>2. k \in 1 .. Len(d) /\ d[k] = c[k]
        BY <1>3, <1>4
      <3> QED
        BY <1>4, <3>1, <3>2
    <2> QED
      BY <2>1, <2>2
  <1> QED
    BY <1>5, <1>6, <1>7 DEF d, p, q

\* A row is received: the order stays.
LEMMA JoinedShift ==
  ASSUME NEW S, NEW b \in Seq(S), NEW c \in Seq(S), c # <<>>
  PROVE  Append(b, Head(c)) \o Tail(c) = b \o c
  <1>1. Head(c) \in S /\ Tail(c) \in Seq(S) /\ <<Head(c)>> \in Seq(S)
    BY HeadTailProperties
  <1>2. Append(b, Head(c)) = b \o <<Head(c)>>
    BY <1>1, AppendIsConcat
  <1>3. c = <<Head(c)>> \o Tail(c)
    <2>1. Len(c) \in Nat /\ Len(c) # 0
      BY LenProperties, EmptySeq
    <2>2. 1 \in 1 .. Len(c) /\ Len(c) \in 1 .. Len(c) /\ 1 + 1 = 2
      BY <2>1
    <2>3. SubSeq(c, 1, Len(c)) = <<c[1]>> \o SubSeq(c, 1 + 1, Len(c))
      BY <2>2, SubSeqRecursiveFirst
    <2>4. Head(c) = c[1]
      OBVIOUS
    <2> QED
      BY <2>2, <2>3, <2>4, SubSeqFull, TailIsSubSeq, Zenon
  <1> QED
    BY <1>1, <1>2, <1>3, ConcatAssociative

-----------------------------------------------------------------------------
(***************************************************************************)
(* The steps of the walkers, the writer and Import.                        *)
(***************************************************************************)

\* The blobs of a file, and the rows among them.
LEMMA FileBlobs ==
  ASSUME Reading, NEW f \in Files
  PROVE  /\ Len(files[f]) \in Nat /\ DOMAIN files[f] = 1 .. Len(files[f])
         /\ \A i \in DOMAIN files[f] : /\ files[f][i] \in Blobs
                                       /\ HasRow(files[f][i]) => files[f][i] \in AllRows
  <1>1. files[f] \in Seq(ToSet(files[f]))
    BY ImportAssumption DEF Reading, Files
  <1>2. Len(files[f]) \in Nat /\ DOMAIN files[f] = 1 .. Len(files[f])
    BY <1>1, LenProperties
  <1> QED
    BY <1>2 DEF Blobs, AllRows

\* What a walker has before it.
LEMMA AtRow ==
  ASSUME Reading, NEW f \in Files, AtBlob(f)
  PROVE  /\ walker[f].read + 1 \in DOMAIN files[f]
         /\ walker[f].read \in Nat /\ walker[f].status = "walking"
         /\ BlobOf(f) = files[f][walker[f].read + 1]
         /\ HasRow(BlobOf(f)) => BlobOf(f) \in AllRows
  <1>1. Len(files[f]) \in Nat /\ DOMAIN files[f] = 1 .. Len(files[f])
    BY FileBlobs
  <1>2. walker[f].read \in Nat /\ walker[f].read < Len(files[f]) /\ walker[f].status = "walking"
    BY DEF Reading, AtBlob
  <1>3. walker[f].read + 1 \in DOMAIN files[f]
    BY <1>1, <1>2
  <1> QED
    BY <1>2, <1>3, FileBlobs DEF BlobOf

\* A step that sends, receives and stages no row.
LEMMA QuietStep ==
  ASSUME ImportInv, UNCHANGED <<files, rowCh, staged>>,
         writer'.status = "failed" \/ UNCHANGED writer,
         \A f \in Files : \A i \in DOMAIN files[f] : Sent(f, i)' => Sent(f, i)
  PROVE  Staging' /\ StagedFit'
  <1>1. StagedFit'
    BY DEF ImportInv, StagedFit
  <1>2. ASSUME UNCHANGED writer, writer.status # "failed"
        PROVE  Staging'
    <2>1. Pending' = Pending
      BY <1>2 DEF Pending
    <2>2. \A r, blob : Apart(r, blob) => Apart(r, blob)'
      BY <2>1 DEF Apart
    <2>3. /\ \A f \in Files : \A i \in DOMAIN files[f] :
               Sent(f, i) =>
                 files[f][i] \in staged \/ \E k \in DOMAIN Pending : Pending[k] = files[f][i]
          /\ \A f, g \in Files : \A i \in DOMAIN files[f], j \in DOMAIN files[g] :
               /\ Sent(f, i) /\ Sent(g, j) /\ <<f, i>> # <<g, j>>
               /\ SameKey(files[f][i], files[g][j])
               => Apart(files[f][i], files[g][j])
      BY <1>2 DEF ImportInv, Staging
    <2>4. Files' = Files
      BY DEF Files
    <2> QED
      BY <2>1, <2>2, <2>3, <2>4 DEF Staging, SameKey
  <1>3. writer'.status = "failed" \/ writer.status = "failed" => Staging'
    BY DEF Staging
  <1> QED
    BY <1>1, <1>2, <1>3

\* A walker that goes on, ends or gives up without sending a row.
LEMMA WalkKeeps ==
  ASSUME ImportInv, NEW f \in Files,
         Start(f) \/ Abandon(f) \/ SkipBlob(f) \/ SendCancelled(f) \/ EndOfFile(f)
  PROVE  ImportInv'
  <1>1. /\ UNCHANGED <<files, rowCh, staged, writer, phase>>
        /\ \E w \in [read : Nat, status : {"ready", "walking", "done", "failed"}] :
             /\ walker' = [walker EXCEPT ![f] = w]
             /\ w.read <= Len(files[f])
             /\ w.status = "done" => w.read = Len(files[f])
             /\ \A i \in DOMAIN files[f] :
                  i <= w.read /\ HasRow(files[f][i]) => i <= walker[f].read
    <2>1. /\ walker[f] \in [read : Nat, status : {"ready", "walking", "done", "failed"}]
          /\ walker[f].read <= Len(files[f])
          /\ Len(files[f]) \in Nat /\ DOMAIN files[f] = 1 .. Len(files[f])
      BY FileBlobs DEF ImportInv, Reading
    <2>2. ASSUME NEW st \in {"walking", "done", "failed"},
                 walker' = [walker EXCEPT ![f].status = st],
                 st = "done" => walker[f].read = Len(files[f])
          PROVE  \E w \in [read : Nat, status : {"ready", "walking", "done", "failed"}] :
                   /\ walker' = [walker EXCEPT ![f] = w]
                   /\ w.read <= Len(files[f])
                   /\ w.status = "done" => w.read = Len(files[f])
                   /\ \A i \in DOMAIN files[f] :
                        i <= w.read /\ HasRow(files[f][i]) => i <= walker[f].read
      <3> DEFINE w == [walker[f] EXCEPT !.status = st]
      <3>1. /\ w \in [read : Nat, status : {"ready", "walking", "done", "failed"}]
            /\ w.read = walker[f].read /\ w.status = st
        BY <2>1
      <3>2. walker' = [walker EXCEPT ![f] = w]
        BY <2>2
      <3> HIDE DEF w
      <3> QED
        BY <2>1, <2>2, <3>1, <3>2
    <2>3. CASE Start(f)
      BY <2>2, <2>3 DEF Start, laterVars
    <2>4. CASE Abandon(f)
      BY <2>2, <2>4 DEF Abandon, laterVars
    <2>5. CASE SendCancelled(f)
      BY <2>2, <2>5 DEF SendCancelled, laterVars
    <2>6. CASE EndOfFile(f)
      BY <2>2, <2>6 DEF EndOfFile, laterVars
    <2>7. CASE SkipBlob(f)
      <3>1. /\ walker[f].read + 1 \in DOMAIN files[f] /\ walker[f].status = "walking"
            /\ ~HasRow(files[f][walker[f].read + 1])
        BY <2>7, AtRow DEF SkipBlob, ImportInv
      <3>2. CASE walker' = [walker EXCEPT ![f].status = "failed"]
        BY <2>2, <2>7, <3>2 DEF SkipBlob, laterVars
      <3>3. CASE walker' = [walker EXCEPT ![f].read = @ + 1]
        <4> DEFINE w == [walker[f] EXCEPT !.read = @ + 1]
        <4>1. /\ w \in [read : Nat, status : {"ready", "walking", "done", "failed"}]
              /\ w.read = walker[f].read + 1 /\ w.status = "walking"
          BY <2>1, <3>1
        <4>2. walker' = [walker EXCEPT ![f] = w]
          BY <3>3
        <4> HIDE DEF w
        <4>3. \A i \in DOMAIN files[f] :
                i <= w.read /\ HasRow(files[f][i]) => i <= walker[f].read
          BY <2>1, <3>1, <4>1
        <4>4. w.read <= Len(files[f]) /\ w.status # "done"
          BY <2>1, <3>1, <4>1
        <4>5. UNCHANGED <<files, rowCh, staged, writer, phase>>
          BY <2>7 DEF SkipBlob, laterVars
        <4> QED
          BY <4>1, <4>2, <4>3, <4>4, <4>5
      <3> QED
        BY <2>7, <3>2, <3>3 DEF SkipBlob
    <2> QED
      BY <2>3, <2>4, <2>5, <2>6, <2>7
  <1>2. PICK w \in [read : Nat, status : {"ready", "walking", "done", "failed"}] :
             /\ walker' = [walker EXCEPT ![f] = w]
             /\ w.read <= Len(files[f])
             /\ w.status = "done" => w.read = Len(files[f])
             /\ \A i \in DOMAIN files[f] :
                  i <= w.read /\ HasRow(files[f][i]) => i <= walker[f].read
    BY <1>1
  <1>3. walker[f].status \in {"ready", "walking"}
    BY DEF Start, Abandon, SkipBlob, SendCancelled, EndOfFile, AtBlob
  <1>4. Files' = Files /\ AllRows' = AllRows /\ Blobs' = Blobs
    BY <1>1 DEF Files, AllRows, Blobs
  <1>5. Reading'
    BY <1>1, <1>2, <1>4 DEF ImportInv, Reading
  <1>6. Joining'
    <2>1. phase = "ingest"
      BY <1>3 DEF ImportInv, Joining, Walked
    <2> QED
      BY <1>1, <2>1 DEF ImportInv, Joining
  <1>7. \A g \in Files : \A i \in DOMAIN files[g] : Sent(g, i)' => Sent(g, i)
    BY <1>1, <1>2 DEF ImportInv, Reading, Sent
  <1> QED
    BY <1>1, <1>5, <1>6, <1>7, QuietStep DEF ImportInv

\* The walker waits for room in the channel, and a row is on its way.
LEMMA SendKeeps ==
  ASSUME ImportInv, NEW f \in Files, SendRow(f)
  PROVE  ImportInv'
  <1> SUFFICES ASSUME NEW x, NEW k, NEW n, x = BlobOf(f), k = walker[f].read + 1,
                      n = Len(writer.batch) + Len(rowCh)
               PROVE  ImportInv'
    OBVIOUS
  <1>1. /\ k \in DOMAIN files[f] /\ walker[f].read \in Nat /\ walker[f].status = "walking"
        /\ x = files[f][k] /\ x \in AllRows
    BY AtRow DEF SendRow, ImportInv
  <1>2. /\ rowCh' = Append(rowCh, x)
        /\ walker' = [walker EXCEPT ![f].read = k]
        /\ UNCHANGED <<files, writer, staged, phase>>
    BY <1>1 DEF SendRow, laterVars, ImportInv, Reading
  <1>3. /\ writer.batch \in Seq(AllRows) /\ rowCh \in Seq(AllRows)
        /\ walker \in [Files -> [read : Nat, status : {"ready", "walking", "done", "failed"}]]
        /\ \A g \in Files : Len(files[g]) \in Nat /\ DOMAIN files[g] = 1 .. Len(files[g])
    BY FileBlobs DEF ImportInv, Reading
  <1>4. Files' = Files /\ AllRows' = AllRows /\ Blobs' = Blobs
    BY <1>2 DEF Files, AllRows, Blobs
  <1>5. /\ n \in Nat /\ DOMAIN Pending = 1 .. n /\ DOMAIN Pending' = 1 .. n + 1
        /\ \A i \in 1 .. n : Pending'[i] = Pending[i]
        /\ Pending'[n + 1] = x
    <2>1. Pending' = writer.batch \o Append(rowCh, x)
      BY <1>2 DEF Pending
    <2>2. n \in Nat /\ DOMAIN Pending = 1 .. n
      BY <1>3, Joined DEF Pending
    <2>3. /\ DOMAIN (writer.batch \o Append(rowCh, x)) = 1 .. n + 1
          /\ \A i \in 1 .. n : (writer.batch \o Append(rowCh, x))[i] = (writer.batch \o rowCh)[i]
          /\ (writer.batch \o Append(rowCh, x))[n + 1] = x
      <3>1. writer.batch \in Seq(AllRows) /\ rowCh \in Seq(AllRows) /\ x \in AllRows
        BY <1>1, <1>3
      <3>2. PICK S : S = AllRows
        OBVIOUS
      <3>3. writer.batch \in Seq(S) /\ rowCh \in Seq(S) /\ x \in S
        BY <3>1, <3>2
      <3>4. \A b, c \in Seq(S), y \in S :
               /\ DOMAIN (b \o Append(c, y)) = 1 .. (Len(b) + Len(c) + 1)
               /\ \A i \in 1 .. (Len(b) + Len(c)) : (b \o Append(c, y))[i] = (b \o c)[i]
               /\ (b \o Append(c, y))[Len(b) + Len(c) + 1] = y
        BY JoinedAppend, SMTT(30)
      <3>5. /\ DOMAIN (writer.batch \o Append(rowCh, x))
                = 1 .. (Len(writer.batch) + Len(rowCh) + 1)
            /\ \A i \in 1 .. (Len(writer.batch) + Len(rowCh)) :
                 (writer.batch \o Append(rowCh, x))[i] = (writer.batch \o rowCh)[i]
            /\ (writer.batch \o Append(rowCh, x))[Len(writer.batch) + Len(rowCh) + 1] = x
        BY <3>3, <3>4, Zenon
      <3> QED
        BY <3>5
    <2> QED
      BY <2>1, <2>2, <2>3 DEF Pending
  <1>6. phase = "ingest" /\ writer.status # "ok"
    BY <1>1 DEF ImportInv, Joining, Walked
  <1>7. Joining'
    BY <1>2, <1>6 DEF ImportInv, Joining
  <1>8. Reading'
    <2>1. walker' \in [Files -> [read : Nat, status : {"ready", "walking", "done", "failed"}]]
      BY <1>1, <1>2, <1>3
    <2>2. \A g \in Files : /\ walker'[g].read <= Len(files[g])
                           /\ walker'[g].status = "done" => walker'[g].read = Len(files[g])
      BY <1>1, <1>2, <1>3 DEF ImportInv, Reading
    <2>3. rowCh' \in Seq(AllRows)
      BY <1>1, <1>2, <1>3, AppendProperties
    <2> QED
      BY <1>2, <1>4, <2>1, <2>2, <2>3 DEF ImportInv, Reading
  <1>9. Staging'
    <2> SUFFICES ASSUME writer.status # "failed"
                 PROVE  Staging'
      BY <1>2 DEF Staging
    <2>1. /\ \A g \in Files : \A i \in DOMAIN files[g] :
               Sent(g, i) =>
                 files[g][i] \in staged \/ \E m \in DOMAIN Pending : Pending[m] = files[g][i]
          /\ \A g, h \in Files : \A i \in DOMAIN files[g], j \in DOMAIN files[h] :
               /\ Sent(g, i) /\ Sent(h, j) /\ <<g, i>> # <<h, j>>
               /\ SameKey(files[g][i], files[h][j])
               => Apart(files[g][i], files[h][j])
      BY DEF ImportInv, Staging
    <2>2. ASSUME NEW g \in Files, NEW i \in DOMAIN files[g], Sent(g, i)'
          PROVE  Sent(g, i) \/ (g = f /\ i = k)
      BY <1>1, <1>2, <1>3, <2>2 DEF Sent
    <2>3. ASSUME NEW r, NEW m \in DOMAIN Pending, Pending[m] = r
          PROVE  m \in DOMAIN Pending' /\ Pending'[m] = r /\ m # n + 1
      BY <1>5, <2>3
    <2>4. n + 1 \in DOMAIN Pending' /\ Pending'[n + 1] = x
      BY <1>5
    <2>5. ASSUME NEW g \in Files, NEW i \in DOMAIN files[g], Sent(g, i)'
          PROVE  \/ files[g][i] \in staged'
                 \/ \E m \in DOMAIN Pending' : Pending'[m] = files[g][i]
      BY <1>1, <1>2, <2>1, <2>2, <2>3, <2>4, <2>5
    <2>6. ASSUME NEW r, NEW blob, Apart(r, blob)
          PROVE  Apart(r, blob)'
      BY <1>2, <2>3, <2>6 DEF Apart
    <2>7. ASSUME NEW r, r \in staged \/ \E m \in DOMAIN Pending : Pending[m] = r
          PROVE  Apart(r, x)' /\ Apart(x, r)'
      <3>1. CASE r \in staged
        BY <1>2, <2>4, <3>1 DEF Apart
      <3>2. CASE \E m \in DOMAIN Pending : Pending[m] = r
        <4>1. PICK m \in DOMAIN Pending : Pending[m] = r
          BY <3>2
        <4>2. m \in DOMAIN Pending' /\ Pending'[m] = r /\ m # n + 1
          BY <2>3, <4>1
        <4> QED
          BY <2>4, <4>2 DEF Apart
      <3> QED
        BY <2>7, <3>1, <3>2
    <2>8. ASSUME NEW g \in Files, NEW h \in Files,
                 NEW i \in DOMAIN files[g], NEW j \in DOMAIN files[h],
                 Sent(g, i)', Sent(h, j)', <<g, i>> # <<h, j>>,
                 SameKey(files[g][i], files[h][j])
          PROVE  Apart(files[g][i], files[h][j])'
      <3> SUFFICES ASSUME NEW r, NEW blob, r = files[g][i], blob = files[h][j]
                   PROVE  Apart(r, blob)'
        BY <1>2
      <3>1. CASE Sent(g, i) /\ Sent(h, j)
        BY <2>1, <2>6, <2>8, <3>1
      <3>2. CASE Sent(g, i) /\ h = f /\ j = k
        BY <1>1, <2>1, <2>7, <3>2
      <3>3. CASE Sent(h, j) /\ g = f /\ i = k
        BY <1>1, <2>1, <2>7, <3>3
      <3> QED
        BY <2>2, <2>8, <3>1, <3>2, <3>3
    <2> QED
      BY <1>2, <1>4, <2>5, <2>8 DEF Staging, SameKey
  <1>10. StagedFit'
    BY <1>2 DEF ImportInv, StagedFit
  <1> QED
    BY <1>7, <1>8, <1>9, <1>10 DEF ImportInv

\* The writer takes a row: it stays on its way, and in its place.
LEMMA ReceiveKeeps ==
  ASSUME ImportInv, ReceiveRow
  PROVE  ImportInv'
  <1>1. /\ writer.batch \in Seq(AllRows) /\ rowCh \in Seq(AllRows) /\ rowCh # <<>>
        /\ writer.status = "reading"
        /\ rowCh' = Tail(rowCh) /\ writer'.batch = Append(writer.batch, Head(rowCh))
        /\ writer' = [batch |-> writer'.batch, status |-> writer'.status]
        /\ writer'.status \in {"reading", "flushing"}
        /\ UNCHANGED <<files, walker, staged, phase>>
    BY DEF ReceiveRow, laterVars, ImportInv, Reading
  <1>2. Files' = Files /\ AllRows' = AllRows /\ Blobs' = Blobs
    BY <1>1 DEF Files, AllRows, Blobs
  <1>3. Pending' = Pending
    <2>1. Append(writer.batch, Head(rowCh)) \o Tail(rowCh) = writer.batch \o rowCh
      BY <1>1, JoinedShift
    <2> QED
      BY <1>1, <2>1 DEF Pending
  <1>4. Joining'
    BY <1>1, <1>2 DEF ImportInv, Joining, Walked
  <1>5. Reading'
    <2>1. Head(rowCh) \in AllRows /\ Tail(rowCh) \in Seq(AllRows)
      BY <1>1, HeadTailProperties
    <2>2. Append(writer.batch, Head(rowCh)) \in Seq(AllRows)
      BY <1>1, <2>1, AppendProperties
    <2> QED
      BY <1>1, <1>2, <2>1, <2>2 DEF ImportInv, Reading
  <1>6. Staging'
    <2>1. \A r, blob : Apart(r, blob) => Apart(r, blob)'
      BY <1>1, <1>3 DEF Apart
    <2>2. /\ \A f \in Files : \A i \in DOMAIN files[f] :
               Sent(f, i) =>
                 files[f][i] \in staged \/ \E k \in DOMAIN Pending : Pending[k] = files[f][i]
          /\ \A f, g \in Files : \A i \in DOMAIN files[f], j \in DOMAIN files[g] :
               /\ Sent(f, i) /\ Sent(g, j) /\ <<f, i>> # <<g, j>>
               /\ SameKey(files[f][i], files[g][j])
               => Apart(files[f][i], files[g][j])
      BY <1>1 DEF ImportInv, Staging
    <2>3. \A f, i : Sent(f, i)' = Sent(f, i)
      BY <1>1 DEF Sent
    <2> QED
      BY <1>1, <1>2, <1>3, <2>1, <2>2, <2>3 DEF Staging, SameKey
  <1>7. StagedFit'
    BY <1>1 DEF ImportInv, StagedFit
  <1> QED
    BY <1>4, <1>5, <1>6, <1>7 DEF ImportInv

\* A row that the tables take has the key of no row before it, and is in itself whole.
LEMMA RowFailure ==
  ASSUME NEW rows, NEW x
  PROVE  /\ \A r \in rows : SameKey(r, x) \/ SameKey(x, r) => RowFails(rows, x)
         /\ RowFails({}, x) => RowFails(rows, x)
  BY DEF RowFails, SameKey

\* What a batch that does not fail adds.
LEMMA BatchFits ==
  ASSUME NEW S, NEW b \in Seq(S), NEW rows, b = <<>> \/ ~BatchFails(rows, b)
  PROVE  /\ \A i \in 1 .. Len(b) : ~RowFails({}, b[i])
         /\ \A i \in 1 .. Len(b), r \in rows : ~SameKey(r, b[i]) /\ ~SameKey(b[i], r)
         /\ \A i, j \in 1 .. Len(b) : i # j => ~SameKey(b[i], b[j])
         /\ ToSet(b) = {b[i] : i \in 1 .. Len(b)}
  <1>1. Len(b) \in Nat /\ DOMAIN b = 1 .. Len(b)
    BY LenProperties
  <1>2. ASSUME NEW i \in 1 .. Len(b)
        PROVE  ~RowFails(rows \cup {b[j] : j \in 1 .. i - 1}, b[i])
    <2>1. i \in DOMAIN b /\ Len(b) # 0
      BY <1>1
    <2>2. b # <<>>
      BY <2>1, EmptySeq
    <2> QED
      BY <2>1, <2>2 DEF BatchFails
  <1>3. \A i \in 1 .. Len(b) : ~RowFails({}, b[i])
    BY <1>2, RowFailure
  <1>4. ASSUME NEW i \in 1 .. Len(b), NEW r \in rows
        PROVE  ~SameKey(r, b[i]) /\ ~SameKey(b[i], r)
    <2>1. r \in rows \cup {b[j] : j \in 1 .. i - 1}
      OBVIOUS
    <2> QED
      BY <1>2, <2>1, RowFailure
  <1>5. ASSUME NEW i \in 1 .. Len(b), NEW j \in 1 .. Len(b), i < j
        PROVE  ~SameKey(b[i], b[j]) /\ ~SameKey(b[j], b[i])
    <2>1. i \in 1 .. j - 1
      BY <1>1, <1>5
    <2>2. b[i] \in rows \cup {b[k] : k \in 1 .. j - 1}
      BY <2>1
    <2> QED
      BY <1>2, <2>2, RowFailure
  <1>6. \A i, j \in 1 .. Len(b) : i # j => ~SameKey(b[i], b[j])
    <2>1. \A i, j \in 1 .. Len(b) : i # j => i < j \/ j < i
      BY <1>1
    <2> QED
      BY <1>5, <2>1
  <1> QED
    BY <1>1, <1>3, <1>4, <1>6 DEF ToSet

\* Where a place of Pending is: in the batch, or in the channel.
LEMMA PendingPlaces ==
  ASSUME NEW S, NEW b \in Seq(S), NEW c \in Seq(S), NEW i \in DOMAIN (b \o c)
  PROVE  \/ i \in 1 .. Len(b) /\ (b \o c)[i] = b[i]
         \/ \E k \in DOMAIN c : i = Len(b) + k /\ (b \o c)[i] = c[k]
  <1>1. /\ Len(b) \in Nat /\ Len(c) \in Nat /\ DOMAIN c = 1 .. Len(c)
        /\ i \in 1 .. (Len(b) + Len(c))
        /\ \A m \in 1 .. Len(b) : (b \o c)[m] = b[m]
        /\ \A m \in 1 .. Len(c) : (b \o c)[Len(b) + m] = c[m]
    BY Joined, LenProperties
  <1>2. CASE i <= Len(b)
    <2>1. i \in 1 .. Len(b)
      BY <1>1, <1>2
    <2> QED
      BY <1>1, <2>1
  <1>3. CASE ~(i <= Len(b))
    <2>1. i - Len(b) \in 1 .. Len(c) /\ i = Len(b) + (i - Len(b))
      BY <1>1, <1>3
    <2> QED
      BY <1>1, <2>1
  <1> QED
    BY <1>2, <1>3

\* The batch is written, or it fails and the writer gives up.
LEMMA FlushKeeps ==
  ASSUME ImportInv, Flush
  PROVE  ImportInv'
  <1> SUFFICES ASSUME NEW b, NEW c, b = writer.batch, c = rowCh
               PROVE  ImportInv'
    OBVIOUS
  <1>1. /\ b \in Seq(AllRows) /\ c \in Seq(AllRows) /\ staged \subseteq AllRows
        /\ UNCHANGED <<files, walker, rowCh, phase>>
        /\ writer' = [batch |-> writer'.batch, status |-> writer'.status] /\ writer'.batch = <<>>
        /\ writer'.status \in {"reading", "ok", "failed"}
        /\ writer'.status = "ok" => phase = "closed" /\ rowCh = <<>>
        /\ writer.status \in {"reading", "flushing"}
    BY DEF Flush, Drained, laterVars, ImportInv, Reading
  <1>2. Files' = Files /\ AllRows' = AllRows /\ Blobs' = Blobs
    BY <1>1 DEF Files, AllRows, Blobs
  <1>3. \/ writer'.status = "failed" /\ staged' = staged
        \/ staged' = staged \cup ToSet(b) /\ (b = <<>> \/ ~BatchFails(staged, b))
    BY DEF Flush
  <1>4. Joining'
    BY <1>1, <1>2 DEF ImportInv, Joining, Walked
  <1>5. DOMAIN b = 1 .. Len(b) /\ \A i \in 1 .. Len(b) : b[i] \in AllRows
    BY <1>1, ElementOfSeq, LenProperties
  <1>6. Reading'
    <2>1. staged' \subseteq AllRows
      BY <1>1, <1>3, <1>5 DEF ToSet
    <2>2. <<>> \in Seq(AllRows)
      BY EmptySeq
    <2>3. writer'.batch \in Seq(AllRows) /\ rowCh' \in Seq(AllRows)
      BY <1>1, <2>2
    <2> QED
      BY <1>1, <1>2, <2>1, <2>3 DEF ImportInv, Reading
  <1>7. CASE writer'.status = "failed" /\ staged' = staged
    BY <1>4, <1>6, <1>7 DEF ImportInv, Staging, StagedFit
  <1>8. CASE staged' = staged \cup ToSet(b) /\ (b = <<>> \/ ~BatchFails(staged, b))
    <2>1. /\ \A i \in 1 .. Len(b) : ~RowFails({}, b[i])
          /\ \A i \in 1 .. Len(b), r \in staged : ~SameKey(r, b[i]) /\ ~SameKey(b[i], r)
          /\ \A i, j \in 1 .. Len(b) : i # j => ~SameKey(b[i], b[j])
          /\ ToSet(b) = {b[i] : i \in 1 .. Len(b)}
      BY <1>1, <1>8, BatchFits
    <2>2. /\ \A r : r \in staged' <=> r \in staged \/ \E i \in 1 .. Len(b) : r = b[i]
          /\ Len(b) \in Nat
      BY <1>1, <1>8, <2>1, LenProperties
    <2>3. StagedFit'
      BY <2>1, <2>2 DEF ImportInv, StagedFit
    <2>4. Pending' = c /\ Pending = b \o c
      <3>1. <<>> \o c = c
        BY <1>1, ConcatEmptySeq
      <3>2. writer'.batch = <<>>
        BY <1>1
      <3> QED
        BY <1>1, <3>1, <3>2 DEF Pending
    <2>5. \A i \in DOMAIN Pending :
            \/ i \in 1 .. Len(b) /\ Pending[i] = b[i]
            \/ \E k \in DOMAIN c : i = Len(b) + k /\ Pending[i] = c[k]
      <3>1. PICK S : S = AllRows
        OBVIOUS
      <3>2. b \in Seq(S) /\ c \in Seq(S)
        BY <1>1, <3>1
      <3>3. \A d, e \in Seq(S) : \A i \in DOMAIN (d \o e) :
              \/ i \in 1 .. Len(d) /\ (d \o e)[i] = d[i]
              \/ \E k \in DOMAIN e : i = Len(d) + k /\ (d \o e)[i] = e[k]
        BY PendingPlaces
      <3>4. \A i \in DOMAIN (b \o c) :
              \/ i \in 1 .. Len(b) /\ (b \o c)[i] = b[i]
              \/ \E k \in DOMAIN c : i = Len(b) + k /\ (b \o c)[i] = c[k]
        BY ONLY <3>2, <3>3, Zenon
      <3>5. Pending = b \o c
        BY <2>4
      <3> QED
        BY ONLY <3>4, <3>5, Zenon
    <2>6. ASSUME NEW r, \E i \in DOMAIN Pending : Pending[i] = r
          PROVE  r \in staged' \/ \E k \in DOMAIN Pending' : Pending'[k] = r
      BY <2>2, <2>4, <2>5, <2>6
    <2>7. ASSUME NEW r, NEW blob, r \in staged, SameKey(r, blob) \/ SameKey(blob, r),
                 \E i \in DOMAIN Pending : Pending[i] = blob
          PROVE  r \in staged' /\ \E k \in DOMAIN Pending' : Pending'[k] = blob
      BY <2>1, <2>2, <2>4, <2>5, <2>7
    <2>8. ASSUME NEW r, NEW blob, SameKey(r, blob) \/ SameKey(blob, r),
                 NEW i \in DOMAIN Pending, NEW j \in DOMAIN Pending, i # j,
                 Pending[i] = r, Pending[j] = blob
          PROVE  Apart(r, blob)'
      <3> DEFINE In(m)    == m \in 1 .. Len(b) /\ Pending[m] = b[m]
                 At(m, k) == m = Len(b) + k /\ Pending[m] = c[k]
      <3>1. CASE In(i) /\ In(j)
        BY <2>1, <2>8, <3>1
      <3>2. CASE In(i) /\ \E k \in DOMAIN c : At(j, k)
        <4>1. r \in staged' /\ \E k \in DOMAIN Pending' : Pending'[k] = blob
          BY <2>2, <2>4, <2>8, <3>2
        <4> QED
          BY <4>1 DEF Apart
      <3>3. CASE In(j) /\ \E k \in DOMAIN c : At(i, k)
        <4>1. blob \in staged' /\ \E k \in DOMAIN Pending' : Pending'[k] = r
          BY <2>2, <2>4, <2>8, <3>3
        <4> QED
          BY <4>1 DEF Apart
      <3>4. ASSUME NEW k \in DOMAIN c, NEW m \in DOMAIN c, At(i, k), At(j, m)
            PROVE  Apart(r, blob)'
        <4>1. k # m /\ c[k] = r /\ c[m] = blob
          BY <2>8, <3>4
        <4> QED
          BY <2>4, <4>1 DEF Apart
      <3> QED
        BY <2>5, <3>1, <3>2, <3>3, <3>4
    <2>9. ASSUME NEW r, NEW blob, SameKey(r, blob), Apart(r, blob)
          PROVE  Apart(r, blob)'
      <3>1. CASE r \in staged /\ \E j \in DOMAIN Pending : Pending[j] = blob
        BY <2>7, <2>9, <3>1 DEF Apart
      <3>2. CASE blob \in staged /\ \E i \in DOMAIN Pending : Pending[i] = r
        BY <2>7, <2>9, <3>2 DEF Apart
      <3>3. CASE \E i, j \in DOMAIN Pending : i # j /\ Pending[i] = r /\ Pending[j] = blob
        BY <2>8, <2>9, <3>3
      <3> QED
        BY <2>9, <3>1, <3>2, <3>3 DEF Apart
    <2>10. Staging'
      <3>1. /\ \A f \in Files : \A i \in DOMAIN files[f] :
                 Sent(f, i) =>
                   files[f][i] \in staged \/ \E k \in DOMAIN Pending : Pending[k] = files[f][i]
            /\ \A f, g \in Files : \A i \in DOMAIN files[f], j \in DOMAIN files[g] :
                 /\ Sent(f, i) /\ Sent(g, j) /\ <<f, i>> # <<g, j>>
                 /\ SameKey(files[f][i], files[g][j])
                 => Apart(files[f][i], files[g][j])
        BY <1>1 DEF ImportInv, Staging
      <3>2. \A f, i : Sent(f, i)' = Sent(f, i)
        BY <1>1 DEF Sent
      <3>3. ASSUME NEW f \in Files, NEW i \in DOMAIN files[f], Sent(f, i)
            PROVE  files[f][i] \in staged' \/ \E k \in DOMAIN Pending' : Pending'[k] = files[f][i]
        BY <2>2, <2>6, <3>1, <3>3
      <3>4. ASSUME NEW f \in Files, NEW g \in Files,
                   NEW i \in DOMAIN files[f], NEW j \in DOMAIN files[g],
                   Sent(f, i), Sent(g, j), <<f, i>> # <<g, j>>,
                   SameKey(files[f][i], files[g][j])
            PROVE  Apart(files[f][i], files[g][j])'
        <4> SUFFICES ASSUME NEW r, NEW blob, r = files[f][i], blob = files[g][j]
                     PROVE  Apart(r, blob)'
          BY <1>1
        <4> QED
          BY <2>9, <3>1, <3>4
      <3> QED
        BY <1>1, <1>2, <3>2, <3>3, <3>4 DEF Staging, SameKey
    <2> QED
      BY <1>4, <1>6, <2>3, <2>10 DEF ImportInv
  <1> QED
    BY <1>3, <1>7, <1>8

\* What Import does leaves the goroutines of Ingest alone.
LEMMA ImportKeeps ==
  ASSUME ImportInv, Import \/ Cancel \/ UNCHANGED vars
  PROVE  ImportInv'
  <1>1. UNCHANGED ingestVars
    BY DEF Import, CloseRows, Ingested, BeginPackage, FinalizePackage, Write, NormalizeDone,
           FinalizeDone, Cancel, vars
  <1>2. Files' = Files /\ AllRows' = AllRows /\ Blobs' = Blobs /\ Walked' = Walked
    BY <1>1 DEF ingestVars, Files, AllRows, Blobs, Walked
  <1>3. Reading'
    BY <1>1, <1>2 DEF ingestVars, ImportInv, Reading
  <1>4. Staging' /\ StagedFit'
    <2>1. \A f \in Files : \A i \in DOMAIN files[f] : Sent(f, i)' => Sent(f, i)
      BY <1>1 DEF ingestVars, Sent
    <2> QED
      BY <1>1, <2>1, QuietStep DEF ingestVars
  <1>5. Joining'
    <2>1. \/ phase' = phase
          \/ phase = "ingest" /\ Walked /\ phase' = "closed"
          \/ /\ phase = "closed" /\ writer.status \in {"ok", "failed"}
             /\ \/ phase' = "returned"
                \/ phase' = "normalize" /\ ~WalkFailed /\ writer.status # "failed"
          \/ phase \in {"normalize", "finalize"} /\ phase' \in {"finalize", "returned"}
      BY DEF Import, CloseRows, Ingested, BeginPackage, FinalizePackage, Write, NormalizeDone,
             FinalizeDone, Return, Cancel, vars
    <2>2. UNCHANGED <<rowCh, writer, walker>>
      BY <1>1 DEF ingestVars
    <2>3. phase = "closed" /\ ~WalkFailed => \A f \in Files : walker[f].status = "done"
      BY DEF ImportInv, Joining, Walked, WalkFailed
    <2> QED
      BY <1>2, <2>1, <2>2, <2>3 DEF ImportInv, Joining
  <1> QED
    BY <1>3, <1>4, <1>5 DEF ImportInv

LEMMA ImportInit == Init => ImportInv
  <1> SUFFICES ASSUME Init PROVE ImportInv
    OBVIOUS
  <1>1. /\ files \in Inputs /\ walker = [f \in Files |-> [read |-> 0, status |-> "ready"]]
        /\ rowCh = <<>> /\ writer = [batch |-> <<>>, status |-> "reading"]
        /\ staged = {} /\ phase = "ingest"
    BY DEF Init, Files
  <1>2. Joining
    BY <1>1 DEF Joining
  <1>3. Reading
    <2>1. <<>> \in Seq(AllRows)
      BY EmptySeq
    <2>2. \A f \in Files : Len(files[f]) \in Nat
      BY <1>1, ImportAssumption, LenProperties DEF Files
    <2> QED
      BY <1>1, <2>1, <2>2 DEF Reading
  <1>4. \A f \in Files : \A i \in DOMAIN files[f] : ~Sent(f, i)
    <2>1. \A f \in Files : DOMAIN files[f] = 1 .. Len(files[f]) /\ Len(files[f]) \in Nat
      BY <1>3, FileBlobs
    <2>2. \A f \in Files : walker[f].read = 0
      BY <1>1
    <2> QED
      BY <2>1, <2>2 DEF Sent
  <1>5. Staging
    BY <1>4 DEF Staging
  <1> QED
    BY <1>1, <1>2, <1>3, <1>5 DEF ImportInv, StagedFit

\* ImportInv is inductive.
LEMMA ImportStep == ImportInv /\ [Next]_vars => ImportInv'
  <1> SUFFICES ASSUME ImportInv, [Next]_vars
               PROVE  ImportInv'
    OBVIOUS
  <1>1. ASSUME NEW f \in Files, Walk(f)
        PROVE  ImportInv'
    <2>1. CASE SendRow(f)
      BY <2>1, SendKeeps
    <2>2. CASE Start(f) \/ Abandon(f) \/ SkipBlob(f) \/ SendCancelled(f) \/ EndOfFile(f)
      BY <2>2, WalkKeeps
    <2> QED
      BY <1>1, <2>1, <2>2 DEF Walk
  <1>2. CASE ReceiveRow
    BY <1>2, ReceiveKeeps
  <1>3. CASE Flush
    BY <1>3, FlushKeeps
  <1>4. CASE Import \/ Cancel \/ UNCHANGED vars
    BY <1>4, ImportKeeps
  <1> QED
    BY <1>1, <1>2, <1>3, <1>4 DEF Next

\* When all rows are sent and none is on its way, the tables have them.
LEMMA AllStaged == ImportInv => EveryRowStaged
  <1> SUFFICES ASSUME ImportInv, phase \in {"normalize", "finalize"}
               PROVE  RowsFit /\ staged = AllRows
    BY DEF EveryRowStaged
  <1>1. /\ writer.status = "ok" /\ rowCh = <<>> /\ writer.batch = <<>>
        /\ \A f \in Files : walker[f].read = Len(files[f])
    BY DEF ImportInv, Joining, Reading
  <1>2. DOMAIN Pending = {}
    <2>1. Pending = <<>> \o <<>>
      BY <1>1 DEF Pending
    <2>2. <<>> \o <<>> = <<>>
      BY ConcatEmptySeq, EmptySeq
    <2> QED
      BY <2>1, <2>2
  <1>3. \A f \in Files : \A i \in DOMAIN files[f] : HasRow(files[f][i]) => Sent(f, i)
    BY <1>1, FileBlobs DEF ImportInv, Sent
  <1>4. \A f \in Files : \A i \in DOMAIN files[f] :
          HasRow(files[f][i]) => files[f][i] \in staged
    BY <1>1, <1>2, <1>3 DEF ImportInv, Staging
  <1>5. staged = AllRows
    BY <1>4 DEF AllRows, Blobs, ImportInv, Reading
  <1>6. \A f \in Files : \A i \in DOMAIN files[f] : ~RowFails({}, files[f][i])
    BY <1>4 DEF ImportInv, StagedFit, RowFails, HasRow
  <1>7. ASSUME NEW f \in Files, NEW g \in Files,
               NEW i \in DOMAIN files[f], NEW j \in DOMAIN files[g], <<f, i>> # <<g, j>>
        PROVE  ~SameKey(files[f][i], files[g][j])
    <2> SUFFICES ASSUME SameKey(files[f][i], files[g][j])
                 PROVE  FALSE
      OBVIOUS
    <2>1. HasRow(files[f][i]) /\ HasRow(files[g][j])
      BY DEF SameKey, HasRow
    <2>2. Apart(files[f][i], files[g][j])
      BY <1>1, <1>3, <1>7, <2>1 DEF ImportInv, Staging
    <2> QED
      BY <1>2, <2>2 DEF Apart
  <1>8. RowsFit
    <2>1. \A r, blob : RowFails({r}, blob) => SameKey(r, blob) \/ RowFails({}, blob)
      BY DEF RowFails, SameKey
    <2>2. \A f, g \in Files : \A i \in DOMAIN files[f], j \in DOMAIN files[g] :
            <<f, i>> # <<g, j>> => ~RowFails({files[f][i]}, files[g][j])
      BY <1>6, <1>7, <2>1
    <2>3. \A blob \in Blobs : ~RowFails({}, blob)
      BY <1>6 DEF Blobs
    <2> QED
      BY <2>2, <2>3 DEF RowsFit
  <1> QED
    BY <1>5, <1>8

-----------------------------------------------------------------------------
(***************************************************************************)
(* What is written for a package.                                          *)
(***************************************************************************)

\* What the walk and the validation accept.
Allowed(pkg) == ~MalformedOf(pkg) /\ ValidPackage(AllRows, pkg)

\* A write makes no graph that is not of the package.
IsWrite(o, pkg) == o.op \in Operations /\ (o.op = "graph" => o.path[1] = pkg)

WritesFor(s, pkg) == s \in Seq(ToSet(s)) /\ \A i \in DOMAIN s : IsWrite(s[i], pkg)

\* The errors of the blobs that were read are recorded.
Recorded ==
  \A f \in Files : \A i \in DOMAIN files[f] :
    i <= walker[f].read /\ files[f][i].kind = "malformed" => files[f][i].pkg \in errs

\* The writes that are left, and the graphs that are written, are of accepted packages.
Writing ==
  /\ current = [pkg |-> current.pkg, writes |-> current.writes]
  /\ current = Idle \/ (WritesFor(current.writes, current.pkg) /\ Allowed(current.pkg))

Written ==
  /\ "graphs" \in DOMAIN content
  /\ \A g \in content.graphs : "path" \in DOMAIN g /\ Allowed(g.path[1])

RefusalInv == Recorded /\ IsFiniteSet(staged) /\ Writing /\ Written

\* The elements of a sequence are in the set of its elements.
LEMMA OwnElements ==
  ASSUME NEW s, NEW n \in Nat, s = [i \in 1 .. n |-> s[i]]
  PROVE  s \in Seq(ToSet(s)) /\ Len(s) = n /\ DOMAIN s = 1 .. n
  <1>1. DOMAIN s = 1 .. n
    OBVIOUS
  <1>2. s \in [1 .. n -> ToSet(s)]
    BY <1>1 DEF ToSet
  <1> QED
    BY <1>1, <1>2

LEMMA MappedWrites ==
  ASSUME NEW pkg, NEW s, NEW n \in Nat, s = [i \in 1 .. n |-> s[i]],
         \A i \in 1 .. n : IsWrite(s[i], pkg)
  PROVE  WritesFor(s, pkg)
  BY OwnElements DEF WritesFor

LEMMA NoWrites ==
  ASSUME NEW pkg
  PROVE  WritesFor(<<>>, pkg)
  <1>1. <<>> \in Seq(ToSet(<<>>)) /\ DOMAIN <<>> = {}
    BY EmptySeq
  <1> QED
    BY <1>1 DEF WritesFor

LEMMA OneWrite ==
  ASSUME NEW pkg, NEW o, IsWrite(o, pkg)
  PROVE  WritesFor(<<o>>, pkg)
  <1> DEFINE s == <<o>>
  <1>1. s = [i \in 1 .. 1 |-> s[i]] /\ s[1] = o /\ 1 \in Nat
    OBVIOUS
  <1> HIDE DEF s
  <1>2. \A i \in 1 .. 1 : IsWrite(s[i], pkg)
    BY <1>1
  <1>3. WritesFor(s, pkg)
    BY <1>1, <1>2, MappedWrites
  <1> QED
    BY <1>3 DEF s

\* Writes after writes.
LEMMA JoinedWrites ==
  ASSUME NEW pkg, NEW b, NEW c, WritesFor(b, pkg), WritesFor(c, pkg)
  PROVE  WritesFor(b \o c, pkg)
  <1> DEFINE S == ToSet(b) \cup ToSet(c)
             s == b \o c
  <1>1. b \in Seq(S) /\ c \in Seq(S)
    BY SeqMonotonic DEF WritesFor
  <1>2. /\ s \in Seq(S) /\ Len(s) = Len(b) + Len(c) /\ Len(b) \in Nat /\ Len(c) \in Nat
        /\ DOMAIN s = 1 .. (Len(b) + Len(c))
        /\ \A i \in 1 .. Len(b) + Len(c) :
             s[i] = IF i <= Len(b) THEN b[i] ELSE c[i - Len(b)]
        /\ DOMAIN b = 1 .. Len(b) /\ DOMAIN c = 1 .. Len(c)
    BY <1>1, ConcatProperties, LenProperties
  <1> HIDE DEF S, s
  <1>3. ASSUME NEW i \in 1 .. (Len(b) + Len(c))
        PROVE  IsWrite(s[i], pkg)
    <2>1. CASE i <= Len(b)
      BY <1>2, <2>1 DEF WritesFor
    <2>2. CASE ~(i <= Len(b))
      <3>1. i - Len(b) \in DOMAIN c /\ s[i] = c[i - Len(b)]
        BY <1>2, <2>2
      <3> QED
        BY <3>1 DEF WritesFor
    <2> QED
      BY <2>1, <2>2
  <1>4. s = [i \in 1 .. (Len(b) + Len(c)) |-> s[i]] /\ Len(b) + Len(c) \in Nat
    <2>1. s \in [1 .. Len(s) -> S]
      BY <1>2, LenProperties
    <2> QED
      BY <1>2, <2>1
  <1>5. WritesFor(s, pkg)
    BY <1>3, <1>4, MappedWrites
  <1> QED
    BY <1>5 DEF s

\* The writes that are left after the first.
LEMMA WritesLeft ==
  ASSUME NEW pkg, NEW s, WritesFor(s, pkg), s # <<>>
  PROVE  IsWrite(Head(s), pkg) /\ WritesFor(Tail(s), pkg)
  <1>1. PICK S : S = ToSet(s) /\ s \in Seq(S)
    BY DEF WritesFor
  <1>2. Len(s) \in Nat \ {0} /\ DOMAIN s = 1 .. Len(s) /\ Head(s) = s[1]
    BY <1>1, EmptySeq, LenProperties
  <1>3. /\ Tail(s) \in Seq(S) /\ Len(Tail(s)) = Len(s) - 1
        /\ \A i \in 1 .. Len(Tail(s)) : Tail(s)[i] = s[i + 1]
    BY <1>1, HeadTailProperties
  <1> DEFINE t == Tail(s)
  <1> HIDE DEF t
  <1>4. t \in Seq(S) /\ Len(t) = Len(s) - 1 /\ \A i \in 1 .. Len(t) : t[i] = s[i + 1]
    BY <1>3 DEF t
  <1>5. t = [i \in 1 .. Len(t) |-> t[i]] /\ Len(t) \in Nat
    BY <1>4, LenProperties
  <1>6. \A i \in 1 .. Len(t) : IsWrite(t[i], pkg)
    BY <1>2, <1>4 DEF WritesFor
  <1>7. WritesFor(t, pkg)
    BY <1>5, <1>6, MappedWrites
  <1> QED
    BY <1>2, <1>7 DEF t, WritesFor

\* What is there after n sequences.
Flattening(f, seqs, N) ==
  f[1] = seqs[1] /\ \A n \in 2 .. N : f[n] = f[n - 1] \o seqs[n]

\* FlattenSeq puts one sequence after another.
LEMMA FlattenSteps ==
  ASSUME NEW N \in Nat \ {0}, NEW seqs, Len(seqs) = N
  PROVE  \E f : FlattenSeq(seqs) = f[N] /\ Flattening(f, seqs, N)
  <1> DEFINE Step(v, n) == v \o seqs[n]
             Body(f, m) == [n \in 1 .. m |-> IF n = 1 THEN seqs[n] ELSE Step(f[n - 1], n)]
             G == {m \in 0 .. N : \E f : f = Body(f, m)}
  <1>1. FlattenSeq(seqs) = (CHOOSE f : f = Body(f, N))[N]
    BY DEF FlattenSeq
  <1> HIDE DEF Step
  <1>2. 0 \in G
    <2> DEFINE f == [n \in 1 .. 0 |-> seqs[n]]
    <2>1. f = Body(f, 0)
      OBVIOUS
    <2> HIDE DEF f, Body
    <2> QED
      BY <2>1
  <1>3. ASSUME NEW m \in 0 .. N, m < N, m \in G
        PROVE  m + 1 \in G
    <2>1. PICK f : f = Body(f, m)
      BY <1>3
    <2> DEFINE g == [n \in 1 .. (m + 1) |-> IF n <= m THEN f[n]
                                            ELSE IF n = 1 THEN seqs[n] ELSE Step(f[m], n)]
    <2>2. \A n \in 1 .. m : f[n] = IF n = 1 THEN seqs[n] ELSE Step(f[n - 1], n)
      BY <2>1
    <2>3. ASSUME NEW n \in 1 .. (m + 1)
          PROVE  g[n] = IF n = 1 THEN seqs[n] ELSE Step(g[n - 1], n)
      <3>1. CASE n = 1
        BY <2>2, <3>1
      <3>2. CASE n # 1 /\ n <= m
        <4>1. n - 1 \in 1 .. m /\ n \in 1 .. m /\ n - 1 \in 1 .. (m + 1)
          BY <3>2
        <4>2. g[n - 1] = f[n - 1] /\ g[n] = f[n]
          BY <4>1
        <4> QED
          BY <2>2, <3>2, <4>1, <4>2
      <3>3. CASE n # 1 /\ n = m + 1
        <4>1. n - 1 = m /\ n - 1 \in 1 .. (m + 1) /\ ~(n <= m) /\ m \in 1 .. m
          BY <3>3
        <4>2. g[n - 1] = f[m] /\ g[n] = Step(f[m], n)
          BY <3>3, <4>1
        <4> QED
          BY <3>3, <4>2
      <3> QED
        BY <3>1, <3>2, <3>3
    <2>4. g = Body(g, m + 1)
      <3> DEFINE h == Body(g, m + 1)
      <3>1. \A n \in 1 .. (m + 1) : h[n] = g[n]
        BY <2>3
      <3>2. h = [n \in 1 .. (m + 1) |-> h[n]] /\ g = [n \in 1 .. (m + 1) |-> g[n]]
        OBVIOUS
      <3> HIDE DEF g, h
      <3>3. g = h
        BY <3>1, <3>2
      <3> QED
        BY <3>3 DEF h
    <2>5. m + 1 \in 0 .. N
      BY <1>3
    <2> HIDE DEF g, Body
    <2> QED
      BY <2>4, <2>5
  <1>4. \E f : f = Body(f, N)
    <2> HIDE DEF G
    <2>1. \A m \in 0 .. N : m \in G
      BY <1>2, <1>3, UpTo
    <2>2. N \in G
      BY <2>1
    <2> HIDE DEF Body
    <2> QED
      BY <2>2 DEF G
  <1>5. PICK f : f = (CHOOSE h : h = Body(h, N)) /\ f = Body(f, N)
    <2> HIDE DEF Body
    <2> DEFINE c == CHOOSE h : h = Body(h, N)
    <2>1. c = Body(c, N)
      BY <1>4, Zenon
    <2> QED
      BY <2>1, Zenon
  <1>6. f[1] = seqs[1] /\ \A n \in 2 .. N : f[n] = Step(f[n - 1], n)
    <2>1. f = Body(f, N)
      BY <1>5
    <2>2. \A n \in 1 .. N : f[n] = IF n = 1 THEN seqs[n] ELSE Step(f[n - 1], n)
      BY <2>1
    <2> QED
      BY <2>2
  <1>7. FlattenSeq(seqs) = f[N]
    BY <1>1, <1>5
  <1>8. Flattening(f, seqs, N)
    BY <1>6 DEF Step, Flattening
  <1> QED
    BY <1>7, <1>8

LEMMA FlattenedWrites ==
  ASSUME NEW pkg, NEW seqs, NEW n \in Nat, seqs = [i \in 1 .. n |-> seqs[i]],
         \A i \in 1 .. n : WritesFor(seqs[i], pkg)
  PROVE  WritesFor(FlattenSeq(seqs), pkg)
  <1>1. Len(seqs) = n
    BY OwnElements
  <1>2. CASE n = 0
    <2>1. FlattenSeq(seqs) = seqs
      BY <1>1, <1>2 DEF FlattenSeq
    <2>2. \A i \in 1 .. n : IsWrite(seqs[i], pkg)
      BY <1>2
    <2> QED
      BY <2>1, <2>2, MappedWrites
  <1>3. CASE n # 0
    <2> PICK f : FlattenSeq(seqs) = f[n] /\ Flattening(f, seqs, n)
      <3>1. n \in Nat \ {0}
        BY <1>3
      <3> QED
        BY <1>1, <3>1, FlattenSteps
    <2>1. /\ f[1] = seqs[1] /\ FlattenSeq(seqs) = f[n]
          /\ \A i \in 2 .. n : f[i] = f[i - 1] \o seqs[i]
      BY DEF Flattening
    <2> DEFINE G == {m \in 0 .. n : m # 0 => WritesFor(f[m], pkg)}
    <2>2. 0 \in G
      OBVIOUS
    <2>3. ASSUME NEW m \in 0 .. n, m < n, m \in G
          PROVE  m + 1 \in G
      <3>1. CASE m = 0
        BY <1>3, <2>1, <3>1
      <3>2. CASE m # 0
        <4>1. m + 1 \in 2 .. n /\ m + 1 \in 1 .. n /\ (m + 1) - 1 = m
          BY <2>3, <3>2
        <4>2. f[m + 1] = f[m] \o seqs[m + 1]
          BY <2>1, <4>1
        <4>3. WritesFor(f[m + 1], pkg)
          BY <2>3, <3>2, <4>1, <4>2, JoinedWrites
        <4> QED
          BY <4>1, <4>3
      <3> QED
        BY <3>1, <3>2
    <2> HIDE DEF G
    <2>4. \A m \in 0 .. n : m \in G
      BY <2>2, <2>3, UpTo
    <2>5. n \in G
      BY <2>4
    <2> QED
      BY <1>3, <2>1, <2>5 DEF G
  <1> QED
    BY <1>2, <1>3

\* A row is staged as Normalize reads it: its lists are lists.
Listed(ch) ==
  /\ ch.entries \in Seq(ToSet(ch.entries))
  /\ \A k \in DOMAIN ch.entries : IsFiniteSet(ch.entries[k].skips)

\* writeChannelSuccessors writes no graph.
LEMMA EntryIsWritten ==
  ASSUME NEW pkg, NEW path, NEW e, IsFiniteSet(e.skips)
  PROVE  WritesFor(EntryWrites(path, e), pkg)
  <1> DEFINE from == (IF e.replaces = None THEN {} ELSE {e.replaces}) \cup e.skips
             n == Cardinality(from)
             edge(b) == << [op |-> "bundle", bundle |-> b, version |-> NoVersion],
                           [op |-> "edge", path |-> path, from |-> b, to |-> e.bundle] >>
             seqs == [i \in 1 .. n |-> edge(SetToSeq(from)[i])]
             last == IF e.range = None THEN <<>>
                     ELSE << [op |-> "range", path |-> path, bundle |-> e.bundle,
                              versions |-> e.range] >>
  <1>1. EntryWrites(path, e) = FlattenSeq(seqs) \o last
    BY DEF EntryWrites
  <1>2. n \in Nat
    <2>1. IsFiniteSet(from)
      BY FS_EmptySet, FS_Singleton, FS_Union
    <2> QED
      BY <2>1, FS_CardinalityType
  <1>3. \A b : WritesFor(edge(b), pkg)
    <2> TAKE b
    <2> DEFINE s == edge(b)
    <2>1. /\ s = [i \in 1 .. 2 |-> s[i]]
          /\ s[1] = [op |-> "bundle", bundle |-> b, version |-> NoVersion]
          /\ s[2] = [op |-> "edge", path |-> path, from |-> b, to |-> e.bundle]
      OBVIOUS
    <2>2. IsWrite(s[1], pkg) /\ IsWrite(s[2], pkg)
      BY <2>1 DEF IsWrite, Operations
    <2> HIDE DEF s
    <2>3. \A i \in 1 .. 2 : IsWrite(s[i], pkg)
      BY <2>2
    <2>4. WritesFor(s, pkg)
      BY <2>1, <2>3, MappedWrites
    <2> QED
      BY <2>4 DEF s
  <1>4. WritesFor(last, pkg)
    <2>1. CASE e.range = None
      BY <2>1, NoWrites
    <2>2. CASE e.range # None
      <3> DEFINE o == [op |-> "range", path |-> path, bundle |-> e.bundle, versions |-> e.range]
      <3>1. IsWrite(o, pkg)
        BY DEF IsWrite, Operations
      <3>2. last = <<o>>
        BY <2>2
      <3> HIDE DEF o, last
      <3> QED
        BY <3>1, <3>2, OneWrite
    <2> QED
      BY <2>1, <2>2
  <1> HIDE DEF edge, n, last
  <1>5. seqs = [i \in 1 .. n |-> seqs[i]] /\ \A i \in 1 .. n : WritesFor(seqs[i], pkg)
    BY <1>3
  <1> HIDE DEF seqs
  <1>6. WritesFor(FlattenSeq(seqs), pkg)
    BY <1>2, <1>5, FlattenedWrites
  <1>7. WritesFor(FlattenSeq(seqs) \o last, pkg)
    BY <1>4, <1>6, JoinedWrites
  <1> QED
    BY <1>1, <1>7

\* writeChannel makes the graph of the channel, which is of the package.
LEMMA ChannelIsWritten ==
  ASSUME NEW ch, Listed(ch)
  PROVE  WritesFor(ChannelWrites(ch), ch.pkg)
  <1> DEFINE path == <<ch.pkg, ch.name>>
             n == Len(ch.entries)
             graph == [op |-> "graph", path |-> path]
             members == [i \in 1 .. n |-> [op |-> "member", path |-> path,
                                           bundle |-> ch.entries[i].bundle]]
             seqs == [i \in 1 .. n |-> EntryWrites(path, ch.entries[i])]
  <1>1. ChannelWrites(ch) = <<graph>> \o members \o FlattenSeq(seqs)
    BY DEF ChannelWrites
  <1>2. n \in Nat /\ DOMAIN ch.entries = 1 .. n
    BY LenProperties DEF Listed
  <1>3. WritesFor(<<graph>>, ch.pkg)
    <2>1. IsWrite(graph, ch.pkg)
      BY DEF IsWrite, Operations
    <2> HIDE DEF graph
    <2> QED
      BY <2>1, OneWrite
  <1>4. WritesFor(members, ch.pkg)
    <2>1. \A i \in 1 .. n : members[i] = [op |-> "member", path |-> path,
                                          bundle |-> ch.entries[i].bundle]
      OBVIOUS
    <2>2. \A i \in 1 .. n : IsWrite(members[i], ch.pkg)
      <3>1. \A b : IsWrite([op |-> "member", path |-> path, bundle |-> b], ch.pkg)
        BY DEF IsWrite, Operations
      <3> HIDE DEF members, n, path
      <3> QED
        BY <2>1, <3>1
    <2>3. members = [i \in 1 .. n |-> members[i]]
      OBVIOUS
    <2> HIDE DEF members, n
    <2> QED
      BY <1>2, <2>2, <2>3, MappedWrites
  <1>5. WritesFor(FlattenSeq(seqs), ch.pkg)
    <2>1. seqs = [i \in 1 .. n |-> seqs[i]]
      OBVIOUS
    <2>2. ASSUME NEW i \in 1 .. n
          PROVE  WritesFor(seqs[i], ch.pkg)
      <3>1. IsFiniteSet(ch.entries[i].skips)
        BY <1>2 DEF Listed
      <3>2. WritesFor(EntryWrites(path, ch.entries[i]), ch.pkg)
        BY <3>1, EntryIsWritten
      <3> QED
        BY <3>2
    <2> HIDE DEF seqs, n
    <2> QED
      BY <1>2, <2>1, <2>2, FlattenedWrites
  <1> HIDE DEF graph, members, seqs
  <1>6. WritesFor(<<graph>> \o members, ch.pkg)
    BY <1>3, <1>4, JoinedWrites
  <1>7. WritesFor((<<graph>> \o members) \o FlattenSeq(seqs), ch.pkg)
    BY <1>5, <1>6, JoinedWrites
  <1> QED
    BY <1>1, <1>7

\* The rows of a set, in the order in which they are read.
LEMMA RowsRead ==
  ASSUME NEW S, IsFiniteSet(S)
  PROVE  \E n \in Nat : /\ DOMAIN SetToSeq(S) = 1 .. n
                        /\ \A i \in 1 .. n : SetToSeq(S)[i] \in S
  <1>1. SetToSeq(S) \in [1 .. Cardinality(S) -> S] /\ Cardinality(S) \in Nat
    BY RowsInOrder
  <1> QED
    BY <1>1

\* writePackage makes the graphs of the package, and no others.
LEMMA PackageIsWritten ==
  ASSUME NEW rows, IsFiniteSet(rows), NEW pkg,
         \A ch \in StagedOf(rows, "channel", pkg) : Listed(ch)
  PROVE  WritesFor(PackageWrites(rows, pkg), pkg)
  <1> DEFINE bundles == SetToSeq(StagedOf(rows, "bundle", pkg))
             channels == SetToSeq(StagedOf(rows, "channel", pkg))
             deprecations == SetToSeq({r \in StagedOf(rows, "deprecation", pkg) :
                                         r.schema \in {"package", "channel", "bundle"}})
             graph == [op |-> "graph", path |-> <<pkg>>]
             first == [i \in DOMAIN bundles |-> [op |-> "bundle", bundle |-> bundles[i].name,
                                                 version |-> bundles[i].version]]
             seqs == [i \in DOMAIN channels |-> ChannelWrites(channels[i])]
             last == [i \in DOMAIN deprecations |-> DeprecationWrite(deprecations[i])]
  <1>1. PackageWrites(rows, pkg) = <<graph>> \o first \o FlattenSeq(seqs) \o last
    BY DEF PackageWrites
  <1>2. \A kind : IsFiniteSet(StagedOf(rows, kind, pkg))
    BY FS_Subset DEF StagedOf
  <1>3. WritesFor(<<graph>>, pkg)
    <2>1. IsWrite(graph, pkg)
      BY DEF IsWrite, Operations
    <2> HIDE DEF graph
    <2> QED
      BY <2>1, OneWrite
  <1>4. WritesFor(first, pkg)
    <2>1. PICK n \in Nat : DOMAIN bundles = 1 .. n
      BY <1>2, RowsRead
    <2>2. \A i \in 1 .. n : first[i] = [op |-> "bundle", bundle |-> bundles[i].name,
                                        version |-> bundles[i].version]
      BY <2>1
    <2>3. first = [i \in 1 .. n |-> first[i]]
      BY <2>1
    <2> HIDE DEF first, bundles
    <2>4. \A i \in 1 .. n : IsWrite(first[i], pkg)
      <3>1. \A b, v : IsWrite([op |-> "bundle", bundle |-> b, version |-> v], pkg)
        BY DEF IsWrite, Operations
      <3> QED
        BY <2>2, <3>1
    <2> QED
      BY <2>3, <2>4, MappedWrites
  <1>5. WritesFor(FlattenSeq(seqs), pkg)
    <2>1. PICK n \in Nat : /\ DOMAIN channels = 1 .. n
                           /\ \A i \in 1 .. n : channels[i] \in StagedOf(rows, "channel", pkg)
      BY <1>2, RowsRead
    <2>2. seqs = [i \in 1 .. n |-> seqs[i]] /\ \A i \in 1 .. n : seqs[i] = ChannelWrites(channels[i])
      BY <2>1
    <2> HIDE DEF seqs, channels
    <2>3. ASSUME NEW i \in 1 .. n
          PROVE  WritesFor(seqs[i], pkg)
      <3>1. Listed(channels[i]) /\ channels[i].pkg = pkg
        BY <2>1 DEF StagedOf
      <3>2. WritesFor(ChannelWrites(channels[i]), channels[i].pkg)
        BY <3>1, ChannelIsWritten
      <3> QED
        BY <2>2, <3>1, <3>2
    <2> QED
      BY <2>2, <2>3, FlattenedWrites
  <1>6. WritesFor(last, pkg)
    <2>1. PICK n \in Nat : DOMAIN deprecations = 1 .. n
      <3>1. IsFiniteSet({r \in StagedOf(rows, "deprecation", pkg) :
                           r.schema \in {"package", "channel", "bundle"}})
        BY <1>2, FS_Subset
      <3> QED
        BY <3>1, RowsRead
    <2>2. last = [i \in 1 .. n |-> last[i]]
          /\ \A i \in 1 .. n : last[i] = DeprecationWrite(deprecations[i])
      BY <2>1
    <2> HIDE DEF last, deprecations
    <2>3. \A r : IsWrite(DeprecationWrite(r), pkg)
      BY DEF IsWrite, Operations, DeprecationWrite
    <2>4. \A i \in 1 .. n : IsWrite(last[i], pkg)
      BY <2>2, <2>3
    <2> QED
      BY <2>2, <2>4, MappedWrites
  <1> HIDE DEF graph, first, seqs, last
  <1>7. WritesFor(<<graph>> \o first, pkg)
    BY <1>3, <1>4, JoinedWrites
  <1>8. WritesFor((<<graph>> \o first) \o FlattenSeq(seqs), pkg)
    BY <1>5, <1>7, JoinedWrites
  <1>9. WritesFor(((<<graph>> \o first) \o FlattenSeq(seqs)) \o last, pkg)
    BY <1>6, <1>8, JoinedWrites
  <1> QED
    BY <1>1, <1>9

-----------------------------------------------------------------------------
(***************************************************************************)
(* What a write makes of the graphs.                                       *)
(***************************************************************************)

\* The paths stay, and one that is new is of the package.
PathsOf(e, d, pkg) ==
  /\ "graphs" \in DOMAIN e
  /\ \A g \in e.graphs :
       /\ "path" \in DOMAIN g
       /\ (\E h \in d.graphs : h.path = g.path) \/ g.path[1] = pkg

LEMMA ApplyPaths ==
  ASSUME NEW d, "graphs" \in DOMAIN d, \A g \in d.graphs : "path" \in DOMAIN g,
         NEW k, NEW o, NEW pkg, IsWrite(o, pkg),
         NEW e, e = Apply(d, Catalog, k, o), e # Failed
  PROVE  PathsOf(e, d, pkg)
  <1>1. ASSUME e.graphs = d.graphs, "graphs" \in DOMAIN e
        PROVE  PathsOf(e, d, pkg)
    BY <1>1 DEF PathsOf
  <1>2. CASE o.op = "bundle"
    <2>1. e = InsertBundle(d, Catalog, k, o.bundle, o.version)
      BY <1>2 DEF Apply
    <2> QED
      BY <1>1, <2>1 DEF InsertBundle
  <1>3. CASE o.op = "graph"
    <2>1. e = CreateGraph(d, Catalog, k, o.path)
      BY <1>3 DEF Apply
    <2>2. o.path[1] = pkg
      BY <1>3 DEF IsWrite
    <2>3. PICK row : /\ "path" \in DOMAIN row /\ row.path = o.path
                     /\ e.graphs = d.graphs \cup {row} /\ "graphs" \in DOMAIN e
      <3> DEFINE row(p) == [id |-> d.nextGraph, catalog |-> Catalog, path |-> o.path,
                            parent |-> p, deprecation |-> None, import |-> k]
      <3>1. \E p : e = [d EXCEPT !.graphs = @ \cup {row(p)}, !.nextGraph = @ + 1]
        BY <2>1 DEF CreateGraph
      <3>2. PICK p : e = [d EXCEPT !.graphs = @ \cup {row(p)}, !.nextGraph = @ + 1]
        BY <3>1
      <3>3. PICK x : x = row(p)
        OBVIOUS
      <3>4. "path" \in DOMAIN x /\ x.path = o.path
        BY <3>3
      <3>5. e.graphs = d.graphs \cup {x} /\ "graphs" \in DOMAIN e
        BY <3>2, <3>3
      <3> QED
        BY <3>4, <3>5
    <2> QED
      BY <2>2, <2>3 DEF PathsOf
  <1>4. CASE o.op = "member"
    <2>1. e = AddBundleToGraph(d, Catalog, o.path, o.bundle)
      BY <1>4 DEF Apply
    <2> QED
      BY <1>1, <2>1 DEF AddBundleToGraph
  <1>5. CASE o.op = "edge"
    <2>1. e = AddEdge(d, Catalog, o.path, o.from, o.to)
      BY <1>5 DEF Apply
    <2> QED
      BY <1>1, <2>1 DEF AddEdge
  <1>6. CASE o.op = "range"
    <2>1. e = AddPredecessorRange(d, Catalog, o.path, o.bundle, o.versions)
      BY <1>6 DEF Apply
    <2> QED
      BY <1>1, <2>1 DEF AddPredecessorRange
  <1>7. CASE o.op = "bundle prop"
    <2>1. e = SetBundleProperty(d, Catalog, o.bundle)
      BY <1>7 DEF Apply
    <2> QED
      BY <1>1, <2>1 DEF SetBundleProperty
  <1>8. CASE o.op = "graph prop"
    <2>1. e = SetGraphProperty(d, Catalog, o.path)
      BY <1>8 DEF Apply
    <2> QED
      BY <1>1, <2>1 DEF SetGraphProperty
  <1>9. CASE o.op = "deprecate graph"
    <2>1. e = SetGraphDeprecation(d, Catalog, o.path, o.message)
      BY <1>9 DEF Apply
    <2>2. /\ "graphs" \in DOMAIN e
          /\ \A g \in e.graphs : \E h \in d.graphs :
               g = h \/ g = [h EXCEPT !.deprecation = o.message]
      BY <2>1 DEF SetGraphDeprecation
    <2>3. \A h \in d.graphs :
            LET g == [h EXCEPT !.deprecation = o.message]
            IN  "path" \in DOMAIN g /\ g.path = h.path
      OBVIOUS
    <2> QED
      BY <2>2, <2>3 DEF PathsOf
  <1>10. CASE o.op = "deprecate bundle"
    <2>1. e = SetBundleDeprecation(d, Catalog, o.bundle, o.message)
      BY <1>10 DEF Apply
    <2> QED
      BY <1>1, <2>1 DEF SetBundleDeprecation
  <1> QED
    BY <1>2, <1>3, <1>4, <1>5, <1>6, <1>7, <1>8, <1>9, <1>10 DEF IsWrite, Operations

-----------------------------------------------------------------------------
(***************************************************************************)
(* What is refused is not written.                                         *)
(***************************************************************************)

\* The rows of the files are as the configuration of the importer reads them.
LEMMA RowsListed ==
  ASSUME Reading, NEW ch \in AllRows, ch.kind = "channel"
  PROVE  Listed(ch)
  <1>1. PICK f \in Files : \E i \in DOMAIN files[f] : ch = files[f][i]
    BY DEF AllRows, Blobs
  <1>2. PICK i \in DOMAIN files[f] : ch = files[f][i]
    BY <1>1
  <1>3. files \in Inputs /\ f \in DOMAIN files
    BY DEF Reading, Files
  <1>4. LET entries == files[f][i].entries
        IN  /\ entries \in Seq(ToSet(entries))
            /\ \A k \in DOMAIN entries : IsFiniteSet(entries[k].skips)
    BY <1>2, <1>3, ImportAssumption
  <1> QED
    BY <1>2, <1>4 DEF Listed

\* What is accepted depends on the files alone.
LEMMA SameFiles ==
  ASSUME UNCHANGED files
  PROVE  Files' = Files /\ AllRows' = AllRows /\ \A pkg : Allowed(pkg)' = Allowed(pkg)
  <1>1. Files' = Files
    BY DEF Files
  <1>2. Blobs' = Blobs
    BY <1>1 DEF Blobs
  <1>3. AllRows' = AllRows
    BY <1>2 DEF AllRows
  <1>4. \A pkg : MalformedOf(pkg)' = MalformedOf(pkg)
    BY <1>2 DEF MalformedOf
  <1> QED
    BY <1>1, <1>3, <1>4 DEF Allowed

\* A step that writes nothing.
LEMMA WritesStay ==
  ASSUME RefusalInv, UNCHANGED <<files, current, content>>
  PROVE  Writing' /\ Written'
  <1>1. \A pkg : Allowed(pkg)' = Allowed(pkg)
    BY SameFiles
  <1>2. Writing'
    BY <1>1 DEF RefusalInv, Writing, Idle, WritesFor, IsWrite
  <1>3. Written'
    BY <1>1 DEF RefusalInv, Written
  <1> QED
    BY <1>2, <1>3

\* A step that reads nothing forgets no error.
LEMMA ErrorsStay ==
  ASSUME RefusalInv, UNCHANGED <<files, walker>>, errs \subseteq errs'
  PROVE  Recorded'
  BY DEF RefusalInv, Recorded, Files

\* A walker passes no malformed blob without recording its error.
LEMMA WalkRecords ==
  ASSUME ImportInv, RefusalInv, NEW f \in Files, Walk(f)
  PROVE  RefusalInv'
  <1>1. UNCHANGED <<files, staged, current, content>>
    BY DEF Walk, Start, Abandon, SkipBlob, SendRow, SendCancelled, EndOfFile, laterVars
  <1>2. Writing' /\ Written'
    BY <1>1, WritesStay
  <1>3. errs \subseteq errs'
    BY DEF Walk, Start, Abandon, SkipBlob, SendRow, SendCancelled, EndOfFile, laterVars
  <1>4. walker \in [Files -> [read : Nat, status : {"ready", "walking", "done", "failed"}]]
    BY DEF ImportInv, Reading
  <1>5. \A g \in Files : DOMAIN files[g] = 1 .. Len(files[g]) /\ Len(files[g]) \in Nat
    BY FileBlobs DEF ImportInv
  <1>6. CASE \A g \in Files : walker'[g].read = walker[g].read
    <2>1. \A g \in Files : \A i \in DOMAIN files[g] :
            i <= walker'[g].read /\ files[g][i].kind = "malformed" => files[g][i].pkg \in errs'
      BY <1>3, <1>6 DEF RefusalInv, Recorded
    <2>2. Recorded'
      BY <1>1, <2>1 DEF Recorded, Files
    <2> QED
      BY <1>1, <1>2, <2>2 DEF RefusalInv
  <1>7. CASE /\ walker' = [walker EXCEPT ![f].read = @ + 1]
             /\ AtBlob(f)
             /\ BlobOf(f).kind = "malformed" => BlobOf(f).pkg \in errs'
    <2>1. \A g \in Files : walker'[g].read = IF g = f THEN walker[g].read + 1 ELSE walker[g].read
      BY <1>4, <1>7
    <2>2. BlobOf(f) = files[f][walker[f].read + 1] /\ walker[f].read \in Nat
      BY <1>7, AtRow DEF ImportInv
    <2>3. ASSUME NEW g \in Files, NEW i \in DOMAIN files[g],
                 i <= walker'[g].read, files[g][i].kind = "malformed"
          PROVE  files[g][i].pkg \in errs'
      <3>1. CASE i <= walker[g].read
        BY <1>3, <2>3, <3>1 DEF RefusalInv, Recorded
      <3>2. CASE g = f /\ i = walker[f].read + 1
        BY <1>7, <2>2, <2>3, <3>2
      <3>3. i \in Nat /\ walker[g].read \in Nat
        BY <1>4, <1>5
      <3> QED
        BY <2>1, <2>3, <3>1, <3>2, <3>3
    <2>4. Recorded'
      BY <1>1, <2>3 DEF Recorded, Files
    <2> QED
      BY <1>1, <1>2, <2>4 DEF RefusalInv
  <1>8. CASE \E st : walker' = [walker EXCEPT ![f].status = st]
    <2>1. \A g \in Files : walker'[g].read = walker[g].read
      BY <1>4, <1>8
    <2> QED
      BY <1>6, <2>1
  <1>9. CASE SkipBlob(f)
    BY <1>7, <1>8, <1>9 DEF SkipBlob
  <1>10. CASE SendRow(f)
    <2>1. BlobOf(f).kind # "malformed"
      BY <1>10 DEF SendRow, HasRow
    <2> QED
      BY <1>7, <1>10, <2>1 DEF SendRow
  <1>11. CASE Start(f) \/ Abandon(f) \/ SendCancelled(f) \/ EndOfFile(f)
    BY <1>8, <1>11 DEF Start, Abandon, SendCancelled, EndOfFile
  <1> QED
    BY <1>9, <1>10, <1>11 DEF Walk

\* The tables have what a finite number of batches brought.
LEMMA FlushKeepsFinite ==
  ASSUME ImportInv, RefusalInv, ReceiveRow \/ Flush
  PROVE  RefusalInv'
  <1>1. UNCHANGED <<files, walker, errs, current, content>>
    BY DEF ReceiveRow, Flush, laterVars
  <1>2. Writing' /\ Written' /\ Recorded'
    BY <1>1, WritesStay, ErrorsStay
  <1>3. IsFiniteSet(ToSet(writer.batch))
    <2>1. /\ DOMAIN writer.batch = 1 .. Len(writer.batch) /\ Len(writer.batch) \in Nat
          /\ writer.batch \in [1 .. Len(writer.batch) -> AllRows]
      BY LenProperties DEF ImportInv, Reading
    <2>2. IsFiniteSet(1 .. Len(writer.batch))
      BY <2>1, FS_Interval
    <2>3. writer.batch \in Surjection(1 .. Len(writer.batch), ToSet(writer.batch))
      BY <2>1 DEF Surjection, ToSet
    <2> QED
      BY <2>2, <2>3, FS_Surjection
  <1>4. staged' = staged \/ staged' = staged \cup ToSet(writer.batch)
    BY DEF ReceiveRow, Flush
  <1>5. IsFiniteSet(staged')
    BY <1>3, <1>4, FS_Union DEF RefusalInv
  <1> QED
    BY <1>2, <1>5 DEF RefusalInv

\* When the files are read to their ends, no malformed blob is without its error.
LEMMA MalformedRecorded ==
  ASSUME Reading, Recorded, \A f \in Files : walker[f].read = Len(files[f])
  PROVE  \A pkg : MalformedOf(pkg) => pkg \in errs
  <1>1. \A f \in Files : \A i \in DOMAIN files[f] :
          files[f][i].kind = "malformed" => files[f][i].pkg \in errs
    BY FileBlobs DEF Recorded
  <1> QED
    BY <1>1 DEF MalformedOf, Blobs

\* Normalize begins to write a package only when neither the walk nor the validation
\* has refused it.
LEMMA BeginKeeps ==
  ASSUME ImportInv, RefusalInv, NEW pkg, BeginPackage(pkg)
  PROVE  RefusalInv'
  <1>1. /\ UNCHANGED <<files, walker, staged, content>> /\ errs \subseteq errs'
        /\ phase = "normalize"
    BY DEF BeginPackage, ingestVars, Fail
  <1>2. Recorded'
    BY <1>1, ErrorsStay
  <1>3. CASE current' = current
    BY <1>1, <1>2, <1>3, WritesStay DEF RefusalInv
  <1>4. CASE /\ pkg \notin errs /\ ValidPackage(staged, pkg)
             /\ current' = [pkg |-> pkg, writes |-> PackageWrites(staged, pkg)]
    <2>1. staged = AllRows
      BY <1>1, AllStaged DEF EveryRowStaged
    <2>2. ~MalformedOf(pkg)
      <3>1. \A f \in Files : walker[f].read = Len(files[f])
        BY <1>1 DEF ImportInv, Joining, Reading
      <3> QED
        BY <1>4, <3>1, MalformedRecorded DEF ImportInv, RefusalInv
    <2>3. Allowed(pkg)
      BY <1>4, <2>1, <2>2 DEF Allowed
    <2>4. WritesFor(PackageWrites(staged, pkg), pkg)
      <3>1. \A ch \in StagedOf(staged, "channel", pkg) : Listed(ch)
        BY <2>1, RowsListed DEF StagedOf, ImportInv
      <3>2. IsFiniteSet(staged)
        BY DEF RefusalInv
      <3> QED
        BY <3>1, <3>2, PackageIsWritten
    <2>5. \A x : Allowed(x)' = Allowed(x)
      BY <1>1, SameFiles
    <2>6. current'.pkg = pkg /\ current'.writes = PackageWrites(staged, pkg)
      BY <1>4
    <2>7. Writing'
      <3>1. PICK ws : ws = PackageWrites(staged, pkg)
        OBVIOUS
      <3>2. current'.pkg = pkg /\ current'.writes = ws /\ current' = [pkg |-> pkg, writes |-> ws]
        BY <1>4, <3>1
      <3>3. WritesFor(ws, pkg)
        BY <2>4, <3>1
      <3>4. Allowed(pkg)'
        BY <2>3, <2>5
      <3> QED
        BY <3>2, <3>3, <3>4 DEF Writing, WritesFor, IsWrite
    <2>8. Written'
      BY <1>1, <2>5 DEF RefusalInv, Written
    <2> QED
      BY <1>1, <1>2, <2>7, <2>8 DEF RefusalInv
  <1> QED
    BY <1>3, <1>4 DEF BeginPackage

\* A write of an accepted package makes graphs of that package only.
LEMMA WriteKeeps ==
  ASSUME ImportInv, RefusalInv, Write
  PROVE  RefusalInv'
  <1>1. UNCHANGED <<files, walker, staged>> /\ errs \subseteq errs' /\ current.writes # <<>>
    BY DEF Write, ingestVars, Fail
  <1>2. Recorded'
    BY <1>1, ErrorsStay
  <1>3. \A x : Allowed(x)' = Allowed(x)
    BY <1>1, SameFiles
  <1>4. WritesFor(current.writes, current.pkg) /\ Allowed(current.pkg)
    BY <1>1 DEF RefusalInv, Writing, Idle
  <1>5. IsWrite(Head(current.writes), current.pkg) /\ WritesFor(Tail(current.writes), current.pkg)
    BY <1>1, <1>4, WritesLeft
  <1>6. Writing'
    <2>1. CASE current' = Idle
      BY <2>1 DEF Writing, Idle
    <2>2. CASE current' = [current EXCEPT !.writes = Tail(@)]
      <3>1. PICK ws, pkg : ws = Tail(current.writes) /\ pkg = current.pkg
        OBVIOUS
      <3>2. /\ current' = [pkg |-> pkg, writes |-> ws]
            /\ current'.pkg = pkg /\ current'.writes = ws
        BY <2>2, <3>1 DEF RefusalInv, Writing
      <3>3. Allowed(pkg)' /\ WritesFor(ws, pkg)
        BY <1>3, <1>4, <1>5, <3>1
      <3> QED
        BY <3>2, <3>3 DEF Writing, WritesFor, IsWrite
    <2> QED
      BY <2>1, <2>2 DEF Write
  <1>7. Written'
    <2>1. CASE UNCHANGED content
      BY <1>3, <2>1 DEF RefusalInv, Written
    <2>2. CASE /\ content' = Apply(content, Catalog, 1, Head(current.writes))
               /\ content' # Failed
      <3>1. "graphs" \in DOMAIN content /\ \A g \in content.graphs : "path" \in DOMAIN g
        BY DEF RefusalInv, Written
      <3>2. PathsOf(content', content, current.pkg)
        BY <1>5, <2>2, <3>1, ApplyPaths
      <3> QED
        BY <1>3, <1>4, <3>2 DEF RefusalInv, Written, PathsOf
    <2> QED
      BY <2>1, <2>2 DEF Write
  <1> QED
    BY <1>1, <1>2, <1>6, <1>7 DEF RefusalInv

LEMMA FinalizeKeeps ==
  ASSUME ImportInv, RefusalInv, NEW pkg, FinalizePackage(pkg)
  PROVE  RefusalInv'
  <1>1. UNCHANGED <<files, walker, staged, current>> /\ errs \subseteq errs'
    BY DEF FinalizePackage, ingestVars, Fail
  <1>2. Recorded'
    BY <1>1, ErrorsStay
  <1>3. \A x : Allowed(x)' = Allowed(x)
    BY <1>1, SameFiles
  <1>4. Writing'
    BY <1>1, <1>3 DEF RefusalInv, Writing, Idle, WritesFor, IsWrite
  <1>5. "graphs" \in DOMAIN content' /\ content'.graphs = content.graphs
    <2>1. \/ content' = content
          \/ content' = SetGraphProperty(content, Catalog, <<pkg>>) /\ content' # Failed
      BY DEF FinalizePackage
    <2>2. "graphs" \in DOMAIN content
      BY DEF RefusalInv, Written
    <2> QED
      BY <2>1, <2>2 DEF SetGraphProperty
  <1>6. Written'
    BY <1>3, <1>5 DEF RefusalInv, Written
  <1> QED
    BY <1>1, <1>2, <1>4, <1>6 DEF RefusalInv

LEMMA RefusalInit == Init => RefusalInv
  <1> SUFFICES ASSUME Init PROVE RefusalInv
    OBVIOUS
  <1>1. Recorded
    <2>1. \A f \in Files : DOMAIN files[f] = 1 .. Len(files[f]) /\ Len(files[f]) \in Nat
      BY ImportInit, FileBlobs DEF ImportInv
    <2>2. \A f \in Files : walker[f].read = 0
      BY DEF Init, Files
    <2> QED
      BY <2>1, <2>2 DEF Recorded
  <1>2. IsFiniteSet(staged)
    BY FS_EmptySet DEF Init
  <1>3. Writing
    BY DEF Init, Writing, Idle
  <1>4. Written
    BY DEF Init, Written, EmptyContent
  <1> QED
    BY <1>1, <1>2, <1>3, <1>4 DEF RefusalInv

\* RefusalInv is inductive, where ImportInv holds.
LEMMA RefusalStep == ImportInv /\ RefusalInv /\ [Next]_vars => RefusalInv'
  <1> SUFFICES ASSUME ImportInv, RefusalInv, [Next]_vars
               PROVE  RefusalInv'
    OBVIOUS
  <1>1. ASSUME NEW f \in Files, Walk(f)
        PROVE  RefusalInv'
    BY <1>1, WalkRecords
  <1>2. CASE ReceiveRow \/ Flush
    BY <1>2, FlushKeepsFinite
  <1>3. ASSUME NEW pkg \in todo, BeginPackage(pkg) \/ FinalizePackage(pkg)
        PROVE  RefusalInv'
    BY <1>3, BeginKeeps, FinalizeKeeps
  <1>4. CASE Write
    BY <1>4, WriteKeeps
  <1>5. CASE CloseRows \/ Ingested \/ NormalizeDone \/ FinalizeDone \/ Cancel \/ UNCHANGED vars
    <2>1. UNCHANGED <<files, walker, staged, errs, current, content>>
      BY <1>5 DEF CloseRows, Ingested, NormalizeDone, FinalizeDone, Return, Cancel, ingestVars, vars
    <2> QED
      BY <2>1, WritesStay, ErrorsStay DEF RefusalInv
  <1> QED
    BY <1>1, <1>2, <1>3, <1>4, <1>5 DEF Next, Import

-----------------------------------------------------------------------------
(***************************************************************************)
(* Which writes do not fail.                                               *)
(***************************************************************************)

\* The value that stands for an error is not the value of the tables.
FailedIsNoContent == DOMAIN Failed # Tables

\* What the writes of an import into an empty catalog leave.
Good(d) == GoodContent(d) /\ Importing(EmptyContent, Catalog, 1, d)

Paths(d) == {g.path : g \in d.graphs}

Has(d, bundles) == \A b \in bundles : BundleIn(d, Catalog, b) # {}

\* The graphs at these paths have at most these members and ranges.
Room(d, paths, members, ranges) ==
  \A g \in d.graphs : g.path \in paths =>
    /\ \A m \in d.members : m.graph = g.id =>
         \E r \in d.bundles : r.id = m.bundle /\ r.bundle \in members
    /\ \A x \in d.ranges : x.graph = g.id =>
         \E r \in d.bundles : r.id = x.bundle /\ r.bundle \in ranges

\* Content with just these paths, at least these bundles, and at one path at most
\* these members and ranges.
IsAt(d, paths, bundles, open, members, ranges) ==
  Good(d) /\ Paths(d) = paths /\ Has(d, bundles) /\ Room(d, open, members, ranges)

\* The write succeeds, and its result.
Does(d, o, e) == e = Apply(d, Catalog, 1, o) /\ e # Failed

\* No write takes from the tables what their keys and references promise.
LEMMA GoodKept ==
  ASSUME NEW d, Good(d), NEW o, o.op \in Operations, NEW e, Does(d, o, e)
  PROVE  Good(e)
  <1>1. EmptyContent.nextGraph \in Nat
    BY DEF EmptyContent
  <1>2. GoodContent(d) /\ Importing(EmptyContent, Catalog, 1, d)
    BY DEF Good
  <1>3. e = Apply(d, Catalog, 1, o) /\ e # Failed
    BY DEF Does
  <1>4. GoodContent(e) /\ Importing(EmptyContent, Catalog, 1, e)
    BY <1>1, <1>2, <1>3, ApplyKeeps
  <1> QED
    BY <1>4 DEF Good

\* The graphs are of the catalog.
LEMMA PathIsGraph ==
  ASSUME NEW d, Good(d), NEW path
  PROVE  path \in Paths(d) <=> GraphAt(d, Catalog, path) # {}
  <1>1. \A g \in d.graphs : g.catalog = Catalog
    BY DEF Good, Importing, EmptyContent
  <1> QED
    BY <1>1 DEF Paths, GraphAt

\* The id that a write looks up is that of the graph at the path.
LEMMA GraphHasId ==
  ASSUME NEW d, NEW path, GraphAt(d, Catalog, path) # {}
  PROVE  \E g \in d.graphs : g.path = path /\ g.id = IdOf(GraphAt(d, Catalog, path))
  <1>1. \E g \in GraphAt(d, Catalog, path) : IdOf(GraphAt(d, Catalog, path)) = g.id
    BY DEF IdOf
  <1> QED
    BY <1>1 DEF GraphAt

\* InsertBundle adds the bundle, if it is not there.
LEMMA BundleDone ==
  ASSUME FailedIsNoContent, NEW P, NEW B, NEW open, NEW M, NEW R, NEW d,
         IsAt(d, P, B, open, M, R),
         NEW b, NEW version, NEW o, o = [op |-> "bundle", bundle |-> b, version |-> version]
  PROVE  \E e : Does(d, o, e) /\ IsAt(e, P, B \cup {b}, open, M, R)
  <1> DEFINE e == InsertBundle(d, Catalog, 1, b, version)
  <1>1. e = Apply(d, Catalog, 1, o)
    BY DEF Apply
  <1>2. DOMAIN d = Tables /\ Good(d)
    BY DEF IsAt, Good, GoodContent, Shape
  <1>3. \/ e = d /\ BundleIn(d, Catalog, b) # {}
        \/ \E row : /\ e = [d EXCEPT !.bundles = @ \cup {row}, !.nextBundle = @ + 1]
                    /\ row.catalog = Catalog /\ row.bundle = b
    <2> DEFINE row == [id |-> d.nextBundle, catalog |-> Catalog, bundle |-> b,
                       version |-> version, deprecation |-> None, import |-> 1]
    <2>1. row.catalog = Catalog /\ row.bundle = b
      OBVIOUS
    <2>2. \/ e = d /\ BundleIn(d, Catalog, b) # {}
          \/ e = [d EXCEPT !.bundles = @ \cup {row}, !.nextBundle = @ + 1]
      BY DEF InsertBundle
    <2> HIDE DEF row, e
    <2> QED
      BY <2>1, <2>2
  <1>4. /\ DOMAIN e = Tables /\ e.graphs = d.graphs /\ d.bundles \subseteq e.bundles
        /\ e.members = d.members /\ e.ranges = d.ranges /\ BundleIn(e, Catalog, b) # {}
    <2>1. CASE e = d /\ BundleIn(d, Catalog, b) # {}
      BY <1>2, <2>1
    <2>2. ASSUME NEW row, e = [d EXCEPT !.bundles = @ \cup {row}, !.nextBundle = @ + 1],
                 row.catalog = Catalog, row.bundle = b
          PROVE  /\ DOMAIN e = Tables /\ e.graphs = d.graphs /\ e.bundles = d.bundles \cup {row}
                 /\ e.members = d.members /\ e.ranges = d.ranges /\ BundleIn(e, Catalog, b) # {}
      <3> HIDE DEF e
      <3>1. /\ DOMAIN e = Tables /\ e.graphs = d.graphs /\ e.bundles = d.bundles \cup {row}
            /\ e.members = d.members /\ e.ranges = d.ranges
        BY <1>2, <2>2 DEF Tables
      <3>2. row \in BundleIn(e, Catalog, b)
        BY <2>2, <3>1 DEF BundleIn
      <3> QED
        BY <3>1, <3>2
    <2> HIDE DEF e
    <2> QED
      BY <1>3, <2>1, <2>2
  <1> HIDE DEF e
  <1>5. Does(d, o, e)
    BY <1>1, <1>4 DEF Does, FailedIsNoContent
  <1>6. Good(e)
    <2>1. o.op \in Operations
      BY DEF Operations
    <2> QED
      BY <1>2, <1>5, <2>1, GoodKept
  <1>7. Paths(e) = P /\ Has(e, B \cup {b}) /\ Room(e, open, M, R)
    BY <1>4 DEF IsAt, Paths, Has, Room, BundleIn
  <1> QED
    BY <1>5, <1>6, <1>7 DEF IsAt

\* A graph that is new has no rows yet.
LEMMA GraphDone ==
  ASSUME FailedIsNoContent, NEW P, NEW B, NEW open, NEW M, NEW R, NEW d,
         IsAt(d, P, B, open, M, R),
         NEW path, ValidPath(path), path \notin P, Len(path) = 1 \/ Front(path) \in P,
         NEW o, o = [op |-> "graph", path |-> path]
  PROVE  \E e : Does(d, o, e) /\ IsAt(e, P \cup {path}, B, {path}, {}, {})
  <1> DEFINE e == CreateGraph(d, Catalog, 1, path)
  <1>1. e = Apply(d, Catalog, 1, o)
    BY DEF Apply
  <1>2. DOMAIN d = Tables /\ Good(d) /\ Paths(d) = P
    BY DEF IsAt, Good, GoodContent, Shape
  <1>3. /\ GraphAt(d, Catalog, path) = {}
        /\ Len(path) = 1 \/ GraphAt(d, Catalog, Front(path)) # {}
    BY <1>2, PathIsGraph
  <1>4. \E row : /\ e = [d EXCEPT !.graphs = @ \cup {row}, !.nextGraph = @ + 1]
                 /\ row.id = d.nextGraph /\ row.path = path
    <2> DEFINE row(p) == [id |-> d.nextGraph, catalog |-> Catalog, path |-> path, parent |-> p,
                          deprecation |-> None, import |-> 1]
    <2>1. \E p : e = [d EXCEPT !.graphs = @ \cup {row(p)}, !.nextGraph = @ + 1]
      BY <1>3 DEF CreateGraph
    <2>2. \A p : row(p).id = d.nextGraph /\ row(p).path = path
      OBVIOUS
    <2> HIDE DEF row, e
    <2> QED
      BY <2>1, <2>2
  <1>5. PICK row : /\ e = [d EXCEPT !.graphs = @ \cup {row}, !.nextGraph = @ + 1]
                   /\ row.id = d.nextGraph /\ row.path = path
    BY <1>4
  <1> HIDE DEF e
  <1>6. /\ DOMAIN e = Tables /\ e.graphs = d.graphs \cup {row} /\ e.bundles = d.bundles
        /\ e.members = d.members /\ e.ranges = d.ranges
    BY <1>2, <1>5 DEF Tables
  <1>7. Does(d, o, e)
    BY <1>1, <1>6 DEF Does, FailedIsNoContent
  <1>8. Good(e)
    <2>1. o.op \in Operations
      BY DEF Operations
    <2> QED
      BY <1>2, <1>7, <2>1, GoodKept
  <1>9. Paths(e) = P \cup {path} /\ Has(e, B)
    BY <1>5, <1>6 DEF IsAt, Paths, Has, BundleIn
  <1>10. Room(e, {path}, {}, {})
    <2>1. \A g \in e.graphs : g.path = path => g.id = d.nextGraph
      BY <1>2, <1>5, <1>6 DEF Paths
    <2>2. \A g \in d.graphs : g.id # d.nextGraph
      BY <1>2 DEF Good, GoodContent, GraphKeys, Shape
    <2>3. /\ \A m \in d.members : m.graph # d.nextGraph
          /\ \A x \in d.ranges : x.graph # d.nextGraph
      BY <1>2, <2>2 DEF Good, GoodContent, References, Together
    <2> QED
      BY <1>6, <2>1, <2>3 DEF Room
  <1> QED
    BY <1>7, <1>8, <1>9, <1>10 DEF IsAt

\* A bundle that is no member yet becomes one.
LEMMA MemberDone ==
  ASSUME FailedIsNoContent, NEW P, NEW B, NEW path, NEW M, NEW R, NEW d,
         IsAt(d, P, B, {path}, M, R), ValidPath(path), path \in P,
         NEW b, b \notin M,
         NEW o, o = [op |-> "member", path |-> path, bundle |-> b]
  PROVE  \E e : Does(d, o, e) /\ IsAt(e, P, B, {path}, M \cup {b}, R)
  <1> DEFINE e == AddBundleToGraph(d, Catalog, path, b)
             id == IdOf(GraphAt(d, Catalog, path))
             new == {[graph |-> id, bundle |-> r.id] : r \in BundleIn(d, Catalog, b)}
  <1>1. e = Apply(d, Catalog, 1, o)
    BY DEF Apply
  <1>2. DOMAIN d = Tables /\ Good(d) /\ Paths(d) = P /\ Room(d, {path}, M, R)
    BY DEF IsAt, Good, GoodContent, Shape
  <1>3. GraphAt(d, Catalog, path) # {}
    BY <1>2, PathIsGraph
  <1>4. PICK g \in d.graphs : g.path = path /\ g.id = id
    BY <1>3, GraphHasId
  <1>5. \A n \in new : n.graph = id /\ \E r \in d.bundles : n.bundle = r.id /\ r.bundle = b
    BY DEF BundleIn
  <1> HIDE DEF id
  <1>6. new \cap d.members = {}
    <2> SUFFICES ASSUME NEW n \in new, n \in d.members
                 PROVE  FALSE
      OBVIOUS
    <2> HIDE DEF new
    <2>1. PICK r \in d.bundles : n.graph = id /\ n.bundle = r.id /\ r.bundle = b
      BY <1>5
    <2>2. PICK s \in d.bundles : s.id = n.bundle /\ s.bundle \in M
      BY <1>2, <1>4, <2>1 DEF Room
    <2>3. r = s
      BY <1>2, <2>1, <2>2 DEF Good, GoodContent, BundleKeys
    <2> QED
      BY <2>1, <2>2, <2>3
  <1>7. e = [d EXCEPT !.members = @ \cup new]
    BY <1>3, <1>6 DEF AddBundleToGraph, id
  <1> HIDE DEF e, new
  <1>8. /\ DOMAIN e = Tables /\ e.graphs = d.graphs /\ e.bundles = d.bundles
        /\ e.members = d.members \cup new /\ e.ranges = d.ranges
    BY <1>2, <1>7 DEF Tables
  <1>9. Does(d, o, e)
    BY <1>1, <1>8 DEF Does, FailedIsNoContent
  <1>10. Good(e)
    <2>1. o.op \in Operations
      BY DEF Operations
    <2> QED
      BY <1>2, <1>9, <2>1, GoodKept
  <1>11. Paths(e) = P /\ Has(e, B)
    BY <1>8 DEF IsAt, Paths, Has, BundleIn
  <1>12. Room(e, {path}, M \cup {b}, R)
    BY <1>2, <1>5, <1>8 DEF Room
  <1> QED
    BY <1>9, <1>10, <1>11, <1>12 DEF IsAt

\* AddEdge is never refused where the graph is there.
LEMMA EdgeDone ==
  ASSUME FailedIsNoContent, NEW P, NEW B, NEW open, NEW M, NEW R, NEW d,
         IsAt(d, P, B, open, M, R), NEW path, ValidPath(path), path \in P,
         NEW b, NEW c,
         NEW o, o = [op |-> "edge", path |-> path, from |-> b, to |-> c]
  PROVE  \E e : Does(d, o, e) /\ IsAt(e, P, B, open, M, R)
  <1> DEFINE e == AddEdge(d, Catalog, path, b, c)
  <1>1. e = Apply(d, Catalog, 1, o)
    BY DEF Apply
  <1>2. DOMAIN d = Tables /\ Good(d) /\ Paths(d) = P
    BY DEF IsAt, Good, GoodContent, Shape
  <1>3. GraphAt(d, Catalog, path) # {}
    BY <1>2, PathIsGraph
  <1>4. \E new : e = [d EXCEPT !.edges = @ \cup new]
    <2> DEFINE new == {[graph |-> IdOf(GraphAt(d, Catalog, path)), from |-> x.id, to |-> y.id] :
                         x \in BundleIn(d, Catalog, b), y \in BundleIn(d, Catalog, c)}
    <2>1. e = [d EXCEPT !.edges = @ \cup new]
      BY <1>3 DEF AddEdge
    <2> HIDE DEF e, new
    <2> QED
      BY <2>1
  <1> HIDE DEF e
  <1>5. /\ DOMAIN e = Tables /\ e.graphs = d.graphs /\ e.bundles = d.bundles
        /\ e.members = d.members /\ e.ranges = d.ranges
    BY <1>2, <1>4 DEF Tables
  <1>6. Does(d, o, e)
    BY <1>1, <1>5 DEF Does, FailedIsNoContent
  <1>7. Good(e)
    <2>1. o.op \in Operations
      BY DEF Operations
    <2> QED
      BY <1>2, <1>6, <2>1, GoodKept
  <1>8. Paths(e) = P /\ Has(e, B) /\ Room(e, open, M, R)
    BY <1>5 DEF IsAt, Paths, Has, BundleIn, Room
  <1> QED
    BY <1>6, <1>7, <1>8 DEF IsAt

\* A bundle that is there and has no range gets one.
LEMMA RangeDone ==
  ASSUME FailedIsNoContent, NEW P, NEW B, NEW path, NEW M, NEW R, NEW d,
         IsAt(d, P, B, {path}, M, R), ValidPath(path), path \in P,
         NEW b \in B, b \notin R, NEW versions, versions # None,
         NEW o, o = [op |-> "range", path |-> path, bundle |-> b, versions |-> versions]
  PROVE  \E e : Does(d, o, e) /\ IsAt(e, P, B, {path}, M, R \cup {b})
  <1> DEFINE e == AddPredecessorRange(d, Catalog, path, b, versions)
             id == IdOf(GraphAt(d, Catalog, path))
             new == {[graph |-> id, bundle |-> r.id, versions |-> versions] :
                       r \in BundleIn(d, Catalog, b)}
  <1>1. e = Apply(d, Catalog, 1, o)
    BY DEF Apply
  <1>2. DOMAIN d = Tables /\ Good(d) /\ Paths(d) = P /\ Room(d, {path}, M, R)
    BY DEF IsAt, Good, GoodContent, Shape
  <1>3. GraphAt(d, Catalog, path) # {} /\ BundleIn(d, Catalog, b) # {}
    BY <1>2, PathIsGraph DEF IsAt, Has
  <1>4. PICK g \in d.graphs : g.path = path /\ g.id = id
    BY <1>3, GraphHasId
  <1>5. \A n \in new : n.graph = id /\ \E r \in d.bundles : n.bundle = r.id /\ r.bundle = b
    BY DEF BundleIn
  <1> HIDE DEF id
  <1>6. ~ \E r \in d.ranges, n \in new : r.graph = n.graph /\ r.bundle = n.bundle
    <2> SUFFICES ASSUME NEW x \in d.ranges, NEW n \in new, x.graph = n.graph, x.bundle = n.bundle
                 PROVE  FALSE
      OBVIOUS
    <2> HIDE DEF new
    <2>1. PICK r \in d.bundles : n.graph = id /\ n.bundle = r.id /\ r.bundle = b
      BY <1>5
    <2>2. PICK s \in d.bundles : s.id = x.bundle /\ s.bundle \in R
      BY <1>2, <1>4, <2>1 DEF Room
    <2>3. r = s
      BY <1>2, <2>1, <2>2 DEF Good, GoodContent, BundleKeys
    <2> QED
      BY <2>1, <2>2, <2>3
  <1>7. e = [d EXCEPT !.ranges = @ \cup new]
    BY <1>3, <1>6 DEF AddPredecessorRange, id
  <1> HIDE DEF e, new
  <1>8. /\ DOMAIN e = Tables /\ e.graphs = d.graphs /\ e.bundles = d.bundles
        /\ e.members = d.members /\ e.ranges = d.ranges \cup new
    BY <1>2, <1>7 DEF Tables
  <1>9. Does(d, o, e)
    BY <1>1, <1>8 DEF Does, FailedIsNoContent
  <1>10. Good(e)
    <2>1. o.op \in Operations
      BY DEF Operations
    <2> QED
      BY <1>2, <1>9, <2>1, GoodKept
  <1>11. Paths(e) = P /\ Has(e, B)
    BY <1>8 DEF IsAt, Paths, Has, BundleIn
  <1>12. Room(e, {path}, M, R \cup {b})
    BY <1>2, <1>5, <1>8 DEF Room
  <1> QED
    BY <1>9, <1>10, <1>11, <1>12 DEF IsAt

\* A deprecation whose path is a path.
Deprecates(r) ==
  /\ r.message # None /\ r.schema \in {"package", "channel", "bundle"}
  /\ r.schema = "package" => r.pkg \in Segments
  /\ r.schema = "channel" => r.pkg \in Segments /\ r.name \in Segments

\* A deprecation takes no row away.
LEMMA DeprecationDone ==
  ASSUME FailedIsNoContent, NEW P, NEW B, NEW d, IsAt(d, P, B, {}, {}, {}),
         NEW r, Deprecates(r)
  PROVE  \E e : Does(d, DeprecationWrite(r), e) /\ IsAt(e, P, B, {}, {}, {})
  <1>0. PICK o : o = DeprecationWrite(r)
    OBVIOUS
  <1>1. DOMAIN d = Tables /\ Good(d) /\ Paths(d) = P
    BY DEF IsAt, Good, GoodContent, Shape
  <1>2. CASE r.schema = "bundle"
    <2>0. PICK b, message : b = r.name /\ message = r.message
      OBVIOUS
    <2>1. o = [op |-> "deprecate bundle", bundle |-> b, message |-> message]
      BY <1>0, <1>2, <2>0 DEF DeprecationWrite
    <2> DEFINE e == SetBundleDeprecation(d, Catalog, b, message)
    <2>2. e = Apply(d, Catalog, 1, o)
      <3>1. o.op = "deprecate bundle" /\ o.bundle = b /\ o.message = message
        BY <2>1
      <3> QED
        BY <3>1 DEF Apply
    <2>3. e = [d EXCEPT !.bundles = {IF x \in BundleIn(d, Catalog, b)
                                     THEN [x EXCEPT !.deprecation = message] ELSE x : x \in @}]
      BY <2>0 DEF SetBundleDeprecation, Deprecates
    <2> HIDE DEF e
    <2>4. /\ DOMAIN e = Tables /\ e.graphs = d.graphs
          /\ e.bundles = {IF x \in BundleIn(d, Catalog, b)
                          THEN [x EXCEPT !.deprecation = message] ELSE x : x \in d.bundles}
      BY <1>1, <2>3 DEF Tables
    <2>5. \A x \in d.bundles : \E y \in e.bundles : y.bundle = x.bundle /\ y.catalog = x.catalog
      <3> TAKE x \in d.bundles
      <3>1. DOMAIN x = BundleColumns
        BY <1>1 DEF Good, GoodContent, Shape
      <3> DEFINE z == [x EXCEPT !.deprecation = message]
      <3>2. z.bundle = x.bundle /\ z.catalog = x.catalog
        BY <3>1 DEF BundleColumns
      <3>3. x \in e.bundles \/ z \in e.bundles
        BY <2>4
      <3> QED
        BY <3>2, <3>3
    <2>6. Does(d, o, e)
      BY <2>2, <2>4 DEF Does, FailedIsNoContent
    <2>7. Good(e)
      <3>1. o.op \in Operations
        BY <2>1 DEF Operations
      <3> QED
        BY <1>1, <2>6, <3>1, GoodKept
    <2>8. Has(e, B)
      BY <2>5 DEF IsAt, Has, BundleIn
    <2>9. Paths(e) = P /\ Room(e, {}, {}, {})
      BY <1>1, <2>4 DEF Paths, Room
    <2> QED
      BY <1>0, <2>6, <2>7, <2>8, <2>9 DEF IsAt
  <1>3. CASE r.schema # "bundle"
    <2>0. PICK path, message :
            /\ path = (IF r.schema = "package" THEN <<r.pkg>> ELSE <<r.pkg, r.name>>)
            /\ message = r.message
      OBVIOUS
    <2> DEFINE e == SetGraphDeprecation(d, Catalog, path, message)
    <2>1. o = [op |-> "deprecate graph", message |-> message, path |-> path]
      BY <1>0, <1>3, <2>0 DEF DeprecationWrite
    <2>2. ValidPath(path)
      BY <1>3, <2>0 DEF ValidPath, Deprecates
    <2>3. e = Apply(d, Catalog, 1, o)
      <3>1. o.op = "deprecate graph" /\ o.path = path /\ o.message = message
        BY <2>1
      <3> QED
        BY <3>1 DEF Apply
    <2>4. e = [d EXCEPT !.graphs = {IF g \in GraphAt(d, Catalog, path)
                                    THEN [g EXCEPT !.deprecation = message] ELSE g : g \in @}]
      BY <2>0, <2>2 DEF SetGraphDeprecation, Deprecates
    <2> HIDE DEF e
    <2>5. /\ DOMAIN e = Tables /\ e.bundles = d.bundles
          /\ e.graphs = {IF g \in GraphAt(d, Catalog, path)
                         THEN [g EXCEPT !.deprecation = message] ELSE g : g \in d.graphs}
      BY <1>1, <2>4 DEF Tables
    <2>6. \A g \in d.graphs : LET h == [g EXCEPT !.deprecation = message]
                              IN  h.path = g.path
      BY <1>1 DEF Good, GoodContent, Shape, GraphColumns
    <2>7. Does(d, o, e)
      BY <2>3, <2>5 DEF Does, FailedIsNoContent
    <2>8. Good(e)
      <3>1. o.op \in Operations
        BY <2>1 DEF Operations
      <3> QED
        BY <1>1, <2>7, <3>1, GoodKept
    <2>9. Paths(e) = P
      <3>1. \A x \in e.graphs : \E g \in d.graphs : g.path = x.path
        BY <2>5, <2>6
      <3>2. \A g \in d.graphs : \E x \in e.graphs : x.path = g.path
        BY <2>5, <2>6
      <3>3. Paths(e) = Paths(d)
        BY <3>1, <3>2 DEF Paths
      <3> QED
        BY <1>1, <3>3
    <2>10. Has(e, B) /\ Room(e, {}, {}, {})
      BY <2>5 DEF IsAt, Has, BundleIn, Room
    <2> QED
      BY <1>0, <2>7, <2>8, <2>9, <2>10 DEF IsAt
  <1> QED
    BY <1>2, <1>3

-----------------------------------------------------------------------------
(***************************************************************************)
(* Which sequences of writes do not fail.                                  *)
(***************************************************************************)
\* A sequence of whatever it holds.
IsSeq(s) == s \in Seq(ToSet(s))

\* All writes succeed, one after the other.
Runs(d, s, e) ==
  \E r : /\ r[0] = d /\ r[Len(s)] = e
         /\ \A i \in 1 .. Len(s) : Does(r[i - 1], s[i], r[i])

At(paths, bundles, open, members, ranges) ==
  [paths |-> paths, bundles |-> bundles, open |-> open, members |-> members, ranges |-> ranges]

Holds(d, a) == IsAt(d, a.paths, a.bundles, a.open, a.members, a.ranges)

\* From any content of which a is true the writes succeed, and make b true.
Leads(a, s, b) ==
  IsSeq(s) /\ \A d : Holds(d, a) => \E e : Runs(d, s, e) /\ Holds(e, b)

LEMMA HoldsAt ==
  ASSUME NEW d, NEW P, NEW B, NEW open, NEW M, NEW R
  PROVE  Holds(d, At(P, B, open, M, R)) <=> IsAt(d, P, B, open, M, R)
  BY DEF Holds, At

LEMMA SeqFacts ==
  ASSUME NEW s, IsSeq(s)
  PROVE  Len(s) \in Nat /\ DOMAIN s = 1 .. Len(s)
  BY LenProperties DEF IsSeq

LEMMA SeqOfOne ==
  ASSUME NEW o
  PROVE  IsSeq(<<o>>) /\ Len(<<o>>) = 1 /\ <<o>>[1] = o
  <1>1. <<o>> \in Seq({o}) /\ Len(<<o>>) = 1 /\ <<o>>[1] = o
    OBVIOUS
  <1> DEFINE s == <<o>>
  <1>2. s = [i \in 1 .. 1 |-> s[i]] /\ 1 \in Nat
    OBVIOUS
  <1> HIDE DEF s
  <1>3. s \in Seq(ToSet(s))
    BY <1>2, OwnElements
  <1> QED
    BY <1>1, <1>3 DEF s, IsSeq

LEMMA SeqOfNone == IsSeq(<<>>) /\ Len(<<>>) = 0
  BY EmptySeq DEF IsSeq

\* The elements of one sequence after another.
LEMMA SeqsJoined ==
  ASSUME NEW b, NEW c, IsSeq(b), IsSeq(c)
  PROVE  /\ IsSeq(b \o c) /\ Len(b \o c) = Len(b) + Len(c)
         /\ Len(b) \in Nat /\ Len(c) \in Nat
         /\ \A i \in 1 .. Len(b) : (b \o c)[i] = b[i]
         /\ \A i \in 1 .. Len(c) : (b \o c)[Len(b) + i] = c[i]
         /\ ToSet(b \o c) = ToSet(b) \cup ToSet(c)
  <1> DEFINE S == ToSet(b) \cup ToSet(c)
             s == b \o c
  <1>1. b \in Seq(S) /\ c \in Seq(S)
    BY SeqMonotonic DEF IsSeq
  <1> HIDE DEF S
  <1>2. /\ b \o c \in Seq(S) /\ Len(b) \in Nat /\ Len(c) \in Nat
        /\ DOMAIN (b \o c) = 1 .. (Len(b) + Len(c))
        /\ \A i \in 1 .. Len(b) : (b \o c)[i] = b[i]
        /\ \A i \in 1 .. Len(c) : (b \o c)[Len(b) + i] = c[i]
    BY <1>1, Joined
  <1>3. DOMAIN b = 1 .. Len(b) /\ DOMAIN c = 1 .. Len(c)
    BY SeqFacts
  <1>4. Len(b \o c) = Len(b) + Len(c)
    BY <1>1, ConcatProperties
  <1> HIDE DEF s
  <1>5. /\ s \in Seq(S) /\ DOMAIN s = 1 .. (Len(b) + Len(c)) /\ Len(s) = Len(b) + Len(c)
        /\ \A i \in 1 .. Len(b) : s[i] = b[i]
        /\ \A i \in 1 .. Len(c) : s[Len(b) + i] = c[i]
    BY <1>2, <1>4 DEF s
  <1>6. s = [i \in 1 .. (Len(b) + Len(c)) |-> s[i]] /\ Len(b) + Len(c) \in Nat
    <2>1. s \in [1 .. Len(s) -> S]
      BY <1>5, LenProperties
    <2> QED
      BY <1>2, <1>5, <2>1
  <1>7. IsSeq(s)
    BY <1>6, OwnElements DEF IsSeq
  <1>8. ToSet(s) = ToSet(b) \cup ToSet(c)
    <2>1. ASSUME NEW i \in DOMAIN s
          PROVE  s[i] \in ToSet(b) \cup ToSet(c)
      <3>1. CASE i <= Len(b)
        BY <1>2, <1>3, <1>5, <3>1 DEF ToSet
      <3>2. CASE ~(i <= Len(b))
        <4>1. i - Len(b) \in 1 .. Len(c) /\ Len(b) + (i - Len(b)) = i
          BY <1>2, <1>5, <3>2
        <4>2. s[i] = c[i - Len(b)]
          BY <1>5, <4>1
        <4> QED
          BY <1>3, <4>1, <4>2 DEF ToSet
      <3> QED
        BY <3>1, <3>2
    <2>2. \A i \in DOMAIN b : b[i] \in ToSet(s)
      BY <1>2, <1>3, <1>5 DEF ToSet
    <2>3. ASSUME NEW i \in DOMAIN c
          PROVE  c[i] \in ToSet(s)
      <3>1. Len(b) + i \in DOMAIN s /\ s[Len(b) + i] = c[i]
        BY <1>2, <1>3, <1>5
      <3> QED
        BY <3>1 DEF ToSet
    <2> QED
      BY <2>1, <2>2, <2>3 DEF ToSet
  <1> QED
    BY <1>2, <1>4, <1>7, <1>8 DEF s

LEMMA ToSetOfOne ==
  ASSUME NEW o
  PROVE  ToSet(<<o>>) = {o}
  <1>1. PICK s : s = <<o>>
    OBVIOUS
  <1>2. DOMAIN s = {1} /\ s[1] = o
    BY <1>1
  <1>3. ToSet(s) = {o}
    BY <1>2 DEF ToSet
  <1> QED
    BY <1>1, <1>3

\* The writes that are not left were the first.
LEMMA OthersLeft ==
  ASSUME NEW s, s # <<>>, IsSeq(s), NEW o \in ToSet(s), o # Head(s)
  PROVE  o \in ToSet(Tail(s))
  <1>1. PICK t : t = Tail(s)
    OBVIOUS
  <1>2. /\ Len(s) \in Nat \ {0} /\ Head(s) = s[1] /\ DOMAIN s = 1 .. Len(s)
        /\ t \in Seq(ToSet(s)) /\ Len(t) = Len(s) - 1 /\ \A i \in 1 .. Len(t) : t[i] = s[i + 1]
    BY <1>1, EmptySeq, SeqFacts, HeadTailProperties DEF IsSeq
  <1>3. DOMAIN t = 1 .. Len(t)
    BY <1>2, LenProperties
  <1>4. PICK i \in 1 .. Len(s) : o = s[i]
    BY <1>2 DEF ToSet
  <1>5. i # 1
    BY <1>2, <1>4
  <1>6. i - 1 \in 1 .. Len(t) /\ (i - 1) + 1 = i
    BY <1>2, <1>5
  <1>7. t[i - 1] = s[i]
    BY <1>2, <1>6
  <1>8. o \in ToSet(t)
    BY <1>3, <1>4, <1>6, <1>7 DEF ToSet
  <1> QED
    BY <1>1, <1>8

\* What is in one of the sequences is in all of them together.
LEMMA FlattenedHas ==
  ASSUME NEW n \in Nat, NEW seqs, seqs = [i \in 1 .. n |-> seqs[i]],
         \A i \in 1 .. n : IsSeq(seqs[i]), NEW k \in 1 .. n, NEW o \in ToSet(seqs[k])
  PROVE  o \in ToSet(FlattenSeq(seqs))
  <1>1. Len(seqs) = n /\ n \in Nat \ {0}
    BY OwnElements
  <1>2. PICK f : FlattenSeq(seqs) = f[n] /\ Flattening(f, seqs, n)
    BY <1>1, FlattenSteps
  <1>3. /\ f[1] = seqs[1] /\ FlattenSeq(seqs) = f[n]
        /\ \A i \in 2 .. n : f[i] = f[i - 1] \o seqs[i]
    BY <1>2 DEF Flattening
  <1> DEFINE G == {m \in 0 .. n : m # 0 => IsSeq(f[m]) /\ (k <= m => o \in ToSet(f[m]))}
  <1>4. 0 \in G
    OBVIOUS
  <1>5. ASSUME NEW m \in 0 .. n, m < n, m \in G
        PROVE  m + 1 \in G
    <2>1. CASE m = 0
      <3>1. 1 \in 1 .. n /\ (k <= 1 => k = 1)
        BY <1>1
      <3> QED
        BY <1>3, <2>1, <3>1
    <2>2. CASE m # 0
      <3>1. m + 1 \in 2 .. n /\ m + 1 \in 1 .. n /\ (m + 1) - 1 = m
        BY <1>5, <2>2
      <3>2. f[m + 1] = f[m] \o seqs[m + 1]
        BY <1>3, <3>1
      <3>3. IsSeq(f[m]) /\ IsSeq(seqs[m + 1]) /\ (k <= m => o \in ToSet(f[m]))
        BY <1>5, <2>2, <3>1
      <3>4. IsSeq(f[m + 1]) /\ ToSet(f[m + 1]) = ToSet(f[m]) \cup ToSet(seqs[m + 1])
        <4>1. PICK b, c : b = f[m] /\ c = seqs[m + 1]
          OBVIOUS
        <4>2. IsSeq(b \o c) /\ ToSet(b \o c) = ToSet(b) \cup ToSet(c)
          BY <3>3, <4>1, SeqsJoined
        <4> QED
          BY <3>2, <4>1, <4>2
      <3>5. k <= m + 1 => k <= m \/ k = m + 1
        BY <1>1
      <3>6. k <= m + 1 => o \in ToSet(f[m + 1])
        BY <3>3, <3>4, <3>5
      <3> QED
        BY <3>1, <3>4, <3>6
    <2> QED
      BY <2>1, <2>2
  <1> HIDE DEF G
  <1>6. \A m \in 0 .. n : m \in G
    BY <1>1, <1>4, <1>5, UpTo
  <1>7. n \in G /\ k <= n
    BY <1>1, <1>6
  <1> QED
    BY <1>1, <1>3, <1>7 DEF G

LEMMA RunsNone ==
  ASSUME NEW d
  PROVE  Runs(d, <<>>, d)
  <1> DEFINE r == [i \in 0 .. 0 |-> d]
  <1>1. r[0] = d /\ Len(<<>>) = 0
    OBVIOUS
  <1> HIDE DEF r
  <1> QED
    BY <1>1 DEF Runs

LEMMA RunsOne ==
  ASSUME NEW d, NEW o, NEW e, Does(d, o, e)
  PROVE  Runs(d, <<o>>, e)
  <1> DEFINE r == [i \in 0 .. 1 |-> IF i = 0 THEN d ELSE e]
             s == <<o>>
  <1>1. r[0] = d /\ r[1] = e /\ Len(s) = 1 /\ s[1] = o
    OBVIOUS
  <1> HIDE DEF r, s
  <1>2. \A i \in 1 .. Len(s) : i = 1 /\ i - 1 = 0
    BY <1>1
  <1>3. \A i \in 1 .. Len(s) : Does(r[i - 1], s[i], r[i])
    BY <1>1, <1>2
  <1>4. Runs(d, s, e)
    BY <1>1, <1>3 DEF Runs
  <1> QED
    BY <1>4 DEF s

\* Writes that succeed, and then others that do.
LEMMA RunsOn ==
  ASSUME NEW d, NEW b, NEW e, NEW c, NEW x, IsSeq(b), IsSeq(c), Runs(d, b, e), Runs(e, c, x)
  PROVE  Runs(d, b \o c, x)
  <1>1. PICK p : /\ p[0] = d /\ p[Len(b)] = e
                 /\ \A i \in 1 .. Len(b) : Does(p[i - 1], b[i], p[i])
    BY DEF Runs
  <1>2. PICK q : /\ q[0] = e /\ q[Len(c)] = x
                 /\ \A i \in 1 .. Len(c) : Does(q[i - 1], c[i], q[i])
    BY DEF Runs
  <1>3. PICK s : s = b \o c
    OBVIOUS
  <1>4. /\ Len(s) = Len(b) + Len(c) /\ Len(b) \in Nat /\ Len(c) \in Nat
        /\ \A i \in 1 .. Len(b) : s[i] = b[i]
        /\ \A i \in 1 .. Len(c) : s[Len(b) + i] = c[i]
    BY <1>3, SeqsJoined
  <1> DEFINE r == [i \in 0 .. (Len(b) + Len(c)) |-> IF i <= Len(b) THEN p[i] ELSE q[i - Len(b)]]
  <1>5. /\ \A i \in 0 .. Len(b) : r[i] = p[i]
        /\ \A i \in 0 .. Len(c) : r[Len(b) + i] = q[i]
    <2>1. \A i \in 0 .. Len(b) : r[i] = p[i]
      BY <1>4
    <2>2. ASSUME NEW i \in 0 .. Len(c)
          PROVE  r[Len(b) + i] = q[i]
      <3>1. CASE i = 0
        BY <1>1, <1>2, <1>4, <3>1
      <3>2. CASE i # 0
        <4>1. /\ ~(Len(b) + i <= Len(b)) /\ (Len(b) + i) - Len(b) = i
              /\ Len(b) + i \in 0 .. (Len(b) + Len(c))
          BY <1>4, <3>2
        <4> QED
          BY <4>1
      <3> QED
        BY <3>1, <3>2
    <2> QED
      BY <2>1, <2>2
  <1> HIDE DEF r
  <1>6. r[0] = d /\ r[Len(s)] = x
    BY <1>1, <1>2, <1>4, <1>5
  <1>7. ASSUME NEW i \in 1 .. Len(s)
        PROVE  Does(r[i - 1], s[i], r[i])
    <2>1. CASE i <= Len(b)
      <3>1. i \in 1 .. Len(b) /\ i \in 0 .. Len(b) /\ i - 1 \in 0 .. Len(b)
        BY <1>4, <2>1
      <3> QED
        BY <1>1, <1>4, <1>5, <3>1
    <2>2. CASE ~(i <= Len(b))
      <3>1. PICK k \in 1 .. Len(c) : i = Len(b) + k
        <4>1. i - Len(b) \in 1 .. Len(c) /\ i = Len(b) + (i - Len(b))
          BY <1>4, <2>2
        <4> QED
          BY <4>1
      <3>2. k \in 0 .. Len(c) /\ k - 1 \in 0 .. Len(c) /\ i - 1 = Len(b) + (k - 1)
        BY <1>4, <3>1
      <3>3. r[i] = q[k] /\ r[i - 1] = q[k - 1] /\ s[i] = c[k]
        BY <1>4, <1>5, <3>1, <3>2
      <3> QED
        BY <1>2, <3>3
    <2> QED
      BY <2>1, <2>2
  <1>8. Runs(d, s, x)
    BY <1>6, <1>7 DEF Runs
  <1> QED
    BY <1>3, <1>8

\* The first of the writes succeeds, and so do the others.
LEMMA RunsHead ==
  ASSUME NEW d, NEW s, NEW e, IsSeq(s), s # <<>>, Runs(d, s, e)
  PROVE  \E c : Does(d, Head(s), c) /\ Runs(c, Tail(s), e)
  <1>1. PICK r : /\ r[0] = d /\ r[Len(s)] = e
                 /\ \A i \in 1 .. Len(s) : Does(r[i - 1], s[i], r[i])
    BY DEF Runs
  <1>2. Len(s) \in Nat \ {0} /\ Head(s) = s[1]
    BY EmptySeq DEF IsSeq
  <1>3. PICK t : t = Tail(s)
    OBVIOUS
  <1>4. Len(t) = Len(s) - 1 /\ \A i \in 1 .. Len(t) : t[i] = s[i + 1]
    BY <1>3, HeadTailProperties DEF IsSeq
  <1> DEFINE q == [i \in 0 .. Len(t) |-> r[i + 1]]
  <1>5. \A i \in 0 .. Len(t) : q[i] = r[i + 1]
    OBVIOUS
  <1> HIDE DEF q
  <1>6. q[0] = r[1] /\ q[Len(t)] = e
    BY <1>1, <1>2, <1>4, <1>5
  <1>7. ASSUME NEW i \in 1 .. Len(t)
        PROVE  Does(q[i - 1], t[i], q[i])
    <2>1. /\ i + 1 \in 1 .. Len(s) /\ i - 1 \in 0 .. Len(t) /\ i \in 0 .. Len(t)
          /\ (i - 1) + 1 = i /\ (i + 1) - 1 = i
      BY <1>2, <1>4
    <2>2. q[i - 1] = r[i] /\ q[i] = r[i + 1] /\ t[i] = s[i + 1]
      BY <1>4, <1>5, <2>1
    <2>3. Does(r[(i + 1) - 1], s[i + 1], r[i + 1])
      BY <1>1, <2>1
    <2> QED
      BY <2>1, <2>2, <2>3
  <1>8. Runs(r[1], t, e)
    BY <1>6, <1>7 DEF Runs
  <1>9. Does(d, Head(s), r[1])
    <2>1. 1 \in 1 .. Len(s) /\ 1 - 1 = 0
      BY <1>2
    <2>2. Does(r[1 - 1], s[1], r[1])
      BY <1>1, <2>1
    <2> QED
      BY <1>1, <1>2, <2>1, <2>2
  <1> QED
    BY <1>3, <1>8, <1>9

LEMMA LeadsNone ==
  ASSUME NEW a
  PROVE  Leads(a, <<>>, a)
  BY RunsNone, SeqOfNone DEF Leads

LEMMA LeadsOne ==
  ASSUME NEW a, NEW o, NEW b, \A d : Holds(d, a) => \E e : Does(d, o, e) /\ Holds(e, b)
  PROVE  Leads(a, <<o>>, b)
  BY RunsOne, SeqOfOne DEF Leads

\* What one sequence makes true is what the other needs.
LEMMA LeadsOn ==
  ASSUME NEW a, NEW s, NEW b, NEW t, NEW c, Leads(a, s, b), Leads(b, t, c)
  PROVE  Leads(a, s \o t, c)
  <1>1. IsSeq(s) /\ IsSeq(t) /\ IsSeq(s \o t)
    BY SeqsJoined DEF Leads
  <1>2. ASSUME NEW d, Holds(d, a)
        PROVE  \E x : Runs(d, s \o t, x) /\ Holds(x, c)
    <2>1. PICK e : Runs(d, s, e) /\ Holds(e, b)
      BY <1>2 DEF Leads
    <2>2. PICK x : Runs(e, t, x) /\ Holds(x, c)
      BY <2>1 DEF Leads
    <2>3. Runs(d, s \o t, x)
      BY <1>1, <2>1, <2>2, RunsOn
    <2> QED
      BY <2>2, <2>3
  <1> QED
    BY <1>1, <1>2 DEF Leads

\* Each of the sequences makes true what the next needs.
LEMMA LeadsFlattened ==
  ASSUME NEW n \in Nat, NEW seqs, seqs = [i \in 1 .. n |-> seqs[i]], NEW St,
         \A i \in 1 .. n : Leads(St[i - 1], seqs[i], St[i])
  PROVE  Leads(St[0], FlattenSeq(seqs), St[n])
  <1>1. Len(seqs) = n
    BY OwnElements
  <1>2. CASE n = 0
    <2>1. FlattenSeq(seqs) = seqs
      BY <1>1, <1>2 DEF FlattenSeq
    <2>2. seqs = <<>>
      BY <1>2
    <2> QED
      BY <1>2, <2>1, <2>2, LeadsNone
  <1>3. CASE n # 0
    <2> PICK f : FlattenSeq(seqs) = f[n] /\ Flattening(f, seqs, n)
      <3>1. n \in Nat \ {0}
        BY <1>3
      <3> QED
        BY <1>1, <3>1, FlattenSteps
    <2>1. /\ f[1] = seqs[1] /\ FlattenSeq(seqs) = f[n]
          /\ \A i \in 2 .. n : f[i] = f[i - 1] \o seqs[i]
      BY DEF Flattening
    <2> DEFINE G == {m \in 0 .. n : m # 0 => Leads(St[0], f[m], St[m])}
    <2>2. 0 \in G
      OBVIOUS
    <2>3. ASSUME NEW m \in 0 .. n, m < n, m \in G
          PROVE  m + 1 \in G
      <3>1. CASE m = 0
        <4>1. 1 \in 1 .. n /\ 1 - 1 = 0
          BY <1>3
        <4>2. Leads(St[1 - 1], seqs[1], St[1])
          BY <4>1
        <4> QED
          BY <2>1, <3>1, <4>1, <4>2
      <3>2. CASE m # 0
        <4>1. m + 1 \in 2 .. n /\ m + 1 \in 1 .. n /\ (m + 1) - 1 = m
          BY <2>3, <3>2
        <4>2. f[m + 1] = f[m] \o seqs[m + 1]
          BY <2>1, <4>1
        <4>3. Leads(St[m], seqs[m + 1], St[m + 1])
          <5>1. Leads(St[(m + 1) - 1], seqs[m + 1], St[m + 1])
            BY <4>1
          <5> QED
            BY <4>1, <5>1
        <4>4. Leads(St[0], f[m + 1], St[m + 1])
          BY <2>3, <3>2, <4>2, <4>3, LeadsOn
        <4> QED
          BY <4>1, <4>4
      <3> QED
        BY <3>1, <3>2
    <2> HIDE DEF G
    <2>4. \A m \in 0 .. n : m \in G
      BY <2>2, <2>3, UpTo
    <2>5. n \in G
      BY <2>4
    <2> QED
      BY <1>3, <2>1, <2>5 DEF G
  <1> QED
    BY <1>2, <1>3

\* Each of the writes makes true what the next needs.
LEMMA LeadsMapped ==
  ASSUME NEW n \in Nat, NEW s, s = [i \in 1 .. n |-> s[i]], NEW St,
         \A i \in 1 .. n : Leads(St[i - 1], <<s[i]>>, St[i])
  PROVE  Leads(St[0], s, St[n])
  <1>1. PICK S : S = ToSet(s) /\ s \in Seq(S) /\ Len(s) = n
    BY OwnElements
  <1> DEFINE G == {m \in 0 .. n : Leads(St[0], SubSeq(s, 1, m), St[m])}
  <1>2. 0 \in G
    <2>1. SubSeq(s, 1, 0) = <<>>
      BY SubSeqEmpty
    <2>2. Leads(St[0], <<>>, St[0]) /\ 0 \in 0 .. n
      BY LeadsNone
    <2>3. Leads(St[0], SubSeq(s, 1, 0), St[0])
      BY <2>1, <2>2
    <2> QED
      BY <2>2, <2>3
  <1>3. ASSUME NEW m \in 0 .. n, m < n, m \in G
        PROVE  m + 1 \in G
    <2>1. /\ m + 1 \in 1 .. n /\ m + 1 \in 0 .. n /\ (m + 1) - 1 = m
          /\ 1 \in 1 .. Len(s) /\ m + 1 \in 1 .. Len(s)
      BY <1>1, <1>3
    <2>2. SubSeq(s, 1, m + 1) = SubSeq(s, 1, (m + 1) - 1) \o <<s[m + 1]>>
      BY <1>1, <2>1, SubSeqRecursiveSecond
    <2>3. Leads(St[(m + 1) - 1], <<s[m + 1]>>, St[m + 1])
      BY <2>1
    <2>4. PICK t, u : t = SubSeq(s, 1, m) /\ u = <<s[m + 1]>>
      OBVIOUS
    <2>5. Leads(St[0], t, St[m]) /\ Leads(St[m], u, St[m + 1])
      BY <1>3, <2>1, <2>3, <2>4
    <2>6. Leads(St[0], t \o u, St[m + 1])
      BY <2>5, LeadsOn
    <2> QED
      BY <2>1, <2>2, <2>4, <2>6
  <1> HIDE DEF G
  <1>4. \A m \in 0 .. n : m \in G
    BY <1>2, <1>3, UpTo
  <1>5. n \in G /\ SubSeq(s, 1, n) = s
    BY <1>1, <1>4, SubSeqFull
  <1> QED
    BY <1>5 DEF G

\* Fewer bundles are known, and more members and ranges are possible.
LEMMA IsAtLess ==
  ASSUME NEW d, NEW P, NEW B, NEW open, NEW M, NEW R, IsAt(d, P, B, open, M, R),
         NEW B2, B2 \subseteq B, NEW open2, open2 \subseteq open,
         NEW M2, M \subseteq M2, NEW R2, R \subseteq R2
  PROVE  IsAt(d, P, B2, open2, M2, R2)
  <1>1. Has(d, B2)
    BY DEF IsAt, Has
  <1>2. Room(d, open2, M2, R2)
    <2>1. Room(d, open, M, R)
      BY DEF IsAt
    <2> QED
      BY <2>1 DEF Room
  <1> QED
    BY <1>1, <1>2 DEF IsAt

LEMMA LeadsLess ==
  ASSUME NEW P, NEW P1, NEW B1, NEW open1, NEW M1, NEW R1, NEW B, NEW open, NEW M, NEW R, NEW s,
         Leads(At(P1, B1, open1, M1, R1), s, At(P, B, open, M, R)),
         NEW B2, B2 \subseteq B, NEW open2, open2 \subseteq open,
         NEW M2, M \subseteq M2, NEW R2, R \subseteq R2
  PROVE  Leads(At(P1, B1, open1, M1, R1), s, At(P, B2, open2, M2, R2))
  <1>1. \A d : Holds(d, At(P, B, open, M, R)) => Holds(d, At(P, B2, open2, M2, R2))
    BY HoldsAt, IsAtLess
  <1> QED
    BY <1>1 DEF Leads

\* The same for the sequences of one write.
LEMMA BundleLeads ==
  ASSUME FailedIsNoContent, NEW P, NEW B, NEW open, NEW M, NEW R, NEW b, NEW version,
         NEW o, o = [op |-> "bundle", bundle |-> b, version |-> version]
  PROVE  Leads(At(P, B, open, M, R), <<o>>, At(P, B \cup {b}, open, M, R))
  <1>1. \A d : Holds(d, At(P, B, open, M, R)) =>
          \E e : Does(d, o, e) /\ Holds(e, At(P, B \cup {b}, open, M, R))
    BY HoldsAt, BundleDone
  <1> QED
    BY <1>1, LeadsOne

LEMMA GraphLeads ==
  ASSUME FailedIsNoContent, NEW P, NEW B, NEW open, NEW M, NEW R,
         NEW path, ValidPath(path), path \notin P, Len(path) = 1 \/ Front(path) \in P,
         NEW o, o = [op |-> "graph", path |-> path]
  PROVE  Leads(At(P, B, open, M, R), <<o>>, At(P \cup {path}, B, {path}, {}, {}))
  <1>1. \A d : Holds(d, At(P, B, open, M, R)) =>
          \E e : Does(d, o, e) /\ Holds(e, At(P \cup {path}, B, {path}, {}, {}))
    BY HoldsAt, GraphDone
  <1> QED
    BY <1>1, LeadsOne

LEMMA MemberLeads ==
  ASSUME FailedIsNoContent, NEW P, NEW B, NEW path, NEW M, NEW R, ValidPath(path), path \in P,
         NEW b, b \notin M,
         NEW o, o = [op |-> "member", path |-> path, bundle |-> b]
  PROVE  Leads(At(P, B, {path}, M, R), <<o>>, At(P, B, {path}, M \cup {b}, R))
  <1>1. \A d : Holds(d, At(P, B, {path}, M, R)) =>
          \E e : Does(d, o, e) /\ Holds(e, At(P, B, {path}, M \cup {b}, R))
    BY HoldsAt, MemberDone
  <1> QED
    BY <1>1, LeadsOne

LEMMA EdgeLeads ==
  ASSUME FailedIsNoContent, NEW P, NEW B, NEW open, NEW M, NEW R,
         NEW path, ValidPath(path), path \in P, NEW b, NEW c,
         NEW o, o = [op |-> "edge", path |-> path, from |-> b, to |-> c]
  PROVE  Leads(At(P, B, open, M, R), <<o>>, At(P, B, open, M, R))
  <1>1. \A d : Holds(d, At(P, B, open, M, R)) =>
          \E e : Does(d, o, e) /\ Holds(e, At(P, B, open, M, R))
    BY HoldsAt, EdgeDone
  <1> QED
    BY <1>1, LeadsOne

LEMMA RangeLeads ==
  ASSUME FailedIsNoContent, NEW P, NEW B, NEW path, NEW M, NEW R, ValidPath(path), path \in P,
         NEW b \in B, b \notin R, NEW versions, versions # None,
         NEW o, o = [op |-> "range", path |-> path, bundle |-> b, versions |-> versions]
  PROVE  Leads(At(P, B, {path}, M, R), <<o>>, At(P, B, {path}, M, R \cup {b}))
  <1>1. \A d : Holds(d, At(P, B, {path}, M, R)) =>
          \E e : Does(d, o, e) /\ Holds(e, At(P, B, {path}, M, R \cup {b}))
    BY HoldsAt, RangeDone
  <1> QED
    BY <1>1, LeadsOne

LEMMA DeprecationLeads ==
  ASSUME FailedIsNoContent, NEW P, NEW B, NEW r, Deprecates(r), NEW o, o = DeprecationWrite(r)
  PROVE  Leads(At(P, B, {}, {}, {}), <<o>>, At(P, B, {}, {}, {}))
  <1>1. \A d : Holds(d, At(P, B, {}, {}, {})) =>
          \E e : Does(d, o, e) /\ Holds(e, At(P, B, {}, {}, {}))
    BY HoldsAt, DeprecationDone
  <1> QED
    BY <1>1, LeadsOne

\* The edges to an entry, and its range, of a bundle that has none yet.
LEMMA EntryLeads ==
  ASSUME FailedIsNoContent, NEW P, NEW B, NEW path, NEW M, NEW R, ValidPath(path), path \in P,
         NEW e, IsFiniteSet(e.skips), e.bundle \in B, e.bundle \notin R
  PROVE  Leads(At(P, B, {path}, M, R), EntryWrites(path, e),
               At(P, B, {path}, M, R \cup {e.bundle}))
  <1> DEFINE from == (IF e.replaces = None THEN {} ELSE {e.replaces}) \cup e.skips
             n == Cardinality(from)
             edge(b) == << [op |-> "bundle", bundle |-> b, version |-> NoVersion],
                           [op |-> "edge", path |-> path, from |-> b, to |-> e.bundle] >>
             seqs == [i \in 1 .. n |-> edge(SetToSeq(from)[i])]
             last == IF e.range = None THEN <<>>
                     ELSE << [op |-> "range", path |-> path, bundle |-> e.bundle,
                              versions |-> e.range] >>
             a == At(P, B, {path}, M, R)
  <1>1. EntryWrites(path, e) = FlattenSeq(seqs) \o last
    BY DEF EntryWrites
  <1>2. n \in Nat
    <2>1. IsFiniteSet(from)
      BY FS_EmptySet, FS_Singleton, FS_Union
    <2> QED
      BY <2>1, FS_CardinalityType
  <1>3. \A b : Leads(a, edge(b), a)
    <2> TAKE b
    <2> DEFINE x == [op |-> "bundle", bundle |-> b, version |-> NoVersion]
               y == [op |-> "edge", path |-> path, from |-> b, to |-> e.bundle]
    <2>1. Leads(a, <<x>>, At(P, B \cup {b}, {path}, M, R))
      BY BundleLeads
    <2>2. Leads(At(P, B \cup {b}, {path}, M, R), <<y>>, At(P, B \cup {b}, {path}, M, R))
      BY EdgeLeads
    <2>3. edge(b) = <<x>> \o <<y>>
      OBVIOUS
    <2> HIDE DEF x, y, a, edge
    <2>4. Leads(a, edge(b), At(P, B \cup {b}, {path}, M, R))
      BY <2>1, <2>2, <2>3, LeadsOn
    <2> QED
      BY <2>4, LeadsLess DEF a
  <1>4. Leads(a, last, At(P, B, {path}, M, R \cup {e.bundle}))
    <2>1. CASE e.range = None
      <3>1. Leads(a, <<>>, a) /\ last = <<>>
        BY <2>1, LeadsNone
      <3> HIDE DEF last
      <3>2. Leads(At(P, B, {path}, M, R), last, At(P, B, {path}, M, R))
        BY <3>1
      <3> QED
        BY <3>2, LeadsLess
    <2>2. CASE e.range # None
      <3> DEFINE o == [op |-> "range", path |-> path, bundle |-> e.bundle, versions |-> e.range]
      <3>1. PICK b, versions : b = e.bundle /\ versions = e.range
        OBVIOUS
      <3>2. last = <<o>> /\ o = [op |-> "range", path |-> path, bundle |-> b, versions |-> versions]
        BY <2>2, <3>1
      <3> HIDE DEF o, last
      <3>3. Leads(At(P, B, {path}, M, R), <<o>>, At(P, B, {path}, M, R \cup {b}))
        BY <2>2, <3>1, <3>2, RangeLeads
      <3> QED
        BY <3>1, <3>2, <3>3
    <2> QED
      BY <2>1, <2>2
  <1> HIDE DEF edge, n, last, a
  <1>5. seqs = [i \in 1 .. n |-> seqs[i]] /\ \A i \in 1 .. n : Leads(a, seqs[i], a)
    BY <1>3
  <1> HIDE DEF seqs
  <1>6. Leads(a, FlattenSeq(seqs), a)
    <2> DEFINE St == [i \in 0 .. n |-> a]
    <2>1. \A i \in 0 .. n : St[i] = a
      OBVIOUS
    <2> HIDE DEF St
    <2>2. /\ St[0] = a /\ St[n] = a
          /\ \A i \in 1 .. n : i \in 0 .. n /\ i - 1 \in 0 .. n
      BY <1>2, <2>1
    <2>3. \A i \in 1 .. n : Leads(St[i - 1], seqs[i], St[i])
      BY <1>5, <2>1, <2>2
    <2>4. Leads(St[0], FlattenSeq(seqs), St[n])
      BY <1>2, <1>5, <2>3, LeadsFlattened
    <2> QED
      BY <2>2, <2>4
  <1>7. Leads(a, FlattenSeq(seqs) \o last, At(P, B, {path}, M, R \cup {e.bundle}))
    BY <1>4, <1>6, LeadsOn
  <1> QED
    BY <1>1, <1>7 DEF a

\* A channel with a name, whose entries are different bundles of its package.
Sound(ch, B) ==
  /\ Listed(ch) /\ ch.pkg \in Segments /\ ch.name \in Segments
  /\ \A i \in DOMAIN ch.entries : ch.entries[i].bundle \in B
  /\ \A i, j \in DOMAIN ch.entries : i # j => ch.entries[i].bundle # ch.entries[j].bundle

\* The graph of a channel is below that of its package.
LEMMA FrontOfTwo ==
  ASSUME NEW a, NEW b
  PROVE  Front(<<a, b>>) = <<a>>
  <1>1. PICK s : s = <<a, b>>
    OBVIOUS
  <1>2. s \in Seq({a, b}) /\ Len(s) = 2 /\ s[1] = a
    BY <1>1
  <1>3. SubSeq(s, 1, 1) = SubSeq(s, 1, 1 - 1) \o <<s[1]>> /\ SubSeq(s, 1, 1 - 1) = <<>>
    <2>1. 1 \in 1 .. Len(s)
      BY <1>2
    <2>2. SubSeq(s, 1, 1) = SubSeq(s, 1, 1 - 1) \o <<s[1]>>
      BY <1>2, <2>1, SubSeqRecursiveSecond
    <2>3. SubSeq(s, 1, 0) = <<>>
      BY SubSeqEmpty
    <2> QED
      BY <2>2, <2>3
  <1>4. <<>> \o <<a>> = <<a>>
    OBVIOUS
  <1>5. Front(s) = SubSeq(s, 1, 1)
    BY <1>2 DEF Front
  <1> QED
    BY <1>1, <1>2, <1>3, <1>4, <1>5

\* writeChannel of a channel that is not there yet, in a package that is.
LEMMA ChannelLeads ==
  ASSUME FailedIsNoContent, NEW P, NEW B, NEW ch, Sound(ch, B),
         <<ch.pkg>> \in P, <<ch.pkg, ch.name>> \notin P
  PROVE  Leads(At(P, B, {}, {}, {}), ChannelWrites(ch),
               At(P \cup {<<ch.pkg, ch.name>>}, B, {}, {}, {}))
  <1> DEFINE path == <<ch.pkg, ch.name>>
             n == Len(ch.entries)
             graph == [op |-> "graph", path |-> path]
             members == [i \in 1 .. n |-> [op |-> "member", path |-> path,
                                           bundle |-> ch.entries[i].bundle]]
             seqs == [i \in 1 .. n |-> EntryWrites(path, ch.entries[i])]
             Q == P \cup {path}
             upTo(i) == {ch.entries[j].bundle : j \in 1 .. i}
             all == upTo(n)
  <1>1. ChannelWrites(ch) = <<graph>> \o members \o FlattenSeq(seqs)
    BY DEF ChannelWrites
  <1>2. n \in Nat /\ DOMAIN ch.entries = 1 .. n
    BY LenProperties DEF Sound, Listed
  <1>3. ValidPath(path) /\ Front(path) \in P /\ path \in Q
    <2>1. Front(path) = <<ch.pkg>>
      BY FrontOfTwo
    <2>2. ValidPath(path)
      BY DEF ValidPath, Sound
    <2> QED
      BY <2>1, <2>2
  <1>4. /\ upTo(0) = {}
        /\ \A i \in 1 .. n : /\ ch.entries[i].bundle \notin upTo(i - 1)
                             /\ upTo(i) = upTo(i - 1) \cup {ch.entries[i].bundle}
    <2>1. upTo(0) = {}
      OBVIOUS
    <2>2. ASSUME NEW i \in 1 .. n
          PROVE  /\ ch.entries[i].bundle \notin upTo(i - 1)
                 /\ upTo(i) = upTo(i - 1) \cup {ch.entries[i].bundle}
      <3>1. /\ 1 .. i = (1 .. (i - 1)) \cup {i} /\ i \notin 1 .. (i - 1)
            /\ \A j \in 1 .. (i - 1) : j \in 1 .. n
        BY <1>2
      <3>2. ch.entries[i].bundle \notin upTo(i - 1)
        BY <1>2, <3>1 DEF Sound
      <3>3. upTo(i) = upTo(i - 1) \cup {ch.entries[i].bundle}
        BY <3>1
      <3> QED
        BY <3>2, <3>3
    <2> QED
      BY <2>1, <2>2
  <1>5. Leads(At(P, B, {}, {}, {}), <<graph>>, At(Q, B, {path}, {}, {}))
    <2>1. path \notin P
      OBVIOUS
    <2> HIDE DEF path
    <2> QED
      BY <1>3, <2>1, GraphLeads
  <1> HIDE DEF path, Q
  <1>6. Leads(At(Q, B, {path}, {}, {}), members, At(Q, B, {path}, all, {}))
    <2> DEFINE St == [i \in 0 .. n |-> At(Q, B, {path}, upTo(i), {})]
    <2>1. members = [i \in 1 .. n |-> members[i]]
      OBVIOUS
    <2>2. \A i \in 0 .. n : St[i] = At(Q, B, {path}, upTo(i), {})
      OBVIOUS
    <2>3. ASSUME NEW i \in 1 .. n
          PROVE  Leads(St[i - 1], <<members[i]>>, St[i])
      <3>1. PICK b : b = ch.entries[i].bundle
        OBVIOUS
      <3>2. members[i] = [op |-> "member", path |-> path, bundle |-> b]
        BY <3>1
      <3>3. i \in 0 .. n /\ i - 1 \in 0 .. n
        BY <1>2
      <3>4. /\ St[i - 1] = At(Q, B, {path}, upTo(i - 1), {})
            /\ St[i] = At(Q, B, {path}, upTo(i - 1) \cup {b}, {})
            /\ b \notin upTo(i - 1)
        BY <1>4, <2>2, <3>1, <3>3
      <3> HIDE DEF St, members, upTo
      <3> QED
        BY <1>3, <3>2, <3>4, MemberLeads
    <2>4. 0 \in 0 .. n /\ n \in 0 .. n
      BY <1>2
    <2>5. St[0] = At(Q, B, {path}, {}, {}) /\ St[n] = At(Q, B, {path}, all, {})
      BY <1>4, <2>2, <2>4
    <2> HIDE DEF St, members, upTo, n, all
    <2>6. Leads(St[0], members, St[n])
      BY <1>2, <2>1, <2>3, LeadsMapped
    <2> QED
      BY <2>5, <2>6
  <1>7. Leads(At(Q, B, {path}, all, {}), FlattenSeq(seqs), At(Q, B, {path}, all, all))
    <2> DEFINE St == [i \in 0 .. n |-> At(Q, B, {path}, all, upTo(i))]
    <2>1. seqs = [i \in 1 .. n |-> seqs[i]]
      OBVIOUS
    <2>2. \A i \in 0 .. n : St[i] = At(Q, B, {path}, all, upTo(i))
      OBVIOUS
    <2>3. ASSUME NEW i \in 1 .. n
          PROVE  Leads(St[i - 1], seqs[i], St[i])
      <3>1. PICK e : e = ch.entries[i]
        OBVIOUS
      <3>2. seqs[i] = EntryWrites(path, e)
        BY <3>1
      <3>3. i \in 0 .. n /\ i - 1 \in 0 .. n
        BY <1>2
      <3>4. /\ St[i - 1] = At(Q, B, {path}, all, upTo(i - 1))
            /\ St[i] = At(Q, B, {path}, all, upTo(i - 1) \cup {e.bundle})
            /\ e.bundle \notin upTo(i - 1)
        BY <1>4, <2>2, <3>1, <3>3
      <3>5. IsFiniteSet(e.skips) /\ e.bundle \in B
        BY <1>2, <3>1 DEF Sound, Listed
      <3> HIDE DEF St, seqs, upTo, all
      <3> QED
        BY <1>3, <3>2, <3>4, <3>5, EntryLeads
    <2>4. 0 \in 0 .. n /\ n \in 0 .. n
      BY <1>2
    <2>5. St[0] = At(Q, B, {path}, all, {}) /\ St[n] = At(Q, B, {path}, all, all)
      BY <1>4, <2>2, <2>4
    <2> HIDE DEF St, seqs, upTo, n, all
    <2>6. Leads(St[0], FlattenSeq(seqs), St[n])
      BY <1>2, <2>1, <2>3, LeadsFlattened
    <2> QED
      BY <2>5, <2>6
  <1> HIDE DEF graph, members, seqs, all
  <1>8. Leads(At(P, B, {}, {}, {}), <<graph>> \o members, At(Q, B, {path}, all, {}))
    BY <1>5, <1>6, LeadsOn
  <1>9. Leads(At(P, B, {}, {}, {}), (<<graph>> \o members) \o FlattenSeq(seqs),
              At(Q, B, {path}, all, all))
    BY <1>7, <1>8, LeadsOn
  <1>10. \A d : Holds(d, At(Q, B, {path}, all, all)) => Holds(d, At(Q, B, {}, {}, {}))
    <2> TAKE d
    <2> HAVE Holds(d, At(Q, B, {path}, all, all))
    <2>1. IsAt(d, Q, B, {path}, all, all)
      BY HoldsAt
    <2>2. IsAt(d, Q, B, {}, {}, {})
      BY <2>1 DEF IsAt, Room
    <2> QED
      BY <2>2, HoldsAt
  <1>11. Leads(At(P, B, {}, {}, {}), ChannelWrites(ch), At(Q, B, {}, {}, {}))
    BY <1>1, <1>9, <1>10 DEF Leads
  <1> QED
    BY <1>11 DEF Q, path

BundleNames(rows, pkg) == {b.name : b \in StagedOf(rows, "bundle", pkg)}

\* The deprecations that writeDeprecations writes.
Deprecations(rows, pkg) ==
  {r \in StagedOf(rows, "deprecation", pkg) : r.schema \in {"package", "channel", "bundle"}}

\* A package in which no write can fail.
Writable(rows, pkg) ==
  /\ pkg \in Segments /\ IsFiniteSet(rows)
  /\ \A ch \in StagedOf(rows, "channel", pkg) : Sound(ch, BundleNames(rows, pkg))
  /\ \A b, c \in StagedOf(rows, "channel", pkg) : b.name = c.name => b = c
  /\ \A r \in Deprecations(rows, pkg) : Deprecates(r)

\* The bundles of a package.
LEMMA BundlesLead ==
  ASSUME FailedIsNoContent, NEW P, NEW S, IsFiniteSet(S),
         NEW s, s = [i \in DOMAIN SetToSeq(S) |->
                       [op |-> "bundle", bundle |-> SetToSeq(S)[i].name,
                        version |-> SetToSeq(S)[i].version]]
  PROVE  Leads(At(P, {}, {}, {}, {}), s, At(P, {b.name : b \in S}, {}, {}, {}))
  <1>1. PICK q : q = SetToSeq(S)
    OBVIOUS
  <1>2. PICK n \in Nat : DOMAIN q = 1 .. n /\ \A r \in S : \E i \in 1 .. n : q[i] = r
    BY <1>1, RowsAllRead
  <1> DEFINE upTo(i) == {q[j].name : j \in 1 .. i}
             St == [i \in 0 .. n |-> At(P, upTo(i), {}, {}, {})]
  <1>3. /\ s = [i \in 1 .. n |-> s[i]]
        /\ \A i \in 1 .. n : s[i] = [op |-> "bundle", bundle |-> q[i].name, version |-> q[i].version]
    BY <1>1, <1>2
  <1>4. \A i \in 0 .. n : St[i] = At(P, upTo(i), {}, {}, {})
    OBVIOUS
  <1>5. ASSUME NEW i \in 1 .. n
        PROVE  Leads(St[i - 1], <<s[i]>>, St[i])
    <2>1. PICK b, version : b = q[i].name /\ version = q[i].version
      OBVIOUS
    <2>2. s[i] = [op |-> "bundle", bundle |-> b, version |-> version]
      BY <1>3, <2>1
    <2>3. i \in 0 .. n /\ i - 1 \in 0 .. n /\ 1 .. i = (1 .. (i - 1)) \cup {i}
      BY <1>2
    <2>4. upTo(i) = upTo(i - 1) \cup {b}
      BY <2>1, <2>3
    <2>5. St[i - 1] = At(P, upTo(i - 1), {}, {}, {}) /\ St[i] = At(P, upTo(i - 1) \cup {b}, {}, {}, {})
      BY <1>4, <2>3, <2>4
    <2> HIDE DEF St, upTo
    <2>6. PICK U, o : U = upTo(i - 1) /\ o = s[i]
      OBVIOUS
    <2>7. Leads(At(P, U, {}, {}, {}), <<o>>, At(P, U \cup {b}, {}, {}, {}))
      BY <2>2, <2>6, BundleLeads
    <2> QED
      BY <2>5, <2>6, <2>7
  <1>6. 0 \in 0 .. n /\ n \in 0 .. n /\ upTo(0) = {} /\ {b.name : b \in S} \subseteq upTo(n)
    BY <1>2
  <1>7. St[0] = At(P, {}, {}, {}, {}) /\ St[n] = At(P, upTo(n), {}, {}, {})
    BY <1>4, <1>6
  <1> HIDE DEF St, upTo
  <1>8. Leads(St[0], s, St[n])
    BY <1>3, <1>5, LeadsMapped
  <1>9. Leads(At(P, {}, {}, {}, {}), s, At(P, upTo(n), {}, {}, {}))
    BY <1>7, <1>8
  <1> QED
    BY <1>6, <1>9, LeadsLess

\* The channels of a package, whose names differ.
LEMMA ChannelsLead ==
  ASSUME FailedIsNoContent, NEW P, NEW B, NEW pkg, NEW S, IsFiniteSet(S),
         \A ch \in S : Sound(ch, B) /\ ch.pkg = pkg,
         \A b, c \in S : b.name = c.name => b = c,
         <<pkg>> \in P, \A path \in P : path = <<pkg>> \/ path[1] # pkg,
         NEW seqs, seqs = [i \in DOMAIN SetToSeq(S) |-> ChannelWrites(SetToSeq(S)[i])]
  PROVE  \E Q : Leads(At(P, B, {}, {}, {}), FlattenSeq(seqs), At(Q, B, {}, {}, {}))
  <1>1. PICK q : q = SetToSeq(S)
    OBVIOUS
  <1>2. PICK n \in Nat : /\ DOMAIN q = 1 .. n /\ \A i \in 1 .. n : q[i] \in S
                         /\ \A i, j \in 1 .. n : q[i] = q[j] => i = j
    BY <1>1, RowsAllRead
  <1> DEFINE path(i) == <<pkg, q[i].name>>
             upTo(i) == P \cup {path(j) : j \in 1 .. i}
             St == [i \in 0 .. n |-> At(upTo(i), B, {}, {}, {})]
  <1>3. seqs = [i \in 1 .. n |-> seqs[i]] /\ \A i \in 1 .. n : seqs[i] = ChannelWrites(q[i])
    BY <1>1, <1>2
  <1>4. \A i \in 0 .. n : St[i] = At(upTo(i), B, {}, {}, {})
    OBVIOUS
  <1>5. ASSUME NEW i \in 1 .. n
        PROVE  Leads(St[i - 1], seqs[i], St[i])
    <2>1. PICK ch : ch = q[i]
      OBVIOUS
    <2>2. ch \in S /\ ch.pkg = pkg /\ Sound(ch, B) /\ path(i) = <<ch.pkg, ch.name>>
      BY <1>2, <2>1
    <2>3. /\ i \in 0 .. n /\ i - 1 \in 0 .. n /\ 1 .. i = (1 .. (i - 1)) \cup {i}
          /\ \A j \in 1 .. (i - 1) : j \in 1 .. n /\ j # i
      BY <1>2
    <2>4. upTo(i) = upTo(i - 1) \cup {path(i)}
      BY <2>3
    <2>5. path(i) \notin upTo(i - 1)
      <3>1. path(i) \notin P
        <4>1. path(i)[1] = pkg /\ path(i) # <<pkg>>
          OBVIOUS
        <4> HIDE DEF path
        <4> QED
          BY <4>1
      <3>2. ASSUME NEW j \in 1 .. (i - 1)
            PROVE  path(j) # path(i)
        <4>1. j \in 1 .. n /\ j # i
          BY <2>3
        <4>2. q[j].name # q[i].name
          BY <1>2, <4>1
        <4>3. path(j)[2] = q[j].name /\ path(i)[2] = q[i].name
          OBVIOUS
        <4> HIDE DEF path
        <4> QED
          BY <4>2, <4>3
      <3> HIDE DEF path
      <3> QED
        BY <3>1, <3>2
    <2>6. <<ch.pkg>> \in upTo(i - 1)
      BY <2>2
    <2>7. St[i - 1] = At(upTo(i - 1), B, {}, {}, {}) /\ St[i] = At(upTo(i - 1) \cup {path(i)}, B, {}, {}, {})
      BY <1>4, <2>3, <2>4
    <2>8. seqs[i] = ChannelWrites(ch)
      BY <1>3, <2>1
    <2> HIDE DEF St, upTo, path
    <2>9. Leads(At(upTo(i - 1), B, {}, {}, {}), ChannelWrites(ch),
                At(upTo(i - 1) \cup {<<ch.pkg, ch.name>>}, B, {}, {}, {}))
      BY <2>2, <2>5, <2>6, ChannelLeads
    <2> QED
      BY <2>2, <2>7, <2>8, <2>9
  <1>6. 0 \in 0 .. n /\ n \in 0 .. n /\ upTo(0) = P
    BY <1>2
  <1>7. St[0] = At(P, B, {}, {}, {}) /\ St[n] = At(upTo(n), B, {}, {}, {})
    BY <1>4, <1>6
  <1> HIDE DEF St, upTo
  <1>8. Leads(St[0], FlattenSeq(seqs), St[n])
    BY <1>3, <1>5, LeadsFlattened
  <1> QED
    BY <1>7, <1>8

\* The deprecations of a package.
LEMMA DeprecationsLead ==
  ASSUME FailedIsNoContent, NEW P, NEW B, NEW S, IsFiniteSet(S), \A r \in S : Deprecates(r),
         NEW s, s = [i \in DOMAIN SetToSeq(S) |-> DeprecationWrite(SetToSeq(S)[i])]
  PROVE  Leads(At(P, B, {}, {}, {}), s, At(P, B, {}, {}, {}))
  <1>1. PICK q : q = SetToSeq(S)
    OBVIOUS
  <1>2. PICK n \in Nat : DOMAIN q = 1 .. n /\ \A i \in 1 .. n : q[i] \in S
    BY <1>1, RowsAllRead
  <1>3. PICK a : a = At(P, B, {}, {}, {})
    OBVIOUS
  <1>4. s = [i \in 1 .. n |-> s[i]] /\ \A i \in 1 .. n : s[i] = DeprecationWrite(q[i])
    BY <1>1, <1>2
  <1> DEFINE St == [i \in 0 .. n |-> a]
  <1>5. \A i \in 0 .. n : St[i] = a
    OBVIOUS
  <1> HIDE DEF St
  <1>6. /\ St[0] = a /\ St[n] = a
        /\ \A i \in 1 .. n : i \in 0 .. n /\ i - 1 \in 0 .. n
    BY <1>2, <1>5
  <1>7. ASSUME NEW i \in 1 .. n
        PROVE  Leads(St[i - 1], <<s[i]>>, St[i])
    <2>1. PICK r, o : r = q[i] /\ o = s[i]
      OBVIOUS
    <2>2. Deprecates(r) /\ o = DeprecationWrite(r)
      BY <1>2, <1>4, <2>1
    <2>3. Leads(a, <<o>>, a)
      BY <1>3, <2>2, DeprecationLeads
    <2> QED
      BY <1>5, <1>6, <2>1, <2>3
  <1>8. Leads(St[0], s, St[n])
    BY <1>4, <1>7, LeadsMapped
  <1> QED
    BY <1>3, <1>6, <1>8

\* writePackage of a package of which nothing is there.
LEMMA PackageLeads ==
  ASSUME FailedIsNoContent, NEW rows, NEW pkg, Writable(rows, pkg),
         NEW P, \A path \in P : path[1] # pkg
  PROVE  \E b : Leads(At(P, {}, {}, {}, {}), PackageWrites(rows, pkg), b)
  <1> DEFINE bundles == SetToSeq(StagedOf(rows, "bundle", pkg))
             channels == SetToSeq(StagedOf(rows, "channel", pkg))
             deprecations == SetToSeq(Deprecations(rows, pkg))
             graph == [op |-> "graph", path |-> <<pkg>>]
             first == [i \in DOMAIN bundles |-> [op |-> "bundle", bundle |-> bundles[i].name,
                                                 version |-> bundles[i].version]]
             seqs == [i \in DOMAIN channels |-> ChannelWrites(channels[i])]
             last == [i \in DOMAIN deprecations |-> DeprecationWrite(deprecations[i])]
             Q == P \cup {<<pkg>>}
             B == BundleNames(rows, pkg)
  <1>1. PackageWrites(rows, pkg) = <<graph>> \o first \o FlattenSeq(seqs) \o last
    BY DEF PackageWrites, Deprecations
  <1>2. (\A kind : IsFiniteSet(StagedOf(rows, kind, pkg))) /\ IsFiniteSet(Deprecations(rows, pkg))
    <2>1. \A kind : IsFiniteSet(StagedOf(rows, kind, pkg))
      BY FS_Subset DEF StagedOf, Writable
    <2>2. Deprecations(rows, pkg) \subseteq StagedOf(rows, "deprecation", pkg)
      BY DEF Deprecations
    <2> QED
      BY <2>1, <2>2, FS_Subset
  <1>3. Leads(At(P, {}, {}, {}, {}), <<graph>>, At(Q, {}, {}, {}, {}))
    <2>1. PICK path : path = <<pkg>>
      OBVIOUS
    <2>2. path[1] = pkg /\ ValidPath(path) /\ Len(path) = 1
      BY <2>1 DEF ValidPath, Writable
    <2>3. path \notin P /\ graph = [op |-> "graph", path |-> path]
      BY <2>1, <2>2
    <2> HIDE DEF graph
    <2>4. Leads(At(P, {}, {}, {}, {}), <<graph>>, At(P \cup {path}, {}, {path}, {}, {}))
      BY <2>2, <2>3, GraphLeads
    <2> QED
      BY <2>1, <2>4, LeadsLess
  <1>4. Leads(At(Q, {}, {}, {}, {}), first, At(Q, B, {}, {}, {}))
    <2> HIDE DEF Q
    <2>1. Leads(At(Q, {}, {}, {}, {}), first,
                At(Q, {b.name : b \in StagedOf(rows, "bundle", pkg)}, {}, {}, {}))
      BY <1>2, BundlesLead
    <2> QED
      BY <2>1 DEF BundleNames
  <1>5. PICK W : Leads(At(Q, B, {}, {}, {}), FlattenSeq(seqs), At(W, B, {}, {}, {}))
    <2>1. /\ \A ch \in StagedOf(rows, "channel", pkg) : Sound(ch, B) /\ ch.pkg = pkg
          /\ \A b, c \in StagedOf(rows, "channel", pkg) : b.name = c.name => b = c
      BY DEF Writable, StagedOf
    <2>2. <<pkg>> \in Q /\ \A path \in Q : path = <<pkg>> \/ path[1] # pkg
      OBVIOUS
    <2>3. PICK S : S = StagedOf(rows, "channel", pkg) /\ IsFiniteSet(S)
      BY <1>2
    <2>4. seqs = [i \in DOMAIN SetToSeq(S) |-> ChannelWrites(SetToSeq(S)[i])]
      BY <2>3
    <2> HIDE DEF seqs, Q, B
    <2> QED
      BY <2>1, <2>2, <2>3, <2>4, ChannelsLead
  <1>6. Leads(At(W, B, {}, {}, {}), last, At(W, B, {}, {}, {}))
    <2>1. \A r \in Deprecations(rows, pkg) : Deprecates(r)
      BY DEF Writable
    <2> HIDE DEF B
    <2> QED
      BY <1>2, <2>1, DeprecationsLead
  <1> HIDE DEF graph, first, seqs, last, Q, B
  <1>7. Leads(At(P, {}, {}, {}, {}), <<graph>> \o first, At(Q, B, {}, {}, {}))
    BY <1>3, <1>4, LeadsOn
  <1>8. Leads(At(P, {}, {}, {}, {}), (<<graph>> \o first) \o FlattenSeq(seqs), At(W, B, {}, {}, {}))
    BY <1>5, <1>7, LeadsOn
  <1>9. Leads(At(P, {}, {}, {}, {}), ((<<graph>> \o first) \o FlattenSeq(seqs)) \o last,
              At(W, B, {}, {}, {}))
    BY <1>6, <1>8, LeadsOn
  <1> QED
    BY <1>1, <1>9

-----------------------------------------------------------------------------
(***************************************************************************)
(* Which writes fail in any content.                                       *)
(***************************************************************************)
\* A write to what is no path.
Doomed(o) ==
  \/ o.op = "graph" /\ ~ValidPath(o.path)
  \/ o.op = "deprecate graph" /\ o.path # <<>> /\ ~ValidPath(o.path)

DoomedIn(s) == \E o \in ToSet(s) : Doomed(o)

\* CreateGraph and SetGraphDeprecation refuse what is no path.
LEMMA DoomedFails ==
  ASSUME NEW o, Doomed(o), NEW d
  PROVE  Apply(d, Catalog, 1, o) = Failed
  <1>1. CASE o.op = "graph" /\ ~ValidPath(o.path)
    <2>1. Apply(d, Catalog, 1, o) = CreateGraph(d, Catalog, 1, o.path)
      BY <1>1 DEF Apply
    <2> QED
      BY <1>1, <2>1 DEF CreateGraph
  <1>2. CASE o.op = "deprecate graph" /\ o.path # <<>> /\ ~ValidPath(o.path)
    <2>1. Apply(d, Catalog, 1, o) = SetGraphDeprecation(d, Catalog, o.path, o.message)
      BY <1>2 DEF Apply
    <2> QED
      BY <1>2, <2>1 DEF SetGraphDeprecation
  <1> QED
    BY <1>1, <1>2 DEF Doomed

LEMMA DoomedJoined ==
  ASSUME NEW b, NEW c, IsSeq(b), IsSeq(c)
  PROVE  DoomedIn(b \o c) <=> DoomedIn(b) \/ DoomedIn(c)
  <1>1. ToSet(b \o c) = ToSet(b) \cup ToSet(c)
    BY SeqsJoined
  <1> QED
    BY <1>1 DEF DoomedIn

LEMMA DoomedOne ==
  ASSUME NEW o
  PROVE  DoomedIn(<<o>>) <=> Doomed(o)
  BY ToSetOfOne DEF DoomedIn

\* A write that succeeds was not the one bound to fail.
LEMMA DoomedLeft ==
  ASSUME NEW s, IsSeq(s), s # <<>>, DoomedIn(s), ~Doomed(Head(s))
  PROVE  DoomedIn(Tail(s))
  <1>1. PICK o \in ToSet(s) : Doomed(o)
    BY DEF DoomedIn
  <1>2. o \in ToSet(Tail(s))
    BY <1>1, OthersLeft
  <1> QED
    BY <1>1, <1>2 DEF DoomedIn

LEMMA DoomedFlattened ==
  ASSUME NEW n \in Nat, NEW seqs, seqs = [i \in 1 .. n |-> seqs[i]],
         \A i \in 1 .. n : IsSeq(seqs[i]),
         NEW k \in 1 .. n, DoomedIn(seqs[k])
  PROVE  DoomedIn(FlattenSeq(seqs))
  <1>1. PICK o \in ToSet(seqs[k]) : Doomed(o)
    BY DEF DoomedIn
  <1>2. o \in ToSet(FlattenSeq(seqs))
    BY <1>1, FlattenedHas
  <1> QED
    BY <1>1, <1>2 DEF DoomedIn

\* A channel whose name is no segment of a path.
LEMMA ChannelIsDoomed ==
  ASSUME NEW ch, Listed(ch), ch.name \notin Segments
  PROVE  DoomedIn(ChannelWrites(ch))
  <1> DEFINE path == <<ch.pkg, ch.name>>
             n == Len(ch.entries)
             graph == [op |-> "graph", path |-> path]
             members == [i \in 1 .. n |-> [op |-> "member", path |-> path,
                                           bundle |-> ch.entries[i].bundle]]
             seqs == [i \in 1 .. n |-> EntryWrites(path, ch.entries[i])]
  <1>1. ChannelWrites(ch) = <<graph>> \o members \o FlattenSeq(seqs)
    BY DEF ChannelWrites
  <1>2. n \in Nat /\ DOMAIN ch.entries = 1 .. n
    BY LenProperties DEF Listed
  <1>3. DoomedIn(<<graph>>) /\ IsSeq(<<graph>>)
    <2>1. ~ValidPath(path)
      BY DEF ValidPath
    <2>2. Doomed(graph)
      BY <2>1 DEF Doomed
    <2> HIDE DEF graph
    <2> QED
      BY <2>2, DoomedOne, SeqOfOne
  <1>4. IsSeq(members)
    <2>1. members = [i \in 1 .. n |-> members[i]]
      OBVIOUS
    <2> HIDE DEF members
    <2> QED
      BY <1>2, <2>1, OwnElements DEF IsSeq
  <1>5. IsSeq(FlattenSeq(seqs))
    <2>1. seqs = [i \in 1 .. n |-> seqs[i]]
      OBVIOUS
    <2>2. ASSUME NEW i \in 1 .. n
          PROVE  WritesFor(seqs[i], ch.pkg)
      <3>1. IsFiniteSet(ch.entries[i].skips)
        BY <1>2 DEF Listed
      <3>2. WritesFor(EntryWrites(path, ch.entries[i]), ch.pkg)
        BY <3>1, EntryIsWritten
      <3> QED
        BY <3>2
    <2> HIDE DEF seqs, n
    <2>3. WritesFor(FlattenSeq(seqs), ch.pkg)
      BY <1>2, <2>1, <2>2, FlattenedWrites
    <2> QED
      BY <2>3 DEF WritesFor, IsSeq
  <1> HIDE DEF graph, members, seqs
  <1> DEFINE s == <<graph>> \o members
  <1>6. DoomedIn(s) /\ IsSeq(s)
    BY <1>3, <1>4, DoomedJoined, SeqsJoined
  <1> HIDE DEF s
  <1>7. DoomedIn(s \o FlattenSeq(seqs))
    BY <1>5, <1>6, DoomedJoined
  <1> QED
    BY <1>1, <1>7 DEF s

\* A package that makes or deprecates what is no path has a write that fails.
LEMMA PackageIsDoomed ==
  ASSUME IsFiniteSet(AllRows), NEW pkg, ~NamesAreSegments(pkg),
         \A ch \in StagedOf(AllRows, "channel", pkg) : Listed(ch)
  PROVE  DoomedIn(PackageWrites(AllRows, pkg))
  <1> DEFINE bundles == SetToSeq(StagedOf(AllRows, "bundle", pkg))
             channels == SetToSeq(StagedOf(AllRows, "channel", pkg))
             deprecations == SetToSeq(Deprecations(AllRows, pkg))
             graph == [op |-> "graph", path |-> <<pkg>>]
             first == [i \in DOMAIN bundles |-> [op |-> "bundle", bundle |-> bundles[i].name,
                                                 version |-> bundles[i].version]]
             seqs == [i \in DOMAIN channels |-> ChannelWrites(channels[i])]
             last == [i \in DOMAIN deprecations |-> DeprecationWrite(deprecations[i])]
  <1>1. PackageWrites(AllRows, pkg) = <<graph>> \o first \o FlattenSeq(seqs) \o last
    BY DEF PackageWrites, Deprecations
  <1>2. (\A kind : IsFiniteSet(StagedOf(AllRows, kind, pkg))) /\ IsFiniteSet(Deprecations(AllRows, pkg))
    <2>1. \A kind : IsFiniteSet(StagedOf(AllRows, kind, pkg))
      BY FS_Subset DEF StagedOf
    <2>2. Deprecations(AllRows, pkg) \subseteq StagedOf(AllRows, "deprecation", pkg)
      BY DEF Deprecations
    <2> QED
      BY <2>1, <2>2, FS_Subset
  <1>3. IsSeq(first)
    <2>1. PICK n \in Nat : DOMAIN bundles = 1 .. n
      BY <1>2, RowsRead
    <2>2. first = [i \in 1 .. n |-> first[i]]
      BY <2>1
    <2> HIDE DEF first
    <2> QED
      BY <2>2, OwnElements DEF IsSeq
  <1>4. PICK n \in Nat : /\ DOMAIN channels = 1 .. n
                         /\ \A i \in 1 .. n : channels[i] \in StagedOf(AllRows, "channel", pkg)
                         /\ \A ch \in StagedOf(AllRows, "channel", pkg) : \E i \in 1 .. n : channels[i] = ch
    BY <1>2, RowsAllRead
  <1>5. seqs = [i \in 1 .. n |-> seqs[i]] /\ \A i \in 1 .. n : seqs[i] = ChannelWrites(channels[i])
    BY <1>4
  <1>6. \A i \in 1 .. n : WritesFor(seqs[i], pkg) /\ IsSeq(seqs[i])
    <2> HIDE DEF seqs, channels
    <2> TAKE i \in 1 .. n
    <2>1. Listed(channels[i]) /\ channels[i].pkg = pkg
      BY <1>4 DEF StagedOf
    <2>2. WritesFor(ChannelWrites(channels[i]), channels[i].pkg)
      BY <2>1, ChannelIsWritten
    <2> QED
      BY <1>5, <2>1, <2>2 DEF WritesFor, IsSeq
  <1>7. IsSeq(FlattenSeq(seqs))
    <2> HIDE DEF seqs
    <2>1. WritesFor(FlattenSeq(seqs), pkg)
      BY <1>5, <1>6, FlattenedWrites
    <2> QED
      BY <2>1 DEF WritesFor, IsSeq
  <1>8. PICK m \in Nat : /\ DOMAIN deprecations = 1 .. m
                         /\ \A r \in Deprecations(AllRows, pkg) : \E i \in 1 .. m : deprecations[i] = r
    BY <1>2, RowsAllRead
  <1>9. last = [i \in 1 .. m |-> last[i]] /\ \A i \in 1 .. m : last[i] = DeprecationWrite(deprecations[i])
    BY <1>8
  <1>10. IsSeq(last)
    <2> HIDE DEF last
    <2> QED
      BY <1>9, OwnElements DEF IsSeq
  <1>11. DoomedIn(<<graph>>) \/ DoomedIn(FlattenSeq(seqs)) \/ DoomedIn(last)
    <2>1. CASE pkg \notin Segments
      <3>1. ~ValidPath(<<pkg>>)
        BY <2>1 DEF ValidPath
      <3>2. Doomed(graph)
        BY <3>1 DEF Doomed
      <3> HIDE DEF graph
      <3> QED
        BY <3>2, DoomedOne
    <2>2. CASE \E ch \in StagedOf(AllRows, "channel", pkg) : ch.name \notin Segments
      <3>1. PICK ch \in StagedOf(AllRows, "channel", pkg) : ch.name \notin Segments
        BY <2>2
      <3>2. PICK k \in 1 .. n : channels[k] = ch
        BY <1>4
      <3> HIDE DEF seqs, channels
      <3>3. DoomedIn(ChannelWrites(ch))
        BY <3>1, ChannelIsDoomed
      <3>4. DoomedIn(seqs[k])
        BY <1>5, <3>2, <3>3
      <3> QED
        BY <1>5, <1>6, <3>4, DoomedFlattened
    <2>3. CASE \E r \in StagedOf(AllRows, "deprecation", pkg) :
                 r.schema = "channel" /\ r.name \notin Segments
      <3>1. PICK r \in StagedOf(AllRows, "deprecation", pkg) :
              r.schema = "channel" /\ r.name \notin Segments
        BY <2>3
      <3>2. r \in Deprecations(AllRows, pkg)
        BY <3>1 DEF Deprecations
      <3>3. PICK k \in 1 .. m : deprecations[k] = r
        BY <1>8, <3>2
      <3>4. Doomed(DeprecationWrite(r))
        <4>1. PICK path, o : path = <<r.pkg, r.name>> /\ o = DeprecationWrite(r)
          OBVIOUS
        <4>2. o.op = "deprecate graph" /\ o.path = path
          BY <3>1, <4>1 DEF DeprecationWrite
        <4>3. ~ValidPath(path) /\ path # <<>>
          BY <3>1, <4>1 DEF ValidPath
        <4> QED
          BY <4>1, <4>2, <4>3 DEF Doomed
      <3> HIDE DEF last, deprecations
      <3>5. k \in DOMAIN last /\ Doomed(last[k])
        BY <1>9, <3>3, <3>4
      <3> QED
        BY <3>5 DEF DoomedIn, ToSet
    <2> QED
      BY <2>1, <2>2, <2>3 DEF NamesAreSegments
  <1> HIDE DEF graph, first, seqs, last
  <1>12. IsSeq(<<graph>>)
    BY SeqOfOne
  <1>13. /\ IsSeq(<<graph>> \o first)
         /\ DoomedIn(<<graph>> \o first) <=> DoomedIn(<<graph>>) \/ DoomedIn(first)
    BY <1>3, <1>12, SeqsJoined, DoomedJoined
  <1> DEFINE s == <<graph>> \o first
  <1> HIDE DEF s
  <1>14. IsSeq(s) /\ (DoomedIn(<<graph>>) => DoomedIn(s))
    BY <1>13 DEF s
  <1> DEFINE t == s \o FlattenSeq(seqs)
  <1>15. IsSeq(t) /\ (DoomedIn(s) \/ DoomedIn(FlattenSeq(seqs)) => DoomedIn(t))
    BY <1>7, <1>14, SeqsJoined, DoomedJoined
  <1> HIDE DEF t
  <1>16. DoomedIn(t) \/ DoomedIn(last) => DoomedIn(t \o last)
    BY <1>10, <1>15, DoomedJoined
  <1>17. PackageWrites(AllRows, pkg) = t \o last
    BY <1>1 DEF s, t
  <1> QED
    BY <1>11, <1>14, <1>15, <1>16, <1>17

-----------------------------------------------------------------------------
(***************************************************************************)
(* The errors of the packages.                                             *)
(***************************************************************************)
Early == phase \in {"ingest", "closed", "normalize"}

\* A package that waits has no graph yet, and one at fault waits, is written or is
\* recorded.
Waiting ==
  /\ todo \subseteq StagedPackages(AllRows)
  /\ \A g \in content.graphs : g.path[1] \notin todo
  /\ \A pkg \in FaultyPackages :
       pkg \in errs \/ pkg \in todo \/ (current # Idle /\ pkg = current.pkg)

\* The writes that are left succeed, all of them, or one of them is bound to fail.
Begun ==
  /\ current.pkg \in StagedPackages(AllRows) /\ current.pkg \notin todo
  /\ NamesAreSegments(current.pkg) => \E e : Runs(content, current.writes, e)
  /\ ~NamesAreSegments(current.pkg) => DoomedIn(current.writes)

FaultInv ==
  Early =>
    /\ Good(content)
    /\ ~cancelled => errs \subseteq FaultyPackages
    /\ phase # "normalize" => content = EmptyContent /\ current = Idle
    /\ phase = "normalize" => Waiting
    /\ current # Idle => Begun

\* What is at fault depends on the files alone.
LEMMA SameFaults ==
  ASSUME UNCHANGED files
  PROVE  /\ AllRows' = AllRows /\ FaultyPackages' = FaultyPackages
         /\ \A pkg : NamesAreSegments(pkg)' = NamesAreSegments(pkg)
  <1>1. Blobs' = Blobs
    BY DEF Blobs, Files
  <1>2. AllRows' = AllRows
    BY <1>1 DEF AllRows
  <1>3. \A pkg : MalformedOf(pkg)' = MalformedOf(pkg)
    BY <1>1 DEF MalformedOf
  <1>4. \A pkg : NamesAreSegments(pkg)' = NamesAreSegments(pkg)
    BY <1>2 DEF NamesAreSegments
  <1> QED
    BY <1>1, <1>2, <1>3, <1>4 DEF FaultyPackages

\* The walk records what is at fault, and nothing is written or begun.
LEMMA FaultsStay ==
  ASSUME FaultInv, UNCHANGED <<files, phase, todo, current, content>>,
         errs \subseteq errs', Early /\ ~cancelled' => errs' \subseteq FaultyPackages
  PROVE  FaultInv'
  <1>1. /\ AllRows' = AllRows /\ FaultyPackages' = FaultyPackages
        /\ \A pkg : NamesAreSegments(pkg)' = NamesAreSegments(pkg)
    BY SameFaults
  <1>2. Waiting => Waiting'
    BY <1>1 DEF Waiting, Idle
  <1>3. Begun => Begun'
    BY <1>1 DEF Begun
  <1> QED
    BY <1>1, <1>2, <1>3 DEF FaultInv, Early, Idle

\* A package whose blob does not parse is at fault.
LEMMA WalkFaults ==
  ASSUME ImportInv, FaultInv, NEW f \in Files, Walk(f)
  PROVE  FaultInv'
  <1>1. UNCHANGED <<files, cancelled, phase, todo, current, content>> /\ errs \subseteq errs'
    BY DEF Walk, Start, Abandon, SkipBlob, SendRow, SendCancelled, EndOfFile, laterVars
  <1>2. \A pkg \in errs' \ errs : pkg \in FaultyPackages
    <2> SUFFICES ASSUME NEW pkg \in errs' \ errs
                 PROVE  pkg \in FaultyPackages
      OBVIOUS
    <2>1. SkipBlob(f)
      BY DEF Walk, Start, Abandon, SendRow, SendCancelled, EndOfFile
    <2>2. AtBlob(f) /\ BlobOf(f).kind = "malformed" /\ pkg = BlobOf(f).pkg
      BY <2>1 DEF SkipBlob
    <2>3. BlobOf(f) \in Blobs
      BY <2>2, AtRow, FileBlobs DEF ImportInv
    <2> QED
      BY <2>2, <2>3 DEF FaultyPackages, MalformedOf
  <1>3. Early /\ ~cancelled' => errs' \subseteq FaultyPackages
    BY <1>1, <1>2 DEF FaultInv
  <1> QED
    BY <1>1, <1>3, FaultsStay

\* Past the walk every package at fault has its error or is staged.
LEMMA IngestedFaults ==
  ASSUME ImportInv, ImportInv', RefusalInv, FaultInv, Ingested
  PROVE  FaultInv'
  <1>1. /\ UNCHANGED <<files, walker, staged, errs, cancelled, current, content>> /\ phase = "closed"
        /\ \/ phase' = "returned"
           \/ phase' = "normalize" /\ todo' = StagedPackages(staged)
    BY DEF Ingested, Return, ingestVars
  <1>2. CASE phase' = "returned"
    BY <1>2 DEF FaultInv, Early
  <1>3. CASE phase' = "normalize" /\ todo' = StagedPackages(staged)
    <2>1. staged = AllRows /\ \A f \in Files : walker[f].read = Len(files[f])
      <3>1. (ImportInv => EveryRowStaged)'
        BY AllStaged, PTL
      <3>2. staged' = AllRows'
        BY <1>3, <3>1 DEF EveryRowStaged
      <3>3. Files' = Files
        BY <1>1 DEF Files
      <3>4. \A f \in Files : walker[f].status = "done"
        BY <1>1, <1>3, <3>3 DEF ImportInv, Joining
      <3>5. \A f \in Files : walker[f].read = Len(files[f])
        BY <3>4 DEF ImportInv, Reading
      <3> QED
        BY <1>1, <3>2, <3>5, SameFaults
    <2>2. \A pkg : MalformedOf(pkg) => pkg \in errs
      BY <2>1, MalformedRecorded DEF ImportInv, RefusalInv
    <2>3. content = EmptyContent /\ current = Idle
      BY <1>1 DEF FaultInv, Early
    <2>4. /\ todo' = StagedPackages(AllRows)
          /\ \A pkg \in FaultyPackages : pkg \in errs \/ pkg \in todo'
      BY <1>3, <2>1, <2>2 DEF FaultyPackages
    <2>5. AllRows' = AllRows /\ FaultyPackages' = FaultyPackages
      BY <1>1, SameFaults
    <2>6. Waiting'
      BY <1>1, <2>3, <2>4, <2>5 DEF Waiting, EmptyContent
    <2>7. Good(content') /\ (~cancelled' => errs' \subseteq FaultyPackages')
      BY <1>1, <2>5 DEF FaultInv, Early
    <2>8. phase' = "normalize" /\ current' = Idle
      BY <1>1, <1>3, <2>3
    <2> QED
      BY <2>6, <2>7, <2>8 DEF FaultInv, Idle
  <1> QED
    BY <1>1, <1>2, <1>3

\* The rows of a valid package whose names are names can be written.
LEMMA ValidIsWritable ==
  ASSUME Reading, RowsFit, IsFiniteSet(AllRows),
         NEW pkg, ValidPackage(AllRows, pkg), NamesAreSegments(pkg)
  PROVE  Writable(AllRows, pkg)
  <1>1. \A r \in AllRows : ~RowFails({}, r) /\ r \in Blobs
    BY DEF RowsFit, AllRows
  <1>2. ASSUME NEW ch \in StagedOf(AllRows, "channel", pkg)
        PROVE  Sound(ch, BundleNames(AllRows, pkg))
    <2>1. ch \in AllRows /\ ch.kind = "channel" /\ ch.pkg = pkg
      BY DEF StagedOf
    <2>2. Listed(ch)
      BY <2>1, RowsListed
    <2>3. \A i, j \in DOMAIN ch.entries : i # j => ch.entries[i].bundle # ch.entries[j].bundle
      BY <1>1, <2>1 DEF RowFails
    <2>4. \A i \in DOMAIN ch.entries : ch.entries[i].bundle \in BundleNames(AllRows, pkg)
      BY DEF ValidPackage, BundleNames
    <2>5. ch.pkg \in Segments /\ ch.name \in Segments
      BY <2>1 DEF NamesAreSegments
    <2> QED
      BY <2>2, <2>3, <2>4, <2>5 DEF Sound
  <1>3. ASSUME NEW b \in StagedOf(AllRows, "channel", pkg), NEW c \in StagedOf(AllRows, "channel", pkg),
               b.name = c.name
        PROVE  b = c
    <2>6. PICK f \in Files : \E i \in DOMAIN files[f] : b = files[f][i]
      BY DEF StagedOf, AllRows, Blobs
    <2>1. PICK i \in DOMAIN files[f] : b = files[f][i]
      BY <2>6
    <2>7. PICK g \in Files : \E j \in DOMAIN files[g] : c = files[g][j]
      BY DEF StagedOf, AllRows, Blobs
    <2>2. PICK j \in DOMAIN files[g] : c = files[g][j]
      BY <2>7
    <2>3. b.kind = "channel" /\ c.kind = "channel" /\ b.pkg = c.pkg
      BY DEF StagedOf
    <2>4. RowFails({b}, c)
      BY <1>3, <2>3 DEF RowFails
    <2>5. <<f, i>> = <<g, j>>
      BY <2>1, <2>2, <2>4 DEF RowsFit
    <2> QED
      BY <2>1, <2>2, <2>5
  <1>4. ASSUME NEW r \in Deprecations(AllRows, pkg)
        PROVE  Deprecates(r)
    <2>1. /\ r \in AllRows /\ r.kind = "deprecation" /\ r.pkg = pkg
          /\ r.schema \in {"package", "channel", "bundle"}
          /\ r \in StagedOf(AllRows, "deprecation", pkg)
      BY DEF Deprecations, StagedOf
    <2>2. r.message # None
      BY <1>1, <2>1 DEF RowFails
    <2> QED
      BY <2>1, <2>2 DEF NamesAreSegments, Deprecates
  <1> QED
    BY <1>2, <1>3, <1>4 DEF Writable, NamesAreSegments

\* A package that is begun either has a write that is bound to fail, and is at fault,
\* or has only writes that succeed.
LEMMA BeginFaults ==
  ASSUME FailedIsNoContent, ImportInv, RefusalInv, FaultInv, NEW pkg, BeginPackage(pkg)
  PROVE  FaultInv'
  <1>1. /\ UNCHANGED <<files, staged, cancelled, phase, content>>
        /\ phase = "normalize" /\ current = Idle /\ pkg \in todo /\ todo' = todo \ {pkg}
    BY DEF BeginPackage, ingestVars
  <1>2. staged = AllRows /\ RowsFit
    BY <1>1, AllStaged DEF EveryRowStaged
  <1>3. Good(content) /\ Waiting /\ (~cancelled => errs \subseteq FaultyPackages)
    BY <1>1 DEF FaultInv, Early
  <1>4. /\ AllRows' = AllRows /\ FaultyPackages' = FaultyPackages
        /\ \A x : NamesAreSegments(x)' = NamesAreSegments(x)
    BY <1>1, SameFaults
  <1>5. pkg \in StagedPackages(AllRows)
    BY <1>1, <1>3 DEF Waiting
  <1>6. ASSUME current' = Idle, errs' = errs \/ errs' = errs \cup {pkg},
               pkg \in errs' \/ pkg \notin FaultyPackages,
               ~cancelled => errs' \subseteq FaultyPackages
        PROVE  FaultInv'
    <2>1. Waiting'
      BY <1>1, <1>3, <1>4, <1>6 DEF Waiting
    <2> QED
      BY <1>1, <1>3, <1>4, <1>6, <2>1 DEF FaultInv, Idle
  <1>7. CASE pkg \in errs
    <2>1. UNCHANGED <<current, errs>>
      BY <1>7 DEF BeginPackage
    <2> QED
      BY <1>1, <1>3, <1>6, <1>7, <2>1
  <1>8. CASE pkg \notin errs /\ ~ValidPackage(staged, pkg)
    <2>1. UNCHANGED current /\ errs' = errs \cup {pkg}
      BY <1>8 DEF BeginPackage, Fail
    <2>2. pkg \in FaultyPackages
      <3>1. pkg \in {blob.pkg : blob \in Blobs}
        BY <1>5 DEF StagedPackages, AllRows
      <3> QED
        BY <1>2, <1>5, <1>8, <3>1 DEF FaultyPackages
    <2> QED
      BY <1>1, <1>3, <1>6, <2>1, <2>2
  <1>9. CASE pkg \notin errs /\ ValidPackage(staged, pkg)
    <2>1. PICK ws : ws = PackageWrites(AllRows, pkg)
      OBVIOUS
    <2>2. UNCHANGED errs /\ current' = [pkg |-> pkg, writes |-> ws]
      BY <1>2, <1>9, <2>1 DEF BeginPackage
    <2>3. IsFiniteSet(AllRows)
      BY <1>2 DEF RefusalInv
    <2>4. NamesAreSegments(pkg) => \E e : Runs(content, ws, e)
      <3> SUFFICES ASSUME NamesAreSegments(pkg)
                   PROVE  \E e : Runs(content, ws, e)
        OBVIOUS
      <3>1. Writable(AllRows, pkg)
        BY <1>2, <1>9, <2>3, ValidIsWritable DEF ImportInv
      <3>2. PICK P : P = Paths(content)
        OBVIOUS
      <3>3. \A path \in P : path[1] # pkg
        BY <1>1, <1>3, <3>2 DEF Waiting, Paths
      <3>4. PICK b : Leads(At(P, {}, {}, {}, {}), ws, b)
        BY <2>1, <3>1, <3>3, PackageLeads
      <3>5. IsAt(content, P, {}, {}, {}, {})
        BY <1>3, <3>2 DEF IsAt, Has, Room
      <3>6. Holds(content, At(P, {}, {}, {}, {}))
        BY <3>5, HoldsAt
      <3> QED
        BY <3>4, <3>6 DEF Leads
    <2>5. ~NamesAreSegments(pkg) => DoomedIn(ws)
      <3>1. \A ch \in StagedOf(AllRows, "channel", pkg) : Listed(ch)
        BY RowsListed DEF StagedOf, ImportInv
      <3> QED
        BY <2>1, <2>3, <3>1, PackageIsDoomed
    <2>6. current'.pkg = pkg /\ current'.writes = ws
      BY <2>2
    <2>7. Begun'
      BY <1>1, <1>4, <1>5, <2>4, <2>5, <2>6 DEF Begun
    <2>8. Waiting'
      <3>1. pkg \in FaultyPackages => ws # <<>>
        <4>1. ~MalformedOf(pkg)
          <5>1. \A f \in Files : walker[f].read = Len(files[f])
            BY <1>1 DEF ImportInv, Joining, Reading
          <5> QED
            BY <1>9, <5>1, MalformedRecorded DEF ImportInv, RefusalInv
        <4>2. ~DoomedIn(<<>>)
          BY DEF DoomedIn, ToSet
        <4> QED
          BY <1>2, <1>9, <2>5, <4>1, <4>2 DEF FaultyPackages
      <3>2. pkg \in FaultyPackages => current' # Idle
        BY <2>6, <3>1 DEF Idle
      <3> QED
        BY <1>1, <1>3, <1>4, <2>2, <2>6, <3>2 DEF Waiting
    <2> QED
      BY <1>1, <1>3, <1>4, <2>2, <2>7, <2>8 DEF FaultInv
  <1> QED
    BY <1>7, <1>8, <1>9

\* A package fails in a write only if it is at fault, or the import is cancelled.
LEMMA WriteFaults ==
  ASSUME FailedIsNoContent, ImportInv, RefusalInv, FaultInv, Write
  PROVE  FaultInv'
  <1>1. UNCHANGED <<files, staged, cancelled, phase, todo>> /\ current.writes # <<>>
    BY DEF Write, ingestVars
  <1>2. SUFFICES ASSUME Early
                 PROVE  FaultInv'
    BY <1>1 DEF FaultInv, Early
  <1>3. current # Idle
    BY <1>1 DEF Idle
  <1>4. /\ phase = "normalize" /\ Good(content) /\ Waiting /\ Begun
        /\ ~cancelled => errs \subseteq FaultyPackages
    BY <1>2, <1>3 DEF FaultInv, Early
  <1>5. /\ AllRows' = AllRows /\ FaultyPackages' = FaultyPackages
        /\ \A x : NamesAreSegments(x)' = NamesAreSegments(x)
    BY <1>1, SameFaults
  <1>6. PICK ws, pkg : ws = current.writes /\ pkg = current.pkg
    OBVIOUS
  <1>7. WritesFor(ws, pkg) /\ current = [pkg |-> pkg, writes |-> ws] /\ ws # <<>> /\ IsSeq(ws)
    BY <1>1, <1>3, <1>6 DEF RefusalInv, Writing, WritesFor, IsSeq
  <1>8. PICK o, next : o = Head(ws) /\ next = Apply(content, Catalog, 1, o)
    OBVIOUS
  <1>9. IsWrite(o, pkg) /\ WritesFor(Tail(ws), pkg)
    BY <1>7, <1>8, WritesLeft
  <1>10. \/ /\ next # Failed /\ content' = next /\ UNCHANGED errs
            /\ current' = IF Len(ws) = 1 THEN Idle ELSE [current EXCEPT !.writes = Tail(@)]
         \/ /\ next = Failed \/ cancelled
            /\ errs' = errs \cup {pkg} /\ current' = Idle /\ UNCHANGED content
    BY <1>6, <1>8 DEF Write, Fail
  <1>11. CASE /\ next # Failed /\ content' = next /\ UNCHANGED errs
              /\ current' = IF Len(ws) = 1 THEN Idle ELSE [current EXCEPT !.writes = Tail(@)]
    <2>1. Does(content, o, content')
      BY <1>8, <1>11 DEF Does
    <2>2. Good(content')
      <3>1. o.op \in Operations
        BY <1>9 DEF IsWrite
      <3> QED
        BY <1>4, <2>1, <3>1, GoodKept
    <2>3. \A g \in content'.graphs : g.path[1] \notin todo'
      <3>1. "graphs" \in DOMAIN content /\ \A g \in content.graphs : "path" \in DOMAIN g
        BY DEF RefusalInv, Written
      <3>2. PathsOf(content', content, pkg)
        BY <1>8, <1>9, <1>11, <3>1, ApplyPaths
      <3>3. pkg \notin todo /\ \A g \in content.graphs : g.path[1] \notin todo
        BY <1>4, <1>6 DEF Waiting, Begun
      <3> QED
        BY <1>1, <3>2, <3>3 DEF PathsOf
    <2>4. ASSUME NamesAreSegments(pkg)
          PROVE  \E e : Runs(content', Tail(ws), e)
      <3>1. PICK e : Runs(content, ws, e)
        BY <1>4, <1>6, <2>4 DEF Begun
      <3>2. PICK c : Does(content, o, c) /\ Runs(c, Tail(ws), e)
        BY <1>7, <1>8, <3>1, RunsHead
      <3>3. c = content'
        BY <2>1, <3>2 DEF Does
      <3> QED
        BY <3>2, <3>3
    <2>5. ASSUME ~NamesAreSegments(pkg)
          PROVE  DoomedIn(Tail(ws))
      <3>1. DoomedIn(ws)
        BY <1>4, <1>6, <2>5 DEF Begun
      <3>2. ~Doomed(o)
        BY <1>8, <1>11, DoomedFails
      <3> QED
        BY <1>7, <1>8, <3>1, <3>2, DoomedLeft
    <2>6. CASE Len(ws) = 1
      <3>1. Tail(ws) = <<>>
        <4>1. Tail(ws) \in Seq(ToSet(ws)) /\ Len(Tail(ws)) = Len(ws) - 1
          BY <1>7, HeadTailProperties DEF IsSeq
        <4>2. Len(Tail(ws)) = 0
          BY <2>6, <4>1
        <4> QED
          BY <4>1, <4>2, EmptySeq
      <3>2. NamesAreSegments(pkg)
        <4>1. ~DoomedIn(<<>>)
          BY DEF DoomedIn, ToSet
        <4> QED
          BY <2>5, <3>1, <4>1
      <3>3. current' = Idle
        BY <1>11, <2>6
      <3>4. Waiting'
        <4>1. pkg \in FaultyPackages => pkg \in errs
          <5>1. Allowed(pkg)
            BY <1>3, <1>6 DEF RefusalInv, Writing
          <5> QED
            BY <3>2, <5>1 DEF FaultyPackages, Allowed
        <4> QED
          BY <1>1, <1>4, <1>5, <1>6, <1>11, <2>3, <4>1 DEF Waiting
      <3> QED
        BY <1>1, <1>4, <1>5, <1>11, <2>2, <3>3, <3>4 DEF FaultInv
    <2>7. CASE Len(ws) # 1
      <3>1. PICK t : t = Tail(ws)
        OBVIOUS
      <3>2. current' = [pkg |-> pkg, writes |-> t]
        BY <1>7, <1>11, <2>7, <3>1
      <3>3. current'.pkg = pkg /\ current'.writes = t
        BY <3>2
      <3>4. Begun'
        BY <1>1, <1>4, <1>5, <1>6, <2>4, <2>5, <3>1, <3>3 DEF Begun
      <3>5. current' # Idle
        <4>1. t # <<>>
          <5>1. Len(t) = Len(ws) - 1 /\ Len(ws) \in Nat
            BY <1>7, <3>1, HeadTailProperties, LenProperties DEF IsSeq
          <5>2. Len(t) # 0
            BY <2>7, <5>1
          <5> QED
            BY <5>2, SeqOfNone
        <4> QED
          BY <3>3, <4>1 DEF Idle
      <3>6. Waiting'
        BY <1>1, <1>4, <1>5, <1>6, <1>11, <2>3, <3>3, <3>5 DEF Waiting
      <3> QED
        BY <1>1, <1>4, <1>5, <1>11, <2>2, <3>4, <3>6 DEF FaultInv
    <2> QED
      BY <2>6, <2>7
  <1>12. CASE /\ next = Failed \/ cancelled
              /\ errs' = errs \cup {pkg} /\ current' = Idle /\ UNCHANGED content
    <2>1. ASSUME ~cancelled
          PROVE  pkg \in FaultyPackages
      <3>1. ~NamesAreSegments(pkg)
        <4> SUFFICES ASSUME NamesAreSegments(pkg)
                     PROVE  FALSE
          OBVIOUS
        <4>1. PICK e : Runs(content, ws, e)
          BY <1>4, <1>6 DEF Begun
        <4>2. PICK c : Does(content, o, c)
          BY <1>7, <1>8, <4>1, RunsHead
        <4> QED
          BY <1>8, <1>12, <2>1, <4>2 DEF Does
      <3>2. pkg \in StagedPackages(AllRows)
        BY <1>4, <1>6 DEF Begun
      <3>3. pkg \in {blob.pkg : blob \in Blobs}
        BY <3>2 DEF StagedPackages, AllRows
      <3> QED
        BY <3>1, <3>2, <3>3 DEF FaultyPackages
    <2>2. Waiting'
      BY <1>1, <1>4, <1>5, <1>6, <1>12 DEF Waiting
    <2>3. ~cancelled' => errs' \subseteq FaultyPackages'
      BY <1>1, <1>4, <1>5, <1>12, <2>1
    <2> QED
      BY <1>1, <1>4, <1>12, <2>2, <2>3 DEF FaultInv, Idle
  <1> QED
    BY <1>10, <1>11, <1>12

\* Nothing is recorded and nothing written.
LEMMA FaultInit == Init => FaultInv
  <1> SUFFICES ASSUME Init
               PROVE  FaultInv
    OBVIOUS
  <1>1. content = EmptyContent /\ current = Idle /\ phase = "ingest" /\ errs = {}
    BY DEF Init
  <1>2. Importing(EmptyContent, Catalog, 1, EmptyContent)
    BY DEF Importing, EmptyContent
  <1>3. Good(content)
    BY <1>1, <1>2, EmptyIsGood DEF Good
  <1> QED
    BY <1>1, <1>3 DEF FaultInv

\* FaultInv is inductive, where ImportInv and RefusalInv hold.
LEMMA FaultStep ==
  FailedIsNoContent => (ImportInv /\ ImportInv' /\ RefusalInv /\ FaultInv /\ [Next]_vars => FaultInv')
  <1> SUFFICES ASSUME FailedIsNoContent, ImportInv, ImportInv', RefusalInv, FaultInv, [Next]_vars
               PROVE  FaultInv'
    OBVIOUS
  <1>1. ASSUME NEW f \in Files, Walk(f)
        PROVE  FaultInv'
    BY <1>1, WalkFaults
  <1>2. CASE ReceiveRow \/ Flush \/ Cancel \/ UNCHANGED vars
    <2>1. UNCHANGED <<files, errs, phase, todo, current, content>> /\ (cancelled => cancelled')
      BY <1>2 DEF ReceiveRow, Flush, Cancel, laterVars, ingestVars, vars
    <2>2. Early /\ ~cancelled' => errs' \subseteq FaultyPackages
      BY <2>1 DEF FaultInv
    <2> QED
      BY <2>1, <2>2, FaultsStay
  <1>3. CASE CloseRows
    <2>1. /\ UNCHANGED <<files, errs, cancelled, current, content>>
          /\ phase = "ingest" /\ phase' = "closed"
      BY <1>3 DEF CloseRows, ingestVars
    <2>2. FaultyPackages' = FaultyPackages
      BY <2>1, SameFaults
    <2> QED
      BY <2>1, <2>2 DEF FaultInv, Early, Idle
  <1>4. CASE Ingested
    BY <1>4, IngestedFaults
  <1>5. ASSUME NEW pkg \in todo, BeginPackage(pkg)
        PROVE  FaultInv'
    BY <1>5, BeginFaults
  <1>6. CASE Write
    BY <1>6, WriteFaults
  <1>7. CASE NormalizeDone \/ FinalizeDone \/ \E pkg \in todo : FinalizePackage(pkg)
    <2>1. phase' \in {"finalize", "returned"}
      BY <1>7 DEF NormalizeDone, FinalizeDone, FinalizePackage, Return
    <2> QED
      BY <2>1 DEF FaultInv, Early
  <1> QED
    BY <1>1, <1>2, <1>3, <1>4, <1>5, <1>6, <1>7 DEF Next, Import

-----------------------------------------------------------------------------
(***************************************************************************)
(* What is written of a package that is whole: for every write that        *)
(* succeeded there is a row, and whoever writes later leaves it.           *)
(***************************************************************************)

\* The row that a write is for.
Done(d, o) ==
  /\ o.op = "graph" => GraphAt(d, Catalog, o.path) # {}
  /\ o.op = "member" =>
       \E g \in GraphAt(d, Catalog, o.path), b \in BundleIn(d, Catalog, o.bundle) :
         [graph |-> g.id, bundle |-> b.id] \in d.members
  /\ o.op = "edge" =>
       \E g \in GraphAt(d, Catalog, o.path), a \in BundleIn(d, Catalog, o.from),
          b \in BundleIn(d, Catalog, o.to) :
         [graph |-> g.id, from |-> a.id, to |-> b.id] \in d.edges
  /\ o.op = "range" =>
       \E g \in GraphAt(d, Catalog, o.path), b \in BundleIn(d, Catalog, o.bundle) :
         [graph |-> g.id, bundle |-> b.id, versions |-> o.versions] \in d.ranges

Known(d) == {b.bundle : b \in d.bundles}

RefersTo(ch, b) == \E i \in DOMAIN ch.entries : b \in Predecessors(ch.entries[i])

\* A bundle of the content is one of the files, or a stub for one that a channel refers to
\* and its package does not have.
Said(b, rows) ==
  \/ \E r \in rows : r.kind = "bundle" /\ r.name = b.bundle /\ r.version = b.version
  \/ \E ch \in rows : /\ ch.kind = "channel" /\ RefersTo(ch, b.bundle)
                      /\ b.bundle \notin BundleNames(rows, ch.pkg)

Sourced(d, rows) == \A b \in d.bundles : Said(b, rows)

\* The bundles that a write of the package needs are known.
Fits(o, known, rows, pkg) ==
  /\ o.op = "bundle" =>
       \/ \E r \in StagedOf(rows, "bundle", pkg) : r.name = o.bundle /\ r.version = o.version
       \/ /\ \E ch \in StagedOf(rows, "channel", pkg) : RefersTo(ch, o.bundle)
          /\ o.bundle \in BundleNames(rows, pkg) => o.bundle \in known
  /\ o.op \in {"member", "range"} => o.bundle \in known
  /\ o.op = "edge" => o.from \in known /\ o.to \in known

\* The bundles that the writes before the one at i make.
MadeBefore(s, i) == {s[j].bundle : j \in {k \in 1 .. (i - 1) : s[k].op = "bundle"}}

FitsAll(s, known, rows, pkg) ==
  IsSeq(s) /\ \A i \in 1 .. Len(s) : Fits(s[i], known \cup MadeBefore(s, i), rows, pkg)

Whole(d, rows, pkg) ==
  ValidPackage(rows, pkg) /\ \A o \in ToSet(PackageWrites(rows, pkg)) : Done(d, o)

Passed == phase \in {"normalize", "finalize"} \/ result \in {"ok", "partial"}

\* The package that is written has its rows, but for the writes that are left.
InWork ==
  /\ FitsAll(current.writes, Known(content), AllRows, current.pkg)
  /\ \A o \in ToSet(PackageWrites(AllRows, current.pkg)) :
       Done(content, o) \/ o \in ToSet(current.writes)

\* A package without an error is whole, or its turn is still to come.
AllWhole ==
  \A pkg \in StagedPackages(AllRows) \ errs :
    \/ phase = "normalize" /\ (pkg \in todo \/ (current # Idle /\ pkg = current.pkg))
    \/ Whole(content, AllRows, pkg)

WholeInv ==
  /\ Good(content)
  /\ phase # "normalize" => current = Idle
  /\ phase # "returned" => result \notin {"ok", "partial"}
  /\ phase \in {"ingest", "closed"} => content = EmptyContent
  /\ current # Idle => InWork
  /\ Passed => staged = AllRows /\ Sourced(content, AllRows) /\ AllWhole

\* What was there stays, under its ids.
Keeps(d, e) ==
  /\ \A g \in d.graphs : \E h \in e.graphs : h.id = g.id /\ h.catalog = g.catalog /\ h.path = g.path
  /\ \A b \in d.bundles : \E c \in e.bundles :
       c.id = b.id /\ c.catalog = b.catalog /\ c.bundle = b.bundle /\ c.version = b.version
  /\ d.members \subseteq e.members /\ d.edges \subseteq e.edges /\ d.ranges \subseteq e.ranges

\* A bundle is one that was there or one that the write makes.
Brings(d, o, e) ==
  \A c \in e.bundles :
    \/ \E b \in d.bundles : c.bundle = b.bundle /\ c.version = b.version
    \/ o.op = "bundle" /\ c.bundle = o.bundle /\ c.version = o.version /\ o.bundle \notin Known(d)

LEMMA KeepsRows ==
  ASSUME NEW d, NEW e, Keeps(d, e)
  PROVE  /\ \A path : \A g \in GraphAt(d, Catalog, path) :
              \E h \in GraphAt(e, Catalog, path) : h.id = g.id
         /\ \A b : \A x \in BundleIn(d, Catalog, b) : \E y \in BundleIn(e, Catalog, b) : y.id = x.id
  BY DEF Keeps, GraphAt, BundleIn

LEMMA DoneStays ==
  ASSUME NEW d, NEW e, Keeps(d, e), NEW o, Done(d, o)
  PROVE  Done(e, o)
  <1>1. /\ \A path : \A g \in GraphAt(d, Catalog, path) :
             \E h \in GraphAt(e, Catalog, path) : h.id = g.id
        /\ \A b : \A x \in BundleIn(d, Catalog, b) : \E y \in BundleIn(e, Catalog, b) : y.id = x.id
    BY KeepsRows
  <1>2. d.members \subseteq e.members /\ d.edges \subseteq e.edges /\ d.ranges \subseteq e.ranges
    BY DEF Keeps
  <1>3. o.op = "graph" => GraphAt(e, Catalog, o.path) # {}
    BY <1>1 DEF Done
  <1>4. ASSUME o.op = "member"
        PROVE  \E g \in GraphAt(e, Catalog, o.path), b \in BundleIn(e, Catalog, o.bundle) :
                 [graph |-> g.id, bundle |-> b.id] \in e.members
    <2>1. PICK g \in GraphAt(d, Catalog, o.path), b \in BundleIn(d, Catalog, o.bundle) :
            [graph |-> g.id, bundle |-> b.id] \in d.members
      BY <1>4 DEF Done
    <2>2. PICK h \in GraphAt(e, Catalog, o.path) : h.id = g.id
      BY <1>1
    <2>3. PICK c \in BundleIn(e, Catalog, o.bundle) : c.id = b.id
      BY <1>1
    <2>4. [graph |-> h.id, bundle |-> c.id] \in e.members
      BY <1>2, <2>1, <2>2, <2>3
    <2> QED
      BY <2>4
  <1>5. ASSUME o.op = "edge"
        PROVE  \E g \in GraphAt(e, Catalog, o.path), a \in BundleIn(e, Catalog, o.from),
                  b \in BundleIn(e, Catalog, o.to) :
                 [graph |-> g.id, from |-> a.id, to |-> b.id] \in e.edges
    <2>1. PICK g \in GraphAt(d, Catalog, o.path), a \in BundleIn(d, Catalog, o.from),
               b \in BundleIn(d, Catalog, o.to) :
            [graph |-> g.id, from |-> a.id, to |-> b.id] \in d.edges
      BY <1>5 DEF Done
    <2>2. PICK h \in GraphAt(e, Catalog, o.path) : h.id = g.id
      BY <1>1
    <2>3. PICK x \in BundleIn(e, Catalog, o.from) : x.id = a.id
      BY <1>1
    <2>4. PICK y \in BundleIn(e, Catalog, o.to) : y.id = b.id
      BY <1>1
    <2>5. [graph |-> h.id, from |-> x.id, to |-> y.id] \in e.edges
      BY <1>2, <2>1, <2>2, <2>3, <2>4
    <2> QED
      BY <2>5
  <1>6. ASSUME o.op = "range"
        PROVE  \E g \in GraphAt(e, Catalog, o.path), b \in BundleIn(e, Catalog, o.bundle) :
                 [graph |-> g.id, bundle |-> b.id, versions |-> o.versions] \in e.ranges
    <2>1. PICK g \in GraphAt(d, Catalog, o.path), b \in BundleIn(d, Catalog, o.bundle) :
            [graph |-> g.id, bundle |-> b.id, versions |-> o.versions] \in d.ranges
      BY <1>6 DEF Done
    <2>2. PICK h \in GraphAt(e, Catalog, o.path) : h.id = g.id
      BY <1>1
    <2>3. PICK c \in BundleIn(e, Catalog, o.bundle) : c.id = b.id
      BY <1>1
    <2>4. [graph |-> h.id, bundle |-> c.id, versions |-> o.versions] \in e.ranges
      BY <1>2, <2>1, <2>2, <2>3
    <2> QED
      BY <2>4
  <1> QED
    BY <1>3, <1>4, <1>5, <1>6 DEF Done

LEMMA KnownStays ==
  ASSUME NEW d, NEW e, Keeps(d, e)
  PROVE  Known(d) \subseteq Known(e)
  BY DEF Keeps, Known

\* In content of the import the known bundles are those of the catalog.
LEMMA KnownIsThere ==
  ASSUME NEW d, Good(d), NEW b
  PROVE  b \in Known(d) <=> BundleIn(d, Catalog, b) # {}
  <1>1. \A r \in d.bundles : r.catalog = Catalog
    BY DEF Good, Importing, EmptyContent
  <1> QED
    BY <1>1 DEF Known, BundleIn

\* Tables that only grow.
LEMMA GrownKeeps ==
  ASSUME NEW d, NEW e, d.graphs \subseteq e.graphs, d.bundles \subseteq e.bundles,
         d.members \subseteq e.members, d.edges \subseteq e.edges, d.ranges \subseteq e.ranges
  PROVE  Keeps(d, e)
  BY DEF Keeps

LEMMA SameBundlesBrings ==
  ASSUME NEW d, NEW o, NEW e, e.bundles = d.bundles
  PROVE  Brings(d, o, e)
  BY DEF Brings

LEMMA BundleWritten ==
  ASSUME NEW d, Good(d), NEW o, o.op = "bundle", NEW e, Does(d, o, e)
  PROVE  Keeps(d, e) /\ Brings(d, o, e) /\ Done(e, o) /\ o.bundle \in Known(e)
  <1>1. PICK b, version : b = o.bundle /\ version = o.version
    OBVIOUS
  <1>2. e = InsertBundle(d, Catalog, 1, b, version)
    BY <1>1 DEF Does, Apply
  <1>3. DOMAIN d = Tables
    BY DEF Good, GoodContent, Shape
  <1>4. Done(e, o)
    BY DEF Done
  <1>5. CASE BundleIn(d, Catalog, b) # {}
    <2>1. e = d
      BY <1>2, <1>5 DEF InsertBundle
    <2>2. Keeps(d, e) /\ Brings(d, o, e)
      BY <2>1, GrownKeeps, SameBundlesBrings
    <2>3. b \in Known(d)
      BY <1>5, KnownIsThere
    <2> QED
      BY <1>1, <1>4, <2>1, <2>2, <2>3
  <1>6. CASE BundleIn(d, Catalog, b) = {}
    <2>1. PICK row : row = [id |-> d.nextBundle, catalog |-> Catalog, bundle |-> b,
                            version |-> version, deprecation |-> None, import |-> 1]
      OBVIOUS
    <2>2. e = [d EXCEPT !.bundles = @ \cup {row}, !.nextBundle = @ + 1]
      BY <1>2, <1>6, <2>1 DEF InsertBundle
    <2>3. /\ e.bundles = d.bundles \cup {row} /\ e.graphs = d.graphs /\ e.members = d.members
          /\ e.edges = d.edges /\ e.ranges = d.ranges
      BY <1>3, <2>2 DEF Tables
    <2>4. row.bundle = b /\ row.version = version
      BY <2>1
    <2>5. b \notin Known(d)
      BY <1>6, KnownIsThere
    <2>6. Keeps(d, e)
      BY <2>3, GrownKeeps
    <2>7. Brings(d, o, e)
      BY <1>1, <2>3, <2>4, <2>5 DEF Brings
    <2> QED
      BY <1>1, <1>4, <2>3, <2>4, <2>6, <2>7 DEF Known
  <1> QED
    BY <1>5, <1>6

LEMMA GraphWritten ==
  ASSUME NEW d, Good(d), NEW o, o.op = "graph", NEW e, Does(d, o, e)
  PROVE  Keeps(d, e) /\ Brings(d, o, e) /\ Done(e, o)
  <1>1. PICK path : path = o.path
    OBVIOUS
  <1>2. e = CreateGraph(d, Catalog, 1, path) /\ e # Failed
    BY <1>1 DEF Does, Apply
  <1>3. DOMAIN d = Tables
    BY DEF Good, GoodContent, Shape
  <1>4. PICK parent : e = [d EXCEPT !.graphs = @ \cup {[id |-> d.nextGraph, catalog |-> Catalog,
                               path |-> path, parent |-> parent, deprecation |-> None, import |-> 1]},
                             !.nextGraph = @ + 1]
    BY <1>2 DEF CreateGraph
  <1>5. PICK row : row = [id |-> d.nextGraph, catalog |-> Catalog, path |-> path,
                          parent |-> parent, deprecation |-> None, import |-> 1]
    OBVIOUS
  <1>6. row.catalog = Catalog /\ row.path = path
    BY <1>5
  <1>7. e = [d EXCEPT !.graphs = @ \cup {row}, !.nextGraph = @ + 1]
    BY <1>4, <1>5
  <1>8. /\ e.graphs = d.graphs \cup {row} /\ e.bundles = d.bundles /\ e.members = d.members
        /\ e.edges = d.edges /\ e.ranges = d.ranges
    BY <1>3, <1>7 DEF Tables
  <1>9. Keeps(d, e) /\ Brings(d, o, e)
    BY <1>8, GrownKeeps, SameBundlesBrings
  <1>10. Done(e, o)
    <2>1. row \in GraphAt(e, Catalog, path)
      BY <1>6, <1>8 DEF GraphAt
    <2> QED
      BY <1>1, <2>1 DEF Done
  <1> QED
    BY <1>9, <1>10

LEMMA IdAtPath ==
  ASSUME NEW d, NEW path, GraphAt(d, Catalog, path) # {}
  PROVE  \E g \in GraphAt(d, Catalog, path) : g.id = IdOf(GraphAt(d, Catalog, path))
  BY DEF IdOf

LEMMA MemberWritten ==
  ASSUME NEW d, Good(d), NEW o, o.op = "member", o.bundle \in Known(d), NEW e, Does(d, o, e)
  PROVE  Keeps(d, e) /\ Brings(d, o, e) /\ Done(e, o)
  <1>1. PICK path, b, id : path = o.path /\ b = o.bundle /\ id = IdOf(GraphAt(d, Catalog, path))
    OBVIOUS
  <1>2. e = AddBundleToGraph(d, Catalog, path, b) /\ e # Failed
    BY <1>1 DEF Does, Apply
  <1>3. PICK new : new = {[graph |-> id, bundle |-> r.id] : r \in BundleIn(d, Catalog, b)}
    OBVIOUS
  <1>4. GraphAt(d, Catalog, path) # {} /\ e = [d EXCEPT !.members = @ \cup new]
    BY <1>1, <1>2, <1>3 DEF AddBundleToGraph
  <1>5. DOMAIN d = Tables
    BY DEF Good, GoodContent, Shape
  <1>6. /\ e.members = d.members \cup new /\ e.graphs = d.graphs /\ e.bundles = d.bundles
        /\ e.edges = d.edges /\ e.ranges = d.ranges
    BY <1>4, <1>5 DEF Tables
  <1>7. Keeps(d, e) /\ Brings(d, o, e)
    BY <1>6, GrownKeeps, SameBundlesBrings
  <1>8. PICK g \in GraphAt(d, Catalog, path) : g.id = id
    BY <1>1, <1>4, IdAtPath
  <1>9. PICK r \in BundleIn(d, Catalog, b) : TRUE
    BY <1>1, KnownIsThere
  <1>10. [graph |-> g.id, bundle |-> r.id] \in e.members
    BY <1>3, <1>6, <1>8
  <1>11. g \in GraphAt(e, Catalog, path) /\ r \in BundleIn(e, Catalog, b)
    BY <1>6 DEF GraphAt, BundleIn
  <1>12. Done(e, o)
    BY <1>1, <1>10, <1>11 DEF Done
  <1> QED
    BY <1>7, <1>12

LEMMA EdgeWritten ==
  ASSUME NEW d, Good(d), NEW o, o.op = "edge", o.from \in Known(d), o.to \in Known(d),
         NEW e, Does(d, o, e)
  PROVE  Keeps(d, e) /\ Brings(d, o, e) /\ Done(e, o)
  <1>1. PICK path, a, b, id : path = o.path /\ a = o.from /\ b = o.to
                              /\ id = IdOf(GraphAt(d, Catalog, path))
    OBVIOUS
  <1>2. e = AddEdge(d, Catalog, path, a, b) /\ e # Failed
    BY <1>1 DEF Does, Apply
  <1> DEFINE new == {[graph |-> id, from |-> r.id, to |-> s.id] :
                      r \in BundleIn(d, Catalog, a), s \in BundleIn(d, Catalog, b)}
  <1>4. GraphAt(d, Catalog, path) # {} /\ e = [d EXCEPT !.edges = @ \cup new]
    BY <1>1, <1>2 DEF AddEdge
  <1>3. \A r \in BundleIn(d, Catalog, a), s \in BundleIn(d, Catalog, b) :
          [graph |-> id, from |-> r.id, to |-> s.id] \in new
    <2> DEFINE row(r, s) == [graph |-> id, from |-> r.id, to |-> s.id]
    <2>1. new = {row(r, s) : r \in BundleIn(d, Catalog, a), s \in BundleIn(d, Catalog, b)}
      OBVIOUS
    <2> HIDE DEF new, row
    <2>2. \A r \in BundleIn(d, Catalog, a), s \in BundleIn(d, Catalog, b) : row(r, s) \in new
      BY <2>1
    <2> QED
      BY <2>2 DEF row
  <1> HIDE DEF new
  <1>5. DOMAIN d = Tables
    BY DEF Good, GoodContent, Shape
  <1>6. /\ e.edges = d.edges \cup new /\ e.graphs = d.graphs /\ e.bundles = d.bundles
        /\ e.members = d.members /\ e.ranges = d.ranges
    BY <1>4, <1>5 DEF Tables
  <1>7. Keeps(d, e) /\ Brings(d, o, e)
    BY <1>6, GrownKeeps, SameBundlesBrings
  <1>8. PICK g \in GraphAt(d, Catalog, path) : g.id = id
    BY <1>1, <1>4, IdAtPath
  <1>9. PICK r \in BundleIn(d, Catalog, a) : TRUE
    BY <1>1, KnownIsThere
  <1>10. PICK s \in BundleIn(d, Catalog, b) : TRUE
    BY <1>1, KnownIsThere
  <1>11. [graph |-> g.id, from |-> r.id, to |-> s.id] \in e.edges
    BY <1>3, <1>6, <1>8
  <1>12. /\ g \in GraphAt(e, Catalog, path) /\ r \in BundleIn(e, Catalog, a)
         /\ s \in BundleIn(e, Catalog, b)
    BY <1>6 DEF GraphAt, BundleIn
  <1>13. Done(e, o)
    BY <1>1, <1>11, <1>12 DEF Done
  <1> QED
    BY <1>7, <1>13

LEMMA RangeWritten ==
  ASSUME NEW d, Good(d), NEW o, o.op = "range", o.bundle \in Known(d), NEW e, Does(d, o, e)
  PROVE  Keeps(d, e) /\ Brings(d, o, e) /\ Done(e, o)
  <1>1. PICK path, b, versions, id : path = o.path /\ b = o.bundle /\ versions = o.versions
                                     /\ id = IdOf(GraphAt(d, Catalog, path))
    OBVIOUS
  <1>2. e = AddPredecessorRange(d, Catalog, path, b, versions) /\ e # Failed
    BY <1>1 DEF Does, Apply
  <1>3. PICK new : new = {[graph |-> id, bundle |-> r.id, versions |-> versions] :
                            r \in BundleIn(d, Catalog, b)}
    OBVIOUS
  <1>4. GraphAt(d, Catalog, path) # {} /\ e = [d EXCEPT !.ranges = @ \cup new]
    BY <1>1, <1>2, <1>3 DEF AddPredecessorRange
  <1>5. DOMAIN d = Tables
    BY DEF Good, GoodContent, Shape
  <1>6. /\ e.ranges = d.ranges \cup new /\ e.graphs = d.graphs /\ e.bundles = d.bundles
        /\ e.edges = d.edges /\ e.members = d.members
    BY <1>4, <1>5 DEF Tables
  <1>7. Keeps(d, e) /\ Brings(d, o, e)
    BY <1>6, GrownKeeps, SameBundlesBrings
  <1>8. PICK g \in GraphAt(d, Catalog, path) : g.id = id
    BY <1>1, <1>4, IdAtPath
  <1>9. PICK r \in BundleIn(d, Catalog, b) : TRUE
    BY <1>1, KnownIsThere
  <1>10. [graph |-> g.id, bundle |-> r.id, versions |-> versions] \in e.ranges
    BY <1>3, <1>6, <1>8
  <1>11. g \in GraphAt(e, Catalog, path) /\ r \in BundleIn(e, Catalog, b)
    BY <1>6 DEF GraphAt, BundleIn
  <1>12. Done(e, o)
    BY <1>1, <1>10, <1>11 DEF Done
  <1> QED
    BY <1>7, <1>12

\* Properties.
LEMMA PropertyWritten ==
  ASSUME NEW d, Good(d), NEW e, e # Failed,
         \/ \E b : e = SetBundleProperty(d, Catalog, b)
         \/ \E path : e = SetGraphProperty(d, Catalog, path)
  PROVE  Keeps(d, e) /\ e.bundles = d.bundles
  <1>1. \/ \E new : e = [d EXCEPT !.bundleProps = new]
        \/ \E new : e = [d EXCEPT !.graphProps = new]
    BY DEF SetBundleProperty, SetGraphProperty
  <1>2. DOMAIN d = Tables
    BY DEF Good, GoodContent, Shape
  <1>3. /\ e.graphs = d.graphs /\ e.bundles = d.bundles /\ e.members = d.members
        /\ e.edges = d.edges /\ e.ranges = d.ranges
    BY <1>1, <1>2 DEF Tables
  <1> QED
    BY <1>3, GrownKeeps

LEMMA GraphDeprecated ==
  ASSUME NEW d, Good(d), NEW path, NEW message, NEW e,
         e = SetGraphDeprecation(d, Catalog, path, message), e # Failed
  PROVE  Keeps(d, e) /\ e.bundles = d.bundles
  <1>1. e = [d EXCEPT !.graphs = {IF g \in GraphAt(d, Catalog, path)
                                  THEN [g EXCEPT !.deprecation = message] ELSE g : g \in @}]
    BY DEF SetGraphDeprecation
  <1>2. DOMAIN d = Tables /\ \A g \in d.graphs : DOMAIN g = GraphColumns
    BY DEF Good, GoodContent, Shape
  <1>3. /\ e.graphs = {IF g \in GraphAt(d, Catalog, path)
                       THEN [g EXCEPT !.deprecation = message] ELSE g : g \in d.graphs}
        /\ e.bundles = d.bundles /\ e.members = d.members
        /\ e.edges = d.edges /\ e.ranges = d.ranges
    BY <1>1, <1>2 DEF Tables
  <1>4. ASSUME NEW g \in d.graphs
        PROVE  \E h \in e.graphs : h.id = g.id /\ h.catalog = g.catalog /\ h.path = g.path
    <2>1. PICK h : h = IF g \in GraphAt(d, Catalog, path)
                       THEN [g EXCEPT !.deprecation = message] ELSE g
      OBVIOUS
    <2>2. h \in e.graphs
      BY <1>3, <2>1
    <2>3. h.id = g.id /\ h.catalog = g.catalog /\ h.path = g.path
      <3>1. CASE h = g
        BY <3>1
      <3>2. CASE h = [g EXCEPT !.deprecation = message]
        BY <1>2, <3>2 DEF GraphColumns
      <3> QED
        BY <2>1, <3>1, <3>2
    <2> QED
      BY <2>2, <2>3
  <1> QED
    BY <1>3, <1>4 DEF Keeps

LEMMA BundleDeprecated ==
  ASSUME NEW d, Good(d), NEW b, NEW message, NEW e,
         e = SetBundleDeprecation(d, Catalog, b, message), e # Failed
  PROVE  /\ Keeps(d, e)
         /\ \A c \in e.bundles : \E r \in d.bundles : c.bundle = r.bundle /\ c.version = r.version
  <1>1. e = [d EXCEPT !.bundles = {IF r \in BundleIn(d, Catalog, b)
                                   THEN [r EXCEPT !.deprecation = message] ELSE r : r \in @}]
    BY DEF SetBundleDeprecation
  <1>2. DOMAIN d = Tables /\ \A r \in d.bundles : DOMAIN r = BundleColumns
    BY DEF Good, GoodContent, Shape
  <1>3. /\ e.bundles = {IF r \in BundleIn(d, Catalog, b)
                        THEN [r EXCEPT !.deprecation = message] ELSE r : r \in d.bundles}
        /\ e.graphs = d.graphs /\ e.members = d.members
        /\ e.edges = d.edges /\ e.ranges = d.ranges
    BY <1>1, <1>2 DEF Tables
  <1>4. ASSUME NEW r \in d.bundles, NEW c,
               c = IF r \in BundleIn(d, Catalog, b) THEN [r EXCEPT !.deprecation = message] ELSE r
        PROVE  /\ c \in e.bundles
               /\ c.id = r.id /\ c.catalog = r.catalog /\ c.bundle = r.bundle /\ c.version = r.version
    <2>1. c \in e.bundles
      BY <1>3, <1>4
    <2>2. CASE c = r
      BY <2>1, <2>2
    <2>3. CASE c = [r EXCEPT !.deprecation = message]
      BY <1>2, <2>1, <2>3 DEF BundleColumns
    <2> QED
      BY <1>4, <2>2, <2>3
  <1>5. \A r \in d.bundles : \E c \in e.bundles :
          c.id = r.id /\ c.catalog = r.catalog /\ c.bundle = r.bundle /\ c.version = r.version
    BY <1>4
  <1>6. ASSUME NEW c \in e.bundles
        PROVE  \E r \in d.bundles : c.bundle = r.bundle /\ c.version = r.version
    <2>1. PICK r \in d.bundles :
            c = IF r \in BundleIn(d, Catalog, b) THEN [r EXCEPT !.deprecation = message] ELSE r
      BY <1>3
    <2> QED
      BY <1>4, <2>1
  <1> QED
    BY <1>3, <1>5, <1>6 DEF Keeps

\* Whatever is written, what was there stays; and what the write is for is there when the
\* bundles that it needs are known.
LEMMA AppliedIsDone ==
  ASSUME NEW d, Good(d), NEW o, o.op \in Operations, NEW rows, NEW pkg,
         Fits(o, Known(d), rows, pkg), NEW e, Does(d, o, e)
  PROVE  Keeps(d, e) /\ Brings(d, o, e) /\ Done(e, o) /\ (o.op = "bundle" => o.bundle \in Known(e))
  <1>1. CASE o.op = "bundle"
    BY <1>1, BundleWritten
  <1>2. CASE o.op = "graph"
    BY <1>2, GraphWritten
  <1>3. CASE o.op = "member"
    BY <1>3, MemberWritten DEF Fits
  <1>4. CASE o.op = "edge"
    BY <1>4, EdgeWritten DEF Fits
  <1>5. CASE o.op = "range"
    BY <1>5, RangeWritten DEF Fits
  <1>6. CASE o.op \in {"bundle prop", "graph prop"}
    <2>1. e = SetBundleProperty(d, Catalog, o.bundle) \/ e = SetGraphProperty(d, Catalog, o.path)
      BY <1>6 DEF Does, Apply
    <2>2. Keeps(d, e) /\ e.bundles = d.bundles
      BY <2>1, PropertyWritten DEF Does
    <2> QED
      BY <1>6, <2>2, SameBundlesBrings DEF Done
  <1>7. CASE o.op = "deprecate graph"
    <2>1. e = SetGraphDeprecation(d, Catalog, o.path, o.message) /\ e # Failed
      BY <1>7 DEF Does, Apply
    <2>2. Keeps(d, e) /\ e.bundles = d.bundles
      BY <2>1, GraphDeprecated
    <2> QED
      BY <1>7, <2>2, SameBundlesBrings DEF Done
  <1>8. CASE o.op = "deprecate bundle"
    <2>1. e = SetBundleDeprecation(d, Catalog, o.bundle, o.message) /\ e # Failed
      BY <1>8 DEF Does, Apply
    <2>2. /\ Keeps(d, e)
          /\ \A c \in e.bundles : \E r \in d.bundles : c.bundle = r.bundle /\ c.version = r.version
      BY <2>1, BundleDeprecated
    <2> QED
      BY <1>8, <2>2 DEF Done, Brings
  <1> QED
    BY <1>1, <1>2, <1>3, <1>4, <1>5, <1>6, <1>7, <1>8 DEF Operations

\* No bundle gets there but those of the files, and stubs for those that are not in their package.
LEMMA SourcedStays ==
  ASSUME NEW d, NEW o, NEW e, NEW rows, NEW pkg,
         Sourced(d, rows), Fits(o, Known(d), rows, pkg), Brings(d, o, e)
  PROVE  Sourced(e, rows)
  <1> SUFFICES ASSUME NEW c \in e.bundles
               PROVE  Said(c, rows)
    BY DEF Sourced
  <1>1. CASE \E b \in d.bundles : c.bundle = b.bundle /\ c.version = b.version
    <2>1. PICK b \in d.bundles : c.bundle = b.bundle /\ c.version = b.version
      BY <1>1
    <2>2. Said(b, rows)
      BY DEF Sourced
    <2> QED
      BY <2>1, <2>2 DEF Said
  <1>2. CASE o.op = "bundle" /\ c.bundle = o.bundle /\ c.version = o.version /\ o.bundle \notin Known(d)
    <2>1. \/ \E r \in StagedOf(rows, "bundle", pkg) : r.name = o.bundle /\ r.version = o.version
          \/ /\ \E ch \in StagedOf(rows, "channel", pkg) : RefersTo(ch, o.bundle)
             /\ o.bundle \notin BundleNames(rows, pkg)
      BY <1>2 DEF Fits
    <2> QED
      BY <1>2, <2>1 DEF Said, StagedOf
  <1> QED
    BY <1>1, <1>2 DEF Brings

\* The bundles that a sequence of writes makes.
Made(s) == {o.bundle : o \in {w \in ToSet(s) : w.op = "bundle"}}

LEMMA FitsMore ==
  ASSUME NEW o, NEW k, NEW l, k \subseteq l, NEW rows, NEW pkg, Fits(o, k, rows, pkg)
  PROVE  Fits(o, l, rows, pkg)
  BY DEF Fits

LEMMA FitsNone ==
  ASSUME NEW k, NEW rows, NEW pkg
  PROVE  FitsAll(<<>>, k, rows, pkg)
  <1>1. PICK s : s = <<>>
    OBVIOUS
  <1>2. IsSeq(s) /\ Len(s) = 0
    BY <1>1, SeqOfNone
  <1>3. \A i : ~(i \in 1 .. 0)
    OBVIOUS
  <1>4. FitsAll(s, k, rows, pkg)
    BY <1>2, <1>3 DEF FitsAll
  <1> QED
    BY <1>1, <1>4

\* Writes that fit whatever is made before them.
LEMMA FitsMapped ==
  ASSUME NEW n \in Nat, NEW s, s = [i \in 1 .. n |-> s[i]], NEW k, NEW rows, NEW pkg,
         \A i \in 1 .. n : Fits(s[i], k, rows, pkg)
  PROVE  FitsAll(s, k, rows, pkg)
  <1>1. IsSeq(s) /\ Len(s) = n
    BY OwnElements DEF IsSeq
  <1>2. ASSUME NEW i \in 1 .. n
        PROVE  Fits(s[i], k \cup MadeBefore(s, i), rows, pkg)
    <2>1. PICK l : l = k \cup MadeBefore(s, i)
      OBVIOUS
    <2>2. Fits(s[i], l, rows, pkg)
      BY <2>1, FitsMore
    <2> QED
      BY <2>1, <2>2
  <1> QED
    BY <1>1, <1>2 DEF FitsAll

LEMMA FitsOne ==
  ASSUME NEW o, NEW k, NEW rows, NEW pkg, Fits(o, k, rows, pkg)
  PROVE  FitsAll(<<o>>, k, rows, pkg)
  <1> DEFINE s == <<o>>
  <1>1. s = [i \in 1 .. 1 |-> s[i]] /\ s[1] = o /\ 1 \in Nat
    OBVIOUS
  <1> HIDE DEF s
  <1>2. \A i \in 1 .. 1 : Fits(s[i], k, rows, pkg)
    BY <1>1
  <1>3. FitsAll(s, k, rows, pkg)
    BY <1>1, <1>2, FitsMapped
  <1> QED
    BY <1>3 DEF s

\* Before an element of the second of two sequences come all of the first.
LEMMA FitsOn ==
  ASSUME NEW b, NEW c, NEW k, NEW l, NEW rows, NEW pkg,
         FitsAll(b, k, rows, pkg), l \subseteq k \cup Made(b), FitsAll(c, l, rows, pkg)
  PROVE  FitsAll(b \o c, k, rows, pkg)
  <1>1. PICK s : s = b \o c
    OBVIOUS
  <1>2. IsSeq(b) /\ IsSeq(c)
    BY DEF FitsAll
  <1>3. /\ IsSeq(s) /\ Len(s) = Len(b) + Len(c) /\ Len(b) \in Nat /\ Len(c) \in Nat
        /\ \A i \in 1 .. Len(b) : s[i] = b[i]
        /\ \A i \in 1 .. Len(c) : s[Len(b) + i] = c[i]
    BY <1>1, <1>2, SeqsJoined
  <1>4. DOMAIN b = 1 .. Len(b)
    BY <1>2, SeqFacts
  <1>5. ASSUME NEW i \in 1 .. Len(s)
        PROVE  Fits(s[i], k \cup MadeBefore(s, i), rows, pkg)
    <2>1. CASE i <= Len(b)
      <3>1. i \in 1 .. Len(b) /\ \A j \in 1 .. (i - 1) : j \in 1 .. Len(b)
        BY <1>3, <2>1
      <3>2. MadeBefore(s, i) = MadeBefore(b, i)
        BY <1>3, <3>1 DEF MadeBefore
      <3>3. Fits(b[i], k \cup MadeBefore(b, i), rows, pkg)
        BY <3>1 DEF FitsAll
      <3> QED
        BY <1>3, <3>1, <3>2, <3>3
    <2>2. CASE ~(i <= Len(b))
      <3>1. PICK j \in 1 .. Len(c) : i = Len(b) + j
        <4>1. i - Len(b) \in 1 .. Len(c) /\ i = Len(b) + (i - Len(b))
          BY <1>3, <2>2
        <4> QED
          BY <4>1
      <3>2. Fits(c[j], l \cup MadeBefore(c, j), rows, pkg)
        BY DEF FitsAll
      <3>3. ASSUME NEW x \in Made(b)
            PROVE  x \in MadeBefore(s, i)
        <4>1. PICK m \in 1 .. Len(b) : b[m].op = "bundle" /\ x = b[m].bundle
          BY <1>4, <3>3 DEF Made, ToSet
        <4>2. m \in 1 .. (i - 1) /\ s[m] = b[m]
          BY <1>3, <2>2
        <4> QED
          BY <4>1, <4>2 DEF MadeBefore
      <3>4. ASSUME NEW x \in MadeBefore(c, j)
            PROVE  x \in MadeBefore(s, i)
        <4>1. PICK m \in 1 .. (j - 1) : c[m].op = "bundle" /\ x = c[m].bundle
          BY <3>4 DEF MadeBefore
        <4>2. Len(b) + m \in 1 .. (i - 1) /\ m \in 1 .. Len(c)
          BY <1>3, <3>1
        <4>3. s[Len(b) + m] = c[m]
          BY <1>3, <4>2
        <4> QED
          BY <4>1, <4>2, <4>3 DEF MadeBefore
      <3>5. l \cup MadeBefore(c, j) \subseteq k \cup MadeBefore(s, i)
        BY <3>3, <3>4
      <3>6. PICK u, v : u = l \cup MadeBefore(c, j) /\ v = k \cup MadeBefore(s, i)
        OBVIOUS
      <3>7. Fits(c[j], v, rows, pkg)
        BY <3>2, <3>5, <3>6, FitsMore
      <3> QED
        BY <1>3, <3>1, <3>6, <3>7
    <2> QED
      BY <2>1, <2>2
  <1>6. FitsAll(s, k, rows, pkg)
    BY <1>3, <1>5 DEF FitsAll
  <1> QED
    BY <1>1, <1>6

\* Sequences that fit whatever is made before them.
LEMMA FitsFlattened ==
  ASSUME NEW n \in Nat, NEW seqs, seqs = [i \in 1 .. n |-> seqs[i]], NEW k, NEW rows, NEW pkg,
         \A i \in 1 .. n : FitsAll(seqs[i], k, rows, pkg)
  PROVE  FitsAll(FlattenSeq(seqs), k, rows, pkg)
  <1>1. Len(seqs) = n
    BY OwnElements
  <1>2. CASE n = 0
    <2>1. FlattenSeq(seqs) = seqs /\ seqs = <<>>
      BY <1>1, <1>2 DEF FlattenSeq
    <2> QED
      BY <2>1, FitsNone
  <1>3. CASE n # 0
    <2> PICK f : FlattenSeq(seqs) = f[n] /\ Flattening(f, seqs, n)
      <3>1. n \in Nat \ {0}
        BY <1>3
      <3> QED
        BY <1>1, <3>1, FlattenSteps
    <2>1. /\ f[1] = seqs[1] /\ FlattenSeq(seqs) = f[n]
          /\ \A i \in 2 .. n : f[i] = f[i - 1] \o seqs[i]
      BY DEF Flattening
    <2> DEFINE G == {m \in 0 .. n : m # 0 => FitsAll(f[m], k, rows, pkg)}
    <2>2. 0 \in G
      OBVIOUS
    <2>3. ASSUME NEW m \in 0 .. n, m < n, m \in G
          PROVE  m + 1 \in G
      <3>1. CASE m = 0
        BY <1>3, <2>1, <3>1
      <3>2. CASE m # 0
        <4>1. m + 1 \in 2 .. n /\ m + 1 \in 1 .. n /\ (m + 1) - 1 = m
          BY <2>3, <3>2
        <4>2. f[m + 1] = f[m] \o seqs[m + 1]
          BY <2>1, <4>1
        <4>3. FitsAll(f[m], k, rows, pkg) /\ FitsAll(seqs[m + 1], k, rows, pkg)
          BY <2>3, <3>2, <4>1
        <4>4. FitsAll(f[m + 1], k, rows, pkg)
          BY <4>2, <4>3, FitsOn
        <4> QED
          BY <4>1, <4>4
      <3> QED
        BY <3>1, <3>2
    <2> HIDE DEF G
    <2>4. \A m \in 0 .. n : m \in G
      BY <2>2, <2>3, UpTo
    <2>5. n \in G
      BY <2>4
    <2> QED
      BY <1>3, <2>1, <2>5 DEF G
  <1> QED
    BY <1>2, <1>3

\* Once the first is written, the others fit what is known then.
LEMMA FitsLeft ==
  ASSUME NEW s, s # <<>>, NEW k, NEW l, NEW rows, NEW pkg, FitsAll(s, k, rows, pkg),
         k \subseteq l, Head(s).op = "bundle" => Head(s).bundle \in l
  PROVE  Fits(Head(s), k, rows, pkg) /\ FitsAll(Tail(s), l, rows, pkg)
  <1>1. PICK t : t = Tail(s)
    OBVIOUS
  <1>2. IsSeq(s)
    BY DEF FitsAll
  <1>3. /\ Len(s) \in Nat \ {0} /\ Head(s) = s[1]
        /\ t \in Seq(ToSet(s)) /\ Len(t) = Len(s) - 1 /\ \A i \in 1 .. Len(t) : t[i] = s[i + 1]
    BY <1>1, <1>2, EmptySeq, SeqFacts, HeadTailProperties DEF IsSeq
  <1>4. IsSeq(t)
    <2>1. t = [i \in 1 .. Len(t) |-> t[i]] /\ Len(t) \in Nat
      BY <1>3, LenProperties
    <2> QED
      BY <2>1, OwnElements DEF IsSeq
  <1>5. Fits(Head(s), k, rows, pkg)
    <2>1. MadeBefore(s, 1) = {}
      BY DEF MadeBefore
    <2>2. 1 \in 1 .. Len(s)
      BY <1>3
    <2>3. Fits(s[1], k \cup MadeBefore(s, 1), rows, pkg)
      BY <2>2 DEF FitsAll
    <2>4. k \cup MadeBefore(s, 1) = k
      BY <2>1
    <2> QED
      BY <1>3, <2>3, <2>4
  <1>6. ASSUME NEW i \in 1 .. Len(t)
        PROVE  Fits(t[i], l \cup MadeBefore(t, i), rows, pkg)
    <2>1. i + 1 \in 1 .. Len(s) /\ t[i] = s[i + 1]
      BY <1>3
    <2>2. Fits(s[i + 1], k \cup MadeBefore(s, i + 1), rows, pkg)
      BY <2>1 DEF FitsAll
    <2>3. ASSUME NEW x \in MadeBefore(s, i + 1)
          PROVE  x \in l \cup MadeBefore(t, i)
      <3>1. PICK m \in 1 .. ((i + 1) - 1) : s[m].op = "bundle" /\ x = s[m].bundle
        BY <2>3 DEF MadeBefore
      <3>2. CASE m = 1
        BY <1>3, <3>1, <3>2
      <3>3. CASE m # 1
        <4>1. m - 1 \in 1 .. (i - 1) /\ m - 1 \in 1 .. Len(t) /\ (m - 1) + 1 = m
          BY <1>3, <3>3
        <4>2. t[m - 1] = s[m]
          BY <1>3, <4>1
        <4> QED
          BY <3>1, <4>1, <4>2 DEF MadeBefore
      <3> QED
        BY <3>2, <3>3
    <2>4. PICK u, v : u = k \cup MadeBefore(s, i + 1) /\ v = l \cup MadeBefore(t, i)
      OBVIOUS
    <2>5. u \subseteq v
      BY <2>3, <2>4
    <2>6. Fits(s[i + 1], v, rows, pkg)
      BY <2>2, <2>4, <2>5, FitsMore
    <2> QED
      BY <2>1, <2>4, <2>6
  <1> QED
    BY <1>1, <1>4, <1>5, <1>6 DEF FitsAll

\* The writes of an entry.
HasEntry(s, path, e) ==
  /\ \A x \in Predecessors(e) :
       [op |-> "edge", path |-> path, from |-> x, to |-> e.bundle] \in ToSet(s)
  /\ e.range # None =>
       [op |-> "range", path |-> path, bundle |-> e.bundle, versions |-> e.range] \in ToSet(s)

HasEntries(s, ch) ==
  \A i \in DOMAIN ch.entries :
    /\ [op |-> "member", path |-> <<ch.pkg, ch.name>>, bundle |-> ch.entries[i].bundle] \in ToSet(s)
    /\ HasEntry(s, <<ch.pkg, ch.name>>, ch.entries[i])

HasPackage(s, rows, pkg) ==
  /\ [op |-> "graph", path |-> <<pkg>>] \in ToSet(s)
  /\ \A ch \in StagedOf(rows, "channel", pkg) : HasEntries(s, ch)

LEMMA HasMore ==
  ASSUME NEW s, NEW t, ToSet(s) \subseteq ToSet(t)
  PROVE  /\ \A path, e : HasEntry(s, path, e) => HasEntry(t, path, e)
         /\ \A ch : HasEntries(s, ch) => HasEntries(t, ch)
  <1>1. \A path, e : HasEntry(s, path, e) => HasEntry(t, path, e)
    BY DEF HasEntry
  <1> QED
    BY <1>1 DEF HasEntries

\* writeChannelSuccessors: a predecessor is there before its edge is.
LEMMA EntryFits ==
  ASSUME NEW rows, NEW pkg, NEW ch \in StagedOf(rows, "channel", pkg), NEW e,
         \E i \in DOMAIN ch.entries : e = ch.entries[i], IsFiniteSet(e.skips),
         NEW k, BundleNames(rows, pkg) \subseteq k, e.bundle \in k, NEW path
  PROVE  FitsAll(EntryWrites(path, e), k, rows, pkg) /\ HasEntry(EntryWrites(path, e), path, e)
  <1> DEFINE from == (IF e.replaces = None THEN {} ELSE {e.replaces}) \cup e.skips
             n == Cardinality(from)
             edge(b) == << [op |-> "bundle", bundle |-> b, version |-> NoVersion],
                           [op |-> "edge", path |-> path, from |-> b, to |-> e.bundle] >>
             seqs == [i \in 1 .. n |-> edge(SetToSeq(from)[i])]
             last == IF e.range = None THEN <<>>
                     ELSE << [op |-> "range", path |-> path, bundle |-> e.bundle,
                              versions |-> e.range] >>
  <1>1. EntryWrites(path, e) = FlattenSeq(seqs) \o last
    BY DEF EntryWrites
  <1>2. from = Predecessors(e)
    BY DEF Predecessors
  <1>3. n \in Nat /\ (\A i \in 1 .. n : SetToSeq(from)[i] \in from)
        /\ \A x \in from : \E i \in 1 .. n : SetToSeq(from)[i] = x
    <2>1. IsFiniteSet(from)
      BY FS_EmptySet, FS_Singleton, FS_Union
    <2> HIDE DEF from
    <2>2. PICK m \in Nat : /\ DOMAIN SetToSeq(from) = 1 .. m
                           /\ \A i \in 1 .. m : SetToSeq(from)[i] \in from
                           /\ \A x \in from : \E i \in 1 .. m : SetToSeq(from)[i] = x
      BY <2>1, RowsAllRead
    <2>3. n \in Nat /\ DOMAIN SetToSeq(from) = 1 .. n
      BY <2>1, RowsInOrder
    <2>4. 1 .. m = 1 .. n
      BY <2>2, <2>3
    <2> QED
      BY <2>2, <2>3, <2>4
  <1>4. \A x \in from : RefersTo(ch, x)
    BY <1>2 DEF RefersTo
  <1> HIDE DEF from, n
  <1>5. ASSUME NEW b \in from
        PROVE  /\ FitsAll(edge(b), k, rows, pkg)
               /\ [op |-> "edge", path |-> path, from |-> b, to |-> e.bundle] \in ToSet(edge(b))
    <2> DEFINE x == [op |-> "bundle", bundle |-> b, version |-> NoVersion]
               y == [op |-> "edge", path |-> path, from |-> b, to |-> e.bundle]
    <2>1. Fits(x, k, rows, pkg)
      BY <1>4 DEF Fits
    <2>2. Fits(y, k \cup {b}, rows, pkg)
      BY DEF Fits
    <2>3. Made(<<x>>) = {b}
      BY ToSetOfOne DEF Made
    <2>4. edge(b) = <<x>> \o <<y>>
      OBVIOUS
    <2> HIDE DEF x, y, edge
    <2>5. FitsAll(<<x>>, k, rows, pkg) /\ FitsAll(<<y>>, k \cup {b}, rows, pkg)
      BY <2>1, <2>2, FitsOne
    <2>6. FitsAll(<<x>> \o <<y>>, k, rows, pkg)
      BY <2>3, <2>5, FitsOn
    <2>7. ToSet(<<x>> \o <<y>>) = ToSet(<<x>>) \cup ToSet(<<y>>)
      BY SeqOfOne, SeqsJoined
    <2>8. y \in ToSet(edge(b))
      BY <2>4, <2>7, ToSetOfOne
    <2>9. FitsAll(edge(b), k, rows, pkg)
      BY <2>4, <2>6
    <2> QED
      BY <2>8, <2>9 DEF y
  <1>6. /\ FitsAll(last, k, rows, pkg)
        /\ e.range # None =>
             [op |-> "range", path |-> path, bundle |-> e.bundle, versions |-> e.range] \in ToSet(last)
    <2>1. CASE e.range = None
      BY <2>1, FitsNone
    <2>2. CASE e.range # None
      <3> DEFINE o == [op |-> "range", path |-> path, bundle |-> e.bundle, versions |-> e.range]
      <3>1. last = <<o>>
        BY <2>2
      <3>2. Fits(o, k, rows, pkg)
        BY DEF Fits
      <3> HIDE DEF o, last
      <3>3. FitsAll(last, k, rows, pkg) /\ o \in ToSet(last)
        BY <3>1, <3>2, FitsOne, ToSetOfOne
      <3> QED
        BY <3>3 DEF o
    <2> QED
      BY <2>1, <2>2
  <1> HIDE DEF edge, last
  <1>7. /\ seqs = [i \in 1 .. n |-> seqs[i]]
        /\ \A i \in 1 .. n : seqs[i] = edge(SetToSeq(from)[i])
    OBVIOUS
  <1> HIDE DEF seqs
  <1>8. \A i \in 1 .. n : FitsAll(seqs[i], k, rows, pkg)
    BY <1>3, <1>5, <1>7
  <1>9. FitsAll(FlattenSeq(seqs), k, rows, pkg)
    BY <1>3, <1>7, <1>8, FitsFlattened
  <1>10. PICK b, c, s : b = FlattenSeq(seqs) /\ c = last /\ s = b \o c
    OBVIOUS
  <1>11. FitsAll(s, k, rows, pkg)
    BY <1>6, <1>9, <1>10, FitsOn
  <1>12. ToSet(s) = ToSet(b) \cup ToSet(c)
    BY <1>6, <1>9, <1>10, SeqsJoined DEF FitsAll
  <1>13. ASSUME NEW x \in from
         PROVE  [op |-> "edge", path |-> path, from |-> x, to |-> e.bundle] \in ToSet(b)
    <2>1. PICK i \in 1 .. n : SetToSeq(from)[i] = x
      BY <1>3
    <2>2. PICK o : o = [op |-> "edge", path |-> path, from |-> x, to |-> e.bundle]
      OBVIOUS
    <2>3. o \in ToSet(seqs[i])
      BY <1>5, <1>7, <2>1, <2>2
    <2>4. \A j \in 1 .. n : IsSeq(seqs[j])
      BY <1>8 DEF FitsAll
    <2>5. o \in ToSet(FlattenSeq(seqs))
      BY <1>3, <1>7, <2>3, <2>4, FlattenedHas
    <2> QED
      BY <1>10, <2>2, <2>5
  <1>14. HasEntry(s, path, e)
    BY <1>2, <1>6, <1>10, <1>12, <1>13 DEF HasEntry
  <1> QED
    BY <1>1, <1>10, <1>11, <1>14

\* writeChannel: the bundles of the entries are there.
LEMMA ChannelFits ==
  ASSUME NEW rows, NEW pkg, NEW ch \in StagedOf(rows, "channel", pkg), Listed(ch),
         \A i \in DOMAIN ch.entries : ch.entries[i].bundle \in BundleNames(rows, pkg),
         NEW k, BundleNames(rows, pkg) \subseteq k
  PROVE  FitsAll(ChannelWrites(ch), k, rows, pkg) /\ HasEntries(ChannelWrites(ch), ch)
  <1> DEFINE path == <<ch.pkg, ch.name>>
             n == Len(ch.entries)
             graph == [op |-> "graph", path |-> path]
             members == [i \in 1 .. n |-> [op |-> "member", path |-> path,
                                           bundle |-> ch.entries[i].bundle]]
             seqs == [i \in 1 .. n |-> EntryWrites(path, ch.entries[i])]
  <1>1. ChannelWrites(ch) = <<graph>> \o members \o FlattenSeq(seqs)
    BY DEF ChannelWrites
  <1>2. n \in Nat /\ DOMAIN ch.entries = 1 .. n
    BY LenProperties DEF Listed
  <1>3. FitsAll(<<graph>>, k, rows, pkg)
    <2>1. Fits(graph, k, rows, pkg)
      BY DEF Fits
    <2> HIDE DEF graph
    <2> QED
      BY <2>1, FitsOne
  <1>4. /\ members = [i \in 1 .. n |-> members[i]]
        /\ \A i \in 1 .. n : members[i] = [op |-> "member", path |-> path,
                                           bundle |-> ch.entries[i].bundle]
    OBVIOUS
  <1>5. /\ seqs = [i \in 1 .. n |-> seqs[i]]
        /\ \A i \in 1 .. n : seqs[i] = EntryWrites(path, ch.entries[i])
    OBVIOUS
  <1> HIDE DEF members, seqs, n, path, graph
  <1>6. FitsAll(members, k, rows, pkg)
    <2>1. \A b \in k : Fits([op |-> "member", path |-> path, bundle |-> b], k, rows, pkg)
      BY DEF Fits
    <2>2. \A i \in 1 .. n : Fits(members[i], k, rows, pkg)
      BY <1>2, <1>4, <2>1
    <2> QED
      BY <1>2, <1>4, <2>2, FitsMapped
  <1>7. ASSUME NEW i \in 1 .. n
        PROVE  FitsAll(seqs[i], k, rows, pkg) /\ HasEntry(seqs[i], path, ch.entries[i])
    <2>1. PICK e : e = ch.entries[i]
      OBVIOUS
    <2>2. IsFiniteSet(e.skips) /\ e.bundle \in k /\ \E j \in DOMAIN ch.entries : e = ch.entries[j]
      BY <1>2, <2>1 DEF Listed
    <2>3. FitsAll(EntryWrites(path, e), k, rows, pkg) /\ HasEntry(EntryWrites(path, e), path, e)
      BY <2>2, EntryFits
    <2> QED
      BY <1>5, <2>1, <2>3
  <1>8. FitsAll(FlattenSeq(seqs), k, rows, pkg)
    BY <1>2, <1>5, <1>7, FitsFlattened
  <1>9. PICK a, b, s, c, t : /\ a = <<graph>> /\ b = members /\ s = a \o b
                             /\ c = FlattenSeq(seqs) /\ t = s \o c
    OBVIOUS
  <1>10. FitsAll(s, k, rows, pkg) /\ ToSet(s) = ToSet(a) \cup ToSet(b)
    BY <1>3, <1>6, <1>9, FitsOn, SeqsJoined DEF FitsAll
  <1>11. FitsAll(t, k, rows, pkg)
    BY <1>8, <1>9, <1>10, FitsOn
  <1>12. ToSet(t) = ToSet(s) \cup ToSet(c)
    BY <1>8, <1>9, <1>10, SeqsJoined DEF FitsAll
  <1>13. ASSUME NEW i \in 1 .. n
         PROVE  /\ [op |-> "member", path |-> path, bundle |-> ch.entries[i].bundle] \in ToSet(t)
                /\ HasEntry(t, path, ch.entries[i])
    <2>1. members[i] \in ToSet(b)
      <3>1. IsSeq(members) /\ DOMAIN members = 1 .. n
        BY <1>2, <1>4, OwnElements DEF IsSeq
      <3> QED
        BY <1>9, <3>1 DEF ToSet
    <2>2. ToSet(seqs[i]) \subseteq ToSet(c)
      <3>1. \A j \in 1 .. n : IsSeq(seqs[j])
        BY <1>7 DEF FitsAll
      <3>2. \A o \in ToSet(seqs[i]) : o \in ToSet(FlattenSeq(seqs))
        BY <1>2, <1>5, <3>1, FlattenedHas
      <3> QED
        BY <1>9, <3>2
    <2>3. ToSet(seqs[i]) \subseteq ToSet(t)
      BY <1>12, <2>2
    <2>4. HasEntry(t, path, ch.entries[i])
      BY <1>7, <2>3, HasMore
    <2> QED
      BY <1>4, <1>10, <1>12, <2>1, <2>4
  <1>14. HasEntries(t, ch)
    BY <1>2, <1>13 DEF HasEntries, path
  <1> QED
    BY <1>1, <1>9, <1>11, <1>14

\* writePackage: first the bundles, and then the channels that are made of them.
LEMMA PackageFits ==
  ASSUME NEW rows, IsFiniteSet(rows), NEW pkg, ValidPackage(rows, pkg),
         \A ch \in StagedOf(rows, "channel", pkg) : Listed(ch), NEW k
  PROVE  /\ FitsAll(PackageWrites(rows, pkg), k, rows, pkg)
         /\ HasPackage(PackageWrites(rows, pkg), rows, pkg)
  <1> DEFINE bundles == SetToSeq(StagedOf(rows, "bundle", pkg))
             channels == SetToSeq(StagedOf(rows, "channel", pkg))
             deprecations == SetToSeq(Deprecations(rows, pkg))
             graph == [op |-> "graph", path |-> <<pkg>>]
             first == [i \in DOMAIN bundles |-> [op |-> "bundle", bundle |-> bundles[i].name,
                                                 version |-> bundles[i].version]]
             seqs == [i \in DOMAIN channels |-> ChannelWrites(channels[i])]
             last == [i \in DOMAIN deprecations |-> DeprecationWrite(deprecations[i])]
             l == k \cup BundleNames(rows, pkg)
  <1>1. PackageWrites(rows, pkg) = <<graph>> \o first \o FlattenSeq(seqs) \o last
    BY DEF PackageWrites, Deprecations
  <1>2. (\A kind : IsFiniteSet(StagedOf(rows, kind, pkg))) /\ IsFiniteSet(Deprecations(rows, pkg))
    <2>1. \A kind : IsFiniteSet(StagedOf(rows, kind, pkg))
      BY FS_Subset DEF StagedOf
    <2>2. Deprecations(rows, pkg) \subseteq StagedOf(rows, "deprecation", pkg)
      BY DEF Deprecations
    <2> QED
      BY <2>1, <2>2, FS_Subset
  <1>3. FitsAll(<<graph>>, k, rows, pkg)
    <2>1. Fits(graph, k, rows, pkg)
      BY DEF Fits
    <2> HIDE DEF graph
    <2> QED
      BY <2>1, FitsOne
  <1>4. FitsAll(first, k, rows, pkg) /\ BundleNames(rows, pkg) \subseteq Made(first)
    <2>1. PICK S : S = StagedOf(rows, "bundle", pkg) /\ bundles = SetToSeq(S) /\ IsFiniteSet(S)
      BY <1>2
    <2>2. PICK n \in Nat : /\ DOMAIN bundles = 1 .. n
                           /\ \A i \in 1 .. n : bundles[i] \in S
                           /\ \A r \in S : \E i \in 1 .. n : bundles[i] = r
      BY <2>1, RowsAllRead
    <2>3. /\ first = [i \in 1 .. n |-> first[i]]
          /\ \A i \in 1 .. n : first[i] = [op |-> "bundle", bundle |-> bundles[i].name,
                                           version |-> bundles[i].version]
      BY <2>2
    <2> HIDE DEF first, bundles
    <2>4. \A r \in S : Fits([op |-> "bundle", bundle |-> r.name, version |-> r.version], k, rows, pkg)
      BY <2>1 DEF Fits
    <2>5. \A i \in 1 .. n : Fits(first[i], k, rows, pkg)
      BY <2>2, <2>3, <2>4
    <2>6. FitsAll(first, k, rows, pkg)
      BY <2>3, <2>5, FitsMapped
    <2>7. ASSUME NEW x \in BundleNames(rows, pkg)
          PROVE  x \in Made(first)
      <3>1. PICK r \in S : x = r.name
        BY <2>1 DEF BundleNames
      <3>2. PICK i \in 1 .. n : bundles[i] = r
        BY <2>2
      <3>3. first[i].op = "bundle" /\ first[i].bundle = x
        BY <2>3, <3>1, <3>2
      <3>4. first[i] \in ToSet(first)
        <4>1. DOMAIN first = 1 .. n
          BY <2>3, OwnElements
        <4> QED
          BY <4>1 DEF ToSet
      <3> QED
        BY <3>3, <3>4 DEF Made
    <2> QED
      BY <2>6, <2>7
  <1>5. PICK n \in Nat : /\ DOMAIN channels = 1 .. n
                         /\ \A i \in 1 .. n : channels[i] \in StagedOf(rows, "channel", pkg)
                         /\ \A ch \in StagedOf(rows, "channel", pkg) : \E i \in 1 .. n : channels[i] = ch
    BY <1>2, RowsAllRead
  <1>6. seqs = [i \in 1 .. n |-> seqs[i]] /\ \A i \in 1 .. n : seqs[i] = ChannelWrites(channels[i])
    BY <1>5
  <1> HIDE DEF seqs, channels, l
  <1>7. ASSUME NEW i \in 1 .. n
        PROVE  FitsAll(seqs[i], l, rows, pkg) /\ HasEntries(seqs[i], channels[i])
    <2>1. PICK ch \in StagedOf(rows, "channel", pkg) : ch = channels[i]
      BY <1>5
    <2>2. /\ \A j \in DOMAIN ch.entries : ch.entries[j].bundle \in BundleNames(rows, pkg)
          /\ BundleNames(rows, pkg) \subseteq l
      BY DEF ValidPackage, BundleNames, l
    <2>3. FitsAll(ChannelWrites(ch), l, rows, pkg) /\ HasEntries(ChannelWrites(ch), ch)
      BY <2>2, ChannelFits
    <2> QED
      BY <1>6, <2>1, <2>3
  <1>8. FitsAll(FlattenSeq(seqs), l, rows, pkg)
    BY <1>5, <1>6, <1>7, FitsFlattened
  <1>9. FitsAll(last, l, rows, pkg)
    <2>1. PICK m \in Nat : DOMAIN deprecations = 1 .. m
      BY <1>2, RowsAllRead
    <2>2. last = [i \in 1 .. m |-> last[i]] /\ \A i \in 1 .. m : last[i] = DeprecationWrite(deprecations[i])
      BY <2>1
    <2> HIDE DEF last, deprecations
    <2>3. \A r : Fits(DeprecationWrite(r), l, rows, pkg)
      BY DEF Fits, DeprecationWrite
    <2>4. \A i \in 1 .. m : Fits(last[i], l, rows, pkg)
      BY <2>2, <2>3
    <2> QED
      BY <2>2, <2>4, FitsMapped
  <1> HIDE DEF graph, first, last
  <1>10. PICK a, b, s, c, t, d, u : /\ a = <<graph>> /\ b = first /\ s = a \o b
                                    /\ c = FlattenSeq(seqs) /\ t = s \o c
                                    /\ d = last /\ u = t \o d
    OBVIOUS
  <1>11. IsSeq(a) /\ IsSeq(b) /\ IsSeq(c) /\ IsSeq(d)
    BY <1>3, <1>4, <1>8, <1>9, <1>10 DEF FitsAll
  <1>12. FitsAll(s, k, rows, pkg) /\ IsSeq(s) /\ ToSet(s) = ToSet(a) \cup ToSet(b)
    BY <1>3, <1>4, <1>10, <1>11, FitsOn, SeqsJoined
  <1>13. l \subseteq k \cup Made(s)
    BY <1>4, <1>10, <1>12 DEF Made, l
  <1>14. FitsAll(t, k, rows, pkg)
    BY <1>8, <1>10, <1>12, <1>13, FitsOn
  <1>15. IsSeq(t) /\ ToSet(t) = ToSet(s) \cup ToSet(c)
    BY <1>10, <1>11, <1>12, SeqsJoined
  <1>16. l \subseteq k \cup Made(t)
    BY <1>13, <1>15 DEF Made
  <1>17. FitsAll(u, k, rows, pkg)
    BY <1>9, <1>10, <1>14, <1>16, FitsOn
  <1>18. ToSet(u) = ToSet(t) \cup ToSet(d)
    BY <1>10, <1>11, <1>15, SeqsJoined
  <1>19. graph \in ToSet(u)
    BY <1>10, <1>12, <1>15, <1>18, ToSetOfOne
  <1>20. ASSUME NEW ch \in StagedOf(rows, "channel", pkg)
         PROVE  HasEntries(u, ch)
    <2>1. PICK i \in 1 .. n : channels[i] = ch
      BY <1>5
    <2>2. \A j \in 1 .. n : IsSeq(seqs[j])
      BY <1>7 DEF FitsAll
    <2>3. \A o \in ToSet(seqs[i]) : o \in ToSet(FlattenSeq(seqs))
      BY <1>5, <1>6, <2>2, FlattenedHas
    <2>4. ToSet(seqs[i]) \subseteq ToSet(u)
      BY <1>10, <1>15, <1>18, <2>3
    <2>5. HasEntries(seqs[i], ch)
      BY <1>7, <2>1
    <2> QED
      BY <2>4, <2>5, HasMore
  <1>21. HasPackage(u, rows, pkg)
    BY <1>19, <1>20 DEF HasPackage, graph
  <1> QED
    BY <1>1, <1>10, <1>17, <1>21

LEMMA RowsUnique ==
  ASSUME NEW d, Good(d)
  PROVE  /\ \A path : \A g, h \in GraphAt(d, Catalog, path) : g = h
         /\ \A x : \A b, c \in BundleIn(d, Catalog, x) : b = c
  BY DEF Good, GoodContent, Placed, BundleKeys, GraphAt, BundleIn

\* Whose bundle IDs nobody shares has its own bundles, and no stubs for them.
LEMMA OwnBundle ==
  ASSUME NEW pkg, NamesUnshared(pkg), ValidPackage(AllRows, pkg), Sourced(content, AllRows),
         NEW ch \in StagedOf(AllRows, "channel", pkg), NEW i \in DOMAIN ch.entries,
         NEW b \in BundleIn(content, Catalog, ch.entries[i].bundle)
  PROVE  \E r \in AllRows : r.kind = "bundle" /\ r.pkg = pkg /\ r.name = b.bundle /\ r.version = b.version
  <1> DEFINE NamesIn(rows) == {x.name : x \in {r \in rows : r.kind = "bundle"}}
               \cup UNION {UNION {{c.entries[j].bundle} \cup Predecessors(c.entries[j]) :
                                   j \in DOMAIN c.entries} : c \in {r \in rows : r.kind = "channel"}}
             own == {r \in AllRows : r.pkg = pkg}
  <1>1. NamesIn(own) \cap NamesIn(AllRows \ own) = {}
    BY DEF NamesUnshared
  <1>2. PICK x : x = ch.entries[i].bundle
    OBVIOUS
  <1>3. b \in content.bundles /\ b.bundle = x
    BY <1>2 DEF BundleIn
  <1>4. /\ \A rows : \A r \in rows : r.kind = "bundle" => r.name \in NamesIn(rows)
        /\ \A rows : \A c \in rows : \A j \in DOMAIN c.entries : c.kind = "channel" =>
             c.entries[j].bundle \in NamesIn(rows) /\ Predecessors(c.entries[j]) \subseteq NamesIn(rows)
    OBVIOUS
  <1>5. ch \in own /\ ch.kind = "channel"
    BY DEF StagedOf
  <1> HIDE DEF NamesIn, own
  <1>6. x \in NamesIn(own)
    BY <1>2, <1>4, <1>5
  <1>7. \A r \in AllRows : r \in own <=> r.pkg = pkg
    BY DEF own
  <1>8. x \in BundleNames(AllRows, pkg)
    BY <1>2 DEF ValidPackage, BundleNames
  <1>9. ~ \E c \in AllRows : /\ c.kind = "channel" /\ RefersTo(c, x)
                             /\ x \notin BundleNames(AllRows, c.pkg)
    <2> SUFFICES ASSUME NEW c \in AllRows, c.kind = "channel", RefersTo(c, x),
                        x \notin BundleNames(AllRows, c.pkg)
                 PROVE  FALSE
      OBVIOUS
    <2>1. c \in AllRows \ own
      BY <1>7, <1>8
    <2>2. PICK j \in DOMAIN c.entries : x \in Predecessors(c.entries[j])
      BY DEF RefersTo
    <2>3. x \in NamesIn(AllRows \ own)
      BY <1>4, <2>1, <2>2
    <2> QED
      BY <1>1, <1>6, <2>3
  <1>10. PICK r \in AllRows : r.kind = "bundle" /\ r.name = x /\ r.version = b.version
    BY <1>3, <1>9 DEF Sourced, Said
  <1>11. r.pkg = pkg
    <2> SUFFICES ASSUME r.pkg # pkg
                 PROVE  FALSE
      OBVIOUS
    <2>1. r \in AllRows \ own
      BY <1>7
    <2>2. x \in NamesIn(AllRows \ own)
      BY <1>4, <1>10, <2>1
    <2> QED
      BY <1>1, <1>6, <2>2
  <1> QED
    BY <1>3, <1>10, <1>11

LEMMA EntryIsThere ==
  ASSUME Good(content), Sourced(content, AllRows), NEW pkg, NamesUnshared(pkg),
         Whole(content, AllRows, pkg), HasPackage(PackageWrites(AllRows, pkg), AllRows, pkg),
         NEW ch \in StagedOf(AllRows, "channel", pkg), NEW i \in DOMAIN ch.entries
  PROVE  EntryWritten(ch, ch.entries[i])
  <1>1. PICK path, e : path = <<ch.pkg, ch.name>> /\ e = ch.entries[i]
    OBVIOUS
  <1>2. PICK member : member = [op |-> "member", path |-> path, bundle |-> e.bundle]
    OBVIOUS
  <1>3. Done(content, member) /\ HasEntry(PackageWrites(AllRows, pkg), path, e)
    BY <1>1, <1>2 DEF Whole, HasPackage, HasEntries
  <1>4. PICK g \in GraphAt(content, Catalog, path), b \in BundleIn(content, Catalog, e.bundle) :
          [graph |-> g.id, bundle |-> b.id] \in content.members
    <2>1. member.op = "member" /\ member.path = path /\ member.bundle = e.bundle
      BY <1>2
    <2> QED
      BY <1>3, <2>1 DEF Done
  <1>5. \E r \in AllRows : r.kind = "bundle" /\ r.pkg = ch.pkg /\ r.name = b.bundle /\ r.version = b.version
    <2>1. ch.pkg = pkg
      BY DEF StagedOf
    <2> QED
      BY <1>1, <1>4, <2>1, OwnBundle DEF Whole
  <1>6. ASSUME NEW x \in Predecessors(e)
        PROVE  \E a \in {r.id : r \in BundleIn(content, Catalog, x)} :
                 [graph |-> g.id, from |-> a, to |-> b.id] \in content.edges
    <2>1. PICK o : o = [op |-> "edge", path |-> path, from |-> x, to |-> e.bundle]
      OBVIOUS
    <2>2. Done(content, o)
      BY <1>3, <2>1 DEF HasEntry, Whole
    <2>3. o.op = "edge" /\ o.path = path /\ o.from = x /\ o.to = e.bundle
      BY <2>1
    <2>4. PICK h \in GraphAt(content, Catalog, path), a \in BundleIn(content, Catalog, x),
               c \in BundleIn(content, Catalog, e.bundle) :
            [graph |-> h.id, from |-> a.id, to |-> c.id] \in content.edges
      BY <2>2, <2>3 DEF Done
    <2>5. h = g /\ c = b
      BY RowsUnique
    <2> QED
      BY <2>4, <2>5
  <1>7. e.range # None => [graph |-> g.id, bundle |-> b.id, versions |-> e.range] \in content.ranges
    <2> SUFFICES ASSUME e.range # None
                 PROVE  [graph |-> g.id, bundle |-> b.id, versions |-> e.range] \in content.ranges
      OBVIOUS
    <2>1. PICK o : o = [op |-> "range", path |-> path, bundle |-> e.bundle, versions |-> e.range]
      OBVIOUS
    <2>2. Done(content, o)
      BY <1>3, <2>1 DEF HasEntry, Whole
    <2>3. o.op = "range" /\ o.path = path /\ o.bundle = e.bundle /\ o.versions = e.range
      BY <2>1
    <2>4. PICK h \in GraphAt(content, Catalog, path), c \in BundleIn(content, Catalog, e.bundle) :
            [graph |-> h.id, bundle |-> c.id, versions |-> e.range] \in content.ranges
      BY <2>2, <2>3 DEF Done
    <2>5. h = g /\ c = b
      BY RowsUnique
    <2> QED
      BY <2>4, <2>5
  <1> QED
    BY <1>1, <1>4, <1>5, <1>6, <1>7 DEF EntryWritten

LEMMA WholeIsThere ==
  ASSUME ImportInv, RefusalInv, WholeInv
  PROVE  ValidPackagesWhole
  <1> SUFFICES ASSUME result \in {"ok", "partial"}, NEW pkg \in StagedPackages(AllRows) \ errs
               PROVE  /\ GraphAt(content, Catalog, <<pkg>>) # {}
                      /\ NamesUnshared(pkg) =>
                           \A ch \in StagedOf(AllRows, "channel", pkg) : \A i \in DOMAIN ch.entries :
                             EntryWritten(ch, ch.entries[i])
    BY DEF ValidPackagesWhole
  <1>1. Passed
    BY DEF Passed
  <1>2. Good(content) /\ staged = AllRows /\ Sourced(content, AllRows)
    BY <1>1 DEF WholeInv
  <1>3. Whole(content, AllRows, pkg)
    <2>1. phase # "normalize"
      BY DEF WholeInv
    <2>2. phase = "normalize" => Whole(content, AllRows, pkg)
      BY <2>1, <1>1 DEF WholeInv, AllWhole
    <2> QED
      BY <1>1, <2>2 DEF WholeInv, AllWhole
  <1>4. HasPackage(PackageWrites(AllRows, pkg), AllRows, pkg)
    <2>1. IsFiniteSet(AllRows)
      BY <1>2 DEF RefusalInv
    <2>2. \A ch \in StagedOf(AllRows, "channel", pkg) : Listed(ch)
      BY RowsListed DEF StagedOf, ImportInv
    <2> QED
      BY <1>3, <2>1, <2>2, PackageFits DEF Whole
  <1>5. GraphAt(content, Catalog, <<pkg>>) # {}
    <2>1. PICK o : o = [op |-> "graph", path |-> <<pkg>>]
      OBVIOUS
    <2>2. Done(content, o)
      BY <1>3, <1>4, <2>1 DEF Whole, HasPackage
    <2>3. o.op = "graph" /\ o.path = <<pkg>>
      BY <2>1
    <2> QED
      BY <2>2, <2>3 DEF Done
  <1> QED
    BY <1>2, <1>3, <1>4, <1>5, EntryIsThere

LEMMA WholeKept ==
  ASSUME NEW d, NEW e, Keeps(d, e), NEW rows, NEW pkg, Whole(d, rows, pkg)
  PROVE  Whole(e, rows, pkg)
  BY DoneStays DEF Whole

\* A step that writes nothing and ends no phase.
LEMMA WholeStays ==
  ASSUME WholeInv, UNCHANGED <<files, phase, todo, current, content, result>>, errs \subseteq errs',
         Passed => UNCHANGED staged
  PROVE  WholeInv'
  <1>1. AllRows' = AllRows
    BY SameFiles
  <1>2. InWork => InWork'
    BY <1>1 DEF InWork
  <1>3. AllWhole => AllWhole'
    BY <1>1 DEF AllWhole, Idle
  <1> QED
    BY <1>1, <1>2, <1>3 DEF WholeInv, Passed, Idle

\* The rows are staged when the phase after the walk begins, and never after.
LEMMA FlushBefore ==
  ASSUME ImportInv, WholeInv, Flush
  PROVE  ~Passed
  <1>1. writer.status \in {"reading", "flushing"}
    BY DEF Flush, Drained
  <1>2. phase \in {"ingest", "closed"}
    BY <1>1 DEF ImportInv, Joining
  <1> QED
    BY <1>2 DEF WholeInv, Passed

LEMMA IngestedWhole ==
  ASSUME ImportInv, ImportInv', WholeInv, Ingested
  PROVE  WholeInv'
  <1>1. /\ UNCHANGED <<files, staged, current, content>> /\ phase = "closed"
        /\ \/ phase' = "returned" /\ result' = "fatal"
           \/ phase' = "normalize" /\ todo' = StagedPackages(staged) /\ UNCHANGED result
    BY DEF Ingested, Return, ingestVars
  <1>2. Good(content) /\ current = Idle /\ content = EmptyContent /\ result \notin {"ok", "partial"}
    BY <1>1 DEF WholeInv
  <1>3. AllRows' = AllRows
    BY <1>1, SameFiles
  <1>4. CASE phase' = "returned" /\ result' = "fatal"
    BY <1>1, <1>2, <1>4 DEF WholeInv, Passed, Idle
  <1>5. CASE phase' = "normalize" /\ todo' = StagedPackages(staged) /\ UNCHANGED result
    <2>1. staged' = AllRows'
      <3>1. (ImportInv => EveryRowStaged)'
        BY AllStaged, PTL
      <3> QED
        BY <1>5, <3>1 DEF EveryRowStaged
    <2>2. AllWhole'
      BY <1>1, <1>3, <1>5, <2>1 DEF AllWhole
    <2>3. Sourced(content, AllRows)
      BY <1>2 DEF Sourced, EmptyContent
    <2> QED
      BY <1>1, <1>2, <1>3, <1>5, <2>1, <2>2, <2>3 DEF WholeInv, Idle
  <1> QED
    BY <1>1, <1>4, <1>5

\* All the writes of a package are before it when it begins.
LEMMA BeginWhole ==
  ASSUME ImportInv, RefusalInv, WholeInv, NEW pkg, BeginPackage(pkg)
  PROVE  WholeInv'
  <1>1. /\ UNCHANGED <<files, staged, phase, content, result>>
        /\ phase = "normalize" /\ current = Idle /\ pkg \in todo /\ todo' = todo \ {pkg}
    BY DEF BeginPackage, ingestVars
  <1>2. /\ Good(content) /\ staged = AllRows /\ Sourced(content, AllRows) /\ AllWhole
        /\ result \notin {"ok", "partial"}
    BY <1>1 DEF WholeInv, Passed
  <1>3. AllRows' = AllRows
    BY <1>1, SameFiles
  <1>4. ASSUME current' = Idle, errs \subseteq errs', pkg \in errs'
        PROVE  WholeInv'
    <2>1. AllWhole'
      BY <1>1, <1>2, <1>3, <1>4 DEF AllWhole
    <2> QED
      BY <1>1, <1>2, <1>3, <1>4, <2>1 DEF WholeInv, Idle
  <1>5. CASE pkg \in errs
    <2>1. UNCHANGED <<current, errs>>
      BY <1>5 DEF BeginPackage
    <2> QED
      BY <1>1, <1>4, <1>5, <2>1
  <1>6. CASE pkg \notin errs /\ ~ValidPackage(staged, pkg)
    <2>1. UNCHANGED current /\ errs' = errs \cup {pkg}
      BY <1>6 DEF BeginPackage, Fail
    <2> QED
      BY <1>1, <1>4, <2>1
  <1>7. CASE pkg \notin errs /\ ValidPackage(staged, pkg)
    <2>1. PICK ws : ws = PackageWrites(AllRows, pkg)
      OBVIOUS
    <2>2. UNCHANGED errs /\ current' = [pkg |-> pkg, writes |-> ws]
      BY <1>2, <1>7, <2>1 DEF BeginPackage
    <2>3. current'.pkg = pkg /\ current'.writes = ws
      BY <2>2
    <2>4. FitsAll(ws, Known(content), AllRows, pkg) /\ HasPackage(ws, AllRows, pkg)
      <3>1. IsFiniteSet(AllRows)
        BY <1>2 DEF RefusalInv
      <3>2. \A ch \in StagedOf(AllRows, "channel", pkg) : Listed(ch)
        BY RowsListed DEF StagedOf, ImportInv
      <3> QED
        BY <1>2, <1>7, <2>1, <3>1, <3>2, PackageFits
    <2>5. ws # <<>>
      <3>1. ToSet(<<>>) = {}
        BY DEF ToSet
      <3> QED
        BY <2>4, <3>1 DEF HasPackage
    <2>6. current' # Idle
      BY <2>3, <2>5 DEF Idle
    <2>7. InWork'
      BY <1>1, <1>3, <2>1, <2>3, <2>4 DEF InWork
    <2>8. AllWhole'
      BY <1>1, <1>2, <1>3, <2>2, <2>3, <2>6 DEF AllWhole
    <2> QED
      BY <1>1, <1>2, <1>3, <2>7, <2>8 DEF WholeInv
  <1> QED
    BY <1>5, <1>6, <1>7

\* A write is done, and what it needs was done before it; one that fails has an error.
LEMMA WriteWhole ==
  ASSUME ImportInv, RefusalInv, WholeInv, Write
  PROVE  WholeInv'
  <1>1. UNCHANGED <<files, staged, phase, todo, result>> /\ current.writes # <<>>
    BY DEF Write, ingestVars
  <1>2. current # Idle
    BY <1>1 DEF Idle
  <1>3. phase = "normalize" /\ InWork
    BY <1>2 DEF WholeInv
  <1>4. /\ Good(content) /\ staged = AllRows /\ Sourced(content, AllRows) /\ AllWhole
        /\ result \notin {"ok", "partial"}
    BY <1>3 DEF WholeInv, Passed
  <1>5. AllRows' = AllRows
    BY <1>1, SameFiles
  <1>6. PICK ws, pkg : ws = current.writes /\ pkg = current.pkg
    OBVIOUS
  <1>7. /\ WritesFor(ws, pkg) /\ current = [pkg |-> pkg, writes |-> ws] /\ ws # <<>> /\ IsSeq(ws)
        /\ ValidPackage(AllRows, pkg)
    BY <1>1, <1>2, <1>6 DEF RefusalInv, Writing, WritesFor, IsSeq, Allowed
  <1>8. /\ FitsAll(ws, Known(content), AllRows, pkg)
        /\ \A o \in ToSet(PackageWrites(AllRows, pkg)) : Done(content, o) \/ o \in ToSet(ws)
    BY <1>3, <1>6 DEF InWork
  <1>9. PICK o, next : o = Head(ws) /\ next = Apply(content, Catalog, 1, o)
    OBVIOUS
  <1>10. IsWrite(o, pkg)
    BY <1>7, <1>9, WritesLeft
  <1>11. \/ /\ next # Failed /\ content' = next /\ UNCHANGED errs
            /\ current' = IF Len(ws) = 1 THEN Idle ELSE [current EXCEPT !.writes = Tail(@)]
         \/ errs' = errs \cup {pkg} /\ current' = Idle /\ UNCHANGED content
    BY <1>6, <1>9 DEF Write, Fail
  <1>12. CASE /\ next # Failed /\ content' = next /\ UNCHANGED errs
              /\ current' = IF Len(ws) = 1 THEN Idle ELSE [current EXCEPT !.writes = Tail(@)]
    <2>1. Does(content, o, content') /\ o.op \in Operations
      BY <1>9, <1>10, <1>12 DEF Does, IsWrite
    <2>2. Good(content')
      BY <1>4, <2>1, GoodKept
    <2>3. Fits(o, Known(content), AllRows, pkg)
      <3>1. PICK k, l : k = Known(content) /\ l = k \cup {Head(ws).bundle}
        OBVIOUS
      <3>2. k \subseteq l /\ Head(ws).bundle \in l
        BY <3>1
      <3>3. Fits(Head(ws), k, AllRows, pkg)
        BY <1>7, <1>8, <3>1, <3>2, FitsLeft
      <3> QED
        BY <1>9, <3>1, <3>3
    <2>4. /\ Keeps(content, content') /\ Brings(content, o, content') /\ Done(content', o)
          /\ o.op = "bundle" => o.bundle \in Known(content')
      BY <1>4, <2>1, <2>3, AppliedIsDone
    <2>5. FitsAll(Tail(ws), Known(content'), AllRows, pkg)
      <3>1. Known(content) \subseteq Known(content')
        BY <2>4, KnownStays
      <3> QED
        BY <1>7, <1>8, <1>9, <2>4, <3>1, FitsLeft
    <2>6. Sourced(content', AllRows)
      BY <1>4, <2>3, <2>4, SourcedStays
    <2>7. \A x \in ToSet(PackageWrites(AllRows, pkg)) : Done(content', x) \/ x \in ToSet(Tail(ws))
      BY <1>7, <1>8, <1>9, <2>4, DoneStays, OthersLeft
    <2>8. \A x : Whole(content, AllRows, x) => Whole(content', AllRows, x)
      BY <2>4, WholeKept
    <2>9. CASE Len(ws) = 1
      <3>1. current' = Idle
        BY <1>12, <2>9
      <3>2. Tail(ws) = <<>>
        <4>1. Tail(ws) \in Seq(ToSet(ws)) /\ Len(Tail(ws)) = Len(ws) - 1
          BY <1>7, HeadTailProperties DEF IsSeq
        <4>2. Len(Tail(ws)) = 0
          BY <2>9, <4>1
        <4> QED
          BY <4>1, <4>2, EmptySeq
      <3>3. Whole(content', AllRows, pkg)
        <4>1. ToSet(<<>>) = {}
          BY DEF ToSet
        <4> QED
          BY <1>7, <2>7, <3>2, <4>1 DEF Whole
      <3>4. AllWhole'
        BY <1>1, <1>3, <1>4, <1>5, <1>6, <1>12, <2>8, <3>3 DEF AllWhole
      <3> QED
        BY <1>1, <1>3, <1>4, <1>5, <2>2, <2>6, <3>1, <3>4 DEF WholeInv, Idle
    <2>10. CASE Len(ws) # 1
      <3>1. PICK t : t = Tail(ws)
        OBVIOUS
      <3>2. current' = [pkg |-> pkg, writes |-> t]
        BY <1>7, <1>12, <2>10, <3>1
      <3>3. current'.pkg = pkg /\ current'.writes = t
        BY <3>2
      <3>4. InWork'
        BY <1>5, <2>5, <2>7, <3>1, <3>3 DEF InWork
      <3>5. current' # Idle
        <4>1. t # <<>>
          <5>1. Len(t) = Len(ws) - 1 /\ Len(ws) \in Nat
            BY <1>7, <3>1, HeadTailProperties, LenProperties DEF IsSeq
          <5>2. Len(t) # 0
            BY <2>10, <5>1
          <5> QED
            BY <5>2, SeqOfNone
        <4> QED
          BY <3>3, <4>1 DEF Idle
      <3>6. AllWhole'
        BY <1>1, <1>3, <1>4, <1>5, <1>6, <1>12, <2>8, <3>3, <3>5 DEF AllWhole
      <3> QED
        BY <1>1, <1>3, <1>4, <1>5, <2>2, <2>6, <3>4, <3>6 DEF WholeInv
    <2> QED
      BY <2>9, <2>10
  <1>13. CASE errs' = errs \cup {pkg} /\ current' = Idle /\ UNCHANGED content
    <2>1. AllWhole'
      BY <1>1, <1>3, <1>4, <1>5, <1>6, <1>13 DEF AllWhole
    <2> QED
      BY <1>1, <1>3, <1>4, <1>5, <1>13, <2>1 DEF WholeInv, Idle
  <1> QED
    BY <1>11, <1>12, <1>13

\* Finalize sets properties.
LEMMA FinalizeWhole ==
  ASSUME WholeInv, NEW pkg, FinalizePackage(pkg)
  PROVE  WholeInv'
  <1>1. /\ UNCHANGED <<files, staged, phase, current, result>> /\ phase = "finalize" /\ errs \subseteq errs'
        /\ \/ content' = content
           \/ content' = SetGraphProperty(content, Catalog, <<pkg>>) /\ content' # Failed
    BY DEF FinalizePackage, ingestVars, Fail
  <1>2. /\ Good(content) /\ staged = AllRows /\ Sourced(content, AllRows) /\ AllWhole
        /\ result \notin {"ok", "partial"} /\ current = Idle
    BY <1>1 DEF WholeInv, Passed
  <1>3. AllRows' = AllRows
    BY <1>1, SameFiles
  <1>4. Good(content') /\ Keeps(content, content') /\ content'.bundles = content.bundles
    <2>1. CASE content' = content
      BY <1>2, <2>1, GrownKeeps
    <2>2. CASE content' = SetGraphProperty(content, Catalog, <<pkg>>) /\ content' # Failed
      <3>1. PICK path : path = <<pkg>>
        OBVIOUS
      <3>2. PICK o : o = [op |-> "graph prop", path |-> path]
        OBVIOUS
      <3>3. Does(content, o, content') /\ o.op \in Operations
        BY <2>2, <3>1, <3>2 DEF Does, Apply, Operations
      <3> QED
        BY <1>2, <2>2, <3>3, GoodKept, PropertyWritten
    <2> QED
      BY <1>1, <2>1, <2>2
  <1>5. \A x : Whole(content, AllRows, x) => Whole(content', AllRows, x)
    BY <1>4, WholeKept
  <1>6. Sourced(content', AllRows)
    BY <1>2, <1>4 DEF Sourced
  <1>7. AllWhole'
    BY <1>1, <1>2, <1>3, <1>5 DEF AllWhole
  <1> QED
    BY <1>1, <1>2, <1>3, <1>4, <1>6, <1>7 DEF WholeInv, Idle

LEMMA WholeInit == Init => WholeInv
  <1> SUFFICES ASSUME Init
               PROVE  WholeInv
    OBVIOUS
  <1>1. content = EmptyContent /\ current = Idle /\ phase = "ingest" /\ result = None
    BY DEF Init
  <1>2. Importing(EmptyContent, Catalog, 1, EmptyContent)
    BY DEF Importing, EmptyContent
  <1>3. Good(content)
    BY <1>1, <1>2, EmptyIsGood DEF Good
  <1>4. result \notin {"ok", "partial"}
    BY <1>1, ImportAssumption
  <1> QED
    BY <1>1, <1>3, <1>4 DEF WholeInv, Passed

\* WholeInv is inductive, where ImportInv and RefusalInv hold.
LEMMA WholeStep == ImportInv /\ ImportInv' /\ RefusalInv /\ WholeInv /\ [Next]_vars => WholeInv'
  <1> SUFFICES ASSUME ImportInv, ImportInv', RefusalInv, WholeInv, [Next]_vars
               PROVE  WholeInv'
    OBVIOUS
  <1>1. CASE (\E f \in Files : Walk(f)) \/ ReceiveRow \/ Cancel \/ UNCHANGED vars
    <2>1. /\ UNCHANGED <<files, phase, todo, current, content, result, staged>> /\ errs \subseteq errs'
      BY <1>1 DEF Walk, Start, Abandon, SkipBlob, SendRow, SendCancelled, EndOfFile, ReceiveRow, Cancel,
         laterVars, ingestVars, vars
    <2> QED
      BY <2>1, WholeStays
  <1>2. CASE Flush
    <2>1. UNCHANGED <<files, phase, todo, current, content, result>> /\ errs \subseteq errs'
      BY <1>2 DEF Flush, laterVars
    <2> QED
      BY <1>2, <2>1, FlushBefore, WholeStays
  <1>3. CASE CloseRows
    <2>1. /\ UNCHANGED <<files, current, content, result>>
          /\ phase = "ingest" /\ phase' = "closed"
      BY <1>3 DEF CloseRows, ingestVars
    <2> QED
      BY <2>1 DEF WholeInv, Passed, Idle
  <1>4. CASE Ingested
    BY <1>4, IngestedWhole
  <1>5. ASSUME NEW pkg \in todo, BeginPackage(pkg) \/ FinalizePackage(pkg)
        PROVE  WholeInv'
    BY <1>5, BeginWhole, FinalizeWhole
  <1>6. CASE Write
    BY <1>6, WriteWhole
  <1>7. CASE NormalizeDone \/ FinalizeDone
    <2>1. /\ UNCHANGED <<files, staged, errs, current, content>> /\ current = Idle /\ todo = {}
          /\ Passed /\ phase' \in {"finalize", "returned"}
          /\ phase' = "finalize" => UNCHANGED result /\ phase = "normalize"
      BY <1>7 DEF NormalizeDone, FinalizeDone, Return, ingestVars, Passed, WholeInv
    <2>2. AllRows' = AllRows
      BY <2>1, SameFiles
    <2>3. Good(content) /\ staged = AllRows /\ Sourced(content, AllRows) /\ AllWhole
      BY <2>1 DEF WholeInv
    <2>4. AllWhole'
      BY <2>1, <2>2, <2>3 DEF AllWhole
    <2> QED
      BY <2>1, <2>2, <2>3, <2>4 DEF WholeInv, Idle
  <1> QED
    BY <1>1, <1>2, <1>3, <1>4, <1>5, <1>6, <1>7 DEF Next, Import

-----------------------------------------------------------------------------
(***************************************************************************)
(* The theorems.                                                           *)
(***************************************************************************)

\* Importer.Import and batchWriter: the inductive invariant of the goroutines.
THEOREM ImportKeepsItsRows == Spec => []ImportInv
  BY ImportInit, ImportStep, PTL DEF Spec

\* Importer.Import: when it returns, the walk has ended and the writer has, whether
\* the import went well, failed or was cancelled, for any files and any capacity.
THEOREM JoinsItsGoroutines == Spec => []GoroutinesJoined
  <1>1. ImportInv => GoroutinesJoined
    BY DEF ImportInv, Joining, GoroutinesJoined
  <1> QED
    BY <1>1, ImportKeepsItsRows, PTL

\* Importer.ingest: past the walk every row of the files is in the raw tables, and
\* then no two of them had one key, for any files, walkers and batches.
THEOREM StagesEveryRow == Spec => []EveryRowStaged
  BY AllStaged, ImportKeepsItsRows, PTL

\* OLMPackageHandler.Normalize: no graph is left by a package that the walk or the
\* validation refuses, for any files, walkers and batches, and wherever the writes of
\* the other packages end.
THEOREM RefusedLeaveNothing == Spec => []RefusedPackagesUnwritten
  <1>1. RefusalInv => RefusedPackagesUnwritten
    BY DEF RefusalInv, Written, Allowed, RefusedPackagesUnwritten
  <1> QED
    BY <1>1, RefusalInit, RefusalStep, ImportKeepsItsRows, PTL DEF Spec

\* OLMPackageHandler.Normalize: when all packages are normalized the packages with errors
\* are those that are at fault, for any files, walkers and batches, and whatever
\* packages share; no write of a package without fault fails on what others wrote.
THEOREM FaultsAreReported == FailedIsNoContent => (Spec => []FaultsReported)
  <1> SUFFICES ASSUME FailedIsNoContent
               PROVE  Spec => []FaultsReported
    OBVIOUS
  <1>1. ImportInv /\ ImportInv' /\ RefusalInv /\ FaultInv /\ [Next]_vars => FaultInv'
    BY FaultStep
  <1>2. FaultInv => FaultsReported
    BY DEF FaultInv, Early, Waiting, FaultsReported
  <1>3. Spec => []RefusalInv
    BY RefusalInit, RefusalStep, ImportKeepsItsRows, PTL DEF Spec
  <1> QED
    BY <1>1, <1>2, <1>3, FaultInit, ImportKeepsItsRows, PTL DEF Spec

\* OLMPackageHandler.Normalize: when Import has returned a package without an error is in
\* the content whole, with its own bundles, edges and ranges, if no other package names its
\* bundles, for any files, walkers and batches, and wherever the other packages failed.
THEOREM ValidPackagesAreWhole == Spec => []ValidPackagesWhole
  <1>1. Spec => []RefusalInv
    BY RefusalInit, RefusalStep, ImportKeepsItsRows, PTL DEF Spec
  <1> QED
    BY <1>1, WholeInit, WholeStep, WholeIsThere, ImportKeepsItsRows, PTL DEF Spec
=============================================================================
