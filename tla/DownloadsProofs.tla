---------------------------- MODULE DownloadsProofs ----------------------------
(***************************************************************************)
(* Proofs about Downloads.tla, for any number of jobs, repositories, files *)
(* and blocks.  What makes the files' properties inductive is Streams: how *)
(* far a job's stream has come is what it has written to the one inode it  *)
(* has open, wherever in it the job began.                                 *)
(***************************************************************************)
EXTENDS Downloads, SequenceTheorems, TLAPS

(* A job is asked for once.                                                *)
Asked == \A j \in Jobs : source[j] = None <=> pc[j] = "new"

(* A job at work that Cancel has not reached has a status Close looks for, *)
(* and an outcome is set with the last step.                               *)
Stops ==
  /\ cancelling # None => cancelling \in stopped
  /\ \A j \in Jobs :
       /\ pc[j] \notin {"new", "done", "gone"} /\ j \notin stopped
            => status[j] \in {"pending", "downloading"}
       /\ status[j] \in {"completed", "failed"} => pc[j] \in {"done", "gone"}

WroteIn(j, i) == \E n \in 1 .. Len(content[i]) : content[i][n].by = j

(* Before the open a job has written nothing; then to its inode only, and  *)
(* if nobody wrote in between, exactly the blocks its stream has yielded.  *)
Streamed(j, i, k) ==
  Before(i, j, k) /\ (fd[j] = i \/ WroteIn(j, i)) =>
    /\ Len(content[i]) = k + at[j] - First(j)
    /\ \A n \in k + 1 .. Len(content[i]) :
         content[i][n] = Block(j, First(j) + n - k - 1)

Stream(j) ==
  /\ pc[j] \in {"new", "created", "begin", "stat", "request", "open"}
       => \A i \in Jobs : ~WroteIn(j, i)
  /\ pc[j] = "open" => at[j] = First(j)
  /\ pc[j] = "stream" => \A i \in Jobs : WroteIn(j, i) => fd[j] = i
  /\ pc[j] = "rename" => at[j] = Size + 1
  /\ pc[j] \in {"stream", "rename"} =>
       \A i \in Jobs, k \in Nat : Streamed(j, i, k)

Streams == \A j \in Jobs : Stream(j)

DownInv == DownTypeOK /\ Asked /\ Stops /\ Streams

-----------------------------------------------------------------------------

LEMMA DownStarts == DownInit => DownInv
<1> SUFFICES ASSUME DownInit PROVE DownInv
  OBVIOUS
<1>1. DownTypeOK /\ Asked /\ Stops
  <2>1. <<>> \in Inodes /\ 1 \in 1 .. Size + 1
    BY DownloadsAssumption DEF Inodes
  <2> QED
    BY <2>1 DEF DownInit, DownTypeOK, Asked, Stops
<1>2. Streams
  <2>1. \A j \in Jobs : pc[j] = "new" /\ content[j] = << >>
    BY DEF DownInit
  <2>2. \A j, i \in Jobs : ~WroteIn(j, i)
    BY <2>1 DEF WroteIn
  <2> QED
    BY <2>1, <2>2 DEF Streams, Stream
<1> QED
  BY <1>1, <1>2 DEF DownInv

(* Types.                                                                  *)
LEMMA DownTypesKept ==
  ASSUME DownTypeOK, Asked, [DownNext]_downVars
  PROVE  DownTypeOK' /\ Asked'
<1> USE DownloadsAssumption DEF DownTypeOK, Asked, fileVars, Goto
<1>1. ASSUME NEW j \in Jobs, NEW s \in Sources, Create(j, s)
      PROVE  DownTypeOK' /\ Asked'
  <2>1. s # None
    BY DEF Sources
  <2> QED
    BY <1>1, <2>1 DEF Create
<1>2. ASSUME NEW j \in Jobs, CancelBegin(j) \/ Spawn(j) \/ Begin(j)
      PROVE  DownTypeOK' /\ Asked'
  BY <1>2 DEF CancelBegin, Spawn, Begin
<1>3. ASSUME NEW j \in Jobs, pc[j] # "new"
      PROVE  source[j] \in Sources /\ Repo(j) \in Repos /\ Path(j) \in Paths
  BY <1>3 DEF Repo, Path, Sources, Paths
<1>4. ASSUME NEW j \in Jobs, Stat(j)
      PROVE  DownTypeOK' /\ Asked'
  <2>1. \A i \in Jobs : Len(content[i]) \in Nat
    BY DEF Inodes
  <2>2. part[Repo(j)] \in Jobs \cup {None}
    BY <1>3, <1>4 DEF Stat
  <2> QED
    BY <1>4, <2>1, <2>2 DEF Stat
<1>5. ASSUME NEW j \in Jobs, Answered(j)
      PROVE  DownTypeOK' /\ Asked'
  <2>1. at'[j] \in 1 .. Size + 1 /\ at' = [at EXCEPT ![j] = at'[j]]
    BY <1>5 DEF Answered, RangeFrom
  <2>2. partial' \in [Jobs -> BOOLEAN]
    BY <1>5 DEF Answered
  <2> QED
    BY <1>5, <2>1, <2>2 DEF Answered
<1>6. ASSUME NEW j \in Jobs, Open(j)
      PROVE  DownTypeOK' /\ Asked'
  BY <1>3, <1>6 DEF Open
<1>7. ASSUME NEW j \in Jobs, Write(j)
      PROVE  DownTypeOK' /\ Asked'
  <2>1. fd[j] \in Jobs /\ at[j] \in 1 .. Size /\ at[j] + 1 \in 1 .. Size + 1
    BY <1>7 DEF Write
  <2>2. Block(j, at[j]) \in [of : Sources, no : 1 .. Size, by : Jobs]
    BY <1>3, <1>7, <2>1 DEF Write, Block
  <2> HIDE DEF DownTypeOK
  <2>3. Append(content[fd[j]], Block(j, at[j])) \in Inodes
    BY <2>1, <2>2, AppendProperties DEF Inodes, DownTypeOK
  <2> QED
    BY <1>7, <2>1, <2>3 DEF Write, DownTypeOK
<1>8. ASSUME NEW j \in Jobs, Finish(j) \/ Fails(j) \/ RenameFails(j)
      PROVE  DownTypeOK' /\ Asked'
  BY <1>8 DEF Finish, EndOfBody, Fails, RenameFails
<1>9. ASSUME NEW j \in Jobs, Rename(j)
      PROVE  DownTypeOK' /\ Asked'
  BY <1>3, <1>9 DEF Rename
<1>10. CASE CancelEnd \/ Close \/ Restart \/ UNCHANGED downVars
  BY <1>10 DEF CancelEnd, Close, Restart, downVars, jobVars
<1> QED
  BY <1>1, <1>2, <1>4, <1>5, <1>6, <1>7, <1>8, <1>9, <1>10 DEF DownNext, Local

(* What Close and the outcomes rest on.                                    *)
LEMMA StopsKept ==
  ASSUME DownTypeOK, Asked, Stops, [DownNext]_downVars
  PROVE  Stops'
<1> USE DownloadsAssumption DEF DownTypeOK, Asked, Stops, Goto
<1>1. ASSUME NEW j \in Jobs, NEW s \in Sources, Create(j, s)
      PROVE  Stops'
  BY <1>1 DEF Create
<1>2. ASSUME NEW j \in Jobs, CancelBegin(j)
      PROVE  Stops'
  BY <1>2 DEF CancelBegin
<1>3. ASSUME NEW j \in Jobs, Local(j)
      PROVE  Stops'
  <2>1. CASE Spawn(j) \/ Begin(j)
    BY <2>1 DEF Spawn, Begin
  <2>2. CASE Stat(j) \/ Open(j) \/ Finish(j)
    BY <2>2 DEF Stat, Open, Finish, EndOfBody
  <2>3. CASE Rename(j) \/ RenameFails(j)
    BY <2>3 DEF Rename, RenameFails, Fails
  <2> QED
    BY <1>3, <2>1, <2>2, <2>3 DEF Local
<1>4. ASSUME NEW j \in Jobs, Answered(j) \/ Write(j) \/ Fails(j)
      PROVE  Stops'
  BY <1>4 DEF Answered, Write, Fails
<1>5. CASE CancelEnd \/ Close \/ Restart \/ UNCHANGED downVars
  BY <1>5 DEF CancelEnd, Close, Restart, downVars, jobVars
<1> QED
  BY <1>1, <1>2, <1>3, <1>4, <1>5 DEF DownNext

LEMMA WriteKeepsStreams ==
  ASSUME DownTypeOK, Streams, NEW w \in Jobs, Write(w)
  PROVE  Streams'
<1>0. PICK f \in Jobs : f = fd[w]
  BY DEF Write, DownTypeOK
<1> DEFINE old == content[f]
           new == Append(old, Block(w, at[w]))
<1>1. /\ fd[w] = f /\ pc[w] = "stream" /\ at[w] \in Nat
      /\ at' = [at EXCEPT ![w] = at[w] + 1] /\ content' = [content EXCEPT ![f] = new]
      /\ UNCHANGED <<source, pc, offset, partial, fd>>
  BY <1>0 DEF Write, DownTypeOK
<1>2. /\ Len(old) \in Nat /\ Len(new) = Len(old) + 1
      /\ \A n \in 1 .. Len(old) : new[n] = old[n]
      /\ new[Len(old) + 1] = Block(w, at[w])
      /\ Block(w, at[w]).by = w
  <2>1. old \in Inodes
    BY <1>1 DEF DownTypeOK
  <2> QED
    BY <2>1, <1>1 DEF Inodes, Block
<1>3. content'[f] = new /\ \A i \in Jobs \ {f} : content'[i] = content[i]
  BY <1>1 DEF DownTypeOK
<1>4. \A j \in Jobs : First(j) \in Nat /\ First(j)' = First(j) /\ at[j] \in Nat
  BY <1>1 DEF First, RangeFrom, DownTypeOK
<1>5. \A j \in Jobs : \A n : Block(j, n)' = Block(j, n)
  BY <1>1 DEF Block
<1>6. \A j \in Jobs : WroteIn(j, f)' <=> WroteIn(j, f) \/ j = w
  BY <1>2, <1>3 DEF WroteIn
<1>7. \A j \in Jobs, i \in Jobs \ {f} : WroteIn(j, i)' <=> WroteIn(j, i)
  BY <1>3 DEF WroteIn
<1> HIDE DEF old, new
<1>8. ASSUME NEW j \in Jobs, pc[j] \in {"stream", "rename"},
             NEW i \in Jobs, NEW k \in Nat, Before(i, j, k)',
             (fd[j] = i \/ WroteIn(j, i))'
      PROVE  /\ Len(content'[i]) = k + at'[j] - First(j)
             /\ \A n \in k + 1 .. Len(content'[i]) :
                  content'[i][n] = Block(j, First(j) + n - k - 1)
  <2>1. CASE i # f /\ j = w
    <3>1. ~WroteIn(j, i) /\ fd[j] # i
      BY <1>1, <2>1 DEF Streams, Stream
    <3> QED
      BY <1>1, <1>7, <1>8, <2>1, <3>1
  <2>2. CASE i # f /\ j # w
    <3>1. Before(i, j, k) /\ (fd[j] = i \/ WroteIn(j, i))
      BY <1>1, <1>3, <1>7, <1>8, <2>2 DEF Before
    <3>2. at'[j] = at[j]
      BY <1>1, <2>2 DEF DownTypeOK
    <3> QED
      BY <1>3, <1>8, <2>2, <3>1, <3>2 DEF Streams, Stream, Streamed
  <2>3. CASE i = f /\ j = w
    <3>1. at'[w] = at[w] + 1
      BY <1>1 DEF DownTypeOK
    <3>2. k <= Len(old) /\ \A n \in 1 .. Len(old) : old[n].by = w <=> n > k
      BY <1>2, <1>3, <1>8, <2>3 DEF Before
    <3>3. Before(f, w, k) /\ fd[w] = f
      BY <1>1, <3>2 DEF Before, old
    <3>4. /\ Len(old) = k + at[w] - First(w)
          /\ \A n \in k + 1 .. Len(old) : old[n] = Block(w, First(w) + n - k - 1)
      BY <1>1, <3>3 DEF Streams, Stream, Streamed, old
    <3>5. Len(new) = k + at'[w] - First(w)
      BY <1>1, <1>2, <1>4, <3>1, <3>4
    <3>6. ASSUME NEW n \in k + 1 .. Len(new)
          PROVE  new[n] = Block(w, First(w) + n - k - 1)
      <4>1. CASE n = Len(old) + 1
        <5>1. First(w) \in Nat /\ at[w] \in Nat /\ Len(old) \in Nat
          BY <1>2, <1>4
        <5>2. Len(old) = k + at[w] - First(w)
          BY <3>4
        <5>3. \A s, a, l \in Nat : l = k + a - s => s + (l + 1) - k - 1 = a
          OBVIOUS
        <5>4. First(w) + (Len(old) + 1) - k - 1 = at[w]
          BY <5>1, <5>2, <5>3
        <5> QED
          BY <1>2, <4>1, <5>4, Zenon
      <4>2. CASE n # Len(old) + 1
        <5>1. n \in k + 1 .. Len(old) /\ n \in 1 .. Len(old)
          BY <1>2, <3>6, <4>2
        <5> QED
          BY <1>2, <3>4, <5>1
      <4> QED
        BY <4>1, <4>2
    <3> QED
      BY <1>3, <2>3, <3>5, <3>6
  <2>4. CASE i = f /\ j # w
    <3>1. at'[j] = at[j]
      BY <1>1, <2>4 DEF DownTypeOK
    <3>2. k = Len(new)
      BY <1>2, <1>3, <1>8, <2>4 DEF Before
    <3>3. \A n \in 1 .. Len(old) : old[n].by # j
      BY <1>2, <1>3, <1>8, <2>4, <3>2 DEF Before
    <3>4. ~WroteIn(j, f) /\ Before(f, j, Len(old))
      BY <1>2, <3>3 DEF WroteIn, Before, old
    <3>5. fd[j] = f
      BY <1>1, <1>6, <1>8, <2>4, <3>4
    <3>6. Len(old) = Len(old) + at[j] - First(j)
      BY <1>1, <1>2, <1>8, <3>4, <3>5 DEF Streams, Stream, Streamed, old
    <3>7. First(j) \in Nat /\ at[j] \in Nat /\ Len(old) \in Nat
      BY <1>2, <1>4
    <3>8. at[j] = First(j)
      BY <3>6, <3>7
    <3>9. Len(new) = k + at[j] - First(j) /\ k + 1 .. Len(new) = {}
      BY <1>2, <3>2, <3>7, <3>8
    <3> QED
      BY <1>3, <2>4, <3>1, <3>9
  <2> QED
    BY <2>1, <2>2, <2>3, <2>4
<1>9. ASSUME NEW j \in Jobs
      PROVE  Stream(j)'
  <2>1. Stream(j)
    BY DEF Streams
  <2>2. pc[j] \in {"stream", "rename"} => \A i \in Jobs, k \in Nat : Streamed(j, i, k)'
    BY <1>1, <1>4, <1>5, <1>8 DEF Streamed
  <2>3. CASE j = w
    <3>1. \A i \in Jobs : WroteIn(j, i)' => fd'[j] = i
      BY <1>1, <1>7, <2>1, <2>3 DEF Stream
    <3> QED
      BY <1>1, <2>2, <2>3, <3>1 DEF Stream
  <2>4. CASE j # w
    <3>1. \A i \in Jobs : WroteIn(j, i)' <=> WroteIn(j, i)
      BY <1>6, <1>7, <2>4
    <3>2. at'[j] = at[j] /\ First(j)' = First(j)
      BY <1>1, <1>4, <2>4 DEF DownTypeOK
    <3> QED
      BY <1>1, <2>1, <2>2, <3>1, <3>2 DEF Stream
  <2> QED
    BY <2>3, <2>4
<1> QED
  BY <1>9 DEF Streams

(* A step of one job that writes no block.                                 *)
LEMMA StepKeepsStreams ==
  ASSUME DownTypeOK, Asked, Streams, NEW m \in Jobs,
         UNCHANGED content,
         \A j \in Jobs \ {m} :
           UNCHANGED <<source[j], pc[j], offset[j], partial[j], at[j], fd[j]>>,
         Stream(m)'
  PROVE  Streams'
<1>1. ASSUME NEW j \in Jobs \ {m}
      PROVE  Stream(j)'
  <2>1. First(j)' = First(j) /\ \A n : Block(j, n)' = Block(j, n)
    BY DEF First, RangeFrom, Block
  <2>2. \A i \in Jobs : WroteIn(j, i)' <=> WroteIn(j, i)
    BY DEF WroteIn
  <2>3. \A i \in Jobs, k \in Nat : Before(i, j, k)' <=> Before(i, j, k)
    BY DEF Before
  <2>4. \A i \in Jobs, k \in Nat : Streamed(j, i, k) => Streamed(j, i, k)'
    BY <2>1, <2>2, <2>3 DEF Streamed
  <2> QED
    BY <2>1, <2>2, <2>4 DEF Streams, Stream
<1> QED
  BY <1>1 DEF Streams

LEMMA StreamsKept ==
  ASSUME DownTypeOK, Asked, Streams, [DownNext]_downVars
  PROVE  Streams'
<1> USE DEF Goto, fileVars
<1>1. ASSUME UNCHANGED <<source, pc, offset, partial, at, fd, content>>
      PROVE  Streams'
  BY <1>1 DEF Streams, Stream, Streamed, WroteIn, Before, First, RangeFrom, Block
<1>2. ASSUME NEW m \in Jobs, UNCHANGED content,
             pc[m] \in {"new", "created", "begin", "stat", "request", "open"}
      PROVE  \A i \in Jobs : ~WroteIn(m, i) /\ ~WroteIn(m, i)'
  BY <1>2 DEF Streams, Stream, WroteIn
<1>3. ASSUME NEW m \in Jobs,
             Spawn(m) \/ Begin(m) \/ Stat(m) \/ \E s \in Sources : Create(m, s)
      PROVE  Streams'
  <2>1. /\ pc[m] \in {"new", "created", "begin", "stat"} /\ UNCHANGED content
        /\ pc'[m] \in {"created", "begin", "stat", "request"}
        /\ \A j \in Jobs \ {m} :
             UNCHANGED <<source[j], pc[j], offset[j], partial[j], at[j], fd[j]>>
    BY <1>3 DEF Create, Spawn, Begin, Stat, DownTypeOK, Asked
  <2> QED
    BY <1>2, <2>1, StepKeepsStreams DEF Stream
<1>4. ASSUME NEW m \in Jobs, Answered(m)
      PROVE  Streams'
  <2>1. /\ pc[m] = "request" /\ UNCHANGED content /\ pc'[m] = "open"
        /\ \A j \in Jobs \ {m} :
             UNCHANGED <<source[j], pc[j], offset[j], partial[j], at[j], fd[j]>>
    BY <1>4 DEF Answered, DownTypeOK
  <2>2. at'[m] = First(m)'
    BY <1>4 DEF Answered, RangeFrom, First, DownTypeOK
  <2> QED
    BY <1>2, <2>1, <2>2, StepKeepsStreams DEF Stream
<1>5. ASSUME NEW m \in Jobs, Open(m)
      PROVE  Streams'
  <2>1. /\ pc[m] = "open" /\ UNCHANGED <<content, at, partial, offset>> /\ pc'[m] = "stream"
        /\ \A j \in Jobs \ {m} :
             UNCHANGED <<source[j], pc[j], offset[j], partial[j], at[j], fd[j]>>
    BY <1>5 DEF Open, DownTypeOK
  <2>2. \A i \in Jobs : ~WroteIn(m, i) /\ ~WroteIn(m, i)'
    BY <1>2, <2>1
  <2>3. at'[m] = First(m)' /\ First(m)' \in Nat
    BY <2>1 DEF Streams, Stream, First, RangeFrom, DownTypeOK
  <2>4. ASSUME NEW i \in Jobs, NEW k \in Nat, Before(i, m, k)'
        PROVE  Len(content'[i]) = k /\ k + 1 .. Len(content'[i]) = {}
    <3>1. Len(content'[i]) \in Nat
      BY <2>1 DEF DownTypeOK, Inodes
    <3>2. k <= Len(content'[i])
      BY <2>4 DEF Before
    <3>3. \A n \in 1 .. Len(content'[i]) : ~(n > k)
      BY <2>2, <2>4 DEF WroteIn, Before
    <3> QED
      BY <3>1, <3>2, <3>3
  <2>5. \A i \in Jobs, k \in Nat : Streamed(m, i, k)'
    BY <2>3, <2>4 DEF Streamed
  <2> QED
    BY <2>1, <2>2, <2>5, StepKeepsStreams DEF Stream
<1>6. ASSUME NEW m \in Jobs, Finish(m)
      PROVE  Streams'
  <2>1. /\ pc[m] = "stream" /\ UNCHANGED <<source, content, at, partial, offset>>
        /\ pc'[m] = "rename" /\ at'[m] = Size + 1
        /\ \A j \in Jobs \ {m} :
             UNCHANGED <<source[j], pc[j], offset[j], partial[j], at[j], fd[j]>>
    BY <1>6, DownloadsAssumption DEF Finish, EndOfBody, DownTypeOK
  <2>2. fd'[m] = None /\ None \notin Jobs
    BY <1>6, DownloadsAssumption DEF Finish, DownTypeOK
  <2>3. ASSUME NEW i \in Jobs, NEW k \in Nat
        PROVE  Streamed(m, i, k)'
    <3>1. Streamed(m, i, k)
      BY <2>1 DEF Streams, Stream
    <3>2. /\ (Before(i, m, k)' <=> Before(i, m, k)) /\ (WroteIn(m, i)' <=> WroteIn(m, i))
          /\ First(m)' = First(m) /\ \A n : Block(m, n)' = Block(m, n)
      BY <2>1 DEF Before, WroteIn, First, RangeFrom, Block
    <3> QED
      BY <2>1, <2>2, <3>1, <3>2 DEF Streamed
  <2> QED
    BY <2>1, <2>3, StepKeepsStreams DEF Stream
<1>7. ASSUME NEW m \in Jobs, Rename(m) \/ RenameFails(m) \/ Fails(m)
      PROVE  Streams'
  <2>1. /\ UNCHANGED content /\ pc'[m] = "done"
        /\ \A j \in Jobs \ {m} :
             UNCHANGED <<source[j], pc[j], offset[j], partial[j], at[j], fd[j]>>
    BY <1>7 DEF Rename, RenameFails, Fails, DownTypeOK
  <2> QED
    BY <2>1, StepKeepsStreams DEF Stream
<1>8. CASE Restart
  <2>1. /\ UNCHANGED content
        /\ \A j \in Jobs : pc'[j] = IF pc[j] = "new" THEN "new" ELSE "gone"
    BY <1>8 DEF Restart
  <2> QED
    BY <1>2, <2>1 DEF Streams, Stream
<1>9. ASSUME NEW m \in Jobs, CancelBegin(m)
      PROVE  Streams'
  BY <1>1, <1>9 DEF CancelBegin
<1>10. CASE CancelEnd \/ Close \/ UNCHANGED downVars
  BY <1>1, <1>10 DEF CancelEnd, Close, downVars, jobVars
<1> QED
  BY <1>3, <1>4, <1>5, <1>6, <1>7, <1>8, <1>9, <1>10, WriteKeepsStreams
  DEF DownNext, Local

LEMMA DownInductive == DownSpec => []DownInv
<1>1. DownInv /\ [DownNext]_downVars => DownInv'
  BY DownTypesKept, StopsKept, StreamsKept DEF DownInv
<1> QED
  BY DownStarts, <1>1, PTL DEF DownSpec

(* Every variable keeps its type, and a file is open exactly while its job *)
(* streams.                                                                *)
THEOREM DownTypeCorrect == DownSpec => []DownTypeOK
<1>1. DownInv => DownTypeOK
  BY DEF DownInv
<1> QED
  BY DownInductive, <1>1, PTL

(* A body appended to the part of the file it continues makes it whole.    *)
THEOREM DownloadsAreIntact == DownSpec => []AppendedIsIntact
<1>1. DownInv => AppendedIsIntact
  <2> SUFFICES ASSUME DownInv, NEW j \in Jobs, NEW i \in Jobs,
                      pc[j] = "rename", partial[j] \/ offset[j] = 0,
                      Before(i, j, offset[j]),
                      Len(content[i]) > offset[j],
                      \A n \in 1 .. offset[j] :
                        content[i][n].of = source[j] /\ content[i][n].no = n
               PROVE  Intact(i, source[j])
    BY DEF AppendedIsIntact
  <2>1. Len(content[i]) \in Nat /\ Size \in Nat /\ offset[j] \in Nat
    BY DownloadsAssumption DEF DownInv, DownTypeOK, Inodes
  <2>2. WroteIn(j, i)
    BY <2>1 DEF Before, WroteIn
  <2>3. First(j) = offset[j] + 1 /\ at[j] = Size + 1
    BY DEF First, RangeFrom, DownInv, Streams, Stream
  <2>4. /\ Len(content[i]) = offset[j] + at[j] - First(j)
        /\ \A n \in offset[j] + 1 .. Len(content[i]) :
             content[i][n] = Block(j, First(j) + n - offset[j] - 1)
    BY <2>1, <2>2 DEF DownInv, Streams, Stream, Streamed
  <2>5. Len(content[i]) = Size
    BY <2>1, <2>3, <2>4
  <2>6. ASSUME NEW n \in offset[j] + 1 .. Size
        PROVE  content[i][n] = Block(j, n)
    <3>1. n \in Int /\ First(j) + n - offset[j] - 1 = n
      BY <2>1, <2>3
    <3> QED
      BY <2>4, <2>5, <3>1
  <2>7. \A n : Block(j, n).of = source[j] /\ Block(j, n).no = n
    BY DEF Block
  <2>8. \A n \in 1 .. Size : n \in 1 .. offset[j] \/ n \in offset[j] + 1 .. Size
    BY <2>1
  <2> QED
    BY <2>5, <2>6, <2>7, <2>8 DEF Intact
<1> QED
  BY DownInductive, <1>1, PTL

(* A job that has its part file to itself reports its size.                *)
THEOREM CountsAreSizes == DownSpec => []CountIsSize
<1>1. DownInv => CountIsSize
  <2> SUFFICES ASSUME DownInv, NEW j \in Jobs, NEW i \in Jobs,
                      pc[j] = "stream", fd[j] = i, Before(i, j, offset[j])
               PROVE  BytesDownloaded(j) = Len(content[i])
    BY DEF CountIsSize
  <2>1. offset[j] \in Nat /\ at[j] \in Nat /\ First(j) \in Nat
    BY DownloadsAssumption DEF DownInv, DownTypeOK, First, RangeFrom
  <2>2. Len(content[i]) = offset[j] + at[j] - First(j)
    BY <2>1 DEF DownInv, Streams, Stream, Streamed
  <2> QED
    BY <2>1, <2>2 DEF BytesDownloaded
<1> QED
  BY <1>1, DownInductive, PTL

(* Close leaves no job at work that its context does not tell to stop.     *)
THEOREM CloseReachesAll == DownSpec => []ClosedMeansStopped
<1>1. DownInit => ClosedMeansStopped
  BY DEF DownInit, ClosedMeansStopped
<1>2. DownInv /\ ClosedMeansStopped /\ [DownNext]_downVars => ClosedMeansStopped'
  <2> SUFFICES ASSUME DownInv, ClosedMeansStopped, [DownNext]_downVars
               PROVE  ClosedMeansStopped'
    OBVIOUS
  <2> USE DEF ClosedMeansStopped, Goto
  <2>1. CASE Close
    BY <2>1 DEF Close, Closable, DownInv, Stops
  <2>2. ASSUME NEW j \in Jobs, NEW s \in Sources, Create(j, s)
        PROVE  ClosedMeansStopped'
    BY <2>2 DEF Create
  <2>3. ASSUME NEW j \in Jobs, Local(j)
        PROVE  ClosedMeansStopped'
    BY <2>3 DEF Local, Spawn, Begin, Stat, Open, Finish, EndOfBody, Rename, RenameFails,
                Fails, DownInv, DownTypeOK
  <2>4. ASSUME NEW j \in Jobs, CancelBegin(j) \/ Answered(j) \/ Write(j) \/ Fails(j)
        PROVE  ClosedMeansStopped'
    BY <2>4 DEF CancelBegin, Answered, Write, Fails, DownInv, DownTypeOK
  <2>5. CASE CancelEnd \/ Restart \/ UNCHANGED downVars
    BY <2>5 DEF CancelEnd, Restart, downVars, jobVars
  <2> QED
    BY <2>1, <2>2, <2>3, <2>4, <2>5 DEF DownNext
<1> QED
  BY <1>1, <1>2, DownInductive, PTL DEF DownSpec

(* Only Cancel relabels a job that has completed or failed.                *)
THEOREM OutcomesStand == DownSpec => OutcomeStands
<1>1. DownInv /\ [DownNext]_downVars =>
        [\A j \in Jobs : status[j] \in {"completed", "failed"} =>
           status'[j] \in {status[j], "cancelled"}]_downVars
  <2> SUFFICES ASSUME DownInv, DownNext, NEW j \in Jobs,
                      status[j] \in {"completed", "failed"}
               PROVE  status'[j] \in {status[j], "cancelled"}
    OBVIOUS
  <2>1. pc[j] \in {"done", "gone"} /\ source[j] # None
    BY DEF DownInv, Stops, Asked
  <2>2. ASSUME NEW m \in Jobs, NEW s \in Sources, Create(m, s)
        PROVE  status'[j] = status[j]
    BY <2>1, <2>2 DEF Create, DownInv, DownTypeOK
  <2>3. ASSUME NEW m \in Jobs,
               CancelBegin(m) \/ Local(m) \/ Answered(m) \/ Write(m) \/ Fails(m)
        PROVE  status'[j] = status[j]
    BY <2>1, <2>3 DEF CancelBegin, Local, Spawn, Begin, Stat, Open, Finish, EndOfBody,
                      Rename, RenameFails, Fails, Answered, Write, DownInv, DownTypeOK
  <2>4. CASE CancelEnd \/ Close \/ Restart
    BY <2>4 DEF CancelEnd, Close, Restart, DownInv, DownTypeOK
  <2> QED
    BY <2>2, <2>3, <2>4 DEF DownNext
<1> QED
  BY DownInductive, <1>1, PTL DEF DownSpec, OutcomeStands

===============================================================================
