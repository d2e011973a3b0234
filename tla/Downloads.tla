------------------------------ MODULE Downloads ------------------------------
(***************************************************************************)
(* Model downloads (src/pkg/models: manager.go, job.go, downloader.go).    *)
(* Each job is a goroutine that streams one file of a repository into a    *)
(* part file and renames it; requests cancel jobs, the server's end closes *)
(* them all, and a restart forgets them and keeps the files.               *)
(*                                                                         *)
(* A file is a sequence of Size blocks, a block being what one Read of the *)
(* body returns; the answer states its length.  Error texts are left out.  *)
(***************************************************************************)
EXTENDS Naturals, Sequences

CONSTANTS
  Jobs,        \* download jobs, each asked for once
  Repos, Files, Revisions,
  Size,        \* blocks of every file
  None

ASSUME DownloadsAssumption ==
  /\ Size \in Nat \ {0}
  /\ None \notin Jobs /\ None \notin Repos \X Files \X Revisions

Sources == Repos \X Files \X Revisions
Paths   == Repos \X Files

VARIABLES
  source,    \* what a job downloads, or None before it is asked for
  status,    \* DownloadJob.Status
  stopped,   \* jobs whose context has been cancelled
  pc,        \* where the job's handler, then its goroutine, is
  offset,    \* startOffset
  partial,   \* the answer was 206
  at,        \* the block the body yields next
  fd,        \* the inode opened for writing
  content,   \* inodes; one is named after the job whose open created it
  part,      \* repository -> inode of its part file, or None
  final,     \* path -> inode of the finished file, or None
  cancelling,  \* the job whose Cancel holds the registry's mutex, or None
  server     \* "up", or "closing" once Manager.Close has run

jobVars  == <<source, status, stopped, pc, offset, partial, at, fd>>
fileVars == <<content, part, final>>
downVars == <<jobVars, fileVars, cancelling, server>>

Repo(j) == source[j][1]
Path(j) == <<source[j][1], source[j][2]>>

(* A block: of which source, which one of it, and who wrote it.            *)
Block(j, n) == [of |-> source[j], no |-> n, by |-> j]
Inodes == Seq([of : Sources, no : 1 .. Size, by : Jobs])

Goto(j, l) == pc' = [pc EXCEPT ![j] = l]

-----------------------------------------------------------------------------
(* Requests.                                                               *)

(* registry.Create: the job can be seen from now on.                       *)
Create(j, s) ==
  /\ server = "up" /\ cancelling = None
  /\ source[j] = None
  /\ source' = [source EXCEPT ![j] = s]
  /\ status' = [status EXCEPT ![j] = "pending"]
  /\ Goto(j, "created")
  /\ UNCHANGED <<stopped, offset, partial, at, fd, fileVars, cancelling, server>>

(* Manager.StartDownload sets job.Cancel and starts the goroutine.         *)
Spawn(j) ==
  /\ pc[j] = "created"
  /\ Goto(j, "begin")
  /\ UNCHANGED <<source, status, stopped, offset, partial, at, fd, fileVars,
                 cancelling, server>>

(* registry.Cancel cancels the context, then sets the status, whatever it  *)
(* is.  A job without Cancel yet, or forgotten, is "not found".            *)
CancelBegin(j) ==
  /\ server = "up" /\ cancelling = None
  /\ pc[j] \notin {"new", "created", "gone"}
  /\ stopped' = stopped \cup {j}
  /\ cancelling' = j
  /\ UNCHANGED <<source, status, pc, offset, partial, at, fd, fileVars, server>>

CancelEnd ==
  /\ cancelling # None
  /\ status' = [status EXCEPT ![cancelling] = "cancelled"]
  /\ cancelling' = None
  /\ UNCHANGED <<source, stopped, pc, offset, partial, at, fd, fileVars, server>>

(* Jobs that have not begun are not cancelled.                             *)
Mutant_Closable == {"downloading"}

Closable == {"downloading", "pending"}

(* Manager.Close, when main returns: the requests have drained.            *)
Close ==
  /\ server = "up" /\ cancelling = None /\ \A j \in Jobs : pc[j] # "created"
  /\ server' = "closing"
  /\ stopped' = stopped \cup
       {j \in Jobs : pc[j] \notin {"new", "gone"} /\ status[j] \in Closable}
  /\ UNCHANGED <<source, status, pc, offset, partial, at, fd, fileVars, cancelling>>

(* The server ends, also by a crash, and another begins.                   *)
Restart ==
  /\ pc' = [j \in Jobs |-> IF pc[j] = "new" THEN "new" ELSE "gone"]
  /\ fd' = [j \in Jobs |-> None]
  /\ cancelling' = None
  /\ server' = "up"
  /\ UNCHANGED <<source, status, stopped, offset, partial, at, fileVars>>

-----------------------------------------------------------------------------
(* Downloader.StartDownload.                                               *)

Begin(j) ==
  /\ pc[j] = "begin"
  /\ status' = [status EXCEPT ![j] = "downloading"]
  /\ Goto(j, "stat")
  /\ UNCHANGED <<source, stopped, offset, partial, at, fd, fileVars, cancelling, server>>

Stat(j) ==
  /\ pc[j] = "stat"
  /\ offset' = [offset EXCEPT ![j] =
                  IF part[Repo(j)] = None THEN 0 ELSE Len(content[part[Repo(j)]])]
  /\ Goto(j, "request")
  /\ UNCHANGED <<source, status, stopped, partial, at, fd, fileVars, cancelling, server>>

(* The range begins at the part file's last block.                         *)
Mutant_RangeFrom(j) == offset[j]

(* The block at which "Range: bytes=<startOffset>-" begins.                *)
RangeFrom(j) == offset[j] + 1

(* 206 with the rest of the file, or 200 with all of it, also to a request *)
(* with a Range.                                                           *)
Answered(j) ==
  /\ pc[j] = "request" /\ j \notin stopped
  /\ \/ /\ offset[j] > 0 /\ RangeFrom(j) <= Size
        /\ partial' = [partial EXCEPT ![j] = TRUE]
        /\ at' = [at EXCEPT ![j] = RangeFrom(j)]
     \/ /\ partial' = [partial EXCEPT ![j] = FALSE]
        /\ at' = [at EXCEPT ![j] = 1]
  /\ Goto(j, "open")
  /\ UNCHANGED <<source, status, stopped, offset, fd, fileVars, cancelling, server>>

(* O_APPEND|O_CREATE: whatever inode the part path names now.              *)
Open(j) ==
  /\ pc[j] = "open"
  /\ LET i == IF part[Repo(j)] = None THEN j ELSE part[Repo(j)]
     IN /\ part' = [part EXCEPT ![Repo(j)] = i]
        /\ fd' = [fd EXCEPT ![j] = i]
  /\ Goto(j, "stream")
  /\ UNCHANGED <<source, status, stopped, offset, partial, at, content, final,
                 cancelling, server>>

(* One turn of the loop; the inode may have been renamed meanwhile.        *)
Write(j) ==
  /\ pc[j] = "stream" /\ at[j] <= Size
  /\ content' = [content EXCEPT ![fd[j]] = Append(@, Block(j, at[j]))]
  /\ at' = [at EXCEPT ![j] = @ + 1]
  /\ UNCHANGED <<source, status, stopped, pc, offset, partial, fd, part, final,
                 cancelling, server>>

EndOfBody(j) == pc[j] = "stream" /\ at[j] > Size

(* The rename is not preceded by the close.                                *)
Mutant_Finish(j) ==
  /\ EndOfBody(j)
  /\ Goto(j, "rename")
  /\ UNCHANGED <<source, status, stopped, offset, partial, at, fd, fileVars,
                 cancelling, server>>

Finish(j) ==
  /\ EndOfBody(j)
  /\ fd' = [fd EXCEPT ![j] = None]
  /\ Goto(j, "rename")
  /\ UNCHANGED <<source, status, stopped, offset, partial, at, fileVars,
                 cancelling, server>>

(* os.Rename moves what the part path names now.  If nothing, it fails.    *)
Rename(j) ==
  /\ pc[j] = "rename" /\ part[Repo(j)] # None
  /\ final' = [final EXCEPT ![Path(j)] = part[Repo(j)]]
  /\ part' = [part EXCEPT ![Repo(j)] = None]
  /\ status' = [status EXCEPT ![j] = "completed"]
  /\ Goto(j, "done")
  /\ UNCHANGED <<source, stopped, offset, partial, at, fd, content, cancelling, server>>

(* SetError without the return.                                            *)
Mutant_Fails(j) ==
  /\ pc[j] \in {"stat", "request", "open", "stream", "rename"}
  /\ status' = [status EXCEPT ![j] = "failed"]
  /\ UNCHANGED <<source, stopped, pc, offset, partial, at, fd, fileVars, cancelling, server>>

(* SetError and return, from every step after the first: an error of the   *)
(* file system or the network, a status other than 200 and 206, a timeout  *)
(* or a cancelled context.                                                 *)
Fails(j) ==
  /\ pc[j] \in {"stat", "request", "open", "stream", "rename"}
  /\ status' = [status EXCEPT ![j] = "failed"]
  /\ fd' = [fd EXCEPT ![j] = None]
  /\ Goto(j, "done")
  /\ UNCHANGED <<source, stopped, offset, partial, at, fileVars, cancelling, server>>

(* Another job of the repository has renamed the part file.                *)
RenameFails(j) == pc[j] = "rename" /\ part[Repo(j)] = None /\ Fails(j)

(* A body that is not bound to the context.                                *)
Mutant_Aborts(j) == j \in stopped /\ pc[j] = "request" /\ Fails(j)

(* What the context does to Do and to a Read of the body.                  *)
Aborts(j) == j \in stopped /\ pc[j] \in {"request", "stream"} /\ Fails(j)

-----------------------------------------------------------------------------
(* The bytes_downloaded of job.Progress, once the job has written.         *)

(* The block with which the body began.                                    *)
First(j) == IF partial[j] THEN RangeFrom(j) ELSE 1

Reported(j) == pc[j] \in {"stream", "rename", "done"} /\ at[j] > First(j)

(* A resumed job counts what it adds only.                                 *)
Mutant_BytesDownloaded(j) == at[j] - First(j)

(* startOffset, whatever the answer was, and each Read.                    *)
BytesDownloaded(j) == offset[j] + (at[j] - First(j))

-----------------------------------------------------------------------------

DownInit ==
  /\ source = [j \in Jobs |-> None]
  /\ status = [j \in Jobs |-> "pending"]
  /\ stopped = {}
  /\ pc = [j \in Jobs |-> "new"]
  /\ offset = [j \in Jobs |-> 0] /\ at = [j \in Jobs |-> 1]
  /\ partial = [j \in Jobs |-> FALSE]
  /\ fd = [j \in Jobs |-> None]
  /\ content = [j \in Jobs |-> <<>>]
  /\ part = [r \in Repos |-> None]
  /\ final = [p \in Paths |-> None]
  /\ cancelling = None
  /\ server = "up"

(* The steps of a job that wait for nobody.                                *)
Local(j) ==
  Spawn(j) \/ Begin(j) \/ Stat(j) \/ Open(j) \/ Finish(j) \/ Rename(j) \/ RenameFails(j)

DownNext ==
  \/ \E j \in Jobs :
       \/ \E s \in Sources : Create(j, s)
       \/ CancelBegin(j)
       \/ Local(j) \/ Answered(j) \/ Write(j) \/ Fails(j)
  \/ CancelEnd \/ Close \/ Restart

DownSpec == DownInit /\ [][DownNext]_downVars

(* The remote server may stall for good, and the client's timeout may be   *)
(* 0, no timeout; local steps are taken, and a cancelled context ends a    *)
(* call that waits.                                                        *)
FairDownSpec ==
  /\ DownSpec
  /\ \A j \in Jobs : WF_downVars(Local(j) \/ Aborts(j))

-----------------------------------------------------------------------------
(* Types; a file is open exactly while its job streams.                    *)
DownTypeOK ==
  /\ source \in [Jobs -> Sources \cup {None}]
  /\ status \in [Jobs -> {"pending", "downloading", "completed", "failed", "cancelled"}]
  /\ stopped \subseteq Jobs
  /\ pc \in [Jobs -> {"new", "created", "begin", "stat", "request", "open",
                      "stream", "rename", "done", "gone"}]
  /\ offset \in [Jobs -> Nat] /\ at \in [Jobs -> 1 .. Size + 1]
  /\ partial \in [Jobs -> BOOLEAN]
  /\ fd \in [Jobs -> Jobs \cup {None}]
  /\ content \in [Jobs -> Inodes]
  /\ part \in [Repos -> Jobs \cup {None}]
  /\ final \in [Paths -> Jobs \cup {None}]
  /\ cancelling \in Jobs \cup {None}
  /\ server \in {"up", "closing"}
  /\ \A j \in Jobs : fd[j] # None <=> pc[j] = "stream"

Intact(i, s) ==
  /\ Len(content[i]) = Size
  /\ \A n \in 1 .. Size : content[i][n].of = s /\ content[i][n].no = n

(* The part of an inode that others than the job had written, when nothing *)
(* was written between or after.                                           *)
Before(i, j, k) ==
  /\ k <= Len(content[i])
  /\ \A n \in 1 .. Len(content[i]) : content[i][n].by = j <=> n > k

(* What a job appended to an empty part file, or as a 206 to what an       *)
(* earlier job left of the same file, is the whole file when it comes to   *)
(* the rename, if nobody else wrote meanwhile: a resume continues at the   *)
(* right block, and no error ends the loop as if the body had ended.       *)
AppendedIsIntact ==
  \A j, i \in Jobs :
    /\ pc[j] = "rename" /\ (partial[j] \/ offset[j] = 0)
    /\ Before(i, j, offset[j])
    /\ Len(content[i]) > offset[j]
    /\ \A n \in 1 .. offset[j] :
         content[i][n].of = source[j] /\ content[i][n].no = n
    => Intact(i, source[j])

(* The bytes a streaming job reports are those in its part file, resumed   *)
(* ones and those of an answer that ignored the range included, as long as *)
(* nobody else has written to it since it read the size.                   *)
CountIsSize ==
  \A j, i \in Jobs :
    pc[j] = "stream" /\ fd[j] = i /\ Reported(j) /\ Before(i, j, offset[j])
      => BytesDownloaded(j) = Len(content[i])

(* The outcome a job ends with is final: only a late Cancel relabels it.   *)
OutcomeStands ==
  [][\A j \in Jobs :
       status[j] \in {"completed", "failed"} =>
         status'[j] \in {status[j], "cancelled"}]_downVars

(* Close leaves no job running unknown to its context, also one that has   *)
(* not begun or has been cancelled before.                                 *)
ClosedMeansStopped ==
  server = "closing" =>
    \A j \in Jobs : pc[j] \in {"new", "done", "gone"} \/ j \in stopped

(* A cancelled job ends, even if the remote server has stalled and there   *)
(* is no timeout.                                                          *)
CancelledEnds ==
  \A j \in Jobs : j \in stopped ~> pc[j] \in {"done", "gone"}

-----------------------------------------------------------------------------
(* phase-7 plan.md:59-61, "writing to a `.part` file first, renaming on    *)
(* completion" and "Resume using the existing `.part` size": what a        *)
(* completed job has put at its path is the file it was asked for.  The    *)
(* part file belongs to the repository, so another file's is resumed.      *)
CompletedIsIntact ==
  [][\A j \in Jobs :
       pc[j] = "rename" /\ pc'[j] = "done" /\ status'[j] = "completed" =>
         Intact(final'[Path(j)], source[j])]_downVars
===============================================================================
