---------------------------- MODULE FileTransfer ----------------------------
(***************************************************************************)
(* The transfer of a directory of files: TransferJob                       *)
(* (src/libs/hbb_common/src/fs.rs) at both ends, the client                *)
(* (src/src/client/io_loop.rs), the controlled side                        *)
(* (src/src/server/connection.rs), and its connection manager, which       *)
(* writes what is uploaded (src/src/ui_cm_interface.rs).                   *)
(*                                                                         *)
(* One end reads and one writes; the client is the writer of a download    *)
(* and the reader of an upload, and it is the client who decides what      *)
(* happens to a file that is there already.  The writer keeps a file in    *)
(* `name.download` with the digest of its source in `name.digest` until it *)
(* is finished, so that a later job can resume it.                         *)
(*                                                                         *)
(* Both peers are recent enough to detect overwriting and to resume.  Jobs *)
(* of the same directory follow one another; the list of its files stays   *)
(* the same, while their content may change between two jobs.  Content is  *)
(* a sequence of blocks, each named by the version of its file and its     *)
(* place in it.                                                            *)
(***************************************************************************)
EXTENDS Naturals, Sequences, FiniteSets, SequencesExt

CONSTANTS
  NFiles,       (* number of files of the directory                        *)
  NBlocks,      (* number of blocks of each                                *)
  MaxVersion,   (* bound: how often a source may be rewritten              *)
  MaxJobs,      (* bound: number of jobs started                           *)
  MaxFaults,    (* bound: number of reads or writes that fail              *)
  Upload        (* the client is the reader (else the writer)              *)

(* Assumed of the constants by every module that gives them values.         *)
FileTransferAssumption ==
  /\ NFiles \in Nat \ {0}
  /\ NBlocks \in Nat \ {0}
  /\ MaxVersion \in Nat \ {0}
  /\ MaxJobs \in Nat
  /\ MaxFaults \in Nat
  /\ Upload \in BOOLEAN

Files == 0 .. NFiles - 1
Versions == 1 .. MaxVersion

VARIABLES
  src,       (* version of each source file                                *)
  final,     (* content of each file of the destination                    *)
  part,      (* content of its .download                                   *)
  meta,      (* its .digest: the version it was made for, 0 if there is none *)
  rjobs,     (* read_jobs of the reading end                               *)
  wjob,      (* the job in write_jobs of the writing end                   *)
  toWriter,  (* messages on their way to the writing end                   *)
  toReader,  (* and to the reading end                                     *)
  asked,     (* the question the user has yet to answer                    *)
  saved,     (* file_num of the jobs in PeerConfig.transfer                *)
  started,   (* number of jobs started                                     *)
  faults     (* number of faults so far                                    *)

VARIABLES    (* history                                                    *)
  skips,     (* job and file, of the files that were to be skipped         *)
  slips      (* what went wrong with which file                            *)

disk == <<final, part, meta>>
net == <<toWriter, toReader>>
user == <<asked, saved, started>>
vars == <<src, disk, rjobs, wjob, net, user, faults, skips, slips>>

(* Contents.                                                               *)
Complete(v) == [i \in 1 .. NBlocks |-> <<v, i>>]
NoFile == << <<0, 0>> >>
Existing == << <<0, 1>> >>           (* a file that was there before        *)
Exists(content) == content # NoFile

(* TransferJob.  `digest` is used by the writer, `strategy` by the client; *)
(* `first` is the file the job began with, for the properties only.  The   *)
(* stream of a job is that of its file, or of the finished file `stray`.   *)
Job == [id : 0 .. MaxJobs, first : 0 .. NFiles, file_num : 0 .. NFiles, open : BOOLEAN, pos : Nat,
        stray : 0 .. NFiles, confirmed : BOOLEAN, waiting : BOOLEAN, skipped : BOOLEAN,
        resume : BOOLEAN, digest : 0 .. MaxVersion,
        strategy : {"ask", "overwrite", "skip"}]

NewJob(id, file_num, resume) ==
  [id |-> id, first |-> file_num, file_num |-> file_num, open |-> FALSE, pos |-> 0,
   stray |-> NFiles, confirmed |-> FALSE, waiting |-> FALSE, skipped |-> FALSE,
   resume |-> resume, digest |-> 0, strategy |-> "ask"]

NoJob == NewJob(0, 0, FALSE)

NotAsked == [id |-> 0, file |-> 0]

SlipKinds == {"headless", "stale", "untold", "hole", "astray"}

TypeOK ==
  /\ src \in [Files -> Versions]
  /\ DOMAIN final = Files /\ DOMAIN part = Files
  /\ meta \in [Files -> 0 .. MaxVersion]
  /\ \A j \in ToSet(rjobs) \cup {wjob} : j \in Job
  /\ asked \in [id : 0 .. MaxJobs, file : 0 .. NFiles]
  /\ saved \subseteq 0 .. NFiles
  /\ started \in 0 .. MaxJobs
  /\ faults \in 0 .. MaxFaults
  /\ skips \subseteq (1 .. MaxJobs) \X Files
  /\ slips \subseteq SlipKinds \X Files

Init ==
  /\ src = [f \in Files |-> 1]
  /\ final \in [Files -> {NoFile, Existing}]
  /\ part = [f \in Files |-> NoFile]
  /\ meta = [f \in Files |-> 0]
  /\ rjobs = <<>>
  /\ wjob = NoJob
  /\ toWriter = <<>>
  /\ toReader = <<>>
  /\ asked = NotAsked
  /\ saved = {}
  /\ started = 0
  /\ faults = 0
  /\ skips = {}
  /\ slips = {}

-----------------------------------------------------------------------------
(* Operations of TransferJob.                                              *)

(* Mutant: skipping goes past the next file, too.                          *)
set_file_skipped_twice(j) ==
  [j EXCEPT !.open = FALSE, !.confirmed = FALSE, !.waiting = FALSE,
            !.file_num = @ + 2, !.skipped = TRUE]

(* set_file_skipped                                                        *)
set_file_skipped(j) ==
  [j EXCEPT !.open = FALSE, !.stray = NFiles, !.confirmed = FALSE, !.waiting = FALSE,
            !.file_num = @ + 1, !.skipped = TRUE]

(* set_stream_offset.  Of the file it looks for, one is there: the reader's *)
(* source, or the .download whose size the offset is.                      *)
set_stream_offset(j, offset) == [j EXCEPT !.open = TRUE, !.pos = offset, !.stray = NFiles]

(* The stream, if there is one, is that of the job's file.                 *)
OwnStream(j) == j.open /\ j.stray = NFiles

(* confirm: a request for another file than the job's is ignored.          *)
confirm(j, r) ==
  IF j.file_num # r.file THEN j
  ELSE IF r.skip THEN set_file_skipped(j)
  ELSE LET c == [j EXCEPT !.confirmed = TRUE, !.skipped = FALSE]
       IN  IF r.offset > 0 THEN set_stream_offset(c, r.offset) ELSE c

(* Going to the next file at the end of one, or after an error.            *)
next_file(j) ==
  [j EXCEPT !.file_num = @ + 1, !.open = FALSE, !.confirmed = FALSE,
            !.waiting = FALSE]

(* open_data_stream for a file that opens.                                 *)
opened(j) ==
  IF j.open THEN j
  ELSE [j EXCEPT !.open = TRUE, !.pos = 0, !.confirmed = FALSE, !.waiting = FALSE]

ErrorMsg(id) == [m |-> "error", id |-> id]

(* init_data_stream: the job, and what it sends.                           *)
init_data_stream(j, fails) ==
  IF j.file_num >= NFiles
  THEN [job |-> [j EXCEPT !.open = FALSE], sent |-> <<>>]
  ELSE IF fails /\ ~j.open
  THEN [job |-> next_file(j), sent |-> << ErrorMsg(j.id) >>]
  ELSE LET o == opened(j)
       IN  IF o.confirmed \/ o.waiting
           THEN [job |-> o, sent |-> <<>>]
           ELSE [job |-> [o EXCEPT !.waiting = TRUE],
                 sent |-> << [m |-> "digest", id |-> j.id, file |-> j.file_num,
                              v |-> src[j.file_num], resume |-> j.resume] >>]

job_completed(j) == ~j.confirmed /\ ~j.waiting

(* job_error: the job was one file and it is skipped.                      *)
job_skipped(j) == j.skipped /\ NFiles = 1

block(j, data) == [m |-> "block", id |-> j.id, file |-> j.file_num, data |-> data]

(* read, and what handle_read_jobs makes of its result.                    *)
read(j, fails) ==
  IF ~j.confirmed
  THEN IF job_completed(j)
       THEN [job |-> NoJob,
             sent |-> << IF job_skipped(j) THEN ErrorMsg(j.id)
                         ELSE [m |-> "done", id |-> j.id] >>]
       ELSE [job |-> j, sent |-> <<>>]
  ELSE IF fails
  THEN [job |-> next_file(j), sent |-> << ErrorMsg(j.id) >>]
  ELSE IF j.pos < NBlocks
  THEN [job |-> [j EXCEPT !.pos = @ + 1],
        sent |-> << block(j, << <<src[j.file_num], j.pos + 1>> >>) >>]
  ELSE [job |-> next_file(j), sent |-> << block(j, <<>>) >>]

(* modify_time: the .download of the job's file becomes the file.  If the  *)
(* job has not opened it, it is another job's.                             *)
modify_time(j) ==
  LET f == j.file_num
  IN  IF f >= NFiles
      THEN UNCHANGED <<disk, slips>>
      ELSE /\ meta' = [meta EXCEPT ![f] = 0]
           /\ final' = [final EXCEPT ![f] = IF Exists(part[f]) THEN part[f] ELSE @]
           /\ part' = [part EXCEPT ![f] = NoFile]
           /\ slips' = IF Exists(part[f]) /\ ~OwnStream(j)
                       THEN slips \cup {<<"stale", f>>} ELSE slips

(* remove_download_file                                                    *)
remove_download_file(j) ==
  IF j.file_num >= NFiles
  THEN UNCHANGED disk
  ELSE /\ part' = [part EXCEPT ![j.file_num] = NoFile]
       /\ meta' = [meta EXCEPT ![j.file_num] = 0]
       /\ UNCHANGED final

(* Writing data at a place of a file.                                      *)
WriteAt(content, pos, data) ==
  SubSeq(content, 1, pos) \o data \o SubSeq(content, pos + Len(data) + 1, Len(content))

(* Mutant: the first block of a file does not finish the one before.       *)
write_unfinished(b, trouble) ==
  /\ part' = [part EXCEPT ![b.file] =
                IF b.file = wjob.file_num /\ OwnStream(wjob)
                THEN WriteAt(@, wjob.pos, b.data) ELSE b.data]
  /\ meta' = [meta EXCEPT ![b.file] = wjob.digest]
  /\ wjob' = [wjob EXCEPT !.file_num = b.file, !.open = TRUE, !.stray = NFiles,
                          !.pos = IF b.file = wjob.file_num /\ OwnStream(wjob)
                                  THEN @ + Len(b.data) ELSE Len(b.data)]
  /\ slips' = slips \cup trouble
  /\ UNCHANGED final

(* The first block of a file finishes the one before: whatever is in its   *)
(* .download becomes the file.                                             *)
Finishes(f) == f < NFiles /\ Exists(part[f])

FinishBefore(f) == final' = IF Finishes(f) THEN [final EXCEPT ![f] = part[f]] ELSE final

StaleBefore(f) == IF Finishes(f) /\ ~OwnStream(wjob) THEN {<<"stale", f>>} ELSE {}

(* write: a further block goes into the stream, the first one of a file    *)
(* finishes the one before and starts an empty .download.                  *)
write(b, trouble) ==
  IF b.file = wjob.file_num /\ wjob.open
  THEN /\ IF wjob.stray = NFiles
          THEN /\ part' = [part EXCEPT ![b.file] = WriteAt(@, wjob.pos, b.data)]
               /\ slips' = slips \cup trouble
               /\ UNCHANGED <<final, meta>>
          ELSE /\ final' = [final EXCEPT ![wjob.stray] = WriteAt(@, wjob.pos, b.data)]
               /\ slips' = slips \cup trouble \cup {<<"astray", wjob.stray>>}
               /\ UNCHANGED <<part, meta>>
       /\ wjob' = [wjob EXCEPT !.pos = @ + Len(b.data)]
  ELSE LET f == wjob.file_num
       IN  /\ FinishBefore(f)
           /\ part' = [g \in Files |-> IF g = b.file THEN b.data
                                       ELSE IF g = f THEN NoFile ELSE part[g]]
           /\ meta' = [g \in Files |-> IF g = b.file THEN wjob.digest
                                       ELSE IF g = f THEN 0 ELSE meta[g]]
           /\ slips' = slips \cup trouble \cup StaleBefore(f)
           /\ wjob' = [wjob EXCEPT !.file_num = b.file, !.open = TRUE, !.stray = NFiles,
                                   !.pos = Len(b.data)]

(* The .download cannot be created: the job is at the new file, with the   *)
(* stream it had, and the block is lost.                                   *)
write_uncreated(b) ==
  LET f == wjob.file_num
  IN  /\ ~(b.file = f /\ wjob.open)
      /\ FinishBefore(f)
      /\ part' = [g \in Files |-> IF g = f THEN NoFile ELSE part[g]]
      /\ meta' = [g \in Files |-> IF g \in {f, b.file} THEN 0 ELSE meta[g]]
      /\ slips' = slips \cup {<<"hole", b.file>>} \cup StaleBefore(f)
      /\ wjob' = [wjob EXCEPT !.file_num = b.file,
                              !.stray = IF OwnStream(wjob) THEN f ELSE @]

(* Mutant: the digest of what is there is not compared.                    *)
transferred_any(resume, f, v) ==
  IF resume /\ Exists(part[f]) THEN Len(part[f]) ELSE 0

(* is_write_need_confirmation: how much of the file a resuming job has, 0  *)
(* for nothing it can go on with.                                          *)
transferred_size(resume, f, v) ==
  IF resume /\ Exists(part[f]) /\ meta[f] = v THEN Len(part[f]) ELSE 0

-----------------------------------------------------------------------------
(* The channels, in order and lossless as long as the link is up.          *)

Confirm(id, f, skip, offset) ==
  [m |-> "confirm", id |-> id, file |-> f, skip |-> skip, offset |-> offset]

FromReader(m) == toWriter # <<>> /\ Head(toWriter).m = m
FromWriter(m) == toReader # <<>> /\ Head(toReader).m = m

(* The reading end's job of that id: its place in read_jobs, or 0.         *)
ReadJob(id) ==
  IF \E i \in DOMAIN rjobs : rjobs[i].id = id
  THEN CHOOSE i \in DOMAIN rjobs : rjobs[i].id = id
  ELSE 0

Without(id) == SelectSeq(rjobs, LAMBDA j : j.id # id)

(* The writer's job ignores an offset that the reader goes by.             *)
Headless(j, r) ==
  IF r.offset > 0 /\ j.file_num # r.file THEN {<<"headless", r.file>>} ELSE {}

(* The job leaves write_jobs.                                              *)
EndWrite ==
  /\ wjob' = NoJob
  /\ skips' = {s \in skips : s[1] # wjob.id}

ClientHasJob == IF Upload THEN rjobs # <<>> ELSE wjob # NoJob

-----------------------------------------------------------------------------
(* The client starts a job.                                                *)

(* SendFiles, or ResumeJob of a job that load_last_jobs has found.  A      *)
(* download asks the controlled side to read, an upload to write.          *)
start_job(file_num, resume) ==
  /\ ~ClientHasJob
  /\ started < MaxJobs
  /\ started' = started + 1
  /\ LET j == NewJob(started', file_num, resume)
         s == [m |-> "start", id |-> started', file |-> file_num]
     IN  IF Upload
         THEN rjobs' = <<j>> /\ toWriter' = Append(toWriter, s) /\ UNCHANGED <<wjob, toReader>>
         ELSE wjob' = j /\ toReader' = Append(toReader, s) /\ UNCHANGED <<rjobs, toWriter>>
  /\ saved' = IF resume THEN saved \ {file_num} ELSE saved
  /\ UNCHANGED <<src, disk, asked, faults, skips, slips>>

SendFiles == start_job(0, FALSE)

ResumeJob == \E k \in saved : start_job(k, TRUE)

(* FileAction Send: create_and_start_read_job.                             *)
new_read ==
  /\ FromWriter("start")
  /\ rjobs' = Append(rjobs, NewJob(Head(toReader).id, Head(toReader).file, FALSE))
  /\ toReader' = Tail(toReader)
  /\ UNCHANGED <<src, disk, wjob, toWriter, user, faults, skips, slips>>

(* FileAction Receive: NewWrite.                                           *)
new_write ==
  /\ FromReader("start")
  /\ wjob' = NewJob(Head(toWriter).id, Head(toWriter).file, FALSE)
  /\ toWriter' = Tail(toWriter)
  /\ UNCHANGED <<src, disk, rjobs, toReader, user, faults, skips, slips>>

-----------------------------------------------------------------------------
(* The reading end.                                                        *)

(* handle_read_jobs: every job opens its next file, the first one reads.   *)
handle_read_jobs(bad_open, bad_read) ==
  /\ rjobs # <<>>
  /\ LET init == [i \in DOMAIN rjobs |-> init_data_stream(rjobs[i], i = bad_open)]
         r == read(init[1].job, bad_read)
         sent == FlattenSeq([i \in DOMAIN rjobs |-> init[i].sent]) \o r.sent
         jobs == [i \in DOMAIN rjobs |-> IF i = 1 THEN r.job ELSE init[i].job]
     IN  /\ rjobs' = IF r.job = NoJob THEN Tail(jobs) ELSE jobs
         /\ toWriter' = toWriter \o sent
         /\ bad_read => init[1].job.confirmed
  /\ UNCHANGED <<src, disk, wjob, toReader, user, skips, slips>>

tick ==
  /\ handle_read_jobs(0, FALSE)
  /\ UNCHANGED faults

(* A file cannot be opened or read.                                        *)
tick_fails ==
  /\ faults < MaxFaults
  /\ faults' = faults + 1
  /\ \/ handle_read_jobs(0, TRUE)
     \/ \E i \in DOMAIN rjobs : /\ rjobs[i].file_num < NFiles
                                /\ ~rjobs[i].open
                                /\ handle_read_jobs(i, FALSE)

(* FileAction SendConfirm                                                  *)
recv_confirm ==
  /\ FromWriter("confirm")
  /\ LET r == Head(toReader)
         i == ReadJob(r.id)
     IN  rjobs' = IF i = 0 THEN rjobs ELSE [rjobs EXCEPT ![i] = confirm(@, r)]
  /\ toReader' = Tail(toReader)
  /\ UNCHANGED <<src, disk, wjob, toWriter, user, faults, skips, slips>>

(* FileAction Cancel, or the FileResponse Error of an upload.              *)
recv_stop ==
  /\ FromWriter("cancel") \/ FromWriter("error")
  /\ rjobs' = Without(Head(toReader).id)
  /\ toReader' = Tail(toReader)
  /\ UNCHANGED <<src, disk, wjob, toWriter, user, faults, skips, slips>>

(* Mutant: the answer is an offset whatever the strategy.                  *)
decide_upload_overwrites ==
  /\ FromWriter("digest")
  /\ toReader' = Tail(toReader)
  /\ LET d == Head(toReader)
         i == ReadJob(d.id)
         skip == d.offset = 0 /\ rjobs[i].strategy = "skip"
         r == Confirm(d.id, d.file, FALSE, d.offset)
     IN  IF i = 0
         THEN UNCHANGED <<rjobs, toWriter, asked, skips>>
         ELSE IF d.offset = 0 /\ rjobs[i].strategy = "ask"
         THEN /\ asked' = [id |-> d.id, file |-> d.file]
              /\ UNCHANGED <<rjobs, toWriter, skips>>
         ELSE /\ rjobs' = [rjobs EXCEPT ![i] = confirm(@, r)]
              /\ toWriter' = Append(toWriter, r)
              /\ skips' = IF skip THEN skips \cup {<<d.id, d.file>>} ELSE skips
              /\ UNCHANGED asked
  /\ UNCHANGED <<src, disk, wjob, saved, started, faults, slips>>

(* FileResponse Digest of an upload: the client decides about a file that  *)
(* is there, and tells the writer.  (A resumed one it need not ask about.) *)
decide_upload ==
  /\ FromWriter("digest")
  /\ toReader' = Tail(toReader)
  /\ LET d == Head(toReader)
         i == ReadJob(d.id)
         skip == d.offset = 0 /\ rjobs[i].strategy = "skip"
         r == Confirm(d.id, d.file, skip, d.offset)
     IN  IF i = 0
         THEN UNCHANGED <<rjobs, toWriter, asked, skips>>
         ELSE IF d.offset = 0 /\ rjobs[i].strategy = "ask"
         THEN /\ asked' = [id |-> d.id, file |-> d.file]
              /\ UNCHANGED <<rjobs, toWriter, skips>>
         ELSE /\ rjobs' = [rjobs EXCEPT ![i] = confirm(@, r)]
              /\ toWriter' = Append(toWriter, r)
              /\ skips' = IF skip THEN skips \cup {<<d.id, d.file>>} ELSE skips
              /\ UNCHANGED asked
  /\ UNCHANGED <<src, disk, wjob, saved, started, faults, slips>>

-----------------------------------------------------------------------------
(* The writing end.  Messages of a job it does not have are dropped.       *)

ForWriter(m) == FromReader(m) /\ Head(toWriter).id = wjob.id

drop_message ==
  /\ toWriter # <<>>
  /\ Head(toWriter).m # "start"
  /\ Head(toWriter).id # wjob.id
  /\ toWriter' = Tail(toWriter)
  /\ UNCHANGED <<src, disk, rjobs, wjob, toReader, user, faults, skips, slips>>

(* FileResponse Digest of a download.                                      *)
decide_download ==
  /\ ~Upload
  /\ ForWriter("digest")
  /\ toWriter' = Tail(toWriter)
  /\ LET d == Head(toWriter)
         j == [wjob EXCEPT !.digest = d.v]
         n == transferred_size(j.resume, d.file, d.v)
         known == n > 0 \/ ~Exists(final[d.file]) \/ j.strategy # "ask"
         skip == n = 0 /\ Exists(final[d.file]) /\ j.strategy = "skip"
         r == Confirm(d.id, d.file, skip, n)
     IN  IF known
         THEN /\ wjob' = confirm(j, r)
              /\ slips' = slips \cup Headless(j, r)
              /\ toReader' = Append(toReader, r)
              /\ skips' = IF skip THEN skips \cup {<<d.id, d.file>>} ELSE skips
              /\ UNCHANGED asked
         ELSE /\ wjob' = j
              /\ asked' = [id |-> d.id, file |-> d.file]
              /\ UNCHANGED <<toReader, skips, slips>>
  /\ UNCHANGED <<src, disk, rjobs, saved, started, faults>>

(* Mutant: a file that is not there needs no answer.                       *)
CheckDigest_silent ==
  /\ Upload
  /\ ForWriter("digest")
  /\ toWriter' = Tail(toWriter)
  /\ LET d == Head(toWriter)
         n == transferred_size(d.resume, d.file, d.v)
     IN  /\ wjob' = [wjob EXCEPT !.digest = d.v]
         /\ toReader' = IF n > 0 \/ Exists(final[d.file])
              THEN Append(toReader,
                     [m |-> "digest", id |-> d.id, file |-> d.file, offset |-> n])
              ELSE toReader
  /\ UNCHANGED <<src, disk, rjobs, user, faults, skips, slips>>

(* CheckDigest of the connection manager.                                  *)
CheckDigest ==
  /\ Upload
  /\ ForWriter("digest")
  /\ toWriter' = Tail(toWriter)
  /\ LET d == Head(toWriter)
         n == transferred_size(d.resume, d.file, d.v)
     IN  /\ wjob' = [wjob EXCEPT !.digest = d.v]
         /\ toReader' = Append(toReader,
              IF n > 0 \/ Exists(final[d.file])
              THEN [m |-> "digest", id |-> d.id, file |-> d.file, offset |-> n]
              ELSE Confirm(d.id, d.file, FALSE, 0))
  /\ UNCHANGED <<src, disk, rjobs, user, faults, skips, slips>>

(* SendConfirm of the connection manager.                                  *)
SendConfirm ==
  /\ ForWriter("confirm")
  /\ wjob' = confirm(wjob, Head(toWriter))
  /\ slips' = slips \cup Headless(wjob, Head(toWriter))
  /\ toWriter' = Tail(toWriter)
  /\ UNCHANGED <<src, disk, rjobs, toReader, user, faults, skips>>

(* FileResponse Block, WriteBlock.                                         *)
recv_block ==
  /\ ForWriter("block")
  /\ write(Head(toWriter), {})
  /\ toWriter' = Tail(toWriter)
  /\ UNCHANGED <<src, rjobs, toReader, user, faults, skips>>

(* The block cannot be written, or the file for it cannot be created.  The *)
(* client of a download ignores that; the connection manager reports it    *)
(* and keeps its job.                                                      *)
write_fails ==
  /\ faults < MaxFaults
  /\ ForWriter("block")
  /\ faults' = faults + 1
  /\ LET b == Head(toWriter)
     IN  /\ \/ b.data # <<>> /\ write([b EXCEPT !.data = <<>>], {<<"hole", b.file>>})
            \/ write_uncreated(b)
         /\ toReader' = IF Upload THEN Append(toReader, ErrorMsg(b.id)) ELSE toReader
  /\ toWriter' = Tail(toWriter)
  /\ UNCHANGED <<src, rjobs, user, skips>>

(* FileResponse Done, WriteDone.                                           *)
recv_done ==
  /\ ForWriter("done")
  /\ modify_time(wjob)
  /\ EndWrite
  /\ toWriter' = Tail(toWriter)
  /\ UNCHANGED <<src, rjobs, toReader, user, faults>>

(* Mutant: a job that ends with an error finishes its file.                *)
recv_error_finishes ==
  /\ ForWriter("error")
  /\ modify_time(wjob)
  /\ EndWrite
  /\ toWriter' = Tail(toWriter)
  /\ toReader' = IF Upload THEN Append(toReader, Head(toWriter)) ELSE toReader
  /\ UNCHANGED <<src, rjobs, user, faults>>

(* FileResponse Error; WriteError, which the client is told of in turn.    *)
recv_error ==
  /\ ForWriter("error")
  /\ EndWrite
  /\ toWriter' = Tail(toWriter)
  /\ toReader' = IF Upload THEN Append(toReader, Head(toWriter)) ELSE toReader
  /\ UNCHANGED <<src, disk, rjobs, user, faults, slips>>

(* CancelWrite                                                             *)
recv_cancel ==
  /\ ForWriter("cancel")
  /\ remove_download_file(wjob)
  /\ EndWrite
  /\ toWriter' = Tail(toWriter)
  /\ UNCHANGED <<src, rjobs, toReader, user, faults, slips>>

-----------------------------------------------------------------------------
(* The user at the client.                                                 *)

(* Mutant: the answer to a question about a download goes to the peer only. *)
SetConfirmOverrideFile_remote(overwrite, remember) ==
  /\ asked # NotAsked
  /\ asked' = NotAsked
  /\ LET r == Confirm(asked.id, asked.file, ~overwrite, 0)
         mine == wjob.id = asked.id
     IN  /\ toReader' = IF mine THEN Append(toReader, r) ELSE toReader
         /\ skips' = IF mine /\ r.skip THEN skips \cup {<<r.id, r.file>>} ELSE skips
  /\ UNCHANGED <<src, disk, rjobs, wjob, toWriter, saved, started, faults, slips>>

(* Mutant: it stays at the client.                                         *)
SetConfirmOverrideFile_local(overwrite, remember) ==
  /\ asked # NotAsked
  /\ asked' = NotAsked
  /\ wjob' = IF wjob.id = asked.id
             THEN confirm(wjob, Confirm(asked.id, asked.file, ~overwrite, 0)) ELSE wjob
  /\ skips' = IF wjob.id = asked.id /\ ~overwrite
              THEN skips \cup {<<asked.id, asked.file>>} ELSE skips
  /\ UNCHANGED <<src, disk, rjobs, net, saved, started, faults, slips>>

(* SetConfirmOverrideFile: of an upload, the writer is not told.           *)
SetConfirmOverrideFile(overwrite, remember) ==
  /\ asked # NotAsked
  /\ asked' = NotAsked
  /\ LET r == Confirm(asked.id, asked.file, ~overwrite, 0)
         i == ReadJob(asked.id)
         Told(j) == confirm([j EXCEPT !.strategy =
                               IF ~remember THEN @
                               ELSE IF overwrite THEN "overwrite" ELSE "skip"], r)
         mine == IF Upload THEN i # 0 ELSE wjob.id = asked.id
     IN  /\ rjobs' = IF Upload /\ mine THEN [rjobs EXCEPT ![i] = Told(@)] ELSE rjobs
         /\ wjob' = IF ~Upload /\ mine THEN Told(wjob) ELSE wjob
         /\ toReader' = IF ~Upload /\ mine THEN Append(toReader, r) ELSE toReader
         /\ skips' = IF mine /\ r.skip THEN skips \cup {<<r.id, r.file>>} ELSE skips
         /\ slips' = IF mine /\ r.skip /\ Upload
                     THEN slips \cup {<<"untold", r.file>>} ELSE slips
  /\ UNCHANGED <<src, disk, toWriter, saved, started, faults>>

(* cancel_transfer_job                                                     *)
cancel_transfer_job ==
  /\ ClientHasJob
  /\ IF Upload
     THEN /\ toWriter' = Append(toWriter, [m |-> "cancel", id |-> rjobs[1].id])
          /\ rjobs' = Tail(rjobs)
          /\ UNCHANGED <<disk, wjob, toReader, skips>>
     ELSE /\ toReader' = Append(toReader, [m |-> "cancel", id |-> wjob.id])
          /\ remove_download_file(wjob)
          /\ EndWrite
          /\ UNCHANGED <<rjobs, toWriter>>
  /\ UNCHANGED <<src, user, faults, slips>>

(* The link breaks: sync_jobs_status_to_local; both ends lose their jobs   *)
(* and what was on its way.                                                *)
disconnect ==
  /\ rjobs # <<>> \/ wjob # NoJob
  /\ saved' = IF ~ClientHasJob THEN saved
              ELSE saved \cup {IF Upload THEN rjobs[1].file_num ELSE wjob.file_num}
  /\ rjobs' = <<>>
  /\ wjob' = NoJob
  /\ skips' = {}
  /\ toWriter' = <<>>
  /\ toReader' = <<>>
  /\ asked' = NotAsked
  /\ UNCHANGED <<src, disk, started, faults, slips>>

(* Between two jobs somebody rewrites a source file.                       *)
rewrite_source(f) ==
  /\ rjobs = <<>> /\ wjob = NoJob
  /\ toReader = <<>> /\ toWriter = <<>>
  /\ src[f] < MaxVersion
  /\ src' = [src EXCEPT ![f] = @ + 1]
  /\ UNCHANGED <<disk, rjobs, wjob, net, user, faults, skips, slips>>

Reader == tick \/ tick_fails \/ recv_confirm \/ recv_stop \/ decide_upload \/ new_read

Writer ==
  \/ new_write \/ drop_message \/ decide_download \/ CheckDigest \/ SendConfirm
  \/ recv_block \/ write_fails \/ recv_done \/ recv_error \/ recv_cancel

Answer == \E overwrite, remember \in BOOLEAN : SetConfirmOverrideFile(overwrite, remember)

Next ==
  \/ Reader
  \/ Writer
  \/ Answer
  \/ SendFiles
  \/ ResumeJob
  \/ cancel_transfer_job
  \/ disconnect
  \/ \E f \in Files : rewrite_source(f)

(* Both ends go on handling what is there to handle; the timer of          *)
(* read_jobs goes on ticking; the user answers a question.                 *)
Fairness ==
  /\ WF_vars(tick)
  /\ WF_vars(recv_confirm \/ recv_stop \/ decide_upload \/ new_read)
  /\ WF_vars(Writer)
  /\ WF_vars(Answer)

Spec == Init /\ [][Next]_vars /\ Fairness

-----------------------------------------------------------------------------
(* A content that some version of the file has as a whole, or a file that  *)
(* no job has touched.                                                     *)
Whole(content) == content \in {NoFile, Existing} \cup {Complete(v) : v \in Versions}

Slipped(kinds, f) == \E k \in kinds : <<k, f>> \in slips

(* What a resuming job goes on from: a .download holds a beginning of the  *)
(* version its .digest names (write, set_stream_offset).  Not so after an  *)
(* offset that the writer ignored, and after a block that was not written. *)
PartialIsPrefix ==
  \A f \in Files :
    (meta[f] # 0 /\ ~Slipped({"headless", "hole"}, f))
      => /\ Exists(part[f])
         /\ IsPrefix(part[f], Complete(meta[f]))

(* The files of the destination are whole at every moment, whatever breaks *)
(* in between (write, modify_time, remove_download_file).  Not so in the   *)
(* two cases above, when a job finds another's leftover, and for a file    *)
(* whose next one could not be created and whose stream gets the blocks of *)
(* that one.                                                               *)
FinalIsWhole ==
  \A f \in Files : Whole(final[f]) \/ Slipped({"headless", "hole", "stale", "astray"}, f)

(* A job that is done has brought over, in their present version, all the  *)
(* files it was to bring and was not told to skip.                         *)
DoneIsComplete ==
  [][recv_done =>
       \A f \in wjob.first .. NFiles - 1 :
         \/ <<wjob.id, f>> \in skips
         \/ final'[f] = Complete(src[f])
         \/ Slipped({"headless", "hole", "astray"}, f)]_vars

(* A file that the user skips stays as it is while the job goes on.  Not   *)
(* so if the writer is not told of it and finds another job's leftover.    *)
SkippedIsKept ==
  [][\A f \in Files :
       <<wjob.id, f>> \in skips
         => \/ final'[f] = final[f]
            \/ <<"untold", f>> \in slips /\ <<"stale", f>> \in slips']_vars

(* A job that meets no fault comes to its end at both ends, or the link    *)
(* breaks: nobody waits for a confirmation that is not on its way.         *)
JobEnds ==
  (wjob # NoJob \/ rjobs # <<>>) ~> ((wjob = NoJob /\ rjobs = <<>>) \/ faults > 0)

-----------------------------------------------------------------------------
(* What comments say and the code does not do.                             *)

(* "It is ok" that confirm() ignores a request for another file, because   *)
(* the job is then not one that resumes (fs.rs:1157-1161): an offset is    *)
(* never ignored by the writer.                                            *)
OffsetIsTaken == \A f \in Files : <<"headless", f>> \notin slips

(* "On open error [...] advance to next file" (fs.rs:857): the job is done *)
(* only after its last file.                                               *)
OpenErrorAdvances ==
  [][\A id \in 1 .. MaxJobs :
       LET done == [m |-> "done", id |-> id]
       IN  (done \in ToSet(toWriter') /\ done \notin ToSet(toWriter))
             => rjobs[1].file_num >= NFiles]_vars

=============================================================================
