------------------------------- MODULE ReadJobs -------------------------------
(***************************************************************************)
(* Several downloads at once: the read jobs of the host, which are handled *)
(* one by one.  On Windows the connection hands them to the connection     *)
(* manager (src/src/ui_cm_interface.rs) and passes on what comes back for  *)
(* the jobs it still knows; elsewhere it reads itself (handle_read_jobs of *)
(* src/libs/hbb_common/src/fs.rs).  FileTransfer has what is written; here *)
(* a file is a number of blocks and one that is empty.                     *)
(***************************************************************************)
EXTENDS Naturals, Sequences, FiniteSets, SequencesExt

CONSTANTS
  Jobs,         (* ids of the jobs                                           *)
  NFiles,       (* files of each                                             *)
  NBlocks,      (* blocks of each, before the empty one                      *)
  ViaCM,        (* need_fs_cm_send_files()                                   *)
  MaxFaults     (* bound: files that cannot be opened or read, bad paths     *)

(* Assumed of the constants by every module that gives them values. *)
ReadJobsAssumption ==
  NFiles \in Nat \ {0} /\ NBlocks \in Nat /\ ViaCM \in BOOLEAN /\ MaxFaults \in Nat

VARIABLES
  toHost,           (* client to connection                                  *)
  cm_read_job_ids,  (* Connection's                                          *)
  toCM, fromCM,     (* between the connection and its connection manager     *)
  read_jobs,        (* the reader's, whichever process it is in              *)
  toClient,         (* connection to client                                  *)
  write_jobs,       (* client: "none", "on", "done", "failed", "cancelled"   *)
  asked,            (* client: the file the user is asked about              *)
  got,              (* client: "none", "some", "whole", "skip" of each file  *)
  faults

reader == <<read_jobs, fromCM>>
client == <<write_jobs, asked, got>>
vars == <<toHost, cm_read_job_ids, toCM, reader, toClient, client, faults>>

Files == 0 .. NFiles - 1
NoFile == NFiles
Msg(m, id, file, last) == [m |-> m, id |-> id, file |-> file, last |-> last]
NewJob(id) == [id |-> id, file |-> 0, open |-> FALSE, pos |-> 0,
               confirmed |-> FALSE, waiting |-> FALSE, skipped |-> FALSE]

Init ==
  /\ toHost = <<>> /\ toCM = <<>> /\ fromCM = <<>> /\ toClient = <<>>
  /\ cm_read_job_ids = {} /\ read_jobs = <<>>
  /\ write_jobs = [id \in Jobs |-> "none"] /\ asked = [id \in Jobs |-> NoFile]
  /\ got = [id \in Jobs |-> [f \in Files |-> "none"]]
  /\ faults = 0

-----------------------------------------------------------------------------
(* TransferJob.                                                             *)

Leave(j) == [j EXCEPT !.file = @ + 1, !.open = FALSE, !.confirmed = FALSE, !.waiting = FALSE]

can_fail_to_open(j) == j.file < NFiles /\ ~j.open

opened(j) == IF can_fail_to_open(j) THEN [j EXCEPT !.open = TRUE, !.pos = 0, !.confirmed = FALSE, !.waiting = FALSE] ELSE j

(* Mutant: a digest that was sent is sent again.                            *)
sends_digest_again(j) == j.file < NFiles /\ ~opened(j).confirmed

sends_digest(j) == j.file < NFiles /\ ~opened(j).confirmed /\ ~opened(j).waiting

init_data_stream(j) == IF sends_digest(j) THEN [opened(j) EXCEPT !.waiting = TRUE] ELSE opened(j)

digest(j) == IF sends_digest(j) THEN <<Msg("digest", j.id, j.file, FALSE)>> ELSE <<>>

(* Mutant: a file ends with its last block, without the empty one.          *)
read_without_end(j) == IF j.pos + 1 < NBlocks THEN [j EXCEPT !.pos = @ + 1] ELSE Leave(j)

(* What read does to a confirmed file: a block, then the empty one.         *)
read(j) == IF j.pos < NBlocks THEN [j EXCEPT !.pos = @ + 1] ELSE Leave(j)

block(j) == Msg("block", j.id, j.file, j.pos = NBlocks)

job_completed(j) == ~j.confirmed /\ ~j.waiting

job_end(j) == Msg(IF j.skipped /\ NFiles = 1 THEN "skipped" ELSE "done", j.id, NoFile, TRUE)

(* Mutant: a skipped file is still waiting.                                 *)
confirm_still_waiting(j, r) ==
  IF j.file # r.file THEN j
  ELSE IF r.last THEN [Leave(j) EXCEPT !.skipped = TRUE, !.waiting = TRUE]
  ELSE [j EXCEPT !.confirmed = TRUE, !.skipped = FALSE]

confirm(j, r) ==
  IF j.file # r.file THEN j
  ELSE IF r.last THEN [Leave(j) EXCEPT !.skipped = TRUE]
  ELSE [j EXCEPT !.confirmed = TRUE, !.skipped = FALSE]

Others(id) == SelectSeq(read_jobs, LAMBDA j : j.id # id)
Confirmed(r) == [i \in DOMAIN read_jobs |->
                   IF read_jobs[i].id = r.id THEN confirm(read_jobs[i], r) ELSE read_jobs[i]]
HasJob(id) == \E i \in DOMAIN read_jobs : read_jobs[i].id = id

-----------------------------------------------------------------------------
(* The client.                                                              *)

ToHost(m) == toHost' = Append(toHost, m)
From(ch, m) == ch # <<>> /\ Head(ch).m = m
Drop(ch) == Tail(ch)

SendFiles(id) ==
  /\ write_jobs[id] = "none"
  /\ write_jobs' = [write_jobs EXCEPT ![id] = "on"]
  /\ ToHost(Msg("send", id, 0, FALSE))
  /\ UNCHANGED <<cm_read_job_ids, toCM, reader, toClient, asked, got, faults>>

SendConfirm(id, f, skip) ==
  /\ ToHost(Msg("confirm", id, f, skip))
  /\ got' = IF skip THEN [got EXCEPT ![id][f] = "skip"] ELSE got

(* A digest is answered at once, or by the user.                            *)
on_digest ==
  /\ From(toClient, "digest") /\ toClient' = Drop(toClient)
  /\ LET d == Head(toClient) IN
     IF write_jobs[d.id] = "on"
     THEN \/ \E skip \in BOOLEAN : SendConfirm(d.id, d.file, skip) /\ UNCHANGED asked
          \/ asked' = [asked EXCEPT ![d.id] = d.file] /\ UNCHANGED <<toHost, got>>
     ELSE UNCHANGED <<toHost, asked, got>>
  /\ UNCHANGED <<cm_read_job_ids, toCM, reader, write_jobs, faults>>

SetConfirmOverrideFile(id, need_override) ==
  /\ asked[id] # NoFile
  /\ asked' = [asked EXCEPT ![id] = NoFile]
  /\ IF write_jobs[id] = "on" THEN SendConfirm(id, asked[id], ~need_override) ELSE UNCHANGED <<toHost, got>>
  /\ UNCHANGED <<cm_read_job_ids, toCM, reader, toClient, write_jobs, faults>>

on_block ==
  /\ From(toClient, "block") /\ toClient' = Drop(toClient)
  /\ LET b == Head(toClient) IN
     got' = IF write_jobs[b.id] = "on"
            THEN [got EXCEPT ![b.id][b.file] = IF b.last THEN "whole" ELSE "some"] ELSE got
  /\ UNCHANGED <<toHost, cm_read_job_ids, toCM, reader, write_jobs, asked, faults>>

on_end ==
  /\ \E m \in {"done", "skipped", "error"} :
       /\ From(toClient, m)
       /\ LET id == Head(toClient).id IN
          write_jobs' = IF write_jobs[id] # "on" THEN write_jobs
                        ELSE [write_jobs EXCEPT ![id] = IF m = "error" THEN "failed" ELSE "done"]
  /\ toClient' = Drop(toClient)
  /\ UNCHANGED <<toHost, cm_read_job_ids, toCM, reader, asked, got, faults>>

(* The list of the files; the client has its own file list by then.         *)
on_dir ==
  /\ From(toClient, "dir") /\ toClient' = Drop(toClient)
  /\ UNCHANGED <<toHost, cm_read_job_ids, toCM, reader, client, faults>>

cancel_transfer_job(id) ==
  /\ write_jobs[id] \in {"on", "failed"}
  /\ write_jobs' = [write_jobs EXCEPT ![id] = "cancelled"]
  /\ ToHost(Msg("cancel", id, NoFile, FALSE))
  /\ UNCHANGED <<cm_read_job_ids, toCM, reader, toClient, asked, got, faults>>

-----------------------------------------------------------------------------
(* The connection.                                                          *)

ToCM(m) == toCM' = Append(toCM, m)
ToClient(ms) == toClient' = toClient \o ms
Fault(n) == faults + n <= MaxFaults /\ faults' = faults + n

on_send ==
  /\ From(toHost, "send") /\ toHost' = Drop(toHost)
  /\ LET id == Head(toHost).id IN
     IF ViaCM
     THEN /\ cm_read_job_ids' = cm_read_job_ids \cup {id}
          /\ ToCM(Head(toHost)) /\ UNCHANGED <<read_jobs, toClient, faults>>
     ELSE /\ \/ /\ read_jobs' = Append(read_jobs, NewJob(id))
                /\ ToClient(<<Msg("dir", id, NoFile, FALSE)>>) /\ UNCHANGED faults
             \/ /\ Fault(1) /\ ToClient(<<Msg("error", id, NoFile, FALSE)>>)
                /\ UNCHANGED read_jobs
          /\ UNCHANGED <<toCM, cm_read_job_ids>>
  /\ UNCHANGED <<fromCM, client>>

(* Mutant: a cancelled job is only taken from the list of the manager's.    *)
on_cancel_untold ==
  /\ From(toHost, "cancel") /\ toHost' = Drop(toHost)
  /\ cm_read_job_ids' = cm_read_job_ids \ {Head(toHost).id}
  /\ UNCHANGED <<toCM, reader, toClient, client, faults>>

on_cancel ==
  /\ From(toHost, "cancel") /\ toHost' = Drop(toHost)
  /\ LET id == Head(toHost).id IN
     /\ cm_read_job_ids' = cm_read_job_ids \ {id}
     /\ IF ViaCM THEN ToCM(Head(toHost)) /\ UNCHANGED read_jobs
                 ELSE read_jobs' = Others(id) /\ UNCHANGED toCM
  /\ UNCHANGED <<fromCM, toClient, client, faults>>

on_confirm ==
  /\ From(toHost, "confirm") /\ toHost' = Drop(toHost)
  /\ LET r == Head(toHost) IN
     /\ IF ~ViaCM THEN read_jobs' = Confirmed(r) ELSE UNCHANGED read_jobs
     /\ IF ViaCM /\ r.id \in cm_read_job_ids THEN ToCM(r) ELSE UNCHANGED toCM
  /\ UNCHANGED <<cm_read_job_ids, fromCM, toClient, client, faults>>

(* Mutant: the end of a job leaves its id.                                  *)
handle_from_cm_kept ==
  /\ fromCM # <<>> /\ fromCM' = Tail(fromCM)
  /\ LET r == Head(fromCM) IN
     IF r.id \notin cm_read_job_ids THEN UNCHANGED <<cm_read_job_ids, toClient>>
     ELSE /\ cm_read_job_ids' = IF r.m = "error" THEN cm_read_job_ids \ {r.id} ELSE cm_read_job_ids
          /\ ToClient(<<r>>)
  /\ UNCHANGED <<toHost, toCM, read_jobs, client, faults>>

(* handle_read_job_init_result, handle_file_digest_from_cm and the others:  *)
(* what is not of a known job is dropped, and an end forgets the job.       *)
handle_from_cm ==
  /\ fromCM # <<>> /\ fromCM' = Tail(fromCM)
  /\ LET r == Head(fromCM) IN
     IF r.id \notin cm_read_job_ids THEN UNCHANGED <<cm_read_job_ids, toClient>>
     ELSE /\ cm_read_job_ids' = IF r.m \in {"done", "skipped", "error"}
                                THEN cm_read_job_ids \ {r.id} ELSE cm_read_job_ids
          /\ ToClient(<<r>>)
  /\ UNCHANGED <<toHost, toCM, read_jobs, client, faults>>

-----------------------------------------------------------------------------
(* The reader in the connection manager.                                    *)

Tell(ms) == fromCM' = fromCM \o ms

start_read_job ==
  /\ From(toCM, "send") /\ toCM' = Drop(toCM)
  /\ LET id == Head(toCM).id IN
     \/ Tell(<<Msg("dir", id, NoFile, FALSE)>>) /\ read_jobs' = Append(read_jobs, NewJob(id)) /\ UNCHANGED faults
     \/ Fault(1) /\ Tell(<<Msg("error", id, NoFile, FALSE)>>) /\ UNCHANGED read_jobs
  /\ UNCHANGED <<toHost, cm_read_job_ids, toClient, client>>

CancelRead ==
  /\ From(toCM, "cancel") /\ toCM' = Drop(toCM)
  /\ read_jobs' = Others(Head(toCM).id)
  /\ UNCHANGED <<toHost, cm_read_job_ids, fromCM, toClient, client, faults>>

(* Mutant: the file number that is given instead is that of the first file. *)
SendConfirmForRead_first ==
  /\ From(toCM, "confirm") /\ toCM' = Drop(toCM)
  /\ read_jobs' = Confirmed([Head(toCM) EXCEPT !.file = 0])
  /\ UNCHANGED <<toHost, cm_read_job_ids, fromCM, toClient, client, faults>>

(* The file_num of the confirmation is not used: the job's own is.          *)
SendConfirmForRead ==
  /\ From(toCM, "confirm") /\ toCM' = Drop(toCM)
  /\ LET r == Head(toCM) IN
     read_jobs' = [i \in DOMAIN read_jobs |->
                     IF read_jobs[i].id = r.id
                     THEN confirm(read_jobs[i], [r EXCEPT !.file = read_jobs[i].file]) ELSE read_jobs[i]]
  /\ UNCHANGED <<toHost, cm_read_job_ids, fromCM, toClient, client, faults>>

Ends(js) == [i \in DOMAIN js |-> Msg("error", js[i].id, NoFile, FALSE)]

(* Mutant: a job that failed goes on with its next file.                    *)
kept_leaving(js) == [i \in DOMAIN js |-> Leave(js[i])]

(* What is kept of jobs that failed.                                        *)
kept(js) == <<>>

(* The first job whose file can be opened is the one that is read.  A job   *)
(* that fails is ended.                                                     *)
handle_read_jobs_tick ==
  /\ ViaCM /\ read_jobs # <<>>
  /\ \E k \in 0 .. Len(read_jobs) :
       LET failed == SubSeq(read_jobs, 1, k)
           rest == SubSeq(read_jobs, k + 1, Len(read_jobs))
           j == init_data_stream(Head(rest))
           others == Tail(rest)
       IN /\ \A i \in 1 .. k : can_fail_to_open(read_jobs[i])
          /\ IF rest = <<>> THEN Fault(k) /\ read_jobs' = kept(failed) /\ Tell(Ends(failed))
             ELSE \/ j.confirmed /\ Fault(k)
                     /\ read_jobs' = kept(failed) \o <<read(j)>> \o others /\ Tell(Ends(failed) \o <<block(j)>>)
                  \/ j.confirmed /\ Fault(k + 1)
                     /\ read_jobs' = kept(failed \o <<j>>) \o others /\ Tell(Ends(failed \o <<j>>))
                  \/ job_completed(j) /\ Fault(k)
                     /\ read_jobs' = kept(failed) \o others /\ Tell(Ends(failed) \o <<job_end(j)>>)
                  \/ ~j.confirmed /\ j.waiting /\ Fault(k)
                     /\ read_jobs' = kept(failed) \o <<j>> \o others /\ Tell(Ends(failed) \o digest(Head(rest)))
                     /\ <<read_jobs', fromCM'>> # reader
  /\ UNCHANGED <<toHost, cm_read_job_ids, toCM, toClient, client>>

-----------------------------------------------------------------------------
(* The reader in the connection: every job is prepared, the first is read.  *)
(* A job that fails goes on with its next file.                             *)
handle_read_jobs ==
  /\ ~ViaCM /\ read_jobs # <<>>
  /\ \E bad \in SUBSET {i \in DOMAIN read_jobs : can_fail_to_open(read_jobs[i])} :
       LET init == [i \in DOMAIN read_jobs |->
                      IF i \in bad THEN Leave(read_jobs[i]) ELSE init_data_stream(read_jobs[i])]
           said == FlattenSeq([i \in DOMAIN read_jobs |->
                      IF i \in bad THEN <<Msg("error", read_jobs[i].id, NoFile, FALSE)>>
                      ELSE digest(read_jobs[i])])
           j == Head(init)
           n == Cardinality(bad)
       IN \/ j.confirmed /\ Fault(n)
             /\ read_jobs' = <<read(j)>> \o Tail(init) /\ ToClient(said \o <<block(j)>>)
          \/ j.confirmed /\ Fault(n + 1)
             /\ read_jobs' = <<Leave(j)>> \o Tail(init) /\ ToClient(said \o Ends(<<j>>))
          \/ job_completed(j) /\ Fault(n)
             /\ read_jobs' = Tail(init) /\ ToClient(said \o <<job_end(j)>>)
          \/ ~j.confirmed /\ j.waiting /\ Fault(n)
             /\ read_jobs' = init /\ ToClient(said)
             /\ <<read_jobs', toClient'>> # <<read_jobs, toClient>>
  /\ UNCHANGED <<toHost, cm_read_job_ids, toCM, fromCM, client>>

-----------------------------------------------------------------------------
Receive == on_digest \/ on_block \/ on_end \/ on_dir
Host == on_send \/ on_cancel \/ on_confirm
Manager == start_read_job \/ CancelRead \/ SendConfirmForRead
Answer(id) == \E need_override \in BOOLEAN : SetConfirmOverrideFile(id, need_override)

Next ==
  \/ Receive \/ Host \/ Manager \/ handle_from_cm \/ handle_read_jobs_tick \/ handle_read_jobs
  \/ \E id \in Jobs : SendFiles(id) \/ cancel_transfer_job(id) \/ Answer(id)

(* The loops of the three processes go on; the user answers what is asked.  *)
Fairness ==
  /\ WF_vars(Receive) /\ WF_vars(Host) /\ WF_vars(Manager) /\ WF_vars(handle_from_cm)
  /\ WF_vars(handle_read_jobs_tick \/ handle_read_jobs)
  /\ \A id \in Jobs : WF_vars(Answer(id))

Spec == Init /\ [][Next]_vars /\ Fairness

-----------------------------------------------------------------------------
Job == [id : Jobs, file : 0 .. NFiles, open : BOOLEAN, pos : 0 .. NBlocks,
        confirmed : BOOLEAN, waiting : BOOLEAN, skipped : BOOLEAN]

(* Only a job with an open file is waiting or confirmed, and only the first *)
(* one has got beyond its beginning.                                        *)
TypeOK ==
  /\ read_jobs \in Seq(Job)
  /\ \A i \in DOMAIN read_jobs : LET j == read_jobs[i] IN
       /\ (j.confirmed \/ j.waiting) => j.open
       /\ j.open => j.file < NFiles
       /\ \A k \in DOMAIN read_jobs : k # i => read_jobs[k].id # j.id
  /\ cm_read_job_ids \subseteq Jobs /\ (~ViaCM => cm_read_job_ids = {} /\ toCM = <<>> /\ fromCM = <<>>)
  /\ write_jobs \in [Jobs -> {"none", "on", "done", "failed", "cancelled"}]
  /\ asked \in [Jobs -> 0 .. NoFile]
  /\ got \in [Jobs -> [Files -> {"none", "some", "whole", "skip"}]]
  /\ faults \in 0 .. MaxFaults

(* A confirmation on its way to the connection manager is for the file that *)
(* its job is at, and the job waits for it: that its file_num is dropped    *)
(* there does no harm.                                                      *)
ConfirmsItsFile ==
  \A i \in DOMAIN toCM : toCM[i].m = "confirm" =>
    \A k \in DOMAIN read_jobs : read_jobs[k].id = toCM[i].id =>
      read_jobs[k].file = toCM[i].file /\ read_jobs[k].waiting /\ ~read_jobs[k].confirmed

(* A job that the client sees done has every file whole or skipped.         *)
DoneIsWhole ==
  \A id \in Jobs : write_jobs[id] = "done" => \A f \in Files : got[id][f] \in {"whole", "skip"}

Settled == toHost = <<>> /\ toCM = <<>> /\ fromCM = <<>> /\ toClient = <<>>

(* Once all is handled the connection knows the jobs the manager has.       *)
TrackedIsAlive == ViaCM /\ Settled => \A id \in Jobs : id \in cm_read_job_ids <=> HasJob(id)

(* The reader has no job that failed: "continuing would be pointless".      *)
EndsWithItsError == Settled => \A id \in Jobs : write_jobs[id] = "failed" => ~HasJob(id)

(* Every job that is started ends, though they are handled one by one.      *)
JobsEnd == \A id \in Jobs : write_jobs[id] = "on" ~> write_jobs[id] # "on"

(* The same where the connection reads, unless some job failed: its reader  *)
(* waits for an answer that does not come, and the others wait for it.      *)
JobsEndUnlessOneFailed ==
  \A id \in Jobs : write_jobs[id] = "on" ~> (write_jobs[id] # "on" \/ \E o \in Jobs : write_jobs[o] = "failed")

=============================================================================
