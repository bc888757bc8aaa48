----------------------------- MODULE MCTransfer -----------------------------
(***************************************************************************)
(* The tasks of a client that are followed to their end, for TLC: the jobs *)
(* that copy a directory, in both directions, the jobs that read files at  *)
(* the host, with a connection manager of its own and without, and the     *)
(* login to an account. The components share no state: a behaviour runs    *)
(* one of them, the others rest in a first state of theirs, and what holds *)
(* of each holds of them side by side.                                     *)
(***************************************************************************)
EXTENDS AccountLogin

CONSTANTS NFiles, NBlocks, MaxVersion, MaxFaults, DownJobs, ResumeJobs,
  UpJobs

VARIABLE chosen     (* the component whose behaviour this is *)

VARIABLES src, final, part, meta, rjobs, wjob, toWriter, toReader, asked,
  saved, started, faults, skips, slips
job_vars == <<src, final, part, meta, rjobs, wjob, toWriter, toReader,
  asked, saved, started, faults, skips, slips>>

VARIABLES toHost, cm_read_job_ids, toCM, fromCM, read_jobs, toClient,
  write_jobs, read_asked, got, read_faults
read_vars == <<toHost, cm_read_job_ids, toCM, fromCM, read_jobs, toClient,
  write_jobs, read_asked, got, read_faults>>

Down == INSTANCE FileTransfer WITH MaxJobs <- DownJobs, Upload <- FALSE

Resumed == INSTANCE FileTransfer WITH MaxJobs <- ResumeJobs, MaxFaults <- 0,
  Upload <- FALSE

Up == INSTANCE FileTransfer WITH MaxJobs <- UpJobs, Upload <- TRUE

Managed == INSTANCE ReadJobs WITH Jobs <- {1, 2}, NFiles <- 1, NBlocks <- 1,
  ViaCM <- TRUE, MaxFaults <- 1, asked <- read_asked, faults <- read_faults

Direct == INSTANCE ReadJobs WITH Jobs <- {1, 2}, NFiles <- 1, NBlocks <- 1,
  ViaCM <- FALSE, MaxFaults <- 1, asked <- read_asked, faults <- read_faults

ASSUME PartsAssumption ==
  /\ Down!FileTransferAssumption
  /\ Resumed!FileTransferAssumption
  /\ Up!FileTransferAssumption
  /\ Managed!ReadJobsAssumption
  /\ Direct!ReadJobsAssumption

(* The parts that are idle are in a first state of theirs.                 *)
Begin ==
  /\ chosen \in {"account", "download", "resumed", "upload", "managed",
       "direct"}
  /\ Init
  /\ IF chosen = "resumed" THEN Resumed!Init ELSE IF chosen = "upload" THEN
     Up!Init ELSE Down!Init
  /\ chosen \in {"download", "resumed", "upload"} \/ (final = [f \in Down!Files |-> Down!NoFile])
  /\ IF chosen = "direct" THEN Direct!Init ELSE Managed!Init

Step ==
  \/ chosen = "account" /\ Next /\ UNCHANGED <<chosen, job_vars, read_vars>>
  \/ chosen = "download" /\ Down!Next /\ UNCHANGED <<chosen, vars,
       read_vars>>
  \/ chosen = "resumed" /\ Resumed!Next /\ UNCHANGED <<chosen, vars,
       read_vars>>
  \/ chosen = "upload" /\ Up!Next /\ UNCHANGED <<chosen, vars, read_vars>>
  \/ chosen = "managed" /\ Managed!Next /\ UNCHANGED <<chosen, vars,
       job_vars>>
  \/ chosen = "direct" /\ Direct!Next /\ UNCHANGED <<chosen, vars, job_vars>>

all_vars == <<chosen, vars, job_vars, read_vars>>

Parts == Begin /\ [][Step]_all_vars

(* The fairness of each part, while it is the one that runs.               *)
fair_account ==
  /\ \A c \in Calls :
       /\ WF_vars(chosen = "account" /\ Thread(c))
       /\ WF_vars(chosen = "account" /\ query_timeout(c))
  /\ WF_vars(chosen = "account" /\ _updateState)

fair_download ==
  /\ WF_job_vars(chosen = "download" /\ Down!tick)
  /\ WF_job_vars(chosen = "download" /\ (Down!recv_confirm \/ Down!recv_stop
           \/ Down!decide_upload \/ Down!new_read))
  /\ WF_job_vars(chosen = "download" /\ Down!Writer)
  /\ WF_job_vars(chosen = "download" /\ Down!Answer)

fair_upload ==
  /\ WF_job_vars(chosen = "upload" /\ Up!tick)
  /\ WF_job_vars(chosen = "upload" /\ (Up!recv_confirm \/ Up!recv_stop \/
           Up!decide_upload \/ Up!new_read))
  /\ WF_job_vars(chosen = "upload" /\ Up!Writer)
  /\ WF_job_vars(chosen = "upload" /\ Up!Answer)

fair_managed ==
  /\ WF_read_vars(chosen = "managed" /\ Managed!Receive)
  /\ WF_read_vars(chosen = "managed" /\ Managed!Host)
  /\ WF_read_vars(chosen = "managed" /\ Managed!Manager)
  /\ WF_read_vars(chosen = "managed" /\ Managed!handle_from_cm)
  /\ WF_read_vars(chosen = "managed" /\ (Managed!handle_read_jobs_tick \/
           Managed!handle_read_jobs))
  /\ \A id \in {1, 2} : WF_read_vars(chosen = "managed" /\
           Managed!Answer(id))

fair_direct ==
  /\ WF_read_vars(chosen = "direct" /\ Direct!Receive)
  /\ WF_read_vars(chosen = "direct" /\ Direct!Host)
  /\ WF_read_vars(chosen = "direct" /\ Direct!Manager)
  /\ WF_read_vars(chosen = "direct" /\ Direct!handle_from_cm)
  /\ WF_read_vars(chosen = "direct" /\ (Direct!handle_read_jobs_tick \/
           Direct!handle_read_jobs))
  /\ \A id \in {1, 2} : WF_read_vars(chosen = "direct" /\ Direct!Answer(id))

FairParts ==
  /\ Parts
  /\ fair_account
  /\ fair_download
  /\ fair_upload
  /\ fair_managed
  /\ fair_direct

(* The types of all parts.                                                 *)
TypesOK ==
  /\ TypeOK
  /\ chosen = "download" => Down!TypeOK
  /\ chosen = "managed" => Managed!TypeOK

(* FileTransfer: at every moment every file of the destination is one      *)
(* version as a whole or what was there before, and what a resumed job     *)
(* goes on from is a beginning of the version that its digest names; when  *)
(* the writer finishes a job every file of it is there in its present      *)
(* version, or was to be skipped; a file that the user skips does not      *)
(* change while the job lasts.                                             *)
FilesWhole ==
  /\ [](chosen = "download" => Down!PartialIsPrefix)
  /\ [](chosen = "resumed" => Resumed!PartialIsPrefix)
  /\ [](chosen = "upload" => Up!PartialIsPrefix)
  /\ [](chosen = "download" => Down!FinalIsWhole)
  /\ [](chosen = "resumed" => Resumed!FinalIsWhole)
  /\ [](chosen = "upload" => Up!FinalIsWhole)
  /\ Down!DoneIsComplete
  /\ Resumed!DoneIsComplete
  /\ Up!DoneIsComplete
  /\ Down!SkippedIsKept
  /\ Resumed!SkippedIsKept
  /\ Up!SkippedIsKept

(* ReadJobs: jobs beside each other: a confirmation is for the file that   *)
(* the reader is at, a job that is reported done was sent as a whole, a    *)
(* job that is tracked has a reader, and an error ends the job it belongs  *)
(* to.                                                                     *)
ReadsApart ==
  /\ chosen = "managed" => Managed!ConfirmsItsFile
  /\ chosen = "managed" => Managed!DoneIsWhole
  /\ chosen = "direct" => Direct!DoneIsWhole
  /\ chosen = "managed" => Managed!TrackedIsAlive
  /\ chosen = "managed" => Managed!EndsWithItsError

(* FileTransfer, ReadJobs, AccountLogin: jobs and attempts come to their   *)
(* end, though where the connection reads only if no job failed: its       *)
(* reader waits for an answer that does not come, and the others wait for  *)
(* it.                                                                     *)
TasksEnd ==
  /\ (chosen = "download" => Down!JobEnds)
  /\ (chosen = "upload" => Up!JobEnds)
  /\ (chosen = "managed" => Managed!JobsEnd)
  /\ (chosen = "direct" => Direct!JobsEndUnlessOneFailed)
  /\ AttemptEnds
=============================================================================
