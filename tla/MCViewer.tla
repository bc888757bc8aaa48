------------------------------ MODULE MCViewer ------------------------------
(***************************************************************************)
(* The pictures at the viewer, for TLC: a stream that is recorded, one     *)
(* that is refreshed and switched, and the state of the recording between  *)
(* the threads and the user interface; and the framing of the messages.    *)
(* The components share no state: a behaviour runs one of them, the others *)
(* rest in a first state of theirs, and what holds of each holds of them   *)
(* side by side.                                                           *)
(***************************************************************************)
EXTENDS BytesCodec

VARIABLE chosen     (* the component whose behaviour this is *)

VARIABLES encoder, refresh, user_record, negotiated, record_sent, toClient,
  toHost, receiver, channel, video_queue, discard_queue, record_state, hold,
  decoder, mark_unsupported, shown, recorder, frames, refreshes, switches,
  changes, records, garbled, unjust
record_vars == <<encoder, refresh, user_record, negotiated, record_sent,
  toClient, toHost, receiver, channel, video_queue, discard_queue,
  record_state, hold, decoder, mark_unsupported, shown, recorder, frames,
  refreshes, switches, changes, records, garbled, unjust>>

VARIABLES auto_record, rec_record_state, record_permission,
  last_record_state, updating, video_threads, rec_channel, recording,
  rec_receiver, events, start, offered, waitForFirstImage, rec_toHost,
  rec_toClient, permitted, rec_user_record, rec_frames, toggles,
  permissions, losses, late, glimpsed
rec_vars == <<auto_record, rec_record_state, record_permission,
  last_record_state, updating, video_threads, rec_channel, recording,
  rec_receiver, events, start, offered, waitForFirstImage, rec_toHost,
  rec_toClient, permitted, rec_user_record, rec_frames, toggles,
  permissions, losses, late, glimpsed>>

Two == <<"av1", "vp9">>

Record == INSTANCE ClientVideo WITH VIDEO_QUEUE_SIZE <- 1, Codecs <- Two,
  KeyInterval <- 2, MaxFrames <- 3, MaxRefreshes <- 0, MaxSwitches <- 0,
  MaxChanges <- 0, MaxRecords <- 1, sent <- record_sent

Stops == INSTANCE ClientVideo WITH VIDEO_QUEUE_SIZE <- 1, Codecs <- Two,
  KeyInterval <- 2, MaxFrames <- 2, MaxRefreshes <- 0, MaxSwitches <- 0,
  MaxChanges <- 0, MaxRecords <- 2, sent <- record_sent

Picture == INSTANCE ClientVideo WITH VIDEO_QUEUE_SIZE <- 2, Codecs <- Two,
  KeyInterval <- 2, MaxFrames <- 3, MaxRefreshes <- 0, MaxSwitches <- 1,
  MaxChanges <- 1, MaxRecords <- 0, sent <- record_sent

Rec == INSTANCE Recording WITH Displays <- {0, 1}, MaxFrames <- 1,
  MaxToggles <- 2, MaxPermissions <- 1, MaxLosses <- 0, record_state <-
  rec_record_state, channel <- rec_channel, receiver <- rec_receiver, toHost
  <- rec_toHost, toClient <- rec_toClient, user_record <- rec_user_record,
  frames <- rec_frames

RecLost == INSTANCE Recording WITH Displays <- {0, 1}, MaxFrames <- 1,
  MaxToggles <- 1, MaxPermissions <- 1, MaxLosses <- 1, record_state <-
  rec_record_state, channel <- rec_channel, receiver <- rec_receiver, toHost
  <- rec_toHost, toClient <- rec_toClient, user_record <- rec_user_record,
  frames <- rec_frames

ASSUME PartsAssumption ==
  /\ Record!ClientVideoAssumption
  /\ Stops!ClientVideoAssumption
  /\ Picture!ClientVideoAssumption
  /\ Rec!RecordingAssumption
  /\ RecLost!RecordingAssumption

(* The parts that are idle are in a first state of theirs.                 *)
Begin ==
  /\ chosen \in {"codec", "record", "stops", "picture", "recording", "lost"}
  /\ Init
  /\ IF chosen = "stops" THEN Stops!Init ELSE IF chosen = "picture" THEN
     Picture!Init ELSE Record!Init
  /\ IF chosen = "lost" THEN RecLost!Init ELSE Rec!Init
  /\ chosen \in {"recording", "lost"} \/ (auto_record = FALSE /\ permitted = FALSE)

Step ==
  \/ chosen = "codec" /\ Next /\ UNCHANGED <<chosen, record_vars, rec_vars>>
  \/ chosen = "record" /\ Record!Next /\ UNCHANGED <<chosen, vars, rec_vars>>
  \/ chosen = "stops" /\ Stops!Next /\ UNCHANGED <<chosen, vars, rec_vars>>
  \/ chosen = "picture" /\ Picture!Next /\ UNCHANGED <<chosen, vars,
       rec_vars>>
  \/ chosen = "recording" /\ Rec!Next /\ UNCHANGED <<chosen, vars,
       record_vars>>
  \/ chosen = "lost" /\ RecLost!Next /\ UNCHANGED <<chosen, vars,
       record_vars>>

all_vars == <<chosen, vars, record_vars, rec_vars>>

Parts == Begin /\ [][Step]_all_vars

(* The types of all parts.                                                 *)
TypesOK ==
  /\ TypeOK
  /\ chosen = "record" => Record!TypeOK
  /\ chosen = "recording" => Rec!TypeOK

(* ClientVideo, Recording: a token for each frame in the queue, a picture  *)
(* that cannot be decoded is asked for again, a recording starts with the  *)
(* next key frame, and a recorded file plays from its first frame; once    *)
(* everything is handled the threads record as the user has asked and the  *)
(* peer allows, the peer knows of it, and the user interface shows it.     *)
Pictures ==
  /\ chosen = "picture" => Picture!TokenPerFrame
  /\ chosen = "picture" => Picture!GarbledIsAsked
  /\ chosen = "record" => Record!RecordingStarts
  /\ chosen = "stops" => Stops!RecordingStarts
  /\ chosen = "record" => Record!FilePlays
  /\ chosen = "stops" => Stops!FilePlays
  /\ chosen = "recording" => Rec!ThreadsFollow
  /\ chosen = "recording" => Rec!PeerKnows
  /\ chosen = "lost" => RecLost!UiShows
=============================================================================
