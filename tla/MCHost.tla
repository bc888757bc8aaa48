------------------------------- MODULE MCHost -------------------------------
(***************************************************************************)
(* The host, for TLC: the requests of peers for it, and its pictures: the  *)
(* capture by the helper process, the rate of the pictures with one viewer *)
(* and with two, the pictures until they are shown, and the privacy mode.  *)
(* The components share no state: a behaviour runs one of them, the others *)
(* rest in a first state of theirs, and what holds of each holds of them   *)
(* side by side.                                                           *)
(***************************************************************************)
EXTENDS PeerRequests

CONSTANTS
  Controllers, Async, MaxToggles, PrivacyFaults,     (* of the privacy mode *)
  Viewers, MIN_SAMPLES, WINDOW_SAMPLES,              (* of the rate         *)
  Delays, Customs, Qualities, Ordered,
  TogetherChanges, TogetherOptions, MaxOpens         (* with several        *)

VARIABLE chosen     (* the component whose behaviour this is *)

VARIABLES conn_id, lock, st, task, job, down, shown, ci, toggles, faults,
  ousted, missed
privacy_vars == <<conn_id, lock, st, task, job, down, shown, ci, toggles,
  faults, ousted, missed>>

VARIABLES fps, users, fresh, net, asked, due, changes, options, opens
qos_vars == <<fps, users, fresh, net, asked, due, changes, options, opens>>

VARIABLES encoder, refresh, user_record, negotiated, sent, toClient, toHost,
  receiver, channel, video_queue, discard_queue, record_state, hold,
  decoder, mark_unsupported, shown_shown, recorder, frames, refreshes,
  switches, shown_changes, records, garbled, unjust
shown_vars == <<encoder, refresh, user_record, negotiated, sent, toClient,
  toHost, receiver, channel, video_queue, discard_queue, record_state, hold,
  decoder, mark_unsupported, shown_shown, recorder, frames, refreshes,
  switches, shown_changes, records, garbled, unjust>>

VARIABLES size, para, wptr, rptr, info, spc, read, iw, capture_c,
  last_current_display, first_frame_captured, cpc, width, capture_asked,
  copy, lost, news, resizes, errors, timeouts
capture_vars == <<size, para, wptr, rptr, info, spc, read, iw, capture_c,
  last_current_display, first_frame_captured, cpc, width, capture_asked,
  copy, lost, news, resizes, errors, timeouts>>

Two == <<"av1", "vp9">>

Privacy == INSTANCE PrivacyMode WITH Conns <- Controllers, MaxFaults <-
  PrivacyFaults

One == INSTANCE VideoQoS WITH Conns <- Viewers, Delays <- {0, 100, 260},
  MIN_FPS <- 1, MAX_FPS <- 120, FPS <- 30, INIT_FPS <- 15, Customs <- {20},
  Qualities <- {"best"}, Ordered <- FALSE, MaxChanges <- 1, MaxOptions <- 1,
  MaxOpens <- 1

Both == INSTANCE VideoQoS WITH Conns <- Viewers, MIN_FPS <- 1, MAX_FPS <-
  120, FPS <- 30, INIT_FPS <- 15, MaxChanges <- TogetherChanges, MaxOptions
  <- TogetherOptions

Shown == INSTANCE ClientVideo WITH VIDEO_QUEUE_SIZE <- 1, Codecs <- Two,
  KeyInterval <- 2, MaxFrames <- 2, MaxRefreshes <- 1, MaxSwitches <- 1,
  MaxChanges <- 0, MaxRecords <- 0, shown <- shown_shown, changes <-
  shown_changes

Capture == INSTANCE PortableCapture WITH MaxI <- 2, MaxNews <- 1, MaxResizes
  <- 1, MaxErrors <- 1, MaxTimeouts <- 1, c <- capture_c, asked <-
  capture_asked

ASSUME PartsAssumption ==
  /\ Privacy!PrivacyModeAssumption
  /\ One!VideoQoSAssumption
  /\ Both!VideoQoSAssumption
  /\ Shown!ClientVideoAssumption
  /\ Capture!PortableCaptureAssumption

(* The parts that are idle are in a first state of theirs.                 *)
Begin ==
  /\ chosen \in {"requests", "privacy", "one", "together", "shown",
       "capture"}
  /\ Init
  /\ Privacy!Init
  /\ IF chosen = "together" THEN Both!Init ELSE One!Init
  /\ chosen \in {"one", "together"} \/ (net = [c \in Viewers |-> 0])
  /\ Shown!Init
  /\ Capture!Init

Step ==
  \/ chosen = "requests" /\ Next /\ UNCHANGED <<chosen, privacy_vars,
       qos_vars, shown_vars, capture_vars>>
  \/ chosen = "privacy" /\ Privacy!Next /\ UNCHANGED <<chosen, vars,
       qos_vars, shown_vars, capture_vars>>
  \/ chosen = "one" /\ One!Next /\ UNCHANGED <<chosen, vars, privacy_vars,
       shown_vars, capture_vars>>
  \/ chosen = "together" /\ Both!Next /\ UNCHANGED <<chosen, vars,
       privacy_vars, shown_vars, capture_vars>>
  \/ chosen = "shown" /\ Shown!Next /\ UNCHANGED <<chosen, vars,
       privacy_vars, qos_vars, capture_vars>>
  \/ chosen = "capture" /\ Capture!Next /\ UNCHANGED <<chosen, vars,
       privacy_vars, qos_vars, shown_vars>>

all_vars == <<chosen, vars, privacy_vars, qos_vars, shown_vars,
  capture_vars>>

Parts == Begin /\ [][Step]_all_vars

(* The fairness of each part, while it is the one that runs.               *)
fair_privacy ==
  /\ WF_privacy_vars(chosen = "privacy" /\
           Privacy!check_privacy_mode_changed)
  /\ \A c \in Controllers :
       /\ WF_privacy_vars(chosen = "privacy" /\ Privacy!job_lock(c))
       /\ WF_privacy_vars(chosen = "privacy" /\ Privacy!job_done(c))
       /\ WF_privacy_vars(chosen = "privacy" /\ Privacy!answer(c))
       /\ WF_privacy_vars(chosen = "privacy" /\ Privacy!answer_late(c))
       /\ WF_privacy_vars(chosen = "privacy" /\ Privacy!exit_by_other(c))
       /\ WF_privacy_vars(chosen = "privacy" /\
           Privacy!handle_back_msg_privacy_mode(c))

fair_capture ==
  /\ WF_capture_vars(chosen = "capture" /\ Capture!Writer)
  /\ SF_capture_vars(chosen = "capture" /\ Capture!capture)
  /\ WF_capture_vars(chosen = "capture" /\ (Capture!request \/
           Capture!write_timeout \/ Capture!skip_frame \/ Capture!frame))
  /\ SF_capture_vars(chosen = "capture" /\ Capture!counter_ready)
  /\ SF_capture_vars(chosen = "capture" /\ Capture!Stale /\ Capture!memset)

fair_one ==
  /\ WF_qos_vars(chosen = "one" /\ One!second)
  /\ \A c \in Viewers :
       /\ WF_qos_vars(chosen = "one" /\ One!test_delay_tick(c))
       /\ WF_qos_vars(chosen = "one" /\ One!user_network_delay(c))

fair_together ==
  /\ WF_qos_vars(chosen = "together" /\ Both!second)
  /\ \A c \in Viewers :
       /\ WF_qos_vars(chosen = "together" /\ Both!test_delay_tick(c))
       /\ WF_qos_vars(chosen = "together" /\ Both!user_network_delay(c))

fair_shown ==
  /\ WF_shown_vars(chosen = "shown" /\ Shown!Restart(FALSE))
  /\ WF_shown_vars(chosen = "shown" /\ encoder.pts = 0 /\
           Shown!handle_one_frame)
  /\ WF_shown_vars(chosen = "shown" /\ Shown!on_message)
  /\ WF_shown_vars(chosen = "shown" /\ Shown!handle_msg_from_peer)
  /\ WF_shown_vars(chosen = "shown" /\ Shown!handle_msg_from_ui)
  /\ WF_shown_vars(chosen = "shown" /\ Shown!Thread)

FairParts ==
  /\ Parts
  /\ fair_privacy
  /\ fair_capture
  /\ fair_one
  /\ fair_together
  /\ fair_shown

(* The types of all parts.                                                 *)
TypesOK ==
  /\ TypeOK
  /\ chosen = "privacy" => Privacy!TypeOK
  /\ chosen = "one" => One!TypeOK
  /\ chosen = "shown" => Shown!TypeOK
  /\ chosen = "capture" => Capture!TypeOK

(* VideoQoS, PrivacyMode: while the answer of a user is overdue nobody     *)
(* gets more than two frames a second; who is told to have the privacy     *)
(* mode has it, and alone sees the screen unless a start or a login came   *)
(* in between.                                                             *)
HostAgrees ==
  /\ chosen = "together" => Both!StallSlows
  /\ chosen = "privacy" => Privacy!ShownTruly
  /\ chosen = "privacy" => Privacy!AloneUnlessMissed

(* PortableCapture, ClientVideo, VideoQoS, PrivacyMode: what the reader    *)
(* has asked for last is captured in the end unless its request was lost,  *)
(* frames go on coming and the last picture is shown; with a good network  *)
(* the rate of a single user gets to the highest that is allowed, and that *)
(* of several to the normal one; the others leave the one who has the      *)
(* privacy mode alone.                                                     *)
PicturesFlow ==
  /\ (chosen = "capture" => Capture!CapturesWhatIsAsked)
  /\ (chosen = "capture" => Capture!FramesFlow)
  /\ (chosen = "shown" => Shown!LastIsShown)
  /\ (chosen = "one" => One!Recovers)
  /\ (chosen = "together" => Both!NormalTogether)
  /\ (chosen = "privacy" => Privacy!OthersLeave)
=============================================================================
