----------------------------- MODULE MCServices -----------------------------
(***************************************************************************)
(* The services of the host, for TLC: the framework with a snapshot and    *)
(* with repeat, the end of the video service, the display service, the two *)
(* audio services, and the end of a terminal. The components share no      *)
(* state: a behaviour runs one of them, the others rest in a first state   *)
(* of theirs, and what holds of each holds of them side by side.           *)
(***************************************************************************)
EXTENDS Service

CONSTANTS c1, c2, d1, d2

VARIABLE chosen     (* the component whose behaviour this is *)

VARIABLES video_subscribes, video_new_subscribes, video_active, video_pc,
  video_joiner, video_connections, video_removed, video_call, vpc, refresh,
  key_next, frame, send_conn_ids, fetched, display_conn_ids, notifier,
  queue, inflight, closing, synced, garbled, adopted, pending, irregular
video_vars == <<video_subscribes, video_new_subscribes, video_active,
  video_pc, video_joiner, video_connections, video_removed, video_call, vpc,
  refresh, key_next, frame, send_conn_ids, fetched, display_conn_ids,
  notifier, queue, inflight, closing, synced, garbled, adopted, pending,
  irregular>>

VARIABLES real, displays, is_synced, temp, holder, display_subscribes,
  display_new_subscribes, loop, msg, conn, known, missed, changes, logins,
  temps
display_vars == <<real, displays, is_synced, temp, holder,
  display_subscribes, display_new_subscribes, loop, msg, conn, known,
  missed, changes, logins, temps>>

VARIABLES voice, option, RESTARTING, stream, opening, audio_pc,
  audio_subscribes, audio_new_subscribes, format, left, late, skipped, sets,
  fails
audio_vars == <<voice, option, RESTARTING, stream, opening, audio_pc,
  audio_subscribes, audio_new_subscribes, format, left, late, skipped, sets,
  fails>>

VARIABLES TERMINAL_SERVICES, service, session, registered, listed, refs,
  stop_pc, input_tx, chan, pty_pair, exiting, child, program, writer,
  reader, input, eof, output, closed_message_sent, ops
stop_vars == <<TERMINAL_SERVICES, service, session, registered, listed,
  refs, stop_pc, input_tx, chan, pty_pair, exiting, child, program, writer,
  reader, input, eof, output, closed_message_sent, ops>>

Repeats == INSTANCE Service WITH Conns <- {c1, c2}, NeedSnapshot <- FALSE,
  Repeat <- TRUE

Video == INSTANCE VideoService WITH Conns <- {c1}, WebConns <- {c1},
  MaxFrames <- 1, subscribes <- video_subscribes, new_subscribes <-
  video_new_subscribes, active <- video_active, pc <- video_pc, joiner <-
  video_joiner, connections <- video_connections, removed <- video_removed,
  call <- video_call

Display == INSTANCE DisplayService WITH Conns <- {c1, c2}, Layouts <- {d1,
  d2}, MaxChanges <- 1, MaxLogins <- 2, MaxTemps <- 1, subscribes <-
  display_subscribes, new_subscribes <- display_new_subscribes

ByCpal == INSTANCE AudioService WITH Subs <- {c1}, Devices <- {d1, d2}, Cpal
  <- TRUE, MaxSets <- 2, MaxFails <- 1, pc <- audio_pc, subscribes <-
  audio_subscribes, new_subscribes <- audio_new_subscribes

ByPulse == INSTANCE AudioService WITH Subs <- {c1}, Devices <- {d1, d2},
  Cpal <- FALSE, MaxSets <- 2, MaxFails <- 1, pc <- audio_pc, subscribes <-
  audio_subscribes, new_subscribes <- audio_new_subscribes

Stop == INSTANCE TerminalStop WITH Tasks <- {c1}, Channel <- 1, PtyBuffer <-
  2, Echo <- TRUE, Reads <- TRUE, MaxOps <- 1, pc <- stop_pc

ASSUME PartsAssumption ==
  /\ Repeats!ServiceAssumption
  /\ Video!VideoAssumption
  /\ Display!DisplayServiceAssumption
  /\ ByCpal!AudioServiceAssumption
  /\ ByPulse!AudioServiceAssumption
  /\ Stop!TerminalStopAssumption

(* The parts that are idle are in a first state of theirs.                 *)
Begin ==
  /\ chosen \in {"service", "repeat", "video", "display", "cpal", "pulse",
       "stop"}
  /\ IF chosen = "repeat" THEN Repeats!Init ELSE Init
  /\ Video!Init
  /\ Display!Init
  /\ chosen = "display" \/ (real = d1)
  /\ IF chosen = "pulse" THEN ByPulse!Init ELSE ByCpal!Init
  /\ chosen \in {"cpal", "pulse"} \/ (option = d1)
  /\ Stop!Init

Step ==
  \/ chosen = "service" /\ Next /\ UNCHANGED <<chosen, video_vars,
       display_vars, audio_vars, stop_vars>>
  \/ chosen = "repeat" /\ Repeats!Next /\ UNCHANGED <<chosen, video_vars,
       display_vars, audio_vars, stop_vars>>
  \/ chosen = "video" /\ Video!Next /\ UNCHANGED <<chosen, vars,
       display_vars, audio_vars, stop_vars>>
  \/ chosen = "display" /\ Display!Next /\ UNCHANGED <<chosen, vars,
       video_vars, audio_vars, stop_vars>>
  \/ chosen = "cpal" /\ ByCpal!Next /\ UNCHANGED <<chosen, vars, video_vars,
       display_vars, stop_vars>>
  \/ chosen = "pulse" /\ ByPulse!Next /\ UNCHANGED <<chosen, vars,
       video_vars, display_vars, stop_vars>>
  \/ chosen = "stop" /\ Stop!Next /\ UNCHANGED <<chosen, vars, video_vars,
       display_vars, audio_vars>>

all_vars == <<chosen, vars, video_vars, display_vars, audio_vars,
  stop_vars>>

Parts == Begin /\ [][Step]_all_vars

(* The fairness of each part, while it is the one that runs.               *)
fair_service ==
  /\ WF_vars(chosen = "service" /\ Thread)
  /\ WF_vars(chosen = "service" /\ (is_subed_new \/ subscribe_act))
  /\ WF_vars(chosen = "service" /\ joined)
  /\ SF_vars(chosen = "service" /\ check_ok)
  /\ SF_vars(chosen = "service" /\ begin_work)

fair_repeat ==
  /\ WF_vars(chosen = "repeat" /\ Repeats!Thread)
  /\ WF_vars(chosen = "repeat" /\ (Repeats!is_subed_new \/
           Repeats!subscribe_act))
  /\ WF_vars(chosen = "repeat" /\ Repeats!joined)

fair_video ==
  /\ WF_video_vars(chosen = "video" /\ Video!Thread /\ ~(vpc = "wait" /\ vpc'
           = "idle"))
  /\ WF_video_vars(chosen = "video" /\ Video!capture_displays_continues)
  /\ WF_video_vars(chosen = "video" /\ Video!S!joined /\ Video!drop_server)

fair_display ==
  /\ WF_display_vars(chosen = "display" /\ Display!enter_run)
  /\ WF_display_vars(chosen = "display" /\ Display!leave_run)
  /\ WF_display_vars(chosen = "display" /\ Display!snapshot)
  /\ WF_display_vars(chosen = "display" /\ Display!check)
  /\ WF_display_vars(chosen = "display" /\ Display!get_displays_msg)
  /\ WF_display_vars(chosen = "display" /\ Display!send)
  /\ WF_display_vars(chosen = "display" /\ Display!release)
  /\ WF_display_vars(chosen = "display" /\ Display!trigger)

fair_cpal ==
  /\ WF_audio_vars(chosen = "cpal" /\ ByCpal!Thread)

fair_pulse ==
  /\ WF_audio_vars(chosen = "pulse" /\ ByPulse!Thread)

fair_stop ==
  /\ \A p \in Stop!Procs : SF_stop_vars(chosen = "stop" /\ Stop!Proceeds(p))
  /\ WF_stop_vars(chosen = "stop" /\ Stop!writer_thread)
  /\ WF_stop_vars(chosen = "stop" /\ Stop!reader_thread)
  /\ WF_stop_vars(chosen = "stop" /\ Stop!program_reads)

FairParts ==
  /\ Parts
  /\ fair_service
  /\ fair_repeat
  /\ fair_video
  /\ fair_display
  /\ fair_cpal
  /\ fair_pulse
  /\ fair_stop

(* The types of all parts.                                                 *)
TypesOK ==
  /\ TypeOK
  /\ chosen = "video" => Video!TypeOK
  /\ chosen = "display" => Display!TypeOK
  /\ chosen = "cpal" => ByCpal!TypeOK
  /\ chosen = "stop" => Stop!TypeOK

(* Service, VideoService, TerminalStop: the server that is dropped joins   *)
(* its services, also while the video service waits for viewers; the       *)
(* threads of a terminal come back.                                        *)
ThreadsEnd ==
  /\ JoinTerminates
  /\ (chosen = "video" => Video!JoinTerminates)
  /\ (chosen = "stop" => Stop!Returns)

(* Service, DisplayService, AudioService: two subscribers that are past    *)
(* their snapshot know the same displays once everything is sent, and one  *)
(* that is sent sound knows its format; a new subscriber is served in the  *)
(* end, is told of the displays as they are, hears, and hears the device   *)
(* that is wanted, but for what a change meets between two steps.          *)
SubscribersServed ==
  /\ [](chosen = "display" => Display!Agree)
  /\ [](chosen = "cpal" => ByCpal!FormatOfStream)
  /\ NewSubscriberServed
  /\ (chosen = "display" => Display!InformedUnlessMissed)
  /\ (chosen = "cpal" => ByCpal!HearsUnlessSkipped)
  /\ (chosen = "cpal" => ByCpal!DeviceFollowsUnlessLate)
  /\ (chosen = "pulse" => ByPulse!DeviceFollows)
=============================================================================
