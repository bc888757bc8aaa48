----------------------------- MODULE MCSession ------------------------------
(***************************************************************************)
(* What a connection of the host does, for TLC: the login in three         *)
(* configurations, the permissions in three kinds of session, the displays *)
(* of several windows, the voice call, the terminals, and the listeners of *)
(* a tunnel. The components share no state: a behaviour runs one of them,  *)
(* the others rest in a first state of theirs, and what holds of each      *)
(* holds of them side by side.                                             *)
(***************************************************************************)
EXTENDS Login

CONSTANTS w1, w2, t1, t2

VARIABLE chosen     (* the component whose behaviour this is *)

VARIABLES config, wire, phase, options_in_login, perm, byPeer, subs,
  voice_calling, slips, toggles, switches
perm_vars == <<config, wire, phase, options_in_login, perm, byPeer, subs,
  voice_calling, slips, toggles, switches>>

VARIABLES software, displays_shown, started, stale, textures, creating,
  map_display_sessions, displays_up, toHost, display_idx, captured,
  multi_ui_session, displays_switches, opens, losses, missed, spare
displays_vars == <<software, displays_shown, started, stale, textures,
  creating, map_display_sessions, displays_up, toHost, display_idx,
  captured, multi_ui_session, displays_switches, opens, losses, missed,
  spare>>

VARIABLES status, request_ts, recording, server_ts, voice_voice_calling,
  board, voice_up, voice_down, toCm, fromCm, accepted, last, overlapped,
  requests, clicks
voice_vars == <<status, request_ts, recording, server_ts,
  voice_voice_calling, board, voice_up, voice_down, toCm, fromCm, accepted,
  last, overlapped, requests, clicks>>

VARIABLES svc, sessions, shell, shells, conn, loop, tx, cur, persistent,
  tab, next, got, reused, late, astray
terminal_vars == <<svc, sessions, shell, shells, conn, loop, tx, cur,
  persistent, tab, next, got, reused, late, astray>>

VARIABLES lines, total_size, last_line_incomplete, hung, printed, newlines
buffer_vars == <<lines, total_size, last_line_incomplete, hung, printed,
  newlines>>

VARIABLES window, view, sent, answered, rows, pty, redraw_phase, app,
  signal, windows, resizes, fails, owed, touched, gaveUp, unsaid
redraw_vars == <<window, view, sent, answered, rows, pty, redraw_phase, app,
  signal, windows, resizes, fails, owed, touched, gaveUp, unsaid>>

VARIABLES listen_config, receiver, queues, port, st, ui_receiver, lc,
  listen_asked, request, forwards, accepts, logins, crossed, deaf
listen_vars == <<listen_config, receiver, queues, port, st, ui_receiver, lc,
  listen_asked, request, forwards, accepts, logins, crossed, deaf>>

VARIABLES TERMINAL_SERVICES, service, stop_session, registered, listed,
  refs, pc, input_tx, chan, pty_pair, exiting, child, program, writer,
  reader, input, eof, output, closed_message_sent, ops
stop_vars == <<TERMINAL_SERVICES, service, stop_session, registered, listed,
  refs, pc, input_tx, chan, pty_pair, exiting, child, program, writer,
  reader, input, eof, output, closed_message_sent, ops>>

Permanently == INSTANCE Login WITH ApproveMode <- "password",
  TemporaryEnabled <- TRUE, PermanentEnabled <- TRUE, TwoFactor <- TRUE,
  MaxTemp <- 2, MaxEvents <- 2

Clicked == INSTANCE Login WITH ApproveMode <- "click", TemporaryEnabled <-
  TRUE, PermanentEnabled <- FALSE, TwoFactor <- TRUE, MaxTemp <- 2,
  MaxEvents <- 2

Perm == INSTANCE Permissions WITH Camera <- FALSE, WaitSid <- FALSE,
  MaxToggles <- 1, MaxSwitches <- 2

Sid == INSTANCE Permissions WITH Camera <- FALSE, WaitSid <- TRUE,
  MaxToggles <- 1, MaxSwitches <- 1

Cam == INSTANCE Permissions WITH Camera <- TRUE, WaitSid <- FALSE,
  MaxToggles <- 1, MaxSwitches <- 2

Displays == INSTANCE CaptureDisplays WITH Windows <- {w1, w2}, First <- w1,
  N <- 3, MaxSwitches <- 1, MaxOpens <- 1, MaxLosses <- 1, MaxBehind <- 1,
  shown <- displays_shown, up <- displays_up, switches <- displays_switches

Voice == INSTANCE VoiceCall WITH MaxRequests <- 3, MaxClicks <- 4,
  voice_calling <- voice_voice_calling, up <- voice_up, down <- voice_down

Terminal == INSTANCE TerminalService WITH Terminals <- {1, 2}, MaxShells <-
  2, MaxOut <- 1, Channel <- 1, MaxConns <- 2, Lingers <- FALSE, Idles <-
  FALSE, Reconnects <- FALSE

Replay == INSTANCE TerminalService WITH Terminals <- {1}, MaxShells <- 2,
  MaxOut <- 2, Channel <- 1, MaxConns <- 2, Lingers <- FALSE, Idles <-
  FALSE, Reconnects <- FALSE

Buffer == INSTANCE OutputBuffer WITH MAX_OUTPUT_BUFFER_SIZE <- 5,
  MAX_BUFFER_LINES <- 2, MaxChunk <- 3, Width <- 4, MaxBytes <- 10

Redraw == INSTANCE TerminalRedraw WITH Sizes <- {2, 3, 4}, Attempts <- 3,
  MaxWindows <- 2, MaxResizes <- 2, MaxFails <- 3, Early <- TRUE, phase <-
  redraw_phase

Listen == INSTANCE PortForwardListen WITH Ports <- {"a", "b"}, MaxListeners
  <- 2, MaxAccepts <- 2, MaxLogins <- 1, config <- listen_config, asked <-
  listen_asked

Stop == INSTANCE TerminalStop WITH Tasks <- {t1, t2}, Channel <- 1,
  PtyBuffer <- 2, Echo <- TRUE, Reads <- TRUE, MaxOps <- 2, session <-
  stop_session

ASSUME PartsAssumption ==
  /\ Permanently!LoginAssumption
  /\ Clicked!LoginAssumption
  /\ Perm!PermissionsAssumption
  /\ Sid!PermissionsAssumption
  /\ Cam!PermissionsAssumption
  /\ Displays!CaptureDisplaysAssumption
  /\ Voice!VoiceCallAssumption
  /\ Terminal!TerminalServiceAssumption
  /\ Replay!TerminalServiceAssumption
  /\ Buffer!OutputBufferAssumption
  /\ Redraw!TerminalRedrawAssumption
  /\ Listen!PortForwardListenAssumption
  /\ Stop!TerminalStopAssumption

(* The parts that are idle are in a first state of theirs.                 *)
Begin ==
  /\ chosen \in {"login", "permanent", "click", "permissions", "sid",
       "camera", "displays", "voice", "terminal", "replay", "buffer",
       "redraw", "listen", "stop"}
  /\ IF chosen = "permanent" THEN Permanently!Init ELSE IF chosen = "click"
     THEN Clicked!Init ELSE Init
  /\ chosen \in {"login", "permanent", "click"} \/ (saved = 0)
  /\ IF chosen = "sid" THEN Sid!Init ELSE IF chosen = "camera" THEN Cam!Init
     ELSE Perm!Init
  /\ chosen \in {"permissions", "sid", "camera"} \/ (perm = [p \in Perm!PermNames |-> FALSE] /\ config = [t \in Perm!Toggles |-> FALSE])
  /\ Displays!Init
  /\ chosen = "displays" \/ (software = FALSE)
  /\ Voice!Init
  /\ IF chosen = "replay" THEN Replay!Init ELSE Terminal!Init
  /\ chosen \in {"terminal", "replay"} \/ (persistent = FALSE)
  /\ Buffer!Init
  /\ Redraw!Init
  /\ chosen = "redraw" \/ (view = 2)
  /\ Listen!Init
  /\ Stop!Init

Step ==
  \/ chosen = "login" /\ Next /\ UNCHANGED <<chosen, perm_vars,
       displays_vars, voice_vars, terminal_vars, buffer_vars, redraw_vars,
       listen_vars, stop_vars>>
  \/ chosen = "permanent" /\ Permanently!Next /\ UNCHANGED <<chosen,
       perm_vars, displays_vars, voice_vars, terminal_vars, buffer_vars,
       redraw_vars, listen_vars, stop_vars>>
  \/ chosen = "click" /\ Clicked!Next /\ UNCHANGED <<chosen, perm_vars,
       displays_vars, voice_vars, terminal_vars, buffer_vars, redraw_vars,
       listen_vars, stop_vars>>
  \/ chosen = "permissions" /\ Perm!Next /\ UNCHANGED <<chosen, vars,
       displays_vars, voice_vars, terminal_vars, buffer_vars, redraw_vars,
       listen_vars, stop_vars>>
  \/ chosen = "sid" /\ Sid!Next /\ UNCHANGED <<chosen, vars, displays_vars,
       voice_vars, terminal_vars, buffer_vars, redraw_vars, listen_vars,
       stop_vars>>
  \/ chosen = "camera" /\ Cam!Next /\ UNCHANGED <<chosen, vars,
       displays_vars, voice_vars, terminal_vars, buffer_vars, redraw_vars,
       listen_vars, stop_vars>>
  \/ chosen = "displays" /\ Displays!Next /\ UNCHANGED <<chosen, vars,
       perm_vars, voice_vars, terminal_vars, buffer_vars, redraw_vars,
       listen_vars, stop_vars>>
  \/ chosen = "voice" /\ Voice!Next /\ UNCHANGED <<chosen, vars, perm_vars,
       displays_vars, terminal_vars, buffer_vars, redraw_vars, listen_vars,
       stop_vars>>
  \/ chosen = "terminal" /\ Terminal!Next /\ UNCHANGED <<chosen, vars,
       perm_vars, displays_vars, voice_vars, buffer_vars, redraw_vars,
       listen_vars, stop_vars>>
  \/ chosen = "replay" /\ Replay!Next /\ UNCHANGED <<chosen, vars, perm_vars,
       displays_vars, voice_vars, buffer_vars, redraw_vars, listen_vars,
       stop_vars>>
  \/ chosen = "buffer" /\ Buffer!Next /\ UNCHANGED <<chosen, vars, perm_vars,
       displays_vars, voice_vars, terminal_vars, redraw_vars, listen_vars,
       stop_vars>>
  \/ chosen = "redraw" /\ Redraw!Next /\ UNCHANGED <<chosen, vars, perm_vars,
       displays_vars, voice_vars, terminal_vars, buffer_vars, listen_vars,
       stop_vars>>
  \/ chosen = "listen" /\ Listen!Next /\ UNCHANGED <<chosen, vars, perm_vars,
       displays_vars, voice_vars, terminal_vars, buffer_vars, redraw_vars,
       stop_vars>>
  \/ chosen = "stop" /\ Stop!Next /\ UNCHANGED <<chosen, vars, perm_vars,
       displays_vars, voice_vars, terminal_vars, buffer_vars, redraw_vars,
       listen_vars>>

all_vars == <<chosen, vars, perm_vars, displays_vars, voice_vars,
  terminal_vars, buffer_vars, redraw_vars, listen_vars, stop_vars>>

Parts == Begin /\ [][Step]_all_vars

(* The types of all parts.                                                 *)
TypesOK ==
  /\ TypeOK
  /\ chosen = "permissions" => Perm!TypeOK
  /\ chosen = "displays" => Displays!TypeOK
  /\ chosen = "voice" => Voice!TypeOK
  /\ chosen = "terminal" => Terminal!TypeOK
  /\ chosen = "buffer" => Buffer!TypeOK
  /\ chosen = "redraw" => Redraw!TypeOK
  /\ chosen = "listen" => Listen!TypeOK
  /\ chosen = "stop" => Stop!TypeOK

(* Permissions, CaptureDisplays, VoiceCall, PortForwardListen: once        *)
(* everything is handled a connection is subscribed to what its            *)
(* permissions and options allow, the three parties have the same options, *)
(* one that only views sends nothing, and a camera has its own sound; the  *)
(* host captures every display that a window shows and no other, with the  *)
(* exceptions that the history variables name; the parties agree whether   *)
(* there is a call, a stop is final, and nothing is recorded but what the  *)
(* user of the host has accepted; what is accepted at a forwarded port is  *)
(* connected to its target and no login answers the challenge of another,  *)
(* as long as no two listeners are at their logins at once, and a port has *)
(* one listener.                                                           *)
PartiesAgree ==
  /\ [](chosen = "permissions" => Perm!SubscribedAsAllowed)
  /\ [](chosen = "sid" => Sid!SubscribedAsAllowed)
  /\ [](chosen = "permissions" => Perm!OptionsInSync)
  /\ [](chosen = "permissions" => Perm!ViewOnlyIsQuiet)
  /\ [](chosen = "camera" => Cam!CameraAudio)
  /\ [](chosen = "displays" => Displays!OthersKeptUnlessMissed)
  /\ [](chosen = "displays" => Displays!NoneSpare)
  /\ [](chosen = "displays" => Displays!FollowsOne)
  /\ [](chosen = "voice" => Voice!BoardAgrees)
  /\ [](chosen = "voice" => Voice!Agreement)
  /\ [](chosen = "voice" => Voice!StopIsFinal)
  /\ Voice!RecordsWhatWasAccepted
  /\ [](chosen = "listen" => Listen!RightTargetUnlessCrossed)
  /\ [](chosen = "listen" => Listen!OnePerPort)

(* TerminalService, OutputBuffer, TerminalRedraw, TerminalStop: what a tab *)
(* shows has no gap and nothing twice, a tab that takes its terminal for   *)
(* open is served, an end is told once it is counted as told, and what is  *)
(* kept for the replay is the end of the output; after a redraw the        *)
(* terminal has the size of the view; of one that was closed no thread or  *)
(* process is left.                                                        *)
TerminalsTell ==
  /\ chosen = "terminal" => Terminal!ReplayIsContiguous
  /\ chosen = "replay" => Replay!ReplayIsContiguous
  /\ chosen = "terminal" => Terminal!OpenTabIsLive
  /\ chosen = "replay" => Replay!OpenTabIsLive
  /\ chosen = "terminal" => Terminal!EndIsTold
  /\ chosen = "replay" => Replay!EndIsTold
  /\ chosen = "buffer" => Buffer!KeepsTheEnd
  /\ chosen = "buffer" => Buffer!RecentIsTheEnd
  /\ chosen = "redraw" => Redraw!SizeRestored
  /\ chosen = "redraw" => Redraw!SizeTold
  /\ chosen = "stop" => Stop!NothingLeft
=============================================================================
