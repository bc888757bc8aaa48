----------------------------- MODULE MCUpdates ------------------------------
(***************************************************************************)
(* What runs beside the connections, for TLC: the update, the download,    *)
(* the heartbeat, the configuration of two processes, the clipboard loop   *)
(* of a client's sessions, and the keys that the host's input service      *)
(* holds down. The components share no state: a behaviour runs one of      *)
(* them, the others rest in a first state of theirs, and what holds of     *)
(* each holds of them side by side.                                        *)
(***************************************************************************)
EXTENDS Updater

CONSTANTS
  Chunks, MaxCalls,                        (* of the download              *)
  Conns, HeartbeatChanges, HeartbeatFaults, MaxStrategies, Public,
                                           (* of the heartbeat             *)
  Procs, MaxSets, ConfigFaults, Tries,     (* of the configuration         *)
  Tabs, MaxThreads,                        (* of the clipboard loop        *)
  Typists, Keys, Modifiers, MaxEvents      (* of the keys                  *)

VARIABLE chosen     (* the component whose behaviour this is *)

VARIABLES entry, call, download_thread, cancelled, dir, content, dest, got,
  download_ui, calls, updated, deaf, unheard, foreign
download_vars == <<entry, call, download_thread, cancelled, dir, content,
  dest, got, download_ui, calls, updated, deaf, unheard, foreign>>

VARIABLES url, heartbeat_id, username, stopped, info_uploaded,
  last_uploaded, last_sent, heartbeat_pc, request, strategy_timestamp,
  options, conn, inbox, info, strategy, disconnect, heartbeat_changes,
  heartbeat_faults, strategies, missed, torn
heartbeat_vars == <<url, heartbeat_id, username, stopped, info_uploaded,
  last_uploaded, last_sent, heartbeat_pc, request, strategy_timestamp,
  options, conn, inbox, info, strategy, disconnect, heartbeat_changes,
  heartbeat_faults, strategies, missed, torn>>

VARIABLES config_options, set, config, cfg0, phase, i, open, up, down, root,
  root_config, sets, config_faults, raced, overtaken, config_lost
config_vars == <<config_options, set, config, cfg0, phase, i, open, up,
  down, root, root_config, sets, config_faults, raced, overtaken,
  config_lost>>

VARIABLES sessions, clip_pc, running, lock, subscribers, loop, told,
  started, clip_crossed, clip_astray
clip_vars == <<sessions, clip_pc, running, lock, subscribers, loop, told,
  started, clip_crossed, clip_astray>>

VARIABLES on, gone, held, queue, work, KEYS_DOWN, sys, may_reset, events,
  collided, keys_late
keys_vars == <<on, gone, held, queue, work, KEYS_DOWN, sys, may_reset,
  events, collided, keys_late>>

Download == INSTANCE Downloader WITH thread <- download_thread, ui <-
  download_ui

Heartbeat == INSTANCE HeartbeatSync WITH MaxChanges <- HeartbeatChanges,
  MaxFaults <- HeartbeatFaults, id <- heartbeat_id, pc <- heartbeat_pc,
  changes <- heartbeat_changes, faults <- heartbeat_faults

Config == INSTANCE ConfigSync WITH MaxFaults <- ConfigFaults, options <-
  config_options, faults <- config_faults, lost <- config_lost

Clip == INSTANCE ClipboardLoop WITH Sessions <- Tabs, pc <- clip_pc, crossed
  <- clip_crossed, astray <- clip_astray

Input == INSTANCE InputKeys WITH Conns <- Typists, late <- keys_late

ASSUME PartsAssumption ==
  /\ Download!DownloaderAssumption
  /\ Heartbeat!HeartbeatAssumption
  /\ Config!ConfigSyncAssumption
  /\ Clip!ClipboardLoopAssumption
  /\ Input!InputKeysAssumption

(* The parts that are idle are in a first state of theirs.                 *)
Begin ==
  /\ chosen \in {"updater", "download", "heartbeat", "config", "clipboard",
       "keys"}
  /\ Init
  /\ chosen = "updater" \/ (newest = 0)
  /\ Download!Init
  /\ Heartbeat!Init
  /\ chosen = "heartbeat" \/ (url = 1)
  /\ Config!Init
  /\ chosen = "config" \/ (root_config = Config!zero)
  /\ Clip!Init
  /\ Input!Init

Step ==
  \/ chosen = "updater" /\ Next /\ UNCHANGED <<chosen, download_vars,
       heartbeat_vars, config_vars, clip_vars, keys_vars>>
  \/ chosen = "download" /\ Download!Next /\ UNCHANGED <<chosen, vars,
       heartbeat_vars, config_vars, clip_vars, keys_vars>>
  \/ chosen = "heartbeat" /\ Heartbeat!Next /\ UNCHANGED <<chosen, vars,
       download_vars, config_vars, clip_vars, keys_vars>>
  \/ chosen = "config" /\ Config!Next /\ UNCHANGED <<chosen, vars,
       download_vars, heartbeat_vars, clip_vars, keys_vars>>
  \/ chosen = "clipboard" /\ Clip!Next /\ UNCHANGED <<chosen, vars,
       download_vars, heartbeat_vars, config_vars, keys_vars>>
  \/ chosen = "keys" /\ Input!Next /\ UNCHANGED <<chosen, vars,
       download_vars, heartbeat_vars, config_vars, clip_vars>>

all_vars == <<chosen, vars, download_vars, heartbeat_vars, config_vars,
  clip_vars, keys_vars>>

Parts == Begin /\ [][Step]_all_vars

(* The fairness of each part, while it is the one that runs.               *)
fair_updater ==
  /\ WF_vars(chosen = "updater" /\ wake)
  /\ WF_vars(chosen = "updater" /\ check_update)

fair_download ==
  /\ \A c \in Download!Calls :
       /\ WF_download_vars(chosen = "download" /\ Download!Call(c))
       /\ WF_download_vars(chosen = "download" /\ Download!Thread(c))
  /\ WF_download_vars(chosen = "download" /\ Download!_updateDownloadData)
  /\ WF_download_vars(chosen = "download" /\ Download!cancel_waited)
  /\ WF_download_vars(chosen = "download" /\ Download!update_me)

fair_heartbeat ==
  /\ WF_heartbeat_vars(chosen = "heartbeat" /\ Heartbeat!tick)
  /\ WF_heartbeat_vars(chosen = "heartbeat" /\ Heartbeat!sysinfo_answered)
  /\ WF_heartbeat_vars(chosen = "heartbeat" /\ Heartbeat!heartbeat_answered)
  /\ WF_heartbeat_vars(chosen = "heartbeat" /\
           Heartbeat!handle_config_options)
  /\ WF_heartbeat_vars(chosen = "heartbeat" /\
           Heartbeat!UPLOAD_SYSINFO_TIMEOUT)
  /\ WF_heartbeat_vars(chosen = "heartbeat" /\ Heartbeat!TIME_HEARTBEAT)
  /\ \A c \in Conns : WF_heartbeat_vars(chosen = "heartbeat" /\
           Heartbeat!closed_by_console(c))

fair_config ==
  /\ WF_config_vars(chosen = "config" /\ (Config!connect \/
           Config!connect_failed))
  /\ WF_config_vars(chosen = "config" /\ Config!initial_sync)
  /\ WF_config_vars(chosen = "config" /\ Config!initial_timeout)
  /\ WF_config_vars(chosen = "config" /\ Config!sync_to_root)
  /\ WF_config_vars(chosen = "config" /\ Config!sync_answered)
  /\ WF_config_vars(chosen = "config" /\ Config!handle)
  /\ WF_config_vars(chosen = "config" /\ Config!start)

fair_clipboard ==
  /\ \A t \in Clip!Threads : WF_clip_vars(chosen = "clipboard" /\
           Clip!Loop(t))
  /\ \A s \in Tabs :
       /\ WF_clip_vars(chosen = "clipboard" /\ Clip!spawn_loop(s))
       /\ WF_clip_vars(chosen = "clipboard" /\ Clip!try_stop_clipboard(s))
       /\ WF_clip_vars(chosen = "clipboard" /\ Clip!unsubscribe(s))
       /\ SF_clip_vars(chosen = "clipboard" /\ Clip!clear_running(s))

fair_keys ==
  /\ \A c \in Typists : WF_keys_vars(chosen = "keys" /\
           Input!handle_input(c))
  /\ \A t \in Input!Threads : WF_keys_vars(chosen = "keys" /\
           Input!simulate(t))
  /\ WF_keys_vars(chosen = "keys" /\ Input!timeout)
  /\ WF_keys_vars(chosen = "keys" /\ Input!reset)
  /\ \A k \in Keys : WF_keys_vars(chosen = "keys" /\ Input!age(k))

FairParts ==
  /\ Parts
  /\ fair_updater
  /\ fair_download
  /\ fair_heartbeat
  /\ fair_config
  /\ fair_clipboard
  /\ fair_keys

(* The types of all parts.                                                 *)
TypesOK ==
  /\ TypeOK
  /\ chosen = "download" => Download!TypeOK
  /\ chosen = "heartbeat" => Heartbeat!TypeOK
  /\ chosen = "config" => Config!TypeOK
  /\ chosen = "clipboard" => Clip!TypeOK

(* Downloader, HeartbeatSync, ConfigSync: a file that is run was fetched   *)
(* as a whole, by one thread, and one that was cancelled is gone; the      *)
(* timestamp of the options is not newer than they are; options that were  *)
(* set are kept and known.                                                 *)
FetchedWhole ==
  /\ chosen = "download" => Download!UpdateIsWhole
  /\ chosen = "download" => Download!CancelledIsGone
  /\ chosen = "download" => Download!OneWriter
  /\ chosen = "heartbeat" => Heartbeat!TimestampIsTrue
  /\ chosen = "config" => Config!Kept
  /\ chosen = "config" => Config!KnownUnlessLost

(* ClipboardLoop: there is one loop for the sessions and it listens while  *)
(* one of them is on, unless a session started while a loop was on its way *)
(* to its end.                                                             *)
OneForAll ==
  /\ chosen = "clipboard" => Clip!OneLoop
  /\ chosen = "clipboard" => Clip!SharedUnlessCrossed

(* Updater, Downloader, HeartbeatSync, ConfigSync, ClipboardLoop: the      *)
(* newest version is in use at last, a dialog ends, the server knows the   *)
(* host, the host follows its strategy and its disconnects, the processes  *)
(* come to have the same options, and the clipboard loop exits after all   *)
(* sessions have ended.                                                    *)
UpToDate ==
  /\ UpdatedAtLast
  /\ (chosen = "download" => Download!DialogEnds)
  /\ (chosen = "heartbeat" => Heartbeat!InfoFollows)
  /\ (chosen = "heartbeat" => Heartbeat!StrategyFollows)
  /\ (chosen = "heartbeat" => Heartbeat!DisconnectEnds)
  /\ (chosen = "config" => Config!Synced)
  /\ (chosen = "clipboard" => Clip!LoopExits)

(* InputKeys: a key that is down is known to whoever has to release it,    *)
(* and comes up in the end.                                                *)
KeysReleased ==
  /\ [](chosen = "keys" => Input!TypeOK)
  /\ [](chosen = "keys" => Input!Accounted)
  /\ [](chosen = "keys" => Input!ResetReleases)
  /\ (chosen = "keys" => Input!Released)
=============================================================================
