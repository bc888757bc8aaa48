---------------------------- MODULE AudioService ----------------------------
(***************************************************************************)
(* The sound of the host: src/src/server/audio_service.rs.  One thread     *)
(* opens the input device that is wanted, in a round of                    *)
(* GenericService::repeat (cpal: Windows, macOS) or inside the callback of *)
(* GenericService::run (pulse audio: Linux), and tells the format of the   *)
(* device to the subscribers; a thread of the device sends them the sound. *)
(* Voice calls, the user and the options change the device that is wanted  *)
(* from other threads, with no lock but the flag RESTARTING.               *)
(*                                                                         *)
(* A device stands for its format.  The sound itself is not modelled: who  *)
(* is subscribed gets it, and a client that was never told a format has no *)
(* decoder and plays nothing (handle_frame in src/src/client.rs).          *)
(***************************************************************************)
EXTENDS Naturals, FiniteSets

CONSTANTS
  Subs,        (* ids of subscribers, each used once                        *)
  Devices,     (* input devices                                             *)
  Cpal,        (* cpal (else pulse audio)                                   *)
  MaxSets,     (* bound: calls that may change the device                   *)
  MaxFails     (* bound: failures to open a device                          *)

(* Assumed of the constants by every module that gives them values. *)
AudioServiceAssumption ==
  /\ Devices # {} /\ "none" \notin Devices
  /\ Cpal \in BOOLEAN /\ {MaxSets, MaxFails} \subseteq Nat

VARIABLES
  voice,       (* VOICE_CALL_INPUT_DEVICE                                   *)
  option,      (* the option audio-input                                    *)
  RESTARTING,
  stream,      (* the device that is open                                   *)
  opening,     (* the device that get_device has read                       *)
  pc,          (* where the thread is                                       *)
  subscribes, new_subscribes,
  format,      (* the format that a subscriber was told last                *)
  left,        (* those that have unsubscribed                              *)
  late,        (* history: the device was changed after it was read, while a
                  restart was under way                                     *)
  skipped,     (* history: subscribers that a snapshot swaps in untold: they
                  came after the format was sent, or no device opened       *)
  sets, fails

wish == <<voice, option>>
subs == <<subscribes, new_subscribes>>
told == <<format, skipped>>
bounds == <<sets, fails>>
vars == <<wish, RESTARTING, stream, opening, pc, subs, told, left, late, bounds>>

Init ==
  /\ voice = "none" /\ option \in Devices
  /\ RESTARTING = FALSE /\ stream = "none" /\ opening = "none" /\ pc = "head"
  /\ subscribes = {} /\ new_subscribes = {} /\ left = {}
  /\ format = [s \in Subs |-> "none"] /\ late = FALSE /\ skipped = {}
  /\ sets = 0 /\ fails = 0

-----------------------------------------------------------------------------
(* The other threads.                                                       *)

get_audio_input == IF voice # "none" THEN voice ELSE option

Restarts == {"re_opening", "re_send", "re_done"}

(* Mutant: the device is changed and the service goes on.                   *)
restart_never == UNCHANGED <<RESTARTING, late>>

(* restart() does nothing when a restart is under way.                      *)
restart ==
  /\ RESTARTING' = TRUE
  /\ late' = (late \/ (RESTARTING /\ pc \in Restarts))

set_voice_call_input_device(device, set_if_present) ==
  /\ sets < MaxSets /\ sets' = sets + 1
  /\ set_if_present \/ voice = "none"
  /\ voice # device /\ voice' = device
  /\ restart
  /\ UNCHANGED <<option, stream, opening, pc, subs, told, left, fails>>

set_audio_input ==
  /\ sets < MaxSets /\ sets' = sets + 1
  /\ option' \in Devices \ {option}
  /\ restart
  /\ UNCHANGED <<voice, stream, opening, pc, subs, told, left, fails>>

on_subscribe(s) ==
  /\ s \notin subscribes \cup new_subscribes \cup left
  /\ new_subscribes' = new_subscribes \cup {s}
  /\ skipped' = IF pc = "swap" THEN skipped \cup {s} ELSE skipped
  /\ UNCHANGED <<wish, RESTARTING, stream, opening, pc, subscribes, format, left, late, bounds>>

on_unsubscribe(s) ==
  /\ s \in subscribes \cup new_subscribes
  /\ subscribes' = subscribes \ {s} /\ new_subscribes' = new_subscribes \ {s}
  /\ left' = left \cup {s}
  /\ UNCHANGED <<wish, RESTARTING, stream, opening, pc, told, late, bounds>>

-----------------------------------------------------------------------------
(* What both threads do.                                                    *)

others == <<wish, left, sets>>

tell(who) == format' = [s \in Subs |-> IF s \in who THEN stream ELSE format[s]]

(* The input is read, long before the device is open.                       *)
read_input(from, to) ==
  /\ pc = from /\ pc' = to
  /\ opening' = get_audio_input /\ late' = FALSE
  /\ UNCHANGED <<others, RESTARTING, stream, subs, told, fails>>

opened(from, to) ==
  /\ pc = from /\ pc' = to
  /\ stream' = opening
  /\ UNCHANGED <<others, RESTARTING, opening, subs, told, late, fails>>

(* The callback fails, and a ServiceSwap that it has is dropped.            *)
open_fails(from, to) ==
  /\ fails < MaxFails /\ fails' = fails + 1
  /\ pc = from /\ pc' = to
  /\ skipped' = IF to = "swap" THEN skipped \cup new_subscribes ELSE skipped
  /\ UNCHANGED <<others, RESTARTING, stream, opening, subs, format, late>>

(* Mutant: somebody who is not new is told, and the new ones are not.       *)
send_format_old ==
  /\ pc = "send" /\ pc' = "swap"
  /\ tell(subscribes)
  /\ UNCHANGED <<others, RESTARTING, stream, opening, subs, skipped, late, fails>>

(* sps.send_shared in the snapshot                                          *)
send_format ==
  /\ pc = "send" /\ pc' = "swap"
  /\ tell(new_subscribes)
  /\ UNCHANGED <<others, RESTARTING, stream, opening, subs, skipped, late, fails>>

(* Mutant: the new ones stay new.                                           *)
drop_swap_kept(from, to) ==
  /\ pc = from /\ pc' = to
  /\ subscribes' = subscribes \cup new_subscribes
  /\ UNCHANGED <<others, new_subscribes, told, RESTARTING, stream, opening, late, fails>>

(* Drop for ServiceSwap, with the subscribers of this moment.  The round    *)
(* ends, or the restart goes on.                                            *)
drop_swap(from, to) ==
  /\ pc = from /\ pc' = to
  /\ subscribes' = subscribes \cup new_subscribes /\ new_subscribes' = {}
  /\ UNCHANGED <<others, RESTARTING, stream, opening, told, late, fails>>

-----------------------------------------------------------------------------
(* cpal: one round of repeat.                                               *)

(* A round with subscribers: run_serv_snapshot or run_restart.              *)
run ==
  /\ pc = "head" /\ subscribes \cup new_subscribes # {}
  /\ \/ RESTARTING /\ stream' = "none" /\ pc' = "re_snapshot"
     \/ /\ ~RESTARTING /\ new_subscribes # {}
        /\ pc' = IF stream = "none" THEN "read" ELSE "send"
        /\ UNCHANGED stream
  /\ UNCHANGED <<others, RESTARTING, opening, subs, told, late, fails>>

(* A round without.                                                         *)
reset ==
  /\ pc = "head" /\ subscribes \cup new_subscribes = {} /\ stream # "none"
  /\ stream' = "none"
  /\ UNCHANGED <<others, RESTARTING, opening, pc, subs, told, late, fails>>

run_serv_snapshot ==
  \/ read_input("read", "opening")
  \/ opened("opening", "send")
  \/ open_fails("opening", "swap")
  \/ send_format
  \/ drop_swap("swap", "head")

(* Mutant: the new format is told to nobody.                                *)
send_shared_not ==
  /\ pc = "re_send" /\ pc' = "re_done"
  /\ UNCHANGED <<others, told, RESTARTING, stream, opening, subs, late, fails>>

(* sp.send_shared after the device was opened again                         *)
send_shared ==
  /\ pc = "re_send" /\ pc' = "re_done"
  /\ tell(subscribes) /\ skipped' = skipped \ subscribes
  /\ UNCHANGED <<others, RESTARTING, stream, opening, subs, late, fails>>

restarted ==
  /\ pc = "re_done" /\ pc' = "head"
  /\ RESTARTING' = FALSE
  /\ UNCHANGED <<others, stream, opening, subs, told, late, fails>>

run_restart ==
  \/ drop_swap("re_snapshot", "re_read")
  \/ read_input("re_read", "re_opening")
  \/ opened("re_opening", "re_send")
  \/ open_fails("re_opening", "head")
  \/ send_shared
  \/ restarted

-----------------------------------------------------------------------------
(* Pulse audio: run clears the flag first, then asks the process _pa for    *)
(* the device and loops until a restart or until nobody listens.            *)

pa_clear ==
  /\ pc = "head" /\ subscribes \cup new_subscribes # {}
  /\ RESTARTING' = FALSE /\ pc' = "pa_connect"
  /\ UNCHANGED <<others, stream, opening, subs, told, late, fails>>

(* Mutant: the loop does not look at the flag.                              *)
pa_loop_deaf ==
  /\ pc = "pa_loop"
  /\ \/ subscribes \cup new_subscribes = {} /\ pc' = "head" /\ stream' = "none"
     \/ new_subscribes # {} /\ pc' = "send" /\ UNCHANGED stream
  /\ UNCHANGED <<others, RESTARTING, opening, subs, told, late, fails>>

pa_loop ==
  /\ pc = "pa_loop"
  /\ \/ /\ RESTARTING \/ subscribes \cup new_subscribes = {}
        /\ pc' = "head" /\ stream' = "none"
     \/ /\ ~RESTARTING /\ new_subscribes # {}
        /\ pc' = "send" /\ UNCHANGED stream
  /\ UNCHANGED <<others, RESTARTING, opening, subs, told, late, fails>>

pa_run ==
  \/ pa_clear
  \/ open_fails("pa_connect", "head")
  \/ read_input("pa_connect", "pa_open")
  \/ opened("pa_open", "pa_loop")
  \/ pa_loop
  \/ send_format
  \/ drop_swap("swap", "pa_loop")

-----------------------------------------------------------------------------
Thread == IF Cpal THEN run \/ reset \/ run_serv_snapshot \/ run_restart ELSE pa_run

Next ==
  \/ \E d \in Devices : set_voice_call_input_device(d, FALSE)   (* a call starts *)
  \/ \E d \in Devices : set_voice_call_input_device(d, TRUE)    (* the user picks *)
  \/ set_voice_call_input_device("none", TRUE)                  (* a call ends *)
  \/ set_audio_input
  \/ \E s \in Subs : on_subscribe(s) \/ on_unsubscribe(s)
  \/ Thread

(* The thread is one of the operating system; MaxFails says that a device   *)
(* opens at last.                                                           *)
Spec == Init /\ [][Next]_vars /\ WF_vars(Thread)

-----------------------------------------------------------------------------
(* A subscriber is in one map; only one that has left or was swapped in by  *)
(* a snapshot has been told a format, or a device is open that nobody told. *)
TypeOK ==
  /\ {voice, stream, opening} \subseteq Devices \cup {"none"} /\ option \in Devices
  /\ {RESTARTING, late} \subseteq BOOLEAN
  /\ pc \in {"head", "read", "opening", "send", "swap"} \cup Restarts
            \cup {"re_snapshot", "re_read", "pa_connect", "pa_open", "pa_loop"}
  /\ subscribes \cap new_subscribes = {} /\ (subscribes \cup new_subscribes) \cap left = {}
  /\ format \in [Subs -> Devices \cup {"none"}]
  /\ sets <= MaxSets /\ fails <= MaxFails

(* Between two rounds of cpal every subscriber knows the format of the      *)
(* sound that it is sent, however the device was changed, except one that a *)
(* snapshot has skipped: because it came between the sending of the format  *)
(* and the swap, or because the device did not open.                        *)
FormatOfStream ==
  (pc = "head" /\ stream # "none")
    => \A s \in subscribes \ skipped : format[s] = stream

(* Who has subscribed is told a format, or leaves, unless a snapshot has    *)
(* skipped it.                                                              *)
HearsUnlessSkipped ==
  \A s \in Subs : s \in new_subscribes ~> (format[s] # "none" \/ s \in left \cup skipped)

(* "C can change the input device manually in cm interface": once nothing   *)
(* changes any more, the sound that is sent is that of the device that is   *)
(* wanted.                                                                  *)
InUse == subscribes # {} /\ stream # "none"
DeviceFollows == <>[](InUse => stream = get_audio_input)

(* ... unless it was changed while a restart had already read the device.   *)
DeviceFollowsUnlessLate == <>[](InUse => (stream = get_audio_input \/ late))

=============================================================================
