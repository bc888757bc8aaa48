---------------------------- MODULE DisplayService ----------------------------
(***************************************************************************)
(* How the clients learn of the displays of the host:                      *)
(* src/src/server/display_service.rs, with the login of a Connection       *)
(* (src/src/server/connection.rs), the refresh of the video service        *)
(* (try_broadcast_display_changed in src/src/server/video_service.rs) and  *)
(* the holder of temp_ignore_displays_changed                              *)
(* (src/src/privacy_mode/win_virtual_display.rs).                          *)
(*                                                                         *)
(* A layout stands for the whole list of displays.  A connection gets the  *)
(* list when it logs in, and every change of it by the service from when   *)
(* it is a subscriber.  The service is one thread (src/src/server/         *)
(* service.rs): subscribers wait in new_subscribes until its snapshot.     *)
(***************************************************************************)
EXTENDS Naturals, FiniteSets

CONSTANTS
  Conns,       (* connections                                              *)
  Layouts,     (* the lists of displays there may be                       *)
  MaxChanges,  (* bound: changes of the displays                           *)
  MaxLogins,   (* bound: logins                                            *)
  MaxTemps     (* bound: uses of temp_ignore_displays_changed              *)

(* Assumed of the constants by every module that gives them values. *)
DisplayServiceAssumption ==
  Layouts # {} /\ {MaxChanges, MaxLogins, MaxTemps} \subseteq Nat

VARIABLES
  real,        (* the displays of the host                                 *)
  displays,    (* SYNC_DISPLAYS.displays                                   *)
  is_synced,   (* SYNC_DISPLAYS.is_synced                                  *)
  temp,        (* TEMP_IGNORE_DISPLAYS_CHANGED                             *)
  holder,      (* its holder: "none", "held", "released" (the flag is
                  cleared, is_synced not yet)                              *)
  subscribes, new_subscribes,   (* of the service                          *)
  loop,        (* the thread: "out" of run, in run at the "snapshot" or the
                  "check", or about to "send"                              *)
  msg,         (* the list it is about to send                             *)
  conn,        (* a connection: "none", "logging" (it has the list of its
                  login) or "in" (it has subscribed)                       *)
  known,       (* the list its client has                                  *)
  missed,      (* history: connections that a list was not sent to because
                  they were no subscribers yet, until it is sent to them or
                  to be sent again for them                                *)
  changes, logins, temps        (* what is used of the bounds              *)

list == <<displays, is_synced>>
service == <<subscribes, new_subscribes>>
thread == <<loop, msg>>
clients == <<conn, known, missed>>
flag == <<temp, holder>>
bounds == <<changes, logins, temps>>
vars == <<real, list, flag, service, thread, clients, bounds>>

Init ==
  /\ real \in Layouts /\ displays = "empty" /\ is_synced = FALSE
  /\ temp = FALSE /\ holder = "none"
  /\ subscribes = {} /\ new_subscribes = {}
  /\ loop = "out" /\ msg = "empty"
  /\ conn = [c \in Conns |-> "none"] /\ known = [c \in Conns |-> "empty"]
  /\ missed = {}
  /\ changes = 0 /\ logins = 0 /\ temps = 0

-----------------------------------------------------------------------------
(* check_update_displays: the list is read, and a change is to be sent      *)
(* unless changes are ignored.                                              *)
check_changed_not_kept(ignore) ==
  /\ displays' = displays
  /\ is_synced' = (is_synced /\ (real = displays \/ ignore))
check_changed(ignore) ==
  /\ displays' = real
  /\ is_synced' = (is_synced /\ (real = displays \/ ignore))

(* The environment: a display is added, removed or changed.                 *)
displays_change ==
  /\ changes < MaxChanges /\ changes' = changes + 1
  /\ real' \in Layouts \ {real}
  /\ UNCHANGED <<list, flag, service, thread, clients, logins, temps>>

(* update_get_sync_displays_on_login, in send_logon_response.               *)
login(c) ==
  /\ conn[c] = "none" /\ logins < MaxLogins /\ logins' = logins + 1
  /\ check_changed(temp)
  /\ conn' = [conn EXCEPT ![c] = "logging"] /\ known' = [known EXCEPT ![c] = real]
  /\ missed' = missed \ {c}
  /\ UNCHANGED <<real, flag, service, thread, changes, temps>>

(* ... and later the connection subscribes.                                 *)
on_subscribe(c) ==
  /\ conn[c] = "logging"
  /\ conn' = [conn EXCEPT ![c] = "in"] /\ new_subscribes' = new_subscribes \cup {c}
  /\ UNCHANGED <<real, list, flag, subscribes, thread, known, missed, bounds>>

leave(c) ==
  /\ conn[c] # "none"
  /\ conn' = [conn EXCEPT ![c] = "none"]
  /\ subscribes' = subscribes \ {c} /\ new_subscribes' = new_subscribes \ {c}
  /\ UNCHANGED <<real, list, flag, thread, known, missed, bounds>>

(* A video service that refreshes reads the displays at once.               *)
check_displays_changed ==
  /\ \E c \in Conns : conn[c] = "in"
  /\ real # displays /\ check_changed(temp)
  /\ UNCHANGED <<real, flag, service, thread, clients, bounds>>

-----------------------------------------------------------------------------
(* The thread.  It enters run when there is a subscriber, and leaves it when*)
(* there is none.                                                           *)
enter_run ==
  /\ loop = "out" /\ subscribes \cup new_subscribes # {}
  /\ loop' = "snapshot"
  /\ UNCHANGED <<real, list, flag, service, msg, clients, bounds>>

leave_run ==
  /\ loop = "snapshot" /\ subscribes \cup new_subscribes = {}
  /\ loop' = "out"
  /\ UNCHANGED <<real, list, flag, service, msg, clients, bounds>>

(* The snapshot: new subscribers become subscribers; if there were some, the*)
(* list is sent to all of them again, after run has failed and was restarted*)
resend_never == FALSE
resend == ~temp /\ subscribes # {}
snapshot ==
  /\ loop = "snapshot" /\ subscribes \cup new_subscribes # {}
  /\ IF new_subscribes # {}
     THEN /\ subscribes' = subscribes \cup new_subscribes /\ new_subscribes' = {}
          /\ is_synced' = (is_synced /\ ~resend)
          /\ loop' = IF resend THEN "out" ELSE "check"
          /\ missed' = IF subscribes # {} /\ ~temp THEN {} ELSE missed
     ELSE loop' = "check" /\ UNCHANGED <<service, is_synced, missed>>
  /\ UNCHANGED <<real, displays, flag, msg, conn, known, bounds>>

(* check_get_displays_changed_msg, in two locks of SYNC_DISPLAYS that are   *)
(* taken one after the other.                                               *)
check ==
  /\ loop = "check" /\ check_changed(temp)
  /\ loop' = "get"
  /\ UNCHANGED <<real, flag, service, msg, clients, bounds>>

get_displays_msg ==
  /\ loop = "get" /\ is_synced' = TRUE
  /\ IF is_synced THEN loop' = "snapshot" /\ msg' = msg
                  ELSE loop' = "send" /\ msg' = displays
  /\ UNCHANGED <<real, displays, flag, service, clients, bounds>>

send ==
  /\ loop = "send" /\ loop' = "snapshot"
  /\ known' = [c \in Conns |-> IF c \in subscribes THEN msg ELSE known[c]]
  /\ missed' = (missed \cup {c \in Conns : conn[c] # "none"}) \ subscribes
  /\ UNCHANGED <<real, list, flag, service, msg, conn, bounds>>

-----------------------------------------------------------------------------
(* temp_ignore_displays_changed, and the drop of its holder: the flag, then *)
(* is_synced.                                                               *)
temp_ignore ==
  /\ holder = "none" /\ temps < MaxTemps /\ temps' = temps + 1
  /\ temp' = TRUE /\ holder' = "held"
  /\ UNCHANGED <<real, list, service, thread, clients, changes, logins>>

release ==
  /\ holder = "held" /\ temp' = FALSE /\ holder' = "released"
  /\ UNCHANGED <<real, list, service, thread, clients, bounds>>

synced_after_release_kept == is_synced
synced_after_release == FALSE
trigger ==
  /\ holder = "released" /\ holder' = "none"
  /\ is_synced' = synced_after_release
  /\ UNCHANGED <<real, displays, temp, service, thread, clients, bounds>>

Next ==
  \/ displays_change \/ check_displays_changed
  \/ enter_run \/ leave_run \/ snapshot \/ check \/ get_displays_msg \/ send
  \/ temp_ignore \/ release \/ trigger
  \/ \E c \in Conns : login(c) \/ on_subscribe(c) \/ leave(c)

Spec ==
  /\ Init /\ [][Next]_vars
  /\ WF_vars(enter_run) /\ WF_vars(leave_run) /\ WF_vars(snapshot) /\ WF_vars(check)
  /\ WF_vars(get_displays_msg) /\ WF_vars(send) /\ WF_vars(release) /\ WF_vars(trigger)

-----------------------------------------------------------------------------
(* The state has its type; a subscriber is a connection that is in, and the *)
(* thread only sends while the list was marked as sent or was changed since.*)
TypeOK ==
  /\ real \in Layouts /\ displays \in Layouts \cup {"empty"} /\ is_synced \in BOOLEAN
  /\ temp = (holder = "held") /\ holder \in {"none", "held", "released"}
  /\ subscribes \cup new_subscribes = {c \in Conns : conn[c] = "in"}
  /\ missed \subseteq Conns /\ subscribes \cap new_subscribes = {}
  /\ loop \in {"out", "snapshot", "check", "get", "send"}
  /\ msg \in Layouts \cup {"empty"} /\ (loop = "send" => msg # "empty")
  /\ conn \in [Conns -> {"none", "logging", "in"}]
  /\ known \in [Conns -> Layouts \cup {"empty"}]
  /\ \A c \in Conns : conn[c] # "none" => known[c] # "empty"
  /\ changes \in 0 .. MaxChanges /\ logins \in 0 .. MaxLogins /\ temps \in 0 .. MaxTemps

(* Agree.  Two subscribers of the service that are past their snapshot know *)
(* the same displays once everything that is to be sent is sent, also after *)
(* changes that were ignored for a while (snapshot, trigger).               *)
Settled == is_synced /\ holder = "none" /\ loop \in {"snapshot", "check", "get"}
Agree == Settled => \A c, d \in subscribes \ missed : known[c] = known[d]

(* InformedUnlessMissed.  Every subscriber in the end knows the displays as *)
(* they are, unless a change was sent between its login and its snapshot and*)
(* nobody else was a subscriber at its snapshot.                            *)
InformedUnlessMissed ==
  \A c \in Conns : <>[](conn[c] = "in") => <>[](known[c] = real \/ c \in missed)

(* Informed.  Every subscriber in the end knows the displays as they are    *)
(* (what the comment in check_display_changed says of unplugged displays).  *)
Informed == \A c \in Conns : <>[](conn[c] = "in") => <>[](known[c] = real)
=============================================================================
