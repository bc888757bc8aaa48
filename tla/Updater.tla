------------------------------- MODULE Updater -------------------------------
(***************************************************************************)
(* The automatic update of an installed Windows host                       *)
(* (src/src/updater.rs): a thread of the service looks once a day for a    *)
(* newer version, downloads it and runs it, which ends every process of    *)
(* the program, so it may only do so while nobody uses the program.  The   *)
(* service knows the connections to it (ALIVE_CONNS).  How many sessions   *)
(* the user interface has to other hosts it learns from reports            *)
(* (src/src/flutter.rs, src/src/ipc.rs), each on a connection of its own.  *)
(* Waiting takes any time; no one asks for a check (manually_check_update  *)
(* has no caller).                                                         *)
(***************************************************************************)
EXTENDS Naturals, FiniteSets

CONSTANTS
  Sessions,     (* what SESSIONS of the user interface may hold             *)
  Versions,     (* the newer versions, in the order they are published      *)
  MaxChanges,   (* bound: sessions begun or ended                           *)
  MaxConns,     (* bound: connections to the service                        *)
  MaxLost,      (* bound: reports lost, user interfaces and services killed *)
  MaxFaults     (* bound: failures of the network, the disk, the launch     *)

ASSUME SessionsFinite == IsFiniteSet(Sessions)

ASSUME UpdaterAssumption ==
  /\ Versions \subseteq Nat \ {0}
  /\ {MaxChanges, MaxConns, MaxLost, MaxFaults} \subseteq Nat

VARIABLES
  SESSIONS,
  reports,      (* on their way: [at |-> its number, n |-> the count]       *)
  CONTROLLING_SESSION_COUNT, ALIVE_CONNS,
  newest,       (* the server's version, 0: no newer one                    *)
  file,         (* file_path of each version                                *)
  pc, version,  (* the thread                                               *)
  changes, conns, lost, faults,    (* bounds                                *)
  handled,      (* history: the number of the last report handled           *)
  begun,        (* history: a session or a connection began after the       *)
                (* thread's last look at its kind                           *)
  untold        (* history: at that look the service did not know of the    *)
                (* last change of SESSIONS                                  *)

ui == <<SESSIONS, reports, changes>>
thread == <<pc, version, file>>
vars == <<ui, CONTROLLING_SESSION_COUNT, ALIVE_CONNS, newest, thread, conns, lost, faults,
          handled, begun, untold>>

Init ==
  /\ SESSIONS = {} /\ reports = {} /\ CONTROLLING_SESSION_COUNT = 0 /\ ALIVE_CONNS = 0
  /\ newest \in {0} \cup Versions
  /\ file = [v \in Versions |-> "none"]
  /\ pc = "start" /\ version = 0
  /\ changes = 0 /\ conns = 0 /\ lost = 0 /\ faults = 0
  /\ handled = 0 /\ begun = FALSE /\ untold = FALSE

-----------------------------------------------------------------------------
(* The user interface.                                                      *)

(* A change of SESSIONS is reported with the size it has then, or is not:   *)
(* the service must answer within a second.                                 *)
update_session_count_to_server ==
  \/ /\ reports' = reports \cup {[at |-> changes', n |-> Cardinality(SESSIONS')]}
     /\ UNCHANGED lost
  \/ /\ lost < MaxLost
     /\ lost' = lost + 1
     /\ UNCHANGED reports

insert_session(s) ==
  /\ s \notin SESSIONS /\ changes < MaxChanges
  /\ SESSIONS' = SESSIONS \cup {s} /\ changes' = changes + 1
  /\ update_session_count_to_server
  /\ begun' = (begun \/ pc = "idle")
  /\ UNCHANGED <<CONTROLLING_SESSION_COUNT, ALIVE_CONNS, newest, thread, conns, faults, handled, untold>>

remove_session_by_session_id(s) ==
  /\ s \in SESSIONS /\ changes < MaxChanges
  /\ SESSIONS' = SESSIONS \ {s} /\ changes' = changes + 1
  /\ update_session_count_to_server
  /\ UNCHANGED <<CONTROLLING_SESSION_COUNT, ALIVE_CONNS, newest, thread, conns, faults, handled, begun, untold>>

(* The process ends and says nothing.                                       *)
kill_ui ==
  /\ SESSIONS # {} /\ lost < MaxLost
  /\ SESSIONS' = {} /\ lost' = lost + 1
  /\ UNCHANGED <<reports, changes, CONTROLLING_SESSION_COUNT, ALIVE_CONNS, newest, thread,
                 conns, faults, handled, begun, untold>>

-----------------------------------------------------------------------------
(* The service.                                                             *)

(* Each report has a task of its own, which may be overtaken.               *)
update_controlling_session_count(r) ==
  /\ r \in reports
  /\ reports' = reports \ {r}
  /\ CONTROLLING_SESSION_COUNT' = r.n
  /\ handled' = r.at
  /\ UNCHANGED <<SESSIONS, changes, ALIVE_CONNS, newest, thread, conns, lost, faults, begun, untold>>

connect ==
  /\ conns < MaxConns
  /\ conns' = conns + 1 /\ ALIVE_CONNS' = ALIVE_CONNS + 1
  /\ begun' = (begun \/ pc \in {"free", "idle"})
  /\ UNCHANGED <<ui, CONTROLLING_SESSION_COUNT, newest, thread, lost, faults, handled, untold>>

close ==
  /\ ALIVE_CONNS > 0
  /\ ALIVE_CONNS' = ALIVE_CONNS - 1
  /\ UNCHANGED <<ui, CONTROLLING_SESSION_COUNT, newest, thread, conns, lost, faults, handled, begun, untold>>

(* The service is killed and starts again: its thread, its connections and  *)
(* what it was told are gone.  Of a file that is being written a part is    *)
(* left.                                                                    *)
kill_service ==
  /\ lost < MaxLost /\ pc # "updated"
  /\ lost' = lost + 1
  /\ reports' = {} /\ CONTROLLING_SESSION_COUNT' = 0 /\ ALIVE_CONNS' = 0
  /\ handled' = 0
  /\ pc' = "start" /\ version' = 0 /\ begun' = FALSE /\ untold' = FALSE
  /\ UNCHANGED <<SESSIONS, changes, newest, file, conns, faults>>

publish(v) ==
  /\ v > newest
  /\ newest' = v
  /\ UNCHANGED <<ui, CONTROLLING_SESSION_COUNT, ALIVE_CONNS, thread, conns, lost, faults, handled, begun, untold>>

-----------------------------------------------------------------------------
(* The thread.                                                              *)

others == <<ui, CONTROLLING_SESSION_COUNT, ALIVE_CONNS, newest, conns, lost, handled>>
marks == <<begun, untold>>

(* A step fails, and the thread waits for its next time.                    *)
fail ==
  /\ faults < MaxFaults
  /\ faults' = faults + 1
  /\ pc' = "wait"
  /\ UNCHANGED <<others, version, marks>>

has_no_active_conns == ALIVE_CONNS = 0 /\ CONTROLLING_SESSION_COUNT = 0

(* The first check comes whoever uses the program, a later one only if      *)
(* nobody does.                                                             *)
wake ==
  /\ pc \in {"start", "wait"}
  /\ pc = "wait" => has_no_active_conns
  /\ pc' = "check"
  /\ UNCHANGED <<others, version, file, faults, marks>>

(* Mutant: that there is no newer version is no end.                        *)
newer_always == TRUE

newer == newest # 0

do_check_software_update ==
  /\ pc = "check"
  /\ \/ /\ newer
        /\ version' = newest /\ pc' = "head"
        /\ UNCHANGED <<others, faults, marks>>
     \/ /\ ~newer
        /\ pc' = "wait"
        /\ UNCHANGED <<others, version, faults, marks>>
     \/ fail
  /\ UNCHANGED file

(* Mutant: a file that is there is taken for whole.                         *)
same_size_unchecked(v) == TRUE

(* The file has the length the server says.                                 *)
same_size(v) == file[v] = "whole"

(* Mutant: a file of another size is left alone, and in the way.            *)
remove_file_never == pc' = "wait" /\ UNCHANGED file

remove_file == pc' = "get" /\ file' = [file EXCEPT ![version] = "none"]

head ==
  /\ pc = "head"
  /\ \/ /\ file[version] = "none"
        /\ pc' = "get"
        /\ UNCHANGED <<others, version, file, faults, marks>>
     \/ /\ file[version] # "none" /\ same_size(version)
        /\ pc' = "again"
        /\ UNCHANGED <<others, version, file, faults, marks>>
     \/ /\ file[version] # "none" /\ ~same_size(version)
        /\ remove_file
        /\ UNCHANGED <<others, version, faults, marks>>
     \/ file[version] # "none" /\ fail /\ UNCHANGED file

(* The whole answer is read before the file is created.                     *)
get ==
  /\ pc = "get"
  /\ \/ /\ pc' = "write" /\ file' = [file EXCEPT ![version] = "partial"]
        /\ UNCHANGED <<others, version, faults, marks>>
     \/ fail /\ UNCHANGED file

write_all ==
  /\ pc = "write"
  /\ \/ /\ pc' = "again" /\ file' = [file EXCEPT ![version] = "whole"]
        /\ UNCHANGED <<others, version, faults, marks>>
     \/ fail /\ UNCHANGED file

(* Mutant: nobody looks a second time.                                      *)
look_again_never ==
  /\ pc = "again" /\ pc' = "idle"
  /\ begun' = FALSE /\ untold' = FALSE
  /\ UNCHANGED <<others, version, file, faults>>

(* The connections first, the sessions next.                                *)
look_again ==
  /\ \/ /\ pc = "again"
        /\ pc' = IF ALIVE_CONNS = 0 THEN "free" ELSE "wait"
        /\ begun' = FALSE
        /\ UNCHANGED untold
     \/ /\ pc = "free"
        /\ pc' = IF CONTROLLING_SESSION_COUNT = 0 THEN "idle" ELSE "wait"
        /\ untold' = (handled # changes)
        /\ UNCHANGED begun
  /\ UNCHANGED <<others, version, file, faults>>

(* The installer is launched, or the file is removed.                       *)
update_new_version ==
  /\ pc = "idle"
  /\ \/ /\ pc' = "updated"
        /\ UNCHANGED <<others, version, file, faults, marks>>
     \/ fail /\ file' = [file EXCEPT ![version] = "none"]

check_update ==
  \/ do_check_software_update \/ head \/ get \/ write_all \/ look_again \/ update_new_version

-----------------------------------------------------------------------------
Next ==
  \/ \E s \in Sessions : insert_session(s) \/ remove_session_by_session_id(s)
  \/ \E r \in reports : update_controlling_session_count(r)
  \/ kill_ui \/ kill_service \/ connect \/ close
  \/ \E v \in Versions : publish(v)
  \/ wake \/ check_update

Spec == Init /\ [][Next]_vars

(* The thread is scheduled, and its waits end.                              *)
FairSpec == Spec /\ WF_vars(wake) /\ WF_vars(check_update)

-----------------------------------------------------------------------------
(* Every variable has its type, and the thread has a version to work on.    *)
TypeOK ==
  /\ SESSIONS \subseteq Sessions
  /\ reports \subseteq [at : 1 .. MaxChanges, n : 0 .. Cardinality(Sessions)]
  /\ CONTROLLING_SESSION_COUNT \in 0 .. Cardinality(Sessions)
  /\ ALIVE_CONNS \in 0 .. MaxConns
  /\ newest \in {0} \cup Versions
  /\ file \in [Versions -> {"none", "partial", "whole"}]
  /\ pc \in {"start", "wait", "check", "head", "get", "write", "again", "free", "idle", "updated"}
  /\ version \in {0} \cup Versions
  /\ pc \notin {"start", "wait", "check"} => version # 0
  /\ handled \in 0 .. changes
  /\ {begun, untold} \subseteq BOOLEAN

(* What is run is the whole file, though writes fail, the service is killed *)
(* in the middle of one, and a file is found there from an earlier attempt. *)
WholeIsRun == pc \in {"again", "free", "idle", "updated"} => file[version] = "whole"

(* The program is not updated under a user: nobody has used it since before *)
(* the thread's last look, except a session whose report was still on its   *)
(* way then, was lost or was overtaken by an older one.                     *)
UpdatedUnused ==
  [][(pc = "idle" /\ pc' = "updated") =>
       \/ begun \/ untold
       \/ ALIVE_CONNS = 0 /\ SESSIONS = {}]_vars

(* A newer version is installed at last once the service believes for good  *)
(* that nobody uses the program.                                            *)
Unused == ALIVE_CONNS = 0 /\ CONTROLLING_SESSION_COUNT = 0
UpdatedAtLast == <>[](Unused /\ newest # 0) => <>(pc = "updated")

(* "Don't check update if there are alive connections": no update while a   *)
(* session goes on that began before the thread looked, and about which     *)
(* nothing is on its way.                                                   *)
NoUpdateInSession ==
  [][(pc = "idle" /\ pc' = "updated") => begun \/ reports # {} \/ SESSIONS = {}]_vars
=============================================================================
