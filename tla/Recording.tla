------------------------------ MODULE Recording ------------------------------
(***************************************************************************)
(* Who knows that a session is being recorded (src/src/client/io_loop.rs,  *)
(* src/src/client.rs, src/flutter/lib/models/model.dart): the loop of the  *)
(* session decides, from what the user wants, what the host permits and    *)
(* whether outgoing sessions are recorded by themselves; the video threads *)
(* of the displays, the user interface and the host each are told by a     *)
(* message of their own, and a thread that meets its first picture looks   *)
(* for itself.  A lost connection is replaced: the loop and its threads    *)
(* are new, the settings of the session (LoginConfigHandler) are not.      *)
(***************************************************************************)
EXTENDS Naturals, Sequences

CONSTANTS
  Displays,
  MaxFrames,      (* bound: pictures of each connection                     *)
  MaxToggles,     (* bound: the user's clicks                               *)
  MaxPermissions, (* bound: changes of the permission                       *)
  MaxLosses       (* bound: connections lost                                *)

(* Assumed of the constants by every module that gives them values. *)
RecordingAssumption ==
  {MaxFrames, MaxToggles, MaxPermissions, MaxLosses} \subseteq Nat

VARIABLES
  auto_record,    (* OPTION_ALLOW_AUTO_RECORD_OUTGOING                      *)
  record_state, record_permission,            (* LoginConfigHandler         *)
  last_record_state, updating, video_threads, (* Remote                     *)
  channel,        (* to the thread of a display                             *)
  recording,      (* a thread's handler: "none", or whether it records      *)
  receiver,       (* to the loop of the session                             *)
  events,         (* to the user interface                                  *)
  start,          (* RecordingModel.start                                   *)
  offered,        (* permissions['recording'] != false                      *)
  waitForFirstImage,
  toHost, toClient,
  permitted,      (* Connection.recording                                   *)
  user_record,    (* VideoQoS                                               *)
  frames, toggles, permissions, losses,       (* bounds                     *)
  late,           (* history: a thread of a lost connection showed a        *)
                  (* picture to a user interface that waited for another    *)
  glimpsed        (* history: the user interface looked while the loop was  *)
                  (* between taking a wish and refusing it                  *)

lc == <<record_state, record_permission>>
remote == <<last_record_state, updating, video_threads>>
threads == <<channel, recording>>
ui == <<start, offered, waitForFirstImage>>
host == <<permitted, user_record>>
bounds == <<frames, toggles, permissions, losses>>
vars == <<auto_record, lc, remote, threads, receiver, events, ui, toHost, toClient,
          host, bounds, late, glimpsed>>

Message(type, b) == [type |-> type, b |-> b]
Frame(d) == [type |-> "frame", display |-> d]

(* What a host says of the permission when a connection begins.             *)
Greeting(p) == IF p THEN <<>> ELSE <<Message("permission", FALSE)>>

Init ==
  /\ auto_record \in BOOLEAN /\ permitted \in BOOLEAN
  /\ record_state = FALSE /\ record_permission = TRUE
  /\ last_record_state = FALSE /\ updating = "no" /\ video_threads = {}
  /\ channel = [d \in Displays |-> <<>>] /\ recording = [d \in Displays |-> "none"]
  /\ receiver = <<>> /\ events = <<"peer_info">>
  /\ start = FALSE /\ offered = TRUE /\ waitForFirstImage = TRUE
  /\ toHost = <<>> /\ toClient = Greeting(permitted)
  /\ user_record = FALSE
  /\ frames = 0 /\ toggles = 0 /\ permissions = 0 /\ losses = 0
  /\ late = FALSE /\ glimpsed = FALSE

-----------------------------------------------------------------------------
(* The loop of the session.                                                 *)

new_video_thread(d) ==
  /\ video_threads' = video_threads \cup {d}
  /\ IF video_threads = {}
     THEN record_state' = auto_record /\ updating' = "yes"
     ELSE UNCHANGED <<record_state, updating>>

handle_msg_from_peer ==
  /\ updating = "no" /\ toClient # <<>>
  /\ LET m == Head(toClient) IN
     \/ /\ m.type = "permission"
        /\ record_permission' = m.b
        /\ updating' = IF m.b THEN "allow" ELSE "deny"
        /\ toClient' = Tail(toClient)
        /\ UNCHANGED <<record_state, video_threads, channel>>
     \/ /\ m.type = "frame" /\ m.display \in video_threads
        /\ channel' = [channel EXCEPT ![m.display] = Append(@, m)]
        /\ toClient' = Tail(toClient)
        /\ UNCHANGED <<record_state, record_permission, video_threads, updating>>
     \/ /\ m.type = "frame" /\ m.display \notin video_threads
        /\ new_video_thread(m.display)
        /\ UNCHANGED <<toClient, channel, record_permission>>
  /\ UNCHANGED <<auto_record, last_record_state, recording, receiver, events, ui, toHost,
                 host, bounds, late, glimpsed>>

(* Mutant: whatever the outcome, nobody is told of a stop.                  *)
Tell_starts(b) == b /\ last_record_state # b

Tell(b) == last_record_state # b

(* What is left of the user's wish.                                         *)
allowed == record_state /\ record_permission

(* The user interface is told of a new permission afterwards.               *)
set_permission == IF updating \in {"allow", "deny"} THEN <<updating>> ELSE <<>>

(* Mutant: displays without a thread get their orders too.                   *)
told_all == Displays

(* The threads that are told.                                               *)
told == video_threads

update_record_state ==
  /\ updating # "no" /\ updating' = "no"
  /\ record_state' = allowed
  /\ last_record_state' = allowed
  /\ IF Tell(allowed)
     THEN /\ channel' = [d \in Displays |->
                           IF d \in told THEN Append(channel[d], Message("record", allowed))
                           ELSE channel[d]]
          /\ events' = Append(events, IF allowed THEN "start" ELSE "stop") \o set_permission
          /\ receiver' = Append(receiver, Message("status", allowed))
     ELSE /\ events' = events \o set_permission
          /\ UNCHANGED <<channel, receiver>>
  /\ UNCHANGED <<auto_record, record_permission, video_threads, recording, ui, toHost,
                 toClient, host, bounds, late, glimpsed>>

handle_msg_from_ui ==
  /\ updating = "no" /\ receiver # <<>>
  /\ receiver' = Tail(receiver)
  /\ LET m == Head(receiver) IN
     \/ /\ m.type = "record"
        /\ record_state' = m.b /\ updating' = "yes"
        /\ UNCHANGED toHost
     \/ /\ m.type = "status"
        /\ toHost' = Append(toHost, m)
        /\ UNCHANGED <<record_state, updating>>
  /\ UNCHANGED <<auto_record, record_permission, last_record_state, video_threads, threads,
                 events, ui, toClient, host, bounds, late, glimpsed>>

-----------------------------------------------------------------------------
(* A video thread.  Its first picture makes its handler, which records if   *)
(* the settings of the session say so then; until then it takes no orders.  *)

look == IF record_state /\ record_permission THEN "yes" ELSE "no"

(* Mutant: a handler does not look.                                         *)
look_never == "no"

first_look == look

take(d) ==
  /\ channel[d] # <<>>
  /\ channel' = [channel EXCEPT ![d] = Tail(@)]
  /\ LET m == Head(channel[d]) IN
     \/ /\ m.type = "frame"
        /\ recording' = [recording EXCEPT ![d] = IF @ = "none" THEN first_look ELSE @]
        /\ events' = Append(events, "image")
     \/ /\ m.type = "record"
        /\ recording' = [recording EXCEPT ![d] =
                           IF @ = "none" THEN @ ELSE IF m.b THEN "yes" ELSE "no"]
        /\ UNCHANGED events
  /\ UNCHANGED <<auto_record, lc, remote, receiver, ui, toHost, toClient, host, bounds, late, glimpsed>>

-----------------------------------------------------------------------------
(* The user interface.                                                      *)

handle_event ==
  /\ events # <<>>
  /\ events' = Tail(events)
  /\ LET e == Head(events) IN
     \/ /\ e = "peer_info"
        /\ waitForFirstImage' = TRUE
        /\ UNCHANGED <<start, offered, glimpsed>>
     \/ /\ e = "image"
        /\ waitForFirstImage' = FALSE
        /\ start' = IF waitForFirstImage THEN record_state ELSE start
        /\ glimpsed' = (glimpsed \/ (waitForFirstImage /\ updating # "no"))
        /\ UNCHANGED offered
     \/ /\ e \in {"start", "stop"}
        /\ start' = (e = "start")
        /\ UNCHANGED <<offered, waitForFirstImage, glimpsed>>
     \/ /\ e \in {"allow", "deny"}
        /\ offered' = (e = "allow")
        /\ UNCHANGED <<start, waitForFirstImage, glimpsed>>
  /\ UNCHANGED <<auto_record, lc, remote, threads, receiver, toHost, toClient, host, bounds, late>>

(* The button is there while the permission is, or to stop.                 *)
toggle ==
  /\ toggles < MaxToggles /\ (start \/ offered)
  /\ toggles' = toggles + 1
  /\ receiver' = Append(receiver, Message("record", ~start))
  /\ UNCHANGED <<auto_record, lc, remote, threads, events, ui, toHost, toClient, host,
                 frames, permissions, losses, late, glimpsed>>

-----------------------------------------------------------------------------
(* The host.                                                                *)

user_record_status ==
  /\ toHost # <<>>
  /\ toHost' = Tail(toHost)
  /\ user_record' = Head(toHost).b
  /\ UNCHANGED <<auto_record, lc, remote, threads, receiver, events, ui, toClient, permitted, bounds, late, glimpsed>>

send_permission ==
  /\ permissions < MaxPermissions
  /\ permissions' = permissions + 1
  /\ permitted' = ~permitted
  /\ toClient' = Append(toClient, Message("permission", permitted'))
  /\ UNCHANGED <<auto_record, lc, remote, threads, receiver, events, ui, toHost, user_record,
                 frames, toggles, losses, late, glimpsed>>

send_frame(d) ==
  /\ frames < MaxFrames
  /\ frames' = frames + 1
  /\ toClient' = Append(toClient, Frame(d))
  /\ UNCHANGED <<auto_record, lc, remote, threads, receiver, events, ui, toHost, host,
                 toggles, permissions, losses, late, glimpsed>>

(* The connection is lost and made again: io_loop with a new Remote, and a  *)
(* new Connection, whose permission is what the host's settings say.  The   *)
(* threads of the old one go down; a picture they still show may come after *)
(* the user interface has begun to wait for the first of the new ones.      *)
reconnect ==
  /\ losses < MaxLosses /\ updating = "no"
  /\ losses' = losses + 1
  /\ last_record_state' = FALSE /\ updating' = "no" /\ video_threads' = {}
  /\ channel' = [d \in Displays |-> <<>>] /\ recording' = [d \in Displays |-> "none"]
  /\ receiver' = <<>> /\ toHost' = <<>>
  /\ permitted' \in BOOLEAN
  /\ toClient' = Greeting(permitted')
  /\ user_record' = FALSE
  /\ \E shows \in BOOLEAN :
       /\ shows => \E d \in Displays : channel[d] # <<>>
       /\ events' = events \o (IF shows THEN <<"peer_info", "image">> ELSE <<"peer_info">>)
       /\ late' = (late \/ shows)
  /\ frames' = 0
  /\ offered' = TRUE
  /\ UNCHANGED <<auto_record, lc, start, waitForFirstImage, toggles, permissions, glimpsed>>

-----------------------------------------------------------------------------
Next ==
  \/ handle_msg_from_peer \/ update_record_state \/ handle_msg_from_ui
  \/ (\E d \in Displays : take(d)) \/ handle_event \/ toggle
  \/ user_record_status \/ send_permission \/ (\E d \in Displays : send_frame(d))
  \/ reconnect

Spec == Init /\ [][Next]_vars

-----------------------------------------------------------------------------
(* Every variable has its type, and a display without a thread has no       *)
(* channel and no handler.                                                  *)
Range(s) == {s[i] : i \in DOMAIN s}
BoolMessage == [type : {"permission", "record", "status"}, b : BOOLEAN]
FrameMessage == [type : {"frame"}, display : Displays]

TypeOK ==
  /\ {auto_record, record_state, record_permission, last_record_state, start,
      offered, waitForFirstImage, permitted, user_record, late, glimpsed} \subseteq BOOLEAN
  /\ updating \in {"no", "yes", "allow", "deny"} /\ video_threads \subseteq Displays
  /\ \A d \in Displays : Range(channel[d]) \subseteq BoolMessage \cup FrameMessage
  /\ recording \in [Displays -> {"none", "yes", "no"}]
  /\ \A d \in Displays \ video_threads : channel[d] = <<>> /\ recording[d] = "none"
  /\ Range(receiver) \cup Range(toHost) \subseteq BoolMessage
  /\ Range(toClient) \subseteq BoolMessage \cup FrameMessage
  /\ Range(events) \subseteq {"peer_info", "image", "start", "stop", "allow", "deny"}

Orders(d) == SelectSeq(channel[d], LAMBDA m : m.type = "record")
Outcome(s, otherwise) == IF s = <<>> THEN otherwise ELSE s[Len(s)].b

(* Each thread that has shown a picture records, once it has read its       *)
(* orders, exactly if the loop of the session says that it records, whether *)
(* its first picture came before, between or after the orders.              *)
ThreadsFollow ==
  updating = "no" => \A d \in Displays :
    recording[d] # "none" => Outcome(Orders(d), recording[d] = "yes") = last_record_state

(* The host learns what the client does: once it has read everything, it    *)
(* makes key frames for a recording exactly if there is one.                *)
PeerKnows ==
  Outcome(SelectSeq(receiver, LAMBDA m : m.type = "status"), Outcome(toHost, user_record))
    = last_record_state

(* With nothing left to show, the button shows whether the session is being *)
(* recorded, from the first picture of a connection on, also when it is the *)
(* second one, unless a picture of the first came late or the look at the   *)
(* first picture fell between a wish and its refusal.                       *)
UiShows ==
  (events = <<>> /\ ~waitForFirstImage /\ updating = "no" /\ ~late /\ ~glimpsed) => start = last_record_state

(* "Start session recording" is what the button says: where it is offered   *)
(* and the host permits it, the loop of the session does not refuse.        *)
ButtonRecords ==
  (toClient = <<>> /\ events = <<>> /\ updating = "no" /\ offered /\ permitted) => record_permission
=============================================================================
