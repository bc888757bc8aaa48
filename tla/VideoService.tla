---------------------------- MODULE VideoService ----------------------------
(***************************************************************************)
(* The video service of one display (src/src/server/video_service.rs) on   *)
(* top of the Service framework, with the connections it sends to: the     *)
(* capture loop `run`, its encoder, the per-frame wait for the viewers     *)
(* (VideoFrameController) and the tasks of the connections, which take     *)
(* frames from their queue and acknowledge them (connection.rs).           *)
(*                                                                         *)
(* Every step of the service thread is a step of Service with the video    *)
(* part added, so the subscription protocol is that of Service.            *)
(*                                                                         *)
(* Of a frame only its place in the queues is kept, and of the encoder     *)
(* what a decoder depends on: a new encoder's first frame is a key frame   *)
(* and every later one needs all the frames before it.                     *)
(***************************************************************************)
EXTENDS Naturals, FiniteSets

CONSTANTS
  Conns,       (* ids of connections                                       *)
  WebConns,    (* those whose client acknowledges (video_ack_required)     *)
  MaxFrames    (* bound: after so many frames the screen does not change   *)

ASSUME VideoAssumption ==
  /\ IsFiniteSet(Conns) /\ WebConns \subseteq Conns
  /\ MaxFrames \in Nat
  /\ "none" \notin Conns

VARIABLES
  subscribes, new_subscribes, active, pc, joiner, connections, removed,
  call              (* the variables of Service                            *)

VARIABLES
  vpc,              (* where `run` is, when Service's pc does not tell     *)
  refresh,          (* OPTION_REFRESH of the service                       *)
  key_next,         (* the encoder has put out no frame yet                *)
  frame,            (* number of frames sent                               *)
  send_conn_ids,    (* VideoFrameController.send_conn_ids                  *)
  fetched,          (* fetched_conn_ids                                    *)
  display_conn_ids, (* DISPLAY_CONN_IDS of the display                     *)
  notifier          (* FRAME_FETCHED_NOTIFIERS: who acknowledged, unread   *)

VARIABLES
  queue,            (* number of frames in rx_video of each connection     *)
  inflight,         (* number a web client has yet to acknowledge          *)
  closing           (* connections that have left their loop               *)

VARIABLES           (* history                                             *)
  synced,           (* connections with every frame of the encoder         *)
  garbled,          (* somebody was sent a frame it cannot decode          *)
  adopted,          (* the encoder was handed to new subscribers midway    *)
  pending,          (* subscribers whose refresh is not answered yet       *)
  irregular         (* a wait was cut short or a viewer has left           *)

serviceVars == <<subscribes, new_subscribes, active, pc, joiner, connections,
                 removed, call>>
flowVars == <<frame, send_conn_ids, fetched, display_conn_ids, notifier>>
connVars == <<queue, inflight, closing>>
streamVars == <<refresh, key_next, synced, garbled, adopted, pending>>
vars == <<serviceVars, vpc, flowVars, connVars, streamVars, irregular>>

S == INSTANCE Service WITH NeedSnapshot <- TRUE, Repeat <- FALSE

Backlog == 0 .. MaxFrames

TypeOK ==
  /\ S!TypeOK
  /\ vpc \in {"idle", "setup", "clear", "loop", "changed", "sent", "wait", "done"}
  /\ refresh \in BOOLEAN
  /\ key_next \in BOOLEAN
  /\ frame \in 0 .. MaxFrames
  /\ send_conn_ids \subseteq Conns
  /\ fetched \subseteq Conns
  /\ display_conn_ids \subseteq Conns
  /\ notifier \subseteq Conns
  /\ queue \in [Conns -> Backlog]
  /\ inflight \in [Conns -> Backlog]
  /\ closing \subseteq Conns
  /\ synced \subseteq Conns
  /\ garbled \in BOOLEAN
  /\ adopted \in BOOLEAN
  /\ pending \subseteq Conns
  /\ irregular \in BOOLEAN

Init ==
  /\ S!Init
  /\ vpc = "idle"
  /\ refresh = FALSE
  /\ key_next = FALSE
  /\ frame = 0
  /\ send_conn_ids = {}
  /\ fetched = {}
  /\ display_conn_ids = {}
  /\ notifier = {}
  /\ queue = [c \in Conns |-> 0]
  /\ inflight = [c \in Conns |-> 0]
  /\ closing = {}
  /\ synced = {}
  /\ garbled = FALSE
  /\ adopted = FALSE
  /\ pending = {}
  /\ irregular = FALSE

-----------------------------------------------------------------------------
(* The connections.                                                        *)

(* The task of c is in its select loop and not inside one of its handlers. *)
InLoop(c) == c \in connections /\ c \notin closing /\ call.conn # c

(* After login: try_add_primay_video_service, add_connection.              *)
open_connection(c) ==
  /\ S!add_connection(c)
  /\ UNCHANGED <<vpc, flowVars, connVars, streamVars, irregular>>

(* capture_displays, switch_display_to: Server::subscribe of this display. *)
capture_displays(c, sub) ==
  /\ InLoop(c)
  /\ S!subscribe(c, sub)
  /\ UNCHANGED <<vpc, flowVars, connVars, streamVars, irregular>>

Leaves(c) ==
  /\ pending' = pending \ {c}
  /\ irregular' = TRUE

capture_displays_continues ==
  /\ \/ /\ S!is_subed_new
        /\ UNCHANGED <<pending, irregular>>
     \/ /\ S!subscribe_act
        /\ IF call.sub THEN UNCHANGED <<pending, irregular>>
                       ELSE Leaves(call.conn)
  /\ UNCHANGED <<vpc, flowVars, connVars, refresh, key_next, synced, garbled,
                 adopted>>

(* refresh_video_display                                                   *)
refresh_video_display(c) ==
  /\ InLoop(c)
  /\ S!ServerFree
  /\ refresh' = TRUE
  /\ pending' = IF c \in subscribes THEN pending \cup {c} ELSE pending
  /\ UNCHANGED <<serviceVars, vpc, flowVars, connVars, key_next, synced,
                 garbled, adopted, irregular>>

(* Mutant: a frame is counted off twice.                                   *)
rx_video_twice(c) ==
  /\ InLoop(c)
  /\ queue[c] > 0
  /\ queue' = [queue EXCEPT ![c] = @ - 2]
  /\ notifier' = notifier \cup {c}
  /\ UNCHANGED <<serviceVars, vpc, frame, send_conn_ids, fetched,
                 display_conn_ids, inflight, closing, streamVars, irregular>>

(* The rx_video branch of the loop in Connection::start.  Unless the       *)
(* client acknowledges, the connection does, before it sends the frame.    *)
rx_video(c) ==
  /\ InLoop(c)
  /\ queue[c] > 0
  /\ queue' = [queue EXCEPT ![c] = @ - 1]
  /\ IF c \in WebConns
     THEN /\ inflight' = [inflight EXCEPT ![c] = @ + 1]
          /\ UNCHANGED notifier
     ELSE /\ notifier' = notifier \cup {c}
          /\ UNCHANGED inflight
  /\ UNCHANGED <<serviceVars, vpc, frame, send_conn_ids, fetched,
                 display_conn_ids, closing, streamVars, irregular>>

(* notify_video_frame_fetched_by_conn_id: only the displays that           *)
(* DISPLAY_CONN_IDS lists the connection under are told.                   *)
notify_by_conn_id(c) ==
  notifier' = IF c \in display_conn_ids THEN notifier \cup {c} ELSE notifier

(* VideoReceived from a web client.                                        *)
video_received(c) ==
  /\ InLoop(c)
  /\ inflight[c] > 0
  /\ notify_by_conn_id(c)
  /\ inflight' = [inflight EXCEPT ![c] = @ - 1]
  /\ UNCHANGED <<serviceVars, vpc, frame, send_conn_ids, fetched,
                 display_conn_ids, queue, closing, streamVars, irregular>>

(* The loop is over, for whatever reason: the video service is told.       *)
leave_loop(c) ==
  /\ InLoop(c)
  /\ notify_by_conn_id(c)
  /\ closing' = closing \cup {c}
  /\ irregular' = TRUE
  /\ UNCHANGED <<serviceVars, vpc, frame, send_conn_ids, fetched,
                 display_conn_ids, queue, inflight, streamVars>>

(* Later the connection is removed from the server and its task ends, and  *)
(* with it the receiver of rx_video.                                       *)
close_connection(c) ==
  /\ c \in closing
  /\ S!remove_connection(c)
  /\ queue' = [queue EXCEPT ![c] = 0]
  /\ inflight' = [inflight EXCEPT ![c] = 0]
  /\ Leaves(c)
  /\ UNCHANGED <<vpc, flowVars, closing, refresh, key_next, synced, garbled,
                 adopted>>

drop_server ==
  /\ S!join \/ S!joined
  /\ UNCHANGED <<vpc, flowVars, connVars, streamVars, irregular>>

-----------------------------------------------------------------------------
(* The service thread.                                                     *)

(* The loop of ServiceTmpl::run around `run`.                              *)
service_loop ==
  /\ S!check_active \/ S!after_error
  /\ UNCHANGED <<vpc, flowVars, connVars, streamVars, irregular>>

(* `run` is entered: get_capturer, check_change_scale ...                  *)
run ==
  /\ S!check_subscribes
  /\ vpc' = IF pc' = "ok" THEN "setup" ELSE vpc
  /\ UNCHANGED <<flowVars, connVars, streamVars, irregular>>

(* Mutant: `run` goes on with the encoder of its last call.                *)
setup_encoder_kept ==
  /\ vpc = "setup"
  /\ vpc' = "clear"
  /\ UNCHANGED <<serviceVars, flowVars, connVars, streamVars, irregular>>

(* ... a new encoder ...                                                   *)
setup_encoder ==
  /\ vpc = "setup"
  /\ vpc' = "clear"
  /\ key_next' = TRUE
  /\ synced' = {}
  /\ garbled' = FALSE
  /\ adopted' = FALSE
  /\ UNCHANGED <<serviceVars, flowVars, connVars, refresh, pending, irregular>>

(* ... and only then is a refresh that was asked for taken as answered.    *)
clear_refresh ==
  /\ vpc = "clear"
  /\ vpc' = "loop"
  /\ refresh' = FALSE
  /\ UNCHANGED <<serviceVars, flowVars, connVars, key_next, synced, garbled,
                 adopted, pending, irregular>>

(* The locals of a round are gone after it (send_conn_ids is reset before  *)
(* the next frame).                                                        *)
RoundOver == send_conn_ids' = {} /\ fetched' = {}

(* `run` returns: Raii is dropped.                                         *)
Returns == vpc' = "idle" /\ display_conn_ids' = {} /\ RoundOver

(* while sp.ok()                                                           *)
check_ok ==
  /\ vpc = "loop"
  /\ S!check_ok
  /\ IF pc' = "head" THEN Returns
     ELSE UNCHANGED <<vpc, display_conn_ids, send_conn_ids, fetched>>
  /\ UNCHANGED <<frame, notifier, connVars, streamVars, irregular>>

(* A SWITCH for a refresh, a changed codec, display or privacy mode (also  *)
(* while a frame is waited for), or an error of capturer or encoder.       *)
bail ==
  /\ S!callback_fails
  /\ Returns
  /\ irregular' = (irregular \/ vpc \in {"sent", "wait", "done"})
  /\ UNCHANGED <<frame, notifier, connVars, streamVars>>

(* The display has changed: try_broadcast_display_changed tells subscribers *)
(* and, in a snapshot of its own, new ones; then `run` bails.  (A change   *)
(* that is noticed while a frame is waited for is a bail without it.)      *)
display_changed ==
  /\ S!begin_work
  /\ vpc' = "changed"
  /\ UNCHANGED <<flowVars, connVars, streamVars, irregular>>

(* c.frame(spf) returns a frame to encode ...                              *)
capture ==
  /\ S!begin_work
  /\ ~refresh
  /\ frame < MaxFrames
  /\ UNCHANGED <<vpc, flowVars, connVars, streamVars, irregular>>

(* ... or WouldBlock; then nobody is waited for.                           *)
would_block ==
  /\ S!no_work
  /\ ~refresh
  /\ vpc' = "done"
  /\ UNCHANGED <<flowVars, connVars, streamVars, irregular>>

(* Mutant: a new subscriber gets the encoder that others use.              *)
snapshot_shares_encoder ==
  /\ S!snapshot \/ S!send_new_subscribes
  /\ adopted' = (adopted \/ (pc = "callback" /\ vpc = "loop" /\ subscribes = {} /\ ~key_next))
  /\ UNCHANGED <<vpc, flowVars, connVars, refresh, key_next, synced, garbled,
                 pending, irregular>>

(* handle_one_frame: the snapshot's callback asks for a new encoder when   *)
(* there are subscribers already, and lets the new ones have this encoder  *)
(* when there are none.                                                    *)
snapshot ==
  /\ \/ S!snapshot /\ UNCHANGED adopted
     \/ /\ vpc = "changed"
        /\ S!send_new_subscribes
        /\ UNCHANGED adopted
     \/ /\ vpc = "loop" /\ subscribes # {}
        /\ S!snapshot_fails
        /\ UNCHANGED adopted
     \/ /\ vpc = "loop" /\ subscribes = {}
        /\ S!send_new_subscribes
        /\ adopted' = (adopted \/ ~key_next)
  /\ UNCHANGED <<vpc, flowVars, connVars, refresh, key_next, synced, garbled,
                 pending, irregular>>

(* Mutant: after a failed snapshot new subscribers stay new.               *)
drop_swap_when_sent ==
  /\ IF pc = "swap_ok" THEN S!drop_swap
     ELSE /\ pc = "swap_err"
          /\ pc' = "failed"
          /\ UNCHANGED <<subscribes, new_subscribes, active, joiner, connections,
                         removed, call>>
  /\ IF pc' = "failed" THEN vpc' = "idle" /\ display_conn_ids' = {}
                            /\ send_conn_ids' = {} /\ fetched' = {}
     ELSE UNCHANGED <<vpc, display_conn_ids, send_conn_ids, fetched>>
  /\ UNCHANGED <<frame, notifier, connVars, streamVars, irregular>>

drop_swap ==
  /\ S!drop_swap
  /\ IF pc' = "failed" THEN Returns
     ELSE UNCHANGED <<vpc, display_conn_ids, send_conn_ids, fetched>>
  /\ UNCHANGED <<frame, notifier, connVars, streamVars, irregular>>

(* The frame is encoded and sent to `subscribes` under the service's lock. *)
send_video_frame ==
  /\ vpc = "loop"
  /\ S!send_shared
  /\ vpc' = "sent"
  /\ frame' = frame + 1
  /\ send_conn_ids' = subscribes
  /\ queue' = [c \in Conns |-> IF c \in subscribes THEN queue[c] + 1 ELSE queue[c]]
  /\ key_next' = FALSE
  /\ IF key_next
     THEN /\ synced' = subscribes
          /\ pending' = pending \ subscribes
          /\ UNCHANGED garbled
     ELSE /\ synced' = synced \cap subscribes
          /\ garbled' = (garbled \/ subscribes \ synced # {})
          /\ UNCHANGED pending
  /\ UNCHANGED <<fetched, display_conn_ids, notifier, inflight, closing, refresh,
                 adopted, irregular>>

(* The encoder fails without a SWITCH: no frame, nobody to wait for.       *)
encode_fails ==
  /\ vpc = "loop"
  /\ S!send_shared
  /\ vpc' = "done"
  /\ UNCHANGED <<flowVars, connVars, streamVars, irregular>>

(* VideoFrameController::set_send, after the frame is out.                 *)
set_send ==
  /\ vpc = "sent"
  /\ display_conn_ids' = IF send_conn_ids # {} THEN send_conn_ids ELSE display_conn_ids
  /\ vpc' = IF send_conn_ids # {} THEN "wait" ELSE "done"
  /\ UNCHANGED <<serviceVars, frame, send_conn_ids, fetched, notifier, connVars,
                 streamVars, irregular>>

(* Mutant: the first acknowledgement ends the wait.                        *)
try_wait_first ==
  /\ vpc = "wait"
  /\ notifier # {}
  /\ fetched' = fetched \cup notifier
  /\ notifier' = {}
  /\ vpc' = "done"
  /\ UNCHANGED <<serviceVars, frame, send_conn_ids, display_conn_ids, connVars,
                 streamVars, irregular>>

(* try_wait_next drains the channel; then the loop counts.                 *)
try_wait_next ==
  /\ vpc = "wait"
  /\ notifier # {}
  /\ fetched' = fetched \cup notifier
  /\ notifier' = {}
  /\ vpc' = IF Cardinality(fetched') >= Cardinality(send_conn_ids) THEN "done" ELSE "wait"
  /\ UNCHANGED <<serviceVars, frame, send_conn_ids, display_conn_ids, connVars,
                 streamVars, irregular>>

(* Mutant: the wait has no limit.                                          *)
wait_no_timeout == vpc = "wait" /\ UNCHANGED vars

(* 3 s have passed.                                                        *)
wait_timeout ==
  /\ vpc = "wait"
  /\ vpc' = "done"
  /\ irregular' = TRUE
  /\ UNCHANGED <<serviceVars, flowVars, connVars, streamVars>>

(* DISPLAY_CONN_IDS.remove, and the rest of the frame's time.              *)
end_wait ==
  /\ vpc = "done"
  /\ display_conn_ids' = {}
  /\ vpc' = "loop"
  /\ RoundOver
  /\ UNCHANGED <<serviceVars, frame, notifier, connVars, streamVars, irregular>>

Thread ==
  \/ service_loop
  \/ run
  \/ setup_encoder
  \/ clear_refresh
  \/ check_ok
  \/ bail
  \/ display_changed
  \/ capture
  \/ would_block
  \/ snapshot
  \/ drop_swap
  \/ send_video_frame
  \/ encode_fails
  \/ set_send
  \/ try_wait_next
  \/ wait_timeout
  \/ end_wait

Connections ==
  \/ \E c \in Conns :
       \/ open_connection(c)
       \/ \E sub \in BOOLEAN : capture_displays(c, sub)
       \/ refresh_video_display(c)
       \/ rx_video(c)
       \/ video_received(c)
       \/ leave_loop(c)
       \/ close_connection(c)
  \/ capture_displays_continues
  \/ drop_server

Next == Thread \/ Connections

(* The service thread is an OS thread.  While it waits, nothing makes it   *)
(* bail; elsewhere it bails only where it may also go on, or must.         *)
Fairness ==
  /\ WF_vars(Thread /\ ~(vpc = "wait" /\ vpc' = "idle"))
  /\ WF_vars(capture_displays_continues)
  /\ WF_vars(S!joined /\ drop_server)

Spec == Init /\ [][Next]_vars /\ Fairness

-----------------------------------------------------------------------------
(* The thread and the calls it makes keep to the subscription protocol:    *)
(* whatever the video loop does is a step of the service framework.        *)
ServiceSafety == S!Init /\ [][S!Next]_(S!vars)

(* Flow control: as long as no wait timed out or was cut short and no      *)
(* viewer left, nobody is sent a frame while an earlier one still waits in *)
(* its queue (video_service.rs, the loop around try_wait_next).            *)
FlowControl ==
  ~irregular => \A c \in Conns : /\ queue[c] <= 1
                                 /\ vpc = "loop" => queue[c] = 0

(* A subscriber can decode what it is sent: its first frame of an encoder  *)
(* is that encoder's key frame and it misses none after it.  The exception *)
(* is an encoder whose last subscriber left and that new ones took over    *)
(* before the loop noticed (handle_one_frame, "switch due to new           *)
(* subscriber").                                                           *)
Decodable == garbled => adopted

(* A refresh that a subscriber asks for is not lost: until its key frame   *)
(* is out, the option is still set or the encoder is new (OPTION_REFRESH   *)
(* in run and refresh_video_display).                                      *)
RefreshNotLost == pending \cap subscribes # {} => refresh \/ key_next

(* Dropping the server terminates: the loop over frames, the wait in it    *)
(* and the restarts after errors all come back to `active`.                *)
JoinTerminates == joiner = "waiting" ~> joiner = "done"

-----------------------------------------------------------------------------
(* What comments say and the code does not do.                             *)

(* "break if all connections have received current frame"                  *)
(* (video_service.rs:875): when the wait ends by its count, every          *)
(* connection it waited for has taken the current frame from its queue, or *)
(* is leaving.                                                             *)
AllReceivedCurrentFrame ==
  [][(try_wait_next /\ vpc' = "done")
       => \A c \in send_conn_ids \cap connections : c \in closing \/ queue[c] = 0]_vars

(* "record which connections need to be notified when [...] the client is  *)
(* closing" (video_service.rs:72): a wait does not depend on a connection  *)
(* that has left its loop and whose notification is not on its way.        *)
ClosingIsNotified ==
  vpc = "wait" =>
    \A c \in send_conn_ids \cap closing :
      c \in fetched \cup notifier

=============================================================================
