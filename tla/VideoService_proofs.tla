------------------------- MODULE VideoService_proofs -------------------------
(***************************************************************************)
(* Proofs about VideoService, for any number of viewers and frames: that   *)
(* it is a Service, and what its viewers are promised.                     *)
(***************************************************************************)
EXTENDS VideoService, FiniteSetTheorems, TLAPS

(* The service that S is, with what is proved of it.                       *)
P == INSTANCE Service_proofs WITH NeedSnapshot <- TRUE, Repeat <- FALSE

(* A step of the connections, or of the service thread, is a step of the   *)
(* framework or leaves it alone.                                           *)
LEMMA ConnectionsAreServerCalls ==
  Connections => S!ServerCalls \/ UNCHANGED serviceVars
BY DEF Connections, S!ServerCalls, open_connection, capture_displays, refresh_video_display,
       rx_video, video_received, leave_loop, close_connection, capture_displays_continues,
       drop_server

(* A step of the thread of the video service is one of the thread of a       *)
(* service, or leaves what Service knows alone.                              *)
LEMMA ThreadIsThread ==
  Thread => S!Thread \/ UNCHANGED serviceVars
BY DEF Thread, S!Thread, service_loop, run, setup_encoder, clear_refresh, check_ok, bail,
       display_changed, capture, would_block, snapshot, drop_swap, send_video_frame,
       encode_fails, set_send, try_wait_next, wait_timeout, end_wait

(* The video service implements the service framework: the loop over       *)
(* frames with its encoder, refreshes and waits, and the connections that  *)
(* come, go and acknowledge, take no step that Service does not know.      *)
THEOREM ImplementsService == Spec => ServiceSafety
<1>1. Init => S!Init
  BY DEF Init
<1>2. [Next]_vars => [S!Next]_(S!vars)
  BY ConnectionsAreServerCalls, ThreadIsThread
     DEF Next, S!Next, vars, serviceVars, S!vars, S!serverVars
<1> QED BY <1>1, <1>2, PTL DEF Spec, ServiceSafety

-----------------------------------------------------------------------------
(* S and P are the same service.                                           *)
LEMMA SameInit == S!Init => P!Init
BY DEF S!Init, P!Init, S!NoCall, P!NoCall

(* The steps of its thread are the same.                                   *)
LEMMA SameThread == S!Thread => P!Thread
BY DEF S!Thread, S!check_active, S!check_subscribes, S!check_ok, S!begin_work, S!no_work,
       S!snapshot, S!send_new_subscribes, S!snapshot_fails, S!drop_swap, S!send_shared,
       S!callback_fails, S!after_error, S!Goto, S!membership, S!serverVars, S!NextRound,
       S!SwapPending, S!swap_new_subscribes, S!has_subscribes, S!ok,
       P!Thread, P!check_active, P!check_subscribes, P!check_ok, P!begin_work, P!no_work,
       P!snapshot, P!send_new_subscribes, P!snapshot_fails, P!drop_swap, P!send_shared,
       P!callback_fails, P!after_error, P!Goto, P!membership, P!serverVars, P!NextRound,
       P!SwapPending, P!swap_new_subscribes, P!has_subscribes, P!ok

(* The calls of the server are the same.                                   *)
LEMMA SameCalls == S!ServerCalls => P!ServerCalls
BY DEF S!ServerCalls, S!add_connection, S!remove_connection, S!subscribe, S!is_subed_new,
       S!subscribe_act, S!join, S!joined, S!NoCall, S!ServerFree, S!on_subscribe,
       S!on_unsubscribe, S!serverVars, S!SwapPending, S!Members,
       P!ServerCalls, P!add_connection, P!remove_connection, P!subscribe, P!is_subed_new,
       P!subscribe_act, P!join, P!joined, P!NoCall, P!ServerFree, P!on_subscribe,
       P!on_unsubscribe, P!serverVars, P!SwapPending, P!Members

(* What is proved of the service applies: its constants are such as it     *)
(* assumes.                                                                *)
LEMMA IsAService == P!ServiceAssumption
BY VideoAssumption DEF P!ServiceAssumption

(* A behaviour of the video service is one of the proved service.           *)
LEMMA BehavesAsService == Spec => P!Safety
<1>1. [S!Next]_(S!vars) => [P!Next]_(P!vars)
  BY SameThread, SameCalls DEF S!Next, P!Next, S!vars, P!vars, S!serverVars, P!serverVars
<1> QED BY <1>1, SameInit, ImplementsService, PTL DEF ServiceSafety, P!Safety

(* What is promised to the subscribers of a service is promised to the     *)
(* viewers of a display: each is in one map at most and in none when it is *)
(* gone, and Server::subscribe takes effect but for the race of its reads. *)
THEOREM ViewersSubscribed ==
  Spec => []S!TypeOK /\ []S!Subscriptions /\ S!SubscribeTakesEffect
<1>1. Spec => []P!IInv
  BY BehavesAsService, P!Preserved, IsAService, PTL
<1>2. P!IInv => S!TypeOK
  BY DEF P!IInv, P!TypeOK, S!TypeOK, P!ThreadStates, S!ThreadStates
<1>3. P!IInv => S!Subscriptions
  BY DEF P!IInv, S!Subscriptions, P!Disjoint, S!Disjoint, P!RemovedNotSubscribed,
         S!RemovedNotSubscribed, P!Members, S!Members
<1>4. Spec => P!SubscribeTakesEffect
  BY BehavesAsService, P!CallsTakeEffect, IsAService, PTL
<1>5. Spec => S!SubscribeTakesEffect
  BY <1>4 DEF P!SubscribeTakesEffect, S!SubscribeTakesEffect, P!vars, S!vars, P!serverVars, S!serverVars, P!Members, S!Members
<1> QED BY <1>1, <1>2, <1>3, <1>5, PTL

-----------------------------------------------------------------------------
(* Where `run` is, as Service's pc and vpc tell it together.               *)
Phases ==
  /\ pc \in {"head", "has", "failed", "exit"} => vpc = "idle"
  /\ pc = "ok" => vpc \in {"setup", "clear", "loop", "sent", "wait", "done"}
  /\ pc \in {"body", "swap_err"} => vpc = "loop"
  /\ pc \in {"snap", "callback", "swap_ok", "work"} => vpc \in {"loop", "changed"}

(* A call is one of a connection, and only subscribers wait for a refresh. *)
Callers ==
  /\ subscribes \subseteq Conns /\ new_subscribes \subseteq Conns
  /\ pc \in S!ThreadStates
  /\ call \in [conn : Conns \cup {"none"}, sub : BOOLEAN, at : {"none", "new", "act"}]
  /\ call.at # "none" => call.conn \in Conns

(* Phases: where the loop stands and what is open fit each other.            *)
LEMMA PhasesInit == Init => Phases /\ Callers
BY DEF Init, S!Init, Phases, Callers, S!ThreadStates, S!NoCall

(* The connections keep them.                                                *)
LEMMA PhasesConnections == Phases /\ Callers /\ Connections => Phases' /\ Callers'
<1> SUFFICES ASSUME Phases, Callers, Connections PROVE Phases' /\ Callers'
  OBVIOUS
<1>1. UNCHANGED <<vpc, pc>>
  BY DEF Connections, open_connection, capture_displays, refresh_video_display, rx_video,
         video_received, leave_loop, close_connection, capture_displays_continues, drop_server,
         serviceVars, S!add_connection, S!remove_connection, S!subscribe, S!is_subed_new,
         S!subscribe_act, S!join, S!joined
<1>2. ASSUME NEW c \in Conns,
             open_connection(c) \/ refresh_video_display(c) \/ rx_video(c) \/ video_received(c)
               \/ leave_loop(c) \/ close_connection(c)
      PROVE  Callers'
  BY <1>1, <1>2 DEF Callers, open_connection, refresh_video_display, rx_video, video_received,
         leave_loop, close_connection, serviceVars, S!add_connection, S!remove_connection,
         S!on_subscribe, S!on_unsubscribe
<1>3. ASSUME NEW c \in Conns, NEW sub \in BOOLEAN, capture_displays(c, sub) PROVE Callers'
  BY <1>1, <1>3 DEF Callers, capture_displays, S!subscribe, S!NoCall
<1>4. ASSUME capture_displays_continues PROVE Callers'
  <2>1. CASE S!is_subed_new
    BY <1>1, <2>1 DEF Callers, S!is_subed_new, S!NoCall
  <2>2. CASE S!subscribe_act
    BY <1>1, <2>2 DEF Callers, S!subscribe_act, S!on_subscribe, S!on_unsubscribe, S!NoCall
  <2> QED BY <1>4, <2>1, <2>2 DEF capture_displays_continues
<1>5. ASSUME drop_server PROVE Callers'
  BY <1>1, <1>5 DEF Callers, drop_server, S!join, S!joined, S!serverVars
<1>6. Phases'
  BY <1>1 DEF Phases
<1> QED BY <1>2, <1>3, <1>4, <1>5, <1>6 DEF Connections

(* The thread keeps them.                                                    *)
LEMMA PhasesThread == Phases /\ Callers /\ Thread => Phases' /\ Callers'
BY DEF Phases, Callers, Thread, service_loop, run, setup_encoder, clear_refresh, check_ok, bail,
       display_changed, capture, would_block, snapshot, drop_swap, send_video_frame,
       encode_fails, set_send, try_wait_next, wait_timeout, end_wait, serviceVars,
       S!check_active, S!after_error, S!check_subscribes, S!check_ok, S!callback_fails,
       S!begin_work, S!no_work, S!snapshot, S!send_new_subscribes, S!snapshot_fails,
       S!drop_swap, S!send_shared, S!Goto, S!membership, S!serverVars, S!ThreadStates,
       S!SwapPending, S!swap_new_subscribes, S!NextRound, Returns, RoundOver, flowVars

-----------------------------------------------------------------------------
(* Every subscriber has all the frames of an encoder that has put out any, *)
(* unless the encoder was handed on; a swap that is to come adds nobody to *)
(* such a one.                                                             *)
Encoder ==
  /\ {key_next, adopted, garbled} \subseteq BOOLEAN
  /\ Decodable
  /\ vpc = "clear" => key_next
  /\ vpc \in {"loop", "sent", "wait", "done"} /\ ~key_next /\ ~adopted => subscribes \subseteq synced
  /\ pc = "swap_ok" /\ vpc = "loop" => key_next \/ adopted

(* Subscribers only are waiting for a refresh, and theirs is not lost.     *)
Refresh ==
  /\ {key_next, refresh} \subseteq BOOLEAN
  /\ pending \subseteq subscribes
  /\ pending # {} => refresh \/ key_next
  /\ vpc = "clear" => key_next

(* What the connections do to the maps of the service: only a subscriber   *)
(* that leaves is taken out, and nobody is put into `subscribes`.          *)
LEMMA ConnectionsOnly ==
  ASSUME Connections
  PROVE  /\ subscribes' \subseteq subscribes
         /\ UNCHANGED <<vpc, pc, frame, send_conn_ids, fetched, display_conn_ids,
                       key_next, synced, garbled, adopted>>
<1>1. ASSUME NEW c \in Conns,
             open_connection(c) \/ refresh_video_display(c) \/ rx_video(c) \/ video_received(c)
               \/ leave_loop(c) \/ close_connection(c)
               \/ \E sub \in BOOLEAN : capture_displays(c, sub)
      PROVE  /\ subscribes' \subseteq subscribes
             /\ UNCHANGED <<vpc, pc, frame, send_conn_ids, fetched, display_conn_ids,
                           key_next, synced, garbled, adopted>>
  BY <1>1 DEF open_connection, refresh_video_display, rx_video, video_received, leave_loop,
         close_connection, capture_displays, serviceVars, flowVars, streamVars,
         S!add_connection, S!remove_connection, S!subscribe, S!on_subscribe, S!on_unsubscribe
<1>2. ASSUME capture_displays_continues \/ drop_server
      PROVE  /\ subscribes' \subseteq subscribes
             /\ UNCHANGED <<vpc, pc, frame, send_conn_ids, fetched, display_conn_ids,
                           key_next, synced, garbled, adopted>>
  BY <1>2 DEF capture_displays_continues, drop_server, flowVars, streamVars, S!is_subed_new,
         S!subscribe_act, S!join, S!joined, S!on_subscribe, S!on_unsubscribe
<1> QED BY <1>1, <1>2 DEF Connections

(* Connections keep what is known of the encoder.                            *)
LEMMA EncoderConnections == Encoder /\ Connections => Encoder'
BY ConnectionsOnly DEF Encoder, Decodable

(* The thread keeps what an encoder says of the key frames it has made.      *)
LEMMA EncoderThread == Callers /\ Phases /\ Encoder /\ Thread => Encoder'
<1> SUFFICES ASSUME Callers, Phases, Encoder, Thread PROVE Encoder'
  OBVIOUS
<1> USE DEF Encoder, Decodable
<1>1. CASE service_loop \/ run \/ check_ok \/ bail \/ display_changed \/ capture \/ would_block
  <2>1. UNCHANGED <<subscribes, synced, key_next, adopted, garbled>> /\ pc' # "swap_ok"
    BY <1>1 DEF service_loop, run, check_ok, bail, display_changed, capture, would_block,
           streamVars, S!check_active, S!after_error, S!check_subscribes, S!check_ok,
           S!callback_fails, S!begin_work, S!no_work, S!Goto, S!membership, S!NextRound
  <2>2. /\ vpc' \in {"idle", "setup", "changed", vpc, "done"}
        /\ vpc' = "done" => vpc \in {"loop", "done"}
    BY <1>1 DEF Phases, service_loop, run, check_ok, bail, display_changed, capture,
           would_block, Returns, S!no_work, S!Goto
  <2> QED BY <2>1, <2>2
<1>2. CASE setup_encoder
  BY <1>2 DEF setup_encoder, serviceVars
<1>3. CASE clear_refresh
  BY <1>3 DEF clear_refresh, serviceVars, Phases
<1>4. CASE snapshot
  <2>1. UNCHANGED <<subscribes, synced, key_next, garbled, vpc>>
    BY <1>4 DEF snapshot, streamVars, S!snapshot, S!send_new_subscribes, S!snapshot_fails,
           S!membership
  <2>2. CASE UNCHANGED adopted /\ (pc' # "swap_ok" \/ vpc = "changed")
    BY <2>1, <2>2
  <2>3. CASE vpc = "loop" /\ subscribes = {} /\ adopted' = (adopted \/ ~key_next)
    <3>1. adopted' \in BOOLEAN /\ (adopted => adopted') /\ (key_next \/ adopted')
      BY <2>3
    <3> QED BY <2>1, <2>3, <3>1
  <2> QED BY <1>4, <2>2, <2>3 DEF snapshot, S!snapshot, S!send_new_subscribes, S!snapshot_fails, S!Goto
<1>5. CASE drop_swap
  <2>1. UNCHANGED <<synced, key_next, adopted, garbled>> /\ pc' \in {"work", "failed"}
    BY <1>5 DEF drop_swap, streamVars, S!drop_swap
  <2>2. /\ pc \in {"swap_ok", "swap_err"}
        /\ pc' = "failed" => vpc' = "idle"
        /\ pc' = "work" => pc = "swap_ok" /\ UNCHANGED vpc
    BY <1>5 DEF drop_swap, S!drop_swap, S!SwapPending, Returns
  <2> QED BY <2>1, <2>2 DEF Phases
<1>6. CASE send_video_frame
  <2>1. UNCHANGED <<subscribes, adopted>> /\ pc' = "ok" /\ vpc = "loop" /\ vpc' = "sent"
    BY <1>6 DEF send_video_frame, S!send_shared, S!Goto, S!membership, S!NextRound
  <2>2. CASE key_next
    <3>1. synced' = subscribes /\ UNCHANGED garbled /\ key_next' = FALSE
      BY <1>6, <2>2 DEF send_video_frame
    <3> QED BY <2>1, <3>1
  <2>3. CASE ~key_next
    <3>1. /\ garbled' = (garbled \/ subscribes \ synced # {})
          /\ synced' = synced \cap subscribes /\ key_next' = FALSE
      BY <1>6, <2>3 DEF send_video_frame
    <3>2. ~adopted => subscribes \subseteq synced /\ ~garbled
      BY <2>1, <2>3
    <3>3. garbled' \in BOOLEAN /\ (garbled' => adopted)
      BY <3>1, <3>2
    <3> QED BY <2>1, <3>1, <3>2, <3>3
  <2> QED BY <2>2, <2>3
<1>7. CASE encode_fails \/ set_send \/ try_wait_next \/ wait_timeout \/ end_wait
  <2>1. UNCHANGED <<subscribes, synced, key_next, adopted, garbled>>
    BY <1>7 DEF encode_fails, set_send, try_wait_next, wait_timeout, end_wait, streamVars,
           serviceVars, S!send_shared, S!membership
  <2>2. vpc \in {"loop", "sent", "wait", "done"} /\ vpc' \in {"loop", "wait", "done"} /\ pc' = "ok"
    BY <1>7 DEF Callers, Phases, S!ThreadStates, encode_fails, set_send, try_wait_next, wait_timeout, end_wait,
           serviceVars, S!send_shared, S!Goto, S!NextRound
  <2> QED BY <2>1, <2>2
<1> QED BY <1>1, <1>2, <1>3, <1>4, <1>5, <1>6, <1>7 DEF Thread

(* A request for a refresh that a connection makes is recorded in the        *)
(* option.                                                                   *)
LEMMA RefreshConnections == Callers /\ Refresh /\ Connections => Refresh'
<1> SUFFICES ASSUME Callers, Refresh, Connections PROVE Refresh'
  OBVIOUS
<1> USE DEF Refresh
<1>1. UNCHANGED <<vpc, key_next>>
  BY ConnectionsOnly
<1>2. ASSUME NEW c \in Conns, refresh_video_display(c) PROVE Refresh'
  BY <1>1, <1>2 DEF refresh_video_display, serviceVars
<1>3. ASSUME NEW c \in Conns, close_connection(c) PROVE Refresh'
  BY <1>1, <1>3 DEF close_connection, Leaves, S!remove_connection, S!on_unsubscribe
<1>4. ASSUME NEW c \in Conns,
             open_connection(c) \/ rx_video(c) \/ video_received(c) \/ leave_loop(c)
               \/ \E sub \in BOOLEAN : capture_displays(c, sub)
      PROVE  Refresh'
  BY <1>1, <1>4 DEF open_connection, rx_video, video_received, leave_loop, capture_displays,
         serviceVars, streamVars, S!add_connection, S!on_subscribe, S!subscribe
<1>5. ASSUME capture_displays_continues PROVE Refresh'
  <2>1. UNCHANGED refresh
    BY <1>5 DEF capture_displays_continues
  <2>2. CASE S!is_subed_new
    BY <1>1, <1>5, <2>1, <2>2 DEF capture_displays_continues, S!is_subed_new, S!subscribe_act, Leaves
  <2>3. CASE S!subscribe_act /\ call.sub
    BY <1>1, <1>5, <2>1, <2>3 DEF capture_displays_continues, S!is_subed_new, S!subscribe_act,
           S!on_subscribe
  <2>4. CASE S!subscribe_act /\ ~call.sub
    BY <1>1, <1>5, <2>1, <2>4 DEF capture_displays_continues, S!is_subed_new, S!subscribe_act,
           S!on_unsubscribe, Leaves
  <2> QED BY <1>5, <2>2, <2>3, <2>4 DEF capture_displays_continues
<1>6. ASSUME drop_server PROVE Refresh'
  BY <1>1, <1>6 DEF drop_server, streamVars, S!join, S!joined
<1> QED BY <1>2, <1>3, <1>4, <1>5, <1>6 DEF Connections

(* The thread takes a refresh from the option only to make a new encoder.    *)
LEMMA RefreshThread == Refresh /\ Thread => Refresh'
<1> SUFFICES ASSUME Refresh, Thread PROVE Refresh'
  OBVIOUS
<1> USE DEF Refresh
<1>1. CASE service_loop \/ run \/ check_ok \/ bail \/ display_changed \/ capture \/ would_block
             \/ encode_fails \/ set_send \/ try_wait_next \/ wait_timeout \/ end_wait
  <2>1. UNCHANGED <<subscribes, pending, refresh, key_next>>
    BY <1>1 DEF service_loop, run, check_ok, bail, display_changed, capture, would_block,
           encode_fails, set_send, try_wait_next, wait_timeout, end_wait, streamVars, serviceVars,
           S!check_active, S!after_error, S!check_subscribes, S!check_ok, S!callback_fails,
           S!begin_work, S!no_work, S!send_shared, S!membership
  <2>2. vpc' = "clear" => vpc = "clear"
    BY <1>1 DEF service_loop, run, check_ok, bail, display_changed, capture, would_block,
           encode_fails, set_send, try_wait_next, wait_timeout, end_wait, Returns
  <2> QED BY <2>1, <2>2
<1>2. CASE setup_encoder
  BY <1>2 DEF setup_encoder, serviceVars
<1>3. CASE clear_refresh
  BY <1>3 DEF clear_refresh, serviceVars
<1>4. CASE snapshot
  BY <1>4 DEF snapshot, S!snapshot, S!send_new_subscribes, S!snapshot_fails, S!membership
<1>5. CASE drop_swap
  BY <1>5 DEF drop_swap, S!drop_swap, S!swap_new_subscribes, streamVars, Returns
<1>6. CASE send_video_frame
  BY <1>6 DEF send_video_frame, S!send_shared, S!membership
<1> QED BY <1>1, <1>2, <1>3, <1>4, <1>5, <1>6 DEF Thread

-----------------------------------------------------------------------------
(* While a frame is out, and no wait was cut short: it is in the queue of  *)
(* each of its receivers, or with its client, or acknowledged, or lost as  *)
(* an acknowledgement; an acknowledgement is that of a receiver.  When no  *)
(* frame is out nothing is under way.                                      *)
OneOut(c) ==
  /\ queue[c] + inflight[c] <= 1
  /\ queue[c] + inflight[c] = 1 => c \in send_conn_ids \ (fetched \cup notifier)

Flow ==
  ~irregular =>
    /\ fetched \cup notifier \subseteq send_conn_ids
    /\ IF vpc \in {"sent", "wait"}
       THEN \A c \in Conns : OneOut(c)
       ELSE notifier = {} /\ \A c \in Conns : queue[c] = 0 /\ inflight[c] = 0

Typed ==
  /\ irregular \in BOOLEAN
  /\ queue \in [Conns -> Nat] /\ inflight \in [Conns -> Nat]
  /\ send_conn_ids \subseteq Conns /\ fetched \subseteq Conns /\ notifier \subseteq Conns
  /\ display_conn_ids \subseteq send_conn_ids
  /\ vpc \in {"idle", "setup", "clear", "loop", "changed"} => send_conn_ids = {}

(* Connections acknowledge frames and come and go without a second frame in  *)
(* a queue.                                                                  *)
LEMMA FlowConnections == Typed /\ Flow /\ Connections => Typed' /\ Flow'
<1> SUFFICES ASSUME Typed, Flow, Connections PROVE Typed' /\ Flow'
  OBVIOUS
<1> USE DEF Typed, Flow
<1>1. UNCHANGED <<vpc, send_conn_ids, fetched, display_conn_ids>>
  BY ConnectionsOnly
<1>2. ASSUME UNCHANGED <<queue, inflight, notifier>>, irregular' \in {irregular, TRUE}
      PROVE  Typed' /\ Flow'
  BY <1>1, <1>2 DEF OneOut
<1>3. ASSUME NEW c \in Conns,
             open_connection(c) \/ refresh_video_display(c)
               \/ \E sub \in BOOLEAN : capture_displays(c, sub)
      PROVE  Typed' /\ Flow'
  BY <1>2, <1>3 DEF open_connection, refresh_video_display, capture_displays, flowVars, connVars
<1>4. ASSUME NEW c \in Conns, rx_video(c) PROVE Typed' /\ Flow'
  <2>1. UNCHANGED irregular /\ queue[c] > 0 /\ queue' = [queue EXCEPT ![c] = @ - 1]
    BY <1>4 DEF rx_video
  <2>2. CASE c \in WebConns
    <3>1. inflight' = [inflight EXCEPT ![c] = @ + 1] /\ UNCHANGED notifier
      BY <1>4, <2>2 DEF rx_video
    <3> QED BY <1>1, <2>1, <3>1 DEF OneOut
  <2>3. CASE c \notin WebConns
    <3>1. notifier' = notifier \cup {c} /\ UNCHANGED inflight
      BY <1>4, <2>3 DEF rx_video
    <3> QED BY <1>1, <2>1, <3>1 DEF OneOut
  <2> QED BY <2>2, <2>3
<1>5. ASSUME NEW c \in Conns, video_received(c) PROVE Typed' /\ Flow'
  <2>1. /\ UNCHANGED <<irregular, queue>>
        /\ inflight[c] > 0 /\ inflight' = [inflight EXCEPT ![c] = @ - 1]
        /\ notifier' = IF c \in display_conn_ids THEN notifier \cup {c} ELSE notifier
    BY <1>5 DEF video_received, notify_by_conn_id
  <2> QED BY <1>1, <2>1 DEF OneOut
<1>6. ASSUME NEW c \in Conns, leave_loop(c) \/ close_connection(c) PROVE Typed' /\ Flow'
  <2>1. irregular' = TRUE
    BY <1>6 DEF leave_loop, close_connection, Leaves
  <2>2. Typed'
    BY <1>1, <1>6, <2>1 DEF leave_loop, close_connection, notify_by_conn_id, flowVars
  <2> QED BY <2>1, <2>2
<1>7. ASSUME capture_displays_continues \/ drop_server PROVE Typed' /\ Flow'
  BY <1>2, <1>7 DEF capture_displays_continues, drop_server, flowVars, connVars, Leaves
<1> QED BY <1>3, <1>4, <1>5, <1>6, <1>7 DEF Connections

(* Counting is enough: acknowledgements of receivers, as many as there are *)
(* receivers, are those of all of them.                                    *)
LEMMA AllFetched ==
  ASSUME NEW A, NEW R \in SUBSET Conns, A \subseteq R, Cardinality(A) >= Cardinality(R)
  PROVE  A = R
<1>1. IsFiniteSet(R)
  BY VideoAssumption, FS_Subset
<1>2. IsFiniteSet(A) /\ Cardinality(A) <= Cardinality(R)
      /\ (Cardinality(R) = Cardinality(A) => R = A)
  BY <1>1, FS_Subset
<1>3. Cardinality(A) \in Nat /\ Cardinality(R) \in Nat
  BY <1>1, <1>2, FS_CardinalityType
<1> QED BY <1>2, <1>3

(* The thread sends a frame only when the queues are empty, or the wait for  *)
(* them was given up.                                                        *)
LEMMA FlowThread == Callers /\ Phases /\ Typed /\ Flow /\ Thread => Typed' /\ Flow'
<1> SUFFICES ASSUME Callers, Phases, Typed, Flow, Thread PROVE Typed' /\ Flow'
  OBVIOUS
<1> USE DEF Typed, Flow
<1>1. CASE service_loop \/ run \/ display_changed \/ capture \/ would_block \/ snapshot
             \/ setup_encoder \/ clear_refresh \/ encode_fails
  <2>1. UNCHANGED <<irregular, queue, inflight, notifier, send_conn_ids, fetched, display_conn_ids>>
    BY <1>1 DEF service_loop, run, display_changed, capture, would_block, snapshot,
           setup_encoder, clear_refresh, encode_fails, flowVars, connVars
  <2>2. CASE UNCHANGED vpc
    BY <2>1, <2>2 DEF OneOut
  <2>3. CASE /\ vpc \in {"idle", "setup", "clear", "loop", "changed"}
             /\ vpc' \in {"setup", "clear", "loop", "changed", "done"}
    BY <2>1, <2>3
  <2> QED
    BY <1>1, <2>2, <2>3 DEF Phases, service_loop, run, display_changed, capture, would_block,
       snapshot, setup_encoder, clear_refresh, encode_fails, S!check_subscribes, S!begin_work,
       S!no_work, S!Goto
<1>2. CASE check_ok \/ drop_swap
  <2>1. UNCHANGED <<irregular, queue, inflight, notifier>>
    BY <1>2 DEF check_ok, drop_swap, connVars
  <2>2. CASE UNCHANGED <<vpc, send_conn_ids, fetched, display_conn_ids>>
    BY <2>1, <2>2 DEF OneOut
  <2>3. CASE Returns /\ vpc \notin {"sent", "wait"}
    BY <2>1, <2>3 DEF Returns, RoundOver
  <2> QED
    BY <1>2, <2>2, <2>3 DEF Phases, check_ok, drop_swap, S!drop_swap, S!SwapPending
<1>3. CASE bail
  <2>1. UNCHANGED <<queue, inflight, notifier>> /\ Returns
        /\ irregular' = (irregular \/ vpc \in {"sent", "wait", "done"})
    BY <1>3 DEF bail, connVars
  <2>2. CASE irregular
    BY <2>1, <2>2 DEF Returns, RoundOver
  <2>3. CASE ~irregular /\ vpc \in {"sent", "wait", "done"}
    BY <2>1, <2>3 DEF Returns, RoundOver
  <2>4. CASE ~irregular /\ vpc \notin {"sent", "wait", "done"}
    BY <2>1, <2>4 DEF Returns, RoundOver
  <2> QED BY <2>2, <2>3, <2>4
<1>4. CASE send_video_frame
  <2>1. /\ UNCHANGED <<fetched, display_conn_ids, notifier, inflight, irregular>>
        /\ vpc = "loop" /\ vpc' = "sent" /\ send_conn_ids' = subscribes
        /\ queue' = [c \in Conns |-> IF c \in subscribes THEN queue[c] + 1 ELSE queue[c]]
    BY <1>4 DEF send_video_frame
  <2>2. subscribes \subseteq Conns
    BY DEF Callers
  <2>3. ASSUME ~irregular PROVE Flow'
    BY <2>1, <2>2, <2>3 DEF OneOut
  <2>4. Typed'
    BY <2>1, <2>2
  <2> QED BY <2>1, <2>3, <2>4
<1>5. CASE set_send
  <2>1. /\ UNCHANGED <<fetched, notifier, queue, inflight, irregular, send_conn_ids>>
        /\ vpc = "sent"
        /\ display_conn_ids' = IF send_conn_ids # {} THEN send_conn_ids ELSE display_conn_ids
        /\ vpc' = IF send_conn_ids # {} THEN "wait" ELSE "done"
    BY <1>5 DEF set_send, connVars
  <2> QED BY <2>1 DEF OneOut
<1>6. CASE try_wait_next
  <2>1. /\ UNCHANGED <<queue, inflight, irregular, send_conn_ids, display_conn_ids>>
        /\ vpc = "wait" /\ fetched' = fetched \cup notifier /\ notifier' = {}
        /\ vpc' = IF Cardinality(fetched') >= Cardinality(send_conn_ids) THEN "done" ELSE "wait"
    BY <1>6 DEF try_wait_next, connVars
  <2>2. CASE vpc' = "wait"
    BY <2>1, <2>2 DEF OneOut
  <2>3. CASE vpc' = "done"
    <3>1. ~irregular => fetched' = send_conn_ids
      BY <2>1, <2>3, AllFetched
    <3> QED BY <2>1, <2>3, <3>1 DEF OneOut
  <2> QED BY <2>1, <2>2, <2>3
<1>7. CASE wait_timeout
  BY <1>7 DEF wait_timeout, flowVars, connVars
<1>8. CASE end_wait
  BY <1>8 DEF end_wait, RoundOver, connVars
<1> QED BY <1>1, <1>2, <1>3, <1>4, <1>5, <1>6, <1>7, <1>8 DEF Thread

-----------------------------------------------------------------------------
IInv == Callers /\ Phases /\ Encoder /\ Refresh /\ Typed /\ Flow

(* All of it holds before the first connection.                              *)
LEMMA InitInv == Init => IInv
<1> SUFFICES ASSUME Init PROVE Encoder /\ Refresh /\ Typed /\ Flow
  BY PhasesInit DEF IInv
<1> QED BY DEF Init, S!Init, Encoder, Decodable, Refresh, Typed, Flow

(* A step that leaves everything alone keeps it.                             *)
LEMMA StutterInv == IInv /\ UNCHANGED vars => IInv'
<1> SUFFICES ASSUME IInv, UNCHANGED vars PROVE IInv'
  OBVIOUS
<1> USE DEF vars, serviceVars, flowVars, connVars, streamVars
<1>1. Callers' /\ Phases'
  BY DEF IInv, Callers, Phases
<1>2. Encoder' /\ Refresh'
  BY DEF IInv, Encoder, Decodable, Refresh
<1>3. Typed' /\ Flow'
  BY DEF IInv, Typed, Flow, OneOut
<1> QED BY <1>1, <1>2, <1>3 DEF IInv

(* Every step of connections and thread keeps it.                            *)
LEMMA StepInv == IInv /\ [Next]_vars => IInv'
<1>1. IInv /\ Connections => IInv'
  BY PhasesConnections, EncoderConnections, RefreshConnections, FlowConnections DEF IInv
<1>2. IInv /\ Thread => IInv'
  BY PhasesThread, EncoderThread, RefreshThread, FlowThread DEF IInv
<1> QED BY <1>1, <1>2, StutterInv DEF Next

(* The inductive invariant holds in every reachable state.                 *)
THEOREM Invariance == Spec => []IInv
BY InitInv, StepInv, PTL DEF Spec

(* Flow control, for any number of viewers: until a wait is cut short or a *)
(* viewer leaves, counting acknowledgements keeps all queues at one frame. *)
THEOREM FlowControlled == Spec => []FlowControl
<1>1. IInv => FlowControl
  BY DEF IInv, Typed, Flow, OneOut, FlowControl
<1> QED BY Invariance, <1>1, PTL

(* No subscriber is sent a frame it cannot decode, but of an encoder that  *)
(* was handed on.                                                          *)
THEOREM SubscribersDecode == Spec => []Decodable
<1>1. IInv => Decodable
  BY DEF IInv, Encoder
<1> QED BY Invariance, <1>1, PTL

(* The refresh of a subscriber is pending or its key frame is to come.     *)
THEOREM RefreshKept == Spec => []RefreshNotLost
<1>1. IInv => RefreshNotLost
  BY DEF IInv, Refresh, RefreshNotLost
<1> QED BY Invariance, <1>1, PTL

-----------------------------------------------------------------------------
(* No more frames are in a queue or with a client than were sent, and a    *)
(* round that goes on to send one has room for it.                         *)
Within ==
  /\ queue \in [Conns -> Nat] /\ inflight \in [Conns -> Nat] /\ frame \in 0 .. MaxFrames
  /\ \A c \in Conns : queue[c] + inflight[c] <= frame
  /\ pc \in {"snap", "callback", "swap_ok", "work"} /\ vpc = "loop" => frame < MaxFrames
  /\ closing \subseteq Conns /\ synced \subseteq Conns

(* The connections take frames over, and make none.                         *)
LEMMA WithinConnections == Within /\ Connections => Within'
<1> SUFFICES ASSUME Within, Connections PROVE Within'
  OBVIOUS
<1> USE DEF Within
<1>1. UNCHANGED <<vpc, pc, frame, synced>>
  BY ConnectionsOnly
<1>2. ASSUME NEW c \in Conns,
             open_connection(c) \/ refresh_video_display(c)
               \/ \E sub \in BOOLEAN : capture_displays(c, sub)
      PROVE  Within'
  BY <1>1, <1>2 DEF open_connection, refresh_video_display, capture_displays, connVars
<1>3. ASSUME NEW c \in Conns, rx_video(c) PROVE Within'
  <2>1. queue[c] \in Nat /\ queue[c] > 0 /\ inflight[c] \in Nat
    BY <1>3 DEF rx_video
  <2>2. queue' = [queue EXCEPT ![c] = @ - 1] /\ UNCHANGED closing
        /\ inflight' \in {inflight, [inflight EXCEPT ![c] = @ + 1]}
    BY <1>3 DEF rx_video
  <2>3. queue[c] - 1 \in Nat /\ inflight[c] + 1 \in Nat
        /\ (queue[c] - 1) + (inflight[c] + 1) = queue[c] + inflight[c]
        /\ (queue[c] - 1) + inflight[c] <= queue[c] + inflight[c]
    BY <2>1
  <2> QED BY <1>1, <2>1, <2>2, <2>3
<1>4. ASSUME NEW c \in Conns, video_received(c) PROVE Within'
  <2>1. queue[c] \in Nat /\ inflight[c] > 0 /\ inflight[c] \in Nat
        /\ inflight' = [inflight EXCEPT ![c] = @ - 1] /\ UNCHANGED <<closing, queue>>
    BY <1>4 DEF video_received
  <2> QED BY <1>1, <2>1
<1>5. ASSUME NEW c \in Conns, leave_loop(c) PROVE Within'
  BY <1>1, <1>5 DEF leave_loop
<1>6. ASSUME NEW c \in Conns, close_connection(c) PROVE Within'
  BY <1>1, <1>6 DEF close_connection
<1>7. ASSUME capture_displays_continues \/ drop_server PROVE Within'
  BY <1>1, <1>7 DEF capture_displays_continues, drop_server, connVars
<1> QED BY <1>2, <1>3, <1>4, <1>5, <1>6, <1>7 DEF Connections

(* The thread sends a frame only in a round that began with one to send.    *)
LEMMA WithinThread == Callers /\ Phases /\ Within /\ Thread => Within'
<1> SUFFICES ASSUME Callers, Phases, Within, Thread PROVE Within'
  OBVIOUS
<1> USE VideoAssumption DEF Within
<1>1. CASE send_video_frame
  <2>1. /\ vpc = "loop" /\ vpc' = "sent" /\ pc = "work" /\ frame' = frame + 1
        /\ queue' = [c \in Conns |-> IF c \in subscribes THEN queue[c] + 1 ELSE queue[c]]
        /\ UNCHANGED <<inflight, closing>> /\ subscribes \subseteq Conns
        /\ synced' \subseteq synced \cup subscribes
    BY <1>1 DEF Callers, send_video_frame, S!send_shared, S!Goto
  <2> QED BY <2>1
<1>2. CASE setup_encoder
  BY <1>2 DEF setup_encoder, flowVars, connVars, serviceVars
<1>3. CASE capture
  BY <1>3 DEF capture, flowVars, connVars, streamVars
<1>4. CASE service_loop \/ run \/ clear_refresh \/ check_ok \/ bail \/ display_changed
             \/ would_block \/ snapshot \/ drop_swap \/ encode_fails \/ set_send \/ try_wait_next
             \/ wait_timeout \/ end_wait
  <2>1. UNCHANGED <<queue, inflight, frame, closing, synced>>
    BY <1>4 DEF service_loop, run, clear_refresh, check_ok, bail, display_changed, would_block,
           snapshot, drop_swap, encode_fails, set_send, try_wait_next, wait_timeout, end_wait,
           flowVars, connVars, streamVars
  <2>2. pc' \in {"snap", "callback", "swap_ok", "work"} /\ vpc' = "loop"
          => pc \in {"snap", "callback", "swap_ok", "work"} /\ vpc = "loop"
    BY <1>4 DEF Callers, Phases, service_loop, run, clear_refresh, check_ok, bail, display_changed,
           would_block, snapshot, drop_swap, encode_fails, set_send, try_wait_next, wait_timeout,
           end_wait, serviceVars, Returns, S!ThreadStates, S!check_active, S!after_error,
           S!check_subscribes, S!check_ok, S!callback_fails, S!begin_work, S!no_work, S!snapshot,
           S!send_new_subscribes, S!snapshot_fails, S!drop_swap, S!SwapPending, S!send_shared,
           S!Goto, S!NextRound
  <2> QED BY <2>1, <2>2
<1> QED BY <1>1, <1>2, <1>3, <1>4 DEF Thread

(* Type correctness of the video service, with its service: no queue holds *)
(* more frames than were sent, for any number of viewers and frames.       *)
THEOREM TypeCorrect == Spec => []TypeOK
<1>1. Init => Within
  BY VideoAssumption DEF Init, Within, S!Init
<1>2. IInv /\ Within /\ [Next]_vars => Within'
  <2>1. Within /\ UNCHANGED vars => Within'
    BY DEF Within, vars, serviceVars, flowVars, connVars, streamVars
  <2> QED BY <2>1, WithinConnections, WithinThread DEF IInv, Next
<1>3. IInv /\ Within /\ S!TypeOK => TypeOK
  <2> SUFFICES ASSUME IInv, Within, S!TypeOK PROVE TypeOK
    OBVIOUS
  <2>1. queue \in [Conns -> Backlog] /\ inflight \in [Conns -> Backlog]
    <3>1. \A c \in Conns : queue[c] \in Backlog /\ inflight[c] \in Backlog
      BY VideoAssumption DEF Within, Backlog
    <3> QED BY <3>1 DEF Within
  <2>2. vpc \in {"idle", "setup", "clear", "loop", "changed", "sent", "wait", "done"}
    BY DEF IInv, Phases, Callers, S!ThreadStates
  <2>3. refresh \in BOOLEAN /\ key_next \in BOOLEAN
    BY Zenon DEF IInv, Refresh
  <2>4. garbled \in BOOLEAN /\ adopted \in BOOLEAN /\ irregular \in BOOLEAN
    BY Zenon DEF IInv, Encoder, Typed
  <2>5. /\ frame \in 0 .. MaxFrames /\ closing \subseteq Conns /\ synced \subseteq Conns
        /\ send_conn_ids \subseteq Conns /\ fetched \subseteq Conns
        /\ display_conn_ids \subseteq Conns /\ notifier \subseteq Conns
        /\ pending \subseteq Conns
    BY DEF IInv, Within, Typed, Refresh, Callers
  <2> QED BY <2>1, <2>2, <2>3, <2>4, <2>5 DEF TypeOK
<1> QED BY Invariance, ViewersSubscribed, <1>1, <1>2, <1>3, StepInv, InitInv, PTL DEF Spec
=============================================================================
