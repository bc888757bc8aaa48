----------------------------- MODULE VoiceCall -----------------------------
(***************************************************************************)
(* A voice call of one session, between                                    *)
(*   - the client (src/src/client/io_loop.rs), which asks for the call,    *)
(*     records its microphone while it has a stop_voice_call_sender, and   *)
(*     shows the state of the call in its toolbar;                         *)
(*   - the connection of the controlled side (src/src/server/connection.rs)*)
(*     which keeps the request until the user answers it;                  *)
(*   - the connection manager (src/src/ui_cm_interface.rs), where the user *)
(*     of the controlled side accepts, dismisses or stops the call.        *)
(* Three processes and four channels, each in order: any two of the three  *)
(* may act on what the third has already changed.  What a call does to the *)
(* audio of a camera view is modelled in Permissions.                      *)
(***************************************************************************)
EXTENDS Naturals, Sequences

CONSTANTS
  MaxRequests,   (* bound: calls the client's user asks for            *)
  MaxClicks      (* bound: other clicks of the two users, broken links *)

(* Assumed of the constants by every module that gives them values. *)
VoiceCallAssumption == MaxRequests \in Nat /\ MaxClicks \in Nat

VARIABLES
  status,        (* VoiceCallStatus of the client's toolbar                     *)
  request_ts,    (* the client's voice_call_request_timestamp, 0 is None        *)
  recording,     (* the request whose answer made the client record, 0: it does
                    not, stop_voice_call_sender is None                         *)
  server_ts,     (* the connection's voice_call_request_timestamp, 0 is None    *)
  voice_calling, (* Connection.voice_calling                                    *)
  board,         (* the connection manager's Client: in_voice_call and
                    incoming_voice_call                                         *)
  up, down,      (* client to connection, connection to client                  *)
  toCm, fromCm,  (* connection to connection manager and back                   *)
  accepted,      (* history: the requests that the connection accepted          *)
  last,          (* history: what the user of the connection manager did last   *)
  overlapped,    (* history: the client acted while a request of it was open,
                    or asked for a call during a call                           *)
  requests, clicks  (* counters for the bounds; a request's number is its time  *)

vars == <<status, request_ts, recording, server_ts, voice_calling, board, up, down, toCm,
          fromCm, accepted, last, overlapped, requests, clicks>>

Requests == 1 .. MaxRequests

Msg(kind, ts) == [kind |-> kind, ts |-> ts]
Connect(ts) == Msg("request", ts)          (* VoiceCallRequest { is_connect: true }  *)
Disconnect == Msg("close", 0)              (* VoiceCallRequest { is_connect: false } *)
Response(ts, accept) == Msg(IF accept THEN "accepted" ELSE "refused", ts)

TypeOK ==
  /\ status \in {"notStarted", "waitingForResponse", "connected"}
  /\ request_ts \in {0} \cup Requests
  /\ recording \in {0} \cup Requests
  /\ server_ts \in {0} \cup Requests
  /\ voice_calling \in BOOLEAN
  /\ board \in {"idle", "incoming", "in"}
  /\ \A i \in DOMAIN up : up[i].kind \in {"request", "close"}
  /\ \A i \in DOMAIN down : down[i].kind \in {"close", "accepted", "refused"}
  /\ \A i \in DOMAIN toCm : toCm[i] \in {"StartVoiceCall", "VoiceCallIncoming", "CloseVoiceCall"}
  /\ \A i \in DOMAIN fromCm : fromCm[i] \in {"accept", "dismiss", "close"}
  /\ accepted \subseteq Requests
  /\ last \in {"none", "accept", "dismiss", "close"}
  /\ overlapped \in BOOLEAN
  /\ requests \in 0 .. MaxRequests /\ clicks \in 0 .. MaxClicks
  (* a request is answered once *)
  /\ server_ts # 0 => server_ts \notin accepted

client == <<status, request_ts, recording>>
connection == <<server_ts, voice_calling>>

-----------------------------------------------------------------------------
(* The client *)

(* "Voice call" in the chat menu, which is always there: Data::NewVoiceCall *)
NewVoiceCall ==
  /\ requests < MaxRequests
  /\ requests' = requests + 1
  /\ request_ts' = requests'
  /\ up' = Append(up, Connect(requests'))
  /\ status' = "waitingForResponse"
  /\ overlapped' = (overlapped \/ request_ts # 0 \/ recording # 0)
  /\ UNCHANGED <<recording, connection, board, down, toCm, fromCm, accepted, last, clicks>>

(* "End call", or the waiting icon: Data::CloseVoiceCall.  The request's
   timestamp stays. *)
CloseVoiceCall ==
  /\ status # "notStarted"
  /\ clicks < MaxClicks
  /\ clicks' = clicks + 1
  /\ recording' = 0
  /\ status' = "notStarted"
  /\ up' = Append(up, Disconnect)
  /\ overlapped' = (overlapped \/ request_ts # 0)
  /\ UNCHANGED <<request_ts, connection, board, down, toCm, fromCm, accepted, last, requests>>

(* the client takes the next message of the connection *)
Received(kinds) ==
  /\ down # <<>> /\ Head(down).kind \in kinds
  /\ down' = Tail(down)
  /\ UNCHANGED <<connection, board, up, toCm, fromCm, accepted, last, overlapped, requests, clicks>>

(* message::Union::VoiceCallRequest with is_connect false *)
on_close ==
  /\ Received({"close"})
  /\ recording' = 0
  /\ status' = IF recording # 0 THEN "notStarted" ELSE status
  /\ UNCHANGED request_ts

(* Mutant: the answer is not compared with the request. *)
on_response_unchecked ==
  /\ Received({"accepted", "refused"})
  /\ request_ts' = 0
  /\ IF Head(down).kind = "accepted"
     THEN status' = "connected" /\ recording' = Head(down).ts
     ELSE status' = "notStarted" /\ UNCHANGED recording

(* message::Union::VoiceCallResponse: whatever it is, no request is open any
   more.  A new recorder replaces the old one; a refusal leaves it. *)
on_response ==
  /\ Received({"accepted", "refused"})
  /\ request_ts' = 0
  /\ CASE request_ts = 0 \/ Head(down).ts # request_ts -> UNCHANGED <<status, recording>>
       [] request_ts # 0 /\ Head(down).ts = request_ts /\ Head(down).kind = "accepted" ->
            status' = "connected" /\ recording' = request_ts
       [] OTHER -> status' = "notStarted" /\ UNCHANGED recording

-----------------------------------------------------------------------------
(* The connection *)

(* message::Union::VoiceCallRequest *)
on_request ==
  /\ up # <<>> /\ Head(up).kind = "request"
  /\ up' = Tail(up)
  /\ server_ts' = Head(up).ts
  /\ toCm' = Append(toCm, "VoiceCallIncoming")
  /\ UNCHANGED <<client, voice_calling, board, down, fromCm, accepted, last, overlapped, requests,
                 clicks>>

(* Mutant: only the board is told. *)
close_voice_call_board ==
  /\ toCm' = Append(toCm, "CloseVoiceCall")
  /\ UNCHANGED connection

(* Connection::close_voice_call *)
close_voice_call ==
  /\ toCm' = Append(toCm, "CloseVoiceCall")
  /\ voice_calling' = FALSE
  /\ UNCHANGED server_ts

on_hang_up ==
  /\ up # <<>> /\ Head(up).kind = "close"
  /\ up' = Tail(up)
  /\ close_voice_call
  /\ UNCHANGED <<client, board, down, fromCm, accepted, last, overlapped, requests, clicks>>

(* Mutant: the request is read and not taken. *)
handle_voice_call_keeps(accept) ==
  /\ UNCHANGED server_ts
  /\ toCm' = Append(toCm, IF accept THEN "StartVoiceCall" ELSE "CloseVoiceCall")
  /\ down' = Append(down, Response(server_ts, accept))
  /\ voice_calling' = accept
  /\ accepted' = IF accept THEN accepted \cup {server_ts} ELSE accepted

(* Mutant: a dismissal is only told to the peer. *)
handle_voice_call_silent(accept) ==
  IF server_ts = 0
  THEN UNCHANGED <<connection, toCm, down, accepted>>
  ELSE /\ server_ts' = 0
       /\ toCm' = IF accept THEN Append(toCm, "StartVoiceCall") ELSE toCm
       /\ down' = Append(down, Response(server_ts, accept))
       /\ voice_calling' = accept
       /\ accepted' = IF accept THEN accepted \cup {server_ts} ELSE accepted

(* Connection::handle_voice_call: an answer without a request is ignored. *)
handle_voice_call(accept) ==
  IF server_ts = 0
  THEN UNCHANGED <<connection, toCm, down, accepted>>
  ELSE /\ server_ts' = 0
       /\ toCm' = Append(toCm, IF accept THEN "StartVoiceCall" ELSE "CloseVoiceCall")
       /\ down' = Append(down, Response(server_ts, accept))
       /\ voice_calling' = accept
       /\ accepted' = IF accept THEN accepted \cup {server_ts} ELSE accepted

(* ipc::Data::VoiceCallResponse *)
on_answer ==
  /\ fromCm # <<>> /\ Head(fromCm) # "close"
  /\ fromCm' = Tail(fromCm)
  /\ handle_voice_call(Head(fromCm) = "accept")
  /\ last' = Head(fromCm)
  /\ UNCHANGED <<client, board, up, overlapped, requests, clicks>>

(* Mutant: the peer is not told. *)
on_stop_silent ==
  /\ fromCm # <<>> /\ Head(fromCm) = "close"
  /\ fromCm' = Tail(fromCm)
  /\ close_voice_call
  /\ last' = "close"
  /\ UNCHANGED <<client, board, up, down, accepted, overlapped, requests, clicks>>

(* ipc::Data::CloseVoiceCall: closed, and the peer is told. *)
on_stop ==
  /\ fromCm # <<>> /\ Head(fromCm) = "close"
  /\ fromCm' = Tail(fromCm)
  /\ close_voice_call
  /\ down' = Append(down, Disconnect)
  /\ last' = "close"
  /\ UNCHANGED <<client, board, up, accepted, overlapped, requests, clicks>>

-----------------------------------------------------------------------------
(* The connection manager *)

(* voice_call_started, voice_call_incoming and voice_call_closed *)
update_voice_call_state ==
  /\ toCm # <<>>
  /\ toCm' = Tail(toCm)
  /\ board' = CASE Head(toCm) = "StartVoiceCall" -> "in"
                [] Head(toCm) = "VoiceCallIncoming" -> "incoming"
                [] Head(toCm) = "CloseVoiceCall" -> "idle"
  /\ UNCHANGED <<client, connection, up, down, fromCm, accepted, last, overlapped, requests, clicks>>

(* The buttons: Accept and Dismiss while a call comes in, Stop during one.
   They do not change the board, so they can be clicked twice. *)
click(button) ==
  /\ clicks < MaxClicks
  /\ clicks' = clicks + 1
  /\ board = IF button = "close" THEN "in" ELSE "incoming"
  /\ fromCm' = Append(fromCm, button)
  /\ UNCHANGED <<client, connection, board, up, down, toCm, accepted, last, overlapped, requests>>

handle_incoming_voice_call == \E button \in {"accept", "dismiss"} : click(button)
stop_voice_call == click("close")

-----------------------------------------------------------------------------
(* The link breaks: the io_loop ends and stops its recorder, the connection
   closes and its client leaves the board; the session is started anew. *)
reconnect ==
  /\ clicks < MaxClicks
  /\ clicks' = clicks + 1
  /\ status' = "notStarted" /\ request_ts' = 0 /\ recording' = 0
  /\ server_ts' = 0 /\ voice_calling' = FALSE /\ board' = "idle"
  /\ up' = <<>> /\ down' = <<>> /\ toCm' = <<>> /\ fromCm' = <<>>
  /\ last' = "none" /\ overlapped' = FALSE
  /\ UNCHANGED <<accepted, requests>>

Init ==
  /\ status = "notStarted" /\ request_ts = 0 /\ recording = 0
  /\ server_ts = 0 /\ voice_calling = FALSE /\ board = "idle"
  /\ up = <<>> /\ down = <<>> /\ toCm = <<>> /\ fromCm = <<>>
  /\ last = "none" /\ overlapped = FALSE
  /\ accepted = {} /\ requests = 0 /\ clicks = 0

Next ==
  \/ NewVoiceCall
  \/ CloseVoiceCall
  \/ on_close
  \/ on_response
  \/ on_request
  \/ on_hang_up
  \/ on_answer
  \/ on_stop
  \/ update_voice_call_state
  \/ handle_incoming_voice_call
  \/ stop_voice_call
  \/ reconnect

Spec == Init /\ [][Next]_vars

-----------------------------------------------------------------------------
Quiet == up = <<>> /\ down = <<>> /\ toCm = <<>> /\ fromCm = <<>>

(* When nothing is on its way, the board shows a call that the connection has,
   and the buttons of an incoming call only while a request waits or is gone
   with a call that has been hung up: what the user of the controlled side
   sees is what the connection does, whoever acted last. *)
BoardAgrees ==
  toCm = <<>> =>
    /\ board = "in" => voice_calling
    /\ voice_calling => board = "in" \/ server_ts # 0
    /\ board = "incoming" => server_ts # 0

(* The client begins to record for its user's latest request alone, and when
   the controlled side has accepted that one: a late answer to an earlier
   request is not taken for the answer to a newer one. *)
RecordsWhatWasAccepted ==
  [][recording' \notin {0, recording} => recording' = requests /\ recording' \in accepted]_vars

(* Both ends and the board agree about the call once everything has been
   delivered, if the client's user waited for an answer before the next
   request or hang-up.  The code breaks it for users who do not: hanging up
   does not withdraw the request, an answer to an earlier request closes the
   later one, and a refusal during a call does not stop the recorder. *)
Agreement ==
  Quiet /\ ~overlapped =>
    /\ (recording # 0) = voice_calling
    /\ (status = "connected") = voice_calling
    /\ status = "waitingForResponse" <=> server_ts # 0

(* A call that was stopped at the connection manager is over at both ends
   once everything has been delivered, until a later request is accepted:
   however requests and hang-ups of the client overlapped with it. *)
StopIsFinal == Quiet /\ last = "close" => recording = 0 /\ ~voice_calling

=============================================================================
