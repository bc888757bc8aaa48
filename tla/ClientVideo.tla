----------------------------- MODULE ClientVideo -----------------------------
(***************************************************************************)
(* The pictures of one display on their way from the host's encoder to the *)
(* client's decoder and its recording (src/src/client/io_loop.rs,          *)
(* src/src/client.rs, src/libs/scrap/src/common/record.rs).                *)
(*                                                                         *)
(* The loop of the session hands a key frame to the video thread through   *)
(* the thread's channel.  Any other frame goes into a bounded queue, and   *)
(* the channel gets a token for it; a frame pushed into a full queue takes *)
(* the place of the oldest one, without a token of its own, and the host   *)
(* is asked for a refresh.  So the order of frames, key frames, resets and *)
(* the start of a recording has to come out right from two queues, a flag  *)
(* and the answers of the host.                                            *)
(*                                                                         *)
(* Of a frame are kept: the encoder it is from, its place and time stamp   *)
(* in that encoder's output (both start anew with every encoder), whether  *)
(* it is a key frame, and the codec.                                       *)
(***************************************************************************)
EXTENDS Integers, Sequences

CONSTANTS
  VIDEO_QUEUE_SIZE,
  Codecs,         (* codecs in the order the host would choose them; the   *)
                  (* last one is VP9, which it takes when nothing else is  *)
  KeyInterval,    (* keyframe_interval of an encoder that is recorded      *)
  MaxFrames,      (* bound: frames that are no answer to anything          *)
  MaxRefreshes,   (* bound: refreshes the user asks for                    *)
  MaxSwitches,    (* bound: the user comes from all displays to this one   *)
  MaxChanges,     (* bound: changes of the display at the host             *)
  MaxRecords      (* bound: starts and stops of the recording              *)

(* Assumed of the constants by every module that gives them values.         *)
ClientVideoAssumption ==
  /\ VIDEO_QUEUE_SIZE \in Nat \ {0} /\ KeyInterval \in Nat \ {0}
  /\ Codecs \in Seq(STRING) /\ Codecs # <<>>
  /\ {MaxFrames, MaxRefreshes, MaxSwitches, MaxChanges, MaxRecords} \subseteq Nat

VARIABLES
  encoder,        (* the host's encoder and what it puts out next          *)
  refresh,        (* OPTION_REFRESH of the video service                   *)
  user_record,    (* VideoQoS: record of this user                         *)
  negotiated,     (* Encoder::negotiated_codec()                           *)
  sent,           (* the last frame of the host                            *)
  toClient, toHost

host == <<encoder, refresh, user_record, negotiated, sent>>

VARIABLES
  receiver,       (* Data for the loop of the session                      *)
  channel,        (* video_sender, video_receiver                          *)
  video_queue,
  discard_queue,
  record_state,   (* also Remote.last_record_state                         *)
  hold,           (* what the video thread has in its hands                *)
  decoder,        (* VideoHandler: decoder, first_frame, fail_counter      *)
  mark_unsupported,
  shown,          (* the last frame decoded                                *)
  recorder        (* VideoHandler.record and the Recorder                  *)

io == <<receiver, record_state>>
queues == <<channel, video_queue, discard_queue>>
thread == <<hold, decoder, mark_unsupported, shown, recorder>>

VARIABLES frames, refreshes, switches, changes, records    (* bounds        *)

VARIABLES         (* history                                               *)
  garbled,        (* the picture shown was made without a frame it needs   *)
  unjust          (* a codec was marked for a frame its decoder had not    *)
                  (* been given the references of                          *)

bounds == <<frames, refreshes, switches, changes, records>>
history == <<garbled, unjust>>
vars == <<host, toClient, toHost, io, queues, thread, bounds, history>>

None == [codec |-> "none", run |-> 0, pts |-> 0, key |-> FALSE]
Range(s) == {s[i] : i \in DOMAIN s}

(* g can be decoded after f.                                                *)
Follows(f, g) == g.key \/ (f.codec = g.codec /\ f.run = g.run /\ g.pts = f.pts + 1)

NewEncoder(codec, run, record) == [codec |-> codec, run |-> run, pts |-> 0, record |-> record]
NewDecoder(codec) == [codec |-> codec, fresh |-> TRUE, first_frame |-> TRUE, fail_counter |-> 0]
NoRecorder == [record |-> FALSE, codec |-> "none", pts |-> -1, file |-> <<>>]

Init ==
  /\ encoder = NewEncoder(Codecs[1], 1, FALSE)
  /\ refresh = FALSE /\ user_record = FALSE /\ negotiated = Codecs[1]
  /\ sent = None
  /\ toClient = <<>> /\ toHost = <<>>
  /\ receiver = <<>> /\ channel = <<>> /\ video_queue = <<>>
  /\ discard_queue = FALSE /\ record_state = FALSE
  /\ hold = [is |-> "idle", frame |-> None]
  /\ decoder = NewDecoder("none") /\ mark_unsupported = {}
  /\ shown = None /\ recorder = NoRecorder
  /\ frames = 0 /\ refreshes = 0 /\ switches = 0 /\ changes = 0 /\ records = 0
  /\ garbled = FALSE /\ unjust = FALSE

-----------------------------------------------------------------------------
(* The host: the loop of the video service and its connection.              *)

Frame(f) == [type |-> "frame", frame |-> f]
SwitchDisplay == [type |-> "switch_display", frame |-> None]

NextFrame ==
  [codec |-> encoder.codec, run |-> encoder.run, pts |-> encoder.pts,
   key |-> encoder.pts = 0 \/ (encoder.record /\ encoder.pts % KeyInterval = 0)]

MustSwitch == refresh \/ encoder.record # user_record \/ encoder.codec # negotiated

(* The loop may be past its checks when something asks for a new encoder.   *)
handle_one_frame ==
  /\ encoder.pts = 0 \/ frames < MaxFrames
  /\ frames' = IF encoder.pts = 0 THEN frames ELSE frames + 1
  /\ toClient' = Append(toClient, Frame(NextFrame))
  /\ sent' = NextFrame
  /\ encoder' = [encoder EXCEPT !.pts = @ + 1]
  /\ UNCHANGED <<refresh, user_record, negotiated, toHost, io, queues, thread,
                 refreshes, switches, changes, records, history>>

(* run ends with SWITCH and is begun again: a new encoder, and what asked   *)
(* for it is done.  A change of the display is announced first, through the *)
(* queue of the video frames.                                               *)
Restart(changed) ==
  /\ MustSwitch \/ changed
  /\ changed => changes < MaxChanges
  /\ changes' = IF changed THEN changes + 1 ELSE changes
  /\ toClient' = IF changed THEN Append(toClient, SwitchDisplay) ELSE toClient
  /\ encoder' = NewEncoder(negotiated, encoder.run + 1, user_record)
  /\ refresh' = FALSE
  /\ UNCHANGED <<user_record, negotiated, sent, toHost, io, queues, thread,
                 frames, refreshes, switches, records, history>>

(* A refresh forgotten before the frames of the new encoder: the mutant     *)
(* clears the option without a new encoder.                                 *)
Restart_forgets(changed) ==
  /\ MustSwitch \/ changed
  /\ changed => changes < MaxChanges
  /\ changes' = IF changed THEN changes + 1 ELSE changes
  /\ toClient' = IF changed THEN Append(toClient, SwitchDisplay) ELSE toClient
  /\ encoder' = [encoder EXCEPT !.codec = negotiated, !.record = user_record]
  /\ refresh' = FALSE
  /\ UNCHANGED <<user_record, negotiated, sent, toHost, io, queues, thread,
                 frames, refreshes, switches, records, history>>

update(marked) ==
  LET usable == {i \in DOMAIN Codecs : i = Len(Codecs) \/ Codecs[i] \notin marked}
  IN Codecs[CHOOSE i \in usable : \A j \in usable : i <= j]

(* on_message of the connection.  The display was captured already when the *)
(* client comes to it from all displays: subscribing changes nothing, and   *)
(* the answer is sent past the frames that wait in rx_video.                *)
on_message ==
  /\ toHost # <<>>
  /\ toHost' = Tail(toHost)
  /\ LET m == Head(toHost) IN
     /\ refresh' = (refresh \/ m.type = "refresh_video")
     /\ user_record' = IF m.type = "client_record_status" THEN m.start ELSE user_record
     /\ negotiated' = IF m.type = "supported_decoding" THEN update(m.marked) ELSE negotiated
     /\ IF m.type = "switch_display"
        THEN \E i \in 0 .. Len(toClient) :
               toClient' = SubSeq(toClient, 1, i) \o <<SwitchDisplay>>
                           \o SubSeq(toClient, i + 1, Len(toClient))
        ELSE UNCHANGED toClient
  /\ UNCHANGED <<encoder, sent, io, queues, thread, bounds, history>>

-----------------------------------------------------------------------------
(* The loop of the session.                                                 *)

RefreshVideo == [type |-> "refresh_video"]
RecordScreen(start) == [type |-> "record", start |-> start]
Token == [type |-> "video_queue"]
Reset == [type |-> "reset"]

(* Mutant: a frame that took the place of another gets a token too.         *)
push_always_sends(f) ==
  LET full == Len(video_queue) = VIDEO_QUEUE_SIZE IN
  /\ video_queue' = Append(IF full THEN Tail(video_queue) ELSE video_queue, f)
  /\ channel' = Append(channel, Token)
  /\ receiver' = IF full THEN Append(receiver, RefreshVideo) ELSE receiver

(* Mutant: no refresh is asked for.                                         *)
push_silently(f) ==
  LET full == Len(video_queue) = VIDEO_QUEUE_SIZE IN
  /\ video_queue' = Append(IF full THEN Tail(video_queue) ELSE video_queue, f)
  /\ channel' = IF full THEN channel ELSE Append(channel, Token)
  /\ UNCHANGED receiver

(* Mutant: the queue has no limit.                                          *)
push_without_limit(f) ==
  /\ video_queue' = Append(video_queue, f)
  /\ channel' = Append(channel, Token)
  /\ UNCHANGED receiver

force_push(f) ==
  LET full == Len(video_queue) = VIDEO_QUEUE_SIZE IN
  /\ video_queue' = Append(IF full THEN Tail(video_queue) ELSE video_queue, f)
  /\ channel' = IF full THEN channel ELSE Append(channel, Token)
  /\ receiver' = IF full THEN Append(receiver, RefreshVideo) ELSE receiver

handle_msg_from_peer ==
  /\ toClient # <<>>
  /\ toClient' = Tail(toClient)
  /\ LET m == Head(toClient) IN
     \/ /\ m.type = "frame" /\ m.frame.key
        /\ channel' = Append(channel, m)
        /\ UNCHANGED <<video_queue, receiver>>
     \/ /\ m.type = "frame" /\ ~m.frame.key
        /\ force_push(m.frame)
     \/ /\ m.type = "switch_display"
        /\ channel' = Append(channel, Reset)
        /\ UNCHANGED <<video_queue, receiver>>
  /\ UNCHANGED <<host, toHost, discard_queue, record_state, thread, bounds, history>>

(* Mutant: the host is not told of the recording.                           *)
handle_msg_from_ui_tells_nobody ==
  /\ receiver # <<>>
  /\ LET m == Head(receiver) IN
     \/ /\ m.type # "record"
        /\ discard_queue' = (discard_queue \/ m.type = "refresh_video")
        /\ toHost' = Append(toHost, m)
        /\ receiver' = Tail(receiver)
        /\ UNCHANGED <<channel, record_state>>
     \/ /\ m.type = "record" /\ m.start = record_state
        /\ receiver' = Tail(receiver)
        /\ UNCHANGED <<toHost, channel, record_state, discard_queue>>
     \/ /\ m.type = "record" /\ m.start # record_state
        /\ record_state' = m.start
        /\ channel' = Append(channel, m)
        /\ receiver' = Tail(receiver)
        /\ UNCHANGED <<toHost, discard_queue>>
  /\ UNCHANGED <<host, toClient, video_queue, thread, bounds, history>>

(* Data::Message(RefreshVideo): what is queued is to be dropped, and the    *)
(* request goes to the host.  Other messages are only sent.  RecordScreen:  *)
(* update_record_state tells the thread and, by the receiver, the host.     *)
handle_msg_from_ui ==
  /\ receiver # <<>>
  /\ LET m == Head(receiver) IN
     \/ /\ m.type # "record"
        /\ discard_queue' = (discard_queue \/ m.type = "refresh_video")
        /\ toHost' = Append(toHost, m)
        /\ receiver' = Tail(receiver)
        /\ UNCHANGED <<channel, record_state>>
     \/ /\ m.type = "record" /\ m.start = record_state
        /\ receiver' = Tail(receiver)
        /\ UNCHANGED <<toHost, channel, record_state, discard_queue>>
     \/ /\ m.type = "record" /\ m.start # record_state
        /\ record_state' = m.start
        /\ channel' = Append(channel, m)
        /\ receiver' = Append(Tail(receiver), [type |-> "client_record_status", start |-> m.start])
        /\ UNCHANGED <<toHost, discard_queue>>
  /\ UNCHANGED <<host, toClient, video_queue, thread, bounds, history>>

-----------------------------------------------------------------------------
(* The user: refresh, one display instead of all, record and stop.          *)

refresh_video ==
  /\ refreshes < MaxRefreshes
  /\ refreshes' = refreshes + 1
  /\ receiver' = Append(receiver, RefreshVideo)
  /\ UNCHANGED <<host, toClient, toHost, record_state, queues, thread, frames,
                 switches, changes, records, history>>

switch_display ==
  /\ switches < MaxSwitches /\ sent # None
  /\ switches' = switches + 1
  /\ receiver' = Append(receiver, [type |-> "switch_display"])
  /\ UNCHANGED <<host, toClient, toHost, record_state, queues, thread, frames,
                 refreshes, changes, records, history>>

(* RecordingModel.toggle; a start is preceded by a refresh.  The user sees  *)
(* what update_record_status has told last.                                 *)
toggle(start) ==
  /\ records < MaxRecords /\ start # record_state
  /\ records' = records + 1
  /\ receiver' = receiver \o (IF start THEN <<RefreshVideo, RecordScreen(TRUE)>> ELSE <<RecordScreen(FALSE)>>)
  /\ UNCHANGED <<host, toClient, toHost, record_state, queues, thread, frames,
                 refreshes, switches, changes, history>>

-----------------------------------------------------------------------------
(* The recorder.                                                            *)

(* Mutant: a time stamp that goes back starts no new file.                  *)
check_pts_never(r, f) == FALSE

check_pts(r, f) == (IF r.pts = -1 THEN 0 ELSE r.pts) > f.pts

(* Recorder.check, check_pts and write_video, for one frame.  A new file    *)
(* has no time stamp yet, except where the time going back started it.      *)
write_frame(r, f) ==
  LET r1 == IF r.codec = f.codec THEN r
            ELSE [r EXCEPT !.codec = f.codec, !.pts = -1, !.file = <<>>]
      again == check_pts(r1, f)
      before == IF again THEN <<>> ELSE r1.file
  IN IF ~r.record THEN r
     ELSE IF r1.pts = -1 /\ ~f.key THEN r1
     ELSE [r1 EXCEPT !.pts = f.pts,
                     !.file = IF before = <<>> /\ ~f.key THEN <<>> ELSE Append(before, f)]

record_screen(start) == [NoRecorder EXCEPT !.record = start]

-----------------------------------------------------------------------------
(* The video thread.                                                        *)

idle == [is |-> "idle", frame |-> None]

recv ==
  /\ hold.is = "idle" /\ channel # <<>>
  /\ channel' = Tail(channel)
  /\ LET m == Head(channel) IN
     \/ /\ m.type = "frame"
        /\ hold' = [is |-> "key", frame |-> m.frame]
        /\ UNCHANGED <<decoder, recorder>>
     \/ /\ m.type = "video_queue"
        /\ hold' = [is |-> "token", frame |-> None]
        /\ UNCHANGED <<decoder, recorder>>
     \/ /\ m.type = "reset"
        /\ decoder' = IF decoder.codec = "none" THEN decoder ELSE NewDecoder(decoder.codec)
        /\ UNCHANGED <<hold, recorder>>
     \/ /\ m.type = "record"
        /\ recorder' = IF decoder.codec = "none" THEN recorder ELSE record_screen(m.start)
        /\ UNCHANGED <<hold, decoder>>
  /\ UNCHANGED <<host, toClient, toHost, io, video_queue, discard_queue,
                 mark_unsupported, shown, bounds, history>>

pop ==
  /\ hold.is = "token"
  /\ hold' = IF video_queue = <<>> THEN idle ELSE [is |-> "popped", frame |-> Head(video_queue)]
  /\ video_queue' = IF video_queue = <<>> THEN <<>> ELSE Tail(video_queue)
  /\ UNCHANGED <<host, toClient, toHost, io, channel, discard_queue, decoder,
                 mark_unsupported, shown, recorder, bounds, history>>

(* handle_frame with its caller.  A frame without the frame before it gives *)
(* a wrong picture or an error; a decoder that has seen nothing always says *)
(* error.  An error asks for a refresh, and three in a row, or one with the *)
(* first frame, mark the codec.                                             *)
decode(f) ==
  LET first == decoder.codec = "none"
      d == IF decoder.codec = f.codec THEN decoder ELSE NewDecoder(f.codec)
      r == IF first THEN record_screen(record_state) ELSE recorder
      whole == f.key \/ (~d.fresh /\ ~garbled /\ Follows(shown, f))
  IN \E ok \in BOOLEAN :
       /\ f.key => ok
       /\ whole => ok
       /\ ok => (f.key \/ ~d.fresh)
       /\ LET fail == IF ok THEN 0
                      ELSE IF d.first_frame /\ d.fail_counter < 3 THEN 3 ELSE d.fail_counter + 1
              mark == fail >= 3 /\ f.codec \notin mark_unsupported
          IN
          /\ decoder' = [codec |-> f.codec, fresh |-> d.fresh /\ ~ok, first_frame |-> FALSE,
                         fail_counter |-> IF fail > 3 THEN 3 ELSE fail]
          /\ recorder' = write_frame(r, f)
          /\ shown' = IF ok THEN f ELSE shown
          /\ garbled' = ~whole
          /\ mark_unsupported' = IF mark THEN mark_unsupported \cup {f.codec} ELSE mark_unsupported
          /\ unjust' = (unjust \/ (mark /\ ~whole))
          /\ receiver' = receiver
               \o (IF ok THEN <<>> ELSE <<RefreshVideo>>)
               \o (IF mark THEN <<[type |-> "supported_decoding", marked |-> mark_unsupported']>>
                   ELSE <<>>)

(* Mutant: a key frame does not end the discarding.                         *)
key_frame_discards ==
  /\ hold.is = "key"
  /\ hold' = idle
  /\ UNCHANGED discard_queue
  /\ decode(hold.frame)
  /\ UNCHANGED <<host, toClient, toHost, record_state, channel, video_queue, bounds>>

(* MediaData::VideoFrame: the queue is wanted again.                        *)
key_frame ==
  /\ hold.is = "key"
  /\ hold' = idle
  /\ discard_queue' = FALSE
  /\ decode(hold.frame)
  /\ UNCHANGED <<host, toClient, toHost, record_state, channel, video_queue, bounds>>

popped ==
  /\ hold.is = "popped"
  /\ hold' = idle
  /\ IF discard_queue
     THEN UNCHANGED <<receiver, decoder, mark_unsupported, shown, recorder, history>>
     ELSE decode(hold.frame)
  /\ UNCHANGED <<host, toClient, toHost, record_state, queues, bounds>>

-----------------------------------------------------------------------------
Host == handle_one_frame \/ (\E c \in BOOLEAN : Restart(c)) \/ on_message
Loop == handle_msg_from_peer \/ handle_msg_from_ui
Thread == recv \/ pop \/ key_frame \/ popped
User == refresh_video \/ switch_display \/ (\E start \in BOOLEAN : toggle(start))

Next == Host \/ Loop \/ Thread \/ User

(* The host ends a round when it must, and a new encoder is given a picture *)
(* of the screen whether it changes or not; every loop goes on.             *)
Fairness ==
  /\ WF_vars(Restart(FALSE))
  /\ WF_vars(encoder.pts = 0 /\ handle_one_frame)
  /\ WF_vars(on_message)
  /\ WF_vars(handle_msg_from_peer) /\ WF_vars(handle_msg_from_ui)
  /\ WF_vars(Thread)

Spec == Init /\ [][Next]_vars
FairSpec == Spec /\ Fairness

-----------------------------------------------------------------------------
(* Every variable has its type.                                             *)
FrameType == [codec : Range(Codecs) \cup {"none"}, run : Nat, pts : Nat, key : BOOLEAN]

TypeOK ==
  /\ encoder \in [codec : Range(Codecs), run : Nat, pts : Nat, record : BOOLEAN]
  /\ {refresh, user_record, discard_queue, record_state, garbled, unjust} \subseteq BOOLEAN
  /\ negotiated \in Range(Codecs) /\ mark_unsupported \subseteq Range(Codecs)
  /\ {sent, shown, hold.frame} \cup Range(video_queue) \cup Range(recorder.file) \subseteq FrameType
  /\ Len(video_queue) <= VIDEO_QUEUE_SIZE
  /\ \A f \in Range(video_queue) : ~f.key
  /\ hold.is \in {"idle", "key", "token", "popped"}
  /\ decoder.fail_counter \in 0 .. 3
  /\ recorder.pts >= -1

Tokens == Len(SelectSeq(channel, LAMBDA m : m = Token)) + (IF hold.is = "token" THEN 1 ELSE 0)

(* A token of the channel finds a frame in the queue, and no frame is left  *)
(* without one, although a frame that took another's place came without.    *)
TokenPerFrame == Tokens = Len(video_queue)

KeyFrames(s) == \E m \in Range(s) : m.type = "frame" /\ m.frame.key

(* A key frame is on its way, or will be made for what was asked.           *)
Asked ==
  \/ MustSwitch \/ encoder.pts = 0
  \/ RefreshVideo \in Range(receiver) \cup Range(toHost)
  \/ KeyFrames(toClient) \/ KeyFrames(channel) \/ hold.is = "key"

(* Whatever order the queues, the overflow of one, the resets and the       *)
(* changes of the codec lead to: while the picture is wrong, or the decoder *)
(* refuses the frames, a key frame is on its way or asked for.              *)
GarbledIsAsked == garbled => Asked

Waiting == recorder.record /\ recorder.file = <<>>

(* A recorder without a key frame to begin with will be given one: it is on *)
(* its way, or the encoder is one that makes them again and again, or is    *)
(* about to become one, or the recording ends.                              *)
RecordingStarts ==
  Waiting =>
    \/ Asked \/ encoder.record \/ user_record \/ ~record_state
    \/ [type |-> "client_record_status", start |-> TRUE] \in Range(receiver) \cup Range(toHost)

(* A recorded file can be played: it begins with a key frame, its time      *)
(* stamps never go back, and it has one codec.                              *)
FilePlays ==
  LET file == recorder.file IN
  file # <<>> =>
    /\ file[1].key
    /\ \A i \in 1 .. Len(file) - 1 : file[i].pts <= file[i + 1].pts /\ file[i].codec = file[i + 1].codec

(* When nobody asks for anything more, the client comes to show the last    *)
(* picture of the host, and shows it right.                                 *)
LastIsShown == <>[](shown = sent /\ ~garbled)

(* "check invalid decoders": a codec is marked as unsupported only for a    *)
(* decoder that fails on frames it has the references of.                   *)
OnlyInvalidMarked == ~unjust
=============================================================================
