--------------------------- MODULE PortableCapture ---------------------------
(***************************************************************************)
(* The shared memory through which the elevated process captures the       *)
(* screen for the main process on Windows:                                 *)
(* src/src/server/portable_service.rs.  The writer is run_capture of the   *)
(* elevated process; the reader is CapturerPortable, which the video       *)
(* service of the main process uses for the primary display.               *)
(*                                                                         *)
(* Nothing is locked between the two processes: the parameters of the      *)
(* capture are one struct that both write, and a pair of counters says     *)
(* whether the frame was taken.  Every access is a step of its own; a      *)
(* local variable that is not read again is cleared.                       *)
(***************************************************************************)
EXTENDS Naturals

CONSTANTS
  MaxI,        (* i32::MAX of the counters                                  *)
  MaxNews,     (* bound: capturers that the video service creates           *)
  MaxResizes,  (* bound: changes of a resolution                            *)
  MaxErrors,   (* bound: failures of the capturer                           *)
  MaxTimeouts  (* bound: changes of the timeout, which follows the fps      *)

(* Assumed of the constants by every module that gives them values. *)
PortableCaptureAssumption ==
  MaxI \in Nat /\ MaxI > 1 /\ {MaxNews, MaxResizes, MaxErrors, MaxTimeouts} \subseteq Nat

Displays == {0, 1}              (* indices                                   *)
Sizes == {1, 2}                 (* 0 is what memset leaves                   *)

VARIABLES
  size,        (* the resolution of each display                            *)
  para,        (* ADDR_CAPTURER_PARA: recreate, current_display             *)
  wptr, rptr,  (* ADDR_CAPTURE_FRAME_COUNTER                                *)
  info,        (* ADDR_CAPTURE_FRAME_INFO: the size                         *)
  spc,         (* where run_capture is                                      *)
  read,        (* what it has read of the parameters                        *)
  iw,          (* ... and of the counter                                    *)
  c,           (* its capturer, with the size that it reports               *)
  last_current_display, first_frame_captured,
  cpc,         (* where the reader is                                       *)
  width,       (* CapturerPortable.width, .height                           *)
  asked,       (* the display it was created for                            *)
  copy,        (* what frame() has read of the parameters                   *)
  lost,        (* history: a request of the reader was written over         *)
  news, resizes, errors, timeouts

shared == <<para, wptr, rptr, info>>
writer == <<spc, read, iw, c, last_current_display, first_frame_captured>>
reader == <<cpc, width, asked, copy>>
bounds == <<news, resizes, errors, timeouts>>
vars == <<size, shared, writer, reader, lost, bounds>>

NoCapturer == [display |-> 2, size |-> 0]
Zero == [recreate |-> FALSE, current_display |-> 0]

Init ==
  /\ size = [d \in Displays |-> 1]
  /\ para = Zero /\ wptr = 0 /\ rptr = 0 /\ info = 0
  /\ spc = "recreate" /\ read = Zero /\ iw = 0 /\ c = NoCapturer
  /\ last_current_display = 2 /\ first_frame_captured = FALSE
  /\ cpc = "none" /\ width = 0 /\ asked = 0 /\ copy = Zero /\ lost = FALSE
  /\ news = 0 /\ resizes = 0 /\ errors = 0 /\ timeouts = 0

-----------------------------------------------------------------------------
(* run_capture.                                                             *)

reader_side == <<size, reader, news, resizes, timeouts>>

read_recreate ==
  /\ spc = "recreate" /\ spc' = "display"
  /\ read' = [read EXCEPT !.recreate = para.recreate]
  /\ UNCHANGED <<reader_side, shared, iw, c, last_current_display, first_frame_captured, lost, errors>>

(* Mutant: the flag is not looked at, only the display.                     *)
Obsolete_display(current_display) == current_display # last_current_display

(* No capturer, one that is not the one asked for, or one that may capture. *)
Obsolete(current_display) == read.recreate \/ current_display # last_current_display

read_current_display ==
  /\ spc = "display"
  /\ read' = IF c = NoCapturer THEN [Zero EXCEPT !.current_display = para.current_display]
                               ELSE Zero
  /\ IF c = NoCapturer THEN spc' = "create" /\ UNCHANGED c
     ELSE IF Obsolete(para.current_display) THEN spc' = "recreate" /\ c' = NoCapturer
     ELSE spc' = "taken" /\ UNCHANGED c
  /\ UNCHANGED <<reader_side, shared, iw, last_current_display, first_frame_captured, lost, errors>>

(* Mutant: the display is not remembered.                                   *)
create_capturer_only ==
  /\ spc = "create" /\ spc' = "keep"
  /\ c' = [display |-> read.current_display, size |-> size[read.current_display]]
  /\ first_frame_captured' = FALSE
  /\ UNCHANGED <<reader_side, shared, read, iw, last_current_display, lost, errors>>

(* Capturer::new; the display list was read just before.                    *)
create_capturer ==
  /\ spc = "create" /\ spc' = "keep"
  /\ c' = [display |-> read.current_display, size |-> size[read.current_display]]
  /\ last_current_display' = read.current_display /\ first_frame_captured' = FALSE
  /\ UNCHANGED <<reader_side, shared, read, iw, lost, errors>>

(* set_para(recreate: false, ..): the other fields are read ...             *)
keep_para ==
  /\ spc = "keep" /\ spc' = "set"
  /\ read' = para
  /\ UNCHANGED <<reader_side, shared, iw, c, last_current_display, first_frame_captured, lost, errors>>

(* ... and all are written.                                                 *)
set_para(p) == para' = [p EXCEPT !.recreate = FALSE]

write_para ==
  /\ spc = "set" /\ spc' = "taken"
  /\ set_para(read) /\ read' = Zero
  /\ UNCHANGED <<reader_side, wptr, rptr, info, iw, c, last_current_display,
                 first_frame_captured, lost, errors>>

(* It waits until the reader has taken the frame before, except for the     *)
(* first one of a capturer.                                                 *)
counter_equal ==
  /\ spc = "taken"
  /\ spc' = IF first_frame_captured /\ wptr # rptr THEN "recreate" ELSE "frame"
  /\ UNCHANGED <<reader_side, shared, read, iw, c, last_current_display, first_frame_captured, lost, errors>>

(* A frame: its info, its data ...                                          *)
capture ==
  /\ spc = "frame" /\ spc' = "counter"
  /\ info' = c.size
  /\ UNCHANGED <<reader_side, para, wptr, rptr, read, iw, c, last_current_display,
                 first_frame_captured, lost, errors>>

(* ... and the counter, read and written.                                   *)
read_counter ==
  /\ spc = "counter" /\ spc' = "increase"
  /\ iw' = wptr
  /\ UNCHANGED <<reader_side, shared, read, c, last_current_display, first_frame_captured, lost, errors>>

(* Mutant: it stays at its maximum.                                         *)
increase_counter_max ==
  /\ spc = "increase" /\ spc' = "recreate"
  /\ iw' = 0 /\ wptr' = IF iw = MaxI THEN iw ELSE iw + 1
  /\ first_frame_captured' = TRUE
  /\ UNCHANGED <<reader_side, para, rptr, info, read, c, last_current_display, lost, errors>>

increase_counter ==
  /\ spc = "increase" /\ spc' = "recreate"
  /\ iw' = 0 /\ wptr' = IF iw = MaxI THEN 0 ELSE iw + 1
  /\ first_frame_captured' = TRUE
  /\ UNCHANGED <<reader_side, para, rptr, info, read, c, last_current_display, lost, errors>>

(* No new frame; or an error after which the capturer is made again.        *)
no_frame ==
  /\ spc = "frame" /\ spc' = "recreate"
  /\ UNCHANGED <<reader_side, shared, read, iw, c, last_current_display, first_frame_captured, lost, errors>>

capture_fails ==
  /\ errors < MaxErrors /\ errors' = errors + 1
  /\ spc = "frame" /\ spc' = "recreate" /\ c' = NoCapturer
  /\ UNCHANGED <<reader_side, shared, read, iw, last_current_display, first_frame_captured, lost>>

Writer ==
  \/ read_recreate \/ read_current_display \/ create_capturer \/ keep_para \/ write_para
  \/ counter_equal \/ capture \/ read_counter \/ increase_counter \/ no_frame \/ capture_fails

-----------------------------------------------------------------------------
(* CapturerPortable, in the thread of the video service.                    *)

writer_side == <<writer, resizes, errors>>

(* new: the memory is cleared,                                              *)
memset ==
  /\ cpc \in {"none", "idle"} /\ news < MaxNews /\ news' = news + 1
  /\ para' = Zero /\ wptr' = 0 /\ rptr' = 0 /\ info' = 0
  /\ asked' \in Displays
  /\ cpc' = "new"
  /\ UNCHANGED <<size, writer_side, width, copy, lost, timeouts>>

(* the capture asked for, and the size of the display remembered.  A writer *)
(* that is making its capturer has read the displays already; it writes its *)
(* own parameters over these.                                               *)
Making == spc \in {"create", "keep", "set"}

request ==
  /\ cpc = "new" /\ cpc' = "idle"
  /\ para' = [recreate |-> TRUE, current_display |-> asked]
  /\ width' = size[asked]
  /\ lost' = Making
  /\ UNCHANGED <<size, wptr, rptr, info, writer_side, asked, copy, news, timeouts>>

(* frame() with another timeout: the parameters are read and written.       *)
read_timeout ==
  /\ cpc = "idle" /\ timeouts < MaxTimeouts /\ timeouts' = timeouts + 1
  /\ cpc' = "timeout" /\ copy' = para
  /\ UNCHANGED <<size, shared, writer_side, width, asked, lost, news>>

write_timeout ==
  /\ cpc = "timeout" /\ cpc' = "ready"
  /\ para' = copy /\ copy' = Zero
  /\ UNCHANGED <<size, wptr, rptr, info, writer_side, width, asked, lost, news, timeouts>>

(* A frame that is ready is taken at once, before it is read.               *)
counter_ready ==
  /\ cpc \in {"idle", "ready"}
  /\ cpc' = IF wptr # rptr THEN "info" ELSE "idle"
  /\ rptr' = wptr
  /\ UNCHANGED <<size, para, wptr, info, writer_side, width, asked, copy, lost, news, timeouts>>

(* A frame of another size is skipped.                                      *)
skip_frame ==
  /\ cpc = "info" /\ info # width /\ cpc' = "idle"
  /\ UNCHANGED <<size, shared, writer_side, width, asked, copy, lost, news, timeouts>>

frame ==
  /\ cpc = "info" /\ info = width /\ cpc' = "idle"
  /\ UNCHANGED <<size, shared, writer_side, width, asked, copy, lost, news, timeouts>>

Reader == memset \/ request \/ read_timeout \/ write_timeout \/ counter_ready \/ skip_frame \/ frame

(* The resolution of a display changes; the video service of the display    *)
(* asked for notices (check_display_changed) and makes a new capturer.      *)
resize ==
  /\ resizes < MaxResizes /\ resizes' = resizes + 1 /\ news < MaxNews
  /\ \E d \in Displays, s \in Sizes : size' = [size EXCEPT ![d] = s]
  /\ UNCHANGED <<shared, writer, reader, lost, news, errors, timeouts>>

Next == Writer \/ Reader \/ resize

(* Both processes run; the screen changes again and again; the video        *)
(* service asks for frames and makes its capturer anew after a change.      *)
Stale == cpc = "none" \/ width # size[asked]

Fairness ==
  /\ WF_vars(Writer) /\ SF_vars(capture)
  /\ WF_vars(request \/ write_timeout \/ skip_frame \/ frame)
  /\ SF_vars(counter_ready)
  /\ SF_vars(Stale /\ memset)

Spec == Init /\ [][Next]_vars /\ Fairness

-----------------------------------------------------------------------------
(* The writer captures with a capturer, of the display and with the flag    *)
(* that it has read last; the counters are in their range.                  *)
TypeOK ==
  /\ {wptr, rptr, iw} \subseteq 0 .. MaxI /\ info \in Sizes \cup {0}
  /\ para \in [recreate : BOOLEAN, current_display : Displays]
  /\ spc \in {"taken", "frame", "counter", "increase", "keep", "set"}
       => c.display = last_current_display
  /\ cpc \in {"none", "new", "idle", "timeout", "ready", "info"}

(* What the reader has asked for last is captured in the end, with the size *)
(* that it expects, unless its request came while the writer was making a   *)
(* capturer and was written over.                                           *)
Asked == c.display = asked /\ c.size = width
CapturesWhatIsAsked == <>[](lost \/ Asked)

(* Frames go on reaching the video service: neither side waits for the      *)
(* other for good, however the clearing of the memory and the counting      *)
(* interleave.                                                              *)
FramesFlow == <>[]lost \/ []<><<frame>>_vars

=============================================================================
