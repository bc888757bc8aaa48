----------------------------- MODULE Downloader ------------------------------
(***************************************************************************)
(* The download of a new version: the map of downloaders                   *)
(* (src/src/hbbs_http/downloader.rs), the calls of the user interface into *)
(* it (src/src/flutter_ffi.rs) and the dialog that follows the download    *)
(* and starts the update (flutter/lib/desktop/widgets/update_progress.dart).*)
(* One url, which is the id of its downloader, and one path.  A download   *)
(* ends with an error, and the map keeps it; cancelled, and it is removed; *)
(* or with the whole file, and the dialog removes it.  A file that is      *)
(* removed while it is written goes on without a name.                     *)
(***************************************************************************)
EXTENDS Naturals

CONSTANTS
  Chunks,     (* the size of the file                                        *)
  MaxCalls    (* bound: downloads asked for                                  *)

(* Assumed of the constants by every module that gives them values. *)
DownloaderAssumption == Chunks \in Nat \ {0} /\ MaxCalls \in Nat \ {0}

Calls == 1 .. MaxCalls
None == 0
Unknown == Chunks + 1

VARIABLES
  entry,      (* DOWNLOADERS[url]: tx_cancel (the call whose thread hears it),
                 total_size, downloaded_size, error                          *)
  call,       (* download-new-version, in a thread of the bridge             *)
  thread,     (* the thread of a call: where do_download is                  *)
  cancelled,  (* calls with a message in rx_cancel                           *)
  dir,        (* what has the path: the file that a call created             *)
  content,    (* the threads whose chunks are in that file                   *)
  dest,       (* the file that a thread has open                             *)
  got,        (* chunks that a thread has had                                *)
  ui,         (* the dialog: "idle", "starting", "polling", "cancelling", "error", "ready" *)
  calls,
  updated,    (* history: what update-me was given                           *)
  deaf,       (* history: calls that were done although they were cancelled  *)
  unheard,    (* history: the dialog was closed before it had the id         *)
  foreign     (* history: a thread met an entry that is not its own          *)

map == <<entry, cancelled>>
files == <<dir, content, dest, got>>
history == <<updated, deaf, unheard, foreign>>
vars == <<map, call, thread, files, ui, calls, history>>

NoEntry == [tx |-> None, total |-> Unknown, downloaded |-> 0, error |-> FALSE]

Init ==
  /\ entry = NoEntry /\ cancelled = {}
  /\ call = [c \in Calls |-> "none"] /\ thread = [c \in Calls |-> "none"]
  /\ dir = None /\ content = [c \in Calls |-> {}] /\ dest = [c \in Calls |-> None]
  /\ got = [c \in Calls |-> 0]
  /\ ui = "idle" /\ calls = 0
  /\ updated = "nothing" /\ deaf = {} /\ unheard = FALSE /\ foreign = FALSE

Running == {c \in Calls : thread[c] \in {"client", "head", "get", "body"}}

-----------------------------------------------------------------------------
(* download-new-version *)

CallGoes(c, from, to) == call[c] = from /\ call' = [call EXCEPT ![c] = to]

(* whatever may still write to it *)
remove_file(c) ==
  /\ CallGoes(c, "called", "check")
  /\ dir' = None
  /\ UNCHANGED <<map, thread, content, dest, got, ui, calls, history>>

(* Mutant: every call has a downloader of its own. *)
reused_never(c) == call[c] = "reused"

(* A downloader without an error is reused. *)
reused(c) == entry.tx # None /\ ~entry.error /\ call[c] \in {"check", "insert"}

(* The first pass of download_file: one that failed makes way. *)
first_pass(c) ==
  /\ \/ reused(c) /\ CallGoes(c, "check", "event_id") /\ UNCHANGED entry
     \/ /\ ~reused(c)
        /\ CallGoes(c, "check", IF entry.tx = None THEN "exists" ELSE "stale")
        /\ entry' = NoEntry
  /\ UNCHANGED <<cancelled, thread, files, ui, calls, history>>

(* its file with it *)
stale_removed(c) ==
  /\ CallGoes(c, "stale", "exists")
  /\ dir' = None
  /\ UNCHANGED <<map, thread, content, dest, got, ui, calls, history>>

path_exists(c) ==
  /\ CallGoes(c, "exists", IF dir # None THEN "event_error" ELSE "insert")
  /\ UNCHANGED <<map, thread, files, ui, calls, history>>

(* The second pass, in case of another caller since; and the thread. *)
second_pass(c) ==
  /\ CallGoes(c, "insert", "event_id")
  /\ \/ reused(c) /\ UNCHANGED <<entry, thread, dir>>
     \/ /\ ~reused(c)
        /\ entry' = [NoEntry EXCEPT !.tx = c]
        /\ thread' = [thread EXCEPT ![c] = "client"]
        /\ dir' = IF entry.tx # None THEN None ELSE dir
  /\ UNCHANGED <<cancelled, content, dest, got, ui, calls, history>>

(* the global event, if the dialog is still there to handle it *)
handleDownloadNewVersion(c) ==
  /\ \/ CallGoes(c, "event_id", "done") /\ ui' = IF ui = "starting" THEN "polling" ELSE ui
     \/ CallGoes(c, "event_error", "done") /\ ui' = IF ui = "starting" THEN "error" ELSE ui
  /\ UNCHANGED <<map, thread, files, calls, history>>

-----------------------------------------------------------------------------
(* do_download, and what its thread does with the result *)

(* Mutant: an entry that is missing is made. *)
Update_inserts(field, value) == entry' = [entry EXCEPT ![field] = value]

(* DOWNLOADERS.get_mut(id): the entry of the url, whosever it is by now *)
Update(field, value) == entry' = IF entry.tx = None THEN entry ELSE [entry EXCEPT ![field] = value]

(* An entry that was removed, or is another's by now. *)
Strange(c) == foreign' = (foreign \/ entry.tx # c)

(* Mutant: the error is only logged. *)
Err_silent(c) ==
  /\ thread' = [thread EXCEPT ![c] = "ended"]
  /\ UNCHANGED entry
  /\ Strange(c)

(* the thread ends with an error, which is kept for the dialog *)
Err(c) ==
  /\ thread' = [thread EXCEPT ![c] = "ended"]
  /\ Update("error", TRUE)
  /\ Strange(c)

(* Mutant: the downloader that was cancelled stays in the map. *)
cancel_keeps(c) ==
  /\ thread[c] \in {"head", "get", "body"} /\ c \in cancelled
  /\ thread' = [thread EXCEPT ![c] = "ended"]
  /\ Strange(c)
  /\ UNCHANGED <<map, call, files, ui, calls, updated, deaf, unheard>>

(* rx_cancel.recv() in any select!: the downloader is removed, and under the
   same lock its file. *)
cancel_heard(c) ==
  /\ thread[c] \in {"head", "get", "body"} /\ c \in cancelled
  /\ thread' = [thread EXCEPT ![c] = "ended"]
  /\ entry' = NoEntry
  /\ dir' = IF entry.tx # None THEN None ELSE dir
  /\ Strange(c)
  /\ UNCHANGED <<cancelled, call, content, dest, got, ui, calls, updated, deaf, unheard>>

(* create_http_client_async_with_url tries the connection first; it cannot be
   cancelled. *)
client_created(c) ==
  /\ thread[c] = "client" /\ thread' = [thread EXCEPT ![c] = "head"]
  /\ UNCHANGED <<map, call, files, ui, calls, history>>

head(c) ==
  /\ thread[c] = "head"
  /\ \/ /\ thread' = [thread EXCEPT ![c] = "get"] /\ Update("total", Chunks)
        /\ Strange(c)
     \/ Err(c)
  /\ UNCHANGED <<cancelled, call, files, ui, calls, updated, deaf, unheard>>

(* client.get, and File::create: a file that is there is emptied. *)
get(c) ==
  /\ thread[c] = "get"
  /\ \/ LET f == IF dir = None THEN c ELSE dir
        IN /\ thread' = [thread EXCEPT ![c] = "body"]
           /\ dir' = f /\ dest' = [dest EXCEPT ![c] = f]
           /\ content' = [content EXCEPT ![f] = {}]
           /\ UNCHANGED <<entry, foreign>>
     \/ Err(c) /\ UNCHANGED <<dir, dest, content>>
  /\ UNCHANGED <<cancelled, call, got, ui, calls, updated, deaf, unheard>>

(* response.chunk(), if that is the branch of select!: the next one is written,
   then counted; or there are no more, or an error. *)
chunk(c) ==
  /\ thread[c] = "body"
  /\ \/ /\ got[c] < Chunks
        /\ got' = [got EXCEPT ![c] = @ + 1]
        /\ content' = [content EXCEPT ![dest[c]] = @ \cup {c}]
        /\ Update("downloaded", entry.downloaded + 1)
        /\ Strange(c)
        /\ UNCHANGED <<thread, deaf>>
     \/ /\ got[c] = Chunks
        /\ thread' = [thread EXCEPT ![c] = "ended"]
        /\ deaf' = IF c \in cancelled THEN deaf \cup {c} ELSE deaf
        /\ UNCHANGED <<entry, got, content, foreign>>
     \/ Err(c) /\ UNCHANGED <<got, content, deaf>>
  /\ UNCHANGED <<cancelled, call, dir, dest, ui, calls, updated, unheard>>

-----------------------------------------------------------------------------
(* The dialog *)

(* handleUpdate, from the page or by Retry *)
handleUpdate ==
  /\ ui \in {"idle", "error"} /\ calls < MaxCalls
  /\ calls' = calls + 1
  /\ call' = [call EXCEPT ![calls + 1] = "called"]
  /\ ui' = "starting"
  /\ UNCHANGED <<map, thread, files, history>>

closed == ui = "error" /\ ui' = "idle" /\ UNCHANGED <<map, call, thread, files, calls, history>>

(* Mutant: the downloader stays. *)
_updateDownloadData_keeps ==
  /\ ui = "polling"
  /\ ui' = IF entry.tx = None \/ entry.error THEN "error" ELSE "ready"
  /\ entry.tx # None => entry.error \/ entry.downloaded >= entry.total
  /\ UNCHANGED <<map, call, thread, files, calls, history>>

(* _updateDownloadData, every 300 ms: an error, or no downloader, ends the
   dialog; the whole file removes the downloader *)
_updateDownloadData ==
  /\ ui = "polling"
  /\ \/ /\ entry.tx = None \/ entry.error
        /\ ui' = "error" /\ UNCHANGED entry
     \/ /\ entry.tx # None /\ ~entry.error
        /\ entry.total # Unknown /\ entry.downloaded >= entry.total
        /\ entry' = NoEntry
        /\ ui' = "ready"
  /\ UNCHANGED <<cancelled, call, thread, files, calls, history>>

(* cancel-downloader, of the id that the dialog has: none before the event *)
cancel ==
  /\ ui \in {"starting", "polling"}
  /\ ui' = "cancelling"
  /\ cancelled' = IF ui = "polling" /\ entry.tx # None THEN cancelled \cup {entry.tx} ELSE cancelled
  /\ unheard' = (unheard \/ ui = "starting")
  /\ UNCHANGED <<entry, call, thread, files, calls, updated, deaf, foreign>>

(* The downloader is gone, or ten looks later it is not: the dialog closes. *)
cancel_waited == ui = "cancelling" /\ ui' = "idle" /\ UNCHANGED <<map, call, thread, files, calls, history>>

Whole(f) == f # None /\ \E c \in Calls : content[f] = {c} /\ dest[c] = f /\ got[c] = Chunks

(* update-me: the file is launched; if that fails it is removed. *)
update_me ==
  /\ ui = "ready" /\ ui' = "idle"
  /\ updated' = IF Whole(dir) THEN "whole" ELSE "broken"
  /\ dir' = None
  /\ UNCHANGED <<map, call, thread, content, dest, got, calls, deaf, unheard, foreign>>

-----------------------------------------------------------------------------
Thread(c) == client_created(c) \/ head(c) \/ get(c) \/ chunk(c) \/ cancel_heard(c)
Call(c) == remove_file(c) \/ first_pass(c) \/ stale_removed(c) \/ path_exists(c) \/ second_pass(c)
           \/ handleDownloadNewVersion(c)

Next ==
  \/ \E c \in Calls : \/ client_created(c) \/ head(c) \/ get(c) \/ chunk(c) \/ cancel_heard(c)
                      \/ remove_file(c) \/ first_pass(c) \/ stale_removed(c) \/ path_exists(c)
                      \/ second_pass(c) \/ handleDownloadNewVersion(c)
  \/ handleUpdate \/ closed \/ _updateDownloadData \/ cancel \/ cancel_waited \/ update_me

(* Threads run and requests are answered; the timers of the dialog fire. *)
Fairness ==
  /\ \A c \in Calls : WF_vars(Call(c)) /\ WF_vars(Thread(c))
  /\ WF_vars(_updateDownloadData) /\ WF_vars(cancel_waited) /\ WF_vars(update_me)

Spec == Init /\ [][Next]_vars /\ Fairness

-----------------------------------------------------------------------------
TypeOK ==
  /\ entry \in [tx : Calls \cup {None}, total : {Chunks, Unknown}, downloaded : 0 .. MaxCalls * Chunks,
               error : BOOLEAN]
  /\ entry.tx = None => entry = NoEntry
  /\ call \in [Calls -> {"none", "called", "check", "stale", "exists", "insert", "event_id", "event_error",
                         "done"}]
  /\ thread \in [Calls -> {"none", "client", "head", "get", "body", "ended"}]
  /\ cancelled \subseteq Calls /\ deaf \subseteq cancelled
  /\ dir \in Calls \cup {None} /\ content \in [Calls -> SUBSET Calls]
  /\ dest \in [Calls -> Calls \cup {None}] /\ got \in [Calls -> 0 .. Chunks]
  /\ ui \in {"idle", "starting", "polling", "cancelling", "error", "ready"}
  /\ calls \in 0 .. MaxCalls
  /\ updated \in {"nothing", "whole", "broken"} /\ foreign \in BOOLEAN /\ unheard \in BOOLEAN

(* Cancelled when it had the whole file, or went on until it had. *)
Late == {c \in cancelled : got[c] = Chunks}

(* What is launched as the new version is the whole file.  Excepted are a
   download that came to its end although it was cancelled, or whose dialog was
   closed before it had the id: it is reused, but its file is removed first;
   and a thread that works on the entry of another one. *)
UpdateIsWhole ==
  updated = "broken" => Late # {} \/ unheard \/ foreign

(* A download that was cancelled before it had the whole file leaves neither its downloader
   nor its file.  One that failed leaves both to the call that replaces it,
   and one that met another's entry may have failed by that. *)
CancelledIsGone ==
  ~foreign => \A c \in cancelled \ Late :
    thread[c] = "ended" /\ ~entry.error /\ (\A k \in Calls : call[k] # "stale") => entry.tx # c /\ (dir = None \/ content[dir] # {c})

(* One thread at a time writes to the file at the path; unless a dialog was
   closed before it had the id, so that two calls were there at once, or a
   thread left its error in the entry of another one that still runs. *)
OneWriter ==
  ~unheard /\ ~foreign => \A c, t \in Running : dir # None /\ dest[c] = dir /\ dest[t] = dir => c = t

(* The dialog ends: with the file, with an error, or closed. *)
DialogEnds == ui \in {"starting", "polling", "cancelling"} ~> ui \in {"idle", "error", "ready"}

(* "The receiver may not be able to receive the cancel signal, so we also set
   the atomic bool to true": a download that was cancelled does not go on to
   its end. *)
CancelIsFinal == deaf = {}

=============================================================================
