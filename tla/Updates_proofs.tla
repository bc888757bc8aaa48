--------------------------- MODULE Updates_proofs ---------------------------
(***************************************************************************)
(* Proofs about what the program fetches, reports and shares, for every    *)
(* set of sessions, versions, connections, processes and tabs and every    *)
(* bound: Updater, Downloader, HeartbeatSync, ConfigSync and ClipboardLoop *)
(* each have an inductive invariant, and a behaviour of MCUpdates keeps    *)
(* all five.                                                               *)
(*                                                                         *)
(* Updater.  That nobody uses the program at the time of an update does    *)
(* not follow from what the thread looked at: it looks at a number that    *)
(* was reported.  The invariant relates the number to SESSIONS             *)
(* (CountIsOf), and what was seen to what still is so (SeenHolds).         *)
(***************************************************************************)
EXTENDS MCUpdates, Sequences, FiniteSetTheorems, TLAPS

Typed ==
  /\ TypeOK
  /\ changes \in 0 .. MaxChanges
  /\ conns \in 0 .. MaxConns /\ ALIVE_CONNS <= conns

(* A report, or the last report handled, is about the last change of        *)
(* SESSIONS or an earlier one; about the last one it says how many there    *)
(* are, unless the process has ended since.                                 *)
CountIsOf(n) == n = Cardinality(SESSIONS) \/ SESSIONS = {}

Told ==
  /\ changes = 0 => SESSIONS = {}
  /\ \A r \in reports : r.at <= changes /\ (r.at = changes => CountIsOf(r.n))
  /\ handled = changes => CountIsOf(CONTROLLING_SESSION_COUNT)

(* What the thread has seen at its last look still holds.                   *)
SeenHolds ==
  /\ (pc \in {"free", "idle"} /\ ~begun) => ALIVE_CONNS = 0
  /\ (pc = "idle" /\ ~begun /\ ~untold) => SESSIONS = {}

UpdaterInv == Typed /\ WholeIsRun /\ Told /\ SeenHolds

-----------------------------------------------------------------------------
(* The number of a subset of the sessions is one of the numbers of reports. *)
LEMMA Counted ==
  ASSUME NEW S \in SUBSET Sessions
  PROVE  /\ IsFiniteSet(S)
         /\ Cardinality(S) \in 0 .. Cardinality(Sessions)
         /\ Cardinality(S) = 0 <=> S = {}
<1>1. IsFiniteSet(S)
  BY SessionsFinite, FS_Subset
<1>2. Cardinality(S) <= Cardinality(Sessions) /\ Cardinality(S) \in Nat /\
        Cardinality(Sessions) \in Nat
  BY <1>1, SessionsFinite, FS_Subset, FS_CardinalityType
<1>3. Cardinality(S) = 0 <=> S = {}
  BY <1>1, FS_EmptySet
<1> QED  BY <1>1, <1>2, <1>3

(* The invariant holds at the start.                                        *)
LEMMA UpdaterInitially == Init => UpdaterInv
<1> SUFFICES ASSUME Init PROVE UpdaterInv
  OBVIOUS
<1>1. Cardinality(Sessions) \in Nat
  BY SessionsFinite, FS_CardinalityType
<1>2. /\ SESSIONS \subseteq Sessions
      /\ reports \subseteq [at : 1 .. MaxChanges, n : 0 .. Cardinality(Sessions)]
      /\ newest \in {0} \cup Versions
      /\ file \in [Versions -> {"none", "partial", "whole"}]
      /\ {begun, untold} \subseteq BOOLEAN
  BY DEF Init
<1>3. /\ pc = "start" /\ version = 0 /\ CONTROLLING_SESSION_COUNT \in 0 .. Cardinality(Sessions)
      /\ ALIVE_CONNS \in 0 .. MaxConns /\ handled \in 0 .. changes
      /\ changes \in 0 .. MaxChanges /\ conns \in 0 .. MaxConns /\ ALIVE_CONNS <= conns
  BY <1>1, UpdaterAssumption DEF Init
<1>4. Typed
  BY <1>2, <1>3 DEF Typed, TypeOK
<1>5. WholeIsRun /\ Told /\ SeenHolds
  BY DEF Init, WholeIsRun, Told, SeenHolds, CountIsOf
<1> QED  BY <1>4, <1>5 DEF UpdaterInv

(* A step that leaves SESSIONS, the reports and what was handled alone      *)
(* keeps Told.                                                              *)
LEMMA ToldKept ==
  ASSUME Told, UNCHANGED <<ui, CONTROLLING_SESSION_COUNT, handled>>
  PROVE  Told'
BY DEF Told, CountIsOf, ui

(* A change of SESSIONS with its report keeps the parts of the invariant    *)
(* about SESSIONS: every older report is now about an earlier change.       *)
LEMMA ChangeTold ==
  ASSUME UpdaterInv, update_session_count_to_server, SESSIONS' \in SUBSET Sessions,
         changes < MaxChanges, changes' = changes + 1,
         UNCHANGED <<CONTROLLING_SESSION_COUNT, handled>>
  PROVE  /\ Told'
         /\ reports' \subseteq [at : 1 .. MaxChanges, n : 0 .. Cardinality(Sessions)]
         /\ changes' \in 0 .. MaxChanges /\ handled' \in 0 .. changes'
<1>0. changes \in Nat /\ handled \in 0 .. changes /\ MaxChanges \in Nat
  BY UpdaterAssumption DEF UpdaterInv, Typed, TypeOK
<1>1. Cardinality(SESSIONS') \in 0 .. Cardinality(Sessions)
  BY Counted
<1> DEFINE new == [at |-> changes', n |-> Cardinality(SESSIONS')]
<1>2. reports' \in {reports, reports \cup {new}}
  BY DEF update_session_count_to_server
<1>3. new \in [at : 1 .. MaxChanges, n : 0 .. Cardinality(Sessions)]
  BY <1>0, <1>1
<1>4. reports' \subseteq [at : 1 .. MaxChanges, n : 0 .. Cardinality(Sessions)]
  BY <1>2, <1>3 DEF UpdaterInv, Typed, TypeOK
<1>5. \A r \in reports' :
        r.at <= changes' /\ (r.at = changes' => r.n = Cardinality(SESSIONS'))
  <2>1. \A r \in reports : r.at \in Nat /\ r.at <= changes
    BY <1>0 DEF UpdaterInv, Typed, TypeOK, Told
  <2>2. \A r \in reports : r.at <= changes' /\ r.at # changes'
    BY <2>1, <1>0
  <2>3. new.at <= changes' /\ new.n = Cardinality(SESSIONS')
    BY <1>0
  <2> QED  BY <1>2, <2>2, <2>3
<1>6. handled' # changes' /\ changes' # 0
  BY <1>0
<1>7. Told'
  BY <1>5, <1>6 DEF Told, CountIsOf
<1> QED  BY <1>0, <1>4, <1>7

(* Every step keeps the invariant.                                          *)
LEMMA UpdaterStep == UpdaterInv /\ [Next]_vars => UpdaterInv'
<1> SUFFICES ASSUME UpdaterInv, [Next]_vars PROVE UpdaterInv'
  OBVIOUS
<1> USE UpdaterAssumption DEF ui, thread, others, marks
<1>0. /\ Typed /\ TypeOK /\ WholeIsRun /\ Told /\ SeenHolds
      /\ MaxChanges \in Nat /\ MaxConns \in Nat /\ Cardinality(Sessions) \in Nat
  BY SessionsFinite, FS_CardinalityType DEF UpdaterInv, Typed
<1>1. ASSUME NEW s \in Sessions, insert_session(s) PROVE UpdaterInv'
  <2>1. SESSIONS' \in SUBSET Sessions
    BY <1>0, <1>1 DEF insert_session, TypeOK
  <2>2. /\ Told'
        /\ reports' \subseteq [at : 1 .. MaxChanges, n : 0 .. Cardinality(Sessions)]
        /\ changes' \in 0 .. MaxChanges /\ handled' \in 0 .. changes'
    BY <1>1, <2>1, ChangeTold DEF insert_session
  <2>3. Typed'
    BY <1>0, <1>1, <2>1, <2>2 DEF insert_session, Typed, TypeOK
  <2>4. WholeIsRun' /\ SeenHolds'
    BY <1>0, <1>1 DEF insert_session, WholeIsRun, SeenHolds
  <2> QED  BY <2>2, <2>3, <2>4 DEF UpdaterInv
<1>2. ASSUME NEW s \in Sessions, remove_session_by_session_id(s) PROVE UpdaterInv'
  <2>1. SESSIONS' \in SUBSET Sessions
    BY <1>0, <1>2 DEF remove_session_by_session_id, TypeOK
  <2>2. /\ Told'
        /\ reports' \subseteq [at : 1 .. MaxChanges, n : 0 .. Cardinality(Sessions)]
        /\ changes' \in 0 .. MaxChanges /\ handled' \in 0 .. changes'
    BY <1>2, <2>1, ChangeTold DEF remove_session_by_session_id
  <2>3. Typed'
    BY <1>0, <1>2, <2>1, <2>2 DEF remove_session_by_session_id, Typed, TypeOK
  <2>4. WholeIsRun' /\ SeenHolds'
    BY <1>0, <1>2 DEF remove_session_by_session_id, WholeIsRun, SeenHolds
  <2> QED  BY <2>2, <2>3, <2>4 DEF UpdaterInv
<1>3. ASSUME NEW r \in reports, update_controlling_session_count(r) PROVE UpdaterInv'
  <2>1. Told'
    BY <1>0, <1>3 DEF update_controlling_session_count, Told, CountIsOf
  <2>2. r.at \in 0 .. changes /\ r.n \in 0 .. Cardinality(Sessions)
    BY <1>0 DEF Typed, TypeOK, Told
  <2>3. Typed'
    BY <1>0, <1>3, <2>2 DEF update_controlling_session_count, Typed, TypeOK
  <2>4. WholeIsRun' /\ SeenHolds'
    BY <1>0, <1>3 DEF update_controlling_session_count, WholeIsRun, SeenHolds
  <2> QED  BY <2>1, <2>3, <2>4 DEF UpdaterInv
<1>4. CASE kill_ui
  <2>1. Told'
    BY <1>0, <1>4 DEF kill_ui, Told, CountIsOf
  <2>2. Typed'
    BY <1>0, <1>4 DEF kill_ui, Typed, TypeOK
  <2>3. WholeIsRun' /\ SeenHolds'
    BY <1>0, <1>4 DEF kill_ui, WholeIsRun, SeenHolds
  <2> QED  BY <2>1, <2>2, <2>3 DEF UpdaterInv
<1>5. CASE kill_service
  <2>1. Told'
    BY <1>0, <1>5 DEF kill_service, Told, CountIsOf
  <2>0. /\ CONTROLLING_SESSION_COUNT' \in 0 .. Cardinality(Sessions)
        /\ ALIVE_CONNS' \in 0 .. MaxConns /\ ALIVE_CONNS' <= conns'
        /\ handled' \in 0 .. changes' /\ {begun', untold'} \subseteq BOOLEAN
    <3>1. /\ CONTROLLING_SESSION_COUNT' = 0 /\ ALIVE_CONNS' = 0 /\ handled' = 0
          /\ begun' = FALSE /\ untold' = FALSE
          /\ conns' \in Nat /\ changes' \in Nat
      BY <1>0, <1>5 DEF kill_service, Typed
    <3>2. {begun', untold'} \subseteq BOOLEAN
      BY <3>1, Zenon
    <3>3. /\ 0 \in 0 .. Cardinality(Sessions) /\ 0 \in 0 .. MaxConns
          /\ 0 <= conns' /\ 0 \in 0 .. changes'
      BY <1>0, <3>1
    <3> QED  BY <3>1, <3>2, <3>3
  <2>2. Typed'
    BY <1>0, <1>5, <2>0 DEF kill_service, Typed, TypeOK
  <2>3. WholeIsRun' /\ SeenHolds'
    BY <1>0, <1>5 DEF kill_service, WholeIsRun, SeenHolds
  <2> QED  BY <2>1, <2>2, <2>3 DEF UpdaterInv
<1>6. CASE connect
  <2>1. Told'
    BY <1>0, <1>6, ToldKept DEF connect
  <2>2. Typed'
    BY <1>0, <1>6 DEF connect, Typed, TypeOK
  <2>3. WholeIsRun' /\ SeenHolds'
    BY <1>0, <1>6 DEF connect, WholeIsRun, SeenHolds
  <2> QED  BY <2>1, <2>2, <2>3 DEF UpdaterInv
<1>7. CASE close
  <2>1. Told'
    BY <1>0, <1>7, ToldKept DEF close
  <2>2. Typed'
    BY <1>0, <1>7 DEF close, Typed, TypeOK
  <2>3. WholeIsRun' /\ SeenHolds'
    BY <1>0, <1>7 DEF close, WholeIsRun, SeenHolds, Typed, TypeOK
  <2> QED  BY <2>1, <2>2, <2>3 DEF UpdaterInv
<1>8. ASSUME NEW v \in Versions, publish(v) PROVE UpdaterInv'
  <2>1. Told'
    BY <1>0, <1>8, ToldKept DEF publish
  <2>2. Typed'
    BY <1>0, <1>8 DEF publish, Typed, TypeOK
  <2>3. WholeIsRun' /\ SeenHolds'
    BY <1>0, <1>8 DEF publish, WholeIsRun, SeenHolds
  <2> QED  BY <2>1, <2>2, <2>3 DEF UpdaterInv
<1>9. CASE wake \/ do_check_software_update
  <2>1. Told'
    BY <1>0, <1>9, ToldKept DEF wake, do_check_software_update, fail
  <2>2. Typed'
    BY <1>0, <1>9 DEF wake, do_check_software_update, newer, fail, Typed, TypeOK
  <2>3. WholeIsRun' /\ SeenHolds'
    BY <1>0, <1>9 DEF wake, do_check_software_update, fail, WholeIsRun, SeenHolds
  <2> QED  BY <2>1, <2>2, <2>3 DEF UpdaterInv
<1>10. CASE head \/ get \/ write_all
  <2>1. Told'
    BY <1>0, <1>10, ToldKept DEF head, get, write_all, remove_file, fail
  <2>2. version \in Versions /\ file \in [Versions -> {"none", "partial", "whole"}]
    BY <1>0, <1>10 DEF head, get, write_all, TypeOK
  <2>3. /\ pc' \in {"wait", "get", "write", "again"}
        /\ file' \in [Versions -> {"none", "partial", "whole"}]
        /\ pc' = "again" => file'[version] = "whole"
    BY <2>2, <1>10 DEF head, get, write_all, remove_file, same_size, fail
  <2>4. UNCHANGED <<others, version, marks>>
    BY <1>10 DEF head, get, write_all, remove_file, fail
  <2>5. Typed'
    BY <1>0, <2>2, <2>3, <2>4 DEF Typed, TypeOK
  <2>6. WholeIsRun' /\ SeenHolds'
    BY <2>3, <2>4 DEF WholeIsRun, SeenHolds
  <2> QED  BY <2>1, <2>5, <2>6 DEF UpdaterInv
<1>11. CASE look_again
  <2>1. Told'
    BY <1>0, <1>11, ToldKept DEF look_again
  <2>2. /\ pc \in {"again", "free"} /\ pc' \in {"free", "idle", "wait"}
        /\ UNCHANGED <<others, version, file, faults>>
        /\ {begun', untold'} \subseteq BOOLEAN
    BY <1>0, <1>11 DEF look_again, TypeOK
  <2>3. Typed'
    BY <1>0, <2>2 DEF Typed, TypeOK
  <2>4. WholeIsRun'
    BY <1>0, <2>2 DEF WholeIsRun
  <2>5. CASE pc = "again"
    BY <1>11, <2>5, <2>1, <2>3, <2>4 DEF look_again, SeenHolds, UpdaterInv
  <2>6. CASE pc = "free"
    <3>1. pc' = "idle" /\ ~untold' => SESSIONS = {}
      <4>1. SUFFICES ASSUME pc' = "idle", ~untold' PROVE SESSIONS = {}
        OBVIOUS
      <4>2. CONTROLLING_SESSION_COUNT = 0 /\ handled = changes
        BY <1>11, <2>6, <4>1 DEF look_again
      <4>3. CountIsOf(0)
        BY <1>0, <4>2 DEF Told
      <4> QED  BY <1>0, <4>3, Counted DEF CountIsOf, TypeOK
    <3>2. SeenHolds'
      BY <1>0, <1>11, <2>6, <3>1, <2>2 DEF look_again, SeenHolds
    <3> QED  BY <2>1, <2>3, <2>4, <3>2 DEF UpdaterInv
  <2> QED  BY <2>2, <2>5, <2>6
<1>12. CASE update_new_version
  <2>1. Told'
    BY <1>0, <1>12, ToldKept DEF update_new_version, fail
  <2>2. version \in Versions
    BY <1>0, <1>12 DEF update_new_version, TypeOK
  <2>3. Typed'
    BY <1>0, <1>12, <2>2 DEF update_new_version, fail, Typed, TypeOK
  <2>4. WholeIsRun' /\ SeenHolds'
    BY <1>0, <1>12 DEF update_new_version, fail, WholeIsRun, SeenHolds
  <2> QED  BY <2>1, <2>3, <2>4 DEF UpdaterInv
<1>13. CASE UNCHANGED vars
  <2>1. Told'
    BY <1>0, <1>13, ToldKept DEF vars
  <2>2. Typed'
    BY <1>0, <1>13 DEF vars, Typed, TypeOK
  <2>3. WholeIsRun' /\ SeenHolds'
    BY <1>0, <1>13 DEF vars, WholeIsRun, SeenHolds
  <2> QED  BY <2>1, <2>2, <2>3 DEF UpdaterInv
<1> QED
  BY <1>1, <1>2, <1>3, <1>4, <1>5, <1>6, <1>7, <1>8, <1>9, <1>10, <1>11, <1>12, <1>13
  DEF Next, check_update

(* The invariant holds always.                                              *)
THEOREM Invariance == Spec => []UpdaterInv
BY UpdaterInitially, UpdaterStep, PTL DEF Spec

(* Every variable has its type, whatever is killed, lost or overtaken.      *)
THEOREM TypeCorrect == Spec => []TypeOK
BY Invariance, PTL DEF UpdaterInv, Typed

(* Only a whole file is run.                                                *)
THEOREM RunsWhole == Spec => []WholeIsRun
BY Invariance, PTL DEF UpdaterInv

(* An update that nothing hid from the thread comes while nobody uses the   *)
(* program.                                                                 *)
THEOREM UpdatesUnused == Spec => UpdatedUnused
<1>1. ASSUME UpdaterInv, [Next]_vars
      PROVE  [(pc = "idle" /\ pc' = "updated") =>
                begun \/ untold \/ (ALIVE_CONNS = 0 /\ SESSIONS = {})]_vars
  BY <1>1 DEF UpdaterInv, SeenHolds
<1> QED  BY Invariance, <1>1, PTL DEF Spec, UpdatedUnused

-----------------------------------------------------------------------------
(* Downloader.                                                             *)

(* The call has not been answered yet.                                      *)
InFlight(c) == call[c] \notin {"none", "done"}

(* A piece that some thread has read is a pair of its call and its number.  *)
Pairs(g) == {p \in Download!Calls \X (1 .. Chunks) : p[2] <= g[p[1]]}

(* The entry counts at most what all threads have read.                     *)
CountsWritten == entry.downloaded <= Cardinality(Pairs(got))

(* A thread is that of a call that inserted it; it reads only when its file *)
(* is open; an entry is of a thread that has begun.                         *)
Begun ==
  \A c \in Download!Calls :
    /\ c > calls => call[c] = "none"
    /\ call[c] \notin {"event_id", "done"} => download_thread[c] = "none"
    /\ download_thread[c] \in {"none", "client", "head", "get"} => got[c] = 0
    /\ download_thread[c] = "body" => dest[c] # Download!None
    /\ entry.tx = c => download_thread[c] # "none"

(* Unless a thread wrote to the entry of another: what the entry counts is  *)
(* what its own thread has read, and it ends without an error only with all *)
(* of it.                                                                   *)
OwnEntry ==
  ~foreign /\ entry.tx # Download!None =>
    /\ entry.downloaded = got[entry.tx]
    /\ entry.error => download_thread[entry.tx] = "ended"
    /\ ~entry.error /\ download_thread[entry.tx] = "ended" => got[entry.tx] = Chunks

(* What a cancelled call has left: an entry with an error, or none; its     *)
(* file is replaced, or a call is about to remove it.                       *)
Removed(c) ==
  /\ entry.tx = c => entry.error
  /\ dir # Download!None /\ content[dir] = {c} => entry.tx = c \/
       \E k \in Download!Calls : call[k] = "stale"

(* Unless a thread wrote to the entry of another, a cancelled thread that   *)
(* ended early has left nothing.                                            *)
RemovedGone ==
  ~foreign =>
    \A c \in cancelled : download_thread[c] = "ended" /\ got[c] # Chunks => Removed(c)

(* Only the last call is in flight, and the dialog waits for it; from its   *)
(* first pass to its second there is no entry, and then no file.            *)
LatestOnly ==
  /\ \A c \in Download!Calls : InFlight(c) => c = calls /\ download_ui = "starting"
  /\ download_ui = "starting" => calls # 0 /\ InFlight(calls)
  /\ \A c \in Download!Calls : call[c] \in {"stale", "exists", "insert", "event_error"} =>
       entry = Download!NoEntry
  /\ \A c \in Download!Calls : call[c] = "insert" => dir = Download!None

(* An entry that goes on is that of the last call: the dialog follows it,   *)
(* and its file is the one in the directory.                                *)
Followed ==
  entry.tx # Download!None /\ ~entry.error /\ entry.tx \notin cancelled =>
    /\ entry.tx = calls
    /\ download_ui = "polling" \/ (download_ui = "starting" /\ call[calls] = "event_id")
    /\ download_thread[entry.tx] \in {"body", "ended"} => dir = entry.tx

(* The file of a thread is its own, holds what it has read and nothing      *)
(* else; a thread that has not opened it yet is that of the entry.          *)
NamedAt(c) ==
  /\ download_thread[c] \in {"client", "head", "get"} => entry.tx = c /\ ~entry.error /\
       dir = Download!None
  /\ download_thread[c] = "body" /\ entry.tx # c => got[c] = Chunks
  /\ dest[c] \in {Download!None, c}
  /\ dest[c] = c => download_thread[c] \in {"body", "ended"}
  /\ dir = c => dest[c] = c
  /\ got[c] > 0 => dest[c] = c
  /\ dest[c] = c => content[c] = (IF got[c] = 0 THEN {} ELSE {c})

(* This holds of every thread.                                              *)
AllNamed == \A c \in Download!Calls : NamedAt(c)

(* When the dialog says that the file is ready, the entry is removed and    *)
(* the file is whole; unless a thread ended after its cancel.               *)
ReadyWhole ==
  download_ui = "ready" =>
    /\ entry.tx = Download!None
    /\ Download!Late = {} => dir # Download!None /\ got[dir] = Chunks

(* These four hold unless a dialog was closed unheard, or a thread wrote to *)
(* the entry of another.                                                    *)
Undisturbed == ~unheard /\ ~foreign => LatestOnly /\ Followed /\ AllNamed /\ ReadyWhole

(* The invariant of Downloader.                                             *)
DownloadInv == Download!TypeOK /\ CountsWritten /\ Begun /\ OwnEntry /\ RemovedGone /\
    Undisturbed /\ Download!UpdateIsWhole

-----------------------------------------------------------------------------
(* What an entry may be.                                                    *)
EntryTypes == [tx : Download!Calls \cup {Download!None}, total : {Chunks, Download!Unknown},
    downloaded : 0 .. MaxCalls * Chunks,
               error : BOOLEAN]

(* What a step of a thread leaves alone.                                    *)
Elsewhere == UNCHANGED <<cancelled, call, download_ui, calls, updated, unheard>>

(* The head request was answered: what it does to the state, field by       *)
(* field.                                                                   *)
LengthKnown(c) ==
  /\ download_thread[c] = "head" /\ download_thread' = [download_thread EXCEPT ![c] = "get"]
  /\ entry'.tx = entry.tx /\ entry'.error = entry.error /\ entry'.downloaded = entry.downloaded
  /\ entry' \in EntryTypes /\ (entry.tx = Download!None => entry' = entry)
  /\ foreign' = (foreign \/ entry.tx # c)
  /\ Elsewhere /\ UNCHANGED <<Download!files, deaf>>

(* The response has come and the file is created.                           *)
Opened(c) ==
  /\ download_thread[c] = "get" /\ download_thread' = [download_thread EXCEPT ![c] = "body"]
  /\ dir' \in Download!Calls /\ dir' = (IF dir = Download!None THEN c ELSE dir)
  /\ dest' = [dest EXCEPT ![c] = dir'] /\ content' = [content EXCEPT ![dir'] = {}]
  /\ Elsewhere /\ UNCHANGED <<entry, got, deaf, foreign>>

(* A piece has been read, written and counted.                              *)
Written(c) ==
  /\ download_thread[c] = "body" /\ got[c] < Chunks
  /\ got' = [got EXCEPT ![c] = got[c] + 1]
  /\ content' = [content EXCEPT ![dest[c]] = content[dest[c]] \cup {c}]
  /\ entry'.tx = entry.tx /\ entry'.error = entry.error /\ entry'.total = entry.total
  /\ entry.tx = Download!None => entry' = entry
  /\ entry.tx # Download!None => entry'.downloaded = entry.downloaded + 1
  /\ entry' \in EntryTypes
  /\ foreign' = (foreign \/ entry.tx # c)
  /\ Elsewhere /\ UNCHANGED <<download_thread, dir, dest, deaf>>

(* The thread has ended with all pieces.                                    *)
Finished(c) ==
  /\ download_thread[c] = "body" /\ got[c] = Chunks /\
       download_thread' = [download_thread EXCEPT ![c] = "ended"]
  /\ deaf' = (IF c \in cancelled THEN deaf \cup {c} ELSE deaf)
  /\ Elsewhere /\ UNCHANGED <<entry, Download!files, foreign>>

(* The thread has ended with an error, which is noted in whatever entry     *)
(* there is.                                                                *)
Failed(c) ==
  /\ download_thread[c] \in {"head", "get", "body"} /\
       download_thread' = [download_thread EXCEPT ![c] = "ended"]
  /\ entry'.tx = entry.tx /\ entry'.downloaded = entry.downloaded
  /\ entry' \in EntryTypes
  /\ entry.tx # Download!None => entry'.error = TRUE
  /\ entry.tx = Download!None => entry' = entry
  /\ foreign' = (foreign \/ entry.tx # c)
  /\ Elsewhere /\ UNCHANGED <<Download!files, deaf>>

(* Update of a field leaves the other fields of the entry alone.            *)
LEMMA UpdateOf ==
  ASSUME entry \in EntryTypes, NEW field \in {"total", "downloaded", "error"}, NEW value,
      Download!Update(field, value)
  PROVE  /\ entry.tx = Download!None => entry' = entry
         /\ entry.tx # Download!None =>
              entry' = [tx |-> entry.tx,
                        total |-> IF field = "total" THEN value ELSE entry.total,
                        downloaded |-> IF field = "downloaded" THEN value ELSE entry.downloaded,
                        error |-> IF field = "error" THEN value ELSE entry.error]
BY DEF Download!Update, EntryTypes

(* A record with its error set is of the type of the record.                *)
LEMMA ErrorTyped ==
  ASSUME NEW T, NEW S, NEW D, NEW e \in [tx : T, total : S, downloaded : D, error : BOOLEAN]
  PROVE  [tx |-> e.tx, total |-> e.total, downloaded |-> e.downloaded, error |-> TRUE]
           \in [tx : T, total : S, downloaded : D, error : BOOLEAN]
OBVIOUS

(* An error of a thread does what Failed says.                              *)
LEMMA Fails ==
  ASSUME Download!TypeOK, NEW c \in Download!Calls, download_thread[c] \in {"head", "get",
          "body"},
      Download!Err(c), Elsewhere, UNCHANGED <<Download!files, deaf>>
  PROVE  Failed(c)
<1>0. entry \in EntryTypes
  BY DEF Download!TypeOK, EntryTypes
<1>1. Download!Update("error", TRUE)
  BY DEF Download!Err
<1>2. /\ entry'.tx = entry.tx /\ entry'.downloaded = entry.downloaded /\ entry' \in EntryTypes
      /\ entry.tx # Download!None => entry'.error = TRUE
      /\ entry.tx = Download!None => entry' = entry
  <2>1. entry.tx = Download!None => entry' = entry
    BY <1>0, <1>1, UpdateOf
  <2>2. entry.tx # Download!None =>
          entry' = [tx |-> entry.tx, total |-> entry.total, downloaded |-> entry.downloaded,
              error |-> TRUE]
    BY <1>0, <1>1, UpdateOf
  <2>3. CASE entry.tx = Download!None
    BY <1>0, <2>1, <2>3
  <2>4. CASE entry.tx # Download!None
    <3>1. entry'.tx = entry.tx /\ entry'.downloaded = entry.downloaded /\ entry'.error = TRUE
      BY <2>2, <2>4
    <3>2. entry' \in EntryTypes
      <4> DEFINE e == [tx |-> entry.tx, total |-> entry.total, downloaded |-> entry.downloaded,
            error |-> TRUE]
      <4>1. e \in EntryTypes
        BY <1>0, ErrorTyped DEF EntryTypes
      <4>2. entry' = e
        BY <2>2, <2>4
      <4> HIDE DEF e
      <4> QED  BY <4>1, <4>2
    <3> QED  BY <2>4, <3>1, <3>2
  <2> QED  BY <2>3, <2>4
<1> QED  BY <1>2 DEF Download!Err, Download!Strange, Failed

(* The head request of a thread ends in one of two ways.                    *)
LEMMA Heads ==
  ASSUME Download!TypeOK, NEW c \in Download!Calls, Download!head(c)
  PROVE  LengthKnown(c) \/ Failed(c)
<1>1. ASSUME Download!Err(c) PROVE Failed(c)
  BY <1>1, Fails DEF Download!head, Elsewhere, Download!files
<1>2. ASSUME Download!Update("total", Chunks),
        download_thread' = [download_thread EXCEPT ![c] = "get"], Download!Strange(c)
            PROVE LengthKnown(c)
  <2>1. entry \in EntryTypes
    BY DEF Download!TypeOK, EntryTypes
  <2>2. /\ entry'.tx = entry.tx /\ entry'.error = entry.error /\
             entry'.downloaded = entry.downloaded
        /\ entry' \in EntryTypes /\ (entry.tx = Download!None => entry' = entry)
    BY <2>1, <1>2, UpdateOf DEF EntryTypes
  <2> QED  BY <1>2, <2>2 DEF Download!head, LengthKnown, Download!Strange, Elsewhere
<1> QED  BY <1>1, <1>2 DEF Download!head

(* So does its request for the file.                                        *)
LEMMA Gets ==
  ASSUME Download!TypeOK, NEW c \in Download!Calls, Download!get(c)
  PROVE  Opened(c) \/ Failed(c)
<1>1. ASSUME Download!Err(c), UNCHANGED <<dir, dest, content>> PROVE Failed(c)
  BY <1>1, Fails DEF Download!get, Elsewhere, Download!files
<1> DEFINE f == IF dir = Download!None THEN c ELSE dir
<1>2. ASSUME download_thread' = [download_thread EXCEPT ![c] = "body"], dir' = f,
        dest' = [dest EXCEPT ![c] = f],
             content' = [content EXCEPT ![f] = {}], UNCHANGED <<entry, foreign>>
      PROVE  Opened(c)
  <2>1. f \in Download!Calls
    BY DEF Download!TypeOK
  <2> QED  BY <1>2, <2>1 DEF Download!get, Opened, Elsewhere
<1> QED  BY <1>1, <1>2 DEF Download!get

(* There are at most as many pieces read as there are calls times pieces.   *)
LEMMA PairsFinite ==
  ASSUME NEW g
  PROVE  /\ IsFiniteSet(Pairs(g))
         /\ Cardinality(Pairs(g)) \in Nat
         /\ Cardinality(Pairs(g)) <= MaxCalls * Chunks
<1>0. MaxCalls \in Nat /\ Chunks \in Nat
  BY PartsAssumption DEF Download!DownloaderAssumption
<1>1. /\ IsFiniteSet(Download!Calls) /\ Cardinality(Download!Calls) = MaxCalls
      /\ IsFiniteSet(1 .. Chunks) /\ Cardinality(1 .. Chunks) = Chunks
  BY <1>0, FS_Interval DEF Download!Calls
<1>2. /\ IsFiniteSet(Download!Calls \X (1 .. Chunks))
      /\ Cardinality(Download!Calls \X (1 .. Chunks)) = MaxCalls * Chunks
  BY <1>1, FS_Product
<1>3. Pairs(g) \subseteq Download!Calls \X (1 .. Chunks)
  BY DEF Pairs
<1> QED  BY <1>2, <1>3, FS_Subset, FS_CardinalityType

(* A thread that reads one piece more adds one to the pieces read.          *)
LEMMA PairAdded ==
  ASSUME Download!TypeOK, NEW c \in Download!Calls, got[c] < Chunks,
      got' = [got EXCEPT ![c] = got[c] + 1]
  PROVE  Cardinality(Pairs(got')) = Cardinality(Pairs(got)) + 1
<1>0. Chunks \in Nat /\ got[c] \in Nat /\ got \in [Download!Calls -> Nat] /\
        got[c] + 1 \in 1 .. Chunks
  BY PartsAssumption DEF Download!DownloaderAssumption, Download!TypeOK
<1>1. <<c, got[c] + 1>> \notin Pairs(got)
  BY <1>0 DEF Pairs
<1>2. Pairs(got') = Pairs(got) \cup {<<c, got[c] + 1>>}
  <2>1. ASSUME NEW p \in Download!Calls \X (1 .. Chunks)
        PROVE  p[2] <= got'[p[1]] <=> p[2] <= got[p[1]] \/ p = <<c, got[c] + 1>>
    <3>1. p[1] \in Download!Calls /\ p[2] \in Nat /\ p = <<p[1], p[2]>>
      OBVIOUS
    <3>2. CASE p[1] = c
      <4>1. got'[p[1]] = got[c] + 1
        BY <1>0, <3>2
      <4>2. p[2] <= got[c] + 1 <=> p[2] <= got[c] \/ p[2] = got[c] + 1
        BY <1>0, <3>1
      <4> QED  BY <3>1, <3>2, <4>1, <4>2
    <3>3. CASE p[1] # c
      BY <1>0, <3>1, <3>3
    <3> QED  BY <3>2, <3>3
  <2>2. <<c, got[c] + 1>> \in Download!Calls \X (1 .. Chunks)
    BY <1>0
  <2> QED  BY <2>1, <2>2 DEF Pairs
<1> QED  BY <1>1, <1>2, PairsFinite, FS_AddElement

(* A step in the loop of a thread is a piece, the end, or an error; the     *)
(* entry still counts no more than was read, so its counter stays in its    *)
(* range.                                                                   *)
LEMMA Chunked ==
  ASSUME Download!TypeOK, CountsWritten, NEW c \in Download!Calls, Download!chunk(c)
  PROVE  (Written(c) /\ CountsWritten') \/ Finished(c) \/ Failed(c)
<1>1. ASSUME Download!Err(c), UNCHANGED <<got, content, deaf>> PROVE Failed(c)
  BY <1>1, Fails DEF Download!chunk, Elsewhere, Download!files
<1>2. ASSUME got[c] = Chunks, download_thread' = [download_thread EXCEPT ![c] = "ended"],
             deaf' = (IF c \in cancelled THEN deaf \cup {c} ELSE deaf), UNCHANGED <<entry, got,
                 content, foreign>>
      PROVE  Finished(c)
  BY <1>2 DEF Download!chunk, Finished, Elsewhere, Download!files
<1>3. ASSUME got[c] < Chunks, got' = [got EXCEPT ![c] = @ + 1],
             content' = [content EXCEPT ![dest[c]] = @ \cup {c}],
             Download!Update("downloaded", entry.downloaded + 1), Download!Strange(c),
                 UNCHANGED <<download_thread, deaf>>
      PROVE  Written(c) /\ CountsWritten'
  <2>0. /\ entry \in EntryTypes /\ entry.downloaded \in Nat /\ got[c] \in Nat
        /\ (entry.tx = Download!None => entry.downloaded = 0)
    BY DEF Download!TypeOK, EntryTypes, Download!NoEntry
  <2>1. got' = [got EXCEPT ![c] = got[c] + 1]
    BY <1>3
  <2>2. Cardinality(Pairs(got')) = Cardinality(Pairs(got)) + 1
    BY <1>3, <2>1, PairAdded
  <2>3. /\ Cardinality(Pairs(got)) \in Nat /\ Cardinality(Pairs(got')) <= MaxCalls * Chunks
        /\ MaxCalls * Chunks \in Nat
    BY PairsFinite, PartsAssumption DEF Download!DownloaderAssumption
  <2>4. entry.downloaded <= Cardinality(Pairs(got))
    BY DEF CountsWritten
  <2>5. entry.downloaded + 1 \in 0 .. MaxCalls * Chunks /\
          entry.downloaded + 1 <= Cardinality(Pairs(got'))
    BY <2>0, <2>2, <2>3, <2>4
  <2>6. /\ entry'.tx = entry.tx /\ entry'.error = entry.error /\ entry'.total = entry.total
        /\ entry.tx = Download!None => entry' = entry
        /\ entry.tx # Download!None => entry'.downloaded = entry.downloaded + 1
        /\ entry' \in EntryTypes
    BY <2>0, <2>5, <1>3, UpdateOf DEF EntryTypes
  <2>7. CountsWritten'
    <3>1. entry'.downloaded <= Cardinality(Pairs(got'))
      BY <2>0, <2>2, <2>3, <2>5, <2>6
    <3> QED  BY <3>1 DEF CountsWritten
  <2>8. Written(c)
    BY <1>3, <2>1, <2>6 DEF Download!chunk, Written, Download!Strange, Elsewhere
  <2> QED  BY <2>7, <2>8
<1> QED  BY <1>1, <1>2, <1>3 DEF Download!chunk

(* The entry that a call inserts, and its fields.                           *)
LEMMA EntriesTyped ==
  /\ Download!NoEntry.tx = Download!None /\ Download!NoEntry.downloaded = 0 /\
       ~Download!NoEntry.error
  /\ Download!NoEntry \in EntryTypes
  /\ \A c \in Download!Calls : /\ [Download!NoEntry EXCEPT !.tx = c].tx = c
                      /\ [Download!NoEntry EXCEPT !.tx = c].downloaded = 0
                      /\ ~[Download!NoEntry EXCEPT !.tx = c].error
                      /\ [Download!NoEntry EXCEPT !.tx = c] \in EntryTypes
<1>1. 0 \in 0 .. MaxCalls * Chunks
  BY PartsAssumption DEF Download!DownloaderAssumption
<1>2. ASSUME NEW c \in Download!Calls \cup {Download!None}
      PROVE  [tx |-> c, total |-> Download!Unknown, downloaded |-> 0,
          error |-> FALSE] \in EntryTypes
  <2> DEFINE D == 0 .. MaxCalls * Chunks
  <2>1. 0 \in D
    BY <1>1
  <2> HIDE DEF D
  <2> QED  BY <2>1 DEF EntryTypes, D
<1> QED  BY <1>2 DEF Download!NoEntry

(* A call has found an entry that goes on and takes it.                     *)
Reused(c) ==
  /\ entry.tx # Download!None /\ ~entry.error /\ call[c] \in {"check", "insert"}
  /\ call' = [call EXCEPT ![c] = "event_id"]
  /\ UNCHANGED <<Download!map, download_thread, Download!files, download_ui, calls,
       Download!history>>

(* The first pass of a call has removed an entry with an error.             *)
Cleared(c) ==
  /\ call[c] = "check" /\ (entry.tx # Download!None => entry.error)
  /\ call' = [call EXCEPT ![c] = IF entry.tx = Download!None THEN "exists" ELSE "stale"]
  /\ entry' = Download!NoEntry
  /\ UNCHANGED <<cancelled, download_thread, Download!files, download_ui, calls,
          Download!history>>

(* The second pass of a call has inserted its entry and begun its thread.   *)
Started(c) ==
  /\ call[c] = "insert" /\ (entry.tx # Download!None => entry.error)
  /\ call' = [call EXCEPT ![c] = "event_id"]
  /\ entry'.tx = c /\ entry'.downloaded = 0 /\ ~entry'.error /\ entry' \in EntryTypes
  /\ download_thread' = [download_thread EXCEPT ![c] = "client"]
  /\ dir' = (IF entry.tx # Download!None THEN Download!None ELSE dir)
  /\ UNCHANGED <<cancelled, content, dest, got, download_ui, calls, Download!history>>

(* The user interface has the answer to a call.                             *)
Answered(c, before, after) ==
  /\ call[c] = before /\ call' = [call EXCEPT ![c] = "done"]
  /\ download_ui' = (IF download_ui = "starting" THEN after ELSE download_ui)
  /\ UNCHANGED <<Download!map, download_thread, Download!files, calls, Download!history>>

(* The two passes of a call, and the answer, in these terms.                *)
LEMMA Passes ==
  ASSUME NEW c \in Download!Calls
  PROVE  /\ Download!first_pass(c) => Reused(c) \/ Cleared(c)
         /\ Download!second_pass(c) => Reused(c) \/ Started(c)
         /\ Download!handleDownloadNewVersion(c) =>
              Answered(c, "event_id", "polling") \/ Answered(c, "event_error", "error")
<1>1. Download!first_pass(c) => Reused(c) \/ Cleared(c)
  BY DEF Download!first_pass, Download!CallGoes, Download!reused, Reused, Cleared, Download!map
<1>2. Download!second_pass(c) => Reused(c) \/ Started(c)
  <2>1. ASSUME Download!second_pass(c), Download!reused(c) PROVE Reused(c)
    BY <2>1 DEF Download!second_pass, Download!CallGoes, Download!reused, Reused, Download!map,
        Download!files
  <2>2. ASSUME Download!second_pass(c), ~Download!reused(c) PROVE Started(c)
    <3>1. entry' = [Download!NoEntry EXCEPT !.tx = c]
      BY <2>2 DEF Download!second_pass
    <3>2. entry'.tx = c /\ entry'.downloaded = 0 /\ ~entry'.error /\ entry' \in EntryTypes
      BY <3>1, EntriesTyped
    <3>3. call[c] = "insert" /\ (entry.tx # Download!None => entry.error)
      BY <2>2 DEF Download!second_pass, Download!CallGoes, Download!reused
    <3> QED  BY <2>2, <3>2, <3>3 DEF Download!second_pass, Download!CallGoes, Started
  <2> QED  BY <2>1, <2>2
<1>3. Download!handleDownloadNewVersion(c) =>
        Answered(c, "event_id", "polling") \/ Answered(c, "event_error", "error")
  BY DEF Download!handleDownloadNewVersion, Download!CallGoes, Answered
<1> QED  BY <1>1, <1>2, <1>3

(* A step of the component: each action of Next, or what it was shown to    *)
(* do.                                                                      *)
DownloadGoes ==
  \/ \E c \in Download!Calls :
       \/ Download!client_created(c) \/ LengthKnown(c) \/ Opened(c) \/ (Written(c) /\
            CountsWritten') \/ Finished(c) \/ Failed(c)
       \/ Download!cancel_heard(c) \/ Download!remove_file(c) \/ Reused(c) \/ Cleared(c) \/
            Download!stale_removed(c) \/ Download!path_exists(c)
       \/ Started(c) \/ Answered(c, "event_id", "polling") \/ Answered(c, "event_error", "error")
  \/ Download!handleUpdate \/ Download!closed \/ Download!_updateDownloadData
          \/ Download!cancel \/
       Download!cancel_waited \/ Download!update_me
  \/ UNCHANGED Download!vars

(* Every step of Downloader is one of these.                                *)
LEMMA WhatGoes == Download!TypeOK /\ CountsWritten /\ [Download!Next]_(Download!vars) =>
    DownloadGoes
<1> SUFFICES ASSUME Download!TypeOK, CountsWritten, [Download!Next]_(Download!vars)
      PROVE DownloadGoes
  OBVIOUS
<1>1. \A c \in Download!Calls : Download!head(c) => LengthKnown(c) \/ Failed(c)
  BY Heads
<1>2. \A c \in Download!Calls : Download!get(c) => Opened(c) \/ Failed(c)
  BY Gets
<1>3. \A c \in Download!Calls : Download!chunk(c) => (Written(c) /\ CountsWritten') \/
        Finished(c) \/ Failed(c)
  BY Chunked
<1>4. \A c \in Download!Calls :
        /\ Download!first_pass(c) => Reused(c) \/ Cleared(c)
        /\ Download!second_pass(c) => Reused(c) \/ Started(c)
        /\ Download!handleDownloadNewVersion(c) =>
             Answered(c, "event_id", "polling") \/ Answered(c, "event_error", "error")
  BY Passes
<1> QED  BY <1>1, <1>2, <1>3, <1>4, Zenon DEF Download!Next, DownloadGoes

(* A thread that writes a piece to its own file keeps every file named.     *)
LEMMA NamedWritten ==
  ASSUME NEW c \in Download!Calls, NEW k \in Download!Calls, NamedAt(c), NamedAt(k),
      got \in [Download!Calls -> Nat],
         content \in [Download!Calls -> SUBSET Download!Calls], download_thread[c] = "body",
             dest[c] # Download!None, entry.tx = c, Written(c)
  PROVE  NamedAt(k)'
<1>1. dest[c] = c /\ content[c] \cup {c} = {c} /\ got[c] + 1 > 0 /\ got[c] + 1 # 0
  BY DEF NamedAt
<1>2. got' = [got EXCEPT ![c] = got[c] + 1] /\ content' = [content EXCEPT ![c] = {c}]
  BY <1>1 DEF Written
<1>3. entry'.tx = c /\ download_thread' = download_thread /\ dir' = dir /\ dest' = dest
  BY DEF Written
<1>4. CASE k = c
  <2>1. got'[k] = got[c] + 1 /\ content'[k] = {k} /\ download_thread'[k] = "body" /\ dest'[k] = k
    BY <1>1, <1>2, <1>3, <1>4
  <2> QED  BY <1>1, <1>3, <1>4, <2>1 DEF NamedAt
<1>5. CASE k # c
  <2>1. got'[k] = got[k] /\ content'[k] = content[k]
    BY <1>2, <1>5
  <2> QED  BY <1>3, <1>5, <2>1 DEF NamedAt
<1> QED  BY <1>4, <1>5

(* A thread that creates its file keeps every file named.                   *)
LEMMA NamedOpened ==
  ASSUME NEW c \in Download!Calls, NEW k \in Download!Calls, NamedAt(c), NamedAt(k), got[c] = 0,
         DOMAIN content = Download!Calls, DOMAIN download_thread = Download!Calls,
             DOMAIN dest = Download!Calls, Opened(c)
  PROVE  NamedAt(k)'
<1>1. dir = Download!None /\ entry.tx = c
  BY DEF NamedAt, Opened
<1>2. /\ dir' = c /\ dest' = [dest EXCEPT ![c] = c] /\ content' = [content EXCEPT ![c] = {}]
      /\ download_thread' = [download_thread EXCEPT ![c] = "body"] /\ entry' = entry /\ got' = got
  BY <1>1 DEF Opened
<1>3. CASE k = c
  <2>1. download_thread'[k] = "body" /\ dest'[k] = k /\ content'[k] = {} /\ got'[k] = 0
    BY <1>2, <1>3
  <2> QED  BY <1>1, <1>2, <1>3, <2>1 DEF NamedAt
<1>4. CASE k # c
  <2>1. download_thread'[k] = download_thread[k] /\ dest'[k] = dest[k] /\
          content'[k] = content[k] /\ dir' # k
    BY <1>2, <1>4
  <2> QED  BY <1>1, <1>2, <1>4, <2>1 DEF NamedAt
<1> QED  BY <1>3, <1>4

(* When a call is in flight it is the last one, and no other is.            *)
LEMMA OnlyLatest ==
  ASSUME LatestOnly, NEW c \in Download!Calls, InFlight(c)
  PROVE  c = calls /\ download_ui = "starting" /\ \A k \in Download!Calls : k # c => ~InFlight(k)
BY DEF LatestOnly

(* The types, with this set for the entry.                                  *)
DownloadTypes ==
  /\ entry \in EntryTypes
  /\ entry.tx = Download!None => entry = Download!NoEntry
  /\ call \in [Download!Calls -> {"none", "called", "check", "stale", "exists", "insert",
       "event_id", "event_error",
                         "done"}]
  /\ download_thread \in [Download!Calls -> {"none", "client", "head", "get", "body", "ended"}]
  /\ cancelled \subseteq Download!Calls /\ deaf \subseteq cancelled
  /\ dir \in Download!Calls \cup {Download!None} /\
       content \in [Download!Calls -> SUBSET Download!Calls]
  /\ dest \in [Download!Calls -> Download!Calls \cup {Download!None}] /\
       got \in [Download!Calls -> 0 .. Chunks]
  /\ download_ui \in {"idle", "starting", "polling", "cancelling", "error", "ready"}
  /\ calls \in 0 .. MaxCalls
  /\ updated \in {"nothing", "whole", "broken"} /\ foreign \in BOOLEAN /\ unheard \in BOOLEAN

(* They are those of TypeOK.                                                *)
LEMMA DownloadTypesAre == Download!TypeOK <=> DownloadTypes
BY DEF Download!TypeOK, DownloadTypes, EntryTypes

(* Every step keeps these types; the counter of the entry stays in its      *)
(* range because what it counts was read (CountsWritten).                   *)
LEMMA TypesKept == DownloadTypes /\ Begun /\ DownloadGoes => DownloadTypes'
<1> SUFFICES ASSUME DownloadTypes /\ Begun, DownloadGoes PROVE DownloadTypes'
  OBVIOUS
<1> USE PartsAssumption DEF Download!DownloaderAssumption, Download!map, Download!files,
      Download!history, Download!Calls, Download!None, Download!Unknown, DownloadTypes, Begun
<1>1. ASSUME NEW c \in Download!Calls, Download!client_created(c) PROVE DownloadTypes'
  BY <1>1 DEF Download!client_created
<1>2. ASSUME NEW c \in Download!Calls, LengthKnown(c) PROVE DownloadTypes'
  BY <1>2 DEF LengthKnown, Elsewhere
<1>3. ASSUME NEW c \in Download!Calls, Opened(c) PROVE DownloadTypes'
  BY <1>3 DEF Opened, Elsewhere
<1>4. ASSUME NEW c \in Download!Calls, Written(c), CountsWritten' PROVE DownloadTypes'
  <2>1. got \in [Download!Calls -> 0 .. Chunks] /\ got[c] < Chunks /\
          got' = [got EXCEPT ![c] = got[c] + 1]
    BY <1>4 DEF Written
  <2>2. content' \in [Download!Calls -> SUBSET Download!Calls]
    BY <1>4 DEF Written
  <2>3. entry' \in EntryTypes /\ (entry'.tx = Download!None => entry' = Download!NoEntry) /\
          foreign' \in BOOLEAN
    <3>1. foreign' \in BOOLEAN
      BY <1>4, Zenon DEF Written
    <3> QED  BY <1>4, <3>1 DEF Written
  <2> HIDE DEF DownloadTypes, Begun
  <2>4. got' \in [Download!Calls -> 0 .. Chunks]
    <3>1. got[c] + 1 \in 0 .. Chunks
      BY <2>1
    <3> QED  BY <2>1, <3>1
  <2>5. UNCHANGED <<cancelled, call, download_ui, calls, updated, unheard, download_thread, dir,
          dest, deaf>>
    BY <1>4 DEF Written, Elsewhere
  <2> QED  BY <2>2, <2>3, <2>4, <2>5 DEF DownloadTypes
<1>5. ASSUME NEW c \in Download!Calls, Finished(c) PROVE DownloadTypes'
  <2>1. deaf' \subseteq cancelled' /\ cancelled' = cancelled
    BY <1>5 DEF Finished, Elsewhere
  <2>2. download_thread' \in [Download!Calls -> {"none", "client", "head", "get", "body",
          "ended"}]
    BY <1>5 DEF Finished
  <2>3. UNCHANGED <<entry, Download!files, foreign, call, download_ui, calls, updated, unheard>>
    BY <1>5 DEF Finished, Elsewhere
  <2> QED  BY <2>1, <2>2, <2>3
<1>6. ASSUME NEW c \in Download!Calls, Failed(c) PROVE DownloadTypes'
  BY <1>6 DEF Failed, Elsewhere
<1>7. ASSUME NEW c \in Download!Calls, Download!cancel_heard(c) PROVE DownloadTypes'
  BY <1>7, EntriesTyped DEF Download!cancel_heard, Download!Strange
<1>8. ASSUME NEW c \in Download!Calls, Download!remove_file(c) PROVE DownloadTypes'
  BY <1>8 DEF Download!remove_file, Download!CallGoes
<1>9. ASSUME NEW c \in Download!Calls, Reused(c) PROVE DownloadTypes'
  BY <1>9 DEF Reused
<1>10. ASSUME NEW c \in Download!Calls, Cleared(c) PROVE DownloadTypes'
  BY <1>10, EntriesTyped DEF Cleared
<1>11. ASSUME NEW c \in Download!Calls, Download!stale_removed(c) PROVE DownloadTypes'
  BY <1>11 DEF Download!stale_removed, Download!CallGoes
<1>12. ASSUME NEW c \in Download!Calls, Download!path_exists(c) PROVE DownloadTypes'
  BY <1>12 DEF Download!path_exists, Download!CallGoes
<1>13. ASSUME NEW c \in Download!Calls, Started(c) PROVE DownloadTypes'
  <2>1. entry' \in EntryTypes /\ entry'.tx # Download!None /\
          dir' \in Download!Calls \cup {Download!None}
    BY <1>13 DEF Started
  <2>2. download_thread' \in [Download!Calls -> {"none", "client", "head", "get", "body",
          "ended"}]
    BY <1>13 DEF Started
  <2>3. call' \in [Download!Calls -> {"none", "called", "check", "stale", "exists", "insert",
          "event_id", "event_error",
                            "done"}]
    BY <1>13 DEF Started
  <2>4. UNCHANGED <<cancelled, content, dest, got, download_ui, calls, updated, deaf, unheard,
          foreign>>
    BY <1>13 DEF Started
  <2> QED  BY <2>1, <2>2, <2>3, <2>4
<1>14. ASSUME NEW c \in Download!Calls, Answered(c, "event_id", "polling") PROVE DownloadTypes'
  BY <1>14 DEF Answered
<1>15. ASSUME NEW c \in Download!Calls, Answered(c, "event_error", "error") PROVE DownloadTypes'
  BY <1>15 DEF Answered
<1>16. CASE Download!handleUpdate
  BY <1>16 DEF Download!handleUpdate
<1>17. CASE Download!closed
  BY <1>17 DEF Download!closed
<1>18. CASE Download!_updateDownloadData
  BY <1>18, EntriesTyped DEF Download!_updateDownloadData
<1>19. CASE Download!cancel
  <2>0. entry.tx \in Download!Calls \cup {Download!None}
    BY DEF EntryTypes
  <2>1. cancelled' \subseteq Download!Calls /\ deaf \subseteq cancelled'
    BY <1>19, <2>0 DEF Download!cancel
  <2>2. unheard' \in BOOLEAN
    BY <1>19, Zenon DEF Download!cancel
  <2>3. download_ui' = "cancelling" /\ UNCHANGED <<entry, call, download_thread, Download!files,
          calls, updated, deaf, foreign>>
    BY <1>19 DEF Download!cancel
  <2> QED  BY <2>1, <2>2, <2>3
<1>20. CASE Download!cancel_waited
  BY <1>20 DEF Download!cancel_waited
<1>21. CASE Download!update_me
  BY <1>21 DEF Download!update_me
<1>22. CASE UNCHANGED Download!vars
  BY <1>22 DEF Download!vars
<1> QED  BY <1>1, <1>2, <1>3, <1>4, <1>5, <1>6, <1>7, <1>8, <1>9, <1>10, <1>11, <1>12, <1>13,
      <1>14, <1>15, <1>16, <1>17, <1>18, <1>19, <1>20, <1>21, <1>22 DEF DownloadGoes

(* Every step keeps the types.                                              *)
LEMMA DownloadTyped == Download!TypeOK /\ Begun /\ DownloadGoes => Download!TypeOK'
BY DownloadTypesAre, TypesKept, PTL

(* No step makes the entry count more than was read.                        *)
LEMMA CountsKept == Download!TypeOK /\ CountsWritten /\ DownloadGoes => CountsWritten'
<1> SUFFICES ASSUME Download!TypeOK /\ CountsWritten, DownloadGoes PROVE CountsWritten'
  OBVIOUS
<1> USE PartsAssumption DEF Download!DownloaderAssumption, Download!map, Download!files,
      Download!history, Download!Calls, Download!None, Download!Unknown, Download!TypeOK,
          CountsWritten
<1>0. \A g : Cardinality(Pairs(g)) \in Nat
  BY PairsFinite
<1>1. ASSUME NEW c \in Download!Calls, Download!client_created(c) PROVE CountsWritten'
  BY <1>1, <1>0 DEF Download!client_created
<1>2. ASSUME NEW c \in Download!Calls, LengthKnown(c) PROVE CountsWritten'
  BY <1>2, <1>0 DEF LengthKnown, Elsewhere
<1>3. ASSUME NEW c \in Download!Calls, Opened(c) PROVE CountsWritten'
  BY <1>3, <1>0 DEF Opened, Elsewhere
<1>4. ASSUME NEW c \in Download!Calls, Written(c), CountsWritten' PROVE CountsWritten'
  BY <1>4, <1>0 DEF Written, Elsewhere
<1>5. ASSUME NEW c \in Download!Calls, Finished(c) PROVE CountsWritten'
  BY <1>5, <1>0 DEF Finished, Elsewhere
<1>6. ASSUME NEW c \in Download!Calls, Failed(c) PROVE CountsWritten'
  BY <1>6, <1>0 DEF Failed, Elsewhere
<1>7. ASSUME NEW c \in Download!Calls, Download!cancel_heard(c) PROVE CountsWritten'
  BY <1>7, <1>0, EntriesTyped DEF Download!cancel_heard, Download!Strange
<1>8. ASSUME NEW c \in Download!Calls, Download!remove_file(c) PROVE CountsWritten'
  BY <1>8, <1>0 DEF Download!remove_file, Download!CallGoes
<1>9. ASSUME NEW c \in Download!Calls, Reused(c) PROVE CountsWritten'
  BY <1>9, <1>0 DEF Reused
<1>10. ASSUME NEW c \in Download!Calls, Cleared(c) PROVE CountsWritten'
  BY <1>10, <1>0, EntriesTyped DEF Cleared
<1>11. ASSUME NEW c \in Download!Calls, Download!stale_removed(c) PROVE CountsWritten'
  BY <1>11, <1>0 DEF Download!stale_removed, Download!CallGoes
<1>12. ASSUME NEW c \in Download!Calls, Download!path_exists(c) PROVE CountsWritten'
  BY <1>12, <1>0 DEF Download!path_exists, Download!CallGoes
<1>13. ASSUME NEW c \in Download!Calls, Started(c) PROVE CountsWritten'
  BY <1>13, <1>0 DEF Started
<1>14. ASSUME NEW c \in Download!Calls, Answered(c, "event_id", "polling") PROVE CountsWritten'
  BY <1>14, <1>0 DEF Answered
<1>15. ASSUME NEW c \in Download!Calls, Answered(c, "event_error", "error") PROVE CountsWritten'
  BY <1>15, <1>0 DEF Answered
<1>16. CASE Download!handleUpdate
  BY <1>16, <1>0 DEF Download!handleUpdate
<1>17. CASE Download!closed
  BY <1>17, <1>0 DEF Download!closed
<1>18. CASE Download!_updateDownloadData
  BY <1>18, <1>0, EntriesTyped DEF Download!_updateDownloadData
<1>19. CASE Download!cancel
  BY <1>19, <1>0 DEF Download!cancel
<1>20. CASE Download!cancel_waited
  BY <1>20, <1>0 DEF Download!cancel_waited
<1>21. CASE Download!update_me
  BY <1>21, <1>0 DEF Download!update_me
<1>22. CASE UNCHANGED Download!vars
  BY <1>22, <1>0 DEF Download!vars
<1> QED  BY <1>1, <1>2, <1>3, <1>4, <1>5, <1>6, <1>7, <1>8, <1>9, <1>10, <1>11, <1>12, <1>13,
      <1>14, <1>15, <1>16, <1>17, <1>18, <1>19, <1>20, <1>21, <1>22 DEF DownloadGoes

(* No step lets a thread run ahead of its call.                             *)
LEMMA BegunKept == Download!TypeOK /\ Begun /\ DownloadGoes => Begun'
<1> SUFFICES ASSUME Download!TypeOK /\ Begun, DownloadGoes PROVE Begun'
  OBVIOUS
<1> USE PartsAssumption DEF Download!DownloaderAssumption, Download!map, Download!files,
      Download!history, Download!Calls, Download!None, Download!Unknown, Download!TypeOK, Begun
<1>1. ASSUME NEW c \in Download!Calls, Download!client_created(c) PROVE Begun'
  BY <1>1 DEF Download!client_created
<1>2. ASSUME NEW c \in Download!Calls, LengthKnown(c) PROVE Begun'
  BY <1>2 DEF LengthKnown, Elsewhere
<1>3. ASSUME NEW c \in Download!Calls, Opened(c) PROVE Begun'
  BY <1>3 DEF Opened, Elsewhere
<1>4. ASSUME NEW c \in Download!Calls, Written(c), CountsWritten' PROVE Begun'
  BY <1>4 DEF Written, Elsewhere
<1>5. ASSUME NEW c \in Download!Calls, Finished(c) PROVE Begun'
  BY <1>5 DEF Finished, Elsewhere
<1>6. ASSUME NEW c \in Download!Calls, Failed(c) PROVE Begun'
  BY <1>6 DEF Failed, Elsewhere
<1>7. ASSUME NEW c \in Download!Calls, Download!cancel_heard(c) PROVE Begun'
  BY <1>7, EntriesTyped DEF Download!cancel_heard, Download!Strange
<1>8. ASSUME NEW c \in Download!Calls, Download!remove_file(c) PROVE Begun'
  BY <1>8 DEF Download!remove_file, Download!CallGoes
<1>9. ASSUME NEW c \in Download!Calls, Reused(c) PROVE Begun'
  BY <1>9 DEF Reused
<1>10. ASSUME NEW c \in Download!Calls, Cleared(c) PROVE Begun'
  BY <1>10, EntriesTyped DEF Cleared
<1>11. ASSUME NEW c \in Download!Calls, Download!stale_removed(c) PROVE Begun'
  BY <1>11 DEF Download!stale_removed, Download!CallGoes
<1>12. ASSUME NEW c \in Download!Calls, Download!path_exists(c) PROVE Begun'
  BY <1>12 DEF Download!path_exists, Download!CallGoes
<1>13. ASSUME NEW c \in Download!Calls, Started(c) PROVE Begun'
  BY <1>13 DEF Started
<1>14. ASSUME NEW c \in Download!Calls, Answered(c, "event_id", "polling") PROVE Begun'
  BY <1>14 DEF Answered
<1>15. ASSUME NEW c \in Download!Calls, Answered(c, "event_error", "error") PROVE Begun'
  BY <1>15 DEF Answered
<1>16. CASE Download!handleUpdate
  BY <1>16 DEF Download!handleUpdate
<1>17. CASE Download!closed
  BY <1>17 DEF Download!closed
<1>18. CASE Download!_updateDownloadData
  BY <1>18, EntriesTyped DEF Download!_updateDownloadData
<1>19. CASE Download!cancel
  BY <1>19 DEF Download!cancel
<1>20. CASE Download!cancel_waited
  BY <1>20 DEF Download!cancel_waited
<1>21. CASE Download!update_me
  BY <1>21 DEF Download!update_me
<1>22. CASE UNCHANGED Download!vars
  BY <1>22 DEF Download!vars
<1> QED  BY <1>1, <1>2, <1>3, <1>4, <1>5, <1>6, <1>7, <1>8, <1>9, <1>10, <1>11, <1>12, <1>13,
      <1>14, <1>15, <1>16, <1>17, <1>18, <1>19, <1>20, <1>21, <1>22 DEF DownloadGoes

(* Every step of a thread in its own entry keeps the two together.          *)
LEMMA OwnKept == Download!TypeOK /\ Begun /\ OwnEntry /\ DownloadGoes => OwnEntry'
<1> SUFFICES ASSUME Download!TypeOK /\ Begun /\ OwnEntry, DownloadGoes PROVE OwnEntry'
  OBVIOUS
<1> USE PartsAssumption DEF Download!DownloaderAssumption, Download!map, Download!files,
      Download!history, Download!Calls, Download!None, Download!Unknown, Download!TypeOK, Begun,
          OwnEntry
<1>1. ASSUME NEW c \in Download!Calls, Download!client_created(c) PROVE OwnEntry'
  BY <1>1 DEF Download!client_created
<1>2. ASSUME NEW c \in Download!Calls, LengthKnown(c) PROVE OwnEntry'
  BY <1>2 DEF LengthKnown, Elsewhere
<1>3. ASSUME NEW c \in Download!Calls, Opened(c) PROVE OwnEntry'
  BY <1>3 DEF Opened, Elsewhere
<1>4. ASSUME NEW c \in Download!Calls, Written(c), CountsWritten' PROVE OwnEntry'
  BY <1>4 DEF Written, Elsewhere
<1>5. ASSUME NEW c \in Download!Calls, Finished(c) PROVE OwnEntry'
  BY <1>5 DEF Finished, Elsewhere
<1>6. ASSUME NEW c \in Download!Calls, Failed(c) PROVE OwnEntry'
  BY <1>6 DEF Failed, Elsewhere
<1>7. ASSUME NEW c \in Download!Calls, Download!cancel_heard(c) PROVE OwnEntry'
  BY <1>7, EntriesTyped DEF Download!cancel_heard, Download!Strange
<1>8. ASSUME NEW c \in Download!Calls, Download!remove_file(c) PROVE OwnEntry'
  BY <1>8 DEF Download!remove_file, Download!CallGoes
<1>9. ASSUME NEW c \in Download!Calls, Reused(c) PROVE OwnEntry'
  BY <1>9 DEF Reused
<1>10. ASSUME NEW c \in Download!Calls, Cleared(c) PROVE OwnEntry'
  BY <1>10, EntriesTyped DEF Cleared
<1>11. ASSUME NEW c \in Download!Calls, Download!stale_removed(c) PROVE OwnEntry'
  BY <1>11 DEF Download!stale_removed, Download!CallGoes
<1>12. ASSUME NEW c \in Download!Calls, Download!path_exists(c) PROVE OwnEntry'
  BY <1>12 DEF Download!path_exists, Download!CallGoes
<1>13. ASSUME NEW c \in Download!Calls, Started(c) PROVE OwnEntry'
  BY <1>13 DEF Started
<1>14. ASSUME NEW c \in Download!Calls, Answered(c, "event_id", "polling") PROVE OwnEntry'
  BY <1>14 DEF Answered
<1>15. ASSUME NEW c \in Download!Calls, Answered(c, "event_error", "error") PROVE OwnEntry'
  BY <1>15 DEF Answered
<1>16. CASE Download!handleUpdate
  BY <1>16 DEF Download!handleUpdate
<1>17. CASE Download!closed
  BY <1>17 DEF Download!closed
<1>18. CASE Download!_updateDownloadData
  BY <1>18, EntriesTyped DEF Download!_updateDownloadData
<1>19. CASE Download!cancel
  BY <1>19 DEF Download!cancel
<1>20. CASE Download!cancel_waited
  BY <1>20 DEF Download!cancel_waited
<1>21. CASE Download!update_me
  BY <1>21 DEF Download!update_me
<1>22. CASE UNCHANGED Download!vars
  BY <1>22 DEF Download!vars
<1> QED  BY <1>1, <1>2, <1>3, <1>4, <1>5, <1>6, <1>7, <1>8, <1>9, <1>10, <1>11, <1>12, <1>13,
      <1>14, <1>15, <1>16, <1>17, <1>18, <1>19, <1>20, <1>21, <1>22 DEF DownloadGoes

(* Every step keeps the traces of a cancelled thread away.                  *)
LEMMA GoneKept == Download!TypeOK /\ Begun /\ OwnEntry /\ RemovedGone /\ DownloadGoes =>
    RemovedGone'
<1> SUFFICES ASSUME Download!TypeOK /\ Begun /\ OwnEntry /\ RemovedGone, DownloadGoes
      PROVE RemovedGone'
  OBVIOUS
<1> USE PartsAssumption DEF Download!DownloaderAssumption, Download!map, Download!files,
      Download!history, Download!Calls, Download!None, Download!Unknown, Download!TypeOK, Begun,
          OwnEntry, RemovedGone
<1>1. ASSUME NEW c \in Download!Calls, Download!client_created(c) PROVE RemovedGone'
  <2> SUFFICES ASSUME ~foreign', NEW k \in cancelled', download_thread'[k] = "ended",
        got'[k] # Chunks
               PROVE  Removed(k)'
    BY DEF RemovedGone
  <2> QED  BY <1>1, EntriesTyped DEF Download!client_created, Removed
<1>2. ASSUME NEW c \in Download!Calls, LengthKnown(c) PROVE RemovedGone'
  <2> SUFFICES ASSUME ~foreign', NEW k \in cancelled', download_thread'[k] = "ended",
        got'[k] # Chunks
               PROVE  Removed(k)'
    BY DEF RemovedGone
  <2>1. Removed(k)
    BY <1>2 DEF RemovedGone, LengthKnown, Elsewhere
  <2>2. \A j \in Download!Calls : call[j] = "stale" => call'[j] = "stale"
    BY <1>2 DEF LengthKnown, Elsewhere
  <2>3. entry'.tx = entry.tx /\ entry'.error = entry.error /\ dir' = dir /\ content' = content
    BY <1>2 DEF LengthKnown, Elsewhere
  <2> HIDE DEF Download!TypeOK, Begun, OwnEntry, RemovedGone
  <2> QED  BY <2>1, <2>2, <2>3 DEF Removed
<1>3. ASSUME NEW c \in Download!Calls, Opened(c) PROVE RemovedGone'
  <2> SUFFICES ASSUME ~foreign', NEW k \in cancelled', download_thread'[k] = "ended",
        got'[k] # Chunks
               PROVE  Removed(k)'
    BY DEF RemovedGone
  <2> QED  BY <1>3, EntriesTyped DEF Opened, Elsewhere, Removed
<1>4. ASSUME NEW c \in Download!Calls, Written(c), CountsWritten' PROVE RemovedGone'
  <2> SUFFICES ASSUME ~foreign', NEW k \in cancelled', download_thread'[k] = "ended",
        got'[k] # Chunks
               PROVE  Removed(k)'
    BY DEF RemovedGone
  <2>1. k # c /\ k \in cancelled /\ download_thread[k] = "ended" /\ got[k] # Chunks /\ ~foreign /\
          entry'.tx = c
    BY <1>4 DEF Written, Elsewhere
  <2>2. Removed(k)
    BY <2>1 DEF RemovedGone
  <2>3. content \in [Download!Calls -> SUBSET Download!Calls] /\
          content' = [content EXCEPT ![dest[c]] = content[dest[c]] \cup {c}]
    BY <1>4 DEF Written, Elsewhere
  <2>4. content'[dir] = {k} => content[dir] = {k}
    BY <2>1, <2>3
  <2>5. dir' = dir /\ call' = call
    BY <1>4 DEF Written, Elsewhere
  <2> HIDE DEF Download!TypeOK, Begun, OwnEntry, RemovedGone
  <2> QED  BY <1>4, EntriesTyped, <2>1, <2>2, <2>4, <2>5 DEF Written, Elsewhere, Removed
<1>5. ASSUME NEW c \in Download!Calls, Finished(c) PROVE RemovedGone'
  <2> SUFFICES ASSUME ~foreign', NEW k \in cancelled', download_thread'[k] = "ended",
        got'[k] # Chunks
               PROVE  Removed(k)'
    BY DEF RemovedGone
  <2>1. Removed(k)
    BY <1>5 DEF RemovedGone, Finished, Elsewhere
  <2>2. \A j \in Download!Calls : call[j] = "stale" => call'[j] = "stale"
    BY <1>5 DEF Finished, Elsewhere
  <2>3. entry'.tx = entry.tx /\ entry'.error = entry.error /\ dir' = dir /\ content' = content
    BY <1>5 DEF Finished, Elsewhere
  <2> HIDE DEF Download!TypeOK, Begun, OwnEntry, RemovedGone
  <2> QED  BY <2>1, <2>2, <2>3 DEF Removed
<1>6. ASSUME NEW c \in Download!Calls, Failed(c) PROVE RemovedGone'
  <2> SUFFICES ASSUME ~foreign', NEW k \in cancelled', download_thread'[k] = "ended",
        got'[k] # Chunks
               PROVE  Removed(k)'
    BY DEF RemovedGone
  <2>0. ~foreign /\ entry.tx = c
    BY <1>6, Zenon DEF Failed, Elsewhere
  <2>1. ~foreign /\ entry.tx = c /\ entry'.tx = c /\ entry'.error
    BY <2>0, <1>6 DEF Failed, Elsewhere
  <2>2. k # c => Removed(k)
    BY <2>1, <1>6 DEF RemovedGone, Failed, Elsewhere
  <2> QED  BY <1>6, EntriesTyped, <2>1, <2>2 DEF Failed, Elsewhere, Removed
<1>7. ASSUME NEW c \in Download!Calls, Download!cancel_heard(c) PROVE RemovedGone'
  <2> SUFFICES ASSUME ~foreign', NEW k \in cancelled', download_thread'[k] = "ended",
        got'[k] # Chunks
               PROVE  Removed(k)'
    BY DEF RemovedGone
  <2>0. ~foreign /\ entry.tx = c
    BY <1>7, Zenon DEF Download!cancel_heard, Download!Strange
  <2>1. ~foreign /\ entry.tx = c /\ entry'.tx = Download!None /\ dir' = Download!None
    BY <2>0, <1>7, EntriesTyped DEF Download!cancel_heard, Download!Strange
  <2> QED  BY <1>7, EntriesTyped, <2>1 DEF Download!cancel_heard, Download!Strange, Removed
<1>8. ASSUME NEW c \in Download!Calls, Download!remove_file(c) PROVE RemovedGone'
  <2> SUFFICES ASSUME ~foreign', NEW k \in cancelled', download_thread'[k] = "ended",
        got'[k] # Chunks
               PROVE  Removed(k)'
    BY DEF RemovedGone
  <2> QED  BY <1>8, EntriesTyped DEF Download!remove_file, Download!CallGoes, Removed
<1>9. ASSUME NEW c \in Download!Calls, Reused(c) PROVE RemovedGone'
  <2> SUFFICES ASSUME ~foreign', NEW k \in cancelled', download_thread'[k] = "ended",
        got'[k] # Chunks
               PROVE  Removed(k)'
    BY DEF RemovedGone
  <2>1. Removed(k)
    BY <1>9 DEF RemovedGone, Reused
  <2>2. \A j \in Download!Calls : call[j] = "stale" => call'[j] = "stale"
    BY <1>9 DEF Reused
  <2>3. entry'.tx = entry.tx /\ entry'.error = entry.error /\ dir' = dir /\ content' = content
    BY <1>9 DEF Reused
  <2> HIDE DEF Download!TypeOK, Begun, OwnEntry, RemovedGone
  <2> QED  BY <2>1, <2>2, <2>3 DEF Removed
<1>10. ASSUME NEW c \in Download!Calls, Cleared(c) PROVE RemovedGone'
  <2> SUFFICES ASSUME ~foreign', NEW k \in cancelled', download_thread'[k] = "ended",
        got'[k] # Chunks
               PROVE  Removed(k)'
    BY DEF RemovedGone
  <2>1. Removed(k)
    BY <1>10 DEF RemovedGone, Cleared
  <2>2. \A j \in Download!Calls : call[j] = "stale" => call'[j] = "stale"
    BY <1>10 DEF Cleared
  <2>3. entry.tx = k => call'[c] = "stale"
    BY <1>10 DEF Cleared
  <2>4. entry'.tx = Download!None
    BY <1>10, EntriesTyped DEF Cleared
  <2> QED  BY <1>10, EntriesTyped, <2>1, <2>2, <2>3, <2>4 DEF Cleared, Removed
<1>11. ASSUME NEW c \in Download!Calls, Download!stale_removed(c) PROVE RemovedGone'
  <2> SUFFICES ASSUME ~foreign', NEW k \in cancelled', download_thread'[k] = "ended",
        got'[k] # Chunks
               PROVE  Removed(k)'
    BY DEF RemovedGone
  <2> QED  BY <1>11, EntriesTyped DEF Download!stale_removed, Download!CallGoes, Removed
<1>12. ASSUME NEW c \in Download!Calls, Download!path_exists(c) PROVE RemovedGone'
  <2> SUFFICES ASSUME ~foreign', NEW k \in cancelled', download_thread'[k] = "ended",
        got'[k] # Chunks
               PROVE  Removed(k)'
    BY DEF RemovedGone
  <2> QED  BY <1>12, EntriesTyped DEF Download!path_exists, Download!CallGoes, Removed
<1>13. ASSUME NEW c \in Download!Calls, Started(c) PROVE RemovedGone'
  <2> SUFFICES ASSUME ~foreign', NEW k \in cancelled', download_thread'[k] = "ended",
        got'[k] # Chunks
               PROVE  Removed(k)'
    BY DEF RemovedGone
  <2>1. k # c /\ Removed(k)
    BY <1>13 DEF RemovedGone, Started
  <2>2. \A j \in Download!Calls : call[j] = "stale" => call'[j] = "stale"
    BY <1>13 DEF Started
  <2>3. entry'.tx # k /\ entry.tx = k => dir' = Download!None
    BY <2>1, <1>13 DEF Started
  <2>4. dir' # Download!None => dir' = dir /\ content' = content /\ entry.tx = Download!None
    BY <1>13 DEF Started
  <2> QED  BY <1>13, EntriesTyped, <2>1, <2>2, <2>3, <2>4 DEF Started, Removed
<1>14. ASSUME NEW c \in Download!Calls, Answered(c, "event_id", "polling") PROVE RemovedGone'
  <2> SUFFICES ASSUME ~foreign', NEW k \in cancelled', download_thread'[k] = "ended",
        got'[k] # Chunks
               PROVE  Removed(k)'
    BY DEF RemovedGone
  <2>1. Removed(k)
    BY <1>14 DEF RemovedGone, Answered
  <2>2. \A j \in Download!Calls : call[j] = "stale" => call'[j] = "stale"
    BY <1>14 DEF Answered
  <2>3. entry'.tx = entry.tx /\ entry'.error = entry.error /\ dir' = dir /\ content' = content
    BY <1>14 DEF Answered
  <2> HIDE DEF Download!TypeOK, Begun, OwnEntry, RemovedGone
  <2> QED  BY <2>1, <2>2, <2>3 DEF Removed
<1>15. ASSUME NEW c \in Download!Calls, Answered(c, "event_error", "error") PROVE RemovedGone'
  <2> SUFFICES ASSUME ~foreign', NEW k \in cancelled', download_thread'[k] = "ended",
        got'[k] # Chunks
               PROVE  Removed(k)'
    BY DEF RemovedGone
  <2>1. Removed(k)
    BY <1>15 DEF RemovedGone, Answered
  <2>2. \A j \in Download!Calls : call[j] = "stale" => call'[j] = "stale"
    BY <1>15 DEF Answered
  <2>3. entry'.tx = entry.tx /\ entry'.error = entry.error /\ dir' = dir /\ content' = content
    BY <1>15 DEF Answered
  <2> HIDE DEF Download!TypeOK, Begun, OwnEntry, RemovedGone
  <2> QED  BY <2>1, <2>2, <2>3 DEF Removed
<1>16. CASE Download!handleUpdate
  <2> SUFFICES ASSUME ~foreign', NEW k \in cancelled', download_thread'[k] = "ended",
        got'[k] # Chunks
               PROVE  Removed(k)'
    BY DEF RemovedGone
  <2>1. Removed(k)
    BY <1>16 DEF RemovedGone, Download!handleUpdate
  <2>2. \A j \in Download!Calls : call[j] = "stale" => call'[j] = "stale"
    <3>1. calls + 1 \in Download!Calls /\ call[calls + 1] = "none"
      BY <1>16 DEF Download!handleUpdate
    <3> QED  BY <3>1, <1>16 DEF Download!handleUpdate
  <2> QED  BY <1>16, EntriesTyped, <2>1, <2>2 DEF Download!handleUpdate, Removed
<1>17. CASE Download!closed
  <2> SUFFICES ASSUME ~foreign', NEW k \in cancelled', download_thread'[k] = "ended",
        got'[k] # Chunks
               PROVE  Removed(k)'
    BY DEF RemovedGone
  <2> QED  BY <1>17, EntriesTyped DEF Download!closed, Removed
<1>18. CASE Download!_updateDownloadData
  <2> SUFFICES ASSUME ~foreign', NEW k \in cancelled', download_thread'[k] = "ended",
        got'[k] # Chunks
               PROVE  Removed(k)'
    BY DEF RemovedGone
  <2> QED  BY <1>18, EntriesTyped DEF Download!_updateDownloadData, Removed
<1>19. CASE Download!cancel
  <2> SUFFICES ASSUME ~foreign', NEW k \in cancelled', download_thread'[k] = "ended",
        got'[k] # Chunks
               PROVE  Removed(k)'
    BY DEF RemovedGone
  <2> QED  BY <1>19, EntriesTyped DEF Download!cancel, Removed
<1>20. CASE Download!cancel_waited
  <2> SUFFICES ASSUME ~foreign', NEW k \in cancelled', download_thread'[k] = "ended",
        got'[k] # Chunks
               PROVE  Removed(k)'
    BY DEF RemovedGone
  <2> QED  BY <1>20, EntriesTyped DEF Download!cancel_waited, Removed
<1>21. CASE Download!update_me
  <2> SUFFICES ASSUME ~foreign', NEW k \in cancelled', download_thread'[k] = "ended",
        got'[k] # Chunks
               PROVE  Removed(k)'
    BY DEF RemovedGone
  <2> QED  BY <1>21, EntriesTyped DEF Download!update_me, Removed
<1>22. CASE UNCHANGED Download!vars
  <2> SUFFICES ASSUME ~foreign', NEW k \in cancelled', download_thread'[k] = "ended",
        got'[k] # Chunks
               PROVE  Removed(k)'
    BY DEF RemovedGone
  <2>1. Removed(k)
    BY <1>22 DEF RemovedGone, Download!vars
  <2> QED  BY <1>22, EntriesTyped, <2>1 DEF Download!vars, Removed
<1> QED  BY <1>1, <1>2, <1>3, <1>4, <1>5, <1>6, <1>7, <1>8, <1>9, <1>10, <1>11, <1>12, <1>13,
      <1>14, <1>15, <1>16, <1>17, <1>18, <1>19, <1>20, <1>21, <1>22 DEF DownloadGoes

(* No step starts a second call while one is in flight.                     *)
LEMMA LatestKept == Download!TypeOK /\ Begun /\ OwnEntry /\ LatestOnly /\ Followed /\ AllNamed /\
    ReadyWhole /\ ~unheard' /\ ~foreign' /\ DownloadGoes => LatestOnly'
<1> SUFFICES ASSUME Download!TypeOK /\ Begun /\ OwnEntry /\ LatestOnly /\ Followed /\ AllNamed /\
      ReadyWhole /\ ~unheard' /\ ~foreign', DownloadGoes PROVE LatestOnly'
  OBVIOUS
<1> USE PartsAssumption DEF Download!DownloaderAssumption, Download!map, Download!files,
      Download!history, Download!Calls, Download!None, Download!Unknown, Download!TypeOK, Begun,
          OwnEntry, LatestOnly, InFlight, AllNamed, NamedAt
<1>1. ASSUME NEW c \in Download!Calls, Download!client_created(c) PROVE LatestOnly'
  BY <1>1, EntriesTyped DEF Download!client_created
<1>2. ASSUME NEW c \in Download!Calls, LengthKnown(c) PROVE LatestOnly'
  <2>1. entry.tx = c
    BY <1>2, Zenon DEF LengthKnown, Elsewhere
  <2> QED  BY <1>2, <2>1, EntriesTyped DEF LengthKnown, Elsewhere
<1>3. ASSUME NEW c \in Download!Calls, Opened(c) PROVE LatestOnly'
  BY <1>3, EntriesTyped DEF Opened, Elsewhere
<1>4. ASSUME NEW c \in Download!Calls, Written(c), CountsWritten' PROVE LatestOnly'
  <2>1. entry.tx = c
    BY <1>4, Zenon DEF Written, Elsewhere
  <2> QED  BY <1>4, <2>1, EntriesTyped DEF Written, Elsewhere
<1>5. ASSUME NEW c \in Download!Calls, Finished(c) PROVE LatestOnly'
  BY <1>5, EntriesTyped DEF Finished, Elsewhere
<1>6. ASSUME NEW c \in Download!Calls, Failed(c) PROVE LatestOnly'
  <2>1. entry.tx = c
    BY <1>6, Zenon DEF Failed, Elsewhere
  <2> QED  BY <1>6, <2>1, EntriesTyped DEF Failed, Elsewhere
<1>7. ASSUME NEW c \in Download!Calls, Download!cancel_heard(c) PROVE LatestOnly'
  <2>1. entry.tx = c
    BY <1>7, Zenon DEF Download!cancel_heard, Download!Strange
  <2> QED  BY <1>7, <2>1, EntriesTyped DEF Download!cancel_heard, Download!Strange
<1>8. ASSUME NEW c \in Download!Calls, Download!remove_file(c) PROVE LatestOnly'
  BY <1>8, EntriesTyped DEF Download!remove_file, Download!CallGoes
<1>9. ASSUME NEW c \in Download!Calls, Reused(c) PROVE LatestOnly'
  BY <1>9, EntriesTyped DEF Reused
<1>10. ASSUME NEW c \in Download!Calls, Cleared(c) PROVE LatestOnly'
  BY <1>10, EntriesTyped, EntriesTyped DEF Cleared
<1>11. ASSUME NEW c \in Download!Calls, Download!stale_removed(c) PROVE LatestOnly'
  BY <1>11, EntriesTyped DEF Download!stale_removed, Download!CallGoes
<1>12. ASSUME NEW c \in Download!Calls, Download!path_exists(c) PROVE LatestOnly'
  BY <1>12, EntriesTyped DEF Download!path_exists, Download!CallGoes
<1>13. ASSUME NEW c \in Download!Calls, Started(c) PROVE LatestOnly'
  <2>0. InFlight(c)
    BY <1>13 DEF Started
  <2>1. c = calls /\ download_ui = "starting" /\ \A k \in Download!Calls : k # c => ~InFlight(k)
    BY <2>0, OnlyLatest
  <2>2. call'[c] = "event_id" /\ \A k \in Download!Calls : k # c => call'[k] \in {"none", "done"}
    BY <1>13, <2>1 DEF Started
  <2> QED  BY <1>13, <2>1, <2>2 DEF Started
<1>14. ASSUME NEW c \in Download!Calls, Answered(c, "event_id", "polling") PROVE LatestOnly'
  <2>0. InFlight(c)
    BY <1>14 DEF Answered
  <2>1. c = calls /\ download_ui = "starting" /\ \A k \in Download!Calls : k # c => ~InFlight(k)
    BY <2>0, OnlyLatest
  <2> QED  BY <1>14, <2>1, EntriesTyped DEF Answered
<1>15. ASSUME NEW c \in Download!Calls, Answered(c, "event_error", "error") PROVE LatestOnly'
  <2>0. InFlight(c)
    BY <1>15 DEF Answered
  <2>1. c = calls /\ download_ui = "starting" /\ \A k \in Download!Calls : k # c => ~InFlight(k)
    BY <2>0, OnlyLatest
  <2> QED  BY <1>15, <2>1, EntriesTyped DEF Answered
<1>16. CASE Download!handleUpdate
  BY <1>16, EntriesTyped DEF Download!handleUpdate
<1>17. CASE Download!closed
  BY <1>17, EntriesTyped DEF Download!closed
<1>18. CASE Download!_updateDownloadData
  BY <1>18, EntriesTyped, EntriesTyped DEF Download!_updateDownloadData
<1>19. CASE Download!cancel
  BY <1>19, EntriesTyped DEF Download!cancel
<1>20. CASE Download!cancel_waited
  BY <1>20, EntriesTyped DEF Download!cancel_waited
<1>21. CASE Download!update_me
  BY <1>21, EntriesTyped DEF Download!update_me
<1>22. CASE UNCHANGED Download!vars
  BY <1>22, EntriesTyped DEF Download!vars
<1> QED  BY <1>1, <1>2, <1>3, <1>4, <1>5, <1>6, <1>7, <1>8, <1>9, <1>10, <1>11, <1>12, <1>13,
      <1>14, <1>15, <1>16, <1>17, <1>18, <1>19, <1>20, <1>21, <1>22 DEF DownloadGoes

(* An entry that goes on keeps its dialog, until it is cancelled.           *)
LEMMA HeardKept == Download!TypeOK /\ Begun /\ OwnEntry /\ LatestOnly /\ Followed /\ AllNamed /\
    ReadyWhole /\ ~unheard' /\ ~foreign' /\ DownloadGoes => Followed'
<1> SUFFICES ASSUME Download!TypeOK /\ Begun /\ OwnEntry /\ LatestOnly /\ Followed /\ AllNamed /\
      ReadyWhole /\ ~unheard' /\ ~foreign', DownloadGoes PROVE Followed'
  OBVIOUS
<1> USE PartsAssumption DEF Download!DownloaderAssumption, Download!map, Download!files,
      Download!history, Download!Calls, Download!None, Download!Unknown, Download!TypeOK, Begun,
          OwnEntry, LatestOnly, InFlight, Followed, AllNamed, NamedAt
<1>1. ASSUME NEW c \in Download!Calls, Download!client_created(c) PROVE Followed'
  BY <1>1, EntriesTyped DEF Download!client_created
<1>2. ASSUME NEW c \in Download!Calls, LengthKnown(c) PROVE Followed'
  <2>1. entry.tx = c
    BY <1>2, Zenon DEF LengthKnown, Elsewhere
  <2> QED  BY <1>2, <2>1, EntriesTyped DEF LengthKnown, Elsewhere
<1>3. ASSUME NEW c \in Download!Calls, Opened(c) PROVE Followed'
  BY <1>3, EntriesTyped DEF Opened, Elsewhere
<1>4. ASSUME NEW c \in Download!Calls, Written(c), CountsWritten' PROVE Followed'
  <2>1. entry.tx = c
    BY <1>4, Zenon DEF Written, Elsewhere
  <2> QED  BY <1>4, <2>1, EntriesTyped DEF Written, Elsewhere
<1>5. ASSUME NEW c \in Download!Calls, Finished(c) PROVE Followed'
  BY <1>5, EntriesTyped DEF Finished, Elsewhere
<1>6. ASSUME NEW c \in Download!Calls, Failed(c) PROVE Followed'
  <2>1. entry.tx = c
    BY <1>6, Zenon DEF Failed, Elsewhere
  <2> QED  BY <1>6, <2>1, EntriesTyped DEF Failed, Elsewhere
<1>7. ASSUME NEW c \in Download!Calls, Download!cancel_heard(c) PROVE Followed'
  <2>1. entry.tx = c
    BY <1>7, Zenon DEF Download!cancel_heard, Download!Strange
  <2> QED  BY <1>7, <2>1, EntriesTyped DEF Download!cancel_heard, Download!Strange
<1>8. ASSUME NEW c \in Download!Calls, Download!remove_file(c) PROVE Followed'
  BY <1>8, EntriesTyped DEF Download!remove_file, Download!CallGoes
<1>9. ASSUME NEW c \in Download!Calls, Reused(c) PROVE Followed'
  BY <1>9, EntriesTyped DEF Reused
<1>10. ASSUME NEW c \in Download!Calls, Cleared(c) PROVE Followed'
  BY <1>10, EntriesTyped, EntriesTyped DEF Cleared
<1>11. ASSUME NEW c \in Download!Calls, Download!stale_removed(c) PROVE Followed'
  BY <1>11, EntriesTyped DEF Download!stale_removed, Download!CallGoes
<1>12. ASSUME NEW c \in Download!Calls, Download!path_exists(c) PROVE Followed'
  BY <1>12, EntriesTyped DEF Download!path_exists, Download!CallGoes
<1>13. ASSUME NEW c \in Download!Calls, Started(c) PROVE Followed'
  <2>0. InFlight(c)
    BY <1>13 DEF Started
  <2>1. c = calls /\ download_ui = "starting" /\ \A k \in Download!Calls : k # c => ~InFlight(k)
    BY <2>0, OnlyLatest
  <2> QED  BY <1>13, <2>1, EntriesTyped DEF Started
<1>14. ASSUME NEW c \in Download!Calls, Answered(c, "event_id", "polling") PROVE Followed'
  <2>0. InFlight(c)
    BY <1>14 DEF Answered
  <2>1. c = calls /\ download_ui = "starting" /\ \A k \in Download!Calls : k # c => ~InFlight(k)
    BY <2>0, OnlyLatest
  <2> QED  BY <1>14, <2>1, EntriesTyped DEF Answered
<1>15. ASSUME NEW c \in Download!Calls, Answered(c, "event_error", "error") PROVE Followed'
  <2>0. InFlight(c)
    BY <1>15 DEF Answered
  <2>1. c = calls /\ download_ui = "starting" /\ \A k \in Download!Calls : k # c => ~InFlight(k)
    BY <2>0, OnlyLatest
  <2> QED  BY <1>15, <2>1, EntriesTyped DEF Answered
<1>16. CASE Download!handleUpdate
  BY <1>16, EntriesTyped DEF Download!handleUpdate
<1>17. CASE Download!closed
  BY <1>17, EntriesTyped DEF Download!closed
<1>18. CASE Download!_updateDownloadData
  BY <1>18, EntriesTyped, EntriesTyped DEF Download!_updateDownloadData
<1>19. CASE Download!cancel
  BY <1>19, EntriesTyped DEF Download!cancel
<1>20. CASE Download!cancel_waited
  BY <1>20, EntriesTyped DEF Download!cancel_waited
<1>21. CASE Download!update_me
  BY <1>21, EntriesTyped DEF Download!update_me
<1>22. CASE UNCHANGED Download!vars
  BY <1>22, EntriesTyped DEF Download!vars
<1> QED  BY <1>1, <1>2, <1>3, <1>4, <1>5, <1>6, <1>7, <1>8, <1>9, <1>10, <1>11, <1>12, <1>13,
      <1>14, <1>15, <1>16, <1>17, <1>18, <1>19, <1>20, <1>21, <1>22 DEF DownloadGoes

(* Every step keeps the file of each thread its own.                        *)
LEMMA NamedKept == Download!TypeOK /\ Begun /\ OwnEntry /\ LatestOnly /\ Followed /\ AllNamed /\
    ReadyWhole /\ ~unheard' /\ ~foreign' /\ DownloadGoes => AllNamed'
<1> SUFFICES ASSUME Download!TypeOK /\ Begun /\ OwnEntry /\ LatestOnly /\ Followed /\ AllNamed /\
      ReadyWhole /\ ~unheard' /\ ~foreign', DownloadGoes PROVE AllNamed'
  OBVIOUS
<1> USE PartsAssumption DEF Download!DownloaderAssumption, Download!map, Download!files,
      Download!history, Download!Calls, Download!None, Download!Unknown, Download!TypeOK, Begun,
          OwnEntry, LatestOnly, InFlight, AllNamed, NamedAt
<1>1. ASSUME NEW c \in Download!Calls, Download!client_created(c) PROVE AllNamed'
  BY <1>1, EntriesTyped DEF Download!client_created
<1>2. ASSUME NEW c \in Download!Calls, LengthKnown(c) PROVE AllNamed'
  <2>1. entry.tx = c
    BY <1>2, Zenon DEF LengthKnown, Elsewhere
  <2> QED  BY <1>2, <2>1, EntriesTyped DEF LengthKnown, Elsewhere
<1>3. ASSUME NEW c \in Download!Calls, Opened(c) PROVE AllNamed'
  <2>1. got[c] = 0 /\ DOMAIN content = Download!Calls
          /\ DOMAIN download_thread = Download!Calls /\
          DOMAIN dest = Download!Calls
    BY <1>3 DEF Opened, Elsewhere
  <2> HIDE DEF NamedAt, Download!TypeOK, Begun, LatestOnly, OwnEntry
  <2>2. NamedAt(c) /\ Opened(c)
    BY <1>3
  <2>3. ASSUME NEW k \in Download!Calls PROVE NamedAt(k)'
    <3>1. NamedAt(k)
      OBVIOUS
    <3> QED  BY <2>1, <2>2, <3>1, NamedOpened
  <2> QED  BY <2>3
<1>4. ASSUME NEW c \in Download!Calls, Written(c), CountsWritten' PROVE AllNamed'
  <2>1. entry.tx = c
    BY <1>4, Zenon DEF Written, Elsewhere
  <2>2. got \in [Download!Calls -> Nat]
          /\ content \in [Download!Calls -> SUBSET Download!Calls] /\
          download_thread[c] = "body" /\ dest[c] # Download!None
    BY <1>4 DEF Written, Elsewhere
  <2> QED  BY <1>4, <2>1, <2>2, NamedWritten
<1>5. ASSUME NEW c \in Download!Calls, Finished(c) PROVE AllNamed'
  BY <1>5, EntriesTyped DEF Finished, Elsewhere
<1>6. ASSUME NEW c \in Download!Calls, Failed(c) PROVE AllNamed'
  <2>1. entry.tx = c
    BY <1>6, Zenon DEF Failed, Elsewhere
  <2> QED  BY <1>6, <2>1, EntriesTyped DEF Failed, Elsewhere
<1>7. ASSUME NEW c \in Download!Calls, Download!cancel_heard(c) PROVE AllNamed'
  <2>1. entry.tx = c
    BY <1>7, Zenon DEF Download!cancel_heard, Download!Strange
  <2> QED  BY <1>7, <2>1, EntriesTyped DEF Download!cancel_heard, Download!Strange
<1>8. ASSUME NEW c \in Download!Calls, Download!remove_file(c) PROVE AllNamed'
  BY <1>8, EntriesTyped DEF Download!remove_file, Download!CallGoes
<1>9. ASSUME NEW c \in Download!Calls, Reused(c) PROVE AllNamed'
  BY <1>9, EntriesTyped DEF Reused
<1>10. ASSUME NEW c \in Download!Calls, Cleared(c) PROVE AllNamed'
  BY <1>10, EntriesTyped, EntriesTyped DEF Cleared
<1>11. ASSUME NEW c \in Download!Calls, Download!stale_removed(c) PROVE AllNamed'
  BY <1>11, EntriesTyped DEF Download!stale_removed, Download!CallGoes
<1>12. ASSUME NEW c \in Download!Calls, Download!path_exists(c) PROVE AllNamed'
  BY <1>12, EntriesTyped DEF Download!path_exists, Download!CallGoes
<1>13. ASSUME NEW c \in Download!Calls, Started(c) PROVE AllNamed'
  <2>1. entry.tx = Download!None /\ dir = Download!None /\ download_thread[c] = "none"
    BY <1>13, EntriesTyped DEF Started
  <2>2. /\ entry'.tx = c /\ ~entry'.error /\ dir' = Download!None /\
             download_thread' = [download_thread EXCEPT ![c] = "client"]
        /\ dest' = dest /\ content' = content /\ got' = got
    BY <1>13, <2>1 DEF Started
  <2>3. DOMAIN download_thread = Download!Calls
    OBVIOUS
  <2> HIDE DEF NamedAt, Download!TypeOK, Begun, LatestOnly, OwnEntry
  <2>4. ASSUME NEW k \in Download!Calls PROVE NamedAt(k)'
    <3>1. NamedAt(k)
      OBVIOUS
    <3>2. CASE k = c
      <4>1. download_thread'[c] = "client"
        BY <2>2, <2>3
      <4> QED  BY <2>1, <2>2, <3>1, <3>2, <4>1 DEF NamedAt
    <3>3. CASE k # c
      <4>1. download_thread'[k] = download_thread[k]
        BY <2>2, <3>3
      <4> QED  BY <2>1, <2>2, <3>1, <3>3, <4>1 DEF NamedAt
    <3> QED  BY <3>2, <3>3
  <2> QED  BY <2>4
<1>14. ASSUME NEW c \in Download!Calls, Answered(c, "event_id", "polling") PROVE AllNamed'
  <2>0. InFlight(c)
    BY <1>14 DEF Answered
  <2>1. c = calls /\ download_ui = "starting" /\ \A k \in Download!Calls : k # c => ~InFlight(k)
    BY <2>0, OnlyLatest
  <2> QED  BY <1>14, <2>1, EntriesTyped DEF Answered
<1>15. ASSUME NEW c \in Download!Calls, Answered(c, "event_error", "error") PROVE AllNamed'
  <2>0. InFlight(c)
    BY <1>15 DEF Answered
  <2>1. c = calls /\ download_ui = "starting" /\ \A k \in Download!Calls : k # c => ~InFlight(k)
    BY <2>0, OnlyLatest
  <2> QED  BY <1>15, <2>1, EntriesTyped DEF Answered
<1>16. CASE Download!handleUpdate
  BY <1>16, EntriesTyped DEF Download!handleUpdate
<1>17. CASE Download!closed
  BY <1>17, EntriesTyped DEF Download!closed
<1>18. CASE Download!_updateDownloadData
  BY <1>18, EntriesTyped, EntriesTyped DEF Download!_updateDownloadData
<1>19. CASE Download!cancel
  BY <1>19, EntriesTyped DEF Download!cancel
<1>20. CASE Download!cancel_waited
  BY <1>20, EntriesTyped DEF Download!cancel_waited
<1>21. CASE Download!update_me
  BY <1>21, EntriesTyped DEF Download!update_me
<1>22. CASE UNCHANGED Download!vars
  BY <1>22, EntriesTyped DEF Download!vars
<1> QED  BY <1>1, <1>2, <1>3, <1>4, <1>5, <1>6, <1>7, <1>8, <1>9, <1>10, <1>11, <1>12, <1>13,
      <1>14, <1>15, <1>16, <1>17, <1>18, <1>19, <1>20, <1>21, <1>22 DEF DownloadGoes

(* The dialog says that the file is ready only when it is.                  *)
LEMMA ReadyKept == Download!TypeOK /\ Begun /\ OwnEntry /\ LatestOnly /\ Followed /\ AllNamed /\
    ReadyWhole /\ ~unheard' /\ ~foreign' /\ DownloadGoes => ReadyWhole'
<1> SUFFICES ASSUME Download!TypeOK /\ Begun /\ OwnEntry /\ LatestOnly /\ Followed /\ AllNamed /\
      ReadyWhole /\ ~unheard' /\ ~foreign', DownloadGoes PROVE ReadyWhole'
  OBVIOUS
<1> USE PartsAssumption DEF Download!DownloaderAssumption, Download!map, Download!files,
      Download!history, Download!Calls, Download!None, Download!Unknown, Download!TypeOK, Begun,
          OwnEntry, LatestOnly, InFlight, Followed, AllNamed, NamedAt, ReadyWhole, Download!Late
<1>1. ASSUME NEW c \in Download!Calls, Download!client_created(c) PROVE ReadyWhole'
  BY <1>1, EntriesTyped DEF Download!client_created
<1>2. ASSUME NEW c \in Download!Calls, LengthKnown(c) PROVE ReadyWhole'
  <2>1. entry.tx = c
    BY <1>2, Zenon DEF LengthKnown, Elsewhere
  <2> QED  BY <1>2, <2>1, EntriesTyped DEF LengthKnown, Elsewhere
<1>3. ASSUME NEW c \in Download!Calls, Opened(c) PROVE ReadyWhole'
  BY <1>3, EntriesTyped DEF Opened, Elsewhere
<1>4. ASSUME NEW c \in Download!Calls, Written(c), CountsWritten' PROVE ReadyWhole'
  <2>1. entry.tx = c
    BY <1>4, Zenon DEF Written, Elsewhere
  <2> QED  BY <1>4, <2>1, EntriesTyped DEF Written, Elsewhere
<1>5. ASSUME NEW c \in Download!Calls, Finished(c) PROVE ReadyWhole'
  BY <1>5, EntriesTyped DEF Finished, Elsewhere
<1>6. ASSUME NEW c \in Download!Calls, Failed(c) PROVE ReadyWhole'
  <2>1. entry.tx = c
    BY <1>6, Zenon DEF Failed, Elsewhere
  <2> QED  BY <1>6, <2>1, EntriesTyped DEF Failed, Elsewhere
<1>7. ASSUME NEW c \in Download!Calls, Download!cancel_heard(c) PROVE ReadyWhole'
  <2>1. entry.tx = c
    BY <1>7, Zenon DEF Download!cancel_heard, Download!Strange
  <2> QED  BY <1>7, <2>1, EntriesTyped DEF Download!cancel_heard, Download!Strange
<1>8. ASSUME NEW c \in Download!Calls, Download!remove_file(c) PROVE ReadyWhole'
  BY <1>8, EntriesTyped DEF Download!remove_file, Download!CallGoes
<1>9. ASSUME NEW c \in Download!Calls, Reused(c) PROVE ReadyWhole'
  BY <1>9, EntriesTyped DEF Reused
<1>10. ASSUME NEW c \in Download!Calls, Cleared(c) PROVE ReadyWhole'
  BY <1>10, EntriesTyped, EntriesTyped DEF Cleared
<1>11. ASSUME NEW c \in Download!Calls, Download!stale_removed(c) PROVE ReadyWhole'
  BY <1>11, EntriesTyped DEF Download!stale_removed, Download!CallGoes
<1>12. ASSUME NEW c \in Download!Calls, Download!path_exists(c) PROVE ReadyWhole'
  BY <1>12, EntriesTyped DEF Download!path_exists, Download!CallGoes
<1>13. ASSUME NEW c \in Download!Calls, Started(c) PROVE ReadyWhole'
  <2>0. InFlight(c)
    BY <1>13 DEF Started
  <2>1. c = calls /\ download_ui = "starting" /\ \A k \in Download!Calls : k # c => ~InFlight(k)
    BY <2>0, OnlyLatest
  <2> QED  BY <1>13, <2>1, EntriesTyped DEF Started
<1>14. ASSUME NEW c \in Download!Calls, Answered(c, "event_id", "polling") PROVE ReadyWhole'
  <2>0. InFlight(c)
    BY <1>14 DEF Answered
  <2>1. c = calls /\ download_ui = "starting" /\ \A k \in Download!Calls : k # c => ~InFlight(k)
    BY <2>0, OnlyLatest
  <2> QED  BY <1>14, <2>1, EntriesTyped DEF Answered
<1>15. ASSUME NEW c \in Download!Calls, Answered(c, "event_error", "error") PROVE ReadyWhole'
  <2>0. InFlight(c)
    BY <1>15 DEF Answered
  <2>1. c = calls /\ download_ui = "starting" /\ \A k \in Download!Calls : k # c => ~InFlight(k)
    BY <2>0, OnlyLatest
  <2> QED  BY <1>15, <2>1, EntriesTyped DEF Answered
<1>16. CASE Download!handleUpdate
  BY <1>16, EntriesTyped DEF Download!handleUpdate
<1>17. CASE Download!closed
  BY <1>17, EntriesTyped DEF Download!closed
<1>18. CASE Download!_updateDownloadData
  BY <1>18, EntriesTyped, EntriesTyped DEF Download!_updateDownloadData
<1>19. CASE Download!cancel
  BY <1>19, EntriesTyped DEF Download!cancel
<1>20. CASE Download!cancel_waited
  BY <1>20, EntriesTyped DEF Download!cancel_waited
<1>21. CASE Download!update_me
  BY <1>21, EntriesTyped DEF Download!update_me
<1>22. CASE UNCHANGED Download!vars
  BY <1>22, EntriesTyped DEF Download!vars
<1> QED  BY <1>1, <1>2, <1>3, <1>4, <1>5, <1>6, <1>7, <1>8, <1>9, <1>10, <1>11, <1>12, <1>13,
      <1>14, <1>15, <1>16, <1>17, <1>18, <1>19, <1>20, <1>21, <1>22 DEF DownloadGoes

(* What is run is a whole file, when nothing disturbed the download.        *)
LEMMA WholeKept == Download!TypeOK /\ Begun /\ Undisturbed /\ Download!UpdateIsWhole /\
    DownloadGoes => Download!UpdateIsWhole'
<1> SUFFICES ASSUME Download!TypeOK /\ Begun /\ Undisturbed /\ Download!UpdateIsWhole,
      DownloadGoes PROVE Download!UpdateIsWhole'
  OBVIOUS
<1> USE PartsAssumption DEF Download!DownloaderAssumption, Download!map, Download!files,
      Download!history, Download!Calls, Download!None, Download!Unknown, Download!TypeOK, Begun,
          Download!UpdateIsWhole, Download!Late
<1>1. ASSUME NEW c \in Download!Calls, Download!client_created(c) PROVE Download!UpdateIsWhole'
  BY <1>1 DEF Download!client_created
<1>2. ASSUME NEW c \in Download!Calls, LengthKnown(c) PROVE Download!UpdateIsWhole'
  BY <1>2 DEF LengthKnown, Elsewhere
<1>3. ASSUME NEW c \in Download!Calls, Opened(c) PROVE Download!UpdateIsWhole'
  BY <1>3 DEF Opened, Elsewhere
<1>4. ASSUME NEW c \in Download!Calls, Written(c), CountsWritten' PROVE Download!UpdateIsWhole'
  BY <1>4 DEF Written, Elsewhere
<1>5. ASSUME NEW c \in Download!Calls, Finished(c) PROVE Download!UpdateIsWhole'
  BY <1>5 DEF Finished, Elsewhere
<1>6. ASSUME NEW c \in Download!Calls, Failed(c) PROVE Download!UpdateIsWhole'
  BY <1>6 DEF Failed, Elsewhere
<1>7. ASSUME NEW c \in Download!Calls, Download!cancel_heard(c) PROVE Download!UpdateIsWhole'
  BY <1>7, EntriesTyped DEF Download!cancel_heard, Download!Strange
<1>8. ASSUME NEW c \in Download!Calls, Download!remove_file(c) PROVE Download!UpdateIsWhole'
  BY <1>8 DEF Download!remove_file, Download!CallGoes
<1>9. ASSUME NEW c \in Download!Calls, Reused(c) PROVE Download!UpdateIsWhole'
  BY <1>9 DEF Reused
<1>10. ASSUME NEW c \in Download!Calls, Cleared(c) PROVE Download!UpdateIsWhole'
  BY <1>10, EntriesTyped DEF Cleared
<1>11. ASSUME NEW c \in Download!Calls, Download!stale_removed(c) PROVE Download!UpdateIsWhole'
  BY <1>11 DEF Download!stale_removed, Download!CallGoes
<1>12. ASSUME NEW c \in Download!Calls, Download!path_exists(c) PROVE Download!UpdateIsWhole'
  BY <1>12 DEF Download!path_exists, Download!CallGoes
<1>13. ASSUME NEW c \in Download!Calls, Started(c) PROVE Download!UpdateIsWhole'
  BY <1>13 DEF Started
<1>14. ASSUME NEW c \in Download!Calls, Answered(c, "event_id", "polling")
         PROVE Download!UpdateIsWhole'
  BY <1>14 DEF Answered
<1>15. ASSUME NEW c \in Download!Calls, Answered(c, "event_error", "error")
         PROVE Download!UpdateIsWhole'
  BY <1>15 DEF Answered
<1>16. CASE Download!handleUpdate
  BY <1>16 DEF Download!handleUpdate
<1>17. CASE Download!closed
  BY <1>17 DEF Download!closed
<1>18. CASE Download!_updateDownloadData
  BY <1>18, EntriesTyped DEF Download!_updateDownloadData
<1>19. CASE Download!cancel
  BY <1>19 DEF Download!cancel
<1>20. CASE Download!cancel_waited
  BY <1>20 DEF Download!cancel_waited
<1>21. CASE Download!update_me
  <2> SUFFICES ASSUME updated' = "broken", Download!Late' = {}, ~unheard', ~foreign' PROVE FALSE
    OBVIOUS
  <2>1. ~unheard /\ ~foreign /\ Download!Late = {} /\ download_ui = "ready"
          /\ ~Download!Whole(dir)
    BY <1>21 DEF Download!update_me
  <2>2. AllNamed /\ ReadyWhole
    BY <2>1 DEF Undisturbed
  <2>3. dir \in Download!Calls /\ got[dir] = Chunks /\ got[dir] > 0
    BY <2>1, <2>2 DEF ReadyWhole
  <2>4. Download!Whole(dir)
    BY <2>2, <2>3 DEF AllNamed, NamedAt, Download!Whole
  <2> QED  BY <2>1, <2>4
<1>22. CASE UNCHANGED Download!vars
  BY <1>22 DEF Download!vars
<1> QED  BY <1>1, <1>2, <1>3, <1>4, <1>5, <1>6, <1>7, <1>8, <1>9, <1>10, <1>11, <1>12, <1>13,
      <1>14, <1>15, <1>16, <1>17, <1>18, <1>19, <1>20, <1>21, <1>22 DEF DownloadGoes

(* What disturbed a download is never forgotten.                            *)
LEMMA HistoryKept == DownloadGoes => (~unheard' => ~unheard) /\ (~foreign' => ~foreign)
<1> SUFFICES ASSUME DownloadGoes PROVE (~unheard' => ~unheard) /\ (~foreign' => ~foreign)
  OBVIOUS
<1> USE PartsAssumption DEF Download!DownloaderAssumption, Download!map, Download!files,
      Download!history, Elsewhere
<1>1. ASSUME NEW c \in Download!Calls, Download!client_created(c) PROVE (~unheard' => ~unheard) /\
        (~foreign' => ~foreign)
  BY <1>1 DEF Download!client_created
<1>2. ASSUME NEW c \in Download!Calls, LengthKnown(c) PROVE (~unheard' => ~unheard) /\
        (~foreign' => ~foreign)
  BY <1>2 DEF LengthKnown, Elsewhere
<1>3. ASSUME NEW c \in Download!Calls, Opened(c) PROVE (~unheard' => ~unheard) /\ (~foreign' =>
        ~foreign)
  BY <1>3 DEF Opened, Elsewhere
<1>4. ASSUME NEW c \in Download!Calls, Written(c), CountsWritten' PROVE (~unheard' => ~unheard) /\
        (~foreign' => ~foreign)
  BY <1>4 DEF Written, Elsewhere
<1>5. ASSUME NEW c \in Download!Calls, Finished(c) PROVE (~unheard' => ~unheard) /\ (~foreign' =>
        ~foreign)
  BY <1>5 DEF Finished, Elsewhere
<1>6. ASSUME NEW c \in Download!Calls, Failed(c) PROVE (~unheard' => ~unheard) /\ (~foreign' =>
        ~foreign)
  BY <1>6 DEF Failed, Elsewhere
<1>7. ASSUME NEW c \in Download!Calls, Download!cancel_heard(c) PROVE (~unheard' => ~unheard) /\
        (~foreign' => ~foreign)
  BY <1>7, EntriesTyped DEF Download!cancel_heard, Download!Strange
<1>8. ASSUME NEW c \in Download!Calls, Download!remove_file(c) PROVE (~unheard' => ~unheard) /\
        (~foreign' => ~foreign)
  BY <1>8 DEF Download!remove_file, Download!CallGoes
<1>9. ASSUME NEW c \in Download!Calls, Reused(c) PROVE (~unheard' => ~unheard) /\ (~foreign' =>
        ~foreign)
  BY <1>9 DEF Reused
<1>10. ASSUME NEW c \in Download!Calls, Cleared(c) PROVE (~unheard' => ~unheard) /\ (~foreign' =>
         ~foreign)
  BY <1>10, EntriesTyped DEF Cleared
<1>11. ASSUME NEW c \in Download!Calls, Download!stale_removed(c) PROVE (~unheard' => ~unheard) /\
         (~foreign' => ~foreign)
  BY <1>11 DEF Download!stale_removed, Download!CallGoes
<1>12. ASSUME NEW c \in Download!Calls, Download!path_exists(c) PROVE (~unheard' => ~unheard) /\
         (~foreign' => ~foreign)
  BY <1>12 DEF Download!path_exists, Download!CallGoes
<1>13. ASSUME NEW c \in Download!Calls, Started(c) PROVE (~unheard' => ~unheard) /\ (~foreign' =>
         ~foreign)
  BY <1>13 DEF Started
<1>14. ASSUME NEW c \in Download!Calls, Answered(c, "event_id", "polling") PROVE (~unheard' =>
         ~unheard) /\ (~foreign' => ~foreign)
  BY <1>14 DEF Answered
<1>15. ASSUME NEW c \in Download!Calls, Answered(c, "event_error", "error") PROVE (~unheard' =>
         ~unheard) /\ (~foreign' => ~foreign)
  BY <1>15 DEF Answered
<1>16. CASE Download!handleUpdate
  BY <1>16 DEF Download!handleUpdate
<1>17. CASE Download!closed
  BY <1>17 DEF Download!closed
<1>18. CASE Download!_updateDownloadData
  BY <1>18, EntriesTyped DEF Download!_updateDownloadData
<1>19. CASE Download!cancel
  BY <1>19 DEF Download!cancel
<1>20. CASE Download!cancel_waited
  BY <1>20 DEF Download!cancel_waited
<1>21. CASE Download!update_me
  BY <1>21 DEF Download!update_me
<1>22. CASE UNCHANGED Download!vars
  BY <1>22 DEF Download!vars
<1> QED  BY <1>1, <1>2, <1>3, <1>4, <1>5, <1>6, <1>7, <1>8, <1>9, <1>10, <1>11, <1>12, <1>13,
      <1>14, <1>15, <1>16, <1>17, <1>18, <1>19, <1>20, <1>21, <1>22 DEF DownloadGoes

(* The invariant of Downloader holds at the start.                          *)
LEMMA DownloadInitially == Download!Init => DownloadInv
<1> SUFFICES ASSUME Download!Init PROVE DownloadInv
  OBVIOUS
<1> USE PartsAssumption DEF Download!DownloaderAssumption
<1>1. Download!TypeOK
  <2>1. entry = Download!NoEntry /\ entry \in EntryTypes
    BY EntriesTyped DEF Download!Init
  <2>2. foreign \in BOOLEAN /\ unheard \in BOOLEAN
    BY Zenon DEF Download!Init
  <2> QED  BY <2>1, <2>2 DEF Download!Init, Download!TypeOK, EntryTypes, Download!Calls,
        Download!None
<1>2. CountsWritten
  BY PairsFinite, EntriesTyped DEF Download!Init, CountsWritten
<1>3. Begun /\ OwnEntry /\ RemovedGone
  BY EntriesTyped DEF Download!Init, Begun, OwnEntry, RemovedGone, Download!Calls, Download!None
<1>4. LatestOnly /\ Followed /\ AllNamed /\ ReadyWhole
  BY EntriesTyped DEF Download!Init, LatestOnly, InFlight, Followed, AllNamed, NamedAt,
      ReadyWhole,
      Download!Calls, Download!None
<1>5. Download!UpdateIsWhole
  BY DEF Download!Init, Download!UpdateIsWhole
<1> QED  BY <1>1, <1>2, <1>3, <1>4, <1>5 DEF DownloadInv, Undisturbed

(* Every step of Downloader keeps its invariant.                            *)
LEMMA DownloadStep == DownloadInv /\ [Download!Next]_(Download!vars) => DownloadInv'
<1> SUFFICES ASSUME DownloadInv, [Download!Next]_(Download!vars) PROVE DownloadInv'
  OBVIOUS
<1>0. Download!TypeOK /\ CountsWritten /\ Begun /\ OwnEntry /\ RemovedGone /\ Undisturbed /\
        Download!UpdateIsWhole
  BY DEF DownloadInv
<1>1. DownloadGoes
  BY <1>0, WhatGoes
<1>2. Download!TypeOK' /\ CountsWritten' /\ Begun' /\ OwnEntry' /\ RemovedGone' /\
        Download!UpdateIsWhole'
  BY <1>0, <1>1, DownloadTyped, CountsKept, BegunKept, OwnKept, GoneKept, WholeKept
<1>3. ASSUME ~unheard', ~foreign' PROVE LatestOnly' /\ Followed' /\ AllNamed' /\ ReadyWhole'
  <2>1. LatestOnly /\ Followed /\ AllNamed /\ ReadyWhole
    BY <1>0, <1>1, <1>3, HistoryKept DEF Undisturbed
  <2> QED  BY <1>0, <1>1, <1>3, <2>1, LatestKept, HeardKept, NamedKept, ReadyKept
<1> QED  BY <1>2, <1>3 DEF DownloadInv, Undisturbed

(* The invariant of Downloader says what the run checks: a file that is run *)
(* was fetched as a whole, a cancelled one is gone, and a file has one      *)
(* writer.                                                                  *)
LEMMA DownloadFollows == DownloadInv => Download!UpdateIsWhole /\ Download!CancelledIsGone /\
    Download!OneWriter
<1> SUFFICES ASSUME DownloadInv PROVE Download!UpdateIsWhole /\ Download!CancelledIsGone /\
      Download!OneWriter
  OBVIOUS
<1>1. Download!CancelledIsGone
  <2> SUFFICES ASSUME ~foreign, NEW c \in cancelled \ Download!Late, download_thread[c] = "ended",
        ~entry.error,
                      \A k \in Download!Calls : call[k] # "stale"
               PROVE  entry.tx # c /\ (dir = Download!None \/ content[dir] # {c})
    BY DEF Download!CancelledIsGone
  <2>1. Removed(c)
    BY DEF DownloadInv, RemovedGone, Download!Late
  <2> QED  BY <2>1 DEF Removed
<1>2. Download!OneWriter
  <2> SUFFICES ASSUME ~unheard, ~foreign, NEW c \in Download!Running, NEW t \in Download!Running,
                      dir # Download!None, dest[c] = dir, dest[t] = dir
               PROVE  c = t
    BY DEF Download!OneWriter
  <2>1. NamedAt(c) /\ NamedAt(t)
    BY DEF DownloadInv, Undisturbed, AllNamed, Download!Running
  <2> QED  BY <2>1 DEF NamedAt
<1> QED  BY <1>1, <1>2 DEF DownloadInv

-----------------------------------------------------------------------------
(* HeartbeatSync.                                                          *)

(* What may be noted of the last upload.                                    *)
Uploads == [uploaded : BOOLEAN, url : Heartbeat!Servers \cup {0}, id : 0 .. 2, username : 0 .. 2]
(* What a round may have read.                                              *)
Requests == [url : Heartbeat!Servers \cup {0}, id : 0 .. 2, username : 0 .. 2,
        conns : SUBSET Conns,
             modified_at : 0 .. MaxStrategies]
(* What a server may know.                                                  *)
Infos == {Heartbeat!None} \cup [id : {1, 2}, username : {1, 2}]

(* The types, with these sets for the records.                              *)
HeartbeatTyped ==
  /\ url \in Heartbeat!Urls /\ heartbeat_id \in {1, 2} /\ username \in {1, 2}
          /\ stopped \in BOOLEAN
  /\ info_uploaded \in Uploads /\ last_uploaded \in BOOLEAN /\ last_sent \in BOOLEAN
  /\ heartbeat_pc \in {"tick", "sysinfo", "beat", "strategy"} /\ request \in Requests
  /\ heartbeat_pc # "tick" => request.url \in Heartbeat!Servers
  /\ heartbeat_pc = "strategy" => strategy_timestamp # request.modified_at
  /\ strategy_timestamp \in 0 .. MaxStrategies /\ options \in 0 .. MaxStrategies
  /\ conn \in [Conns -> {"none", "loop", "forward", "closed"}]
  /\ inbox \subseteq Heartbeat!alive_conns /\ disconnect \subseteq Conns
  /\ info \in [Heartbeat!Servers -> Infos]
          /\ strategy \in [Heartbeat!Servers -> 0 .. MaxStrategies]

(* While a round waits for an answer, the timestamp it has read is still    *)
(* the one stored; and what it uploads is of this device.                   *)
Fresh ==
  /\ heartbeat_pc \in {"sysinfo", "beat"} => request.modified_at = strategy_timestamp
  /\ heartbeat_pc = "sysinfo" => request.id \in {1, 2} /\ request.username \in {1, 2}

(* The invariant of HeartbeatSync.                                          *)
HeartbeatInv == HeartbeatTyped /\ strategies \in 0 .. MaxStrategies /\ Fresh /\
    Heartbeat!TimestampIsTrue

(* The types are those of TypeOK.                                           *)
LEMMA HeartbeatTypes == HeartbeatTyped <=> Heartbeat!TypeOK
BY DEF HeartbeatTyped, Heartbeat!TypeOK, Uploads, Requests, Infos

(* What the loop notes of an upload has its type.                           *)
LEMMA UploadsTyped ==
  /\ Heartbeat!NotUploaded \in Uploads
  /\ \A u \in Uploads, b \in BOOLEAN : [u EXCEPT !.uploaded = b] \in Uploads
  /\ \A r \in Requests : r.url \in Heartbeat!Servers =>
       [uploaded |-> TRUE, url |-> r.url, id |-> r.id, username |-> r.username] \in Uploads
BY DEF Heartbeat!NotUploaded, Uploads, Requests

(* What the loop reads has its type.                                        *)
LEMMA RequestsTyped ==
  /\ Heartbeat!NoRequest \in Requests
  /\ \A r \in Requests : r.conns \subseteq Conns /\ r.modified_at \in 0 .. MaxStrategies
  /\ \A s \in Heartbeat!Servers, k \in {1, 2}, n \in {1, 2}, C \in SUBSET Conns,
       m \in 0 .. MaxStrategies :
       [url |-> s, id |-> k, username |-> n, conns |-> C, modified_at |-> m] \in Requests
BY PartsAssumption DEF Heartbeat!NoRequest, Requests, Heartbeat!HeartbeatAssumption

(* The invariant of HeartbeatSync holds at the start.                       *)
LEMMA HeartbeatInitially == Heartbeat!Init => HeartbeatInv
<1> SUFFICES ASSUME Heartbeat!Init PROVE HeartbeatInv
  OBVIOUS
<1>1. info_uploaded \in Uploads /\ request \in Requests
  BY UploadsTyped, RequestsTyped DEF Heartbeat!Init
<1>2. stopped \in BOOLEAN /\ last_uploaded \in BOOLEAN /\ last_sent \in BOOLEAN
  BY Zenon DEF Heartbeat!Init
<1>3. 0 \in 0 .. MaxStrategies
  BY PartsAssumption DEF Heartbeat!HeartbeatAssumption
<1>4. HeartbeatTyped
  BY <1>1, <1>2, <1>3 DEF Heartbeat!Init, HeartbeatTyped, Heartbeat!Urls, Heartbeat!alive_conns,
      Infos
<1> QED  BY <1>3, <1>4 DEF Heartbeat!Init, HeartbeatInv, Fresh, Heartbeat!TimestampIsTrue

(* An answer to a heartbeat leads to the options exactly when it brings a   *)
(* timestamp that is not the one sent.                                      *)
LEMMA AnswerTyped ==
  ASSUME HeartbeatInv, heartbeat_pc = "beat", Heartbeat!heartbeat_answered
  PROVE  /\ heartbeat_pc' \in {"tick", "strategy"} /\ strategy_timestamp' \in 0 .. MaxStrategies
         /\ heartbeat_pc' = "strategy" => strategy_timestamp' # request.modified_at
         /\ heartbeat_pc' = "tick" => strategy_timestamp' = strategy_timestamp
         /\ inbox' \subseteq Heartbeat!alive_conns /\ disconnect' \subseteq Conns
         /\ info_uploaded' \in Uploads
<1> USE DEF HeartbeatInv, HeartbeatTyped, Fresh
<1>1. request.url \in Heartbeat!Servers /\ strategy[request.url] \in 0 .. MaxStrategies
  OBVIOUS
<1>2. inbox' \in {inbox, inbox \cup ((disconnect \cap request.conns) \cap Heartbeat!alive_conns)}
  BY DEF Heartbeat!heartbeat_answered, Heartbeat!Heard
<1>3. disconnect' \in {disconnect, disconnect \ request.conns}
  BY DEF Heartbeat!heartbeat_answered
<1>4. info_uploaded' \in {info_uploaded, [info_uploaded EXCEPT !.uploaded = FALSE]}
  BY DEF Heartbeat!heartbeat_answered, Heartbeat!forcely_update
<1>5. info_uploaded' \in Uploads
  BY <1>4, UploadsTyped
<1>6. /\ heartbeat_pc' \in {"tick", "strategy"} /\ strategy_timestamp' \in 0 .. MaxStrategies
      /\ heartbeat_pc' = "strategy" => strategy_timestamp' # request.modified_at
      /\ heartbeat_pc' = "tick" => strategy_timestamp' = strategy_timestamp
  BY <1>1 DEF Heartbeat!heartbeat_answered, Heartbeat!modified_at
<1> QED  BY <1>2, <1>3, <1>5, <1>6

(* Every step of HeartbeatSync keeps its invariant.                         *)
LEMMA HeartbeatStep == HeartbeatInv /\ [Heartbeat!Next]_(Heartbeat!vars) => HeartbeatInv'
<1> SUFFICES ASSUME HeartbeatInv, [Heartbeat!Next]_(Heartbeat!vars) PROVE HeartbeatInv'
  OBVIOUS
<1> USE DEF Heartbeat!config, Heartbeat!loop, Heartbeat!stored, Heartbeat!connections,
      Heartbeat!server, Heartbeat!bounds, Heartbeat!history
<1>0. HeartbeatTyped /\ strategies \in 0 .. MaxStrategies /\ Fresh /\ Heartbeat!TimestampIsTrue /\
        MaxStrategies \in Nat
  BY PartsAssumption DEF HeartbeatInv, Heartbeat!HeartbeatAssumption
<1>a. Heartbeat!alive_conns \in SUBSET Conns
  BY DEF Heartbeat!alive_conns
<1>1. CASE Heartbeat!tick
  <2> DEFINE uploaded == info_uploaded.uploaded /\ ~Heartbeat!outdated
  <2>1. /\ heartbeat_pc = "tick" /\ url \in Heartbeat!Servers
        /\ heartbeat_pc' \in {"sysinfo", "tick", "beat"} /\ last_sent' \in {last_sent, TRUE}
        /\ info_uploaded' = [info_uploaded EXCEPT !.uploaded = uploaded]
        /\ request' = [url |-> url, id |-> heartbeat_id, username |-> username,
             conns |-> Heartbeat!alive_conns,
                       modified_at |-> strategy_timestamp]
        /\ UNCHANGED <<Heartbeat!config, last_uploaded, Heartbeat!stored, Heartbeat!connections,
             Heartbeat!server, Heartbeat!bounds, Heartbeat!history>>
    BY <1>0, <1>1 DEF Heartbeat!tick, Heartbeat!ToHeartbeat, HeartbeatTyped, Heartbeat!Urls,
        Heartbeat!Servers
  <2>2. uploaded \in BOOLEAN
    OBVIOUS
  <2> HIDE DEF uploaded
  <2>3. info_uploaded' \in Uploads
    BY <1>0, <2>1, <2>2, UploadsTyped DEF HeartbeatTyped
  <2>4. request' \in Requests /\ request'.url = url /\ request'.modified_at = strategy_timestamp
        /\ request'.id \in {1, 2} /\ request'.username \in {1, 2}
    BY <1>0, <1>a, <2>1, RequestsTyped DEF HeartbeatTyped
  <2>5. last_sent' \in BOOLEAN
    BY <1>0, <2>1 DEF HeartbeatTyped
  <2>6. HeartbeatTyped'
    BY <1>0, <2>1, <2>3, <2>4, <2>5 DEF HeartbeatTyped, Heartbeat!alive_conns
  <2> QED  BY <1>0, <2>1, <2>4, <2>6 DEF HeartbeatInv, Fresh, Heartbeat!TimestampIsTrue
<1>2. CASE Heartbeat!sysinfo_answered
  <2>1. /\ heartbeat_pc = "sysinfo" /\ heartbeat_pc' \in {"tick", "beat"} /\
             last_sent' \in {last_sent, TRUE}
        /\ last_uploaded' \in BOOLEAN
        /\ \/ info_uploaded' = info_uploaded /\ info' = info
           \/ /\ info' = [info EXCEPT ![request.url] = [id |-> request.id,
                   username |-> request.username]]
              /\ info_uploaded' = [uploaded |-> TRUE, url |-> request.url, id |-> request.id,
                                   username |-> request.username]
        /\ UNCHANGED <<Heartbeat!config, request, Heartbeat!stored, Heartbeat!connections,
             strategy, disconnect, heartbeat_changes, strategies, Heartbeat!history>>
    BY <1>2 DEF Heartbeat!sysinfo_answered, Heartbeat!SYSINFO_UPDATED, Heartbeat!ToHeartbeat
  <2>2. request.url \in Heartbeat!Servers /\ request \in Requests
    BY <1>0, <2>1 DEF HeartbeatTyped
  <2>3. info_uploaded' \in Uploads
    BY <1>0, <2>1, <2>2, UploadsTyped DEF HeartbeatTyped
  <2>4. last_sent' \in BOOLEAN
    BY <1>0, <2>1 DEF HeartbeatTyped
  <2>5. [id |-> request.id, username |-> request.username] \in Infos
    BY <1>0, <2>1, <2>2 DEF Infos, Fresh
  <2>6. info' \in [Heartbeat!Servers -> Infos]
    BY <1>0, <2>1, <2>5 DEF HeartbeatTyped
  <2>7. HeartbeatTyped'
    BY <1>0, <2>1, <2>2, <2>3, <2>4, <2>6 DEF HeartbeatTyped, Heartbeat!alive_conns
  <2> QED  BY <1>0, <2>1, <2>7 DEF HeartbeatInv, Fresh, Heartbeat!TimestampIsTrue
<1>3. CASE Heartbeat!heartbeat_answered
  <2>1. heartbeat_pc = "beat" /\ UNCHANGED <<Heartbeat!config, last_uploaded, last_sent, request,
          options, conn, info, strategy,
                                   heartbeat_changes, strategies, Heartbeat!history>>
    BY <1>3 DEF Heartbeat!heartbeat_answered
  <2>2. /\ heartbeat_pc' \in {"tick", "strategy"} /\ strategy_timestamp' \in 0 .. MaxStrategies
        /\ heartbeat_pc' = "strategy" => strategy_timestamp' # request.modified_at
        /\ heartbeat_pc' = "tick" => strategy_timestamp' = strategy_timestamp
        /\ inbox' \subseteq Heartbeat!alive_conns /\ disconnect' \subseteq Conns
        /\ info_uploaded' \in Uploads
    BY <1>3, <2>1, AnswerTyped
  <2>3. HeartbeatTyped'
    BY <1>0, <2>1, <2>2 DEF HeartbeatTyped, Heartbeat!alive_conns
  <2> QED  BY <1>0, <2>1, <2>2, <2>3 DEF HeartbeatInv, Fresh, Heartbeat!TimestampIsTrue
<1>4. CASE Heartbeat!handle_config_options
  <2>1. HeartbeatTyped'
    BY <1>0, <1>4 DEF Heartbeat!handle_config_options, HeartbeatTyped, Heartbeat!alive_conns
  <2> QED  BY <1>0, <1>4, <2>1 DEF Heartbeat!handle_config_options, HeartbeatInv, Fresh,
        Heartbeat!TimestampIsTrue
<1>5. CASE Heartbeat!UPLOAD_SYSINFO_TIMEOUT
  <2>1. last_uploaded' \in BOOLEAN /\ UNCHANGED <<Heartbeat!config, info_uploaded, last_sent,
          heartbeat_pc, request, Heartbeat!stored, Heartbeat!connections, Heartbeat!server,
              Heartbeat!bounds, Heartbeat!history>>
    BY <1>5, Zenon DEF Heartbeat!UPLOAD_SYSINFO_TIMEOUT
  <2> QED  BY <1>0, <2>1 DEF HeartbeatInv, HeartbeatTyped, Fresh, Heartbeat!TimestampIsTrue,
        Heartbeat!alive_conns
<1>6. CASE Heartbeat!TIME_HEARTBEAT
  <2>1. last_sent' \in BOOLEAN /\ UNCHANGED <<Heartbeat!config, info_uploaded, last_uploaded,
          heartbeat_pc, request, Heartbeat!stored, Heartbeat!connections, Heartbeat!server,
              Heartbeat!bounds, Heartbeat!history>>
    BY <1>6, Zenon DEF Heartbeat!TIME_HEARTBEAT
  <2> QED  BY <1>0, <2>1 DEF HeartbeatInv, HeartbeatTyped, Fresh, Heartbeat!TimestampIsTrue,
        Heartbeat!alive_conns
<1>7. ASSUME NEW c \in Conns, Heartbeat!connected(c) PROVE HeartbeatInv'
  <2>1. HeartbeatTyped'
    BY <1>0, <1>7 DEF Heartbeat!connected, HeartbeatTyped, Heartbeat!alive_conns
  <2> QED  BY <1>0, <1>7, <2>1 DEF Heartbeat!connected, HeartbeatInv, Fresh,
        Heartbeat!TimestampIsTrue
<1>8. ASSUME NEW c \in Conns, Heartbeat!closed_by_console(c) PROVE HeartbeatInv'
  <2>1. HeartbeatTyped'
    BY <1>0, <1>8 DEF Heartbeat!closed_by_console, HeartbeatTyped, Heartbeat!alive_conns
  <2> QED  BY <1>0, <1>8, <2>1 DEF Heartbeat!closed_by_console, HeartbeatInv, Fresh,
        Heartbeat!TimestampIsTrue
<1>9. ASSUME NEW c \in Conns, Heartbeat!try_port_forward_loop(c) PROVE HeartbeatInv'
  <2>1. HeartbeatTyped'
    BY <1>0, <1>9 DEF Heartbeat!try_port_forward_loop, HeartbeatTyped, Heartbeat!alive_conns
  <2> QED  BY <1>0, <1>9, <2>1 DEF Heartbeat!try_port_forward_loop, HeartbeatInv, Fresh,
        Heartbeat!TimestampIsTrue
<1>10. ASSUME NEW c \in Conns, Heartbeat!console(c) PROVE HeartbeatInv'
  <2>0. /\ disconnect' \subseteq Conns /\ strategies' \in 0 .. MaxStrategies
        /\ UNCHANGED <<Heartbeat!config, Heartbeat!loop, Heartbeat!stored, Heartbeat!connections,
             info, strategy, heartbeat_changes, heartbeat_faults, Heartbeat!history>>
    BY <1>0, <1>10 DEF Heartbeat!console, HeartbeatTyped
  <2>1. HeartbeatTyped'
    BY <1>0, <2>0 DEF HeartbeatTyped, Heartbeat!alive_conns
  <2> QED  BY <1>0, <2>0, <2>1 DEF HeartbeatInv, Fresh, Heartbeat!TimestampIsTrue
<1>11. CASE Heartbeat!changed
  <2>0. UNCHANGED <<Heartbeat!loop, Heartbeat!stored, Heartbeat!connections, Heartbeat!server,
          heartbeat_faults, strategies, Heartbeat!history>>
    BY <1>11 DEF Heartbeat!changed
  <2>1. stopped' \in BOOLEAN
    BY <1>0, <1>11, Zenon DEF Heartbeat!changed, HeartbeatTyped
  <2>2. url' \in Heartbeat!Urls /\ heartbeat_id' \in {1, 2} /\ username' \in {1, 2}
    BY <1>0, <1>11 DEF Heartbeat!changed, HeartbeatTyped
  <2>3. HeartbeatTyped'
    BY <1>0, <2>0, <2>1, <2>2 DEF HeartbeatTyped, Heartbeat!alive_conns
  <2> QED  BY <1>0, <2>0, <2>3 DEF HeartbeatInv, Fresh, Heartbeat!TimestampIsTrue
<1>12. CASE Heartbeat!restarted
  <2>0. /\ info_uploaded' \in Uploads /\ request' \in Requests /\ heartbeat_pc' = "tick"
        /\ UNCHANGED <<Heartbeat!config, Heartbeat!stored, info, strategy, heartbeat_changes,
             strategies, missed>>
    BY <1>12, UploadsTyped, RequestsTyped DEF Heartbeat!restarted
  <2>1. last_uploaded' \in BOOLEAN /\ last_sent' \in BOOLEAN
    BY <1>12, Zenon DEF Heartbeat!restarted
  <2>2. conn' \in [Conns -> {"none", "loop", "forward", "closed"}] /\ inbox' = {} /\
          disconnect' = {}
    BY <1>12 DEF Heartbeat!restarted
  <2>3. HeartbeatTyped'
    BY <1>0, <2>0, <2>1, <2>2 DEF HeartbeatTyped, Heartbeat!alive_conns
  <2>4. ~torn' => ~torn /\ heartbeat_pc # "strategy"
    BY <1>12, Zenon DEF Heartbeat!restarted
  <2> QED  BY <1>0, <2>0, <2>3, <2>4 DEF HeartbeatInv, Fresh, Heartbeat!TimestampIsTrue
<1>13. ASSUME NEW s \in Heartbeat!Servers, Heartbeat!server_changes(s) PROVE HeartbeatInv'
  <2>0. /\ strategies' \in 0 .. MaxStrategies
        /\ UNCHANGED <<Heartbeat!config, Heartbeat!loop, Heartbeat!stored, Heartbeat!connections,
             disconnect, heartbeat_changes, heartbeat_faults, Heartbeat!history>>
    BY <1>0, <1>13 DEF Heartbeat!server_changes
  <2>1. info' \in [Heartbeat!Servers -> Infos]
    BY <1>0, <1>13 DEF Heartbeat!server_changes, HeartbeatTyped, Infos
  <2>2. strategy' \in [Heartbeat!Servers -> 0 .. MaxStrategies]
    BY <1>0, <1>13 DEF Heartbeat!server_changes, HeartbeatTyped
  <2>3. HeartbeatTyped'
    BY <1>0, <2>0, <2>1, <2>2 DEF HeartbeatTyped, Heartbeat!alive_conns
  <2> QED  BY <1>0, <2>0, <2>3 DEF HeartbeatInv, Fresh, Heartbeat!TimestampIsTrue
<1>14. CASE UNCHANGED Heartbeat!vars
  BY <1>0, <1>14 DEF Heartbeat!vars, HeartbeatInv, HeartbeatTyped, Fresh,
      Heartbeat!TimestampIsTrue, Heartbeat!alive_conns
<1> QED  BY <1>1, <1>2, <1>3, <1>4, <1>5, <1>6, <1>7, <1>8, <1>9, <1>10, <1>11, <1>12, <1>13,
      <1>14 DEF Heartbeat!Next

-----------------------------------------------------------------------------
(* ConfigSync.                                                             *)

(* What an option may be.                                                   *)
OptionValues == {"0", Config!Old} \cup {Config!ToString(n) : n \in 1 .. MaxSets}
(* A configuration.                                                         *)
Configs == [Procs -> OptionValues]
(* A message: a configuration, or none.                                     *)
Messages == {<<>>} \cup {<<c>> : c \in Configs}

(* The types of the variables.                                              *)
ConfigTyped ==
  /\ config \in Configs /\ cfg0 \in Configs /\ root_config \in Configs
  /\ set \in [Procs -> {"none"} \cup OptionValues]
  /\ config_options \in [Procs -> Messages]
  /\ up \in Seq(Messages) /\ down \in Seq(Messages)
  /\ sets \in 0 .. MaxSets /\ open \in BOOLEAN /\ root \in BOOLEAN

(* While the first answer is waited for, the question is on its way, or the *)
(* answer with the configuration of the service.                            *)
Asked ==
  phase = "asked" /\ open =>
    \/ up = <<Config!None>> /\ down = <<>>
    \/ up = <<>> /\ down = <<<<root_config>>>>

(* Before the first answer nothing was set, unless it may be overtaken.     *)
Unset == phase \in {"try", "asked"} /\ ~overtaken => \A p \in Procs : set[p] = "none"

(* After it there is no question on its way, unless it went unanswered:     *)
(* every message to the service is a configuration.                         *)
OnItsWay ==
  phase \in {"watch", "sent"} /\ ~config_lost => \A k \in DOMAIN up : up[k] # Config!None

(* The invariant of ConfigSync.                                             *)
ConfigInv == Config!TypeOK /\ ConfigTyped /\ Asked /\ Unset /\ OnItsWay /\ Config!Kept /\
    Config!KnownUnlessLost

(* The invariant of ConfigSync holds at the start.                          *)
LEMMA ConfigInitially == Config!Init => ConfigInv
<1> SUFFICES ASSUME Config!Init PROVE ConfigInv
  OBVIOUS
<1>1. Config!zero \in Configs /\ [p \in Procs |-> Config!Old] \in Configs
  BY DEF Config!zero, Configs, OptionValues
<1>2. ConfigTyped
  <2>1. 0 \in 0 .. MaxSets
    BY PartsAssumption DEF Config!ConfigSyncAssumption
  <2>2. FALSE \in BOOLEAN /\ TRUE \in BOOLEAN
    OBVIOUS
  <2>3. open \in BOOLEAN /\ root \in BOOLEAN
    BY Zenon DEF Config!Init
  <2> QED  BY <1>1, <2>1, <2>3 DEF Config!Init, ConfigTyped, Messages
<1> QED  BY <1>2 DEF Config!Init, ConfigInv, Config!TypeOK, Asked, Unset, OnItsWay, Config!Kept,
      Config!KnownUnlessLost

(* Every step of ConfigSync keeps its invariant.                            *)
LEMMA ConfigStep == ConfigInv /\ [Config!Next]_(Config!vars) => ConfigInv'
<1> SUFFICES ASSUME ConfigInv, [Config!Next]_(Config!vars) PROVE ConfigInv'
  OBVIOUS
<1> USE PartsAssumption DEF Config!wire, Config!user, Config!ConfigSyncAssumption
<1>0. Config!TypeOK /\ ConfigTyped /\ Asked /\ Unset /\ OnItsWay /\ Config!Kept /\
        Config!KnownUnlessLost
  BY DEF ConfigInv
<1>1. ASSUME NEW p \in Procs, Config!get_options(p) PROVE ConfigInv'
  <2>1. ConfigTyped'
    BY <1>0, <1>1 DEF Config!get_options, ConfigTyped, Messages
  <2> QED  BY <1>0, <1>1, <2>1 DEF Config!get_options, ConfigInv, Config!TypeOK, Asked, Unset,
        OnItsWay, Config!Kept, Config!KnownUnlessLost
<1>2. ASSUME NEW p \in Procs, Config!set_options(p) PROVE ConfigInv'
  <2>0. PICK c \in Configs : config_options[p] = <<c>>
    BY <1>0, <1>2 DEF Config!set_options, ConfigTyped, Messages
  <2>1. config_options[p][1] = c
    BY <2>0
  <2> DEFINE v == Config!ToString(sets + 1)
  <2>2. sets + 1 \in 1 .. MaxSets /\ v \in OptionValues
    BY <1>0, <1>2 DEF Config!set_options, ConfigTyped, OptionValues
  <2>3. /\ config_options' = [config_options EXCEPT ![p] = <<>>]
          /\ set' = [set EXCEPT ![p] = v] /\
             config' = [c EXCEPT ![p] = v]
        /\ sets' = sets + 1 /\ raced' = (raced \/ c # config)
        /\ overtaken' = (overtaken \/ phase \in {"try", "asked"})
        /\ UNCHANGED <<cfg0, phase, i, Config!wire, root, root_config, config_faults,
                config_lost>>
    BY <1>2, <2>1 DEF Config!set_options
  <2> HIDE DEF v
  <2>4. ConfigTyped'
    BY <1>0, <2>2, <2>3 DEF ConfigTyped, Configs, Messages
  <2>5. Config!Kept'
    <3> SUFFICES ASSUME ~raced', ~overtaken', NEW q \in Procs PROVE set'[q] = "none" \/
          config'[q] = set'[q]
      BY DEF Config!Kept
    <3>1. ~raced /\ ~overtaken /\ c = config
      BY <2>3, Zenon
    <3>2. set[q] = "none" \/ c[q] = set[q]
      BY <3>1, <1>0 DEF Config!Kept
    <3> QED  BY <1>0, <2>3, <3>2 DEF ConfigTyped, Configs
  <2>6. Unset'
    <3>1. ASSUME ~overtaken' PROVE phase \notin {"try", "asked"}
      BY <2>3, <3>1, Zenon
    <3> QED  BY <2>3, <3>1 DEF Unset
  <2>7. Config!TypeOK' /\ Asked' /\ OnItsWay' /\ Config!KnownUnlessLost'
    BY <1>0, <2>3 DEF Config!TypeOK, Asked, OnItsWay, Config!KnownUnlessLost
  <2> QED  BY <2>4, <2>5, <2>6, <2>7 DEF ConfigInv
<1>3. CASE Config!connect
  <2>1. up' = <<Config!None>> /\ Config!None \in Messages /\ <<>> \in Seq(Messages)
    BY <1>3 DEF Config!connect, Messages, Config!None
  <2>2. ConfigTyped'
    BY <1>0, <1>3, <2>1 DEF Config!connect, ConfigTyped
  <2> QED  BY <1>0, <1>3, <2>2 DEF Config!connect, ConfigInv, Config!TypeOK, Asked, Unset,
        OnItsWay, Config!Kept, Config!KnownUnlessLost
<1>4. CASE Config!connect_failed
  BY <1>0, <1>4 DEF Config!connect_failed, ConfigInv, Config!TypeOK, ConfigTyped, Asked, Unset,
      OnItsWay, Config!Kept, Config!KnownUnlessLost
<1>5. CASE Config!initial_sync
  <2>1. phase = "asked" /\ down # <<>> /\ down' = Tail(down) /\ phase' = "watch"
    BY <1>5 DEF Config!initial_sync
  <2>2. open /\ up = <<>> /\ down = <<<<root_config>>>>
    BY <1>0, <2>1 DEF Config!TypeOK, Asked
  <2>3. Head(down)[1] = root_config /\ Tail(down) = <<>>
    BY <2>2
  <2>4. config' \in {config, root_config} /\ cfg0' = root_config
    BY <1>5, <2>3 DEF Config!initial_sync
  <2>5. UNCHANGED <<Config!user, i, open, up, root, root_config, config_faults, overtaken,
          config_lost>>
    BY <1>5 DEF Config!initial_sync
  <2>6. ConfigTyped'
    BY <1>0, <2>1, <2>3, <2>4, <2>5 DEF ConfigTyped
  <2>7. Unset' /\ Config!Kept'
    BY <1>0, <2>1, <2>5 DEF Unset, Config!Kept
  <2>8. Config!TypeOK' /\ Asked' /\ OnItsWay' /\ Config!KnownUnlessLost'
    BY <1>0, <2>1, <2>2, <2>4, <2>5 DEF Config!TypeOK, Asked, OnItsWay, Config!KnownUnlessLost
  <2> QED  BY <2>6, <2>7, <2>8 DEF ConfigInv
<1>6. CASE Config!initial_timeout
  BY <1>0, <1>6 DEF Config!initial_timeout, ConfigInv, Config!TypeOK, ConfigTyped, Asked, Unset,
      OnItsWay, Config!Kept, Config!KnownUnlessLost
<1>7. CASE Config!sync_to_root
  <2>0. phase = "watch" /\ phase' \in {"watch", "sent"}
    BY <1>7 DEF Config!sync_to_root
  <2>1. CASE open
    <3>1. /\ up' = Append(up, <<config>>) /\ cfg0' = config /\ phase' = "sent"
          /\ UNCHANGED <<open, down, Config!user, config, i, root, root_config, config_faults,
               overtaken, config_lost>>
      BY <1>7, <2>1 DEF Config!sync_to_root
    <3>2. <<config>> \in Messages /\ <<config>> # Config!None /\ <<config>>[1] = config
      BY <1>0 DEF ConfigTyped, Messages, Config!None
    <3> DEFINE m == <<config>>
    <3>3. m \in Messages /\ m # Config!None /\ m[1] = config /\ up' = Append(up, m)
      BY <3>1, <3>2
    <3> HIDE DEF m
    <3>4. /\ up' \in Seq(Messages) /\ Len(up') = Len(up) + 1 /\ up' # <<>> /\ up'[Len(up')] = m
          /\ \A k \in DOMAIN up' : (k \in DOMAIN up /\ up'[k] = up[k]) \/ up'[k] = m
      BY <1>0, <3>3 DEF ConfigTyped
    <3>5. ConfigTyped'
      BY <1>0, <3>1, <3>4 DEF ConfigTyped
    <3>6. OnItsWay'
      BY <1>0, <2>0, <3>1, <3>3, <3>4 DEF OnItsWay
    <3>7. Config!KnownUnlessLost'
      BY <3>1, <3>3, <3>4 DEF Config!KnownUnlessLost, Config!Last
    <3>8. Config!TypeOK' /\ Asked' /\ Unset' /\ Config!Kept'
      BY <1>0, <2>0, <2>1, <3>1 DEF Config!TypeOK, Asked, Unset, Config!Kept
    <3> QED  BY <3>5, <3>6, <3>7, <3>8 DEF ConfigInv
  <2>2. CASE ~open
    <3>1. /\ open' = root /\ up' = <<>> /\ down' = <<>> /\ up = <<>>
          /\ UNCHANGED <<cfg0, phase, Config!user, config, i, root, root_config, config_faults,
               overtaken, config_lost>>
      BY <1>0, <1>7, <2>2 DEF Config!sync_to_root, Config!TypeOK
    <3>2. ConfigTyped'
      BY <1>0, <3>1 DEF ConfigTyped
    <3> QED  BY <1>0, <2>0, <3>1, <3>2 DEF ConfigInv, Config!TypeOK, Asked, Unset, OnItsWay,
          Config!Kept, Config!KnownUnlessLost
  <2> QED  BY <2>1, <2>2
<1>8. CASE Config!sync_answered
  <2>1. /\ phase = "sent" /\ phase' = "watch" /\ down' \in {down, Tail(down)}
        /\ down' # down => down # <<>>
        /\ UNCHANGED <<Config!user, config, cfg0, i, open, up, root, root_config, overtaken,
             config_lost>>
    BY <1>8 DEF Config!sync_answered
  <2>2. down' \in Seq(Messages) /\ (down = <<>> => down' = <<>>)
    <3>1. down # <<>> => Tail(down) \in Seq(Messages)
      BY <1>0 DEF ConfigTyped
    <3> QED  BY <1>0, <2>1, <3>1 DEF ConfigTyped
  <2>3. ConfigTyped'
    BY <1>0, <2>1, <2>2 DEF ConfigTyped
  <2> QED  BY <1>0, <2>1, <2>2, <2>3 DEF ConfigInv, Config!TypeOK, Asked, Unset, OnItsWay,
        Config!Kept, Config!KnownUnlessLost
<1>9. CASE Config!handle
  <2>1. /\ root /\ up # <<>> /\ up' = Tail(up)
        /\ UNCHANGED <<Config!user, config, cfg0, phase, i, open, root, config_faults, overtaken,
             config_lost>>
    BY <1>9 DEF Config!handle
  <2>2. open
    BY <1>0, <2>1 DEF Config!TypeOK
  <2>3. /\ Head(up) \in Messages /\ Head(up) = up[1] /\ Len(up) \in Nat /\ Len(up) > 0 /\
             1 \in DOMAIN up
        /\ up' \in Seq(Messages) /\ Len(up') = Len(up) - 1
        /\ \A k \in DOMAIN up' : k + 1 \in DOMAIN up /\ up'[k] = up[k + 1]
    BY <1>0, <2>1 DEF ConfigTyped
  <2>4. CASE Head(up) = Config!None
    <3>1. down' = Append(down, <<root_config>>) /\ root_config' = root_config
      BY <1>9, <2>4 DEF Config!handle
    <3>2. <<root_config>> \in Messages
      BY <1>0 DEF ConfigTyped, Messages
    <3>3. ConfigTyped'
      BY <1>0, <2>1, <2>3, <3>1, <3>2 DEF ConfigTyped
    <3>4. Asked'
      <4>1. phase = "asked" => up = <<Config!None>> /\ down = <<>>
        BY <1>0, <2>1, <2>2 DEF Asked
      <4>2. ASSUME phase = "asked" PROVE up' = <<>> /\ down' = <<<<root_config'>>>>
        <5>1. Tail(<<Config!None>>) = <<>> /\ Append(<<>>, <<root_config>>) = <<<<root_config>>>>
          OBVIOUS
        <5>2. up' = Tail(<<Config!None>>) /\ down' = Append(<<>>, <<root_config>>)
          BY <2>1, <3>1, <4>1, <4>2
        <5> QED  BY <3>1, <5>1, <5>2
      <4> QED  BY <2>1, <4>2 DEF Asked
    <3>5. OnItsWay' /\ Config!KnownUnlessLost'
      BY <1>0, <2>1, <2>3, <2>4 DEF OnItsWay, Config!KnownUnlessLost
    <3>6. Config!TypeOK' /\ Unset' /\ Config!Kept'
      BY <1>0, <2>1, <2>2 DEF Config!TypeOK, Unset, Config!Kept
    <3> QED  BY <3>3, <3>4, <3>5, <3>6 DEF ConfigInv
  <2>5. CASE Head(up) # Config!None
    <3>1. down' = Append(down, Config!None) /\ root_config' = Head(up)[1]
      BY <1>9, <2>5 DEF Config!handle
    <3>2. Config!None \in Messages /\ Head(up)[1] \in Configs
      BY <2>3, <2>5 DEF Messages, Config!None
    <3>3. ConfigTyped'
      BY <1>0, <2>1, <2>3, <3>1, <3>2 DEF ConfigTyped
    <3>4. phase # "asked"
      BY <1>0, <2>1, <2>2, <2>5 DEF Asked
    <3>5. OnItsWay'
      BY <1>0, <2>1, <2>3 DEF OnItsWay
    <3>6. Config!KnownUnlessLost'
      <4>1. up' = <<>> => Config!Last(up) = Head(up)
        BY <2>3 DEF Config!Last
      <4>2. up' # <<>> => Config!Last(up') = Config!Last(up)
        <5>1. up' # <<>> => Len(up') \in DOMAIN up'
          BY <2>3
        <5> QED  BY <2>3, <5>1 DEF Config!Last
      <4> QED  BY <1>0, <2>1, <3>1, <4>1, <4>2 DEF Config!KnownUnlessLost
    <3>7. Config!TypeOK' /\ Asked' /\ Unset' /\ Config!Kept'
      BY <1>0, <2>1, <2>2, <3>4 DEF Config!TypeOK, Asked, Unset, Config!Kept
    <3> QED  BY <3>3, <3>5, <3>6, <3>7 DEF ConfigInv
  <2> QED  BY <2>4, <2>5
<1>10. CASE Config!die
  <2>1. /\ root' = FALSE /\ open' = FALSE /\ up' = <<>> /\ down' = <<>>
        /\ UNCHANGED <<Config!user, config, cfg0, phase, i, root_config, overtaken>>
    BY <1>10 DEF Config!die
  <2>2. ~config_lost' => ~config_lost /\ up = <<>>
    BY <1>10, Zenon DEF Config!die
  <2>3. ConfigTyped'
    <3>1. open' \in BOOLEAN /\ root' \in BOOLEAN
      BY <2>1, Zenon
    <3> QED  BY <1>0, <2>1, <3>1 DEF ConfigTyped
  <2> QED  BY <1>0, <2>1, <2>2, <2>3 DEF ConfigInv, Config!TypeOK, Asked, Unset, OnItsWay,
        Config!Kept, Config!KnownUnlessLost
<1>11. CASE Config!start
  BY <1>0, <1>11 DEF Config!start, ConfigInv, Config!TypeOK, ConfigTyped, Asked, Unset, OnItsWay,
      Config!Kept, Config!KnownUnlessLost
<1>12. CASE UNCHANGED Config!vars
  BY <1>0, <1>12 DEF Config!vars, ConfigInv, Config!TypeOK, ConfigTyped, Asked, Unset, OnItsWay,
      Config!Kept, Config!KnownUnlessLost
<1> QED  BY <1>1, <1>2, <1>3, <1>4, <1>5, <1>6, <1>7, <1>8, <1>9, <1>10, <1>11, <1>12 DEF
      Config!Next

-----------------------------------------------------------------------------
(* The clipboard loop of the sessions (ClipboardLoop).                      *)

(* The types of the clipboard loop's state.                                *)
ClipTyped ==
  /\ clip_pc \in [Tabs -> {"new", "connecting", "starting", "on", "exit", "unsubscribe", "stop",
                          "done"}]
  /\ loop \in [Clip!Threads -> {"none", "check", "recv", "end", "ended"}]
  /\ lock \in Tabs \cup {Clip!Free}
  /\ started \in 0 .. MaxThreads /\ told \subseteq 1 .. started
  /\ running \in BOOLEAN /\ clip_crossed \in BOOLEAN

(* Who starts a loop holds the lock.                                       *)
HoldsLock ==
  /\ \A s \in Tabs : clip_pc[s] = "starting" <=> lock = s
  /\ lock # Clip!Free => started > 0 /\ loop[started] = "none"

(* The listener has the sender of the newest loop, if any; a loop that was  *)
(* told to stop has none; and a session at work has its handler.            *)
NewestSubscribed ==
  /\ subscribers \subseteq {started} \ {0} /\ subscribers \cap told = {}
  /\ \A t \in Clip!Threads : loop[t] # "none" => t <= started
  /\ running => started > 0
  /\ \A s \in Tabs : clip_pc[s] \in {"connecting", "starting", "on"} => s \in sessions

(* Unless sessions crossed: only the newest loop is alive ...               *)
NewestOnly ==
  ~clip_crossed =>
    /\ \A t \in Clip!Threads : t # started => loop[t] \in {"none", "ended"}
    /\ running => /\ loop[started] \in {"check", "recv", "end"}
                  /\ started \in subscribers \cup told

(* ... and it listens, its flag up, while a session is on, and nobody is    *)
(* stopping it.                                                             *)
Serves ==
  ~clip_crossed =>
    /\ (\E s \in Tabs : clip_pc[s] \in {"starting", "on"}) => ~Clip!Stopping
    /\ lock # Clip!Free => subscribers = {started}
    /\ (\E s \in Tabs : clip_pc[s] = "on") =>
         running /\ lock = Clip!Free /\ Clip!Listening(started)

ClipInv == ClipTyped /\ HoldsLock /\ NewestSubscribed /\ NewestOnly /\ Serves

(* At the start no session is open and no loop runs.                        *)
LEMMA ClipInitially == Clip!Init => ClipInv
<1> SUFFICES ASSUME Clip!Init PROVE ClipInv
  OBVIOUS
<1> USE DEF Clip!Init
<1>1. ClipTyped
  <2>1. started \in 0 .. MaxThreads /\ told \subseteq 1 .. started
    BY PartsAssumption DEF Clip!ClipboardLoopAssumption
  <2>2. running \in BOOLEAN /\ clip_crossed \in BOOLEAN /\ lock \in Tabs \cup {Clip!Free}
    BY Zenon
  <2> QED  BY <2>1, <2>2 DEF ClipTyped
<1>2. HoldsLock
  BY PartsAssumption DEF Clip!ClipboardLoopAssumption, HoldsLock, Clip!Free
<1>3. NewestSubscribed
  BY DEF NewestSubscribed
<1>4. NewestOnly
  BY DEF NewestOnly
<1>5. Serves
  BY DEF Serves
<1> QED  BY <1>1, <1>2, <1>3, <1>4, <1>5 DEF ClipInv

(* A session that is at its start or at its end, but takes no lock and      *)
(* gives none back.                                                         *)
LEMMA SessionElsewhere ==
  ASSUME ClipInv, NEW s \in Tabs, NEW to,
         to \in {"connecting", "exit", "done", "unsubscribe"},
         clip_pc' = [clip_pc EXCEPT ![s] = to], clip_pc[s] \in {"new", "connecting", "on",
                 "exit"},
         sessions' \in {sessions \cup {s}, sessions \ {s}, sessions},
         to = "connecting" => sessions' = sessions \cup {s},
         to = "unsubscribe" => sessions = {},
         UNCHANGED <<Clip!clip, clip_crossed>>
  PROVE  ClipInv'
<1>0. ClipTyped /\ HoldsLock /\ NewestSubscribed /\ NewestOnly /\ Serves
  BY DEF ClipInv
<1>1. UNCHANGED <<running, lock, subscribers, loop, told, started, clip_crossed>>
  BY DEF Clip!clip
<1>2. ClipTyped'
  BY <1>0, <1>1 DEF ClipTyped
<1>3. clip_pc'[s] = to /\ \A r \in Tabs : r # s => clip_pc'[r] = clip_pc[r]
  BY <1>0 DEF ClipTyped
<1>4. HoldsLock'
  BY <1>0, <1>1, <1>3 DEF HoldsLock
<1>5. NewestSubscribed'
  BY <1>0, <1>1, <1>3 DEF NewestSubscribed
<1>6. NewestOnly'
  BY <1>0, <1>1 DEF NewestOnly
<1>7. Serves'
  <2>1. \A r \in Tabs : clip_pc'[r] \in {"starting", "on"} => r # s
          /\ clip_pc[r] = clip_pc'[r] /\ r \in sessions
    BY <1>0, <1>3 DEF NewestSubscribed
  <2>2. (\E r \in Tabs : clip_pc'[r] \in {"starting", "on"}) /\ Clip!Stopping' => Clip!Stopping
    BY <1>3, <2>1 DEF Clip!Stopping
  <2>3. Clip!Listening(started) => Clip!Listening(started)'
    BY <1>1 DEF Clip!Listening
  <2> QED  BY <1>0, <1>1, <2>1, <2>2, <2>3 DEF Serves
<1> QED  BY <1>2, <1>4, <1>5, <1>6, <1>7 DEF ClipInv

(* try_start_clipboard with no loop running.                                *)
LEMMA StartingKept ==
  ASSUME ClipInv, NEW s \in Tabs, Clip!try_start_clipboard(s), ~running
  PROVE  ClipInv'
<1>0. ClipTyped /\ HoldsLock /\ NewestSubscribed /\ NewestOnly /\ Serves
  BY DEF ClipInv
<1>1. /\ lock = Clip!Free /\ lock' = s /\ started < MaxThreads /\ started' = started + 1
      /\ clip_pc[s] = "connecting" /\ clip_pc' = [clip_pc EXCEPT ![s] = "starting"]
      /\ subscribers' = {started'}
      /\ UNCHANGED <<running, loop, told, sessions>>
  BY DEF Clip!try_start_clipboard, Clip!may_start, Clip!Goto, Clip!subscribe
<1>2. clip_crossed' = (clip_crossed \/ Clip!Stopping \/ \E t \in Clip!Threads : Clip!Ending(t))
  BY Zenon DEF Clip!try_start_clipboard
<1>3. clip_crossed' \in BOOLEAN
  BY <1>2
<1>4. clip_pc'[s] = "starting" /\ \A r \in Tabs : r # s => clip_pc'[r] = clip_pc[r]
  BY <1>0, <1>1 DEF ClipTyped
<1>5. /\ started' \in Clip!Threads /\ started \in Nat /\ started' \notin told /\ started' > 0
      /\ loop[started'] = "none" /\ \A t \in Clip!Threads : t <= started => t <= started'
  <2>1. started \in Nat /\ MaxThreads \in Nat /\ told \subseteq 1 .. started
    BY PartsAssumption, <1>0 DEF ClipTyped, Clip!ClipboardLoopAssumption
  <2>2. started' \in Clip!Threads /\ ~(started' <= started) /\ started' > 0
          /\ \A t \in Clip!Threads : t <= started => t <= started'
    BY <1>1, <2>1 DEF Clip!Threads
  <2>3. loop[started'] = "none"
    BY <1>0, <2>2 DEF NewestSubscribed
  <2>4. started' \notin told
    BY <1>1, <2>1
  <2> QED  BY <2>1, <2>2, <2>3, <2>4
<1>6. ClipTyped'
  BY PartsAssumption, <1>0, <1>1, <1>3 DEF ClipTyped, Clip!ClipboardLoopAssumption
<1>7. HoldsLock'
  <2>1. \A r \in Tabs : clip_pc[r] # "starting"
    BY PartsAssumption, <1>0, <1>1 DEF HoldsLock, Clip!ClipboardLoopAssumption, Clip!Free
  <2> QED  BY <1>1, <1>4, <1>5, <2>1 DEF HoldsLock
<1>8. NewestSubscribed'
  BY <1>0, <1>1, <1>4, <1>5 DEF NewestSubscribed
<1>9. ASSUME ~clip_crossed' PROVE NewestOnly' /\ Serves'
  <2>1. ~clip_crossed /\ ~Clip!Stopping /\ \A t \in Clip!Threads : ~Clip!Ending(t)
    BY <1>2, <1>9
  <2>2. \A t \in Clip!Threads : loop[t] \in {"none", "ended"}
    BY <2>1 DEF Clip!Ending
  <2>3. ~Clip!Stopping'
    BY <1>4, <2>1 DEF Clip!Stopping
  <2>4. \A r \in Tabs : clip_pc'[r] # "on"
    BY <1>0, <1>4, <2>1 DEF Serves
  <2> QED  BY <1>1, <2>2, <2>3, <2>4 DEF NewestOnly, Serves
<1> QED  BY <1>6, <1>7, <1>8, <1>9 DEF ClipInv, NewestOnly, Serves

(* try_start_clipboard with a loop running.                                 *)
LEMMA JoiningKept ==
  ASSUME ClipInv, NEW s \in Tabs, Clip!try_start_clipboard(s), running
  PROVE  ClipInv'
<1>0. ClipTyped /\ HoldsLock /\ NewestSubscribed /\ NewestOnly /\ Serves
  BY DEF ClipInv
<1>1. /\ lock = Clip!Free /\ clip_pc[s] = "connecting" /\ clip_pc' = [clip_pc EXCEPT ![s] = "on"]
      /\ UNCHANGED <<running, lock, subscribers, loop, told, started, sessions>>
  BY DEF Clip!try_start_clipboard, Clip!may_start, Clip!Goto, Clip!clip
<1>2. clip_crossed' = (clip_crossed \/ Clip!Stopping \/ \E t \in Clip!Threads : Clip!Ending(t))
  BY Zenon DEF Clip!try_start_clipboard
<1>3. clip_crossed' \in BOOLEAN
  BY <1>2
<1>4. clip_pc'[s] = "on" /\ \A r \in Tabs : r # s => clip_pc'[r] = clip_pc[r]
  BY <1>0, <1>1 DEF ClipTyped
<1>5. ClipTyped'
  BY <1>0, <1>1, <1>3 DEF ClipTyped
<1>6. HoldsLock'
  BY <1>0, <1>1, <1>4 DEF HoldsLock
<1>7. NewestSubscribed'
  BY <1>0, <1>1, <1>4 DEF NewestSubscribed
<1>8. ASSUME ~clip_crossed' PROVE NewestOnly' /\ Serves'
  <2>1. ~clip_crossed /\ ~Clip!Stopping /\ \A t \in Clip!Threads : ~Clip!Ending(t)
    BY <1>2, <1>8
  <2>2. loop[started] \in {"check", "recv", "end"} /\ started \in subscribers \cup told
    BY <1>0, <2>1 DEF NewestOnly
  <2>3. started \in Clip!Threads
    BY PartsAssumption, <1>0 DEF ClipTyped, NewestSubscribed, Clip!Threads,
        Clip!ClipboardLoopAssumption
  <2>4. loop[started] # "end" /\ started \notin told
    BY <2>1, <2>2, <2>3 DEF Clip!Ending
  <2>5. Clip!Listening(started)'
    BY <1>1, <2>2, <2>4 DEF Clip!Listening
  <2>6. ~Clip!Stopping'
    BY <1>4, <2>1 DEF Clip!Stopping
  <2>7. NewestOnly'
    BY <1>0, <1>1, <2>1 DEF NewestOnly
  <2> QED  BY <1>1, <2>5, <2>6, <2>7 DEF Serves
<1> QED  BY <1>5, <1>6, <1>7, <1>8 DEF ClipInv, NewestOnly, Serves

(* The thread of the loop.                                                  *)
LEMMA SpawnKept ==
  ASSUME ClipInv, NEW s \in Tabs, Clip!spawn_loop(s)
  PROVE  ClipInv'
<1>0. ClipTyped /\ HoldsLock /\ NewestSubscribed /\ NewestOnly /\ Serves
  BY DEF ClipInv
<1>1. /\ lock = s /\ clip_pc[s] = "starting" /\ clip_pc' = [clip_pc EXCEPT ![s] = "on"]
      /\ running' = TRUE /\ lock' = Clip!Free /\ loop' = [loop EXCEPT ![started] = "check"]
      /\ UNCHANGED <<subscribers, told, started, clip_crossed, sessions>>
  BY DEF Clip!spawn_loop, Clip!Goto
<1>2. clip_pc'[s] = "on" /\ \A r \in Tabs : r # s => clip_pc'[r] = clip_pc[r]
  BY <1>0, <1>1 DEF ClipTyped
<1>3. s # Clip!Free
  BY PartsAssumption DEF Clip!Free, Clip!ClipboardLoopAssumption
<1>4. /\ started \in Clip!Threads /\ started > 0 /\ started <= started
      /\ ~clip_crossed => subscribers = {started}
  BY PartsAssumption, <1>0, <1>1, <1>3 DEF ClipTyped, HoldsLock, Serves, Clip!Threads,
      Clip!ClipboardLoopAssumption
<1>5. loop'[started] = "check" /\ \A t \in Clip!Threads : t # started => loop'[t] = loop[t]
  BY <1>0, <1>1, <1>4 DEF ClipTyped
<1>6. ClipTyped'
  BY <1>0, <1>1 DEF ClipTyped
<1>7. HoldsLock'
  BY PartsAssumption, <1>0, <1>1, <1>2 DEF HoldsLock, Clip!Free, Clip!ClipboardLoopAssumption
<1>8. NewestSubscribed'
  BY <1>0, <1>1, <1>2, <1>4, <1>5 DEF NewestSubscribed
<1>9. NewestOnly'
  BY <1>0, <1>1, <1>4, <1>5 DEF NewestOnly
<1>10. Serves'
  <2>1. ~clip_crossed => started \notin told
    BY <1>0, <1>4 DEF NewestSubscribed
  <2>2. ~clip_crossed => Clip!Listening(started)'
    BY <1>1, <1>4, <1>5, <2>1 DEF Clip!Listening
  <2>3. Clip!Stopping' => Clip!Stopping
    BY <1>2 DEF Clip!Stopping
  <2> QED  BY <1>0, <1>1, <2>2, <2>3 DEF Serves
<1> QED  BY <1>6, <1>7, <1>8, <1>9, <1>10 DEF ClipInv

(* The last session tells the loop to end, and takes the flag down.         *)
LEMMA StopKept ==
  ASSUME ClipInv, NEW s \in Tabs, Clip!unsubscribe(s) \/ Clip!clear_running(s)
  PROVE  ClipInv'
<1>0. ClipTyped /\ HoldsLock /\ NewestSubscribed /\ NewestOnly /\ Serves
  BY DEF ClipInv
<1>1. CASE Clip!unsubscribe(s)
  <2>1. /\ clip_pc[s] = "unsubscribe" /\ clip_pc' = [clip_pc EXCEPT ![s] = "stop"]
        /\ told' = told \cup subscribers /\ subscribers' = {}
        /\ UNCHANGED <<sessions, running, lock, loop, started, clip_crossed>>
    BY <1>1 DEF Clip!unsubscribe, Clip!Goto
  <2>2. clip_pc'[s] = "stop" /\ \A r \in Tabs : r # s => clip_pc'[r] = clip_pc[r]
    BY <1>0, <2>1 DEF ClipTyped
  <2>3. Clip!Stopping
    BY <2>1 DEF Clip!Stopping
  <2>4. ~clip_crossed => lock = Clip!Free /\ \A r \in Tabs : clip_pc[r] \notin {"starting", "on"}
    BY <1>0, <2>3 DEF Serves, ClipTyped, HoldsLock
  <2>5. ~clip_crossed => \A r \in Tabs : clip_pc'[r] \notin {"starting", "on"}
    BY <2>2, <2>4
  <2>6. ClipTyped' /\ HoldsLock'
    <3>1. told' \subseteq 1 .. started
      BY <1>0, <2>1 DEF ClipTyped, NewestSubscribed
    <3> QED  BY <1>0, <2>1, <2>2, <3>1 DEF ClipTyped, HoldsLock
  <2>7. NewestSubscribed'
    BY <1>0, <2>1, <2>2 DEF NewestSubscribed
  <2>8. NewestOnly'
    BY <1>0, <2>1 DEF NewestOnly
  <2>9. Serves'
    BY <2>1, <2>4, <2>5 DEF Serves
  <2> QED  BY <2>6, <2>7, <2>8, <2>9 DEF ClipInv
<1>2. CASE Clip!clear_running(s)
  <2>1. /\ lock = Clip!Free /\ clip_pc[s] = "stop"
          /\ clip_pc' = [clip_pc EXCEPT ![s] = "done"] /\ running' = FALSE
        /\ UNCHANGED <<sessions, lock, subscribers, loop, told, started, clip_crossed>>
    BY <1>2 DEF Clip!clear_running, Clip!Goto
  <2>2. clip_pc'[s] = "done" /\ \A r \in Tabs : r # s => clip_pc'[r] = clip_pc[r]
    BY <1>0, <2>1 DEF ClipTyped
  <2>3. Clip!Stopping
    BY <2>1 DEF Clip!Stopping
  <2>4. ~clip_crossed => \A r \in Tabs : clip_pc'[r] \notin {"starting", "on"}
    BY <1>0, <2>2, <2>3 DEF Serves
  <2> QED  BY <1>0, <2>1, <2>2, <2>4 DEF ClipInv, ClipTyped, HoldsLock, NewestSubscribed,
          NewestOnly, Serves
<1> QED  BY <1>1, <1>2

(* A round of the loop, and its end.                                        *)
LEMMA LoopKept ==
  ASSUME ClipInv, NEW t \in Clip!Threads, Clip!Loop(t)
  PROVE  ClipInv'
<1>0. ClipTyped /\ HoldsLock /\ NewestSubscribed /\ NewestOnly /\ Serves
  BY DEF ClipInv
<1>1. PICK to \in {"check", "recv", "end", "ended"} :
        /\ loop' = [loop EXCEPT ![t] = to] /\ loop[t] \in {"check", "recv", "end"}
        /\ to = "ended" => loop[t] = "end" /\ lock = Clip!Free /\ running' = FALSE
        /\ to # "ended" => running' = running
        /\ to = "end" => (loop[t] = "check" /\ ~running) \/
                          (loop[t] = "recv" /\ (t \in told \/ t \notin subscribers))
        /\ UNCHANGED <<sessions, clip_pc, lock, subscribers, told, started, clip_crossed>>
  <2>1. CASE Clip!check_running(t)
    BY <2>1 DEF Clip!check_running, Clip!LoopGoto
  <2>2. CASE Clip!recv(t)
    BY <2>2 DEF Clip!recv, Clip!LoopGoto
  <2>3. CASE Clip!end(t)
    BY <2>3 DEF Clip!end, Clip!LoopGoto
  <2> QED  BY <2>1, <2>2, <2>3 DEF Clip!Loop
<1>2. loop'[t] = to /\ \A u \in Clip!Threads : u # t => loop'[u] = loop[u]
  BY <1>0, <1>1 DEF ClipTyped
<1>3. running' => running
  BY <1>0, <1>1 DEF ClipTyped
<1>4. ClipTyped'
  BY <1>0, <1>1 DEF ClipTyped
<1>5. HoldsLock'
  <2>1. lock # Clip!Free => t # started
    BY <1>0, <1>1 DEF HoldsLock
  <2>2. lock # Clip!Free => started \in Clip!Threads
    BY PartsAssumption, <1>0 DEF ClipTyped, HoldsLock, Clip!Threads, Clip!ClipboardLoopAssumption
  <2> QED  BY <1>0, <1>1, <1>2, <2>1, <2>2 DEF HoldsLock
<1>6. NewestSubscribed'
  BY <1>0, <1>1, <1>2, <1>3 DEF NewestSubscribed
<1>7. ASSUME ~clip_crossed PROVE NewestOnly' /\ Serves'
  <2>1. t = started
    BY <1>0, <1>1, <1>7 DEF NewestOnly
  <2>2. NewestOnly'
    BY <1>0, <1>1, <1>2, <1>3, <1>7, <2>1 DEF NewestOnly
  <2>3. ASSUME NEW s \in Tabs, clip_pc[s] = "on" PROVE running' /\ Clip!Listening(started)'
    <3>1. running /\ Clip!Listening(started)
      BY <1>0, <1>7, <2>3 DEF Serves
    <3>2. to \in {"check", "recv"}
      BY <1>1, <2>1, <3>1 DEF Clip!Listening
    <3> QED  BY <1>1, <1>2, <2>1, <3>1, <3>2 DEF Clip!Listening
  <2>4. Clip!Stopping' => Clip!Stopping
    BY <1>1 DEF Clip!Stopping
  <2> QED  BY <1>0, <1>1, <1>7, <2>2, <2>3, <2>4 DEF Serves
<1> QED  BY <1>1, <1>4, <1>5, <1>6, <1>7 DEF ClipInv, NewestOnly, Serves

(* Every step keeps the invariant.                                          *)
LEMMA ClipStep == ClipInv /\ [Clip!Next]_(Clip!vars) => ClipInv'
<1> SUFFICES ASSUME ClipInv, [Clip!Next]_(Clip!vars) PROVE ClipInv'
  OBVIOUS
<1>1. ASSUME NEW s \in Tabs, Clip!Session(s) PROVE ClipInv'
  <2>1. CASE Clip!session_start(s)
    BY <2>1, SessionElsewhere DEF Clip!session_start, Clip!Goto
  <2>2. CASE Clip!try_start_clipboard(s)
    BY <2>2, StartingKept, JoiningKept
  <2>3. CASE Clip!spawn_loop(s)
    BY <2>3, SpawnKept
  <2>4. CASE Clip!session_close(s) \/ Clip!closed_by_peer(s)
    BY <2>4, SessionElsewhere DEF Clip!session_close, Clip!closed_by_peer
  <2>5. CASE Clip!try_stop_clipboard(s)
    <3>1. PICK to \in {"done", "unsubscribe"} :
            clip_pc' = [clip_pc EXCEPT ![s] = to] /\ (to = "unsubscribe" => sessions = {})
      BY <2>5 DEF Clip!try_stop_clipboard, Clip!Goto, Clip!has_sessions_running
    <3>2. clip_pc[s] = "exit" /\ UNCHANGED <<sessions, Clip!clip, clip_crossed>>
      BY <2>5 DEF Clip!try_stop_clipboard, Clip!Goto
    <3> QED  BY <3>1, <3>2, SessionElsewhere
  <2>6. CASE Clip!unsubscribe(s) \/ Clip!clear_running(s)
    BY <2>6, StopKept
  <2> QED  BY <1>1, <2>1, <2>2, <2>3, <2>4, <2>5, <2>6 DEF Clip!Session
<1>2. CASE UNCHANGED Clip!vars
  <2>1. UNCHANGED <<sessions, clip_pc, running, lock, subscribers, loop, told, started,
          clip_crossed>>
    BY <1>2 DEF Clip!vars, Clip!clip
  <2>2. Clip!Stopping' = Clip!Stopping /\ Clip!Listening(started)' = Clip!Listening(started)
    BY <2>1 DEF Clip!Stopping, Clip!Listening
  <2>3. ClipTyped' /\ HoldsLock' /\ NewestSubscribed'
    BY <2>1 DEF ClipInv, ClipTyped, HoldsLock, NewestSubscribed
  <2>4. NewestOnly' /\ Serves'
    BY <2>1, <2>2 DEF ClipInv, NewestOnly, Serves
  <2> QED  BY <2>3, <2>4 DEF ClipInv
<1> QED  BY <1>1, <1>2, LoopKept DEF Clip!Next

(* What the invariant says: one loop listens at a time, and while a session *)
(* is on one does.                                                          *)
LEMMA ClipFollows == ClipInv => Clip!TypeOK /\ Clip!OneLoop /\ Clip!SharedUnlessCrossed
<1> SUFFICES ASSUME ClipInv PROVE Clip!TypeOK /\ Clip!OneLoop /\ Clip!SharedUnlessCrossed
  OBVIOUS
<1>0. ClipTyped /\ HoldsLock /\ NewestSubscribed /\ NewestOnly /\ Serves
  BY DEF ClipInv
<1>1. Clip!TypeOK
  BY <1>0 DEF ClipTyped, HoldsLock, NewestSubscribed, Clip!TypeOK
<1>2. Clip!OneLoop
  BY <1>0 DEF NewestSubscribed, Clip!Listening, Clip!OneLoop
<1>3. Clip!SharedUnlessCrossed
  <2>1. running => started \in Clip!Threads
    BY PartsAssumption, <1>0 DEF ClipTyped, NewestSubscribed, Clip!Threads,
        Clip!ClipboardLoopAssumption
  <2> QED  BY <1>0, <2>1 DEF Serves, Clip!SharedUnlessCrossed, Clip!Shared
<1> QED  BY <1>1, <1>2, <1>3

-----------------------------------------------------------------------------
(* The five together.                                                      *)

(* What holds of each part, the one that runs and those that rest.         *)
AllInv == UpdaterInv /\ DownloadInv /\ HeartbeatInv /\ ConfigInv /\ ClipInv

(* At the start all parts are in a first state of theirs.                  *)
LEMMA AllInitially == Begin => AllInv
BY UpdaterInitially, DownloadInitially, HeartbeatInitially, ConfigInitially, ClipInitially DEF
   Begin, AllInv

(* A part that rests keeps its invariant.                                  *)
LEMMA AllRest ==
  /\ UpdaterInv /\ UNCHANGED vars => UpdaterInv'
  /\ DownloadInv /\ UNCHANGED download_vars => DownloadInv'
  /\ HeartbeatInv /\ UNCHANGED heartbeat_vars => HeartbeatInv'
  /\ ConfigInv /\ UNCHANGED config_vars => ConfigInv'
  /\ ClipInv /\ UNCHANGED clip_vars => ClipInv'
<1>1. UpdaterInv /\ UNCHANGED vars => UpdaterInv'
  BY UpdaterStep
<1>2. UNCHANGED download_vars => UNCHANGED Download!vars
  BY DEF download_vars, Download!vars, Download!map, Download!files, Download!history
<1>3. UNCHANGED heartbeat_vars => UNCHANGED Heartbeat!vars
  BY DEF heartbeat_vars, Heartbeat!vars, Heartbeat!config, Heartbeat!loop, Heartbeat!stored,
         Heartbeat!connections, Heartbeat!server, Heartbeat!bounds, Heartbeat!history
<1>4. UNCHANGED config_vars => UNCHANGED Config!vars
  BY DEF config_vars, Config!vars, Config!wire, Config!user
<1>5. UNCHANGED clip_vars => UNCHANGED Clip!vars
  BY DEF clip_vars, Clip!vars, Clip!clip
<1> QED  BY <1>1, <1>2, <1>3, <1>4, <1>5, DownloadStep, HeartbeatStep, ConfigStep, ClipStep

(* Every step, of whichever part, keeps the invariants of all.             *)
LEMMA AllStep == AllInv /\ [Step]_all_vars => AllInv'
<1> SUFFICES ASSUME AllInv, [Step]_all_vars PROVE AllInv'
  OBVIOUS
<1>0. UpdaterInv /\ DownloadInv /\ HeartbeatInv /\ ConfigInv /\ ClipInv
  BY DEF AllInv
<1>1. CASE Next /\ UNCHANGED <<chosen, download_vars, heartbeat_vars, config_vars, clip_vars,
      keys_vars>>
  BY <1>0, <1>1, UpdaterStep, AllRest DEF AllInv
<1>2. CASE Download!Next /\ UNCHANGED <<chosen, vars, heartbeat_vars, config_vars, clip_vars,
      keys_vars>>
  BY <1>0, <1>2, DownloadStep, AllRest DEF AllInv
<1>3. CASE Heartbeat!Next /\ UNCHANGED <<chosen, vars, download_vars, config_vars, clip_vars,
      keys_vars>>
  BY <1>0, <1>3, HeartbeatStep, AllRest DEF AllInv
<1>4. CASE Config!Next /\ UNCHANGED <<chosen, vars, download_vars, heartbeat_vars, clip_vars,
      keys_vars>>
  BY <1>0, <1>4, ConfigStep, AllRest DEF AllInv
<1>5. CASE Clip!Next /\ UNCHANGED <<chosen, vars, download_vars, heartbeat_vars, config_vars,
      keys_vars>>
  BY <1>0, <1>5, ClipStep, AllRest DEF AllInv
<1>6. CASE UNCHANGED <<chosen, vars, download_vars, heartbeat_vars, config_vars, clip_vars>>
  BY <1>0, <1>6, AllRest DEF AllInv
<1>7. CASE UNCHANGED all_vars
  BY <1>0, <1>7, AllRest DEF AllInv, all_vars
<1> QED  BY <1>1, <1>2, <1>3, <1>4, <1>5, <1>6, <1>7 DEF Step

(* The invariants hold always, whichever part runs.                        *)
THEOREM AllInvariance == FairParts => []AllInv
BY AllInitially, AllStep, PTL DEF FairParts, Parts

(* Every variable of the five components has its type, and no index or     *)
(* counter leaves its range: the bytes of a download are never counted     *)
(* beyond what its threads have read.                                      *)
THEOREM UpdatesTyped == FairParts => []TypesOK
<1>1. AllInv => TypesOK
  <2> SUFFICES ASSUME AllInv PROVE TypesOK
    OBVIOUS
  <2>1. TypeOK /\ Download!TypeOK
    BY DEF AllInv, UpdaterInv, Typed, DownloadInv
  <2>2. Heartbeat!TypeOK /\ Config!TypeOK
    BY HeartbeatTypes DEF AllInv, HeartbeatInv, ConfigInv
  <2>3. Clip!TypeOK
    BY ClipFollows DEF AllInv
  <2> QED  BY <2>1, <2>2, <2>3 DEF TypesOK
<1> QED  BY <1>1, AllInvariance, PTL

(* A file that is run was fetched as a whole, by one thread, and one that  *)
(* was cancelled is gone; the options hold the strategy of the timestamp;  *)
(* an option that was set stays set, and what the service is known to have *)
(* it has, or it is on its way there.                                      *)
THEOREM FetchesWhole == FairParts => []FetchedWhole
<1>1. AllInv => FetchedWhole
  <2> SUFFICES ASSUME AllInv PROVE FetchedWhole
    OBVIOUS
  <2>1. Download!UpdateIsWhole /\ Download!CancelledIsGone /\ Download!OneWriter
    BY DownloadFollows DEF AllInv
  <2>2. Heartbeat!TimestampIsTrue /\ Config!Kept /\ Config!KnownUnlessLost
    BY DEF AllInv, HeartbeatInv, ConfigInv
  <2> QED  BY <2>1, <2>2 DEF FetchedWhole
<1> QED  BY <1>1, AllInvariance, PTL

(* The sessions of a client have one clipboard loop (try_start_clipboard,  *)
(* try_stop_clipboard): there are never two that listen, and while a       *)
(* session is on one does, in whatever order sessions start and end, but   *)
(* for one that started while a loop was on its way to its end.            *)
THEOREM OneLoopForAll == FairParts => []OneForAll
<1>1. AllInv => OneForAll
  BY ClipFollows DEF AllInv, OneForAll
<1> QED  BY <1>1, AllInvariance, PTL
=============================================================================
