---------------------------- MODULE AccountLogin -----------------------------
(***************************************************************************)
(* The login to an account by a third party (src/src/hbbs_http/account.rs) *)
(* and the dialog that starts it and polls its state                       *)
(* (src/flutter/lib/common/widgets/login.dart).  There is one session in   *)
(* the process; every attempt has a thread that first stops the one before *)
(* it.  The user's consent is given in a browser.                          *)
(***************************************************************************)
EXTENDS Naturals, FiniteSets, FiniteSetTheorems, TLAPS

CONSTANTS
  MaxCalls,     (* bound: attempts                                           *)
  MaxCancels    (* bound: cancels by the user                                *)

(* Assumed of the constants by every module that gives them values.       *)
AccountLoginAssumption == MaxCalls \in Nat \ {0} /\ MaxCancels \in Nat

Calls == 1 .. MaxCalls
None == 0

VARIABLES
  pc,           (* where the thread of an attempt is                         *)
  state_msg, failed_msg, code_url, auth_body, keep_querying, running,
  timed_out,    (* attempts whose query_timeout has passed                   *)
  access_token, (* LocalConfig: the attempt that stored it                   *)
  curOP,        (* the dialog shows an attempt                               *)
  timers, updateTimer,  (* the timers that poll, and the last of them        *)
  seen,         (* _stateMsg, _failedMsg                                     *)
  launched,     (* attempts whose URL was opened                             *)
  url,          (* _url                                                      *)
  logged_in,    (* the attempt that cbLogin was called for                   *)
  calls, cancels,
  wanted,       (* history: the last attempt, unless it was cancelled        *)
  late,         (* history: given up while about to start, or in a request   *)
  crowd,        (* history: an attempt began while another was beginning     *)
  between       (* history: a poll saw a state before what belongs to it     *)

session == <<state_msg, failed_msg, code_url, auth_body, keep_querying, running>>
dialog == <<curOP, timers, updateTimer, seen, launched, url, logged_in>>
history == <<wanted, late, crowd, between>>
vars == <<pc, session, timed_out, access_token, dialog, calls, cancels, history>>

Unseen == <<"", FALSE>>

Init ==
  /\ pc = [c \in Calls |-> "none"]
  /\ state_msg = "requesting" /\ failed_msg = FALSE /\ code_url = None /\ auth_body = None
  /\ keep_querying = FALSE /\ running = FALSE
  /\ timed_out = {} /\ access_token = None
  /\ curOP = FALSE /\ timers = {} /\ updateTimer = None /\ seen = Unseen
  /\ launched = {} /\ url = None /\ logged_in = None
  /\ calls = 0 /\ cancels = 0
  /\ wanted = None /\ late = {} /\ crowd = FALSE /\ between = FALSE

Goto(c, from, to) == pc[c] = from /\ pc' = [pc EXCEPT ![c] = to]

Beginning == {c \in Calls : pc[c] \in {"called", "wait", "before"}}
Tasks == {c \in Calls : pc[c] \in {"auth", "url", "query", "asking", "login", "body", "after"}}

(* History: what is given up now may still come true.                       *)
GivenUp(by) == late' = late \cup {c \in Calls \ {by} : pc[c] \in {"called", "wait", "before", "asking", "login", "body"}}

-----------------------------------------------------------------------------
(* The dialog.                                                              *)

_resetState == seen' = Unseen /\ url' = None

onTap ==
  /\ calls < MaxCalls /\ logged_in = None
  /\ calls' = calls + 1
  /\ pc' = [pc EXCEPT ![calls + 1] = "called"]
  /\ curOP' = TRUE /\ _resetState
  /\ crowd' = (crowd \/ Beginning # {})
  /\ UNCHANGED <<session, timed_out, access_token, timers, updateTimer, launched, logged_in, cancels, wanted, late, between>>

(* Mutant: the timer goes on.                                               *)
onCancel_polling ==
  /\ curOP /\ cancels < MaxCancels
  /\ cancels' = cancels + 1
  /\ curOP' = FALSE /\ _resetState
  /\ keep_querying' = FALSE
  /\ wanted' = None /\ GivenUp(None)
  /\ UNCHANGED <<pc, state_msg, failed_msg, code_url, auth_body, running, timed_out, access_token,
                 timers, updateTimer, launched, logged_in, calls, crowd, between>>

(* mainAccountAuthCancel is auth_cancel.                                    *)
onCancel ==
  /\ curOP /\ cancels < MaxCancels
  /\ cancels' = cancels + 1
  /\ curOP' = FALSE /\ timers' = timers \ {updateTimer} /\ _resetState
  /\ keep_querying' = FALSE
  /\ wanted' = None /\ GivenUp(None)
  /\ UNCHANGED <<pc, state_msg, failed_msg, code_url, auth_body, running, timed_out, access_token,
                 updateTimer, launched, logged_in, calls, crowd, between>>

_updateState ==
  /\ timers # {}
  /\ seen # <<state_msg, failed_msg>>
  /\ seen' = <<state_msg, failed_msg>>
  /\ IF url = None /\ code_url # None
     THEN url' = code_url /\ launched' = launched \cup {code_url}
     ELSE UNCHANGED <<url, launched>>
  /\ logged_in' = IF auth_body # None THEN auth_body ELSE logged_in
  /\ IF auth_body # None \/ failed_msg
     THEN curOP' = FALSE /\ timers' = timers \ {updateTimer}
     ELSE UNCHANGED <<curOP, timers>>
  /\ between' = (between \/ (~failed_msg /\ state_msg = "waiting" /\ code_url = None)
                         \/ (state_msg = "login" /\ auth_body = None))
  /\ UNCHANGED <<pc, session, timed_out, access_token, updateTimer, calls, cancels, wanted, late, crowd>>

-----------------------------------------------------------------------------
(* account_auth.                                                            *)

auth_cancel(c) ==
  /\ Goto(c, "called", "wait")
  /\ keep_querying' = FALSE
  /\ wanted' = c /\ GivenUp(c)
  /\ UNCHANGED <<state_msg, failed_msg, code_url, auth_body, running, timed_out, access_token,
                 dialog, calls, cancels, crowd, between>>

(* Mutant: the thread before is not waited for.                             *)
wait_stop_not(c) ==
  /\ Goto(c, "wait", "before")
  /\ UNCHANGED <<session, timed_out, access_token, dialog, calls, cancels, history>>

wait_stop_querying(c) ==
  /\ Goto(c, "wait", "before") /\ ~running
  /\ UNCHANGED <<session, timed_out, access_token, dialog, calls, cancels, history>>

(* Mutant: what the attempt before left stays.                              *)
before_task_left(c) ==
  /\ Goto(c, "before", "auth")
  /\ state_msg' = "requesting" /\ failed_msg' = FALSE
  /\ keep_querying' = TRUE /\ running' = TRUE
  /\ timers' = timers \cup {c} /\ updateTimer' = c
  /\ UNCHANGED <<code_url, auth_body, timed_out, access_token, curOP, seen, launched, url, logged_in, calls, cancels, history>>

(* reset; the call then returns, and the dialog has its timer.              *)
before_task(c) ==
  /\ Goto(c, "before", "auth")
  /\ state_msg' = "requesting" /\ failed_msg' = FALSE /\ code_url' = None /\ auth_body' = None
  /\ keep_querying' = TRUE /\ running' = TRUE
  /\ timers' = timers \cup {c} /\ updateTimer' = c
  /\ UNCHANGED <<timed_out, access_token, curOP, seen, launched, url, logged_in, calls, cancels, history>>

-----------------------------------------------------------------------------
(* auth_task.                                                               *)

set_state(state, failed) == state_msg' = state /\ failed_msg' = failed

auth(c) ==
  /\ \/ Goto(c, "auth", "url") /\ set_state("waiting", FALSE)
     \/ Goto(c, "auth", "after") /\ set_state("requesting", TRUE)
  /\ UNCHANGED <<code_url, auth_body, keep_querying, running, timed_out, access_token, dialog, calls, cancels, history>>

set_code_url(c) ==
  /\ Goto(c, "url", "query")
  /\ code_url' = c
  /\ UNCHANGED <<state_msg, failed_msg, auth_body, keep_querying, running, timed_out, access_token,
                 dialog, calls, cancels, history>>

(* Mutant: the loop goes on until it times out.                             *)
query_on(c) ==
  /\ IF c \notin timed_out
     THEN Goto(c, "query", "asking") /\ UNCHANGED <<state_msg, failed_msg>>
     ELSE Goto(c, "query", "after") /\ set_state("waiting", TRUE)
  /\ UNCHANGED <<code_url, auth_body, keep_querying, running, timed_out, access_token, dialog, calls, cancels, history>>

(* Mutant: the time-out is not told.                                        *)
query_silent(c) ==
  /\ IF keep_querying /\ c \notin timed_out THEN Goto(c, "query", "asking") ELSE Goto(c, "query", "after")
  /\ UNCHANGED <<session, timed_out, access_token, dialog, calls, cancels, history>>

(* The condition of the loop.                                               *)
query(c) ==
  /\ IF keep_querying /\ c \notin timed_out
     THEN Goto(c, "query", "asking") /\ UNCHANGED <<state_msg, failed_msg>>
     ELSE /\ Goto(c, "query", "after")
          /\ IF c \in timed_out THEN set_state("waiting", TRUE) ELSE UNCHANGED <<state_msg, failed_msg>>
  /\ UNCHANGED <<code_url, auth_body, keep_querying, running, timed_out, access_token, dialog, calls, cancels, history>>

(* The server's answer: logged in, once the user has consented, an error,   *)
(* or nothing yet.                                                          *)
answer(c) ==
  /\ \/ /\ c \in launched /\ Goto(c, "asking", "login")
        /\ access_token' = c /\ UNCHANGED <<state_msg, failed_msg>>
     \/ Goto(c, "asking", "after") /\ set_state("waiting", TRUE) /\ UNCHANGED access_token
     \/ Goto(c, "asking", "query") /\ UNCHANGED <<state_msg, failed_msg, access_token>>
  /\ UNCHANGED <<code_url, auth_body, keep_querying, running, timed_out, dialog, calls, cancels, history>>

login_account_auth(c) ==
  /\ Goto(c, "login", "body")
  /\ set_state("login", FALSE)
  /\ UNCHANGED <<code_url, auth_body, keep_querying, running, timed_out, access_token, dialog, calls, cancels, history>>

set_auth_body(c) ==
  /\ Goto(c, "body", "after")
  /\ auth_body' = c
  /\ UNCHANGED <<state_msg, failed_msg, code_url, keep_querying, running, timed_out, access_token,
                 dialog, calls, cancels, history>>

after_task(c) ==
  /\ Goto(c, "after", "ended")
  /\ running' = FALSE
  /\ UNCHANGED <<state_msg, failed_msg, code_url, auth_body, keep_querying, timed_out, access_token,
                 dialog, calls, cancels, history>>

query_timeout(c) ==
  /\ pc[c] \in {"query", "asking"} /\ c \notin timed_out
  /\ timed_out' = timed_out \cup {c}
  /\ UNCHANGED <<pc, session, access_token, dialog, calls, cancels, history>>

Thread(c) ==
  \/ auth_cancel(c) \/ wait_stop_querying(c) \/ before_task(c)
  \/ auth(c) \/ set_code_url(c) \/ query(c) \/ answer(c)
  \/ login_account_auth(c) \/ set_auth_body(c) \/ after_task(c)

Next == onTap \/ onCancel \/ _updateState \/ \E c \in Calls : Thread(c) \/ query_timeout(c)

(* Threads run, time passes, and the dialog polls every second.             *)
Fairness ==
  /\ \A c \in Calls : WF_vars(Thread(c)) /\ WF_vars(query_timeout(c))
  /\ WF_vars(_updateState)

Spec == Init /\ [][Next]_vars /\ Fairness

-----------------------------------------------------------------------------
TypeOK ==
  /\ state_msg \in {"requesting", "waiting", "login"} /\ failed_msg \in BOOLEAN
  /\ {code_url, auth_body, access_token, updateTimer, url, logged_in, wanted} \subseteq Calls \cup {None}
  /\ timers \subseteq Calls /\ launched \subseteq Calls /\ late \subseteq Calls /\ timed_out \subseteq Calls
  /\ {keep_querying, running, curOP, crowd, between} \subseteq BOOLEAN
  /\ \A c \in Calls : pc[c] # "none" <=> c <= calls
  /\ code_url # None => state_msg # "requesting" \/ crowd
  /\ auth_body # None => auth_body = access_token \/ crowd

(* wait_stop_querying does what it is there for: one attempt at a time has  *)
(* the session, unless one began while another was beginning.               *)
OneTask == ~crowd => Cardinality(Tasks) <= 1

(* An attempt that was cancelled, or followed by another, stores no token,  *)
(* unless it was beginning, which resets keep_querying, or in a request.    *)
StoredIsWanted == [][access_token' # access_token /\ ~crowd => access_token' \in {wanted} \cup late]_vars

(* A dialog that was cancelled does not log in, unless the cancel came      *)
(* while its attempt was beginning, which starts the timer after it, or a   *)
(* second tap had replaced a timer that still runs.                         *)
LoginIsWanted == [][logged_in' # logged_in => wanted # None \/ late # {} \/ crowd \/ ~(timers \subseteq {updateTimer})]_vars

(* Both: only what the user wants last is stored and logged in.             *)
WantedOnly == StoredIsWanted /\ LoginIsWanted

(* The dialog comes to an end, unless a poll came between a state and what  *)
(* belongs to it: a URL not opened, or a login not noticed.                 *)
AttemptEnds == curOP ~> (~curOP \/ between \/ crowd)

-----------------------------------------------------------------------------
Begins == {"called", "wait", "before"}
Works == {"auth", "url", "query", "asking", "login", "body", "after"}

(* One attempt begins at a time; the flag is up while one has the session; *)
(* and one that is past the wait has found it down.                        *)
Alone ==
  /\ \A c, d \in Calls : pc[c] \in Begins /\ pc[d] \in Begins => c = d
  /\ \A c, d \in Calls : pc[c] \in Works /\ pc[d] \in Works => c = d
  /\ \A c \in Calls : pc[c] \in Works => running
  /\ \A c, d \in Calls : ~(pc[c] = "before" /\ pc[d] \in Works)

IInv ==
  /\ pc \in [Calls -> {"none", "ended"} \cup Begins \cup Works]
  /\ {running, crowd} \subseteq BOOLEAN
  /\ calls \in 0 .. MaxCalls
  /\ ~crowd => Alone

(* No task is there to begin with.                                           *)
LEMMA InitInv ==
  ASSUME AccountLoginAssumption PROVE Init => IInv
<1> SUFFICES ASSUME Init PROVE IInv
  OBVIOUS
<1>1. pc = [c \in Calls |-> "none"] /\ calls = 0 /\ running = FALSE /\ crowd = FALSE
  BY DEF Init
<1>2. Alone
  BY <1>1 DEF Alone, Begins, Works
<1>3. calls \in 0 .. MaxCalls
  BY <1>1 DEF AccountLoginAssumption
<1>4. {running, crowd} \subseteq BOOLEAN
  BY <1>1, Zenon
<1> QED BY <1>1, <1>2, <1>3, <1>4 DEF IInv

(* Every step of the program keeps at most one task, or is one of those      *)
(* counted in crowd.                                                         *)
LEMMA StepInv ==
  ASSUME AccountLoginAssumption PROVE IInv /\ [Next]_vars => IInv'
<1> SUFFICES ASSUME IInv, [Next]_vars PROVE IInv'
  OBVIOUS
<1> USE DEF AccountLoginAssumption, IInv, Begins, Works
<1>1. CASE onTap
  <2>1. /\ calls < MaxCalls /\ calls' = calls + 1 /\ pc' = [pc EXCEPT ![calls + 1] = "called"]
        /\ crowd' = (crowd \/ Beginning # {}) /\ UNCHANGED running
    BY <1>1 DEF onTap, session
  <2>2. calls + 1 \in Calls /\ calls' \in 0 .. MaxCalls
    BY <2>1 DEF Calls
  <2>3. ASSUME ~crowd' PROVE Alone'
    <3>1. Alone /\ \A c \in Calls : pc[c] \notin Begins
      BY <2>1, <2>3 DEF Beginning
    <3> QED BY <2>1, <2>2, <3>1 DEF Alone
  <2> QED BY <2>1, <2>2, <2>3
<1>2. CASE onCancel \/ _updateState
  BY <1>2 DEF onCancel, _updateState, session, Alone
<1>3. ASSUME NEW c \in Calls, auth_cancel(c) PROVE IInv'
  BY <1>3 DEF auth_cancel, Goto, Alone
<1>4. ASSUME NEW c \in Calls, wait_stop_querying(c) PROVE IInv'
  BY <1>4 DEF wait_stop_querying, Goto, Alone, session, history
<1>5. ASSUME NEW c \in Calls, before_task(c) PROVE IInv'
  BY <1>5 DEF before_task, Goto, Alone, history
<1>6. ASSUME NEW c \in Calls, after_task(c) PROVE IInv'
  <2>1. /\ pc[c] = "after" /\ pc' = [pc EXCEPT ![c] = "ended"] /\ running' = FALSE
        /\ UNCHANGED <<crowd, calls>>
    BY <1>6 DEF after_task, Goto, history
  <2> QED BY <2>1 DEF Alone
<1>7. ASSUME NEW c \in Calls, query_timeout(c) PROVE IInv'
  BY <1>7 DEF query_timeout, Alone, session, history
<1>8. ASSUME NEW c \in Calls,
             auth(c) \/ set_code_url(c) \/ query(c) \/ answer(c) \/ login_account_auth(c)
               \/ set_auth_body(c)
      PROVE  IInv'
  <2>1. \E w \in Works : pc[c] \in Works /\ pc' = [pc EXCEPT ![c] = w]
    BY <1>8 DEF auth, set_code_url, query, answer, login_account_auth, set_auth_body, Goto
  <2>2. UNCHANGED <<running, crowd, calls>>
    BY <1>8 DEF auth, set_code_url, query, answer, login_account_auth, set_auth_body, history
  <2> QED BY <2>1, <2>2 DEF Alone
<1>9. CASE UNCHANGED vars
  BY <1>9 DEF vars, session, history, Alone
<1> QED BY <1>1, <1>2, <1>3, <1>4, <1>5, <1>6, <1>7, <1>8, <1>9 DEF Next, Thread

(* The inductive invariant holds of every behaviour of the account login.    *)
THEOREM Invariance ==
  ASSUME AccountLoginAssumption PROVE Spec => []IInv
<1>1. Init => IInv
  BY InitInv
<1>2. IInv /\ [Next]_vars => IInv'
  BY StepInv
<1> QED BY <1>1, <1>2, PTL DEF Spec

(* The wait for the thread before is enough, as long as no two attempts    *)
(* wait at the same time.                                                  *)
THEOREM OneAtATime ==
  ASSUME AccountLoginAssumption PROVE Spec => []OneTask
<1>1. IInv => OneTask
  <2> SUFFICES ASSUME Alone PROVE Cardinality(Tasks) <= 1
    BY DEF IInv, OneTask
  <2>1. CASE Tasks = {}
    BY <2>1, FS_EmptySet
  <2>2. CASE Tasks # {}
    <3>1. PICK c \in Tasks : Tasks = {c}
      BY <2>2 DEF Tasks, Alone, Works
    <3> QED BY <3>1, FS_Singleton
  <2> QED BY <2>1, <2>2
<1>2. Spec => []IInv
  BY Invariance
<1> QED BY <1>1, <1>2, PTL

-----------------------------------------------------------------------------
(* An attempt that is past its own cancel and is neither wanted nor given  *)
(* up late has found, or will find, that the querying is to end; and a     *)
(* dialog that nobody wants has lost its last timer.                       *)
Asked(c) == c = wanted \/ c \in late

Wanted ==
  /\ \A c \in Calls : pc[c] \in {"wait", "before", "asking", "login", "body"} => Asked(c)
  /\ \A c \in Calls : pc[c] \in {"auth", "url", "query"} /\ keep_querying => Asked(c)
  /\ wanted = None /\ late = {} => updateTimer \notin timers

WInv ==
  /\ timers \subseteq Calls
  /\ ~crowd => Wanted

LEMMA WantedInit == Init => WInv
<1> SUFFICES ASSUME Init PROVE WInv
  OBVIOUS
<1>1. pc = [c \in Calls |-> "none"] /\ timers = {}
  BY DEF Init
<1> QED BY <1>1 DEF WInv, Wanted

(* Every step of the program keeps it, or is one of those in crowd.        *)
LEMMA WantedStep ==
  ASSUME AccountLoginAssumption PROVE IInv /\ WInv /\ [Next]_vars => WInv'
<1> SUFFICES ASSUME IInv, WInv, [Next]_vars PROVE WInv'
  OBVIOUS
<1> USE DEF AccountLoginAssumption, IInv, WInv, Begins, Works
<1>0. None \notin Calls
  BY DEF None, Calls
<1>1. CASE onTap
  <2>1. /\ calls < MaxCalls /\ pc' = [pc EXCEPT ![calls + 1] = "called"]
        /\ crowd' = (crowd \/ Beginning # {})
        /\ UNCHANGED <<keep_querying, timers, updateTimer, wanted, late>>
    BY <1>1 DEF onTap, session
  <2>2. calls + 1 \in Calls
    BY <2>1 DEF Calls
  <2> QED BY <2>1, <2>2 DEF Wanted, Asked
<1>2. CASE onCancel
  <2>1. /\ keep_querying' = FALSE /\ wanted' = None /\ GivenUp(None)
        /\ timers' = timers \ {updateTimer} /\ UNCHANGED <<pc, updateTimer, crowd>>
    BY <1>2 DEF onCancel
  <2> QED BY <1>0, <2>1 DEF Wanted, Asked, GivenUp
<1>3. CASE _updateState
  <2>1. /\ timers' \subseteq timers
        /\ UNCHANGED <<pc, keep_querying, updateTimer, wanted, late, crowd>>
    BY <1>3 DEF _updateState, session
  <2> QED BY <2>1 DEF Wanted, Asked
<1>4. ASSUME NEW c \in Calls, auth_cancel(c) PROVE WInv'
  <2>1. /\ keep_querying' = FALSE /\ wanted' = c /\ GivenUp(c)
        /\ pc[c] = "called" /\ pc' = [pc EXCEPT ![c] = "wait"]
        /\ UNCHANGED <<timers, crowd>>
    BY <1>4 DEF auth_cancel, dialog, Goto
  <2> QED BY <1>0, <2>1 DEF Wanted, Asked, GivenUp
<1>5. ASSUME NEW c \in Calls, before_task(c) PROVE WInv'
  <2>1. /\ pc[c] = "before" /\ pc' = [pc EXCEPT ![c] = "auth"]
        /\ timers' = timers \cup {c} /\ updateTimer' = c
        /\ UNCHANGED <<wanted, late, crowd>>
    BY <1>5 DEF before_task, history, Goto
  <2>2. ASSUME ~crowd PROVE Wanted'
    <3>1. Asked(c) /\ \A d \in Calls : pc[d] \notin Works
      BY <2>1, <2>2 DEF Alone, Wanted
    <3>2. \A d \in Calls : pc'[d] \in {"auth", "url", "query", "asking", "login", "body"} => d = c
      BY <2>1, <3>1
    <3> QED BY <1>0, <2>1, <2>2, <3>1, <3>2 DEF Wanted, Asked
  <2> QED BY <2>1, <2>2
<1>6. ASSUME NEW c \in Calls,
             wait_stop_querying(c) \/ auth(c) \/ set_code_url(c) \/ query(c) \/ answer(c)
               \/ login_account_auth(c) \/ set_auth_body(c) \/ after_task(c)
      PROVE  WInv'
  <2>1. UNCHANGED <<keep_querying, timers, updateTimer, wanted, late, crowd>>
    BY <1>6 DEF wait_stop_querying, auth, set_code_url, query, answer, login_account_auth,
                set_auth_body, after_task, session, dialog, history
  <2>2. \/ /\ pc[c] \in {"wait", "asking", "login", "body"}
           /\ \E w \in {"before", "query", "login", "body", "after"} : pc' = [pc EXCEPT ![c] = w]
        \/ /\ pc[c] \in {"auth", "url"}
           /\ \E w \in {"url", "query", "after"} : pc' = [pc EXCEPT ![c] = w]
        \/ pc[c] = "query" /\ keep_querying /\ pc' = [pc EXCEPT ![c] = "asking"]
        \/ pc[c] \in {"query", "after"} /\ \E w \in {"after", "ended"} : pc' = [pc EXCEPT ![c] = w]
    BY <1>6 DEF wait_stop_querying, auth, set_code_url, query, answer, login_account_auth,
                set_auth_body, after_task, Goto
  <2> QED BY <2>1, <2>2 DEF Wanted, Asked
<1>7. ASSUME NEW c \in Calls, query_timeout(c) PROVE WInv'
  BY <1>7 DEF query_timeout, session, dialog, history, Wanted, Asked
<1>8. CASE UNCHANGED vars
  BY <1>8 DEF vars, session, dialog, history, Wanted, Asked
<1> QED BY <1>1, <1>2, <1>3, <1>4, <1>5, <1>6, <1>7, <1>8 DEF Next, Thread

(* A token is stored by the answer to an attempt that is asked for.         *)
LEMMA StoresWanted ==
  ASSUME AccountLoginAssumption
  PROVE  IInv /\ WInv /\ [Next]_vars =>
           [access_token' # access_token /\ ~crowd => access_token' \in {wanted} \cup late]_vars
<1> SUFFICES ASSUME IInv, WInv, Next, access_token' # access_token, ~crowd
             PROVE  access_token' \in {wanted} \cup late
  OBVIOUS
<1>1. PICK c \in Calls : answer(c)
  BY DEF Next, Thread, onTap, onCancel, _updateState, query_timeout, auth_cancel,
         wait_stop_querying, before_task, auth, set_code_url, query, login_account_auth,
         set_auth_body, after_task
<1>2. pc[c] = "asking" /\ access_token' = c
  BY <1>1 DEF answer, Goto
<1> QED BY <1>2 DEF WInv, Wanted, Asked

(* Only a poll logs in, and it is made by a timer.                          *)
LEMMA LogsWantedIn ==
  ASSUME AccountLoginAssumption
  PROVE  IInv /\ WInv /\ [Next]_vars =>
           [logged_in' # logged_in
              => wanted # None \/ late # {} \/ crowd \/ ~(timers \subseteq {updateTimer})]_vars
<1> SUFFICES ASSUME WInv, Next, logged_in' # logged_in, wanted = None, late = {}, ~crowd
             PROVE  ~(timers \subseteq {updateTimer})
  OBVIOUS
<1>1. _updateState
  BY DEF Next, Thread, onTap, onCancel, query_timeout, auth_cancel, wait_stop_querying,
         before_task, auth, set_code_url, query, answer, login_account_auth, set_auth_body,
         after_task, dialog
<1> QED BY <1>1 DEF _updateState, WInv, Wanted

(* An attempt that was cancelled or followed by another stores no token,   *)
(* and a dialog that was cancelled does not log in, with the exceptions    *)
(* that the history names.                                                 *)
THEOREM OnlyTheWanted ==
  ASSUME AccountLoginAssumption PROVE Spec => WantedOnly
<1>1. Init => IInv /\ WInv
  BY InitInv, WantedInit
<1>2. IInv /\ WInv /\ [Next]_vars => (IInv /\ WInv)'
  BY StepInv, WantedStep
<1>3. IInv /\ WInv /\ [Next]_vars =>
        [access_token' # access_token /\ ~crowd => access_token' \in {wanted} \cup late]_vars
  BY StoresWanted
<1>4. IInv /\ WInv /\ [Next]_vars =>
        [logged_in' # logged_in
           => wanted # None \/ late # {} \/ crowd \/ ~(timers \subseteq {updateTimer})]_vars
  BY LogsWantedIn
<1> QED BY <1>1, <1>2, <1>3, <1>4, PTL DEF Spec, WantedOnly, StoredIsWanted, LoginIsWanted

-----------------------------------------------------------------------------
(* What the session shows is of the attempt that has it: an attempt has no *)
(* URL until it has set one, and no answer until it has stored its token.  *)
Shows ==
  /\ \A c \in Calls : pc[c] \in {"auth", "url"} => code_url = None
  /\ \A c \in Calls : pc[c] = "url" => state_msg # "requesting"
  /\ \A c \in Calls : pc[c] \in {"auth", "url", "query", "asking", "login", "body"} => auth_body = None
  /\ \A c \in Calls : pc[c] = "body" => access_token = c
  /\ \A c \in Calls : pc[c] = "login" => access_token = c
  /\ code_url # None => state_msg # "requesting"
  /\ auth_body # None => auth_body = access_token

TInv ==
  /\ state_msg \in {"requesting", "waiting", "login"} /\ failed_msg \in BOOLEAN
  /\ {code_url, auth_body, access_token, updateTimer, url, logged_in, wanted} \subseteq Calls \cup {None}
  /\ timers \subseteq Calls /\ launched \subseteq Calls /\ late \subseteq Calls /\ timed_out \subseteq Calls
  /\ keep_querying \in BOOLEAN /\ running \in BOOLEAN /\ curOP \in BOOLEAN
  /\ crowd \in BOOLEAN /\ between \in BOOLEAN
  /\ \A c \in Calls : pc[c] # "none" <=> c <= calls
  /\ ~crowd => Shows

LEMMA TypeInit == ASSUME AccountLoginAssumption PROVE Init => TInv
<1> SUFFICES ASSUME Init PROVE TInv
  OBVIOUS
<1>1. \A c \in Calls : ~(c <= 0)
  BY DEF Calls
<1>2. /\ failed_msg \in BOOLEAN /\ keep_querying \in BOOLEAN /\ running \in BOOLEAN
      /\ curOP \in BOOLEAN /\ crowd \in BOOLEAN /\ between \in BOOLEAN
  BY DEF Init
<1>3. {code_url, auth_body, access_token, updateTimer, url, logged_in, wanted} \subseteq Calls \cup {None}
  BY DEF Init
<1>4. \A c \in Calls : pc[c] # "none" <=> c <= calls
  BY <1>1 DEF Init
<1>5. Shows
  BY DEF Init, Shows
<1> QED BY <1>2, <1>3, <1>4, <1>5 DEF Init, TInv

LEMMA TypeStep ==
  ASSUME AccountLoginAssumption PROVE IInv /\ TInv /\ [Next]_vars => TInv'
<1> SUFFICES ASSUME IInv, TInv, [Next]_vars PROVE TInv'
  OBVIOUS
<1> USE DEF AccountLoginAssumption, TInv, Begins, Works
<1>1. CASE onTap
  BY <1>1 DEF onTap, session, _resetState, Shows, IInv, Calls
<1>2. CASE onCancel
  BY <1>2 DEF onCancel, _resetState, GivenUp, Shows
<1>3. CASE _updateState
  BY <1>3 DEF _updateState, session, Shows
<1>4. ASSUME NEW c \in Calls, auth_cancel(c) PROVE TInv'
  BY <1>4 DEF auth_cancel, Goto, dialog, GivenUp, Shows, IInv
<1>5. ASSUME NEW c \in Calls, before_task(c) PROVE TInv'
  <2>1. /\ pc[c] = "before" /\ pc' = [pc EXCEPT ![c] = "auth"]
        /\ code_url' = None /\ auth_body' = None /\ state_msg' = "requesting"
        /\ failed_msg' = FALSE /\ keep_querying' = TRUE /\ running' = TRUE
        /\ timers' = timers \cup {c} /\ updateTimer' = c
        /\ UNCHANGED <<timed_out, access_token, curOP, launched, url, logged_in, calls,
                       wanted, late, crowd, between>>
    BY <1>5 DEF before_task, Goto, history
  <2>2. ASSUME ~crowd PROVE Shows'
    <3>1. \A d \in Calls : pc[d] \notin Works
      BY <2>1, <2>2 DEF Alone, IInv
    <3>2. \A d \in Calls : pc'[d] \in Works => d = c /\ pc'[d] = "auth"
      BY <2>1, <3>1 DEF IInv
    <3> QED BY <2>1, <3>2 DEF Shows
  <2>3. \A d \in Calls : pc'[d] # "none" <=> d <= calls'
    BY <2>1 DEF IInv
  <2>4. /\ failed_msg' \in BOOLEAN /\ keep_querying' \in BOOLEAN /\ running' \in BOOLEAN
        /\ curOP' \in BOOLEAN /\ crowd' \in BOOLEAN /\ between' \in BOOLEAN
    BY <2>1
  <2> QED BY <2>1, <2>2, <2>3, <2>4
<1>6. ASSUME NEW c \in Calls, auth(c) PROVE TInv'
  BY <1>6 DEF auth, Goto, set_state, dialog, history, Shows, Alone, IInv
<1>7. ASSUME NEW c \in Calls, set_code_url(c) PROVE TInv'
  BY <1>7 DEF set_code_url, Goto, dialog, history, Shows, Alone, IInv
<1>8. ASSUME NEW c \in Calls, query(c) PROVE TInv'
  <2>1. /\ pc[c] = "query" /\ \E w \in {"asking", "after"} : pc' = [pc EXCEPT ![c] = w]
        /\ \/ state_msg' = "waiting" /\ failed_msg' = TRUE
           \/ UNCHANGED <<state_msg, failed_msg>>
        /\ UNCHANGED <<code_url, auth_body, keep_querying, running, timed_out, access_token,
                       dialog, calls, history>>
    BY <1>8 DEF query, Goto, set_state
  <2>2. ASSUME ~crowd PROVE Shows'
    BY <2>1, <2>2 DEF Shows, IInv, Alone, history
  <2>3. \A d \in Calls : pc'[d] # "none" <=> d <= calls'
    BY <2>1 DEF IInv
  <2> QED BY <2>1, <2>2, <2>3 DEF dialog, history
<1>9. ASSUME NEW c \in Calls, answer(c) PROVE TInv'
  <2>1. /\ pc[c] = "asking"
        /\ \/ access_token' = c /\ pc' = [pc EXCEPT ![c] = "login"]
              /\ UNCHANGED <<state_msg, failed_msg>>
           \/ /\ UNCHANGED access_token
              /\ \E w \in {"query", "after"} : pc' = [pc EXCEPT ![c] = w]
              /\ \/ state_msg' = "waiting" /\ failed_msg' = TRUE
                 \/ UNCHANGED <<state_msg, failed_msg>>
        /\ UNCHANGED <<code_url, auth_body, keep_querying, running, timed_out, dialog, calls,
                       history>>
    BY <1>9 DEF answer, Goto, set_state
  <2>2. ASSUME ~crowd PROVE Shows'
    <3>1. auth_body = None /\ \A d \in Calls : pc[d] \in Works => d = c
      BY <2>1, <2>2 DEF Shows, IInv, Alone
    <3>2. \A d \in Calls : pc'[d] \in Works => d = c /\ pc'[d] \in {"login", "query", "after"}
      BY <2>1, <3>1 DEF IInv
    <3>3. \A d \in Calls : pc'[d] = "login" => access_token' = d
      BY <2>1, <3>2 DEF IInv
    <3> QED BY <2>1, <2>2, <3>1, <3>2, <3>3 DEF Shows, history
  <2>3. \A d \in Calls : pc'[d] # "none" <=> d <= calls'
    BY <2>1 DEF IInv
  <2> QED BY <2>1, <2>2, <2>3 DEF dialog, history
<1>10. ASSUME NEW c \in Calls, login_account_auth(c) PROVE TInv'
  BY <1>10 DEF login_account_auth, Goto, set_state, dialog, history, Shows, Alone, IInv
<1>11. ASSUME NEW c \in Calls, set_auth_body(c) PROVE TInv'
  BY <1>11 DEF set_auth_body, Goto, dialog, history, Shows, Alone, IInv
<1>12. ASSUME NEW c \in Calls, wait_stop_querying(c) \/ after_task(c) \/ query_timeout(c)
       PROVE  TInv'
  BY <1>12 DEF wait_stop_querying, after_task, query_timeout, Goto, session, dialog, history,
               Shows, IInv
<1>13. CASE UNCHANGED vars
  BY <1>13 DEF vars, session, dialog, history, Shows
<1> QED BY <1>1, <1>2, <1>3, <1>4, <1>5, <1>6, <1>7, <1>8, <1>9, <1>10, <1>11, <1>12, <1>13
        DEF Next, Thread

(* The types of the session's variables, and what of them belongs          *)
(* together.                                                               *)
THEOREM TypeCorrect ==
  ASSUME AccountLoginAssumption PROVE Spec => []TypeOK
<1>1. Init => IInv /\ TInv
  BY InitInv, TypeInit
<1>2. IInv /\ TInv /\ [Next]_vars => (IInv /\ TInv)'
  BY StepInv, TypeStep
<1>3. TInv => TypeOK
  <2> SUFFICES ASSUME TInv PROVE TypeOK
    OBVIOUS
  <2>1. {keep_querying, running, curOP, crowd, between} \subseteq BOOLEAN
    BY Zenon DEF TInv
  <2>2. /\ code_url # None => state_msg # "requesting" \/ crowd
        /\ auth_body # None => auth_body = access_token \/ crowd
    BY DEF TInv, Shows
  <2> QED BY <2>1, <2>2 DEF TInv, TypeOK
<1> QED BY <1>1, <1>2, <1>3, PTL DEF Spec

=============================================================================
