------------------------------- MODULE Login -------------------------------
(***************************************************************************)
(* How a client gets into the controlled side, and in again after its link *)
(* broke: src/src/server/connection.rs and, of the client, src/src/client.rs.*)
(* One client window, "main", is a remote control session; a second one,   *)
(* "extra", is a file transfer or tunnel opened from its menu, with the    *)
(* same session key and password (ConnToken).                              *)
(*                                                                         *)
(* The temporary password changes whenever an authorized connection ends,  *)
(* so what lets a client in again is the entry of SESSIONS: the password   *)
(* it once presented, and whether it gave a 2FA code.  The entry is shared *)
(* by the windows, kept alive by a clock that the connection took from it  *)
(* when it was authorized, and dropped by whichever connection next looks. *)
(*                                                                         *)
(* Passwords are numbers: 0 is none, 1 .. MaxTemp the temporary ones in    *)
(* the order they are generated, Permanent the permanent one.              *)
(* Not modelled here: the failure counters, switched sides, Windows        *)
(* sessions, and logins refused for other reasons than the password.       *)
(***************************************************************************)
EXTENDS Naturals, Sequences

CONSTANTS
  ApproveMode,        (* "both", "password" or "click"                        *)
  TemporaryEnabled,   (* password::temporary_enabled                          *)
  PermanentEnabled,   (* password::permanent_enabled, and one is set          *)
  TwoFactor,          (* a 2FA secret is configured                           *)
  MaxTemp,            (* bound: temporary passwords generated                 *)
  MaxEvents           (* bound: broken links, closed windows, lapsed sessions *)

ASSUME LoginAssumption ==
  /\ ApproveMode \in {"both", "password", "click"}
  /\ TemporaryEnabled \in BOOLEAN /\ PermanentEnabled \in BOOLEAN
  /\ TwoFactor \in BOOLEAN
  /\ MaxTemp \in Nat \ {0} /\ MaxEvents \in Nat

Windows == {"main", "extra"}
Permanent == MaxTemp + 1
Passwords == 0 .. Permanent

VARIABLES
  temp,       (* TEMPORARY_PASSWORD                                            *)
  session,    (* SESSIONS[session_key]: random_password, tfa and the identity
                 of last_recv_time; id 0 is no entry                           *)
  ids,        (* last_recv_times allocated so far                              *)
  trusted,    (* the client's device is a trusted device                       *)
  srv,        (* the connection of a window: "none", "open" or "authorized"    *)
  require_2fa,(* Connection.require_2fa is Some                                *)
  asked,      (* try_start_cm: the connection manager shows the connection     *)
  clock,      (* Connection.session_last_recv_time: the id of it, 0 is None    *)
  ghost,      (* a main connection whose link broke is still authorized here   *)
  cli,        (* a window: "off", "wait", "password" (asked for it), "2fa", "on",
                 "broken" (will connect again), "closed" (main, for good)      *)
  password,   (* LoginConfigHandler.password of a window                       *)
  saved,      (* the password in the PeerConfig                                *)
  up, down,   (* messages between a window and its connection                  *)
  shown,      (* history: the password by which this client has proved itself,
                 since it last closed main or its session lapsed               *)
  coded,      (* history: a 2FA code was given after that                      *)
  vouched,    (* history: the window's password was valid, or it was shown     *)
  kept,       (* history: main got in with its password, and what lets it in
                 again has neither lapsed nor been removed                     *)
  events      (* counter for the bound                                         *)

server == <<temp, session, ids, trusted, srv, require_2fa, asked, clock, ghost>>
client == <<cli, password, saved>>
history == <<shown, coded, vouched, kept>>
vars == <<server, client, up, down, history, events>>

NoSession == [random_password |-> 0, tfa |-> FALSE, id |-> 0]
MaxIds == 2 * MaxEvents + 2

TypeOK ==
  /\ temp \in 1 .. MaxTemp
  /\ session \in [random_password : Passwords, tfa : BOOLEAN, id : 0 .. MaxIds]
  /\ ids \in 0 .. MaxIds
  /\ trusted \in BOOLEAN /\ ghost \in BOOLEAN
  /\ srv \in [Windows -> {"none", "open", "authorized"}]
  /\ require_2fa \in [Windows -> BOOLEAN]
  /\ asked \in [Windows -> BOOLEAN]
  /\ clock \in [Windows -> 0 .. MaxIds]
  /\ cli \in [Windows -> {"off", "wait", "password", "2fa", "on", "broken", "closed"}]
  /\ password \in [Windows -> Passwords]
  /\ saved \in Passwords
  /\ shown \in Passwords
  /\ vouched \in [Windows -> BOOLEAN]
  /\ coded \in BOOLEAN /\ kept \in BOOLEAN
  /\ events \in 0 .. MaxEvents
  (* an entry has a password or a code, and a connection its entry's clock *)
  /\ session.id = 0 <=> session = NoSession
  /\ session.id # 0 => session.random_password # 0 \/ session.tfa
  /\ \A w \in Windows : srv[w] # "authorized" => clock[w] = 0

-----------------------------------------------------------------------------
(* SESSIONS *)

(* Mutant: the code given for an earlier password counts on. *)
update_or_insert_session_keeps_tfa(pw) ==
  IF session.id # 0
  THEN [session EXCEPT !.random_password = pw]
  ELSE [random_password |-> pw, tfa |-> FALSE, id |-> ids + 1]

(* AuthedConnID::update_or_insert_session(key, Some(pw), Some(false)) *)
update_or_insert_session(pw) ==
  [random_password |-> pw, tfa |-> FALSE, id |-> IF session.id # 0 THEN session.id ELSE ids + 1]

(* AuthedConnID::set_session_2fa *)
set_session_2fa ==
  IF session.id # 0
  THEN [session EXCEPT !.tfa = TRUE]
  ELSE [random_password |-> 0, tfa |-> TRUE, id |-> ids + 1]

(* Mutant: any window's end removes the session. *)
check_remove_session_always(w) == w \in Windows

(* AuthedConnID::check_remove_session, called while the closing connection is
   still in AUTHED_CONNS: the session goes with the remote connection, and
   with another one unless a remote connection is there. *)
check_remove_session(w) ==
  \/ w = "main" /\ srv["main"] = "authorized"
  \/ ~ghost /\ ~(w # "main" /\ srv["main"] = "authorized")

allocated(s) == ids' = IF s.id > ids THEN s.id ELSE ids

-----------------------------------------------------------------------------
(* The connection *)

has_valid_password == TemporaryEnabled \/ PermanentEnabled

Accepted(w) == [kind |-> "peer_info", pw |-> 0]
Error(kind) == [kind |-> kind, pw |-> 0]

(* Connection::send_logon_response_and_keep_alive, of a request that brought
   the password pw, with s the session by now *)
send_logon_response(w, pw, needs, s) ==
  IF needs /\ ~(s.tfa /\ pw # 0)
  THEN /\ down' = [down EXCEPT ![w] = Append(@, Error("require_2fa"))]
       /\ UNCHANGED <<srv, clock>>
  ELSE /\ srv' = [srv EXCEPT ![w] = "authorized"]
       /\ clock' = [clock EXCEPT ![w] = s.id]
       /\ down' = [down EXCEPT ![w] = Append(@, Accepted(w))]

(* is_recent_session(false) *)
is_recent_session(pw) == pw # 0 /\ pw = session.random_password

(* by click only, or nothing else is left: the user is asked *)
only_click == ApproveMode = "click" \/ (ApproveMode = "both" /\ ~has_valid_password)

Popped(w) == /\ up[w] # <<>> /\ up' = [up EXCEPT ![w] = Tail(@)]

(* Mutant: the answer alone; nobody is asked. *)
ask_nobody(w, answer) ==
  /\ down' = [down EXCEPT ![w] = @ \o answer]
  /\ UNCHANGED <<asked, srv, clock, session, ids, history>>

(* try_start_cm, unauthorized, and the answer to the window *)
ask(w, answer) ==
  /\ asked' = [asked EXCEPT ![w] = TRUE]
  /\ down' = [down EXCEPT ![w] = @ \o answer]
  /\ UNCHANGED <<srv, clock, session, ids, history>>

in_with_password(w) == kept \/ (w = "main" /\ srv'[w] = "authorized")

(* the password is one of those that are valid now *)
validate(w, pw) ==
  \/ /\ is_recent_session(pw)
     /\ send_logon_response(w, pw, require_2fa'[w], session)
     /\ vouched' = [vouched EXCEPT ![w] = shown # 0]
     /\ kept' = in_with_password(w)
     /\ UNCHANGED <<session, ids, asked, shown, coded>>
  \/ /\ ~is_recent_session(pw)
     /\ TemporaryEnabled /\ pw = temp
     /\ session' = update_or_insert_session(pw)
     /\ allocated(session')
     /\ send_logon_response(w, pw, require_2fa'[w], session')
     /\ shown' = pw
     /\ coded' = FALSE
     /\ vouched' = [vouched EXCEPT ![w] = TRUE]
     (* the entry has another password now: that of this window *)
     /\ kept' = (w = "main" /\ srv'[w] = "authorized")
     /\ UNCHANGED asked
  \/ /\ ~is_recent_session(pw)
     /\ PermanentEnabled /\ pw = Permanent
     /\ send_logon_response(w, pw, require_2fa'[w], session)
     /\ shown' = pw
     /\ vouched' = [vouched EXCEPT ![w] = TRUE]
     /\ kept' = in_with_password(w)
     /\ UNCHANGED <<session, ids, asked, coded>>
  \/ /\ ~is_recent_session(pw)
     /\ ~(TemporaryEnabled /\ pw = temp) /\ ~(PermanentEnabled /\ pw = Permanent)
     /\ ask(w, <<Error("wrong")>>)

(* message::Union::LoginRequest *)
login_request(w) ==
  LET m == Head(up[w]) IN
  /\ Popped(w) /\ m.kind = "login"
  /\ IF srv[w] = "authorized"
     THEN UNCHANGED <<srv, clock, session, ids, asked, down, history, require_2fa>>
     ELSE /\ require_2fa' = [require_2fa EXCEPT ![w] = @ /\ ~trusted]
          /\ CASE only_click -> ask(w, <<Error("no_password_access")>>)
               [] ~only_click /\ m.pw = 0 -> ask(w, <<>>)
               [] OTHER -> validate(w, m.pw)
  /\ UNCHANGED <<temp, trusted, ghost, client, events>>

(* Mutant: a wrong code is not answered. *)
auth_2fa_silent(w) ==
  LET m == Head(up[w]) IN
  /\ Popped(w) /\ m.kind \in {"code", "code_and_trust", "wrong_code"}
  /\ IF srv[w] = "open" /\ require_2fa[w] /\ m.kind # "wrong_code"
     THEN /\ require_2fa' = [require_2fa EXCEPT ![w] = FALSE]
          /\ session' = set_session_2fa
          /\ allocated(session')
          /\ send_logon_response(w, m.pw, FALSE, session')
          /\ trusted' = (trusted \/ m.kind = "code_and_trust")
          /\ coded' = TRUE
          /\ kept' = (kept \/ (w = "main" /\ m.pw \in {Permanent, session'.random_password}))
     ELSE UNCHANGED <<require_2fa, session, ids, srv, clock, trusted, down, coded, kept>>
  /\ UNCHANGED <<temp, asked, ghost, client, shown, vouched, events>>

(* message::Union::Auth2fa: ignored unless a code is required.  The password
   of the last request is that of the window. *)
auth_2fa(w) ==
  LET m == Head(up[w]) IN
  /\ Popped(w) /\ m.kind \in {"code", "code_and_trust", "wrong_code"}
  /\ CASE srv[w] = "open" /\ require_2fa[w] /\ m.kind # "wrong_code" ->
            /\ require_2fa' = [require_2fa EXCEPT ![w] = FALSE]
            /\ session' = set_session_2fa
            /\ allocated(session')
            /\ send_logon_response(w, m.pw, FALSE, session')
            /\ trusted' = (trusted \/ m.kind = "code_and_trust")
            /\ coded' = TRUE
            (* unless the entry of the password lapsed while the user typed *)
            /\ kept' = (kept \/ (w = "main" /\ m.pw \in {Permanent, session'.random_password}))
       [] srv[w] = "open" /\ require_2fa[w] /\ m.kind = "wrong_code" ->
            /\ down' = [down EXCEPT ![w] = Append(@, Error("require_2fa"))]
            /\ UNCHANGED <<require_2fa, session, ids, srv, clock, trusted, coded, kept>>
       [] OTHER -> UNCHANGED <<require_2fa, session, ids, srv, clock, trusted, down, coded, kept>>
  /\ UNCHANGED <<temp, asked, ghost, client, shown, vouched, events>>

(* ipc::Data::Authorize, a button that is not there if only a password will do *)
authorize(w) ==
  /\ asked[w] /\ srv[w] = "open"
  /\ ApproveMode # "password"
  /\ require_2fa' = [require_2fa EXCEPT ![w] = FALSE]
  /\ send_logon_response(w, 0, FALSE, session)
  /\ kept' = (kept /\ w # "main")
  /\ UNCHANGED <<temp, session, ids, trusted, asked, ghost, client, up, shown, coded, vouched, events>>

(* Mutant: the clock is left. *)
ended_with_clock(w) ==
  /\ srv' = [srv EXCEPT ![w] = "none"]
  /\ UNCHANGED clock
  /\ asked' = [asked EXCEPT ![w] = FALSE]
  /\ require_2fa' = [require_2fa EXCEPT ![w] = FALSE]
  /\ vouched' = [vouched EXCEPT ![w] = FALSE]
  /\ up' = [up EXCEPT ![w] = <<>>]
  /\ temp' = IF srv[w] = "authorized" /\ temp < MaxTemp THEN temp + 1 ELSE temp

(* The connection w ends, if it is there; the temporary password changes with
   an authorized one. *)
ended(w) ==
  /\ srv' = [srv EXCEPT ![w] = "none"]
  /\ clock' = [clock EXCEPT ![w] = 0]
  /\ asked' = [asked EXCEPT ![w] = FALSE]
  /\ require_2fa' = [require_2fa EXCEPT ![w] = FALSE]
  /\ vouched' = [vouched EXCEPT ![w] = FALSE]
  /\ up' = [up EXCEPT ![w] = <<>>]
  /\ temp' = IF srv[w] = "authorized" /\ temp < MaxTemp THEN temp + 1 ELSE temp

(* The session is removed on purpose: proofs are void when the remote
   connection is closed for good, and when no other one is there. *)
removed(w) ==
  LET void == (w = "main" /\ srv[w] = "authorized") \/ (srv["main"] # "authorized" /\ ~ghost)
  IN /\ session' = IF check_remove_session(w) THEN NoSession ELSE session
     /\ shown' = IF void THEN 0 ELSE shown
     /\ coded' = (coded /\ ~void)
     /\ kept' = (kept /\ ~void)

(* ipc::Data::Close: the user of the controlled side ends a connection, and
   the client is told not to try again. *)
close_by_cm(w) ==
  /\ asked[w] \/ srv[w] = "authorized"
  /\ events < MaxEvents /\ events' = events + 1
  /\ down' = [down EXCEPT ![w] = Append(@, Error("closed"))]
  /\ removed(w)
  /\ ended(w)
  /\ UNCHANGED <<ids, trusted, ghost, client>>

(* A broken link is noticed by the controlled side later (30 s of silence). *)
ghost_ends ==
  /\ ghost
  /\ ghost' = FALSE
  /\ temp' = IF temp < MaxTemp THEN temp + 1 ELSE temp
  /\ UNCHANGED <<session, ids, trusted, srv, require_2fa, asked, clock, client, up, down, history,
                 events>>

(* Another client's connection ends, or the user renews the password. *)
update_temporary_password ==
  /\ temp < MaxTemp
  /\ temp' = temp + 1
  /\ UNCHANGED <<session, ids, trusted, srv, require_2fa, asked, clock, ghost, client, up, down,
                 history, events>>

(* Any login drops the sessions whose clock has stood still for
   SESSION_TIMEOUT; an authorized connection moves the clock it holds. *)
session_lapses ==
  /\ session.id # 0
  /\ \A w \in Windows : clock[w] # session.id
  /\ events < MaxEvents /\ events' = events + 1
  /\ session' = NoSession
  /\ shown' = 0 /\ coded' = FALSE /\ kept' = FALSE
  /\ UNCHANGED vouched
  /\ UNCHANGED <<temp, ids, trusted, srv, require_2fa, asked, clock, ghost, client, up, down>>

-----------------------------------------------------------------------------
(* The client *)

Login(pw) == [kind |-> "login", pw |-> pw]

(* what is sent to a connection that is closed is lost *)
Sent(w, m) == IF srv[w] = "none" THEN up ELSE [up EXCEPT ![w] = Append(@, m)]

(* A window is opened, or connects again: handle_hash logs in with the last
   password, else the saved one, else with none and asks for it. *)
connect(w) ==
  LET pw == IF password[w] # 0 THEN password[w] ELSE saved
  IN /\ cli[w] \in {"off", "broken"} /\ srv[w] = "none"
     /\ w = "extra" => cli["main"] = "on" \/ cli[w] = "broken"
     /\ LET pw2 == IF w = "extra" /\ cli[w] = "off" THEN password["main"] ELSE pw
        IN /\ password' = [password EXCEPT ![w] = pw2]
           /\ cli' = [cli EXCEPT ![w] = IF pw2 = 0 THEN "password" ELSE "wait"]
           /\ up' = [up EXCEPT ![w] = <<Login(pw2)>>]
     /\ down' = [down EXCEPT ![w] = <<>>]
     /\ srv' = [srv EXCEPT ![w] = "open"]
     /\ require_2fa' = [require_2fa EXCEPT ![w] = TwoFactor]
     /\ UNCHANGED <<temp, session, ids, trusted, asked, clock, ghost, saved, history, events>>

(* handle_login_from_ui: a password is typed that is or was right *)
login_from_ui(w) ==
  /\ cli[w] = "password"
  /\ \E pw \in {temp, Permanent} :
       /\ password' = [password EXCEPT ![w] = pw]
       /\ up' = Sent(w, Login(pw))
  /\ cli' = [cli EXCEPT ![w] = "wait"]
  /\ UNCHANGED <<server, saved, down, history, events>>

(* Session::send2fa *)
send2fa(w) ==
  /\ cli[w] = "2fa"
  /\ \E kind \in {"code", "code_and_trust", "wrong_code"} :
       up' = Sent(w, [kind |-> kind, pw |-> password[w]])
  /\ cli' = [cli EXCEPT ![w] = "wait"]
  /\ UNCHANGED <<server, password, saved, down, history, events>>

(* handle_login_error, and the close reason that is not retried: but the user
   may press Retry *)
handle_login_error(w, m) ==
  CASE m.kind = "wrong" ->
         /\ cli' = [cli EXCEPT ![w] = "password"]
         /\ password' = [password EXCEPT ![w] = 0]
    [] m.kind = "require_2fa" -> cli' = [cli EXCEPT ![w] = "2fa"] /\ UNCHANGED password
    [] m.kind = "no_password_access" -> UNCHANGED <<cli, password>>
    [] m.kind = "closed" -> cli' = [cli EXCEPT ![w] = "broken"] /\ UNCHANGED password

(* the next message of the connection; with the peer info the password is
   saved, if it is to be remembered *)
receive(w) ==
  LET m == Head(down[w]) IN
  /\ down[w] # <<>> /\ cli[w] \notin {"off", "broken", "closed"}
  /\ down' = [down EXCEPT ![w] = Tail(@)]
  /\ IF m.kind = "peer_info"
     THEN /\ cli' = [cli EXCEPT ![w] = "on"]
          /\ \E remember \in BOOLEAN :
               saved' = IF w = "extra" THEN saved ELSE IF remember THEN password[w] ELSE 0
          /\ UNCHANGED password
     ELSE handle_login_error(w, m) /\ UNCHANGED saved
  /\ UNCHANGED <<server, up, history, events>>

(* The user closes the window: the close reason is sent, and arrives.  A new
   remote control window has a session key of its own. *)
close(w) ==
  /\ cli[w] \notin {"off", "closed"} /\ srv[w] # "none"
  /\ events < MaxEvents /\ events' = events + 1
  /\ removed(w)
  /\ ended(w)
  /\ down' = [down EXCEPT ![w] = <<>>]
  /\ cli' = [cli EXCEPT ![w] = IF w = "main" THEN "closed" ELSE "off"]
  /\ password' = [password EXCEPT ![w] = 0]
  /\ UNCHANGED <<ids, trusted, ghost, saved>>

(* The link breaks.  The client will connect again, with what it has; the
   controlled side may notice at once or not. *)
link_breaks(w) ==
  /\ cli[w] \notin {"off", "closed"} /\ srv[w] # "none"
  /\ events < MaxEvents /\ events' = events + 1
  /\ cli' = [cli EXCEPT ![w] = "broken"]
  /\ down' = [down EXCEPT ![w] = <<>>]
  /\ \/ /\ ended(w) /\ UNCHANGED ghost
     \/ /\ w = "main" /\ srv[w] = "authorized" /\ ~ghost
        /\ ghost' = TRUE
        /\ srv' = [srv EXCEPT ![w] = "none"]
        /\ clock' = [clock EXCEPT ![w] = 0]
        /\ asked' = [asked EXCEPT ![w] = FALSE]
        /\ require_2fa' = [require_2fa EXCEPT ![w] = FALSE]
        /\ vouched' = [vouched EXCEPT ![w] = FALSE]
        /\ up' = [up EXCEPT ![w] = <<>>]
        /\ UNCHANGED temp
  /\ UNCHANGED <<session, ids, trusted, password, saved, shown, coded, kept>>

-----------------------------------------------------------------------------
Init ==
  /\ temp = 1 /\ session = NoSession /\ ids = 0 /\ trusted = FALSE /\ ghost = FALSE
  /\ srv = [w \in Windows |-> "none"]
  /\ require_2fa = [w \in Windows |-> FALSE]
  /\ asked = [w \in Windows |-> FALSE]
  /\ clock = [w \in Windows |-> 0]
  /\ cli = [w \in Windows |-> "off"]
  /\ password = [w \in Windows |-> 0]
  /\ saved \in {0, 1, Permanent}
  /\ up = [w \in Windows |-> <<>>] /\ down = [w \in Windows |-> <<>>]
  /\ vouched = [w \in Windows |-> FALSE]
  /\ shown = 0 /\ coded = FALSE /\ kept = FALSE
  /\ events = 0

Next ==
  \/ ghost_ends
  \/ update_temporary_password
  \/ session_lapses
  \/ \E w \in Windows :
       \/ login_request(w)
       \/ auth_2fa(w)
       \/ authorize(w)
       \/ close_by_cm(w)
       \/ connect(w)
       \/ login_from_ui(w)
       \/ send2fa(w)
       \/ receive(w)
       \/ close(w)
       \/ link_breaks(w)

Spec == Init /\ [][Next]_vars

-----------------------------------------------------------------------------
(* A main window whose link broke gets in again with what it has, without its
   user and without the user of the controlled side, whatever became of the
   temporary password meanwhile: the session holds its password, and its code
   where one is required.  Excepted are an authorization by a click, a
   session that lapsed, one that the extra window took with it while no
   remote connection was there, and one in which the extra window put a newer
   temporary password. *)
ReconnectWorks ==
  cli["main"] = "broken" /\ kept =>
    /\ password["main"] \in {Permanent, session.random_password}
    /\ TwoFactor => trusted \/ session.tfa

(* Whoever gets in without a click has proved, since the session began, that
   it knows a password valid at that time, and has given a code after that
   where one is required: a session that was closed or has lapsed lets no
   window in again, and an old code does not go with a new password. *)
AuthorizedIsProved ==
  [][\A w \in Windows :
       srv[w] = "open" /\ srv'[w] = "authorized" /\ up'[w] # up[w] =>
         /\ vouched'[w]
         /\ TwoFactor => coded' \/ trusted']_vars

(* No login is left hanging: while a connection is open, an answer is on its
   way to the window, or a message of the window to it, or the window asks its
   user, or the controlled side asks its own. *)
NobodyWaitsForNothing ==
  \A w \in Windows :
    srv[w] # "none" /\ cli[w] = "wait" => up[w] # <<>> \/ down[w] # <<>> \/ asked[w]

(* Both: a window gets in with what it has, and none waits for nothing. *)
WindowsGetIn == ReconnectWorks /\ NobodyWaitsForNothing

=============================================================================
