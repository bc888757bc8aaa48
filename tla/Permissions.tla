---------------------------- MODULE Permissions ----------------------------
(***************************************************************************)
(* What one connection may do and which services it is subscribed to       *)
(* (src/src/server/connection.rs), as three parties change it:             *)
(*   - the controlled side's user, on the permission board of the          *)
(*     connection manager (SwitchPermission);                              *)
(*   - the controlling side's user, whose toolbar toggles a saved option   *)
(*     and sends it (LoginConfigHandler::toggle_option); a new session     *)
(*     sends the saved ones with its login (get_option_message);           *)
(*   - a voice call, which is what gives a camera view its audio.          *)
(* The options travel in order; the permissions come from another process, *)
(* between any two of them.  A link may break, and the client logs in      *)
(* again: a new Connection, the same saved options.                        *)
(*                                                                         *)
(* This is the build with unix-file-copy-paste, where copied files are a   *)
(* service of their own.  Video services are modelled in VideoService,     *)
(* the login itself in Login.                                              *)
(***************************************************************************)
EXTENDS Naturals, Sequences

CONSTANTS
  Camera,       (* the connection views the camera (else it is remote control) *)
  WaitSid,      (* the client has to choose a Windows session first            *)
  MaxToggles,   (* bound: options toggled in a behaviour                       *)
  MaxSwitches   (* bound: permissions switched in a behaviour                  *)

(* Assumed of the constants by every module that gives them values. *)
PermissionsAssumption ==
  /\ Camera \in BOOLEAN
  /\ WaitSid \in BOOLEAN
  /\ MaxToggles \in Nat
  /\ MaxSwitches \in Nat

VARIABLES
  config,       (* PeerConfig: the options the client's user has saved         *)
  wire,         (* OptionMessages and SelectedSid on their way to the server   *)
  phase,        (* the connection: "login" (the request is on its way), "asked"
                   (the user decides), "confirm" (the client chooses a session),
                   "on" (remote control: services_subed)                       *)
  options_in_login,  (* kept from the LoginRequest until it is answered        *)
  perm,         (* keyboard, clipboard, audio, file: granted by the server     *)
  byPeer,       (* disable_keyboard, ...: what the peer's options say          *)
  subs,         (* the services the connection is subscribed to                *)
  voice_calling,(* Connection.voice_calling                                    *)
  slips,        (* history: subscriptions that were computed from less than    *)
                (* they depend on, or not computed again                       *)
  toggles, switches   (* counters for the bounds                               *)

vars == <<config, wire, phase, options_in_login, perm, byPeer, subs, voice_calling, slips,
          toggles, switches>>

Toggles == {"view_only", "show_remote_cursor", "follow_remote_window",
            "disable_clipboard", "enable_file_copy_paste", "disable_audio"}
PermNames == {"keyboard", "clipboard", "audio", "file"}
Services == {"cursor", "pos", "focus", "clipboard", "file_clipboard", "audio"}
Options == {"disable_keyboard", "disable_clipboard", "disable_audio",
            "enable_file_transfer", "show_remote_cursor", "follow_remote_window"}

(* an OptionMessage: the options that are not NotSet *)
OptionMessages == UNION {[O -> BOOLEAN] : O \in SUBSET Options}
NoOption == [o \in {} |-> TRUE]

TypeOK ==
  /\ config \in [Toggles -> BOOLEAN]
  /\ \A i \in DOMAIN wire : wire[i] \in [kind : {"login", "option", "sid"}, option : OptionMessages]
  /\ phase \in {"login", "asked", "confirm", "on"}
  /\ options_in_login \in OptionMessages
  /\ perm \in [PermNames -> BOOLEAN]
  /\ byPeer \in [Options -> BOOLEAN]
  /\ subs \subseteq Services
  /\ voice_calling \in BOOLEAN
  /\ slips \subseteq Services
  /\ toggles \in 0 .. MaxToggles
  /\ switches \in 0 .. MaxSwitches
  (* the options of the login are taken once *)
  /\ phase # "asked" => options_in_login = NoOption

-----------------------------------------------------------------------------
(* The client's side. *)

(* LoginConfigHandler::get_option_message: a view-only session overrides what
   the single options say; what is off is not mentioned. *)
get_option_message(c) ==
  LET on == {o \in Options :
               \/ o = "disable_keyboard" /\ c["view_only"]
               \/ o = "show_remote_cursor" /\ (c["view_only"] \/ c["show_remote_cursor"])
               \/ o = "follow_remote_window" /\ c["follow_remote_window"]
               \/ o = "disable_audio" /\ c["disable_audio"]
               \/ o = "enable_file_transfer" /\ ~c["view_only"] /\ c["enable_file_copy_paste"]
               \/ o = "disable_clipboard" /\ (c["view_only"] \/ c["disable_clipboard"])}
  IN [o \in on |-> TRUE]

(* Mutant: leaving the view-only mode forgets what the user had set. *)
view_only_message_reset(c) ==
  [o \in {"disable_keyboard", "disable_clipboard", "show_remote_cursor",
          "enable_file_transfer"} |->
     IF o = "enable_file_transfer" THEN ~c["view_only"] ELSE c["view_only"]]

(* LoginConfigHandler::toggle_option: the message for a toggle, given the
   options after it. *)
view_only_message(c) ==
  IF c["view_only"]
  THEN [o \in {"disable_keyboard", "disable_clipboard", "show_remote_cursor",
               "enable_file_transfer"} |-> o # "enable_file_transfer"]
  ELSE [o \in {"disable_keyboard", "disable_clipboard", "show_remote_cursor",
               "enable_file_transfer"} |->
          CASE o = "disable_keyboard" -> FALSE
            [] o = "disable_clipboard" -> c["disable_clipboard"]
            [] o = "show_remote_cursor" -> c["show_remote_cursor"]
            [] o = "enable_file_transfer" -> c["enable_file_copy_paste"]]

toggle_message(c, t) ==
  CASE t = "view_only" -> view_only_message(c)
    [] t = "enable_file_copy_paste" -> [o \in {"enable_file_transfer"} |-> c[t]]
    [] OTHER -> [o \in {t} |-> c[t]]

(* Mutant: a toolbar that does not know the view-only mode *)
toolbar_plain(t) == ~Camera /\ t \in Toggles

(* The toolbar: while the session is view-only, what that overrides cannot
   be toggled; a camera view has none of these toggles.  (It also hides what
   the server has told it is not permitted, which only leaves out toggles.) *)
toolbar(t) ==
  /\ ~Camera
  /\ t \in {"show_remote_cursor", "disable_clipboard", "enable_file_copy_paste"}
       => ~config["view_only"]

Packet(kind, option) == [kind |-> kind, option |-> option]
LoginRequest(c) == Packet("login", get_option_message(c))

-----------------------------------------------------------------------------
(* The connection's predicates. *)

peer_keyboard_enabled(p, b) == p["keyboard"] /\ ~b["disable_keyboard"]
clipboard_enabled(p, b) == p["clipboard"] /\ ~b["disable_clipboard"]
audio_enabled(p, b) == p["audio"] /\ ~b["disable_audio"]
file_transfer_enabled(p, b) == p["file"] /\ b["enable_file_transfer"]

can_sub_clipboard_service(p, b) == clipboard_enabled(p, b) /\ peer_keyboard_enabled(p, b)
can_sub_file_clipboard_service(p, b) == clipboard_enabled(p, b) /\ file_transfer_enabled(p, b)

(* What each subscription is to depend on. *)
Allowed(s, p, b) ==
  CASE s = "cursor" -> peer_keyboard_enabled(p, b) \/ b["show_remote_cursor"]
    [] s = "pos" -> b["show_remote_cursor"]
    [] s = "focus" -> b["follow_remote_window"]
    [] s = "clipboard" -> can_sub_clipboard_service(p, b)
    [] s = "file_clipboard" -> can_sub_file_clipboard_service(p, b)
    [] s = "audio" -> audio_enabled(p, b)

(* Server::subscribe of the services S, each as it is allowed *)
Resubscribed(S, p, b) == (subs \ S) \cup {s \in S : Allowed(s, p, b)}

-----------------------------------------------------------------------------
(* Connection::update_options *)

(* the services whose subscription an option computes again *)
Touches(o) ==
  CASE o = "show_remote_cursor" -> {"cursor", "pos"}
    [] o = "follow_remote_window" -> {"focus"}
    [] o = "disable_audio" -> {"audio"}
    [] o = "enable_file_transfer" -> {"file_clipboard"}
    [] o = "disable_clipboard" -> {"clipboard"}
    [] o = "disable_keyboard" -> {"clipboard", "file_clipboard", "cursor"}

(* Mutant: the camera view is not told apart. *)
AudioTouched_always(p, b) == audio_enabled(p, b) \in BOOLEAN

(* A camera view is subscribed to audio during a call only. *)
AudioTouched(p, b) == ~Camera \/ voice_calling \/ ~audio_enabled(p, b)

Merged(m) == [o \in Options |-> IF o \in DOMAIN m THEN m[o] ELSE byPeer[o]]

Touched(m) ==
  LET S == UNION {Touches(o) : o \in DOMAIN m}
  IN IF AudioTouched(perm, Merged(m)) THEN S ELSE S \ {"audio"}

(* Subscriptions that go stale: computed again are only the services S. *)
Slipped(S, p, b) ==
  IF clipboard_enabled(p, b) # clipboard_enabled(perm, byPeer) /\ "file_clipboard" \notin S
  THEN {"file_clipboard"} ELSE {}

update_options(m) ==
  /\ byPeer' = Merged(m)
  /\ subs' = Resubscribed(Touched(m), perm, Merged(m))
  /\ slips' = (slips \ Touched(m)) \cup Slipped(Touched(m), perm, Merged(m))

-----------------------------------------------------------------------------
(* Login *)

(* Connection::try_sub_monitor_services with Server::add_connection: every
   service is subscribed to but those without permission, which are left as
   they are. *)
Monitored(now, b) == now \cup {s \in Services : Allowed(s, perm, b)}

(* Mutant: the options of the login are read, not taken. *)
log_in_clone(m) ==
  LET after == Resubscribed(Touched(m), perm, Merged(m))
      now == ~Camera /\ ~WaitSid
  IN /\ byPeer' = Merged(m)
     /\ UNCHANGED options_in_login
     /\ phase' = IF WaitSid THEN "confirm" ELSE "on"
     /\ subs' = IF now THEN Monitored(after, Merged(m)) ELSE after
     /\ slips' = IF now THEN {} ELSE (slips \ Touched(m)) \cup Slipped(Touched(m), perm, Merged(m))
     /\ perm' = IF Camera THEN [perm EXCEPT !["keyboard"] = FALSE] ELSE perm

(* send_logon_response_and_keep_alive, from the options of the login on: they
   are applied first, then the services subscribed to.  A camera view loses
   the keyboard, and a file transfer is not a session of this module. *)
log_in(m) ==
  LET after == Resubscribed(Touched(m), perm, Merged(m))
      now == ~Camera /\ ~WaitSid
  IN /\ byPeer' = Merged(m)
     /\ options_in_login' = NoOption
     /\ phase' = IF WaitSid THEN "confirm" ELSE "on"
     /\ subs' = IF now THEN Monitored(after, Merged(m)) ELSE after
     /\ slips' = IF now THEN {} ELSE (slips \ Touched(m)) \cup Slipped(Touched(m), perm, Merged(m))
     /\ perm' = IF Camera THEN [perm EXCEPT !["keyboard"] = FALSE] ELSE perm

(* A LoginRequest: accepted at once (password), or the user is asked. *)
login_request ==
  /\ phase = "login"
  /\ wire # <<>> /\ Head(wire).kind = "login"
  /\ wire' = Tail(wire)
  /\ \/ log_in(Head(wire).option)
     \/ /\ phase' = "asked"
        /\ options_in_login' = Head(wire).option
        /\ UNCHANGED <<byPeer, subs, slips, perm>>
  /\ UNCHANGED <<config, voice_calling, toggles, switches>>

(* ipc::Data::Authorize *)
authorize ==
  /\ phase = "asked"
  /\ log_in(options_in_login)
  /\ UNCHANGED <<config, wire, voice_calling, toggles, switches>>

(* misc::Union::SelectedSid, of the session the server runs in *)
selected_sid ==
  /\ phase = "confirm"
  /\ wire # <<>> /\ Head(wire).kind = "sid"
  /\ wire' = Tail(wire)
  /\ phase' = "on"
  /\ IF Camera THEN UNCHANGED <<subs, slips>>
     ELSE /\ subs' = Monitored(subs, byPeer)
          /\ slips' = {s \in slips : ~Allowed(s, perm, byPeer)}
  /\ UNCHANGED <<config, options_in_login, perm, byPeer, voice_calling, toggles, switches>>

(* misc::Union::Option *)
option ==
  /\ phase \in {"confirm", "on"}
  /\ wire # <<>> /\ Head(wire).kind = "option"
  /\ wire' = Tail(wire)
  /\ update_options(Head(wire).option)
  /\ UNCHANGED <<config, phase, options_in_login, perm, voice_calling, toggles, switches>>

-----------------------------------------------------------------------------
(* ipc::Data::SwitchPermission.  The board of the connection manager is there
   from the moment the user is asked; for a camera view it has the audio only. *)

(* Mutant: the keyboard permission forgets the clipboard. *)
switch_keyboard_alone(p) ==
  LET cursor == p["keyboard"] \/ byPeer["show_remote_cursor"]
  IN /\ subs' = IF cursor THEN subs \cup {"cursor"} ELSE subs \ {"cursor"}
     /\ slips' = (slips \ {"cursor"}) \cup
                 (IF cursor # Allowed("cursor", p, byPeer) THEN {"cursor"} ELSE {})

switch_keyboard(p) ==
  LET cursor == p["keyboard"] \/ byPeer["show_remote_cursor"]
      others == Resubscribed({"clipboard", "file_clipboard"}, p, byPeer)
  IN /\ subs' = IF cursor THEN others \cup {"cursor"} ELSE others \ {"cursor"}
     /\ slips' = (slips \ {"clipboard", "file_clipboard", "cursor"}) \cup
                 (IF cursor # Allowed("cursor", p, byPeer) THEN {"cursor"} ELSE {})

switch_clipboard(p) ==
  /\ subs' = Resubscribed({"clipboard"}, p, byPeer)
  /\ slips' = (slips \ {"clipboard"}) \cup Slipped({"clipboard"}, p, byPeer)

switch_audio(p) ==
  LET T == IF phase # "asked" /\ AudioTouched(p, byPeer) THEN {"audio"} ELSE {}
  IN subs' = Resubscribed(T, p, byPeer) /\ slips' = slips \ T

switch_file(p) ==
  /\ subs' = Resubscribed({"file_clipboard"}, p, byPeer)
  /\ slips' = slips \ {"file_clipboard"}

switch_permission(name) ==
  LET p == [perm EXCEPT ![name] = ~@]
  IN /\ phase # "login"
     /\ Camera => name = "audio"
     /\ switches < MaxSwitches
     /\ switches' = switches + 1
     /\ perm' = p
     /\ CASE name = "keyboard" -> switch_keyboard(p)
          [] name = "clipboard" -> switch_clipboard(p)
          [] name = "audio" -> switch_audio(p)
          [] name = "file" -> switch_file(p)
     /\ UNCHANGED <<config, wire, phase, options_in_login, byPeer, voice_calling, toggles>>

-----------------------------------------------------------------------------
(* Voice calls, as far as they decide about a camera view's audio *)

(* Connection::handle_voice_call, of a request that waits for the answer *)
handle_voice_call(accepted) ==
  /\ Camera /\ phase = "on" /\ ~voice_calling
  /\ voice_calling' = accepted
  /\ subs' = IF accepted /\ audio_enabled(perm, byPeer)
             THEN subs \cup {"audio"} ELSE subs \ {"audio"}
  /\ UNCHANGED <<config, wire, phase, options_in_login, perm, byPeer, slips, toggles, switches>>

(* Connection::close_voice_call *)
close_voice_call ==
  /\ Camera /\ phase = "on" /\ voice_calling
  /\ voice_calling' = FALSE
  /\ subs' = subs \ {"audio"}
  /\ UNCHANGED <<config, wire, phase, options_in_login, perm, byPeer, slips, toggles, switches>>

-----------------------------------------------------------------------------
(* The client *)

(* toggle_option: saved, and sent if there is a session *)
toggle(t) ==
  LET c == [config EXCEPT ![t] = ~@]
  IN /\ toolbar(t)
     /\ phase \in {"confirm", "on"}
     /\ toggles < MaxToggles
     /\ toggles' = toggles + 1
     /\ config' = c
     /\ wire' = Append(wire, Packet("option", toggle_message(c, t)))
     /\ UNCHANGED <<phase, options_in_login, perm, byPeer, subs, voice_calling, slips, switches>>

(* the user picks the session the server runs in *)
choose_sid ==
  /\ phase = "confirm"
  /\ \A i \in DOMAIN wire : wire[i].kind # "sid"
  /\ wire' = Append(wire, Packet("sid", NoOption))
  /\ UNCHANGED <<config, phase, options_in_login, perm, byPeer, subs, voice_calling, slips,
                 toggles, switches>>

(* The link breaks: remove_connection, and what was on its way is lost.  The
   client connects again, and the server's user may have changed the defaults
   (Connection::permission) meanwhile. *)
reconnect ==
  /\ phase # "login"
  /\ toggles < MaxToggles
  /\ toggles' = toggles + 1
  /\ phase' = "login"
  /\ wire' = <<LoginRequest(config)>>
  /\ options_in_login' = NoOption
  /\ perm' \in [PermNames -> BOOLEAN]
  /\ byPeer' = [o \in Options |-> FALSE]
  /\ subs' = {}
  /\ slips' = {}
  /\ voice_calling' = FALSE
  /\ UNCHANGED <<config, switches>>

-----------------------------------------------------------------------------
Init ==
  /\ config \in [Toggles -> BOOLEAN]
  /\ wire = <<LoginRequest(config)>>
  /\ phase = "login"
  /\ options_in_login = NoOption
  /\ perm \in [PermNames -> BOOLEAN]
  /\ byPeer = [o \in Options |-> FALSE]
  /\ subs = {}
  /\ voice_calling = FALSE
  /\ slips = {}
  /\ toggles = 0
  /\ switches = 0

Next ==
  \/ login_request
  \/ authorize
  \/ selected_sid
  \/ option
  \/ \E name \in PermNames : switch_permission(name)
  \/ \E accepted \in BOOLEAN : handle_voice_call(accepted)
  \/ close_voice_call
  \/ \E t \in Toggles : toggle(t)
  \/ choose_sid
  \/ reconnect

Spec == Init /\ [][Next]_vars

-----------------------------------------------------------------------------
(* In a remote control session the connection is subscribed to exactly the
   services its permissions and the peer's options allow, whatever the order
   of logins, toggles and switches.  Two places of the code are excepted, by
   name: the switch of the keyboard permission does not look at
   disable_keyboard for the cursor, and a change of the clipboard permission
   or option leaves the copied files' subscription as it was. *)
SubscribedAsAllowed ==
  phase = "on" /\ ~Camera =>
    \A s \in Services \ slips : s \in subs <=> Allowed(s, perm, byPeer)

(* What the server holds of the peer's options is what a fresh login would
   say, once everything sent has arrived: the messages that toggle_option
   sends add up to get_option_message, in and out of the view-only mode. *)
OptionsInSync ==
  phase = "on" /\ wire = <<>> =>
    byPeer = [o \in Options |-> o \in DOMAIN get_option_message(config)]

(* A view-only session is sent no clipboard and no copied files, whatever the
   server's user switches, and shows the remote cursor. *)
ViewOnlyIsQuiet ==
  phase = "on" /\ wire = <<>> /\ ~Camera /\ config["view_only"] =>
    /\ subs \cap {"clipboard", "file_clipboard"} = {}
    /\ {"cursor", "pos"} \subseteq subs

(* A camera view hears the controlled side during a voice call, while audio
   is permitted and not muted, and at no other time. *)
CameraAudio ==
  Camera => ("audio" \in subs <=> voice_calling /\ audio_enabled(perm, byPeer))

=============================================================================
