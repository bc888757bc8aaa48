------------------------------- MODULE VideoQoS -------------------------------
(***************************************************************************)
(* The frame rate of the host: src/src/server/video_qos.rs, as connections *)
(* (the TestDelay of src/src/server/connection.rs) and the video service   *)
(* (check_qos in src/src/server/video_service.rs) drive it.                *)
(*                                                                         *)
(* Every second a connection sends TestDelay to its client, unless one is  *)
(* unanswered.  The delays of the answers set the fps of that user, from   *)
(* the fps of all: the smallest of the users'.  Delays are in milliseconds *)
(* and computed as in the code, divisions included.  The bitrate ratio is  *)
(* not in this module.                                                     *)
(***************************************************************************)
EXTENDS Integers, FiniteSets, SequencesExt

CONSTANTS
  Conns,           (* connections                                          *)
  Delays,          (* the round trips a network may have; 0 means it stalls*)
  MIN_FPS, MAX_FPS, FPS, INIT_FPS,
  MIN_SAMPLES, WINDOW_SAMPLES,   (* of the RttCalculator                   *)
  Customs,         (* the rates a user may ask for                         *)
  Qualities,       (* the qualities a user may ask for                     *)
  Ordered,         (* the answers of a second come in the order of Conns   *)
  MaxChanges,      (* bound: changes of a network                          *)
  MaxOptions,      (* bound: options set by users                          *)
  MaxOpens         (* bound: connections opened                            *)

HISTORY_DELAY_LEN == 2
DELAY_THRESHOLD_150MS == 150

(* Assumed of the constants by every module that gives them values. *)
VideoQoSAssumption ==
  /\ Conns \subseteq Nat /\ Ordered \in BOOLEAN
  /\ Delays \subseteq Nat /\ Delays # {}
  /\ {MIN_FPS, MAX_FPS, FPS, INIT_FPS, MIN_SAMPLES, WINDOW_SAMPLES} \subseteq Nat \ {0}
  /\ MIN_FPS <= INIT_FPS /\ INIT_FPS <= FPS /\ FPS <= MAX_FPS
  /\ Customs \subseteq MIN_FPS .. MAX_FPS
  /\ Qualities \subseteq {"best", "balanced", "low"}
  /\ {MaxChanges, MaxOptions, MaxOpens} \subseteq Nat

VARIABLES
  fps,     (* VideoQoS.fps                                                 *)
  users,   (* VideoQoS.users: a UserData for the connections that are open *)
  fresh,   (* new_user_instant is less than a second ago                   *)
  net,     (* the round trip of the network of a connection                *)
  asked,   (* seconds since the TestDelay that is unanswered, -1 if none   *)
  due,     (* the connections whose timer ticks in this second             *)
  changes, options, opens    (* what is used of the bounds                 *)

network == <<net, changes>>
vars == <<fps, users, fresh, net, asked, due, changes, options, opens>>

NoUser == [fps |-> -1]
Open == {c \in Conns : users[c] # NoUser}

(* UserData::default()                                                      *)
NewUser ==
  [fps |-> 0, delayed |-> FALSE, samples |-> <<>>, min_rtt |-> 0, smoothed |-> 0,
   quick |-> 0, increase |-> 0, custom |-> FPS, quality |-> <<0, "balanced">>]

Init ==
  /\ fps = FPS /\ users = [c \in Conns |-> NoUser] /\ fresh = FALSE
  /\ net \in [Conns -> Delays] /\ asked = [c \in Conns |-> -1] /\ due = {}
  /\ changes = 0 /\ options = 0 /\ opens = 0

Least(S) == CHOOSE n \in S : \A m \in S : n <= m
Smaller(a, b) == IF a < b THEN a ELSE b
Larger(a, b) == IF a < b THEN b ELSE a
Clamp(n, lo, hi) == Smaller(Larger(n, lo), hi)
CeilDiv(a, b) == (a + b - 1) \div b

-----------------------------------------------------------------------------
(* UserDelay and RttCalculator.  The history of delays is the end of the    *)
(* samples: it is cut when it is longer than HISTORY_DELAY_LEN.             *)
delay_history(u) ==
  SubSeq(u.samples, Larger(1, Len(u.samples) - HISTORY_DELAY_LEN), Len(u.samples))

get_rtt(u) ==
  IF u.smoothed # 0 THEN u.smoothed
  ELSE IF Len(u.samples) >= MIN_SAMPLES THEN u.min_rtt ELSE 0

add_delay(u, d) ==
  LET kept == IF Len(u.samples) >= WINDOW_SAMPLES THEN Tail(u.samples) ELSE u.samples
      samples == Append(kept, d)
      least == IF u.min_rtt = 0 \/ d < u.min_rtt THEN d ELSE u.min_rtt
  IN [u EXCEPT !.samples = samples, !.min_rtt = least,
        !.smoothed = IF Len(samples) >= WINDOW_SAMPLES
                     THEN (least + Least(ToSet(samples))) \div 2 ELSE @]

(* The sum of the history, which has three delays at most.                  *)
Total(h) ==
  LET nth(i) == IF i \in DOMAIN h THEN h[i] ELSE 0
  IN nth(1) + nth(2) + nth(3)

avg_delay(u) ==
  LET h == delay_history(u)
      minus_rtt(avg, rtt) == IF rtt # 0 /\ avg > rtt THEN avg - rtt ELSE avg
  IN IF h = <<>> THEN DELAY_THRESHOLD_150MS ELSE minus_rtt(Total(h) \div Len(h), get_rtt(u))

(* latest_quality and highest_fps, over the users us.                       *)
latest_quality(us) ==
  LET Chosen == {us[c].quality : c \in {d \in Conns : us[d] # NoUser}}
  IN IF \A q \in Chosen : q[1] = 0 THEN "balanced"
     ELSE (CHOOSE q \in Chosen : \A r \in Chosen : r[1] <= q[1])[2]

highest_fps(us) ==
  LET Wanted == {us[c].custom : c \in {d \in Conns : us[d] # NoUser}}
  IN Clamp(IF Wanted = {} THEN FPS ELSE Least(Wanted), MIN_FPS, MAX_FPS)

min_fps(q) == CASE q = "best" -> 8 [] q = "balanced" -> 10 [] q = "low" -> 12
normal_fps(q) == 2 * min_fps(q)

(* adjust_fps: the fps after it, for the users us.                          *)
adjusted_ignoring_stalls(us, new) ==
  LET All == {us[c] : c \in {d \in Conns : us[d] # NoUser}}
      least == IF All = {} THEN INIT_FPS
               ELSE Least({IF u.fps = 0 THEN INIT_FPS ELSE u.fps : u \in All})
  IN Clamp(IF new THEN Smaller(least, INIT_FPS) ELSE least, MIN_FPS, highest_fps(us))
adjusted(us, new) ==
  LET All == {us[c] : c \in {d \in Conns : us[d] # NoUser}}
      least == IF All = {} THEN INIT_FPS
               ELSE Least({IF u.fps = 0 THEN INIT_FPS ELSE u.fps : u \in All})
      slowed == IF \E u \in All : u.delayed THEN Smaller(least, MIN_FPS + 1) ELSE least
  IN Clamp(IF new THEN Smaller(slowed, INIT_FPS) ELSE slowed, MIN_FPS, highest_fps(us))

-----------------------------------------------------------------------------
(* user_network_delay: the fps for a delay avg (that was old before), from  *)
(* the fps f, for a user u with quality q.                                  *)
Step_below_minimum(f, q) == IF f < min_fps(q) THEN 1 ELSE 0
Step(f, q) == IF f < normal_fps(q) THEN 1 ELSE 0
BaseFps(f, u, q, old, avg) ==
  LET least == min_fps(q)
      step == Step(f, q)
      divided == CeilDiv(f * DELAY_THRESHOLD_150MS, avg)
      product == (DELAY_THRESHOLD_150MS * least) \div avg
  IN CASE avg < 50 -> Larger(least, f + (IF u.quick >= 2 THEN 5 ELSE step))
       [] avg \in 50 .. 99 -> Larger(least, f + (IF avg < old THEN step ELSE 0))
       [] avg \in 100 .. 149 -> Larger(least, f)
       [] avg \in 150 .. 199 -> Larger(least, divided)
       [] avg \in 200 .. 299 -> Smaller(least, divided)
       [] avg \in 300 .. 599 -> product
       [] avg >= 600 -> Smaller(product, divided)

(* ... the counters of good answers, the third of which adds a frame ...    *)
Third(u, avg) == avg < DELAY_THRESHOLD_150MS /\ u.increase >= 2
counted_without_end(u, avg) ==
  [u EXCEPT !.quick = IF avg < 50 THEN @ + 1 ELSE IF avg > 50 THEN 0 ELSE @,
            !.increase = IF avg < DELAY_THRESHOLD_150MS /\ @ < 2 THEN @ + 1 ELSE 0]
counted_if_quick(u, avg) ==
  [u EXCEPT !.quick = IF avg < 50 THEN (@ + 1) % 3 ELSE IF avg > 50 THEN 0 ELSE @,
            !.increase = IF avg < 50 /\ @ < 2 THEN @ + 1 ELSE 0]
counted(u, avg) ==
  [u EXCEPT !.quick = IF avg < 50 THEN (@ + 1) % 3 ELSE IF avg > 50 THEN 0 ELSE @,
            !.increase = IF avg < DELAY_THRESHOLD_150MS /\ @ < 2 THEN @ + 1 ELSE 0]

(* ... and the user after it: u is the user before, a with the delay added. *)
network_delay(u, a, avg, base) ==
  [counted(a, avg) EXCEPT
     !.fps = Clamp(IF Third(u, avg) THEN base + 1 ELSE base, MIN_FPS, highest_fps(users))]

-----------------------------------------------------------------------------
on_connection_open(c) ==
  /\ users[c] = NoUser /\ opens < MaxOpens /\ opens' = opens + 1
  /\ users' = [users EXCEPT ![c] = NewUser] /\ fresh' = TRUE
  /\ asked' = [asked EXCEPT ![c] = -1] /\ due' = due \cup {c}
  /\ UNCHANGED <<fps, network, options>>

(* on_connection_close: with the last user everything is as at the start.   *)
on_connection_close(c) ==
  /\ users[c] # NoUser
  /\ users' = [users EXCEPT ![c] = NoUser]
  /\ fps' = IF Open = {c} THEN FPS ELSE fps
  /\ fresh' = fresh /\ due' = due \ {c}
  /\ UNCHANGED <<asked, network, options, opens>>

(* A user whose answer is overdue for n seconds.                            *)
user_delay_response_elapsed(u, n) ==
  IF n > 2 THEN [add_delay(u, 1000 * n) EXCEPT !.delayed = TRUE]
  ELSE [u EXCEPT !.delayed = FALSE]

(* The timer of a connection: a new TestDelay is sent if none is out, and   *)
(* the time since the last one is checked.                                  *)
Saturated(n) == Smaller(n, 3)
test_delay_tick(c) ==
  \E n \in {IF asked[c] < 0 THEN 0 ELSE Saturated(asked[c] + 1)} :
    /\ c \in due /\ due' = due \ {c}
    /\ Ordered => \A d \in Open : d < c => d \notin due /\ asked[d] < 0
    /\ asked' = [asked EXCEPT ![c] = n]
    /\ users' = [users EXCEPT ![c] = user_delay_response_elapsed(@, n)]
    /\ fps' = IF n > 2 THEN adjusted(users', fresh) ELSE fps
    /\ UNCHANGED <<fresh, network, options, opens>>

(* The answer of the client: within the second, or after a stall.           *)
user_network_delay(c) ==
  /\ users[c] # NoUser /\ asked[c] >= 0 /\ net[c] # 0
  /\ asked' = [asked EXCEPT ![c] = -1]
  /\ \E a \in {add_delay(users[c], Larger(net[c] + 1000 * asked[c], 10))} :
     \E avg \in {Larger(avg_delay(a), 10)} :
     \E base \in {BaseFps(fps, users[c], latest_quality(users), avg_delay(users[c]), avg)} :
       users' = [users EXCEPT ![c] = network_delay(@, a, avg, base)]
  /\ fps' = adjusted(users', fresh)
  /\ UNCHANGED <<fresh, due, network, options, opens>>

(* A second passes: every timer ticks in it, and the video service calls    *)
(* update_display_data.                                                     *)
second ==
  /\ due = {} /\ Open # {}
  /\ \A c \in Open : net[c] # 0 => asked[c] = -1
  /\ due' = Open /\ fresh' = FALSE
  /\ fps' = adjusted(users, FALSE)
  /\ UNCHANGED <<users, asked, network, options, opens>>

(* Options of a user.                                                       *)
user_custom_fps(c) ==
  /\ users[c] # NoUser /\ options < MaxOptions /\ options' = options + 1
  /\ \E n \in Customs : users' = [users EXCEPT ![c].custom = n]
  /\ UNCHANGED <<fps, fresh, network, asked, due, opens>>

user_image_quality(c) ==
  /\ users[c] # NoUser /\ options < MaxOptions /\ options' = options + 1
  /\ \E q \in Qualities : users' = [users EXCEPT ![c].quality = <<options + 1, q>>]
  /\ UNCHANGED <<fps, fresh, network, asked, due, opens>>

(* The environment: the network of a connection changes.                    *)
network_changes(c) ==
  /\ changes < MaxChanges /\ changes' = changes + 1
  /\ \E d \in Delays \ {net[c]} : net' = [net EXCEPT ![c] = d]
  /\ UNCHANGED <<fps, users, fresh, asked, due, options, opens>>

Next ==
  \/ second
  \/ \E c \in Conns :
       \/ on_connection_open(c) \/ on_connection_close(c)
       \/ test_delay_tick(c) \/ user_network_delay(c)
       \/ user_custom_fps(c) \/ user_image_quality(c) \/ network_changes(c)

Spec ==
  /\ Init /\ [][Next]_vars
  /\ WF_vars(second)
  /\ \A c \in Conns : WF_vars(test_delay_tick(c)) /\ WF_vars(user_network_delay(c))

-----------------------------------------------------------------------------
(* The state has its type; only connections that are open have timers, and  *)
(* the estimated round trip is not above what was measured last.            *)
TypeOK ==
  /\ fps \in MIN_FPS .. MAX_FPS /\ fresh \in BOOLEAN
  /\ \A c \in Open :
       /\ DOMAIN users[c] = DOMAIN NewUser
       /\ users[c].fps \in 0 .. MAX_FPS /\ users[c].delayed \in BOOLEAN
       /\ users[c].quick \in 0 .. 2 /\ users[c].increase \in 0 .. 2
       /\ Len(users[c].samples) <= WINDOW_SAMPLES
       /\ \A d \in ToSet(users[c].samples) : d >= get_rtt(users[c]) \/ get_rtt(users[c]) = users[c].smoothed
  /\ net \in [Conns -> Delays] /\ asked \in [Conns -> -1 .. 3] /\ due \subseteq Open
  /\ changes \in 0 .. MaxChanges /\ options \in 0 .. MaxOptions /\ opens \in 0 .. MaxOpens

(* StallSlows.  While the answer of a user is overdue nobody gets more than *)
(* two frames a second, whoever answers in the meantime (adjust_fps).       *)
StallSlows == (\E c \in Open : users[c].delayed) => fps <= MIN_FPS + 1

(* A network whose answers come at once, and what the fps should get to.    *)
Quick(c) == net[c] # 0 /\ net[c] < DELAY_THRESHOLD_150MS
Alone == Cardinality(Open) = 1 /\ \A c \in Open : Quick(c)
Together == Cardinality(Open) > 1 /\ \A c \in Open : Quick(c)
Full == fps = highest_fps(users)

(* Recovers.  After any stalls, bad delays and users that left, the fps of  *)
(* a single user with a good network gets to the highest that is allowed,   *)
(* and stays there (user_network_delay).                                    *)
Recovers == <>[]Alone => <>[]Full

(* NormalTogether.  Several users whose answers come within 50 ms get at    *)
(* least the normal fps of the quality, or the highest that is allowed.     *)
NormalTogether ==
  <>[](Together /\ \A c \in Open : net[c] < 50)
    => <>[](fps >= Smaller(normal_fps(latest_quality(users)), highest_fps(users)))

(* RecoversTogether.  What the comment on the fps says: with a good network *)
(* of all users the fps increases.                                          *)
RecoversTogether == <>[]Together => []<>Full

(* FarAway.  What the comment on the delay says: the round trip itself is   *)
(* not a delay, so that a network that never changes gets the highest fps.  *)
FarAway ==
  []((changes = 0) /\ \A c \in Conns : net[c] # 0) /\ <>[](Cardinality(Open) = 1) => []<>Full

(* AlwaysLower.  What the comment on the fps says: with a bad network it is *)
(* always lower than the minimum of the quality.                            *)
AlwaysLower ==
  \A c \in Open : users[c].samples # <<>> /\ avg_delay(users[c]) >= DELAY_THRESHOLD_150MS
                  => fps <= min_fps(latest_quality(users))
=============================================================================
