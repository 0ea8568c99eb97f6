-------------------------------- MODULE Seat --------------------------------
(***************************************************************************)
(* A local seat (seat.c, seat-local.c): the sessions and the X servers it  *)
(* owns, its greeters and what they ask for (the requests of greeter.c     *)
(* that change the seat), the requests of the D-Bus service, and the       *)
(* signals of sessions and display servers.                                *)
(*                                                                         *)
(* A function of seat.c often calls another one from inside a signal: a    *)
(* session without a child says STOPPED while session_stop is running, a   *)
(* server that does not start says STOPPED inside display_server_start.    *)
(* The calls that are still to be made are kept in todo, a stack of frames *)
(* [op, a, b]: an action takes the frame on top, does the work of that C   *)
(* function up to its next call and puts the calls in its place.  The main *)
(* loop delivers an event only when the stack is empty, so every state in  *)
(* between is a state inside a callback.                                   *)
(*                                                                         *)
(* Sessions and servers keep the promises of modules Session and           *)
(* DisplayServer.  Left out: the session marked as next for a Mir          *)
(* compositor (next_session), Mir and Wayland sessions, the XDMCP client   *)
(* server of a local seat, scripts whose result is not looked at.          *)
(***************************************************************************)
EXTENDS Naturals, Sequences, SequencesExt, FiniteSets, FiniteSetsExt

CONSTANTS
  NSessions,        \* bound: session objects at one time
  NServers,         \* bound: display server objects at one time
  Users,            \* names of users
  Configurations    \* the seats that are looked at, and what happens to them

(* The properties of a seat (seat_set_property), then its surroundings:    *)
(* what may fail (the start of a child before its fork or in it, of a      *)
(* server, a server that runs), what is asked for (logins of greeters, the *)
(* methods of the D-Bus service), and the bounds on both.                  *)
Configuration ==
  [autologin : Users \union {"none", "guest"},    \* autologin-user, or autologin-guest
   background : BOOLEAN,                          \* autologin-in-background
   can_switch : BOOLEAN,                          \* allow-user-switching
   share : BOOLEAN,                               \* xserver-share
   allow_guest : BOOLEAN,                         \* allow-guest, with an account script
   scripts : SUBSET {"display", "greeter", "session"},
   resettable : BOOLEAN,                          \* greeters say that they can be reset
   unknown_sessions : BOOLEAN,                    \* greeters may ask for one not installed
   faults : SUBSET {"pipe", "fork", "server", "crash"},
   asked : SUBSET {"login", "SwitchToGreeter", "SwitchToUser", "SwitchToGuest", "Lock"},
   stops : BOOLEAN,                               \* the display manager may stop the seat
   vt_keys : BOOLEAN,                             \* the user may change the VT by its keys
   max_requests : Nat,                            \* bound: requests of greeters and D-Bus
   max_faults : Nat]                              \* bound: what fails or ends unasked

ASSUME SeatAssumption ==
  /\ {NSessions, NServers} \subseteq Nat \ {0}
  /\ {"none", "guest", "greeter"} \intersect Users = {}
  /\ Configurations \subseteq Configuration

VARIABLES
  sess,             \* the session objects
  srv,              \* the display server objects
  sessions,         \* priv->sessions
  display_servers,  \* priv->display_servers
  seat,             \* the rest of SeatPrivate
  vt,               \* the active virtual terminal, 0 for one without a display server
  todo,             \* the calls to be made before the main loop goes on
  requests, faults, \* requests and faults so far
  conf              \* the configuration, which never changes

seatVars == <<sess, srv, sessions, display_servers, seat, vt, todo, requests, faults, conf>>

(* All of it but the calls.                                                *)
seatState == <<sess, srv, sessions, display_servers, seat, vt>>

None == 0
SessionIds == 1..NSessions
ServerIds == NSessions + 1 .. NSessions + NServers
VTs == 1..NServers

(* user: the name the session is for; a guest's is not known to anybody    *)
(* else.  cb: the seat's handler of AUTHENTICATION_COMPLETE.  argv: there  *)
(* is a command to run.  run: what was written to the child.  lock:      *)
(* what logind was last told.  connected, start_session, auth and          *)
(* guest_auth belong to the Greeter of a greeter session.  late: created   *)
(* when the seat was already stopping.                                     *)
SessionRecord ==
  [user : Users \union {"none", "guest", "greeter"}, cb : {"none", "autostart", "switch"},
   ds : ServerIds \union {None}, argv : BOOLEAN, pid : {"0", "-1", "child"}, complete : BOOLEAN, ok : BOOLEAN,
   run : {"no", "command", "nothing"}, stopping : BOOLEAN, lock : {"new", "open", "locked"}, connected : BOOLEAN,
   start_session : BOOLEAN, auth : 0..NSessions, guest_auth : BOOLEAN, late : BOOLEAN]

ServerRecord ==
  [state : {"new", "starting", "ready", "stopped"}, stopping : BOOLEAN, vt : 0..NServers,
   late : BOOLEAN]

SeatRecord ==
  [active_session : 0..NSessions, session_to_activate : 0..NSessions,
   replacement_greeter : 0..NSessions, started : BOOLEAN, stopping : BOOLEAN, stopped : BOOLEAN,
   discarded : BOOLEAN]

SeatTypeOK ==
  /\ sess \in [SessionIds -> SessionRecord]
  /\ srv \in [ServerIds -> ServerRecord]
  /\ sessions \in Seq(SessionIds) /\ IsInjective(sessions)
  /\ display_servers \in Seq(ServerIds) /\ IsInjective(display_servers)
  /\ seat \in SeatRecord
  /\ vt \in 0..NServers
  /\ todo \in Seq([op : STRING, a : 0..NSessions + NServers, b : 0..NSessions + NServers,
                   user : Users \union {"none"}, ret : BOOLEAN])
  /\ conf \in Configurations
  /\ requests \in 0..conf.max_requests /\ faults \in 0..conf.max_faults

(* A call of op with one or two arguments.                                *)
F(op, a) == [op |-> op, a |-> a, b |-> None, user |-> "none", ret |-> TRUE]
F2(op, a, b) == [F(op, a) EXCEPT !.b = b]

NoSession ==
  [user |-> "none", cb |-> "none", ds |-> None, argv |-> FALSE, pid |-> "0", complete |-> FALSE,
   ok |-> FALSE, run |-> "no", stopping |-> FALSE, lock |-> "new", connected |-> FALSE,
   start_session |-> FALSE, auth |-> None, guest_auth |-> FALSE, late |-> FALSE]

NoServer == [state |-> "stopped", stopping |-> FALSE, vt |-> 0, late |-> FALSE]

SeatInit ==
  /\ sess = [s \in SessionIds |-> NoSession]
  /\ srv = [d \in ServerIds |-> NoServer]
  /\ sessions = <<>> /\ display_servers = <<>>
  /\ seat = [active_session |-> None, session_to_activate |-> None, replacement_greeter |-> None,
             started |-> FALSE, stopping |-> FALSE, stopped |-> FALSE, discarded |-> FALSE]
  /\ vt = 0
  /\ todo = <<F("seat_real_start", None)>>
  /\ requests = 0 /\ faults = 0
  /\ conf \in Configurations

----------------------------------------------------------------------------
(* Calls                                                                   *)

(* The frame on top is for op.                                             *)
At(op) == todo # <<>> /\ Head(todo).op = op
a1 == Head(todo).a
b1 == Head(todo).b

(* It is replaced by the calls of frames, in their order.                  *)
Call(frames) == todo' = frames \o Tail(todo)

(* What the call before it returned: TRUE, unless return_false says so.    *)
ret == Head(todo).ret

----------------------------------------------------------------------------
(* Objects                                                                 *)

(* An object is freed when nothing refers to it: a list, a pointer of the  *)
(* seat, a call, the watch on its child, a greeter, a session.             *)
CallObjects == UNION {{todo[i].a, todo[i].b} : i \in 1..Len(todo)}
Held(s) ==
  \/ s \in ToSet(sessions)
  \/ s \in {seat.active_session, seat.session_to_activate, seat.replacement_greeter}
  \/ s \in CallObjects
  \/ sess[s].pid = "child"
SessionInUse(s) == Held(s) \/ \E g \in SessionIds : Held(g) /\ sess[g].auth = s
ServerInUse(d) ==
  \/ d \in ToSet(display_servers)
  \/ d \in CallObjects
  \/ \E s \in SessionIds : SessionInUse(s) /\ sess[s].ds = d

FreeSessions == {s \in SessionIds : ~SessionInUse(s)}
FreeServers == {d \in ServerIds : ~ServerInUse(d)}
GarbageSessions == {s \in FreeSessions : sess[s] # NoSession}
GarbageServers == {d \in FreeServers : srv[d] # NoServer}

(* The main loop can deliver an event.                                     *)
quiet == todo = <<>> /\ GarbageSessions = {} /\ GarbageServers = {} /\ ~seat.discarded

(* The next object to be created.                                          *)
new_s == Min(FreeSessions)
new_d == Min(FreeServers)

(* Something goes wrong.                                                   *)
Fault == faults < conf.max_faults /\ faults' = faults + 1
NoFault == UNCHANGED faults

is_greeter(s) == sess[s].user = "greeter"
resettable(s) == conf.resettable /\ sess[s].connected
is_authenticated(s) == sess[s].complete /\ sess[s].ok
can_share(d) == conf.share /\ d # None

NewSession(user, cb, d, argv) ==
  [NoSession EXCEPT !.user = user, !.cb = cb, !.ds = d, !.argv = argv, !.late = seat.stopping]

(* create_x_server, and get_vt: the first terminal nobody uses.            *)
VTsInUse == {srv[d].vt : d \in {e \in ServerIds : srv[e].state # "stopped"}}
NewServer ==
  [NoServer EXCEPT !.state = "new", !.vt = Min(VTs \ VTsInUse), !.late = seat.stopping]

(* The first session of the seat's list for which P holds, or None.        *)
First(list, P(_)) == LET found == SelectSeq(list, P) IN IF found = <<>> THEN None ELSE found[1]

find_greeter_session == First(sessions, LAMBDA s : ~sess[s].stopping /\ is_greeter(s))
find_resettable_greeter ==
  First(sessions, LAMBDA s : ~sess[s].stopping /\ is_greeter(s) /\ resettable(s))
find_guest_session == First(sessions, LAMBDA s : ~sess[s].stopping /\ sess[s].user = "guest")
(* The name of a guest is its own.                                         *)
find_user_session(user, ignore) ==
  First(sessions, LAMBDA s : s # ignore /\ ~sess[s].stopping /\ sess[s].user = user /\ user # "guest")
find_session_for_display_server(d) ==
  First(sessions, LAMBDA s : sess[s].ds = d /\ ~sess[s].stopping /\ sess[s].run = "no")
(* The greeter asked for is not looked at: the first one is taken.         *)
get_greeter_session == First(sessions, LAMBDA s : is_greeter(s))

(* seat_local_get_active_session: who is on the active terminal.           *)
get_active_session(list) ==
  IF vt = 0 THEN None
  ELSE First(list, LAMBDA s : sess[s].ds # None /\ srv[sess[s].ds].vt = vt)

----------------------------------------------------------------------------
(* Sessions and display servers, as the seat calls them                    *)

(* Mutant of session_stop: STOPPED is said before the child is gone.       *)
session_stop_early ==
  LET s == a1 IN
  /\ At("session_stop")
  /\ IF sess[s].stopping THEN Call(<<>>) /\ UNCHANGED sess
     ELSE LET clean == is_authenticated(s) /\ sess[s].run = "no" IN
       /\ sess' = [sess EXCEPT ![s].stopping = TRUE, ![s].run = IF clean THEN "nothing" ELSE @]
       /\ Call(IF clean THEN <<>> ELSE <<F("session_stopped_cb", s)>>)
  /\ UNCHANGED <<srv, sessions, display_servers, seat, vt>>

(* session_stop, session_real_stop: a session without a child says STOPPED *)
(* at once; one that waits for its command is given an empty one.          *)
session_stop ==
  LET s == a1 IN
  /\ At("session_stop")
  /\ IF sess[s].stopping THEN Call(<<>>) /\ UNCHANGED sess
     ELSE LET clean == is_authenticated(s) /\ sess[s].run = "no" IN
       /\ sess' = [sess EXCEPT ![s].stopping = TRUE, ![s].run = IF clean THEN "nothing" ELSE @]
       /\ Call(IF clean \/ sess[s].pid = "child" THEN <<>> ELSE <<F("session_stopped_cb", s)>>)
  /\ UNCHANGED <<srv, sessions, display_servers, seat, vt>>

(* The seat's handler of AUTHENTICATION_COMPLETE, if it still listens.     *)
OnComplete(s) ==
  IF s \notin ToSet(sessions) \/ sess[s].cb = "none" THEN <<>>
  ELSE IF sess[s].cb = "switch" THEN <<F("switch_authentication_complete_cb", s)>>
  ELSE <<F("session_authentication_complete_cb", s)>>

(* session_unlock, session_activate: logind knows a session that has run.  *)
Logind(s, lock) == IF sess[s].run = "command" THEN [sess EXCEPT ![s].lock = lock] ELSE sess

(* display_server_stop: the process of the server is told to stop.         *)
StopServers(ds) == [d \in ServerIds |-> IF d \in ds THEN [srv[d] EXCEPT !.stopping = TRUE] ELSE srv[d]]

(* start_display_server: a server that does not start says STOPPED first.  *)
start_display_server ==
  /\ At("start_display_server")
  /\ \/ srv' = [srv EXCEPT ![a1].state = "starting"] /\ Call(<<>>) /\ NoFault
     \/ /\ "server" \in conf.faults /\ Fault
        /\ srv' = [srv EXCEPT ![a1].state = "stopped"]
        /\ Call(<<F("display_server_stopped_cb", a1), F("return_false", a1)>>)
  /\ UNCHANGED <<sess, sessions, display_servers, seat, vt>>

return_false ==
  /\ At("return_false")
  /\ todo' = IF Len(todo) = 1 THEN <<>> ELSE [Tail(todo) EXCEPT ![1].ret = FALSE]
  /\ UNCHANGED seatState

(* The callers that stop the seat when they are told FALSE.                *)
or_stop ==
  /\ At("or_stop")
  /\ Call(IF ret THEN <<>> ELSE <<F("seat_stop", None)>>)
  /\ UNCHANGED seatState

----------------------------------------------------------------------------
(* The end of sessions, of servers and of the seat                         *)

ClearRefs(s) ==
  [seat EXCEPT !.active_session = IF @ = s THEN None ELSE @,
               !.session_to_activate = IF @ = s THEN None ELSE @]

RunOrStart(s) == F(IF is_authenticated(s) THEN "run_session" ELSE "start_session", s)

(* Mutant of session_stopped_cb: the session that waits for the greeter to *)
(* go is not run.                                                          *)
session_stopped_cb_forgets ==
  LET s    == a1
      d    == sess[s].ds
      rest == Remove(sessions, s)
      next == First(rest, LAMBDA x : sess[x].ds = d /\ ~sess[x].stopping)
      replace  == is_greeter(s) /\ seat.replacement_greeter # None
      hand_over == is_greeter(s) /\ can_share(d) /\ sess[s].start_session
  IN
  /\ At("session_stopped_cb")
  /\ sessions' = rest
  /\ CASE s \notin ToSet(sessions) -> UNCHANGED seat /\ Call(<<>>)
       [] s \in ToSet(sessions) /\ seat.stopping -> seat' = ClearRefs(s) /\ Call(<<F("check_stopped", None)>>)
       [] OTHER ->
         /\ seat' = [ClearRefs(s) EXCEPT !.replacement_greeter = IF replace THEN None ELSE @]
         /\ Call((CASE replace -> <<RunOrStart(seat.replacement_greeter)>>
                    [] ~replace /\ hand_over -> <<>>
                    [] ~replace /\ ~hand_over /\ is_greeter(s) /\ ~sess[s].start_session
                         /\ display_servers = <<d>> -> <<F("seat_stop", None)>>
                    [] ~is_greeter(s) /\ s = get_active_session(rest) ->
                         <<F("seat_switch_to_greeter", None), F("or_stop", None)>>
                    [] OTHER -> <<>>)
                 \o <<F("stop_if_unused", d)>>)
  /\ UNCHANGED <<sess, srv, display_servers, vt>>

(* Mutant of session_stopped_cb: a seat that is stopping does not look     *)
(* whether it was the last one.                                            *)
session_stopped_cb_waits ==
  LET s    == a1
      d    == sess[s].ds
      rest == Remove(sessions, s)
      next == First(rest, LAMBDA x : sess[x].ds = d /\ ~sess[x].stopping)
      replace  == is_greeter(s) /\ seat.replacement_greeter # None
      hand_over == is_greeter(s) /\ can_share(d) /\ sess[s].start_session
  IN
  /\ At("session_stopped_cb")
  /\ sessions' = rest
  /\ CASE s \notin ToSet(sessions) -> UNCHANGED seat /\ Call(<<>>)
       [] s \in ToSet(sessions) /\ seat.stopping -> seat' = ClearRefs(s) /\ Call(<<>>)
       [] OTHER ->
         /\ seat' = [ClearRefs(s) EXCEPT !.replacement_greeter = IF replace THEN None ELSE @]
         /\ Call((CASE replace -> <<RunOrStart(seat.replacement_greeter)>>
                    [] ~replace /\ hand_over -> IF next = None THEN <<>> ELSE <<RunOrStart(next)>>
                    [] ~replace /\ ~hand_over /\ is_greeter(s) /\ ~sess[s].start_session
                         /\ display_servers = <<d>> -> <<F("seat_stop", None)>>
                    [] ~is_greeter(s) /\ s = get_active_session(rest) ->
                         <<F("seat_switch_to_greeter", None), F("or_stop", None)>>
                    [] OTHER -> <<>>)
                 \o <<F("stop_if_unused", d)>>)
  /\ UNCHANGED <<sess, srv, display_servers, vt>>

(* session_stopped_cb, of a session that the seat still listens to.  The   *)
(* session has left the list when the seat looks for the active one.       *)
session_stopped_cb ==
  LET s    == a1
      d    == sess[s].ds
      rest == Remove(sessions, s)
      next == First(rest, LAMBDA x : sess[x].ds = d /\ ~sess[x].stopping)
      replace  == is_greeter(s) /\ seat.replacement_greeter # None
      hand_over == is_greeter(s) /\ can_share(d) /\ sess[s].start_session
  IN
  /\ At("session_stopped_cb")
  /\ sessions' = rest
  /\ CASE s \notin ToSet(sessions) -> UNCHANGED seat /\ Call(<<>>)
       [] s \in ToSet(sessions) /\ seat.stopping -> seat' = ClearRefs(s) /\ Call(<<F("check_stopped", None)>>)
       [] OTHER ->
         /\ seat' = [ClearRefs(s) EXCEPT !.replacement_greeter = IF replace THEN None ELSE @]
         /\ Call((CASE replace -> <<RunOrStart(seat.replacement_greeter)>>
                    [] ~replace /\ hand_over -> IF next = None THEN <<>> ELSE <<RunOrStart(next)>>
                    [] ~replace /\ ~hand_over /\ is_greeter(s) /\ ~sess[s].start_session
                         /\ display_servers = <<d>> -> <<F("seat_stop", None)>>
                    [] ~is_greeter(s) /\ s = get_active_session(rest) ->
                         <<F("seat_switch_to_greeter", None), F("or_stop", None)>>
                    [] OTHER -> <<>>)
                 \o <<F("stop_if_unused", d)>>)
  /\ UNCHANGED <<sess, srv, display_servers, vt>>

(* The display server is stopped if no session requires it any more.       *)
stop_if_unused ==
  LET unused == a1 # None /\ ~(\E s \in ToSet(sessions) : sess[s].ds = a1) IN
  /\ At("stop_if_unused")
  /\ srv' = IF unused THEN StopServers({a1}) ELSE srv
  /\ Call(<<>>)
  /\ UNCHANGED <<sess, sessions, display_servers, seat, vt>>

display_server_stopped_cb ==
  /\ At("display_server_stopped_cb")
  /\ display_servers' = Remove(display_servers, a1)
  /\ Call(IF seat.stopping \/ ~seat.started
            THEN <<F("check_stopped", None)>>
            ELSE LET on == SelectSeq(sessions, LAMBDA s : sess[s].ds = a1)
                 IN [i \in 1..Len(on) |-> F2("stop_on_server", on[i], a1)] \o <<F("server_gone", a1)>>)
  /\ UNCHANGED <<sess, srv, sessions, seat, vt>>

(* The body of its loop over the sessions.                                 *)
stop_on_server ==
  LET s == a1 IN
  /\ At("stop_on_server")
  /\ Call(IF sess[s].ds # b1 \/ sess[s].stopping THEN <<>>
          ELSE <<F("session_stop", s)>>
                 \o IF is_greeter(s) /\ sess[s].pid = "0" THEN <<F("greeter_failed", None)>> ELSE <<>>)
  /\ UNCHANGED seatState

greeter_failed ==
  /\ At("greeter_failed")
  /\ Call(IF display_servers = <<>> THEN <<F("seat_stop", None)>> ELSE <<>>)
  /\ UNCHANGED seatState

(* Mutant of server_gone: no greeter takes the place of what was on the    *)
(* screen.                                                                 *)
server_gone_silent ==
  LET active == get_active_session(sessions) IN
  /\ At("server_gone")
  /\ Call(IF ~seat.stopping /\ (active # None /\ sess[active].ds # a1)
            THEN <<F("seat_switch_to_greeter", None), F("or_stop", None)>> ELSE <<>>)
  /\ UNCHANGED seatState

(* Its end: a greeter when nothing else is on the screen.                  *)
server_gone ==
  LET active == get_active_session(sessions) IN
  /\ At("server_gone")
  /\ Call(IF ~seat.stopping /\ (active = None \/ sess[active].ds = a1)
            THEN <<F("seat_switch_to_greeter", None), F("or_stop", None)>> ELSE <<>>)
  /\ UNCHANGED seatState

check_stopped ==
  /\ At("check_stopped")
  /\ seat' = [seat EXCEPT !.stopped = @ \/ (seat.stopping /\ display_servers = <<>> /\ sessions = <<>>)]
  /\ Call(<<>>)
  /\ UNCHANGED <<sess, srv, sessions, display_servers, vt>>

(* seat_stop, then seat_local_stop and seat_real_stop.                     *)
seat_stop ==
  /\ At("seat_stop")
  /\ seat' = [seat EXCEPT !.stopping = TRUE]
  /\ Call(IF seat.stopping THEN <<>> ELSE <<F("check_stopped", None), F("seat_real_stop", None)>>)
  /\ UNCHANGED <<sess, srv, sessions, display_servers, vt>>

seat_real_stop ==
  /\ At("seat_real_stop")
  /\ srv' = StopServers(ToSet(display_servers))
  /\ Call([i \in 1..Len(sessions) |-> F("session_stop", sessions[i])])
  /\ UNCHANGED <<sess, sessions, display_servers, seat, vt>>

----------------------------------------------------------------------------
(* The active session                                                      *)

(* seat_set_active_session: the terminal of its server, then the loop over *)
(* the greeters, then the exchange of the active sessions.                 *)
seat_set_active_session ==
  LET s == a1 IN
  /\ At("seat_set_active_session")
  /\ vt' = IF sess[s].ds = None THEN vt ELSE srv[sess[s].ds].vt
  /\ Call(<<F2("stop_greeters", s, None)>>)
  /\ UNCHANGED <<sess, srv, sessions, display_servers, seat>>

(* Mutant of stop_greeters: every other session is stopped, not only       *)
(* greeters.                                                               *)
stop_greeters_all ==
  LET s     == a1
      prev  == b1
      old   == seat.active_session
      after == IF prev = None THEN {1}
               ELSE IF prev \in ToSet(sessions) THEN {SelectInSeq(sessions, LAMBDA x : x = prev) + 1}
               ELSE 1..Len(sessions) + 1
      opened == IF sess[s].lock = "new" THEN Logind(s, "open") ELSE sess
  IN
  /\ At("stop_greeters")
  /\ \E i \in after :
       LET g == First(SubSeq(sessions, i, Len(sessions)),
                      LAMBDA x : x # s /\ ~sess[x].stopping /\ ~resettable(x))
       IN IF g # None
            THEN Call(<<F("session_stop", g), F2("stop_greeters", s, g)>>) /\ UNCHANGED <<sess, seat>>
            ELSE /\ sess' = IF old # None /\ old # s /\ ~is_greeter(old) /\ sess[old].run = "command"
                              THEN [opened EXCEPT ![old].lock = "locked"] ELSE opened
                 /\ seat' = [seat EXCEPT !.active_session = s]
                 /\ Call(<<>>)
  /\ UNCHANGED <<srv, sessions, display_servers, vt>>

(* Mutant of stop_greeters: the session that was active stays unlocked.    *)
stop_greeters_unlocked ==
  LET s     == a1
      prev  == b1
      old   == seat.active_session
      after == IF prev = None THEN {1}
               ELSE IF prev \in ToSet(sessions) THEN {SelectInSeq(sessions, LAMBDA x : x = prev) + 1}
               ELSE 1..Len(sessions) + 1
      opened == IF sess[s].lock = "new" THEN Logind(s, "open") ELSE sess
  IN
  /\ At("stop_greeters")
  /\ \E i \in after :
       LET g == First(SubSeq(sessions, i, Len(sessions)),
                      LAMBDA x : x # s /\ ~sess[x].stopping /\ is_greeter(x) /\ ~resettable(x))
       IN IF g # None
            THEN Call(<<F("session_stop", g), F2("stop_greeters", s, g)>>) /\ UNCHANGED <<sess, seat>>
            ELSE /\ sess' = opened
                 /\ seat' = [seat EXCEPT !.active_session = s]
                 /\ Call(<<>>)
  /\ UNCHANGED <<srv, sessions, display_servers, vt>>

(* The loop walks over the list itself.  When the greeter it has stopped   *)
(* has left the list meanwhile, its link is freed memory: the walk goes on *)
(* anywhere, or ends.  After it the active session is the new one, and the *)
(* user's session that was is locked.                                      *)
stop_greeters ==
  LET s     == a1
      prev  == b1
      old   == seat.active_session
      after == IF prev = None THEN {1}
               ELSE IF prev \in ToSet(sessions) THEN {SelectInSeq(sessions, LAMBDA x : x = prev) + 1}
               ELSE 1..Len(sessions) + 1
      opened == IF sess[s].lock = "new" THEN Logind(s, "open") ELSE sess
  IN
  /\ At("stop_greeters")
  /\ \E i \in after :
       LET g == First(SubSeq(sessions, i, Len(sessions)),
                      LAMBDA x : x # s /\ ~sess[x].stopping /\ is_greeter(x) /\ ~resettable(x))
       IN IF g # None
            THEN Call(<<F("session_stop", g), F2("stop_greeters", s, g)>>) /\ UNCHANGED <<sess, seat>>
            ELSE /\ sess' = IF old # None /\ old # s /\ ~is_greeter(old) /\ sess[old].run = "command"
                              THEN [opened EXCEPT ![old].lock = "locked"] ELSE opened
                 /\ seat' = [seat EXCEPT !.active_session = s]
                 /\ Call(<<>>)
  /\ UNCHANGED <<srv, sessions, display_servers, vt>>

----------------------------------------------------------------------------
(* Starting sessions                                                       *)

(* What priv->pid may be after session_start of a session without a child. *)
FailedPids == (IF "pipe" \in conf.faults THEN {"0"} ELSE {}) \union (IF "fork" \in conf.faults THEN {"-1"} ELSE {})
StartedPids == FailedPids \union {"child"}

(* start_session: no child, or a failed fork, or it had one already.       *)
start_session ==
  LET s == a1 IN
  /\ At("start_session")
  /\ \/ /\ sess[s].pid = "0"
        /\ sess' = [sess EXCEPT ![s].pid = "child"]
        /\ Call(<<>>)
        /\ NoFault /\ UNCHANGED srv
     \/ /\ \/ sess[s].pid = "0" /\ \E p \in FailedPids : sess' = [sess EXCEPT ![s].pid = p] /\ Fault
           \/ sess[s].pid # "0" /\ UNCHANGED sess /\ NoFault
        /\ IF is_greeter(s) THEN srv' = StopServers({sess[s].ds}) /\ Call(<<>>)
           ELSE Call(<<F("switch_to_greeter_from_failed_session", s)>>) /\ UNCHANGED srv
  /\ UNCHANGED <<sessions, display_servers, seat, vt>>

(* run_session, and the conditions of session_run.                         *)
run_session ==
  LET s == a1
      runs == sess[s].ds # None /\ sess[s].run = "no" /\ is_authenticated(s) /\ sess[s].argv
                /\ sess[s].pid # "0"
  IN
  /\ At("run_session")
  /\ \/ /\ (IF is_greeter(s) THEN "greeter" ELSE "session") \in conf.scripts
        /\ Fault
        /\ Call(<<F("switch_to_greeter_from_failed_session", s)>>)
        /\ UNCHANGED sess
     \/ /\ sess' = [sess EXCEPT ![s].run = IF runs THEN "command" ELSE @]
        /\ Call(IF s = seat.session_to_activate
                  THEN <<F("seat_set_active_session", s), F("clear_to_activate", None)>> ELSE <<>>)
        /\ NoFault
  /\ UNCHANGED <<srv, sessions, display_servers, seat, vt>>

clear_to_activate ==
  /\ At("clear_to_activate")
  /\ seat' = [seat EXCEPT !.session_to_activate = None]
  /\ Call(<<>>)
  /\ UNCHANGED <<sess, srv, sessions, display_servers, vt>>

display_server_ready_cb ==
  LET s == find_session_for_display_server(a1) IN
  /\ At("display_server_ready_cb")
  /\ \/ "display" \in conf.scripts /\ Fault /\ srv' = StopServers({a1}) /\ Call(<<>>)
     \/ NoFault /\ s = None /\ srv' = StopServers({a1}) /\ Call(<<>>)
     \/ NoFault /\ s # None /\ Call(<<RunOrStart(s)>>) /\ UNCHANGED srv
  /\ UNCHANGED <<sess, sessions, display_servers, seat, vt>>

session_authentication_complete_cb ==
  LET s     == a1
      other == find_user_session(sess[s].user, s)
  IN
  /\ At("session_authentication_complete_cb")
  /\ Call(IF is_authenticated(s)
            THEN IF other # None THEN <<F("seat_set_active_session", other), F("session_stop", s)>>
                 ELSE <<F("run_session", s)>>
          ELSE <<F(IF is_greeter(s) THEN "session_stop" ELSE "switch_to_greeter_from_failed_session", s)>>)
  /\ UNCHANGED seatState

----------------------------------------------------------------------------
(* Creating sessions and servers                                           *)


(* create_session, create_greeter_session, with what their callers set.    *)
AddSession(user, cb, d, argv) ==
  /\ sess' = [sess EXCEPT ![new_s] = NewSession(user, cb, d, argv)]
  /\ sessions' = Append(sessions, new_s)

(* create_display_server.                                                  *)
AddServer ==
  /\ srv' = [srv EXCEPT ![new_d] = NewServer]
  /\ display_servers' = Append(display_servers, new_d)

(* A greeter with a display server of its own, to be shown when it runs.   *)
AddGreeterAndServer ==
  /\ AddSession("greeter", "autostart", new_d, TRUE)
  /\ AddServer
  /\ seat' = [seat EXCEPT !.session_to_activate = new_s]

(* The new server is set on the failed session, not on the greeter.        *)
switch_to_greeter_from_failed_session ==
  LET s == a1
      g == find_resettable_greeter
  IN
  /\ At("switch_to_greeter_from_failed_session")
  /\ \/ /\ g # None
        /\ Call(<<F("seat_set_active_session", g), F("session_stop", s)>>)
        /\ UNCHANGED <<sess, srv, sessions, display_servers, seat>>
     \/ /\ g = None /\ can_share(sess[s].ds)
        /\ AddSession("greeter", "autostart", sess[s].ds, TRUE)
        /\ seat' = [seat EXCEPT !.session_to_activate = new_s]
        /\ Call(<<F("start_session", new_s), F("session_stop", s)>>)
        /\ UNCHANGED <<srv, display_servers>>
     \/ /\ g = None /\ ~can_share(sess[s].ds)
        /\ sess' = [sess EXCEPT ![new_s] = NewSession("greeter", "autostart", None, TRUE), ![s].ds = new_d]
        /\ sessions' = Append(sessions, new_s)
        /\ AddServer
        /\ seat' = [seat EXCEPT !.session_to_activate = new_s]
        /\ Call(<<F("start_display_server", new_d), F("or_stop", None), F("start_session", new_s),
                  F("session_stop", s)>>)
  /\ UNCHANGED vt

seat_switch_to_greeter ==
  LET g == find_greeter_session IN
  /\ At("seat_switch_to_greeter")
  /\ \/ /\ ~conf.can_switch /\ sessions # <<>>
        /\ Call(<<F("return_false", None)>>)
        /\ UNCHANGED <<sess, srv, sessions, display_servers, seat>>
     \/ /\ conf.can_switch \/ sessions = <<>>
        /\ g # None
        /\ Call(<<F("seat_set_active_session", g)>>)
        /\ UNCHANGED <<sess, srv, sessions, display_servers, seat>>
     \/ /\ conf.can_switch \/ sessions = <<>>
        /\ g = None
        /\ AddGreeterAndServer
        /\ Call(<<F("start_display_server", new_d)>>)
  /\ UNCHANGED vt

switch_authentication_complete_cb ==
  LET s     == a1
      other == find_user_session(sess[s].user, s)
  IN
  /\ At("switch_authentication_complete_cb")
  /\ \/ /\ is_authenticated(s) /\ other # None
        /\ sess' = Logind(other, "open")
        /\ Call(<<F("seat_set_active_session", other), F("session_stop", s)>>)
        /\ UNCHANGED <<srv, sessions, display_servers, seat>>
     \/ /\ is_authenticated(s) /\ other = None
        /\ sess' = [sess EXCEPT ![s].ds = new_d]
        /\ AddServer
        /\ seat' = [seat EXCEPT !.session_to_activate = s]
        /\ Call(<<F("start_display_server", new_d)>>)
        /\ UNCHANGED sessions
     \/ /\ ~is_authenticated(s)
        /\ Call(<<F("session_stop", s), F("greeter_to_authenticate", None)>>)
        /\ UNCHANGED <<sess, srv, sessions, display_servers, seat>>
  /\ UNCHANGED vt

(* Its second half: a greeter for the user that failed.                    *)
greeter_to_authenticate ==
  LET g == find_resettable_greeter IN
  /\ At("greeter_to_authenticate")
  /\ \/ /\ g # None
        /\ Call(<<F("seat_set_active_session", g)>>)
        /\ UNCHANGED <<sess, srv, sessions, display_servers, seat>>
     \/ /\ g = None
        /\ AddGreeterAndServer
        /\ Call(<<F("start_display_server", new_d)>>)
  /\ UNCHANGED vt

(* seat_lock, after the greeter that cannot be reset has been stopped: the *)
(* one that replaces it waits for its display server a1.                   *)
lock_with_replacement ==
  /\ At("lock_with_replacement")
  /\ AddSession("greeter", "autostart", a1, TRUE)
  /\ seat' = [seat EXCEPT !.session_to_activate = new_s, !.replacement_greeter = new_s]
  /\ Call(<<>>)
  /\ UNCHANGED <<srv, display_servers, vt>>

(* greeter_create_session_cb for greeter a1, and the start of the session  *)
(* by handle_authenticate.                                                 *)
greeter_create_session_cb ==
  LET g == get_greeter_session IN
  /\ At("greeter_create_session_cb")
  /\ \E p \in StartedPids :
       /\ IF p = "child" THEN NoFault ELSE Fault
       /\ sess' = [sess EXCEPT
            ![new_s] = [NewSession(Head(todo).user, "none", IF g = None THEN None ELSE sess[g].ds, FALSE)
                          EXCEPT !.pid = p],
            ![a1].auth = new_s]
  /\ sessions' = Append(sessions, new_s)
  /\ Call(<<>>)
  /\ UNCHANGED <<srv, display_servers, seat, vt>>

(* greeter_start_session_cb for session a1 of greeter b1, once the session *)
(* has its command.                                                        *)
greeter_start_session_cb ==
  LET s        == a1
      existing == find_user_session(sess[s].user, None)
      g        == get_greeter_session
      reuse    == g # None /\ sess[g].ds # None /\ ~resettable(b1) /\ conf.share
  IN
  /\ At("greeter_start_session_cb")
  /\ seat' = [seat EXCEPT !.session_to_activate = s]
  /\ \/ /\ existing \notin {None, s}
        /\ sess' = Logind(existing, "open")
        /\ Call(<<F("session_stop", s), F("seat_set_active_session", existing)>>)
        /\ UNCHANGED <<srv, display_servers>>
     \/ /\ existing \in {None, s} /\ reuse
        /\ sess' = [sess EXCEPT ![s].ds = sess[g].ds]
        /\ Call(<<F("session_stop", g)>>)
        /\ UNCHANGED <<srv, display_servers>>
     \/ /\ existing \in {None, s} /\ ~reuse
        /\ sess' = [sess EXCEPT ![s].ds = new_d]
        /\ AddServer
        /\ Call(<<F("start_display_server", new_d)>>)
  /\ UNCHANGED <<sessions, vt>>

----------------------------------------------------------------------------
(* seat_start                                                              *)

(* seat_real_start: the session of an automatic login, in the background   *)
(* or to be shown, or a greeter.                                           *)
seat_real_start ==
  /\ At("seat_real_start")
  /\ \/ /\ conf.autologin = "none"
        /\ Call(<<F("start_greeter", None)>>)
        /\ UNCHANGED <<sess, srv, sessions, display_servers, seat>>
     \/ /\ conf.autologin # "none" /\ conf.background
        /\ AddSession(conf.autologin, "autostart", None, TRUE)
        /\ Call(<<F("start_greeter", new_s)>>)
        /\ UNCHANGED <<srv, display_servers, seat>>
     \/ /\ conf.autologin # "none" /\ ~conf.background
        /\ AddSession(conf.autologin, "autostart", new_d, TRUE)
        /\ AddServer
        /\ seat' = [seat EXCEPT !.session_to_activate = new_s]
        /\ Call(<<F("start_display_server", new_d), F2("started_autologin", new_s, new_d)>>)
  /\ UNCHANGED vt

started_autologin ==
  /\ At("started_autologin")
  /\ srv' = IF ret THEN srv ELSE StopServers({b1})
  /\ Call(IF ret THEN <<F("seat_started", None)>>
          ELSE <<F("session_stop", a1), F("start_greeter", None)>>)
  /\ UNCHANGED <<sess, sessions, display_servers, seat, vt>>

start_greeter ==
  /\ At("start_greeter")
  /\ AddGreeterAndServer
  /\ Call(<<F("start_display_server", new_d), F2("started_greeter", new_s, new_d)>>
            \o IF a1 = None THEN <<>> ELSE <<F("start_background", a1)>>)
  /\ UNCHANGED vt

(* A seat that cannot show anything is stopped, and discarded by           *)
(* display_manager_add_seat.                                               *)
started_greeter ==
  /\ At("started_greeter")
  /\ srv' = IF ret THEN srv ELSE StopServers({b1})
  /\ IF ret THEN Call(IF Len(todo) > 1 THEN <<>> ELSE <<F("seat_started", None)>>)
     ELSE todo' = <<F("session_stop", a1), F("seat_stop", None), F("seat_discarded", None)>>
  /\ UNCHANGED <<sess, sessions, display_servers, seat, vt>>

start_background ==
  /\ At("start_background")
  /\ sess' = [sess EXCEPT ![a1].ds = new_d]
  /\ AddServer
  /\ Call(<<F("start_display_server", new_d), F("seat_started", None)>>)
  /\ UNCHANGED <<sessions, seat, vt>>

seat_started ==
  /\ At("seat_started") \/ At("seat_discarded")
  /\ seat' = [seat EXCEPT !.started = At("seat_started"), !.discarded = ~At("seat_started")]
  /\ Call(<<>>)
  /\ UNCHANGED <<sess, srv, sessions, display_servers, vt>>

----------------------------------------------------------------------------
(* Events                                                                  *)

(* The session's child has a result, or is gone (session_watch_cb).        *)
AuthenticationComplete(s, ok) ==
  /\ sess[s].pid = "child" /\ ~sess[s].complete
  /\ IF ok \/ sess[s].stopping THEN NoFault ELSE Fault
  /\ sess' = [sess EXCEPT ![s].complete = TRUE, ![s].ok = ok]
  /\ todo' = OnComplete(s)
  /\ UNCHANGED <<srv, sessions, display_servers, seat, vt>>

(* A child that has reported a failure ends.                               *)
Failed(s) == sess[s].complete /\ ~sess[s].ok

ChildExits(s) ==
  /\ sess[s].pid = "child"
  /\ IF sess[s].stopping \/ Failed(s) THEN NoFault ELSE Fault
  /\ sess' = [sess EXCEPT ![s].pid = "0", ![s].complete = TRUE]
  /\ todo' = (IF sess[s].complete THEN <<>> ELSE OnComplete(s)) \o <<F("session_stopped_cb", s)>>
  /\ UNCHANGED <<srv, sessions, display_servers, seat, vt>>

ServerReady(d) ==
  /\ srv[d].state = "starting"
  /\ srv' = [srv EXCEPT ![d].state = "ready"]
  /\ todo' = <<F("display_server_ready_cb", d)>>
  /\ UNCHANGED <<sess, sessions, display_servers, seat, vt>>

ServerStops(d) ==
  /\ srv[d].state \in {"starting", "ready"}
  /\ IF srv[d].stopping THEN NoFault ELSE "crash" \in conf.faults /\ Fault
  /\ srv' = [srv EXCEPT ![d].state = "stopped"]
  /\ todo' = <<F("display_server_stopped_cb", d)>>
  /\ UNCHANGED <<sess, sessions, display_servers, seat, vt>>

(* The user changes the terminal, and logind says which session is on it.  *)
SwitchVT(v) ==
  /\ vt # v /\ vt' = v
  /\ UNCHANGED <<sess, srv, sessions, display_servers, seat, todo>>

seat_set_externally_activated_session(s) ==
  /\ s \in ToSet(sessions) /\ s # seat.active_session
  /\ sess[s].run = "command" /\ sess[s].ds # None /\ vt # 0 /\ srv[sess[s].ds].vt = vt
  /\ seat' = [seat EXCEPT !.active_session = s]
  /\ UNCHANGED <<sess, srv, sessions, display_servers, vt, todo>>

(* Requests of a greeter: handle_connect, handle_authenticate,             *)
(* handle_authenticate_as_guest, handle_cancel_authentication,             *)
(* handle_start_session.                                                   *)
handle_connect(g) ==
  /\ is_greeter(g) /\ sess[g].pid = "child" /\ sess[g].run = "command" /\ ~sess[g].stopping /\ ~sess[g].connected
  /\ sess' = [sess EXCEPT ![g].connected = TRUE]
  /\ UNCHANGED <<srv, sessions, display_servers, seat, vt, todo>>

(* A greeter whose session was accepted and that is stopped asks no more.  *)
can_ask(g) ==
  /\ is_greeter(g) /\ sess[g].connected /\ sess[g].pid = "child"
  /\ ~(sess[g].start_session /\ sess[g].stopping)

(* reset_session.                                                          *)
ResetSession(g, guest) ==
  sess' = [sess EXCEPT ![g].auth = None, ![g].guest_auth = guest]
StopAuth(g) == IF sess[g].auth = None THEN <<>> ELSE <<F("session_stop", sess[g].auth)>>

handle_authenticate(g, user) ==
  /\ can_ask(g)
  /\ ResetSession(g, FALSE)
  /\ todo' = StopAuth(g) \o <<[F("greeter_create_session_cb", g) EXCEPT !.user = user]>>
  /\ UNCHANGED <<srv, sessions, display_servers, seat, vt>>

handle_authenticate_as_guest(g) ==
  /\ can_ask(g)
  /\ ResetSession(g, conf.allow_guest)
  /\ todo' = StopAuth(g)
  /\ UNCHANGED <<srv, sessions, display_servers, seat, vt>>

handle_cancel_authentication(g) ==
  /\ can_ask(g) /\ sess[g].auth # None
  /\ ResetSession(g, FALSE)
  /\ todo' = StopAuth(g)
  /\ UNCHANGED <<srv, sessions, display_servers, seat, vt>>

(* The session for a guest is new; the one for a user is the one that was  *)
(* authenticated, and stays behind when the session asked for is unknown.  *)
handle_start_session(g) ==
  LET s == sess[g].auth
      taken == [sess EXCEPT ![g].start_session = TRUE, ![g].auth = None]
  IN
  /\ can_ask(g)
  /\ \/ /\ sess[g].guest_auth
        /\ sess' = [sess EXCEPT ![g].start_session = TRUE,
                                ![new_s] = NewSession("guest", "autostart", None, TRUE)]
        /\ sessions' = Append(sessions, new_s)
        /\ todo' = <<F2("greeter_start_session_cb", new_s, g)>>
     \/ /\ sess[g].guest_auth /\ conf.unknown_sessions
        /\ sess' = [sess EXCEPT ![g].start_session = TRUE]
        /\ UNCHANGED <<sessions, todo>>
     \/ /\ ~sess[g].guest_auth /\ s # None /\ is_authenticated(s)
        /\ \/ /\ sess' = [taken EXCEPT ![s].argv = TRUE]
              /\ todo' = <<F2("greeter_start_session_cb", s, g)>>
           \/ /\ conf.unknown_sessions
              /\ sess' = taken
              /\ UNCHANGED todo
        /\ UNCHANGED sessions
  /\ UNCHANGED <<srv, display_servers, seat, vt>>

(* Requests of the D-Bus service.                                          *)
SwitchToGreeter ==
  /\ ~seat.stopped
  /\ todo' = <<F("seat_switch_to_greeter", None)>>
  /\ UNCHANGED seatState

seat_switch_to_user(user) ==
  LET s == find_user_session(user, None) IN
  /\ ~seat.stopped
  /\ conf.can_switch
  /\ s = None \/ s # seat.active_session
  /\ \E p \in StartedPids :
       /\ IF p = "child" THEN NoFault ELSE Fault
       /\ sess' = [sess EXCEPT ![new_s] = [NewSession(user, "switch", None, TRUE) EXCEPT !.pid = p]]
  /\ sessions' = Append(sessions, new_s)
  /\ UNCHANGED <<srv, display_servers, seat, vt, todo>>

seat_switch_to_guest ==
  LET s == find_guest_session IN
  /\ ~seat.stopped
  /\ conf.can_switch /\ conf.allow_guest
  /\ \/ /\ s # None
        /\ todo' = <<F("seat_set_active_session", s)>>
        /\ UNCHANGED <<sess, srv, sessions, display_servers, seat>>
     \/ /\ s = None
        /\ AddSession("guest", "autostart", new_d, TRUE)
        /\ AddServer
        /\ seat' = [seat EXCEPT !.session_to_activate = new_s]
        /\ todo' = <<F("start_display_server", new_d)>>
  /\ UNCHANGED vt

(* A greeter that can be reset is shown, another one is replaced on its    *)
(* display server, or a new one gets a server of its own.                  *)
seat_lock ==
  LET resettable_g == find_resettable_greeter
      g            == find_greeter_session
  IN
  /\ ~seat.stopped
  /\ conf.can_switch
  /\ \/ /\ resettable_g # None
        /\ todo' = <<F("seat_set_active_session", resettable_g)>>
        /\ UNCHANGED <<sess, srv, sessions, display_servers, seat>>
     \/ /\ resettable_g = None /\ g # None
        /\ todo' = <<F("session_stop", g), F("lock_with_replacement", sess[g].ds)>>
        /\ UNCHANGED <<sess, srv, sessions, display_servers, seat>>
     \/ /\ g = None
        /\ AddGreeterAndServer
        /\ todo' = <<F("start_display_server", new_d)>>
  /\ UNCHANGED vt

(* The display manager stops the seat.                                     *)
StopSeat ==
  /\ ~seat.stopping
  /\ todo' = <<F("seat_stop", None)>>
  /\ UNCHANGED seatState

(* The last reference to an object goes (session_finalize and the          *)
(* finalize functions of display servers).                                 *)
finalize ==
  /\ todo = <<>>
  /\ GarbageSessions \union GarbageServers # {}
  /\ sess' = [s \in SessionIds |-> IF s \in FreeSessions THEN NoSession ELSE sess[s]]
  /\ srv' = [d \in ServerIds |-> IF d \in FreeServers THEN NoServer ELSE srv[d]]
  /\ UNCHANGED <<sessions, display_servers, seat, vt, todo>>

----------------------------------------------------------------------------
(* The calls of one event run to their end; those of the second group may  *)
(* fail.                                                                   *)
CallStep ==
  \/ session_stop \/ return_false \/ or_stop
  \/ session_stopped_cb \/ stop_if_unused \/ display_server_stopped_cb \/ stop_on_server
  \/ greeter_failed \/ server_gone \/ check_stopped \/ seat_stop \/ seat_real_stop
  \/ seat_set_active_session \/ stop_greeters \/ clear_to_activate
  \/ session_authentication_complete_cb \/ switch_to_greeter_from_failed_session
  \/ seat_switch_to_greeter \/ switch_authentication_complete_cb \/ greeter_to_authenticate
  \/ lock_with_replacement \/ greeter_start_session_cb
  \/ seat_real_start \/ started_autologin \/ start_greeter \/ started_greeter
  \/ start_background \/ seat_started
  \/ finalize

FailingStep ==
  \/ start_display_server \/ start_session \/ run_session \/ display_server_ready_cb
  \/ greeter_create_session_cb

(* The main loop: something happens, something ends, somebody asks.        *)
Happens ==
  /\ \/ \E s \in SessionIds : seat_set_externally_activated_session(s) \/ handle_connect(s)
     \/ \E d \in ServerIds : ServerReady(d)
     \/ conf.vt_keys /\ \E v \in VTsInUse \union {0} : SwitchVT(v)
     \/ conf.stops /\ StopSeat
  /\ UNCHANGED <<requests, faults>>

Ends ==
  /\ \/ \E s \in SessionIds : ChildExits(s) \/ \E ok \in BOOLEAN : AuthenticationComplete(s, ok)
     \/ \E d \in ServerIds : ServerStops(d)
  /\ UNCHANGED requests

(* Bound: nobody asks when fewer than two objects of a kind are left.      *)
room == Cardinality(FreeSessions) > 1 /\ Cardinality(FreeServers) > 1

Asks ==
  /\ room
  /\ requests < conf.max_requests /\ requests' = requests + 1
  /\ \/ /\ "login" \in conf.asked /\ NoFault
        /\ \E g \in SessionIds :
             \/ \E user \in Users : handle_authenticate(g, user)
             \/ handle_authenticate_as_guest(g)
             \/ handle_cancel_authentication(g)
             \/ handle_start_session(g)
     \/ "SwitchToGreeter" \in conf.asked /\ NoFault /\ SwitchToGreeter
     \/ "SwitchToUser" \in conf.asked /\ \E user \in Users : seat_switch_to_user(user)
     \/ "SwitchToGuest" \in conf.asked /\ NoFault /\ seat_switch_to_guest
     \/ "Lock" \in conf.asked /\ NoFault /\ seat_lock

SeatNext ==
  \/ CallStep /\ UNCHANGED <<requests, faults, conf>>
  \/ FailingStep /\ UNCHANGED <<requests, conf>>
  \/ quiet /\ Happens /\ UNCHANGED conf
  \/ quiet /\ Ends /\ UNCHANGED conf
  \/ quiet /\ Asks /\ UNCHANGED conf

SeatSafety == SeatInit /\ [][SeatNext]_seatVars

----------------------------------------------------------------------------
(* Fairness: the calls of a callback come to their end, a child that was   *)
(* told to stop ends, and so does a server: its process is killed when it  *)
(* does not.                                                               *)
Calls ==
  \/ CallStep /\ UNCHANGED <<requests, faults, conf>>
  \/ FailingStep /\ UNCHANGED <<requests, conf>>
ToldToEnd(s) == quiet /\ sess[s].stopping /\ ChildExits(s) /\ UNCHANGED <<requests, conf>>
ToldToStop(d) == quiet /\ srv[d].stopping /\ ServerStops(d) /\ UNCHANGED <<requests, conf>>

SeatSpec ==
  /\ SeatSafety
  /\ WF_seatVars(Calls)
  /\ \A s \in SessionIds : WF_seatVars(ToldToEnd(s))
  /\ \A d \in ServerIds : WF_seatVars(ToldToStop(d))

----------------------------------------------------------------------------
(* Properties                                                              *)

alive(s) == sess[s].pid = "child"
running(s) == alive(s) /\ sess[s].run = "command"

(* One program at a time draws on a display server: the session that takes *)
(* over the server of a greeter runs only when the greeter is gone.        *)
OneProgramPerServer ==
  \A s, t \in SessionIds : s # t /\ running(s) /\ running(t) => sess[s].ds # sess[t].ds

(* The seat knows every child and every server that is running: what it    *)
(* has forgotten nobody would stop.                                        *)
NothingForgotten ==
  quiet => /\ \A s \in SessionIds : alive(s) => s \in ToSet(sessions)
           /\ \A d \in ServerIds : srv[d].state \in {"starting", "ready"} => d \in ToSet(display_servers)

(* When the seat says STOPPED nothing of it is left.                       *)
StoppedLeavesNothing ==
  seat.stopped => /\ \A s \in SessionIds : ~alive(s)
                  /\ \A d \in ServerIds : srv[d].state \notin {"starting", "ready"}

(* The seat keeps account of what it has started: it knows all of it, puts *)
(* one program on a server, and leaves nothing when it says STOPPED.       *)
SeatInv == SeatTypeOK /\ OneProgramPerServer /\ NothingForgotten /\ StoppedLeavesNothing

(* Nothing is under way: no child is to report, to start or to end.        *)
settled ==
  /\ quiet /\ seat.started /\ ~seat.stopping
  /\ \A s \in ToSet(sessions) : alive(s) /\ ~sess[s].stopping /\ sess[s].complete /\ sess[s].ok
  /\ \A d \in ToSet(display_servers) : srv[d].state = "ready" /\ ~srv[d].stopping

(* A seat is never left with a dark screen: once everything has come to    *)
(* rest some program is running on the terminal that is shown.             *)
SomethingShown ==
  settled => \E s \in ToSet(sessions) : running(s) /\ sess[s].ds # None /\ srv[sess[s].ds].vt = vt

(* A session that was chosen is running once everything has come to rest.  *)
ChosenSessionRuns == settled => \A s \in ToSet(sessions) : sess[s].argv => running(s)

(* A user who leaves a session by switching away from it leaves it locked. *)
(* (The keys of the console leave it as it is.)                            *)
LeftIsLocked ==
  \A s \in ToSet(sessions) :
    quiet /\ running(s) /\ sess[s].lock = "open" /\ ~is_greeter(s) /\ ~conf.vt_keys
      => seat.active_session \in {s, None}

(* Nobody's login, switch or lock ends the session of somebody else: a     *)
(* user's session that runs is told to stop only when the seat stops or    *)
(* its display server is gone.                                             *)
SessionsSurvive ==
  [][\A s \in SessionIds :
       running(s) /\ ~sess[s].stopping /\ ~is_greeter(s) /\ sess'[s].stopping
         => seat.stopping \/ srv[sess[s].ds].state = "stopped"]_seatVars

(* A seat that is stopping comes to its end and says STOPPED, unless       *)
(* something was created on it after it had told everything to stop.       *)
late == (\E s \in SessionIds : sess[s].late) \/ (\E d \in ServerIds : srv[d].late)
SeatStops == seat.stopping ~> seat.stopped \/ late

(* A seat that is stopping waits for its displays to stop (seat.c:63), and *)
(* for nothing else: it says STOPPED in the end.                           *)
StoppingEnds == seat.stopping ~> seat.stopped
=============================================================================
