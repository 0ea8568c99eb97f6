------------------------------- MODULE Unity -------------------------------
(***************************************************************************)
(* A seat shown by the Unity system compositor: seat-unity.c, the          *)
(* compositor's process and pipes (unity-system-compositor.c) and the X    *)
(* servers that run inside it (x-server-xmir.c).                           *)
(*                                                                         *)
(* The class these extend is modelled elsewhere and used here by its       *)
(* promise: a process that is told to stop ends (Process), an X server     *)
(* that is started says READY at most once and STOPPED once                *)
(* (XServerLocal), and the seat starts, shows and ends sessions as it      *)
(* likes (Seat).                                                           *)
(***************************************************************************)
EXTENDS Naturals, FiniteSets, Sequences, SequencesExt

CONSTANTS
  MaxSessions,    \* sessions, in the order in which they are made
  Managers,       \* is xdmcp-manager set: a set of BOOLEANs
  EarlyRequests   \* may D-Bus ask for a session before the compositor is ready

ASSUME UnityAssumption == MaxSessions \in Nat \ {0} /\ Managers \subseteq BOOLEAN

Sessions == 1..MaxSessions
XDMCP == 0                        \* the X server used for XDMCP
XServers == {XDMCP} \cup Sessions \* at most one X server for each session
compositor == MaxSessions + 1
None == MaxSessions + 2
Ordered == [k \in 1..(MaxSessions + 1) |-> k - 1]  \* the X servers as they are made
NoId == <<>>

VARIABLES
  usc,      \* the compositor: DisplayServer and UnitySystemCompositor
  xmir,     \* the X servers
  seat,     \* Seat and SeatUnity
  session,  \* the sessions
  shown     \* what the compositor was last asked to show, and to expect next

unityVars == <<usc, xmir, seat, session, shown>>

(* The state handlers pass on to the handlers they call.                   *)
Now == [usc |-> usc, xmir |-> xmir, seat |-> seat, session |-> session, shown |-> shown]
Becomes(u) ==
  \E v \in {u} :
    /\ usc' = v.usc
    /\ xmir' = v.xmir
    /\ seat' = v.seat
    /\ session' = v.session
    /\ shown' = v.shown

(* "said" is what the compositor has signalled, "timer" whether GLib still *)
(* has the timeout, "unread" whether READY lies in the pipe.               *)
NewCompositor ==
  [process |-> "none", is_ready |-> FALSE, announced |-> FALSE, stopping |-> FALSE,
   timeout_source |-> FALSE, timer |-> FALSE, have_vt_ref |-> FALSE, unread |-> FALSE,
   said |-> <<>>, next_session_id |-> 0, next_greeter_id |-> 0]

NewXServer ==
  [state |-> "none", waiting |-> FALSE, stopping |-> FALSE, parent |-> FALSE, mir_id |-> NoId]

(* History: "early", a session was made before the compositor was ready;   *)
(* "late", the compositor was ready when the seat was stopping already.    *)
NewSeat(manager) ==
  [phase |-> "new", xdmcp_manager |-> manager, compositor |-> FALSE, xdmcp_x_server |-> FALSE,
   stopping |-> FALSE, stopped |-> FALSE, display_servers |-> {}, active_session |-> None,
   next_x_server_id |-> 0, early |-> FALSE, late |-> FALSE, crashed |-> FALSE]

NewSession ==
  [state |-> "none", greeter |-> FALSE, display_server |-> None, MIR_SERVER_NAME |-> NoId]

UnityInit ==
  /\ usc = NewCompositor
  /\ xmir = [i \in XServers |-> NewXServer]
  /\ \E manager \in Managers : seat = NewSeat(manager)
  /\ session = [s \in Sessions |-> NewSession]
  /\ shown = [active |-> NoId, next |-> NoId]

(* The compositor is alive while the seat or an X server refers to it; a   *)
(* seat that said STOPPED is freed, and what it owns with it.              *)
Alive(u) ==
  /\ ~u.seat.stopped
  /\ u.seat.compositor \/ \E i \in XServers : u.xmir[i].parent /\ u.xmir[i].state # "stopped"

----------------------------------------------------------------------------
(* Stopping.                                                               *)

(* Every kind of X server: process_stop does nothing to a process that is  *)
(* not there.                                                              *)
x_server_local_stop(u, servers) ==
  [u EXCEPT !.xmir = [i \in XServers |-> [u.xmir[i] EXCEPT !.stopping = @ \/ i \in servers]]]

unity_system_compositor_stop(u) ==
  [u EXCEPT !.usc.process = IF @ = "running" THEN "told" ELSE @]

(* Servers that are stopping already are left alone.                       *)
display_server_stop(u, servers) ==
  LET a == x_server_local_stop(u, servers)
  IN  IF compositor \in servers /\ ~u.usc.stopping
      THEN unity_system_compositor_stop([a EXCEPT !.usc.stopping = TRUE]) ELSE a

(* Sessions the seat still has.                                            *)
Present(u) == {s \in Sessions : u.session[s].state \notin {"none", "ended"}}

(* check_stopped of seat.c.                                                *)
seat_check_stopped(u) ==
  IF u.seat.stopping /\ u.seat.display_servers = {} /\ Present(u) = {}
  THEN [u EXCEPT !.seat.stopped = TRUE]
  ELSE u

seat_real_stop(u) ==
  LET a == seat_check_stopped(u)
      b == display_server_stop(a, a.seat.display_servers)
  IN  IF a.seat.stopped THEN a
      ELSE [b EXCEPT !.session = [s \in Sessions |->
              IF s \in Present(a) THEN [@[s] EXCEPT !.state = "stopping"] ELSE @[s]]]

check_stopped(u) ==
  IF ~u.seat.compositor /\ ~u.seat.xdmcp_x_server THEN seat_real_stop(u) ELSE u

seat_unity_stop(u) ==
  LET a == IF u.seat.compositor THEN display_server_stop(u, {compositor}) ELSE u
      b == IF a.seat.xdmcp_x_server THEN display_server_stop(a, {XDMCP}) ELSE a
  IN  check_stopped(b)

seat_stop(u) ==
  IF u.seat.stopping THEN u ELSE seat_unity_stop([u EXCEPT !.seat.stopping = TRUE])

----------------------------------------------------------------------------
(* STOPPED.                                                                *)

xdmcp_x_server_stopped_cb(u) ==
  LET a == [u EXCEPT !.seat.xdmcp_x_server = FALSE]
  IN  IF a.seat.stopping THEN check_stopped(a) ELSE seat_stop(a)

(* seat.c.  What the seat shows instead is for Seat to say.                *)
display_server_stopped_cb(u, d) ==
  LET a == [u EXCEPT !.seat.display_servers = @ \ {d}]
  IN  IF a.seat.stopping THEN seat_check_stopped(a)
      ELSE [a EXCEPT !.session = [s \in Sessions |->
              IF s \in Present(a) /\ a.session[s].display_server = d
              THEN [@[s] EXCEPT !.state = "stopping"] ELSE @[s]]]

(* The seat clears its pointer; it keeps the handlers.                     *)
(* Mutant of compositor_stopped_cb: stops the seat, which may be stopping  *)
(* already.                                                                *)
compositor_stopped_cb_once(u) == seat_stop([u EXCEPT !.seat.compositor = FALSE])

compositor_stopped_cb(u) ==
  LET a == [u EXCEPT !.seat.compositor = FALSE]
  IN  IF a.seat.stopping THEN check_stopped(a) ELSE seat_stop(a)

(* compositor_stopped_cb of x-server-xmir.c, for every X server there is.  *)
xmir_compositor_stopped_cb(u) ==
  display_server_stop(u, {i \in XServers : u.xmir[i].parent /\ u.xmir[i].state # "stopped"})

(* The compositor says STOPPED: handlers run in the order in which they    *)
(* were connected.                                                         *)
display_server_real_stop(u) ==
  LET a == compositor_stopped_cb([u EXCEPT !.usc.said = Append(@, "STOPPED")])
      b == IF compositor \in a.seat.display_servers THEN display_server_stopped_cb(a, compositor) ELSE a
  IN  xmir_compositor_stopped_cb(b)

(* The same for an X server.                                               *)
XServerStopped(u, i) ==
  LET a == [u EXCEPT !.xmir[i].state = "stopped"]
  IN  IF i = XDMCP THEN xdmcp_x_server_stopped_cb(a) ELSE display_server_stopped_cb(a, i)

----------------------------------------------------------------------------
(* Starting.  "fails" is the set of X servers that cannot be started.      *)

(* A server that cannot be started says STOPPED before start returns.      *)
x_server_local_start(u, i, fails) ==
  IF i \in fails THEN XServerStopped(u, i) ELSE [u EXCEPT !.xmir[i].state = "starting"]

(* The compositor has been started before, so that it refuses to start     *)
(* again and an X server that has to wait for it seems to have failed.     *)
Starts(u, i, fails) == u.xmir[i].parent /\ u.usc.announced /\ i \notin fails
x_server_xmir_start(u, i, fails) ==
  IF u.xmir[i].parent /\ u.usc.announced THEN x_server_local_start(u, i, fails)
  ELSE [u EXCEPT !.xmir[i].waiting = TRUE]

(* compositor_ready_cb of x-server-xmir.c.                                 *)
xmir_compositor_ready_cb(u, i, fails) ==
  LET a == [u EXCEPT !.xmir[i].waiting = FALSE]
      b == x_server_local_start(a, i, fails)
  IN  IF ~u.xmir[i].waiting \/ ~u.xmir[i].parent THEN u
      ELSE IF i \in fails THEN display_server_stop(b, {i}) ELSE b

create_x_server(u, i) ==
  [u EXCEPT !.xmir[i] = [NewXServer EXCEPT !.state = "new", !.parent = u.seat.compositor,
                                           !.mir_id = <<"x", u.seat.next_x_server_id>>],
            !.seat.next_x_server_id = @ + 1]

(* Also create_display_server of seat.c, that lists the server.            *)
seat_unity_create_display_server(u, s, type) ==
  IF type = "x"
  THEN [create_x_server(u, s) EXCEPT !.seat.display_servers = @ \cup {s},
                                     !.session[s].display_server = s]
  ELSE IF u.seat.compositor
  THEN [u EXCEPT !.seat.display_servers = @ \cup {compositor},
                 !.session[s].display_server = compositor]
  ELSE [u EXCEPT !.session[s].state = "stopping"]

(* The seat makes a session and starts its display server.                 *)
StartSession(u, s, greeter, type, fails) ==
  LET a == [u EXCEPT !.session[s] = [NewSession EXCEPT !.state = "waiting", !.greeter = greeter],
                     !.seat.early = @ \/ u.usc.said = <<>>]
      b == seat_unity_create_display_server(a, s, type)
  IN  IF type = "x" THEN x_server_xmir_start(b, s, fails) ELSE b

Unused(u) == {s \in Sessions : u.session[s].state = "none"}
NextSession(u) == CHOOSE s \in Unused(u) : \A t \in Unused(u) : s <= t

(* seat_real_start: a greeter, on a server that is stopped if it cannot be *)
(* started.                                                                *)
seat_real_start(u, type, fails) ==
  LET s == NextSession(u)
      a == StartSession(u, s, TRUE, type, fails)
  IN  IF type = "x" /\ ~Starts(a, s, fails)
      THEN display_server_stop([a EXCEPT !.session[s].state = "stopping"], {s})
      ELSE a

(* compositor_ready_cb of seat-unity.c.                                    *)
compositor_ready_cb(u, type, fails) ==
  LET a == [create_x_server(u, XDMCP) EXCEPT !.seat.xdmcp_x_server = TRUE]
      b == x_server_xmir_start(a, XDMCP, fails)
      c == IF Starts(b, XDMCP, fails) THEN b ELSE seat_stop(b)
  IN  seat_real_start(IF u.seat.xdmcp_manager THEN c ELSE u, type, fails)

(* The compositor says READY: to the seat, then to the X servers it had    *)
(* made before.                                                            *)
display_server_real_start(u, type, fails) ==
  LET a == [u EXCEPT !.usc.announced = TRUE, !.usc.said = Append(@, "READY"),
                     !.seat.late = u.seat.stopping]
      ready(c, i) == IF u.xmir[i].state = "none" THEN c ELSE xmir_compositor_ready_cb(c, i, fails)
  IN  FoldLeft(ready, compositor_ready_cb(a, type, fails), Ordered)

----------------------------------------------------------------------------
(* The compositor and its pipe.                                            *)

unity_system_compositor_set_vt(u, vt) == [u EXCEPT !.usc.have_vt_ref = vt > 0]

(* Without its command, a pipe or a process the compositor does not start, *)
(* and says nothing.                                                       *)
unity_system_compositor_start(u, works) ==
  IF works
  THEN [u EXCEPT !.usc.process = "running", !.usc.timeout_source = TRUE, !.usc.timer = TRUE]
  ELSE u

unity_system_compositor_finalize(u) ==
  [u EXCEPT !.usc.have_vt_ref = FALSE, !.usc.timer = @ /\ ~u.usc.timeout_source,
            !.usc.timeout_source = FALSE]

(* A message has been read: PING is answered and changes nothing, READY    *)
(* counts once.                                                            *)
(* Mutant of read_cb: READY always counts.                                 *)
read_cb_again(u, type, fails) ==
  display_server_real_start(
    [u EXCEPT !.usc.unread = FALSE, !.usc.is_ready = TRUE,
              !.usc.timer = @ /\ ~u.usc.timeout_source, !.usc.timeout_source = FALSE],
    type, fails)

read_cb(u, type, fails) ==
  LET a == [u EXCEPT !.usc.unread = FALSE]
  IN  IF u.usc.is_ready THEN a
      ELSE display_server_real_start(
             [a EXCEPT !.usc.is_ready = TRUE, !.usc.timer = @ /\ ~u.usc.timeout_source,
                       !.usc.timeout_source = FALSE],
             type, fails)

(* The callback returns TRUE: GLib keeps the timeout, of which the         *)
(* compositor has forgotten the number.                                    *)
timeout_cb(u) == [display_server_stop(u, {compositor}) EXCEPT !.usc.timeout_source = FALSE]

stopped_cb(u) ==
  display_server_real_stop(
    [u EXCEPT !.usc.process = "gone", !.usc.timer = @ /\ ~u.usc.timeout_source,
              !.usc.timeout_source = FALSE, !.usc.have_vt_ref = FALSE])

----------------------------------------------------------------------------
(* What is shown.                                                          *)

(* A name is given once, when the session is started.                      *)
unity_system_compositor_connect_session(u, s) ==
  IF u.session[s].MIR_SERVER_NAME # NoId THEN u
  ELSE IF u.session[s].greeter
  THEN [u EXCEPT !.session[s].MIR_SERVER_NAME = <<"greeter", u.usc.next_greeter_id>>,
                 !.usc.next_greeter_id = @ + 1]
  ELSE [u EXCEPT !.session[s].MIR_SERVER_NAME = <<"session", u.usc.next_session_id>>,
                 !.usc.next_session_id = @ + 1]

get_mir_id(u, s) ==
  IF s = None THEN NoId
  ELSE IF u.session[s].display_server = compositor THEN u.session[s].MIR_SERVER_NAME
  ELSE u.xmir[u.session[s].display_server].mir_id

(* g_return_if_fail (compositor != NULL).                                  *)
unity_system_compositor_set_active_session(u, id) ==
  IF u.seat.compositor THEN [u EXCEPT !.shown.active = id] ELSE u

unity_system_compositor_set_next_session(u, id) ==
  IF u.seat.compositor THEN [u EXCEPT !.shown.next = id] ELSE u

(* Mutant of seat_unity_set_active_session: compares the display servers.  *)
seat_unity_set_active_session_server(u, s) ==
  LET old == u.seat.active_session
      a == [u EXCEPT !.seat.active_session = s]
  IN  IF old # None /\ u.session[old].display_server = u.session[s].display_server THEN a
      ELSE unity_system_compositor_set_active_session(a, get_mir_id(u, s))

seat_unity_set_active_session(u, s) ==
  LET a == [u EXCEPT !.seat.active_session = s]
  IN  IF get_mir_id(u, u.seat.active_session) = get_mir_id(u, s) THEN a
      ELSE unity_system_compositor_set_active_session(a, get_mir_id(u, s))

seat_unity_set_next_session(u, s) ==
  IF get_mir_id(u, s) = NoId THEN u
  ELSE unity_system_compositor_set_next_session(u, get_mir_id(u, s))

----------------------------------------------------------------------------
(* Steps.                                                                  *)

Runs == ~seat.crashed /\ seat.phase = "started" /\ ~seat.stopped

(* Called once.  A seat that cannot start is dropped, with what it holds.  *)
seat_unity_start ==
  /\ seat.phase = "new"
  /\ \/ Becomes([Now EXCEPT !.seat.phase = "failed"])  \* no VT to run on
     \/ \E vt \in {0, 1}, works \in BOOLEAN :
          LET a == unity_system_compositor_set_vt([Now EXCEPT !.seat.compositor = works], vt)
              b == unity_system_compositor_start(a, works)
          IN  Becomes(IF works THEN [b EXCEPT !.seat.phase = "started"]
                      ELSE unity_system_compositor_finalize([b EXCEPT !.seat.phase = "failed"]))

(* External: the compositor says that it is ready, perhaps repeatedly.     *)
WriteReady ==
  /\ Runs /\ usc.process \in {"running", "told"}
  /\ usc' = [usc EXCEPT !.unread = TRUE]
  /\ UNCHANGED <<xmir, seat, session, shown>>

ReadFromCompositor ==
  /\ Runs /\ usc.unread /\ Alive(Now) /\ Unused(Now) # {}
  /\ \E type \in {"x", "mir"}, fails \in {{}, {XDMCP}, Sessions} :
       Becomes(read_cb(Now, type, fails))

(* On a compositor that was freed the callback writes to freed memory.     *)
Timeout ==
  /\ ~seat.crashed /\ usc.timer
  /\ IF Alive(Now) THEN Becomes(timeout_cb(Now))
     ELSE \E crash \in BOOLEAN : Becomes([Now EXCEPT !.seat.crashed = crash])

CompositorExits == Runs /\ usc.process \in {"running", "told"} /\ Becomes(stopped_cb(Now))

(* got_signal_cb and display_server_ready_cb of seat.c, that stops a       *)
(* server nobody needs any more.                                           *)
XServerReady ==
  \E i \in XServers :
    /\ Runs /\ xmir[i].state = "starting"
    /\ LET a == [Now EXCEPT !.xmir[i].state = "ready"]
       IN  Becomes(IF i = XDMCP \/ \E s \in Present(a) : a.session[s].display_server = i
                   THEN a ELSE display_server_stop(a, {i}))

XServerExits(i) ==
  Runs /\ xmir[i].state \in {"starting", "ready"} /\ Becomes(XServerStopped(Now, i))

(* The seat makes another session, on a server of its own or on that of a  *)
(* greeter it ends.                                                        *)
MakeSession ==
  /\ Runs /\ ~seat.stopping /\ Unused(Now) # {}
  /\ usc.announced \/ EarlyRequests
  /\ \/ \E greeter \in BOOLEAN, type \in {"x", "mir"}, fails \in {{}, Sessions} :
          Becomes(StartSession(Now, NextSession(Now), greeter, type, fails))
     \/ \E g \in Present(Now) :
          /\ session[g].greeter /\ session[g].state = "running"
          /\ session[g].display_server \in Sessions
          /\ Becomes([Now EXCEPT
               !.session[NextSession(Now)] =
                  [NewSession EXCEPT !.state = "waiting", !.display_server = session[g].display_server],
               !.session[g].state = "stopping"])

(* Its server is ready and its own: the session is connected, run and      *)
(* shown.                                                                  *)
RunSession ==
  \E s \in Sessions :
    /\ Runs /\ session[s].state = "waiting" /\ ~seat.stopping
    /\ IF session[s].display_server = compositor THEN usc.announced
       ELSE /\ xmir[session[s].display_server].state = "ready"
            /\ \A t \in Present(Now) \ {s} : session[t].display_server # session[s].display_server
    /\ LET a == [Now EXCEPT !.session[s].state = "running"]
           b == IF session[s].display_server = compositor
                THEN unity_system_compositor_connect_session(a, s) ELSE a
       IN  Becomes(seat_unity_set_active_session(b, s))

ShowSession ==
  \E s \in Sessions : Runs /\ session[s].state = "running" /\ Becomes(seat_unity_set_active_session(Now, s))

MarkNext ==
  \E s \in Sessions : Runs /\ session[s].state = "running" /\ Becomes(seat_unity_set_next_session(Now, s))

(* session_stopped_cb of seat.c: a server nobody uses is stopped, but      *)
(* never the compositor (seat_unity_display_server_is_used).               *)
SessionEnds(s) ==
  LET d == session[s].display_server
      a == [Now EXCEPT !.session[s].state = "ended"]
      used == d \in {compositor, None} \/ \E t \in Present(a) : a.session[t].display_server = d
  IN  /\ Runs /\ session[s].state \in {"running", "stopping"}
      /\ Becomes(IF seat.stopping THEN seat_check_stopped(a)
                 ELSE IF used THEN a ELSE display_server_stop(a, {d}))

StopSeat == Runs /\ ~seat.stopping /\ Becomes(seat_stop(Now))

UnityNext ==
  \/ seat_unity_start \/ WriteReady \/ ReadFromCompositor \/ Timeout \/ CompositorExits
  \/ XServerReady \/ (\E i \in XServers : XServerExits(i)) \/ MakeSession \/ RunSession \/ ShowSession \/ MarkNext
  \/ (\E s \in Sessions : SessionEnds(s)) \/ StopSeat

(* What was told to stop ends: processes are killed after five seconds,    *)
(* and sessions are taken to obey SIGTERM (session_real_stop has no        *)
(* timeout).                                                               *)
(* Each formula is weak fairness of the step that ends one of them, which  *)
(* is enabled exactly as long as the formula says and then never again.    *)
ToldEnds ==
  /\ []<>~(Runs /\ usc.process = "told")
  /\ \A i \in XServers :
       []<>~(Runs /\ xmir[i].stopping /\ xmir[i].state \in {"starting", "ready"})
  /\ \A s \in Sessions : []<>~(Runs /\ session[s].state = "stopping")

UnitySpec == UnityInit /\ [][UnityNext]_unityVars /\ ToldEnds

----------------------------------------------------------------------------
(* The compositor says READY at most once, STOPPED at most once and        *)
(* nothing after it, whenever the timeout, READY and the end of the        *)
(* process come.                                                           *)
CompositorSaysOnce ==
  ~seat.early => usc.said \in {<<>>, <<"READY">>, <<"STOPPED">>, <<"READY", "STOPPED">>}

(* What the code does not look after: the X server of a session that is    *)
(* made before READY, which has no process that could end, and that of     *)
(* XDMCP, which READY starts on a seat that is stopping.                   *)
Excused == seat.early \/ (seat.late /\ seat.xdmcp_manager)

(* When the seat says STOPPED, after which nobody looks after what it      *)
(* started, every session has ended and every process has ended or was     *)
(* told to.                                                                *)
SeatStoppedClean ==
  seat.stopped /\ ~Excused =>
    /\ usc.process # "running"
    /\ \A i \in XServers : xmir[i].state \in {"starting", "ready"} => xmir[i].stopping
    /\ Present(Now) = {}

(* READY, the timeout, the end of the compositor and the stop of the seat  *)
(* may cross in any order: each is said once, and the seat leaves nothing. *)
UnityInv == CompositorSaysOnce /\ SeatStoppedClean

(* The compositor was asked to show the session the seat takes for the     *)
(* active one, and no other session has its name.                          *)
ActiveShown ==
  \A a \in Sessions :
    seat.active_session = a /\ session[a].state = "running" /\ seat.compositor =>
      /\ shown.active = get_mir_id(Now, a)
      /\ \A t \in Sessions \ {a} :
           session[t].state = "running" => get_mir_id(Now, t) # shown.active

(* A seat that is stopping says STOPPED, whatever ends first.              *)
SeatStops == seat.stopping ~> (seat.stopped \/ Excused \/ seat.crashed)

(* "If running as an XDMCP client then just start an X server"             *)
(* (seat-unity.c): a seat that is an XDMCP client has no greeter.          *)
JustAnXServer == seat.xdmcp_manager => seat.display_servers = {}
=============================================================================
