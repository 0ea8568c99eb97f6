---------------------------- MODULE Unity_proofs ----------------------------
(***************************************************************************)
(* Proofs about the seat with a Unity system compositor, for any number of *)
(* sessions and any kind of seat.                                          *)
(***************************************************************************)
EXTENDS Unity, SequenceTheorems, WellFoundedInduction, TLAPS

(***************************************************************************)
(* Types                                                                   *)
(***************************************************************************)

Kinds == {"x", "greeter", "session"}
Ids == {NoId} \cup (Kinds \X Nat)
PresentStates == {"waiting", "running", "stopping"}

CompositorType ==
  [process : {"none", "running", "told", "gone"}, is_ready : BOOLEAN, announced : BOOLEAN,
   stopping : BOOLEAN, timeout_source : BOOLEAN, timer : BOOLEAN, have_vt_ref : BOOLEAN,
   unread : BOOLEAN, said : Seq({"READY", "STOPPED"}), next_session_id : Nat, next_greeter_id : Nat]
XServerType ==
  [state : {"none", "new", "starting", "ready", "stopped"}, waiting : BOOLEAN, stopping : BOOLEAN,
   parent : BOOLEAN, mir_id : Ids]
SeatType ==
  [phase : {"new", "started", "failed"}, xdmcp_manager : Managers, compositor : BOOLEAN,
   xdmcp_x_server : BOOLEAN, stopping : BOOLEAN, stopped : BOOLEAN,
   display_servers : SUBSET (Sessions \cup {compositor}), active_session : Sessions \cup {None},
   next_x_server_id : Nat, early : BOOLEAN, late : BOOLEAN, crashed : BOOLEAN]
SessionType ==
  [state : {"none", "ended"} \cup PresentStates, greeter : BOOLEAN,
   display_server : Sessions \cup {compositor, None}, MIR_SERVER_NAME : Ids]
StateType ==
  [usc : CompositorType, xmir : [XServers -> XServerType], seat : SeatType,
   session : [Sessions -> SessionType], shown : [active : Ids, next : Ids]]

(***************************************************************************)
(* The invariant, of the state that handlers pass on                       *)
(***************************************************************************)

(* How far the seat and its compositor are.                                *)
Lives(u) ==
  /\ u.seat.phase # "started" =>
       /\ ~u.usc.timer /\ ~u.seat.compositor /\ ~u.seat.stopping /\ ~u.usc.stopping /\ u.usc.process = "none"
       /\ u.seat.active_session = None /\ u.shown.active = NoId
  /\ u.seat.phase = "started" => (u.seat.compositor <=> u.usc.process \in {"running", "told"})
  /\ u.seat.stopping \/ u.usc.stopping => u.usc.process # "running"
  /\ u.seat.late => u.usc.is_ready

(* The X servers the seat knows.                                           *)
Servers(u) ==
  /\ \A i \in Sessions : i \in u.seat.display_servers <=> u.xmir[i].state \notin {"none", "stopped"}
  /\ \A i \in Sessions : u.xmir[i].state # "none" => u.session[i].state # "none"
  /\ u.xmir[XDMCP].state \notin {"none", "stopped"} => u.seat.xdmcp_x_server
  /\ \A i \in XServers : u.xmir[i].state = "none" => ~u.xmir[i].parent
  /\ \A i \in XServers : u.xmir[i].waiting => u.xmir[i].state = "new"

(* A session that runs has its X server for itself.                        *)
Hosted(u) ==
  /\ \A s \in Sessions : u.session[s].state \in {"waiting", "running"} => u.session[s].display_server # None
  /\ \A s \in Sessions : u.session[s].display_server \in Sessions => u.xmir[u.session[s].display_server].state # "none"
  /\ \A s, t \in Sessions :
       s # t /\ u.session[s].state = "running" /\ u.session[t].state \in PresentStates
         /\ u.session[s].display_server \in Sessions
         => u.session[s].display_server # u.session[t].display_server

(* The names given so far.                                                 *)
Below(kind, k) == {<<kind, n>> : n \in 0..(k - 1)}
Given(c) == Below("greeter", c.next_greeter_id) \cup Below("session", c.next_session_id)
Named(u) ==
  /\ \A i \in XServers : u.xmir[i].state # "none" => u.xmir[i].mir_id \in Below("x", u.seat.next_x_server_id)
  /\ \A i, j \in XServers :
       i # j /\ u.xmir[i].state # "none" /\ u.xmir[j].state # "none" => u.xmir[i].mir_id # u.xmir[j].mir_id
  /\ \A s \in Sessions : u.session[s].MIR_SERVER_NAME # NoId => u.session[s].MIR_SERVER_NAME \in Given(u.usc)
  /\ \A s, t \in Sessions :
       s # t /\ u.session[s].MIR_SERVER_NAME # NoId => u.session[s].MIR_SERVER_NAME # u.session[t].MIR_SERVER_NAME
  /\ \A s \in Sessions :
       u.session[s].state = "running" /\ u.session[s].display_server = compositor
         => u.session[s].MIR_SERVER_NAME # NoId

(* The compositor was asked for the active session, whether or not it      *)
(* still runs.                                                             *)
Active(u) ==
  /\ u.seat.active_session # None =>
       /\ u.session[u.seat.active_session].state \notin {"none", "waiting"}
       /\ u.session[u.seat.active_session].display_server # None
  /\ u.seat.compositor => u.shown.active = get_mir_id(u, u.seat.active_session)

(* What the compositor has said, and that nothing was made before.         *)
Says(u) ==
  ~u.seat.early =>
    /\ u.usc.said \in {<<>>, <<"READY">>, <<"STOPPED">>, <<"READY", "STOPPED">>}
    /\ u.usc.is_ready <=> u.usc.said \in {<<"READY">>, <<"READY", "STOPPED">>}
    /\ u.usc.process = "gone" <=> u.usc.said \in {<<"STOPPED">>, <<"READY", "STOPPED">>}
    /\ ~u.usc.is_ready => /\ \A s \in Sessions : u.session[s].state = "none"
                          /\ \A i \in XServers : u.xmir[i].state = "none"

(* A seat that is stopping has told its X servers, and says STOPPED when   *)
(* nothing is left.                                                        *)
ExcusedIn(u) == u.seat.early \/ (u.seat.late /\ u.seat.xdmcp_manager)
Clean(u) ==
  ~ExcusedIn(u) =>
    /\ u.seat.stopping /\ u.xmir[XDMCP].state \in {"starting", "ready"} => u.xmir[XDMCP].stopping
    /\ u.seat.stopped => u.seat.stopping /\ u.seat.display_servers = {} /\ Present(u) = {}

(* Without the compositor the seat stops.                                  *)
Ending(u) == u.seat.phase = "started" /\ ~u.seat.compositor => u.seat.stopping

Core(u) == u \in StateType /\ Lives(u) /\ Servers(u) /\ Hosted(u) /\ Named(u) /\ Active(u)
Good(u) == Core(u) /\ Says(u) /\ Clean(u) /\ Ending(u)

UnityIInv == Good(Now)

(***************************************************************************)
(* The steps that only tell things to stop: v comes after u, and has the   *)
(* same servers, sessions and names.                                       *)
(***************************************************************************)

SameCompositor(c, b) ==
  /\ c.said = b.said /\ c.is_ready = b.is_ready /\ c.announced = b.announced /\ c.timer = b.timer
  /\ c.next_session_id = b.next_session_id /\ c.next_greeter_id = b.next_greeter_id
SameSeat(c, b) ==
  /\ c.phase = b.phase /\ c.xdmcp_manager = b.xdmcp_manager /\ c.compositor = b.compositor
  /\ c.xdmcp_x_server = b.xdmcp_x_server /\ c.display_servers = b.display_servers
  /\ c.active_session = b.active_session /\ c.next_x_server_id = b.next_x_server_id
  /\ c.early = b.early /\ c.late = b.late
SameXServer(c, b) ==
  /\ c.state = b.state /\ c.parent = b.parent /\ c.mir_id = b.mir_id /\ c.waiting = b.waiting
  /\ b.stopping => c.stopping
NearerEnd(c, b) ==
  /\ c.display_server = b.display_server /\ c.MIR_SERVER_NAME = b.MIR_SERVER_NAME
  /\ \/ c.state = b.state
     \/ b.state \in PresentStates /\ c.state \in {"stopping", "ended"}
Told(c, b) ==
  /\ c.process = b.process \/ (b.process = "running" /\ c.process = "told")
  /\ c.stopping /\ ~b.stopping => c.process # "running"
  /\ b.stopping => c.stopping

Quiet(v, u) ==
  /\ v \in StateType
  /\ SameCompositor(v.usc, u.usc) /\ Told(v.usc, u.usc)
  /\ SameSeat(v.seat, u.seat) /\ (u.seat.stopping => v.seat.stopping) /\ (u.seat.stopped => v.seat.stopped)
  /\ \A i \in XServers : SameXServer(v.xmir[i], u.xmir[i])
  /\ \A s \in Sessions : NearerEnd(v.session[s], u.session[s])
  /\ v.shown = u.shown

LEMMA Apart ==
  /\ XServers = Sessions \cup {XDMCP} /\ XDMCP \notin Sessions
  /\ compositor \notin XServers /\ None \notin XServers /\ compositor # None
BY UnityAssumption DEF XServers, Sessions, XDMCP, compositor, None

LEMMA Fields ==
  ASSUME NEW u \in StateType
  PROVE  /\ u.usc \in CompositorType /\ u.seat \in SeatType
         /\ \A i \in XServers : u.xmir[i] \in XServerType
         /\ \A s \in Sessions : u.session[s] \in SessionType
         /\ u.shown \in [active : Ids, next : Ids]
BY DEF StateType

LEMMA QuietSelf == ASSUME NEW u \in StateType PROVE Quiet(u, u)
BY DEF Quiet, SameCompositor, Told, SameSeat, SameXServer, NearerEnd

LEMMA QuietTwice ==
  ASSUME NEW u \in StateType, NEW v, NEW w, Quiet(v, u), Quiet(w, v)
  PROVE  Quiet(w, u)
<1>1. w \in StateType /\ w.shown = u.shown
  BY DEF Quiet
<1>2. SameCompositor(w.usc, u.usc)
  BY DEF Quiet, SameCompositor
<1>3. Told(w.usc, u.usc)
  BY DEF Quiet, Told
<1>4. SameSeat(w.seat, u.seat) /\ (u.seat.stopping => w.seat.stopping) /\ (u.seat.stopped => w.seat.stopped)
  BY DEF Quiet, SameSeat
<1>5. \A i \in XServers : SameXServer(w.xmir[i], u.xmir[i])
  BY DEF Quiet, SameXServer
<1>6. \A s \in Sessions : NearerEnd(w.session[s], u.session[s])
  BY DEF Quiet, NearerEnd, PresentStates
<1> QED BY <1>1, <1>2, <1>3, <1>4, <1>5, <1>6 DEF Quiet

(* What stands in the way of an invariant then is only that the seat is    *)
(* stopping and the compositor was not told.                               *)
LEMMA QuietKeeps ==
  ASSUME NEW u, NEW v, Core(u), Quiet(v, u), v.seat.phase = "started",
         v.seat.stopping /\ ~u.seat.stopping => v.usc.process # "running"
  PROVE  Core(v)
<1>1. v \in StateType /\ u \in StateType
  BY DEF Quiet, Core
<1>2. Lives(v)
  BY DEF Quiet, Core, Lives, SameCompositor, Told, SameSeat
<1>3. Servers(v)
  BY Apart DEF Quiet, Core, Servers, SameSeat, SameXServer, NearerEnd, PresentStates
<1>4. Hosted(v)
  BY Apart DEF Quiet, Core, Hosted, SameXServer, NearerEnd, PresentStates
<1>5. Named(v)
  <2>1. Given(v.usc) = Given(u.usc) /\ v.seat.next_x_server_id = u.seat.next_x_server_id
    BY DEF Quiet, SameCompositor, SameSeat, Given
  <2>2. \A i \in XServers : v.xmir[i].state = u.xmir[i].state /\ v.xmir[i].mir_id = u.xmir[i].mir_id
    BY DEF Quiet, SameXServer
  <2>3. \A s \in Sessions :
          /\ v.session[s].MIR_SERVER_NAME = u.session[s].MIR_SERVER_NAME
          /\ v.session[s].display_server = u.session[s].display_server
          /\ v.session[s].state = "running" => u.session[s].state = "running"
    BY DEF Quiet, NearerEnd
  <2>4. Named(u)
    BY DEF Core
  <2> QED BY <2>1, <2>2, <2>3, <2>4 DEF Named
<1>6. Active(v)
  <2>1. v.seat.active_session = u.seat.active_session /\ v.seat.compositor = u.seat.compositor
    BY DEF Quiet, SameSeat
  <2>2. \A s \in Sessions : get_mir_id(v, s) = get_mir_id(u, s) \/ u.session[s].display_server = None
    <3> SUFFICES ASSUME NEW s \in Sessions, u.session[s].display_server # None
                 PROVE  get_mir_id(v, s) = get_mir_id(u, s)
      OBVIOUS
    <3>1. v.session[s].MIR_SERVER_NAME = u.session[s].MIR_SERVER_NAME /\ v.session[s].display_server = u.session[s].display_server
      BY DEF Quiet, NearerEnd
    <3>2. u.session[s].display_server \in Sessions \cup {compositor}
      BY <1>1, Fields DEF SessionType
    <3>3. u.session[s].display_server # compositor => v.xmir[u.session[s].display_server].mir_id = u.xmir[u.session[s].display_server].mir_id
      BY <3>2, Apart DEF Quiet, SameXServer
    <3> QED BY <3>1, <3>3 DEF get_mir_id
  <2>3. get_mir_id(v, None) = get_mir_id(u, None)
    BY DEF get_mir_id
  <2>4. Active(u) /\ u.seat.active_session \in Sessions \cup {None}
    BY <1>1, Fields DEF Core, SeatType
  <2>5. v.shown = u.shown /\ \A s \in Sessions :
          /\ v.session[s].state = u.session[s].state \/ v.session[s].state \in {"stopping", "ended"}
          /\ v.session[s].display_server = u.session[s].display_server
    BY DEF Quiet, NearerEnd
  <2> QED BY <2>1, <2>2, <2>3, <2>4, <2>5 DEF Active
<1> QED BY <1>1, <1>2, <1>3, <1>4, <1>5, <1>6 DEF Core

LEMMA QuietSays ==
  ASSUME NEW u, NEW v, Says(u), Quiet(v, u)
  PROVE  Says(v)
<1>1. v.seat.early = u.seat.early /\ v.usc.said = u.usc.said /\ v.usc.is_ready = u.usc.is_ready
  BY DEF Quiet, SameSeat, SameCompositor
<1>2. v.usc.process = "gone" <=> u.usc.process = "gone"
  BY DEF Quiet, Told
<1>3. \A i \in XServers : v.xmir[i].state = u.xmir[i].state
  BY DEF Quiet, SameXServer
<1>4. \A s \in Sessions : u.session[s].state = "none" => v.session[s].state = "none"
  BY DEF Quiet, NearerEnd, PresentStates
<1> QED BY <1>1, <1>2, <1>3, <1>4 DEF Says

LEMMA QuietEnding ==
  ASSUME NEW u, NEW v, Ending(u), Quiet(v, u)
  PROVE  Ending(v)
BY DEF Quiet, Ending, SameSeat

LEMMA QuietPresent == ASSUME NEW u, NEW v, Quiet(v, u) PROVE Present(v) \subseteq Present(u)
BY DEF Quiet, NearerEnd, Present, PresentStates

(* Of a seat whose state is the same.                                      *)
LEMMA QuietClean ==
  ASSUME NEW u, NEW v, Clean(u), Quiet(v, u),
         v.seat.stopping = u.seat.stopping, v.seat.stopped = u.seat.stopped
  PROVE  Clean(v)
<1>1. ExcusedIn(v) <=> ExcusedIn(u)
  BY DEF Quiet, SameSeat, ExcusedIn
<1>2. v.seat.display_servers = u.seat.display_servers /\ Present(v) \subseteq Present(u)
  BY QuietPresent DEF Quiet, SameSeat
<1>3. SameXServer(v.xmir[XDMCP], u.xmir[XDMCP])
  BY Apart DEF Quiet
<1> QED BY <1>1, <1>2, <1>3 DEF Clean, SameXServer

(***************************************************************************)
(* Stopping                                                                *)
(***************************************************************************)

LEMMA XServersStop ==
  ASSUME NEW u \in StateType, NEW D, NEW v, v = x_server_local_stop(u, D)
  PROVE  /\ Quiet(v, u) /\ v.usc = u.usc /\ v.seat = u.seat /\ v.session = u.session
         /\ \A i \in XServers \cap D : v.xmir[i].stopping
<1> DEFINE X(i) == [u.xmir[i] EXCEPT !.stopping = @ \/ i \in D]
<1>1. \A i \in XServers : u.xmir[i] \in XServerType
  BY Fields
<1>2. /\ v.usc = u.usc /\ v.seat = u.seat /\ v.session = u.session /\ v.shown = u.shown
      /\ v.xmir = [i \in XServers |-> X(i)]
      /\ v = [usc |-> u.usc, xmir |-> v.xmir, seat |-> u.seat, session |-> u.session, shown |-> u.shown]
  <2> DEFINE f == [i \in XServers |-> X(i)]
  <2>1. v = [u EXCEPT !.xmir = f]
    BY Zenon DEF x_server_local_stop
  <2> HIDE DEF f
  <2>2. v.xmir = f /\ v.usc = u.usc /\ v.seat = u.seat /\ v.session = u.session /\ v.shown = u.shown
    BY <2>1 DEF StateType
  <2>3. v = [usc |-> u.usc, xmir |-> f, seat |-> u.seat, session |-> u.session, shown |-> u.shown]
    BY <2>1 DEF StateType
  <2> QED BY <2>2, <2>3 DEF f
<1>3. ASSUME NEW i \in XServers
      PROVE  X(i) \in XServerType /\ SameXServer(X(i), u.xmir[i]) /\ (i \in D => X(i).stopping)
  BY <1>1 DEF XServerType, SameXServer
<1>4. v \in StateType
  BY <1>2, <1>3 DEF StateType
<1>5. \A i \in XServers : v.xmir[i] = X(i)
  BY <1>2
<1> HIDE DEF X
<1> QED BY <1>2, <1>3, <1>4, <1>5 DEF Quiet, SameCompositor, Told, SameSeat, NearerEnd

(* Of servers that may be X servers and the compositor.                    *)
LEMMA ServersStop ==
  ASSUME NEW u \in StateType, NEW D, NEW v, v = display_server_stop(u, D)
  PROVE  /\ Quiet(v, u) /\ v.seat = u.seat /\ v.session = u.session
         /\ compositor \notin D => v.usc = u.usc
         /\ \A i \in XServers \cap D : v.xmir[i].stopping
         /\ (u.usc.stopping => u.usc.process # "running") /\ compositor \in D => v.usc.process # "running"
<1> DEFINE a == x_server_local_stop(u, D)
<1>1. /\ Quiet(a, u) /\ a.usc = u.usc /\ a.seat = u.seat /\ a.session = u.session
      /\ \A i \in XServers \cap D : a.xmir[i].stopping
  BY XServersStop
<1>2. a \in StateType
  BY <1>1 DEF Quiet
<1>3. v = IF compositor \in D /\ ~u.usc.stopping
          THEN unity_system_compositor_stop([a EXCEPT !.usc.stopping = TRUE]) ELSE a
  BY DEF display_server_stop
<1> HIDE DEF a
<1>4. CASE ~(compositor \in D /\ ~u.usc.stopping)
  BY <1>1, <1>3, <1>4
<1>5. CASE compositor \in D /\ ~u.usc.stopping
  <2>1. a.usc \in CompositorType
    BY <1>2, Fields
  <2> DEFINE c == [a.usc EXCEPT !.stopping = TRUE, !.process = IF @ = "running" THEN "told" ELSE @]
  <2>2. v = [a EXCEPT !.usc = c]
    BY <1>2, <1>3, <1>5, <2>1 DEF unity_system_compositor_stop, StateType, CompositorType
  <2>3. c \in CompositorType /\ SameCompositor(c, a.usc) /\ Told(c, a.usc) /\ c.process # "running"
    BY <2>1 DEF CompositorType, SameCompositor, Told
  <2> HIDE DEF c
  <2>4. v \in StateType /\ v.usc = c /\ v.xmir = a.xmir /\ v.seat = a.seat /\ v.session = a.session /\ v.shown = a.shown
    BY <1>2, <2>2, <2>3 DEF StateType
  <2>5. Quiet(v, a)
    BY <2>3, <2>4 DEF Quiet, SameSeat, SameXServer, NearerEnd
  <2>6. Quiet(v, u)
    BY <1>1, <2>5, QuietTwice
  <2> QED BY <1>1, <1>5, <2>3, <2>4, <2>6
<1> QED BY <1>4, <1>5

(* The seat: its fields but for what has stopped.                          *)
LEMMA SeatField ==
  ASSUME NEW u \in StateType, NEW v, v = [u EXCEPT !.seat.stopped = TRUE]
  PROVE  /\ Quiet(v, u) /\ v.usc = u.usc /\ v.xmir = u.xmir /\ v.session = u.session
         /\ v.seat.stopped /\ v.seat.stopping = u.seat.stopping
<1>1. u.seat \in SeatType
  BY Fields
<1> DEFINE c == [u.seat EXCEPT !.stopped = TRUE]
<1>2. v = [u EXCEPT !.seat = c]
  BY DEF StateType
<1>3. c \in SeatType /\ SameSeat(c, u.seat) /\ c.stopped /\ c.stopping = u.seat.stopping
  BY <1>1 DEF SeatType, SameSeat
<1> HIDE DEF c
<1>4. v \in StateType /\ v.usc = u.usc /\ v.xmir = u.xmir /\ v.seat = c /\ v.session = u.session /\ v.shown = u.shown
  BY <1>2, <1>3 DEF StateType
<1> QED BY <1>3, <1>4 DEF Quiet, SameCompositor, Told, SameXServer, NearerEnd

LEMMA SeatChecks ==
  ASSUME NEW u \in StateType, NEW v, v = seat_check_stopped(u)
  PROVE  /\ Quiet(v, u) /\ v.usc = u.usc /\ v.xmir = u.xmir /\ v.session = u.session
         /\ v.seat.stopping = u.seat.stopping
         /\ v.seat.stopped => u.seat.stopped \/ (u.seat.stopping /\ u.seat.display_servers = {} /\ Present(u) = {})
         /\ Clean(u) => Clean(v)
<1>1. CASE ~(u.seat.stopping /\ u.seat.display_servers = {} /\ Present(u) = {})
  <2>1. v = u
    BY <1>1 DEF seat_check_stopped
  <2> QED BY <2>1, QuietSelf
<1>2. CASE u.seat.stopping /\ u.seat.display_servers = {} /\ Present(u) = {}
  <2>1. v = [u EXCEPT !.seat.stopped = TRUE]
    BY <1>2 DEF seat_check_stopped
  <2>2. /\ Quiet(v, u) /\ v.usc = u.usc /\ v.xmir = u.xmir /\ v.session = u.session
        /\ v.seat.stopped /\ v.seat.stopping = u.seat.stopping
    BY <2>1, SeatField
  <2>3. ExcusedIn(v) <=> ExcusedIn(u)
    BY <2>2 DEF Quiet, SameSeat, ExcusedIn
  <2>4. v.seat.display_servers = {} /\ Present(v) = {}
    BY <1>2, <2>2, QuietPresent DEF Quiet, SameSeat
  <2>5. Clean(u) => Clean(v)
    BY <1>2, <2>2, <2>3, <2>4 DEF Clean
  <2> QED BY <1>2, <2>2, <2>5
<1> QED BY <1>1, <1>2

StopIn(u, P) ==
  [u EXCEPT !.session = [s \in Sessions |->
     IF s \in P THEN [@[s] EXCEPT !.state = "stopping"] ELSE @[s]]]

LEMMA SessionsStop ==
  ASSUME NEW u \in StateType, NEW P, P \subseteq Present(u), NEW v, v = StopIn(u, P)
  PROVE  /\ Quiet(v, u) /\ v.usc = u.usc /\ v.xmir = u.xmir /\ v.seat = u.seat
         /\ Present(v) = Present(u)
<1> DEFINE X(s) == IF s \in P THEN [u.session[s] EXCEPT !.state = "stopping"] ELSE u.session[s]
<1>1. \A s \in Sessions : u.session[s] \in SessionType
  BY Fields
<1>2. /\ v.usc = u.usc /\ v.seat = u.seat /\ v.xmir = u.xmir /\ v.shown = u.shown
      /\ v.session = [s \in Sessions |-> X(s)]
      /\ v = [usc |-> u.usc, xmir |-> u.xmir, seat |-> u.seat, session |-> v.session, shown |-> u.shown]
  BY DEF StopIn, StateType
<1>3. ASSUME NEW s \in Sessions PROVE X(s) \in SessionType /\ NearerEnd(X(s), u.session[s])
  BY <1>1 DEF SessionType, NearerEnd, PresentStates, Present
<1>4. v \in StateType
  BY <1>2, <1>3 DEF StateType
<1>5. \A s \in Sessions : v.session[s] = X(s)
  BY <1>2
<1>6. ASSUME NEW s \in Sessions PROVE s \in Present(v) <=> s \in Present(u)
  BY <1>1, <1>5 DEF Present, SessionType
<1>7. Present(v) = Present(u)
  BY <1>6 DEF Present
<1> HIDE DEF X
<1> QED BY <1>2, <1>3, <1>4, <1>5, <1>7 DEF Quiet, SameCompositor, Told, SameSeat, SameXServer

LEMMA SeatRealStop ==
  ASSUME NEW u \in StateType, NEW v, v = seat_real_stop(u)
  PROVE  /\ Quiet(v, u) /\ v.seat.stopping = u.seat.stopping
         /\ Clean(u) => Clean(v)
<1> DEFINE a == seat_check_stopped(u)
           b == display_server_stop(a, a.seat.display_servers)
<1>1. Quiet(a, u) /\ a.seat.stopping = u.seat.stopping /\ (Clean(u) => Clean(a))
  BY SeatChecks
<1>2. a \in StateType
  BY <1>1 DEF Quiet
<1>3. v = IF a.seat.stopped THEN a
          ELSE StopIn(b, Present(a))
  BY DEF seat_real_stop, StopIn
<1> HIDE DEF a
<1>4. Quiet(b, a) /\ b.seat = a.seat /\ b.session = a.session
  BY <1>2, ServersStop
<1>5. b \in StateType /\ Present(b) = Present(a)
  BY <1>4 DEF Quiet, Present
<1> HIDE DEF b
<1>6. CASE a.seat.stopped
  BY <1>1, <1>3, <1>6
<1>7. CASE ~a.seat.stopped
  <2>1. Quiet(v, b) /\ v.seat = b.seat
    BY <1>3, <1>5, <1>7, SessionsStop
  <2>2. Quiet(v, a)
    BY <1>2, <1>4, <2>1, QuietTwice
  <2>3. Quiet(v, u)
    BY <1>1, <2>2, QuietTwice
  <2>4. Clean(a) => Clean(v)
    BY <1>4, <2>1, <2>2, QuietClean
  <2> QED BY <1>1, <1>4, <2>1, <2>3, <2>4
<1> QED BY <1>6, <1>7

LEMMA Checks ==
  ASSUME NEW u \in StateType, NEW v, v = check_stopped(u)
  PROVE  /\ Quiet(v, u) /\ v.seat.stopping = u.seat.stopping
         /\ Clean(u) => Clean(v)
         /\ u.seat.compositor => v = u
<1>1. CASE ~u.seat.compositor /\ ~u.seat.xdmcp_x_server
  <2>1. v = seat_real_stop(u)
    BY <1>1 DEF check_stopped
  <2> QED BY <1>1, <2>1, SeatRealStop
<1>2. CASE ~(~u.seat.compositor /\ ~u.seat.xdmcp_x_server)
  <2>1. v = u
    BY <1>2 DEF check_stopped
  <2> QED BY <2>1, QuietSelf
<1> QED BY <1>1, <1>2

(* The seat stops: the compositor is told, and the X server for XDMCP.     *)
LEMMA UnityStops ==
  ASSUME NEW u \in StateType, u.usc.stopping => u.usc.process # "running", u.seat.stopping,
         u.seat.compositor \/ u.usc.process # "running",
         u.xmir[XDMCP].state \in {"starting", "ready"} => u.seat.xdmcp_x_server,
         ~ExcusedIn(u) => ~u.seat.stopped,
         NEW v, v = seat_unity_stop(u)
  PROVE  /\ Quiet(v, u) /\ v.seat.stopping /\ Clean(v) /\ v.usc.process # "running"
         /\ u.seat.compositor => v.seat.stopped = u.seat.stopped
<1> DEFINE a == IF u.seat.compositor THEN display_server_stop(u, {compositor}) ELSE u
           b == IF a.seat.xdmcp_x_server THEN display_server_stop(a, {XDMCP}) ELSE a
<1>1. v = check_stopped(b)
  BY DEF seat_unity_stop
<1>2. Quiet(a, u) /\ a.seat = u.seat /\ a.session = u.session /\ a.usc.process # "running" /\ a \in StateType
  <2>1. CASE u.seat.compositor
    <3>1. a = display_server_stop(u, {compositor})
      BY <2>1
    <3> QED BY <3>1, ServersStop DEF Quiet
  <2>2. CASE ~u.seat.compositor
    BY <2>2, QuietSelf
  <2> QED BY <2>1, <2>2
<1> HIDE DEF a
<1>3. /\ Quiet(b, a) /\ b.seat = a.seat /\ b.usc = a.usc
      /\ a.seat.xdmcp_x_server => b.xmir[XDMCP].stopping
  <2>1. CASE a.seat.xdmcp_x_server
    <3>1. b = display_server_stop(a, {XDMCP}) /\ XDMCP \in XServers \cap {XDMCP} /\ compositor \notin {XDMCP}
      BY <2>1, Apart
    <3> HIDE DEF b
    <3> QED BY <1>2, <3>1, ServersStop
  <2>2. CASE ~a.seat.xdmcp_x_server
    BY <1>2, <2>2, QuietSelf
  <2> QED BY <2>1, <2>2
<1> HIDE DEF b
<1>4. b \in StateType /\ Quiet(b, u)
  BY <1>2, <1>3, QuietTwice DEF Quiet
<1>5. Clean(b)
  <2>1. b.seat = u.seat
    BY <1>2, <1>3
  <2>2. b.xmir[XDMCP].state = u.xmir[XDMCP].state
    BY <1>4, Apart DEF Quiet, SameXServer
  <2>3. ExcusedIn(b) <=> ExcusedIn(u)
    BY <2>1 DEF ExcusedIn
  <2> QED BY <1>2, <1>3, <2>1, <2>2, <2>3 DEF Clean
<1>6. Quiet(v, b) /\ v.seat.stopping = b.seat.stopping /\ Clean(v) /\ (b.seat.compositor => v = b)
  BY <1>1, <1>4, <1>5, Checks
<1>7. Quiet(v, u)
  BY <1>4, <1>6, QuietTwice
<1>8. v.usc.process # "running"
  BY <1>2, <1>3, <1>6 DEF Quiet, Told
<1> QED BY <1>2, <1>3, <1>6, <1>7, <1>8

LEMMA SeatStopping ==
  ASSUME NEW u \in StateType, NEW v, v = [u EXCEPT !.seat.stopping = TRUE]
  PROVE  /\ Quiet(v, u) /\ v.usc = u.usc /\ v.xmir = u.xmir /\ v.session = u.session
         /\ v.seat.stopping /\ v.seat.stopped = u.seat.stopped
<1>1. u.seat \in SeatType
  BY Fields
<1> DEFINE c == [u.seat EXCEPT !.stopping = TRUE]
<1>2. v = [u EXCEPT !.seat = c]
  BY DEF StateType
<1>3. c \in SeatType /\ SameSeat(c, u.seat) /\ c.stopping /\ c.stopped = u.seat.stopped
  BY <1>1 DEF SeatType, SameSeat
<1> HIDE DEF c
<1>4. v \in StateType /\ v.usc = u.usc /\ v.xmir = u.xmir /\ v.seat = c /\ v.session = u.session /\ v.shown = u.shown
  BY <1>2, <1>3 DEF StateType
<1> QED BY <1>3, <1>4 DEF Quiet, SameCompositor, Told, SameXServer, NearerEnd

LEMMA SeatStop ==
  ASSUME NEW u, Core(u), Says(u), Clean(u), u.seat.phase = "started", NEW v, v = seat_stop(u)
  PROVE  /\ Quiet(v, u) /\ Good(v) /\ v.seat.stopping
         /\ u.seat.compositor => v.seat.stopped = u.seat.stopped
<1>0. u \in StateType /\ Lives(u)
  BY DEF Core
<1>1. CASE u.seat.stopping
  <2>1. v = u
    BY <1>1 DEF seat_stop
  <2> QED BY <1>0, <1>1, <2>1, QuietSelf DEF Good, Ending
<1>2. CASE ~u.seat.stopping
  <2> DEFINE a == [u EXCEPT !.seat.stopping = TRUE]
  <2>1. v = seat_unity_stop(a)
    BY <1>2 DEF seat_stop
  <2>2. /\ Quiet(a, u) /\ a.usc = u.usc /\ a.xmir = u.xmir /\ a.session = u.session
        /\ a.seat.stopping /\ a.seat.stopped = u.seat.stopped
    BY <1>0, SeatStopping
  <2> HIDE DEF a
  <2>3. a \in StateType /\ SameSeat(a.seat, u.seat)
    BY <2>2 DEF Quiet
  <2>4. a.usc.stopping => a.usc.process # "running"
    BY <1>0, <2>2 DEF Lives
  <2>5. a.seat.compositor \/ a.usc.process # "running"
    BY <1>0, <2>2, <2>3 DEF Lives, SameSeat
  <2>6. a.xmir[XDMCP].state \in {"starting", "ready"} => a.seat.xdmcp_x_server
    BY <2>2, <2>3 DEF Core, Servers, SameSeat
  <2>7. ~ExcusedIn(a) => ~a.seat.stopped
    BY <1>2, <2>2, <2>3 DEF Clean, SameSeat, ExcusedIn
  <2>8. /\ Quiet(v, a) /\ v.seat.stopping /\ Clean(v) /\ v.usc.process # "running"
        /\ a.seat.compositor => v.seat.stopped = a.seat.stopped
    BY <2>1, <2>2, <2>3, <2>4, <2>5, <2>6, <2>7, UnityStops
  <2>9. Quiet(v, u)
    BY <1>0, <2>2, <2>8, QuietTwice
  <2>10. v.seat.phase = "started"
    BY <2>9 DEF Quiet, SameSeat
  <2>11. Core(v) /\ Says(v)
    BY <2>8, <2>9, <2>10, QuietKeeps, QuietSays
  <2> QED BY <2>2, <2>3, <2>8, <2>9, <2>11 DEF Good, Ending, SameSeat
<1> QED BY <1>1, <1>2

(***************************************************************************)
(* STOPPED, and the start of an X server                                   *)
(***************************************************************************)

(* An X server goes to another state.                                      *)
SeatGoes(c, b) ==
  /\ c.phase = b.phase /\ c.xdmcp_manager = b.xdmcp_manager /\ c.compositor = b.compositor
  /\ c.active_session = b.active_session /\ c.early = b.early /\ c.late = b.late
Moved(v, u, i) ==
  /\ v \in StateType
  /\ v.usc = u.usc /\ v.session = u.session /\ v.shown = u.shown
  /\ SeatGoes(v.seat, u.seat) /\ v.seat.next_x_server_id = u.seat.next_x_server_id
  /\ v.seat.stopping = u.seat.stopping /\ v.seat.stopped = u.seat.stopped
  /\ \A j \in XServers \ {i} : v.xmir[j] = u.xmir[j]
  /\ u.xmir[i].state # "none" /\ v.xmir[i].state # "none"
  /\ v.xmir[i].mir_id = u.xmir[i].mir_id /\ v.xmir[i].stopping = u.xmir[i].stopping

LEMMA MovedKeeps ==
  ASSUME NEW u, NEW v, NEW i \in XServers, Core(u), Says(u), Ending(u), Moved(v, u, i), Servers(v)
  PROVE  Core(v) /\ Says(v) /\ Ending(v)
<1>1. v \in StateType /\ u \in StateType
  BY DEF Moved, Core
<1>2. /\ \A j \in XServers : v.xmir[j].state = "none" <=> u.xmir[j].state = "none"
      /\ \A j \in XServers : v.xmir[j].mir_id = u.xmir[j].mir_id
  BY DEF Moved
<1>3. /\ v.usc = u.usc /\ v.session = u.session /\ v.shown = u.shown /\ SeatGoes(v.seat, u.seat)
      /\ v.seat.next_x_server_id = u.seat.next_x_server_id
      /\ v.seat.stopping = u.seat.stopping /\ v.seat.stopped = u.seat.stopped
  BY DEF Moved
<1>4. Lives(v)
  BY <1>3 DEF Core, Lives, SeatGoes
<1>5. Hosted(v)
  BY <1>2, <1>3, Apart DEF Core, Hosted
<1>6. Named(v)
  BY <1>2, <1>3 DEF Core, Named
<1>7. Active(v)
  <2>1. ASSUME NEW s \in Sessions, u.session[s].display_server # None
        PROVE  get_mir_id(v, s) = get_mir_id(u, s)
    <3>1. u.session[s].display_server \in Sessions \cup {compositor}
      BY <1>1, <2>1, Fields DEF SessionType
    <3> QED BY <1>2, <1>3, <3>1, Apart DEF get_mir_id
  <2>2. get_mir_id(v, None) = get_mir_id(u, None)
    BY DEF get_mir_id
  <2>3. Active(u) /\ u.seat.active_session \in Sessions \cup {None}
    BY <1>1, Fields DEF Core, SeatType
  <2> QED BY <1>3, <2>1, <2>2, <2>3 DEF Active, SeatGoes
<1>8. Says(v)
  BY <1>2, <1>3 DEF Says, SeatGoes
<1>9. Ending(v)
  BY <1>3 DEF Ending, SeatGoes
<1> QED BY <1>1, <1>4, <1>5, <1>6, <1>7, <1>8, <1>9 DEF Core

LEMMA MovedClean ==
  ASSUME NEW u, NEW v, NEW i \in XServers, Clean(u), Moved(v, u, i),
         v.seat.display_servers \subseteq u.seat.display_servers,
         i = XDMCP => \/ v.xmir[i].state \notin {"starting", "ready"}
                      \/ u.xmir[i].state \in {"starting", "ready"}
                      \/ ~u.seat.stopping \/ ExcusedIn(u)
  PROVE  Clean(v)
<1>1. ExcusedIn(v) <=> ExcusedIn(u)
  BY DEF Moved, SeatGoes, ExcusedIn
<1>2. Present(v) = Present(u)
  BY DEF Moved, Present
<1>3. i # XDMCP => v.xmir[XDMCP] = u.xmir[XDMCP]
  BY Apart DEF Moved
<1> QED BY <1>1, <1>2, <1>3 DEF Clean, Moved

(* What the handlers in the middle of READY leave as it is.                *)
Goes(v, u) ==
  /\ SameCompositor(v.usc, u.usc) /\ SeatGoes(v.seat, u.seat)
  /\ \A s \in Sessions : v.session[s].state = "none" <=> u.session[s].state = "none"

LEMMA QuietGoes == ASSUME NEW u, NEW v, Quiet(v, u) PROVE Goes(v, u)
BY DEF Quiet, Goes, SameSeat, SeatGoes, NearerEnd, PresentStates

LEMMA MovedGoes == ASSUME NEW u, NEW v, NEW i, Moved(v, u, i) PROVE Goes(v, u)
BY DEF Moved, Goes, SameCompositor, SeatGoes

LEMMA GoesTwice == ASSUME NEW u, NEW v, NEW w, Goes(v, u), Goes(w, v) PROVE Goes(w, u)
BY DEF Goes, SameCompositor, SeatGoes

(* Two fields: the state of X server i and those of the seat.              *)
Set(u, i, x, c) == [u EXCEPT !.xmir[i] = x, !.seat = c]

LEMMA XServerSet ==
  ASSUME NEW u \in StateType, NEW i \in XServers, NEW x \in XServerType, NEW c \in SeatType, NEW v,
         v = Set(u, i, x, c)
  PROVE  /\ v \in StateType /\ v.usc = u.usc /\ v.session = u.session /\ v.shown = u.shown /\ v.seat = c
         /\ v.xmir[i] = x /\ \A j \in XServers \ {i} : v.xmir[j] = u.xmir[j]
BY DEF StateType, Set

LEMMA XDMCPStopped ==
  ASSUME NEW u, Good(u), u.seat.phase = "started",
         u.xmir[XDMCP].state # "none", ~u.xmir[XDMCP].waiting,
         NEW v, v = XServerStopped(u, XDMCP)
  PROVE  /\ Good(v) /\ Goes(v, u)
         /\ u.seat.compositor => v.seat.stopped = u.seat.stopped
<1>0. u \in StateType /\ u.seat \in SeatType /\ u.xmir[XDMCP] \in XServerType /\ XDMCP \in XServers
  BY Apart, Fields DEF Good, Core
<1> DEFINE x == [u.xmir[XDMCP] EXCEPT !.state = "stopped"]
           c == [u.seat EXCEPT !.xdmcp_x_server = FALSE]
           a == Set(u, XDMCP, x, c)
<1>1. v = IF a.seat.stopping THEN check_stopped(a) ELSE seat_stop(a)
  BY <1>0 DEF XServerStopped, xdmcp_x_server_stopped_cb, Set, StateType, SeatType, XServerType
<1>2. /\ x \in XServerType /\ x.state = "stopped" /\ ~x.waiting /\ x.mir_id = u.xmir[XDMCP].mir_id
      /\ x.stopping = u.xmir[XDMCP].stopping /\ x.parent = u.xmir[XDMCP].parent
  BY <1>0 DEF XServerType
<1>3. /\ c \in SeatType /\ SeatGoes(c, u.seat) /\ c.next_x_server_id = u.seat.next_x_server_id
      /\ c.stopping = u.seat.stopping /\ c.stopped = u.seat.stopped
      /\ c.display_servers = u.seat.display_servers
  BY <1>0 DEF SeatType, SeatGoes
<1> HIDE DEF x, c
<1>4. /\ a \in StateType /\ a.usc = u.usc /\ a.session = u.session /\ a.shown = u.shown /\ a.seat = c
      /\ a.xmir[XDMCP] = x /\ \A j \in XServers \ {XDMCP} : a.xmir[j] = u.xmir[j]
  BY <1>0, <1>2, <1>3, XServerSet
<1> HIDE DEF a
<1>5. Moved(a, u, XDMCP)
  BY <1>2, <1>3, <1>4 DEF Moved
<1>6. Servers(a)
  BY <1>2, <1>3, <1>4, Apart DEF Good, Core, Servers
<1>7. Core(a) /\ Says(a) /\ Ending(a)
  BY <1>0, <1>5, <1>6, MovedKeeps DEF Good
<1>8. Clean(a)
  BY <1>0, <1>2, <1>3, <1>4, <1>5, MovedClean DEF Good
<1>9. a.seat.phase = "started" /\ a.seat.compositor = u.seat.compositor /\ a.seat.stopped = u.seat.stopped
  BY <1>3, <1>4 DEF SeatGoes
<1>10. CASE a.seat.stopping
  <2>1. v = check_stopped(a)
    BY <1>1, <1>10
  <2>2. Quiet(v, a) /\ v.seat.stopping = a.seat.stopping /\ Clean(v) /\ (a.seat.compositor => v = a)
    BY <1>4, <1>8, <2>1, Checks
  <2>3. Core(v) /\ Says(v) /\ Ending(v)
    <3>1. v.seat.phase = "started"
      BY <1>9, <2>2 DEF Quiet, SameSeat
    <3> QED BY <1>7, <1>10, <2>2, <3>1, QuietKeeps, QuietSays, QuietEnding
  <2>4. Goes(v, u)
    BY <1>5, <2>2, MovedGoes, QuietGoes, GoesTwice
  <2> QED BY <1>9, <2>2, <2>3, <2>4 DEF Good
<1>11. CASE ~a.seat.stopping
  <2>1. v = seat_stop(a)
    BY <1>1, <1>11
  <2>2. Quiet(v, a) /\ Good(v) /\ (a.seat.compositor => v.seat.stopped = a.seat.stopped)
    BY <1>7, <1>8, <1>9, <2>1, SeatStop
  <2>4. Goes(v, u)
    BY <1>5, <2>2, MovedGoes, QuietGoes, GoesTwice
  <2> QED BY <1>9, <2>2, <2>4
<1> QED BY <1>10, <1>11

LEMMA ServerStopped ==
  ASSUME NEW u, Good(u), u.seat.phase = "started", NEW i \in Sessions,
         u.xmir[i].state # "none", ~u.xmir[i].waiting,
         NEW v, v = XServerStopped(u, i)
  PROVE  /\ Good(v) /\ Goes(v, u) /\ Present(v) = Present(u)
         /\ Present(u) # {} => v.seat.stopped = u.seat.stopped
<1>0. u \in StateType /\ u.seat \in SeatType /\ u.xmir[i] \in XServerType /\ i \in XServers /\ i # XDMCP
  BY Apart, Fields DEF Good, Core
<1> DEFINE x == [u.xmir[i] EXCEPT !.state = "stopped"]
           c == [u.seat EXCEPT !.display_servers = @ \ {i}]
           a == Set(u, i, x, c)
           P == {s \in Sessions : s \in Present(a) /\ a.session[s].display_server = i}
<1>1. v = IF a.seat.stopping THEN seat_check_stopped(a)
          ELSE [a EXCEPT !.session = [s \in Sessions |->
                  IF s \in Present(a) /\ a.session[s].display_server = i
                  THEN [@[s] EXCEPT !.state = "stopping"] ELSE @[s]]]
  <2>1. a = [[u EXCEPT !.xmir[i].state = "stopped"] EXCEPT !.seat.display_servers = @ \ {i}]
    BY <1>0 DEF Set, StateType, SeatType, XServerType
  <2>2. v = display_server_stopped_cb([u EXCEPT !.xmir[i].state = "stopped"], i)
    BY <1>0 DEF XServerStopped
  <2> HIDE DEF a
  <2> QED BY <2>1, <2>2, Zenon DEF display_server_stopped_cb
<1>2. /\ x \in XServerType /\ x.state = "stopped" /\ ~x.waiting /\ x.mir_id = u.xmir[i].mir_id
      /\ x.stopping = u.xmir[i].stopping /\ x.parent = u.xmir[i].parent
  BY <1>0 DEF XServerType
<1>3. /\ c \in SeatType /\ SeatGoes(c, u.seat) /\ c.next_x_server_id = u.seat.next_x_server_id
      /\ c.stopping = u.seat.stopping /\ c.stopped = u.seat.stopped
      /\ c.display_servers = u.seat.display_servers \ {i} /\ c.xdmcp_x_server = u.seat.xdmcp_x_server
  BY <1>0 DEF SeatType, SeatGoes
<1> HIDE DEF x, c
<1>4. /\ a \in StateType /\ a.usc = u.usc /\ a.session = u.session /\ a.shown = u.shown /\ a.seat = c
      /\ a.xmir[i] = x /\ \A j \in XServers \ {i} : a.xmir[j] = u.xmir[j]
  BY <1>0, <1>2, <1>3, XServerSet
<1> HIDE DEF a
<1>5. Moved(a, u, i)
  BY <1>2, <1>3, <1>4 DEF Moved
<1>6. Servers(a)
  BY <1>0, <1>2, <1>3, <1>4, Apart DEF Good, Core, Servers
<1>7. Core(a) /\ Says(a) /\ Ending(a)
  BY <1>0, <1>5, <1>6, MovedKeeps DEF Good
<1>8. Clean(a)
  BY <1>0, <1>2, <1>3, <1>4, <1>5, MovedClean DEF Good
<1>9. a.seat.phase = "started" /\ a.seat.stopped = u.seat.stopped /\ Present(a) = Present(u)
  BY <1>3, <1>4 DEF SeatGoes, Present
<1>10. CASE a.seat.stopping
  <2>1. v = seat_check_stopped(a)
    BY <1>1, <1>10
  <2>2. /\ Quiet(v, a) /\ v.seat.stopping = a.seat.stopping /\ Clean(v) /\ v.session = a.session
        /\ v.seat.stopped => a.seat.stopped \/ Present(a) = {}
    BY <1>4, <1>8, <2>1, SeatChecks
  <2>3. Core(v) /\ Says(v) /\ Ending(v)
    <3>1. v.seat.phase = "started"
      BY <1>9, <2>2 DEF Quiet, SameSeat
    <3> QED BY <1>7, <1>10, <2>2, <3>1, QuietKeeps, QuietSays, QuietEnding
  <2>4. Goes(v, u)
    BY <1>5, <2>2, MovedGoes, QuietGoes, GoesTwice
  <2>5. Present(v) = Present(u)
    BY <1>9, <2>2 DEF Present
  <2>6. Present(u) # {} => v.seat.stopped = u.seat.stopped
    <3>1. v.seat \in SeatType /\ a.seat \in SeatType
      BY <1>4, <2>2, Fields DEF Quiet
    <3> QED BY <1>9, <2>2, <3>1 DEF Quiet, SeatType
  <2> QED BY <2>2, <2>3, <2>4, <2>5, <2>6 DEF Good
<1>11. CASE ~a.seat.stopping
  <2>1. v = StopIn(a, P)
    BY <1>1, <1>11, Zenon DEF StopIn
  <2>2. P \subseteq Present(a)
    OBVIOUS
  <2> HIDE DEF P
  <2>3. Quiet(v, a) /\ v.seat = a.seat /\ Present(v) = Present(a)
    BY <1>4, <2>1, <2>2, SessionsStop
  <2>4. Core(v) /\ Says(v) /\ Ending(v) /\ Clean(v)
    BY <1>7, <1>8, <1>9, <2>3, QuietKeeps, QuietSays, QuietEnding, QuietClean
  <2>5. Goes(v, u)
    BY <1>5, <2>3, MovedGoes, QuietGoes, GoesTwice
  <2> QED BY <1>9, <2>3, <2>4, <2>5 DEF Good
<1> QED BY <1>10, <1>11

(* An X server that was made is started.                                   *)
LEMMA XServerStarts ==
  ASSUME NEW u, Good(u), u.seat.phase = "started", NEW i \in XServers, NEW fails,
         u.xmir[i].state = "new", ~u.xmir[i].waiting,
         i = XDMCP => ~u.seat.stopping \/ ExcusedIn(u),
         NEW v, v = x_server_local_start(u, i, fails)
  PROVE  /\ Good(v) /\ Goes(v, u)
         /\ i \in Sessions => Present(v) = Present(u)
         /\ (i = XDMCP /\ u.seat.compositor) \/ (i \in Sessions /\ Present(u) # {})
              => v.seat.stopped = u.seat.stopped
<1>0. u \in StateType /\ u.seat \in SeatType /\ u.xmir[i] \in XServerType /\ u.xmir[i].state # "none"
  BY Apart, Fields DEF Good, Core
<1>1. CASE i \in fails
  <2>1. v = XServerStopped(u, i)
    BY <1>1 DEF x_server_local_start
  <2>2. CASE i = XDMCP
    BY <1>0, <2>1, <2>2, Apart, XDMCPStopped
  <2>3. CASE i \in Sessions
    BY <1>0, <2>1, <2>3, Apart, ServerStopped
  <2> QED BY <2>2, <2>3, Apart
<1>2. CASE i \notin fails
  <2> DEFINE x == [u.xmir[i] EXCEPT !.state = "starting"]
  <2>1. v = Set(u, i, x, u.seat)
    <3>1. v = [u EXCEPT !.xmir[i].state = "starting"]
      BY <1>2 DEF x_server_local_start
    <3> QED BY <1>0, <3>1 DEF Set, StateType
  <2>2. /\ x \in XServerType /\ x.state = "starting" /\ ~x.waiting /\ x.mir_id = u.xmir[i].mir_id
        /\ x.stopping = u.xmir[i].stopping /\ x.parent = u.xmir[i].parent
    BY <1>0 DEF XServerType
  <2> HIDE DEF x
  <2>3. /\ v \in StateType /\ v.usc = u.usc /\ v.session = u.session /\ v.shown = u.shown /\ v.seat = u.seat
        /\ v.xmir[i] = x /\ \A j \in XServers \ {i} : v.xmir[j] = u.xmir[j]
    BY <1>0, <2>1, <2>2, XServerSet
  <2>4. Moved(v, u, i)
    BY <1>0, <2>2, <2>3 DEF Moved, SeatGoes
  <2>5. Servers(v)
    BY <1>0, <2>2, <2>3, Apart DEF Good, Core, Servers
  <2>6. Core(v) /\ Says(v) /\ Ending(v)
    BY <2>4, <2>5, MovedKeeps DEF Good
  <2>7. Clean(v)
    BY <2>3, <2>4, MovedClean DEF Good
  <2>8. Present(v) = Present(u) /\ Goes(v, u)
    BY <2>3, <2>4, MovedGoes DEF Present
  <2> QED BY <2>3, <2>6, <2>7, <2>8 DEF Good
<1> QED BY <1>1, <1>2

(* Or it waits for the compositor.                                         *)
LEMMA XServerWaits ==
  ASSUME NEW u, Good(u), NEW i \in XServers, u.xmir[i].state = "new",
         NEW x \in XServerType, x.state = "new", x.mir_id = u.xmir[i].mir_id,
         x.stopping = u.xmir[i].stopping, x.parent = u.xmir[i].parent,
         NEW v, v = Set(u, i, x, u.seat)
  PROVE  /\ Good(v) /\ Goes(v, u) /\ Present(v) = Present(u) /\ v.seat = u.seat /\ v.xmir[i] = x
<1>0. u \in StateType /\ u.seat \in SeatType /\ u.xmir[i] \in XServerType
  BY Fields DEF Good, Core
<1>3. /\ v \in StateType /\ v.usc = u.usc /\ v.session = u.session /\ v.shown = u.shown /\ v.seat = u.seat
      /\ v.xmir[i] = x /\ \A j \in XServers \ {i} : v.xmir[j] = u.xmir[j]
  BY <1>0, XServerSet
<1>4. Moved(v, u, i)
  BY <1>3 DEF Moved, SeatGoes
<1>5. Servers(v)
  BY <1>3, Apart DEF Good, Core, Servers
<1>6. Core(v) /\ Says(v) /\ Ending(v)
  BY <1>4, <1>5, MovedKeeps DEF Good
<1>7. Clean(v)
  BY <1>3, <1>4, MovedClean DEF Good
<1>8. Present(v) = Present(u) /\ Goes(v, u)
  BY <1>3, <1>4, MovedGoes DEF Present
<1> QED BY <1>3, <1>6, <1>7, <1>8 DEF Good

LEMMA XmirStarts ==
  ASSUME NEW u, Good(u), u.seat.phase = "started", NEW i \in XServers, NEW fails,
         u.xmir[i].state = "new", ~u.xmir[i].waiting,
         i = XDMCP => ~u.seat.stopping \/ ExcusedIn(u),
         NEW v, v = x_server_xmir_start(u, i, fails)
  PROVE  /\ Good(v) /\ Goes(v, u)
         /\ i \in Sessions => Present(v) = Present(u)
         /\ (i = XDMCP /\ u.seat.compositor) \/ (i \in Sessions /\ Present(u) # {})
              => v.seat.stopped = u.seat.stopped
<1>1. CASE u.xmir[i].parent /\ u.usc.announced
  <2>1. v = x_server_local_start(u, i, fails)
    BY <1>1 DEF x_server_xmir_start
  <2> QED BY <2>1, XServerStarts
<1>2. CASE ~(u.xmir[i].parent /\ u.usc.announced)
  <2> DEFINE x == [u.xmir[i] EXCEPT !.waiting = TRUE]
  <2>1. u \in StateType /\ u.xmir[i] \in XServerType
    BY Fields DEF Good, Core
  <2>2. v = Set(u, i, x, u.seat)
    BY <1>2, <2>1 DEF x_server_xmir_start, Set, StateType
  <2>3. /\ x \in XServerType /\ x.state = "new" /\ x.mir_id = u.xmir[i].mir_id
        /\ x.stopping = u.xmir[i].stopping /\ x.parent = u.xmir[i].parent
    BY <2>1 DEF XServerType
  <2> HIDE DEF x
  <2> QED BY <2>2, <2>3, XServerWaits
<1> QED BY <1>1, <1>2

(* The compositor is ready: an X server that waits for it is started.      *)
LEMMA XmirReady ==
  ASSUME NEW u, Good(u), u.seat.phase = "started", NEW i \in XServers, NEW fails, ExcusedIn(u),
         NEW v, v = xmir_compositor_ready_cb(u, i, fails)
  PROVE  Good(v) /\ Goes(v, u)
<1> DEFINE x == [u.xmir[i] EXCEPT !.waiting = FALSE]
           a == Set(u, i, x, u.seat)
           b == x_server_local_start(a, i, fails)
<1>0. u \in StateType /\ u.xmir[i] \in XServerType
  BY Fields DEF Good, Core
<1>1. v = IF ~u.xmir[i].waiting \/ ~u.xmir[i].parent THEN u
          ELSE IF i \in fails THEN display_server_stop(b, {i}) ELSE b
  <2>1. a = [u EXCEPT !.xmir[i].waiting = FALSE]
    BY <1>0 DEF Set, StateType
  <2> HIDE DEF a
  <2> QED BY <2>1 DEF xmir_compositor_ready_cb
<1>2. CASE ~u.xmir[i].waiting \/ ~u.xmir[i].parent
  BY <1>1, <1>2 DEF Goes, SameCompositor, SeatGoes
<1>3. CASE u.xmir[i].waiting /\ u.xmir[i].parent
  <2>1. u.xmir[i].state = "new"
    BY <1>3 DEF Good, Core, Servers
  <2>2. Good(a) /\ Goes(a, u) /\ a.seat = u.seat /\ a.xmir[i].state = "new" /\ ~a.xmir[i].waiting
    <3>1. /\ x \in XServerType /\ x.state = "new" /\ x.mir_id = u.xmir[i].mir_id /\ ~x.waiting
          /\ x.stopping = u.xmir[i].stopping /\ x.parent = u.xmir[i].parent
      BY <1>0, <2>1 DEF XServerType
    <3> HIDE DEF x
    <3> QED BY <2>1, <3>1, XServerWaits
  <2> HIDE DEF a
  <2>3. Good(b) /\ Goes(b, a)
    <3>1. ExcusedIn(a) /\ a.seat.phase = "started"
      BY <2>2 DEF ExcusedIn
    <3> QED BY <2>2, <3>1, XServerStarts
  <2> HIDE DEF b
  <2>4. CASE i \notin fails
    BY <1>1, <1>3, <2>2, <2>3, <2>4, GoesTwice
  <2>5. CASE i \in fails
    <3>1. v = display_server_stop(b, {i}) /\ compositor \notin {i} /\ b \in StateType
      BY <1>1, <1>3, <2>3, <2>5, Apart DEF Good, Core
    <3>2. Quiet(v, b) /\ v.seat = b.seat
      BY <3>1, ServersStop
    <3>3. v.seat.phase = "started"
      BY <2>2, <2>3, <3>2 DEF Goes, SeatGoes
    <3>4. Core(v) /\ Says(v) /\ Ending(v) /\ Clean(v)
      BY <2>3, <3>2, <3>3, QuietKeeps, QuietSays, QuietEnding, QuietClean DEF Good
    <3>5. Goes(v, u)
      BY <2>2, <2>3, <3>2, QuietGoes, GoesTwice
    <3> QED BY <3>4, <3>5 DEF Good
  <2> QED BY <2>4, <2>5
<1> QED BY <1>2, <1>3

(***************************************************************************)
(* Folds.  A set of numbers has a least one, so that a property of         *)
(* numbers, given as the set of those that have it, can be shown step by   *)
(* step.                                                                   *)
(***************************************************************************)

LEMMA LeastNumber ==
  ASSUME NEW T, T \subseteq Nat, T # {}
  PROVE  \E x \in T : \A y \in T : x <= y
<1> DEFINE R == {p \in Nat \X Nat : p[1] < p[2]}
<1>1. IsWellFoundedOn(R, Nat)
  BY NatLessThanWellFounded DEF OpToRel
<1>2. PICK x \in T : \A y \in T : ~(<<y, x>> \in R)
  <2> HIDE DEF R
  <2> QED BY <1>1, WFMin
<1>3. ASSUME NEW y \in T PROVE x <= y
  <2>1. x \in Nat /\ y \in Nat
    OBVIOUS
  <2>2. ~(<<y, x>> \in R)
    BY <1>2
  <2>3. <<y, x>> \in Nat \X Nat /\ <<y, x>>[1] = y /\ <<y, x>>[2] = x
    BY <2>1
  <2>4. ~(y < x)
    BY <2>2, <2>3
  <2> QED BY <2>1, <2>4
<1> QED BY <1>3

LEMMA UpTo ==
  ASSUME NEW n \in Nat, NEW S, 0 \in S, \A i \in 1..n : i - 1 \in S => i \in S
  PROVE  n \in S
<1> DEFINE T == {k \in 0..n : k \notin S}
<1>1. SUFFICES ASSUME T # {} PROVE FALSE
  OBVIOUS
<1>2. T \subseteq Nat
  OBVIOUS
<1> HIDE DEF T
<1>3. PICK m \in T : \A y \in T : m <= y
  BY <1>1, <1>2, LeastNumber
<1>4. m \in 0..n /\ m \notin S
  BY DEF T
<1>5. m \in 1..n /\ m - 1 \in 0..n /\ ~(m <= m - 1)
  BY <1>4
<1>6. m - 1 \in S
  BY <1>3, <1>5 DEF T
<1> QED BY <1>4, <1>5, <1>6

LEMMA MaxOfPrefix ==
  ASSUME NEW k \in Nat, NEW s \in SUBSET (1..(k + 1)), k + 1 \in s
  PROVE  Max(s) = k + 1
<1>1. \A y \in s : k + 1 >= y
  OBVIOUS
<1>2. \E x \in s : \A y \in s : x >= y
  BY <1>1
<1>3. Max(s) \in s /\ \A y \in s : Max(s) >= y
  BY <1>2, Zenon DEF Max
<1>4. Max(s) >= k + 1 /\ Max(s) \in 1..(k + 1)
  BY <1>3
<1> QED BY <1>4

(* A non-empty set of places has a last one.                               *)
LEMMA MaxOfPlaces ==
  ASSUME NEW n \in Nat, NEW s \in SUBSET (1..n), s # {}
  PROVE  Max(s) \in s
<1> DEFINE T == {n - x : x \in s}
<1>1. T \subseteq Nat
  <2>1. ASSUME NEW x \in s PROVE n - x \in Nat
    OBVIOUS
  <2> QED BY <2>1
<1>0. T # {}
  OBVIOUS
<1> HIDE DEF T
<1>2. PICK m \in T : \A y \in T : m <= y
  BY <1>0, <1>1, LeastNumber
<1>3. PICK x \in s : m = n - x
  BY DEF T
<1>4. ASSUME NEW y \in s PROVE x >= y
  <2>1. n - y \in T
    BY DEF T
  <2>2. n - x <= n - y
    BY <1>2, <1>3, <2>1
  <2> QED BY <2>2
<1>5. \E z \in s : \A y \in s : z >= y
  BY <1>4
<1> QED BY <1>5, Zenon DEF Max

(* The function of sets of places that a fold is the value of: F[i] is     *)
(* what the fold does with the element at place i.                         *)
FoldOf(f, n, b, F) ==
  \A s \in SUBSET (1..n) : f[s] = IF s = {} THEN b ELSE F[Max(s)][f[s \ {Max(s)}]]

LEMMA FoldExists ==
  ASSUME NEW n \in Nat, NEW A, NEW b \in A, NEW F \in [1..n -> [A -> A]]
  PROVE  \E f \in [SUBSET (1..n) -> A] : FoldOf(f, n, b, F)
<1> DEFINE Step(f, s) == IF s = {} THEN b ELSE F[Max(s)][f[s \ {Max(s)}]]
           Folds(k, f) == \A s \in SUBSET (1..k) : f[s] = Step(f, s)
           S == {k \in 0..n : \E f \in [SUBSET (1..k) -> A] : Folds(k, f)}
<1>1. 0 \in S
  <2> DEFINE f == [s \in SUBSET (1..0) |-> b]
  <2>1. f \in [SUBSET (1..0) -> A]
    OBVIOUS
  <2>2. ASSUME NEW s \in SUBSET (1..0) PROVE f[s] = Step(f, s)
    <3>1. s = {}
      OBVIOUS
    <3> QED BY <3>1
  <2>3. Folds(0, f)
    BY <2>2
  <2> HIDE DEF f, Folds
  <2>4. \E g \in [SUBSET (1..0) -> A] : Folds(0, g)
    BY <2>1, <2>3, Zenon
  <2>5. 0 \in 0..n
    OBVIOUS
  <2> QED BY <2>4, <2>5, Zenon
<1>2. ASSUME NEW i \in 1..n, i - 1 \in S PROVE i \in S
  <2>0. PICK k \in 0..n : k = i - 1 /\ k + 1 = i /\ k \in Nat /\ k + 1 \in 1..n
    OBVIOUS
  <2>1. PICK g \in [SUBSET (1..k) -> A] : Folds(k, g)
    <3>1. k \in S
      BY <1>2, <2>0
    <3> HIDE DEF Folds
    <3> QED BY <3>1
  <2> DEFINE f == [s \in SUBSET (1..(k + 1)) |->
                     IF k + 1 \in s THEN F[k + 1][g[s \ {k + 1}]] ELSE g[s]]
  <2>2. ASSUME NEW s \in SUBSET (1..(k + 1)) PROVE f[s] \in A /\ f[s] = Step(f, s)
    <3>1. CASE k + 1 \in s
      <4>1. Max(s) = k + 1
        BY <2>0, <3>1, MaxOfPrefix
      <4>2. /\ s \ {k + 1} \in SUBSET (1..k) /\ s \ {k + 1} \in SUBSET (1..(k + 1))
            /\ k + 1 \notin s \ {k + 1}
        BY <2>0
      <4>3. f[s \ {k + 1}] = g[s \ {k + 1}]
        BY <4>2
      <4>4. f[s] = F[k + 1][g[s \ {k + 1}]]
        BY <3>1
      <4>5. s # {}
        BY <3>1
      <4>6. Step(f, s) = F[k + 1][f[s \ {k + 1}]]
        BY <4>1, <4>5, Zenon
      <4>7. g[s \ {k + 1}] \in A /\ F[k + 1] \in [A -> A]
        BY <4>2, <2>0
      <4>8. F[k + 1][g[s \ {k + 1}]] \in A
        BY <4>7, Zenon
      <4> QED BY <4>3, <4>4, <4>6, <4>8, Zenon
    <3>2. CASE k + 1 \notin s
      <4>1. s \in SUBSET (1..k)
        BY <2>0, <3>2
      <4>2. f[s] = g[s]
        BY <3>2
      <4>3. g[s] = Step(g, s) /\ g[s] \in A
        BY <2>1, <4>1
      <4>4. ASSUME s # {} PROVE f[s \ {Max(s)}] = g[s \ {Max(s)}]
        <5>1. s \ {Max(s)} \in SUBSET (1..(k + 1)) /\ k + 1 \notin s \ {Max(s)}
          BY <3>2
        <5> QED BY <5>1
      <4>5. Step(g, s) = Step(f, s)
        BY <4>4, Zenon
      <4> QED BY <4>2, <4>3, <4>5, Zenon
    <3> QED BY <3>1, <3>2, ZenonT(60)
  <2>3. f \in [SUBSET (1..i) -> A]
    BY <2>2, <2>0
  <2>4. Folds(i, f)
    BY <2>2, <2>0
  <2> HIDE DEF f, Folds
  <2> QED BY <2>3, <2>4
<1>3. n \in S
  <2> HIDE DEF S
  <2> QED BY <1>1, <1>2, UpTo
<1>4. PICK f \in [SUBSET (1..n) -> A] : Folds(n, f)
  <2> HIDE DEF Folds
  <2> QED BY <1>3
<1> QED BY <1>4, Zenon DEF FoldOf

(* The X servers that wait for READY, in the order they were made: what    *)
(* each handler keeps, all of them keep.                                   *)
ReadyIn(u, fails, c, i) == IF u.xmir[i].state = "none" THEN c ELSE xmir_compositor_ready_cb(c, i, fails)
ReadyAll(u, fails, st) == FoldLeft(LAMBDA c, i : ReadyIn(u, fails, c, i), st, Ordered)

LEMMA FoldIn ==
  ASSUME NEW u, NEW fails, NEW A, NEW st \in A,
         \A c \in A, i \in XServers : ReadyIn(u, fails, c, i) \in A
  PROVE  ReadyAll(u, fails, st) \in A
<1> DEFINE n == MaxSessions + 1
           q == Ordered
           Step(g, s) == IF s = {} THEN st ELSE ReadyIn(u, fails, g[s \ {Max(s)}], q[Max(s)])
           g == CHOOSE g : g = [s \in SUBSET (1..n) |-> Step(g, s)]
           F == [i \in 1..n |-> [a \in A |-> ReadyIn(u, fails, a, q[i])]]
<1>1. n \in Nat /\ DOMAIN q = 1..n /\ \A i \in 1..n : q[i] \in XServers
  BY UnityAssumption DEF Ordered, XServers, XDMCP, Sessions
<1>2. ReadyAll(u, fails, st) = g[1..n]
  <2>1. ReadyAll(u, fails, st)
          = (CHOOSE f : f = [s \in SUBSET (DOMAIN q) |-> Step(f, s)])[DOMAIN q]
    BY Zenon DEF ReadyAll, FoldLeft, MapThenFoldSet
  <2> QED BY <1>1, <2>1, Zenon
<1>3. F \in [1..n -> [A -> A]] /\ \A i \in 1..n, a \in A : F[i][a] = ReadyIn(u, fails, a, q[i])
  BY <1>1, Zenon
<1> HIDE DEF n, q, F
<1>5. PICK f \in [SUBSET (1..n) -> A] : FoldOf(f, n, st, F)
  BY <1>1, <1>3, FoldExists
<1>6. ASSUME NEW s \in SUBSET (1..n) PROVE f[s] = Step(f, s)
  <2>1. ASSUME s # {} PROVE F[Max(s)][f[s \ {Max(s)}]] = ReadyIn(u, fails, f[s \ {Max(s)}], q[Max(s)])
    <3>1. Max(s) \in 1..n
      BY <1>1, <2>1, MaxOfPlaces
    <3>2. s \ {Max(s)} \in SUBSET (1..n)
      OBVIOUS
    <3>3. f[s \ {Max(s)}] \in A
      BY <3>2, Zenon
    <3> QED BY <1>3, <3>1, <3>3, Zenon
  <2>2. f[s] = IF s = {} THEN st ELSE F[Max(s)][f[s \ {Max(s)}]]
    BY <1>5, Zenon DEF FoldOf
  <2> QED BY <2>1, <2>2, Zenon
<1>7. f = [s \in SUBSET (1..n) |-> Step(f, s)]
  BY <1>6, Zenon
<1>8. g = [s \in SUBSET (1..n) |-> Step(g, s)]
  BY <1>7, Zenon
<1> HIDE DEF g
<1>9. \A s \in SUBSET (1..n) : g[s] = Step(g, s)
  BY <1>8, Zenon
<1> DEFINE G == {i \in 0..n : g[1..i] \in A}
<1>10. 0 \in G
  <2>1. 1..0 = {} /\ 1..0 \in SUBSET (1..n) /\ 0 \in 0..n
    BY <1>1
  <2>2. g[1..0] = st
    BY <1>9, <2>1, Zenon
  <2> QED BY <2>1, <2>2, Zenon
<1>11. ASSUME NEW i \in 1..n, i - 1 \in G PROVE i \in G
  <2>0. i - 1 \in 0..n /\ i \in 0..n /\ i \in Nat /\ i <= n /\ i \in 1..i /\ g[1..(i - 1)] \in A
    BY <1>1, <1>11
  <2>1. 1..i \in SUBSET (1..n) /\ 1..i # {}
    <3>1. \A x \in 1..i : x \in 1..n
      BY <1>1, <2>0
    <3> QED BY <2>0, <3>1, Zenon
  <2>2. (1..i) \ {i} = 1..(i - 1)
    BY <1>1
  <2>3. Max(1..i) = i
    <3>1. i - 1 \in Nat /\ (i - 1) + 1 = i
      BY <1>1
    <3>2. 1..i \in SUBSET (1..i) /\ i \in 1..i
      BY <1>1
    <3> QED BY <3>1, <3>2, MaxOfPrefix
  <2>4. g[1..i] = ReadyIn(u, fails, g[1..(i - 1)], q[i])
    BY <1>9, <2>1, <2>2, <2>3, Zenon
  <2>5. g[1..i] \in A
    <3>1. q[i] \in XServers
      BY <1>1
    <3>2. ReadyIn(u, fails, g[1..(i - 1)], q[i]) \in A
      BY <2>0, <3>1, Zenon
    <3> QED BY <2>4, <3>2, Zenon
  <2> QED BY <2>0, <2>5, Zenon
<1>12. n \in G
  <2> HIDE DEF G
  <2> QED BY <1>1, <1>10, <1>11, UpTo
<1> QED BY <1>2, <1>12, Zenon DEF q

LEMMA NextIs == ASSUME NEW u, Unused(u) # {} PROVE NextSession(u) \in Unused(u)
<1>1. Unused(u) \subseteq Nat
  BY UnityAssumption DEF Unused, Sessions
<1>2. \E s \in Unused(u) : \A t \in Unused(u) : s <= t
  BY <1>1, LeastNumber
<1> QED BY <1>2, Zenon DEF NextSession

(***************************************************************************)
(* X servers and sessions that are made                                    *)
(***************************************************************************)

LEMMA NewName ==
  ASSUME NEW n \in Nat
  PROVE  /\ <<"x", n>> \in Below("x", n + 1) /\ <<"x", n>> \notin Below("x", n)
         /\ Below("x", n) \subseteq Below("x", n + 1) /\ <<"x", n>> \in Ids
<1>1. \A m \in 0..(n - 1) : m # n /\ m \in 0..((n + 1) - 1)
  OBVIOUS
<1>2. n \in 0..((n + 1) - 1)
  OBVIOUS
<1>3. \A m : <<"x", m>> = <<"x", n>> => m = n
  OBVIOUS
<1>4. <<"x", n>> \in Ids
  BY DEF Ids, Kinds
<1> QED BY <1>1, <1>2, <1>3, <1>4 DEF Below

XServer(n, b) == [NewXServer EXCEPT !.state = "new", !.parent = b, !.mir_id = <<"x", n>>]

LEMMA XServerIs ==
  ASSUME NEW u \in StateType, NEW x, x = XServer(u.seat.next_x_server_id, u.seat.compositor)
  PROVE  /\ x \in XServerType /\ x.state = "new" /\ ~x.waiting
         /\ x.mir_id = <<"x", u.seat.next_x_server_id>> /\ u.seat.next_x_server_id \in Nat
<1>1. u.seat.compositor \in BOOLEAN /\ u.seat.next_x_server_id \in Nat
  BY Fields DEF SeatType
<1>2. <<"x", u.seat.next_x_server_id>> \in Ids /\ NoId \in Ids
  BY <1>1, NewName DEF Ids
<1> QED BY <1>1, <1>2 DEF XServer, NewXServer, XServerType

(* The names when X server i is made.                                      *)
LEMMA NamedMore ==
  ASSUME NEW u, Core(u), NEW v, NEW i \in XServers,
         \A j \in XServers \ {i} : v.xmir[j] = u.xmir[j],
         v.xmir[i].mir_id = <<"x", u.seat.next_x_server_id>>,
         v.seat.next_x_server_id = u.seat.next_x_server_id + 1,
         v.usc = u.usc,
         \A s \in Sessions : v.session[s] = u.session[s]
            \/ (v.session[s].MIR_SERVER_NAME = NoId /\ v.session[s].state # "running")
  PROVE  Named(v)
<1>1. u.seat.next_x_server_id \in Nat
  BY Fields DEF Core, SeatType
<1> DEFINE n == u.seat.next_x_server_id
<1>2. /\ <<"x", n>> \in Below("x", n + 1) /\ <<"x", n>> \notin Below("x", n)
      /\ Below("x", n) \subseteq Below("x", n + 1)
  BY <1>1, NewName
<1>3. Named(u)
  BY DEF Core
<1> HIDE DEF n
<1>4. \A j \in XServers : u.xmir[j].state # "none" => u.xmir[j].mir_id \in Below("x", n)
  BY <1>3 DEF Named, n
<1>5. \A j \in XServers : v.xmir[j].state # "none" => v.xmir[j].mir_id \in Below("x", n + 1)
  BY <1>2, <1>4 DEF n
<1>6. \A j, k \in XServers :
        j # k /\ v.xmir[j].state # "none" /\ v.xmir[k].state # "none" => v.xmir[j].mir_id # v.xmir[k].mir_id
  <2>1. v.xmir[i].mir_id = <<"x", n>>
    BY DEF n
  <2>2. \A j, k \in XServers :
          j # k /\ u.xmir[j].state # "none" /\ u.xmir[k].state # "none" => u.xmir[j].mir_id # u.xmir[k].mir_id
    BY <1>3 DEF Named
  <2> QED BY <1>2, <1>4, <2>1, <2>2
<1>7. \A s \in Sessions : v.session[s].MIR_SERVER_NAME # NoId => v.session[s].MIR_SERVER_NAME \in Given(v.usc)
  BY <1>3 DEF Named
<1>8. \A s, t \in Sessions :
        s # t /\ v.session[s].MIR_SERVER_NAME # NoId => v.session[s].MIR_SERVER_NAME # v.session[t].MIR_SERVER_NAME
  BY <1>3 DEF Named
<1>9. \A s \in Sessions :
        v.session[s].state = "running" /\ v.session[s].display_server = compositor
          => v.session[s].MIR_SERVER_NAME # NoId
  BY <1>3 DEF Named
<1> QED BY <1>5, <1>6, <1>7, <1>8, <1>9 DEF Named, n

(* The session that is shown is not touched.                               *)
LEMMA ActiveStays ==
  ASSUME NEW u, Core(u), NEW v, v.seat.active_session = u.seat.active_session,
         v.seat.compositor = u.seat.compositor, v.shown = u.shown,
         \A j \in XServers : u.xmir[j].state # "none" => v.xmir[j].mir_id = u.xmir[j].mir_id,
         \A s \in Sessions : u.session[s].state # "none" => v.session[s] = u.session[s]
  PROVE  Active(v)
<1> DEFINE a == u.seat.active_session
<1>1. Active(u) /\ a \in Sessions \cup {None} /\ u \in StateType
  BY Fields DEF Core, SeatType
<1>2. CASE a = None
  BY <1>1, <1>2 DEF Active, get_mir_id
<1>3. CASE a # None
  <2>1. /\ a \in Sessions /\ u.session[a].state \notin {"none", "waiting"} /\ u.session[a].display_server # None
        /\ v.session[a] = u.session[a]
    BY <1>1, <1>3 DEF Active
  <2>2. u.session[a].display_server \in Sessions \cup {compositor}
    BY <1>1, <2>1, Fields DEF SessionType
  <2>3. u.session[a].display_server \in Sessions =>
          v.xmir[u.session[a].display_server].mir_id = u.xmir[u.session[a].display_server].mir_id
    <3>1. ASSUME u.session[a].display_server \in Sessions
          PROVE  u.xmir[u.session[a].display_server].state # "none"
      BY <2>1, <3>1 DEF Core, Hosted
    <3>2. Sessions \subseteq XServers
      BY Apart
    <3> QED BY <3>1, <3>2
  <2>4. get_mir_id(v, a) = get_mir_id(u, a)
    <3> DEFINE d == u.session[a].display_server
    <3>1. a # None /\ v.session[a].display_server = d
          /\ v.session[a].MIR_SERVER_NAME = u.session[a].MIR_SERVER_NAME
      BY <1>3, <2>1
    <3>2. get_mir_id(v, a) = IF d = compositor THEN u.session[a].MIR_SERVER_NAME ELSE v.xmir[d].mir_id
      BY <3>1, Zenon DEF get_mir_id
    <3>3. get_mir_id(u, a) = IF d = compositor THEN u.session[a].MIR_SERVER_NAME ELSE u.xmir[d].mir_id
      BY <3>1, Zenon DEF get_mir_id
    <3>4. d = compositor \/ v.xmir[d].mir_id = u.xmir[d].mir_id
      <4>1. d \in Sessions \/ d = compositor
        BY <2>2
      <4>2. d \in Sessions => v.xmir[d].mir_id = u.xmir[d].mir_id
        BY <2>3, Zenon
      <4> HIDE DEF d
      <4> QED BY <4>1, <4>2, Zenon
    <3> HIDE DEF d
    <3>5. CASE d = compositor
      BY <3>2, <3>3, <3>5
    <3>6. CASE d # compositor
      BY <3>2, <3>3, <3>4, <3>6
    <3> QED BY <3>5, <3>6
  <2> QED BY <1>1, <1>3, <2>1, <2>4 DEF Active
<1> QED BY <1>2, <1>3

MakeXDMCP(u) == [create_x_server(u, XDMCP) EXCEPT !.seat.xdmcp_x_server = TRUE]

LEMMA XDMCPMade ==
  ASSUME NEW u, Good(u), u.seat.early \/ u.usc.is_ready, NEW v, v = MakeXDMCP(u)
  PROVE  /\ Good(v) /\ Goes(v, u) /\ v.seat.stopping = u.seat.stopping /\ v.seat.stopped = u.seat.stopped
         /\ v.xmir[XDMCP].state = "new" /\ ~v.xmir[XDMCP].waiting
<1>0. u \in StateType /\ u.seat \in SeatType /\ XDMCP \in XServers
  BY Apart, Fields DEF Good, Core
<1> DEFINE x == XServer(u.seat.next_x_server_id, u.seat.compositor)
           c == [u.seat EXCEPT !.next_x_server_id = @ + 1, !.xdmcp_x_server = TRUE]
<1>1. v = Set(u, XDMCP, x, c)
  BY <1>0 DEF MakeXDMCP, create_x_server, XServer, Set, StateType
<1>2. /\ x \in XServerType /\ x.state = "new" /\ ~x.waiting
      /\ x.mir_id = <<"x", u.seat.next_x_server_id>> /\ u.seat.next_x_server_id \in Nat
  BY <1>0, XServerIs
<1>3. /\ c \in SeatType /\ SeatGoes(c, u.seat) /\ c.next_x_server_id = u.seat.next_x_server_id + 1
      /\ c.stopping = u.seat.stopping /\ c.stopped = u.seat.stopped
      /\ c.display_servers = u.seat.display_servers
  <2>1. c = [u.seat EXCEPT !.next_x_server_id = u.seat.next_x_server_id + 1, !.xdmcp_x_server = TRUE]
    OBVIOUS
  <2>2. u.seat.next_x_server_id + 1 \in Nat
    BY <1>2
  <2> HIDE DEF c
  <2>3. c \in SeatType
    BY <1>0, <2>1, <2>2 DEF SeatType
  <2>4. SeatGoes(c, u.seat)
    BY <1>0, <2>1 DEF SeatType, SeatGoes
  <2> QED BY <1>0, <2>1, <2>3, <2>4 DEF SeatType
<1>3b. c.xdmcp_x_server
  BY <1>0 DEF SeatType
<1> HIDE DEF x, c
<1>4. /\ v \in StateType /\ v.usc = u.usc /\ v.session = u.session /\ v.shown = u.shown /\ v.seat = c
      /\ v.xmir[XDMCP] = x /\ \A j \in XServers \ {XDMCP} : v.xmir[j] = u.xmir[j]
  <2>1. x \in XServerType /\ c \in SeatType
    BY <1>2, <1>3
  <2> QED BY <1>0, <1>1, <2>1, XServerSet
<1>5. Lives(v)
  BY <1>3, <1>4 DEF Good, Core, Lives, SeatGoes
<1>6. Servers(v)
  <2>1. x.state = "new" /\ ~x.waiting
    BY <1>2
  <2>2. v.seat.display_servers = u.seat.display_servers /\ v.seat.xdmcp_x_server
    BY <1>3, <1>3b, <1>4
  <2> QED BY <1>4, <2>1, <2>2, Apart DEF Good, Core, Servers
<1>7. Hosted(v)
  BY <1>4, Apart DEF Good, Core, Hosted
<1>8. Named(v)
  <2>1. v.seat.next_x_server_id = u.seat.next_x_server_id + 1 /\ v.xmir[XDMCP].mir_id = <<"x", u.seat.next_x_server_id>>
    BY <1>2, <1>3, <1>4
  <2> QED BY <1>0, <1>4, <2>1, NamedMore DEF Good
<1>9. Active(v)
  <2>1. \A j \in Sessions : v.xmir[j] = u.xmir[j]
    BY <1>4, Apart
  <2>2. Active(u) /\ u.seat.active_session \in Sessions \cup {None}
    BY <1>0 DEF Good, Core, SeatType
  <2>3. ASSUME NEW s \in Sessions, u.session[s].display_server # None
        PROVE  get_mir_id(v, s) = get_mir_id(u, s)
    <3>1. u.session[s].display_server \in Sessions \cup {compositor}
      BY <1>0, <2>3, Fields DEF SessionType
    <3> QED BY <1>4, <2>1, <3>1 DEF get_mir_id
  <2>4. get_mir_id(v, None) = get_mir_id(u, None)
    BY DEF get_mir_id
  <2>5. v.seat.active_session = u.seat.active_session /\ v.seat.compositor = u.seat.compositor
    BY <1>3, <1>4 DEF SeatGoes
  <2> QED BY <1>4, <2>2, <2>3, <2>4, <2>5 DEF Active
<1>10. Says(v)
  BY <1>3, <1>4 DEF Good, Says, SeatGoes
<1>11. Clean(v)
  <2>1. (ExcusedIn(v) <=> ExcusedIn(u)) /\ Present(v) = Present(u)
    BY <1>3, <1>4 DEF ExcusedIn, SeatGoes, Present
  <2> QED BY <1>2, <1>3, <1>4, <2>1 DEF Good, Clean
<1>12. Ending(v) /\ Goes(v, u)
  BY <1>3, <1>4 DEF Good, Ending, Goes, SameCompositor, SeatGoes
<1> QED BY <1>2, <1>3, <1>4, <1>5, <1>6, <1>7, <1>8, <1>9, <1>10, <1>11, <1>12 DEF Good, Core

(* A session is made: on a new X server, on the compositor, on the server  *)
(* of a greeter, or on none.                                               *)
SeatMore(c, b) ==
  /\ c.phase = b.phase /\ c.xdmcp_manager = b.xdmcp_manager /\ c.compositor = b.compositor
  /\ c.xdmcp_x_server = b.xdmcp_x_server /\ c.stopping = b.stopping /\ c.stopped = b.stopped
  /\ c.active_session = b.active_session /\ c.late = b.late /\ (b.early => c.early)
Joins(v, u, s) ==
  /\ v \in StateType /\ v.usc = u.usc /\ v.shown = u.shown /\ SeatMore(v.seat, u.seat)
  /\ s \in Sessions /\ u.session[s].state = "none"
  /\ \A t \in Sessions \ {s} : v.session[t] = u.session[t]
  /\ v.session[s].state \in {"waiting", "stopping"} /\ v.session[s].MIR_SERVER_NAME = NoId
  /\ v.session[s].state = "waiting" => v.session[s].display_server # None
  /\ v.seat.early \/ u.usc.is_ready
  /\ ~u.seat.stopped \/ ExcusedIn(u)

LEMMA JoinedKeeps ==
  ASSUME NEW u, Good(u), NEW v, NEW s, Joins(v, u, s), v.xmir[XDMCP] = u.xmir[XDMCP],
         \A j \in XServers : u.xmir[j].state # "none" => v.xmir[j] = u.xmir[j]
  PROVE  Lives(v) /\ Active(v) /\ Says(v) /\ Clean(v) /\ Ending(v) /\ s \in Present(v)
<1>1. Lives(v)
  BY DEF Good, Core, Lives, Joins, SeatMore
<1>2. Active(v)
  <2>1. /\ v.seat.active_session = u.seat.active_session /\ v.seat.compositor = u.seat.compositor
        /\ v.shown = u.shown /\ \A t \in Sessions : u.session[t].state # "none" => v.session[t] = u.session[t]
    BY DEF Joins, SeatMore
  <2> QED BY <2>1, ActiveStays DEF Good
<1>3. Says(v)
  BY DEF Good, Says, Joins, SeatMore
<1>4. Clean(v)
  <2>1. ExcusedIn(u) => ExcusedIn(v)
    BY DEF Joins, SeatMore, ExcusedIn
  <2> QED BY <2>1 DEF Good, Clean, Joins, SeatMore
<1>5. Ending(v) /\ s \in Present(v)
  BY DEF Good, Ending, Joins, SeatMore, Present
<1> QED BY <1>1, <1>2, <1>3, <1>4, <1>5

LEMMA JoinedOnX ==
  ASSUME NEW u, Good(u), NEW v, NEW s, Joins(v, u, s),
         v.seat.next_x_server_id = u.seat.next_x_server_id + 1,
         v.seat.display_servers = u.seat.display_servers \cup {s},
         \A j \in XServers \ {s} : v.xmir[j] = u.xmir[j],
         v.xmir[s].mir_id = <<"x", u.seat.next_x_server_id>>, v.xmir[s].state = "new",
         v.session[s].display_server = s
  PROVE  Good(v) /\ s \in Present(v)
<1>1. s \in Sessions /\ s \in XServers /\ s # XDMCP /\ u \in StateType /\ v \in StateType
  BY Apart DEF Good, Core, Joins
<1>2. u.session[s].state = "none" /\ u.xmir[s].state = "none"
  BY <1>1 DEF Joins, Good, Core, Servers
<1>3. Lives(v) /\ Active(v) /\ Says(v) /\ Clean(v) /\ Ending(v) /\ s \in Present(v)
  BY <1>1, <1>2, Apart, JoinedKeeps
<1>4. Servers(v)
  BY <1>1, Apart DEF Good, Core, Servers, Joins, SeatMore
<1>5. Hosted(v)
  <2>1. \A t \in Sessions \ {s} : v.session[t] = u.session[t] /\ v.xmir[t] = u.xmir[t]
    BY Apart DEF Joins
  <2>2. \A t \in Sessions \ {s} : u.session[t].display_server # s
    BY <1>1, <1>2 DEF Good, Core, Hosted
  <2>3. v.session[s].state # "running" /\ v.session[s].display_server # None
    BY <1>1, Apart DEF Joins
  <2>4. Hosted(u)
    BY DEF Good, Core
  <2> QED BY <2>1, <2>2, <2>3, <2>4 DEF Hosted
<1>6. Named(v)
  <2>1. v.usc = u.usc /\ \A t \in Sessions : v.session[t] = u.session[t]
          \/ (v.session[t].MIR_SERVER_NAME = NoId /\ v.session[t].state # "running")
    BY DEF Joins
  <2> QED BY <1>1, <2>1, NamedMore DEF Good
<1> QED BY <1>1, <1>3, <1>4, <1>5, <1>6 DEF Good, Core

LEMMA JoinedElsewhere ==
  ASSUME NEW u, Good(u), NEW v, NEW s, Joins(v, u, s),
         v.seat.next_x_server_id = u.seat.next_x_server_id,
         v.seat.display_servers \in {u.seat.display_servers, u.seat.display_servers \cup {compositor}},
         v.xmir = u.xmir,
         v.session[s].display_server \in Sessions =>
           /\ u.xmir[v.session[s].display_server].state # "none"
           /\ \A t \in Sessions : u.session[t].display_server = v.session[s].display_server
                                    => u.session[t].state # "running"
  PROVE  Good(v) /\ s \in Present(v)
<1>1. s \in Sessions /\ u \in StateType /\ v \in StateType
  BY Apart DEF Good, Core, Joins
<1>2. Lives(v) /\ Active(v) /\ Says(v) /\ Clean(v) /\ Ending(v) /\ s \in Present(v)
  BY JoinedKeeps
<1>3. Servers(v)
  BY <1>1, Apart DEF Good, Core, Servers, Joins, SeatMore
<1>4. Hosted(v)
  <2>1. \A t \in Sessions \ {s} : v.session[t] = u.session[t]
    BY DEF Joins
  <2>2. v.session[s].state # "running" /\ (v.session[s].state = "waiting" => v.session[s].display_server # None)
    BY DEF Joins
  <2>3. Hosted(u)
    BY DEF Good, Core
  <2> QED BY <2>1, <2>2, <2>3 DEF Hosted
<1>5. Named(v)
  <2>1. \A t \in Sessions : v.session[t] = u.session[t]
          \/ (v.session[t].MIR_SERVER_NAME = NoId /\ v.session[t].state # "running")
    BY DEF Joins
  <2>2. Named(u) /\ v.usc = u.usc
    BY DEF Good, Core, Joins
  <2> QED BY <2>1, <2>2 DEF Named
<1> QED BY <1>1, <1>2, <1>3, <1>4, <1>5 DEF Good, Core

SetSession(u, s, r, c) == [u EXCEPT !.session[s] = r, !.seat = c]

LEMMA SessionSet ==
  ASSUME NEW u \in StateType, NEW s \in Sessions, NEW r \in SessionType, NEW c \in SeatType, NEW v,
         v = SetSession(u, s, r, c)
  PROVE  /\ v \in StateType /\ v.usc = u.usc /\ v.xmir = u.xmir /\ v.shown = u.shown /\ v.seat = c
         /\ v.session[s] = r /\ \A t \in Sessions \ {s} : v.session[t] = u.session[t]
BY DEF StateType, SetSession

Early(u) == u.seat.early \/ u.usc.said = <<>>
MaySession(u, s) ==
  /\ Good(u) /\ u.seat.phase = "started" /\ s \in Sessions /\ u.session[s].state = "none"
  /\ Early(u) \/ u.usc.is_ready
  /\ ~u.seat.stopped \/ ExcusedIn(u)

IsSession(r, state, d) ==
  r \in SessionType /\ r.state = state /\ r.display_server = d /\ r.MIR_SERVER_NAME = NoId

(* First without a server.                                                 *)
Begin(u, s, g) ==
  [u EXCEPT !.session[s] = [NewSession EXCEPT !.state = "waiting", !.greeter = g],
            !.seat.early = @ \/ u.usc.said = <<>>]

LEMMA Begins ==
  ASSUME NEW u, NEW s, MaySession(u, s), NEW g \in BOOLEAN, NEW a, a = Begin(u, s, g)
  PROVE  /\ a \in StateType /\ a.usc = u.usc /\ a.xmir = u.xmir /\ a.shown = u.shown
         /\ IsSession(a.session[s], "waiting", None) /\ \A t \in Sessions \ {s} : a.session[t] = u.session[t]
         /\ SeatMore(a.seat, u.seat) /\ (a.seat.early <=> Early(u))
         /\ a.seat.display_servers = u.seat.display_servers
         /\ a.seat.next_x_server_id = u.seat.next_x_server_id
<1>0. u \in StateType /\ u.seat \in SeatType /\ s \in Sessions
  BY Fields DEF MaySession, Good, Core
<1> DEFINE e == Early(u)
           c == [u.seat EXCEPT !.early = e]
           r == [NewSession EXCEPT !.state = "waiting", !.greeter = g]
<1>1. a = SetSession(u, s, r, c)
  <2>2. a = [u EXCEPT !.session[s] = r, !.seat.early = u.seat.early \/ u.usc.said = <<>>]
    BY Zenon DEF Begin
  <2>3. a = [u EXCEPT !.session[s] = r, !.seat.early = e]
    BY <2>2, Zenon DEF Early
  <2> HIDE DEF e, r
  <2> QED BY <1>0, <2>3 DEF SetSession, StateType
<1>2. e \in BOOLEAN /\ (e <=> Early(u)) /\ (u.seat.early => e)
  BY DEF Early
<1> HIDE DEF e
<1>3. c \in SeatType /\ SeatMore(c, u.seat) /\ c.display_servers = u.seat.display_servers
      /\ c.next_x_server_id = u.seat.next_x_server_id /\ (c.early <=> e)
  BY <1>0, <1>2 DEF SeatType, SeatMore
<1>4. IsSession(r, "waiting", None)
  BY DEF NewSession, SessionType, IsSession, PresentStates, Ids
<1> HIDE DEF c, r
<1> QED BY <1>0, <1>1, <1>2, <1>3, <1>4, SessionSet DEF IsSession

(* Then on an X server of its own, on the compositor, or nowhere.          *)
LEMMA MadeOnX ==
  ASSUME NEW u, NEW s, MaySession(u, s), NEW g \in BOOLEAN, NEW v,
         v = seat_unity_create_display_server(Begin(u, s, g), s, "x")
  PROVE  /\ Good(v) /\ s \in Present(v) /\ v.xmir[s].state = "new" /\ ~v.xmir[s].waiting
         /\ v.usc = u.usc /\ SeatMore(v.seat, u.seat) /\ (v.seat.early <=> Early(u))
<1>0. u \in StateType /\ u.seat \in SeatType /\ s \in Sessions /\ s \in XServers
  BY Apart, Fields DEF MaySession, Good, Core
<1> DEFINE a == Begin(u, s, g)
           x == XServer(a.seat.next_x_server_id, a.seat.compositor)
           r == [a.session[s] EXCEPT !.display_server = s]
           c == [a.seat EXCEPT !.next_x_server_id = @ + 1, !.display_servers = @ \cup {s}]
           b == Set(a, s, x, c)
<1>1. /\ a \in StateType /\ a.usc = u.usc /\ a.xmir = u.xmir /\ a.shown = u.shown
      /\ IsSession(a.session[s], "waiting", None) /\ \A t \in Sessions \ {s} : a.session[t] = u.session[t]
      /\ SeatMore(a.seat, u.seat) /\ (a.seat.early <=> Early(u))
      /\ a.seat.display_servers = u.seat.display_servers
      /\ a.seat.next_x_server_id = u.seat.next_x_server_id
  BY Begins
<1>2. a.seat \in SeatType /\ a.session[s] \in SessionType /\ a.seat.next_x_server_id \in Nat
  BY <1>0, <1>1, Fields DEF SeatType
<1> HIDE DEF a
<1>3. v = SetSession(b, s, r, c)
  <2> DEFINE y == create_x_server(a, s)
             cc == [a.seat EXCEPT !.next_x_server_id = @ + 1]
  <2>1. y = Set(a, s, x, cc)
    BY <1>0, <1>1, <1>2 DEF create_x_server, Set, XServer, StateType, SeatType
  <2>2. v = [y EXCEPT !.seat.display_servers = @ \cup {s}, !.session[s].display_server = s]
    BY Zenon DEF seat_unity_create_display_server, a
  <2>3. x \in XServerType
    BY <1>1, XServerIs
  <2>4. cc \in SeatType /\ c = [cc EXCEPT !.display_servers = @ \cup {s}]
    BY <1>2 DEF SeatType
  <2> HIDE DEF y, x, c, cc
  <2>5. /\ y \in StateType /\ y.usc = a.usc /\ y.session = a.session /\ y.shown = a.shown /\ y.seat = cc
        /\ y.xmir[s] = x /\ \A j \in XServers \ {s} : y.xmir[j] = a.xmir[j]
    BY <1>0, <1>1, <2>1, <2>3, <2>4, XServerSet
  <2>6. v = [y EXCEPT !.session[s] = r, !.seat = c]
    BY <1>0, <2>2, <2>4, <2>5 DEF StateType
  <2>7. b = [y EXCEPT !.seat = c]
    BY <1>1, <2>1 DEF Set, StateType
  <2> HIDE DEF b, r
  <2> QED BY <1>0, <2>5, <2>6, <2>7 DEF SetSession, StateType
<1>4. /\ x \in XServerType /\ x.state = "new" /\ ~x.waiting
      /\ x.mir_id = <<"x", a.seat.next_x_server_id>>
  BY <1>1, XServerIs
<1>5. IsSession(r, "waiting", s)
  BY <1>0, <1>1, <1>2 DEF SessionType, IsSession
<1>6. /\ c \in SeatType /\ SeatMore(c, u.seat) /\ (c.early <=> Early(u))
      /\ c.display_servers = u.seat.display_servers \cup {s}
      /\ c.next_x_server_id = u.seat.next_x_server_id + 1
  <2>1. c \in SeatType
    <3>1. a.seat.next_x_server_id + 1 \in Nat
      BY <1>2
    <3>2. a.seat.display_servers \cup {s} \in SUBSET (Sessions \cup {compositor})
      BY <1>0, <1>2 DEF SeatType
    <3> QED BY <1>2, <3>1, <3>2 DEF SeatType
  <2>2. /\ SeatMore(c, a.seat) /\ c.early = a.seat.early /\ c.display_servers = a.seat.display_servers \cup {s}
        /\ c.next_x_server_id = a.seat.next_x_server_id + 1
    BY <1>2 DEF SeatType, SeatMore
  <2> HIDE DEF c
  <2> QED BY <1>1, <2>1, <2>2 DEF SeatMore
<1> HIDE DEF x, r, c
<1>7. /\ b \in StateType /\ b.usc = a.usc /\ b.session = a.session /\ b.shown = a.shown
      /\ b.xmir[s] = x /\ \A j \in XServers \ {s} : b.xmir[j] = a.xmir[j]
  BY <1>0, <1>1, <1>4, <1>6, XServerSet
<1> HIDE DEF b
<1>8. /\ v \in StateType /\ v.usc = b.usc /\ v.xmir = b.xmir /\ v.shown = b.shown /\ v.seat = c
      /\ v.session[s] = r /\ \A t \in Sessions \ {s} : v.session[t] = b.session[t]
  BY <1>0, <1>3, <1>5, <1>6, <1>7, SessionSet DEF IsSession
<1>9. Joins(v, u, s)
  BY <1>0, <1>1, <1>5, <1>6, <1>7, <1>8, Apart DEF Joins, MaySession, IsSession
<1>10. v.xmir[s].mir_id = <<"x", u.seat.next_x_server_id>> /\ v.xmir[s].state = "new" /\ ~v.xmir[s].waiting
  BY <1>1, <1>4, <1>7, <1>8
<1>11. Good(v) /\ s \in Present(v)
  BY <1>1, <1>5, <1>6, <1>7, <1>8, <1>9, <1>10, JoinedOnX DEF MaySession, IsSession
<1> QED BY <1>1, <1>6, <1>7, <1>8, <1>10, <1>11

LEMMA MadeOnMir ==
  ASSUME NEW u, NEW s, MaySession(u, s), NEW g \in BOOLEAN, NEW v,
         v = seat_unity_create_display_server(Begin(u, s, g), s, "mir")
  PROVE  /\ Good(v) /\ s \in Present(v)
         /\ v.usc = u.usc /\ SeatMore(v.seat, u.seat) /\ (v.seat.early <=> Early(u))
<1>0. u \in StateType /\ u.seat \in SeatType /\ s \in Sessions
  BY Fields DEF MaySession, Good, Core
<1> DEFINE a == Begin(u, s, g)
           r == [a.session[s] EXCEPT !.display_server = compositor]
           c == [a.seat EXCEPT !.display_servers = @ \cup {compositor}]
           q == [a.session[s] EXCEPT !.state = "stopping"]
<1>1. /\ a \in StateType /\ a.usc = u.usc /\ a.xmir = u.xmir /\ a.shown = u.shown
      /\ IsSession(a.session[s], "waiting", None) /\ \A t \in Sessions \ {s} : a.session[t] = u.session[t]
      /\ SeatMore(a.seat, u.seat) /\ (a.seat.early <=> Early(u))
      /\ a.seat.display_servers = u.seat.display_servers
      /\ a.seat.next_x_server_id = u.seat.next_x_server_id
  BY Begins
<1>2. a.seat \in SeatType /\ a.session[s] \in SessionType
  BY <1>0, <1>1, Fields
<1> HIDE DEF a
<1>3. CASE a.seat.compositor
  <2>1. v = SetSession(a, s, r, c)
    BY <1>0, <1>1, <1>2, <1>3 DEF seat_unity_create_display_server, SetSession, StateType, SeatType, a
  <2>2. IsSession(r, "waiting", compositor)
    BY <1>1, <1>2 DEF SessionType, IsSession
  <2>3. /\ c \in SeatType /\ SeatMore(c, u.seat) /\ (c.early <=> Early(u))
        /\ c.display_servers = u.seat.display_servers \cup {compositor}
        /\ c.next_x_server_id = u.seat.next_x_server_id
    <3>1. c \in SeatType
      BY <1>2 DEF SeatType
    <3>2. /\ SeatMore(c, a.seat) /\ c.early = a.seat.early /\ c.display_servers = a.seat.display_servers \cup {compositor}
          /\ c.next_x_server_id = a.seat.next_x_server_id
      BY <1>2 DEF SeatType, SeatMore
    <3> HIDE DEF c
    <3> QED BY <1>1, <3>1, <3>2 DEF SeatMore
  <2> HIDE DEF r, c
  <2>4. /\ v \in StateType /\ v.usc = a.usc /\ v.xmir = a.xmir /\ v.shown = a.shown /\ v.seat = c
        /\ v.session[s] = r /\ \A t \in Sessions \ {s} : v.session[t] = a.session[t]
    BY <1>0, <1>1, <2>1, <2>2, <2>3, SessionSet, SMTT(60) DEF IsSession
  <2>5. Joins(v, u, s)
    BY <1>0, <1>1, <2>2, <2>3, <2>4, Apart DEF Joins, MaySession, IsSession
  <2>6. v.session[s].display_server \notin Sessions
    BY <2>2, <2>4, Apart DEF IsSession
  <2>7. Good(v) /\ s \in Present(v)
    BY <1>1, <2>3, <2>4, <2>5, <2>6, JoinedElsewhere DEF MaySession
  <2> QED BY <1>1, <2>3, <2>4, <2>7
<1>4. CASE ~a.seat.compositor
  <2>1. v = SetSession(a, s, q, a.seat)
    BY <1>0, <1>1, <1>2, <1>4 DEF seat_unity_create_display_server, SetSession, StateType, SeatType, a
  <2>2. IsSession(q, "stopping", None)
    BY <1>1, <1>2 DEF SessionType, IsSession, PresentStates
  <2> HIDE DEF q
  <2>4. /\ v \in StateType /\ v.usc = a.usc /\ v.xmir = a.xmir /\ v.shown = a.shown /\ v.seat = a.seat
        /\ v.session[s] = q /\ \A t \in Sessions \ {s} : v.session[t] = a.session[t]
    BY <1>0, <1>1, <1>2, <2>1, <2>2, SessionSet, SMTT(60) DEF IsSession
  <2>5. Joins(v, u, s)
    BY <1>0, <1>1, <2>2, <2>4 DEF Joins, MaySession, IsSession
  <2>6. v.session[s].display_server \notin Sessions
    BY <2>2, <2>4, Apart DEF IsSession
  <2>7. Good(v) /\ s \in Present(v)
    BY <1>1, <2>4, <2>5, <2>6, JoinedElsewhere DEF MaySession
  <2> QED BY <1>1, <2>4, <2>7
<1> QED BY <1>3, <1>4

LEMMA SessionStarts ==
  ASSUME NEW u, NEW s, MaySession(u, s), NEW g \in BOOLEAN, NEW type \in {"x", "mir"}, NEW fails,
         NEW v, v = StartSession(u, s, g, type, fails)
  PROVE  /\ Good(v) /\ s \in Present(v) /\ SameCompositor(v.usc, u.usc) /\ v.seat.phase = "started"
         /\ (v.seat.early <=> Early(u)) /\ v.seat.stopped = u.seat.stopped
<1> DEFINE b == seat_unity_create_display_server(Begin(u, s, g), s, type)
<1>1. v = IF type = "x" THEN x_server_xmir_start(b, s, fails) ELSE b
  BY DEF StartSession, Begin
<1>2. u.seat.phase = "started" /\ s \in Sessions
  BY DEF MaySession
<1>3. CASE type = "x"
  <2>1. /\ Good(b) /\ s \in Present(b) /\ b.xmir[s].state = "new" /\ ~b.xmir[s].waiting
        /\ b.usc = u.usc /\ SeatMore(b.seat, u.seat) /\ (b.seat.early <=> Early(u))
    BY <1>3, MadeOnX
  <2> HIDE DEF b
  <2>2. v = x_server_xmir_start(b, s, fails)
    BY <1>1, <1>3
  <2>3. b.seat.phase = "started" /\ b.seat.stopped = u.seat.stopped
    BY <1>2, <2>1 DEF SeatMore
  <2>4. /\ Good(v) /\ Goes(v, b) /\ Present(v) = Present(b) /\ v.seat.stopped = b.seat.stopped
    <3>1. s \in XServers /\ s # XDMCP /\ Present(b) # {}
      BY <1>2, <2>1, Apart
    <3> QED BY <1>2, <2>1, <2>2, <2>3, <3>1, XmirStarts
  <2> QED BY <2>1, <2>3, <2>4 DEF Goes, SeatGoes
<1>4. CASE type = "mir"
  <2>1. /\ Good(b) /\ s \in Present(b) /\ b.usc = u.usc /\ SeatMore(b.seat, u.seat) /\ (b.seat.early <=> Early(u))
    BY <1>4, MadeOnMir
  <2> HIDE DEF b
  <2>2. v = b
    BY <1>1, <1>4
  <2> QED BY <1>2, <2>1, <2>2 DEF SeatMore, SameCompositor
<1> QED BY <1>3, <1>4

(* The greeter of seat_real_start.                                         *)
LEMMA RealStart ==
  ASSUME NEW u, Good(u), u.seat.phase = "started", Unused(u) # {}, u.usc.is_ready, u.usc.said # <<>>,
         ~u.seat.stopped \/ ExcusedIn(u), NEW type \in {"x", "mir"}, NEW fails,
         NEW v, v = seat_real_start(u, type, fails)
  PROVE  Good(v) /\ v.seat.phase = "started" /\ (v.seat.early <=> u.seat.early)
<1> DEFINE s == NextSession(u)
           a == StartSession(u, s, TRUE, type, fails)
<1>1. MaySession(u, s)
  BY NextIs DEF MaySession, Unused
<1>2. v = IF type = "x" /\ ~Starts(a, s, fails)
          THEN display_server_stop([a EXCEPT !.session[s].state = "stopping"], {s})
          ELSE a
  BY DEF seat_real_start
<1> HIDE DEF s
<1>3. /\ Good(a) /\ s \in Present(a) /\ a.seat.phase = "started" /\ (a.seat.early <=> u.seat.early)
  <2>1. TRUE \in BOOLEAN
    OBVIOUS
  <2>2. Early(u) <=> u.seat.early
    BY DEF Early
  <2>3. /\ Good(a) /\ s \in Present(a) /\ a.seat.phase = "started" /\ (a.seat.early <=> Early(u))
    BY <1>1, <2>1, SessionStarts, ZenonT(60)
  <2> QED BY <2>2, <2>3
<1> HIDE DEF a
<1>4. CASE ~(type = "x" /\ ~Starts(a, s, fails))
  BY <1>2, <1>3, <1>4
<1>5. CASE type = "x" /\ ~Starts(a, s, fails)
  <2> DEFINE b == StopIn(a, {s})
  <2>0. s \in Sessions /\ a \in StateType /\ a.session[s] \in SessionType
    BY <1>1, <1>3, Fields DEF MaySession, Good, Core
  <2>1. b = [a EXCEPT !.session[s].state = "stopping"]
    BY <2>0 DEF StopIn, StateType
  <2>2. v = display_server_stop(b, {s})
    BY <1>2, <1>5, <2>1
  <2>3. Quiet(b, a) /\ b.seat = a.seat
    <3>1. {s} \subseteq Present(a)
      BY <1>3
    <3> QED BY <2>0, <3>1, SessionsStop
  <2> HIDE DEF b
  <2>4. Quiet(v, b) /\ v.seat = b.seat
    BY <2>2, <2>3, ServersStop DEF Quiet
  <2>5. Quiet(v, a)
    BY <2>0, <2>3, <2>4, QuietTwice
  <2>6. Core(v) /\ Says(v) /\ Ending(v) /\ Clean(v)
    BY <1>3, <2>3, <2>4, <2>5, QuietKeeps, QuietSays, QuietEnding, QuietClean DEF Good
  <2> QED BY <1>3, <2>3, <2>4, <2>6 DEF Good
<1> QED BY <1>4, <1>5

(***************************************************************************)
(* READY and STOPPED of the compositor                                     *)
(***************************************************************************)

LEMMA SeatReady ==
  ASSUME NEW u, Good(u), u.seat.phase = "started", Unused(u) # {}, u.usc.is_ready, u.usc.said # <<>>,
         ~u.seat.stopped, u.seat.early \/ u.seat.compositor, u.seat.stopping => u.seat.late,
         NEW type \in {"x", "mir"}, NEW fails, NEW v, v = compositor_ready_cb(u, type, fails)
  PROVE  Good(v) /\ v.seat.phase = "started" /\ (v.seat.early <=> u.seat.early)
<1> DEFINE a == MakeXDMCP(u)
           b == x_server_xmir_start(a, XDMCP, fails)
           c == IF Starts(b, XDMCP, fails) THEN b ELSE seat_stop(b)
           d == IF u.seat.xdmcp_manager THEN c ELSE u
<1>1. v = seat_real_start(d, type, fails)
  BY DEF compositor_ready_cb, MakeXDMCP
<1>2. CASE ~u.seat.xdmcp_manager
  <2>1. d = u
    BY <1>2
  <2> HIDE DEF d
  <2> QED BY <1>1, <2>1, RealStart
<1>3. CASE u.seat.xdmcp_manager
  <2>1. /\ Good(a) /\ Goes(a, u) /\ a.seat.stopping = u.seat.stopping /\ a.seat.stopped = u.seat.stopped
        /\ a.xmir[XDMCP].state = "new" /\ ~a.xmir[XDMCP].waiting
    BY XDMCPMade
  <2> HIDE DEF a
  <2>2. a.seat.phase = "started" /\ a.seat.compositor = u.seat.compositor /\ a.seat.early = u.seat.early
    BY <2>1 DEF Goes, SeatGoes
  <2>3. ~a.seat.stopping \/ ExcusedIn(a)
    BY <1>3, <2>1 DEF Goes, SeatGoes, ExcusedIn
  <2>4. /\ Good(b) /\ Goes(b, a) /\ (a.seat.compositor => b.seat.stopped = a.seat.stopped)
    BY <2>1, <2>2, <2>3, Apart, XmirStarts
  <2> HIDE DEF b
  <2>5. b.seat.phase = "started" /\ b.seat.compositor = u.seat.compositor /\ b.seat.early = u.seat.early
    BY <2>2, <2>4 DEF Goes, SeatGoes
  <2>6. Good(c) /\ Goes(c, b) /\ (b.seat.compositor => c.seat.stopped = b.seat.stopped)
    <3>1. CASE Starts(b, XDMCP, fails)
      BY <2>4, <3>1 DEF Goes, SameCompositor, SeatGoes
    <3>2. CASE ~Starts(b, XDMCP, fails)
      <4>1. c = seat_stop(b)
        BY <3>2
      <4> HIDE DEF c
      <4> QED BY <2>4, <2>5, <4>1, SeatStop, QuietGoes DEF Good
    <3> QED BY <3>1, <3>2
  <2> HIDE DEF c
  <2>7. Goes(c, u)
    BY <2>1, <2>4, <2>6, GoesTwice
  <2>8. /\ c.seat.phase = "started" /\ c.usc.is_ready /\ c.usc.said # <<>> /\ (c.seat.early <=> u.seat.early)
        /\ c.seat.compositor = u.seat.compositor /\ Unused(c) # {}
    BY <2>7 DEF Goes, SameCompositor, SeatGoes, Unused
  <2>9. ~c.seat.stopped \/ ExcusedIn(c)
    BY <2>1, <2>2, <2>4, <2>5, <2>6, <2>8 DEF ExcusedIn
  <2>10. v = seat_real_start(c, type, fails)
    BY <1>1, <1>3
  <2> QED BY <2>6, <2>8, <2>9, <2>10, RealStart
<1> QED BY <1>2, <1>3

(* The compositor is changed, and the seat with it.                        *)
SetUsc(u, k, c) == [u EXCEPT !.usc = k, !.seat = c]

LEMMA UscSet ==
  ASSUME NEW u \in StateType, NEW k \in CompositorType, NEW c \in SeatType, NEW v, v = SetUsc(u, k, c)
  PROVE  /\ v \in StateType /\ v.xmir = u.xmir /\ v.session = u.session /\ v.shown = u.shown
         /\ v.usc = k /\ v.seat = c
BY DEF StateType, SetUsc

(* What the invariant says besides of how far the compositor is.           *)
LEMMA UscKeeps ==
  ASSUME NEW u, Core(u), NEW v, v \in StateType, v.xmir = u.xmir, v.session = u.session, v.shown = u.shown,
         v.usc.next_session_id = u.usc.next_session_id, v.usc.next_greeter_id = u.usc.next_greeter_id,
         v.seat.display_servers = u.seat.display_servers, v.seat.xdmcp_x_server = u.seat.xdmcp_x_server,
         v.seat.next_x_server_id = u.seat.next_x_server_id
  PROVE  Servers(v) /\ Hosted(v) /\ Named(v)
<1>1. Servers(v)
  BY DEF Core, Servers
<1>2. Hosted(v)
  BY DEF Core, Hosted
<1>3. Named(v)
  <2>1. Given(v.usc) = Given(u.usc)
    BY DEF Given
  <2>2. Named(u)
    BY DEF Core
  <2> QED BY <2>1, <2>2 DEF Named
<1> QED BY <1>1, <1>2, <1>3

LEMMA UscActive ==
  ASSUME NEW u, Active(u), NEW v, v.xmir = u.xmir, v.session = u.session, v.shown = u.shown,
         v.seat.active_session = u.seat.active_session,
         v.seat.compositor => u.seat.compositor
  PROVE  Active(v)
<1>1. \A s : get_mir_id(v, s) = get_mir_id(u, s)
  BY DEF get_mir_id
<1> QED BY <1>1 DEF Active

(* Changes of the compositor that nothing else depends on.                 *)
SameState(k, b) ==
  /\ k.process = b.process /\ k.is_ready = b.is_ready /\ k.announced = b.announced /\ k.said = b.said
  /\ k.next_session_id = b.next_session_id /\ k.next_greeter_id = b.next_greeter_id
  /\ k.stopping = b.stopping /\ (k.timer => b.timer)

LEMMA UscSame ==
  ASSUME NEW u, Good(u), NEW k \in CompositorType, SameState(k, u.usc), NEW v, v = SetUsc(u, k, u.seat)
  PROVE  Good(v)
<1>1. u \in StateType /\ u.seat \in SeatType
  BY Fields DEF Good, Core
<1>2. /\ v \in StateType /\ v.xmir = u.xmir /\ v.session = u.session /\ v.shown = u.shown
      /\ v.usc = k /\ v.seat = u.seat
  BY <1>1, UscSet
<1>3. Lives(v)
  BY <1>2 DEF Good, Core, Lives, SameState
<1>4. Servers(v) /\ Hosted(v) /\ Named(v) /\ Active(v)
  BY <1>2, UscKeeps, UscActive DEF Good, Core, SameState
<1>5. Says(v)
  BY <1>2 DEF Good, Says, SameState
<1>6. Clean(v) /\ Ending(v)
  BY <1>2 DEF Good, Clean, Ending, ExcusedIn, Present
<1> QED BY <1>2, <1>3, <1>4, <1>5, <1>6 DEF Good, Core

(* The state in which READY is passed on.                                  *)
ReadyUsc(b) ==
  [b EXCEPT !.unread = FALSE, !.is_ready = TRUE, !.timer = @ /\ ~b.timeout_source, !.timeout_source = FALSE]
Announced(b) == [b EXCEPT !.announced = TRUE, !.said = Append(@, "READY")]

LEMMA AnnouncedIs ==
  ASSUME NEW b \in CompositorType, NEW k, k = Announced(ReadyUsc(b))
  PROVE  /\ k \in CompositorType /\ k.is_ready /\ k.said = Append(b.said, "READY") /\ k.said # <<>>
         /\ k.process = b.process /\ k.stopping = b.stopping /\ (k.timer => b.timer)
         /\ k.next_session_id = b.next_session_id /\ k.next_greeter_id = b.next_greeter_id
<1> DEFINE a == ReadyUsc(b)
<1>1. /\ a \in CompositorType /\ a.is_ready /\ a.said = b.said
      /\ a.process = b.process /\ a.stopping = b.stopping /\ (a.timer => b.timer)
      /\ a.next_session_id = b.next_session_id /\ a.next_greeter_id = b.next_greeter_id
  <2> DEFINE t == b.timer /\ ~b.timeout_source
  <2>1. t \in BOOLEAN /\ (t => b.timer)
    OBVIOUS
  <2>2. a = [b EXCEPT !.unread = FALSE, !.is_ready = TRUE, !.timer = t, !.timeout_source = FALSE]
    BY Zenon DEF ReadyUsc
  <2> HIDE DEF t, a
  <2> QED BY <2>1, <2>2 DEF CompositorType
<1>2. k = Announced(a)
  OBVIOUS
<1> HIDE DEF a
<1>3. a.said \in Seq({"READY", "STOPPED"})
  BY <1>1 DEF CompositorType
<1>4. Append(a.said, "READY") \in Seq({"READY", "STOPPED"}) /\ Append(a.said, "READY") # <<>>
  BY <1>3
<1>5. k = [a EXCEPT !.announced = TRUE, !.said = Append(a.said, "READY")]
  BY <1>2, Zenon DEF Announced
<1>6. k \in CompositorType /\ k.said = Append(a.said, "READY")
  <2> DEFINE q == Append(a.said, "READY")
  <2>1. q \in Seq({"READY", "STOPPED"}) /\ k = [a EXCEPT !.announced = TRUE, !.said = q]
    BY <1>4, <1>5
  <2> HIDE DEF q
  <2>2. a \in CompositorType
    BY <1>1
  <2>3. k \in CompositorType
    BY <2>1, <2>2 DEF CompositorType
  <2>4. k.said = q
    BY <2>1, <2>2 DEF CompositorType
  <2> QED BY <2>3, <2>4 DEF q
<1>7. /\ k.is_ready /\ k.process = a.process /\ k.stopping = a.stopping /\ (k.timer => a.timer)
      /\ k.next_session_id = a.next_session_id /\ k.next_greeter_id = a.next_greeter_id
  BY <1>1, <1>5 DEF CompositorType
<1> QED BY <1>1, <1>4, <1>6, <1>7

LateSeat(b) == [b EXCEPT !.late = b.stopping]

LEMMA LateSeatIs ==
  ASSUME NEW b \in SeatType, NEW c, c = LateSeat(b)
  PROVE  /\ c \in SeatType /\ (c.late <=> b.stopping)
         /\ c.phase = b.phase /\ c.xdmcp_manager = b.xdmcp_manager /\ c.compositor = b.compositor
         /\ c.xdmcp_x_server = b.xdmcp_x_server /\ c.stopping = b.stopping /\ c.stopped = b.stopped
         /\ c.display_servers = b.display_servers /\ c.active_session = b.active_session
         /\ c.next_x_server_id = b.next_x_server_id /\ c.early = b.early
<1> DEFINE t == b.stopping
<1>1. t \in BOOLEAN
  BY DEF SeatType
<1>2. c = [b EXCEPT !.late = t]
  BY Zenon DEF LateSeat
<1> HIDE DEF t
<1>3. c \in SeatType /\ (c.late <=> t)
  BY <1>1, <1>2 DEF SeatType
<1>4. /\ c.phase = b.phase /\ c.xdmcp_manager = b.xdmcp_manager /\ c.compositor = b.compositor
      /\ c.xdmcp_x_server = b.xdmcp_x_server /\ c.stopping = b.stopping /\ c.stopped = b.stopped
      /\ c.display_servers = b.display_servers /\ c.active_session = b.active_session
      /\ c.next_x_server_id = b.next_x_server_id /\ c.early = b.early
  BY <1>2 DEF SeatType
<1> QED BY <1>3, <1>4 DEF t

LEMMA ReadyGood ==
  ASSUME NEW u, Good(u), u.seat.phase = "started", ~u.seat.stopped, Alive(u), ~u.usc.is_ready,
         NEW v, v = SetUsc(u, Announced(ReadyUsc(u.usc)), LateSeat(u.seat))
  PROVE  /\ Good(v) /\ v.seat.phase = "started" /\ v.usc.is_ready /\ v.usc.said # <<>> /\ ~v.seat.stopped
         /\ v.seat.early \/ v.seat.compositor
         /\ v.seat.stopping => v.seat.late
         /\ v.xmir = u.xmir /\ v.session = u.session /\ v.seat.early = u.seat.early
<1>0. u \in StateType /\ u.seat \in SeatType /\ u.usc \in CompositorType
  BY Fields DEF Good, Core
<1> DEFINE k == Announced(ReadyUsc(u.usc))
           c == LateSeat(u.seat)
<1>1. /\ k \in CompositorType /\ k.is_ready /\ k.said = Append(u.usc.said, "READY") /\ k.said # <<>>
      /\ k.process = u.usc.process /\ k.stopping = u.usc.stopping /\ (k.timer => u.usc.timer)
      /\ k.next_session_id = u.usc.next_session_id /\ k.next_greeter_id = u.usc.next_greeter_id
  BY <1>0, AnnouncedIs
<1>2. /\ c \in SeatType /\ (c.late <=> u.seat.stopping)
      /\ c.phase = u.seat.phase /\ c.xdmcp_manager = u.seat.xdmcp_manager /\ c.compositor = u.seat.compositor
      /\ c.xdmcp_x_server = u.seat.xdmcp_x_server /\ c.stopping = u.seat.stopping /\ c.stopped = u.seat.stopped
      /\ c.display_servers = u.seat.display_servers /\ c.active_session = u.seat.active_session
      /\ c.next_x_server_id = u.seat.next_x_server_id /\ c.early = u.seat.early
  BY <1>0, LateSeatIs
<1> HIDE DEF k, c
<1>3. /\ v \in StateType /\ v.xmir = u.xmir /\ v.session = u.session /\ v.shown = u.shown
      /\ v.usc = k /\ v.seat = c
  BY <1>0, <1>1, <1>2, UscSet, SMTT(60) DEF k, c
<1>4. ASSUME ~u.seat.early
      PROVE  u.seat.compositor /\ u.usc.said = <<>> /\ u.usc.process # "gone" /\ \A i \in XServers : u.xmir[i].state = "none"
  <2>1. \A i \in XServers : u.xmir[i].state = "none" /\ ~u.xmir[i].parent
    BY <1>4 DEF Good, Core, Says, Servers
  <2>2. u.seat.compositor
    BY <2>1 DEF Alive
  <2>3. u.usc.process # "gone"
    BY <2>2 DEF Good, Core, Lives
  <2> QED BY <1>4, <2>1, <2>2, <2>3 DEF Good, Says
<1>5. Lives(v)
  BY <1>1, <1>2, <1>3 DEF Good, Core, Lives
<1>6. Servers(v) /\ Hosted(v) /\ Named(v)
  BY <1>1, <1>2, <1>3, UscKeeps DEF Good
<1>7. Active(v)
  BY <1>2, <1>3, UscActive DEF Good, Core
<1>8. Says(v)
  <2>1. u.usc.said = <<>> => k.said = <<"READY">>
    BY <1>1
  <2>2. ~v.seat.early => v.usc.said = <<"READY">> /\ v.usc.is_ready /\ v.usc.process # "gone"
    BY <1>1, <1>2, <1>3, <1>4, <2>1
  <2>3. <<"READY">> # <<"STOPPED">> /\ <<"READY">> # <<"READY", "STOPPED">>
    OBVIOUS
  <2> QED BY <2>2, <2>3 DEF Says
<1>9. Clean(v)
  <2>1. ~ExcusedIn(v) => ~u.seat.early
    BY <1>2, <1>3 DEF ExcusedIn
  <2>2. XDMCP \in XServers
    BY Apart
  <2> QED BY <1>2, <1>3, <1>4, <2>1, <2>2 DEF Clean
<1>10. Ending(v)
  BY <1>2, <1>3 DEF Good, Ending
<1> QED BY <1>1, <1>2, <1>3, <1>4, <1>5, <1>6, <1>7, <1>8, <1>9, <1>10 DEF Good, Core

LEMMA ReadCb ==
  ASSUME NEW u, Good(u), u.seat.phase = "started", ~u.seat.stopped, Alive(u), Unused(u) # {},
         NEW type \in {"x", "mir"}, NEW fails, NEW v, v = read_cb(u, type, fails)
  PROVE  Good(v)
<1>0. u \in StateType /\ u.seat \in SeatType /\ u.usc \in CompositorType
  BY Fields DEF Good, Core
<1>1. CASE u.usc.is_ready
  <2> DEFINE k == [u.usc EXCEPT !.unread = FALSE]
  <2>1. v = SetUsc(u, k, u.seat)
    <3>1. v = [u EXCEPT !.usc.unread = FALSE]
      BY <1>1 DEF read_cb
    <3> QED BY <1>0, <3>1 DEF SetUsc, StateType
  <2>2. k \in CompositorType /\ SameState(k, u.usc)
    BY <1>0 DEF CompositorType, SameState
  <2> HIDE DEF k
  <2> QED BY <2>1, <2>2, UscSame
<1>2. CASE ~u.usc.is_ready
  <2> DEFINE a == SetUsc(u, ReadyUsc(u.usc), u.seat)
             b == SetUsc(u, Announced(ReadyUsc(u.usc)), LateSeat(u.seat))
             w == compositor_ready_cb(b, type, fails)
  <2>1. v = display_server_real_start(a, type, fails)
    <3>1. a = [[u EXCEPT !.usc.unread = FALSE] EXCEPT
                 !.usc.is_ready = TRUE, !.usc.timer = @ /\ ~u.usc.timeout_source, !.usc.timeout_source = FALSE]
      BY <1>0 DEF SetUsc, ReadyUsc, StateType, CompositorType
    <3> HIDE DEF a
    <3> QED BY <1>2, <3>1, Zenon DEF read_cb
  <2>2. v = ReadyAll(a, fails, w)
    <3>1. b = [a EXCEPT !.usc.announced = TRUE, !.usc.said = Append(@, "READY"), !.seat.late = a.seat.stopping]
      BY <1>0 DEF SetUsc, Announced, LateSeat, StateType
    <3> HIDE DEF a, b
    <3> QED BY <2>1, <3>1, Zenon DEF display_server_real_start, ReadyAll, ReadyIn
  <2>3. a.xmir = u.xmir
    BY <1>0 DEF SetUsc, StateType
  <2>4. /\ Good(b) /\ b.seat.phase = "started" /\ b.usc.is_ready /\ b.usc.said # <<>> /\ ~b.seat.stopped
        /\ b.seat.early \/ b.seat.compositor
        /\ b.seat.stopping => b.seat.late
        /\ b.xmir = u.xmir /\ b.session = u.session /\ b.seat.early = u.seat.early
    BY <1>2, ReadyGood
  <2> HIDE DEF a, b
  <2>5. Good(w) /\ w.seat.phase = "started" /\ (w.seat.early <=> b.seat.early)
    <3>1. Unused(b) # {}
      BY <2>4 DEF Unused
    <3> QED BY <2>4, <3>1, SeatReady
  <2> HIDE DEF w
  <2>6. CASE u.seat.early
    <3> DEFINE A == {c \in StateType : Good(c) /\ c.seat.phase = "started" /\ c.seat.early}
    <3>1. w \in A
      BY <2>4, <2>5, <2>6 DEF Good, Core
    <3>2. ASSUME NEW c \in A, NEW i \in XServers PROVE ReadyIn(a, fails, c, i) \in A
      <4>1. CASE a.xmir[i].state = "none"
        BY <4>1 DEF ReadyIn
      <4>2. CASE a.xmir[i].state # "none"
        <5> DEFINE d == xmir_compositor_ready_cb(c, i, fails)
        <5>1. ReadyIn(a, fails, c, i) = d
          BY <4>2 DEF ReadyIn
        <5>2. Good(d) /\ Goes(d, c)
          BY XmirReady DEF ExcusedIn
        <5> HIDE DEF d
        <5>3. d \in A
          BY <5>2 DEF Goes, SeatGoes, Good, Core
        <5> QED BY <5>1, <5>3
      <4> QED BY <4>1, <4>2
    <3> HIDE DEF A
    <3>3. v \in A
      BY <2>2, <3>1, <3>2, FoldIn
    <3> QED BY <3>3 DEF A
  <2>7. CASE ~u.seat.early
    <3>1. \A i \in XServers : a.xmir[i].state = "none"
      BY <1>2, <2>3, <2>7 DEF Good, Says
    <3>2. \A c \in {w}, i \in XServers : ReadyIn(a, fails, c, i) \in {w}
      BY <3>1, Zenon DEF ReadyIn
    <3>3. v \in {w}
      BY <2>2, <3>2, FoldIn
    <3> QED BY <2>5, <3>3
  <2> QED BY <2>6, <2>7
<1> QED BY <1>1, <1>2

LEMMA AppendOne ==
  ASSUME NEW S, NEW x \in S, NEW y \in S
  PROVE  Append(<<x>>, y) = <<x, y>>
<1> DEFINE p == <<x>>
           q == <<x, y>>
           r == Append(p, y)
<1>1. p \in Seq(S) /\ Len(p) = 1 /\ p[1] = x
  OBVIOUS
<1>2. q \in Seq(S) /\ Len(q) = 2 /\ q[1] = x /\ q[2] = y
  OBVIOUS
<1> HIDE DEF p, q
<1>3. r \in Seq(S) /\ Len(r) = 2 /\ r[2] = y /\ r[1] = x
  BY <1>1, SMTT(60)
<1> HIDE DEF r
<1>4. \A i \in 1..Len(q) : r[i] = q[i]
  BY <1>2, <1>3
<1>5. r = q
  BY <1>2, <1>3, <1>4, SeqEqual
<1> QED BY <1>5, Zenon DEF p, q, r

GoneUsc(b) ==
  [b EXCEPT !.process = "gone", !.timer = @ /\ ~b.timeout_source, !.timeout_source = FALSE, !.have_vt_ref = FALSE]
SaysStopped(b) == [b EXCEPT !.said = Append(@, "STOPPED")]
WithoutCompositor(c) == [c EXCEPT !.compositor = FALSE]

LEMMA GoneIs ==
  ASSUME NEW b \in CompositorType, NEW k, k = SaysStopped(GoneUsc(b))
  PROVE  /\ k \in CompositorType /\ k.process = "gone" /\ k.said = Append(b.said, "STOPPED")
         /\ k.is_ready = b.is_ready /\ k.stopping = b.stopping
         /\ k.next_session_id = b.next_session_id /\ k.next_greeter_id = b.next_greeter_id
<1> DEFINE a == GoneUsc(b)
<1>1. /\ a \in CompositorType /\ a.process = "gone" /\ a.said = b.said
      /\ a.is_ready = b.is_ready /\ a.stopping = b.stopping
      /\ a.next_session_id = b.next_session_id /\ a.next_greeter_id = b.next_greeter_id
  <2> DEFINE t == b.timer /\ ~b.timeout_source
  <2>1. t \in BOOLEAN
    OBVIOUS
  <2>2. a = [b EXCEPT !.process = "gone", !.timer = t, !.timeout_source = FALSE, !.have_vt_ref = FALSE]
    BY Zenon DEF GoneUsc
  <2> HIDE DEF t, a
  <2> QED BY <2>1, <2>2 DEF CompositorType
<1>2. k = SaysStopped(a)
  OBVIOUS
<1> HIDE DEF a
<1>3. a.said \in Seq({"READY", "STOPPED"})
  BY <1>1 DEF CompositorType
<1>4. Append(a.said, "STOPPED") \in Seq({"READY", "STOPPED"})
  BY <1>3
<1>5. k = [a EXCEPT !.said = Append(a.said, "STOPPED")]
  BY <1>2, Zenon DEF SaysStopped
<1>6. k \in CompositorType /\ k.said = Append(a.said, "STOPPED")
  BY <1>1, <1>4, <1>5 DEF CompositorType
<1>7. /\ k.process = "gone" /\ k.is_ready = a.is_ready /\ k.stopping = a.stopping
      /\ k.next_session_id = a.next_session_id /\ k.next_greeter_id = a.next_greeter_id
  BY <1>1, <1>5 DEF CompositorType
<1> QED BY <1>1, <1>6, <1>7

(* The seat has forgotten a compositor whose process is gone.              *)
LEMMA GoneKeeps ==
  ASSUME NEW u, Good(u), u.seat.phase = "started", u.usc.process \in {"running", "told"},
         NEW v, v = SetUsc(u, SaysStopped(GoneUsc(u.usc)), WithoutCompositor(u.seat))
  PROVE  /\ Core(v) /\ Says(v) /\ Clean(v) /\ v.seat.phase = "started"
         /\ v.seat.stopping = u.seat.stopping
<1>0. u \in StateType /\ u.seat \in SeatType /\ u.usc \in CompositorType
  BY Fields DEF Good, Core
<1> DEFINE k == SaysStopped(GoneUsc(u.usc))
           c == WithoutCompositor(u.seat)
<1>1. /\ k \in CompositorType /\ k.process = "gone" /\ k.said = Append(u.usc.said, "STOPPED")
      /\ k.is_ready = u.usc.is_ready /\ k.stopping = u.usc.stopping
      /\ k.next_session_id = u.usc.next_session_id /\ k.next_greeter_id = u.usc.next_greeter_id
  BY <1>0, GoneIs
<1>2. /\ c \in SeatType /\ ~c.compositor
      /\ c.phase = u.seat.phase /\ c.xdmcp_manager = u.seat.xdmcp_manager
      /\ c.xdmcp_x_server = u.seat.xdmcp_x_server /\ c.stopping = u.seat.stopping /\ c.stopped = u.seat.stopped
      /\ c.display_servers = u.seat.display_servers /\ c.active_session = u.seat.active_session
      /\ c.next_x_server_id = u.seat.next_x_server_id /\ c.early = u.seat.early /\ c.late = u.seat.late
  BY <1>0 DEF WithoutCompositor, SeatType
<1> HIDE DEF k, c
<1>3. /\ v \in StateType /\ v.xmir = u.xmir /\ v.session = u.session /\ v.shown = u.shown
      /\ v.usc = k /\ v.seat = c
  BY <1>0, <1>1, <1>2, UscSet, SMTT(60) DEF k, c
<1>4. Lives(v)
  BY <1>1, <1>2, <1>3 DEF Good, Core, Lives
<1>5. Servers(v) /\ Hosted(v) /\ Named(v)
  BY <1>1, <1>2, <1>3, UscKeeps DEF Good
<1>6. Active(v)
  BY <1>2, <1>3, UscActive DEF Good, Core
<1>7. Says(v)
  <2>1. /\ u.usc.said = <<>> => k.said = <<"STOPPED">>
        /\ u.usc.said = <<"READY">> => k.said = <<"READY", "STOPPED">>
    <3>1. Append(<<>>, "STOPPED") = <<"STOPPED">>
      OBVIOUS
    <3>2. Append(<<"READY">>, "STOPPED") = <<"READY", "STOPPED">>
      <4>1. "READY" \in {"READY", "STOPPED"} /\ "STOPPED" \in {"READY", "STOPPED"}
        OBVIOUS
      <4> QED BY <4>1, AppendOne
    <3> QED BY <1>1, <3>1, <3>2, Zenon
  <2>2. ASSUME ~u.seat.early
        PROVE  \/ u.usc.said = <<>> /\ ~u.usc.is_ready
               \/ u.usc.said = <<"READY">> /\ u.usc.is_ready
    <3>1. <<"READY">> # <<>> /\ <<"READY", "STOPPED">> # <<>>
      OBVIOUS
    <3> QED BY <2>2, <3>1 DEF Good, Says
  <2>3. <<"STOPPED">> # <<"READY">> /\ <<"STOPPED">> # <<"READY", "STOPPED">>
    OBVIOUS
  <2>4. /\ ~u.seat.early /\ ~u.usc.is_ready => /\ \A s \in Sessions : u.session[s].state = "none"
                                               /\ \A i \in XServers : u.xmir[i].state = "none"
    BY DEF Good, Says
  <2>5. /\ v.seat.early = u.seat.early /\ v.usc.is_ready = u.usc.is_ready /\ v.usc.process = "gone"
        /\ v.usc.said = k.said /\ v.session = u.session /\ v.xmir = u.xmir
    BY <1>1, <1>2, <1>3
  <2>6. ASSUME ~u.seat.early
        PROVE  /\ v.usc.said \in {<<"STOPPED">>, <<"READY", "STOPPED">>}
               /\ v.usc.is_ready <=> v.usc.said = <<"READY", "STOPPED">>
    <3>1. \/ v.usc.said = <<"STOPPED">> /\ ~v.usc.is_ready
          \/ v.usc.said = <<"READY", "STOPPED">> /\ v.usc.is_ready
      BY <2>1, <2>2, <2>5, <2>6
    <3> QED BY <2>3, <3>1
  <2>7. ASSUME ~u.seat.early
        PROVE  v.usc.said # <<"READY">>
    <3>1. <<"READY", "STOPPED">> # <<"READY">>
      <4>1. Len(<<"READY", "STOPPED">>) = 2 /\ Len(<<"READY">>) = 1
        OBVIOUS
      <4> QED BY <4>1
    <3> QED BY <2>3, <2>6, <2>7, <3>1
  <2> QED BY <2>4, <2>5, <2>6, <2>7, Zenon DEF Says
<1>8. Clean(v)
  <2>1. ExcusedIn(v) <=> ExcusedIn(u)
    BY <1>2, <1>3 DEF ExcusedIn
  <2>2. Present(v) = Present(u)
    BY <1>3 DEF Present
  <2> QED BY <1>2, <1>3, <2>1, <2>2 DEF Good, Clean
<1> QED BY <1>2, <1>3, <1>4, <1>5, <1>6, <1>7, <1>8 DEF Core

(* The compositor is no longer one of the servers of the seat.             *)
LEMMA CompositorUnlisted ==
  ASSUME NEW u, Good(u), u.seat.phase = "started", u.seat.stopping,
         NEW v, v = display_server_stopped_cb(u, compositor)
  PROVE  Good(v) /\ v.seat.phase = "started" /\ v.seat.stopping
<1>0. u \in StateType /\ u.seat \in SeatType /\ u.usc \in CompositorType
  BY Fields DEF Good, Core
<1> DEFINE c == [u.seat EXCEPT !.display_servers = @ \ {compositor}]
           a == SetUsc(u, u.usc, c)
<1>1. /\ c \in SeatType /\ c.compositor = u.seat.compositor
      /\ c.phase = u.seat.phase /\ c.xdmcp_manager = u.seat.xdmcp_manager
      /\ c.xdmcp_x_server = u.seat.xdmcp_x_server /\ c.stopping = u.seat.stopping /\ c.stopped = u.seat.stopped
      /\ c.display_servers = u.seat.display_servers \ {compositor} /\ c.active_session = u.seat.active_session
      /\ c.next_x_server_id = u.seat.next_x_server_id /\ c.early = u.seat.early /\ c.late = u.seat.late
  BY <1>0 DEF SeatType
<1>2. a = [u EXCEPT !.seat.display_servers = @ \ {compositor}]
  BY <1>0 DEF SetUsc, StateType
<1> HIDE DEF c
<1>3. /\ a \in StateType /\ a.xmir = u.xmir /\ a.session = u.session /\ a.shown = u.shown
      /\ a.usc = u.usc /\ a.seat = c
  BY <1>0, <1>1, UscSet
<1> HIDE DEF a
<1>4. v = seat_check_stopped(a)
  <2>1. a.seat.stopping
    BY <1>1, <1>3
  <2> QED BY <1>2, <2>1, Zenon DEF display_server_stopped_cb
<1>5. Servers(a)
  BY <1>1, <1>3, Apart DEF Good, Core, Servers
<1>6. Lives(a) /\ Hosted(a)
  BY <1>1, <1>3 DEF Good, Core, Lives, Hosted
<1>7. Named(a)
  BY <1>1, <1>3 DEF Good, Core, Named
<1>8. Active(a)
  BY <1>1, <1>3, UscActive DEF Good, Core
<1>9. Says(a)
  BY <1>1, <1>3 DEF Good, Says
<1>10. Clean(a)
  <2>1. ExcusedIn(a) <=> ExcusedIn(u)
    BY <1>1, <1>3 DEF ExcusedIn
  <2>2. Present(a) = Present(u)
    BY <1>3 DEF Present
  <2> QED BY <1>1, <1>3, <2>1, <2>2 DEF Good, Clean
<1>11. /\ Quiet(v, a) /\ v.seat.stopping = a.seat.stopping /\ Clean(v)
  BY <1>3, <1>4, <1>10, SeatChecks
<1>12. v.seat.phase = "started" /\ v.seat.stopping
  BY <1>1, <1>3, <1>11 DEF Quiet, SameSeat
<1>13. Core(v) /\ Says(v)
  BY <1>1, <1>3, <1>5, <1>6, <1>7, <1>8, <1>9, <1>11, <1>12, QuietKeeps, QuietSays DEF Core
<1> QED BY <1>11, <1>12, <1>13 DEF Good, Ending

LEMMA StoppedCb ==
  ASSUME NEW u, Good(u), u.seat.phase = "started", u.usc.process \in {"running", "told"},
         NEW v, v = stopped_cb(u)
  PROVE  Good(v)
<1>0. u \in StateType /\ u.seat \in SeatType /\ u.usc \in CompositorType
  BY Fields DEF Good, Core
<1> DEFINE h == SetUsc(u, GoneUsc(u.usc), u.seat)
           a == SetUsc(u, SaysStopped(GoneUsc(u.usc)), WithoutCompositor(u.seat))
           y == [h EXCEPT !.usc.said = Append(@, "STOPPED")]
           b == IF a.seat.stopping THEN check_stopped(a) ELSE seat_stop(a)
           d == IF compositor \in b.seat.display_servers THEN display_server_stopped_cb(b, compositor) ELSE b
<1>1. v = display_server_real_stop(h)
  <2>1. h = [u EXCEPT !.usc.process = "gone", !.usc.timer = @ /\ ~u.usc.timeout_source,
                      !.usc.timeout_source = FALSE, !.usc.have_vt_ref = FALSE]
    BY <1>0 DEF SetUsc, GoneUsc, StateType, CompositorType
  <2> HIDE DEF h
  <2> QED BY <2>1, Zenon DEF stopped_cb
<1>2. a = [y EXCEPT !.seat.compositor = FALSE]
  BY <1>0 DEF SetUsc, SaysStopped, WithoutCompositor, StateType
<1>3. /\ Core(a) /\ Says(a) /\ Clean(a) /\ a.seat.phase = "started"
      /\ a.seat.stopping = u.seat.stopping
  BY GoneKeeps
<1> HIDE DEF h, a
<1>4. compositor_stopped_cb(y) = b
  <2> HIDE DEF y
  <2> QED BY <1>2, Zenon DEF compositor_stopped_cb
<1>5. Good(b) /\ b.seat.phase = "started" /\ b.seat.stopping
  <2>0. a \in StateType
    BY <1>3 DEF Core
  <2>1. CASE a.seat.stopping
    <3>1. b = check_stopped(a)
      BY <2>1
    <3> HIDE DEF b
    <3>2. Quiet(b, a) /\ b.seat.stopping = a.seat.stopping /\ Clean(b)
      BY <1>3, <2>0, <3>1, Checks
    <3>3. b.seat.phase = "started"
      BY <1>3, <3>2 DEF Quiet, SameSeat
    <3>4. Core(b) /\ Says(b)
      BY <1>3, <2>1, <3>2, <3>3, QuietKeeps, QuietSays
    <3> QED BY <2>1, <3>2, <3>3, <3>4 DEF Good, Ending
  <2>2. CASE ~a.seat.stopping
    <3>1. b = seat_stop(a)
      BY <2>2
    <3> HIDE DEF b
    <3>2. Quiet(b, a) /\ Good(b) /\ b.seat.stopping
      BY <1>3, <3>1, SeatStop
    <3> QED BY <1>3, <3>2 DEF Quiet, SameSeat
  <2> QED BY <2>1, <2>2
<1>6. v = xmir_compositor_stopped_cb(d)
  BY <1>1, <1>4, Zenon DEF display_server_real_stop
<1> HIDE DEF b
<1>7. Good(d) /\ d.seat.phase = "started" /\ d.seat.stopping
  BY <1>5, CompositorUnlisted
<1> HIDE DEF d
<1> DEFINE D == {i \in XServers : d.xmir[i].parent /\ d.xmir[i].state # "stopped"}
<1>8. v = display_server_stop(d, D)
  BY <1>6, Zenon DEF xmir_compositor_stopped_cb
<1> HIDE DEF D
<1>9. Quiet(v, d) /\ v.seat = d.seat
  <2>1. d \in StateType
    BY <1>7 DEF Good, Core
  <2> QED BY <1>8, <2>1, ServersStop
<1> QED BY <1>7, <1>9, QuietKeeps, QuietSays, QuietClean, QuietEnding DEF Good

(***************************************************************************)
(* The steps                                                               *)
(***************************************************************************)

(* Only the seat and the compositor change, and no more of them than how   *)
(* far they are.                                                           *)
LEMMA SeatSame ==
  ASSUME NEW u, Good(u), NEW c \in SeatType, SameSeat(c, u.seat),
         c.stopping = u.seat.stopping, c.stopped = u.seat.stopped, NEW v, v = SetUsc(u, u.usc, c)
  PROVE  Good(v)
<1>1. u \in StateType /\ u.usc \in CompositorType
  BY Fields DEF Good, Core
<1>2. /\ v \in StateType /\ v.xmir = u.xmir /\ v.session = u.session /\ v.shown = u.shown
      /\ v.usc = u.usc /\ v.seat = c
  BY <1>1, UscSet
<1>3. Lives(v)
  BY <1>2 DEF Good, Core, Lives, SameSeat
<1>4. Servers(v) /\ Hosted(v) /\ Named(v) /\ Active(v)
  BY <1>2, UscKeeps, UscActive DEF Good, Core, SameSeat
<1>5. Says(v)
  BY <1>2 DEF Good, Says, SameSeat
<1>6. Clean(v) /\ Ending(v)
  BY <1>2 DEF Good, Clean, Ending, ExcusedIn, Present, SameSeat
<1> QED BY <1>2, <1>3, <1>4, <1>5, <1>6 DEF Good, Core

(* A seat that has not started.                                            *)
FromNew(c, b) ==
  /\ c.xdmcp_manager = b.xdmcp_manager
  /\ c.xdmcp_x_server = b.xdmcp_x_server /\ c.display_servers = b.display_servers
  /\ c.active_session = b.active_session /\ c.next_x_server_id = b.next_x_server_id
  /\ c.early = b.early /\ c.late = b.late /\ c.stopping = b.stopping /\ c.stopped = b.stopped
CompositorFromNew(k, b) ==
  /\ k.is_ready = b.is_ready /\ k.announced = b.announced /\ k.said = b.said
  /\ k.next_session_id = b.next_session_id /\ k.next_greeter_id = b.next_greeter_id
  /\ k.stopping = b.stopping

LEMMA SeatLeavesNew ==
  ASSUME NEW u, Good(u), u.seat.phase = "new", NEW k \in CompositorType, NEW c \in SeatType,
         FromNew(c, u.seat), CompositorFromNew(k, u.usc),
         \/ c.phase = "failed" /\ ~c.compositor /\ k.process = "none" /\ (k.timer => u.usc.timer)
         \/ c.phase = "started" /\ c.compositor /\ k.process = "running",
         NEW v, v = SetUsc(u, k, c)
  PROVE  Good(v)
<1>1. u \in StateType /\ Lives(u)
  BY Fields DEF Good, Core
<1>2. /\ v \in StateType /\ v.xmir = u.xmir /\ v.session = u.session /\ v.shown = u.shown
      /\ v.usc = k /\ v.seat = c
  BY <1>1, UscSet
<1>3. Lives(v)
  BY <1>1, <1>2 DEF Lives, FromNew, CompositorFromNew
<1>4. Servers(v) /\ Hosted(v) /\ Named(v)
  BY <1>2, UscKeeps DEF Good, FromNew, CompositorFromNew
<1>5. Active(v)
  <2>1. v.seat.active_session = None /\ v.shown.active = NoId
    BY <1>1, <1>2 DEF Lives, FromNew
  <2> QED BY <2>1 DEF Active, get_mir_id
<1>6. Says(v)
  BY <1>1, <1>2 DEF Good, Says, Lives, FromNew, CompositorFromNew
<1>7. Clean(v) /\ Ending(v)
  BY <1>2 DEF Good, Clean, Ending, ExcusedIn, Present, FromNew
<1> QED BY <1>2, <1>3, <1>4, <1>5, <1>6, <1>7 DEF Good, Core

LEMMA SeatFails ==
  ASSUME NEW u, Good(u), u.seat.phase = "new", NEW v, v = [u EXCEPT !.seat.phase = "failed"]
  PROVE  Good(v)
<1>0. u \in StateType /\ u.seat \in SeatType /\ u.usc \in CompositorType /\ Lives(u)
  BY Fields DEF Good, Core
<1> DEFINE c == [u.seat EXCEPT !.phase = "failed"]
<1>1. v = SetUsc(u, u.usc, c)
  BY <1>0 DEF SetUsc, StateType
<1>2. c \in SeatType /\ FromNew(c, u.seat) /\ c.phase = "failed" /\ c.compositor = u.seat.compositor
  BY <1>0 DEF SeatType, FromNew
<1> HIDE DEF c
<1>3. ~c.compositor /\ u.usc.process = "none"
  BY <1>0, <1>2 DEF Lives
<1> QED BY <1>0, <1>1, <1>2, <1>3, SeatLeavesNew DEF CompositorFromNew

LEMMA SeatStarts ==
  ASSUME NEW u, Good(u), u.seat.phase = "new", NEW vt \in {0, 1}, NEW v,
         v = [unity_system_compositor_start(
                unity_system_compositor_set_vt([u EXCEPT !.seat.compositor = TRUE], vt), TRUE)
               EXCEPT !.seat.phase = "started"]
  PROVE  Good(v)
<1>0. u \in StateType /\ u.seat \in SeatType /\ u.usc \in CompositorType
  BY Fields DEF Good, Core
<1> DEFINE t == vt > 0
           c == [u.seat EXCEPT !.compositor = TRUE, !.phase = "started"]
           k == [u.usc EXCEPT !.have_vt_ref = t, !.process = "running", !.timeout_source = TRUE, !.timer = TRUE]
<1>1. v = SetUsc(u, k, c)
  <2> HIDE DEF t
  <2>1. unity_system_compositor_set_vt([u EXCEPT !.seat.compositor = TRUE], vt)
          = [[u EXCEPT !.seat.compositor = TRUE] EXCEPT !.usc.have_vt_ref = t]
    BY Zenon DEF unity_system_compositor_set_vt, t
  <2> QED BY <1>0, <2>1 DEF SetUsc, unity_system_compositor_start, StateType, SeatType, CompositorType
<1>2. c \in SeatType /\ FromNew(c, u.seat) /\ c.phase = "started" /\ c.compositor
  BY <1>0 DEF SeatType, FromNew
<1>3. t \in BOOLEAN
  OBVIOUS
<1>4. k \in CompositorType /\ CompositorFromNew(k, u.usc) /\ k.process = "running"
  <2> HIDE DEF t
  <2> QED BY <1>0, <1>3 DEF CompositorType, CompositorFromNew
<1> HIDE DEF c, k
<1>5. \/ c.phase = "failed" /\ ~c.compositor /\ k.process = "none" /\ (k.timer => u.usc.timer)
      \/ c.phase = "started" /\ c.compositor /\ k.process = "running"
  BY <1>2, <1>4
<1> QED BY <1>1, <1>2, <1>4, <1>5, SeatLeavesNew, ZenonT(60)

LEMMA SeatGivesUp ==
  ASSUME NEW u, Good(u), u.seat.phase = "new", NEW vt \in {0, 1}, NEW v,
         v = unity_system_compositor_finalize([unity_system_compositor_start(
                unity_system_compositor_set_vt([u EXCEPT !.seat.compositor = FALSE], vt), FALSE)
               EXCEPT !.seat.phase = "failed"])
  PROVE  Good(v)
<1>0. u \in StateType /\ u.seat \in SeatType /\ u.usc \in CompositorType /\ Lives(u)
  BY Fields DEF Good, Core
<1> DEFINE h == vt > 0
           t == u.usc.timer /\ ~u.usc.timeout_source
           c == [u.seat EXCEPT !.compositor = FALSE, !.phase = "failed"]
           k == [u.usc EXCEPT !.have_vt_ref = FALSE, !.timer = t, !.timeout_source = FALSE]
           a == [u EXCEPT !.seat.compositor = FALSE]
           b == [a EXCEPT !.usc.have_vt_ref = h]
           d == [b EXCEPT !.seat.phase = "failed"]
<1>1. v = SetUsc(u, k, c)
  <2>1. unity_system_compositor_set_vt(a, vt) = b
    BY Zenon DEF unity_system_compositor_set_vt
  <2>2. unity_system_compositor_start(b, FALSE) = b
    BY DEF unity_system_compositor_start
  <2>3. v = unity_system_compositor_finalize(d)
    <3> HIDE DEF b
    <3> QED BY <2>1, <2>2, Zenon
  <2>4. d = SetUsc(u, [u.usc EXCEPT !.have_vt_ref = h], c)
    <3> HIDE DEF h
    <3> QED BY <1>0 DEF SetUsc, StateType, SeatType
  <2>5. d.usc.timer = u.usc.timer /\ d.usc.timeout_source = u.usc.timeout_source
    <3> HIDE DEF h, c, d
    <3> QED BY <1>0, <2>4 DEF SetUsc, StateType, CompositorType
  <2>6. v = [d EXCEPT !.usc.have_vt_ref = FALSE, !.usc.timer = t, !.usc.timeout_source = FALSE]
    <3> HIDE DEF d
    <3>1. d.usc.timer /\ ~d.usc.timeout_source <=> t
      BY <2>5
    <3> QED BY <2>3, <2>5, Zenon DEF unity_system_compositor_finalize
  <2> DEFINE j == [u.usc EXCEPT !.have_vt_ref = h]
  <2>7. k = [j EXCEPT !.have_vt_ref = FALSE, !.timer = t, !.timeout_source = FALSE]
    <3> HIDE DEF h, t
    <3> QED BY <1>0 DEF CompositorType
  <2>8. d = [u EXCEPT !.usc = j, !.seat = c]
    <3> HIDE DEF d, c, h
    <3> QED BY <2>4, Zenon DEF SetUsc
  <2> HIDE DEF h, t, c, d, j, k
  <2>9. v = [u EXCEPT !.usc = k, !.seat = c]
    BY <1>0, <2>6, <2>7, <2>8 DEF StateType
  <2> QED BY <2>9, Zenon DEF SetUsc
<1>2. /\ c \in SeatType /\ FromNew(c, u.seat) /\ c.phase = "failed" /\ ~c.compositor
  BY <1>0 DEF SeatType, FromNew
<1>3. t \in BOOLEAN /\ (t => u.usc.timer)
  OBVIOUS
<1> HIDE DEF t
<1>4. /\ k \in CompositorType /\ CompositorFromNew(k, u.usc) /\ k.process = u.usc.process
      /\ k.timer => u.usc.timer
  BY <1>0, <1>3 DEF CompositorType, CompositorFromNew
<1>5. u.usc.process = "none"
  BY <1>0 DEF Lives
<1> HIDE DEF c, k
<1> QED BY <1>1, <1>2, <1>4, <1>5, SeatLeavesNew

(* What tells servers to stop and leaves the seat alone.                   *)
LEMMA QuietGood ==
  ASSUME NEW u, Good(u), NEW v, Quiet(v, u), v.seat.phase = "started",
         v.seat.stopping = u.seat.stopping, v.seat.stopped = u.seat.stopped
  PROVE  Good(v)
<1>1. Core(v)
  BY QuietKeeps DEF Good
<1>2. Says(v) /\ Clean(v) /\ Ending(v)
  BY QuietSays, QuietClean, QuietEnding DEF Good
<1> QED BY <1>1, <1>2 DEF Good

LEMMA ServersStopGood ==
  ASSUME NEW u, Good(u), u.seat.phase = "started", NEW D, NEW v, v = display_server_stop(u, D)
  PROVE  Good(v) /\ v.seat = u.seat
<1>1. u \in StateType
  BY DEF Good, Core
<1>2. Quiet(v, u) /\ v.seat = u.seat
  BY <1>1, ServersStop
<1> QED BY <1>2, QuietGood

LEMMA TimeoutCb ==
  ASSUME NEW u, Good(u), u.usc.timer, NEW v, v = timeout_cb(u)
  PROVE  Good(v)
<1>0. u \in StateType /\ u.seat.phase = "started"
  BY DEF Good, Core, Lives
<1> DEFINE a == display_server_stop(u, {compositor})
           k == [a.usc EXCEPT !.timeout_source = FALSE]
<1>1. v = [a EXCEPT !.usc.timeout_source = FALSE]
  BY Zenon DEF timeout_cb
<1>2. Good(a)
  BY <1>0, ServersStopGood
<1> HIDE DEF a
<1>3. a \in StateType /\ a.usc \in CompositorType
  BY <1>2, Fields DEF Good, Core
<1>4. v = SetUsc(a, k, a.seat)
  BY <1>1, <1>3 DEF SetUsc, StateType
<1>5. k \in CompositorType /\ SameState(k, a.usc)
  BY <1>3 DEF CompositorType, SameState
<1> HIDE DEF k
<1> QED BY <1>2, <1>4, <1>5, UscSame

LEMMA Crashes ==
  ASSUME NEW u, Good(u), NEW crash \in BOOLEAN, NEW v, v = [u EXCEPT !.seat.crashed = crash]
  PROVE  Good(v)
<1>0. u \in StateType /\ u.seat \in SeatType
  BY Fields DEF Good, Core
<1> DEFINE c == [u.seat EXCEPT !.crashed = crash]
<1>1. v = SetUsc(u, u.usc, c)
  BY <1>0 DEF SetUsc, StateType
<1>2. c \in SeatType /\ SameSeat(c, u.seat) /\ c.stopping = u.seat.stopping /\ c.stopped = u.seat.stopped
  BY <1>0 DEF SeatType, SameSeat
<1> HIDE DEF c
<1> QED BY <1>1, <1>2, SeatSame

LEMMA Unread ==
  ASSUME NEW u, Good(u), NEW v, v = [u EXCEPT !.usc.unread = TRUE]
  PROVE  Good(v)
<1>0. u \in StateType /\ u.usc \in CompositorType
  BY Fields DEF Good, Core
<1> DEFINE k == [u.usc EXCEPT !.unread = TRUE]
<1>1. v = SetUsc(u, k, u.seat)
  BY <1>0 DEF SetUsc, StateType
<1>2. k \in CompositorType /\ SameState(k, u.usc)
  BY <1>0 DEF CompositorType, SameState
<1> HIDE DEF k
<1> QED BY <1>1, <1>2, UscSame

MakeReady(u, i) == [u EXCEPT !.xmir[i].state = "ready"]

LEMMA XServerIsReady ==
  ASSUME NEW u, Good(u), u.seat.phase = "started", NEW i \in XServers, u.xmir[i].state = "starting",
         NEW v, v = MakeReady(u, i)
  PROVE  Good(v) /\ v.seat.phase = "started"
<1>0. u \in StateType /\ u.xmir[i] \in XServerType /\ u.seat \in SeatType
  BY Fields DEF Good, Core
<1> DEFINE x == [u.xmir[i] EXCEPT !.state = "ready"]
<1>1. v = Set(u, i, x, u.seat)
  BY <1>0 DEF MakeReady, Set, StateType
<1>2. /\ x \in XServerType /\ x.state = "ready" /\ x.mir_id = u.xmir[i].mir_id
      /\ x.stopping = u.xmir[i].stopping /\ x.parent = u.xmir[i].parent /\ x.waiting = u.xmir[i].waiting
  BY <1>0 DEF XServerType
<1> HIDE DEF x
<1>3. /\ v \in StateType /\ v.usc = u.usc /\ v.session = u.session /\ v.shown = u.shown /\ v.seat = u.seat
      /\ v.xmir[i] = x /\ \A j \in XServers \ {i} : v.xmir[j] = u.xmir[j]
  BY <1>0, <1>1, <1>2, XServerSet
<1>4. Moved(v, u, i)
  BY <1>2, <1>3 DEF Moved, SeatGoes
<1>5. Servers(v)
  BY <1>0, <1>2, <1>3, Apart DEF Good, Core, Servers
<1>6. Core(v) /\ Says(v) /\ Ending(v)
  BY <1>4, <1>5, MovedKeeps DEF Good
<1>7. Clean(v)
  BY <1>3, <1>4, MovedClean DEF Good
<1> QED BY <1>3, <1>6, <1>7 DEF Good

LEMMA XServerGone ==
  ASSUME NEW u, Good(u), u.seat.phase = "started", NEW i \in XServers, u.xmir[i].state \in {"starting", "ready"},
         NEW v, v = XServerStopped(u, i)
  PROVE  Good(v)
<1>1. ~u.xmir[i].waiting
  BY DEF Good, Core, Servers
<1>2. CASE i = XDMCP
  BY <1>1, <1>2, XDMCPStopped
<1>3. CASE i \in Sessions
  BY <1>1, <1>3, ServerStopped
<1> QED BY <1>2, <1>3, Apart

(* A session is made when the seat is not stopping, so that the compositor *)
(* is there, and has said nothing or READY.                                *)
LEMMA MayMake ==
  ASSUME NEW u, Good(u), u.seat.phase = "started", ~u.seat.stopping, ~u.seat.stopped,
         NEW s \in Sessions, u.session[s].state = "none"
  PROVE  MaySession(u, s)
<1>1. u.usc.process # "gone"
  BY DEF Good, Ending, Core, Lives
<1>2. ~u.seat.early /\ u.usc.said # <<>> => u.usc.is_ready
  BY <1>1 DEF Good, Says
<1> QED BY <1>2 DEF MaySession, Early

NewOn(d) == [NewSession EXCEPT !.state = "waiting", !.display_server = d]

OnServerOf(u, g, s) == SetSession(StopIn(u, {g}), s, NewOn(u.session[g].display_server), u.seat)

LEMMA MakeOnGreeters ==
  ASSUME NEW u, Good(u), u.seat.phase = "started", ~u.seat.stopping, ~u.seat.stopped,
         NEW s \in Sessions, u.session[s].state = "none",
         NEW g \in Sessions, u.session[g].state = "running", u.session[g].display_server \in Sessions,
         NEW v, v = OnServerOf(u, g, s)
  PROVE  Good(v)
<1>0. u \in StateType /\ u.session[g] \in SessionType
  BY Fields DEF Good, Core
<1> DEFINE a == StopIn(u, {g})
           d == u.session[g].display_server
           r == NewOn(d)
<1>1. g \in Present(u) /\ g # s
  BY DEF Present
<1>2. /\ Quiet(a, u) /\ a.usc = u.usc /\ a.xmir = u.xmir /\ a.seat = u.seat
  BY <1>0, <1>1, SessionsStop
<1>3. Good(a)
  <2> HIDE DEF a
  <2> QED BY <1>2, QuietGood
<1>4. a \in StateType /\ a.seat \in SeatType
  BY <1>3, Fields DEF Good, Core
<1>5. /\ a.session[s] = u.session[s] /\ a.session[g].state = "stopping"
      /\ \A t \in Sessions : a.session[t].display_server = u.session[t].display_server
      /\ \A t \in Sessions : a.session[t].state = "running" => u.session[t].state = "running"
  <2>1. a.session = [t \in Sessions |-> IF t \in {g} THEN [u.session[t] EXCEPT !.state = "stopping"] ELSE u.session[t]]
    BY <1>0 DEF StopIn, StateType
  <2> HIDE DEF a
  <2>2. a.session[s] = u.session[s] /\ a.session[g].state = "stopping"
    BY <1>0, <1>1, <2>1 DEF SessionType
  <2> QED BY <1>2, <2>2 DEF Quiet, NearerEnd, PresentStates
<1>6. r \in SessionType /\ r.state = "waiting" /\ r.display_server = d /\ r.MIR_SERVER_NAME = NoId
  BY <1>0 DEF NewOn, NewSession, SessionType, PresentStates, Ids
<1>7. d # None
  BY Apart DEF Sessions
<1> HIDE DEF a, r, d
<1>8. /\ v \in StateType /\ v.usc = a.usc /\ v.xmir = a.xmir /\ v.shown = a.shown /\ v.seat = a.seat
      /\ v.session[s] = r /\ \A t \in Sessions \ {s} : v.session[t] = a.session[t]
  <2>1. v = SetSession(a, s, r, a.seat)
    BY <1>2, Zenon DEF OnServerOf, a, r, d
  <2> QED BY <1>4, <1>6, <2>1, SessionSet
<1>9. u.seat.early \/ u.usc.is_ready
  BY DEF Good, Says
<1>10. Joins(v, a, s)
  BY <1>2, <1>4, <1>5, <1>6, <1>7, <1>8, <1>9 DEF Joins, SeatMore
<1>11. a.xmir[d].state # "none"
  BY <1>2 DEF d, Good, Core, Hosted
<1>12. ASSUME NEW t \in Sessions, a.session[t].display_server = d PROVE a.session[t].state # "running"
  <2>1. CASE t = g
    BY <1>5, <2>1
  <2>2. CASE t # g
    <3>1. u.session[t].display_server = d
      BY <1>5, <1>12
    <3>2. u.session[t].state # "running"
      BY <2>2, <3>1 DEF d, Good, Core, Hosted, PresentStates
    <3> QED BY <1>5, <3>2
  <2> QED BY <2>1, <2>2
<1> QED BY <1>3, <1>6, <1>8, <1>10, <1>11, <1>12, JoinedElsewhere

(***************************************************************************)
(* What is shown                                                           *)
(***************************************************************************)

LEMMA MirIdIs ==
  ASSUME NEW u \in StateType, NEW s \in Sessions, u.session[s].display_server # None
  PROVE  get_mir_id(u, s) \in Ids
<1>1. s # None /\ u.session[s] \in SessionType
  BY Apart, Fields
<1>2. u.session[s].display_server = compositor \/ u.session[s].display_server \in XServers
  BY <1>1, Apart DEF SessionType
<1>3. CASE u.session[s].display_server = compositor
  BY <1>1, <1>3 DEF get_mir_id, SessionType
<1>4. CASE u.session[s].display_server # compositor
  <2>1. u.xmir[u.session[s].display_server] \in XServerType
    BY <1>2, <1>4, Fields
  <2> QED BY <1>1, <1>4, <2>1 DEF get_mir_id, XServerType
<1> QED BY <1>3, <1>4

(* The seat and what is shown.                                             *)
SetShown(u, c, h) == [u EXCEPT !.seat = c, !.shown = h]

LEMMA ShownSet ==
  ASSUME NEW u \in StateType, NEW c \in SeatType, NEW h \in [active : Ids, next : Ids], NEW v,
         v = SetShown(u, c, h)
  PROVE  /\ v \in StateType /\ v.usc = u.usc /\ v.xmir = u.xmir /\ v.session = u.session
         /\ v.seat = c /\ v.shown = h
BY DEF StateType, SetShown

ShowingSeat(c, s) == [c EXCEPT !.active_session = s]

LEMMA ShowingSeatIs ==
  ASSUME NEW b \in SeatType, NEW s \in Sessions, NEW c, c = ShowingSeat(b, s)
  PROVE  /\ c \in SeatType /\ c.active_session = s
         /\ c.phase = b.phase /\ c.xdmcp_manager = b.xdmcp_manager /\ c.compositor = b.compositor
         /\ c.xdmcp_x_server = b.xdmcp_x_server /\ c.stopping = b.stopping /\ c.stopped = b.stopped
         /\ c.display_servers = b.display_servers /\ c.late = b.late
         /\ c.next_x_server_id = b.next_x_server_id /\ c.early = b.early
BY DEF SeatType, ShowingSeat

(* The compositor is asked for the session unless its name is the one that *)
(* was asked for last.                                                     *)
LEMMA SetActive ==
  ASSUME NEW u \in StateType, NEW s \in Sessions, u.session[s].display_server # None,
         u.seat.compositor => u.shown.active = get_mir_id(u, u.seat.active_session),
         NEW v, v = seat_unity_set_active_session(u, s)
  PROVE  /\ v \in StateType /\ v.usc = u.usc /\ v.xmir = u.xmir /\ v.session = u.session
         /\ v.seat = ShowingSeat(u.seat, s)
         /\ u.seat.compositor => v.shown.active = get_mir_id(u, s)
<1> DEFINE c == ShowingSeat(u.seat, s)
           id == get_mir_id(u, s)
           old == get_mir_id(u, u.seat.active_session)
           a == SetShown(u, c, u.shown)
           h == [u.shown EXCEPT !.active = id]
<1>0. u.seat \in SeatType /\ u.shown \in [active : Ids, next : Ids]
  BY Fields
<1>1. c \in SeatType /\ c.compositor = u.seat.compositor
  BY <1>0, ShowingSeatIs
<1>2. id \in Ids
  BY MirIdIs
<1>3. a = [u EXCEPT !.seat.active_session = s]
  BY DEF SetShown, ShowingSeat, StateType
<1>4. v = IF old = id THEN a ELSE unity_system_compositor_set_active_session(a, id)
  <2> HIDE DEF a
  <2> QED BY <1>3, Zenon DEF seat_unity_set_active_session
<1> HIDE DEF id, old, c
<1>5. /\ a \in StateType /\ a.usc = u.usc /\ a.xmir = u.xmir /\ a.session = u.session
      /\ a.seat = c /\ a.shown = u.shown
  BY <1>0, <1>1, ShownSet
<1> HIDE DEF a
<1>6. CASE old = id \/ ~u.seat.compositor
  <2>1. v = a
    BY <1>1, <1>4, <1>5, <1>6, Zenon DEF unity_system_compositor_set_active_session
  <2>2. u.seat.compositor => v.shown.active = id
    BY <1>5, <1>6, <2>1 DEF old
  <2> QED BY <1>5, <2>1, <2>2 DEF c, id
<1>7. CASE old # id /\ u.seat.compositor
  <2>1. v = [a EXCEPT !.shown.active = id]
    BY <1>1, <1>4, <1>5, <1>7, Zenon DEF unity_system_compositor_set_active_session
  <2>2. h \in [active : Ids, next : Ids] /\ h.active = id
    BY <1>0, <1>2
  <2>3. v = SetShown(a, c, h)
    BY <1>5, <2>1 DEF SetShown, StateType
  <2> HIDE DEF h
  <2>4. /\ v \in StateType /\ v.usc = a.usc /\ v.xmir = a.xmir /\ v.session = a.session
        /\ v.seat = c /\ v.shown = h
    BY <1>1, <1>5, <2>2, <2>3, ShownSet
  <2> QED BY <1>5, <2>2, <2>4 DEF c, id
<1> QED BY <1>6, <1>7

(* The name of a session is that of its server, whatever else changes.     *)
LEMMA MirIdSame ==
  ASSUME NEW u, NEW v, v.xmir = u.xmir, NEW s \in Sessions, v.session[s] = u.session[s]
  PROVE  get_mir_id(v, s) = get_mir_id(u, s)
BY DEF get_mir_id

LEMMA Shows ==
  ASSUME NEW u, Good(u), u.seat.phase = "started", NEW s \in Sessions, u.session[s].state = "running",
         NEW v, v = seat_unity_set_active_session(u, s)
  PROVE  Good(v)
<1>0. u \in StateType /\ u.seat \in SeatType
  BY Fields DEF Good, Core
<1>1. u.session[s].display_server # None
  BY DEF Good, Core, Hosted
<1>2. u.seat.compositor => u.shown.active = get_mir_id(u, u.seat.active_session)
  BY DEF Good, Core, Active
<1> DEFINE c == ShowingSeat(u.seat, s)
<1>3. /\ c \in SeatType /\ c.active_session = s
      /\ c.phase = u.seat.phase /\ c.xdmcp_manager = u.seat.xdmcp_manager /\ c.compositor = u.seat.compositor
      /\ c.xdmcp_x_server = u.seat.xdmcp_x_server /\ c.stopping = u.seat.stopping /\ c.stopped = u.seat.stopped
      /\ c.display_servers = u.seat.display_servers /\ c.late = u.seat.late
      /\ c.next_x_server_id = u.seat.next_x_server_id /\ c.early = u.seat.early
  BY <1>0, ShowingSeatIs
<1>4. /\ v \in StateType /\ v.usc = u.usc /\ v.xmir = u.xmir /\ v.session = u.session
      /\ v.seat = c
      /\ u.seat.compositor => v.shown.active = get_mir_id(u, s)
  BY <1>0, <1>1, <1>2, SetActive
<1> HIDE DEF c
<1>5. Lives(v) /\ Servers(v) /\ Hosted(v)
  BY <1>3, <1>4 DEF Good, Core, Lives, Servers, Hosted
<1>6. Named(v)
  BY <1>3, <1>4 DEF Good, Core, Named
<1>7. Active(v)
  <2>1. get_mir_id(v, s) = get_mir_id(u, s)
    BY <1>4, MirIdSame
  <2>2. v.seat.active_session = s /\ v.session[s] = u.session[s] /\ v.seat.compositor = u.seat.compositor
    BY <1>3, <1>4
  <2> QED BY <1>1, <1>4, <2>1, <2>2 DEF Active
<1>8. Says(v)
  BY <1>3, <1>4 DEF Good, Says
<1>9. Clean(v) /\ Ending(v)
  BY <1>3, <1>4 DEF Good, Clean, Ending, ExcusedIn, Present
<1> QED BY <1>4, <1>5, <1>6, <1>7, <1>8, <1>9 DEF Good, Core

LEMMA Marks ==
  ASSUME NEW u, Good(u), NEW s \in Sessions, u.session[s].state = "running",
         NEW v, v = seat_unity_set_next_session(u, s)
  PROVE  Good(v)
<1>0. u \in StateType /\ u.seat \in SeatType /\ u.shown \in [active : Ids, next : Ids]
  BY Fields DEF Good, Core
<1> DEFINE id == get_mir_id(u, s)
           h == [u.shown EXCEPT !.next = id]
<1>1. id \in Ids
  <2>1. u.session[s].display_server # None
    BY DEF Good, Core, Hosted
  <2> QED BY <1>0, <2>1, MirIdIs
<1>2. v = u \/ v = [u EXCEPT !.shown.next = id]
  BY Zenon DEF seat_unity_set_next_session, unity_system_compositor_set_next_session
<1> HIDE DEF id
<1>3. CASE v = [u EXCEPT !.shown.next = id]
  <2>1. v = SetShown(u, u.seat, h)
    BY <1>0, <1>3 DEF SetShown, StateType
  <2>2. h \in [active : Ids, next : Ids] /\ h.active = u.shown.active
    BY <1>0, <1>1
  <2> HIDE DEF h
  <2>3. /\ v \in StateType /\ v.usc = u.usc /\ v.xmir = u.xmir /\ v.session = u.session
        /\ v.seat = u.seat /\ v.shown = h
    BY <1>0, <2>1, <2>2, ShownSet
  <2>4. Lives(v) /\ Servers(v) /\ Hosted(v) /\ Named(v)
    <3>1. Lives(v)
      BY <2>2, <2>3 DEF Good, Core, Lives
    <3>2. Servers(v) /\ Hosted(v)
      BY <2>3 DEF Good, Core, Servers, Hosted
    <3>3. Named(v)
      BY <2>3 DEF Good, Core, Named
    <3> QED BY <3>1, <3>2, <3>3
  <2>5. Active(v)
    <3>1. get_mir_id(v, u.seat.active_session) = get_mir_id(u, u.seat.active_session)
      BY <2>3 DEF get_mir_id
    <3> QED BY <2>2, <2>3, <3>1 DEF Good, Core, Active
  <2>6. Says(v) /\ Clean(v) /\ Ending(v)
    BY <2>3 DEF Good, Says, Clean, Ending, ExcusedIn, Present
  <2> QED BY <2>3, <2>4, <2>5, <2>6 DEF Good, Core
<1> QED BY <1>2, <1>3

(* A session that runs may get a name, which no session had.               *)
LEMMA NewSessionName ==
  ASSUME NEW b \in CompositorType, NEW k \in CompositorType, NEW m,
         \/ /\ m = <<"greeter", b.next_greeter_id>> /\ k.next_greeter_id = b.next_greeter_id + 1
            /\ k.next_session_id = b.next_session_id
         \/ /\ m = <<"session", b.next_session_id>> /\ k.next_session_id = b.next_session_id + 1
            /\ k.next_greeter_id = b.next_greeter_id
  PROVE  m \notin Given(b) /\ m \in Given(k) /\ Given(b) \subseteq Given(k) /\ m # NoId /\ m \in Ids
<1>1. b.next_greeter_id \in Nat /\ b.next_session_id \in Nat
  BY DEF CompositorType
<1>2. ASSUME NEW kind, NEW n \in Nat
      PROVE  /\ <<kind, n>> \in Below(kind, n + 1) /\ <<kind, n>> \notin Below(kind, n)
             /\ Below(kind, n) \subseteq Below(kind, n + 1)
  <2>1. \A j \in 0..(n - 1) : j # n /\ j \in 0..((n + 1) - 1)
    OBVIOUS
  <2>2. n \in 0..((n + 1) - 1)
    OBVIOUS
  <2>3. \A j : <<kind, j>> = <<kind, n>> => j = n
    OBVIOUS
  <2> QED BY <2>1, <2>2, <2>3 DEF Below
<1>3. \A n, j : <<"greeter", n>> # <<"session", j>>
  OBVIOUS
<1>4. \A n \in Nat : <<"greeter", n>> \in Ids /\ <<"session", n>> \in Ids /\ <<"greeter", n>> # NoId /\ <<"session", n>> # NoId
  BY DEF Ids, Kinds, NoId
<1>5. CASE m = <<"greeter", b.next_greeter_id>> /\ k.next_greeter_id = b.next_greeter_id + 1
            /\ k.next_session_id = b.next_session_id
  <2>1. m \notin Below("session", b.next_session_id)
    BY <1>3, <1>5 DEF Below
  <2>2. /\ m \in Below("greeter", k.next_greeter_id) /\ m \notin Below("greeter", b.next_greeter_id)
        /\ Below("greeter", b.next_greeter_id) \subseteq Below("greeter", k.next_greeter_id)
    BY <1>1, <1>2, <1>5
  <2>3. Below("session", k.next_session_id) = Below("session", b.next_session_id)
    BY <1>5
  <2> QED BY <1>1, <1>4, <1>5, <2>1, <2>2, <2>3 DEF Given
<1>6. CASE m = <<"session", b.next_session_id>> /\ k.next_session_id = b.next_session_id + 1
            /\ k.next_greeter_id = b.next_greeter_id
  <2>1. m \notin Below("greeter", b.next_greeter_id)
    BY <1>3, <1>6 DEF Below
  <2>2. /\ m \in Below("session", k.next_session_id) /\ m \notin Below("session", b.next_session_id)
        /\ Below("session", b.next_session_id) \subseteq Below("session", k.next_session_id)
    BY <1>1, <1>2, <1>6
  <2>3. Below("greeter", k.next_greeter_id) = Below("greeter", b.next_greeter_id)
    BY <1>6
  <2> QED BY <1>1, <1>4, <1>6, <2>1, <2>2, <2>3 DEF Given
<1> QED BY <1>5, <1>6

(* Session s runs, before it is shown.                                     *)
SetRunning(u, s, r, k) == [u EXCEPT !.session[s] = r, !.usc = k]

LEMMA RunningSet ==
  ASSUME NEW u \in StateType, NEW s \in Sessions, NEW r \in SessionType, NEW k \in CompositorType, NEW v,
         v = SetRunning(u, s, r, k)
  PROVE  /\ v \in StateType /\ v.usc = k /\ v.xmir = u.xmir /\ v.shown = u.shown /\ v.seat = u.seat
         /\ v.session[s] = r /\ \A t \in Sessions \ {s} : v.session[t] = u.session[t]
BY DEF StateType, SetRunning

Run(u, s) ==
  IF u.session[s].display_server = compositor
  THEN unity_system_compositor_connect_session([u EXCEPT !.session[s].state = "running"], s)
  ELSE [u EXCEPT !.session[s].state = "running"]

SameButNames(k, b) ==
  /\ k.process = b.process /\ k.is_ready = b.is_ready /\ k.announced = b.announced /\ k.said = b.said
  /\ k.stopping = b.stopping /\ k.timer = b.timer
Names(v, u, s) ==
  \/ /\ v.usc = u.usc /\ v.session[s].MIR_SERVER_NAME = u.session[s].MIR_SERVER_NAME
     /\ v.session[s].display_server = compositor => v.session[s].MIR_SERVER_NAME # NoId
  \/ /\ u.session[s].MIR_SERVER_NAME = NoId /\ v.session[s].MIR_SERVER_NAME \notin Given(u.usc)
     /\ v.session[s].MIR_SERVER_NAME # NoId /\ v.session[s].MIR_SERVER_NAME \in Given(v.usc)
     /\ Given(u.usc) \subseteq Given(v.usc)
Running(v, u, s) ==
  /\ v \in StateType /\ v.xmir = u.xmir /\ v.shown = u.shown /\ v.seat = u.seat
  /\ SameButNames(v.usc, u.usc) /\ Names(v, u, s)
  /\ v.session[s].state = "running" /\ v.session[s].display_server = u.session[s].display_server
  /\ \A t \in Sessions \ {s} : v.session[t] = u.session[t]

LEMMA RunIs ==
  ASSUME NEW u \in StateType, NEW s \in Sessions, NEW v, v = Run(u, s)
  PROVE  Running(v, u, s)
<1>0. u.session[s] \in SessionType /\ u.usc \in CompositorType
  BY Fields
<1> DEFINE q == u.session[s]
           b == u.usc
           r == [q EXCEPT !.state = "running"]
           a == SetRunning(u, s, r, b)
<1>1. a = [u EXCEPT !.session[s].state = "running"]
  BY DEF SetRunning, StateType
<1>2. /\ r \in SessionType /\ r.state = "running" /\ r.display_server = q.display_server
      /\ r.MIR_SERVER_NAME = q.MIR_SERVER_NAME /\ r.greeter = q.greeter
  BY <1>0 DEF SessionType, PresentStates
<1> HIDE DEF r
<1>3. /\ a \in StateType /\ a.usc = b /\ a.xmir = u.xmir /\ a.shown = u.shown /\ a.seat = u.seat
      /\ a.session[s] = r /\ \A t \in Sessions \ {s} : a.session[t] = u.session[t]
  BY <1>0, <1>2, RunningSet
<1>4. v = IF q.display_server = compositor THEN unity_system_compositor_connect_session(a, s) ELSE a
  <2> HIDE DEF a
  <2> QED BY <1>1, Zenon DEF Run
<1> HIDE DEF a
<1>5. CASE q.display_server # compositor \/ q.MIR_SERVER_NAME # NoId
  <2>1. v = a
    BY <1>2, <1>3, <1>4, <1>5 DEF unity_system_compositor_connect_session
  <2>2. Names(v, u, s)
    BY <1>2, <1>3, <1>5, <2>1 DEF Names
  <2> QED BY <1>2, <1>3, <2>1, <2>2 DEF Running, SameButNames
<1>6. ASSUME q.display_server = compositor, q.MIR_SERVER_NAME = NoId,
             NEW m, NEW k \in CompositorType, SameButNames(k, b),
             v = SetRunning(a, s, [r EXCEPT !.MIR_SERVER_NAME = m], k),
             \/ /\ m = <<"greeter", b.next_greeter_id>> /\ k.next_greeter_id = b.next_greeter_id + 1
                /\ k.next_session_id = b.next_session_id
             \/ /\ m = <<"session", b.next_session_id>> /\ k.next_session_id = b.next_session_id + 1
                /\ k.next_greeter_id = b.next_greeter_id
      PROVE  Running(v, u, s)
  <2> DEFINE p == [r EXCEPT !.MIR_SERVER_NAME = m]
  <2>1. m \notin Given(b) /\ m \in Given(k) /\ Given(b) \subseteq Given(k) /\ m # NoId /\ m \in Ids
    BY <1>0, <1>6, NewSessionName
  <2>2. p \in SessionType /\ p.state = "running" /\ p.display_server = q.display_server /\ p.MIR_SERVER_NAME = m
    BY <1>2, <2>1 DEF SessionType
  <2> HIDE DEF p
  <2>3. /\ v \in StateType /\ v.usc = k /\ v.xmir = a.xmir /\ v.shown = a.shown /\ v.seat = a.seat
        /\ v.session[s] = p /\ \A t \in Sessions \ {s} : v.session[t] = a.session[t]
    <3>1. v = SetRunning(a, s, p, k)
      BY <1>6, Zenon DEF p
    <3> QED BY <1>3, <2>2, <3>1, RunningSet
  <2>4. Names(v, u, s)
    BY <1>6, <2>1, <2>2, <2>3 DEF Names
  <2> QED BY <1>3, <1>6, <2>2, <2>3, <2>4 DEF Running
<1>7. CASE q.display_server = compositor /\ q.MIR_SERVER_NAME = NoId /\ q.greeter
  <2> DEFINE m == <<"greeter", b.next_greeter_id>>
             k == [b EXCEPT !.next_greeter_id = @ + 1]
  <2>1. v = [a EXCEPT !.session[s].MIR_SERVER_NAME = m, !.usc.next_greeter_id = @ + 1]
    BY <1>2, <1>3, <1>4, <1>7, Zenon DEF unity_system_compositor_connect_session
  <2>2. v = SetRunning(a, s, [r EXCEPT !.MIR_SERVER_NAME = m], k)
    <3> HIDE DEF m
    <3> QED BY <1>3, <2>1 DEF SetRunning, StateType
  <2>3. /\ k \in CompositorType /\ SameButNames(k, b) /\ k.next_greeter_id = b.next_greeter_id + 1
        /\ k.next_session_id = b.next_session_id
    BY <1>0 DEF CompositorType, SameButNames
  <2> HIDE DEF k
  <2> QED BY <1>6, <1>7, <2>2, <2>3
<1>8. CASE q.display_server = compositor /\ q.MIR_SERVER_NAME = NoId /\ ~q.greeter
  <2> DEFINE m == <<"session", b.next_session_id>>
             k == [b EXCEPT !.next_session_id = @ + 1]
  <2>1. v = [a EXCEPT !.session[s].MIR_SERVER_NAME = m, !.usc.next_session_id = @ + 1]
    BY <1>2, <1>3, <1>4, <1>8, Zenon DEF unity_system_compositor_connect_session
  <2>2. v = SetRunning(a, s, [r EXCEPT !.MIR_SERVER_NAME = m], k)
    <3> HIDE DEF m
    <3> QED BY <1>3, <2>1 DEF SetRunning, StateType
  <2>3. /\ k \in CompositorType /\ SameButNames(k, b) /\ k.next_session_id = b.next_session_id + 1
        /\ k.next_greeter_id = b.next_greeter_id
    BY <1>0 DEF CompositorType, SameButNames
  <2> HIDE DEF k
  <2> QED BY <1>6, <1>8, <2>2, <2>3
<1> QED BY <1>5, <1>7, <1>8

LEMMA RunGood ==
  ASSUME NEW u, Good(u), u.seat.phase = "started", ~u.seat.stopped, ~u.seat.stopping,
         NEW s \in Sessions, u.session[s].state = "waiting",
         u.session[s].display_server # compositor =>
           \A t \in Present(u) \ {s} : u.session[t].display_server # u.session[s].display_server,
         NEW v, v = seat_unity_set_active_session(Run(u, s), s)
  PROVE  Good(v)
<1>0. u \in StateType /\ u.seat \in SeatType
  BY Fields DEF Good, Core
<1> DEFINE b == Run(u, s)
           c == ShowingSeat(u.seat, s)
<1>1. Running(b, u, s)
  BY <1>0, RunIs
<1> HIDE DEF b
<1>2. /\ b \in StateType /\ b.xmir = u.xmir /\ b.shown = u.shown /\ b.seat = u.seat
      /\ SameButNames(b.usc, u.usc) /\ Names(b, u, s)
      /\ b.session[s].state = "running" /\ b.session[s].display_server = u.session[s].display_server
      /\ \A t \in Sessions \ {s} : b.session[t] = u.session[t]
  BY <1>1 DEF Running
<1>3. u.session[s].display_server # None
  BY DEF Good, Core, Hosted
<1>4. u.seat.active_session # s
  BY Apart DEF Good, Core, Active
<1>5. b.seat.compositor => b.shown.active = get_mir_id(b, b.seat.active_session)
  <2>1. u.seat.compositor => u.shown.active = get_mir_id(u, u.seat.active_session)
    BY DEF Good, Core, Active
  <2>2. u.seat.active_session \in (Sessions \ {s}) \cup {None}
    BY <1>0, <1>4 DEF SeatType
  <2>3. get_mir_id(b, u.seat.active_session) = get_mir_id(u, u.seat.active_session)
    <3>1. CASE u.seat.active_session = None
      BY <3>1 DEF get_mir_id
    <3>2. CASE u.seat.active_session \in Sessions \ {s}
      BY <1>2, <3>2, MirIdSame
    <3> QED BY <2>2, <3>1, <3>2
  <2> QED BY <1>2, <2>1, <2>3
<1>6. /\ v \in StateType /\ v.usc = b.usc /\ v.xmir = b.xmir /\ v.session = b.session
      /\ v.seat = ShowingSeat(b.seat, s)
      /\ b.seat.compositor => v.shown.active = get_mir_id(b, s)
  <2>1. v = seat_unity_set_active_session(b, s)
    BY DEF b
  <2> QED BY <1>2, <1>3, <1>5, <2>1, SetActive
<1>7. /\ c \in SeatType /\ c.active_session = s
      /\ c.phase = u.seat.phase /\ c.xdmcp_manager = u.seat.xdmcp_manager /\ c.compositor = u.seat.compositor
      /\ c.xdmcp_x_server = u.seat.xdmcp_x_server /\ c.stopping = u.seat.stopping /\ c.stopped = u.seat.stopped
      /\ c.display_servers = u.seat.display_servers /\ c.late = u.seat.late
      /\ c.next_x_server_id = u.seat.next_x_server_id /\ c.early = u.seat.early
  BY <1>0, ShowingSeatIs
<1>8. v.seat = c
  BY <1>2, <1>6
<1> HIDE DEF c
<1>9. /\ v.xmir = u.xmir /\ SameButNames(v.usc, u.usc) /\ Names(v, u, s)
      /\ v.session[s].state = "running" /\ v.session[s].display_server = u.session[s].display_server
      /\ \A t \in Sessions \ {s} : v.session[t] = u.session[t]
  BY <1>2, <1>6 DEF Names
<1>10. Lives(v)
  BY <1>7, <1>8, <1>9 DEF Good, Core, Lives, SameButNames
<1>11. Servers(v)
  BY <1>7, <1>8, <1>9 DEF Good, Core, Servers
<1>12. Hosted(v)
  <2>1. ASSUME NEW t \in Sessions
        PROVE  /\ v.session[t].display_server = u.session[t].display_server
               /\ v.session[t].state = IF t = s THEN "running" ELSE u.session[t].state
    BY <1>9
  <2>2. ASSUME NEW t \in Sessions, t # s, u.session[t].state \in PresentStates,
               u.session[s].display_server \in Sessions
        PROVE  u.session[t].display_server # u.session[s].display_server
    <3>1. t \in Present(u) \ {s}
      BY <2>2 DEF Present, PresentStates
    <3>2. u.session[s].display_server # compositor
      BY <2>2, Apart
    <3> QED BY <3>1, <3>2
  <2>3. ASSUME NEW t \in Sessions, NEW w \in Sessions, t # w, v.session[t].state = "running",
               v.session[w].state \in PresentStates, v.session[t].display_server \in Sessions
        PROVE  v.session[t].display_server # v.session[w].display_server
    <3>1. CASE t = s
      BY <2>1, <2>2, <2>3, <3>1
    <3>2. CASE w = s
      BY <2>1, <2>2, <2>3, <3>2 DEF PresentStates
    <3>3. CASE t # s /\ w # s
      BY <2>1, <2>3, <3>3 DEF Good, Core, Hosted
    <3> QED BY <3>1, <3>2, <3>3
  <2>4. \A t \in Sessions : v.session[t].state \in {"waiting", "running"} => v.session[t].display_server # None
    BY <1>3, <2>1 DEF Good, Core, Hosted
  <2>5. \A t \in Sessions : v.session[t].display_server \in Sessions => v.xmir[v.session[t].display_server].state # "none"
    BY <1>9, <2>1 DEF Good, Core, Hosted
  <2> QED BY <2>3, <2>4, <2>5 DEF Hosted
<1>13. Named(v)
  <2>1. /\ \A i \in XServers : v.xmir[i].state # "none" => v.xmir[i].mir_id \in Below("x", v.seat.next_x_server_id)
        /\ \A i, j \in XServers :
             i # j /\ v.xmir[i].state # "none" /\ v.xmir[j].state # "none" => v.xmir[i].mir_id # v.xmir[j].mir_id
    BY <1>7, <1>8, <1>9 DEF Good, Core, Named
  <2>2. /\ Given(u.usc) \subseteq Given(v.usc)
        /\ v.session[s].MIR_SERVER_NAME # NoId => v.session[s].MIR_SERVER_NAME \in Given(v.usc)
        /\ v.session[s].display_server = compositor => v.session[s].MIR_SERVER_NAME # NoId
    BY <1>9 DEF Good, Core, Named, Names
  <2>3. \A t \in Sessions : v.session[t].MIR_SERVER_NAME # NoId => v.session[t].MIR_SERVER_NAME \in Given(v.usc)
    BY <1>9, <2>2 DEF Good, Core, Named
  <2>4. ASSUME NEW t \in Sessions \ {s}, v.session[s].MIR_SERVER_NAME # NoId
        PROVE  v.session[t].MIR_SERVER_NAME # v.session[s].MIR_SERVER_NAME
    <3>1. v.session[t] = u.session[t]
      BY <1>9
    <3>2. CASE v.session[s].MIR_SERVER_NAME = u.session[s].MIR_SERVER_NAME
      BY <2>4, <3>1, <3>2 DEF Good, Core, Named
    <3>3. CASE v.session[s].MIR_SERVER_NAME \notin Given(u.usc)
      BY <2>4, <3>1, <3>3 DEF Good, Core, Named
    <3> QED BY <1>9, <3>2, <3>3 DEF Names
  <2>5. ASSUME NEW t \in Sessions, NEW w \in Sessions, t # w, v.session[t].MIR_SERVER_NAME # NoId
        PROVE  v.session[t].MIR_SERVER_NAME # v.session[w].MIR_SERVER_NAME
    <3>1. CASE t = s
      BY <2>4, <2>5, <3>1
    <3>2. CASE w = s
      BY <2>4, <2>5, <3>2
    <3>3. CASE t # s /\ w # s
      BY <1>9, <2>5, <3>3 DEF Good, Core, Named
    <3> QED BY <3>1, <3>2, <3>3
  <2>6. \A t \in Sessions : v.session[t].state = "running" /\ v.session[t].display_server = compositor
          => v.session[t].MIR_SERVER_NAME # NoId
    BY <1>9, <2>2 DEF Good, Core, Named
  <2> QED BY <2>1, <2>3, <2>5, <2>6 DEF Named
<1>14. Active(v)
  <2>1. get_mir_id(v, s) = get_mir_id(b, s)
    BY <1>6, MirIdSame
  <2>2. v.seat.active_session = s /\ v.seat.compositor = b.seat.compositor
    BY <1>2, <1>7, <1>8
  <2> QED BY <1>3, <1>6, <1>9, <2>1, <2>2 DEF Active
<1>15. Says(v)
  <2>1. ~u.seat.early => u.usc.is_ready
    BY DEF Good, Says
  <2> QED BY <1>7, <1>8, <1>9, <2>1 DEF Good, Says, SameButNames
<1>16. Clean(v) /\ Ending(v)
  BY <1>7, <1>8 DEF Good, Clean, Ending
<1> QED BY <1>6, <1>10, <1>11, <1>12, <1>13, <1>14, <1>15, <1>16 DEF Good, Core

(* A session ends.                                                         *)
End(u, s) == [u EXCEPT !.session[s].state = "ended"]

LEMMA EndIs ==
  ASSUME NEW u \in StateType, NEW s \in Sessions, u.session[s].state \in PresentStates, NEW v, v = End(u, s)
  PROVE  Quiet(v, u) /\ v.seat = u.seat /\ v.usc = u.usc /\ v.xmir = u.xmir
<1>0. u.session[s] \in SessionType /\ u.seat \in SeatType
  BY Fields
<1> DEFINE r == [u.session[s] EXCEPT !.state = "ended"]
<1>1. v = SetSession(u, s, r, u.seat)
  BY DEF End, SetSession, StateType
<1>2. r \in SessionType /\ NearerEnd(r, u.session[s])
  BY <1>0 DEF SessionType, NearerEnd
<1> HIDE DEF r
<1>3. /\ v \in StateType /\ v.usc = u.usc /\ v.xmir = u.xmir /\ v.shown = u.shown /\ v.seat = u.seat
      /\ v.session[s] = r /\ \A t \in Sessions \ {s} : v.session[t] = u.session[t]
  BY <1>0, <1>1, <1>2, SessionSet
<1>4. \A t \in Sessions : NearerEnd(v.session[t], u.session[t])
  BY <1>2, <1>3 DEF NearerEnd
<1> QED BY <1>3, <1>4 DEF Quiet, SameCompositor, Told, SameSeat, SameXServer

LEMMA SessionGone ==
  ASSUME NEW u, Good(u), u.seat.phase = "started", NEW s \in Sessions, u.session[s].state \in {"running", "stopping"},
         NEW a, a = End(u, s), NEW d, NEW v,
         \/ v = a
         \/ v = display_server_stop(a, {d})
         \/ u.seat.stopping /\ v = seat_check_stopped(a)
  PROVE  Good(v)
<1>1. Quiet(a, u) /\ a.seat = u.seat
  BY EndIs DEF Good, Core, PresentStates
<1>2. Good(a) /\ a.seat.phase = "started"
  BY <1>1, QuietGood
<1>3. CASE v = display_server_stop(a, {d})
  BY <1>2, <1>3, ServersStopGood
<1>4. CASE u.seat.stopping /\ v = seat_check_stopped(a)
  <2>1. a \in StateType /\ Clean(a) /\ Core(a) /\ Says(a)
    BY <1>2 DEF Good, Core
  <2>2. Quiet(v, a) /\ v.seat.stopping = a.seat.stopping /\ Clean(v)
    BY <1>4, <2>1, SeatChecks
  <2>3. v.seat.phase = "started"
    BY <1>2, <2>2 DEF Quiet, SameSeat
  <2>4. Core(v) /\ Says(v)
    BY <2>1, <2>2, <2>3, QuietKeeps, QuietSays
  <2> QED BY <1>1, <1>4, <2>2, <2>3, <2>4 DEF Good, Ending
<1> QED BY <1>2, <1>3, <1>4

(***************************************************************************)
(* Initial states and steps                                                *)
(***************************************************************************)

LEMMA InitGood == UnityInit => UnityIInv
<1> SUFFICES ASSUME UnityInit PROVE UnityIInv
  OBVIOUS
<1> DEFINE u == Now
<1>1. PICK manager \in Managers : seat = NewSeat(manager)
  BY DEF UnityInit
<1>2. manager \in BOOLEAN
  BY UnityAssumption
<1>3. /\ u.usc = NewCompositor /\ u.seat = NewSeat(manager) /\ u.shown = [active |-> NoId, next |-> NoId]
      /\ u.xmir = [i \in XServers |-> NewXServer] /\ u.session = [s \in Sessions |-> NewSession]
  BY <1>1 DEF UnityInit, Now
<1>4. u = [usc |-> u.usc, xmir |-> u.xmir, seat |-> u.seat, session |-> u.session, shown |-> u.shown]
  BY DEF Now
<1> HIDE DEF u
<1>5. NewCompositor \in CompositorType /\ NewXServer \in XServerType /\ NewSession \in SessionType
  <2>1. <<>> \in Seq({"READY", "STOPPED"})
    OBVIOUS
  <2>2. NewCompositor \in CompositorType
    BY <2>1 DEF NewCompositor, CompositorType
  <2> QED BY <2>2 DEF NewXServer, XServerType, NewSession, SessionType, Ids
<1>6. NewSeat(manager) \in SeatType
  BY <1>2 DEF NewSeat, SeatType
<1>7. u \in StateType
  BY <1>3, <1>4, <1>5, <1>6 DEF StateType, Ids
<1>8. /\ \A i \in XServers : u.xmir[i] = NewXServer
      /\ \A s \in Sessions : u.session[s] = NewSession
  BY <1>3
<1>9. Lives(u)
  BY <1>3 DEF Lives, NewSeat, NewCompositor
<1>10. Servers(u) /\ Hosted(u)
  BY <1>3, <1>8, Apart DEF Servers, Hosted, NewSeat, NewXServer, NewSession, PresentStates
<1>11. Named(u)
  BY <1>8 DEF Named, NewXServer, NewSession
<1>12. Active(u)
  BY <1>3 DEF Active, NewSeat, get_mir_id
<1>13. Says(u)
  <2>1. <<>> # <<"READY">> /\ <<>> # <<"STOPPED">> /\ <<>> # <<"READY", "STOPPED">>
    OBVIOUS
  <2> QED BY <1>3, <1>8, <2>1 DEF Says, NewSeat, NewCompositor, NewSession, NewXServer
<1>14. Clean(u) /\ Ending(u)
  BY <1>3 DEF Clean, Ending, NewSeat
<1> QED BY <1>7, <1>9, <1>10, <1>11, <1>12, <1>13, <1>14 DEF UnityIInv, Good, Core, u

(* What a step does is what its handler returns.                           *)
LEMMA BecomesIs ==
  ASSUME NEW w, w \in StateType, Becomes(w)
  PROVE  Now' = w
<1>1. usc' = w.usc /\ xmir' = w.xmir /\ seat' = w.seat /\ session' = w.session /\ shown' = w.shown
  BY DEF Becomes
<1>2. w = [usc |-> w.usc, xmir |-> w.xmir, seat |-> w.seat, session |-> w.session, shown |-> w.shown]
  BY DEF StateType
<1> QED BY <1>1, <1>2 DEF Now

LEMMA BecomesGood ==
  ASSUME NEW w, Good(w), Becomes(w)
  PROVE  UnityIInv'
<1>1. Now' = w
  BY BecomesIs DEF Good, Core
<1> QED BY <1>1 DEF UnityIInv

LEMMA NowIs ==
  Now.usc = usc /\ Now.xmir = xmir /\ Now.seat = seat /\ Now.session = session /\ Now.shown = shown
BY DEF Now

LEMMA SameGood ==
  ASSUME UnityIInv, UNCHANGED unityVars
  PROVE  UnityIInv'
<1>1. Now' = Now
  BY DEF unityVars, Now
<1> QED BY <1>1 DEF UnityIInv

LEMMA StepStart == ASSUME UnityIInv, seat_unity_start PROVE UnityIInv'
<1>1. Good(Now) /\ Now.seat.phase = "new"
  BY NowIs DEF UnityIInv, seat_unity_start
<1>2. CASE Becomes([Now EXCEPT !.seat.phase = "failed"])
  <2> DEFINE w == [Now EXCEPT !.seat.phase = "failed"]
  <2>1. Good(w)
    BY <1>1, SeatFails
  <2> HIDE DEF w
  <2> QED BY <1>2, <2>1, BecomesGood DEF w
<1>3. ASSUME NEW vt \in {0, 1}, NEW works \in BOOLEAN,
             LET a == unity_system_compositor_set_vt([Now EXCEPT !.seat.compositor = works], vt)
                 b == unity_system_compositor_start(a, works)
             IN  Becomes(IF works THEN [b EXCEPT !.seat.phase = "started"]
                         ELSE unity_system_compositor_finalize([b EXCEPT !.seat.phase = "failed"]))
      PROVE  UnityIInv'
  <2> DEFINE a(k) == unity_system_compositor_set_vt([Now EXCEPT !.seat.compositor = k], vt)
             b(k) == unity_system_compositor_start(a(k), k)
             v == [b(TRUE) EXCEPT !.seat.phase = "started"]
             w == unity_system_compositor_finalize([b(FALSE) EXCEPT !.seat.phase = "failed"])
  <2>1. CASE works = TRUE
    <3>1. Becomes(v)
      BY <1>3, <2>1, Zenon
    <3>2. Good(v)
      BY <1>1, SeatStarts, Zenon
    <3> HIDE DEF v
    <3> QED BY <3>1, <3>2, BecomesGood
  <2>2. CASE works = FALSE
    <3>1. Becomes(w)
      BY <1>3, <2>2, Zenon
    <3>2. Good(w)
      BY <1>1, SeatGivesUp, Zenon
    <3> HIDE DEF w
    <3> QED BY <3>1, <3>2, BecomesGood
  <2> QED BY <2>1, <2>2
<1> QED BY <1>2, <1>3, Zenon DEF seat_unity_start

LEMMA StepWrite == ASSUME UnityIInv, WriteReady PROVE UnityIInv'
<1> DEFINE w == [Now EXCEPT !.usc.unread = TRUE]
<1>1. Becomes(w)
  BY DEF WriteReady, Becomes, Now
<1>2. Good(w)
  BY Unread DEF UnityIInv
<1> HIDE DEF w
<1> QED BY <1>1, <1>2, BecomesGood

LEMMA RunsIs == ASSUME Runs PROVE Now.seat.phase = "started" /\ ~Now.seat.stopped
BY NowIs DEF Runs

LEMMA StepRead == ASSUME UnityIInv, ReadFromCompositor PROVE UnityIInv'
<1>1. PICK type \in {"x", "mir"}, fails \in {{}, {XDMCP}, Sessions} : Becomes(read_cb(Now, type, fails))
  BY DEF ReadFromCompositor
<1>2. /\ Good(Now) /\ Now.seat.phase = "started" /\ ~Now.seat.stopped /\ Alive(Now) /\ Unused(Now) # {}
  BY RunsIs DEF ReadFromCompositor, UnityIInv
<1>3. Good(read_cb(Now, type, fails))
  BY <1>2, ReadCb
<1> QED BY <1>1, <1>3, BecomesGood

LEMMA StepTimeout == ASSUME UnityIInv, Timeout PROVE UnityIInv'
<1>1. Good(Now) /\ Now.usc.timer
  BY NowIs DEF UnityIInv, Timeout
<1>2. CASE Becomes(timeout_cb(Now))
  <2>1. Good(timeout_cb(Now))
    BY <1>1, TimeoutCb
  <2> QED BY <1>2, <2>1, BecomesGood
<1>3. ASSUME NEW crash \in BOOLEAN, Becomes([Now EXCEPT !.seat.crashed = crash]) PROVE UnityIInv'
  <2> DEFINE w == [Now EXCEPT !.seat.crashed = crash]
  <2>1. Good(w)
    BY <1>1, Crashes
  <2> HIDE DEF w
  <2> QED BY <1>3, <2>1, BecomesGood DEF w
<1> QED BY <1>2, <1>3, Zenon DEF Timeout

LEMMA StepCompositorExits == ASSUME UnityIInv, CompositorExits PROVE UnityIInv'
<1>1. Good(Now) /\ Now.seat.phase = "started" /\ Now.usc.process \in {"running", "told"}
  BY NowIs, RunsIs DEF UnityIInv, CompositorExits
<1>2. Good(stopped_cb(Now))
  BY <1>1, StoppedCb
<1> QED BY <1>2, BecomesGood DEF CompositorExits

LEMMA StepXServerReady == ASSUME UnityIInv, XServerReady PROVE UnityIInv'
<1>1. PICK i \in XServers :
        /\ Runs /\ xmir[i].state = "starting"
        /\ LET a == [Now EXCEPT !.xmir[i].state = "ready"]
           IN  Becomes(IF i = XDMCP \/ \E s \in Present(a) : a.session[s].display_server = i
                       THEN a ELSE display_server_stop(a, {i}))
  BY Zenon DEF XServerReady
<1> DEFINE a == MakeReady(Now, i)
           w == display_server_stop(a, {i})
<1>2. Becomes(a) \/ Becomes(w)
  BY <1>1, Zenon DEF MakeReady
<1>3. Good(Now) /\ Now.seat.phase = "started" /\ Now.xmir[i].state = "starting"
  BY <1>1, NowIs, RunsIs DEF UnityIInv
<1>4. Good(a) /\ a.seat.phase = "started"
  BY <1>3, XServerIsReady
<1> HIDE DEF a
<1>5. Good(w)
  BY <1>4, ServersStopGood
<1> HIDE DEF w
<1> QED BY <1>2, <1>4, <1>5, BecomesGood

LEMMA StepXServerExits == ASSUME UnityIInv, NEW i \in XServers, XServerExits(i) PROVE UnityIInv'
<1>1. /\ Good(Now) /\ Now.seat.phase = "started" /\ Now.xmir[i].state \in {"starting", "ready"}
  BY NowIs, RunsIs DEF UnityIInv, XServerExits
<1>2. Good(XServerStopped(Now, i))
  BY <1>1, XServerGone
<1> QED BY <1>2, BecomesGood DEF XServerExits

LEMMA StepMakeSession == ASSUME UnityIInv, MakeSession PROVE UnityIInv'
<1> DEFINE n == NextSession(Now)
<1>1. /\ Good(Now) /\ Now.seat.phase = "started" /\ ~Now.seat.stopping /\ ~Now.seat.stopped
      /\ n \in Sessions /\ Now.session[n].state = "none"
  <2>1. Runs /\ ~seat.stopping /\ Unused(Now) # {}
    BY Zenon DEF MakeSession
  <2>2. n \in Unused(Now)
    BY <2>1, NextIs
  <2> HIDE DEF n
  <2> QED BY <2>1, <2>2, NowIs, RunsIs DEF UnityIInv, Unused
<1> HIDE DEF n
<1>2. ASSUME NEW greeter \in BOOLEAN, NEW type \in {"x", "mir"}, NEW fails,
             Becomes(StartSession(Now, n, greeter, type, fails))
      PROVE  UnityIInv'
  <2>1. Good(StartSession(Now, n, greeter, type, fails))
    BY <1>1, MayMake, SessionStarts
  <2> QED BY <1>2, <2>1, BecomesGood
<1>3. ASSUME NEW g \in Present(Now), session[g].greeter, session[g].state = "running",
             session[g].display_server \in Sessions,
             Becomes([Now EXCEPT
               !.session[n] =
                  [NewSession EXCEPT !.state = "waiting", !.display_server = session[g].display_server],
               !.session[g].state = "stopping"])
      PROVE  UnityIInv'
  <2> DEFINE v == [Now EXCEPT
               !.session[n] =
                  [NewSession EXCEPT !.state = "waiting", !.display_server = session[g].display_server],
               !.session[g].state = "stopping"]
             w == OnServerOf(Now, g, n)
  <2>1. g \in Sessions /\ g # n /\ Now.session = session /\ session[g] = Now.session[g] /\ Now \in StateType
    BY <1>1, <1>3, NowIs DEF Present, Good, Core
  <2>2. v = w
    <3> DEFINE u == Now
               q == NewOn(session[g].display_server)
    <3>1. v = [u EXCEPT !.session[n] = q, !.session[g].state = "stopping"]
      BY Zenon DEF NewOn
    <3>2. w = SetSession(StopIn(u, {g}), n, q, u.seat)
      BY <2>1, Zenon DEF OnServerOf
    <3>3. u \in StateType
      BY <2>1
    <3> HIDE DEF u, q, v, w
    <3>4. StopIn(u, {g}) = [u EXCEPT !.session[g] = [u.session[g] EXCEPT !.state = "stopping"]]
      BY <2>1, <3>3 DEF StopIn, StateType
    <3> DEFINE p == [u.session[g] EXCEPT !.state = "stopping"]
    <3>5. v = [u EXCEPT !.session = [[u.session EXCEPT ![n] = q] EXCEPT ![g] = p]]
      BY <1>1, <2>1, <3>1, <3>3 DEF StateType
    <3>6. w = [u EXCEPT !.session = [[u.session EXCEPT ![g] = p] EXCEPT ![n] = q]]
      <4> HIDE DEF p
      <4> QED BY <3>2, <3>3, <3>4 DEF SetSession, StateType, p
    <3> HIDE DEF p
    <3>7. [[u.session EXCEPT ![n] = q] EXCEPT ![g] = p] = [[u.session EXCEPT ![g] = p] EXCEPT ![n] = q]
      BY <1>1, <2>1
    <3> QED BY <3>5, <3>6, <3>7
  <2>3. Good(w)
    <3>1. Now.session[g].state = "running" /\ Now.session[g].display_server \in Sessions
      BY <1>3, <2>1
    <3> QED BY <1>1, <2>1, <3>1, MakeOnGreeters
  <2>4. Becomes(v)
    BY <1>3, Zenon
  <2> HIDE DEF v, w
  <2> QED BY <2>2, <2>3, <2>4, BecomesGood
<1> QED BY <1>2, <1>3, Zenon DEF MakeSession, n

LEMMA StepRunSession == ASSUME UnityIInv, RunSession PROVE UnityIInv'
<1>1. PICK s \in Sessions :
        /\ Runs /\ session[s].state = "waiting" /\ ~seat.stopping
        /\ session[s].display_server # compositor =>
             \A t \in Present(Now) \ {s} : session[t].display_server # session[s].display_server
        /\ LET a == [Now EXCEPT !.session[s].state = "running"]
               b == IF session[s].display_server = compositor
                    THEN unity_system_compositor_connect_session(a, s) ELSE a
           IN  Becomes(seat_unity_set_active_session(b, s))
  BY Zenon DEF RunSession
<1> DEFINE w == seat_unity_set_active_session(Run(Now, s), s)
<1>2. Becomes(w)
  BY <1>1, NowIs, Zenon DEF Run
<1>3. /\ Good(Now) /\ Now.seat.phase = "started" /\ ~Now.seat.stopped /\ ~Now.seat.stopping
      /\ Now.session[s].state = "waiting"
      /\ Now.session[s].display_server # compositor =>
           \A t \in Present(Now) \ {s} : Now.session[t].display_server # Now.session[s].display_server
  BY <1>1, NowIs, RunsIs DEF UnityIInv
<1>4. Good(w)
  BY <1>3, RunGood
<1> HIDE DEF w
<1> QED BY <1>2, <1>4, BecomesGood

LEMMA StepShow == ASSUME UnityIInv, ShowSession PROVE UnityIInv'
<1>1. PICK s \in Sessions :
        Runs /\ session[s].state = "running" /\ Becomes(seat_unity_set_active_session(Now, s))
  BY DEF ShowSession
<1>2. Good(Now) /\ Now.seat.phase = "started" /\ Now.session[s].state = "running"
  BY <1>1, NowIs, RunsIs DEF UnityIInv
<1>3. Good(seat_unity_set_active_session(Now, s))
  BY <1>2, Shows
<1> QED BY <1>1, <1>3, BecomesGood

LEMMA StepMark == ASSUME UnityIInv, MarkNext PROVE UnityIInv'
<1>1. PICK s \in Sessions :
        Runs /\ session[s].state = "running" /\ Becomes(seat_unity_set_next_session(Now, s))
  BY DEF MarkNext
<1>2. Good(Now) /\ Now.session[s].state = "running"
  BY <1>1, NowIs DEF UnityIInv
<1>3. Good(seat_unity_set_next_session(Now, s))
  BY <1>2, Marks
<1> QED BY <1>1, <1>3, BecomesGood

LEMMA StepSessionEnds == ASSUME UnityIInv, NEW s \in Sessions, SessionEnds(s) PROVE UnityIInv'
<1> DEFINE a == End(Now, s)
           d == session[s].display_server
           v == seat_check_stopped(a)
           w == display_server_stop(a, {d})
<1>1. /\ Good(Now) /\ Now.seat.phase = "started" /\ Now.session[s].state \in {"running", "stopping"}
  BY NowIs, RunsIs DEF UnityIInv, SessionEnds
<1>2. \/ Now.seat.stopping /\ Becomes(v)
      \/ Becomes(a)
      \/ Becomes(w)
  BY NowIs, Zenon DEF SessionEnds, End
<1> HIDE DEF a
<1>3. Good(a) /\ Good(w) /\ (Now.seat.stopping => Good(v))
  BY <1>1, SessionGone DEF a
<1> HIDE DEF v, w
<1> QED BY <1>2, <1>3, BecomesGood

LEMMA StepStopSeat == ASSUME UnityIInv, StopSeat PROVE UnityIInv'
<1>1. Core(Now) /\ Says(Now) /\ Clean(Now) /\ Now.seat.phase = "started"
  BY RunsIs DEF UnityIInv, Good, StopSeat
<1>2. Good(seat_stop(Now))
  BY <1>1, SeatStop
<1> QED BY <1>2, BecomesGood DEF StopSeat

LEMMA StepGood == ASSUME UnityIInv, [UnityNext]_unityVars PROVE UnityIInv'
<1>1. CASE UnityNext
  <2>1. \/ seat_unity_start \/ WriteReady \/ ReadFromCompositor \/ Timeout \/ CompositorExits
        \/ XServerReady \/ (\E i \in XServers : XServerExits(i)) \/ MakeSession \/ RunSession \/ ShowSession \/ MarkNext
        \/ (\E s \in Sessions : SessionEnds(s)) \/ StopSeat
    BY <1>1, Zenon DEF UnityNext
  <2> QED BY <2>1, StepStart, StepWrite, StepRead, StepTimeout, StepCompositorExits, StepXServerReady,
             StepXServerExits, StepMakeSession, StepRunSession, StepShow, StepMark, StepSessionEnds, StepStopSeat
<1>2. CASE UNCHANGED unityVars
  BY <1>2, SameGood
<1> QED BY <1>1, <1>2

(***************************************************************************)
(* What holds of every behaviour                                           *)
(***************************************************************************)

(* The handlers of seat-unity.c, unity-system-compositor.c and             *)
(* x-server-xmir.c keep the parts of the invariant, whatever the number of *)
(* sessions and in whatever order READY, the timeout, the ends of the      *)
(* processes and the stop of the seat come.                                *)
THEOREM UnityInvariant == UnitySpec => []UnityIInv
<1>1. UnityInit => UnityIInv
  BY InitGood
<1>2. UnityIInv /\ [UnityNext]_unityVars => UnityIInv'
  BY StepGood
<1> QED BY <1>1, <1>2, PTL DEF UnitySpec

(* The compositor says READY and STOPPED at most once and in that order    *)
(* (read_cb, stopped_cb), and when the seat has said STOPPED               *)
(* (check_stopped of seat.c) no session is left and every process has      *)
(* ended or was told to.                                                   *)
THEOREM UnityTheorem == UnitySpec => []UnityInv
<1>1. UnityIInv => UnityInv
  <2> SUFFICES ASSUME UnityIInv PROVE UnityInv
    OBVIOUS
  <2>1. Says(Now) /\ Clean(Now) /\ Lives(Now) /\ Servers(Now)
    BY DEF UnityIInv, Good, Core
  <2>2. CompositorSaysOnce
    BY <2>1, NowIs DEF Says, CompositorSaysOnce
  <2>3. SeatStoppedClean
    <3> SUFFICES ASSUME seat.stopped, ~Excused
                 PROVE  /\ usc.process # "running"
                        /\ \A i \in XServers : xmir[i].state \in {"starting", "ready"} => xmir[i].stopping
                        /\ Present(Now) = {}
      BY DEF SeatStoppedClean
    <3>1. Now.seat.stopping /\ Now.seat.display_servers = {} /\ Present(Now) = {}
      BY <2>1, NowIs DEF Clean, Excused, ExcusedIn
    <3>2. usc.process # "running"
      BY <2>1, <3>1, NowIs DEF Lives
    <3>3. \A i \in Sessions : xmir[i].state \notin {"starting", "ready"}
      BY <2>1, <3>1, NowIs DEF Servers
    <3>4. xmir[XDMCP].state \in {"starting", "ready"} => xmir[XDMCP].stopping
      BY <2>1, <3>1, NowIs DEF Clean, Excused, ExcusedIn
    <3> QED BY <3>1, <3>2, <3>3, <3>4, Apart
  <2> QED BY <2>2, <2>3 DEF UnityInv
<1> QED BY <1>1, UnityInvariant, PTL

(* The compositor was last asked for the session the seat takes for the    *)
(* active one (seat_unity_set_active_session), and no other session that   *)
(* runs has its name: names are counted up, and two sessions share an X    *)
(* server only when one of them is ending.                                 *)
THEOREM ActiveTheorem == UnitySpec => []ActiveShown
<1>1. UnityIInv => ActiveShown
  <2> SUFFICES ASSUME UnityIInv, NEW a \in Sessions, seat.active_session = a, session[a].state = "running", seat.compositor
               PROVE  /\ shown.active = get_mir_id(Now, a)
                      /\ \A t \in Sessions \ {a} : session[t].state = "running" => get_mir_id(Now, t) # shown.active
    BY DEF ActiveShown
  <2>0. Now \in StateType /\ Hosted(Now) /\ Named(Now) /\ Active(Now)
    BY DEF UnityIInv, Good, Core
  <2>1. shown.active = get_mir_id(Now, a)
    BY <2>0, NowIs DEF Active
  <2>2. ASSUME NEW t \in Sessions \ {a}, session[t].state = "running" PROVE get_mir_id(Now, t) # get_mir_id(Now, a)
    <3> DEFINE u == Now
               D(s) == u.session[s].display_server
    <3>1. u \in StateType /\ Hosted(u) /\ Named(u)
      BY <2>0
    <3>2. u.session[t].state = "running" /\ u.session[a].state = "running"
      BY <2>2, NowIs
    <3> HIDE DEF u
    <3>3. ASSUME NEW s \in Sessions, u.session[s].state = "running"
          PROVE  \/ /\ D(s) = compositor /\ get_mir_id(u, s) = u.session[s].MIR_SERVER_NAME
                    /\ u.session[s].MIR_SERVER_NAME # NoId /\ get_mir_id(u, s) \in Given(u.usc)
                 \/ /\ D(s) \in Sessions /\ get_mir_id(u, s) = u.xmir[D(s)].mir_id
                    /\ u.xmir[D(s)].state # "none" /\ get_mir_id(u, s) \in Below("x", u.seat.next_x_server_id)
      <4>1. s # None /\ D(s) # None /\ u.session[s] \in SessionType
        BY <3>1, <3>3, Apart, Fields DEF Hosted
      <4>2. D(s) = compositor \/ D(s) \in Sessions
        BY <4>1 DEF SessionType
      <4>3. CASE D(s) = compositor
        BY <3>1, <3>3, <4>1, <4>3 DEF Named, get_mir_id
      <4>4. CASE D(s) \in Sessions
        <5>1. D(s) # compositor /\ D(s) \in XServers
          BY <4>4, Apart
        <5> QED BY <3>1, <4>1, <4>4, <5>1 DEF Named, Hosted, get_mir_id
      <4> QED BY <4>2, <4>3, <4>4
    <3>4. ASSUME NEW m PROVE ~(m \in Given(u.usc) /\ m \in Below("x", u.seat.next_x_server_id))
      <4>1. \A j, k : <<"x", j>> # <<"greeter", k>> /\ <<"x", j>> # <<"session", k>>
        OBVIOUS
      <4> QED BY <4>1 DEF Given, Below
    <3>5. CASE D(t) = compositor /\ D(a) = compositor
      <4>1. get_mir_id(u, t) = u.session[t].MIR_SERVER_NAME /\ get_mir_id(u, a) = u.session[a].MIR_SERVER_NAME
            /\ u.session[t].MIR_SERVER_NAME # NoId
        BY <3>2, <3>3, <3>5, Apart
      <4> QED BY <3>1, <4>1 DEF Named, u
    <3>6. CASE D(t) \in Sessions /\ D(a) \in Sessions
      <4>1. /\ get_mir_id(u, t) = u.xmir[D(t)].mir_id /\ get_mir_id(u, a) = u.xmir[D(a)].mir_id
            /\ u.xmir[D(t)].state # "none" /\ u.xmir[D(a)].state # "none"
        BY <3>2, <3>3, <3>6, Apart
      <4>2. D(t) # D(a)
        BY <3>1, <3>2, <3>6 DEF Hosted, PresentStates
      <4> QED BY <3>1, <3>6, <4>1, <4>2, Apart DEF Named, u
    <3>7. CASE D(t) = compositor /\ D(a) \in Sessions
      BY <3>2, <3>3, <3>4, <3>7, Apart DEF u
    <3>8. CASE D(t) \in Sessions /\ D(a) = compositor
      BY <3>2, <3>3, <3>4, <3>8, Apart DEF u
    <3> QED BY <3>2, <3>3, <3>5, <3>6, <3>7, <3>8
  <2> QED BY <2>1, <2>2
<1> QED BY <1>1, UnityInvariant, PTL
=============================================================================
