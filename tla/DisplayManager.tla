--------------------------- MODULE DisplayManager ---------------------------
(***************************************************************************)
(* The daemon above its seats: the list of seats (display-manager.c) and   *)
(* the callbacks of lightdm.c that add and remove seats as logind tells of *)
(* them, try the fallback types of a seat that went away, and shut the     *)
(* daemon down.  Login1 is the client of logind that calls them, and       *)
(* DisplayManagerService what the daemon offers on D-Bus.                  *)
(*                                                                         *)
(* A seat promises what seat.c does: seat_start succeeds or fails at once, *)
(* a seat may stop by itself when it fails, and one told to stop says      *)
(* STOPPED in the end, unless something is created on it meanwhile.        *)
(***************************************************************************)
EXTENDS Naturals, Sequences, SequencesExt

CONSTANTS
  Names,           \* names of logind seats
  Seat0,           \* the one whose failure ends the daemon
  XRemote,         \* the name of every seat that AddLocalXSeat adds
  CheckGraphical,  \* the option logind-check-graphical
  NTypes,          \* length of the "type" list of the configuration
  RemoteRequired   \* the sections for remote seats that give them exit-on-failure: of [Seat:*],
                   \* which is loaded as they come, and the ones that match their name, which
                   \* are loaded for their fallback types only

(* The daemon makes up the names of remote seats, none of them one of      *)
(* logind's.                                                               *)
ASSUME DMAssumption ==
  /\ IsFiniteSet(Names)
  /\ XRemote \notin Names \union {Seat0}
  /\ \A n \in Names : n \notin {"remote"} \X Nat
  /\ CheckGraphical \in BOOLEAN
  /\ NTypes \in Nat \ {0}
  /\ RemoteRequired \subseteq {"Seat:*", "name"}

VARIABLES
  required,        \* seats that the configuration gives exit-on-failure, as seat0 always has
  seats,           \* priv->seats, with what the daemon knows of each seat
  dm_stopping,     \* priv->stopping
  dm_stopped,      \* priv->stopped: STOPPED ends the main loop
  exit_failure,    \* exit_code = EXIT_FAILURE
  present,         \* the seats of the Login1Service
  graphical,       \* those whose can_graphical is TRUE
  remote_count,    \* remote seats so far (xdmcp_client_count, vnc_client_count)
  made,            \* number of seats started so far; a seat is known by its serial number
  failed           \* names whose last seat did not start, or stopped by itself

dmVars == <<required, seats, dm_stopping, dm_stopped, exit_failure, present, graphical, remote_count, made, failed>>

(* The names of XDMCP and VNC seats.                                       *)
RemoteName(k) == <<"remote", k>>

SeatNames == Names \union {Seat0, XRemote} \union {RemoteName(k) : k \in 1..remote_count}

(* types: how many entries of the "type" property are left.  waiting:      *)
(* lightdm.c has connected to STOPPED for the logind seat of that name.    *)
(* stale: it has for one that logind has removed since; the object lives   *)
(* on, because its subscription holds a reference, and this is its         *)
(* can_graphical.  late (history): something was created on the seat after *)
(* it had told everything to stop.                                         *)
SeatRecord == [serial : Nat, name : SeatNames, types : 1..NTypes, exit_on_failure : BOOLEAN,
               stopping : BOOLEAN, fault : BOOLEAN, waiting : BOOLEAN, stale : SUBSET BOOLEAN,
               late : BOOLEAN]

DMTypeOK ==
  /\ required \subseteq Names
  /\ seats \in Seq(SeatRecord)
  /\ {dm_stopping, dm_stopped, exit_failure} \subseteq BOOLEAN
  /\ present \subseteq Names
  /\ graphical \subseteq Names
  /\ remote_count \in Nat
  /\ made \in Nat
  /\ failed \subseteq Names

DMInit ==
  /\ required \in SUBSET Names
  /\ seats = <<>>
  /\ dm_stopping = FALSE /\ dm_stopped = FALSE /\ exit_failure = FALSE
  /\ present = {} /\ graphical = {}
  /\ remote_count = 0 /\ made = 0 /\ failed = {}

----------------------------------------------------------------------------
NamesIn(list) == {list[i].name : i \in 1..Len(list)}

(* display_manager_get_seat.                                               *)
has_seat(n) == n \in NamesIn(seats)

NewSeat(n, types, exit) ==
  [serial |-> made + 1, name |-> n, types |-> types, exit_on_failure |-> exit, stopping |-> FALSE,
   fault |-> FALSE, waiting |-> FALSE, stale |-> {}, late |-> FALSE]

(* seat_stop on every seat of the list that satisfies P.                   *)
StopSeats(list, P(_)) == [i \in 1..Len(list) |-> [list[i] EXCEPT !.stopping = @ \/ P(list[i])]]

(* display_manager_add_seat on top of a list: the lists it may leave.      *)
AddSeat(list, seat) == {list, Append(list, seat)}

(* The list as it is now; a step starts one seat at most.                  *)
Seats(list) ==
  /\ seats' = list
  /\ made' = IF \E i \in 1..Len(list) : list[i].serial > made THEN made + 1 ELSE made

Login1Seat(n) == NewSeat(n, NTypes, n = Seat0 \/ n \in required)

wanted(lit) == ~CheckGraphical \/ lit

(* Mutant of update_login1_seat: nothing is done about a seat that is      *)
(* stopping.                                                               *)
update_login1_seat_lost(list, n, lit, stopping) ==
  IF ~wanted(lit) THEN {StopSeats(list, LAMBDA s : s.name = n)}
  ELSE IF n \in NamesIn(list)
    THEN {list}
  ELSE IF stopping THEN {list}
  ELSE AddSeat(list, Login1Seat(n))

(* update_login1_seat for an object of logind seat n whose can_graphical   *)
(* is lit: the lists it may leave.  A seat that is stopping is waited for; *)
(* there is nothing to do for one that runs.                               *)
update_login1_seat(list, n, lit, stopping) ==
  IF ~wanted(lit) THEN {StopSeats(list, LAMBDA s : s.name = n)}
  ELSE IF n \in NamesIn(list)
    THEN {[i \in 1..Len(list) |->
             [list[i] EXCEPT !.waiting = @ \/ (list[i].name = n /\ list[i].stopping)]]}
  ELSE IF stopping THEN {list}
  ELSE AddSeat(list, Login1Seat(n))

(* A name is failed when an attempt to add a seat for it has just left it  *)
(* without one, and not failed once a seat has been started.               *)
Failures(n, list) == failed' = IF n \in NamesIn(list) THEN failed \ {n} ELSE failed \union {n}

----------------------------------------------------------------------------
(* logind                                                                  *)

Login1Update(n, lit) ==
  \E list \in update_login1_seat(seats, n, lit, dm_stopping) :
    /\ Seats(list)
    /\ IF wanted(lit) THEN Failures(n, list) ELSE UNCHANGED failed
    /\ UNCHANGED <<required, dm_stopping, dm_stopped, exit_failure, remote_count>>

CanGraphical(n, lit) == graphical' = IF lit THEN graphical \union {n} ELSE graphical \ {n}

login1_service_seat_added_cb(n, lit) ==
  /\ present' = present \union {n}
  /\ CanGraphical(n, lit)
  /\ Login1Update(n, lit)

(* The property of the seat's objects is now lit: of the current one,      *)
(* which emits CAN_GRAPHICAL_CHANGED whatever it was before, and of the    *)
(* ones that logind has removed.  lightdm.c listens only when              *)
(* logind-check-graphical is set.                                          *)
login1_can_graphical_changed_cb(n, lit, current) ==
  LET known == [i \in 1..Len(seats) |->
                  [seats[i] EXCEPT !.stale = IF seats[i].name = n /\ @ # {} THEN {lit} ELSE @]]
      lists == IF current /\ CheckGraphical THEN update_login1_seat(known, n, lit, dm_stopping) ELSE {known}
  IN /\ IF current THEN CanGraphical(n, lit) ELSE UNCHANGED graphical
     /\ \E list \in lists :
          /\ Seats(list)
          /\ IF current /\ CheckGraphical /\ lit THEN Failures(n, list) ELSE UNCHANGED failed
     /\ UNCHANGED <<required, dm_stopping, dm_stopped, exit_failure, present, remote_count>>

(* A handler that waits with the object stays connected.                   *)
login1_service_seat_removed_cb(n) ==
  /\ present' = present \ {n}
  /\ graphical' = graphical \ {n}
  /\ Seats([i \in 1..Len(seats) |->
       IF seats[i].name = n
         THEN [seats[i] EXCEPT !.stopping = TRUE, !.waiting = FALSE,
                               !.stale = IF seats[i].waiting THEN {n \in graphical} ELSE @]
         ELSE seats[i]])
  /\ UNCHANGED <<required, dm_stopping, dm_stopped, exit_failure, remote_count, failed>>

----------------------------------------------------------------------------
(* Seats                                                                   *)

(* set_seat_properties (seat, NULL): a remote seat has the types and       *)
(* exit-on-failure of [Seat:*].                                            *)
RemoteSeat(n) == NewSeat(n, NTypes, "Seat:*" \in RemoteRequired)

(* xdmcp_session_cb and vnc_connection_cb.                                 *)
add_remote_seat ==
  /\ ~dm_stopping
  /\ remote_count' = remote_count + 1
  /\ \E list \in AddSeat(seats, RemoteSeat(RemoteName(remote_count'))) : Seats(list)
  /\ UNCHANGED <<required, dm_stopping, dm_stopped, exit_failure, present, graphical, failed>>

(* service_add_xlocal_seat_cb.                                             *)
service_add_xlocal_seat_cb ==
  /\ ~dm_stopping
  /\ remote_count' = remote_count + 1
  /\ \E list \in AddSeat(seats, RemoteSeat(XRemote)) : Seats(list)
  /\ UNCHANGED <<required, dm_stopping, dm_stopped, exit_failure, present, graphical, failed>>

(* A seat fails and stops itself.                                          *)
SeatFails(i) ==
  /\ ~dm_stopped
  /\ ~seats[i].stopping
  /\ seats' = [seats EXCEPT ![i].stopping = TRUE, ![i].fault = TRUE]
  /\ UNCHANGED <<required, dm_stopping, dm_stopped, exit_failure, present, graphical, remote_count, made, failed>>

(* While it stops, a seat refuses nothing that it is asked on the bus      *)
(* (handle_seat_call), by its greeter or by a display server of its own    *)
(* that is ready: what is created then is told to stop by nobody, so that  *)
(* the seat may never say STOPPED (Seat, StoppingEnds; Unity, Excused).    *)
SeatAsked(i) ==
  /\ ~dm_stopped
  /\ seats[i].stopping
  /\ seats' = [seats EXCEPT ![i].late = TRUE]
  /\ UNCHANGED <<required, dm_stopping, dm_stopped, exit_failure, present, graphical, remote_count, made, failed>>

(* display_manager_seat_removed_cb: the next type of a seat that is gone,  *)
(* or the end of the daemon.  Whether the next seat starts is not looked   *)
(* at.  exit-on-failure is handed on, or comes from a section of its name. *)
FallbackSeat(seat) ==
  NewSeat(seat.name, seat.types - 1,
          seat.exit_on_failure \/ (seat.name \notin Names \union {Seat0} /\ "name" \in RemoteRequired))

seat_removed_cb(seat, list) ==
  IF seat.types > 1
    THEN {[list |-> l, quit |-> FALSE] : l \in AddSeat(list, FallbackSeat(seat))}
    ELSE {[list |-> list, quit |-> seat.exit_on_failure]}

(* Mutant of seat_stopped_cb: a seat is added without looking for the one  *)
(* of the next type.                                                       *)
seat_stopped_cb_adds(seat, list, stopping) ==
  IF seat.waiting /\ ~stopping THEN AddSeat(list, Login1Seat(seat.name)) ELSE {list}

(* The handlers of lightdm.c that waited for the seat, the one for an      *)
(* object that logind has removed first: an update with each.              *)
seat_stopped_cb(seat, list, stopping) ==
  LET after == IF seat.stale = {} THEN {list}
               ELSE UNION {update_login1_seat(list, seat.name, lit, stopping) : lit \in seat.stale}
  IN IF ~seat.waiting THEN after
     ELSE UNION {update_login1_seat(l, seat.name, seat.name \in graphical, stopping) : l \in after}

(* Mutant of check_stopped: the seat that has just stopped is still        *)
(* counted.                                                                *)
check_stopped_before(list, stopping) == dm_stopped' = (dm_stopped \/ (stopping /\ seats = <<>>))

check_stopped(list, stopping) == dm_stopped' = (dm_stopped \/ (stopping /\ list = <<>>))

(* A seat that is stopping says STOPPED.                                   *)
SeatStopped(i) ==
  LET seat == seats[i]
      rest == RemoveAt(seats, i)
  IN
  /\ ~dm_stopped
  /\ seat.stopping
  /\ \E r \in IF dm_stopping THEN {[list |-> rest, quit |-> FALSE]} ELSE seat_removed_cb(seat, rest) :
       LET quits == dm_stopping \/ r.quit
           left  == IF r.quit THEN StopSeats(r.list, LAMBDA s : TRUE) ELSE r.list
       IN
       /\ dm_stopping' = quits
       /\ exit_failure' = (exit_failure \/ r.quit)
       /\ \E list \in seat_stopped_cb(seat, left, quits) :
            /\ Seats(list)
            /\ check_stopped(list, quits)
            /\ IF seat.name \in Names /\ (seat.fault \/ seat.types > 1 \/ seat.waiting)
                 THEN Failures(seat.name, list) ELSE UNCHANGED failed
  /\ UNCHANGED <<required, present, graphical, remote_count>>

(* SIGTERM or SIGINT: display_manager_stop.                                *)
display_manager_stop ==
  /\ ~dm_stopping
  /\ dm_stopping' = TRUE
  /\ seats' = StopSeats(seats, LAMBDA s : TRUE)
  /\ check_stopped(seats, TRUE)
  /\ UNCHANGED <<required, exit_failure, present, graphical, remote_count, made, failed>>

----------------------------------------------------------------------------
(* Properties                                                              *)

(* A logind seat never has two seats, though one may be added while its    *)
(* predecessor is still stopping, by a fallback type or by logind.         *)
OneSeatPerName ==
  \A i, j \in 1..Len(seats) : seats[i].name = seats[j].name /\ seats[i].name \in Names => i = j

(* Once the daemon is stopping all its seats are, and it ends with none.   *)
ShutdownIsFinal ==
  /\ dm_stopping => \A i \in 1..Len(seats) : seats[i].stopping
  /\ dm_stopped => seats = <<>>

(* The daemon's list of seats is sound: see its parts.                     *)
DMInv == DMTypeOK /\ OneSeatPerName /\ ShutdownIsFinal

(* "exit-on-failure = True if the daemon should exit if this seat fails":  *)
(* when a required seat has failed and is gone, and no seat takes its      *)
(* place, the daemon ends.                                                 *)
RequiredSeatOrExit ==
  [][\A i \in 1..Len(seats) :
       seats[i].exit_on_failure /\ seats[i].fault /\ seats[i].name \notin NamesIn(seats')
         => dm_stopping']_dmVars
=============================================================================
