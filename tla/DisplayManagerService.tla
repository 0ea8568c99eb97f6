----------------------- MODULE DisplayManagerService -----------------------
(***************************************************************************)
(* What the daemon offers on D-Bus (display-manager-service.c): an object  *)
(* for every seat and for every user session, with paths that are counted  *)
(* up.  The name on the bus is acquired when the main loop runs, so there  *)
(* may be seats and sessions already.  The user sessions of a seat are     *)
(* seat.c's: they run, also on a seat that was asked for one while it was  *)
(* stopping, and their end is told of unless the seat is being stopped.    *)
(***************************************************************************)
EXTENDS Login1

CONSTANTS
  MaxEvents,       \* bound: changes of logind, remote seats and user sessions in all
  MaxRemote,       \* bound: remote seats
  MaxSessions      \* bound: user sessions

ASSUME ServiceAssumption == {MaxEvents, MaxRemote, MaxSessions} \subseteq Nat

VARIABLES
  acquired,          \* the objects are on the bus
  seat_entries,      \* seat_bus_entries: serial number of the seat -> path
  session_entries,   \* session_bus_entries: session -> its path and that of its seat
  seat_index,        \* number of the next seat
  session_index,     \* number of the next session
  user_sessions      \* the user sessions so far: the serial number of the seat, whether the
                     \* session runs, and whether its seat had an object when it began

serviceVars == <<acquired, seat_entries, session_entries, seat_index, session_index, user_sessions>>

vars == <<dmVars, login1Vars, serviceVars>>

ServiceInit ==
  /\ acquired = FALSE
  /\ seat_entries = <<>> /\ session_entries = <<>>
  /\ seat_index = 0 /\ session_index = 0
  /\ user_sessions = <<>>

Serials(list) == {list[i].serial : i \in 1..Len(list)}
Without(f, S) == [x \in DOMAIN f \ S |-> f[x]]
With(f, x, v) == [y \in DOMAIN f \union {x} |-> IF y = x THEN v ELSE f[y]]

----------------------------------------------------------------------------
(* Seats *)

seat_added_cb(state, serial) ==
  [entries |-> With(state.entries, serial, state.index), index |-> state.index + 1]

service_seat_removed_cb(entries, S) == Without(entries, S)

(* The signals of the display manager in a step that leaves list: SEAT_    *)
(* ADDED of the seat that was started, if one was, and SEAT_REMOVED unless *)
(* the daemon is stopping.                                                 *)
SeatsTold(list) ==
  LET state == [entries |-> seat_entries, index |-> seat_index]
      s == IF made' = made THEN state ELSE seat_added_cb(state, made')
  IN IF ~acquired
       THEN UNCHANGED <<seat_entries, seat_index>>
       ELSE /\ seat_index' = s.index
            /\ seat_entries' = IF dm_stopping THEN s.entries
                               ELSE service_seat_removed_cb(s.entries, Serials(seats) \ Serials(list))

(* A step of the daemon that has to do with its seats.                     *)
Daemon(A) ==
  /\ A
  /\ SeatsTold(seats')
  /\ UNCHANGED <<acquired, session_entries, session_index, user_sessions>>

(* start_display_manager: the servers for remote seats are started, unless *)
(* the XDMCP server has no key.                                            *)
start_display_manager(key) ==
  IF key THEN UNCHANGED dmVars
  ELSE /\ dm_stopping' = TRUE
       /\ exit_failure' = TRUE
       /\ Seats(StopSeats(seats, LAMBDA s : TRUE))
       /\ check_stopped(seats, TRUE)
       /\ UNCHANGED <<required, present, graphical, remote_count, failed>>

(* Mutant of bus_acquired_cb: the seats there are already get no object.   *)
bus_acquired_cb_later(key) ==
  /\ Idle /\ ~acquired
  /\ acquired' = TRUE
  /\ start_display_manager(key)
  /\ UNCHANGED <<seat_entries, seat_index, session_entries, session_index, user_sessions>>
  /\ UNCHANGED login1Vars

(* Objects for the seats there are, numbered in the order of the list,     *)
(* then READY.                                                             *)
bus_acquired_cb(key) ==
  LET place(serial) == CHOOSE i \in 1..Len(seats) : seats[i].serial = serial IN
  /\ Idle /\ ~acquired
  /\ acquired' = TRUE
  /\ seat_entries' = [serial \in Serials(seats) |-> place(serial) - 1]
  /\ seat_index' = Len(seats)
  /\ start_display_manager(key)
  /\ UNCHANGED <<session_entries, session_index, user_sessions>>
  /\ UNCHANGED login1Vars

(* The name can not be had: the process exits.  (If the bus goes away      *)
(* later, it exits whatever it is doing.)                                  *)
name_lost_cb ==
  /\ Idle /\ ~acquired
  /\ phase' = "exited"
  /\ UNCHANGED <<logind, bus, connected, todo, asking, objects, changes>>
  /\ UNCHANGED <<dmVars, serviceVars>>

----------------------------------------------------------------------------
(* User sessions *)

(* RUNNING_USER_SESSION of a seat that has its object; before that nobody  *)
(* listens.                                                                *)
running_user_session_cb(s, serial) ==
  IF serial \in DOMAIN seat_entries
    THEN /\ session_entries' = With(session_entries, s,
                                    [path |-> session_index, seat_path |-> seat_entries[serial]])
         /\ session_index' = session_index + 1
    ELSE UNCHANGED <<session_entries, session_index>>

SessionRuns(i) ==
  LET serial == seats[i].serial IN
  /\ Idle
  /\ seats[i].stopping => seats[i].late
  /\ user_sessions' = Append(user_sessions, [seat |-> serial, runs |-> TRUE,
                                             seen |-> serial \in DOMAIN seat_entries])
  /\ running_user_session_cb(Len(user_sessions'), serial)
  /\ UNCHANGED <<acquired, seat_entries, seat_index>>
  /\ UNCHANGED <<dmVars, login1Vars>>

Runs(s) == s \in DOMAIN user_sessions /\ user_sessions[s].runs
SeatOf(s) == {i \in 1..Len(seats) : seats[i].serial = user_sessions[s].seat}

(* get_seat_for_session: the seats that have the session in their list.    *)
get_seat_for_session(s) == {i \in SeatOf(s) : Runs(s)}

session_removed_cb(s) == session_entries' = Without(session_entries, {s})

(* seat.c's session_stopped_cb: there is no SESSION_REMOVED when the seat  *)
(* is stopping.                                                            *)
SessionEnds(s) ==
  /\ Idle /\ Runs(s)
  /\ user_sessions' = [user_sessions EXCEPT ![s].runs = FALSE]
  /\ IF \E i \in SeatOf(s) : seats[i].stopping THEN UNCHANGED session_entries
                                              ELSE session_removed_cb(s)
  /\ UNCHANGED <<acquired, seat_entries, seat_index, session_index>>
  /\ UNCHANGED <<dmVars, login1Vars>>

----------------------------------------------------------------------------
(* A seat stops when its sessions have ended.                              *)
SeatStops(i) ==
  /\ \A s \in DOMAIN user_sessions : Runs(s) => user_sessions[s].seat # seats[i].serial
  /\ SeatStopped(i)

(* AddLocalXSeat.                                                          *)
handle_display_manager_call == acquired /\ service_add_xlocal_seat_cb

DaemonNext ==
  \/ \E i \in 1..Len(seats) : SeatFails(i) \/ SeatAsked(i) \/ SeatStops(i)
  \/ display_manager_stop

(* Remote seats come once READY has started their servers.                 *)
RemoteNext ==
  \/ acquired /\ add_remote_seat
  \/ handle_display_manager_call

Room == changes + remote_count + Len(user_sessions) < MaxEvents

DMNext ==
  \/ Room /\ Daemon(LogindNext)
  \/ Daemon(Login1Next)
  \/ Daemon(Idle /\ DaemonNext /\ UNCHANGED login1Vars)
  \/ Room /\ remote_count < MaxRemote /\ Daemon(Idle /\ RemoteNext /\ UNCHANGED login1Vars)
  \/ \E key \in BOOLEAN : bus_acquired_cb(key)
  \/ name_lost_cb
  \/ Room /\ Len(user_sessions) < MaxSessions /\ \E i \in 1..Len(seats) : SessionRuns(i)
  \/ \E s \in DOMAIN user_sessions : SessionEnds(s)

DMInit0 == DMInit /\ Login1Init /\ ServiceInit

DMSafety == DMInit0 /\ [][DMNext]_vars

(* A seat that is being stopped and on which nothing has been created      *)
(* since.                                                                  *)
JustStops(i) == seats[i].stopping /\ ~seats[i].late

(* Its sessions end, and the seat then stops; logind answers.              *)
DMSpec ==
  /\ DMSafety
  /\ WF_vars(\E i \in 1..Len(seats) :
               JustStops(i) /\ Daemon(Idle /\ SeatStops(i) /\ UNCHANGED login1Vars))
  /\ WF_vars(\E s \in DOMAIN user_sessions :
               (\E i \in SeatOf(s) : JustStops(i)) /\ SessionEnds(s))
  /\ WF_vars(Daemon(GetAll))

----------------------------------------------------------------------------
(* Properties                                                              *)

(* Until the daemon is stopping the objects on the bus are those of its    *)
(* seats; no two share a path, not even with a seat of the past that the   *)
(* object of a session still names.  A session that began on a seat with   *)
(* an object has one, which names that seat, and its seat can be found     *)
(* when the session is to be locked.                                       *)
BusShowsSeats ==
  /\ acquired /\ ~dm_stopping => DOMAIN seat_entries = Serials(seats)
  /\ \A x, y \in DOMAIN seat_entries : seat_entries[x] = seat_entries[y] => x = y
  /\ \A s \in DOMAIN session_entries, x \in DOMAIN seat_entries :
       session_entries[s].seat_path = seat_entries[x] <=> user_sessions[s].seat = x
  /\ \A s \in DOMAIN user_sessions : Runs(s) /\ user_sessions[s].seen =>
       s \in DOMAIN session_entries /\ get_seat_for_session(s) # {}

(* A shutdown comes to its end, unless the process exits before or nothing *)
(* is left but seats on which something was created after they had been    *)
(* told to stop: those may hold it up for ever, and no other seat does.    *)
DMStops ==
  dm_stopping ~> \/ dm_stopped \/ phase = "exited"
                 \/ seats # <<>> /\ \A i \in 1..Len(seats) : seats[i].late

(* "TRUE if the user is currently logged in": the sessions on the bus, by  *)
(* which a user is told to be logged in, are sessions that run.            *)
OfferedSessionsRun == ~dm_stopping => \A s \in DOMAIN session_entries : Runs(s)
============================================================================
