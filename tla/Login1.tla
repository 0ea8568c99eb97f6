------------------------------- MODULE Login1 -------------------------------
(***************************************************************************)
(* The client of logind (login1.c) and how main (lightdm.c) uses it: the   *)
(* daemon subscribes to the signals of logind, asks for the list of seats, *)
(* and for each seat subscribes to its changes and asks for its            *)
(* properties.  The calls wait for their answers; what logind changes      *)
(* meanwhile is signalled, and handled in order once the main loop runs.   *)
(***************************************************************************)
EXTENDS DisplayManager

CONSTANTS
  NoName,        \* no seat
  MaxBus         \* bound: signals under way

ASSUME Login1Assumption == NoName \notin Names /\ MaxBus \in Nat

VARIABLES
  logind,        \* logind itself: each seat is absent, dark, or lit (CanGraphical)
  bus,           \* its signals, in order
  phase,         \* how far main has come
  connected,     \* priv->connected
  todo,          \* seats of the answer of ListSeats that main has still to deal with
  asking,        \* the seat whose properties are being asked for
  objects,       \* number of Login1Seats made for a name; all stay subscribed
  changes        \* number of changes so far

login1Vars == <<logind, bus, phase, connected, todo, asking, objects, changes>>

Login1Init ==
  /\ logind \in [Names -> {"absent", "dark", "lit"}]
  /\ bus = <<>>
  /\ phase = "connect" /\ connected = FALSE
  /\ todo = <<>> /\ asking = NoName
  /\ objects = [n \in Names |-> 0]
  /\ changes = 0

(* The main loop runs and no call is waited for.                           *)
Idle == phase = "running" /\ asking = NoName /\ ~dm_stopped

Lit(n) == logind[n] = "lit"

----------------------------------------------------------------------------
(* logind *)

(* Mutant of Subscribed: the signals are subscribed to after the list of   *)
(* seats was asked for.                                                    *)
Subscribed_late == phase \in {"seats", "running"}

Subscribed == phase # "connect"

Logind(n, state, signals) ==
  /\ changes' = changes + 1
  /\ Len(bus \o signals) <= MaxBus
  /\ logind' = [logind EXCEPT ![n] = state]
  /\ bus' = bus \o signals
  /\ UNCHANGED <<phase, connected, todo, asking, objects>>
  /\ UNCHANGED dmVars

LogindAdds(n, state) ==
  /\ logind[n] = "absent"
  /\ Logind(n, state, IF Subscribed THEN <<[t |-> "SeatNew", seat |-> n]>> ELSE <<>>)

LogindRemoves(n) ==
  /\ logind[n] # "absent"
  /\ Logind(n, "absent", IF Subscribed THEN <<[t |-> "SeatRemoved", seat |-> n]>> ELSE <<>>)

(* CanGraphical changes: the signal has the value, or only says that the   *)
(* old one is no longer good.  It goes to the objects there are now.       *)
LogindChanges(n, valid) ==
  LET state == IF Lit(n) THEN "dark" ELSE "lit" IN
  /\ logind[n] # "absent"
  /\ Logind(n, state,
            IF objects[n] = 0 THEN <<>>
            ELSE <<[t |-> "PropertiesChanged", seat |-> n, valid |-> valid,
                    lit |-> (valid /\ state = "lit"), to |-> objects[n]]>>)

----------------------------------------------------------------------------
(* Starting *)

(* login1_service_connect: subscribe, then ListSeats.  Without a bus, or   *)
(* without an answer, there is the default seat.                           *)
login1_service_connect(ok) ==
  /\ \/ /\ phase = "connect"
        /\ phase' = IF ok THEN "list" ELSE "default"
        /\ UNCHANGED todo
     \/ /\ phase = "list"
        /\ phase' = IF ok THEN "properties" ELSE "default"
        /\ todo' \in IF ok THEN SetToSeqs({n \in Names : logind[n] # "absent"}) ELSE {todo}
  /\ UNCHANGED <<logind, bus, connected, asking, objects, changes>>
  /\ UNCHANGED dmVars

(* add_seat: subscribe to the seat, then GetAll.                           *)
add_seat(n) == asking' = n /\ objects' = [objects EXCEPT ![n] = @ + 1]

(* The seats of the list are added one after the other; then main runs     *)
(* through them.                                                           *)
add_listed_seat ==
  LET left == {i \in 1..Len(todo) : todo[i] \notin present} IN
  /\ phase = "properties" /\ asking = NoName
  /\ \/ /\ left = {}
        /\ phase' = "seats" /\ connected' = TRUE
        /\ UNCHANGED <<asking, objects>>
     \/ /\ \E i \in left : (\A j \in left : i <= j) /\ add_seat(todo[i])
        /\ UNCHANGED <<phase, connected>>
  /\ UNCHANGED <<logind, bus, todo, changes>>
  /\ UNCHANGED dmVars

(* The answer to GetAll, an error if the seat is gone: can_graphical stays *)
(* FALSE.                                                                  *)
GetAll ==
  /\ asking # NoName
  /\ asking' = NoName
  /\ IF phase = "running"
       THEN login1_service_seat_added_cb(asking, Lit(asking))
       ELSE /\ present' = present \union {asking}
            /\ CanGraphical(asking, Lit(asking))
            /\ UNCHANGED <<required, seats, dm_stopping, dm_stopped, exit_failure, remote_count, made, failed>>
  /\ UNCHANGED <<logind, bus, phase, connected, todo, objects, changes>>

(* main: login1_add_seat for every seat; if one does not start, main       *)
(* returns, and leaves the ones that have as they are.                     *)
main_add_seats ==
  /\ phase = "seats"
  /\ IF todo = <<>>
       THEN /\ phase' = "running"
            /\ UNCHANGED todo
            /\ UNCHANGED dmVars
       ELSE /\ todo' = Tail(todo)
            /\ Login1Update(Head(todo), Head(todo) \in graphical)
            /\ phase' = IF Head(todo) \in failed' THEN "exited" ELSE phase
            /\ UNCHANGED <<present, graphical>>
  /\ UNCHANGED <<logind, bus, connected, asking, objects, changes>>

(* main, without logind.                                                   *)
main_add_default_seat ==
  /\ phase = "default"
  /\ \E list \in AddSeat(seats, Login1Seat(Seat0)) :
       /\ Seats(list)
       /\ phase' = IF list = seats THEN "exited" ELSE "running"
  /\ UNCHANGED <<logind, bus, connected, todo, asking, objects, changes>>
  /\ UNCHANGED <<required, dm_stopping, dm_stopped, exit_failure, present, graphical, remote_count, failed>>

----------------------------------------------------------------------------
(* Signals, for which lightdm.c has handlers when connected.               *)

Next1(m) == bus # <<>> /\ Head(bus).t = m /\ Idle /\ connected /\ bus' = Tail(bus)

SignalSeatNew ==
  /\ Next1("SeatNew")
  /\ IF Head(bus).seat \in present THEN UNCHANGED <<asking, objects>> ELSE add_seat(Head(bus).seat)
  /\ UNCHANGED <<logind, phase, connected, todo, changes>>
  /\ UNCHANGED dmVars

SignalSeatRemoved ==
  /\ Next1("SeatRemoved")
  /\ IF Head(bus).seat \in present THEN login1_service_seat_removed_cb(Head(bus).seat)
                                   ELSE UNCHANGED dmVars
  /\ UNCHANGED <<logind, phase, connected, todo, asking, objects, changes>>

(* seat_properties_changed_cb and update_property.  A property that is no  *)
(* longer good is asked for, in vain if the seat is gone.                  *)
seat_properties_changed_cb ==
  LET m == Head(bus) IN
  /\ Next1("PropertiesChanged")
  /\ IF ~m.valid /\ logind[m.seat] = "absent"
       THEN UNCHANGED dmVars
       ELSE login1_can_graphical_changed_cb(m.seat, IF m.valid THEN m.lit ELSE Lit(m.seat),
                                            m.seat \in present /\ m.to = objects[m.seat])
  /\ UNCHANGED <<logind, phase, connected, todo, asking, objects, changes>>

LogindNext ==
  \E n \in Names :
    \/ \E state \in {"dark", "lit"} : LogindAdds(n, state)
    \/ LogindRemoves(n)
    \/ \E valid \in BOOLEAN : LogindChanges(n, valid)

Login1Next ==
  \/ \E ok \in BOOLEAN : login1_service_connect(ok)
  \/ add_listed_seat
  \/ GetAll
  \/ main_add_seats
  \/ main_add_default_seat
  \/ SignalSeatNew
  \/ SignalSeatRemoved
  \/ seat_properties_changed_cb

----------------------------------------------------------------------------
(* Properties                                                              *)

(* However the changes of logind fall between the calls of the start, once *)
(* its signals are handled the daemon knows its seats, and which of them   *)
(* are graphical.                                                          *)
LogindFollowed ==
  Idle /\ connected /\ bus = <<>> =>
    /\ present = {n \in Names : logind[n] # "absent"}
    /\ graphical = {n \in Names : Lit(n)}

(* A seat that logind offers is not forgotten: it has a running seat, or   *)
(* one that is awaited, or one that has failed.                            *)
OfferedIsServed ==
  phase = "running" /\ ~dm_stopping =>
    \A n \in present : wanted(n \in graphical) =>
      \/ n \in failed
      \/ \E i \in 1..Len(seats) :
           seats[i].name = n /\ (~seats[i].stopping \/ seats[i].waiting \/ seats[i].fault)
=============================================================================
