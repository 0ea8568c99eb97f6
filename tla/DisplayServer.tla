--------------------------- MODULE DisplayServer ---------------------------
(***************************************************************************)
(* What a display server promises to the seat that owns it                 *)
(* (src/src/display-server.c and the way seat.c uses it): once started it  *)
(* says READY at most once, says STOPPED exactly once and nothing          *)
(* afterwards, and it does say STOPPED once the seat has told it to stop.  *)
(***************************************************************************)
CONSTANT Servers

VARIABLES
  state,    \* what the seat has been told of the server
  told,     \* display_server_stop has been called: priv->stopping
  announced \* READY has been emitted: priv->is_ready

dsVars == <<state, told, announced>>

DSTypeOK ==
  /\ state \in [Servers -> {"new", "starting", "ready", "stopped"}]
  /\ told \in [Servers -> BOOLEAN]
  /\ announced \in [Servers -> BOOLEAN]

DSInit ==
  /\ state = [s \in Servers |-> "new"]
  /\ told = [s \in Servers |-> FALSE]
  /\ announced = [s \in Servers |-> FALSE]

Move(s, from, to) ==
  /\ state[s] \in from
  /\ state' = [state EXCEPT ![s] = to]

(* READY is emitted, for the first time.                                   *)
Announce(s) ==
  /\ ~announced[s]
  /\ announced' = [announced EXCEPT ![s] = TRUE]
  /\ UNCHANGED told

(* start returns TRUE: READY comes later, or came during the call.         *)
Start(s) == Move(s, {"new"}, "starting") /\ UNCHANGED <<told, announced>>
StartReady(s) == Move(s, {"new"}, "ready") /\ Announce(s)

(* start returns FALSE, after STOPPED.                                     *)
StartFails(s) == Move(s, {"new"}, "stopped") /\ UNCHANGED <<told, announced>>

Ready(s) == Move(s, {"starting"}, "ready") /\ Announce(s)

(* The server stops, asked or not.                                         *)
Stopped(s) == Move(s, {"starting", "ready"}, "stopped") /\ UNCHANGED <<told, announced>>

(* display_server_stop: STOPPED comes later, or during the call.           *)
Stop(s) ==
  /\ state[s] # "new"
  /\ ~told[s]
  /\ told' = [told EXCEPT ![s] = TRUE]
  /\ Move(s, {"ready"}, "stopped") \/ UNCHANGED state
  /\ UNCHANGED announced

DSNext ==
  \E s \in Servers :
    Start(s) \/ StartReady(s) \/ StartFails(s) \/ Ready(s) \/ Stopped(s) \/ Stop(s)

DSSafety == DSInit /\ [][DSNext]_dsVars

(* A server that was told to stop does stop.                               *)
DSStops == \A s \in Servers : told[s] ~> state[s] = "stopped"

DSSpec == DSSafety /\ DSStops
============================================================================
