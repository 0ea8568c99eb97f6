------------------------------ MODULE MCSeat ------------------------------
(* Instances of Seat.  Four sessions and four servers at one time are      *)
(* enough for a greeter, the session that replaces it, one that is still   *)
(* being authenticated and one that is on its way out, each on a server of *)
(* its own.  Every configuration asks for another part of the seat.        *)
EXTENDS Seat

(* A seat as it is installed, on which nothing happens.                    *)
Default ==
  [autologin |-> "none", background |-> FALSE, can_switch |-> TRUE, share |-> TRUE,
   allow_guest |-> FALSE, scripts |-> {}, resettable |-> FALSE, unknown_sessions |-> FALSE,
   faults |-> {}, asked |-> {}, stops |-> FALSE, vt_keys |-> FALSE, max_requests |-> 2,
   max_faults |-> 1]

(* Logins on a seat without user switching, with every script, where       *)
(* anything may fail and the seat may be stopped at any time.              *)
Logins ==
  [Default EXCEPT !.can_switch = FALSE, !.allow_guest = TRUE,
     !.scripts = {"display", "greeter", "session"}, !.faults = {"pipe", "fork", "server", "crash"},
     !.asked = {"login", "SwitchToGreeter"}, !.stops = TRUE, !.max_requests = 4]

(* Users switch while they log in.                                         *)
Switching ==
  [Default EXCEPT !.allow_guest = TRUE, !.faults = {"server"},
     !.asked = {"login", "SwitchToGreeter", "SwitchToUser", "SwitchToGuest"}]

(* Somebody leaves the automatic login and comes back to it.               *)
Returning ==
  [Default EXCEPT !.autologin = "alice", !.faults = {"server"}, !.asked = {"login", "SwitchToGreeter"},
     !.max_requests = 3]

(* Locking, with a greeter that can be shown again.                        *)
Locking ==
  [Default EXCEPT !.autologin = "alice", !.resettable = TRUE, !.asked = {"login", "Lock"},
     !.max_requests = 3, !.max_faults = 0]

(* The options that are seldom set.                                        *)
Options ==
  [Default EXCEPT !.autologin = "alice", !.background = TRUE, !.share = FALSE, !.allow_guest = TRUE,
     !.resettable = TRUE, !.unknown_sessions = TRUE, !.asked = {"login", "Lock"}, !.vt_keys = TRUE,
     !.max_faults = 0]

(* An orderly end, or one after a failure.                                 *)
Ending ==
  [Default EXCEPT !.can_switch = FALSE, !.allow_guest = TRUE, !.faults = {"pipe", "server", "crash"},
     !.asked = {"login", "SwitchToGreeter"}, !.stops = TRUE]

(* A request while the seat is being stopped.                              *)
AskedWhileStopping ==
  [Default EXCEPT !.asked = {"login", "SwitchToUser"}, !.stops = TRUE, !.max_requests = 1,
     !.max_faults = 0]

MCLoginAndSwitch == {Logins, Switching}
MCLockAndEnd == {Returning, Locking, Options, Ending}
MCAskedWhileStopping == {AskedWhileStopping}
===========================================================================
