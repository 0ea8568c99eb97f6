---------------------------- MODULE XServerLocal ----------------------------
(***************************************************************************)
(* The display servers of local seats: X servers run as children           *)
(* (x-server-local.c, x-server.c), Wayland sessions (wayland-session.c),   *)
(* the base class (display-server.c), and the two resources they hold: a   *)
(* virtual terminal (vt.c) and a display number.  The seat that creates,   *)
(* starts and stops them (seat-local.c) is an environment here; so are the *)
(* user who changes virtual terminal, X servers the daemon knows nothing   *)
(* of, and the boot splash (plymouth.c).                                   *)
(*                                                                         *)
(* An X server's Process object is the element of Procs of the same name.  *)
(* The other elements of Procs are the seat's blocking scripts.            *)
(***************************************************************************)
EXTENDS Process

CONSTANTS
  Servers,        \* DisplayServer objects
  VTs,            \* virtual terminals from minimum-vt on
  DisplayNumbers, \* display numbers from minimum-display-number on
  ForeignNumbers  \* bound: the numbers X servers that are not ours may use

ASSUME XServerAssumption ==
  /\ Servers \subseteq Procs
  /\ VTs \subseteq Nat \ {0}
  /\ DisplayNumbers \subseteq Nat
  /\ ForeignNumbers \subseteq DisplayNumbers

NoVT == 0

VARIABLES
  kind,            \* the object: not made yet, its class, or finalized
  vt,              \* priv->vt, or NoVT
  have_vt_ref,     \* priv->have_vt_ref
  used_vts,        \* how often each VT is in the list used_vts
  number,          \* priv->display_number
  display_numbers, \* how often each number is in the list display_numbers
  foreign,         \* numbers with a lock file of a live X server that is not ours
  authority_file,  \* priv->authority_file # NULL
  disk,            \* disk[n]: the server whose cookie the file :n holds, or None
  got_signal,      \* priv->got_signal
  is_ready,        \* priv->is_ready: READY has been emitted
  ds_stopping,     \* priv->stopping of the base class
  ds_stopped,      \* STOPPED signals emitted
  plymouth,        \* plymouth.c's is_running and is_active
  transition       \* the server that takes over from the boot splash

serverVars == <<kind, vt, have_vt_ref, used_vts, number, display_numbers, foreign,
                authority_file, disk, got_signal, is_ready, ds_stopping,
                ds_stopped, plymouth, transition>>
xVars == <<procVars, serverVars>>

XTypeOK ==
  /\ ProcTypeOK
  /\ kind \in [Servers -> {"none", "x", "wayland", "gone"}]
  /\ vt \in [Servers -> VTs \union {NoVT}]
  /\ have_vt_ref \in [Servers -> BOOLEAN]
  /\ used_vts \in [VTs -> Nat]
  /\ number \in [Servers -> DisplayNumbers \union {None}]
  /\ display_numbers \in [DisplayNumbers -> Nat]
  /\ foreign \subseteq DisplayNumbers
  /\ authority_file \in [Servers -> BOOLEAN]
  /\ disk \in [DisplayNumbers -> Servers \union {None}]
  /\ got_signal \in [Servers -> BOOLEAN]
  /\ is_ready \in [Servers -> BOOLEAN]
  /\ ds_stopping \in [Servers -> BOOLEAN]
  /\ ds_stopped \in [Servers -> Nat]
  /\ plymouth \in [is_running : BOOLEAN, is_active : BOOLEAN]
  /\ transition \in Servers \union {None}

XInit ==
  /\ ProcInit
  /\ kind = [s \in Servers |-> "none"]
  /\ vt = [s \in Servers |-> NoVT]
  /\ have_vt_ref = [s \in Servers |-> FALSE]
  /\ used_vts = [v \in VTs |-> 0]
  /\ number = [s \in Servers |-> None]
  /\ display_numbers = [n \in DisplayNumbers |-> 0]
  /\ foreign = {}
  /\ authority_file = [s \in Servers |-> FALSE]
  /\ disk = [n \in DisplayNumbers |-> None]
  /\ got_signal = [s \in Servers |-> FALSE]
  /\ is_ready = [s \in Servers |-> FALSE]
  /\ ds_stopping = [s \in Servers |-> FALSE]
  /\ ds_stopped = [s \in Servers |-> 0]
  /\ \E b \in BOOLEAN : plymouth = [is_running |-> b, is_active |-> b]
  /\ transition = None

----------------------------------------------------------------------------
(* Virtual terminals and display numbers                                   *)

vt_ref(v) == used_vts' = [used_vts EXCEPT ![v] = @ + 1]
vt_unref(v) == used_vts' = [used_vts EXCEPT ![v] = IF @ > 0 THEN @ - 1 ELSE 0]

(* vt_get_unused: the first VT from minimum-vt on that is not in the list. *)
vt_get_unused(v) == used_vts[v] = 0 /\ \A w \in VTs : w < v => used_vts[w] > 0

display_number_in_use(n) == display_numbers[n] > 0 \/ n \in foreign

get_unused_display_number(n) ==
  /\ ~display_number_in_use(n)
  /\ \A m \in DisplayNumbers : m < n => display_number_in_use(m)
  /\ display_numbers' = [display_numbers EXCEPT ![n] = @ + 1]

release_display_number(n) ==
  display_numbers' = [display_numbers EXCEPT ![n] = IF @ > 0 THEN @ - 1 ELSE 0]

plymouth_get_is_active == plymouth.is_running /\ plymouth.is_active
plymouth_quit == plymouth' = [plymouth EXCEPT !.is_running = FALSE]

(* get_vt and the set_vt of the server.  Only seat0 has VTs.  The server   *)
(* takes the VT of a boot splash that shows there (any VT, the active one  *)
(* when lightdm asks); otherwise the splash is quit and the first unused   *)
(* VT taken.                                                               *)
get_vt(s) ==
  \/ /\ UNCHANGED <<vt, have_vt_ref, used_vts, plymouth, transition>>     \* not seat0
  \/ \E v \in VTs :
       /\ \/ /\ plymouth_get_is_active
             /\ plymouth' = [plymouth EXCEPT !.is_active = FALSE]
             /\ transition' = s
          \/ /\ plymouth_get_is_active
             /\ plymouth_quit
             /\ vt_get_unused(v)
             /\ UNCHANGED transition
          \/ /\ ~plymouth_get_is_active
             /\ vt_get_unused(v)
             /\ UNCHANGED <<plymouth, transition>>
       /\ vt_ref(v)
       /\ vt' = [vt EXCEPT ![s] = v]
       /\ have_vt_ref' = [have_vt_ref EXCEPT ![s] = TRUE]

----------------------------------------------------------------------------
(* Creating and starting                                                   *)

(* create_x_server: x_server_local_init takes a number, then the VT is set. *)
create_x_server(s) ==
  /\ blocked = None
  /\ kind[s] = "none"
  /\ kind' = [kind EXCEPT ![s] = "x"]
  /\ \E n \in DisplayNumbers :
       get_unused_display_number(n) /\ number' = [number EXCEPT ![s] = n]
  /\ get_vt(s)
  /\ UNCHANGED <<procVars, foreign, authority_file, disk, got_signal, is_ready, ds_stopping, ds_stopped>>

create_wayland_session(s) ==
  /\ blocked = None
  /\ kind[s] = "none"
  /\ kind' = [kind EXCEPT ![s] = "wayland"]
  /\ get_vt(s)
  /\ UNCHANGED <<procVars, number, display_numbers, foreign, authority_file, disk, got_signal,
                 is_ready, ds_stopping, ds_stopped>>

(* STOPPED is emitted: the handler of get_vt quits a splash that was not   *)
(* handed over.                                                            *)
emit_stopped(s) ==
  /\ ds_stopped' = [ds_stopped EXCEPT ![s] = @ + 1]
  /\ IF transition = s /\ plymouth.is_running THEN plymouth_quit ELSE UNCHANGED plymouth
  /\ transition' = IF transition = s THEN None ELSE transition

(* READY is emitted: the handler of get_vt quits the splash.               *)
emit_ready(s) ==
  /\ is_ready' = [is_ready EXCEPT ![s] = TRUE]
  /\ IF transition = s THEN plymouth_quit ELSE UNCHANGED plymouth
  /\ UNCHANGED transition

(* Mutant of stopped_cb: the display number is not released.               *)
stopped_cb_number(s) ==
  /\ IF have_vt_ref[s] THEN vt_unref(vt[s]) ELSE UNCHANGED used_vts
  /\ have_vt_ref' = [have_vt_ref EXCEPT ![s] = FALSE]
  /\ UNCHANGED display_numbers
  /\ disk' = [disk EXCEPT ![number[s]] = IF authority_file[s] THEN None ELSE @]
  /\ authority_file' = [authority_file EXCEPT ![s] = FALSE]
  /\ emit_stopped(s)
  /\ UNCHANGED <<kind, vt, number, foreign, got_signal, is_ready, ds_stopping>>

(* stopped_cb: everything the server holds is given back.                  *)
stopped_cb(s) ==
  /\ IF have_vt_ref[s] THEN vt_unref(vt[s]) ELSE UNCHANGED used_vts
  /\ have_vt_ref' = [have_vt_ref EXCEPT ![s] = FALSE]
  /\ release_display_number(number[s])
  /\ disk' = [disk EXCEPT ![number[s]] = IF authority_file[s] THEN None ELSE @]
  /\ authority_file' = [authority_file EXCEPT ![s] = FALSE]
  /\ emit_stopped(s)
  /\ UNCHANGED <<kind, vt, number, foreign, got_signal, is_ready, ds_stopping>>

x_server_local_start(s) ==
  /\ kind[s] = "x"
  /\ process_start(s)
  /\ authority_file' = [authority_file EXCEPT ![s] = TRUE]
  /\ disk' = [disk EXCEPT ![number[s]] = s]
  /\ UNCHANGED <<kind, vt, have_vt_ref, used_vts, number, display_numbers, foreign, got_signal,
                 is_ready, ds_stopping, ds_stopped, plymouth, transition>>

(* The command is not found, or the fork fails: STOPPED before FALSE is    *)
(* returned.  The authority file of the second case is unlinked again.     *)
x_server_local_start_fails(s) == kind[s] = "x" /\ process_start_fails(s) /\ stopped_cb(s)

(* display_server_real_start for a Wayland session: ready at once.         *)
wayland_start(s) ==
  /\ blocked = None
  /\ kind[s] = "wayland" /\ ~is_ready[s]
  /\ emit_ready(s)
  /\ UNCHANGED <<procVars, kind, vt, have_vt_ref, used_vts, number, display_numbers, foreign,
                 authority_file, disk, got_signal, ds_stopping, ds_stopped>>

(* got_signal_cb, for SIGUSR1 delivered by handle_signal.  Only the first  *)
(* counts.  When the connection fails the result is ignored and the server *)
(* stays up without ever being ready.                                      *)
got_signal_cb ==
  /\ handle_signal
  /\ LET s == SignalTarget IN
     IF s \in Servers /\ ~got_signal[s]
       THEN /\ got_signal' = [got_signal EXCEPT ![s] = TRUE]
            /\ \/ emit_ready(s)
               \/ UNCHANGED <<is_ready, plymouth, transition>>
       ELSE UNCHANGED <<got_signal, is_ready, plymouth, transition>>
  /\ UNCHANGED <<kind, vt, have_vt_ref, used_vts, number, display_numbers, foreign, authority_file,
                 disk, ds_stopping, ds_stopped>>

----------------------------------------------------------------------------
(* Stopping                                                                *)

started(s) == kind[s] \in {"x", "wayland"} /\ (child[s] # "none" \/ is_ready[s])

(* display_server_stop, called by the seat on a server it has started.     *)
display_server_stop(s) ==
  /\ blocked = None
  /\ started(s)
  /\ ~ds_stopping[s]
  /\ ds_stopping' = [ds_stopping EXCEPT ![s] = TRUE]
  /\ \/ /\ kind[s] = "x"
        /\ process_stop(s)
        /\ UNCHANGED <<ds_stopped, plymouth, transition>>
     \/ /\ kind[s] = "wayland"
        /\ emit_stopped(s)
        /\ UNCHANGED procVars
  /\ UNCHANGED <<kind, vt, have_vt_ref, used_vts, number, display_numbers, foreign, authority_file,
                 disk, got_signal, is_ready>>

(* The X server's child watch.                                             *)
x_server_exits(s) == kind[s] = "x" /\ process_watch_cb(s) /\ stopped_cb(s)

(* The last reference goes, after STOPPED: a Wayland session gives back    *)
(* its VT only here.                                                       *)
finalize(s) ==
  /\ blocked = None
  /\ kind[s] \in {"x", "wayland"} /\ ds_stopped[s] > 0
  /\ kind' = [kind EXCEPT ![s] = "gone"]
  /\ IF have_vt_ref[s] THEN vt_unref(vt[s]) ELSE UNCHANGED used_vts
  /\ have_vt_ref' = [have_vt_ref EXCEPT ![s] = FALSE]
  /\ UNCHANGED <<procVars, vt, number, display_numbers, foreign, authority_file, disk, got_signal,
                 is_ready, ds_stopping, ds_stopped, plymouth, transition>>

----------------------------------------------------------------------------
(* The environment                                                         *)

(* A script of the seat, which blocks the daemon, and its end.             *)
run_script(p) == process_start_block(p) /\ UNCHANGED serverVars
ScriptDone(p) == process_watch_cb(p) /\ UNCHANGED serverVars

(* An X server that is not ours starts or stops: it owns a lock file.      *)
ForeignServer(n) ==
  /\ foreign' = IF n \in foreign THEN foreign \ {n} ELSE foreign \union {n}
  /\ UNCHANGED <<procVars, kind, vt, have_vt_ref, used_vts, number, display_numbers, authority_file,
                 disk, got_signal, is_ready, ds_stopping, ds_stopped, plymouth, transition>>

(* An X server exits, or sends SIGUSR1; the SIGKILL timer.                 *)
ProcessStep ==
  /\ \E p \in Procs : quit_timeout_cb(p) \/ ChildExits(p) \/ (p \in Servers /\ signal_cb(p))
  /\ UNCHANGED serverVars

XNext ==
  \/ got_signal_cb
  \/ ProcessStep
  \/ \E n \in ForeignNumbers : ForeignServer(n)
  \/ \E p \in Procs \ Servers : run_script(p) \/ ScriptDone(p)
  \/ \E s \in Servers :
       \/ create_x_server(s)
       \/ create_wayland_session(s)
       \/ x_server_local_start(s)
       \/ x_server_local_start_fails(s)
       \/ wayland_start(s)
       \/ display_server_stop(s)
       \/ x_server_exits(s)
       \/ finalize(s)

XSafety == XInit /\ [][XNext]_xVars

(* The main loop dispatches child watches and timers, SIGKILL kills, and a *)
(* script comes to its end.                                                *)
XFairness ==
  \A p \in Procs :
    /\ WF_xVars(p \in Servers /\ x_server_exits(p))
    /\ WF_xVars(p \notin Servers /\ ScriptDone(p))
    /\ WF_xVars(quit_timeout_cb(p) /\ UNCHANGED serverVars)
    /\ WF_xVars((ChildKilled(p) \/ ScriptEnds(p)) /\ UNCHANGED serverVars)

XSpec == XSafety /\ XFairness

----------------------------------------------------------------------------
(* Properties                                                              *)

Holders(v) == {s \in Servers : have_vt_ref[s] /\ vt[s] = v}

(* A VT is listed exactly once for the one server that holds it, and not   *)
(* at all when nobody does: two servers are never put on one VT, and no    *)
(* VT is lost however its server ends.                                     *)
VTInv ==
  /\ \A v \in VTs : used_vts[v] = IF Holders(v) = {} THEN 0 ELSE 1
  /\ \A s, t \in Servers : have_vt_ref[s] /\ have_vt_ref[t] /\ vt[s] = vt[t] => s = t

HasNumber(s) == kind[s] = "x" /\ ds_stopped[s] = 0

(* A display number belongs to one X server from its creation to its       *)
(* STOPPED, and is free again afterwards.                                  *)
NumberInv ==
  /\ \A n \in DisplayNumbers :
       display_numbers[n] = IF \E s \in Servers : HasNumber(s) /\ number[s] = n THEN 1 ELSE 0
  /\ \A s, t \in Servers : HasNumber(s) /\ HasNumber(t) /\ number[s] = number[t] => s = t

(* While its child runs an X server keeps its VT and number, and the       *)
(* authority file of that number holds this server's cookie; a file whose  *)
(* server is gone is removed.                                              *)
HeldWhileRunning ==
  /\ \A s \in Servers : pid[s] =>
       /\ HasNumber(s)
       /\ vt[s] # NoVT => have_vt_ref[s]
       /\ disk[number[s]] = s
  /\ \A n \in DisplayNumbers : disk[n] # None => pid[disk[n]] /\ number[disk[n]] = n

(* The boot splash that handed its VT over is not left running: as long as *)
(* it is running but deactivated, a server that will quit it on READY or   *)
(* STOPPED is still on its way.                                            *)
SplashHandedOver ==
  plymouth.is_running /\ ~plymouth.is_active =>
    transition # None /\ ~is_ready[transition] /\ ds_stopped[transition] = 0

(* Two servers, a foreign one and the boot splash never get in each        *)
(* other's way: VTs, display numbers, authority files and the splash are   *)
(* held by the server that uses them, and only as long as it does.         *)
XResourcesInv == XTypeOK /\ VTInv /\ NumberInv /\ HeldWhileRunning /\ SplashHandedOver

(* What the seat sees of the servers.                                      *)
StateOf(s) ==
  CASE ds_stopped[s] > 0 -> "stopped"
    [] ds_stopped[s] = 0 /\ is_ready[s] -> "ready"
    [] ds_stopped[s] = 0 /\ ~is_ready[s] /\ child[s] # "none" -> "starting"
    [] OTHER -> "new"

SeatState == [s \in Servers |-> StateOf(s)]

SeatView == INSTANCE DisplayServer WITH
  state <- SeatState, told <- ds_stopping, announced <- is_ready

(* The servers keep the promise of DisplayServer: READY at most once and   *)
(* never after STOPPED, one STOPPED, even when SIGUSR1, the exit of the    *)
(* child and the stop request cross each other.                            *)
KeepsPromise == SeatView!DSSafety

(* "display_server_stop" is always answered by STOPPED, when X ignores     *)
(* SIGTERM and when a script blocks the daemon too.                        *)
StopIsAnswered == SeatView!DSStops
============================================================================
