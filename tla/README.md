# LightDM in TLA+

A verification project for the display manager daemon of this repository
(`src/src/`), the library of its greeters (`src/liblightdm-gobject/`,
`src/liblightdm-qt/`) and what they share (`src/common/`): TLA+ modules that model its parts, TLC configurations that check
them on small instances, and theorems about them that TLAPS checks. The modules
are translated from the C source. Line numbers below refer to files under
`src/src/` unless another directory is named.

- [1. The system](#1-the-system)
- [2. Modules and how they correspond to the code](#2-modules-and-how-they-correspond-to-the-code)
- [3. Runs](#3-runs)
- [4. Bounds and fairness](#4-bounds-and-fairness)
- [5. Proofs](#5-proofs)
- [6. What the code does that its documents do not say](#6-what-the-code-does-that-its-documents-do-not-say)
- [7. What is not modelled](#7-what-is-not-modelled)
- [8. Plan](#8-plan)

## 1. The system

LightDM is one process with a GLib main loop. It starts X servers, greeters
and user sessions as child processes, and is told of what happens by child
watches, pipes, timers, D-Bus and UDP. Nothing in it runs in parallel, but every
callback may find the world changed since the last one, and many functions emit
signals whose handlers change the objects the caller is working on.

| Part | State it keeps | Operations | Talks to |
|---|---|---|---|
| Process (`process.c`) | pid, stopping, the SIGKILL timer, the table of children, the pipe of signals | start (blocking for scripts), stop, signal, child watch | display servers and scripts own one each |
| Display servers (`display-server.c`, `x-server-local.c`, `vt.c`, `plymouth.c`) | VT and its references, display numbers in use, authority file, SIGUSR1 seen, stopping | start, ready, stop, stopped; the handover from the boot splash | Process; the seat by READY and STOPPED |
| Session (`session.c`, `session-child.c`, `guest-account.c`) | pid, the state of authentication, command sent, stopping, logind id; in the child: PAM and the command | start, respond, run, stop; child: converse, authenticate, open, fork, wait, close | two pipes between daemon and child; seat and greeter by signals |
| Seat (`seat.c`, `seat-local.c`) | lists of sessions and of display servers, the active session, the one to activate, the replacement greeter, stopping | start, login, switch to greeter, user or guest, lock, stop; handlers of session and server signals | sessions, servers, greeters, D-Bus, logind |
| Greeter, both ends (`greeter.c`, `greeter-socket.c`, `liblightdm-gobject/greeter.c`) | daemon: authentication session and number, guest, start, resettable; library: number of the authentication, prompts, answers, the lists of requests that wait for a reply | connect, authenticate, answer, cancel, start session, make a shared directory, reset | each other by two streams; PAM through Session; the seat by callbacks |
| User list (`common/user-list.c`) and its listeners (`user.c`, `usersmodel.cpp`) | users in order, what is known of each, sessions; wrappers, rows | load, follow signals, reload the password file | AccountsService, the daemon's own D-Bus service, a file monitor |
| Shared data manager (`shared-data-manager.c`) | directories that were found and may be deleted | enumerate, create, delete | the user list, `/bin/rm`, greeters |
| Unity seat (`seat-unity.c`, `unity-system-compositor.c`, `x-server-xmir.c`) | the compositor with its timeout and pipes, X servers inside it, active and next session | start, READY, timeout, stop, show | the compositor by pipes, Process, the seat's class |
| Display manager (`display-manager.c`, `lightdm.c`) | list of seats, stopping; the seats of logind | add and remove seats, fallback types, shutdown | seats by STOPPED, logind by D-Bus, XDMCP |
| logind client (`login1.c`) | connection, seats, whether each is graphical | connect, list, follow signals | logind by D-Bus; main |
| D-Bus service (`display-manager-service.c`) | an object for each seat and each session | acquire the name, add and remove objects, add a seat, lock and switch | display manager and seats by signals |
| XDMCP server (`xdmcp-server.c`, `xdmcp-protocol.c`) | table of sessions with a timeout each | Query, Request, Manage, KeepAlive; encode and decode | X displays by UDP, the display manager |
| Others | see section 7 | | |

**What is hard here.** Children end, answer or ignore signals at any time, and
their exit and their last message arrive in either order. Setup scripts and the
start of a session block the whole daemon. `session_stop` on a session without
child, and a server that fails to start, emit STOPPED inside the call, so the
seat's handlers nest: a loop over the list of sessions runs handlers that change
that list. Requests arrive in every state, also while a seat is stopping. UDP
packets are lost, repeated and late. The two ends of the greeter protocol act on
an old picture of each other, and most of their messages carry no number. Lists
are loaded by calls that wait while signals queue up. `PROJECT.json` lists these hazards, each at
the line where it bites, with the properties that cover it.

**What makes each part correct.**

- *Process*: the SIGKILL timer never outlives its child; no child is lost or
  waited for twice; a process told to stop is gone in the end.
- *Display servers*: one server per VT and per display number, none lost however
  a server ends; the splash is ended exactly when its VT was taken over;
  READY at most once, STOPPED exactly once, and always after a stop.
- *Session*: one result of an authentication, before STOPPED; authenticated only
  if PAM says so; no command after a stop; the two ends of the pipes agree on what
  comes next unless a greeter answers what was not asked; the guest account lives as
  long as its session; stop and run terminate.
- *Seat*: one program per display server; nothing that runs is forgotten; the
  session that was chosen is the one that runs; there is always something on the
  screen; a session that was left is locked and not ended by others; a seat
  that stops leaves nothing behind and does stop.
- *Greeter*: the session that starts is that of the last authentication the greeter
  could send before it asked, and never another than the one it knows to have succeeded; a greeter that believes its user authenticated is right; answers
  and replies meet what they answer; an authentication ends; the bytes one end
  writes are what the other reads.
- *User list*: complete and right once every signal is handled, in the daemon,
  the library and the rows of a greeter; *shared data*: a directory is deleted if
  its user is gone, and only then.
- *Unity seat*: READY and STOPPED of the compositor once each, however timeout and
  exit cross; the compositor shows the session the seat takes for active; the seat
  stops and leaves nothing.
- *Display manager*: one seat per name; a seat that logind offers is served or
  has failed; shutdown is final and comes to an end, or is held up only by a seat that
  was asked for something while it stopped. *logind client*: the daemon's
  picture is logind's once its signals are handled. *D-Bus service*: the objects are
  the seats and the sessions.
- *XDMCP*: one seat per session however often Manage arrives; a managed session
  is never forgotten; what Willing promises is kept and the best address is chosen;
  a packet is read as it was written or not at all.

## 2. Modules and how they correspond to the code

`PROJECT.json` maps every definition to the lines it models. Actions carry the
names of the C functions, variables those of the fields of the `...Private`
structures. Definitions named `<function>_<word>` and introduced by "Mutant of"
are deliberately wrong variants: they show that each property notices a
plausible mistake, and are used by no specification.

| Module | Models |
|---|---|
| `Process` | `process.c`. `pid`, `stopping`, `quit_timeout`, `processes` (the table) and `signal_pipe` are the C fields; `child` is what the operating system knows of the child. `blocked` is the script `waitpid` waits for: while it is set no other callback runs. |
| `DisplayServer` | The abstract promise of a display server to its seat: *new*, *starting*, *ready*, *stopped*. |
| `XServerLocal` | Extends `Process`. Local X servers and Wayland sessions: `used_vts` are the reference counts of `vt.c`, `display_numbers` the list of `x-server-local.c`, `disk` the authority files, `plymouth` and `transition` the boot splash and the server that takes over from it. `SeatView` maps it to `DisplayServer`. |
| `Session` | The Session object, its child, and the pipes as sequences of message kinds. `pc` is where `session_child_run` is. The owner (a seat or a greeter) is an environment: it may call `session_respond` or `session_respond_error` at any time, as the functions check nothing. `unasked` counts (history) the answers that nobody had asked for; a child that finds one where it waits for something else is `lost`: from then on it takes what comes for whatever it expects, in pieces or whole (`misread`, `read_lost`). |
| `Seat` | `seat.c` for a local seat with X servers, the requests of `greeter.c` that reach the seat, the methods of the D-Bus service. |
| `Greeter` | The library's private data of every client (`cli`), its connection (`link`) and the two streams, the daemon's data of the one greeter that is served (`served`, `srv`) and its authentication `session`. `grant` and `answer` record what was started and answered last. The application may call the library at any time, also from its signal handlers; a synchronous call made there handles further messages before the handler goes on (`nested`, `Shows`). Every call that sends may fail to (`ok` is FALSE): the library has then changed what it changes before it sends; `sent` is the last authentication that was sent, `Unsent` says that a message of the current one was not. |
| `GreeterWire` | Extends `Greeter`: every message of it in bytes, written by one end and read by the other, with streams cut anywhere. |
| `UserListeners` | The wrappers of `user.c` and the rows of `usersmodel.cpp`, as operators on the list inside whose signals they run. |
| `UserList` | Extends `UserListeners`: `common/user-list.c`. `events` are the signals that wait for the main loop; while a call waits for its answer (`Waiting`) none is handled. `process` says whose list it is. |
| `SharedData` | Extends `UserList`: `shared-data-manager.c`, with `dirs` the directories on disk. |
| `Unity` | `usc` is the compositor, `xmir` the X servers, `shown` what the compositor was asked to show. Handlers are operators on all of the state, so that one may call another. |
| `DisplayManager` | The list of seats, `update_login1_seat` and its handlers, `display_manager_seat_removed_cb`, shutdown. A remote seat has the types and the exit-on-failure that the configuration gives it (`RemoteRequired`: by `[Seat:*]` as it comes, by the sections of its name only for the seats of its fallback types, `lightdm.c:242`), and falls back or ends the daemon like any other. `SeatAsked` is a request that a stopping seat accepts; the seat is `late` from then on. |
| `Login1` | Extends `DisplayManager`: `login1.c` and the part of `main` that asks it for seats. `bus` is the queue of logind's signals. `objects` counts the Login1Seats made for a name: none is ever freed. |
| `DisplayManagerService` | Extends `Login1`: the tree of objects, `AddLocalXSeat`, and the sessions of the seats. Its `DMSpec` is the specification of all three. |
| `XDMCPServer` | Query, Request, Manage and KeepAlive, and the 126 s timeout of unmanaged sessions. |
| `XDMCPPacket` | `xdmcp-protocol.c` as operators on sequences of octets, and how `xdmcp-server.c` chooses an address. `MCXDMCPServer` composes it with `XDMCPServer`: each exchange is carried out in packets. |
| `*_proofs` | Theorems and proofs (section 5). |
| `MC*` | Instances for TLC. |

**Composition.** `XServerLocal` is built on the actions of `Process`: each of its
steps is a step of `Process` together with the work of the handler that the step
calls. `XServerLocal` implements `DisplayServer`, and `Seat` relies on nothing but
what `DisplayServer` promises of servers and what `Session` shows of sessions
(one result, before STOPPED; STOPPED once the child is gone; STOPPED at once
without a child). `DisplayManager` relies on what `Seat` shows: a seat told to
stop says STOPPED once, if nothing is created on it meanwhile. `Login1` and `DisplayManagerService` add their state to
that of `DisplayManager` and call its actions, as `main` and the handlers do;
`SharedData` runs in the daemon beside its `UserList`, whose removals it is told
of; `Greeter` uses what `Session` shows of an authentication (`session`), and
`Unity` what `Process` and `XServerLocal` show of children.

**Calls inside calls (`Seat`).** `todo` is a stack of frames, one for every C call
that is still to be made. An action takes the frame on top, does that function's
work up to its next call, and puts the calls in its place; a handler that runs
inside a signal is a frame like any other. Events are delivered only when the
stack is empty, as by the main loop. The states in between are the ones a C
programmer has to think about and rarely tests: STOPPED of one session while
`seat_set_active_session` is half way through its list. Objects are freed by
`finalize` when nothing refers to them, and their slot is used again.

**Configurations (`Seat`).** `conf` is chosen initially from the constant
`Configurations` and never changes: the properties of the seat (`autologin-user`,
`xserver-share`, `allow-user-switching`, the scripts and so on), what its
surroundings may do, and the bounds. One run thus covers several kinds of seat.

**XDMCP packets.** There is no queue of packets. `accepted` records what a display
was ever told, and a display may send at any time anything that it has had
reason to send: this contains every loss, repetition, delay and reordering.

**Session child.** Fork and the store to `child_pid` are two steps, with SIGTERM
possible between them, because the signal handler reads `child_pid`.

## 3. Runs

| Run | Instance | States | Shows |
|---|---|---|---|
| `xserver` | two servers, a foreign X server, splash; servers symmetric | 480 000 | `XResourcesInv`: VTs, display numbers, authority files and the splash belong to the server that uses them (`VTInv`, `NumberInv`, `HeldWhileRunning`, `SplashHandedOver`) |
| `xserver_stop` | one server, one script that blocks the daemon | 7 900 | `TimerInv`, `TableInv`, `StoppedOnce` of Process; `KeepsPromise`: implements `DisplayServer`; `StopIsAnswered`: a stop ends, though X may ignore SIGTERM |
| `session` | one session of each kind (user, guest, remote), two conversations, two answers nobody asked for | 136 000 | `OneResult`, `TrustsOnlyPAM`, `SessionInv` (`NoCommandAfterStop`, `PipesInStep`, `GuestAccountInv`), and that stop, run and logind's termination come to their end (each unless the child is `lost`) |
| `seat` | `Logins` and `Switching` | 242 000 | `SeatInv` (`OneProgramPerServer`, `NothingForgotten`, `StoppedLeavesNothing`), `ChosenSessionRuns`, `SomethingShown` |
| `seat_end` | `Returning`, `Locking`, `Options`, `Ending` | 168 000 | `LeftIsLocked`, `SessionsSurvive`, `SeatStops` |
| `display_manager` | the list of `main`, then a logind seat, seat0 and a remote seat, one user session, one fallback type for each, requests while stopping | 752 000 | `DMInv` (`OneSeatPerName`, `ShutdownIsFinal`), `OfferedIsServed`, `LogindFollowed`, `BusShowsSeats`, `DMStops` |
| `xdmcp` | two displays, two ids, two display numbers, packets of up to 24 octets | 28 700 | `OneSeatPerSession`, `ManagedStaysKnown`, `PacketsArrive`, `ChosenWell` (`WillingIsKept`, `BestAddressChosen`) |
| `greeter` | two clients of the socket, two authentications, two requests, calls that cannot send; clients symmetric | 1 263 000 | `StartsWhatWasAsked`, `BelievedIsTrue`, `GreeterInv` (`RepliesMatch`) |
| `greeter_ends` | one client, two authentications, one request, two messages with two prompts, calls that cannot send | 287 000 | `WireKeepsMessages`, `AnswersReachTheirPrompt`, `AuthenticationEnds` |
| `users` | three users of which one is hidden, one session, two changes in the daemon or three in a greeter | 1 610 000 | `ListInv` (`ListConverges`, `LoginsSeen`), `RowsMirror`, `ObsoleteGone`, `DirectoriesKept` |
| `unity` | two sessions, locally or as XDMCP client, requests before READY | 273 000 | `UnityInv` (`CompositorSaysOnce`, `SeatStoppedClean`), `ActiveShown`, `SeatStops` |
| `session_term` | as `session` | violated | `TermReachesCommand` |

The last one states what a comment says and is violated by what the code does:
section 6, which also lists the statements that were refuted in the same way and
have no run of their own.

Deadlock is not checked where the system really comes to rest: a session has
ended, the daemon has exited, all servers have stopped, a greeter has left or
nothing changes any more. It is checked for XDMCP,
whose server always listens.

**The kinds of seat** (`MCSeat`). `Logins`: no user switching, every script, every
kind of failure once, stop at any time. `Switching`: D-Bus requests against
logins, with servers that fail to start. `Returning`: leaving an automatic login and
logging in to it again. `Locking`: greeters that can be reset. `Options`: background
login, servers that are not shared, unknown session files, the VT keys. `Ending`: a
stop at any time, for liveness.

The parts of `SeatInv` and `SomethingShown` are checked for
`Logins` and `Switching` only: the other kinds of seat violate them, for the
reasons in section 6. `SeatStops` excepts a seat on which something was created
after it had begun to stop (`late`): see `StoppingEnds` in section 6. `DMStops` therefore
excepts a daemon in which no seat is left but such `late` ones, and says that no other seat holds it up. `SeatStops` of `Unity`
and `SeatStoppedClean` except what section 6 tells (`Excused`, `crashed`).

## 4. Bounds and fairness

Every bound is a constant or a field of a configuration: `MaxPipe` (signals that are
unread), `MaxPrompts` (PAM conversations), `MaxUnasked` (answers that nobody asked for), `NSessions` and `NServers` (objects alive
at a time), `max_requests`, `max_faults`, `MaxRequests` of XDMCP, `BufferSize` (octets
of a packet), `NTypes` (types of a seat), `MaxBus` (signals of logind under way),
`MaxEvents` (changes of logind, remote seats and sessions in all), `MaxRemote`,
`MaxSessions`; of the greeter `MaxAuth`, `MaxRequests`, `MaxQueue` (messages under way
in one direction), `MaxPrompts`, `MaxMessages`, `NameLengths` and `MAX_MESSAGE_LENGTH`;
`MaxChanges`, `MaxLogins` and `NUM_ENUMERATION_FILES` of the lists of users. Why
they are enough:

- Two servers compete for VTs, numbers and the splash; more of them compete in
  pairs. There are as many VTs as servers, so one released late is missed, and one
  released early is given twice.
- Two conversations let an answer to the first meet the second. Two answers that nobody
  asked for can both lie before, between or after the ones that were. The application
  cancels once for each authentication that it sent.
- Four sessions are a greeter, the session that replaces it, one being
  authenticated and one on its way out, each with a server. Nobody asks when
  fewer than two objects of a kind are left (`room`), so that creating one never
  fails for lack of a slot. Up to four requests and one failure give every pair of
  a request and a failure at any point of a login.
- Two ids and two displays let an id be given to the second display after the
  timeout while packets of the first are still under way. A Request is not
  received when no id is free: the loop of `add_session` would not end, which
  in the code takes 65536 sessions.
- 24 octets hold the short packets with a few characters and are too few for the
  long ones, so that overflow happens at every kind of field. The limit of the
  greeter's messages is 40 instead of 1024 for the same reason: strings of 0 and 13
  octets lie on both sides of it in every message with three of them (in `greeter_ends`; `greeter` is not
  about lengths).
- Two authentications of two clients let every message of one be late for the
  other, on the same connection and on another greeter's; one more would be late
  for the second as the second is for the first. Two prompts and two messages make
  an answer that is too early or incomplete possible.
- Three changes add, change and delete one user while another changes places;
  directories are read two at a time, so that three take two rounds.
- One logind seat beside seat0 with three changes is removed, comes back and
  changes while its first seat stops; seats of different names do not meet except in
  the list, where seat0 and the remote seat stand for the others. `RemoteRequired = {"name"}` makes
  the first seat of a remote client not required and its fallback required, so that both
  kinds are met in one run. That one constant speaks for the sections of every remote name is a
  simplification: the name only decides which seats get exit-on-failure.
- Two sessions on the compositor let one follow the other on the same X server and
  on another.

Fairness is weak fairness of single steps only:

- `XServerLocal`: the main loop dispatches child watches and timers, SIGKILL kills, a
  script ends. Nothing says that X obeys SIGTERM or exits by itself.
- `Session`: the main loop dispatches, the child's code goes on when it can (not once it
  has lost its place in the pipe: what it reads then is anything), a command that was passed SIGTERM ends, logind does terminate a session it was told
  to. That a command obeys SIGTERM is assumed because the code assumes it
  (`// FIXME: Handle timeout`, `session.c:900`).
- `Seat`: the calls of a callback come to their end; children and servers that were
  told to stop do stop, as `Session` and `XServerLocal` show.
- `DMSpec`: a seat that is stopping and has not been asked for anything since (`JustStops`)
  stops, its sessions first (as `Seat` shows), and logind answers a call. Nothing is
  assumed of a `late` seat: it may stop or never do.
- `Greeter`: the main loops of both ends run, the connection is set up, and PAM goes on to
  a prompt or to its end (`PAMGoesOn`), but not while it waits for an answer: the session
  child then reads without a timeout (`session-child.c:143`), so that an authentication
  whose user never answers never ends. `AuthenticationEnds` says so. The run `greeter` uses no fairness (`GreeterSafety`).
- `SharedSpec`: none; its properties are about states in which everything has been
  handled.
- `Unity`: the compositor, the X servers and the sessions end when they were told to
  (`ToldEnds`). It is written as `[]<>~P` for the state P in which one of them was
  told to, which is weak fairness of the step that ends it, because that step is
  enabled exactly in P.

No fairness is assumed of users, the application of a greeter, logind's
announcements, AccountsService or the network.

## 5. Proofs

The theorems hold for every value of the constants that satisfies the named
assumptions (`ProcessAssumption`, `XServerAssumption`, `XDMCPAssumption`,
`SessionAssumption`, `GreeterAssumption`, `DMAssumption`, `Login1Assumption`,
`ServiceAssumption`, `UserListAssumption`, `SharedAssumption`, `UnityAssumption`), not
only for the instances TLC checks. The assumptions say that bounds are natural
numbers, that "none" is not one of the objects, that the names the daemon makes up
are not logind's, and that there are finitely many logind seats and users. Every inductive invariant was checked with TLC before it was proved.

- **`Process_proofs`**, for any set of processes: `ProcTimer` (SIGKILL is never sent
  for a child that was waited for), `ProcTable` (the table holds exactly the
  children that run), `ProcStopped` (STOPPED once for each child). The inductive
  invariant `ProcIInv` joins the three to the types. `TimerInv` alone is not
  inductive: when the child watch fires one has to know that a running child that
  is not waited for in a blocking call is in the table.
- **`XDMCPServer_proofs`**, for any displays, ids and display numbers:
  `XDMCPOneSeat` (a session has one seat when it is managed and none before, and a
  timeout exactly until then), `XDMCPManaged` (no step forgets a managed session or
  gives its id away). The invariant is `OneSeatPerSession` with the shape of the
  table and of the packets; `XDMCPManaged` is an action property and follows
  because the timer of a managed session is off, so that its timeout is not enabled.
- **`Session_proofs`**, for any number of conversations: `SessionTrust` (the daemon
  takes a user for authenticated only if PAM in the child said so),
  `SessionOneResult` (one result, before STOPPED). Both are about two processes and
  a pipe, so the invariant has to say what may be on its way. `ResultOrder`: until
  PAM has decided there is no result in the pipe nor in the object, and a good one
  in the pipe is never ahead of PAM. `ResultCount`: no STOPPED while there is a child,
  and once a result was reported the pipe is not watched, so that the exit of the
  child can add a result only if there is none.

  `SessionInStep` is the rest of `SessionInv`: what one end of the pipes writes is what
  the other reads next, no command after a stop, a guest account as long as its session
  can use it. `session_respond` does not ask whether PAM waits, so the first holds only
  while no answer was given that nobody had asked for, and the theorem says just this
  (`unasked = 0` in `PipesInStep`), that nothing else makes the child lose its place
  (`lost => unasked > 0`), and that no command runs after a stop unless it has. Its invariant `PipeIInv` (`SessionPipes`) says for each place in the
  child's program what both pipes hold and what the daemon has recorded, with and without such
  an answer: in the
  conversation one message at most, and whose turn it is (`TurnConv`); after it the
  command or the end of the pipe, and then the ids that `session_run` waits for
  (`TurnWait`, `TurnOpen`). A child that was killed may leave anything of this behind.
- **`XServerLocal_proofs`**, for any servers, VTs and display numbers, builds on
  `ProcIInv`: every step is one of `Process` for its children. `XResources` is
  `XResourcesInv`. It needs where each server is in its life (`Lives`: a server without
  child holds nothing, STOPPED was said when its child failed or was waited for, an
  authority file exists while there is a process) and that no server has a VT while the
  boot splash shows (`SplashFirst`). `XKeepsPromise` is the refinement of `DisplayServer`:
  the initial states map to initial ones, and each action, of whichever process, to a
  step the seat may see or to none.
- **`Greeter_proofs`**, for any clients, authentications and requests and queues of any
  length: `GreeterStarts`, `GreeterBelieves`, `GreeterReplies`, `GreeterAnswers`. `GreeterStarts` is about the last authentication that was *sent*: one that
  could not be leaves the library a number ahead of the daemon, which goes on with the one before
  and starts its session when it is asked to. A greeter that asks because it believes its
  user authenticated gets the session of that very authentication (`believed` in the request,
  which the invariant ties to the END that was read). The two ends agree on
  nothing but what is under way, so the invariant follows the messages: those to the
  daemon lead from what it has read to what the client has asked for (`Leads`, through
  a state before and after each message), the daemon's data belong to what it has read
  (`HasRead`), and an END on its way or believed in can be relied on unless something
  the daemon read later makes it void (`Reliable`). Requests of one kind are in the order of their ids
  in the list of the client and in both queues, and each has exactly its message or
  its reply under way (`InOrder`, `UnderWay`). `GreeterAnswers`, that an answer is taken by
  the PAM conversation that asked, needs a second invariant, `AnswerIInv`: while a session
  can still succeed, what PAM asked is in one place, the message with the prompts, the
  client that shows them and waits, or the message with the answers (`OnePlace`); an
  answer that is not late is read before the next authentication (`Given`), whose
  number is above that of every prompt (`Numbered`, `Current`); and the pipe to the
  session's child holds one answer that it can take at most, and only while it waits
  (`InPipe`).
- **`DisplayManager_proofs`**, for any finite set of logind seats, any list of types and any
  number of events: `DMSound`, `DMServes`, `DMFollows`, `DMShows`, about the daemon, its
  logind client and its service together. `DMIInv` has a part for each.
  `ListInv`: no seat and no logind name is twice in the list, and a handler that outlived
  its logind seat waits for a seat that is stopping. `ServingInv` (with `PhaseInv`, how
  far `main` has come): what is offered is covered by a seat that runs, is awaited or
  failed; the strengthening is `StaleWaits`, that such a handler waits for an offered
  seat only together with the current one. `SignalInv`: what the daemon does not know
  of logind it will be told of (`Heard`), signals of a seat's coming and going end with
  the last of them (`InOrder`), and the last change its current object is told of is
  right (`LastRight`). `EntryInv`: paths are counted up, and a session that runs
  keeps its seat. Requests to a seat that is stopping and remote seats with any types and
  either kind of exit-on-failure are among its steps.

- **`SharedData_proofs`**, for any finite set of users and any accounts, changes and size of an
  enumeration: `ListTheorem` (`ListInv`), `RowsTheorem` (`RowsMirror`), `ObsoleteTheorem`
  (`ObsoleteGone`) and `DirectoriesTheorem` (`DirectoriesKept`, an action property), of
  user list, wrappers, rows and directories together. Each handler reacts to a signal that
  was sent earlier, so that `SharedIInv` says of every difference between what is known
  and what is the case which signal still waits. `EventInv` and `ShapeInv`: which signals
  may wait at all, and how far the list has been loaded. `KnownInv`: a user whose
  coming or going no signal is to tell is listed, or about to be asked for, exactly if
  there is the account; what is known of a listed one is right or a signal waits. `SessionsInv`: the same of sessions. `KeptInv`: rm is
  handed only what may go, and users that were there all the time are listed or about to
  be (without it `DirectoriesKept` fails in the step that ends the enumeration).
  `CoveredInv`: each directory will be looked at, is being deleted, or is that of a listed
  user. `ViewInv`: the rows are those of the list, and are connected only after the
  sessions have been asked for.
- **`Unity_proofs`**, for any number of sessions and either kind of seat: `UnityTheorem`
  (`UnityInv`) and `ActiveTheorem` (`ActiveShown`). Handlers call handlers here (READY makes
  servers that may stop at once, which stops the seat, inside READY), so the invariant
  `Good` is one of the state that handlers pass on, and each handler has a lemma that it
  keeps `Good` and what its caller relies on afterwards. What only tells things to stop is
  `Quiet`: it keeps the state of every server and moves sessions towards their end, and
  two such steps are one. `Lives` ties the process to the seat's pointer, `Servers` the list
  of the seat to the X servers, `Ending` says that without its compositor the seat stops.
  `Says` needs that nothing was made before READY unless asked for over D-Bus, `Clean`
  that a seat that is stopping has told the X server of XDMCP (the others are in its list).
  `ActiveShown` follows from `Hosted` (a session that runs has its X server for
  itself), `Named` (names are below the counters, and no two are the same) and `Active`.

Both contain folds (insertion into the list of users, the handlers of all X servers). A
fold is the value of a function on sets of places that is chosen; that it exists, and
that what one step keeps the whole keeps, is shown for each by an induction on numbers
through the least counterexample (`LeastNumber`, `FoldExists`), as the induction theorems of
the library cannot be instantiated.

Only model-checked:

- `SeatInv`, `ChosenSessionRuns`, `SomethingShown` and `LeftIsLocked` of `Seat`. They hold on
  the kinds of seat of section 3 and with as many objects as are named there, not on
  every one (section 6 names what breaks them), so that a theorem about every value of
  the constants would be false.
- The properties of the XDMCP packets and choices and of the greeter's messages
  (`PacketsArrive`, `ChosenWell`, `WireKeepsMessages`), which are evaluated over all their
  bounded inputs (`PacketVerdicts`, `ChoiceVerdicts`, `ClientVerdicts`, `ServerVerdicts`): what a
  fold over a sequence computes for every input needs induction over data, which
  the prover does not do.
- All liveness (`StopIsAnswered`, `SessionStops`, `RunReturns`, `NothingLeaks`, `SeatStops`,
  `DMStops`, `AuthenticationEnds`), which is out of the prover's reach.

## 6. What the code does that its documents do not say

### Statements that do not hold

**`session_term`** (a run). "Catch terminate signal and pass it to the child"
(`session-child.c:625`): between the fork of the command and the assignment to
`child_pid` (line 632) SIGTERM ends the session child instead, and the command runs
on without its session being closed.

The following are definitions of the modules that TLC refutes when they are put in
the configuration named, as an `INVARIANT` or, where they are temporal, a `PROPERTY`:

| Statement | Where | What happens |
|---|---|---|
| `ChangedNumberRejected`: "Reject if has changed display number" (`xdmcp-server.c:611`) | `XDMCPServer`, `MCXDMCPServer.cfg` | Refuse is sent, but the function goes on and starts the session, for the number of the Request. |
| `RequiredSeatOrExit`: "exit-on-failure = True if the daemon should exit if this seat fails" (`data/lightdm.conf:87`) | `DisplayManager`, `MCDisplayManager.cfg` | When the required seat fails and the seat of the next fallback type does not start either, no further type is tried and the daemon goes on without it (`lightdm.c:255`). |
| `StoppingEnds`: "TRUE if stopping this seat (waiting for displays to stop)" (`seat.c:63`) | `Seat`, `MCSeatEnd.cfg` with `Configurations <- MCAskedWhileStopping` | Requests are not refused meanwhile, and create a greeter and a server that nobody stops: the seat never says STOPPED. |
| `JustAnXServer`: "If running as an XDMCP client then just start an X server" (`seat-unity.c`) | `Unity`, `MCUnity.cfg` | `compositor_ready_cb` starts the seat's class as well, and with it a greeter. |
| `LoggedInIsTrue`: "TRUE if the user is currently logged in" (`common_user_get_logged_in`) | `SharedData`, `MCUsers.cfg` | A session that begins between the subscription to SessionAdded and the answer to Get is listed twice, and its end removes it once. |
| `OfferedSessionsRun`: the same, of the sessions the daemon offers | `DisplayManagerService`, `MCDisplayManager.cfg` | A session that ends while its seat is stopping gives no SESSION_REMOVED: its object stays as long as the daemon. |

### Met while modelling

In the model, outside the properties or excepted by them where it is said:

Daemon, sessions and seats:

- `session_respond` and its callers check only that there is a session, so that an answer
  that comes late, twice or before a prompt goes into the pipe of the session child. The
  child reads it as an answer to its next prompt or as the beginning of its command
  (`session-child.c:457`), and is out of step from then on: a command may be built of
  anything, `session_real_run` may block the whole daemon in its read, and a stop that is told
  through the pipe may never be understood (`lost` in `NoCommandAfterStop`, `PipesInStep`,
  `SessionStops`, `RunReturns` and `NothingLeaks`).
- A seat that is asked for something while it stops may never say STOPPED (`StoppingEnds`
  above). The daemon then waits for it for ever when it is shut down, and a logind seat that
  came back under its name waits behind it and is not served (`late` in `DMStops`).
- When `[Seat:*]` names several types a remote seat has them too (`lightdm.c:274`): it falls back to
  a seat of the next type when its client leaves, and with exit-on-failure there, or in a section
  that matches its name, the end of one remote client ends the daemon (`lightdm.c:219`).
- A session marked as guest because it is a remote one (`greeter.c:599`) has the
  account it logged in to passed to the guest account script (`session.c:444`).
- Two locks before the first greeter has stopped leave the first replacement
  greeter in the list, never run and never stopped (`seat.c:1576`).
- The existing session that an authenticated user is switched to may be one that a
  greeter is still authenticating (`find_user_session`, `seat.c:657`): the greeter is
  stopped, the user's own session too, and the screen stays empty.
- A login with an unknown session leaves the authenticated session behind, and it is
  run in place of the one chosen next (`seat.c:778`).
- Without shared X servers the server for the greeter after a failed session is given
  to the failed session (`seat.c:571`).
- An X server that dies while the result of its greeter's PAM session is on its way
  leaves the greeter to be run on the dead server; a greeter that dies while another
  server exists is not replaced (`seat.c:472`, `seat.c:801`).

The configurations of `seat` and `seat_end` are the largest found on which their
properties hold in spite of these.

Greeters:

- The library begins an authentication before it sends it. When that fails (the name does
  not fit into a message, the connection cannot be written to) it returns FALSE with
  `in_authentication` set, no prompt and no END to come, and the daemon keeps the
  authentication before: `lightdm_greeter_start_session`, which does not look at
  `is_authenticated`, starts that one's session (`StartsWhatWasAsked` is about what was sent). Answers that
  could not be sent are kept but not waited for: they can be sent no more, and the next prompt drops them
  (`Unsent` in `AuthenticationEnds`).
- Cancelling sends no END_AUTHENTICATION: the library stays `in_authentication`, and
  a guest cannot be cancelled at all. END that was already under way makes a client
  that cancelled believe its user authenticated (`cancelled` in `BelievedIsTrue`).
- A CONTINUE that is late is taken by the conversation of a later authentication
  (`late` in `AnswersReachTheirPrompt`).
- An asynchronous request that could not be written stays in the list of requests,
  and every later reply completes the one before its own (`badsend` in
  `RepliesMatch`).
- When `session_start` fails its result is ignored and no END comes
  (`AuthenticationEnds` excepts it). A greeter that closes its socket leaves its
  authentication session running.
- A field that does not fit into 1024 octets is silently left out by the daemon
  while the header states the full length; the reader then waits for octets that
  belong to the next message (`WireKeepsMessages` excepts it).

Lists of users and shared directories:

- When the password file cannot be read to its end (`user-list.c:399`), or the
  answer about one account does not come at start, the users that were missed are
  taken for removed, and the daemon deletes their shared directories. `DirectoriesKept`
  excepts these.
- The directories of hidden users are deleted whenever the daemon starts.
- A change of the password file between reading it and watching it is not noticed;
  a reload emits USER_CHANGED for the wrapper at the old place.
- The Qt model does not connect to the list when that is empty at the start.
- `/bin/rm -rf` is not waited for: it may delete a directory that was made again.

Unity:

- The handler of the timeout returns TRUE and forgets its source: it fires again,
  also when the compositor has been freed (`crashed`), and the seat may say STOPPED
  while the compositor has only been told to end.
- READY while the seat is stopping starts the X server of an XDMCP client, which
  nobody stops; a session asked for over D-Bus before READY gets an Xmir server
  without process, and the seat waits for it for ever. Both are `Excused`.
- `seat_unity_start` may return FALSE without STOPPED.

logind and D-Bus:

- Login1Seats are never freed, since their subscription holds a reference. When a
  seat was removed and comes back, the old object goes on to update the seat when
  it stops, with the last value it knew: a seat is started for a name that logind
  has not got, or a fallback seat is stopped. Changes between the subscription of a seat
  and the answer about its properties are applied again afterwards, oldest first.
- The daemon exits with a failure when logind removes seat0, though nothing failed
  (`lightdm.c:257`), and starts a fallback type without asking for graphics or for
  whether the seat is still there. At the start one seat that fails ends the
  program while others have been started (`lightdm.c:886`).
- Sessions that began before the name on the bus was acquired are never offered;
  every seat of AddLocalXSeat has the name `xremote0`.

XDMCP:

- `xdmcp_packet_encode` clears the overflow of the fields before it writes the
  header: a packet that does not fit is sent cut off, "Overflow writing response" is
  never logged, and the reader drops it. `PacketsArrive` therefore asks that a packet
  arrives as it was sent or not at all.
- `get_session` takes a 16 bit number, so that the upper half of a session id in a
  packet is not looked at.
- A key with the prefix "0x" is decoded from the prefix on, and the high half of each
  octet is shifted out (`xdmcp-server.c:301`).

## 7. What is not modelled

Contents of environments, cookies and log files; command lines; utmp and audit
records; the X connection; greeters and sessions that are Mir clients themselves;
remote display servers (VNC, XDMCP clients other than Unity's); hints to greeters as data; scripts whose
result is not looked at; the logger. In `Session` a pipe carries kinds of messages,
each written and read as a whole (both ends are the same program). In `XDMCPServer`
authentication data are valid or not. The start of a seat is one step of
`DisplayManager`. In `Greeter` the PAM conversation is seen from its signals, and a message is written whole or not at all (a
write that breaks off in the middle ends the protocol), in
`Unity` an X server and a process from theirs. `SharedData` takes the creation of a
directory and its owner for one step.

Not modelled as components, with the reason in `PROJECT.json`: accounts,
configuration and session configuration (reads of files at fixed points, without
state that changes), X authority files (byte formats; when they are written and
removed is in `XServerLocal`), logging, privileges, `dm-tool`, and what the libraries
offer beside greeter and users (I/O and thin wrappers).

## 8. Plan

Done, in this order: Process, DisplayServer and XServerLocal, Session, Seat,
DisplayManager, XDMCPServer, first proofs; Greeter and GreeterWire, UserList with its
listeners, SharedData, Unity, XDMCPPacket, Login1, DisplayManagerService; the proofs about
XServerLocal, the pipes of Session, Greeter and DisplayManager with its extensions; the
proofs about the lists of users with the shared directories, and about Unity.

Next modules:

1. `DisplayManager` composed with the promise of `Seat`, so that STOPPED inside
   `seat_start` is a step (`display-manager.c:107`).
2. Remote seats: VNC servers and XDMCP clients as further implementations of
   `DisplayServer`.
3. X authority files as pure operators against reference definitions (write then
   read is the identity on records, replace keeps one record per address).

Next theorems: `WillingIsKept` of XDMCP; of Seat first what its stack of calls keeps, for
every configuration, and then its invariants under named conditions on the
configuration.
