------------------------------ MODULE UserList ------------------------------
(***************************************************************************)
(* The list of users (common/user-list.c), which the daemon and every      *)
(* greeter keep for themselves.  It comes from AccountsService, whose      *)
(* signals keep it up to date, or, when there is none, from the password   *)
(* file, which is read again when it changes.  It is loaded on the first   *)
(* use, by calls that wait for the answer: the accounts, the sessions and  *)
(* the password file may change between any two of them, and the signals   *)
(* sent meanwhile are handled afterwards.                                  *)
(***************************************************************************)
EXTENDS UserListeners, FiniteSets

CONSTANTS
  Users,          \* names, as numbers in their order
  System,         \* users that are not to be shown
  RealNames,      \* real names an account may have (0: none)
  SessionNames,   \* sessions a user may choose
  MaxChanges,     \* bound: changes of accounts and choices, by process
  MaxLogins       \* bound: sessions of the display manager

ASSUME UserListAssumption ==
  /\ Users \subseteq Nat /\ IsFiniteSet(Users) /\ System \subseteq Users /\ RealNames \subseteq Nat
  /\ 1 \in SessionNames /\ MaxChanges \in [{"daemon", "greeter"} -> Nat] /\ MaxLogins \in Nat

VARIABLES
  process,    \* whose list it is: the daemon's or a greeter's
  accounts,   \* the accounts: user -> real name and chosen session
  dmrc,       \* user -> session in ~/.dmrc and in its cache
  logins,     \* sessions of the display manager: path -> user
  events,     \* signals and file events that wait for the main loop
  list,       \* the private data of the CommonUserList
  view,       \* the wrappers and rows of a greeter
  removing,   \* directories that /bin/rm has been started for
  lost,       \* history: what a failed call or an unnoticed change left out
  touched,    \* history: users whose account was added, deleted or not read
  changes     \* number of changes so far

listVars == <<process, accounts, dmrc, logins, events, list, view, removing, lost, touched, changes>>

NewList ==
  [state |-> "unloaded", users |-> <<>>, info |-> [u \in Users |-> [real |-> 0, session |-> 1]],
   watched |-> {}, paths |-> <<>>, loaded_dmrc |-> {}, monitor |-> FALSE,
   sessions |-> <<>>, session_added_signal |-> FALSE, asking |-> FALSE, session_paths |-> <<>>]

ListInit ==
  /\ process \in {"daemon", "greeter"}
  /\ \E shown \in SUBSET (Users \ System) : accounts = [u \in shown \union System |-> [real |-> 0, session |-> 1]]
  /\ dmrc = [u \in Users |-> [home |-> 1, cache |-> 1]]
  /\ logins = <<>>
  /\ events = <<>>
  /\ list = NewList
  /\ view = NoView
  /\ removing = {}
  /\ lost = {}
  /\ touched = {}
  /\ changes = 0

State == [list |-> list, view |-> view, removing |-> removing]
Becomes(s) == list' = s.list /\ view' = s.view /\ removing' = s.removing

(* The process waits for the answer to a call.                             *)
Waiting ==
  \/ list.state \in {"listing", "loading", "unwatched"}
  \/ list.asking \/ list.session_paths # <<>>
Loaded == list.state \in {"accounts", "passwd"}

(* A call or a read that goes wrong is remembered (one at a time).         *)
Outcome(what, ok) == /\ ~ok => lost = {}
                     /\ lost' = IF ok THEN lost ELSE {what}

----------------------------------------------------------------------------
(* The users in order *)

(* compare_user, by common_user_get_display_name.                          *)
Display(info, u) == IF info[u].real = 0 THEN u ELSE info[u].real

(* g_list_insert_sorted: before the first user that does not come earlier. *)
insert_sorted(users, info, u) ==
  LET later == {i \in DOMAIN users : Display(info, users[i]) >= Display(info, u)}
  IN InsertAt(users, IF later = {} THEN Len(users) + 1 ELSE CHOOSE i \in later : \A j \in later : i <= j, u)

(* The users of S, inserted in some order, that of the password file.      *)
Sorted(S, info) == FoldLeft(LAMBDA q, u : insert_sorted(q, info, u), <<>>, SetToSeq(S))

(* The signals of the list.  In the daemon the shared data manager deletes *)
(* the directory of a user that is removed (user_removed_cb).              *)
emit_added(s, u) == user_list_added_cb(s, u)
user_changed_cb(s, u) == user_list_changed_cb(s, u)
user_removed_cb(s, u) ==
  IF process = "daemon" THEN [s EXCEPT !.removing = @ \union {u}] ELSE user_list_removed_cb(s, u)

(* A user object that is freed has no subscription and nothing loaded.     *)
Freed(s, u) == [s EXCEPT !.list.watched = @ \ {u}, !.list.loaded_dmrc = @ \ {u}]

(* The signals of q without those in D, which nobody subscribes to now.    *)
Without(q, D) == FoldLeft(LAMBDA r, e : IF e \in D THEN r ELSE Append(r, e), <<>>, q)

----------------------------------------------------------------------------
(* The password file *)

(* update_passwd_user: only the entry's own fields.                        *)
update_passwd_user(info, S) == [u \in Users |-> IF u \in S THEN [info[u] EXCEPT !.real = accounts[u].real] ELSE info[u]]

(* A user object made from an entry begins without a chosen session.       *)
make_passwd_user(info, S) == [u \in Users |-> IF u \in S THEN [real |-> accounts[u].real, session |-> 1] ELSE info[u]]

(* The new list is in place before anyone is told about the differences:   *)
(* first the new users, then the changed, then the missing ones.  Entries  *)
(* that could not be read are missing.                                     *)
load_passwd_file(s, entries, emit_add_signal) ==
  LET shown == entries \ System
      old == ToSet(s.list.users)
      info == make_passwd_user(update_passwd_user(s.list.info, shown \intersect old), shown \ old)
      changed == {u \in shown \intersect old : info[u] # s.list.info[u]}
      s1 == [s EXCEPT !.list.users = Sorted(shown, info), !.list.info = info]
      s2 == IF emit_add_signal THEN FoldLeft(emit_added, s1, Sorted(shown \ old, info)) ELSE s1
      s3 == FoldLeft(user_changed_cb, s2, Sorted(changed, info))
      remove(q, u) == IF u \in shown THEN q ELSE Freed(user_removed_cb(q, u), u)
  IN FoldLeft(remove, s3, s.list.users)

passwd_changed_cb(ok) ==
  /\ Head(events).t = "passwd"
  /\ \E entries \in SUBSET DOMAIN accounts :
       /\ ok <=> entries = DOMAIN accounts
       /\ Becomes(load_passwd_file(State, entries, TRUE))
       /\ touched' = touched \union (DOMAIN accounts \ entries)
  /\ events' = Tail(events)
  /\ ~ok => lost = {}
  /\ lost' = IF ok THEN lost \ {"users"} ELSE {"users"}
  /\ UNCHANGED <<process, accounts, dmrc, logins, changes>>

----------------------------------------------------------------------------
(* AccountsService *)

(* The properties of an account, unless the call fails; FALSE for a system *)
(* account.                                                                *)
load_accounts_user(s, u, ok) ==
  IF ok /\ u \in DOMAIN accounts
    THEN [s |-> [s EXCEPT !.list.info[u] = accounts[u]], result |-> u \notin System]
    ELSE [s |-> s, result |-> FALSE]

add_accounts_user(s, u, emit_signal, ok) ==
  LET l == load_accounts_user(s, u, ok)
      s1 == [l.s EXCEPT !.list.users = insert_sorted(@, l.s.list.info, u), !.list.watched = @ \union {u}]
  IN IF ~l.result THEN s
     ELSE IF emit_signal THEN emit_added(s1, u) ELSE s1

(* Mutant of accounts_user_added_cb: a user that was loaded with the list  *)
(* is added again.                                                         *)
accounts_user_added_cb_twice(ok) ==
  LET u == Head(events).u IN
  /\ Head(events).t = "added"
  /\ Becomes(add_accounts_user(State, u, TRUE, ok))
  /\ events' = Tail(events)
  /\ Outcome("users", ok)
  /\ UNCHANGED <<process, accounts, dmrc, logins, touched, changes>>

accounts_user_added_cb(ok) ==
  LET u == Head(events).u IN
  /\ Head(events).t = "added"
  /\ Becomes(IF u \in ToSet(list.users) THEN State ELSE add_accounts_user(State, u, TRUE, ok))
  /\ events' = Tail(events)
  /\ Outcome("users", ok)
  /\ UNCHANGED <<process, accounts, dmrc, logins, touched, changes>>

accounts_user_deleted_cb ==
  LET u == Head(events).u IN
  /\ Head(events).t = "deleted"
  /\ IF u \in ToSet(list.users)
       THEN /\ Becomes(Freed(user_removed_cb([State EXCEPT !.list.users = RemoveFirst(@, u)], u), u))
            /\ events' = Without(Tail(events), {[t |-> "changed", u |-> u]})
       ELSE /\ UNCHANGED <<list, view, removing>>
            /\ events' = Tail(events)
  /\ UNCHANGED <<process, accounts, dmrc, logins, lost, touched, changes>>

accounts_user_changed_cb(ok) ==
  LET u == Head(events).u
      l == load_accounts_user(State, u, ok)
  IN /\ Head(events).t = "changed"
     /\ Becomes(IF l.result THEN user_changed_cb(l.s, u) ELSE l.s)
     /\ events' = Tail(events)
     /\ Outcome("users", ok)
     /\ UNCHANGED <<process, accounts, dmrc, logins, touched, changes>>

----------------------------------------------------------------------------
(* Loading the users: subscribe, ask for the list, ask for each user.      *)

load_users ==
  /\ ~Waiting /\ list.state = "unloaded"
  /\ list' = [list EXCEPT !.state = "listing"]
  /\ UNCHANGED <<process, accounts, dmrc, logins, events, view, removing, lost, touched, changes>>

(* The answer to ListCachedUsers.  Without one the password file is read,  *)
(* and watched afterwards.                                                 *)
ListCachedUsers(ok) ==
  /\ list.state = "listing"
  /\ IF ok
       THEN /\ Becomes([State EXCEPT !.list.state = IF accounts = <<>> THEN "accounts" ELSE "loading",
                                     !.list.paths = SetToSeq(DOMAIN accounts)])
            /\ UNCHANGED <<events, lost, touched>>
       ELSE /\ \E entries \in SUBSET DOMAIN accounts :
                 /\ touched' = touched \union (DOMAIN accounts \ entries)
                 /\ Becomes([load_passwd_file(State, entries, FALSE) EXCEPT !.list.state = "unwatched"])
                 /\ Outcome("users", entries = DOMAIN accounts)
            /\ events' = Without(events, [t : {"added", "deleted", "changed"}, u : Users])
  /\ UNCHANGED <<process, accounts, dmrc, logins, changes>>

(* The answer to GetAll, for the next user of the list.                    *)
load_listed_user(ok) ==
  LET s == add_accounts_user(State, Head(list.paths), FALSE, ok)
      rest == Tail(list.paths)
  IN /\ list.state = "loading"
     /\ Becomes([s EXCEPT !.list.paths = rest, !.list.state = IF rest = <<>> THEN "accounts" ELSE @])
     /\ Outcome("users", ok)
     /\ touched' = IF ok THEN touched ELSE touched \union {Head(list.paths)}
     /\ UNCHANGED <<process, accounts, dmrc, logins, events, changes>>

(* g_file_monitor on the password file.                                    *)
monitor_passwd(ok) ==
  /\ list.state = "unwatched"
  /\ list' = [list EXCEPT !.state = "passwd", !.monitor = ok]
  /\ Outcome("users", ok)
  /\ UNCHANGED <<process, accounts, dmrc, logins, events, view, removing, touched, changes>>

----------------------------------------------------------------------------
(* The sessions of the display manager *)

(* get_logged_in_cb asks for the sessions the first time.                  *)
load_sessions ==
  /\ ~Waiting /\ process = "greeter"
  /\ list.users # <<>> /\ ~list.session_added_signal
  /\ list' = [list EXCEPT !.session_added_signal = TRUE, !.asking = TRUE]
  /\ UNCHANGED <<process, accounts, dmrc, logins, events, view, removing, lost, touched, changes>>

(* The answer to Get(Sessions).                                            *)
GetSessions(ok) ==
  /\ list.asking
  /\ list' = [list EXCEPT !.asking = FALSE,
                          !.session_paths = IF ok THEN SetToSeq(DOMAIN logins) ELSE <<>>]
  /\ Outcome("sessions", ok)
  /\ UNCHANGED <<process, accounts, dmrc, logins, events, view, removing, touched, changes>>

(* The user name of a session, unless the session is gone.                 *)
load_session(sessions, path, ok) ==
  IF ok /\ path \in DOMAIN logins THEN Append(sessions, [path |-> path, user |-> logins[path]]) ELSE sessions

load_listed_session(ok) ==
  /\ ~list.asking /\ list.session_paths # <<>>
  /\ list' = [list EXCEPT !.sessions = load_session(@, Head(list.session_paths), ok),
                          !.session_paths = Tail(@)]
  /\ Outcome("sessions", ok)
  /\ UNCHANGED <<process, accounts, dmrc, logins, events, view, removing, touched, changes>>

TellChanged(s, u) == IF u \in ToSet(s.list.users) THEN user_changed_cb(s, u) ELSE s

session_added_cb(ok) ==
  LET path == Head(events).u
      s == [State EXCEPT !.list.sessions = load_session(@, path, ok)]
  IN /\ Head(events).t = "session_added"
     /\ Becomes(IF s = State THEN s ELSE TellChanged(s, logins[path]))
     /\ events' = Tail(events)
     /\ Outcome("sessions", ok)
     /\ UNCHANGED <<process, accounts, dmrc, logins, touched, changes>>

session_removed_cb ==
  LET found == SelectInSeq(list.sessions, LAMBDA x : x.path = Head(events).u) IN
  /\ Head(events).t = "session_removed"
  /\ Becomes(IF found = 0 THEN State
             ELSE TellChanged([State EXCEPT !.list.sessions = RemoveAt(@, found)], list.sessions[found].user))
  /\ events' = Tail(events)
  /\ UNCHANGED <<process, accounts, dmrc, logins, lost, touched, changes>>
----------------------------------------------------------------------------
(* The session a user chose last, used and stored by the daemon (accounts.c)*)

(* dmrc_load: the file in the home directory, or the cache when that can   *)
(* not be read (it may not be mounted).                                    *)
dmrc_load(u, mounted) == IF mounted THEN dmrc[u].home ELSE dmrc[u].cache

(* dmrc_save: both, if the home directory can be written.                  *)
dmrc_save(u, choice, mounted) ==
  [dmrc EXCEPT ![u] = [home |-> IF mounted THEN choice ELSE @.home, cache |-> choice]]

(* common_user_get_session: load_dmrc, once, and not for a user of         *)
(* AccountsService.                                                        *)
load_dmrc(l, u, mounted) ==
  IF l.state = "accounts" \/ u \in l.loaded_dmrc THEN l
  ELSE [l EXCEPT !.loaded_dmrc = @ \union {u}, !.info[u].session = dmrc_load(u, mounted)]

(* Told to AccountsService (which tells of the change) and stored in the   *)
(* file, unless it is what the user has already.                           *)
common_user_set_session(u, choice, mounted) ==
  LET l == load_dmrc(list, u, mounted) IN
  /\ ~Waiting /\ process = "daemon" /\ u \in ToSet(list.users)
  /\ changes < MaxChanges[process] /\ changes' = changes + 1
  /\ list' = l
  /\ IF l.info[u].session = choice THEN UNCHANGED <<accounts, events, dmrc>>
     ELSE /\ dmrc' = dmrc_save(u, choice, mounted)
          /\ IF l.state = "accounts" /\ u \in DOMAIN accounts
               THEN /\ accounts' = [accounts EXCEPT ![u].session = choice]
                    /\ events' = Append(events, [t |-> "changed", u |-> u])
               ELSE UNCHANGED <<accounts, events>>
  /\ UNCHANGED <<process, logins, view, removing, lost, touched>>

----------------------------------------------------------------------------
(* What happens outside: accounts come, go and change, sessions start and  *)
(* end.  AccountsService and the display manager signal it to those who    *)
(* have subscribed, the kernel to those who watch the password file.  The  *)
(* hidden accounts stay as they are.                                       *)

Accounts(t, u) ==
  /\ changes < MaxChanges[process] /\ changes' = changes + 1
  /\ events' =
       IF list.state \in {"listing", "loading", "accounts"} /\ (t = "changed" => u \in list.watched)
         THEN Append(events, [t |-> t, u |-> u])
       ELSE IF list.state = "passwd" /\ list.monitor /\ \A i \in DOMAIN events : events[i].t # "passwd"
         THEN Append(events, [t |-> "passwd", u |-> 0])
       ELSE events
  /\ lost' = IF list.state = "unwatched" THEN lost \union {"users"} ELSE lost
  /\ UNCHANGED <<process, dmrc, logins, list, view, removing>>

AddAccount(u, real) ==
  /\ u \notin DOMAIN accounts
  /\ accounts' = [v \in DOMAIN accounts \union {u} |->
                    IF v = u THEN [real |-> real, session |-> 1] ELSE accounts[v]]
  /\ touched' = touched \union {u}
  /\ Accounts("added", u)

DeleteAccount(u) ==
  /\ u \in DOMAIN accounts
  /\ accounts' = [v \in DOMAIN accounts \ {u} |-> accounts[v]]
  /\ touched' = touched \union {u}
  /\ Accounts("deleted", u)

ChangeAccount(u, real) ==
  /\ u \in DOMAIN accounts /\ accounts[u].real # real
  /\ accounts' = [accounts EXCEPT ![u].real = real]
  /\ UNCHANGED touched
  /\ Accounts("changed", u)

Signal(t, path) ==
  events' = IF list.session_added_signal THEN Append(events, [t |-> t, u |-> path]) ELSE events

(* Paths are not used again.                                               *)
Login(u, path) ==
  /\ process = "greeter" /\ u \in DOMAIN accounts
  /\ path \notin DOMAIN logins
  /\ changes < MaxChanges[process] /\ changes' = changes + 1
  /\ path = changes' /\ Cardinality(DOMAIN logins) < MaxLogins
  /\ logins' = [p \in DOMAIN logins \union {path} |-> IF p = path THEN u ELSE logins[p]]
  /\ Signal("session_added", path)
  /\ UNCHANGED <<process, accounts, dmrc, list, view, removing, lost, touched>>

Logout(path) ==
  /\ path \in DOMAIN logins
  /\ logins' = [p \in DOMAIN logins \ {path} |-> logins[p]]
  /\ Signal("session_removed", path)
  /\ UNCHANGED <<process, accounts, dmrc, list, view, removing, lost, touched, changes>>

----------------------------------------------------------------------------
(* A greeter makes the wrappers, and on them the rows, when it wants.      *)

MakeWrappers ==
  /\ ~Waiting /\ Loaded /\ process = "greeter" /\ ~view.initialized
  /\ Becomes(initialize_user_list_if_needed(State))
  /\ UNCHANGED <<process, accounts, dmrc, logins, events, lost, touched, changes>>

(* The first row asks for the sessions.                                    *)
MakeRows ==
  /\ ~Waiting /\ view.initialized /\ view.model = "none"
  /\ view.list = <<>> \/ list.session_added_signal
  /\ Becomes(loadUsers(State))
  /\ UNCHANGED <<process, accounts, dmrc, logins, events, lost, touched, changes>>
=============================================================================
