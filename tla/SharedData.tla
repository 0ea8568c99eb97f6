----------------------------- MODULE SharedData -----------------------------
(***************************************************************************)
(* The directories users and greeters share (shared-data-manager.c).  When *)
(* the daemon starts it lists them, some at a time, and has those deleted  *)
(* whose user is not in the list of users; later it has those of removed   *)
(* users deleted.  /bin/rm runs by itself: nothing waits for it.           *)
(***************************************************************************)
EXTENDS UserList

CONSTANT NUM_ENUMERATION_FILES  \* directories read at a time

ASSUME SharedAssumption == NUM_ENUMERATION_FILES \in Nat \ {0}

VARIABLES
  dirs,  \* users that have a directory
  data   \* private data and progress of the manager; history: unlisted, the
         \* users whose directory was made, after the others were
         \* listed, while they were not in the list

sharedVars == <<listVars, dirs, data>>

SharedInit ==
  /\ ListInit
  /\ dirs \in IF process = "daemon" THEN SUBSET Users ELSE {{}}
  /\ data = [phase |-> "new", starting_dirs |-> {}, unread |-> {}, unlisted |-> {}]

(* Called by main once.                                                    *)
shared_data_manager_start ==
  /\ process = "daemon" /\ data.phase = "new"
  /\ data' = [data EXCEPT !.phase = "listing"]
  /\ UNCHANGED <<listVars, dirs>>

list_user_dirs_cb(ok) ==
  /\ ~Waiting /\ data.phase = "listing"
  /\ data' = [data EXCEPT !.phase = IF ok THEN "reading" ELSE "failed", !.unread = IF ok THEN dirs ELSE {}]
  /\ UNCHANGED <<listVars, dirs>>

(* Mutant of next_user_dirs_cb: the users are taken as they are known.     *)
next_user_dirs_cb_known(files) ==
  /\ ~Waiting /\ data.phase = "reading"
  /\ files \subseteq (dirs \union data.unread) \ data.starting_dirs /\ Cardinality(files) <= NUM_ENUMERATION_FILES
  /\ data.unread \subseteq files \/ Cardinality(files) = NUM_ENUMERATION_FILES
  /\ data' = [data EXCEPT !.starting_dirs = @ \union files, !.unread = @ \ files,
                          !.phase = IF files = {} THEN "deciding" ELSE @]
  /\ UNCHANGED <<listVars, dirs>>

(* Mutant of next_user_dirs_cb: only the first directories are read.       *)
next_user_dirs_cb_once(files) ==
  /\ ~Waiting /\ data.phase = "reading"
  /\ files \subseteq (dirs \union data.unread) \ data.starting_dirs /\ Cardinality(files) <= NUM_ENUMERATION_FILES
  /\ data.unread \subseteq files \/ Cardinality(files) = NUM_ENUMERATION_FILES
  /\ data' = [data EXCEPT !.starting_dirs = @ \union files, !.unread = @ \ files,
                          !.phase = "deciding"]
  /\ list' = IF list.state = "unloaded" THEN [list EXCEPT !.state = "listing"] ELSE list
  /\ UNCHANGED <<process, accounts, dmrc, logins, events, view, removing, lost, touched, changes, dirs>>

(* Directories that are made meanwhile may be returned or not.  With none  *)
(* left the users are asked for, which may load them.                      *)
next_user_dirs_cb(files) ==
  /\ ~Waiting /\ data.phase = "reading"
  /\ files \subseteq (dirs \union data.unread) \ data.starting_dirs /\ Cardinality(files) <= NUM_ENUMERATION_FILES
  /\ data.unread \subseteq files \/ Cardinality(files) = NUM_ENUMERATION_FILES
  /\ data' = [data EXCEPT !.starting_dirs = @ \union files, !.unread = @ \ files,
                          !.phase = IF files = {} THEN "deciding" ELSE @]
  /\ list' = IF files = {} /\ list.state = "unloaded" THEN [list EXCEPT !.state = "listing"] ELSE list
  /\ UNCHANGED <<process, accounts, dmrc, logins, events, view, removing, lost, touched, changes, dirs>>

next_user_dirs_error ==
  /\ ~Waiting /\ data.phase = "reading"
  /\ data' = [data EXCEPT !.phase = "failed"]
  /\ UNCHANGED <<listVars, dirs>>

(* The end of next_user_dirs_cb, when common_user_list_get_users returns.  *)
delete_unused_users ==
  /\ ~Waiting /\ data.phase = "deciding"
  /\ removing' = removing \union (data.starting_dirs \ ToSet(list.users))
  /\ data' = [data EXCEPT !.phase = "done", !.starting_dirs = {}]
  /\ UNCHANGED <<process, accounts, dmrc, logins, events, list, view, lost, touched, changes, dirs>>

(* For a session that starts, or a greeter that asks.                      *)
shared_data_manager_ensure_user_dir(u) ==
  /\ process = "daemon" /\ ~Waiting /\ data.phase # "deciding"
  /\ u \in DOMAIN accounts /\ u \notin dirs
  /\ dirs' = dirs \union {u}
  /\ data' = IF u \in ToSet(list.users) \/ data.phase \in {"new", "listing"} THEN data ELSE [data EXCEPT !.unlisted = @ \union {u}]
  /\ UNCHANGED listVars

(* /bin/rm -rf, some time later.                                           *)
rm(u) ==
  /\ u \in removing
  /\ removing' = removing \ {u}
  /\ dirs' = dirs \ {u}
  /\ UNCHANGED <<process, accounts, dmrc, logins, events, list, view, lost, touched, changes, data>>

----------------------------------------------------------------------------
(* The process, between two calls of the main loop                         *)

Answers ==
  \E ok \in BOOLEAN :
    ListCachedUsers(ok) \/ load_listed_user(ok) \/ monitor_passwd(ok) \/ GetSessions(ok) \/ load_listed_session(ok)

Delivers ==
  /\ events # <<>> /\ ~Waiting /\ data.phase # "deciding"
  /\ \/ \E ok \in BOOLEAN : \/ passwd_changed_cb(ok) \/ accounts_user_added_cb(ok)
                            \/ accounts_user_changed_cb(ok) \/ session_added_cb(ok)
     \/ accounts_user_deleted_cb \/ session_removed_cb

Asks ==
  data.phase # "deciding" /\
  (\/ load_users \/ load_sessions \/ MakeWrappers \/ MakeRows
   \/ \E u \in Users, choice \in SessionNames, mounted \in BOOLEAN : common_user_set_session(u, choice, mounted))

(* Real names only matter to a greeter.                                    *)
Outside ==
  \/ \E u \in Users \ System :
       \/ DeleteAccount(u)
       \/ \E real \in IF process = "greeter" THEN RealNames ELSE {0} : AddAccount(u, real) \/ ChangeAccount(u, real)
       \/ \E path \in 1..MaxChanges[process] : Login(u, path)
  \/ \E path \in 1..MaxChanges[process] : Logout(path)

Shares ==
  \/ shared_data_manager_start
  \/ \E ok \in BOOLEAN : list_user_dirs_cb(ok)
  \/ \E files \in SUBSET Users : next_user_dirs_cb(files)
  \/ next_user_dirs_error
  \/ delete_unused_users

SharedNext ==
  \/ (Answers \/ Delivers \/ Asks \/ Outside) /\ UNCHANGED <<dirs, data>>
  \/ Shares
  \/ \E u \in Users : shared_data_manager_ensure_user_dir(u) \/ rm(u)

SharedSpec == SharedInit /\ [][SharedNext]_sharedVars

----------------------------------------------------------------------------
(* Properties *)

Settled == ~Waiting /\ events = <<>>
InfoIs(u) == IF list.state = "accounts" THEN list.info[u] = accounts[u] ELSE list.info[u].real = accounts[u].real

(* When every signal has been handled the list has exactly the accounts    *)
(* that are to be shown, once each, and what it says of them is right,     *)
(* whatever happened while it was being loaded (load_users, the callbacks  *)
(* of user-list.c).  A call that failed, or a change of the password file  *)
(* between reading and watching it, is excepted.                           *)
ListConverges ==
  Loaded /\ Settled /\ "users" \notin lost =>
    /\ ToSet(list.users) = DOMAIN accounts \ System
    /\ Len(list.users) = Cardinality(ToSet(list.users))
    /\ \A u \in ToSet(list.users) : InfoIs(u)

(* The rows of a Qt greeter are the listed users, and with AccountsService *)
(* each row says what the list knows: the wrappers, found by their place,  *)
(* are in the order of the list (user_list_changed_cb of user.c).          *)
RowsMirror ==
  view.model = "connected" =>
    /\ Len(view.rows) = Len(list.users)
    /\ {view.rows[i].name : i \in DOMAIN view.rows} = ToSet(list.users)
    /\ list.state = "accounts" =>
         view.list = list.users /\ ToSet(view.rows) = {UserItem(list, u) : u \in ToSet(list.users)}

(* No session is missed by a greeter that shows who is logged in, also one *)
(* that started while the sessions were being read (load_sessions).        *)
LoginsSeen ==
  list.session_added_signal /\ Settled /\ "sessions" \notin lost =>
    \A path \in DOMAIN logins : \E i \in DOMAIN list.sessions : list.sessions[i].path = path

(* The list of users and that of sessions are complete once every signal   *)
(* has been handled, whatever came while they were being read.             *)
ListInv == ListConverges /\ LoginsSeen

(* The directory of a user that is shown and whose account has been there  *)
(* all the time is never deleted: not by the daemon that starts, and not   *)
(* when others come and go (next_user_dirs_cb, user_removed_cb).  Entries  *)
(* that could not be read, and answers that did not come, are excepted.    *)
DirectoriesKept ==
  [][\A u \in dirs \ dirs' : u \in touched \union System \/ u \notin DOMAIN accounts]_sharedVars

(* Once everything is handled no directory is left without an account, of  *)
(* those that were there when the daemon started and of those of users     *)
(* that went (delete_unused_user).  The directory of a user that was not   *)
(* in the list when it was made may stay, because nobody tells when that   *)
(* user goes; so may all when the users could not be read.                 *)
ObsoleteGone ==
  data.phase = "done" /\ Settled /\ removing = {} /\ "users" \notin lost =>
    dirs \subseteq DOMAIN accounts \union data.unlisted

(* The documentation of common_user_get_logged_in: "TRUE if the user is    *)
(* currently logged in."                                                   *)
LoggedInIsTrue ==
  list.session_added_signal /\ Settled =>
    \A u \in ToSet(list.users) : get_logged_in_cb(list, u) => \E path \in DOMAIN logins : logins[path] = u
=============================================================================
