--------------------------- MODULE UserListeners ---------------------------
(***************************************************************************)
(* Who shows the list of users in a greeter: the wrappers of liblightdm    *)
(* (liblightdm-gobject/user.c) and the rows of the Qt model on top of them *)
(* (liblightdm-qt/usersmodel.cpp).  Both run inside the signals of the     *)
(* common list (common/user-list.c, module UserList), so they are written  *)
(* as operators on its state:                                              *)
(*   s.list   the common list: users in order, info about each, sessions   *)
(*   s.view   the wrappers and the rows                                    *)
(* Users are numbers, ordered as their names are; a real name is 0 (none)  *)
(* or its place among the names.                                           *)
(***************************************************************************)
EXTENDS Naturals, Sequences, SequencesExt

NoView == [initialized |-> FALSE, list |-> <<>>, model |-> "none", rows |-> <<>>]

(* Place of user u in a list it is in (g_list_index, from 1).              *)
Place(users, u) == SelectInSeq(users, LAMBDA x : x = u)

(* get_logged_in_cb, once the sessions are loaded.                         *)
get_logged_in_cb(list, u) == \E i \in DOMAIN list.sessions : list.sessions[i].user = u

(* What lightdm_user_get_* tell the model about a user.                    *)
UserItem(list, u) == [name |-> u, real |-> list.info[u].real, logged |-> get_logged_in_cb(list, u)]

----------------------------------------------------------------------------
(* The Qt model *)

cb_userAdded(s, u) ==
  IF s.view.model # "connected" THEN s
  ELSE [s EXCEPT !.view.rows = Append(@, UserItem(s.list, u))]

(* The row is found by the name of the user the signal carries.            *)
cb_userChanged(s, u) ==
  IF s.view.model # "connected" THEN s
  ELSE [s EXCEPT !.view.rows =
          [i \in DOMAIN @ |-> IF @[i].name = u THEN UserItem(s.list, u) ELSE @[i]]]

cb_userRemoved(s, u) ==
  IF s.view.model # "connected" THEN s
  ELSE [s EXCEPT !.view.rows = RemoveFirstMatch(@, LAMBDA r : r.name = u)]

(* The rows of the users that are listed when the model is made.  With no  *)
(* user the model does not connect to the list.                            *)
loadUsers(s) ==
  IF s.view.list = <<>> THEN [s EXCEPT !.view.model = "unconnected"]
  ELSE [s EXCEPT !.view.model = "connected",
                 !.view.rows = [i \in DOMAIN s.view.list |-> UserItem(s.list, s.view.list[i])]]

----------------------------------------------------------------------------
(* The wrappers *)

initialize_user_list_if_needed(s) ==
  IF s.view.initialized THEN s
  ELSE [s EXCEPT !.view.initialized = TRUE, !.view.list = s.list.users]

(* Mutant of user_list_added_cb: the wrapper is put at the end.            *)
user_list_added_cb_last(s, u) ==
  IF ~s.view.initialized THEN s
  ELSE cb_userAdded([s EXCEPT !.view.list = Append(@, u)], u)

(* The wrapper gets the place the user has in the common list, or the last *)
(* one when there are not that many wrappers yet.                          *)
user_list_added_cb(s, u) ==
  LET at == Place(s.list.users, u) IN
  IF ~s.view.initialized THEN s
  ELSE cb_userAdded([s EXCEPT !.view.list = IF at > Len(@) THEN Append(@, u) ELSE InsertAt(@, at, u)], u)

(* The signal is passed on for the wrapper that has the place of the user  *)
(* in the common list; there may be none.                                  *)
user_list_changed_cb(s, u) ==
  LET at == Place(s.list.users, u) IN
  IF ~s.view.initialized \/ at \notin DOMAIN s.view.list THEN s
  ELSE cb_userChanged(s, s.view.list[at])

user_list_removed_cb(s, u) ==
  IF u \notin ToSet(s.view.list) THEN s
  ELSE cb_userRemoved([s EXCEPT !.view.list = RemoveFirst(@, u)], u)
============================================================================
