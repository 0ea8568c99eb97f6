----------------------------- MODULE MCSession -----------------------------
(* One session of each kind; two conversations let an answer to the first  *)
(* meet the second.                                                        *)
EXTENDS Session
============================================================================
