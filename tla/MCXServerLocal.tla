--------------------------- MODULE MCXServerLocal ---------------------------
(* Instances of XServerLocal.  There are as many VTs as servers and a      *)
(* display number for every server and for the foreign X server, so that   *)
(* creating a server always finds one, and one released too late or too    *)
(* early is noticed.                                                       *)
EXTENDS XServerLocal, TLC

CONSTANTS s1, s2, script

(* Two servers that compete for VTs and numbers.                           *)
MCServers == {s1, s2}
MCVTs == 7..8
MCDisplayNumbers == 0..2
MCForeign == {0}
MCSymmetry == Permutations(MCServers)

(* One server and one script that blocks the daemon.                       *)
MCOneServer == {s1}
MCServerAndScript == {s1, script}
=============================================================================
