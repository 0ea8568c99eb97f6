------------------------------ MODULE MCUnity ------------------------------
(* Instances of Unity.  Two sessions are enough for one to follow another  *)
(* on the compositor, on the same X server and on another X server.        *)
EXTENDS Unity
=============================================================================
