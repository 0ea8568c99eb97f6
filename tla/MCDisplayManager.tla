-------------------------- MODULE MCDisplayManager --------------------------
(* One logind seat, required or not, next to the default seat and a remote *)
(* one; two types, so that a fallback can be tried once; changes of logind *)
(* enough to remove a seat, add it again and change it.                    *)
EXTENDS DisplayManagerService
=============================================================================
