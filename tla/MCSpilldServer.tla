-------------------------- MODULE MCSpilldServer ----------------------------
(* Model-checking instances of SpilldServer.                                 *)
EXTENDS SpilldServer
CONSTANTS imap, ann
=============================================================================
