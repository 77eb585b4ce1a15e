--------------------------- MODULE MCMailPipeline ---------------------------
(* Small instances of MailPipeline for TLC. *)
EXTENDS MailPipeline, TLC

CONSTANTS s1, s2, ann, ann2, bob, rem

\* User 1 has two addresses, user 2 has one.
TwoUsers == (ann :> 1) @@ (ann2 :> 1) @@ (bob :> 2)
JustBob  == bob :> 2
AnnBob   == (ann :> 1) @@ (bob :> 2)
=============================================================================
