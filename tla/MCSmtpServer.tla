---------------------------- MODULE MCSmtpServer ----------------------------
(* Small instances of SmtpServer for TLC. *)
EXTENDS SmtpServer, TLC

CONSTANTS c1, c2, c3, c4

\* Connections are interchangeable.
Symmetry == Permutations(Conns)
=============================================================================
