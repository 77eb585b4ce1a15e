---------------------------- MODULE MCImapServer ----------------------------
(* Instances of ImapServer for TLC. *)
EXTENDS ImapServer, TLC
Sym == Permutations(Conns) \cup Permutations(Boxes)
=============================================================================
