----------------------------- MODULE MCSpillBox -----------------------------
(* Instances of SpillBox for TLC. *)
EXTENDS SpillBox
CONSTANTS INBOX, Work
AllSeqSets == {<<FALSE, << <<1, 1>>, <<2, 2>> >> >>, <<TRUE, << <<1, 1>>, <<3, 0>> >> >>}
Stores == {<<"add", {Deleted}, 0>>, <<"replace", {Seen}, 1>>}
=============================================================================
