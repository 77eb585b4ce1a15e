----------------------------- MODULE MailStore -----------------------------
(***************************************************************************)
(* What imap.Mailbox promises of a user's mail, whichever sessions use it: *)
(* a message is in one mailbox, gets there whole, leaves it only for       *)
(* another one or because it was marked \Deleted, and never comes back.    *)
(* Each step is the effect of one command that succeeded.                  *)
(***************************************************************************)
EXTENDS Naturals

CONSTANTS Messages, Boxes, NoMsg, Gone

VARIABLES where,    \* the mailbox a message is in, NoMsg or Gone
          deleted   \* messages that carry \Deleted

Init == where = [i \in Messages |-> NoMsg] /\ deleted = {}

\* Only messages that are in a go, and they go to b.
Transfer(a, b) == \A i \in Messages : where'[i] = where[i] \/ (where[i] = a /\ where'[i] = b)

\* Only messages that are in m after the step get or lose \Deleted.
MarkIn(m) == \A i \in Messages : (i \in deleted) = (i \in deleted') \/ where'[i] = m

\* APPEND and delivery add a message, COPY one for each that it copies.
Add(m) ==
  /\ Transfer(NoMsg, m)
  /\ \A i \in Messages : (i \in deleted) = (i \in deleted') \/ where[i] = NoMsg

\* STORE changes the flags of messages of one mailbox.
Mark(m) == UNCHANGED where /\ MarkIn(m)

\* MOVE takes messages of one mailbox to another, \Deleted or not.
Move(m, n) == Transfer(m, n) /\ UNCHANGED deleted

\* EXPUNGE removes messages that carry \Deleted.
Remove(m) ==
  /\ Transfer(m, Gone)
  /\ \A i \in Messages : where'[i] = where[i] \/ i \in deleted
  /\ UNCHANGED deleted

Next == \E m \in Boxes : Add(m) \/ Mark(m) \/ Remove(m) \/ \E n \in Boxes : Move(m, n)

Spec == Init /\ [][Next]_<<where, deleted>>
=============================================================================
