---------------------------- MODULE MailDelivery ----------------------------
(***************************************************************************)
(* What spilldb promises about a mail, without its queues: a submission is *)
(* opened and addressed; once it is accepted its envelope does not change; *)
(* only its addressees ever get it, a user at most once, and only what an  *)
(* authenticated user submits is relayed to other servers.                 *)
(***************************************************************************)
EXTENDS Naturals

CONSTANTS
  Subs,           \* submissions
  Addrs,          \* addresses
  UserAddresses   \* local address -> user

VARIABLES
  opened,      \* submissions so far
  authOf,      \* submission -> is its sender authenticated?
  rcptsOf,     \* submission -> its envelope
  accepted,    \* submissions the sender was told are accepted
  inbox,       \* <<submission, user>>
  relayed      \* <<submission, address>>

vars == <<opened, authOf, rcptsOf, accepted, inbox, relayed>>

LocalAddrs == DOMAIN UserAddresses

Init ==
  /\ opened = 0
  /\ authOf = [b \in Subs |-> FALSE]
  /\ rcptsOf = [b \in Subs |-> {}]
  /\ accepted = {}
  /\ inbox = {}
  /\ relayed = {}

Open(b, auth) ==
  /\ b = opened + 1
  /\ opened' = b
  /\ authOf' = [authOf EXCEPT ![b] = auth]
  /\ UNCHANGED <<rcptsOf, accepted, inbox, relayed>>

\* An address joins the envelope while nothing has been done with the mail.
Address(b, a) ==
  /\ b <= opened
  /\ b \notin accepted
  /\ \A d \in inbox \cup relayed : d[1] # b
  /\ authOf[b] \/ a \in LocalAddrs
  /\ rcptsOf' = [rcptsOf EXCEPT ![b] = @ \cup {a}]
  /\ UNCHANGED <<opened, authOf, accepted, inbox, relayed>>

Accept(b) ==
  /\ b <= opened
  /\ b \notin accepted
  /\ accepted' = accepted \cup {b}
  /\ UNCHANGED <<opened, authOf, rcptsOf, inbox, relayed>>

\* A user gets the mail through an address of the envelope.
Deliver(b, u) ==
  /\ <<b, u>> \notin inbox
  /\ \E a \in rcptsOf[b] \cap LocalAddrs : UserAddresses[a] = u
  /\ inbox' = inbox \cup {<<b, u>>}
  /\ UNCHANGED <<opened, authOf, rcptsOf, accepted, relayed>>

\* A remote server takes the mail, not necessarily for the first time.
Relay(b, as) ==
  /\ b \in accepted
  /\ authOf[b]
  /\ as \subseteq rcptsOf[b] \ LocalAddrs
  /\ relayed' = relayed \cup {<<b, a>> : a \in as}
  /\ UNCHANGED <<opened, authOf, rcptsOf, accepted, inbox>>

Next ==
  \/ \E b \in Subs, auth \in BOOLEAN : Open(b, auth)
  \/ \E b \in Subs, a \in Addrs : Address(b, a)
  \/ \E b \in Subs : Accept(b)
  \/ \E b \in Subs, u \in {UserAddresses[a] : a \in LocalAddrs} : Deliver(b, u)
  \/ \E b \in Subs, as \in SUBSET Addrs : Relay(b, as)

Spec == Init /\ [][Next]_vars
=============================================================================
