---------------------------- MODULE MCImapSearch ----------------------------
(* Mailboxes of up to three messages and a list of commands for ImapSearch.  *)
EXTENDS ImapSearch

CONSTANTS MaxUID, MaxModSeq, MaxMsgs

Looks == {[flags |-> {"Recent"}, size |-> 1, date |-> 2, hdrs |-> [Subject |-> {"a"}]],
          [flags |-> {"Seen"}, size |-> 2, date |-> 3, hdrs |-> [Subject |-> {"a", "b"}, To |-> {"b"}]],
          [flags |-> {"Recent", "Seen", "Deleted"}, size |-> 3, date |-> 4, hdrs |-> [To |-> {"a", "b"}]]}

Msg(uid, modseq, look) ==
  [uid |-> uid, modseq |-> modseq, flags |-> look.flags,
   size |-> look.size, date |-> look.date, hdrs |-> look.hdrs]

Msgs == {Msg(u, m, l) : u \in 1..MaxUID, m \in 1..MaxModSeq, l \in Looks}

SmallBoxes ==
  {b \in BoundedSeq(Msgs, MaxMsgs) : \A i \in 1..Len(b) - 1 : b[i].uid < b[i + 1].uid}

Key(k, n) == [key |-> k, num |-> n, name |-> "To", value |-> "b", seqs |-> <<<<2, 3>>>>, children |-> <<>>]
Within(k, seqs) == [Key(k, 0) EXCEPT !.seqs = seqs]
Op(k, ops) == [Key(k, 0) EXCEPT !.children = ops]

Keys ==
  {Key(k, 2) : k \in {"ALL", "MODSEQ", "LARGER", "SMALLER", "BEFORE", "ON", "SINCE",
                      "NEW", "OLD", "SEEN", "UNDELETED", "SUBJECT", "HEADER", "BODY"}}
  \cup {Within("SEQSET", <<<<1, 1>>, <<3, 0>>>>), Within("UID", <<<<2, 0>>>>),
        Within("UID", <<<<4, 4>>, <<1, 2>>>>),
        Op("NOT", <<Key("NEW", 0)>>),
        Op("OR", <<Key("SEEN", 0), Within("SEQSET", <<<<2, 2>>>>)>>),
        Op("AND", <<Key("MODSEQ", 1), Op("NOT", <<Key("ON", 2)>>)>>),
        Op("AND", <<Op("OR", <<Key("SEEN", 0), Key("MODSEQ", 2)>>), Within("UID", <<<<2, 4>>>>)>>)}

\* The keys, those inside them, and how deep they are nested.
Children(op) == {op.children[i] : i \in DOMAIN op.children}
SomeOps == Keys \cup UNION {Children(op) \cup UNION {Children(c) : c \in Children(op)} : op \in Keys}

RECURSIVE HeightOf(_)
HeightOf(op) == IF op.children = <<>> THEN 0
                ELSE 1 + CHOOSE h \in 0..MaxHeight : /\ \E c \in Children(op) : HeightOf(c) = h
                                                     /\ \A c \in Children(op) : HeightOf(c) <= h

SomeCommands ==
  {[op |-> op, uid |-> uid, ret |-> ret] :
     op \in Keys, uid \in BOOLEAN,
     ret \in {{}, {"MIN"}, {"MAX"}, {"MIN", "MAX"}, {"ALL"}, {"COUNT", "MIN"},
              {"MIN", "MAX", "ALL", "COUNT"}}}
=============================================================================
