----------------------------- MODULE ImapSearch -----------------------------
(* SEARCH and UID SEARCH: the matcher of package imapparser, the scan of     *)
(* the mailbox in package imapdb, and the answer that the server's cmdSearch *)
(* builds from it (plain, or with the RETURN options of RFC 4731).           *)
(*                                                                           *)
(* A message is a record of its UID, mod-sequence, flags, size, date and     *)
(* header (of each field, its set of words).  Dates count half days, so that a message may *)
(* lie inside a day; the date of a search key is the start of its day.       *)
EXTENDS Integers, Sequences, FiniteSets, SequencesExt

CONSTANTS
  Boxes,      \* mailboxes: sequences of messages in the order of their UIDs
  Ops,        \* the search keys (SearchOp) of the commands, and those inside them
  Height(_),  \* how deep a key is nested
  MaxHeight,  \* bound: that depth
  Commands,   \* records [op, uid, ret]: the key, UID SEARCH?, RETURN options
  MaxUint32   \* the bound of UIDs and sequence numbers, scaled down

\* UIDs are unique and ascend, and the highest number is not in use.
ASSUME BoxesAssumption ==
  /\ MaxUint32 \in Nat
  /\ \A b \in Boxes :
       /\ Len(b) \in Nat /\ Len(b) < MaxUint32
       /\ \A k \in 1..Len(b) : b[k].uid \in 1..MaxUint32 - 1 /\ b[k].modseq \in Nat /\ b[k].date \in Nat
       /\ \A j, k \in 1..Len(b) : j < k => b[j].uid < b[k].uid

\* Keys are trees, as the parser builds them; a date is the start of a day.
ASSUME OpsAssumption ==
  /\ MaxHeight \in Nat
  /\ \A op \in Ops :
       /\ Height(op) \in 0..MaxHeight
       /\ \A i \in DOMAIN op.children : op.children[i] \in Ops /\ Height(op.children[i]) < Height(op)
       /\ op.key = "NOT" => Len(op.children) = 1 /\ DOMAIN op.children = {1}
       /\ \A i \in DOMAIN op.seqs : op.seqs[i][1] \in Nat /\ op.seqs[i][2] \in Nat
       /\ op.key = "ON" => op.num \in Nat /\ op.num % 2 = 0

ASSUME CommandsAssumption ==
  \A c \in Commands : c.op \in Ops /\ c.ret \subseteq {"MIN", "MAX", "ALL", "COUNT"}

VARIABLES
  box,        \* the ready messages of the mailbox; the position is the SeqNum
  cmd,        \* c.p.Command
  answer      \* what the client reads, or NoAnswer

vars == <<box, cmd, answer>>

NoAnswer == [kind |-> "none"]

-----------------------------------------------------------------------------
(* The matcher.                                                              *)

\* A range is <<Min, Max>>, and 0 stands for '*'.
SeqContains(seqs, n) ==
  \E r \in ToSet(seqs) : r[1] <= n /\ (r[2] = 0 \/ r[2] >= n)

\* The start of the day of a date.  There is one time zone: imapdb gives dates
\* in local time, the parser in UTC, and the server is one that runs in UTC.
Day(date) == 2 * (date \div 2)

\* The keys that look at one flag, and the flag.
FlagKeys == [RECENT |-> "Recent", SEEN |-> "Seen", ANSWERED |-> "Answered",
             DELETED |-> "Deleted", DRAFT |-> "Draft", FLAGGED |-> "Flagged"]
NoFlagKeys == [OLD |-> "Recent", UNSEEN |-> "Seen", UNANSWERED |-> "Answered",
               UNDELETED |-> "Deleted", UNDRAFT |-> "Draft", UNFLAGGED |-> "Flagged"]

\* The keys that look for a word in a field of the header, and the field.
HeaderKeys == [SUBJECT |-> "Subject", TO |-> "To", FROM |-> "From", CC |-> "CC", BCC |-> "BCC"]
Header(msg, name) == IF name \in DOMAIN msg.hdrs THEN msg.hdrs[name] ELSE {}

\* A key without keys inside it.  Keys that the matcher does not know, or
\* leaves to do (KEYWORD, BODY, TEXT, SENTON...), match nothing.
matchKey(seqNum, msg, o) ==
  CASE o.key = "SEQSET" -> SeqContains(o.seqs, seqNum)
    [] o.key = "UID" -> SeqContains(o.seqs, msg.uid)
    [] o.key = "ALL" -> TRUE
    [] o.key = "BEFORE" -> msg.date < o.num
    [] o.key = "ON" -> Day(msg.date) = o.num
    [] o.key = "SINCE" -> Day(msg.date) >= o.num
    [] o.key = "LARGER" -> msg.size > o.num
    [] o.key = "SMALLER" -> msg.size < o.num
    [] o.key = "MODSEQ" -> msg.modseq >= o.num
    [] o.key = "NEW" -> "Recent" \in msg.flags /\ "Seen" \notin msg.flags
    [] o.key = "HEADER" -> Header(msg, o.name) = {o.value}
    [] o.key \in DOMAIN HeaderKeys -> o.value \in Header(msg, HeaderKeys[o.key])
    [] o.key \in DOMAIN FlagKeys -> FlagKeys[o.key] \in msg.flags
    [] o.key \in DOMAIN NoFlagKeys -> NoFlagKeys[o.key] \notin msg.flags
    [] OTHER -> FALSE

match(seqNum, msg, op) ==
  LET m[o \in Ops] ==
        CASE o.key = "AND" -> \A i \in DOMAIN o.children : m[o.children[i]]
          [] o.key = "OR"  -> \E i \in DOMAIN o.children : m[o.children[i]]
          [] o.key = "NOT" -> Len(o.children) = 1 /\ ~m[o.children[1]]
          [] OTHER -> matchKey(seqNum, msg, o)
  IN  m[op]

hasModSeqOp(op) ==
  LET has[o \in Ops] == o.key = "MODSEQ" \/ \E i \in DOMAIN o.children : has[o.children[i]]
  IN  has[op]

-----------------------------------------------------------------------------
(* The answer.                                                               *)

\* The normalisation of the last range swaps a Min and a Max out of order.
AppendSeqRange(seqs, v) ==
  LET last == IF Last(seqs)[1] > Last(seqs)[2]
              THEN <<Last(seqs)[2], Last(seqs)[1]>> ELSE Last(seqs)
  IN  IF seqs = <<>> \/ v = 0 THEN Append(seqs, <<v, v>>)
      ELSE IF last[2] > 0 /\ last[2] = v - 1
           THEN Append(Front(seqs), <<last[1], last[2] + 1>>)
           ELSE Append(Append(Front(seqs), last), <<v, v>>)

SeqRanges(nums) ==
  LET vals[i \in 0..Len(nums)] == IF i = 0 THEN <<>> ELSE AppendSeqRange(vals[i - 1], nums[i])
  IN  vals[Len(nums)]

\* The local variables of cmdSearch.
NoResults == [nums |-> <<>>, maxModSeq |-> 0,
              min |-> MaxUint32, minModSeq |-> 0, max |-> 0, maxResultModSeq |-> 0]

\* The number by which command c names the message at place k of mailbox b.
Num(b, c, k) == IF c.uid THEN b[k].uid ELSE k

\* The function cmdSearch gives to Search, for the message at place k.
Found(b, c, acc, k) ==
  LET msg == b[k]
      num == Num(b, c, k)
  IN  [nums |-> Append(acc.nums, num),
       maxModSeq |-> IF msg.modseq > acc.maxModSeq THEN msg.modseq ELSE acc.maxModSeq,
       min |-> IF num < acc.min THEN num ELSE acc.min,
       minModSeq |-> IF num < acc.min THEN msg.modseq ELSE acc.minModSeq,
       max |-> IF num > acc.max THEN num ELSE acc.max,
       maxResultModSeq |-> IF num > acc.max THEN msg.modseq ELSE acc.maxResultModSeq]

\* imapdb's Search calls it for each row that matches, by UID.
Results(b, c) ==
  LET scan[k \in 0..Len(b)] ==
        IF k = 0 THEN NoResults
        ELSE IF match(k, b[k], c.op) THEN Found(b, c, scan[k - 1], k) ELSE scan[k - 1]
  IN  scan[Len(b)]

\* Mutant of ReturnModSeq: MIN and MAX together report the first one's mod-sequence.
ReturnModSeqFirst(c, r) ==
  IF c.ret \cap {"ALL", "COUNT"} # {} THEN r.maxModSeq
  ELSE IF "MIN" \in c.ret THEN r.minModSeq
  ELSE r.maxResultModSeq

ReturnModSeq(c, r) ==
  IF c.ret \cap {"ALL", "COUNT"} # {} THEN r.maxModSeq
  ELSE IF {"MIN", "MAX"} \subseteq c.ret
       THEN IF r.maxResultModSeq > r.minModSeq THEN r.maxResultModSeq ELSE r.minModSeq
  ELSE IF "MIN" \in c.ret THEN r.minModSeq
  ELSE r.maxResultModSeq

\* An answer holds the values it gives; a value left out is a set without it.
If(cond, value) == IF cond THEN {value} ELSE {}

ESearch(c, r) ==
  LET some == r.nums # <<>>
  IN  [kind |-> "ESEARCH",
       count |-> If("COUNT" \in c.ret, Len(r.nums)),
       min |-> If(some /\ "MIN" \in c.ret, r.min),
       max |-> If(some /\ "MAX" \in c.ret, r.max),
       all |-> If(some /\ "ALL" \in c.ret, SeqRanges(r.nums)),
       modseq |-> If(some /\ hasModSeqOp(c.op), ReturnModSeq(c, r))]

\* Without a match a plain SEARCH writes no line.
PlainSearch(c, r) ==
  IF r.nums = <<>> THEN [kind |-> "OK"]
  ELSE [kind |-> "SEARCH", nums |-> r.nums, modseq |-> If(hasModSeqOp(c.op), r.maxModSeq)]

Init == box \in Boxes /\ cmd \in Commands /\ answer = NoAnswer

cmdSearch ==
  /\ answer = NoAnswer
  /\ answer' = IF cmd.ret # {} THEN ESearch(cmd, Results(box, cmd))
               ELSE PlainSearch(cmd, Results(box, cmd))
  /\ UNCHANGED <<box, cmd>>

Next == cmdSearch

Spec == Init /\ [][Next]_vars

-----------------------------------------------------------------------------
(* The reference: what a search means, without its loops.                    *)

\* The places of the messages of mailbox b that a key selects, by set algebra.
Meaning(b, op) ==
  LET Flagged(f) == {k \in 1..Len(b) : f \in b[k].flags}
      Upper(r) == IF r[2] = 0 THEN MaxUint32 ELSE r[2]
      mean[o \in Ops] ==
        CASE o.key = "AND" -> {k \in 1..Len(b) : \A i \in DOMAIN o.children : k \in mean[o.children[i]]}
          [] o.key = "OR" -> UNION {mean[o.children[i]] : i \in DOMAIN o.children}
          [] o.key = "NOT" -> 1..Len(b) \ mean[o.children[1]]
          [] o.key = "SEQSET" -> {k \in 1..Len(b) : \E r \in ToSet(o.seqs) : k \in r[1]..Upper(r)}
          [] o.key = "UID" -> {k \in 1..Len(b) : \E r \in ToSet(o.seqs) : b[k].uid \in r[1]..Upper(r)}
          [] o.key = "NEW" -> Flagged("Recent") \ Flagged("Seen")
          [] o.key = "ON" -> {k \in 1..Len(b) : b[k].date \in o.num..o.num + 1}
          [] OTHER -> {k \in 1..Len(b) : matchKey(k, b[k], o)}
  IN  mean[op]

\* The numbers that a list of ranges names.
Named(ranges) == UNION {r[1]..r[2] : r \in ToSet(ranges)}

\* Ranges in ascending order that could not be merged.
Canonical(ranges) ==
  /\ \A i \in DOMAIN ranges : 0 < ranges[i][1] /\ ranges[i][1] <= ranges[i][2]
  /\ \A i \in 1..Len(ranges) - 1 : ranges[i][2] + 1 < ranges[i + 1][1]

\* The answer a to command c on mailbox b: what it names is what the key selects.
Exact(b, c, a) ==
  LET places == Meaning(b, c.op)
      nums == {Num(b, c, k) : k \in places}
      low == {k \in places : \A n \in nums : Num(b, c, k) <= n}
      high == {k \in places : \A n \in nums : Num(b, c, k) >= n}
      named == IF c.ret \cap {"ALL", "COUNT"} # {} \/ c.ret = {} THEN places
               ELSE (IF "MIN" \in c.ret THEN low ELSE {})
                    \cup (IF "MAX" \in c.ret THEN high ELSE {})
      modseqs == {b[k].modseq : k \in named}
      highest == IF hasModSeqOp(c.op)
                 THEN {m \in modseqs : \A n \in modseqs : m >= n} ELSE {}
  IN  CASE a.kind = "OK" -> places = {} /\ c.ret = {}
        [] a.kind = "SEARCH" ->
             /\ places # {} /\ ToSet(a.nums) = nums
             /\ Len(a.nums) = Cardinality(places)
             /\ a.modseq = highest
        [] a.kind = "ESEARCH" ->
             /\ a.count = If("COUNT" \in c.ret, Cardinality(places))
             /\ a.min = (IF "MIN" \in c.ret THEN {Num(b, c, k) : k \in low} ELSE {})
             /\ a.max = (IF "MAX" \in c.ret THEN {Num(b, c, k) : k \in high} ELSE {})
             /\ a.all = {} <=> "ALL" \notin c.ret \/ places = {}
             /\ \A ranges \in a.all : Named(ranges) = nums /\ Canonical(ranges)
             /\ a.modseq = highest

\* The answer of SEARCH is exact: it names the messages the key selects and
\* no others; COUNT, MIN, MAX and the ranges of ALL are those of that set; and
\* when the key asks for mod-sequences, MODSEQ is the highest of the messages
\* that the answer names (RFC 4731, 3.2), although cmdSearch keeps only
\* running minima and maxima.
AnswerExact == answer # NoAnswer => Exact(box, cmd, answer)
=============================================================================
