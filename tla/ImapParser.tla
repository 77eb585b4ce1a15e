----------------------------- MODULE ImapParser -----------------------------
(***************************************************************************)
(* The IMAP command parser (imap/imapparser) on the bytes of a connection. *)
(* The input is a sequence of lexemes; a literal is its header, "{n}CRLF", *)
(* followed by the lexemes of its data.  Scanner.next tries to read the    *)
(* next lexeme as a token of the kind that is expected, and may leave it   *)
(* unread.  ParseCommand is a table: at each node of a command one token   *)
(* is expected, and the token decides the next node.                       *)
(***************************************************************************)
EXTENDS Naturals, Sequences

CONSTANTS
  Lines,     \* the command lines a client may send: [text, good],
             \* good in the modes in which it is right
  MaxLines,  \* bound: lines of a connection
  Modes      \* the modes of the parser that are tried

CRLF == "CRLF"
CRLFWait == "CRLF+"   \* a CRLF after which the client waits for "+"
Punctuation == {"(", ")", "{8}", "{9999}", "'string'", "\\Seen", "\\Bad", "1:*", "0", "BODY[]", "2-Jan-2020", CRLF, CRLFWait}
Numbers   == {"7", "0"}
Literals  == {"{8}", "{9999}"}
DataLen(x) == IF x = "{8}" THEN 1 ELSE 2      \* lexemes of data
Items     == {"BODY[]", "FLAGS", "UID", "ALL"}
Plain(x)  == x \notin Punctuation \/ x \in Numbers    \* one atom

\* The lexemes of the data of a literal that are still to come after the i-th.
Awaited(t) ==
  LET left[i \in 0..Len(t)] ==
        IF i = 0 THEN 0
        ELSE IF left[i - 1] > 0 THEN left[i - 1] - 1
        ELSE IF t[i] \in Literals THEN DataLen(t[i]) ELSE 0
  IN  left

ASSUME ImapParserAssumption ==
  /\ MaxLines \in Nat /\ Modes \subseteq {"NonAuth", "Auth", "Selected"}
  /\ \A l \in Lines : l.good \subseteq {"NonAuth", "Auth", "Selected"} /\ l.text \in Seq(STRING)

\* A line ends with the only CRLF of it that is not in the data of a literal.
ASSUME LinesAreFramed ==
  \A l \in Lines :
    LET n == Len(l.text) IN
      /\ n > 0 /\ Awaited(l.text)[n] = 0
      /\ \A i \in 1..n : l.text[i] = CRLF /\ Awaited(l.text)[i - 1] = 0 <=> i = n

VARIABLES
  text,        \* the bytes that they are
  lines,       \* the lines that the client sends
  mode,        \* Parser.Mode
  pos,         \* lexemes read so far
  listDepth,   \* Scanner.listDepth
  error,       \* Scanner.Error # nil; nothing resets it
  eof,         \* Scanner.ioErr # nil
  lastWasCRLF, \* Scanner.lastWasCRLF
  node,        \* where ParseCommand is, "tag" at its start, "closed" at the end
  tagged,      \* Command.Tag is set
  uid,         \* Command.UID
  stack,       \* calls of parseSearchKey under way
  from,        \* pos when ParseCommand was called
  results      \* what serveParseCmd made of each call

scanner == <<pos, listDepth, error, eof, lastWasCRLF>>
vars == <<text, lines, mode, scanner, node, tagged, uid, stack, from, results>>

\* The bytes of a sequence of lines, and where the k-th one starts.
Bytes(ls) == LET Cat[k \in 0..Len(ls)] == IF k = 0 THEN <<>> ELSE Cat[k - 1] \o ls[k].text
             IN  Cat[Len(ls)]
Start(k) == LET Sum[j \in 0..Len(lines)] == IF j = 0 THEN 0 ELSE Sum[j - 1] + Len(lines[j].text)
            IN  Sum[k - 1]

-----------------------------------------------------------------------------
(***************************************************************************)
(* The scanner: what an expectation makes of the lexeme ahead.  A scan has *)
(* a token, "none" if the lexeme is not of the kind, an error that ends    *)
(* all scanning, and the number of lexemes it consumes.                    *)
(***************************************************************************)
S(t, n)  == [token |-> t, bad |-> FALSE, eat |-> n]
NoToken  == S("none", 0)
Fail(n)  == [token |-> "none", bad |-> TRUE, eat |-> n]

\* readLiteral: with a limit, a literal that is longer is left unread.
readLiteral(x, t, limited) == IF limited /\ x = "{9999}" THEN Fail(1) ELSE S(t, 1 + DataLen(x))

\* readAtom: a character that is not allowed is an error behind an allowed one.
readAtom(x, t) ==
  CASE x \in {"(", ")"} \cup Literals -> NoToken
    [] x \in {"1:*", "BODY[]"}        -> Fail(1)
    [] OTHER                          -> S(t, 1)

readTag(x) == IF Plain(x) THEN S("Tag", 1) ELSE NoToken

readAstring(x, t) ==
  CASE x \in {"(", ")", "\\Seen", "\\Bad"} -> NoToken
    [] x \in Literals                      -> readLiteral(x, t, TRUE)
    [] OTHER                               -> S(t, 1)

readFlag(x) == IF x = "\\Bad" THEN Fail(1) ELSE readAtom(x, "Flag")

readSequences(x) ==
  CASE x \in {"7", "1:*"} -> S("Sequences", 1)
    [] x = "0"            -> Fail(1)
    [] OTHER              -> Fail(0)

readFetchItem(x) ==
  CASE x \in Items                 -> S("FetchItem", 1)
    [] x \notin Items \cup {"a"} /\ Plain(x) -> Fail(1)
    [] OTHER                       -> NoToken

readDate(x) == IF x = "2-Jan-2020" THEN S("Date", 1) ELSE Fail(0)

\* Mutant: a closing parenthesis is not matched with an open one.
readListEndUnbalanced(x, depth) == IF x = ")" THEN S("ListEnd", 1) ELSE NoToken

readListEnd(x, depth) ==
  CASE x = ")" /\ depth > 0 -> S("ListEnd", 1)
    [] x = ")" /\ depth = 0 -> Fail(1)
    [] OTHER                -> NoToken

readListStart(x) == IF x = "(" THEN S("ListStart", 1) ELSE NoToken

\* The switch of next on what is expected.
Read(expect, x, depth) ==
  IF x \in {CRLF, CRLFWait} THEN S("End", 1) ELSE
  CASE expect = "Atom"        -> readAtom(x, "Atom")
    [] expect = "String"      -> readAstring(x, "String")
    [] expect = "ListMailbox" -> readAstring(x, "ListMailbox")
    [] expect = "Number"      -> IF x \in Numbers THEN S("Number", 1) ELSE NoToken
    [] expect = "Tag"         -> readTag(x)
    [] expect = "Flag"        -> readFlag(x)
    [] expect = "Sequences"   -> readSequences(x)
    [] expect = "FetchItem"   -> readFetchItem(x)
    [] expect = "Date"        -> readDate(x)
    [] expect = "ListStart"   -> readListStart(x)
    [] expect = "ListEnd"     -> readListEnd(x, depth)
    [] expect = "SearchKey"   -> IF x \in {"(", ")"} THEN S("SearchKey", 1)
                                 ELSE IF x \in {"7", "1:*", "0"} THEN [readSequences(x) EXCEPT !.token = "SearchKey"]
                                 ELSE readAtom(x, "SearchKey")
    [] expect \in {"Any", "End", "Literal"} ->
         CASE x \in Literals   -> readLiteral(x, "Literal", FALSE)
           [] x = "'string'"   -> S("String", 1)
           [] x = "("          -> readListStart(x)
           [] x = ")"          -> readListEnd(x, depth)
           [] OTHER            -> readAtom(x, "Atom")

-----------------------------------------------------------------------------
(***************************************************************************)
(* The commands.  A rule: at a node, what is expected, whether the end of  *)
(* the line will do, the tokens with the words they may be and the node    *)
(* they lead to, and the node if there is no such token.  Node "err" is a  *)
(* return of an error, "perr" of p.error, "ok" of nil, and "finish" the    *)
(* check at the bottom that the line ends.                                 *)
(***************************************************************************)
R(at, expect, orEnd, alts, no) == [at |-> at, expect |-> expect, orEnd |-> orEnd, alts |-> alts, no |-> no]
AnyWord == {"any"}
Str(at, next, no)  == R(at, "String", FALSE, {<<"String", AnyWord, next>>}, no)
Open(at, next, no) == R(at, "ListStart", FALSE, {<<"ListStart", AnyWord, next>>}, no)
Shut(at, next, no) == R(at, "ListEnd", FALSE, {<<"ListEnd", AnyWord, next>>}, no)
Num(at, next)      == R(at, "Number", FALSE, {<<"Number", AnyWord, next>>}, "err")
Seqs(at, next)     == R(at, "Sequences", FALSE, {<<"Sequences", AnyWord, next>>}, "err")

EndRules == {R("finish", "End", FALSE, {<<"End", AnyWord, "ok">>}, "perr")}

\* Commands that are valid whatever the mode, and those before login.
LoginRules == {
  R("COMPRESS", "Atom", FALSE, {<<"Atom", {"DEFLATE"}, "finish">>}, "err"),
  R("ID", "Any", FALSE, {<<"ListStart", AnyWord, "id1">>, <<"Atom", {"NIL"}, "finish">>}, "err"),
  R("id1", "Any", FALSE, {<<"ListEnd", AnyWord, "finish">>, <<"String", AnyWord, "id2">>, <<"Atom", {"a"}, "id2">>}, "err"),
  R("id2", "Any", FALSE, {<<"String", AnyWord, "id1">>, <<"Atom", AnyWord, "id1">>}, "err"),
  R("AUTHENTICATE", "String", FALSE, {<<"String", {"PLAIN"}, "auth1">>}, "err"),
  R("auth1", "End", FALSE, {<<"End", AnyWord, "auth2">>}, "perr"),
  R("auth2", "String", FALSE, {<<"String", {"cred"}, "finish">>}, "err"),
  Str("LOGIN", "login1", "err"), Str("login1", "finish", "err")}

EnableRules == {R("ENABLE", "Atom", TRUE, {<<"Atom", AnyWord, "enable1">>}, "finish"),
                R("enable1", "Atom", TRUE, {<<"Atom", AnyWord, "enable1">>, <<"End", AnyWord, "ok">>}, "finish")}

MailboxRules == {Str("CREATE", "finish", "err"), Str("RENAME", "CREATE", "err")}

ListOpts == {"SPECIAL-USE"}
ListRules == {
  Open("LIST", "list1", "list2"),
  Shut("list1", "list2", "list1opt"),
  R("list1opt", "String", FALSE, {<<"String", ListOpts, "list1">>}, "err"),
  Str("list2", "list3", "err"),
  R("list3", "ListMailbox", FALSE, {<<"ListMailbox", AnyWord, "list4">>}, "err"),
  R("list4", "Atom", TRUE, {<<"End", AnyWord, "ok">>, <<"Atom", {"RETURN"}, "list5">>}, "finish"),
  Open("list5", "list6", "err"),
  Shut("list6", "finish", "list6opt"),
  R("list6opt", "String", FALSE, {<<"String", ListOpts, "list6">>}, "err")}

StatusRules == {
  Str("STATUS", "status1", "err"), Open("status1", "status2", "err"),
  R("status2", "Atom", FALSE, {<<"Atom", {"MESSAGES"}, "status2">>}, "status3"),
  R("status3", "ListEnd", TRUE, {<<"ListEnd", AnyWord, "finish">>, <<"End", AnyWord, "finish">>}, "err")}

\* A flag that is not one is skipped: `continue // until we find list end`.
\* A literal behind the one of APPEND, which the parser would copy to the nil
\* Scanner.Literal, is not among the lines the runs send.
AppendRules == {
  Str("APPEND", "append1", "err"),
  R("append1", "Any", FALSE, {<<"ListStart", AnyWord, "append2">>, <<"String", AnyWord, "append4">>,
                              <<"Literal", AnyWord, "finish">>}, "err"),
  R("append2", "ListEnd", TRUE, {<<"ListEnd", AnyWord, "append3">>}, "append2flag"),
  R("append2flag", "Flag", FALSE, {<<"Flag", AnyWord, "append2">>}, "append2bad"),
  R("append2bad", "ListEnd", TRUE, {<<"ListEnd", AnyWord, "err">>}, "append2skip"),
  R("append2skip", "Flag", FALSE, {<<"Flag", AnyWord, "append2bad">>}, "append2bad"),
  R("append3", "Any", FALSE, {<<"String", AnyWord, "append4">>, <<"Literal", AnyWord, "finish">>}, "err"),
  R("append4", "Literal", FALSE, {<<"Literal", AnyWord, "finish">>}, "err")}

\* parseSelect: after QRESYNC with two or three parameters it returns.
SelectRules == {
  Str("SELECT", "select1", "err"),
  R("select1", "ListStart", TRUE, {<<"ListStart", AnyWord, "select2">>, <<"End", AnyWord, "ok">>}, "err"),
  Shut("select2", "finish", "select2opt"),
  R("select2opt", "Atom", FALSE, {<<"Atom", {"CONDSTORE"}, "select2">>, <<"Atom", {"QRESYNC"}, "qresync1">>}, "err"),
  Open("qresync1", "qresync2", "err"), Num("qresync2", "qresync3"), Num("qresync3", "qresync4"),
  Shut("qresync4", "ok", "qresync5"), Seqs("qresync5", "qresync6"),
  Shut("qresync6", "ok", "qresync7"), Open("qresync7", "qresync8", "err"),
  Seqs("qresync8", "qresync9"), Seqs("qresync9", "qresync10"),
  Shut("qresync10", "qresync11", "err"), Shut("qresync11", "select2", "err")}

\* `return err` of FETCH, with a scanner error and err still nil, is "ok".
FetchRules == {
  Seqs("FETCH", "fetch1"), Open("fetch1", "fetch2", "fetch3"),
  R("fetch2", "FetchItem", FALSE, {<<"FetchItem", {"BODY[]", "FLAGS", "UID"}, "fetch2more">>}, "fetch2none"),
  R("fetch2more", "FetchItem", FALSE, {<<"FetchItem", {"BODY[]", "FLAGS", "UID"}, "fetch2more">>}, "fetch2end"),
  Shut("fetch2end", "fetch4", "err"), Shut("fetch2none", "err", "err"),
  R("fetch3", "FetchItem", FALSE, {<<"FetchItem", AnyWord, "fetch4">>}, "err"),
  R("fetch4", "Any", FALSE, {<<"End", AnyWord, "ok">>, <<"ListStart", AnyWord, "fetch5">>}, "err"),
  R("fetch5", "ListEnd", TRUE, {<<"ListEnd", AnyWord, "finish">>}, "fetch6"),
  R("fetch6", "Atom", FALSE, {<<"Atom", {"CHANGEDSINCE"}, "fetch7">>, <<"Atom", {"VANISHED"}, "fetch5">>}, "err"),
  Num("fetch7", "fetch5")}

\* Mutant: STORE, too, goes on until it finds the end of the list.
StoreRulesSkip == {
  Seqs("STORE", "store1"), Open("store1", "store2", "store5"),
  R("store2", "Atom", FALSE, {<<"Atom", {"UNCHANGEDSINCE"}, "store3">>}, "err"),
  Num("store3", "store4"), Shut("store4", "store5", "err"),
  R("store5", "Atom", FALSE, {<<"Atom", {"+FLAGS", "FLAGS"}, "store6">>}, "err"),
  Open("store6", "store7", "err"),
  R("store7", "Flag", FALSE, {<<"Flag", AnyWord, "store7">>}, "store8"),
  Shut("store8", "finish", "store7")}

StoreRules == {
  Seqs("STORE", "store1"), Open("store1", "store2", "store5"),
  R("store2", "Atom", FALSE, {<<"Atom", {"UNCHANGEDSINCE"}, "store3">>}, "err"),
  Num("store3", "store4"), Shut("store4", "store5", "err"),
  R("store5", "Atom", FALSE, {<<"Atom", {"+FLAGS", "FLAGS"}, "store6">>}, "err"),
  Open("store6", "store7", "err"),
  R("store7", "Flag", FALSE, {<<"Flag", AnyWord, "store7">>}, "store8"),
  Shut("store8", "finish", "err")}

CopyRules == {Seqs("COPY", "CREATE"), Seqs("UIDEXPUNGE", "finish")}

PushRules == {
  R("XAPPLEPUSHSERVICE", "String", TRUE,
    {<<"End", AnyWord, "ok">>, <<"String", {"mailboxes"}, "push1">>, <<"String", {"aps-version"}, "push3">>,
     <<"String", {"aps-subtopic"}, "push4">>}, "err"),
  Open("push1", "push2", "err"), Shut("push2", "XAPPLEPUSHSERVICE", "push2box"), Str("push2box", "push2", "err"),
  Num("push3", "XAPPLEPUSHSERVICE"), Str("push4", "XAPPLEPUSHSERVICE", "err")}

\* parseSearchCommands; node "key" is parseSearchKey, called with a token read.
SearchRules == {
  R("SEARCH", "SearchKey", FALSE, {<<"SearchKey", {"CHARSET"}, "search1">>, <<"SearchKey", {"RETURN"}, "search3">>,
                                   <<"SearchKey", AnyWord, "key">>}, "perr"),
  R("search1", "String", FALSE, {<<"String", {"UTF-8"}, "search2">>}, "perr"),
  R("search2", "SearchKey", FALSE, {<<"SearchKey", {"RETURN"}, "search3">>, <<"SearchKey", AnyWord, "key">>}, "perr"),
  Open("search3", "search4", "perr"),
  R("search4", "SearchKey", FALSE, {<<"SearchKey", {"MIN", "ALL"}, "search4">>, <<"SearchKey", {")"}, "search5">>}, "search5"),
  R("search5", "SearchKey", FALSE, {<<"SearchKey", AnyWord, "key">>}, "perr"),
  R("root", "SearchKey", TRUE, {<<"End", AnyWord, "ok">>, <<"SearchKey", AnyWord, "key">>}, "searchEnd"),
  R("list", "SearchKey", FALSE, {<<"SearchKey", {")"}, "return">>, <<"SearchKey", AnyWord, "key">>}, "err"),
  R("list0", "SearchKey", FALSE, {<<"SearchKey", {")"}, "err">>, <<"SearchKey", AnyWord, "key">>}, "err"),
  R("not", "SearchKey", FALSE, {<<"SearchKey", AnyWord, "key">>}, "err"),
  R("keyString", "String", FALSE, {<<"String", AnyWord, "return">>}, "perr"),
  R("keyAtom", "Atom", FALSE, {<<"Atom", AnyWord, "return">>}, "err"),
  R("keyDate", "Date", FALSE, {<<"Date", AnyWord, "return">>}, "err"),
  Str("keyHeader", "keyString", "err"), Num("keyNumber", "return"), Seqs("keySeqs", "return"),
  R("keyModSeq", "Any", FALSE, {<<"String", AnyWord, "keyModSeq1">>, <<"Atom", {"7", "0"}, "return">>}, "err"),
  R("keyModSeq1", "Atom", FALSE, {<<"Atom", AnyWord, "keyModSeq2">>}, "err"),
  R("keyModSeq2", "Any", FALSE, {<<"Atom", {"7", "0"}, "return">>}, "err")}

Rules == EndRules \cup LoginRules \cup EnableRules \cup MailboxRules \cup ListRules \cup StatusRules
         \cup AppendRules \cup SelectRules \cup FetchRules \cup StoreRules \cup CopyRules \cup PushRules
         \cup SearchRules
RuleAt == [n \in {r.at : r \in Rules} |-> CHOOSE r \in Rules : r.at = n]

\* The first node of a command; those that take no argument go to "finish".
Entry == [n \in {"CAPABILITY", "NOOP", "LOGOUT", "STARTTLS", "IDLE", "CHECK", "CLOSE", "EXPUNGE"} |-> "finish"]
FirstNode(n) ==
  CASE n \in DOMAIN Entry       -> Entry[n]
    [] n \in {"DELETE", "SUBSCRIBE", "UNSUBSCRIBE"} -> "CREATE"
    [] n = "EXAMINE" -> "SELECT"
    [] n = "LSUB"    -> "LIST"
    [] n = "MOVE"    -> "COPY"
    [] OTHER         -> n

\* Mutant: the prefix UID does not reach EXPUNGE.
CommandNodeNoUID(n, withUID) == FirstNode(n)
CommandNode(n, withUID) == IF n = "EXPUNGE" /\ withUID THEN "UIDEXPUNGE" ELSE FirstNode(n)

AnyMode  == {"CAPABILITY", "COMPRESS", "LOGOUT", "NOOP", "ID"}
NonAuth  == {"LOGIN", "AUTHENTICATE", "STARTTLS"}
AuthMode == {"APPEND", "CREATE", "DELETE", "ENABLE", "EXAMINE", "IDLE", "LIST", "LSUB", "RENAME", "SELECT",
             "STATUS", "SUBSCRIBE", "UNSUBSCRIBE", "XAPPLEPUSHSERVICE"}
UIDCmds  == {"COPY", "FETCH", "STORE", "SEARCH", "MOVE", "EXPUNGE"}
BoxMode  == {"CHECK", "CLOSE"} \cup UIDCmds
GoodMode(n) == \/ n \in AnyMode
               \/ n \in NonAuth /\ mode = "NonAuth"
               \/ n \in AuthMode /\ mode \in {"Auth", "Selected"}
               \/ n \in BoxMode /\ mode = "Selected"

\* parseSearchKey by the key that was read; a node, and the calls under way.
KeyNode(w) ==
  CASE w \in {"7", "1:*", "ALL", "SEEN"} -> "return"
    [] w \in {"SUBJECT", "TEXT"}         -> "keyString"
    [] w = "KEYWORD"                     -> "keyAtom"
    [] w = "SINCE"                       -> "keyDate"
    [] w = "HEADER"                      -> "keyHeader"
    [] w = "LARGER"                      -> "keyNumber"
    [] w = "UID"                         -> "keySeqs"
    [] w = "MODSEQ"                      -> "keyModSeq"
    [] w \in {"NOT", "OR"}               -> "not"
    [] w = "("                           -> "list0"
    [] OTHER                             -> "err"
Calls(w) == CASE w = "OR" -> <<"not">> [] w = "(" -> <<"list">> [] OTHER -> <<>>

-----------------------------------------------------------------------------
(***************************************************************************)
(* Steps                                                                   *)
(***************************************************************************)
Ahead == text[pos + 1]
AtEOF == pos = Len(text)

\* A literal whose data end with the connection is an error.
Received(r) == IF r.eat > Len(text) - pos THEN Fail(Len(text) - pos) ELSE r

\* Scanner.next.  An error sticks: from then on there is no token.
Next_(expect, orEnd) ==
  LET r    == IF AtEOF THEN Fail(0) ELSE Received(Read(expect, Ahead, listDepth))
      fits == expect = "Any" \/ r.token = expect \/ (orEnd /\ r.token = "End")
  IN  [token |-> IF error \/ r.bad \/ r.token = "none" \/ ~fits THEN "none" ELSE r.token,
       word  |-> IF AtEOF THEN "" ELSE Ahead,
       bad   |-> r.bad,
       end   |-> r.token = "End",
       eat   |-> r.eat,
       depth |-> IF r.token = "ListStart" THEN listDepth + 1
                 ELSE IF r.token = "ListEnd" THEN listDepth - 1 ELSE listDepth]

\* What a call of next leaves in the scanner.
Scanned(r) ==
  /\ pos' = pos + r.eat
  /\ listDepth' = r.depth
  /\ error' = (error \/ r.bad)
  /\ eof' = (eof \/ AtEOF)
  /\ lastWasCRLF' = (r.end /\ r.token = "none")

\* The start of ParseCommand: the tag.
ReadTag ==
  /\ node = "tag"
  /\ LET r == Next_("Tag", FALSE) IN
       /\ Scanned(r)
       /\ node' = IF r.token = "none" THEN "perr" ELSE "name"
       /\ tagged' = (r.token # "none")
  /\ from' = pos /\ uid' = FALSE /\ stack' = <<>>
  /\ UNCHANGED <<text, lines, mode, results>>

\* The name of the command, after UID a second one.
ReadName ==
  /\ node = "name"
  /\ LET r == Next_("Atom", FALSE) IN
       /\ Scanned(r)
       /\ node' = IF r.token = "none" THEN "perr"
                  ELSE IF r.word = "UID" /\ ~uid THEN "name"
                  ELSE IF (uid /\ r.word \notin UIDCmds) \/ ~GoodMode(r.word) THEN "err"
                  ELSE CommandNode(r.word, uid)
       /\ uid' = (uid \/ (r.token # "none" /\ r.word = "UID"))
  /\ UNCHANGED <<text, lines, mode, tagged, stack, from, results>>

\* One token of the arguments.
ReadArg ==
  /\ node \in DOMAIN RuleAt
  /\ LET rule == RuleAt[node]
         r    == Next_(rule.expect, rule.orEnd)
         alts == {a \in rule.alts : a[1] = r.token /\ (a[2] = AnyWord \/ r.word \in a[2])}
         \* a word that is named goes before any word
         best == {a \in alts : a[2] # AnyWord} \cup {a \in alts : \A b \in alts : b[2] = AnyWord}
         next == IF r.token = "none" THEN rule.no
                 ELSE IF alts = {} THEN "err" ELSE (CHOOSE a \in best : TRUE)[3]
     IN  /\ Scanned(r)
         /\ node' = CASE next = "key"    -> KeyNode(r.word)
                      [] next = "fetch2none" /\ (error \/ r.bad) -> "ok"
                      [] next = "fetch2end"  /\ (error \/ r.bad) -> "ok"
                      [] OTHER -> next
         /\ stack' = CASE next = "key" -> Calls(r.word) \o stack
                       [] node = "list" /\ next = "return" -> Tail(stack)
                       [] OTHER -> stack
  /\ UNCHANGED <<text, lines, mode, tagged, uid, from, results>>

\* parseSearchKey returns to its caller, parseSearchCommands at the bottom.
KeyReturns ==
  /\ node = "return"
  /\ node' = IF stack = <<>> THEN "root" ELSE Head(stack)
  /\ stack' = IF stack # <<>> /\ Head(stack) = "not" THEN Tail(stack) ELSE stack
  /\ UNCHANGED <<text, lines, mode, scanner, tagged, uid, from, results>>

Return(outcome, next) ==
  /\ results' = Append(results, [from |-> from, outcome |-> outcome, failed |-> error])
  /\ node' = next
  /\ UNCHANGED <<text, lines, mode, tagged, uid, stack, from>>

\* ParseCommand returns nil and the command is run.
ReturnOK ==
  /\ node = "ok" \/ (node = "searchEnd" /\ ~error)
  /\ Return("ok", "tag")
  /\ UNCHANGED scanner

\* Drain: to the end of the line, unless the last token that failed was it.
\* The header of a literal ends a line too.  If it was not answered with "+"
\* the client does not send what comes after it.
RestOfLine ==
  LET ends == {n \in pos + 1..Len(text) : text[n] \in Literals \cup {CRLF, CRLFWait}}
      next == {Start(k) : k \in 1..Len(lines)} \cup {Len(text)}
      Least(set) == CHOOSE n \in set : \A m \in set : n <= m
  IN  IF ends = {} THEN Len(text)
      ELSE IF text[Least(ends)] = CRLF THEN Least(ends)
      ELSE Least({n \in next : n > Least(ends)})

\* Mutant: Drain does not look whether the line has ended.
DrainAlways == pos' = RestOfLine
Drain == pos' = IF lastWasCRLF THEN pos ELSE RestOfLine

\* The deferred function of ParseCommand, and serveParseCmd: a tagged error
\* and a ParseError are answered with BAD, any other one ends the connection.
ReturnError ==
  /\ node \in {"err", "perr"} \/ (node = "searchEnd" /\ error)
  /\ Drain
  /\ \/ eof /\ error /\ Return("eof", "closed")
     \/ ~(eof /\ error) /\ (tagged \/ (node = "perr" /\ ~error)) /\ Return("bad", "tag")
     \/ ~(eof /\ error) /\ ~(tagged \/ (node = "perr" /\ ~error)) /\ Return("closed", "closed")
  /\ UNCHANGED <<listDepth, error, eof, lastWasCRLF>>

Init ==
  /\ lines \in UNION {[1..k -> Lines] : k \in 1..MaxLines}
  /\ text = Bytes(lines)
  /\ mode \in Modes
  /\ pos = 0 /\ listDepth = 0 /\ error = FALSE /\ eof = FALSE /\ lastWasCRLF = FALSE
  /\ node = "tag" /\ tagged = FALSE /\ uid = FALSE /\ stack = <<>> /\ from = 0
  /\ results = <<>>

Next == ReadTag \/ ReadName \/ ReadArg \/ KeyReturns \/ ReturnOK \/ ReturnError

Spec == Init /\ [][Next]_vars
FairSpec == Spec /\ WF_vars(Next)

-----------------------------------------------------------------------------
(***************************************************************************)
(* Properties                                                              *)
(***************************************************************************)
Nodes == DOMAIN RuleAt \cup {"tag", "name", "return", "searchEnd", "ok", "err", "perr", "closed"}

\* Every variable has its type; parentheses are never closed before they are
\* opened.
TypeOK ==
  /\ pos \in 0..Len(text) /\ listDepth \in Nat
  /\ error \in BOOLEAN /\ eof \in BOOLEAN /\ lastWasCRLF \in BOOLEAN
  /\ node \in Nodes /\ tagged \in BOOLEAN /\ uid \in BOOLEAN
  /\ stack \in Seq({"not", "list"})

FailedBefore(k) == \E j \in 1..k - 1 : results[j].failed

\* The parser stays in step with the client: what it takes for the k-th
\* command is the k-th line, after lines that were wrong as well, and it sees
\* the end of the input after the last line.  Only after a failure of the
\* scanner may it be out of step, and then nothing more is run.
InStep ==
  \A k \in 1..Len(results) :
    \/ k <= Len(lines) /\ results[k].from = Start(k)
    \/ k = Len(lines) + 1 /\ results[k].outcome = "eof"
    \/ FailedBefore(k) /\ results[k].outcome # "ok"

\* The end of a line and the end of a command are read together: after the CRLF
\* ParseCommand reads nothing more, and it does not return without an error
\* before it.  Where it reads an optional part of a command this is not so.
EndsTogether ==
  (node \in DOMAIN RuleAt \cup {"tag", "name"} /\ ~AtEOF /\ ~error') =>
    IF Ahead = CRLF THEN node' = "ok" \/ (node' \in {"err", "perr"} /\ lastWasCRLF')
    ELSE node' \notin {"ok", "searchEnd"} /\ ~lastWasCRLF'

\* A line that is right, and allowed in the mode, is run, unless the scanner
\* failed before.
GoodLinesRun ==
  \A k \in 1..Len(results) :
    k <= Len(lines) /\ mode \in lines[k].good
      => results[k].outcome = "ok" \/ FailedBefore(k)

\* Parsing ends: the loops over lists give up at what is not in the list.  The
\* one that does not is APPEND's loop over its flags: once the scanner has
\* failed on a flag it goes round for ever.
ParseEnds == <>(node = "closed" \/ (error /\ node \in {"append2bad", "append2skip"}))

\* The comment on that loop, "continue // until we find list end", has it end.
AppendEnds == <>(node = "closed")
=============================================================================
