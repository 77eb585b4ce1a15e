---------------------------- MODULE MCImapParser ----------------------------
(* Instances of ImapParser for TLC. *)
EXTENDS ImapParser
Line(t, modes) == [text |-> <<"a">> \o t \o <<CRLF>>, good |-> modes]
Good(t) == Line(t, {"Selected"})
Bad(t)  == Line(t, {})
GoodLines == {Good(t) : t \in {
  <<"ENABLE", "CONDSTORE">>, <<"CREATE", "box">>, <<"RENAME", "box", "'string'">>, <<"IDLE">>,
  <<"LIST", "(", "SPECIAL-USE", ")", "'string'", "box", "RETURN", "(", "SPECIAL-USE", ")">>, <<"LSUB", "'string'", "box">>,
  <<"STATUS", "{8}", "data", "(", "MESSAGES", ")">>,
  <<"APPEND", "box", "(", "\\Seen", ")", "'string'", "{9999}", "data", CRLF>>, <<"APPEND", "box", "{8}", "data">>,
  <<"SELECT", "box">>, <<"EXAMINE", "box", "(", "CONDSTORE", ")">>,
  <<"SELECT", "box", "(", "QRESYNC", "(", "7", "7", "1:*", "(", "7", "7", ")", ")", ")">>,
  <<"FETCH", "7", "FLAGS">>, <<"UID", "FETCH", "1:*", "(", "FLAGS", "BODY[]", ")", "(", "CHANGEDSINCE", "7", "VANISHED", ")">>,
  <<"STORE", "7", "(", "UNCHANGEDSINCE", "7", ")", "FLAGS", "(", "\\Seen", ")">>, <<"STORE", "7", "+FLAGS", "(", "word", ")">>,
  <<"MOVE", "1:*", "box">>, <<"EXPUNGE">>, <<"UID", "EXPUNGE", "7">>, <<"CLOSE">>,
  <<"XAPPLEPUSHSERVICE", "aps-version", "7", "aps-subtopic", "word", "mailboxes", "(", "box", ")">>,
  <<"SEARCH", "CHARSET", "UTF-8", "RETURN", "(", "MIN", ")", "OR", "SEEN", "NOT", "(", "SUBJECT", "{8}", "data", "7", ")">>,
  <<"SEARCH", "SINCE", "2-Jan-2020", "HEADER", "word", "word", "LARGER", "7", "UID", "1:*", "MODSEQ", "'string'", "all", "7", "KEYWORD", "word">>}}
BadLines == {Bad(t) : t \in {
  <<>>, <<"FOO">>, <<"NOOP", "word">>, <<"NOOP", "{8}", "data">>, <<"COMPRESS">>, <<"UID", "NOOP">>,
  <<"CREATE">>, <<"CREATE", "{9999}", "data", CRLF>>, <<"LIST", "(", "word", ")">>, <<"LIST", "'string'", "box", "word">>,
  <<"SELECT", "box", "box">>, <<"SELECT", "box", "(", "word", ")">>, <<"APPEND", "box", "word">>, <<"STATUS", "box", "(", "word", ")">>,
  <<"FETCH", "word", "FLAGS">>, <<"FETCH", "7", "(", "ALL", ")">>, <<"STORE", "7", "FLAGS", "\\Seen">>, <<"STORE", "7", "FLAGS", "(", "\\Bad", ")">>,
  <<"SEARCH", "word">>, <<"SEARCH", "(", ")">>, <<"SEARCH", "NOT">>, <<"EXPUNGE", ")">>, <<"MOVE", "7">>}}
AnyModeLines == {Line(t, {"NonAuth", "Selected"}) : t \in {
  <<"NOOP">>, <<"COMPRESS", "DEFLATE">>, <<"ID", "NIL">>, <<"ID", "(", "'string'", "'string'", ")">>}}
LoginLines == {Line(t, {"NonAuth"}) : t \in {
  <<"LOGIN", "word", "{8}", "data">>, <<"AUTHENTICATE", "PLAIN", CRLFWait, "cred">>, <<"STARTTLS">>}}
\* A flag that is not one, in a list of APPEND.
SkipLine == Bad(<<"APPEND", "box", "(", "\\Bad", ")", "{8}", "data">>)
AllLines == GoodLines \cup BadLines \cup AnyModeLines \cup LoginLines \cup {SkipLine}
SkipLines == LoginLines \cup {SkipLine, Good(<<"NOOP">>)}
\* Lines in which the end is read as the end of an optional part.
LooseLines == LoginLines \cup {Good(<<"NOOP">>)} \cup {Bad(t) : t \in {
  <<"LIST">>, <<"ENABLE">>, <<"SELECT", "box", "(", "QRESYNC", "(", "7", "7", ")", ")">>, <<"FETCH", "7", "FLAGS", "word">>}}

\* What the theorem ParserInStep asks of the lines: the end of each is read
\* together with the end of its command.
LinesEndTogether == [][EndsTogether]_vars
=============================================================================
