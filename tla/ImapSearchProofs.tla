-------------------------- MODULE ImapSearchProofs --------------------------
(***************************************************************************)
(* The answer of SEARCH is exact, for every mailbox and every command.     *)
(***************************************************************************)
EXTENDS ImapSearch, InductionLemmas, FiniteSetTheorems, TLAPS

-----------------------------------------------------------------------------
(* The matcher and the meaning of a key.                                   *)

\* The keys inside a key.
Inside(o) == {o.children[i] : i \in DOMAIN o.children}

LEMMA InsideFacts ==
  ASSUME NEW o \in Ops
  PROVE  /\ Height(o) \in 0..MaxHeight /\ MaxHeight \in Nat
         /\ \A c \in Inside(o) : c \in Ops /\ Height(c) < Height(o)
BY OpsAssumption DEF Inside

\* The keys are trees.
Inner == [o \in Ops |-> Inside(o)]

LEMMA KeysAreTrees == Graded(Ops, MaxHeight, [o \in Ops |-> Height(o)], Inner)
BY InsideFacts, OpsAssumption DEF Graded, Inner

\* The matcher is what its recursion says.
LEMMA MatchRecursion ==
  ASSUME NEW n, NEW msg
  PROVE  \A o \in Ops :
           /\ o.key = "AND" => (match(n, msg, o) <=> \A c \in Inside(o) : match(n, msg, c))
           /\ o.key = "OR" => (match(n, msg, o) <=> \E c \in Inside(o) : match(n, msg, c))
           /\ o.key = "NOT" => (match(n, msg, o) <=> ~match(n, msg, o.children[1]))
           /\ o.key \notin {"AND", "OR", "NOT"} => (match(n, msg, o) <=> matchKey(n, msg, o))
<1> DEFINE Body(m, o) == CASE o.key = "AND" -> \A i \in DOMAIN o.children : m[o.children[i]]
                           [] o.key = "OR"  -> \E i \in DOMAIN o.children : m[o.children[i]]
                           [] o.key = "NOT" -> Len(o.children) = 1 /\ ~m[o.children[1]]
                           [] OTHER -> matchKey(n, msg, o)
           V == {TRUE, FALSE} \cup {matchKey(n, msg, o) : o \in Ops}
           M == CHOOSE m : m = [o \in Ops |-> Body(m, o)]
           Step == [m \in [Ops -> V] |-> [o \in Ops |-> Body(m, o)]]
<1>1. \A m, o : /\ o.key = "AND" => Body(m, o) = (\A i \in DOMAIN o.children : m[o.children[i]])
                /\ o.key = "OR" => Body(m, o) = (\E i \in DOMAIN o.children : m[o.children[i]])
                /\ o.key = "NOT" => Body(m, o) = (Len(o.children) = 1 /\ ~m[o.children[1]])
                /\ o.key \notin {"AND", "OR", "NOT"} => Body(m, o) = matchKey(n, msg, o)
  OBVIOUS
<1>2. \A o : match(n, msg, o) = M[o]
  BY DEF match
<1> HIDE DEF Body
<1>3. \A m, o : o \in Ops => Body(m, o) \in V
  <2> TAKE m, o
  <2> SUFFICES ASSUME o \in Ops PROVE Body(m, o) \in V
    OBVIOUS
  <2>1. CASE o.key \in {"AND", "OR", "NOT"}
    BY <1>1, <2>1, Zenon
  <2>2. CASE o.key \notin {"AND", "OR", "NOT"}
    BY <1>1, <2>2
  <2> QED BY <2>1, <2>2
<1>4. ASSUME NEW f, NEW g, NEW o \in Ops, \A c \in Inside(o) : f[c] = g[c] PROVE Body(f, o) = Body(g, o)
  <2>1. \A i \in DOMAIN o.children : f[o.children[i]] = g[o.children[i]]
    BY <1>4 DEF Inside
  <2>2. o.key = "NOT" => 1 \in DOMAIN o.children
    BY OpsAssumption
  <2>3. CASE o.key = "AND"
    <3>1. (\A i \in DOMAIN o.children : f[o.children[i]]) = (\A i \in DOMAIN o.children : g[o.children[i]])
      BY <2>1, Zenon
    <3> QED BY <1>1, <2>3, <3>1, Zenon
  <2>4. CASE o.key = "OR"
    <3>1. (\E i \in DOMAIN o.children : f[o.children[i]]) = (\E i \in DOMAIN o.children : g[o.children[i]])
      BY <2>1, Zenon
    <3> QED BY <1>1, <2>4, <3>1, Zenon
  <2>5. CASE o.key = "NOT"
    <3>1. f[o.children[1]] = g[o.children[1]]
      BY <2>1, <2>2, <2>5
    <3>2. \A m : Body(m, o) = (Len(o.children) = 1 /\ ~m[o.children[1]])
      BY <1>1, <2>5, Zenon
    <3>3. (Len(o.children) = 1 /\ ~f[o.children[1]]) = (Len(o.children) = 1 /\ ~g[o.children[1]])
      BY <3>1, Zenon
    <3> QED BY <3>2, <3>3, Zenon
  <2>6. CASE o.key \notin {"AND", "OR", "NOT"}
    BY <1>1, <2>6
  <2> QED BY <2>3, <2>4, <2>5, <2>6
<1>5. Step \in [[Ops -> V] -> [Ops -> V]]
  <2> HIDE DEF V
  <2> QED BY <1>3
<1>6. \A f \in [Ops -> V], o \in Ops : Step[f][o] = Body(f, o)
  <2> HIDE DEF V
  <2> QED OBVIOUS
<1>7. TRUE \in V
  OBVIOUS
<1> HIDE DEF V, Step
<1>8. PICK f \in [Ops -> V] : f = Step[f]
  <2>1. LooksBelow(Step, Ops, V, Inner)
    BY <1>4, <1>5, <1>6 DEF LooksBelow, Inner
  <2>2. V # {}
    BY <1>7
  <2> QED BY <2>1, <2>2, KeysAreTrees, TreeRecursion
<1>9. f = [o \in Ops |-> Body(f, o)]
  BY <1>6, <1>8
<1>10. M = [o \in Ops |-> Body(M, o)]
  BY <1>9
<1> HIDE DEF M
<1>11. \A o \in Ops : match(n, msg, o) = Body(M, o)
  BY <1>2, <1>10
<1> TAKE o \in Ops
<1>12. /\ \A i \in DOMAIN o.children : M[o.children[i]] = match(n, msg, o.children[i])
       /\ M[o.children[1]] = match(n, msg, o.children[1])
  BY <1>2
<1>13. o.key = "NOT" => Len(o.children) = 1
  BY OpsAssumption
<1>a. ASSUME o.key = "AND" PROVE match(n, msg, o) <=> \A c \in Inside(o) : match(n, msg, c)
  <2>1. match(n, msg, o) = (\A i \in DOMAIN o.children : M[o.children[i]])
    BY <1>a, <1>1, <1>11, Zenon
  <2>2. (\A i \in DOMAIN o.children : M[o.children[i]]) <=> \A c \in Inside(o) : match(n, msg, c)
    <3>1. \A c \in Inside(o) : M[c] = match(n, msg, c)
      BY <1>2
    <3>2. (\A i \in DOMAIN o.children : M[o.children[i]]) <=> \A c \in Inside(o) : M[c]
      BY Zenon DEF Inside
    <3> QED BY <3>1, <3>2, Zenon
  <2> QED BY <2>1, <2>2
<1>b. ASSUME o.key = "OR" PROVE match(n, msg, o) <=> \E c \in Inside(o) : match(n, msg, c)
  <2>1. match(n, msg, o) = (\E i \in DOMAIN o.children : M[o.children[i]])
    BY <1>b, <1>1, <1>11, Zenon
  <2>2. (\E i \in DOMAIN o.children : M[o.children[i]]) <=> \E c \in Inside(o) : match(n, msg, c)
    <3>1. \A c \in Inside(o) : M[c] = match(n, msg, c)
      BY <1>2
    <3>2. (\E i \in DOMAIN o.children : M[o.children[i]]) <=> \E c \in Inside(o) : M[c]
      BY Zenon DEF Inside
    <3> QED BY <3>1, <3>2, Zenon
  <2> QED BY <2>1, <2>2
<1>c. ASSUME o.key = "NOT" PROVE match(n, msg, o) <=> ~match(n, msg, o.children[1])
  BY <1>c, <1>1, <1>11, <1>12, <1>13, Zenon
<1>d. ASSUME o.key \notin {"AND", "OR", "NOT"} PROVE match(n, msg, o) <=> matchKey(n, msg, o)
  BY <1>d, <1>1, <1>11, Zenon
<1> QED BY <1>a, <1>b, <1>c, <1>d

\* The end of a range, as Meaning reads it.
UpTo(r) == IF r[2] = 0 THEN MaxUint32 ELSE r[2]

Compound == {"AND", "OR", "NOT"}
Restated == {"SEQSET", "UID", "NEW", "ON"}

\* The keys that Meaning states in its own words.
Says(b, o, k) ==
  /\ o.key = "SEQSET" => (k \in Meaning(b, o) <=> \E r \in ToSet(o.seqs) : k \in r[1]..UpTo(r))
  /\ o.key = "UID" => (k \in Meaning(b, o) <=> \E r \in ToSet(o.seqs) : b[k].uid \in r[1]..UpTo(r))
  /\ o.key = "NEW" => (k \in Meaning(b, o) <=> "Recent" \in b[k].flags /\ "Seen" \notin b[k].flags)
  /\ o.key = "ON" => (k \in Meaning(b, o) <=> b[k].date \in o.num..o.num + 1)

\* The meaning of a key is what its recursion says.
LEMMA MeaningRecursion ==
  ASSUME NEW b
  PROVE  \A o \in Ops :
           /\ Meaning(b, o) \subseteq 1..Len(b)
           /\ \A k \in 1..Len(b) :
                /\ o.key = "AND" => (k \in Meaning(b, o) <=> \A c \in Inside(o) : k \in Meaning(b, c))
                /\ o.key = "OR" => (k \in Meaning(b, o) <=> \E c \in Inside(o) : k \in Meaning(b, c))
                /\ o.key = "NOT" => (k \in Meaning(b, o) <=> k \notin Meaning(b, o.children[1]))
                /\ Says(b, o, k)
                /\ o.key \notin Compound \cup Restated => (k \in Meaning(b, o) <=> matchKey(k, b[k], o))
<1> DEFINE Flagged(f) == {k \in 1..Len(b) : f \in b[k].flags}
           Upper(r) == IF r[2] = 0 THEN MaxUint32 ELSE r[2]
           Body(m, o) ==
             CASE o.key = "AND" -> {k \in 1..Len(b) : \A i \in DOMAIN o.children : k \in m[o.children[i]]}
               [] o.key = "OR" -> UNION {m[o.children[i]] : i \in DOMAIN o.children}
               [] o.key = "NOT" -> 1..Len(b) \ m[o.children[1]]
               [] o.key = "SEQSET" -> {k \in 1..Len(b) : \E r \in ToSet(o.seqs) : k \in r[1]..Upper(r)}
               [] o.key = "UID" -> {k \in 1..Len(b) : \E r \in ToSet(o.seqs) : b[k].uid \in r[1]..Upper(r)}
               [] o.key = "NEW" -> Flagged("Recent") \ Flagged("Seen")
               [] o.key = "ON" -> {k \in 1..Len(b) : b[k].date \in o.num..o.num + 1}
               [] OTHER -> {k \in 1..Len(b) : matchKey(k, b[k], o)}
           Span == 1..Len(b)
           V == SUBSET Span
           M == CHOOSE m : m = [o \in Ops |-> Body(m, o)]
           Step == [m \in [Ops -> V] |-> [o \in Ops |-> Body(m, o)]]
<1>1. \A m, o :
        /\ o.key = "AND" => Body(m, o) = {k \in Span : \A i \in DOMAIN o.children : k \in m[o.children[i]]}
        /\ o.key = "OR" => Body(m, o) = UNION {m[o.children[i]] : i \in DOMAIN o.children}
        /\ o.key = "NOT" => Body(m, o) = Span \ m[o.children[1]]
  <2> TAKE m, o
  <2>1. CASE o.key = "AND"
    BY <2>1, Zenon
  <2>2. CASE o.key = "OR"
    BY <2>2, Zenon
  <2>3. CASE o.key = "NOT"
    BY <2>3, Zenon
  <2> HIDE DEF Body
  <2> QED BY <2>1, <2>2, <2>3, Zenon
<1>2. \A m, o :
        /\ o.key = "SEQSET" => Body(m, o) = {k \in Span : \E r \in ToSet(o.seqs) : k \in r[1]..UpTo(r)}
        /\ o.key = "UID" => Body(m, o) = {k \in Span : \E r \in ToSet(o.seqs) : b[k].uid \in r[1]..UpTo(r)}
        /\ o.key = "NEW" => Body(m, o) = Flagged("Recent") \ Flagged("Seen")
        /\ o.key = "ON" => Body(m, o) = {k \in Span : b[k].date \in o.num..o.num + 1}
  <2> TAKE m, o
  <2>1. CASE o.key = "SEQSET"
    BY <2>1, Zenon DEF UpTo
  <2>2. CASE o.key = "UID"
    BY <2>2, Zenon DEF UpTo
  <2>3. CASE o.key = "NEW"
    BY <2>3, Zenon
  <2>4. CASE o.key = "ON"
    BY <2>4, Zenon
  <2> HIDE DEF Body
  <2> QED BY <2>1, <2>2, <2>3, <2>4, Zenon
<1>3. \A m, o : o.key \notin Compound \cup Restated => Body(m, o) = {k \in Span : matchKey(k, b[k], o)}
  BY DEF Compound, Restated
<1>4. \A o : Meaning(b, o) = M[o]
  BY DEF Meaning
<1> HIDE DEF Body, Span
<1>5. ASSUME NEW m \in [Ops -> V], NEW o \in Ops PROVE Body(m, o) \in V
  <2>1. \A c \in Inside(o) : m[c] \subseteq Span
    BY InsideFacts
  <2>2. CASE o.key = "OR"
    BY <1>1, <2>1, <2>2 DEF Inside
  <2>3. CASE o.key \in {"AND", "NOT"}
    BY <1>1, <2>3
  <2>4. CASE o.key \in Restated
    BY <1>2, <2>4 DEF Restated, Span
  <2>5. CASE o.key \notin Compound \cup Restated
    BY <1>3, <2>5
  <2> QED BY <2>2, <2>3, <2>4, <2>5 DEF Compound
<1>6. ASSUME NEW f, NEW g, NEW o \in Ops, \A c \in Inside(o) : f[c] = g[c] PROVE Body(f, o) = Body(g, o)
  <2>1. \A i \in DOMAIN o.children : f[o.children[i]] = g[o.children[i]]
    BY <1>6 DEF Inside
  <2>2. CASE o.key = "AND"
    <3>1. {k \in Span : \A i \in DOMAIN o.children : k \in f[o.children[i]]}
            = {k \in Span : \A i \in DOMAIN o.children : k \in g[o.children[i]]}
      BY <2>1
    <3> QED BY <1>1, <2>2, <3>1, Zenon
  <2>3. CASE o.key = "OR"
    <3>1. {f[o.children[i]] : i \in DOMAIN o.children} = {g[o.children[i]] : i \in DOMAIN o.children}
      BY <2>1
    <3> QED BY <1>1, <2>3, <3>1, Zenon
  <2>4. CASE o.key = "NOT"
    <3>1. f[o.children[1]] = g[o.children[1]]
      BY <2>1, <2>4, OpsAssumption
    <3> QED BY <1>1, <2>4, <3>1, Zenon
  <2>5. CASE o.key \in Restated
    <3>1. o.key \in {"SEQSET", "UID", "NEW", "ON"}
      BY <2>5 DEF Restated
    <3>2. CASE o.key = "SEQSET"
      BY <1>2, <3>2, Zenon
    <3>3. CASE o.key = "UID"
      BY <1>2, <3>3, Zenon
    <3>4. CASE o.key = "NEW"
      BY <1>2, <3>4, Zenon
    <3>5. CASE o.key = "ON"
      BY <1>2, <3>5, Zenon
    <3> QED BY <3>1, <3>2, <3>3, <3>4, <3>5
  <2>6. CASE o.key \notin Compound \cup Restated
    BY <1>3, <2>6
  <2> QED BY <2>2, <2>3, <2>4, <2>5, <2>6 DEF Compound
<1>7. Step \in [[Ops -> V] -> [Ops -> V]]
  <2> HIDE DEF V
  <2> QED BY <1>5
<1>8. \A f \in [Ops -> V], o \in Ops : Step[f][o] = Body(f, o)
  <2> HIDE DEF V
  <2> QED OBVIOUS
<1>9. V # {}
  OBVIOUS
<1>10. PICK f \in [Ops -> V] : f = Step[f]
  <2> HIDE DEF V, Step
  <2>1. LooksBelow(Step, Ops, V, Inner)
    BY <1>6, <1>7, <1>8 DEF LooksBelow, Inner
  <2> QED BY <1>9, <2>1, KeysAreTrees, TreeRecursion
<1>11. f = [o \in Ops |-> Body(f, o)]
  <2> HIDE DEF V, Step
  <2> QED BY <1>8, <1>10
<1>12. M = [o \in Ops |-> Body(M, o)]
  BY <1>11
<1> HIDE DEF M
<1>13. \A o \in Ops : Meaning(b, o) = Body(M, o)
  BY <1>4, <1>12
<1>14. Ops \subseteq {o \in Ops : M[o] \subseteq Span}
  <2> DEFINE S == {o \in Ops : M[o] \subseteq Span}
  <2>1. ASSUME NEW o \in Ops, Inner[o] \subseteq S PROVE o \in S
    <3>1. \A c \in Inside(o) : M[c] \subseteq Span
      BY <2>1 DEF Inner
    <3>2. M[o] = Body(M, o)
      BY <1>12
    <3>3. CASE o.key = "OR"
      BY <1>1, <3>1, <3>2, <3>3 DEF Inside
    <3>4. CASE o.key \in {"AND", "NOT"}
      BY <1>1, <3>2, <3>4
    <3>5. CASE o.key \in Restated
      BY <1>2, <3>2, <3>5 DEF Restated, Span
    <3>6. CASE o.key \notin Compound \cup Restated
      BY <1>3, <3>2, <3>6
    <3> QED BY <3>3, <3>4, <3>5, <3>6 DEF Compound
  <2> HIDE DEF S
  <2>2. Ops \subseteq S
    BY <2>1, KeysAreTrees, TreeInduction
  <2> QED BY <2>2 DEF S
<1> TAKE o \in Ops
<1>15. Meaning(b, o) \subseteq 1..Len(b)
  BY <1>4, <1>14 DEF Span
<1>16. ASSUME NEW k \in 1..Len(b)
       PROVE  /\ o.key = "AND" => (k \in Meaning(b, o) <=> \A c \in Inside(o) : k \in Meaning(b, c))
              /\ o.key = "OR" => (k \in Meaning(b, o) <=> \E c \in Inside(o) : k \in Meaning(b, c))
              /\ o.key = "NOT" => (k \in Meaning(b, o) <=> k \notin Meaning(b, o.children[1]))
  BY <1>1, <1>4, <1>13 DEF Span, Inside
<1>17. ASSUME NEW k \in 1..Len(b) PROVE Says(b, o, k)
  BY <1>2, <1>13 DEF Span, Says
<1>18. ASSUME NEW k \in 1..Len(b), o.key \notin Compound \cup Restated
       PROVE  k \in Meaning(b, o) <=> matchKey(k, b[k], o)
  BY <1>3, <1>13, <1>18 DEF Span
<1> QED BY <1>15, <1>16, <1>17, <1>18
\* The comparisons of the matcher are the intervals of the reference.
LEMMA SaysMatch ==
  ASSUME NEW b \in Boxes, NEW o \in Ops, NEW k \in 1..Len(b), o.key \in Restated, Says(b, o, k)
  PROVE  k \in Meaning(b, o) <=> matchKey(k, b[k], o)
<1> DEFINE msg == b[k]
<1>1. /\ Len(b) \in Nat /\ Len(b) < MaxUint32 /\ MaxUint32 \in Nat
      /\ msg.uid \in 1..MaxUint32 - 1 /\ msg.date \in Nat
  BY BoxesAssumption
<1>2. \A r \in ToSet(o.seqs) : r[1] \in Nat /\ r[2] \in Nat
  BY OpsAssumption DEF ToSet
<1>3. ASSUME NEW n \in 1..MaxUint32 - 1
      PROVE  SeqContains(o.seqs, n) <=> \E r \in ToSet(o.seqs) : n \in r[1]..UpTo(r)
  <2>1. \A r \in ToSet(o.seqs) : n \in r[1]..UpTo(r) <=> r[1] <= n /\ (r[2] = 0 \/ r[2] >= n)
    BY <1>1, <1>2 DEF UpTo
  <2> QED BY <2>1 DEF SeqContains
<1>4. CASE o.key = "SEQSET"
  <2>1. k \in 1..MaxUint32 - 1
    BY <1>1
  <2>2. matchKey(k, b[k], o) = (SeqContains(o.seqs, k))
    BY <1>4 DEF matchKey, HeaderKeys, FlagKeys, NoFlagKeys
  <2> QED BY <1>3, <1>4, <2>1, <2>2 DEF Says
<1>5. CASE o.key = "UID"
  <2>1. matchKey(k, b[k], o) = (SeqContains(o.seqs, msg.uid))
    BY <1>5 DEF matchKey, HeaderKeys, FlagKeys, NoFlagKeys
  <2> QED BY <1>1, <1>3, <1>5, <2>1 DEF Says
<1>6. CASE o.key = "NEW"
  <2>1. matchKey(k, b[k], o) = ("Recent" \in msg.flags /\ "Seen" \notin msg.flags)
    BY <1>6 DEF matchKey, HeaderKeys, FlagKeys, NoFlagKeys
  <2> QED BY <1>6, <2>1 DEF Says
<1>7. CASE o.key = "ON"
  <2>1. matchKey(k, b[k], o) = (Day(msg.date) = o.num)
    BY <1>7 DEF matchKey, HeaderKeys, FlagKeys, NoFlagKeys
  <2>2. o.num \in Nat /\ o.num % 2 = 0
    BY <1>7, OpsAssumption
  <2>3. Day(msg.date) = o.num <=> msg.date \in o.num..o.num + 1
    <3> DEFINE d == msg.date
               e == o.num
    <3>1. d \in Nat /\ e \in Nat /\ e % 2 = 0
      BY <1>1, <2>2
    <3> HIDE DEF d, e
    <3>2. 2 * (d \div 2) = e <=> d \in e..e + 1
      BY <3>1
    <3> QED BY <3>2 DEF Day, d, e
  <2> QED BY <1>7, <2>1, <2>3 DEF Says
<1> QED BY <1>4, <1>5, <1>6, <1>7 DEF Restated

\* A key means what the matcher matches.
LEMMA MeaningIsMatch ==
  ASSUME NEW b \in Boxes
  PROVE  \A o \in Ops : \A k \in 1..Len(b) : k \in Meaning(b, o) <=> match(k, b[k], o)
<1> DEFINE S == {o \in Ops : \A k \in 1..Len(b) : k \in Meaning(b, o) <=> match(k, b[k], o)}
<1>1. ASSUME NEW o \in Ops, Inner[o] \subseteq S PROVE o \in S
  <2> SUFFICES ASSUME NEW k \in 1..Len(b) PROVE k \in Meaning(b, o) <=> match(k, b[k], o)
    OBVIOUS
  <2>1. \A c \in Inside(o) : k \in Meaning(b, c) <=> match(k, b[k], c)
    BY <1>1 DEF Inner
  <2>2. CASE o.key = "AND"
    <3>1. match(k, b[k], o) <=> \A c \in Inside(o) : match(k, b[k], c)
      BY <2>2, MatchRecursion, Zenon
    <3>2. k \in Meaning(b, o) <=> \A c \in Inside(o) : k \in Meaning(b, c)
      BY <2>2, MeaningRecursion, Zenon
    <3> QED BY <2>1, <3>1, <3>2, Zenon
  <2>3. CASE o.key = "OR"
    <3>1. match(k, b[k], o) <=> \E c \in Inside(o) : match(k, b[k], c)
      BY <2>3, MatchRecursion, Zenon
    <3>2. k \in Meaning(b, o) <=> \E c \in Inside(o) : k \in Meaning(b, c)
      BY <2>3, MeaningRecursion, Zenon
    <3> QED BY <2>1, <3>1, <3>2, Zenon
  <2>4. CASE o.key = "NOT"
    <3>1. o.children[1] \in Inside(o)
      BY <2>4, OpsAssumption DEF Inside
    <3>2. match(k, b[k], o) <=> ~match(k, b[k], o.children[1])
      BY <2>4, MatchRecursion, Zenon
    <3>3. k \in Meaning(b, o) <=> k \notin Meaning(b, o.children[1])
      BY <2>4, MeaningRecursion, Zenon
    <3> QED BY <2>1, <3>1, <3>2, <3>3, Zenon
  <2>5. CASE o.key \in Restated
    <3>1. match(k, b[k], o) <=> matchKey(k, b[k], o)
      BY <2>5, MatchRecursion DEF Restated
    <3>2. Says(b, o, k)
      BY MeaningRecursion
    <3>3. k \in Meaning(b, o) <=> matchKey(k, b[k], o)
      BY <2>5, <3>2, SaysMatch
    <3> QED BY <3>1, <3>3
  <2>6. CASE o.key \notin Compound \cup Restated
    <3>1. match(k, b[k], o) <=> matchKey(k, b[k], o)
      BY <2>6, MatchRecursion DEF Compound
    <3> QED BY <2>6, <3>1, MeaningRecursion
  <2> QED BY <2>2, <2>3, <2>4, <2>5, <2>6 DEF Compound
<1>2. Ops \subseteq S
  <2> HIDE DEF S
  <2> QED BY <1>1, KeysAreTrees, TreeInduction
<1> QED BY <1>2
-----------------------------------------------------------------------------
(* The scan of the mailbox.                                                *)

Tallies == [nums : Seq(Nat), maxModSeq : Nat, min : Nat, minModSeq : Nat,
            max : Nat, maxResultModSeq : Nat]

\* The number of a message fits the range, and numbers ascend.
LEMMA NumFacts ==
  ASSUME NEW b \in Boxes, NEW c
  PROVE  /\ Len(b) \in Nat /\ MaxUint32 \in Nat
         /\ \A k \in 1..Len(b) : /\ Num(b, c, k) \in Nat /\ 0 < Num(b, c, k) /\ Num(b, c, k) < MaxUint32
                                 /\ b[k].modseq \in Nat
         /\ \A j, k \in 1..Len(b) : j < k => Num(b, c, j) < Num(b, c, k)
<1>1. CASE c.uid
  BY <1>1, BoxesAssumption DEF Num
<1>2. CASE ~c.uid
  BY <1>2, BoxesAssumption DEF Num
<1> QED BY <1>1, <1>2

LEMMA FoundType ==
  ASSUME NEW b \in Boxes, NEW c, NEW acc \in Tallies, NEW k \in 1..Len(b)
  PROVE  Found(b, c, acc, k) \in Tallies
<1>1. Num(b, c, k) \in Nat /\ b[k].modseq \in Nat
  BY NumFacts
<1>2. Append(acc.nums, Num(b, c, k)) \in Seq(Nat)
  BY <1>1 DEF Tallies
<1> QED BY <1>1, <1>2 DEF Found, Tallies

\* Results is what its recursion says.
LEMMA ScanRecursion ==
  ASSUME NEW b \in Boxes, NEW c
  PROVE  \E scan : /\ scan[0] = NoResults /\ Results(b, c) = scan[Len(b)]
                   /\ \A k \in 0..Len(b) : scan[k] \in Tallies
                   /\ \A k \in 1..Len(b) :
                        scan[k] = IF match(k, b[k], c.op) THEN Found(b, c, scan[k - 1], k) ELSE scan[k - 1]
<1>n. PICK n \in Nat : n = Len(b)
  BY NumFacts
<1> DEFINE Row(acc, k) == IF match(k, b[k], c.op) THEN Found(b, c, acc, k) ELSE acc
           F == [k \in 1..n |-> [acc \in Tallies |-> Row(acc, k)]]
           Scan == CHOOSE scan : scan = [k \in 0..n |-> IF k = 0 THEN NoResults ELSE Row(scan[k - 1], k)]
<1>1. Results(b, c) = Scan[n]
  BY <1>n DEF Results
<1>2. \A k \in 1..n, acc \in Tallies : Row(acc, k) \in Tallies
  BY <1>n, FoundType
<1>3. NoResults \in Tallies
  <2>1. <<>> \in Seq(Nat) /\ MaxUint32 \in Nat
    BY BoxesAssumption
  <2> QED BY <2>1 DEF NoResults, Tallies
<1> HIDE DEF Row
<1>4. F \in [1..n -> [Tallies -> Tallies]] /\ \A k \in 1..n, acc \in Tallies : F[k][acc] = Row(acc, k)
  <2> DEFINE V == Tallies
  <2>1. \A k \in 1..n, acc \in V : Row(acc, k) \in V
    BY <1>2
  <2> HIDE DEF V
  <2>2. [k \in 1..n |-> [acc \in V |-> Row(acc, k)]] \in [1..n -> [V -> V]]
    BY <2>1
  <2>3. \A k \in 1..n, acc \in V : [j \in 1..n |-> [a \in V |-> Row(a, j)]][k][acc] = Row(acc, k)
    OBVIOUS
  <2> QED BY <2>2, <2>3 DEF V
<1> HIDE DEF F
<1>5. PICK f : Solves(f, n, Tallies, NoResults, F)
  <2> DEFINE V == Tallies
             z == NoResults
  <2>1. F \in [1..n -> [V -> V]] /\ z \in V
    BY <1>3, <1>4
  <2> HIDE DEF V, z
  <2>2. \E f : Solves(f, n, V, z, F)
    BY <2>1, Recursion
  <2> QED BY <2>2 DEF V, z
<1>6. f \in [0..n -> Tallies] /\ f[0] = NoResults /\ \A k \in 1..n : f[k] = F[k][f[k - 1]]
  BY <1>5 DEF Solves
<1>7. \A k \in 1..n : f[k] = Row(f[k - 1], k)
  <2> TAKE k \in 1..n
  <2>1. k - 1 \in 0..n
    OBVIOUS
  <2>2. f[k - 1] \in Tallies
    BY <1>6, <2>1, Zenon
  <2> QED BY <1>4, <1>6, <2>2, Zenon
<1>8. \A k \in 0..n : f[k] = IF k = 0 THEN NoResults ELSE Row(f[k - 1], k)
  <2>1. \A k \in 0..n : k = 0 \/ k \in 1..n
    OBVIOUS
  <2> QED BY <1>6, <1>7, <2>1, Zenon
<1>9. f = [k \in 0..n |-> IF k = 0 THEN NoResults ELSE Row(f[k - 1], k)]
  BY <1>6, <1>8, Zenon
<1>10. Scan = [k \in 0..n |-> IF k = 0 THEN NoResults ELSE Row(Scan[k - 1], k)]
  BY <1>9, Zenon
<1> HIDE DEF Scan
<1>11. Scan[0] = NoResults /\ \A k \in 1..n : Scan[k] = Row(Scan[k - 1], k)
  <2>1. 0 \in 0..n /\ \A k \in 1..n : k \in 0..n /\ k # 0
    OBVIOUS
  <2>2. \A k \in 0..n : Scan[k] = IF k = 0 THEN NoResults ELSE Row(Scan[k - 1], k)
    BY <1>10, Zenon
  <2> QED BY <2>1, <2>2, Zenon
<1>12. \A k \in 0..n : Scan[k] \in Tallies
  <2> DEFINE T == {k \in 0..n : Scan[k] \in Tallies}
  <2>1. 0 \in T
    BY <1>3, <1>11
  <2>2. \A k \in 0..n - 1 : k \in T => k + 1 \in T
    <3> TAKE k \in 0..n - 1
    <3> HAVE k \in T
    <3>1. PICK j \in 1..n : j = k + 1 /\ j - 1 = k
      OBVIOUS
    <3>2. Scan[j] = Row(Scan[k], j)
      BY <1>11, <3>1
    <3>3. Scan[j] \in Tallies /\ j \in 0..n
      BY <1>2, <3>2
    <3> QED BY <3>1, <3>3
  <2> HIDE DEF T
  <2>3. \A k \in 0..n : k \in T
    BY <2>1, <2>2, Induct
  <2> QED BY <2>3 DEF T
<1> QED BY <1>n, <1>1, <1>11, <1>12 DEF Row
\* The numbers are those of the messages at the places P, in ascending order.
Listed(b, c, nums, P) ==
  /\ \A i, j \in 1..Len(nums) : i < j => nums[i] < nums[j]
  /\ \A i \in 1..Len(nums) : \E j \in P : nums[i] = Num(b, c, j)
  /\ \A j \in P : \E i \in 1..Len(nums) : nums[i] = Num(b, c, j)
  /\ IsFiniteSet(P) /\ Len(nums) = Cardinality(P)

\* The running minimum and maximum are those of the first and the last place.
Ends(b, c, r, P) ==
  \E lo, hi \in P :
    /\ \A j \in P : lo <= j /\ j <= hi
    /\ r.min = Num(b, c, lo) /\ r.minModSeq = b[lo].modseq
    /\ r.max = Num(b, c, hi) /\ r.maxResultModSeq = b[hi].modseq

\* The mod-sequence is the highest of the messages at the places P.
Tops(b, r, P) ==
  /\ \A j \in P : b[j].modseq <= r.maxModSeq
  /\ \E j \in P : r.maxModSeq = b[j].modseq

\* What the loop has found after the places P.
Tallied(b, c, r, P) ==
  /\ Listed(b, c, r.nums, P)
  /\ P = {} => r = NoResults
  /\ P # {} => Ends(b, c, r, P) /\ Tops(b, r, P)

LEMMA FoundListed ==
  ASSUME NEW b \in Boxes, NEW c, NEW nums \in Seq(Nat), NEW k \in 1..Len(b),
         NEW P \in SUBSET (1..k - 1), Listed(b, c, nums, P)
  PROVE  Listed(b, c, Append(nums, Num(b, c, k)), P \cup {k})
<1>0. Num(b, c, k) \in Nat
  BY NumFacts
<1>1. PICK s \in Seq(Nat) : s = Append(nums, Num(b, c, k))
  <2>1. Append(nums, Num(b, c, k)) \in Seq(Nat)
    BY <1>0
  <2> QED BY <2>1, Zenon
<1>2. PICK m \in Nat : m = Len(nums)
  OBVIOUS
<1>3. Len(s) = m + 1 /\ s[m + 1] = Num(b, c, k) /\ \A i \in 1..m : s[i] = nums[i]
  BY <1>1, <1>2
<1>4. \A j \in P : j \in 1..Len(b) /\ j < k
  BY NumFacts
<1>5. \A j \in P : Num(b, c, j) < Num(b, c, k)
  BY <1>4, NumFacts
<1>6. \A i \in 1..m : nums[i] \in Nat /\ nums[i] < Num(b, c, k)
  BY <1>2, <1>5 DEF Listed
<1>7. ASSUME NEW i \in 1..m + 1, NEW j \in 1..m + 1, i < j PROVE s[i] < s[j]
  <2>1. i \in 1..m
    BY <1>7
  <2>2. CASE j \in 1..m
    BY <1>2, <1>3, <1>7, <2>1, <2>2 DEF Listed
  <2>3. CASE j = m + 1
    BY <1>3, <1>6, <2>1, <2>3
  <2> QED BY <2>2, <2>3
<1>8. ASSUME NEW i \in 1..m + 1 PROVE \E j \in P \cup {k} : s[i] = Num(b, c, j)
  <2>1. CASE i \in 1..m
    BY <1>2, <1>3, <2>1 DEF Listed
  <2>2. CASE i = m + 1
    BY <1>3, <2>2
  <2> QED BY <2>1, <2>2
<1>9. ASSUME NEW j \in P \cup {k} PROVE \E i \in 1..m + 1 : s[i] = Num(b, c, j)
  <2>1. CASE j \in P
    <3>1. PICK i \in 1..m : nums[i] = Num(b, c, j)
      BY <1>2, <2>1 DEF Listed
    <3>2. s[i] = Num(b, c, j) /\ i \in 1..m + 1
      BY <1>3, <3>1
    <3> QED BY <3>2
  <2>2. CASE j = k
    <3>1. m + 1 \in 1..m + 1
      OBVIOUS
    <3> QED BY <1>3, <2>2, <3>1
  <2> QED BY <2>1, <2>2
<1>10. IsFiniteSet(P \cup {k}) /\ Cardinality(P \cup {k}) = m + 1
  <2>1. k \notin P
    BY <1>4
  <2>2. IsFiniteSet(P) /\ Cardinality(P) = m
    BY <1>2 DEF Listed
  <2> QED BY <2>1, <2>2, FS_AddElement
<1> HIDE <1>1
<1>11. Listed(b, c, s, P \cup {k})
  BY <1>3, <1>7, <1>8, <1>9, <1>10 DEF Listed
<1> QED BY <1>1, <1>11

LEMMA FoundTallied ==
  ASSUME NEW b \in Boxes, NEW c, NEW acc \in Tallies, NEW k \in 1..Len(b),
         NEW P \in SUBSET (1..k - 1), Tallied(b, c, acc, P)
  PROVE  Tallied(b, c, Found(b, c, acc, k), P \cup {k})
<1>1. /\ Num(b, c, k) \in Nat /\ 0 < Num(b, c, k) /\ Num(b, c, k) < MaxUint32 /\ b[k].modseq \in Nat
      /\ \A j \in P : /\ j \in 1..Len(b) /\ j < k /\ Num(b, c, j) < Num(b, c, k)
                      /\ Num(b, c, j) \in Nat /\ b[j].modseq \in Nat
  <2>1. Len(b) \in Nat
    BY NumFacts
  <2>2. \A j \in P : j \in 1..Len(b) /\ j < k
    BY <2>1
  <2> QED BY <2>2, NumFacts
<1>2. PICK r \in Tallies : r = Found(b, c, acc, k)
  BY FoundType
<1> DEFINE num == Num(b, c, k)
<1>3. /\ r.nums = Append(acc.nums, num)
      /\ r.maxModSeq = (IF b[k].modseq > acc.maxModSeq THEN b[k].modseq ELSE acc.maxModSeq)
      /\ r.min = (IF num < acc.min THEN num ELSE acc.min)
      /\ r.minModSeq = (IF num < acc.min THEN b[k].modseq ELSE acc.minModSeq)
      /\ r.max = (IF num > acc.max THEN num ELSE acc.max)
      /\ r.maxResultModSeq = (IF num > acc.max THEN b[k].modseq ELSE acc.maxResultModSeq)
  BY <1>2 DEF Found
<1>4. Listed(b, c, r.nums, P \cup {k})
  <2>1. acc.nums \in Seq(Nat) /\ Listed(b, c, acc.nums, P)
    BY DEF Tallied, Tallies
  <2> QED BY <1>3, <2>1, FoundListed
<1>a. /\ acc.maxModSeq \in Nat /\ acc.min \in Nat /\ acc.minModSeq \in Nat
      /\ acc.max \in Nat /\ acc.maxResultModSeq \in Nat
  BY DEF Tallies
<1>5. Ends(b, c, r, P \cup {k})
  <2>1. CASE P = {}
    <3>1. acc.min = MaxUint32 /\ acc.max = 0
      BY <2>1 DEF Tallied, NoResults
    <3>2. r.min = num /\ r.minModSeq = b[k].modseq /\ r.max = num /\ r.maxResultModSeq = b[k].modseq
      BY <1>1, <1>3, <3>1
    <3>3. k \in P \cup {k} /\ \A j \in P \cup {k} : k <= j /\ j <= k
      BY <2>1
    <3> QED BY <3>2, <3>3 DEF Ends
  <2>2. CASE P # {}
    <3>1. PICK lo, hi \in P :
            /\ \A j \in P : lo <= j /\ j <= hi
            /\ acc.min = Num(b, c, lo) /\ acc.minModSeq = b[lo].modseq
            /\ acc.max = Num(b, c, hi) /\ acc.maxResultModSeq = b[hi].modseq
      BY <2>2 DEF Tallied, Ends
    <3>2. r.min = Num(b, c, lo) /\ r.minModSeq = b[lo].modseq
      BY <1>1, <1>3, <3>1
    <3>3. r.max = num /\ r.maxResultModSeq = b[k].modseq
      BY <1>1, <1>3, <3>1
    <3>4. lo \in P \cup {k} /\ k \in P \cup {k} /\ \A j \in P \cup {k} : lo <= j /\ j <= k
      BY <1>1, <3>1
    <3> QED BY <3>2, <3>3, <3>4 DEF Ends
  <2> QED BY <2>1, <2>2
<1>6. Tops(b, r, P \cup {k})
  <2>1. CASE P = {}
    <3>1. acc.maxModSeq = 0
      BY <2>1 DEF Tallied, NoResults
    <3>2. r.maxModSeq = b[k].modseq
      BY <1>1, <1>3, <3>1
    <3> QED BY <1>1, <2>1, <3>2 DEF Tops
  <2>2. CASE P # {}
    <3>1. PICK q \in P : acc.maxModSeq = b[q].modseq
      BY <2>2 DEF Tallied, Tops
    <3>2. \A j \in P : b[j].modseq <= acc.maxModSeq
      BY <2>2 DEF Tallied, Tops
    <3>3. \A j \in P \cup {k} : b[j].modseq <= r.maxModSeq
      <4>1. b[k].modseq <= r.maxModSeq /\ acc.maxModSeq <= r.maxModSeq /\ r.maxModSeq \in Nat
        BY <1>1, <1>3, <1>a
      <4>2. ASSUME NEW j \in P PROVE b[j].modseq <= r.maxModSeq
        <5>1. b[j].modseq \in Nat /\ b[j].modseq <= acc.maxModSeq
          BY <1>1, <3>2
        <5> QED BY <1>a, <4>1, <5>1
      <4> QED BY <4>1, <4>2
    <3>4. r.maxModSeq = b[q].modseq \/ r.maxModSeq = b[k].modseq
      BY <1>3, <3>1
    <3> QED BY <3>3, <3>4 DEF Tops
  <2> QED BY <2>1, <2>2
<1> QED BY <1>2, <1>4, <1>5, <1>6 DEF Tallied

\* The loop finds what the key means.
LEMMA ResultsTallied ==
  ASSUME NEW b \in Boxes, NEW c \in Commands
  PROVE  Results(b, c) \in Tallies /\ Tallied(b, c, Results(b, c), Meaning(b, c.op))
<1>n. PICK n \in Nat : n = Len(b)
  BY NumFacts
<1>1. PICK scan : /\ scan[0] = NoResults /\ Results(b, c) = scan[n]
                  /\ \A k \in 0..n : scan[k] \in Tallies
                  /\ \A k \in 1..n :
                       scan[k] = IF match(k, b[k], c.op) THEN Found(b, c, scan[k - 1], k) ELSE scan[k - 1]
  <2>1. \E scan : /\ scan[0] = NoResults /\ Results(b, c) = scan[Len(b)]
                  /\ \A k \in 0..Len(b) : scan[k] \in Tallies
                  /\ \A k \in 1..Len(b) :
                       scan[k] = IF match(k, b[k], c.op) THEN Found(b, c, scan[k - 1], k) ELSE scan[k - 1]
    BY ScanRecursion, Zenon
  <2> QED BY <1>n, <2>1, Zenon
<1> DEFINE Hits(k) == {j \in 1..k : match(j, b[j], c.op)}
           T == {k \in 0..n : Tallied(b, c, scan[k], Hits(k))}
<1>2. 0 \in T
  <2>1. Hits(0) = {}
    OBVIOUS
  <2>2. Listed(b, c, <<>>, {})
    BY FS_EmptySet DEF Listed
  <2>3. NoResults.nums = <<>>
    BY DEF NoResults
  <2>4. Tallied(b, c, NoResults, {})
    BY <2>2, <2>3 DEF Tallied
  <2> QED BY <1>1, <2>1, <2>4
<1>3. \A k \in 0..n - 1 : k \in T => k + 1 \in T
  <2> TAKE k \in 0..n - 1
  <2> HAVE k \in T
  <2>1. PICK j \in 1..n : j = k + 1 /\ j - 1 = k
    OBVIOUS
  <2>2. Tallied(b, c, scan[k], Hits(k)) /\ scan[k] \in Tallies /\ Hits(k) \in SUBSET (1..j - 1)
    BY <1>1, <2>1
  <2>3. CASE match(j, b[j], c.op)
    <3>1. Hits(j) = Hits(k) \cup {j}
      <4>1. 1..j = (1..k) \cup {j}
        BY <2>1
      <4> QED BY <2>3, <4>1, Zenon
    <3>2. scan[j] = Found(b, c, scan[k], j)
      BY <1>1, <2>1, <2>3
    <3>3. Tallied(b, c, Found(b, c, scan[k], j), Hits(k) \cup {j})
      <4> HIDE DEF Hits
      <4> QED BY <1>n, <2>2, FoundTallied
    <3>4. Tallied(b, c, scan[j], Hits(j))
      <4> HIDE DEF Hits
      <4> QED BY <3>1, <3>2, <3>3
    <3> QED BY <2>1, <3>4
  <2>4. CASE ~match(j, b[j], c.op)
    <3>1. Hits(j) = Hits(k)
      <4>1. 1..j = (1..k) \cup {j}
        BY <2>1
      <4> QED BY <2>4, <4>1, Zenon
    <3>2. scan[j] = scan[k]
      BY <1>1, <2>1, <2>4
    <3>3. Tallied(b, c, scan[j], Hits(j))
      <4> HIDE DEF Hits
      <4> QED BY <2>2, <3>1, <3>2
    <3> QED BY <2>1, <3>3
  <2> QED BY <2>3, <2>4
<1>4. n \in T
  <2> HIDE DEF T
  <2>1. \A k \in 0..n : k \in T
    BY <1>2, <1>3, Induct
  <2> QED BY <2>1
<1>5. Hits(n) = Meaning(b, c.op)
  <2>1. c.op \in Ops
    BY CommandsAssumption
  <2>2. Meaning(b, c.op) \subseteq 1..n
    BY <1>n, <2>1, MeaningRecursion, Zenon
  <2>3. \A k \in 1..n : k \in Meaning(b, c.op) <=> match(k, b[k], c.op)
    BY <1>n, <2>1, MeaningIsMatch, Zenon
  <2> QED BY <2>2, <2>3
<1> QED
  <2> HIDE DEF Hits
  <2>1. Tallied(b, c, scan[n], Hits(n))
    BY <1>4
  <2> QED BY <1>1, <1>5, <2>1
-----------------------------------------------------------------------------
(* The ranges of ALL.                                                      *)

Pairs == Nat \X Nat

LEMMA PairFacts ==
  ASSUME NEW p \in Pairs
  PROVE  p[1] \in Nat /\ p[2] \in Nat /\ p = <<p[1], p[2]>>
BY DEF Pairs

\* The ways in which a number joins a list of ranges.
LEMMA AppendFirst ==
  ASSUME NEW v
  PROVE  AppendSeqRange(<<>>, v) = << <<v, v>> >>
<1>1. AppendSeqRange(<<>>, v) = Append(<<>>, <<v, v>>)
  BY Zenon DEF AppendSeqRange
<1> QED BY <1>1

EndsIn(s, m, a, z) == m = Len(s) /\ m > 0 /\ s[m] = <<a, z>> /\ a <= z /\ 0 < z

LEMMA AppendNext ==
  ASSUME NEW s \in Seq(Pairs), NEW m \in Nat, NEW a \in Nat, NEW z \in Nat, EndsIn(s, m, a, z),
         NEW v \in Nat, 0 < v
  PROVE  /\ z = v - 1 => AppendSeqRange(s, v) = Append(SubSeq(s, 1, m - 1), <<a, v>>)
         /\ z # v - 1 => AppendSeqRange(s, v) = Append(s, <<v, v>>)
<1> m = Len(s) /\ m > 0 /\ s[m] = <<a, z>> /\ a <= z /\ 0 < z
  BY DEF EndsIn
<1>1. Last(s) = <<a, z>> /\ Front(s) = SubSeq(s, 1, m - 1)
  BY DEF Last, Front
<1>2. AppendSeqRange(s, v) = IF z = v - 1 THEN Append(Front(s), <<a, z + 1>>)
                             ELSE Append(Append(Front(s), <<a, z>>), <<v, v>>)
  <2>1. ~(a > z) /\ v # 0 /\ s # <<>>
    OBVIOUS
  <2> QED BY <1>1, <2>1 DEF AppendSeqRange
<1>3. Append(SubSeq(s, 1, m - 1), <<a, z>>) = s
  OBVIOUS
<1>4. z = v - 1 => z + 1 = v
  OBVIOUS
<1> QED BY <1>1, <1>2, <1>3, <1>4, Zenon

\* The numbers a list of ranges names, place by place.
LEMMA NamedPlaces ==
  ASSUME NEW s \in Seq(Pairs), NEW x
  PROVE  x \in Named(s) <=> \E i \in 1..Len(s) : x \in s[i][1]..s[i][2]
<1>1. DOMAIN s = 1..Len(s)
  OBVIOUS
<1> QED BY <1>1, Zenon DEF Named, ToSet

\* A number above those of a canonical list joins it and keeps it canonical.
LEMMA AppendCanonical ==
  ASSUME NEW s \in Seq(Pairs), Canonical(s), NEW v \in Nat, 0 < v, s # <<>> => s[Len(s)][2] < v
  PROVE  LET t == AppendSeqRange(s, v)
         IN  /\ t \in Seq(Pairs) /\ t # <<>> /\ Canonical(t) /\ t[Len(t)][2] = v
             /\ \A x : x \in Named(t) <=> x \in Named(s) \/ x = v
<1>t. PICK t : t = AppendSeqRange(s, v)
  OBVIOUS
<1> SUFFICES /\ t \in Seq(Pairs) /\ t # <<>> /\ Canonical(t) /\ t[Len(t)][2] = v
             /\ \A x : x \in Named(t) <=> x \in Named(s) \/ x = v
  BY <1>t, Zenon
<1>m. PICK m \in Nat : m = Len(s)
  OBVIOUS
<1>s. \A i \in 1..m : s[i] \in Pairs /\ s[i][1] \in Nat /\ s[i][2] \in Nat
  BY <1>m DEF Pairs
<1>c. /\ \A i \in 1..m : 0 < s[i][1] /\ s[i][1] <= s[i][2]
      /\ \A i \in 1..m - 1 : s[i][2] + 1 < s[i + 1][1]
  BY <1>m DEF Canonical
<1>v. <<v, v>> \in Pairs
  BY DEF Pairs
<1>1. CASE s = <<>>
  <2>0. t = << <<v, v>> >>
    BY <1>1, <1>t, AppendFirst, Zenon
  <2>1. t \in Seq(Pairs) /\ Len(t) = 1 /\ t[1] = <<v, v>>
    BY <1>v, <2>0
  <2>2. Canonical(t)
    BY <2>1 DEF Canonical
  <2>3. ASSUME NEW x PROVE x \in Named(t) <=> x \in Named(s) \/ x = v
    <3>1. x \notin Named(s)
      <4>1. 1..Len(s) = {}
        BY <1>1
      <4> QED BY <4>1, NamedPlaces, Zenon
    <3>2. x \in Named(t) <=> \E i \in 1..Len(t) : x \in t[i][1]..t[i][2]
      BY <2>1, NamedPlaces, Zenon
    <3>3. x \in t[1][1]..t[1][2] <=> x = v
      BY <2>1
    <3>4. 1..Len(t) = {1}
      BY <2>1
    <3> QED BY <3>1, <3>2, <3>3, <3>4, Zenon
  <2>4. t # <<>> /\ t[Len(t)][2] = v
    <3>1. Len(t) # 0
      BY <2>1
    <3>2. t[Len(t)] = <<v, v>>
      BY <2>1, Zenon
    <3> QED BY <3>1, <3>2
  <2> QED BY <2>1, <2>2, <2>3, <2>4
<1>2. CASE s # <<>> /\ s[m][2] # v - 1
  <2>1. m > 0 /\ s[m][2] < v /\ s[m][2] + 1 < v
    <3>1. m > 0 /\ s[m][2] < v
      BY <1>2, <1>m
    <3>2. PICK z \in Nat : z = s[m][2]
      BY <1>s, <3>1
    <3>3. z # v - 1 /\ z < v
      BY <1>2, <3>1, <3>2
    <3>4. z + 1 < v
      BY <3>3
    <3> QED BY <3>1, <3>2, <3>4
  <2>a. PICK a \in Nat, z \in Nat : s[m] = <<a, z>> /\ a <= z /\ 0 < z /\ z # v - 1
    <3>1. m \in 1..m
      BY <2>1
    <3>2. PICK a \in Nat, z \in Nat : s[m] = <<a, z>>
      BY <1>s, <3>1 DEF Pairs
    <3>3. s[m][1] = a /\ s[m][2] = z /\ 0 < s[m][1] /\ s[m][1] <= s[m][2]
      BY <1>c, <3>1, <3>2
    <3> QED BY <1>2, <3>2, <3>3
  <2>0. t = Append(s, <<v, v>>)
    <3>1. EndsIn(s, m, a, z)
      BY <1>m, <2>1, <2>a DEF EndsIn
    <3>2. AppendSeqRange(s, v) = Append(s, <<v, v>>)
      BY <2>a, <3>1, AppendNext
    <3> QED BY <1>t, <3>2, Zenon
  <2>2. PICK u \in Seq(Pairs) : u = Append(s, <<v, v>>) /\ u = t
    <3>1. Append(s, <<v, v>>) \in Seq(Pairs)
      BY <1>v
    <3> QED BY <2>0, <3>1, Zenon
  <2>3. Len(u) = m + 1 /\ u[m + 1] = <<v, v>> /\ \A i \in 1..m : u[i] = s[i]
    BY <1>m, <2>2
  <2>4. Canonical(u)
    <3>1. \A i \in 1..m + 1 : 0 < u[i][1] /\ u[i][1] <= u[i][2]
      BY <1>c, <2>3
    <3>2. \A i \in 1..m : u[i][2] + 1 < u[i + 1][1]
      <4> TAKE i \in 1..m
      <4>1. CASE i = m
        BY <2>1, <2>3, <4>1
      <4>2. CASE i \in 1..m - 1
        BY <1>c, <2>3, <4>2
      <4> QED BY <4>1, <4>2
    <3>3. DOMAIN u = 1..m + 1 /\ 1..Len(u) - 1 = 1..m
      BY <2>3
    <3> QED BY <3>1, <3>2, <3>3 DEF Canonical
  <2>5. ASSUME NEW x PROVE x \in Named(u) <=> x \in Named(s) \/ x = v
    <3>1. x \in Named(u) <=> \E i \in 1..m + 1 : x \in u[i][1]..u[i][2]
      BY <2>3, NamedPlaces
    <3>2. x \in Named(s) <=> \E i \in 1..m : x \in s[i][1]..s[i][2]
      BY <1>m, NamedPlaces
    <3>3. 1..m + 1 = (1..m) \cup {m + 1}
      OBVIOUS
    <3>4. x \in u[m + 1][1]..u[m + 1][2] <=> x = v
      BY <2>3
    <3> QED BY <2>3, <3>1, <3>2, <3>3, <3>4, Zenon
  <2>6. u # <<>> /\ u[Len(u)][2] = v
    BY <2>3
  <2> QED BY <2>2, <2>4, <2>5, <2>6, Zenon
<1>3. CASE s # <<>> /\ s[m][2] = v - 1
  <2>1. m > 0 /\ s[m][2] < v /\ s[m][2] + 1 = v
    <3>1. m > 0
      BY <1>3, <1>m
    <3> QED BY <1>3, <3>1
  <2>2. SubSeq(s, 1, m - 1) \in Seq(Pairs) /\ <<s[m][1], v>> \in Pairs
    BY <1>m, <1>s, <2>1 DEF Pairs
  <2>b. PICK a \in Nat, z \in Nat : s[m] = <<a, z>> /\ a <= z /\ 0 < z /\ 0 < a /\ z = v - 1
    <3>1. m \in 1..m
      BY <2>1
    <3>2. PICK a \in Nat, z \in Nat : s[m] = <<a, z>>
      BY <1>s, <3>1, PairFacts, Zenon
    <3>3. s[m][1] = a /\ s[m][2] = z /\ 0 < s[m][1] /\ s[m][1] <= s[m][2]
      BY <1>c, <3>1, <3>2
    <3> QED BY <1>3, <3>2, <3>3
  <2>a. a = s[m][1] /\ a < v /\ 0 < a
    BY <2>b
  <2>0. t = Append(SubSeq(s, 1, m - 1), <<a, v>>)
    <3>1. EndsIn(s, m, a, z)
      BY <1>m, <2>1, <2>b DEF EndsIn
    <3>2. AppendSeqRange(s, v) = Append(SubSeq(s, 1, m - 1), <<a, v>>)
      BY <2>b, <3>1, AppendNext
    <3> QED BY <1>t, <3>2, Zenon
  <2>3. PICK u \in Seq(Pairs) : u = Append(SubSeq(s, 1, m - 1), <<a, v>>) /\ u = t
    <3>1. Append(SubSeq(s, 1, m - 1), <<a, v>>) \in Seq(Pairs)
      BY <2>2, <2>a
    <3> QED BY <2>0, <3>1, Zenon
  <2>4. Len(u) = m /\ u[m] = <<a, v>> /\ \A i \in 1..m - 1 : u[i] = s[i]
    BY <1>m, <2>1, <2>3
  <2>5. Canonical(u)
    <3>1. \A i \in 1..m : 0 < u[i][1] /\ u[i][1] <= u[i][2]
      <4> TAKE i \in 1..m
      <4>1. CASE i = m
        BY <2>a, <2>4, <4>1
      <4>2. CASE i \in 1..m - 1
        BY <1>c, <2>4, <4>2
      <4> QED BY <4>1, <4>2
    <3>2. \A i \in 1..m - 1 : u[i][2] + 1 < u[i + 1][1]
      <4> TAKE i \in 1..m - 1
      <4>1. u[i + 1][1] = s[i + 1][1]
        <5>1. CASE i + 1 = m
          BY <2>a, <2>4, <5>1
        <5>2. CASE i + 1 \in 1..m - 1
          BY <2>4, <5>2
        <5> QED BY <5>1, <5>2
      <4> QED BY <1>c, <2>4, <4>1
    <3>3. DOMAIN u = 1..m
      BY <2>4
    <3> QED BY <2>4, <3>1, <3>2, <3>3 DEF Canonical
  <2>6. ASSUME NEW x PROVE x \in Named(u) <=> x \in Named(s) \/ x = v
    <3>1. x \in Named(u) <=> \E i \in 1..m : x \in u[i][1]..u[i][2]
      BY <2>4, NamedPlaces
    <3>2. x \in Named(s) <=> \E i \in 1..m : x \in s[i][1]..s[i][2]
      BY <1>m, NamedPlaces
    <3>3. 1..m = (1..m - 1) \cup {m}
      BY <2>1
    <3>4. x \in u[m][1]..u[m][2] <=> x \in s[m][1]..s[m][2] \/ x = v
      <4>1. u[m][1] = a /\ u[m][2] = v
        BY <2>4
      <4>2. s[m][2] \in Nat /\ s[m][2] + 1 = v
        BY <1>s, <2>1
      <4> QED BY <2>a, <4>1, <4>2
    <3> QED BY <2>4, <3>1, <3>2, <3>3, <3>4, Zenon
  <2>7. u # <<>> /\ u[Len(u)][2] = v
    BY <2>1, <2>4
  <2> QED BY <2>3, <2>5, <2>6, <2>7, Zenon
<1> QED BY <1>1, <1>2, <1>3
\* SeqRanges is what its recursion says.
LEMMA RangesRecursion ==
  ASSUME NEW nums \in Seq(Nat)
  PROVE  \E vals : /\ vals[0] = <<>> /\ SeqRanges(nums) = vals[Len(nums)]
                   /\ \A i \in 1..Len(nums) : vals[i] = AppendSeqRange(vals[i - 1], nums[i])
<1>n. PICK n \in Nat : n = Len(nums)
  OBVIOUS
<1> DEFINE F == [i \in 1..n |-> [s \in Seq(Pairs) |-> AppendSeqRange(s, nums[i])]]
           Vals == CHOOSE vals : vals = [i \in 0..n |-> IF i = 0 THEN <<>> ELSE AppendSeqRange(vals[i - 1], nums[i])]
<1>1. SeqRanges(nums) = Vals[n]
  BY <1>n DEF SeqRanges
<1>2. ASSUME NEW s \in Seq(Pairs), NEW v \in Nat PROVE AppendSeqRange(s, v) \in Seq(Pairs)
  <2>1. <<v, v>> \in Pairs
    BY DEF Pairs
  <2>2. CASE s = <<>>
    <3>1. << <<v, v>> >> \in Seq(Pairs)
      BY <2>1
    <3> QED BY <2>2, <3>1, AppendFirst, Zenon
  <2>3. CASE s # <<>>
    <3>1. PICK m \in Nat : m = Len(s) /\ m > 0
      BY <2>3
    <3>a. s[m] \in Pairs
      BY <3>1
    <3>2. PICK a \in Nat, z \in Nat : s[m] = <<a, z>>
      BY <3>a, PairFacts, Zenon
    <3>3. PICK a2 \in Nat, z2 \in Nat : <<a2, z2>> = IF a > z THEN <<z, a>> ELSE <<a, z>>
      OBVIOUS
    <3>4. Last(s) = <<a, z>> /\ Front(s) \in Seq(Pairs)
      BY <3>1, <3>2 DEF Last, Front
    <3>5. <<a2, z2>> \in Pairs /\ <<a2, z2 + 1>> \in Pairs
      BY DEF Pairs
    <3>6. Last(s)[1] = a /\ Last(s)[2] = z /\ <<a2, z2>>[1] = a2 /\ <<a2, z2>>[2] = z2
      BY <3>4
    <3>7. \/ AppendSeqRange(s, v) = Append(s, <<v, v>>)
          \/ AppendSeqRange(s, v) = Append(Front(s), <<a2, z2 + 1>>)
          \/ AppendSeqRange(s, v) = Append(Append(Front(s), <<a2, z2>>), <<v, v>>)
      <4> DEFINE last == IF Last(s)[1] > Last(s)[2] THEN <<Last(s)[2], Last(s)[1]>> ELSE Last(s)
      <4>1. last = <<a2, z2>>
        BY <3>3, <3>4, <3>6
      <4>2. AppendSeqRange(s, v) =
              IF s = <<>> \/ v = 0 THEN Append(s, <<v, v>>)
              ELSE IF last[2] > 0 /\ last[2] = v - 1
                   THEN Append(Front(s), <<last[1], last[2] + 1>>)
                   ELSE Append(Append(Front(s), last), <<v, v>>)
        BY Zenon DEF AppendSeqRange
      <4> HIDE DEF last
      <4> QED BY <3>6, <4>1, <4>2, Zenon
    <3>8. Append(s, <<v, v>>) \in Seq(Pairs) /\ Append(Front(s), <<a2, z2 + 1>>) \in Seq(Pairs)
      BY <2>1, <3>4, <3>5
    <3>9. Append(Append(Front(s), <<a2, z2>>), <<v, v>>) \in Seq(Pairs)
      <4>1. Append(Front(s), <<a2, z2>>) \in Seq(Pairs)
        BY <3>4, <3>5
      <4> QED BY <2>1, <4>1
    <3> QED BY <3>7, <3>8, <3>9, Zenon
  <2> QED BY <2>2, <2>3
<1>3. \A i \in 1..n : nums[i] \in Nat
  BY <1>n
<1>4. F \in [1..n -> [Seq(Pairs) -> Seq(Pairs)]]
        /\ \A i \in 1..n, s \in Seq(Pairs) : F[i][s] = AppendSeqRange(s, nums[i])
  <2> DEFINE V == Seq(Pairs)
  <2>1. \A i \in 1..n, s \in V : AppendSeqRange(s, nums[i]) \in V
    BY <1>2, <1>3
  <2> HIDE DEF V
  <2>2. [i \in 1..n |-> [s \in V |-> AppendSeqRange(s, nums[i])]] \in [1..n -> [V -> V]]
    BY <2>1
  <2>3. \A i \in 1..n, s \in V : [j \in 1..n |-> [q \in V |-> AppendSeqRange(q, nums[j])]][i][s] = AppendSeqRange(s, nums[i])
    OBVIOUS
  <2> QED BY <2>2, <2>3 DEF V
<1> HIDE DEF F
<1>5. PICK f : Solves(f, n, Seq(Pairs), <<>>, F)
  <2> DEFINE V == Seq(Pairs)
             z == <<>>
  <2>1. F \in [1..n -> [V -> V]] /\ z \in V
    BY <1>4
  <2> HIDE DEF V, z
  <2>2. \E f : Solves(f, n, V, z, F)
    BY <2>1, Recursion
  <2> QED BY <2>2 DEF V, z
<1>6. f \in [0..n -> Seq(Pairs)] /\ f[0] = <<>> /\ \A i \in 1..n : f[i] = F[i][f[i - 1]]
  BY <1>5 DEF Solves
<1>7. \A i \in 0..n : f[i] = IF i = 0 THEN <<>> ELSE AppendSeqRange(f[i - 1], nums[i])
  <2> TAKE i \in 0..n
  <2>1. CASE i = 0
    BY <1>6, <2>1, Zenon
  <2>2. CASE i \in 1..n
    <3>1. i - 1 \in 0..n /\ i # 0
      BY <2>2
    <3>2. f[i - 1] \in Seq(Pairs)
      BY <1>6, <3>1, Zenon
    <3> QED BY <1>4, <1>6, <2>2, <3>1, <3>2, Zenon
  <2> QED BY <2>1, <2>2
<1>8. f = [i \in 0..n |-> IF i = 0 THEN <<>> ELSE AppendSeqRange(f[i - 1], nums[i])]
  BY <1>6, <1>7, Zenon
<1>9. Vals = [i \in 0..n |-> IF i = 0 THEN <<>> ELSE AppendSeqRange(Vals[i - 1], nums[i])]
  BY <1>8, Zenon
<1> HIDE DEF Vals
<1>10. Vals[0] = <<>> /\ \A i \in 1..n : Vals[i] = AppendSeqRange(Vals[i - 1], nums[i])
  <2>1. 0 \in 0..n /\ \A i \in 1..n : i \in 0..n /\ i # 0
    OBVIOUS
  <2>2. \A i \in 0..n : Vals[i] = IF i = 0 THEN <<>> ELSE AppendSeqRange(Vals[i - 1], nums[i])
    BY <1>9, Zenon
  <2> QED BY <2>1, <2>2, Zenon
<1> QED BY <1>n, <1>1, <1>10, Zenon

\* The ranges of ascending numbers name them, and cannot be merged.
LEMMA RangesExact ==
  ASSUME NEW nums \in Seq(Nat), \A i \in 1..Len(nums) : 0 < nums[i],
         \A i, j \in 1..Len(nums) : i < j => nums[i] < nums[j]
  PROVE  /\ Canonical(SeqRanges(nums))
         /\ \A x : x \in Named(SeqRanges(nums)) <=> \E i \in 1..Len(nums) : x = nums[i]
<1>n. PICK n \in Nat : n = Len(nums)
  OBVIOUS
<1>0. \A i \in 1..n : nums[i] \in Nat /\ 0 < nums[i]
  BY <1>n
<1>1. PICK vals : /\ vals[0] = <<>> /\ SeqRanges(nums) = vals[n]
                  /\ \A i \in 1..n : vals[i] = AppendSeqRange(vals[i - 1], nums[i])
  BY <1>n, RangesRecursion
<1> DEFINE Right(s, k) == /\ s \in Seq(Pairs) /\ Canonical(s)
                          /\ s # <<>> => k > 0 /\ s[Len(s)][2] = nums[k]
                          /\ \A x : x \in Named(s) <=> \E i \in 1..k : x = nums[i]
           T == {k \in 0..n : Right(vals[k], k)}
<1>2. 0 \in T
  <2>1. <<>> \in Seq(Pairs) /\ Canonical(<<>>)
    BY DEF Canonical
  <2>2. ASSUME NEW x PROVE x \in Named(<<>>) <=> \E i \in 1..0 : x = nums[i]
    <3>1. <<>> \in Seq(Pairs) /\ 1..Len(<<>>) = {} /\ 1..0 = {}
      OBVIOUS
    <3> QED BY <3>1, NamedPlaces, Zenon
  <2>3. Right(<<>>, 0)
    BY <2>1, <2>2, Zenon
  <2> HIDE DEF Right
  <2>4. 0 \in 0..n
    OBVIOUS
  <2> QED BY <1>1, <2>3, <2>4, Zenon
<1>3. \A k \in 0..n - 1 : k \in T => k + 1 \in T
  <2> TAKE k \in 0..n - 1
  <2> HAVE k \in T
  <2>1. PICK j \in 1..n : j = k + 1 /\ j - 1 = k
    OBVIOUS
  <2>2. PICK s \in Seq(Pairs) : s = vals[k] /\ Right(s, k)
    OBVIOUS
  <2>3. nums[j] \in Nat /\ 0 < nums[j]
    BY <1>0
  <2>4. s # <<>> => s[Len(s)][2] < nums[j]
    <3>1. k > 0 => nums[k] < nums[j]
      BY <1>n, <2>1
    <3> QED BY <2>2, <3>1
  <2>5. PICK t : t = AppendSeqRange(s, nums[j])
    OBVIOUS
  <2>6. /\ t \in Seq(Pairs) /\ t # <<>> /\ Canonical(t) /\ t[Len(t)][2] = nums[j]
        /\ \A x : x \in Named(t) <=> x \in Named(s) \/ x = nums[j]
    BY <2>2, <2>3, <2>4, <2>5, AppendCanonical, Zenon
  <2>7. t = vals[j]
    BY <1>1, <2>1, <2>2, <2>5
  <2>8. \A x : x \in Named(t) <=> \E i \in 1..j : x = nums[i]
    <3>1. 1..j = (1..k) \cup {j}
      BY <2>1
    <3>2. \A x : x \in Named(s) <=> \E i \in 1..k : x = nums[i]
      BY <2>2, Zenon
    <3> QED BY <2>6, <3>1, <3>2, Zenon
  <2>9. Right(t, j)
    BY <2>6, <2>8
  <2> HIDE DEF Right
  <2>10. j \in 0..n /\ Right(vals[j], j)
    BY <2>7, <2>9
  <2>11. j \in T
    BY <2>10
  <2> HIDE DEF T
  <2> QED BY <2>1, <2>11
<1>4. n \in T
  <2> HIDE DEF T
  <2>1. \A k \in 0..n : k \in T
    BY <1>2, <1>3, Induct
  <2> QED BY <2>1
<1>5. Right(vals[n], n)
  BY <1>4, Zenon
<1> QED BY <1>n, <1>1, <1>5, Zenon
-----------------------------------------------------------------------------
(* The answer.                                                             *)

\* The parts of Exact, for the messages at the places P.
NumsOf(b, c, P) == {Num(b, c, k) : k \in P}
Low(b, c, P) == {k \in P : \A n \in NumsOf(b, c, P) : Num(b, c, k) <= n}
High(b, c, P) == {k \in P : \A n \in NumsOf(b, c, P) : Num(b, c, k) >= n}
AnswerNames(b, c, P) ==
  IF c.ret \cap {"ALL", "COUNT"} # {} \/ c.ret = {} THEN P
  ELSE (IF "MIN" \in c.ret THEN Low(b, c, P) ELSE {}) \cup (IF "MAX" \in c.ret THEN High(b, c, P) ELSE {})
ModSeqs(b, Q) == {b[k].modseq : k \in Q}
Highest(b, Q) == {m \in ModSeqs(b, Q) : \A n \in ModSeqs(b, Q) : m >= n}

\* The places of the lowest and of the highest number.
LEMMA EndPlaces ==
  ASSUME NEW b \in Boxes, NEW c, NEW P \in SUBSET (1..Len(b)), NEW lo \in P, NEW hi \in P,
         \A j \in P : lo <= j /\ j <= hi
  PROVE  Low(b, c, P) = {lo} /\ High(b, c, P) = {hi}
<1> DEFINE nums == {Num(b, c, k) : k \in P}
<1>0. Len(b) \in Nat
  BY NumFacts
<1>1. \A k \in P : k \in 1..Len(b) /\ k \in Nat /\ Num(b, c, k) \in Nat
  <2>1. \A k \in P : k \in 1..Len(b) /\ k \in Nat
    BY <1>0
  <2> QED BY <2>1, NumFacts
<1>2. ASSUME NEW j \in P, NEW k \in P PROVE j <= k <=> Num(b, c, j) <= Num(b, c, k)
  <2>1. j < k => Num(b, c, j) < Num(b, c, k)
    BY <1>1, NumFacts
  <2>2. k < j => Num(b, c, k) < Num(b, c, j)
    BY <1>1, NumFacts
  <2>3. j \in Nat /\ k \in Nat /\ Num(b, c, j) \in Nat /\ Num(b, c, k) \in Nat
    BY <1>1
  <2> QED BY <2>1, <2>2, <2>3
<1>3. ASSUME NEW k \in P PROVE (\A n \in nums : Num(b, c, k) <= n) <=> k = lo
  <2>1. (\A n \in nums : Num(b, c, k) <= n) <=> \A j \in P : k <= j
    BY <1>2
  <2>2. (\A j \in P : k <= j) <=> k = lo
    BY <1>1
  <2> QED BY <2>1, <2>2
<1>4. ASSUME NEW k \in P PROVE (\A n \in nums : Num(b, c, k) >= n) <=> k = hi
  <2>1. (\A n \in nums : Num(b, c, k) >= n) <=> \A j \in P : j <= k
    <3>1. \A j \in P : Num(b, c, k) >= Num(b, c, j) <=> j <= k
      BY <1>1, <1>2
    <3> QED BY <3>1
  <2>2. (\A j \in P : j <= k) <=> k = hi
    BY <1>1
  <2> QED BY <2>1, <2>2
<1> QED BY <1>3, <1>4 DEF Low, High, NumsOf
LEMMA ExactPlain ==
  ASSUME NEW b, NEW c, NEW a, NEW P, P = Meaning(b, c.op), c.ret = {},
         \/ a.kind = "OK" /\ P = {}
         \/ /\ a.kind = "SEARCH" /\ P # {} /\ ToSet(a.nums) = NumsOf(b, c, P)
            /\ Len(a.nums) = Cardinality(P)
            /\ a.modseq = IF hasModSeqOp(c.op) THEN Highest(b, P) ELSE {}
  PROVE  Exact(b, c, a)
<1>1. CASE a.kind = "OK" /\ P = {}
  BY <1>1 DEF Exact
<1>2. CASE /\ a.kind = "SEARCH" /\ P # {} /\ ToSet(a.nums) = NumsOf(b, c, P)
           /\ Len(a.nums) = Cardinality(P)
           /\ a.modseq = IF hasModSeqOp(c.op) THEN Highest(b, P) ELSE {}
  BY <1>2, Zenon DEF Exact, NumsOf, Highest, ModSeqs
<1> QED BY <1>1, <1>2

LEMMA ExactExtended ==
  ASSUME NEW b, NEW c, NEW a, NEW P, P = Meaning(b, c.op), a.kind = "ESEARCH",
         a.count = If("COUNT" \in c.ret, Cardinality(P)),
         a.min = (IF "MIN" \in c.ret THEN NumsOf(b, c, Low(b, c, P)) ELSE {}),
         a.max = (IF "MAX" \in c.ret THEN NumsOf(b, c, High(b, c, P)) ELSE {}),
         a.all = {} <=> "ALL" \notin c.ret \/ P = {},
         \A ranges \in a.all : Named(ranges) = NumsOf(b, c, P) /\ Canonical(ranges),
         a.modseq = IF hasModSeqOp(c.op) THEN Highest(b, AnswerNames(b, c, P)) ELSE {}
  PROVE  Exact(b, c, a)
<1> DEFINE places == Meaning(b, c.op)
           nums == {Num(b, c, k) : k \in places}
           low == {k \in places : \A n \in nums : Num(b, c, k) <= n}
           high == {k \in places : \A n \in nums : Num(b, c, k) >= n}
           named == IF c.ret \cap {"ALL", "COUNT"} # {} \/ c.ret = {} THEN places
                    ELSE (IF "MIN" \in c.ret THEN low ELSE {})
                         \cup (IF "MAX" \in c.ret THEN high ELSE {})
           modseqs == {b[k].modseq : k \in named}
           highest == IF hasModSeqOp(c.op)
                      THEN {m \in modseqs : \A n \in modseqs : m >= n} ELSE {}
           Right == /\ a.count = If("COUNT" \in c.ret, Cardinality(places))
                    /\ a.min = (IF "MIN" \in c.ret THEN {Num(b, c, k) : k \in low} ELSE {})
                    /\ a.max = (IF "MAX" \in c.ret THEN {Num(b, c, k) : k \in high} ELSE {})
                    /\ a.all = {} <=> "ALL" \notin c.ret \/ places = {}
                    /\ \A ranges \in a.all : Named(ranges) = nums /\ Canonical(ranges)
                    /\ a.modseq = highest
           OK == places = {} /\ c.ret = {}
           Plain == /\ places # {} /\ ToSet(a.nums) = nums
                    /\ Len(a.nums) = Cardinality(places)
                    /\ a.modseq = highest
<1>1. Exact(b, c, a) = (CASE a.kind = "OK" -> OK [] a.kind = "SEARCH" -> Plain [] a.kind = "ESEARCH" -> Right)
  BY DEF Exact
<1>2. places = P
  OBVIOUS
<1> HIDE DEF places
<1>3. nums = NumsOf(b, c, P)
  BY <1>2 DEF NumsOf
<1>4. low = Low(b, c, P) /\ high = High(b, c, P)
  <2> HIDE DEF nums
  <2> QED BY <1>2, <1>3 DEF Low, High
<1>5. {Num(b, c, k) : k \in low} = NumsOf(b, c, Low(b, c, P)) /\ {Num(b, c, k) : k \in high} = NumsOf(b, c, High(b, c, P))
  <2> HIDE DEF low, high
  <2> QED BY <1>4 DEF NumsOf
<1>6. named = AnswerNames(b, c, P)
  <2> HIDE DEF low, high
  <2> QED BY <1>2, <1>4, Zenon DEF AnswerNames
<1>7. modseqs = ModSeqs(b, AnswerNames(b, c, P))
  <2> HIDE DEF named
  <2> QED BY <1>6 DEF ModSeqs
<1>8. highest = IF hasModSeqOp(c.op) THEN Highest(b, AnswerNames(b, c, P)) ELSE {}
  <2> HIDE DEF modseqs
  <2> QED BY <1>7, Zenon DEF Highest
<1>9. Right
  <2> HIDE DEF nums, low, high, named, modseqs, highest
  <2> QED BY <1>2, <1>3, <1>5, <1>8, Zenon
<1> HIDE DEF OK, Plain, Right
<1> QED BY <1>1, <1>9

LEMMA HighestOf ==
  ASSUME NEW b \in Boxes, NEW Q \in SUBSET (1..Len(b)), NEW q \in Q, \A j \in Q : b[j].modseq <= b[q].modseq
  PROVE  Highest(b, Q) = {b[q].modseq}
<1>1. \A k \in Q : b[k].modseq \in Nat
  BY NumFacts
<1>2. PICK y \in Nat : y = b[q].modseq
  BY <1>1
<1>3. y \in ModSeqs(b, Q) /\ \A m \in ModSeqs(b, Q) : m \in Nat /\ m <= y
  BY <1>1, <1>2 DEF ModSeqs
<1>4. Highest(b, Q) = {y}
  <2>1. \A m : m \in Highest(b, Q) <=> m \in ModSeqs(b, Q) /\ \A n \in ModSeqs(b, Q) : m >= n
    BY DEF Highest
  <2>2. y \in Highest(b, Q)
    BY <1>3, <2>1
  <2>3. ASSUME NEW m \in Highest(b, Q) PROVE m = y
    <3>1. m \in Nat /\ m <= y /\ m >= y
      BY <1>3, <2>1
    <3> QED BY <3>1
  <2> QED BY <2>2, <2>3
<1> QED BY <1>2, <1>4

\* What the loop has found, as the answer gives it.
LEMMA TalliedFacts ==
  ASSUME NEW b \in Boxes, NEW c, NEW r \in Tallies, NEW P \in SUBSET (1..Len(b)), Tallied(b, c, r, P)
  PROVE  /\ r.nums = <<>> <=> P = {}
         /\ Len(r.nums) = Cardinality(P)
         /\ ToSet(r.nums) = NumsOf(b, c, P)
         /\ Named(SeqRanges(r.nums)) = NumsOf(b, c, P) /\ Canonical(SeqRanges(r.nums))
         /\ P = {} => Highest(b, P) = {} /\ Low(b, c, P) = {} /\ High(b, c, P) = {}
         /\ P # {} => Highest(b, P) = {r.maxModSeq}
<1>n. PICK nums \in Seq(Nat) : nums = r.nums
  BY DEF Tallies
<1>1. Listed(b, c, nums, P)
  BY <1>n DEF Tallied
<1>2. Len(nums) = Cardinality(P)
  BY <1>1 DEF Listed
<1>3. nums = <<>> <=> P = {}
  BY <1>1 DEF Listed
<1>4. \A x : (\E i \in 1..Len(nums) : x = nums[i]) <=> x \in NumsOf(b, c, P)
  BY <1>1 DEF Listed, NumsOf
<1>5. ToSet(nums) = NumsOf(b, c, P)
  <2>1. DOMAIN nums = 1..Len(nums)
    OBVIOUS
  <2>2. \A x : x \in ToSet(nums) <=> \E i \in 1..Len(nums) : x = nums[i]
    BY <2>1 DEF ToSet
  <2> QED BY <1>4, <2>2
<1>6. Named(SeqRanges(nums)) = NumsOf(b, c, P) /\ Canonical(SeqRanges(nums))
  <2>1. \A i \in 1..Len(nums) : 0 < nums[i]
    <3>1. \A j \in P : 0 < Num(b, c, j)
      BY NumFacts
    <3> QED BY <1>1, <3>1 DEF Listed
  <2>2. \A i, j \in 1..Len(nums) : i < j => nums[i] < nums[j]
    BY <1>1 DEF Listed
  <2>3. /\ Canonical(SeqRanges(nums))
        /\ \A x : x \in Named(SeqRanges(nums)) <=> \E i \in 1..Len(nums) : x = nums[i]
    BY <2>1, <2>2, RangesExact
  <2> QED BY <1>4, <2>3
<1>7. P = {} => Highest(b, P) = {} /\ Low(b, c, P) = {} /\ High(b, c, P) = {}
  BY DEF Highest, ModSeqs, Low, High
<1>8. ASSUME P # {} PROVE Highest(b, P) = {r.maxModSeq}
  <2>1. PICK q \in P : r.maxModSeq = b[q].modseq /\ \A j \in P : b[j].modseq <= b[q].modseq
    BY <1>8 DEF Tallied, Tops
  <2> QED BY <2>1, HighestOf
<1> QED BY <1>n, <1>2, <1>3, <1>5, <1>6, <1>7, <1>8, Zenon

LEMMA PlainSearchExact ==
  ASSUME NEW b \in Boxes, NEW c \in Commands, c.ret = {}
  PROVE  Exact(b, c, PlainSearch(c, Results(b, c)))
<1>1. PICK r, P : r = Results(b, c) /\ P = Meaning(b, c.op)
  OBVIOUS
<1>2. r \in Tallies /\ Tallied(b, c, r, P)
  BY <1>1, ResultsTallied
<1>3. P \in SUBSET (1..Len(b))
  BY <1>1, CommandsAssumption, MeaningRecursion
<1>4. /\ r.nums = <<>> <=> P = {}
      /\ Len(r.nums) = Cardinality(P)
      /\ ToSet(r.nums) = NumsOf(b, c, P)
      /\ P # {} => Highest(b, P) = {r.maxModSeq}
  BY <1>2, <1>3, TalliedFacts, Zenon
<1>5. PICK a : a = PlainSearch(c, r)
  OBVIOUS
<1>6. CASE P = {}
  <2>1. a.kind = "OK"
    BY <1>4, <1>5, <1>6 DEF PlainSearch
  <2> QED BY <1>1, <1>5, <1>6, <2>1, ExactPlain
<1>7. CASE P # {}
  <2>1. a = [kind |-> "SEARCH", nums |-> r.nums, modseq |-> If(hasModSeqOp(c.op), r.maxModSeq)]
    BY <1>4, <1>5, <1>7 DEF PlainSearch
  <2>2. /\ a.kind = "SEARCH" /\ a.nums = r.nums
        /\ a.modseq = If(hasModSeqOp(c.op), r.maxModSeq)
    BY <2>1
  <2>3. a.modseq = IF hasModSeqOp(c.op) THEN Highest(b, P) ELSE {}
    BY <1>4, <1>7, <2>2, Zenon DEF If
  <2> QED BY <1>1, <1>4, <1>5, <1>7, <2>2, <2>3, ExactPlain
<1> QED BY <1>6, <1>7

LEMMA ESearchExact ==
  ASSUME NEW b \in Boxes, NEW c \in Commands, c.ret # {}
  PROVE  Exact(b, c, ESearch(c, Results(b, c)))
<1>1. PICK r, P : r = Results(b, c) /\ P = Meaning(b, c.op)
  OBVIOUS
<1>2. r \in Tallies /\ Tallied(b, c, r, P)
  BY <1>1, ResultsTallied
<1>3. P \in SUBSET (1..Len(b))
  BY <1>1, CommandsAssumption, MeaningRecursion
<1>4. /\ r.nums = <<>> <=> P = {}
      /\ Len(r.nums) = Cardinality(P)
      /\ Named(SeqRanges(r.nums)) = NumsOf(b, c, P) /\ Canonical(SeqRanges(r.nums))
      /\ P = {} => Highest(b, P) = {} /\ Low(b, c, P) = {} /\ High(b, c, P) = {}
      /\ P # {} => Highest(b, P) = {r.maxModSeq}
  BY <1>2, <1>3, TalliedFacts, Zenon
<1>r. c.ret \subseteq {"MIN", "MAX", "ALL", "COUNT"}
  BY CommandsAssumption
<1>5. PICK a : a = ESearch(c, r)
  OBVIOUS
<1>6. /\ a.kind = "ESEARCH"
      /\ a.count = If("COUNT" \in c.ret, Len(r.nums))
      /\ a.min = If(r.nums # <<>> /\ "MIN" \in c.ret, r.min)
      /\ a.max = If(r.nums # <<>> /\ "MAX" \in c.ret, r.max)
      /\ a.all = If(r.nums # <<>> /\ "ALL" \in c.ret, SeqRanges(r.nums))
      /\ a.modseq = If(r.nums # <<>> /\ hasModSeqOp(c.op), ReturnModSeq(c, r))
  BY <1>5 DEF ESearch
<1>7. a.count = If("COUNT" \in c.ret, Cardinality(P))
  BY <1>4, <1>6, Zenon
<1>8. a.all = {} <=> "ALL" \notin c.ret \/ P = {}
  BY <1>4, <1>6 DEF If
<1>9. \A ranges \in a.all : Named(ranges) = NumsOf(b, c, P) /\ Canonical(ranges)
  BY <1>4, <1>6, Zenon DEF If
<1>10. CASE P = {}
  <2>1. AnswerNames(b, c, P) = {}
    BY <1>4, <1>10, Zenon DEF AnswerNames
  <2>2. a.modseq = {} /\ a.min = {} /\ a.max = {}
    BY <1>4, <1>6, <1>10 DEF If
  <2>3. Highest(b, {}) = {} /\ NumsOf(b, c, {}) = {}
    BY DEF Highest, ModSeqs, NumsOf
  <2>4. a.modseq = IF hasModSeqOp(c.op) THEN Highest(b, AnswerNames(b, c, P)) ELSE {}
    BY <2>1, <2>2, <2>3, Zenon
  <2>5. /\ a.min = IF "MIN" \in c.ret THEN NumsOf(b, c, Low(b, c, P)) ELSE {}
        /\ a.max = IF "MAX" \in c.ret THEN NumsOf(b, c, High(b, c, P)) ELSE {}
    BY <1>4, <1>10, <2>2, <2>3, Zenon
  <2>a. Exact(b, c, a)
    BY <1>1, <1>6, <1>7, <1>8, <1>9, <2>4, <2>5, ExactExtended, Zenon
  <2> QED BY <1>1, <1>5, <2>a, Zenon
<1>11. CASE P # {}
  <2>1. PICK lo, hi \in P :
          /\ \A j \in P : lo <= j /\ j <= hi
          /\ r.min = Num(b, c, lo) /\ r.minModSeq = b[lo].modseq
          /\ r.max = Num(b, c, hi) /\ r.maxResultModSeq = b[hi].modseq
    BY <1>2, <1>11 DEF Tallied, Ends
  <2>2. Low(b, c, P) = {lo} /\ High(b, c, P) = {hi}
    BY <1>3, <2>1, EndPlaces
  <2>3. NumsOf(b, c, Low(b, c, P)) = {r.min} /\ NumsOf(b, c, High(b, c, P)) = {r.max}
    BY <2>1, <2>2 DEF NumsOf
  <2>4. /\ a.min = IF "MIN" \in c.ret THEN NumsOf(b, c, Low(b, c, P)) ELSE {}
        /\ a.max = IF "MAX" \in c.ret THEN NumsOf(b, c, High(b, c, P)) ELSE {}
    BY <1>4, <1>6, <1>11, <2>3, Zenon DEF If
  <2>5. Highest(b, AnswerNames(b, c, P)) = {ReturnModSeq(c, r)}
    <3>1. lo \in 1..Len(b) /\ hi \in 1..Len(b) /\ b[lo].modseq \in Nat /\ b[hi].modseq \in Nat
      BY <1>3, NumFacts
    <3>2. CASE c.ret \cap {"ALL", "COUNT"} # {}
      BY <1>4, <1>11, <3>2, Zenon DEF AnswerNames, ReturnModSeq
    <3>3. CASE c.ret \cap {"ALL", "COUNT"} = {} /\ "MIN" \in c.ret /\ "MAX" \in c.ret
      <4>1. AnswerNames(b, c, P) = {lo, hi}
        BY <2>2, <3>3 DEF AnswerNames
      <4>2. ReturnModSeq(c, r) = IF b[hi].modseq > b[lo].modseq THEN b[hi].modseq ELSE b[lo].modseq
        BY <2>1, <3>3 DEF ReturnModSeq
      <4>3. CASE b[hi].modseq > b[lo].modseq
        <5>1. Highest(b, {lo, hi}) = {b[hi].modseq}
          BY <3>1, <4>3, HighestOf
        <5> QED BY <4>1, <4>2, <4>3, <5>1
      <4>4. CASE ~(b[hi].modseq > b[lo].modseq)
        <5>1. Highest(b, {lo, hi}) = {b[lo].modseq}
          BY <3>1, <4>4, HighestOf
        <5> QED BY <4>1, <4>2, <4>4, <5>1
      <4> QED BY <4>3, <4>4
    <3>4. CASE c.ret \cap {"ALL", "COUNT"} = {} /\ "MIN" \in c.ret /\ "MAX" \notin c.ret
      <4>1. AnswerNames(b, c, P) = {lo}
        BY <2>2, <3>4 DEF AnswerNames
      <4>2. ReturnModSeq(c, r) = b[lo].modseq
        BY <2>1, <3>4 DEF ReturnModSeq
      <4>3. Highest(b, {lo}) = {b[lo].modseq}
        BY <3>1, HighestOf
      <4> QED BY <4>1, <4>2, <4>3
    <3>5. CASE c.ret \cap {"ALL", "COUNT"} = {} /\ "MIN" \notin c.ret
      <4>0. "MAX" \in c.ret
        BY <1>r, <3>5
      <4>1. AnswerNames(b, c, P) = {hi}
        BY <2>2, <3>5, <4>0 DEF AnswerNames
      <4>2. ReturnModSeq(c, r) = b[hi].modseq
        BY <2>1, <3>5, <4>0 DEF ReturnModSeq
      <4>3. Highest(b, {hi}) = {b[hi].modseq}
        BY <3>1, HighestOf
      <4> QED BY <4>1, <4>2, <4>3
    <3> QED BY <3>2, <3>3, <3>4, <3>5
  <2>6. a.modseq = IF hasModSeqOp(c.op) THEN Highest(b, AnswerNames(b, c, P)) ELSE {}
    BY <1>4, <1>6, <1>11, <2>5, Zenon DEF If
  <2>a. Exact(b, c, a)
    BY <1>1, <1>6, <1>7, <1>8, <1>9, <2>4, <2>6, ExactExtended, Zenon
  <2> QED BY <1>1, <1>5, <2>a, Zenon
<1> QED BY <1>10, <1>11

-----------------------------------------------------------------------------
(* The theorem.                                                            *)

SearchInv == box \in Boxes /\ cmd \in Commands /\ AnswerExact

\* For every mailbox, every key however deep and every RETURN option, the
\* answer that cmdSearch builds from its running minima, maxima and ranges
\* names the messages the key selects, and no others.
THEOREM SearchAnswerExact == Spec => []AnswerExact
<1>1. Init => SearchInv
  BY DEF Init, SearchInv, AnswerExact
<1>2. SearchInv /\ [Next]_vars => SearchInv'
  <2> SUFFICES ASSUME SearchInv, [Next]_vars PROVE SearchInv'
    OBVIOUS
  <2>1. CASE cmdSearch
    <3>1. box' = box /\ cmd' = cmd
      BY <2>1 DEF cmdSearch
    <3>2. Exact(box, cmd, answer')
      <4>1. CASE cmd.ret # {}
        <5>1. answer' = ESearch(cmd, Results(box, cmd))
          BY <2>1, <4>1 DEF cmdSearch
        <5> QED BY <4>1, <5>1, ESearchExact DEF SearchInv
      <4>2. CASE cmd.ret = {}
        <5>1. answer' = PlainSearch(cmd, Results(box, cmd))
          BY <2>1, <4>2 DEF cmdSearch
        <5> QED BY <4>2, <5>1, PlainSearchExact DEF SearchInv
      <4> QED BY <4>1, <4>2
    <3> QED BY <3>1, <3>2 DEF SearchInv, AnswerExact
  <2>2. CASE UNCHANGED vars
    BY <2>2 DEF vars, SearchInv, AnswerExact
  <2> QED BY <2>1, <2>2 DEF Next
<1>3. SearchInv => AnswerExact
  BY DEF SearchInv
<1> QED BY <1>1, <1>2, <1>3, PTL DEF Spec
=============================================================================
