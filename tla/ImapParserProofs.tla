-------------------------- MODULE ImapParserProofs --------------------------
(***************************************************************************)
(* Theorems about ImapParser.                                              *)
(***************************************************************************)
EXTENDS ImapParser, InductionLemmas, SequenceTheorems, TLAPS

-----------------------------------------------------------------------------
(***************************************************************************)
(* The bytes of the lines, and where each line starts.                     *)
(***************************************************************************)
LineSeqs == UNION {[1..m -> Lines] : m \in Nat}

LEMMA LineFacts ==
  ASSUME NEW l \in Lines
  PROVE  l.text \in Seq(STRING) /\ Len(l.text) \in Nat
BY ImapParserAssumption

LEMMA LineSeqFacts ==
  ASSUME NEW ls \in LineSeqs
  PROVE  /\ Len(ls) \in Nat /\ ls \in [1..Len(ls) -> Lines]
         /\ \A k \in 1..Len(ls) : ls[k] \in Lines /\ ls[k].text \in Seq(STRING) /\ Len(ls[k].text) \in Nat
<1>1. PICK m \in Nat : ls \in [1..m -> Lines]
  BY DEF LineSeqs
<1>2. ls \in Seq(Lines) /\ Len(ls) = m
  BY <1>1
<1> QED BY <1>1, <1>2, LineFacts

\* The recursions of Bytes and Start have solutions.
LEMMA CatExists ==
  ASSUME NEW n \in Nat, NEW t \in [1..n -> Seq(STRING)]
  PROVE  \E f \in [0..n -> Seq(STRING)] : f[0] = <<>> /\ \A k \in 1..n : f[k] = f[k - 1] \o t[k]
<1> DEFINE F == [k \in 1..n |-> [v \in Seq(STRING) |-> v \o t[k]]]
<1>1. \A k \in 1..n, v \in Seq(STRING) : F[k][v] = v \o t[k]
  OBVIOUS
<1>2. F \in [1..n -> [Seq(STRING) -> Seq(STRING)]] /\ <<>> \in Seq(STRING)
  OBVIOUS
<1>3. PICK f : Solves(f, n, Seq(STRING), <<>>, F)
  <2> DEFINE V == Seq(STRING)
             b == <<>>
  <2>1. F \in [1..n -> [V -> V]] /\ b \in V
    BY <1>2
  <2>2. \E f : Solves(f, n, V, b, F)
    <3> HIDE DEF V, b, F
    <3> QED BY <2>1, Recursion
  <2> QED BY <2>2
<1> HIDE DEF F
<1>4. f \in [0..n -> Seq(STRING)] /\ f[0] = <<>> /\ \A k \in 1..n : f[k] = F[k][f[k - 1]]
  BY <1>3 DEF Solves
<1>5. \A k \in 1..n : f[k - 1] \in Seq(STRING)
  BY <1>4
<1>6. \A k \in 1..n : f[k] = f[k - 1] \o t[k]
  BY <1>1, <1>4, <1>5
<1> f \in [0..n -> Seq(STRING)]
  BY <1>4
<1> WITNESS f \in [0..n -> Seq(STRING)]
<1> QED BY <1>4, <1>6

LEMMA SumExists ==
  ASSUME NEW n \in Nat, NEW t \in [1..n -> Nat]
  PROVE  \E f \in [0..n -> Nat] : f[0] = 0 /\ \A k \in 1..n : f[k] = f[k - 1] + t[k]
<1> DEFINE F == [k \in 1..n |-> [v \in Nat |-> v + t[k]]]
<1>1. \A k \in 1..n, v \in Nat : F[k][v] = v + t[k]
  OBVIOUS
<1>2. F \in [1..n -> [Nat -> Nat]] /\ 0 \in Nat
  OBVIOUS
<1>3. PICK f : Solves(f, n, Nat, 0, F)
  <2> DEFINE V == Nat
             b == 0
  <2>1. F \in [1..n -> [V -> V]] /\ b \in V
    BY <1>2
  <2>2. \E f : Solves(f, n, V, b, F)
    <3> HIDE DEF V, b, F
    <3> QED BY <2>1, Recursion
  <2> QED BY <2>2
<1> HIDE DEF F
<1>4. f \in [0..n -> Nat] /\ f[0] = 0 /\ \A k \in 1..n : f[k] = F[k][f[k - 1]]
  BY <1>3 DEF Solves
<1>5. \A k \in 1..n : f[k - 1] \in Nat
  BY <1>4
<1>6. \A k \in 1..n : f[k] = f[k - 1] + t[k]
  BY <1>1, <1>4, <1>5
<1> f \in [0..n -> Nat]
  BY <1>4
<1> WITNESS f \in [0..n -> Nat]
<1> QED BY <1>4, <1>6

\* Bytes is what its recursion says.
LEMMA BytesRecursion ==
  ASSUME NEW ls \in LineSeqs
  PROVE  \E cat : /\ cat[0] = <<>> /\ Bytes(ls) = cat[Len(ls)]
                  /\ \A k \in 0..Len(ls) : cat[k] \in Seq(STRING)
                  /\ \A k \in 1..Len(ls) : cat[k] = cat[k - 1] \o ls[k].text
<1> SUFFICES ASSUME NEW n \in Nat, n = Len(ls), \A k \in 1..n : ls[k].text \in Seq(STRING)
             PROVE  \E cat : /\ cat[0] = <<>> /\ Bytes(ls) = cat[n]
                             /\ \A k \in 0..n : cat[k] \in Seq(STRING)
                             /\ \A k \in 1..n : cat[k] = cat[k - 1] \o ls[k].text
  BY LineSeqFacts
<1> DEFINE Cat == CHOOSE f : f = [k \in 0..n |-> IF k = 0 THEN <<>> ELSE f[k - 1] \o ls[k].text]
           t == [k \in 1..n |-> ls[k].text]
<1>1. t \in [1..n -> Seq(STRING)] /\ \A k \in 1..n : t[k] = ls[k].text
  OBVIOUS
<1>2. PICK f \in [0..n -> Seq(STRING)] : f[0] = <<>> /\ \A k \in 1..n : f[k] = f[k - 1] \o t[k]
  <2> HIDE DEF t
  <2> QED BY <1>1, CatExists
<1>3. \A k \in 0..n : f[k] = IF k = 0 THEN <<>> ELSE f[k - 1] \o ls[k].text
  <2> HIDE DEF t
  <2>1. \A k \in 1..n : f[k] = f[k - 1] \o ls[k].text
    BY <1>1, <1>2, Zenon
  <2>2. \A k \in 0..n : k = 0 \/ k \in 1..n
    OBVIOUS
  <2> QED BY <1>2, <2>1, <2>2, Zenon
<1>4. f = [k \in 0..n |-> IF k = 0 THEN <<>> ELSE f[k - 1] \o ls[k].text]
  BY <1>3, Zenon
<1>5. Cat = [k \in 0..n |-> IF k = 0 THEN <<>> ELSE Cat[k - 1] \o ls[k].text]
  BY <1>4, Zenon
<1>6. Bytes(ls) = Cat[n]
  BY DEF Bytes
<1> HIDE DEF Cat
<1>7. \A k \in 0..n : Cat[k] = IF k = 0 THEN <<>> ELSE Cat[k - 1] \o ls[k].text
  BY <1>5
<1>8. Cat[0] = <<>> /\ \A k \in 1..n : Cat[k] = Cat[k - 1] \o ls[k].text
  <2>1. 0 \in 0..n /\ \A k \in 1..n : k \in 0..n /\ k # 0
    OBVIOUS
  <2> QED BY <1>7, <2>1
<1>9. \A k \in 0..n : Cat[k] \in Seq(STRING)
  <2> DEFINE T == {k \in 0..n : Cat[k] \in Seq(STRING)}
  <2>1. 0 \in T
    <3>1. <<>> \in Seq(STRING) /\ 0 \in 0..n
      OBVIOUS
    <3> QED BY <1>8, <3>1, Zenon
  <2>2. \A k \in 0..n - 1 : k \in T => k + 1 \in T
    <3> SUFFICES ASSUME NEW k \in 0..n - 1, Cat[k] \in Seq(STRING) PROVE Cat[k + 1] \in Seq(STRING)
      OBVIOUS
    <3>1. PICK j \in 1..n : j = k + 1 /\ j - 1 = k
      OBVIOUS
    <3>2. Cat[j] = Cat[j - 1] \o ls[j].text
      BY <1>8
    <3>3. Cat[j - 1] \in Seq(STRING) /\ ls[j].text \in Seq(STRING)
      BY <3>1
    <3>4. Cat[j] \in Seq(STRING)
      BY <3>2, <3>3
    <3> QED BY <3>1, <3>4
  <2>3. \A k \in 0..n : k \in T
    <3> HIDE DEF T
    <3> QED BY <2>1, <2>2, Induct
  <2> QED BY <2>3
<1> QED BY <1>6, <1>8, <1>9

\* So is Start.
LEMMA StartRecursion ==
  ASSUME lines \in LineSeqs
  PROVE  /\ Start(1) = 0
         /\ \A k \in 1..Len(lines) + 1 : Start(k) \in Nat
         /\ \A k \in 1..Len(lines) : Start(k + 1) = Start(k) + Len(lines[k].text)
<1> SUFFICES ASSUME NEW n, n \in Nat, n = Len(lines), \A k \in 1..n : Len(lines[k].text) \in Nat
             PROVE  /\ Start(1) = 0
                    /\ \A k \in 1..n + 1 : Start(k) \in Nat
                    /\ \A k \in 1..n : Start(k + 1) = Start(k) + Len(lines[k].text)
  BY LineSeqFacts
<1> DEFINE Sum == CHOOSE f : f = [j \in 0..n |-> IF j = 0 THEN 0 ELSE f[j - 1] + Len(lines[j].text)]
           t == [k \in 1..n |-> Len(lines[k].text)]
<1>1. t \in [1..n -> Nat] /\ \A k \in 1..n : t[k] = Len(lines[k].text)
  OBVIOUS
<1>2. PICK f \in [0..n -> Nat] : f[0] = 0 /\ \A k \in 1..n : f[k] = f[k - 1] + t[k]
  <2> HIDE DEF t
  <2> QED BY <1>1, SumExists
<1>3. \A j \in 0..n : f[j] = IF j = 0 THEN 0 ELSE f[j - 1] + Len(lines[j].text)
  <2> HIDE DEF t
  <2> QED BY <1>1, <1>2
<1>4. f = [j \in 0..n |-> IF j = 0 THEN 0 ELSE f[j - 1] + Len(lines[j].text)]
  BY <1>3
<1>5. Sum = [j \in 0..n |-> IF j = 0 THEN 0 ELSE Sum[j - 1] + Len(lines[j].text)]
  BY <1>4
<1>6. \A k : Start(k) = Sum[k - 1]
  BY DEF Start
<1> HIDE DEF Sum
<1>7. \A k \in 0..n : Sum[k] = IF k = 0 THEN 0 ELSE Sum[k - 1] + Len(lines[k].text)
  BY <1>5
<1>8. Sum[0] = 0 /\ \A k \in 1..n : Sum[k] = Sum[k - 1] + Len(lines[k].text)
  <2>1. 0 \in 0..n /\ \A k \in 1..n : k \in 0..n /\ k # 0
    OBVIOUS
  <2> QED BY <1>7, <2>1
<1>9. \A k \in 0..n : Sum[k] \in Nat
  <2> DEFINE T == {k \in 0..n : Sum[k] \in Nat}
  <2>1. 0 \in T
    BY <1>8
  <2>2. \A k \in 0..n - 1 : k \in T => k + 1 \in T
    <3> SUFFICES ASSUME NEW k \in 0..n - 1, Sum[k] \in Nat PROVE Sum[k + 1] \in Nat
      OBVIOUS
    <3>1. k + 1 \in 1..n /\ k + 1 - 1 = k
      OBVIOUS
    <3>2. Sum[k + 1] = Sum[k] + Len(lines[k + 1].text)
      BY <1>8, <3>1
    <3> QED BY <3>1, <3>2
  <2>3. \A k \in 0..n : k \in T
    <3> HIDE DEF T
    <3> QED BY <2>1, <2>2, Induct
  <2> QED BY <2>3
<1>10. Start(1) = 0
  <2>1. 1 - 1 = 0
    OBVIOUS
  <2> QED BY <1>6, <1>8, <2>1
<1>11. \A k \in 1..n + 1 : Start(k) \in Nat
  <2> TAKE k \in 1..n + 1
  <2>1. k - 1 \in 0..n
    OBVIOUS
  <2> QED BY <1>6, <1>9, <2>1
<1>12. \A k \in 1..n : Start(k + 1) = Start(k) + Len(lines[k].text)
  <2> TAKE k \in 1..n
  <2>1. k + 1 - 1 = k
    OBVIOUS
  <2> QED BY <1>6, <1>8, <2>1
<1> QED BY <1>10, <1>11, <1>12
\* And Awaited.
LEMMA AwaitedRecursion ==
  ASSUME NEW t \in Seq(STRING)
  PROVE  /\ Awaited(t)[0] = 0
         /\ \A i \in 0..Len(t) : Awaited(t)[i] \in Nat
         /\ \A i \in 1..Len(t) :
              Awaited(t)[i] = IF Awaited(t)[i - 1] > 0 THEN Awaited(t)[i - 1] - 1
                              ELSE IF t[i] \in Literals THEN DataLen(t[i]) ELSE 0
<1> DEFINE n == Len(t)
           Fresh(i) == IF t[i] \in Literals THEN DataLen(t[i]) ELSE 0
           F == [i \in 1..n |-> [v \in Nat |-> IF v > 0 THEN v - 1 ELSE Fresh(i)]]
<1>n. n \in Nat
  OBVIOUS
<1>1. \A i \in 1..n : Fresh(i) \in Nat
  BY DEF DataLen
<1> HIDE DEF Fresh
<1>2. F \in [1..n -> [Nat -> Nat]] /\ \A i \in 1..n, v \in Nat : F[i][v] = IF v > 0 THEN v - 1 ELSE Fresh(i)
  BY <1>1
<1>3. PICK f : Solves(f, n, Nat, 0, F)
  <2> DEFINE V == Nat
             b == 0
  <2>1. F \in [1..n -> [V -> V]] /\ b \in V
    BY <1>2
  <2>2. \E f : Solves(f, n, V, b, F)
    <3> HIDE DEF V, b, F, n
    <3> QED BY <1>n, <2>1, Recursion
  <2> QED BY <2>2
<1> HIDE DEF F, n
<1>4. f \in [0..n -> Nat] /\ f[0] = 0 /\ \A k \in 1..n : f[k] = F[k][f[k - 1]]
  BY <1>3 DEF Solves
<1>5. \A i \in 0..n : f[i] = IF i = 0 THEN 0 ELSE IF f[i - 1] > 0 THEN f[i - 1] - 1 ELSE Fresh(i)
  <2> TAKE i \in 0..n
  <2>1. CASE i = 0
    BY <1>4, <2>1
  <2>2. CASE i \in 1..n
    <3>1. f[i - 1] \in Nat
      BY <1>n, <1>4, <2>2
    <3> QED BY <1>2, <1>4, <2>2, <3>1
  <2> QED BY <1>n, <2>1, <2>2
<1> DEFINE Left == CHOOSE g : g = [i \in 0..n |-> IF i = 0 THEN 0 ELSE IF g[i - 1] > 0 THEN g[i - 1] - 1 ELSE Fresh(i)]
<1>6. f = [i \in 0..n |-> IF i = 0 THEN 0 ELSE IF f[i - 1] > 0 THEN f[i - 1] - 1 ELSE Fresh(i)]
  BY <1>4, <1>5
<1>7. Left = [i \in 0..n |-> IF i = 0 THEN 0 ELSE IF Left[i - 1] > 0 THEN Left[i - 1] - 1 ELSE Fresh(i)]
  BY <1>6
<1>8. Awaited(t) = Left
  BY DEF Awaited, n, Fresh
<1> HIDE DEF Left
<1>9. \A i \in 0..n : Left[i] = IF i = 0 THEN 0 ELSE IF Left[i - 1] > 0 THEN Left[i - 1] - 1 ELSE Fresh(i)
  BY <1>7
<1>10. Left[0] = 0 /\ \A i \in 1..n : Left[i] = IF Left[i - 1] > 0 THEN Left[i - 1] - 1 ELSE Fresh(i)
  <2>1. 0 \in 0..n /\ \A i \in 1..n : i \in 0..n /\ i # 0
    BY <1>n
  <2> QED BY <1>9, <2>1
<1>11. \A i \in 0..n : Left[i] \in Nat
  <2> DEFINE T == {k \in 0..n : Left[k] \in Nat}
  <2>1. 0 \in T
    BY <1>n, <1>10
  <2>2. \A k \in 0..n - 1 : k \in T => k + 1 \in T
    <3> SUFFICES ASSUME NEW k \in 0..n - 1, Left[k] \in Nat PROVE Left[k + 1] \in Nat
      BY <1>n
    <3>1. PICK j \in 1..n : j = k + 1 /\ j - 1 = k
      BY <1>n
    <3>2. Left[j] = IF Left[k] > 0 THEN Left[k] - 1 ELSE Fresh(j)
      BY <1>10, <3>1
    <3> QED BY <1>1, <3>1, <3>2
  <2>3. \A k \in 0..n : k \in T
    <3> HIDE DEF T
    <3> QED BY <1>n, <2>1, <2>2, Induct
  <2> QED BY <2>3
<1> QED BY <1>8, <1>10, <1>11 DEF n, Fresh

\* The lines follow each other in the text.
LEMMA Layout ==
  ASSUME lines \in LineSeqs, text = Bytes(lines)
  PROVE  /\ text \in Seq(STRING) /\ Start(Len(lines) + 1) = Len(text)
         /\ \A k \in 1..Len(lines), i \in Nat :
              i \in 1..Len(lines[k].text) => text[Start(k) + i] = lines[k].text[i]
         /\ \A j \in 1..Len(lines), k \in 1..Len(lines) + 1 : j < k => Start(j + 1) <= Start(k)
<1>1. PICK n \in Nat : n = Len(lines)
  BY LineSeqFacts
<1>2. \A k \in 1..n : lines[k].text \in Seq(STRING) /\ Len(lines[k].text) \in Nat
  BY <1>1, LineSeqFacts
<1>3. /\ Start(1) = 0 /\ \A k \in 1..n + 1 : Start(k) \in Nat
      /\ \A k \in 1..n : Start(k + 1) = Start(k) + Len(lines[k].text)
  BY <1>1, StartRecursion
<1>4. PICK cat : /\ cat[0] = <<>> /\ text = cat[n]
                 /\ \A k \in 0..n : cat[k] \in Seq(STRING)
                 /\ \A k \in 1..n : cat[k] = cat[k - 1] \o lines[k].text
  BY <1>1, BytesRecursion
<1> DEFINE P(m) == /\ Len(cat[m]) = Start(m + 1)
                   /\ \A k \in 1..m, i \in Nat :
                        i \in 1..Len(lines[k].text) => cat[m][Start(k) + i] = lines[k].text[i]
                   /\ \A j \in 1..m : Start(j + 1) <= Start(m + 1)
           T == {m \in 0..n : P(m)}
<1>5. 0 \in T
  BY <1>3, <1>4
<1>6. ASSUME NEW m \in 0..n - 1, P(m) PROVE P(m + 1)
  <2>1. PICK j \in 1..n : j = m + 1 /\ j - 1 = m /\ m \in 0..n /\ j \in 1..n + 1 /\ j + 1 \in 1..n + 1
    OBVIOUS
  <2> DEFINE a == cat[m]
             b == lines[j].text
  <2>2. cat[j] = a \o b /\ a \in Seq(STRING) /\ b \in Seq(STRING)
    BY <1>2, <1>4, <2>1
  <2>3. Len(a) = Start(j) /\ Start(j) \in Nat /\ Start(j + 1) = Start(j) + Len(b)
    BY <1>3, <1>6, <2>1
  <2>4. Len(a \o b) = Start(j) + Len(b)
    <3>1. Len(a \o b) = Len(a) + Len(b)
      <4> HIDE DEF a, b
      <4> QED BY <2>2
    <3> QED BY <2>3, <3>1
  <2>5. Len(cat[j]) = Start(j + 1)
    BY <2>2, <2>3, <2>4
  <2>6. ASSUME NEW k \in 1..j, NEW i \in Nat, i \in 1..Len(lines[k].text)
        PROVE  cat[j][Start(k) + i] = lines[k].text[i]
    <3>1. CASE k = j
      <4>1. (a \o b)[Len(a) + i] = b[i]
        <5>1. i \in 1..Len(b)
          BY <2>6, <3>1
        <5> HIDE DEF a, b
        <5> QED BY <2>2, <5>1
      <4> QED BY <2>2, <2>3, <3>1, <4>1
    <3>2. CASE k \in 1..m
      <4>1. Start(k) \in Nat /\ Start(k + 1) = Start(k) + Len(lines[k].text) /\ Start(k + 1) <= Start(j)
            /\ Len(lines[k].text) \in Nat
        BY <1>2, <1>3, <1>6, <2>1, <3>2
      <4>2. Start(k) + i \in 1..Len(a)
        BY <2>3, <2>6, <4>1
      <4>3. (a \o b)[Start(k) + i] = a[Start(k) + i]
        <5> HIDE DEF a, b
        <5> QED BY <2>2, <4>2
      <4>4. a[Start(k) + i] = lines[k].text[i]
        BY <1>6, <2>6, <3>2
      <4> QED BY <2>2, <4>3, <4>4
    <3> QED BY <2>1, <3>1, <3>2
  <2>7. ASSUME NEW k \in 1..j PROVE Start(k + 1) <= Start(j + 1)
    <3>1. CASE k = j
      BY <1>3, <2>1, <3>1
    <3>2. CASE k \in 1..m
      <4>1. Start(k + 1) <= Start(j)
        BY <1>6, <2>1, <3>2
      <4>2. Start(k + 1) \in Nat /\ Len(b) \in Nat
        BY <1>3, <2>1, <2>2, <3>2
      <4> QED BY <2>3, <4>1, <4>2
    <3> QED BY <2>1, <3>1, <3>2
  <2> HIDE DEF a, b
  <2> QED BY <2>1, <2>5, <2>6, <2>7
<1>7. \A m \in 0..n : m \in T
  <2>1. \A m \in 0..n - 1 : m \in T => m + 1 \in T
    <3> TAKE m \in 0..n - 1
    <3>1. m + 1 \in 0..n
      OBVIOUS
    <3> HIDE DEF P
    <3> QED BY <1>6, <3>1
  <2> HIDE DEF T
  <2> QED BY <1>5, <2>1, Induct
<1>8. \A m \in 0..n : P(m)
  <2> HIDE DEF P
  <2> QED BY <1>7
<1>9. \A j \in 1..n, k \in 1..n + 1 : j < k => Start(j + 1) <= Start(k)
  <2> SUFFICES ASSUME NEW j \in 1..n, NEW k \in 1..n + 1, j < k PROVE Start(j + 1) <= Start(k)
    OBVIOUS
  <2>1. PICK m \in 0..n : m + 1 = k /\ j \in 1..m
    OBVIOUS
  <2> QED BY <1>8, <2>1
<1>10. P(n)
  <2> HIDE DEF P
  <2> QED BY <1>8
<1> QED BY <1>1, <1>4, <1>9, <1>10
\* The last lexeme is a CRLF.
LEMMA TextEnds ==
  ASSUME lines \in LineSeqs, text = Bytes(lines), Len(text) > 0
  PROVE  text[Len(text)] = CRLF
<1>1. PICK n \in Nat : n = Len(lines)
  BY LineSeqFacts
<1>2. Start(n + 1) = Len(text) /\ Start(1) = 0
  BY <1>1, Layout, StartRecursion
<1>3. n # 0
  BY <1>2
<1> DEFINE l == lines[n]
<1>4. l \in Lines /\ Len(l.text) \in Nat
  BY <1>1, <1>3, LineSeqFacts
<1>5. Len(l.text) > 0 /\ l.text[Len(l.text)] = CRLF
  <2> DEFINE m == Len(l.text)
  <2>1. m > 0 /\ \A i \in 1..m : l.text[i] = CRLF /\ Awaited(l.text)[i - 1] = 0 <=> i = m
    BY <1>4, LinesAreFramed
  <2>2. m \in 1..m
    BY <1>4, <2>1
  <2> HIDE DEF m
  <2>3. l.text[m] = CRLF
    BY <2>1, <2>2
  <2> QED BY <2>1, <2>3 DEF m
<1>6. Start(n + 1) = Start(n) + Len(l.text)
  BY <1>1, <1>3, StartRecursion
<1>7. text[Start(n) + Len(l.text)] = l.text[Len(l.text)]
  <2> DEFINE m == Len(l.text)
  <2>1. m \in Nat /\ m \in 1..Len(lines[n].text) /\ n \in 1..Len(lines)
    BY <1>1, <1>3, <1>4, <1>5
  <2>2. text[Start(n) + m] = lines[n].text[m]
    <3> HIDE DEF m
    <3> QED BY <2>1, Layout
  <2> QED BY <2>2
<1> QED BY <1>2, <1>5, <1>6, <1>7

-----------------------------------------------------------------------------
(***************************************************************************)
(* The table of rules.                                                     *)
(***************************************************************************)

\* The nodes of each group of rules.
EndNodes == {"finish"}
LoginNodes == {"COMPRESS", "ID", "id1", "id2", "AUTHENTICATE", "auth1",
               "auth2", "LOGIN", "login1"}
EnableNodes == {"ENABLE", "enable1"}
MailboxNodes == {"CREATE", "RENAME"}
ListNodes == {"LIST", "list1", "list1opt", "list2", "list3", "list4",
              "list5", "list6", "list6opt"}
StatusNodes == {"STATUS", "status1", "status2", "status3"}
AppendNodes == {"APPEND", "append1", "append2", "append2flag", "append2bad",
                "append2skip", "append3", "append4"}
SelectNodes == {"SELECT", "select1", "select2", "select2opt", "qresync1",
                "qresync2", "qresync3", "qresync4", "qresync5", "qresync6",
                "qresync7", "qresync8", "qresync9", "qresync10", "qresync11"}
FetchNodes == {"FETCH", "fetch1", "fetch2", "fetch2more", "fetch2end",
               "fetch2none", "fetch3", "fetch4", "fetch5", "fetch6", "fetch7"}
StoreNodes == {"STORE", "store1", "store2", "store3", "store4", "store5",
               "store6", "store7", "store8"}
CopyNodes == {"COPY", "UIDEXPUNGE"}
PushNodes == {"XAPPLEPUSHSERVICE", "push1", "push2", "push2box", "push3",
              "push4"}
SearchNodes == {"SEARCH", "search1", "search2", "search3", "search4",
                "search5", "root", "list", "list0", "not", "keyString",
                "keyAtom", "keyDate", "keyHeader", "keyNumber", "keySeqs",
                "keyModSeq", "keyModSeq1", "keyModSeq2"}

\* Where the rules lead: to nodes that have a rule, or to a return.
Targets == (DOMAIN RuleAt \ {"root", "list", "not"}) \cup {"return", "searchEnd", "ok", "err", "perr"}
Expects == {"Atom", "String", "ListMailbox", "Number", "Tag", "Flag", "Sequences", "FetchItem", "Date",
            "ListStart", "ListEnd", "SearchKey", "Any", "End", "Literal"}
Leads(r) == /\ r.expect \in Expects /\ r.no \in Targets
            /\ \A a \in r.alts : a[3] \in Targets \cup {"key"}

LEMMA RuleNodes ==
  /\ DOMAIN RuleAt = {r.at : r \in Rules}
  /\ EndNodes \subseteq DOMAIN RuleAt
  /\ LoginNodes \subseteq DOMAIN RuleAt
  /\ EnableNodes \subseteq DOMAIN RuleAt
  /\ MailboxNodes \subseteq DOMAIN RuleAt
  /\ ListNodes \subseteq DOMAIN RuleAt
  /\ StatusNodes \subseteq DOMAIN RuleAt
  /\ AppendNodes \subseteq DOMAIN RuleAt
  /\ SelectNodes \subseteq DOMAIN RuleAt
  /\ FetchNodes \subseteq DOMAIN RuleAt
  /\ StoreNodes \subseteq DOMAIN RuleAt
  /\ CopyNodes \subseteq DOMAIN RuleAt
  /\ PushNodes \subseteq DOMAIN RuleAt
  /\ SearchNodes \subseteq DOMAIN RuleAt
<1>1. DOMAIN RuleAt = {r.at : r \in Rules}
  BY DEF RuleAt
<1>2. EndNodes \subseteq DOMAIN RuleAt
  <2>1. EndNodes \subseteq {r.at : r \in EndRules}
    BY DEF EndNodes, EndRules, R
  <2>2. {r.at : r \in EndRules} \subseteq {r.at : r \in Rules}
    BY DEF Rules
  <2> QED BY <1>1, <2>1, <2>2, Zenon
<1>3. LoginNodes \subseteq DOMAIN RuleAt
  <2>1. LoginNodes \subseteq {r.at : r \in LoginRules}
    BY DEF LoginNodes, LoginRules, R, Str
  <2>2. {r.at : r \in LoginRules} \subseteq {r.at : r \in Rules}
    BY DEF Rules
  <2> QED BY <1>1, <2>1, <2>2, Zenon
<1>4. EnableNodes \subseteq DOMAIN RuleAt
  <2>1. EnableNodes \subseteq {r.at : r \in EnableRules}
    BY DEF EnableNodes, EnableRules, R
  <2>2. {r.at : r \in EnableRules} \subseteq {r.at : r \in Rules}
    BY DEF Rules
  <2> QED BY <1>1, <2>1, <2>2, Zenon
<1>5. MailboxNodes \subseteq DOMAIN RuleAt
  <2>1. MailboxNodes \subseteq {r.at : r \in MailboxRules}
    BY DEF MailboxNodes, MailboxRules, R, Str
  <2>2. {r.at : r \in MailboxRules} \subseteq {r.at : r \in Rules}
    BY DEF Rules
  <2> QED BY <1>1, <2>1, <2>2, Zenon
<1>6. ListNodes \subseteq DOMAIN RuleAt
  <2>1. ListNodes \subseteq {r.at : r \in ListRules}
    BY DEF ListNodes, ListRules, R, Str, Open, Shut, ListOpts
  <2>2. {r.at : r \in ListRules} \subseteq {r.at : r \in Rules}
    BY DEF Rules
  <2> QED BY <1>1, <2>1, <2>2, Zenon
<1>7. StatusNodes \subseteq DOMAIN RuleAt
  <2>1. StatusNodes \subseteq {r.at : r \in StatusRules}
    BY DEF StatusNodes, StatusRules, R, Str, Open
  <2>2. {r.at : r \in StatusRules} \subseteq {r.at : r \in Rules}
    BY DEF Rules
  <2> QED BY <1>1, <2>1, <2>2, Zenon
<1>8. AppendNodes \subseteq DOMAIN RuleAt
  <2>1. AppendNodes \subseteq {r.at : r \in AppendRules}
    BY DEF AppendNodes, AppendRules, R, Str
  <2>2. {r.at : r \in AppendRules} \subseteq {r.at : r \in Rules}
    BY DEF Rules
  <2> QED BY <1>1, <2>1, <2>2, Zenon
<1>9. SelectNodes \subseteq DOMAIN RuleAt
  <2>1. SelectNodes \subseteq {r.at : r \in SelectRules}
    BY DEF SelectNodes, SelectRules, R, Str, Open, Shut, Num, Seqs
  <2>2. {r.at : r \in SelectRules} \subseteq {r.at : r \in Rules}
    BY DEF Rules
  <2> QED BY <1>1, <2>1, <2>2, Zenon
<1>10. FetchNodes \subseteq DOMAIN RuleAt
  <2>1. FetchNodes \subseteq {r.at : r \in FetchRules}
    BY DEF FetchNodes, FetchRules, R, Open, Shut, Num, Seqs
  <2>2. {r.at : r \in FetchRules} \subseteq {r.at : r \in Rules}
    BY DEF Rules
  <2> QED BY <1>1, <2>1, <2>2, Zenon
<1>11. StoreNodes \subseteq DOMAIN RuleAt
  <2>1. StoreNodes \subseteq {r.at : r \in StoreRules}
    BY DEF StoreNodes, StoreRules, R, Open, Shut, Num, Seqs
  <2>2. {r.at : r \in StoreRules} \subseteq {r.at : r \in Rules}
    BY DEF Rules
  <2> QED BY <1>1, <2>1, <2>2, Zenon
<1>12. CopyNodes \subseteq DOMAIN RuleAt
  <2>1. CopyNodes \subseteq {r.at : r \in CopyRules}
    BY DEF CopyNodes, CopyRules, R, Seqs
  <2>2. {r.at : r \in CopyRules} \subseteq {r.at : r \in Rules}
    BY DEF Rules
  <2> QED BY <1>1, <2>1, <2>2, Zenon
<1>13. PushNodes \subseteq DOMAIN RuleAt
  <2>1. PushNodes \subseteq {r.at : r \in PushRules}
    BY DEF PushNodes, PushRules, R, Str, Open, Shut, Num
  <2>2. {r.at : r \in PushRules} \subseteq {r.at : r \in Rules}
    BY DEF Rules
  <2> QED BY <1>1, <2>1, <2>2, Zenon
<1>14. SearchNodes \subseteq DOMAIN RuleAt
  <2>1. SearchNodes \subseteq {r.at : r \in SearchRules}
    BY DEF SearchNodes, SearchRules, R, Str, Open, Num, Seqs
  <2>2. {r.at : r \in SearchRules} \subseteq {r.at : r \in Rules}
    BY DEF Rules
  <2> QED BY <1>1, <2>1, <2>2, Zenon
<1> QED BY <1>1, <1>2, <1>3, <1>4, <1>5, <1>6, <1>7, <1>8, <1>9, <1>10, <1>11, <1>12, <1>13, <1>14

LEMMA RulesLead == \A r \in Rules : Leads(r)
<1>1. \A r \in EndRules : Leads(r)
  BY RuleNodes DEF EndRules, EndNodes, Leads, Targets, Expects, R
<1>2. \A r \in LoginRules : Leads(r)
  BY RuleNodes DEF LoginRules, EndNodes, LoginNodes, Leads, Targets, Expects, R, Str
<1>3. \A r \in EnableRules : Leads(r)
  BY RuleNodes DEF EnableRules, EnableNodes, EndNodes, Leads, Targets, Expects, R
<1>4. \A r \in MailboxRules : Leads(r)
  BY RuleNodes DEF MailboxRules, EndNodes, MailboxNodes, Leads, Targets, Expects, R, Str
<1>5. \A r \in ListRules : Leads(r)
  BY RuleNodes DEF ListRules, EndNodes, ListNodes, Leads, Targets, Expects, R, Str, Open, Shut, ListOpts
<1>6. \A r \in StatusRules : Leads(r)
  BY RuleNodes DEF StatusRules, EndNodes, StatusNodes, Leads, Targets, Expects, R, Str, Open
<1>7. \A r \in AppendRules : Leads(r)
  BY RuleNodes DEF AppendRules, AppendNodes, EndNodes, Leads, Targets, Expects, R, Str
<1>8. \A r \in SelectRules : Leads(r)
  BY RuleNodes DEF SelectRules, EndNodes, SelectNodes, Leads, Targets, Expects, R, Str, Open, Shut, Num, Seqs
<1>9. \A r \in FetchRules : Leads(r)
  BY RuleNodes DEF FetchRules, EndNodes, FetchNodes, Leads, Targets, Expects, R, Open, Shut, Num, Seqs
<1>10. \A r \in StoreRules : Leads(r)
  BY RuleNodes DEF StoreRules, EndNodes, StoreNodes, Leads, Targets, Expects, R, Open, Shut, Num, Seqs
<1>11. \A r \in CopyRules : Leads(r)
  BY RuleNodes DEF CopyRules, CopyNodes, EndNodes, MailboxNodes, Leads, Targets, Expects, R, Seqs
<1>12. \A r \in PushRules : Leads(r)
  BY RuleNodes DEF PushRules, EndNodes, PushNodes, Leads, Targets, Expects, R, Str, Open, Shut, Num
<1>13. \A r \in SearchRules : Leads(r)
  BY RuleNodes DEF SearchRules, EndNodes, SearchNodes, Leads, Targets, Expects, R, Str, Open, Num, Seqs
<1> QED BY <1>1, <1>2, <1>3, <1>4, <1>5, <1>6, <1>7, <1>8, <1>9, <1>10, <1>11, <1>12, <1>13 DEF Rules

\* Nodes that are no call of next have no rule.
LEMMA NoRuleAt == {"tag", "name", "return", "searchEnd", "ok", "err", "perr", "closed"} \cap DOMAIN RuleAt = {}
<1> DEFINE Other == {"tag", "name", "return", "searchEnd", "ok", "err", "perr", "closed"}
<1>1. \A r \in EndRules : r.at \notin Other
  BY DEF EndRules, R
<1>2. \A r \in LoginRules : r.at \notin Other
  BY DEF LoginRules, R, Str
<1>3. \A r \in EnableRules : r.at \notin Other
  BY DEF EnableRules, R
<1>4. \A r \in MailboxRules : r.at \notin Other
  BY DEF MailboxRules, R, Str
<1>5. \A r \in ListRules : r.at \notin Other
  BY DEF ListRules, R, Str, Open, Shut, ListOpts
<1>6. \A r \in StatusRules : r.at \notin Other
  BY DEF StatusRules, R, Str, Open
<1>7. \A r \in AppendRules : r.at \notin Other
  BY DEF AppendRules, R, Str
<1>8. \A r \in SelectRules : r.at \notin Other
  BY DEF SelectRules, R, Str, Open, Shut, Num, Seqs
<1>9. \A r \in FetchRules : r.at \notin Other
  BY DEF FetchRules, R, Open, Shut, Num, Seqs
<1>10. \A r \in StoreRules : r.at \notin Other
  BY DEF StoreRules, R, Open, Shut, Num, Seqs
<1>11. \A r \in CopyRules : r.at \notin Other
  BY DEF CopyRules, R, Seqs
<1>12. \A r \in PushRules : r.at \notin Other
  BY DEF PushRules, R, Str, Open, Shut, Num
<1>13. \A r \in SearchRules : r.at \notin Other
  BY DEF SearchRules, R, Str, Open, Num, Seqs
<1> HIDE DEF Other
<1>14. \A r \in Rules : r.at \notin Other
  BY <1>1, <1>2, <1>3, <1>4, <1>5, <1>6, <1>7, <1>8, <1>9, <1>10, <1>11, <1>12, <1>13 DEF Rules
<1> QED BY <1>14, RuleNodes DEF Other

\* The rule of a node is a rule, and the names of commands lead to rules.
LEMMA RuleAtLeads ==
  ASSUME NEW n \in DOMAIN RuleAt
  PROVE  RuleAt[n] \in Rules /\ Leads(RuleAt[n])
<1>1. PICK r \in Rules : r.at = n
  BY RuleNodes
<1>2. RuleAt[n] = CHOOSE q \in Rules : q.at = n
  BY DEF RuleAt
<1>3. RuleAt[n] \in Rules
  BY <1>1, <1>2
<1> QED BY <1>3, RulesLead

LEMMA CommandsLead ==
  ASSUME NEW w, GoodMode(w), NEW withUID \in BOOLEAN
  PROVE  CommandNode(w, withUID) \in DOMAIN RuleAt \ {"root", "list", "not"}
<1>1. w \in AnyMode \cup NonAuth \cup AuthMode \cup BoxMode
  BY DEF GoodMode
<1>2. FirstNode(w) \in EndNodes \cup {"COMPRESS", "ID", "AUTHENTICATE", "LOGIN"} \cup {"ENABLE"} \cup {"CREATE", "RENAME"}
                    \cup {"LIST", "STATUS", "APPEND", "SELECT", "FETCH", "STORE", "COPY", "XAPPLEPUSHSERVICE", "SEARCH"}
  BY <1>1 DEF FirstNode, Entry, AnyMode, NonAuth, AuthMode, BoxMode, UIDCmds, EndNodes
<1> QED BY <1>2, RuleNodes DEF CommandNode, EndNodes, LoginNodes, EnableNodes, MailboxNodes, ListNodes, StatusNodes,
             AppendNodes, SelectNodes, FetchNodes, StoreNodes, CopyNodes, PushNodes, SearchNodes

LEMMA KeysLead ==
  ASSUME NEW w
  PROVE  /\ KeyNode(w) \in (DOMAIN RuleAt \ {"root", "list"}) \cup {"return", "err"}
         /\ Calls(w) \in Seq({"not", "list"})
<1>1. KeyNode(w) \in {"not", "list0", "keyString", "keyAtom", "keyDate", "keyHeader", "keyNumber", "keySeqs",
                      "keyModSeq", "return", "err"}
  BY DEF KeyNode
<1>2. Calls(w) \in Seq({"not", "list"})
  <2>1. <<>> \in Seq({"not", "list"}) /\ <<"not">> \in Seq({"not", "list"}) /\ <<"list">> \in Seq({"not", "list"})
    OBVIOUS
  <2> QED BY <2>1 DEF Calls
<1> QED BY <1>1, <1>2, RuleNodes DEF SearchNodes

-----------------------------------------------------------------------------
(***************************************************************************)
(* The scanner.                                                            *)
(***************************************************************************)
Ends == {CRLF, CRLFWait}

\* What a scan may be: it closes a parenthesis only if one is open, and
\* without an error it reads nothing, one lexeme or a whole literal.
Scan(r, x, depth) ==
  /\ r.eat \in 0..3
  /\ r.token = "End" <=> x \in Ends
  /\ x \in Ends => ~r.bad /\ r.eat = 1
  /\ r.token = "ListEnd" => depth > 0
  /\ r.token # "none" => r.eat > 0
  /\ ~r.bad => \/ r.eat = 0 /\ x \notin Ends
               \/ r.eat = 1 /\ x \notin Literals
               \/ r.eat = 1 + DataLen(x) /\ x \in Literals

LEMMA AsSearchKey ==
  /\ [S("Sequences", 1) EXCEPT !.token = "SearchKey"] = S("SearchKey", 1)
  /\ [Fail(1) EXCEPT !.token = "SearchKey"] = [token |-> "SearchKey", bad |-> TRUE, eat |-> 1]
<1> DEFINE no == FALSE
           yes == TRUE
<1>1. /\ S("Sequences", 1) = [token |-> "Sequences", bad |-> no, eat |-> 1]
      /\ S("SearchKey", 1) = [token |-> "SearchKey", bad |-> no, eat |-> 1]
  BY DEF S
<1>2. Fail(1) = [token |-> "none", bad |-> yes, eat |-> 1]
  BY DEF Fail
<1>3. [S("Sequences", 1) EXCEPT !.token = "SearchKey"] = S("SearchKey", 1)
  <2> HIDE DEF no
  <2> QED BY <1>1
<1>4. [Fail(1) EXCEPT !.token = "SearchKey"] = [token |-> "SearchKey", bad |-> yes, eat |-> 1]
  <2> HIDE DEF yes
  <2> QED BY <1>2
<1> QED BY <1>3, <1>4

LEMMA ReadScans ==
  ASSUME NEW e \in Expects, NEW x, NEW depth \in Nat
  PROVE  Scan(Read(e, x, depth), x, depth)
<1>1. CASE x \in Ends
  <2>1. Read(e, x, depth) = [token |-> "End", bad |-> FALSE, eat |-> 1]
    BY <1>1 DEF Read, S, Ends
  <2>2. x \notin Literals
    BY <1>1 DEF Ends, CRLF, CRLFWait, Literals
  <2> QED BY <1>1, <2>1, <2>2 DEF Scan
<1>2. CASE x \notin Ends
  <2> USE <1>2
  <2>1. Scan(Fail(0), x, depth) /\ Scan(Fail(1), x, depth)
    BY DEF Scan, Fail
  <2>2. Scan(NoToken, x, depth)
    BY DEF Scan, NoToken, S
  <2>3. ASSUME NEW t, t \notin {"End", "ListEnd"}, x \notin Literals PROVE Scan(S(t, 1), x, depth)
    BY <2>3 DEF Scan, S
  <2>4. ASSUME NEW t, t \notin {"End", "ListEnd"}, x \in Literals, NEW limited
        PROVE  Scan(readLiteral(x, t, limited), x, depth)
    <3>1. Scan([token |-> t, bad |-> FALSE, eat |-> 1 + DataLen(x)], x, depth)
      BY <2>4 DEF Scan, DataLen
    <3>2. S(t, 1 + DataLen(x)) = [token |-> t, bad |-> FALSE, eat |-> 1 + DataLen(x)]
      BY DEF S
    <3> QED BY <2>1, <3>1, <3>2 DEF readLiteral
  <2>5. ASSUME NEW t, t \notin {"End", "ListEnd"} PROVE Scan(readAtom(x, t), x, depth)
    BY <2>1, <2>2, <2>3, <2>5 DEF readAtom
  <2>6. ASSUME NEW t, t \notin {"End", "ListEnd"} PROVE Scan(readAstring(x, t), x, depth)
    BY <2>2, <2>3, <2>4, <2>6 DEF readAstring
  <2>7. Scan(readListStart(x), x, depth) /\ Scan(readListEnd(x, depth), x, depth)
    <3>1. Scan(readListStart(x), x, depth)
      BY <2>2, <2>3 DEF readListStart, Literals
    <3>2. ASSUME x = ")", depth > 0 PROVE Scan(S("ListEnd", 1), x, depth)
      BY <3>2 DEF Scan, S, Literals
    <3> QED BY <2>1, <2>2, <3>1, <3>2 DEF readListEnd
  <2>8. Scan(readTag(x), x, depth) /\ Scan(readFlag(x), x, depth)
    <3>1. Plain(x) => x \notin Literals
      BY DEF Plain, Punctuation, Literals, Numbers
    <3> QED BY <2>1, <2>2, <2>3, <2>5, <3>1 DEF readTag, readFlag
  <2>9. Scan(readSequences(x), x, depth) /\ Scan(readDate(x), x, depth) /\ Scan(readFetchItem(x), x, depth)
    <3>1. Scan(readSequences(x), x, depth)
      BY <2>1, <2>3 DEF readSequences, Literals
    <3>2. Scan(readDate(x), x, depth)
      BY <2>1, <2>3 DEF readDate, Literals
    <3>3. Scan(readFetchItem(x), x, depth)
      <4>1. x \in Items => x \notin Literals
        BY DEF Items, Literals
      <4> QED BY <2>1, <2>2, <2>3, <4>1 DEF readFetchItem
    <3> QED BY <3>1, <3>2, <3>3
  <2>10. x \in {"7", "1:*", "0"} => Scan([readSequences(x) EXCEPT !.token = "SearchKey"], x, depth)
    <3>1. ASSUME x \in {"7", "1:*"} PROVE Scan([readSequences(x) EXCEPT !.token = "SearchKey"], x, depth)
      <4>1. [readSequences(x) EXCEPT !.token = "SearchKey"] = S("SearchKey", 1)
        <5>1. readSequences(x) = S("Sequences", 1)
          BY <3>1 DEF readSequences
        <5> QED BY <5>1, AsSearchKey
      <4> QED BY <2>3, <3>1, <4>1 DEF Literals
    <3>2. ASSUME x = "0" PROVE Scan([readSequences(x) EXCEPT !.token = "SearchKey"], x, depth)
      <4>1. [readSequences(x) EXCEPT !.token = "SearchKey"] = [token |-> "SearchKey", bad |-> TRUE, eat |-> 1]
        <5>1. readSequences(x) = Fail(1)
          BY <3>2 DEF readSequences
        <5> QED BY <5>1, AsSearchKey
      <4>2. Scan([token |-> "SearchKey", bad |-> TRUE, eat |-> 1], x, depth)
        BY DEF Scan
      <4> QED BY <4>1, <4>2
    <3> QED BY <3>1, <3>2
  <2>11. x \in Numbers => Scan(S("Number", 1), x, depth)
    BY <2>3 DEF Numbers, Literals
  <2>12. x \in {"(", ")"} => Scan(S("SearchKey", 1), x, depth)
    BY <2>3 DEF Literals
  <2>13. x = "'string'" => Scan(S("String", 1), x, depth)
    BY <2>3 DEF Literals
  <2>14. x \in Literals => Scan(readLiteral(x, "Literal", FALSE), x, depth)
    BY <2>4
  <2>15. /\ Scan(readAtom(x, "Atom"), x, depth) /\ Scan(readAtom(x, "SearchKey"), x, depth)
         /\ Scan(readAstring(x, "String"), x, depth) /\ Scan(readAstring(x, "ListMailbox"), x, depth)
    BY <2>5, <2>6
  <2> QED BY <2>2, <2>7, <2>8, <2>9, <2>10, <2>11, <2>12, <2>13, <2>14, <2>15 DEF Read, Expects, Ends
<1> QED BY <1>1, <1>2

\* The same of next, on the lexeme ahead.
NextScan(r) ==
  /\ r.eat \in Nat /\ pos + r.eat <= Len(text) /\ r.depth \in Nat
  /\ AtEOF => r.bad /\ r.eat = 0 /\ ~r.end
  /\ r.token # "none" => ~error /\ ~r.bad /\ r.eat > 0 /\ ~AtEOF
  /\ ~AtEOF => r.word = Ahead /\ (r.end <=> Ahead \in Ends)
  /\ r.end => ~r.bad /\ r.eat = 1
  /\ ~r.bad => \/ r.eat = 0 /\ Ahead \notin Ends
               \/ r.eat = 1 /\ Ahead \notin Literals
               \/ r.eat = 1 + DataLen(Ahead) /\ Ahead \in Literals

LEMMA NextScans ==
  ASSUME text \in Seq(STRING), pos \in 0..Len(text), listDepth \in Nat, NEW e \in Expects, NEW orEnd
  PROVE  NextScan(Next_(e, orEnd))
<1> DEFINE q == IF AtEOF THEN Fail(0) ELSE Received(Read(e, Ahead, listDepth))
           n == Next_(e, orEnd)
<1>1. /\ n.eat = q.eat /\ n.bad = q.bad /\ n.end = (q.token = "End")
      /\ n.word = IF AtEOF THEN "" ELSE Ahead
      /\ n.token # "none" => ~error /\ ~q.bad /\ q.token # "none"
      /\ n.depth = IF q.token = "ListStart" THEN listDepth + 1 ELSE IF q.token = "ListEnd" THEN listDepth - 1 ELSE listDepth
  <2> HIDE DEF q
  <2>1. n = [token |-> IF error \/ q.bad \/ q.token = "none" \/ ~(e = "Any" \/ q.token = e \/ (orEnd /\ q.token = "End"))
                      THEN "none" ELSE q.token,
             word  |-> IF AtEOF THEN "" ELSE Ahead,
             bad   |-> q.bad,
             end   |-> q.token = "End",
             eat   |-> q.eat,
             depth |-> IF q.token = "ListStart" THEN listDepth + 1
                       ELSE IF q.token = "ListEnd" THEN listDepth - 1 ELSE listDepth]
    BY DEF Next_, q
  <2> HIDE DEF n
  <2> QED BY <2>1
<1> SUFFICES NextScan(n)
  OBVIOUS
<1> HIDE DEF n
<1>2. CASE AtEOF
  <2>1. q = [token |-> "none", bad |-> TRUE, eat |-> 0]
    BY <1>2 DEF Fail
  <2> HIDE DEF q
  <2>2. n.bad = TRUE /\ n.end = FALSE /\ n.eat = 0 /\ n.depth = listDepth /\ n.token = "none"
    <3>1. q.bad = TRUE /\ q.eat = 0 /\ q.token = "none" /\ (q.token = "End") = FALSE
      BY <2>1
    <3> QED BY <1>1, <3>1
  <2> QED BY <1>2, <2>2 DEF NextScan, AtEOF
<1>3. CASE ~AtEOF
  <2> DEFINE s == Read(e, Ahead, listDepth)
  <2>1. Scan(s, Ahead, listDepth)
    BY ReadScans
  <2>2. q = Received(s) /\ Len(text) \in Nat /\ Len(text) - pos > 0
    BY <1>3 DEF AtEOF
  <2> HIDE DEF q, s
  <2>3. CASE s.eat > Len(text) - pos
    <3>1. q = [token |-> "none", bad |-> TRUE, eat |-> Len(text) - pos]
      BY <2>2, <2>3 DEF Received, Fail
    <3>2. Ahead \notin Ends
      BY <2>1, <2>2, <2>3 DEF Scan
    <3>3. q.bad = TRUE /\ q.eat = Len(text) - pos /\ q.token = "none" /\ (q.token = "End") = FALSE
      BY <3>1
    <3>4. n.bad = TRUE /\ n.end = FALSE /\ n.eat = Len(text) - pos /\ n.depth = listDepth /\ n.token = "none"
      BY <1>1, <3>3
    <3>5. n.word = Ahead
      BY <1>1, <1>3
    <3> QED BY <1>3, <2>2, <3>2, <3>4, <3>5 DEF NextScan
  <2>4. CASE ~(s.eat > Len(text) - pos)
    <3>1. q = s
      BY <2>2, <2>4 DEF Received
    <3>2. n.bad = s.bad /\ n.eat = s.eat /\ n.word = Ahead /\ (n.end <=> s.token = "End")
      BY <1>1, <1>3, <3>1
    <3>3. n.depth \in Nat
      <4>1. s.token = "ListEnd" => listDepth > 0
        BY <2>1 DEF Scan
      <4>2. n.depth = IF s.token = "ListStart" THEN listDepth + 1 ELSE IF s.token = "ListEnd" THEN listDepth - 1 ELSE listDepth
        BY <1>1, <3>1
      <4> QED BY <4>1, <4>2
    <3>4. n.token # "none" => ~error /\ ~s.bad /\ s.token # "none"
      BY <1>1, <3>1
    <3> QED BY <1>3, <2>1, <2>2, <2>4, <3>2, <3>3, <3>4 DEF NextScan, Scan
  <2> QED BY <2>3, <2>4
<1> QED BY <1>2, <1>3

-----------------------------------------------------------------------------
(***************************************************************************)
(* Types.                                                                  *)
(***************************************************************************)

\* What the types need: the text is that of the lines, and a list of search
\* keys is read only by a call that is on the stack.
TypeInv ==
  /\ TypeOK
  /\ lines \in LineSeqs /\ text = Bytes(lines) /\ text \in Seq(STRING)
  /\ from \in 0..Len(text)
  /\ node = "list" => stack # <<>>

LEMMA InitTypes == Init => TypeInv
<1> SUFFICES ASSUME Init PROVE TypeInv
  OBVIOUS
<1>1. lines \in LineSeqs
  <2>1. PICK k \in 1..MaxLines : lines \in [1..k -> Lines]
    BY DEF Init
  <2> QED BY <2>1, ImapParserAssumption DEF LineSeqs
<1>2. text \in Seq(STRING)
  BY <1>1, Layout DEF Init
<1>3. 0 \in 0..Len(text) /\ <<>> \in Seq({"not", "list"})
  BY <1>2
<1> QED BY <1>1, <1>2, <1>3 DEF Init, TypeInv, TypeOK, Nodes

\* What next leaves in the scanner has its type.
LEMMA ScannedTypes ==
  ASSUME TypeInv, NEW e \in Expects, NEW orEnd, Scanned(Next_(e, orEnd)), UNCHANGED <<text, lines>>
  PROVE  /\ pos' \in 0..Len(text)' /\ listDepth' \in Nat
         /\ error' \in BOOLEAN /\ eof' \in BOOLEAN /\ lastWasCRLF' \in BOOLEAN
<1> DEFINE r == Next_(e, orEnd)
<1>1. NextScan(r)
  BY NextScans DEF TypeInv, TypeOK
<1> HIDE DEF r
<1>2. Scanned(r)
  BY DEF r
<1>3. Len(text) \in Nat
  BY DEF TypeInv
<1>4. error' \in BOOLEAN /\ eof' \in BOOLEAN /\ lastWasCRLF' \in BOOLEAN
  BY <1>2, Zenon DEF Scanned
<1>5. pos' = pos + r.eat /\ listDepth' = r.depth /\ pos \in Nat
  BY <1>2, <1>3 DEF Scanned, TypeInv, TypeOK
<1>6. r.eat \in Nat /\ pos + r.eat <= Len(text) /\ r.depth \in Nat /\ text' = text
  BY <1>1 DEF NextScan
<1>7. pos' \in 0..Len(text) /\ listDepth' \in Nat
  BY <1>3, <1>5, <1>6
<1> QED BY <1>4, <1>6, <1>7

\* A step that reads the name or an argument of a command.
LEMMA NameReads ==
  ASSUME ReadName
  PROVE  /\ node = "name" /\ "Atom" \in Expects /\ Scanned(Next_("Atom", FALSE))
         /\ UNCHANGED <<text, lines, mode, tagged, stack, from, results>>
<1>1. node = "name" /\ Scanned(Next_("Atom", FALSE)) /\ UNCHANGED <<text, lines, mode, tagged, stack, from, results>>
  BY Zenon DEF ReadName
<1> QED BY <1>1, Zenon DEF Expects

LEMMA ArgReads ==
  ASSUME ReadArg
  PROVE  /\ node \in DOMAIN RuleAt /\ Leads(RuleAt[node]) /\ RuleAt[node].expect \in Expects
         /\ Scanned(Next_(RuleAt[node].expect, RuleAt[node].orEnd))
         /\ UNCHANGED <<text, lines, mode, tagged, uid, from, results>>
<1>1. /\ node \in DOMAIN RuleAt /\ Scanned(Next_(RuleAt[node].expect, RuleAt[node].orEnd))
      /\ UNCHANGED <<text, lines, mode, tagged, uid, from, results>>
  BY Zenon DEF ReadArg
<1>2. Leads(RuleAt[node])
  BY <1>1, RuleAtLeads
<1>3. RuleAt[node].expect \in Expects
  BY <1>2, Zenon DEF Leads
<1> QED BY <1>1, <1>2, <1>3

LEMMA TokenReads ==
  ASSUME ReadName \/ ReadArg
  PROVE  /\ \E e, o : e \in Expects /\ Scanned(Next_(e, o))
         /\ node \in DOMAIN RuleAt \cup {"name"} /\ UNCHANGED <<text, lines, from, results>>
<1>1. CASE ReadName
  BY <1>1, NameReads
<1>2. CASE ReadArg
  BY <1>2, ArgReads
<1> QED BY <1>1, <1>2

\* The node that a rule leads to, and the calls under way then.
LEMMA ArgTypes ==
  ASSUME TypeInv, ReadArg
  PROVE  /\ node' \in (DOMAIN RuleAt \ {"root", "list"}) \cup {"return", "searchEnd", "ok", "err", "perr"}
         /\ stack' \in Seq({"not", "list"})
<1> DEFINE rule == RuleAt[node]
           r    == Next_(rule.expect, rule.orEnd)
           alts == {a \in rule.alts : a[1] = r.token /\ (a[2] = AnyWord \/ r.word \in a[2])}
           best == {a \in alts : a[2] # AnyWord} \cup {a \in alts : \A b \in alts : b[2] = AnyWord}
           next == IF r.token = "none" THEN rule.no
                   ELSE IF alts = {} THEN "err" ELSE (CHOOSE a \in best : TRUE)[3]
<1>1. Leads(rule)
  BY ArgReads
<1>2. /\ node' = CASE next = "key"    -> KeyNode(r.word)
                  [] next = "fetch2none" /\ (error \/ r.bad) -> "ok"
                  [] next = "fetch2end"  /\ (error \/ r.bad) -> "ok"
                  [] OTHER -> next
      /\ stack' = CASE next = "key" -> Calls(r.word) \o stack
                   [] node = "list" /\ next = "return" -> Tail(stack)
                   [] OTHER -> stack
  BY Zenon DEF ReadArg
<1>3. next \in Targets \cup {"key"}
  <2>1. CASE r.token = "none"
    <3>1. next = rule.no
      BY <2>1, Zenon
    <3> HIDE DEF next, r, rule, alts, best
    <3> QED BY <1>1, <3>1 DEF Leads
  <2>2. CASE r.token # "none" /\ alts = {}
    BY <2>2 DEF Targets
  <2>3. CASE r.token # "none" /\ alts # {}
    <3>1. best # {} /\ best \subseteq rule.alts
      BY <2>3
    <3> HIDE DEF best, alts, r, rule
    <3>2. (CHOOSE a \in best : TRUE) \in rule.alts
      BY <3>1
    <3>3. next = (CHOOSE a \in best : TRUE)[3]
      BY <2>3
    <3> QED BY <1>1, <3>2, <3>3 DEF Leads
  <2> QED BY <2>1, <2>2, <2>3
<1> HIDE DEF next, best, alts, r, rule
<1>4. CASE next = "key"
  <2>1. node' = KeyNode(r.word) /\ stack' = Calls(r.word) \o stack
    BY <1>2, <1>4
  <2>2. stack \in Seq({"not", "list"}) /\ Calls(r.word) \in Seq({"not", "list"})
    BY KeysLead DEF TypeInv, TypeOK
  <2>3. stack' \in Seq({"not", "list"})
    BY <2>1, <2>2
  <2> QED BY <2>1, <2>3, KeysLead
<1>5. CASE next # "key"
  <2>1. next \in Targets
    BY <1>3, <1>5
  <2>2. node' \in {"ok", next}
    BY <1>2, <1>5
  <2>3. stack' \in Seq({"not", "list"})
    <3>1. stack \in Seq({"not", "list"}) /\ (node = "list" => stack # <<>>)
      BY DEF TypeInv, TypeOK
    <3>2. stack' = stack \/ (node = "list" /\ stack' = Tail(stack))
      BY <1>2, <1>5
    <3> QED BY <3>1, <3>2
  <2> QED BY <2>1, <2>2, <2>3 DEF Targets
<1> QED BY <1>4, <1>5

\* The end of the rest of a line is ahead.
LEMMA RestTypes ==
  ASSUME TypeInv
  PROVE  RestOfLine \in pos..Len(text) /\ (pos < Len(text) => RestOfLine > pos)
<1> DEFINE ends == {n \in pos + 1..Len(text) : text[n] \in Literals \cup {CRLF, CRLFWait}}
           starts == {Start(k) : k \in 1..Len(lines)} \cup {Len(text)}
           Least(set) == CHOOSE n \in set : \A m \in set : n <= m
           after == {n \in starts : n > Least(ends)}
<1>1. Len(text) \in Nat /\ pos \in 0..Len(text)
  BY DEF TypeInv, TypeOK
<1>2. starts \subseteq 0..Len(text)
  <2>1. PICK n \in Nat : n = Len(lines)
    BY LineSeqFacts DEF TypeInv
  <2>2. Start(n + 1) = Len(text) /\ \A k \in 1..n + 1 : Start(k) \in Nat
    BY <2>1, Layout, StartRecursion DEF TypeInv
  <2>3. \A k \in 1..n : Start(k) <= Len(text)
    <3> TAKE k \in 1..n
    <3>1. Start(k + 1) <= Start(n + 1)
      BY <2>1, Layout DEF TypeInv
    <3>2. Start(k + 1) = Start(k) + Len(lines[k].text) /\ Len(lines[k].text) \in Nat
      BY <2>1, StartRecursion, LineSeqFacts DEF TypeInv
    <3> QED BY <2>2, <3>1, <3>2
  <2> QED BY <1>1, <2>1, <2>2, <2>3
<1>3. Len(text) > 0 => text[Len(text)] = CRLF
  BY TextEnds DEF TypeInv
<1>4. CASE ends = {}
  BY <1>1, <1>4 DEF RestOfLine
<1>5. CASE ends # {}
  <2>1. Least(ends) \in ends /\ \A m \in ends : Least(ends) <= m
    <3>1. ends \subseteq Nat
      BY <1>1
    <3> HIDE DEF ends
    <3> QED BY <1>5, <3>1, LeastOf
  <2>2. CASE text[Least(ends)] = CRLF
    <3>1. RestOfLine = Least(ends)
      BY <1>5, <2>2 DEF RestOfLine
    <3> QED BY <1>1, <2>1, <3>1
  <2>3. CASE text[Least(ends)] # CRLF
    <3>1. RestOfLine = Least(after)
      BY <1>5, <2>3 DEF RestOfLine
    <3>2. Least(ends) < Len(text)
      BY <1>1, <1>3, <2>1, <2>3
    <3>3. after \subseteq Nat /\ after # {} /\ \A m \in after : m \in pos..Len(text) /\ m > pos
      <4>1. PICK e \in pos + 1..Len(text) : e = Least(ends)
        BY <2>1
      <4>2. Len(text) \in starts /\ after = {n \in starts : n > e}
        BY <4>1
      <4>3. e < Len(text) /\ e \in Nat /\ pos < e
        BY <1>1, <3>2, <4>1
      <4> HIDE DEF starts, after
      <4>4. Len(text) \in after
        BY <4>2, <4>3
      <4>5. \A m \in after : m \in 0..Len(text) /\ m > e
        BY <1>2, <4>2
      <4> QED BY <1>1, <4>3, <4>4, <4>5
    <3>4. Least(after) \in after
      <4> HIDE DEF after
      <4> QED BY <3>3, LeastOf
    <3> QED BY <3>1, <3>3, <3>4
  <2> QED BY <2>2, <2>3
<1> QED BY <1>4, <1>5

LEMMA TypeStep == TypeInv /\ [Next]_vars => TypeInv'
<1> SUFFICES ASSUME TypeInv, [Next]_vars PROVE TypeInv'
  OBVIOUS
<1>0. /\ pos \in 0..Len(text) /\ Len(text) \in Nat /\ lines \in LineSeqs /\ text = Bytes(lines) /\ text \in Seq(STRING)
      /\ from \in 0..Len(text) /\ stack \in Seq({"not", "list"})
  BY DEF TypeInv, TypeOK
<1>r. "tag" \in Nodes /\ "name" \in Nodes /\ "closed" \in Nodes /\ "err" \in Nodes /\ "perr" \in Nodes /\ DOMAIN RuleAt \subseteq Nodes
  BY DEF Nodes
<1>1. CASE ReadTag
  <2>1. /\ pos' \in 0..Len(text)' /\ listDepth' \in Nat
        /\ error' \in BOOLEAN /\ eof' \in BOOLEAN /\ lastWasCRLF' \in BOOLEAN
    BY <1>1, ScannedTypes DEF ReadTag, Expects
  <2>2. node' \in {"perr", "name"} /\ stack' = <<>> /\ from' = pos /\ uid' = FALSE /\ UNCHANGED <<text, lines>>
    BY <1>1 DEF ReadTag
  <2>3. tagged' \in BOOLEAN
    BY <1>1, Zenon DEF ReadTag
  <2>4. <<>> \in Seq({"not", "list"})
    OBVIOUS
  <2> QED BY <1>0, <1>r, <2>1, <2>2, <2>3, <2>4 DEF TypeInv, TypeOK
<1>2. CASE ReadName
  <2>1. /\ pos' \in 0..Len(text)' /\ listDepth' \in Nat
        /\ error' \in BOOLEAN /\ eof' \in BOOLEAN /\ lastWasCRLF' \in BOOLEAN
    BY <1>2, ScannedTypes DEF ReadName, Expects
  <2> DEFINE r == Next_("Atom", FALSE)
  <2>2. node' = IF r.token = "none" THEN "perr"
                ELSE IF r.word = "UID" /\ ~uid THEN "name"
                ELSE IF (uid /\ r.word \notin UIDCmds) \/ ~GoodMode(r.word) THEN "err"
                ELSE CommandNode(r.word, uid)
    BY <1>2 DEF ReadName
  <2>3. uid' \in BOOLEAN
    BY <1>2, Zenon DEF ReadName
  <2> HIDE DEF r
  <2>4. node' \in Nodes /\ node' # "list"
    <3>1. uid \in BOOLEAN
      BY DEF TypeInv, TypeOK
    <3>2. GoodMode(r.word) => CommandNode(r.word, uid) \in DOMAIN RuleAt \ {"root", "list", "not"}
      BY <3>1, CommandsLead
    <3> QED BY <1>r, <2>2, <3>2
  <2> QED BY <1>0, <1>2, <2>1, <2>3, <2>4 DEF ReadName, TypeInv, TypeOK
<1>3. CASE ReadArg
  <2>1. /\ pos' \in 0..Len(text)' /\ listDepth' \in Nat
        /\ error' \in BOOLEAN /\ eof' \in BOOLEAN /\ lastWasCRLF' \in BOOLEAN
    <3>1. PICK e, o : e \in Expects /\ Scanned(Next_(e, o))
      BY <1>3, TokenReads
    <3>2. UNCHANGED <<text, lines>>
      BY <1>3, ArgReads
    <3> QED BY <3>1, <3>2, ScannedTypes, Zenon
  <2>2. node' \in Nodes /\ node' # "list" /\ stack' \in Seq({"not", "list"})
    <3>1. /\ node' \in (DOMAIN RuleAt \ {"root", "list"}) \cup {"return", "searchEnd", "ok", "err", "perr"}
          /\ stack' \in Seq({"not", "list"})
      BY <1>3, ArgTypes, Zenon
    <3> QED BY <3>1 DEF Nodes
  <2>3. UNCHANGED <<text, lines, mode, tagged, uid, from, results>>
    BY <1>3, ArgReads
  <2> QED BY <1>0, <2>1, <2>2, <2>3 DEF TypeInv, TypeOK
<1>4. CASE KeyReturns
  <2>1. CASE stack = <<>>
    <3>1. node' = "root" /\ stack' = stack /\ UNCHANGED <<text, lines, mode, scanner, tagged, uid, from, results>>
      BY <1>4, <2>1 DEF KeyReturns
    <3>2. "root" \in Nodes
      BY RuleNodes DEF SearchNodes, Nodes
    <3> QED BY <1>0, <3>1, <3>2 DEF TypeInv, TypeOK, scanner
  <2>2. CASE stack # <<>>
    <3>1. Head(stack) \in {"not", "list"} /\ Tail(stack) \in Seq({"not", "list"})
      BY <1>0, <2>2
    <3>2. /\ node' = Head(stack) /\ stack' = (IF Head(stack) = "not" THEN Tail(stack) ELSE stack)
          /\ UNCHANGED <<text, lines, mode, scanner, tagged, uid, from, results>>
      BY <1>4, <2>2 DEF KeyReturns
    <3>3. "not" \in Nodes /\ "list" \in Nodes
      BY RuleNodes DEF SearchNodes, Nodes
    <3>4. stack' \in Seq({"not", "list"}) /\ (node' = "list" => stack' # <<>>)
      BY <1>0, <2>2, <3>1, <3>2
    <3> QED BY <1>0, <3>1, <3>2, <3>3, <3>4 DEF TypeInv, TypeOK, scanner
  <2> QED BY <2>1, <2>2
<1>5. CASE ReturnOK
  <2>1. node' = "tag" /\ UNCHANGED <<text, lines, mode, tagged, uid, stack, from, scanner>>
    BY <1>5 DEF ReturnOK, Return
  <2> QED BY <1>0, <1>r, <2>1 DEF TypeInv, TypeOK, scanner
<1>6. CASE ReturnError
  <2>1. pos' \in {pos, RestOfLine}
    BY <1>6 DEF ReturnError, Drain
  <2>2. node' \in {"tag", "closed"} /\ UNCHANGED <<text, lines, mode, tagged, uid, stack, from, listDepth, error, eof, lastWasCRLF>>
    BY <1>6 DEF ReturnError, Return
  <2>3. pos' \in 0..Len(text)
    BY <1>0, <2>1, RestTypes
  <2> QED BY <1>0, <1>r, <2>2, <2>3 DEF TypeInv, TypeOK
<1>7. CASE UNCHANGED vars
  BY <1>7 DEF TypeInv, TypeOK, vars, scanner
<1> QED BY <1>1, <1>2, <1>3, <1>4, <1>5, <1>6, <1>7 DEF Next

\* Every variable of the parser has its type: its table leads to no node
\* without a rule, no literal is read beyond the input, and no parenthesis is
\* closed that is not open, whatever lines a client sends.
THEOREM ParserTypes == Spec => []TypeOK
<1>1. TypeInv => TypeOK
  BY DEF TypeInv
<1> QED BY InitTypes, TypeStep, <1>1, PTL DEF Spec

-----------------------------------------------------------------------------
(***************************************************************************)
(* A failure of the scanner ends the work of the connection.               *)
(***************************************************************************)
Results == [from : Nat, outcome : {"ok", "bad", "closed", "eof"}, failed : BOOLEAN]
Failed == \E j \in 1..Len(results) : results[j].failed

\* A command is run only if the scanner did not fail in an earlier one: a
\* failure sticks (Scanner.Error is never reset), and the tag is not read.
NothingAfterFailure ==
  \A k \in 1..Len(results) : FailedBefore(k) => results[k].outcome # "ok"

FailInv ==
  /\ results \in Seq(Results)
  /\ Failed => error /\ node \in {"tag", "perr", "closed"}
  /\ NothingAfterFailure

\* What a return adds to the results.
LEMMA ReturnAdds ==
  ASSUME TypeInv, results \in Seq(Results), NEW o \in {"ok", "bad", "closed", "eof"}, NEW n, Return(o, n)
  PROVE  /\ results' \in Seq(Results) /\ Len(results) \in Nat /\ Len(results') = Len(results) + 1
         /\ \A k \in 1..Len(results) : results'[k] = results[k]
         /\ results'[Len(results) + 1] = [from |-> from, outcome |-> o, failed |-> error]
         /\ Failed' <=> Failed \/ error
         /\ \A k \in 1..Len(results) : FailedBefore(k)' <=> FailedBefore(k)
         /\ \A k \in Nat : k = Len(results) + 1 => (FailedBefore(k)' <=> Failed)
<1> DEFINE new == [from |-> from, outcome |-> o, failed |-> error]
<1>m. PICK m \in Nat : m = Len(results)
  OBVIOUS
<1>1. new \in Results
  BY DEF TypeInv, TypeOK, Results
<1>2. results' = Append(results, new)
  BY DEF Return
<1> HIDE DEF new
<1>3. m \in Nat /\ results' \in Seq(Results) /\ Len(results') = m + 1 /\ results'[m + 1] = new
  BY <1>1, <1>2, <1>m
<1>4. \A k \in 1..m : results'[k] = results[k]
  BY <1>1, <1>2, <1>m
<1>5. new.failed = error
  BY DEF new
<1>6. Failed' <=> Failed \/ error
  <2>1. Failed' <=> \E j \in 1..m + 1 : results'[j].failed
    BY <1>3 DEF Failed
  <2>2. Failed <=> \E j \in 1..m : results[j].failed
    BY <1>m DEF Failed
  <2>3. ASSUME Failed' PROVE Failed \/ error
    <3>1. PICK j \in 1..m + 1 : results'[j].failed
      BY <2>1, <2>3
    <3>2. CASE j = m + 1
      BY <1>3, <1>5, <3>1, <3>2
    <3>3. CASE j \in 1..m
      BY <1>4, <2>2, <3>1, <3>3
    <3> QED BY <1>3, <3>2, <3>3
  <2>4. ASSUME Failed PROVE Failed'
    <3>1. PICK j \in 1..m : results[j].failed
      BY <2>2, <2>4
    <3>2. j \in 1..m + 1 /\ results'[j].failed
      BY <1>3, <1>4, <3>1
    <3> QED BY <2>1, <3>2
  <2>5. ASSUME error PROVE Failed'
    <3>1. m + 1 \in 1..m + 1 /\ results'[m + 1].failed
      BY <1>3, <1>5, <2>5
    <3> QED BY <2>1, <3>1
  <2> QED BY <2>3, <2>4, <2>5
<1>7. \A k \in 1..m + 1 : FailedBefore(k)' <=> \E j \in 1..k - 1 : results[j].failed
  <2> TAKE k \in 1..m + 1
  <2>1. \A j \in 1..k - 1 : j \in 1..m
    BY <1>3
  <2>2. FailedBefore(k)' <=> \E j \in 1..k - 1 : results'[j].failed
    BY DEF FailedBefore
  <2> QED BY <1>4, <2>1, <2>2
<1>8. \A k \in 1..m : FailedBefore(k)' <=> FailedBefore(k)
  <2> TAKE k \in 1..m
  <2>1. k \in 1..m + 1
    OBVIOUS
  <2> QED BY <1>7, <2>1 DEF FailedBefore
<1>9. \A k \in Nat : k = m + 1 => (FailedBefore(k)' <=> Failed)
  <2> SUFFICES ASSUME NEW k \in 1..m + 1, k - 1 = m PROVE FailedBefore(k)' <=> Failed
    OBVIOUS
  <2>1. FailedBefore(k)' <=> \E j \in 1..m : results[j].failed
    BY <1>7
  <2> QED BY <1>m, <2>1 DEF Failed
<1> QED BY <1>m, <1>3, <1>4, <1>6, <1>8, <1>9 DEF new

LEMMA ResultFrom ==
  ASSUME NEW rs \in Seq(Results), NEW i \in 1..Len(rs)
  PROVE  rs[i].from \in Nat
<1>1. rs[i] \in Results
  OBVIOUS
<1> QED BY <1>1 DEF Results

LEMMA InitFail == Init => FailInv
<1> SUFFICES ASSUME Init PROVE FailInv
  OBVIOUS
<1>1. results = <<>> /\ Len(<<>>) = 0 /\ <<>> \in Seq(Results) /\ 1..0 = {}
  BY DEF Init
<1> QED BY <1>1 DEF FailInv, Failed, NothingAfterFailure

LEMMA FailStep == TypeInv /\ FailInv /\ [Next]_vars => FailInv'
<1> SUFFICES ASSUME TypeInv, FailInv, [Next]_vars PROVE FailInv'
  OBVIOUS
<1>0. results \in Seq(Results) /\ (Failed => error /\ node \in {"tag", "perr", "closed"}) /\ NothingAfterFailure
  BY DEF FailInv
<1>k. UNCHANGED results => (Failed' <=> Failed) /\ (NothingAfterFailure' <=> NothingAfterFailure)
  BY DEF Failed, NothingAfterFailure, FailedBefore
<1>1. CASE ReadTag
  <2> DEFINE r == Next_("Tag", FALSE)
  <2>1. NextScan(r)
    BY NextScans DEF TypeInv, TypeOK, Expects
  <2>2. Scanned(r) /\ node' = (IF r.token = "none" THEN "perr" ELSE "name") /\ UNCHANGED results
    BY <1>1 DEF ReadTag
  <2> HIDE DEF r
  <2>3. error => error' /\ node' = "perr"
    <3>1. error => r.token = "none"
      BY <2>1 DEF NextScan
    <3>2. error => error'
      BY <2>2, Zenon DEF Scanned
    <3> QED BY <2>2, <3>1, <3>2
  <2> QED BY <1>0, <1>k, <2>2, <2>3 DEF FailInv
<1>2. CASE ReadName \/ ReadArg \/ KeyReturns
  <2>1. UNCHANGED results
    <3>1. CASE ReadName \/ ReadArg
      BY <3>1, TokenReads
    <3>2. CASE KeyReturns
      BY <3>2 DEF KeyReturns
    <3> QED BY <1>2, <3>1, <3>2
  <2>2. node \notin {"tag", "perr", "closed"}
    <3>1. {"tag", "perr", "closed"} \cap DOMAIN RuleAt = {}
      BY NoRuleAt
    <3>2. CASE ReadName \/ ReadArg
      BY <3>1, <3>2, TokenReads
    <3>3. CASE KeyReturns
      BY <3>3 DEF KeyReturns
    <3> QED BY <1>2, <3>2, <3>3
  <2> QED BY <1>0, <1>k, <2>1, <2>2 DEF FailInv
<1>3. ASSUME NEW o \in {"ok", "bad", "closed", "eof"}, NEW n \in {"tag", "closed"}, Return(o, n), o = "ok" => ~Failed, error' = error
      PROVE  FailInv'
  <2>m. PICK m \in Nat : m = Len(results)
    BY <1>0
  <2>1. /\ results' \in Seq(Results) /\ Len(results') = m + 1
        /\ \A k \in 1..m : results'[k] = results[k] /\ (FailedBefore(k)' <=> FailedBefore(k))
        /\ results'[m + 1].outcome = o
        /\ (Failed' <=> Failed \/ error) /\ \A k \in Nat : k = m + 1 => (FailedBefore(k)' <=> Failed)
    BY <1>0, <1>3, <2>m, ReturnAdds
  <2>2. node' = n
    BY <1>3 DEF Return
  <2>3. \A k \in 1..m : FailedBefore(k) => results[k].outcome # "ok"
    BY <1>0, <2>m DEF NothingAfterFailure
  <2>4. ASSUME NEW k \in 1..m + 1, FailedBefore(k)' PROVE results'[k].outcome # "ok"
    <3>1. CASE k = m + 1
      BY <1>3, <2>1, <2>4, <3>1
    <3>2. CASE k \in 1..m
      BY <2>1, <2>3, <2>4, <3>2
    <3> QED BY <2>1, <3>1, <3>2
  <2>5. NothingAfterFailure'
    BY <2>1, <2>4 DEF NothingAfterFailure
  <2>6. Failed' => error' /\ node' \in {"tag", "perr", "closed"}
    BY <1>0, <1>3, <2>1, <2>2
  <2> QED BY <2>1, <2>5, <2>6 DEF FailInv
<1>4. CASE ReturnOK
  <2>1. Return("ok", "tag") /\ error' = error /\ node \notin {"tag", "perr", "closed"}
    BY <1>4 DEF ReturnOK, scanner
  <2> QED BY <1>0, <1>3, <2>1
<1>5. CASE ReturnError
  <2>1. error' = error /\ (Return("eof", "closed") \/ Return("bad", "tag") \/ Return("closed", "closed"))
    BY <1>5 DEF ReturnError
  <2> QED BY <1>3, <2>1
<1>6. CASE UNCHANGED vars
  <2>1. UNCHANGED results /\ error' = error /\ node' = node
    BY <1>6 DEF vars, scanner
  <2> QED BY <1>0, <1>k, <2>1 DEF FailInv
<1> QED BY <1>1, <1>2, <1>4, <1>5, <1>6 DEF Next

\* No command is run after the scanner has failed in an earlier one, whatever
\* the bytes that are left look like.
THEOREM FailureEndsWork == Spec => []NothingAfterFailure
<1>1. FailInv => NothingAfterFailure
  BY DEF FailInv
<1> QED BY InitTypes, TypeStep, InitFail, FailStep, <1>1, PTL DEF Spec

-----------------------------------------------------------------------------
(***************************************************************************)
(* Every call of ParseCommand moves on.                                    *)
(***************************************************************************)

\* Each call of ParseCommand begins behind the beginning of the one before
\* it, so that there are at most as many as there are lexemes, and one more:
\* the loop that serves a connection does not spin on what it cannot parse.
CallsMoveOn ==
  /\ \A i, j \in 1..Len(results) : i < j => results[i].from < results[j].from
  /\ Len(results) <= Len(text) + 1

MoveInv ==
  /\ \A i, j \in 1..Len(results) : i < j => results[i].from < results[j].from
  /\ \A i \in 1..Len(results) : i - 1 <= results[i].from /\ results[i].from <= Len(text)
  /\ node = "tag" => Len(results) <= pos /\ \A i \in 1..Len(results) : results[i].from < pos
  /\ node \notin {"tag", "closed"} =>
       /\ Len(results) <= from /\ \A i \in 1..Len(results) : results[i].from < from
       /\ \/ from < pos
          \/ from = pos /\ node = "perr" /\ ~tagged /\ (error \/ (~AtEOF /\ ~lastWasCRLF))

LEMMA MoveInvMoves == TypeInv /\ results \in Seq(Results) /\ MoveInv => CallsMoveOn
<1> SUFFICES ASSUME TypeInv, results \in Seq(Results), MoveInv PROVE CallsMoveOn
  OBVIOUS
<1>1. PICK m \in Nat : m = Len(results)
  OBVIOUS
<1>2. Len(text) \in Nat
  BY DEF TypeInv
<1>3. ASSUME m # 0 PROVE m - 1 <= results[m].from /\ results[m].from <= Len(text) /\ results[m].from \in Nat
  <2>1. m \in 1..Len(results)
    BY <1>1, <1>3
  <2>2. results[m].from \in Nat
    BY <2>1, ResultFrom
  <2> QED BY <2>1, <2>2 DEF MoveInv
<1>4. m <= Len(text) + 1
  BY <1>2, <1>3
<1> QED BY <1>1, <1>4 DEF MoveInv, CallsMoveOn

LEMMA InitMove == Init => MoveInv
<1> SUFFICES ASSUME Init PROVE MoveInv
  OBVIOUS
<1>1. results = <<>> /\ Len(<<>>) = 0 /\ 1..0 = {} /\ pos = 0 /\ node = "tag"
  BY DEF Init
<1> QED BY <1>1 DEF MoveInv

LEMMA MoveStep == TypeInv /\ FailInv /\ MoveInv /\ [Next]_vars => MoveInv'
<1> SUFFICES ASSUME TypeInv, FailInv, MoveInv, [Next]_vars PROVE MoveInv'
  OBVIOUS
<1>0. pos \in 0..Len(text) /\ Len(text) \in Nat /\ from \in 0..Len(text) /\ results \in Seq(Results)
  BY DEF TypeInv, TypeOK, FailInv
<1>n. {"tag", "perr", "closed"} \cap DOMAIN RuleAt = {}
  BY NoRuleAt
<1>1. CASE ReadTag
  <2> DEFINE r == Next_("Tag", FALSE)
  <2>1. NextScan(r)
    BY NextScans DEF TypeInv, TypeOK, Expects
  <2>2. /\ Scanned(r) /\ node' = (IF r.token = "none" THEN "perr" ELSE "name") /\ tagged' = (r.token # "none")
        /\ from' = pos /\ UNCHANGED <<text, results>> /\ node = "tag"
    BY <1>1 DEF ReadTag
  <2> HIDE DEF r
  <2>3. from' < pos' \/ (from' = pos' /\ r.eat = 0 /\ r.token = "none")
    <3>1. r.eat \in Nat /\ (r.eat = 0 => r.token = "none")
      BY <2>1 DEF NextScan
    <3>2. pos' = pos + r.eat /\ from' = pos
      BY <2>2 DEF Scanned
    <3> QED BY <1>0, <3>1, <3>2
  <2>4. r.eat = 0 => error' \/ (~AtEOF /\ ~lastWasCRLF')
    <3>1. (AtEOF => r.bad) /\ (r.eat = 0 => ~r.end)
      BY <2>1 DEF NextScan
    <3>2. (r.bad => error') /\ (~r.end => ~lastWasCRLF')
      BY <2>2, Zenon DEF Scanned
    <3> QED BY <3>1, <3>2, Zenon
  <2>5. r.eat = 0 => (AtEOF' <=> AtEOF)
    BY <1>0, <2>2 DEF Scanned, AtEOF
  <2>6. \/ from' < pos'
        \/ from' = pos' /\ node' = "perr" /\ ~tagged' /\ (error' \/ (~AtEOF' /\ ~lastWasCRLF'))
    BY <2>2, <2>3, <2>4, <2>5
  <2>7. node' # "tag"
    BY <2>2
  <2> QED BY <2>2, <2>6, <2>7 DEF MoveInv
<1>2. CASE ReadName \/ ReadArg
  <2>1. PICK e, o : e \in Expects /\ Scanned(Next_(e, o))
    BY <1>2, TokenReads
  <2>2. NextScan(Next_(e, o))
    BY <2>1, NextScans DEF TypeInv, TypeOK
  <2> DEFINE r == Next_(e, o)
  <2> HIDE DEF r
  <2>3. pos <= pos'
    <3>1. r.eat \in Nat /\ pos' = pos + r.eat
      BY <2>1, <2>2 DEF r, NextScan, Scanned
    <3> QED BY <1>0, <3>1
  <2>4. node \notin {"tag", "perr", "closed"} /\ node' \notin {"tag", "closed"} /\ UNCHANGED <<text, results, from>>
    <3>1. CASE ReadName
      <4>1. node' \in {"perr", "name", "err"} \cup DOMAIN RuleAt
        <5>1. uid \in BOOLEAN
          BY DEF TypeInv, TypeOK
        <5> QED BY <3>1, <5>1, CommandsLead DEF ReadName
      <4> QED BY <1>n, <3>1, <4>1, NameReads
    <3>2. CASE ReadArg
      BY <1>n, <3>2, ArgTypes, ArgReads
    <3> QED BY <1>2, <3>1, <3>2
  <2>5. from < pos
    BY <2>4 DEF MoveInv
  <2>6. pos' \in Nat /\ from' < pos'
    BY <1>0, <2>1, <2>2, <2>3, <2>4, <2>5 DEF Scanned, NextScan
  <2> QED BY <2>4, <2>6 DEF MoveInv
<1>3. CASE KeyReturns
  <2>1. UNCHANGED <<text, results, from, pos>> /\ node = "return"
    BY <1>3 DEF KeyReturns, scanner
  <2>2. node' \in {"root", "not", "list"}
    BY <1>3 DEF KeyReturns, TypeInv, TypeOK
  <2> QED BY <1>0, <2>1, <2>2 DEF MoveInv
<1>4. ASSUME NEW o \in {"ok", "bad", "closed", "eof"}, NEW n \in {"tag", "closed"}, Return(o, n),
             node \notin {"tag", "closed"}, n = "tag" => from < pos', pos' \in Nat
      PROVE  MoveInv'
  <2>m. PICK m \in Nat : m = Len(results)
    BY <1>0
  <2>1. /\ Len(results') = m + 1 /\ results'[m + 1].from = from
        /\ \A k \in 1..m : results'[k] = results[k]
    BY <1>0, <1>4, <2>m, ReturnAdds
  <2>2. node' = n /\ text' = text
    BY <1>4 DEF Return
  <2>3. /\ \A i, j \in 1..m : i < j => results[i].from < results[j].from
        /\ \A i \in 1..m : i - 1 <= results[i].from /\ results[i].from <= Len(text)
        /\ m <= from /\ \A i \in 1..m : results[i].from < from
    BY <1>4, <2>m DEF MoveInv
  <2>4. ASSUME NEW i \in 1..m + 1, NEW j \in 1..m + 1, i < j PROVE results'[i].from < results'[j].from
    <3>1. i \in 1..m
      BY <2>4
    <3>2. CASE j = m + 1
      BY <2>1, <2>3, <3>1, <3>2
    <3>3. CASE j \in 1..m
      BY <2>1, <2>3, <2>4, <3>1, <3>3
    <3> QED BY <3>2, <3>3
  <2>5. ASSUME NEW i \in 1..m + 1
        PROVE  i - 1 <= results'[i].from /\ results'[i].from <= Len(text) /\ results'[i].from <= from
    <3>1. CASE i = m + 1
      BY <1>0, <2>1, <2>3, <3>1
    <3>2. CASE i \in 1..m
      <4>1. results[i].from \in Nat
        BY <1>0, <2>m, <3>2, ResultFrom
      <4> QED BY <1>0, <2>1, <2>3, <3>2, <4>1
    <3> QED BY <3>1, <3>2
  <2>6. n = "tag" => m + 1 <= pos' /\ \A i \in 1..m + 1 : results'[i].from < pos'
    <3> SUFFICES ASSUME n = "tag" PROVE m + 1 <= pos' /\ \A i \in 1..m + 1 : results'[i].from < pos'
      OBVIOUS
    <3>1. m + 1 <= pos'
      BY <1>0, <1>4, <2>3
    <3>2. ASSUME NEW i \in 1..m + 1 PROVE results'[i].from < pos'
      <4>1. results'[i].from \in Nat
        <5>1. results' \in Seq(Results) /\ i \in 1..Len(results')
          BY <1>0, <1>4, <2>1, ReturnAdds
        <5> QED BY <5>1, ResultFrom
      <4> QED BY <1>0, <1>4, <2>5, <4>1
    <3> QED BY <3>1, <3>2
  <2> QED BY <2>1, <2>2, <2>4, <2>5, <2>6 DEF MoveInv
<1>5. CASE ReturnOK
  <2>1. Return("ok", "tag") /\ pos' = pos /\ node \notin {"tag", "perr", "closed"}
    BY <1>5 DEF ReturnOK, scanner
  <2>2. from < pos
    BY <2>1 DEF MoveInv
  <2> QED BY <1>0, <1>4, <2>1, <2>2
<1>6. CASE ReturnError
  <2>1. /\ node \notin {"tag", "closed"}
        /\ \/ Return("eof", "closed") \/ Return("closed", "closed")
           \/ Return("bad", "tag") /\ (tagged \/ ~error)
        /\ pos' = IF lastWasCRLF THEN pos ELSE RestOfLine
    BY <1>6 DEF ReturnError, Drain
  <2>2. pos' \in Nat /\ pos <= pos' /\ (~lastWasCRLF /\ pos < Len(text) => pos < pos')
    BY <1>0, <2>1, RestTypes
  <2>3. Return("bad", "tag") /\ (tagged \/ ~error) => from < pos'
    <3>1. from < pos \/ (from = pos /\ ~tagged /\ (error \/ (~AtEOF /\ ~lastWasCRLF)))
      BY <2>1 DEF MoveInv
    <3>2. CASE from < pos
      BY <1>0, <2>2, <3>2
    <3>3. CASE from = pos /\ ~tagged /\ (error \/ (~AtEOF /\ ~lastWasCRLF))
      <4>1. ~AtEOF => pos < Len(text)
        BY <1>0 DEF AtEOF
      <4> QED BY <1>0, <2>2, <3>3, <4>1
    <3> QED BY <3>1, <3>2, <3>3
  <2> QED BY <1>4, <2>1, <2>2, <2>3
<1>7. CASE UNCHANGED vars
  <2>1. UNCHANGED <<text, results, from, pos, node, tagged, error, lastWasCRLF>>
    BY <1>7 DEF vars, scanner
  <2> QED BY <2>1 DEF MoveInv, AtEOF
<1> QED BY <1>1, <1>2, <1>3, <1>5, <1>6, <1>7 DEF Next

\* No two calls of ParseCommand begin at the same place.
THEOREM ParserMovesOn == Spec => []CallsMoveOn
<1>1. TypeInv /\ FailInv /\ MoveInv => CallsMoveOn
  BY MoveInvMoves DEF FailInv
<1> QED BY InitTypes, TypeStep, InitFail, FailStep, InitMove, MoveStep, <1>1, PTL DEF Spec
-----------------------------------------------------------------------------
(***************************************************************************)
(* The parser and the client are in step.                                  *)
(***************************************************************************)

\* p lexemes are read, and the next one is of the k-th line and not of the
\* data of a literal.
Inside(k, p) ==
  /\ k \in 1..Len(lines) /\ p \in Start(k)..Start(k + 1) - 1
  /\ Awaited(lines[k].text)[p - Start(k)] = 0

\* A lexeme of a line that is not data of a literal: only the last one is a
\* CRLF, and a literal is within the line.
LEMMA Framing ==
  ASSUME NEW l \in Lines, NEW i \in 1..Len(l.text), Awaited(l.text)[i - 1] = 0
  PROVE  /\ l.text[i] = CRLF <=> i = Len(l.text)
         /\ l.text[i] \notin Literals => Awaited(l.text)[i] = 0
         /\ l.text[i] \in Literals =>
              i + DataLen(l.text[i]) < Len(l.text) /\ Awaited(l.text)[i + DataLen(l.text[i])] = 0
<1> DEFINE t == l.text
           n == Len(t)
           A == Awaited(t)
<1>1. t \in Seq(STRING) /\ n \in Nat
  BY LineFacts
<1>2. /\ \A j \in 0..n : A[j] \in Nat
      /\ \A j \in 1..n : A[j] = IF A[j - 1] > 0 THEN A[j - 1] - 1 ELSE IF t[j] \in Literals THEN DataLen(t[j]) ELSE 0
  BY <1>1, AwaitedRecursion
<1>3. A[n] = 0 /\ \A j \in 1..n : t[j] = CRLF /\ A[j - 1] = 0 <=> j = n
  BY LinesAreFramed
<1>4. i \in 1..n /\ A[i - 1] = 0
  OBVIOUS
<1>d. \A x : DataLen(x) \in {1, 2}
  BY DEF DataLen
<1> HIDE DEF A, n, t
<1>5. t[i] = CRLF <=> i = n
  BY <1>3, <1>4
<1>6. A[i] = IF t[i] \in Literals THEN DataLen(t[i]) ELSE 0
  BY <1>2, <1>4
<1>7. ASSUME t[i] \in Literals PROVE i + DataLen(t[i]) < n /\ A[i + DataLen(t[i])] = 0
  <2>1. A[i] = DataLen(t[i])
    BY <1>6, <1>7
  <2>2. i # n /\ i + 1 \in 1..n /\ i + 1 - 1 = i
    <3>1. i # n
      BY <1>3, <1>d, <2>1
    <3> QED BY <1>1, <1>4, <3>1
  <2>3. A[i + 1] = A[i] - 1
    <3>1. A[i] > 0
      BY <1>d, <2>1
    <3> QED BY <1>2, <2>2, <3>1
  <2>4. i + 1 # n
    <3>1. A[i] # 0
      BY <1>d, <2>1
    <3> QED BY <1>3, <2>2, <3>1
  <2>5. CASE DataLen(t[i]) = 1
    BY <1>1, <2>1, <2>2, <2>3, <2>4, <2>5
  <2>6. CASE DataLen(t[i]) = 2
    <3>1. A[i + 1] = 1
      BY <2>1, <2>3, <2>6
    <3>2. i + 2 \in 1..n /\ i + 2 - 1 = i + 1
      BY <1>1, <2>2, <2>4
    <3>3. A[i + 2] = 0
      BY <1>2, <3>1, <3>2
    <3>4. i + 2 # n
      <4>1. A[i + 2 - 1] # 0
        BY <3>1, <3>2
      <4> QED BY <1>3, <3>2, <4>1
    <3> QED BY <1>1, <2>6, <3>2, <3>3, <3>4
  <2> QED BY <1>d, <2>5, <2>6
<1>8. t[i] \notin Literals => A[i] = 0
  BY <1>6
<1> QED BY <1>5, <1>7, <1>8 DEF A, n, t

\* What Inside says of the text.
LEMMA InsideFacts ==
  ASSUME TypeInv, NEW k, NEW p, Inside(k, p)
  PROVE  /\ Start(k) \in Nat /\ Start(k + 1) \in Nat /\ p \in Nat /\ Start(k + 1) = Start(k) + Len(lines[k].text)
         /\ k \in 1..Len(lines) /\ lines[k] \in Lines /\ Len(lines[k].text) \in Nat
         /\ p < Len(text) /\ Start(k + 1) <= Len(text)
         /\ p - Start(k) + 1 \in 1..Len(lines[k].text)
         /\ text[p + 1] = lines[k].text[p - Start(k) + 1]
<1>1. PICK n \in Nat : n = Len(lines)
  BY LineSeqFacts DEF TypeInv
<1>2. k \in 1..n /\ k + 1 \in 1..n + 1 /\ k \in 1..n + 1
  BY <1>1 DEF Inside
<1>3. lines[k] \in Lines /\ Len(lines[k].text) \in Nat
  BY <1>1, <1>2, LineSeqFacts DEF TypeInv
<1>4. Start(k) \in Nat /\ Start(k + 1) \in Nat /\ Start(k + 1) = Start(k) + Len(lines[k].text)
  BY <1>1, <1>2, StartRecursion DEF TypeInv
<1>5. p \in Start(k)..Start(k + 1) - 1
  BY DEF Inside
<1>6. PICK i \in Nat : i = p - Start(k) + 1 /\ i \in 1..Len(lines[k].text) /\ Start(k) + i = p + 1
  <2>1. PICK a \in Nat, b \in Nat : a = Start(k) /\ b = Len(lines[k].text) /\ Start(k + 1) = a + b
    BY <1>3, <1>4, Zenon
  <2>2. p \in a..a + b - 1
    BY <1>5, <2>1
  <2>3. p - a + 1 \in Nat /\ p - a + 1 \in 1..b /\ a + (p - a + 1) = p + 1
    BY <2>2
  <2> QED BY <2>1, <2>3
<1>7. text[Start(k) + i] = lines[k].text[i]
  BY <1>1, <1>2, <1>6, Layout DEF TypeInv
<1>8. Start(k + 1) <= Len(text)
  <2>1. Start(n + 1) = Len(text) /\ \A j \in 1..n, m \in 1..n + 1 : j < m => Start(j + 1) <= Start(m)
    BY <1>1, Layout DEF TypeInv
  <2> QED BY <1>2, <2>1
<1>9. Len(text) \in Nat
  BY DEF TypeInv
<1>10. p \in Nat /\ p < Len(text)
  <2> HIDE DEF Start
  <2> QED BY <1>4, <1>5, <1>8, <1>9
<1>11. text[p + 1] = lines[k].text[p - Start(k) + 1] /\ p - Start(k) + 1 \in 1..Len(lines[k].text)
  BY <1>6, <1>7
<1> QED BY <1>1, <1>2, <1>3, <1>4, <1>8, <1>10, <1>11

\* A line starts inside.
LEMMA StartInside ==
  ASSUME TypeInv, NEW k \in 1..Len(lines)
  PROVE  Inside(k, Start(k))
<1>1. lines[k] \in Lines /\ Len(lines[k].text) \in Nat /\ Len(lines) \in Nat
  BY LineSeqFacts DEF TypeInv
<1>2. Start(k) \in Nat /\ Start(k + 1) = Start(k) + Len(lines[k].text)
  <2>1. k \in 1..Len(lines) + 1
    BY <1>1
  <2> QED BY <2>1, StartRecursion DEF TypeInv
<1>3. Len(lines[k].text) > 0
  BY <1>1, LinesAreFramed
<1>4. Awaited(lines[k].text)[0] = 0
  <2>1. lines[k].text \in Seq(STRING)
    BY <1>1, LineFacts
  <2> QED BY <2>1, AwaitedRecursion
<1>5. Start(k) - Start(k) = 0
  BY <1>2
<1> QED BY <1>2, <1>3, <1>4, <1>5 DEF Inside

\* Without an error next stays in the line, or reads the end of it.
LEMMA NextStays ==
  ASSUME TypeInv, NEW k, Inside(k, pos), NEW r, NextScan(r), ~r.bad
  PROVE  /\ ~AtEOF
         /\ Ahead = CRLF => pos + r.eat = Start(k + 1)
         /\ Ahead # CRLF => Inside(k, pos + r.eat)
<1> DEFINE s == Start(k)
           l == lines[k]
           i == pos - s + 1
           n == Len(l.text)
<1>1. /\ s \in Nat /\ Start(k + 1) \in Nat /\ pos \in Nat /\ Start(k + 1) = s + n
      /\ k \in 1..Len(lines) /\ l \in Lines /\ n \in Nat /\ pos < Len(text) /\ i \in 1..n /\ Ahead = l.text[i]
  BY InsideFacts DEF Ahead
<1>2. Awaited(l.text)[i - 1] = 0
  <2>1. i - 1 = pos - s
    BY <1>1
  <2> QED BY <2>1 DEF Inside
<1>3. /\ l.text[i] = CRLF <=> i = n
      /\ l.text[i] \notin Literals => Awaited(l.text)[i] = 0
      /\ l.text[i] \in Literals => i + DataLen(l.text[i]) < n /\ Awaited(l.text)[i + DataLen(l.text[i])] = 0
  <2> HIDE DEF s, l, i
  <2> QED BY <1>1, <1>2, Framing
<1>4. \/ r.eat = 0 /\ Ahead \notin Ends
      \/ r.eat = 1 /\ Ahead \notin Literals
      \/ r.eat = 1 + DataLen(Ahead) /\ Ahead \in Literals
  BY DEF NextScan
<1>5. ~AtEOF
  BY <1>1 DEF AtEOF
<1>6. CRLF \in Ends /\ CRLF \notin Literals /\ \A x : DataLen(x) \in Nat
  BY DEF Ends, CRLF, Literals, DataLen
<1>i. i \in Nat /\ s + i = pos + 1
  BY <1>1
<1>7. ASSUME NEW j \in Nat, j < n, Awaited(l.text)[j] = 0, pos + r.eat = s + j PROVE Inside(k, pos + r.eat)
  <2>1. s + j \in s..Start(k + 1) - 1 /\ s + j - s = j
    <3>1. PICK a \in Nat, b \in Nat : a = s /\ b = n /\ Start(k + 1) = a + b
      BY <1>1, Zenon
    <3>2. j < b
      BY <1>7, <3>1
    <3>3. a + j \in a..a + b - 1 /\ a + j - a = j
      BY <3>2
    <3> HIDE DEF s, n
    <3> QED BY <3>1, <3>3
  <2>2. Inside(k, s + j)
    BY <1>1, <1>7, <2>1 DEF Inside
  <2> QED BY <1>7, <2>2
<1>8. CASE r.eat = 0 /\ Ahead \notin Ends
  <2>1. pos + r.eat = pos
    BY <1>1, <1>8
  <2> QED BY <1>5, <1>6, <1>8, <2>1
<1>9. CASE r.eat = 1 /\ Ahead \notin Literals
  <2>1. Ahead = CRLF => pos + r.eat = Start(k + 1)
    <3> HIDE DEF s, l, i, n
    <3> QED BY <1>1, <1>3, <1>9, <1>i
  <2>2. Ahead # CRLF => i < n /\ Awaited(l.text)[i] = 0 /\ pos + r.eat = s + i
    <3> HIDE DEF s, l, i, n
    <3> QED BY <1>1, <1>3, <1>9, <1>i
  <2> HIDE DEF s, l, i, n
  <2> QED BY <1>5, <1>7, <1>i, <2>1, <2>2
<1>10. CASE r.eat = 1 + DataLen(Ahead) /\ Ahead \in Literals
  <2>1. PICK d \in Nat : d = DataLen(Ahead)
    BY <1>6
  <2> HIDE DEF s, l, i, n
  <2>2. i + d < n /\ Awaited(l.text)[i + d] = 0
    BY <1>1, <1>3, <1>10, <2>1
  <2>3. pos + r.eat = s + (i + d) /\ i + d \in Nat
    <3>1. r.eat = 1 + d /\ s \in Nat /\ pos \in Nat
      BY <1>1, <1>10, <2>1
    <3> QED BY <1>i, <2>1, <3>1
  <2> QED BY <1>5, <1>6, <1>7, <1>10, <2>2, <2>3
<1> HIDE DEF s, l, i, n
<1> QED BY <1>4, <1>8, <1>9, <1>10

\* Up to a lexeme that ends the rest of a line no literal begins.
LEMMA NoData ==
  ASSUME NEW l \in Lines, NEW a \in Nat, NEW b \in Nat, a + b <= Len(l.text), Awaited(l.text)[a] = 0,
         \A i \in a + 1..a + b : l.text[i] \notin Literals
  PROVE  Awaited(l.text)[a + b] = 0
<1> DEFINE A == Awaited(l.text)
           T == {j \in 0..b : A[a + j] = 0}
<1>1. l.text \in Seq(STRING) /\ Len(l.text) \in Nat
  BY LineFacts
<1>2. \A j \in 1..Len(l.text) : A[j] = IF A[j - 1] > 0 THEN A[j - 1] - 1
                                       ELSE IF l.text[j] \in Literals THEN DataLen(l.text[j]) ELSE 0
  BY <1>1, AwaitedRecursion
<1> HIDE DEF A
<1>3. 0 \in T
  <2>1. A[a] = 0 /\ a + 0 = a
    BY DEF A
  <2> QED BY <2>1
<1>4. ASSUME NEW j \in 0..b - 1, j \in T PROVE j + 1 \in T
  <2>1. PICK m \in 1..Len(l.text) : m = a + (j + 1) /\ m - 1 = a + j /\ m \in a + 1..a + b
    BY <1>1
  <2>2. A[m - 1] = 0 /\ l.text[m] \notin Literals
    BY <1>4, <2>1
  <2>3. A[m] = 0
    BY <1>2, <2>2
  <2>4. j + 1 \in 0..b /\ A[a + (j + 1)] = 0
    BY <2>1, <2>3
  <2> QED BY <2>4
<1>5. \A j \in 0..b : j \in T
  <2> HIDE DEF T
  <2> QED BY <1>3, <1>4, Induct
<1>6. b \in T
  <2> HIDE DEF T
  <2> QED BY <1>5
<1> QED BY <1>6 DEF A

\* Drain goes to the end of the line.
LEMMA RestEnds ==
  ASSUME TypeInv, NEW k, Inside(k, pos)
  PROVE  RestOfLine = Start(k + 1)
<1> DEFINE ends == {n \in pos + 1..Len(text) : text[n] \in Literals \cup {CRLF, CRLFWait}}
           starts == {Start(j) : j \in 1..Len(lines)} \cup {Len(text)}
           Least(set) == CHOOSE n \in set : \A m \in set : n <= m
           l == lines[k]
<1>1. /\ k \in 1..Len(lines) /\ Start(k) \in Nat /\ pos \in Nat /\ Start(k + 1) = Start(k) + Len(l.text)
      /\ l \in Lines /\ Len(l.text) \in Nat /\ Start(k + 1) <= Len(text) /\ pos < Len(text)
  BY InsideFacts
<1>2. PICK s \in Nat, n \in Nat : s = Start(k) /\ n = Len(l.text) /\ Start(k + 1) = s + n
  BY <1>1, Zenon
<1>3. PICK o \in Nat : pos = s + o /\ o < n /\ Awaited(l.text)[o] = 0
  <2>1. pos \in s..s + n - 1 /\ Awaited(l.text)[pos - s] = 0
    BY <1>2 DEF Inside
  <2>2. pos - s \in Nat /\ pos = s + (pos - s) /\ pos - s < n
    BY <1>1, <2>1
  <2> QED BY <2>1, <2>2
<1>4. Len(text) \in Nat /\ s + n <= Len(text)
  BY <1>1, <1>2 DEF TypeInv
<1>5. \A i \in 1..n : text[s + i] = l.text[i]
  BY <1>1, <1>2, Layout DEF TypeInv
<1>6. n > 0 /\ \A i \in 1..n : l.text[i] = CRLF /\ Awaited(l.text)[i - 1] = 0 <=> i = n
  BY <1>1, <1>2, LinesAreFramed
<1>7. s + n \in ends
  <2>1. text[s + n] = CRLF
    <3>1. n \in 1..n
      BY <1>6
    <3> QED BY <1>5, <1>6, <3>1
  <2>2. s + n \in pos + 1..Len(text)
    BY <1>3, <1>4
  <2> QED BY <2>1, <2>2
<1>8. PICK e \in Nat : e = Least(ends) /\ e \in ends /\ \A m \in ends : e <= m
  <2>1. ends \subseteq Nat /\ ends # {}
    BY <1>1, <1>7
  <2>2. Least(ends) \in ends /\ \A m \in ends : Least(ends) <= m
    <3> HIDE DEF ends
    <3> QED BY <2>1, LeastOf
  <2> QED BY <2>1, <2>2
<1>9. e \in pos + 1..Len(text) /\ e <= s + n /\ \A m \in pos + 1..e - 1 : text[m] \notin Literals
  <2>1. e \in pos + 1..Len(text) /\ e <= s + n
    <3>1. e \in pos + 1..Len(text)
      BY <1>8
    <3>2. e <= s + n
      <4> HIDE DEF ends
      <4> QED BY <1>7, <1>8
    <3> QED BY <3>1, <3>2
  <2>2. ASSUME NEW m \in pos + 1..e - 1 PROVE text[m] \notin Literals
    <3>1. m \notin ends /\ m \in pos + 1..Len(text)
      <4> HIDE DEF ends
      <4>1. m \in pos + 1..Len(text) /\ m \in Nat /\ ~(e <= m)
        BY <1>1, <1>4, <2>1
      <4> QED BY <1>8, <4>1
    <3> QED BY <3>1
  <2> QED BY <2>1, <2>2
<1>10. PICK b \in Nat : e = s + (o + b) + 1 /\ o + b + 1 \in 1..n /\ o + b \in Nat
  <2>1. s + o + 1 <= e /\ e <= s + n
    BY <1>3, <1>9
  <2>2. PICK b \in Nat : e = s + o + 1 + b
    <3>1. e - (s + o + 1) \in Nat /\ e = s + o + 1 + (e - (s + o + 1))
      BY <2>1
    <3> QED BY <3>1
  <2> QED BY <2>1, <2>2
<1>11. Awaited(l.text)[o + b] = 0
  <2>1. \A i \in o + 1..o + b : l.text[i] \notin Literals
    <3> TAKE i \in o + 1..o + b
    <3>1. i \in 1..n /\ s + i \in pos + 1..e - 1
      BY <1>3, <1>10
    <3> QED BY <1>5, <1>9, <3>1
  <2>2. o + b <= Len(l.text)
    BY <1>2, <1>10
  <2> HIDE DEF l
  <2> QED BY <1>1, <1>3, <2>1, <2>2, NoData
<1>12. text[e] = CRLF => e = s + n
  <2>1. PICK i \in 1..n : i = o + b + 1 /\ e = s + i /\ i - 1 = o + b
    BY <1>10
  <2> QED BY <1>5, <1>6, <1>11, <2>1
<1>13. CASE text[e] = CRLF
  <2>1. RestOfLine = e
    BY <1>7, <1>8, <1>13 DEF RestOfLine
  <2> QED BY <1>2, <1>12, <1>13, <2>1
<1>14. CASE text[e] # CRLF
  <2> DEFINE after == {m \in starts : m > e}
  <2>1. RestOfLine = Least(after)
    BY <1>7, <1>8, <1>14 DEF RestOfLine
  <2>2. e < s + n
    <3>1. e # s + n
      <4>1. n \in 1..n
        BY <1>6
      <4> QED BY <1>5, <1>6, <1>14, <4>1
    <3> QED BY <1>9, <3>1
  <2>n. PICK c \in Nat : c = Len(lines) /\ k \in 1..c
    BY <1>1, LineSeqFacts DEF TypeInv
  <2>L. /\ Start(c + 1) = Len(text) /\ \A j \in 1..c, m \in 1..c + 1 : j < m => Start(j + 1) <= Start(m)
        /\ \A m \in 1..c + 1 : Start(m) \in Nat
        /\ \A m \in 1..c : Start(m + 1) = Start(m) + Len(lines[m].text) /\ Len(lines[m].text) \in Nat
    BY <2>n, Layout, StartRecursion, LineSeqFacts DEF TypeInv
  <2>3. s + n \in after
    <3>1. s + n \in starts
      <4>1. CASE k = c
        BY <1>2, <2>n, <2>L, <4>1
      <4>2. CASE k # c
        <5>1. k + 1 \in 1..c
          BY <2>n, <4>2
        <5> QED BY <1>2, <2>n, <5>1
      <4> QED BY <4>1, <4>2
    <3> HIDE DEF starts
    <3> QED BY <2>2, <3>1
  <2>4. ASSUME NEW j \in 1..c, Start(j) > e PROVE s + n <= Start(j)
    <3>1. CASE k < j
      <4>1. j \in 1..c + 1
        OBVIOUS
      <4> QED BY <1>2, <2>n, <2>L, <3>1, <4>1
    <3>2. CASE j <= k
      <4>1. Start(j) <= s
        <5>1. CASE j = k
          BY <1>2, <5>1
        <5>2. CASE j < k
          <6>1. k \in 1..c + 1 /\ j \in 1..c + 1
            BY <2>n
          <6>2. Start(j + 1) <= Start(k) /\ Start(j + 1) = Start(j) + Len(lines[j].text) /\ Len(lines[j].text) \in Nat
                /\ Start(j) \in Nat
            BY <2>L, <5>2, <6>1
          <6> QED BY <1>2, <6>2
        <5> QED BY <2>n, <3>2, <5>1, <5>2
      <4>2. e > s /\ Start(j) \in Nat
        <5>1. j \in 1..c + 1
          OBVIOUS
        <5> QED BY <1>10, <2>L, <5>1
      <4> QED BY <2>4, <4>1, <4>2
    <3> QED BY <2>n, <3>1, <3>2
  <2>5. \A m \in after : s + n <= m
    <3> TAKE m \in after
    <3>1. m > e /\ (m = Len(text) \/ \E j \in 1..c : m = Start(j))
      BY <2>n
    <3> HIDE DEF after
    <3> QED BY <1>4, <2>4, <3>1
  <2>6. after \subseteq Nat
    <3>1. \A j \in 1..c : Start(j) \in Nat
      <4> TAKE j \in 1..c
      <4>1. j \in 1..c + 1
        OBVIOUS
      <4> QED BY <2>L, <4>1
    <3> QED BY <1>4, <2>n, <3>1
  <2>7. Least(after) \in after /\ \A m \in after : Least(after) <= m
    <3> HIDE DEF after
    <3> QED BY <2>3, <2>6, LeastOf
  <2>8. Least(after) = s + n
    <3>1. PICK x \in Nat : x = Least(after) /\ x \in after /\ x <= s + n /\ s + n <= x
      <4> HIDE DEF after
      <4> QED BY <2>3, <2>5, <2>6, <2>7
    <3> QED BY <3>1
  <2> QED BY <1>2, <2>1, <2>8
<1> QED BY <1>13, <1>14

\* The k-th call of ParseCommand while the scanner has not failed: it starts
\* with the k-th line, is in it, and is behind it when the command has ended.
OnLine(k) ==
  /\ node = "tag" => k \in 1..Len(lines) + 1 /\ pos = Start(k)
  /\ node \notin {"tag", "closed"} =>
       /\ k \in 1..Len(lines) /\ from = Start(k)
       /\ \/ node \in DOMAIN RuleAt \cup {"name", "return"} /\ Inside(k, pos)
          \/ node = "ok" /\ pos = Start(k + 1)
          \/ node \in {"err", "perr"} /\ IF lastWasCRLF THEN pos = Start(k + 1) ELSE Inside(k, pos)

\* The call in which the scanner fails.
Broken(k) ==
  node # "closed" =>
    /\ node # "tag"
    /\ \/ k \in 1..Len(lines) /\ from = Start(k)
       \/ k = Len(lines) + 1 /\ node = "perr" /\ eof

Progress(k) == IF error THEN Broken(k) ELSE OnLine(k)

StepInv ==
  /\ InStep
  /\ ~Failed => \A k \in Nat : k = Len(results) + 1 => Progress(k)

LEMMA InitStep == Init /\ TypeInv => StepInv
<1> SUFFICES ASSUME Init, TypeInv PROVE StepInv
  OBVIOUS
<1>1. results = <<>> /\ Len(<<>>) = 0 /\ 1..0 = {} /\ pos = 0 /\ node = "tag" /\ ~error
  BY DEF Init
<1>2. Start(1) = 0 /\ Len(lines) \in Nat
  BY StartRecursion, LineSeqFacts DEF TypeInv
<1>3. OnLine(1)
  BY <1>1, <1>2 DEF OnLine
<1>4. InStep
  BY <1>1 DEF InStep
<1> QED BY <1>1, <1>3, <1>4 DEF StepInv, Progress

LEMMA SameStarts ==
  ASSUME lines' = lines
  PROVE  \A k \in Nat : Start(k)' = Start(k) /\ Start(k + 1)' = Start(k + 1)
BY Zenon DEF Start

\* Reading a token of the k-th line.
LEMMA ReadOnLine ==
  ASSUME TypeInv, NEW k \in Nat, Inside(k, pos), NEW e \in Expects, NEW orEnd, Scanned(Next_(e, orEnd)),
         UNCHANGED <<text, lines>>, from' = Start(k), ~error', EndsTogether,
         node \in DOMAIN RuleAt \cup {"tag", "name"},
         node' \in DOMAIN RuleAt \cup {"name", "return", "searchEnd", "ok", "err", "perr"}
  PROVE  OnLine(k)'
<1> DEFINE r == Next_(e, orEnd)
<1>1. NextScan(r)
  BY NextScans DEF TypeInv, TypeOK
<1> HIDE DEF r
<1>2. Scanned(r)
  BY DEF r
<1>3. ~r.bad /\ pos' = pos + r.eat
  BY <1>2, Zenon DEF Scanned
<1>4. /\ ~AtEOF
      /\ Ahead = CRLF => pos' = Start(k + 1)
      /\ Ahead # CRLF => Inside(k, pos')
  BY <1>1, <1>3, NextStays
<1>5. IF Ahead = CRLF THEN node' = "ok" \/ (node' \in {"err", "perr"} /\ lastWasCRLF')
      ELSE node' \notin {"ok", "searchEnd"} /\ ~lastWasCRLF'
  BY <1>4, Zenon DEF EndsTogether
<1>6. Start(k)' = Start(k) /\ Start(k + 1)' = Start(k + 1) /\ lines' = lines
  BY SameStarts
<1>7. k \in 1..Len(lines)
  BY DEF Inside
<1>8. node' \notin {"tag", "closed"}
  BY NoRuleAt
<1>9. CASE Ahead = CRLF
  <2>1. node' = "ok" \/ (node' \in {"err", "perr"} /\ lastWasCRLF')
    BY <1>5, <1>9
  <2>2. pos' = Start(k + 1)'
    BY <1>4, <1>6, <1>9
  <2> QED BY <1>6, <1>7, <1>8, <2>1, <2>2 DEF OnLine
<1>10. CASE Ahead # CRLF
  <2>1. node' \notin {"ok", "searchEnd"} /\ ~lastWasCRLF'
    BY <1>5, <1>10
  <2>2. Inside(k, pos)'
    <3>1. Inside(k, pos')
      BY <1>4, <1>10
    <3> QED BY <1>6, <3>1 DEF Inside
  <2>3. DOMAIN RuleAt' = DOMAIN RuleAt
    OBVIOUS
  <2> QED BY <1>6, <1>7, <1>8, <2>1, <2>2, <2>3 DEF OnLine
<1> QED BY <1>9, <1>10

\* A step that adds no result.
LEMMA StepSame ==
  ASSUME TypeInv, FailInv, StepInv, UNCHANGED <<lines, results>>,
         \A k \in Nat : ~Failed /\ Progress(k) => Progress(k)'
  PROVE  StepInv'
<1>1. \A k \in Nat : Start(k)' = Start(k)
  BY SameStarts
<1>2. Failed' <=> Failed
  BY DEF Failed
<1>3. \A k \in Nat : FailedBefore(k)' <=> FailedBefore(k)
  BY DEF FailedBefore
<1>4. InStep'
  <2>1. \A k \in 1..Len(results) : k \in Nat
    BY DEF FailInv
  <2> QED BY <1>1, <1>3, <2>1 DEF StepInv, InStep
<1>5. ASSUME ~Failed, NEW k \in Nat, k = Len(results) + 1 PROVE Progress(k)'
  BY <1>5 DEF StepInv
<1> QED BY <1>2, <1>4, <1>5 DEF StepInv

\* A return of ParseCommand, which leaves the line behind if it goes on.
LEMMA ReturnInStep ==
  ASSUME TypeInv, FailInv, StepInv, NEW o \in {"ok", "bad", "closed", "eof"}, NEW n \in {"tag", "closed"}, Return(o, n),
         error' = error, node \notin {"tag", "closed"}, node = "perr" => o # "ok",
         eof /\ error /\ node = "perr" => o = "eof",
         \A k \in Nat : ~error /\ OnLine(k) /\ n = "tag" => pos' = Start(k + 1)
  PROVE  StepInv'
<1>m. PICK m \in Nat : m = Len(results)
  BY DEF FailInv
<1>1. /\ Len(results') = m + 1 /\ (Failed' <=> Failed \/ error)
      /\ \A k \in 1..m : results'[k] = results[k] /\ (FailedBefore(k)' <=> FailedBefore(k))
      /\ results'[m + 1] = [from |-> from, outcome |-> o, failed |-> error]
      /\ \A k \in Nat : k = m + 1 => (FailedBefore(k)' <=> Failed)
  BY <1>m, ReturnAdds DEF FailInv
<1>2. UNCHANGED <<text, lines, from>> /\ node' = n
  BY DEF Return
<1>3. \A k \in Nat : Start(k)' = Start(k) /\ Start(k + 1)' = Start(k + 1)
  BY <1>2, SameStarts
<1>4. PICK j \in Nat : j = m + 1 /\ results'[j].from = from /\ results'[j].outcome = o /\ (FailedBefore(j)' <=> Failed)
                       /\ (~Failed => Progress(j))
  BY <1>m, <1>1 DEF StepInv
<1>5. \/ j \in 1..Len(lines) /\ from = Start(j)
      \/ j = Len(lines) + 1 /\ o = "eof"
      \/ Failed /\ o # "ok"
  <2>1. CASE Failed
    BY <2>1 DEF FailInv
  <2>2. CASE ~Failed /\ error
    <3>1. Broken(j)
      BY <1>4, <2>2 DEF Progress
    <3> QED BY <2>2, <3>1 DEF Broken
  <2>3. CASE ~Failed /\ ~error
    <3>1. OnLine(j)
      BY <1>4, <2>3 DEF Progress
    <3> QED BY <3>1 DEF OnLine
  <2> QED BY <2>1, <2>2, <2>3
<1>6. InStep'
  <2>1. ASSUME NEW k \in 1..m + 1
        PROVE  \/ k <= Len(lines) /\ results'[k].from = Start(k)
               \/ k = Len(lines) + 1 /\ results'[k].outcome = "eof"
               \/ FailedBefore(k)' /\ results'[k].outcome # "ok"
    <3>1. CASE k = m + 1
      BY <1>4, <1>5, <3>1
    <3>2. CASE k \in 1..m
      BY <1>m, <1>1, <3>2 DEF StepInv, InStep
    <3> QED BY <3>1, <3>2
  <2>2. \A k \in 1..m + 1 : k \in Nat
    OBVIOUS
  <2> QED BY <1>1, <1>2, <1>3, <2>1, <2>2 DEF InStep
<1>7. ASSUME ~Failed', NEW k \in Nat, k = m + 1 + 1 PROVE Progress(k)'
  <2>1. ~Failed /\ ~error /\ ~error'
    BY <1>1, <1>7, Zenon
  <2>2. OnLine(j) /\ j + 1 = k
    BY <1>4, <1>7, <2>1 DEF Progress
  <2>3. ASSUME n = "tag" PROVE k \in 1..Len(lines) + 1 /\ pos' = Start(k)'
    <3>1. pos' = Start(k)
      BY <2>1, <2>2, <2>3
    <3>2. j \in 1..Len(lines) /\ Len(lines) \in Nat
      BY <2>2, LineSeqFacts DEF OnLine, TypeInv
    <3> QED BY <1>3, <2>2, <3>1, <3>2
  <2>4. OnLine(k)'
    BY <1>2, <2>3 DEF OnLine
  <2> QED BY <2>1, <2>4 DEF Progress
<1> QED BY <1>1, <1>6, <1>7 DEF StepInv

\* Every step keeps StepInv, if it reads the end of a line and the end of a
\* command together.
LEMMA StepStep == TypeInv /\ FailInv /\ StepInv /\ [Next]_vars /\ [EndsTogether]_vars => StepInv'
<1> SUFFICES ASSUME TypeInv, FailInv, StepInv, [Next]_vars, [EndsTogether]_vars PROVE StepInv'
  OBVIOUS
<1>n. {"tag", "name", "return", "searchEnd", "ok", "err", "perr", "closed"} \cap DOMAIN RuleAt = {}
  BY NoRuleAt
<1>l. Len(lines) \in Nat /\ \A k \in 1..Len(lines) : k \in Nat
  BY LineSeqFacts DEF TypeInv
<1>v. ASSUME node' # node \/ pos' # pos PROVE EndsTogether
  BY <1>v DEF vars, scanner
<1>1. CASE ReadTag
  <2>1. /\ Scanned(Next_("Tag", FALSE)) /\ UNCHANGED <<text, lines, results>> /\ from' = pos
        /\ node = "tag" /\ node' \in {"name", "perr"} /\ (Next_("Tag", FALSE).token = "none" => node' = "perr")
    BY <1>1 DEF ReadTag
  <2>2. "Tag" \in Expects
    BY DEF Expects
  <2>e. EndsTogether
    BY <1>v, <2>1
  <2>3. ASSUME NEW k \in Nat, ~Failed, Progress(k) PROVE Progress(k)'
    <3>1. ~error /\ k \in 1..Len(lines) + 1 /\ pos = Start(k)
      BY <2>1, <2>3 DEF Progress, Broken, OnLine
    <3>2. CASE k \in 1..Len(lines)
      <4>1. Inside(k, pos)
        BY <3>1, <3>2, StartInside
      <4>2. ~error' => OnLine(k)'
        BY <2>1, <2>2, <2>e, <3>1, <4>1, ReadOnLine
      <4>3. Start(k)' = Start(k)
        BY <2>1, SameStarts
      <4>4. Broken(k)'
        BY <2>1, <3>1, <3>2, <4>3 DEF Broken
      <4> QED BY <4>2, <4>4 DEF Progress
    <3>3. CASE k = Len(lines) + 1
      <4>1. AtEOF
        BY <3>1, <3>3, Layout DEF AtEOF, TypeInv
      <4> DEFINE r == Next_("Tag", FALSE)
      <4>2. NextScan(r)
        BY <2>2, NextScans DEF TypeInv, TypeOK
      <4> HIDE DEF r
      <4>3. r.bad /\ r.token = "none"
        BY <4>1, <4>2 DEF NextScan
      <4>4. error' /\ eof'
        BY <2>1, <4>1, <4>3, Zenon DEF Scanned, r
      <4>5. node' = "perr"
        BY <2>1, <4>3 DEF r
      <4> QED BY <2>1, <3>3, <4>4, <4>5 DEF Progress, Broken
    <3> QED BY <1>l, <3>1, <3>2, <3>3
  <2> QED BY <2>1, <2>3, StepSame
<1>2. CASE ReadName \/ ReadArg
  <2>1. PICK e, o : e \in Expects /\ Scanned(Next_(e, o))
    BY <1>2, TokenReads
  <2>2. /\ UNCHANGED <<text, lines, results, from>> /\ node \in DOMAIN RuleAt \cup {"name"}
        /\ node' \in DOMAIN RuleAt \cup {"name", "return", "searchEnd", "ok", "err", "perr"}
    <3>1. CASE ReadName
      <4>1. node' \in {"perr", "name", "err"} \cup DOMAIN RuleAt
        <5>1. uid \in BOOLEAN
          BY DEF TypeInv, TypeOK
        <5> QED BY <3>1, <5>1, CommandsLead DEF ReadName
      <4> QED BY <3>1, <4>1, NameReads
    <3>2. CASE ReadArg
      BY <3>2, ArgTypes, ArgReads
    <3> QED BY <1>2, <3>1, <3>2
  <2>3. ASSUME NEW k \in Nat, ~Failed, Progress(k) PROVE Progress(k)'
    <3>n. node \notin {"tag", "closed", "perr", "ok", "err"} /\ node' \notin {"tag", "closed"}
      BY <1>n, <2>2
    <3>1. k \in 1..Len(lines) /\ from = Start(k)
      BY <2>3, <3>n DEF Progress, Broken, OnLine
    <3>2. Start(k)' = Start(k)
      BY <2>2, SameStarts
    <3>3. Broken(k)'
      BY <2>2, <3>n, <3>1, <3>2 DEF Broken
    <3>4. ASSUME ~error' PROVE OnLine(k)'
      <4>1. ~error
        BY <2>1, <3>4, Zenon DEF Scanned
      <4>2. Inside(k, pos)
        BY <2>3, <3>n, <4>1 DEF Progress, OnLine
      <4>3. CASE EndsTogether
        BY <2>1, <2>2, <3>1, <3>4, <4>2, <4>3, ReadOnLine
      <4>4. CASE ~EndsTogether
        <5>1. UNCHANGED vars
          BY <4>4
        <5>2. UNCHANGED <<node, pos, from, lines, lastWasCRLF>>
          BY <5>1 DEF vars, scanner
        <5>3. OnLine(k)
          BY <2>3, <4>1 DEF Progress
        <5>4. Start(k + 1)' = Start(k + 1)
          BY <2>2, SameStarts
        <5> QED BY <3>2, <5>2, <5>3, <5>4 DEF OnLine, Inside
      <4> QED BY <4>3, <4>4
    <3> QED BY <3>3, <3>4 DEF Progress
  <2> QED BY <2>2, <2>3, StepSame
<1>3. CASE KeyReturns
  <2>1. UNCHANGED <<lines, results, from, pos, error>> /\ node = "return"
    BY <1>3 DEF KeyReturns, scanner
  <2>2. node' \in {"root", "not", "list"} /\ {"root", "not", "list"} \subseteq DOMAIN RuleAt
    <3>1. node' \in {"root", "not", "list"}
      BY <1>3 DEF KeyReturns, TypeInv, TypeOK
    <3> QED BY <3>1, RuleNodes DEF SearchNodes
  <2>3. ASSUME NEW k \in Nat, ~Failed, Progress(k) PROVE Progress(k)'
    <3>1. Start(k)' = Start(k) /\ Start(k + 1)' = Start(k + 1)
      BY <2>1, SameStarts
    <3>2. CASE error
      <4>1. k \in 1..Len(lines) /\ from = Start(k)
        BY <2>1, <2>3, <3>2 DEF Progress, Broken
      <4>2. Broken(k)'
        BY <2>1, <2>2, <3>1, <4>1 DEF Broken
      <4> QED BY <2>1, <3>2, <4>2 DEF Progress
    <3>3. CASE ~error
      <4>1. k \in 1..Len(lines) /\ from = Start(k) /\ Inside(k, pos)
        BY <1>n, <2>1, <2>3, <3>3 DEF Progress, OnLine
      <4>2. Inside(k, pos)'
        BY <2>1, <3>1, <4>1 DEF Inside
      <4>3. OnLine(k)'
        BY <2>1, <2>2, <3>1, <4>1, <4>2 DEF OnLine
      <4> QED BY <2>1, <3>3, <4>3 DEF Progress
    <3> QED BY <3>2, <3>3
  <2> QED BY <2>1, <2>3, StepSame
<1>4. CASE ReturnOK
  <2>1. Return("ok", "tag") /\ pos' = pos /\ error' = error /\ node \in {"ok", "searchEnd"}
    BY <1>4 DEF ReturnOK, scanner
  <2>2. \A k \in Nat : OnLine(k) => pos' = Start(k + 1)
    BY <1>n, <2>1 DEF OnLine
  <2> QED BY <2>1, <2>2, ReturnInStep
<1>5. CASE ReturnError
  <2>1. /\ node \in {"err", "perr", "searchEnd"} /\ error' = error
        /\ pos' = IF lastWasCRLF THEN pos ELSE RestOfLine
    BY <1>5 DEF ReturnError, Drain
  <2>2. \A k \in Nat : OnLine(k) => pos' = Start(k + 1)
    <3> SUFFICES ASSUME NEW k \in Nat, OnLine(k) PROVE pos' = Start(k + 1)
      OBVIOUS
    <3>1. IF lastWasCRLF THEN pos = Start(k + 1) ELSE Inside(k, pos)
      BY <1>n, <2>1 DEF OnLine
    <3> QED BY <2>1, <3>1, RestEnds
  <2>3. CASE eof /\ error /\ Return("eof", "closed")
    BY <2>1, <2>2, <2>3, ReturnInStep
  <2>4. CASE ~(eof /\ error) /\ Return("bad", "tag")
    BY <2>1, <2>2, <2>4, ReturnInStep
  <2>5. CASE ~(eof /\ error) /\ Return("closed", "closed")
    BY <2>1, <2>2, <2>5, ReturnInStep
  <2> QED BY <1>5, <2>3, <2>4, <2>5 DEF ReturnError
<1>6. CASE UNCHANGED vars
  <2>1. UNCHANGED <<lines, results, from, pos, error, eof, node, lastWasCRLF>>
    BY <1>6 DEF vars, scanner
  <2>2. ASSUME NEW k \in Nat, Progress(k) PROVE Progress(k)'
    <3>1. Start(k)' = Start(k) /\ Start(k + 1)' = Start(k + 1)
      BY <2>1, SameStarts
    <3> QED BY <2>1, <2>2, <3>1 DEF Progress, Broken, OnLine, Inside
  <2> QED BY <2>1, <2>2, StepSame
<1> QED BY <1>1, <1>2, <1>3, <1>4, <1>5, <1>6 DEF Next

\* If every call of ParseCommand ends with the line it reads, that is, the end
\* of the line is never taken for a missing optional part, then what it takes
\* for the k-th command is the k-th line, after errors as well, and if the
\* scanner has failed nothing more is run.  Drain is what this rests on: it
\* stops at the end of the line that the client sends, also in a literal.
THEOREM ParserInStep == Spec /\ [][EndsTogether]_vars => []InStep
<1>1. StepInv => InStep
  BY DEF StepInv
<1> QED BY InitTypes, TypeStep, InitFail, FailStep, InitStep, StepStep, <1>1, PTL DEF Spec
=============================================================================
