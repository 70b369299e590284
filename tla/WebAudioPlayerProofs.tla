------------------------- MODULE WebAudioPlayerProofs -------------------------
(***************************************************************************)
(* The invariants of WebAudioPlayer for every frame size, queue limit and  *)
(* room of the server, and for buffers of any sizes.                       *)
(***************************************************************************)
EXTENDS WebAudioPlayer, TLAPS

-----------------------------------------------------------------------------
(***************************************************************************)
(* The queue of buffers.                                                   *)
(***************************************************************************)
LEMMA LastOrBefore == \A n \in Nat : \A i \in 1..n : i = n \/ i \in 1..(n - 1)
OBVIOUS

LEMMA FirstOrAfter == \A n \in Nat : \A i \in 1..n : i = 1 \/ i \in 2..n
OBVIOUS

LEMMA OneOfTwo ==
    \A m \in Nat, n \in Nat :
        /\ 1..m \subseteq 1..(m + n)
        /\ \A j \in 1..n : m + j \in 1..(m + n)
        /\ \A j \in 1..(m + n) : j \in 1..m \/ (j - m \in 1..n /\ m + (j - m) = j)
OBVIOUS

LEMMA Concatenation ==
    ASSUME NEW S, NEW a \in Seq(S), NEW b \in Seq(S)
    PROVE  /\ a \o b \in Seq(S) /\ Len(a \o b) = Len(a) + Len(b)
           /\ \A j \in 1..Len(a) : (a \o b)[j] = a[j]
           /\ \A j \in 1..Len(b) : (a \o b)[Len(a) + j] = b[j]
<1>1. Len(a) \in Nat /\ Len(b) \in Nat OBVIOUS
<1>2. a \o b \in Seq(S) /\ Len(a \o b) = Len(a) + Len(b) OBVIOUS
<1>3. \A j \in 1..(Len(a) + Len(b)) : (a \o b)[j] = IF j <= Len(a) THEN a[j] ELSE b[j - Len(a)]
  OBVIOUS
<1>4. ASSUME NEW j \in 1..Len(b) PROVE (a \o b)[Len(a) + j] = b[j]
  <2>1. Len(a) + j \in 1..(Len(a) + Len(b)) /\ ~(Len(a) + j <= Len(a)) /\ Len(a) + j - Len(a) = j
    BY <1>1
  <2> QED BY <1>3, <2>1
<1>5. ASSUME NEW j \in 1..Len(a) PROVE (a \o b)[j] = a[j]
  <2>1. j \in 1..(Len(a) + Len(b)) /\ j <= Len(a) BY <1>1
  <2> QED BY <1>3, <2>1
<1> QED BY <1>2, <1>4, <1>5

LEMMA TailOf ==
    ASSUME NEW S, NEW s \in Seq(S), s # <<>>
    PROVE  /\ Tail(s) \in Seq(S) /\ Len(Tail(s)) = Len(s) - 1 /\ Len(s) \in Nat \ {0}
           /\ \A i \in 1..(Len(s) - 1) : Tail(s)[i] = s[i + 1]
OBVIOUS

\* The bytes of a queue of buffers.
Bytes(q) == UNION {ToSet(q[i]) : i \in DOMAIN q}

\* No buffer is empty, and one after the other they hold the bytes up to the
\* last one fed, f.
InSequence(q, f) ==
    /\ q \in Seq(Seq(Nat))
    /\ \A i \in 1..Len(q) :
        /\ q[i] # <<>>
        /\ \A j \in 1..Len(q[i]) : q[i][j] \in 1..f /\ q[i][j] = q[i][1] + j - 1
    /\ \A i \in 1..(Len(q) - 1) : q[i + 1][1] = q[i][1] + Len(q[i])
    /\ q # <<>> => q[Len(q)][1] + Len(q[Len(q)]) = f + 1

LEMMA InSequenceAppend ==
    ASSUME NEW q, NEW f \in Nat, NEW s \in Nat \ {0}, InSequence(q, f)
    PROVE  /\ InSequence(Append(q, [i \in 1..s |-> f + i]), f + s)
           /\ Bytes(Append(q, [i \in 1..s |-> f + i])) = Bytes(q) \cup (f + 1)..(f + s)
<1> DEFINE b == [i \in 1..s |-> f + i]
           r == Append(q, b)
<1>1. b \in Seq(Nat) /\ Len(b) = s /\ b # <<>> /\ \A j \in 1..s : b[j] = f + j OBVIOUS
<1>2. q \in Seq(Seq(Nat)) /\ Len(q) \in Nat /\ DOMAIN q = 1..Len(q) BY DEF InSequence
<1> HIDE DEF b
<1>3. r \in Seq(Seq(Nat)) /\ Len(r) = Len(q) + 1 /\ r[Len(q) + 1] = b
      /\ DOMAIN r = 1..(Len(q) + 1) /\ \A i \in 1..Len(q) : r[i] = q[i]
  BY <1>1, <1>2
<1> HIDE DEF r
<1>4. InSequence(r, f + s)
  <2>1. ASSUME NEW i \in 1..Len(r)
        PROVE  /\ r[i] # <<>>
               /\ \A j \in 1..Len(r[i]) : r[i][j] \in 1..(f + s) /\ r[i][j] = r[i][1] + j - 1
    <3>1. CASE i \in 1..Len(q)
      <4>1. r[i] = q[i] BY <1>3, <3>1
      <4>2. q[i] # <<>> /\ \A j \in 1..Len(q[i]) : q[i][j] \in 1..f /\ q[i][j] = q[i][1] + j - 1
        BY <3>1 DEF InSequence
      <4>3. 1..f \subseteq 1..(f + s) OBVIOUS
      <4> QED BY <4>1, <4>2, <4>3
    <3>2. CASE i = Len(q) + 1
      <4>1. r[i] = b BY <1>3, <3>2
      <4>2. \A j \in 1..Len(b) : b[j] = f + j /\ b[j] \in 1..(f + s) /\ b[j] = b[1] + j - 1
        BY <1>1, SMTT(30)
      <4> QED BY <1>1, <4>1, <4>2
    <3>3. i \in 1..Len(q) \/ i = Len(q) + 1 BY <1>2, <1>3
    <3> QED BY <3>1, <3>2, <3>3
  <2>2. ASSUME NEW i \in 1..(Len(r) - 1) PROVE r[i + 1][1] = r[i][1] + Len(r[i])
    <3>1. CASE i = Len(q)
      <4>1. r[i] = q[i] /\ r[i + 1] = b /\ q # <<>> BY <1>2, <1>3, <3>1
      <4>2. q[i][1] + Len(q[i]) = f + 1 BY <3>1, <4>1 DEF InSequence
      <4>3. b[1] = f + 1 BY <1>1
      <4> QED BY <4>1, <4>2, <4>3
    <3>2. CASE i \in 1..(Len(q) - 1)
      <4>1. r[i] = q[i] /\ r[i + 1] = q[i + 1] BY <1>2, <1>3, <3>2
      <4> QED BY <3>2, <4>1 DEF InSequence
    <3>3. Len(r) - 1 = Len(q) BY <1>2, <1>3
    <3>4. i = Len(q) \/ i \in 1..(Len(q) - 1) BY <1>2, <3>3, LastOrBefore
    <3> QED BY <3>1, <3>2, <3>4
  <2>3. r # <<>> /\ r[Len(r)][1] + Len(r[Len(r)]) = f + s + 1 BY <1>1, <1>2, <1>3
  <2> QED BY <1>3, <2>1, <2>2, <2>3 DEF InSequence
<1>5. Bytes(r) = Bytes(q) \cup ToSet(b)
  <2>1. DOMAIN r = DOMAIN q \cup {Len(q) + 1} BY <1>2, <1>3
  <2>2. \A i \in DOMAIN q : r[i] = q[i] BY <1>2, <1>3
  <2>3. ASSUME NEW x \in Bytes(r) PROVE x \in Bytes(q) \cup ToSet(b)
    <3>1. PICK i \in DOMAIN r : x \in ToSet(r[i]) BY <2>3 DEF Bytes
    <3> QED BY <1>3, <2>1, <2>2, <3>1 DEF Bytes
  <2>4. Bytes(q) \subseteq Bytes(r) BY <2>1, <2>2 DEF Bytes
  <2>5. ToSet(b) \subseteq Bytes(r) BY <1>3, <2>1 DEF Bytes
  <2> QED BY <2>3, <2>4, <2>5
<1>6. ToSet(b) = (f + 1)..(f + s)
  <2>1. ASSUME NEW x \in (f + 1)..(f + s) PROVE x \in ToSet(b)
    <3>1. x - f \in 1..s /\ b[x - f] = x BY <1>1
    <3> QED BY <1>1, <3>1 DEF ToSet, b
  <2>2. ASSUME NEW x \in ToSet(b) PROVE x \in (f + 1)..(f + s)
    BY <1>1 DEF ToSet, b
  <2> QED BY <2>1, <2>2
<1> QED BY <1>4, <1>5, <1>6 DEF r, b

LEMMA InSequenceTail ==
    ASSUME NEW q, NEW f \in Nat, InSequence(q, f), q # <<>>
    PROVE  /\ InSequence(Tail(q), f) /\ Bytes(q) = ToSet(Head(q)) \cup Bytes(Tail(q))
           /\ Tail(q) # <<>> => Tail(q)[1][1] = q[1][1] + Len(q[1])
<1> DEFINE r == Tail(q)
<1>1. q \in Seq(Seq(Nat)) /\ Len(q) \in Nat \ {0} /\ DOMAIN q = 1..Len(q) BY DEF InSequence
<1>2. r \in Seq(Seq(Nat)) /\ Len(r) = Len(q) - 1 /\ DOMAIN r = 1..Len(r)
      /\ \A i \in 1..Len(r) : r[i] = q[i + 1]
  BY <1>1
<1> HIDE DEF r
<1>3. InSequence(r, f)
  <2>1. ASSUME NEW i \in 1..Len(r)
        PROVE  /\ r[i] # <<>>
               /\ \A j \in 1..Len(r[i]) : r[i][j] \in 1..f /\ r[i][j] = r[i][1] + j - 1
    <3>1. i + 1 \in 1..Len(q) /\ r[i] = q[i + 1] BY <1>1, <1>2
    <3> QED BY <3>1 DEF InSequence
  <2>2. ASSUME NEW i \in 1..(Len(r) - 1) PROVE r[i + 1][1] = r[i][1] + Len(r[i])
    <3>1. i + 1 \in 1..(Len(q) - 1) /\ r[i] = q[i + 1] /\ r[i + 1] = q[i + 1 + 1]
      BY <1>1, <1>2, SMTT(30)
    <3> QED BY <3>1 DEF InSequence
  <2>3. r # <<>> => r[Len(r)][1] + Len(r[Len(r)]) = f + 1
    <3>1. r # <<>> => r[Len(r)] = q[Len(q)] BY <1>1, <1>2
    <3> QED BY <3>1 DEF InSequence
  <2> QED BY <1>2, <2>1, <2>2, <2>3 DEF InSequence
<1>4. Bytes(q) = ToSet(Head(q)) \cup Bytes(r)
  <2>1. ASSUME NEW i \in DOMAIN q PROVE i = 1 \/ (i - 1 \in DOMAIN r /\ q[i] = r[i - 1])
    BY <1>1, <1>2, SMTT(30)
  <2>2. ASSUME NEW i \in DOMAIN r PROVE i + 1 \in DOMAIN q /\ r[i] = q[i + 1]
    <3>1. i \in 1..Len(r) /\ r[i] = q[i + 1] BY <1>2
    <3> QED BY <1>1, <1>2, <3>1, SMTT(30)
  <2>3. Head(q) = q[1] /\ 1 \in DOMAIN q BY <1>1
  <2> QED BY <2>1, <2>2, <2>3 DEF Bytes
<1>5. r # <<>> => r[1][1] = q[1][1] + Len(q[1])
  <2>1. r # <<>> => r[1] = q[1 + 1] /\ 1 \in 1..(Len(q) - 1) BY <1>1, <1>2
  <2> QED BY <2>1 DEF InSequence
<1> QED BY <1>3, <1>4, <1>5 DEF r

\* What is left of a buffer whose first k bytes are cut off.
LEMMA RestOfBuffer ==
    ASSUME NEW b \in Seq(Nat), NEW k \in 0..(Len(b) - 1)
    PROVE  /\ SubSeq(b, k + 1, Len(b)) \in Seq(Nat) /\ SubSeq(b, k + 1, Len(b)) # <<>>
           /\ Len(SubSeq(b, k + 1, Len(b))) = Len(b) - k
           /\ \A j \in 1..(Len(b) - k) : SubSeq(b, k + 1, Len(b))[j] = b[k + j]
           /\ ToSet(b) = ToSet(SubSeq(b, 1, k)) \cup ToSet(SubSeq(b, k + 1, Len(b)))
<1> DEFINE r == SubSeq(b, k + 1, Len(b))
           s == SubSeq(b, 1, k)
<1>1. Len(b) \in Nat /\ k \in Nat /\ k < Len(b) /\ DOMAIN b = 1..Len(b) OBVIOUS
<1>2. r \in Seq(Nat) /\ Len(r) = Len(b) - k /\ \A j \in 1..(Len(b) - k) : r[j] = b[k + j]
  BY <1>1
<1>3. s \in Seq(Nat) /\ Len(s) = k /\ \A j \in 1..k : s[j] = b[j] BY <1>1
<1> HIDE DEF r, s
<1>4. DOMAIN r = 1..(Len(b) - k) /\ DOMAIN s = 1..k BY <1>2, <1>3
<1>5. ASSUME NEW j \in 1..Len(b) PROVE b[j] \in ToSet(s) \cup ToSet(r)
  <2>1. CASE j \in 1..k BY <1>3, <1>4, <2>1 DEF ToSet
  <2>2. CASE j \notin 1..k
    <3>1. j - k \in 1..(Len(b) - k) /\ k + (j - k) = j BY <1>1, <2>2
    <3>2. r[j - k] = b[j] BY <1>2, <3>1
    <3> QED BY <1>4, <3>1, <3>2 DEF ToSet
  <2> QED BY <2>1, <2>2
<1>6. ASSUME NEW j \in 1..k PROVE s[j] \in ToSet(b)
  <2>1. j \in 1..Len(b) BY <1>1
  <2> QED BY <1>1, <1>3, <2>1 DEF ToSet
<1>7. ASSUME NEW j \in 1..(Len(b) - k) PROVE r[j] \in ToSet(b)
  <2>1. k + j \in 1..Len(b) BY <1>1
  <2> QED BY <1>1, <1>2, <2>1 DEF ToSet
<1>8. ToSet(b) = ToSet(s) \cup ToSet(r) BY <1>1, <1>4, <1>5, <1>6, <1>7 DEF ToSet
<1>9. r # <<>> BY <1>1, <1>2
<1> QED BY <1>2, <1>8, <1>9 DEF r, s

LEMMA InSequenceRest ==
    ASSUME NEW q, NEW f \in Nat, InSequence(q, f), q # <<>>, NEW k \in 0..(Len(q[1]) - 1),
           NEW r, r = SubSeq(q[1], k + 1, Len(q[1]))
    PROVE  /\ InSequence(<<r>> \o Tail(q), f)
           /\ Bytes(q) = ToSet(SubSeq(q[1], 1, k)) \cup Bytes(<<r>> \o Tail(q))
           /\ r[1] = q[1][1] + k
<1> DEFINE t == <<r>> \o Tail(q)
<1>1. q \in Seq(Seq(Nat)) /\ Len(q) \in Nat \ {0} /\ DOMAIN q = 1..Len(q) /\ q[1] \in Seq(Nat)
  BY DEF InSequence
<1>2. /\ r \in Seq(Nat) /\ r # <<>> /\ Len(r) = Len(q[1]) - k
      /\ \A j \in 1..(Len(q[1]) - k) : r[j] = q[1][k + j]
      /\ ToSet(q[1]) = ToSet(SubSeq(q[1], 1, k)) \cup ToSet(r)
  BY <1>1, RestOfBuffer
<1>3. t \in Seq(Seq(Nat)) /\ Len(t) = Len(q) /\ t[1] = r /\ \A i \in 2..Len(q) : t[i] = q[i]
  BY <1>1, <1>2
<1> HIDE DEF t
<1>4. DOMAIN t = 1..Len(q) BY <1>1, <1>3
<1>5. /\ \A i \in 1..Len(q) : /\ q[i] # <<>>
                              /\ \A j \in 1..Len(q[i]) : q[i][j] \in 1..f /\ q[i][j] = q[i][1] + j - 1
      /\ \A i \in 1..(Len(q) - 1) : q[i + 1][1] = q[i][1] + Len(q[i])
      /\ q[Len(q)][1] + Len(q[Len(q)]) = f + 1
  BY DEF InSequence
<1>6. PICK L \in Nat : /\ L = Len(q[1]) /\ k \in Nat /\ k < L /\ 1 \in 1..L
                       /\ Len(r) = L - k /\ \A j \in 1..(L - k) : r[j] = q[1][k + j]
  <2>1. Len(q[1]) \in Nat BY <1>1
  <2>2. k \in Nat /\ k < Len(q[1]) /\ 1 \in 1..Len(q[1]) BY <2>1
  <2> QED BY ONLY <1>2, <2>1, <2>2
<1>7. PICK v \in Nat : v = q[1][1] /\ \A j \in 1..L : q[1][j] \in 1..f /\ q[1][j] = v + j - 1
  <2>1. \A j \in 1..L : q[1][j] \in 1..f /\ q[1][j] = q[1][1] + j - 1
    <3>1. 1 \in 1..Len(q) BY <1>1
    <3> QED BY ONLY <1>5, <1>6, <3>1
  <2>2. q[1][1] \in Nat BY ONLY <1>6, <2>1
  <2> QED BY ONLY <2>1, <2>2
<1>8. L \in Nat /\ v \in Nat /\ k \in Nat /\ k < L /\ Len(r) = L - k BY ONLY <1>6, <1>7
<1>9. r[1] = v + k
  <2>1. r[1] = q[1][k + 1] /\ k + 1 \in 1..L BY ONLY <1>6
  <2>2. q[1][k + 1] = v + (k + 1) - 1 BY ONLY <1>7, <2>1
  <2> QED BY ONLY <1>8, <2>1, <2>2
<1>10. ASSUME NEW j \in 1..Len(r) PROVE r[j] \in 1..f /\ r[j] = r[1] + j - 1
  <2>1. j \in Nat /\ j \in 1..(L - k) /\ k + j \in 1..L BY ONLY <1>6, j \in 1..Len(r)
  <2>2. r[j] = q[1][k + j] BY ONLY <1>6, <2>1
  <2>3. q[1][k + j] \in 1..f /\ q[1][k + j] = v + (k + j) - 1 BY ONLY <1>7, <2>1
  <2>4. v + (k + j) - 1 = (v + k) + j - 1 BY ONLY <1>8, <2>1
  <2> QED BY ONLY <1>9, <2>2, <2>3, <2>4
<1>11. Len(q) \in Nat \ {0} /\ Len(t) = Len(q) /\ t[1] = r /\ \A i \in 2..Len(q) : t[i] = q[i]
  BY <1>1, <1>3
<1>12. InSequence(t, f)
  <2>1. ASSUME NEW i \in 1..Len(t)
        PROVE  /\ t[i] # <<>>
               /\ \A j \in 1..Len(t[i]) : t[i][j] \in 1..f /\ t[i][j] = t[i][1] + j - 1
    <3>1. CASE i = 1 BY ONLY <1>2, <1>10, <1>11, <3>1
    <3>2. CASE i # 1
      <4>1. i \in 2..Len(q) /\ i \in 1..Len(q) BY ONLY <1>11, <3>2, i \in 1..Len(t)
      <4>2. t[i] = q[i] BY ONLY <1>11, <4>1
      <4> QED BY ONLY <1>5, <4>1, <4>2
    <3> QED BY ONLY <3>1, <3>2
  <2>2. ASSUME NEW i \in 1..(Len(t) - 1) PROVE t[i + 1][1] = t[i][1] + Len(t[i])
    <3>1. i \in 1..(Len(q) - 1) /\ i + 1 \in 2..Len(q) BY ONLY <1>11, i \in 1..(Len(t) - 1)
    <3>2. t[i + 1][1] = q[i][1] + Len(q[i]) BY ONLY <1>5, <1>11, <3>1
    <3>3. CASE i = 1
      <4>1. t[i + 1][1] = v + L BY ONLY <1>6, <1>7, <3>2, <3>3
      <4>2. t[i][1] = v + k /\ Len(t[i]) = L - k BY ONLY <1>8, <1>9, <1>11, <3>3
      <4> QED BY ONLY <1>8, <4>1, <4>2
    <3>4. CASE i # 1
      <4>1. i \in 2..Len(q) BY ONLY <1>11, <3>1, <3>4
      <4> QED BY ONLY <1>11, <3>2, <4>1
    <3> QED BY ONLY <3>3, <3>4
  <2>3. t[Len(t)][1] + Len(t[Len(t)]) = f + 1
    <3>1. q[Len(q)][1] + Len(q[Len(q)]) = f + 1 BY ONLY <1>5
    <3>2. CASE Len(q) = 1
      <4>1. v + L = f + 1 BY ONLY <1>6, <1>7, <3>1, <3>2
      <4>2. t[Len(t)] = r BY ONLY <1>11, <3>2
      <4>3. r[1] + Len(r) = f + 1 BY ONLY <1>8, <1>9, <4>1, f \in Nat
      <4> QED BY ONLY <4>2, <4>3
    <3>3. CASE Len(q) # 1
      <4>1. Len(q) \in 2..Len(q) BY ONLY <1>11, <3>3
      <4> QED BY ONLY <1>11, <3>1, <4>1
    <3> QED BY ONLY <3>2, <3>3
  <2> QED BY <1>3, <2>1, <2>2, <2>3 DEF InSequence
<1>13. Bytes(q) = ToSet(SubSeq(q[1], 1, k)) \cup Bytes(t)
  <2>1. Bytes(q) = ToSet(q[1]) \cup UNION {ToSet(q[i]) : i \in 2..Len(q)}
    <3>1. DOMAIN q = {1} \cup 2..Len(q) BY ONLY <1>1
    <3> QED BY <3>1 DEF Bytes
  <2>2. Bytes(t) = ToSet(r) \cup UNION {ToSet(q[i]) : i \in 2..Len(q)}
    <3>1. DOMAIN t = {1} \cup 2..Len(q) BY ONLY <1>11, <1>4
    <3>2. ToSet(t[1]) = ToSet(r) /\ \A i \in 2..Len(q) : ToSet(t[i]) = ToSet(q[i]) BY <1>3
    <3> QED BY ONLY <3>1, <3>2 DEF Bytes
  <2> QED BY <1>2, <2>1, <2>2
<1> QED BY <1>9, <1>7, <1>12, <1>13 DEF t

\* The first two buffers become one.
LEMMA InSequenceJoin ==
    ASSUME NEW q, NEW f \in Nat, InSequence(q, f), Len(q) > 1
    PROVE  /\ InSequence(<<q[1] \o q[2]>> \o Tail(Tail(q)), f)
           /\ Bytes(<<q[1] \o q[2]>> \o Tail(Tail(q))) = Bytes(q)
<1> DEFINE a == q[1]
           b == q[2]
           c == a \o b
           t == <<c>> \o Tail(Tail(q))
<1>1. /\ q \in Seq(Seq(Nat)) /\ Len(q) \in Nat /\ DOMAIN q = 1..Len(q)
      /\ a \in Seq(Nat) /\ b \in Seq(Nat)
  BY DEF InSequence
<1>2. PICK m \in Nat, n \in Nat : m = Len(a) /\ n = Len(b) BY <1>1
<1>3. /\ a # <<>> /\ b # <<>>
      /\ \A j \in 1..m : a[j] \in 1..f /\ a[j] = a[1] + j - 1
      /\ \A j \in 1..n : b[j] \in 1..f /\ b[j] = b[1] + j - 1
  BY <1>2, <1>1 DEF InSequence
<1>4. b[1] = a[1] + m
  <2>1. 1 \in 1..(Len(q) - 1) /\ 1 + 1 = 2 BY <1>1
  <2> QED BY <1>2, <2>1 DEF InSequence
<1> HIDE DEF a, b
<1>5. /\ c \in Seq(Nat) /\ Len(c) = m + n
      /\ \A j \in 1..m : c[j] = a[j]
      /\ \A j \in 1..n : c[m + j] = b[j]
  <2>1. /\ c \in Seq(Nat) /\ Len(c) = Len(a) + Len(b)
        /\ \A j \in 1..Len(a) : c[j] = a[j]
        /\ \A j \in 1..Len(b) : c[Len(a) + j] = b[j]
    BY <1>1, Concatenation
  <2> QED BY <1>2, <2>1
<1>6. /\ Tail(Tail(q)) \in Seq(Seq(Nat)) /\ Len(Tail(Tail(q))) = Len(q) - 2
       /\ \A i \in 1..(Len(q) - 2) : Tail(Tail(q))[i] = q[i + 2]
  <2>1. q # <<>> BY <1>1
  <2>2. /\ Tail(q) \in Seq(Seq(Nat)) /\ Len(Tail(q)) = Len(q) - 1
        /\ \A i \in 1..(Len(q) - 1) : Tail(q)[i] = q[i + 1]
    BY <1>1, <2>1, TailOf
  <2>3. Tail(q) # <<>>
    <3>1. \A k \in Nat : k > 1 => k - 1 # 0 OBVIOUS
    <3>2. Len(q) - 1 # 0 BY <1>1, <3>1
    <3>3. ASSUME NEW u, Len(u) # 0 PROVE u # <<>> BY <3>3
    <3> QED BY <2>2, <3>2, <3>3
  <2>4. /\ Tail(Tail(q)) \in Seq(Seq(Nat)) /\ Len(Tail(Tail(q))) = Len(q) - 2
        /\ \A i \in 1..(Len(q) - 2) : Tail(Tail(q))[i] = Tail(q)[i + 1]
    BY <1>1, <2>2, <2>3, TailOf
  <2>5. ASSUME NEW i \in 1..(Len(q) - 2) PROVE Tail(q)[i + 1] = q[i + 2]
    <3>1. i + 1 \in 1..(Len(q) - 1) /\ i + 1 + 1 = i + 2 BY <1>1
    <3> QED BY <2>2, <3>1
  <2> QED BY <2>4, <2>5
<1> HIDE DEF c
<1>7. /\ t \in Seq(Seq(Nat)) /\ Len(t) = Len(q) - 1 /\ t[1] = c
      /\ \A i \in 2..(Len(q) - 1) : t[i] = q[i + 1]
  <2> DEFINE u == Tail(Tail(q))
             d == <<c>>
  <2>1. d \in Seq(Seq(Nat)) /\ Len(d) = 1 /\ d[1] = c BY <1>5
  <2>2. u \in Seq(Seq(Nat)) /\ Len(u) = Len(q) - 2 BY <1>6
  <2>3. t = d \o u OBVIOUS
  <2> HIDE DEF u, d, t
  <2>4. /\ t \in Seq(Seq(Nat)) /\ Len(t) = Len(d) + Len(u)
        /\ \A i \in 1..Len(d) : t[i] = d[i]
        /\ \A i \in 1..Len(u) : t[Len(d) + i] = u[i]
    <3>1. d \in Seq(Seq(Nat)) /\ u \in Seq(Seq(Nat)) BY <2>1, <2>2
    <3>2. /\ d \o u \in Seq(Seq(Nat)) /\ Len(d \o u) = Len(d) + Len(u)
          /\ \A i \in 1..Len(d) : (d \o u)[i] = d[i]
          /\ \A i \in 1..Len(u) : (d \o u)[Len(d) + i] = u[i]
      BY ONLY <3>1, Concatenation
    <3> QED BY <2>3, <3>2
  <2>5. /\ t \in Seq(Seq(Nat)) /\ Len(t) = 1 + (Len(q) - 2) /\ t[1] = c
        /\ \A i \in 1..(Len(q) - 2) : t[1 + i] = u[i]
    BY <2>1, <2>2, <2>4
  <2>6. ASSUME NEW i \in 2..(Len(q) - 1) PROVE t[i] = q[i + 1]
    <3>1. i - 1 \in 1..(Len(q) - 2) /\ 1 + (i - 1) = i /\ (i - 1) + 2 = i + 1 BY <1>1
    <3>2. t[1 + (i - 1)] = q[(i - 1) + 2] BY <1>6, <2>5, <3>1 DEF u
    <3> QED BY <3>1, <3>2
  <2>7. 1 + (Len(q) - 2) = Len(q) - 1 BY <1>1
  <2> QED BY <2>5, <2>6, <2>7
<1> HIDE DEF t
<1>8. m > 0 /\ n > 0 /\ a[1] \in Nat /\ b[1] \in Nat BY <1>2, <1>1, <1>3
<1>9. c # <<>> /\ c[1] = a[1] BY <1>3, <1>5, <1>8
<1>10. ASSUME NEW j \in 1..Len(c) PROVE c[j] \in 1..f /\ c[j] = c[1] + j - 1
  <2>1. CASE j \in 1..m BY <1>3, <1>5, <1>9, <2>1
  <2>2. CASE j \notin 1..m
    <3>1. PICK i \in 1..n : j = m + i
      <4>1. j - m \in 1..n /\ j = m + (j - m) BY <1>5, <2>2, OneOfTwo
      <4> QED BY <4>1
    <3>2. c[j] = b[i] /\ b[i] \in 1..f /\ b[i] = b[1] + i - 1 BY <1>3, <1>5, <3>1
    <3> QED BY <1>3, <1>4, <1>8, <1>9, <3>1, <3>2, SMTT(30)
  <2> QED BY <2>1, <2>2
<1>11. InSequence(t, f)
  <2>1. ASSUME NEW i \in 1..Len(t)
        PROVE  /\ t[i] # <<>>
               /\ \A j \in 1..Len(t[i]) : t[i][j] \in 1..f /\ t[i][j] = t[i][1] + j - 1
    <3>1. CASE i = 1 BY <1>7, <1>9, <1>10, <3>1
    <3>2. CASE i # 1
      <4>1. i \in 2..(Len(q) - 1) /\ t[i] = q[i + 1] /\ i + 1 \in 1..Len(q) BY <1>1, <1>7, <3>2
      <4> QED BY <4>1 DEF InSequence
    <3> QED BY <3>1, <3>2
  <2>2. ASSUME NEW i \in 1..(Len(t) - 1) PROVE t[i + 1][1] = t[i][1] + Len(t[i])
    <3>1. Len(t) - 1 = Len(q) - 2 BY <1>1, <1>7
    <3>2. i + 1 \in 2..(Len(q) - 1) /\ i + 1 \in 1..(Len(q) - 1) BY <1>1, <3>1
    <3>3. t[i + 1] = q[i + 1 + 1] BY <1>7, <3>2
    <3>4. q[i + 1 + 1][1] = q[i + 1][1] + Len(q[i + 1]) BY <3>2 DEF InSequence
    <3>5. CASE i = 1
      <4>1. q[i + 1] = b BY <3>5 DEF b
      <4>2. t[i] = c BY <1>7, <3>5
      <4>3. t[i + 1][1] = b[1] + n BY <1>2, <3>3, <3>4, <4>1
      <4>4. t[i][1] = a[1] /\ Len(t[i]) = m + n BY <1>5, <1>9, <4>2
      <4> QED BY <1>4, <1>8, <4>3, <4>4
    <3>6. CASE i # 1
      <4>1. i \in 2..(Len(q) - 1) BY <1>1, <3>1, <3>6
      <4>2. t[i] = q[i + 1] BY <1>7, <4>1
      <4> QED BY <3>3, <3>4, <4>2
    <3> QED BY <3>5, <3>6
  <2>3. t[Len(t)][1] + Len(t[Len(t)]) = f + 1
    <3>1. q[Len(q)][1] + Len(q[Len(q)]) = f + 1 BY <1>1 DEF InSequence
    <3>2. CASE Len(q) = 2
      <4>1. t[Len(t)] = c /\ q[Len(q)] = b BY <1>7, <3>2 DEF b
      <4>2. b[1] + n = f + 1 BY <1>2, <3>1, <4>1
      <4>3. t[Len(t)][1] = a[1] /\ Len(t[Len(t)]) = m + n BY <1>5, <1>9, <4>1
      <4> QED BY <1>4, <1>8, <4>2, <4>3
    <3>3. CASE Len(q) # 2
      <4>1. Len(q) > 2 BY <1>1, <3>3
      <4>2. Len(t) \in 2..(Len(q) - 1) /\ Len(t) + 1 = Len(q) BY <1>1, <1>7, <4>1
      <4>3. t[Len(t)] = q[Len(q)] BY <1>7, <4>2
      <4> QED BY <3>1, <4>3
    <3> QED BY <3>2, <3>3
  <2> QED BY <1>7, <2>1, <2>2, <2>3 DEF InSequence
<1>12. ToSet(c) = ToSet(a) \cup ToSet(b)
  <2>1. DOMAIN c = 1..(m + n) /\ DOMAIN a = 1..m /\ DOMAIN b = 1..n BY <1>2, <1>1, <1>5
  <2>2. ASSUME NEW j \in 1..(m + n) PROVE c[j] \in ToSet(a) \cup ToSet(b)
    <3>1. CASE j \in 1..m BY <1>5, <2>1, <3>1 DEF ToSet
    <3>2. CASE j \notin 1..m
      <4>1. j - m \in 1..n /\ j = m + (j - m) BY <3>2, OneOfTwo
      <4>2. c[j] = b[j - m] BY <1>5, <4>1
      <4> QED BY <2>1, <4>1, <4>2 DEF ToSet
    <3> QED BY <3>1, <3>2
  <2>3. ASSUME NEW j \in 1..m PROVE a[j] \in ToSet(c)
    <3>1. j \in 1..(m + n) BY OneOfTwo
    <3> QED BY <1>5, <2>1, <3>1 DEF ToSet
  <2>4. ASSUME NEW j \in 1..n PROVE b[j] \in ToSet(c)
    <3>1. m + j \in 1..(m + n) BY OneOfTwo
    <3> QED BY <1>5, <2>1, <3>1 DEF ToSet
  <2> QED BY <2>1, <2>2, <2>3, <2>4 DEF ToSet
<1>13. Bytes(t) = Bytes(q)
  <2>1. DOMAIN t = 1..(Len(q) - 1) BY <1>1, <1>7
  <2>2. ASSUME NEW i \in 1..Len(q) PROVE ToSet(q[i]) \subseteq Bytes(t)
    <3>1. CASE i \in {1, 2}
      <4>1. 1 \in DOMAIN t BY <1>1, <2>1
      <4> QED BY <1>7, <1>12, <3>1, <4>1 DEF Bytes, a, b
    <3>2. CASE i \notin {1, 2}
      <4>1. i - 1 \in 2..(Len(q) - 1) /\ (i - 1) + 1 = i /\ i - 1 \in 1..(Len(q) - 1)
        BY <1>1, <3>2
      <4>2. t[i - 1] = q[i] BY <1>7, <4>1
      <4> QED BY <2>1, <4>1, <4>2 DEF Bytes
    <3> QED BY <3>1, <3>2
  <2>3. ASSUME NEW i \in 1..(Len(q) - 1) PROVE ToSet(t[i]) \subseteq Bytes(q)
    <3>1. CASE i = 1
      <4>1. 1 \in DOMAIN q /\ 2 \in DOMAIN q BY <1>1
      <4> QED BY <1>7, <1>12, <3>1, <4>1 DEF Bytes, a, b
    <3>2. CASE i # 1
      <4>1. t[i] = q[i + 1] /\ i + 1 \in DOMAIN q BY <1>1, <1>7, <3>2
      <4> QED BY <4>1 DEF Bytes
    <3> QED BY <3>1, <3>2
  <2>4. Bytes(q) \subseteq Bytes(t) BY <1>1, <2>2 DEF Bytes
  <2>5. Bytes(t) \subseteq Bytes(q) BY <2>1, <2>3 DEF Bytes
  <2> QED BY <2>4, <2>5
<1> QED BY <1>11, <1>13 DEF t, c, a, b

-----------------------------------------------------------------------------
(***************************************************************************)
(* The announcements of the server.                                        *)
(***************************************************************************)
Announcements == {"PLAYING", "PAUSED", "END_OF_STREAM"}
States == {"PLAYING", "PAUSED"}

\* One of S is announced; no more than one of S is.
Among(n, S) == \E i \in 1..Len(n) : n[i] \in S
Once(n, S) == \A i, j \in 1..Len(n) : n[i] \in S /\ n[j] \in S => i = j

\* Two states are announced only when a pause follows a play.
InTurn(n) == \A i, j \in 1..Len(n) :
    n[i] \in States /\ n[j] \in States /\ i < j => n[i] = "PLAYING" /\ n[j] = "PAUSED"

LEMMA NoteTaken ==
    ASSUME NEW n \in Seq(Announcements), n # <<>>, NEW S
    PROVE  /\ Tail(n) \in Seq(Announcements) /\ Head(n) \in Announcements
           /\ Head(n) \in S => Among(n, S)
           /\ Among(Tail(n), S) => Among(n, S)
           /\ Among(n, S) => Head(n) \in S \/ Among(Tail(n), S)
           /\ Once(n, S) => Once(Tail(n), S) /\ (Head(n) \in S => ~Among(Tail(n), S))
           /\ InTurn(n) => /\ InTurn(Tail(n))
                           /\ Head(n) = "PAUSED" => ~Among(Tail(n), States)
                           /\ Head(n) = "PLAYING" => ~Among(Tail(n), {"PLAYING"})
<1> DEFINE t == Tail(n)
<1>1. /\ t \in Seq(Announcements) /\ Len(t) = Len(n) - 1 /\ Len(n) \in Nat \ {0}
      /\ \A i \in 1..(Len(n) - 1) : t[i] = n[i + 1]
  BY TailOf
<1>2. Head(n) = n[1] /\ Head(n) \in Announcements /\ 1 \in 1..Len(n) BY <1>1
<1> HIDE DEF t
<1>3. ASSUME NEW i \in 1..Len(t) PROVE i + 1 \in 1..Len(n) /\ t[i] = n[i + 1] /\ i + 1 # 1
  BY <1>1
<1>4. ASSUME NEW i \in 1..Len(n) PROVE i = 1 \/ (i - 1 \in 1..Len(t) /\ (i - 1) + 1 = i)
  BY <1>1
<1>5. Among(t, S) => Among(n, S) BY <1>3 DEF Among
<1>6. Among(n, S) => Head(n) \in S \/ Among(t, S) BY <1>2, <1>3, <1>4 DEF Among
<1>7. Once(n, S) /\ Head(n) \in S => ~Among(t, S) BY <1>2, <1>3 DEF Once, Among
<1>8. ASSUME Once(n, S), NEW i \in 1..Len(t), NEW j \in 1..Len(t), t[i] \in S, t[j] \in S PROVE i = j
  <2>1. i + 1 = j + 1 BY <1>3, <1>8 DEF Once
  <2> QED BY <1>1, <2>1
<1>9. Once(n, S) => Once(t, S) BY <1>8 DEF Once
<1>10. ASSUME InTurn(n) PROVE InTurn(t)
  <2>1. ASSUME NEW i \in 1..Len(t), NEW j \in 1..Len(t), t[i] \in States, t[j] \in States, i < j
        PROVE  t[i] = "PLAYING" /\ t[j] = "PAUSED"
    <3>1. i + 1 < j + 1 BY <1>1, <2>1
    <3> QED BY <1>3, <1>10, <2>1, <3>1 DEF InTurn
  <2> QED BY <2>1 DEF InTurn
<1>11. ASSUME InTurn(n), Head(n) \in States, NEW i \in 1..Len(t), t[i] \in States
       PROVE  Head(n) = "PLAYING" /\ t[i] = "PAUSED"
  <2>1. 1 < i + 1 BY <1>1
  <2> QED BY <1>2, <1>3, <1>11, <2>1 DEF InTurn
<1>12. ASSUME InTurn(n)
       PROVE  /\ Head(n) = "PAUSED" => ~Among(t, States)
              /\ Head(n) = "PLAYING" => ~Among(t, {"PLAYING"})
  BY <1>11, <1>12 DEF Among, States
<1>13. Once(n, S) => Once(t, S) /\ (Head(n) \in S => ~Among(t, S)) BY <1>7, <1>9
<1>14. Head(n) \in S => Among(n, S) BY <1>2 DEF Among
<1>15. t \in Seq(Announcements) /\ Head(n) \in Announcements BY <1>1, <1>2
<1> QED BY ONLY <1>5, <1>6, <1>10, <1>12, <1>13, <1>14, <1>15 DEF t

LEMMA NoteAdded ==
    ASSUME NEW n \in Seq(Announcements), NEW e \in Announcements, NEW S
    PROVE  /\ Append(n, e) \in Seq(Announcements)
           /\ Among(Append(n, e), S) <=> Among(n, S) \/ e \in S
           /\ Once(n, S) /\ e \notin S => Once(Append(n, e), S)
           /\ ~Among(n, S) => Once(Append(n, e), S)
           /\ InTurn(n) /\ e \notin States => InTurn(Append(n, e))
           /\ ~Among(n, States) => InTurn(Append(n, e))
           /\ InTurn(n) /\ ~Among(n, {"PAUSED"}) /\ e = "PAUSED" => InTurn(Append(n, e))
<1> DEFINE t == Append(n, e)
<1>1. /\ t \in Seq(Announcements) /\ Len(t) = Len(n) + 1 /\ Len(n) \in Nat
      /\ t[Len(n) + 1] = e /\ \A i \in 1..Len(n) : t[i] = n[i]
  OBVIOUS
<1> HIDE DEF t
<1>2. ASSUME NEW i \in 1..Len(t) PROVE i = Len(n) + 1 \/ i \in 1..Len(n) BY <1>1
<1>3. \A i \in 1..Len(n) : i \in 1..Len(t) BY <1>1
<1>4. Len(n) + 1 \in 1..Len(t) BY <1>1
<1>5. Among(t, S) <=> Among(n, S) \/ e \in S BY <1>1, <1>2, <1>3, <1>4 DEF Among
<1>6. Once(n, S) /\ e \notin S => Once(t, S) BY <1>1, <1>2 DEF Once
<1>7. ~Among(n, S) => Once(t, S) BY <1>1, <1>2 DEF Once, Among
<1>8. ASSUME NEW i \in 1..Len(t), NEW j \in 1..Len(t), i < j
      PROVE  i \in 1..Len(n) /\ t[i] = n[i] /\ ((j \in 1..Len(n) /\ t[j] = n[j]) \/ t[j] = e)
  BY <1>1, <1>8
<1>9. InTurn(n) /\ e \notin States => InTurn(t) BY <1>8 DEF InTurn
<1>10. ~Among(n, States) => InTurn(t) BY <1>8 DEF InTurn, Among
<1>11. InTurn(n) /\ ~Among(n, {"PAUSED"}) /\ e = "PAUSED" => InTurn(t)
  BY <1>8 DEF InTurn, Among, States
<1> QED BY <1>1, <1>5, <1>6, <1>7, <1>9, <1>10, <1>11 DEF t

LEMMA NoNotes == ASSUME NEW S PROVE ~Among(<<>>, S) /\ Once(<<>>, S) /\ InTurn(<<>>)
BY DEF Among, Once, InTurn

-----------------------------------------------------------------------------
(***************************************************************************)
(* The inductive invariant.                                                *)
(***************************************************************************)
Excuses == {"partial", "volumeRace", "capsRace", "earlyNotify", "closeEarly", "closeVolume",
            "newFormat", "withdrawn", "commitRace"}
Closing == {"close", "closed", "deactivate"}
Commanding == {"play", "delay", "pause"}
AppPlaces == {"idle", "play", "delay", "pause", "asyncStart", "close", "closed", "deactivate",
              "volCheck", "volQueue", "volCall", "volGet"}
StreamPlaces == {"idle", "wait", "pushing", "vol", "volClear", "play", "playClear"}
InCaps == {"vol", "volClear", "play", "playClear"}
SinkStates == {"READY", "PAUSED", "PLAYING"}
Fields == {"READY", "PAUSED", "PLAYING", Void}

Flags ==
    /\ m_isOpen \in BOOLEAN /\ m_isEos \in BOOLEAN /\ m_pushSamplesTimer \in BOOLEAN
    /\ m_isPlayingDelayed \in BOOLEAN /\ m_isStateCommitNeeded \in BOOLEAN
    /\ m_isVolumeQueued \in BOOLEAN /\ serverEos \in BOOLEAN /\ eosSent \in BOOLEAN
    /\ pad \in BOOLEAN

Numbers ==
    /\ fed \in 0..MaxBytes /\ room \in 0..MaxRoom /\ expired \in Nat
    /\ m_volume \in 0..MaxCalls /\ volume \in 0..MaxCalls /\ wantedVolume \in 0..MaxCalls
    /\ targets \in Nat /\ events \in Nat /\ failures \in Nat
    /\ stream = "wait" => size \in Nat \ {0} /\ fed + size <= MaxBytes

Control ==
    /\ push \in {"idle", "loop", "end", "crashed"}
    /\ state \in SinkStates /\ next \in Fields /\ pending \in Fields
    /\ notify \in [at : {"idle", "write", "clear"}, next : Fields, pending : Fields]
    /\ notify.at = "write" => notify.next \in States
    /\ server \in {"none", "IDLE", "PLAYING", "PAUSED"}
    /\ app \in AppPlaces /\ stream \in StreamPlaces
    /\ notes \in Seq(Announcements) /\ excused \subseteq Excuses

\* Where the threads can be.
Places ==
    /\ push \in {"loop", "end"} => m_isOpen
    /\ push = "loop" => m_dataBuffers # <<>>
    /\ server = "none" <=> ~m_isOpen
    /\ ~m_isOpen => notes = <<>> /\ ~serverEos /\ notify.at = "idle"
    /\ stream \in InCaps => m_isOpen \/ app \in {"closed", "deactivate"}
    /\ app = "deactivate" => ~pad

\* The queue, and what the server was given.
Contents ==
    /\ InSequence(m_dataBuffers, fed) /\ Len(m_dataBuffers) <= MaxQueue
    /\ written \in Seq(Nat)

\* With whole frames, everything written came before what is queued.
WholeFrames(n) == n % FrameSize = 0

Ordered == "partial" \notin excused =>
    /\ Increasing(written)
    /\ \A i \in 1..Len(written) : /\ written[i] \in 1..fed
                                  /\ m_dataBuffers # <<>> => written[i] < m_dataBuffers[1][1]
    /\ \A i \in 1..Len(m_dataBuffers) : WholeFrames(Len(m_dataBuffers[i]))
    /\ stream = "wait" => WholeFrames(size)

\* Buffers wait only for an open player, and never without a timer.
Retrying == excused \cap {"closeEarly", "newFormat"} = {} =>
    /\ m_dataBuffers # <<>> \/ stream = "wait" => m_isOpen
    /\ LoopFree /\ m_dataBuffers # <<>> => m_pushSamplesTimer \/ expired > 0

\* From EOS on nothing is queued any more, and END_OF_STREAM comes once.
EosOnce ==
    /\ stream = "wait" => ~eosSent
    /\ "closeEarly" \notin excused =>
        /\ serverEos \/ Among(notes, {"END_OF_STREAM"}) =>
                m_isEos /\ m_dataBuffers = <<>> /\ push \notin {"loop", "end"}
        /\ serverEos => ~Among(notes, {"END_OF_STREAM"})
        /\ Once(notes, {"END_OF_STREAM"})
        /\ m_isEos => eosSent
        /\ app \in {"closed", "deactivate"} => ~m_isOpen /\ ~m_isEos

\* A play that waits for CAPS.
PlayPending ==
    /\ m_isPlayingDelayed /\ stream # "playClear"
    /\ pending = "PLAYING" /\ app \notin Commanding
    /\ server # "PLAYING" /\ ~Among(notes, States) /\ notify.at = "idle"
    /\ m_isOpen => stream \in {"vol", "volClear", "play"}

\* What handleStateChanged() is still to make of a change that is pending.
Awaited == Among(notes, {pending}) \/ notify.at = "write" \/ PlayPending

\* An undisturbed change of state: the call, or the delayed play, then its
\* announcement, which finds the sink waiting for it.
Steady == /\ failures = 0
          /\ excused \cap {"capsRace", "earlyNotify", "newFormat", "withdrawn", "commitRace"} = {}

\* Where the application's thread is, and which change is pending.
Asked ==
    /\ next = pending
    /\ pending = "READY" <=> app \in Closing
    /\ app \in {"play", "delay"} => pending = "PLAYING" /\ ~Among(notes, States)
    /\ app = "pause" => pending = "PAUSED" /\ ~Among(notes, {"PAUSED"})
    /\ app = "play" => m_isOpen
    /\ app = "delay" => ~m_isOpen
    /\ app \in Commanding \cup Closing => ~m_isPlayingDelayed
    /\ m_isPlayingDelayed =>
        \/ PlayPending
        \/ stream = "playClear" /\ (pending = "PLAYING" \/ (pending = Void /\ state = "PLAYING"))
    /\ stream = "playClear" => m_isPlayingDelayed /\ m_isOpen

\* What the server has announced, and what it does.
Announced ==
    /\ InTurn(notes)
    /\ pending = "PLAYING" => /\ ~Among(notes, {"PAUSED"})
                              /\ Among(notes, States) \/ notify.at = "write" => server = "PLAYING"
    /\ pending = "PAUSED" => m_isOpen /\ (app # "pause" => server = "PAUSED")
    /\ pending = Void => /\ ~Among(notes, States)
                         /\ m_isOpen => (state = "PLAYING" <=> server = "PLAYING")
                         /\ state = "PLAYING" => m_isOpen
    /\ app \in {"closed", "deactivate"} => server \in {"none", "IDLE"} /\ ~Among(notes, States)

\* The change is committed once its announcement is there.
Committed ==
    /\ pending \in States /\ app \notin Commanding => Awaited
    /\ pending \in States /\ app \notin Commanding \cup {"asyncStart"} =>
            m_isStateCommitNeeded /\ notify.at # "clear"
    /\ notify.at = "write" =>
            /\ notify.next = pending /\ notify.pending = pending /\ pending \in States
            /\ app \notin Commanding /\ ~Among(notes, States)

Following == Steady => Asked /\ Announced /\ Committed

\* Where the last volume is: with the player, or marked for the CAPS event.
VolumeKept ==
    failures = 0 /\ excused \cap {"volumeRace", "closeVolume", "newFormat"} = {} =>
    /\ m_volume = wantedVolume
    /\ app \in {"volCheck", "volQueue", "volCall"} => stream \notin {"vol", "volClear"}
    /\ app = "volQueue" => ~m_isOpen
    /\ app \in {"volCall", "volGet"} => m_isOpen
    /\ stream = "volClear" => volume = wantedVolume
    /\ stream \in {"vol", "volClear"} /\ ~m_isOpen => wantedVolume = 0
    /\ m_isOpen /\ app \notin {"volCheck", "volCall"} =>
            volume = wantedVolume \/ (stream = "vol" /\ m_isVolumeQueued)
    /\ ~m_isOpen /\ app \notin {"volCheck", "volQueue"} => m_isVolumeQueued \/ wantedVolume = 0

IInv ==
    /\ Flags /\ Numbers /\ Control /\ Places /\ Contents /\ EveryByteAccounted /\ Ordered
    /\ Retrying /\ EosOnce /\ Following /\ VolumeKept

LEMMA InitIInv == Init => IInv
<1> SUFFICES ASSUME Init PROVE IInv OBVIOUS
<1> USE DEF Init
<1>1. Flags BY DEF Flags
<1>2. Numbers BY WebAudioAssumption DEF Numbers
<1>3. Control BY DEF Control, AppPlaces, StreamPlaces, SinkStates, Fields, NotNotifying
<1>4. Places BY DEF Places, InCaps, NotNotifying
<1>5. Contents BY WebAudioAssumption DEF Contents, InSequence
<1>6. EveryByteAccounted BY DEF EveryByteAccounted, Queued, ToSet
<1>7. Ordered BY DEF Ordered, Increasing
<1>8. Retrying BY DEF Retrying
<1>9. EosOnce BY NoNotes DEF EosOnce
<1>10. Following
  BY NoNotes
    DEF Following, Asked, Announced, Committed, Closing, Commanding, States, NotNotifying, Void
<1>11. VolumeKept BY DEF VolumeKept
<1> QED BY <1>1, <1>2, <1>3, <1>4, <1>5, <1>6, <1>7, <1>8, <1>9, <1>10, <1>11 DEF IInv

\* The parts of the invariant one at a time.
LEMMA Parts ==
    ASSUME IInv
    PROVE  /\ Flags /\ Numbers /\ Control /\ Places /\ Contents /\ EveryByteAccounted /\ Ordered
           /\ Retrying /\ EosOnce /\ Following /\ VolumeKept
BY DEF IInv

\* What an undisturbed change of state can count on.
LEMMA Follows == ASSUME IInv, Steady PROVE Asked /\ Announced /\ Committed
BY DEF IInv, Following

LEMMA StatesAmong == ASSUME NEW n PROVE Among(n, States) <=> \E s \in States : Among(n, {s})
BY DEF Among, States

\* The numbers among the constants.
LEMMA Constants ==
    /\ FrameSize \in Nat \ {0} /\ MaxQueue \in Nat \ {0} /\ MaxRoom \in Nat \ {0}
    /\ Sizes \subseteq Nat \ {0} /\ MaxBytes \in Nat /\ MaxCalls \in Nat /\ MaxEvents \in Nat
BY WebAudioAssumption

\* A step that leaves the change of state and the delayed play alone.
LEMMA FollowingKept ==
    ASSUME IInv, Steady' => Steady,
           UNCHANGED <<state, next, pending, notes, notify, server, m_isOpen, m_isPlayingDelayed,
                       m_isStateCommitNeeded>>,
           \/ app' = app
           \/ /\ app \in {"idle", "volCheck", "volQueue", "volCall", "volGet"}
              /\ app' \in {"idle", "volCheck", "volQueue", "volCall", "volGet"},
           \/ stream' = stream
           \/ stream \notin InCaps /\ stream' \notin InCaps
           \/ stream \in {"vol", "volClear", "play"} /\ stream' \in {"vol", "volClear", "play"}
    PROVE  Following'
<1> SUFFICES ASSUME Steady' PROVE Asked' /\ Announced' /\ Committed' BY DEF Following
<1>1. Asked /\ Announced /\ Committed BY Follows
<1>2. PlayPending' <=> PlayPending BY DEF PlayPending, InCaps, Commanding
<1>3. stream' = "playClear" <=> stream = "playClear" BY DEF InCaps
<1>4. \/ app' = app
      \/ /\ app \notin Commanding \cup Closing \cup {"asyncStart"}
         /\ app' \notin Commanding \cup Closing \cup {"asyncStart"}
  BY DEF Commanding, Closing
<1>5. Asked' BY <1>1, <1>2, <1>3, <1>4 DEF Asked, Commanding, Closing
<1>6. Announced' BY <1>1, <1>4 DEF Announced, Commanding, Closing
<1>7. Committed' BY <1>1, <1>2, <1>4 DEF Committed, Awaited
<1> QED BY <1>5, <1>6, <1>7

-----------------------------------------------------------------------------
(***************************************************************************)
(* What writeBuffer() takes of a buffer, and what is left.                 *)
(***************************************************************************)
LEMMA Division ==
    ASSUME NEW a \in Nat, NEW d \in Nat \ {0}
    PROVE  /\ d * (a \div d) + (a % d) = a
           /\ a \div d \in Nat /\ a % d \in 0..(d - 1)
<1>1. d * (a \div d) + (a % d) = a OBVIOUS
<1>2. a \div d \in Nat /\ a % d \in 0..(d - 1) OBVIOUS
<1> QED BY <1>1, <1>2

LEMMA Products ==
    \A a \in Nat, b \in Nat, d \in Nat :
        /\ a * d \in Nat /\ a * d = d * a
        /\ a <= b => a * d <= b * d /\ b * d - a * d = (b - a) * d
        /\ a < b => a * d + d <= b * d
OBVIOUS

LEMMA Multiples == \A k \in Nat, d \in Nat \ {0} : (k * d) % d = 0
OBVIOUS

LEMMA Wrapping ==
    /\ \A x \in Nat : x < Width => Uint(x) = x
    /\ \A x \in Int : 0 - Width < x /\ x < 0 => Uint(x) = x + Width
<1>1. \A x \in Nat, w \in Nat : x < w => x % w = x OBVIOUS
<1>2. \A x \in Int : -65536 < x /\ x < 0 => x % 65536 = x + 65536 OBVIOUS
<1> QED BY <1>1, <1>2 DEF Width, Uint

\* As much as there is room for; the rest is what LeftoverData says, or a
\* piece of a frame, for which LeftoverData is beyond the buffer's end.
LEMMA WrittenAndLeft ==
    ASSUME NEW L \in Nat, L <= MaxBytes, room \in 0..MaxRoom,
           NEW w, w = FramesToWrite(L), NEW n, n = w * FrameSize
    PROVE  /\ w \in Nat /\ w <= room /\ n \in 0..L
           /\ n < L => \/ LeftoverData(L) = L - n
                       \/ LeftoverData(L) \in Nat /\ n + LeftoverData(L) > L
           /\ WholeFrames(L) /\ n < L => LeftoverData(L) = L - n /\ WholeFrames(L - n)
<1> DEFINE q == L \div FrameSize
           r == L % FrameSize
<1>1. FrameSize \in Nat \ {0} /\ MaxRoom \in Nat /\ room \in Nat /\ room <= MaxRoom BY Constants
<1>2. FrameSize * q + r = L /\ q \in Nat /\ r \in Nat /\ r < FrameSize
  BY ONLY <1>1, L \in Nat, Division
<1>3. w = IF room <= q THEN room ELSE q
  <2>1. w = Min({room, q}) BY DEF FramesToWrite
  <2>2. \A y \in {room, q} : (IF room <= q THEN room ELSE q) <= y BY <1>1, <1>2
  <2>3. \A x \in {room, q} : (\A y \in {room, q} : x <= y) => x = IF room <= q THEN room ELSE q
    BY <1>1, <1>2
  <2> QED BY <2>1, <2>2, <2>3 DEF Min
<1>4. room * FrameSize \in Nat /\ q * FrameSize \in Nat /\ FrameSize * q = q * FrameSize
  BY <1>1, <1>2, Products
<1>5. room * FrameSize < Width /\ L < Width
  <2>1. room * FrameSize <= MaxRoom * FrameSize /\ MaxRoom * FrameSize \in Nat BY <1>1, Products
  <2>2. MaxBytes \in Nat BY Constants
  <2> QED BY <1>4, <2>1, <2>2, WidthAssumption DEF Width
<1>6. CASE room <= q
  <2>1. n = room * FrameSize /\ w = room BY <1>3, <1>6
  <2>2. room * FrameSize <= q * FrameSize /\ q * FrameSize - room * FrameSize = (q - room) * FrameSize
    BY <1>1, <1>2, <1>6, Products
  <2> HIDE DEF q, r
  <2>3. n \in 0..L BY <1>2, <1>4, <2>1, <2>2
  <2>4. LeftoverData(L) = L - n
    <3>1. L - n \in Nat /\ L - n < Width BY <1>5, <2>3 DEF Width
    <3> QED BY <2>1, <3>1, Wrapping DEF LeftoverData
  <2>5. ASSUME WholeFrames(L) PROVE WholeFrames(L - n)
    <3>1. r = 0 BY <2>5 DEF WholeFrames, r
    <3>2. L - n = (q - room) * FrameSize BY <1>2, <1>4, <2>1, <2>2, <3>1
    <3>3. q - room \in Nat BY <1>1, <1>2, <1>6
    <3> QED BY <1>1, <3>2, <3>3, Multiples DEF WholeFrames
  <2> QED BY <1>1, <2>1, <2>3, <2>4, <2>5
<1>7. CASE ~(room <= q)
  <2>1. n = q * FrameSize /\ w = q BY <1>3, <1>7
  <2>2. q * FrameSize + FrameSize <= room * FrameSize BY <1>1, <1>2, <1>7, Products
  <2> HIDE DEF q, r
  <2>3. n \in 0..L /\ L - room * FrameSize < 0 BY <1>1, <1>2, <1>4, <2>1, <2>2
  <2>4. LeftoverData(L) = L - room * FrameSize + Width
    <3>1. L - room * FrameSize \in Int /\ 0 - Width < L - room * FrameSize BY <1>4, <1>5 DEF Width
    <3> QED BY <2>3, <3>1, Wrapping DEF LeftoverData
  <2>5. LeftoverData(L) \in Nat /\ n + LeftoverData(L) > L BY <1>4, <1>5, <2>3, <2>4 DEF Width
  <2>6. WholeFrames(L) => n = L BY <1>2, <1>4, <2>1 DEF WholeFrames, r
  <2> QED BY <1>1, <1>2, <1>7, <2>1, <2>3, <2>5, <2>6
<1> QED BY <1>6, <1>7

-----------------------------------------------------------------------------
(***************************************************************************)
(* The steps.                                                              *)
(***************************************************************************)
\* getBufferAvailable() fails, and the queue is emptied.
LEMMA GetBufferAvailableFailsStep == ASSUME IInv, GetBufferAvailableFails PROVE IInv'
<1> USE Parts DEF GetBufferAvailableFails, Refused, EventsLeft, playing, fields, vol, serverVars
<1>1. Flags'
  BY DEF Flags
<1>2. Numbers' BY DEF Numbers
<1>3. Control' BY DEF Control, AppPlaces, StreamPlaces, Excuses, Announcements
<1>4. Places' BY DEF Places, Control, InCaps
<1>5. Contents' BY WebAudioAssumption DEF Contents, InSequence, Numbers
<1>6. EveryByteAccounted' BY DEF EveryByteAccounted, Queued
<1>7. Ordered' BY DEF Ordered
<1>8. Retrying' BY DEF Retrying, LoopFree, Places, Numbers
<1>9. EosOnce' BY DEF EosOnce, Places
<1>10. Following'
  <2>1. ~Steady' BY DEF Steady, Numbers
  <2> QED BY <2>1 DEF Following
<1>11. VolumeKept' BY DEF VolumeKept, Places, InCaps, Numbers
<1> QED BY <1>1, <1>2, <1>3, <1>4, <1>5, <1>6, <1>7, <1>8, <1>9, <1>10, <1>11 DEF IInv

\* The server has no room.
LEMMA NoRoomStep == ASSUME IInv, NoRoom PROVE IInv'
<1> USE Parts DEF NoRoom, playing, fields, vol, serverVars, counts
<1>1. Flags' /\ Numbers' /\ Contents' /\ EveryByteAccounted' /\ Ordered' /\ VolumeKept'
  BY DEF Flags, Numbers, Contents, EveryByteAccounted, Queued, Ordered, VolumeKept
<1>2. Control' BY DEF Control, AppPlaces, StreamPlaces, Excuses, Announcements
<1>3. Places' BY DEF Places, Control, InCaps
<1>4. Retrying' BY DEF Retrying, LoopFree, Places, Numbers
<1>5. EosOnce' BY DEF EosOnce, Places
<1>6. Following' BY FollowingKept DEF Steady, InCaps, Numbers
<1> QED BY <1>1, <1>2, <1>3, <1>4, <1>5, <1>6 DEF IInv

\* The front was freed, and the process ends.
LEMMA ReadFreedStep == ASSUME IInv, ReadFreed PROVE IInv'
<1> USE Parts DEF ReadFreed, playing, fields, vol, serverVars, counts
<1>1. Flags' /\ Numbers' /\ Contents' /\ EveryByteAccounted' /\ Ordered' /\ VolumeKept'
  BY DEF Flags, Numbers, Contents, EveryByteAccounted, Queued, Ordered, VolumeKept
<1>2. Control' BY DEF Control
<1>3. Places' BY DEF Places
<1>4. Retrying' BY DEF Retrying, LoopFree
<1>5. EosOnce' BY DEF EosOnce
<1>6. Following' BY FollowingKept DEF Steady, InCaps, Numbers
<1> QED BY <1>1, <1>2, <1>3, <1>4, <1>5, <1>6 DEF IInv

\* pushSamples() ends.
LEMMA PushEndsStep == ASSUME IInv, PushEnds PROVE IInv'
<1> USE Parts DEF PushEnds, StartTimer, playing, fields, vol, counts
<1>1. Contents' /\ EveryByteAccounted'
  BY DEF Contents, EveryByteAccounted, Queued
<1>2. Flags' BY DEF Flags
<1>3. Numbers' BY DEF Numbers
<1>4. Control' BY DEF Control, AppPlaces, StreamPlaces, Excuses, Announcements
<1>5. Places' BY DEF Places, Control, InCaps
<1>6. Ordered' BY DEF Ordered
<1>7. Retrying' BY DEF Retrying, LoopFree, Places, Numbers
<1>8. EosOnce' BY DEF EosOnce, Places
<1>9. VolumeKept' BY DEF VolumeKept, Places, InCaps, Numbers
<1>10. Following' BY FollowingKept DEF Steady, InCaps, Numbers
<1> QED BY <1>1, <1>2, <1>3, <1>4, <1>5, <1>6, <1>7, <1>8, <1>9, <1>10 DEF IInv

\* The timer expires.
LEMMA TimerExpiresStep == ASSUME IInv, TimerExpires PROVE IInv'
<1> USE Parts DEF TimerExpires, playing, fields, vol, serverVars, counts
<1>1. Control' /\ Places' /\ Contents' /\ EveryByteAccounted' /\ Ordered' /\ EosOnce' /\ VolumeKept'
  BY DEF Control, Places, Contents, EveryByteAccounted, Queued, Ordered, EosOnce, VolumeKept
<1>2. Flags' BY DEF Flags
<1>3. Numbers' BY DEF Numbers
<1>4. Retrying' BY DEF Retrying, LoopFree, Places, Numbers
<1>5. Following' BY FollowingKept DEF Steady, InCaps, Numbers
<1> QED BY <1>1, <1>2, <1>3, <1>4, <1>5 DEF IInv

\* The attempt of an expired timer.
LEMMA PushAfterTimerStep == ASSUME IInv, PushAfterTimer PROVE IInv'
<1> USE Parts DEF PushAfterTimer, LoopFree, PushStarts, playing, fields, vol, serverVars, counts
<1>1. Flags' /\ VolumeKept'
  BY DEF Flags, VolumeKept
<1>2. Numbers' BY DEF Numbers
<1>3. Control' BY DEF Control, AppPlaces, StreamPlaces, Excuses, Announcements
<1>4. Places' BY DEF Places, Control, InCaps
<1>5. Contents' BY DEF Contents
<1>6. EveryByteAccounted' BY DEF EveryByteAccounted, Queued
<1>7. Ordered' BY DEF Ordered
<1>8. Retrying' BY DEF Retrying, LoopFree, Places, Numbers
<1>9. EosOnce' BY DEF EosOnce, Places
<1>10. Following' BY FollowingKept DEF Steady, InCaps, Numbers
<1> QED BY <1>1, <1>2, <1>3, <1>4, <1>5, <1>6, <1>7, <1>8, <1>9, <1>10 DEF IInv

\* The streaming thread comes with a buffer.
LEMMA HandleBufferStep == ASSUME IInv, HandleBuffer PROVE IInv'
<1> USE Parts DEF HandleBuffer, EventsLeft, client, playing, fields, vol, serverVars
<1>1. Flags' /\ Contents' /\ EveryByteAccounted'
  BY DEF Flags, Contents, EveryByteAccounted, Queued
<1>2. Numbers' BY Constants DEF Numbers
<1>3. Control' BY DEF Control, AppPlaces, StreamPlaces, Excuses, Announcements
<1>4. Places' BY DEF Places, Control, InCaps
<1>5. Ordered' BY Constants DEF Ordered, WholeFrames
<1>6. Retrying' BY DEF Retrying, LoopFree, Places, Numbers
<1>7. EosOnce' BY DEF EosOnce, Places
<1>8. VolumeKept' BY DEF VolumeKept, Places, InCaps, Numbers
<1>9. Following' BY FollowingKept DEF Steady, InCaps, Numbers
<1> QED BY <1>1, <1>2, <1>3, <1>4, <1>5, <1>6, <1>7, <1>8, <1>9 DEF IInv

\* The EOS event.
LEMMA SetEosStep == ASSUME IInv, SetEos PROVE IInv'
<1> USE Parts DEF SetEos, LoopFree, NothingQueued, playing, fields, vol
<1>1. Contents' /\ EveryByteAccounted'
  BY DEF Contents, EveryByteAccounted, Queued
<1>2. Flags' BY DEF Flags
<1>3. Numbers' BY DEF Numbers
<1>4. Control' BY DEF Control, AppPlaces, StreamPlaces, Excuses, Announcements
<1>5. Places' BY DEF Places, Control, InCaps
<1>6. Ordered' BY DEF Ordered
<1>7. Retrying' BY DEF Retrying, LoopFree, Places, Numbers
<1>8. EosOnce' BY DEF EosOnce, Places
<1>9. VolumeKept' BY DEF VolumeKept, Places, InCaps, Numbers
<1>10. Following' BY FollowingKept DEF Steady, InCaps, Numbers
<1> QED BY <1>1, <1>2, <1>3, <1>4, <1>5, <1>6, <1>7, <1>8, <1>9, <1>10 DEF IInv

\* CAPS opens the player.
LEMMA OpenStep == ASSUME IInv, Open PROVE IInv'
<1> USE Parts DEF Open, LoopFree, Accepted, Refused, NewPlayer, EventsLeft, playing, fields, vol
<1>1. /\ notes' = <<>> /\ room' = MaxRoom /\ volume' = 0 /\ serverEos' = FALSE
      /\ events' \in {events, events + 1}
  OBVIOUS
<1>2. \/ failures' = failures /\ server' = "IDLE" /\ m_isOpen' /\ stream' = "vol"
      \/ failures' = failures + 1 /\ server' = "none" /\ ~m_isOpen' /\ stream' = stream
  OBVIOUS
<1>3. /\ excused \subseteq excused' /\ (m_isOpen => "newFormat" \in excused')
      /\ app \in {"volCheck", "volQueue", "volCall", "volGet"} => "volumeRace" \in excused'
      /\ app = "delay" => "capsRace" \in excused'
      /\ app = "closed" => "closeEarly" \in excused'
  OBVIOUS
<1>4. failures' = 0 => /\ failures = 0 /\ server' = "IDLE" /\ m_isOpen' /\ stream' = "vol"
  BY <1>2 DEF Numbers
<1>5. Contents' /\ EveryByteAccounted'
  BY DEF Contents, EveryByteAccounted, Queued
<1>6. Flags' BY <1>1, <1>2, <1>3, <1>4 DEF Flags
<1>7. Numbers' 
  <2>1. failures' \in Nat /\ events' \in Nat BY <1>1, <1>2 DEF Numbers
  <2>2. room' \in 0..MaxRoom /\ volume' \in 0..MaxCalls BY <1>1, Constants
  <2> QED BY <1>2, <2>1, <2>2 DEF Numbers
<1>8. Control' 
  <2>1. notes' \in Seq(Announcements) BY <1>1
  <2>2. excused' \subseteq Excuses BY DEF Control, Excuses
  <2> QED BY <2>1, <2>2 DEF Control, AppPlaces, StreamPlaces
<1>9. Places' BY <1>1, <1>2, <1>3, <1>4 DEF Places, Control, InCaps
<1>10. Ordered' BY <1>1, <1>2, <1>3, <1>4 DEF Ordered
<1>11. Retrying' BY <1>1, <1>2, <1>3, <1>4 DEF Retrying, LoopFree, Places, Numbers
<1>12. EosOnce' BY <1>1, <1>3, NoNotes DEF EosOnce, Places
<1>13. Following'
  <2> SUFFICES ASSUME Steady' PROVE Asked' /\ Announced' /\ Committed' BY DEF Following
  <2>1. /\ Steady /\ ~m_isOpen /\ app # "delay"
        /\ server' = "IDLE" /\ stream' = "vol" /\ m_isOpen'
    BY <1>3, <1>4 DEF Steady
  <2>2. Asked /\ Announced /\ Committed BY <2>1, Follows
  <2>3. /\ notes = <<>> /\ notify.at = "idle" /\ stream = "idle"
        /\ ~Among(notes, {pending}) /\ ~Among(notes', States) /\ ~Among(notes', {"PAUSED"})
        /\ InTurn(notes')
    BY <1>1, <2>1, NoNotes DEF Places
  <2>4. UNCHANGED <<state, next, pending, m_isPlayingDelayed, m_isStateCommitNeeded, app, notify>>
    OBVIOUS
  <2>5. PlayPending => PlayPending' BY <2>1, <2>3, <2>4 DEF PlayPending
  <2>6. Asked' BY <2>1, <2>2, <2>3, <2>4, <2>5 DEF Asked, Commanding
  <2>7. Announced' BY <2>1, <2>2, <2>3, <2>4 DEF Announced
  <2>8. Committed' BY <2>1, <2>2, <2>3, <2>4, <2>5 DEF Committed, Awaited
  <2> QED BY <2>6, <2>7, <2>8
<1>14. VolumeKept' 
  <2>1. ASSUME failures' = 0, excused' \cap {"volumeRace", "closeVolume", "newFormat"} = {}
        PROVE  /\ failures = 0 /\ excused \cap {"volumeRace", "closeVolume", "newFormat"} = {}
               /\ ~m_isOpen /\ stream' = "vol" /\ m_isOpen'
               /\ app \notin {"volCheck", "volQueue", "volCall", "volGet"}
    BY <1>3, <1>4, <2>1
  <2> QED BY <1>1, <2>1 DEF VolumeKept, Places, InCaps
<1> QED BY <1>5, <1>6, <1>7, <1>8, <1>9, <1>10, <1>11, <1>12, <1>13, <1>14 DEF IInv

\* A flush ends the EOS condition.
LEMMA FlushStep == ASSUME IInv, Flush PROVE IInv'
<1> USE Parts DEF Flush, Excuse, EventsLeft, client, playing, fields, vol, serverVars
<1>1. Places' /\ Contents' /\ EveryByteAccounted'
  BY DEF Places, Contents, EveryByteAccounted, Queued
<1>2. Flags' BY DEF Flags
<1>3. Numbers' BY DEF Numbers
<1>4. Control' BY DEF Control, AppPlaces, StreamPlaces, Excuses, Announcements
<1>5. Ordered' BY DEF Ordered
<1>6. Retrying' BY DEF Retrying, LoopFree, Places, Numbers
<1>7. EosOnce' BY DEF EosOnce, Places
<1>8. VolumeKept' BY DEF VolumeKept, Places, InCaps, Numbers
<1>9. Following' BY FollowingKept DEF Steady, InCaps, Numbers
<1> QED BY <1>1, <1>2, <1>3, <1>4, <1>5, <1>6, <1>7, <1>8, <1>9 DEF IInv

\* CAPS hands over the queued volume.
LEMMA CapsVolumeStep == ASSUME IInv, CapsVolume PROVE IInv'
<1> USE Parts DEF CapsVolume, LoopFree, Accepted, Refused, VolumeInFlight, Excuse, EventsLeft,
         client, playing, fields, vol, serverVars
<1>1. Flags' /\ Contents' /\ EveryByteAccounted'
  BY DEF Flags, Contents, EveryByteAccounted, Queued
<1>2. Numbers' BY DEF Numbers
<1>3. Control' BY DEF Control, AppPlaces, StreamPlaces, Excuses, Announcements
<1>4. Places' BY DEF Places, Control, InCaps
<1>5. Ordered' BY DEF Ordered
<1>6. Retrying' BY DEF Retrying, LoopFree, Places, Numbers
<1>7. EosOnce' BY DEF EosOnce, Places
<1>8. VolumeKept' BY DEF VolumeKept, Places, InCaps, Numbers
<1>9. Following' BY FollowingKept DEF Steady, InCaps, Numbers
<1> QED BY <1>1, <1>2, <1>3, <1>4, <1>5, <1>6, <1>7, <1>8, <1>9 DEF IInv

\* Its flag is cleared.
LEMMA CapsVolumeClearStep == ASSUME IInv, CapsVolumeClear PROVE IInv'
<1> USE Parts DEF CapsVolumeClear, VolumeInFlight, Excuse, client, playing, fields, serverVars,
         counts
<1>1. Contents' /\ EveryByteAccounted'
  BY DEF Contents, EveryByteAccounted, Queued
<1>2. Flags' BY DEF Flags
<1>3. Numbers' BY DEF Numbers
<1>4. Control' BY DEF Control, AppPlaces, StreamPlaces, Excuses, Announcements
<1>5. Places' BY DEF Places, Control, InCaps
<1>6. Ordered' BY DEF Ordered
<1>7. Retrying' BY DEF Retrying, LoopFree, Places, Numbers
<1>8. EosOnce' BY DEF EosOnce, Places
<1>9. VolumeKept' BY DEF VolumeKept, Places, InCaps, Numbers
<1>10. Following' BY FollowingKept DEF Steady, InCaps, Numbers
<1> QED BY <1>1, <1>2, <1>3, <1>4, <1>5, <1>6, <1>7, <1>8, <1>9, <1>10 DEF IInv

\* CAPS makes up for the delayed play.
LEMMA CapsPlayStep == ASSUME IInv, CapsPlay PROVE IInv'
<1> USE Parts DEF CapsPlay, LoopFree, DelayedPlay, Succeeds, Fails, Accepted, Refused, Announce,
         Excuse, EventsLeft, client, playing, fields, vol
<1>1. Flags' /\ Contents' /\ EveryByteAccounted'
  BY DEF Flags, Contents, EveryByteAccounted, Queued
<1>2. Numbers' BY DEF Numbers
<1>3. Control' BY DEF Control, AppPlaces, StreamPlaces, Excuses, Announcements
<1>4. Places' BY DEF Places, Control, InCaps
<1>5. Ordered' BY DEF Ordered
<1>6. Retrying' BY DEF Retrying, LoopFree, Places, Numbers
<1>7. EosOnce' 
  <2>1. notes' = notes \/ notes' = Append(notes, "PLAYING") OBVIOUS
  <2>2. /\ Among(notes', {"END_OF_STREAM"}) <=> Among(notes, {"END_OF_STREAM"})
        /\ Once(notes, {"END_OF_STREAM"}) => Once(notes', {"END_OF_STREAM"})
    <3>1. CASE notes' = notes BY <3>1
    <3>2. CASE notes' = Append(notes, "PLAYING") BY <3>2, NoteAdded DEF Control, Announcements
    <3> QED BY <2>1, <3>1, <3>2
  <2> QED BY <2>2 DEF EosOnce, Places
<1>8. Following'
  <2> SUFFICES ASSUME Steady' PROVE Asked' /\ Announced' /\ Committed' BY DEF Following
  <2>1. failures' = failures
    <3>1. failures' \in {failures, failures + 1} OBVIOUS
    <3> QED BY <3>1 DEF Steady, Numbers
  <2>2. Steady /\ app # "delay" BY <2>1 DEF Steady
  <2>3. Asked /\ Announced /\ Committed BY <2>2, Follows
  <2>4. UNCHANGED <<state, next, pending, m_isPlayingDelayed, m_isStateCommitNeeded, app, m_isOpen,
                    notify>>
    OBVIOUS
  <2>5. CASE ~m_isPlayingDelayed
    <3>1. server' = server /\ notes' = notes /\ stream' = "idle" BY <2>5
    <3>2. ~PlayPending /\ ~PlayPending' BY <2>4, <2>5 DEF PlayPending
    <3>3. Asked' BY <2>3, <2>4, <2>5, <3>1 DEF Asked
    <3>4. Announced' BY <2>3, <2>4, <3>1 DEF Announced
    <3>5. Committed' BY <2>3, <2>4, <3>1, <3>2 DEF Committed, Awaited
    <3> QED BY <3>3, <3>4, <3>5
  <2>6. CASE m_isPlayingDelayed
    <3>1. PlayPending /\ m_isOpen BY <2>3, <2>6 DEF Asked, Places, InCaps, Closing
    <3>2. server' = "PLAYING" /\ notes' = Append(notes, "PLAYING") /\ stream' = "playClear"
      <4>1. failures # failures + 1 BY DEF Numbers
      <4> QED BY <2>1, <2>6, <3>1, <4>1
    <3>3. /\ InTurn(notes') /\ Among(notes', {"PLAYING"}) /\ ~Among(notes', {"PAUSED"})
      BY <3>1, <3>2, NoteAdded, StatesAmong DEF PlayPending, Control, Announcements, States
    <3>4. pending = "PLAYING" /\ app \notin Commanding /\ notify.at = "idle" BY <3>1 DEF PlayPending
    <3>5. Asked' BY <2>3, <2>4, <2>6, <3>1, <3>2, <3>4 DEF Asked, Commanding
    <3>6. app \notin Closing BY <2>3, <3>4 DEF Asked
    <3>7. Announced' BY <2>4, <3>2, <3>3, <3>4, <3>6 DEF Announced, Closing, Void
    <3>8. Committed' BY <2>3, <2>4, <3>3, <3>4 DEF Committed, Awaited
    <3> QED BY <3>5, <3>8, <3>7
  <2> QED BY <2>5, <2>6
<1>9. VolumeKept' BY DEF VolumeKept, Places, InCaps, Numbers
<1> QED BY <1>1, <1>2, <1>3, <1>4, <1>5, <1>6, <1>7, <1>8, <1>9 DEF IInv

\* Its flag is cleared.
LEMMA CapsPlayClearStep == ASSUME IInv, CapsPlayClear PROVE IInv'
<1> USE Parts DEF CapsPlayClear, client, vol, serverVars, counts, fields
<1>1. Contents' /\ EveryByteAccounted'
  BY DEF Contents, EveryByteAccounted, Queued
<1>2. Flags' BY DEF Flags
<1>3. Numbers' BY DEF Numbers
<1>4. Control' BY DEF Control, AppPlaces, StreamPlaces, Excuses, Announcements
<1>5. Places' BY DEF Places, Control, InCaps
<1>6. Ordered' BY DEF Ordered
<1>7. Retrying' BY DEF Retrying, LoopFree, Places, Numbers
<1>8. EosOnce' BY DEF EosOnce, Places
<1>9. Following'
  <2> SUFFICES ASSUME Steady' PROVE Asked' /\ Announced' /\ Committed' BY DEF Following
  <2>1. Asked /\ Announced /\ Committed BY Follows DEF Steady
  <2>2. ~PlayPending /\ ~PlayPending' BY DEF PlayPending
  <2>3. Asked' BY <2>1 DEF Asked
  <2>4. Announced' BY <2>1 DEF Announced
  <2>5. Committed' BY <2>1, <2>2 DEF Committed, Awaited
  <2> QED BY <2>3, <2>4, <2>5
<1>10. VolumeKept' BY DEF VolumeKept, Places, InCaps, Numbers
<1> QED BY <1>1, <1>2, <1>3, <1>4, <1>5, <1>6, <1>7, <1>8, <1>9, <1>10 DEF IInv

\* READY -> PAUSED.
LEMMA ReadyToPausedStep == ASSUME IInv, ReadyToPaused PROVE IInv'
<1> USE Parts DEF ReadyToPaused, client, vol, serverVars, counts
<1>1. Numbers' /\ Contents' /\ EveryByteAccounted' /\ Ordered' /\ Retrying' /\ EosOnce' /\ VolumeKept'
  BY DEF Numbers, Contents, EveryByteAccounted, Queued, Ordered, Retrying, LoopFree, EosOnce,
    VolumeKept
<1>2. Flags' BY DEF Flags
<1>3. Control' BY DEF Control, SinkStates, Fields
<1>4. Places' BY DEF Places
<1>5. Following'
  <2> SUFFICES ASSUME Steady' PROVE Asked' /\ Announced' /\ Committed' BY DEF Following
  <2>1. Asked /\ Announced /\ Committed BY Follows DEF Steady
  <2>2. Void # "READY" /\ Void \notin States /\ Void # "PLAYING" /\ Void # "PAUSED"
    BY DEF Void, States
  <2>3. ~m_isPlayingDelayed BY <2>1, <2>2 DEF Asked, PlayPending
  <2>4. Asked' BY <2>1, <2>2, <2>3 DEF Asked, Commanding, Closing
  <2>5. Announced' BY <2>1, <2>2 DEF Announced
  <2>6. Committed' BY <2>1, <2>2 DEF Committed
  <2> QED BY <2>4, <2>5, <2>6
<1> QED BY <1>1, <1>2, <1>3, <1>4, <1>5 DEF IInv

\* PAUSED -> PLAYING: is there a player?
LEMMA PausedToPlayingStep == ASSUME IInv, PausedToPlaying PROVE IInv'
<1> USE Parts DEF PausedToPlaying, SetStates, CommitRace, LoopFree, CallsLeft, client, vol,
         serverVars, counts
<1>1. app = "idle" /\ app' \in {"play", "delay"} OBVIOUS
<1>2. Flags' /\ Contents' /\ EveryByteAccounted' BY DEF Flags, Contents, EveryByteAccounted, Queued
<1>3. Numbers' BY DEF Numbers
<1>4. Control' BY DEF Control, AppPlaces, Excuses, Fields
<1>5. Places' BY DEF Places
<1>6. Ordered' /\ Retrying' BY DEF Ordered, Retrying
<1>7. EosOnce' BY DEF EosOnce
<1>8. Following'
  <2> SUFFICES ASSUME Steady' PROVE Asked' /\ Announced' /\ Committed' BY DEF Following
  <2>1. Steady /\ notify.at # "write" BY DEF Steady
  <2>2. Asked /\ Announced /\ Committed BY <2>1, Follows
  <2>3. Void # "PLAYING" BY DEF Void
  <2>4. ~m_isPlayingDelayed BY <2>2, <2>3 DEF Asked, PlayPending
  <2>5. ~Among(notes, States) /\ ~Among(notes, {"PAUSED"}) /\ InTurn(notes)
    BY <2>2, StatesAmong DEF Announced, States
  <2>6. Asked' BY <2>2, <2>4, <2>5 DEF Asked, Commanding, Closing
  <2>7. Announced' BY <1>1, <2>1, <2>3, <2>5 DEF Announced
  <2>8. Committed' BY <1>1, <2>1 DEF Committed, Commanding
  <2> QED BY <2>6, <2>7, <2>8
<1>9. VolumeKept' BY <1>1 DEF VolumeKept
<1> QED BY <1>2, <1>3, <1>4, <1>5, <1>6, <1>7, <1>8, <1>9 DEF IInv

\* The play is delayed.
LEMMA DelayStep == ASSUME IInv, Delay PROVE IInv'
<1> USE Parts DEF Delay, client, vol, serverVars, counts, fields
<1>1. Numbers' /\ Contents' /\ EveryByteAccounted' /\ Ordered' /\ Retrying'
  BY DEF Numbers, Contents, EveryByteAccounted, Queued, Ordered, Retrying, LoopFree
<1>2. Flags' BY DEF Flags
<1>3. Control' BY DEF Control, AppPlaces, StreamPlaces, Excuses, Announcements
<1>4. Places' BY DEF Places, Control, InCaps
<1>5. EosOnce' BY DEF EosOnce, Places
<1>6. Following'
  <2> SUFFICES ASSUME Steady' PROVE Asked' /\ Announced' /\ Committed' BY DEF Following
  <2>1. Asked /\ Announced /\ Committed BY Follows DEF Steady
  <2>2. /\ ~m_isOpen /\ pending = "PLAYING" /\ ~Among(notes, States) /\ stream # "playClear"
        /\ server = "none" /\ notify.at = "idle"
    BY <2>1 DEF Asked, Places, Commanding
  <2>3. PlayPending' BY <2>2 DEF PlayPending, Commanding
  <2>4. Asked' BY <2>1, <2>2, <2>3 DEF Asked, Commanding, Closing
  <2>5. Announced' BY <2>1, <2>2 DEF Announced
  <2>6. Committed' BY <2>2, <2>3 DEF Committed, Awaited
  <2> QED BY <2>4, <2>5, <2>6
<1>7. VolumeKept' BY DEF VolumeKept, Places, InCaps, Numbers
<1> QED BY <1>1, <1>2, <1>3, <1>4, <1>5, <1>6, <1>7 DEF IInv

\* PLAYING -> PAUSED.
LEMMA PlayingToPausedStep == ASSUME IInv, PlayingToPaused PROVE IInv'
<1> USE Parts DEF PlayingToPaused, SetStates, CommitRace, CallsLeft, client, vol, serverVars, counts
<1>1. Flags' /\ Contents' /\ EveryByteAccounted' BY DEF Flags, Contents, EveryByteAccounted, Queued
<1>2. Numbers' BY DEF Numbers
<1>3. Control' BY DEF Control, AppPlaces, Excuses, Fields
<1>4. Places' BY DEF Places
<1>5. Ordered' /\ Retrying' BY DEF Ordered, Retrying, LoopFree
<1>6. EosOnce' BY DEF EosOnce
<1>7. Following'
  <2> SUFFICES ASSUME Steady' PROVE Asked' /\ Announced' /\ Committed' BY DEF Following
  <2>1. Steady /\ notify.at # "write" /\ ~m_isPlayingDelayed BY DEF Steady
  <2>2. Asked /\ Announced /\ Committed BY <2>1, Follows
  <2>3. pending = "PLAYING" \/ (pending = Void /\ state = "PLAYING") BY <2>2 DEF From, Asked
  <2>4. ~Among(notes, {"PAUSED"}) /\ InTurn(notes)
    BY <2>2, <2>3, StatesAmong DEF Announced, States
  <2>5. m_isOpen
    <3>1. CASE pending = Void BY <2>2, <2>3, <3>1 DEF Announced, Void
    <3>2. CASE pending = "PLAYING"
      <4>1. Among(notes, {pending})
        BY <2>1, <2>2, <3>2 DEF Committed, Awaited, PlayPending, Commanding, States
      <4> QED BY <4>1, NoNotes DEF Places
    <3> QED BY <2>3, <3>1, <3>2
  <2>6. Asked' BY <2>1, <2>2, <2>4 DEF Asked, Commanding, Closing
  <2>7. Announced' BY <2>4, <2>5 DEF Announced, Void
  <2>8. Committed' BY <2>1 DEF Committed, Commanding
  <2> QED BY <2>6, <2>7, <2>8
<1>8. VolumeKept' BY DEF VolumeKept
<1> QED BY <1>1, <1>2, <1>3, <1>4, <1>5, <1>6, <1>7, <1>8 DEF IInv

\* The change of state goes on asynchronously.
LEMMA AsyncStartStep == ASSUME IInv, AsyncStart PROVE IInv'
<1> USE Parts DEF AsyncStart, PostAsyncStart, Excuse, client, vol, serverVars, counts, fields
<1>1. Numbers' /\ Contents' /\ EveryByteAccounted' /\ Ordered' /\ Retrying'
  BY DEF Numbers, Contents, EveryByteAccounted, Queued, Ordered, Retrying, LoopFree
<1>2. Flags' BY DEF Flags
<1>3. Control' BY DEF Control, AppPlaces, StreamPlaces, Excuses, Announcements
<1>4. Places' BY DEF Places, Control, InCaps
<1>5. EosOnce' BY DEF EosOnce, Places
<1>6. Following'
  <2> SUFFICES ASSUME Steady' PROVE Asked' /\ Announced' /\ Committed' BY DEF Following
  <2>1. Steady /\ notify.at = "idle" BY DEF Steady
  <2>2. Asked /\ Announced /\ Committed BY <2>1, Follows
  <2>3. PlayPending => PlayPending' BY DEF PlayPending, Commanding
  <2>4. Asked' BY <2>2, <2>3 DEF Asked, Commanding, Closing
  <2>5. Announced' BY <2>2 DEF Announced
  <2>6. Committed' BY <2>1, <2>2, <2>3 DEF Committed, Awaited, Commanding
  <2> QED BY <2>4, <2>5, <2>6
<1>7. VolumeKept' BY DEF VolumeKept, Places, InCaps, Numbers
<1> QED BY <1>1, <1>2, <1>3, <1>4, <1>5, <1>6, <1>7 DEF IInv

\* PAUSED -> READY.
LEMMA PausedToReadyStep == ASSUME IInv, PausedToReady PROVE IInv'
<1> USE Parts DEF PausedToReady, SetStates, CommitRace, EventsLeft, client, vol, serverVars
<1>1. Flags' /\ Contents' /\ EveryByteAccounted' BY DEF Flags, Contents, EveryByteAccounted, Queued
<1>2. Numbers' BY DEF Numbers
<1>3. Control' BY DEF Control, AppPlaces, Excuses, Fields
<1>4. Places' BY DEF Places
<1>5. Ordered' /\ Retrying' BY DEF Ordered, Retrying, LoopFree
<1>6. EosOnce' BY DEF EosOnce
<1>7. Following'
  <2> SUFFICES ASSUME Steady' PROVE Asked' /\ Announced' /\ Committed' BY DEF Following
  <2>1. Steady /\ notify.at # "write" BY DEF Steady
  <2>2. Asked /\ Announced /\ Committed BY <2>1, Follows
  <2>3. pending = "PAUSED" \/ (pending = Void /\ state = "PAUSED") BY <2>2 DEF From, Asked
  <2>4. ~m_isPlayingDelayed BY <2>2, <2>3 DEF Asked, PlayPending, Void
  <2>5. Asked' BY <2>2, <2>4 DEF Asked, Commanding, Closing
  <2>6. Announced' BY <2>2 DEF Announced, Void
  <2>7. Committed' BY <2>1 DEF Committed, States
  <2> QED BY <2>5, <2>6, <2>7
<1>8. VolumeKept' BY DEF VolumeKept
<1> QED BY <1>1, <1>2, <1>3, <1>4, <1>5, <1>6, <1>7, <1>8 DEF IInv

\* close().
LEMMA CloseStep == ASSUME IInv, Close PROVE IInv'
<1> USE Parts DEF Close, LoopFree, playing, fields, vol, counts
<1>1. Flags' BY DEF Flags
<1>2. Numbers' BY DEF Numbers
<1>3. Control' BY DEF Control, AppPlaces, Excuses
<1>4. Places' BY DEF Places
<1>5. Contents' /\ EveryByteAccounted' BY DEF Contents, EveryByteAccounted, Queued
<1>6. Ordered' BY DEF Ordered
<1>7. Retrying' BY DEF Retrying
<1>8. EosOnce' BY NoNotes DEF EosOnce
<1>9. Following'
  <2> SUFFICES ASSUME Steady' PROVE Asked' /\ Announced' /\ Committed' BY DEF Following
  <2>1. Steady BY DEF Steady
  <2>2. Asked BY <2>1, Follows
  <2>3. /\ pending = "READY" /\ next = "READY" /\ ~m_isPlayingDelayed /\ stream # "playClear"
    BY <2>2 DEF Asked, Closing
  <2>4. Asked' BY <2>3 DEF Asked, Commanding, Closing
  <2>5. Announced' BY <2>3, NoNotes DEF Announced, Void
  <2>6. Committed' BY <2>3 DEF Committed, States
  <2> QED BY <2>4, <2>5, <2>6
<1>10. VolumeKept'
  <2>1. ASSUME failures' = 0, excused' \cap {"volumeRace", "closeVolume", "newFormat"} = {}
        PROVE  /\ failures = 0 /\ excused \cap {"volumeRace", "closeVolume", "newFormat"} = {}
               /\ m_isOpen => wantedVolume = 0
    <3>1. wantedVolume > 0 \/ wantedVolume = 0 BY DEF Numbers
    <3>2. m_isOpen /\ wantedVolume > 0 => "closeVolume" \in excused' OBVIOUS
    <3> QED BY <2>1, <3>1, <3>2
  <2> QED BY <2>1 DEF VolumeKept
<1> QED BY <1>1, <1>2, <1>3, <1>4, <1>5, <1>6, <1>7, <1>8, <1>9, <1>10 DEF IInv

\* The pad is deactivated.
LEMMA DeactivatePadStep == ASSUME IInv, DeactivatePad PROVE IInv'
<1> USE Parts DEF DeactivatePad, client, fields, vol, serverVars, counts
<1>1. Flags' BY DEF Flags
<1>2. Numbers' /\ Contents' /\ EveryByteAccounted'
  BY DEF Numbers, Contents, EveryByteAccounted, Queued
<1>3. Control' BY DEF Control, AppPlaces
<1>4. Places' BY DEF Places
<1>5. Ordered' /\ Retrying' BY DEF Ordered, Retrying, LoopFree
<1>6. EosOnce' BY DEF EosOnce
<1>7. Following'
  <2> SUFFICES ASSUME Steady' PROVE Asked' /\ Announced' /\ Committed' BY DEF Following
  <2>1. Asked /\ Announced /\ Committed BY Follows DEF Steady
  <2>2. /\ pending = "READY" /\ next = "READY" /\ ~m_isPlayingDelayed /\ stream # "playClear"
    BY <2>1 DEF Asked, Closing
  <2>3. Asked' BY <2>2 DEF Asked, Commanding, Closing
  <2>4. Announced' BY <2>1, <2>2 DEF Announced, Void
  <2>5. Committed' BY <2>1, <2>2 DEF Committed, States
  <2> QED BY <2>3, <2>4, <2>5
<1>8. VolumeKept' BY DEF VolumeKept
<1> QED BY <1>1, <1>2, <1>3, <1>4, <1>5, <1>6, <1>7, <1>8 DEF IInv

\* The streaming thread has left the pad.
LEMMA PadDeactivatedStep == ASSUME IInv, PadDeactivated PROVE IInv'
<1> USE Parts DEF PadDeactivated, Arrive, client, vol, serverVars
<1>1. Flags' BY DEF Flags
<1>2. Numbers' /\ Contents' /\ EveryByteAccounted'
  BY DEF Numbers, Contents, EveryByteAccounted, Queued
<1>3. Control' BY DEF Control, AppPlaces, SinkStates, Fields
<1>4. Places' BY DEF Places, InCaps
<1>5. Ordered' /\ Retrying' BY DEF Ordered, Retrying, LoopFree
<1>6. EosOnce' BY DEF EosOnce
<1>7. Following'
  <2> SUFFICES ASSUME Steady' PROVE Asked' /\ Announced' /\ Committed' BY DEF Following
  <2>1. Asked /\ Announced /\ Committed BY Follows DEF Steady
  <2>2. pending = "READY" /\ ~m_isPlayingDelayed BY <2>1 DEF Asked, Closing
  <2>3. state' = "READY" /\ next' = Void /\ pending' = Void BY <2>2 DEF Void
  <2>4. Void # "READY" /\ Void # "PLAYING" /\ Void # "PAUSED" /\ Void \notin States
    BY DEF Void, States
  <2>5. Asked' BY <2>2, <2>3, <2>4 DEF Asked, Commanding, Closing
  <2>6. Announced' BY <2>1, <2>3, <2>4 DEF Announced
  <2>7. Committed' BY <2>1, <2>2, <2>3, <2>4 DEF Committed, States
  <2> QED BY <2>5, <2>6, <2>7
<1>8. VolumeKept' BY DEF VolumeKept
<1> QED BY <1>1, <1>2, <1>3, <1>4, <1>5, <1>6, <1>7, <1>8 DEF IInv

\* The volume is stored.
LEMMA SetVolumeStep == ASSUME IInv, SetVolume PROVE IInv'
<1> USE Parts DEF SetVolume, CallsLeft, Excuse, client, playing, fields, vol, serverVars, counts
<1>1. Flags' /\ Contents' /\ EveryByteAccounted'
  BY DEF Flags, Contents, EveryByteAccounted, Queued
<1>2. Numbers' BY Constants DEF Numbers
<1>3. Control' BY DEF Control, AppPlaces, StreamPlaces, Excuses, Announcements
<1>4. Places' BY DEF Places, Control, InCaps
<1>5. Ordered' BY DEF Ordered
<1>6. Retrying' BY DEF Retrying, LoopFree, Places, Numbers
<1>7. EosOnce' BY DEF EosOnce, Places
<1>8. VolumeKept' BY DEF VolumeKept, Places, InCaps, Numbers
<1>9. Following' BY FollowingKept DEF Steady, InCaps, Numbers
<1> QED BY <1>1, <1>2, <1>3, <1>4, <1>5, <1>6, <1>7, <1>8, <1>9 DEF IInv

\* Is there a player?
LEMMA VolumeCheckStep == ASSUME IInv, VolumeCheck PROVE IInv'
<1> USE Parts DEF VolumeCheck, LoopFree, client, playing, fields, vol, serverVars, counts
<1>1. Flags' /\ Numbers' /\ Contents' /\ EveryByteAccounted' /\ Ordered' /\ Retrying'
  BY DEF Flags, Numbers, Contents, EveryByteAccounted, Queued, Ordered, Retrying, LoopFree
<1>2. Control' BY DEF Control, AppPlaces, StreamPlaces, Excuses, Announcements
<1>3. Places' BY DEF Places, Control, InCaps
<1>4. EosOnce' BY DEF EosOnce, Places
<1>5. VolumeKept' BY DEF VolumeKept, Places, InCaps, Numbers
<1>6. Following' BY FollowingKept DEF Steady, InCaps, Numbers
<1> QED BY <1>1, <1>2, <1>3, <1>4, <1>5, <1>6 DEF IInv

\* The volume is queued.
LEMMA VolumeQueueStep == ASSUME IInv, VolumeQueue PROVE IInv'
<1> USE Parts DEF VolumeQueue, EnqueueVolume, client, playing, fields, serverVars, counts
<1>1. Numbers' /\ Contents' /\ EveryByteAccounted' /\ Ordered' /\ Retrying'
  BY DEF Numbers, Contents, EveryByteAccounted, Queued, Ordered, Retrying, LoopFree
<1>2. Flags' BY DEF Flags
<1>3. Control' BY DEF Control, AppPlaces, StreamPlaces, Excuses, Announcements
<1>4. Places' BY DEF Places, Control, InCaps
<1>5. EosOnce' BY DEF EosOnce, Places
<1>6. VolumeKept' BY DEF VolumeKept, Places, InCaps, Numbers
<1>7. Following' BY FollowingKept DEF Steady, InCaps, Numbers
<1> QED BY <1>1, <1>2, <1>3, <1>4, <1>5, <1>6, <1>7 DEF IInv

\* The volume goes to the player.
LEMMA VolumeCallStep == ASSUME IInv, VolumeCall PROVE IInv'
<1> USE Parts DEF VolumeCall, LoopFree, Accepted, Refused, EventsLeft, client, playing, fields,
         serverVars
<1>1. Flags' /\ Contents' /\ EveryByteAccounted' /\ Ordered' /\ Retrying'
  BY DEF Flags, Contents, EveryByteAccounted, Queued, Ordered, Retrying, LoopFree
<1>2. Numbers' BY DEF Numbers
<1>3. Control' BY DEF Control, AppPlaces, StreamPlaces, Excuses, Announcements
<1>4. Places' BY DEF Places, Control, InCaps
<1>5. EosOnce' BY DEF EosOnce, Places
<1>6. VolumeKept' BY DEF VolumeKept, Places, InCaps, Numbers
<1>7. Following' BY FollowingKept DEF Steady, InCaps, Numbers
<1> QED BY <1>1, <1>2, <1>3, <1>4, <1>5, <1>6, <1>7 DEF IInv

\* The volume is asked for.
LEMMA GetVolumeStep == ASSUME IInv, GetVolume PROVE IInv'
<1> USE Parts DEF GetVolume, LoopFree, client, playing, fields, vol, serverVars, counts
<1>1. Flags' /\ Numbers' /\ Contents' /\ EveryByteAccounted' /\ Ordered' /\ Retrying'
  BY DEF Flags, Numbers, Contents, EveryByteAccounted, Queued, Ordered, Retrying, LoopFree
<1>2. Control' BY DEF Control, AppPlaces, StreamPlaces, Excuses, Announcements
<1>3. Places' BY DEF Places, Control, InCaps
<1>4. EosOnce' BY DEF EosOnce, Places
<1>5. VolumeKept' BY DEF VolumeKept, Places, InCaps, Numbers
<1>6. Following' BY FollowingKept DEF Steady, InCaps, Numbers
<1> QED BY <1>1, <1>2, <1>3, <1>4, <1>5, <1>6 DEF IInv

\* The player tells it.
LEMMA VolumeGetStep == ASSUME IInv, VolumeGet PROVE IInv'
<1> USE Parts DEF VolumeGet, LoopFree, Accepted, Refused, Excuse, EventsLeft, client, playing,
         fields, vol, serverVars
<1>1. Flags' /\ Contents' /\ EveryByteAccounted'
  BY DEF Flags, Contents, EveryByteAccounted, Queued
<1>2. Numbers' BY DEF Numbers
<1>3. Control' BY DEF Control, AppPlaces, StreamPlaces, Excuses, Announcements
<1>4. Places' BY DEF Places, Control, InCaps
<1>5. Ordered' BY DEF Ordered
<1>6. Retrying' BY DEF Retrying, LoopFree, Places, Numbers
<1>7. EosOnce' BY DEF EosOnce, Places
<1>8. VolumeKept' BY DEF VolumeKept, Places, InCaps, Numbers
<1>9. Following' BY FollowingKept DEF Steady, InCaps, Numbers
<1> QED BY <1>1, <1>2, <1>3, <1>4, <1>5, <1>6, <1>7, <1>8, <1>9 DEF IInv

\* The volume call without a player.
LEMMA VolumeWithoutPlayerStep == ASSUME IInv, VolumeWithoutPlayer PROVE IInv'
<1> USE Parts DEF VolumeWithoutPlayer, LoopFree, playing, fields, vol, serverVars, counts
<1>1. Flags' /\ Numbers' /\ Contents' /\ EveryByteAccounted' /\ Ordered' /\ VolumeKept'
  BY DEF Flags, Numbers, Contents, EveryByteAccounted, Queued, Ordered, VolumeKept
<1>2. Control' BY DEF Control, AppPlaces, StreamPlaces, Excuses, Announcements
<1>3. Places' BY DEF Places, Control, InCaps
<1>4. Retrying' BY DEF Retrying, LoopFree, Places, Numbers
<1>5. EosOnce' BY DEF EosOnce, Places
<1>6. Following' BY FollowingKept DEF Steady, InCaps, Numbers
<1> QED BY <1>1, <1>2, <1>3, <1>4, <1>5, <1>6 DEF IInv

\* The server plays a frame.
LEMMA ConsumeStep == ASSUME IInv, Consume PROVE IInv'
<1> USE Parts DEF Consume, client, playing, fields, vol, counts
<1>1. /\ Flags' /\ Control' /\ Places' /\ Contents' /\ EveryByteAccounted' /\ Ordered'
      /\ Retrying' /\ EosOnce' /\ VolumeKept'
  BY DEF Flags, Control, Places, Contents, EveryByteAccounted, Queued, Ordered, Retrying,
    LoopFree, EosOnce, VolumeKept
<1>2. Numbers' BY Constants DEF Numbers
<1>3. Following' BY FollowingKept DEF Steady, InCaps, Numbers
<1> QED BY <1>1, <1>2, <1>3 DEF IInv

\* The server has played everything.
LEMMA EndsStep == ASSUME IInv, Ends PROVE IInv'
<1> USE Parts DEF Ends, client, playing, fields, vol, counts
<1>1. Numbers' /\ Contents' /\ EveryByteAccounted' /\ Ordered' /\ Retrying' /\ VolumeKept'
  BY DEF Numbers, Contents, EveryByteAccounted, Queued, Ordered, Retrying, LoopFree, VolumeKept
<1>2. Flags' BY DEF Flags
<1>3. Control' BY DEF Control, AppPlaces, StreamPlaces, Excuses, Announcements
<1>4. Places' BY DEF Places, Control, InCaps
<1>5. EosOnce' 
  <2>1. /\ Among(notes', {"END_OF_STREAM"})
        /\ ~Among(notes, {"END_OF_STREAM"}) => Once(notes', {"END_OF_STREAM"})
    BY NoteAdded DEF Control, Announcements
  <2> QED BY <2>1 DEF EosOnce, Places
<1>6. Following'
  <2> SUFFICES ASSUME Steady' PROVE Asked' /\ Announced' /\ Committed' BY DEF Following
  <2>1. Asked /\ Announced /\ Committed BY Follows DEF Steady
  <2>2. /\ Among(notes', States) <=> Among(notes, States)
        /\ \A s \in States : Among(notes', {s}) <=> Among(notes, {s})
        /\ InTurn(notes) => InTurn(notes')
    BY NoteAdded DEF Control, Announcements, States
  <2>3. PlayPending' <=> PlayPending BY <2>2 DEF PlayPending
  <2>4. Asked' BY <2>1, <2>2, <2>3 DEF Asked, States
  <2>5. Announced' BY <2>1, <2>2 DEF Announced, States
  <2>6. Committed' BY <2>1, <2>2, <2>3 DEF Committed, Awaited
  <2> QED BY <2>4, <2>5, <2>6
<1> QED BY <1>1, <1>2, <1>3, <1>4, <1>5, <1>6 DEF IInv

\* A buffer in the place of the first one.
LEMMA HeadReplaced ==
    ASSUME NEW S, NEW q \in Seq(S), q # <<>>, NEW r \in S
    PROVE  /\ Len(<<r>> \o Tail(q)) = Len(q) /\ (<<r>> \o Tail(q))[1] = r
           /\ \A i \in 2..Len(q) : (<<r>> \o Tail(q))[i] = q[i]
           /\ Tail(<<r>> \o Tail(q)) = Tail(q)
<1> DEFINE u == Tail(q)
           d == <<r>>
           t == d \o u
<1>1. /\ u \in Seq(S) /\ Len(u) = Len(q) - 1 /\ Len(q) \in Nat \ {0}
      /\ \A i \in 1..(Len(q) - 1) : u[i] = q[i + 1]
  BY TailOf
<1>2. d \in Seq(S) /\ Len(d) = 1 /\ d[1] = r OBVIOUS
<1> HIDE DEF u, d
<1>3. /\ t \in Seq(S) /\ Len(t) = Len(d) + Len(u)
      /\ \A j \in 1..Len(d) : t[j] = d[j]
      /\ \A j \in 1..Len(u) : t[Len(d) + j] = u[j]
  <2>1. d \in Seq(S) /\ u \in Seq(S) BY <1>1, <1>2
  <2>2. /\ d \o u \in Seq(S) /\ Len(d \o u) = Len(d) + Len(u)
        /\ \A j \in 1..Len(d) : (d \o u)[j] = d[j]
        /\ \A j \in 1..Len(u) : (d \o u)[Len(d) + j] = u[j]
    BY ONLY <2>1, Concatenation
  <2> QED BY <2>2
<1> HIDE DEF t
<1>4. Len(t) = Len(q) /\ t[1] = r BY <1>1, <1>2, <1>3
<1>5. \A j \in 1..(Len(q) - 1) : t[j + 1] = q[j + 1] /\ t[j + 1] = u[j]
  <2>1. ASSUME NEW j \in 1..(Len(q) - 1) PROVE t[j + 1] = q[j + 1] /\ t[j + 1] = u[j]
    <3>1. j \in 1..Len(u) /\ Len(d) + j = j + 1 BY <1>1, <1>2
    <3>2. t[Len(d) + j] = u[j] /\ u[j] = q[j + 1] BY <1>1, <1>3, <3>1
    <3> QED BY <3>1, <3>2
  <2> QED BY <2>1
<1>6. ASSUME NEW i \in 2..Len(q) PROVE t[i] = q[i]
  <2>1. i - 1 \in 1..(Len(q) - 1) /\ (i - 1) + 1 = i BY <1>1
  <2> QED BY <1>5, <2>1
<1>7. Tail(t) = u
  <2>1. t # <<>> BY <1>1, <1>4
  <2>2. /\ Tail(t) \in Seq(S) /\ Len(Tail(t)) = Len(t) - 1
        /\ \A i \in 1..(Len(t) - 1) : Tail(t)[i] = t[i + 1]
    BY <1>3, <2>1, TailOf
  <2>3. Len(Tail(t)) = Len(u) /\ \A i \in 1..Len(u) : Tail(t)[i] = u[i] BY <1>1, <1>4, <1>5, <2>2
  <2>4. ASSUME NEW x \in Seq(S), NEW y \in Seq(S), Len(x) = Len(y), \A i \in 1..Len(y) : x[i] = y[i]
        PROVE  x = y
    BY <2>4
  <2> QED BY <1>1, <2>2, <2>3, <2>4
<1> QED BY <1>4, <1>6, <1>7 DEF t, u, d

LEMMA FrontOfBuffer ==
    ASSUME NEW b \in Seq(Nat), NEW n \in 0..Len(b)
    PROVE  /\ SubSeq(b, 1, n) \in Seq(Nat) /\ Len(SubSeq(b, 1, n)) = n /\ n \in Nat
           /\ \A j \in 1..n : SubSeq(b, 1, n)[j] = b[j]
<1>1. Len(b) \in Nat /\ n \in Nat OBVIOUS
<1> QED BY <1>1

LEMMA SetOfConcatenation ==
    ASSUME NEW a \in Seq(Nat), NEW b \in Seq(Nat)
    PROVE  ToSet(a \o b) = ToSet(a) \cup ToSet(b)
<1> DEFINE c == a \o b
<1>1. PICK m \in Nat, n \in Nat : m = Len(a) /\ n = Len(b) OBVIOUS
<1>2. /\ c \in Seq(Nat) /\ Len(c) = m + n
      /\ \A j \in 1..m : c[j] = a[j]
      /\ \A j \in 1..n : c[m + j] = b[j]
  BY <1>1, Concatenation
<1> HIDE DEF c
<1>3. DOMAIN c = 1..(m + n) /\ DOMAIN a = 1..m /\ DOMAIN b = 1..n BY <1>1, <1>2
<1>4. ASSUME NEW j \in 1..(m + n) PROVE c[j] \in ToSet(a) \cup ToSet(b)
  <2>1. CASE j \in 1..m BY <1>2, <1>3, <2>1 DEF ToSet
  <2>2. CASE j \notin 1..m
    <3>1. j - m \in 1..n /\ j = m + (j - m) BY <2>2, OneOfTwo
    <3>2. c[j] = b[j - m] BY <1>2, <3>1
    <3> QED BY <1>3, <3>1, <3>2 DEF ToSet
  <2> QED BY <2>1, <2>2
<1>5. ASSUME NEW j \in 1..m PROVE a[j] \in ToSet(c)
  <2>1. j \in 1..(m + n) BY OneOfTwo
  <2> QED BY <1>2, <1>3, <2>1 DEF ToSet
<1>6. ASSUME NEW j \in 1..n PROVE b[j] \in ToSet(c)
  <2>1. m + j \in 1..(m + n) BY OneOfTwo
  <2> QED BY <1>2, <1>3, <2>1 DEF ToSet
<1> QED BY <1>3, <1>4, <1>5, <1>6 DEF ToSet, c

\* Consecutive numbers after smaller ones.
LEMMA IncreasingConcat ==
    ASSUME NEW w \in Seq(Nat), NEW s \in Seq(Nat), NEW x \in Nat, Increasing(w),
           \A i \in 1..Len(w) : w[i] < x,
           \A j \in 1..Len(s) : s[j] = x + j - 1
    PROVE  Increasing(w \o s) /\ \A i \in 1..Len(w \o s) : (w \o s)[i] < x + Len(s)
<1> DEFINE t == w \o s
<1>1. PICK m \in Nat, n \in Nat : m = Len(w) /\ n = Len(s) OBVIOUS
<1>2. /\ t \in Seq(Nat) /\ Len(t) = m + n
      /\ \A j \in 1..m : t[j] = w[j]
      /\ \A j \in 1..n : t[m + j] = s[j]
  BY <1>1, Concatenation
<1> HIDE DEF t
<1>3. ASSUME NEW j \in 1..m PROVE t[j] \in Nat /\ t[j] < x BY <1>1, <1>2
<1>4. ASSUME NEW j \in 1..n PROVE t[m + j] = x + j - 1 BY <1>1, <1>2
<1>5. ASSUME NEW i \in 1..(m + n) PROVE t[i] < x + n
  <2>1. CASE i \in 1..m BY <1>3, <2>1
  <2>2. CASE i \notin 1..m
    <3>1. i - m \in 1..n /\ m + (i - m) = i BY <2>2, OneOfTwo
    <3>2. t[m + (i - m)] = x + (i - m) - 1 BY <1>4, <3>1
    <3> QED BY <3>1, <3>2
  <2> QED BY <2>1, <2>2
<1>6. ASSUME NEW i \in 1..((m + n) - 1) PROVE t[i] < t[i + 1]
  <2>1. CASE i + 1 \in 1..m
    <3>1. i \in 1..(Len(w) - 1) /\ i \in 1..m BY <1>1, <2>1
    <3>2. w[i] < w[i + 1] BY <3>1 DEF Increasing
    <3> QED BY <1>2, <2>1, <3>1, <3>2
  <2>2. CASE i = m
    <3>1. 1 \in 1..n /\ m \in 1..m BY <2>2
    <3>2. t[m + 1] = x + 1 - 1 /\ t[m] \in Nat /\ t[m] < x BY <1>3, <1>4, <3>1
    <3> QED BY <2>2, <3>2
  <2>3. CASE i > m
    <3>1. i - m \in 1..n /\ i - m + 1 \in 1..n /\ m + (i - m) = i /\ m + (i - m + 1) = i + 1 BY <2>3
    <3>2. t[i] = x + (i - m) - 1 /\ t[i + 1] = x + (i - m + 1) - 1 BY <1>4, <3>1
    <3> QED BY <3>1, <3>2
  <2> QED BY <2>1, <2>2, <2>3
<1>7. Increasing(t) BY <1>2, <1>6 DEF Increasing
<1> QED BY <1>1, <1>2, <1>5, <1>7 DEF t

\* The queue after a write: what was written is gone, unless it is a rest
\* that was left whole, and nothing else is.
LEMMA QueueAfterWrite ==
    ASSUME IInv, WriteBuffer
    PROVE  \E b, w, n :
           /\ b = m_dataBuffers[1] /\ w = FramesToWrite(Len(b)) /\ n = w * FrameSize
           /\ m_dataBuffers # <<>> /\ b \in Seq(Nat) /\ n \in 0..Len(b) /\ w \in Nat /\ w <= room
           /\ \A j \in 1..Len(b) : b[j] = b[1] + j - 1 /\ b[j] \in 1..fed
           /\ written' = written \o SubSeq(b, 1, n) /\ room' = room - w
           /\ InSequence(m_dataBuffers', fed) /\ Len(m_dataBuffers') <= Len(m_dataBuffers)
           /\ Bytes(m_dataBuffers) = ToSet(SubSeq(b, 1, n)) \cup Bytes(m_dataBuffers')
           /\ "partial" \notin excused =>
                /\ \A i \in 1..Len(m_dataBuffers') : WholeFrames(Len(m_dataBuffers'[i]))
                /\ m_dataBuffers' # <<>> => m_dataBuffers'[1][1] = b[1] + n
           /\ freed \subseteq freed' /\ freed' \subseteq freed \cup Bytes(m_dataBuffers)
<1>1. PICK b, w, n, r : /\ b = m_dataBuffers[1] /\ w = FramesToWrite(Len(b)) /\ n = w * FrameSize
                        /\ r = m_dataBuffers'
  OBVIOUS
<1> USE <1>1
<1> DEFINE q == m_dataBuffers
           L == Len(b)
           left == LeftoverData(L)
           rest == Resize(b, n, left)
<1>2. q # <<>> /\ InSequence(q, fed) /\ q \in Seq(Seq(Nat)) /\ Len(q) \in Nat \ {0}
  BY Parts DEF WriteBuffer, Places, Contents, InSequence
<1>3. b = Head(q) /\ b \in Seq(Nat) /\ L \in Nat \ {0} BY <1>2 DEF InSequence
<1>4. \A j \in 1..L : b[j] = b[1] + j - 1 /\ b[j] \in 1..fed
  <2>1. 1 \in 1..Len(q) /\ b = q[1] BY <1>2
  <2> QED BY <1>2, <2>1 DEF InSequence
<1>5. L <= MaxBytes
  <2>1. b[L] = b[1] + L - 1 /\ b[L] \in 1..fed /\ b[1] \in 1..fed BY <1>3, <1>4
  <2>2. fed \in Nat /\ fed <= MaxBytes /\ MaxBytes \in Nat BY Parts, Constants DEF Numbers
  <2> QED BY <1>3, <2>1, <2>2, SMTT(30)
<1>6. room \in 0..MaxRoom BY Parts DEF Numbers
<1>7. /\ w \in Nat /\ w <= room /\ n \in 0..L
      /\ n < L => left = L - n \/ (left \in Nat /\ n + left > L)
      /\ WholeFrames(L) /\ n < L => left = L - n /\ WholeFrames(L - n)
  BY <1>3, <1>5, <1>6, WrittenAndLeft
<1>8. /\ written' = written \o SubSeq(b, 1, n) /\ room' = room - w
      /\ n < L => KeepLeftover(b)
      /\ ~(n < L) => r = Tail(q) /\ freed' = freed
  BY <1>3 DEF WriteBuffer
<1>9. "partial" \notin excused => \A i \in 1..Len(q) : WholeFrames(Len(q[i])) BY Parts DEF Ordered
<1> DEFINE Goal == /\ InSequence(r, fed) /\ Len(r) <= Len(q)
                   /\ Bytes(q) = ToSet(SubSeq(b, 1, n)) \cup Bytes(r)
                   /\ "partial" \notin excused =>
                        /\ \A i \in 1..Len(r) : WholeFrames(Len(r[i]))
                        /\ r # <<>> => r[1][1] = b[1] + n
                   /\ freed \subseteq freed' /\ freed' \subseteq freed \cup Bytes(q)
<1>10. ASSUME ~(n < L) PROVE Goal
  <2>1. r = Tail(q) /\ n = L /\ freed' = freed BY <1>3, <1>7, <1>8, <1>10
  <2>2. fed \in Nat BY Parts, Constants DEF Numbers
  <2>3. /\ InSequence(Tail(q), fed) /\ Bytes(q) = ToSet(b) \cup Bytes(Tail(q))
        /\ Tail(q) # <<>> => Tail(q)[1][1] = b[1] + L
    BY <1>2, <1>3, <2>2, InSequenceTail
  <2>4. SubSeq(b, 1, L) = b BY <1>3
  <2>5. /\ Len(Tail(q)) = Len(q) - 1
        /\ \A i \in 1..(Len(q) - 1) : Tail(q)[i] = q[i + 1] /\ i + 1 \in 1..Len(q)
    BY <1>2, TailOf
  <2>6. "partial" \notin excused => \A i \in 1..Len(Tail(q)) : WholeFrames(Len(Tail(q)[i]))
    BY <1>9, <2>5
  <2>7. Len(Tail(q)) <= Len(q) BY <1>2, <2>5
  <2> QED BY <2>1, <2>3, <2>4, <2>6, <2>7
<1>11. ASSUME n < L PROVE Goal
  <2>1. PICK k \in {0, n} : /\ rest = SubSeq(b, k + 1, L)
                            /\ WholeFrames(L) => k = n
    <3>1. CASE left = L - n
      <4>1. n + left = L BY <1>3, <1>7, <3>1
      <4>2. rest = SubSeq(b, n + 1, L) BY <4>1, SMTT(30) DEF Resize
      <4> QED BY <4>2
    <3>2. CASE left # L - n
      <4>1. ~(n + left <= L) BY <1>3, <1>7, <1>11, <3>2
      <4>2. rest = b BY <4>1 DEF Resize
      <4>3. SubSeq(b, 0 + 1, L) = b BY <1>3
      <4> QED BY <1>7, <1>11, <3>2, <4>2, <4>3
    <3> QED BY <3>1, <3>2
  <2>2. k \in 0..(L - 1) /\ k \in Nat BY <1>3, <1>7, <1>11
  <2>3. rest \in Seq(Nat) /\ Len(rest) = L - k BY <1>3, <2>1, <2>2, RestOfBuffer
  <2> DEFINE t == <<rest>> \o Tail(q)
  <2>4. fed \in Nat BY Parts, Constants DEF Numbers
  <2> HIDE DEF rest
  <2>5. /\ InSequence(t, fed)
        /\ Bytes(q) = ToSet(SubSeq(b, 1, k)) \cup Bytes(t)
        /\ rest[1] = b[1] + k
    <3>1. b = q[1] OBVIOUS
    <3>2. k \in 0..(Len(q[1]) - 1) /\ rest = SubSeq(q[1], k + 1, Len(q[1])) BY <2>1, <2>2, <3>1
    <3> HIDE DEF q
    <3> QED BY ONLY <1>2, <2>4, <3>1, <3>2, InSequenceRest
  <2>6. /\ Len(t) = Len(q) /\ t[1] = rest /\ \A i \in 2..Len(q) : t[i] = q[i]
        /\ Tail(t) = Tail(q)
    <3>1. q \in Seq(Seq(Nat)) /\ q # <<>> /\ rest \in Seq(Nat) BY <1>2, <2>3
    <3> HIDE DEF q
    <3> QED BY ONLY <3>1, HeadReplaced, SMTT(30)
  <2>7. Bytes(q) = ToSet(SubSeq(b, 1, n)) \cup Bytes(t)
    <3>1. CASE k = n BY <2>5, <3>1
    <3>2. CASE k # n
      <4>1. ToSet(b) = ToSet(SubSeq(b, 1, n)) \cup ToSet(SubSeq(b, n + 1, L))
        <5>1. n \in 0..(L - 1) BY <1>3, <1>7, <1>11
        <5> QED BY <1>3, <5>1, RestOfBuffer
      <4>2. ToSet(b) \subseteq Bytes(q)
        <5>1. 1 \in DOMAIN q BY <1>2
        <5> QED BY <5>1 DEF Bytes
      <4>3. k = 0 BY <2>1, <3>2
      <4>4. ToSet(SubSeq(b, 1, 0)) = {} BY <1>3 DEF ToSet
      <4> QED BY <2>5, <4>1, <4>2, <4>3, <4>4
    <3> QED BY <3>1, <3>2
  <2>8. KeepLeftover(b) BY <1>8, <1>11
  <2>9. CASE left \div FrameSize = 0 /\ Len(q) > 1
    <3>1. /\ r = <<rest \o q[2]>> \o Tail(Tail(q))
          /\ freed' = freed \cup ToSet(rest) \cup ToSet(q[2])
      BY <2>8, <2>9 DEF KeepLeftover, rest
    <3>2. 2 \in 2..Len(q) /\ Len(t) > 1 BY <1>2, <2>6, <2>9
    <3>3. r = <<t[1] \o t[2]>> \o Tail(Tail(t)) BY <2>6, <3>1, <3>2
    <3> HIDE DEF t
    <3>4. InSequence(r, fed) /\ Bytes(r) = Bytes(t) BY <2>4, <2>5, <3>2, <3>3, InSequenceJoin
    <3>5. Len(r) <= Len(q)
      <4>1. Tail(q) \in Seq(Seq(Nat)) /\ Len(Tail(q)) = Len(q) - 1 BY <1>2, TailOf
      <4>2. Tail(q) # <<>>
        <5>1. \A i \in Nat : i > 1 => i - 1 # 0 OBVIOUS
        <5>2. Len(q) - 1 # 0 BY <1>2, <2>9, <5>1
        <5>3. ASSUME NEW u, Len(u) # 0 PROVE u # <<>> BY <5>3
        <5> QED BY <4>1, <5>2, <5>3
      <4>3. Tail(Tail(q)) \in Seq(Seq(Nat)) /\ Len(Tail(Tail(q))) = Len(q) - 2
        BY <1>2, <4>1, <4>2, TailOf
      <4>4. q[2] \in Seq(Nat) BY <1>2, <2>9
      <4>5. rest \o q[2] \in Seq(Nat) BY <2>3, <4>4
      <4>6. <<rest \o q[2]>> \in Seq(Seq(Nat)) /\ Len(<<rest \o q[2]>>) = 1 BY <4>5
      <4>7. Len(r) = 1 + (Len(q) - 2) BY <3>1, <4>3, <4>6, Concatenation
      <4> QED BY <1>2, <4>7
    <3>6. "partial" \in excused
      <4>1. SUFFICES ASSUME "partial" \notin excused PROVE FALSE OBVIOUS
      <4>2. WholeFrames(L) BY <1>2, <1>9, <4>1
      <4>3. left = L - n /\ WholeFrames(L - n) /\ L - n \in Nat \ {0} BY <1>3, <1>7, <1>11, <4>2
      <4>4. FrameSize * (left \div FrameSize) + (left % FrameSize) = left
        BY <4>3, Constants, Division
      <4>5. FrameSize * 0 = 0 BY Constants
      <4> QED BY <2>9, <4>3, <4>4, <4>5 DEF WholeFrames
    <3>7. ToSet(rest) \subseteq Bytes(q) /\ ToSet(q[2]) \subseteq Bytes(q)
      <4>1. 1 \in DOMAIN q /\ 2 \in DOMAIN q BY <1>2, <2>9
      <4>2. ToSet(rest) \subseteq ToSet(b) BY <1>3, <2>1, <2>2, RestOfBuffer
      <4> QED BY <4>1, <4>2 DEF Bytes
    <3> QED BY <2>7, <3>1, <3>4, <3>5, <3>6, <3>7
  <2>10. CASE ~(left \div FrameSize = 0 /\ Len(q) > 1)
    <3>1. r = t /\ freed' = freed BY <2>8, <2>10 DEF KeepLeftover, rest
    <3> HIDE DEF t
    <3>2. ASSUME "partial" \notin excused
          PROVE  /\ \A i \in 1..Len(t) : WholeFrames(Len(t[i]))
                 /\ t[1][1] = b[1] + n
      <4>1. WholeFrames(L) BY <1>2, <1>9, <3>2
      <4>2. k = n /\ WholeFrames(L - n) BY <1>7, <1>11, <2>1, <4>1
      <4>3. ASSUME NEW i \in 1..Len(q) PROVE WholeFrames(Len(t[i]))
        <5>1. CASE i = 1 BY <2>3, <2>6, <4>2, <5>1
        <5>2. CASE i \in 2..Len(q) BY <1>9, <2>6, <3>2, <5>2
        <5> QED BY <1>2, <5>1, <5>2, FirstOrAfter
      <4> QED BY <2>5, <2>6, <4>2, <4>3
    <3> QED BY <1>2, <2>5, <2>6, <2>7, <3>1, <3>2
  <2> QED BY <2>9, <2>10
<1> HIDE DEF q
<1>12. Goal BY <1>10, <1>11
<1> WITNESS b, w, n
<1> QED BY <1>2, <1>3, <1>4, <1>7, <1>8, <1>12 DEF q

\* writeBuffer() succeeds.
LEMMA WriteBufferStep == ASSUME IInv, WriteBuffer PROVE IInv'
<1> USE Parts
<1>1. PICK b, w, n :
           /\ b = m_dataBuffers[1] /\ w = FramesToWrite(Len(b)) /\ n = w * FrameSize
           /\ m_dataBuffers # <<>> /\ b \in Seq(Nat) /\ n \in 0..Len(b) /\ w \in Nat /\ w <= room
           /\ \A j \in 1..Len(b) : b[j] = b[1] + j - 1 /\ b[j] \in 1..fed
           /\ written' = written \o SubSeq(b, 1, n) /\ room' = room - w
           /\ InSequence(m_dataBuffers', fed) /\ Len(m_dataBuffers') <= Len(m_dataBuffers)
           /\ Bytes(m_dataBuffers) = ToSet(SubSeq(b, 1, n)) \cup Bytes(m_dataBuffers')
           /\ "partial" \notin excused =>
                /\ \A i \in 1..Len(m_dataBuffers') : WholeFrames(Len(m_dataBuffers'[i]))
                /\ m_dataBuffers' # <<>> => m_dataBuffers'[1][1] = b[1] + n
           /\ freed \subseteq freed' /\ freed' \subseteq freed \cup Bytes(m_dataBuffers)
  BY QueueAfterWrite
<1>2. PICK s : /\ s = SubSeq(b, 1, n) /\ written' = written \o s
               /\ Bytes(m_dataBuffers) = ToSet(s) \cup Bytes(m_dataBuffers')
  BY ONLY <1>1
<1>3. w \in Nat /\ w <= room /\ room' = room - w BY ONLY <1>1
<1>4. /\ b \in Seq(Nat) /\ n \in 0..Len(b)
       /\ \A j \in 1..Len(b) : b[j] = b[1] + j - 1 /\ b[j] \in 1..fed
  BY ONLY <1>1
<1>5. written' = written \o s BY ONLY <1>2
<1>6. /\ push = "loop" /\ room # 0
      /\ push' = IF m_dataBuffers' # <<>> /\ room # 0 THEN "loop" ELSE "end"
      /\ UNCHANGED <<m_isOpen, m_isEos, m_pushSamplesTimer, expired, playing, vol, server,
                     serverEos, notes, notify, app, stream, size, fed, eosSent, discarded, events,
                     failures, excused>>
  BY DEF WriteBuffer, Continue
<1> USE DEF playing, fields, vol
<1>7. s \in Seq(Nat) /\ Len(s) = n /\ n \in Nat /\ \A j \in 1..n : s[j] = b[j]
  BY <1>1, <1>2, FrontOfBuffer
<1>8. Flags' BY <1>6 DEF Flags
<1>9. Numbers'
  <2>1. room \in Nat /\ room <= MaxRoom /\ MaxRoom \in Nat BY Constants DEF Numbers
  <2>2. room' \in 0..MaxRoom BY ONLY <1>3, <2>1
  <2> QED BY <1>6, <2>2 DEF Numbers
<1>10. Control' BY <1>6 DEF Control
<1>11. Places' BY <1>6 DEF Places, InCaps
<1>12. Contents'
  <2>1. Len(m_dataBuffers') \in Nat /\ Len(m_dataBuffers) \in Nat
    <3>1. ASSUME NEW u, InSequence(u, fed) PROVE Len(u) \in Nat BY <3>1 DEF InSequence
    <3> QED BY <1>1, <1>2, <3>1 DEF Contents
  <2>2. Len(m_dataBuffers') <= MaxQueue BY <1>1, <1>2, <2>1, Constants DEF Contents
  <2>3. written' \in Seq(Nat) BY <1>1, <1>2, <1>7 DEF Contents
  <2> QED BY <1>1, <1>2, <1>6, <2>2, <2>3 DEF Contents
<1>13. EveryByteAccounted'
  <2>1. ToSet(written') = ToSet(written) \cup ToSet(s)
    <3>1. written \in Seq(Nat) /\ s \in Seq(Nat) BY <1>7 DEF Contents
    <3> QED BY ONLY <1>5, <3>1, SetOfConcatenation
  <2>2. Queued = Bytes(m_dataBuffers) /\ Queued' = Bytes(m_dataBuffers') BY DEF Queued, Bytes
  <2> QED BY <1>1, <1>2, <1>6, <2>1, <2>2 DEF EveryByteAccounted
<1>14. Ordered'
  <2>1. SUFFICES ASSUME "partial" \notin excused PROVE Ordered' BY <1>6 DEF Ordered
  <2>2. /\ Increasing(written) /\ written \in Seq(Nat)
        /\ \A i \in 1..Len(written) : written[i] \in 1..fed /\ written[i] < b[1]
    BY <1>1, <1>2, <2>1 DEF Ordered, Contents
  <2>3. /\ b[1] \in Nat /\ b[1] - 1 \in Nat /\ fed \in Nat /\ b[1] \in 1..fed
        /\ n > 0 => b[n] = b[1] + n - 1 /\ b[n] \in 1..fed
    <3>1. Len(b) \in Nat \ {0} /\ 1 \in 1..Len(b) /\ fed \in Nat
      <4>1. b # <<>>
        <5>1. ASSUME NEW u, InSequence(u, fed), u # <<>> PROVE u[1] # <<>> BY <5>1 DEF InSequence
        <5> QED BY <1>1, <1>2, <5>1 DEF Contents
      <4>2. fed \in Nat BY Constants DEF Numbers
      <4> QED BY ONLY <1>4, <4>1, <4>2
    <3>2. n > 0 => n \in 1..Len(b) BY <1>1, <1>2, <1>7, <3>1
    <3> QED BY ONLY <1>4, <3>1, <3>2
  <2>4. \A j \in 1..n : s[j] = b[1] + j - 1 /\ s[j] \in 1..fed
    <3>1. ASSUME NEW j \in 1..n PROVE j \in 1..Len(b) BY <1>1, <1>2, <1>7
    <3> QED BY <1>1, <1>2, <1>7, <3>1
  <2>5. Increasing(written') /\ \A i \in 1..Len(written') : written'[i] < b[1] + n
    <3>1. Increasing(written \o s) /\ \A i \in 1..Len(written \o s) : (written \o s)[i] < b[1] + Len(s)
      <4>1. /\ \A i \in 1..Len(written) : written[i] < b[1]
            /\ \A j \in 1..Len(s) : s[j] = b[1] + j - 1
        BY <1>7, <2>2, <2>4
      <4>2. written \in Seq(Nat) /\ s \in Seq(Nat) /\ b[1] \in Nat /\ Increasing(written)
        BY ONLY <1>7, <2>2, <2>3
      <4> QED BY ONLY <4>1, <4>2, IncreasingConcat
    <3> QED BY <1>1, <1>2, <1>7, <3>1
  <2>6. ASSUME NEW i \in 1..Len(written') PROVE written'[i] \in 1..fed
    <3>1. PICK k \in Nat : k = Len(written) BY <2>2
    <3>2. /\ written' \in Seq(Nat) /\ Len(written') = k + n
          /\ \A j \in 1..k : written'[j] = written[j]
          /\ \A j \in 1..n : written'[k + j] = s[j]
      <4>1. /\ written \o s \in Seq(Nat) /\ Len(written \o s) = Len(written) + Len(s)
            /\ \A j \in 1..Len(written) : (written \o s)[j] = written[j]
            /\ \A j \in 1..Len(s) : (written \o s)[Len(written) + j] = s[j]
        <5>1. written \in Seq(Nat) /\ s \in Seq(Nat) BY <1>7, <2>2
        <5> QED BY ONLY <5>1, Concatenation, SMTT(30)
      <4> QED BY ONLY <1>5, <1>7, <3>1, <4>1
    <3>3. CASE i \in 1..k BY <2>2, <3>1, <3>2, <3>3
    <3>4. CASE i \notin 1..k
      <4>1. i - k \in 1..n /\ k + (i - k) = i BY <1>7, <3>2, <3>4, OneOfTwo
      <4> QED BY <2>4, <3>2, <4>1
    <3> QED BY <3>3, <3>4
  <2> QED BY <1>1, <1>2, <1>6, <2>1, <2>5, <2>6 DEF Ordered
<1>15. Retrying' BY <1>1, <1>2, <1>6 DEF Retrying, LoopFree
<1>16. EosOnce' BY <1>6 DEF EosOnce
<1>17. VolumeKept'
  BY <1>6 DEF VolumeKept
<1>18. Following' BY <1>6, FollowingKept DEF Steady, InCaps, Numbers
<1> QED BY <1>8, <1>9, <1>10, <1>11, <1>12, <1>13, <1>14, <1>15, <1>16, <1>17, <1>18 DEF IInv

\* The buffer cannot be written and is dropped.
LEMMA WriteFailsStep == ASSUME IInv, WriteFails PROVE IInv'
<1> USE Parts DEF WriteFails, Refused, EventsLeft, Continue, playing, fields, vol, serverVars
<1>1. m_dataBuffers # <<>> /\ InSequence(m_dataBuffers, fed) /\ fed \in Nat
  BY Constants DEF Places, Contents, Numbers
<1>2. /\ InSequence(Tail(m_dataBuffers), fed)
      /\ Bytes(m_dataBuffers) = ToSet(Head(m_dataBuffers)) \cup Bytes(Tail(m_dataBuffers))
      /\ Tail(m_dataBuffers) # <<>> =>
            Tail(m_dataBuffers)[1][1] = m_dataBuffers[1][1] + Len(m_dataBuffers[1])
  BY ONLY <1>1, InSequenceTail
<1>3. m_dataBuffers' = Tail(m_dataBuffers) /\ fed' = fed /\ written' = written OBVIOUS
<1>4. /\ Len(m_dataBuffers) \in Nat \ {0} /\ Len(Tail(m_dataBuffers)) = Len(m_dataBuffers) - 1
      /\ \A i \in 1..(Len(m_dataBuffers) - 1) : Tail(m_dataBuffers)[i] = m_dataBuffers[i + 1]
  <2>1. m_dataBuffers \in Seq(Seq(Nat)) BY <1>1 DEF InSequence
  <2> QED BY ONLY <1>1, <2>1, TailOf
<1>5. Flags' BY DEF Flags
<1>6. Numbers' BY DEF Numbers
<1>7. Control' BY DEF Control
<1>8. Places' BY DEF Places, InCaps
<1>9. Contents'
  <2>1. Len(Tail(m_dataBuffers)) <= MaxQueue BY <1>4, Constants DEF Contents
  <2> QED BY <1>2, <1>3, <2>1 DEF Contents
<1>10. EveryByteAccounted'
  <2>1. Queued = Bytes(m_dataBuffers) /\ Queued' = Bytes(m_dataBuffers') BY DEF Queued, Bytes
  <2> QED BY <1>2, <1>3, <2>1 DEF EveryByteAccounted
<1>11. Ordered'
  <2>1. SUFFICES ASSUME "partial" \notin excused PROVE Ordered' BY DEF Ordered
  <2>2. ASSUME NEW i \in 1..Len(Tail(m_dataBuffers)) PROVE WholeFrames(Len(Tail(m_dataBuffers)[i]))
    <3>1. i \in 1..(Len(m_dataBuffers) - 1) /\ i + 1 \in 1..Len(m_dataBuffers) BY <1>4
    <3>2. Tail(m_dataBuffers)[i] = m_dataBuffers[i + 1] BY <1>4, <3>1
    <3> QED BY <2>1, <3>1, <3>2 DEF Ordered
  <2>3. m_dataBuffers[1][1] \in Nat /\ Len(m_dataBuffers[1]) \in Nat
    <3>1. 1 \in 1..Len(m_dataBuffers) BY <1>4
    <3>2. m_dataBuffers[1] \in Seq(Nat) /\ m_dataBuffers[1] # <<>>
      BY <1>1, <3>1, SMTT(30) DEF InSequence
    <3> QED BY <3>2
  <2>4. ASSUME NEW i \in 1..Len(written), Tail(m_dataBuffers) # <<>>
        PROVE  written[i] < Tail(m_dataBuffers)[1][1]
    <3>1. written[i] < m_dataBuffers[1][1] /\ written[i] \in 1..fed BY <1>1, <2>1 DEF Ordered
    <3> QED BY <1>2, <2>3, <2>4, <3>1, SMTT(30)
  <2> QED BY <1>3, <2>1, <2>2, <2>4 DEF Ordered
<1>12. Retrying' BY DEF Retrying, LoopFree, Places
<1>13. EosOnce' BY DEF EosOnce
<1>14. Following'
  <2>1. ~Steady' BY DEF Steady, Numbers
  <2> QED BY <2>1 DEF Following
<1>15. VolumeKept' BY DEF VolumeKept, Numbers
<1> QED BY <1>5, <1>6, <1>7, <1>8, <1>9, <1>10, <1>11, <1>12, <1>13, <1>14, <1>15 DEF IInv

LEMMA AppendedTo ==
    ASSUME NEW S, NEW q \in Seq(S), NEW b \in S
    PROVE  /\ Len(Append(q, b)) = Len(q) + 1 /\ Append(q, b) # <<>> /\ Append(q, b)[Len(q) + 1] = b
           /\ \A i \in 1..Len(q) : Append(q, b)[i] = q[i]
OBVIOUS

\* A buffer is queued.
LEMMA NotifyNewSampleStep == ASSUME IInv, NotifyNewSample PROVE IInv'
<1> USE Parts DEF NotifyNewSample, InWait, LoopFree, PushStarts, playing, fields, vol, serverVars
<1>1. /\ size \in Nat \ {0} /\ fed \in Nat /\ fed + size <= MaxBytes
      /\ InSequence(m_dataBuffers, fed)
  BY Constants DEF Numbers, Contents
<1>2. PICK b, q : b = [i \in 1..size |-> fed + i] /\ q = Append(m_dataBuffers, b) OBVIOUS
<1>3. InSequence(q, fed + size) /\ Bytes(q) = Bytes(m_dataBuffers) \cup (fed + 1)..(fed + size)
  BY ONLY <1>1, <1>2, InSequenceAppend
<1>4. m_dataBuffers' = q /\ fed' = fed + size /\ written' = written BY <1>2
<1>5. b \in Seq(Nat) /\ Len(b) = size /\ b[1] = fed + 1 BY <1>1, <1>2
<1>6. m_dataBuffers \in Seq(Seq(Nat)) /\ Len(m_dataBuffers) \in Nat BY <1>1 DEF InSequence
<1>7. /\ Len(q) = Len(m_dataBuffers) + 1 /\ q # <<>> /\ q[Len(m_dataBuffers) + 1] = b
      /\ \A i \in 1..Len(m_dataBuffers) : q[i] = m_dataBuffers[i]
  BY ONLY <1>2, <1>5, <1>6, AppendedTo
<1>8. Flags' BY DEF Flags
<1>9. Numbers' BY <1>1 DEF Numbers
<1>10. Control' BY DEF Control, StreamPlaces
<1>11. Places' BY <1>4, <1>7 DEF Places, InCaps, Control
<1>12. Contents'
  <2>1. Len(q) <= MaxQueue BY <1>6, <1>7, Constants DEF QueueLimit
  <2> QED BY <1>3, <1>4, <2>1 DEF Contents
<1>13. EveryByteAccounted'
  <2>1. Queued = Bytes(m_dataBuffers) /\ Queued' = Bytes(m_dataBuffers') BY DEF Queued, Bytes
  <2>2. 1..(fed + size) = 1..fed \cup (fed + 1)..(fed + size) BY <1>1
  <2>3. discarded' = discarded /\ freed' = freed OBVIOUS
  <2>4. 1..fed = ToSet(written) \cup Bytes(m_dataBuffers) \cup discarded \cup freed
    BY <2>1 DEF EveryByteAccounted
  <2>5. 1..(fed + size) = ToSet(written) \cup Bytes(q) \cup discarded \cup freed
    BY ONLY <1>3, <2>2, <2>4
  <2> QED BY <1>4, <2>1, <2>3, <2>5 DEF EveryByteAccounted
<1>14. Ordered'
  <2>1. SUFFICES ASSUME "partial" \notin excused PROVE Ordered' BY DEF Ordered
  <2>2. /\ Increasing(written) /\ WholeFrames(size)
        /\ \A i \in 1..Len(m_dataBuffers) : WholeFrames(Len(m_dataBuffers[i]))
        /\ \A i \in 1..Len(written) : /\ written[i] \in 1..fed
                                      /\ m_dataBuffers # <<>> => written[i] < m_dataBuffers[1][1]
    BY <2>1 DEF Ordered
  <2>3. ASSUME NEW i \in 1..Len(q) PROVE WholeFrames(Len(q[i]))
    <3>1. i \in 1..Len(m_dataBuffers) \/ i = Len(m_dataBuffers) + 1 BY <1>6, <1>7
    <3> QED BY <1>5, <1>7, <2>2, <3>1
  <2>4. ASSUME NEW i \in 1..Len(written) PROVE written[i] \in 1..(fed + size) /\ written[i] < q[1][1]
    <3>1. written[i] \in 1..(fed + size) BY <1>1, <2>2
    <3>2. CASE m_dataBuffers = <<>>
      <4>1. q[1] = b BY <1>7, <3>2
      <4> QED BY <1>1, <1>5, <2>2, <3>1, <4>1
    <3>3. CASE m_dataBuffers # <<>>
      <4>1. 1 \in 1..Len(m_dataBuffers) BY <1>6, <3>3
      <4>2. q[1] = m_dataBuffers[1] BY <1>7, <4>1
      <4> QED BY <2>2, <3>1, <3>3, <4>2
    <3> QED BY <3>2, <3>3
  <2>5. stream' # "wait" OBVIOUS
  <2> QED BY <1>4, <1>7, <2>2, <2>3, <2>4, <2>5 DEF Ordered
<1>15. Retrying' BY <1>4, <1>7 DEF Retrying
<1>16. EosOnce' BY DEF EosOnce
<1>17. VolumeKept' BY DEF VolumeKept
<1>18. Following' BY FollowingKept DEF Steady, InCaps, Numbers
<1> QED BY <1>8, <1>9, <1>10, <1>11, <1>12, <1>13, <1>14, <1>15, <1>16, <1>17, <1>18 DEF IInv

\* The server announces s, for the first time: nothing of END_OF_STREAM changes.
LEMMA StateAnnounced ==
    ASSUME NEW n \in Seq(Announcements), NEW s \in States
    PROVE  /\ Append(n, s) \in Seq(Announcements)
           /\ Among(Append(n, s), {"END_OF_STREAM"}) <=> Among(n, {"END_OF_STREAM"})
           /\ Once(n, {"END_OF_STREAM"}) => Once(Append(n, s), {"END_OF_STREAM"})
           /\ \A x \in States : Among(Append(n, s), {x}) <=> Among(n, {x}) \/ x = s
           /\ ~Among(n, States) => InTurn(Append(n, s))
           /\ InTurn(n) /\ ~Among(n, {"PAUSED"}) /\ s = "PAUSED" => InTurn(Append(n, s))
<1>1. s \in Announcements /\ s # "END_OF_STREAM" BY DEF States, Announcements
<1> QED BY <1>1, NoteAdded

\* play() or pause() in the event loop.
LEMMA CommandStep ==
    ASSUME IInv, NEW call, NEW s, <<call, s>> \in {<<"play", "PLAYING">>, <<"pause", "PAUSED">>},
           Command(call, s)
    PROVE  IInv'
<1> USE Parts DEF Command, LoopFree, client, vol
<1>1. \/ call = "play" /\ s = "PLAYING"
      \/ call = "pause" /\ s = "PAUSED"
  OBVIOUS
<1>2. s \in States /\ app = call BY <1>1 DEF States
<1>3. \/ /\ m_isOpen /\ failures' = failures /\ server' = s /\ notes' = Append(notes, s)
         /\ app' = "asyncStart" /\ state' = state /\ next' = next /\ pending' = pending
      \/ /\ failures' = (IF m_isOpen THEN failures + 1 ELSE failures)
         /\ state' = state /\ next' \in {next, Void} /\ pending' = Void
         /\ app' = "idle" /\ server' = server /\ notes' = notes
  BY DEF Succeeds, Fails, Accepted, Refused, Announce, Arrive, fields
<1>4. /\ m_isOpen' = m_isOpen /\ stream' = stream /\ push' = push /\ notify' = notify
      /\ m_isPlayingDelayed' = m_isPlayingDelayed
  OBVIOUS
<1>5. notes \in Seq(Announcements) BY DEF Control
<1>6. /\ notes' \in Seq(Announcements)
      /\ Among(notes', {"END_OF_STREAM"}) <=> Among(notes, {"END_OF_STREAM"})
      /\ Once(notes, {"END_OF_STREAM"}) => Once(notes', {"END_OF_STREAM"})
  <2>1. CASE notes' = notes BY <1>5, <2>1
  <2>2. CASE notes' = Append(notes, s) BY ONLY <1>2, <1>5, <2>2, StateAnnounced
  <2> QED BY <1>3, <2>1, <2>2
<1>7. Flags' BY DEF Flags
<1>8. Numbers' BY <1>3 DEF Numbers
<1>9. Control' BY <1>2, <1>3, <1>6 DEF Control, AppPlaces, Fields, States
<1>10. Places' BY <1>1, <1>2, <1>3 DEF Places
<1>11. Contents' /\ EveryByteAccounted' /\ Ordered' /\ Retrying'
  BY DEF Contents, EveryByteAccounted, Queued, Ordered, Retrying
<1>12. EosOnce' BY <1>3, <1>6 DEF EosOnce
<1>13. Following'
  <2> SUFFICES ASSUME Steady' PROVE Asked' /\ Announced' /\ Committed' BY DEF Following
  <2>1. failures' = failures BY <1>3 DEF Steady, Numbers
  <2>2. Steady BY <2>1 DEF Steady
  <2>3. Asked /\ Announced /\ Committed BY <2>2, Follows
  <2>4. /\ pending = s /\ next = s /\ ~m_isPlayingDelayed /\ stream # "playClear"
        /\ notify.at # "write" /\ ~Among(notes, {"PAUSED"}) /\ InTurn(notes)
    BY <1>1, <1>2, <2>3 DEF Asked, Announced, Committed, Commanding
  <2>5. m_isOpen BY <1>1, <1>2, <2>3, <2>4 DEF Asked, Announced
  <2>6. /\ server' = s /\ notes' = Append(notes, s) /\ app' = "asyncStart" /\ state' = state
        /\ next' = s /\ pending' = s
    <3>1. failures # failures + 1 BY DEF Numbers
    <3> QED BY <1>3, <2>1, <2>4, <2>5, <3>1
  <2>7. /\ InTurn(notes') /\ Among(notes', {s})
        /\ s = "PLAYING" => ~Among(notes', {"PAUSED"})
    <3>1. s = "PLAYING" => ~Among(notes, States) BY <1>1, <1>2, <2>3 DEF Asked
    <3>2. "PAUSED" \in States /\ (s = "PLAYING" \/ s = "PAUSED") BY <1>1 DEF States
    <3> QED BY ONLY <1>2, <1>5, <2>4, <2>6, <3>1, <3>2, StateAnnounced
  <2>8. Asked' BY <1>1, <1>4, <2>4, <2>6 DEF Asked, Commanding, Closing
  <2>9. Announced' BY <1>1, <1>4, <2>5, <2>6, <2>7 DEF Announced, Void
  <2>10. Committed' BY <1>4, <2>4, <2>6, <2>7 DEF Committed, Awaited, Commanding
  <2> QED BY <2>8, <2>9, <2>10
<1>14. VolumeKept' BY <1>1, <1>2, <1>3 DEF VolumeKept, Numbers
<1> QED BY <1>7, <1>8, <1>9, <1>10, <1>11, <1>12, <1>13, <1>14 DEF IInv

\* An announcement arrives: handleStateChanged() reads.
LEMMA NotifyStateStep == ASSUME IInv, NotifyState PROVE IInv'
<1> USE Parts DEF vol, playing, fields, counts
<1>1. notify.at = "idle" /\ notes # <<>> /\ notes \in Seq(Announcements) BY DEF NotifyState, Control
<1>2. PICK s \in Announcements : s = Head(notes) BY <1>1, NoteTaken
<1>3. /\ notes' = Tail(notes)
      /\ notify' = IF Commits(s) THEN [at |-> "write", next |-> next, pending |-> pending]
                   ELSE notify
      /\ m_isEos' = (m_isEos /\ s # "END_OF_STREAM")
      /\ excused' = IF app = "asyncStart" /\ s = next /\ ~Commits(s)
                    THEN excused \cup {"earlyNotify"} ELSE excused
      /\ UNCHANGED <<m_isOpen, m_dataBuffers, m_pushSamplesTimer, expired, push, playing, vol,
                     server, room, written, serverEos, app, stream, counts>>
  BY <1>2 DEF NotifyState, Excuse
<1>4. ASSUME NEW S
      PROVE  /\ s \in S => Among(notes, S)
             /\ Among(notes', S) => Among(notes, S)
             /\ Among(notes, S) => s \in S \/ Among(notes', S)
             /\ Once(notes, S) => Once(notes', S) /\ (s \in S => ~Among(notes', S))
             /\ InTurn(notes) => /\ InTurn(notes')
                                 /\ s = "PAUSED" => ~Among(notes', States)
                                 /\ s = "PLAYING" => ~Among(notes', {"PLAYING"})
  BY ONLY <1>1, <1>2, <1>3, NoteTaken
<1>5. notes' \in Seq(Announcements) BY ONLY <1>1, <1>3, NoteTaken
<1>6. Commits(s) => m_isStateCommitNeeded /\ s = next /\ s \in States
  BY <1>2 DEF Commits, Control, Announcements, States, Fields, Void
<1>7. Flags' BY <1>3 DEF Flags
<1>8. Numbers' BY <1>3 DEF Numbers
<1>9. Control'
  <2>1. /\ notify' \in [at : {"idle", "write", "clear"}, next : Fields, pending : Fields]
        /\ notify'.at = "write" => notify'.next \in States
    <3>1. CASE Commits(s)
      <4>1. notify' = [at |-> "write", next |-> next, pending |-> pending] BY <1>3, <3>1
      <4>2. next \in Fields /\ pending \in Fields /\ next \in States BY <1>6, <3>1 DEF Control
      <4> QED BY <4>1, <4>2
    <3>2. CASE ~Commits(s) BY <1>3, <3>2 DEF Control
    <3> QED BY <3>1, <3>2
  <2> QED BY <1>3, <1>5, <2>1 DEF Control, Excuses
<1>10. Places'
  <2>1. m_isOpen BY <1>1 DEF Places
  <2> QED BY <1>3, <2>1 DEF Places
<1>11. Contents' /\ EveryByteAccounted' /\ Ordered' /\ Retrying'
  <2>1. excused \subseteq excused' /\ excused' \subseteq excused \cup {"earlyNotify"} BY <1>3
  <2> QED BY <1>3, <2>1 DEF Contents, EveryByteAccounted, Queued, Ordered, Retrying, LoopFree
<1>12. EosOnce'
  <2>1. /\ Among(notes', {"END_OF_STREAM"}) => Among(notes, {"END_OF_STREAM"})
        /\ Once(notes, {"END_OF_STREAM"}) => Once(notes', {"END_OF_STREAM"})
        /\ s = "END_OF_STREAM" =>
             /\ Among(notes, {"END_OF_STREAM"})
             /\ Once(notes, {"END_OF_STREAM"}) => ~Among(notes', {"END_OF_STREAM"})
    BY <1>4
  <2> QED BY <1>3, <2>1 DEF EosOnce
<1>13. Following'
  <2> SUFFICES ASSUME Steady' PROVE Asked' /\ Announced' /\ Committed' BY DEF Following
  <2>1. Steady /\ ~(app = "asyncStart" /\ s = next /\ ~Commits(s)) BY <1>3 DEF Steady
  <2>2. Asked /\ Announced /\ Committed BY <2>1, Follows
  <2>3. UNCHANGED <<state, next, pending, m_isPlayingDelayed, m_isStateCommitNeeded, app, stream,
                    server, m_isOpen>>
    BY <1>3
  <2>4. /\ InTurn(notes) /\ InTurn(notes') /\ next = pending /\ m_isOpen
        /\ Among(notes', States) => Among(notes, States)
        /\ \A x \in States : Among(notes', {x}) => Among(notes, {x})
        /\ \A x \in States : x # s => (Among(notes, {x}) => Among(notes', {x}))
        /\ s \in States => Among(notes, States) /\ Among(notes, {s})
    BY <1>1, <1>4, <2>2 DEF Announced, Asked, Places
  <2>5. CASE s \notin States
    <3>1. notify' = notify BY <1>3, <1>6, <2>5
    <3>2. \A x \in States : Among(notes', {x}) <=> Among(notes, {x}) BY <2>4, <2>5
    <3>3. Among(notes', States) <=> Among(notes, States) BY <3>2, StatesAmong
    <3>4. PlayPending' <=> PlayPending BY <2>3, <3>1, <3>3 DEF PlayPending
    <3>5. Asked' BY <2>2, <2>3, <3>2, <3>3, <3>4 DEF Asked, States
    <3>6. Announced' BY <2>2, <2>3, <2>4, <3>1, <3>2, <3>3 DEF Announced, States
    <3>7. Committed' BY <2>2, <2>3, <3>1, <3>2, <3>3, <3>4 DEF Committed, Awaited
    <3> QED BY <3>5, <3>6, <3>7
  <2>6. CASE s \in States /\ s = pending
    <3>1. app \notin Commanding \cup Closing
      BY <2>2, <2>4, <2>6 DEF Asked, Commanding, Closing, States
    <3>2. Commits(s) BY <2>1, <2>2, <2>4, <2>6, <3>1 DEF Commits, Committed
    <3>3. notify'.at = "write" /\ notify'.next = pending /\ notify'.pending = pending
      BY <1>3, <2>4, <3>2
    <3>4. ~Among(notes', States)
      <4>1. s = "PLAYING" => ~Among(notes', {"PLAYING"}) /\ ~Among(notes', {"PAUSED"})
        BY <1>4, <2>2, <2>4, <2>6 DEF Announced, States
      <4>2. s = "PAUSED" => ~Among(notes', States) BY <1>4, <2>4
      <4> QED BY <2>6, <4>1, <4>2, StatesAmong DEF States
    <3>5. ~PlayPending BY <2>4, <2>6 DEF PlayPending
    <3>6. Asked' BY <2>2, <2>3, <2>6, <3>1, <3>5 DEF Asked, Commanding, Closing
    <3>7. Announced'
      BY <2>2, <2>3, <2>4, <2>6, <3>1, <3>4, StatesAmong
        DEF Announced, Commanding, Closing, States, Void
    <3>8. Committed' BY <2>2, <2>3, <2>6, <3>1, <3>3, <3>4 DEF Committed, Awaited
    <3> QED BY <3>6, <3>7, <3>8
  <2>7. CASE s \in States /\ s # pending
    <3>1. notify' = notify BY <1>3, <1>6, <2>4, <2>7
    <3>2. ~PlayPending /\ pending \notin {"PLAYING", Void}
      BY <2>2, <2>4, <2>7 DEF PlayPending, Announced, States
    <3>3. pending \in {"PAUSED", "READY"} BY <3>2 DEF Control, Fields
    <3>4. Asked' BY <2>2, <2>3, <2>4, <3>2, <3>3 DEF Asked, Commanding, Closing, States
    <3>5. Announced' BY <2>2, <2>3, <2>4, <3>2, <3>3 DEF Announced
    <3>6. Committed' BY <1>1, <2>2, <2>3, <2>4, <2>7, <3>1, <3>2, <3>3 DEF Committed, Awaited
    <3> QED BY <3>4, <3>5, <3>6
  <2> QED BY <2>5, <2>6, <2>7
<1>14. VolumeKept' BY <1>3 DEF VolumeKept
<1> QED BY <1>7, <1>8, <1>9, <1>10, <1>11, <1>12, <1>13, <1>14 DEF IInv

\* handleStateChanged() writes what it has read.
LEMMA NotifyWriteStep == ASSUME IInv, NotifyWrite PROVE IInv'
<1> USE Parts DEF NotifyWrite, WriteStates, client, vol, counts
<1>1. /\ notify' = [NotNotifying EXCEPT !.at = "clear"] /\ notify'.at = "clear"
      /\ notify' \in [at : {"idle", "write", "clear"}, next : Fields, pending : Fields]
  BY DEF NotNotifying, Fields
<1>2. Flags' BY DEF Flags
<1>3. Numbers' /\ Contents' /\ EveryByteAccounted'
  BY DEF Numbers, Contents, EveryByteAccounted, Queued
<1>4. Control'
  <2>1. notify.next \in States /\ notify.pending \in Fields /\ pending \in Fields BY DEF Control
  <2>2. state' \in SinkStates /\ next' \in Fields /\ pending' \in Fields
    BY <2>1 DEF States, SinkStates, Fields
  <2> QED BY <1>1, <2>2 DEF Control
<1>5. Places' BY <1>1 DEF Places
<1>6. Ordered' /\ Retrying' BY DEF Ordered, Retrying, LoopFree
<1>7. EosOnce' BY DEF EosOnce
<1>8. Following'
  <2> SUFFICES ASSUME Steady' PROVE Asked' /\ Announced' /\ Committed' BY DEF Following
  <2>1. Asked /\ Announced /\ Committed BY Follows DEF Steady
  <2>2. /\ notify.next = pending /\ notify.pending = pending /\ pending \in States
        /\ app \notin Commanding /\ ~Among(notes, States)
    BY <2>1 DEF Committed
  <2>3. state' = pending /\ next' = Void /\ pending' = Void BY <2>2
  <2>4. m_isOpen BY DEF Places
  <2>5. app \notin Closing BY <2>1, <2>2 DEF Asked, States
  <2>6. Void # "READY" /\ Void # "PLAYING" /\ Void # "PAUSED" /\ Void \notin States
    BY DEF Void, States
  <2>7. m_isPlayingDelayed => stream = "playClear" /\ pending = "PLAYING"
    BY <2>1, <2>2, <2>6 DEF Asked, PlayPending
  <2>8. Asked' BY <2>1, <2>2, <2>3, <2>4, <2>5, <2>6, <2>7 DEF Asked, Commanding
  <2>9. pending = "PLAYING" <=> server = "PLAYING"
    BY <2>1, <2>2 DEF Announced, States, Commanding
  <2>10. Announced' BY <2>1, <2>2, <2>3, <2>4, <2>5, <2>6, <2>9 DEF Announced, Closing
  <2>11. Committed' BY <1>1, <2>3, <2>6 DEF Committed
  <2> QED BY <2>8, <2>10, <2>11
<1>9. VolumeKept' BY DEF VolumeKept
<1> QED BY <1>2, <1>3, <1>4, <1>5, <1>6, <1>7, <1>8, <1>9 DEF IInv

\* postAsyncDone() clears the flag.
LEMMA NotifyClearStep == ASSUME IInv, NotifyClear PROVE IInv'
<1> USE Parts DEF NotifyClear, fields, client, vol, counts
<1>1. /\ notify'.at = "idle"
      /\ notify' \in [at : {"idle", "write", "clear"}, next : Fields, pending : Fields]
  BY DEF NotNotifying, Fields
<1>2. Flags' BY DEF Flags
<1>3. Numbers' /\ Contents' /\ EveryByteAccounted'
  BY DEF Numbers, Contents, EveryByteAccounted, Queued
<1>4. Control' BY <1>1 DEF Control
<1>5. Places' BY <1>1 DEF Places
<1>6. Ordered' /\ Retrying' BY DEF Ordered, Retrying, LoopFree
<1>7. EosOnce' BY DEF EosOnce
<1>8. Following'
  <2> SUFFICES ASSUME Steady' PROVE Asked' /\ Announced' /\ Committed' BY DEF Following
  <2>1. Asked /\ Announced /\ Committed BY Follows DEF Steady
  <2>2. ~PlayPending BY DEF PlayPending
  <2>3. Asked' BY <2>1, <2>2 DEF Asked
  <2>4. Announced' BY <1>1, <2>1 DEF Announced
  <2>5. pending \in States /\ app \notin Commanding => Among(notes, {pending}) /\ app = "asyncStart"
    BY <2>1, <2>2 DEF Committed, Awaited
  <2>6. Committed' BY <1>1, <2>5 DEF Committed, Awaited
  <2> QED BY <2>3, <2>4, <2>6
<1>9. VolumeKept' BY DEF VolumeKept
<1> QED BY <1>2, <1>3, <1>4, <1>5, <1>6, <1>7, <1>8, <1>9 DEF IInv

\* A step that changes nothing.
LEMMA StutterStep == ASSUME IInv, UNCHANGED vars PROVE IInv'
<1> USE Parts DEF vars, client, playing, fields, vol, serverVars, counts
<1>1. Flags' /\ Numbers' /\ Control' /\ Places' BY DEF Flags, Numbers, Control, Places
<1>2. Contents' /\ EveryByteAccounted' /\ Ordered'
  BY DEF Contents, EveryByteAccounted, Queued, Ordered
<1>3. Retrying' /\ EosOnce' BY DEF Retrying, LoopFree, EosOnce
<1>4. VolumeKept' BY DEF VolumeKept
<1>5. Following' BY FollowingKept DEF Steady, InCaps, Numbers
<1> QED BY <1>1, <1>2, <1>3, <1>4, <1>5 DEF IInv

LEMMA NextIInv == IInv /\ [Next]_vars => IInv'
<1> SUFFICES ASSUME IInv, [Next]_vars PROVE IInv' OBVIOUS
<1>1. CASE LoopSteps
  BY <1>1, NoRoomStep, WriteBufferStep, PushEndsStep, PushAfterTimerStep DEF LoopSteps, PushSamples
<1>2. CASE GetBufferAvailableFails \/ WriteFails \/ ReadFreed \/ TimerExpires
  BY <1>2, GetBufferAvailableFailsStep, WriteFailsStep, ReadFreedStep, TimerExpiresStep
<1>3. CASE HandleBuffer \/ SetEos \/ Open \/ Flush
  BY <1>3, HandleBufferStep, SetEosStep, OpenStep, FlushStep
<1>4. CASE StreamSteps
  BY <1>4, NotifyNewSampleStep, CapsVolumeStep, CapsVolumeClearStep, CapsPlayStep, CapsPlayClearStep
  DEF StreamSteps
<1>5. CASE ReadyToPaused \/ PausedToPlaying \/ PlayingToPaused \/ PausedToReady
  BY <1>5, ReadyToPausedStep, PausedToPlayingStep, PlayingToPausedStep, PausedToReadyStep
<1>6. CASE SetVolume \/ GetVolume \/ VolumeWithoutPlayer
  BY <1>6, SetVolumeStep, GetVolumeStep, VolumeWithoutPlayerStep
<1>7. CASE AppSteps
  <2>1. CASE Command("play", "PLAYING") BY <2>1, CommandStep
  <2>2. CASE Command("pause", "PAUSED") BY <2>2, CommandStep
  <2>3. CASE Delay \/ AsyncStart \/ Close \/ DeactivatePad \/ PadDeactivated
    BY <2>3, DelayStep, AsyncStartStep, CloseStep, DeactivatePadStep, PadDeactivatedStep
  <2>4. CASE VolumeCheck \/ VolumeQueue \/ VolumeCall \/ VolumeGet
    BY <2>4, VolumeCheckStep, VolumeQueueStep, VolumeCallStep, VolumeGetStep
  <2> QED BY <1>7, <2>1, <2>2, <2>3, <2>4 DEF AppSteps
<1>8. CASE Consume \/ Ends \/ NotifyState \/ NotifyWrite \/ NotifyClear
  BY <1>8, ConsumeStep, EndsStep, NotifyStateStep, NotifyWriteStep, NotifyClearStep
<1>9. CASE UNCHANGED vars BY <1>9, StutterStep
<1> QED BY <1>1, <1>2, <1>3, <1>4, <1>5, <1>6, <1>7, <1>8, <1>9 DEF Next

LEMMA Invariance == Spec => []IInv
BY InitIInv, NextIInv, PTL DEF Spec

-----------------------------------------------------------------------------
(***************************************************************************)
(* The theorems.                                                           *)
(***************************************************************************)
\* The types of the client's, the delegate's and the server's state, whatever
\* the constants: notifyNewSample() keeps m_dataBuffers to kMaxQueueSize
\* buffers, no write leaves an empty one behind, and pushSamples() never runs
\* without a player.
THEOREM WebAudioTypeCorrect == Spec => []TypeOK
<1>1. IInv => TypeOK
  <2> SUFFICES ASSUME IInv PROVE TypeOK OBVIOUS
  <2> USE Parts
  <2>1. {m_isOpen, m_isEos, m_pushSamplesTimer, m_isPlayingDelayed, m_isStateCommitNeeded,
         m_isVolumeQueued, serverEos, eosSent, pad} \subseteq BOOLEAN
    BY DEF Flags
  <2>2. /\ Len(m_dataBuffers) <= MaxQueue
        /\ \A i \in DOMAIN m_dataBuffers : m_dataBuffers[i] # <<>>
    <3>1. InSequence(m_dataBuffers, fed) /\ Len(m_dataBuffers) <= MaxQueue BY DEF Contents
    <3>2. DOMAIN m_dataBuffers = 1..Len(m_dataBuffers) BY <3>1 DEF InSequence
    <3> QED BY <3>1, <3>2 DEF InSequence
  <2>3. Queued \cup freed \subseteq 1..fed BY DEF EveryByteAccounted
  <2>4. /\ fed \in 0..MaxBytes /\ room \in 0..MaxRoom /\ expired \in Nat
        /\ {m_volume, volume, wantedVolume} \subseteq 0..MaxCalls
    BY DEF Numbers
  <2>5. /\ push \in {"idle", "loop", "end", "crashed"} /\ (push \in {"loop", "end"} => m_isOpen)
        /\ state \in {"READY", "PAUSED", "PLAYING"}
        /\ {next, pending} \subseteq {"READY", "PAUSED", "PLAYING", Void}
        /\ notify.at \in {"idle", "write", "clear"} /\ (notify.at # "idle" => m_isOpen)
        /\ server \in {"none", "IDLE", "PLAYING", "PAUSED"} /\ (server = "none" <=> ~m_isOpen)
    BY DEF Control, Places, SinkStates, Fields
  <2>6. excused \subseteq {"partial", "volumeRace", "capsRace", "earlyNotify", "closeEarly",
                           "closeVolume", "newFormat", "withdrawn", "commitRace"}
    BY DEF Control, Excuses
  <2> QED BY <2>1, <2>2, <2>3, <2>4, <2>5, <2>6 DEF TypeOK
<1> QED BY <1>1, Invariance, PTL

\* pushSamples() hands the bytes to the server in the order in which
\* notifyNewSample() queued them and none of them twice, for every frame size
\* and however the server's room cuts the buffers, if these hold whole frames.
THEOREM WritesInOrder == Spec => []WrittenInOrder
<1>1. IInv => WrittenInOrder BY Parts DEF Ordered, WrittenInOrder
<1> QED BY <1>1, Invariance, PTL

\* Every byte that notifyNewSample() queued was written, waits in
\* m_dataBuffers, was given up by pushSamples() after a failed call, or was in
\* a leftover smaller than a frame or the buffer behind it, which pushSamples()
\* combined and freed: nothing else is lost, whatever the leftovers' lengths.
THEOREM AccountsForEveryByte == Spec => []EveryByteAccounted
<1>1. IInv => EveryByteAccounted BY Parts
<1> QED BY <1>1, Invariance, PTL

\* setEos() and pushSamples() tell the server of the end of the stream only
\* when m_dataBuffers is empty, and nothing is queued after it.
THEOREM EosComesLast == Spec => []EosAfterAllSamples
<1>1. IInv => EosAfterAllSamples BY Parts DEF EosOnce, EosAfterAllSamples
<1> QED BY <1>1, Invariance, PTL

\* A change of state by changeState(), with play() made up for by the CAPS
\* event or not, ends with the player in the state asked for and that state
\* committed by handleStateChanged(), unless a call failed or one of the races
\* PlayerFollowsSink names has happened: among them one with the unlocked
\* reads, writes and postAsyncDone() of handleStateChanged().
THEOREM FollowsTheSink == Spec => []PlayerFollowsSink
<1>1. IInv => PlayerFollowsSink
  <2> SUFFICES ASSUME IInv, Quiet, m_isOpen, Steady
               PROVE  pending = Void /\ (state = "PLAYING" <=> server = "PLAYING")
    BY DEF PlayerFollowsSink, Steady
  <2> USE Parts DEF Quiet
  <2>1. Asked /\ Announced /\ Committed BY Follows
  <2>2. ~PlayPending BY DEF PlayPending
  <2>3. pending \notin States BY <2>1, <2>2, NoNotes DEF Committed, Awaited, Commanding
  <2>4. pending # "READY" BY <2>1 DEF Asked, Closing
  <2>5. pending = Void BY <2>3, <2>4 DEF Control, Fields, States
  <2> QED BY <2>1, <2>5 DEF Announced
<1> QED BY <1>1, Invariance, PTL

\* setProperty()'s volume reaches the player, through setVolume() or through
\* m_isVolumeQueued and the CAPS event.
THEOREM VolumeArrives == Spec => []VolumeReachesPlayer
<1>1. IInv => VolumeReachesPlayer BY Parts DEF VolumeKept, VolumeReachesPlayer, Quiet
<1> QED BY <1>1, Invariance, PTL

\* While buffers wait and pushSamples() does not run, m_pushSamplesTimer runs
\* or has scheduled the next attempt.
THEOREM AlwaysRetries == Spec => []RetryPending
<1>1. IInv => RetryPending BY Parts DEF Retrying, RetryPending
<1> QED BY <1>1, Invariance, PTL
=============================================================================
