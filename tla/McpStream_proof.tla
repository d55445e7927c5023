---------------------------- MODULE McpStream_proof ----------------------------
(***************************************************************************)
(* Theorems of McpStream for every buffer capacity, every number of tool   *)
(* calls and every number of events.                                       *)
(***************************************************************************)
EXTENDS McpStream, SequenceTheorems, WellFoundedInduction, TLAPS

(* Induction over the naturals, for sets of numbers.                        *)

\* A set of naturals has a least element.
LEMMA Least ==
    ASSUME NEW S \in SUBSET Nat, S # {}
    PROVE  \E n \in S : \A m \in S : n <= m
<1> DEFINE Less == {pair \in Nat \X Nat : pair[1] < pair[2]}
<1>1. IsWellFoundedOn(Less, Nat)
  BY NatLessThanWellFounded DEF OpToRel
<1>2. PICK n \in S : \A m \in S : <<m, n>> \notin Less
  <2> HIDE DEF Less
  <2> QED BY <1>1, WFMin
<1>3. ASSUME NEW m \in S PROVE n <= m
  <2>1. <<m, n>> \in Nat \X Nat /\ <<m, n>>[1] = m /\ <<m, n>>[2] = n
    OBVIOUS
  <2>2. ~ (m < n)
    BY <1>2, <2>1
  <2> QED BY <2>2
<1> QED BY <1>3

LEMMA Upwards ==
    ASSUME NEW N \in Nat, NEW S, 0 \in S, \A n \in 1 .. N : n - 1 \in S => n \in S
    PROVE  0 .. N \subseteq S
<1> DEFINE Bad == (0 .. N) \ S
<1>1. SUFFICES ASSUME Bad # {} PROVE FALSE
  OBVIOUS
<1>2. Bad \in SUBSET Nat
  OBVIOUS
<1> HIDE DEF Bad
<1>3. PICK n \in Bad : \A m \in Bad : n <= m
  BY <1>1, <1>2, Least
<1>4. n \in 0 .. N /\ n \notin S
  BY <1>3 DEF Bad
<1>5. n \in 1 .. N /\ n - 1 \in 0 .. N
  BY <1>4
<1>6. n - 1 \notin Bad
  BY <1>3, <1>5
<1> QED BY <1>4, <1>5, <1>6 DEF Bad
-----------------------------------------------------------------------------
(* What a replay takes from the buffer.                                     *)

\* The prefixes of the filtered snapshot, one for each prefix of the snapshot.
LEMMA NewerPrefixes ==
    ASSUME NEW last \in Nat, NEW s \in Seq(Nat)
    PROVE  \E f : /\ Newer(last, s) = f[Len(s)]
                  /\ \A k \in 0 .. Len(s) :
                        f[k] = IF k = 0 THEN <<>>
                               ELSE IF s[k] > last THEN Append(f[k - 1], s[k]) ELSE f[k - 1]
<1> DEFINE Next1(f, k) == IF k = 0 THEN <<>>
                          ELSE IF s[k] > last THEN Append(f[k - 1], s[k]) ELSE f[k - 1]
           Good(m) == \E f : f = [k \in 0 .. m |-> Next1(f, k)]
<1>1. Good(0)
  <2>1. [k \in 0 .. 0 |-> <<>>] = [k \in 0 .. 0 |-> Next1([j \in 0 .. 0 |-> <<>>], k)]
    OBVIOUS
  <2> QED BY <2>1
<1>2. ASSUME NEW m \in 1 .. Len(s), Good(m - 1) PROVE Good(m)
  <2>1. PICK f : f = [k \in 0 .. m - 1 |-> Next1(f, k)]
    BY <1>2
  <2> DEFINE g == [k \in 0 .. m |-> IF k < m THEN f[k] ELSE Next1(f, m)]
  <2>2. \A k \in 0 .. m - 1 : f[k] = Next1(f, k)
    BY <2>1, Zenon
  <2>3. ASSUME NEW k \in 0 .. m PROVE g[k] = Next1(g, k)
    <3>1. CASE k = 0
      BY <2>2, <3>1
    <3>2. CASE k # 0
      <4>1. g[k - 1] = f[k - 1]
        BY <3>2
      <4>2. Next1(g, k) = Next1(f, k)
        BY <4>1
      <4>3. g[k] = Next1(f, k)
        BY <2>2
      <4> QED BY <4>2, <4>3
    <3> QED BY <3>1, <3>2
  <2>4. g = [k \in 0 .. m |-> g[k]]
    OBVIOUS
  <2> HIDE DEF g
  <2>5. [k \in 0 .. m |-> g[k]] = [k \in 0 .. m |-> Next1(g, k)]
    BY <2>3
  <2> QED BY <2>4, <2>5
<1> DEFINE S == {m \in Nat : Good(m)}
           F == CHOOSE f : f = [k \in 0 .. Len(s) |-> Next1(f, k)]
<1>3. Good(Len(s))
  <2> HIDE DEF Good
  <2>1. 0 \in S
    BY <1>1
  <2>2. \A m \in 1 .. Len(s) : m - 1 \in S => m \in S
    BY <1>2
  <2> HIDE DEF S
  <2>3. Len(s) \in 0 .. Len(s) /\ Len(s) \in Nat
    OBVIOUS
  <2>4. Len(s) \in S
    BY <2>1, <2>2, <2>3, Upwards
  <2> QED BY <2>4 DEF S
<1>4. Newer(last, s) = F[Len(s)]
  BY DEF Newer
<1>5. F = [k \in 0 .. Len(s) |-> Next1(F, k)]
  <2> HIDE DEF Next1
  <2> QED BY <1>3, Zenon
<1> HIDE DEF F
<1>6. \A k \in 0 .. Len(s) : F[k] = Next1(F, k)
  BY <1>5, Zenon
<1> QED BY <1>4, <1>6

\* q is the filtered prefix of length k: exactly the later ids, in the order of s.
Kept(q, last, s, k) ==
    /\ q \in Seq(Nat)
    /\ \A a \in DOMAIN q : q[a] > last /\ \E c \in 1 .. k : q[a] = s[c]
    /\ \A c \in 1 .. k : s[c] > last => \E a \in DOMAIN q : q[a] = s[c]
    /\ \A a, b \in DOMAIN q : a < b => \E c, d \in 1 .. k : c < d /\ s[c] = q[a] /\ s[d] = q[b]

LEMMA KeptAppend ==
    ASSUME NEW last \in Nat, NEW s \in Seq(Nat), NEW k \in 1 .. Len(s), NEW p,
           Kept(p, last, s, k - 1), s[k] > last
    PROVE  Kept(Append(p, s[k]), last, s, k)
<1>1. /\ s[k] \in Nat /\ k \in 1 .. k
      /\ \A c \in 1 .. k : c \in 1 .. k - 1 \/ c = k
      /\ \A c \in 1 .. k - 1 : c \in 1 .. k /\ c < k
  OBVIOUS
<1> DEFINE q == Append(p, s[k])
           n == Len(p) + 1
<1>2. p \in Seq(Nat)
  BY DEF Kept
<1>3. /\ q \in Seq(Nat) /\ n \in DOMAIN q /\ q[n] = s[k]
      /\ \A a \in DOMAIN q : a \in DOMAIN p \/ a = n
      /\ \A a \in DOMAIN p : a \in DOMAIN q /\ q[a] = p[a] /\ a < n
      /\ \A a \in DOMAIN q : ~ (n < a)
      /\ ~ (n < n)
  BY <1>1, <1>2
<1> HIDE DEF q, n
<1>4. \A a \in DOMAIN q : q[a] > last /\ \E c \in 1 .. k : q[a] = s[c]
  <2>1. ASSUME NEW a \in DOMAIN p PROVE q[a] > last /\ \E c \in 1 .. k : q[a] = s[c]
    <3>1. PICK c \in 1 .. k - 1 : p[a] = s[c]
      BY DEF Kept
    <3> QED BY <1>1, <1>3, <3>1 DEF Kept
  <2> QED BY <1>1, <1>3, <2>1
<1>5. \A c \in 1 .. k : s[c] > last => \E a \in DOMAIN q : q[a] = s[c]
  <2>1. ASSUME NEW c \in 1 .. k - 1, s[c] > last PROVE \E a \in DOMAIN q : q[a] = s[c]
    <3>1. PICK a \in DOMAIN p : p[a] = s[c]
      BY <2>1 DEF Kept
    <3> QED BY <1>3, <3>1
  <2> QED BY <1>1, <1>3, <2>1
<1>6. ASSUME NEW a \in DOMAIN q, NEW b \in DOMAIN q, a < b
      PROVE  \E c, d \in 1 .. k : c < d /\ s[c] = q[a] /\ s[d] = q[b]
  <2>1. a \in DOMAIN p
    BY <1>3, <1>6
  <2>2. CASE b \in DOMAIN p
    <3>1. PICK c \in 1 .. k - 1, d \in 1 .. k - 1 : c < d /\ s[c] = p[a] /\ s[d] = p[b]
      BY <1>6, <2>1, <2>2 DEF Kept
    <3> QED BY <1>1, <1>3, <2>1, <2>2, <3>1
  <2>3. CASE b = n
    <3>1. PICK c \in 1 .. k - 1 : p[a] = s[c]
      BY <2>1 DEF Kept
    <3> QED BY <1>1, <1>3, <2>1, <2>3, <3>1
  <2> QED BY <1>3, <2>2, <2>3
<1>7. Kept(q, last, s, k)
  BY <1>3, <1>4, <1>5, <1>6 DEF Kept
<1> QED BY <1>7 DEF q

LEMMA KeptSkip ==
    ASSUME NEW last \in Nat, NEW s \in Seq(Nat), NEW k \in 1 .. Len(s), NEW p,
           Kept(p, last, s, k - 1), ~ (s[k] > last)
    PROVE  Kept(p, last, s, k)
<1>1. /\ \A c \in 1 .. k : c \in 1 .. k - 1 \/ c = k
      /\ \A c \in 1 .. k - 1 : c \in 1 .. k
  OBVIOUS
<1> QED BY <1>1 DEF Kept

\* The filter keeps exactly the later ids, in the order of the snapshot.
LEMMA NewerFacts ==
    ASSUME NEW last \in Nat, NEW s \in Seq(Nat)
    PROVE  Kept(Newer(last, s), last, s, Len(s))
<1>1. PICK f : /\ Newer(last, s) = f[Len(s)]
               /\ \A k \in 0 .. Len(s) :
                     f[k] = IF k = 0 THEN <<>>
                            ELSE IF s[k] > last THEN Append(f[k - 1], s[k]) ELSE f[k - 1]
  BY NewerPrefixes
<1> DEFINE S == {k \in Nat : Kept(f[k], last, s, k)}
<1>2. 0 \in S
  <2>1. f[0] = <<>>
    BY <1>1
  <2>2. Kept(<<>>, last, s, 0)
    BY DEF Kept
  <2> QED BY <2>1, <2>2
<1>3. ASSUME NEW k \in 1 .. Len(s), k - 1 \in S PROVE k \in S
  <2> DEFINE p == f[k - 1]
  <2>1. Kept(p, last, s, k - 1)
    BY <1>3
  <2>2. k \in 0 .. Len(s) /\ k # 0 /\ k \in Nat
    OBVIOUS
  <2>3. f[k] = IF s[k] > last THEN Append(p, s[k]) ELSE p
    BY <1>1, <2>2, Zenon
  <2> HIDE DEF p
  <2>4. CASE s[k] > last
    <3>1. Kept(Append(p, s[k]), last, s, k)
      BY <2>1, <2>4, KeptAppend
    <3> QED BY <2>2, <2>3, <2>4, <3>1
  <2>5. CASE ~ (s[k] > last)
    <3>1. Kept(p, last, s, k)
      BY <2>1, <2>5, KeptSkip
    <3> QED BY <2>2, <2>3, <2>5, <3>1
  <2> QED BY <2>4, <2>5
<1>4. Len(s) \in Nat /\ Len(s) \in 0 .. Len(s)
  OBVIOUS
<1>5. Len(s) \in S
  <2> HIDE DEF S
  <2> QED BY <1>2, <1>3, <1>4, Upwards
<1> QED BY <1>1, <1>5
-----------------------------------------------------------------------------
(* Types.                                                                   *)

USE DEF Synthetic

\* Event ids are positive; 0 is the id of synthetic events.
LEMMA Ids == Id \subseteq Nat /\ 0 \notin Id /\ \A i \in Id : i \in Nat /\ i >= 1 /\ i <= LastId
BY DEF Id

\* Members of a sequence, as a set and by their positions.
LEMMA InRange ==
    ASSUME NEW S, NEW s \in Seq(S)
    PROVE  /\ Range(s) \subseteq S
           /\ \A a \in DOMAIN s : s[a] \in S /\ s[a] \in Range(s)
           /\ \A x \in Range(s) : \E a \in DOMAIN s : s[a] = x
           /\ s # <<>> => /\ 1 \in DOMAIN s /\ Head(s) = s[1] /\ Len(s) \in DOMAIN s
                          /\ Last(s) = s[Len(s)]
BY DEF Range, Last

\* What a replay of event ids is: nothing, the lagged event and the whole buffer, or the
\* later ids of the buffer.
LEMMA ReplayCases ==
    ASSUME NEW last \in Id \cup {Synthetic}, NEW s \in Seq(Id)
    PROVE  \/ Replay(last, s) = <<>> /\ last = 0
           \/ Replay(last, s) = <<>> /\ s = <<>>
           \/ Replay(last, s) = <<>> /\ s # <<>> /\ s[Len(s)] <= last
           \/ Replay(last, s) = <<Synthetic>> \o s /\ s # <<>> /\ last # 0 /\ last + 1 < s[1]
           \/ /\ Replay(last, s) = Newer(last, s) /\ Newer(last, s) \in Seq(Id)
              /\ last # 0 /\ s # <<>> /\ s[1] <= last + 1
<1>1. s \in Seq(Nat) /\ last \in Nat
  <2>1. Id \subseteq Nat
    BY Ids
  <2>2. Seq(Id) \subseteq Seq(Nat)
    BY <2>1, SeqMonotonic
  <2>3. last \in Nat
    BY <2>1
  <2> QED BY <2>2, <2>3
<1> DEFINE q == Newer(last, s)
<1>2. q \in Seq(Id)
  <2>1. Kept(q, last, s, Len(s))
    BY <1>1, NewerFacts
  <2> HIDE DEF q
  <2>2. q \in Seq(Nat) /\ \A a \in DOMAIN q : \E c \in 1 .. Len(s) : q[a] = s[c]
    BY <2>1 DEF Kept
  <2>3. \A c \in 1 .. Len(s) : s[c] \in Id
    <3> HIDE DEF Id
    <3> QED OBVIOUS
  <2>4. \A a \in 1 .. Len(q) : q[a] \in Id
    BY <2>2, <2>3
  <2> QED BY <2>2, <2>4, SeqDef
<1>3. s # <<>> => Head(s) = s[1] /\ s[1] \in Nat /\ Last(s) = s[Len(s)] /\ s[Len(s)] \in Nat
  BY <1>1 DEF Last
<1> HIDE DEF q
<1>4. Replay(last, s) = IF last = 0 \/ s = <<>> THEN <<>>
                        ELSE IF last + 1 < Head(s) THEN <<Synthetic>> \o s
                        ELSE IF last >= Last(s) THEN <<>>
                        ELSE q
  BY DEF Replay, q
<1>5. CASE last = 0 \/ s = <<>>
  BY <1>4, <1>5
<1>6. CASE ~ (last = 0 \/ s = <<>>) /\ last + 1 < Head(s)
  BY <1>3, <1>4, <1>6
<1>7. CASE ~ (last = 0 \/ s = <<>>) /\ ~ (last + 1 < Head(s)) /\ last >= Last(s)
  BY <1>1, <1>3, <1>4, <1>7
<1>8. CASE ~ (last = 0 \/ s = <<>>) /\ ~ (last + 1 < Head(s)) /\ ~ (last >= Last(s))
  BY <1>1, <1>2, <1>3, <1>4, <1>8 DEF q
<1> QED BY <1>5, <1>6, <1>7, <1>8

\* The buffer with one more event, the oldest one evicted if need be.
Onto(s, i) == Append(IF Len(s) >= Cap THEN Tail(s) ELSE s, i)

LEMMA Pushed ==
    ASSUME NEW s \in Seq(Id), Len(s) <= Cap, NEW i \in Id
    PROVE  LET t == Onto(s, i) IN
           /\ t \in Seq(Id) /\ Len(t) <= Cap /\ t # <<>> /\ t[Len(t)] = i
           /\ \/ /\ Len(t) = Len(s) + 1
                 /\ \A a \in 1 .. Len(s) : t[a] = s[a]
              \/ /\ Len(t) = Len(s) /\ Len(s) >= 1
                 /\ \A a \in 1 .. Len(s) - 1 : t[a] = s[a + 1]
<1> DEFINE t == Onto(s, i)
<1>0. Cap \in Nat /\ Cap >= 1 /\ Len(s) \in Nat
  BY McpStreamAssumption
<1>1. CASE Len(s) >= Cap
  <2> DEFINE r == Tail(s)
  <2>1. Len(s) >= 1 /\ s # <<>>
    BY <1>0, <1>1
  <2>2. r \in Seq(Id) /\ Len(r) = Len(s) - 1 /\ \A a \in 1 .. Len(s) - 1 : r[a] = s[a + 1]
    BY <2>1, HeadTailProperties
  <2> HIDE DEF r
  <2>3. t = Append(r, i)
    BY <1>1 DEF r, Onto
  <2> HIDE DEF t
  <2>4. t \in Seq(Id) /\ Len(t) = Len(r) + 1 /\ t[Len(r) + 1] = i /\ \A a \in 1 .. Len(r) : t[a] = r[a]
    BY <2>2, <2>3, AppendProperties
  <2>5. Len(t) = Len(s) /\ t # <<>>
    BY <1>0, <2>1, <2>2, <2>4
  <2>6. \A a \in 1 .. Len(s) - 1 : t[a] = s[a + 1]
    BY <2>2, <2>4
  <2>7. t[Len(t)] = i /\ Len(t) <= Cap
    BY <1>0, <2>2, <2>4
  <2> QED BY <2>1, <2>4, <2>5, <2>6, <2>7 DEF t
<1>2. CASE ~ (Len(s) >= Cap)
  <2>1. t = Append(s, i)
    BY <1>2 DEF Onto
  <2> HIDE DEF t
  <2>2. /\ t \in Seq(Id) /\ Len(t) = Len(s) + 1 /\ t[Len(t)] = i /\ t # <<>>
        /\ \A a \in 1 .. Len(s) : t[a] = s[a]
    BY <1>0, <2>1, AppendProperties
  <2>3. Len(t) <= Cap
    BY <1>0, <1>2, <2>2
  <2> QED BY <2>2, <2>3 DEF t
<1> QED BY <1>1, <1>2

\* The shape of the state that the steps below rely on.
LEMMA Shape ==
    ASSUME TypeOK
    PROVE  /\ nextId \in Nat /\ nextId >= 1 /\ LastId \in Nat /\ Cap \in Nat /\ Cap >= 1
           /\ Plain \subseteq Id /\ 0 \notin Id /\ \A i \in Id : i \in Nat /\ i >= 1
           /\ Len(buffer) \in Nat /\ DOMAIN buffer = 1 .. Len(buffer)
           /\ Len(sent) \in Nat /\ DOMAIN sent = 1 .. Len(sent)
           /\ Len(queue) \in Nat /\ DOMAIN queue = 1 .. Len(queue)
           /\ rx \in Nat /\ rx <= Len(sent) /\ emitted \in Nat /\ cursor \in Nat
           /\ \A a \in DOMAIN buffer : buffer[a] \in Id /\ buffer[a] \in Range(buffer)
           /\ \A a \in DOMAIN sent : sent[a] \in Id /\ sent[a] \in Range(sent)
           /\ \A a \in DOMAIN queue : queue[a] \in Nat /\ queue[a] \in Range(queue)
           /\ \A a \in DOMAIN queue : queue[a] # 0 => queue[a] \in Id
           /\ Range(buffer) \subseteq Id /\ Range(sent) \subseteq Id
           /\ \A p \in Publishing : p \in Publisher /\ own[p] \in Id
           /\ \A p \in Publisher : at[p] \in {"push", "send"} <=> p \in Publishing
           /\ \A j \in got \cup excused \cup overlapped \cup halfSent : j \in Id /\ j < nextId
<1>0. \A i \in Id \cup {0} : i \in Nat
  BY DEF Id
<1>1. Plain \subseteq Id /\ 0 \notin Id /\ \A i \in Id : i \in Nat /\ i >= 1
  BY Ids DEF Plain
<1>2. LastId \in Nat /\ Cap \in Nat /\ Cap >= 1
  BY McpStreamAssumption
<1>3. nextId \in Nat /\ nextId >= 1
  <2>1. nextId \in 1 .. LastId + 1
    BY DEF TypeOK
  <2> QED BY <1>2, <2>1
<1>4. buffer \in Seq(Id) /\ sent \in Seq(Id) /\ queue \in Seq(Id \cup {0})
  BY DEF TypeOK
<1> HIDE DEF Id
<1>5. /\ Len(buffer) \in Nat /\ DOMAIN buffer = 1 .. Len(buffer)
      /\ Len(sent) \in Nat /\ DOMAIN sent = 1 .. Len(sent)
      /\ Len(queue) \in Nat /\ DOMAIN queue = 1 .. Len(queue)
  BY <1>4
<1>6. rx \in Nat /\ rx <= Len(sent) /\ emitted \in Nat /\ cursor \in Nat
  <2>1. rx \in 0 .. Len(sent)
    BY DEF TypeOK
  <2>2. {emitted, cursor} \subseteq Id \cup {0}
    BY DEF TypeOK
  <2>3. emitted \in Nat /\ cursor \in Nat
    BY <1>0, <2>2, Zenon
  <2> QED BY <1>5, <2>1, <2>3
<1>7. /\ \A a \in DOMAIN buffer : buffer[a] \in Id /\ buffer[a] \in Range(buffer)
      /\ Range(buffer) \subseteq Id
  BY <1>4, InRange
<1>8. /\ \A a \in DOMAIN sent : sent[a] \in Id /\ sent[a] \in Range(sent)
      /\ Range(sent) \subseteq Id
  BY <1>4, InRange
<1>9. \A a \in DOMAIN queue : queue[a] \in Id \cup {0} /\ queue[a] \in Range(queue)
  BY <1>4, InRange
<1>10. /\ \A a \in DOMAIN queue : queue[a] \in Nat /\ queue[a] \in Range(queue)
       /\ \A a \in DOMAIN queue : queue[a] # 0 => queue[a] \in Id
  BY <1>0, <1>9, Zenon
<1>11. /\ \A p \in Publishing : p \in Publisher /\ own[p] \in Id
       /\ \A p \in Publisher : at[p] \in {"push", "send"} <=> p \in Publishing
  BY DEF TypeOK, Publishing
<1>12. \A j \in got \cup excused \cup overlapped \cup halfSent : j \in Id /\ j < nextId
  BY DEF TypeOK
<1> QED BY <1>1, <1>2, <1>3, <1>5, <1>6, <1>7, <1>8, <1>10, <1>11, <1>12
-----------------------------------------------------------------------------
(* The invariant, action by action.                                         *)

IInv == TypeOK /\ StreamInv

LEMMA InvInit == Init => IInv
<1> SUFFICES ASSUME Init PROVE IInv
  OBVIOUS
<1>1. /\ LastId \in Nat /\ Cap \in Nat /\ 1 \in 1 .. LastId + 1 /\ Id \subseteq Nat /\ 0 \notin Id
      /\ Bridge \in Publisher
  BY McpStreamAssumption, Ids DEF Publisher
<1>2. Publishing = {}
  BY DEF Init, Publishing
<1>3. TypeOK
  <2>1. /\ at \in [Publisher -> {"off", "ready", "push", "send"}]
        /\ own \in [Publisher -> Id \cup {0}]
        /\ \A p \in Publisher : own[p] = 0
    BY DEF Init
  <2>2. /\ buffer = <<>> /\ sent = <<>> /\ queue = <<>>
        /\ <<>> \in Seq(Id) /\ Len(<<>>) = 0 /\ <<>> \in Seq(Id \cup {0})
    BY DEF Init
  <2>3. /\ nextId \in 1 .. LastId + 1 /\ stored \in BOOLEAN /\ needsInit \in BOOLEAN
        /\ filters \in BOOLEAN /\ stream \in {"closed", "subscribed", "open"}
        /\ {emitted, cursor} \subseteq Id \cup {0}
        /\ got \cup excused \cup overlapped \cup halfSent = {}
    BY <1>1 DEF Init
  <2>4. rx \in 0 .. Len(sent) /\ Len(buffer) <= Cap
    BY <1>1, <2>2, McpStreamAssumption DEF Init
  <2> QED BY <1>2, <2>1, <2>2, <2>3, <2>4 DEF TypeOK
<1>4. /\ buffer = <<>> /\ sent = <<>> /\ queue = <<>> /\ got = {} /\ nextId = 1 /\ emitted = 0
      /\ cursor = 0 /\ stream = "closed" /\ at[Bridge] = "ready"
  BY <1>1 DEF Init
<1>5. Plain = {} /\ \A i \in Id : ~ (i < nextId)
  <2>1. \A i \in Id : ~ (i < 1)
    BY Ids
  <2> QED BY <1>4, <2>1 DEF Plain
<1>6. PublishersInOrder
  BY <1>2, <1>5 DEF PublishersInOrder
<1>7. BufferInOrder
  BY <1>4, <1>5 DEF BufferInOrder, Ordered, Range
<1>8. StreamInOrder /\ OwedInOrder /\ PassedInOrder /\ BridgeInOrder
  BY <1>4, <1>5 DEF StreamInOrder, OwedInOrder, Owed, PassedInOrder, Passed, BridgeInOrder
<1> QED BY <1>3, <1>6, <1>7, <1>8 DEF IInv, StreamInv

\* What the invariant says of the ids that are about.
LEMMA Facts ==
    ASSUME IInv
    PROVE  /\ TypeOK /\ PublishersInOrder /\ BufferInOrder /\ StreamInOrder /\ OwedInOrder
           /\ PassedInOrder /\ BridgeInOrder
           /\ \A i \in Plain : i \in Id /\ i \in Nat /\ i < nextId
           /\ \A j \in got \cup Range(sent) \cup Range(buffer) \cup Range(queue) :
                 j \in Nat /\ j < nextId
           /\ \A p \in Publishing :
                 /\ own[p] \in Id /\ own[p] \in Nat /\ own[p] < nextId
                 /\ \A i \in Plain : i <= own[p]
                 /\ own[p] \in Plain =>
                      \A j \in got \cup Range(sent) \cup Range(buffer) \cup Range(queue) :
                          j <= own[p]
<1>1. TypeOK /\ PublishersInOrder /\ BufferInOrder /\ StreamInOrder /\ OwedInOrder
      /\ PassedInOrder /\ BridgeInOrder
  BY DEF IInv, StreamInv
<1>2. \A i \in Plain : i \in Id /\ i \in Nat /\ i < nextId
  BY <1>1, Shape DEF Plain
<1>3. \A j \in got \cup Range(sent) \cup Range(buffer) \cup Range(queue) :
         j \in Nat /\ j < nextId
  <2>1. \A j \in Range(queue) : j \in Nat
    BY <1>1, Shape DEF Range
  <2> QED BY <1>1, <2>1, Shape DEF BufferInOrder
<1>4. ASSUME NEW p \in Publishing
      PROVE  /\ own[p] \in Id /\ own[p] \in Nat /\ own[p] < nextId
             /\ \A i \in Plain : i <= own[p]
             /\ own[p] \in Plain =>
                  \A j \in got \cup Range(sent) \cup Range(buffer) \cup Range(queue) :
                      j <= own[p]
  <2>1. own[p] \in Id /\ own[p] \in Nat /\ own[p] < nextId
    BY <1>1, Shape DEF PublishersInOrder
  <2>2. \A i \in Plain : i <= own[p]
    BY <1>1, <1>2, <2>1 DEF PublishersInOrder
  <2>3. own[p] \in Plain => own[p] = nextId - 1
    BY <1>1 DEF PublishersInOrder, Plain
  <2>4. ASSUME own[p] \in Plain,
               NEW j \in got \cup Range(sent) \cup Range(buffer) \cup Range(queue)
        PROVE  j <= own[p]
    <3>1. j \in Nat /\ j < nextId /\ nextId \in Nat
      BY <1>1, <1>3, Shape
    <3> QED BY <2>3, <2>4, <3>1
  <2> QED BY <2>1, <2>2, <2>4
<1> QED BY <1>1, <1>2, <1>3, <1>4

\* A publisher takes the next id.
LEMMA TakeIdKeeps ==
    ASSUME IInv, NEW p \in Publisher, at[p] = "ready", TakeId(p)
    PROVE  IInv'
<1>1. TypeOK /\ PublishersInOrder /\ BufferInOrder /\ StreamInOrder /\ OwedInOrder
      /\ PassedInOrder /\ BridgeInOrder
  BY DEF IInv, StreamInv
<1>2. /\ UNCHANGED <<stored, buffer, sent, stream, rx, queue, emitted, needsInit, filters,
                     cursor, got, excused, halfSent>>
      /\ nextId' = nextId + 1 /\ own' = [own EXCEPT ![p] = nextId]
      /\ at' = [at EXCEPT ![p] = "push"]
      /\ nextId <= LastId
      /\ overlapped' = overlapped \cup
           (IF Publishing = {} THEN {} ELSE {nextId} \cup {own[q] : q \in Publishing})
  BY DEF TakeId, receiver, client
<1>3. /\ own'[p] = nextId /\ at'[p] = "push" /\ nextId \in Nat /\ nextId \in Id
      /\ \A q \in Publisher \ {p} : own'[q] = own[q] /\ at'[q] = at[q]
  BY <1>1, <1>2, Shape DEF TypeOK, Id
<1>4. /\ p \notin Publishing /\ Publishing' = Publishing \cup {p}
      /\ \A q \in Publishing : q \in Publisher /\ q # p /\ own'[q] = own[q] /\ at'[q] = at[q]
  BY <1>3 DEF Publishing
<1>5. /\ \A i \in Plain' : i \in Plain \/ (i = nextId /\ Publishing = {})
      /\ \A q \in Publishing : own[q] \in overlapped' /\ nextId \in overlapped'
      /\ overlapped' \subseteq {i \in Id : i < nextId'}
  <2>1. \A q \in Publishing : own[q] \in Id /\ own[q] < nextId
    BY <1>1, Shape DEF PublishersInOrder
  <2>2. \A q \in Publishing : own[q] \in overlapped' /\ nextId \in overlapped'
    BY <1>2
  <2>3. \A i \in overlapped' : i \in overlapped \/ i = nextId \/ \E q \in Publishing : i = own[q]
    BY <1>2
  <2>4. overlapped' \subseteq {i \in Id : i < nextId'}
    <3>1. ASSUME NEW i \in overlapped' PROVE i \in Id /\ (i < nextId \/ i = nextId)
      BY <1>1, <1>3, <2>1, <2>3, Shape
    <3>2. ASSUME NEW i \in Id, i < nextId \/ i = nextId PROVE i < nextId'
      BY <1>2, <1>3, <3>2, Ids
    <3> QED BY <3>1, <3>2
  <2>5. ASSUME NEW i \in Plain' PROVE i \in Plain \/ (i = nextId /\ Publishing = {})
    <3>1. i \in Id /\ i < nextId + 1 /\ i \notin overlapped' /\ i \notin overlapped
      BY <1>2 DEF Plain
    <3>2. i < nextId \/ i = nextId
      <4>1. i \in Nat
        BY <3>1, Ids
      <4> QED BY <1>3, <3>1, <4>1
    <3>3. i = nextId => Publishing = {}
      BY <2>2, <3>1
    <3>4. i < nextId => i \in Plain
      BY <3>1 DEF Plain
    <3> QED BY <3>2, <3>3, <3>4
  <2> QED BY <2>2, <2>4, <2>5
<1>6. /\ \A i \in Plain : i \in Id /\ i \in Nat /\ i < nextId
      /\ \A j \in got \cup Range(sent) \cup Range(buffer) \cup Range(queue) :
            j < nextId /\ j # nextId /\ ~ (nextId <= j)
      /\ \A q \in Publishing : own[q] \in Nat /\ own[q] < nextId /\ own[q] # nextId
  BY <1>3, Facts
<1>7. TypeOK'
  <2>1. nextId' \in 1 .. LastId + 1
    BY <1>1, <1>2, Shape
  <2>2. /\ at' \in [Publisher -> {"off", "ready", "push", "send"}]
        /\ own' \in [Publisher -> Id \cup {0}]
    BY <1>1, <1>2, <1>3 DEF TypeOK
  <2>3. \A q \in Publisher : own'[q] # 0 <=> q \in Publishing'
    BY <1>1, <1>3, <1>4, Shape DEF TypeOK
  <2>4. got \cup excused \cup overlapped' \cup halfSent \subseteq {i \in Id : i < nextId'}
    <3>1. ASSUME NEW i \in got \cup excused \cup halfSent PROVE i \in Id /\ i < nextId'
      <4>1. i \in Id /\ i < nextId /\ i \in Nat
        BY <1>1, Shape
      <4> QED BY <1>2, <1>3, <4>1
    <3> QED BY <1>5, <3>1
  <2> QED BY <1>1, <1>2, <2>1, <2>2, <2>3, <2>4 DEF TypeOK
<1>8. PublishersInOrder'
  <2>1. ASSUME NEW q \in Publishing
        PROVE  /\ own'[q] < nextId' /\ own'[q] \notin Range(sent')
               /\ own'[q] \notin overlapped' => Publishing' = {q} /\ own'[q] = nextId' - 1
               /\ \A i \in Plain' \ {own'[q]} : i < own'[q]
               /\ \A r \in Publishing' \ {q} : own'[r] # own'[q]
               /\ at'[q] = "push" => own'[q] \notin Range(buffer') \cup Range(queue') \cup got'
    <3>1. own'[q] < nextId'
      BY <1>2, <1>3, <1>4, <1>6
    <3>2. \A i \in Plain' \ {own'[q]} : i < own'[q]
      BY <1>1, <1>4, <1>5 DEF PublishersInOrder
    <3>3. \A r \in Publishing' \ {q} : own'[r] # own'[q]
      BY <1>1, <1>3, <1>4, <1>6 DEF PublishersInOrder
    <3> QED BY <1>1, <1>2, <1>4, <1>5, <3>1, <3>2, <3>3 DEF PublishersInOrder
  <2>2. /\ own'[p] < nextId' /\ own'[p] \notin Range(sent')
        /\ own'[p] \notin overlapped' => Publishing' = {p} /\ own'[p] = nextId' - 1
        /\ \A i \in Plain' \ {own'[p]} : i < own'[p]
        /\ \A r \in Publishing' \ {p} : own'[r] # own'[p]
        /\ at'[p] = "push" => own'[p] \notin Range(buffer') \cup Range(queue') \cup got'
    <3>1. own'[p] < nextId' /\ own'[p] = nextId' - 1
      BY <1>2, <1>3
    <3>2. own'[p] \notin overlapped' => Publishing' = {p}
      BY <1>3, <1>4, <1>5
    <3>3. \A i \in Plain' \ {own'[p]} : i < own'[p]
      BY <1>3, <1>5, <1>6
    <3>4. \A r \in Publishing' \ {p} : own'[r] # own'[p]
      BY <1>3, <1>4, <1>6
    <3>5. own'[p] \notin Range(sent') \cup Range(buffer') \cup Range(queue') \cup got'
      BY <1>2, <1>3, <1>6
    <3> QED BY <3>1, <3>2, <3>3, <3>4, <3>5
  <2>3. ASSUME NEW i \in Id, i < nextId'
        PROVE  i \in Range(sent') \/ \E q \in Publishing' : own'[q] = i
    <3>1. i < nextId \/ i = nextId
      BY <1>1, <1>2, <1>3, <2>3, Shape
    <3>2. CASE i < nextId
      BY <1>1, <1>2, <1>4, <3>2 DEF PublishersInOrder
    <3>3. CASE i = nextId
      BY <1>3, <1>4, <3>3
    <3> QED BY <3>1, <3>2, <3>3
  <2> QED BY <1>4, <2>1, <2>2, <2>3 DEF PublishersInOrder
<1>9. BufferInOrder'
  <2>1. \A i \in Plain', j \in Range(sent) \cup Range(buffer) \cup Range(queue) :
           i <= j => i \in Plain
    BY <1>5, <1>6
  <2>2. Ordered(sent)' /\ Ordered(buffer)' /\ Ordered(queue)'
    <3>1. ASSUME NEW i \in Plain', NEW a \in DOMAIN sent, NEW b \in DOMAIN sent,
                 a < b, i <= sent[a]
          PROVE  i < sent[b]
      BY <1>1, <2>1, <3>1, Shape DEF BufferInOrder, Ordered
    <3>2. ASSUME NEW i \in Plain', NEW a \in DOMAIN buffer, NEW b \in DOMAIN buffer,
                 a < b, i <= buffer[a]
          PROVE  i < buffer[b]
      BY <1>1, <2>1, <3>2, Shape DEF BufferInOrder, Ordered
    <3>3. ASSUME NEW i \in Plain', NEW a \in DOMAIN queue, NEW b \in DOMAIN queue,
                 a < b, i <= queue[a]
          PROVE  i < queue[b]
      BY <1>1, <2>1, <3>3, Shape DEF BufferInOrder, Ordered
    <3> QED BY <1>2, <3>1, <3>2, <3>3 DEF Ordered
  <2>3. \A i \in Range(sent') \cup Range(buffer') \cup Range(queue') : i < nextId'
    <3>1. \A i \in Range(sent) \cup Range(buffer) \cup Range(queue) : i \in Nat /\ i < nextId
      <4>1. \A i \in Range(queue) : i \in Nat
        BY <1>1, Shape DEF Range
      <4> QED BY <1>1, <4>1, Shape DEF BufferInOrder
    <3>2. \A i \in Range(sent) \cup Range(buffer) \cup Range(queue) : i < nextId + 1
      BY <1>3, <3>1
    <3> QED BY <1>2, <3>2
  <2>4. ASSUME NEW i \in Plain'
        PROVE  \/ i \in Range(buffer')
               \/ \E q \in Publishing' : at'[q] = "push" /\ own'[q] = i
               \/ buffer' # <<>> /\ \A a \in DOMAIN buffer' : i < buffer'[a]
    <3>1. CASE i \in Plain
      <4>1. \/ i \in Range(buffer)
            \/ \E q \in Publishing : at[q] = "push" /\ own[q] = i
            \/ buffer # <<>> /\ \A a \in DOMAIN buffer : i < buffer[a]
        BY <1>1, <3>1 DEF BufferInOrder
      <4> QED BY <1>2, <1>4, <4>1
    <3>2. CASE i = nextId
      BY <1>3, <1>4, <3>2
    <3> QED BY <1>5, <3>1, <3>2
  <2> QED BY <2>2, <2>3, <2>4 DEF BufferInOrder
<1>10. StreamInOrder'
  BY <1>1, <1>2 DEF StreamInOrder
<1>11. OwedInOrder'
  <2>1. Taken' = Taken /\ \A k \in 1 .. rx : sent[k] \in Range(sent)
    <3>1. \A k \in 1 .. rx : k \in DOMAIN sent
      BY <1>1, Shape
    <3> QED BY <1>1, <1>2, <3>1, Shape DEF Taken
  <2>2. ASSUME NEW i \in Owed' PROVE i \in Owed \/ i = nextId
    BY <1>2, <1>5 DEF Owed
  <2>3. nextId \notin Taken /\ \A a \in DOMAIN queue : queue[a] < nextId
    BY <1>1, <1>6, <2>1, Shape DEF Taken
  <2>4. \A i \in Owed', j \in got' : j < i
    BY <1>1, <1>2, <1>6, <2>2 DEF OwedInOrder
  <2>5. stream' = "subscribed" /\ cursor' = 0 => Owed' \cap Taken' = {}
    BY <1>1, <1>2, <2>1, <2>2, <2>3 DEF OwedInOrder
  <2>6. ASSUME stream' = "open", NEW i \in Owed' PROVE StillToCome(i)'
    BY <1>1, <1>2, <2>1, <2>2, <2>3, <2>6 DEF OwedInOrder, StillToCome
  <2> QED BY <2>4, <2>5, <2>6 DEF OwedInOrder
<1>12. PassedInOrder'
  <2>1. ASSUME NEW i \in Passed' PROVE i \in Passed
    BY <1>2, <1>5, <1>6 DEF Passed
  <2>2. Taken' = Taken
    BY <1>2 DEF Taken
  <2> QED BY <1>1, <1>2, <2>1, <2>2 DEF PassedInOrder
<1>13. BridgeInOrder'
  BY <1>1, <1>2, <1>3, McpStreamAssumption DEF BridgeInOrder, Publisher
<1> QED BY <1>7, <1>8, <1>9, <1>10, <1>11, <1>12, <1>13 DEF IInv, StreamInv

\* It pushes its event to the buffer.
LEMMA PushKeeps ==
    ASSUME IInv, NEW p \in Publisher, Push(p)
    PROVE  IInv'
<1>1. TypeOK /\ PublishersInOrder /\ BufferInOrder /\ StreamInOrder /\ OwedInOrder
      /\ PassedInOrder /\ BridgeInOrder
  BY Facts
<1>2. /\ UNCHANGED <<stored, nextId, sent, own, stream, rx, queue, emitted, needsInit, filters,
                     cursor, got, excused, overlapped, halfSent>>
      /\ at[p] = "push" /\ at' = [at EXCEPT ![p] = "send"]
      /\ buffer' = Append(IF Len(buffer) >= Cap THEN Tail(buffer) ELSE buffer, own[p])
  BY DEF Push, receiver, client, history
<1>3. at'[p] = "send" /\ \A q \in Publisher \ {p} : at'[q] = at[q]
  BY <1>1, <1>2 DEF TypeOK
<1>4. /\ p \in Publishing /\ Publishing' = Publishing
      /\ \A q \in Publishing : q \in Publisher /\ (at'[q] = "push" <=> q # p /\ at[q] = "push")
      /\ Plain' = Plain
  BY <1>2, <1>3 DEF Publishing, Plain
<1> DEFINE i0 == own[p]
<1>5. /\ i0 \in Id /\ i0 \in Nat /\ i0 < nextId /\ \A i \in Plain : i <= i0 /\ i \in Nat
      /\ i0 \notin Range(buffer)
      /\ i0 \in Plain => \A j \in Range(buffer) : j <= i0
      /\ \A q \in Publishing \ {p} : own[q] # i0
  BY <1>1, <1>2, <1>4, Facts DEF PublishersInOrder
<1> HIDE DEF i0
<1>6. buffer \in Seq(Id) /\ Len(buffer) <= Cap /\ Len(buffer) \in Nat
      /\ \A a \in 1 .. Len(buffer) : buffer[a] \in Nat /\ buffer[a] \in Range(buffer)
  BY <1>1, Shape DEF TypeOK
<1> DEFINE n == Len(buffer)
           m == Len(buffer')
\* The new buffer is the old one from d + 1 on, and the new id.
<1>7. /\ buffer' \in Seq(Id) /\ m <= Cap /\ buffer' # <<>> /\ buffer'[m] = i0
      /\ m \in Nat /\ m >= 1 /\ DOMAIN buffer' = 1 .. m
      /\ \A j \in Range(buffer') : j \in Range(buffer) \/ j = i0
      /\ \E d \in {0, 1} : /\ m + d = n + 1
                           /\ \A a \in 1 .. n - d : buffer'[a] = buffer[a + d] /\ a + d \in 1 .. n
  <2>1. /\ buffer' \in Seq(Id) /\ m <= Cap /\ buffer' # <<>> /\ buffer'[m] = i0
        /\ \/ m = n + 1 /\ \A a \in 1 .. n : buffer'[a] = buffer[a]
           \/ m = n /\ n >= 1 /\ \A a \in 1 .. n - 1 : buffer'[a] = buffer[a + 1]
    <3>1. own[p] \in Id
      BY <1>5 DEF i0
    <3>2. /\ buffer' \in Seq(Id) /\ Len(buffer') <= Cap /\ buffer' # <<>>
          /\ buffer'[Len(buffer')] = own[p]
          /\ \/ /\ Len(buffer') = Len(buffer) + 1
                /\ \A a \in 1 .. Len(buffer) : buffer'[a] = buffer[a]
             \/ /\ Len(buffer') = Len(buffer) /\ Len(buffer) >= 1
                /\ \A a \in 1 .. Len(buffer) - 1 : buffer'[a] = buffer[a + 1]
      <4>1. buffer' = Onto(buffer, own[p])
        BY <1>2 DEF Onto
      <4> QED BY <1>6, <3>1, <4>1, Pushed
    <3> QED BY <3>2 DEF i0
  <2>2. m \in Nat /\ m >= 1 /\ DOMAIN buffer' = 1 .. m
    BY <2>1, <1>6
  <2> HIDE DEF n, m
  <2>3. n \in Nat
    BY <1>6 DEF n
  <2>4. \E d \in {0, 1} : /\ m + d = n + 1
                          /\ \A a \in 1 .. n - d : buffer'[a] = buffer[a + d] /\ a + d \in 1 .. n
    BY <2>1, <2>2, <2>3
  <2>5. ASSUME NEW a \in DOMAIN buffer' PROVE buffer'[a] \in Range(buffer) \/ buffer'[a] = i0
    <3>1. a = m \/ a \in 1 .. m - 1
      BY <2>2
    <3>2. ASSUME a \in 1 .. m - 1 PROVE buffer'[a] \in Range(buffer)
      <4>1. PICK d \in {0, 1} : /\ m + d = n + 1
                                /\ \A b \in 1 .. n - d : buffer'[b] = buffer[b + d] /\ b + d \in 1 .. n
        BY <2>4
      <4>2. a \in 1 .. n - d
        BY <2>2, <2>3, <3>2, <4>1
      <4> QED BY <1>6, <4>1, <4>2 DEF n
    <3> QED BY <2>1, <3>1, <3>2
  <2> QED BY <2>1, <2>2, <2>4, <2>5 DEF Range
<1> HIDE DEF n, m
<1>8. TypeOK'
  BY <1>1, <1>2, <1>3, <1>4, <1>7 DEF TypeOK, m
<1>9. PublishersInOrder'
  <2>1. ASSUME NEW q \in Publishing, at'[q] = "push"
        PROVE  own[q] \notin Range(buffer') \cup Range(queue) \cup got
    BY <1>1, <1>4, <1>5, <1>7, <2>1 DEF PublishersInOrder
  <2> QED BY <1>1, <1>2, <1>4, <2>1 DEF PublishersInOrder
<1>10. BufferInOrder'
  <2>1. PICK d \in {0, 1} : /\ m + d = n + 1
                            /\ \A a \in 1 .. n - d : buffer'[a] = buffer[a + d] /\ a + d \in 1 .. n
    BY <1>7
  <2>2. n \in Nat /\ DOMAIN buffer = 1 .. n /\ \A a \in 1 .. n : buffer[a] \in Nat
    BY <1>6 DEF n
  <2>3. ASSUME NEW i \in Plain, NEW a \in 1 .. m, NEW b \in 1 .. m, a < b, i <= buffer'[a]
        PROVE  i < buffer'[b]
    <3>1. a \in 1 .. n - d /\ (b = m \/ b \in 1 .. n - d)
      BY <1>7, <2>1, <2>2, <2>3
    <3>2. CASE b = m
      <4>1. buffer[a + d] \in Range(buffer) /\ i <= buffer[a + d] /\ buffer[a + d] \in Nat
        BY <1>6, <2>1, <2>3, <3>1 DEF n
      <4>2. i # i0
        BY <1>5, <4>1
      <4> QED BY <1>5, <1>7, <3>2, <4>2
    <3>3. CASE b \in 1 .. n - d
      <4>1. a + d \in DOMAIN buffer /\ b + d \in DOMAIN buffer /\ a + d < b + d
        BY <2>1, <2>2, <2>3, <3>1, <3>3
      <4>2. i <= buffer[a + d]
        BY <2>1, <2>3, <3>1
      <4>3. i < buffer[b + d]
        BY <1>1, <4>1, <4>2 DEF BufferInOrder, Ordered
      <4> QED BY <2>1, <3>3, <4>3
    <3> QED BY <3>1, <3>2, <3>3
  <2>4. Ordered(buffer)'
    BY <1>4, <1>7, <2>3 DEF Ordered
  <2>5. ASSUME NEW i \in Plain
        PROVE  \/ i \in Range(buffer')
               \/ \E q \in Publishing : at'[q] = "push" /\ own[q] = i
               \/ buffer' # <<>> /\ \A a \in DOMAIN buffer' : i < buffer'[a]
    <3>1. ASSUME \A a \in 1 .. n - d : i < buffer'[a], i # i0
          PROVE  \A a \in DOMAIN buffer' : i < buffer'[a]
      <4>1. \A a \in DOMAIN buffer' : a \in 1 .. n - d \/ a = m
        BY <1>7, <2>1, <2>2
      <4>2. i < i0
        BY <1>5, <3>1
      <4> QED BY <1>7, <3>1, <4>1, <4>2
    <3>2. i0 \in Range(buffer')
      BY <1>7 DEF Range
    <3>3. CASE i \in Range(buffer)
      <4>1. PICK b \in 1 .. n : buffer[b] = i
        BY <2>2, <3>3 DEF Range
      <4>2. i # i0
        BY <1>5, <3>3
      <4>3. CASE b = d
        <5>1. \A a \in 1 .. n - d : b < a + d /\ a + d \in DOMAIN buffer /\ b \in DOMAIN buffer
          BY <2>1, <2>2, <4>1, <4>3
        <5>2. \A a \in 1 .. n - d : i < buffer[a + d]
          BY <1>1, <1>5, <4>1, <5>1 DEF BufferInOrder, Ordered
        <5>3. \A a \in 1 .. n - d : i < buffer'[a]
          BY <2>1, <5>2
        <5> QED BY <1>7, <3>1, <4>2, <5>3
      <4>4. CASE b # d
        <5>1. b - d \in 1 .. n - d /\ b - d + d = b /\ b - d \in 1 .. m
          <6>1. /\ n \in Nat /\ m \in Nat /\ m + d = n + 1 /\ (d = 0 \/ d = 1)
                /\ b \in Nat /\ b >= 1 /\ b <= n
            BY <1>7, <2>1, <2>2, <4>1
          <6> QED BY <4>4, <6>1
        <5>2. buffer'[b - d] = buffer[b]
          BY <2>1, <5>1
        <5> QED BY <1>7, <4>1, <5>1, <5>2 DEF Range
      <4> QED BY <4>3, <4>4
    <3>4. CASE \E q \in Publishing : at[q] = "push" /\ own[q] = i
      BY <1>4, <3>2, <3>4 DEF i0
    <3>5. CASE buffer # <<>> /\ \A a \in DOMAIN buffer : i < buffer[a]
      <4>1. \A a \in 1 .. n - d : i < buffer'[a]
        BY <2>1, <2>2, <3>5
      <4> QED BY <1>7, <3>1, <3>2, <4>1
    <3> QED BY <1>1, <3>3, <3>4, <3>5 DEF BufferInOrder
  <2>6. Ordered(sent)' /\ Ordered(queue)'
    BY <1>1, <1>2, <1>4 DEF BufferInOrder, Ordered
  <2>7. \A i \in Range(sent) \cup Range(buffer') \cup Range(queue) : i < nextId
    BY <1>1, <1>5, <1>7 DEF BufferInOrder
  <2> QED BY <1>2, <1>4, <2>4, <2>5, <2>6, <2>7 DEF BufferInOrder
<1>11. StreamInOrder'
  BY <1>1, <1>2 DEF StreamInOrder
<1>12. OwedInOrder'
  BY <1>1, <1>2, <1>4 DEF OwedInOrder, Owed, Taken, StillToCome
<1>13. PassedInOrder'
  BY <1>1, <1>2, <1>4 DEF PassedInOrder, Passed, Taken
<1>14. BridgeInOrder'
  BY <1>1, <1>2, <1>3, McpStreamAssumption DEF BridgeInOrder, Publisher
<1> QED BY <1>8, <1>9, <1>10, <1>11, <1>12, <1>13, <1>14 DEF IInv, StreamInv

\* It sends its event to the channel.
LEMMA SendKeeps ==
    ASSUME IInv, NEW p \in Publisher, Send(p)
    PROVE  IInv'
<1>1. TypeOK /\ PublishersInOrder /\ BufferInOrder /\ StreamInOrder /\ OwedInOrder
      /\ PassedInOrder /\ BridgeInOrder
  BY Facts
<1>2. /\ UNCHANGED <<stored, nextId, buffer, stream, rx, queue, emitted, needsInit, filters,
                     cursor, got, excused, overlapped, halfSent>>
      /\ at[p] = "send" /\ at' = [at EXCEPT ![p] = "ready"]
      /\ own' = [own EXCEPT ![p] = 0] /\ sent' = Append(sent, own[p])
  BY DEF Send, receiver, client, history
<1>3. /\ at'[p] = "ready" /\ own'[p] = 0
      /\ \A q \in Publisher \ {p} : at'[q] = at[q] /\ own'[q] = own[q]
  BY <1>1, <1>2 DEF TypeOK
<1>4. /\ p \in Publishing /\ Publishing' = Publishing \ {p}
      /\ \A q \in Publishing' : q \in Publisher /\ q # p /\ own'[q] = own[q] /\ at'[q] = at[q]
      /\ Plain' = Plain
  BY <1>2, <1>3 DEF Publishing, Plain
<1> DEFINE i0 == own[p]
           n == Len(sent)
<1>5. /\ i0 \in Id /\ i0 \in Nat /\ i0 < nextId /\ \A i \in Plain : i <= i0 /\ i \in Nat
      /\ i0 \notin Range(sent)
      /\ i0 \in Plain => \A j \in Range(sent) : j <= i0
      /\ \A q \in Publishing \ {p} : own[q] # i0
  BY <1>1, <1>4, Facts DEF PublishersInOrder
<1>6. /\ n \in Nat /\ DOMAIN sent = 1 .. n /\ rx \in 0 .. n /\ rx \in Nat
      /\ \A a \in 1 .. n : sent[a] \in Nat /\ sent[a] \in Range(sent)
  BY <1>1, Shape DEF TypeOK
<1>7. /\ sent' \in Seq(Id) /\ Len(sent') = n + 1 /\ sent'[n + 1] = i0
      /\ DOMAIN sent' = 1 .. n + 1 /\ \A a \in 1 .. n : sent'[a] = sent[a]
      /\ Range(sent') = Range(sent) \cup {i0}
  <2> HIDE DEF i0
  <2>1. /\ sent' \in Seq(Id) /\ Len(sent') = n + 1 /\ sent'[n + 1] = i0
        /\ \A a \in 1 .. n : sent'[a] = sent[a]
    <3>1. sent \in Seq(Id) /\ sent' = Append(sent, i0)
      BY <1>1, <1>2 DEF TypeOK, i0
    <3> QED BY <1>5, <3>1, AppendProperties
  <2> HIDE DEF n
  <2>2. /\ DOMAIN sent' = 1 .. n + 1 /\ n + 1 \in 1 .. n + 1
        /\ \A a \in 1 .. n + 1 : a \in 1 .. n \/ a = n + 1
        /\ \A a \in 1 .. n : a \in 1 .. n + 1
    BY <1>6, <2>1
  <2>3. Range(sent') = Range(sent) \cup {i0}
    BY <1>6, <2>1, <2>2 DEF Range
  <2> QED BY <2>1, <2>2, <2>3
<1> HIDE DEF i0, n
<1>8. TypeOK'
  <2>1. rx' \in 0 .. Len(sent')
    BY <1>2, <1>6, <1>7
  <2>2. own' \in [Publisher -> Id \cup {0}]
    BY <1>1, <1>2 DEF TypeOK
  <2>3. at' \in [Publisher -> {"off", "ready", "push", "send"}]
    BY <1>1, <1>2 DEF TypeOK
  <2>4. \A q \in Publisher : own'[q] # 0 <=> q \in Publishing'
    BY <1>1, <1>3, <1>4 DEF TypeOK
  <2> QED BY <1>1, <1>2, <1>7, <2>1, <2>2, <2>3, <2>4 DEF TypeOK
<1>9. PublishersInOrder'
  <2>1. ASSUME NEW q \in Publishing'
        PROVE  /\ own'[q] < nextId' /\ own'[q] \notin Range(sent')
               /\ own'[q] \in overlapped'
               /\ \A i \in Plain' \ {own'[q]} : i < own'[q]
               /\ \A r \in Publishing' \ {q} : own'[r] # own'[q]
               /\ at'[q] = "push" => own'[q] \notin Range(buffer') \cup Range(queue') \cup got'
    <3>1. q \in Publishing /\ q # p /\ own'[q] = own[q] /\ at'[q] = at[q]
      BY <1>4
    <3>2. own[q] # i0 /\ own[q] \in overlapped
      BY <1>1, <1>4, <1>5, <3>1 DEF PublishersInOrder
    <3> QED BY <1>1, <1>2, <1>4, <1>7, <3>1, <3>2 DEF PublishersInOrder
  <2>2. ASSUME NEW i \in Id, i < nextId'
        PROVE  i \in Range(sent') \/ \E q \in Publishing' : own'[q] = i
    BY <1>1, <1>2, <1>4, <1>7, <2>2 DEF PublishersInOrder, i0
  <2> QED BY <2>1, <2>2 DEF PublishersInOrder
<1>10. BufferInOrder'
  <2>1. ASSUME NEW i \in Plain, NEW a \in 1 .. n + 1, NEW b \in 1 .. n + 1, a < b, i <= sent'[a]
        PROVE  i < sent'[b]
    <3>1. a \in 1 .. n /\ (b = n + 1 \/ b \in 1 .. n) /\ i <= sent[a]
      BY <1>6, <1>7, <2>1
    <3>2. CASE b = n + 1
      <4>1. i # i0
        BY <1>5, <1>6, <3>1
      <4> QED BY <1>5, <1>7, <3>2, <4>1
    <3>3. CASE b \in 1 .. n
      BY <1>1, <1>6, <1>7, <2>1, <3>1, <3>3 DEF BufferInOrder, Ordered
    <3> QED BY <3>1, <3>2, <3>3
  <2>2. Ordered(sent)' /\ Ordered(buffer)' /\ Ordered(queue)'
    BY <1>1, <1>2, <1>4, <1>7, <2>1 DEF BufferInOrder, Ordered
  <2>3. \A i \in Range(sent') \cup Range(buffer') \cup Range(queue') : i < nextId'
    BY <1>1, <1>2, <1>5, <1>7 DEF BufferInOrder
  <2>4. ASSUME NEW i \in Plain'
        PROVE  \/ i \in Range(buffer')
               \/ \E q \in Publishing' : at'[q] = "push" /\ own'[q] = i
               \/ buffer' # <<>> /\ \A a \in DOMAIN buffer' : i < buffer'[a]
    BY <1>1, <1>2, <1>4 DEF BufferInOrder
  <2> QED BY <2>2, <2>3, <2>4 DEF BufferInOrder
<1>11. StreamInOrder'
  BY <1>1, <1>2 DEF StreamInOrder
<1>12. Taken' = Taken
  <2>1. \A k \in 1 .. rx : k \in 1 .. n
    BY <1>6
  <2> QED BY <1>2, <1>7, <2>1 DEF Taken
<1>13. OwedInOrder'
  BY <1>1, <1>2, <1>4, <1>12 DEF OwedInOrder, Owed, StillToCome
<1>14. PassedInOrder'
  <2>1. ASSUME NEW i \in Plain, \A k \in rx + 1 .. n : i <= sent[k]
        PROVE  \A k \in rx' + 1 .. Len(sent') : i <= sent'[k]
    <3>1. \A k \in rx + 1 .. n + 1 : k = n + 1 \/ (k \in 1 .. n /\ k \in rx + 1 .. n)
      BY <1>6
    <3> QED BY <1>2, <1>5, <1>7, <2>1, <3>1
  <2>2. Passed' = Passed /\ Passed \subseteq Plain
    BY <1>2, <1>4 DEF Passed
  <2> QED BY <1>1, <1>2, <1>12, <2>1, <2>2 DEF PassedInOrder, n
<1>15. BridgeInOrder'
  BY <1>1, <1>2, <1>3, McpStreamAssumption DEF BridgeInOrder, Publisher
<1> QED BY <1>8, <1>9, <1>10, <1>11, <1>13, <1>14, <1>15 DEF IInv, StreamInv

\* Steps that publish nothing and leave the stream alone: a call begins or ends, the bridge
\* exits, the store drops the session.
LEMMA QuietKeeps ==
    ASSUME IInv, UNCHANGED <<nextId, buffer, sent, own, receiver, client, history>>,
           stored' \in BOOLEAN, at' \in [Publisher -> {"off", "ready", "push", "send"}],
           \A p \in Publisher : at'[p] # at[p] => {at[p], at'[p]} = {"off", "ready"},
           at'[Bridge] = "off" => ~stored' /\ stream = "closed"
    PROVE  IInv'
<1>1. TypeOK /\ PublishersInOrder /\ BufferInOrder /\ StreamInOrder /\ OwedInOrder
      /\ PassedInOrder /\ BridgeInOrder
  BY Facts
<1>2. UNCHANGED <<nextId, buffer, sent, own, stream, rx, queue, emitted, needsInit, filters,
                  cursor, got, excused, overlapped, halfSent>>
  BY DEF receiver, client, history
<1>3. Publishing' = Publishing /\ \A q \in Publishing : at'[q] = at[q]
  BY DEF Publishing
<1>4. Plain' = Plain /\ Taken' = Taken /\ Owed' = Owed /\ Passed' = Passed
  BY <1>2 DEF Plain, Taken, Owed, Passed
<1>5. TypeOK'
  BY <1>1, <1>2, <1>3 DEF TypeOK
<1>6. PublishersInOrder'
  BY <1>1, <1>2, <1>3, <1>4 DEF PublishersInOrder
<1>7. BufferInOrder'
  BY <1>1, <1>2, <1>3, <1>4 DEF BufferInOrder, Ordered
<1>8. StreamInOrder' /\ OwedInOrder' /\ PassedInOrder'
  BY <1>1, <1>2, <1>4 DEF StreamInOrder, OwedInOrder, StillToCome, PassedInOrder
<1>9. BridgeInOrder'
  BY <1>2 DEF BridgeInOrder
<1> QED BY <1>5, <1>6, <1>7, <1>8, <1>9 DEF IInv, StreamInv

\* What a step of the stream or of the client leaves in order.
LEMMA SessionKept ==
    ASSUME IInv, UNCHANGED <<session, overlapped>>, Ordered(queue)',
           Range(queue') \subseteq Range(queue) \cup Range(buffer) \cup {0},
           got' \subseteq got \cup Range(queue) \cup Range(sent),
           stream' = "closed" \/ stream # "closed" \/ stored
    PROVE  PublishersInOrder' /\ BufferInOrder' /\ BridgeInOrder' /\ Publishing' = Publishing
           /\ Plain' = Plain
<1>1. TypeOK /\ PublishersInOrder /\ BufferInOrder /\ BridgeInOrder
  BY Facts
<1>2. UNCHANGED <<stored, nextId, buffer, sent, at, own, overlapped>>
  BY DEF session
<1>3. Publishing' = Publishing /\ Plain' = Plain
  BY <1>2 DEF Publishing, Plain
<1>4. PublishersInOrder'
  <2>1. ASSUME NEW p \in Publishing, at[p] = "push"
        PROVE  own[p] \notin Range(buffer) \cup Range(queue') \cup got'
    <3>1. own[p] # 0 /\ own[p] \notin Range(sent)
      BY <1>1, Shape DEF PublishersInOrder
    <3> QED BY <1>1, <2>1, <3>1 DEF PublishersInOrder
  <2> QED BY <1>1, <1>2, <1>3, <2>1 DEF PublishersInOrder
<1>5. BufferInOrder'
  <2>1. Ordered(sent)' /\ Ordered(buffer)'
    BY <1>1, <1>2, <1>3 DEF BufferInOrder, Ordered
  <2>2. \A i \in Range(sent) \cup Range(buffer) \cup Range(queue') : i < nextId
    <3>1. 0 < nextId
      BY <1>1, Shape
    <3> QED BY <1>1, <3>1 DEF BufferInOrder
  <2> QED BY <1>1, <1>2, <1>3, <2>1, <2>2 DEF BufferInOrder
<1>6. BridgeInOrder'
  BY <1>1, <1>2 DEF BridgeInOrder
<1> QED BY <1>3, <1>4, <1>5, <1>6

\* The stream subscribes.
LEMMA ConnectKeeps == IInv /\ Connect => IInv'
<1> SUFFICES ASSUME IInv, Connect PROVE IInv'
  OBVIOUS
<1>1. TypeOK /\ PublishersInOrder /\ BufferInOrder /\ StreamInOrder /\ OwedInOrder
      /\ PassedInOrder /\ BridgeInOrder
  BY Facts
<1>2. /\ UNCHANGED <<session, stored, nextId, buffer, sent, at, own, queue, emitted, needsInit,
                     filters, cursor, got, overlapped>>
      /\ stored /\ stream = "closed" /\ stream' = "subscribed" /\ rx' = Len(sent)
      /\ excused' = excused \cup (IF cursor = 0 THEN Range(sent) \ got ELSE {})
      /\ halfSent' = halfSent \cup {own[p] : p \in {q \in Publisher : at[q] = "send"}}
  BY DEF Connect, session, client
<1>3. queue = <<>> /\ emitted = 0
  BY <1>1, <1>2 DEF StreamInOrder
<1>4. PublishersInOrder' /\ BufferInOrder' /\ BridgeInOrder' /\ Publishing' = Publishing
      /\ Plain' = Plain
  <2>1. Ordered(queue)' /\ Range(queue') \subseteq Range(queue)
    BY <1>2, <1>3 DEF Ordered
  <2> QED BY <1>2, <2>1, SessionKept
<1>5. \A p \in Publisher : at[p] = "send" => p \in Publishing
  BY DEF Publishing
<1>6. TypeOK'
  <2>1. excused' \subseteq {i \in Id : i < nextId}
    BY <1>1, <1>2, Shape DEF TypeOK, BufferInOrder
  <2>2. halfSent' \subseteq {i \in Id : i < nextId}
    <3>1. \A p \in Publisher : at[p] = "send" => own[p] \in Id /\ own[p] < nextId
      BY <1>5, Facts
    <3> QED BY <1>1, <1>2, <3>1 DEF TypeOK
  <2>3. rx' \in 0 .. Len(sent')
    BY <1>1, <1>2, Shape
  <2>4. Publishing' = Publishing
    BY <1>4
  <2> QED BY <1>1, <1>2, <2>1, <2>2, <2>3, <2>4 DEF TypeOK
<1>7. StreamInOrder'
  BY <1>1, <1>2, <1>3 DEF StreamInOrder
<1>8. Taken' = Range(sent)
  BY <1>1, <1>2, Shape DEF Taken, Range
<1>9. OwedInOrder'
  BY <1>1, <1>2, <1>4, <1>8 DEF OwedInOrder, Owed
<1>10. PassedInOrder'
  <2>1. Passed' = Passed
    BY <1>2, <1>4 DEF Passed
  <2>2. ASSUME NEW i \in Passed, i \notin Range(sent) PROVE i \in halfSent'
    <3>1. i \in Plain /\ i \in Id /\ i < nextId
      BY Facts DEF Passed
    <3>2. PICK p \in Publishing : own[p] = i
      BY <1>1, <2>2, <3>1 DEF PublishersInOrder
    <3>3. PICK j \in got : i <= j
      BY DEF Passed
    <3>4. j \in Nat /\ i \in Nat /\ j <= i
      BY <3>1, <3>2, Facts
    <3>5. i \in got
      BY <3>3, <3>4
    <3>6. at[p] # "push"
      BY <1>1, <3>2, <3>5 DEF PublishersInOrder
    <3>7. at[p] = "send" /\ p \in Publisher
      BY <3>6 DEF Publishing
    <3> QED BY <1>2, <3>2, <3>7
  <2>3. \A k \in rx' + 1 .. Len(sent') : FALSE
    BY <1>1, <1>2, Shape
  <2>4. ASSUME NEW i \in Passed
        PROVE  /\ cursor' = 0 \/ i <= cursor'
               /\ \A a \in DOMAIN queue' : queue'[a] = 0 \/ i < queue'[a]
    BY <1>1, <1>2 DEF PassedInOrder
  <2> QED BY <1>8, <2>1, <2>2, <2>3, <2>4 DEF PassedInOrder
<1> QED BY <1>4, <1>6, <1>7, <1>9, <1>10 DEF IInv, StreamInv

\* The connection breaks.
LEMMA BreakKeeps == IInv /\ Break => IInv'
<1> SUFFICES ASSUME IInv, Break PROVE IInv'
  OBVIOUS
<1>1. TypeOK /\ PublishersInOrder /\ BufferInOrder /\ StreamInOrder /\ OwedInOrder
      /\ PassedInOrder /\ BridgeInOrder
  BY Facts
<1>2. /\ UNCHANGED <<session, stored, nextId, buffer, sent, at, own, filters, cursor, got,
                     excused, overlapped, halfSent>>
      /\ stream' = "closed" /\ rx' = 0 /\ queue' = <<>> /\ emitted' = 0 /\ needsInit' = FALSE
  BY DEF Break, Closed, session, client, history
<1>3. PublishersInOrder' /\ BufferInOrder' /\ BridgeInOrder' /\ Publishing' = Publishing
      /\ Plain' = Plain
  <2>1. Ordered(queue)' /\ Range(queue') = {}
    BY <1>2 DEF Ordered, Range
  <2> QED BY <1>2, <2>1, SessionKept
<1>4. TypeOK'
  <2>1. Publishing' = Publishing /\ 0 \in 0 .. Len(sent) /\ <<>> \in Seq(Id \cup {0})
    BY <1>1, <1>3, Shape
  <2> QED BY <1>1, <1>2, <2>1 DEF TypeOK
<1>5. StreamInOrder'
  BY <1>1, <1>2 DEF StreamInOrder
<1>6. OwedInOrder'
  BY <1>1, <1>2, <1>3 DEF OwedInOrder, Owed
<1>7. PassedInOrder'
  BY <1>1, <1>2, <1>3 DEF PassedInOrder, Passed
<1> QED BY <1>3, <1>4, <1>5, <1>6, <1>7 DEF IInv, StreamInv

\* The client receives init or a heartbeat.
LEMMA SyntheticKeeps ==
    ASSUME IInv, stream = "open", Receive(Synthetic), needsInit' \in BOOLEAN,
           UNCHANGED <<session, stream, rx, queue, emitted, excused, overlapped, halfSent>>
    PROVE  IInv'
<1>1. TypeOK /\ PublishersInOrder /\ BufferInOrder /\ StreamInOrder /\ OwedInOrder
      /\ PassedInOrder /\ BridgeInOrder
  BY Facts
<1>2. /\ UNCHANGED <<stored, nextId, buffer, sent, at, own, filters, got>>
      /\ cursor' = 0 \/ cursor' = cursor
  BY DEF session, Receive
<1>3. PublishersInOrder' /\ BufferInOrder' /\ BridgeInOrder' /\ Publishing' = Publishing
      /\ Plain' = Plain
  <2>1. Ordered(queue)'
    <3>1. Plain' = Plain
      BY <1>2 DEF Plain
    <3> QED BY <1>1, <3>1 DEF BufferInOrder, Ordered
  <2> QED BY <1>2, <2>1, SessionKept
<1>4. Owed' = Owed /\ Taken' = Taken /\ Passed' = Passed
  BY <1>2, <1>3 DEF Owed, Taken, Passed
<1>5. TypeOK'
  BY <1>1, <1>2, <1>3 DEF TypeOK
<1>6. StreamInOrder'
  BY <1>1, <1>2 DEF StreamInOrder
<1>7. OwedInOrder'
  BY <1>1, <1>2, <1>4 DEF OwedInOrder, StillToCome
<1>8. PassedInOrder'
  BY <1>1, <1>2, <1>4 DEF PassedInOrder
<1> QED BY <1>3, <1>5, <1>6, <1>7, <1>8 DEF IInv, StreamInv

\* The whole buffer behind the lagged event.
LEMMA Behind ==
    ASSUME NEW s \in Seq(Id)
    PROVE  LET q == <<Synthetic>> \o s IN
           /\ q \in Seq(Id \cup {0}) /\ q # <<>> /\ Len(q) = Len(s) + 1 /\ q[1] = 0
           /\ \A a \in 1 .. Len(s) : a + 1 \in DOMAIN q /\ q[a + 1] = s[a]
           /\ \A a \in DOMAIN q : a = 1 \/ (a - 1 \in 1 .. Len(s) /\ q[a] = s[a - 1])
<1> DEFINE z == <<0>>
           q == z \o s
<1>1. z \in Seq(Id \cup {0}) /\ Len(z) = 1 /\ z[1] = 0 /\ s \in Seq(Id \cup {0}) /\ Len(s) \in Nat
  <2>1. Seq(Id) \subseteq Seq(Id \cup {0})
    BY SeqMonotonic
  <2>2. 0 \in Id \cup {0}
    OBVIOUS
  <2> HIDE DEF z
  <2>3. s \in Seq(Id \cup {0}) /\ Len(s) \in Nat
    BY <2>1
  <2>4. z \in Seq(Id \cup {0}) /\ Len(z) = 1 /\ z[1] = 0
    BY <2>2 DEF z
  <2> QED BY <2>3, <2>4
<1> HIDE DEF z
<1>2. /\ q \in Seq(Id \cup {0}) /\ Len(q) = 1 + Len(s)
      /\ \A a \in 1 .. Len(q) : q[a] = IF a <= 1 THEN z[a] ELSE s[a - 1]
  BY <1>1, ConcatProperties
<1> HIDE DEF q
<1>3. Len(q) = Len(s) + 1 /\ DOMAIN q = 1 .. Len(s) + 1 /\ q[1] = 0 /\ q # <<>>
  BY <1>1, <1>2
<1>4. ASSUME NEW a \in 1 .. Len(s) PROVE a + 1 \in DOMAIN q /\ q[a + 1] = s[a]
  <2>1. a + 1 \in 1 .. Len(q) /\ ~ (a + 1 <= 1) /\ (a + 1) - 1 = a
    BY <1>1, <1>3
  <2>2. q[a + 1] = s[(a + 1) - 1]
    BY <1>2, <2>1
  <2> QED BY <1>3, <2>1, <2>2
<1>5. ASSUME NEW a \in DOMAIN q, a # 1 PROVE a - 1 \in 1 .. Len(s) /\ q[a] = s[a - 1]
  <2>1. a - 1 \in 1 .. Len(s) /\ a \in 1 .. Len(q) /\ ~ (a <= 1)
    BY <1>1, <1>3, <1>5
  <2> QED BY <1>2, <2>1
<1> QED BY <1>2, <1>3, <1>4, <1>5 DEF q, z

\* The stream takes its snapshot of the buffer.
LEMMA SnapshotKeeps == IInv /\ Snapshot => IInv'
<1> SUFFICES ASSUME IInv, Snapshot PROVE IInv'
  OBVIOUS
<1>1. TypeOK /\ PublishersInOrder /\ BufferInOrder /\ StreamInOrder /\ OwedInOrder
      /\ PassedInOrder /\ BridgeInOrder
  BY Facts
<1>2. /\ UNCHANGED <<session, stored, nextId, buffer, sent, at, own, rx, filters, cursor, got,
                     excused, overlapped, halfSent>>
      /\ stream = "subscribed" /\ stream' = "open" /\ needsInit' = TRUE /\ emitted' = 0
      /\ queue' = Replay(cursor, buffer)
  BY DEF Snapshot, session, client, history
<1> DEFINE n == Len(buffer)
<1>3. /\ cursor \in Id \cup {0} /\ buffer \in Seq(Id) /\ cursor \in Nat
      /\ n \in Nat /\ DOMAIN buffer = 1 .. n /\ (buffer # <<>> => n >= 1)
      /\ \A a \in 1 .. n : /\ buffer[a] \in Id /\ buffer[a] \in Nat /\ buffer[a] # 0
                           /\ buffer[a] \in Range(buffer)
  BY <1>1, Shape DEF TypeOK
<1>4. Plain' = Plain /\ Owed' = Owed /\ Taken' = Taken /\ Passed' = Passed
  BY <1>2 DEF Plain, Owed, Taken, Passed
<1> HIDE DEF n
<1> DEFINE Empty == /\ queue' = <<>>
                    /\ \/ cursor = 0
                       \/ buffer = <<>>
                       \/ buffer # <<>> /\ buffer[n] <= cursor
           Whole == /\ queue' \in Seq(Id \cup {0}) /\ queue' # <<>> /\ Len(queue') = n + 1
                    /\ queue'[1] = 0
                    /\ \A a \in 1 .. n : a + 1 \in DOMAIN queue' /\ queue'[a + 1] = buffer[a]
                    /\ \A a \in DOMAIN queue' :
                          a = 1 \/ (a - 1 \in 1 .. n /\ queue'[a] = buffer[a - 1])
                    /\ buffer # <<>> /\ cursor # 0 /\ cursor + 1 < buffer[1]
           Later == /\ queue' \in Seq(Id)
                    /\ \A a \in DOMAIN queue' :
                          queue'[a] > cursor /\ \E c \in 1 .. n : queue'[a] = buffer[c]
                    /\ \A c \in 1 .. n :
                          buffer[c] > cursor => \E a \in DOMAIN queue' : queue'[a] = buffer[c]
                    /\ \A a, b \in DOMAIN queue' : a < b =>
                          \E c, d \in 1 .. n : c < d /\ buffer[c] = queue'[a] /\ buffer[d] = queue'[b]
                    /\ cursor # 0 /\ buffer # <<>> /\ buffer[1] <= cursor + 1
<1>5. Empty \/ Whole \/ Later
  <2>1. CASE /\ Replay(cursor, buffer) = <<>>
             /\ \/ cursor = 0 \/ buffer = <<>>
                \/ buffer # <<>> /\ buffer[Len(buffer)] <= cursor
    BY <1>2, <2>1 DEF n
  <2>2. CASE /\ Replay(cursor, buffer) = <<Synthetic>> \o buffer
             /\ buffer # <<>> /\ cursor # 0 /\ cursor + 1 < buffer[1]
    <3>1. queue' = <<Synthetic>> \o buffer
      BY <1>2, <2>2
    <3> QED BY <1>3, <2>2, <3>1, Behind DEF n
  <2>3. CASE /\ Replay(cursor, buffer) = Newer(cursor, buffer) /\ Newer(cursor, buffer) \in Seq(Id)
             /\ cursor # 0 /\ buffer # <<>> /\ buffer[1] <= cursor + 1
    <3>1. buffer \in Seq(Nat)
      <4>1. Seq(Id) \subseteq Seq(Nat)
        <5>1. Id \subseteq Nat
          BY Ids
        <5> QED BY <5>1, SeqMonotonic
      <4> QED BY <1>3, <4>1
    <3>2. Kept(queue', cursor, buffer, n)
      BY <1>2, <1>3, <2>3, <3>1, NewerFacts DEF n
    <3>3. queue' \in Seq(Id)
      BY <1>2, <2>3
    <3> QED BY <2>3, <3>2, <3>3 DEF Kept
  <2> QED BY <1>3, <2>1, <2>2, <2>3, ReplayCases
<1>6. queue' \in Seq(Id \cup {0}) /\ Len(queue') \in Nat /\ DOMAIN queue' = 1 .. Len(queue')
  <2>1. Empty \/ Later => queue' \in Seq(Id \cup {0})
    <3>1. Seq(Id) \subseteq Seq(Id \cup {0}) /\ <<>> \in Seq(Id \cup {0})
      BY SeqMonotonic
    <3> QED BY <3>1
  <2>2. queue' \in Seq(Id \cup {0})
    BY <1>5, <2>1
  <2> QED BY <2>2
<1>7. ASSUME NEW a \in DOMAIN queue'
      PROVE  \/ queue'[a] = 0 /\ a = 1 /\ Len(queue') > 1
             \/ queue'[a] # 0 /\ queue'[a] \in Range(buffer)
  <2>1. CASE Empty
    BY <1>6, <2>1
  <2>2. CASE Whole
    <3>1. Len(queue') > 1
      BY <1>3, <2>2
    <3> QED BY <1>3, <2>2, <3>1
  <2>3. CASE Later
    BY <1>3, <2>3
  <2> QED BY <1>5, <2>1, <2>2, <2>3
<1>8. Ordered(queue)'
  <2>1. ASSUME NEW i \in Plain, NEW a \in DOMAIN queue', NEW b \in DOMAIN queue', a < b,
               i <= queue'[a]
        PROVE  i < queue'[b]
    <3>1. i \in Nat /\ i # 0
      BY <1>1, Shape, Facts
    <3>2. \A c, d \in 1 .. n : c < d /\ i <= buffer[c] => i < buffer[d]
      BY <1>1, <1>3 DEF BufferInOrder, Ordered
    <3>3. CASE Empty
      BY <1>6, <3>3
    <3>4. CASE Whole
      <4>1. a \in Nat /\ b \in Nat /\ a >= 1
        BY <1>6
      <4>2. a # 1
        BY <2>1, <3>1, <3>4
      <4>3. b # 1 /\ a - 1 < b - 1
        BY <2>1, <4>1
      <4> QED BY <2>1, <3>2, <3>4, <4>2, <4>3
    <3>5. CASE Later
      <4>1. PICK c \in 1 .. n, d \in 1 .. n : c < d /\ buffer[c] = queue'[a] /\ buffer[d] = queue'[b]
        BY <2>1, <3>5
      <4>2. i < buffer[d]
        BY <2>1, <3>2, <4>1
      <4> QED BY <4>1, <4>2
    <3> QED BY <1>5, <3>3, <3>4, <3>5
  <2> QED BY <1>4, <2>1 DEF Ordered
<1>9. PublishersInOrder' /\ BufferInOrder' /\ BridgeInOrder' /\ Publishing' = Publishing
  <2>1. Range(queue') \subseteq Range(queue) \cup Range(buffer) \cup {0}
    BY <1>7 DEF Range
  <2> QED BY <1>2, <1>8, <2>1, SessionKept
<1>10. TypeOK'
  BY <1>1, <1>2, <1>6, <1>9 DEF TypeOK
<1>11. StreamInOrder'
  BY <1>1, <1>2, <1>7 DEF StreamInOrder
<1>12. OwedInOrder'
  <2>1. \A i \in Owed', j \in got' : j < i
    BY <1>1, <1>2, <1>4 DEF OwedInOrder
  <2>2. ASSUME NEW i \in Owed PROVE StillToCome(i)'
    <3>1. i \in Plain /\ i \in Nat /\ i \in Id /\ i < nextId /\ i # 0
      BY <1>1, Shape, Facts DEF Owed
    <3>2. cursor = 0 \/ cursor < i
      BY <1>1 DEF StreamInOrder, OwedInOrder
    \* An event that is still to be pushed is newer than the whole buffer and not sent.
    <3>3. ASSUME \E p \in Publishing : at[p] = "push" /\ own[p] = i
          PROVE  i \notin Taken /\ \A c \in 1 .. n : buffer[c] < i
      <4>1. PICK p \in Publishing : at[p] = "push" /\ own[p] = i
        BY <3>3
      <4>2. i \notin Range(sent) /\ i \notin Range(buffer) /\ \A j \in Range(buffer) : j <= i
        BY <1>1, <3>1, <4>1, Facts DEF PublishersInOrder
      <4>3. Taken \subseteq Range(sent)
        <5>1. \A k \in 1 .. rx : k \in DOMAIN sent
          BY <1>1, Shape
        <5> QED BY <5>1 DEF Taken, Range
      <4>4. \A c \in 1 .. n : buffer[c] <= i /\ buffer[c] # i
        BY <1>3, <4>2
      <4>5. \A c \in 1 .. n : buffer[c] < i
        BY <1>3, <3>1, <4>4
      <4> QED BY <4>2, <4>3, <4>5
    <3>4. \/ \E c \in 1 .. n : buffer[c] = i
          \/ \E p \in Publishing : at[p] = "push" /\ own[p] = i
          \/ buffer # <<>> /\ \A c \in 1 .. n : i < buffer[c]
      BY <1>1, <1>3, <3>1 DEF BufferInOrder, Range
    <3>5. i \in Range(queue') \/ (queue' # <<>> /\ Head(queue') = 0 /\ i < queue'[2])
          \/ (i \notin Taken /\ \A a \in DOMAIN queue' : queue'[a] < i)
      <4>1. CASE Empty /\ cursor = 0
        BY <1>1, <1>2, <1>6, <4>1 DEF OwedInOrder
      <4>2. CASE Empty /\ cursor # 0
        <5>1. ~ (buffer # <<>> /\ \A c \in 1 .. n : i < buffer[c])
          <6>1. ASSUME buffer # <<>> PROVE ~ (i < buffer[n])
            <7>1. n \in 1 .. n /\ buffer[n] \in Nat /\ buffer[n] <= cursor
              BY <1>3, <4>2, <6>1
            <7> QED BY <1>3, <3>1, <3>2, <4>2, <7>1
          <6> QED BY <1>3, <6>1
        <5>2. ASSUME NEW c \in 1 .. n, buffer[c] = i PROVE FALSE
          <6>1. buffer # <<>> /\ n \in 1 .. n /\ buffer[n] \in Nat /\ buffer[n] <= cursor
            BY <1>3, <4>2, <5>2
          <6>2. buffer[n] < i
            BY <1>3, <3>1, <3>2, <4>2, <6>1
          <6>3. c < n
            BY <1>3, <5>2, <6>2
          <6>4. i < buffer[n]
            BY <1>1, <1>3, <3>1, <5>2, <6>1, <6>3 DEF BufferInOrder, Ordered
          <6> QED BY <3>1, <6>1, <6>2, <6>4
        <5> QED BY <1>6, <3>3, <3>4, <4>2, <5>1, <5>2
      <4>3. CASE Whole
        <5>1. CASE \E c \in 1 .. n : buffer[c] = i
          BY <4>3, <5>1 DEF Range
        <5>2. CASE \E p \in Publishing : at[p] = "push" /\ own[p] = i
          <6>1. \A a \in DOMAIN queue' : queue'[a] < i
            BY <3>1, <3>3, <4>3, <5>2
          <6> QED BY <3>3, <5>2, <6>1
        <5>3. CASE buffer # <<>> /\ \A c \in 1 .. n : i < buffer[c]
          <6>1. 1 \in 1 .. n
            BY <1>3, <4>3
          <6>2. Head(queue') = 0 /\ queue'[2] = buffer[1]
            BY <1>6, <4>3, <6>1
          <6> QED BY <4>3, <5>3, <6>1, <6>2
        <5> QED BY <3>4, <5>1, <5>2, <5>3
      <4>4. CASE Later
        <5>1. CASE \E c \in 1 .. n : buffer[c] = i
          <6>1. i > cursor
            BY <1>3, <3>1, <3>2, <4>4
          <6> QED BY <4>4, <5>1, <6>1 DEF Range
        <5>2. CASE \E p \in Publishing : at[p] = "push" /\ own[p] = i
          BY <3>3, <4>4, <5>2
        <5>3. CASE buffer # <<>> /\ \A c \in 1 .. n : i < buffer[c]
          <6>1. 1 \in 1 .. n /\ buffer[1] \in Nat
            BY <1>3, <4>4
          <6>2. i < buffer[1] /\ buffer[1] <= cursor + 1 /\ cursor < i
            BY <3>2, <4>4, <5>3, <6>1
          <6> QED BY <1>3, <3>1, <6>1, <6>2
        <5> QED BY <3>4, <5>1, <5>2, <5>3
      <4> QED BY <1>5, <4>1, <4>2, <4>3, <4>4
    <3> QED BY <1>4, <3>5 DEF StillToCome
  <2> QED BY <1>2, <1>4, <2>1, <2>2 DEF OwedInOrder
<1>13. PassedInOrder'
  <2>1. ASSUME NEW i \in Passed, NEW a \in DOMAIN queue', queue'[a] # 0
        PROVE  i < queue'[a]
    <3>1. i \in Plain /\ i \in Nat /\ (cursor = 0 \/ i <= cursor)
      BY <1>1, Facts DEF PassedInOrder, Passed
    <3>2. CASE Empty
      BY <1>6, <3>2
    <3>3. CASE Whole
      <4>1. a - 1 \in 1 .. n /\ queue'[a] = buffer[a - 1] /\ 1 \in 1 .. n /\ i <= cursor
        BY <1>3, <2>1, <3>1, <3>3
      <4>2. i < buffer[1]
        BY <1>3, <3>1, <3>3, <4>1
      <4>3. a - 1 # 1 => 1 < a - 1
        BY <1>3, <4>1
      <4>4. a - 1 # 1 => i < buffer[a - 1]
        BY <1>1, <1>3, <3>1, <4>1, <4>2, <4>3 DEF BufferInOrder, Ordered
      <4> QED BY <4>1, <4>2, <4>4
    <3>4. CASE Later
      <4>1. queue'[a] > cursor /\ queue'[a] \in Nat /\ i <= cursor
        BY <1>3, <3>1, <3>4
      <4> QED BY <1>3, <3>1, <4>1
    <3> QED BY <1>5, <3>2, <3>3, <3>4
  <2>2. ASSUME NEW i \in Passed
        PROVE  /\ cursor' = 0 \/ i <= cursor'
               /\ i \notin Taken' => i \in halfSent' /\ \A k \in rx' + 1 .. Len(sent') : i <= sent'[k]
    BY <1>1, <1>2, <1>4 DEF PassedInOrder
  <2> QED BY <1>2, <1>4, <2>1, <2>2 DEF PassedInOrder
<1> QED BY <1>9, <1>10, <1>11, <1>12, <1>13 DEF IInv, StreamInv

\* The stream sends the next event of its replay.
LEMMA SendQueuedKeeps == IInv /\ SendQueued => IInv'
<1> SUFFICES ASSUME IInv, SendQueued PROVE IInv'
  OBVIOUS
<1>1. TypeOK /\ PublishersInOrder /\ BufferInOrder /\ StreamInOrder /\ OwedInOrder
      /\ PassedInOrder /\ BridgeInOrder
  BY Facts
<1> DEFINE h == queue[1]
           n == Len(queue)
<1>2. /\ queue \in Seq(Id \cup {0}) /\ queue # <<>> /\ n \in Nat /\ n >= 1 /\ DOMAIN queue = 1 .. n
      /\ \A a \in 1 .. n : queue[a] \in Nat /\ queue[a] \in Range(queue)
      /\ Head(queue) = h /\ queue' = Tail(queue) /\ h \in Id \cup {0} /\ h \in Range(queue)
      /\ 1 \in 1 .. n
  <2>1. queue \in Seq(Id \cup {0}) /\ queue # <<>>
    BY <1>1 DEF TypeOK, SendQueued
  <2>2. n \in Nat /\ n >= 1 /\ DOMAIN queue = 1 .. n /\ 1 \in 1 .. n
    BY <2>1
  <2>3. \A a \in 1 .. n : queue[a] \in Nat /\ queue[a] \in Range(queue)
    BY <1>1, <2>2, Shape
  <2>4. queue[1] \in Id \cup {0}
    BY <2>1, <2>2
  <2> QED BY <2>1, <2>2, <2>3, <2>4 DEF SendQueued
<1>3. /\ UNCHANGED <<session, stored, nextId, buffer, sent, at, own, stream, rx, needsInit,
                     filters, overlapped, halfSent>>
      /\ stream = "open"
      /\ excused' = excused \cup
           (IF h = 0 THEN {i \in Id : i < queue[2]} \ got ELSE {})
      /\ emitted' = (IF h = 0 THEN emitted ELSE h)
      /\ got' = (IF h = 0 THEN got ELSE got \cup {h})
      /\ h # 0 => cursor' = h
      /\ h = 0 => cursor' = 0 \/ cursor' = cursor
  BY <1>2 DEF SendQueued, Receive, session
<1>4. /\ queue' \in Seq(Id \cup {0}) /\ DOMAIN queue' = 1 .. n - 1
      /\ \A a \in 1 .. n - 1 : queue'[a] = queue[a + 1] /\ a + 1 \in 1 .. n /\ a + 1 # 1 /\ 1 < a + 1
      /\ \A b \in 1 .. n : b # 1 => b - 1 \in 1 .. n - 1 /\ (b - 1) + 1 = b
  <2>1. queue' \in Seq(Id \cup {0}) /\ Len(queue') = n - 1
        /\ \A a \in 1 .. n - 1 : queue'[a] = queue[a + 1]
    BY <1>2, HeadTailProperties
  <2> HIDE DEF n
  <2> QED BY <1>2, <2>1
<1> HIDE DEF h, n
<1>5. /\ \A a \in 1 .. n - 1 : queue'[a] \in Range(queue)
      /\ Range(queue') \subseteq Range(queue)
      /\ \A j \in Range(queue) : j # h => j \in Range(queue')
  <2>1. \A a \in 1 .. n - 1 : queue'[a] \in Range(queue)
    BY <1>2, <1>4
  <2>2. ASSUME NEW j \in Range(queue), j # h PROVE j \in Range(queue')
    <3>1. PICK b \in 1 .. n : queue[b] = j
      BY <1>2 DEF Range
    <3>2. b # 1
      BY <2>2, <3>1 DEF h
    <3>3. b - 1 \in 1 .. n - 1 /\ queue'[b - 1] = j
      BY <1>4, <3>1, <3>2
    <3> QED BY <1>4, <3>3 DEF Range
  <2> QED BY <1>4, <2>1, <2>2 DEF Range
<1>6. Plain' = Plain /\ Taken' = Taken
  BY <1>3 DEF Plain, Taken
<1>7. Ordered(queue)'
  <2>1. ASSUME NEW i \in Plain, NEW a \in 1 .. n - 1, NEW b \in 1 .. n - 1, a < b, i <= queue'[a]
        PROVE  i < queue'[b]
    <3>1. a + 1 < b + 1
      BY <1>2, <2>1
    <3>2. \A c, d \in 1 .. n : c < d /\ i <= queue[c] => i < queue[d]
      BY <1>1, <1>2 DEF BufferInOrder, Ordered
    <3>3. /\ a + 1 \in 1 .. n /\ b + 1 \in 1 .. n
          /\ queue'[a] = queue[a + 1] /\ queue'[b] = queue[b + 1]
      BY <1>4
    <3> QED BY <2>1, <3>1, <3>2, <3>3
  <2> QED BY <1>4, <1>6, <2>1 DEF Ordered
<1>8. PublishersInOrder' /\ BufferInOrder' /\ BridgeInOrder' /\ Publishing' = Publishing
  <2>1. got' \subseteq got \cup Range(queue) /\ stream # "closed"
    BY <1>2, <1>3
  <2> QED BY <1>3, <1>5, <1>7, <2>1, SessionKept
<1>9. h < nextId /\ h \in Nat
  BY <1>2, Facts
<1>10. h = 0 => n > 1 /\ 2 \in 1 .. n /\ queue[2] \in Nat /\ queue[2] < nextId
  <2>1. h = 0 => n > 1 /\ 2 \in 1 .. n
    BY <1>1, <1>2 DEF StreamInOrder, h, n
  <2>2. h = 0 => queue[2] \in Range(queue)
    BY <1>2, <2>1
  <2> QED BY <2>1, <2>2, Facts
<1>11. TypeOK'
  <2>1. got' \subseteq {i \in Id : i < nextId}
    BY <1>1, <1>2, <1>3, <1>9, Shape
  <2>2. excused' \subseteq {i \in Id : i < nextId}
    <3>1. ASSUME h = 0, NEW i \in Id, i < queue[2] PROVE i < nextId
      <4>1. i \in Nat /\ nextId \in Nat
        BY <1>1, Ids, Shape
      <4> QED BY <1>10, <3>1, <4>1
    <3>2. excused' \subseteq excused \cup {i \in Id : h = 0 /\ i < queue[2]}
      BY <1>3
    <3>3. excused \subseteq {i \in Id : i < nextId}
      BY <1>1 DEF TypeOK
    <3> QED BY <3>1, <3>2, <3>3
  <2>3. {emitted', cursor'} \subseteq Id \cup {0}
    BY <1>1, <1>2, <1>3 DEF TypeOK
  <2> QED BY <1>1, <1>3, <1>4, <1>8, <2>1, <2>2, <2>3 DEF TypeOK
<1>12. StreamInOrder'
  <2>1. ASSUME NEW a \in 1 .. n - 1 PROVE queue'[a] # 0
    BY <1>1, <1>2, <1>4 DEF StreamInOrder
  <2>2. {cursor', emitted'} \subseteq got' \cup {0}
    BY <1>1, <1>3 DEF StreamInOrder
  <2> QED BY <1>3, <1>4, <2>1, <2>2 DEF StreamInOrder
<1>13. Owed' \subseteq Owed
  BY <1>3, <1>6 DEF Owed
\* What is still to come does so after the head of the queue.
<1>14. ASSUME NEW i \in Owed'
       PROVE  /\ i \in Nat /\ i # 0 /\ i # h
              /\ h < i
              /\ StillToCome(i)'
  <2>1. i \in Owed /\ i \in Plain /\ i \in Id /\ i \in Nat /\ i # 0
    BY <1>1, <1>13, Facts, Shape DEF Owed
  <2>2. i # h
    BY <1>3, <2>1 DEF Owed
  <2>3. \/ i \in Range(queue)
        \/ h = 0 /\ i < queue[2]
        \/ i \notin Taken /\ \A a \in DOMAIN queue : queue[a] < i
    BY <1>1, <1>2, <1>3, <2>1 DEF OwedInOrder, StillToCome
  <2>4. ~ (h = 0 /\ i < queue[2])
    BY <1>3, <2>1 DEF Owed
  <2>5. CASE i \in Range(queue)
    <3>1. PICK b \in 1 .. n : queue[b] = i
      BY <1>2, <2>5 DEF Range
    <3>2. b # 1 /\ 1 < b
      BY <1>2, <2>2, <3>1 DEF h
    <3>3. ~ (i <= h)
      BY <1>1, <1>2, <2>1, <3>1, <3>2 DEF BufferInOrder, Ordered, h
    <3>4. h < i
      BY <1>9, <2>1, <3>3
    <3>5. i \in Range(queue')
      BY <1>5, <2>2, <2>5
    <3> QED BY <2>1, <2>2, <3>4, <3>5 DEF StillToCome
  <2>6. CASE i \notin Taken /\ \A a \in DOMAIN queue : queue[a] < i
    <3>1. h < i
      BY <1>2, <2>6 DEF h
    <3>2. \A a \in DOMAIN queue' : queue'[a] < i
      BY <1>2, <1>4, <2>6
    <3> QED BY <1>6, <2>1, <2>2, <2>6, <3>1, <3>2 DEF StillToCome
  <2> QED BY <2>3, <2>4, <2>5, <2>6
<1>15. OwedInOrder'
  BY <1>1, <1>3, <1>13, <1>14 DEF OwedInOrder
<1>16. PassedInOrder'
  <2>1. ASSUME NEW i \in Passed' PROVE i \in Plain /\ i \in Nat /\ (i \in Passed \/ (h # 0 /\ i <= h))
    BY <1>3, <1>6, Facts DEF Passed
  <2>2. ASSUME NEW i \in Passed PROVE h = 0 \/ i < h
    BY <1>1, <1>2 DEF PassedInOrder, h
  <2>3. ASSUME NEW i \in Passed' PROVE cursor' = 0 \/ i <= cursor'
    <3>1. CASE h = 0
      BY <1>1, <1>3, <2>1, <3>1 DEF PassedInOrder
    <3>2. CASE h # 0
      BY <1>3, <1>9, <2>1, <2>2, <3>2
    <3> QED BY <3>1, <3>2
  <2>4. ASSUME NEW i \in Passed', NEW a \in 1 .. n - 1 PROVE queue'[a] = 0 \/ i < queue'[a]
    <3>1. CASE i \in Passed
      BY <1>1, <1>2, <1>4, <3>1 DEF PassedInOrder
    <3>2. CASE h # 0 /\ i <= h
      BY <1>1, <1>2, <1>4, <2>1, <3>2 DEF BufferInOrder, Ordered, h
    <3> QED BY <2>1, <3>1, <3>2
  <2>5. ASSUME NEW i \in Passed', i \notin Taken'
        PROVE  \/ i <= emitted'
               \/ i \in halfSent' /\ \A k \in rx' + 1 .. Len(sent') : i <= sent'[k]
    <3>1. CASE h = 0
      BY <1>1, <1>3, <1>6, <2>1, <2>5, <3>1 DEF PassedInOrder
    <3>2. CASE h # 0
      BY <1>3, <1>9, <2>1, <2>2, <3>2
    <3> QED BY <3>1, <3>2
  <2> QED BY <1>3, <1>4, <2>3, <2>4, <2>5 DEF PassedInOrder
<1> QED BY <1>8, <1>11, <1>12, <1>15, <1>16 DEF IInv, StreamInv

\* The stream sends the next event of the channel, or passes over it.
LEMMA SendLiveKeeps == IInv /\ SendLive => IInv'
<1> SUFFICES ASSUME IInv, SendLive PROVE IInv'
  OBVIOUS
<1>1. TypeOK /\ PublishersInOrder /\ BufferInOrder /\ StreamInOrder /\ OwedInOrder
      /\ PassedInOrder /\ BridgeInOrder
  BY Facts
<1> DEFINE h == sent[rx + 1]
           n == Len(sent)
<1>2. /\ n \in Nat /\ rx \in Nat /\ rx < n /\ rx + 1 \in 1 .. n /\ DOMAIN sent = 1 .. n
      /\ \A k \in 1 .. n : sent[k] \in Id /\ sent[k] \in Nat /\ sent[k] \in Range(sent)
      /\ emitted \in Nat /\ h \in Id /\ h \in Nat /\ h # 0 /\ h < nextId /\ h \in Range(sent)
  <2>1. n \in Nat /\ rx \in Nat /\ DOMAIN sent = 1 .. n /\ emitted \in Nat /\ rx < n
    BY <1>1, Shape DEF SendLive
  <2>2. rx + 1 \in 1 .. n
    BY <2>1
  <2>3. \A k \in 1 .. n : sent[k] \in Id /\ sent[k] \in Nat /\ sent[k] \in Range(sent) /\ sent[k] # 0
    BY <1>1, <2>1, Shape
  <2>4. h < nextId
    BY <2>2, <2>3, Facts
  <2> QED BY <2>1, <2>2, <2>3, <2>4
<1> HIDE DEF h, n
<1>3. /\ UNCHANGED <<session, stored, nextId, buffer, sent, at, own, stream, queue, needsInit,
                     filters, excused, overlapped, halfSent>>
      /\ stream = "open" /\ queue = <<>> /\ rx' = rx + 1
      /\ \/ h <= emitted /\ UNCHANGED <<emitted, cursor, got>>
         \/ ~ (h <= emitted) /\ emitted' = h /\ cursor' = h /\ got' = got \cup {h}
  <2>1. /\ UNCHANGED <<session, stream, queue, needsInit, excused, overlapped, halfSent>>
        /\ stream = "open" /\ queue = <<>> /\ rx' = rx + 1
        /\ IF h <= emitted THEN UNCHANGED <<emitted, client, got>>
           ELSE emitted' = h /\ Receive(h)
    BY DEF SendLive, Tailing, h
  <2>2. CASE h <= emitted
    BY <2>1, <2>2 DEF session, client
  <2>3. CASE ~ (h <= emitted)
    BY <1>2, <2>1, <2>3 DEF session, Receive
  <2> QED BY <2>2, <2>3
<1>4. PublishersInOrder' /\ BufferInOrder' /\ BridgeInOrder' /\ Publishing' = Publishing
      /\ Plain' = Plain
  <2>1. Ordered(queue)' /\ Range(queue') = {} /\ got' \subseteq got \cup Range(sent)
        /\ stream # "closed"
    BY <1>2, <1>3 DEF Ordered, Range
  <2> QED BY <1>3, <2>1, SessionKept
<1>5. Taken' = Taken \cup {h}
  <2>1. 1 .. rx + 1 = 1 .. rx \cup {rx + 1}
    BY <1>2
  <2> QED BY <1>3, <2>1 DEF Taken, h
<1>6. TypeOK'
  <2>1. rx' \in 0 .. Len(sent')
    BY <1>2, <1>3 DEF n
  <2>2. got' \subseteq {i \in Id : i < nextId}
    BY <1>1, <1>2, <1>3, Shape
  <2>3. {emitted', cursor'} \subseteq Id \cup {0}
    BY <1>1, <1>2, <1>3 DEF TypeOK
  <2> QED BY <1>1, <1>3, <1>4, <2>1, <2>2, <2>3 DEF TypeOK
<1>7. StreamInOrder'
  BY <1>1, <1>3 DEF StreamInOrder
<1>8. Owed' \subseteq Owed /\ \A i \in Owed' : i \notin got'
  BY <1>3, <1>4 DEF Owed
\* An owed id is in the channel behind the one the receiver takes, or not there yet.
<1>9. ASSUME NEW i \in Owed' PROVE i \notin Taken' /\ \A j \in got' : j < i
  <2>1. i \in Owed /\ i \in Plain /\ i \in Id /\ i \in Nat /\ i < nextId
    BY <1>8, Facts DEF Owed
  <2>2. i \notin Taken
    BY <1>1, <1>3, <2>1 DEF OwedInOrder, StillToCome, Range
  <2>3. CASE h <= emitted
    <3>1. emitted \in got
      BY <1>1, <1>2, <2>3, Ids DEF StreamInOrder
    <3>2. emitted < i
      BY <1>1, <2>1, <3>1 DEF OwedInOrder
    <3>3. i # h
      BY <1>2, <2>1, <2>3, <3>2
    <3> QED BY <1>1, <1>3, <1>5, <2>1, <2>2, <2>3, <3>3 DEF OwedInOrder
  <2>4. CASE ~ (h <= emitted)
    <3>1. i # h /\ got' = got \cup {h}
      BY <1>3, <1>8, <2>4
    <3>2. h < i
      <4>1. SUFFICES ASSUME i <= h PROVE FALSE
        BY <1>2, <2>1
      <4>2. CASE i \in Range(sent)
        <5>1. PICK k \in 1 .. n : sent[k] = i
          BY <1>2, <4>2 DEF Range
        <5>2. ~ (k <= rx)
          BY <1>2, <2>2, <5>1 DEF Taken
        <5>3. k # rx + 1
          BY <3>1, <5>1 DEF h
        <5>4. rx + 1 < k
          BY <1>2, <5>2, <5>3
        <5>5. i < sent[k]
          BY <1>1, <1>2, <2>1, <4>1, <5>4 DEF BufferInOrder, Ordered, h
        <5> QED BY <2>1, <5>1, <5>5
      <4>3. CASE \E p \in Publishing : own[p] = i
        <5>1. h <= i
          BY <1>2, <2>1, <4>3, Facts
        <5> QED BY <1>2, <2>1, <3>1, <4>1, <5>1
      <4> QED BY <1>1, <2>1, <4>2, <4>3 DEF PublishersInOrder
    <3> QED BY <1>1, <1>5, <2>1, <2>2, <3>1, <3>2 DEF OwedInOrder
  <2> QED BY <2>3, <2>4
<1>10. OwedInOrder'
  <2>1. ASSUME NEW i \in Owed' PROVE StillToCome(i)'
    BY <1>3, <1>9 DEF StillToCome
  <2> QED BY <1>3, <1>9, <2>1 DEF OwedInOrder
<1>11. PassedInOrder'
  <2>1. ASSUME NEW i \in Passed
        PROVE  /\ i \in Plain /\ i \in Nat
               /\ cursor = 0 \/ i <= cursor
               /\ i <= h \/ i <= emitted
               /\ i \notin Taken =>
                    \/ i <= emitted
                    \/ i \in halfSent /\ \A k \in rx + 1 .. n : i <= sent[k]
    <3>1. i \in Plain /\ i \in Nat /\ (cursor = 0 \/ i <= cursor)
      BY <1>1, Facts DEF PassedInOrder, Passed
    <3>2. i \notin Taken => \/ i <= emitted
                            \/ i \in halfSent /\ \A k \in rx + 1 .. n : i <= sent[k]
      BY <1>1, <1>3 DEF PassedInOrder, n
    <3>3. i \in Taken => i < h
      <4>1. SUFFICES ASSUME NEW k \in 1 .. rx, sent[k] = i PROVE i < h
        BY DEF Taken
      <4>2. k < rx + 1 /\ k \in 1 .. n /\ i <= sent[k]
        BY <1>2, <3>1, <4>1
      <4> QED BY <1>1, <1>2, <3>1, <4>2 DEF BufferInOrder, Ordered, h
    <3>4. rx + 1 \in rx + 1 .. n
      BY <1>2
    <3>5. i <= h \/ i <= emitted
      BY <1>2, <3>1, <3>2, <3>3, <3>4 DEF h
    <3> QED BY <3>1, <3>2, <3>5
  <2>2. \A k \in rx' + 1 .. n : k \in rx + 1 .. n
    BY <1>2, <1>3
  <2>3. CASE h <= emitted
    <3>1. Passed' = Passed /\ UNCHANGED <<emitted, cursor>>
      BY <1>3, <1>4, <2>3 DEF Passed
    <3>2. ASSUME NEW i \in Passed
          PROVE  /\ cursor' = 0 \/ i <= cursor'
                 /\ i \notin Taken' => \/ i <= emitted'
                                       \/ i \in halfSent' /\ \A k \in rx' + 1 .. n : i <= sent'[k]
      BY <1>3, <1>5, <2>1, <2>2, <3>1
    <3> QED BY <1>3, <3>1, <3>2 DEF PassedInOrder, n
  <2>4. CASE ~ (h <= emitted)
    <3>1. emitted' = h /\ cursor' = h /\ got' = got \cup {h}
      BY <1>3, <2>4
    <3>2. ASSUME NEW i \in Passed' PROVE i \in Nat /\ i <= h
      <4>1. i \in Plain /\ i \in Nat /\ (i \in Passed \/ i <= h)
        BY <1>4, <3>1, Facts DEF Passed
      <4> QED BY <1>2, <2>1, <2>4, <4>1
    <3> QED BY <1>3, <3>1, <3>2 DEF PassedInOrder
  <2> QED BY <2>3, <2>4
<1> QED BY <1>4, <1>6, <1>7, <1>10, <1>11 DEF IInv, StreamInv

\* The stream tells the client how far the channel ran ahead of it.
LEMMA SendLaggedKeeps == IInv /\ SendLagged => IInv'
<1> SUFFICES ASSUME IInv, SendLagged PROVE IInv'
  OBVIOUS
<1>1. TypeOK /\ PublishersInOrder /\ BufferInOrder /\ StreamInOrder /\ OwedInOrder
      /\ PassedInOrder /\ BridgeInOrder
  BY Facts
<1> DEFINE n == Len(sent)
           m == Len(sent) - Cap
<1>2. /\ UNCHANGED <<session, stored, nextId, buffer, sent, at, own, stream, queue, emitted,
                     needsInit, filters, got, overlapped, halfSent>>
      /\ stream = "open" /\ queue = <<>> /\ rx' = m /\ n - rx > Cap
      /\ excused' = excused \cup ({sent[k] : k \in rx + 1 .. m} \ got)
      /\ cursor' = 0 \/ cursor' = cursor
  BY DEF SendLagged, Tailing, Receive, session
<1>3. /\ n \in Nat /\ rx \in Nat /\ m \in Nat /\ rx < m /\ m <= n /\ DOMAIN sent = 1 .. n
      /\ \A k \in 1 .. n : sent[k] \in Id /\ sent[k] \in Range(sent)
      /\ \A k \in rx + 1 .. m : k \in 1 .. n
      /\ \A k \in 1 .. m : k \in 1 .. rx \/ k \in rx + 1 .. m
      /\ \A k \in 1 .. rx : k \in 1 .. m
      /\ \A k \in m + 1 .. n : k \in rx + 1 .. n
  <2>1. n \in Nat /\ rx \in Nat /\ Cap \in Nat /\ Cap >= 1 /\ DOMAIN sent = 1 .. n
        /\ \A k \in 1 .. n : sent[k] \in Id /\ sent[k] \in Range(sent)
    BY <1>1, Shape
  <2> HIDE DEF n
  <2>2. m = n - Cap
    BY DEF n
  <2> HIDE DEF m
  <2>3. m \in Nat /\ rx < m /\ m <= n
    BY <1>2, <2>1, <2>2
  <2> QED BY <2>1, <2>3
<1> HIDE DEF n, m
<1>4. PublishersInOrder' /\ BufferInOrder' /\ BridgeInOrder' /\ Publishing' = Publishing
      /\ Plain' = Plain
  <2>1. Ordered(queue)' /\ Range(queue') = {} /\ stream # "closed"
    BY <1>2 DEF Ordered, Range
  <2> QED BY <1>2, <2>1, SessionKept
<1>5. Taken \subseteq Taken' /\ \A i \in Taken' : i \in Taken \cup got \cup excused'
  BY <1>2, <1>3 DEF Taken
<1>6. TypeOK'
  <2>1. excused' \subseteq {i \in Id : i < nextId}
    <3>1. \A k \in rx + 1 .. m : sent[k] \in Id /\ sent[k] < nextId
      BY <1>1, <1>3 DEF BufferInOrder
    <3> QED BY <1>1, <1>2, <3>1 DEF TypeOK
  <2>2. rx' \in 0 .. Len(sent')
    BY <1>2, <1>3 DEF n
  <2> QED BY <1>1, <1>2, <1>4, <2>1, <2>2 DEF TypeOK
<1>7. StreamInOrder'
  BY <1>1, <1>2 DEF StreamInOrder
<1>8. OwedInOrder'
  <2>1. Owed' \subseteq Owed
    BY <1>2, <1>4 DEF Owed
  <2>2. ASSUME NEW i \in Owed' PROVE StillToCome(i)'
    <3>1. i \notin Taken
      BY <1>1, <1>2, <2>1 DEF OwedInOrder, StillToCome, Range
    <3>2. i \notin got \cup excused'
      BY <1>2, <2>2 DEF Owed
    <3>3. i \notin Taken'
      BY <1>5, <3>1, <3>2
    <3> QED BY <1>2, <3>3 DEF StillToCome
  <2> QED BY <1>1, <1>2, <2>1, <2>2 DEF OwedInOrder
<1>9. PassedInOrder'
  <2>1. Passed' = Passed
    BY <1>2, <1>4 DEF Passed
  <2>2. ASSUME NEW i \in Passed, i \notin Taken'
        PROVE  \/ i <= emitted
               \/ i \in halfSent /\ \A k \in rx' + 1 .. n : i <= sent[k]
    <3>1. i \notin Taken
      BY <1>5, <2>2
    <3> QED BY <1>1, <1>2, <1>3, <3>1 DEF PassedInOrder, n
  <2>3. ASSUME NEW i \in Passed PROVE cursor' = 0 \/ i <= cursor'
    BY <1>1, <1>2 DEF PassedInOrder
  <2> QED BY <1>2, <2>1, <2>2, <2>3 DEF PassedInOrder, n
<1> QED BY <1>4, <1>6, <1>7, <1>8, <1>9 DEF IInv, StreamInv
-----------------------------------------------------------------------------
(* The theorems.                                                            *)

LEMMA InvStep == IInv /\ [Next]_vars => IInv'
<1> SUFFICES ASSUME IInv, [Next]_vars PROVE IInv'
  OBVIOUS
<1>1. TypeOK /\ BridgeInOrder /\ Bridge \in Publisher /\ Bridge \notin Reporter
      /\ Reporter \subseteq Publisher
  BY Facts, McpStreamAssumption DEF Publisher
<1>2. CASE UNCHANGED vars
  <2>1. UNCHANGED <<stored, at, nextId, buffer, sent, own, receiver, client, history, stream>>
    BY <1>2 DEF vars, session, receiver
  <2> QED BY <1>1, <2>1, QuietKeeps DEF TypeOK, BridgeInOrder
<1>3. ASSUME NEW p \in Publisher, Push(p) PROVE IInv'
  BY <1>3, PushKeeps
<1>4. ASSUME NEW p \in Publisher, Send(p) PROVE IInv'
  BY <1>4, SendKeeps
<1>5. ASSUME NEW r \in Reporter, BeginCall(r) \/ EndCall(r) PROVE IInv'
  <2>1. /\ UNCHANGED <<stored, nextId, buffer, sent, own, receiver, client, history>>
        /\ \/ at[r] = "off" /\ at' = [at EXCEPT ![r] = "ready"]
           \/ at[r] = "ready" /\ at' = [at EXCEPT ![r] = "off"]
    BY <1>5 DEF BeginCall, EndCall
  <2>2. /\ at' \in [Publisher -> {"off", "ready", "push", "send"}]
        /\ \A p \in Publisher : at'[p] # at[p] => {at[p], at'[p]} = {"off", "ready"}
        /\ at'[Bridge] = at[Bridge]
    BY <1>1, <2>1 DEF TypeOK
  <2> QED BY <1>1, <2>1, <2>2, QuietKeeps DEF TypeOK, BridgeInOrder
<1>6. ASSUME NEW r \in Reporter, Report(r) PROVE IInv'
  BY <1>1, <1>6, TakeIdKeeps DEF Report
<1>7. CASE BridgeEvent
  <2>1. CASE Alive
    BY <1>1, <1>7, <2>1, TakeIdKeeps DEF BridgeEvent
  <2>2. CASE ~ Alive
    <3>1. /\ UNCHANGED <<stored, nextId, buffer, sent, own, receiver, client, history>>
          /\ at[Bridge] = "ready" /\ at' = [at EXCEPT ![Bridge] = "off"]
      BY <1>7, <2>2 DEF BridgeEvent
    <3>2. ~ stored /\ stream = "closed"
      BY <2>2 DEF Alive
    <3>3. /\ at' \in [Publisher -> {"off", "ready", "push", "send"}]
          /\ \A p \in Publisher : at'[p] # at[p] => {at[p], at'[p]} = {"off", "ready"}
      BY <1>1, <3>1 DEF TypeOK
    <3> QED BY <1>1, <3>1, <3>2, <3>3, QuietKeeps DEF TypeOK
  <2> QED BY <2>1, <2>2
<1>8. CASE Evict
  <2>1. /\ UNCHANGED <<nextId, buffer, sent, at, own, receiver, client, history>>
        /\ stored' = FALSE
    BY <1>8 DEF Evict
  <2> QED BY <1>1, <2>1, QuietKeeps DEF TypeOK, BridgeInOrder
<1>9. CASE SendInit
  BY <1>9, SyntheticKeeps DEF SendInit
<1>10. CASE Heartbeat
  <2>1. /\ stream = "open" /\ Receive(Synthetic) /\ needsInit' = needsInit
        /\ UNCHANGED <<session, stream, rx, queue, emitted, excused, overlapped, halfSent>>
    BY <1>10 DEF Heartbeat, Tailing, receiver
  <2> QED BY <1>1, <2>1, SyntheticKeeps DEF TypeOK
<1>11. Connect \/ Snapshot \/ SendQueued \/ SendLive \/ SendLagged \/ Break => IInv'
  BY ConnectKeeps, SnapshotKeeps, SendQueuedKeeps, SendLiveKeeps, SendLaggedKeeps, BreakKeeps
<1> QED BY <1>2, <1>3, <1>4, <1>5, <1>6, <1>7, <1>8, <1>9, <1>10, <1>11 DEF Next, StreamStep

LEMMA InvAlways == Spec => []IInv
<1> QED BY InvInit, InvStep, PTL DEF Spec

\* The counters, sequences and tables of a session and of its stream keep their types, and no
\* id is known to the client before publish_event took it.
THEOREM McpTypes == Spec => []TypeOK
<1>1. IInv => TypeOK
  BY Facts
<1> QED BY <1>1, InvAlways, PTL

\* A client that got a later event got every earlier one, unless it was told that events were
\* dropped, or opened its stream without an id, or the two publications overlapped
\* (build_mcp_session_stream, publish_event).
THEOREM NoGapUnannounced == Spec => []NoSilentGap
<1>1. IInv => NoSilentGap
  <2> SUFFICES ASSUME IInv, NEW i \in Id, Missed(i), i \notin excused \cup overlapped PROVE FALSE
    BY DEF NoSilentGap
  <2>1. PICK j \in got : i < j
    BY DEF Missed
  <2>2. j \in Nat /\ j < nextId /\ nextId \in Nat /\ i \in Nat
    BY <2>1, Facts, Shape
  <2>3. i \in Owed
    BY <2>1, <2>2 DEF Owed, Plain, Missed
  <2>4. j < i
    BY <2>1, <2>3, Facts DEF OwedInOrder
  <2> QED BY <2>1, <2>2, <2>4
<1> QED BY <1>1, InvAlways, PTL

\* A stream that has drained the channel has passed on everything that was sent, apart from
\* what was announced as dropped, came before the stream or overlapped (subscribe_events,
\* snapshot_replay_buffer).
THEOREM DrainedIsCaughtUp == Spec => []CaughtUp
<1>1. IInv => CaughtUp
  <2> SUFFICES ASSUME IInv, Tailing, rx = Len(sent), NEW i \in Range(sent),
                      i \notin got \cup excused \cup overlapped
               PROVE  FALSE
    BY DEF CaughtUp
  <2>1. i \in Owed
    <3>1. i \in Id /\ i < nextId
      BY Facts, Shape DEF BufferInOrder
    <3> QED BY <3>1 DEF Owed, Plain
  <2>2. i \in Taken
    BY Facts, Shape DEF Taken, Range
  <2>3. StillToCome(i) /\ queue = <<>>
    BY <2>1, Facts DEF OwedInOrder, Tailing
  <2> QED BY <2>2, <2>3 DEF StillToCome, Range
<1> QED BY <1>1, InvAlways, PTL

\* The bridge of a session runs for as long as a stream is there to serve
\* (run_invalidate_bridge).
THEOREM BridgeOutlivesStream == Spec => []BridgeServesStream
<1>1. IInv => BridgeServesStream
  BY Facts DEF BridgeInOrder, BridgeServesStream
<1> QED BY <1>1, InvAlways, PTL

\* The stream emits no event that the client has, and none older than one that it has, unless
\* publications overlapped or the stream subscribed between push and send
\* (McpStreamState::last_emitted_id, replay).
LEMMA EmitsInOrder ==
    ASSUME IInv, [Next]_vars, NEW i \in Id, i = emitted', emitted' # emitted,
           i \notin overlapped \cup halfSent
    PROVE  i \notin got /\ \A j \in got : j < i
<1>1. TypeOK /\ BufferInOrder /\ PassedInOrder /\ i \in Nat /\ i # 0
  BY Facts, Shape
<1>2. SendQueued \/ SendLive
  <2>1. emitted' = emitted \/ emitted' = 0 \/ SendQueued \/ SendLive
    BY DEF Next, vars, receiver, client, history, session, Push, Send, BeginCall, Report, EndCall,
           TakeId, BridgeEvent, Evict, Connect, StreamStep, Snapshot, SendInit, SendLagged,
           Heartbeat, Break, Closed
  <2> QED BY <1>1, <2>1
<1>3. SUFFICES i \notin Passed /\ i \in Plain
  <2>1. ASSUME NEW j \in got, i \notin Passed, i \in Plain PROVE j < i
    <3>1. ~ (i <= j) /\ j \in Nat
      BY <2>1, Facts DEF Passed
    <3> QED BY <1>1, <3>1
  <2> QED BY <1>1, <2>1
<1>4. CASE SendQueued
  <2>1. queue # <<>> /\ i = queue[1] /\ 1 \in DOMAIN queue /\ queue[1] \in Range(queue)
    <3>1. queue # <<>> /\ i = Head(queue)
      BY <1>4 DEF SendQueued
    <3>2. queue \in Seq(Id \cup {0})
      BY <1>1 DEF TypeOK
    <3> QED BY <3>1, <3>2, InRange
  <2>2. i < nextId
    BY <2>1, Facts
  <2>3. i \in Passed => i < i
    BY <1>1, <2>1 DEF PassedInOrder
  <2> QED BY <1>1, <2>2, <2>3 DEF Plain
<1>5. CASE SendLive
  <2>1. /\ rx < Len(sent) /\ rx \in Nat /\ Len(sent) \in Nat /\ DOMAIN sent = 1 .. Len(sent)
        /\ rx + 1 \in 1 .. Len(sent) /\ rx + 1 \in rx + 1 .. Len(sent) /\ stream = "open"
    BY <1>1, <1>5, Shape DEF SendLive, Tailing
  <2>2. i = sent[rx + 1] /\ ~ (i <= emitted)
    BY <1>5 DEF SendLive
  <2>3. i \in Plain
    BY <1>1, <2>1, <2>2, Shape DEF Plain, BufferInOrder
  <2>4. i \notin Taken
    <3>1. SUFFICES ASSUME NEW k \in 1 .. rx, sent[k] = i PROVE FALSE
      BY DEF Taken
    <3>2. k \in DOMAIN sent /\ k < rx + 1
      BY <2>1
    <3>3. i < sent[rx + 1]
      BY <1>1, <2>1, <2>3, <3>1, <3>2 DEF BufferInOrder, Ordered
    <3> QED BY <1>1, <2>2, <3>3
  <2>5. i \notin Passed
    BY <1>1, <2>1, <2>2, <2>4 DEF PassedInOrder
  <2> QED BY <2>3, <2>5
<1> QED BY <1>2, <1>4, <1>5

\* Events reach the client in order and once.
THEOREM StreamsInOrder == Spec => InOrder
<1>1. ASSUME IInv, [Next]_vars
      PROVE  [\A i \in Id :
                i = emitted' /\ emitted' # emitted =>
                   \/ i \notin got /\ \A j \in got : j < i
                   \/ i \in overlapped \cup halfSent]_vars
  BY <1>1, EmitsInOrder
<1> QED BY <1>1, InvAlways, PTL DEF Spec, InOrder
=============================================================================
