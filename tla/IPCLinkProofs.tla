---------------------------- MODULE IPCLinkProofs ----------------------------
(***************************************************************************)
(* Proofs about the pipeline from the daemon's cache to the proxy's event  *)
(* cache: its type, and that on an answered connection the messages under  *)
(* way lead the proxy to the state of every key that is not lost, for any  *)
(* keys, values, capacities and numbers of failures.                       *)
(***************************************************************************)
EXTENDS IPCLink, SequenceLemmas

-----------------------------------------------------------------------------
(* The last message about a key.                                           *)

LEMMA LastAbout ==
  ASSUME NEW s \in Seq(Messages), NEW k, SomeAbout(s, k)
  PROVE  \E i \in 1..Len(s) : About(s[i], k) /\ \A j \in 1..Len(s) : About(s[j], k) => j <= i
<1> DEFINE on == {i \in 1..Len(s) : About(s[i], k)}
<1>1. Len(s) \in Nat /\ on \subseteq 1..Len(s) /\ on # {}
  BY LenProperties DEF SomeAbout
<1>2. PICK i \in on : \A j \in on : j <= i
  <2> HIDE DEF on
  <2> QED  BY <1>1, GreatestIndex
<1> QED  BY <1>2

\* After is decided by the last message about the key.
LEMMA AfterLast ==
  ASSUME NEW s \in Seq(Messages), NEW k, NEW v, NEW i \in 1..Len(s), About(s[i], k),
         \A j \in 1..Len(s) : About(s[j], k) => j <= i
  PROVE  After(v, s, k) = Says(s[i], k)
<1> DEFINE on == {j \in 1..Len(s) : About(s[j], k)}
           last == CHOOSE j \in on : \A l \in on : l <= j
<1>1. i \in on /\ \A l \in on : l <= i
  OBVIOUS
<1>2. last \in on /\ \A l \in on : l <= last
  BY <1>1
<1>3. last = i
  <2>1. last <= i /\ i <= last
    BY <1>1, <1>2
  <2>2. last \in Nat /\ i \in Nat
    BY <1>2, LenProperties
  <2> HIDE DEF last
  <2> QED  BY <2>1, <2>2
<1>4. on # {}
  BY <1>1
<1> QED  BY <1>3, <1>4 DEF After

LEMMA AfterNone ==
  ASSUME NEW s, NEW k, NEW v, ~SomeAbout(s, k)
  PROVE  After(v, s, k) = v
BY DEF After, SomeAbout

\* With a message about the key, what was there before does not matter.
LEMMA AfterAny ==
  ASSUME NEW s \in Seq(Messages), NEW k, NEW v, NEW w, SomeAbout(s, k)
  PROVE  After(v, s, k) = After(w, s, k)
<1>1. PICK i \in 1..Len(s) : About(s[i], k) /\ \A j \in 1..Len(s) : About(s[j], k) => j <= i
  BY LastAbout
<1> QED  BY <1>1, AfterLast

\* One more message at the end.
LEMMA AfterAppend ==
  ASSUME NEW s \in Seq(Messages), NEW m \in Messages, NEW k, NEW v
  PROVE  After(v, Append(s, m), k) = IF About(m, k) THEN Says(m, k) ELSE After(v, s, k)
<1> DEFINE t == Append(s, m)  n == Len(s)
<1>1. /\ t \in Seq(Messages) /\ Len(t) = n + 1 /\ n \in Nat /\ t[n + 1] = m
      /\ \A i \in 1..n : t[i] = s[i]
  BY LenProperties, AppendProperties
<1>2. n + 1 \in 1..(n + 1) /\ \A j \in 1..(n + 1) : j <= n + 1
  BY <1>1
<1> HIDE DEF t, n
<1>3. CASE About(m, k)
  BY <1>1, <1>2, <1>3, AfterLast DEF t
<1>4. CASE ~About(m, k) /\ SomeAbout(s, k)
  <2>1. PICK i \in 1..n : About(s[i], k) /\ \A j \in 1..n : About(s[j], k) => j <= i
    BY <1>4, LastAbout DEF n
  <2>2. i \in 1..(n + 1) /\ About(t[i], k)
    BY <1>1, <2>1
  <2>3. \A j \in 1..(n + 1) : About(t[j], k) => j <= i
    <3> SUFFICES ASSUME NEW j \in 1..(n + 1), About(t[j], k) PROVE j <= i
      OBVIOUS
    <3>1. j # n + 1
      BY <1>1, <1>4
    <3>2. j \in 1..n
      BY <1>1, <3>1
    <3> QED  BY <1>1, <2>1, <3>2
  <2>4. After(v, t, k) = Says(t[i], k)
    BY <1>1, <2>2, <2>3, AfterLast
  <2>5. After(v, s, k) = Says(s[i], k)
    BY <2>1, AfterLast DEF n
  <2> QED  BY <1>1, <1>4, <2>1, <2>4, <2>5 DEF t
<1>5. CASE ~About(m, k) /\ ~SomeAbout(s, k)
  <2>1. ~SomeAbout(t, k)
    <3> SUFFICES ASSUME NEW j \in 1..(n + 1), About(t[j], k) PROVE FALSE
      BY <1>1 DEF SomeAbout
    <3>1. j # n + 1
      BY <1>1, <1>5
    <3>2. j \in 1..n
      BY <1>1, <3>1
    <3> QED  BY <1>1, <1>5, <3>2 DEF SomeAbout, n
  <2> QED  BY <1>5, <2>1, AfterNone DEF t
<1> QED  BY <1>3, <1>4, <1>5

\* Messages about the key, once the head is gone.
LEMMA AboutTail ==
  ASSUME NEW s \in Seq(Messages), s # <<>>, NEW k
  PROVE  /\ SomeAbout(Tail(s), k) => SomeAbout(s, k)
         /\ SomeAbout(s, k) => About(Head(s), k) \/ SomeAbout(Tail(s), k)
<1> DEFINE t == Tail(s)  n == Len(s)
<1>1. /\ t \in Seq(Messages) /\ Len(t) = n - 1 /\ n \in Nat /\ n >= 1
      /\ \A i \in 1..(n - 1) : t[i] = s[i + 1]
      /\ Head(s) = s[1]
  BY HeadTail
<1> HIDE DEF t, n
<1>2. ASSUME SomeAbout(t, k) PROVE SomeAbout(s, k)
  <2>1. PICK i \in 1..(n - 1) : About(t[i], k)
    BY <1>1, <1>2 DEF SomeAbout
  <2>2. i + 1 \in 1..n /\ About(s[i + 1], k)
    BY <1>1, <2>1
  <2> QED  BY <2>2 DEF SomeAbout, n
<1>3. ASSUME SomeAbout(s, k), ~About(Head(s), k) PROVE SomeAbout(t, k)
  <2>1. PICK i \in 1..n : About(s[i], k)
    BY <1>3 DEF SomeAbout, n
  <2>2. i # 1
    BY <1>1, <1>3, <2>1
  <2>3. i - 1 \in 1..(n - 1) /\ (i - 1) + 1 = i
    BY <1>1, <2>2
  <2>4. About(t[i - 1], k)
    BY <1>1, <2>1, <2>3
  <2> QED  BY <1>1, <2>3, <2>4 DEF SomeAbout
<1> QED  BY <1>2, <1>3 DEF t

\* The head is applied first.
LEMMA AfterTail ==
  ASSUME NEW s \in Seq(Messages), s # <<>>, NEW k, NEW v
  PROVE  After(v, s, k) = After(IF About(Head(s), k) THEN Says(Head(s), k) ELSE v, Tail(s), k)
<1> DEFINE t == Tail(s)  n == Len(s)  w == IF About(Head(s), k) THEN Says(Head(s), k) ELSE v
<1>1. /\ t \in Seq(Messages) /\ Len(t) = n - 1 /\ n \in Nat /\ n >= 1
      /\ \A i \in 1..(n - 1) : t[i] = s[i + 1]
      /\ Head(s) = s[1]
  BY HeadTail
<1>t. /\ SomeAbout(t, k) => SomeAbout(s, k)
      /\ SomeAbout(s, k) => About(Head(s), k) \/ SomeAbout(t, k)
  BY AboutTail
<1> HIDE DEF t, n
<1>2. CASE SomeAbout(t, k)
  <2>1. PICK i \in 1..(n - 1) : About(t[i], k) /\ \A j \in 1..(n - 1) : About(t[j], k) => j <= i
    BY <1>1, <1>2, LastAbout
  <2>2. i + 1 \in 1..n /\ About(s[i + 1], k)
    BY <1>1, <2>1
  <2>3. \A j \in 1..n : About(s[j], k) => j <= i + 1
    <3> SUFFICES ASSUME NEW j \in 1..n, About(s[j], k) PROVE j <= i + 1
      OBVIOUS
    <3>1. CASE j = 1
      BY <1>1, <2>1, <3>1
    <3>2. CASE j # 1
      <4>1. j - 1 \in 1..(n - 1) /\ (j - 1) + 1 = j
        BY <1>1, <3>2
      <4>2. About(t[j - 1], k)
        BY <1>1, <4>1
      <4>3. j - 1 <= i
        BY <2>1, <4>1, <4>2
      <4> QED  BY <1>1, <2>1, <4>1, <4>3
    <3> QED  BY <3>1, <3>2
  <2>4. After(v, s, k) = Says(s[i + 1], k)
    BY <2>2, <2>3, AfterLast DEF n
  <2>5. After(w, t, k) = Says(t[i], k)
    <3> HIDE DEF w
    <3> QED  BY <1>1, <2>1, AfterLast
  <2> QED  BY <1>1, <2>1, <2>4, <2>5 DEF t
<1>3. CASE ~SomeAbout(t, k) /\ About(Head(s), k)
  <2>1. 1 \in 1..n /\ About(s[1], k)
    BY <1>1, <1>3
  <2>2. \A j \in 1..n : About(s[j], k) => j <= 1
    <3> SUFFICES ASSUME NEW j \in 1..n, About(s[j], k), j # 1 PROVE FALSE
      BY <1>1
    <3>1. j - 1 \in 1..(n - 1) /\ (j - 1) + 1 = j
      BY <1>1
    <3>2. About(t[j - 1], k)
      BY <1>1, <3>1
    <3> QED  BY <1>1, <1>3, <3>1, <3>2 DEF SomeAbout
  <2>3. After(v, s, k) = Says(s[1], k)
    BY <2>1, <2>2, AfterLast DEF n
  <2>4. After(w, t, k) = w
    <3> HIDE DEF w
    <3> QED  BY <1>3, AfterNone
  <2> QED  BY <1>1, <1>3, <2>3, <2>4 DEF t
<1>4. CASE ~SomeAbout(t, k) /\ ~About(Head(s), k)
  <2>1. ~SomeAbout(s, k)
    BY <1>4, <1>t
  <2> QED  BY <1>4, <2>1, AfterNone DEF t
<1> QED  BY <1>2, <1>3, <1>4

-----------------------------------------------------------------------------
(* Messages and connections.                                               *)

LEMMA MessageFacts ==
  /\ ClearMsg \in Messages
  /\ \A k \in Keys, v \in Values :
       /\ SetMsg(k, v) \in Messages /\ SetMsg(k, v) # ClearMsg
       /\ SetMsg(k, v).key = k /\ SetMsg(k, v).val = v
  /\ \A m \in Messages : m # ClearMsg => m.key \in Keys /\ m.val \in Values
BY DEF Messages, SetMsg, ClearMsg

\* A state is never the absent one.
LEMMA ValueIsEntry ==
  ASSUME NEW m \in Messages, m # ClearMsg
  PROVE  m.val # NoEntry /\ m.key \in Keys /\ m.val \in Values
BY MessageFacts, LinkAssumption DEF LinkAssumption

LEMMA EnqueueTyped ==
  ASSUME outCh \in Seq(Messages), Len(outCh) <= OutCap, NEW m \in Messages, Enqueue(m)
  PROVE  outCh' \in Seq(Messages) /\ Len(outCh') <= OutCap
<1>1. Len(outCh) \in Nat /\ OutCap \in Nat
  BY LenProperties, LinkAssumption DEF LinkAssumption
<1>2. CASE Len(outCh) < OutCap
  <2>1. outCh' = Append(outCh, m)
    BY <1>2 DEF Enqueue
  <2>2. Append(outCh, m) \in Seq(Messages) /\ Len(Append(outCh, m)) = Len(outCh) + 1
    BY AppendProperties
  <2> QED  BY <1>1, <1>2, <2>1, <2>2
<1>3. CASE ~(Len(outCh) < OutCap)
  BY <1>3 DEF Enqueue
<1> QED  BY <1>2, <1>3

\* One connection changes.
LEMMA ConnSet ==
  ASSUME conns \in Seq(Conns), NEW i \in 1..N, NEW x \in Conns, conns' = [conns EXCEPT ![i] = x]
  PROVE  /\ conns' \in Seq(Conns) /\ N' = N /\ N \in Nat /\ conns # <<>> /\ conns' # <<>>
         /\ conns'[i] = x /\ \A j \in 1..N : j # i => conns'[j] = conns[j]
<1>1. conns \in [1..N -> Conns] /\ N \in Nat
  BY LenProperties DEF N
<1>2. conns' \in Seq(Conns) /\ Len(conns') = Len(conns)
  BY ExceptFacts
<1>3. conns # <<>> /\ conns' # <<>>
  <2>1. N # 0
    BY <1>1
  <2> QED  BY <1>2, <2>1, EmptySeq DEF N
<1> QED  BY <1>1, <1>2, <1>3 DEF N

LEMMA ConnsTail ==
  ASSUME conns \in Seq(Conns), conns # <<>>, conns' = Tail(conns)
  PROVE  /\ conns' \in Seq(Conns) /\ N' = N - 1 /\ N \in Nat /\ N >= 1
         /\ \A i \in 1..(N - 1) : conns'[i] = conns[i + 1]
BY HeadTail DEF N

LEMMA ConnsAppend ==
  ASSUME conns \in Seq(Conns), conns' = Append(conns, NewConn)
  PROVE  /\ conns' \in Seq(Conns) /\ N' = N + 1 /\ N \in Nat /\ conns' # <<>>
         /\ conns'[N + 1] = NewConn /\ \A i \in 1..N : conns'[i] = conns[i]
<1>1. NewConn \in Conns
  BY DEF NewConn, Conns
<1>2. /\ conns' \in Seq(Conns) /\ Len(conns') = Len(conns) + 1 /\ Len(conns) \in Nat
      /\ conns'[Len(conns) + 1] = NewConn /\ \A i \in 1..Len(conns) : conns'[i] = conns[i]
  BY <1>1, AppendProperties, LenProperties
<1>3. conns' # <<>>
  BY <1>2, EmptySeq
<1> QED  BY <1>2, <1>3 DEF N

\* Changes of one field of a connection.
LEMMA WithData ==
  ASSUME NEW c \in Conns, NEW d \in Seq(Messages)
  PROVE  LET x == [c EXCEPT !.data = d] IN
         x \in Conns /\ x.data = d /\ x.open = c.open /\ x.req = c.req
BY DEF Conns

LEMMA WithOpen ==
  ASSUME NEW c \in Conns, NEW b \in BOOLEAN
  PROVE  LET x == [c EXCEPT !.open = b] IN
         x \in Conns /\ x.data = c.data /\ x.open = b /\ x.req = c.req
BY DEF Conns

LEMMA WithReq ==
  ASSUME NEW c \in Conns, NEW q \in {"none", "sent", "taken"}
  PROVE  LET x == [c EXCEPT !.req = q] IN
         x \in Conns /\ x.data = c.data /\ x.open = c.open /\ x.req = q
BY DEF Conns

LEMMA ConnTyped ==
  ASSUME NEW c \in Conns
  PROVE  c.data \in Seq(Messages) /\ c.open \in BOOLEAN /\ c.req \in {"none", "sent", "taken"}
BY DEF Conns

-----------------------------------------------------------------------------
(* Types.                                                                  *)

ConnsOK ==
  /\ conns \in Seq(Conns) /\ N <= MaxConns
  /\ \A i \in 1..N : Len(conns[i].data) <= WireCap
CacheOK ==
  /\ store \in [Keys -> Values \cup {NoEntry}]
  /\ outCh \in Seq(Messages) /\ Len(outCh) <= OutCap
  /\ clearing \in BOOLEAN /\ lost \subseteq Keys /\ missed \subseteq Keys
LinkOK ==
  /\ link \in {"dial", "serve", "write"}
  /\ todo \subseteq Messages /\ (todo # {} <=> link = "write")
ProxyOK == up \in BOOLEAN /\ entries \in [Resources -> Values \cup {NoEntry}]
BoundsOK ==
  /\ sends \in 0..MaxSends /\ clears \in 0..MaxClears
  /\ timeouts \in 0..MaxTimeouts /\ crashes \in 0..MaxCrashes

LEMMA TypeParts == TypeOK <=> ConnsOK /\ CacheOK /\ LinkOK /\ ProxyOK /\ BoundsOK
BY DEF TypeOK, ConnsOK, CacheOK, LinkOK, ProxyOK, BoundsOK

\* The connections are typed, and so is the first and the Link's.
LEMMA EndsOfConns ==
  ASSUME ConnsOK
  PROVE  /\ N \in Nat /\ (conns # <<>> <=> N >= 1) /\ conns \in Seq(Conns)
         /\ \A i \in 1..N : conns[i] \in Conns /\ conns[i].data \in Seq(Messages)
<1>1. conns \in Seq(Conns) /\ N \in Nat
  BY LenProperties DEF ConnsOK, N
<1>2. \A i \in 1..N : conns[i] \in Conns
  BY <1>1, ElementOfSeq DEF N
<1>3. conns # <<>> <=> N >= 1
  BY <1>1, EmptySeq DEF N
<1> QED  BY <1>1, <1>2, <1>3, ConnTyped

LEMMA ConnsNonempty == ConnsOK => (conns # <<>> <=> N >= 1)
BY EndsOfConns

\* A step that changes one connection keeps the rest.
LEMMA ConnChange ==
  ASSUME ConnsOK, NEW i \in 1..N, NEW x \in Conns, Len(x.data) <= WireCap,
         conns' = [conns EXCEPT ![i] = x]
  PROVE  /\ ConnsOK' /\ N' = N /\ conns # <<>> /\ conns' # <<>>
         /\ conns'[i] = x /\ \A j \in 1..N : j # i => conns'[j] = conns[j]
<1>1. /\ conns' \in Seq(Conns) /\ N' = N /\ N \in Nat /\ conns # <<>> /\ conns' # <<>>
      /\ conns'[i] = x /\ \A j \in 1..N : j # i => conns'[j] = conns[j]
  BY ConnSet DEF ConnsOK
<1>2. ConnsOK'
  <2>1. \A j \in 1..N : Len(conns'[j].data) <= WireCap
    BY <1>1 DEF ConnsOK
  <2> QED  BY <1>1, <2>1 DEF ConnsOK
<1> QED  BY <1>1, <1>2

\* Written on: the Link's connection has one more message.
LEMMA TransmitConns ==
  ASSUME ConnsOK, conns # <<>>, NEW m \in Messages, Len(conns[N].data) < WireCap,
         conns' = [conns EXCEPT ![N].data = Append(@, m)]
  PROVE  /\ ConnsOK' /\ N' = N /\ N \in 1..N
         /\ conns'[N].data = Append(conns[N].data, m)
         /\ conns'[N].open = conns[N].open /\ conns'[N].req = conns[N].req
         /\ \A j \in 1..N : j # N => conns'[j] = conns[j]
<1> DEFINE c == conns[N]  d == Append(c.data, m)  x == [c EXCEPT !.data = d]
<1>1. N \in 1..N /\ c \in Conns /\ c.data \in Seq(Messages)
  BY EndsOfConns
<1>2. conns' = [conns EXCEPT ![N] = x] /\ Len(c.data) < WireCap
  OBVIOUS
<1> HIDE DEF c
<1>3. d \in Seq(Messages) /\ Len(d) = Len(c.data) + 1 /\ Len(c.data) \in Nat
  BY <1>1, AppendProperties, LenProperties
<1>4. Len(d) <= WireCap
  BY <1>2, <1>3, LinkAssumption DEF LinkAssumption
<1> HIDE DEF d
<1>5. x \in Conns /\ x.data = d /\ x.open = c.open /\ x.req = c.req
  BY <1>1, <1>3, WithData
<1> HIDE DEF x
<1>6. /\ ConnsOK' /\ N' = N /\ conns'[N] = x /\ \A j \in 1..N : j # N => conns'[j] = conns[j]
  BY <1>1, <1>2, <1>4, <1>5, ConnChange
<1> QED  BY <1>1, <1>5, <1>6 DEF d, c

\* Closed by the Link.
LEMMA CloseConns ==
  ASSUME ConnsOK, conns # <<>>, conns' = [conns EXCEPT ![N].open = FALSE]
  PROVE  /\ ConnsOK' /\ N' = N /\ N \in 1..N /\ ~conns'[N].open
         /\ \A j \in 1..N : conns'[j].data = conns[j].data /\ conns'[j].req = conns[j].req
<1> DEFINE c == conns[N]  x == [c EXCEPT !.open = FALSE]
<1>1. N \in 1..N /\ c \in Conns /\ Len(c.data) <= WireCap
  BY EndsOfConns DEF ConnsOK
<1>2. conns' = [conns EXCEPT ![N] = x]
  OBVIOUS
<1> HIDE DEF c
<1>5. x \in Conns /\ x.data = c.data /\ x.open = FALSE /\ x.req = c.req
  BY <1>1, WithOpen
<1> HIDE DEF x
<1>6. /\ ConnsOK' /\ N' = N /\ conns'[N] = x /\ \A j \in 1..N : j # N => conns'[j] = conns[j]
  BY <1>1, <1>2, <1>5, ConnChange
<1> QED  BY <1>1, <1>5, <1>6 DEF c

\* The request of a connection moves on.
LEMMA RequestConns ==
  ASSUME ConnsOK, NEW i \in 1..N, NEW q \in {"none", "sent", "taken"},
         conns' = [conns EXCEPT ![i].req = q]
  PROVE  /\ ConnsOK' /\ N' = N /\ conns # <<>> /\ conns' # <<>> /\ conns'[i].req = q
         /\ \A j \in 1..N : conns'[j].data = conns[j].data /\ conns'[j].open = conns[j].open
         /\ \A j \in 1..N : j # i => conns'[j] = conns[j]
<1> DEFINE c == conns[i]  x == [c EXCEPT !.req = q]
<1>1. c \in Conns /\ Len(c.data) <= WireCap
  BY EndsOfConns DEF ConnsOK
<1>2. conns' = [conns EXCEPT ![i] = x]
  OBVIOUS
<1> HIDE DEF c
<1>5. x \in Conns /\ x.data = c.data /\ x.open = c.open /\ x.req = q
  BY <1>1, WithReq
<1> HIDE DEF x
<1>6. /\ ConnsOK' /\ N' = N /\ conns # <<>> /\ conns' # <<>>
      /\ conns'[i] = x /\ \A j \in 1..N : j # i => conns'[j] = conns[j]
  BY <1>1, <1>2, <1>5, ConnChange
<1> QED  BY <1>1, <1>5, <1>6 DEF c

\* The proxy read a message of the first connection.
LEMMA ReadConns ==
  ASSUME ConnsOK, conns # <<>>, conns[1].data # <<>>,
         conns' = [conns EXCEPT ![1].data = Tail(@)]
  PROVE  /\ ConnsOK' /\ N' = N /\ 1 \in 1..N /\ conns' # <<>>
         /\ conns'[1].data = Tail(conns[1].data)
         /\ \A j \in 1..N : conns'[j].open = conns[j].open /\ conns'[j].req = conns[j].req
         /\ \A j \in 1..N : j # 1 => conns'[j] = conns[j]
<1> DEFINE c == conns[1]  d == Tail(c.data)  x == [c EXCEPT !.data = d]
<1>1. 1 \in 1..N /\ c \in Conns /\ c.data \in Seq(Messages) /\ Len(c.data) <= WireCap
  BY EndsOfConns DEF ConnsOK
<1>2. conns' = [conns EXCEPT ![1] = x] /\ c.data # <<>>
  OBVIOUS
<1> HIDE DEF c
<1>3. d \in Seq(Messages) /\ Len(d) = Len(c.data) - 1 /\ Len(c.data) \in Nat
  BY <1>1, <1>2, HeadTail
<1>4. Len(d) <= WireCap
  BY <1>1, <1>3, LinkAssumption DEF LinkAssumption
<1> HIDE DEF d
<1>5. x \in Conns /\ x.data = d /\ x.open = c.open /\ x.req = c.req
  BY <1>1, <1>3, WithData
<1> HIDE DEF x
<1>6. /\ ConnsOK' /\ N' = N /\ conns' # <<>>
      /\ conns'[1] = x /\ \A j \in 1..N : j # 1 => conns'[j] = conns[j]
  BY <1>1, <1>2, <1>4, <1>5, ConnChange
<1> QED  BY <1>1, <1>5, <1>6 DEF d, c

\* The proxy is done with the first connection.
LEMMA CloseFirst ==
  ASSUME ConnsOK, conns # <<>>, conns' = Tail(conns)
  PROVE  /\ ConnsOK' /\ N' = N - 1 /\ N \in Nat /\ N >= 1
         /\ \A i \in 1..(N - 1) : conns'[i] = conns[i + 1]
<1>1. /\ conns' \in Seq(Conns) /\ N' = N - 1 /\ N \in Nat /\ N >= 1
      /\ \A i \in 1..(N - 1) : conns'[i] = conns[i + 1]
  BY ConnsTail DEF ConnsOK
<1>2. ConnsOK'
  <2>1. \A i \in 1..(N - 1) : i + 1 \in 1..N
    BY <1>1
  <2>2. \A i \in 1..(N - 1) : Len(conns'[i].data) <= WireCap
    BY <1>1, <2>1 DEF ConnsOK
  <2>3. N - 1 <= MaxConns
    BY <1>1, LinkAssumption DEF ConnsOK, LinkAssumption
  <2>4. N' <= MaxConns
    BY <1>1, <2>3
  <2>5. \A i \in 1..N' : Len(conns'[i].data) <= WireCap
    BY <1>1, <2>2
  <2> QED  BY <1>1, <2>4, <2>5 DEF ConnsOK
<1> QED  BY <1>1, <1>2

\* A new connection of the Link.
LEMMA DialConns ==
  ASSUME ConnsOK, N < MaxConns, conns' = Append(conns, NewConn)
  PROVE  /\ ConnsOK' /\ N' = N + 1 /\ N \in Nat /\ conns' # <<>>
         /\ conns'[N + 1] = NewConn /\ \A i \in 1..N : conns'[i] = conns[i]
<1>1. /\ conns' \in Seq(Conns) /\ N' = N + 1 /\ N \in Nat /\ conns' # <<>>
      /\ conns'[N + 1] = NewConn /\ \A i \in 1..N : conns'[i] = conns[i]
  BY ConnsAppend DEF ConnsOK
<1>2. NewConn.data = <<>> /\ Len(<<>>) = 0 /\ 0 <= WireCap
  BY LinkAssumption DEF NewConn, LinkAssumption
<1>3. ConnsOK'
  <2>1. \A i \in 1..(N + 1) : Len(conns'[i].data) <= WireCap
    <3> SUFFICES ASSUME NEW i \in 1..(N + 1) PROVE Len(conns'[i].data) <= WireCap
      OBVIOUS
    <3>1. CASE i = N + 1
      BY <1>1, <1>2, <3>1
    <3>2. CASE i \in 1..N
      BY <1>1, <3>2 DEF ConnsOK
    <3>3. i = N + 1 \/ i \in 1..N
      <4>1. N \in Nat
        BY <1>1
      <4> QED  BY <4>1
    <3> QED  BY <3>1, <3>2, <3>3
  <2>2. N + 1 <= MaxConns
    BY <1>1, LinkAssumption DEF LinkAssumption
  <2>4. N' <= MaxConns
    BY <1>1, <2>2
  <2>5. \A i \in 1..N' : Len(conns'[i].data) <= WireCap
    BY <1>1, <2>1
  <2> QED  BY <1>1, <2>4, <2>5 DEF ConnsOK
<1> QED  BY <1>1, <1>3
LEMMA SendTyped ==
  ASSUME TypeOK, NEW k \in Keys, NEW v \in Values, Send(k, v)
  PROVE  TypeOK'
<1>1. ConnsOK /\ CacheOK /\ LinkOK /\ ProxyOK /\ BoundsOK
  BY TypeParts
<1>2. outCh' \in Seq(Messages) /\ Len(outCh') <= OutCap
  BY <1>1, MessageFacts, EnqueueTyped DEF Send, CacheOK
<1>3. CacheOK'
  <2>1. store' \in [Keys -> Values \cup {NoEntry}]
    BY <1>1 DEF Send, CacheOK
  <2>2. lost' \subseteq Keys /\ missed' \subseteq Keys /\ clearing' \in BOOLEAN
    BY <1>1 DEF Send, CacheOK
  <2> QED  BY <1>2, <2>1, <2>2 DEF CacheOK
<1>4. BoundsOK'
  BY <1>1, LinkAssumption DEF Send, BoundsOK, linkVars, proxyVars, LinkAssumption
<1>5. ConnsOK' /\ LinkOK' /\ ProxyOK'
  BY <1>1 DEF Send, ConnsOK, LinkOK, ProxyOK, N, linkVars, proxyVars
<1> QED  BY <1>3, <1>4, <1>5, TypeParts, PTL

LEMMA ClearTyped ==
  ASSUME TypeOK, Clear
  PROVE  TypeOK'
<1>1. ConnsOK /\ CacheOK /\ LinkOK /\ ProxyOK /\ BoundsOK
  BY TypeParts
<1>2. ASSUME SendClear PROVE outCh' \in Seq(Messages) /\ Len(outCh') <= OutCap /\ lost' \subseteq Keys
  <2>1. outCh' \in Seq(Messages) /\ Len(outCh') <= OutCap
    BY <1>1, <1>2, MessageFacts, EnqueueTyped DEF SendClear, CacheOK
  <2> QED  BY <1>2, <2>1 DEF SendClear
<1>3. ASSUME EmptyStore
      PROVE  /\ store' \in [Keys -> Values \cup {NoEntry}] /\ lost' \subseteq Keys
             /\ outCh' \in Seq(Messages) /\ Len(outCh') <= OutCap
  BY <1>1, <1>3 DEF EmptyStore, EmptyCache, CacheOK
<1>4. CacheOK'
  BY <1>1, <1>2, <1>3 DEF Clear, CacheOK
<1>5. BoundsOK'
  <2>1. clears' \in 0..MaxClears
    BY <1>1, LinkAssumption DEF Clear, BoundsOK, LinkAssumption
  <2> QED  BY <1>1, <2>1 DEF Clear, BoundsOK, linkVars, proxyVars
<1>6. ConnsOK' /\ LinkOK' /\ ProxyOK'
  BY <1>1 DEF Clear, ConnsOK, LinkOK, ProxyOK, N, linkVars, proxyVars
<1> QED  BY <1>4, <1>5, <1>6, TypeParts, PTL

LEMMA SnapshotTyped ==
  ASSUME CacheOK
  PROVE  Snapshot \subseteq Messages
BY MessageFacts DEF Snapshot, CacheOK

LEMMA LinkTyped ==
  ASSUME TypeOK, Dial \/ TakeOut \/ TakeStatus \/ (\E m \in todo : Transmit(m)) \/ PeerGone
  PROVE  TypeOK'
<1>1. ConnsOK /\ CacheOK /\ LinkOK /\ ProxyOK /\ BoundsOK
  BY TypeParts
<1>2. CASE Dial
  <2>1. ConnsOK'
    BY <1>1, <1>2, DialConns DEF Dial
  <2>2. CacheOK' /\ LinkOK' /\ ProxyOK' /\ BoundsOK'
    BY <1>1, <1>2 DEF Dial, CacheOK, LinkOK, ProxyOK, BoundsOK, cacheVars, proxyVars
  <2> QED  BY <2>1, <2>2, TypeParts, PTL
<1>3. CASE TakeOut
  <2>1. /\ Head(outCh) \in Messages /\ Tail(outCh) \in Seq(Messages) /\ Len(Tail(outCh)) = Len(outCh) - 1
        /\ Len(outCh) \in Nat /\ Len(outCh) <= OutCap
    BY <1>1, <1>3, HeadTail DEF TakeOut, CacheOK
  <2>2. outCh' \in Seq(Messages) /\ Len(outCh') <= OutCap
    BY <1>3, <2>1, LinkAssumption DEF TakeOut, LinkAssumption
  <2>3. todo' \subseteq Messages /\ todo' # {} /\ link' = "write"
    BY <1>3, <2>1 DEF TakeOut
  <2>4. CacheOK' /\ LinkOK'
    BY <1>1, <1>3, <2>2, <2>3 DEF TakeOut, CacheOK, LinkOK
  <2>5. ConnsOK' /\ ProxyOK' /\ BoundsOK'
    BY <1>1, <1>3 DEF TakeOut, ConnsOK, ProxyOK, BoundsOK, N, proxyVars
  <2> QED  BY <2>4, <2>5, TypeParts, PTL
<1>4. CASE TakeStatus
  <2>1. ConnsOK'
    <3>1. N \in 1..N /\ ConnsOK
      BY <1>1, <1>4, EndsOfConns DEF TakeStatus, Linked
    <3>2. conns' = [conns EXCEPT ![N].req = "taken"]
      BY <1>4 DEF TakeStatus
    <3> QED  BY <3>1, <3>2, RequestConns
  <2>2. LinkOK'
    BY <1>1, <1>4, SnapshotTyped DEF TakeStatus, LinkOK
  <2>3. CacheOK'
    BY <1>1, <1>4 DEF TakeStatus, CacheOK, cacheVars
  <2>4. ProxyOK' /\ BoundsOK'
    BY <1>1, <1>4 DEF TakeStatus, ProxyOK, BoundsOK, cacheVars, proxyVars
  <2> QED  BY <2>1, <2>2, <2>3, <2>4, TypeParts, PTL
<1>5. ASSUME NEW m \in todo, Transmit(m) PROVE TypeOK'
  <2>1. ConnsOK'
    BY <1>1, <1>5, TransmitConns DEF Transmit, Linked, LinkOK
  <2>2. LinkOK'
    BY <1>1, <1>5 DEF Transmit, LinkOK
  <2>3. CacheOK' /\ ProxyOK' /\ BoundsOK'
    BY <1>1, <1>5 DEF Transmit, CacheOK, ProxyOK, BoundsOK, cacheVars, proxyVars
  <2> QED  BY <2>1, <2>2, <2>3, TypeParts, PTL
<1>6. CASE PeerGone
  <2>1. ConnsOK' /\ CacheOK' /\ LinkOK' /\ ProxyOK' /\ BoundsOK'
    BY <1>1, <1>6 DEF PeerGone, ConnsOK, CacheOK, LinkOK, ProxyOK, BoundsOK, N, cacheVars, proxyVars
  <2> QED  BY <2>1, TypeParts, PTL
<1> QED  BY <1>2, <1>3, <1>4, <1>5, <1>6

LEMMA TimeoutTyped ==
  ASSUME TypeOK, TransmitTimeout
  PROVE  TypeOK'
<1>1. ConnsOK /\ CacheOK /\ LinkOK /\ ProxyOK /\ BoundsOK
  BY TypeParts
<1>2. ConnsOK'
  BY <1>1, CloseConns DEF TransmitTimeout, Linked
<1>3. LinkOK'
  BY DEF TransmitTimeout, LinkOK
<1>4. CacheOK'
  <2>1. lost' \subseteq Keys
    BY <1>1 DEF TransmitTimeout, CacheOK, Uncleared
  <2> QED  BY <1>1, <2>1 DEF TransmitTimeout, CacheOK, cacheVars
<1>5. ProxyOK'
  BY <1>1 DEF TransmitTimeout, ProxyOK, proxyVars
<1>6. BoundsOK'
  <2>1. timeouts' \in 0..MaxTimeouts
    BY <1>1, LinkAssumption DEF TransmitTimeout, BoundsOK, LinkAssumption
  <2> QED  BY <1>1, <2>1 DEF TransmitTimeout, BoundsOK, cacheVars, proxyVars
<1> QED  BY <1>2, <1>3, <1>4, <1>5, <1>6, TypeParts, PTL

\* Whatever message the proxy reads, its event cache stays typed.
LEMMA HandledTyped ==
  ASSUME ProxyOK, NEW m \in Messages
  PROVE  (IF m = ClearMsg THEN NoEntries ELSE Update(m)) \in [Resources -> Values \cup {NoEntry}]
<1>1. NoEntries \in [Resources -> Values \cup {NoEntry}]
  BY DEF NoEntries
<1>2. m # ClearMsg => Update(m) \in [Resources -> Values \cup {NoEntry}]
  BY ValueIsEntry DEF ProxyOK, Update, setDataValue
<1> QED  BY <1>1, <1>2

LEMMA ProxyTyped ==
  ASSUME TypeOK, ProxyStep \/ Crash \/ Restart
  PROVE  TypeOK'
<1>1. ConnsOK /\ CacheOK /\ LinkOK /\ ProxyOK /\ BoundsOK
  BY TypeParts
<1>2. CASE Accept
  <2>1. ConnsOK'
    <3>1. 1 \in 1..N /\ ConnsOK
      BY <1>1, <1>2, EndsOfConns DEF Accept
    <3>2. conns' = [conns EXCEPT ![1].req = "sent"]
      BY <1>2 DEF Accept
    <3> QED  BY <3>1, <3>2, RequestConns
  <2>2. CacheOK' /\ LinkOK' /\ ProxyOK' /\ BoundsOK'
    BY <1>1, <1>2 DEF Accept, CacheOK, LinkOK, ProxyOK, BoundsOK, cacheVars, linkVars, proxyVars
  <2> QED  BY <2>1, <2>2, TypeParts, PTL
<1>3. CASE AcceptFails
  <2>1. ConnsOK'
    BY <1>1, <1>3, CloseFirst DEF AcceptFails
  <2>2. CacheOK'
    <3>1. lost' \subseteq Keys
      BY <1>1, <1>3 DEF AcceptFails, CacheOK, Uncleared
    <3> QED  BY <1>1, <1>3, <3>1 DEF AcceptFails, CacheOK, cacheVars
  <2>3. LinkOK' /\ ProxyOK' /\ BoundsOK'
    BY <1>1, <1>3 DEF AcceptFails, LinkOK, ProxyOK, BoundsOK, cacheVars, linkVars, proxyVars
  <2> QED  BY <2>1, <2>2, <2>3, TypeParts, PTL
<1>4. CASE HandleIncoming
  <2>1. ConnsOK'
    BY <1>1, <1>4, ReadConns DEF HandleIncoming
  <2>2. ProxyOK'
    <3>1. Head(conns[1].data) \in Messages
      <4>1. conns[1].data \in Seq(Messages) /\ conns[1].data # <<>>
        BY <1>1, <1>4, EndsOfConns DEF HandleIncoming
      <4> QED  BY <4>1, HeadTail
    <3>2. entries' \in [Resources -> Values \cup {NoEntry}]
      BY <1>1, <1>4, <3>1, HandledTyped DEF HandleIncoming
    <3> QED  BY <1>1, <1>4, <3>2 DEF HandleIncoming, ProxyOK
  <2>3. CacheOK' /\ LinkOK' /\ BoundsOK'
    BY <1>1, <1>4 DEF HandleIncoming, CacheOK, LinkOK, BoundsOK, cacheVars, linkVars
  <2> QED  BY <2>1, <2>2, <2>3, TypeParts, PTL
<1>5. CASE Disconnected
  <2>1. ConnsOK'
    BY <1>1, <1>5, CloseFirst DEF Disconnected
  <2>2. CacheOK' /\ LinkOK' /\ ProxyOK' /\ BoundsOK'
    BY <1>1, <1>5 DEF Disconnected, CacheOK, LinkOK, ProxyOK, BoundsOK, cacheVars, linkVars, proxyVars
  <2> QED  BY <2>1, <2>2, TypeParts, PTL
<1>6. CASE Crash
  <2>1. ConnsOK'
    BY <1>6, LinkAssumption DEF Crash, ConnsOK, N, LinkAssumption
  <2>2. ProxyOK' /\ CacheOK' /\ LinkOK'
    BY <1>1, <1>6 DEF Crash, ProxyOK, CacheOK, LinkOK, NoEntries, cacheVars, linkVars
  <2>3. BoundsOK'
    <3>1. crashes' \in 0..MaxCrashes
      BY <1>1, <1>6, LinkAssumption DEF Crash, BoundsOK, LinkAssumption
    <3> QED  BY <1>1, <1>6, <3>1 DEF Crash, BoundsOK, cacheVars, linkVars
  <2> QED  BY <2>1, <2>2, <2>3, TypeParts, PTL
<1>7. CASE Restart
  <2>1. ConnsOK' /\ CacheOK' /\ LinkOK' /\ ProxyOK' /\ BoundsOK'
    BY <1>1, <1>7 DEF Restart, ConnsOK, CacheOK, LinkOK, ProxyOK, BoundsOK, N, cacheVars, linkVars
  <2> QED  BY <2>1, TypeParts, PTL
<1> QED  BY <1>2, <1>3, <1>4, <1>5, <1>6, <1>7 DEF ProxyStep

LEMMA InitTyped == Init => TypeOK
<1> SUFFICES ASSUME Init PROVE TypeOK
  OBVIOUS
<1>1. ConnsOK /\ CacheOK /\ LinkOK
  <2>1. outCh = <<>> /\ conns = <<>> /\ Len(<<>>) = 0 /\ 0 <= OutCap /\ 0 <= MaxConns
    BY LinkAssumption DEF Init, LinkAssumption
  <2>2. ConnsOK
    <3>1. N = 0
      BY <2>1 DEF N
    <3>2. conns \in Seq(Conns)
      BY <2>1
    <3>3. N <= MaxConns
      BY <2>1, <3>1
    <3>4. 1..N = {}
      BY <3>1
    <3> QED  BY <3>2, <3>3, <3>4 DEF ConnsOK
  <2>3. CacheOK
    <3>1. outCh \in Seq(Messages) /\ Len(outCh) <= OutCap
      BY <2>1
    <3>2. /\ store \in [Keys -> Values \cup {NoEntry}] /\ clearing \in BOOLEAN
          /\ lost \subseteq Keys /\ missed \subseteq Keys
      BY DEF Init, EmptyCache
    <3> QED  BY <3>1, <3>2 DEF CacheOK
  <2>4. LinkOK
    BY DEF Init, LinkOK
  <2> QED  BY <2>2, <2>3, <2>4
<1>2. ProxyOK /\ BoundsOK
  BY LinkAssumption DEF Init, ProxyOK, BoundsOK, NoEntries, LinkAssumption
<1> QED  BY <1>1, <1>2, TypeParts

LEMMA StepTyped == TypeOK /\ [Next]_vars => TypeOK'
<1> SUFFICES ASSUME TypeOK, [Next]_vars PROVE TypeOK'
  OBVIOUS
<1>1. CASE Next
  BY <1>1, SendTyped, ClearTyped, LinkTyped, TimeoutTyped, ProxyTyped DEF Next, LinkStep
<1>2. CASE UNCHANGED vars
  BY <1>2 DEF TypeOK, vars, cacheVars, linkVars, proxyVars, N
<1> QED  BY <1>1, <1>2

\* The capacities hold and serve writes exactly while it holds messages.
\* (cache.go Send: non-blocking send on outCh; link.go serve)
THEOREM LinkTypeOK == Spec => []TypeOK
<1> QED  BY InitTyped, StepTyped, PTL DEF Spec
-----------------------------------------------------------------------------
(* The shape of the pipeline.                                              *)

\* Between the two halves of Clear the store is empty.
Emptied == clearing => store = EmptyCache
\* Only the oldest connection was accepted; the others wait in the backlog.
Waiting == \A i \in 2..N : conns[i].req = "none"
\* While the Link serves, its connection is open or the proxy died.
LinkAlive == link # "dial" => Linked \/ (conns = <<>> /\ entries = NoEntries)
\* serve holds at most one message about a key.
OneEach == \A m1 \in todo, m2 \in todo, k \in Keys : About(m1, k) /\ About(m2, k) => m1 = m2

Shape == TypeOK /\ Emptied /\ Waiting /\ LinkAlive /\ OneEach

\* A step of the daemon's callers leaves the Link and the proxy alone.
LEMMA CacheShape ==
  ASSUME Shape, (\E k \in Keys, v \in Values : Send(k, v)) \/ Clear
  PROVE  Shape'
<1>1. TypeOK'
  BY SendTyped, ClearTyped DEF Shape
<1>2. Emptied'
  BY DEF Shape, Emptied, Send, Clear, EmptyStore
<1>3. UNCHANGED <<link, todo, conns, entries>>
  BY DEF Send, Clear, linkVars, proxyVars
<1>4. Waiting' /\ LinkAlive' /\ OneEach'
  BY <1>3 DEF Shape, Waiting, LinkAlive, OneEach, Linked, N
<1> QED  BY <1>1, <1>2, <1>4 DEF Shape

LEMMA SnapshotOneEach ==
  \A m1 \in Snapshot, m2 \in Snapshot, k \in Keys : About(m1, k) /\ About(m2, k) => m1 = m2
BY DEF Snapshot, About, SetMsg, ClearMsg

LEMMA LinkShape ==
  ASSUME Shape, Dial \/ TakeOut \/ TakeStatus \/ (\E m \in todo : Transmit(m)) \/ PeerGone
  PROVE  Shape'
<1>1. TypeOK'
  BY LinkTyped DEF Shape
<1>2. ConnsOK
  BY TypeParts DEF Shape
<1>3. UNCHANGED <<store, clearing, entries>>
  BY DEF Dial, TakeOut, TakeStatus, Transmit, PeerGone, cacheVars, proxyVars
<1>4. Emptied'
  BY <1>3 DEF Shape, Emptied
<1>5. CASE Dial
  <2>1. /\ N' = N + 1 /\ N \in Nat /\ conns' # <<>> /\ conns'[N + 1] = NewConn
        /\ \A i \in 1..N : conns'[i] = conns[i]
    BY <1>2, <1>5, DialConns DEF Dial
  <2>2. Waiting'
    <3> SUFFICES ASSUME NEW i \in 2..(N + 1) PROVE conns'[i].req = "none"
      BY <2>1 DEF Waiting
    <3>1. CASE i = N + 1
      BY <2>1, <3>1 DEF NewConn
    <3>2. CASE i # N + 1
      <4>1. i \in 2..N /\ i \in 1..N
        BY <2>1, <3>2
      <4> QED  BY <2>1, <4>1 DEF Shape, Waiting
    <3> QED  BY <3>1, <3>2
  <2>3. LinkAlive'
    BY <2>1 DEF LinkAlive, Linked, NewConn
  <2>4. OneEach'
    BY <1>5 DEF Shape, OneEach, Dial
  <2> QED  BY <1>1, <1>4, <2>2, <2>3, <2>4 DEF Shape
<1>6. CASE TakeOut
  <2>1. Waiting' /\ LinkAlive'
    BY <1>6 DEF Shape, Waiting, LinkAlive, Linked, N, TakeOut, proxyVars
  <2>2. OneEach'
    BY <1>6 DEF OneEach, TakeOut
  <2> QED  BY <1>1, <1>4, <2>1, <2>2 DEF Shape
<1>7. CASE TakeStatus
  <2>1. N \in 1..N
    BY <1>2, <1>7, EndsOfConns DEF TakeStatus, Linked
  <2>2. conns' = [conns EXCEPT ![N].req = "taken"] /\ conns # <<>> /\ conns[N].open /\ conns[N].req = "sent"
    BY <1>7 DEF TakeStatus, Linked
  <2>3. /\ N' = N /\ conns' # <<>>
        /\ \A j \in 1..N : conns'[j].open = conns[j].open
        /\ \A j \in 1..N : j # N => conns'[j] = conns[j]
    BY <1>2, <2>1, <2>2, RequestConns
  <2>4. Waiting'
    BY <1>2, <2>1, <2>2, <2>3, EndsOfConns DEF Shape, Waiting
  <2>5. LinkAlive'
    BY <2>1, <2>2, <2>3 DEF LinkAlive, Linked
  <2>6. OneEach'
    BY <1>7, SnapshotOneEach DEF OneEach, TakeStatus
  <2> QED  BY <1>1, <1>4, <2>4, <2>5, <2>6 DEF Shape
<1>8. ASSUME NEW m \in todo, Transmit(m) PROVE Shape'
  <2>1. m \in Messages /\ conns # <<>> /\ conns[N].open /\ Len(conns[N].data) < WireCap
    BY <1>8 DEF Shape, TypeOK, Transmit, Linked
  <2>2. conns' = [conns EXCEPT ![N].data = Append(@, m)] /\ todo' \subseteq todo
    BY <1>8 DEF Transmit
  <2>3. /\ ConnsOK' /\ N' = N /\ N \in 1..N
        /\ conns'[N].open = conns[N].open /\ conns'[N].req = conns[N].req
        /\ \A j \in 1..N : j # N => conns'[j] = conns[j]
    BY <1>2, <2>1, <2>2, TransmitConns
  <2>4. \A i \in 2..N : conns'[i].req = conns[i].req
    BY <2>3
  <2>5. Waiting'
    BY <2>3, <2>4 DEF Shape, Waiting
  <2>6. conns' # <<>>
    <3>1. N' >= 1
      BY <2>3
    <3>2. (ConnsOK => (conns # <<>> <=> N >= 1))'
      BY ConnsNonempty, PTL
    <3> QED  BY <2>3, <3>1, <3>2
  <2>7. LinkAlive'
    BY <2>1, <2>3, <2>6 DEF LinkAlive, Linked
  <2>8. OneEach'
    BY <2>2 DEF Shape, OneEach
  <2> QED  BY <1>1, <1>4, <2>5, <2>7, <2>8 DEF Shape
<1>9. CASE PeerGone
  <2>1. Waiting' /\ LinkAlive' /\ OneEach'
    BY <1>9 DEF Shape, Waiting, LinkAlive, OneEach, PeerGone, N
  <2> QED  BY <1>1, <1>4, <2>1 DEF Shape
<1> QED  BY <1>5, <1>6, <1>7, <1>8, <1>9

LEMMA TimeoutShape ==
  ASSUME Shape, TransmitTimeout
  PROVE  Shape'
<1>1. TypeOK'
  BY TimeoutTyped DEF Shape
<1>2. ConnsOK
  BY TypeParts DEF Shape
<1>3. /\ N' = N /\ \A j \in 1..N : conns'[j].req = conns[j].req
  BY <1>2, CloseConns DEF TransmitTimeout, Linked
<1>4. \A i \in 2..N : i \in 1..N
  BY <1>2, EndsOfConns
<1>5. Waiting'
  BY <1>3, <1>4 DEF Shape, Waiting
<1>6. Emptied' /\ LinkAlive' /\ OneEach'
  BY DEF Shape, Emptied, LinkAlive, OneEach, TransmitTimeout, cacheVars
<1> QED  BY <1>1, <1>5, <1>6 DEF Shape

\* The first connection goes: the Link's stays, unless it was the only one.
LEMMA FirstGone ==
  ASSUME ConnsOK, Waiting, LinkAlive, conns # <<>>, ~conns[1].open,
         conns' = Tail(conns), entries' = entries, link' = link
  PROVE  Waiting' /\ LinkAlive'
<1>1. /\ ConnsOK' /\ N' = N - 1 /\ N \in Nat /\ N >= 1
      /\ \A i \in 1..(N - 1) : conns'[i] = conns[i + 1]
  BY CloseFirst
<1>2. Waiting'
  <2> SUFFICES ASSUME NEW i \in 2..(N - 1) PROVE conns'[i].req = "none"
    BY <1>1 DEF Waiting
  <2>1. i \in 1..(N - 1) /\ i + 1 \in 2..N
    BY <1>1
  <2> QED  BY <1>1, <2>1 DEF Waiting
<1>3. CASE N = 1
  <2>1. ~Linked /\ link = "dial"
    BY <1>3 DEF LinkAlive, Linked
  <2> QED  BY <1>2, <2>1 DEF LinkAlive
<1>4. CASE N # 1
  <2>1. N' \in 1..(N - 1) /\ N' + 1 = N /\ N' >= 1
    <3>1. N' = N - 1 /\ N \in Nat /\ N >= 1
      BY <1>1
    <3> QED  BY <1>4, <3>1
  <2>2. conns' # <<>>
    <3>1. (ConnsOK => (conns # <<>> <=> N >= 1))'
      BY ConnsNonempty, PTL
    <3> QED  BY <1>1, <2>1, <3>1
  <2>3. conns'[N'] = conns[N]
    BY <1>1, <2>1
  <2>4. link # "dial" => conns[N].open
    BY DEF LinkAlive, Linked
  <2>5. link' # "dial" => conns' # <<>> /\ conns'[N'].open
    BY <2>2, <2>3, <2>4
  <2> QED  BY <1>2, <2>5 DEF LinkAlive, Linked
<1> QED  BY <1>2, <1>3, <1>4
LEMMA ProxyShape ==
  ASSUME Shape, ProxyStep \/ Crash \/ Restart
  PROVE  Shape'
<1>1. TypeOK'
  BY ProxyTyped DEF Shape
<1>2. ConnsOK
  BY TypeParts DEF Shape
<1>3. UNCHANGED <<store, clearing, link, todo>>
  BY DEF ProxyStep, Accept, AcceptFails, HandleIncoming, Disconnected, Crash, Restart, cacheVars, linkVars
<1>4. Emptied' /\ OneEach'
  BY <1>3 DEF Shape, Emptied, OneEach
<1>5. CASE Accept
  <2>1. 1 \in 1..N /\ conns' = [conns EXCEPT ![1].req = "sent"] /\ conns # <<>> /\ entries' = entries
    BY <1>2, <1>5, EndsOfConns DEF Accept, proxyVars
  <2>2. /\ N' = N /\ conns' # <<>>
        /\ \A j \in 1..N : conns'[j].open = conns[j].open
        /\ \A j \in 1..N : j # 1 => conns'[j] = conns[j]
    BY <1>2, <2>1, RequestConns
  <2>3. N \in 1..N /\ \A i \in 2..N : i \in 1..N /\ i # 1
    BY <1>2, <2>1, EndsOfConns
  <2>4. Waiting'
    BY <2>2, <2>3 DEF Shape, Waiting
  <2>5. LinkAlive'
    <3>1. link # "dial" => conns[N].open
      BY <2>1 DEF Shape, LinkAlive, Linked
    <3> QED  BY <1>3, <2>2, <2>3, <3>1 DEF LinkAlive, Linked
  <2> QED  BY <1>1, <1>4, <2>4, <2>5 DEF Shape
<1>6. CASE AcceptFails
  <2>1. Waiting' /\ LinkAlive'
    BY <1>2, <1>3, <1>6, FirstGone DEF Shape, AcceptFails, proxyVars
  <2> QED  BY <1>1, <1>4, <2>1 DEF Shape
<1>7. CASE HandleIncoming
  <2>1. conns' = [conns EXCEPT ![1].data = Tail(@)] /\ conns # <<>> /\ conns[1].data # <<>>
    BY <1>7 DEF HandleIncoming
  <2>2. /\ N' = N /\ conns' # <<>>
        /\ \A j \in 1..N : conns'[j].open = conns[j].open /\ conns'[j].req = conns[j].req
    BY <1>2, <2>1, ReadConns
  <2>3. N \in 1..N /\ \A i \in 2..N : i \in 1..N
    BY <1>2, <2>1, EndsOfConns
  <2>4. Waiting'
    BY <2>2, <2>3 DEF Shape, Waiting
  <2>5. LinkAlive'
    <3>1. link # "dial" => conns[N].open
      BY <2>1 DEF Shape, LinkAlive, Linked
    <3> QED  BY <1>3, <2>2, <2>3, <3>1 DEF LinkAlive, Linked
  <2> QED  BY <1>1, <1>4, <2>4, <2>5 DEF Shape
<1>8. CASE Disconnected
  <2>1. Waiting' /\ LinkAlive'
    BY <1>2, <1>3, <1>8, FirstGone DEF Shape, Disconnected, proxyVars
  <2> QED  BY <1>1, <1>4, <2>1 DEF Shape
<1>9. CASE Crash
  <2>1. conns' = <<>> /\ entries' = NoEntries /\ Len(<<>>) = 0
    BY <1>9 DEF Crash
  <2>2. N' = 0
    BY <2>1 DEF N
  <2>3. LinkAlive'
    BY <2>1 DEF LinkAlive, NoEntries
  <2>4. 2..0 = {}
    OBVIOUS
  <2>5. Waiting'
    BY <2>2, <2>4 DEF Waiting
  <2> QED  BY <1>1, <1>4, <2>3, <2>5 DEF Shape
<1>10. CASE Restart
  <2>1. Waiting' /\ LinkAlive'
    BY <1>10 DEF Shape, Waiting, LinkAlive, Linked, N, Restart, linkVars
  <2> QED  BY <1>1, <1>4, <2>1 DEF Shape
<1> QED  BY <1>5, <1>6, <1>7, <1>8, <1>9, <1>10 DEF ProxyStep

LEMMA InitShape == Init => Shape
<1> SUFFICES ASSUME Init PROVE Shape
  OBVIOUS
<1>1. TypeOK
  BY InitTyped
<1>2. N = 0
  <2>1. conns = <<>> /\ Len(<<>>) = 0
    BY DEF Init
  <2> QED  BY <2>1 DEF N
<1>3. 2..0 = {}
  OBVIOUS
<1>4. Waiting
  BY <1>2, <1>3 DEF Waiting
<1>5. Emptied /\ LinkAlive /\ OneEach
  BY DEF Init, Emptied, LinkAlive, OneEach
<1> QED  BY <1>1, <1>4, <1>5 DEF Shape

LEMMA StepShape == Shape /\ [Next]_vars => Shape'
<1> SUFFICES ASSUME Shape, [Next]_vars PROVE Shape'
  OBVIOUS
<1>1. CASE Next
  BY <1>1, CacheShape, LinkShape, TimeoutShape, ProxyShape DEF Next, LinkStep
<1>2. CASE UNCHANGED vars
  <2>1. TypeOK'
    BY StepTyped DEF Shape
  <2> QED  BY <1>2, <2>1 DEF Shape, Emptied, Waiting, LinkAlive, OneEach, Linked, N,
                             vars, cacheVars, linkVars, proxyVars
<1> QED  BY <1>1, <1>2
-----------------------------------------------------------------------------
(* What the messages under way say of a key.                               *)

LEMMA InSeqAppend ==
  ASSUME NEW S, NEW s \in Seq(S), NEW m \in S, NEW x
  PROVE  InSeq(x, Append(s, m)) <=> InSeq(x, s) \/ x = m
<1> DEFINE t == Append(s, m)  n == Len(s)
<1>1. Len(t) = n + 1 /\ n \in Nat /\ t[n + 1] = m /\ \A i \in 1..n : t[i] = s[i]
  BY LenProperties, AppendProperties
<1> HIDE DEF t
<1>2. ASSUME NEW i \in 1..(n + 1), t[i] = x PROVE InSeq(x, s) \/ x = m
  <2>1. CASE i = n + 1
    BY <1>1, <1>2, <2>1
  <2>2. CASE i # n + 1
    <3>1. i \in 1..n
      BY <1>1, <2>2
    <3> QED  BY <1>1, <1>2, <3>1 DEF InSeq
  <2> QED  BY <2>1, <2>2
<1>3. ASSUME InSeq(x, s) \/ x = m PROVE InSeq(x, t)
  <2>1. CASE x = m
    <3>1. n + 1 \in 1..(n + 1)
      BY <1>1
    <3> QED  BY <1>1, <2>1, <3>1 DEF InSeq
  <2>2. CASE InSeq(x, s)
    <3>1. PICK i \in 1..n : s[i] = x
      BY <2>2 DEF InSeq
    <3>2. i \in 1..(n + 1)
      BY <1>1
    <3> QED  BY <1>1, <3>1, <3>2 DEF InSeq
  <2> QED  BY <1>3, <2>1, <2>2
<1>4. InSeq(x, t) => InSeq(x, s) \/ x = m
  BY <1>1, <1>2 DEF InSeq
<1> QED  BY <1>3, <1>4 DEF t

LEMMA InSeqTail ==
  ASSUME NEW S, NEW s \in Seq(S), s # <<>>, NEW x
  PROVE  InSeq(x, s) <=> x = Head(s) \/ InSeq(x, Tail(s))
<1> DEFINE t == Tail(s)  n == Len(s)
<1>1. /\ Len(t) = n - 1 /\ n \in Nat /\ n >= 1 /\ Head(s) = s[1]
      /\ \A i \in 1..(n - 1) : t[i] = s[i + 1]
  BY HeadTail
<1> HIDE DEF t
<1>2. ASSUME InSeq(x, s), x # Head(s) PROVE InSeq(x, t)
  <2>1. PICK i \in 1..n : s[i] = x
    BY <1>2 DEF InSeq
  <2>2. i # 1
    BY <1>1, <1>2, <2>1
  <2>3. i - 1 \in 1..(n - 1) /\ (i - 1) + 1 = i
    BY <1>1, <2>2
  <2> QED  BY <1>1, <2>1, <2>3 DEF InSeq
<1>3. ASSUME InSeq(x, t) PROVE InSeq(x, s)
  <2>1. PICK i \in 1..(n - 1) : t[i] = x
    BY <1>1, <1>3 DEF InSeq
  <2>2. i + 1 \in 1..n
    BY <1>1
  <2> QED  BY <1>1, <2>1, <2>2 DEF InSeq
<1>4. x = Head(s) => InSeq(x, s)
  <2>1. 1 \in 1..n
    BY <1>1
  <2> QED  BY <1>1, <2>1 DEF InSeq
<1> QED  BY <1>2, <1>3, <1>4 DEF t

LEMMA ClearIsAbout == \A k : About(ClearMsg, k) /\ Says(ClearMsg, k) = NoEntry
BY DEF About, Says

LEMMA SetIsAbout ==
  \A j \in Keys, v \in Values : \A k :
    /\ About(SetMsg(j, v), k) <=> j = k
    /\ Says(SetMsg(j, v), k) = v
BY MessageFacts DEF About, Says

LEMMA ClearSomeAbout ==
  ASSUME NEW s, NEW k, InSeq(ClearMsg, s)
  PROVE  SomeAbout(s, k)
BY ClearIsAbout DEF InSeq, SomeAbout

\* A queue that takes the state of k away holds a cache_clear behind any state of k.
LEMMA LastClears ==
  ASSUME NEW s \in Seq(Messages), NEW k, s # <<>>, After(NoEntry, s, k) = NoEntry,
         Head(s) # ClearMsg, Head(s).key = k
  PROVE  InSeq(ClearMsg, Tail(s))
<1>1. Head(s) = s[1] /\ 1 \in 1..Len(s)
  <2>1. Head(s) = s[1] /\ Len(s) \in Nat /\ Len(s) >= 1
    BY HeadTail
  <2> QED  BY <2>1
<1>2. SomeAbout(s, k)
  BY <1>1 DEF SomeAbout, About
<1>3. PICK i \in 1..Len(s) : About(s[i], k) /\ \A j \in 1..Len(s) : About(s[j], k) => j <= i
  BY <1>2, LastAbout
<1>4. Says(s[i], k) = NoEntry
  BY <1>3, AfterLast
<1>5. s[i] = ClearMsg
  <2>1. s[i] \in Messages
    BY <1>3, ElementOfSeq
  <2> QED  BY <1>4, <2>1, ValueIsEntry DEF Says
<1>6. InSeq(ClearMsg, s)
  BY <1>5 DEF InSeq
<1> QED  BY <1>6, InSeqTail

\* Every state of k in s is followed by a cache_clear.
Ends(s, k) ==
  \A p \in 1..Len(s) : s[p] # ClearMsg /\ s[p].key = k => \E q \in 1..Len(s) : q > p /\ s[q] = ClearMsg

LEMMA EndsEmpty == \A k : Ends(<<>>, k)
<1>1. Len(<<>>) = 0 /\ 1..0 = {}
  OBVIOUS
<1> QED  BY <1>1 DEF Ends

LEMMA EndsAppend ==
  ASSUME NEW s \in Seq(Messages), NEW m \in Messages, NEW k,
         m = ClearMsg \/ (m.key # k /\ Ends(s, k))
  PROVE  Ends(Append(s, m), k)
<1> DEFINE t == Append(s, m)  n == Len(s)
<1>1. Len(t) = n + 1 /\ n \in Nat /\ t[n + 1] = m /\ \A i \in 1..n : t[i] = s[i]
  BY LenProperties, AppendProperties
<1>n. n + 1 \in 1..(n + 1) /\ 1..n \subseteq 1..(n + 1)
  BY <1>1
<1> HIDE DEF t
<1>2. SUFFICES ASSUME NEW p \in 1..(n + 1), t[p] # ClearMsg, t[p].key = k
               PROVE  \E q \in 1..(n + 1) : q > p /\ t[q] = ClearMsg
  BY <1>1 DEF Ends, t
<1>3. p # n + 1
  BY <1>1, <1>2
<1>4. p \in 1..n /\ n + 1 > p
  BY <1>1, <1>3
<1>5. CASE m = ClearMsg
  BY <1>1, <1>n, <1>4, <1>5
<1>6. CASE m # ClearMsg
  <2>1. PICK q \in 1..n : q > p /\ s[q] = ClearMsg
    BY <1>1, <1>2, <1>4, <1>6 DEF Ends
  <2> QED  BY <1>1, <1>n, <2>1
<1> QED  BY <1>5, <1>6

LEMMA EndsTail ==
  ASSUME NEW s \in Seq(Messages), s # <<>>, NEW k, Ends(s, k)
  PROVE  /\ Ends(Tail(s), k)
         /\ Head(s) # ClearMsg /\ Head(s).key = k => InSeq(ClearMsg, Tail(s))
<1> DEFINE t == Tail(s)  n == Len(s)
<1>1. /\ Len(t) = n - 1 /\ n \in Nat /\ n >= 1 /\ Head(s) = s[1]
      /\ \A i \in 1..(n - 1) : t[i] = s[i + 1]
  BY HeadTail
<1> HIDE DEF t
<1>2. Ends(t, k)
  <2> SUFFICES ASSUME NEW p \in 1..(n - 1), t[p] # ClearMsg, t[p].key = k
               PROVE  \E q \in 1..(n - 1) : q > p /\ t[q] = ClearMsg
    BY <1>1 DEF Ends
  <2>1. p + 1 \in 1..n /\ s[p + 1] # ClearMsg /\ s[p + 1].key = k
    BY <1>1
  <2>2. PICK q \in 1..n : q > p + 1 /\ s[q] = ClearMsg
    BY <2>1 DEF Ends
  <2>3. q - 1 \in 1..(n - 1) /\ (q - 1) + 1 = q /\ q - 1 > p
    BY <1>1, <2>2
  <2>4. t[q - 1] = ClearMsg
    BY <1>1, <2>2, <2>3
  <2> QED  BY <2>3, <2>4
<1>3. ASSUME Head(s) # ClearMsg, Head(s).key = k PROVE InSeq(ClearMsg, t)
  <2>1. 1 \in 1..n /\ s[1] # ClearMsg /\ s[1].key = k
    BY <1>1, <1>3
  <2>2. PICK q \in 1..n : q > 1 /\ s[q] = ClearMsg
    BY <2>1 DEF Ends
  <2>3. InSeq(ClearMsg, s)
    BY <2>2 DEF InSeq
  <2> QED  BY <1>3, <2>3, InSeqTail DEF t
<1> QED  BY <1>2, <1>3 DEF t

\* With every state of k followed by a cache_clear, nothing remains of k.
LEMMA EndsAfter ==
  ASSUME NEW s \in Seq(Messages), NEW k, Ends(s, k), SomeAbout(s, k), NEW v
  PROVE  After(v, s, k) = NoEntry
<1>1. PICK i \in 1..Len(s) : About(s[i], k) /\ \A j \in 1..Len(s) : About(s[j], k) => j <= i
  BY LastAbout
<1>2. s[i] = ClearMsg
  <2> SUFFICES ASSUME s[i] # ClearMsg PROVE FALSE
    OBVIOUS
  <2>1. s[i].key = k
    BY <1>1 DEF About
  <2>2. PICK q \in 1..Len(s) : q > i /\ s[q] = ClearMsg
    BY <1>1, <2>1 DEF Ends
  <2>3. q <= i
    BY <1>1, <2>2, ClearIsAbout
  <2>4. Len(s) \in Nat
    BY LenProperties
  <2> QED  BY <2>2, <2>3, <2>4
<1> QED  BY <1>1, <1>2, AfterLast, ClearIsAbout

LEMMA AfterSetOne ==
  ASSUME NEW T, NEW m \in T, NEW k, NEW v, About(m, k),
         \A m1 \in T, m2 \in T : About(m1, k) /\ About(m2, k) => m1 = m2
  PROVE  AfterSet(v, T, k) = Says(m, k)
<1> DEFINE on == {x \in T : About(x, k)}
<1>1. on = {m}
  OBVIOUS
<1>2. (CHOOSE x \in on : TRUE) = m
  BY <1>1
<1> QED  BY <1>1, <1>2 DEF AfterSet

LEMMA AfterSetNone ==
  ASSUME NEW T, NEW k, NEW v, \A m \in T : ~About(m, k)
  PROVE  AfterSet(v, T, k) = v
BY DEF AfterSet
LEMMA AfterSetDrop ==
  ASSUME NEW T, NEW m, NEW k, NEW v, ~About(m, k)
  PROVE  AfterSet(v, T \ {m}, k) = AfterSet(v, T, k)
<1> DEFINE before == {x \in T : About(x, k)}  now == {x \in T \ {m} : About(x, k)}
           said(on) == IF on = {} THEN v ELSE Says(CHOOSE x \in on : TRUE, k)
<1>1. now = before
  OBVIOUS
<1>2. AfterSet(v, T, k) = said(before) /\ AfterSet(v, T \ {m}, k) = said(now)
  BY DEF AfterSet
<1> HIDE DEF before, now
<1> QED  BY <1>1, <1>2

-----------------------------------------------------------------------------
(* The inductive invariant.                                                *)

\* A cache_clear is under way that the proxy applies after connection i.
ClearBeyond(i) ==
  \/ \E j \in 1..N : j > i /\ InSeq(ClearMsg, conns[j].data)
  \/ ClearMsg \in todo
  \/ InSeq(ClearMsg, outCh)

\* The queue of the cache ends in the state the cache holds.
QueueSays(k) == SomeAbout(outCh, k) => After(NoEntry, outCh, k) = store[k]

\* Of a key without a state, nothing is left that no cache_clear follows: in
\* the event cache, in any connection, or in the hands of serve.
NoneLeft(k) ==
  /\ entries[ResourceOf(k)] # NoEntry => ClearBeyond(0)
  /\ \A i \in 1..N : Ends(conns[i].data, k) \/ ClearBeyond(i)
  /\ conns # <<>> => \A m \in todo : m # ClearMsg /\ m.key = k => InSeq(ClearMsg, outCh)

\* What an answered connection leads to.
Chain(k) == After(AfterSet(After(entries[ResourceOf(k)], conns[1].data, k), todo, k), outCh, k)

\* A key without a state must be safe on every connection, answered or not:
\* no snapshot will mention it.  A key with a state is right from the answer on.
KeyOK(k) ==
  /\ QueueSays(k)
  /\ store[k] = NoEntry => NoneLeft(k)
  /\ store[k] # NoEntry /\ Answered => Chain(k) = store[k]

Leads == ~clearing => \A k \in Keys \ lost : Sole(k) => KeyOK(k)

\* The invariant is strong enough.
LEMMA Follows ==
  ASSUME Shape, Leads
  PROVE  PeerFollows
<1> SUFFICES ASSUME Answered, NEW k \in Keys \ lost, Sole(k)
             PROVE  Arriving(k) = store[k]
  BY DEF PeerFollows
<1> DEFINE a == After(entries[ResourceOf(k)], conns[1].data, k)
           b == AfterSet(a, todo, k)
<1>1. CASE clearing
  BY <1>1 DEF Shape, Emptied, EmptyCache, Arriving
<1>2. CASE ~clearing /\ store[k] # NoEntry
  BY <1>2 DEF Leads, KeyOK, Arriving, Chain
<1>3. CASE ~clearing /\ store[k] = NoEntry
  <2>1. QueueSays(k) /\ NoneLeft(k)
    BY <1>3 DEF Leads, KeyOK
  <2>2. /\ ConnsOK /\ outCh \in Seq(Messages) /\ N = 1 /\ conns # <<>> /\ 1 \in 1..N
    BY TypeParts DEF Shape, TypeOK, Answered, Linked
  <2>3. conns[1].data \in Seq(Messages)
    BY <2>2, EndsOfConns
  <2>4. CASE SomeAbout(outCh, k)
    <3>1. After(b, outCh, k) = After(NoEntry, outCh, k)
      BY <2>2, <2>4, AfterAny
    <3> QED  BY <1>3, <2>1, <2>4, <3>1 DEF QueueSays, Arriving
  <2>5. CASE ~SomeAbout(outCh, k)
    <3>1. ~InSeq(ClearMsg, outCh)
      BY <2>5, ClearSomeAbout
    <3>2. After(b, outCh, k) = b
      BY <2>5, AfterNone
    <3>3. CASE ClearMsg \in todo
      <4>1. b = Says(ClearMsg, k)
        BY <3>3, ClearIsAbout, AfterSetOne DEF Shape, OneEach
      <4> QED  BY <1>3, <3>2, <4>1, ClearIsAbout DEF Arriving
    <3>4. CASE ClearMsg \notin todo
      <4>1. \A m \in todo : ~About(m, k)
        BY <2>1, <2>2, <3>1, <3>4 DEF NoneLeft, About
      <4>2. b = a
        <5> HIDE DEF a
        <5> QED  BY <4>1, AfterSetNone
      <4>3. ~ClearBeyond(1)
        BY <2>2, <3>1, <3>4 DEF ClearBeyond
      <4>4. Ends(conns[1].data, k)
        BY <2>1, <2>2, <4>3 DEF NoneLeft
      <4>5. a = NoEntry
        <5>1. CASE SomeAbout(conns[1].data, k)
          BY <2>3, <4>4, <5>1, EndsAfter
        <5>2. CASE ~SomeAbout(conns[1].data, k)
          <6>1. a = entries[ResourceOf(k)]
            BY <5>2, AfterNone
          <6>2. ~InSeq(ClearMsg, conns[1].data)
            BY <5>2, ClearSomeAbout
          <6>3. ~ClearBeyond(0)
            BY <2>2, <3>1, <3>4, <6>2 DEF ClearBeyond
          <6> QED  BY <2>1, <6>1, <6>3 DEF NoneLeft
        <5> QED  BY <5>1, <5>2
      <4> QED  BY <1>3, <3>2, <4>2, <4>5 DEF Arriving
    <3> QED  BY <3>3, <3>4
  <2> QED  BY <2>4, <2>5
<1> QED  BY <1>1, <1>2, <1>3

-----------------------------------------------------------------------------
(* Steps of the cache.                                                     *)

LEMMA EnqueuedUnlessDropped ==
  ASSUME CacheOK, NEW m, Enqueue(m), ~Dropped
  PROVE  outCh' = Append(outCh, m)
<1>1. Len(outCh) \in Nat /\ OutCap \in Nat
  BY LenProperties, LinkAssumption DEF CacheOK, LinkAssumption
<1>2. Len(outCh) < OutCap
  BY <1>1 DEF Dropped
<1> QED  BY <1>2 DEF Enqueue

\* A state of another key in the queue says nothing of k.
LEMMA OtherQueued ==
  ASSUME NEW s \in Seq(Messages), NEW m \in Messages, NEW k, ~About(m, k)
  PROVE  LET t == Append(s, m) IN
         /\ SomeAbout(t, k) <=> SomeAbout(s, k)
         /\ \A v : After(v, t, k) = After(v, s, k)
         /\ InSeq(ClearMsg, t) <=> InSeq(ClearMsg, s)
<1> DEFINE t == Append(s, m)  n == Len(s)
<1>1. Len(t) = n + 1 /\ n \in Nat /\ t[n + 1] = m /\ \A i \in 1..n : t[i] = s[i]
  BY LenProperties, AppendProperties
<1>2. \A v : After(v, t, k) = After(v, s, k)
  BY AfterAppend
<1>3. InSeq(ClearMsg, t) <=> InSeq(ClearMsg, s)
  BY InSeqAppend, ClearIsAbout
<1> HIDE DEF t
<1>4. SomeAbout(t, k) => SomeAbout(s, k)
  <2> SUFFICES ASSUME NEW i \in 1..(n + 1), About(t[i], k) PROVE SomeAbout(s, k)
    BY <1>1 DEF SomeAbout
  <2>1. i # n + 1
    BY <1>1
  <2>2. i \in 1..n
    BY <1>1, <2>1
  <2> QED  BY <1>1, <2>2 DEF SomeAbout
<1>5. SomeAbout(s, k) => SomeAbout(t, k)
  <2> SUFFICES ASSUME NEW i \in 1..n, About(s[i], k) PROVE SomeAbout(t, k)
    BY DEF SomeAbout
  <2>1. i \in 1..(n + 1)
    BY <1>1
  <2> QED  BY <1>1, <2>1 DEF SomeAbout
<1> QED  BY <1>2, <1>3, <1>4, <1>5 DEF t

LEMMA SendLeads ==
  ASSUME Shape, Leads, NEW j \in Keys, NEW v \in Values, Send(j, v),
         NEW k \in Keys, Sole(k), k \notin lost'
  PROVE  KeyOK(k)'
<1> DEFINE m == SetMsg(j, v)
<1>1. /\ CacheOK /\ m \in Messages /\ v # NoEntry
      /\ UNCHANGED <<link, todo, conns, entries>> /\ ~clearing
      /\ store' = [store EXCEPT ![j] = v] /\ Enqueue(m)
  BY TypeParts, MessageFacts, LinkAssumption DEF Shape, Send, linkVars, proxyVars, LinkAssumption
<1>2. outCh \in Seq(Messages) /\ store \in [Keys -> Values \cup {NoEntry}]
  BY <1>1 DEF CacheOK
<1>3. CASE k = j
  <2>1. ~Dropped
    BY <1>3 DEF Send
  <2>2. outCh' = Append(outCh, m)
    BY <1>1, <2>1, EnqueuedUnlessDropped
  <2>3. store'[k] = v /\ About(m, k) /\ Says(m, k) = v
    BY <1>1, <1>2, <1>3, SetIsAbout
  <2>4. \A w : After(w, outCh', k) = v
    BY <1>1, <1>2, <2>2, <2>3, AfterAppend
  <2> QED  BY <1>1, <2>3, <2>4 DEF KeyOK, QueueSays, Chain
<1>4. CASE k # j
  <2>1. k \notin lost /\ store'[k] = store[k] /\ ~About(m, k)
    BY <1>1, <1>2, <1>4, SetIsAbout DEF Send
  <2>2. KeyOK(k)
    BY <1>1, <2>1 DEF Leads
  <2>3. outCh' = outCh \/ outCh' = Append(outCh, m)
    BY <1>1 DEF Enqueue
  <2>4. /\ SomeAbout(outCh', k) <=> SomeAbout(outCh, k)
        /\ \A w : After(w, outCh', k) = After(w, outCh, k)
        /\ InSeq(ClearMsg, outCh') <=> InSeq(ClearMsg, outCh)
    <3>1. CASE outCh' = outCh
      BY <3>1
    <3>2. CASE outCh' = Append(outCh, m)
      <4> HIDE DEF m
      <4> QED  BY <1>1, <1>2, <2>1, <3>2, OtherQueued
    <3> QED  BY <2>3, <3>1, <3>2
  <2>5. QueueSays(k)'
    BY <2>1, <2>2, <2>4 DEF KeyOK, QueueSays
  <2>6. store'[k] = NoEntry => NoneLeft(k)'
    <3>1. N' = N
      BY <1>1 DEF N
    <3>2. \A i : ClearBeyond(i) => ClearBeyond(i)'
      BY <1>1, <2>4, <3>1 DEF ClearBeyond
    <3> QED  BY <1>1, <2>1, <2>2, <2>4, <3>1, <3>2 DEF KeyOK, NoneLeft
  <2>7. store'[k] # NoEntry /\ Answered' => Chain(k)' = store'[k]
    <3>1. Answered' => Answered
      BY <1>1 DEF Answered, Linked, N
    <3>2. Chain(k)' = Chain(k)
      BY <1>1, <2>4 DEF Chain
    <3> QED  BY <2>1, <2>2, <3>1, <3>2 DEF KeyOK
  <2> QED  BY <2>5, <2>6, <2>7 DEF KeyOK
<1> QED  BY <1>3, <1>4

\* The cache_clear at the end of the queue covers whatever came before.
LEMMA ClearLeads ==
  ASSUME Shape, Leads, Clear, ~clearing', NEW k \in Keys, Sole(k), k \notin lost'
  PROVE  KeyOK(k)'
<1>1. clearing /\ SendClear /\ UNCHANGED <<store, link, todo, conns, entries>>
  BY DEF Clear, linkVars, proxyVars
<1>2. CacheOK /\ store'[k] = NoEntry /\ outCh \in Seq(Messages)
  BY <1>1, TypeParts DEF Shape, CacheOK, Emptied, EmptyCache
<1>3. outCh' = Append(outCh, ClearMsg)
  <2>1. ~Dropped
    BY <1>1 DEF SendClear
  <2> QED  BY <1>1, <1>2, <2>1, EnqueuedUnlessDropped DEF SendClear
<1>4. InSeq(ClearMsg, outCh') /\ \A w : After(w, outCh', k) = NoEntry
  BY <1>2, <1>3, InSeqAppend, AfterAppend, MessageFacts, ClearIsAbout
<1>5. QueueSays(k)'
  BY <1>2, <1>4 DEF QueueSays
<1>6. NoneLeft(k)'
  BY <1>4 DEF NoneLeft, ClearBeyond
<1> QED  BY <1>2, <1>5, <1>6 DEF KeyOK
-----------------------------------------------------------------------------
(* Steps of the Link.                                                      *)

\* When neither the queue nor the store changes, nor do the proxy's keys.
LEMMA QueueKept ==
  ASSUME NEW k, QueueSays(k), outCh' = outCh, store' = store
  PROVE  QueueSays(k)'
BY DEF QueueSays

LEMMA DialLeads ==
  ASSUME Shape, Leads, Dial, ~clearing, NEW k \in Keys, Sole(k), k \notin lost'
  PROVE  KeyOK(k)'
<1>1. /\ UNCHANGED <<store, outCh, todo, entries, lost>> /\ link = "dial" /\ N < MaxConns
      /\ conns' = Append(conns, NewConn)
  BY DEF Dial, cacheVars, proxyVars
<1>2. KeyOK(k) /\ ConnsOK /\ todo = {}
  BY <1>1, TypeParts DEF Leads, Shape, LinkOK
<1>3. /\ N' = N + 1 /\ N \in Nat /\ conns'[N + 1] = NewConn
      /\ \A i \in 1..N : conns'[i] = conns[i]
  BY <1>1, <1>2, DialConns
<1>4. 1..(N + 1) = 1..N \cup {N + 1}
  <2>1. N \in Nat
    BY <1>3
  <2> QED  BY <2>1
<1>5. \A i : ClearBeyond(i) => ClearBeyond(i)'
  BY <1>1, <1>3, <1>4 DEF ClearBeyond
<1>6. Ends(conns'[N + 1].data, k)
  BY <1>3, EndsEmpty DEF NewConn
<1>7. store[k] = NoEntry => NoneLeft(k)'
  BY <1>1, <1>2, <1>3, <1>4, <1>5, <1>6 DEF KeyOK, NoneLeft
<1>8. ~Answered'
  <2> SUFFICES ASSUME N' = 1 PROVE conns'[1].req # "taken"
    BY DEF Answered
  <2>1. N + 1 = 1
    BY <1>3
  <2> QED  BY <1>3, <2>1 DEF NewConn
<1> QED  BY <1>1, <1>2, <1>7, <1>8, QueueKept DEF KeyOK

LEMMA TakeOutLeads ==
  ASSUME Shape, Leads, TakeOut, ~clearing, NEW k \in Keys, Sole(k), k \notin lost'
  PROVE  KeyOK(k)'
<1> DEFINE h == Head(outCh)  t == Tail(outCh)
<1>1. /\ UNCHANGED <<store, conns, entries, lost>> /\ link = "serve" /\ outCh # <<>>
      /\ outCh' = t /\ todo' = {h}
  BY DEF TakeOut, proxyVars
<1>2. KeyOK(k) /\ outCh \in Seq(Messages) /\ todo = {} /\ N' = N
  BY <1>1, TypeParts DEF Leads, Shape, LinkOK, CacheOK, N
<1>3. t \in Seq(Messages) /\ h \in Messages
  BY <1>1, <1>2, HeadTail
<1>4. \A v : After(v, outCh, k) = After(IF About(h, k) THEN Says(h, k) ELSE v, t, k)
  BY <1>1, <1>2, AfterTail
<1>5. SomeAbout(t, k) => SomeAbout(outCh, k)
  BY <1>1, <1>2, AboutTail
<1>6. InSeq(ClearMsg, outCh) => h = ClearMsg \/ InSeq(ClearMsg, t)
  BY <1>1, <1>2, InSeqTail
<1>l. QueueSays(k) /\ store[k] = NoEntry /\ h # ClearMsg /\ h.key = k => InSeq(ClearMsg, t)
  <2> SUFFICES ASSUME QueueSays(k), store[k] = NoEntry, h # ClearMsg, h.key = k
               PROVE  InSeq(ClearMsg, t)
    OBVIOUS
  <2>1. SomeAbout(outCh, k)
    <3>1. InSeq(h, outCh)
      BY <1>1, <1>2, InSeqTail
    <3> QED  BY <3>1 DEF InSeq, SomeAbout, About
  <2> QED  BY <1>1, <1>2, <2>1, LastClears DEF QueueSays
<1> HIDE DEF h, t
<1>7. QueueSays(k)'
  <2> SUFFICES ASSUME SomeAbout(t, k) PROVE After(NoEntry, t, k) = store[k]
    BY <1>1 DEF QueueSays
  <2>1. After(NoEntry, outCh, k) = store[k]
    BY <1>2, <1>5 DEF KeyOK, QueueSays
  <2> QED  BY <1>3, <1>4, <2>1, AfterAny
<1>8. store[k] = NoEntry => NoneLeft(k)'
  <2> SUFFICES ASSUME store[k] = NoEntry PROVE NoneLeft(k)'
    OBVIOUS
  <2>1. \A i : ClearBeyond(i) => ClearBeyond(i)'
    BY <1>1, <1>2, <1>6 DEF ClearBeyond
  <2>2. \A m \in todo' : m # ClearMsg /\ m.key = k => InSeq(ClearMsg, outCh')
    BY <1>1, <1>2, <1>l, <2>1 DEF KeyOK
  <2>3. NoneLeft(k)
    BY <1>2, <2>1 DEF KeyOK
  <2> QED  BY <1>1, <1>2, <2>1, <2>2, <2>3 DEF NoneLeft
<1>9. ASSUME store[k] # NoEntry, Answered' PROVE Chain(k)' = store[k]
  <2> DEFINE a == After(entries[ResourceOf(k)], conns[1].data, k)
  <2>1. Answered
    BY <1>1, <1>2, <1>9 DEF Answered, Linked
  <2>2. Chain(k) = store[k]
    BY <1>2, <1>9, <2>1 DEF KeyOK
  <2>3. Chain(k) = After(a, outCh, k)
    <3>1. AfterSet(a, todo, k) = a
      <4> HIDE DEF a
      <4> QED  BY <1>2, AfterSetNone
    <3> QED  BY <3>1 DEF Chain
  <2>4. AfterSet(a, {h}, k) = IF About(h, k) THEN Says(h, k) ELSE a
    <3> HIDE DEF a
    <3>1. CASE About(h, k)
      BY <3>1, AfterSetOne
    <3>2. CASE ~About(h, k)
      BY <3>2, AfterSetNone
    <3> QED  BY <3>1, <3>2
  <2>5. Chain(k)' = After(AfterSet(a, {h}, k), t, k)
    BY <1>1 DEF Chain
  <2> HIDE DEF a
  <2> QED  BY <1>4, <2>2, <2>3, <2>4, <2>5
<1> QED  BY <1>1, <1>7, <1>8, <1>9 DEF KeyOK

LEMMA SnapshotSays ==
  ASSUME NEW k \in Keys, NEW v
  PROVE  AfterSet(v, Snapshot, k) = IF store[k] = NoEntry THEN v ELSE store[k]
<1>1. CASE store[k] = NoEntry
  <2>1. \A m \in Snapshot : ~About(m, k)
    BY <1>1 DEF Snapshot, About, SetMsg, ClearMsg
  <2> QED  BY <1>1, <2>1, AfterSetNone
<1>2. CASE store[k] # NoEntry
  <2> DEFINE m == SetMsg(k, store[k])
  <2>1. m \in Snapshot
    BY <1>2 DEF Snapshot
  <2>2. About(m, k) /\ Says(m, k) = store[k]
    BY DEF About, Says, SetMsg, ClearMsg
  <2> HIDE DEF m
  <2>3. AfterSet(v, Snapshot, k) = Says(m, k)
    BY <2>1, <2>2, SnapshotOneEach, AfterSetOne
  <2> QED  BY <1>2, <2>2, <2>3
<1> QED  BY <1>1, <1>2

LEMMA TakeStatusLeads ==
  ASSUME Shape, Leads, TakeStatus, ~clearing, NEW k \in Keys, Sole(k), k \notin lost'
  PROVE  KeyOK(k)'
<1>1. /\ UNCHANGED <<store, outCh, entries>> /\ link = "serve"
      /\ conns # <<>> /\ conns' = [conns EXCEPT ![N].req = "taken"]
      /\ todo' = Snapshot /\ lost' = lost \ AnsweredBySnapshot
  BY DEF TakeStatus, Linked, cacheVars, proxyVars
<1>2. ConnsOK /\ outCh \in Seq(Messages) /\ todo = {} /\ N \in 1..N
  BY <1>1, TypeParts, EndsOfConns DEF Shape, LinkOK, CacheOK
<1>3. N' = N /\ conns' # <<>> /\ \A j \in 1..N : conns'[j].data = conns[j].data
  BY <1>1, <1>2, RequestConns
<1>4. QueueSays(k)
  <2>1. CASE k \in lost
    BY <1>1, <2>1 DEF AnsweredBySnapshot, QueueSays
  <2>2. CASE k \notin lost
    BY <2>2 DEF Leads, KeyOK
  <2> QED  BY <2>1, <2>2
<1>5. store[k] = NoEntry => NoneLeft(k)'
  <2> SUFFICES ASSUME store[k] = NoEntry PROVE NoneLeft(k)'
    OBVIOUS
  <2>1. k \notin lost
    BY <1>1 DEF AnsweredBySnapshot
  <2>2. NoneLeft(k)
    BY <2>1 DEF Leads, KeyOK
  <2>3. \A i : ClearBeyond(i) => ClearBeyond(i)'
    BY <1>1, <1>2, <1>3 DEF ClearBeyond
  <2>4. \A m \in todo' : ~(m.key = k)
    BY <1>1 DEF Snapshot, SetMsg
  <2> QED  BY <1>1, <1>2, <1>3, <2>2, <2>3, <2>4 DEF NoneLeft
<1>6. ASSUME store[k] # NoEntry PROVE Chain(k)' = store[k]
  <2> DEFINE a == After(entries[ResourceOf(k)], conns'[1].data, k)
  <2>1. AfterSet(a, Snapshot, k) = store[k]
    <3> HIDE DEF a
    <3> QED  BY <1>6, SnapshotSays
  <2>2. Chain(k)' = After(store[k], outCh, k)
    BY <1>1, <2>1 DEF Chain
  <2>3. CASE SomeAbout(outCh, k)
    BY <1>2, <1>4, <2>2, <2>3, AfterAny DEF QueueSays
  <2>4. CASE ~SomeAbout(outCh, k)
    BY <2>2, <2>4, AfterNone
  <2> QED  BY <2>3, <2>4
<1> QED  BY <1>1, <1>4, <1>5, <1>6, QueueKept DEF KeyOK

\* Writing a message moves it from the hands of serve to the connection.
LEMMA TransmitLeads ==
  ASSUME Shape, Leads, NEW m \in todo, Transmit(m), ~clearing,
         NEW k \in Keys, Sole(k), k \notin lost'
  PROVE  KeyOK(k)'
<1>1. /\ UNCHANGED <<store, outCh, entries, lost>>
      /\ conns # <<>> /\ Len(conns[N].data) < WireCap /\ todo' = todo \ {m}
      /\ conns' = [conns EXCEPT ![N].data = Append(@, m)]
  BY DEF Transmit, Linked, cacheVars, proxyVars
<1>2. KeyOK(k) /\ ConnsOK /\ m \in Messages
  BY <1>1, TypeParts DEF Leads, Shape, LinkOK
<1> DEFINE d == conns[N].data
<1>3. /\ N' = N /\ N \in 1..N
      /\ conns'[N].data = Append(d, m)
      /\ conns'[N].open = conns[N].open /\ conns'[N].req = conns[N].req
      /\ \A j \in 1..N : j # N => conns'[j] = conns[j]
  BY <1>1, <1>2, TransmitConns
<1>4. d \in Seq(Messages)
  BY <1>2, <1>3, EndsOfConns
<1> HIDE DEF d
<1>5. store[k] = NoEntry => NoneLeft(k)'
  <2> SUFFICES ASSUME store[k] = NoEntry PROVE NoneLeft(k)'
    OBVIOUS
  <2>1. NoneLeft(k)
    BY <1>2 DEF KeyOK
  <2>2. \A j \in 1..N : InSeq(ClearMsg, conns[j].data) => InSeq(ClearMsg, conns'[j].data)
    <3> SUFFICES ASSUME NEW j \in 1..N, InSeq(ClearMsg, conns[j].data)
                 PROVE  InSeq(ClearMsg, conns'[j].data)
      OBVIOUS
    <3>1. CASE j = N
      <4>1. InSeq(ClearMsg, d) /\ conns'[j].data = Append(d, m)
        BY <1>3, <3>1 DEF d
      <4>2. InSeq(ClearMsg, Append(d, m))
        BY <1>2, <1>4, <4>1, InSeqAppend
      <4> QED  BY <4>1, <4>2
    <3>2. CASE j # N
      BY <1>3, <3>2
    <3> QED  BY <3>1, <3>2
  <2>3. m = ClearMsg => InSeq(ClearMsg, conns'[N].data)
    BY <1>2, <1>3, <1>4, InSeqAppend
  <2>4. \A i \in 0..(N - 1) : ClearBeyond(i) => ClearBeyond(i)'
    <3> SUFFICES ASSUME NEW i \in 0..(N - 1), ClearBeyond(i) PROVE ClearBeyond(i)'
      OBVIOUS
    <3>1. N > i
      BY <1>3
    <3>2. CASE m = ClearMsg
      BY <1>3, <2>3, <3>1, <3>2 DEF ClearBeyond
    <3>3. CASE m # ClearMsg
      BY <1>1, <1>3, <2>2, <3>3 DEF ClearBeyond
    <3> QED  BY <3>2, <3>3
  <2>5. Ends(conns'[N].data, k) \/ ClearBeyond(N)'
    <3>1. CASE m = ClearMsg \/ (m.key # k /\ Ends(d, k))
      BY <1>2, <1>3, <1>4, <3>1, EndsAppend
    <3>2. CASE m # ClearMsg /\ ClearBeyond(N)
      <4>1. ~\E j \in 1..N : j > N /\ InSeq(ClearMsg, conns[j].data)
        BY <1>3
      <4> QED  BY <1>1, <3>2, <4>1 DEF ClearBeyond
    <3>3. CASE m # ClearMsg /\ m.key = k
      <4>1. InSeq(ClearMsg, outCh)
        BY <1>1, <2>1, <3>3 DEF NoneLeft
      <4> QED  BY <1>1, <4>1 DEF ClearBeyond
    <3> QED  BY <1>3, <2>1, <3>1, <3>2, <3>3 DEF NoneLeft, d
  <2>6. \A i \in 1..N : Ends(conns'[i].data, k) \/ ClearBeyond(i)'
    <3> SUFFICES ASSUME NEW i \in 1..N PROVE Ends(conns'[i].data, k) \/ ClearBeyond(i)'
      OBVIOUS
    <3>1. CASE i = N
      BY <1>3, <2>5, <3>1 DEF ClearBeyond
    <3>2. CASE i # N
      <4>1. i \in 0..(N - 1) /\ conns'[i] = conns[i]
        BY <1>3, <3>2
      <4> QED  BY <2>1, <2>4, <4>1 DEF NoneLeft
    <3> QED  BY <3>1, <3>2
  <2>7. 0 \in 0..(N - 1)
    BY <1>3
  <2>8. entries'[ResourceOf(k)] # NoEntry => ClearBeyond(0)'
    BY <1>1, <2>1, <2>4, <2>7 DEF NoneLeft
  <2> QED  BY <1>1, <1>3, <2>1, <2>6, <2>8 DEF NoneLeft
<1>6. ASSUME store[k] # NoEntry, Answered' PROVE Chain(k)' = store[k]
  <2>1. N = 1 /\ Answered
    BY <1>1, <1>3, <1>6 DEF Answered, Linked
  <2> DEFINE e == entries[ResourceOf(k)]
  <2>2. Chain(k) = store[k] /\ Chain(k) = After(AfterSet(After(e, d, k), todo, k), outCh, k)
    BY <1>2, <1>6, <2>1 DEF KeyOK, Chain, d
  <2>3. Chain(k)' = After(AfterSet(After(e, Append(d, m), k), todo \ {m}, k), outCh, k)
    BY <1>1, <1>3, <2>1 DEF Chain
  <2> HIDE DEF e
  <2>4. AfterSet(After(e, Append(d, m), k), todo \ {m}, k) = AfterSet(After(e, d, k), todo, k)
    <3>1. \A m1 \in todo, m2 \in todo : About(m1, k) /\ About(m2, k) => m1 = m2
      BY DEF Shape, OneEach
    <3>2. CASE About(m, k)
      <4>1. \A x \in todo \ {m} : ~About(x, k)
        BY <3>1, <3>2
      <4>2. After(e, Append(d, m), k) = Says(m, k)
        BY <1>2, <1>4, <3>2, AfterAppend
      <4>3. AfterSet(Says(m, k), todo \ {m}, k) = Says(m, k)
        BY <4>1, AfterSetNone
      <4>4. AfterSet(After(e, d, k), todo, k) = Says(m, k)
        BY <3>1, <3>2, AfterSetOne
      <4> QED  BY <4>2, <4>3, <4>4
    <3>3. CASE ~About(m, k)
      <4>1. After(e, Append(d, m), k) = After(e, d, k)
        BY <1>2, <1>4, <3>3, AfterAppend
      <4>2. AfterSet(After(e, d, k), todo \ {m}, k) = AfterSet(After(e, d, k), todo, k)
        BY <3>3, AfterSetDrop
      <4> QED  BY <4>1, <4>2
    <3> QED  BY <3>2, <3>3
  <2> QED  BY <2>2, <2>3, <2>4
<1> QED  BY <1>1, <1>2, <1>5, <1>6, QueueKept DEF KeyOK
\* The connection closes with what serve held: a cache_clear among it costs
\* the keys without a state, unless another one is queued.
LEMMA TimeoutLeads ==
  ASSUME Shape, Leads, TransmitTimeout, ~clearing, NEW k \in Keys, Sole(k), k \notin lost'
  PROVE  KeyOK(k)'
<1>1. /\ UNCHANGED <<store, outCh, entries>> /\ conns # <<>> /\ todo' = {}
      /\ conns' = [conns EXCEPT ![N].open = FALSE]
      /\ k \notin lost
      /\ ClearMsg \in todo /\ ~InSeq(ClearMsg, outCh) => k \notin Uncleared
  BY DEF TransmitTimeout, Linked, cacheVars, proxyVars
<1>2. KeyOK(k) /\ ConnsOK
  BY <1>1, TypeParts DEF Leads, Shape
<1>3. /\ N' = N /\ ~conns'[N].open /\ \A j \in 1..N : conns'[j].data = conns[j].data
  BY <1>1, <1>2, CloseConns
<1>4. store[k] = NoEntry => NoneLeft(k)'
  <2> SUFFICES ASSUME store[k] = NoEntry PROVE NoneLeft(k)'
    OBVIOUS
  <2>1. ClearMsg \in todo => InSeq(ClearMsg, outCh)
    BY <1>1 DEF Uncleared
  <2>2. \A i : ClearBeyond(i) => ClearBeyond(i)'
    BY <1>1, <1>3, <2>1 DEF ClearBeyond
  <2>3. NoneLeft(k)
    BY <1>2 DEF KeyOK
  <2> QED  BY <1>1, <1>3, <2>2, <2>3 DEF NoneLeft
<1>5. ~Answered'
  BY <1>3 DEF Answered, Linked
<1> QED  BY <1>1, <1>2, <1>4, <1>5, QueueKept DEF KeyOK

\* The proxy died with all its connections and its event cache.
LEMMA PeerGoneLeads ==
  ASSUME Shape, Leads, PeerGone, ~clearing, NEW k \in Keys, Sole(k), k \notin lost'
  PROVE  KeyOK(k)'
<1>1. /\ UNCHANGED <<store, outCh, entries, conns, lost>> /\ todo' = {}
      /\ conns = <<>> /\ entries = NoEntries
  BY DEF PeerGone, cacheVars, proxyVars, Shape, LinkAlive
<1>2. KeyOK(k)
  BY <1>1 DEF Leads
<1>3. N' = 0 /\ 1..0 = {} /\ NoEntries[ResourceOf(k)] = NoEntry
  <2>1. conns' = <<>> /\ Len(<<>>) = 0 /\ 1..0 = {}
    BY <1>1
  <2>2. N' = 0
    BY <2>1 DEF N
  <2>3. ResourceOf(k) \in Resources
    BY DEF Resources
  <2> QED  BY <2>1, <2>2, <2>3 DEF NoEntries
<1>4. NoneLeft(k)'
  BY <1>1, <1>3 DEF NoneLeft
<1>5. ~Answered'
  BY <1>3 DEF Answered
<1> QED  BY <1>1, <1>2, <1>4, <1>5, QueueKept DEF KeyOK

-----------------------------------------------------------------------------
(* Steps of the proxy.                                                     *)

LEMMA AcceptLeads ==
  ASSUME Shape, Leads, Accept, ~clearing, NEW k \in Keys, Sole(k), k \notin lost'
  PROVE  KeyOK(k)'
<1>1. /\ UNCHANGED <<store, outCh, todo, entries, lost>> /\ conns # <<>>
      /\ conns' = [conns EXCEPT ![1].req = "sent"]
  BY DEF Accept, cacheVars, linkVars, proxyVars
<1>2. KeyOK(k) /\ ConnsOK /\ 1 \in 1..N
  BY <1>1, TypeParts, EndsOfConns DEF Leads, Shape
<1>3. /\ N' = N /\ conns'[1].req = "sent" /\ \A j \in 1..N : conns'[j].data = conns[j].data
  BY <1>1, <1>2, RequestConns
<1>4. store[k] = NoEntry => NoneLeft(k)'
  <2>1. \A i : ClearBeyond(i) => ClearBeyond(i)'
    BY <1>1, <1>3 DEF ClearBeyond
  <2> QED  BY <1>1, <1>2, <1>3, <2>1 DEF KeyOK, NoneLeft
<1>5. ~Answered'
  BY <1>3 DEF Answered
<1> QED  BY <1>1, <1>2, <1>4, <1>5, QueueKept DEF KeyOK

\* A connection goes that holds no cache_clear the keys without a state need.
LEMMA FirstGoneLeads ==
  ASSUME Shape, Leads, ~clearing, NEW k \in Keys, Sole(k), k \notin lost,
         conns # <<>>, conns' = Tail(conns), UNCHANGED <<store, outCh, todo, entries>>,
         store[k] = NoEntry /\ InSeq(ClearMsg, conns[1].data) => ClearBeyond(1)
  PROVE  KeyOK(k)'
<1>1. KeyOK(k) /\ ConnsOK /\ Waiting
  BY TypeParts DEF Leads, Shape
<1>2. /\ N' = N - 1 /\ N \in Nat /\ N >= 1
      /\ \A i \in 1..(N - 1) : conns'[i] = conns[i + 1]
  BY <1>1, CloseFirst
<1>3. store[k] = NoEntry => NoneLeft(k)'
  <2> SUFFICES ASSUME store[k] = NoEntry PROVE NoneLeft(k)'
    OBVIOUS
  <2>1. NoneLeft(k)
    BY <1>1 DEF KeyOK
  <2>2. \A i \in Nat : ClearBeyond(i + 1) => ClearBeyond(i)'
    <3> SUFFICES ASSUME NEW i \in Nat, NEW j \in 1..N, j > i + 1, InSeq(ClearMsg, conns[j].data)
                 PROVE  \E l \in 1..(N - 1) : l > i /\ InSeq(ClearMsg, conns'[l].data)
      BY <1>2 DEF ClearBeyond
    <3>1. j - 1 \in 1..(N - 1) /\ (j - 1) + 1 = j /\ j - 1 > i
      BY <1>2
    <3>2. conns'[j - 1] = conns[j]
      BY <1>2, <3>1
    <3> QED  BY <3>1, <3>2
  <2>3. ClearBeyond(0) => ClearBeyond(1)
    <3> SUFFICES ASSUME NEW j \in 1..N, j > 0, InSeq(ClearMsg, conns[j].data) PROVE ClearBeyond(1)
      BY DEF ClearBeyond
    <3>1. CASE j = 1
      BY <3>1
    <3>2. CASE j # 1
      <4>1. j > 1
        BY <1>2, <3>2
      <4> QED  BY <4>1 DEF ClearBeyond
    <3> QED  BY <3>1, <3>2
  <2>4. entries'[ResourceOf(k)] # NoEntry => ClearBeyond(0)'
    <3>1. ClearBeyond(0 + 1) => ClearBeyond(0)'
      BY <2>2
    <3> QED  BY <2>1, <2>3, <3>1 DEF NoneLeft
  <2>5. \A i \in 1..(N - 1) : Ends(conns'[i].data, k) \/ ClearBeyond(i)'
    <3> SUFFICES ASSUME NEW i \in 1..(N - 1) PROVE Ends(conns'[i].data, k) \/ ClearBeyond(i)'
      OBVIOUS
    <3>1. i + 1 \in 1..N /\ i \in Nat
      BY <1>2
    <3>2. Ends(conns[i + 1].data, k) \/ ClearBeyond(i + 1)
      BY <2>1, <3>1 DEF NoneLeft
    <3> QED  BY <1>2, <2>2, <3>1, <3>2
  <2> QED  BY <1>2, <2>1, <2>4, <2>5 DEF NoneLeft
<1>4. ~Answered'
  <2> SUFFICES ASSUME N' = 1 PROVE conns'[1].req # "taken"
    BY DEF Answered
  <2>1. 1 \in 1..(N - 1) /\ 1 + 1 = 2 /\ 2 \in 2..N
    <3>1. N = 2
      <4>1. N - 1 = 1 /\ N \in Nat
        BY <1>2
      <4> QED  BY <4>1
    <3> QED  BY <3>1
  <2>2. conns'[1] = conns[2]
    BY <1>2, <2>1
  <2> QED  BY <1>1, <2>1, <2>2 DEF Waiting
<1> QED  BY <1>1, <1>3, <1>4, QueueKept DEF KeyOK

LEMMA AcceptFailsLeads ==
  ASSUME Shape, Leads, AcceptFails, ~clearing, NEW k \in Keys, Sole(k), k \notin lost'
  PROVE  KeyOK(k)'
<1>1. /\ UNCHANGED <<store, outCh, todo, entries>> /\ conns # <<>> /\ conns' = Tail(conns)
      /\ k \notin lost
      /\ ~(/\ InSeq(ClearMsg, conns[1].data)
           /\ \A i \in 2..N : ~InSeq(ClearMsg, conns[i].data)
           /\ ClearMsg \notin todo /\ ~InSeq(ClearMsg, outCh) /\ k \in Uncleared)
  BY DEF AcceptFails, cacheVars, linkVars, proxyVars
<1>2. N \in Nat
  BY TypeParts, EndsOfConns DEF Shape
<1>3. ASSUME store[k] = NoEntry, InSeq(ClearMsg, conns[1].data) PROVE ClearBeyond(1)
  <2>1. k \in Uncleared
    BY <1>3 DEF Uncleared
  <2>2. CASE \E i \in 2..N : InSeq(ClearMsg, conns[i].data)
    <3>1. PICK i \in 2..N : InSeq(ClearMsg, conns[i].data)
      BY <2>2
    <3>2. i \in 1..N /\ i > 1
      BY <1>2
    <3> QED  BY <3>1, <3>2 DEF ClearBeyond
  <2>3. CASE ~\E i \in 2..N : InSeq(ClearMsg, conns[i].data)
    BY <1>1, <1>3, <2>1, <2>3 DEF ClearBeyond
  <2> QED  BY <2>2, <2>3
<1> QED  BY <1>1, <1>3, FirstGoneLeads

LEMMA DisconnectedLeads ==
  ASSUME Shape, Leads, Disconnected, ~clearing, NEW k \in Keys, Sole(k), k \notin lost'
  PROVE  KeyOK(k)'
<1>1. /\ UNCHANGED <<store, outCh, todo, entries, lost>> /\ conns # <<>> /\ conns' = Tail(conns)
      /\ conns[1].data = <<>>
  BY DEF Disconnected, cacheVars, linkVars, proxyVars
<1>2. ~InSeq(ClearMsg, <<>>)
  <2>1. Len(<<>>) = 0 /\ 1..0 = {}
    OBVIOUS
  <2> QED  BY <2>1 DEF InSeq
<1> QED  BY <1>1, <1>2, FirstGoneLeads

\* The proxy applies the first message of its connection.
LEMMA HandleLeads ==
  ASSUME Shape, Leads, HandleIncoming, ~clearing, NEW k \in Keys, Sole(k), k \notin lost'
  PROVE  KeyOK(k)'
<1> DEFINE d == conns[1].data  h == Head(d)  t == Tail(d)  r == ResourceOf(k)
<1>1. /\ UNCHANGED <<store, outCh, todo, lost>> /\ conns # <<>> /\ d # <<>>
      /\ entries' = IF h = ClearMsg THEN NoEntries ELSE Update(h)
      /\ conns' = [conns EXCEPT ![1].data = Tail(@)]
  BY DEF HandleIncoming, cacheVars, linkVars
<1>2. KeyOK(k) /\ ConnsOK /\ entries \in [Resources -> Values \cup {NoEntry}] /\ r \in Resources
  BY <1>1, TypeParts DEF Leads, Shape, ProxyOK, Resources
<1>3. /\ N' = N /\ 1 \in 1..N /\ conns'[1].data = t
      /\ \A j \in 1..N : conns'[j].open = conns[j].open /\ conns'[j].req = conns[j].req
      /\ \A j \in 1..N : j # 1 => conns'[j] = conns[j]
  BY <1>1, <1>2, ReadConns
<1>4. d \in Seq(Messages) /\ h \in Messages /\ t \in Seq(Messages)
  <2>1. d \in Seq(Messages)
    BY <1>2, <1>3, EndsOfConns
  <2> QED  BY <1>1, <2>1, HeadTail
<1>5. /\ InSeq(ClearMsg, d) <=> h = ClearMsg \/ InSeq(ClearMsg, t)
      /\ Ends(d, k) => Ends(t, k) /\ (h # ClearMsg /\ h.key = k => InSeq(ClearMsg, t))
      /\ \A v : After(v, d, k) = After(IF About(h, k) THEN Says(h, k) ELSE v, t, k)
  <2>1. InSeq(ClearMsg, d) <=> h = ClearMsg \/ InSeq(ClearMsg, t)
    BY <1>1, <1>4, InSeqTail
  <2>2. Ends(d, k) => Ends(t, k) /\ (h # ClearMsg /\ h.key = k => InSeq(ClearMsg, t))
    BY <1>1, <1>4, EndsTail
  <2>3. \A v : After(v, d, k) = After(IF About(h, k) THEN Says(h, k) ELSE v, t, k)
    BY <1>1, <1>4, AfterTail
  <2> QED  BY <2>1, <2>2, <2>3
<1>6. d = conns[1].data /\ r = ResourceOf(k)
  OBVIOUS
<1> HIDE DEF d, h, t, r
\* No other key has the resource of k.
<1>7. entries'[r] = IF About(h, k) THEN Says(h, k) ELSE entries[r]
  <2>1. CASE h = ClearMsg
    BY <1>1, <1>2, <2>1, ClearIsAbout DEF NoEntries
  <2>2. CASE h # ClearMsg
    <3>1. h.key \in Keys /\ entries' = [entries EXCEPT ![ResourceOf(h.key)] = h.val]
      BY <1>1, <1>4, <2>2, ValueIsEntry DEF Update, setDataValue
    <3>2. (About(h, k) <=> h.key = k) /\ Says(h, k) = h.val
      BY <2>2 DEF About, Says
    <3>3. CASE h.key = k
      BY <1>2, <1>6, <3>1, <3>2, <3>3
    <3>4. CASE h.key # k
      <4>1. ResourceOf(h.key) # r
        BY <1>6, <3>1, <3>4 DEF Sole
      <4> QED  BY <1>2, <3>1, <3>2, <3>4, <4>1
    <3> QED  BY <3>3, <3>4
  <2> QED  BY <2>1, <2>2
<1>8. store[k] = NoEntry => NoneLeft(k)'
  <2> SUFFICES ASSUME store[k] = NoEntry PROVE NoneLeft(k)'
    OBVIOUS
  <2>1. NoneLeft(k)
    BY <1>2 DEF KeyOK
  <2>2. \A i \in 1..N : ClearBeyond(i) => ClearBeyond(i)'
    <3> SUFFICES ASSUME NEW i \in 1..N, ClearBeyond(i) PROVE ClearBeyond(i)'
      OBVIOUS
    <3>1. \A j \in 1..N : j > i => conns'[j] = conns[j]
      BY <1>3
    <3> QED  BY <1>1, <1>3, <3>1 DEF ClearBeyond
  <2>3. InSeq(ClearMsg, t) => ClearBeyond(0)'
    BY <1>3 DEF ClearBeyond
  <2>4. h # ClearMsg /\ ClearBeyond(0) => ClearBeyond(0)'
    <3> SUFFICES ASSUME h # ClearMsg, ClearBeyond(0) PROVE ClearBeyond(0)'
      OBVIOUS
    <3>1. ASSUME NEW j \in 1..N, InSeq(ClearMsg, conns[j].data) PROVE InSeq(ClearMsg, conns'[j].data)
      <4>1. CASE j = 1
        <5>1. InSeq(ClearMsg, d)
          BY <1>6, <3>1, <4>1
        <5> QED  BY <1>3, <1>5, <4>1, <5>1
      <4>2. CASE j # 1
        BY <1>3, <3>1, <4>2
      <4> QED  BY <4>1, <4>2
    <3> QED  BY <1>1, <1>3, <3>1 DEF ClearBeyond
  <2>5. ClearBeyond(1) => ClearBeyond(0)'
    <3>1. ClearBeyond(1) => ClearBeyond(1)'
      BY <1>3, <2>2
    <3>2. ClearBeyond(1)' => ClearBeyond(0)'
      BY DEF ClearBeyond
    <3> QED  BY <3>1, <3>2
  <2>6. Ends(d, k) \/ ClearBeyond(1)
    BY <1>3, <1>6, <2>1 DEF NoneLeft
  <2>7. entries'[r] # NoEntry => ClearBeyond(0)'
    <3>1. CASE h = ClearMsg
      BY <1>7, <3>1, ClearIsAbout
    <3>2. CASE h # ClearMsg /\ h.key = k
      BY <1>5, <2>3, <2>5, <2>6, <3>2
    <3>3. CASE h # ClearMsg /\ h.key # k
      <4>1. entries'[r] = entries[r]
        BY <1>7, <3>3 DEF About
      <4> QED  BY <1>6, <2>1, <2>4, <3>3, <4>1 DEF NoneLeft
    <3> QED  BY <3>1, <3>2, <3>3
  <2>8. \A i \in 1..N : Ends(conns'[i].data, k) \/ ClearBeyond(i)'
    <3> SUFFICES ASSUME NEW i \in 1..N PROVE Ends(conns'[i].data, k) \/ ClearBeyond(i)'
      OBVIOUS
    <3>1. Ends(conns[i].data, k) \/ ClearBeyond(i)'
      BY <2>1, <2>2 DEF NoneLeft
    <3>2. CASE i = 1
      BY <1>3, <1>5, <1>6, <3>1, <3>2
    <3>3. CASE i # 1
      BY <1>3, <3>1, <3>3
    <3> QED  BY <3>2, <3>3
  <2>9. \A m \in todo' : m # ClearMsg /\ m.key = k => InSeq(ClearMsg, outCh')
    BY <1>1, <2>1 DEF NoneLeft
  <2> QED  BY <1>3, <1>6, <2>7, <2>8, <2>9 DEF NoneLeft
<1>9. ASSUME store[k] # NoEntry, Answered' PROVE Chain(k)' = store[k]
  <2>1. Answered
    BY <1>1, <1>3, <1>9 DEF Answered, Linked
  <2>2. Chain(k) = store[k] /\ Chain(k) = After(AfterSet(After(entries[r], d, k), todo, k), outCh, k)
    BY <1>2, <1>6, <1>9, <2>1 DEF KeyOK, Chain
  <2>3. Chain(k)' = After(AfterSet(After(entries'[r], t, k), todo, k), outCh, k)
    BY <1>1, <1>3, <1>6 DEF Chain
  <2>4. After(entries'[r], t, k) = After(entries[r], d, k)
    BY <1>5, <1>7
  <2> QED  BY <2>2, <2>3, <2>4
<1> QED  BY <1>1, <1>2, <1>8, <1>9, QueueKept DEF KeyOK

\* The proxy starts over with an empty event cache.
LEMMA CrashLeads ==
  ASSUME Shape, Leads, Crash, ~clearing, NEW k \in Keys, Sole(k), k \notin lost'
  PROVE  KeyOK(k)'
<1>1. /\ UNCHANGED <<store, outCh, todo>> /\ conns' = <<>> /\ entries' = NoEntries
      /\ lost' = {j \in lost : SomeAbout(outCh, j)}
  BY DEF Crash, cacheVars, linkVars
<1>2. QueueSays(k)
  BY <1>1 DEF Leads, KeyOK, QueueSays
<1>3. N' = 0 /\ 1..0 = {} /\ NoEntries[ResourceOf(k)] = NoEntry
  <2>1. Len(<<>>) = 0 /\ 1..0 = {}
    OBVIOUS
  <2>2. N' = 0
    BY <1>1, <2>1 DEF N
  <2>3. ResourceOf(k) \in Resources
    BY DEF Resources
  <2> QED  BY <2>1, <2>2, <2>3 DEF NoEntries
<1>4. NoneLeft(k)'
  BY <1>1, <1>3 DEF NoneLeft
<1>5. ~Answered'
  BY <1>3 DEF Answered
<1> QED  BY <1>1, <1>2, <1>4, <1>5, QueueKept DEF KeyOK

-----------------------------------------------------------------------------
LEMMA UnchangedLeads ==
  ASSUME Leads, UNCHANGED <<store, outCh, clearing, todo, conns, entries, lost>>
  PROVE  Leads'
BY DEF Leads, KeyOK, QueueSays, NoneLeft, ClearBeyond, Chain, Answered, Linked, N

LEMMA StepLeads ==
  ASSUME Shape, Leads, Next
  PROVE  Leads'
<1> SUFFICES ASSUME ~clearing', NEW k \in Keys, k \notin lost', Sole(k)
             PROVE  KeyOK(k)'
  BY DEF Leads
<1>1. CASE Clear
  BY <1>1, ClearLeads
<1>2. CASE ~Clear
  <2>1. ~clearing \/ Restart
    BY <1>2 DEF Next, Send, LinkStep, Dial, TakeOut, TakeStatus, Transmit, PeerGone, TransmitTimeout,
                ProxyStep, Accept, AcceptFails, HandleIncoming, Disconnected, Crash, cacheVars
  <2>2. CASE Restart
    <3>1. Leads'
      BY <2>2, UnchangedLeads DEF Restart, cacheVars, linkVars
    <3> QED  BY <3>1 DEF Leads
  <2>3. CASE ~Restart
    BY <1>2, <2>1, <2>3, SendLeads, DialLeads, TakeOutLeads, TakeStatusLeads, TransmitLeads,
       PeerGoneLeads, TimeoutLeads, AcceptLeads, AcceptFailsLeads, HandleLeads, DisconnectedLeads,
       CrashLeads DEF Next, LinkStep, ProxyStep
  <2> QED  BY <2>2, <2>3
<1> QED  BY <1>1, <1>2

LEMMA InitLeads == Init => Leads
<1> SUFFICES ASSUME Init, NEW k \in Keys PROVE KeyOK(k)
  BY DEF Leads
<1>1. outCh = <<>> /\ conns = <<>> /\ store[k] = NoEntry /\ Len(<<>>) = 0 /\ 1..0 = {}
  BY DEF Init, EmptyCache
<1>2. N = 0
  BY <1>1 DEF N
<1>3. ResourceOf(k) \in Resources
  BY DEF Resources
<1>4. NoneLeft(k)
  BY <1>1, <1>2, <1>3 DEF Init, NoneLeft, NoEntries
<1>5. QueueSays(k)
  BY <1>1 DEF QueueSays, SomeAbout
<1> QED  BY <1>1, <1>4, <1>5 DEF KeyOK

\* Whatever happened before - dropped messages, clears, timeouts, restarts of
\* the proxy -, on an answered connection the messages under way lead the
\* proxy to the state of every key that is not lost.
\* (link.go serve; cache.go Send, Clear, Snapshot; cep.go handleIncomingEvents)
THEOREM PeerFollowsAlways == Spec => []PeerFollows
<1>1. Init => Shape /\ Leads
  BY InitShape, InitLeads
<1>2. Shape /\ Leads /\ [Next]_vars => (Shape /\ Leads)'
  <2> SUFFICES ASSUME Shape, Leads, [Next]_vars PROVE Shape' /\ Leads'
    OBVIOUS
  <2>1. Shape'
    BY StepShape
  <2>2. CASE Next
    BY <2>1, <2>2, StepLeads
  <2>3. CASE UNCHANGED vars
    <3>1. Leads'
      BY <2>3, UnchangedLeads DEF vars, cacheVars, linkVars, proxyVars
    <3> QED  BY <2>1, <3>1
  <2> QED  BY <2>2, <2>3
<1>3. Shape /\ Leads => PeerFollows
  BY Follows
<1> QED  BY <1>1, <1>2, <1>3, PTL DEF Spec
=============================================================================
